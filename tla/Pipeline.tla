------------------------------ MODULE Pipeline ------------------------------
(***************************************************************************)
(* One request on its way through a mounted route: the handler that        *)
(* mountRoute() gives to Hono (packages/core/src/http/router.ts:336-408),  *)
(* executeHttpGuards(), composeInterceptors(), the TimeoutInterceptor and  *)
(* executeExceptionFilters().                                              *)
(*                                                                         *)
(* The interceptors are calls within calls; call i belongs to interceptor  *)
(* i, the last call to the handler.  A call whose timeout has fired leaves *)
(* the inner ones running.  Guards, interceptors, filters, schemas and the *)
(* handler are the program's: what they come to is left open.              *)
(***************************************************************************)
EXTENDS Naturals, Sequences

CONSTANTS MaxGuards, MaxInterceptors, MaxFilters   \* bounds: of a route

VARIABLES guards,        \* parameter: controllerGuards, then routeGuards
          interceptors,  \* parameter: of the controller, then of the route
          filters,       \* parameter: routeFilters, then controllerFilters
          parameters,    \* parameter: the method has decorated parameters
          validation,    \* parameter: the method has @Validate schemas
          passed,        \* guards that have let the request pass
          stage,         \* where the innermost call is
          call,          \* what each call of an interceptor, or the handler, came to
          answer,        \* what Hono answers the request with
          log            \* history: what has happened to the request

vars == <<guards, interceptors, filters, parameters, validation, passed, stage, call,
          answer, log>>
route == <<guards, interceptors, filters, parameters, validation>>

Kinds == {"wrap", "timeout"}
Core  == Len(interceptors) + 1

Init ==
    /\ guards \in 0..MaxGuards /\ filters \in 0..MaxFilters
    /\ \E n \in 0..MaxInterceptors : interceptors \in [1..n -> Kinds]
    /\ parameters \in BOOLEAN /\ validation \in BOOLEAN
    /\ passed = 0
    /\ stage = [at |-> "guards"]
    /\ call = [i \in 1..Core |-> "none"]
    /\ answer = "none"
    /\ log = {}

Note(what) == log' = log \union {what}
Settles(i, what) == call' = [call EXCEPT ![i] = what]

------------------------------------------------------------------------------
(* 1. Guards *)

\* canActivate() of the next guard.  An error it throws is Hono's to answer.
Guard(verdict) ==
    /\ stage.at = "guards" /\ passed < guards
    /\ CASE verdict = "true"  -> passed' = passed + 1 /\ UNCHANGED <<stage, answer, log>>
         [] verdict = "false" -> answer' = "403" /\ Note("denied")
                                 /\ stage' = [at |-> "over"] /\ UNCHANGED passed
         [] verdict = "throw" -> answer' = "error" /\ Note("guard threw")
                                 /\ stage' = [at |-> "over"] /\ UNCHANGED passed
    /\ UNCHANGED <<route, call>>

------------------------------------------------------------------------------
(* 2. Interceptors, on the way in and out *)

Allowed == (stage.at = "guards" /\ passed = guards) \/ stage.at = "inward"
Depth   == IF stage.at = "guards" THEN 1 ELSE stage.level

\* An interceptor calls next(); the core is next to the last.
Entering(i) == IF i + 1 = Core THEN [at |-> "core"] ELSE [at |-> "inward", level |-> i + 1]

Inward ==
    /\ Allowed /\ Depth < Core
    /\ stage' = Entering(Depth)
    /\ UNCHANGED <<route, passed, call, answer, log>>

\* One that does not call next().
ShortCircuit(what) ==
    /\ Allowed /\ Depth < Core /\ interceptors[Depth] = "wrap"
    /\ Settles(Depth, what)
    /\ stage' = [at |-> "over"]
    /\ Note(IF what = "error" THEN "interceptor threw" ELSE "short cut")
    /\ UNCHANGED <<route, passed, answer>>

\* Without interceptors the core follows the guards.
Straight ==
    /\ stage.at = "guards" /\ passed = guards /\ Core = 1
    /\ stage' = [at |-> "core"]
    /\ UNCHANGED <<route, passed, call, answer, log>>

\* Its next() has settled: it returns a value or throws as it likes, unless it
\* is a timeout, which passes on what came.
Outward(i, what) ==
    /\ i < Core /\ call[i] = "none" /\ call[i + 1] # "none"
    /\ what = call[i + 1] \/ (interceptors[i] = "wrap" /\ what \in {"value", "error"})
    /\ Settles(i, what)
    /\ IF what = "error" /\ call[i + 1] # "error" THEN Note("interceptor threw") ELSE UNCHANGED log
    /\ UNCHANGED <<route, passed, stage, answer>>

\* Which interceptors have been entered and wait for their next().
Waiting(i) ==
    /\ i < Core /\ call[i] = "none"
    /\ \/ stage.at \in {"core", "handler", "filters"}
       \/ stage.at = "inward" /\ i < stage.level
       \/ stage.at = "over" /\ \E j \in i + 1..Core : call[j] # "none"

\* The timer of a TimeoutInterceptor wins the race.
Timeout(i) ==
    /\ Waiting(i) /\ interceptors[i] = "timeout"
    /\ Settles(i, "error") /\ Note("timeout")
    /\ UNCHANGED <<route, passed, stage, answer>>

\* The outermost call settles the request.
Answer ==
    /\ answer = "none" /\ call[1] # "none"
    /\ answer' = call[1]
    /\ UNCHANGED <<route, passed, stage, call, log>>

------------------------------------------------------------------------------
(* 3. The core: arguments, the handler, the exception filters *)

Fails(why) == stage' = [at |-> "filters", next |-> 1] /\ Note(why)

\* The controller is resolved and the arguments are built, which validates them,
\* if the method has decorated parameters; otherwise it gets the context.
Prepare(valid) ==
    /\ stage.at = "core"
    /\ (parameters /\ validation) \/ valid
    /\ IF valid THEN stage' = [at |-> "handler"] /\ Note("handler") ELSE Fails("invalid")
    /\ UNCHANGED <<route, passed, call, answer>>

\* The controller's container cannot make it.
Unresolved ==
    /\ stage.at = "core"
    /\ Fails("unresolved")
    /\ UNCHANGED <<route, passed, call, answer>>

\* The handler returns, and what it returns is serialized, or either throws.
Handler(ok) ==
    /\ stage.at = "handler"
    /\ IF ok THEN Settles(Core, "value") /\ stage' = [at |-> "over"] /\ UNCHANGED log
       ELSE Fails("handler threw") /\ UNCHANGED call
    /\ UNCHANGED <<route, passed, answer>>

\* Mutant: an error that no filter answers is thrown on.
FilterRethrows(responds) ==
    /\ stage.at = "filters"
    /\ IF responds \/ stage.next > filters
       THEN /\ Settles(Core, IF responds /\ stage.next <= filters THEN "filtered" ELSE "error")
            /\ stage' = [at |-> "over"]
       ELSE stage' = [stage EXCEPT !.next = @ + 1] /\ UNCHANGED call
    /\ UNCHANGED <<route, passed, answer, log>>

\* A filter answers, or throws or returns something else and leaves it to the
\* next one, in the end the default filter, which always answers.
Filter(responds) ==
    /\ stage.at = "filters"
    /\ IF responds \/ stage.next > filters
       THEN /\ Settles(Core, IF responds /\ stage.next <= filters THEN "filtered" ELSE "default")
            /\ stage' = [at |-> "over"]
       ELSE stage' = [stage EXCEPT !.next = @ + 1] /\ UNCHANGED call
    /\ UNCHANGED <<route, passed, answer, log>>

Results == {"value", "error", "filtered", "default"}

Next ==
    \/ \E verdict \in {"true", "false", "throw"} : Guard(verdict)
    \/ Inward \/ Straight \/ Answer \/ Unresolved
    \/ \E what \in {"value", "error"} : ShortCircuit(what)
    \/ \E i \in 1..Len(interceptors) : Timeout(i) \/ \E what \in Results : Outward(i, what)
    \/ \E ok \in BOOLEAN : Prepare(ok) \/ Handler(ok) \/ Filter(ok)

Spec == Init /\ [][Next]_vars

------------------------------------------------------------------------------
(* Properties *)

\* The handler of a route runs only when all its guards have let the request
\* pass and the schemas have accepted it; and who was refused never gets there,
\* not even when timeouts have answered in the meantime
\* (router.ts:355-361, 380-385; guards/index.ts:85-98).
Guarded ==
    "handler" \in log =>
        /\ passed = guards
        /\ log \intersect {"denied", "guard threw", "invalid", "unresolved"} = {}

\* What the request is answered with has its reason, whatever the interceptors
\* do with what passes through them and whichever timers fire meanwhile: an error
\* reaches Hono only from guards, interceptors and timeouts, since those of the
\* core all end in a filter; 403 is for the refused; a filter answers only for an
\* error of the core, a value comes from the handler or an interceptor
\* (router.ts:355-407; exception-filters/index.ts:181-196).
AnswerHasReason ==
    /\ answer = "error" => log \intersect {"guard threw", "interceptor threw", "timeout"} # {}
    /\ answer = "403" <=> "denied" \in log
    /\ answer \in {"filtered", "default"} =>
           log \intersect {"invalid", "unresolved", "handler threw"} # {}
    /\ answer = "value" => "handler" \in log \/ \E i \in DOMAIN interceptors : interceptors[i] = "wrap"
=============================================================================
