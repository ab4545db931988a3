------------------------------- MODULE MCCore --------------------------------
(***************************************************************************)
(* The parts of the core in one configuration.  A behaviour exercises the  *)
(* one named by `part`; the variables of the others rest.                  *)
(***************************************************************************)
EXTENDS Core, TLC

CONSTANTS config, db, mailer, m1, m2, A, B, C, r1, r2, e1, e2

VARIABLE part

all == <<part, applicationVars, containerVars, emitterVars, pipelineVars>>

\* The root module provides config and mailer, which cannot be resolved; a
\* second module provides db.  Three lifecycle calls or signals.
MCWalk == <<config, mailer, config, mailer, db>>

\* Two modules: m1 provides A, which needs B and C, and B, which needs C; m2
\* provides C, which may need A or B; and what they export of this.
Provider(scope, deps, optional) == [scope |-> scope, deps |-> deps, optional |-> optional]
Declared(sa, sb, sc, opt, exports, needs, twin) ==
    m1 :> [exports |-> {A},
           providers |-> A :> Provider(sa, {B, C}, opt) @@ B :> Provider(sb, {C}, {})]
    @@ m2 :> [exports |-> exports,
              providers |-> C :> Provider(sc, needs, {})
                            @@ IF twin THEN B :> Provider("request", {}, {}) ELSE <<>>]

Scopes == {"singleton", "request", "transient"}
MCGraphs ==
    {Declared(sa, sb, sc, opt, exports, needs, FALSE) :
        sa, sc \in {"singleton", "request"}, sb \in Scopes,
        opt \in {{}, {B}}, exports \in {{}, {C}}, needs \in {{}, {A}}}
    \union {Declared("request", "request", sc, {}, {C}, needs, TRUE) :
                sc \in Scopes, needs \in {{A}, {B}}}
    \union {[Declared(sa, sb, "singleton", opt, {C}, needs, FALSE) EXCEPT ![m1].exports = {}] :
                sa, sb \in Scopes, opt \in {{}, {C}}, needs \in {{}, {B}}}

\* A pattern for two names and one for the first of them.
MCMatching == "user.*" :> {"user.created", "user.deleted"} @@ "user.created" :> {"user.created"}

PartsInit ==
    /\ part \in {"application", "container", "emitter", "pipeline"}
    /\ Init /\ (part # "application" => serial)
    /\ Container!Init
    /\ part # "container" => graph = Declared("singleton", "singleton", "singleton", {}, {}, {}, FALSE)
    /\ Emitter!Init /\ (part # "emitter" => throwOnError /\ calm)
    /\ Pipeline!Init
    /\ part # "pipeline" => /\ guards = 0 /\ interceptors = <<>> /\ filters = 0
                            /\ parameters /\ validation

Applications == /\ part = "application" /\ Next
                /\ UNCHANGED <<part, containerVars, emitterVars, pipelineVars>>
Containers   == /\ part = "container" /\ Container!Next
                /\ UNCHANGED <<part, applicationVars, emitterVars, pipelineVars>>
Emitters     == /\ part = "emitter" /\ Emitter!Next
                /\ UNCHANGED <<part, applicationVars, containerVars, pipelineVars>>
Pipelines    == /\ part = "pipeline" /\ Pipeline!Next
                /\ UNCHANGED <<part, applicationVars, containerVars, emitterVars>>

PartsNext == Applications \/ Containers \/ Emitters \/ Pipelines

PartsSpec == PartsInit /\ [][PartsNext]_all
==============================================================================
