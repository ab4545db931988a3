-------------------------------- MODULE Cron ---------------------------------
(***************************************************************************)
(* next() of packages/schedule/src/cron-parser.ts: the search for the next *)
(* instant that matches a cron expression of five fields.  One step is one *)
(* round of its loop.                                                      *)
(*                                                                         *)
(* An instant is a minute: a day counted from some first day, an hour and  *)
(* a minute.  The calendar is a parameter, and so are the sizes of days,   *)
(* weeks and years; `new Date(y, m, d, ...)` with a day or an hour past    *)
(* the end of its month or day is the one that many days or hours later.   *)
(* Left out: parsing, the sixth field, and daylight saving.                *)
(***************************************************************************)
EXTENDS Integers, Sequences, FiniteSetsExt

CONSTANTS Exprs,      \* expressions: the sets minute, hour, dom, month and dow
          Starts,     \* the instants a search begins at, the minute after `from`
          FirstDay,   \* the day on which each month begins, month after month
          Year,       \* months of a year
          Week,       \* days of a week
          Hours,      \* hours of a day
          Minutes,    \* minutes of an hour
          Span,       \* the days of maxYears
          MaxStalls   \* the minutes in `safety > 1_000_000` seconds

\* What the parameters must be.
CalendarAssumption ==
    /\ Year \in Nat \ {0} /\ Week \in Nat \ {0}
    /\ Hours \in Nat \ {0} /\ Minutes \in Nat \ {0}
    /\ Span \in Nat /\ MaxStalls \in Nat
    /\ FirstDay \in Seq(Nat) /\ Len(FirstDay) > 1
    /\ \A m, n \in 1..Len(FirstDay) : m < n => FirstDay[m] < FirstDay[n]
    /\ Starts \subseteq [day : Nat, hour : 0..(Hours - 1), minute : 0..(Minutes - 1)]
    /\ Exprs \subseteq [minute : SUBSET Nat, hour : SUBSET Nat,
                        dom : (SUBSET (Nat \ {0})) \ {{}},
                        month : SUBSET Nat, dow : SUBSET Nat]

\* The calendar goes on for a month beyond every search.
SpanAssumption ==
    \A s \in Starts : /\ FirstDay[1] <= s.day
                     /\ s.day + Span < FirstDay[Len(FirstDay) - 1]

VARIABLES expr, start,  \* parameters of the search: the expression, its first instant
          cur,          \* cur
          stalls,       \* safety, in minutes
          outcome       \* "searching", "found" (cur is returned) or "none" (null is)

vars == <<expr, start, cur, stalls, outcome>>

------------------------------------------------------------------------------
(* The calendar *)

Month(d) == CHOOSE m \in 1..(Len(FirstDay) - 1) : FirstDay[m] <= d /\ d < FirstDay[m + 1]

MonthOfYear(d) == ((Month(d) - 1) % Year) + 1 \* getMonth() + 1
DateOf(d)      == d - FirstDay[Month(d)] + 1  \* getDate()
WeekDay(d)     == d % Week                    \* getDay()

Midnight(d) == [day |-> d, hour |-> 0, minute |-> 0]

\* new Date(y, m, d, h + 1)
NextHour(t) ==
    IF t.hour + 1 < Hours THEN [t EXCEPT !.hour = @ + 1, !.minute = 0]
    ELSE Midnight(t.day + 1)

\* new Date(y, m, d, h, minute + 1)
NextMinute(t) ==
    IF t.minute + 1 < Minutes THEN [t EXCEPT !.minute = @ + 1] ELSE NextHour(t)

Earlier(t, u) ==
    \/ t.day < u.day
    \/ t.day = u.day /\ t.hour < u.hour
    \/ t.day = u.day /\ t.hour = u.hour /\ t.minute < u.minute

------------------------------------------------------------------------------
(* matches() *)

\* The five fields, each for itself.
InFields(e, t) ==
    /\ t.minute \in e.minute /\ t.hour \in e.hour
    /\ MonthOfYear(t.day) \in e.month /\ WeekDay(t.day) \in e.dow
    /\ DateOf(t.day) \in e.dom

\* dowField is fields[3], which is the month.
Matches(e, t) ==
    /\ t.minute \in e.minute /\ t.hour \in e.hour
    /\ MonthOfYear(t.day) \in e.month /\ WeekDay(t.day) \in e.dow
    /\ DateOf(t.day) \in e.dom \/ WeekDay(t.day) \in e.month

------------------------------------------------------------------------------
(* next() *)

Init ==
    /\ expr \in Exprs
    /\ start \in Starts
    /\ cur = start
    /\ stalls = 0
    /\ outcome = "searching"

\* cur <= cap, where cap lies Span days after `from`.
InSpan(t) == Earlier(t, [start EXCEPT !.day = @ + Span])

GoTo(t) ==
    /\ cur' = t
    /\ UNCHANGED <<expr, start, outcome>>

Answer(o) ==
    /\ outcome' = o
    /\ UNCHANGED <<expr, start, cur, stalls>>

\* The round goes past the return of a match.
Goes == outcome = "searching" /\ InSpan(cur) /\ ~Matches(expr, cur)

Found == outcome = "searching" /\ InSpan(cur) /\ Matches(expr, cur) /\ Answer("found")

GiveUp == outcome = "searching" /\ ~InSpan(cur) /\ Answer("none")

InMonth == MonthOfYear(cur.day) \in expr.month
InDay   == DateOf(cur.day) \in expr.dom
InHour  == cur.hour \in expr.hour

\* Mutant: getMonth() + 1 is taken for this month.
MonthJumpStays ==
    /\ Goes
    /\ ~InMonth
    /\ GoTo(Midnight(FirstDay[Month(cur.day)]))
    /\ UNCHANGED stalls

MonthJump ==
    /\ Goes
    /\ ~InMonth
    /\ GoTo(Midnight(FirstDay[Month(cur.day) + 1]))
    /\ UNCHANGED stalls

\* The next of the allowed days, in this month whether it has that day or not.
DayJump ==
    /\ Goes
    /\ InMonth /\ ~InDay
    /\ LET later == {d \in expr.dom : d >= DateOf(cur.day)}
       IN  \/ /\ later # {}
              /\ GoTo(Midnight(FirstDay[Month(cur.day)] + Min(later) - 1))
           \/ /\ later = {}
              /\ GoTo(Midnight(FirstDay[Month(cur.day) + 1] + Min(expr.dom) - 1))
    /\ UNCHANGED stalls

\* Mutant: the minutes are not reset.
HourJumpKeepsMinute ==
    /\ Goes
    /\ InMonth /\ InDay /\ ~InHour
    /\ GoTo([NextHour(cur) EXCEPT !.minute = cur.minute])
    /\ UNCHANGED stalls

HourJump ==
    /\ Goes
    /\ InMonth /\ InDay /\ ~InHour
    /\ GoTo(NextHour(cur))
    /\ UNCHANGED stalls

MinuteJump ==
    /\ Goes
    /\ InMonth /\ InDay /\ InHour
    /\ cur.minute \notin expr.minute
    /\ GoTo(NextMinute(cur))
    /\ UNCHANGED stalls

\* Only the day of the week does not match: the loop goes on by the second, as
\* long as `safety` lets it.
Stall ==
    /\ Goes
    /\ InMonth /\ InDay /\ InHour
    /\ cur.minute \in expr.minute
    /\ cur' = NextMinute(cur)
    /\ stalls' = stalls + 1
    /\ outcome' = IF stalls' > MaxStalls THEN "none" ELSE outcome
    /\ UNCHANGED <<expr, start>>

Next ==
    Found \/ GiveUp \/ MonthJump \/ DayJump \/ HourJump \/ MinuteJump \/ Stall

\* The loop runs on its own.
Spec == Init /\ [][Next]_vars
FairSpec == Spec /\ WF_vars(Next)

------------------------------------------------------------------------------
(* What the header of the file says an expression means *)

Lengths == {FirstDay[m + 1] - FirstDay[m] : m \in 1..(Len(FirstDay) - 1)}

AnyDate(e)    == \A n \in Lengths : 1..n \subseteq e.dom
AnyWeekDay(e) == 0..(Week - 1) \subseteq e.dow

\* 0 or 7 is Sunday (cron-parser.ts:28).
OnWeekDay(e, t) == WeekDay(t.day) \in {n % Week : n \in e.dow}

\* A restricted day of the month and a restricted day of the week are
\* alternatives (cron-parser.ts:224-225).
OnDay(e, t) ==
    \/ AnyDate(e) /\ OnWeekDay(e, t)
    \/ AnyWeekDay(e) /\ DateOf(t.day) \in e.dom
    \/ /\ ~AnyDate(e) /\ ~AnyWeekDay(e)
       /\ DateOf(t.day) \in e.dom \/ OnWeekDay(e, t)

Meant(e, t) ==
    /\ t.minute \in e.minute /\ t.hour \in e.hour
    /\ MonthOfYear(t.day) \in e.month
    /\ OnDay(e, t)

------------------------------------------------------------------------------
(* Properties *)

Passed ==
    {t \in [day : start.day..cur.day, hour : 0..(Hours - 1), minute : 0..(Minutes - 1)] :
        ~Earlier(t, start) /\ Earlier(t, cur)}

\* No day of the month that is asked for is missing from some month.
DaysExist(e) == AnyDate(e) \/ \A d \in e.dom : \A n \in Lengths : d <= n

\* However the search jumps over months, days and hours, it leaves out no
\* instant that is in all five fields (cron-parser.ts:133-199).
NothingSkipped ==
    DaysExist(expr) => \A t \in Passed : ~InFields(expr, t)

\* Expressions for which the month field taken for the day of the week does no
\* harm: every date will do, or no month asked for is the number of a weekday.
Harmless(e) ==
    /\ AnyDate(e) \/ (AnyWeekDay(e) /\ e.month \intersect 0..(Week - 1) = {})
    /\ \A n \in e.dow : n < Week \/ AnyWeekDay(e)

\* The search leaves out nothing, and what it returns for such expressions is what
\* they mean, and the first such instant (cron-parser.ts:111).
FindsTheFirst ==
    /\ NothingSkipped
    /\ outcome = "found" /\ Harmless(expr) /\ DaysExist(expr) =>
          Meant(expr, cur) /\ \A t \in Passed : ~Meant(expr, t)

\* The loop, which is synchronous and blocks the process, ends whatever the
\* expression, and whether it matches at all (cron-parser.ts:129-204).
Ends == <>(outcome # "searching")

\* cron-parser.ts:12 "0 0 1 * *  first of the month".
FindsWhatIsMeant == outcome = "found" => Meant(expr, cur)
==============================================================================
