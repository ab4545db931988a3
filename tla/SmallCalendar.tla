--------------------------- MODULE SmallCalendar ----------------------------
(* A calendar for Cron: days of two hours of two minutes, weeks of three days *)
(* and years of three months, which have three, two and three days.  As in    *)
(* the real one the numbers of most weekdays are numbers of months as well,   *)
(* and some months lack the last day.                                         *)
EXTENDS Naturals

FourYears == <<0, 3, 5, 8, 11, 13, 16, 19, 21, 24, 27, 29, 32>>

FirstYear == [day : 0..7, hour : 0..1, minute : 0..1]

AllDows == 0..3

SomeExprs ==
    [minute : {{0}, {0, 1}}, hour : {{0}, {1}, {0, 1}}, dom : SUBSET (1..3) \ {{}},
     month : {1..3, {3}, {2, 3}}, dow : {AllDows, {3}, {1, 2}}]

\* 0 0 1 * *
Monthly == {[minute |-> {0}, hour |-> {0}, dom |-> {1}, month |-> 1..3, dow |-> AllDows]}
==============================================================================
