--------------------------- MODULE BaselineStatus ---------------------------
(***************************************************************************)
(* How far a set of samples covers the baseline (pure; baseline/status.go).*)
(*                                                                         *)
(* Times are counted in ticks since 1970, Second of them to a second, and  *)
(* may be negative.  A sample has the time at; the target, the interval    *)
(* and the day are in seconds.                                             *)
(***************************************************************************)
EXTENDS Integers, FiniteSets

CONSTANTS
  Second,        \* ticks in a second
  TargetSpan,    \* 7 days
  Interval,      \* 30 minutes
  Day,
  MinDays,       \* 7
  MinCoverage    \* 84 intervals

ASSUME BaselineAssumption ==
  /\ Second \in Nat \ {0} /\ TargetSpan \in Nat \ {0}
  /\ Interval \in Nat \ {0} /\ Day \in Nat \ {0}
  /\ MinDays \in Nat /\ MinCoverage \in Nat

-----------------------------------------------------------------------------
(* Integer division of Go, which rounds towards zero, and times.           *)

Quotient(a, b)  == IF a >= 0 THEN a \div b ELSE -((-a) \div b)
Remainder(a, b) == a - b * Quotient(a, b)

Unix(t)       == t \div Second   \* whole seconds, rounded down
Fraction(t)   == t % Second      \* the ticks beyond them
DateOf(t)     == t \div (Second * Day)

\* Mutant of elapsedWholeSeconds: the seconds are subtracted without looking
\* at the fractions.
elapsedCalendarSeconds(earlier, later) ==
  IF later =< earlier THEN 0 ELSE Unix(later) - Unix(earlier)

elapsedWholeSeconds(earlier, later) ==
  IF later =< earlier THEN 0
  ELSE Unix(later) - Unix(earlier) - (IF Fraction(later) < Fraction(earlier) THEN 1 ELSE 0)

progress(seconds) ==
  IF seconds =< 0 THEN 0
  ELSE IF seconds >= TargetSpan THEN 100
  ELSE Quotient(seconds, TargetSpan) * 100
       + Quotient(Remainder(seconds, TargetSpan) * 100, TargetSpan)

bucket(t) ==
  Quotient(Unix(t), Interval)
  - (IF Unix(t) < 0 /\ Remainder(Unix(t), Interval) # 0 THEN 1 ELSE 0)

-----------------------------------------------------------------------------
(* Build.                                                                  *)

TimesOf(S)    == {s.at : s \in S}
FirstOf(S)    == CHOOSE t \in TimesOf(S) : \A u \in TimesOf(S) : t =< u
LastOf(S)     == CHOOSE t \in TimesOf(S) : \A u \in TimesOf(S) : u =< t

\* The pairs of times that follow each other.
Successors(S) ==
  {p \in TimesOf(S) \X TimesOf(S) :
     p[1] < p[2] /\ ~\E t \in TimesOf(S) : p[1] < t /\ t < p[2]}

distinctIntervals(S) == Cardinality({bucket(t) : t \in TimesOf(S)})
distinctDays(S)      == Cardinality({DateOf(t) : t \in TimesOf(S)})
observedSpan(S)      == elapsedWholeSeconds(FirstOf(S), LastOf(S))

largestGap(S) ==
  CHOOSE g \in {0} \cup {elapsedWholeSeconds(p[1], p[2]) : p \in Successors(S)} :
    \A p \in Successors(S) : elapsedWholeSeconds(p[1], p[2]) =< g

blockers(S) ==
  {b \in {"span_incomplete", "observed_days_insufficient", "coverage_insufficient"} :
     \/ S = {}
     \/ b = "span_incomplete" /\ observedSpan(S) < TargetSpan
     \/ b = "observed_days_insufficient" /\ distinctDays(S) < MinDays
     \/ b = "coverage_insufficient" /\ distinctIntervals(S) < MinCoverage}

Ready(S) == blockers(S) = {}
=============================================================================
