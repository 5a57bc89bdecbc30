--------------------------- MODULE SampleBaseline ---------------------------
(***************************************************************************)
(* Sampling towards the seven-day baseline: the command `sample'           *)
(* (cli/app.go, observe/collector.go), the history it appends to, and what *)
(* `status' makes of the history (baseline/status.go).                     *)
(*                                                                         *)
(* There is no scheduler in the program: somebody runs `sample' again and  *)
(* again, at least Pause and at most Late ticks after the last time.  It   *)
(* runs three native commands one after the other, any of which may fail   *)
(* or say something else than expected, while time passes.  An append is   *)
(* what AtomicHistory promises.  The clock may be ahead at first and be set *)
(* right at any time.                                                      *)
(*                                                                         *)
(* Time goes on for ever: clock is the time of day, and at midnight all    *)
(* times are moved a day back, which changes nothing that status says.     *)
(***************************************************************************)
EXTENDS NativeReadings, BaselineStatus, HistoryBounds

CONSTANTS
  Outputs,             \* what `ps' may print: sets of rows
  Levels, Swaps,       \* what `sysctl' may print
  Pause, Late,         \* bounds on the ticks from one `sample' to the next
  Slow,                \* the most ticks that one `sample' takes
  MaxMisses,           \* the most failures of native commands in a row
  Jump,                \* how far ahead the clock may be at first
  MaxWrong             \* the most samples that are stored before it is set

ASSUME ScheduleAssumption ==
  /\ Pause \in Nat \ {0} /\ Late \in Nat /\ Pause =< Late
  /\ Slow \in Nat /\ Slow =< Late
  /\ MaxMisses \in Nat /\ Jump \in Nat /\ MaxWrong \in Nat

\* The rows of one output are of different processes.
ASSUME OutputsAssumption ==
  /\ \A rows \in Outputs :
       /\ rows \subseteq Rows /\ IsFiniteSet(rows)
       /\ \A r, s \in rows : r.pid = s.pid => r = s \/ r.pid = None
  /\ Swaps \subseteq [total : Quantities, used : Quantities, free : Quantities]

\* Midnight is the end of an interval.
ASSUME DayAssumption == Day % Interval = 0

VARIABLES
  clock,     \* the time of day, in ticks
  skew,      \* how far the clock of the machine is ahead
  since,     \* ticks since `sample' was last run
  misses,    \* failures of native commands in a row
  honest,    \* history: the clock has never been wrong
  kept,      \* the history
  stage,     \* what `sample' does next
  draft      \* what it has collected

time == <<clock, skew, since, honest>>
vars == <<clock, skew, since, misses, honest, kept, stage, draft>>

Midnight == Second * Day

History == INSTANCE AtomicHistory WITH sound <- TRUE

Empty == [rows |-> {}, pressure |-> None, swap |-> None, at |-> None]

\* The collected sample, as the store is given it.
Collected(d) ==
  [processes |-> {Observed(r) : r \in Accepted(d.rows)},
   pressure  |-> d.pressure,
   quality   |->
     [observed |-> Cardinality(d.rows),
      accepted |-> Cardinality(Accepted(d.rows)),
      rejected |-> Cardinality(d.rows \ Accepted(d.rows)),
      status   |-> IF d.rows = Accepted(d.rows) THEN "complete" ELSE "degraded"]]

-----------------------------------------------------------------------------
(* The command `sample'.                                                   *)

Invoke ==
  /\ stage = "idle" /\ since >= Pause
  /\ skew = 0 \/ Cardinality(kept) < MaxWrong
  /\ stage' = "processes" /\ since' = 0
  /\ UNCHANGED <<clock, skew, misses, honest, kept, draft>>

\* The command exits.
Return == stage' = "idle" /\ draft' = Empty

\* A native command fails, or prints what is not recognised.
Miss ==
  /\ misses < MaxMisses
  /\ misses' = misses + 1
  /\ Return
  /\ UNCHANGED <<time, kept>>

CollectProcesses(rows) ==
  /\ stage = "processes"
  /\ Accepted(rows) # {}
  /\ draft' = [draft EXCEPT !.rows = rows]
  /\ stage' = "pressure"
  /\ UNCHANGED <<time, misses, kept>>

ProcessesMissed ==
  /\ stage = "processes"
  /\ Miss

CollectPressure(level) ==
  /\ stage = "pressure"
  /\ ParsePressure(level) # None
  /\ draft' = [draft EXCEPT !.pressure = ParsePressure(level)]
  /\ stage' = "swap"
  /\ UNCHANGED <<time, misses, kept>>

PressureMissed ==
  /\ stage = "pressure"
  /\ Miss

\* Mutant of CollectSwap: the capture time is left out.
CollectSwapUntimed(swap) ==
  /\ stage = "swap"
  /\ ParseSwapUsed(swap) # None
  /\ draft' = [draft EXCEPT !.swap = [read |-> swap.used, bytes |-> ParseSwapUsed(swap)]]
  /\ stage' = "store"
  /\ UNCHANGED <<time, misses, kept>>

\* The capture time is taken when everything has been read.
CollectSwap(swap) ==
  /\ stage = "swap"
  /\ ParseSwapUsed(swap) # None
  /\ draft' = [draft EXCEPT !.swap = [read |-> swap.used, bytes |-> ParseSwapUsed(swap)],
                            !.at = clock + skew]
  /\ stage' = "store"
  /\ UNCHANGED <<time, misses, kept>>

SwapMissed ==
  /\ stage = "swap"
  /\ Miss

Stored(size) == [at |-> draft.at, bytes |-> size]

Store(size) ==
  /\ stage = "store"
  /\ ValidSample(Collected(draft))
  /\ History!AppendSample(Stored(size))
  /\ misses' = 0
  /\ Return
  /\ UNCHANGED time

\* The sample is not valid, or its time is in the history already, or it is
\* what the bounds would drop.
StoreRefused(size) ==
  /\ stage = "store"
  /\ \/ ~ValidSample(Collected(draft))
     \/ Named(kept, draft.at) # {}
     \/ Stored(size) \notin Kept(kept \cup {Stored(size)})
  /\ Return
  /\ UNCHANGED <<time, misses, kept>>

Sampler ==
  \/ Invoke
  \/ \E rows \in Outputs : CollectProcesses(rows)
  \/ \E level \in Levels : CollectPressure(level)
  \/ \E swap \in Swaps : CollectSwap(swap)
  \/ ProcessesMissed \/ PressureMissed \/ SwapMissed
  \/ \E size \in Sizes : Store(size) \/ StoreRefused(size)

-----------------------------------------------------------------------------
(* Time.                                                                   *)

OnTime == since < IF stage = "idle" THEN Late ELSE Slow

DayBack(t) == IF t = None THEN None ELSE t - Midnight

Tick ==
  /\ OnTime /\ since' = since + 1
  /\ IF clock + 1 < Midnight
     THEN clock' = clock + 1 /\ UNCHANGED <<kept, draft>>
     ELSE /\ clock' = 0
          /\ kept'  = {[s EXCEPT !.at = DayBack(s.at)] : s \in kept}
          /\ draft' = [draft EXCEPT !.at = DayBack(draft.at)]
  /\ UNCHANGED <<skew, misses, honest, stage>>

\* The clock that was ahead is set right.
SetClock ==
  /\ stage = "idle" /\ skew # 0
  /\ skew' = 0
  /\ UNCHANGED <<clock, since, misses, honest, kept, stage, draft>>

Init ==
  /\ clock = 0 /\ skew \in {0, Jump} /\ since = Pause /\ misses = 0 /\ honest = (skew = 0)
  /\ kept = {} /\ stage = "idle" /\ draft = Empty

Next == Sampler \/ Tick \/ SetClock

Spec == Init /\ [][Next]_vars

\* Time passes, the commands that were started go on, and the clock is set
\* right.
FairSpec == Spec /\ WF_vars(Tick \/ Sampler) /\ WF_vars(SetClock)

-----------------------------------------------------------------------------
(* Properties.                                                             *)

Stages == {"idle", "processes", "pressure", "swap", "store"}

\* The variables keep their types; the names in the history differ.
TypeOK ==
  /\ clock \in 0 .. Midnight - 1 /\ skew \in {0, Jump}
  /\ since \in 0 .. Late /\ misses \in 0 .. MaxMisses /\ honest \in BOOLEAN
  /\ kept \subseteq [at : Int, bytes : Sizes] /\ NamesDiffer(kept)
  /\ stage \in Stages
  /\ DOMAIN draft = {"rows", "pressure", "swap", "at"}
  /\ stage = "store" => draft.at \in Int

\* What has been collected stays as it was read until it is stored.
Drafted ==
  /\ stage \in {"pressure", "swap", "store"} =>
       draft.rows \in Outputs /\ Accepted(draft.rows) # {}
  /\ stage \in {"swap", "store"} => draft.pressure \in Pressures
  /\ stage = "store" =>
       \E swap \in Swaps :
         /\ ParseSwapUsed(swap) # None
         /\ draft.swap = [read |-> swap.used, bytes |-> ParseSwapUsed(swap)]

\* No sample is older than another by more than the greatest age.
WithinAge(S) == \A d, e \in S : d.at - MaxAge =< e.at

\* The inductive invariant.
Coherent == TypeOK /\ Drafted /\ IsFiniteSet(kept) /\ WithinAge(kept)

\* Whatever the native commands print, a sample that is complete is one the
\* store accepts: a bad row degrades it, and never costs it (parseProcesses
\* and validSample agree).
CollectedIsValid == stage = "store" => ValidSample(Collected(draft))

\* What is collected is what was read: no elapsed time has overflowed, and
\* the swapped bytes are the nearest number (parseElapsed, parseByteQuantity).
ReadingsExact ==
  stage = "store" =>
    /\ \A r \in Accepted(draft.rows) : Observed(r).elapsed = TrueElapsed(r.etime)
    /\ LET exact == draft.swap.read.num * Multiplier(draft.swap.read.unit)
           bytes == draft.swap.bytes * draft.swap.read.den
       IN  /\ 2 * (bytes - exact) =< draft.swap.read.den
           /\ 2 * (exact - bytes) < draft.swap.read.den

\* What the words of status mean, on times alone: two samples as far apart as
\* the target, and samples in enough days and intervals.
SpanCovered(S) ==
  \E d, e \in S : e.at - d.at >= TargetSpan * Second
Spread(S, length) == Cardinality({t \div (length * Second) : t \in TimesOf(S)})

\* status says coverage_ready when the history covers the target and at no
\* other time, and 100 percent when it spans it; and no two samples that
\* follow each other are further apart than the largest gap (Build).
StatusTellsTheTruth ==
  stage = "idle" /\ kept # {} =>
    /\ Ready(kept) <=> /\ SpanCovered(kept)
                       /\ Spread(kept, Day) >= MinDays
                       /\ Spread(kept, Interval) >= MinCoverage
    /\ progress(observedSpan(kept)) = 100 <=> SpanCovered(kept)
    /\ \A p \in Successors(kept) : p[2] - p[1] < (largestGap(kept) + 1) * Second

\* Pruning never takes back what sampling has achieved: once covered, the
\* history stays covered while `sample' is run in time and the clock is
\* right (Append, historyPrune and Build together).
ReadyStays == [][honest /\ Ready(kept) => Ready(kept')]_vars

\* Who runs `sample' in time gets there and stays there, through failures of
\* native commands and with a clock that was wrong for some time.
CoverageReached == <>[]Ready(kept)

-----------------------------------------------------------------------------
(* Schedules that keep what they achieve.                                  *)

\* The most ticks between two samples that are stored one after the other.
Gap == (MaxMisses + 1) * Late + Slow

\* As many days or intervals may two such samples be apart, and then the
\* target span meets enough of them.
Stride(length) == (Gap - 1) \div (length * Second) + 1
Meets(length, needed) == Stride(length) * (needed - 2) < TargetSpan \div length

\* Samples are far enough apart for the history to hold the target span of
\* them, within its number and its bytes, and close enough for the age limit
\* and for the days and intervals that status asks for.
Disciplined ==
  /\ Slow < Pause
  /\ TargetSpan * Second =< (MaxSamples - 1) * Pause - Slow
  /\ \E n \in Sizes : (\A m \in Sizes : m =< n) /\ MaxSamples * n =< MaxBytes
  /\ TargetSpan * Second + Gap =< MaxAge
  /\ Meets(Day, MinDays) /\ Meets(Interval, MinCoverage)

\* The time at which `sample' was last run, and 1 while that run goes on.
Begun   == clock - since
Running == IF stage = "idle" THEN 0 ELSE 1

\* The samples from one on took at least their number of pauses.
Spaced ==
  \A e \in kept :
    e.at + (Cardinality(From(kept, e.at)) - 1 + Running) * Pause - Slow =< Begun

\* No sample is followed by a gap that is too large, ...
Chained(S) ==
  \A d \in S : \/ \A e \in S : e.at =< d.at
              \/ \E e \in S : d.at < e.at /\ e.at =< d.at + Gap

\* ... and the last one is no longer ago than the failures since explain.
Recent == kept = {} \/ \E e \in kept : Begun - e.at =< (misses + Running) * Late

\* The invariant behind ReadyStays.
InStep ==
  honest => /\ skew = 0
            /\ Spaced /\ Chained(kept) /\ Recent
            /\ stage # "idle" => since =< Slow
            /\ stage = "store" => draft.at - Begun \in 0 .. Slow
=============================================================================
