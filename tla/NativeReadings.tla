--------------------------- MODULE NativeReadings ---------------------------
(***************************************************************************)
(* What the collector makes of the output of `ps' and `sysctl' (pure;      *)
(* observe/collector.go), and what the store accepts of it                 *)
(* (state/store.go).                                                       *)
(*                                                                         *)
(* A column that does not parse is None.  CPU and memory are percentages   *)
(* rounded to whole numbers; a name is what is left of it when it has been *)
(* made safe, None when nothing is.  The rows are a set: no two processes  *)
(* have one PID.                                                           *)
(***************************************************************************)
EXTENDS Integers, FiniteSets

CONSTANTS
  Names,        \* safe command names
  MaxSeconds,   \* math.MaxInt64, the largest elapsed time
  MaxUnsigned,  \* math.MaxUint64, the largest number of swapped bytes
  None

ASSUME ReadingsAssumption ==
  /\ MaxSeconds \in Nat /\ MaxUnsigned \in Nat
  /\ None \notin Int /\ None \notin Names

SecondsPerDay == 86400

\* A row of `ps'; without days, or without days and hours, the time is shorter.
Numbers == Int \cup {None}
ElapsedForms ==
  [days : Nat \cup {None}, hours : Nat \cup {None}, minutes : Nat, seconds : Nat]
Rows ==
  [pid : Numbers, ppid : Numbers, cpu : Numbers, mem : Numbers,
   etime : ElapsedForms, comm : Names \cup {None}]

-----------------------------------------------------------------------------
(* Elapsed time: mm:ss, hh:mm:ss or days-hh:mm:ss.                         *)

\* Arithmetic on 64-bit unsigned integers.
Wrapped(n) == n % (2 * (MaxSeconds + 1))

WellFormed(e) ==
  /\ e.days # None => e.hours # None
  /\ e.hours # None => e.hours =< 23
  /\ e.minutes =< 59 /\ e.seconds =< 59

OrZero(n) == IF n = None THEN 0 ELSE n

TimeOfDay(e) == OrZero(e.hours) * 3600 + e.minutes * 60 + e.seconds

\* What the form says, in numbers without a bound.
TrueElapsed(e) == OrZero(e.days) * SecondsPerDay + TimeOfDay(e)

\* Mutant of ElapsedFits: only the days are compared with the largest number.
ElapsedFitsByDays(e) == OrZero(e.days) =< MaxSeconds \div SecondsPerDay

ElapsedFits(e) ==
  /\ OrZero(e.days) =< MaxSeconds \div SecondsPerDay
  /\ TimeOfDay(e) =< MaxSeconds - Wrapped(OrZero(e.days) * SecondsPerDay)

ParsesElapsed(e) == WellFormed(e) /\ ElapsedFits(e)

\* The conversion to a signed integer.
Signed(n) == IF n > MaxSeconds THEN n - 2 * (MaxSeconds + 1) ELSE n

Elapsed(e) ==
  Signed(Wrapped(Wrapped(OrZero(e.days) * SecondsPerDay) + TimeOfDay(e)))

-----------------------------------------------------------------------------
(* Process rows.                                                           *)

\* Mutant of AcceptsRow: the process ID is not looked at.
AcceptsRowAnyPID(r) ==
  /\ r.pid # None
  /\ r.ppid # None /\ r.ppid >= 0
  /\ r.cpu # None /\ r.cpu >= 0
  /\ r.mem # None /\ r.mem >= 0 /\ r.mem =< 100
  /\ ParsesElapsed(r.etime)
  /\ r.comm # None

AcceptsRow(r) ==
  /\ r.pid # None /\ r.pid > 0
  /\ r.ppid # None /\ r.ppid >= 0
  /\ r.cpu # None /\ r.cpu >= 0
  /\ r.mem # None /\ r.mem >= 0 /\ r.mem =< 100
  /\ ParsesElapsed(r.etime)
  /\ r.comm # None

Observed(r) ==
  [comm |-> r.comm, pid |-> r.pid, ppid |-> r.ppid, cpu |-> r.cpu,
   mem |-> r.mem, elapsed |-> Elapsed(r.etime)]

Accepted(rows) == {r \in rows : AcceptsRow(r)}

-----------------------------------------------------------------------------
(* Memory.                                                                 *)

Pressures == {"normal", "warning", "critical"}

ParsePressure(level) ==
  CASE level = 1 -> "normal"
    [] level = 2 -> "warning"
    [] level = 4 -> "critical"
    [] OTHER     -> None

\* A quantity is the decimal number num / den and a unit, or nothing that is
\* recognised.
Units == {"B", "K", "M", "G", "T"}
Quantities == [num : Nat, den : Nat \ {0}, unit : Units] \cup {None}

Multiplier(unit) ==
  CASE unit = "B" -> 1
    [] unit = "K" -> 1024
    [] unit = "M" -> 1024 * 1024
    [] unit = "G" -> 1024 * 1024 * 1024
    [] unit = "T" -> 1024 * 1024 * 1024 * 1024

\* Half of a byte and more is a byte.
Rounded(num, den) ==
  num \div den + (IF 2 * (num % den) >= den THEN 1 ELSE 0)

\* Mutant of ByteQuantity: the fraction of a byte is dropped.
ByteQuantityTruncated(q) ==
  IF q = None THEN None
  ELSE LET bytes == (q.num * Multiplier(q.unit)) \div q.den IN
       IF bytes =< MaxUnsigned THEN bytes ELSE None

ByteQuantity(q) ==
  IF q = None THEN None
  ELSE LET bytes == Rounded(q.num * Multiplier(q.unit), q.den) IN
       IF bytes =< MaxUnsigned THEN bytes ELSE None

\* All three quantities must parse, one is kept.
ParseSwapUsed(swap) ==
  IF None \in {ByteQuantity(swap.total), ByteQuantity(swap.used), ByteQuantity(swap.free)}
  THEN None
  ELSE ByteQuantity(swap.used)

-----------------------------------------------------------------------------
(* The sample that the store accepts (validSample).                        *)

ValidProcess(p) ==
  /\ p.pid > 0 /\ p.ppid >= 0 /\ p.elapsed >= 0
  /\ p.cpu >= 0 /\ p.mem >= 0 /\ p.mem =< 100
  /\ p.comm \in Names

ValidQuality(processes, quality) ==
  /\ quality.accepted = Cardinality(processes)
  /\ quality.observed = quality.accepted + quality.rejected
  /\ quality.rejected >= 0
  /\ \/ quality.status = "complete" /\ quality.rejected = 0
     \/ quality.status = "degraded" /\ quality.rejected > 0

ValidSample(s) ==
  /\ s.processes # {}
  /\ s.pressure \in Pressures
  /\ \A p \in s.processes : ValidProcess(p)
  /\ ValidQuality(s.processes, s.quality)
=============================================================================
