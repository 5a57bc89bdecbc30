-------------------------- MODULE MCSampleBaseline --------------------------
(* Instances of SampleBaseline for TLC.                                    *)
EXTENDS SampleBaseline

\* The schedule of the instance is one that ReadyStays is proved for.
ASSUME InstanceAssumption == Disciplined

AnyTime == -60 .. 60

Etime(d, h, m, s) == [days |-> d, hours |-> h, minutes |-> m, seconds |-> s]
Row(pid, mem, etime) ==
  [pid |-> pid, ppid |-> 0, cpu |-> 0, mem |-> mem, etime |-> etime, comm |-> "name"]

\* With MaxSeconds = 2 days, 1 hour, 1 minute and 1 second.
Longest  == Row(2, 100, Etime(2, 1, 1, 1))
TooLong  == Row(3, 0, Etime(2, 1, 1, 2))
NotThere == Row(0, 0, Etime(None, None, 1, 2))
SomeOutputs == {{Longest}, {Longest, TooLong, NotThere}}

Quantity(num, den, unit) == [num |-> num, den |-> den, unit |-> unit]
Swap(used) ==
  [total |-> Quantity(2, 1, "K"), used |-> used, free |-> Quantity(0, 1, "B")]
\* With MaxUnsigned = 2048.
SomeSwaps == {Swap(Quantity(1, 2, "B")), Swap(Quantity(20485, 10, "B")), Swap(None)}
=============================================================================
