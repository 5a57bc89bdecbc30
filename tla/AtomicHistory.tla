---------------------------- MODULE AtomicHistory ----------------------------
(***************************************************************************)
(* What Append of the sample store promises: an append adds its sample and *)
(* drops the oldest ones beyond the bounds, or changes nothing.  The       *)
(* promise is for a sound history: it lapses, for good, with a crash or a  *)
(* second call that fails.                                                 *)
(***************************************************************************)
EXTENDS HistoryBounds

VARIABLES kept, sound

Init == sound = TRUE /\ kept \subseteq Sample /\ Fits(kept) /\ NamesDiffer(kept)

AppendSample(s) ==
  /\ Named(kept, s.at) = {}
  /\ s \in Kept(kept \cup {s})
  /\ kept' = Kept(kept \cup {s})

Next ==
  \/ sound' = TRUE /\ \E s \in Sample : AppendSample(s)
  \/ sound' = FALSE

Spec == Init /\ [][Next]_<<kept, sound>>
=============================================================================
