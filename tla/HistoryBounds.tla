---------------------------- MODULE HistoryBounds ----------------------------
(***************************************************************************)
(* Samples and the bounds of their history (pure; state/store.go).         *)
(***************************************************************************)
EXTENDS Integers, FiniteSets, FiniteSetsExt

CONSTANTS
  Time, Sizes,                   \* capture times and encoded sizes
  MaxSamples, MaxAge, MaxBytes   \* 672, 14 days, 128 MiB in the code

ASSUME BoundsAssumption ==
  /\ Time \subseteq Int /\ Sizes \subseteq Nat \ {0}
  /\ MaxSamples \in Nat \ {0} /\ MaxAge \in Nat /\ MaxBytes \in Nat

\* A sample is its capture time, which makes its file name, and its encoded size.
Sample == [at: Time, bytes: Sizes]

Bytes(S) == MapThenSumSet(LAMBDA e : e.bytes, S)

\* historyWithinBounds: the empty history is within bounds.
Fits(S) ==
  /\ Cardinality(S) =< MaxSamples
  /\ Bytes(S) =< MaxBytes
  /\ \A d, e \in S : d.at - MaxAge =< e.at

From(S, t) == {d \in S : d.at >= t}

\* Mutant of Kept: the history is pruned one entry below its bound.
KeptTooFew(S) ==
  {e \in S : Fits(From(S, e.at)) /\ Cardinality(From(S, e.at)) < MaxSamples}

\* historyPrune drops the oldest entry until the rest fits: what is kept is
\* every entry that fits together with all that are not older.
Kept(S) == {e \in S : Fits(From(S, e.at))}

Named(S, t) == {e \in S : e.at = t}

NamesDiffer(S) == \A d, e \in S : d.at = e.at => d = e
=============================================================================
