------------------------ MODULE SampleBaselineProofs ------------------------
(***************************************************************************)
(* Proofs about SampleBaseline: the arithmetic of status and of the        *)
(* collector, the inductive invariant, and what status and the samples say *)
(* for every value of the constants.                                       *)
(***************************************************************************)
EXTENDS SampleBaseline, FiniteSetLemmas

-----------------------------------------------------------------------------
(* Bounded sets of numbers.                                                *)

LEMMA LeastInteger ==
  ASSUME NEW T, T \subseteq Int, T # {}, NEW b \in Int, \A t \in T : b =< t
  PROVE  \E x \in T : \A y \in T : x =< y
<1> DEFINE U == {t - b : t \in T}
<1>1. U \subseteq Nat /\ U # {}
  <2>1. \A t \in T : t \in Int /\ b =< t
    OBVIOUS
  <2>2. PICK t \in T : TRUE
    OBVIOUS
  <2>3. t - b \in U
    OBVIOUS
  <2> QED
    BY <2>1, <2>3
<1>2. \E u \in U : \A v \in U : u =< v
  <2> HIDE DEF U
  <2> QED
    BY <1>1, LeastNumber
<1>3. PICK x \in T : \A v \in U : x - b =< v
  BY <1>2
<1>4. \A y \in T : x - b =< y - b
  BY <1>3
<1>5. \A y \in T : x =< y
  BY <1>4
<1> QED
  BY <1>5

LEMMA GreatestInteger ==
  ASSUME NEW T, T \subseteq Int, T # {}, NEW b \in Int, \A t \in T : t =< b
  PROVE  \E x \in T : \A y \in T : y =< x
<1> DEFINE U == {b - t : t \in T}
<1>1. U \subseteq Nat /\ U # {}
  <2>1. \A t \in T : t \in Int /\ t =< b
    OBVIOUS
  <2>2. PICK t \in T : TRUE
    OBVIOUS
  <2>3. b - t \in U
    OBVIOUS
  <2> QED
    BY <2>1, <2>3
<1>2. \E u \in U : \A v \in U : u =< v
  <2> HIDE DEF U
  <2> QED
    BY <1>1, LeastNumber
<1>3. PICK x \in T : \A v \in U : b - x =< v
  BY <1>2
<1>4. \A y \in T : b - x =< b - y
  BY <1>3
<1>5. \A y \in T : y =< x
  BY <1>4
<1> QED
  BY <1>5

-----------------------------------------------------------------------------
(* Division.                                                               *)

LEMMA Division ==
  ASSUME NEW a \in Int, NEW b \in Nat \ {0}
  PROVE  /\ a \div b \in Int /\ a % b \in Int
         /\ a = b * (a \div b) + (a % b)
         /\ 0 =< a % b /\ a % b < b
BY SMT

LEMMA QuotientUnique ==
  ASSUME NEW b \in Nat \ {0}, NEW q \in Int, NEW r \in Int, NEW p \in Int, NEW s \in Int,
         b * q + r = b * p + s, 0 =< r, r < b, 0 =< s, s < b
  PROVE  q = p
<1>1. CASE q >= p + 1
  <2>1. b * q >= b * (p + 1)
    BY <1>1, SMT
  <2>2. b * (p + 1) = b * p + b
    BY SMT
  <2> QED
    BY <2>1, <2>2
<1>2. CASE p >= q + 1
  <2>1. b * p >= b * (q + 1)
    BY <1>2, SMT
  <2>2. b * (q + 1) = b * q + b
    BY SMT
  <2> QED
    BY <2>1, <2>2
<1> QED
  BY <1>1, <1>2

LEMMA DivisionNests ==
  ASSUME NEW a \in Int, NEW b \in Nat \ {0}, NEW c \in Nat \ {0}
  PROVE  (a \div b) \div c = a \div (b * c)
<1> DEFINE q == a \div b
           p == q \div c
           r == b * (q % c) + (a % b)
<1>1. b * c \in Nat \ {0}
  BY SMT
<1>2. q \in Int /\ p \in Int /\ r \in Int
  BY Division
<1>3. a = b * q + (a % b) /\ q = c * p + (q % c)
  BY Division
<1>4. a = (b * c) * p + r
  <2> DEFINE m == q % c
             n == a % b
  <2>1. m \in Int /\ n \in Int /\ a = b * q + n /\ q = c * p + m
    BY Division, <1>2, <1>3
  <2> HIDE DEF p, q, m, n
  <2>2. b * (c * p + m) = (b * c) * p + b * m
    BY <1>2, <2>1, SMT
  <2>3. (b * c) * p \in Int /\ b * m \in Int
    BY <1>2, <2>1, SMT
  <2>4. a = ((b * c) * p + b * m) + n
    BY <2>1, <2>2
  <2>5. a = (b * c) * p + (b * m + n)
    BY <2>1, <2>3, <2>4
  <2> QED
    BY <2>5 DEF m, n
<1>5. 0 =< r /\ r < b * c
  <2>1. q % c \in Int /\ 0 =< q % c /\ q % c =< c - 1
    BY <1>2, Division
  <2>2. a % b \in Int /\ 0 =< a % b /\ a % b < b
    BY Division
  <2> DEFINE m == q % c
             n == a % b
  <2>3. 0 =< b * m /\ b * m =< b * (c - 1)
    <3> HIDE DEF m
    <3> QED
      BY <2>1, SMT DEF m
  <2>4. b * (c - 1) = b * c - b
    BY SMT
  <2> QED
    BY <2>1, <2>2, <2>3, <2>4
<1>6. /\ a \div (b * c) \in Int /\ a % (b * c) \in Int
      /\ a = (b * c) * (a \div (b * c)) + (a % (b * c))
      /\ 0 =< a % (b * c) /\ a % (b * c) < b * c
  BY <1>1, Division
<1> DEFINE d == b * c
           s == a \div d
           t == a % d
<1>7. p = s
  <2> HIDE DEF p, r, d, s, t
  <2>1. d \in Nat \ {0} /\ p \in Int /\ r \in Int /\ s \in Int /\ t \in Int
    BY <1>1, <1>2, <1>6 DEF d, s, t
  <2>2. d * p + r = d * s + t
    BY <1>4, <1>6 DEF d, s, t
  <2>3. 0 =< r /\ r < d /\ 0 =< t /\ t < d
    BY <1>5, <1>6 DEF d, s, t
  <2> QED
    BY <2>1, <2>2, <2>3, QuotientUnique
<1> QED
  BY <1>7

LEMMA FloorReaches ==
  ASSUME NEW d \in Int, NEW n \in Int, NEW s \in Nat \ {0}
  PROVE  d \div s >= n <=> d >= n * s
<1> DEFINE q == d \div s
           r == d % s
<1>1. q \in Int /\ r \in Int /\ d = s * q + r /\ 0 =< r /\ r < s
  BY Division
<1> HIDE DEF q, r
<1>2. CASE q >= n
  <2>1. s * q >= s * n /\ s * n = n * s
    BY <1>1, <1>2, SMT
  <2>2. s * q \in Int /\ n * s \in Int
    BY <1>1, SMT
  <2>3. d >= n * s
    BY <1>1, <2>1, <2>2
  <2> QED
    BY <1>2, <2>3 DEF q
<1>3. CASE q + 1 =< n
  <2>1. s * (q + 1) =< s * n /\ s * n = n * s /\ s * (q + 1) = s * q + s
    BY <1>1, <1>3, SMT
  <2>2. s * q \in Int /\ n * s \in Int
    BY <1>1, SMT
  <2>3. ~ (d >= n * s) /\ ~ (q >= n)
    BY <1>1, <1>3, <2>1, <2>2
  <2> QED
    BY <2>3 DEF q
<1> QED
  BY <1>1, <1>2, <1>3

-----------------------------------------------------------------------------
(* The arithmetic of status.                                               *)

\* The bucket of a time is its interval counted from 1970, also before 1970
\* where the division of Go rounds up (distinctIntervals).
THEOREM BucketIsFloor ==
  ASSUME NEW t \in Int
  PROVE  bucket(t) = t \div (Second * Interval)
<1> USE BaselineAssumption
<1> DEFINE u == t \div Second
           m == -u
           k == m \div Interval
           r == m % Interval
<1>1. u \in Int /\ m \in Int
  BY Division
<1>2. u \div Interval = t \div (Second * Interval)
  BY DivisionNests
<1>3. bucket(t) = u \div Interval
  <2>1. CASE u >= 0
    BY <1>1, <2>1 DEF bucket, Quotient, Remainder, Unix
  <2>2. CASE u < 0
    <3>1. k \in Int /\ r \in Int /\ m = Interval * k + r /\ 0 =< r /\ r < Interval
      BY <1>1, Division
    <3>2. Quotient(u, Interval) = -k /\ Remainder(u, Interval) = u - Interval * (-k)
      BY <2>2 DEF Quotient, Remainder
    <3> DEFINE q == u \div Interval
               s == u % Interval
    <3>3. q \in Int /\ s \in Int /\ u = Interval * q + s /\ 0 =< s /\ s < Interval
      BY <1>1, Division
    <3>4. bucket(t) = Quotient(u, Interval) - (IF Remainder(u, Interval) # 0 THEN 1 ELSE 0)
      BY <2>2 DEF bucket, Unix
    <3>5. Interval * (-k) = -(Interval * k) /\ Interval * k \in Int
      <4> HIDE DEF k
      <4> QED
        BY <3>1, SMT
    <3>6. u = -(Interval * k) - r
      <4> HIDE DEF k, r, u
      <4> QED
        BY <1>1, <3>1, <3>5 DEF m
    <3>7. Remainder(u, Interval) = -r
      <4> HIDE DEF k, r, u
      <4> QED
        BY <1>1, <3>1, <3>2, <3>5, <3>6
    <3> HIDE DEF u, m, k, r, q, s
    <3>8. CASE r = 0
      <4>1. Interval * (-k) + 0 = Interval * q + s
        BY <3>1, <3>3, <3>5, <3>6, <3>8
      <4>2. -k = q
        BY <3>1, <3>3, <4>1, QuotientUnique
      <4> QED
        BY <3>2, <3>3, <3>4, <3>7, <3>8, <4>2 DEF q
    <3>9. CASE r # 0
      <4>1. Interval * (-k - 1) = -(Interval * k) - Interval
        BY <3>1, SMT
      <4>2. Interval * (-k - 1) + (Interval - r) = Interval * q + s
        BY <3>1, <3>3, <3>5, <3>6, <4>1
      <4>3. -k - 1 = q
        BY <3>1, <3>3, <3>9, <4>2, QuotientUnique
      <4> QED
        BY <3>1, <3>2, <3>3, <3>4, <3>7, <3>9, <4>3 DEF q
    <3> QED
      BY <3>8, <3>9
  <2> QED
    BY <1>1, <2>1, <2>2
<1> QED
  BY <1>2, <1>3

\* The seconds between two times are the whole seconds of their difference,
\* whatever their fractions are (elapsedWholeSeconds).
THEOREM ElapsedIsFloor ==
  ASSUME NEW a \in Int, NEW b \in Int
  PROVE  elapsedWholeSeconds(a, b) = IF b =< a THEN 0 ELSE (b - a) \div Second
<1> USE BaselineAssumption
<1>1. CASE b =< a
  BY <1>1 DEF elapsedWholeSeconds
<1>2. CASE ~ (b =< a)
  <2> DEFINE ua == a \div Second
             fa == a % Second
             ub == b \div Second
             fb == b % Second
             q  == (b - a) \div Second
             r  == (b - a) % Second
             x  == IF fb < fa THEN 1 ELSE 0
  <2>1. /\ ua \in Int /\ fa \in Int /\ a = Second * ua + fa /\ 0 =< fa /\ fa < Second
        /\ ub \in Int /\ fb \in Int /\ b = Second * ub + fb /\ 0 =< fb /\ fb < Second
    BY Division
  <2>2. q \in Int /\ r \in Int /\ b - a = Second * q + r /\ 0 =< r /\ r < Second
    <3>1. b - a \in Int
      OBVIOUS
    <3> QED
      BY <3>1, Division
  <2>3. elapsedWholeSeconds(a, b) = ub - ua - x
    BY <1>2 DEF elapsedWholeSeconds, Unix, Fraction
  <2> HIDE DEF ua, fa, ub, fb, q, r
  <2>4. Second * ub \in Int /\ Second * ua \in Int
    BY <2>1, SMT
  <2>5. Second * (ub - ua) = Second * ub - Second * ua
    BY <2>1, SMT
  <2>6. Second * (ub - ua - 1) = Second * ub - Second * ua - Second
    BY <2>1, SMT
  <2>7. CASE fb < fa
    <3>1. Second * (ub - ua - 1) + (fb - fa + Second) = Second * q + r
      BY <2>1, <2>2, <2>4, <2>6
    <3>2. ub - ua - 1 \in Int /\ fb - fa + Second \in Int
      BY <2>1
    <3>3. 0 =< fb - fa + Second /\ fb - fa + Second < Second
      BY <2>1, <2>7
    <3>4. ub - ua - 1 = q
      BY <2>2, <3>1, <3>2, <3>3, QuotientUnique
    <3> QED
      BY <1>2, <2>3, <2>7, <3>4 DEF q
  <2>8. CASE ~ (fb < fa)
    <3>1. Second * (ub - ua) + (fb - fa) = Second * q + r
      BY <2>1, <2>2, <2>4, <2>5
    <3>2. ub - ua \in Int /\ fb - fa \in Int
      BY <2>1
    <3>3. 0 =< fb - fa /\ fb - fa < Second
      BY <2>1, <2>8
    <3>4. ub - ua = q
      BY <2>2, <3>1, <3>2, <3>3, QuotientUnique
    <3> QED
      BY <1>2, <2>1, <2>3, <2>8, <3>4 DEF q
  <2> QED
    BY <2>7, <2>8
<1> QED
  BY <1>1, <1>2

LEMMA ElapsedType ==
  ASSUME NEW a \in Int, NEW b \in Int
  PROVE  elapsedWholeSeconds(a, b) \in Nat
<1> USE BaselineAssumption
<1>1. b - a \in Int /\ (b - a) \div Second \in Int
  BY Division
<1>2. CASE ~ (b =< a)
  <2>1. (b - a) \div Second >= 0
    BY <1>1, <1>2, FloorReaches
  <2> QED
    BY <1>1, <1>2, <2>1, ElapsedIsFloor
<1> QED
  BY <1>2, ElapsedIsFloor

LEMMA ElapsedReaches ==
  ASSUME NEW a \in Int, NEW b \in Int, NEW n \in Nat \ {0}
  PROVE  elapsedWholeSeconds(a, b) >= n <=> b - a >= n * Second
<1> USE BaselineAssumption
<1> DEFINE m == n * Second
           e == elapsedWholeSeconds(a, b)
<1>1. m \in Nat \ {0}
  BY SMT
<1>2. CASE b =< a
  <2>1. e = 0
    BY <1>2, ElapsedIsFloor
  <2> HIDE DEF m, e
  <2>2. ~ (b - a >= m) /\ ~ (e >= n)
    BY <1>1, <1>2, <2>1
  <2> QED
    BY <2>2 DEF m, e
<1>3. CASE ~ (b =< a)
  <2>1. e = (b - a) \div Second
    BY <1>3, ElapsedIsFloor
  <2>2. b - a \in Int
    OBVIOUS
  <2>3. (b - a) \div Second >= n <=> b - a >= n * Second
    BY <2>2, FloorReaches
  <2> HIDE DEF e
  <2>4. e >= n <=> b - a >= n * Second
    BY <2>1, <2>3
  <2> QED
    BY <2>4 DEF e
<1> QED
  BY <1>2, <1>3

\* A percentage is a whole number from 0 to 100, and it is 100 when the
\* target is reached and at no other time (progress).
THEOREM ProgressBounds ==
  ASSUME NEW s \in Nat
  PROVE  progress(s) \in 0 .. 100 /\ (progress(s) = 100 <=> s >= TargetSpan)
<1> USE BaselineAssumption
<1>1. CASE s = 0
  BY <1>1 DEF progress
<1>2. CASE s >= TargetSpan
  BY <1>2 DEF progress
<1>3. CASE s # 0 /\ ~ (s >= TargetSpan)
  <2> DEFINE q == s \div TargetSpan
             p == (s * 100) \div TargetSpan
  <2>1. q = 0
    <3>1. q \in Int /\ q >= 0
      BY Division, FloorReaches
    <3>2. ~ (q >= 1)
      BY <1>3, FloorReaches
    <3> QED
      BY <3>1, <3>2
  <2>2. p \in Int /\ p >= 0 /\ ~ (p >= 100)
    <3>1. s * 100 \in Int
      OBVIOUS
    <3>2. p >= 100 <=> s * 100 >= 100 * TargetSpan
      BY <3>1, FloorReaches
    <3>3. p >= 0 <=> s * 100 >= 0 * TargetSpan
      BY <3>1, FloorReaches
    <3> HIDE DEF p
    <3> QED
      BY <1>3, <3>1, <3>2, <3>3, Division DEF p
  <2>3. Quotient(s, TargetSpan) = 0 /\ Remainder(s, TargetSpan) = s
    BY <2>1 DEF Quotient, Remainder
  <2>4. progress(s) = p
    <3>1. progress(s) = Quotient(s, TargetSpan) * 100
                        + Quotient(Remainder(s, TargetSpan) * 100, TargetSpan)
      BY <1>3 DEF progress
    <3>2. Quotient(s * 100, TargetSpan) = p
      BY DEF Quotient
    <3> HIDE DEF p
    <3> QED
      BY <2>2, <2>3, <3>1, <3>2
  <2> HIDE DEF p
  <2> QED
    BY <1>3, <2>2, <2>4
<1> QED
  BY <1>1, <1>2, <1>3

-----------------------------------------------------------------------------
(* What status says of a history.                                          *)

Histories == {S \in SUBSET [at : Int, bytes : Sizes] : IsFiniteSet(S) /\ WithinAge(S)}

LEMMA TimesBounded ==
  ASSUME NEW S \in Histories, S # {}
  PROVE  /\ TimesOf(S) \subseteq Int /\ TimesOf(S) # {}
         /\ \A t, u \in TimesOf(S) : t - u =< MaxAge
         /\ \E b \in Int : \A t \in TimesOf(S) : b =< t
         /\ \E b \in Int : \A t \in TimesOf(S) : t =< b
<1> USE BoundsAssumption
<1>1. \A s \in S : s.at \in Int
  BY DEF Histories
<1>2. \A d, e \in S : d.at - MaxAge =< e.at
  BY DEF Histories, WithinAge
<1>3. TimesOf(S) \subseteq Int /\ TimesOf(S) # {}
  BY <1>1 DEF TimesOf
<1>4. \A t, u \in TimesOf(S) : t - u =< MaxAge
  BY <1>1, <1>2 DEF TimesOf
<1>5. PICK t \in TimesOf(S) : TRUE
  BY <1>3
<1>6. \A u \in TimesOf(S) : t - MaxAge =< u /\ u =< t + MaxAge
  BY <1>3, <1>4, <1>5
<1>7. t - MaxAge \in Int /\ t + MaxAge \in Int
  BY <1>3, <1>5
<1> QED
  BY <1>3, <1>4, <1>6, <1>7

LEMMA Ends ==
  ASSUME NEW S \in Histories, S # {}
  PROVE  /\ FirstOf(S) \in TimesOf(S) /\ \A u \in TimesOf(S) : FirstOf(S) =< u
         /\ LastOf(S) \in TimesOf(S) /\ \A u \in TimesOf(S) : u =< LastOf(S)
<1>1. /\ TimesOf(S) \subseteq Int /\ TimesOf(S) # {}
      /\ \E b \in Int : \A t \in TimesOf(S) : b =< t
      /\ \E b \in Int : \A t \in TimesOf(S) : t =< b
  BY TimesBounded
<1>2. \E t \in TimesOf(S) : \A u \in TimesOf(S) : t =< u
  BY <1>1, LeastInteger
<1>3. \E t \in TimesOf(S) : \A u \in TimesOf(S) : u =< t
  BY <1>1, GreatestInteger
<1>4. FirstOf(S) \in TimesOf(S) /\ \A u \in TimesOf(S) : FirstOf(S) =< u
  BY <1>2 DEF FirstOf
<1>5. LastOf(S) \in TimesOf(S) /\ \A u \in TimesOf(S) : u =< LastOf(S)
  BY <1>3 DEF LastOf
<1> QED
  BY <1>4, <1>5

LEMMA SpanOfEnds ==
  ASSUME NEW S \in Histories, S # {}
  PROVE  observedSpan(S) \in Nat /\ (observedSpan(S) >= TargetSpan <=> SpanCovered(S))
<1> USE BaselineAssumption
<1> DEFINE m == TargetSpan * Second
<1>1. TimesOf(S) \subseteq Int
  BY TimesBounded
<1>2. FirstOf(S) \in Int /\ LastOf(S) \in Int
  BY <1>1, Ends
<1>3. observedSpan(S) \in Nat
  BY <1>2, ElapsedType DEF observedSpan
<1>4. observedSpan(S) >= TargetSpan <=> LastOf(S) - FirstOf(S) >= m
  BY <1>2, ElapsedReaches DEF observedSpan
<1>5. m \in Int
  BY SMT
<1>6. SpanCovered(S) <=> \E t, u \in TimesOf(S) : u - t >= m
  BY DEF SpanCovered, TimesOf
<1> HIDE DEF m
<1>7. LastOf(S) - FirstOf(S) >= m <=> \E t, u \in TimesOf(S) : u - t >= m
  <2>1. ASSUME NEW t \in TimesOf(S), NEW u \in TimesOf(S), u - t >= m
        PROVE  LastOf(S) - FirstOf(S) >= m
    <3>1. FirstOf(S) =< t /\ u =< LastOf(S)
      BY Ends
    <3> QED
      BY <1>1, <1>2, <1>5, <2>1, <3>1
  <2>2. FirstOf(S) \in TimesOf(S) /\ LastOf(S) \in TimesOf(S)
    BY Ends
  <2> QED
    BY <2>1, <2>2
<1> QED
  BY <1>3, <1>4, <1>6, <1>7

LEMMA GapIsLargest ==
  ASSUME NEW S \in Histories, S # {}
  PROVE  /\ largestGap(S) \in Nat
         /\ \A p \in Successors(S) : elapsedWholeSeconds(p[1], p[2]) =< largestGap(S)
<1> USE BaselineAssumption, BoundsAssumption
<1> DEFINE G == {0} \cup {elapsedWholeSeconds(p[1], p[2]) : p \in Successors(S)}
<1>1. ASSUME NEW p \in Successors(S)
      PROVE  /\ elapsedWholeSeconds(p[1], p[2]) \in Nat
             /\ elapsedWholeSeconds(p[1], p[2]) =< MaxAge
  <2>1. p[1] \in TimesOf(S) /\ p[2] \in TimesOf(S)
    BY DEF Successors
  <2>2. p[1] \in Int /\ p[2] \in Int /\ p[2] - p[1] =< MaxAge
    BY <2>1, TimesBounded
  <2> DEFINE e == elapsedWholeSeconds(p[1], p[2])
             n == MaxAge + 1
             m == n * Second
  <2>3. e \in Nat
    BY <2>2, ElapsedType
  <2>4. n \in Nat \ {0}
    OBVIOUS
  <2>5. m \in Int /\ m >= n
    BY <2>4, SMT
  <2>6. e >= n <=> p[2] - p[1] >= m
    <3> HIDE DEF n
    <3> QED
      BY <2>2, <2>4, ElapsedReaches
  <2> HIDE DEF e, m
  <2>7. e =< MaxAge
    BY <2>2, <2>3, <2>5, <2>6
  <2> QED
    BY <2>3, <2>7 DEF e
<1>2. G \subseteq Int /\ G # {} /\ \A g \in G : g =< MaxAge
  BY <1>1
<1>3. \E g \in G : \A h \in G : h =< g
  <2> HIDE DEF G
  <2>1. MaxAge \in Int
    OBVIOUS
  <2> QED
    BY ONLY <1>2, <2>1, GreatestInteger
<1>4. \E g \in G : \A p \in Successors(S) : elapsedWholeSeconds(p[1], p[2]) =< g
  BY <1>3
<1>5. largestGap(S) = CHOOSE g \in G : \A p \in Successors(S) : elapsedWholeSeconds(p[1], p[2]) =< g
  BY DEF largestGap
<1>6. /\ largestGap(S) \in G
      /\ \A p \in Successors(S) : elapsedWholeSeconds(p[1], p[2]) =< largestGap(S)
  <2> HIDE DEF G
  <2> QED
    BY <1>4, <1>5, Zenon
<1>7. G \subseteq Nat
  BY <1>1
<1> QED
  BY <1>6, <1>7

LEMMA FewerThanSamples ==
  ASSUME NEW S \in Histories
  PROVE  distinctDays(S) = Spread(S, Day) /\ distinctIntervals(S) = Spread(S, Interval)
         /\ distinctDays(S) \in Nat /\ distinctIntervals(S) \in Nat
<1> USE BaselineAssumption
<1>1. TimesOf(S) \subseteq Int /\ IsFiniteSet(TimesOf(S))
  <2> DEFINE f == [s \in S |-> s.at]
  <2>1. f \in Surjection(S, TimesOf(S))
    BY DEF Surjection, TimesOf
  <2>2. IsFiniteSet(S) /\ S \subseteq [at : Int, bytes : Sizes]
    BY DEF Histories
  <2>3. IsFiniteSet(TimesOf(S))
    <3> HIDE DEF f
    <3> QED
      BY <2>1, <2>2, FS_Surjection
  <2>4. \A s \in S : s.at \in Int
    BY <2>2
  <2> QED
    BY <2>3, <2>4 DEF TimesOf
<1>2. Day * Second = Second * Day /\ Interval * Second = Second * Interval
  BY SMT
<1>3. {DateOf(t) : t \in TimesOf(S)} = {t \div (Day * Second) : t \in TimesOf(S)}
  BY <1>2 DEF DateOf
<1>4. {bucket(t) : t \in TimesOf(S)} = {t \div (Interval * Second) : t \in TimesOf(S)}
  BY <1>1, <1>2, BucketIsFloor
<1>5. /\ IsFiniteSet({DateOf(t) : t \in TimesOf(S)})
      /\ IsFiniteSet({bucket(t) : t \in TimesOf(S)})
  <2> DEFINE D == {DateOf(t) : t \in TimesOf(S)}
             B == {bucket(t) : t \in TimesOf(S)}
             f == [t \in TimesOf(S) |-> DateOf(t)]
             g == [t \in TimesOf(S) |-> bucket(t)]
  <2>1. f \in Surjection(TimesOf(S), D) /\ g \in Surjection(TimesOf(S), B)
    BY DEF Surjection
  <2> HIDE DEF f, g, D, B
  <2>2. IsFiniteSet(D) /\ IsFiniteSet(B)
    BY <1>1, <2>1, FS_Surjection
  <2> QED
    BY <2>2 DEF D, B
<1> QED
  BY <1>3, <1>4, <1>5, FS_CardinalityType DEF distinctDays, distinctIntervals, Spread

LEMMA StatusOfHistory ==
  ASSUME NEW S \in Histories, S # {}
  PROVE  /\ Ready(S) <=> /\ SpanCovered(S)
                         /\ Spread(S, Day) >= MinDays
                         /\ Spread(S, Interval) >= MinCoverage
         /\ progress(observedSpan(S)) = 100 <=> SpanCovered(S)
         /\ \A p \in Successors(S) : p[2] - p[1] < (largestGap(S) + 1) * Second
<1> USE BaselineAssumption
<1>1. observedSpan(S) \in Nat /\ (observedSpan(S) >= TargetSpan <=> SpanCovered(S))
  BY SpanOfEnds
<1>2. progress(observedSpan(S)) = 100 <=> SpanCovered(S)
  BY <1>1, ProgressBounds
<1>3. Ready(S) <=> /\ SpanCovered(S)
                   /\ Spread(S, Day) >= MinDays
                   /\ Spread(S, Interval) >= MinCoverage
  <2>1. Ready(S) <=> ~ \/ observedSpan(S) < TargetSpan
                       \/ distinctDays(S) < MinDays
                       \/ distinctIntervals(S) < MinCoverage
    BY DEF Ready, blockers
  <2> QED
    BY <1>1, <2>1, FewerThanSamples
<1>4. ASSUME NEW p \in Successors(S)
      PROVE  p[2] - p[1] < (largestGap(S) + 1) * Second
  <2> DEFINE e == elapsedWholeSeconds(p[1], p[2])
             n == largestGap(S) + 1
             m == n * Second
  <2>1. p[1] \in TimesOf(S) /\ p[2] \in TimesOf(S)
    BY DEF Successors
  <2>2. p[1] \in Int /\ p[2] \in Int
    BY <2>1, TimesBounded
  <2>3. e \in Nat /\ largestGap(S) \in Nat /\ e =< largestGap(S)
    BY <2>2, ElapsedType, GapIsLargest
  <2>4. n \in Nat \ {0}
    BY <2>3
  <2>5. e >= n <=> p[2] - p[1] >= m
    <3> HIDE DEF n
    <3> QED
      BY <2>2, <2>4, ElapsedReaches
  <2>6. ~ (e >= n)
    <3> HIDE DEF e
    <3> QED
      BY <2>3
  <2>7. m \in Int
    <3> HIDE DEF n
    <3> QED
      BY <2>4, SMT
  <2> HIDE DEF e, m
  <2>8. p[2] - p[1] < m
    BY <2>2, <2>5, <2>6, <2>7
  <2> QED
    BY <2>8 DEF m
<1> QED
  BY <1>2, <1>3, <1>4

-----------------------------------------------------------------------------
(* The arithmetic of the collector.                                        *)

\* An elapsed time that is accepted has not overflowed (parseElapsed).
THEOREM ElapsedExact ==
  ASSUME NEW e \in ElapsedForms, ParsesElapsed(e)
  PROVE  Elapsed(e) = TrueElapsed(e) /\ Elapsed(e) \in 0 .. MaxSeconds
<1> USE ReadingsAssumption
<1> DEFINE d == OrZero(e.days)
           t == TimeOfDay(e)
           n == d * SecondsPerDay
           w == 2 * (MaxSeconds + 1)
<1>1. d \in Nat /\ t \in Nat /\ n \in Nat
  BY DEF OrZero, TimeOfDay, ElapsedForms, SecondsPerDay
<1>2. n =< MaxSeconds
  <2>1. d =< MaxSeconds \div 86400
    BY DEF ParsesElapsed, ElapsedFits, SecondsPerDay
  <2> HIDE DEF d
  <2> QED
    BY <1>1, <2>1 DEF SecondsPerDay
<1>3. ASSUME NEW k \in Nat, k =< MaxSeconds
      PROVE  Wrapped(k) = k
  <2>1. w \in Nat \ {0} /\ k < w
    BY <1>3
  <2> DEFINE q == k \div w
             r == k % w
  <2>2. q \in Int /\ r \in Int /\ k = w * q + r /\ 0 =< r /\ r < w
    <3>1. k \in Int
      OBVIOUS
    <3> HIDE DEF w
    <3> QED
      BY ONLY <2>1, <3>1, Division DEF q, r
  <2> HIDE DEF w, q, r
  <2>3. w * 0 + k = w * q + r
    BY <2>1, <2>2
  <2>4. q = 0
    BY <2>1, <2>2, <2>3, QuotientUnique
  <2>5. k = r
    BY <2>1, <2>2, <2>4
  <2> QED
    BY <2>5 DEF Wrapped, w, r
<1>4. Wrapped(n) = n
  BY <1>1, <1>2, <1>3
<1>5. n + t \in Nat /\ n + t =< MaxSeconds
  <2>1. t =< MaxSeconds - Wrapped(n)
    BY DEF ParsesElapsed, ElapsedFits
  <2> HIDE DEF n, t
  <2> QED
    BY <1>1, <1>2, <1>4, <2>1
<1>6. Wrapped(n + t) = n + t
  BY <1>3, <1>5
<1>7. Elapsed(e) = Signed(Wrapped(Wrapped(n) + t))
  BY DEF Elapsed
<1> HIDE DEF n, t
<1>8. Elapsed(e) = n + t
  BY <1>4, <1>5, <1>6, <1>7 DEF Signed
<1> QED
  BY <1>1, <1>5, <1>8 DEF TrueElapsed, n, t

\* The rounded quotient is within half of the quotient: no other whole number
\* is nearer (parseByteQuantity).
THEOREM RoundedNearest ==
  ASSUME NEW n \in Nat, NEW d \in Nat \ {0}
  PROVE  /\ Rounded(n, d) \in Int
         /\ 2 * (Rounded(n, d) * d - n) =< d
         /\ 2 * (n - Rounded(n, d) * d) < d
<1> DEFINE q == n \div d
           r == n % d
<1>1. q \in Int /\ r \in Int /\ n = d * q + r /\ 0 =< r /\ r < d
  BY Division
<1>2. Rounded(n, d) = q + (IF 2 * r >= d THEN 1 ELSE 0)
  BY DEF Rounded
<1> HIDE DEF q, r
<1>3. q * d = d * q /\ (q + 1) * d = d * q + d /\ d * q \in Int
  BY <1>1, SMT
<1>4. CASE 2 * r >= d
  <2>1. Rounded(n, d) = q + 1
    BY <1>2, <1>4
  <2>2. Rounded(n, d) * d = d * q + d
    BY <1>3, <2>1
  <2> QED
    BY <1>1, <1>3, <1>4, <2>1, <2>2
<1>5. CASE ~ (2 * r >= d)
  <2>1. Rounded(n, d) = q
    BY <1>1, <1>2, <1>5
  <2>2. Rounded(n, d) * d = d * q
    BY <1>3, <2>1
  <2> QED
    BY <1>1, <1>3, <1>5, <2>1, <2>2
<1> QED
  BY <1>4, <1>5

LEMMA AcceptedIsValid ==
  ASSUME NEW r \in Rows, AcceptsRow(r)
  PROVE  ValidProcess(Observed(r))
<1> USE ReadingsAssumption
<1>1. r.etime \in ElapsedForms /\ r.comm \in Names
  BY DEF Rows, AcceptsRow
<1>2. Elapsed(r.etime) >= 0
  BY <1>1, ElapsedExact DEF AcceptsRow
<1> QED
  BY <1>1, <1>2 DEF AcceptsRow, ValidProcess, Observed

\* A row that is not accepted costs nothing but itself: the others make a
\* sample that the store accepts (parseProcesses, Collect, validSample).
LEMMA AcceptedMakeSample ==
  ASSUME NEW rows \in Outputs, Accepted(rows) # {}, NEW d, d.rows = rows,
         d.pressure \in Pressures
  PROVE  ValidSample(Collected(d))
<1> DEFINE A == Accepted(rows)
           P == {Observed(r) : r \in A}
           f == [r \in A |-> Observed(r)]
           quality == [observed |-> Cardinality(rows),
                       accepted |-> Cardinality(A),
                       rejected |-> Cardinality(rows \ A),
                       status   |-> IF rows = A THEN "complete" ELSE "degraded"]
<1>1. rows \subseteq Rows /\ IsFiniteSet(rows)
  BY OutputsAssumption
<1>2. A \subseteq rows
  BY DEF Accepted
<1>3. f \in Bijection(A, P)
  <2>1. \A r, s \in A : Observed(r) = Observed(s) => r = s
    <3>1. \A r \in A : r.pid # None
      BY DEF Accepted, AcceptsRow
    <3>2. \A r, s \in A : r.pid = s.pid => r = s
      BY <1>2, <3>1, OutputsAssumption
    <3>3. \A r \in A : Observed(r).pid = r.pid
      BY DEF Observed
    <3> QED
      BY <3>2, <3>3
  <2>2. f \in [A -> P] /\ \A p \in P : \E r \in A : f[r] = p
    OBVIOUS
  <2>3. \A r, s \in A : f[r] = f[s] => r = s
    BY <2>1
  <2> HIDE DEF f, A, P
  <2> QED
    BY <2>2, <2>3 DEF Bijection, Injection, IsInjective, Surjection
<1>4. IsFiniteSet(A) /\ IsFiniteSet(rows \ A)
  BY <1>1, <1>2, FS_Subset
<1>5. Cardinality(P) = Cardinality(A)
  <2> HIDE DEF f, P, A
  <2>1. ExistsBijection(A, P)
    BY <1>3 DEF ExistsBijection
  <2> QED
    BY <1>4, <2>1, FS_Bijection
<1>6. /\ Cardinality(rows) \in Nat /\ Cardinality(A) \in Nat /\ Cardinality(rows \ A) \in Nat
      /\ Cardinality(rows) = Cardinality(A) + Cardinality(rows \ A)
  <2>1. A \cap (rows \ A) = {} /\ A \cup (rows \ A) = rows
    BY <1>2
  <2> HIDE DEF A
  <2>2. Cardinality(A \cup (rows \ A))
          = Cardinality(A) + Cardinality(rows \ A) - Cardinality(A \cap (rows \ A))
    BY <1>4, FS_Union
  <2>3. /\ Cardinality(rows) \in Nat /\ Cardinality(A) \in Nat
        /\ Cardinality(rows \ A) \in Nat /\ Cardinality({}) = 0
    BY <1>1, <1>4, FS_CardinalityType, FS_EmptySet
  <2>4. Cardinality(rows) = Cardinality(A) + Cardinality(rows \ A) - Cardinality({})
    BY ONLY <2>1, <2>2
  <2> QED
    BY ONLY <2>3, <2>4
<1>7. Cardinality(rows \ A) = 0 <=> rows = A
  <2> HIDE DEF A
  <2> QED
    BY <1>2, <1>4, FS_EmptySet
<1>8. ValidQuality(P, quality)
  <2> HIDE DEF A, P
  <2> QED
    BY <1>5, <1>6, <1>7 DEF ValidQuality
<1>9. Collected(d) = [processes |-> P, pressure |-> d.pressure, quality |-> quality]
  BY DEF Collected
<1>10. \A p \in P : ValidProcess(p)
  BY <1>1, <1>2, AcceptedIsValid DEF Accepted
<1>11. P # {}
  OBVIOUS
<1> HIDE DEF P, quality
<1> QED
  BY <1>8, <1>9, <1>10, <1>11 DEF ValidSample

-----------------------------------------------------------------------------
(* The inductive invariant.                                                *)

\* What is kept of a history with one more sample is a history whose names
\* differ.
LEMMA AppendKeeps ==
  ASSUME NEW S, S \subseteq [at : Int, bytes : Sizes], IsFiniteSet(S), NamesDiffer(S),
         NEW s \in [at : Int, bytes : Sizes], History!Named(S, s.at) = {}
  PROVE  LET K == History!Kept(S \cup {s}) IN
         /\ K \subseteq [at : Int, bytes : Sizes] /\ IsFiniteSet(K)
         /\ NamesDiffer(K) /\ WithinAge(K)
<1> USE BoundsAssumption
<1> DEFINE U == S \cup {s}
           K == History!Kept(U)
<1>1. K \subseteq U /\ U \subseteq [at : Int, bytes : Sizes]
  BY DEF History!Kept
<1>2. IsFiniteSet(K)
  <2>1. IsFiniteSet(U)
    BY FS_AddElement
  <2> HIDE DEF K, U
  <2> QED
    BY <1>1, <2>1, FS_Subset
<1>3. NamesDiffer(U)
  <2>1. \A d \in S : d.at # s.at
    BY DEF History!Named
  <2>2. \A d, e \in U : d.at = e.at => d = e
    BY <2>1 DEF NamesDiffer
  <2> QED
    BY <2>2 DEF NamesDiffer
<1>4. NamesDiffer(K)
  BY <1>1, <1>3 DEF NamesDiffer
<1>5. ASSUME NEW d \in K, NEW e \in K
      PROVE  d.at - MaxAge =< e.at
  <2>1. d.at \in Int /\ e.at \in Int
    BY <1>1
  <2>2. CASE d.at < e.at
    BY <2>1, <2>2
  <2>3. CASE d.at >= e.at
    <3>1. History!Fits(History!From(U, e.at))
      BY DEF History!Kept
    <3>2. d \in History!From(U, e.at) /\ e \in History!From(U, e.at)
      <4>1. e.at >= e.at
        BY <2>1
      <4>2. d \in U /\ e \in U
        <5> HIDE DEF K
        <5> QED
          BY ONLY <1>1, d \in K, e \in K
      <4> HIDE DEF U
      <4> QED
        BY <2>3, <4>1, <4>2 DEF History!From
    <3> HIDE DEF K, U
    <3> QED
      BY <3>1, <3>2 DEF History!Fits
  <2> QED
    BY <2>1, <2>2, <2>3
<1> HIDE DEF K
<1>6. WithinAge(K)
  BY <1>5 DEF WithinAge
<1> QED
  BY <1>1, <1>2, <1>4, <1>6 DEF K

LEMMA InitCoherent == Init => Coherent
<1> SUFFICES ASSUME Init
             PROVE  Coherent
  OBVIOUS
<1> USE BaselineAssumption, ScheduleAssumption, ReadingsAssumption
<1>1. Midnight \in Nat \ {0}
  BY SMT DEF Midnight
<1>2. TypeOK
  BY <1>1 DEF Init, TypeOK, NamesDiffer, Stages, Empty
<1>3. Drafted
  BY DEF Init, Drafted
<1>4. IsFiniteSet(kept) /\ WithinAge(kept)
  BY FS_EmptySet DEF Init, WithinAge
<1> QED
  BY <1>2, <1>3, <1>4 DEF Coherent

LEMMA InvokeCoherent ==
  ASSUME Coherent, Invoke
  PROVE  Coherent'
<1> USE ScheduleAssumption
<1>1. TypeOK'
  BY DEF Coherent, TypeOK, Invoke, Stages, NamesDiffer
<1>2. Drafted'
  BY DEF Invoke, Drafted
<1>3. IsFiniteSet(kept)' /\ WithinAge(kept)'
  BY DEF Coherent, Invoke, WithinAge
<1> QED
  BY <1>1, <1>2, <1>3 DEF Coherent

LEMMA MissCoherent ==
  ASSUME Coherent, Miss
  PROVE  Coherent'
<1> USE ScheduleAssumption
<1>1. stage' = "idle" /\ draft' = Empty /\ kept' = kept /\ UNCHANGED time
  BY DEF Miss, Return
<1>2. misses' \in 0 .. MaxMisses
  BY DEF Coherent, TypeOK, Miss
<1>3. TypeOK'
  BY <1>1, <1>2 DEF Coherent, TypeOK, Stages, NamesDiffer, Empty, time
<1>4. Drafted'
  BY <1>1 DEF Drafted
<1>5. IsFiniteSet(kept)' /\ WithinAge(kept)'
  BY <1>1 DEF Coherent, WithinAge
<1> QED
  BY <1>3, <1>4, <1>5 DEF Coherent

LEMMA CollectProcessesCoherent ==
  ASSUME Coherent, NEW rows \in Outputs, CollectProcesses(rows)
  PROVE  Coherent'
<1>1. /\ stage' = "pressure" /\ kept' = kept /\ misses' = misses /\ UNCHANGED time
      /\ DOMAIN draft' = DOMAIN draft /\ draft'.rows = rows
  BY DEF CollectProcesses, Coherent, TypeOK
<1>2. TypeOK'
  BY <1>1 DEF Coherent, TypeOK, Stages, NamesDiffer, time
<1>3. Drafted'
  BY <1>1 DEF Drafted, CollectProcesses
<1>4. IsFiniteSet(kept)' /\ WithinAge(kept)'
  BY <1>1 DEF Coherent, WithinAge
<1> QED
  BY <1>2, <1>3, <1>4 DEF Coherent

LEMMA CollectPressureCoherent ==
  ASSUME Coherent, NEW level \in Levels, CollectPressure(level)
  PROVE  Coherent'
<1> USE ReadingsAssumption
<1>1. /\ stage = "pressure" /\ stage' = "swap" /\ kept' = kept /\ misses' = misses
      /\ UNCHANGED time /\ DOMAIN draft' = DOMAIN draft /\ draft'.rows = draft.rows
      /\ draft'.pressure = ParsePressure(level) /\ ParsePressure(level) # None
  BY DEF CollectPressure, Coherent, TypeOK
<1>2. TypeOK'
  BY <1>1 DEF Coherent, TypeOK, Stages, NamesDiffer, time
<1>3. draft'.pressure \in Pressures
  BY <1>1 DEF ParsePressure, Pressures
<1>4. Drafted'
  BY <1>1, <1>3 DEF Drafted, Coherent
<1>5. IsFiniteSet(kept)' /\ WithinAge(kept)'
  BY <1>1 DEF Coherent, WithinAge
<1> QED
  BY <1>2, <1>4, <1>5 DEF Coherent

LEMMA CollectSwapCoherent ==
  ASSUME Coherent, NEW swap \in Swaps, CollectSwap(swap)
  PROVE  Coherent'
<1> USE ScheduleAssumption, BaselineAssumption
<1>1. /\ stage = "swap" /\ stage' = "store" /\ kept' = kept /\ misses' = misses
      /\ UNCHANGED time /\ DOMAIN draft' = DOMAIN draft /\ draft'.rows = draft.rows
      /\ draft'.pressure = draft.pressure /\ draft'.at = clock + skew
      /\ draft'.swap = [read |-> swap.used, bytes |-> ParseSwapUsed(swap)]
      /\ ParseSwapUsed(swap) # None
  BY DEF CollectSwap, Coherent, TypeOK
<1>2. clock + skew \in Int
  <2>1. Midnight \in Int
    BY SMT DEF Midnight
  <2> QED
    BY <2>1 DEF Coherent, TypeOK
<1>3. TypeOK'
  BY <1>1, <1>2 DEF Coherent, TypeOK, Stages, NamesDiffer, time
<1>4. Drafted'
  BY <1>1 DEF Drafted, Coherent
<1>5. IsFiniteSet(kept)' /\ WithinAge(kept)'
  BY <1>1 DEF Coherent, WithinAge
<1> QED
  BY <1>3, <1>4, <1>5 DEF Coherent

LEMMA StoreCoherent ==
  ASSUME Coherent, NEW size \in Sizes, Store(size)
  PROVE  Coherent'
<1> USE ScheduleAssumption
<1>1. /\ stage = "store" /\ stage' = "idle" /\ draft' = Empty /\ misses' = 0 /\ UNCHANGED time
      /\ History!Named(kept, Stored(size).at) = {}
      /\ kept' = History!Kept(kept \cup {Stored(size)})
  BY DEF Store, Return, History!AppendSample
<1>2. Stored(size) \in [at : Int, bytes : Sizes]
  BY <1>1 DEF Coherent, TypeOK, Stored
<1>3. /\ kept' \subseteq [at : Int, bytes : Sizes] /\ IsFiniteSet(kept')
      /\ NamesDiffer(kept') /\ WithinAge(kept')
  BY <1>1, <1>2, AppendKeeps DEF Coherent, TypeOK
<1>4. TypeOK'
  <2>1. NamesDiffer(kept)'
    BY <1>3 DEF NamesDiffer
  <2>2. misses' \in 0 .. MaxMisses /\ DOMAIN draft' = {"rows", "pressure", "swap", "at"}
    BY <1>1 DEF Empty
  <2> QED
    BY <1>1, <1>3, <2>1, <2>2 DEF Coherent, TypeOK, Stages, time
<1>5. Drafted'
  BY <1>1 DEF Drafted
<1> QED
  BY <1>3, <1>4, <1>5 DEF Coherent, WithinAge

LEMMA StoreRefusedCoherent ==
  ASSUME Coherent, NEW size \in Sizes, StoreRefused(size)
  PROVE  Coherent'
<1>1. stage' = "idle" /\ draft' = Empty /\ kept' = kept /\ misses' = misses /\ UNCHANGED time
  BY DEF StoreRefused, Return
<1>2. TypeOK'
  BY <1>1 DEF Coherent, TypeOK, Stages, NamesDiffer, Empty, time
<1>3. Drafted'
  BY <1>1 DEF Drafted
<1>4. IsFiniteSet(kept)' /\ WithinAge(kept)'
  BY <1>1 DEF Coherent, WithinAge
<1> QED
  BY <1>2, <1>3, <1>4 DEF Coherent

LEMMA SetClockCoherent ==
  ASSUME Coherent, SetClock
  PROVE  Coherent'
<1> USE ScheduleAssumption
<1>1. TypeOK'
  BY DEF Coherent, TypeOK, SetClock, NamesDiffer
<1>2. Drafted'
  BY DEF Coherent, Drafted, SetClock
<1>3. IsFiniteSet(kept)' /\ WithinAge(kept)'
  BY DEF Coherent, SetClock, WithinAge
<1> QED
  BY <1>1, <1>2, <1>3 DEF Coherent

LEMMA TickCoherent ==
  ASSUME Coherent, Tick
  PROVE  Coherent'
<1> USE ScheduleAssumption, BaselineAssumption, ReadingsAssumption
<1>1. Midnight \in Nat \ {0}
  BY SMT DEF Midnight
<1>2. since' \in 0 .. Late
  BY DEF Coherent, TypeOK, Tick, OnTime
<1>3. skew' = skew /\ misses' = misses /\ honest' = honest /\ stage' = stage
  BY DEF Tick
<1>4. CASE clock + 1 < Midnight
  <2>1. clock' = clock + 1 /\ kept' = kept /\ draft' = draft
    BY <1>4 DEF Tick
  <2>2. TypeOK'
    BY <1>1, <1>2, <1>3, <1>4, <2>1 DEF Coherent, TypeOK, NamesDiffer
  <2>3. Drafted'
    BY <1>3, <2>1 DEF Coherent, Drafted
  <2> QED
    BY <2>1, <2>2, <2>3 DEF Coherent, WithinAge
<1>5. CASE ~ (clock + 1 < Midnight)
  <2> DEFINE back(s) == [s EXCEPT !.at = DayBack(s.at)]
             f == [s \in kept |-> back(s)]
  <2>1. /\ clock' = 0 /\ kept' = {back(s) : s \in kept}
        /\ draft' = [draft EXCEPT !.at = DayBack(draft.at)]
    BY <1>5 DEF Tick
  <2>2. kept \subseteq [at : Int, bytes : Sizes] /\ NamesDiffer(kept)
    BY DEF Coherent, TypeOK
  <2>3. ASSUME NEW s \in kept
        PROVE  back(s) \in [at : Int, bytes : Sizes] /\ back(s).at = s.at - Midnight
    <3>1. s \in [at : Int, bytes : Sizes] /\ s.at \in Int /\ s.at # None
      BY <2>2
    <3>2. DayBack(s.at) = s.at - Midnight
      BY <3>1 DEF DayBack
    <3> QED
      BY <1>1, <3>1, <3>2
  <2>4. kept' \subseteq [at : Int, bytes : Sizes] /\ NamesDiffer(kept')
    <3>1. \A s, t \in kept : back(s).at = back(t).at => s = t
      <4>1. ASSUME NEW s \in kept, NEW t \in kept, back(s).at = back(t).at
            PROVE  s = t
        <5>1. s.at - Midnight = t.at - Midnight
          BY <2>3, <4>1
        <5>2. s.at \in Int /\ t.at \in Int
          BY <2>2
        <5>3. s.at = t.at
          BY <1>1, <5>1, <5>2
        <5> QED
          BY <2>2, <5>3 DEF NamesDiffer
      <4> QED
        BY <4>1
    <3> HIDE DEF back
    <3> QED
      BY <2>1, <2>3, <3>1 DEF NamesDiffer
  <2>5. IsFiniteSet(kept')
    <3>1. f \in Surjection(kept, kept')
      <4> HIDE DEF back
      <4> QED
        BY <2>1 DEF Surjection
    <3> HIDE DEF f
    <3> QED
      BY <3>1, FS_Surjection DEF Coherent
  <2>6. WithinAge(kept')
    <3>1. ASSUME NEW s \in kept, NEW t \in kept
          PROVE  back(s).at - MaxAge =< back(t).at
      <4>1. s.at \in Int /\ t.at \in Int /\ s.at - MaxAge =< t.at
        BY <2>2 DEF Coherent, WithinAge
      <4>2. (s.at - Midnight) - MaxAge =< t.at - Midnight
        BY <1>1, <4>1, BoundsAssumption
      <4> HIDE DEF back
      <4> QED
        BY <2>3, <4>2
    <3> HIDE DEF back
    <3> QED
      BY <2>1, <3>1 DEF WithinAge
  <2>7. DOMAIN draft' = DOMAIN draft /\ (stage = "store" => draft'.at \in Int)
    <3>1. DOMAIN draft = {"rows", "pressure", "swap", "at"}
      BY DEF Coherent, TypeOK
    <3>2. DOMAIN draft' = DOMAIN draft /\ draft'.at = DayBack(draft.at)
      BY <2>1, <3>1
    <3>3. stage = "store" => draft.at \in Int
      BY DEF Coherent, TypeOK
    <3> QED
      BY <1>1, <3>2, <3>3 DEF DayBack
  <2>8. draft'.rows = draft.rows /\ draft'.pressure = draft.pressure /\ draft'.swap = draft.swap
    BY <2>1 DEF Coherent, TypeOK
  <2>9. TypeOK'
    BY <1>1, <1>2, <1>3, <2>1, <2>4, <2>7 DEF Coherent, TypeOK, NamesDiffer
  <2>10. Drafted'
    BY <1>3, <2>8 DEF Coherent, Drafted
  <2> QED
    BY <2>5, <2>6, <2>9, <2>10 DEF Coherent, WithinAge
<1> QED
  BY <1>4, <1>5

\* The invariant is inductive.
THEOREM CoherentInductive == Spec => []Coherent
<1>1. Init => Coherent
  BY InitCoherent
<1>2. Coherent /\ [Next]_vars => Coherent'
  <2> SUFFICES ASSUME Coherent, [Next]_vars
               PROVE  Coherent'
    OBVIOUS
  <2>1. CASE Invoke
    BY <2>1, InvokeCoherent
  <2>2. ASSUME NEW rows \in Outputs, CollectProcesses(rows)
        PROVE  Coherent'
    BY <2>2, CollectProcessesCoherent
  <2>3. ASSUME NEW level \in Levels, CollectPressure(level)
        PROVE  Coherent'
    BY <2>3, CollectPressureCoherent
  <2>4. ASSUME NEW swap \in Swaps, CollectSwap(swap)
        PROVE  Coherent'
    BY <2>4, CollectSwapCoherent
  <2>5. CASE ProcessesMissed \/ PressureMissed \/ SwapMissed
    BY <2>5, MissCoherent DEF ProcessesMissed, PressureMissed, SwapMissed
  <2>6. ASSUME NEW size \in Sizes, Store(size)
        PROVE  Coherent'
    BY <2>6, StoreCoherent
  <2>7. ASSUME NEW size \in Sizes, StoreRefused(size)
        PROVE  Coherent'
    BY <2>7, StoreRefusedCoherent
  <2>8. CASE Tick
    BY <2>8, TickCoherent
  <2>9. CASE SetClock
    BY <2>9, SetClockCoherent
  <2>10. CASE UNCHANGED vars
    BY <2>10 DEF vars, Coherent, TypeOK, Drafted, WithinAge, NamesDiffer
  <2> QED
    BY <2>1, <2>2, <2>3, <2>4, <2>5, <2>6, <2>7, <2>8, <2>9, <2>10 DEF Next, Sampler
<1> QED
  BY <1>1, <1>2, PTL DEF Spec

-----------------------------------------------------------------------------
(* The properties.                                                         *)

\* TypeOK holds for every schedule of calls.
THEOREM TypeCorrect == Spec => []TypeOK
<1>1. Coherent => TypeOK
  BY DEF Coherent
<1> QED
  BY <1>1, CoherentInductive, PTL

\* Whatever the native commands print, what is collected is a sample that the
\* store accepts (CollectedIsValid).
THEOREM CollectedAlwaysValid == Spec => []CollectedIsValid
<1>1. Coherent => CollectedIsValid
  <2> SUFFICES ASSUME Coherent, stage = "store"
               PROVE  ValidSample(Collected(draft))
    BY DEF CollectedIsValid
  <2>1. draft.rows \in Outputs /\ Accepted(draft.rows) # {} /\ draft.pressure \in Pressures
    BY DEF Coherent, Drafted
  <2> QED
    BY <2>1, AcceptedMakeSample
<1> QED
  BY <1>1, CoherentInductive, PTL

\* What is collected is what was read (ReadingsExact).
THEOREM ReadingsAlwaysExact == Spec => []ReadingsExact
<1>1. Coherent => ReadingsExact
  <2> SUFFICES ASSUME Coherent, stage = "store"
               PROVE  ReadingsExact
    BY DEF ReadingsExact
  <2>1. ASSUME NEW r \in Accepted(draft.rows)
        PROVE  Observed(r).elapsed = TrueElapsed(r.etime)
    <3>1. draft.rows \subseteq Rows
      BY OutputsAssumption DEF Coherent, Drafted
    <3>2. r.etime \in ElapsedForms /\ ParsesElapsed(r.etime)
      BY <3>1 DEF Accepted, AcceptsRow, Rows
    <3> QED
      BY <3>2, ElapsedExact DEF Observed
  <2>2. PICK swap \in Swaps :
          /\ ParseSwapUsed(swap) # None
          /\ draft.swap = [read |-> swap.used, bytes |-> ParseSwapUsed(swap)]
    BY DEF Coherent, Drafted
  <2> DEFINE q == swap.used
             n == q.num * Multiplier(q.unit)
  <2>3. ParseSwapUsed(swap) = ByteQuantity(q) /\ ByteQuantity(q) # None
    BY <2>2 DEF ParseSwapUsed
  <2>4. q # None /\ q \in Quantities
    BY <2>3, OutputsAssumption DEF ByteQuantity
  <2>5. q.num \in Nat /\ q.den \in Nat \ {0} /\ q.unit \in Units
    BY <2>4 DEF Quantities
  <2>6. n \in Nat
    <3>1. Multiplier(q.unit) \in Nat
      BY <2>5 DEF Multiplier, Units
    <3> HIDE DEF q
    <3> QED
      BY <2>5, <3>1, SMT
  <2>7. ByteQuantity(q) = Rounded(n, q.den)
    BY <2>3, <2>4 DEF ByteQuantity
  <2> HIDE DEF q, n
  <2>8. /\ draft.swap.read = q /\ draft.swap.bytes = Rounded(n, q.den)
    BY <2>2, <2>3, <2>7 DEF q
  <2>9. /\ 2 * (Rounded(n, q.den) * q.den - n) =< q.den
        /\ 2 * (n - Rounded(n, q.den) * q.den) < q.den
    BY <2>5, <2>6, RoundedNearest
  <2> QED
    BY <2>1, <2>8, <2>9 DEF ReadingsExact, n
<1> QED
  BY <1>1, CoherentInductive, PTL

\* status says what is true of the history, and of its times alone
\* (StatusTellsTheTruth).
THEOREM StatusAlwaysTrue == Spec => []StatusTellsTheTruth
<1>1. Coherent => StatusTellsTheTruth
  <2> SUFFICES ASSUME Coherent, stage = "idle", kept # {}
               PROVE  StatusTellsTheTruth
    BY DEF StatusTellsTheTruth
  <2>1. kept \in Histories
    BY DEF Coherent, TypeOK, Histories
  <2> QED
    BY <2>1, StatusOfHistory DEF StatusTellsTheTruth
<1> QED
  BY <1>1, CoherentInductive, PTL

-----------------------------------------------------------------------------
(* Samples in step.  What a set of times that leave no large gap covers.    *)

LEMMA Multiples ==
  ASSUME NEW g \in Nat, NEW j \in Int, NEW k \in Int
  PROVE  /\ g * j \in Int
         /\ g * (k - 1) = g * k - g
         /\ j =< k => g * j =< g * k
BY SMT

\* StateNumbers that leave no gap larger than g are no fewer than the steps of g
\* from the first to the last.
LEMMA StepsCounted ==
  ASSUME NEW B, B \subseteq Int, IsFiniteSet(B), NEW g \in Nat, NEW m \in Nat,
         NEW a \in B, NEW z \in B, g * (m - 1) < z - a,
         \A b \in B : b =< z /\ (b # z => \E c \in B : b < c /\ c =< b + g)
  PROVE  m + 1 =< Cardinality(B)
<1> DEFINE P(k, b) == /\ b \in B /\ a + g * k - g < b
                      /\ k # m => b =< a + g * k
           h == [k \in 0 .. m |-> CHOOSE b : P(k, b)]
<1>0. a \in Int /\ z \in Int
  OBVIOUS
<1>1. ASSUME NEW k \in 0 .. m
      PROVE  \E b : P(k, b)
  <2>1. k \in Int /\ g * k \in Int /\ g * (m - 1) \in Int /\ g * (m - 1) = g * m - g
    BY Multiples
  <2>2. CASE k = m
    BY <1>0, <2>1, <2>2
  <2>3. CASE k # m
    <3> DEFINE U == {b \in B : b =< a + g * k}
    <3>1. g * k =< g * (m - 1)
      BY <2>3, Multiples
    <3>2. g * 0 =< g * k /\ g * 0 = 0
      BY Multiples, SMT
    <3>3. a \in U /\ U \subseteq Int /\ a + g * k \in Int
      <4>1. 0 =< g * k /\ g * k \in Int
        BY <2>1, <3>2
      <4>2. a =< a + g * k /\ a + g * k \in Int
        BY <1>0, <4>1
      <4> QED
        BY <4>2
    <3>4. PICK b \in U : \A c \in U : c =< b
      <4> HIDE DEF U
      <4>1. \A c \in U : c =< a + g * k
        BY DEF U
      <4> QED
        BY <3>3, <4>1, GreatestInteger
    <3>5. b # z
      BY <1>0, <2>1, <3>1
    <3>6. PICK c \in B : b < c /\ c =< b + g
      BY <3>5
    <3>7. c \notin U
      BY <3>4, <3>6
    <3>8. P(k, b)
      BY <1>0, <2>1, <3>6, <3>7
    <3> QED
      BY <3>8
  <2> QED
    BY <2>2, <2>3
<1>2. \A k \in 0 .. m : P(k, h[k])
  <2> HIDE DEF P
  <2> QED
    BY <1>1
<1>3. ASSUME NEW j \in 0 .. m, NEW k \in 0 .. m, j < k
      PROVE  h[j] < h[k]
  <2>1. /\ h[j] \in Int /\ h[j] =< a + g * j
        /\ h[k] \in Int /\ a + g * k - g < h[k]
    <3>1. P(j, h[j]) /\ P(k, h[k])
      <4> HIDE DEF P, h
      <4> QED
        BY <1>2
    <3>2. j # m
      BY <1>3
    <3> HIDE DEF h
    <3> QED
      BY <3>1, <3>2
  <2>2. g * j \in Int /\ g * k \in Int /\ g * (k - 1) = g * k - g /\ g * j =< g * (k - 1)
    BY <1>3, Multiples
  <2> HIDE DEF h
  <2> QED
    BY <1>0, <2>1, <2>2
<1>4. h \in Injection(0 .. m, B)
  <2>1. h \in [0 .. m -> B]
    BY <1>2
  <2>2. ASSUME NEW j \in 0 .. m, NEW k \in 0 .. m, j # k
        PROVE  h[j] # h[k]
    <3>1. j < k \/ k < j
      BY <2>2
    <3>2. h[j] < h[k] \/ h[k] < h[j]
      BY <1>3, <3>1
    <3>3. h[j] \in Int /\ h[k] \in Int
      BY <2>1
    <3> HIDE DEF h
    <3> QED
      BY <3>2, <3>3
  <2> HIDE DEF h
  <2> QED
    BY <2>1, <2>2 DEF Injection, IsInjective
<1>5. Cardinality(0 .. m) = m + 1
  BY FS_Interval
<1> HIDE DEF h
<1> QED
  BY <1>4, <1>5, FS_Injection

\* Times that leave no gap larger than g lengths leave no g lengths out.
LEMMA LengthsChained ==
  ASSUME NEW T, T \subseteq Int, NEW z \in T, NEW gap \in Nat,
         NEW l \in Nat \ {0}, NEW g \in Nat, gap =< g * l,
         \A t \in T : t =< z /\ (t # z => \E u \in T : t < u /\ u =< t + gap),
         NEW B, B = {t \div l : t \in T}
  PROVE  \A b \in B : b =< z \div l /\ (b # z \div l => \E c \in B : b < c /\ c =< b + g)
<1> DEFINE q == [t \in T |-> t \div l]
<1>1. ASSUME NEW t \in T
      PROVE  q[t] \in Int /\ \A n \in Int : q[t] >= n <=> t >= n * l
  BY Division, FloorReaches
<1>2. B = {q[t] : t \in T} /\ z \div l = q[z]
  OBVIOUS
<1>3. \A n \in Int : n * l \in Int
  BY SMT
<1> HIDE DEF q
<1>4. ASSUME NEW t \in T
      PROVE  q[t] =< q[z]
  <2>1. t >= q[t] * l /\ q[t] * l \in Int /\ t =< z
    BY <1>1, <1>3
  <2>2. z >= q[t] * l
    BY <2>1
  <2> QED
    BY <1>1, <2>2
<1>5. ASSUME NEW b \in B, b # q[z]
      PROVE  \E c \in B : b < c /\ c =< b + g
  <2> DEFINE U == {t \in T : q[t] =< b}
  <2>1. PICK s \in T : b = q[s]
    BY <1>2
  <2>2. b \in Int /\ b < q[z] /\ q[z] \in Int
    BY <1>1, <1>4, <1>5, <2>1
  <2>3. PICK t \in U : \A u \in U : u =< t
    <3>1. U \subseteq Int /\ \A u \in U : u =< z
      OBVIOUS
    <3>2. s \in U
      BY <2>1, <2>2
    <3> HIDE DEF U
    <3> QED
      BY <3>1, <3>2, GreatestInteger
  <2>4. t # z /\ t \in T
    BY <2>2
  <2>5. PICK u \in T : t < u /\ u =< t + gap
    BY <2>4
  <2>6. t \in Int /\ u \in Int
    BY <2>4
  <2>7. u \notin U
    BY <2>3, <2>5, <2>6
  <2>8. q[u] \in Int /\ b < q[u] /\ q[u] \in B
    <3>1. q[u] \in Int
      BY <1>1
    <3>2. ~ (q[u] =< b)
      BY <2>7
    <3>3. b < q[u]
      BY <2>2, <3>1, <3>2
    <3>4. q[u] \in B
      BY <1>2
    <3> QED
      BY <3>1, <3>3, <3>4
  <2>9. q[u] =< b + g
    <3> DEFINE x == (b + 1) * l
               y == g * l
               w == (b + g + 1) * l
    <3>1. x \in Int /\ y \in Int /\ w = x + y /\ gap =< y
      BY <2>2, SMT
    <3>2. ~ (t >= x)
      <4>1. ~ (q[t] >= b + 1)
        BY <1>1, <2>2, <2>4
      <4> QED
        BY <1>1, <2>2, <2>4, <4>1
    <3>3. q[u] >= b + g + 1 <=> u >= w
      BY <1>1, <2>2
    <3> HIDE DEF x, y, w
    <3>4. ~ (u >= w)
      BY <2>5, <2>6, <3>1, <3>2
    <3> QED
      BY <2>2, <2>8, <3>3, <3>4
  <2> QED
    BY <2>8, <2>9
<1>6. \A b \in B : b =< q[z]
  BY <1>2, <1>4
<1> QED
  BY <1>2, <1>5, <1>6

LEMMA GapType == Gap \in Nat \ {0}
<1> USE ScheduleAssumption
<1>1. (MaxMisses + 1) * Late \in Int /\ (MaxMisses + 1) * Late >= Late
  BY SMT
<1> QED
  BY <1>1 DEF Gap

\* A stride of lengths is no shorter than the gap.
LEMMA StrideCovers ==
  ASSUME NEW length \in Nat \ {0}
  PROVE  /\ length * Second \in Nat \ {0}
         /\ Stride(length) \in Nat /\ Gap =< Stride(length) * (length * Second)
<1> USE BaselineAssumption
<1> DEFINE l == length * Second
           q == (Gap - 1) \div l
           r == (Gap - 1) % l
<1>1. l \in Nat \ {0}
  BY SMT
<1>2. Gap \in Nat \ {0}
  BY GapType
<1>3. Gap - 1 \in Int /\ Gap - 1 >= 0
  BY <1>2
<1> HIDE DEF l
<1>4. q \in Int /\ r \in Int /\ Gap - 1 = l * q + r /\ 0 =< r /\ r < l
  BY <1>1, <1>3, Division
<1>5. q >= 0
  <2>1. q >= 0 <=> Gap - 1 >= 0 * l
    BY <1>1, <1>3, FloorReaches
  <2>2. 0 * l = 0
    BY <1>1, SMT
  <2> QED
    BY <1>3, <2>1, <2>2
<1>6. Stride(length) = q + 1
  BY DEF Stride, l
<1> HIDE DEF q, r
<1>7. (q + 1) * l = l * q + l /\ l * q \in Int
  BY <1>1, <1>4, SMT
<1>8. Gap =< (q + 1) * l
  BY <1>1, <1>2, <1>4, <1>7
<1> QED
  BY <1>1, <1>4, <1>5, <1>6, <1>8 DEF l

\* A chain of samples that spans the target meets the days and the intervals
\* that status asks for.
LEMMA SpreadEnough ==
  ASSUME NEW S \in Histories, Chained(S), SpanCovered(S),
         NEW length \in Nat \ {0}, NEW needed \in Nat, Meets(length, needed)
  PROVE  Spread(S, length) >= needed
<1> USE BaselineAssumption
<1> DEFINE l == length * Second
           g == Stride(length)
           n == TargetSpan \div length
           T == TimesOf(S)
           B == {t \div l : t \in T}
           o == FirstOf(S)
           z == LastOf(S)
<1>0. S # {}
  BY DEF SpanCovered
<1>1. T \subseteq Int /\ o \in T /\ z \in T /\ \A t \in T : o =< t /\ t =< z
  BY <1>0, TimesBounded, Ends
<1>2. l \in Nat \ {0} /\ g \in Nat /\ Gap =< g * l
  BY StrideCovers
<1>3. \A t \in T : t =< z /\ (t # z => \E u \in T : t < u /\ u =< t + Gap)
  <2>1. ASSUME NEW d \in S, d.at # z
        PROVE  \E u \in T : d.at < u /\ u =< d.at + Gap
    <3>1. PICK e \in S : e.at = z
      BY <1>1 DEF TimesOf
    <3>2. d.at \in T /\ e.at \in T
      BY DEF TimesOf
    <3>3. ~ (e.at =< d.at)
      BY <1>1, <2>1, <3>1, <3>2
    <3>4. PICK f \in S : d.at < f.at /\ f.at =< d.at + Gap
      BY <3>3 DEF Chained
    <3>5. f.at \in T
      BY DEF TimesOf
    <3> QED
      BY <3>4, <3>5
  <2>2. ASSUME NEW t \in T, t # z
        PROVE  \E u \in T : t < u /\ u =< t + Gap
    <3>1. PICK d \in S : t = d.at
      BY DEF TimesOf
    <3> QED
      BY <2>1, <2>2, <3>1
  <2> QED
    BY <1>1, <2>2
<1>4. z - o >= TargetSpan * Second
  <2>1. PICK d \in S, e \in S : e.at - d.at >= TargetSpan * Second
    BY DEF SpanCovered
  <2>2. d.at \in T /\ e.at \in T
    BY DEF TimesOf
  <2>3. TargetSpan * Second \in Int
    BY SMT
  <2> HIDE DEF T, o, z
  <2>4. d.at \in Int /\ e.at \in Int /\ o \in Int /\ z \in Int /\ o =< d.at /\ e.at =< z
    BY <1>1, <2>2
  <2> QED
    BY <2>1, <2>3, <2>4
<1>5. n \in Int /\ n * l =< TargetSpan * Second /\ n * l \in Int
  <2> DEFINE r == TargetSpan % length
  <2>1. n \in Int /\ r \in Int /\ TargetSpan = length * n + r /\ 0 =< r
    BY Division
  <2> HIDE DEF n, r
  <2>2. (length * n + r) * Second = (length * n) * Second + r * Second
    BY <2>1, SMT
  <2>3. (length * n) * Second = n * (length * Second) /\ (length * n) * Second \in Int
    BY <2>1, SMT
  <2>4. r * Second \in Int /\ 0 =< r * Second
    BY <2>1, SMT
  <2> QED
    BY <2>1, <2>2, <2>3, <2>4
<1> HIDE DEF n
<1>6. z \div l - o \div l >= n /\ z \div l \in Int /\ o \div l \in Int
  <2> DEFINE a == o \div l
             r == o % l
             b == z \div l
             y == n * l
             x == TargetSpan * Second
  <2>1. o \in Int /\ z \in Int
    BY <1>1
  <2> HIDE DEF o, z, l
  <2>2. a \in Int /\ r \in Int /\ o = l * a + r /\ 0 =< r /\ b \in Int
    BY <1>2, <2>1, Division
  <2>3. b >= a + n <=> z >= (a + n) * l
    <3>1. a + n \in Int
      BY <1>5, <2>2
    <3> HIDE DEF a
    <3> QED
      BY <1>2, <2>1, <3>1, FloorReaches
  <2> HIDE DEF a, b, r
  <2>4. (a + n) * l = l * a + y /\ l * a \in Int
    BY <1>2, <1>5, <2>2, SMT
  <2>5. x \in Int
    BY SMT
  <2>6. y \in Int /\ y =< x /\ z - o >= x
    BY <1>4, <1>5
  <2> HIDE DEF x, y
  <2>7. z >= (a + n) * l
    BY <2>1, <2>2, <2>4, <2>5, <2>6
  <2>8. b - a >= n
    BY <1>5, <2>2, <2>3, <2>7
  <2> QED
    BY <2>2, <2>8 DEF a, b
<1>7. /\ B \subseteq Int /\ IsFiniteSet(B) /\ o \div l \in B /\ z \div l \in B
      /\ Cardinality(B) \in Nat /\ Spread(S, length) = Cardinality(B)
  <2> DEFINE f == [e \in S |-> e.at \div l]
  <2>1. f \in Surjection(S, B)
    BY DEF Surjection, TimesOf
  <2>2. IsFiniteSet(B)
    <3> HIDE DEF f, B
    <3> QED
      BY <2>1, FS_Surjection DEF Histories
  <2>3. \A t \in T : t \div l \in Int
    BY <1>1, <1>2, Division
  <2>4. B \subseteq Int
    <3> HIDE DEF l, T
    <3> QED
      BY <2>3
  <2>5. o \div l \in B /\ z \div l \in B
    <3> HIDE DEF l, T, o, z
    <3> QED
      BY <1>1
  <2>6. Spread(S, length) = Cardinality(B)
    BY DEF Spread
  <2> HIDE DEF B
  <2> QED
    BY <2>2, <2>4, <2>5, <2>6, FS_CardinalityType
<1>8. \A b \in B : b =< z \div l /\ (b # z \div l => \E c \in B : b < c /\ c =< b + g)
  <2>1. Gap \in Nat
    BY GapType
  <2> HIDE DEF T, z, l, g
  <2>2. T \subseteq Int /\ z \in T
    BY <1>1
  <2> QED
    BY <1>2, <1>3, <2>1, <2>2, LengthsChained
<1>9. CASE needed = 0
  <2> HIDE DEF B
  <2> QED
    BY <1>7, <1>9
<1>10. CASE needed # 0
  <2> DEFINE m == needed - 1
  <2>1. m \in Nat /\ m - 1 = needed - 2
    BY <1>10
  <2>2. g * (needed - 2) < n
    BY DEF Meets, n
  <2>3. g * (needed - 2) \in Int
    <3> HIDE DEF g
    <3> QED
      BY <1>2, SMT
  <2> HIDE DEF B, l, o, z, g
  <2>4. g * (m - 1) < z \div l - o \div l
    BY <1>5, <1>6, <2>1, <2>2, <2>3
  <2> HIDE DEF m
  <2>5. m + 1 =< Cardinality(B)
    BY <1>2, <1>7, <1>8, <2>1, <2>4, StepsCounted
  <2> QED
    BY <1>7, <2>1, <2>5 DEF m
<1> QED
  BY <1>9, <1>10

\* Samples that are close enough are all that status asks for once they span
\* the target.
LEMMA ReadyOfChain ==
  ASSUME Disciplined, NEW S \in Histories, Chained(S), SpanCovered(S)
  PROVE  Ready(S)
<1> USE BaselineAssumption
<1>1. S # {}
  BY DEF SpanCovered
<1>2. Spread(S, Day) >= MinDays /\ Spread(S, Interval) >= MinCoverage
  BY SpreadEnough DEF Disciplined
<1> QED
  BY <1>1, <1>2, StatusOfHistory

-----------------------------------------------------------------------------
(* What is kept of samples in step.                                        *)

Entries == [at : Int, bytes : Sizes]

\* The encoded sizes, as a function, and their sum as Bytes defines it.
Encoded == [e \in Entries |-> e.bytes]

AddsBytes(g, S) ==
  g = [T \in SUBSET S |-> IF T = {} THEN 0 ELSE Next1(T).bytes + g[T \ {Next1(T)}]]

LEMMA BytesIsSum ==
  ASSUME NEW S \in SUBSET Entries, IsFiniteSet(S)
  PROVE  Bytes(S) = Sum(Encoded, S)
<1> DEFINE h == CHOOSE g : AddsBytes(g, S)
<1>0. \A e \in Entries : Encoded[e] = e.bytes /\ e.bytes \in Nat
  BY BoundsAssumption DEF Encoded, Entries
<1>1. Summable(Encoded, S)
  BY <1>0 DEF Summable
<1>2. \A T \in SUBSET S : T # {} => Encoded[Next1(T)] = Next1(T).bytes
  BY <1>0, Next1InSet
<1>3. PICK g : AddsUp(g, Encoded, S)
  BY <1>1, SumsExist
<1>4. AddsBytes(g, S)
  BY <1>2, <1>3 DEF AddsUp, AddsBytes
<1>5. AddsBytes(h, S)
  BY <1>4, Zenon
<1>6. Bytes(S) = h[S]
  BY Zenon DEF Bytes, MapThenSumSet, MapThenFoldSet, AddsBytes, Next1
<1> HIDE DEF h
<1>7. IsSum(h, Encoded, S)
  BY <1>2, <1>5 DEF IsSum, AddsBytes
<1> QED
  BY <1>1, <1>6, <1>7, SumIs

\* Bytes are never the tighter bound.
LEMMA BytesFit ==
  ASSUME Disciplined, NEW S \in SUBSET Entries, IsFiniteSet(S), Cardinality(S) =< MaxSamples
  PROVE  Bytes(S) =< MaxBytes
<1> USE BoundsAssumption
<1>1. PICK n \in Sizes : (\A m \in Sizes : m =< n) /\ MaxSamples * n =< MaxBytes
  BY DEF Disciplined
<1>2. n \in Nat /\ \A e \in S : Encoded[e] \in 0 .. n
  <2>1. n \in Nat
    OBVIOUS
  <2>2. ASSUME NEW e \in S
        PROVE  Encoded[e] \in 0 .. n
    <3>1. e \in Entries /\ e.bytes \in Sizes
      BY DEF Entries
    <3>2. Encoded[e] = e.bytes
      BY <3>1 DEF Encoded
    <3>3. e.bytes \in Nat /\ e.bytes =< n
      BY <1>1, <3>1
    <3> QED
      BY <2>1, <3>2, <3>3
  <2> QED
    BY <2>1, <2>2
<1>3. Bytes(S) =< Cardinality(S) * n
  BY <1>2, BytesIsSum, SumBounded
<1>4. Bytes(S) \in Int
  BY <1>2, BytesIsSum, SumNatural
<1>5. Cardinality(S) \in Nat
  BY FS_CardinalityType
<1>6. Cardinality(S) * n =< MaxSamples * n /\ Cardinality(S) * n \in Int /\ MaxSamples * n \in Int
  BY <1>2, <1>5, SMT
<1> QED
  BY <1>1, <1>3, <1>4, <1>6

\* The operators of the abstract history are those of HistoryBounds.
LEMMA SameBounds ==
  /\ \A S : History!Kept(S) = Kept(S)
  /\ \A S, t : History!Named(S, t) = Named(S, t)
<1>1. ASSUME NEW S PROVE History!Bytes(S) = Bytes(S)
  BY Zenon DEF History!Bytes, Bytes, MapThenSumSet, History!MapThenSumSet,
               MapThenFoldSet, History!MapThenFoldSet
<1>2. ASSUME NEW S PROVE History!Fits(S) = Fits(S)
  BY <1>1, Zenon DEF History!Fits, Fits, History!Cardinality, Cardinality
<1>3. ASSUME NEW S PROVE History!Kept(S) = Kept(S)
  BY <1>2, Zenon DEF History!Kept, Kept, History!From, From
<1> QED
  BY <1>3, Zenon DEF History!Named, Named

\* A part of what fits, fits.
LEMMA FitsPart ==
  ASSUME Disciplined, NEW S \in SUBSET Entries, IsFiniteSet(S), NEW T \in SUBSET S, Fits(S)
  PROVE  Fits(T)
<1> USE BoundsAssumption
<1>1. IsFiniteSet(T) /\ Cardinality(T) =< Cardinality(S)
  BY FS_Subset
<1>2. Cardinality(T) \in Nat /\ Cardinality(S) \in Nat
  BY <1>1, FS_CardinalityType
<1>3. Cardinality(T) =< MaxSamples
  BY <1>1, <1>2 DEF Fits
<1>4. Bytes(T) =< MaxBytes
  BY <1>1, <1>3, BytesFit
<1> QED
  BY <1>3, <1>4 DEF Fits

\* What is kept is what is not older than something that is kept.
LEMMA KeptIsLatest ==
  ASSUME Disciplined, NEW U \in SUBSET Entries, IsFiniteSet(U),
         NEW d \in Kept(U), NEW e \in U, d.at =< e.at
  PROVE  e \in Kept(U)
<1>1. d \in U /\ Fits(From(U, d.at))
  BY DEF Kept
<1>2. From(U, e.at) \in SUBSET From(U, d.at)
  BY <1>1 DEF From, Entries
<1>3. From(U, d.at) \in SUBSET Entries /\ IsFiniteSet(From(U, d.at))
  <2>1. From(U, d.at) \in SUBSET U
    BY DEF From
  <2> QED
    BY <2>1, FS_Subset
<1>4. Fits(From(U, e.at))
  BY <1>1, <1>2, <1>3, FitsPart
<1> QED
  BY <1>4 DEF Kept

\* A sample later than all others is kept.
LEMMA NewestIsKept ==
  ASSUME Disciplined, NEW S \in SUBSET Entries, NEW s \in Entries, \A e \in S : e.at < s.at
  PROVE  s \in Kept(S \cup {s})
<1> USE BoundsAssumption
<1>1. From(S \cup {s}, s.at) = {s}
  <2>1. s.at \in Int /\ \A e \in S : e.at \in Int /\ ~ (e.at >= s.at)
    BY DEF Entries
  <2> QED
    BY <2>1 DEF From
<1>2. IsFiniteSet({s}) /\ Cardinality({s}) = 1
  BY FS_Singleton
<1>3. Cardinality({s}) =< MaxSamples
  BY <1>2
<1>4. Bytes({s}) =< MaxBytes
  BY <1>2, <1>3, BytesFit
<1>5. \A d, e \in {s} : d.at - MaxAge =< e.at
  BY DEF Entries
<1>6. Fits({s})
  BY <1>3, <1>4, <1>5 DEF Fits
<1> QED
  BY <1>1, <1>6 DEF Kept

\* Where something had to be dropped, what is kept spans the target.
LEMMA DroppedCovers ==
  ASSUME Disciplined, NEW U \in SUBSET Entries, IsFiniteSet(U), NamesDiffer(U), Chained(U),
         NEW s \in Kept(U), \A e \in U : e.at =< s.at,
         NEW b \in Int, b =< s.at,
         \A o \in Kept(U) : o.at + (Cardinality(From(Kept(U), o.at)) - 1) * Pause - Slow =< b,
         Kept(U) # U
  PROVE  SpanCovered(Kept(U))
<1> USE BoundsAssumption, ScheduleAssumption, BaselineAssumption
<1> DEFINE K == Kept(U)
           m == TargetSpan * Second
           D == {d \in U : d \notin K}
           X == {d.at : d \in D}
<1>1. K \in SUBSET U /\ IsFiniteSet(K) /\ Cardinality(K) \in Nat
  <2>1. K \in SUBSET U
    BY DEF Kept
  <2> HIDE DEF K
  <2> QED
    BY <2>1, FS_Subset, FS_CardinalityType
<1>2. \A e \in U : e \in Entries /\ e.at \in Int
  BY DEF Entries
<1>3. s \in K /\ s \in U /\ s.at \in Int /\ m \in Int /\ Gap \in Nat \ {0}
  <2>1. m \in Int
    BY SMT
  <2> QED
    BY <1>1, <1>2, <2>1, GapType
<1>4. \A d \in K, e \in U : d.at =< e.at => e \in K
  BY KeptIsLatest
<1>5. \A e \in U \ K : ~ Fits(From(U, e.at))
  BY DEF Kept
<1> HIDE DEF K
<1>6. PICK x \in U \ K : \A e \in U \ K : e.at =< x.at
  <2>1. X \subseteq Int /\ X # {}
    BY <1>1, <1>2 DEF K
  <2>2. \A t \in X : t =< s.at
    OBVIOUS
  <2>3. PICK t \in X : \A u \in X : u =< t
    <3> HIDE DEF X
    <3> QED
      BY <1>3, <2>1, <2>2, GreatestInteger
  <2>4. PICK x \in D : x.at = t
    OBVIOUS
  <2>5. \A e \in D : e.at =< x.at
    BY <2>3, <2>4
  <2> QED
    BY <2>4, <2>5
<1> HIDE DEF D, X
<1>7. x.at \in Int /\ x.at < s.at
  <2>1. x.at \in Int /\ x.at =< s.at
    BY <1>2
  <2>2. x # s
    BY <1>3
  <2>3. x.at # s.at
    BY <1>3, <2>2 DEF NamesDiffer
  <2> QED
    BY <1>3, <2>1, <2>3
<1>8. From(U, x.at) = K \cup {x}
  <2>1. ASSUME NEW e \in U, e.at >= x.at
        PROVE  e \in K \cup {x}
    <3>1. CASE e \notin K
      <4>1. e.at = x.at
        BY <1>2, <1>6, <2>1, <3>1
      <4> QED
        BY <4>1 DEF NamesDiffer
    <3> QED
      BY <3>1
  <2>2. ASSUME NEW e \in K
        PROVE  e \in U /\ e.at >= x.at
    <3>1. e \in U /\ e.at \in Int
      BY <1>1, <1>2
    <3>2. ~ (e.at =< x.at)
      BY <1>4
    <3> QED
      BY <1>7, <3>1, <3>2
  <2>3. x \in U /\ x.at >= x.at
    BY <1>7
  <2> QED
    BY <2>1, <2>2, <2>3 DEF From
<1>9. Cardinality(K \cup {x}) = Cardinality(K) + 1 /\ IsFiniteSet(K \cup {x})
  BY <1>1, FS_AddElement
<1>10. CASE Cardinality(K) >= MaxSamples
  <2> DEFINE T == {d.at : d \in K}
  <2>1. PICK o \in K : \A e \in K : o.at =< e.at
    <3>1. T \subseteq Int /\ T # {} /\ \A t \in T : x.at =< t
      <4>1. \A e \in K : e.at \in Int /\ ~ (e.at =< x.at)
        BY <1>1, <1>2, <1>4
      <4> QED
        BY <1>3, <1>7, <4>1
    <3>2. PICK t \in T : \A u \in T : t =< u
      <4> HIDE DEF T
      <4> QED
        BY <1>7, <3>1, LeastInteger
    <3> QED
      BY <3>2
  <2>2. From(K, o.at) = K
    <3>1. \A e \in K : e.at \in Int /\ o.at \in Int /\ e.at >= o.at
      BY <1>1, <1>2, <2>1
    <3> QED
      BY <3>1 DEF From
  <2> DEFINE c == Cardinality(K) - 1
             n == MaxSamples - 1
  <2>3. o.at + c * Pause - Slow =< b
    BY <2>2 DEF K
  <2>4. c \in Int /\ n \in Int /\ n =< c
    BY <1>1, <1>10
  <2>5. m =< n * Pause - Slow
    BY DEF Disciplined
  <2> HIDE DEF c, n, m
  <2>6. n * Pause =< c * Pause /\ n * Pause \in Int /\ c * Pause \in Int
    BY <2>4, SMT
  <2>7. o.at \in Int
    BY <1>1, <1>2
  <2>8. s.at - o.at >= m
    BY <1>3, <2>3, <2>5, <2>6, <2>7
  <2> QED
    BY <1>3, <2>8 DEF SpanCovered, K, m
<1>11. CASE ~ (Cardinality(K) >= MaxSamples)
  <2>1. Cardinality(K \cup {x}) =< MaxSamples
    BY <1>1, <1>9, <1>11
  <2>2. Bytes(K \cup {x}) =< MaxBytes
    <3>1. K \cup {x} \in SUBSET Entries
      BY <1>1, <1>2
    <3> QED
      BY <1>9, <2>1, <3>1, BytesFit
  <2>3. ~ Fits(K \cup {x})
    BY <1>5, <1>8
  <2>4. PICK d \in K \cup {x}, e \in K \cup {x} : ~ (d.at - MaxAge =< e.at)
    BY <2>1, <2>2, <2>3 DEF Fits
  <2>5. s.at - x.at > MaxAge
    <3>1. d \in U /\ e \in U /\ d.at \in Int /\ e.at \in Int
      BY <1>1, <1>2
    <3>2. x.at =< e.at
      <4>1. CASE e = x
        BY <1>7, <4>1
      <4>2. CASE e # x
        <5>1. e \in K
          BY <4>2
        <5>2. ~ (e.at =< x.at)
          BY <1>4, <5>1
        <5> QED
          BY <1>7, <3>1, <5>2
      <4> QED
        BY <4>1, <4>2
    <3>3. d.at =< s.at
      BY <3>1
    <3> QED
      BY <1>3, <1>7, <2>4, <3>1, <3>2, <3>3
  <2>6. PICK y \in U : x.at < y.at /\ y.at =< x.at + Gap
    <3>1. ~ (s.at =< x.at)
      BY <1>3, <1>7
    <3> QED
      BY <1>3, <3>1 DEF Chained
  <2>7. y \in K
    <3>1. ~ (y.at =< x.at)
      BY <1>2, <1>7, <2>6
    <3> QED
      BY <1>6, <3>1
  <2>8. m + Gap =< MaxAge
    BY DEF Disciplined
  <2>9. y.at \in Int
    BY <1>2
  <2> HIDE DEF m
  <2>10. s.at - y.at >= m
    BY <1>3, <1>7, <2>5, <2>6, <2>8, <2>9
  <2> QED
    BY <1>3, <2>7, <2>10 DEF SpanCovered, K, m
<1> QED
  BY <1>10, <1>11

-----------------------------------------------------------------------------
(* Every step keeps in step.                                               *)

\* The numbers of a state.
LEMMA StateNumbers ==
  ASSUME Coherent
  PROVE  /\ clock \in Nat /\ since \in 0 .. Late /\ misses \in 0 .. MaxMisses
         /\ Midnight \in Nat \ {0} /\ clock < Midnight
         /\ Begun \in Int /\ Running \in 0 .. 1
         /\ kept \in SUBSET Entries /\ IsFiniteSet(kept) /\ NamesDiffer(kept)
         /\ \A e \in kept : e.at \in Int
<1> USE BaselineAssumption, ScheduleAssumption
<1>1. Midnight \in Nat \ {0}
  BY SMT DEF Midnight
<1>2. kept \in SUBSET Entries
  BY DEF Coherent, TypeOK, Entries
<1>3. \A e \in kept : e.at \in Int
  BY <1>2 DEF Entries
<1>4. clock \in Nat /\ since \in 0 .. Late /\ misses \in 0 .. MaxMisses /\ clock < Midnight
  BY <1>1 DEF Coherent, TypeOK
<1> QED
  BY <1>1, <1>2, <1>3, <1>4 DEF Coherent, TypeOK, Begun, Running

\* Room for one sample more, and for one failure more.
LEMMA RoomForMore ==
  ASSUME NEW t \in Int, NEW b \in Int, NEW d \in Int,
         NEW c \in Int, NEW r \in Int, NEW q \in Int, NEW k \in Int
  PROVE  /\ t + (c + r) * k - Slow =< b /\ d >= b + (q - r) * k
              => t + (c + q) * k - Slow =< d
         /\ b - t =< r * k /\ d + r * k =< b + q * k => d - t =< q * k
<1> USE ScheduleAssumption
<1>1. (c + q) * k = (c + r) * k + (q - r) * k
  BY SMT
<1>2. /\ (c + r) * k \in Int /\ (q - r) * k \in Int /\ r * k \in Int /\ q * k \in Int
  BY SMT
<1> QED
  BY <1>1, <1>2

\* A step that leaves the history as it is, and has time for the next sample
\* or for what has failed.
LEMMA SameHistory ==
  ASSUME Coherent, Spaced, Chained(kept), Recent, kept' = kept,
         Begun' \in Int, Running' \in 0 .. 1, misses' \in Nat,
         Begun' >= Begun + (Running' - Running) * Pause,
         Begun' + (misses + Running) * Late =< Begun + (misses' + Running') * Late
  PROVE  Spaced' /\ Chained(kept)' /\ Recent'
<1> USE ScheduleAssumption
<1>1. /\ Begun \in Int /\ Running \in 0 .. 1 /\ misses \in Nat /\ IsFiniteSet(kept)
      /\ \A e \in kept : e.at \in Int
  BY StateNumbers
<1>2. ASSUME NEW e \in kept
      PROVE  e.at + (Cardinality(From(kept, e.at)) - 1 + Running') * Pause - Slow =< Begun'
  <2> DEFINE c == Cardinality(From(kept, e.at)) - 1
  <2>1. c \in Int
    <3>1. From(kept, e.at) \in SUBSET kept
      BY DEF From
    <3>2. Cardinality(From(kept, e.at)) \in Nat
      BY <1>1, <3>1, FS_Subset, FS_CardinalityType
    <3> QED
      BY <3>2
  <2>2. e.at + (c + Running) * Pause - Slow =< Begun
    BY DEF Spaced
  <2> HIDE DEF c
  <2>3. e.at \in Int /\ Running \in Int /\ Running' \in Int /\ Pause \in Int /\ Begun \in Int
    BY <1>1
  <2>4. e.at + (c + Running') * Pause - Slow =< Begun'
    BY <2>1, <2>2, <2>3, RoomForMore
  <2> QED
    BY <2>4 DEF c
<1>3. Spaced'
  BY <1>2 DEF Spaced, From
<1>4. Chained(kept)'
  BY DEF Chained
<1>5. ASSUME NEW e \in kept, Begun - e.at =< (misses + Running) * Late
      PROVE  Begun' - e.at =< (misses' + Running') * Late
  <2>1. /\ e.at \in Int /\ Begun \in Int /\ Late \in Int
        /\ misses + Running \in Int /\ misses' + Running' \in Int
    BY <1>1
  <2> QED
    BY <1>5, <2>1, RoomForMore
<1>6. Recent'
  BY <1>5 DEF Recent
<1> QED
  BY <1>3, <1>4, <1>6

LEMMA InitInStep == Init => InStep
<1> SUFFICES ASSUME Init
             PROVE  InStep
  OBVIOUS
<1>1. Spaced /\ Chained(kept) /\ Recent
  BY DEF Init, Spaced, Chained, Recent
<1> QED
  BY <1>1 DEF Init, InStep

LEMMA InvokeInStep ==
  ASSUME Coherent, InStep, Invoke
  PROVE  InStep'
<1> USE ScheduleAssumption
<1> SUFFICES ASSUME honest'
             PROVE  InStep'
  BY DEF InStep
<1>1. /\ stage = "idle" /\ since >= Pause /\ stage' = "processes" /\ since' = 0
      /\ clock' = clock /\ skew' = skew /\ honest /\ misses' = misses /\ kept' = kept
  BY DEF Invoke
<1>2. clock \in Nat /\ since \in 0 .. Late /\ misses \in 0 .. MaxMisses
  BY StateNumbers
<1>3. /\ Begun = clock - since /\ Begun' = clock /\ Running = 0 /\ Running' = 1
  BY <1>1, <1>2 DEF Begun, Running
<1>4. Begun' >= Begun + (Running' - Running) * Pause
  BY <1>1, <1>2, <1>3
<1>5. Begun' + (misses + Running) * Late =< Begun + (misses' + Running') * Late
  <2>1. (misses + 1) * Late = misses * Late + Late /\ misses * Late \in Int
        /\ (misses + 0) * Late = misses * Late
    BY <1>2, SMT
  <2> QED
    BY <1>1, <1>2, <1>3, <2>1
<1>6. Spaced' /\ Chained(kept)' /\ Recent'
  BY <1>1, <1>2, <1>3, <1>4, <1>5, SameHistory DEF InStep
<1> QED
  BY <1>1, <1>6 DEF InStep

\* A command that goes on.
LEMMA GoesOnInStep ==
  ASSUME Coherent, InStep, stage # "idle", stage' # "idle", UNCHANGED <<time, misses, kept>>,
         stage' = "store" => draft'.at = clock + skew
  PROVE  InStep'
<1> USE ScheduleAssumption
<1> SUFFICES ASSUME honest'
             PROVE  InStep'
  BY DEF InStep
<1>1. /\ clock' = clock /\ skew' = skew /\ since' = since /\ honest /\ misses' = misses
      /\ kept' = kept
  BY DEF time
<1>2. /\ clock \in Nat /\ since \in 0 .. Late /\ misses \in 0 .. MaxMisses /\ Begun \in Int
  BY StateNumbers
<1>3. Begun' = Begun /\ Begun = clock - since /\ Running = 1 /\ Running' = 1
  BY <1>1 DEF Begun, Running
<1>4. Begun' >= Begun + (Running' - Running) * Pause
  BY <1>2, <1>3
<1>5. Begun' + (misses + Running) * Late =< Begun + (misses' + Running') * Late
  <2>1. (misses + 1) * Late \in Int
    BY <1>2, SMT
  <2> QED
    BY <1>1, <1>2, <1>3, <2>1
<1>6. Spaced' /\ Chained(kept)' /\ Recent'
  BY <1>1, <1>2, <1>3, <1>4, <1>5, SameHistory DEF InStep
<1>7. skew = 0 /\ since =< Slow
  BY <1>1 DEF InStep
<1>8. stage' = "store" => draft'.at - Begun' \in 0 .. Slow
  BY <1>2, <1>3, <1>7
<1> QED
  BY <1>1, <1>6, <1>7, <1>8 DEF InStep

LEMMA MissInStep ==
  ASSUME Coherent, InStep, stage # "idle", Miss
  PROVE  InStep'
<1> USE ScheduleAssumption
<1> SUFFICES ASSUME honest'
             PROVE  InStep'
  BY DEF InStep
<1>1. /\ clock' = clock /\ skew' = skew /\ since' = since /\ honest /\ misses' = misses + 1
      /\ kept' = kept /\ stage' = "idle"
  BY DEF Miss, Return, time
<1>2. /\ clock \in Nat /\ since \in 0 .. Late /\ misses \in 0 .. MaxMisses /\ Begun \in Int
  BY StateNumbers
<1>3. Begun' = Begun /\ Running = 1 /\ Running' = 0
  BY <1>1 DEF Begun, Running
<1>4. Begun' >= Begun + (Running' - Running) * Pause
  <2>1. (0 - 1) * Pause =< 0 /\ (0 - 1) * Pause \in Int
    BY SMT
  <2> QED
    BY <1>2, <1>3, <2>1
<1>5. Begun' + (misses + Running) * Late =< Begun + (misses' + Running') * Late
  <2>1. (misses + 1 + 0) * Late = (misses + 1) * Late /\ (misses + 1) * Late \in Int
    BY <1>2, SMT
  <2> QED
    BY <1>1, <1>2, <1>3, <2>1
<1>6. Spaced' /\ Chained(kept)' /\ Recent'
  BY <1>1, <1>2, <1>3, <1>4, <1>5, SameHistory DEF InStep
<1> QED
  BY <1>1, <1>6 DEF InStep

\* What is about to be stored is later than all that is there.
LEMMA StoredIsNewest ==
  ASSUME Disciplined, Coherent, InStep, honest, stage = "store", NEW size \in Sizes
  PROVE  /\ Stored(size) \in Entries /\ Stored(size).at = draft.at
         /\ draft.at \in Int /\ Begun =< draft.at /\ draft.at =< Begun + Slow
         /\ \A e \in kept : e.at < draft.at
<1> USE ScheduleAssumption
<1>1. /\ Begun \in Int /\ IsFiniteSet(kept) /\ \A e \in kept : e.at \in Int
  BY StateNumbers
<1>2. draft.at \in Int /\ draft.at - Begun \in 0 .. Slow
  BY DEF Coherent, TypeOK, InStep
<1>3. Begun =< draft.at /\ draft.at =< Begun + Slow
  BY <1>1, <1>2
<1>4. Stored(size) \in Entries /\ Stored(size).at = draft.at
  BY <1>2 DEF Stored, Entries
<1>5. ASSUME NEW e \in kept
      PROVE  e.at < draft.at
  <2> DEFINE F == From(kept, e.at)
             c == Cardinality(F)
  <2>1. F \in SUBSET kept /\ e \in F
    BY <1>1 DEF From
  <2>2. c \in Nat /\ c >= 1
    <3> HIDE DEF F
    <3>1. IsFiniteSet(F) /\ F # {}
      BY <1>1, <2>1, FS_Subset
    <3>2. c \in Nat /\ c # 0
      BY <3>1, FS_CardinalityType, FS_EmptySet
    <3> QED
      BY <3>2
  <2>3. e.at + (c - 1 + Running) * Pause - Slow =< Begun /\ Running = 1
    BY DEF InStep, Spaced, Running
  <2> HIDE DEF c
  <2>4. (c - 1 + 1) * Pause >= Pause /\ (c - 1 + 1) * Pause \in Int
    BY <2>2, SMT
  <2>5. Slow < Pause
    BY DEF Disciplined
  <2> QED
    BY <1>1, <1>2, <1>3, <2>3, <2>4, <2>5
<1> QED
  BY <1>2, <1>3, <1>4, <1>5

\* With the sample that is stored the history is still a chain.
LEMMA StoredChained ==
  ASSUME Disciplined, Coherent, InStep, honest, stage = "store", NEW size \in Sizes
  PROVE  Chained(kept \cup {Stored(size)})
<1> USE ScheduleAssumption
<1> DEFINE s == Stored(size)
<1>1. /\ s.at = draft.at /\ draft.at \in Int /\ draft.at =< Begun + Slow
      /\ \A e \in kept : e.at < draft.at
  BY StoredIsNewest
<1>2. Begun \in Int /\ misses \in 0 .. MaxMisses /\ \A e \in kept : e.at \in Int
  BY StateNumbers
<1>3. Gap \in Nat
  BY GapType
<1> HIDE DEF s
<1>4. ASSUME NEW d \in kept
      PROVE  \E e \in kept \cup {s} : d.at < e.at /\ e.at =< d.at + Gap
  <2>1. CASE \A e \in kept : e.at =< d.at
    <3>1. PICK e \in kept : Begun - e.at =< (misses + 1) * Late
      BY DEF InStep, Recent, Running
    <3>2. (misses + 1) * Late =< (MaxMisses + 1) * Late
          /\ (misses + 1) * Late \in Int /\ (MaxMisses + 1) * Late \in Int
      BY <1>2, SMT
    <3>3. e.at =< d.at
      BY <2>1
    <3>4. d.at < s.at /\ s.at =< d.at + Gap
      BY <1>1, <1>2, <3>1, <3>2, <3>3 DEF Gap
    <3> QED
      BY <3>4
  <2>2. CASE ~ \A e \in kept : e.at =< d.at
    BY <2>2 DEF InStep, Chained
  <2> QED
    BY <2>1, <2>2
<1>5. \A e \in kept \cup {s} : e.at =< s.at
  BY <1>1, <1>2
<1>6. Chained(kept \cup {s})
  BY <1>4, <1>5 DEF Chained
<1> QED
  BY <1>6 DEF s

LEMMA StoreInStep ==
  ASSUME Disciplined, Coherent, InStep, NEW size \in Sizes, Store(size)
  PROVE  InStep'
<1> USE ScheduleAssumption
<1> SUFFICES ASSUME honest'
             PROVE  InStep'
  BY DEF InStep
<1> DEFINE s == Stored(size)
           U == kept \cup {s}
           K == Kept(U)
<1>1. /\ clock' = clock /\ skew' = skew /\ since' = since /\ honest /\ misses' = 0
      /\ stage = "store" /\ stage' = "idle" /\ kept' = K
  BY SameBounds DEF Store, Return, time, History!AppendSample
<1>2. /\ s \in Entries /\ s.at = draft.at /\ draft.at \in Int
      /\ Begun =< draft.at /\ draft.at =< Begun + Slow
      /\ \A e \in kept : e.at < draft.at
  BY <1>1, StoredIsNewest
<1>3. /\ Begun \in Int /\ kept \in SUBSET Entries /\ IsFiniteSet(kept)
      /\ \A e \in kept : e.at \in Int
  BY StateNumbers
<1>4. Begun' = Begun /\ Running = 1 /\ Running' = 0
  BY <1>1 DEF Begun, Running
<1>5. s \in K
  BY <1>2, <1>3, NewestIsKept
<1>6. Chained(U)
  BY <1>1, StoredChained
<1>7. U \in SUBSET Entries /\ IsFiniteSet(U)
  BY <1>2, <1>3, FS_AddElement
<1>8. K \subseteq U /\ \A d \in K, e \in U : d.at =< e.at => e \in K
  BY <1>7, KeptIsLatest DEF Kept
<1> HIDE DEF K, s
<1>9. Chained(K)
  <2>1. ASSUME NEW d \in K, NEW e \in U, d.at < e.at, e.at =< d.at + Gap
        PROVE  e \in K
    <3>1. d.at \in Int /\ e.at \in Int
      BY <1>7, <1>8 DEF Entries
    <3> QED
      BY <1>8, <2>1, <3>1
  <2>2. ASSUME NEW d \in K
        PROVE  \/ \A e \in K : e.at =< d.at
               \/ \E e \in K : d.at < e.at /\ e.at =< d.at + Gap
    <3>1. d \in U
      BY <1>8
    <3>2. \/ \A e \in U : e.at =< d.at
          \/ \E e \in U : d.at < e.at /\ e.at =< d.at + Gap
      BY <1>6, <3>1 DEF Chained
    <3> QED
      BY <1>8, <2>1, <3>2
  <2> QED
    BY <2>2 DEF Chained
<1>10. ASSUME NEW e \in K
       PROVE  e.at + (Cardinality(From(K, e.at)) - 1 + 0) * Pause - Slow =< Begun
  <2> DEFINE F == From(kept, e.at)
             G == From(K, e.at)
  <2>1. CASE e = s
    <3>1. G \in SUBSET {s}
      BY <1>2, <1>3, <1>8, <2>1 DEF From
    <3>2. Cardinality(G) \in Nat /\ Cardinality(G) =< 1
      <4> HIDE DEF G
      <4>1. IsFiniteSet(G) /\ Cardinality(G) =< Cardinality({s})
        BY <3>1, FS_Singleton, FS_Subset
      <4> QED
        BY <4>1, FS_Singleton, FS_CardinalityType
    <3> DEFINE c == Cardinality(G)
    <3>3. (c - 1 + 0) * Pause =< 0 /\ (c - 1 + 0) * Pause \in Int
      <4> HIDE DEF G
      <4>1. c - 1 + 0 = 0 \/ c - 1 + 0 = -1
        BY <3>2
      <4> QED
        BY <4>1, SMT
    <3> HIDE DEF c
    <3>4. e.at + (c - 1 + 0) * Pause - Slow =< Begun
      BY <1>2, <1>3, <2>1, <3>3
    <3> QED
      BY <3>4 DEF c
  <2>2. CASE e # s
    <3>1. e \in kept
      BY <1>8, <2>2
    <3>2. G \in SUBSET (F \cup {s})
      BY <1>8 DEF From
    <3>3. F \in SUBSET kept
      BY DEF From
    <3> DEFINE c == Cardinality(F)
               g == Cardinality(G)
    <3>4. c \in Nat /\ g \in Nat /\ g =< c + 1
      <4> HIDE DEF F, G
      <4>1. IsFiniteSet(F)
        BY <1>3, <3>3, FS_Subset
      <4>2. /\ IsFiniteSet(F \cup {s})
            /\ Cardinality(F \cup {s}) = IF s \in F THEN c ELSE c + 1
        BY <4>1, FS_AddElement
      <4>3. IsFiniteSet(G) /\ g =< Cardinality(F \cup {s})
        BY <3>2, <4>2, FS_Subset
      <4>4. c \in Nat /\ g \in Nat
        BY <4>1, <4>3, FS_CardinalityType
      <4> QED
        BY <4>2, <4>3, <4>4
    <3>5. e.at + (c - 1 + Running) * Pause - Slow =< Begun
      BY <1>1, <3>1 DEF InStep, Spaced
    <3> HIDE DEF c, g
    <3>6. (g - 1 + 0) * Pause =< (c - 1 + 1) * Pause
          /\ (g - 1 + 0) * Pause \in Int /\ (c - 1 + 1) * Pause \in Int
      <4>1. g - 1 + 0 =< c - 1 + 1 /\ g - 1 + 0 \in Int /\ c - 1 + 1 \in Int
        BY <3>4
      <4> QED
        BY <4>1, SMT
    <3>7. e.at + (g - 1 + 0) * Pause - Slow =< Begun
      BY <1>3, <1>4, <3>1, <3>5, <3>6
    <3> QED
      BY <3>7 DEF g
  <2> QED
    BY <2>1, <2>2
<1>11. Spaced'
  BY <1>1, <1>4, <1>10 DEF Spaced, From
<1>12. Recent'
  <2>1. Begun - s.at =< (0 + 0) * Late
    BY <1>2, <1>3
  <2> QED
    BY <1>1, <1>4, <1>5, <2>1 DEF Recent
<1>13. Chained(kept)'
  BY <1>1, <1>9 DEF Chained
<1> QED
  BY <1>1, <1>11, <1>12, <1>13 DEF InStep

\* A sample in step is never refused.
LEMMA RefusedNotInStep ==
  ASSUME Disciplined, Coherent, InStep, honest, NEW size \in Sizes
  PROVE  ~ StoreRefused(size)
<1> SUFFICES ASSUME StoreRefused(size)
             PROVE  FALSE
  OBVIOUS
<1>1. stage = "store"
  BY DEF StoreRefused
<1>2. /\ Stored(size) \in Entries /\ Stored(size).at = draft.at /\ draft.at \in Int
      /\ \A e \in kept : e.at < draft.at
  BY <1>1, StoredIsNewest
<1>3. kept \in SUBSET Entries /\ \A e \in kept : e.at \in Int
  BY StateNumbers
<1>4. ValidSample(Collected(draft))
  BY <1>1, AcceptedMakeSample DEF Coherent, Drafted
<1>5. Named(kept, draft.at) = {}
  <2>1. \A e \in kept : e.at # draft.at
    BY <1>2, <1>3
  <2> QED
    BY <2>1 DEF Named
<1>6. Stored(size) \in Kept(kept \cup {Stored(size)})
  BY <1>2, <1>3, NewestIsKept
<1> QED
  BY <1>4, <1>5, <1>6 DEF StoreRefused

\* At midnight everything moves by the same time.
LEMMA DayBackInStep ==
  ASSUME Coherent, Spaced, Chained(kept), Recent, Tick, ~ (clock + 1 < Midnight)
  PROVE  /\ Spaced' /\ Chained(kept)' /\ Recent'
         /\ SpanCovered(kept) => SpanCovered(kept)'
         /\ stage = "store" => draft'.at - Begun' = draft.at - Begun
<1> USE ScheduleAssumption
<1> DEFINE back(e) == [e EXCEPT !.at = DayBack(e.at)]
<1>1. /\ clock' = 0 /\ since' = since + 1 /\ misses' = misses /\ stage' = stage
      /\ kept' = {back(e) : e \in kept}
      /\ draft' = [draft EXCEPT !.at = DayBack(draft.at)]
  BY DEF Tick
<1>2. /\ clock \in Nat /\ since \in 0 .. Late /\ misses \in Nat /\ Midnight \in Nat
      /\ clock < Midnight /\ Begun \in Int /\ Running \in 0 .. 1
      /\ kept \in SUBSET Entries /\ IsFiniteSet(kept) /\ \A e \in kept : e.at \in Int
  BY StateNumbers
<1>3. Begun' = Begun - Midnight /\ Running' = Running
  BY <1>1, <1>2 DEF Begun, Running
<1>4. ASSUME NEW e \in kept
      PROVE  back(e).at = e.at - Midnight
  <2>1. e \in Entries /\ e.at \in Int /\ e.at # None
    BY <1>2, ReadingsAssumption
  <2>2. DayBack(e.at) = e.at - Midnight
    BY <2>1 DEF DayBack
  <2> QED
    BY <2>1, <2>2 DEF Entries
<1> HIDE DEF back
<1>5. ASSUME NEW e \in kept
      PROVE  back(e).at + (Cardinality(From(kept', back(e).at)) - 1 + Running') * Pause - Slow
               =< Begun'
  <2> DEFINE F == From(kept, e.at)
             G == From(kept', back(e).at)
             f == [d \in F |-> back(d)]
             c == Cardinality(F)
             g == Cardinality(G)
  <2>1. F \in SUBSET kept
    BY DEF From
  <2>2. G = {back(d) : d \in F}
    <3>1. \A d \in kept : back(d).at >= back(e).at <=> d.at >= e.at
      BY <1>2, <1>4
    <3> QED
      BY <1>1, <3>1 DEF From
  <2>3. c \in Nat /\ g \in Nat /\ g =< c
    <3>1. f \in Surjection(F, G)
      BY <2>2 DEF Surjection
    <3> HIDE DEF F, G, f
    <3>2. IsFiniteSet(F)
      BY <1>2, <2>1, FS_Subset
    <3>3. IsFiniteSet(G) /\ g =< c
      BY <3>1, <3>2, FS_Surjection
    <3> QED
      BY <3>2, <3>3, FS_CardinalityType
  <2>4. e.at + (c - 1 + Running) * Pause - Slow =< Begun
    BY DEF Spaced
  <2> HIDE DEF c, g
  <2>5. (g - 1 + Running) * Pause =< (c - 1 + Running) * Pause
        /\ (g - 1 + Running) * Pause \in Int /\ (c - 1 + Running) * Pause \in Int
    <3>1. g - 1 + Running =< c - 1 + Running /\ g - 1 + Running \in Int /\ c - 1 + Running \in Int
      BY <1>2, <2>3
    <3> QED
      BY <3>1, SMT
  <2>6. e.at \in Int /\ back(e).at = e.at - Midnight
    BY <1>2, <1>4
  <2>7. back(e).at + (g - 1 + Running') * Pause - Slow =< Begun'
    BY <1>2, <1>3, <2>4, <2>5, <2>6
  <2> QED
    BY <2>7 DEF g
<1>6. Spaced'
  BY <1>1, <1>5 DEF Spaced, From
<1>7. Chained(kept)'
  <2>1. Gap \in Nat
    BY GapType
  <2>2. ASSUME NEW d \in kept
        PROVE  \/ \A e \in kept : back(e).at =< back(d).at
               \/ \E e \in kept : back(d).at < back(e).at /\ back(e).at =< back(d).at + Gap
    <3>1. CASE \A e \in kept : e.at =< d.at
      BY <1>2, <1>4, <3>1
    <3>2. CASE \E e \in kept : d.at < e.at /\ e.at =< d.at + Gap
      BY <1>2, <1>4, <2>1, <3>2
    <3> QED
      BY <3>1, <3>2 DEF Chained
  <2>3. Chained(kept')
    BY <1>1, <2>2 DEF Chained
  <2> QED
    BY <2>3 DEF Chained, Gap
<1>8. Recent'
  <2>1. CASE kept = {}
    BY <1>1, <2>1 DEF Recent
  <2>2. CASE kept # {}
    <3>1. PICK e \in kept : Begun - e.at =< (misses + Running) * Late
      BY <2>2 DEF Recent
    <3>2. Begun' - back(e).at = Begun - e.at /\ back(e) \in kept'
      BY <1>1, <1>2, <1>3, <1>4
    <3> QED
      BY <1>1, <1>3, <3>1, <3>2 DEF Recent
  <2> QED
    BY <2>1, <2>2
<1>9. ASSUME SpanCovered(kept)
      PROVE  SpanCovered(kept)'
  <2>1. PICK d \in kept, e \in kept : e.at - d.at >= TargetSpan * Second
    BY <1>9 DEF SpanCovered
  <2>2. back(e).at - back(d).at = e.at - d.at /\ back(d) \in kept' /\ back(e) \in kept'
    BY <1>1, <1>2, <1>4
  <2> QED
    BY <2>1, <2>2 DEF SpanCovered
<1>10. ASSUME stage = "store"
       PROVE  draft'.at - Begun' = draft.at - Begun
  <2>1. draft.at \in Int /\ draft.at # None /\ "at" \in DOMAIN draft
    BY <1>10, ReadingsAssumption DEF Coherent, TypeOK
  <2>2. draft'.at = draft.at - Midnight
    BY <1>1, <2>1 DEF DayBack
  <2> QED
    BY <1>2, <1>3, <2>1, <2>2
<1> QED
  BY <1>6, <1>7, <1>8, <1>9, <1>10

LEMMA TickInStep ==
  ASSUME Coherent, InStep, Tick
  PROVE  InStep'
<1> USE ScheduleAssumption
<1> SUFFICES ASSUME honest'
             PROVE  InStep'
  BY DEF InStep
<1>1. /\ since' = since + 1 /\ skew' = skew /\ misses' = misses /\ honest /\ stage' = stage
  BY DEF Tick
<1>2. /\ clock \in Nat /\ since \in 0 .. Late /\ misses \in 0 .. MaxMisses
      /\ Begun \in Int /\ Running \in 0 .. 1
  BY StateNumbers
<1>3. /\ skew = 0 /\ Spaced /\ Chained(kept) /\ Recent
      /\ stage = "store" => draft.at - Begun \in 0 .. Slow
  BY <1>1 DEF InStep
<1>4. stage' # "idle" => since' =< Slow
  BY <1>1, <1>2 DEF Tick, OnTime
<1>5. CASE clock + 1 < Midnight
  <2>1. clock' = clock + 1 /\ kept' = kept /\ draft' = draft
    BY <1>5 DEF Tick
  <2>2. Begun' = Begun /\ Running' = Running
    BY <1>1, <1>2, <2>1 DEF Begun, Running
  <2>3. Begun' >= Begun + (Running' - Running) * Pause
    <3>1. (Running - Running) * Pause = 0
      BY <1>2, SMT
    <3> QED
      BY <1>2, <2>2, <3>1
  <2>4. Begun' + (misses + Running) * Late =< Begun + (misses' + Running') * Late
    <3>1. (misses + Running) * Late \in Int
      BY <1>2, SMT
    <3> QED
      BY <1>1, <1>2, <2>2, <3>1
  <2>5. Spaced' /\ Chained(kept)' /\ Recent'
    BY <1>1, <1>2, <1>3, <2>1, <2>2, <2>3, <2>4, SameHistory
  <2> QED
    BY <1>1, <1>3, <1>4, <2>1, <2>2, <2>5 DEF InStep
<1>6. CASE ~ (clock + 1 < Midnight)
  <2>1. /\ Spaced' /\ Chained(kept)' /\ Recent'
        /\ stage = "store" => draft'.at - Begun' = draft.at - Begun
    BY <1>3, <1>6, DayBackInStep
  <2> QED
    BY <1>1, <1>3, <1>4, <2>1 DEF InStep
<1> QED
  BY <1>5, <1>6

LEMMA StepInStep ==
  ASSUME Disciplined, Coherent, InStep, [Next]_vars
  PROVE  InStep'
<1>1. CASE Invoke
  BY <1>1, InvokeInStep
<1>2. ASSUME NEW rows \in Outputs, CollectProcesses(rows)
      PROVE  InStep'
  BY <1>2, GoesOnInStep DEF CollectProcesses
<1>3. ASSUME NEW level \in Levels, CollectPressure(level)
      PROVE  InStep'
  BY <1>3, GoesOnInStep DEF CollectPressure
<1>4. ASSUME NEW swap \in Swaps, CollectSwap(swap)
      PROVE  InStep'
  <2>1. draft'.at = clock + skew
    BY <1>4 DEF CollectSwap, Coherent, TypeOK
  <2> QED
    BY <1>4, <2>1, GoesOnInStep DEF CollectSwap
<1>5. CASE ProcessesMissed \/ PressureMissed \/ SwapMissed
  BY <1>5, MissInStep DEF ProcessesMissed, PressureMissed, SwapMissed
<1>6. ASSUME NEW size \in Sizes, Store(size)
      PROVE  InStep'
  BY <1>6, StoreInStep
<1>7. ASSUME NEW size \in Sizes, StoreRefused(size)
      PROVE  InStep'
  <2>1. ~ honest /\ honest' = honest
    BY <1>7, RefusedNotInStep DEF StoreRefused, time
  <2> QED
    BY <2>1 DEF InStep
<1>8. CASE Tick
  BY <1>8, TickInStep
<1>9. CASE SetClock
  <2>1. ~ honest /\ honest' = honest
    BY <1>9 DEF SetClock, InStep
  <2> QED
    BY <2>1 DEF InStep
<1>10. CASE UNCHANGED vars
  BY <1>10 DEF vars, InStep, Spaced, From, Chained, Recent, Begun, Running
<1> QED
  BY <1>1, <1>2, <1>3, <1>4, <1>5, <1>6, <1>7, <1>8, <1>9, <1>10 DEF Next, Sampler

\* The span of the target is not taken back by pruning.
LEMMA StoreCovers ==
  ASSUME Disciplined, Coherent, InStep, InStep', honest, NEW size \in Sizes, Store(size),
         SpanCovered(kept)
  PROVE  SpanCovered(kept')
<1> USE ScheduleAssumption
<1> DEFINE s == Stored(size)
           U == kept \cup {s}
           K == Kept(U)
<1>1. /\ stage = "store" /\ stage' = "idle" /\ honest' /\ clock' = clock /\ since' = since
      /\ kept' = K /\ Named(kept, s.at) = {}
  BY SameBounds DEF Store, Return, time, History!AppendSample
<1>2. /\ s \in Entries /\ s.at = draft.at /\ draft.at \in Int /\ Begun =< draft.at
      /\ \A e \in kept : e.at < draft.at
  BY <1>1, StoredIsNewest
<1>3. /\ Begun \in Int /\ kept \in SUBSET Entries /\ IsFiniteSet(kept) /\ NamesDiffer(kept)
      /\ \A e \in kept : e.at \in Int
  BY StateNumbers
<1>4. s \in K
  BY <1>2, <1>3, NewestIsKept
<1>5. Chained(U)
  BY <1>1, StoredChained
<1> HIDE DEF s
<1>6. U \in SUBSET Entries /\ IsFiniteSet(U)
  BY <1>2, <1>3, FS_AddElement
<1>7. \A e \in U : e.at =< s.at
  BY <1>2, <1>3
<1>8. NamesDiffer(U)
  BY <1>2, <1>3 DEF NamesDiffer
<1>9. \A o \in K : o.at + (Cardinality(From(K, o.at)) - 1) * Pause - Slow =< Begun
  <2>1. Begun' = Begun /\ Running' = 0
    BY <1>1 DEF Begun, Running
  <2>2. Spaced'
    BY <1>1 DEF InStep
  <2> HIDE DEF K
  <2>3. ASSUME NEW o \in K
        PROVE  o.at + (Cardinality(From(K, o.at)) - 1) * Pause - Slow =< Begun
    <3>1. o.at + (Cardinality(From(K, o.at)) - 1 + 0) * Pause - Slow =< Begun
      BY <1>1, <2>1, <2>2 DEF Spaced, From
    <3>2. Cardinality(From(K, o.at)) \in Nat
      <4>1. From(K, o.at) \in SUBSET U
        BY DEF From, K, Kept
      <4> QED
        BY <1>6, <4>1, FS_Subset, FS_CardinalityType
    <3>3. Cardinality(From(K, o.at)) - 1 + 0 = Cardinality(From(K, o.at)) - 1
      BY <3>2
    <3> QED
      BY <3>1, <3>3
  <2> QED
    BY <2>3
<1>10. CASE K = U
  BY <1>1, <1>10 DEF SpanCovered
<1>11. CASE K # U
  <2>1. Begun =< s.at
    BY <1>2
  <2>2. SpanCovered(K)
    <3> HIDE DEF U
    <3> QED
      BY <1>3, <1>4, <1>5, <1>6, <1>7, <1>8, <1>9, <1>11, <2>1, DroppedCovers
  <2> QED
    BY <1>1, <2>2
<1> QED
  BY <1>10, <1>11

\* Once status says coverage_ready it goes on to say so while `sample' is run
\* in time and the clock is right, whatever the bounds drop (ReadyStays).
THEOREM ReadyAlwaysStays ==
  ASSUME Disciplined
  PROVE  Spec => ReadyStays
<1>1. Init => Coherent /\ InStep
  BY InitCoherent, InitInStep
<1>2. Coherent /\ InStep /\ [Next]_vars => InStep'
  BY StepInStep
<1>3. ASSUME Coherent, Coherent', InStep, InStep', [Next]_vars
      PROVE  [honest /\ Ready(kept) => Ready(kept')]_vars
  <2> SUFFICES ASSUME honest, Ready(kept), Next
               PROVE  Ready(kept')
    BY <1>3
  <2>1. kept # {}
    <3>1. "span_incomplete" \in {"span_incomplete", "observed_days_insufficient", "coverage_insufficient"}
      OBVIOUS
    <3> QED
      BY <3>1 DEF Ready, blockers
  <2>2. kept \in Histories /\ kept' \in Histories
    <3>1. kept \in Histories
      BY <1>3 DEF Coherent, TypeOK, Histories
    <3>2. kept' \in Histories
      BY <1>3 DEF Coherent, TypeOK, Histories, WithinAge
    <3> QED
      BY <3>1, <3>2
  <2>3. SpanCovered(kept)
    BY <2>1, <2>2, StatusOfHistory
  <2>4. SpanCovered(kept') /\ honest'
    <3>1. CASE \E size \in Sizes : Store(size)
      BY <1>3, <2>3, <3>1, StoreCovers DEF Store, time
    <3>2. CASE Tick
      <4>1. CASE clock + 1 < Midnight
        BY <2>3, <3>2, <4>1 DEF Tick
      <4>2. CASE ~ (clock + 1 < Midnight)
        <5>1. SpanCovered(kept)'
          BY <1>3, <2>3, <3>2, <4>2, DayBackInStep DEF InStep
        <5> QED
          BY <3>2, <5>1 DEF SpanCovered, Tick
      <4> QED
        BY <4>1, <4>2
    <3>3. CASE kept' = kept /\ honest' = honest
      BY <2>3, <3>3
    <3>4. \/ \E size \in Sizes : Store(size)
          \/ Tick
          \/ kept' = kept /\ honest' = honest
      BY DEF Next, Sampler, Invoke, CollectProcesses, CollectPressure, CollectSwap,
             ProcessesMissed, PressureMissed, SwapMissed, Miss, StoreRefused, SetClock, time
    <3> QED
      BY <3>1, <3>2, <3>3, <3>4
  <2>5. Chained(kept')
    BY <1>3, <2>4 DEF InStep, Chained, Gap
  <2> QED
    BY <2>2, <2>4, <2>5, ReadyOfChain
<1> QED
  BY <1>1, <1>2, <1>3, CoherentInductive, PTL DEF Spec, ReadyStays

=============================================================================
