----------------------- MODULE FrameReadinessProofs -----------------------
(* Lemmas about the frames of a window of consecutive minutes, for the     *)
(* theorems about RuntimeEvaluation and CausalCampaign.                    *)
EXTENDS FrameReadiness, FiniteSetTheorems, TLAPS

--------------------------------------------------------------------------
(* Arithmetic of frames.                                                   *)

LEMMA Multiples ==
  ASSUME NEW s \in Nat \ {0}, NEW a \in Int, NEW b \in Int
  PROVE  (a * s <= b * s) <=> (a <= b)
<1>1. a <= b => a * s <= b * s
  <2>1. (b - a) * s = b * s - a * s
    BY Z3
  <2>2. ASSUME a <= b PROVE (b - a) * s >= 0
    BY <2>2, Z3
  <2> QED BY <2>1, <2>2
<1>2. a > b => a * s > b * s
  <2>1. (a - b) * s = a * s - b * s
    BY Z3
  <2>2. ASSUME a > b PROVE (a - b) * s > 0
    BY <2>2, Z3
  <2> QED BY <2>1, <2>2
<1> QED BY <1>1, <1>2

LEMMA Division ==
  ASSUME NEW s \in Nat \ {0}, NEW c \in Nat
  PROVE  /\ c \div s \in Nat /\ c % s \in 0..(s - 1)
         /\ c = (c \div s) * s + (c % s)
BY Z3

LEMMA UniqueRemainder ==
  ASSUME NEW s \in Nat \ {0}, NEW u \in Nat, NEW v \in Nat,
         NEW x \in 0..(s - 1), NEW y \in 0..(s - 1), u * s + x = v * s + y
  PROVE  u = v /\ x = y
<1>1. (u + 1) * s = u * s + s /\ (v + 1) * s = v * s + s
  BY Z3
<1>2. ~(v + 1 <= u)
  <2>1. v + 1 <= u => (v + 1) * s <= u * s
    BY Multiples
  <2> QED BY <1>1, <2>1
<1>3. ~(u + 1 <= v)
  <2>1. u + 1 <= v => (u + 1) * s <= v * s
    BY Multiples
  <2> QED BY <1>1, <2>1
<1>4. u = v
  BY <1>2, <1>3
<1>5. u * s = v * s
  BY <1>4
<1> QED BY <1>4, <1>5

\* A multiple of the frame length does not change where in a frame we are.
LEMMA Residue ==
  ASSUME NEW s \in Nat \ {0}, NEW t \in Nat \ {0}, NEW c \in Nat, t % s = 0
  PROVE  (c % t) % s = c % s
<1>1. PICK m \in Nat : t = m * s
  <2>1. t \div s \in Nat /\ t = (t \div s) * s + (t % s)
    BY Division
  <2>2. (t \div s) * s \in Nat
    BY <2>1, Z3
  <2>3. t = (t \div s) * s
    BY <2>1, <2>2
  <2> QED BY <2>1, <2>3, Zenon
<1>2. PICK q \in Nat, r \in Nat : c = q * t + r /\ r = c % t
  <2>1. c \div t \in Nat /\ c % t \in 0..(t - 1) /\ c = (c \div t) * t + (c % t)
    BY Division
  <2>2. c % t \in Nat
    BY <2>1
  <2> QED BY <2>1, <2>2, Zenon
<1>3. PICK j \in Nat, x \in 0..(s - 1) : r = j * s + x /\ x = r % s
  BY Division
<1>4. PICK v \in Nat, y \in 0..(s - 1) : c = v * s + y /\ y = c % s
  BY Division
<1>5. q * t = (q * m) * s /\ q * m \in Nat
  BY <1>1, Z3
<1>6. (q * m + j) * s = (q * m) * s + j * s /\ q * m + j \in Nat
  BY <1>5, Z3
<1>7. (q * m + j) * s + x = v * s + y
  <2>1. c = q * t + r /\ r = j * s + x /\ c = v * s + y
    BY <1>2, <1>3, <1>4
  <2>2. c = (q * m) * s + (j * s + x)
    BY <2>1, <1>5
  <2> QED BY <2>1, <2>2, <1>6, Z3
<1>8. x = y
  BY <1>6, <1>7, UniqueRemainder
<1> QED BY <1>8, <1>2, <1>3, <1>4, Zenon

--------------------------------------------------------------------------
(* Frames of a window of consecutive minutes.                              *)

LEMMA WindowMinutes ==
  ASSUME NEW rows, Consecutive(rows)
  PROVE  /\ Closed(rows) \in Nat /\ Len(rows) \in 1..Closed(rows)
         /\ \A m \in Int : (\E i \in 1..Len(rows) : rows[i].open = m)
                             <=> Closed(rows) - Len(rows) <= m /\ m < Closed(rows)
<1>1. /\ Len(rows) \in Nat \ {0} /\ \A i \in 1..Len(rows) : rows[i] \in Bar
      /\ \A i \in 1..Len(rows) : rows[i].open \in Nat
  <2>1. rows \in Seq(Bar) /\ Len(rows) > 0
    BY DEF Consecutive
  <2>2. Len(rows) \in Nat \ {0} /\ \A i \in 1..Len(rows) : rows[i] \in Bar
    BY <2>1
  <2>3. \A b \in Bar : b.open \in Nat
    BY DEF Bar
  <2> QED BY <2>2, <2>3
<1>2. Closed(rows) \in Nat /\ rows[1].open = Closed(rows) - Len(rows)
  <2>1. 1 \in 1..Len(rows) /\ Len(rows) \in 1..Len(rows)
    BY <1>1
  <2>2. Closed(rows) \in Nat
    <3>1. rows[Len(rows)].open \in Nat
      BY <1>1, <2>1
    <3> QED BY <3>1 DEF Closed
  <2>3. rows[1].open = Closed(rows) - 1 - (Len(rows) - 1)
    BY <2>1 DEF Consecutive
  <2> QED BY <1>1, <2>2, <2>3
<1>3. Len(rows) \in 1..Closed(rows)
  BY <1>1, <1>2
<1>4. ASSUME NEW m \in Int, Closed(rows) - Len(rows) <= m, m < Closed(rows)
      PROVE  \E i \in 1..Len(rows) : rows[i].open = m
  <2> DEFINE i == m - (Closed(rows) - Len(rows)) + 1
  <2>1. i \in 1..Len(rows)
    BY <1>1, <1>2, <1>4
  <2>2. rows[i].open = Closed(rows) - 1 - (Len(rows) - i)
    BY <2>1 DEF Consecutive
  <2>3. rows[i].open = m
    BY <2>2, <1>1, <1>2
  <2> QED BY <2>1, <2>3
<1>5. ASSUME NEW i \in 1..Len(rows)
      PROVE  Closed(rows) - Len(rows) <= rows[i].open /\ rows[i].open < Closed(rows)
  <2>1. rows[i].open = Closed(rows) - 1 - (Len(rows) - i)
    BY DEF Consecutive
  <2> QED BY <2>1, <1>1, <1>2
<1> QED BY <1>2, <1>3, <1>4, <1>5

\* A frame is complete when it lies between the window's two ends.
LEMMA FramesBetweenEnds ==
  ASSUME NEW rows, Consecutive(rows), NEW s \in Nat \ {0}, NEW k \in Nat
  PROVE  k \in Frames(rows, s) <=>
           /\ k \in 0..(Closed(rows) \div s)
           /\ Closed(rows) - Len(rows) <= k * s /\ k * s + s <= Closed(rows)
<1>1. /\ Closed(rows) \in Nat /\ Len(rows) \in Nat
      /\ \A m \in Int : (\E i \in 1..Len(rows) : rows[i].open = m)
                          <=> Closed(rows) - Len(rows) <= m /\ m < Closed(rows)
  BY WindowMinutes
<1>2. k * s \in Nat
  BY Z3
<1>3. ASSUME k \in Frames(rows, s)
      PROVE  Closed(rows) - Len(rows) <= k * s /\ k * s + s <= Closed(rows)
  <2> DEFINE frame == (k * s)..(k * s + s - 1)
  <2>0. frame \subseteq Minutes(rows)
    BY <1>3, Zenon DEF Frames
  <2>1. \A m \in frame : Closed(rows) - Len(rows) <= m /\ m < Closed(rows)
    <3> TAKE m \in frame
    <3>1. m \in Int /\ m \in Minutes(rows)
      BY <2>0, <1>2
    <3>2. \E i \in 1..Len(rows) : rows[i].open = m
      BY <3>1 DEF Minutes
    <3> QED BY <3>1, <3>2, <1>1
  <2>2. k * s \in (k * s)..(k * s + s - 1) /\ k * s + s - 1 \in (k * s)..(k * s + s - 1)
    BY <1>2
  <2> QED BY <2>1, <2>2, <1>1, <1>2
<1>4. ASSUME Closed(rows) - Len(rows) <= k * s, k * s + s <= Closed(rows)
      PROVE  (k * s)..(k * s + s - 1) \subseteq Minutes(rows)
  <2> SUFFICES ASSUME NEW m \in (k * s)..(k * s + s - 1)
               PROVE  \E i \in 1..Len(rows) : rows[i].open = m
    BY DEF Minutes
  <2>1. m \in Int /\ Closed(rows) - Len(rows) <= m /\ m < Closed(rows)
    BY <1>1, <1>2, <1>4
  <2> QED BY <2>1, <1>1
<1>5. k \in Frames(rows, s) <=>
        k \in 0..(Closed(rows) \div s) /\ (k * s)..(k * s + s - 1) \subseteq Minutes(rows)
  BY Zenon DEF Frames
<1> QED BY <1>3, <1>4, <1>5

\* The frames counted are as many as the strategy looks back on: then they
\* are the last ones, since a complete frame with a counted one before it and
\* complete ones after it is counted too.
LEMMA LatestFramesAvailable ==
  ASSUME NEW rows, Consecutive(rows), NEW r \in Rule, NEW f \in r.frames,
         HistoryReady(r, rows), NEW back \in 1..f.count
  PROVE  Closed(rows) \div f.size - back \in Available(r, rows, f.size)
<1> DEFINE s == f.size
           c == Closed(rows)
           n == Len(rows)
           q == c \div s
           F == Frames(rows, s)
           A == Available(r, rows, s)
<1>1. s \in Nat \ {0} /\ f.count \in Nat \ {0}
  BY DEF Rule, Frame
<1>2. c \in Nat /\ n \in Nat
  BY WindowMinutes
<1>3. A \subseteq F /\ F \subseteq Nat
  BY DEF Available, Frames
<1>4. Cardinality(A) >= f.count
  BY DEF HistoryReady
<1> HIDE DEF s, c, n
<1>13. q \in Nat /\ c % s \in 0..(s - 1) /\ c = q * s + (c % s)
  BY <1>1, <1>2, Division
<1> HIDE DEF q, F, A
<1>5. \A k \in Nat : k * s \in Nat /\ (k + 1) * s = k * s + s
  BY <1>1, Z3
<1>6. q * s \in Nat
  BY <1>1, <1>13, Z3
<1>7. \A k \in Nat : k \in F <=> k \in 0..q /\ c - n <= k * s /\ k * s + s <= c
  BY <1>1, FramesBetweenEnds DEF q, F, c, n
<1>8. F \subseteq 0..(q - 1)
  <2> SUFFICES ASSUME NEW k \in F PROVE k \in 0..(q - 1)
    OBVIOUS
  <2>1. k \in Nat /\ k \in 0..q /\ k * s + s <= c /\ k * s \in Nat
    BY <1>3, <1>5, <1>7
  <2>2. k # q
    BY <2>1, <1>1, <1>2, <1>13
  <2> QED BY <2>1, <2>2, <1>13
<1>9. ASSUME NEW k \in A, NEW j \in k..(q - 1) PROVE j \in A
  <2>1. k \in Nat /\ k \in F /\ j \in Nat /\ j \in 0..q /\ j + 1 <= q
    BY <1>13, <1>3, <1>9
  <2>2. k * s <= j * s /\ (j + 1) * s <= q * s
    <3>1. k \in Int /\ j \in Int /\ k <= j /\ j + 1 \in Int /\ q \in Int
      BY <2>1, <1>13
    <3> QED BY <2>1, <3>1, <1>1, Multiples
  <2>3. c - n <= k * s /\ k * s \in Nat /\ j * s \in Nat
        /\ (j + 1) * s = j * s + s
    BY <2>1, <1>5, <1>7
  <2>4. j \in F
    <3>1. c - n <= j * s /\ j * s + s <= c
      BY <2>2, <2>3, <1>1, <1>2, <1>6, <1>13
    <3> QED BY <2>1, <3>1, <1>7
  <2>5. r.segment => \A i \in F : i >= k => Traded(rows, i, s)
    BY <1>9 DEF A, Available, F
  <2>6. r.segment => \A i \in F : i >= j => Traded(rows, i, s)
    BY <2>1, <2>5, <1>3, <1>9
  <2> QED BY <2>4, <2>6 DEF A, Available, F
<1>10. ASSUME q - back \notin A PROVE A \subseteq (q - back + 1)..(q - 1)
  <2> SUFFICES ASSUME NEW k \in A PROVE k \in (q - back + 1)..(q - 1)
    OBVIOUS
  <2>1. k \in 0..(q - 1) /\ k \in Nat
    BY <1>3, <1>8
  <2>2. k <= q - back => q - back \in k..(q - 1)
    BY <2>1, <1>1, <1>13
  <2> QED BY <2>1, <2>2, <1>1, <1>13, <1>9, <1>10
<1>11. ASSUME q - back \notin A PROVE FALSE
  <2>1. q - back + 1 \in Int /\ q - 1 \in Int
    BY <1>1, <1>13
  <2>2. IsFiniteSet((q - back + 1)..(q - 1))
        /\ Cardinality((q - back + 1)..(q - 1))
             = IF q - back + 1 > q - 1 THEN 0 ELSE (q - 1) - (q - back + 1) + 1
    BY <2>1, FS_Interval
  <2>3. (q - back + 1 > q - 1 => 0 < f.count) /\ (q - 1) - (q - back + 1) + 1 < f.count
    BY <1>1, <1>13
  <2>4. IsFiniteSet(A) /\ Cardinality(A) <= Cardinality((q - back + 1)..(q - 1))
    BY <1>10, <1>11, <2>2, FS_Subset
  <2>5. Cardinality(A) \in Nat
    BY <2>4, FS_CardinalityType
  <2>6. Cardinality((q - back + 1)..(q - 1)) < f.count
    BY <2>2, <2>3
  <2>7. Cardinality((q - back + 1)..(q - 1)) \in Nat
    BY <2>2, FS_CardinalityType
  <2> QED BY <2>4, <2>5, <2>6, <2>7, <1>1, <1>4
<1> QED BY <1>11 DEF q, A, c, s

\* A counted frame is whole, and traded if the strategy resets on zero volume.
LEMMA CountedFrameIsWhole ==
  ASSUME NEW rows, NEW r, NEW s, NEW k \in Available(r, rows, s), s \in Nat
  PROVE  /\ \A m \in (k * s)..(k * s + s - 1) : \E i \in 1..Len(rows) : rows[i].open = m
         /\ r.segment => Traded(rows, k, s)
<1>1. k \in Frames(rows, s) /\ k \in Int
  BY DEF Available, Frames
<1>2. (k * s)..(k * s + s - 1) \subseteq Minutes(rows)
  BY <1>1, Zenon DEF Frames
<1>3. r.segment => Traded(rows, k, s)
  BY <1>1 DEF Available
<1> QED BY <1>2, <1>3 DEF Minutes

\* A traded bar of one of the n frames before `frame`.
LEMMA PriorFrameTraded ==
  ASSUME NEW rows \in Seq(Bar), NEW s \in Nat \ {0}, NEW frame \in Int, NEW n \in Nat,
         NEW k \in 1..n, Traded(rows, frame - k, s)
  PROVE  \E i \in 1..Len(rows) :
           rows[i].traded /\ rows[i].open \in ((frame - n) * s)..(frame * s - 1)
<1>1. PICK i \in 1..Len(rows) : rows[i].open \div s = frame - k /\ rows[i].traded
  BY DEF Traded, InBucket
<1>2. rows[i].open \in Nat
  <2>1. rows[i] \in Bar
    OBVIOUS
  <2> QED BY <2>1 DEF Bar
<1> DEFINE m == rows[i].open
           g == frame - k
<1>3. m \div s \in Nat /\ m % s \in 0..(s - 1) /\ m = (m \div s) * s + (m % s)
  BY <1>2, Division
<1>4. g \in Nat /\ \E x \in 0..(s - 1) : m = g * s + x
  BY <1>1, <1>3
<1>5. g \in Int /\ g + 1 \in Int /\ frame - n \in Int /\ frame - n <= g /\ g + 1 <= frame
  OBVIOUS
<1> HIDE DEF g, m
<1>6. (frame - n) * s <= g * s /\ (g + 1) * s <= frame * s
  BY <1>5, Multiples
<1>7. (frame - n) * s \in Int /\ frame * s \in Int /\ g * s \in Int /\ (g + 1) * s = g * s + s
  BY <1>4, <1>5, Z3
<1>8. m \in ((frame - n) * s)..(frame * s - 1)
  <2>1. PICK x \in 0..(s - 1) : m = g * s + x
    BY <1>4
  <2>2. m \in Int /\ g * s <= m /\ m < g * s + s
    BY <2>1, <1>7
  <2> QED BY <2>2, <1>6, <1>7
<1> QED BY <1>1, <1>8 DEF m

=============================================================================
