---------------------- MODULE DonchianEnsembleProofs ----------------------
(* Theorems about DonchianEnsemble, for every value of its constants.      *)
EXTENDS DonchianEnsemble, FiniteSetTheorems, WellFoundedInduction, TLAPS

--------------------------------------------------------------------------
(* The channel.                                                            *)

\* A stretch of natural numbers has a largest one.
LEMMA LargestOfStretch ==
  ASSUME NEW s, NEW a \in Nat, NEW b \in Nat, a <= b,
         \A j \in a..b : s[j] \in Nat
  PROVE  \E j \in a..b : \A k \in a..b : s[k] <= s[j]
<1> DEFINE Good(n) == \E j \in a..n : \A k \in a..n : s[k] <= s[j]
           Bad == {n \in Nat : n \in a..b /\ ~Good(n)}
<1>1. SUFFICES ASSUME Bad # {} PROVE FALSE
  <2>1. b \in a..b
    OBVIOUS
  <2>2. QED
    BY <2>1
<1>2. PICK n \in Bad : \A m \in Bad : ~ (<<m, n>> \in OpToRel(<, Nat))
  BY <1>1, NatLessThanWellFounded, WFMin
<1>3. n \in Nat /\ n \in a..b /\ ~Good(n)
  BY <1>2
<1>4. \A m \in Nat : m \in a..b /\ m < n => Good(m)
  BY <1>2, <1>3 DEF OpToRel
<1>5. CASE n = a
  <2>1. \A k \in a..n : s[k] <= s[a]
    BY <1>5, <1>3
  <2>2. a \in a..n
    BY <1>5
  <2>3. QED
    BY <2>1, <2>2, <1>3
<1>6. CASE n > a
  <2>1. n - 1 \in Nat /\ n - 1 \in a..b /\ n - 1 < n
    BY <1>6, <1>3
  <2>2. PICK j \in a..(n - 1) : \A k \in a..(n - 1) : s[k] <= s[j]
    BY <2>1, <1>4
  <2>3. s[n] \in Nat /\ s[j] \in Nat
    BY <1>3, <2>1, <2>2
  <2>4. CASE s[n] <= s[j]
    <3>1. \A k \in a..n : s[k] <= s[j]
      BY <2>2, <2>4, <1>3
    <3>2. j \in a..n
      BY <2>2, <1>3
    <3>3. QED
      BY <3>1, <3>2, <1>3
  <2>5. CASE s[j] < s[n]
    <3>1. ASSUME NEW k \in a..n PROVE s[k] <= s[n]
      <4>1. CASE k = n
        BY <4>1, <2>3
      <4>2. CASE k # n
        <5>1. k \in a..(n - 1) /\ k \in a..b
          BY <4>2, <1>3
        <5>2. s[k] <= s[j] /\ s[k] \in Nat
          BY <5>1, <2>2
        <5>3. QED
          BY <5>2, <2>3, <2>5
      <4>3. QED
        BY <4>1, <4>2
    <3>2. n \in a..n
      BY <1>3
    <3>3. QED
      BY <3>1, <3>2, <1>3
  <2>6. QED
    BY <2>3, <2>4, <2>5
<1>7. QED
  BY <1>3, <1>5, <1>6

\* A nonempty set of natural numbers has a smallest one.
LEMMA SmallestOfSet ==
  ASSUME NEW S \in SUBSET Nat, S # {}
  PROVE  \E c \in S : \A d \in S : c <= d
<1>1. PICK c \in S : \A d \in S : ~ (<<d, c>> \in OpToRel(<, Nat))
  BY NatLessThanWellFounded, WFMin
<1>2. \A d \in S : ~ (d < c)
  BY <1>1 DEF OpToRel
<1>3. \A d \in S : d \in Nat /\ c \in Nat
  OBVIOUS
<1>4. \A d \in S : c <= d
  BY <1>2, <1>3
<1>5. QED
  BY <1>4

\* The middle of a channel that is complete is a number.
LEMMA MidpointType ==
  ASSUME NEW s \in Seq(Closes), NEW h \in Horizons, NEW i \in 1..Len(s), HasChannel(h, i)
  PROVE  /\ Upper(s, h, i) \in Nat /\ Lower(s, h, i) \in Nat
         /\ Midpoint(s, h, i) \in Nat
<1> DEFINE a == i - h + 1
           C == Channel(s, h, i)
<1>1. h \in Nat /\ h >= 2 /\ i \in Nat /\ a \in Nat /\ a <= i /\ 1 <= a
  BY HorizonsAssumption DEF HasChannel
<1>2. \A j \in a..i : j \in 1..Len(s)
  BY <1>1
<1>3. \A j \in a..i : s[j] \in Nat
  <2>1. s \in [1..Len(s) -> Closes]
    OBVIOUS
  <2>2. QED
    BY <1>2, <2>1, ClosesAssumption
<1>4. C = {s[j] : j \in a..i}
  BY DEF Channel
<1>5. C \subseteq Nat /\ C # {}
  <2>1. i \in a..i
    BY <1>1
  <2>2. QED
    BY <2>1, <1>3, <1>4
<1>6. PICK j \in a..i : \A k \in a..i : s[k] <= s[j]
  BY <1>1, <1>3, LargestOfStretch
<1>7. Upper(s, h, i) \in C
  <2>1. \E c \in C : \A d \in C : d <= c
    BY <1>4, <1>6
  <2>2. QED
    BY <2>1 DEF Upper
<1>8. Lower(s, h, i) \in C
  <2>1. \E c \in C : \A d \in C : c <= d
    BY <1>5, SmallestOfSet
  <2>2. QED
    BY <2>1 DEF Lower
<1>9. Upper(s, h, i) \in Nat /\ Lower(s, h, i) \in Nat
  BY <1>5, <1>7, <1>8
<1>10. QED
  BY <1>9 DEF Midpoint

\* A new day leaves the channels of the days before as they were.
LEMMA ChannelsStay ==
  ASSUME NEW s \in Seq(Closes), NEW c \in Closes, NEW h \in Horizons,
         NEW i \in 1..Len(s), HasChannel(h, i)
  PROVE  /\ Midpoint(Append(s, c), h, i) = Midpoint(s, h, i)
         /\ IsHigh(Append(s, c), h, i) <=> IsHigh(s, h, i)
<1> DEFINE t == Append(s, c)
<1>1. h \in Nat /\ i - h + 1 >= 1
  BY HorizonsAssumption DEF HasChannel
<1>2. \A j \in 1..Len(s) : t[j] = s[j]
  OBVIOUS
<1>3. \A j \in (i - h + 1)..i : j \in 1..Len(s)
  BY <1>1
<1> HIDE DEF t
<1>4. Channel(t, h, i) = Channel(s, h, i)
  BY <1>2, <1>3 DEF Channel
<1>5. Upper(t, h, i) = Upper(s, h, i) /\ Lower(t, h, i) = Lower(s, h, i)
  BY <1>4 DEF Upper, Lower
<1>6. t[i] = s[i]
  BY <1>2
<1>7. QED
  BY <1>5, <1>6 DEF Midpoint, IsHigh, t

--------------------------------------------------------------------------
(* The invariant.                                                          *)

\* Only a model with a complete channel is in the market.
ChannelsAreComplete == \A h \in active : HasChannel(h, Len(rows))

\* The inductive invariant: why each model is in the market or out of it.
EnsembleInv ==
  /\ TypeOK
  /\ ChannelsAreComplete
  /\ StopsAreExplained
  /\ ExitsAreExplained
  /\ FlatMeansInactive

\* What a day does to the models.
LEMMA UpdateFacts ==
  ASSUME TypeOK, ChannelsAreComplete, NEW close \in Closes,
         rows' = Append(rows, close), Update(rows')
  PROVE  /\ rows' \in Seq(Closes) /\ Len(rows') = Len(rows) + 1 /\ Len(rows) \in Nat
         /\ active' \subseteq Horizons
         /\ trailing' \in [active' -> Nat]
         /\ ChannelsAreComplete'
         /\ \A h \in active' :
              /\ Midpoint(rows', h, Len(rows')) \in Nat
              /\ Midpoint(rows', h, Len(rows')) <= trailing'[h]
              /\ h \in active => /\ trailing[h] <= trailing'[h]
                                 /\ trailing'[h] \in {trailing[h], Midpoint(rows', h, Len(rows'))}
                                 /\ \/ IsHigh(rows', h, Len(rows'))
                                    \/ 2 * rows'[Len(rows')] > trailing[h]
              /\ h \notin active => /\ IsHigh(rows', h, Len(rows'))
                                    /\ trailing'[h] = Midpoint(rows', h, Len(rows'))
<1>1. /\ rows' \in Seq(Closes) /\ Len(rows') = Len(rows) + 1 /\ Len(rows) \in Nat
      /\ rows'[Len(rows')] \in Nat
  BY ClosesAssumption DEF TypeOK
<1>2. active' \subseteq Horizons
  BY DEF Update, Enters, TypeOK
<1>3. ASSUME NEW h \in active' PROVE HasChannel(h, Len(rows'))
  <2>1. h \in Nat
    BY <1>2, HorizonsAssumption
  <2>2. CASE h \in active
    <3>1. HasChannel(h, Len(rows))
      BY <2>2 DEF ChannelsAreComplete
    <3>2. QED
      BY <1>1, <2>1, <3>1 DEF HasChannel
  <2>3. CASE h \notin active
    BY <1>3, <2>3 DEF Update, Enters
  <2>4. QED
    BY <2>2, <2>3
<1>4. ASSUME NEW h \in active' PROVE Midpoint(rows', h, Len(rows')) \in Nat
  <2>1. h \in Horizons /\ Len(rows') \in 1..Len(rows')
    BY <1>1, <1>2
  <2>2. QED
    BY <1>1, <1>3, <2>1, MidpointType
<1>5. trailing' = [h \in active' |-> Ratchet(rows', h)]
  BY DEF Update
<1>6. ASSUME NEW h \in active' PROVE trailing'[h] \in Nat
  <2>1. h \in active => trailing[h] \in Nat
    BY DEF TypeOK
  <2>2. QED
    BY <1>4, <1>5, <2>1 DEF Ratchet
<1>7. trailing' \in [active' -> Nat]
  BY <1>5, <1>6
<1>8. ASSUME NEW h \in active'
      PROVE  /\ Midpoint(rows', h, Len(rows')) <= trailing'[h]
             /\ h \in active => /\ trailing[h] <= trailing'[h]
                                /\ trailing'[h] \in {trailing[h], Midpoint(rows', h, Len(rows'))}
  <2>1. h \in active => trailing[h] \in Nat
    BY DEF TypeOK
  <2>2. QED
    BY <1>4, <1>5, <2>1 DEF Ratchet
<1>9. ASSUME NEW h \in active', h \in active
      PROVE  \/ IsHigh(rows', h, Len(rows'))
             \/ 2 * rows'[Len(rows')] > trailing[h]
  <2>1. h \in Horizons /\ HasChannel(h, Len(rows'))
    BY <1>2, <1>3
  <2>2. h \notin Exits(rows')
    BY DEF Update
  <2>3. h \in Enters(rows') \/ ~AtOrBelowStop(rows', h)
    BY <2>1, <2>2 DEF Exits
  <2>4. trailing[h] \in Nat
    BY <1>9 DEF TypeOK
  <2>5. QED
    BY <1>1, <1>9, <2>3, <2>4 DEF Enters, AtOrBelowStop
<1>10. ASSUME NEW h \in active', h \notin active
       PROVE  /\ IsHigh(rows', h, Len(rows'))
              /\ trailing'[h] = Midpoint(rows', h, Len(rows'))
  <2>1. h \in Enters(rows')
    BY <1>10 DEF Update
  <2>2. QED
    BY <1>5, <1>10, <2>1 DEF Enters, Ratchet
<1>11. QED
  BY <1>1, <1>2, <1>3, <1>4, <1>7, <1>8, <1>9, <1>10 DEF ChannelsAreComplete

--------------------------------------------------------------------------
(* A new day leaves the history of a model as it was.                      *)

LEMMA DaysStay ==
  ASSUME TypeOK, NEW close \in Closes, rows' = Append(rows, close), NEW h \in Horizons
  PROVE  /\ Len(rows) \in Nat /\ Len(rows') = Len(rows) + 1
         /\ \A i \in 1..Len(rows) :
              /\ rows'[i] = rows[i] /\ rows[i] \in Nat
              /\ HasChannel(h, i) => /\ Midpoint(rows', h, i) = Midpoint(rows, h, i)
                                     /\ Midpoint(rows, h, i) \in Nat
                                     /\ IsHigh(rows', h, i) <=> IsHigh(rows, h, i)
<1>1. /\ rows \in Seq(Closes) /\ Len(rows) \in Nat /\ Len(rows') = Len(rows) + 1
      /\ \A i \in 1..Len(rows) : rows'[i] = rows[i] /\ rows[i] \in Closes
  BY DEF TypeOK
<1>2. \A i \in 1..Len(rows) : HasChannel(h, i) =>
        /\ Midpoint(rows', h, i) = Midpoint(rows, h, i) /\ Midpoint(rows, h, i) \in Nat
        /\ IsHigh(rows', h, i) <=> IsHigh(rows, h, i)
  BY <1>1, ChannelsStay, MidpointType
<1>3. QED
  BY <1>1, <1>2, ClosesAssumption

\* The first high after an exit stays the first.
LEMMA FirstHighStays ==
  ASSUME TypeOK, NEW close \in Closes, rows' = Append(rows, close), NEW h \in Horizons,
         NEW exit \in Nat, NEW entry \in Nat, IsFirstHigh(h, exit, entry)
  PROVE  IsFirstHigh(h, exit, entry)'
<1>1. /\ entry \in 1..Len(rows) /\ Len(rows') = Len(rows) + 1 /\ Len(rows) \in Nat
      /\ \A day \in (exit + 1)..(entry - 1) : day \in 1..Len(rows)
  BY DaysStay DEF IsFirstHigh
<1>2. \A day \in 1..Len(rows) :
        HasChannel(h, day) => (IsHigh(rows', h, day) <=> IsHigh(rows, h, day))
  BY DaysStay
<1>3. QED
  BY <1>1, <1>2 DEF IsFirstHigh, HasChannel

\* A close that met the stop of a position still does, and no other.
LEMMA MeetsStopStays ==
  ASSUME TypeOK, NEW close \in Closes, rows' = Append(rows, close), NEW h \in Horizons,
         NEW entry \in 1..Len(rows), HasChannel(h, entry),
         NEW day \in (entry + 1)..Len(rows)
  PROVE  MeetsStop(h, entry, day)' <=> MeetsStop(h, entry, day)
<1>1. Len(rows) \in Nat /\ h \in Nat
  BY DaysStay, HorizonsAssumption
<1>2. /\ day \in 1..Len(rows) /\ HasChannel(h, day)
      /\ \A i \in entry..(day - 1) : i \in 1..Len(rows) /\ HasChannel(h, i)
  BY <1>1 DEF HasChannel
<1>3. rows'[day] = rows[day] /\ (IsHigh(rows', h, day) <=> IsHigh(rows, h, day))
  BY <1>2, DaysStay
<1>4. \A i \in entry..(day - 1) : Midpoint(rows', h, i) = Midpoint(rows, h, i)
  BY <1>2, DaysStay
<1>5. QED
  BY <1>3, <1>4 DEF MeetsStop

LEMMA IsHeldStays ==
  ASSUME TypeOK, NEW close \in Closes, rows' = Append(rows, close), NEW h \in Horizons,
         NEW entry \in 1..Len(rows), HasChannel(h, entry),
         NEW last \in Int, last <= Len(rows), IsHeld(h, entry, last)
  PROVE  IsHeld(h, entry, last)'
<1>1. \A day \in (entry + 1)..last : day \in (entry + 1)..Len(rows)
  BY DaysStay
<1>2. QED
  BY <1>1, MeetsStopStays DEF IsHeld

\* So the exits of the days before stay its exits.
LEMMA ExitsStay ==
  ASSUME TypeOK, NEW close \in Closes, rows' = Append(rows, close), NEW h \in Horizons,
         NEW exits \in SUBSET Setbacks(h), AreExits(h, exits)
  PROVE  AreExits(h, exits)' /\ exits \in SUBSET Setbacks(h)'
<1>1. Len(rows') = Len(rows) + 1 /\ Len(rows) \in Nat /\ exits \subseteq 1..Len(rows)
  BY DaysStay DEF Setbacks
<1>2. ASSUME NEW x \in exits
      PROVE  \E exit \in {0} \union exits, entry \in 1..(x - 1) :
               /\ IsLastExit(exits, exit, x) /\ IsFirstHigh(h, exit, entry)'
               /\ IsHeld(h, entry, x - 1)' /\ MeetsStop(h, entry, x)'
  <2>1. PICK exit \in {0} \union exits, entry \in 1..(x - 1) :
          /\ IsLastExit(exits, exit, x) /\ IsFirstHigh(h, exit, entry)
          /\ IsHeld(h, entry, x - 1) /\ MeetsStop(h, entry, x)
    BY DEF AreExits
  <2>2. /\ exit \in Nat /\ entry \in Nat /\ entry \in 1..Len(rows) /\ HasChannel(h, entry)
        /\ x - 1 \in Int /\ x - 1 <= Len(rows) /\ x \in (entry + 1)..Len(rows)
    BY <1>1, <2>1 DEF IsFirstHigh
  <2>3. IsFirstHigh(h, exit, entry)'
    BY <2>1, <2>2, FirstHighStays
  <2>4. IsHeld(h, entry, x - 1)'
    BY <2>1, <2>2, IsHeldStays
  <2>5. MeetsStop(h, entry, x)'
    BY <2>1, <2>2, MeetsStopStays
  <2>6. QED
    BY <2>1, <2>3, <2>4, <2>5
<1>3. AreExits(h, exits)'
  BY <1>2 DEF AreExits, IsLastExit
<1>4. exits \in SUBSET Setbacks(h)'
  BY <1>1, DaysStay DEF Setbacks, HasChannel
<1>5. QED
  BY <1>3, <1>4

\* The last exit stays the last while none is added.
LEMMA LastExitStays ==
  ASSUME NEW n \in Nat, NEW exits \in SUBSET (1..n), NEW exit, IsLastExit(exits, exit, n + 1)
  PROVE  exit \in Nat /\ exit <= n /\ IsLastExit(exits, exit, n + 2)
BY DEF IsLastExit

\* A model in the market after a day is explained by the day it entered.
LEMMA StopsStayExplained ==
  ASSUME TypeOK, ChannelsAreComplete, StopsAreExplained, ExitsAreExplained,
         NEW close \in Closes, rows' = Append(rows, close), Update(rows')
  PROVE  StopsAreExplained'
<1>0. PICK l \in Nat, n \in Nat : l = Len(rows) /\ n = Len(rows')
  BY UpdateFacts
<1> USE <1>0
<1>1. SUFFICES ASSUME NEW h \in active'
               PROVE  \E exits \in SUBSET Setbacks(h)' :
                        \E exit \in {0} \union exits, entry \in 1..n :
                          /\ IsLastExit(exits, exit, n + 1) /\ IsFirstHigh(h, exit, entry)'
                          /\ \E i \in entry..n : Midpoint(rows', h, i) = trailing'[h]
                          /\ \A i \in entry..n : Midpoint(rows', h, i) <= trailing'[h]
                          /\ IsHeld(h, entry, n)' /\ AreExits(h, exits)'
  BY DEF StopsAreExplained, IsLastExit, IsHeld
<1> DEFINE mid == Midpoint(rows', h, n)
<1>2. /\ h \in Horizons /\ h \in Nat /\ HasChannel(h, n)
      /\ l \in Nat /\ n \in Nat /\ n = l + 1 /\ rows'[n] \in Nat
      /\ mid \in Nat /\ mid <= trailing'[h] /\ trailing'[h] \in Nat
  <2>1. rows'[Len(rows')] = close /\ close \in Nat
    BY ClosesAssumption DEF TypeOK
  <2>2. /\ active' \subseteq Horizons /\ ChannelsAreComplete'
        /\ trailing' \in [active' -> Nat]
        /\ mid \in Nat /\ mid <= trailing'[h]
        /\ n = l + 1 /\ l \in Nat
    BY UpdateFacts
  <2>3. h \in Horizons /\ HasChannel(h, n) /\ trailing'[h] \in Nat
    BY <2>2 DEF ChannelsAreComplete
  <2>4. QED
    BY <2>1, <2>2, <2>3, HorizonsAssumption
<1>3. CASE h \notin active
  <2>1. IsHigh(rows', h, n) /\ trailing'[h] = mid
    BY <1>3, UpdateFacts
  <2>2. PICK exits \in SUBSET Setbacks(h) : \E exit \in {0} \union exits :
          /\ IsLastExit(exits, exit, l + 1) /\ AreExits(h, exits)
          /\ \A day \in (exit + 1)..l : HasChannel(h, day) => ~IsHigh(rows, h, day)
    BY <1>2, <1>3 DEF ExitsAreExplained
  <2>3. PICK exit \in {0} \union exits :
          /\ IsLastExit(exits, exit, l + 1) /\ AreExits(h, exits)
          /\ \A day \in (exit + 1)..l : HasChannel(h, day) => ~IsHigh(rows, h, day)
    BY <2>2
  <2>4. AreExits(h, exits)' /\ exits \in SUBSET Setbacks(h)'
    BY <1>2, <2>3, ExitsStay
  <2>5. exit \in Nat /\ exit <= l /\ IsLastExit(exits, exit, n + 1)
    <3>1. exits \in SUBSET (1..l)
      BY DEF Setbacks
    <3>2. IsLastExit(exits, exit, l + 2)
      BY <1>2, <2>3, <3>1, LastExitStays
    <3>3. n + 1 = l + 2
      BY <1>2
    <3>4. QED
      BY <1>2, <2>3, <3>1, <3>2, <3>3, LastExitStays
  <2>6. IsFirstHigh(h, exit, n)'
    <3>1. \A day \in (exit + 1)..(n - 1) : HasChannel(h, day) => ~IsHigh(rows', h, day)
      BY <1>2, <2>3, <2>5, DaysStay
    <3>2. n \in (exit + 1)..n
      BY <1>2, <2>5
    <3>3. QED
      BY <1>2, <2>1, <3>1, <3>2 DEF IsFirstHigh, HasChannel
  <2>7. n \in 1..n /\ n..n = {n} /\ (n + 1)..n = {}
    BY <1>2
  <2>8. IsHeld(h, n, n)'
    BY <2>7 DEF IsHeld
  <2>9. QED
    BY <1>2, <2>1, <2>4, <2>5, <2>6, <2>7, <2>8
<1>4. CASE h \in active
  <2>1. /\ trailing[h] \in Nat /\ trailing[h] <= trailing'[h]
        /\ trailing'[h] \in {trailing[h], mid}
        /\ IsHigh(rows', h, n) \/ 2 * rows'[n] > trailing[h]
    BY <1>4, UpdateFacts DEF TypeOK
  <2>2. PICK exits \in SUBSET Setbacks(h) : \E exit \in {0} \union exits, entry \in 1..l :
          /\ IsLastExit(exits, exit, l + 1) /\ IsFirstHigh(h, exit, entry)
          /\ \E i \in entry..l : Midpoint(rows, h, i) = trailing[h]
          /\ \A i \in entry..l : Midpoint(rows, h, i) <= trailing[h]
          /\ IsHeld(h, entry, l) /\ AreExits(h, exits)
    BY <1>4 DEF StopsAreExplained
  <2>3. PICK exit \in {0} \union exits, entry \in 1..l :
          /\ IsLastExit(exits, exit, l + 1) /\ IsFirstHigh(h, exit, entry)
          /\ \E i \in entry..l : Midpoint(rows, h, i) = trailing[h]
          /\ \A i \in entry..l : Midpoint(rows, h, i) <= trailing[h]
          /\ IsHeld(h, entry, l) /\ AreExits(h, exits)
    BY <2>2
  <2>4. AreExits(h, exits)' /\ exits \in SUBSET Setbacks(h)'
    BY <1>2, <2>3, ExitsStay
  <2>5. exit \in Nat /\ IsLastExit(exits, exit, n + 1)
    <3>1. exits \in SUBSET (1..l)
      BY DEF Setbacks
    <3>2. exit \in Nat /\ IsLastExit(exits, exit, l + 2)
      BY <1>2, <2>3, <3>1, LastExitStays
    <3>3. n + 1 = l + 2
      BY <1>2
    <3>4. QED
      BY <3>2, <3>3
  <2>6. IsFirstHigh(h, exit, entry)' /\ HasChannel(h, entry)
    <3>1. HasChannel(h, entry) /\ entry \in Nat
      BY <2>3 DEF IsFirstHigh
    <3>2. QED
      BY <1>2, <2>3, <2>5, <3>1, FirstHighStays
  <2>7. ASSUME NEW i \in entry..l
        PROVE  Midpoint(rows', h, i) = Midpoint(rows, h, i) /\ Midpoint(rows, h, i) \in Nat
    <3>1. i \in 1..l /\ HasChannel(h, i)
      BY <1>2, <2>6 DEF HasChannel
    <3>2. QED
      BY <1>2, <3>1, DaysStay
  <2>8. /\ entry \in 1..n /\ n \in entry..n /\ entry..l \subseteq entry..n
        /\ \A i \in entry..n : i = n \/ i \in entry..l
    BY <1>2
  <2>9. \E i \in entry..n : Midpoint(rows', h, i) = trailing'[h]
    <3>1. CASE trailing'[h] = trailing[h]
      <4>1. PICK i \in entry..l : Midpoint(rows, h, i) = trailing[h]
        BY <2>3
      <4>2. QED
        BY <2>7, <2>8, <3>1, <4>1
    <3>2. CASE trailing'[h] = mid
      BY <2>8, <3>2
    <3>3. QED
      BY <2>1, <3>1, <3>2
  <2>10. ASSUME NEW i \in entry..n PROVE Midpoint(rows', h, i) <= trailing'[h]
    <3>1. CASE i = n
      BY <1>2, <3>1
    <3>2. CASE i \in entry..l
      <4>1. /\ Midpoint(rows', h, i) = Midpoint(rows, h, i)
            /\ Midpoint(rows, h, i) \in Nat /\ Midpoint(rows, h, i) <= trailing[h]
        BY <2>3, <2>7, <3>2
      <4>2. QED
        BY <1>2, <2>1, <4>1
    <3>3. QED
      BY <2>8, <3>1, <3>2
  <2>11. ~MeetsStop(h, entry, n)'
    <3>1. ASSUME NEW i \in entry..(n - 1), ~IsHigh(rows', h, n)
          PROVE  ~(2 * rows'[n] <= Midpoint(rows', h, i))
      <4>1. i \in entry..l
        BY <1>2
      <4>2. /\ Midpoint(rows', h, i) = Midpoint(rows, h, i)
            /\ Midpoint(rows, h, i) \in Nat /\ Midpoint(rows, h, i) <= trailing[h]
        BY <2>3, <2>7, <4>1
      <4>3. QED
        BY <1>2, <2>1, <3>1, <4>2
    <3>2. QED
      BY <3>1 DEF MeetsStop
  <2>12. IsHeld(h, entry, n)'
    <3>1. IsHeld(h, entry, l)'
      BY <1>2, <2>3, <2>6, IsHeldStays
    <3>2. \A day \in (entry + 1)..n : day = n \/ day \in (entry + 1)..l
      BY <1>2
    <3>3. QED
      BY <2>11, <3>1, <3>2 DEF IsHeld
  <2>13. QED
    BY <2>4, <2>5, <2>6, <2>8, <2>9, <2>10, <2>12
<1>5. QED
  BY <1>3, <1>4

\* A model out of the market after a day is explained by the day it left.
LEMMA ExitsStayExplained ==
  ASSUME TypeOK, ChannelsAreComplete, StopsAreExplained, ExitsAreExplained,
         NEW close \in Closes, rows' = Append(rows, close), Update(rows')
  PROVE  ExitsAreExplained'
<1>0. PICK l \in Nat, n \in Nat : l = Len(rows) /\ n = Len(rows')
  BY UpdateFacts
<1> USE <1>0
<1>1. SUFFICES ASSUME NEW h \in Horizons, h \notin active'
               PROVE  \E exits \in SUBSET Setbacks(h)' : \E exit \in {0} \union exits :
                        /\ IsLastExit(exits, exit, n + 1)
                        /\ \A day \in (exit + 1)..n :
                             HasChannel(h, day) => ~IsHigh(rows', h, day)
                        /\ AreExits(h, exits)'
  BY DEF ExitsAreExplained, IsLastExit, HasChannel
<1>2. /\ l \in Nat /\ n \in Nat /\ n = l + 1 /\ h \in Nat
  BY HorizonsAssumption DEF TypeOK
<1>3. HasChannel(h, n) => ~IsHigh(rows', h, n)
  BY <1>1 DEF Update, Exits, Enters
<1>4. CASE h \notin active
  <2>1. PICK exits \in SUBSET Setbacks(h) : \E exit \in {0} \union exits :
          /\ IsLastExit(exits, exit, l + 1) /\ AreExits(h, exits)
          /\ \A day \in (exit + 1)..l : HasChannel(h, day) => ~IsHigh(rows, h, day)
    BY <1>1, <1>4 DEF ExitsAreExplained
  <2>2. PICK exit \in {0} \union exits :
          /\ IsLastExit(exits, exit, l + 1) /\ AreExits(h, exits)
          /\ \A day \in (exit + 1)..l : HasChannel(h, day) => ~IsHigh(rows, h, day)
    BY <2>1
  <2>3. AreExits(h, exits)' /\ exits \in SUBSET Setbacks(h)'
    BY <1>1, <2>2, ExitsStay
  <2>4. exit \in Nat /\ IsLastExit(exits, exit, n + 1)
    <3>1. exits \in SUBSET (1..l)
      BY DEF Setbacks
    <3>2. exit \in Nat /\ IsLastExit(exits, exit, l + 2)
      BY <1>2, <2>2, <3>1, LastExitStays
    <3>3. n + 1 = l + 2
      BY <1>2
    <3>4. QED
      BY <3>2, <3>3
  <2>5. ASSUME NEW day \in (exit + 1)..n, HasChannel(h, day) PROVE ~IsHigh(rows', h, day)
    <3>1. CASE day = n
      BY <1>3, <2>5, <3>1
    <3>2. CASE day # n
      <4>1. day \in (exit + 1)..l /\ day \in 1..l
        BY <1>2, <2>4, <3>2
      <4>2. QED
        BY <1>1, <2>2, <2>5, <4>1, DaysStay
    <3>3. QED
      BY <3>1, <3>2
  <2>6. QED
    BY <2>2, <2>3, <2>4, <2>5
<1>5. CASE h \in active
  <2>1. PICK exits \in SUBSET Setbacks(h) : \E exit \in {0} \union exits, entry \in 1..l :
          /\ IsLastExit(exits, exit, l + 1) /\ IsFirstHigh(h, exit, entry)
          /\ \E i \in entry..l : Midpoint(rows, h, i) = trailing[h]
          /\ IsHeld(h, entry, l) /\ AreExits(h, exits)
    BY <1>5 DEF StopsAreExplained
  <2>2. PICK exit \in {0} \union exits, entry \in 1..l :
          /\ IsLastExit(exits, exit, l + 1) /\ IsFirstHigh(h, exit, entry)
          /\ \E i \in entry..l : Midpoint(rows, h, i) = trailing[h]
          /\ IsHeld(h, entry, l) /\ AreExits(h, exits)
    BY <2>1
  <2>3. AreExits(h, exits)' /\ exits \in SUBSET Setbacks(h)'
    BY <1>1, <2>2, ExitsStay
  <2>4. exits \in SUBSET (1..l) /\ exit \in Nat
    BY <2>2 DEF Setbacks
  <2>5. HasChannel(h, entry) /\ HasChannel(h, l) /\ HasChannel(h, n)
    BY <1>2, <1>5, <2>2 DEF ChannelsAreComplete, HasChannel, IsFirstHigh
  <2>6. ~IsHigh(rows', h, n)
    BY <1>3, <2>5
  <2>7. AtOrBelowStop(rows', h)
    BY <1>1, <1>5 DEF Update, Exits
  <2>8. MeetsStop(h, entry, n)'
    <3>1. PICK i \in entry..l : Midpoint(rows, h, i) = trailing[h]
      BY <2>2
    <3>2. i \in 1..l /\ HasChannel(h, i) /\ i \in entry..(n - 1)
      BY <1>2, <2>5 DEF HasChannel
    <3>3. 2 * rows'[n] <= Midpoint(rows', h, i)
      BY <1>1, <2>7, <3>1, <3>2, DaysStay DEF AtOrBelowStop
    <3>4. QED
      BY <2>6, <3>2, <3>3 DEF MeetsStop
  <2>9. IsFirstHigh(h, exit, entry)'
    BY <1>1, <1>2, <2>2, <2>4, FirstHighStays
  <2>10. IsHeld(h, entry, n - 1)'
    <3>1. IsHeld(h, entry, l)'
      BY <1>1, <1>2, <2>2, <2>5, IsHeldStays
    <3>2. n - 1 = l
      BY <1>2
    <3>3. QED
      BY <3>1, <3>2 DEF IsHeld
  <2> DEFINE new == exits \union {n}
  <2>11. new \in SUBSET Setbacks(h)'
    <3>1. n \in Setbacks(h)'
      BY <1>2, <2>5, <2>6 DEF Setbacks, HasChannel
    <3>2. QED
      BY <2>3, <3>1
  <2>12. ASSUME NEW x \in exits, NEW y \in {0} \union exits, IsLastExit(exits, y, x)
         PROVE  y \in {0} \union new /\ IsLastExit(new, y, x)
    BY <1>2, <2>4, <2>12 DEF IsLastExit
  <2>13. exit \in {0} \union new /\ IsLastExit(new, exit, n) /\ IsLastExit(new, n, n + 1)
    BY <1>2, <2>2, <2>4 DEF IsLastExit
  <2>14. entry \in 1..(n - 1) /\ n \in new /\ (n + 1)..n = {}
    BY <1>2
  <2>15. ASSUME NEW x \in new
         PROVE  \E y \in {0} \union new, e \in 1..(x - 1) :
                  /\ IsLastExit(new, y, x) /\ IsFirstHigh(h, y, e)'
                  /\ IsHeld(h, e, x - 1)' /\ MeetsStop(h, e, x)'
    <3>1. CASE x = n
      BY <2>8, <2>9, <2>10, <2>13, <2>14, <3>1
    <3>2. CASE x \in exits
      <4>1. PICK y \in {0} \union exits, e \in 1..(x - 1) :
              /\ IsLastExit(exits, y, x) /\ IsFirstHigh(h, y, e)'
              /\ IsHeld(h, e, x - 1)' /\ MeetsStop(h, e, x)'
        BY <2>3, <3>2 DEF AreExits, IsLastExit
      <4>2. QED
        BY <2>12, <3>2, <4>1
    <3>3. QED
      BY <3>1, <3>2
  <2>16. AreExits(h, new)'
    BY <2>15 DEF AreExits, IsLastExit
  <2> HIDE DEF new
  <2>17. QED
    BY <2>11, <2>13, <2>14, <2>16
<1>6. QED
  BY <1>4, <1>5

--------------------------------------------------------------------------
(* The weight.                                                             *)

\* The deadband holds no weight for models that are all out of the market,
\* and holds zero only for such.
LEMMA DeadbandSeparatesZero ==
  ASSUME NEW desired \in Nat, NEW executed \in Nat, ~OutsideDeadband(desired, executed)
  PROVE  desired = 0 <=> executed = 0
<1>1. /\ Scale * Distance(desired, executed) <= Band * executed
      /\ Scale \in Nat /\ Band \in Nat /\ 0 < Band /\ Band < Scale
      /\ Distance(desired, executed) \in Nat
  <2>1. Distance(desired, executed) \in Nat
    BY DEF Distance
  <2>2. Scale * Distance(desired, executed) \in Nat /\ Band * executed \in Nat
    BY <2>1, BandAssumption, Z3
  <2>3. QED
    BY <2>1, <2>2, BandAssumption DEF OutsideDeadband
<1>2. CASE executed = 0
  <2>1. Distance(desired, executed) = desired /\ Band * executed = 0
    BY <1>1, <1>2 DEF Distance
  <2>2. Scale * desired <= 0
    BY <1>1, <2>1
  <2>3. desired = 0
    BY <1>1, <2>2, Z3
  <2>4. QED
    BY <1>2, <2>3
<1>3. CASE executed > 0
  <2>1. SUFFICES ASSUME desired = 0 PROVE FALSE
    BY <1>3
  <2>2. Distance(desired, executed) = executed
    BY <1>3, <2>1 DEF Distance
  <2>3. Scale * executed <= Band * executed
    BY <1>1, <2>2
  <2>4. QED
    BY <1>1, <1>3, <2>3, Z3
<1>4. QED
  BY <1>2, <1>3

\* An allocation is well formed, and flat exactly when no model is active.
LEMMA DecideFacts ==
  ASSUME TypeOK, FlatMeansInactive, active' \subseteq Horizons,
         NEW day \in Nat, NEW model \in Models, Decide(day, model)
  PROVE  allocation' \in TargetAllocation /\ FlatMeansInactive'
<1> DEFINE desired == model * Cardinality(active')
           executed == allocation.target_weight
<1>1. /\ model \in Nat /\ model > 0 /\ Cardinality(active') \in Nat
      /\ Cardinality(active') = 0 <=> active' = {}
  <2>1. IsFiniteSet(active')
    BY HorizonsAssumption, FS_Subset
  <2>2. QED
    BY <2>1, ModelsAssumption, FS_CardinalityType, FS_EmptySet
<1>2. desired \in Nat /\ (desired = 0 <=> active' = {})
  BY <1>1, Z3
<1> HIDE DEF desired
<1>3. executed \in Nat
  BY DEF TypeOK, TargetAllocation, NoAllocation
<1>4. ASSUME NEW weight \in Nat, NEW reason \in Reason, Allocate(day, weight, reason),
             weight = 0 <=> active' = {}
      PROVE  allocation' \in TargetAllocation /\ FlatMeansInactive'
  BY <1>4 DEF Allocate, TargetAllocation, FlatMeansInactive
<1>5. \/ Allocate(day, desired, "signal") \/ Allocate(day, desired, "volatility")
      \/ ~OutsideDeadband(desired, executed) /\ Allocate(day, executed, "deadband_hold")
  BY DEF Decide, desired
<1>6. CASE Allocate(day, desired, "signal") \/ Allocate(day, desired, "volatility")
  BY <1>2, <1>4, <1>6 DEF Reason
<1>7. CASE ~OutsideDeadband(desired, executed) /\ Allocate(day, executed, "deadband_hold")
  <2>1. executed = 0 <=> active' = {}
    BY <1>2, <1>3, <1>7, DeadbandSeparatesZero
  <2>2. QED
    BY <1>3, <1>4, <1>7, <2>1 DEF Reason
<1>8. QED
  BY <1>5, <1>6, <1>7

--------------------------------------------------------------------------
\* Where there are no days there is nothing to explain.
LEMMA NothingToExplain ==
  rows = <<>> /\ active = {} => StopsAreExplained /\ ExitsAreExplained
<1>1. SUFFICES ASSUME rows = <<>>, active = {}, NEW h \in Horizons
               PROVE  \E exits \in SUBSET Setbacks(h) : \E exit \in {0} \union exits :
                        /\ IsLastExit(exits, exit, Len(rows) + 1)
                        /\ \A day \in (exit + 1)..Len(rows) :
                             HasChannel(h, day) => ~IsHigh(rows, h, day)
                        /\ AreExits(h, exits)
  BY DEF StopsAreExplained, ExitsAreExplained
<1>2. Len(rows) = 0 /\ (0 + 1)..0 = {}
  BY <1>1
<1>3. IsLastExit({}, 0, Len(rows) + 1)
  BY <1>2 DEF IsLastExit
<1>4. AreExits(h, {})
  BY DEF AreExits
<1>5. {} \in SUBSET Setbacks(h) /\ 0 \in {0} \union {}
  OBVIOUS
<1>6. QED
  BY <1>2, <1>3, <1>4, <1>5

LEMMA InitEnsemble == Init => EnsembleInv
<1> SUFFICES ASSUME Init PROVE EnsembleInv
  OBVIOUS
<1>1. rows \in Seq(Closes) /\ trailing \in [active -> Nat]
  BY DEF Init
<1>2. StopsAreExplained /\ ExitsAreExplained
  BY NothingToExplain DEF Init
<1>3. QED
  BY <1>1, <1>2 DEF Init, EnsembleInv, TypeOK, ChannelsAreComplete, FlatMeansInactive

LEMMA GapEnsemble == Gap => EnsembleInv'
<1>1. (rows = <<>> /\ active = {})' => StopsAreExplained' /\ ExitsAreExplained'
  BY NothingToExplain, PTL
<1>2. SUFFICES ASSUME Gap PROVE EnsembleInv'
  OBVIOUS
<1>3. rows' \in Seq(Closes) /\ trailing' \in [active' -> Nat]
  BY <1>2 DEF Gap
<1>4. StopsAreExplained' /\ ExitsAreExplained'
  BY <1>1, <1>2 DEF Gap
<1>5. QED
  BY <1>2, <1>3, <1>4 DEF Gap, EnsembleInv, TypeOK, ChannelsAreComplete, FlatMeansInactive

\* Every step preserves the invariant.
LEMMA NextEnsemble == EnsembleInv /\ [Next]_vars => EnsembleInv'
<1> SUFFICES ASSUME EnsembleInv, [Next]_vars PROVE EnsembleInv'
  OBVIOUS
<1> USE DEF EnsembleInv
<1>1. ASSUME NEW close \in Closes, Day(close) \/ QuietDay(close) PROVE EnsembleInv'
  <2>1. rows' = Append(rows, close) /\ Update(rows')
    BY <1>1 DEF Day, QuietDay
  <2>2. /\ rows' \in Seq(Closes) /\ active' \subseteq Horizons
        /\ trailing' \in [active' -> Nat] /\ ChannelsAreComplete'
    BY <2>1, UpdateFacts
  <2>3. StopsAreExplained' /\ ExitsAreExplained'
    BY <2>1, StopsStayExplained, ExitsStayExplained
  <2>4. allocation' \in TargetAllocation \union {NoAllocation} /\ FlatMeansInactive'
    <3>1. CASE Day(close)
      <4>1. PICK model \in Models : Decide(Len(rows'), model)
        BY <3>1 DEF Day
      <4>2. Len(rows') \in Nat
        BY <2>2
      <4>3. QED
        BY <2>2, <4>1, <4>2, DecideFacts
    <3>2. CASE QuietDay(close)
      BY <3>2 DEF QuietDay, TypeOK, FlatMeansInactive
    <3>3. QED
      BY <1>1, <3>1, <3>2
  <2>5. QED
    BY <2>2, <2>3, <2>4 DEF TypeOK
<1>2. CASE Gap
  BY <1>2, GapEnsemble
<1>3. CASE UNCHANGED vars
  <2>1. /\ rows' = rows /\ active' = active /\ trailing' = trailing
        /\ allocation' = allocation
    BY <1>3 DEF vars
  <2>2. \A h, d, e : /\ MeetsStop(h, e, d)' <=> MeetsStop(h, e, d)
                     /\ IsFirstHigh(h, d, e)' <=> IsFirstHigh(h, d, e)
    BY <2>1 DEF MeetsStop, IsFirstHigh
  <2>3. \A h, d, e : IsHeld(h, e, d)' <=> IsHeld(h, e, d)
    BY <2>2 DEF IsHeld
  <2>4. \A h, exits : AreExits(h, exits)' <=> AreExits(h, exits)
    BY <2>2, <2>3 DEF AreExits
  <2>5. \A h : Setbacks(h)' = Setbacks(h)
    BY <2>1 DEF Setbacks
  <2>6. \A exits, d : IsLastExit(exits, d, Len(rows) + 1)'
                        <=> IsLastExit(exits, d, Len(rows) + 1)
    BY <2>1
  <2>7. StopsAreExplained'
    BY <2>1, <2>2, <2>3, <2>4, <2>5, <2>6 DEF StopsAreExplained
  <2>8. ExitsAreExplained'
    BY <2>1, <2>4, <2>5, <2>6 DEF ExitsAreExplained
  <2>9. QED
    BY <2>1, <2>7, <2>8 DEF TypeOK, ChannelsAreComplete, FlatMeansInactive
<1>4. QED
  BY <1>1, <1>2, <1>3 DEF Next

LEMMA EnsembleInvariant == Spec => []EnsembleInv
BY InitEnsemble, NextEnsemble, PTL DEF Spec

\* Every variable keeps its type, and the stops cover the active models: the
\* two ValueErrors of TargetAllocation about them are never raised.
THEOREM TypeCorrect == Spec => []TypeOK
BY EnsembleInvariant, PTL DEF EnsembleInv

\* A model is in the market only since the first high after its last exit, and
\* only while no close has met the stop that its channel set since that entry.
THEOREM ModelsAreExplained == Spec => []StopsAreExplained
BY EnsembleInvariant, PTL DEF EnsembleInv

\* A model is out of the market only if each of its positions ended on the
\* first close that met the stop of that position, with no high since.
THEOREM ExitsFollowStops == Spec => []ExitsAreExplained
BY EnsembleInvariant, PTL DEF EnsembleInv

\* No capital is at work without an active model, and none is idle with one.
THEOREM WeightFollowsModels == Spec => []FlatMeansInactive
BY EnsembleInvariant, PTL DEF EnsembleInv

LEMMA StopsRiseStep ==
  EnsembleInv /\ [Next]_vars =>
    [rows' # <<>> => \A h \in active \intersect active' : trailing[h] <= trailing'[h]]_vars
<1> SUFFICES ASSUME EnsembleInv, Next, rows' # <<>>,
                    NEW h \in active \intersect active'
             PROVE  trailing[h] <= trailing'[h]
  BY DEF vars
<1>1. ~Gap
  BY DEF Gap
<1>2. PICK close \in Closes : rows' = Append(rows, close) /\ Update(rows')
  BY <1>1 DEF Next, Day, QuietDay
<1>3. QED
  BY <1>2, UpdateFacts DEF EnsembleInv

\* The stop of a model never falls while the model stays in the market.
THEOREM StopsAreMonotonic == Spec => StopsOnlyRise
BY EnsembleInvariant, StopsRiseStep, PTL DEF Spec, StopsOnlyRise

--------------------------------------------------------------------------
\* The latest allocation is of a day of the segment, and one of the last day
\* is for the models of that day.
AllocationIsCurrent ==
  allocation # NoAllocation =>
    /\ allocation.day <= Len(rows)
    /\ allocation.day = Len(rows) => allocation.active_horizons = active

\* A day with an allocation, and what it is for.
LEMMA AllocationOfDay ==
  ASSUME NEW close \in Closes, Day(close)
  PROVE  /\ allocation'.day = Len(rows') /\ allocation'.active_horizons = active'
         /\ active' # active => allocation'.reason = "signal"
  BY DEF Day, Decide, Allocate

LEMMA CurrentStep ==
  ASSUME EnsembleInv, AllocationIsCurrent, [Next]_vars
  PROVE  /\ AllocationIsCurrent'
         /\ /\ allocation # NoAllocation /\ allocation'.day = allocation.day + 1
            /\ allocation'.active_horizons # allocation.active_horizons
            => allocation'.reason = "signal"
<1>1. Len(rows) \in Nat /\ allocation.day \in Nat
  BY DEF EnsembleInv, TypeOK, TargetAllocation, NoAllocation
<1>2. ASSUME NEW close \in Closes, Day(close) \/ QuietDay(close) PROVE Len(rows') = Len(rows) + 1
  BY <1>2, UpdateFacts DEF Day, QuietDay, EnsembleInv
<1>3. ASSUME NEW close \in Closes, Day(close)
      PROVE  /\ AllocationIsCurrent'
             /\ /\ allocation # NoAllocation /\ allocation'.day = allocation.day + 1
                /\ allocation'.active_horizons # allocation.active_horizons
                => allocation'.reason = "signal"
  BY <1>1, <1>2, <1>3, AllocationOfDay DEF AllocationIsCurrent
<1>4. CASE allocation' = allocation /\ Len(rows') = Len(rows) + 1
  BY <1>1, <1>4 DEF AllocationIsCurrent
<1>5. CASE Gap
  BY <1>1, <1>5 DEF Gap, AllocationIsCurrent, NoAllocation
<1>6. CASE UNCHANGED vars
  BY <1>1, <1>6 DEF vars, AllocationIsCurrent
<1>7. QED
  BY <1>2, <1>3, <1>4, <1>5, <1>6 DEF Next, QuietDay

\* An entry or exit of the day moves the weight on that day, whatever the
\* volatility does, unless the day before had no allocation.
THEOREM SignalsAreFollowed == Spec => SignalsMoveWeight
<1>1. Init => AllocationIsCurrent
  BY DEF Init, AllocationIsCurrent
<1>2. EnsembleInv /\ AllocationIsCurrent /\ [Next]_vars => AllocationIsCurrent'
  BY CurrentStep
<1>3. EnsembleInv /\ AllocationIsCurrent /\ [Next]_vars =>
        [/\ allocation # NoAllocation /\ allocation'.day = allocation.day + 1
         /\ allocation'.active_horizons # allocation.active_horizons
         => allocation'.reason = "signal"]_vars
  BY CurrentStep
<1>4. QED
  BY InitEnsemble, NextEnsemble, <1>1, <1>2, <1>3, PTL DEF Spec, SignalsMoveWeight
===========================================================================
