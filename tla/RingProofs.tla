----------------------------- MODULE RingProofs -----------------------------
(* Facts about the slots of a ring, for every size.                        *)
EXTENDS Ring, TLAPS

\* Distances between slots are slots numbers, and tell slots apart.
LEMMA DistBasics ==
  ASSUME NEW a \in Slots, NEW b \in Slots, NEW c \in Slots
  PROVE  /\ Dist(a, b) \in Slots
         /\ Dist(a, b) \in Nat /\ Dist(a, b) <= Size - 1
         /\ Dist(a, a) = 0
         /\ Dist(a, b) = Dist(a, c) <=> b = c
         /\ Dist(a, b) <= Dist(a, c) => Dist(b, c) = Dist(a, c) - Dist(a, b)
         /\ Dist(a, b) > Dist(a, c) => Dist(b, c) = Dist(a, c) - Dist(a, b) + Size
BY SizeAssumption DEF Slots, Dist

\* The range of a distance, on its own for the arithmetic.
LEMMA DistRange ==
  ASSUME NEW a \in Slots, NEW b \in Slots
  PROVE  Dist(a, b) \in Nat /\ Dist(a, b) <= Size - 1
BY DistBasics

\* What a test against the origin says: one more step fits.
LEMMA NextFits ==
  ASSUME NEW a \in Slots, NEW b \in Slots, Next1(b) # a
  PROVE  Dist(a, b) < Size - 1 /\ Dist(a, b) < Dist(a, Next1(b))
BY SizeAssumption DEF Slots, Dist, Next1

\* _next advances by one, and meets the origin exactly after Size - 1 steps.
LEMMA NextBasics ==
  ASSUME NEW a \in Slots, NEW b \in Slots
  PROVE  /\ Next1(b) \in Slots
         /\ Dist(a, b) < Size - 1 => Dist(a, Next1(b)) = Dist(a, b) + 1
         /\ Next1(b) = a <=> Dist(a, b) = Size - 1
BY SizeAssumption DEF Slots, Dist, Next1

\* One step brings every other slot one closer.
LEMMA StepTowards ==
  ASSUME NEW a \in Slots, NEW b \in Slots, Dist(a, b) > 0
  PROVE  Dist(Next1(a), b) = Dist(a, b) - 1
BY SizeAssumption DEF Slots, Dist, Next1

\* The slot just left is the farthest one.
LEMMA StepAway ==
  ASSUME NEW a \in Slots
  PROVE  Dist(Next1(a), a) = Size - 1
BY SizeAssumption DEF Slots, Dist, Next1

\* A remainder by Size, close to it.
LEMMA ModBelow ==
  ASSUME NEW a \in Slots
  PROVE  a % Size = a
BY SizeAssumption, SMT DEF Slots

LEMMA ModAt == Size % Size = 0
BY SizeAssumption, SMT

LEMMA ModNegative ==
  ASSUME NEW a \in 1 .. Size - 1
  PROVE  (-a) % Size = Size - a
BY SizeAssumption, SMT

\* Both ways of starting over at Size are one.
LEMMA NextByModulo ==
  ASSUME NEW i \in Slots
  PROVE  (i + 1) % Size = Next1(i)
<1>1. CASE i + 1 = Size
  BY <1>1, ModAt DEF Next1
<1>2. CASE i + 1 # Size
  <2>1. i + 1 \in Slots
    BY <1>2, SizeAssumption DEF Slots
  <2> QED BY <1>2, <2>1, ModBelow DEF Next1
<1> QED BY <1>1, <1>2

\* So are both ways of correcting a difference.
LEMMA DistByModulo ==
  ASSUME NEW a \in Slots, NEW b \in Slots
  PROVE  (b - a) % Size = Dist(a, b)
<1>1. CASE b >= a
  <2>1. b - a \in Slots
    BY <1>1, SizeAssumption DEF Slots
  <2> QED BY <1>1, <2>1, ModBelow DEF Dist
<1>2. CASE b < a
  <2>1. a - b \in 1 .. Size - 1 /\ -(a - b) = b - a
    BY <1>2, SizeAssumption DEF Slots
  <2>2. (-(a - b)) % Size = Size - (a - b)
    BY <2>1, ModNegative
  <2>3. (b - a) % Size = Size - (a - b)
    BY <2>1, <2>2
  <2> QED BY <1>2, <2>1, <2>3, SizeAssumption DEF Dist, Slots
<1> QED BY <1>1, <1>2 DEF Slots

LEMMA ModAbove ==
  ASSUME NEW a \in Size .. 2 * Size - 1
  PROVE  a % Size = a - Size
BY SizeAssumption, SMT

\* The slot k steps on.
LEMMA StepsOn ==
  ASSUME NEW a \in Slots, NEW k \in Nat, k < Size
  PROVE  /\ (a + k) % Size = IF a + k < Size THEN a + k ELSE a + k - Size
         /\ (a + k) % Size \in Slots
         /\ Dist(a, (a + k) % Size) = k
<1>1. (a + k) % Size = IF a + k < Size THEN a + k ELSE a + k - Size
  <2>1. CASE a + k < Size
    <3>1. a + k \in Slots
      BY <2>1, SizeAssumption DEF Slots
    <3> QED BY <2>1, <3>1, ModBelow
  <2>2. CASE ~(a + k < Size)
    <3>1. a + k \in Size .. 2 * Size - 1
      BY <2>2, SizeAssumption DEF Slots
    <3>2. PICK s \in Size .. 2 * Size - 1 : s = a + k
      BY <3>1
    <3>3. s % Size = s - Size
      BY ModAbove
    <3>4. (a + k) % Size = s % Size
      BY <3>2, Zenon
    <3>5. s - Size = a + k - Size
      BY <3>2, SizeAssumption, SMT DEF Slots
    <3>6. (a + k) % Size = a + k - Size
      BY <3>3, <3>4, <3>5, Zenon
    <3> QED BY <2>2, <3>6, Zenon
  <2> QED BY <2>1, <2>2, Zenon
<1>2. (IF a + k < Size THEN a + k ELSE a + k - Size) \in Slots
  BY SizeAssumption DEF Slots
<1>3. Dist(a, IF a + k < Size THEN a + k ELSE a + k - Size) = k
  BY SizeAssumption DEF Slots, Dist
<1> QED BY <1>1, <1>2, <1>3

\* k steps on from the next slot are k + 1 from this one.
LEMMA StepsFromNext ==
  ASSUME NEW a \in Slots, NEW k \in Nat, k + 1 < Size
  PROVE  (Next1(a) + k) % Size = (a + (k + 1)) % Size
<1>1. Next1(a) \in Slots /\ k + 1 \in Nat /\ k < Size
  BY NextBasics, SizeAssumption
<1>2. (Next1(a) + k) % Size
        = IF Next1(a) + k < Size THEN Next1(a) + k ELSE Next1(a) + k - Size
  BY <1>1, StepsOn
<1>3. (a + (k + 1)) % Size
        = IF a + (k + 1) < Size THEN a + (k + 1) ELSE a + (k + 1) - Size
  BY <1>1, StepsOn
<1> QED BY <1>2, <1>3, SizeAssumption DEF Next1, Slots
=============================================================================
