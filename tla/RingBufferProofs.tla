--------------------------- MODULE RingBufferProofs ---------------------------
(***************************************************************************)
(* Theorems about RingBuffer, for every size, header, alignment and width  *)
(* of size_t, and all five variants with the operations that may be mixed  *)
(* in them, as long as no record is asked for that rounds up to more than  *)
(* the buffer (RecordsFit): produce would let it through.                  *)
(***************************************************************************)
EXTENDS RingBuffer, TLAPS

-----------------------------------------------------------------------------
(* The invariant.                                                          *)

\* consume_all needs positions that run on, and reads no cache, so consume
\* may not rely on one beside it.
Mixes == \A v \in Variants :
           "consume_all" \in v.ops => v.masked /\ ~(v.cached /\ "consume" \in v.ops)

\* Every byte the ends ever passed has a number.  A position is its remainder;
\* what the threads and their caches know of the ends can be put in order.
Modulus == IF Masked THEN Word ELSE Size
Pos(x) == x % Modulus

\* p and c are the ends, the consumer's as far as the call in progress got; cp
\* is what it stored of c, ps and cs what the other thread can see, and cc
\* what the producer remembers.
Ghosts == [p : Nat, ps : Nat, c : Nat, cp : Nat, cs : Nat, cc : Nat]

Places(g) ==
  /\ producePos = Pos(g.p) /\ produceSeen = Pos(g.ps)
  /\ consumePos = Pos(g.cp) /\ consumeSeen = Pos(g.cs) /\ consumePosCache = Pos(g.cc)

\* The ends never meet from behind, however much of the buffer is in use.
Limit == IF Masked THEN Size ELSE Size - 1
Order(g) == /\ g.cc <= g.cs /\ g.cs <= g.cp /\ g.cp <= g.c /\ g.c <= g.ps /\ g.ps <= g.p
            /\ g.p <= g.cc + Limit

\* Where the record begins that is at x or, behind a marker, at the start.
Marked(x) == Index(x) # 0 /\ buffer[Index(x)] = -WrapDistance(x)
Start(x) == IF buffer[Index(x)] >= 0 THEN x ELSE x + WrapDistance(x)

\* Record r takes the bytes from x to y, a marker included.
Link(x, y, r) ==
  /\ buffer[Index(x)] \in Lengths \/ Marked(x)
  /\ r.length \in Lengths /\ buffer[Index(Start(x))] = r.length
  /\ WrapDistance(Start(x)) >= Rounded(r.length)
  /\ y = Start(x) + Rounded(r.length)
  /\ r = RecordAt(Start(x), r.length)

\* The records lie one behind the other from c to p, and the producer's
\* position, as it is seen, is between two of them.
Chain(g, at) ==
  /\ at \in [0 .. Len(records) -> Nat]
  /\ at[0] = g.c /\ at[Len(records)] = g.p
  /\ \A k \in 1 .. Len(records) : Link(at[k - 1], at[k], records[k])
  /\ \A j, k \in 0 .. Len(records) : j <= k => at[j] + (k - j) * Align <= at[k]
  /\ \E k \in 0 .. Len(records) : at[k] = g.ps

\* Where the record will begin that the producer is writing at x.
Reserved(x, a) == a = x \/ (Marked(x) /\ a = x + WrapDistance(x))

ProducerFrame(g) ==
  /\ pPc \in {"idle", "reload", "wrap", "reloadWrap", "fill", "publish"}
  /\ pPc # "idle" => pLen \in Lengths
  /\ pPc \in {"reload", "wrap", "reloadWrap"} => pPos = producePos
  /\ pPc = "wrap" => g.p + Rounded(pLen) <= g.cc + Limit
  /\ pPc = "reloadWrap" => Cached /\ WrapDistance(pPos) < Rounded(pLen)
  /\ pPc \in {"fill", "publish"} =>
       \E a \in Nat : /\ Reserved(g.p, a) /\ pPos = Pos(a)
                      /\ buffer[Index(a)] = pLen /\ WrapDistance(a) >= Rounded(pLen)
                      /\ a + Rounded(pLen) <= g.cc + Limit
  /\ pPc = "publish" => \E e \in Elem : RecordAt(pPos, pLen).data = {e}

ConsumerFrame(g, at) ==
  /\ cPc \in {"idle", "reload", "take", "drain", "release"}
  /\ cPc \in {"idle", "reload", "take"} => g.c = g.cp
  /\ cPc # "idle" => cPos = Pos(g.c)
  /\ cPc = "take" => g.c < g.ps
  /\ Cached /\ "consume" \in ConsumerOps =>
       \E k \in 0 .. Len(records) : /\ producePosCache = Pos(at[k]) /\ at[k] <= g.ps
                                    /\ cPc = "take" => k # 0
  /\ cPc = "drain" => /\ "consume_all" \in ConsumerOps
                      /\ \E k \in 0 .. Len(records) : cGoal = Pos(at[k]) /\ at[k] <= g.ps

\* What the queue of records is made of.
Whole == [length : Lengths, data : {{e} : e \in Elem}]

Described(g, at) == /\ g \in Ghosts /\ Places(g) /\ Order(g) /\ Chain(g, at)
                    /\ ProducerFrame(g) /\ ConsumerFrame(g, at)

Consistent(g, at) == /\ TypeOK /\ DOMAIN buffer = Bytes
                     /\ variant \in Variants /\ records \in Seq(Whole)
                     /\ Described(g, at)

Invariant == \E g, at : Consistent(g, at)

-----------------------------------------------------------------------------
(* Remainders.                                                             *)

LEMMA DivMod ==
  ASSUME NEW m \in Nat \ {0}, NEW x \in Nat
  PROVE  x % m \in 0 .. m - 1 /\ x \div m \in Nat /\ x = (x \div m) * m + (x % m)
<1>1. x % m \in 0 .. m - 1
  OBVIOUS
<1>2. x \div m \in Int /\ x = (x \div m) * m + (x % m)
  OBVIOUS
<1>3. x \div m >= 0
  OBVIOUS
<1> QED BY <1>1, <1>2, <1>3

LEMMA ModUnique ==
  ASSUME NEW m \in Nat \ {0}, NEW q \in Nat, NEW r \in 0 .. m - 1
  PROVE  (q * m + r) % m = r
OBVIOUS

LEMMA ModAdd ==
  ASSUME NEW m \in Nat \ {0}, NEW a \in Nat, NEW n \in 0 .. m
  PROVE  (a + n) % m = IF (a % m) + n < m THEN (a % m) + n ELSE (a % m) + n - m
<1>1. PICK q \in Nat, r \in 0 .. m - 1 : a = q * m + r /\ r = a % m
  BY DivMod
<1>2. CASE r + n < m
  <2>1. r + n \in 0 .. m - 1 /\ a + n = q * m + (r + n)
    BY <1>1, <1>2
  <2>2. (q * m + (r + n)) % m = r + n
    BY <2>1, ModUnique
  <2> QED BY <1>1, <1>2, <2>1, <2>2
<1>3. CASE r + n >= m
  <2>1. r + n - m \in 0 .. m - 1 /\ q + 1 \in Nat /\ a + n = (q + 1) * m + (r + n - m)
    BY <1>1, <1>3
  <2>2. ((q + 1) * m + (r + n - m)) % m = r + n - m
    BY <2>1, ModUnique
  <2> QED BY <1>1, <1>3, <2>1, <2>2
<1> QED BY <1>1, <1>2, <1>3

\* Two numbers less than m apart have different remainders.
LEMMA Apart ==
  ASSUME NEW m \in Nat \ {0}, NEW a \in Nat, NEW b \in Nat, a < b, b < a + m
  PROVE  a % m # b % m
<1>1. b - a \in 0 .. m /\ a + (b - a) = b
  OBVIOUS
<1>2. b % m = IF (a % m) + (b - a) < m THEN (a % m) + (b - a) ELSE (a % m) + (b - a) - m
  BY <1>1, ModAdd
<1>3. a % m \in 0 .. m - 1
  BY DivMod
<1> QED BY <1>1, <1>2, <1>3

LEMMA ModSmall ==
  ASSUME NEW m \in Nat \ {0}, NEW a \in 0 .. m - 1
  PROVE  a % m = a
<1>1. 0 * m + a = a
  OBVIOUS
<1> QED BY <1>1, ModUnique

LEMMA Divides ==
  ASSUME NEW m \in Nat \ {0}, NEW a \in Nat, a % m = 0
  PROVE  \E q \in Nat : a = q * m
<1> SUFFICES ASSUME NEW q \in Nat, a = q * m + 0
             PROVE  a = q * m
  BY DivMod
<1> QED OBVIOUS

LEMMA ModMod ==
  ASSUME NEW m \in Nat \ {0}, NEW n \in Nat \ {0}, n % m = 0, NEW x \in Nat
  PROVE  (x % n) % m = x % m
<1>1. PICK q \in Nat, r \in 0 .. n - 1 : x = q * n + r /\ r = x % n
  BY DivMod
<1>2. PICK k \in Nat : n = k * m
  BY Divides
<1>3. PICK h \in Nat, s \in 0 .. m - 1 : r = h * m + s /\ s = r % m
  <2>1. r \in Nat
    OBVIOUS
  <2> QED BY <2>1, DivMod
<1>4. q * k + h \in Nat
  OBVIOUS
<1>5. x = (q * k + h) * m + s
  <2>1. q * n = q * (k * m)
    BY <1>2
  <2>2. q * (k * m) = (q * k) * m
    OBVIOUS
  <2>3. (q * k + h) * m = (q * k) * m + h * m
    OBVIOUS
  <2>4. q * n + r = (q * k) * m + (h * m + s)
    BY <1>3, <2>1, <2>2
  <2>5. (q * k) * m \in Int /\ h * m \in Int /\ s \in Int
    OBVIOUS
  <2>6. (q * k) * m + (h * m + s) = ((q * k) * m + h * m) + s
    BY <2>5
  <2> QED BY <1>1, <2>3, <2>4, <2>6
<1>6. ((q * k + h) * m + s) % m = s
  BY <1>4, ModUnique
<1> QED BY <1>1, <1>3, <1>5, <1>6

LEMMA Multiples ==
  ASSUME NEW m \in Nat \ {0}, NEW a \in Nat, NEW b \in Nat, a % m = 0, b % m = 0
  PROVE  (a + b) % m = 0 /\ (a >= b => (a - b) % m = 0)
<1>1. PICK q \in Nat : a = q * m
  BY Divides
<1>2. PICK k \in Nat : b = k * m
  BY Divides
<1>3. \A h \in Nat : (h * m) % m = 0
  <2> SUFFICES ASSUME NEW h \in Nat
               PROVE  (h * m) % m = 0
    OBVIOUS
  <2>1. h * m + 0 = h * m /\ 0 \in 0 .. m - 1
    OBVIOUS
  <2> QED BY <2>1, ModUnique
<1>4. a + b = (q + k) * m /\ q + k \in Nat
  BY <1>1, <1>2
<1>5. ASSUME a >= b PROVE (a - b) % m = 0
  <2>1. a - b = (q - k) * m
    BY <1>1, <1>2
  <2>2. q >= k
    <3>1. CASE q < k
      <4>1. q + 1 <= k /\ (k - q - 1) * m >= 0
        BY <3>1
      <4>2. k * m = q * m + m + (k - q - 1) * m
        OBVIOUS
      <4> QED BY <1>1, <1>2, <1>5, <4>1, <4>2
    <3> QED BY <3>1
  <2> QED BY <1>3, <2>1, <2>2
<1> QED BY <1>3, <1>4, <1>5

-----------------------------------------------------------------------------
(* Positions.                                                              *)

LEMMA Sizes ==
  ASSUME variant \in Variants
  PROVE  /\ Size \in Nat \ {0} /\ Word \in Nat \ {0} /\ Modulus \in Nat \ {0}
         /\ Modulus % Size = 0 /\ Limit \in Nat /\ Limit <= Size /\ Limit < Modulus
         /\ Align \in Nat \ {0} /\ Header \in 1 .. Align /\ Modulus % Align = 0
         /\ Masked \in BOOLEAN /\ Size <= Modulus
<1>1. Size % Size = 0
  <2>1. 1 * Size + 0 = Size /\ 0 \in 0 .. Size - 1
    BY SizeAssumption
  <2> QED BY <2>1, SizeAssumption, ModUnique
<1>2. Word % Align = 0
  <2>1. (Word % Size) % Align = 0
    <3>1. 0 % Align = 0
      BY SizeAssumption, ModSmall
    <3> QED BY <3>1, WordAssumption
  <2>2. PICK q \in Nat : Word = q * Size
    BY SizeAssumption, WordAssumption, Divides
  <2>3. PICK k \in Nat : Size = k * Align
    BY SizeAssumption, Divides
  <2>4. Word = (q * k) * Align + 0 /\ q * k \in Nat /\ 0 \in 0 .. Align - 1
    BY <2>2, <2>3, SizeAssumption
  <2> QED BY <2>4, SizeAssumption, ModUnique
<1>3. variant.masked \in BOOLEAN
  BY VariantsAssumption
<1> QED BY <1>1, <1>2, <1>3, SizeAssumption, HeaderAssumption, WordAssumption
        DEF Modulus, Limit, Masked

LEMMA IndexPos ==
  ASSUME variant \in Variants, NEW x \in Nat
  PROVE  /\ Pos(x) \in 0 .. Modulus - 1 /\ Index(Pos(x)) = Index(x) /\ Index(x) \in Bytes
         /\ WrapDistance(Pos(x)) = WrapDistance(x) /\ WrapDistance(x) \in 1 .. Size
         /\ WrapDistance(x) = Size - Index(x)
<1>1. Pos(x) \in 0 .. Modulus - 1
  BY Sizes, DivMod DEF Pos
<1>2. (x % Modulus) % Size = x % Size
  BY Sizes, ModMod
<1>3. x % Size \in 0 .. Size - 1
  BY Sizes, DivMod
<1> QED BY <1>1, <1>2, <1>3, Sizes DEF Pos, Index, Bytes, WrapDistance

LEMMA UsedPos ==
  ASSUME variant \in Variants, NEW a \in Nat, NEW b \in Nat, b <= a, a <= b + Limit
  PROVE  Used(Pos(a), Pos(b)) = a - b
<1>1. a - b \in 0 .. Modulus /\ b + (a - b) = a /\ a - b <= Limit
  BY Sizes
<1>2. Pos(a) = IF Pos(b) + (a - b) < Modulus THEN Pos(b) + (a - b)
                                           ELSE Pos(b) + (a - b) - Modulus
  BY <1>1, Sizes, ModAdd DEF Pos
<1>3. Pos(b) \in 0 .. Modulus - 1
  BY IndexPos
<1>4. CASE Masked
  <2>1. Modulus = Word
    BY <1>4 DEF Modulus
  <2> QED BY <1>1, <1>2, <1>3, <1>4, <2>1, Sizes DEF Used, Sub
<1>5. CASE ~Masked
  <2>1. Modulus = Size /\ Limit = Size - 1
    BY <1>5 DEF Modulus, Limit
  <2> QED BY <1>1, <1>2, <1>3, <1>5, <2>1, Sizes, WordAssumption DEF Used, Sub, Add
<1> QED BY <1>4, <1>5

LEMMA AdvancePos ==
  ASSUME variant \in Variants, NEW a \in Nat, NEW n \in 0 .. Size, n <= WrapDistance(a)
  PROVE  Advance(Pos(a), n) = Pos(a + n)
<1>1. Pos(a + n) = IF Pos(a) + n < Modulus THEN Pos(a) + n ELSE Pos(a) + n - Modulus
  <2>1. n \in 0 .. Modulus
    BY Sizes
  <2> QED BY <2>1, Sizes, ModAdd DEF Pos
<1>2. Pos(a) \in 0 .. Modulus - 1
  BY IndexPos
<1>3. CASE Masked
  BY <1>1, <1>2, <1>3, Sizes DEF Advance, Add, Modulus
<1>4. CASE ~Masked
  <2>1. Modulus = Size /\ Pos(a) = Index(a)
    BY <1>4 DEF Modulus, Pos, Index
  <2>2. Pos(a) + n <= Size
    <3>1. Index(a) \in Int /\ n <= Size - Index(a)
      BY IndexPos, Sizes DEF Bytes
    <3> QED BY <2>1, <3>1, Sizes
  <2> QED BY <1>1, <1>2, <1>4, <2>1, <2>2, Sizes DEF Advance
<1> QED BY <1>3, <1>4

LEMMA WrappedPos ==
  ASSUME variant \in Variants, NEW a \in Nat
  PROVE  /\ Wrapped(Pos(a)) = Pos(a + WrapDistance(a)) /\ Index(a + WrapDistance(a)) = 0
         /\ Masked => Add(Pos(a), WrapDistance(a)) = Pos(a + WrapDistance(a))
         /\ ~Masked => Pos(a + WrapDistance(a)) = 0
<1>1. WrapDistance(a) \in 0 .. Size /\ WrapDistance(a) <= WrapDistance(a)
      /\ WrapDistance(Pos(a)) = WrapDistance(a)
  BY IndexPos
<1>2. Index(a + WrapDistance(a)) = 0
  <2>1. PICK r \in 0 .. Size - 1, w \in 0 .. Size : r = a % Size /\ w = WrapDistance(a)
    BY <1>1, Sizes, DivMod
  <2>2. w = Size - Index(a)
    BY <2>1, IndexPos
  <2>4. r = Index(a)
    BY <2>1 DEF Index
  <2>5. r + w = Size
    BY <2>2, <2>4, Sizes
  <2>3. (a + w) % Size = IF r + w < Size THEN r + w ELSE r + w - Size
    BY <2>1, Sizes, ModAdd
  <2> QED BY <2>1, <2>5, <2>3, Sizes DEF Index
<1>3. ~Masked => Pos(a + WrapDistance(a)) = 0
  BY <1>2 DEF Pos, Modulus, Index
<1>4. Masked => Add(Pos(a), WrapDistance(a)) = Pos(a + WrapDistance(a))
  BY <1>1, AdvancePos DEF Advance
<1> QED BY <1>1, <1>2, <1>3, <1>4 DEF Wrapped

LEMMA FitsMeans ==
  ASSUME variant \in Variants, NEW u \in Nat, NEW n \in 0 .. Size
  PROVE  Fits(u, n) <=> u + n <= Limit
BY Sizes DEF Fits, Sub, Limit

LEMMA RoundedFacts ==
  ASSUME RecordsFit, NEW length \in Lengths
  PROVE  /\ length \in 1 .. Size - 1 /\ Rounded(length) \in 1 .. Size
         /\ Rounded(length) % Align = 0 /\ Rounded(length) >= length + Header
         /\ Rounded(length) >= Align
<1>1. length \in 1 .. Size - 1 /\ Rounded(length) <= Size
  BY LengthsAssumption DEF RecordsFit
<1>2. Size \in Nat /\ Align \in Nat \ {0} /\ Header \in 1 .. Align
  BY SizeAssumption, HeaderAssumption
<1> DEFINE z == length + Header + Align - 1
<1>3. z \in Nat
  BY <1>1, <1>2
<1>4. Rounded(length) = (z \div Align) * Align
  BY DEF Rounded
<1> HIDE DEF z
<1>5. PICK q \in Nat, r \in 0 .. Align - 1 : z = q * Align + r /\ q = z \div Align
  BY <1>2, <1>3, DivMod
<1>6. q * Align >= length + Header
  BY <1>1, <1>2, <1>5 DEF z
<1>7. (q * Align) % Align = 0
  <2>1. q * Align + 0 = q * Align /\ 0 \in 0 .. Align - 1
    BY <1>2
  <2> QED BY <1>2, <2>1, ModUnique
<1>8. q * Align >= Align
  <2>1. q # 0
    BY <1>1, <1>2, <1>6
  <2>2. (q - 1) * Align >= 0 /\ q * Align = (q - 1) * Align + Align
    BY <1>2, <2>1
  <2> QED BY <1>2, <2>2
<1>9. q * Align \in Int
  BY <1>2
<1> QED BY <1>1, <1>2, <1>4, <1>5, <1>6, <1>7, <1>8, <1>9

LEMMA ModNegative ==
  ASSUME NEW m \in Nat \ {0}, NEW a \in 1 .. m - 1
  PROVE  (-a) % m = m - a
OBVIOUS

\* The bytes from one position to another are those between the two numbers.
LEMMA RegionPos ==
  ASSUME variant \in Variants, NEW a \in Nat, NEW b \in Nat, a <= b, b <= a + Limit
  PROVE  Region(Pos(a), Pos(b)) = {Index(x) : x \in a .. b - 1}
<1>1. \A k \in 0 .. Size : Index(Pos(a) + k) = Index(a + k)
  <2> SUFFICES ASSUME NEW k \in 0 .. Size
               PROVE  Index(Pos(a) + k) = Index(a + k)
    OBVIOUS
  <2>1. Pos(a) \in Nat /\ Pos(a) % Size = a % Size
    BY IndexPos, Sizes DEF Index
  <2>2. (a + k) % Size = IF (a % Size) + k < Size THEN (a % Size) + k ELSE (a % Size) + k - Size
    BY Sizes, ModAdd
  <2>3. (Pos(a) + k) % Size = IF (Pos(a) % Size) + k < Size THEN (Pos(a) % Size) + k
                                                            ELSE (Pos(a) % Size) + k - Size
    BY <2>1, Sizes, ModAdd
  <2> QED BY <2>1, <2>2, <2>3 DEF Index
<1>2. (IF Masked THEN Sub(Pos(b), Pos(a)) ELSE (Pos(b) - Pos(a)) % Size) = b - a
  <2>1. CASE Masked
    BY <2>1, UsedPos DEF Used
  <2>2. CASE ~Masked
    <3>0. Limit = Size - 1 /\ Modulus = Size
      BY <2>2 DEF Limit, Modulus
    <3>1. PICK d \in 0 .. Size - 1 : d = b - a
      BY <3>0, Sizes
    <3>2. a + d = b /\ d \in 0 .. Size
      BY <3>1, Sizes
    <3>3. (a + d) % Size = IF (a % Size) + d < Size THEN (a % Size) + d ELSE (a % Size) + d - Size
      BY <3>2, Sizes, ModAdd
    <3>4. PICK r \in 0 .. Size - 1, s \in 0 .. Size - 1 : r = Pos(a) /\ s = Pos(b)
      BY <3>0, IndexPos
    <3>5. r = a % Size /\ s = b % Size
      BY <3>0, <3>4 DEF Pos
    <3>6. s = IF r + d < Size THEN r + d ELSE r + d - Size
      BY <3>2, <3>3, <3>5
    <3>7. (s - r) % Size = d
      <4>1. CASE r + d < Size
        <5>1. s - r = d
          BY <3>6, <4>1
        <5> QED BY <5>1, Sizes, ModSmall
      <4>2. CASE ~(r + d < Size)
        <5>1. Size - d \in 1 .. Size - 1
          BY <4>2, Sizes
        <5>2. (-(Size - d)) % Size = Size - (Size - d)
          BY <5>1, Sizes, ModNegative
        <5>3. s - r = -(Size - d) /\ Size - (Size - d) = d
          BY <3>6, <4>2, Sizes
        <5> QED BY <5>2, <5>3
      <4> QED BY <4>1, <4>2
    <3> QED BY <2>2, <3>1, <3>4, <3>7
  <2> QED BY <2>1, <2>2
<1>3. Region(Pos(a), Pos(b)) = {Index(Pos(a) + k) : k \in 0 .. (b - a) - 1}
  BY <1>2 DEF Region
<1>4. \A k \in 0 .. (b - a) - 1 : a + k \in a .. b - 1 /\ Index(Pos(a) + k) = Index(a + k)
  <2>1. \A k \in 0 .. (b - a) - 1 : k \in 0 .. Size
    BY Sizes
  <2> QED BY <1>1, <2>1
<1>5. \A x \in a .. b - 1 : x - a \in 0 .. (b - a) - 1 /\ a + (x - a) = x
  OBVIOUS
<1>6. \A x \in a .. b - 1 : Index(x) = Index(Pos(a) + (x - a))
  BY <1>4, <1>5
<1> HIDE DEF Region
<1> QED BY <1>3, <1>4, <1>5, <1>6

LEMMA PositionOf ==
  ASSUME variant \in Variants, NEW x \in Nat, x % Align = 0
  PROVE  Pos(x) \in Positions
<1>1. (x % Modulus) % Align = 0
  BY Sizes, ModMod
<1>2. Pos(x) \in 0 .. Modulus - 1
  BY IndexPos
<1> QED BY <1>1, <1>2 DEF Positions, Pos, Modulus

\* Going on from a position by what a record takes, or to the start.
LEMMA PositionsClosed ==
  ASSUME variant \in Variants, NEW p \in Positions
  PROVE  /\ \A n \in 0 .. Size : n % Align = 0 /\ n <= WrapDistance(p) =>
              Advance(p, n) \in Positions
         /\ Wrapped(p) \in Positions
         /\ p \in Nat /\ p = Pos(p)
<1>1. p \in Nat /\ p % Align = 0 /\ p \in 0 .. Modulus - 1
  BY Sizes DEF Positions, Modulus
<1>2. p = Pos(p)
  BY <1>1, Sizes, ModSmall DEF Pos
<1>3. ASSUME NEW n \in 0 .. Size, n % Align = 0, n <= WrapDistance(p)
      PROVE  Advance(p, n) \in Positions
  <2>1. Advance(p, n) = Pos(p + n)
    BY <1>1, <1>2, <1>3, AdvancePos
  <2>2. (p + n) % Align = 0 /\ p + n \in Nat
    BY <1>1, <1>3, Sizes, Multiples
  <2> QED BY <2>1, <2>2, PositionOf
<1>4. Wrapped(p) \in Positions
  <2>1. PICK w \in 1 .. Size : w = WrapDistance(p)
    BY <1>1, IndexPos
  <2>2. w % Align = 0
    <3>1. (p % Size) % Align = p % Align
      BY <1>1, Sizes, SizeAssumption, ModMod
    <3>2. PICK i \in 0 .. Size - 1 : i = p % Size
      BY <1>1, Sizes, DivMod
    <3>3. i % Align = 0 /\ w = Size - i /\ Size >= i
      BY <1>1, <2>1, <3>1, <3>2, Sizes DEF WrapDistance, Index
    <3>4. Size \in Nat /\ i \in Nat /\ Align \in Nat \ {0} /\ Size % Align = 0
      BY Sizes, SizeAssumption
    <3>5. Size >= i => (Size - i) % Align = 0
      BY <3>3, <3>4, Multiples
    <3> QED BY <3>3, <3>5
  <2>3. (p + w) % Align = 0 /\ p + w \in Nat
    <3>1. w \in Nat /\ p \in Nat /\ Align \in Nat \ {0} /\ p % Align = 0
      BY <1>1, Sizes
    <3>2. (p + w) % Align = 0
      BY <2>2, <3>1, Multiples
    <3>3. p + w \in Nat
      BY <3>1
    <3> QED BY <3>2, <3>3
  <2>4. Wrapped(p) = Pos(p + w)
    BY <1>1, <1>2, <2>1, WrappedPos
  <2> QED BY <2>3, <2>4, PositionOf
<1> QED BY <1>1, <1>2, <1>3, <1>4

-----------------------------------------------------------------------------
(* Records in the buffer.                                                  *)

\* Where a record begins, in numbers and in positions.
LEMMA StartFacts ==
  ASSUME RecordsFit,
         variant \in Variants, NEW x \in Nat, buffer[Index(x)] \in Lengths \/ Marked(x)
  PROVE  /\ Start(x) \in Nat /\ Unmarked(Pos(x)) = Pos(Start(x))
         /\ \/ Start(x) = x /\ buffer[Index(x)] \in Lengths /\ Unmarked(Pos(x)) = Pos(x)
            \/ /\ Start(x) = x + WrapDistance(x) /\ Marked(x) /\ Index(Start(x)) = 0
               /\ Unmarked(Pos(x)) = Wrapped(Pos(x))
<1>1. Index(Pos(x)) = Index(x) /\ WrapDistance(x) \in 1 .. Size
  BY IndexPos
<1>2. CASE buffer[Index(x)] \in Lengths
  <2>1. buffer[Index(x)] >= 0
    BY <1>2, RoundedFacts, Sizes
  <2> QED BY <1>1, <1>2, <2>1 DEF Start, Unmarked
<1>3. CASE Marked(x)
  <2>1. buffer[Index(x)] = -WrapDistance(x) /\ ~(buffer[Index(x)] >= 0)
        /\ -buffer[Index(x)] = WrapDistance(x)
    BY <1>1, <1>3, Sizes DEF Marked
  <2>2. Start(x) = x + WrapDistance(x) /\ Start(x) \in Nat
    BY <1>1, <2>1, Sizes DEF Start
  <2>3. Unmarked(Pos(x)) = IF Masked THEN Add(Pos(x), WrapDistance(x)) ELSE 0
    BY <1>1, <2>1 DEF Unmarked
  <2>4. Unmarked(Pos(x)) = Pos(x + WrapDistance(x))
    BY <2>3, WrappedPos
  <2> QED BY <1>3, <2>2, <2>4, WrappedPos
<1> QED BY <1>2, <1>3

\* RecordAt goes by the place in the buffer alone.
LEMMA SameRecord ==
  ASSUME NEW p, NEW q, NEW length, Index(p) = Index(q)
  PROVE  RecordAt(p, length) = RecordAt(q, length)
BY DEF RecordAt, Payload

LEMMA LinkFacts ==
  ASSUME RecordsFit, variant \in Variants, NEW x \in Nat, NEW y, NEW r, Link(x, y, r)
  PROVE  /\ y \in Nat /\ x <= Start(x) /\ x + Align <= y /\ Start(x) + Align <= y
         /\ r.length \in Lengths /\ y = Start(x) + Rounded(r.length)
         /\ LengthAt(Pos(x)) = r.length /\ RecordAt(Unmarked(Pos(x)), r.length) = r
         /\ Advance(Unmarked(Pos(x)), Rounded(r.length)) = Pos(y)
<1>1. /\ buffer[Index(x)] \in Lengths \/ Marked(x)
      /\ r.length \in Lengths /\ buffer[Index(Start(x))] = r.length
      /\ WrapDistance(Start(x)) >= Rounded(r.length)
      /\ y = Start(x) + Rounded(r.length)
      /\ r = RecordAt(Start(x), r.length)
  BY DEF Link
<1>2. Start(x) \in Nat /\ Unmarked(Pos(x)) = Pos(Start(x)) /\ x <= Start(x)
  <2>1. WrapDistance(x) \in 1 .. Size
    BY IndexPos
  <2> QED BY <1>1, <2>1, StartFacts
<1>3. Rounded(r.length) \in 1 .. Size /\ Rounded(r.length) >= Align
  BY <1>1, RoundedFacts
<1>4. Index(Pos(Start(x))) = Index(Start(x)) /\ WrapDistance(Start(x)) \in 1 .. Size
  BY <1>2, IndexPos
<1>5. LengthAt(Pos(x)) = r.length
  BY <1>1, <1>2, <1>4 DEF LengthAt
<1>6. RecordAt(Unmarked(Pos(x)), r.length) = r
  BY <1>1, <1>2, <1>4, SameRecord
<1>7. Advance(Pos(Start(x)), Rounded(r.length)) = Pos(Start(x) + Rounded(r.length))
  BY <1>1, <1>2, <1>3, <1>4, AdvancePos, Sizes
<1> QED BY <1>1, <1>2, <1>3, <1>5, <1>6, <1>7, Sizes

\* A record stays what it is while its bytes do.
LEMMA LinkKept ==
  ASSUME RecordsFit, variant \in Variants, NEW x \in Nat, NEW y, NEW r, Link(x, y, r),
         \A z \in x .. y - 1 : buffer'[Index(z)] = buffer[Index(z)]
  PROVE  Link(x, y, r)'
<1>1. /\ buffer[Index(x)] \in Lengths \/ Marked(x)
      /\ r.length \in Lengths /\ buffer[Index(Start(x))] = r.length
      /\ WrapDistance(Start(x)) >= Rounded(r.length)
      /\ y = Start(x) + Rounded(r.length)
      /\ r = RecordAt(Start(x), r.length)
  BY DEF Link
<1>2. y \in Nat /\ x <= Start(x) /\ Start(x) \in Nat /\ Start(x) + Align <= y
  BY <1>1, LinkFacts, StartFacts
<1>3. x \in x .. y - 1 /\ Start(x) \in x .. y - 1
  BY <1>2, Sizes
<1>4. buffer'[Index(x)] = buffer[Index(x)]
  BY <1>3
<1>5. buffer'[Index(Start(x))] = buffer[Index(Start(x))]
  BY <1>3
<1>6. Start(x)' = Start(x) /\ Marked(x)' = Marked(x)
  BY <1>4 DEF Start, Marked
<1>7. RecordAt(Start(x), r.length)' = RecordAt(Start(x), r.length)
  <2> DEFINE S == Payload(Start(x), r.length) \cap Bytes
  <2>1. \A i \in S : buffer'[i] = buffer[i]
    <3> SUFFICES ASSUME NEW i \in S
                 PROVE  buffer'[i] = buffer[i]
      OBVIOUS
    <3>1. PICK b \in Nat : b = Index(Start(x)) /\ b + Rounded(r.length) <= Size
      <4>1. Index(Start(x)) \in 0 .. Size - 1 /\ WrapDistance(Start(x)) = Size - Index(Start(x))
        BY <1>2, IndexPos DEF Bytes
      <4>2. Rounded(r.length) \in Nat
        BY <1>1, RoundedFacts
      <4> QED BY <1>1, <4>1, <4>2, Sizes
    <3>2. r.length \in Nat /\ Rounded(r.length) \in Nat
          /\ Rounded(r.length) >= r.length + Header /\ Header \in Nat
      BY <1>1, RoundedFacts, Sizes
    <3>3. i \in b + Header .. b + Header + r.length - 1
      BY <3>1 DEF Payload
    <3>4. i - b \in 0 .. Size /\ i - b < Rounded(r.length) /\ b + (i - b) < Size
          /\ b + (i - b) = i
      BY <3>1, <3>2, <3>3, Sizes
    <3>5. Index(Start(x) + (i - b)) = i
      <4>1. PICK k \in 0 .. Size : k = i - b
        BY <3>4
      <4>2. (Start(x) + k) % Size = IF (Start(x) % Size) + k < Size THEN (Start(x) % Size) + k
                                                        ELSE (Start(x) % Size) + k - Size
        BY <1>2, <4>1, Sizes, ModAdd
      <4>3. Start(x) % Size = b
        BY <3>1 DEF Index
      <4> QED BY <3>4, <4>1, <4>2, <4>3 DEF Index
    <3>6. Start(x) + (i - b) \in x .. y - 1
      BY <1>1, <1>2, <3>1, <3>2, <3>4
    <3> QED BY <3>5, <3>6
  <2>2. {buffer'[i] : i \in S} = {buffer[i] : i \in S}
    BY <2>1
  <2>3. (Payload(Start(x), r.length) \cap Bytes)' = S
    BY <1>6 DEF Payload
  <2> QED BY <2>2, <2>3 DEF RecordAt
<1> QED BY <1>1, <1>4, <1>5, <1>6, <1>7 DEF Link

LEMMA Ascends ==
  ASSUME variant \in Variants, NEW g \in Ghosts, NEW at, Chain(g, at), records \in Seq(Whole)
  PROVE  /\ Len(records) \in Nat /\ 0 \in 0 .. Len(records) /\ Len(records) \in 0 .. Len(records)
         /\ \A k \in 0 .. Len(records) : at[k] \in Nat /\ g.c <= at[k] /\ at[k] <= g.p
         /\ \A j, k \in 0 .. Len(records) : j < k => at[j] < at[k]
         /\ g.c \in Nat /\ g.p \in Nat
<1>1. Len(records) \in Nat
  OBVIOUS
<1>2. \A k \in 0 .. Len(records) : at[k] \in Nat
  BY DEF Chain
<1>3. ASSUME NEW j \in 0 .. Len(records), NEW k \in 0 .. Len(records), j <= k
      PROVE  at[j] <= at[k] /\ (j < k => at[j] < at[k])
  <2>1. at[j] + (k - j) * Align <= at[k]
    BY <1>3 DEF Chain
  <2>2. (k - j) * Align \in Nat /\ (j < k => (k - j) * Align > 0)
    BY <1>1, <1>3, Sizes
  <2> QED BY <1>2, <2>1, <2>2
<1>4. at[0] = g.c /\ at[Len(records)] = g.p
  BY DEF Chain
<1>5. 0 \in 0 .. Len(records) /\ Len(records) \in 0 .. Len(records)
  BY <1>1
<1> QED BY <1>1, <1>2, <1>3, <1>4, <1>5 DEF Ghosts

LEMMA ChainKept ==
  ASSUME RecordsFit,
         variant \in Variants, NEW g \in Ghosts, NEW at, Chain(g, at), records \in Seq(Whole),
         records' = records,
         \A z \in g.c .. g.p - 1 : buffer'[Index(z)] = buffer[Index(z)]
  PROVE  Chain(g, at)'
<1>1. ASSUME NEW k \in 1 .. Len(records)
      PROVE  Link(at[k - 1], at[k], records[k])'
  <2>1. k - 1 \in 0 .. Len(records) /\ k \in 0 .. Len(records)
    BY Ascends
  <2>2. at[k - 1] \in Nat /\ g.c <= at[k - 1] /\ at[k] <= g.p /\ at[k] \in Nat
        /\ g.c \in Nat /\ g.p \in Nat
    BY <2>1, Ascends
  <2>3. Link(at[k - 1], at[k], records[k])
    BY DEF Chain
  <2>4. \A z \in at[k - 1] .. at[k] - 1 : buffer'[Index(z)] = buffer[Index(z)]
    BY <2>2
  <2>5. PICK x, y, r : x \in Nat /\ x = at[k - 1] /\ y = at[k] /\ r = records[k]
    BY <2>2
  <2>6. Link(x, y, r)'
    BY <2>3, <2>4, <2>5, LinkKept
  <2> QED BY <2>5, <2>6
<1> QED BY <1>1 DEF Chain

\* What the producer writes is behind everything that was published.
LEMMA WriteBehind ==
  ASSUME variant \in Variants, NEW g \in Ghosts, Order(g),
         NEW z \in g.c .. g.p - 1, NEW y \in Nat, g.p <= y, y < g.cc + Size
  PROVE  Index(z) # Index(y)
<1>1. /\ g.cc \in Nat /\ g.c \in Nat /\ g.p \in Nat /\ g.cs \in Nat /\ g.cp \in Nat
      /\ g.cc <= g.cs /\ g.cs <= g.cp /\ g.cp <= g.c
  BY DEF Ghosts, Order
<1>2. z \in Nat /\ z < y /\ y < z + Size
  BY <1>1, Sizes
<1> QED BY <1>2, Sizes, Apart DEF Index

LEMMA OneMore ==
  ASSUME NEW m \in Nat \ {0}, NEW i \in Int
  PROVE  (i + 1) * m = i * m + m /\ i * m \in Int
OBVIOUS

\* A record more at the producer's end.
LEMMA ChainAppended ==
  ASSUME RecordsFit,
         variant \in Variants, NEW g \in Ghosts, NEW at, Chain(g, at), records \in Seq(Whole),
         NEW q \in Nat, NEW r \in Whole, Link(g.p, q, r),
         NEW h \in Ghosts, h.c = g.c, h.ps = g.ps, h.p = q,
         NEW bt, bt = [k \in 0 .. Len(records) + 1 |-> IF k <= Len(records) THEN at[k] ELSE q],
         records' = Append(records, r), buffer' = buffer
  PROVE  Chain(h, bt)' /\ Len(records') = Len(records) + 1
<1>0. PICK n \in Nat : n = Len(records)
  BY Ascends
<1>1. /\ Len(records') = n + 1 /\ records'[n + 1] = r
      /\ \A k \in 1 .. n : records'[k] = records[k]
  BY <1>0
<1>2. /\ \A k \in 0 .. n : bt[k] = at[k]
      /\ bt[n + 1] = q
  BY <1>0
<1>3. at[0] = g.c /\ at[n] = g.p /\ \A k \in 0 .. n : at[k] \in Nat
  BY <1>0, Ascends DEF Chain
<1>4. bt \in [0 .. n + 1 -> Nat]
  BY <1>0, <1>3
<1>5. g.p + Align <= q
  BY Ascends, LinkFacts
<1>6. ASSUME NEW k \in 1 .. n + 1
      PROVE  Link(bt[k - 1], bt[k], records[k])'
  <2>1. CASE k = n + 1
    <3>1. bt[k - 1] = g.p /\ bt[k] = q /\ records'[k] = r
      BY <1>0, <1>1, <1>2, <1>3, <2>1
    <3>2. PICK x, y, s : x = bt[k - 1] /\ y = bt[k] /\ s = records'[k]
      OBVIOUS
    <3>3. Link(x, y, s)'
      BY <3>1, <3>2 DEF Link, Marked, Start, RecordAt
    <3> QED BY <3>2, <3>3
  <2>2. CASE k # n + 1
    <3>1. k \in 1 .. n /\ k \in 0 .. n /\ k - 1 \in 0 .. n
      BY <1>0, <2>2
    <3>2. Link(at[k - 1], at[k], records[k])
      BY <1>0, <3>1 DEF Chain
    <3>3. PICK x, y, s : x = bt[k - 1] /\ y = bt[k] /\ s = records'[k]
      OBVIOUS
    <3>4. Link(x, y, s)
      BY <1>1, <1>2, <3>1, <3>2, <3>3
    <3>5. Link(x, y, s)'
      BY <3>4 DEF Link, Marked, Start, RecordAt
    <3> QED BY <3>3, <3>5
  <2> QED BY <2>1, <2>2
<1>7. ASSUME NEW j \in 0 .. n + 1, NEW k \in 0 .. n + 1, j <= k
      PROVE  bt[j] + (k - j) * Align <= bt[k]
  <2>1. CASE k <= n
    <3>1. j \in 0 .. n /\ k \in 0 .. n
      BY <1>7, <2>1
    <3> QED BY <1>0, <1>2, <1>7, <3>1 DEF Chain
  <2>2. CASE k = n + 1 /\ j <= n
    <3>1. j \in 0 .. n /\ n \in 0 .. n
      BY <2>2
    <3>2. at[j] + (n - j) * Align <= g.p
      BY <1>0, <1>3, <2>2, <3>1 DEF Chain
    <3>3. PICK u \in Int, w \in Int : u = (n - j) * Align /\ w = (k - j) * Align /\ w = u + Align
      <4>1. PICK d \in Int : d = n - j /\ k - j = d + 1
        BY <2>2
      <4>2. Align \in Nat \ {0} /\ Align \in Int
        BY Sizes
      <4>3. (d + 1) * Align = d * Align + Align /\ d * Align \in Int
        BY <4>2, OneMore
      <4>4. PICK u \in Int : u = d * Align
        BY <4>3
      <4>5. u + Align \in Int /\ (k - j) * Align = u + Align /\ u = (n - j) * Align
        BY <4>1, <4>2, <4>3, <4>4
      <4> QED BY <4>5
    <3>4. bt[j] = at[j] /\ bt[k] = q /\ at[j] \in Nat /\ g.p \in Nat /\ Align \in Nat
      BY <1>2, <1>3, <2>2, <3>1, Sizes
    <3>5. at[j] + u <= g.p
      BY <3>2, <3>3
    <3>6. at[j] + w <= q
      BY <1>5, <3>3, <3>4, <3>5
    <3> QED BY <3>3, <3>4, <3>6
  <2>3. CASE j = n + 1
    <3>1. k = j /\ (k - j) * Align = 0
      BY <1>7, <2>3, Sizes
    <3> QED BY <1>2, <2>3, <3>1
  <2> QED BY <2>1, <2>2, <2>3
<1>8. \E k \in 0 .. n + 1 : bt[k] = h.ps
  <2>1. PICK k \in 0 .. n : at[k] = g.ps
    BY <1>0 DEF Chain
  <2> QED BY <1>2, <2>1
<1>9. bt[0] = h.c /\ bt[n + 1] = h.p
  BY <1>0, <1>2, <1>3
<1> QED BY <1>0, <1>1, <1>4, <1>6, <1>7, <1>8, <1>9 DEF Chain

\* Once the oldest record is taken.
LEMMA ChainShortened ==
  ASSUME variant \in Variants, NEW g \in Ghosts, NEW at, Chain(g, at), records \in Seq(Whole),
         g.c < g.ps,
         NEW h \in Ghosts, h.c = at[1], h.ps = g.ps, h.p = g.p,
         NEW bt, bt = [k \in 0 .. Len(records) - 1 |-> at[k + 1]],
         records' = SubSeq(records, 2, Len(records)), buffer' = buffer
  PROVE  Chain(h, bt)' /\ Len(records') = Len(records) - 1 /\ Len(records) # 0
<1>0. PICK n \in Nat : n = Len(records)
  BY Ascends
<1>k. PICK i \in 0 .. n : at[i] = g.ps
  BY <1>0 DEF Chain
<1>z. i # 0 /\ n >= 1
  <2>1. i # 0
    BY <1>k DEF Chain, Ghosts
  <2> QED BY <2>1
<1>1. /\ Len(records') = n - 1
      /\ \A k \in 1 .. n - 1 : records'[k] = records[k + 1]
  BY <1>0, <1>z
<1>2. \A k \in 0 .. n - 1 : bt[k] = at[k + 1] /\ k + 1 \in 0 .. n
  BY <1>0
<1>3. at[0] = g.c /\ at[n] = g.p /\ \A k \in 0 .. n : at[k] \in Nat
  BY <1>0, Ascends DEF Chain
<1>4. bt \in [0 .. n - 1 -> Nat]
  BY <1>0, <1>2, <1>3
<1>6. ASSUME NEW k \in 1 .. n - 1
      PROVE  Link(bt[k - 1], bt[k], records[k])'
  <2>1. k + 1 \in 1 .. n /\ k - 1 \in 0 .. n - 1 /\ k \in 0 .. n - 1 /\ (k - 1) + 1 = k
        /\ (k + 1) - 1 = k
    BY <1>0
  <2>2. Link(at[(k + 1) - 1], at[k + 1], records[k + 1])
    BY <1>0, <2>1 DEF Chain
  <2>3. bt[k - 1] = at[k] /\ bt[k] = at[k + 1] /\ records'[k] = records[k + 1]
    <3>1. bt[k - 1] = at[(k - 1) + 1]
      BY <1>2, <2>1
    <3> QED BY <1>1, <1>2, <2>1, <3>1
  <2>4. PICK x, y, s : x = bt[k - 1] /\ y = bt[k] /\ s = records'[k]
    OBVIOUS
  <2>5. Link(x, y, s)
    BY <2>1, <2>2, <2>3, <2>4
  <2>6. Link(x, y, s)'
    BY <2>5 DEF Link, Marked, Start, RecordAt
  <2> QED BY <2>4, <2>6
<1>7. ASSUME NEW j \in 0 .. n - 1, NEW k \in 0 .. n - 1, j <= k
      PROVE  bt[j] + (k - j) * Align <= bt[k]
  <2>1. j + 1 \in 0 .. n /\ k + 1 \in 0 .. n /\ j + 1 <= k + 1 /\ (k + 1) - (j + 1) = k - j
    BY <1>7
  <2>2. at[j + 1] + ((k + 1) - (j + 1)) * Align <= at[k + 1]
    BY <1>0, <2>1 DEF Chain
  <2> QED BY <1>2, <2>1, <2>2
<1>8. \E k \in 0 .. n - 1 : bt[k] = h.ps
  <2>1. i - 1 \in 0 .. n - 1 /\ (i - 1) + 1 = i
    BY <1>z
  <2>2. bt[i - 1] = at[(i - 1) + 1]
    BY <1>2, <2>1
  <2> QED BY <1>k, <2>1, <2>2
<1>9. bt[0] = h.c /\ bt[n - 1] = h.p
  <2>1. 0 \in 0 .. n - 1 /\ n - 1 \in 0 .. n - 1 /\ 0 + 1 = 1 /\ (n - 1) + 1 = n
    BY <1>z
  <2>2. bt[0] = at[0 + 1] /\ bt[n - 1] = at[(n - 1) + 1]
    BY <1>2, <2>1
  <2> QED BY <1>3, <2>1, <2>2
<1>10. PICK m \in Nat : m = n - 1 /\ m = Len(records')
  BY <1>1, <1>z
<1>11. (bt \in [0 .. m -> Nat] /\ bt[0] = h.c /\ bt[m] = h.p)
  BY <1>4, <1>9, <1>10
<1>12. \A k \in 1 .. m : Link(bt[k - 1], bt[k], records[k])'
  BY <1>6, <1>10
<1>13. \A j, k \in 0 .. m : j <= k => bt[j] + (k - j) * Align <= bt[k]
  BY <1>7, <1>10
<1>14. \E k \in 0 .. m : bt[k] = h.ps
  BY <1>8, <1>10
<1>15. Chain(h, bt)'
  BY <1>10, <1>11, <1>12, <1>13, <1>14 DEF Chain
<1> QED BY <1>0, <1>1, <1>z, <1>15

\* Once the marker before the oldest record is passed.
LEMMA ChainSkipped ==
  ASSUME RecordsFit,
         variant \in Variants, NEW g \in Ghosts, NEW at, Chain(g, at), records \in Seq(Whole),
         g.c < g.ps, NEW s \in Nat, s = Start(g.c),
         NEW h \in Ghosts, h.c = s, h.ps = g.ps, h.p = g.p,
         NEW bt, bt = [at EXCEPT ![0] = s],
         records' = records, buffer' = buffer
  PROVE  Chain(h, bt)' /\ s <= g.ps
<1>0. PICK n \in Nat : n = Len(records)
  BY Ascends
<1>k. PICK i \in 0 .. n : at[i] = g.ps
  BY <1>0 DEF Chain
<1>z. i # 0 /\ n >= 1 /\ i >= 1
  <2>1. i # 0
    BY <1>k DEF Chain, Ghosts
  <2> QED BY <2>1
<1>3. at[0] = g.c /\ at[n] = g.p /\ (\A k \in 0 .. n : at[k] \in Nat) /\ at \in [0 .. n -> Nat]
  BY <1>0, Ascends DEF Chain
<1>4. bt \in [0 .. n -> Nat] /\ bt[0] = s /\ \A k \in 1 .. n : bt[k] = at[k]
  BY <1>3
<1>5. Link(g.c, at[1], records[1])
  <2>1. 1 \in 1 .. n /\ 1 - 1 = 0
    BY <1>z
  <2> QED BY <1>0, <1>3, <2>1 DEF Chain
<1>6. g.c \in Nat /\ g.c <= s /\ s + Align <= at[1]
  BY <1>5, Ascends, LinkFacts
<1>7. Link(s, at[1], records[1])
  <2>1. Start(s) = s /\ buffer[Index(s)] \in Lengths
    <3>1. buffer[Index(s)] = records[1].length /\ records[1].length \in Lengths
      BY <1>5 DEF Link
    <3>2. records[1].length >= 0
      BY <3>1, RoundedFacts, Sizes
    <3> QED BY <3>1, <3>2 DEF Start
  <2> QED BY <1>5, <2>1 DEF Link
<1>8. ASSUME NEW k \in 1 .. n
      PROVE  Link(bt[k - 1], bt[k], records[k])'
  <2>1. PICK x, y, r : x = bt[k - 1] /\ y = bt[k] /\ r = records[k]
    OBVIOUS
  <2>2. Link(x, y, r)
    <3>1. CASE k = 1
      <4>1. k - 1 = 0
        BY <3>1
      <4> QED BY <1>4, <1>7, <2>1, <3>1, <4>1
    <3>2. CASE k # 1
      <4>1. k - 1 \in 1 .. n
        BY <3>2
      <4>2. Link(at[k - 1], at[k], records[k])
        BY <1>0 DEF Chain
      <4> QED BY <1>4, <2>1, <4>1, <4>2
    <3> QED BY <3>1, <3>2
  <2>3. Link(x, y, r)'
    BY <2>2 DEF Link, Marked, Start, RecordAt
  <2> QED BY <2>1, <2>3
<1>9. ASSUME NEW j \in 0 .. n, NEW k \in 0 .. n, j <= k
      PROVE  bt[j] + (k - j) * Align <= bt[k]
  <2>1. CASE j = 0 /\ k = 0
    BY <1>4, <2>1, Sizes
  <2>2. CASE j = 0 /\ k # 0
    <3>1. k \in 1 .. n /\ 1 \in 0 .. n /\ 1 <= k
      BY <2>2
    <3>2. at[1] + (k - 1) * Align <= at[k] /\ at[1] \in Nat /\ at[k] \in Nat
      BY <1>0, <1>3, <3>1 DEF Chain
    <3>3. PICK u \in Int, w \in Int : u = (k - 1) * Align /\ w = (k - j) * Align /\ w = u + Align
      <4>1. PICK d \in Int : d = k - 1 /\ k - j = d + 1
        BY <2>2
      <4>2. Align \in Nat \ {0} /\ Align \in Int
        BY Sizes
      <4>3. (d + 1) * Align = d * Align + Align /\ d * Align \in Int
        BY <4>2, OneMore
      <4>4. PICK u \in Int : u = d * Align
        BY <4>3
      <4>5. u + Align \in Int /\ (k - j) * Align = u + Align /\ u = (k - 1) * Align
        BY <4>1, <4>2, <4>3, <4>4
      <4> QED BY <4>5
    <3>4. bt[j] = s /\ bt[k] = at[k] /\ Align \in Nat
      BY <1>4, <2>2, <3>1, Sizes
    <3>5. at[1] + u <= at[k]
      BY <3>2, <3>3
    <3>6. s + w <= at[k]
      BY <1>6, <3>2, <3>3, <3>4, <3>5
    <3> QED BY <3>3, <3>4, <3>6
  <2>3. CASE j # 0
    <3>1. j \in 1 .. n /\ k \in 1 .. n
      BY <1>9, <2>3
    <3>2. at[j] + (k - j) * Align <= at[k]
      BY <1>0, <1>9 DEF Chain
    <3> QED BY <1>4, <3>1, <3>2
  <2> QED BY <2>1, <2>2, <2>3
<1>10. bt[i] = h.ps /\ bt[n] = h.p
  <2>1. i \in 1 .. n /\ n \in 1 .. n
    BY <1>z
  <2> QED BY <1>3, <1>4, <1>k, <2>1
<1>11. s <= g.ps
  <2>1. 1 \in 0 .. n /\ 1 <= i
    BY <1>z
  <2>2. at[1] <= at[i]
    BY <1>0, <1>z, <2>1, Ascends
  <2> QED BY <1>3, <1>6, <1>k, <2>1, <2>2, Sizes
<1> QED BY <1>0, <1>4, <1>8, <1>9, <1>10, <1>11 DEF Chain

-----------------------------------------------------------------------------
(* What an action leaves alone.                                            *)

LEMMA ChainSame ==
  ASSUME NEW g, NEW h, NEW at, Chain(g, at), h.c = g.c, h.p = g.p,
         \E k \in 0 .. Len(records) : at[k] = h.ps,
         records' = records, buffer' = buffer
  PROVE  Chain(h, at)'
<1>1. ASSUME NEW k \in 1 .. Len(records)
      PROVE  Link(at[k - 1], at[k], records[k])'
  <2>1. PICK x, y, r : x = at[k - 1] /\ y = at[k] /\ r = records[k]
    OBVIOUS
  <2>2. Link(x, y, r)
    BY <2>1 DEF Chain
  <2>3. Link(x, y, r)'
    BY <2>2 DEF Link, Marked, Start, RecordAt
  <2> QED BY <2>1, <2>3
<1> QED BY <1>1 DEF Chain

LEMMA ProducerSame ==
  ASSUME NEW g, NEW h, ProducerFrame(g), h.p = g.p, h.cc = g.cc,
         variant' = variant, producePos' = producePos, buffer' = buffer, producer' = producer
  PROVE  ProducerFrame(h)'
<1>1. Masked' = Masked /\ Cached' = Cached /\ Modulus' = Modulus /\ Limit' = Limit
  BY DEF Masked, Cached, Modulus, Limit
<1>2. Marked(g.p)' = Marked(g.p)
  BY DEF Marked
<1>3. pPc' = pPc /\ pLen' = pLen /\ pPos' = pPos
  BY DEF producer
<1>4. RecordAt(pPos, pLen)' = RecordAt(pPos, pLen)
  BY <1>3 DEF RecordAt
<1> QED BY <1>1, <1>2, <1>3, <1>4 DEF ProducerFrame, Reserved, Pos

LEMMA ConsumerSame ==
  ASSUME NEW g, NEW h, NEW at, NEW bt, ConsumerFrame(g, at), h.c = g.c, h.cp = g.cp,
         g.c \in Nat, g.ps \in Nat, h.ps \in Nat, g.ps <= h.ps,
         \A k \in 0 .. Len(records) : /\ k \in 0 .. Len(records')
                                      /\ bt[k] = at[k] /\ at[k] \in Nat,
         variant' = variant, producePosCache' = producePosCache, consumer' = consumer
  PROVE  ConsumerFrame(h, bt)'
<1>1. Cached' = Cached /\ ConsumerOps' = ConsumerOps /\ Modulus' = Modulus
  BY DEF Masked, Cached, ConsumerOps, Modulus
<1>2. cPc' = cPc /\ cPos' = cPos /\ cGoal' = cGoal
  BY DEF consumer
<1>3. Cached /\ "consume" \in ConsumerOps =>
       \E k \in 0 .. Len(records') : /\ producePosCache = Pos(bt[k]) /\ bt[k] <= h.ps
                                     /\ cPc = "take" => k # 0
  <2> SUFFICES ASSUME Cached, "consume" \in ConsumerOps
               PROVE  \E k \in 0 .. Len(records') : /\ producePosCache = Pos(bt[k])
                                                    /\ bt[k] <= h.ps
                                                    /\ cPc = "take" => k # 0
    OBVIOUS
  <2>1. PICK k \in 0 .. Len(records) : /\ producePosCache = Pos(at[k]) /\ at[k] <= g.ps
                                       /\ cPc = "take" => k # 0
    BY DEF ConsumerFrame
  <2>2. k \in 0 .. Len(records') /\ bt[k] = at[k] /\ at[k] \in Nat
    OBVIOUS
  <2>3. bt[k] <= h.ps
    BY <2>1, <2>2
  <2> QED BY <2>1, <2>2, <2>3
<1>4. cPc = "drain" => /\ "consume_all" \in ConsumerOps
                       /\ \E k \in 0 .. Len(records') : cGoal = Pos(bt[k]) /\ bt[k] <= h.ps
  <2> SUFFICES ASSUME cPc = "drain"
               PROVE  /\ "consume_all" \in ConsumerOps
                      /\ \E k \in 0 .. Len(records') : cGoal = Pos(bt[k]) /\ bt[k] <= h.ps
    OBVIOUS
  <2>1. PICK k \in 0 .. Len(records) : cGoal = Pos(at[k]) /\ at[k] <= g.ps
    BY DEF ConsumerFrame
  <2>2. k \in 0 .. Len(records') /\ bt[k] = at[k] /\ at[k] \in Nat
    OBVIOUS
  <2>3. bt[k] <= h.ps
    BY <2>1, <2>2
  <2> QED BY <2>1, <2>2, <2>3 DEF ConsumerFrame
<1>5. /\ cPc \in {"idle", "reload", "take", "drain", "release"}
      /\ cPc \in {"idle", "reload", "take"} => h.c = h.cp
      /\ cPc # "idle" => cPos = Pos(h.c)
  BY DEF ConsumerFrame
<1>6. cPc = "take" => h.c < h.ps
  <2> SUFFICES ASSUME cPc = "take" PROVE h.c < h.ps
    OBVIOUS
  <2>1. g.c < g.ps
    BY DEF ConsumerFrame
  <2> QED BY <2>1
<1> QED BY <1>1, <1>2, <1>3, <1>4, <1>5, <1>6 DEF ConsumerFrame, Pos

Content == Elem \cup {Raw} \cup Numbers

\* A step of the producer before it publishes.
LEMMA ProducerAlone ==
  ASSUME RecordsFit, NEW g, NEW at, Consistent(g, at),
         NEW h \in Ghosts, h.p = g.p, h.ps = g.ps, h.c = g.c, h.cp = g.cp, h.cs = g.cs,
         g.cc <= h.cc, h.cc <= h.cs, consumePosCache' = Pos(h.cc),
         consumePosCache' \in Positions, pPos' \in Positions, pLen' \in Lengths \cup {0},
         DOMAIN buffer' = Bytes, \A i \in Bytes : buffer'[i] \in Content,
         \A z \in g.c .. g.p - 1 : buffer'[Index(z)] = buffer[Index(z)],
         ProducerFrame(h)',
         variant' = variant, producePos' = producePos, produceSeen' = produceSeen,
         consumerLine' = consumerLine, consumeSeen' = consumeSeen, consumer' = consumer,
         records' = records
  PROVE  Invariant'
<1>1. /\ TypeOK /\ DOMAIN buffer = Bytes /\ variant \in Variants /\ records \in Seq(Whole)
      /\ g \in Ghosts /\ Places(g) /\ Order(g) /\ Chain(g, at)
      /\ ProducerFrame(g) /\ ConsumerFrame(g, at)
  BY DEF Consistent, Described
<1>2. Masked' = Masked /\ Modulus' = Modulus /\ Limit' = Limit
  BY DEF Masked, Modulus, Limit
<1>3. /\ consumePos' = consumePos /\ producePosCache' = producePosCache
      /\ cPc' = cPc /\ cPos' = cPos /\ cGoal' = cGoal
  BY DEF consumerLine, consumer
<1>4. Chain(h, at)'
  <2>1. Chain(g, at)'
    BY <1>1, ChainKept
  <2>2. Chain(h, at)' <=> Chain(g, at)'
    BY DEF Chain
  <2> QED BY <2>1, <2>2
<1>5. ConsumerFrame(h, at)'
  <2>1. g.c \in Nat /\ g.ps \in Nat /\ h.ps \in Nat /\ g.ps <= h.ps
    BY <1>1 DEF Ghosts
  <2>2. \A k \in 0 .. Len(records) : /\ k \in 0 .. Len(records')
                                     /\ at[k] = at[k] /\ at[k] \in Nat
    BY <1>1, Ascends
  <2> QED BY <1>1, <1>3, <2>1, <2>2, ConsumerSame DEF consumer
<1>6. Order(h)'
  <2>1. g.cc \in Nat /\ h.cc \in Nat /\ g.p \in Nat /\ g.p <= g.cc + Limit /\ Limit \in Nat
    BY <1>1, Sizes DEF Ghosts, Order
  <2>2. g.p <= h.cc + Limit
    BY <2>1
  <2> QED BY <1>1, <1>2, <2>2 DEF Order
<1>7. Places(h)'
  BY <1>1, <1>2, <1>3 DEF Places, Pos
<1>8. TypeOK'
  BY <1>1, <1>2, <1>3 DEF TypeOK, Positions, Content
<1> QED BY <1>1, <1>4, <1>5, <1>6, <1>7, <1>8 DEF Invariant, Consistent, Described

\* A step of the consumer.
LEMMA ConsumerAlone ==
  ASSUME NEW g, NEW at, Consistent(g, at),
         NEW h \in Ghosts, h.p = g.p, h.ps = g.ps, h.cs = g.cs, h.cc = g.cc,
         g.cp <= h.cp, h.cp <= h.c, h.c <= h.ps, consumePos' = Pos(h.cp),
         consumePos' \in Positions, producePosCache' \in Positions,
         cPos' \in Positions, cGoal' \in Positions,
         records' \in Seq(Whole), NEW bt, Chain(h, bt)', ConsumerFrame(h, bt)',
         variant' = variant, producerLine' = producerLine, produceSeen' = produceSeen,
         consumeSeen' = consumeSeen, producer' = producer, buffer' = buffer
  PROVE  Invariant'
<1>1. /\ TypeOK /\ DOMAIN buffer = Bytes /\ variant \in Variants
      /\ g \in Ghosts /\ Places(g) /\ Order(g) /\ ProducerFrame(g)
  BY DEF Consistent, Described
<1>2. Masked' = Masked /\ Modulus' = Modulus /\ Limit' = Limit
  BY DEF Masked, Modulus, Limit
<1>3. /\ producePos' = producePos /\ consumePosCache' = consumePosCache
      /\ pPc' = pPc /\ pLen' = pLen /\ pPos' = pPos
  BY DEF producerLine, producer
<1>4. ProducerFrame(h)'
  BY <1>1, <1>3, ProducerSame
<1>5. Order(h)'
  <2>1. g.cs \in Nat /\ g.cp \in Nat /\ h.cp \in Nat /\ g.cs <= g.cp
    BY <1>1 DEF Ghosts, Order
  <2>2. h.cs <= h.cp
    BY <2>1
  <2> QED BY <1>1, <1>2, <2>2 DEF Order
<1>6. Places(h)'
  BY <1>1, <1>2, <1>3 DEF Places, Pos
<1>7. TypeOK'
  BY <1>1, <1>2, <1>3 DEF TypeOK, Positions
<1> QED BY <1>1, <1>4, <1>5, <1>6, <1>7 DEF Invariant, Consistent, Described

-----------------------------------------------------------------------------
(* produce.                                                                *)

\* The bytes of a record that begins at a.
LEMMA ExtentFacts ==
  ASSUME RecordsFit, variant \in Variants, NEW a \in Nat, NEW length \in Lengths,
         WrapDistance(a) >= Rounded(length)
  PROVE  /\ Extent(Pos(a), length) = Extent(a, length) /\ Extent(a, length) \subseteq Bytes
         /\ \A i \in Extent(a, length) :
              \E y \in a .. a + Rounded(length) - 1 : i = Index(y)
         /\ Payload(Pos(a), length) = Payload(a, length)
         /\ \A i \in Payload(a, length) :
              \E y \in a + 1 .. a + Rounded(length) - 1 : i = Index(y)
         /\ Payload(a, length) \subseteq Bytes
         /\ Index(a) + Header \in Payload(a, length)
<1>1. /\ length \in 1 .. Size - 1 /\ Rounded(length) \in 1 .. Size
      /\ Rounded(length) >= length + Header /\ Size \in Nat \ {0} /\ Header \in Nat \ {0}
  BY RoundedFacts, Sizes
<1>2. PICK b \in 0 .. Size - 1 : b = Index(a) /\ b + Rounded(length) <= Size
  <2>1. Index(a) \in 0 .. Size - 1 /\ WrapDistance(a) = Size - Index(a)
    BY IndexPos DEF Bytes
  <2> QED BY <1>1, <2>1
<1>3. ASSUME NEW k \in 0 .. Rounded(length) - 1
      PROVE  Index(a + k) = b + k
  <2>1. k \in 0 .. Size /\ b + k < Size
    BY <1>1, <1>2
  <2>2. (a + k) % Size = IF (a % Size) + k < Size THEN (a % Size) + k ELSE (a % Size) + k - Size
    BY <2>1, Sizes, ModAdd
  <2> QED BY <1>2, <2>1, <2>2 DEF Index
<1>4. ASSUME NEW i \in b .. b + Rounded(length) - 1
      PROVE  /\ i \in Bytes /\ i - b \in 0 .. Rounded(length) - 1
             /\ i = Index(a + (i - b)) /\ a + (i - b) \in a .. a + Rounded(length) - 1
             /\ i > b => a + (i - b) \in a + 1 .. a + Rounded(length) - 1
  <2>1. i - b \in 0 .. Rounded(length) - 1 /\ b + (i - b) = i
    BY <1>1, <1>2
  <2>2. Index(a + (i - b)) = b + (i - b)
    BY <1>3, <2>1
  <2>3. i \in Bytes
    BY <1>1, <1>2 DEF Bytes
  <2> QED BY <1>1, <1>2, <2>1, <2>2, <2>3
<1>5. Extent(a, length) = b .. b + Rounded(length) - 1
  BY <1>2 DEF Extent
<1>6. Payload(a, length) = b + Header .. b + Header + length - 1
  BY <1>2 DEF Payload
<1>7. \A i \in Payload(a, length) : i \in b .. b + Rounded(length) - 1 /\ i > b
  BY <1>1, <1>2, <1>6
<1>8. Extent(Pos(a), length) = Extent(a, length) /\ Payload(Pos(a), length) = Payload(a, length)
  BY IndexPos DEF Extent, Payload
<1>9. b + Header \in b + Header .. b + Header + length - 1
  BY <1>1, <1>2
<1>10. \A i \in Extent(a, length) :
         i \in Bytes /\ \E y \in a .. a + Rounded(length) - 1 : i = Index(y)
  BY <1>4, <1>5
<1>11. \A i \in Payload(a, length) :
         i \in Bytes /\ \E y \in a + 1 .. a + Rounded(length) - 1 : i = Index(y)
  BY <1>4, <1>7
<1> QED BY <1>2, <1>6, <1>8, <1>9, <1>10, <1>11

\* The test for room says what it should about the ends.
LEMMA RoomMeans ==
  ASSUME RecordsFit,
         variant \in Variants, NEW a \in Nat, NEW b \in Nat, b <= a, a <= b + Limit,
         NEW length \in Lengths
  PROVE  /\ Fits(Used(Pos(a), Pos(b)), Rounded(length)) <=> a + Rounded(length) <= b + Limit
         /\ Fits(Used(Pos(a), Pos(b)) + WrapDistance(a), Rounded(length))
              <=> a + WrapDistance(a) + Rounded(length) <= b + Limit
<1>1. Used(Pos(a), Pos(b)) = a - b
  BY UsedPos
<1>2. Rounded(length) \in 0 .. Size /\ WrapDistance(a) \in 1 .. Size
      /\ Size \in Nat /\ Limit \in Nat
  BY RoundedFacts, IndexPos, Sizes
<1>3. a - b \in Nat /\ a - b + WrapDistance(a) \in Nat
  BY <1>2
<1>4. Fits(a - b, Rounded(length)) <=> (a - b) + Rounded(length) <= Limit
  BY <1>2, <1>3, FitsMeans
<1>5. Fits(a - b + WrapDistance(a), Rounded(length))
        <=> (a - b + WrapDistance(a)) + Rounded(length) <= Limit
  BY <1>2, <1>3, FitsMeans
<1> QED BY <1>1, <1>2, <1>3, <1>4, <1>5

LEMMA ProduceStep ==
  ASSUME RecordsFit, NEW g, NEW at, Consistent(g, at), Produce
  PROVE  Invariant'
<1>1. /\ TypeOK /\ DOMAIN buffer = Bytes /\ variant \in Variants
      /\ g \in Ghosts /\ Places(g) /\ Order(g) /\ ProducerFrame(g)
  BY DEF Consistent, Described
<1>2. PICK length \in Lengths :
         /\ pLen' = length /\ pPos' = producePos
         /\ pPc' = IF Cached /\ Fits(Used(producePos, consumePosCache), Rounded(length))
                   THEN "wrap" ELSE "reload"
  BY DEF Produce
<1>3. UNCHANGED <<producerLine, consumerLine, given, buffer, consumer, history>>
  BY DEF Produce
<1>4. UNCHANGED <<variant, producePos, consumePosCache, produceSeen, consumeSeen, buffer, records>>
  BY <1>3 DEF producerLine, given, history
<1>5. Masked' = Masked /\ Modulus' = Modulus /\ Limit' = Limit
  BY <1>4 DEF Masked, Modulus, Limit
<1>6. pPc' = "wrap" => g.p + Rounded(length) <= g.cc + Limit
  <2>1. g.p \in Nat /\ g.cc \in Nat /\ g.cc <= g.p /\ g.p <= g.cc + Limit
    BY <1>1 DEF Ghosts, Order
  <2> QED BY <1>1, <1>2, <2>1, RoomMeans DEF Places
<1>7. ProducerFrame(g)'
  BY <1>2, <1>4, <1>5, <1>6 DEF ProducerFrame
<1>8. g.cc <= g.cc /\ g.cc <= g.cs
  BY <1>1 DEF Ghosts, Order
<1>9. consumePosCache' = Pos(g.cc) /\ consumePosCache' \in Positions /\ pPos' \in Positions
      /\ pLen' \in Lengths \cup {0}
  BY <1>1, <1>2, <1>4 DEF Places, TypeOK
<1>10. DOMAIN buffer' = Bytes /\ \A i \in Bytes : buffer'[i] \in Content
  BY <1>1, <1>4 DEF TypeOK, Content
<1>11. \A z \in g.c .. g.p - 1 : buffer'[Index(z)] = buffer[Index(z)]
  BY <1>4
<1> QED BY <1>1, <1>3, <1>4, <1>7, <1>8, <1>9, <1>10, <1>11, ProducerAlone

LEMMA ReloadStep ==
  ASSUME RecordsFit, NEW g, NEW at, Consistent(g, at), Reload
  PROVE  Invariant'
<1>1. /\ TypeOK /\ DOMAIN buffer = Bytes /\ variant \in Variants
      /\ g \in Ghosts /\ Places(g) /\ Order(g) /\ ProducerFrame(g)
  BY DEF Consistent, Described
<1>2. /\ pPc = "reload" /\ consumePosCache' = consumeSeen
      /\ pPc' = IF Fits(Used(producePos, consumeSeen), Rounded(pLen)) THEN "wrap" ELSE "idle"
      /\ UNCHANGED <<producePos, consumerLine, given, buffer, pLen, pPos, consumer, history>>
  BY DEF Reload
<1>4. UNCHANGED <<variant, producePos, produceSeen, consumeSeen, buffer, records>>
  BY <1>2 DEF given, history
<1>5. Masked' = Masked /\ Modulus' = Modulus /\ Limit' = Limit
  BY <1>4 DEF Masked, Modulus, Limit
<1>h. PICK h \in Ghosts : /\ h.p = g.p /\ h.ps = g.ps /\ h.c = g.c /\ h.cp = g.cp /\ h.cs = g.cs
                          /\ h.cc = g.cs
  <2>1. [g EXCEPT !.cc = g.cs] \in Ghosts
    BY <1>1 DEF Ghosts
  <2> QED BY <1>1, <2>1 DEF Ghosts
<1>6. pPc' = "wrap" => h.p + Rounded(pLen) <= h.cc + Limit
  <2>1. g.p \in Nat /\ g.cc \in Nat /\ g.cs \in Nat /\ g.cs <= g.p /\ g.cc <= g.cs
        /\ g.p <= g.cc + Limit /\ Limit \in Nat
    BY <1>1, Sizes DEF Ghosts, Order
  <2>2. g.p <= g.cs + Limit /\ pLen \in Lengths
    BY <1>1, <1>2, <2>1 DEF ProducerFrame
  <2> QED BY <1>1, <1>2, <1>h, <2>1, <2>2, RoomMeans DEF Places
<1>7. ProducerFrame(h)'
  BY <1>1, <1>2, <1>4, <1>5, <1>6 DEF ProducerFrame
<1>8. g.cc <= h.cc /\ h.cc <= h.cs
  BY <1>1, <1>h DEF Ghosts, Order
<1>9. consumePosCache' = Pos(h.cc) /\ consumePosCache' \in Positions /\ pPos' \in Positions
      /\ pLen' \in Lengths \cup {0}
  BY <1>1, <1>2, <1>4, <1>h DEF Places, TypeOK
<1>10. DOMAIN buffer' = Bytes /\ \A i \in Bytes : buffer'[i] \in Content
  BY <1>1, <1>4 DEF TypeOK, Content
<1>11. \A z \in g.c .. g.p - 1 : buffer'[Index(z)] = buffer[Index(z)]
  BY <1>4
<1> QED BY <1>1, <1>2, <1>4, <1>h, <1>7, <1>8, <1>9, <1>10, <1>11, ProducerAlone

LEMMA LengthWritten ==
  ASSUME RecordsFit, NEW g, NEW at, Consistent(g, at),
         pPc = "wrap", WrapDistance(pPos) >= Rounded(pLen), WriteLength, pLen' = pLen,
         UNCHANGED <<producerLine, consumerLine, given, consumer, history>>
  PROVE  Invariant'
<1>1. /\ TypeOK /\ DOMAIN buffer = Bytes /\ variant \in Variants
      /\ g \in Ghosts /\ Places(g) /\ Order(g) /\ ProducerFrame(g)
  BY DEF Consistent, Described
<1>2. /\ buffer' = [buffer EXCEPT ![Index(pPos)] = pLen] /\ pPc' = "fill" /\ pPos' = pPos
  BY DEF WriteLength, Write
<1>3. UNCHANGED <<variant, producePos, consumePosCache, produceSeen, consumeSeen, records>>
  BY DEF producerLine, given, history
<1>4. Masked' = Masked /\ Modulus' = Modulus /\ Limit' = Limit
  BY <1>3 DEF Masked, Modulus, Limit
<1>5. /\ pLen \in Lengths /\ pPos = Pos(g.p) /\ g.p + Rounded(pLen) <= g.cc + Limit
      /\ g.p \in Nat /\ g.cc \in Nat /\ g.c \in Nat
  BY <1>1 DEF ProducerFrame, Places, Ghosts
<1>6. /\ Index(pPos) = Index(g.p) /\ Index(g.p) \in Bytes
      /\ WrapDistance(g.p) >= Rounded(pLen) /\ Rounded(pLen) \in 1 .. Size
      /\ pLen \in Numbers /\ Limit \in Nat /\ Limit <= Size /\ Size \in Nat
  <2>1. WrapDistance(g.p) >= Rounded(pLen)
    BY <1>1, <1>5, IndexPos
  <2>2. pLen \in 1 .. Size - 1 /\ Rounded(pLen) \in 1 .. Size
    BY <1>5, RoundedFacts
  <2>3. pLen \in Numbers
    BY <1>1, <2>2, Sizes DEF Numbers
  <2> QED BY <1>1, <1>5, <2>1, <2>2, <2>3, IndexPos, Sizes
<1>7. DOMAIN buffer' = Bytes /\ \A i \in Bytes : buffer'[i] \in Content
  BY <1>1, <1>2, <1>6 DEF TypeOK, Content
<1>8. ASSUME NEW z \in g.c .. g.p - 1
      PROVE  buffer'[Index(z)] = buffer[Index(z)]
  <2>1. g.p <= g.p /\ g.p < g.cc + Size
    BY <1>5, <1>6
  <2>2. Index(z) # Index(g.p)
    BY <1>1, <1>5, <2>1, WriteBehind
  <2>3. z \in Nat
    BY <1>5
  <2>4. Index(z) \in Bytes
    BY <1>1, <2>3, IndexPos
  <2> QED BY <1>1, <1>2, <1>6, <2>2, <2>4
<1>9. ProducerFrame(g)'
  <2>1. buffer'[Index(g.p)] = pLen
    BY <1>1, <1>2, <1>6
  <2>2. /\ Reserved(g.p, g.p)' /\ pPos = Pos(g.p) /\ Pos(g.p)' = Pos(g.p)
        /\ buffer'[Index(g.p)] = pLen /\ WrapDistance(g.p) >= Rounded(pLen)
        /\ g.p + Rounded(pLen) <= g.cc + Limit
    BY <1>4, <1>5, <1>6, <2>1 DEF Reserved, Pos
  <2>3. \E a \in Nat : /\ Reserved(g.p, a)' /\ pPos' = Pos(a)'
                       /\ buffer'[Index(a)] = pLen' /\ WrapDistance(a) >= Rounded(pLen')
                       /\ a + Rounded(pLen') <= g.cc + Limit'
    BY <1>2, <1>4, <1>5, <2>2
  <2> QED BY <1>2, <1>5, <2>3 DEF ProducerFrame
<1>10. g.cc <= g.cc /\ g.cc <= g.cs
  BY <1>1 DEF Ghosts, Order
<1>11. consumePosCache' = Pos(g.cc) /\ consumePosCache' \in Positions /\ pPos' \in Positions
       /\ pLen' \in Lengths \cup {0}
  BY <1>1, <1>2, <1>3, <1>5 DEF Places, TypeOK
<1> QED BY <1>1, <1>3, <1>7, <1>8, <1>9, <1>10, <1>11, ProducerAlone

LEMMA MarkerWritten ==
  ASSUME RecordsFit, NEW g, NEW at, Consistent(g, at),
         NEW h \in Ghosts, h.p = g.p, h.ps = g.ps, h.c = g.c, h.cp = g.cp, h.cs = g.cs,
         g.cc <= h.cc, h.cc <= h.cs, consumePosCache' = Pos(h.cc),
         consumePosCache' \in Positions,
         pPc \in {"wrap", "reloadWrap"}, WrapDistance(pPos) < Rounded(pLen), WriteMarker,
         g.p + WrapDistance(g.p) + Rounded(pLen) <= h.cc + Limit,
         UNCHANGED <<pLen, producePos, consumerLine, given, consumer, history>>
  PROVE  Invariant'
<1>1. /\ TypeOK /\ DOMAIN buffer = Bytes /\ variant \in Variants
      /\ g \in Ghosts /\ Places(g) /\ Order(g) /\ ProducerFrame(g)
  BY DEF Consistent, Described
<1>2. /\ buffer' = [[buffer EXCEPT ![Index(pPos)] = -WrapDistance(pPos)] EXCEPT ![0] = pLen]
      /\ pPc' = "fill" /\ pPos' = Wrapped(pPos)
  BY DEF WriteMarker, Write
<1>3. UNCHANGED <<variant, pLen, producePos, produceSeen, consumeSeen, records>>
  BY DEF given, history
<1>4. Masked' = Masked /\ Modulus' = Modulus /\ Limit' = Limit
  BY <1>3 DEF Masked, Modulus, Limit
<1>5. /\ pLen \in Lengths /\ pPos = Pos(g.p) /\ g.p \in Nat /\ g.cc \in Nat /\ g.c \in Nat
      /\ h.cc \in Nat
  BY <1>1 DEF ProducerFrame, Places, Ghosts
<1>6. PICK w \in 1 .. Size, i \in 0 .. Size - 1 :
        w = WrapDistance(g.p) /\ i = Index(g.p) /\ w = Size - i
  BY <1>1, <1>5, IndexPos DEF Bytes
<1>7. /\ Index(pPos) = i /\ WrapDistance(pPos) = w /\ w < Rounded(pLen)
      /\ Rounded(pLen) \in 1 .. Size /\ pLen \in 1 .. Size - 1
      /\ Limit \in Nat /\ Limit <= Size /\ Size \in Nat
  BY <1>1, <1>5, <1>6, IndexPos, RoundedFacts, Sizes
<1>8. i # 0 /\ i \in Bytes /\ 0 \in Bytes /\ pLen \in Numbers /\ -w \in Numbers
  BY <1>6, <1>7 DEF Bytes, Numbers
<1>9. buffer'[i] = -w /\ buffer'[0] = pLen /\ DOMAIN buffer' = Bytes
      /\ \A j \in Bytes : j # i /\ j # 0 => buffer'[j] = buffer[j]
  BY <1>1, <1>2, <1>7, <1>8
<1>10. \A j \in Bytes : buffer'[j] \in Content
  BY <1>1, <1>8, <1>9 DEF TypeOK, Content
<1>11. g.p + w \in Nat /\ Index(g.p + w) = 0 /\ pPos' = Pos(g.p + w)
       /\ WrapDistance(g.p + w) = Size /\ g.p + w + Rounded(pLen) <= h.cc + Limit
  <2>1. Index(g.p + w) = 0 /\ pPos' = Pos(g.p + w)
    BY <1>1, <1>2, <1>5, <1>6, WrappedPos
  <2>2. WrapDistance(g.p + w) = Size
    BY <1>7, <2>1 DEF WrapDistance
  <2> QED BY <1>5, <1>6, <2>1, <2>2
<1>12. ASSUME NEW z \in g.c .. g.p - 1
       PROVE  buffer'[Index(z)] = buffer[Index(z)]
  <2>0. z \in Nat /\ z < g.p /\ g.cc <= z /\ h.cc <= z
    BY <1>1, <1>5 DEF Order, Ghosts
  <2>1. g.p < z + Size /\ g.p + w < z + Size /\ z < g.p + w
    BY <1>5, <1>6, <1>7, <1>11, <2>0
  <2>2. Index(z) # i
    BY <1>1, <1>5, <1>6, <1>7, <2>0, <2>1, Sizes, Apart DEF Index
  <2>3. Index(z) # 0
    BY <1>1, <1>7, <1>11, <2>0, <2>1, Sizes, Apart DEF Index
  <2>4. Index(z) \in Bytes
    BY <1>1, <2>0, IndexPos
  <2> QED BY <1>9, <2>2, <2>3, <2>4
<1>13. ProducerFrame(h)'
  <2>1. Marked(g.p)'
    BY <1>6, <1>8, <1>9 DEF Marked
  <2>2. Reserved(h.p, g.p + w)'
    BY <1>6, <2>1 DEF Reserved
  <2>3. WrapDistance(g.p + w) >= Rounded(pLen)
    BY <1>7, <1>11
  <2>4. \E a \in Nat : /\ Reserved(h.p, a)' /\ pPos' = Pos(a)'
                       /\ buffer'[Index(a)] = pLen' /\ WrapDistance(a) >= Rounded(pLen')
                       /\ a + Rounded(pLen') <= h.cc + Limit'
    BY <1>3, <1>4, <1>9, <1>11, <2>2, <2>3 DEF Pos
  <2> QED BY <1>2, <1>3, <1>5, <2>4 DEF ProducerFrame
<1>14. pPos' \in Positions /\ pLen' \in Lengths \cup {0}
  <2>1. pPos \in Positions
    BY <1>1 DEF TypeOK
  <2>2. Wrapped(pPos) \in Positions
    BY <1>1, <2>1, PositionsClosed
  <2> QED BY <1>2, <1>3, <1>5, <2>2
<1> QED BY <1>1, <1>3, <1>9, <1>10, <1>12, <1>13, <1>14, ProducerAlone

LEMMA WrapStep ==
  ASSUME RecordsFit, NEW g, NEW at, Consistent(g, at), Wrap
  PROVE  Invariant'
<1>1. /\ TypeOK /\ DOMAIN buffer = Bytes /\ variant \in Variants
      /\ g \in Ghosts /\ Places(g) /\ Order(g) /\ ProducerFrame(g)
  BY DEF Consistent, Described
<1>2. pPc = "wrap" /\ UNCHANGED <<producerLine, consumerLine, given, pLen, consumer, history>>
  BY DEF Wrap
<1>3. UNCHANGED <<variant, producePos, consumePosCache, produceSeen, consumeSeen, records>>
  BY <1>2 DEF producerLine, given, history
<1>4. Masked' = Masked /\ Modulus' = Modulus /\ Limit' = Limit /\ Cached' = Cached
  BY <1>3 DEF Masked, Modulus, Limit, Cached
<1>5. /\ pLen \in Lengths /\ pPos = producePos /\ producePos = Pos(g.p)
      /\ consumePosCache = Pos(g.cc) /\ g.p \in Nat /\ g.cc \in Nat
      /\ g.cc <= g.cs /\ g.cc <= g.p /\ g.p <= g.cc + Limit
  BY <1>1, <1>2 DEF ProducerFrame, Places, Ghosts, Order
<1>6. consumePosCache \in Positions /\ pPos \in Positions
  BY <1>1 DEF TypeOK
<1>7. CASE WrapDistance(pPos) >= Rounded(pLen) /\ WriteLength
  BY <1>2, <1>7, LengthWritten
<1>8. CASE /\ WrapDistance(pPos) < Rounded(pLen)
           /\ Fits(Skipping(consumePosCache), Rounded(pLen)) /\ WriteMarker
  <2>1. WrapDistance(pPos) = WrapDistance(g.p)
    BY <1>1, <1>5, IndexPos
  <2>2. g.p + WrapDistance(g.p) + Rounded(pLen) <= g.cc + Limit
    BY <1>1, <1>5, <1>8, <2>1, RoomMeans DEF Skipping
  <2>3. g.cc <= g.cc /\ consumePosCache' = Pos(g.cc) /\ consumePosCache' \in Positions
    BY <1>3, <1>5, <1>6
  <2> QED BY <1>1, <1>2, <1>3, <1>5, <1>8, <2>2, <2>3, MarkerWritten
<1>9. CASE /\ WrapDistance(pPos) < Rounded(pLen)
           /\ pPc' = IF Cached THEN "reloadWrap" ELSE "idle"
           /\ UNCHANGED <<buffer, pPos>>
  <2>1. ProducerFrame(g)'
    BY <1>2, <1>3, <1>4, <1>5, <1>9 DEF ProducerFrame
  <2>2. g.cc <= g.cc /\ consumePosCache' = Pos(g.cc) /\ consumePosCache' \in Positions
        /\ pPos' \in Positions /\ pLen' \in Lengths \cup {0}
    BY <1>2, <1>3, <1>5, <1>6, <1>9
  <2>3. DOMAIN buffer' = Bytes /\ \A i \in Bytes : buffer'[i] \in Content
    BY <1>1, <1>9 DEF TypeOK, Content
  <2>4. \A z \in g.c .. g.p - 1 : buffer'[Index(z)] = buffer[Index(z)]
    BY <1>9
  <2> QED BY <1>1, <1>2, <1>3, <1>5, <2>1, <2>2, <2>3, <2>4, ProducerAlone
<1> QED BY <1>2, <1>7, <1>8, <1>9 DEF Wrap

LEMMA ReloadWrapStep ==
  ASSUME RecordsFit, NEW g, NEW at, Consistent(g, at), ReloadWrap
  PROVE  Invariant'
<1>1. /\ TypeOK /\ DOMAIN buffer = Bytes /\ variant \in Variants
      /\ g \in Ghosts /\ Places(g) /\ Order(g) /\ ProducerFrame(g)
  BY DEF Consistent, Described
<1>2. /\ pPc = "reloadWrap" /\ consumePosCache' = consumeSeen
      /\ UNCHANGED <<producePos, consumerLine, given, pLen, consumer, history>>
  BY DEF ReloadWrap
<1>3. UNCHANGED <<variant, producePos, produceSeen, consumeSeen, records>>
  BY <1>2 DEF given, history
<1>h. PICK h \in Ghosts : /\ h.p = g.p /\ h.ps = g.ps /\ h.c = g.c /\ h.cp = g.cp /\ h.cs = g.cs
                          /\ h.cc = g.cs
  <2>1. [g EXCEPT !.cc = g.cs] \in Ghosts
    BY <1>1 DEF Ghosts
  <2> QED BY <1>1, <2>1 DEF Ghosts
<1>5. /\ pLen \in Lengths /\ pPos = producePos /\ producePos = Pos(g.p)
      /\ consumeSeen = Pos(h.cc) /\ g.p \in Nat /\ h.cc \in Nat
      /\ h.cc <= h.cs /\ g.cc <= h.cc /\ h.cc <= g.p
      /\ WrapDistance(pPos) < Rounded(pLen)
  BY <1>1, <1>2, <1>h DEF ProducerFrame, Places, Ghosts, Order
<1>a. g.p <= h.cc + Limit
  <2>1. g.cc \in Nat /\ g.cs \in Nat /\ g.cc <= g.cs /\ g.p <= g.cc + Limit /\ Limit \in Nat
    BY <1>1, Sizes DEF Ghosts, Order
  <2> QED BY <1>5, <1>h, <2>1
<1>6. consumePosCache' \in Positions /\ pPos \in Positions /\ consumePosCache' = Pos(h.cc)
  BY <1>1, <1>2, <1>5 DEF TypeOK
<1>8. CASE Fits(Skipping(consumeSeen), Rounded(pLen)) /\ WriteMarker
  <2>1. WrapDistance(pPos) = WrapDistance(g.p)
    BY <1>1, <1>5, IndexPos
  <2>2. g.p + WrapDistance(g.p) + Rounded(pLen) <= h.cc + Limit
    BY <1>1, <1>5, <1>a, <1>8, <2>1, RoomMeans DEF Skipping
  <2> QED BY <1>1, <1>2, <1>3, <1>h, <1>5, <1>6, <1>8, <2>2, MarkerWritten
<1>9. CASE pPc' = "idle" /\ UNCHANGED <<buffer, pPos>>
  <2>1. ProducerFrame(h)'
    BY <1>2, <1>5, <1>9 DEF ProducerFrame
  <2>2. pPos' \in Positions /\ pLen' \in Lengths \cup {0}
    BY <1>2, <1>5, <1>6, <1>9
  <2>3. DOMAIN buffer' = Bytes /\ \A i \in Bytes : buffer'[i] \in Content
    BY <1>1, <1>9 DEF TypeOK, Content
  <2>4. \A z \in g.c .. g.p - 1 : buffer'[Index(z)] = buffer[Index(z)]
    BY <1>9
  <2> QED BY <1>1, <1>2, <1>3, <1>h, <1>5, <1>6, <2>1, <2>2, <2>3, <2>4, ProducerAlone
<1> QED BY <1>8, <1>9 DEF ReloadWrap

\* Where the record is that the producer is writing.
LEMMA Writing ==
  ASSUME RecordsFit, NEW g, NEW at, Consistent(g, at), pPc \in {"fill", "publish"}
  PROVE  /\ pLen \in Lengths
         /\ \E a \in Nat : /\ Reserved(g.p, a) /\ pPos = Pos(a)
                           /\ buffer[Index(a)] = pLen /\ WrapDistance(a) >= Rounded(pLen)
                           /\ a + Rounded(pLen) <= g.cc + Limit /\ g.p <= a
                           /\ Start(g.p) = a
         /\ g.p \in Nat /\ g.cc \in Nat /\ g.c \in Nat /\ g.cc <= g.c /\ g.cc <= g.cs
<1>1. /\ variant \in Variants /\ g \in Ghosts /\ Order(g) /\ ProducerFrame(g)
  BY DEF Consistent, Described
<1>2. /\ pLen \in Lengths /\ g.p \in Nat /\ g.cc \in Nat /\ g.c \in Nat
      /\ g.cc <= g.c /\ g.cc <= g.cs
  BY <1>1 DEF ProducerFrame, Order, Ghosts
<1>3. PICK a \in Nat : /\ Reserved(g.p, a) /\ pPos = Pos(a)
                       /\ buffer[Index(a)] = pLen /\ WrapDistance(a) >= Rounded(pLen)
                       /\ a + Rounded(pLen) <= g.cc + Limit
  BY <1>1 DEF ProducerFrame
<1>4. WrapDistance(g.p) \in 1 .. Size
  BY <1>1, <1>2, IndexPos
<1>5. g.p <= a /\ Start(g.p) = a
  <2>1. CASE a = g.p
    <3>1. buffer[Index(g.p)] >= 0
      BY <1>1, <1>2, <1>3, <2>1, RoundedFacts, Sizes
    <3> QED BY <1>2, <2>1, <3>1 DEF Start
  <2>2. CASE Marked(g.p) /\ a = g.p + WrapDistance(g.p)
    <3>1. ~(buffer[Index(g.p)] >= 0)
      BY <1>1, <1>4, <2>2, Sizes DEF Marked
    <3> QED BY <1>1, <1>2, <1>4, <2>2, <3>1, Sizes DEF Start
  <2> QED BY <1>3, <2>1, <2>2 DEF Reserved
<1> QED BY <1>2, <1>3, <1>5

LEMMA FillStep ==
  ASSUME RecordsFit, NEW g, NEW at, Consistent(g, at), Fill
  PROVE  Invariant'
<1>1. /\ TypeOK /\ DOMAIN buffer = Bytes /\ variant \in Variants
      /\ g \in Ghosts /\ Places(g) /\ Order(g) /\ ProducerFrame(g)
  BY DEF Consistent, Described
<1>2. /\ pPc = "fill" /\ pPc' = "publish"
      /\ UNCHANGED <<producerLine, consumerLine, given, pLen, pPos, consumer, history>>
  BY DEF Fill
<1>3. UNCHANGED <<variant, producePos, consumePosCache, produceSeen, consumeSeen, records>>
  BY <1>2 DEF producerLine, given, history
<1>4. Masked' = Masked /\ Modulus' = Modulus /\ Limit' = Limit
  BY <1>3 DEF Masked, Modulus, Limit
<1>5. PICK e \in Elem :
        buffer' = [i \in Bytes |-> IF i \in Payload(pPos, pLen) THEN e ELSE buffer[i]]
  BY DEF Fill
<1>6. /\ pLen \in Lengths /\ g.p \in Nat /\ g.cc \in Nat /\ g.c \in Nat
      /\ g.cc <= g.c /\ g.cc <= g.cs
  BY <1>2, Writing
<1>7. PICK a \in Nat : /\ Reserved(g.p, a) /\ pPos = Pos(a)
                       /\ buffer[Index(a)] = pLen /\ WrapDistance(a) >= Rounded(pLen)
                       /\ a + Rounded(pLen) <= g.cc + Limit /\ g.p <= a
                       /\ Start(g.p) = a
  BY <1>2, Writing
<1>8. PICK R \in 1 .. Size : R = Rounded(pLen)
  BY <1>6, RoundedFacts
<1>9. Limit \in Nat /\ Limit <= Size /\ Size \in Nat \ {0}
  BY <1>1, Sizes
<1>10. /\ Payload(pPos, pLen) = Payload(a, pLen)
       /\ Index(a) + Header \in Payload(a, pLen) /\ Payload(a, pLen) \subseteq Bytes
       /\ \A i \in Payload(a, pLen) : \E y \in a + 1 .. a + R - 1 : i = Index(y)
  BY <1>1, <1>6, <1>7, <1>8, ExtentFacts
<1>11. ASSUME NEW z \in Nat, g.cc <= z, z <= a
       PROVE  Index(z) \notin Payload(a, pLen) /\ buffer'[Index(z)] = buffer[Index(z)]
  <2>1. ASSUME NEW y \in a + 1 .. a + R - 1
        PROVE  Index(z) # Index(y)
    <3>1. y \in Nat /\ z < y /\ y < z + Size
      BY <1>6, <1>7, <1>8, <1>9, <1>11
    <3> QED BY <1>9, <3>1, Apart DEF Index
  <2>2. Index(z) \notin Payload(a, pLen)
    BY <1>10, <2>1
  <2>3. Index(z) \in Bytes
    BY <1>1, IndexPos
  <2> QED BY <1>5, <1>10, <2>2, <2>3
<1>12. \A z \in g.c .. g.p - 1 : buffer'[Index(z)] = buffer[Index(z)]
  <2> SUFFICES ASSUME NEW z \in g.c .. g.p - 1
               PROVE  buffer'[Index(z)] = buffer[Index(z)]
    OBVIOUS
  <2>1. z \in Nat /\ g.cc <= z /\ z <= a
    BY <1>6, <1>7
  <2> QED BY <1>11, <2>1
<1>13. DOMAIN buffer' = Bytes /\ \A i \in Bytes : buffer'[i] \in Content
  BY <1>1, <1>5 DEF TypeOK, Content
<1>14. buffer'[Index(a)] = pLen /\ buffer'[Index(g.p)] = buffer[Index(g.p)]
  <2>1. g.cc <= a /\ a <= a /\ g.cc <= g.p
    BY <1>1, <1>6, <1>7 DEF Order, Ghosts
  <2> QED BY <1>6, <1>7, <1>11, <2>1
<1>15. RecordAt(pPos, pLen)'.data = {e}
  <2>1. RecordAt(pPos, pLen)'.data = {buffer'[i] : i \in Payload(a, pLen)}
    BY <1>2, <1>10 DEF RecordAt, Payload
  <2>2. \A i \in Payload(a, pLen) : buffer'[i] = e
    BY <1>5, <1>10
  <2> QED BY <1>10, <2>1, <2>2
<1>16. ProducerFrame(g)'
  <2>1. Reserved(g.p, a)'
    BY <1>7, <1>14 DEF Reserved, Marked
  <2>2. Pos(a)' = Pos(a)
    BY <1>4 DEF Pos
  <2>3. \E b \in Nat : /\ Reserved(g.p, b)' /\ pPos' = Pos(b)'
                       /\ buffer'[Index(b)] = pLen' /\ WrapDistance(b) >= Rounded(pLen')
                       /\ b + Rounded(pLen') <= g.cc + Limit'
    BY <1>2, <1>4, <1>7, <1>14, <2>1, <2>2
  <2>4. \E d \in Elem : RecordAt(pPos, pLen)'.data = {d}
    BY <1>15
  <2> QED BY <1>2, <1>6, <2>3, <2>4 DEF ProducerFrame
<1>17. g.cc <= g.cc /\ g.cc <= g.cs /\ consumePosCache' = Pos(g.cc)
       /\ consumePosCache' \in Positions /\ pPos' \in Positions /\ pLen' \in Lengths \cup {0}
  BY <1>1, <1>2, <1>3, <1>6 DEF Places, TypeOK
<1> QED BY <1>1, <1>2, <1>3, <1>12, <1>13, <1>16, <1>17, ProducerAlone

LEMMA RefuseStep ==
  ASSUME RecordsFit, NEW g, NEW at, Consistent(g, at), Refuse
  PROVE  Invariant'
<1>1. /\ TypeOK /\ DOMAIN buffer = Bytes /\ variant \in Variants
      /\ g \in Ghosts /\ Places(g) /\ Order(g) /\ ProducerFrame(g)
  BY DEF Consistent, Described
<1>2. /\ pPc' = "idle"
      /\ UNCHANGED <<producerLine, consumerLine, given, buffer, pLen, pPos, consumer, history>>
  BY DEF Refuse
<1>3. UNCHANGED <<variant, producePos, consumePosCache, produceSeen, consumeSeen, records>>
  BY <1>2 DEF producerLine, given, history
<1>4. ProducerFrame(g)'
  BY <1>2 DEF ProducerFrame
<1>5. g.cc <= g.cc /\ g.cc <= g.cs /\ consumePosCache' = Pos(g.cc)
      /\ consumePosCache' \in Positions /\ pPos' \in Positions /\ pLen' \in Lengths \cup {0}
  BY <1>1, <1>2, <1>3 DEF Places, TypeOK, Order, Ghosts
<1>6. DOMAIN buffer' = Bytes /\ \A i \in Bytes : buffer'[i] \in Content
  BY <1>1, <1>2 DEF TypeOK, Content
<1>7. \A z \in g.c .. g.p - 1 : buffer'[Index(z)] = buffer[Index(z)]
  BY <1>2
<1> QED BY <1>1, <1>2, <1>3, <1>4, <1>5, <1>6, <1>7, ProducerAlone

\* What is published is a whole record, right behind the last.
LEMMA Published ==
  ASSUME RecordsFit, NEW g, NEW at, Consistent(g, at), pPc = "publish"
  PROVE  /\ RecordAt(pPos, pLen) \in Whole
         /\ \E q \in Nat : /\ Link(g.p, q, RecordAt(pPos, pLen))
                           /\ Advance(pPos, Rounded(pLen)) = Pos(q)
                           /\ Advance(pPos, Rounded(pLen)) \in Positions
                           /\ q <= g.cc + Limit /\ g.p <= q
<1>1. /\ TypeOK /\ variant \in Variants /\ ProducerFrame(g)
  BY DEF Consistent, Described
<1>2. pLen \in Lengths /\ g.p \in Nat /\ g.cc \in Nat
  BY Writing
<1>3. PICK a \in Nat : /\ Reserved(g.p, a) /\ pPos = Pos(a)
                       /\ buffer[Index(a)] = pLen /\ WrapDistance(a) >= Rounded(pLen)
                       /\ a + Rounded(pLen) <= g.cc + Limit /\ g.p <= a
                       /\ Start(g.p) = a
  BY Writing
<1>4. Rounded(pLen) \in 1 .. Size /\ Rounded(pLen) % Align = 0 /\ Size \in Nat
  BY <1>1, <1>2, RoundedFacts, Sizes
<1>5. a + Rounded(pLen) \in Nat /\ g.p <= a + Rounded(pLen) /\ Rounded(pLen) \in 0 .. Size
  BY <1>2, <1>3, <1>4
<1>6. Advance(pPos, Rounded(pLen)) = Pos(a + Rounded(pLen))
  BY <1>1, <1>3, <1>5, AdvancePos
<1>7. Advance(pPos, Rounded(pLen)) \in Positions
  <2>1. pPos \in Positions
    BY <1>1 DEF TypeOK
  <2>2. WrapDistance(pPos) = WrapDistance(a) /\ WrapDistance(a) \in 1 .. Size
    BY <1>1, <1>3, IndexPos
  <2>3. Rounded(pLen) <= WrapDistance(pPos)
    BY <1>3, <1>4, <2>2
  <2> QED BY <1>1, <1>4, <1>5, <2>1, <2>3, PositionsClosed
<1>8. RecordAt(pPos, pLen).length = pLen /\ RecordAt(pPos, pLen) \in Whole
  <2>1. PICK e \in Elem : RecordAt(pPos, pLen).data = {e}
    BY <1>1 DEF ProducerFrame
  <2> QED BY <1>2, <2>1 DEF Whole, RecordAt
<1>9. RecordAt(a, pLen) = RecordAt(pPos, pLen)
  <2>1. Index(pPos) = Index(a)
    BY <1>1, <1>3, IndexPos
  <2> QED BY <2>1, SameRecord
<1>10. buffer[Index(g.p)] \in Lengths \/ Marked(g.p)
  BY <1>2, <1>3 DEF Reserved
<1>11. Link(g.p, a + Rounded(pLen), RecordAt(pPos, pLen))
  BY <1>2, <1>3, <1>8, <1>9, <1>10 DEF Link
<1> QED BY <1>3, <1>5, <1>6, <1>7, <1>8, <1>11

LEMMA PublishStep ==
  ASSUME RecordsFit, NEW g, NEW at, Consistent(g, at), Publish
  PROVE  Invariant'
<1>1. /\ TypeOK /\ DOMAIN buffer = Bytes /\ variant \in Variants /\ records \in Seq(Whole)
      /\ g \in Ghosts /\ Places(g) /\ Order(g) /\ Chain(g, at)
      /\ ProducerFrame(g) /\ ConsumerFrame(g, at)
  BY DEF Consistent, Described
<1>2. /\ pPc = "publish" /\ pPc' = "idle" /\ producePos' = Advance(pPos, Rounded(pLen))
      /\ records' = Append(records, RecordAt(pPos, pLen))
      /\ UNCHANGED <<consumePosCache, consumerLine, given, buffer, pLen, pPos, consumer, out>>
  BY DEF Publish
<1>3. UNCHANGED <<variant, produceSeen, consumeSeen, consumePos, producePosCache,
                  cPc, cPos, cGoal>>
  BY <1>2 DEF consumerLine, given, consumer
<1>4. Masked' = Masked /\ Modulus' = Modulus /\ Limit' = Limit
  BY <1>3 DEF Masked, Modulus, Limit
<1>5. PICK r \in Whole : r = RecordAt(pPos, pLen)
  BY <1>2, Published
<1>6. PICK q \in Nat : /\ Link(g.p, q, r) /\ producePos' = Pos(q) /\ producePos' \in Positions
                       /\ q <= g.cc + Limit /\ g.p <= q
  BY <1>2, <1>5, Published
<1>h. PICK h \in Ghosts : /\ h.p = q /\ h.ps = g.ps /\ h.c = g.c /\ h.cp = g.cp /\ h.cs = g.cs
                          /\ h.cc = g.cc
  <2>1. [g EXCEPT !.p = q] \in Ghosts
    BY <1>1 DEF Ghosts
  <2> QED BY <1>1, <2>1 DEF Ghosts
<1>b. PICK bt : bt = [k \in 0 .. Len(records) + 1 |-> IF k <= Len(records) THEN at[k] ELSE q]
  OBVIOUS
<1>7. Chain(h, bt)' /\ Len(records') = Len(records) + 1
  BY <1>1, <1>2, <1>5, <1>6, <1>h, <1>b, ChainAppended
<1>8. records' \in Seq(Whole)
  BY <1>1, <1>2, <1>5
<1>9. ConsumerFrame(h, bt)'
  <2>1. g.c \in Nat /\ g.ps \in Nat /\ h.ps \in Nat /\ g.ps <= h.ps
    BY <1>1, <1>h DEF Ghosts
  <2>2. Len(records) \in Nat /\ \A k \in 0 .. Len(records) : at[k] \in Nat
    BY <1>1, Ascends
  <2>3. \A k \in 0 .. Len(records) : /\ k \in 0 .. Len(records')
                                     /\ bt[k] = at[k] /\ at[k] \in Nat
    BY <1>7, <1>b, <2>2
  <2> QED BY <1>1, <1>3, <1>h, <2>1, <2>3, ConsumerSame DEF consumer
<1>10. ProducerFrame(h)'
  BY <1>2 DEF ProducerFrame
<1>11. Order(h)'
  <2>1. g.p \in Nat /\ g.ps \in Nat /\ g.ps <= g.p
    BY <1>1 DEF Order, Ghosts
  <2>2. g.ps <= q
    BY <1>6, <2>1
  <2> QED BY <1>1, <1>4, <1>6, <1>h, <2>2 DEF Order
<1>12. Places(h)'
  BY <1>1, <1>2, <1>3, <1>4, <1>6, <1>h DEF Places, Pos
<1>13. TypeOK'
  BY <1>1, <1>2, <1>3, <1>4, <1>6 DEF TypeOK, Positions
<1> QED BY <1>1, <1>2, <1>3, <1>7, <1>8, <1>9, <1>10, <1>11, <1>12, <1>13
        DEF Invariant, Consistent, Described

-----------------------------------------------------------------------------
(* consume and consume_all.                                                *)

\* Whoever is about to read has a whole record before it.
LEMMA Reading ==
  ASSUME NEW g, NEW at, Consistent(g, at), ConsumerReads
  PROVE  /\ cPos = Pos(g.c) /\ g.c < g.ps /\ Len(records) \in Nat /\ Len(records) # 0
         /\ records[1] \in Whole /\ at[1] <= g.ps /\ at[1] \in Nat /\ g.c \in Nat /\ g.ps \in Nat
         /\ Link(g.c, at[1], records[1])
         /\ cPc = "drain" =>
              \E k \in 0 .. Len(records) : k # 0 /\ cGoal = Pos(at[k]) /\ at[k] <= g.ps
<1>1. /\ variant \in Variants /\ records \in Seq(Whole) /\ g \in Ghosts /\ Order(g)
      /\ Chain(g, at) /\ ConsumerFrame(g, at)
  BY DEF Consistent, Described
<1>2. /\ Len(records) \in Nat /\ 0 \in 0 .. Len(records) /\ g.c \in Nat /\ g.ps \in Nat
      /\ at[0] = g.c
      /\ \A k \in 0 .. Len(records) : at[k] \in Nat /\ g.c <= at[k] /\ at[k] <= g.p
      /\ \A j, k \in 0 .. Len(records) : j < k => at[j] < at[k]
  BY <1>1, Ascends DEF Chain, Ghosts
<1>3. cPos = Pos(g.c)
  BY <1>1 DEF ConsumerReads, ConsumerFrame
<1>4. ASSUME cPc = "drain"
      PROVE  \E k \in 0 .. Len(records) : k # 0 /\ cGoal = Pos(at[k]) /\ at[k] <= g.ps
  <2>1. PICK k \in 0 .. Len(records) : cGoal = Pos(at[k]) /\ at[k] <= g.ps
    BY <1>1, <1>4 DEF ConsumerFrame
  <2>2. cPos # cGoal
    BY <1>4 DEF ConsumerReads
  <2> QED BY <1>2, <1>3, <2>1, <2>2
<1>5. g.c < g.ps
  <2>1. CASE cPc = "take"
    BY <1>1, <2>1 DEF ConsumerFrame
  <2>2. CASE cPc = "drain"
    <3>1. PICK k \in 0 .. Len(records) : k # 0 /\ cGoal = Pos(at[k]) /\ at[k] <= g.ps
      BY <1>4, <2>2
    <3>2. at[0] < at[k] /\ at[k] \in Nat
      BY <1>2, <3>1
    <3> QED BY <1>2, <3>1, <3>2
  <2> QED BY <2>1, <2>2 DEF ConsumerReads
<1>6. PICK i \in 0 .. Len(records) : at[i] = g.ps
  BY <1>1 DEF Chain
<1>7. i # 0 /\ 1 \in 1 .. Len(records) /\ 1 \in 0 .. Len(records) /\ (1 < i \/ 1 = i)
  BY <1>2, <1>5, <1>6
<1>8. at[1] <= g.ps /\ at[1] \in Nat
  BY <1>2, <1>6, <1>7
<1>9. Link(g.c, at[1], records[1])
  <2>1. Link(at[1 - 1], at[1], records[1])
    BY <1>1, <1>7 DEF Chain
  <2>2. 1 - 1 = 0
    OBVIOUS
  <2> QED BY <1>2, <2>1, <2>2
<1>10. records[1] \in Whole
  BY <1>1, <1>7
<1> QED BY <1>2, <1>3, <1>4, <1>5, <1>7, <1>8, <1>9, <1>10

LEMMA ConsumeStep ==
  ASSUME NEW g, NEW at, Consistent(g, at), Consume
  PROVE  Invariant'
<1>1. /\ TypeOK /\ variant \in Variants /\ records \in Seq(Whole)
      /\ g \in Ghosts /\ Places(g) /\ Order(g) /\ Chain(g, at) /\ ConsumerFrame(g, at)
  BY DEF Consistent, Described
<1>2. /\ cPc = "idle" /\ "consume" \in ConsumerOps /\ cPos' = consumePos
      /\ cPc' = IF Cached /\ producePosCache # consumePos THEN "take" ELSE "reload"
      /\ UNCHANGED <<producerLine, consumerLine, given, buffer, producer, cGoal, history>>
  BY DEF Consume
<1>3. UNCHANGED <<variant, produceSeen, consumeSeen, consumePos, producePosCache, records>>
  BY <1>2 DEF consumerLine, given, history
<1>4. /\ Modulus' = Modulus /\ Cached' = Cached /\ ConsumerOps' = ConsumerOps
  BY <1>3 DEF Masked, Modulus, Cached, ConsumerOps
<1>5. /\ g.c = g.cp /\ consumePos = Pos(g.c) /\ at[0] = g.c /\ g.c \in Nat /\ g.ps \in Nat
      /\ g.c <= g.ps
      /\ \A j, k \in 0 .. Len(records) : j < k => at[j] < at[k]
      /\ Len(records) \in Nat /\ \A k \in 0 .. Len(records) : at[k] \in Nat
  BY <1>1, <1>2, Ascends DEF ConsumerFrame, Places, Chain, Order, Ghosts
<1>6. cPc' = "take" => Cached /\ producePosCache # consumePos
  BY <1>2
<1>7. ASSUME Cached
      PROVE  \E k \in 0 .. Len(records) : /\ producePosCache = Pos(at[k]) /\ at[k] <= g.ps
                                          /\ cPc' = "take" => k # 0 /\ g.c < g.ps
  <2>1. PICK k \in 0 .. Len(records) : producePosCache = Pos(at[k]) /\ at[k] <= g.ps
    BY <1>1, <1>2, <1>7 DEF ConsumerFrame
  <2>2. cPc' = "take" => k # 0
    BY <1>5, <1>6, <2>1
  <2>3. k # 0 => at[0] < at[k] /\ at[k] \in Nat
    BY <1>5
  <2> QED BY <1>5, <2>1, <2>2, <2>3
<1>8. ConsumerFrame(g, at)'
  <2>1. cPc' \in {"take", "reload"}
    BY <1>2
  <2>2. cPc' = "take" => g.c < g.ps
    BY <1>6, <1>7
  <2>3. Cached => \E k \in 0 .. Len(records) : /\ producePosCache = Pos(at[k]) /\ at[k] <= g.ps
                                               /\ cPc' = "take" => k # 0
    BY <1>7
  <2> QED BY <1>2, <1>3, <1>4, <1>5, <2>1, <2>2, <2>3 DEF ConsumerFrame, Pos
<1>9. Chain(g, at)'
  <2>1. \E k \in 0 .. Len(records) : at[k] = g.ps
    BY <1>1 DEF Chain
  <2>2. records' = records /\ buffer' = buffer
    BY <1>2, <1>3
  <2> QED BY <1>1, <2>1, <2>2, ChainSame
<1>10. /\ g.cp <= g.cp /\ g.cp <= g.c /\ consumePos' = Pos(g.cp) /\ consumePos' \in Positions
       /\ producePosCache' \in Positions /\ cPos' \in Positions /\ cGoal' \in Positions
       /\ records' \in Seq(Whole)
  BY <1>1, <1>2, <1>3, <1>5 DEF TypeOK, Ghosts
<1> QED BY <1>1, <1>2, <1>3, <1>5, <1>8, <1>9, <1>10, ConsumerAlone

LEMMA ReloadProducePosStep ==
  ASSUME NEW g, NEW at, Consistent(g, at), ReloadProducePos
  PROVE  Invariant'
<1>1. /\ TypeOK /\ variant \in Variants /\ records \in Seq(Whole)
      /\ g \in Ghosts /\ Places(g) /\ Order(g) /\ Chain(g, at) /\ ConsumerFrame(g, at)
  BY DEF Consistent, Described
<1>2. /\ cPc = "reload"
      /\ producePosCache' = IF Cached THEN produceSeen ELSE producePosCache
      /\ cPc' = IF produceSeen = cPos THEN "idle" ELSE "take"
      /\ UNCHANGED <<producerLine, consumePos, given, buffer, producer, cPos, cGoal, history>>
  BY DEF ReloadProducePos
<1>3. UNCHANGED <<variant, produceSeen, consumeSeen, records>>
  BY <1>2 DEF given, history
<1>4. /\ Modulus' = Modulus /\ Cached' = Cached /\ ConsumerOps' = ConsumerOps
  BY <1>3 DEF Masked, Modulus, Cached, ConsumerOps
<1>5. /\ g.c = g.cp /\ cPos = Pos(g.c) /\ produceSeen = Pos(g.ps) /\ at[0] = g.c
      /\ g.c \in Nat /\ g.ps \in Nat /\ g.c <= g.ps
  BY <1>1, <1>2 DEF ConsumerFrame, Places, Chain, Order, Ghosts
<1>6. cPc' = "take" => g.c < g.ps
  BY <1>2, <1>5
<1>7. PICK k \in 0 .. Len(records) : at[k] = g.ps
  BY <1>1 DEF Chain
<1>8. ConsumerFrame(g, at)'
  <2>1. cPc' \in {"take", "idle"}
    BY <1>2
  <2>2. Cached => producePosCache' = Pos(at[k]) /\ at[k] <= g.ps
    BY <1>2, <1>5, <1>7
  <2>3. cPc' = "take" => k # 0
    BY <1>5, <1>6, <1>7
  <2> QED BY <1>2, <1>3, <1>4, <1>5, <1>6, <2>1, <2>2, <2>3 DEF ConsumerFrame, Pos
<1>9. Chain(g, at)'
  <2>1. \E i \in 0 .. Len(records) : at[i] = g.ps
    BY <1>1 DEF Chain
  <2>2. records' = records /\ buffer' = buffer
    BY <1>2, <1>3
  <2> QED BY <1>1, <2>1, <2>2, ChainSame
<1>10. /\ g.cp <= g.cp /\ g.cp <= g.c /\ consumePos' = Pos(g.cp) /\ consumePos' \in Positions
       /\ producePosCache' \in Positions /\ cPos' \in Positions /\ cGoal' \in Positions
       /\ records' \in Seq(Whole)
  BY <1>1, <1>2, <1>3, <1>5 DEF TypeOK, Ghosts, Places
<1> QED BY <1>1, <1>2, <1>3, <1>5, <1>8, <1>9, <1>10, ConsumerAlone

\* Behind the record that is taken everything is as it was.
LEMMA Taken ==
  ASSUME RecordsFit,
         NEW g, NEW at, Consistent(g, at), ConsumerReads, HandOver, buffer' = buffer,
         NEW h \in Ghosts, h.p = g.p, h.ps = g.ps, h.cs = g.cs, h.cc = g.cc, h.cp = g.cp,
         h.c = at[1],
         NEW bt, bt = [k \in 0 .. Len(records) - 1 |-> at[k + 1]]
  PROVE  /\ Chain(h, bt)' /\ Len(records') = Len(records) - 1 /\ records' \in Seq(Whole)
         /\ h.cp <= h.c /\ h.c <= h.ps
         /\ \A k \in 0 .. Len(records) :
              k # 0 => k - 1 \in 0 .. Len(records') /\ bt[k - 1] = at[k]
         /\ Advance(Unmarked(cPos), Rounded(LengthAt(cPos))) = Pos(at[1])
         /\ Advance(Unmarked(cPos), Rounded(LengthAt(cPos))) \in Positions
         /\ out' = records[1]
<1>1. /\ TypeOK /\ variant \in Variants /\ records \in Seq(Whole) /\ g \in Ghosts
      /\ Order(g) /\ Chain(g, at)
  BY DEF Consistent, Described
<1>2. /\ cPos = Pos(g.c) /\ g.c < g.ps /\ Len(records) \in Nat /\ Len(records) # 0
      /\ records[1] \in Whole /\ at[1] <= g.ps /\ at[1] \in Nat /\ g.c \in Nat /\ g.ps \in Nat
      /\ Link(g.c, at[1], records[1])
  BY Reading
<1>3. records' = SubSeq(records, 2, Len(records))
      /\ out' = RecordAt(Unmarked(cPos), LengthAt(cPos))
  BY DEF HandOver
<1>4. Chain(h, bt)' /\ Len(records') = Len(records) - 1
  BY <1>1, <1>2, <1>3, ChainShortened
<1>5. records' \in Seq(Whole)
  BY <1>1, <1>3
<1>6. h.cp <= h.c
  <2>1. g.cp \in Nat /\ g.cp <= g.c
    BY <1>1 DEF Order, Ghosts
  <2>2. g.c + Align <= at[1]
    BY <1>1, <1>2, LinkFacts
  <2> QED BY <1>1, <1>2, <2>1, <2>2, Sizes
<1>7. ASSUME NEW k \in 0 .. Len(records), k # 0
      PROVE  k - 1 \in 0 .. Len(records') /\ bt[k - 1] = at[k]
  <2>1. k - 1 \in 0 .. Len(records) - 1 /\ (k - 1) + 1 = k
    BY <1>2, <1>7
  <2> QED BY <1>4, <2>1
<1>8. /\ LengthAt(cPos) = records[1].length
      /\ RecordAt(Unmarked(cPos), LengthAt(cPos)) = records[1]
      /\ Advance(Unmarked(cPos), Rounded(LengthAt(cPos))) = Pos(at[1])
      /\ records[1].length \in Lengths
      /\ at[1] = Start(g.c) + Rounded(records[1].length)
      /\ buffer[Index(g.c)] \in Lengths \/ Marked(g.c)
      /\ WrapDistance(Start(g.c)) >= Rounded(records[1].length)
  BY <1>1, <1>2, LinkFacts DEF Link
<1>9. Advance(Unmarked(cPos), Rounded(LengthAt(cPos))) \in Positions
  <2>1. /\ Start(g.c) \in Nat /\ Unmarked(cPos) = Pos(Start(g.c))
        /\ Unmarked(cPos) = Pos(g.c) \/ Unmarked(cPos) = Wrapped(Pos(g.c))
    BY <1>1, <1>2, <1>8, StartFacts
  <2>2. Pos(g.c) \in Positions
    BY <1>1, <1>2 DEF TypeOK
  <2>3. Unmarked(cPos) \in Positions
    BY <1>1, <2>1, <2>2, PositionsClosed
  <2>4. WrapDistance(Unmarked(cPos)) = WrapDistance(Start(g.c))
    BY <1>1, <2>1, IndexPos
  <2>5. Rounded(LengthAt(cPos)) \in 0 .. Size /\ Rounded(LengthAt(cPos)) % Align = 0
        /\ Rounded(LengthAt(cPos)) <= WrapDistance(Unmarked(cPos))
    <3>1. Rounded(records[1].length) \in 1 .. Size /\ Rounded(records[1].length) % Align = 0
          /\ WrapDistance(Start(g.c)) \in 1 .. Size
      BY <1>1, <1>8, <2>1, RoundedFacts, IndexPos
    <3>2. PICK R \in 1 .. Size, w \in 1 .. Size :
            R = Rounded(LengthAt(cPos)) /\ w = WrapDistance(Unmarked(cPos)) /\ w >= R
      BY <1>8, <2>4, <3>1
    <3>3. R <= w /\ R \in 0 .. Size
      BY <1>1, <3>2, Sizes
    <3> QED BY <1>8, <3>1, <3>2, <3>3
  <2> QED BY <1>1, <2>3, <2>5, PositionsClosed
<1> QED BY <1>2, <1>3, <1>4, <1>5, <1>6, <1>7, <1>8, <1>9

LEMMA TakeStep ==
  ASSUME RecordsFit, NEW g, NEW at, Consistent(g, at), Take
  PROVE  Invariant'
<1>1. /\ TypeOK /\ variant \in Variants /\ records \in Seq(Whole)
      /\ g \in Ghosts /\ Places(g) /\ Order(g) /\ Chain(g, at) /\ ConsumerFrame(g, at)
  BY DEF Consistent, Described
<1>2. /\ cPc = "take" /\ HandOver /\ cPc' = "release"
      /\ cPos' = Advance(Unmarked(cPos), Rounded(LengthAt(cPos)))
      /\ UNCHANGED <<producerLine, consumerLine, given, buffer, producer, cGoal>>
  BY DEF Take
<1>3. UNCHANGED <<variant, produceSeen, consumeSeen, consumePos, producePosCache>>
  BY <1>2 DEF consumerLine, given
<1>4. /\ Modulus' = Modulus /\ Cached' = Cached /\ ConsumerOps' = ConsumerOps
  BY <1>3 DEF Masked, Modulus, Cached, ConsumerOps
<1>5. ConsumerReads
  BY <1>2 DEF ConsumerReads
<1>6. at[1] \in Nat
  BY <1>5, Reading
<1>h. PICK h \in Ghosts : /\ h.p = g.p /\ h.ps = g.ps /\ h.c = at[1] /\ h.cp = g.cp
                          /\ h.cs = g.cs /\ h.cc = g.cc
  <2>1. [g EXCEPT !.c = at[1]] \in Ghosts
    BY <1>1, <1>6 DEF Ghosts
  <2> QED BY <1>1, <2>1 DEF Ghosts
<1>b. PICK bt : bt = [k \in 0 .. Len(records) - 1 |-> at[k + 1]]
  OBVIOUS
<1>7. /\ Chain(h, bt)' /\ records' \in Seq(Whole) /\ h.cp <= h.c /\ h.c <= h.ps
      /\ \A k \in 0 .. Len(records) :
           k # 0 => k - 1 \in 0 .. Len(records') /\ bt[k - 1] = at[k]
      /\ cPos' = Pos(h.c) /\ cPos' \in Positions
  <2>1. buffer' = buffer
    BY <1>2
  <2> QED BY <1>2, <1>5, <1>h, <1>b, <2>1, Taken
<1>8. ConsumerFrame(h, bt)'
  <2>1. Cached /\ "consume" \in ConsumerOps =>
          \E k \in 0 .. Len(records') : producePosCache = Pos(bt[k]) /\ bt[k] <= h.ps
    <3> SUFFICES ASSUME Cached, "consume" \in ConsumerOps
                 PROVE  \E k \in 0 .. Len(records') :
                          producePosCache = Pos(bt[k]) /\ bt[k] <= h.ps
      OBVIOUS
    <3>1. PICK k \in 0 .. Len(records) : /\ producePosCache = Pos(at[k]) /\ at[k] <= g.ps
                                         /\ k # 0
      BY <1>1, <1>2 DEF ConsumerFrame
    <3> QED BY <1>7, <1>h, <3>1
  <2> QED BY <1>2, <1>3, <1>4, <1>7, <2>1 DEF ConsumerFrame, Pos
<1>10. /\ g.cp <= h.cp /\ consumePos' = Pos(h.cp) /\ consumePos' \in Positions
       /\ producePosCache' \in Positions /\ cGoal' \in Positions
  BY <1>1, <1>2, <1>3, <1>h DEF TypeOK, Ghosts, Places
<1> QED BY <1>1, <1>2, <1>3, <1>h, <1>7, <1>8, <1>10, ConsumerAlone

LEMMA Mixed ==
  ASSUME Mixes, variant \in Variants, "consume_all" \in ConsumerOps
  PROVE  Masked /\ ~(Cached /\ "consume" \in ConsumerOps)
BY DEF Mixes, Masked, Cached, ConsumerOps

LEMMA ConsumeAllStep ==
  ASSUME Mixes, NEW g, NEW at, Consistent(g, at), ConsumeAll
  PROVE  Invariant'
<1>1. /\ TypeOK /\ variant \in Variants /\ records \in Seq(Whole)
      /\ g \in Ghosts /\ Places(g) /\ Order(g) /\ Chain(g, at) /\ ConsumerFrame(g, at)
  BY DEF Consistent, Described
<1>2. /\ cPc = "idle" /\ "consume_all" \in ConsumerOps
      /\ cPos' = consumePos /\ cGoal' = produceSeen /\ cPc' \in {"idle", "drain"}
      /\ UNCHANGED <<producerLine, consumerLine, given, buffer, producer, history>>
  BY DEF ConsumeAll
<1>3. UNCHANGED <<variant, produceSeen, consumeSeen, consumePos, producePosCache, records>>
  BY <1>2 DEF consumerLine, given, history
<1>4. /\ Modulus' = Modulus /\ Cached' = Cached /\ ConsumerOps' = ConsumerOps
  BY <1>3 DEF Masked, Modulus, Cached, ConsumerOps
<1>5. /\ g.c = g.cp /\ consumePos = Pos(g.c) /\ produceSeen = Pos(g.ps) /\ g.ps \in Nat
      /\ g.c <= g.ps
  BY <1>1, <1>2 DEF ConsumerFrame, Places, Order, Ghosts
<1>6. PICK k \in 0 .. Len(records) : at[k] = g.ps
  BY <1>1 DEF Chain
<1>7. ~(Cached /\ "consume" \in ConsumerOps)
  BY <1>1, <1>2, Mixed
<1>8. ConsumerFrame(g, at)'
  <2>1. cGoal' = Pos(at[k]) /\ at[k] <= g.ps
    BY <1>2, <1>5, <1>6
  <2> QED BY <1>2, <1>3, <1>4, <1>5, <1>7, <2>1 DEF ConsumerFrame, Pos
<1>9. Chain(g, at)'
  <2>1. records' = records /\ buffer' = buffer
    BY <1>2, <1>3
  <2> QED BY <1>1, <1>6, <2>1, ChainSame
<1>10. /\ g.cp <= g.cp /\ g.cp <= g.c /\ consumePos' = Pos(g.cp) /\ consumePos' \in Positions
       /\ producePosCache' \in Positions /\ cPos' \in Positions /\ cGoal' \in Positions
       /\ records' \in Seq(Whole)
  BY <1>1, <1>2, <1>3, <1>5 DEF TypeOK, Ghosts
<1> QED BY <1>1, <1>2, <1>3, <1>5, <1>8, <1>9, <1>10, ConsumerAlone

LEMMA DrainStep ==
  ASSUME RecordsFit, Mixes, NEW g, NEW at, Consistent(g, at), Drain
  PROVE  Invariant'
<1>1. /\ TypeOK /\ variant \in Variants /\ records \in Seq(Whole)
      /\ g \in Ghosts /\ Places(g) /\ Order(g) /\ Chain(g, at) /\ ConsumerFrame(g, at)
  BY DEF Consistent, Described
<1>2. /\ cPc = "drain" /\ cPos # cGoal /\ HandOver
      /\ cPos' = DrainAdvance(Unmarked(cPos), Rounded(LengthAt(cPos)))
      /\ UNCHANGED <<producerLine, consumerLine, given, buffer, producer, cPc, cGoal>>
  BY DEF Drain
<1>3. UNCHANGED <<variant, produceSeen, consumeSeen, consumePos, producePosCache>>
  BY <1>2 DEF consumerLine, given
<1>4. /\ Modulus' = Modulus /\ Cached' = Cached /\ ConsumerOps' = ConsumerOps
  BY <1>3 DEF Masked, Modulus, Cached, ConsumerOps
<1>5. ConsumerReads
  BY <1>2 DEF ConsumerReads
<1>6. at[1] \in Nat
  BY <1>5, Reading
<1>c. "consume_all" \in ConsumerOps /\ Masked /\ ~(Cached /\ "consume" \in ConsumerOps)
  BY <1>1, <1>2, Mixed DEF ConsumerFrame
<1>h. PICK h \in Ghosts : /\ h.p = g.p /\ h.ps = g.ps /\ h.c = at[1] /\ h.cp = g.cp
                          /\ h.cs = g.cs /\ h.cc = g.cc
  <2>1. [g EXCEPT !.c = at[1]] \in Ghosts
    BY <1>1, <1>6 DEF Ghosts
  <2> QED BY <1>1, <2>1 DEF Ghosts
<1>b. PICK bt : bt = [k \in 0 .. Len(records) - 1 |-> at[k + 1]]
  OBVIOUS
<1>7. /\ Chain(h, bt)' /\ records' \in Seq(Whole) /\ h.cp <= h.c /\ h.c <= h.ps
      /\ \A k \in 0 .. Len(records) :
           k # 0 => k - 1 \in 0 .. Len(records') /\ bt[k - 1] = at[k]
      /\ cPos' = Pos(h.c) /\ cPos' \in Positions
  <2>1. buffer' = buffer
    BY <1>2
  <2>2. cPos' = Advance(Unmarked(cPos), Rounded(LengthAt(cPos)))
    BY <1>2, <1>c DEF DrainAdvance, Advance
  <2> QED BY <1>5, <1>2, <1>h, <1>b, <2>1, <2>2, Taken
<1>8. ConsumerFrame(h, bt)'
  <2>1. PICK k \in 0 .. Len(records) : k # 0 /\ cGoal = Pos(at[k]) /\ at[k] <= g.ps
    BY <1>2, <1>5, Reading
  <2>2. k - 1 \in 0 .. Len(records') /\ cGoal = Pos(bt[k - 1]) /\ bt[k - 1] <= h.ps
    BY <1>7, <1>h, <2>1
  <2> QED BY <1>2, <1>3, <1>4, <1>c, <1>7, <2>2 DEF ConsumerFrame, Pos
<1>10. /\ g.cp <= h.cp /\ consumePos' = Pos(h.cp) /\ consumePos' \in Positions
       /\ producePosCache' \in Positions /\ cGoal' \in Positions
  BY <1>1, <1>2, <1>3, <1>h DEF TypeOK, Ghosts, Places
<1> QED BY <1>1, <1>2, <1>3, <1>h, <1>7, <1>8, <1>10, ConsumerAlone

LEMMA DrainAgainStep ==
  ASSUME Mixes, NEW g, NEW at, Consistent(g, at), DrainAgain
  PROVE  Invariant'
<1>1. /\ TypeOK /\ variant \in Variants /\ records \in Seq(Whole)
      /\ g \in Ghosts /\ Places(g) /\ Order(g) /\ Chain(g, at) /\ ConsumerFrame(g, at)
  BY DEF Consistent, Described
<1>2. /\ cPc = "drain" /\ cGoal' = produceSeen /\ cPc' \in {"release", "drain"}
      /\ UNCHANGED <<producerLine, consumerLine, given, buffer, producer, cPos, history>>
  BY DEF DrainAgain
<1>3. UNCHANGED <<variant, produceSeen, consumeSeen, consumePos, producePosCache, records>>
  BY <1>2 DEF consumerLine, given, history
<1>4. /\ Modulus' = Modulus /\ Cached' = Cached /\ ConsumerOps' = ConsumerOps
  BY <1>3 DEF Masked, Modulus, Cached, ConsumerOps
<1>5. /\ cPos = Pos(g.c) /\ produceSeen = Pos(g.ps) /\ g.ps \in Nat /\ g.c <= g.ps
      /\ "consume_all" \in ConsumerOps
  BY <1>1, <1>2 DEF ConsumerFrame, Places, Order, Ghosts
<1>6. PICK k \in 0 .. Len(records) : at[k] = g.ps
  BY <1>1 DEF Chain
<1>7. ~(Cached /\ "consume" \in ConsumerOps)
  BY <1>1, <1>5, Mixed
<1>8. ConsumerFrame(g, at)'
  <2>1. cGoal' = Pos(at[k]) /\ at[k] <= g.ps
    BY <1>2, <1>5, <1>6
  <2> QED BY <1>2, <1>3, <1>4, <1>5, <1>7, <2>1 DEF ConsumerFrame, Pos
<1>9. Chain(g, at)'
  <2>1. records' = records /\ buffer' = buffer
    BY <1>2, <1>3
  <2> QED BY <1>1, <1>6, <2>1, ChainSame
<1>10. /\ g.cp <= g.cp /\ g.cp <= g.c /\ consumePos' = Pos(g.cp) /\ consumePos' \in Positions
       /\ producePosCache' \in Positions /\ cPos' \in Positions /\ cGoal' \in Positions
       /\ records' \in Seq(Whole)
  BY <1>1, <1>2, <1>3, <1>5 DEF TypeOK, Ghosts, Places, Order
<1> QED BY <1>1, <1>2, <1>3, <1>5, <1>8, <1>9, <1>10, ConsumerAlone

LEMMA DeclineStep ==
  ASSUME RecordsFit, Mixes, NEW g, NEW at, Consistent(g, at), Decline
  PROVE  Invariant'
<1>1. /\ TypeOK /\ variant \in Variants /\ records \in Seq(Whole)
      /\ g \in Ghosts /\ Places(g) /\ Order(g) /\ Chain(g, at) /\ ConsumerFrame(g, at)
  BY DEF Consistent, Described
<1>2. UNCHANGED <<producerLine, consumerLine, given, buffer, producer, cGoal, history>>
  BY DEF Decline
<1>3. UNCHANGED <<variant, produceSeen, consumeSeen, consumePos, producePosCache, records>>
  BY <1>2 DEF consumerLine, given, history
<1>4. /\ Modulus' = Modulus /\ Cached' = Cached /\ ConsumerOps' = ConsumerOps
  BY <1>3 DEF Masked, Modulus, Cached, ConsumerOps
<1>5. records' = records /\ buffer' = buffer /\ records' \in Seq(Whole)
  BY <1>1, <1>2, <1>3
<1>6. consumePos' = Pos(g.cp) /\ consumePos' \in Positions
      /\ producePosCache' \in Positions /\ cGoal' \in Positions /\ g.cp <= g.c /\ g.c <= g.ps
      /\ g.cp \in Nat
  BY <1>1, <1>2, <1>3 DEF TypeOK, Places, Order, Ghosts
<1>7. CASE cPc = "take" /\ cPc' = "idle" /\ cPos' = cPos
  <2>1. ConsumerFrame(g, at)'
    <3>1. /\ g.c = g.cp /\ cPos = Pos(g.c)
          /\ Cached /\ "consume" \in ConsumerOps =>
               \E k \in 0 .. Len(records) : producePosCache = Pos(at[k]) /\ at[k] <= g.ps
      BY <1>1, <1>7 DEF ConsumerFrame
    <3> QED BY <1>3, <1>4, <1>7, <3>1 DEF ConsumerFrame, Pos
  <2>2. \E k \in 0 .. Len(records) : at[k] = g.ps
    BY <1>1 DEF Chain
  <2>3. Chain(g, at)'
    BY <1>1, <1>5, <2>2, ChainSame
  <2>4. cPos' \in Positions /\ g.cp <= g.cp
    BY <1>1, <1>6, <1>7 DEF TypeOK
  <2> QED BY <1>1, <1>2, <1>3, <1>5, <1>6, <2>1, <2>3, <2>4, ConsumerAlone
<1>8. CASE cPc = "drain" /\ cPos # cGoal /\ cPc' = "release" /\ cPos' = Unmarked(cPos)
  <2>1. ConsumerReads
    BY <1>8 DEF ConsumerReads
  <2>2. /\ cPos = Pos(g.c) /\ g.c < g.ps /\ g.c \in Nat /\ Link(g.c, at[1], records[1])
    BY <2>1, Reading
  <2>3. /\ Start(g.c) \in Nat /\ Unmarked(cPos) = Pos(Start(g.c)) /\ g.c <= Start(g.c)
        /\ Unmarked(cPos) = Pos(g.c) \/ Unmarked(cPos) = Wrapped(Pos(g.c))
    BY <1>1, <2>2, StartFacts, LinkFacts DEF Link
  <2>s. PICK s \in Nat : s = Start(g.c)
    BY <2>3
  <2>c. ~(Cached /\ "consume" \in ConsumerOps)
    BY <1>1, <1>8, Mixed DEF ConsumerFrame
  <2>h. PICK h \in Ghosts : /\ h.p = g.p /\ h.ps = g.ps /\ h.c = s /\ h.cp = g.cp
                            /\ h.cs = g.cs /\ h.cc = g.cc
    <3>1. [g EXCEPT !.c = s] \in Ghosts
      BY <1>1 DEF Ghosts
    <3> QED BY <1>1, <3>1 DEF Ghosts
  <2>b. PICK bt : bt = [at EXCEPT ![0] = s]
    OBVIOUS
  <2>4. Chain(h, bt)' /\ s <= g.ps
    BY <1>1, <1>5, <2>2, <2>s, <2>h, <2>b, ChainSkipped
  <2>5. ConsumerFrame(h, bt)'
    BY <1>8, <1>4, <2>3, <2>s, <2>c, <2>h DEF ConsumerFrame, Pos
  <2>6. cPos' \in Positions
    <3>1. Pos(g.c) \in Positions
      BY <1>1, <2>2 DEF TypeOK
    <3> QED BY <1>1, <1>8, <2>3, <3>1, PositionsClosed
  <2>7. g.cp <= h.cp /\ h.cp <= h.c /\ h.c <= h.ps /\ consumePos' = Pos(h.cp)
    BY <1>6, <2>2, <2>3, <2>4, <2>s, <2>h
  <2> QED BY <1>1, <1>2, <1>3, <1>5, <1>6, <2>h, <2>4, <2>5, <2>6, <2>7, ConsumerAlone
<1> QED BY <1>7, <1>8 DEF Decline

LEMMA ReleaseStep ==
  ASSUME NEW g, NEW at, Consistent(g, at), Release
  PROVE  Invariant'
<1>1. /\ TypeOK /\ variant \in Variants /\ records \in Seq(Whole)
      /\ g \in Ghosts /\ Places(g) /\ Order(g) /\ Chain(g, at) /\ ConsumerFrame(g, at)
  BY DEF Consistent, Described
<1>2. /\ cPc = "release" /\ consumePos' = cPos /\ cPc' = "idle" /\ cGoal' = 0
      /\ UNCHANGED <<producerLine, producePosCache, given, buffer, producer, cPos, history>>
  BY DEF Release
<1>3. UNCHANGED <<variant, produceSeen, consumeSeen, records>>
  BY <1>2 DEF given, history
<1>4. /\ Modulus' = Modulus /\ Cached' = Cached /\ ConsumerOps' = ConsumerOps
  BY <1>3 DEF Masked, Modulus, Cached, ConsumerOps
<1>5. /\ cPos = Pos(g.c) /\ g.c \in Nat /\ g.cp \in Nat /\ g.cp <= g.c /\ g.c <= g.ps
  BY <1>1, <1>2 DEF ConsumerFrame, Order, Ghosts
<1>h. PICK h \in Ghosts : /\ h.p = g.p /\ h.ps = g.ps /\ h.c = g.c /\ h.cp = g.c
                          /\ h.cs = g.cs /\ h.cc = g.cc
  <2>1. [g EXCEPT !.cp = g.c] \in Ghosts
    BY <1>1 DEF Ghosts
  <2> QED BY <1>1, <2>1 DEF Ghosts
<1>7. \E k \in 0 .. Len(records) : at[k] = h.ps
  BY <1>1, <1>h DEF Chain
<1>8. Chain(h, at)'
  <2>1. records' = records /\ buffer' = buffer
    BY <1>2, <1>3
  <2> QED BY <1>1, <1>7, <1>h, <2>1, ChainSame
<1>9. ConsumerFrame(h, at)'
  <2>1. Cached /\ "consume" \in ConsumerOps =>
          \E k \in 0 .. Len(records) : producePosCache = Pos(at[k]) /\ at[k] <= g.ps
    BY <1>1 DEF ConsumerFrame
  <2> QED BY <1>2, <1>3, <1>4, <1>h, <2>1 DEF ConsumerFrame, Pos
<1>10. cGoal' \in Positions
  <2>1. 0 % Align = 0 /\ 0 \in 0 .. (IF Masked THEN Word ELSE Size) - 1
    BY <1>1, Sizes, ModSmall
  <2>2. Masked' = Masked
    BY <1>3 DEF Masked
  <2> QED BY <1>2, <2>1, <2>2 DEF Positions
<1>11. /\ g.cp <= h.cp /\ h.cp <= h.c /\ h.c <= h.ps /\ consumePos' = Pos(h.cp)
       /\ consumePos' \in Positions /\ producePosCache' \in Positions /\ cPos' \in Positions
       /\ records' \in Seq(Whole)
  BY <1>1, <1>2, <1>3, <1>5, <1>h DEF TypeOK
<1> QED BY <1>1, <1>2, <1>3, <1>h, <1>8, <1>9, <1>10, <1>11, ConsumerAlone

-----------------------------------------------------------------------------
(* The invariant holds.                                                    *)

LEMMA PropagateProducePosStep ==
  ASSUME NEW g, NEW at, Consistent(g, at), PropagateProducePos
  PROVE  Invariant'
<1>1. /\ TypeOK /\ DOMAIN buffer = Bytes /\ variant \in Variants /\ records \in Seq(Whole)
      /\ g \in Ghosts /\ Places(g) /\ Order(g) /\ Chain(g, at)
      /\ ProducerFrame(g) /\ ConsumerFrame(g, at)
  BY DEF Consistent, Described
<1>2. /\ produceSeen' = producePos
      /\ UNCHANGED <<variant, producerLine, consumerLine, consumeSeen, buffer, producer,
                     consumer, history>>
  BY DEF PropagateProducePos
<1>3. UNCHANGED <<producePos, consumePosCache, consumePos, producePosCache,
                  pLen, pPos, cPos, cGoal, records>>
  BY <1>2 DEF producerLine, consumerLine, producer, consumer, history
<1>4. Masked' = Masked /\ Modulus' = Modulus /\ Limit' = Limit
  BY <1>2 DEF Masked, Modulus, Limit
<1>h. PICK h \in Ghosts : /\ h.p = g.p /\ h.ps = g.p /\ h.c = g.c /\ h.cp = g.cp
                          /\ h.cs = g.cs /\ h.cc = g.cc
  <2>1. [g EXCEPT !.ps = g.p] \in Ghosts
    BY <1>1 DEF Ghosts
  <2> QED BY <1>1, <2>1 DEF Ghosts
<1>5. g.c \in Nat /\ g.ps \in Nat /\ g.p \in Nat /\ g.c <= g.ps /\ g.ps <= g.p
  BY <1>1 DEF Ghosts, Order
<1>6. Chain(h, at)'
  <2>1. Len(records) \in 0 .. Len(records) /\ at[Len(records)] = h.ps
    BY <1>1, <1>h, Ascends DEF Chain
  <2>2. records' = records /\ buffer' = buffer
    BY <1>2, <1>3
  <2> QED BY <1>1, <1>h, <2>1, <2>2, ChainSame
<1>7. ConsumerFrame(h, at)'
  <2>1. \A k \in 0 .. Len(records) : /\ k \in 0 .. Len(records')
                                     /\ at[k] = at[k] /\ at[k] \in Nat
    BY <1>1, <1>3, Ascends
  <2>2. g.ps <= h.ps /\ h.ps \in Nat
    BY <1>h, <1>5
  <2> QED BY <1>1, <1>2, <1>3, <1>h, <1>5, <2>1, <2>2, ConsumerSame
<1>8. ProducerFrame(h)'
  BY <1>1, <1>2, <1>3, <1>h, ProducerSame
<1>9. Order(h)'
  <2>1. g.c <= g.p /\ g.p <= g.p
    BY <1>5
  <2> QED BY <1>1, <1>4, <1>h, <2>1 DEF Order
<1>10. Places(h)'
  BY <1>1, <1>2, <1>3, <1>4, <1>h DEF Places, Pos
<1>11. TypeOK'
  BY <1>1, <1>2, <1>3, <1>4 DEF TypeOK, Positions
<1> QED BY <1>1, <1>2, <1>3, <1>6, <1>7, <1>8, <1>9, <1>10, <1>11
        DEF Invariant, Consistent, Described

LEMMA PropagateConsumePosStep ==
  ASSUME NEW g, NEW at, Consistent(g, at), PropagateConsumePos
  PROVE  Invariant'
<1>1. /\ TypeOK /\ DOMAIN buffer = Bytes /\ variant \in Variants /\ records \in Seq(Whole)
      /\ g \in Ghosts /\ Places(g) /\ Order(g) /\ Chain(g, at)
      /\ ProducerFrame(g) /\ ConsumerFrame(g, at)
  BY DEF Consistent, Described
<1>2. /\ consumeSeen' = consumePos
      /\ UNCHANGED <<variant, producerLine, consumerLine, produceSeen, buffer, producer,
                     consumer, history>>
  BY DEF PropagateConsumePos
<1>3. UNCHANGED <<producePos, consumePosCache, consumePos, producePosCache,
                  pLen, pPos, cPos, cGoal, records>>
  BY <1>2 DEF producerLine, consumerLine, producer, consumer, history
<1>4. Masked' = Masked /\ Modulus' = Modulus /\ Limit' = Limit
  BY <1>2 DEF Masked, Modulus, Limit
<1>h. PICK h \in Ghosts : /\ h.p = g.p /\ h.ps = g.ps /\ h.c = g.c /\ h.cp = g.cp
                          /\ h.cs = g.cp /\ h.cc = g.cc
  <2>1. [g EXCEPT !.cs = g.cp] \in Ghosts
    BY <1>1 DEF Ghosts
  <2> QED BY <1>1, <2>1 DEF Ghosts
<1>5. g.c \in Nat /\ g.ps \in Nat /\ g.cc \in Nat /\ g.cs \in Nat /\ g.cp \in Nat
      /\ g.cc <= g.cs /\ g.cs <= g.cp
  BY <1>1 DEF Ghosts, Order
<1>6. Chain(h, at)'
  <2>1. \E k \in 0 .. Len(records) : at[k] = h.ps
    BY <1>1, <1>h DEF Chain
  <2>2. records' = records /\ buffer' = buffer
    BY <1>2, <1>3
  <2> QED BY <1>1, <1>h, <2>1, <2>2, ChainSame
<1>7. ConsumerFrame(h, at)'
  <2>1. \A k \in 0 .. Len(records) : /\ k \in 0 .. Len(records')
                                     /\ at[k] = at[k] /\ at[k] \in Nat
    BY <1>1, <1>3, Ascends
  <2>2. g.ps <= h.ps /\ h.ps \in Nat
    BY <1>h, <1>5
  <2> QED BY <1>1, <1>2, <1>3, <1>h, <1>5, <2>1, <2>2, ConsumerSame
<1>8. ProducerFrame(h)'
  BY <1>1, <1>2, <1>3, <1>h, ProducerSame
<1>9. Order(h)'
  <2>1. g.cc <= g.cp /\ g.cp <= g.cp
    BY <1>5
  <2> QED BY <1>1, <1>4, <1>h, <2>1 DEF Order
<1>10. Places(h)'
  BY <1>1, <1>2, <1>3, <1>4, <1>h DEF Places, Pos
<1>11. TypeOK'
  BY <1>1, <1>2, <1>3, <1>4 DEF TypeOK, Positions
<1> QED BY <1>1, <1>2, <1>3, <1>6, <1>7, <1>8, <1>9, <1>10, <1>11
        DEF Invariant, Consistent, Described

LEMMA InitInvariant ==
  ASSUME Init
  PROVE  Invariant
<1>1. variant \in Variants /\ records = <<>> /\ DOMAIN buffer = Bytes
      /\ pPc = "idle" /\ cPc = "idle"
  BY DEF Init
<1>2. /\ producePos = 0 /\ consumePosCache = 0 /\ consumePos = 0 /\ producePosCache = 0
      /\ produceSeen = 0 /\ consumeSeen = 0
  BY DEF Init
<1>g. PICK g \in Ghosts : /\ g.p = 0 /\ g.ps = 0 /\ g.c = 0 /\ g.cp = 0 /\ g.cs = 0 /\ g.cc = 0
  <2>1. [p |-> 0, ps |-> 0, c |-> 0, cp |-> 0, cs |-> 0, cc |-> 0] \in Ghosts
    BY DEF Ghosts
  <2> QED BY <2>1
<1>a. PICK at : at = [k \in 0 .. 0 |-> 0]
  OBVIOUS
<1>3. Pos(0) = 0 /\ 0 \in Positions
  <2>1. 0 % Modulus = 0 /\ 0 % Align = 0
    BY <1>1, Sizes, ModSmall
  <2>2. 0 \in 0 .. (IF Masked THEN Word ELSE Size) - 1
    BY <1>1, Sizes
  <2> QED BY <2>1, <2>2 DEF Pos, Positions
<1>4. Chain(g, at)
  <2>1. Len(records) = 0 /\ at \in [0 .. 0 -> Nat] /\ at[0] = 0
    BY <1>1, <1>a
  <2>2. 1 .. 0 = {}
    OBVIOUS
  <2>3. \A j, k \in 0 .. 0 : at[j] + (k - j) * Align <= at[k]
    <3> SUFFICES ASSUME NEW j \in 0 .. 0, NEW k \in 0 .. 0
                 PROVE  at[j] + (k - j) * Align <= at[k]
      OBVIOUS
    <3>1. j = 0 /\ k = 0 /\ (k - j) * Align = 0
      BY <1>1, Sizes
    <3> QED BY <2>1, <3>1
  <2>4. \E k \in 0 .. 0 : at[k] = g.ps
    BY <1>g, <2>1
  <2> QED BY <1>g, <2>1, <2>2, <2>3, <2>4 DEF Chain
<1>5. Places(g) /\ Order(g)
  BY <1>1, <1>2, <1>3, <1>g, Sizes DEF Places, Order
<1>6. ProducerFrame(g)
  BY <1>1 DEF ProducerFrame
<1>7. ConsumerFrame(g, at)
  <2>1. 0 \in 0 .. Len(records) /\ at[0] = 0
    BY <1>1, <1>a
  <2>2. producePosCache = Pos(at[0]) /\ at[0] <= g.ps
    BY <1>2, <1>3, <1>g, <2>1
  <2> QED BY <1>1, <1>g, <2>1, <2>2 DEF ConsumerFrame
<1>8. TypeOK
  BY <1>3 DEF Init, TypeOK
<1>9. records \in Seq(Whole)
  BY <1>1
<1> QED BY <1>1, <1>4, <1>5, <1>6, <1>7, <1>8, <1>9 DEF Invariant, Consistent, Described

LEMMA NextInvariant ==
  ASSUME RecordsFit, Mixes, Invariant, [Next]_vars
  PROVE  Invariant'
<1>1. PICK g, at : Consistent(g, at)
  BY DEF Invariant
<1>2. CASE ProducerStep
  BY <1>1, <1>2, ProduceStep, ReloadStep, WrapStep, ReloadWrapStep, FillStep, RefuseStep,
     PublishStep DEF ProducerStep
<1>3. CASE ConsumerStep
  BY <1>1, <1>3, ConsumeStep, ReloadProducePosStep, TakeStep, ConsumeAllStep, DrainStep,
     DrainAgainStep, DeclineStep, ReleaseStep DEF ConsumerStep
<1>4. CASE PropagateProducePos \/ PropagateConsumePos
  BY <1>1, <1>4, PropagateProducePosStep, PropagateConsumePosStep
<1>5. CASE UNCHANGED vars
  <2>1. /\ UNCHANGED <<variant, producePos, consumePosCache, consumePos, producePosCache>>
        /\ UNCHANGED <<produceSeen, consumeSeen, buffer, records>>
        /\ UNCHANGED <<pPc, pLen, pPos, cPc, cPos, cGoal>>
    BY <1>5 DEF vars
  <2>2. /\ TypeOK /\ DOMAIN buffer = Bytes /\ variant \in Variants /\ records \in Seq(Whole)
        /\ g \in Ghosts /\ Places(g) /\ Order(g) /\ Chain(g, at)
        /\ ProducerFrame(g) /\ ConsumerFrame(g, at)
    BY <1>1 DEF Consistent, Described
  <2>3. Chain(g, at)'
    <3>1. \E k \in 0 .. Len(records) : at[k] = g.ps
      BY <2>2 DEF Chain
    <3> QED BY <2>1, <2>2, <3>1, ChainSame
  <2>4. ProducerFrame(g)'
    BY <2>1, <2>2, ProducerSame DEF producer
  <2>5. ConsumerFrame(g, at)'
    <3>1. \A k \in 0 .. Len(records) : /\ k \in 0 .. Len(records')
                                       /\ at[k] = at[k] /\ at[k] \in Nat
      BY <2>1, <2>2, Ascends
    <3>2. g.c \in Nat /\ g.ps \in Nat /\ g.ps <= g.ps
      BY <2>2 DEF Ghosts
    <3> QED BY <2>1, <2>2, <3>1, <3>2, ConsumerSame DEF consumer
  <2>6. Places(g)' /\ Order(g)'
    BY <2>1, <2>2 DEF Places, Order, Pos, Modulus, Limit, Masked
  <2>7. TypeOK'
    BY <2>1, <2>2 DEF TypeOK, Positions, Masked
  <2> QED BY <2>1, <2>2, <2>3, <2>4, <2>5, <2>6, <2>7 DEF Invariant, Consistent, Described
<1> QED BY <1>2, <1>3, <1>4, <1>5 DEF Next

\* The invariant, which the other theorems rest on: the ends in their order with
\* all that is known of them, and the records one behind the other between them.
\* All five take it that every record fits into the buffer; produce does not test
\* that, and where one does not fit there is no such invariant (NoRace is false).
THEOREM InvariantHolds ==
  ASSUME RecordsFit, Mixes
  PROVE  Spec => []Invariant
<1>1. Init => Invariant
  BY InitInvariant
<1>2. Invariant /\ [Next]_vars => Invariant'
  BY NextInvariant
<1> QED BY <1>1, <1>2, PTL DEF Spec

-----------------------------------------------------------------------------
(* What follows.                                                           *)

LEMMA InvariantHandsOver ==
  ASSUME RecordsFit, Invariant
  PROVE  HandedOver
<1>1. PICK g, at : Consistent(g, at)
  BY DEF Invariant
<1>2. /\ TypeOK /\ variant \in Variants /\ g \in Ghosts /\ Places(g) /\ Order(g)
      /\ ProducerFrame(g)
  BY <1>1 DEF Consistent, Described
<1>3. /\ g.p \in Nat /\ g.ps \in Nat /\ g.c \in Nat /\ g.cp \in Nat /\ g.cs \in Nat
      /\ g.cc \in Nat /\ g.cc <= g.cs /\ g.cs <= g.cp /\ g.cp <= g.c /\ g.c <= g.ps
      /\ g.ps <= g.p /\ g.p <= g.cc + Limit /\ Limit \in Nat /\ Limit <= Size
      /\ Size \in Nat \ {0}
  BY <1>2, Sizes DEF Ghosts, Order
<1>4. ASSUME ConsumerReads
      PROVE  /\ buffer[Index(cPos)] \in Numbers
             /\ buffer[Index(Unmarked(cPos))] \in Numbers
             /\ {Index(cPos)} \cup Extent(Unmarked(cPos), LengthAt(cPos))
                  \subseteq Region(consumePos, produceSeen)
  <2>1. /\ cPos = Pos(g.c) /\ g.c < g.ps /\ at[1] <= g.ps /\ at[1] \in Nat
        /\ Link(g.c, at[1], records[1])
    BY <1>1, <1>4, Reading
  <2>2. /\ buffer[Index(g.c)] \in Lengths \/ Marked(g.c)
        /\ records[1].length \in Lengths /\ buffer[Index(Start(g.c))] = records[1].length
        /\ WrapDistance(Start(g.c)) >= Rounded(records[1].length)
        /\ at[1] = Start(g.c) + Rounded(records[1].length)
    BY <2>1 DEF Link
  <2>3. /\ Start(g.c) \in Nat /\ Unmarked(cPos) = Pos(Start(g.c)) /\ g.c <= Start(g.c)
        /\ LengthAt(cPos) = records[1].length
    BY <1>2, <1>3, <2>1, <2>2, StartFacts, LinkFacts
  <2>4. \A length \in Lengths : length \in Numbers
    BY <1>3, RoundedFacts DEF Numbers
  <2>5. Index(cPos) = Index(g.c) /\ Index(Unmarked(cPos)) = Index(Start(g.c))
        /\ WrapDistance(g.c) \in 1 .. Size /\ WrapDistance(g.c) = Size - Index(g.c)
        /\ Index(g.c) \in 0 .. Size - 1
    BY <1>2, <1>3, <2>1, <2>3, IndexPos DEF Bytes
  <2>6. Marked(g.c) => buffer[Index(g.c)] \in Numbers
    <3>1. PICK w \in 1 .. Size, i \in 0 .. Size - 1 :
            w = WrapDistance(g.c) /\ i = Index(g.c) /\ w = Size - i
      BY <2>5
    <3>2. i # 0 => -w \in Numbers
      BY <1>3, <3>1 DEF Numbers
    <3> QED BY <3>1, <3>2 DEF Marked
  <2>7. Region(consumePos, produceSeen) = {Index(x) : x \in g.cp .. g.ps - 1}
    <3>1. g.cp <= g.ps /\ g.ps <= g.cp + Limit
      BY <1>3
    <3> QED BY <1>2, <1>3, <3>1, RegionPos DEF Places
  <2>8. Index(g.c) \in {Index(x) : x \in g.cp .. g.ps - 1}
    <3>1. g.c \in g.cp .. g.ps - 1
      BY <1>3, <2>1
    <3> QED BY <3>1
  <2>9. ASSUME NEW i \in Extent(Unmarked(cPos), LengthAt(cPos))
        PROVE  i \in {Index(x) : x \in g.cp .. g.ps - 1}
    <3>1. PICK y \in Start(g.c) .. Start(g.c) + Rounded(records[1].length) - 1 : i = Index(y)
      BY <1>2, <2>2, <2>3, ExtentFacts
    <3>2. Rounded(records[1].length) \in 1 .. Size
      BY <2>2, RoundedFacts
    <3>3. y \in g.cp .. g.ps - 1
      BY <1>3, <2>1, <2>2, <2>3, <3>1, <3>2
    <3> QED BY <3>1, <3>3
  <2> QED BY <2>2, <2>4, <2>5, <2>6, <2>7, <2>8, <2>9
<1>5. ASSUME pPc = "fill"
      PROVE  /\ Extent(pPos, pLen) \subseteq Bytes
             /\ ({Index(producePos)} \cup Extent(pPos, pLen))
                  \cap Region(consumeSeen, producePos) = {}
  <2>1. pLen \in Lengths
    BY <1>1, <1>5, Writing
  <2>2. PICK a \in Nat : /\ pPos = Pos(a) /\ WrapDistance(a) >= Rounded(pLen)
                         /\ a + Rounded(pLen) <= g.cc + Limit /\ g.p <= a
    BY <1>1, <1>5, Writing
  <2>3. PICK R \in 1 .. Size : R = Rounded(pLen)
    BY <2>1, RoundedFacts
  <2>4. /\ Extent(pPos, pLen) \subseteq Bytes
        /\ \A i \in Extent(pPos, pLen) : \E y \in a .. a + R - 1 : i = Index(y)
    BY <1>2, <2>1, <2>2, <2>3, ExtentFacts
  <2>5. Region(consumeSeen, producePos) = {Index(x) : x \in g.cs .. g.p - 1}
    <3>1. g.cs <= g.p /\ g.p <= g.cs + Limit
      BY <1>3
    <3> QED BY <1>2, <1>3, <3>1, RegionPos DEF Places
  <2>6. ASSUME NEW x \in g.cs .. g.p - 1, NEW y \in Nat, g.p <= y, y <= a + R - 1
        PROVE  Index(x) # Index(y)
    <3>1. x \in Nat /\ x < y /\ y < x + Size
      BY <1>3, <2>2, <2>3, <2>6
    <3> QED BY <1>3, <3>1, Apart DEF Index
  <2>7. \A i \in Extent(pPos, pLen) : i \notin Region(consumeSeen, producePos)
    <3> SUFFICES ASSUME NEW i \in Extent(pPos, pLen), NEW x \in g.cs .. g.p - 1
                 PROVE  i # Index(x)
      BY <2>5
    <3>1. PICK y \in a .. a + R - 1 : i = Index(y)
      BY <2>4
    <3>2. y \in Nat /\ g.p <= y /\ y <= a + R - 1
      BY <1>3, <2>2, <2>3, <3>1
    <3> QED BY <2>6, <3>1, <3>2
  <2>8. Index(producePos) \notin Region(consumeSeen, producePos)
    <3> SUFFICES ASSUME NEW x \in g.cs .. g.p - 1
                 PROVE  Index(producePos) # Index(x)
      BY <2>5
    <3>1. Index(producePos) = Index(g.p)
      BY <1>2, <1>3, IndexPos DEF Places
    <3>2. g.p <= a + R - 1
      BY <1>3, <2>2, <2>3
    <3> QED BY <1>3, <2>6, <3>1, <3>2
  <2> QED BY <2>4, <2>7, <2>8
<1> QED BY <1>2, <1>4, <1>5 DEF HandedOver

\* Where every record fits, in all five variants the plain accesses of the two
\* threads are to bytes that are their own and in the buffer, and what consume and
\* consume_all read for a length or a marker is one that produce published.
THEOREM NoRace ==
  ASSUME RecordsFit, Mixes
  PROVE  Spec => []HandedOver
<1>1. Invariant => HandedOver
  BY InvariantHandsOver
<1> QED BY <1>1, InvariantHolds, PTL

\* Where every record fits, consume and consume_all hand a record over only when
\* there is one, if consume_all has positions that run on and no consume beside it
\* trusts a cache it did not refresh.
THEOREM TakesOnlyRecords ==
  ASSUME RecordsFit, Mixes
  PROVE  Spec => []TakesARecord
<1>1. Invariant => TakesARecord
  <2> SUFFICES ASSUME Invariant, ConsumerReads
               PROVE  records # <<>>
    BY DEF TakesARecord
  <2>1. PICK g, at : Consistent(g, at)
    BY DEF Invariant
  <2>2. Len(records) # 0
    BY <2>1, Reading
  <2> QED BY <2>2
<1> QED BY <1>1, InvariantHolds, PTL

-----------------------------------------------------------------------------
(* The queue of records.                                                   *)

\* Every record takes at least one unit of the alignment.
Held == records \in Seq(Whole) /\ Len(records) \in 0 .. (Size \div Align)

LEMMA RoomForAll == Invariant => Held
<1> SUFFICES ASSUME Invariant PROVE Held
  OBVIOUS
<1>1. PICK g, at : Consistent(g, at)
  BY DEF Invariant
<1>2. /\ variant \in Variants /\ records \in Seq(Whole) /\ g \in Ghosts /\ Order(g)
      /\ Chain(g, at)
  BY <1>1 DEF Consistent, Described
<1>3. PICK n \in Nat : n = Len(records) /\ 0 \in 0 .. n /\ n \in 0 .. n
  BY <1>2, Ascends
<1>4. at[0] + (n - 0) * Align <= at[n] /\ at[0] = g.c /\ at[n] = g.p
  BY <1>2, <1>3 DEF Chain
<1>5. PICK k \in Nat : Size = k * Align /\ k = Size \div Align
  <2>1. Size \in Nat /\ Align \in Nat \ {0} /\ Size % Align = 0
    BY SizeAssumption
  <2>2. PICK q \in Nat, r \in 0 .. Align - 1 :
          Size = q * Align + r /\ q = Size \div Align /\ r = Size % Align
    BY <2>1, DivMod
  <2>3. q * Align + 0 = q * Align
    BY <2>1
  <2> QED BY <2>1, <2>2, <2>3
<1>6. PICK u \in Nat : u = n * Align
  BY <1>2, Sizes
<1>7. u <= Size
  <2>1. /\ g.c \in Nat /\ g.p \in Nat /\ g.cc \in Nat /\ g.cc <= g.c /\ g.p <= g.cc + Limit
        /\ Limit \in Nat /\ Limit <= Size /\ Size \in Nat
    BY <1>2, Sizes DEF Ghosts, Order
  <2>2. n - 0 = n
    OBVIOUS
  <2>3. g.c + u <= g.p
    BY <1>4, <1>6, <2>2
  <2> QED BY <2>1, <2>3
<1>8. n <= k
  <2>1. CASE n > k
    <3>1. PICK d \in Nat : n = k + 1 + d
      <4>1. n - k - 1 \in Nat /\ n = k + 1 + (n - k - 1)
        BY <2>1
      <4> QED BY <4>1
    <3>2. n * Align = k * Align + Align + d * Align /\ d * Align >= 0
      BY <1>2, <3>1, Sizes
    <3>3. PICK v \in Int, w \in Int : v = k * Align /\ w = d * Align
      BY <1>2, Sizes
    <3>4. u = v + Align + w /\ w >= 0 /\ v = Size
      BY <1>5, <1>6, <3>2, <3>3
    <3>5. Size \in Nat /\ Align \in Nat \ {0}
      BY <1>2, Sizes
    <3> QED BY <1>7, <3>3, <3>4, <3>5
  <2> QED BY <2>1
<1> QED BY <1>2, <1>3, <1>5, <1>8 DEF Held

LEMMA PublishEnqueues ==
  ASSUME RecordsFit, Invariant, Invariant', Publish
  PROVE  Fifo!Enqueue
<1>1. Held /\ Held'
  BY RoomForAll, PTL
<1>2. records' = Append(records, RecordAt(pPos, pLen)) /\ out' = out
  BY DEF Publish
<1>3. PICK r \in Whole : r = RecordAt(pPos, pLen)
  <2>1. PICK g, at : Consistent(g, at)
    BY DEF Invariant
  <2>2. pPc = "publish"
    BY DEF Publish
  <2> QED BY <2>1, <2>2, Published
<1>4. /\ records' \in Seq(Whole) /\ Len(records') \in Len(records) .. (Size \div Align)
      /\ SubSeq(records', 1, Len(records)) = records
  <2>1. records' = Append(records, r) /\ records \in Seq(Whole)
    BY <1>1, <1>2, <1>3 DEF Held
  <2>2. Len(records') = Len(records) + 1 /\ Len(records) \in Nat
    BY <2>1
  <2>3. SubSeq(Append(records, r), 1, Len(records)) = records
    BY <2>1
  <2> QED BY <1>1, <2>1, <2>2, <2>3 DEF Held
<1> QED BY <1>2, <1>4 DEF Fifo!Enqueue, Whole

LEMMA HandOverDequeues ==
  ASSUME RecordsFit, Invariant, ConsumerReads, HandOver, buffer' = buffer
  PROVE  Fifo!Dequeue
<1>1. PICK g, at : Consistent(g, at)
  BY DEF Invariant
<1>2. /\ cPos = Pos(g.c) /\ Len(records) \in Nat /\ Len(records) # 0 /\ records \in Seq(Whole)
      /\ Link(g.c, at[1], records[1]) /\ variant \in Variants /\ g.c \in Nat
  BY <1>1, Reading DEF Consistent
<1>3. out' = records[1] /\ records' = SubSeq(records, 2, Len(records))
  <2>1. /\ LengthAt(cPos) = records[1].length
        /\ RecordAt(Unmarked(cPos), LengthAt(cPos)) = records[1]
    BY <1>2, LinkFacts
  <2> QED BY <2>1 DEF HandOver
<1>4. Head(records) = records[1] /\ Tail(records) = SubSeq(records, 2, Len(records))
      /\ records # <<>>
  BY <1>2
<1> QED BY <1>3, <1>4 DEF Fifo!Dequeue

\* Every step is a step of the sequence, or leaves it alone.
LEMMA NextRefines ==
  ASSUME RecordsFit, Invariant, Invariant', [Next]_vars
  PROVE  [Fifo!Next]_Fifo!vars
<1>1. CASE Publish
  BY <1>1, PublishEnqueues DEF Fifo!Next
<1>2. CASE Take \/ Drain
  <2>1. ConsumerReads /\ HandOver /\ buffer' = buffer
    BY <1>2 DEF Take, Drain, ConsumerReads
  <2> QED BY <2>1, HandOverDequeues DEF Fifo!Next
<1>3. CASE UNCHANGED history
  BY <1>3 DEF history, Fifo!vars
<1>4. CASE Produce \/ Reload \/ Wrap \/ ReloadWrap \/ Fill \/ Refuse
  BY <1>3, <1>4 DEF Produce, Reload, Wrap, ReloadWrap, Fill, Refuse
<1>5. CASE Consume \/ ReloadProducePos \/ ConsumeAll \/ DrainAgain \/ Decline \/ Release
  BY <1>3, <1>5 DEF Consume, ReloadProducePos, ConsumeAll, DrainAgain, Decline, Release
<1>6. CASE PropagateProducePos \/ PropagateConsumePos
  BY <1>3, <1>6 DEF PropagateProducePos, PropagateConsumePos
<1>7. CASE UNCHANGED vars
  BY <1>3, <1>7 DEF vars, history
<1> QED BY <1>1, <1>2, <1>4, <1>5, <1>6, <1>7 DEF Next, ProducerStep, ConsumerStep

\* Where every record fits, whole records go in and come out, each once and in
\* order, whatever becomes of rounding, markers, and records turned down.
THEOREM ImplementsFifo ==
  ASSUME RecordsFit, Mixes
  PROVE  Spec => FifoSpec
<1>1. Init => Fifo!Init
  <2> SUFFICES ASSUME Init PROVE Fifo!Init
    OBVIOUS
  <2>1. Held
    BY InitInvariant, RoomForAll
  <2> QED BY <2>1 DEF Held, Whole, Fifo!Init, Fifo!TypeOK
<1>2. Invariant /\ Invariant' /\ [Next]_vars => [Fifo!Next]_Fifo!vars
  BY NextRefines
<1> QED BY <1>1, <1>2, InvariantHolds, PTL DEF Spec, FifoSpec, Fifo!Spec

-----------------------------------------------------------------------------
(* What produce turns down.                                                *)

LEMMA IndexAdd ==
  ASSUME variant \in Variants, NEW a \in Nat, NEW k \in 0 .. Size
  PROVE  Index(a + k) = IF Index(a) + k < Size THEN Index(a) + k ELSE Index(a) + k - Size
<1>1. (a + k) % Size = IF (a % Size) + k < Size THEN (a % Size) + k ELSE (a % Size) + k - Size
  BY Sizes, ModAdd
<1> QED BY <1>1 DEF Index

\* The bytes of Size numbers in a row are all there are.
LEMMA Covers ==
  ASSUME variant \in Variants, NEW b \in Nat, NEW i \in Bytes
  PROVE  \E x \in b .. b + Size - 1 : i = Index(x)
<1>1. Size \in Nat \ {0} /\ i \in 0 .. Size - 1
  BY Sizes DEF Bytes
<1>2. PICK r \in 0 .. Size - 1 : r = Index(b)
  BY <1>1, IndexPos DEF Bytes
<1>3. PICK k \in 0 .. Size - 1 : k = IF i >= r THEN i - r ELSE i - r + Size
  BY <1>1, <1>2
<1>4. Index(b + k) = i
  <2>1. k \in 0 .. Size
    BY <1>1
  <2>2. Index(b + k) = IF r + k < Size THEN r + k ELSE r + k - Size
    BY <1>2, <2>1, IndexAdd
  <2> QED BY <1>1, <1>2, <1>3, <2>2
<1> QED BY <1>1, <1>3, <1>4

\* The n bytes from p on, and those that are not between b and p.
Stretch(p, n) == {Index(y) : y \in p .. p + n - 1}
Free(b, p) == Bytes \ Region(Pos(b), Pos(p))

\* Where n bytes from p on would reach past the limit, they are not all free or,
\* with offsets, they are just those that are.
LEMMA TooLong ==
  ASSUME variant \in Variants, NEW p \in Nat, NEW b \in Nat, b <= p, p <= b + Limit,
         NEW n \in 1 .. Size, p + n > b + Limit
  PROVE  ~(Stretch(p, n) \subseteq Free(b, p)) \/ (~Masked /\ Stretch(p, n) = Free(b, p))
<1>d. PICK D, F : /\ D = {Index(y) : y \in p .. p + n - 1} /\ D = Stretch(p, n)
                  /\ F = Bytes \ Region(Pos(b), Pos(p)) /\ F = Free(b, p)
  BY DEF Stretch, Free
<1> SUFFICES ~(D \subseteq F) \/ (~Masked /\ D = F)
  BY <1>d
<1>1. /\ Size \in Nat \ {0} /\ Limit \in Nat /\ Limit <= Size
      /\ Masked => Limit = Size
      /\ ~Masked => Limit = Size - 1
  BY Sizes DEF Limit
<1>2. Region(Pos(b), Pos(p)) = {Index(x) : x \in b .. p - 1}
  BY RegionPos
<1>3. CASE p + n > b + Size
  <2>1. b < p
    BY <1>1, <1>3
  <2>2. b + Size \in p .. p + n - 1
    BY <1>1, <1>3
  <2>3. Index(b + Size) = Index(b)
    <3>1. Size \in 0 .. Size
      BY <1>1
    <3>2. PICK r \in 0 .. Size - 1 : r = Index(b)
      BY <1>1, IndexPos DEF Bytes
    <3>3. Index(b + Size) = IF r + Size < Size THEN r + Size ELSE r + Size - Size
      BY <3>1, <3>2, IndexAdd
    <3> QED BY <1>1, <3>2, <3>3
  <2>4. b \in b .. p - 1
    BY <2>1
  <2>5. Index(b) \in Region(Pos(b), Pos(p))
    BY <1>2, <2>4
  <2>6. Index(b) \in D
    BY <1>d, <2>2, <2>3
  <2> QED BY <1>d, <2>5, <2>6
<1>4. CASE p + n <= b + Size
  <2>1. ~Masked /\ p + n = b + Size
    BY <1>1, <1>4
  <2>2. D \subseteq F
    <3> SUFFICES ASSUME NEW y \in p .. p + n - 1
                 PROVE  Index(y) \in F
      BY <1>d
    <3>1. y \in Nat
      OBVIOUS
    <3>2. Index(y) \in Bytes
      BY <3>1, IndexPos
    <3>3. ASSUME NEW x \in b .. p - 1
          PROVE  Index(x) # Index(y)
      <4>1. x \in Nat /\ x < y /\ y < x + Size
        BY <1>1, <2>1
      <4> QED BY <1>1, <3>1, <4>1, Apart DEF Index
    <3> QED BY <1>d, <1>2, <3>2, <3>3
  <2>3. F \subseteq D
    <3> SUFFICES ASSUME NEW i \in Bytes, i \notin Region(Pos(b), Pos(p))
                 PROVE  i \in D
      BY <1>d
    <3>1. PICK x \in b .. b + Size - 1 : i = Index(x)
      BY Covers
    <3>2. x \notin b .. p - 1
      BY <1>2, <3>1
    <3>3. x \in p .. p + n - 1
      BY <1>1, <2>1, <3>1, <3>2
    <3> QED BY <1>d, <3>1, <3>3
  <2> QED BY <2>1, <2>2, <2>3
<1> QED BY <1>1, <1>3, <1>4

\* The bytes a record at p takes, one after the other.
LEMMA NeededIs ==
  ASSUME RecordsFit, variant \in Variants, NEW p \in Nat, NEW length \in Lengths,
         NEW n, n = IF WrapDistance(p) >= Rounded(length) THEN Rounded(length)
                    ELSE WrapDistance(p) + Rounded(length)
  PROVE  Needed(Pos(p), length) = Stretch(p, n)
<1>1. PICK w \in 1 .. Size, i \in 0 .. Size - 1 :
        w = WrapDistance(p) /\ i = Index(p) /\ w = Size - i
  BY IndexPos DEF Bytes
<1>2. PICK R \in 1 .. Size : R = Rounded(length)
  BY RoundedFacts
<1>3. WrapDistance(Pos(p)) = w /\ Index(Pos(p)) = i /\ Size \in Nat \ {0}
  BY <1>1, IndexPos, Sizes
<1>4. ASSUME NEW k \in 0 .. Size - 1
      PROVE  Index(p + k) = IF k < w THEN i + k ELSE k - w
  <2>1. k \in 0 .. Size
    BY <1>3
  <2>2. Index(p + k) = IF i + k < Size THEN i + k ELSE i + k - Size
    BY <1>1, <2>1, IndexAdd
  <2> QED BY <1>1, <1>3, <2>2
<1>5. Extent(Pos(p), length) = i .. i + R - 1
  BY <1>2, <1>3 DEF Extent
<1>6. CASE w >= R
  <2>1. Needed(Pos(p), length) = i .. i + R - 1 /\ n = R
    BY <1>1, <1>2, <1>3, <1>5, <1>6 DEF Needed
  <2>2. ASSUME NEW y \in p .. p + R - 1
        PROVE  Index(y) \in i .. i + R - 1
    <3>1. y - p \in 0 .. Size - 1 /\ p + (y - p) = y /\ y - p < w /\ y - p < R
      BY <1>2, <1>3, <1>6
    <3>2. Index(p + (y - p)) = i + (y - p)
      BY <1>4, <3>1
    <3> QED BY <3>1, <3>2
  <2>3. ASSUME NEW j \in i .. i + R - 1
        PROVE  j \in {Index(y) : y \in p .. p + R - 1}
    <3>1. j - i \in 0 .. Size - 1 /\ j - i < w /\ p + (j - i) \in p .. p + R - 1
      BY <1>2, <1>3, <1>6
    <3>2. Index(p + (j - i)) = j
      BY <1>4, <3>1
    <3> QED BY <3>1, <3>2
  <2> QED BY <2>1, <2>2, <2>3 DEF Stretch
<1>7. CASE w < R
  <2>0. 0 % Size = 0
    BY <1>3, ModSmall
  <2>1. Needed(Pos(p), length) = (i .. Size - 1) \cup (0 .. R - 1) /\ n = w + R
    <3>1. Extent(0, length) = 0 .. R - 1
      BY <1>2, <2>0 DEF Extent, Index
    <3> QED BY <1>1, <1>2, <1>3, <1>7, <3>1 DEF Needed
  <2>2. ASSUME NEW j \in i .. Size - 1
        PROVE  j \in {Index(y) : y \in p .. p + (w + R) - 1}
    <3>1. j - i \in 0 .. Size - 1 /\ j - i < w /\ p + (j - i) \in p .. p + (w + R) - 1
      BY <1>1, <1>2, <1>3
    <3>2. Index(p + (j - i)) = j
      BY <1>4, <3>1
    <3> QED BY <3>1, <3>2
  <2>a. Index(p + w) = 0 /\ p + w \in Nat
    <3>1. w \in 0 .. Size /\ p + w \in Nat
      BY <1>3
    <3>2. Index(p + w) = IF i + w < Size THEN i + w ELSE i + w - Size
      BY <1>1, <3>1, IndexAdd
    <3> QED BY <1>1, <1>3, <3>1, <3>2
  <2>b. ASSUME NEW k \in 0 .. Size - 1
        PROVE  Index((p + w) + k) = k
    <3>1. k \in 0 .. Size
      BY <1>3
    <3>2. PICK q \in Nat : q = p + w
      BY <2>a
    <3>3. Index(q + k) = IF Index(q) + k < Size THEN Index(q) + k ELSE Index(q) + k - Size
      BY <3>1, IndexAdd
    <3> QED BY <1>3, <2>a, <3>2, <3>3
  <2>3. ASSUME NEW j \in 0 .. R - 1
        PROVE  j \in {Index(y) : y \in p .. p + (w + R) - 1}
    <3>1. j \in 0 .. Size - 1 /\ (p + w) + j \in p .. p + (w + R) - 1
      BY <1>2, <1>3
    <3>2. Index((p + w) + j) = j
      BY <2>b, <3>1
    <3> QED BY <3>1, <3>2
  <2>4. ASSUME NEW y \in p .. p + (w + R) - 1
        PROVE  Index(y) \in (i .. Size - 1) \cup (0 .. R - 1)
    <3>1. CASE y < p + w
      <4>1. PICK d \in 0 .. Size - 1 : p + d = y /\ d < w
        <5>1. y - p \in 0 .. Size - 1 /\ p + (y - p) = y /\ y - p < w
          BY <1>1, <1>3, <3>1
        <5> QED BY <5>1
      <4>2. Index(y) = i + d
        BY <1>4, <4>1
      <4>3. i + d \in i .. Size - 1
        BY <1>1, <1>3, <4>1
      <4> QED BY <4>2, <4>3
    <3>2. CASE ~(y < p + w)
      <4>1. y - (p + w) \in 0 .. Size - 1 /\ (p + w) + (y - (p + w)) = y
            /\ y - (p + w) \in 0 .. R - 1
        BY <1>2, <1>3, <3>2
      <4>2. Index((p + w) + (y - (p + w))) = y - (p + w)
        BY <2>b, <4>1
      <4> QED BY <4>1, <4>2
    <3> QED BY <3>1, <3>2
  <2> QED BY <2>1, <2>2, <2>3, <2>4 DEF Stretch
<1> QED BY <1>6, <1>7

LEMMA FullMeans ==
  ASSUME RecordsFit,
         variant \in Variants, NEW p \in Nat, NEW b \in Nat, b <= p, p <= b + Limit,
         NEW length \in Lengths,
         \/ p + Rounded(length) > b + Limit
         \/ /\ WrapDistance(p) < Rounded(length)
            /\ p + WrapDistance(p) + Rounded(length) > b + Limit
  PROVE  NoRoom(Pos(p), length, Bytes \ Region(Pos(b), Pos(p)))
<1>1. PICK w \in 1 .. Size, i \in 0 .. Size - 1 :
        w = WrapDistance(p) /\ i = Index(p) /\ w = Size - i
  BY IndexPos DEF Bytes
<1>2. PICK R \in 1 .. Size : R = Rounded(length)
  BY RoundedFacts
<1>3. /\ WrapDistance(Pos(p)) = w /\ Index(Pos(p)) = i /\ Size \in Nat \ {0}
      /\ Limit \in Nat
  BY <1>1, IndexPos, Sizes
<1>4. PICK n \in Nat : n = IF w >= R THEN R ELSE w + R
  BY <1>2
<1>5. p + n > b + Limit
  BY <1>1, <1>2, <1>3, <1>4
<1>6. CASE w < R /\ i < R
  BY <1>2, <1>3, <1>6 DEF NoRoom
<1>7. CASE ~(w < R /\ i < R)
  <2>1. n \in 1 .. Size
    BY <1>1, <1>2, <1>3, <1>4, <1>7
  <2>3. Needed(Pos(p), length) = Stretch(p, n)
    <3>1. n = IF WrapDistance(p) >= Rounded(length) THEN Rounded(length)
              ELSE WrapDistance(p) + Rounded(length)
      BY <1>1, <1>2, <1>4
    <3> QED BY <3>1, NeededIs, Zenon
  <2>4. \/ ~(Stretch(p, n) \subseteq Free(b, p))
        \/ ~Masked /\ Stretch(p, n) = Free(b, p)
    BY <1>5, <2>1, TooLong
  <2> QED BY <2>3, <2>4 DEF NoRoom, Free
<1> QED BY <1>6, <1>7

LEMMA RefusalIsRight ==
  ASSUME RecordsFit,
         Invariant, Next, pPc' = "idle", pPc \in {"reload", "wrap", "reloadWrap"}
  PROVE  NoRoom(producePos, pLen, Bytes \ Region(
           IF Cached THEN consumeSeen ELSE consumePosCache', producePos))
<1>1. PICK g, at : Consistent(g, at)
  BY DEF Invariant
<1>2. /\ variant \in Variants /\ g \in Ghosts /\ Places(g) /\ Order(g) /\ ProducerFrame(g)
  BY <1>1 DEF Consistent, Described
<1>3. /\ pLen \in Lengths /\ pPos = producePos /\ producePos = Pos(g.p)
      /\ consumePosCache = Pos(g.cc) /\ consumeSeen = Pos(g.cs)
      /\ g.p \in Nat /\ g.cc \in Nat /\ g.cs \in Nat
      /\ g.cc <= g.p /\ g.p <= g.cc + Limit
      /\ pPc = "reloadWrap" => Cached /\ WrapDistance(pPos) < Rounded(pLen)
  BY <1>2 DEF ProducerFrame, Places, Ghosts, Order
<1>4. g.cs <= g.p /\ g.p <= g.cs + Limit
  <2>1. g.cc <= g.cs /\ g.cs <= g.p /\ Limit \in Nat
    BY <1>2, Sizes DEF Order, Ghosts
  <2> QED BY <1>3, <2>1
<1>5. WrapDistance(pPos) = WrapDistance(g.p) /\ WrapDistance(g.p) \in 1 .. Size
      /\ Rounded(pLen) \in 1 .. Size /\ Limit \in Nat
  BY <1>2, <1>3, IndexPos, RoundedFacts, Sizes
<1>6. CASE Reload
  <2>1. consumePosCache' = consumeSeen /\ ~Fits(Used(producePos, consumeSeen), Rounded(pLen))
    BY <1>6 DEF Reload
  <2>2. ~(g.p + Rounded(pLen) <= g.cs + Limit)
    BY <1>2, <1>3, <1>4, <2>1, RoomMeans
  <2>3. g.p + Rounded(pLen) > g.cs + Limit
    BY <1>3, <1>5, <2>2
  <2>4. NoRoom(Pos(g.p), pLen, Bytes \ Region(Pos(g.cs), Pos(g.p)))
    BY <1>2, <1>3, <1>4, <2>3, FullMeans
  <2> QED BY <1>3, <2>1, <2>4
<1>7. CASE Wrap
  <2>1. /\ ~Cached /\ consumePosCache' = consumePosCache
        /\ WrapDistance(pPos) < Rounded(pLen)
        /\ ~Fits(Skipping(consumePosCache), Rounded(pLen))
    BY <1>7 DEF Wrap, WriteLength, WriteMarker, producerLine
  <2>2. ~(g.p + WrapDistance(g.p) + Rounded(pLen) <= g.cc + Limit)
    BY <1>2, <1>3, <1>5, <2>1, RoomMeans DEF Skipping
  <2>3. g.p + WrapDistance(g.p) + Rounded(pLen) > g.cc + Limit
    BY <1>3, <1>5, <2>2
  <2>4. NoRoom(Pos(g.p), pLen, Bytes \ Region(Pos(g.cc), Pos(g.p)))
    BY <1>2, <1>3, <1>5, <2>1, <2>3, FullMeans
  <2> QED BY <1>3, <2>1, <2>4
<1>8. CASE ReloadWrap
  <2>1. /\ pPc = "reloadWrap" /\ consumePosCache' = consumeSeen
        /\ ~Fits(Skipping(consumeSeen), Rounded(pLen))
    BY <1>8 DEF ReloadWrap, WriteMarker
  <2>2. ~(g.p + WrapDistance(g.p) + Rounded(pLen) <= g.cs + Limit)
    BY <1>2, <1>3, <1>4, <1>5, <2>1, RoomMeans DEF Skipping
  <2>3. g.p + WrapDistance(g.p) + Rounded(pLen) > g.cs + Limit
    BY <1>3, <1>5, <2>2
  <2>4. NoRoom(Pos(g.p), pLen, Bytes \ Region(Pos(g.cs), Pos(g.p)))
    BY <1>2, <1>3, <1>4, <1>5, <2>1, <2>3, FullMeans
  <2> QED BY <1>3, <2>1, <2>4
<1>9. ASSUME pPc' = pPc
      PROVE  FALSE
  BY <1>9
<1>10. CASE Produce \/ Fill \/ Refuse \/ Publish
  BY <1>10 DEF Produce, Fill, Refuse, Publish
<1>11. CASE ConsumerStep
  BY <1>9, <1>11 DEF ConsumerStep, Consume, ReloadProducePos, Take, ConsumeAll, Drain,
     DrainAgain, Decline, Release, producer
<1>12. CASE PropagateProducePos \/ PropagateConsumePos
  BY <1>9, <1>12 DEF PropagateProducePos, PropagateConsumePos, producer
<1> QED BY <1>6, <1>7, <1>8, <1>10, <1>11, <1>12 DEF Next, ProducerStep

\* Where every record fits, produce turns one down only when the free bytes have
\* no room for it in one piece, or with offsets just that room, going by the
\* consumer's position that it loaded in this call, not by a cached one.
THEOREM RefusedOnlyWhenFull ==
  ASSUME RecordsFit, Mixes
  PROVE  Spec => RefusedMeansFull
<1>1. Invariant /\ [Next]_vars =>
        [/\ pPc' = "idle"
         /\ pPc \in {"reload", "wrap", "reloadWrap"}
         => NoRoom(producePos, pLen, Bytes \ Region(
              IF Cached THEN consumeSeen ELSE consumePosCache', producePos))]_vars
  BY RefusalIsRight
<1> QED BY <1>1, InvariantHolds, PTL DEF Spec, RefusedMeansFull
=============================================================================
