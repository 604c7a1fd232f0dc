----------------------- MODULE ChunkedRingBufferProofs -----------------------
(***************************************************************************)
(* Theorems about ChunkedRingBuffer, for every number and size of chunks,  *)
(* header and alignment, all record lengths produce lets through, and      *)
(* callbacks that give up whenever they like and change their mind or not. *)
(***************************************************************************)
EXTENDS ChunkedRingBuffer, TLAPS

-----------------------------------------------------------------------------
(* The invariant.                                                          *)

\* Every byte an end ever passed in a chunk has a number, and a position is its
\* remainder.  So have the chunks the ends ever entered: a visit to a chunk is
\* an era, and the chunk its remainder.
Pos(x) == x % ChunkSize
At(f) == [ch \in Chunks |-> Pos(f[ch])]
ChunkOf(e) == e % ChunkCount

Multiple == {x \in Nat : x % Align = 0}
Numbering == [Chunks -> Multiple]

\* p and c are the ends, the consumer's as far as the call in progress got; cp
\* is what it stored of c; pc and cc are what the caches say.  newest is the last
\* era something was published in.  behind: records were taken from the era
\* after tail, and tail was not stored.
Ghosts == [p : Numbering, pc : Numbering, c : Numbering, cp : Numbering, cc : Numbering,
           head : Nat, newest : Nat, tail : Nat, behind : BOOLEAN]

Places(g) ==
  /\ producePos = At(g.p) /\ producePosCache = At(g.pc)
  /\ consumePos = At(g.cp) /\ consumePosCache = At(g.cc)
  /\ headChunk = ChunkOf(g.head) /\ tailChunk = ChunkOf(g.tail)

\* In every chunk the ends never meet from behind.
Order(g) ==
  /\ \A ch \in Chunks : /\ g.cc[ch] <= g.cp[ch] /\ g.cp[ch] <= g.c[ch]
                        /\ g.c[ch] <= g.pc[ch] /\ g.pc[ch] <= g.p[ch]
                        /\ g.p[ch] < g.cc[ch] + ChunkSize
  /\ g.tail <= g.head /\ g.head <= g.newest

\* What one thread can know of the other's ends: the state after some of its
\* stores.  v[k] is that after the first k of those still to be seen.
View == [pos : Numbering, era : Nat]

Stored(s, v, w) ==
  IF s.position
  THEN /\ s.value = Pos(w.pos[s.chunk]) /\ w.era = v.era
       /\ \A ch \in Chunks \ {s.chunk} : w.pos[ch] = v.pos[ch]
  ELSE s.chunk = ChunkOf(w.era) /\ w.pos = v.pos

Later(v, w) == (\A ch \in Chunks : v.pos[ch] <= w.pos[ch]) /\ v.era <= w.era

Viewed(q, v, seenPos, seenChunk, pos, era) ==
  /\ v \in [0 .. Len(q) -> View]
  /\ seenPos = At(v[0].pos) /\ seenChunk = ChunkOf(v[0].era)
  /\ v[Len(q)] = [pos |-> pos, era |-> era]
  /\ \A k \in 1 .. Len(q) : Stored(q[k], v[k - 1], v[k])
  /\ \A j, k \in 0 .. Len(q) : j <= k => Later(v[j], v[k])

\* What produce lets through.
Fitting == {length \in Lengths : 0 < length /\ length < ChunkSize \div 2}

\* Where the record begins that is at x of chunk ch or, behind a marker, at the
\* start.
WrapAt(x) == ChunkSize - Pos(x)
Marked(ch, x) == Pos(x) # 0 /\ buffer[ch][Pos(x)] = -WrapAt(x)
Start(ch, x) == IF buffer[ch][Pos(x)] >= 0 THEN x ELSE x + WrapAt(x)

\* Record r takes the bytes of chunk ch from x to y, a marker included.
Link(ch, x, y, r) ==
  /\ buffer[ch][Pos(x)] \in Fitting \/ Marked(ch, x)
  /\ r.length \in Fitting /\ buffer[ch][Pos(Start(ch, x))] = r.length
  /\ WrapAt(Start(ch, x)) >= Rounded(r.length)
  /\ y = Start(ch, x) + Rounded(r.length)
  /\ r = RecordAt(ch, Pos(Start(ch, x)), r.length)

\* Where each of the records is.
Span == [era : Nat, from : Multiple, to : Multiple]

\* A place in chunk ch between two records, or behind the last.
Boundary(g, at, ch, x) ==
  \/ x = g.p[ch]
  \/ \E k \in DOMAIN at : ChunkOf(at[k].era) = ch /\ at[k].from = x

\* How far a record is from the start of era 0, each era taken for a chunk.
Far(g, s) == s.era * ChunkSize + (s.from - g.c[ChunkOf(s.era)])

\* The records fill the chunks from the consumer's to the producer's end, in
\* the order of the eras.
Chain(g, at) ==
  /\ at \in [1 .. Len(records) -> Span]
  /\ \A k \in 1 .. Len(records) : LET ch == ChunkOf(at[k].era) IN
       /\ g.tail <= at[k].era /\ at[k].era <= g.newest
       /\ g.c[ch] <= at[k].from /\ at[k].to <= g.p[ch]
       /\ Link(ch, at[k].from, at[k].to, records[k])
       /\ Boundary(g, at, ch, at[k].to)
  /\ \A j, k \in 1 .. Len(records) : j < k =>
       \/ at[j].era < at[k].era
       \/ at[j].era = at[k].era /\ at[j].to <= at[k].from
  /\ \A j, k \in 1 .. Len(records) : j <= k =>
       Far(g, at[j]) + (k - j) * Align <= Far(g, at[k])
  /\ \A ch \in Chunks : Boundary(g, at, ch, g.c[ch]) /\ Boundary(g, at, ch, g.pc[ch])

\* The producer has left a chunk for good when the next one is seen, and has
\* put a record there, which the consumer has taken only if tail is behind.
ProducerView(g, at, v) ==
  /\ \A ch \in Chunks : /\ g.pc[ch] <= v.pos[ch] /\ v.pos[ch] <= g.p[ch]
                        /\ Boundary(g, at, ch, v.pos[ch])
  /\ g.tail <= v.era /\ v.era <= g.head
  /\ \A e \in g.tail .. v.era - 1 : v.pos[ChunkOf(e)] = g.p[ChunkOf(e)]
  /\ \A e \in g.tail + 1 .. v.era : \/ g.c[ChunkOf(e)] < v.pos[ChunkOf(e)]
                                    \/ g.behind /\ e = g.tail + 1

\* A chunk the producer may enter is empty to the last byte.
ConsumerView(g, v) ==
  /\ \A ch \in Chunks : g.cc[ch] <= v.pos[ch] /\ v.pos[ch] <= g.cp[ch]
  /\ v.era <= g.tail /\ g.newest < v.era + ChunkCount
  /\ \A e \in g.newest + 1 .. v.era + ChunkCount - 1 :
       v.pos[ChunkOf(e)] = g.p[ChunkOf(e)]

Views(g, at, pv, cv) ==
  /\ Viewed(toConsumer, pv, produceSeen, headSeen, g.p, g.head)
  /\ Viewed(toProducer, cv, consumeSeen, tailSeen, g.cp, g.tail)
  /\ \A k \in 0 .. Len(toConsumer) : ProducerView(g, at, pv[k])
  /\ \A k \in 0 .. Len(toProducer) : ConsumerView(g, cv[k])

\* The producer may go on to the next era.
MayEnter(g, cv) == g.head + 1 < cv[0].era + ChunkCount

ProducerFrame(g, cv) ==
  /\ pPc \in {"idle", "reload", "wrap", "reloadWrap", "cross", "enter", "fill", "publish",
              "publishHead"}
  /\ pPc # "idle" => pLen \in Fitting
  /\ pPc \in {"reload", "wrap", "reloadWrap", "cross"} => pChunk = headChunk
  /\ pPc \in {"reload", "wrap", "reloadWrap", "enter"} => pPos = producePos[pChunk]
  /\ pPc \in {"wrap", "reloadWrap"} =>
       g.p[pChunk] + Rounded(pLen) < g.cc[pChunk] + ChunkSize
  /\ pPc = "reloadWrap" => WrapDistance(pPos) < Rounded(pLen)
  /\ pPc \in {"enter", "publishHead"} => pChunk = ChunkOf(g.head + 1) /\ pChunk # headChunk
  /\ pPc = "enter" => MayEnter(g, cv)
  /\ pPc \in {"fill", "publish"} =>
       /\ pChunk = headChunk \/ (pChunk = ChunkOf(g.head + 1) /\ MayEnter(g, cv))
       /\ pPos = Pos(Start(pChunk, g.p[pChunk]))
       /\ \E y \in Multiple :
            /\ Link(pChunk, g.p[pChunk], y, RecordAt(pChunk, pPos, pLen))
            /\ y < g.cc[pChunk] + ChunkSize
  /\ pPc = "publish" => \E e \in Elem : RecordAt(pChunk, pPos, pLen).data = {e}
  /\ pPc = "publishHead" => g.c[pChunk] < g.p[pChunk]
  /\ g.newest = IF pPc = "publishHead" THEN g.head + 1 ELSE g.head

\* The consumer's chunk is empty and will be: the producer was seen to leave it.
Emptied(g, pv) ==
  g.tail < pv[0].era /\ g.c[ChunkOf(g.tail)] = g.p[ChunkOf(g.tail)]

ConsumerFrame(g, pv) ==
  /\ cPc \in {"idle", "loadHead", "reload", "cross", "take", "takeFirst", "release",
              "releaseFirst", "releaseTail"}
  /\ \A ch \in Chunks :
       ~(cPc \in {"release", "releaseFirst"} /\ ch = cChunk) => g.c[ch] = g.cp[ch]
  /\ cPc \in {"release", "releaseFirst"} => cPos = Pos(g.c[cChunk])
  /\ cPc \in {"loadHead", "reload", "cross"} => cChunk = tailChunk
  /\ cPc \in {"loadHead", "reload", "takeFirst"} => cPos = consumePos[cChunk]
  /\ cPc = "reload" => \E e \in g.tail .. pv[0].era : cHead = ChunkOf(e)
  /\ cPc \in {"cross", "takeFirst"} => Emptied(g, pv)
  /\ cPc \in {"take", "takeFirst"} => g.c[cChunk] < g.pc[cChunk]
  /\ cPc = "take" =>
       \/ cChunk = tailChunk /\ cPos = consumePos[cChunk]
       \/ /\ cChunk = ChunkOf(g.tail + 1) /\ cPos = Unmarked(consumePos[cChunk])
          /\ Emptied(g, pv)
  /\ cPc \in {"takeFirst", "releaseFirst", "releaseTail"} => cChunk = ChunkOf(g.tail + 1)
  /\ cPc = "release" => cChunk = tailChunk \/ (cChunk = ChunkOf(g.tail + 1) /\ g.behind)
  /\ cPc \in {"releaseFirst", "releaseTail"} => g.behind
  /\ g.behind => /\ Emptied(g, pv)
                 /\ Firm => cPc \in {"releaseFirst", "releaseTail"}

\* What the queue of records is made of.
Whole == [length : Lengths, data : {{e} : e \in Elem}]

Store == [position : BOOLEAN, chunk : Chunks, value : Bytes]

Typed ==
  /\ instance \in Instances /\ records \in Seq(Whole)
  /\ toConsumer \in Seq(Store) /\ toProducer \in Seq(Store)
  /\ buffer \in [Chunks -> [Bytes -> Elem \cup {Raw} \cup Numbers]]
  /\ {pChunk, cChunk, cHead} \subseteq Chunks
  /\ {pPos, cPos} \subseteq Bytes /\ pLen \in Lengths \cup {0}

Consistent(g, at, pv, cv) ==
  /\ Typed
  /\ g \in Ghosts /\ Places(g) /\ Order(g) /\ Chain(g, at) /\ Views(g, at, pv, cv)
  /\ ProducerFrame(g, cv) /\ ConsumerFrame(g, pv)

Invariant == \E g, at, pv, cv : Consistent(g, at, pv, cv)
-----------------------------------------------------------------------------
(* Remainders.                                                             *)

LEMMA DivMod ==
  ASSUME NEW m \in Nat \ {0}, NEW x \in Nat
  PROVE  x % m \in 0 .. m - 1 /\ x \div m \in Nat /\ x = (x \div m) * m + (x % m)
<1>1. x % m \in 0 .. m - 1
  OBVIOUS
<1>2. x \div m \in Int /\ x = (x \div m) * m + (x % m)
  OBVIOUS
<1>3. x \div m >= 0
  OBVIOUS
<1> QED BY <1>1, <1>2, <1>3

LEMMA ModUnique ==
  ASSUME NEW m \in Nat \ {0}, NEW q \in Nat, NEW r \in 0 .. m - 1
  PROVE  (q * m + r) % m = r
OBVIOUS

LEMMA ModAdd ==
  ASSUME NEW m \in Nat \ {0}, NEW a \in Nat, NEW n \in 0 .. m
  PROVE  (a + n) % m = IF (a % m) + n < m THEN (a % m) + n ELSE (a % m) + n - m
<1>1. PICK q \in Nat, r \in 0 .. m - 1 : a = q * m + r /\ r = a % m
  BY DivMod
<1>2. CASE r + n < m
  <2>1. r + n \in 0 .. m - 1 /\ a + n = q * m + (r + n)
    BY <1>1, <1>2
  <2>2. (q * m + (r + n)) % m = r + n
    BY <2>1, ModUnique
  <2> QED BY <1>1, <1>2, <2>1, <2>2
<1>3. CASE r + n >= m
  <2>1. r + n - m \in 0 .. m - 1 /\ q + 1 \in Nat /\ a + n = (q + 1) * m + (r + n - m)
    BY <1>1, <1>3
  <2>2. ((q + 1) * m + (r + n - m)) % m = r + n - m
    BY <2>1, ModUnique
  <2> QED BY <1>1, <1>3, <2>1, <2>2
<1> QED BY <1>1, <1>2, <1>3

\* Two numbers less than m apart have different remainders.
LEMMA Apart ==
  ASSUME NEW m \in Nat \ {0}, NEW a \in Nat, NEW b \in Nat, a < b, b < a + m
  PROVE  a % m # b % m
<1>1. b - a \in 0 .. m /\ a + (b - a) = b
  OBVIOUS
<1>2. b % m = IF (a % m) + (b - a) < m THEN (a % m) + (b - a) ELSE (a % m) + (b - a) - m
  BY <1>1, ModAdd
<1>3. a % m \in 0 .. m - 1
  BY DivMod
<1> QED BY <1>1, <1>2, <1>3

LEMMA ModSmall ==
  ASSUME NEW m \in Nat \ {0}, NEW a \in 0 .. m - 1
  PROVE  a % m = a
<1>1. 0 * m + a = a
  OBVIOUS
<1> QED BY <1>1, ModUnique

LEMMA Divides ==
  ASSUME NEW m \in Nat \ {0}, NEW a \in Nat, a % m = 0
  PROVE  \E q \in Nat : a = q * m
<1> SUFFICES ASSUME NEW q \in Nat, a = q * m + 0
             PROVE  a = q * m
  BY DivMod
<1> QED OBVIOUS

LEMMA ModMod ==
  ASSUME NEW m \in Nat \ {0}, NEW n \in Nat \ {0}, n % m = 0, NEW x \in Nat
  PROVE  (x % n) % m = x % m
<1>1. PICK q \in Nat, r \in 0 .. n - 1 : x = q * n + r /\ r = x % n
  BY DivMod
<1>2. PICK k \in Nat : n = k * m
  BY Divides
<1>3. PICK h \in Nat, s \in 0 .. m - 1 : r = h * m + s /\ s = r % m
  <2>1. r \in Nat
    OBVIOUS
  <2> QED BY <2>1, DivMod
<1>4. q * k + h \in Nat
  OBVIOUS
<1>5. x = (q * k + h) * m + s
  <2>1. q * n = q * (k * m)
    BY <1>2
  <2>2. q * (k * m) = (q * k) * m
    OBVIOUS
  <2>3. (q * k + h) * m = (q * k) * m + h * m
    OBVIOUS
  <2>4. q * n + r = (q * k) * m + (h * m + s)
    BY <1>3, <2>1, <2>2
  <2>5. (q * k) * m \in Int /\ h * m \in Int /\ s \in Int
    OBVIOUS
  <2>6. (q * k) * m + (h * m + s) = ((q * k) * m + h * m) + s
    BY <2>5
  <2> QED BY <1>1, <2>3, <2>4, <2>6
<1>6. ((q * k + h) * m + s) % m = s
  BY <1>4, ModUnique
<1> QED BY <1>1, <1>3, <1>5, <1>6

LEMMA Multiples ==
  ASSUME NEW m \in Nat \ {0}, NEW a \in Nat, NEW b \in Nat, a % m = 0, b % m = 0
  PROVE  (a + b) % m = 0 /\ (a >= b => (a - b) % m = 0)
<1>1. PICK q \in Nat : a = q * m
  BY Divides
<1>2. PICK k \in Nat : b = k * m
  BY Divides
<1>3. \A h \in Nat : (h * m) % m = 0
  <2> SUFFICES ASSUME NEW h \in Nat
               PROVE  (h * m) % m = 0
    OBVIOUS
  <2>1. h * m + 0 = h * m /\ 0 \in 0 .. m - 1
    OBVIOUS
  <2> QED BY <2>1, ModUnique
<1>4. a + b = (q + k) * m /\ q + k \in Nat
  BY <1>1, <1>2
<1>5. ASSUME a >= b PROVE (a - b) % m = 0
  <2>1. a - b = (q - k) * m
    BY <1>1, <1>2
  <2>2. q >= k
    <3>1. CASE q < k
      <4>1. q + 1 <= k /\ (k - q - 1) * m >= 0
        BY <3>1
      <4>2. k * m = q * m + m + (k - q - 1) * m
        OBVIOUS
      <4> QED BY <1>1, <1>2, <1>5, <4>1, <4>2
    <3> QED BY <3>1
  <2> QED BY <1>3, <2>1, <2>2
<1> QED BY <1>3, <1>4, <1>5

LEMMA ModNegative ==
  ASSUME NEW m \in Nat \ {0}, NEW a \in 1 .. m - 1
  PROVE  (-a) % m = m - a
OBVIOUS

LEMMA OneMore ==
  ASSUME NEW m \in Nat \ {0}, NEW i \in Int
  PROVE  (i + 1) * m = i * m + m /\ i * m \in Int
OBVIOUS

-----------------------------------------------------------------------------
(* Positions.                                                              *)

LEMMA Sizes ==
  ASSUME instance \in Instances
  PROVE  /\ ChunkSize \in Nat \ {0} /\ ChunkCount \in Nat \ {0} /\ Align \in Nat \ {0}
         /\ ChunkSize % Align = 0 /\ Header \in 1 .. Align
BY InstancesAssumption, AlignAssumption, HeaderAssumption DEF ChunkSize, ChunkCount

LEMMA Naturals ==
  ASSUME instance \in Instances
  PROVE  ChunkSize \in Nat /\ ChunkCount \in Nat /\ Align \in Nat /\ Header \in Nat
         /\ ChunkSize > 0 /\ ChunkCount > 0 /\ Align > 0 /\ Header > 0
BY Sizes

LEMMA MultipleFacts ==
  ASSUME NEW x \in Multiple
  PROVE  x \in Nat /\ x % Align = 0
BY DEF Multiple

LEMMA PosRange ==
  ASSUME instance \in Instances, NEW x \in Nat
  PROVE  /\ Pos(x) \in Bytes /\ Pos(x) \in 0 .. ChunkSize - 1
         /\ WrapAt(x) \in 1 .. ChunkSize /\ WrapAt(x) = ChunkSize - Pos(x)
         /\ WrapDistance(Pos(x)) = WrapAt(x)
         /\ x % Align = 0 => Pos(x) % Align = 0 /\ WrapAt(x) % Align = 0
<1>1. Pos(x) \in 0 .. ChunkSize - 1
  BY Sizes, DivMod DEF Pos
<1>2. x % Align = 0 => Pos(x) % Align = 0
  BY Sizes, ModMod DEF Pos
<1>3. x % Align = 0 => (ChunkSize - Pos(x)) % Align = 0
  <2> SUFFICES ASSUME x % Align = 0
               PROVE  (ChunkSize - Pos(x)) % Align = 0
    OBVIOUS
  <2>1. PICK r \in 0 .. ChunkSize - 1 : r = Pos(x)
    BY <1>1
  <2>2. ChunkSize \in Nat /\ r \in Nat /\ ChunkSize >= r
    BY <2>1, Sizes
  <2> QED BY <1>2, <2>1, <2>2, Sizes, Multiples
<1> QED BY <1>1, <1>2, <1>3, Sizes DEF Bytes, WrapAt, WrapDistance

LEMMA PosAdd ==
  ASSUME instance \in Instances, NEW x \in Nat, NEW n \in 0 .. ChunkSize
  PROVE  Pos(x + n) = IF Pos(x) + n < ChunkSize THEN Pos(x) + n ELSE Pos(x) + n - ChunkSize
BY Sizes, ModAdd DEF Pos

LEMMA PosApart ==
  ASSUME instance \in Instances, NEW x \in Nat, NEW y \in Nat, x < y, y < x + ChunkSize
  PROVE  Pos(x) # Pos(y)
BY Sizes, Apart DEF Pos

LEMMA PosZero == instance \in Instances => Pos(0) = 0
BY Sizes, ModSmall DEF Pos

\* The distance from one position on to another.
LEMMA PosDistance ==
  ASSUME instance \in Instances, NEW x \in Nat, NEW y \in Nat, x <= y, y < x + ChunkSize
  PROVE  (Pos(y) - Pos(x)) % ChunkSize = y - x
<1>1. PICK d \in 0 .. ChunkSize - 1 : d = y - x /\ x + d = y
  BY Sizes
<1>2. PICK r \in 0 .. ChunkSize - 1, s \in 0 .. ChunkSize - 1 : r = Pos(x) /\ s = Pos(y)
  BY PosRange
<1>3. s = IF r + d < ChunkSize THEN r + d ELSE r + d - ChunkSize
  <2>1. d \in 0 .. ChunkSize
    BY Sizes
  <2> QED BY <1>1, <1>2, <2>1, PosAdd
<1>4. (s - r) % ChunkSize = d
  <2>1. CASE r + d < ChunkSize
    <3>1. s - r = d
      BY <1>3, <2>1
    <3> QED BY <3>1, Sizes, ModSmall
  <2>2. CASE ~(r + d < ChunkSize)
    <3>1. ChunkSize - d \in 1 .. ChunkSize - 1
      BY <2>2, Sizes
    <3>2. (-(ChunkSize - d)) % ChunkSize = ChunkSize - (ChunkSize - d)
      BY <3>1, Sizes, ModNegative
    <3>3. s - r = -(ChunkSize - d) /\ ChunkSize - (ChunkSize - d) = d
      BY <1>3, <2>2, Sizes
    <3> QED BY <3>2, <3>3
  <2> QED BY <2>1, <2>2
<1> QED BY <1>1, <1>2, <1>4

\* One chunk further on a position is the same.
LEMMA PosOnce ==
  ASSUME instance \in Instances, NEW x \in Nat
  PROVE  Pos(x + ChunkSize) = Pos(x)
<1>1. PICK r \in 0 .. ChunkSize - 1 : r = Pos(x)
  BY PosRange
<1>2. ChunkSize \in 0 .. ChunkSize
  BY Sizes
<1> QED BY <1>1, <1>2, PosAdd, Sizes

LEMMA WrapPos ==
  ASSUME instance \in Instances, NEW x \in Nat
  PROVE  Pos(x + WrapAt(x)) = 0 /\ x + WrapAt(x) \in Nat
<1>1. PICK r \in 0 .. ChunkSize - 1, w \in 0 .. ChunkSize :
         r = Pos(x) /\ w = WrapAt(x) /\ r + w = ChunkSize
  BY PosRange, Sizes
<1>2. Pos(x + w) = IF r + w < ChunkSize THEN r + w ELSE r + w - ChunkSize
  BY <1>1, PosAdd
<1> QED BY <1>1, <1>2, Sizes

LEMMA RoundedFacts ==
  ASSUME instance \in Instances, NEW length \in Lengths, length < ChunkSize \div 2
  PROVE  /\ length \in Nat /\ Rounded(length) \in Nat /\ 2 * Rounded(length) <= ChunkSize
         /\ Rounded(length) % Align = 0 /\ Rounded(length) >= length + Header
         /\ Rounded(length) >= Align /\ Rounded(length) < ChunkSize
         /\ Rounded(length) \in 0 .. ChunkSize
<1>1. length \in Nat /\ 2 * Rounded(length) <= ChunkSize
  BY LengthsAssumption DEF ChunkSize
<1>2. ChunkSize \in Nat /\ Align \in Nat \ {0} /\ Header \in 1 .. Align
  BY Sizes
<1> DEFINE z == length + Header + Align - 1
<1>3. z \in Nat
  BY <1>1, <1>2
<1>4. Rounded(length) = (z \div Align) * Align
  BY DEF Rounded
<1> HIDE DEF z
<1>5. PICK q \in Nat, r \in 0 .. Align - 1 : z = q * Align + r /\ q = z \div Align
  BY <1>2, <1>3, DivMod
<1>6. q * Align >= length + Header
  BY <1>1, <1>2, <1>5 DEF z
<1>7. (q * Align) % Align = 0
  <2>1. q * Align + 0 = q * Align /\ 0 \in 0 .. Align - 1
    BY <1>2
  <2> QED BY <1>2, <2>1, ModUnique
<1>8. q * Align >= Align
  <2>1. q # 0
    BY <1>1, <1>2, <1>6
  <2>2. (q - 1) * Align >= 0 /\ q * Align = (q - 1) * Align + Align
    BY <1>2, <2>1
  <2> QED BY <1>2, <2>2
<1>9. PICK m \in Nat : m = q * Align
  BY <1>2
<1>10. m >= length + Header /\ m >= Align /\ 2 * m <= ChunkSize
  BY <1>1, <1>4, <1>5, <1>6, <1>8, <1>9
<1> QED BY <1>1, <1>2, <1>4, <1>5, <1>7, <1>9, <1>10

LEMMA FittingFacts ==
  ASSUME instance \in Instances, NEW length \in Fitting
  PROVE  /\ length \in Lengths /\ length \in Nat /\ length > 0 /\ length \in Numbers
         /\ Rounded(length) \in Nat /\ 2 * Rounded(length) <= ChunkSize
         /\ Rounded(length) % Align = 0 /\ Rounded(length) >= length + Header
         /\ Rounded(length) >= Align /\ Rounded(length) < ChunkSize
         /\ Rounded(length) \in 0 .. ChunkSize
<1>1. length \in Lengths /\ 0 < length /\ length < ChunkSize \div 2
  BY DEF Fitting
<1>2. /\ length \in Nat /\ Rounded(length) \in Nat /\ 2 * Rounded(length) <= ChunkSize
      /\ Rounded(length) % Align = 0 /\ Rounded(length) >= length + Header
      /\ Rounded(length) >= Align /\ Rounded(length) < ChunkSize
      /\ Rounded(length) \in 0 .. ChunkSize
  BY <1>1, RoundedFacts
<1>3. length \in Numbers
  BY <1>1, <1>2, Naturals DEF Numbers
<1> QED BY <1>1, <1>2, <1>3

LEMMA AdvancePos ==
  ASSUME instance \in Instances, NEW x \in Nat, NEW length \in Fitting
  PROVE  Advance(Pos(x), length) = Pos(x + Rounded(length))
<1>1. PICK n \in 0 .. ChunkSize : n = Rounded(length)
  BY FittingFacts
<1>2. PICK r \in 0 .. ChunkSize - 1 : r = Pos(x)
  BY PosRange
<1>3. Pos(r + n) = IF Pos(r) + n < ChunkSize THEN Pos(r) + n ELSE Pos(r) + n - ChunkSize
  BY <1>1, <1>2, PosAdd, Sizes
<1>4. Pos(r) = r
  BY <1>2, Sizes, ModSmall DEF Pos
<1>5. Pos(x + n) = IF r + n < ChunkSize THEN r + n ELSE r + n - ChunkSize
  BY <1>1, <1>2, PosAdd
<1>6. Pos(r + n) = Pos(x + n)
  BY <1>3, <1>4, <1>5
<1> QED BY <1>1, <1>2, <1>6 DEF Advance, Pos

\* The test for room says what it should about the ends.
LEMMA CrowdedMeans ==
  ASSUME instance \in Instances, NEW x \in Nat, NEW y \in Nat, x <= y, y < x + ChunkSize,
         NEW length \in Fitting, ~Crowded(Pos(x), Pos(y), length)
  PROVE  y + Rounded(length) < x + ChunkSize
<1>1. /\ Rounded(length) \in Nat /\ Rounded(length) < ChunkSize
      /\ ChunkSize \in Nat \ {0}
  BY FittingFacts, Sizes
<1>2. CASE Pos(x) = Pos(y)
  <2>1. ~(x < y)
    BY <1>2, PosApart
  <2> QED BY <1>1, <2>1
<1>3. CASE Pos(x) # Pos(y)
  <2>1. ~((Pos(x) - Pos(y)) % ChunkSize <= Rounded(length))
    BY <1>3 DEF Crowded
  <2>2. x # y
    BY <1>3
  <2>3. y <= x + ChunkSize /\ x + ChunkSize < y + ChunkSize /\ x + ChunkSize \in Nat
    BY <1>1, <2>2
  <2>4. (Pos(x + ChunkSize) - Pos(y)) % ChunkSize = (x + ChunkSize) - y
    BY <2>3, PosDistance
  <2>5. Pos(x + ChunkSize) = Pos(x)
    BY PosOnce
  <2> QED BY <1>1, <2>1, <2>4, <2>5
<1> QED BY <1>2, <1>3

\* So does the test for room at the start of the chunk.
LEMMA WrapMeans ==
  ASSUME instance \in Instances, NEW x \in Nat, NEW y \in Nat, x <= y, y < x + ChunkSize,
         NEW length \in Fitting, y + Rounded(length) < x + ChunkSize,
         WrapAt(y) < Rounded(length), Pos(x) > Rounded(length)
  PROVE  y + WrapAt(y) + Rounded(length) < x + ChunkSize
<1>1. PICK R \in Nat, S \in Nat : R = Rounded(length) /\ S = ChunkSize /\ 2 * R <= S /\ R > 0
  BY FittingFacts, Naturals
<1>2. PICK s \in 0 .. S - 1, r \in 0 .. S - 1, w \in 1 .. S :
        s = Pos(x) /\ r = Pos(y) /\ w = WrapAt(y) /\ w = S - r
  BY <1>1, PosRange
<1>3. PICK d \in 0 .. S - 1 : d = y - x /\ x + d = y
  BY <1>1
<1>4. r = IF s + d < S THEN s + d ELSE s + d - S
  <2>1. d \in 0 .. ChunkSize
    BY <1>1, <1>3
  <2>2. Pos(x + d) = IF Pos(x) + d < ChunkSize THEN Pos(x) + d ELSE Pos(x) + d - ChunkSize
    BY <2>1, PosAdd
  <2> QED BY <1>1, <1>2, <1>3, <2>2
<1>5. s > R /\ w < R /\ d + R < S
  BY <1>1, <1>2, <1>3
<1>6. d + w + R < S
  <2>1. CASE s + d < S
    BY <1>1, <1>2, <1>4, <1>5, <2>1
  <2>2. CASE ~(s + d < S)
    BY <1>1, <1>2, <1>4, <1>5, <2>2
  <2> QED BY <2>1, <2>2
<1> QED BY <1>1, <1>2, <1>3, <1>6

\* In an empty chunk there is room in one piece or at the start.
LEMMA WrapEmpty ==
  ASSUME instance \in Instances, NEW y \in Nat, NEW length \in Lengths,
         length < ChunkSize \div 2, WrapAt(y) < Rounded(length)
  PROVE  /\ Pos(y) > Rounded(length)
         /\ y + WrapAt(y) + Rounded(length) < y + ChunkSize
<1>1. PICK R \in Nat, S \in Nat : R = Rounded(length) /\ S = ChunkSize /\ 2 * R <= S
  BY RoundedFacts, Naturals
<1>2. PICK r \in 0 .. S - 1, w \in 1 .. S : r = Pos(y) /\ w = WrapAt(y) /\ w = S - r
  BY <1>1, PosRange
<1>3. w < R
  BY <1>1, <1>2
<1> QED BY <1>1, <1>2, <1>3

\* The bytes from one position to another are those between the two numbers.
LEMMA RegionPos ==
  ASSUME instance \in Instances, NEW a \in Nat, NEW b \in Nat, a <= b, b < a + ChunkSize
  PROVE  Region(Pos(a), Pos(b)) = {Pos(x) : x \in a .. b - 1}
<1>1. \A k \in 0 .. ChunkSize : (Pos(a) + k) % ChunkSize = Pos(a + k)
  <2> SUFFICES ASSUME NEW k \in 0 .. ChunkSize
               PROVE  (Pos(a) + k) % ChunkSize = Pos(a + k)
    OBVIOUS
  <2>1. PICK r \in 0 .. ChunkSize - 1 : r = Pos(a) /\ r = a % ChunkSize
    BY PosRange DEF Pos
  <2>0. r \in Nat
    BY Sizes
  <2>2. (r + k) % ChunkSize = IF (r % ChunkSize) + k < ChunkSize THEN (r % ChunkSize) + k
                                                        ELSE (r % ChunkSize) + k - ChunkSize
    BY <2>0, Sizes, ModAdd
  <2>3. r % ChunkSize = r
    BY Sizes, ModSmall
  <2>4. Pos(a + k) = IF Pos(a) + k < ChunkSize THEN Pos(a) + k ELSE Pos(a) + k - ChunkSize
    BY PosAdd
  <2> QED BY <2>1, <2>2, <2>3, <2>4
<1>2. (Pos(b) - Pos(a)) % ChunkSize = b - a
  BY PosDistance
<1>3. Region(Pos(a), Pos(b)) = {(Pos(a) + k) % ChunkSize : k \in 0 .. (b - a) - 1}
  BY <1>2 DEF Region
<1>4. \A k \in 0 .. (b - a) - 1 : a + k \in a .. b - 1 /\ (Pos(a) + k) % ChunkSize = Pos(a + k)
  <2>1. \A k \in 0 .. (b - a) - 1 : k \in 0 .. ChunkSize
    BY Sizes
  <2> QED BY <1>1, <2>1
<1>5. \A x \in a .. b - 1 : x - a \in 0 .. (b - a) - 1 /\ a + (x - a) = x
  OBVIOUS
<1>6. \A x \in a .. b - 1 : Pos(x) = (Pos(a) + (x - a)) % ChunkSize
  BY <1>4, <1>5
<1> HIDE DEF Region
<1> QED BY <1>3, <1>4, <1>5, <1>6

-----------------------------------------------------------------------------
(* Eras.                                                                   *)

LEMMA ChunkOfRange ==
  ASSUME instance \in Instances, NEW e \in Nat
  PROVE  ChunkOf(e) \in Chunks
<1>1. e % ChunkCount \in 0 .. ChunkCount - 1
  BY Sizes, DivMod
<1> QED BY <1>1 DEF ChunkOf, Chunks

LEMMA EraApart ==
  ASSUME instance \in Instances, NEW d \in Nat, NEW e \in Nat, d < e, e < d + ChunkCount
  PROVE  ChunkOf(d) # ChunkOf(e)
BY Sizes, Apart DEF ChunkOf

\* The next era is in the next chunk.
LEMMA EraNext ==
  ASSUME instance \in Instances, NEW e \in Nat
  PROVE  NextChunk(ChunkOf(e)) = ChunkOf(e + 1)
<1>1. PICK r \in 0 .. ChunkCount - 1 : r = ChunkOf(e)
  BY ChunkOfRange DEF Chunks
<1>2. 1 \in 0 .. ChunkCount /\ r \in Nat
  BY Sizes
<1>3. (e + 1) % ChunkCount = IF (e % ChunkCount) + 1 < ChunkCount THEN (e % ChunkCount) + 1
                                                    ELSE (e % ChunkCount) + 1 - ChunkCount
  BY <1>2, Sizes, ModAdd
<1>4. (r + 1) % ChunkCount = IF (r % ChunkCount) + 1 < ChunkCount THEN (r % ChunkCount) + 1
                                                    ELSE (r % ChunkCount) + 1 - ChunkCount
  BY <1>2, Sizes, ModAdd
<1>5. r % ChunkCount = r
  BY Sizes, ModSmall
<1> QED BY <1>1, <1>3, <1>4, <1>5 DEF ChunkOf, NextChunk

\* Once around the chunks.
LEMMA EraOnce ==
  ASSUME instance \in Instances, NEW e \in Nat
  PROVE  ChunkOf(e + ChunkCount) = ChunkOf(e)
<1>1. PICK r \in 0 .. ChunkCount - 1 : r = e % ChunkCount
  BY Sizes, DivMod
<1>2. ChunkCount \in 0 .. ChunkCount
  BY Sizes
<1>3. (e + ChunkCount) % ChunkCount = IF (e % ChunkCount) + ChunkCount < ChunkCount
         THEN (e % ChunkCount) + ChunkCount ELSE (e % ChunkCount) + ChunkCount - ChunkCount
  BY <1>2, Sizes, ModAdd
<1> QED BY <1>1, <1>3, Sizes DEF ChunkOf

-----------------------------------------------------------------------------
(* Records in the buffer.                                                  *)

\* The bytes of a record that begins at s.
LEMMA ExtentFacts ==
  ASSUME instance \in Instances, NEW s \in Nat, NEW length \in Fitting,
         WrapAt(s) >= Rounded(length)
  PROVE  /\ Extent(Pos(s), length) \subseteq Bytes /\ Payload(Pos(s), length) \subseteq Bytes
         /\ \A i \in Extent(Pos(s), length) :
              \E z \in s .. s + Rounded(length) - 1 : i = Pos(z)
         /\ \A i \in Payload(Pos(s), length) :
              \E z \in s + 1 .. s + Rounded(length) - 1 : i = Pos(z)
         /\ Pos(s) + Header \in Payload(Pos(s), length)
<1>1. PICK R \in Nat, S \in Nat, H \in Nat, L \in Nat :
         /\ R = Rounded(length) /\ S = ChunkSize /\ H = Header /\ L = length
         /\ R < S /\ H > 0 /\ L > 0 /\ R >= L + H
  BY FittingFacts, Naturals
<1>2. PICK b \in 0 .. S - 1 : b = Pos(s) /\ b + R <= S
  BY <1>1, PosRange
<1>3. ASSUME NEW i \in b .. b + R - 1
      PROVE  /\ i \in Bytes /\ s + (i - b) \in s .. s + R - 1 /\ i = Pos(s + (i - b))
             /\ i > b => s + (i - b) \in s + 1 .. s + R - 1
  <2>1. PICK k \in 0 .. S - 1 : k = i - b /\ b + k < S /\ b + k = i /\ k <= R - 1
    BY <1>1, <1>2
  <2>2. k \in 0 .. ChunkSize
    BY <1>1, <2>1
  <2>3. Pos(s + k) = IF Pos(s) + k < ChunkSize THEN Pos(s) + k ELSE Pos(s) + k - ChunkSize
    BY <2>2, PosAdd
  <2>4. i = Pos(s + k)
    BY <1>1, <1>2, <2>1, <2>3
  <2>5. i \in Bytes
    BY <1>1, <1>2, <2>1 DEF Bytes
  <2>6. s + k \in s .. s + R - 1 /\ (i > b => s + k \in s + 1 .. s + R - 1)
    BY <1>1, <1>2, <2>1
  <2> QED BY <2>1, <2>4, <2>5, <2>6
<1>4. Extent(Pos(s), length) = b .. b + R - 1
  BY <1>1, <1>2 DEF Extent
<1>5. Payload(Pos(s), length) = b + H .. b + H + L - 1
  BY <1>1, <1>2 DEF Payload
<1>6. \A i \in b + H .. b + H + L - 1 : i \in b .. b + R - 1 /\ i > b
  BY <1>1, <1>2
<1>7. b + H \in b + H .. b + H + L - 1
  BY <1>1, <1>2
<1>8. \A i \in Extent(Pos(s), length) :
        i \in Bytes /\ \E z \in s .. s + R - 1 : i = Pos(z)
  BY <1>3, <1>4
<1>9. \A i \in Payload(Pos(s), length) :
        i \in Bytes /\ \E z \in s + 1 .. s + R - 1 : i = Pos(z)
  BY <1>3, <1>5, <1>6
<1> QED BY <1>1, <1>2, <1>5, <1>7, <1>8, <1>9

\* Where a record begins, in numbers and in positions.
LEMMA StartFacts ==
  ASSUME instance \in Instances, NEW ch \in Chunks, NEW x \in Multiple,
         buffer[ch][Pos(x)] \in Fitting \/ Marked(ch, x)
  PROVE  /\ Start(ch, x) \in Multiple /\ x <= Start(ch, x)
         /\ Pos(Start(ch, x)) = IF buffer[ch][Pos(x)] >= 0 THEN Pos(x) ELSE 0
         /\ buffer[ch][Pos(x)] \in Numbers
         /\ buffer[ch][Pos(x)] >= 0 => Start(ch, x) = x
         /\ ~(buffer[ch][Pos(x)] >= 0) => Start(ch, x) = x + WrapAt(x) /\ Marked(ch, x)
<1>1. x \in Nat /\ x % Align = 0
  BY MultipleFacts
<1>2. PICK w \in Nat, S \in Nat :
        /\ w = WrapAt(x) /\ S = ChunkSize /\ w > 0 /\ w <= S
        /\ w = S - Pos(x) /\ Pos(x) \in Nat
  BY <1>1, PosRange, Naturals
<1>3. CASE buffer[ch][Pos(x)] \in Fitting
  <2>1. buffer[ch][Pos(x)] >= 0 /\ buffer[ch][Pos(x)] \in Numbers
    BY <1>3, FittingFacts
  <2> QED BY <1>1, <2>1 DEF Start
<1>4. CASE Marked(ch, x)
  <2>0. buffer[ch][Pos(x)] = -w /\ Pos(x) # 0
    BY <1>2, <1>4 DEF Marked
  <2>1. buffer[ch][Pos(x)] = -w /\ ~(-w >= 0) /\ w <= S - 1
    BY <1>2, <2>0
  <2>2. Start(ch, x) = x + w
    BY <1>2, <2>1 DEF Start
  <2>3. Pos(x + w) = 0
    BY <1>1, <1>2, WrapPos
  <2>4. (x + w) % Align = 0
    <3>1. w % Align = 0
      BY <1>1, <1>2, PosRange
    <3> QED BY <1>1, <3>1, Sizes, Multiples
  <2>5. -w \in Numbers
    BY <1>2, <2>1 DEF Numbers
  <2> QED BY <1>1, <1>2, <1>4, <2>1, <2>2, <2>3, <2>4, <2>5 DEF Multiple
<1> QED BY <1>3, <1>4

LEMMA LinkFacts ==
  ASSUME instance \in Instances, NEW ch \in Chunks, NEW x \in Multiple, NEW y, NEW r,
         Link(ch, x, y, r)
  PROVE  /\ Start(ch, x) \in Multiple /\ y \in Multiple
         /\ x <= Start(ch, x) /\ Start(ch, x) + Align <= y /\ x + Align <= y /\ x < y
         /\ r.length \in Fitting /\ y = Start(ch, x) + Rounded(r.length)
         /\ WrapAt(Start(ch, x)) >= Rounded(r.length)
         /\ r = RecordAt(ch, Pos(Start(ch, x)), r.length)
         /\ buffer[ch][Pos(x)] \in Numbers /\ buffer[ch][Pos(Start(ch, x))] = r.length
         /\ Advance(Pos(Start(ch, x)), r.length) = Pos(y)
<1>1. /\ buffer[ch][Pos(x)] \in Fitting \/ Marked(ch, x)
      /\ r.length \in Fitting /\ buffer[ch][Pos(Start(ch, x))] = r.length
      /\ WrapAt(Start(ch, x)) >= Rounded(r.length)
      /\ y = Start(ch, x) + Rounded(r.length)
      /\ r = RecordAt(ch, Pos(Start(ch, x)), r.length)
  BY DEF Link
<1>2. Start(ch, x) \in Multiple /\ x <= Start(ch, x) /\ buffer[ch][Pos(x)] \in Numbers
  BY <1>1, StartFacts
<1>3. PICK s \in Nat, R \in Nat, A \in Nat :
        /\ s = Start(ch, x) /\ R = Rounded(r.length) /\ A = Align /\ A > 0
        /\ s % A = 0 /\ R % A = 0 /\ R >= A
  BY <1>1, <1>2, FittingFacts, MultipleFacts, Naturals
<1>4. (s + R) % A = 0
  BY <1>3, Multiples
<1>5. x \in Nat
  BY MultipleFacts
<1>6. Advance(Pos(s), r.length) = Pos(s + R)
  BY <1>1, <1>3, AdvancePos
<1>7. y \in Multiple
  BY <1>1, <1>3, <1>4 DEF Multiple
<1> QED BY <1>1, <1>2, <1>3, <1>5, <1>6, <1>7

\* A record stays what it is while its bytes do.
LEMMA LinkKept ==
  ASSUME instance \in Instances, NEW ch \in Chunks, NEW x \in Multiple, NEW y, NEW r,
         Link(ch, x, y, r), instance' = instance,
         \A z \in x .. y - 1 : buffer'[ch][Pos(z)] = buffer[ch][Pos(z)]
  PROVE  Link(ch, x, y, r)' /\ Start(ch, x)' = Start(ch, x)
<1> DEFINE s == Start(ch, x)
<1>1. /\ buffer[ch][Pos(x)] \in Fitting \/ Marked(ch, x)
      /\ r.length \in Fitting /\ buffer[ch][Pos(s)] = r.length
      /\ WrapAt(s) >= Rounded(r.length)
      /\ y = s + Rounded(r.length)
      /\ r = RecordAt(ch, Pos(s), r.length)
  BY DEF Link
<1>2. /\ s \in Nat /\ x \in Nat /\ y \in Nat /\ x <= s /\ s + Align <= y /\ Align \in Nat
      /\ Align > 0
  BY LinkFacts, MultipleFacts, Naturals
<1>3. x \in x .. y - 1 /\ s \in x .. y - 1
  BY <1>2
<1>4. buffer'[ch][Pos(x)] = buffer[ch][Pos(x)]
  BY <1>3
<1>5. buffer'[ch][Pos(s)] = buffer[ch][Pos(s)]
  BY <1>3
<1>6. /\ \A z : Pos(z)' = Pos(z) /\ WrapAt(z)' = WrapAt(z)
      /\ Fitting' = Fitting /\ Bytes' = Bytes
  BY DEF Pos, WrapAt, Fitting, Bytes, ChunkSize
<1>7. Start(ch, x)' = s /\ Marked(ch, x)' = Marked(ch, x)
  BY <1>4, <1>6 DEF Start, Marked
<1>8. RecordAt(ch, Pos(s), r.length)' = RecordAt(ch, Pos(s), r.length)
  <2> DEFINE T == Payload(Pos(s), r.length) \cap Bytes
  <2> HIDE DEF s
  <2>1. \A i \in T : buffer'[ch][i] = buffer[ch][i]
    <3> SUFFICES ASSUME NEW i \in T
                 PROVE  buffer'[ch][i] = buffer[ch][i]
      OBVIOUS
    <3>1. PICK z \in s + 1 .. s + Rounded(r.length) - 1 : i = Pos(z)
      BY <1>1, <1>2, ExtentFacts
    <3>2. Rounded(r.length) \in Nat
      BY <1>1, FittingFacts
    <3>3. z \in x .. y - 1
      BY <1>1, <1>2, <3>1, <3>2
    <3> QED BY <3>1, <3>3
  <2>2. {buffer'[ch][i] : i \in T} = {buffer[ch][i] : i \in T}
    BY <2>1
  <2> QED BY <1>6, <1>7, <2>2 DEF RecordAt, Payload, s
<1> QED BY <1>1, <1>4, <1>5, <1>6, <1>7, <1>8 DEF Link

-----------------------------------------------------------------------------
(* What the invariant says of the ends, the eras and the views.            *)

LEMMA Fields ==
  ASSUME NEW g \in Ghosts
  PROVE  /\ g.p \in Numbering /\ g.pc \in Numbering /\ g.c \in Numbering
         /\ g.cp \in Numbering /\ g.cc \in Numbering
         /\ g.head \in Nat /\ g.newest \in Nat /\ g.tail \in Nat /\ g.behind \in BOOLEAN
BY DEF Ghosts

LEMMA AView ==
  ASSUME NEW q \in Seq(Store), NEW v, NEW seenPos, NEW seenChunk, NEW pos, NEW era,
         Viewed(q, v, seenPos, seenChunk, pos, era)
  PROVE  /\ Len(q) \in Nat /\ 0 \in 0 .. Len(q) /\ Len(q) \in 0 .. Len(q)
         /\ \A k \in 0 .. Len(q) :
              v[k] \in View /\ v[k].pos \in Numbering /\ v[k].era \in Nat
         /\ v[Len(q)].pos = pos /\ v[Len(q)].era = era
         /\ pos \in Numbering /\ era \in Nat
<1>1. Len(q) \in Nat /\ 0 \in 0 .. Len(q) /\ Len(q) \in 0 .. Len(q)
  OBVIOUS
<1>2. \A k \in 0 .. Len(q) : v[k] \in View
  BY DEF Viewed
<1>3. \A k \in 0 .. Len(q) : v[k].pos \in Numbering /\ v[k].era \in Nat
  BY <1>2 DEF View
<1>4. v[Len(q)].pos = pos /\ v[Len(q)].era = era
  BY DEF Viewed
<1> QED BY <1>1, <1>2, <1>3, <1>4

LEMMA Parts ==
  ASSUME NEW g, NEW at, NEW pv, NEW cv, Consistent(g, at, pv, cv)
  PROVE  /\ Typed /\ instance \in Instances /\ records \in Seq(Whole)
         /\ toConsumer \in Seq(Store) /\ toProducer \in Seq(Store)
         /\ g \in Ghosts /\ Places(g) /\ Order(g) /\ Chain(g, at)
         /\ Viewed(toConsumer, pv, produceSeen, headSeen, g.p, g.head)
         /\ Viewed(toProducer, cv, consumeSeen, tailSeen, g.cp, g.tail)
         /\ \A k \in 0 .. Len(toConsumer) : ProducerView(g, at, pv[k])
         /\ \A k \in 0 .. Len(toProducer) : ConsumerView(g, cv[k])
         /\ ProducerView(g, at, pv[0]) /\ ConsumerView(g, cv[0])
         /\ ProducerFrame(g, cv) /\ ConsumerFrame(g, pv)
<1>1. toConsumer \in Seq(Store) /\ toProducer \in Seq(Store)
  BY DEF Consistent, Typed
<1>2. 0 \in 0 .. Len(toConsumer) /\ 0 \in 0 .. Len(toProducer)
  BY <1>1
<1> QED BY <1>1, <1>2 DEF Consistent, Typed, Views

\* The ends in one chunk.
LEMMA Ends ==
  ASSUME NEW g, NEW at, NEW pv, NEW cv, Consistent(g, at, pv, cv), NEW ch \in Chunks
  PROVE  /\ g.cc[ch] \in Multiple /\ cv[0].pos[ch] \in Multiple /\ g.cp[ch] \in Multiple
         /\ g.c[ch] \in Multiple /\ g.pc[ch] \in Multiple /\ pv[0].pos[ch] \in Multiple
         /\ g.p[ch] \in Multiple
         /\ g.cc[ch] \in Nat /\ cv[0].pos[ch] \in Nat /\ g.cp[ch] \in Nat
         /\ g.c[ch] \in Nat /\ g.pc[ch] \in Nat /\ pv[0].pos[ch] \in Nat
         /\ g.p[ch] \in Nat
         /\ g.cc[ch] <= cv[0].pos[ch] /\ cv[0].pos[ch] <= g.cp[ch]
         /\ g.cp[ch] <= g.c[ch] /\ g.c[ch] <= g.pc[ch] /\ g.pc[ch] <= pv[0].pos[ch]
         /\ pv[0].pos[ch] <= g.p[ch] /\ g.p[ch] < g.cc[ch] + ChunkSize
<1>1. /\ g \in Ghosts /\ Order(g) /\ ProducerView(g, at, pv[0]) /\ ConsumerView(g, cv[0])
      /\ toConsumer \in Seq(Store) /\ toProducer \in Seq(Store)
      /\ Viewed(toConsumer, pv, produceSeen, headSeen, g.p, g.head)
      /\ Viewed(toProducer, cv, consumeSeen, tailSeen, g.cp, g.tail)
  BY Parts
<1>2. pv[0].pos \in Numbering /\ cv[0].pos \in Numbering
  BY <1>1, AView
<1>3. /\ g.cc[ch] \in Multiple /\ cv[0].pos[ch] \in Multiple /\ g.cp[ch] \in Multiple
      /\ g.c[ch] \in Multiple /\ g.pc[ch] \in Multiple /\ pv[0].pos[ch] \in Multiple
      /\ g.p[ch] \in Multiple
  BY <1>1, <1>2, Fields DEF Numbering
<1>4. /\ g.cc[ch] <= cv[0].pos[ch] /\ cv[0].pos[ch] <= g.cp[ch]
      /\ g.cp[ch] <= g.c[ch] /\ g.c[ch] <= g.pc[ch] /\ g.pc[ch] <= pv[0].pos[ch]
      /\ pv[0].pos[ch] <= g.p[ch] /\ g.p[ch] < g.cc[ch] + ChunkSize
  BY <1>1 DEF Order, ProducerView, ConsumerView
<1> QED BY <1>3, <1>4, MultipleFacts

\* What the variables say of them.
LEMMA Shown ==
  ASSUME NEW g, NEW at, NEW pv, NEW cv, Consistent(g, at, pv, cv)
  PROVE  /\ \A ch \in Chunks :
              /\ producePos[ch] = Pos(g.p[ch]) /\ producePosCache[ch] = Pos(g.pc[ch])
              /\ consumePos[ch] = Pos(g.cp[ch]) /\ consumePosCache[ch] = Pos(g.cc[ch])
              /\ produceSeen[ch] = Pos(pv[0].pos[ch]) /\ consumeSeen[ch] = Pos(cv[0].pos[ch])
         /\ headChunk = ChunkOf(g.head) /\ tailChunk = ChunkOf(g.tail)
         /\ headSeen = ChunkOf(pv[0].era) /\ tailSeen = ChunkOf(cv[0].era)
<1>1. Places(g) /\ Viewed(toConsumer, pv, produceSeen, headSeen, g.p, g.head)
      /\ Viewed(toProducer, cv, consumeSeen, tailSeen, g.cp, g.tail)
  BY Parts
<1> QED BY <1>1 DEF Places, Viewed, At

LEMMA Eras ==
  ASSUME NEW g, NEW at, NEW pv, NEW cv, Consistent(g, at, pv, cv)
  PROVE  /\ cv[0].era \in Nat /\ g.tail \in Nat /\ pv[0].era \in Nat /\ g.head \in Nat
         /\ g.newest \in Nat /\ ChunkCount \in Nat /\ ChunkCount > 0
         /\ cv[0].era <= g.tail /\ g.tail <= pv[0].era /\ pv[0].era <= g.head
         /\ g.head <= g.newest /\ g.newest < cv[0].era + ChunkCount
         /\ g.newest < g.tail + ChunkCount
<1>1. /\ instance \in Instances
      /\ g \in Ghosts /\ Order(g) /\ ProducerView(g, at, pv[0]) /\ ConsumerView(g, cv[0])
      /\ toConsumer \in Seq(Store) /\ toProducer \in Seq(Store)
      /\ Viewed(toConsumer, pv, produceSeen, headSeen, g.p, g.head)
      /\ Viewed(toProducer, cv, consumeSeen, tailSeen, g.cp, g.tail)
  BY Parts
<1>2. /\ pv[0].era \in Nat /\ cv[0].era \in Nat /\ g.tail \in Nat /\ g.head \in Nat
      /\ g.newest \in Nat /\ ChunkCount \in Nat /\ ChunkCount > 0
  BY <1>1, AView, Fields, Naturals
<1>3. /\ cv[0].era <= g.tail /\ g.tail <= pv[0].era /\ pv[0].era <= g.head
      /\ g.head <= g.newest /\ g.newest < cv[0].era + ChunkCount
  BY <1>1 DEF Order, ProducerView, ConsumerView
<1> QED BY <1>2, <1>3

\* What the types come down to.
LEMMA PosTyped ==
  ASSUME instance \in Instances, NEW f \in Numbering, NEW ch \in Chunks
  PROVE  At(f)[ch] \in Bytes /\ At(f)[ch] % Align = 0 /\ At(f)[ch] = Pos(f[ch])
<1>1. f[ch] \in Multiple
  BY DEF Numbering
<1> QED BY <1>1, MultipleFacts, PosRange DEF At

\* As long as the instance is the same, so is what depends on nothing else.
LEMMA SameSizes ==
  ASSUME instance' = instance
  PROVE  /\ ChunkSize' = ChunkSize /\ ChunkCount' = ChunkCount /\ Firm' = Firm
         /\ Chunks' = Chunks /\ Bytes' = Bytes /\ Numbers' = Numbers /\ Fitting' = Fitting
         /\ Numbering' = Numbering /\ Ghosts' = Ghosts /\ View' = View /\ Store' = Store
         /\ \A x : Pos(x)' = Pos(x) /\ WrapAt(x)' = WrapAt(x) /\ ChunkOf(x)' = ChunkOf(x)
         /\ \A f : At(f)' = At(f)
<1>1. ChunkSize' = ChunkSize /\ ChunkCount' = ChunkCount /\ Firm' = Firm
  BY DEF ChunkSize, ChunkCount, Firm
<1>2. Chunks' = Chunks /\ Bytes' = Bytes /\ Numbers' = Numbers /\ Fitting' = Fitting
  BY <1>1 DEF Chunks, Bytes, Numbers, Fitting
<1>3. Numbering' = Numbering /\ Ghosts' = Ghosts /\ View' = View /\ Store' = Store
  BY <1>2 DEF Numbering, Ghosts, View, Store
<1>4. \A x : Pos(x)' = Pos(x) /\ WrapAt(x)' = WrapAt(x) /\ ChunkOf(x)' = ChunkOf(x)
  BY <1>1 DEF Pos, WrapAt, ChunkOf
<1>5. \A f : At(f)' = At(f)
  BY <1>2, <1>4 DEF At
<1> QED BY <1>1, <1>2, <1>3, <1>4, <1>5

-----------------------------------------------------------------------------
(* What steps leave as it is.                                              *)

LEMMA BoundarySame ==
  ASSUME instance' = instance, NEW g, NEW h, NEW at, h.p = g.p
  PROVE  \A ch, x : Boundary(h, at, ch, x)' <=> Boundary(g, at, ch, x)
BY SameSizes DEF Boundary

LEMMA LinksKept ==
  ASSUME NEW g, NEW at, NEW pv, NEW cv, Consistent(g, at, pv, cv), instance' = instance,
         \A ch \in Chunks : \A z \in g.c[ch] .. g.p[ch] - 1 :
           buffer'[ch][Pos(z)] = buffer[ch][Pos(z)],
         NEW k \in 1 .. Len(records), NEW r, r = records[k]
  PROVE  Link(ChunkOf(at[k].era), at[k].from, at[k].to, r)'
<1>1. instance \in Instances /\ Chain(g, at)
  BY Parts
<1>2. at[k] \in Span /\ Link(ChunkOf(at[k].era), at[k].from, at[k].to, r)
      /\ g.c[ChunkOf(at[k].era)] <= at[k].from /\ at[k].to <= g.p[ChunkOf(at[k].era)]
  BY <1>1 DEF Chain
<1>3. PICK e \in Nat, x \in Multiple, y \in Multiple :
         e = at[k].era /\ x = at[k].from /\ y = at[k].to
  BY <1>2 DEF Span
<1>4. PICK ch \in Chunks : ch = ChunkOf(e)
  BY <1>1, <1>3, ChunkOfRange
<1>5. g.c[ch] \in Nat /\ g.p[ch] \in Nat /\ x \in Nat /\ y \in Nat
  BY Ends, MultipleFacts
<1>6. \A z \in x .. y - 1 : z \in g.c[ch] .. g.p[ch] - 1
  BY <1>2, <1>3, <1>4, <1>5
<1>7. Link(ch, x, y, r)'
  BY <1>1, <1>2, <1>3, <1>4, <1>6, LinkKept
<1>8. ChunkOf(e)' = ch
  BY <1>4, SameSizes
<1> QED BY <1>3, <1>7, <1>8

\* As long as the bytes in use are the same, so are the records.
LEMMA ChainKept ==
  ASSUME NEW g, NEW at, NEW pv, NEW cv, Consistent(g, at, pv, cv), instance' = instance,
         records' = records,
         \A ch \in Chunks : \A z \in g.c[ch] .. g.p[ch] - 1 :
           buffer'[ch][Pos(z)] = buffer[ch][Pos(z)],
         NEW h \in Ghosts, h.p = g.p, h.c = g.c, h.tail = g.tail, h.newest = g.newest,
         \A ch \in Chunks : Boundary(g, at, ch, h.pc[ch])
  PROVE  Chain(h, at)'
<1>1. Chain(g, at)
  BY Parts
<1>2. /\ Chunks' = Chunks /\ ChunkSize' = ChunkSize
      /\ \A x : ChunkOf(x)' = ChunkOf(x)
  BY SameSizes
<1>3. \A ch, x : Boundary(h, at, ch, x)' <=> Boundary(g, at, ch, x)
  BY BoundarySame
<1>4. \A s : Far(h, s)' = Far(g, s)
  BY <1>2 DEF Far
<1>5. ASSUME NEW k \in 1 .. Len(records)
      PROVE  Link(ChunkOf(at[k].era), at[k].from, at[k].to, records[k])'
  <2>1. PICK r : r = records[k]
    OBVIOUS
  <2>2. Link(ChunkOf(at[k].era), at[k].from, at[k].to, r)'
    BY <2>1, LinksKept
  <2> QED BY <2>1, <2>2
<1> QED BY <1>1, <1>2, <1>3, <1>4, <1>5 DEF Chain

LEMMA ProducerViewKept ==
  ASSUME instance' = instance, NEW g, NEW h, NEW at, NEW v, ProducerView(g, at, v),
         h.p = g.p, h.c = g.c, h.head = g.head, h.tail = g.tail, h.behind = g.behind,
         \A ch \in Chunks : h.pc[ch] <= v.pos[ch]
  PROVE  ProducerView(h, at, v)'
<1>1. Chunks' = Chunks /\ \A x : ChunkOf(x)' = ChunkOf(x)
  BY SameSizes
<1>2. \A ch, x : Boundary(h, at, ch, x)' <=> Boundary(g, at, ch, x)
  BY BoundarySame
<1> QED BY <1>1, <1>2 DEF ProducerView

LEMMA ConsumerViewKept ==
  ASSUME instance' = instance, NEW g, NEW h, NEW v, ConsumerView(g, v),
         h.p = g.p, h.cp = g.cp, h.tail = g.tail, h.newest = g.newest,
         \A ch \in Chunks : h.cc[ch] <= v.pos[ch]
  PROVE  ConsumerView(h, v)'
<1>1. Chunks' = Chunks /\ ChunkCount' = ChunkCount /\ \A x : ChunkOf(x)' = ChunkOf(x)
  BY SameSizes
<1> QED BY <1>1 DEF ConsumerView

LEMMA ViewedSame ==
  ASSUME instance' = instance, NEW q, NEW v, NEW seenPos, NEW seenChunk, NEW pos, NEW era,
         Viewed(q, v, seenPos, seenChunk, pos, era)
  PROVE  Viewed(q, v, seenPos, seenChunk, pos, era)'
<1>1. /\ Chunks' = Chunks /\ View' = View /\ \A f : At(f)' = At(f)
      /\ \A x : Pos(x)' = Pos(x) /\ ChunkOf(x)' = ChunkOf(x)
  BY SameSizes
<1>2. \A s, u, w : (Stored(s, u, w)' <=> Stored(s, u, w)) /\ (Later(u, w)' <=> Later(u, w))
  BY <1>1 DEF Stored, Later
<1> QED BY <1>1, <1>2 DEF Viewed

\* The views do not change with the caches.
LEMMA ViewsKept ==
  ASSUME NEW g, NEW at, NEW pv, NEW cv, Consistent(g, at, pv, cv), instance' = instance,
         UNCHANGED <<toConsumer, toProducer, produceSeen, headSeen, consumeSeen, tailSeen>>,
         NEW h \in Ghosts, h.p = g.p, h.c = g.c, h.cp = g.cp, h.head = g.head,
         h.newest = g.newest, h.tail = g.tail, h.behind = g.behind,
         \A ch \in Chunks : h.pc[ch] <= pv[0].pos[ch] /\ h.cc[ch] <= cv[0].pos[ch]
  PROVE  Views(h, at, pv, cv)'
<1>1. /\ toConsumer \in Seq(Store) /\ toProducer \in Seq(Store) /\ instance \in Instances
      /\ Viewed(toConsumer, pv, produceSeen, headSeen, g.p, g.head)
      /\ Viewed(toProducer, cv, consumeSeen, tailSeen, g.cp, g.tail)
      /\ \A k \in 0 .. Len(toConsumer) : ProducerView(g, at, pv[k])
      /\ \A k \in 0 .. Len(toProducer) : ConsumerView(g, cv[k])
  BY Parts
<1>2. ASSUME NEW k \in 0 .. Len(toConsumer)
      PROVE  ProducerView(h, at, pv[k])'
  <2>1. 0 \in 0 .. Len(toConsumer) /\ 0 <= k /\ pv[0].pos \in Numbering /\ pv[k].pos \in Numbering
    BY <1>1, AView
  <2>2. \A ch \in Chunks : pv[0].pos[ch] <= pv[k].pos[ch]
    BY <1>1, <2>1 DEF Viewed, Later
  <2>3. \A ch \in Chunks : pv[0].pos[ch] \in Nat /\ pv[k].pos[ch] \in Nat /\ h.pc[ch] \in Nat
    BY <2>1, Fields, MultipleFacts DEF Numbering
  <2>4. \A ch \in Chunks : h.pc[ch] <= pv[k].pos[ch]
    BY <2>2, <2>3
  <2> QED BY <1>1, <2>4, ProducerViewKept
<1>3. ASSUME NEW k \in 0 .. Len(toProducer)
      PROVE  ConsumerView(h, cv[k])'
  <2>1. 0 \in 0 .. Len(toProducer) /\ 0 <= k /\ cv[0].pos \in Numbering /\ cv[k].pos \in Numbering
    BY <1>1, AView
  <2>2. \A ch \in Chunks : cv[0].pos[ch] <= cv[k].pos[ch]
    BY <1>1, <2>1 DEF Viewed, Later
  <2>3. \A ch \in Chunks : cv[0].pos[ch] \in Nat /\ cv[k].pos[ch] \in Nat /\ h.cc[ch] \in Nat
    BY <2>1, Fields, MultipleFacts DEF Numbering
  <2>4. \A ch \in Chunks : h.cc[ch] <= cv[k].pos[ch]
    BY <2>2, <2>3
  <2> QED BY <1>1, <2>4, ConsumerViewKept
<1>4. PICK q, u, sp, sc : q = toConsumer /\ u = toProducer /\ sp = produceSeen /\ sc = headSeen
  OBVIOUS
<1>5. PICK tp, tc : tp = consumeSeen /\ tc = tailSeen
  OBVIOUS
<1>6. Viewed(q, pv, sp, sc, g.p, g.head)' /\ Viewed(u, cv, tp, tc, g.cp, g.tail)'
  BY <1>1, <1>4, <1>5, ViewedSame
<1>7. Viewed(q, pv, sp, sc, h.p, h.head)' /\ Viewed(u, cv, tp, tc, h.cp, h.tail)'
  BY <1>6
<1>8. /\ toConsumer' = q /\ toProducer' = u /\ produceSeen' = sp /\ headSeen' = sc
      /\ consumeSeen' = tp /\ tailSeen' = tc
  BY <1>4, <1>5
<1> QED BY <1>2, <1>3, <1>4, <1>7, <1>8 DEF Views

\* What the producer is writing is written where nobody reads.
LEMMA ProducerFrameKept ==
  ASSUME NEW g, NEW at, NEW pv, NEW cv, Consistent(g, at, pv, cv), instance' = instance,
         UNCHANGED <<producePos, headChunk, pPc, pChunk, pPos, pLen>>,
         \A ch \in Chunks : \A z \in g.p[ch] .. g.cc[ch] + ChunkSize - 1 :
           buffer'[ch][Pos(z)] = buffer[ch][Pos(z)],
         NEW h, h.p = g.p, h.cc = g.cc, h.head = g.head, h.newest = g.newest,
         pPc = "publishHead" => h.c[pChunk] < h.p[pChunk],
         NEW cw, cv[0].era <= cw[0].era, cw[0].era \in Nat
  PROVE  ProducerFrame(h, cw)'
<1>1. ProducerFrame(g, cv) /\ instance \in Instances
  BY Parts
<1>2. /\ ChunkCount' = ChunkCount /\ ChunkSize' = ChunkSize /\ Fitting' = Fitting
      /\ \A x : ChunkOf(x)' = ChunkOf(x) /\ Pos(x)' = Pos(x)
  BY SameSizes
<1>3. MayEnter(g, cv) => MayEnter(h, cw)'
  <2>1. cv[0].era \in Nat /\ g.head \in Nat /\ ChunkCount \in Nat
    BY Eras
  <2>2. g.head + 1 < cv[0].era + ChunkCount => g.head + 1 < cw[0].era + ChunkCount
    BY <2>1
  <2> QED BY <1>2, <2>2 DEF MayEnter
<1>4. ASSUME pPc \in {"fill", "publish"}
      PROVE  /\ pPos = Pos(Start(pChunk, g.p[pChunk]))'
             /\ RecordAt(pChunk, pPos, pLen)' = RecordAt(pChunk, pPos, pLen)
             /\ \E y \in Multiple :
                  /\ Link(pChunk, h.p[pChunk], y, RecordAt(pChunk, pPos, pLen))'
                  /\ y < h.cc[pChunk] + ChunkSize
  <2>1. PICK y \in Multiple : /\ Link(pChunk, g.p[pChunk], y, RecordAt(pChunk, pPos, pLen))
                              /\ y < g.cc[pChunk] + ChunkSize
    BY <1>1, <1>4 DEF ProducerFrame
  <2>2. pPos = Pos(Start(pChunk, g.p[pChunk])) /\ pLen \in Fitting
    BY <1>1, <1>4 DEF ProducerFrame
  <2>3. PICK ch \in Chunks : ch = pChunk
    BY DEF Consistent, Typed
  <2>4. PICK x \in Multiple : x = g.p[ch]
    BY Ends
  <2>5. PICK r : r = RecordAt(pChunk, pPos, pLen)
    OBVIOUS
  <2>6. g.cc[ch] \in Nat /\ x \in Nat /\ y \in Nat /\ ChunkSize \in Nat
    BY <1>1, <2>4, Ends, MultipleFacts, Naturals
  <2>7. \A z \in x .. y - 1 : buffer'[ch][Pos(z)] = buffer[ch][Pos(z)]
    <3>1. \A z \in x .. y - 1 : z \in g.p[ch] .. g.cc[ch] + ChunkSize - 1
      BY <2>1, <2>3, <2>4, <2>6
    <3> QED BY <3>1
  <2>8. Link(ch, x, y, r)' /\ Start(ch, x)' = Start(ch, x)
    BY <1>1, <2>1, <2>3, <2>4, <2>5, <2>7, LinkKept
  <2>9. r = RecordAt(ch, Pos(Start(ch, x)), r.length) /\ r.length = pLen
    <3>1. Link(ch, x, y, r)
      BY <2>1, <2>3, <2>4, <2>5
    <3>2. r.length = pLen
      BY <2>5 DEF RecordAt
    <3> QED BY <1>1, <3>1, <3>2, LinkFacts
  <2>10. r = RecordAt(ch, Pos(Start(ch, x)), r.length)'
    BY <2>8 DEF Link
  <2>11. Pos(Start(ch, x))' = Pos(Start(ch, x))
    BY <1>2, <2>8 DEF Pos
  <2>12. PICK d : d = Pos(Start(ch, x))
    OBVIOUS
  <2>13. r = RecordAt(ch, d, r.length)'
    BY <2>10, <2>11, <2>12 DEF RecordAt
  <2>14. RecordAt(pChunk, pPos, pLen)' = r
    BY <2>2, <2>3, <2>4, <2>9, <2>12, <2>13 DEF RecordAt, Payload
  <2>15. Link(pChunk, h.p[pChunk], y, RecordAt(pChunk, pPos, pLen))'
    BY <2>3, <2>4, <2>8, <2>14
  <2>16. pPos = Pos(Start(pChunk, g.p[pChunk]))'
    BY <2>2, <2>3, <2>4, <2>11
  <2> QED BY <2>1, <2>5, <2>14, <2>15, <2>16
<1> QED BY <1>1, <1>2, <1>3, <1>4 DEF ProducerFrame, WrapDistance

\* Where the consumer is depends on no byte but the first it has not taken.
LEMMA ConsumerFrameKept ==
  ASSUME NEW g, NEW at, NEW pv, NEW cv, Consistent(g, at, pv, cv), instance' = instance,
         UNCHANGED <<consumePos, tailChunk, cPc, cChunk, cPos, cHead>>,
         \A ch \in Chunks : \A z \in g.c[ch] .. g.p[ch] - 1 :
           buffer'[ch][Pos(z)] = buffer[ch][Pos(z)],
         NEW h, h.c = g.c, h.cp = g.cp, h.pc = g.pc, h.tail = g.tail, h.behind = g.behind,
         NEW pw, pv[0].era <= pw[0].era, pw[0].era \in Nat,
         g.tail < pv[0].era => h.p[ChunkOf(g.tail)] = g.p[ChunkOf(g.tail)]
  PROVE  ConsumerFrame(h, pw)'
<1>1. ConsumerFrame(g, pv) /\ instance \in Instances
  BY Parts
<1>2. /\ Firm' = Firm /\ Chunks' = Chunks /\ \A x : ChunkOf(x)' = ChunkOf(x) /\ Pos(x)' = Pos(x)
  BY SameSizes
<1>3. /\ g.tail \in Nat /\ pv[0].era \in Nat
      /\ g.tail .. pv[0].era \subseteq g.tail .. pw[0].era
      /\ g.tail < pv[0].era => g.tail < pw[0].era
  BY Eras
<1>4. Emptied(g, pv) => Emptied(h, pw)'
  BY <1>2, <1>3 DEF Emptied
<1>5. ASSUME cPc = "take"
      PROVE  Unmarked(consumePos[cChunk])' = Unmarked(consumePos[cChunk])
  <2>1. PICK ch \in Chunks : ch = cChunk
    BY DEF Consistent, Typed
  <2>2. g.c[ch] < g.pc[ch] /\ g.c[ch] = g.cp[ch]
    BY <1>1, <1>5, <2>1 DEF ConsumerFrame
  <2>3. g.c[ch] \in g.c[ch] .. g.p[ch] - 1
    BY <2>2, Ends
  <2>4. buffer'[ch][Pos(g.c[ch])] = buffer[ch][Pos(g.c[ch])]
    BY <2>3
  <2>5. consumePos[ch] = Pos(g.c[ch])
    BY <2>2, Shown
  <2> QED BY <2>1, <2>4, <2>5 DEF Unmarked
<1> QED BY <1>1, <1>2, <1>3, <1>4, <1>5 DEF ConsumerFrame

\* What a byte of the buffer holds.
Content == Elem \cup {Raw} \cup Numbers

\* A step of the producer that publishes nothing.
LEMMA ProducerAlone ==
  ASSUME NEW g, NEW at, NEW pv, NEW cv, Consistent(g, at, pv, cv),
         UNCHANGED <<instance, positions, producePosCache, seen, consumer, history>>,
         NEW h \in Ghosts, h.p = g.p, h.pc = g.pc, h.c = g.c, h.cp = g.cp, h.head = g.head,
         h.newest = g.newest, h.tail = g.tail, h.behind = g.behind,
         \A ch \in Chunks : g.cc[ch] <= h.cc[ch] /\ h.cc[ch] <= cv[0].pos[ch],
         consumePosCache' = At(h.cc),
         buffer' \in [Chunks -> [Bytes -> Content]],
         \A ch \in Chunks : \A z \in g.c[ch] .. g.p[ch] - 1 :
           buffer'[ch][Pos(z)] = buffer[ch][Pos(z)],
         pChunk' \in Chunks, pPos' \in Bytes, pLen' \in Lengths \cup {0},
         ProducerFrame(h, cv)'
  PROVE  Invariant'
<1>1. /\ UNCHANGED <<toConsumer, toProducer, produceSeen, headSeen, consumeSeen, tailSeen>>
      /\ UNCHANGED <<producePos, consumePos, headChunk, tailChunk, records>>
      /\ UNCHANGED <<cPc, cChunk, cPos, cHead>>
  BY DEF positions, seen, consumer, history
<1>2. /\ Typed /\ g \in Ghosts /\ Places(g) /\ Order(g) /\ Chain(g, at)
      /\ instance \in Instances
  BY Parts
<1>3. /\ Chunks' = Chunks /\ Bytes' = Bytes /\ Numbers' = Numbers /\ ChunkSize' = ChunkSize
      /\ Store' = Store /\ Ghosts' = Ghosts
      /\ \A x : ChunkOf(x)' = ChunkOf(x)
      /\ \A f : At(f)' = At(f)
  BY SameSizes
<1>4. Typed'
  BY <1>1, <1>2, <1>3 DEF Typed, Content
<1>5. Places(h)'
  BY <1>1, <1>2, <1>3 DEF Places
<1>6. Order(h)'
  <2>1. \A ch \in Chunks : /\ h.cc[ch] <= h.cp[ch] /\ h.cp[ch] <= h.c[ch]
                           /\ h.c[ch] <= h.pc[ch] /\ h.pc[ch] <= h.p[ch]
                           /\ h.p[ch] < h.cc[ch] + ChunkSize
    <3> SUFFICES ASSUME NEW ch \in Chunks
                 PROVE  /\ h.cc[ch] <= h.cp[ch] /\ h.cp[ch] <= h.c[ch]
                        /\ h.c[ch] <= h.pc[ch] /\ h.pc[ch] <= h.p[ch]
                        /\ h.p[ch] < h.cc[ch] + ChunkSize
      OBVIOUS
    <3>1. h.cc[ch] \in Nat
      BY Fields, MultipleFacts DEF Numbering
    <3>2. ChunkSize \in Nat
      BY <1>2, Naturals
    <3> QED BY <3>1, <3>2, Ends
  <2> QED BY <1>2, <1>3, <2>1 DEF Order
<1>7. Chain(h, at)'
  <2>1. \A ch \in Chunks : Boundary(g, at, ch, h.pc[ch])
    BY <1>2 DEF Chain
  <2> QED BY <1>1, <2>1, ChainKept
<1>8. Views(h, at, pv, cv)'
  <2>1. \A ch \in Chunks : h.pc[ch] <= pv[0].pos[ch] /\ h.cc[ch] <= cv[0].pos[ch]
    BY Ends
  <2> QED BY <1>1, <2>1, ViewsKept
<1>9. ConsumerFrame(h, pv)'
  <2>1. pv[0].era <= pv[0].era /\ pv[0].era \in Nat
    BY Eras
  <2> QED BY <1>1, <2>1, ConsumerFrameKept
<1> QED BY <1>3, <1>4, <1>5, <1>6, <1>7, <1>8, <1>9 DEF Invariant, Consistent

\* A step of the consumer that takes and releases nothing.
LEMMA ConsumerAlone ==
  ASSUME NEW g, NEW at, NEW pv, NEW cv, Consistent(g, at, pv, cv),
         UNCHANGED <<instance, positions, consumePosCache, seen, buffer, producer, history>>,
         NEW h \in Ghosts, h.p = g.p, h.cc = g.cc, h.c = g.c, h.cp = g.cp, h.head = g.head,
         h.newest = g.newest, h.tail = g.tail, h.behind = g.behind,
         \A ch \in Chunks : /\ g.pc[ch] <= h.pc[ch] /\ h.pc[ch] <= pv[0].pos[ch]
                            /\ Boundary(g, at, ch, h.pc[ch]),
         producePosCache' = At(h.pc),
         cChunk' \in Chunks, cHead' \in Chunks, cPos' \in Bytes,
         ConsumerFrame(h, pv)'
  PROVE  Invariant'
<1>1. /\ UNCHANGED <<toConsumer, toProducer, produceSeen, headSeen, consumeSeen, tailSeen>>
      /\ UNCHANGED <<producePos, consumePos, headChunk, tailChunk, records>>
      /\ UNCHANGED <<pPc, pChunk, pPos, pLen>>
  BY DEF positions, seen, producer, history
<1>2. /\ Typed /\ g \in Ghosts /\ Places(g) /\ Order(g) /\ Chain(g, at)
      /\ instance \in Instances /\ ProducerFrame(g, cv)
  BY Parts
<1>3. /\ Chunks' = Chunks /\ Bytes' = Bytes /\ Numbers' = Numbers /\ ChunkSize' = ChunkSize
      /\ Store' = Store /\ Ghosts' = Ghosts
      /\ \A x : ChunkOf(x)' = ChunkOf(x)
      /\ \A f : At(f)' = At(f)
  BY SameSizes
<1>4. Typed'
  BY <1>1, <1>2, <1>3 DEF Typed
<1>5. Places(h)'
  BY <1>1, <1>2, <1>3 DEF Places
<1>6. Order(h)'
  <2>1. \A ch \in Chunks : /\ h.cc[ch] <= h.cp[ch] /\ h.cp[ch] <= h.c[ch]
                           /\ h.c[ch] <= h.pc[ch] /\ h.pc[ch] <= h.p[ch]
                           /\ h.p[ch] < h.cc[ch] + ChunkSize
    <3> SUFFICES ASSUME NEW ch \in Chunks
                 PROVE  /\ h.cc[ch] <= h.cp[ch] /\ h.cp[ch] <= h.c[ch]
                        /\ h.c[ch] <= h.pc[ch] /\ h.pc[ch] <= h.p[ch]
                        /\ h.p[ch] < h.cc[ch] + ChunkSize
      OBVIOUS
    <3>1. h.pc[ch] \in Nat
      BY Fields, MultipleFacts DEF Numbering
    <3>2. ChunkSize \in Nat
      BY <1>2, Naturals
    <3> QED BY <3>1, <3>2, Ends
  <2> QED BY <1>2, <1>3, <2>1 DEF Order
<1>b. \A ch \in Chunks : \A z \in g.c[ch] .. g.p[ch] - 1 :
        buffer'[ch][Pos(z)] = buffer[ch][Pos(z)]
  OBVIOUS
<1>7. Chain(h, at)'
  BY <1>1, <1>b, ChainKept
<1>8. Views(h, at, pv, cv)'
  <2>1. \A ch \in Chunks : h.pc[ch] <= pv[0].pos[ch] /\ h.cc[ch] <= cv[0].pos[ch]
    BY Ends
  <2> QED BY <1>1, <2>1, ViewsKept
<1>9. ProducerFrame(h, cv)'
  <2>1. cv[0].era <= cv[0].era /\ cv[0].era \in Nat
    BY Eras
  <2>2. \A ch \in Chunks : \A z \in g.p[ch] .. g.cc[ch] + ChunkSize - 1 :
          buffer'[ch][Pos(z)] = buffer[ch][Pos(z)]
    OBVIOUS
  <2>3. pPc = "publishHead" => h.c[pChunk] < h.p[pChunk]
    BY <1>2 DEF ProducerFrame
  <2> QED BY <1>1, <2>1, <2>2, <2>3, ProducerFrameKept
<1> QED BY <1>3, <1>4, <1>5, <1>6, <1>7, <1>8, <1>9 DEF Invariant, Consistent

-----------------------------------------------------------------------------
(* produce.                                                                *)

\* The producer's cache catches up, chunk by chunk, with what it sees.
CacheMoved(g, h, cv) ==
  /\ h \in Ghosts /\ h.p = g.p /\ h.pc = g.pc /\ h.c = g.c /\ h.cp = g.cp
  /\ h.head = g.head /\ h.newest = g.newest /\ h.tail = g.tail /\ h.behind = g.behind
  /\ \A ch \in Chunks : g.cc[ch] <= h.cc[ch] /\ h.cc[ch] <= cv[0].pos[ch]

LEMMA CacheStays ==
  ASSUME NEW g, NEW at, NEW pv, NEW cv, Consistent(g, at, pv, cv)
  PROVE  CacheMoved(g, g, cv) /\ consumePosCache = At(g.cc)
<1>1. g \in Ghosts /\ Places(g)
  BY Parts
<1>2. \A ch \in Chunks : g.cc[ch] <= g.cc[ch] /\ g.cc[ch] <= cv[0].pos[ch]
  BY Ends
<1> QED BY <1>1, <1>2 DEF CacheMoved, Places

LEMMA CacheLoaded ==
  ASSUME NEW g, NEW at, NEW pv, NEW cv, Consistent(g, at, pv, cv), LoadConsumePos
  PROVE  \E h : /\ CacheMoved(g, h, cv) /\ consumePosCache' = At(h.cc)
                /\ h.cc[pChunk] = cv[0].pos[pChunk]
<1>1. g \in Ghosts /\ Places(g) /\ pChunk \in Chunks
  BY Parts DEF Typed
<1>2. PICK x \in Multiple : x = cv[0].pos[pChunk]
  BY <1>1, Ends
<1>3. PICK f \in Numbering : f = [g.cc EXCEPT ![pChunk] = x]
  BY <1>1, <1>2, Fields DEF Numbering
<1>4. PICK h \in Ghosts :
        /\ h.p = g.p /\ h.pc = g.pc /\ h.c = g.c /\ h.cp = g.cp /\ h.cc = f
        /\ h.head = g.head /\ h.newest = g.newest /\ h.tail = g.tail /\ h.behind = g.behind
  <2>1. [g EXCEPT !.cc = f] \in Ghosts
    BY <1>1, <1>3 DEF Ghosts
  <2> QED BY <1>1, <2>1 DEF Ghosts
<1>5. \A ch \in Chunks : f[ch] = IF ch = pChunk THEN x ELSE g.cc[ch]
  BY <1>1, <1>3, Fields DEF Numbering
<1>6. CacheMoved(g, h, cv)
  <2>1. \A ch \in Chunks : g.cc[ch] <= f[ch] /\ f[ch] <= cv[0].pos[ch]
    <3> SUFFICES ASSUME NEW ch \in Chunks
                 PROVE  g.cc[ch] <= f[ch] /\ f[ch] <= cv[0].pos[ch]
      OBVIOUS
    <3>1. g.cc[ch] \in Nat /\ cv[0].pos[ch] \in Nat /\ g.cc[ch] <= cv[0].pos[ch]
      BY Ends
    <3> QED BY <1>2, <1>5, <3>1
  <2> QED BY <1>4, <2>1 DEF CacheMoved
<1>7. consumePosCache' = At(h.cc)
  <2>1. consumeSeen[pChunk] = Pos(x)
    BY <1>1, <1>2, Shown
  <2>2. consumePosCache' = [At(g.cc) EXCEPT ![pChunk] = Pos(x)]
    BY <1>1, <2>1 DEF LoadConsumePos, Places
  <2> QED BY <1>1, <1>4, <1>5, <2>2 DEF At
<1>8. h.cc[pChunk] = cv[0].pos[pChunk]
  BY <1>1, <1>2, <1>4, <1>5
<1> QED BY <1>6, <1>7, <1>8

\* What the producer writes is behind everything that was published.
LEMMA WriteBehind ==
  ASSUME NEW g, NEW at, NEW pv, NEW cv, Consistent(g, at, pv, cv), NEW ch \in Chunks,
         NEW h, CacheMoved(g, h, cv),
         NEW z \in Nat, g.c[ch] <= z, NEW y \in Nat, z < y, y < h.cc[ch] + ChunkSize
  PROVE  Pos(z) # Pos(y) /\ Pos(z) \in Bytes /\ Pos(y) \in Bytes
<1>1. instance \in Instances /\ h \in Ghosts /\ h.cc[ch] <= cv[0].pos[ch]
  BY Parts DEF CacheMoved
<1>2. h.cc[ch] \in Nat /\ ChunkSize \in Nat
  BY <1>1, Fields, MultipleFacts, Naturals DEF Numbering
<1>3. y < z + ChunkSize
  BY <1>1, <1>2, Ends
<1> QED BY <1>1, <1>3, PosApart, PosRange

\* Length and marker are written where nobody reads, and make a record.
LEMMA Written ==
  ASSUME NEW g, NEW at, NEW pv, NEW cv, Consistent(g, at, pv, cv),
         NEW h, CacheMoved(g, h, cv), consumePosCache' = At(h.cc),
         UNCHANGED <<instance, positions, producePosCache, seen, consumer, history>>,
         pPc' = "fill", pChunk' = pChunk, pLen' = pLen, pLen \in Fitting, pPc # "publishHead",
         pChunk = headChunk \/ (pChunk = ChunkOf(g.head + 1) /\ MayEnter(g, cv)),
         NEW x, x = g.p[pChunk], NEW s \in Multiple, x <= s, pPos' = Pos(s),
         s + Rounded(pLen) < h.cc[pChunk] + ChunkSize, WrapAt(s) >= Rounded(pLen),
         buffer' \in [Chunks -> [Bytes -> Content]],
         \A ch \in Chunks, i \in Bytes :
           ch # pChunk \/ (i # Pos(x) /\ i # Pos(s)) => buffer'[ch][i] = buffer[ch][i],
         buffer'[pChunk][Pos(s)] = pLen,
         \/ s = x
         \/ s = x + WrapAt(x) /\ Pos(x) # 0 /\ buffer'[pChunk][Pos(x)] = -WrapAt(x)
  PROVE  Invariant'
<1>1. /\ instance \in Instances /\ pChunk \in Chunks /\ ProducerFrame(g, cv) /\ h \in Ghosts
  BY Parts DEF Typed, CacheMoved
<1>2. PICK k \in Chunks : k = pChunk
  BY <1>1
<1>3. x \in Multiple /\ x \in Nat /\ s \in Nat /\ h.cc[k] \in Nat /\ ChunkSize \in Nat
  BY <1>1, <1>2, Ends, Fields, MultipleFacts, Naturals DEF Numbering
<1>4. PICK R \in Nat : R = Rounded(pLen) /\ R > 0
  BY <1>1, FittingFacts, Naturals
<1>5. /\ Chunks' = Chunks /\ ChunkSize' = ChunkSize /\ Fitting' = Fitting
      /\ ChunkCount' = ChunkCount
      /\ \A e : Pos(e)' = Pos(e) /\ WrapAt(e)' = WrapAt(e) /\ ChunkOf(e)' = ChunkOf(e)
  BY SameSizes
<1>6. \A ch \in Chunks : \A z \in g.c[ch] .. g.p[ch] - 1 :
        buffer'[ch][Pos(z)] = buffer[ch][Pos(z)]
  <2> SUFFICES ASSUME NEW ch \in Chunks, NEW z \in g.c[ch] .. g.p[ch] - 1
               PROVE  buffer'[ch][Pos(z)] = buffer[ch][Pos(z)]
    OBVIOUS
  <2>1. g.c[ch] \in Nat /\ g.p[ch] \in Nat /\ z \in Nat /\ g.c[ch] <= z /\ z < g.p[ch]
    BY Ends
  <2>2. Pos(z) \in Bytes
    BY <1>1, <2>1, PosRange
  <2>3. CASE ch # k
    BY <1>2, <2>2, <2>3
  <2>4. CASE ch = k
    <3>1. z < x /\ z < s /\ x < h.cc[ch] + ChunkSize /\ s < h.cc[ch] + ChunkSize
      BY <1>2, <1>3, <1>4, <2>1, <2>4
    <3>2. Pos(z) # Pos(x)
      BY <1>3, <2>1, <3>1, WriteBehind
    <3>3. Pos(z) # Pos(s)
      BY <1>3, <2>1, <3>1, WriteBehind
    <3> QED BY <1>2, <2>2, <2>4, <3>2, <3>3
  <2> QED BY <2>3, <2>4
<1>7. (buffer[k][Pos(x)] \in Fitting \/ Marked(k, x))' /\ Start(k, x)' = s
  <2>1. CASE s = x
    <3>1. buffer'[k][Pos(x)] \in Fitting /\ buffer'[k][Pos(x)] >= 0
      BY <1>1, <1>2, <2>1, FittingFacts
    <3> QED BY <1>5, <2>1, <3>1 DEF Start
  <2>2. CASE s = x + WrapAt(x) /\ Pos(x) # 0 /\ buffer'[k][Pos(x)] = -WrapAt(x)
    <3>1. PICK w \in Nat : w = WrapAt(x) /\ w > 0
      BY <1>1, <1>3, PosRange
    <3>2. ~(buffer'[k][Pos(x)] >= 0)
      BY <2>2, <3>1
    <3> QED BY <1>5, <2>2, <3>2 DEF Start, Marked
  <2> QED BY <1>2, <2>1, <2>2
<1>8. PICK r : r = RecordAt(k, Pos(s), pLen)'
  OBVIOUS
<1>9. r.length = pLen /\ r = RecordAt(k, Pos(s), r.length)'
  <2>1. r.length = pLen
    BY <1>5, <1>8 DEF RecordAt
  <2> QED BY <1>8, <2>1 DEF RecordAt, Payload
<1>10. s + R \in Multiple
  <2>1. R % Align = 0
    BY <1>1, <1>4, FittingFacts
  <2>2. s % Align = 0 /\ Align \in Nat \ {0}
    BY <1>1, Sizes, MultipleFacts
  <2>3. (s + R) % Align = 0
    BY <1>3, <1>4, <2>1, <2>2, Multiples
  <2> QED BY <1>3, <2>3 DEF Multiple
<1>11. Link(k, x, s + R, r)'
  BY <1>2, <1>4, <1>5, <1>7, <1>9 DEF Link, Rounded
<1>12. RecordAt(pChunk, pPos, pLen)' = r
  BY <1>2, <1>5, <1>8 DEF RecordAt, Payload
<1>13. ProducerFrame(h, cv)'
  <2>1. /\ h.p = g.p /\ h.head = g.head /\ h.newest = g.newest
        /\ g.newest = g.head
    BY <1>1 DEF CacheMoved, ProducerFrame
  <2>2. pChunk' = headChunk' \/ (pChunk' = ChunkOf(h.head + 1)' /\ MayEnter(h, cv)')
    BY <1>5, <2>1 DEF positions, MayEnter
  <2>5. pPc' = "fill" /\ pLen' \in Fitting'
    BY <1>5
  <2>3. pPos' = Pos(Start(pChunk, h.p[pChunk]))'
    <3>1. Start(pChunk, h.p[pChunk])' = s
      BY <1>2, <1>7, <2>1 DEF Start
    <3> QED BY <1>5, <3>1 DEF Pos
  <2>4. \E y \in Multiple : /\ Link(pChunk, h.p[pChunk], y, RecordAt(pChunk, pPos, pLen))'
                            /\ y < h.cc[pChunk'] + ChunkSize'
    BY <1>2, <1>4, <1>5, <1>10, <1>11, <1>12, <2>1
  <2> QED BY <2>1, <2>2, <2>3, <2>4, <2>5 DEF ProducerFrame
<1>14. pChunk' \in Chunks /\ pPos' \in Bytes /\ pLen' \in Lengths \cup {0}
  BY <1>1, <1>3, PosRange, FittingFacts
<1> QED BY <1>6, <1>13, <1>14, ProducerAlone DEF CacheMoved

\* Where the producer writes next.
LEMMA Behind ==
  ASSUME NEW g, NEW at, NEW pv, NEW cv, Consistent(g, at, pv, cv),
         pPc \in {"reload", "wrap", "reloadWrap", "enter"}
  PROVE  /\ instance \in Instances /\ pChunk \in Chunks
         /\ pLen \in Fitting /\ pPos = Pos(g.p[pChunk]) /\ g.p[pChunk] \in Multiple
         /\ WrapDistance(pPos) = WrapAt(g.p[pChunk])
         /\ pChunk = headChunk \/ (pChunk = ChunkOf(g.head + 1) /\ MayEnter(g, cv))
         /\ buffer \in [Chunks -> [Bytes -> Content]] /\ pLen \in Content
         /\ Rounded(pLen) \in Nat
<1>1. /\ instance \in Instances /\ pChunk \in Chunks /\ ProducerFrame(g, cv)
      /\ buffer \in [Chunks -> [Bytes -> Content]]
  BY Parts DEF Typed, Content
<1>2. pLen \in Fitting /\ pPos = producePos[pChunk]
  BY <1>1 DEF ProducerFrame
<1>3. pPos = Pos(g.p[pChunk]) /\ g.p[pChunk] \in Multiple /\ g.p[pChunk] \in Nat
  BY <1>1, <1>2, Shown, Ends
<1>4. pChunk = headChunk \/ (pChunk = ChunkOf(g.head + 1) /\ MayEnter(g, cv))
  BY <1>1 DEF ProducerFrame
<1> QED BY <1>1, <1>2, <1>3, <1>4, PosRange, FittingFacts DEF Content

LEMMA LengthWritten ==
  ASSUME NEW g, NEW at, NEW pv, NEW cv, Consistent(g, at, pv, cv),
         NEW h, CacheMoved(g, h, cv), consumePosCache' = At(h.cc),
         pPc \in {"wrap", "enter"}, WriteLength, pChunk' = pChunk, pLen' = pLen,
         g.p[pChunk] + Rounded(pLen) < h.cc[pChunk] + ChunkSize,
         UNCHANGED <<instance, positions, producePosCache, seen, consumer, history>>
  PROVE  Invariant'
<1>1. /\ instance \in Instances /\ pChunk \in Chunks
      /\ pLen \in Fitting /\ pPos = Pos(g.p[pChunk]) /\ g.p[pChunk] \in Multiple
      /\ WrapDistance(pPos) = WrapAt(g.p[pChunk])
      /\ pChunk = headChunk \/ (pChunk = ChunkOf(g.head + 1) /\ MayEnter(g, cv))
      /\ buffer \in [Chunks -> [Bytes -> Content]] /\ pLen \in Content
  BY Behind
<1>2. /\ WrapDistance(pPos) >= Rounded(pLen) /\ pPc' = "fill" /\ pPos' = pPos
      /\ buffer' = [buffer EXCEPT ![pChunk][pPos] = pLen]
  BY DEF WriteLength, Write
<1>3. PICK x \in Multiple : x = g.p[pChunk] /\ x \in Nat
  BY <1>1, MultipleFacts
<1>4. Pos(x) \in Bytes
  BY <1>1, <1>3, PosRange
<1>5. /\ buffer' \in [Chunks -> [Bytes -> Content]]
      /\ \A ch \in Chunks, i \in Bytes :
           ch # pChunk \/ (i # Pos(x) /\ i # Pos(x)) => buffer'[ch][i] = buffer[ch][i]
      /\ buffer'[pChunk][Pos(x)] = pLen
  BY <1>1, <1>2, <1>3, <1>4
<1>6. x <= x /\ x + Rounded(pLen) < h.cc[pChunk] + ChunkSize /\ WrapAt(x) >= Rounded(pLen)
  BY <1>1, <1>2, <1>3
<1> QED BY <1>1, <1>2, <1>3, <1>5, <1>6, Written

LEMMA MarkerWritten ==
  ASSUME NEW g, NEW at, NEW pv, NEW cv, Consistent(g, at, pv, cv),
         NEW h, CacheMoved(g, h, cv), consumePosCache' = At(h.cc),
         pPc \in {"wrap", "reloadWrap", "enter"}, WriteMarker, pChunk' = pChunk, pLen' = pLen,
         g.p[pChunk] + WrapAt(g.p[pChunk]) + Rounded(pLen) < h.cc[pChunk] + ChunkSize,
         UNCHANGED <<instance, positions, producePosCache, seen, consumer, history>>
  PROVE  Invariant'
<1>1. /\ instance \in Instances /\ pChunk \in Chunks
      /\ pLen \in Fitting /\ pPos = Pos(g.p[pChunk]) /\ g.p[pChunk] \in Multiple
      /\ WrapDistance(pPos) = WrapAt(g.p[pChunk])
      /\ pChunk = headChunk \/ (pChunk = ChunkOf(g.head + 1) /\ MayEnter(g, cv))
      /\ buffer \in [Chunks -> [Bytes -> Content]] /\ pLen \in Content
  BY Behind
<1>2. /\ WrapDistance(pPos) < Rounded(pLen) /\ pPc' = "fill" /\ pPos' = 0
      /\ buffer' = [[buffer EXCEPT ![pChunk][pPos] = -WrapDistance(pPos)]
                      EXCEPT ![pChunk][0] = pLen]
  BY DEF WriteMarker, Write
<1>3. PICK x \in Multiple : x = g.p[pChunk] /\ x \in Nat
  BY <1>1, MultipleFacts
<1>4. PICK w \in Nat, S \in Nat, R \in Nat :
         /\ w = WrapAt(x) /\ S = ChunkSize /\ w > 0 /\ w <= S /\ w = S - Pos(x) /\ Pos(x) \in Nat
         /\ R = Rounded(pLen) /\ R < S
  <2>1. PICK S \in Nat : S = ChunkSize /\ S > 0
    BY <1>1, Naturals
  <2>2. PICK w \in 1 .. S : w = WrapAt(x) /\ w = S - Pos(x) /\ Pos(x) \in 0 .. S - 1
    BY <1>1, <1>3, <2>1, PosRange
  <2>3. PICK R \in Nat : R = Rounded(pLen) /\ R < S
    BY <1>1, <2>1, FittingFacts
  <2> QED BY <2>1, <2>2, <2>3
<1>5. Pos(x) # 0 /\ Pos(x) \in Bytes /\ 0 \in Bytes
  BY <1>1, <1>2, <1>3, <1>4 DEF Bytes
<1>6. -w \in Content
  BY <1>4, <1>5 DEF Content, Numbers
<1>7. Pos(x + w) = 0 /\ x + w \in Multiple /\ WrapAt(x + w) >= R
  <2>1. Pos(x + w) = 0
    BY <1>1, <1>3, <1>4, WrapPos
  <2>2. w % Align = 0 /\ x % Align = 0 /\ Align \in Nat \ {0}
    BY <1>1, <1>3, <1>4, PosRange, MultipleFacts, Sizes
  <2>3. (x + w) % Align = 0
    BY <1>3, <1>4, <2>2, Multiples
  <2> QED BY <1>3, <1>4, <2>1, <2>3 DEF Multiple, WrapAt
<1>8. PICK s \in Multiple : s = x + w
  BY <1>7
<1>9. /\ buffer' \in [Chunks -> [Bytes -> Content]]
      /\ \A ch \in Chunks, i \in Bytes :
           ch # pChunk \/ (i # Pos(x) /\ i # Pos(s)) => buffer'[ch][i] = buffer[ch][i]
      /\ buffer'[pChunk][Pos(s)] = pLen
      /\ buffer'[pChunk][Pos(x)] = -w
  <2>1. buffer' = [[buffer EXCEPT ![pChunk][Pos(x)] = -w] EXCEPT ![pChunk][0] = pLen]
    BY <1>1, <1>2, <1>3, <1>4
  <2> QED BY <1>1, <1>5, <1>6, <1>7, <1>8, <2>1
<1>10. s + Rounded(pLen) < h.cc[pChunk] + ChunkSize /\ WrapAt(s) >= Rounded(pLen) /\ x <= s
  BY <1>3, <1>4, <1>7, <1>8
<1>11. s = x + WrapAt(x) /\ Pos(x) # 0 /\ buffer'[pChunk][Pos(x)] = -WrapAt(x) /\ pPos' = Pos(s)
  BY <1>2, <1>4, <1>5, <1>7, <1>8, <1>9
<1>12. pPc # "publishHead"
  OBVIOUS
<1>13. /\ x = g.p[pChunk] /\ pPc' = "fill" /\ pLen \in Fitting
       /\ pChunk = headChunk \/ (pChunk = ChunkOf(g.head + 1) /\ MayEnter(g, cv))
  BY <1>1, <1>2, <1>3
<1>14. /\ buffer' \in [Chunks -> [Bytes -> Content]]
       /\ \A ch \in Chunks, i \in Bytes :
           ch # pChunk \/ (i # Pos(x) /\ i # Pos(s)) => buffer'[ch][i] = buffer[ch][i]
       /\ buffer'[pChunk][Pos(s)] = pLen
  BY <1>9
<1> QED BY <1>10, <1>11, <1>12, <1>13, <1>14, Written

LEMMA ProduceStep ==
  ASSUME NEW g, NEW at, NEW pv, NEW cv, Consistent(g, at, pv, cv), Produce
  PROVE  Invariant'
<1>1. /\ instance \in Instances /\ Typed /\ g \in Ghosts /\ ProducerFrame(g, cv)
  BY Parts
<1>2. PICK length \in Lengths :
        /\ 0 < length /\ length < ChunkSize \div 2 /\ pLen' = length
        /\ pPc' = IF Crowded(consumePosCache[headChunk], producePos[headChunk], length)
                  THEN "reload" ELSE "wrap"
  BY DEF Produce
<1>3. /\ pPc = "idle" /\ pChunk' = headChunk /\ pPos' = producePos[headChunk]
      /\ UNCHANGED <<instance, positions, caches, seen, buffer, consumer, history>>
  BY DEF Produce
<1>4. PICK ch \in Chunks : ch = headChunk
  BY <1>1, Shown, Eras, ChunkOfRange
<1>5. /\ consumePosCache[ch] = Pos(g.cc[ch]) /\ producePos[ch] = Pos(g.p[ch])
      /\ g.cc[ch] \in Nat /\ g.p[ch] \in Nat /\ g.p[ch] \in Multiple /\ g.cc[ch] <= g.p[ch]
      /\ g.p[ch] < g.cc[ch] + ChunkSize
  BY Shown, Ends
<1>6. length \in Fitting
  BY <1>2 DEF Fitting
<1>7. pPc' = "wrap" => g.p[ch] + Rounded(length) < g.cc[ch] + ChunkSize
  BY <1>1, <1>2, <1>4, <1>5, <1>6, CrowdedMeans
<1>8. ProducerFrame(g, cv)'
  <2>1. Fitting' = Fitting /\ ChunkSize' = ChunkSize /\ Rounded(length)' = Rounded(length)
    BY <1>3, SameSizes DEF Rounded
  <2> QED BY <1>1, <1>2, <1>3, <1>4, <1>6, <1>7, <2>1 DEF ProducerFrame, positions
<1>9. pChunk' \in Chunks /\ pPos' \in Bytes /\ pLen' \in Lengths \cup {0}
  BY <1>1, <1>2, <1>3, <1>4, <1>5, PosRange
<1>10. CacheMoved(g, g, cv) /\ consumePosCache = At(g.cc)
  BY CacheStays
<1>11. \A k \in Chunks : \A z \in g.c[k] .. g.p[k] - 1 : buffer'[k][Pos(z)] = buffer[k][Pos(z)]
  BY <1>3
<1>12. buffer' \in [Chunks -> [Bytes -> Content]] /\ consumePosCache' = At(g.cc)
       /\ producePosCache' = producePosCache
  BY <1>1, <1>3, <1>10 DEF Typed, Content, caches
<1> QED BY <1>1, <1>3, <1>8, <1>9, <1>10, <1>11, <1>12, ProducerAlone DEF CacheMoved

\* A step of the producer that writes nothing, either.
LEMMA ProducerLooks ==
  ASSUME NEW g, NEW at, NEW pv, NEW cv, Consistent(g, at, pv, cv),
         NEW h, CacheMoved(g, h, cv), consumePosCache' = At(h.cc),
         pChunk' \in Chunks, pPos' \in Bytes, pLen' \in Lengths \cup {0},
         ProducerFrame(h, cv)',
         UNCHANGED <<instance, positions, producePosCache, seen, buffer, consumer, history>>
  PROVE  Invariant'
<1>1. \A k \in Chunks : \A z \in g.c[k] .. g.p[k] - 1 : buffer'[k][Pos(z)] = buffer[k][Pos(z)]
  OBVIOUS
<1>2. buffer' \in [Chunks -> [Bytes -> Content]]
  BY Parts DEF Typed, Content
<1> QED BY <1>1, <1>2, ProducerAlone DEF CacheMoved

LEMMA ReloadStep ==
  ASSUME NEW g, NEW at, NEW pv, NEW cv, Consistent(g, at, pv, cv), Reload
  PROVE  Invariant'
<1>1. /\ instance \in Instances /\ Typed /\ g \in Ghosts /\ ProducerFrame(g, cv)
  BY Parts
<1>2. /\ pPc = "reload" /\ LoadConsumePos
      /\ pPc' = IF Crowded(consumeSeen[pChunk], pPos, pLen) THEN "cross" ELSE "wrap"
      /\ UNCHANGED <<instance, positions, producePosCache, seen, buffer, pChunk, pPos,
                     pLen, consumer, history>>
  BY DEF Reload
<1>3. PICK h : /\ CacheMoved(g, h, cv) /\ consumePosCache' = At(h.cc)
               /\ h.cc[pChunk] = cv[0].pos[pChunk]
  BY <1>2, CacheLoaded
<1>4. /\ pLen \in Fitting /\ pPos = Pos(g.p[pChunk]) /\ pChunk \in Chunks
      /\ pChunk = headChunk /\ pPos = producePos[pChunk]
  BY <1>1, <1>2, Behind DEF ProducerFrame
<1>5. PICK x \in Nat, y \in Nat :
        /\ x = cv[0].pos[pChunk] /\ y = g.p[pChunk] /\ x <= y /\ y < x + ChunkSize
        /\ consumeSeen[pChunk] = Pos(x)
  <2>1. ChunkSize \in Nat
    BY <1>1, Naturals
  <2> QED BY <1>4, <2>1, Ends, Shown
<1>6. pPc' = "wrap" => g.p[pChunk] + Rounded(pLen) < h.cc[pChunk] + ChunkSize
  BY <1>1, <1>2, <1>3, <1>4, <1>5, CrowdedMeans
<1>7. ProducerFrame(h, cv)'
  <2>1. Fitting' = Fitting /\ ChunkSize' = ChunkSize /\ Rounded(pLen)' = Rounded(pLen)
    BY <1>2, SameSizes DEF Rounded
  <2>2. h.p = g.p /\ h.head = g.head /\ h.newest = g.newest
    BY <1>3 DEF CacheMoved
  <2> QED BY <1>1, <1>2, <1>4, <1>6, <2>1, <2>2 DEF ProducerFrame, positions
<1>8. pChunk' \in Chunks /\ pPos' \in Bytes /\ pLen' \in Lengths \cup {0}
  BY <1>1, <1>2 DEF Typed
<1> QED BY <1>2, <1>3, <1>7, <1>8, ProducerLooks

\* A chunk the producer may not go on in: the next one is tried.
LEMMA WrapStep ==
  ASSUME NEW g, NEW at, NEW pv, NEW cv, Consistent(g, at, pv, cv), Wrap
  PROVE  Invariant'
<1>1. /\ instance \in Instances /\ Typed /\ g \in Ghosts /\ ProducerFrame(g, cv)
  BY Parts
<1>2. /\ pPc = "wrap"
      /\ UNCHANGED <<instance, positions, caches, seen, pChunk, pLen, consumer, history>>
  BY DEF Wrap
<1>3. CacheMoved(g, g, cv) /\ consumePosCache' = At(g.cc) /\ producePosCache' = producePosCache
  BY <1>2, CacheStays DEF caches
<1>4. /\ pLen \in Fitting /\ pPos = Pos(g.p[pChunk]) /\ pChunk \in Chunks
      /\ WrapDistance(pPos) = WrapAt(g.p[pChunk])
      /\ pChunk = headChunk /\ pPos = producePos[pChunk]
      /\ g.p[pChunk] + Rounded(pLen) < g.cc[pChunk] + ChunkSize
  BY <1>1, <1>2, Behind DEF ProducerFrame
<1>5. CASE WriteLength
  BY <1>2, <1>3, <1>4, <1>5, LengthWritten
<1>6. CASE consumePosCache[pChunk] > Rounded(pLen) /\ WriteMarker
  <2>1. PICK x \in Nat, y \in Nat :
          /\ x = g.cc[pChunk] /\ y = g.p[pChunk] /\ x <= y /\ y < x + ChunkSize
          /\ consumePosCache[pChunk] = Pos(x)
    <3>1. ChunkSize \in Nat
      BY <1>1, Naturals
    <3> QED BY <1>4, <3>1, Ends, Shown
  <2>2. WrapAt(y) < Rounded(pLen) /\ Pos(x) > Rounded(pLen)
    BY <1>4, <1>6, <2>1 DEF WriteMarker
  <2>3. g.p[pChunk] + WrapAt(g.p[pChunk]) + Rounded(pLen) < g.cc[pChunk] + ChunkSize
    BY <1>1, <1>4, <2>1, <2>2, WrapMeans
  <2> QED BY <1>2, <1>3, <1>6, <2>3, MarkerWritten
<1>7. CASE /\ WrapDistance(pPos) < Rounded(pLen) /\ pPc' = "reloadWrap"
           /\ UNCHANGED <<buffer, pPos>>
  <2>1. ProducerFrame(g, cv)'
    <3>1. /\ Fitting' = Fitting /\ ChunkSize' = ChunkSize /\ Rounded(pLen)' = Rounded(pLen)
          /\ WrapDistance(pPos)' = WrapDistance(pPos)
      BY <1>2, <1>7, SameSizes DEF Rounded, WrapDistance
    <3> QED BY <1>1, <1>2, <1>4, <1>7, <3>1 DEF ProducerFrame, positions
  <2>2. pChunk' \in Chunks /\ pPos' \in Bytes /\ pLen' \in Lengths \cup {0}
    BY <1>1, <1>2, <1>7 DEF Typed
  <2> QED BY <1>2, <1>3, <1>7, <2>1, <2>2, ProducerLooks
<1> QED BY <1>5, <1>6, <1>7 DEF Wrap

LEMMA ReloadWrapStep ==
  ASSUME NEW g, NEW at, NEW pv, NEW cv, Consistent(g, at, pv, cv), ReloadWrap
  PROVE  Invariant'
<1>1. /\ instance \in Instances /\ Typed /\ g \in Ghosts /\ ProducerFrame(g, cv)
  BY Parts
<1>2. /\ pPc = "reloadWrap" /\ LoadConsumePos
      /\ UNCHANGED <<instance, positions, producePosCache, seen, pChunk, pLen,
                     consumer, history>>
  BY DEF ReloadWrap
<1>3. PICK h : /\ CacheMoved(g, h, cv) /\ consumePosCache' = At(h.cc)
               /\ h.cc[pChunk] = cv[0].pos[pChunk]
  BY <1>2, CacheLoaded
<1>4. /\ pLen \in Fitting /\ pPos = Pos(g.p[pChunk]) /\ pChunk \in Chunks
      /\ WrapDistance(pPos) = WrapAt(g.p[pChunk]) /\ Rounded(pLen) \in Nat
      /\ pChunk = headChunk /\ pPos = producePos[pChunk]
      /\ g.p[pChunk] + Rounded(pLen) < g.cc[pChunk] + ChunkSize
  BY <1>1, <1>2, Behind DEF ProducerFrame
<1>5. CASE consumeSeen[pChunk] > Rounded(pLen) /\ WriteMarker
  <2>1. PICK x \in Nat, y \in Nat :
          /\ x = cv[0].pos[pChunk] /\ y = g.p[pChunk] /\ x <= y /\ y < x + ChunkSize
          /\ consumeSeen[pChunk] = Pos(x) /\ y + Rounded(pLen) < x + ChunkSize
    <3>1. ChunkSize \in Nat
      BY <1>1, Naturals
    <3> QED BY <1>4, <3>1, Ends, Shown
  <2>2. WrapAt(y) < Rounded(pLen) /\ Pos(x) > Rounded(pLen)
    BY <1>4, <1>5, <2>1 DEF WriteMarker
  <2>3. g.p[pChunk] + WrapAt(g.p[pChunk]) + Rounded(pLen) < h.cc[pChunk] + ChunkSize
    BY <1>1, <1>3, <1>4, <2>1, <2>2, WrapMeans
  <2> QED BY <1>2, <1>3, <1>5, <2>3, MarkerWritten
<1>6. CASE pPc' = "cross" /\ UNCHANGED <<buffer, pPos>>
  <2>1. ProducerFrame(h, cv)'
    <3>1. Fitting' = Fitting
      BY <1>2, SameSizes
    <3>2. h.head = g.head /\ h.newest = g.newest
      BY <1>3 DEF CacheMoved
    <3> QED BY <1>1, <1>2, <1>4, <1>6, <3>1, <3>2 DEF ProducerFrame, positions
  <2>2. pChunk' \in Chunks /\ pPos' \in Bytes /\ pLen' \in Lengths \cup {0}
    BY <1>1, <1>2, <1>6 DEF Typed
  <2> QED BY <1>2, <1>3, <1>6, <2>1, <2>2, ProducerLooks
<1> QED BY <1>5, <1>6 DEF ReloadWrap

\* A chunk the consumer is not seen to be in may be entered.
LEMMA CrossStep ==
  ASSUME NEW g, NEW at, NEW pv, NEW cv, Consistent(g, at, pv, cv), Cross
  PROVE  Invariant'
<1>1. /\ instance \in Instances /\ Typed /\ g \in Ghosts /\ ProducerFrame(g, cv)
  BY Parts
<1>2. /\ pPc = "cross"
      /\ UNCHANGED <<instance, positions, caches, seen, buffer, consumer, history>>
  BY DEF Cross
<1>3. CacheMoved(g, g, cv) /\ consumePosCache' = At(g.cc) /\ producePosCache' = producePosCache
  BY <1>2, CacheStays DEF caches
<1>4. pLen \in Fitting /\ pChunk = headChunk /\ g.newest = g.head
  BY <1>1, <1>2 DEF ProducerFrame
<1>5. Fitting' = Fitting /\ \A e : ChunkOf(e)' = ChunkOf(e)
  BY <1>2, SameSizes
<1>6. CASE ProducerReturns
  <2>1. ProducerFrame(g, cv)'
    BY <1>4, <1>6 DEF ProducerFrame, ProducerReturns
  <2>2. pChunk' \in Chunks /\ pPos' \in Bytes /\ pLen' \in Lengths \cup {0}
    BY <1>1, <1>6, Sizes DEF ProducerReturns, Chunks, Bytes
  <2> QED BY <1>2, <1>3, <2>1, <2>2, ProducerLooks
<1>7. CASE /\ NextChunk(pChunk) # tailSeen
           /\ pChunk' = NextChunk(pChunk) /\ pPos' = producePos[NextChunk(pChunk)]
           /\ pPc' = "enter" /\ UNCHANGED pLen
  <2>1. PICK e \in Nat, d \in Nat, n \in Nat :
          /\ e = g.head /\ d = cv[0].era /\ n = ChunkCount /\ n > 0
          /\ d <= e /\ e < d + n
    BY <1>4, Eras
  <2>2. pChunk' = ChunkOf(e + 1) /\ headChunk = ChunkOf(e) /\ tailSeen = ChunkOf(d)
    BY <1>1, <1>4, <1>7, <2>1, EraNext, Shown
  <2>3. e + 1 # d + n
    <3>1. ChunkOf(d + n) = ChunkOf(d)
      BY <1>1, <2>1, EraOnce
    <3> QED BY <1>7, <2>2, <3>1
  <2>4. e + 1 < d + n /\ e + 1 \in Nat /\ e < e + 1 /\ e + 1 < e + n
    BY <2>1, <2>3
  <2>5. pChunk' # headChunk
    BY <1>1, <2>1, <2>2, <2>4, EraApart
  <2>6. MayEnter(g, cv)'
    <3>1. ChunkCount' = ChunkCount
      BY <1>2, SameSizes
    <3> QED BY <2>1, <2>4, <3>1 DEF MayEnter
  <2>7. ProducerFrame(g, cv)'
    BY <1>2, <1>4, <1>5, <1>7, <2>1, <2>2, <2>5, <2>6 DEF ProducerFrame, positions
  <2>8. pChunk' \in Chunks /\ pPos' \in Bytes /\ pLen' \in Lengths \cup {0}
    <3>1. PICK ch \in Chunks : ch = pChunk'
      BY <1>1, <2>1, <2>2, <2>4, ChunkOfRange
    <3>2. producePos[ch] = Pos(g.p[ch]) /\ g.p[ch] \in Nat
      BY Shown, Ends
    <3> QED BY <1>1, <1>4, <1>7, <3>1, <3>2, PosRange DEF Fitting
  <2> QED BY <1>2, <1>3, <2>7, <2>8, ProducerLooks
<1> QED BY <1>6, <1>7 DEF Cross

\* It is seen to be empty.
LEMMA EnteredEmpty ==
  ASSUME NEW g, NEW at, NEW pv, NEW cv, Consistent(g, at, pv, cv), MayEnter(g, cv),
         g.newest = g.head, pChunk = ChunkOf(g.head + 1)
  PROVE  cv[0].pos[pChunk] = g.p[pChunk]
<1>1. ConsumerView(g, cv[0])
  BY Parts
<1>2. g.head + 1 \in g.newest + 1 .. cv[0].era + ChunkCount - 1
  BY Eras DEF MayEnter
<1> QED BY <1>1, <1>2 DEF ConsumerView

LEMMA EnterStep ==
  ASSUME NEW g, NEW at, NEW pv, NEW cv, Consistent(g, at, pv, cv), Enter
  PROVE  Invariant'
<1>1. /\ instance \in Instances /\ ProducerFrame(g, cv)
  BY Parts
<1>2. /\ pPc = "enter" /\ LoadConsumePos
      /\ UNCHANGED <<instance, positions, producePosCache, seen, pChunk, pLen,
                     consumer, history>>
  BY DEF Enter
<1>3. PICK h : /\ CacheMoved(g, h, cv) /\ consumePosCache' = At(h.cc)
               /\ h.cc[pChunk] = cv[0].pos[pChunk]
  BY <1>2, CacheLoaded
<1>4. /\ pLen \in Fitting /\ pPos = Pos(g.p[pChunk]) /\ pChunk \in Chunks
      /\ WrapDistance(pPos) = WrapAt(g.p[pChunk])
      /\ pChunk = ChunkOf(g.head + 1) /\ MayEnter(g, cv) /\ g.newest = g.head
  BY <1>1, <1>2, Behind DEF ProducerFrame
<1>5. PICK y \in Nat : y = g.p[pChunk] /\ h.cc[pChunk] = y
  BY <1>3, <1>4, EnteredEmpty, Ends
<1>6. CASE WriteLength
  <2>1. y + Rounded(pLen) < y + ChunkSize
    BY <1>1, <1>4, FittingFacts, Naturals
  <2> QED BY <1>2, <1>3, <1>5, <1>6, <2>1, LengthWritten
<1>7. CASE WriteMarker
  <2>1. pLen \in Lengths /\ pLen < ChunkSize \div 2 /\ WrapAt(y) < Rounded(pLen)
    BY <1>4, <1>5, <1>7 DEF Fitting, WriteMarker
  <2>2. y + WrapAt(y) + Rounded(pLen) < y + ChunkSize
    BY <1>1, <2>1, WrapEmpty
  <2> QED BY <1>2, <1>3, <1>5, <1>7, <2>2, MarkerWritten
<1> QED BY <1>6, <1>7 DEF Enter

\* The record the producer is writing.
LEMMA Writing ==
  ASSUME NEW g, NEW at, NEW pv, NEW cv, Consistent(g, at, pv, cv), pPc \in {"fill", "publish"}
  PROVE  /\ instance \in Instances /\ pChunk \in Chunks /\ pLen \in Fitting
         /\ g.newest = g.head
         /\ pChunk = headChunk \/ (pChunk = ChunkOf(g.head + 1) /\ MayEnter(g, cv))
         /\ \E x \in Multiple, s \in Multiple, y \in Multiple :
              /\ x = g.p[pChunk] /\ s = Start(pChunk, x) /\ pPos = Pos(s)
              /\ Link(pChunk, x, y, RecordAt(pChunk, pPos, pLen))
              /\ x <= s /\ s < y /\ y = s + Rounded(pLen) /\ y < g.cc[pChunk] + ChunkSize
              /\ WrapAt(s) >= Rounded(pLen) /\ Advance(pPos, pLen) = Pos(y)
              /\ x \in Nat /\ s \in Nat /\ y \in Nat
<1>1. /\ instance \in Instances /\ pChunk \in Chunks /\ ProducerFrame(g, cv)
  BY Parts DEF Typed
<1>2. PICK x \in Multiple : x = g.p[pChunk]
  BY <1>1, Ends
<1>3. PICK y \in Multiple : /\ Link(pChunk, x, y, RecordAt(pChunk, pPos, pLen))
                            /\ y < g.cc[pChunk] + ChunkSize
  BY <1>1, <1>2 DEF ProducerFrame
<1>4. PICK r : r = RecordAt(pChunk, pPos, pLen)
  OBVIOUS
<1>10. r.length = pLen
  BY <1>4 DEF RecordAt
<1>5. /\ Start(pChunk, x) \in Multiple /\ x <= Start(pChunk, x)
      /\ Start(pChunk, x) + Align <= y
      /\ y = Start(pChunk, x) + Rounded(r.length)
      /\ WrapAt(Start(pChunk, x)) >= Rounded(r.length)
      /\ Advance(Pos(Start(pChunk, x)), r.length) = Pos(y)
  BY <1>1, <1>2, <1>3, <1>4, LinkFacts
<1>6. PICK s \in Multiple : s = Start(pChunk, x)
  BY <1>5
<1>7. x \in Nat /\ s \in Nat /\ y \in Nat /\ Align \in Nat /\ Align > 0
  BY <1>1, MultipleFacts, Naturals
<1>8. s < y
  BY <1>5, <1>6, <1>7
<1>9. pPos = Pos(s) /\ pLen \in Fitting /\ g.newest = g.head
      /\ (pChunk = headChunk \/ (pChunk = ChunkOf(g.head + 1) /\ MayEnter(g, cv)))
  BY <1>1, <1>2, <1>6 DEF ProducerFrame
<1> QED BY <1>1, <1>2, <1>3, <1>5, <1>6, <1>7, <1>8, <1>9, <1>10

LEMMA FillStep ==
  ASSUME NEW g, NEW at, NEW pv, NEW cv, Consistent(g, at, pv, cv), Fill
  PROVE  Invariant'
<1>1. /\ pPc = "fill" /\ pPc' = "publish"
      /\ UNCHANGED <<instance, positions, caches, seen, pChunk, pPos, pLen, consumer, history>>
  BY DEF Fill
<1>2. PICK e \in Elem :
        buffer' = [buffer EXCEPT ![pChunk] = [i \in Bytes |->
                    IF i \in Payload(pPos, pLen) THEN e ELSE @[i]]]
  BY DEF Fill
<1>3. /\ instance \in Instances /\ pChunk \in Chunks /\ pLen \in Fitting /\ g.newest = g.head
      /\ pChunk = headChunk \/ (pChunk = ChunkOf(g.head + 1) /\ MayEnter(g, cv))
      /\ buffer \in [Chunks -> [Bytes -> Content]]
  BY <1>1, Writing, Parts DEF Typed, Content
<1>4. PICK x \in Multiple, s \in Multiple, y \in Multiple :
        /\ x = g.p[pChunk] /\ s = Start(pChunk, x) /\ pPos = Pos(s)
        /\ Link(pChunk, x, y, RecordAt(pChunk, pPos, pLen))
        /\ x <= s /\ s < y /\ y = s + Rounded(pLen) /\ y < g.cc[pChunk] + ChunkSize
        /\ WrapAt(s) >= Rounded(pLen)
        /\ x \in Nat /\ s \in Nat /\ y \in Nat
  BY <1>1, Writing
<1>5. CacheMoved(g, g, cv) /\ consumePosCache' = At(g.cc) /\ producePosCache' = producePosCache
  BY <1>1, CacheStays DEF caches
<1>6. PICK k \in Chunks : k = pChunk
  BY <1>3
<1>7. /\ buffer' \in [Chunks -> [Bytes -> Content]]
      /\ \A ch \in Chunks, i \in Bytes : ch # k \/ i \notin Payload(pPos, pLen) =>
           buffer'[ch][i] = buffer[ch][i]
      /\ \A i \in Bytes : i \in Payload(pPos, pLen) => buffer'[k][i] = e
  BY <1>2, <1>3, <1>6 DEF Content
<1>8. /\ Payload(pPos, pLen) \subseteq Bytes /\ Pos(s) + Header \in Payload(pPos, pLen)
      /\ \A i \in Payload(pPos, pLen) : \E z \in s + 1 .. y - 1 : i = Pos(z)
  <2>1. /\ Payload(Pos(s), pLen) \subseteq Bytes /\ Pos(s) + Header \in Payload(Pos(s), pLen)
        /\ \A i \in Payload(Pos(s), pLen) :
             \E z \in s + 1 .. s + Rounded(pLen) - 1 : i = Pos(z)
    BY <1>3, <1>4, ExtentFacts
  <2>2. s + 1 .. s + Rounded(pLen) - 1 = s + 1 .. y - 1
    <3>1. PICK R \in Nat : R = Rounded(pLen)
      BY <1>3, FittingFacts
    <3>2. y = s + R /\ s \in Nat
      BY <1>4, <3>1
    <3> QED BY <3>1, <3>2
  <2>3. pPos = Pos(s)
    BY <1>4
  <2> QED BY <2>1, <2>2, <2>3
<1>9. ASSUME NEW ch \in Chunks, NEW z \in Nat, g.c[ch] <= z, ch = k => z <= s
      PROVE  buffer'[ch][Pos(z)] = buffer[ch][Pos(z)]
  <2>1. Pos(z) \in Bytes
    BY <1>3, PosRange
  <2>2. CASE ch # k
    BY <1>7, <2>1, <2>2
  <2>3. CASE ch = k
    <3>1. ASSUME NEW u \in s + 1 .. y - 1
          PROVE  Pos(z) # Pos(u)
      <4>1. g.cc[ch] \in Nat /\ ChunkSize \in Nat
        BY <1>3, Ends, Naturals
      <4>2. u \in Nat /\ z < u /\ u < g.cc[ch] + ChunkSize
        BY <1>4, <1>6, <1>9, <2>3, <4>1
      <4> QED BY <1>5, <1>9, <4>2, WriteBehind
    <3>2. Pos(z) \notin Payload(pPos, pLen)
      BY <1>8, <3>1
    <3> QED BY <1>7, <2>1, <3>2
  <2> QED BY <2>2, <2>3
<1>10. \A ch \in Chunks : \A z \in g.c[ch] .. g.p[ch] - 1 :
         buffer'[ch][Pos(z)] = buffer[ch][Pos(z)]
  <2> SUFFICES ASSUME NEW ch \in Chunks, NEW z \in g.c[ch] .. g.p[ch] - 1
               PROVE  buffer'[ch][Pos(z)] = buffer[ch][Pos(z)]
    OBVIOUS
  <2>1. g.c[ch] \in Nat /\ g.p[ch] \in Nat
    BY Ends
  <2>2. z \in Nat /\ g.c[ch] <= z /\ (ch = k => z <= s)
    BY <1>4, <1>6, <2>1
  <2> QED BY <1>9, <2>2
<1>11. /\ buffer'[k][Pos(x)] = buffer[k][Pos(x)] /\ buffer'[k][Pos(s)] = buffer[k][Pos(s)]
  <2>1. g.c[k] \in Nat /\ g.c[k] <= x /\ g.c[k] <= s
    BY <1>4, <1>6, Ends
  <2> QED BY <1>4, <1>9, <2>1
<1>12. /\ Fitting' = Fitting /\ ChunkSize' = ChunkSize /\ Bytes' = Bytes
       /\ ChunkCount' = ChunkCount
       /\ \A n : Pos(n)' = Pos(n) /\ WrapAt(n)' = WrapAt(n) /\ ChunkOf(n)' = ChunkOf(n)
  BY <1>1, SameSizes
<1>13. PICK r : r = RecordAt(k, Pos(s), pLen)'
  OBVIOUS
<1>14. r.length = pLen /\ r.data = {e}
  <2>1. r.length = pLen
    BY <1>1, <1>13 DEF RecordAt
  <2>2. r.data = {buffer'[k][i] : i \in Payload(pPos, pLen) \cap Bytes}
    BY <1>1, <1>4, <1>12, <1>13 DEF RecordAt, Payload
  <2>3. Payload(pPos, pLen) \cap Bytes # {}
    BY <1>8
  <2> QED BY <1>7, <2>1, <2>2, <2>3
<1>15. Start(k, x)' = s /\ (Marked(k, x)' <=> Marked(k, x))
  BY <1>4, <1>6, <1>11, <1>12 DEF Start, Marked
<1>16. Link(k, x, y, r)'
  <2>1. /\ buffer[k][Pos(x)] \in Fitting \/ Marked(k, x)
        /\ buffer[k][Pos(s)] = pLen
    BY <1>4, <1>6 DEF Link, RecordAt
  <2>2. r = RecordAt(k, Pos(s), r.length)'
    BY <1>1, <1>13, <1>14 DEF RecordAt, Payload
  <2> QED BY <1>3, <1>4, <1>11, <1>12, <1>14, <1>15, <2>1, <2>2 DEF Link, Rounded
<1>17. RecordAt(pChunk, pPos, pLen)' = r
  BY <1>1, <1>4, <1>6, <1>12, <1>13 DEF RecordAt, Payload
<1>18. ProducerFrame(g, cv)'
  <2>1. pChunk' = headChunk' \/ (pChunk' = ChunkOf(g.head + 1)' /\ MayEnter(g, cv)')
    BY <1>1, <1>3, <1>12 DEF positions, MayEnter
  <2>2. pPos' = Pos(Start(pChunk, g.p[pChunk]))'
    <3>1. Start(pChunk, g.p[pChunk])' = s
      BY <1>1, <1>4, <1>6, <1>15 DEF Start
    <3> QED BY <1>1, <1>4, <1>12, <3>1 DEF Pos
  <2>3. \E u \in Multiple : /\ Link(pChunk, g.p[pChunk], u, RecordAt(pChunk, pPos, pLen))'
                            /\ u < g.cc[pChunk'] + ChunkSize'
    BY <1>1, <1>4, <1>6, <1>12, <1>16, <1>17
  <2>4. pPc' = "publish" /\ pLen' \in Fitting'
    BY <1>1, <1>3, <1>12
  <2>5. \E d \in Elem : RecordAt(pChunk, pPos, pLen)'.data = {d}
    BY <1>14, <1>17
  <2> QED BY <1>1, <1>3, <2>1, <2>2, <2>3, <2>4, <2>5 DEF ProducerFrame
<1>19. pChunk' \in Chunks /\ pPos' \in Bytes /\ pLen' \in Lengths \cup {0}
  BY <1>1, Parts DEF Typed
<1> QED BY <1>1, <1>5, <1>7, <1>10, <1>18, <1>19, ProducerAlone DEF CacheMoved

\* A callback that gives up leaves nothing behind that anyone reads.
LEMMA RefuseStep ==
  ASSUME NEW g, NEW at, NEW pv, NEW cv, Consistent(g, at, pv, cv), Refuse
  PROVE  Invariant'
<1>1. /\ pPc = "fill" /\ ProducerReturns
      /\ UNCHANGED <<instance, positions, caches, seen, buffer, consumer, history>>
  BY DEF Refuse
<1>2. CacheMoved(g, g, cv) /\ consumePosCache' = At(g.cc) /\ producePosCache' = producePosCache
  BY <1>1, CacheStays DEF caches
<1>3. ProducerFrame(g, cv)'
  <2>1. g.newest = g.head
    BY <1>1, Writing
  <2> QED BY <1>1, <2>1 DEF ProducerFrame, ProducerReturns
<1>4. pChunk' \in Chunks /\ pPos' \in Bytes /\ pLen' \in Lengths \cup {0}
  BY <1>1, Parts, Sizes DEF ProducerReturns, Chunks, Bytes
<1> QED BY <1>1, <1>2, <1>3, <1>4, ProducerLooks

-----------------------------------------------------------------------------
(* consume.                                                                *)

\* Ends that are not a chunk apart are the same when their positions are.
LEMMA PosTells ==
  ASSUME instance \in Instances, NEW x \in Nat, NEW y \in Nat, x <= y, y < x + ChunkSize,
         Pos(x) = Pos(y)
  PROVE  x = y
<1>1. ~(x < y)
  BY PosApart
<1> QED BY <1>1

\* The consumer's cache catches up, chunk by chunk, with what it sees.
SeenMoved(g, h, at, pv) ==
  /\ h \in Ghosts /\ h.p = g.p /\ h.cc = g.cc /\ h.c = g.c /\ h.cp = g.cp
  /\ h.head = g.head /\ h.newest = g.newest /\ h.tail = g.tail /\ h.behind = g.behind
  /\ \A ch \in Chunks : /\ g.pc[ch] <= h.pc[ch] /\ h.pc[ch] <= pv[0].pos[ch]
                        /\ Boundary(g, at, ch, h.pc[ch])

LEMMA SeenStays ==
  ASSUME NEW g, NEW at, NEW pv, NEW cv, Consistent(g, at, pv, cv)
  PROVE  SeenMoved(g, g, at, pv) /\ producePosCache = At(g.pc)
<1>1. g \in Ghosts /\ Places(g) /\ Chain(g, at)
  BY Parts
<1>2. \A ch \in Chunks : g.pc[ch] <= g.pc[ch] /\ g.pc[ch] <= pv[0].pos[ch]
  BY Ends
<1> QED BY <1>1, <1>2 DEF SeenMoved, Places, Chain

LEMMA SeenLoaded ==
  ASSUME NEW g, NEW at, NEW pv, NEW cv, Consistent(g, at, pv, cv),
         NEW k \in Chunks, LoadProducePos(k)
  PROVE  \E h : /\ SeenMoved(g, h, at, pv) /\ producePosCache' = At(h.pc)
                /\ h.pc[k] = pv[0].pos[k]
<1>1. g \in Ghosts /\ Places(g) /\ ProducerView(g, at, pv[0]) /\ Chain(g, at)
  BY Parts
<1>2. PICK x \in Multiple : x = pv[0].pos[k]
  BY Ends
<1>3. PICK f \in Numbering : f = [g.pc EXCEPT ![k] = x]
  BY <1>1, <1>2, Fields DEF Numbering
<1>4. PICK h \in Ghosts :
        /\ h.p = g.p /\ h.pc = f /\ h.c = g.c /\ h.cp = g.cp /\ h.cc = g.cc
        /\ h.head = g.head /\ h.newest = g.newest /\ h.tail = g.tail /\ h.behind = g.behind
  <2>1. [g EXCEPT !.pc = f] \in Ghosts
    BY <1>1, <1>3 DEF Ghosts
  <2> QED BY <1>1, <2>1 DEF Ghosts
<1>5. \A ch \in Chunks : f[ch] = IF ch = k THEN x ELSE g.pc[ch]
  BY <1>1, <1>3, Fields DEF Numbering
<1>6. SeenMoved(g, h, at, pv)
  <2>1. \A ch \in Chunks : /\ g.pc[ch] <= f[ch] /\ f[ch] <= pv[0].pos[ch]
                           /\ Boundary(g, at, ch, f[ch])
    <3> SUFFICES ASSUME NEW ch \in Chunks
                 PROVE  /\ g.pc[ch] <= f[ch] /\ f[ch] <= pv[0].pos[ch]
                        /\ Boundary(g, at, ch, f[ch])
      OBVIOUS
    <3>1. g.pc[ch] \in Nat /\ pv[0].pos[ch] \in Nat /\ g.pc[ch] <= pv[0].pos[ch]
      BY Ends
    <3>2. Boundary(g, at, ch, g.pc[ch]) /\ Boundary(g, at, ch, pv[0].pos[ch])
      BY <1>1 DEF Chain, ProducerView
    <3> QED BY <1>2, <1>5, <3>1, <3>2
  <2> QED BY <1>4, <2>1 DEF SeenMoved
<1>7. producePosCache' = At(h.pc)
  <2>1. produceSeen[k] = Pos(x)
    BY <1>2, Shown
  <2>2. producePosCache' = [At(g.pc) EXCEPT ![k] = Pos(x)]
    BY <1>1, <2>1 DEF Places, LoadProducePos
  <2> QED BY <1>4, <1>5, <2>2 DEF At
<1>8. h.pc[k] = pv[0].pos[k]
  BY <1>2, <1>4, <1>5
<1> QED BY <1>6, <1>7, <1>8

\* A step of the consumer that only looks.
LEMMA ConsumerLooks ==
  ASSUME NEW g, NEW at, NEW pv, NEW cv, Consistent(g, at, pv, cv),
         NEW h, SeenMoved(g, h, at, pv), producePosCache' = At(h.pc),
         cChunk' \in Chunks, cHead' \in Chunks, cPos' \in Bytes, ConsumerFrame(h, pv)',
         UNCHANGED <<instance, positions, consumePosCache, seen, buffer, producer, history>>
  PROVE  Invariant'
BY ConsumerAlone DEF SeenMoved

\* What all these steps leave as it is.
LEMMA ConsumerSame ==
  ASSUME NEW g, NEW h, NEW at, NEW pv, SeenMoved(g, h, at, pv),
         UNCHANGED <<instance, positions, buffer>>
  PROVE  /\ Firm' = Firm /\ Chunks' = Chunks
         /\ \A x : Pos(x)' = Pos(x) /\ ChunkOf(x)' = ChunkOf(x)
         /\ Emptied(h, pv)' <=> Emptied(g, pv)
         /\ UNCHANGED <<consumePos, tailChunk, headChunk>>
         /\ \A x : buffer'[cChunk'][x] = buffer[cChunk'][x]
<1>1. Firm' = Firm /\ Chunks' = Chunks /\ \A x : Pos(x)' = Pos(x) /\ ChunkOf(x)' = ChunkOf(x)
  BY SameSizes
<1>2. Emptied(h, pv)' <=> Emptied(g, pv)
  BY <1>1 DEF Emptied, SeenMoved
<1> QED BY <1>1, <1>2 DEF positions

\* A call that ends has taken nothing it did not release.
LEMMA ConsumerGone ==
  ASSUME NEW g, NEW at, NEW pv, NEW cv, Consistent(g, at, pv, cv),
         NEW h, SeenMoved(g, h, at, pv), producePosCache' = At(h.pc),
         cPc \in {"loadHead", "reload", "cross", "take", "takeFirst"}, ConsumerReturns,
         UNCHANGED <<instance, positions, consumePosCache, seen, buffer, producer, history>>
  PROVE  Invariant'
<1>1. ConsumerFrame(g, pv) /\ Typed /\ instance \in Instances
  BY Parts
<1>2. ConsumerFrame(h, pv)'
  <2>1. Firm' = Firm /\ Chunks' = Chunks /\ (Emptied(h, pv)' <=> Emptied(g, pv))
    BY ConsumerSame
  <2>2. \A ch \in Chunks : g.c[ch] = g.cp[ch]
    BY <1>1 DEF ConsumerFrame
  <2>3. h.c = g.c /\ h.cp = g.cp /\ h.behind = g.behind
    BY DEF SeenMoved
  <2>4. g.behind => Emptied(g, pv) /\ ~Firm
    BY <1>1 DEF ConsumerFrame
  <2> QED BY <2>1, <2>2, <2>3, <2>4 DEF ConsumerFrame, ConsumerReturns
<1>3. cChunk' \in Chunks /\ cHead' \in Chunks /\ cPos' \in Bytes
  BY <1>1, Sizes DEF ConsumerReturns, Chunks, Bytes
<1> QED BY <1>2, <1>3, ConsumerLooks

LEMMA ConsumeStep ==
  ASSUME NEW g, NEW at, NEW pv, NEW cv, Consistent(g, at, pv, cv), Consume
  PROVE  Invariant'
<1>1. ConsumerFrame(g, pv) /\ Typed /\ instance \in Instances
  BY Parts
<1>2. /\ cPc = "idle" /\ cChunk' = tailChunk /\ cPos' = consumePos[tailChunk]
      /\ cPc' = IF producePosCache[tailChunk] # consumePos[tailChunk]
                THEN "take" ELSE "loadHead"
      /\ UNCHANGED <<instance, positions, caches, seen, buffer, producer, cHead, history>>
  BY DEF Consume
<1>3. SeenMoved(g, g, at, pv) /\ producePosCache' = At(g.pc) /\ consumePosCache' = consumePosCache
  BY <1>2, SeenStays DEF caches
<1>4. PICK k \in Chunks : k = tailChunk
  BY <1>1, Shown, Eras, ChunkOfRange
<1>5. /\ producePosCache[k] = Pos(g.pc[k]) /\ consumePos[k] = Pos(g.cp[k])
      /\ g.cp[k] \in Nat /\ g.c[k] <= g.pc[k] /\ g.c[k] \in Nat /\ g.pc[k] \in Nat
      /\ \A ch \in Chunks : g.c[ch] = g.cp[ch]
  BY <1>1, <1>2, Shown, Ends DEF ConsumerFrame
<1>6. cPc' = "take" => g.c[k] < g.pc[k]
  BY <1>2, <1>4, <1>5
<1>7. ConsumerFrame(g, pv)'
  <2>1. /\ Firm' = Firm /\ Chunks' = Chunks /\ (Emptied(g, pv)' <=> Emptied(g, pv))
        /\ UNCHANGED <<consumePos, tailChunk>>
    BY <1>2, <1>3, ConsumerSame
  <2>2. g.behind => Emptied(g, pv) /\ ~Firm
    BY <1>1, <1>2 DEF ConsumerFrame
  <2> QED BY <1>2, <1>4, <1>5, <1>6, <2>1, <2>2 DEF ConsumerFrame
<1>8. cChunk' \in Chunks /\ cHead' \in Chunks /\ cPos' \in Bytes
  BY <1>1, <1>2, <1>4, <1>5, PosRange DEF Typed
<1> QED BY <1>2, <1>3, <1>7, <1>8, ConsumerLooks

LEMMA LoadHeadStep ==
  ASSUME NEW g, NEW at, NEW pv, NEW cv, Consistent(g, at, pv, cv), LoadHead
  PROVE  Invariant'
<1>1. ConsumerFrame(g, pv) /\ Typed /\ instance \in Instances
  BY Parts
<1>2. /\ cPc = "loadHead" /\ cHead' = headSeen /\ cPc' = "reload"
      /\ UNCHANGED <<instance, positions, caches, seen, buffer, producer, cChunk, cPos,
                     history>>
  BY DEF LoadHead
<1>3. SeenMoved(g, g, at, pv) /\ producePosCache' = At(g.pc) /\ consumePosCache' = consumePosCache
  BY <1>2, SeenStays DEF caches
<1>4. /\ pv[0].era \in g.tail .. pv[0].era /\ headSeen = ChunkOf(pv[0].era)
      /\ headSeen \in Chunks
  BY <1>1, Eras, Shown, ChunkOfRange
<1>5. ConsumerFrame(g, pv)'
  <2>1. /\ Firm' = Firm /\ Chunks' = Chunks /\ (Emptied(g, pv)' <=> Emptied(g, pv))
        /\ UNCHANGED <<consumePos, tailChunk>>
        /\ \A x : ChunkOf(x)' = ChunkOf(x)
    BY <1>2, <1>3, ConsumerSame
  <2>2. g.behind => Emptied(g, pv) /\ ~Firm
    BY <1>1, <1>2 DEF ConsumerFrame
  <2>3. \E e \in g.tail .. pv[0].era : cHead' = ChunkOf(e)'
    BY <1>2, <1>4, <2>1
  <2>4. /\ cChunk' = tailChunk' /\ cPos' = consumePos'[cChunk']
        /\ \A ch \in Chunks : g.c[ch] = g.cp[ch]
    BY <1>1, <1>2, <2>1 DEF ConsumerFrame
  <2> QED BY <1>2, <2>1, <2>2, <2>3, <2>4 DEF ConsumerFrame
<1>6. cChunk' \in Chunks /\ cHead' \in Chunks /\ cPos' \in Bytes
  BY <1>1, <1>2, <1>4 DEF Typed
<1> QED BY <1>2, <1>3, <1>5, <1>6, ConsumerLooks

\* A chunk that _head was seen behind of, and that is empty, was left for good.
LEMMA LeftBehind ==
  ASSUME NEW g, NEW at, NEW pv, NEW cv, Consistent(g, at, pv, cv),
         cPc = "reload", cChunk # cHead, g.c[cChunk] = pv[0].pos[cChunk]
  PROVE  Emptied(g, pv)
<1>1. ConsumerFrame(g, pv) /\ ProducerView(g, at, pv[0])
  BY Parts
<1>2. PICK e \in g.tail .. pv[0].era : cHead = ChunkOf(e)
  BY <1>1 DEF ConsumerFrame
<1>3. cChunk = ChunkOf(g.tail)
  BY <1>1, Shown DEF ConsumerFrame
<1>4. g.tail < pv[0].era /\ g.tail \in g.tail .. pv[0].era - 1
  <2>1. e # g.tail
    BY <1>2, <1>3
  <2> QED BY <1>2, <2>1, Eras
<1>5. pv[0].pos[ChunkOf(g.tail)] = g.p[ChunkOf(g.tail)]
  BY <1>1, <1>4 DEF ProducerView
<1> QED BY <1>3, <1>4, <1>5 DEF Emptied

LEMMA ReloadProducePosStep ==
  ASSUME NEW g, NEW at, NEW pv, NEW cv, Consistent(g, at, pv, cv), ReloadProducePos
  PROVE  Invariant'
<1>1. ConsumerFrame(g, pv) /\ Typed /\ instance \in Instances
  BY Parts
<1>2. /\ cPc = "reload" /\ LoadProducePos(cChunk)
      /\ UNCHANGED <<instance, positions, consumePosCache, seen, buffer, producer, history>>
  BY DEF ReloadProducePos
<1>3. PICK k \in Chunks : k = cChunk
  BY <1>1 DEF Typed
<1>4. PICK h : /\ SeenMoved(g, h, at, pv) /\ producePosCache' = At(h.pc)
               /\ h.pc[k] = pv[0].pos[k]
  BY <1>2, <1>3, SeenLoaded
<1>5. /\ produceSeen[k] = Pos(pv[0].pos[k]) /\ consumePos[k] = Pos(g.cp[k])
      /\ g.cp[k] \in Nat /\ g.c[k] \in Nat /\ pv[0].pos[k] \in Nat
      /\ g.c[k] <= pv[0].pos[k] /\ pv[0].pos[k] < g.c[k] + ChunkSize
  <2>1. /\ produceSeen[k] = Pos(pv[0].pos[k]) /\ consumePos[k] = Pos(g.cp[k])
        /\ g.cp[k] \in Nat /\ g.c[k] \in Nat /\ pv[0].pos[k] \in Nat
        /\ g.c[k] <= pv[0].pos[k]
    BY Shown, Ends
  <2>2. /\ g.cc[k] <= g.c[k] /\ pv[0].pos[k] < g.cc[k] + ChunkSize
        /\ g.cc[k] \in Nat /\ ChunkSize \in Nat
    BY <1>1, Ends, Naturals
  <2> QED BY <2>1, <2>2
<1>6. /\ cChunk = tailChunk /\ cPos = consumePos[cChunk]
      /\ \A ch \in Chunks : g.c[ch] = g.cp[ch]
      /\ g.behind => Emptied(g, pv) /\ ~Firm
  BY <1>1, <1>2 DEF ConsumerFrame
<1>7. produceSeen[cChunk] = cPos => g.c[cChunk] = pv[0].pos[cChunk]
  BY <1>1, <1>3, <1>5, <1>6, PosTells
<1>8. CASE produceSeen[cChunk] = cPos /\ cChunk = cHead
  <2>1. ConsumerReturns
    BY <1>8 DEF ReloadProducePos
  <2> QED BY <1>2, <1>4, <2>1, ConsumerGone
<1>9. CASE ~(produceSeen[cChunk] = cPos /\ cChunk = cHead)
  <2>1. /\ cPc' = IF produceSeen[cChunk] # cPos THEN "take" ELSE "cross"
        /\ UNCHANGED <<cChunk, cPos, cHead>>
    BY <1>9 DEF ReloadProducePos
  <2>2. /\ Firm' = Firm /\ Chunks' = Chunks /\ (Emptied(h, pv)' <=> Emptied(g, pv))
        /\ UNCHANGED <<consumePos, tailChunk>>
    BY <1>2, <1>4, ConsumerSame
  <2>3. cPc' = "cross" => Emptied(g, pv)
    BY <1>2, <1>7, <1>9, <2>1, LeftBehind
  <2>4. cPc' = "take" => h.c[cChunk] < h.pc[cChunk]
    <3>1. h.c[k] = g.c[k] /\ h.pc[k] = pv[0].pos[k]
      BY <1>4 DEF SeenMoved
    <3>2. cPc' = "take" => g.c[k] # pv[0].pos[k]
      BY <1>3, <1>5, <1>6, <2>1
    <3> QED BY <1>3, <1>5, <3>1, <3>2
  <2>5. h.c = g.c /\ h.cp = g.cp /\ h.behind = g.behind
    BY <1>4 DEF SeenMoved
  <2>6. ConsumerFrame(h, pv)'
    BY <1>6, <2>1, <2>2, <2>3, <2>4, <2>5 DEF ConsumerFrame
  <2>7. cChunk' \in Chunks /\ cHead' \in Chunks /\ cPos' \in Bytes
    BY <1>1, <2>1 DEF Typed
  <2> QED BY <1>2, <1>4, <2>6, <2>7, ConsumerLooks
<1> QED BY <1>8, <1>9

LEMMA CrossChunkStep ==
  ASSUME NEW g, NEW at, NEW pv, NEW cv, Consistent(g, at, pv, cv), CrossChunk
  PROVE  Invariant'
<1>1. ConsumerFrame(g, pv) /\ Typed /\ instance \in Instances
  BY Parts
<1>2. /\ cPc = "cross"
      /\ UNCHANGED <<instance, positions, consumePosCache, seen, buffer, producer, history>>
  BY DEF CrossChunk
<1>3. PICK k \in Chunks : k = NextChunk(cChunk) /\ k = ChunkOf(g.tail + 1)
  <2>1. cChunk = ChunkOf(g.tail) /\ g.tail \in Nat /\ g.tail + 1 \in Nat
    BY <1>1, <1>2, Shown, Eras DEF ConsumerFrame
  <2> QED BY <1>1, <2>1, EraNext, ChunkOfRange
<1>4. LoadProducePos(k)
  BY <1>3 DEF CrossChunk
<1>5. PICK h : /\ SeenMoved(g, h, at, pv) /\ producePosCache' = At(h.pc)
               /\ h.pc[k] = pv[0].pos[k]
  BY <1>4, SeenLoaded
<1>6. CASE produceSeen[k] = consumePos[k]
  <2>1. ConsumerReturns
    BY <1>3, <1>6 DEF CrossChunk
  <2> QED BY <1>2, <1>5, <2>1, ConsumerGone
<1>7. CASE produceSeen[k] # consumePos[k]
  <2>1. /\ cChunk' = k /\ cPos' = consumePos[k] /\ cPc' = "takeFirst" /\ UNCHANGED cHead
    BY <1>3, <1>7 DEF CrossChunk
  <2>2. /\ Firm' = Firm /\ Chunks' = Chunks /\ (Emptied(h, pv)' <=> Emptied(g, pv))
        /\ UNCHANGED <<consumePos, tailChunk>>
        /\ \A x : ChunkOf(x)' = ChunkOf(x)
    BY <1>2, <1>5, ConsumerSame
  <2>3. /\ Emptied(g, pv) /\ \A ch \in Chunks : g.c[ch] = g.cp[ch]
        /\ g.behind => ~Firm
    BY <1>1, <1>2 DEF ConsumerFrame
  <2>4. /\ produceSeen[k] = Pos(pv[0].pos[k]) /\ consumePos[k] = Pos(g.cp[k])
        /\ g.c[k] \in Nat /\ pv[0].pos[k] \in Nat /\ g.c[k] <= pv[0].pos[k]
        /\ g.cp[k] \in Nat
    BY Shown, Ends
  <2>5. h.c[k] < h.pc[k]
    <3>1. h.c[k] = g.c[k] /\ h.pc[k] = pv[0].pos[k]
      BY <1>5 DEF SeenMoved
    <3>2. g.c[k] # pv[0].pos[k]
      BY <1>7, <2>3, <2>4
    <3> QED BY <2>4, <3>1, <3>2
  <2>6. h.c = g.c /\ h.cp = g.cp /\ h.behind = g.behind /\ h.tail = g.tail
    BY <1>5 DEF SeenMoved
  <2>7. ConsumerFrame(h, pv)'
    BY <1>3, <2>1, <2>2, <2>3, <2>5, <2>6 DEF ConsumerFrame
  <2>8. cChunk' \in Chunks /\ cHead' \in Chunks /\ cPos' \in Bytes
    BY <1>1, <2>1, <2>4, PosRange DEF Typed
  <2> QED BY <1>2, <1>5, <2>7, <2>8, ConsumerLooks
<1> QED BY <1>6, <1>7

\* In a chunk just entered a record that is declined is asked about again, from
\* behind its marker.
LEMMA DeclineStep ==
  ASSUME NEW g, NEW at, NEW pv, NEW cv, Consistent(g, at, pv, cv), Decline
  PROVE  Invariant'
<1>1. ConsumerFrame(g, pv) /\ Typed /\ instance \in Instances
  BY Parts
<1>2. UNCHANGED <<instance, positions, caches, seen, buffer, producer, history>>
  BY DEF Decline
<1>3. SeenMoved(g, g, at, pv) /\ producePosCache' = At(g.pc) /\ consumePosCache' = consumePosCache
  BY <1>2, SeenStays DEF caches
<1>4. CASE cPc = "take" /\ ConsumerReturns
  BY <1>2, <1>3, <1>4, ConsumerGone
<1>5. CASE /\ cPc = "takeFirst" /\ cPc' = "take" /\ cPos' = Unmarked(cPos)
           /\ UNCHANGED <<cChunk, cHead>>
  <2>1. /\ Firm' = Firm /\ Chunks' = Chunks /\ (Emptied(g, pv)' <=> Emptied(g, pv))
        /\ UNCHANGED <<consumePos, tailChunk>>
        /\ \A x : ChunkOf(x)' = ChunkOf(x)
    BY <1>2, <1>3, ConsumerSame
  <2>2. /\ Emptied(g, pv) /\ \A ch \in Chunks : g.c[ch] = g.cp[ch]
        /\ cPos = consumePos[cChunk] /\ cChunk = ChunkOf(g.tail + 1)
        /\ g.c[cChunk] < g.pc[cChunk]
        /\ g.behind => ~Firm
    BY <1>1, <1>5 DEF ConsumerFrame
  <2>3. cPos' = Unmarked(consumePos[cChunk])'
    BY <1>2, <1>5, <2>1, <2>2 DEF Unmarked
  <2>4. ConsumerFrame(g, pv)'
    BY <1>5, <2>1, <2>2, <2>3 DEF ConsumerFrame
  <2>5. cPos' \in Bytes
    BY <1>1, <1>5, Sizes DEF Typed, Unmarked, Bytes
  <2>6. cChunk' \in Chunks /\ cHead' \in Chunks
    BY <1>1, <1>5 DEF Typed
  <2> QED BY <1>2, <1>3, <2>4, <2>5, <2>6, ConsumerLooks
<1> QED BY <1>4, <1>5 DEF Decline

-----------------------------------------------------------------------------
(* What the consumer takes.                                                *)

\* Eras in use at the same time are told apart by their chunks.
LEMMA EraTells ==
  ASSUME instance \in Instances, NEW t \in Nat,
         NEW d \in Nat, t <= d, d < t + ChunkCount,
         NEW e \in Nat, t <= e, e < t + ChunkCount, ChunkOf(d) = ChunkOf(e)
  PROVE  d = e
<1>1. ChunkCount \in Nat
  BY Naturals
<1>2. ~(d < e)
  <2>1. d < e => e < d + ChunkCount
    BY <1>1
  <2> QED BY <2>1, EraApart
<1>3. ~(e < d)
  <2>1. e < d => d < e + ChunkCount
    BY <1>1
  <2> QED BY <2>1, EraApart
<1> QED BY <1>2, <1>3

\* Where one of the records is.
LEMMA ARecord ==
  ASSUME NEW g, NEW at, NEW pv, NEW cv, Consistent(g, at, pv, cv), NEW k \in 1 .. Len(records)
  PROVE  /\ at[k].era \in Nat /\ at[k].from \in Multiple /\ at[k].to \in Multiple
         /\ at[k].from \in Nat /\ at[k].to \in Nat
         /\ g.tail <= at[k].era /\ at[k].era <= g.newest /\ at[k].era < g.tail + ChunkCount
         /\ ChunkOf(at[k].era) \in Chunks
         /\ g.c[ChunkOf(at[k].era)] <= at[k].from /\ at[k].to <= g.p[ChunkOf(at[k].era)]
         /\ at[k].from < at[k].to /\ at[k].from + Align <= at[k].to
         /\ Link(ChunkOf(at[k].era), at[k].from, at[k].to, records[k])
         /\ Boundary(g, at, ChunkOf(at[k].era), at[k].to)
<1>1. instance \in Instances /\ Chain(g, at)
  BY Parts
<1>2. /\ at[k].era \in Nat /\ at[k].from \in Multiple /\ at[k].to \in Multiple
  BY <1>1 DEF Chain, Span
<1>3. /\ g.tail <= at[k].era /\ at[k].era <= g.newest
      /\ g.c[ChunkOf(at[k].era)] <= at[k].from /\ at[k].to <= g.p[ChunkOf(at[k].era)]
      /\ Link(ChunkOf(at[k].era), at[k].from, at[k].to, records[k])
      /\ Boundary(g, at, ChunkOf(at[k].era), at[k].to)
  BY <1>1 DEF Chain
<1>4. at[k].era < g.tail + ChunkCount
  BY <1>2, <1>3, Eras
<1>5. ChunkOf(at[k].era) \in Chunks
  BY <1>1, <1>2, ChunkOfRange
<1>6. at[k].from < at[k].to /\ at[k].from + Align <= at[k].to
  BY <1>1, <1>2, <1>3, <1>5, LinkFacts
<1> QED BY <1>2, <1>3, <1>4, <1>5, <1>6, MultipleFacts

LEMMA RecordsInOrder ==
  ASSUME NEW g, NEW at, NEW pv, NEW cv, Consistent(g, at, pv, cv),
         NEW j \in 1 .. Len(records), NEW k \in 1 .. Len(records), j < k
  PROVE  \/ at[j].era < at[k].era
         \/ at[j].era = at[k].era /\ at[j].to <= at[k].from
<1>1. Chain(g, at)
  BY Parts
<1> QED BY <1>1 DEF Chain

\* The era of the chunk the consumer takes from.
LEMMA TakingEra ==
  ASSUME NEW g, NEW at, NEW pv, NEW cv, Consistent(g, at, pv, cv),
         cPc \in {"take", "takeFirst"}
  PROVE  \E e \in Nat : /\ e = g.tail \/ (e = g.tail + 1 /\ Emptied(g, pv))
                        /\ cChunk = ChunkOf(e) /\ e <= g.newest
                        /\ (cChunk = tailChunk <=> e = g.tail)
                        /\ e # g.tail => cChunk # tailChunk
<1>1. ConsumerFrame(g, pv) /\ instance \in Instances
  BY Parts
<1>2. tailChunk = ChunkOf(g.tail) /\ g.tail \in Nat /\ g.tail <= g.newest /\ g.newest \in Nat
  BY Shown, Eras
<1>3. CASE cChunk = tailChunk
  BY <1>2, <1>3
<1>4. CASE cChunk # tailChunk
  <2>1. cChunk = ChunkOf(g.tail + 1) /\ Emptied(g, pv)
    BY <1>1, <1>4 DEF ConsumerFrame
  <2>2. g.tail + 1 \in Nat /\ g.tail + 1 <= g.newest
    <3>1. g.tail < pv[0].era
      BY <2>1 DEF Emptied
    <3> QED BY <3>1, Eras
  <2>3. g.tail + 1 # g.tail
    BY <1>2
  <2> QED BY <1>4, <2>1, <2>2, <2>3
<1> QED BY <1>3, <1>4

\* The next record is the one the consumer finds, and it was acquired.
LEMMA Reading ==
  ASSUME NEW g, NEW at, NEW pv, NEW cv, Consistent(g, at, pv, cv),
         cPc \in {"take", "takeFirst"}
  PROVE  /\ Len(records) >= 1 /\ 1 \in 1 .. Len(records)
         /\ ChunkOf(at[1].era) = cChunk /\ at[1].from = g.c[cChunk]
         /\ at[1].to <= g.pc[cChunk] /\ at[1].to \in Multiple
         /\ at[1].era = g.tail \/ (at[1].era = g.tail + 1 /\ Emptied(g, pv))
         /\ (cChunk = tailChunk <=> at[1].era = g.tail)
         /\ Link(cChunk, g.c[cChunk], at[1].to, records[1])
<1>1. /\ ConsumerFrame(g, pv) /\ instance \in Instances /\ Chain(g, at) /\ Typed
  BY Parts
<1>2. PICK e \in Nat : /\ e = g.tail \/ (e = g.tail + 1 /\ Emptied(g, pv))
                       /\ cChunk = ChunkOf(e) /\ e <= g.newest
                       /\ (cChunk = tailChunk <=> e = g.tail)
  BY TakingEra
<1>3. PICK ch \in Chunks : ch = cChunk
  BY <1>1 DEF Typed
<1>4. /\ g.c[ch] < g.pc[ch] /\ g.pc[ch] <= g.p[ch] /\ g.c[ch] \in Nat /\ g.pc[ch] \in Nat
      /\ g.p[ch] \in Nat
  <2>1. g.c[ch] < g.pc[ch]
    BY <1>1, <1>3 DEF ConsumerFrame
  <2> QED BY <2>1, Ends
<1>5. g.tail \in Nat /\ g.tail <= e /\ e < g.tail + ChunkCount
  BY <1>2, Eras
<1>6. ASSUME NEW m \in 1 .. Len(records), ChunkOf(at[m].era) = ch
      PROVE  at[m].era = e
  BY <1>1, <1>2, <1>3, <1>5, <1>6, ARecord, EraTells
<1>7. PICK j \in 1 .. Len(records) : ChunkOf(at[j].era) = ch /\ at[j].from = g.c[ch]
  <2>1. Boundary(g, at, ch, g.c[ch]) /\ DOMAIN at = 1 .. Len(records)
    BY <1>1 DEF Chain
  <2> QED BY <1>4, <2>1 DEF Boundary
<1>8. at[j].era = e
  BY <1>6, <1>7
<1>9. Len(records) \in Nat /\ 1 \in 1 .. Len(records)
  BY <1>1, <1>7 DEF Typed
<1>10. j = 1
  <2>1. SUFFICES ASSUME 1 < j
                 PROVE  FALSE
    BY <1>7
  <2>2. \/ at[1].era < e
        \/ at[1].era = e /\ at[1].to <= g.c[ch]
    BY <1>7, <1>8, <1>9, <2>1, RecordsInOrder
  <2>3. CASE at[1].era = e /\ at[1].to <= g.c[ch]
    BY <1>2, <1>3, <1>4, <1>9, <2>3, ARecord
  <2>4. CASE at[1].era < e
    <3>1. at[1].era = g.tail /\ Emptied(g, pv)
      BY <1>2, <1>5, <1>9, <2>4, ARecord
    <3>2. g.c[ChunkOf(g.tail)] = g.p[ChunkOf(g.tail)]
      BY <3>1 DEF Emptied
    <3>3. /\ g.c[ChunkOf(g.tail)] <= at[1].from /\ at[1].to <= g.p[ChunkOf(g.tail)]
          /\ at[1].from < at[1].to /\ at[1].from \in Nat /\ at[1].to \in Nat
          /\ ChunkOf(g.tail) \in Chunks
      BY <1>9, <3>1, ARecord
    <3>4. g.p[ChunkOf(g.tail)] \in Nat
      BY <3>3, Ends
    <3> QED BY <3>2, <3>3, <3>4
  <2> QED BY <2>2, <2>3, <2>4
<1>11. at[1].to <= g.pc[ch]
  <2>1. CASE g.pc[ch] = g.p[ch]
    BY <1>7, <1>10, <2>1, ARecord
  <2>2. CASE g.pc[ch] # g.p[ch]
    <3>1. PICK m \in 1 .. Len(records) : ChunkOf(at[m].era) = ch /\ at[m].from = g.pc[ch]
      <4>1. Boundary(g, at, ch, g.pc[ch]) /\ DOMAIN at = 1 .. Len(records)
        BY <1>1 DEF Chain
      <4> QED BY <2>2, <4>1 DEF Boundary
    <3>2. 1 < m
      BY <1>4, <1>7, <1>9, <1>10, <3>1
    <3>3. at[m].era = e /\ at[1].era = e /\ e \in Nat
      BY <1>6, <1>8, <1>10, <3>1
    <3> QED BY <1>9, <3>1, <3>2, <3>3, RecordsInOrder
  <2> QED BY <2>1, <2>2
<1>12. /\ ChunkOf(at[1].era) = ch /\ at[1].from = g.c[ch] /\ at[1].era = e
  BY <1>7, <1>8, <1>10
<1>13. Link(ch, g.c[ch], at[1].to, records[1]) /\ at[1].to \in Multiple
  BY <1>9, <1>12, ARecord
<1>14. Len(records) >= 1
  BY <1>9
<1> QED BY <1>2, <1>3, <1>9, <1>11, <1>12, <1>13, <1>14

\* The record is read as it was written, wherever the call looks for it, and no
\* byte is touched that was not acquired.
LEMMA Found ==
  ASSUME NEW g, NEW at, NEW pv, NEW cv, Consistent(g, at, pv, cv),
         cPc \in {"take", "takeFirst"},
         NEW ch \in Chunks, ch = cChunk, NEW x, x = g.c[ch], NEW y, y = at[1].to
  PROVE  /\ x \in Multiple /\ x \in Nat /\ y \in Nat /\ y \in Multiple /\ x < y /\ y <= g.pc[ch]
         /\ cPos = Pos(x) \/ cPos = Pos(Start(ch, x))
         /\ cPc = "takeFirst" \/ cChunk = tailChunk => cPos = Pos(x)
         /\ records[1].length \in Fitting /\ LengthAt(cPos) = records[1].length
         /\ RecordAt(cChunk, Unmarked(cPos), LengthAt(cPos)) = records[1]
         /\ Advance(Unmarked(cPos), LengthAt(cPos)) = Pos(y)
         /\ buffer[ch][cPos] \in Numbers
         /\ \A i \in Extent(Unmarked(cPos), LengthAt(cPos)) :
              i \in Bytes /\ \E z \in x .. y - 1 : i = Pos(z)
         /\ \E z \in x .. y - 1 : cPos = Pos(z)
<1>1. ConsumerFrame(g, pv) /\ instance \in Instances
  BY Parts
<1>2. /\ Link(ch, x, y, records[1]) /\ y <= g.pc[ch] /\ x \in Multiple
      /\ cChunk = tailChunk <=> at[1].era = g.tail
  BY Reading, Ends
<1>3. PICK s \in Multiple : s = Start(ch, x)
  BY <1>1, <1>2, LinkFacts
<1>4. PICK r : r = records[1]
  OBVIOUS
<1>5. /\ y \in Multiple /\ x <= s /\ x < y /\ r.length \in Fitting
      /\ y = s + Rounded(r.length) /\ WrapAt(s) >= Rounded(r.length)
      /\ r = RecordAt(ch, Pos(s), r.length) /\ buffer[ch][Pos(x)] \in Numbers
      /\ buffer[ch][Pos(s)] = r.length /\ Advance(Pos(s), r.length) = Pos(y)
  BY <1>1, <1>2, <1>3, <1>4, LinkFacts
<1>6. Pos(s) = IF buffer[ch][Pos(x)] >= 0 THEN Pos(x) ELSE 0
  <2>1. buffer[ch][Pos(x)] \in Fitting \/ Marked(ch, x)
    BY <1>2 DEF Link
  <2> QED BY <1>1, <1>2, <1>3, <2>1, StartFacts
<1>7. r.length \in Nat /\ r.length \in Numbers /\ Rounded(r.length) \in Nat /\ Rounded(r.length) > 0
  BY <1>1, <1>5, FittingFacts, Naturals
<1>8. Unmarked(Pos(x)) = Pos(s) /\ Unmarked(Pos(s)) = Pos(s)
  BY <1>5, <1>6, <1>7 DEF Unmarked
<1>9. /\ cPos = Pos(x) \/ cPos = Pos(s)
      /\ cPc = "takeFirst" \/ cChunk = tailChunk => cPos = Pos(x)
  <2>1. consumePos[ch] = Pos(x)
    <3>1. g.c[ch] = g.cp[ch]
      BY <1>1 DEF ConsumerFrame
    <3> QED BY <3>1, Shown
  <2>2. CASE cPc = "takeFirst"
    BY <1>1, <2>1, <2>2 DEF ConsumerFrame
  <2>3. CASE cPc = "take" /\ cChunk = tailChunk
    <3>1. CASE cPos = consumePos[cChunk]
      BY <2>1, <3>1
    <3>2. CASE cChunk = ChunkOf(g.tail + 1) /\ Emptied(g, pv)
      <4>1. g.c[cChunk] = g.p[cChunk]
        BY <2>3, <3>2, Shown DEF Emptied
      <4>2. g.c[ch] < g.pc[ch] /\ g.pc[ch] <= g.p[ch] /\ g.c[ch] \in Nat /\ g.pc[ch] \in Nat
            /\ g.p[ch] \in Nat
        BY <1>1, Ends DEF ConsumerFrame
      <4> QED BY <4>1, <4>2
    <3> QED BY <1>1, <2>3, <3>1, <3>2 DEF ConsumerFrame
  <2>4. CASE cPc = "take" /\ cChunk # tailChunk
    <3>1. cPos = Unmarked(consumePos[cChunk])
      BY <1>1, <2>4 DEF ConsumerFrame
    <3> QED BY <1>8, <2>1, <2>4, <3>1
  <2> QED BY <2>2, <2>3, <2>4
<1>10. Unmarked(cPos) = Pos(s)
  BY <1>8, <1>9
<1>11. LengthAt(cPos) = r.length
  BY <1>5, <1>10 DEF LengthAt
<1>12. buffer[ch][cPos] \in Numbers
  BY <1>5, <1>7, <1>9
<1>13. x \in Nat /\ y \in Nat /\ s \in Nat
  BY <1>2, <1>3, <1>5, MultipleFacts
<1>14. \E z \in x .. y - 1 : cPos = Pos(z)
  <2>1. x \in x .. y - 1 /\ s \in x .. y - 1
    BY <1>5, <1>7, <1>13
  <2> QED BY <1>9, <2>1
<1>15. \A i \in Extent(Pos(s), r.length) : i \in Bytes /\ \E z \in x .. y - 1 : i = Pos(z)
  <2> SUFFICES ASSUME NEW i \in Extent(Pos(s), r.length)
               PROVE  i \in Bytes /\ \E z \in x .. y - 1 : i = Pos(z)
    OBVIOUS
  <2>1. i \in Bytes /\ \E z \in s .. s + Rounded(r.length) - 1 : i = Pos(z)
    BY <1>1, <1>5, <1>13, ExtentFacts
  <2>2. PICK z \in s .. s + Rounded(r.length) - 1 : i = Pos(z)
    BY <2>1
  <2>3. z \in x .. y - 1
    BY <1>5, <1>7, <1>13, <2>2
  <2> QED BY <2>1, <2>2, <2>3
<1>16. LengthAt(cPos) = records[1].length /\ records[1].length \in Fitting
  BY <1>4, <1>5, <1>11
<1>17. /\ RecordAt(cChunk, Unmarked(cPos), LengthAt(cPos)) = records[1]
       /\ Advance(Unmarked(cPos), LengthAt(cPos)) = Pos(y)
  BY <1>4, <1>5, <1>10, <1>11
<1>18. \A i \in Extent(Unmarked(cPos), LengthAt(cPos)) :
         i \in Bytes /\ \E z \in x .. y - 1 : i = Pos(z)
  BY <1>10, <1>11, <1>15
<1> QED BY <1>2, <1>3, <1>5, <1>9, <1>12, <1>13, <1>14, <1>16, <1>17, <1>18

\* What taking the next record makes of the ends, and of the places.
Taken(g, h, ch, y) ==
  /\ h \in Ghosts /\ h.p = g.p /\ h.pc = g.pc /\ h.cp = g.cp /\ h.cc = g.cc
  /\ h.head = g.head /\ h.newest = g.newest /\ h.tail = g.tail
  /\ h.c[ch] = y /\ \A d \in Chunks \ {ch} : h.c[d] = g.c[d]
  /\ h.behind = (g.behind \/ ch # tailChunk)

Rest(at) == [j \in 1 .. Len(records) - 1 |-> at[j + 1]]

LEMMA TakenExists ==
  ASSUME NEW g \in Ghosts, NEW ch \in Chunks, NEW y \in Multiple
  PROVE  \E h : Taken(g, h, ch, y)
<1>1. PICK f \in Numbering : f = [g.c EXCEPT ![ch] = y]
  BY Fields DEF Numbering
<1>2. PICK b \in BOOLEAN : b = (g.behind \/ ch # tailChunk)
  OBVIOUS
<1>3. PICK h \in Ghosts :
        /\ h.p = g.p /\ h.pc = g.pc /\ h.cp = g.cp /\ h.cc = g.cc /\ h.c = f
        /\ h.head = g.head /\ h.newest = g.newest /\ h.tail = g.tail /\ h.behind = b
  <2>1. [[g EXCEPT !.c = f] EXCEPT !.behind = b] \in Ghosts
    BY <1>1, <1>2 DEF Ghosts
  <2> QED BY <1>1, <1>2, <2>1 DEF Ghosts
<1>4. f[ch] = y /\ \A d \in Chunks \ {ch} : f[d] = g.c[d]
  BY <1>1, Fields DEF Numbering
<1> QED BY <1>2, <1>3, <1>4 DEF Taken

\* Nothing but the bytes of the record is lost.
LEMMA TakenBytes ==
  ASSUME NEW g, NEW at, NEW pv, NEW cv, Consistent(g, at, pv, cv), Take,
         NEW ch \in Chunks, ch = cChunk, NEW x, x = g.c[ch], NEW y, y = at[1].to
  PROVE  /\ buffer' \in [Chunks -> [Bytes -> Content]]
         /\ \A d \in Chunks, z \in Nat :
              d # ch \/ (y <= z /\ z < x + ChunkSize)
              => buffer'[d][Pos(z)] = buffer[d][Pos(z)]
<1>1. instance \in Instances /\ buffer \in [Chunks -> [Bytes -> Content]]
  BY Parts DEF Typed, Content
<1>2. /\ cPc \in {"take", "takeFirst"}
      /\ buffer' = [buffer EXCEPT ![cChunk] = [i \in Bytes |->
                      IF i = cPos \/ i \in Extent(Unmarked(cPos), LengthAt(cPos))
                      THEN Raw ELSE @[i]]]
  BY DEF Take
<1>3. PICK E : E = Extent(Unmarked(cPos), LengthAt(cPos))
  OBVIOUS
<1>4. buffer' = [buffer EXCEPT ![ch] = [i \in Bytes |->
                    IF i = cPos \/ i \in E THEN Raw ELSE buffer[ch][i]]]
  BY <1>1, <1>2, <1>3
<1>5. Raw \in Content
  BY DEF Content
<1>6. /\ buffer' \in [Chunks -> [Bytes -> Content]]
      /\ \A d \in Chunks, i \in Bytes :
           d # ch \/ ~(i = cPos \/ i \in E) => buffer'[d][i] = buffer[d][i]
  BY <1>1, <1>4, <1>5
<1>7. /\ x \in Nat /\ y \in Nat
      /\ \A i \in E : \E w \in x .. y - 1 : i = Pos(w)
      /\ \E w \in x .. y - 1 : cPos = Pos(w)
  BY <1>2, <1>3, Found
<1>8. ASSUME NEW z \in Nat, y <= z, z < x + ChunkSize
      PROVE  ~(Pos(z) = cPos \/ Pos(z) \in E)
  <2>1. \A w \in x .. y - 1 : Pos(w) # Pos(z)
    <3> SUFFICES ASSUME NEW w \in x .. y - 1
                 PROVE  Pos(w) # Pos(z)
      OBVIOUS
    <3>1. w \in Nat /\ w < z /\ z < w + ChunkSize
      BY <1>1, <1>7, <1>8, Naturals
    <3> QED BY <1>1, <3>1, PosApart
  <2> QED BY <1>7, <2>1
<1>9. \A z \in Nat : Pos(z) \in Bytes
  BY <1>1, PosRange
<1> QED BY <1>6, <1>8, <1>9

\* Places of other records are where they were.
LEMMA BoundaryTaken ==
  ASSUME NEW g, NEW at, NEW pv, NEW cv, Consistent(g, at, pv, cv),
         instance' = instance, cPc \in {"take", "takeFirst"},
         NEW h, Taken(g, h, cChunk, at[1].to), NEW bt, bt = Rest(at),
         NEW ch \in Chunks, NEW z, Boundary(g, at, ch, z),
         ch = cChunk => z # g.c[cChunk]
  PROVE  Boundary(h, bt, ch, z)'
<1>1. \A e : ChunkOf(e)' = ChunkOf(e)
  BY SameSizes
<1>2. DOMAIN at = 1 .. Len(records) /\ Len(records) \in Nat
  BY Parts DEF Chain
<1>4. bt = [j \in 1 .. Len(records) - 1 |-> at[j + 1]]
  BY DEF Rest
<1>5. h.p = g.p
  BY DEF Taken
<1>6. CASE z = g.p[ch]
  BY <1>5, <1>6 DEF Boundary
<1>7. CASE z # g.p[ch]
  <2>1. PICK k \in 1 .. Len(records) : ChunkOf(at[k].era) = ch /\ at[k].from = z
    BY <1>2, <1>7 DEF Boundary
  <2>2. k # 1
    BY <2>1, Reading
  <2>3. k - 1 \in 1 .. Len(records) - 1 /\ bt[k - 1] = at[k]
    BY <1>2, <1>4, <2>1, <2>2
  <2>4. \E j \in DOMAIN bt : ChunkOf(bt[j].era)' = ch /\ bt[j].from = z
    BY <1>1, <1>4, <2>1, <2>3
  <2> QED BY <2>4 DEF Boundary
<1> QED BY <1>6, <1>7

LEMMA RecordsTaken ==
  ASSUME records \in Seq(Whole), 1 \in 1 .. Len(records),
         records' = SubSeq(records, 2, Len(records))
  PROVE  /\ records' \in Seq(Whole) /\ Len(records') = Len(records) - 1
         /\ \A j \in 1 .. Len(records) - 1 : j + 1 \in 1 .. Len(records)
                                             /\ records'[j] = records[j + 1]
<1>1. PICK n \in Nat : n = Len(records) /\ n >= 1
  OBVIOUS
<1>2. Len(records') = n - 1
  BY <1>1
<1>3. \A j \in 1 .. n - 1 : j + 1 \in 1 .. n /\ records'[j] = records[j + 1]
  BY <1>1
<1>4. records' \in Seq(Whole)
  BY <1>1
<1> QED BY <1>1, <1>2, <1>3, <1>4

\* The bytes of the records that are left are where they were.
LEMMA RestLinked ==
  ASSUME NEW g, NEW at, NEW pv, NEW cv, Consistent(g, at, pv, cv), Take,
         NEW m \in 1 .. Len(records), 1 < m, NEW r, r = records[m]
  PROVE  /\ Link(ChunkOf(at[m].era), at[m].from, at[m].to, r)'
         /\ ChunkOf(at[m].era) = cChunk => at[1].to <= at[m].from
<1>1. instance \in Instances /\ instance' = instance /\ cPc \in {"take", "takeFirst"}
  BY Parts DEF Take
<1>2. PICK e \in Nat, x \in Multiple, y \in Multiple :
         e = at[m].era /\ x = at[m].from /\ y = at[m].to
  BY ARecord
<1>3. PICK ch \in Chunks : ch = ChunkOf(e)
  BY <1>1, <1>2, ChunkOfRange
<1>4. PICK k \in Chunks : k = cChunk
  BY Parts DEF Typed
<1>5. /\ Link(ch, x, y, r) /\ g.c[ch] <= x /\ y <= g.p[ch] /\ x \in Nat /\ y \in Nat
  BY <1>2, <1>3, ARecord
<1>6. PICK w \in Nat : w = at[1].to
  BY Reading, <1>1, MultipleFacts
<1>7. ch = k => w <= x
  <2>1. 1 \in 1 .. Len(records) /\ ChunkOf(at[1].era) = k
    BY <1>1, <1>4, Reading
  <2>2. ch = k => at[1].era = at[m].era
    <3>1. /\ at[1].era \in Nat /\ at[m].era \in Nat /\ g.tail \in Nat
          /\ g.tail <= at[1].era /\ at[1].era < g.tail + ChunkCount
          /\ g.tail <= at[m].era /\ at[m].era < g.tail + ChunkCount
      BY <2>1, ARecord, Eras
    <3> QED BY <1>1, <1>2, <1>3, <2>1, <3>1, EraTells
  <2> QED BY <1>2, <1>6, <2>1, <2>2, RecordsInOrder, ARecord
<1>8. \A z \in x .. y - 1 : buffer'[ch][Pos(z)] = buffer[ch][Pos(z)]
  <2> SUFFICES ASSUME NEW z \in x .. y - 1
               PROVE  buffer'[ch][Pos(z)] = buffer[ch][Pos(z)]
    OBVIOUS
  <2>1. /\ g.cc[ch] \in Nat /\ g.c[ch] \in Nat /\ g.p[ch] \in Nat /\ ChunkSize \in Nat
        /\ g.cc[ch] <= g.c[ch] /\ g.p[ch] < g.cc[ch] + ChunkSize
    <3>1. /\ g.cc[ch] \in Nat /\ g.c[ch] \in Nat /\ g.p[ch] \in Nat
          /\ g.cp[ch] \in Nat /\ cv[0].pos[ch] \in Nat
          /\ g.cc[ch] <= cv[0].pos[ch] /\ cv[0].pos[ch] <= g.cp[ch] /\ g.cp[ch] <= g.c[ch]
          /\ g.p[ch] < g.cc[ch] + ChunkSize
      BY Ends
    <3>2. ChunkSize \in Nat
      BY <1>1, Naturals
    <3> QED BY <3>1, <3>2
  <2>2. z \in Nat /\ x <= z /\ z < g.c[ch] + ChunkSize
    BY <1>5, <2>1
  <2>3. ch # k \/ (w <= z /\ z < g.c[k] + ChunkSize)
    BY <1>5, <1>6, <1>7, <2>2
  <2> QED BY <1>4, <1>6, <2>2, <2>3, TakenBytes
<1>9. Link(ch, x, y, r)'
  BY <1>1, <1>5, <1>8, LinkKept
<1>10. ChunkOf(e)' = ch
  BY <1>1, <1>3, SameSizes
<1> QED BY <1>2, <1>3, <1>4, <1>6, <1>7, <1>9, <1>10

\* The distances between the records that are left are the same, or grow.
LEMMA FarTaken ==
  ASSUME NEW g, NEW at, NEW pv, NEW cv, Consistent(g, at, pv, cv), Take,
         NEW h, Taken(g, h, cChunk, at[1].to),
         NEW i \in 1 .. Len(records), 1 < i, NEW j \in 1 .. Len(records), i <= j
  PROVE  Far(h, at[i])' + (j - i) * Align <= Far(h, at[j])'
<1>1. /\ instance \in Instances /\ instance' = instance /\ cPc \in {"take", "takeFirst"}
      /\ Chain(g, at)
  BY Parts DEF Take
<1>2. PICK k \in Chunks : k = cChunk
  BY Parts DEF Typed
<1>3. PICK x \in Nat, y \in Nat : x = g.c[k] /\ y = at[1].to /\ x < y
  BY <1>1, <1>2, Found
<1>4. 1 \in 1 .. Len(records) /\ ChunkOf(at[1].era) = k
  BY <1>1, <1>2, Reading
<1>5. PICK a \in Chunks, b \in Chunks : a = ChunkOf(at[i].era) /\ b = ChunkOf(at[j].era)
  BY ARecord
<1>6. b = k => a = k
  <2> SUFFICES ASSUME b = k
               PROVE  a = k
    OBVIOUS
  <2>1. /\ at[1].era \in Nat /\ at[i].era \in Nat /\ at[j].era \in Nat /\ g.tail \in Nat
        /\ g.tail <= at[1].era /\ at[1].era < g.tail + ChunkCount
        /\ g.tail <= at[j].era /\ at[j].era < g.tail + ChunkCount
    BY <1>4, ARecord, Eras
  <2>2. at[1].era = at[j].era
    BY <1>1, <1>4, <1>5, <2>1, EraTells
  <2>3. at[1].era <= at[i].era
    BY <1>4, <2>1, RecordsInOrder
  <2>4. at[i].era <= at[j].era
    <3>1. CASE i = j
      BY <2>1, <3>1
    <3>2. CASE i < j
      BY <2>1, <3>2, RecordsInOrder
    <3> QED BY <3>1, <3>2
  <2>5. at[i].era = at[1].era
    BY <2>1, <2>2, <2>3, <2>4
  <2> QED BY <1>4, <1>5, <2>5
<1>7. PICK D \in Int : D = (j - i) * Align
  <2>1. Align \in Nat
    BY <1>1, Naturals
  <2> QED BY <2>1
<1>8. PICK A \in Int, B \in Int : A = at[i].era * ChunkSize /\ B = at[j].era * ChunkSize
  <2>1. at[i].era \in Nat /\ at[j].era \in Nat /\ ChunkSize \in Nat
    BY <1>1, ARecord, Naturals
  <2> QED BY <2>1
<1>9. PICK u \in Nat, v \in Nat : u = at[i].from /\ v = at[j].from
  BY ARecord
<1>10. PICK ca \in Nat, cb \in Nat : ca = g.c[a] /\ cb = g.c[b]
  BY Ends
<1>11. Far(g, at[i]) + D <= Far(g, at[j])
  BY <1>1, <1>7 DEF Chain
<1>12. Far(g, at[i]) = A + (u - ca) /\ Far(g, at[j]) = B + (v - cb)
  BY <1>5, <1>8, <1>9, <1>10 DEF Far
<1>13. /\ Far(h, at[i])' = A + (u - h.c[a]) /\ Far(h, at[j])' = B + (v - h.c[b])
  <2>1. ChunkSize' = ChunkSize /\ \A e : ChunkOf(e)' = ChunkOf(e)
    BY <1>1, SameSizes
  <2> QED BY <1>5, <1>8, <1>9, <2>1 DEF Far
<1>14. /\ h.c[a] = IF a = k THEN y ELSE ca
       /\ h.c[b] = IF b = k THEN y ELSE cb
       /\ (a = k => ca = x) /\ (b = k => cb = x)
  BY <1>2, <1>3, <1>10 DEF Taken
<1>15. A + (u - h.c[a]) + D <= B + (v - h.c[b])
  <2>1. A + (u - ca) + D <= B + (v - cb)
    BY <1>11, <1>12
  <2>2. PICK ha \in Nat, hb \in Nat : ha = h.c[a] /\ hb = h.c[b]
    BY <1>14
  <2>3. \/ ha = y /\ ca = x /\ hb = y /\ cb = x
        \/ ha = y /\ ca = x /\ hb = cb
        \/ ha = ca /\ hb = cb
    BY <1>6, <1>14, <2>2
  <2>4. A + (u - ha) + D <= B + (v - hb)
    <3>1. x < y
      BY <1>3
    <3>2. ha - ca >= hb - cb
      BY <2>3, <3>1
    <3> QED BY <2>1, <3>2
  <2> QED BY <2>2, <2>4
<1> QED BY <1>7, <1>13, <1>15

LEMMA TakenChain ==
  ASSUME NEW g, NEW at, NEW pv, NEW cv, Consistent(g, at, pv, cv), Take,
         NEW h, Taken(g, h, cChunk, at[1].to), NEW bt, bt = Rest(at)
  PROVE  Chain(h, bt)'
<1>1. /\ instance \in Instances /\ records \in Seq(Whole) /\ Chain(g, at) /\ cChunk \in Chunks
      /\ g \in Ghosts
  BY Parts DEF Typed
<1>2. /\ instance' = instance /\ cPc \in {"take", "takeFirst"}
      /\ records' = SubSeq(records, 2, Len(records))
  BY DEF Take
<1>3. PICK n \in Nat : n = Len(records) - 1 /\ 1 \in 1 .. Len(records)
  <2>1. Len(records) \in Nat /\ Len(records) >= 1 /\ 1 \in 1 .. Len(records)
    BY <1>1, <1>2, Reading
  <2> QED BY <2>1
<1>4. /\ Len(records') = n
      /\ \A j \in 1 .. n : j + 1 \in 1 .. Len(records) /\ records'[j] = records[j + 1]
  BY <1>1, <1>2, <1>3, RecordsTaken
<1>5. bt = [j \in 1 .. n |-> at[j + 1]]
  BY <1>3 DEF Rest
<1>6. /\ Chunks' = Chunks /\ ChunkSize' = ChunkSize /\ \A e : ChunkOf(e)' = ChunkOf(e)
  BY <1>2, SameSizes
<1>7. PICK k \in Chunks, y \in Multiple : k = cChunk /\ y = at[1].to
  BY <1>1, <1>2, Reading
<1>8. /\ h.p = g.p /\ h.pc = g.pc /\ h.tail = g.tail /\ h.newest = g.newest
      /\ h.c[k] = y /\ \A d \in Chunks \ {k} : h.c[d] = g.c[d]
  BY <1>7 DEF Taken
<1>9. bt \in [1 .. Len(records') -> Span]
  <2>1. at \in [1 .. Len(records) -> Span]
    BY <1>1 DEF Chain
  <2> QED BY <1>4, <1>5, <2>1
<1>10. ASSUME NEW j \in 1 .. n
       PROVE  /\ g.tail <= bt[j].era /\ bt[j].era <= g.newest
              /\ h.c[ChunkOf(bt[j].era)] <= bt[j].from /\ bt[j].to <= g.p[ChunkOf(bt[j].era)]
              /\ Link(ChunkOf(bt[j].era), bt[j].from, bt[j].to, records[j])'
              /\ Boundary(h, bt, ChunkOf(bt[j].era), bt[j].to)'
  <2>1. PICK m \in 1 .. Len(records) : m = j + 1 /\ 1 < m /\ bt[j] = at[m]
    BY <1>4, <1>5
  <2>2. PICK r : r = records[m] /\ r = records'[j]
    BY <1>4, <2>1
  <2>3. PICK d \in Chunks : d = ChunkOf(at[m].era)
    BY ARecord
  <2>4. /\ Link(d, at[m].from, at[m].to, r)' /\ (d = k => y <= at[m].from)
    <3>1. /\ Link(ChunkOf(at[m].era), at[m].from, at[m].to, r)'
          /\ ChunkOf(at[m].era) = cChunk => at[1].to <= at[m].from
      BY <2>1, <2>2, RestLinked
    <3> QED BY <1>6, <1>7, <2>3, <3>1
  <2>5. /\ g.tail <= at[m].era /\ at[m].era <= g.newest
        /\ g.c[d] <= at[m].from /\ at[m].to <= g.p[d]
        /\ at[m].from \in Nat /\ at[m].to \in Nat /\ at[m].from < at[m].to
        /\ Boundary(g, at, d, at[m].to) /\ g.c[d] \in Nat
    BY <2>3, ARecord, Ends
  <2>6. Boundary(h, bt, d, at[m].to)'
    <3>1. at[m].to # g.c[d]
      BY <2>5
    <3> QED BY <1>2, <1>7, <2>3, <2>5, <3>1, BoundaryTaken
  <2>7. h.c[d] <= at[m].from
    BY <1>8, <2>4, <2>5
  <2>8. Link(d, at[m].from, at[m].to, records[j])'
    BY <2>2, <2>4
  <2> QED BY <1>6, <2>1, <2>2, <2>3, <2>4, <2>5, <2>6, <2>7
<1>11. ASSUME NEW i \in 1 .. n, NEW j \in 1 .. n, i < j
       PROVE  \/ bt[i].era < bt[j].era
              \/ bt[i].era = bt[j].era /\ bt[i].to <= bt[j].from
  <2>1. i + 1 < j + 1 /\ bt[i] = at[i + 1] /\ bt[j] = at[j + 1]
    BY <1>5, <1>11
  <2> QED BY <1>4, <2>1, RecordsInOrder
<1>12. \A ch \in Chunks : Boundary(h, bt, ch, h.c[ch])' /\ Boundary(h, bt, ch, h.pc[ch])'
  <2> SUFFICES ASSUME NEW ch \in Chunks
               PROVE  Boundary(h, bt, ch, h.c[ch])' /\ Boundary(h, bt, ch, h.pc[ch])'
    OBVIOUS
  <2>1. Boundary(g, at, ch, g.c[ch]) /\ Boundary(g, at, ch, g.pc[ch])
    BY <1>1 DEF Chain
  <2>2. Boundary(g, at, k, y)
    BY <1>3, <1>7, ARecord, Reading, <1>2
  <2>3. g.c[k] < y /\ y <= g.pc[k] /\ g.c[k] \in Nat /\ y \in Nat /\ g.pc[k] \in Nat
    BY <1>2, <1>7, Found, Ends
  <2>4. CASE ch = k
    <3>1. y # g.c[cChunk] /\ g.pc[ch] # g.c[cChunk]
      BY <1>7, <2>3, <2>4
    <3>2. Boundary(h, bt, ch, y)'
      BY <1>2, <1>7, <2>2, <2>4, <3>1, BoundaryTaken
    <3>3. Boundary(h, bt, ch, g.pc[ch])'
      BY <1>2, <2>1, <3>1, BoundaryTaken
    <3> QED BY <1>8, <2>4, <3>2, <3>3
  <2>5. CASE ch # k
    <3>1. Boundary(h, bt, ch, g.c[ch])' /\ Boundary(h, bt, ch, g.pc[ch])'
      BY <1>2, <1>7, <2>1, <2>5, BoundaryTaken
    <3> QED BY <1>8, <2>5, <3>1
  <2> QED BY <2>4, <2>5
<1>13. ASSUME NEW i \in 1 .. n, NEW j \in 1 .. n, i <= j
       PROVE  Far(h, bt[i])' + (j - i) * Align <= Far(h, bt[j])'
  <2>1. /\ i + 1 \in 1 .. Len(records) /\ j + 1 \in 1 .. Len(records) /\ 1 < i + 1
        /\ i + 1 <= j + 1 /\ (j + 1) - (i + 1) = j - i
        /\ bt[i] = at[i + 1] /\ bt[j] = at[j + 1]
    BY <1>4, <1>5, <1>13
  <2>2. Far(h, at[i + 1])' + ((j + 1) - (i + 1)) * Align <= Far(h, at[j + 1])'
    BY <2>1, FarTaken
  <2> QED BY <2>1, <2>2
<1>14. \A j \in 1 .. n :
         /\ h.tail <= bt[j].era /\ bt[j].era <= h.newest
         /\ h.c[ChunkOf(bt[j].era)'] <= bt[j].from /\ bt[j].to <= h.p[ChunkOf(bt[j].era)']
         /\ Link(ChunkOf(bt[j].era), bt[j].from, bt[j].to, records[j])'
         /\ Boundary(h, bt, ChunkOf(bt[j].era), bt[j].to)'
  BY <1>6, <1>8, <1>10
<1> QED BY <1>4, <1>6, <1>9, <1>11, <1>12, <1>13, <1>14 DEF Chain

LEMMA TakenViews ==
  ASSUME NEW g, NEW at, NEW pv, NEW cv, Consistent(g, at, pv, cv), Take,
         NEW h, Taken(g, h, cChunk, at[1].to), NEW bt, bt = Rest(at)
  PROVE  Views(h, bt, pv, cv)'
<1>1. /\ toConsumer \in Seq(Store) /\ toProducer \in Seq(Store) /\ instance \in Instances
      /\ Viewed(toConsumer, pv, produceSeen, headSeen, g.p, g.head)
      /\ Viewed(toProducer, cv, consumeSeen, tailSeen, g.cp, g.tail)
      /\ \A k \in 0 .. Len(toConsumer) : ProducerView(g, at, pv[k])
      /\ \A k \in 0 .. Len(toProducer) : ConsumerView(g, cv[k])
      /\ cChunk \in Chunks
  BY Parts DEF Typed
<1>2. /\ instance' = instance /\ cPc \in {"take", "takeFirst"}
      /\ UNCHANGED <<toConsumer, toProducer, produceSeen, headSeen, consumeSeen, tailSeen>>
  BY DEF Take, positions, seen
<1>3. /\ h.p = g.p /\ h.pc = g.pc /\ h.cp = g.cp /\ h.cc = g.cc /\ h.tail = g.tail
      /\ h.head = g.head /\ h.newest = g.newest
      /\ \A d \in Chunks \ {cChunk} : h.c[d] = g.c[d]
      /\ h.behind = (g.behind \/ cChunk # tailChunk)
  BY DEF Taken
<1>4. PICK w \in Nat : w = at[1].to /\ g.c[cChunk] < w /\ w <= g.pc[cChunk] /\ h.c[cChunk] = w
  BY <1>1, <1>2, Found DEF Taken
<1>5. Chunks' = Chunks /\ ChunkCount' = ChunkCount /\ \A e : ChunkOf(e)' = ChunkOf(e)
  BY <1>2, SameSizes
<1>6. ASSUME NEW k \in 0 .. Len(toConsumer)
      PROVE  ProducerView(h, bt, pv[k])'
  <2>1. PICK v : v = pv[k]
    OBVIOUS
  <2>2. ProducerView(g, at, v) /\ v.pos \in Numbering /\ v.era \in Nat
    BY <1>1, <2>1, AView
  <2>3. \A ch \in Chunks : Boundary(h, bt, ch, v.pos[ch])'
    <3> SUFFICES ASSUME NEW ch \in Chunks
                 PROVE  Boundary(h, bt, ch, v.pos[ch])'
      OBVIOUS
    <3>1. Boundary(g, at, ch, v.pos[ch])
      BY <2>2 DEF ProducerView
    <3>2. ch = cChunk => v.pos[ch] # g.c[cChunk]
      <4>1. g.pc[ch] <= v.pos[ch] /\ v.pos[ch] \in Nat /\ g.pc[ch] \in Nat /\ g.c[ch] \in Nat
        BY <2>2, Ends, MultipleFacts DEF ProducerView, Numbering
      <4> QED BY <1>4, <4>1
    <3> QED BY <1>2, <3>1, <3>2, BoundaryTaken
  <2>4. \A e \in g.tail + 1 .. v.era : \/ h.c[ChunkOf(e)] < v.pos[ChunkOf(e)]
                                       \/ h.behind /\ e = g.tail + 1
    <3> SUFFICES ASSUME NEW e \in g.tail + 1 .. v.era
                 PROVE  \/ h.c[ChunkOf(e)] < v.pos[ChunkOf(e)]
                        \/ h.behind /\ e = g.tail + 1
      OBVIOUS
    <3>1. /\ g.tail \in Nat /\ e \in Nat /\ g.tail <= e /\ e < g.tail + ChunkCount /\ e # g.tail
      <4>1. v.era <= g.head
        BY <2>2 DEF ProducerView
      <4> QED BY <2>2, <4>1, Eras
    <3>2. \/ g.c[ChunkOf(e)] < v.pos[ChunkOf(e)]
          \/ g.behind /\ e = g.tail + 1
      BY <2>2 DEF ProducerView
    <3>3. ChunkOf(e) \in Chunks
      BY <1>1, <3>1, ChunkOfRange
    <3>4. CASE ChunkOf(e) # cChunk
      BY <1>3, <3>2, <3>3, <3>4
    <3>5. CASE ChunkOf(e) = cChunk
      <4>1. /\ ChunkOf(at[1].era) = cChunk /\ 1 \in 1 .. Len(records)
            /\ at[1].era = g.tail \/ at[1].era = g.tail + 1
            /\ (cChunk = tailChunk <=> at[1].era = g.tail)
        BY <1>2, Reading
      <4>2. /\ at[1].era \in Nat /\ g.tail <= at[1].era /\ at[1].era < g.tail + ChunkCount
        BY <4>1, ARecord
      <4>3. at[1].era = e
        BY <1>1, <3>1, <3>5, <4>1, <4>2, EraTells
      <4> QED BY <1>3, <3>1, <4>1, <4>3
    <3> QED BY <3>4, <3>5
  <2>5. /\ \A ch \in Chunks : g.pc[ch] <= v.pos[ch] /\ v.pos[ch] <= g.p[ch]
        /\ g.tail <= v.era /\ v.era <= g.head
        /\ \A e \in g.tail .. v.era - 1 : v.pos[ChunkOf(e)] = g.p[ChunkOf(e)]
    BY <2>2 DEF ProducerView
  <2>6. ProducerView(h, bt, v)'
    BY <1>3, <1>5, <2>3, <2>4, <2>5 DEF ProducerView
  <2> QED BY <2>1, <2>6
<1>7. ASSUME NEW k \in 0 .. Len(toProducer)
      PROVE  ConsumerView(h, cv[k])'
  BY <1>1, <1>3, <1>5 DEF ConsumerView
<1>8. /\ Viewed(toConsumer, pv, produceSeen, headSeen, h.p, h.head)'
      /\ Viewed(toProducer, cv, consumeSeen, tailSeen, h.cp, h.tail)'
  <2>1. PICK q, u, sp, sc : q = toConsumer /\ u = toProducer /\ sp = produceSeen /\ sc = headSeen
    OBVIOUS
  <2>2. PICK tp, tc : tp = consumeSeen /\ tc = tailSeen
    OBVIOUS
  <2>3. Viewed(q, pv, sp, sc, g.p, g.head)' /\ Viewed(u, cv, tp, tc, g.cp, g.tail)'
    BY <1>1, <1>2, <2>1, <2>2, ViewedSame
  <2>4. Viewed(q, pv, sp, sc, h.p, h.head)' /\ Viewed(u, cv, tp, tc, h.cp, h.tail)'
    BY <1>3, <2>3
  <2>5. /\ toConsumer' = q /\ toProducer' = u /\ produceSeen' = sp /\ headSeen' = sc
        /\ consumeSeen' = tp /\ tailSeen' = tc
    BY <1>2, <2>1, <2>2
  <2> QED BY <2>4, <2>5
<1> QED BY <1>2, <1>6, <1>7, <1>8 DEF Views

LEMMA TakenProducer ==
  ASSUME NEW g, NEW at, NEW pv, NEW cv, Consistent(g, at, pv, cv), Take,
         NEW h, Taken(g, h, cChunk, at[1].to)
  PROVE  ProducerFrame(h, cv)'
<1>1. /\ instance \in Instances /\ cChunk \in Chunks /\ ProducerFrame(g, cv)
  BY Parts DEF Typed
<1>2. /\ instance' = instance /\ cPc \in {"take", "takeFirst"}
      /\ UNCHANGED <<producePos, headChunk, pPc, pChunk, pPos, pLen>>
  BY DEF Take, positions, producer
<1>3. /\ h.p = g.p /\ h.cc = g.cc /\ h.head = g.head /\ h.newest = g.newest
      /\ \A d \in Chunks \ {cChunk} : h.c[d] = g.c[d]
  BY DEF Taken
<1>4. ASSUME NEW ch \in Chunks, NEW z \in g.p[ch] .. g.cc[ch] + ChunkSize - 1
      PROVE  buffer'[ch][Pos(z)] = buffer[ch][Pos(z)]
  <2>1. /\ g.cc[ch] \in Nat /\ g.p[ch] \in Nat /\ g.cp[ch] \in Nat /\ cv[0].pos[ch] \in Nat
        /\ g.c[ch] \in Nat /\ g.cc[ch] <= cv[0].pos[ch] /\ cv[0].pos[ch] <= g.cp[ch]
        /\ g.cp[ch] <= g.c[ch] /\ g.pc[ch] \in Nat /\ pv[0].pos[ch] \in Nat
        /\ g.pc[ch] <= pv[0].pos[ch] /\ pv[0].pos[ch] <= g.p[ch]
    BY Ends
  <2>2. ChunkSize \in Nat
    BY <1>1, Naturals
  <2>3. z \in Nat /\ z < g.c[ch] + ChunkSize /\ g.pc[ch] <= z
    BY <2>1, <2>2
  <2>4. CASE ch # cChunk
    BY <1>1, <2>3, <2>4, TakenBytes
  <2>5. CASE ch = cChunk
    <3>1. at[1].to \in Nat /\ at[1].to <= g.pc[ch]
      BY <1>2, <2>5, Found
    <3>2. at[1].to <= z
      BY <2>1, <2>3, <3>1
    <3> QED BY <2>3, <2>5, <3>2, TakenBytes
  <2> QED BY <2>4, <2>5
<1>5. pPc = "publishHead" => h.c[pChunk] < h.p[pChunk]
  <2> SUFFICES ASSUME pPc = "publishHead"
               PROVE  h.c[pChunk] < h.p[pChunk]
    OBVIOUS
  <2>1. /\ pChunk = ChunkOf(g.head + 1) /\ g.newest = g.head + 1
        /\ g.c[pChunk] < g.p[pChunk]
    BY <1>1 DEF ProducerFrame
  <2>2. PICK e \in Nat : /\ e = g.tail \/ (e = g.tail + 1 /\ Emptied(g, pv))
                         /\ cChunk = ChunkOf(e) /\ e <= g.newest
    BY <1>2, TakingEra
  <2>3. /\ g.tail \in Nat /\ g.head \in Nat /\ pv[0].era \in Nat /\ ChunkCount \in Nat
        /\ g.tail <= g.head /\ pv[0].era <= g.head /\ g.head + 1 < g.tail + ChunkCount
    BY <2>1, Eras
  <2>4. e <= g.head
    <3>1. CASE e = g.tail
      BY <2>3, <3>1
    <3>2. CASE e = g.tail + 1 /\ Emptied(g, pv)
      BY <2>3, <3>2 DEF Emptied
    <3> QED BY <2>2, <3>1, <3>2
  <2>5. g.head + 1 \in Nat /\ e < g.head + 1 /\ g.head + 1 < e + ChunkCount
    BY <2>2, <2>3, <2>4
  <2>6. pChunk # cChunk /\ pChunk \in Chunks
    BY <1>1, <2>1, <2>2, <2>5, EraApart, ChunkOfRange
  <2> QED BY <1>3, <2>1, <2>6
<1>6. cv[0].era <= cv[0].era /\ cv[0].era \in Nat
  BY Eras
<1> QED BY <1>2, <1>3, <1>4, <1>5, <1>6, ProducerFrameKept

LEMMA TakenConsumer ==
  ASSUME NEW g, NEW at, NEW pv, NEW cv, Consistent(g, at, pv, cv), Take,
         NEW h, Taken(g, h, cChunk, at[1].to)
  PROVE  ConsumerFrame(h, pv)'
<1>1. /\ instance \in Instances /\ cChunk \in Chunks /\ ConsumerFrame(g, pv)
  BY Parts DEF Typed
<1>2. /\ instance' = instance /\ UNCHANGED <<cChunk, tailChunk, consumePos>>
      /\ \/ cPc = "take" /\ cPc' = "release" /\ (Firm => ~Again)
         \/ cPc = "takeFirst" /\ cPc' = "releaseFirst"
      /\ cPos' = Advance(Unmarked(cPos), LengthAt(cPos))
      /\ cPc \in {"take", "takeFirst"}
  BY DEF Take, positions
<1>3. /\ h.p = g.p /\ h.cp = g.cp /\ h.tail = g.tail
      /\ h.c[cChunk] = at[1].to
      /\ \A d \in Chunks \ {cChunk} : h.c[d] = g.c[d]
      /\ h.behind = (g.behind \/ cChunk # tailChunk)
  BY DEF Taken
<1>4. /\ Chunks' = Chunks /\ Firm' = Firm
      /\ \A e : ChunkOf(e)' = ChunkOf(e) /\ Pos(e)' = Pos(e)
  BY <1>2, SameSizes
<1>5. tailChunk = ChunkOf(g.tail) /\ tailChunk \in Chunks
  BY <1>1, Shown, Eras, ChunkOfRange
<1>6. Emptied(g, pv) => cChunk # tailChunk
  <2>1. g.c[cChunk] < g.pc[cChunk]
    BY <1>1, <1>2 DEF ConsumerFrame
  <2>2. /\ g.c[cChunk] \in Nat /\ g.pc[cChunk] \in Nat /\ g.p[cChunk] \in Nat
        /\ pv[0].pos[cChunk] \in Nat
        /\ g.pc[cChunk] <= pv[0].pos[cChunk] /\ pv[0].pos[cChunk] <= g.p[cChunk]
    BY <1>1, Ends
  <2>3. g.c[cChunk] # g.p[cChunk]
    BY <2>1, <2>2
  <2> QED BY <1>5, <2>3 DEF Emptied
<1>7. cChunk # tailChunk => Emptied(g, pv) /\ cChunk = ChunkOf(g.tail + 1)
  BY <1>1, <1>2 DEF ConsumerFrame
<1>8. Emptied(g, pv) => Emptied(h, pv)'
  <2> SUFFICES ASSUME Emptied(g, pv)
               PROVE  Emptied(h, pv)'
    OBVIOUS
  <2>1. h.c[ChunkOf(g.tail)] = g.c[ChunkOf(g.tail)]
    BY <1>3, <1>5, <1>6
  <2> QED BY <1>3, <1>4, <2>1 DEF Emptied
<1>9. cPos' = Pos(h.c[cChunk])
  BY <1>1, <1>2, <1>3, Found
<1>10. \A ch \in Chunks : ch # cChunk => h.c[ch] = h.cp[ch]
  BY <1>1, <1>2, <1>3 DEF ConsumerFrame
<1>11. cPc = "takeFirst" => /\ cChunk = ChunkOf(g.tail + 1) /\ cChunk # tailChunk
  BY <1>1, <1>6 DEF ConsumerFrame
<1>12. h.behind => Emptied(h, pv)' /\ (Firm => cPc' = "releaseFirst")
  <2>1. g.behind => Emptied(g, pv) /\ ~Firm
    BY <1>1, <1>2 DEF ConsumerFrame
  <2>2. Firm /\ cPc = "take" => cChunk = tailChunk
    BY <1>2 DEF Again
  <2> QED BY <1>2, <1>3, <1>7, <1>8, <2>1, <2>2
<1>13. /\ cPc' = "releaseFirst" => h.behind /\ cChunk = ChunkOf(g.tail + 1)
       /\ cPc' = "release" => \/ cChunk = tailChunk
                              \/ cChunk = ChunkOf(g.tail + 1) /\ h.behind
  BY <1>2, <1>3, <1>7, <1>11
<1> QED BY <1>2, <1>3, <1>4, <1>9, <1>10, <1>12, <1>13 DEF ConsumerFrame

LEMMA TakeStep ==
  ASSUME NEW g, NEW at, NEW pv, NEW cv, Consistent(g, at, pv, cv), Take
  PROVE  Invariant'
<1>1. /\ instance \in Instances /\ Typed /\ g \in Ghosts /\ Places(g) /\ Order(g)
  BY Parts
<1>2. /\ instance' = instance /\ cPc \in {"take", "takeFirst"}
      /\ UNCHANGED <<positions, caches, producer, cChunk, cHead>>
      /\ records' = SubSeq(records, 2, Len(records))
      /\ cPos' = Advance(Unmarked(cPos), LengthAt(cPos))
  BY DEF Take
<1>3. PICK k \in Chunks, x, y \in Multiple :
        k = cChunk /\ x = g.c[k] /\ y = at[1].to
  <2>1. at[1].to \in Multiple
    BY <1>2, Reading
  <2>2. cChunk \in Chunks /\ g.c[cChunk] \in Multiple
    BY <1>1, Ends DEF Typed
  <2> QED BY <2>1, <2>2
<1>4. PICK h : Taken(g, h, k, y)
  BY <1>1, TakenExists
<1>5. Taken(g, h, cChunk, at[1].to)
  BY <1>3, <1>4
<1>6. /\ x \in Nat /\ y \in Nat /\ x < y /\ y <= g.pc[k] /\ cPos' = Pos(y)
  BY <1>2, <1>3, Found
<1>7. /\ Chunks' = Chunks /\ Bytes' = Bytes /\ Numbers' = Numbers /\ ChunkSize' = ChunkSize
      /\ Store' = Store /\ Ghosts' = Ghosts
      /\ \A e : ChunkOf(e)' = ChunkOf(e)
      /\ \A f : At(f)' = At(f)
  BY <1>2, SameSizes
<1>8. /\ h \in Ghosts /\ h.p = g.p /\ h.pc = g.pc /\ h.cp = g.cp /\ h.cc = g.cc
      /\ h.head = g.head /\ h.newest = g.newest /\ h.tail = g.tail
      /\ h.c[k] = y /\ \A d \in Chunks \ {k} : h.c[d] = g.c[d]
  BY <1>4 DEF Taken
<1>9. Typed'
  <2>1. buffer' \in [Chunks -> [Bytes -> Content]]
    BY <1>3, TakenBytes
  <2>2. records' \in Seq(Whole)
    BY <1>1, <1>2, Reading, RecordsTaken DEF Typed
  <2>3. cPos' \in Bytes
    BY <1>1, <1>6, PosRange
  <2> QED BY <1>1, <1>2, <1>7, <2>1, <2>2, <2>3 DEF Typed, Content, positions, producer
<1>10. Places(h)'
  BY <1>1, <1>2, <1>7, <1>8 DEF Places, positions, caches
<1>11. Order(h)'
  <2>1. \A ch \in Chunks : /\ h.cc[ch] <= h.cp[ch] /\ h.cp[ch] <= h.c[ch]
                           /\ h.c[ch] <= h.pc[ch] /\ h.pc[ch] <= h.p[ch]
                           /\ h.p[ch] < h.cc[ch] + ChunkSize
    <3> SUFFICES ASSUME NEW ch \in Chunks
                 PROVE  /\ h.cc[ch] <= h.cp[ch] /\ h.cp[ch] <= h.c[ch]
                        /\ h.c[ch] <= h.pc[ch] /\ h.pc[ch] <= h.p[ch]
                        /\ h.p[ch] < h.cc[ch] + ChunkSize
      OBVIOUS
    <3>1. /\ g.cc[ch] <= g.cp[ch] /\ g.cp[ch] <= g.c[ch]
          /\ g.c[ch] <= g.pc[ch] /\ g.pc[ch] <= g.p[ch]
          /\ g.p[ch] < g.cc[ch] + ChunkSize
      BY <1>1 DEF Order
    <3>2. g.cp[ch] \in Nat /\ g.c[ch] \in Nat
      BY Ends
    <3>3. ch = k => g.cp[ch] <= y
      BY <1>3, <1>6, <3>1, <3>2
    <3> QED BY <1>6, <1>8, <3>1, <3>3
  <2> QED BY <1>1, <1>7, <1>8, <2>1 DEF Order
<1>12. PICK bt : bt = Rest(at)
  OBVIOUS
<1>13. Chain(h, bt)' /\ Views(h, bt, pv, cv)'
  BY <1>5, <1>12, TakenChain, TakenViews
<1>14. ProducerFrame(h, cv)' /\ ConsumerFrame(h, pv)'
  BY <1>5, TakenProducer, TakenConsumer
<1> QED BY <1>7, <1>8, <1>9, <1>10, <1>11, <1>13, <1>14 DEF Invariant, Consistent

-----------------------------------------------------------------------------
(* Stores and their visibility.                                            *)

\* What a thread can know after one more store of the other.
Pushed(q, v, w) == [k \in 0 .. Len(q) + 1 |-> IF k <= Len(q) THEN v[k] ELSE w]

\* What it knows once it saw the next one.
Popped(q, v) == [k \in 0 .. Len(q) - 1 |-> v[k + 1]]

\* What it sees, after it saw the store s.
Shows(s, seenPos, seenChunk, sp, sc) ==
  IF s.position THEN sp = [seenPos EXCEPT ![s.chunk] = s.value] /\ sc = seenChunk
                ELSE sc = s.chunk /\ sp = seenPos

LEMMA LaterTrans ==
  ASSUME NEW u \in View, NEW v \in View, NEW w \in View, Later(u, v), Later(v, w)
  PROVE  Later(u, w)
<1>1. /\ u.era \in Nat /\ v.era \in Nat /\ w.era \in Nat
      /\ \A ch \in Chunks : u.pos[ch] \in Nat /\ v.pos[ch] \in Nat /\ w.pos[ch] \in Nat
  BY MultipleFacts DEF View, Numbering
<1>2. \A ch \in Chunks : u.pos[ch] <= v.pos[ch] /\ v.pos[ch] <= w.pos[ch]
  BY DEF Later
<1>3. \A ch \in Chunks : u.pos[ch] <= w.pos[ch]
  BY <1>1, <1>2
<1>4. u.era <= w.era
  BY <1>1 DEF Later
<1> QED BY <1>3, <1>4 DEF Later

LEMMA LaterSelf ==
  ASSUME NEW v \in View
  PROVE  Later(v, v)
<1>1. v.era \in Nat /\ \A ch \in Chunks : v.pos[ch] \in Nat
  BY MultipleFacts DEF View, Numbering
<1> QED BY <1>1 DEF Later

LEMMA ViewPushed ==
  ASSUME NEW q \in Seq(Store), NEW v, NEW seenPos, NEW seenChunk, NEW pos, NEW era,
         Viewed(q, v, seenPos, seenChunk, pos, era),
         NEW s \in Store, NEW w \in View, Stored(s, v[Len(q)], w), Later(v[Len(q)], w)
  PROVE  /\ Viewed(Append(q, s), Pushed(q, v, w), seenPos, seenChunk, w.pos, w.era)
         /\ Append(q, s) \in Seq(Store) /\ Len(Append(q, s)) = Len(q) + 1
         /\ Pushed(q, v, w)[0] = v[0]
         /\ \A k \in 0 .. Len(q) : Pushed(q, v, w)[k] = v[k]
         /\ Pushed(q, v, w)[Len(q) + 1] = w
<1>1. PICK n \in Nat : n = Len(q)
  OBVIOUS
<1>2. PICK r \in Seq(Store) : r = Append(q, s)
  <2>1. Append(q, s) \in Seq(Store)
    OBVIOUS
  <2> QED BY <2>1
<1>3. Len(r) = n + 1 /\ (\A k \in 1 .. n : r[k] = q[k]) /\ r[n + 1] = s
  BY <1>1, <1>2
<1>4. PICK u : u = Pushed(q, v, w)
  OBVIOUS
<1>5. u = [k \in 0 .. n + 1 |-> IF k <= n THEN v[k] ELSE w]
  BY <1>1, <1>4 DEF Pushed
<1>6. /\ \A k \in 0 .. n : u[k] = v[k]
      /\ u[n + 1] = w /\ u[0] = v[0]
  BY <1>5
<1>7. \A k \in 0 .. n : v[k] \in View
  BY <1>1 DEF Viewed
<1>8. u \in [0 .. n + 1 -> View]
  BY <1>5, <1>7
<1>9. \A k \in 1 .. n + 1 : Stored(r[k], u[k - 1], u[k])
  <2> SUFFICES ASSUME NEW k \in 1 .. n + 1
               PROVE  Stored(r[k], u[k - 1], u[k])
    OBVIOUS
  <2>1. CASE k \in 1 .. n
    <3>1. u[k - 1] = v[k - 1] /\ u[k] = v[k] /\ r[k] = q[k]
      BY <1>3, <1>6, <2>1
    <3>2. Stored(q[k], v[k - 1], v[k])
      BY <1>1, <2>1 DEF Viewed
    <3> QED BY <3>1, <3>2
  <2>2. CASE k = n + 1
    <3>1. u[k - 1] = v[n] /\ u[k] = w /\ r[k] = s
      BY <1>3, <1>6, <2>2
    <3> QED BY <1>1, <3>1
  <2> QED BY <2>1, <2>2
<1>10. \A j, k \in 0 .. n + 1 : j <= k => Later(u[j], u[k])
  <2> SUFFICES ASSUME NEW j \in 0 .. n + 1, NEW k \in 0 .. n + 1, j <= k
               PROVE  Later(u[j], u[k])
    OBVIOUS
  <2>1. CASE k <= n
    <3>1. u[j] = v[j] /\ u[k] = v[k] /\ j \in 0 .. n /\ k \in 0 .. n
      BY <1>6, <2>1
    <3> QED BY <1>1, <3>1 DEF Viewed
  <2>2. CASE j <= n /\ k = n + 1
    <3>1. u[j] = v[j] /\ u[k] = w /\ j \in 0 .. n /\ n \in 0 .. n
      BY <1>6, <2>2
    <3>2. Later(v[j], v[n])
      BY <1>1, <3>1 DEF Viewed
    <3> QED BY <1>1, <1>7, <3>1, <3>2, LaterTrans
  <2>3. CASE j = n + 1 /\ k = n + 1
    BY <1>6, <2>3, LaterSelf
  <2> QED BY <2>1, <2>2, <2>3
<1>11. /\ seenPos = At(u[0].pos) /\ seenChunk = ChunkOf(u[0].era)
  BY <1>6 DEF Viewed
<1>12. u[n + 1] = [pos |-> w.pos, era |-> w.era]
  BY <1>6 DEF View
<1>13. Viewed(r, u, seenPos, seenChunk, w.pos, w.era)
  BY <1>3, <1>8, <1>9, <1>10, <1>11, <1>12 DEF Viewed
<1> QED BY <1>1, <1>2, <1>3, <1>4, <1>6, <1>13

LEMMA ViewPopped ==
  ASSUME instance \in Instances, NEW q \in Seq(Store), NEW v, NEW seenPos, NEW seenChunk,
         NEW pos, NEW era,
         Viewed(q, v, seenPos, seenChunk, pos, era), q # <<>>,
         NEW s, s = Head(q), NEW sp, NEW sc, Shows(s, seenPos, seenChunk, sp, sc)
  PROVE  /\ Viewed(Tail(q), Popped(q, v), sp, sc, pos, era)
         /\ Tail(q) \in Seq(Store) /\ Len(Tail(q)) = Len(q) - 1
         /\ \A k \in 0 .. Len(q) - 1 : k + 1 \in 0 .. Len(q) /\ Popped(q, v)[k] = v[k + 1]
         /\ v[0].era <= Popped(q, v)[0].era /\ Popped(q, v)[0].era \in Nat
<1>1. PICK n \in Nat : n = Len(q) /\ n >= 1
  OBVIOUS
<1>2. PICK r \in Seq(Store) : r = Tail(q)
  <2>1. Tail(q) \in Seq(Store)
    OBVIOUS
  <2> QED BY <2>1
<1>3. Len(r) = n - 1 /\ (\A k \in 1 .. n - 1 : r[k] = q[k + 1]) /\ s = q[1] /\ s \in Store
  BY <1>1, <1>2
<1>4. PICK u : u = Popped(q, v)
  OBVIOUS
<1>5. u = [k \in 0 .. n - 1 |-> v[k + 1]]
  BY <1>1, <1>4 DEF Popped
<1>6. \A k \in 0 .. n - 1 : k + 1 \in 0 .. n /\ u[k] = v[k + 1]
  BY <1>5
<1>7. \A k \in 0 .. n : v[k] \in View
  BY <1>1 DEF Viewed
<1>8. u \in [0 .. n - 1 -> View]
  BY <1>5, <1>6, <1>7
<1>9. \A k \in 1 .. n - 1 : Stored(r[k], u[k - 1], u[k])
  <2> SUFFICES ASSUME NEW k \in 1 .. n - 1
               PROVE  Stored(r[k], u[k - 1], u[k])
    OBVIOUS
  <2>1. k - 1 \in 0 .. n - 1 /\ k \in 0 .. n - 1 /\ k + 1 \in 1 .. n /\ (k - 1) + 1 = k
        /\ (k + 1) - 1 = k
    BY <1>1
  <2>2. u[k - 1] = v[k] /\ u[k] = v[k + 1] /\ r[k] = q[k + 1]
    BY <1>3, <1>6, <2>1
  <2>3. Stored(q[k + 1], v[(k + 1) - 1], v[k + 1])
    BY <1>1, <2>1 DEF Viewed
  <2> QED BY <2>1, <2>2, <2>3
<1>10. \A j, k \in 0 .. n - 1 : j <= k => Later(u[j], u[k])
  <2> SUFFICES ASSUME NEW j \in 0 .. n - 1, NEW k \in 0 .. n - 1, j <= k
               PROVE  Later(u[j], u[k])
    OBVIOUS
  <2>1. j + 1 \in 0 .. n /\ k + 1 \in 0 .. n /\ j + 1 <= k + 1
    BY <1>1
  <2>2. Later(v[j + 1], v[k + 1])
    BY <1>1, <2>1 DEF Viewed
  <2> QED BY <1>6, <2>2
<1>11. v[0] \in View /\ v[1] \in View /\ u[0] = v[1] /\ 0 \in 0 .. n /\ 1 \in 0 .. n
  <2>1. 0 \in 0 .. n /\ 1 \in 0 .. n /\ 0 \in 0 .. n - 1 /\ 0 + 1 = 1
    BY <1>1
  <2>2. u[0] = v[0 + 1]
    BY <1>6, <2>1
  <2> QED BY <1>7, <2>1, <2>2
<1>12. Stored(s, v[0], v[1])
  <2>1. 1 \in 1 .. n /\ 1 - 1 = 0
    BY <1>1
  <2>2. Stored(q[1], v[1 - 1], v[1])
    BY <1>1, <2>1 DEF Viewed
  <2> QED BY <1>3, <2>1, <2>2
<1>13. sp = At(v[1].pos) /\ sc = ChunkOf(v[1].era)
  <2>1. seenPos = At(v[0].pos) /\ seenChunk = ChunkOf(v[0].era)
    BY DEF Viewed
  <2>2. CASE s.position
    <3>1. /\ sp = [seenPos EXCEPT ![s.chunk] = s.value] /\ sc = seenChunk
          /\ s.value = Pos(v[1].pos[s.chunk]) /\ v[1].era = v[0].era
          /\ \A ch \in Chunks \ {s.chunk} : v[1].pos[ch] = v[0].pos[ch]
      BY <1>12, <2>2 DEF Stored, Shows
    <3>2. s.chunk \in Chunks
      BY <1>3 DEF Store
    <3> QED BY <2>1, <3>1, <3>2 DEF At
  <2>3. CASE ~s.position
    BY <1>12, <2>1, <2>3 DEF Stored, Shows
  <2> QED BY <2>2, <2>3
<1>14. u[n - 1] = [pos |-> pos, era |-> era]
  <2>1. n - 1 \in 0 .. n - 1 /\ (n - 1) + 1 = n
    BY <1>1
  <2>2. v[n] = [pos |-> pos, era |-> era]
    BY <1>1 DEF Viewed
  <2> QED BY <1>6, <2>1, <2>2
<1>15. Viewed(r, u, sp, sc, pos, era)
  BY <1>3, <1>8, <1>9, <1>10, <1>11, <1>13, <1>14 DEF Viewed
<1>16. v[0].era <= v[1].era /\ v[1].era \in Nat
  <2>1. Later(v[0], v[1])
    BY <1>1, <1>11 DEF Viewed
  <2> QED BY <1>11, <2>1 DEF Later, View
<1> QED BY <1>1, <1>2, <1>3, <1>4, <1>6, <1>11, <1>15, <1>16

\* A store of the consumer is one more thing the producer may know.
LEMMA ConsumerStores ==
  ASSUME NEW g, NEW at, NEW pv, NEW cv, Consistent(g, at, pv, cv), instance' = instance,
         UNCHANGED <<consumeSeen, tailSeen>>,
         NEW w \in View, NEW s \in Store, toProducer' = Append(toProducer, s),
         Stored(s, [pos |-> g.cp, era |-> g.tail], w),
         \A ch \in Chunks : g.cp[ch] <= w.pos[ch], g.tail <= w.era
  PROVE  \E u : /\ Viewed(toProducer, u, consumeSeen, tailSeen, w.pos, w.era)'
                /\ toProducer' \in Seq(Store) /\ u[0] = cv[0]
                /\ \A k \in 0 .. Len(toProducer') :
                     \/ k \in 0 .. Len(toProducer) /\ u[k] = cv[k]
                     \/ u[k] = w
<1>1. /\ toProducer \in Seq(Store) /\ Viewed(toProducer, cv, consumeSeen, tailSeen, g.cp, g.tail)
  BY Parts
<1>2. cv[Len(toProducer)] = [pos |-> g.cp, era |-> g.tail]
  BY <1>1 DEF Viewed
<1>3. Stored(s, cv[Len(toProducer)], w) /\ Later(cv[Len(toProducer)], w)
  BY <1>2 DEF Later
<1>4. PICK q, sp, sc : q = toProducer /\ sp = consumeSeen /\ sc = tailSeen
  OBVIOUS
<1>5. PICK u : u = Pushed(q, cv, w)
  OBVIOUS
<1>6. PICK r : r = Append(q, s)
  OBVIOUS
<1>7. /\ Viewed(r, u, sp, sc, w.pos, w.era) /\ r \in Seq(Store) /\ Len(r) = Len(q) + 1
      /\ u[0] = cv[0] /\ \A k \in 0 .. Len(q) : u[k] = cv[k]
      /\ u[Len(q) + 1] = w
  BY <1>1, <1>3, <1>4, <1>5, <1>6, ViewPushed
<1>8. Viewed(r, u, sp, sc, w.pos, w.era)'
  BY <1>7, ViewedSame
<1>9. toProducer' = r /\ consumeSeen' = sp /\ tailSeen' = sc
  BY <1>4, <1>6
<1>10. Viewed(toProducer, u, consumeSeen, tailSeen, w.pos, w.era)'
  BY <1>8, <1>9
<1>11. \A k \in 0 .. Len(q) + 1 : k \in 0 .. Len(q) \/ k = Len(q) + 1
  <2>1. Len(q) \in Nat
    BY <1>1, <1>4
  <2> QED BY <2>1
<1> QED BY <1>4, <1>7, <1>9, <1>10, <1>11

\* A store of the producer is one more thing the consumer may know.
LEMMA ProducerStores ==
  ASSUME NEW g, NEW at, NEW pv, NEW cv, Consistent(g, at, pv, cv), instance' = instance,
         UNCHANGED <<produceSeen, headSeen>>,
         NEW w \in View, NEW s \in Store, toConsumer' = Append(toConsumer, s),
         Stored(s, [pos |-> g.p, era |-> g.head], w),
         \A ch \in Chunks : g.p[ch] <= w.pos[ch], g.head <= w.era
  PROVE  \E u : /\ Viewed(toConsumer, u, produceSeen, headSeen, w.pos, w.era)'
                /\ toConsumer' \in Seq(Store) /\ u[0] = pv[0]
                /\ \A k \in 0 .. Len(toConsumer') :
                     \/ k \in 0 .. Len(toConsumer) /\ u[k] = pv[k]
                     \/ u[k] = w
<1>1. /\ toConsumer \in Seq(Store) /\ Viewed(toConsumer, pv, produceSeen, headSeen, g.p, g.head)
  BY Parts
<1>2. pv[Len(toConsumer)] = [pos |-> g.p, era |-> g.head]
  BY <1>1 DEF Viewed
<1>3. Stored(s, pv[Len(toConsumer)], w) /\ Later(pv[Len(toConsumer)], w)
  BY <1>2 DEF Later
<1>4. PICK q, sp, sc : q = toConsumer /\ sp = produceSeen /\ sc = headSeen
  OBVIOUS
<1>5. PICK u : u = Pushed(q, pv, w)
  OBVIOUS
<1>6. PICK r : r = Append(q, s)
  OBVIOUS
<1>7. /\ Viewed(r, u, sp, sc, w.pos, w.era) /\ r \in Seq(Store) /\ Len(r) = Len(q) + 1
      /\ u[0] = pv[0] /\ \A k \in 0 .. Len(q) : u[k] = pv[k]
      /\ u[Len(q) + 1] = w
  BY <1>1, <1>3, <1>4, <1>5, <1>6, ViewPushed
<1>8. Viewed(r, u, sp, sc, w.pos, w.era)'
  BY <1>7, ViewedSame
<1>9. toConsumer' = r /\ produceSeen' = sp /\ headSeen' = sc
  BY <1>4, <1>6
<1>10. Viewed(toConsumer, u, produceSeen, headSeen, w.pos, w.era)'
  BY <1>8, <1>9
<1>11. \A k \in 0 .. Len(q) + 1 : k \in 0 .. Len(q) \/ k = Len(q) + 1
  <2>1. Len(q) \in Nat
    BY <1>1, <1>4
  <2> QED BY <2>1
<1> QED BY <1>4, <1>7, <1>9, <1>10, <1>11

\* What a step that leaves the buffer alone leaves as it is.
LEMMA BufferSame ==
  ASSUME UNCHANGED <<instance, buffer>>, NEW g
  PROVE  /\ \A ch \in Chunks : \A z \in g.c[ch] .. g.p[ch] - 1 :
              buffer'[ch][Pos(z)] = buffer[ch][Pos(z)]
         /\ \A ch \in Chunks : \A z \in g.p[ch] .. g.cc[ch] + ChunkSize - 1 :
              buffer'[ch][Pos(z)] = buffer[ch][Pos(z)]
OBVIOUS

\* Every view lies between the caches and the ends.
LEMMA ViewEnds ==
  ASSUME NEW g, NEW at, NEW pv, NEW cv, Consistent(g, at, pv, cv)
  PROVE  /\ Len(toConsumer) \in Nat /\ Len(toProducer) \in Nat
         /\ \A k \in 0 .. Len(toConsumer) :
              /\ ProducerView(g, at, pv[k]) /\ pv[k] \in View /\ pv[k].era \in Nat
              /\ pv[0].era <= pv[k].era /\ pv[k].era <= g.head
              /\ \A ch \in Chunks : pv[k].pos[ch] \in Nat /\ pv[k].pos[ch] <= g.p[ch]
         /\ \A k \in 0 .. Len(toProducer) :
              /\ ConsumerView(g, cv[k]) /\ cv[k] \in View /\ cv[k].era \in Nat
              /\ cv[0].era <= cv[k].era /\ cv[k].era <= g.tail
              /\ \A ch \in Chunks : cv[k].pos[ch] \in Nat /\ cv[k].pos[ch] <= g.cp[ch]
         /\ [pos |-> g.p, era |-> g.head] = pv[Len(toConsumer)]
         /\ [pos |-> g.cp, era |-> g.tail] = cv[Len(toProducer)]
         /\ ProducerView(g, at, [pos |-> g.p, era |-> g.head])
         /\ ConsumerView(g, [pos |-> g.cp, era |-> g.tail])
<1>1. /\ toConsumer \in Seq(Store) /\ toProducer \in Seq(Store)
      /\ Viewed(toConsumer, pv, produceSeen, headSeen, g.p, g.head)
      /\ Viewed(toProducer, cv, consumeSeen, tailSeen, g.cp, g.tail)
      /\ \A k \in 0 .. Len(toConsumer) : ProducerView(g, at, pv[k])
      /\ \A k \in 0 .. Len(toProducer) : ConsumerView(g, cv[k])
  BY Parts
<1>2. PICK m \in Nat, n \in Nat : m = Len(toConsumer) /\ n = Len(toProducer)
  BY <1>1
<1>3. ASSUME NEW k \in 0 .. m
      PROVE  /\ ProducerView(g, at, pv[k]) /\ pv[k] \in View /\ pv[k].era \in Nat
             /\ pv[0].era <= pv[k].era /\ pv[k].era <= g.head
             /\ \A ch \in Chunks : pv[k].pos[ch] \in Nat /\ pv[k].pos[ch] <= g.p[ch]
  <2>1. pv[k] \in View /\ pv[k].pos \in Numbering /\ pv[k].era \in Nat
    BY <1>1, <1>2, AView
  <2>2. 0 \in 0 .. m /\ 0 <= k
    OBVIOUS
  <2>3. Later(pv[0], pv[k])
    BY <1>1, <1>2, <2>2 DEF Viewed
  <2>4. \A ch \in Chunks : pv[k].pos[ch] \in Nat
    BY <2>1, MultipleFacts DEF Numbering
  <2> QED BY <1>1, <1>2, <2>1, <2>3, <2>4 DEF Later, ProducerView
<1>4. ASSUME NEW k \in 0 .. n
      PROVE  /\ ConsumerView(g, cv[k]) /\ cv[k] \in View /\ cv[k].era \in Nat
             /\ cv[0].era <= cv[k].era /\ cv[k].era <= g.tail
             /\ \A ch \in Chunks : cv[k].pos[ch] \in Nat /\ cv[k].pos[ch] <= g.cp[ch]
  <2>1. cv[k] \in View /\ cv[k].pos \in Numbering /\ cv[k].era \in Nat
    BY <1>1, <1>2, AView
  <2>2. 0 \in 0 .. n /\ 0 <= k
    OBVIOUS
  <2>3. Later(cv[0], cv[k])
    BY <1>1, <1>2, <2>2 DEF Viewed
  <2>4. \A ch \in Chunks : cv[k].pos[ch] \in Nat
    BY <2>1, MultipleFacts DEF Numbering
  <2> QED BY <1>1, <1>2, <2>1, <2>3, <2>4 DEF Later, ConsumerView
<1>5. /\ [pos |-> g.p, era |-> g.head] = pv[m] /\ [pos |-> g.cp, era |-> g.tail] = cv[n]
      /\ m \in 0 .. m /\ n \in 0 .. n
  BY <1>1, <1>2 DEF Viewed
<1>6. /\ ProducerView(g, at, [pos |-> g.p, era |-> g.head])
      /\ ConsumerView(g, [pos |-> g.cp, era |-> g.tail])
  BY <1>3, <1>4, <1>5
<1> QED BY <1>2, <1>3, <1>4, <1>5, <1>6

LEMMA ReleaseStep ==
  ASSUME NEW g, NEW at, NEW pv, NEW cv, Consistent(g, at, pv, cv), Release
  PROVE  Invariant'
<1>1. /\ instance \in Instances /\ Typed /\ g \in Ghosts /\ Places(g) /\ Order(g) /\ Chain(g, at)
      /\ ConsumerFrame(g, pv) /\ ProducerFrame(g, cv) /\ toProducer \in Seq(Store)
      /\ Viewed(toConsumer, pv, produceSeen, headSeen, g.p, g.head)
  BY Parts
<1>2. /\ cPc \in {"release", "releaseFirst"}
      /\ consumePos' = [consumePos EXCEPT ![cChunk] = cPos]
      /\ toProducer' = Append(toProducer, PositionStore(cChunk, cPos))
      /\ UNCHANGED <<instance, producePos, headChunk, tailChunk, toConsumer, caches,
                     seen, buffer, producer, history>>
  BY DEF Release
<1>3. /\ UNCHANGED <<producePosCache, consumePosCache, produceSeen, headSeen, consumeSeen,
                     tailSeen, pPc, pChunk, pPos, pLen, records, buffer, instance>>
  BY <1>2 DEF caches, seen, producer, history
<1>4. PICK k \in Chunks : k = cChunk
  BY <1>1 DEF Typed
<1>5. /\ cPos = Pos(g.c[k]) /\ \A ch \in Chunks : ch # k => g.c[ch] = g.cp[ch]
  BY <1>1, <1>2, <1>4 DEF ConsumerFrame
<1>6. PICK h \in Ghosts :
        /\ h.p = g.p /\ h.pc = g.pc /\ h.c = g.c /\ h.cp = g.c /\ h.cc = g.cc
        /\ h.head = g.head /\ h.newest = g.newest /\ h.tail = g.tail /\ h.behind = g.behind
  <2>1. [g EXCEPT !.cp = g.c] \in Ghosts
    BY <1>1 DEF Ghosts
  <2> QED BY <1>1, <2>1 DEF Ghosts
<1>7. PICK w \in View : w = [pos |-> g.c, era |-> g.tail]
  BY <1>1, Fields DEF View
<1>8. w.pos = g.c /\ w.era = g.tail
  BY <1>7
<1>9. /\ Chunks' = Chunks /\ Bytes' = Bytes /\ Numbers' = Numbers /\ ChunkSize' = ChunkSize
      /\ Store' = Store /\ Ghosts' = Ghosts /\ Firm' = Firm /\ ChunkCount' = ChunkCount
      /\ \A x : ChunkOf(x)' = ChunkOf(x) /\ Pos(x)' = Pos(x)
      /\ \A f : At(f)' = At(f)
  BY <1>2, SameSizes
<1>10. \A ch \in Chunks : /\ g.cp[ch] \in Nat /\ g.c[ch] \in Nat /\ g.p[ch] \in Nat
                          /\ g.cc[ch] \in Nat
                          /\ g.cp[ch] <= g.c[ch] /\ g.c[ch] <= g.p[ch] /\ g.cc[ch] <= g.c[ch]
  <2> SUFFICES ASSUME NEW ch \in Chunks
               PROVE  /\ g.cp[ch] \in Nat /\ g.c[ch] \in Nat /\ g.p[ch] \in Nat
                      /\ g.cc[ch] \in Nat
                      /\ g.cp[ch] <= g.c[ch] /\ g.c[ch] <= g.p[ch] /\ g.cc[ch] <= g.c[ch]
    OBVIOUS
  <2>1. /\ g.cp[ch] \in Nat /\ g.c[ch] \in Nat /\ g.p[ch] \in Nat /\ g.pc[ch] \in Nat
        /\ g.cc[ch] \in Nat
    BY Ends
  <2>2. /\ g.cp[ch] <= g.c[ch] /\ g.c[ch] <= g.pc[ch] /\ g.pc[ch] <= g.p[ch]
        /\ g.cc[ch] <= g.cp[ch]
    BY <1>1 DEF Order
  <2> QED BY <2>1, <2>2
<1>11. PICK s \in Store : /\ s = PositionStore(cChunk, cPos)
                          /\ Stored(s, [pos |-> g.cp, era |-> g.tail], w)
  <2>1. PositionStore(cChunk, cPos) \in Store
    BY <1>1 DEF Typed, PositionStore, Store
  <2>2. Stored(PositionStore(cChunk, cPos), [pos |-> g.cp, era |-> g.tail], w)
    BY <1>4, <1>5, <1>8 DEF PositionStore, Stored
  <2> QED BY <2>1, <2>2
<1>12. PICK u : /\ Viewed(toProducer, u, consumeSeen, tailSeen, w.pos, w.era)'
                /\ toProducer' \in Seq(Store) /\ u[0] = cv[0]
                /\ \A j \in 0 .. Len(toProducer') :
                     \/ j \in 0 .. Len(toProducer) /\ u[j] = cv[j]
                     \/ u[j] = w
  <2>1. g.tail <= w.era
    BY <1>8, Eras
  <2>2. UNCHANGED <<consumeSeen, tailSeen>> /\ instance' = instance
    BY <1>3
  <2>3. toProducer' = Append(toProducer, s)
    BY <1>2, <1>11
  <2>4. \A ch \in Chunks : g.cp[ch] <= w.pos[ch]
    BY <1>8, <1>10
  <2> QED BY <1>11, <2>1, <2>2, <2>3, <2>4, ConsumerStores
<1>13. Typed'
  <2>1. /\ cChunk' \in Chunks /\ cHead' \in Chunks /\ cPos' \in Bytes
    BY <1>1, Sizes DEF Release, ConsumerReturns, Typed, Chunks, Bytes
  <2> QED BY <1>1, <1>2, <1>3, <1>9, <1>12, <2>1 DEF Typed
<1>14. Places(h)'
  <2>1. consumePos' = At(g.c)
    BY <1>1, <1>2, <1>4, <1>5 DEF Places, At
  <2> QED BY <1>1, <1>2, <1>3, <1>6, <1>9, <2>1 DEF Places
<1>15. Order(h)'
  <2>1. \A ch \in Chunks : g.c[ch] <= g.c[ch]
    BY <1>10
  <2> QED BY <1>1, <1>6, <1>9, <1>10, <2>1 DEF Order
<1>16. Chain(h, at)'
  <2>1. \A ch \in Chunks : Boundary(g, at, ch, h.pc[ch])
    BY <1>1, <1>6 DEF Chain
  <2> QED BY <1>3, <1>6, <2>1, BufferSame, ChainKept
<1>17. \A j \in 0 .. Len(toConsumer') : ProducerView(h, at, pv[j])'
  <2> SUFFICES ASSUME NEW j \in 0 .. Len(toConsumer)
               PROVE  ProducerView(h, at, pv[j])'
    BY <1>2
  <2>1. ProducerView(g, at, pv[j])
    BY ViewEnds
  <2>2. \A ch \in Chunks : h.pc[ch] <= pv[j].pos[ch]
    BY <1>6, <2>1 DEF ProducerView
  <2> QED BY <1>3, <1>6, <2>1, <2>2, ProducerViewKept
<1>18. \A j \in 0 .. Len(toProducer') : ConsumerView(h, u[j])'
  <2> SUFFICES ASSUME NEW j \in 0 .. Len(toProducer')
               PROVE  ConsumerView(h, u[j])'
    OBVIOUS
  <2>1. CASE j \in 0 .. Len(toProducer) /\ u[j] = cv[j]
    <3>1. PICK v : v = cv[j]
      OBVIOUS
    <3>2. ConsumerView(g, v) /\ \A ch \in Chunks : v.pos[ch] \in Nat /\ v.pos[ch] <= g.cp[ch]
      BY <2>1, <3>1, ViewEnds
    <3>3. \A ch \in Chunks : v.pos[ch] <= g.c[ch]
      BY <1>10, <3>2
    <3>4. ConsumerView(h, v)'
      BY <1>6, <1>9, <3>2, <3>3 DEF ConsumerView
    <3> QED BY <2>1, <3>1, <3>4
  <2>2. CASE u[j] = w
    <3>1. ConsumerView(g, [pos |-> g.cp, era |-> g.tail])
      BY ViewEnds
    <3>2. \A e \in g.newest + 1 .. g.tail + ChunkCount - 1 : g.c[ChunkOf(e)] = g.p[ChunkOf(e)]
      <4> SUFFICES ASSUME NEW e \in g.newest + 1 .. g.tail + ChunkCount - 1
                   PROVE  g.c[ChunkOf(e)] = g.p[ChunkOf(e)]
        OBVIOUS
      <4>1. g.cp[ChunkOf(e)] = g.p[ChunkOf(e)]
        BY <3>1 DEF ConsumerView
      <4>2. e \in Nat
        BY Eras
      <4>3. ChunkOf(e) \in Chunks
        BY <1>1, <4>2, ChunkOfRange
      <4> QED BY <1>10, <4>1, <4>3
    <3>3. g.tail <= g.tail /\ g.newest < g.tail + ChunkCount
      BY Eras
    <3>4. \A ch \in Chunks : g.cc[ch] <= g.c[ch] /\ g.c[ch] <= g.c[ch]
      BY <1>10
    <3>5. ConsumerView(h, w)'
      BY <1>6, <1>8, <1>9, <3>2, <3>3, <3>4 DEF ConsumerView
    <3> QED BY <2>2, <3>5
  <2> QED BY <1>12, <2>1, <2>2
<1>19. Views(h, at, pv, u)'
  <2>1. Viewed(toConsumer, pv, produceSeen, headSeen, h.p, h.head)'
    <3>1. PICK q, sp, sc : q = toConsumer /\ sp = produceSeen /\ sc = headSeen
      OBVIOUS
    <3>2. Viewed(q, pv, sp, sc, g.p, g.head)'
      BY <1>1, <1>3, <3>1, ViewedSame
    <3>3. toConsumer' = q /\ produceSeen' = sp /\ headSeen' = sc
      BY <1>2, <1>3, <3>1
    <3> QED BY <1>6, <3>2, <3>3
  <2>2. Viewed(toProducer, u, consumeSeen, tailSeen, h.cp, h.tail)'
    BY <1>6, <1>8, <1>12
  <2> QED BY <1>17, <1>18, <2>1, <2>2 DEF Views
<1>20. ProducerFrame(h, u)'
  <2>1. cv[0].era <= u[0].era /\ u[0].era \in Nat
    BY <1>12, Eras
  <2>2. pPc = "publishHead" => h.c[pChunk] < h.p[pChunk]
    BY <1>1, <1>6 DEF ProducerFrame
  <2>3. UNCHANGED <<producePos, headChunk, pPc, pChunk, pPos, pLen>> /\ instance' = instance
    BY <1>2, <1>3
  <2>4. h.p = g.p /\ h.cc = g.cc /\ h.head = g.head /\ h.newest = g.newest
    BY <1>6
  <2>5. \A ch \in Chunks : \A z \in g.p[ch] .. g.cc[ch] + ChunkSize - 1 :
           buffer'[ch][Pos(z)] = buffer[ch][Pos(z)]
    BY <1>3, BufferSame
  <2> QED BY <2>1, <2>2, <2>3, <2>4, <2>5, ProducerFrameKept
<1>21. ConsumerFrame(h, pv)'
  <2>1. Emptied(h, pv)' <=> Emptied(g, pv)
    BY <1>6, <1>9 DEF Emptied
  <2>2. /\ g.behind => Emptied(g, pv) /\ (Firm => cPc = "releaseFirst")
        /\ cPc = "releaseFirst" => cChunk = ChunkOf(g.tail + 1) /\ g.behind
    BY <1>1, <1>2 DEF ConsumerFrame
  <2>3. CASE cPc = "release"
    <3>1. cPc' = "idle"
      BY <1>2, <2>3 DEF Release, ConsumerReturns
    <3> QED BY <1>6, <1>9, <2>1, <2>2, <2>3, <3>1 DEF ConsumerFrame
  <2>4. CASE cPc = "releaseFirst"
    <3>1. cPc' = "releaseTail" /\ UNCHANGED <<cChunk, cPos, cHead>>
      BY <1>2, <2>4 DEF Release
    <3> QED BY <1>6, <1>9, <2>1, <2>2, <2>4, <3>1 DEF ConsumerFrame
  <2> QED BY <1>2, <2>3, <2>4
<1> QED BY <1>6, <1>9, <1>13, <1>14, <1>15, <1>16, <1>19, <1>20, <1>21 DEF Invariant, Consistent

LEMMA ReleaseTailStep ==
  ASSUME NEW g, NEW at, NEW pv, NEW cv, Consistent(g, at, pv, cv), ReleaseTail
  PROVE  Invariant'
<1>1. /\ instance \in Instances /\ Typed /\ g \in Ghosts /\ Places(g) /\ Order(g) /\ Chain(g, at)
      /\ ConsumerFrame(g, pv) /\ ProducerFrame(g, cv) /\ toProducer \in Seq(Store)
      /\ Viewed(toConsumer, pv, produceSeen, headSeen, g.p, g.head)
  BY Parts
<1>2. /\ cPc = "releaseTail" /\ tailChunk' = cChunk
      /\ toProducer' = Append(toProducer, ChunkStore(cChunk)) /\ ConsumerReturns
      /\ UNCHANGED <<instance, producePos, consumePos, headChunk, toConsumer, caches,
                     seen, buffer, producer, history>>
  BY DEF ReleaseTail
<1>3. /\ UNCHANGED <<producePosCache, consumePosCache, produceSeen, headSeen, consumeSeen,
                     tailSeen, pPc, pChunk, pPos, pLen, records, buffer, instance>>
  BY <1>2 DEF caches, seen, producer, history
<1>4. /\ cChunk = ChunkOf(g.tail + 1) /\ Emptied(g, pv) /\ \A ch \in Chunks : g.c[ch] = g.cp[ch]
  BY <1>1, <1>2 DEF ConsumerFrame
<1>5. /\ g.tail \in Nat /\ g.tail + 1 \in Nat /\ pv[0].era \in Nat /\ g.head \in Nat
      /\ g.newest \in Nat /\ ChunkCount \in Nat /\ g.tail + 1 <= pv[0].era
      /\ pv[0].era <= g.head /\ g.newest < g.tail + ChunkCount
  <2>1. g.tail < pv[0].era
    BY <1>4 DEF Emptied
  <2> QED BY <2>1, Eras
<1>6. PICK h \in Ghosts :
        /\ h.p = g.p /\ h.pc = g.pc /\ h.c = g.c /\ h.cp = g.cp /\ h.cc = g.cc
        /\ h.head = g.head /\ h.newest = g.newest /\ h.tail = g.tail + 1 /\ h.behind = FALSE
  <2>1. [[g EXCEPT !.tail = g.tail + 1] EXCEPT !.behind = FALSE] \in Ghosts
    BY <1>1, <1>5 DEF Ghosts
  <2> QED BY <1>1, <2>1 DEF Ghosts
<1>7. PICK w \in View : w = [pos |-> g.cp, era |-> g.tail + 1]
  BY <1>1, <1>5, Fields DEF View
<1>8. w.pos = g.cp /\ w.era = g.tail + 1
  BY <1>7
<1>9. /\ Chunks' = Chunks /\ Bytes' = Bytes /\ Numbers' = Numbers /\ ChunkSize' = ChunkSize
      /\ Store' = Store /\ Ghosts' = Ghosts /\ Firm' = Firm /\ ChunkCount' = ChunkCount
      /\ \A x : ChunkOf(x)' = ChunkOf(x) /\ Pos(x)' = Pos(x)
      /\ \A f : At(f)' = At(f)
  BY <1>2, SameSizes
<1>10. PICK s \in Store : /\ s = ChunkStore(cChunk)
                          /\ Stored(s, [pos |-> g.cp, era |-> g.tail], w)
  <2>1. ChunkStore(cChunk) \in Store
    BY <1>1, Sizes DEF Typed, ChunkStore, Store, Bytes
  <2>2. Stored(ChunkStore(cChunk), [pos |-> g.cp, era |-> g.tail], w)
    BY <1>4, <1>8 DEF ChunkStore, Stored
  <2> QED BY <2>1, <2>2
<1>11. PICK u : /\ Viewed(toProducer, u, consumeSeen, tailSeen, w.pos, w.era)'
                /\ toProducer' \in Seq(Store) /\ u[0] = cv[0]
                /\ \A j \in 0 .. Len(toProducer') :
                     \/ j \in 0 .. Len(toProducer) /\ u[j] = cv[j]
                     \/ u[j] = w
  <2>1. g.tail <= w.era
    BY <1>5, <1>8
  <2>2. UNCHANGED <<consumeSeen, tailSeen>> /\ instance' = instance
    BY <1>3
  <2>3. toProducer' = Append(toProducer, s)
    BY <1>2, <1>10
  <2>4. \A ch \in Chunks : g.cp[ch] <= w.pos[ch]
    <3>1. \A ch \in Chunks : g.cp[ch] \in Nat
      BY Ends
    <3> QED BY <1>8, <3>1
  <2> QED BY <1>10, <2>1, <2>2, <2>3, <2>4, ConsumerStores
<1>12. Typed'
  <2>1. /\ cChunk' \in Chunks /\ cHead' \in Chunks /\ cPos' \in Bytes
    BY <1>1, <1>2, Sizes DEF ConsumerReturns, Typed, Chunks, Bytes
  <2> QED BY <1>1, <1>2, <1>3, <1>9, <1>11, <2>1 DEF Typed
<1>13. Places(h)'
  BY <1>1, <1>2, <1>3, <1>4, <1>6, <1>9 DEF Places
<1>14. Order(h)'
  <2>1. g.tail + 1 <= g.head
    BY <1>5
  <2> QED BY <1>1, <1>6, <1>9, <2>1 DEF Order
<1>15. Chain(h, at)'
  <2>1. \A ch \in Chunks : Boundary(g, at, ch, g.pc[ch])
    BY <1>1 DEF Chain
  <2>2. Chain(g, at)'
    BY <1>1, <1>3, <2>1, BufferSame, ChainKept
  <2>3. \A k \in 1 .. Len(records) : g.tail + 1 <= at[k].era
    <3> SUFFICES ASSUME NEW k \in 1 .. Len(records)
                 PROVE  g.tail + 1 <= at[k].era
      OBVIOUS
    <3>1. /\ at[k].era \in Nat /\ at[k].from \in Nat /\ at[k].to \in Nat
          /\ g.tail <= at[k].era /\ ChunkOf(at[k].era) \in Chunks
          /\ g.c[ChunkOf(at[k].era)] <= at[k].from /\ at[k].to <= g.p[ChunkOf(at[k].era)]
          /\ at[k].from < at[k].to
      BY ARecord
    <3>2. g.c[ChunkOf(at[k].era)] \in Nat /\ g.p[ChunkOf(at[k].era)] \in Nat
      BY <3>1, Ends
    <3>3. g.c[ChunkOf(at[k].era)] # g.p[ChunkOf(at[k].era)]
      BY <3>1, <3>2
    <3>4. at[k].era # g.tail
      BY <1>4, <3>3 DEF Emptied
    <3> QED BY <1>5, <3>1, <3>4
  <2>4. \A ch, x : Boundary(h, at, ch, x)' <=> Boundary(g, at, ch, x)'
    BY <1>6 DEF Boundary
  <2>5. \A t : Far(h, t)' = Far(g, t)'
    BY <1>6 DEF Far
  <2>6. Len(records') = Len(records)
    BY <1>3
  <2> QED BY <1>6, <2>2, <2>3, <2>4, <2>5, <2>6 DEF Chain
<1>16. \A j \in 0 .. Len(toConsumer') : ProducerView(h, at, pv[j])'
  <2> SUFFICES ASSUME NEW j \in 0 .. Len(toConsumer)
               PROVE  ProducerView(h, at, pv[j])'
    BY <1>2
  <2>1. PICK v : v = pv[j]
    OBVIOUS
  <2>2. ProducerView(g, at, v) /\ v.era \in Nat /\ pv[0].era <= v.era
    BY <2>1, ViewEnds
  <2>3. \A ch, x : Boundary(h, at, ch, x)' <=> Boundary(g, at, ch, x)
    BY <1>3, <1>6, BoundarySame
  <2>4. /\ \A ch \in Chunks : /\ h.pc[ch] <= v.pos[ch] /\ v.pos[ch] <= h.p[ch]
                              /\ Boundary(h, at, ch, v.pos[ch])'
        /\ v.era <= h.head
    BY <1>6, <2>2, <2>3 DEF ProducerView
  <2>5. h.tail <= v.era
    BY <1>5, <1>6, <2>2
  <2>6. \A e \in h.tail .. v.era - 1 : v.pos[ChunkOf(e)] = h.p[ChunkOf(e)]
    <3>1. \A e \in h.tail .. v.era - 1 : e \in g.tail .. v.era - 1
      BY <1>5, <1>6, <2>2
    <3> QED BY <1>6, <2>2, <3>1 DEF ProducerView
  <2>7. \A e \in h.tail + 1 .. v.era : h.c[ChunkOf(e)] < v.pos[ChunkOf(e)]
    <3>1. \A e \in h.tail + 1 .. v.era : e \in g.tail + 1 .. v.era /\ e # g.tail + 1
      BY <1>5, <1>6, <2>2
    <3> QED BY <1>6, <2>2, <3>1 DEF ProducerView
  <2>8. ProducerView(h, at, v)'
    BY <1>9, <2>4, <2>5, <2>6, <2>7 DEF ProducerView
  <2> QED BY <2>1, <2>8
<1>17. \A j \in 0 .. Len(toProducer') : ConsumerView(h, u[j])'
  <2> SUFFICES ASSUME NEW j \in 0 .. Len(toProducer')
               PROVE  ConsumerView(h, u[j])'
    OBVIOUS
  <2>1. CASE j \in 0 .. Len(toProducer) /\ u[j] = cv[j]
    <3>1. PICK v : v = cv[j]
      OBVIOUS
    <3>2. ConsumerView(g, v) /\ v.era \in Nat /\ v.era <= g.tail
      BY <2>1, <3>1, ViewEnds
    <3>3. v.era <= g.tail + 1
      BY <1>5, <3>2
    <3>4. ConsumerView(h, v)'
      BY <1>6, <1>9, <3>2, <3>3 DEF ConsumerView
    <3> QED BY <2>1, <3>1, <3>4
  <2>2. CASE u[j] = w
    <3>1. ConsumerView(g, [pos |-> g.cp, era |-> g.tail])
      BY ViewEnds
    <3>2. \A e \in g.newest + 1 .. g.tail + 1 + ChunkCount - 1 :
            g.cp[ChunkOf(e)] = g.p[ChunkOf(e)]
      <4> SUFFICES ASSUME NEW e \in g.newest + 1 .. g.tail + 1 + ChunkCount - 1
                   PROVE  g.cp[ChunkOf(e)] = g.p[ChunkOf(e)]
        OBVIOUS
      <4>1. CASE e \in g.newest + 1 .. g.tail + ChunkCount - 1
        BY <3>1, <4>1 DEF ConsumerView
      <4>2. CASE e = g.tail + ChunkCount
        <5>1. ChunkOf(e) = ChunkOf(g.tail) /\ ChunkOf(g.tail) \in Chunks
          BY <1>1, <1>5, <4>2, EraOnce, ChunkOfRange
        <5> QED BY <1>4, <5>1 DEF Emptied
      <4>3. e \in g.newest + 1 .. g.tail + ChunkCount - 1 \/ e = g.tail + ChunkCount
        <5>1. PICK n, t, m \in Nat : n = g.newest /\ t = g.tail /\ m = ChunkCount
          BY <1>5
        <5>2. e \in n + 1 .. t + 1 + m - 1
          BY <5>1
        <5>3. e \in n + 1 .. t + m - 1 \/ e = t + m
          BY <5>2
        <5> QED BY <5>1, <5>3
      <4> QED BY <4>1, <4>2, <4>3
    <3>3. g.tail + 1 <= g.tail + 1 /\ g.newest < g.tail + 1 + ChunkCount
      BY <1>5
    <3>4. \A ch \in Chunks : g.cc[ch] <= g.cp[ch] /\ g.cp[ch] <= g.cp[ch]
      <4>1. \A ch \in Chunks : g.cp[ch] \in Nat
        BY Ends
      <4> QED BY <1>1, <4>1 DEF Order
    <3>5. ConsumerView(h, w)'
      BY <1>6, <1>8, <1>9, <3>2, <3>3, <3>4 DEF ConsumerView
    <3> QED BY <2>2, <3>5
  <2> QED BY <1>11, <2>1, <2>2
<1>18. Views(h, at, pv, u)'
  <2>1. Viewed(toConsumer, pv, produceSeen, headSeen, h.p, h.head)'
    <3>1. PICK q, sp, sc : q = toConsumer /\ sp = produceSeen /\ sc = headSeen
      OBVIOUS
    <3>2. Viewed(q, pv, sp, sc, g.p, g.head)'
      BY <1>1, <1>3, <3>1, ViewedSame
    <3>3. toConsumer' = q /\ produceSeen' = sp /\ headSeen' = sc
      BY <1>2, <1>3, <3>1
    <3> QED BY <1>6, <3>2, <3>3
  <2>2. Viewed(toProducer, u, consumeSeen, tailSeen, h.cp, h.tail)'
    BY <1>6, <1>8, <1>11
  <2> QED BY <1>16, <1>17, <2>1, <2>2 DEF Views
<1>19. ProducerFrame(h, u)'
  <2>1. cv[0].era <= u[0].era /\ u[0].era \in Nat
    BY <1>11, Eras
  <2>2. pPc = "publishHead" => h.c[pChunk] < h.p[pChunk]
    BY <1>1, <1>6 DEF ProducerFrame
  <2>3. UNCHANGED <<producePos, headChunk, pPc, pChunk, pPos, pLen>> /\ instance' = instance
    BY <1>2, <1>3
  <2>4. h.p = g.p /\ h.cc = g.cc /\ h.head = g.head /\ h.newest = g.newest
    BY <1>6
  <2>5. \A ch \in Chunks : \A z \in g.p[ch] .. g.cc[ch] + ChunkSize - 1 :
           buffer'[ch][Pos(z)] = buffer[ch][Pos(z)]
    BY <1>3, BufferSame
  <2> QED BY <2>1, <2>2, <2>3, <2>4, <2>5, ProducerFrameKept
<1>20. ConsumerFrame(h, pv)'
  BY <1>2, <1>4, <1>6, <1>9 DEF ConsumerFrame, ConsumerReturns
<1> QED BY <1>6, <1>9, <1>12, <1>13, <1>14, <1>15, <1>18, <1>19, <1>20 DEF Invariant, Consistent

LEMMA PropagateProduceStep ==
  ASSUME NEW g, NEW at, NEW pv, NEW cv, Consistent(g, at, pv, cv), PropagateProduce
  PROVE  Invariant'
<1>1. /\ instance \in Instances /\ Typed /\ g \in Ghosts /\ Places(g) /\ Order(g) /\ Chain(g, at)
      /\ ConsumerFrame(g, pv) /\ ProducerFrame(g, cv) /\ toConsumer \in Seq(Store)
      /\ Viewed(toConsumer, pv, produceSeen, headSeen, g.p, g.head)
      /\ Viewed(toProducer, cv, consumeSeen, tailSeen, g.cp, g.tail)
  BY Parts
<1>2. /\ toConsumer # <<>> /\ toConsumer' = Tail(toConsumer)
      /\ UNCHANGED <<instance, producePos, consumePos, headChunk, tailChunk, toProducer,
                     caches, consumeSeen, tailSeen, buffer, producer, consumer, history>>
  BY DEF PropagateProduce
<1>3. UNCHANGED <<producePosCache, consumePosCache, pPc, pChunk, pPos, pLen, cPc, cChunk,
                  cPos, cHead, records>>
  BY <1>2 DEF caches, producer, consumer, history
<1>4. PICK s, q, sp, sc : /\ s = Head(toConsumer) /\ q = toConsumer
                          /\ sp = produceSeen' /\ sc = headSeen'
  OBVIOUS
<1>5. Shows(s, produceSeen, headSeen, sp, sc)
  BY <1>4 DEF PropagateProduce, Shows
<1>6. PICK u : u = Popped(toConsumer, pv)
  OBVIOUS
<1>7. PICK r \in Seq(Store) :
        /\ r = Tail(toConsumer) /\ Viewed(r, u, sp, sc, g.p, g.head)
        /\ Len(r) = Len(toConsumer) - 1
        /\ \A k \in 0 .. Len(toConsumer) - 1 :
             k + 1 \in 0 .. Len(toConsumer) /\ u[k] = pv[k + 1]
        /\ pv[0].era <= u[0].era /\ u[0].era \in Nat
  BY <1>1, <1>2, <1>4, <1>5, <1>6, ViewPopped
<1>8. /\ Chunks' = Chunks /\ Bytes' = Bytes /\ Numbers' = Numbers /\ ChunkSize' = ChunkSize
      /\ Store' = Store /\ Ghosts' = Ghosts
      /\ \A x : ChunkOf(x)' = ChunkOf(x)
      /\ \A f : At(f)' = At(f)
  BY <1>2, SameSizes
<1>9. Typed'
  BY <1>1, <1>2, <1>3, <1>7, <1>8 DEF Typed
<1>10. Places(g)' /\ Order(g)'
  BY <1>1, <1>2, <1>3, <1>8 DEF Places, Order
<1>11. Chain(g, at)'
  <2>1. \A ch \in Chunks : Boundary(g, at, ch, g.pc[ch])
    BY <1>1 DEF Chain
  <2> QED BY <1>1, <1>2, <1>3, <2>1, BufferSame, ChainKept
<1>12. \A j \in 0 .. Len(toConsumer') : ProducerView(g, at, u[j])'
  <2> SUFFICES ASSUME NEW j \in 0 .. Len(toConsumer) - 1
               PROVE  ProducerView(g, at, u[j])'
    BY <1>2, <1>7
  <2>1. j + 1 \in 0 .. Len(toConsumer) /\ u[j] = pv[j + 1]
    BY <1>7
  <2>2. ProducerView(g, at, u[j])
    BY <2>1, ViewEnds
  <2>3. \A ch \in Chunks : g.pc[ch] <= u[j].pos[ch]
    BY <2>2 DEF ProducerView
  <2> QED BY <1>2, <2>2, <2>3, ProducerViewKept
<1>13. \A j \in 0 .. Len(toProducer') : ConsumerView(g, cv[j])'
  <2> SUFFICES ASSUME NEW j \in 0 .. Len(toProducer)
               PROVE  ConsumerView(g, cv[j])'
    BY <1>2
  <2>1. ConsumerView(g, cv[j])
    BY ViewEnds
  <2>2. \A ch \in Chunks : g.cc[ch] <= cv[j].pos[ch]
    BY <2>1 DEF ConsumerView
  <2> QED BY <1>2, <2>1, <2>2, ConsumerViewKept
<1>14. Views(g, at, u, cv)'
  <2>1. Viewed(toConsumer, u, produceSeen, headSeen, g.p, g.head)'
    <3>1. Viewed(r, u, sp, sc, g.p, g.head)'
      BY <1>2, <1>7, ViewedSame
    <3>2. toConsumer' = r /\ produceSeen' = sp /\ headSeen' = sc
      BY <1>2, <1>4, <1>7
    <3> QED BY <3>1, <3>2
  <2>2. Viewed(toProducer, cv, consumeSeen, tailSeen, g.cp, g.tail)'
    <3>1. PICK t, tp, tc : t = toProducer /\ tp = consumeSeen /\ tc = tailSeen
      OBVIOUS
    <3>2. Viewed(t, cv, tp, tc, g.cp, g.tail)'
      BY <1>1, <1>2, <3>1, ViewedSame
    <3>3. toProducer' = t /\ consumeSeen' = tp /\ tailSeen' = tc
      BY <1>2, <3>1
    <3> QED BY <3>2, <3>3
  <2> QED BY <1>12, <1>13, <2>1, <2>2 DEF Views
<1>15. ProducerFrame(g, cv)'
  <2>1. cv[0].era <= cv[0].era /\ cv[0].era \in Nat
    BY Eras
  <2>2. pPc = "publishHead" => g.c[pChunk] < g.p[pChunk]
    BY <1>1 DEF ProducerFrame
  <2> QED BY <1>2, <1>3, <2>1, <2>2, BufferSame, ProducerFrameKept
<1>16. ConsumerFrame(g, u)'
  BY <1>2, <1>3, <1>7, BufferSame, ConsumerFrameKept
<1> QED BY <1>1, <1>8, <1>9, <1>10, <1>11, <1>14, <1>15, <1>16 DEF Invariant, Consistent

LEMMA PropagateConsumeStep ==
  ASSUME NEW g, NEW at, NEW pv, NEW cv, Consistent(g, at, pv, cv), PropagateConsume
  PROVE  Invariant'
<1>1. /\ instance \in Instances /\ Typed /\ g \in Ghosts /\ Places(g) /\ Order(g) /\ Chain(g, at)
      /\ ConsumerFrame(g, pv) /\ ProducerFrame(g, cv) /\ toProducer \in Seq(Store)
      /\ Viewed(toConsumer, pv, produceSeen, headSeen, g.p, g.head)
      /\ Viewed(toProducer, cv, consumeSeen, tailSeen, g.cp, g.tail)
  BY Parts
<1>2. /\ toProducer # <<>> /\ toProducer' = Tail(toProducer)
      /\ UNCHANGED <<instance, producePos, consumePos, headChunk, tailChunk, toConsumer,
                     caches, produceSeen, headSeen, buffer, producer, consumer, history>>
  BY DEF PropagateConsume
<1>3. UNCHANGED <<producePosCache, consumePosCache, pPc, pChunk, pPos, pLen, cPc, cChunk,
                  cPos, cHead, records>>
  BY <1>2 DEF caches, producer, consumer, history
<1>4. PICK s, q, sp, sc : /\ s = Head(toProducer) /\ q = toProducer
                          /\ sp = consumeSeen' /\ sc = tailSeen'
  OBVIOUS
<1>5. Shows(s, consumeSeen, tailSeen, sp, sc)
  BY <1>4 DEF PropagateConsume, Shows
<1>6. PICK u : u = Popped(toProducer, cv)
  OBVIOUS
<1>7. PICK r \in Seq(Store) :
        /\ r = Tail(toProducer) /\ Viewed(r, u, sp, sc, g.cp, g.tail)
        /\ Len(r) = Len(toProducer) - 1
        /\ \A k \in 0 .. Len(toProducer) - 1 :
             k + 1 \in 0 .. Len(toProducer) /\ u[k] = cv[k + 1]
        /\ cv[0].era <= u[0].era /\ u[0].era \in Nat
  BY <1>1, <1>2, <1>4, <1>5, <1>6, ViewPopped
<1>8. /\ Chunks' = Chunks /\ Bytes' = Bytes /\ Numbers' = Numbers /\ ChunkSize' = ChunkSize
      /\ Store' = Store /\ Ghosts' = Ghosts
      /\ \A x : ChunkOf(x)' = ChunkOf(x)
      /\ \A f : At(f)' = At(f)
  BY <1>2, SameSizes
<1>9. Typed'
  BY <1>1, <1>2, <1>3, <1>7, <1>8 DEF Typed
<1>10. Places(g)' /\ Order(g)'
  BY <1>1, <1>2, <1>3, <1>8 DEF Places, Order
<1>11. Chain(g, at)'
  <2>1. \A ch \in Chunks : Boundary(g, at, ch, g.pc[ch])
    BY <1>1 DEF Chain
  <2> QED BY <1>1, <1>2, <1>3, <2>1, BufferSame, ChainKept
<1>12. \A j \in 0 .. Len(toConsumer') : ProducerView(g, at, pv[j])'
  <2> SUFFICES ASSUME NEW j \in 0 .. Len(toConsumer)
               PROVE  ProducerView(g, at, pv[j])'
    BY <1>2
  <2>1. ProducerView(g, at, pv[j])
    BY ViewEnds
  <2>2. \A ch \in Chunks : g.pc[ch] <= pv[j].pos[ch]
    BY <2>1 DEF ProducerView
  <2> QED BY <1>2, <2>1, <2>2, ProducerViewKept
<1>13. \A j \in 0 .. Len(toProducer') : ConsumerView(g, u[j])'
  <2> SUFFICES ASSUME NEW j \in 0 .. Len(toProducer) - 1
               PROVE  ConsumerView(g, u[j])'
    BY <1>2, <1>7
  <2>1. j + 1 \in 0 .. Len(toProducer) /\ u[j] = cv[j + 1]
    BY <1>7
  <2>2. ConsumerView(g, u[j])
    BY <2>1, ViewEnds
  <2>3. \A ch \in Chunks : g.cc[ch] <= u[j].pos[ch]
    BY <2>2 DEF ConsumerView
  <2> QED BY <1>2, <2>2, <2>3, ConsumerViewKept
<1>14. Views(g, at, pv, u)'
  <2>1. Viewed(toProducer, u, consumeSeen, tailSeen, g.cp, g.tail)'
    <3>1. Viewed(r, u, sp, sc, g.cp, g.tail)'
      BY <1>2, <1>7, ViewedSame
    <3>2. toProducer' = r /\ consumeSeen' = sp /\ tailSeen' = sc
      BY <1>2, <1>4, <1>7
    <3> QED BY <3>1, <3>2
  <2>2. Viewed(toConsumer, pv, produceSeen, headSeen, g.p, g.head)'
    <3>1. PICK t, tp, tc : t = toConsumer /\ tp = produceSeen /\ tc = headSeen
      OBVIOUS
    <3>2. Viewed(t, pv, tp, tc, g.p, g.head)'
      BY <1>1, <1>2, <3>1, ViewedSame
    <3>3. toConsumer' = t /\ produceSeen' = tp /\ headSeen' = tc
      BY <1>2, <3>1
    <3> QED BY <3>2, <3>3
  <2> QED BY <1>12, <1>13, <2>1, <2>2 DEF Views
<1>15. ProducerFrame(g, u)'
  <2>1. pPc = "publishHead" => g.c[pChunk] < g.p[pChunk]
    BY <1>1 DEF ProducerFrame
  <2> QED BY <1>2, <1>3, <1>7, <2>1, BufferSame, ProducerFrameKept
<1>16. ConsumerFrame(g, pv)'
  <2>1. pv[0].era <= pv[0].era /\ pv[0].era \in Nat
    BY Eras
  <2> QED BY <1>2, <1>3, <2>1, BufferSame, ConsumerFrameKept
<1> QED BY <1>1, <1>8, <1>9, <1>10, <1>11, <1>14, <1>15, <1>16 DEF Invariant, Consistent

LEMMA PublishHeadStep ==
  ASSUME NEW g, NEW at, NEW pv, NEW cv, Consistent(g, at, pv, cv), PublishHead
  PROVE  Invariant'
<1>1. /\ instance \in Instances /\ Typed /\ g \in Ghosts /\ Places(g) /\ Order(g) /\ Chain(g, at)
      /\ ConsumerFrame(g, pv) /\ ProducerFrame(g, cv) /\ toConsumer \in Seq(Store)
      /\ Viewed(toProducer, cv, consumeSeen, tailSeen, g.cp, g.tail)
  BY Parts
<1>2. /\ pPc = "publishHead" /\ headChunk' = pChunk
      /\ toConsumer' = Append(toConsumer, ChunkStore(pChunk)) /\ ProducerReturns
      /\ UNCHANGED <<instance, producePos, consumePos, tailChunk, toProducer, caches,
                     seen, buffer, consumer, history>>
  BY DEF PublishHead
<1>3. /\ UNCHANGED <<producePosCache, consumePosCache, produceSeen, headSeen, consumeSeen,
                     tailSeen, cPc, cChunk, cPos, cHead, records, buffer, instance>>
  BY <1>2 DEF caches, seen, consumer, history
<1>4. /\ pChunk = ChunkOf(g.head + 1) /\ g.c[pChunk] < g.p[pChunk] /\ g.newest = g.head + 1
  BY <1>1, <1>2 DEF ProducerFrame
<1>5. /\ g.tail \in Nat /\ g.head \in Nat /\ g.head + 1 \in Nat /\ g.tail <= g.head
      /\ pv[0].era \in Nat /\ pv[0].era <= g.head
  BY Eras
<1>6. PICK h \in Ghosts :
        /\ h.p = g.p /\ h.pc = g.pc /\ h.c = g.c /\ h.cp = g.cp /\ h.cc = g.cc
        /\ h.head = g.head + 1 /\ h.newest = g.newest /\ h.tail = g.tail /\ h.behind = g.behind
  <2>1. [g EXCEPT !.head = g.head + 1] \in Ghosts
    BY <1>1, <1>5 DEF Ghosts
  <2> QED BY <1>1, <2>1 DEF Ghosts
<1>7. PICK w \in View : w = [pos |-> g.p, era |-> g.head + 1]
  BY <1>1, <1>5, Fields DEF View
<1>8. w.pos = g.p /\ w.era = g.head + 1
  BY <1>7
<1>9. /\ Chunks' = Chunks /\ Bytes' = Bytes /\ Numbers' = Numbers /\ ChunkSize' = ChunkSize
      /\ Store' = Store /\ Ghosts' = Ghosts /\ Firm' = Firm /\ ChunkCount' = ChunkCount
      /\ \A x : ChunkOf(x)' = ChunkOf(x) /\ Pos(x)' = Pos(x)
      /\ \A f : At(f)' = At(f)
  BY <1>2, SameSizes
<1>10. PICK s \in Store : /\ s = ChunkStore(pChunk)
                          /\ Stored(s, [pos |-> g.p, era |-> g.head], w)
  <2>1. ChunkStore(pChunk) \in Store
    BY <1>1, Sizes DEF Typed, ChunkStore, Store, Bytes
  <2>2. Stored(ChunkStore(pChunk), [pos |-> g.p, era |-> g.head], w)
    BY <1>4, <1>8 DEF ChunkStore, Stored
  <2> QED BY <2>1, <2>2
<1>11. PICK u : /\ Viewed(toConsumer, u, produceSeen, headSeen, w.pos, w.era)'
                /\ toConsumer' \in Seq(Store) /\ u[0] = pv[0]
                /\ \A j \in 0 .. Len(toConsumer') :
                     \/ j \in 0 .. Len(toConsumer) /\ u[j] = pv[j]
                     \/ u[j] = w
  <2>1. g.head <= w.era
    BY <1>5, <1>8
  <2>2. UNCHANGED <<produceSeen, headSeen>> /\ instance' = instance
    BY <1>3
  <2>3. toConsumer' = Append(toConsumer, s)
    BY <1>2, <1>10
  <2>4. \A ch \in Chunks : g.p[ch] <= w.pos[ch]
    <3>1. \A ch \in Chunks : g.p[ch] \in Nat
      BY Ends
    <3> QED BY <1>8, <3>1
  <2> QED BY <1>10, <2>1, <2>2, <2>3, <2>4, ProducerStores
<1>12. Typed'
  <2>1. /\ pChunk' \in Chunks /\ pPos' \in Bytes /\ pLen' \in Lengths \cup {0}
    BY <1>1, <1>2, Sizes DEF ProducerReturns, Typed, Chunks, Bytes
  <2> QED BY <1>1, <1>2, <1>3, <1>9, <1>11, <2>1 DEF Typed
<1>13. Places(h)'
  BY <1>1, <1>2, <1>3, <1>4, <1>6, <1>9 DEF Places
<1>14. Order(h)'
  <2>1. g.tail <= g.head + 1 /\ g.head + 1 <= g.newest
    BY <1>4, <1>5
  <2> QED BY <1>1, <1>6, <1>9, <2>1 DEF Order
<1>15. Chain(h, at)'
  <2>1. \A ch \in Chunks : Boundary(g, at, ch, h.pc[ch])
    BY <1>1, <1>6 DEF Chain
  <2> QED BY <1>3, <1>6, <2>1, BufferSame, ChainKept
<1>16. \A j \in 0 .. Len(toConsumer') : ProducerView(h, at, u[j])'
  <2> SUFFICES ASSUME NEW j \in 0 .. Len(toConsumer')
               PROVE  ProducerView(h, at, u[j])'
    OBVIOUS
  <2>0. \A ch, x : Boundary(h, at, ch, x)' <=> Boundary(g, at, ch, x)
    BY <1>3, <1>6, BoundarySame
  <2>1. CASE j \in 0 .. Len(toConsumer) /\ u[j] = pv[j]
    <3>1. PICK v : v = pv[j]
      OBVIOUS
    <3>2. ProducerView(g, at, v) /\ v.era \in Nat /\ v.era <= g.head
      BY <2>1, <3>1, ViewEnds
    <3>3. v.era <= g.head + 1
      BY <1>5, <3>2
    <3>4. ProducerView(h, at, v)'
      BY <1>6, <1>9, <2>0, <3>2, <3>3 DEF ProducerView
    <3> QED BY <2>1, <3>1, <3>4
  <2>2. CASE u[j] = w
    <3>1. ProducerView(g, at, [pos |-> g.p, era |-> g.head])
      BY ViewEnds
    <3>2. \A ch \in Chunks : g.pc[ch] <= g.p[ch] /\ g.p[ch] <= g.p[ch]
                             /\ Boundary(g, at, ch, g.p[ch])
      BY <3>1 DEF ProducerView
    <3>3. \A e \in g.tail + 1 .. g.head + 1 : \/ g.c[ChunkOf(e)] < g.p[ChunkOf(e)]
                                              \/ g.behind /\ e = g.tail + 1
      <4>1. \A e \in g.tail + 1 .. g.head + 1 : e \in g.tail + 1 .. g.head \/ e = g.head + 1
        BY <1>5
      <4>2. \A e \in g.tail + 1 .. g.head : \/ g.c[ChunkOf(e)] < g.p[ChunkOf(e)]
                                            \/ g.behind /\ e = g.tail + 1
        BY <3>1 DEF ProducerView
      <4> QED BY <1>4, <4>1, <4>2
    <3>4. g.tail <= g.head + 1 /\ g.head + 1 <= g.head + 1
      BY <1>5
    <3>5. ProducerView(h, at, w)'
      BY <1>6, <1>8, <1>9, <2>0, <3>2, <3>3, <3>4 DEF ProducerView
    <3> QED BY <2>2, <3>5
  <2> QED BY <1>11, <2>1, <2>2
<1>17. \A j \in 0 .. Len(toProducer') : ConsumerView(h, cv[j])'
  <2> SUFFICES ASSUME NEW j \in 0 .. Len(toProducer)
               PROVE  ConsumerView(h, cv[j])'
    BY <1>2
  <2>1. ConsumerView(g, cv[j])
    BY ViewEnds
  <2>2. \A ch \in Chunks : h.cc[ch] <= cv[j].pos[ch]
    BY <1>6, <2>1 DEF ConsumerView
  <2> QED BY <1>3, <1>6, <2>1, <2>2, ConsumerViewKept
<1>18. Views(h, at, u, cv)'
  <2>1. Viewed(toProducer, cv, consumeSeen, tailSeen, h.cp, h.tail)'
    <3>1. PICK q, sp, sc : q = toProducer /\ sp = consumeSeen /\ sc = tailSeen
      OBVIOUS
    <3>2. Viewed(q, cv, sp, sc, g.cp, g.tail)'
      BY <1>1, <1>3, <3>1, ViewedSame
    <3>3. toProducer' = q /\ consumeSeen' = sp /\ tailSeen' = sc
      BY <1>2, <1>3, <3>1
    <3> QED BY <1>6, <3>2, <3>3
  <2>2. Viewed(toConsumer, u, produceSeen, headSeen, h.p, h.head)'
    BY <1>6, <1>8, <1>11
  <2> QED BY <1>16, <1>17, <2>1, <2>2 DEF Views
<1>19. ProducerFrame(h, cv)'
  BY <1>2, <1>4, <1>6 DEF ProducerFrame, ProducerReturns
<1>20. ConsumerFrame(h, u)'
  <2>1. pv[0].era <= u[0].era /\ u[0].era \in Nat
    BY <1>5, <1>11
  <2>2. UNCHANGED <<consumePos, tailChunk, cPc, cChunk, cPos, cHead>> /\ instance' = instance
    BY <1>2, <1>3
  <2>3. /\ h.c = g.c /\ h.cp = g.cp /\ h.pc = g.pc /\ h.tail = g.tail /\ h.behind = g.behind
        /\ g.tail < pv[0].era => h.p[ChunkOf(g.tail)] = g.p[ChunkOf(g.tail)]
    BY <1>6
  <2>4. \A ch \in Chunks : \A z \in g.c[ch] .. g.p[ch] - 1 :
           buffer'[ch][Pos(z)] = buffer[ch][Pos(z)]
    BY <1>3, BufferSame
  <2> QED BY <2>1, <2>2, <2>3, <2>4, ConsumerFrameKept
<1> QED BY <1>6, <1>9, <1>12, <1>13, <1>14, <1>15, <1>18, <1>19, <1>20 DEF Invariant, Consistent

\* A record published: how the ends change, and where it is.
Published(g, h, ch, e, y) ==
  /\ h \in Ghosts /\ h.pc = g.pc /\ h.c = g.c /\ h.cp = g.cp /\ h.cc = g.cc
  /\ h.head = g.head /\ h.tail = g.tail /\ h.behind = g.behind /\ h.newest = e
  /\ h.p[ch] = y /\ \A d \in Chunks \ {ch} : h.p[d] = g.p[d]

Longer(g, at, ch, e, y) ==
  [k \in 1 .. Len(records) + 1 |->
     IF k <= Len(records) THEN at[k] ELSE [era |-> e, from |-> g.p[ch], to |-> y]]

LEMMA PublishedExists ==
  ASSUME NEW g \in Ghosts, NEW ch \in Chunks, NEW e \in Nat, NEW y \in Multiple
  PROVE  \E h : Published(g, h, ch, e, y)
<1>1. PICK f \in Numbering : f = [g.p EXCEPT ![ch] = y]
  BY Fields DEF Numbering
<1>2. PICK h \in Ghosts :
        /\ h.p = f /\ h.pc = g.pc /\ h.cp = g.cp /\ h.cc = g.cc /\ h.c = g.c
        /\ h.head = g.head /\ h.newest = e /\ h.tail = g.tail /\ h.behind = g.behind
  <2>1. [[g EXCEPT !.p = f] EXCEPT !.newest = e] \in Ghosts
    BY <1>1 DEF Ghosts
  <2> QED BY <1>1, <2>1 DEF Ghosts
<1>3. f[ch] = y /\ \A d \in Chunks \ {ch} : f[d] = g.p[d]
  BY <1>1, Fields DEF Numbering
<1> QED BY <1>2, <1>3 DEF Published

\* Where the producer publishes: in its chunk or in the next.
LEMMA Publishing ==
  ASSUME NEW g, NEW at, NEW pv, NEW cv, Consistent(g, at, pv, cv), Publish
  PROVE  \E e \in Nat, y \in Multiple :
           /\ pChunk = ChunkOf(e) /\ pChunk \in Chunks
           /\ e = g.head \/ e = g.head + 1
           /\ pChunk = headChunk <=> e = g.head
           /\ g.newest = g.head /\ e < cv[0].era + ChunkCount /\ e < g.tail + ChunkCount
           /\ Link(pChunk, g.p[pChunk], y, RecordAt(pChunk, pPos, pLen))
           /\ g.p[pChunk] < y /\ g.p[pChunk] + Align <= y /\ y < g.cc[pChunk] + ChunkSize
           /\ Advance(pPos, pLen) = Pos(y) /\ RecordAt(pChunk, pPos, pLen) \in Whole
<1>1. /\ instance \in Instances /\ ProducerFrame(g, cv) /\ pPc = "publish" /\ pChunk \in Chunks
  BY Parts DEF Publish, Typed
<1>2. /\ pChunk = headChunk \/ (pChunk = ChunkOf(g.head + 1) /\ MayEnter(g, cv))
      /\ pPos = Pos(Start(pChunk, g.p[pChunk])) /\ pLen \in Fitting /\ g.newest = g.head
      /\ \E d \in Elem : RecordAt(pChunk, pPos, pLen).data = {d}
  BY <1>1 DEF ProducerFrame
<1>3. PICK y \in Multiple : /\ Link(pChunk, g.p[pChunk], y, RecordAt(pChunk, pPos, pLen))
                            /\ y < g.cc[pChunk] + ChunkSize
  BY <1>1 DEF ProducerFrame
<1>4. PICK r : r = RecordAt(pChunk, pPos, pLen)
  OBVIOUS
<1>4a. PICK x \in Multiple : x = g.p[pChunk]
  BY <1>1, Ends
<1>5. r.length = pLen
  BY <1>4 DEF RecordAt
<1>6. x < y /\ x + Align <= y /\ Advance(Pos(Start(pChunk, x)), r.length) = Pos(y)
  <2>1. Link(pChunk, x, y, r)
    BY <1>3, <1>4, <1>4a
  <2> QED BY <1>1, <2>1, LinkFacts
<1>7. Advance(pPos, pLen) = Pos(y)
  BY <1>2, <1>4, <1>4a, <1>5, <1>6
<1>8. r \in Whole
  <2>1. pLen \in Lengths
    BY <1>1, <1>2, FittingFacts
  <2> QED BY <1>2, <1>4, <2>1 DEF Whole, RecordAt
<1>9. /\ g.head \in Nat /\ g.tail \in Nat /\ cv[0].era \in Nat /\ cv[0].era <= g.tail
      /\ ChunkCount \in Nat /\ g.newest < cv[0].era + ChunkCount
      /\ headChunk = ChunkOf(g.head)
  BY Eras, Shown
<1>10. CASE pChunk = headChunk
  <2>1. g.head < cv[0].era + ChunkCount /\ g.head < g.tail + ChunkCount
    BY <1>2, <1>9
  <2> QED BY <1>1, <1>2, <1>3, <1>4, <1>4a, <1>6, <1>7, <1>8, <1>9, <1>10, <2>1
<1>11. CASE pChunk # headChunk
  <2>1. /\ g.head + 1 \in Nat /\ g.head + 1 < cv[0].era + ChunkCount
        /\ g.head + 1 < g.tail + ChunkCount /\ g.head + 1 # g.head
        /\ pChunk = ChunkOf(g.head + 1)
    BY <1>2, <1>9, <1>11 DEF MayEnter
  <2> QED BY <1>1, <1>2, <1>3, <1>4, <1>4a, <1>6, <1>7, <1>8, <1>9, <1>11, <2>1
<1> QED BY <1>10, <1>11

\* Places of records are where they were, and so are the ends.
LEMMA BoundaryPublished ==
  ASSUME NEW g, NEW at, NEW pv, NEW cv, Consistent(g, at, pv, cv), instance' = instance,
         NEW e \in Nat, NEW y, NEW h, NEW k \in Chunks, k = ChunkOf(e),
         Published(g, h, k, e, y), NEW bt, bt = Longer(g, at, k, e, y),
         NEW ch \in Chunks, NEW z, Boundary(g, at, ch, z) \/ z = h.p[ch]
  PROVE  Boundary(h, bt, ch, z)'
<1>1. \A d : ChunkOf(d)' = ChunkOf(d)
  BY SameSizes
<1>2. DOMAIN at = 1 .. Len(records) /\ Len(records) \in Nat
  BY Parts DEF Chain
<1>3. bt = [j \in 1 .. Len(records) + 1 |->
              IF j <= Len(records) THEN at[j] ELSE [era |-> e, from |-> g.p[k], to |-> y]]
  BY DEF Longer
<1>4. PICK n \in Nat : n = Len(records)
  BY <1>2
<1>5. /\ DOMAIN bt = 1 .. n + 1 /\ n + 1 \in 1 .. n + 1
      /\ \A j \in 1 .. n : j \in 1 .. n + 1 /\ bt[j] = at[j]
      /\ bt[n + 1].era = e /\ bt[n + 1].from = g.p[k]
  BY <1>3, <1>4
<1>6. CASE z = h.p[ch]
  BY <1>6 DEF Boundary
<1>7. CASE z = g.p[ch] /\ ch # k
  BY <1>7 DEF Boundary, Published
<1>8. CASE z = g.p[ch] /\ ch = k
  <2>1. ChunkOf(bt[n + 1].era)' = ch /\ bt[n + 1].from = z
    BY <1>1, <1>5, <1>8
  <2> QED BY <1>5, <2>1 DEF Boundary
<1>9. CASE \E j \in DOMAIN at : ChunkOf(at[j].era) = ch /\ at[j].from = z
  <2>1. PICK j \in 1 .. n : ChunkOf(at[j].era) = ch /\ at[j].from = z
    BY <1>2, <1>4, <1>9
  <2>2. j \in DOMAIN bt /\ ChunkOf(bt[j].era)' = ch /\ bt[j].from = z
    BY <1>1, <1>5, <2>1
  <2> QED BY <2>2 DEF Boundary
<1> QED BY <1>6, <1>7, <1>8, <1>9 DEF Boundary

\* A record takes one Align at least of what is left of its chunk.
LEMMA FarBelow ==
  ASSUME NEW g, NEW at, NEW pv, NEW cv, Consistent(g, at, pv, cv), NEW k \in 1 .. Len(records)
  PROVE  /\ Far(g, at[k]) \in Int /\ at[k].era * ChunkSize \in Int
         /\ at[k].era * ChunkSize <= Far(g, at[k])
         /\ Far(g, at[k]) + Align <= at[k].era * ChunkSize + ChunkSize
<1>1. instance \in Instances
  BY Parts
<1>2. PICK ch \in Chunks : ch = ChunkOf(at[k].era)
  BY ARecord
<1>3. PICK a \in Nat, x \in Nat, y \in Nat : a = at[k].era /\ x = at[k].from /\ y = at[k].to
  BY ARecord
<1>4. x + Align <= y /\ y <= g.p[ch] /\ g.c[ch] <= x
  BY <1>2, <1>3, ARecord
<1>5. /\ g.p[ch] \in Nat /\ g.c[ch] \in Nat /\ g.cc[ch] \in Nat /\ ChunkSize \in Nat
      /\ Align \in Nat /\ g.cc[ch] <= g.c[ch] /\ g.p[ch] < g.cc[ch] + ChunkSize
  <2>1. /\ g.p[ch] \in Nat /\ g.c[ch] \in Nat /\ g.cc[ch] \in Nat
        /\ g.cp[ch] \in Nat /\ cv[0].pos[ch] \in Nat
        /\ g.cc[ch] <= cv[0].pos[ch] /\ cv[0].pos[ch] <= g.cp[ch] /\ g.cp[ch] <= g.c[ch]
        /\ g.p[ch] < g.cc[ch] + ChunkSize
    BY Ends
  <2> QED BY <1>1, <2>1, Naturals
<1>6. PICK A \in Int : A = at[k].era * ChunkSize
  BY <1>3, <1>5
<1>7. Far(g, at[k]) = A + (x - g.c[ch])
  BY <1>2, <1>3, <1>6 DEF Far
<1>8. 0 <= x - g.c[ch] /\ (x - g.c[ch]) + Align <= ChunkSize /\ x - g.c[ch] \in Int
  <2>1. \A m, n, b, c, p \in Nat :
          x + n <= y /\ y <= p /\ c <= x /\ b <= c /\ p < b + m
          => 0 <= x - c /\ (x - c) + n <= m /\ x - c \in Int
    OBVIOUS
  <2> QED BY <1>4, <1>5, <2>1
<1>9. \A f, c, m, n \in Int : c >= 0 /\ c + n <= m /\ f = A + c
        => A <= f /\ f + n <= A + m
  OBVIOUS
<1>10. ChunkSize \in Int /\ Align \in Int /\ Far(g, at[k]) \in Int
  BY <1>5, <1>7, <1>8
<1> QED BY <1>6, <1>7, <1>8, <1>9, <1>10

\* An era more is a chunk more.
LEMMA EraProduct ==
  ASSUME instance \in Instances, NEW a \in Nat, NEW e \in Nat
  PROVE  /\ a * ChunkSize \in Int /\ e * ChunkSize \in Int
         /\ a < e => a * ChunkSize + ChunkSize <= e * ChunkSize
<1>1. PICK s \in Nat : s = ChunkSize
  BY Naturals
<1>2. a * s \in Int /\ e * s \in Int
  OBVIOUS
<1>3. ASSUME a < e
      PROVE  a * s + s <= e * s
  <2>1. PICK d \in Nat : e = a + 1 + d
    <3>1. e - a - 1 \in Nat /\ e = a + 1 + (e - a - 1)
      BY <1>3
    <3> QED BY <3>1
  <2>2. e * s = a * s + s + d * s
    BY <2>1
  <2>3. d * s \in Nat
    OBVIOUS
  <2> QED BY <1>2, <2>2, <2>3
<1> QED BY <1>1, <1>2, <1>3

\* A record published is behind every other.
LEMMA FarPublished ==
  ASSUME NEW g, NEW at, NEW pv, NEW cv, Consistent(g, at, pv, cv), Publish,
         NEW e \in Nat, NEW k \in Chunks, k = ChunkOf(e), g.newest <= e,
         NEW j \in 1 .. Len(records)
  PROVE  /\ \/ at[j].era < e
            \/ at[j].era = e /\ at[j].to <= g.p[k]
         /\ Far(g, at[j]) + Align <= e * ChunkSize + (g.p[k] - g.c[k])
<1>1. instance \in Instances
  BY Parts
<1>2. PICK a \in Nat, x \in Nat, y \in Nat : a = at[j].era /\ x = at[j].from /\ y = at[j].to
  BY ARecord
<1>3. /\ a <= e /\ (a = e => y <= g.p[k])
  <2>1. a <= g.newest /\ g.newest \in Nat /\ y <= g.p[ChunkOf(a)]
    BY <1>2, ARecord, Eras
  <2> QED BY <2>1
<1>4. g.p[k] \in Nat /\ g.c[k] \in Nat /\ g.c[k] <= g.p[k] /\ Align \in Nat /\ ChunkSize \in Nat
  <2>1. /\ g.p[k] \in Nat /\ g.c[k] \in Nat /\ g.pc[k] \in Nat /\ pv[0].pos[k] \in Nat
        /\ g.c[k] <= g.pc[k] /\ g.pc[k] <= pv[0].pos[k] /\ pv[0].pos[k] <= g.p[k]
    BY Ends
  <2> QED BY <1>1, <2>1, Naturals
<1>5. PICK A \in Int, E \in Int : A = a * ChunkSize /\ E = e * ChunkSize
                                 /\ (a < e => A + ChunkSize <= E)
  BY <1>1, EraProduct
<1>6. PICK f \in Int : f = Far(g, at[j]) /\ f + Align <= A + ChunkSize
  BY <1>2, <1>5, FarBelow
<1>7. f + Align <= E + (g.p[k] - g.c[k])
  <2>1. CASE a < e
    <3>1. f + Align <= E
      <4>1. A + ChunkSize <= E
        BY <1>5, <2>1
      <4>2. f + Align <= A + ChunkSize
        BY <1>6
      <4>3. Align \in Int /\ ChunkSize \in Int
        BY <1>4
      <4> QED BY <4>1, <4>2, <4>3
    <3>2. g.p[k] - g.c[k] \in Nat
      BY <1>4
    <3>3. PICK d \in Nat, n \in Nat : d = g.p[k] - g.c[k] /\ n = Align
      BY <1>4, <3>2
    <3>4. f + n <= E + d
      BY <3>1, <3>3
    <3> QED BY <3>3, <3>4
  <2>2. CASE a = e
    <3>1. f = A + (x - g.c[k]) /\ A = E
      BY <1>2, <1>5, <1>6, <2>2 DEF Far
    <3>2. x + Align <= y
      BY <1>2, ARecord
    <3>3. PICK c \in Nat, p \in Nat, n \in Nat : c = g.c[k] /\ p = g.p[k] /\ n = Align
      BY <1>4
    <3>4. y <= p /\ x + n <= y /\ f = A + (x - c)
      BY <1>3, <2>2, <3>1, <3>2, <3>3
    <3>5. f + n <= A + (p - c)
      BY <3>4
    <3> QED BY <3>1, <3>3, <3>5
  <2> QED BY <1>3, <2>1, <2>2
<1> QED BY <1>2, <1>3, <1>5, <1>6, <1>7

LEMMA PublishedChain ==
  ASSUME NEW g, NEW at, NEW pv, NEW cv, Consistent(g, at, pv, cv), Publish,
         NEW k \in Chunks, k = pChunk, NEW e \in Nat, k = ChunkOf(e),
         g.newest <= e, e < g.tail + ChunkCount,
         NEW y \in Multiple, g.p[k] < y,
         Link(k, g.p[k], y, RecordAt(pChunk, pPos, pLen)),
         NEW h, Published(g, h, k, e, y), NEW bt, bt = Longer(g, at, k, e, y)
  PROVE  Chain(h, bt)'
<1>1. /\ instance \in Instances /\ Chain(g, at) /\ g \in Ghosts /\ records \in Seq(Whole)
      /\ g.tail \in Nat /\ g.newest \in Nat /\ g.tail <= g.newest
  BY Parts, Eras
<1>2. /\ instance' = instance /\ buffer' = buffer
      /\ records' = Append(records, RecordAt(pChunk, pPos, pLen))
  BY DEF Publish
<1>3. PICK n \in Nat : n = Len(records)
  BY <1>1
<1>3a. PICK r : r = RecordAt(pChunk, pPos, pLen)
  OBVIOUS
<1>4. Len(records') = n + 1 /\ records'[n + 1] = r /\ \A j \in 1 .. n : records'[j] = records[j]
  BY <1>1, <1>2, <1>3, <1>3a
<1>5. PICK x \in Multiple, c \in Nat, z \in Nat :
         /\ x = g.p[k] /\ c = g.c[k] /\ z = g.p[k] /\ x \in Nat /\ y \in Nat /\ c <= x
  <2>1. /\ g.p[k] \in Multiple /\ g.p[k] \in Nat /\ g.c[k] \in Nat /\ g.pc[k] \in Nat
        /\ pv[0].pos[k] \in Nat
        /\ g.c[k] <= g.pc[k] /\ g.pc[k] <= pv[0].pos[k] /\ pv[0].pos[k] <= g.p[k]
    BY Ends
  <2> QED BY <2>1, MultipleFacts
<1>6. PICK s \in Span : s = [era |-> e, from |-> x, to |-> y]
  BY DEF Span
<1>7. /\ bt = [j \in 1 .. n + 1 |-> IF j <= n THEN at[j] ELSE s]
  BY <1>3, <1>5, <1>6 DEF Longer
<1>8. /\ bt[n + 1] = s /\ \A j \in 1 .. n : bt[j] = at[j]
      /\ s.era = e /\ s.from = x /\ s.to = y
  BY <1>6, <1>7
<1>9. /\ Chunks' = Chunks /\ ChunkSize' = ChunkSize /\ \A d : ChunkOf(d)' = ChunkOf(d)
  BY <1>2, SameSizes
<1>10. /\ h.pc = g.pc /\ h.c = g.c /\ h.tail = g.tail /\ h.newest = e
       /\ h.p[k] = y /\ \A d \in Chunks \ {k} : h.p[d] = g.p[d]
  BY DEF Published
<1>11. \A j \in 1 .. n + 1 : j \in 1 .. n \/ j = n + 1
  OBVIOUS
<1>12. bt \in [1 .. Len(records') -> Span]
  <2>1. at \in [1 .. n -> Span]
    BY <1>1, <1>3 DEF Chain
  <2> QED BY <1>4, <1>7, <1>11, <2>1
<1>13. \A ch \in Chunks : \A w : Boundary(g, at, ch, w) \/ w = h.p[ch] => Boundary(h, bt, ch, w)'
  BY <1>2, BoundaryPublished
<1>14. ASSUME NEW j \in 1 .. n
       PROVE  /\ g.tail <= at[j].era /\ at[j].era <= e
              /\ g.c[ChunkOf(at[j].era)] <= at[j].from
              /\ at[j].to <= h.p[ChunkOf(at[j].era)]
              /\ Link(ChunkOf(at[j].era), at[j].from, at[j].to, records[j])'
              /\ Boundary(h, bt, ChunkOf(at[j].era), at[j].to)'
  <2>1. j \in 1 .. Len(records)
    BY <1>3
  <2>2. PICK d \in Chunks : d = ChunkOf(at[j].era)
    BY <2>1, ARecord
  <2>3. /\ g.tail <= at[j].era /\ at[j].era <= e
    BY <1>1, <2>1, ARecord
  <2>4. /\ g.c[d] <= at[j].from /\ at[j].to \in Nat /\ at[j].to <= g.p[d] /\ g.p[d] \in Nat
        /\ Boundary(g, at, d, at[j].to)
    BY <2>1, <2>2, ARecord, Ends
  <2>5. at[j].to <= h.p[d]
    <3>1. CASE d = k
      BY <1>5, <1>10, <2>4, <3>1
    <3>2. CASE d # k
      BY <1>10, <2>4, <3>2
    <3> QED BY <3>1, <3>2
  <2>6. PICK q : q = records[j] /\ q = records'[j]
    BY <1>4
  <2>7. Link(ChunkOf(at[j].era), at[j].from, at[j].to, q)'
    BY <1>2, <2>1, <2>6, BufferSame, LinksKept
  <2>8. Boundary(h, bt, d, at[j].to)'
    BY <1>13, <2>4
  <2>9. Link(ChunkOf(at[j].era), at[j].from, at[j].to, records[j])'
    BY <2>6, <2>7
  <2>10. Boundary(h, bt, ChunkOf(at[j].era), at[j].to)'
    BY <1>9, <2>2, <2>8
  <2> QED BY <2>2, <2>3, <2>4, <2>5, <2>9, <2>10
<1>15. Link(k, x, y, r)'
  <2>1. \A w \in x .. y - 1 : buffer'[k][Pos(w)] = buffer[k][Pos(w)]
    BY <1>2
  <2>2. Link(k, x, y, r)
    BY <1>3a, <1>5
  <2> QED BY <1>1, <1>2, <2>1, <2>2, LinkKept
<1>16. ASSUME NEW j \in 1 .. n + 1
       PROVE  /\ h.tail <= bt[j].era /\ bt[j].era <= h.newest
              /\ h.c[ChunkOf(bt[j].era)'] <= bt[j].from /\ bt[j].to <= h.p[ChunkOf(bt[j].era)']
              /\ Link(ChunkOf(bt[j].era), bt[j].from, bt[j].to, records[j])'
              /\ Boundary(h, bt, ChunkOf(bt[j].era), bt[j].to)'
  <2>1. CASE j \in 1 .. n
    BY <1>8, <1>9, <1>10, <1>14, <2>1
  <2>2. CASE j = n + 1
    <3>1. bt[j] = s /\ ChunkOf(bt[j].era)' = k
      BY <1>8, <1>9, <2>2
    <3>2. Link(ChunkOf(bt[j].era), bt[j].from, bt[j].to, records[j])'
      BY <1>4, <1>8, <1>15, <2>2, <3>1
    <3>3. Boundary(h, bt, ChunkOf(bt[j].era), bt[j].to)'
      BY <1>8, <1>10, <1>13, <3>1
    <3>4. g.tail <= e /\ e <= e /\ g.c[k] <= x /\ y <= h.p[k]
      BY <1>1, <1>5, <1>10
    <3> QED BY <1>8, <1>10, <3>1, <3>2, <3>3, <3>4
  <2> QED BY <1>11, <2>1, <2>2
<1>17. ASSUME NEW i \in 1 .. n + 1, NEW j \in 1 .. n + 1, i < j
       PROVE  \/ bt[i].era < bt[j].era
              \/ bt[i].era = bt[j].era /\ bt[i].to <= bt[j].from
  <2>1. i \in 1 .. n /\ i \in 1 .. Len(records)
    BY <1>3, <1>17
  <2>2. CASE j \in 1 .. n
    <3>1. j \in 1 .. Len(records)
      BY <1>3, <2>2
    <3> QED BY <1>8, <1>17, <2>1, <2>2, <3>1, RecordsInOrder
  <2>3. CASE j = n + 1
    BY <1>5, <1>8, <2>1, <2>3, FarPublished
  <2> QED BY <1>11, <2>2, <2>3
<1>18. /\ \A q : Far(h, q)' = Far(g, q)
       /\ Far(g, s) = e * ChunkSize + (g.p[k] - g.c[k])
  BY <1>5, <1>8, <1>9, <1>10 DEF Far
<1>19. ASSUME NEW i \in 1 .. n + 1, NEW j \in 1 .. n + 1, i <= j
       PROVE  Far(g, bt[i]) + (j - i) * Align <= Far(g, bt[j])
  <2>1. PICK l \in Nat : l = Align
    BY <1>1, Naturals
  <2>2. CASE j \in 1 .. n
    <3>1. i \in 1 .. n /\ i \in 1 .. Len(records) /\ j \in 1 .. Len(records)
      BY <1>3, <1>19, <2>2
    <3>2. Far(g, at[i]) + (j - i) * Align <= Far(g, at[j])
      BY <1>1, <1>19, <3>1 DEF Chain
    <3> QED BY <1>8, <2>2, <3>1, <3>2
  <2>3. CASE i = n + 1 /\ j = n + 1
    <3>1. Far(g, s) \in Int
      <4>1. e * ChunkSize \in Int
        BY <1>1, EraProduct
      <4> QED BY <1>5, <1>18, <4>1
    <3>2. (j - i) * Align = 0
      BY <2>1, <2>3
    <3> QED BY <1>8, <2>3, <3>1, <3>2
  <2>4. CASE i \in 1 .. n /\ j = n + 1
    <3>1. i \in 1 .. Len(records) /\ n \in 1 .. n /\ n \in 1 .. Len(records) /\ i <= n
      BY <1>3, <2>4
    <3>2. Far(g, at[i]) + (n - i) * Align <= Far(g, at[n])
      BY <1>1, <3>1 DEF Chain
    <3>3. Far(g, at[n]) + Align <= Far(g, s)
      BY <1>18, <3>1, FarPublished
    <3>4. Far(g, at[i]) \in Int /\ Far(g, at[n]) \in Int /\ Far(g, s) \in Int
      <4>1. e * ChunkSize \in Int
        BY <1>1, EraProduct
      <4>2. Far(g, s) \in Int
        BY <1>5, <1>18, <4>1
      <4> QED BY <3>1, <4>2, FarBelow
    <3>5. (j - i) * Align = (n - i) * Align + Align /\ (n - i) * Align \in Int
      <4>1. n - i \in Int /\ j - i = (n - i) + 1 /\ Align \in Nat \ {0}
        BY <1>1, <2>4, <3>1, Sizes
      <4> QED BY <4>1, OneMore
    <3>6. \A a, b, f, d, m \in Int : a + d <= b /\ b + m <= f => a + (d + m) <= f
      OBVIOUS
    <3>7. Align \in Int
      BY <2>1
    <3>8. Far(g, at[i]) + ((n - i) * Align + Align) <= Far(g, s)
      BY <3>2, <3>3, <3>4, <3>5, <3>6, <3>7
    <3> QED BY <1>8, <2>4, <3>5, <3>8
  <2> QED BY <1>11, <1>19, <2>2, <2>3, <2>4
<1>20. \A ch \in Chunks : Boundary(h, bt, ch, h.c[ch])' /\ Boundary(h, bt, ch, h.pc[ch])'
  <2>1. \A ch \in Chunks : Boundary(g, at, ch, g.c[ch]) /\ Boundary(g, at, ch, g.pc[ch])
    BY <1>1 DEF Chain
  <2> QED BY <1>10, <1>13, <2>1
<1>21. \A i, j \in 1 .. n + 1 : i <= j =>
         Far(h, bt[i])' + (j - i) * Align <= Far(h, bt[j])'
  BY <1>18, <1>19
<1> QED BY <1>4, <1>9, <1>12, <1>16, <1>17, <1>20, <1>21 DEF Chain

\* The other thread's views of the ends, once a record is published.
LEMMA PublishedViews ==
  ASSUME NEW g, NEW at, NEW pv, NEW cv, Consistent(g, at, pv, cv), Publish,
         NEW k \in Chunks, k = pChunk, NEW e \in Nat, k = ChunkOf(e),
         e = g.head \/ e = g.head + 1, g.newest = g.head,
         e < cv[0].era + ChunkCount, e < g.tail + ChunkCount,
         NEW y \in Multiple, g.p[k] < y, Advance(pPos, pLen) = Pos(y),
         NEW h, Published(g, h, k, e, y), NEW bt, bt = Longer(g, at, k, e, y)
  PROVE  \E u : Views(h, bt, u, cv)' /\ toConsumer' \in Seq(Store) /\ u[0] = pv[0]
<1>1. /\ instance \in Instances /\ g \in Ghosts
      /\ Viewed(toProducer, cv, consumeSeen, tailSeen, g.cp, g.tail)
  BY Parts
<1>2. /\ instance' = instance
      /\ toConsumer' = Append(toConsumer, PositionStore(k, Pos(y)))
      /\ UNCHANGED <<toProducer, produceSeen, headSeen, consumeSeen, tailSeen>>
  BY DEF Publish, seen
<1>3. /\ h.pc = g.pc /\ h.c = g.c /\ h.cp = g.cp /\ h.cc = g.cc /\ h.tail = g.tail
      /\ h.head = g.head /\ h.behind = g.behind /\ h.newest = e /\ h \in Ghosts
      /\ h.p[k] = y /\ \A d \in Chunks \ {k} : h.p[d] = g.p[d]
  BY DEF Published
<1>4. /\ Chunks' = Chunks /\ ChunkCount' = ChunkCount /\ Store' = Store
      /\ \A d : ChunkOf(d)' = ChunkOf(d)
  BY <1>2, SameSizes
<1>5. /\ g.tail \in Nat /\ g.head \in Nat /\ cv[0].era \in Nat /\ ChunkCount \in Nat
      /\ g.tail <= g.head /\ cv[0].era <= g.tail /\ g.head <= e
  BY Eras
<1>6. \A ch \in Chunks : g.p[ch] \in Nat /\ h.p[ch] \in Nat /\ g.p[ch] <= h.p[ch]
  <2>1. y \in Nat
    BY MultipleFacts
  <2>2. \A ch \in Chunks : g.p[ch] \in Nat
    BY Ends
  <2> QED BY <1>3, <2>1, <2>2
<1>7. PICK w \in View : w = [pos |-> h.p, era |-> g.head]
  BY <1>3, <1>5, Fields DEF View
<1>8. w.pos = h.p /\ w.era = g.head
  BY <1>7
<1>9. PICK s \in Store : /\ s = PositionStore(k, Pos(y))
                         /\ Stored(s, [pos |-> g.p, era |-> g.head], w)
  <2>1. y \in Nat
    BY MultipleFacts
  <2>2. PositionStore(k, Pos(y)) \in Store
    BY <1>1, <2>1, PosRange DEF PositionStore, Store
  <2>3. Stored(PositionStore(k, Pos(y)), [pos |-> g.p, era |-> g.head], w)
    BY <1>3, <1>8 DEF PositionStore, Stored
  <2> QED BY <2>2, <2>3
<1>10. PICK u : /\ Viewed(toConsumer, u, produceSeen, headSeen, w.pos, w.era)'
                /\ toConsumer' \in Seq(Store) /\ u[0] = pv[0]
                /\ \A j \in 0 .. Len(toConsumer') :
                     \/ j \in 0 .. Len(toConsumer) /\ u[j] = pv[j]
                     \/ u[j] = w
  <2>1. g.head <= w.era
    BY <1>5, <1>8
  <2>2. UNCHANGED <<produceSeen, headSeen>> /\ instance' = instance
    BY <1>2
  <2>3. toConsumer' = Append(toConsumer, s)
    BY <1>2, <1>9
  <2>4. \A ch \in Chunks : g.p[ch] <= w.pos[ch]
    BY <1>6, <1>8
  <2> QED BY <1>9, <2>1, <2>2, <2>3, <2>4, ProducerStores
<1>11. \A ch \in Chunks : \A z : Boundary(g, at, ch, z) \/ z = h.p[ch] => Boundary(h, bt, ch, z)'
  BY <1>2, BoundaryPublished
<1>12. \A j \in 0 .. Len(toConsumer') : ProducerView(h, bt, u[j])'
  <2> SUFFICES ASSUME NEW j \in 0 .. Len(toConsumer')
               PROVE  ProducerView(h, bt, u[j])'
    OBVIOUS
  <2>1. CASE j \in 0 .. Len(toConsumer) /\ u[j] = pv[j]
    <3>1. PICK v : v = pv[j]
      OBVIOUS
    <3>2. /\ ProducerView(g, at, v) /\ v.era \in Nat /\ v.era <= g.head
          /\ \A ch \in Chunks : v.pos[ch] \in Nat
      BY <2>1, <3>1, ViewEnds
    <3>3. \A d \in g.tail .. v.era - 1 : v.pos[ChunkOf(d)] = h.p[ChunkOf(d)]
      <4> SUFFICES ASSUME NEW d \in g.tail .. v.era - 1
                   PROVE  v.pos[ChunkOf(d)] = h.p[ChunkOf(d)]
        OBVIOUS
      <4>1. d \in Nat /\ d < e /\ e < d + ChunkCount
        BY <1>5, <3>2
      <4>2. ChunkOf(d) # k /\ ChunkOf(d) \in Chunks
        BY <1>1, <4>1, EraApart, ChunkOfRange
      <4>3. v.pos[ChunkOf(d)] = g.p[ChunkOf(d)]
        BY <3>2 DEF ProducerView
      <4> QED BY <1>3, <4>2, <4>3
    <3>4. \A ch \in Chunks : /\ g.pc[ch] <= v.pos[ch] /\ v.pos[ch] <= h.p[ch]
                             /\ Boundary(h, bt, ch, v.pos[ch])'
      <4> SUFFICES ASSUME NEW ch \in Chunks
                   PROVE  /\ g.pc[ch] <= v.pos[ch] /\ v.pos[ch] <= h.p[ch]
                          /\ Boundary(h, bt, ch, v.pos[ch])'
        OBVIOUS
      <4>1. g.pc[ch] <= v.pos[ch] /\ v.pos[ch] <= g.p[ch] /\ Boundary(g, at, ch, v.pos[ch])
        BY <3>2 DEF ProducerView
      <4>2. v.pos[ch] <= h.p[ch]
        BY <1>6, <3>2, <4>1
      <4> QED BY <1>11, <4>1, <4>2
    <3>5. /\ g.tail <= v.era /\ v.era <= g.head
          /\ \A d \in g.tail + 1 .. v.era : \/ g.c[ChunkOf(d)] < v.pos[ChunkOf(d)]
                                            \/ g.behind /\ d = g.tail + 1
      BY <3>2 DEF ProducerView
    <3>6. ProducerView(h, bt, v)'
      BY <1>3, <1>4, <3>3, <3>4, <3>5 DEF ProducerView
    <3> QED BY <2>1, <3>1, <3>6
  <2>2. CASE u[j] = w
    <3>1. ProducerView(g, at, [pos |-> g.p, era |-> g.head])
      BY ViewEnds
    <3>2. \A ch \in Chunks : /\ g.pc[ch] <= h.p[ch] /\ h.p[ch] <= h.p[ch]
                             /\ Boundary(h, bt, ch, h.p[ch])'
      <4>1. \A ch \in Chunks : g.pc[ch] <= g.p[ch] /\ g.pc[ch] \in Nat
        BY <3>1, Ends DEF ProducerView
      <4> QED BY <1>6, <1>11, <4>1
    <3>3. \A d \in g.tail + 1 .. g.head : \/ g.c[ChunkOf(d)] < h.p[ChunkOf(d)]
                                          \/ g.behind /\ d = g.tail + 1
      <4> SUFFICES ASSUME NEW d \in g.tail + 1 .. g.head
                   PROVE  \/ g.c[ChunkOf(d)] < h.p[ChunkOf(d)]
                          \/ g.behind /\ d = g.tail + 1
        OBVIOUS
      <4>1. \/ g.c[ChunkOf(d)] < g.p[ChunkOf(d)]
            \/ g.behind /\ d = g.tail + 1
        BY <3>1 DEF ProducerView
      <4>2. ChunkOf(d) \in Chunks
        BY <1>1, <1>5, ChunkOfRange
      <4>3. g.c[ChunkOf(d)] \in Nat
        BY <4>2, Ends
      <4> QED BY <1>6, <4>1, <4>2, <4>3
    <3>4. g.tail <= g.head /\ g.head <= g.head
      BY <1>5
    <3>5. ProducerView(h, bt, w)'
      BY <1>3, <1>4, <1>8, <3>2, <3>3, <3>4 DEF ProducerView
    <3> QED BY <2>2, <3>5
  <2> QED BY <1>10, <2>1, <2>2
<1>13. \A j \in 0 .. Len(toProducer') : ConsumerView(h, cv[j])'
  <2> SUFFICES ASSUME NEW j \in 0 .. Len(toProducer)
               PROVE  ConsumerView(h, cv[j])'
    BY <1>2
  <2>1. PICK v : v = cv[j]
    OBVIOUS
  <2>2. /\ ConsumerView(g, v) /\ v.era \in Nat /\ cv[0].era <= v.era /\ v.era <= g.tail
    BY <2>1, ViewEnds
  <2>3. e < v.era + ChunkCount
    BY <1>5, <2>2
  <2>4. \A d \in e + 1 .. v.era + ChunkCount - 1 : v.pos[ChunkOf(d)] = h.p[ChunkOf(d)]
    <3> SUFFICES ASSUME NEW d \in e + 1 .. v.era + ChunkCount - 1
                 PROVE  v.pos[ChunkOf(d)] = h.p[ChunkOf(d)]
      OBVIOUS
    <3>1. d \in Nat /\ e < d /\ d < e + ChunkCount /\ d \in g.newest + 1 .. v.era + ChunkCount - 1
      BY <1>5, <2>2
    <3>2. ChunkOf(d) # k /\ ChunkOf(d) \in Chunks
      BY <1>1, <3>1, EraApart, ChunkOfRange
    <3>3. v.pos[ChunkOf(d)] = g.p[ChunkOf(d)]
      BY <2>2, <3>1 DEF ConsumerView
    <3> QED BY <1>3, <3>2, <3>3
  <2>5. (\A ch \in Chunks : g.cc[ch] <= v.pos[ch] /\ v.pos[ch] <= g.cp[ch]) /\ v.era <= g.tail
    BY <2>2 DEF ConsumerView
  <2>6. ConsumerView(h, v)'
    BY <1>3, <1>4, <2>3, <2>4, <2>5 DEF ConsumerView
  <2> QED BY <2>1, <2>6
<1>14. Viewed(toProducer, cv, consumeSeen, tailSeen, h.cp, h.tail)'
  <2>1. PICK q, sp, sc : q = toProducer /\ sp = consumeSeen /\ sc = tailSeen
    OBVIOUS
  <2>2. Viewed(q, cv, sp, sc, g.cp, g.tail)'
    BY <1>1, <1>2, <2>1, ViewedSame
  <2>3. toProducer' = q /\ consumeSeen' = sp /\ tailSeen' = sc
    BY <1>2, <2>1
  <2> QED BY <1>3, <2>2, <2>3
<1>15. Viewed(toConsumer, u, produceSeen, headSeen, h.p, h.head)'
  BY <1>3, <1>8, <1>10
<1>16. toConsumer' \in Seq(Store)
  BY <1>10
<1> QED BY <1>10, <1>12, <1>13, <1>14, <1>15, <1>16 DEF Views

LEMMA PublishStep ==
  ASSUME NEW g, NEW at, NEW pv, NEW cv, Consistent(g, at, pv, cv), Publish
  PROVE  Invariant'
<1>1. /\ instance \in Instances /\ Typed /\ g \in Ghosts /\ Places(g) /\ Order(g) /\ Chain(g, at)
      /\ ConsumerFrame(g, pv) /\ ProducerFrame(g, cv)
  BY Parts
<1>2. PICK e \in Nat, y \in Multiple :
        /\ pChunk = ChunkOf(e) /\ pChunk \in Chunks
        /\ e = g.head \/ e = g.head + 1
        /\ pChunk = headChunk <=> e = g.head
        /\ g.newest = g.head /\ e < cv[0].era + ChunkCount /\ e < g.tail + ChunkCount
        /\ Link(pChunk, g.p[pChunk], y, RecordAt(pChunk, pPos, pLen))
        /\ g.p[pChunk] < y /\ g.p[pChunk] + Align <= y /\ y < g.cc[pChunk] + ChunkSize
        /\ Advance(pPos, pLen) = Pos(y) /\ RecordAt(pChunk, pPos, pLen) \in Whole
  BY Publishing
<1>3. PICK k \in Chunks : k = pChunk /\ k = ChunkOf(e)
  BY <1>2
<1>4. PICK h : Published(g, h, k, e, y)
  BY <1>1, PublishedExists
<1>5. PICK bt : bt = Longer(g, at, k, e, y)
  OBVIOUS
<1>6. /\ h.pc = g.pc /\ h.c = g.c /\ h.cp = g.cp /\ h.cc = g.cc /\ h.tail = g.tail
      /\ h.head = g.head /\ h.behind = g.behind /\ h.newest = e /\ h \in Ghosts
      /\ h.p[k] = y /\ \A d \in Chunks \ {k} : h.p[d] = g.p[d]
  BY <1>4 DEF Published
<1>7. /\ pPc = "publish" /\ UNCHANGED <<instance, buffer>>
      /\ producePos' = [producePos EXCEPT ![k] = Pos(y)]
      /\ records' = Append(records, RecordAt(pChunk, pPos, pLen))
      /\ UNCHANGED <<instance, consumePos, headChunk, tailChunk, toProducer, caches,
                     seen, buffer, consumer, out>>
  BY <1>2, <1>3 DEF Publish
<1>8. UNCHANGED <<producePosCache, consumePosCache, cPc, cChunk, cPos, cHead>>
  BY <1>7 DEF caches, consumer
<1>9. /\ Chunks' = Chunks /\ Bytes' = Bytes /\ Numbers' = Numbers /\ ChunkSize' = ChunkSize
      /\ Store' = Store /\ Ghosts' = Ghosts /\ Fitting' = Fitting
      /\ \A d : ChunkOf(d)' = ChunkOf(d) /\ Pos(d)' = Pos(d)
      /\ \A f : At(f)' = At(f)
  BY <1>7, SameSizes
<1>10. /\ g.newest <= e /\ g.tail \in Nat /\ g.head \in Nat /\ g.tail <= g.head /\ g.head <= e
       /\ pv[0].era \in Nat /\ pv[0].era <= g.head /\ g.head + 1 \in Nat /\ g.head + 1 # g.head
  BY <1>2, Eras
<1>11. Link(k, g.p[k], y, RecordAt(pChunk, pPos, pLen))
  BY <1>2, <1>3
<1>12. g.p[k] < y /\ y < g.cc[k] + ChunkSize
  BY <1>2, <1>3
<1>13. Chain(h, bt)'
  BY <1>2, <1>3, <1>4, <1>5, <1>10, <1>11, <1>12, PublishedChain
<1>14. PICK u : Views(h, bt, u, cv)' /\ toConsumer' \in Seq(Store) /\ u[0] = pv[0]
  BY <1>2, <1>3, <1>4, <1>5, <1>12, PublishedViews
<1>15. Typed'
  <2>1. /\ pChunk' \in Chunks /\ pPos' \in Bytes /\ pLen' \in Lengths \cup {0}
    BY <1>1, Sizes DEF ProducerReturns, Typed, Chunks, Bytes, Publish
  <2>2. records' \in Seq(Whole)
    BY <1>1, <1>2, <1>7 DEF Typed
  <2> QED BY <1>1, <1>7, <1>8, <1>9, <1>14, <2>1, <2>2 DEF Typed
<1>16. Places(h)'
  <2>1. producePos' = At(h.p)
    BY <1>1, <1>6, <1>7 DEF Places, At
  <2> QED BY <1>1, <1>6, <1>7, <1>8, <1>9, <2>1 DEF Places
<1>17. Order(h)'
  <2> SUFFICES ASSUME NEW ch \in Chunks
               PROVE  g.pc[ch] <= h.p[ch] /\ h.p[ch] < g.cc[ch] + ChunkSize
    BY <1>1, <1>6, <1>9, <1>10 DEF Order
  <2>1. g.pc[ch] <= g.p[ch] /\ g.p[ch] < g.cc[ch] + ChunkSize
    BY <1>1 DEF Order
  <2>2. CASE ch # k
    BY <1>6, <2>1, <2>2
  <2>3. CASE ch = k
    <3>1. g.pc[ch] \in Nat /\ g.p[ch] \in Nat /\ y \in Nat
      BY Ends, MultipleFacts
    <3>2. g.pc[ch] <= y
      BY <1>12, <2>1, <2>3, <3>1
    <3> QED BY <1>6, <1>12, <2>3, <3>2
  <2> QED BY <2>2, <2>3
<1>18. ProducerFrame(h, cv)'
  <2>1. CASE pChunk = headChunk /\ ProducerReturns
    <3>1. pPc' = "idle" /\ e = g.head
      BY <1>2, <2>1 DEF ProducerReturns
    <3> QED BY <1>6, <3>1 DEF ProducerFrame
  <2>2. CASE /\ pChunk # headChunk /\ pPc' = "publishHead"
             /\ UNCHANGED <<pChunk, pPos, pLen>>
    <3>1. e = g.head + 1
      BY <1>2, <2>2
    <3>2. h.c[k] < h.p[k]
      <4>1. /\ g.c[k] \in Nat /\ g.pc[k] \in Nat /\ pv[0].pos[k] \in Nat /\ g.p[k] \in Nat
            /\ g.c[k] <= g.pc[k] /\ g.pc[k] <= pv[0].pos[k] /\ pv[0].pos[k] <= g.p[k]
        BY Ends
      <4>2. g.c[k] < y
        BY <1>12, <4>1, MultipleFacts
      <4> QED BY <1>6, <4>2
    <3>3. pLen \in Fitting
      BY <1>1, <1>7 DEF ProducerFrame
    <3>4. ChunkOf(g.head + 1)' = k
      BY <1>3, <1>9, <3>1
    <3> QED BY <1>3, <1>6, <1>7, <1>9, <2>2, <3>1, <3>2, <3>3, <3>4 DEF ProducerFrame
  <2> QED BY <2>1, <2>2 DEF Publish
<1>19. ConsumerFrame(h, u)'
  <2>1. pv[0].era <= u[0].era /\ u[0].era \in Nat
    BY <1>10, <1>14
  <2>2. UNCHANGED <<consumePos, tailChunk, cPc, cChunk, cPos, cHead>> /\ instance' = instance
    BY <1>7, <1>8
  <2>3. h.c = g.c /\ h.cp = g.cp /\ h.pc = g.pc /\ h.tail = g.tail /\ h.behind = g.behind
    BY <1>6
  <2>4. ASSUME g.tail < pv[0].era
        PROVE  h.p[ChunkOf(g.tail)] = g.p[ChunkOf(g.tail)]
    <3>1. g.tail < e /\ e < g.tail + ChunkCount
      BY <1>2, <1>10, <2>4
    <3>2. ChunkOf(g.tail) # k /\ ChunkOf(g.tail) \in Chunks
      BY <1>1, <1>3, <1>10, <3>1, EraApart, ChunkOfRange
    <3> QED BY <1>6, <3>2
  <2>5. \A ch \in Chunks : \A z \in g.c[ch] .. g.p[ch] - 1 :
           buffer'[ch][Pos(z)] = buffer[ch][Pos(z)]
    BY <1>7, BufferSame
  <2> QED BY <2>1, <2>2, <2>3, <2>4, <2>5, ConsumerFrameKept
<1> QED BY <1>6, <1>9, <1>13, <1>14, <1>15, <1>16, <1>17, <1>18, <1>19 DEF Invariant, Consistent

-----------------------------------------------------------------------------
(* The invariant holds.                                                    *)

LEMMA InitInvariant == Init => Invariant
<1> SUFFICES ASSUME Init
             PROVE  Invariant
  OBVIOUS
<1>1. instance \in Instances /\ ChunkSize \in Nat \ {0} /\ ChunkCount \in Nat \ {0}
  BY Sizes DEF Init
<1>2. 0 \in Multiple
  BY AlignAssumption, ModSmall DEF Multiple
<1>3. PICK Z \in Numbering : Z = [ch \in Chunks |-> 0]
  BY <1>2 DEF Numbering
<1>4. PICK g \in Ghosts :
        /\ g.p = Z /\ g.pc = Z /\ g.c = Z /\ g.cp = Z /\ g.cc = Z
        /\ g.head = 0 /\ g.newest = 0 /\ g.tail = 0 /\ g.behind = FALSE
  <2>1. [p |-> Z, pc |-> Z, c |-> Z, cp |-> Z, cc |-> Z,
         head |-> 0, newest |-> 0, tail |-> 0, behind |-> FALSE] \in Ghosts
    BY <1>3 DEF Ghosts
  <2> QED BY <2>1
<1>5. PICK w \in View : w = [pos |-> Z, era |-> 0]
  BY <1>3 DEF View
<1>6. PICK v \in [0 .. 0 -> View] : v = [j \in 0 .. 0 |-> w]
  BY <1>5
<1>7. PICK at \in [1 .. 0 -> Span] : at = <<>>
  <2>1. <<>> \in [1 .. 0 -> Span]
    OBVIOUS
  <2> QED BY <2>1
<1>8. Pos(0) = 0 /\ ChunkOf(0) = 0 /\ 0 \in Chunks /\ 0 \in Bytes
  BY <1>1, PosZero, ModSmall DEF ChunkOf, Chunks, Bytes
<1>9. \A ch \in Chunks : Z[ch] = 0
  BY <1>3
<1>10. At(Z) = Zeros
  BY <1>3, <1>8 DEF At, Zeros
<1>11. Typed
  BY <1>1, <1>8 DEF Init, Typed
<1>12. Places(g)
  BY <1>4, <1>8, <1>10 DEF Init, Places
<1>13. Order(g)
  <2>1. 0 < 0 + ChunkSize
    BY <1>1
  <2> QED BY <1>4, <1>9, <2>1 DEF Order
<1>14. \A ch \in Chunks : Boundary(g, at, ch, Z[ch])
  BY <1>4 DEF Boundary
<1>15. Chain(g, at)
  <2>1. records = <<>> /\ Len(records) = 0
    BY DEF Init
  <2>2. \A j : ~(j \in 1 .. 0)
    OBVIOUS
  <2> QED BY <1>4, <1>7, <1>14, <2>1, <2>2 DEF Chain
<1>16. ProducerView(g, at, w)
  BY <1>4, <1>5, <1>9, <1>14 DEF ProducerView
<1>17. ConsumerView(g, w)
  <2>1. 0 < 0 + ChunkCount
    BY <1>1
  <2>2. \A e \in 0 + 1 .. 0 + ChunkCount - 1 : Z[ChunkOf(e)] = Z[ChunkOf(e)]
    OBVIOUS
  <2> QED BY <1>4, <1>5, <1>9, <2>1, <2>2 DEF ConsumerView
<1>18. v[0] = w /\ \A j \in 0 .. 0 : j = 0
  BY <1>6
<1>19. \A s \in {Zeros} : \A c \in {0} : Viewed(<<>>, v, s, c, Z, 0)
  <2>1. Len(<<>>) = 0 /\ \A j : ~(j \in 1 .. 0)
    OBVIOUS
  <2>2. Later(w, w)
    BY <1>5, <1>9 DEF Later
  <2>3. w.pos = Z /\ w.era = 0 /\ w = [pos |-> Z, era |-> 0]
    BY <1>5
  <2> QED BY <1>6, <1>8, <1>10, <1>18, <2>1, <2>2, <2>3 DEF Viewed
<1>20. Views(g, at, v, v)
  <2>1. /\ toConsumer = <<>> /\ toProducer = <<>> /\ produceSeen = Zeros /\ headSeen = 0
        /\ consumeSeen = Zeros /\ tailSeen = 0 /\ Len(<<>>) = 0
    BY DEF Init
  <2> QED BY <1>4, <1>16, <1>17, <1>18, <1>19, <2>1 DEF Views
<1>21. ProducerFrame(g, v)
  BY <1>4 DEF Init, ProducerFrame
<1>22. ConsumerFrame(g, v)
  BY <1>4 DEF Init, ConsumerFrame
<1> QED BY <1>11, <1>12, <1>13, <1>15, <1>20, <1>21, <1>22 DEF Consistent, Invariant

LEMMA StutterStep ==
  ASSUME NEW g, NEW at, NEW pv, NEW cv, Consistent(g, at, pv, cv), UNCHANGED vars
  PROVE  Invariant'
<1>1. /\ instance \in Instances /\ Typed /\ g \in Ghosts /\ Places(g) /\ Order(g) /\ Chain(g, at)
      /\ ConsumerFrame(g, pv) /\ ProducerFrame(g, cv) /\ toConsumer \in Seq(Store)
      /\ toProducer \in Seq(Store)
  BY Parts
<1>2. /\ UNCHANGED <<instance, producePos, consumePosCache, consumePos, producePosCache>>
      /\ UNCHANGED <<headChunk, tailChunk, toConsumer, toProducer, produceSeen, headSeen>>
      /\ UNCHANGED <<consumeSeen, tailSeen, buffer, pPc, pChunk, pPos, pLen>>
      /\ UNCHANGED <<cPc, cChunk, cPos, cHead, records>>
  BY DEF vars
<1>3. /\ Chunks' = Chunks /\ Bytes' = Bytes /\ Numbers' = Numbers /\ ChunkSize' = ChunkSize
      /\ Store' = Store /\ Ghosts' = Ghosts
      /\ \A x : ChunkOf(x)' = ChunkOf(x) /\ \A f : At(f)' = At(f)
  BY <1>2, SameSizes
<1>4. Typed'
  BY <1>1, <1>2, <1>3 DEF Typed
<1>5. Places(g)' /\ Order(g)'
  BY <1>1, <1>2, <1>3 DEF Places, Order
<1>6. UNCHANGED <<instance, buffer>>
  BY <1>2
<1>7. /\ \A ch \in Chunks : \A z \in g.c[ch] .. g.p[ch] - 1 :
              buffer'[ch][Pos(z)] = buffer[ch][Pos(z)]
      /\ \A ch \in Chunks : \A z \in g.p[ch] .. g.cc[ch] + ChunkSize - 1 :
              buffer'[ch][Pos(z)] = buffer[ch][Pos(z)]
  BY <1>6, BufferSame
<1>8. Chain(g, at)'
  <2>1. \A ch \in Chunks : Boundary(g, at, ch, g.pc[ch])
    BY <1>1 DEF Chain
  <2> QED BY <1>1, <1>2, <1>7, <2>1, ChainKept
<1>9. Views(g, at, pv, cv)'
  <2>1. \A ch \in Chunks : g.pc[ch] <= pv[0].pos[ch] /\ g.cc[ch] <= cv[0].pos[ch]
    BY Ends
  <2> QED BY <1>1, <1>2, <2>1, ViewsKept
<1>10. cv[0].era <= cv[0].era /\ cv[0].era \in Nat /\ pv[0].era <= pv[0].era /\ pv[0].era \in Nat
  BY Eras
<1>11. ProducerFrame(g, cv)'
  <2>1. pPc = "publishHead" => g.c[pChunk] < g.p[pChunk]
    BY <1>1 DEF ProducerFrame
  <2> QED BY <1>2, <1>7, <1>10, <2>1, ProducerFrameKept
<1>12. ConsumerFrame(g, pv)'
  BY <1>2, <1>7, <1>10, ConsumerFrameKept
<1> QED BY <1>1, <1>3, <1>4, <1>5, <1>8, <1>9, <1>11, <1>12 DEF Invariant, Consistent

LEMMA NextInvariant == Invariant /\ [Next]_vars => Invariant'
<1> SUFFICES ASSUME NEW g, NEW at, NEW pv, NEW cv, Consistent(g, at, pv, cv), [Next]_vars
             PROVE  Invariant'
  BY DEF Invariant
<1>1. CASE ProducerStep
  BY <1>1, ProduceStep, ReloadStep, WrapStep, ReloadWrapStep, CrossStep, EnterStep, FillStep,
     RefuseStep, PublishStep, PublishHeadStep DEF ProducerStep
<1>2. CASE ConsumerStep
  BY <1>2, ConsumeStep, LoadHeadStep, ReloadProducePosStep, CrossChunkStep, TakeStep,
     DeclineStep, ReleaseStep, ReleaseTailStep DEF ConsumerStep
<1>3. CASE PropagateProduce \/ PropagateConsume
  BY <1>3, PropagateProduceStep, PropagateConsumeStep
<1>4. CASE UNCHANGED vars
  BY <1>4, StutterStep
<1> QED BY <1>1, <1>2, <1>3, <1>4 DEF Next

\* InvariantHolds: however the two threads interleave and however late the one
\* sees what the other stored, the records published and not yet taken fill the
\* chunks from the consumer's to the producer's end, one behind the other, and
\* every view one thread has of the other's ends is one the other had.
THEOREM InvariantHolds == Spec => []Invariant
<1>1. Init => Invariant
  BY InitInvariant
<1>2. Invariant /\ [Next]_vars => Invariant'
  BY NextInvariant
<1> QED BY <1>1, <1>2, PTL DEF Spec

-----------------------------------------------------------------------------
(* No access races.                                                        *)

LEMMA Typing ==
  ASSUME NEW g, NEW at, NEW pv, NEW cv, Consistent(g, at, pv, cv)
  PROVE  TypeOK
<1>1. /\ Typed /\ instance \in Instances /\ g \in Ghosts
      /\ toConsumer \in Seq(Store) /\ toProducer \in Seq(Store)
      /\ Viewed(toConsumer, pv, produceSeen, headSeen, g.p, g.head)
      /\ Viewed(toProducer, cv, consumeSeen, tailSeen, g.cp, g.tail)
      /\ Places(g)
  BY Parts
<1>2. pv[0].pos \in Numbering /\ cv[0].pos \in Numbering
  BY <1>1, AView
<1>3. /\ producePos = At(g.p) /\ producePosCache = At(g.pc)
      /\ consumePos = At(g.cp) /\ consumePosCache = At(g.cc)
      /\ produceSeen = At(pv[0].pos) /\ consumeSeen = At(cv[0].pos)
  BY <1>1 DEF Places, Viewed
<1>4. \A f \in Numbering : \A ch \in Chunks : At(f)[ch] \in Bytes /\ At(f)[ch] % Align = 0
  BY <1>1, PosTyped
<1>5. \A f \in {producePos, consumePosCache, consumePos, producePosCache,
                produceSeen, consumeSeen} :
        \A ch \in Chunks : f[ch] \in Bytes /\ f[ch] % Align = 0
  BY <1>1, <1>2, <1>3, <1>4, Fields
<1>6. {headChunk, tailChunk, headSeen, tailSeen, pChunk, cChunk, cHead} \subseteq Chunks
  <2>1. /\ headChunk = ChunkOf(g.head) /\ tailChunk = ChunkOf(g.tail)
        /\ headSeen = ChunkOf(pv[0].era) /\ tailSeen = ChunkOf(cv[0].era)
    BY Shown
  <2>2. /\ ChunkOf(g.head) \in Chunks /\ ChunkOf(g.tail) \in Chunks
        /\ ChunkOf(pv[0].era) \in Chunks /\ ChunkOf(cv[0].era) \in Chunks
    BY <1>1, Eras, ChunkOfRange
  <2> QED BY <1>1, <2>1, <2>2 DEF Typed
<1>7. \A c \in Chunks : \A i \in Bytes : buffer[c][i] \in Elem \cup {Raw} \cup Numbers
  BY <1>1 DEF Typed
<1> QED BY <1>1, <1>5, <1>6, <1>7 DEF TypeOK, Typed

\* What the consumer reads was published and acquired.
LEMMA ReadsAcquired ==
  ASSUME NEW g, NEW at, NEW pv, NEW cv, Consistent(g, at, pv, cv),
         cPc \in {"take", "takeFirst"}
  PROVE  /\ buffer[cChunk][cPos] \in Numbers /\ LengthAt(cPos) \in Lengths
         /\ {cPos} \cup Extent(Unmarked(cPos), LengthAt(cPos))
              \subseteq Region(consumePos[cChunk], produceSeen[cChunk])
<1>1. instance \in Instances /\ ConsumerFrame(g, pv)
  BY Parts
<1>2. PICK ch \in Chunks : ch = cChunk
  BY Parts DEF Typed
<1>3. PICK x \in Nat, y \in Nat : x = g.c[ch] /\ y = at[1].to /\ x < y /\ y <= g.pc[ch]
  BY <1>2, Found
<1>4. /\ records[1].length \in Fitting /\ LengthAt(cPos) = records[1].length
      /\ buffer[ch][cPos] \in Numbers
      /\ \A i \in Extent(Unmarked(cPos), LengthAt(cPos)) : \E z \in x .. y - 1 : i = Pos(z)
      /\ \E z \in x .. y - 1 : cPos = Pos(z)
  BY <1>2, <1>3, Found
<1>5. LengthAt(cPos) \in Lengths
  BY <1>4 DEF Fitting
<1>6. PICK b \in Nat : b = pv[0].pos[ch] /\ y <= b /\ b < x + ChunkSize
  <2>1. /\ pv[0].pos[ch] \in Nat /\ g.pc[ch] \in Nat /\ g.cc[ch] \in Nat /\ g.cp[ch] \in Nat
        /\ g.p[ch] \in Nat /\ cv[0].pos[ch] \in Nat
        /\ g.pc[ch] <= pv[0].pos[ch] /\ pv[0].pos[ch] <= g.p[ch]
        /\ g.p[ch] < g.cc[ch] + ChunkSize /\ g.cc[ch] <= cv[0].pos[ch]
        /\ cv[0].pos[ch] <= g.cp[ch] /\ g.cp[ch] <= g.c[ch]
    BY Ends
  <2>2. ChunkSize \in Nat
    BY <1>1, Naturals
  <2>3. y <= pv[0].pos[ch] /\ g.cc[ch] <= x
    BY <1>3, <2>1
  <2>4. pv[0].pos[ch] < x + ChunkSize
    BY <2>1, <2>2, <2>3
  <2> QED BY <2>1, <2>3, <2>4
<1>7. consumePos[ch] = Pos(x) /\ produceSeen[ch] = Pos(b)
  <2>1. g.c[ch] = g.cp[ch]
    BY <1>1 DEF ConsumerFrame
  <2> QED BY <1>3, <1>6, <2>1, Shown
<1>8. Region(Pos(x), Pos(b)) = {Pos(z) : z \in x .. b - 1}
  BY <1>1, <1>3, <1>6, RegionPos
<1>9. \A z \in x .. y - 1 : z \in x .. b - 1
  BY <1>6
<1> QED BY <1>2, <1>4, <1>5, <1>7, <1>8, <1>9

\* What the producer writes was released and acquired, or never read.
LEMMA WritesReleased ==
  ASSUME NEW g, NEW at, NEW pv, NEW cv, Consistent(g, at, pv, cv), pPc = "fill"
  PROVE  /\ Extent(pPos, pLen) \subseteq Bytes
         /\ ({producePos[pChunk]} \cup Extent(pPos, pLen))
              \cap Region(consumeSeen[pChunk], producePos[pChunk]) = {}
<1>1. instance \in Instances /\ pChunk \in Chunks /\ pLen \in Fitting
  BY Writing
<1>2. PICK x \in Nat, s \in Nat, y \in Nat :
        /\ x = g.p[pChunk] /\ pPos = Pos(s) /\ x <= s /\ s < y /\ y = s + Rounded(pLen)
        /\ y < g.cc[pChunk] + ChunkSize /\ WrapAt(s) >= Rounded(pLen)
  BY Writing
<1>3. PICK v \in Nat : /\ v = cv[0].pos[pChunk] /\ v <= x /\ x < v + ChunkSize
                       /\ y < v + ChunkSize
  <2>1. /\ g.cc[pChunk] \in Nat /\ cv[0].pos[pChunk] \in Nat /\ g.cp[pChunk] \in Nat
        /\ g.c[pChunk] \in Nat /\ g.pc[pChunk] \in Nat /\ pv[0].pos[pChunk] \in Nat
        /\ g.cc[pChunk] <= cv[0].pos[pChunk] /\ cv[0].pos[pChunk] <= g.cp[pChunk]
        /\ g.cp[pChunk] <= g.c[pChunk] /\ g.c[pChunk] <= g.pc[pChunk]
        /\ g.pc[pChunk] <= pv[0].pos[pChunk] /\ pv[0].pos[pChunk] <= g.p[pChunk]
    BY <1>1, Ends
  <2>2. ChunkSize \in Nat
    BY <1>1, Naturals
  <2>3. cv[0].pos[pChunk] <= x
    BY <1>2, <2>1
  <2>4. y < cv[0].pos[pChunk] + ChunkSize
    BY <1>2, <2>1, <2>2
  <2>5. x < cv[0].pos[pChunk] + ChunkSize
    BY <1>2, <2>1, <2>2, <2>4
  <2> QED BY <2>1, <2>3, <2>4, <2>5
<1>4. producePos[pChunk] = Pos(x) /\ consumeSeen[pChunk] = Pos(v)
  BY <1>1, <1>2, <1>3, Shown
<1>5. Region(Pos(v), Pos(x)) = {Pos(z) : z \in v .. x - 1}
  BY <1>1, <1>3, RegionPos
<1>6. /\ Extent(pPos, pLen) \subseteq Bytes
      /\ \A i \in Extent(pPos, pLen) : \E z \in s .. y - 1 : i = Pos(z)
  <2>1. WrapAt(s) >= Rounded(pLen)
    BY <1>2
  <2>2. /\ Extent(Pos(s), pLen) \subseteq Bytes
        /\ \A i \in Extent(Pos(s), pLen) : \E z \in s .. s + Rounded(pLen) - 1 : i = Pos(z)
    <3>1. PICK length \in Fitting : length = pLen
      BY <1>1
    <3>2. WrapAt(s) >= Rounded(length)
      BY <2>1, <3>1
    <3>3. /\ Extent(Pos(s), length) \subseteq Bytes
          /\ \A i \in Extent(Pos(s), length) : \E z \in s .. s + Rounded(length) - 1 : i = Pos(z)
      BY <1>1, <3>2, ExtentFacts
    <3> QED BY <3>1, <3>3
  <2>3. pPos = Pos(s) /\ s + Rounded(pLen) = y
    BY <1>2
  <2>4. s .. s + Rounded(pLen) - 1 = s .. y - 1
    <3>1. PICK n \in Nat : n = Rounded(pLen)
      BY <1>1, FittingFacts
    <3> QED BY <2>3, <3>1
  <2>5. \A i \in Extent(Pos(s), pLen) : \E z \in s .. y - 1 : i = Pos(z)
    <3>1. PICK T : T = s .. s + Rounded(pLen) - 1
      OBVIOUS
    <3>2. \A i \in Extent(Pos(s), pLen) : \E z \in T : i = Pos(z)
      BY <2>2, <3>1
    <3>3. T = s .. y - 1
      BY <2>4, <3>1
    <3> QED BY <3>2, <3>3
  <2> QED BY <2>2, <2>3, <2>5
<1>7. \A i \in {producePos[pChunk]} \cup Extent(pPos, pLen) : \E z \in x .. y - 1 : i = Pos(z)
  <2>1. x \in x .. y - 1 /\ s .. y - 1 \subseteq x .. y - 1
    BY <1>2
  <2> QED BY <1>4, <1>6, <2>1
<1>8. \A z \in v .. x - 1 : \A w \in x .. y - 1 : Pos(z) # Pos(w)
  <2> SUFFICES ASSUME NEW z \in v .. x - 1, NEW w \in x .. y - 1
               PROVE  Pos(z) # Pos(w)
    OBVIOUS
  <2>1. ChunkSize \in Nat
    BY <1>1, Naturals
  <2>2. z \in Nat /\ w \in Nat /\ z < w
    BY <1>3
  <2>3. w < z + ChunkSize
    BY <1>3, <2>1
  <2> QED BY <1>1, <2>2, <2>3, PosApart
<1> QED BY <1>4, <1>5, <1>6, <1>7, <1>8

\* NoRace: the accesses to the chunks that are not atomic never race and stay in
\* the chunk.  A record the consumer reads was published whole and acquired,
\* marker included; the bytes the producer writes were released and acquired,
\* also in a chunk it enters without comparing positions.
THEOREM NoRace == Spec => []HandedOver
<1>1. Invariant => HandedOver
  <2> SUFFICES ASSUME NEW g, NEW at, NEW pv, NEW cv, Consistent(g, at, pv, cv)
               PROVE  HandedOver
    BY DEF Invariant
  <2> QED BY Typing, ReadsAcquired, WritesReleased DEF HandedOver
<1> QED BY <1>1, InvariantHolds, PTL

-----------------------------------------------------------------------------
(* What is there is found, and room is made use of.                        *)

\* In a chunk whose ends have met there is no record.
LEMMA EmptyChunk ==
  ASSUME NEW g, NEW at, NEW pv, NEW cv, Consistent(g, at, pv, cv), NEW k \in 1 .. Len(records)
  PROVE  g.c[ChunkOf(at[k].era)] < g.p[ChunkOf(at[k].era)]
<1>1. PICK ch \in Chunks : ch = ChunkOf(at[k].era)
  BY ARecord
<1>2. /\ g.c[ch] <= at[k].from /\ at[k].from < at[k].to /\ at[k].to <= g.p[ch]
      /\ at[k].from \in Nat /\ at[k].to \in Nat /\ g.c[ch] \in Nat /\ g.p[ch] \in Nat
  BY <1>1, ARecord, Ends
<1> QED BY <1>1, <1>2

\* Where they have not there is one.
LEMMA FilledChunk ==
  ASSUME NEW g, NEW at, NEW pv, NEW cv, Consistent(g, at, pv, cv), NEW ch \in Chunks,
         g.c[ch] # g.p[ch]
  PROVE  records # <<>>
<1>1. Boundary(g, at, ch, g.c[ch]) /\ DOMAIN at = 1 .. Len(records)
  BY Parts DEF Chain
<1>2. PICK k \in 1 .. Len(records) : TRUE
  BY <1>1 DEF Boundary
<1>3. records # <<>>
  BY <1>2
<1> QED BY <1>3

\* Two ends, or views of them, in one position are one.
LEMMA SeenSame ==
  ASSUME NEW g, NEW at, NEW pv, NEW cv, Consistent(g, at, pv, cv), NEW ch \in Chunks
  PROVE  /\ cPc = "idle" => (produceSeen[ch] = consumePos[ch] <=> pv[0].pos[ch] = g.c[ch])
         /\ producePos[ch] = consumeSeen[ch] <=> g.p[ch] = cv[0].pos[ch]
         /\ pv[0].pos[ch] = g.p[ch] \/ g.c[ch] < g.p[ch]
         /\ cv[0].pos[ch] = g.p[ch] => g.c[ch] = g.p[ch]
         /\ g.c[ch] = g.p[ch] => pv[0].pos[ch] = g.c[ch]
<1>1. instance \in Instances /\ ConsumerFrame(g, pv)
  BY Parts
<1>2. /\ g.cc[ch] \in Nat /\ cv[0].pos[ch] \in Nat /\ g.cp[ch] \in Nat /\ g.c[ch] \in Nat
      /\ g.pc[ch] \in Nat /\ pv[0].pos[ch] \in Nat /\ g.p[ch] \in Nat /\ ChunkSize \in Nat
      /\ g.cc[ch] <= cv[0].pos[ch] /\ cv[0].pos[ch] <= g.cp[ch]
      /\ g.cp[ch] <= g.c[ch] /\ g.c[ch] <= g.pc[ch] /\ g.pc[ch] <= pv[0].pos[ch]
      /\ pv[0].pos[ch] <= g.p[ch] /\ g.p[ch] < g.cc[ch] + ChunkSize
  BY <1>1, Ends, Naturals
<1>3. PICK cc \in Nat, v \in Nat, c \in Nat, w \in Nat, p \in Nat, S \in Nat :
        /\ cc = g.cc[ch] /\ v = cv[0].pos[ch] /\ c = g.c[ch] /\ w = pv[0].pos[ch] /\ p = g.p[ch]
        /\ S = ChunkSize
  BY <1>2
<1>4. cc <= v /\ v <= c /\ c <= w /\ w <= p /\ p < cc + S
  BY <1>2, <1>3
<1>5. /\ produceSeen[ch] = Pos(w) /\ consumeSeen[ch] = Pos(v) /\ producePos[ch] = Pos(p)
      /\ cPc = "idle" => consumePos[ch] = Pos(c)
  <2>1. cPc = "idle" => g.c[ch] = g.cp[ch]
    BY <1>1 DEF ConsumerFrame
  <2> QED BY <1>3, <2>1, Shown
<1>6. w < c + S /\ p < v + S /\ v <= p
  BY <1>4
<1>7. (Pos(c) = Pos(w) => c = w) /\ (Pos(v) = Pos(p) => v = p)
  BY <1>1, <1>3, <1>4, <1>6, PosTells
<1>8. (w = p \/ c < p) /\ (v = p => c = p) /\ (c = p => w = c)
  BY <1>4
<1> QED BY <1>3, <1>5, <1>7, <1>8

\* The next era of the consumer's is another chunk.
LEMMA NextEra ==
  ASSUME NEW g, NEW at, NEW pv, NEW cv, Consistent(g, at, pv, cv),
         NEW e \in Nat, g.tail < e, e <= g.newest
  PROVE  /\ ChunkOf(e) # tailChunk /\ ChunkOf(e) \in Chunks /\ e \in g.tail + 1 .. g.newest
         /\ NextChunk(tailChunk) = ChunkOf(g.tail + 1) /\ ChunkOf(g.tail + 1) \in Chunks
         /\ g.tail + 1 \in g.tail + 1 .. e /\ e \in g.tail + 1 .. e
         /\ ChunkCount <= 2 => e = g.tail + 1
<1>1. instance \in Instances
  BY Parts
<1>2. /\ g.tail \in Nat /\ g.newest \in Nat /\ ChunkCount \in Nat
      /\ g.newest < g.tail + ChunkCount /\ tailChunk = ChunkOf(g.tail) /\ g.tail + 1 \in Nat
  BY Eras, Shown
<1>3. e < g.tail + ChunkCount
  BY <1>2
<1>4. ChunkCount <= 2 => e = g.tail + 1
  BY <1>2, <1>3
<1>5. ChunkOf(e) # tailChunk /\ ChunkOf(e) \in Chunks /\ ChunkOf(g.tail + 1) \in Chunks
  BY <1>1, <1>2, <1>3, EraApart, ChunkOfRange
<1>6. NextChunk(tailChunk) = ChunkOf(g.tail + 1)
  BY <1>1, <1>2, EraNext
<1>7. e \in g.tail + 1 .. g.newest /\ g.tail + 1 \in g.tail + 1 .. e /\ e \in g.tail + 1 .. e
  BY <1>2
<1> QED BY <1>4, <1>5, <1>6, <1>7

LEMMA EmptyToConsumer ==
  ASSUME NEW g, NEW at, NEW pv, NEW cv, Consistent(g, at, pv, cv),
         cPc = "idle", produceSeen[headSeen] = consumePos[headSeen]
  PROVE  ~Reachable
<1>1. instance \in Instances /\ ConsumerFrame(g, pv) /\ ProducerView(g, at, pv[0])
  BY Parts
<1>2. PICK e \in Nat : e = pv[0].era /\ g.tail <= e /\ e <= g.newest /\ headSeen = ChunkOf(e)
                       /\ ChunkOf(e) \in Chunks
  <2>1. /\ pv[0].era \in Nat /\ g.tail <= pv[0].era /\ pv[0].era <= g.newest
    BY Eras
  <2> QED BY <1>1, <2>1, Shown, ChunkOfRange
<1>3. pv[0].pos[ChunkOf(e)] = g.c[ChunkOf(e)]
  BY <1>2, SeenSame
<1>4. g.tail \in Nat /\ tailChunk = ChunkOf(g.tail) /\ tailChunk \in Chunks
  BY <1>1, Eras, Shown, ChunkOfRange
<1>5. CASE e = g.tail
  BY <1>2, <1>4, <1>5 DEF Reachable
<1>6. CASE g.tail < e
  <2>1. /\ NextChunk(tailChunk) = ChunkOf(g.tail + 1) /\ e \in g.tail + 1 .. e
    BY <1>2, <1>6, NextEra
  <2>2. \/ g.c[ChunkOf(e)] < pv[0].pos[ChunkOf(e)]
        \/ g.behind /\ e = g.tail + 1
    BY <1>1, <1>2, <2>1 DEF ProducerView
  <2>3. g.c[ChunkOf(e)] \in Nat
    BY <1>2, Ends
  <2>4. g.behind /\ e = g.tail + 1
    BY <1>3, <2>2, <2>3
  <2>5. g.c[tailChunk] = g.p[tailChunk]
    BY <1>1, <1>4, <2>4 DEF ConsumerFrame, Emptied
  <2>6. produceSeen[tailChunk] = consumePos[tailChunk]
    BY <1>4, <2>5, SeenSame
  <2> QED BY <1>2, <2>1, <2>4, <2>6 DEF Reachable
<1>7. e = g.tail \/ g.tail < e
  BY <1>2, <1>4
<1> QED BY <1>5, <1>6, <1>7

LEMMA EmptyToProducer ==
  ASSUME NEW g, NEW at, NEW pv, NEW cv, Consistent(g, at, pv, cv),
         pPc = "idle", producePos[headChunk] = consumeSeen[headChunk]
  PROVE  records = <<>>
<1>1. /\ instance \in Instances /\ ConsumerFrame(g, pv) /\ ProducerFrame(g, cv)
      /\ records \in Seq(Whole)
  BY Parts
<1>2. /\ g.head \in Nat /\ g.newest = g.head /\ headChunk = ChunkOf(g.head)
      /\ g.tail \in Nat /\ g.tail <= g.head /\ headChunk \in Chunks
  BY <1>1, Eras, Shown, ChunkOfRange DEF ProducerFrame
<1>3. g.c[headChunk] = g.p[headChunk]
  BY <1>2, SeenSame
<1>4. g.p[headChunk] \in Nat
  BY <1>2, Ends
<1>5. \A e \in g.tail .. g.head : g.c[ChunkOf(e)] = g.p[ChunkOf(e)]
  <2>1. CASE g.tail = g.head
    <3>1. \A e \in g.tail .. g.head : e = g.head
      BY <1>2, <2>1
    <3> QED BY <1>2, <1>3, <3>1
  <2>2. CASE g.tail < g.head
    <3>0. g.head \in g.tail + 1 .. g.head
      BY <1>2, <2>2
    <3>1. ProducerView(g, at, [pos |-> g.p, era |-> g.head]) /\ g.head \in g.tail + 1 .. g.head
      BY <3>0, ViewEnds
    <3>2. \/ g.c[ChunkOf(g.head)] < g.p[ChunkOf(g.head)]
          \/ g.behind /\ g.head = g.tail + 1
      BY <3>1 DEF ProducerView
    <3>3. g.behind /\ g.head = g.tail + 1
      BY <1>2, <1>3, <1>4, <3>2
    <3>4. g.c[ChunkOf(g.tail)] = g.p[ChunkOf(g.tail)]
      BY <1>1, <3>3 DEF ConsumerFrame, Emptied
    <3>5. \A e \in g.tail .. g.head : e = g.tail \/ e = g.head
      BY <1>2, <3>3
    <3> QED BY <1>2, <1>3, <3>4, <3>5
  <2> QED BY <1>2, <2>1, <2>2
<1>6. SUFFICES ASSUME records # <<>>
               PROVE  FALSE
  OBVIOUS
<1>7. 1 \in 1 .. Len(records)
  BY <1>1, <1>6
<1>8. at[1].era \in g.tail .. g.head /\ ChunkOf(at[1].era) \in Chunks
  BY <1>2, <1>7, ARecord
<1>9. g.c[ChunkOf(at[1].era)] < g.p[ChunkOf(at[1].era)]
  BY <1>7, EmptyChunk
<1> QED BY <1>5, <1>8, <1>9, Ends

\* EmptyIsEmpty: is_empty, which looks at one chunk of the many, tells each
\* thread what it needs: true to the consumer, there is nothing to consume; true
\* to the producer, everything was consumed.
THEOREM EmptyIsEmpty == Spec => []EmptyMeansNothing
<1>1. Invariant => EmptyMeansNothing
  <2> SUFFICES ASSUME NEW g, NEW at, NEW pv, NEW cv, Consistent(g, at, pv, cv)
               PROVE  EmptyMeansNothing
    BY DEF Invariant
  <2> QED BY EmptyToConsumer, EmptyToProducer DEF EmptyMeansNothing
<1> QED BY <1>1, InvariantHolds, PTL

\* The consumer knows everything the producer did.
LEMMA ProducerSeen ==
  ASSUME NEW g, NEW at, NEW pv, NEW cv, Consistent(g, at, pv, cv), toConsumer = <<>>
  PROVE  /\ pv[0].era = g.head /\ headSeen = headChunk
         /\ \A ch \in Chunks : pv[0].pos[ch] = g.p[ch]
<1>1. Len(toConsumer) = 0
  OBVIOUS
<1>2. pv[0] = [pos |-> g.p, era |-> g.head]
  BY <1>1, ViewEnds
<1> QED BY <1>2, Shown

\* A record that was published can be reached, unless a callback that wavered
\* left more than one chunk behind.
LEMMA FoundWhenThere ==
  ASSUME NEW g, NEW at, NEW pv, NEW cv, Consistent(g, at, pv, cv),
         Firm \/ ChunkCount <= 2, toConsumer = <<>>, pPc # "publishHead", cPc = "idle",
         records # <<>>
  PROVE  Reachable
<1>1. /\ instance \in Instances /\ ConsumerFrame(g, pv) /\ ProducerFrame(g, cv)
      /\ records \in Seq(Whole) /\ ProducerView(g, at, pv[0])
  BY Parts
<1>2. 1 \in 1 .. Len(records)
  BY <1>1
<1>3. PICK e \in Nat : e = at[1].era /\ g.tail <= e /\ e <= g.newest
                       /\ g.c[ChunkOf(e)] < g.p[ChunkOf(e)] /\ ChunkOf(e) \in Chunks
  BY <1>2, ARecord, EmptyChunk
<1>4. /\ g.newest = g.head /\ g.tail \in Nat /\ tailChunk = ChunkOf(g.tail)
      /\ headSeen = ChunkOf(g.head) /\ g.head \in Nat /\ pv[0].era = g.head
  BY <1>1, Shown, Eras, ProducerSeen DEF ProducerFrame
<1>5. \A ch \in Chunks : /\ g.c[ch] \in Nat /\ g.p[ch] \in Nat
                         /\ pv[0].pos[ch] = g.p[ch]
                         /\ produceSeen[ch] = consumePos[ch] <=> g.p[ch] = g.c[ch]
  BY Ends, ProducerSeen, SeenSame
<1>6. CASE e = g.tail
  BY <1>3, <1>4, <1>5, <1>6 DEF Reachable
<1>7. CASE g.tail < e
  <2>1. /\ NextChunk(tailChunk) = ChunkOf(g.tail + 1) /\ ChunkOf(g.tail + 1) \in Chunks
        /\ ChunkCount <= 2 => e = g.tail + 1
    BY <1>3, <1>7, NextEra
  <2>2. tailChunk # headSeen
    <3>1. g.tail < g.head /\ g.head <= g.newest
      BY <1>3, <1>4, <1>7
    <3> QED BY <1>4, <3>1, NextEra
  <2>3. g.c[ChunkOf(g.tail + 1)] # g.p[ChunkOf(g.tail + 1)]
    <3>1. CASE e = g.tail + 1
      BY <1>3, <1>5, <3>1
    <3>2. CASE e # g.tail + 1
      <4>1. ~g.behind
        BY <1>1, <2>1, <3>2 DEF ConsumerFrame
      <4>2. g.tail + 1 \in g.tail + 1 .. g.head
        BY <1>3, <1>4, <1>7
      <4>3. g.c[ChunkOf(g.tail + 1)] < pv[0].pos[ChunkOf(g.tail + 1)]
        BY <1>1, <1>4, <4>1, <4>2 DEF ProducerView
      <4> QED BY <1>5, <2>1, <4>3
    <3> QED BY <3>1, <3>2
  <2> QED BY <1>5, <2>1, <2>2, <2>3 DEF Reachable
<1>8. e = g.tail \/ g.tail < e
  BY <1>3, <1>4
<1> QED BY <1>6, <1>7, <1>8

\* What can be reached is a record.
LEMMA ThereWhenFound ==
  ASSUME NEW g, NEW at, NEW pv, NEW cv, Consistent(g, at, pv, cv),
         toConsumer = <<>>, cPc = "idle", Reachable
  PROVE  records # <<>>
<1>1. instance \in Instances
  BY Parts
<1>2. tailChunk \in Chunks /\ NextChunk(tailChunk) \in Chunks
  <2>1. g.tail \in Nat /\ g.tail + 1 \in Nat /\ tailChunk = ChunkOf(g.tail)
    BY Eras, Shown
  <2> QED BY <1>1, <2>1, ChunkOfRange, EraNext
<1>3. PICK ch \in Chunks : produceSeen[ch] # consumePos[ch]
  BY <1>2 DEF Reachable
<1>4. pv[0].pos[ch] # g.c[ch] /\ pv[0].pos[ch] = g.p[ch]
  BY <1>3, SeenSame, ProducerSeen
<1> QED BY <1>4, FilledChunk

\* When all was taken and everything is known, there is room.
LEMMA RoomWhenEmpty ==
  ASSUME NEW g, NEW at, NEW pv, NEW cv, Consistent(g, at, pv, cv),
         toProducer = <<>>, cPc = "idle", records = <<>>,
         NEW length \in Lengths, length < ChunkSize \div 2
  PROVE  Accepted(length)
<1>1. instance \in Instances /\ ConsumerFrame(g, pv)
  BY Parts
<1>2. headChunk \in Chunks
  BY <1>1, Eras, Shown, ChunkOfRange
<1>3. PICK y \in Nat : y = g.p[headChunk]
  BY <1>2, Ends
<1>4. Len(toProducer) = 0
  OBVIOUS
<1>5. cv[0] = [pos |-> g.cp, era |-> g.tail]
  BY <1>4, ViewEnds
<1>6. cv[0].pos[headChunk] = y
  <2>1. g.c[headChunk] = y
    BY <1>2, <1>3, FilledChunk
  <2>2. g.c[headChunk] = g.cp[headChunk]
    BY <1>1, <1>2 DEF ConsumerFrame
  <2> QED BY <1>5, <2>1, <2>2
<1>7. producePos[headChunk] = Pos(y) /\ consumeSeen[headChunk] = Pos(y)
  BY <1>2, <1>3, <1>6, Shown
<1>8. WrapDistance(Pos(y)) >= Rounded(length) \/ Pos(y) > Rounded(length)
  <2>1. WrapDistance(Pos(y)) = WrapAt(y) /\ WrapAt(y) \in 1 .. ChunkSize
    BY <1>1, PosRange
  <2>2. Rounded(length) \in Nat /\ ChunkSize \in Nat
    BY <1>1, RoundedFacts, Naturals
  <2>3. WrapAt(y) < Rounded(length) => Pos(y) > Rounded(length)
    BY <1>1, WrapEmpty
  <2> QED BY <2>1, <2>2, <2>3
<1> QED BY <1>7, <1>8 DEF Accepted, Crowded

\* NeverTurnedAway: once every store is visible, consume finds a record exactly
\* when there is one, however many chunks away the producer is; and once every
\* record was taken produce accepts any.  Callbacks that change their mind about
\* a record are harmless while there are no more than two chunks.
THEOREM NeverTurnedAway == Spec => []NeverStuck
<1>1. Invariant => NeverStuck
  <2> SUFFICES ASSUME NEW g, NEW at, NEW pv, NEW cv, Consistent(g, at, pv, cv)
               PROVE  NeverStuck
    BY DEF Invariant
  <2>1. NothingStranded
    BY FoundWhenThere, ThereWhenFound DEF NothingStranded
  <2>2. NeverWedged
    BY RoomWhenEmpty DEF NeverWedged
  <2> QED BY <2>1, <2>2 DEF NeverStuck
<1> QED BY <1>1, InvariantHolds, PTL

-----------------------------------------------------------------------------
(* The queue of records.                                                   *)

\* Every record takes at least one unit of the alignment.
Room == ChunkCount * (ChunkSize \div Align)
Held == records \in Seq(Whole) /\ Len(records) \in 0 .. Room

LEMMA CountUnits ==
  ASSUME NEW n \in Nat, NEW k \in Nat, NEW l \in Nat \ {0}, n * l <= k * l
  PROVE  n <= k
<1> SUFFICES ASSUME n > k
             PROVE  FALSE
  OBVIOUS
<1>1. PICK d \in Nat : n = k + 1 + d
  <2>1. n - k - 1 \in Nat /\ n = k + 1 + (n - k - 1)
    OBVIOUS
  <2> QED BY <2>1
<1>2. n * l = k * l + l + d * l /\ d * l >= 0
  BY <1>1
<1>3. k * l \in Nat /\ d * l \in Nat
  OBVIOUS
<1> QED BY <1>2, <1>3

LEMMA RoomForAll ==
  ASSUME NEW g, NEW at, NEW pv, NEW cv, Consistent(g, at, pv, cv)
  PROVE  Held
<1>1. instance \in Instances /\ records \in Seq(Whole) /\ Chain(g, at)
  BY Parts
<1>2. PICK n \in Nat : n = Len(records)
  BY <1>1
<1>3. /\ ChunkSize \in Nat \ {0} /\ ChunkCount \in Nat \ {0} /\ Align \in Nat \ {0}
      /\ ChunkSize % Align = 0
  BY <1>1, Sizes
<1>4. PICK k \in Nat : ChunkSize = k * Align /\ k = ChunkSize \div Align
  <2>1. PICK q \in Nat, r \in 0 .. Align - 1 :
          ChunkSize = q * Align + r /\ q = ChunkSize \div Align /\ r = ChunkSize % Align
    BY <1>3, DivMod
  <2>2. q * Align + 0 = q * Align
    BY <1>3
  <2> QED BY <1>3, <2>1, <2>2
<1>5. Room = ChunkCount * k /\ ChunkCount * k \in Nat
  BY <1>3, <1>4 DEF Room
<1>6. CASE n = 0
  BY <1>1, <1>2, <1>5, <1>6 DEF Held
<1>7. CASE n > 0
  <2>1. 1 \in 1 .. Len(records) /\ n \in 1 .. Len(records) /\ 1 <= n
    BY <1>2, <1>7
  <2>2. PICK a \in Nat, b \in Nat : a = at[1].era /\ b = at[n].era
    BY <2>1, ARecord
  <2>3. b < a + ChunkCount
    <3>1. g.tail <= a /\ b < g.tail + ChunkCount /\ g.tail \in Nat
      BY <2>1, <2>2, ARecord, Eras
    <3> QED BY <1>3, <3>1
  <2>4. PICK A \in Int, B \in Int, F \in Int, L \in Int :
          /\ A = a * ChunkSize /\ B = b * ChunkSize /\ F = Far(g, at[1]) /\ L = Far(g, at[n])
          /\ A <= F /\ L + Align <= B + ChunkSize
    BY <2>1, <2>2, FarBelow
  <2>5. F + (n - 1) * Align <= L
    BY <1>1, <2>1, <2>4 DEF Chain
  <2>6. n * Align = (n - 1) * Align + Align /\ (n - 1) * Align \in Int
    <3>1. n - 1 \in Int /\ (n - 1) + 1 = n
      OBVIOUS
    <3> QED BY <1>3, <3>1, OneMore
  <2>7. B + ChunkSize <= A + ChunkCount * ChunkSize /\ ChunkCount * ChunkSize \in Int
    <3>1. PICK s \in Nat, m \in Nat : s = ChunkSize /\ m = ChunkCount
      BY <1>3
    <3>2. PICK d \in Nat : b + 1 + d = a + m
      <4>1. a + m - b - 1 \in Nat /\ b + 1 + (a + m - b - 1) = a + m
        BY <2>3, <3>1
      <4> QED BY <4>1
    <3>3. (b + 1 + d) * s = b * s + s + d * s /\ (a + m) * s = a * s + m * s
      OBVIOUS
    <3>4. d * s \in Nat /\ m * s \in Nat /\ a * s \in Nat /\ b * s \in Nat
      OBVIOUS
    <3>5. b * s + s <= a * s + m * s
      BY <3>2, <3>3, <3>4
    <3> QED BY <2>4, <3>1, <3>4, <3>5
  <2>8. n * Align <= ChunkCount * ChunkSize
    <3>1. \A l, s, u, w \in Int :
            /\ F + u <= L /\ L + l <= B + s /\ A <= F /\ B + s <= A + w
            => u + l <= w
      OBVIOUS
    <3>2. Align \in Int /\ ChunkSize \in Int
      BY <1>3
    <3>3. (n - 1) * Align + Align <= ChunkCount * ChunkSize
      BY <2>4, <2>5, <2>6, <2>7, <3>1, <3>2
    <3> QED BY <2>6, <3>3
  <2>9. ChunkCount * ChunkSize = (ChunkCount * k) * Align
    <3>1. \A x, y, z \in Nat : x * (y * z) = (x * y) * z
      OBVIOUS
    <3>2. ChunkCount * ChunkSize = ChunkCount * (k * Align)
      BY <1>4
    <3> QED BY <1>3, <3>1, <3>2
  <2>10. n <= ChunkCount * k
    <3>1. n * Align <= (ChunkCount * k) * Align
      BY <2>8, <2>9
    <3> QED BY <1>3, <1>5, <3>1, CountUnits
  <2> QED BY <1>1, <1>2, <1>5, <2>10 DEF Held
<1> QED BY <1>2, <1>6, <1>7

LEMMA InvariantHeld == Invariant => Held
BY RoomForAll DEF Invariant

LEMMA PublishEnqueues ==
  ASSUME Invariant, Invariant', Publish
  PROVE  Fifo!Enqueue
<1>1. Held /\ Held'
  BY InvariantHeld, PTL
<1>2. records' = Append(records, RecordAt(pChunk, pPos, pLen)) /\ out' = out
      /\ instance' = instance
  BY DEF Publish
<1>3. PICK r \in Whole : r = RecordAt(pChunk, pPos, pLen)
  <2>1. PICK g, at, pv, cv : Consistent(g, at, pv, cv)
    BY DEF Invariant
  <2> QED BY <2>1, Publishing
<1>4. Room' = Room
  BY <1>2, SameSizes DEF Room
<1>5. /\ records' \in Seq(Whole) /\ Len(records') \in Len(records) .. Room
      /\ SubSeq(records', 1, Len(records)) = records
  <2>1. records' = Append(records, r) /\ records \in Seq(Whole)
    BY <1>1, <1>2, <1>3 DEF Held
  <2>2. Len(records') = Len(records) + 1 /\ Len(records) \in Nat
    BY <2>1
  <2>3. SubSeq(Append(records, r), 1, Len(records)) = records
    BY <2>1
  <2>4. Len(records') \in 0 .. Room
    BY <1>1, <1>4 DEF Held
  <2> QED BY <2>1, <2>2, <2>3, <2>4
<1> QED BY <1>2, <1>5 DEF Fifo!Enqueue, Whole, Room

LEMMA TakeDequeues ==
  ASSUME Invariant, Take
  PROVE  Fifo!Dequeue
<1>1. PICK g, at, pv, cv : Consistent(g, at, pv, cv)
  BY DEF Invariant
<1>2. cPc \in {"take", "takeFirst"} /\ records \in Seq(Whole)
  BY <1>1, Parts DEF Take
<1>3. Len(records) >= 1 /\ records # <<>>
  BY <1>1, <1>2, Reading
<1>4. RecordAt(cChunk, Unmarked(cPos), LengthAt(cPos)) = records[1]
  <2>1. PICK ch \in Chunks : ch = cChunk
    BY <1>1, Parts DEF Typed
  <2>2. PICK x, y : x = g.c[ch] /\ y = at[1].to
    OBVIOUS
  <2> QED BY <1>1, <1>2, <2>1, <2>2, Found
<1>5. out' = records[1] /\ records' = SubSeq(records, 2, Len(records))
  BY <1>4 DEF Take
<1>6. Head(records) = records[1] /\ Tail(records) = SubSeq(records, 2, Len(records))
  BY <1>2, <1>3
<1> QED BY <1>3, <1>5, <1>6 DEF Fifo!Dequeue

\* Every step is a step of the sequence, or leaves it alone.
LEMMA NextRefines ==
  ASSUME Invariant, Invariant', [Next]_vars
  PROVE  [Fifo!Next]_Fifo!vars
<1>1. CASE Publish
  BY <1>1, PublishEnqueues DEF Fifo!Next
<1>2. CASE Take
  BY <1>2, TakeDequeues DEF Fifo!Next
<1>3. CASE UNCHANGED history
  BY <1>3 DEF history, Fifo!vars
<1>4. CASE Produce \/ Reload \/ Wrap \/ ReloadWrap \/ Cross \/ Enter \/ Fill \/ Refuse
           \/ PublishHead
  BY <1>3, <1>4 DEF Produce, Reload, Wrap, ReloadWrap, Cross, Enter, Fill, Refuse, PublishHead
<1>5. CASE Consume \/ LoadHead \/ ReloadProducePos \/ CrossChunk \/ Decline
  BY <1>3, <1>5 DEF Consume, LoadHead, ReloadProducePos, CrossChunk, Decline
<1>6. CASE Release \/ ReleaseTail \/ PropagateProduce \/ PropagateConsume
  BY <1>3, <1>6 DEF Release, ReleaseTail, PropagateProduce, PropagateConsume
<1>7. CASE UNCHANGED vars
  BY <1>3, <1>7 DEF vars, history
<1> QED BY <1>1, <1>2, <1>4, <1>5, <1>6, <1>7 DEF Next, ProducerStep, ConsumerStep

\* ImplementsFifo: whole records go in and come out, each once and in order,
\* across the chunks, whatever becomes of markers, rounding and the calls that
\* are given up, and also when the callback is asked twice about one record.
THEOREM ImplementsFifo == Spec => FifoSpec
<1>1. Init => Fifo!Init
  <2> SUFFICES ASSUME Init PROVE Fifo!Init
    OBVIOUS
  <2>1. Held
    BY InitInvariant, InvariantHeld
  <2> QED BY <2>1 DEF Held, Room, Whole, Fifo!Init, Fifo!TypeOK
<1>2. Invariant /\ Invariant' /\ [Next]_vars => [Fifo!Next]_Fifo!vars
  BY NextRefines
<1> QED BY <1>1, <1>2, InvariantHolds, PTL DEF Spec, FifoSpec, Fifo!Spec
=============================================================================
