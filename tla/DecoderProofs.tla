--------------------------- MODULE DecoderProofs ---------------------------
(***************************************************************************)
(* Proofs about what the library decodes by itself.  WireReader, for any   *)
(* message and any bytes: it comes to an end and finds in what was written *)
(* the first of the fields.  SeedDecoder, for any text and any width of    *)
(* the accumulator: the bits that come out are those that went in, a text  *)
(* as the browser writes it gives back its bytes, and a seed is there      *)
(* whole or not at all.  Inflate, for any sizes: the body or nothing.      *)
(***************************************************************************)
EXTENDS WireReader, SeedDecoder, Inflate,
        SequenceTheorems, FiniteSetTheorems, WellFoundedInduction, TLAPS

-----------------------------------------------------------------------------
(* Induction, as a fact about sets: the library states it for an operator.  *)
LEMMA LessIsWellFounded ==
  \E R : IsWellFoundedOn(R, Nat) /\ \A a, b \in Nat : a < b => <<a, b>> \in R
<1> DEFINE R == OpToRel(<, Nat)
<1>1. \A a, b \in Nat : a < b => <<a, b>> \in R
  BY DEF OpToRel
<1>2. IsWellFoundedOn(R, Nat)
  BY NatLessThanWellFounded
<1> QED
  BY <1>1, <1>2

LEMMA Induct ==
  ASSUME NEW S, 0 \in S, \A n \in Nat : n \in S => n + 1 \in S
  PROVE  \A n \in Nat : n \in S
<1> SUFFICES ASSUME NEW n \in Nat \ S PROVE FALSE
  OBVIOUS
<1>1. PICK R : IsWellFoundedOn(R, Nat) /\ \A a, b \in Nat : a < b => <<a, b>> \in R
  BY LessIsWellFounded
<1>2. PICK T : T = Nat \ S /\ T \subseteq Nat /\ T # {}
  OBVIOUS
<1>3. PICK m \in T : \A k \in T : <<k, m>> \notin R
  BY <1>1, <1>2, WFMin
<1>4. m - 1 \in Nat /\ m - 1 < m /\ m - 1 + 1 = m
  BY <1>2
<1> QED
  BY <1>1, <1>2, <1>3, <1>4

(* ... and of what all smaller numbers have.                               *)
LEMMA StrongInduct ==
  ASSUME NEW S, \A n \in Nat : (\A k \in 0 .. n - 1 : k \in S) => n \in S
  PROVE  \A n \in Nat : n \in S
<1> DEFINE D == {n \in Nat : \A k \in 0 .. n : k \in S}
<1>1. 0 \in D
  <2>1. 0 \in S
    OBVIOUS
  <2> QED
    BY <2>1
<1>2. ASSUME NEW n \in Nat, n \in D PROVE n + 1 \in D
  <2>1. \A k \in 0 .. (n + 1) - 1 : k \in S
    BY <1>2
  <2>2. n + 1 \in S
    BY <2>1
  <2> QED
    BY <2>1, <2>2
<1>3. ASSUME NEW n \in Nat PROVE n \in S
  <2> HIDE DEF D
  <2>1. n \in D
    BY <1>1, <1>2, Induct
  <2>2. n \in 0 .. n
    OBVIOUS
  <2> QED
    BY <2>1, <2>2 DEF D
<1> QED
  BY <1>3

-----------------------------------------------------------------------------
(* A number put together from its groups: there is a function that does    *)
(* so, and its values are numbers.                                         *)
Horner(f, g, b, m) == f = [n \in 0 .. m |-> g[n] + IF n = 0 THEN 0 ELSE b * f[n - 1]]

LEMMA HornerTyped ==
  ASSUME NEW m \in Nat, NEW g \in [0 .. m -> Nat], NEW b \in Nat, NEW f, Horner(f, g, b, m)
  PROVE  \A n \in 0 .. m : f[n] \in Nat
<1> DEFINE S == {n \in Nat : n \in 0 .. m => f[n] \in Nat}
<1>1. \A n \in 0 .. m : f[n] = g[n] + IF n = 0 THEN 0 ELSE b * f[n - 1]
  BY DEF Horner
<1>2. 0 \in S
  <2>1. 0 \in 0 .. m /\ f[0] = g[0] + 0
    BY <1>1
  <2> QED
    BY <2>1
<1>3. ASSUME NEW n \in Nat, n \in S PROVE n + 1 \in S
  <2>1. CASE n + 1 \in 0 .. m
    <3>1. n \in 0 .. m /\ f[n] \in Nat /\ (n + 1) - 1 = n /\ n + 1 # 0
      BY <1>3, <2>1
    <3>2. f[n + 1] = g[n + 1] + b * f[n]
      BY <1>1, <2>1, <3>1
    <3>3. b * f[n] \in Nat /\ g[n + 1] \in Nat
      BY <2>1, <3>1
    <3> QED
      BY <3>2, <3>3
  <2> QED
    BY <2>1
<1> HIDE DEF S
<1>4. \A n \in Nat : n \in S
  BY <1>2, <1>3, Induct
<1> QED
  BY <1>4 DEF S

LEMMA HornerExists ==
  ASSUME NEW m \in Nat, NEW g, NEW b
  PROVE  \E f : Horner(f, g, b, m)
<1> DEFINE S == {n \in Nat : \E f : Horner(f, g, b, n)}
<1>1. 0 \in S
  <2>1. Horner([n \in 0 .. 0 |-> g[n] + 0], g, b, 0)
    BY DEF Horner
  <2> QED
    BY <2>1
<1>2. ASSUME NEW n \in Nat, n \in S PROVE n + 1 \in S
  <2>1. PICK f : Horner(f, g, b, n)
    BY <1>2
  <2> DEFINE h == [k \in 0 .. n + 1 |-> IF k = n + 1 THEN g[n + 1] + b * f[n] ELSE f[k]]
  <2>2. ASSUME NEW k \in 0 .. n + 1
        PROVE  h[k] = g[k] + IF k = 0 THEN 0 ELSE b * h[k - 1]
    <3>1. CASE k = n + 1
      <4>1. k # 0 /\ k - 1 = n /\ n \in 0 .. n + 1 /\ n # n + 1
        BY <3>1
      <4> QED
        BY <3>1, <4>1
    <3>2. CASE k # n + 1
      <4>1. k \in 0 .. n /\ h[k] = f[k]
        BY <3>2
      <4>2. f[k] = g[k] + IF k = 0 THEN 0 ELSE b * f[k - 1]
        BY <2>1, <4>1 DEF Horner
      <4>3. k # 0 => k - 1 \in 0 .. n + 1 /\ k - 1 # n + 1
        BY <4>1
      <4>4. k # 0 => h[k - 1] = f[k - 1]
        BY <4>3
      <4> QED
        BY <4>1, <4>2, <4>4
    <3> QED
      BY <3>1, <3>2
  <2>3. Horner(h, g, b, n + 1)
    BY <2>2 DEF Horner
  <2> QED
    BY <2>3
<1> HIDE DEF S
<1>3. m \in S
  BY <1>1, <1>2, Induct
<1> QED
  BY <1>3 DEF S

LEMMA GroupsAre ==
  ASSUME NEW i \in Nat, NEW j \in Nat, i <= j
  PROVE  \E f : /\ Horner(f, [n \in 0 .. j - i |-> blob[j - n] % Radix], Radix, j - i)
                /\ Groups(i, j) = f[j - i]
<1> DEFINE g == [n \in 0 .. j - i |-> blob[j - n] % Radix]
           R(f) == f = [n \in 0 .. j - i |-> (blob[j - n] % Radix)
                                               + IF n = 0 THEN 0 ELSE Radix * f[n - 1]]
<1>1. ASSUME NEW f PROVE Horner(f, g, Radix, j - i) <=> R(f)
  <2>1. \A n \in 0 .. j - i : g[n] = blob[j - n] % Radix
    OBVIOUS
  <2> HIDE DEF g
  <2>2. [n \in 0 .. j - i |-> g[n] + IF n = 0 THEN 0 ELSE Radix * f[n - 1]]
        = [n \in 0 .. j - i |-> (blob[j - n] % Radix) + IF n = 0 THEN 0 ELSE Radix * f[n - 1]]
    BY <2>1
  <2> QED
    BY <2>2 DEF Horner
<1> HIDE DEF g, R
<1>2. PICK f : R(f)
  <2>1. j - i \in Nat
    OBVIOUS
  <2> QED
    BY <1>1, <2>1, HornerExists
<1>3. R(CHOOSE h : R(h))
  BY <1>2
<1>4. Groups(i, j) = (CHOOSE h : R(h))[j - i]
  BY DEF Groups, R
<1> QED
  BY <1>1, <1>3, <1>4 DEF g

(* What the decomposition of a number gives.                               *)
LEMMA DivMod ==
  ASSUME NEW n \in Nat, NEW b \in Nat, b >= 2
  PROVE  /\ n \div b \in Nat /\ n % b \in 0 .. b - 1
         /\ n >= b => n \div b < n
         /\ n < b <=> n = n % b
<1>1. n \div b \in Nat /\ n % b \in 0 .. b - 1
  OBVIOUS
<1>2. n % b = n - b * (n \div b)
  OBVIOUS
<1>3. PICK q \in Nat, u \in 0 .. b - 1 : q = n \div b /\ u = n % b
  BY <1>1
<1>4. n = b * q + u
  BY <1>2, <1>3
<1>5. n >= b => n \div b < n
  OBVIOUS
<1>6. n < b => n = n % b
  OBVIOUS
<1>7. n = n % b => n < b
  BY <1>1
<1> QED
  BY <1>1, <1>5, <1>6, <1>7, Zenon

LEMMA WireConstants ==
  /\ Radix \in Nat /\ Radix >= 2 /\ Words \in Nat \ {0} /\ Numbers \in Nat \ {0}
  /\ Byte \subseteq Nat /\ \A n \in Nat : n < Radix => n \in Byte /\ n + Radix \in Byte
  /\ Fixed64 \in Nat /\ Fixed32 \in Nat /\ Group \in Nat \ {0} /\ Width \in Nat \ {0}
<1>1. /\ Radix \in Nat \ {0, 1} /\ Words \in Nat \ {0, 1} /\ Numbers \in Nat \ {0, 1}
  BY WireAssumption
<1>2. /\ Fixed64 \in Nat /\ Fixed32 \in Nat /\ Group \in Nat \ {0} /\ Width \in Nat \ {0}
  BY WireAssumption
<1>3. PICK b \in Nat : b = Radix /\ b >= 2
  BY <1>1
<1>4. Byte = 0 .. 2 * b - 1
  BY <1>3 DEF Byte
<1> QED
  BY <1>1, <1>2, <1>3, <1>4

LEMMA Low ==
  ASSUME NEW n \in Nat
  PROVE  /\ n \div Radix \in Nat /\ n % Radix \in Nat /\ n % Radix < Radix
         /\ (n < Radix) <=> (n = n % Radix)
         /\ n # n % Radix => n \div Radix \in 0 .. n - 1
<1>1. Radix \in Nat /\ Radix >= 2
  BY WireConstants
<1>2. \A b \in Nat : b >= 2 => /\ n \div b \in Nat /\ n % b \in Nat /\ n % b < b
                               /\ (n < b) <=> (n = n % b)
                               /\ n # n % b => n \div b \in 0 .. n - 1
  <2> TAKE b \in Nat
  <2> HAVE b >= 2
  <2>1. /\ n \div b \in Nat /\ n % b \in 0 .. b - 1
        /\ n >= b => n \div b < n
        /\ (n < b) <=> (n = n % b)
    BY DivMod
  <2>2. PICK q \in Nat, u \in 0 .. b - 1 : q = n \div b /\ u = n % b
    BY <2>1
  <2> QED
    BY <2>1, <2>2
<1> QED
  BY <1>1, <1>2, Zenon

LEMMA BlobIs ==
  ASSUME blob \in Blob
  PROVE  /\ Len(blob) \in Nat /\ \A i \in 1 .. Len(blob) : blob[i] \in Nat
         /\ \A i \in Nat \ {0}, j \in 0 .. Len(blob) : SubSeq(blob, i, j) \in Blob
<1>1. blob \in Seq(Byte) /\ Len(blob) \in Nat /\ \A i \in 1 .. Len(blob) : blob[i] \in Byte
  BY DEF Blob
<1>2. ASSUME NEW i \in Nat \ {0}, NEW j \in 0 .. Len(blob) PROVE SubSeq(blob, i, j) \in Seq(Byte)
  BY <1>1
<1> QED
  BY <1>1, <1>2, WireConstants DEF Blob

LEMMA GroupsTyped ==
  ASSUME blob \in Blob, NEW i \in 1 .. Len(blob), NEW j \in i .. Len(blob)
  PROVE  Groups(i, j) \in Nat
<1> DEFINE g == [n \in 0 .. j - i |-> blob[j - n] % Radix]
<1>1. i \in Nat /\ j \in Nat /\ i <= j /\ j - i \in Nat /\ j - i \in 0 .. j - i
  BY BlobIs
<1>2. g \in [0 .. j - i -> Nat]
  <2>1. ASSUME NEW n \in 0 .. j - i PROVE blob[j - n] % Radix \in Nat
    <3>1. j - n \in 1 .. Len(blob)
      BY <1>1, BlobIs
    <3>2. blob[j - n] \in Nat
      BY <3>1, BlobIs
    <3> QED
      BY <3>2, WireConstants
  <2> QED
    BY <2>1
<1> HIDE DEF g
<1>3. PICK f : Horner(f, g, Radix, j - i) /\ Groups(i, j) = f[j - i]
  BY <1>1, GroupsAre DEF g
<1>4. Radix \in Nat
  BY WireConstants
<1> QED
  BY <1>1, <1>2, <1>3, <1>4, HornerTyped

(* ReadVarint goes on by a byte at least, and not past the end.            *)
LEMMA VarintRead ==
  ASSUME blob \in Blob, NEW i \in Nat \ {0}, NEW e \in 0 .. Len(blob), NEW v, v = ReadVarint(i, e)
  PROVE  /\ v.value \in Nat
         /\ v.value \in 0 .. Words - 1
         /\ v.ok \in BOOLEAN
         /\ v.ok => v.next \in i + 1 .. e + 1
<1>1. CASE Ended(i, e) = {}
  BY <1>1, WireConstants DEF ReadVarint
<1>2. CASE Ended(i, e) # {}
  <2>1. PICK j \in Ended(i, e) : v = [ok |-> TRUE, value |-> Groups(i, j) % Words, next |-> j + 1]
    BY <1>2 DEF ReadVarint
  <2>2. j \in i .. e
    BY DEF Ended, Stops
  <2>3. i \in 1 .. Len(blob) /\ j \in i .. Len(blob) /\ e \in Nat
    BY <2>2, BlobIs
  <2>4. Groups(i, j) \in Nat /\ Words \in Nat \ {0}
    BY <2>3, GroupsTyped, WireConstants
  <2>5. Groups(i, j) % Words \in Nat /\ Groups(i, j) % Words \in 0 .. Words - 1
    BY <2>4
  <2>6. j + 1 \in i + 1 .. e + 1
    BY <2>2, <2>3
  <2> QED
    BY <2>1, <2>5, <2>6
<1> QED
  BY <1>1, <1>2

LEMMA PayloadLies ==
  ASSUME blob \in Blob, end \in 0 .. Len(blob), NEW i \in 1 .. end + 1, NEW wt, NEW f,
         f = Payload(wt, i), f.ok
  PROVE  f.from \in i .. end + 1 /\ f.from + f.len \in f.from .. end + 1
<1>0. end \in Nat
  BY BlobIs
<1>1. PICK v : /\ v = ReadVarint(i, end) /\ v.value \in Nat
               /\ v.ok => v.next \in i + 1 .. end + 1
  BY VarintRead
<1>2. CASE wt = 0
  <2>1. v.ok /\ f.from = i /\ f.len = v.next - i
    BY <1>1, <1>2 DEF Payload
  <2> QED
    BY <1>0, <1>1, <2>1
<1> DEFINE OfSize(k) == k <= end - i + 1 /\ f.from = i /\ f.len = k
<1>3. CASE wt = 1
  <2>0. f = [ok |-> Room(i, Fixed64), from |-> i, len |-> Fixed64]
    BY <1>3 DEF Payload
  <2>1. Room(i, Fixed64) /\ f.from = i /\ f.len = Fixed64
    BY <2>0
  <2>2. OfSize(Fixed64)
    BY <2>1 DEF Room
  <2> QED
    BY <1>0, <2>2, WireConstants
<1>4. CASE wt = 2
  <2>1. /\ v.ok /\ v.value <= end - v.next + 1
        /\ f.from = v.next /\ f.len = v.value
    <3>1. PICK ok : /\ f = [ok |-> ok, from |-> v.next, len |-> v.value]
                    /\ ok = (v.ok /\ Room(v.next, v.value))
      BY <1>1, <1>4 DEF Payload
    <3>2. ok /\ f.from = v.next /\ f.len = v.value
      BY <3>1
    <3>3. v.ok /\ Room(v.next, v.value)
      BY <3>1, <3>2
    <3> QED
      BY <3>2, <3>3 DEF Room
  <2>2. v.value \in Nat /\ v.next \in i + 1 .. end + 1
    BY <1>1, <2>1
  <2>3. v.next \in Int /\ i <= v.next /\ v.next <= end + 1
    BY <1>0, <2>2
  <2> QED
    BY <1>0, <2>1, <2>2, <2>3
<1>5. CASE wt = 5
  <2>0. f = [ok |-> Room(i, Fixed32), from |-> i, len |-> Fixed32]
    BY <1>5 DEF Payload
  <2>1. Room(i, Fixed32) /\ f.from = i /\ f.len = Fixed32
    BY <2>0
  <2>2. OfSize(Fixed32)
    BY <2>1 DEF Room
  <2> QED
    BY <1>0, <2>2, WireConstants
<1>6. CASE wt \notin {0, 1, 2, 5}
  BY <1>6 DEF Payload
<1> QED
  BY <1>2, <1>3, <1>4, <1>5, <1>6

(* A turn takes the tag, a byte or more, and stays in the message.         *)
LEMMA TurnTakes ==
  ASSUME blob \in Blob, end \in 0 .. Len(blob), p \in 1 .. end + 1, NEW t, t = Turn, t.good
  PROVE  t.from \in p + 1 .. end + 1 /\ t.next \in t.from .. end + 1
<1>1. PICK tag : /\ tag = ReadVarint(p, end)
                 /\ tag.ok => tag.next \in p + 1 .. end + 1
  BY VarintRead
<1>2. PICK f : /\ f = Payload(tag.value % 8, tag.next)
               /\ t.good => tag.ok /\ f.ok /\ t.from = f.from /\ t.next = f.from + f.len
  BY <1>1 DEF Turn
<1>3. tag.next \in 1 .. end + 1
  BY <1>1, <1>2, BlobIs
<1>4. f.from \in tag.next .. end + 1 /\ f.from + f.len \in f.from .. end + 1
  BY <1>2, <1>3, PayloadLies
<1> QED
  BY <1>1, <1>2, <1>4, BlobIs

-----------------------------------------------------------------------------
(* How a number is written.                                                *)
VarintIn(f, n) ==
  f = [k \in 0 .. n |-> LET low == k % Radix
                        IN  IF k = low THEN <<low>>
                            ELSE <<low + Radix>> \o f[k \div Radix]]

LEMMA VarintExists ==
  ASSUME NEW m \in Nat
  PROVE  \E f : VarintIn(f, m)
<1> DEFINE S == {n \in Nat : \E f : VarintIn(f, n)}
<1>1. 0 \in S
  <2> DEFINE f == [k \in 0 .. 0 |-> <<k % Radix>>]
  <2>1. ASSUME NEW k \in 0 .. 0 PROVE k = k % Radix
    BY DivMod, WireConstants
  <2>2. VarintIn(f, 0)
    BY <2>1 DEF VarintIn
  <2> QED
    BY <2>2
<1>2. ASSUME NEW n \in Nat, n \in S PROVE n + 1 \in S
  <2>1. PICK f : VarintIn(f, n)
    BY <1>2
  <2> DEFINE low(k) == k % Radix
             high(k) == k \div Radix
             h == [k \in 0 .. n + 1 |-> IF k # n + 1 THEN f[k]
                                        ELSE IF k = low(k) THEN <<low(k)>>
                                        ELSE <<low(k) + Radix>> \o f[high(k)]]
  <2>2. ASSUME NEW k \in 0 .. n + 1
        PROVE  h[k] = IF k = low(k) THEN <<low(k)>> ELSE <<low(k) + Radix>> \o h[high(k)]
    <3>1. k # low(k) => high(k) \in 0 .. k - 1
      <4>1. k \in Nat
        OBVIOUS
      <4> QED
        BY <4>1, Low, Zenon
    <3>2. k # low(k) => high(k) \in 0 .. n + 1 /\ high(k) # n + 1 /\ h[high(k)] = f[high(k)]
      BY <3>1
    <3>3. CASE k = n + 1
      BY <3>2, <3>3
    <3>4. CASE k # n + 1
      <4>1. k \in 0 .. n /\ h[k] = f[k]
        BY <3>4
      <4>2. f[k] = IF k = low(k) THEN <<low(k)>> ELSE <<low(k) + Radix>> \o f[high(k)]
        BY <2>1, <4>1 DEF VarintIn
      <4> QED
        BY <3>2, <4>1, <4>2
    <3> QED
      BY <3>3, <3>4
  <2>3. VarintIn(h, n + 1)
    BY <2>2 DEF VarintIn
  <2> QED
    BY <2>3
<1> HIDE DEF S
<1>3. m \in S
  BY <1>1, <1>2, Induct
<1> QED
  BY <1>3 DEF S

LEMMA VarintAgrees ==
  ASSUME NEW m \in Nat, NEW n \in Nat, NEW f, NEW g, VarintIn(f, m), VarintIn(g, n)
  PROVE  \A k \in Nat : k <= m /\ k <= n => f[k] = g[k]
<1> DEFINE S == {k \in Nat : k <= m /\ k <= n => f[k] = g[k]}
<1>1. ASSUME NEW k \in Nat, \A l \in 0 .. k - 1 : l \in S PROVE k \in S
  <2> SUFFICES ASSUME k <= m, k <= n PROVE f[k] = g[k]
    OBVIOUS
  <2> DEFINE low == k % Radix
             high == k \div Radix
  <2>1. k \in 0 .. m /\ k \in 0 .. n
    OBVIOUS
  <2>2. /\ f[k] = IF k = low THEN <<low>> ELSE <<low + Radix>> \o f[high]
        /\ g[k] = IF k = low THEN <<low>> ELSE <<low + Radix>> \o g[high]
    BY <2>1 DEF VarintIn
  <2>3. k # low => high \in 0 .. k - 1
    BY Low, Zenon
  <2>4. k # low => f[high] = g[high]
    BY <1>1, <2>3
  <2> QED
    BY <2>2, <2>4
<1> HIDE DEF S
<1>2. \A k \in Nat : k \in S
  BY <1>1, StrongInduct
<1> QED
  BY <1>2 DEF S

LEMMA VarintFunction ==
  ASSUME NEW n \in Nat
  PROVE  \E f : VarintIn(f, n) /\ Varint(n) = f[n]
<1> DEFINE R(f) == f = [k \in 0 .. n |-> LET low == k % Radix
                                         IN  IF k = low THEN <<low>>
                                             ELSE <<low + Radix>> \o f[k \div Radix]]
<1>1. \A f : VarintIn(f, n) <=> R(f)
  BY DEF VarintIn
<1> HIDE DEF R
<1>2. R(CHOOSE f : R(f))
  BY <1>1, VarintExists
<1>3. Varint(n) = (CHOOSE f : R(f))[n]
  BY DEF Varint, R
<1> QED
  BY <1>1, <1>2, <1>3

LEMMA VarintIs ==
  ASSUME NEW n \in Nat
  PROVE  /\ n = n % Radix => Varint(n) = <<n % Radix>>
         /\ n # n % Radix => Varint(n) = <<(n % Radix) + Radix>> \o Varint(n \div Radix)
<1>1. PICK f : VarintIn(f, n) /\ Varint(n) = f[n]
  BY VarintFunction
<1>2. n \div Radix \in Nat /\ (n # n % Radix => n \div Radix \in 0 .. n - 1)
  BY Low, Zenon
<1>3. PICK g : VarintIn(g, n \div Radix) /\ Varint(n \div Radix) = g[n \div Radix]
  BY <1>2, VarintFunction
<1>4. n # n % Radix => f[n \div Radix] = g[n \div Radix]
  <2>1. PICK m \in Nat : m = n \div Radix
    BY <1>2
  <2>2. \A k \in Nat : k <= n /\ k <= m => f[k] = g[k]
    BY <1>1, <1>3, <2>1, VarintAgrees
  <2>3. n # n % Radix => m <= n /\ m <= m
    BY <1>2, <2>1
  <2>4. n # n % Radix => f[m] = g[m]
    BY <2>2, <2>3
  <2> QED
    BY <2>1, <2>4, Zenon
<1>5. n \in 0 .. n
  OBVIOUS
<1>6. f[n] = IF n = n % Radix THEN <<n % Radix>> ELSE <<(n % Radix) + Radix>> \o f[n \div Radix]
  BY <1>1, <1>5 DEF VarintIn
<1> QED
  BY <1>1, <1>3, <1>4, <1>6, Zenon

(* It is a number of bytes, of which the last one is below Radix.        *)
LEMMA VarintShape ==
  ASSUME NEW m \in Nat
  PROVE  /\ Varint(m) \in Blob /\ Len(Varint(m)) \in Nat \ {0}
         /\ \A i \in 1 .. Len(Varint(m)) : Varint(m)[i] < Radix <=> i = Len(Varint(m))
<1> DEFINE Good(s) == /\ s \in Seq(Byte) /\ Len(s) \in Nat \ {0}
                      /\ \A i \in 1 .. Len(s) : s[i] < Radix <=> i = Len(s)
           S == {n \in Nat : Good(Varint(n))}
<1>1. ASSUME NEW n \in Nat, \A k \in 0 .. n - 1 : k \in S PROVE n \in S
  <2>1. CASE n < Radix
    <3>1. Varint(n) = <<n>> /\ n \in Byte
      <4>1. n = n % Radix
        BY <2>1, Low, Zenon
      <4>2. Varint(n) = <<n>>
        BY <4>1, VarintIs, Zenon
      <4> QED
        BY <2>1, <4>2, WireConstants
    <3>2. /\ <<n>> \in Seq(Byte) /\ Len(<<n>>) = 1 /\ <<n>>[1] = n
      BY <3>1
    <3>3. Good(<<n>>)
      BY <2>1, <3>2
    <3> QED
      BY <3>1, <3>3
  <2>2. CASE ~(n < Radix)
    <3>1. PICK a \in Nat, q \in 0 .. n - 1 : a = n % Radix /\ q = n \div Radix /\ a < Radix
      BY <2>2, Low, Zenon
    <3>2. PICK s : s = Varint(q) /\ Good(s)
      BY <1>1, <3>1
    <3>3. PICK c \in Byte : c = a + Radix /\ ~(c < Radix)
      BY <3>1, WireConstants
    <3>4. Varint(n) = <<c>> \o s
      <4>1. n # n % Radix
        BY <2>2, Low, Zenon
      <4> QED
        BY <3>1, <3>2, <3>3, <4>1, VarintIs, Zenon
    <3>5. PICK t : /\ t = <<c>> \o s /\ t \in Seq(Byte) /\ Len(t) = Len(s) + 1 /\ t[1] = c
                   /\ \A i \in 2 .. Len(t) : t[i] = s[i - 1]
      <4>1. <<c>> \in Seq(Byte) /\ Len(<<c>>) = 1 /\ <<c>>[1] = c /\ s \in Seq(Byte)
        BY <3>2, <3>3
      <4>2. /\ <<c>> \o s \in Seq(Byte) /\ Len(<<c>> \o s) = Len(s) + 1 /\ (<<c>> \o s)[1] = c
            /\ \A i \in 2 .. Len(s) + 1 : (<<c>> \o s)[i] = s[i - 1]
        BY <4>1
      <4> QED
        BY <4>2
    <3>6. ASSUME NEW i \in 1 .. Len(t) PROVE t[i] < Radix <=> i = Len(t)
      <4>1. CASE i = 1
        BY <3>2, <3>3, <3>5, <4>1
      <4>2. CASE i # 1
        <5>1. i \in 2 .. Len(t) /\ i - 1 \in 1 .. Len(s) /\ (i = Len(t) <=> i - 1 = Len(s))
          BY <3>2, <3>5, <4>2
        <5> QED
          BY <3>2, <3>5, <5>1
      <4> QED
        BY <4>1, <4>2
    <3>7. Good(t)
      BY <3>2, <3>5, <3>6
    <3> QED
      BY <3>4, <3>5, <3>7
  <2> QED
    BY <2>1, <2>2
<1> HIDE DEF S
<1>2. m \in S
  BY <1>1, StrongInduct
<1> QED
  BY <1>2 DEF S, Blob

-----------------------------------------------------------------------------
(* How a message is written.                                               *)
UpIn(f, m, k) == f = [n \in 0 .. k |-> IF n = 0 THEN <<>> ELSE f[n - 1] \o FieldBytes(m[n])]

LEMMA UpExists ==
  ASSUME NEW m, NEW l \in Nat
  PROVE  \E f : UpIn(f, m, l)
<1> DEFINE S == {k \in Nat : \E f : UpIn(f, m, k)}
<1>1. 0 \in S
  <2>1. UpIn([n \in 0 .. 0 |-> <<>>], m, 0)
    BY DEF UpIn
  <2> QED
    BY <2>1
<1>2. ASSUME NEW k \in Nat, k \in S PROVE k + 1 \in S
  <2>1. PICK f : UpIn(f, m, k)
    BY <1>2
  <2> DEFINE h == [n \in 0 .. k + 1 |-> IF n # k + 1 THEN f[n] ELSE f[k] \o FieldBytes(m[k + 1])]
  <2>2. ASSUME NEW n \in 0 .. k + 1
        PROVE  h[n] = IF n = 0 THEN <<>> ELSE h[n - 1] \o FieldBytes(m[n])
    <3>1. CASE n = k + 1
      <4>1. n # 0 /\ n - 1 = k /\ k \in 0 .. k + 1 /\ k # k + 1
        BY <3>1
      <4> QED
        BY <3>1, <4>1
    <3>2. CASE n # k + 1
      <4>1. n \in 0 .. k /\ h[n] = f[n] /\ (n # 0 => h[n - 1] = f[n - 1])
        BY <3>2
      <4> QED
        BY <2>1, <4>1 DEF UpIn
    <3> QED
      BY <3>1, <3>2
  <2>3. UpIn(h, m, k + 1)
    BY <2>2 DEF UpIn
  <2> QED
    BY <2>3
<1> HIDE DEF S
<1>3. l \in S
  BY <1>1, <1>2, Induct
<1> QED
  BY <1>3 DEF S

LEMMA UpAgrees ==
  ASSUME NEW m, NEW k \in Nat, NEW l \in Nat, NEW f, NEW g, UpIn(f, m, k), UpIn(g, m, l)
  PROVE  \A n \in Nat : n <= k /\ n <= l => f[n] = g[n]
<1> DEFINE S == {n \in Nat : n <= k /\ n <= l => f[n] = g[n]}
<1>1. 0 \in S
  BY DEF UpIn
<1>2. ASSUME NEW n \in Nat, n \in S PROVE n + 1 \in S
  <2> SUFFICES ASSUME n + 1 <= k, n + 1 <= l PROVE f[n + 1] = g[n + 1]
    OBVIOUS
  <2>1. n + 1 \in 0 .. k /\ n + 1 \in 0 .. l /\ n + 1 # 0 /\ (n + 1) - 1 = n /\ f[n] = g[n]
    BY <1>2
  <2>2. /\ f[n + 1] = f[n] \o FieldBytes(m[n + 1])
        /\ g[n + 1] = g[n] \o FieldBytes(m[n + 1])
    BY <2>1 DEF UpIn
  <2> QED
    BY <2>1, <2>2
<1> HIDE DEF S
<1>3. \A n \in Nat : n \in S
  BY <1>1, <1>2, Induct
<1> QED
  BY <1>3 DEF S

LEMMA UpFunction ==
  ASSUME NEW m, NEW k \in Nat
  PROVE  \E f : UpIn(f, m, k) /\ WrittenUpTo(m, k) = f[k]
<1> DEFINE R(f) == f = [n \in 0 .. k |-> IF n = 0 THEN <<>> ELSE f[n - 1] \o FieldBytes(m[n])]
<1>1. \A f : UpIn(f, m, k) <=> R(f)
  BY DEF UpIn
<1> HIDE DEF R
<1>2. R(CHOOSE f : R(f))
  BY <1>1, UpExists
<1>3. WrittenUpTo(m, k) = (CHOOSE f : R(f))[k]
  BY DEF WrittenUpTo, R
<1> QED
  BY <1>1, <1>2, <1>3

LEMMA UpIs ==
  ASSUME NEW m
  PROVE  /\ WrittenUpTo(m, 0) = <<>>
         /\ \A k \in Nat : WrittenUpTo(m, k + 1) = WrittenUpTo(m, k) \o FieldBytes(m[k + 1])
<1>1. WrittenUpTo(m, 0) = <<>>
  <2>1. PICK f : UpIn(f, m, 0) /\ WrittenUpTo(m, 0) = f[0]
    BY UpFunction
  <2> QED
    BY <2>1 DEF UpIn
<1>2. ASSUME NEW k \in Nat
      PROVE  WrittenUpTo(m, k + 1) = WrittenUpTo(m, k) \o FieldBytes(m[k + 1])
  <2>1. PICK f : UpIn(f, m, k) /\ WrittenUpTo(m, k) = f[k]
    BY UpFunction
  <2>2. PICK l \in Nat : l = k + 1
    OBVIOUS
  <2>3. PICK g : UpIn(g, m, l) /\ WrittenUpTo(m, l) = g[l]
    BY UpFunction
  <2>4. f[k] = g[k]
    BY <2>1, <2>2, <2>3, UpAgrees
  <2>5. l \in 0 .. l /\ l # 0 /\ l - 1 = k
    BY <2>2
  <2>6. g[l] = g[k] \o FieldBytes(m[l])
    BY <2>3, <2>5 DEF UpIn
  <2> QED
    BY <2>1, <2>2, <2>3, <2>4, <2>6
<1> QED
  BY <1>1, <1>2

(* What is known of a field that was written.                              *)
LEMMA FieldIs ==
  ASSUME NEW f \in WireFields
  PROVE  /\ f.num \in Nat /\ 0 < f.num /\ f.num < Numbers /\ f.wt \in {0, 1, 2, 5}
         /\ f.payload \in Blob /\ Len(f.payload) \in Nat
         /\ 8 * f.num + f.wt \in Nat /\ Fits(8 * f.num + f.wt)
         /\ FieldBytes(f) \in Blob /\ Len(FieldBytes(f)) \in Nat \ {0}
<1>1. /\ f.num \in 1 .. Numbers - 1 /\ f.wt \in {0, 1, 2, 5} /\ f.payload \in Blob
      /\ Fits(8 * f.num + f.wt)
  BY WireAssumption
<1>2. f.num \in Nat /\ 0 < f.num /\ f.num < Numbers
  BY <1>1, WireConstants
<1>3. PICK s \in Seq(Byte) : s = f.payload
  BY <1>1 DEF Blob
<1>4. PICK n \in Nat : n = 8 * f.num + f.wt
  BY <1>1, <1>2
<1>5. PICK v \in Seq(Byte) : v = Varint(n) /\ Len(v) \in Nat \ {0}
  BY VarintShape DEF Blob
<1>6. PICK u \in Seq(Byte) : u = IF f.wt = 2 THEN Varint(Len(s)) ELSE <<>>
  <2>1. Varint(Len(s)) \in Seq(Byte) /\ <<>> \in Seq(Byte)
    BY VarintShape DEF Blob
  <2> QED
    BY <2>1
<1>7. FieldBytes(f) = v \o u \o s
  BY <1>3, <1>4, <1>5, <1>6 DEF FieldBytes
<1>8. v \o u \o s \in Seq(Byte) /\ Len(v \o u \o s) = Len(v) + Len(u) + Len(s)
  OBVIOUS
<1>9. Len(v \o u \o s) \in Nat \ {0}
  BY <1>5, <1>8
<1>10. FieldBytes(f) \in Blob /\ Len(FieldBytes(f)) \in Nat \ {0}
  BY <1>7, <1>8, <1>9 DEF Blob
<1>11. 8 * f.num + f.wt \in Nat /\ Len(f.payload) \in Nat
  BY <1>3, <1>4
<1> QED
  BY <1>1, <1>2, <1>10, <1>11

LEMMA WrittenTyped ==
  ASSUME NEW m \in Messages
  PROVE  /\ \A k \in 0 .. Len(m) : WrittenUpTo(m, k) \in Blob
         /\ Written(m) \in Blob
<1>1. m \in Seq(WireFields) /\ Len(m) \in Nat
  BY WireAssumption
<1> DEFINE S == {k \in Nat : k <= Len(m) => WrittenUpTo(m, k) \in Blob}
<1>2. 0 \in S
  <2>1. WrittenUpTo(m, 0) = <<>> /\ <<>> \in Seq(Byte)
    BY UpIs
  <2> QED
    BY <2>1 DEF Blob
<1>3. ASSUME NEW k \in Nat, k \in S PROVE k + 1 \in S
  <2> SUFFICES ASSUME k + 1 <= Len(m) PROVE WrittenUpTo(m, k + 1) \in Blob
    OBVIOUS
  <2>1. m[k + 1] \in WireFields
    BY <1>1
  <2>2. WrittenUpTo(m, k) \in Seq(Byte) /\ FieldBytes(m[k + 1]) \in Seq(Byte)
    BY <1>1, <1>3, <2>1, FieldIs DEF Blob
  <2>3. WrittenUpTo(m, k + 1) = WrittenUpTo(m, k) \o FieldBytes(m[k + 1])
    BY UpIs
  <2>4. PICK a \in Seq(Byte), c \in Seq(Byte) :
           a = WrittenUpTo(m, k) /\ c = FieldBytes(m[k + 1])
    BY <2>2
  <2>5. a \o c \in Seq(Byte)
    OBVIOUS
  <2> QED
    BY <2>3, <2>4, <2>5 DEF Blob
<1> HIDE DEF S
<1>4. \A k \in Nat : k \in S
  BY <1>2, <1>3, Induct
<1>5. \A k \in 0 .. Len(m) : WrittenUpTo(m, k) \in Blob
  BY <1>1, <1>4 DEF S
<1> QED
  BY <1>1, <1>5 DEF Written

(* The fields of a message lie one behind the other.                       *)
LEMMA UpLies ==
  ASSUME NEW m \in Messages, NEW k \in Nat, NEW l \in Nat, k <= l, l <= Len(m)
  PROVE  /\ Len(WrittenUpTo(m, k)) \in Nat /\ Len(WrittenUpTo(m, l)) \in Nat
         /\ Len(WrittenUpTo(m, k)) <= Len(WrittenUpTo(m, l))
         /\ k < l => Len(WrittenUpTo(m, k)) < Len(WrittenUpTo(m, l))
         /\ \A i \in 1 .. Len(WrittenUpTo(m, k)) : WrittenUpTo(m, l)[i] = WrittenUpTo(m, k)[i]
<1>1. m \in Seq(WireFields) /\ Len(m) \in Nat
  BY WireAssumption
<1> DEFINE Lies(n) ==
        /\ WrittenUpTo(m, n) \in Seq(Byte)
        /\ Len(WrittenUpTo(m, k)) <= Len(WrittenUpTo(m, n))
        /\ k < n => Len(WrittenUpTo(m, k)) < Len(WrittenUpTo(m, n))
        /\ \A i \in 1 .. Len(WrittenUpTo(m, k)) : WrittenUpTo(m, n)[i] = WrittenUpTo(m, k)[i]
           S == {n \in Nat : k <= n /\ n <= Len(m) => Lies(n)}
<1>2. WrittenUpTo(m, k) \in Seq(Byte)
  BY <1>1, WrittenTyped DEF Blob
<1>3. Lies(k)
  BY <1>2
<1>4. 0 \in S
  BY <1>3
<1>5. ASSUME NEW n \in Nat, n \in S PROVE n + 1 \in S
  <2> SUFFICES ASSUME k <= n + 1, n + 1 <= Len(m) PROVE Lies(n + 1)
    OBVIOUS
  <2>1. CASE k = n + 1
    BY <1>3, <2>1
  <2>2. CASE k <= n
    <3>1. PICK s : s = WrittenUpTo(m, n) /\ s \in Seq(Byte) /\ Lies(n)
      BY <1>1, <1>5, <2>2
    <3>2. PICK c \in Seq(Byte) : c = FieldBytes(m[n + 1]) /\ Len(c) \in Nat \ {0}
      <4>1. m[n + 1] \in WireFields
        BY <1>1
      <4> QED
        BY <4>1, FieldIs DEF Blob
    <3>3. WrittenUpTo(m, n + 1) = s \o c
      BY <3>1, <3>2, UpIs
    <3>4. /\ s \o c \in Seq(Byte) /\ Len(s \o c) = Len(s) + Len(c)
          /\ \A i \in 1 .. Len(s) : (s \o c)[i] = s[i]
      BY <3>1
    <3>5. PICK a \in Seq(Byte) : a = WrittenUpTo(m, k)
      BY <1>2
    <3>6. /\ Len(a) <= Len(s) /\ \A i \in 1 .. Len(a) : s[i] = a[i]
      BY <3>1, <3>5
    <3>7. /\ Len(a) < Len(s \o c) /\ \A i \in 1 .. Len(a) : (s \o c)[i] = a[i]
      BY <3>1, <3>2, <3>4, <3>6
    <3>8. /\ Len(a) <= Len(s \o c) /\ k <= n + 1
      BY <3>4, <3>5, <3>7
    <3> QED
      BY <3>3, <3>4, <3>5, <3>7, <3>8
  <2> QED
    BY <2>1, <2>2
<1> HIDE DEF S
<1>6. l \in S
  BY <1>4, <1>5, Induct
<1> QED
  BY <1>2, <1>6 DEF S

(* What the loops can give.                                                *)
Results == Blob \cup {<<n>> : n \in 0 .. Words - 1}

(* Every turn but the last one has taken a byte.                           *)
WireInv ==
  /\ WireTypeOK
  /\ path # <<>> => turns < p
  /\ TurnsAreBounded

LEMMA WireStart == WireInit => WireInv
<1> SUFFICES ASSUME WireInit PROVE WireInv
  OBVIOUS
<1>1. blob \in Blob
  <2>1. CASE \E m \in Messages : \E n \in 0 .. Len(Written(m)) : blob = SubSeq(Written(m), 1, n)
    <3>1. PICK m \in Messages : \E n \in 0 .. Len(Written(m)) : blob = SubSeq(Written(m), 1, n)
      BY <2>1
    <3>2. PICK w \in Blob : w = Written(m)
      BY WrittenTyped
    <3> QED
      BY <3>1, <3>2 DEF Blob
  <2> QED
    BY <2>1, WireAssumption DEF WireInit
<1>2. Len(blob) \in Nat
  BY <1>1 DEF Blob
<1>3. path = SubSeq(wanted, 0 + 1, Len(wanted)) /\ 0 \in 0 .. Len(wanted)
  <2>1. PICK s \in Seq(Nat \X {0, 2, 5}) : s = wanted
    BY WireAssumption DEF WireInit
  <2>2. s = SubSeq(s, 0 + 1, Len(s)) /\ Len(s) \in Nat
    OBVIOUS
  <2> QED
    BY <2>1, <2>2 DEF WireInit
<1> QED
  BY <1>1, <1>2, <1>3 DEF WireInit, WireInv, WireTypeOK, TurnsAreBounded

LEMMA WireStep == WireInv /\ [WireNext]_wireVars => WireInv'
<1> SUFFICES ASSUME WireInv, [WireNext]_wireVars PROVE WireInv'
  OBVIOUS
<1> USE DEF WireInv, WireTypeOK, TurnsAreBounded
<1>1. PICK l \in Nat : l = Len(blob)
  BY BlobIs
<1>2. ASSUME WireNext PROVE WireInv'
  <2>1. PICK t : /\ t = Turn /\ path # <<>>
                 /\ NotFound(t) \/ SkipField(t) \/ Descend(t) \/ FindField(t)
    BY <1>2 DEF WireNext
  <2>2. t.good => t.from \in p + 1 .. end + 1 /\ t.next \in t.from .. end + 1
    BY <1>1, <2>1, TurnTakes
  <2>3. /\ turns' = turns + 1 /\ UNCHANGED <<message, blob, wanted>>
        /\ turns < p /\ p \in 1 .. end + 1 /\ end \in 0 .. l /\ turns \in Nat
        /\ blob \in Blob /\ found \subseteq Results
    BY <1>1, <2>1 DEF NotFound, SkipField, Descend, FindField, WireFrame, Results
  <2>4. PICK s \in Seq(Nat \X {0, 2, 5}) : s = wanted
    BY WireAssumption
  <2>5. PICK n \in 0 .. Len(s) : path = SubSeq(s, n + 1, Len(s))
    BY <2>4
  <2>6. ASSUME NEW k \in 0 .. Len(s), path' = SubSeq(s, k + 1, Len(s)),
               p' \in 1 .. end' + 1, end' \in 0 .. l, found' \in SUBSET Results,
               path' # <<>> => turns' < p', turns' <= l + 1
        PROVE  WireInv'
    <3>1. Len(blob') = l /\ Len(wanted') = Len(s) /\ wanted' = s
      BY <1>1, <2>3, <2>4
    <3>2. \E i \in 0 .. Len(wanted') : path' = SubSeq(wanted', i + 1, Len(wanted'))
      BY <2>6, <3>1
    <3>3. /\ message' # <<>> => message' \in Messages
          /\ blob' \in Blob /\ wanted' \in WantedPaths /\ turns' \in Nat
      BY <2>3
    <3>5. p' \in 1 .. end' + 1 /\ end' \in 0 .. Len(blob') /\ found' \subseteq Results
      BY <2>6, <3>1
    <3>4. WireTypeOK'
      BY <3>2, <3>3, <3>5 DEF WireTypeOK, Results
    <3> QED
      BY <2>6, <3>1, <3>4 DEF WireInv, TurnsAreBounded
  <2>7. turns' \in Nat /\ turns' <= p /\ turns' <= l + 1
    BY <1>1, <2>3
  <2>8. Len(s) \in 0 .. Len(s) /\ <<>> = SubSeq(s, Len(s) + 1, Len(s))
    OBVIOUS
  <2> HIDE DEF WireInv, TurnsAreBounded
  <2>9. CASE NotFound(t)
    BY <2>3, <2>6, <2>7, <2>8, <2>9 DEF NotFound
  <2>10. CASE SkipField(t)
    <3>1. p' = t.next /\ UNCHANGED <<path, end, found>>
      BY <2>10 DEF SkipField
    <3>2. p' \in 1 .. end + 1 /\ p < p'
      BY <2>2, <2>3, <2>10, <3>1 DEF SkipField
    <3>3. turns' < p' /\ p' \in 1 .. end' + 1 /\ end' \in 0 .. l /\ found' \in SUBSET Results
      BY <2>3, <2>7, <3>1, <3>2
    <3> QED
      BY <2>5, <2>6, <2>7, <3>1, <3>3
  <2>11. CASE Descend(t)
    <3>1. path # <<>> /\ path \in Seq(Nat \X {0, 2, 5}) /\ Len(s) \in Nat
      BY <2>1, <2>5
    <3>2. n < Len(s)
      BY <2>5, <3>1
    <3>3. n + 1 \in 0 .. Len(s) /\ Tail(path) = SubSeq(s, (n + 1) + 1, Len(s))
      BY <2>5, <3>1, <3>2
    <3>4. p' \in 1 .. end' + 1 /\ end' \in 0 .. l /\ turns' < p'
      BY <2>2, <2>3, <2>7, <2>11 DEF Descend
    <3> QED
      BY <2>3, <2>6, <2>7, <2>11, <3>3, <3>4 DEF Descend
  <2>12. CASE FindField(t)
    <3>1. Sought(t) \in Results
      <4>1. SubSeq(blob, t.from, t.next - 1) \in Blob
        BY <1>1, <2>2, <2>3, <2>12, BlobIs DEF FindField
      <4>2. t.from \in Nat \ {0} /\ end \in 0 .. Len(blob)
        BY <1>1, <2>2, <2>3, <2>12 DEF FindField
      <4>3. ReadVarint(t.from, end).value \in 0 .. Words - 1
        BY <2>3, <4>2, VarintRead
      <4> QED
        BY <4>1, <4>3 DEF Sought, Results
    <3> QED
      BY <2>3, <2>6, <2>7, <2>8, <2>12, <3>1 DEF FindField
  <2> QED
    BY <2>1, <2>9, <2>10, <2>11, <2>12
<1>3. CASE UNCHANGED wireVars
  BY <1>3 DEF wireVars
<1> QED
  BY <1>2, <1>3

(* WireTypeOK: the bytes, the path and the place in the bytes, at any      *)
(* depth and of whatever bytes.                                            *)
THEOREM WireTypes == WireSpec => []WireTypeOK
<1>1. WireInv => WireTypeOK
  BY DEF WireInv
<1> QED
  BY <1>1, WireStart, WireStep, PTL DEF WireSpec

(* TurnsAreBounded: for any bytes, whoever wrote them, and any path.       *)
THEOREM TurnsAreFew == WireSpec => []TurnsAreBounded
<1>1. WireInv => TurnsAreBounded
  BY DEF WireInv
<1> QED
  BY <1>1, WireStart, WireStep, PTL DEF WireSpec

-----------------------------------------------------------------------------
(* FindIsExact: what ReadVarint makes of a number that was written.        *)

LEMMA HornerAgrees ==
  ASSUME NEW n \in Nat, NEW m \in Nat, n <= m, NEW b, NEW f, NEW g, NEW h, NEW d,
         Horner(f, g, b, m), Horner(h, d, b, n), \A k \in 0 .. n : g[k] = d[k]
  PROVE  \A k \in 0 .. n : f[k] = h[k]
<1> DEFINE S == {k \in Nat : k <= n => f[k] = h[k]}
<1>1. \A k \in 0 .. n : /\ f[k] = g[k] + IF k = 0 THEN 0 ELSE b * f[k - 1]
                        /\ h[k] = d[k] + IF k = 0 THEN 0 ELSE b * h[k - 1]
  <2>1. \A k \in 0 .. n : k \in 0 .. m
    OBVIOUS
  <2> QED
    BY <2>1 DEF Horner
<1>2. 0 \in S
  <2>1. 0 \in 0 .. n
    OBVIOUS
  <2> QED
    BY <1>1, <2>1
<1>3. ASSUME NEW k \in Nat, k \in S PROVE k + 1 \in S
  <2>1. ASSUME k + 1 <= n PROVE f[k + 1] = h[k + 1]
    <3>1. k + 1 \in 0 .. n /\ k + 1 # 0 /\ (k + 1) - 1 = k /\ k <= n
      BY <2>1
    <3>2. f[k + 1] = g[k + 1] + b * f[k] /\ h[k + 1] = d[k + 1] + b * h[k]
      BY <1>1, <3>1
    <3>3. f[k] = h[k] /\ g[k + 1] = d[k + 1]
      BY <1>3, <3>1
    <3> QED
      BY <3>2, <3>3
  <2> QED
    BY <2>1
<1> HIDE DEF S
<1>4. \A k \in Nat : k \in S
  BY <1>2, <1>3, Induct
<1> QED
  BY <1>4 DEF S

LEMMA GroupsStep ==
  ASSUME blob \in Blob, NEW i \in 1 .. Len(blob), NEW j \in i .. Len(blob)
  PROVE  /\ i = j => Groups(i, j) = blob[i] % Radix
         /\ i < j => /\ Groups(i, j) = (blob[i] % Radix) + Radix * Groups(i + 1, j)
                     /\ Groups(i + 1, j) \in Nat
<1> DEFINE g(k) == [n \in 0 .. j - k |-> blob[j - n] % Radix]
<1>1. i \in Nat /\ j \in Nat /\ i <= j /\ j - i \in Nat /\ Len(blob) \in Nat
  BY BlobIs
<1>2. PICK f : Horner(f, g(i), Radix, j - i) /\ Groups(i, j) = f[j - i]
  BY <1>1, GroupsAre
<1>3. f[j - i] = g(i)[j - i] + IF j - i = 0 THEN 0 ELSE Radix * f[(j - i) - 1]
  <2>1. j - i \in 0 .. j - i
    BY <1>1
  <2> HIDE DEF g
  <2> QED
    BY <1>2, <2>1 DEF Horner
<1>4. g(i)[j - i] = blob[i] % Radix
  <2>1. j - i \in 0 .. j - i /\ j - (j - i) = i
    BY <1>1
  <2> QED
    BY <2>1
<1>5. ASSUME i = j PROVE Groups(i, j) = blob[i] % Radix
  <2>1. PICK c \in Nat : c = blob[i] % Radix
    BY BlobIs, Low
  <2>2. Groups(i, j) = c + 0
    BY <1>2, <1>3, <1>4, <1>5, <2>1
  <2> QED
    BY <2>1, <2>2
<1>6. ASSUME i < j PROVE /\ Groups(i, j) = (blob[i] % Radix) + Radix * Groups(i + 1, j)
                         /\ Groups(i + 1, j) \in Nat
  <2>1. i + 1 \in Nat /\ i + 1 <= j /\ j - (i + 1) = (j - i) - 1 /\ (j - i) - 1 \in Nat /\ j - i # 0
        /\ i + 1 \in 1 .. Len(blob) /\ j \in i + 1 .. Len(blob)
    BY <1>1, <1>6
  <2>2. PICK h : Horner(h, g(i + 1), Radix, j - (i + 1)) /\ Groups(i + 1, j) = h[j - (i + 1)]
    BY <1>1, <2>1, GroupsAre
  <2>3. \A k \in 0 .. j - (i + 1) : g(i)[k] = g(i + 1)[k]
    BY <1>1, <2>1
  <2> HIDE DEF g
  <2>4. f[(j - i) - 1] = h[(j - i) - 1]
    <3>1. PICK n \in Nat : n = j - (i + 1) /\ n <= j - i
      BY <1>1, <2>1
    <3>2. \A k \in 0 .. n : f[k] = h[k]
      BY <1>1, <1>2, <2>2, <2>3, <3>1, HornerAgrees
    <3>3. n \in 0 .. n
      BY <3>1
    <3> QED
      BY <2>1, <3>1, <3>2, <3>3
  <2>5. Groups(i + 1, j) \in Nat
    BY <2>1, GroupsTyped
  <2> QED
    BY <1>2, <1>3, <1>4, <2>1, <2>2, <2>4, <2>5
<1> QED
  BY <1>5, <1>6

-----------------------------------------------------------------------------
(* The sequence s was written at i, and what of it lies below e is there.  *)
Lies(s, i, e) == \A q \in 1 .. Len(s) : i + q - 1 <= e => blob[i + q - 1] = s[q]

LEMMA LiesInParts ==
  ASSUME NEW s \in Blob, NEW t \in Blob, NEW i \in Nat \ {0}, NEW e \in Nat, Lies(s \o t, i, e)
  PROVE  Lies(s, i, e) /\ Lies(t, i + Len(s), e)
<1>1. /\ s \in Seq(Byte) /\ t \in Seq(Byte) /\ Len(s) \in Nat /\ Len(t) \in Nat
      /\ Len(s \o t) = Len(s) + Len(t)
      /\ \A q \in 1 .. Len(s) : (s \o t)[q] = s[q]
      /\ \A q \in 1 .. Len(t) : (s \o t)[Len(s) + q] = t[q]
  BY DEF Blob
<1>2. ASSUME NEW q \in 1 .. Len(s), i + q - 1 <= e PROVE blob[i + q - 1] = s[q]
  <2>1. q \in 1 .. Len(s \o t)
    BY <1>1
  <2> QED
    BY <1>1, <1>2, <2>1 DEF Lies
<1>3. ASSUME NEW q \in 1 .. Len(t), (i + Len(s)) + q - 1 <= e
      PROVE  blob[(i + Len(s)) + q - 1] = t[q]
  <2>1. PICK x : x = Len(s) + q /\ x \in 1 .. Len(s \o t) /\ i + x - 1 = (i + Len(s)) + q - 1
    BY <1>1
  <2>2. blob[i + x - 1] = (s \o t)[x]
    BY <1>3, <2>1 DEF Lies
  <2> QED
    BY <1>1, <2>1, <2>2
<1> QED
  BY <1>2, <1>3 DEF Lies

(* One number: the last byte is the only one below Radix.                  *)
IsVarint(s) ==
  /\ s # <<>>
  /\ \A i \in DOMAIN s : s[i] < Radix <=> i = Len(s)
  /\ (Len(s) - 1) * Group < Width

(* ReadVarint ends with the last byte of the number, if that is there.     *)
LEMMA EndedAt ==
  ASSUME blob \in Blob, NEW i \in Nat \ {0}, NEW e \in 0 .. Len(blob),
         NEW s \in Blob, IsVarint(s), Lies(s, i, e), NEW l \in Nat \ {0}, l = Len(s)
  PROVE  /\ i + l - 1 <= e => Ended(i, e) = {i + l - 1}
         /\ e < i + l - 1 => Ended(i, e) = {}
<1>1. /\ \A q \in 1 .. l : (s[q] < Radix) <=> (q = l)
      /\ (l - 1) * Group < Width /\ e \in Nat /\ Radix \in Nat
  <2>1. DOMAIN s = 1 .. l
    BY DEF Blob
  <2>2. e \in Nat
    BY BlobIs
  <2> QED
    BY <2>1, <2>2, WireConstants DEF IsVarint
<1>2. ASSUME NEW j \in Stops(i, e) PROVE j = i + l - 1
  <2>1. /\ j \in i .. e /\ j \in Nat /\ blob[j] < Radix
        /\ \A k \in i .. j - 1 : blob[k] >= Radix
    BY <1>1 DEF Stops
  <2>2. CASE j < i + l - 1
    <3>1. PICK q \in 1 .. l : q = j - i + 1 /\ i + q - 1 = j /\ q # l
      BY <2>1, <2>2
    <3>2. blob[j] = s[q]
      BY <2>1, <3>1 DEF Lies
    <3> QED
      BY <1>1, <2>1, <3>1, <3>2
  <2>3. CASE j > i + l - 1
    <3>1. i + l - 1 \in i .. j - 1 /\ i + l - 1 <= e /\ l \in 1 .. l
      BY <1>1, <2>1, <2>3
    <3>2. blob[i + l - 1] = s[l]
      BY <3>1 DEF Lies
    <3>3. blob[i + l - 1] >= Radix /\ blob[i + l - 1] < Radix /\ blob[i + l - 1] \in Nat
      <4>1. i + l - 1 \in 1 .. Len(blob)
        BY <1>1, <3>1, BlobIs
      <4> QED
        BY <1>1, <2>1, <3>1, <3>2, <4>1, BlobIs
    <3> QED
      BY <1>1, <3>3
  <2> QED
    BY <1>1, <2>1, <2>2, <2>3
<1>3. ASSUME i + l - 1 <= e PROVE i + l - 1 \in Ended(i, e)
  <2>1. \A q \in 1 .. l : blob[i + q - 1] = s[q]
    <3> TAKE q \in 1 .. l
    <3>1. i + q - 1 <= e
      BY <1>1, <1>3
    <3> QED
      BY <3>1 DEF Lies
  <2>2. blob[i + l - 1] < Radix
    <3>1. l \in 1 .. l
      OBVIOUS
    <3> QED
      BY <1>1, <2>1, <3>1
  <2>3. ASSUME NEW k \in i .. (i + l - 1) - 1 PROVE blob[k] >= Radix
    <3>1. PICK q \in 1 .. l : q = k - i + 1 /\ i + q - 1 = k /\ q # l
      OBVIOUS
    <3>2. k \in 1 .. Len(blob) /\ blob[k] \in Nat
      BY <1>1, <1>3, BlobIs
    <3>3. blob[k] = s[q] /\ ~(s[q] < Radix)
      BY <1>1, <2>1, <3>1
    <3> QED
      BY <1>1, <3>2, <3>3
  <2>4. i + l - 1 \in i .. e /\ (i + l - 1) - i = l - 1
    BY <1>1, <1>3
  <2> QED
    BY <1>1, <2>2, <2>3, <2>4 DEF Ended, Stops
<1>4. ASSUME NEW j \in Ended(i, e) PROVE j = i + l - 1 /\ j <= e
  <2>1. j \in Stops(i, e) /\ j \in i .. e
    BY DEF Ended, Stops
  <2> QED
    BY <1>1, <1>2, <2>1
<1>5. ASSUME i + l - 1 <= e PROVE Ended(i, e) = {i + l - 1}
  BY <1>3, <1>4, <1>5, Zenon
<1>6. ASSUME e < i + l - 1 PROVE Ended(i, e) = {}
  <2>1. ASSUME NEW j \in Ended(i, e) PROVE FALSE
    BY <1>1, <1>4, <1>6, <2>1
  <2> QED
    BY <2>1, Zenon
<1> QED
  BY <1>5, <1>6

LEMMA ReadAt ==
  ASSUME blob \in Blob, NEW i \in Nat \ {0}, NEW e \in 0 .. Len(blob),
         NEW s \in Blob, IsVarint(s), Lies(s, i, e), NEW v, v = ReadVarint(i, e)
  PROVE  /\ Len(s) \in Nat \ {0}
         /\ i + Len(s) - 1 <= e => /\ v.ok /\ v.next = i + Len(s)
                                   /\ v.value = Groups(i, i + Len(s) - 1) % Words
         /\ e < i + Len(s) - 1 => ~v.ok
<1>1. PICK l \in Nat \ {0} : l = Len(s)
  BY DEF IsVarint, Blob
<1>2. ASSUME e < i + l - 1 PROVE ~v.ok
  <2>1. Ended(i, e) = {}
    BY <1>1, <1>2, EndedAt
  <2> QED
    BY <2>1 DEF ReadVarint
<1>3. ASSUME i + l - 1 <= e
      PROVE  v.ok /\ v.next = i + l /\ v.value = Groups(i, i + l - 1) % Words
  <2>1. PICK j \in Nat : j = i + l - 1 /\ j + 1 = i + l
    BY <1>1
  <2>2. Ended(i, e) = {j}
    BY <1>1, <1>3, <2>1, EndedAt
  <2>3. (CHOOSE k \in Ended(i, e) : TRUE) = j /\ Ended(i, e) # {}
    BY <2>2
  <2>4. v = [ok |-> TRUE, value |-> Groups(i, j) % Words, next |-> j + 1]
    BY <2>3 DEF ReadVarint
  <2> QED
    BY <2>1, <2>4
<1> QED
  BY <1>1, <1>2, <1>3

(* The groups of a number that was written are this number.                *)
LEMMA ValueIs ==
  ASSUME blob \in Blob, NEW m \in Nat
  PROVE  \A i \in 1 .. Len(blob) :
           i + Len(Varint(m)) - 1 <= Len(blob) /\ Lies(Varint(m), i, Len(blob)) =>
             Groups(i, i + Len(Varint(m)) - 1) = m
<1> DEFINE Good(n) == \A i \in 1 .. Len(blob) :
           i + Len(Varint(n)) - 1 <= Len(blob) /\ Lies(Varint(n), i, Len(blob)) =>
             Groups(i, i + Len(Varint(n)) - 1) = n
           S == {n \in Nat : Good(n)}
<1>1. ASSUME NEW n \in Nat, \A k \in 0 .. n - 1 : k \in S PROVE n \in S
  <2> SUFFICES ASSUME NEW i \in 1 .. Len(blob), i + Len(Varint(n)) - 1 <= Len(blob),
                      Lies(Varint(n), i, Len(blob))
               PROVE  Groups(i, i + Len(Varint(n)) - 1) = n
    OBVIOUS
  <2>1. PICK a \in Nat, c \in Nat, b \in Nat :
          /\ a = n % Radix /\ c = n \div Radix /\ b = Radix /\ a < b /\ n = b * c + a /\ b >= 2
    <3>1. PICK b \in Nat : b = Radix /\ b >= 2
      BY WireConstants
    <3>2. n % b = n - b * (n \div b) /\ n \div b \in Nat /\ n % b \in 0 .. b - 1
      BY <3>1
    <3>3. PICK q \in Nat, u \in 0 .. b - 1 : q = n \div b /\ u = n % b
      BY <3>2
    <3>4. n = b * q + u
      BY <3>2, <3>3
    <3>5. u \in Nat /\ u < b
      BY <3>1
    <3> QED
      BY <3>1, <3>3, <3>4, <3>5, Zenon
  <2>2. PICK l \in Nat : l = Len(blob)
    BY BlobIs
  <2>3. PICK s \in Blob : s = Varint(n) /\ Len(s) \in Nat \ {0}
    BY VarintShape
  <2>4. blob[i] = s[1] /\ i \in Nat \ {0}
    <3>1. 1 \in 1 .. Len(s) /\ i + 1 - 1 = i /\ i <= Len(blob)
      BY <2>2, <2>3
    <3> QED
      BY <2>3, <3>1 DEF Lies
  <2>5. CASE n = n % Radix
    <3>1. s = <<a>>
      BY <2>1, <2>3, <2>5, VarintIs, Zenon
    <3>2. Len(s) = 1 /\ s[1] = a
      BY <3>1
    <3>3. i + Len(s) - 1 = i /\ i \in i .. Len(blob)
      BY <2>2, <3>2
    <3>4. Groups(i, i) = blob[i] % Radix
      BY <3>3, GroupsStep
    <3> QED
      BY <2>1, <2>3, <2>4, <2>5, <3>2, <3>3, <3>4, Zenon
  <2>6. CASE n # n % Radix
    <3>1. c \in 0 .. n - 1
      BY <2>1, <2>6, Low, Zenon
    <3>2. PICK t \in Blob : t = Varint(c) /\ Len(t) \in Nat \ {0}
      BY VarintShape
    <3>3. s = <<a + b>> \o t
      BY <2>1, <2>3, <2>6, <3>2, VarintIs, Zenon
    <3>4. PICK o \in Blob : o = <<a + b>> /\ Len(o) = 1 /\ o[1] = a + b
      <4>1. a + Radix \in Byte
        BY <2>1, WireConstants
      <4>2. PICK x \in Byte : x = a + b
        BY <2>1, <4>1
      <4>3. <<x>> \in Seq(Byte) /\ Len(<<x>>) = 1 /\ <<x>>[1] = x
        OBVIOUS
      <4> QED
        BY <4>2, <4>3 DEF Blob
    <3>5. /\ Len(s) = Len(t) + 1 /\ s[1] = a + b
      BY <3>2, <3>3, <3>4 DEF Blob
    <3>6. Lies(t, i + 1, Len(blob))
      <4>1. Lies(o \o t, i, Len(blob)) /\ Len(blob) \in Nat /\ i \in Nat \ {0}
        BY <2>2, <2>3, <2>4, <3>3, <3>4
      <4>2. Lies(t, i + Len(o), Len(blob))
        BY <4>1, LiesInParts
      <4> QED
        BY <3>4, <4>2
    <3>7. PICK j \in Nat : j = i + Len(s) - 1 /\ j = (i + 1) + Len(t) - 1 /\ i < j /\ j \in i .. Len(blob)
                           /\ i + 1 \in 1 .. Len(blob) /\ (i + 1) + Len(t) - 1 <= Len(blob)
      BY <2>2, <2>3, <2>4, <3>2, <3>5
    <3>8. Good(c)
      BY <1>1, <3>1
    <3>9. Groups(i + 1, j) = c
      BY <3>2, <3>6, <3>7, <3>8
    <3>10. Groups(i, j) = (blob[i] % Radix) + Radix * c
      BY <3>7, <3>9, GroupsStep
    <3>11. (a + b) % b = a
      BY <2>1
    <3>12. Groups(i, j) = a + b * c
      BY <2>1, <2>4, <3>5, <3>10, <3>11, Zenon
    <3>13. a + b * c = n
      BY <2>1
    <3> QED
      BY <2>3, <3>7, <3>12, <3>13, Zenon
  <2> QED
    BY <2>5, <2>6
<1> HIDE DEF S
<1>2. m \in S
  BY <1>1, StrongInduct
<1> QED
  BY <1>2 DEF S

LEMMA WrittenNumber ==
  ASSUME NEW n \in Nat, Fits(n)
  PROVE  IsVarint(Varint(n))
<1>1. PICK s \in Blob : /\ s = Varint(n) /\ Len(s) \in Nat \ {0}
                        /\ \A q \in 1 .. Len(s) : (s[q] < Radix) <=> (q = Len(s))
  BY VarintShape
<1>2. DOMAIN s = 1 .. Len(s) /\ s # <<>>
  BY <1>1 DEF Blob
<1> QED
  BY <1>1, <1>2 DEF IsVarint, Fits

NumberIs(v, i, l, n, e) ==
  /\ i + l - 1 <= e => v.ok /\ v.next = i + l /\ v.value = n
  /\ e < i + l - 1 => ~v.ok

LEMMA NumberAt ==
  ASSUME blob \in Blob, NEW i \in Nat \ {0}, NEW e \in 0 .. Len(blob), NEW n \in Nat, Fits(n),
         Lies(Varint(n), i, e), NEW v, v = ReadVarint(i, e)
  PROVE  NumberIs(v, i, Len(Varint(n)), n, e)
<1>1. PICK s \in Blob : s = Varint(n) /\ Len(s) \in Nat \ {0}
  BY VarintShape
<1>2. IsVarint(s)
  BY <1>1, WrittenNumber
<1>3. PICK l \in Nat \ {0} : l = Len(s)
  BY <1>1
<1>4. PICK k \in Nat : k = Len(blob) /\ e <= k /\ e \in Nat
  BY BlobIs
<1>5. ASSUME i + l - 1 <= e PROVE v.ok /\ v.next = i + l /\ v.value = n
  <2>1. v.ok /\ v.next = i + l /\ v.value = Groups(i, i + l - 1) % Words
    BY <1>1, <1>2, <1>3, <1>5, ReadAt
  <2>2. Lies(s, i, Len(blob))
    <3> SUFFICES ASSUME NEW q \in 1 .. l PROVE blob[i + q - 1] = s[q]
      BY <1>3 DEF Lies
    <3>1. i + q - 1 <= e
      BY <1>4, <1>5
    <3> QED
      BY <1>1, <1>3, <3>1 DEF Lies
  <2>3. i \in 1 .. Len(blob) /\ i + l - 1 <= Len(blob)
    BY <1>3, <1>4, <1>5
  <2>4. Groups(i, i + l - 1) = n
    BY <1>1, <1>3, <2>2, <2>3, ValueIs
  <2>5. n % Words = n
    <3>1. PICK w \in Nat \ {0} : w = Words /\ n < w
      BY WireConstants DEF Fits
    <3>2. n % w = n
      BY <3>1
    <3> QED
      BY <3>1, <3>2, Zenon
  <2> QED
    BY <2>1, <2>4, <2>5, Zenon
<1>6. ASSUME e < i + l - 1 PROVE ~v.ok
  BY <1>1, <1>2, <1>3, <1>6, ReadAt
<1> QED
  BY <1>1, <1>3, <1>5, <1>6, Zenon DEF NumberIs

-----------------------------------------------------------------------------
(* A field that was written, whole or torn.                                *)

Length(f) == IF f.wt = 2 THEN Varint(Len(f.payload)) ELSE <<>>
Tag(f) == Varint(8 * f.num + f.wt)

LEMMA FieldParts ==
  ASSUME NEW f \in WireFields
  PROVE  /\ FieldBytes(f) = Tag(f) \o (Length(f) \o f.payload)
         /\ Tag(f) \in Blob /\ Length(f) \in Blob /\ Length(f) \o f.payload \in Blob
         /\ Len(Tag(f)) \in Nat \ {0} /\ Len(Length(f)) \in Nat /\ Len(f.payload) \in Nat
         /\ Len(FieldBytes(f)) = Len(Tag(f)) + Len(Length(f)) + Len(f.payload)
<1>1. /\ f.payload \in Blob /\ Len(f.payload) \in Nat /\ 8 * f.num + f.wt \in Nat
  BY FieldIs
<1>2. Tag(f) \in Blob /\ Len(Tag(f)) \in Nat \ {0}
  BY <1>1, VarintShape DEF Tag
<1>3. Length(f) \in Blob
  <2>1. Varint(Len(f.payload)) \in Blob
    BY <1>1, VarintShape, Zenon
  <2>2. <<>> \in Blob
    BY DEF Blob
  <2> QED
    BY <2>1, <2>2 DEF Length
<1>4. FieldBytes(f) = (Tag(f) \o Length(f)) \o f.payload
  BY DEF FieldBytes, Tag, Length
<1>5. PICK a \in Seq(Byte), b \in Seq(Byte), c \in Seq(Byte) :
        a = Tag(f) /\ b = Length(f) /\ c = f.payload
  BY <1>1, <1>2, <1>3 DEF Blob
<1>6. /\ (a \o b) \o c = a \o (b \o c) /\ b \o c \in Seq(Byte)
      /\ Len((a \o b) \o c) = Len(a) + Len(b) + Len(c) /\ Len(b) \in Nat
  OBVIOUS
<1> QED
  BY <1>1, <1>2, <1>3, <1>4, <1>5, <1>6 DEF Blob

LEMMA LengthFirst ==
  ASSUME NEW i, NEW t, NEW v, v = ReadVarint(i, end), t = Payload(2, i)
  PROVE  \E ok : /\ t = [ok |-> ok, from |-> v.next, len |-> v.value]
                 /\ ok = (v.ok /\ Room(v.next, v.value))
BY DEF Payload

PayloadIs(t, i, n, e) ==
  /\ i + n - 1 <= e => t.ok /\ t.from = i /\ t.len = n
  /\ e < i + n - 1 => ~t.ok

(* A payload y with s, the bytes of its length, before it.                 *)
LEMMA PayloadAt ==
  ASSUME blob \in Blob, NEW e \in 0 .. Len(blob), e = end, NEW i \in Nat \ {0},
         NEW wt \in {0, 1, 2, 5}, NEW s \in Blob, NEW y \in Blob,
         NEW a \in Nat, a = Len(s), NEW n \in Nat, n = Len(y),
         Lies(s, i, e), Lies(y, i + a, e),
         wt # 2 => s = <<>>, wt = 0 => IsVarint(y), wt = 1 => n = Fixed64, wt = 5 => n = Fixed32,
         wt = 2 => s = Varint(n) /\ Fits(n), NEW t, t = Payload(wt, i)
  PROVE  PayloadIs(t, i + a, n, e)
<1>1. e \in Nat
  BY BlobIs
<1>2. CASE wt = 0
  <2>1. s = <<>> /\ IsVarint(y)
    BY <1>2
  <2>2. a = 0 /\ i + a = i
    BY <2>1
  <2>3. PICK v : v = ReadVarint(i, end) /\ v = ReadVarint(i, e)
    OBVIOUS
  <2>4. PICK ok : ok = v.ok /\ t = [ok |-> ok, from |-> i, len |-> v.next - i]
    <3>1. t = [ok |-> v.ok, from |-> i, len |-> v.next - i]
      BY <1>2, <2>3 DEF Payload
    <3> QED
      BY <3>1
  <2>5. ASSUME i + n - 1 <= e PROVE v.ok /\ v.next = i + n
    BY <2>1, <2>2, <2>3, <2>5, ReadAt
  <2>6. ASSUME e < i + n - 1 PROVE ~v.ok
    BY <2>1, <2>2, <2>3, <2>6, ReadAt
  <2>7. t.ok = v.ok /\ t.from = i /\ t.len = v.next - i
    BY <2>4
  <2> QED
    BY <2>2, <2>5, <2>6, <2>7 DEF PayloadIs
<1>3. CASE wt \in {1, 5}
  <2>1. s = <<>>
    BY <1>3
  <2>2. a = 0 /\ i + a = i
    BY <2>1
  <2>3. PICK ok : ok = Room(i, n)
    OBVIOUS
  <2>4. t = [ok |-> ok, from |-> i, len |-> n]
    BY <1>3, <2>3 DEF Payload
  <2>5. ok <=> n <= e - i + 1
    BY <2>3 DEF Room
  <2>6. t.ok = ok /\ t.from = i /\ t.len = n
    BY <2>4
  <2>7. n <= e - i + 1 <=> i + n - 1 <= e
    BY <1>1
  <2> QED
    BY <1>1, <2>2, <2>5, <2>6, <2>7 DEF PayloadIs
<1>4. CASE wt = 2
  <2>1. s = Varint(n) /\ Fits(n)
    BY <1>4
  <2>2. a \in Nat \ {0}
    BY <2>1, VarintShape
  <2>3. PICK v : v = ReadVarint(i, end) /\ v = ReadVarint(i, e)
    OBVIOUS
  <2>4. PICK ok : /\ t = [ok |-> ok, from |-> v.next, len |-> v.value]
                  /\ ok = (v.ok /\ Room(v.next, v.value))
    <3>1. t = Payload(2, i)
      BY <1>4, Zenon
    <3>2. v = ReadVarint(i, end)
      BY <2>3
    <3> QED
      BY <3>1, <3>2, LengthFirst
  <2>5. t.ok = ok /\ t.from = v.next /\ t.len = v.value
    BY <2>4
  <2>6. NumberIs(v, i, a, n, e)
    <3>1. Lies(Varint(n), i, e) /\ Len(Varint(n)) = a
      BY <2>1, Zenon
    <3> QED
      BY <2>1, <2>3, <3>1, NumberAt, Zenon
  <2>7. ASSUME i + a - 1 <= e PROVE v.ok /\ v.next = i + a /\ v.value = n
    BY <2>7, <2>6, Zenon DEF NumberIs
  <2>8. ASSUME e < i + a - 1 PROVE ~t.ok
    <3>1. ~v.ok
      BY <2>8, <2>6, Zenon DEF NumberIs
    <3> QED
      BY <2>4, <2>5, <3>1, Zenon
  <2>9. ASSUME i + a + n - 1 <= e PROVE t.ok /\ t.from = i + a /\ t.len = n
    <3>1. v.ok /\ v.next = i + a /\ v.value = n
      BY <1>1, <2>7, <2>9
    <3>2. Room(i + a, n)
      BY <1>1, <2>9 DEF Room
    <3> QED
      BY <2>4, <2>5, <3>1, <3>2, Zenon
  <2>10. ASSUME e < i + a + n - 1, i + a - 1 <= e PROVE ~t.ok
    <3>1. v.ok /\ v.next = i + a /\ v.value = n
      BY <2>7, <2>10
    <3>2. ~Room(i + a, n)
      BY <1>1, <2>10 DEF Room
    <3> QED
      BY <2>4, <2>5, <3>1, <3>2, Zenon
  <2> QED
    BY <1>1, <2>8, <2>9, <2>10 DEF PayloadIs
<1> QED
  BY <1>2, <1>3, <1>4

LEMMA TagParts ==
  ASSUME NEW k \in Nat, NEW w \in 0 .. 7
  PROVE  (8 * k + w) \div 8 = k /\ (8 * k + w) % 8 = w
OBVIOUS

LEMMA SmallRemainder ==
  ASSUME NEW k \in Nat, NEW m \in Nat, k < m
  PROVE  k % m = k
OBVIOUS

(* Where the parts of a field end.                                         *)
Ends(i, a, b, c, n, e) ==
  /\ (i + a) + b = (i + n) - c /\ (i + a) + b + c = i + n
  /\ i + n - 1 <= e => i + a - 1 <= e /\ (i + a) + b + c - 1 <= e /\ i <= e
  /\ e < i + n - 1 => e < (i + a) + b + c - 1
  /\ i + a - 1 <= e \/ e < i + a - 1

LEMMA PartsEnd ==
  ASSUME NEW i \in Nat, NEW a \in Nat \ {0}, NEW b \in Nat, NEW c \in Nat, NEW n, NEW e \in Nat,
         n = a + b + c
  PROVE  Ends(i, a, b, c, n, e)
BY DEF Ends

(* A turn of the loop that begins with a field reads this field.           *)
TurnIs(t, i, n, f, e) ==
  /\ i + n - 1 <= e => /\ t.good /\ t.next = i + n /\ t.from = (i + n) - Len(f.payload)
                       /\ t.match = Matches(f.num, f.wt)
  /\ e < i + n - 1 => ~t.good
  /\ Lies(f.payload, (i + n) - Len(f.payload), e)

LEMMA TurnReads ==
  ASSUME blob \in Blob, NEW e \in 0 .. Len(blob), e = end, NEW i \in Nat \ {0}, i = p,
         NEW f \in WireFields, Lies(FieldBytes(f), i, e),
         NEW n \in Nat, n = Len(FieldBytes(f)), NEW t, t = Turn
  PROVE  TurnIs(t, i, n, f, e)
<1>1. PICK tag : tag = ReadVarint(i, e)
  OBVIOUS
<1>2. PICK number, wt : number = (tag.value \div 8) % Numbers /\ wt = tag.value % 8
  OBVIOUS
<1>3. PICK field : field = Payload(wt, tag.next)
  OBVIOUS
<1>4. PICK good : /\ t = [good |-> good, match |-> Matches(number, wt), from |-> field.from,
                          next |-> field.from + field.len]
                  /\ good = (i <= e /\ tag.ok /\ number # 0 /\ field.ok)
  BY <1>1, <1>2, <1>3 DEF Turn
<1>5. /\ t.good = good /\ t.match = Matches(number, wt) /\ t.from = field.from
      /\ t.next = field.from + field.len
  BY <1>4
<1>6. PICK y \in Blob, s \in Blob, g \in Blob, a \in Nat \ {0}, b \in Nat, c \in Nat :
        /\ y = f.payload /\ s = Length(f) /\ g = Tag(f) /\ s \o y \in Blob
        /\ a = Len(g) /\ b = Len(s) /\ c = Len(y) /\ n = a + b + c
        /\ FieldBytes(f) = g \o (s \o y)
  BY FieldParts, FieldIs, Zenon
<1>7. n = a + b + c /\ c = Len(f.payload) /\ a \in Nat \ {0} /\ b \in Nat /\ c \in Nat
  BY <1>6, Zenon
<1>8. PICK k \in Nat, w \in {0, 1, 2, 5}, m \in Nat :
        k = f.num /\ w = f.wt /\ m = Numbers /\ k # 0 /\ k < m
  BY FieldIs, WireConstants
<1>9. e \in Nat
  BY BlobIs
<1>10. Ends(i, a, b, c, n, e)
  <2>1. i \in Nat
    OBVIOUS
  <2> QED
    BY <1>9, <1>7, <2>1, PartsEnd, Zenon
<1>11. Lies(g, i, e) /\ Lies(s, i + a, e) /\ Lies(y, (i + a) + b, e)
  <2>1. Lies(g, i, e) /\ Lies(s \o y, i + a, e)
    BY <1>6, <1>9, LiesInParts
  <2>2. i + a \in Nat \ {0}
    BY <1>6
  <2> QED
    BY <1>6, <1>9, <2>1, <2>2, LiesInParts
<1>12. 8 * k + w \in Nat /\ Fits(8 * k + w) /\ g = Varint(8 * k + w)
  BY <1>6, <1>8, FieldIs DEF Tag
<1>13. NumberIs(tag, i, a, 8 * k + w, e)
  <2>1. Lies(Varint(8 * k + w), i, e) /\ Len(Varint(8 * k + w)) = a
    BY <1>6, <1>11, <1>12, Zenon
  <2> QED
    BY <1>1, <1>12, <2>1, NumberAt, Zenon
<1>14. ASSUME i + a - 1 <= e PROVE tag.ok /\ tag.next = i + a /\ tag.value = 8 * k + w
  BY <1>14, <1>13, Zenon DEF NumberIs
<1>15. ASSUME e < i + a - 1 PROVE ~t.good
  <2>1. ~tag.ok
    BY <1>15, <1>13, Zenon DEF NumberIs
  <2> QED
    BY <1>4, <1>5, <2>1, Zenon
<1>16. ASSUME i + a - 1 <= e
       PROVE  /\ number = k /\ wt = w /\ number # 0 /\ tag.ok
              /\ (i + a) + b + c - 1 <= e => field.ok /\ field.from = (i + a) + b /\ field.len = c
              /\ e < (i + a) + b + c - 1 => ~field.ok
  <2>1. number = k /\ wt = w
    <3>1. (8 * k + w) \div 8 = k /\ (8 * k + w) % 8 = w
      <4>1. w \in 0 .. 7
        BY <1>8
      <4> QED
        BY <4>1, TagParts
    <3>2. k % m = k
      BY <1>8, SmallRemainder, Zenon
    <3> QED
      BY <1>2, <1>8, <1>14, <1>16, <3>1, <3>2, Zenon
  <2>2. field = Payload(w, i + a) /\ i + a \in Nat \ {0}
    BY <1>3, <1>6, <1>14, <1>16, <2>1
  <2>3. /\ w # 2 => s = <<>>
        /\ w = 0 => IsVarint(y)
        /\ w = 1 => c = Fixed64
        /\ w = 5 => c = Fixed32
        /\ w = 2 => s = Varint(c) /\ Fits(c)
    BY <1>6, <1>8, WireAssumption, WrittenNumber DEF Length
  <2>4. PayloadIs(field, (i + a) + b, c, e)
    <3>1. b = Len(s) /\ c = Len(y) /\ Lies(s, i + a, e) /\ Lies(y, (i + a) + b, e)
      BY <1>6, <1>11, Zenon
    <3> QED
      BY <2>2, <2>3, <3>1, PayloadAt, Zenon
  <2> QED
    BY <1>8, <1>14, <1>16, <2>1, <2>4, Zenon DEF PayloadIs
<1>17. ASSUME i + n - 1 <= e
       PROVE  /\ t.good /\ t.next = i + n /\ t.from = (i + n) - c
              /\ t.match = Matches(f.num, f.wt)
  <2>1. i + a - 1 <= e /\ (i + a) + b + c - 1 <= e /\ i <= e
    BY <1>17, <1>10, Zenon DEF Ends
  <2>2. /\ number = k /\ wt = w /\ number # 0 /\ tag.ok
        /\ field.ok /\ field.from = (i + a) + b /\ field.len = c
    BY <1>16, <2>1
  <2>3. t.good /\ t.match = Matches(f.num, f.wt)
    BY <1>4, <1>5, <1>8, <2>1, <2>2, Zenon
  <2>4. t.from = (i + a) + b /\ t.next = (i + a) + b + c
    BY <1>5, <2>2, Zenon
  <2>5. t.from = (i + n) - c /\ t.next = i + n
    BY <1>10, <2>4, Zenon DEF Ends
  <2> QED
    BY <1>7, <2>3, <2>5, Zenon
<1>18. Lies(f.payload, (i + n) - Len(f.payload), e)
  BY <1>6, <1>11, <1>10, Zenon DEF Ends
<1>19. ASSUME e < i + n - 1, i + a - 1 <= e PROVE ~t.good
  <2>1. ~field.ok
    BY <1>16, <1>19, <1>10, Zenon DEF Ends
  <2> QED
    BY <1>4, <1>5, <2>1, Zenon
<1> QED
  BY <1>15, <1>17, <1>19, <1>7, <1>10, <1>18, Zenon DEF Ends, TurnIs

-----------------------------------------------------------------------------
(* The first of the fields that has a number and a type.                   *)
Named(f, w) == <<f.num, f.wt>> = w

LEMMA LeastIs ==
  ASSUME NEW S, S \subseteq Nat, S # {}
  PROVE  \E i \in S : \A j \in S : i <= j
<1> SUFFICES ASSUME \A i \in S : \E j \in S : ~(i <= j) PROVE FALSE
  OBVIOUS
<1> DEFINE N == {n \in Nat : n \notin S}
<1>1. ASSUME NEW n \in Nat, \A k \in 0 .. n - 1 : k \in N PROVE n \in N
  <2>1. ASSUME n \in S PROVE FALSE
    <3>1. PICK j \in S : ~(n <= j)
      BY <2>1
    <3>2. j \in 0 .. n - 1
      BY <3>1
    <3> QED
      BY <1>1, <3>2
  <2> QED
    BY <2>1
<1> HIDE DEF N
<1>2. \A n \in Nat : n \in N
  BY <1>1, StrongInduct
<1> QED
  BY <1>2 DEF N

LEMMA FirstIs ==
  ASSUME NEW m, NEW l \in Nat, DOMAIN m = 1 .. l, NEW w
  PROVE  /\ (\A q \in 1 .. l : ~Named(m[q], w)) => FirstOf(m, w) = 0
         /\ \A k \in 1 .. l : Named(m[k], w) /\ (\A q \in 1 .. k - 1 : ~Named(m[q], w)) =>
              FirstOf(m, w) = k
         /\ FirstOf(m, w) # 0 => FirstOf(m, w) \in 1 .. l /\ Named(m[FirstOf(m, w)], w)
<1> DEFINE places == {i \in DOMAIN m : <<m[i].num, m[i].wt>> = w}
           IsFirst(i) == i \in places /\ \A j \in places : i <= j
<1>1. \A i : i \in places <=> i \in 1 .. l /\ Named(m[i], w)
  BY DEF Named
<1>2. FirstOf(m, w) = IF places = {} THEN 0 ELSE CHOOSE i \in places : \A j \in places : i <= j
  BY DEF FirstOf
<1> HIDE DEF places
<1>3. ASSUME \A q \in 1 .. l : ~Named(m[q], w) PROVE FirstOf(m, w) = 0
  <2>1. places = {}
    BY <1>1, <1>3
  <2> QED
    BY <1>2, <2>1
<1>4. ASSUME NEW k, IsFirst(k) PROVE IsFirst(FirstOf(m, w))
  <2>1. places # {} /\ \E i \in places : \A j \in places : i <= j
    BY <1>4
  <2> QED
    BY <1>2, <2>1
<1>5. ASSUME NEW k \in 1 .. l, Named(m[k], w), \A q \in 1 .. k - 1 : ~Named(m[q], w)
      PROVE  FirstOf(m, w) = k
  <2>1. k \in places
    BY <1>1, <1>5
  <2>2. ASSUME NEW j \in places PROVE k <= j
    <3>1. j \in 1 .. l /\ Named(m[j], w) /\ j \notin 1 .. k - 1
      BY <1>1, <1>5
    <3> QED
      BY <3>1
  <2>3. IsFirst(FirstOf(m, w))
    BY <1>4, <2>1, <2>2
  <2>4. PICK i : i = FirstOf(m, w) /\ i \in 1 .. l /\ i <= k /\ k <= i
    BY <1>1, <2>1, <2>2, <2>3
  <2> QED
    BY <2>4
<1>6. ASSUME FirstOf(m, w) # 0 PROVE FirstOf(m, w) \in 1 .. l /\ Named(m[FirstOf(m, w)], w)
  <2>1. places # {} /\ places \subseteq Nat
    BY <1>1, <1>2, <1>6
  <2>2. PICK i : IsFirst(i)
    BY <2>1, LeastIs
  <2> QED
    BY <1>1, <1>4, <2>2
<1> QED
  BY <1>3, <1>5, <1>6

-----------------------------------------------------------------------------
(* The submessages on the way down the path.                               *)
LevelIn(f, m, w, n) ==
  f = [k \in 1 .. n |-> IF k = 1 THEN m
                        ELSE LET i == FirstOf(f[k - 1], w[k - 1])
                             IN  IF i = 0 THEN <<>> ELSE f[k - 1][i].sub]

LEMMA LevelExists ==
  ASSUME NEW m, NEW w, NEW l \in Nat
  PROVE  \E f : LevelIn(f, m, w, l)
<1> DEFINE S == {k \in Nat : \E f : LevelIn(f, m, w, k)}
           next(x, k) == LET i == FirstOf(x, w[k]) IN IF i = 0 THEN <<>> ELSE x[i].sub
<1>1. 0 \in S
  <2>1. LevelIn([n \in 1 .. 0 |-> m], m, w, 0)
    BY DEF LevelIn
  <2> QED
    BY <2>1
<1>2. ASSUME NEW k \in Nat, k \in S PROVE k + 1 \in S
  <2>1. PICK f : LevelIn(f, m, w, k)
    BY <1>2
  <2> DEFINE h == [n \in 1 .. k + 1 |-> IF n # k + 1 THEN f[n]
                                        ELSE IF n = 1 THEN m ELSE next(f[k], k)]
  <2>2. ASSUME NEW n \in 1 .. k + 1
        PROVE  h[n] = IF n = 1 THEN m ELSE next(h[n - 1], n - 1)
    <3>1. CASE n = k + 1
      <4>1. n # 1 => n - 1 = k /\ k \in 1 .. k + 1 /\ k # k + 1
        BY <3>1
      <4>2. n # 1 => h[n - 1] = f[k] /\ n - 1 = k
        BY <4>1
      <4> HIDE DEF next
      <4>3. h[n] = IF n = 1 THEN m ELSE next(f[k], k)
        BY <3>1
      <4> QED
        BY <4>2, <4>3, Zenon
    <3>2. CASE n # k + 1
      <4>1. n \in 1 .. k /\ h[n] = f[n] /\ (n # 1 => h[n - 1] = f[n - 1])
        BY <3>2
      <4>2. f[n] = IF n = 1 THEN m ELSE next(f[n - 1], n - 1)
        BY <2>1, <4>1 DEF LevelIn
      <4> HIDE DEF h, next
      <4> QED
        BY <4>1, <4>2, Zenon
    <3> QED
      BY <3>1, <3>2
  <2>3. LevelIn(h, m, w, k + 1)
    <3>1. h = [n \in 1 .. k + 1 |-> IF n = 1 THEN m ELSE next(h[n - 1], n - 1)]
      <4>1. h = [n \in 1 .. k + 1 |-> h[n]]
        OBVIOUS
      <4> HIDE DEF h, next
      <4> QED
        BY <2>2, <4>1
    <3> QED
      BY <3>1 DEF LevelIn
  <2> QED
    BY <2>3
<1> HIDE DEF S
<1>3. l \in S
  BY <1>1, <1>2, Induct
<1> QED
  BY <1>3 DEF S

LEMMA LevelFunction ==
  ASSUME Len(wanted) \in Nat
  PROVE  LevelIn(Levels, message, wanted, Len(wanted))
<1> DEFINE R(f) == f = [k \in 1 .. Len(wanted) |->
                          IF k = 1 THEN message
                          ELSE LET i == FirstOf(f[k - 1], wanted[k - 1])
                               IN  IF i = 0 THEN <<>> ELSE f[k - 1][i].sub]
<1>1. \A f : LevelIn(f, message, wanted, Len(wanted)) <=> R(f)
  BY DEF LevelIn
<1> HIDE DEF R
<1>2. R(CHOOSE f : R(f))
  BY <1>1, LevelExists
<1>3. Levels = (CHOOSE f : R(f))
  BY DEF Levels, R
<1> QED
  BY <1>1, <1>2, <1>3

LEMMA LevelIs ==
  ASSUME NEW f, NEW m, NEW w, NEW n \in Nat \ {0}, LevelIn(f, m, w, n)
  PROVE  /\ f[1] = m
         /\ \A k \in Nat \ {0} : k < n =>
              /\ FirstOf(f[k], w[k]) = 0 => f[k + 1] = <<>>
              /\ FirstOf(f[k], w[k]) # 0 => f[k + 1] = f[k][FirstOf(f[k], w[k])].sub
<1>1. f[1] = m
  <2>1. 1 \in 1 .. n
    OBVIOUS
  <2> QED
    BY <2>1 DEF LevelIn
<1>2. ASSUME NEW k \in Nat \ {0}, k < n
      PROVE  /\ FirstOf(f[k], w[k]) = 0 => f[k + 1] = <<>>
             /\ FirstOf(f[k], w[k]) # 0 => f[k + 1] = f[k][FirstOf(f[k], w[k])].sub
  <2>1. k + 1 \in 1 .. n /\ k + 1 # 1 /\ (k + 1) - 1 = k
    BY <1>2
  <2>2. f[k + 1] = LET i == FirstOf(f[k], w[k]) IN IF i = 0 THEN <<>> ELSE f[k][i].sub
    BY <2>1 DEF LevelIn
  <2> QED
    BY <2>2
<1> QED
  BY <1>1, <1>2

(* Below a message without the field there is nothing.                     *)
LEMMA NothingBelow ==
  ASSUME NEW f, NEW m, NEW w, NEW n \in Nat \ {0}, LevelIn(f, m, w, n),
         NEW d \in 1 .. n, FirstOf(f[d], w[d]) = 0
  PROVE  FirstOf(f[n], w[n]) = 0
<1> DEFINE S == {k \in Nat : d + k <= n => FirstOf(f[d + k], w[d + k]) = 0}
<1>1. 0 \in S
  BY d + 0 = d
<1>2. ASSUME NEW k \in Nat, k \in S PROVE k + 1 \in S
  <2> SUFFICES ASSUME d + (k + 1) <= n PROVE FirstOf(f[d + (k + 1)], w[d + (k + 1)]) = 0
    OBVIOUS
  <2>1. PICK j \in Nat \ {0} : j = d + k /\ j < n /\ d + (k + 1) = j + 1
    OBVIOUS
  <2>2. FirstOf(f[j], w[j]) = 0
    BY <1>2, <2>1
  <2>3. f[j + 1] = <<>>
    BY <2>1, <2>2, LevelIs
  <2>4. FirstOf(<<>>, w[j + 1]) = 0
    <3>1. DOMAIN <<>> = 1 .. 0 /\ 0 \in Nat /\ \A q \in 1 .. 0 : ~Named(<<>>[q], w[j + 1])
      OBVIOUS
    <3> QED
      BY <3>1, FirstIs
  <2> QED
    BY <2>1, <2>3, <2>4
<1> HIDE DEF S
<1>3. \A k \in Nat : k \in S
  BY <1>1, <1>2, Induct
<1>4. n - d \in Nat /\ d + (n - d) = n
  OBVIOUS
<1> QED
  BY <1>3, <1>4 DEF S

(* What was written and is there is what a slice of the bytes is.          *)
LEMMA SliceIs ==
  ASSUME blob \in Blob, NEW s \in Blob, NEW i \in Nat \ {0}, NEW e \in 0 .. Len(blob),
         Lies(s, i, e), NEW n \in Nat, n = Len(s), NEW j, j = i + n - 1, j <= e
  PROVE  SubSeq(blob, i, j) = s
<1>1. PICK l \in Nat : l = Len(blob) /\ e <= l /\ e \in Nat /\ j \in Int /\ j <= l /\ j - i + 1 = n
  BY BlobIs
<1>2. PICK t : /\ t = SubSeq(blob, i, j) /\ t \in Seq(Byte) /\ Len(t) = n
               /\ \A q \in 1 .. n : t[q] = blob[i + q - 1]
  <2>1. PICK b \in Seq(Byte) : b = blob /\ Len(b) = l
    BY <1>1 DEF Blob
  <2>2. SubSeq(b, i, j) \in Seq(Byte) /\ Len(SubSeq(b, i, j)) = n
        /\ \A q \in 1 .. n : SubSeq(b, i, j)[q] = b[i + q - 1]
    BY <1>1, <2>1
  <2> QED
    BY <2>1, <2>2
<1>3. ASSUME NEW q \in 1 .. n PROVE t[q] = s[q]
  <2>1. i + q - 1 <= e
    BY <1>1
  <2> QED
    BY <1>2, <2>1 DEF Lies
<1>4. s \in Seq(Byte)
  BY DEF Blob
<1> QED
  BY <1>2, <1>3, <1>4, SeqEqual

LEMMA LiesBelow ==
  ASSUME NEW s \in Blob, NEW i \in Nat, NEW e \in Nat, NEW c \in Nat, c <= e, Lies(s, i, e)
  PROVE  Lies(s, i, c)
<1>1. ASSUME NEW q \in 1 .. Len(s), i + q - 1 <= c PROVE blob[i + q - 1] = s[q]
  <2>1. i + q - 1 <= e
    BY <1>1
  <2> QED
    BY <2>1 DEF Lies
<1> QED
  BY <1>1 DEF Lies

LEMMA FieldLies ==
  ASSUME NEW m \in Messages, NEW k \in Nat, k < Len(m), NEW b \in Nat, NEW e \in Nat,
         Lies(Written(m), b + 1, e), NEW a, a = Len(WrittenUpTo(m, k))
  PROVE  /\ m[k + 1] \in WireFields /\ a \in Nat
         /\ Lies(FieldBytes(m[k + 1]), b + a + 1, e)
         /\ Len(WrittenUpTo(m, k + 1)) = a + Len(FieldBytes(m[k + 1]))
         /\ Len(WrittenUpTo(m, k + 1)) <= Len(Written(m))
<1>1. m \in Seq(WireFields) /\ Len(m) \in Nat
  BY WireAssumption
<1>2. m[k + 1] \in WireFields
  BY <1>1
<1>3. PICK j \in Nat : j = k + 1 /\ j <= Len(m) /\ j \in 0 .. Len(m) /\ k \in 0 .. Len(m)
  BY <1>1
<1>4. PICK u \in Blob, v \in Blob, f \in Blob :
        /\ u = WrittenUpTo(m, k) /\ v = WrittenUpTo(m, j) /\ f = FieldBytes(m[k + 1]) /\ v = u \o f
  <2>1. WrittenUpTo(m, k) \in Blob /\ WrittenUpTo(m, j) \in Blob
    BY <1>3, WrittenTyped
  <2>2. WrittenUpTo(m, j) = WrittenUpTo(m, k) \o FieldBytes(m[k + 1])
    BY <1>3, UpIs
  <2>3. FieldBytes(m[k + 1]) \in Blob
    BY <1>2, FieldIs
  <2> QED
    BY <2>1, <2>2, <2>3
<1>5. /\ Len(v) \in Nat /\ Len(v) <= Len(Written(m)) /\ Len(Written(m)) \in Nat
      /\ \A q \in 1 .. Len(v) : Written(m)[q] = v[q]
  <2>1. /\ Len(WrittenUpTo(m, j)) \in Nat /\ Len(WrittenUpTo(m, Len(m))) \in Nat
        /\ Len(WrittenUpTo(m, j)) <= Len(WrittenUpTo(m, Len(m)))
        /\ \A i \in 1 .. Len(WrittenUpTo(m, j)) : WrittenUpTo(m, Len(m))[i] = WrittenUpTo(m, j)[i]
    <3>1. PICK l \in Nat : l = Len(m) /\ j <= l
      BY <1>1, <1>3
    <3> QED
      BY <3>1, UpLies
  <2> QED
    BY <1>4, <2>1 DEF Written
<1>6. Lies(v, b + 1, e)
  <2>1. ASSUME NEW q \in 1 .. Len(v), (b + 1) + q - 1 <= e PROVE blob[(b + 1) + q - 1] = v[q]
    <3>1. q \in 1 .. Len(Written(m)) /\ Written(m)[q] = v[q]
      BY <1>5
    <3> QED
      BY <2>1, <3>1 DEF Lies
  <2> QED
    BY <2>1 DEF Lies
<1>7. Lies(f, (b + 1) + Len(u), e)
  <2>1. Lies(u \o f, b + 1, e) /\ b + 1 \in Nat \ {0}
    BY <1>4, <1>6
  <2> QED
    BY <2>1, LiesInParts
<1>8. Len(v) = Len(u) + Len(f) /\ Len(u) \in Nat
  BY <1>4 DEF Blob
<1>9. (b + 1) + Len(u) = b + Len(u) + 1
  BY <1>8
<1> QED
  BY <1>2, <1>3, <1>4, <1>5, <1>7, <1>8, <1>9, Zenon

-----------------------------------------------------------------------------
(* The reader is in the message m, which begins after the byte b, behind   *)
(* its first k fields.                                                     *)
Here(m, b, k) ==
  /\ m \in Messages /\ k <= Len(m)
  /\ Lies(Written(m), b + 1, end)
  /\ end <= b + Len(Written(m))
  /\ p = b + Len(WrittenUpTo(m, k)) + 1

(* Where the field after the first k ones ends.                            *)
Past(m, b, k) == b + Len(WrittenUpTo(m, k + 1))

Whole(t, m, b, k, f) ==
  /\ t.good /\ Past(m, b, k) <= end
  /\ t.next = Past(m, b, k) + 1 /\ t.from = t.next - Len(f.payload) /\ t.from \in Nat \ {0}
  /\ t.match = Matches(f.num, f.wt)
  /\ Lies(f.payload, t.from, end)

LEMMA TurnHere ==
  ASSUME blob \in Blob, end \in 0 .. Len(blob), NEW m, NEW b \in Nat, NEW k \in Nat, Here(m, b, k),
         NEW t, t = Turn
  PROVE  /\ k = Len(m) => ~t.good
         /\ k < Len(m) =>
              /\ m[k + 1] \in WireFields /\ Past(m, b, k) \in Nat /\ end \in Nat
              /\ Past(m, b, k) <= b + Len(Written(m))
              /\ end < Past(m, b, k) => ~t.good
              /\ Past(m, b, k) <= end => Whole(t, m, b, k, m[k + 1])
<1>1. PICK e : e = end /\ e \in Nat /\ e \in 0 .. Len(blob)
  BY BlobIs
<1>2. m \in Messages /\ Lies(Written(m), b + 1, e) /\ e <= b + Len(Written(m))
  BY <1>1 DEF Here
<1>3. ASSUME k = Len(m) PROVE ~t.good
  <2>1. p = b + Len(Written(m)) + 1
    BY <1>3 DEF Here, Written
  <2>2. Len(Written(m)) \in Nat
    BY <1>2, WrittenTyped DEF Blob
  <2>3. ~(p <= end)
    BY <1>1, <1>2, <2>1, <2>2
  <2> QED
    BY <2>3 DEF Turn
<1>4. ASSUME k < Len(m)
      PROVE  /\ m[k + 1] \in WireFields /\ Past(m, b, k) \in Nat /\ end \in Nat
             /\ Past(m, b, k) <= b + Len(Written(m))
             /\ end < Past(m, b, k) => ~t.good
             /\ Past(m, b, k) <= end => Whole(t, m, b, k, m[k + 1])
  <2>1. PICK f, a, i : f = m[k + 1] /\ a = Len(WrittenUpTo(m, k)) /\ i = p
    OBVIOUS
  <2>2. /\ f \in WireFields /\ a \in Nat /\ Lies(FieldBytes(f), b + a + 1, e)
        /\ Len(WrittenUpTo(m, k + 1)) = a + Len(FieldBytes(f))
        /\ Len(WrittenUpTo(m, k + 1)) <= Len(Written(m))
    BY <1>1, <1>2, <1>4, <2>1, FieldLies, Zenon
  <2>3. PICK n \in Nat : n = Len(FieldBytes(f))
    BY <2>2, FieldIs
  <2>4. i = b + a + 1 /\ i \in Nat \ {0}
    BY <2>1, <2>2 DEF Here
  <2>5. PICK x \in Nat : x = Past(m, b, k) /\ x = i + n - 1 /\ x + 1 = i + n /\ x <= b + Len(Written(m))
    <3>1. Len(Written(m)) \in Nat
      BY <1>2, WrittenTyped DEF Blob
    <3>2. Past(m, b, k) = b + (a + n)
      BY <2>2, <2>3 DEF Past
    <3>3. b + (a + n) <= b + Len(Written(m))
      BY <2>2, <2>3, <3>1
    <3> QED
      BY <2>2, <2>4, <3>1, <3>2, <3>3
  <2>6. TurnIs(t, i, n, f, e)
    <3>1. Lies(FieldBytes(f), i, e)
      BY <2>2, <2>4, Zenon
    <3>2. f \in WireFields /\ i \in Nat \ {0} /\ i = p /\ e = end /\ e \in 0 .. Len(blob)
      BY <1>1, <2>1, <2>2, <2>4, Zenon
    <3> QED
      BY <2>3, <3>1, <3>2, TurnReads
  <2>7. (i + n) - Len(f.payload) \in Nat \ {0}
    <3>1. PICK c \in Nat : c = Len(f.payload) /\ c <= n
      <4>1. /\ Len(FieldBytes(f)) = Len(Tag(f)) + Len(Length(f)) + Len(f.payload)
            /\ Len(Tag(f)) \in Nat /\ Len(Length(f)) \in Nat /\ Len(f.payload) \in Nat
        BY <2>2, FieldParts
      <4>2. PICK z \in Nat, y \in Nat, c \in Nat : z = Len(Tag(f)) /\ y = Len(Length(f)) /\ c = Len(f.payload)
        BY <4>1
      <4>3. n = z + y + c
        BY <2>3, <4>1, <4>2
      <4>4. c <= n
        BY <4>3
      <4> QED
        BY <4>2, <4>4
    <3>2. (i + n) - c \in Nat \ {0}
      BY <2>4, <3>1
    <3> QED
      BY <3>1, <3>2
  <2>8. ASSUME Past(m, b, k) <= end PROVE Whole(t, m, b, k, f)
    <3>1. i + n - 1 <= e
      BY <1>1, <2>5, <2>8, Zenon
    <3>2. t.next = Past(m, b, k) + 1
      BY <2>5, <2>6, <3>1, Zenon DEF TurnIs
    <3>3. t.from = (i + n) - Len(f.payload) /\ t.next = i + n /\ t.good /\ t.match = Matches(f.num, f.wt)
      BY <2>6, <3>1, Zenon DEF TurnIs
    <3>4. t.from \in Nat \ {0} /\ Lies(f.payload, t.from, end)
      BY <1>1, <2>6, <2>7, <3>3, Zenon DEF TurnIs
    <3> QED
      BY <2>8, <3>2, <3>3, <3>4, Zenon DEF Whole
  <2>9. ASSUME end < Past(m, b, k) PROVE ~t.good
    BY <1>1, <2>5, <2>6, <2>9, Zenon DEF TurnIs
  <2> QED
    BY <1>1, <2>1, <2>2, <2>5, <2>8, <2>9, Zenon
<1> QED
  BY <1>3, <1>4

RestOf(s, w, d, n) ==
  s # <<>> /\ Len(s) = n - d + 1 /\ Head(s) = w[d] /\ Tail(s) = SubSeq(w, d + 1, n)

LEMMA RestIs ==
  ASSUME NEW T, NEW w \in Seq(T), NEW n \in Nat, n = Len(w), NEW d \in 1 .. n,
         NEW s, s = SubSeq(w, d, n)
  PROVE  RestOf(s, w, d, n)
<1>1. s \in Seq(T) /\ Len(s) = n - d + 1 /\ s[1] = w[d]
  OBVIOUS
<1>2. s # <<>>
  <2>1. PICK k \in Nat : k = n - d + 1 /\ k # 0
    OBVIOUS
  <2>2. Len(s) # 0
    BY <1>1, <2>1, Zenon
  <2>3. Len(<<>>) = 0
    OBVIOUS
  <2> QED
    BY <2>2, <2>3, Zenon
<1>3. \A x \in Seq(T) : x # <<>> => Head(x) = x[1]
  OBVIOUS
<1>4. s # <<>> /\ Head(s) = s[1]
  BY <1>1, <1>2, <1>3, Zenon
<1>5. Tail(s) = SubSeq(w, d + 1, n)
  OBVIOUS
<1> QED
  BY <1>1, <1>4, <1>5 DEF RestOf

LEMMA WantedIs ==
  ASSUME wanted \in WantedPaths
  PROVE  /\ Len(wanted) \in Nat \ {0} /\ wanted = SubSeq(wanted, 1, Len(wanted))
         /\ \A d \in 1 .. Len(wanted) : \A s : s = SubSeq(wanted, d, Len(wanted)) =>
              /\ s # <<>> /\ Len(s) = Len(wanted) - d + 1 /\ Head(s) = wanted[d]
              /\ Tail(s) = SubSeq(wanted, d + 1, Len(wanted))
              /\ d < Len(wanted) => wanted[d][2] = 2
<1>1. /\ wanted # <<>> /\ wanted \in Seq(Nat \X {0, 2, 5})
      /\ \A i \in 1 .. Len(wanted) - 1 : wanted[i][2] = 2
  BY WireAssumption
<1>2. PICK w \in Seq(Nat \X {0, 2, 5}), n \in Nat \ {0} : w = wanted /\ n = Len(w)
  BY <1>1
<1>3. w = SubSeq(w, 1, n)
  BY <1>2
<1>4. ASSUME NEW d \in 1 .. n, NEW s, s = SubSeq(w, d, n)
      PROVE  /\ s # <<>> /\ Len(s) = n - d + 1 /\ Head(s) = w[d]
             /\ Tail(s) = SubSeq(w, d + 1, n)
             /\ d < n => w[d][2] = 2
  <2>1. RestOf(s, w, d, n)
    <3>1. PICK T : T = Nat \X {0, 2, 5}
      OBVIOUS
    <3>2. w \in Seq(T)
      BY <3>1
    <3> QED
      BY <1>2, <1>4, <3>2, RestIs, Zenon
  <2>2. d < n => w[d][2] = 2
    BY <1>1, <1>2
  <2> QED
    BY <2>1, <2>2 DEF RestOf
<1> QED
  BY <1>2, <1>3, <1>4

(* The first k fields of the message are not the wanted one.               *)
NoneIs(m, w, k) == \A q \in 1 .. k : ~Named(m[q], w)

(* The outermost of the wanted fields lies in what is left of the message. *)
There ==
  LET outer == FirstOf(message, wanted[1])
  IN  outer # 0 /\ Len(WrittenUpTo(message, outer)) <= Len(blob)

(* The d-th of the wanted fields is looked for in the d-th of the messages *)
(* f, which is there as a whole if it is not the outermost one.            *)
Looking(f, d, b, k) ==
  /\ found = {} /\ path = SubSeq(wanted, d, Len(wanted))
  /\ Here(f[d], b, k) /\ NoneIs(f[d], wanted[d], k)
  /\ d = 1 => b = 0 /\ end = Len(blob)
  /\ d # 1 => There /\ end = b + Len(Written(f[d]))

EndsWith(f) ==
  LET n == Len(wanted)
      i == FirstOf(f[n], wanted[n])
  IN  found = IF There /\ i # 0 THEN {Datum(f[n][i])} ELSE {}

AreLevels(f) == LevelIn(f, message, wanted, Len(wanted))

Goes(f) ==
  /\ path = <<>> => EndsWith(f)
  /\ path # <<>> => \E d \in 1 .. Len(wanted), b \in Nat, k \in Nat : Looking(f, d, b, k)

FindInv == message # <<>> => \A f : AreLevels(f) => Goes(f)

LEMMA LevelsAre ==
  ASSUME wanted \in WantedPaths, NEW f, AreLevels(f)
  PROVE  /\ f[1] = message
         /\ \A d \in 1 .. Len(wanted) :
              /\ FirstOf(f[d], wanted[d]) = 0 =>
                   FirstOf(f[Len(wanted)], wanted[Len(wanted)]) = 0
              /\ d < Len(wanted) /\ FirstOf(f[d], wanted[d]) # 0 =>
                   f[d + 1] = f[d][FirstOf(f[d], wanted[d])].sub
<1>1. PICK n \in Nat \ {0} : n = Len(wanted)
  BY WantedIs
<1>2. LevelIn(f, message, wanted, n)
  BY <1>1, Zenon DEF AreLevels
<1>3. f[1] = message
  BY <1>2, LevelIs
<1>4. ASSUME NEW d \in 1 .. n, FirstOf(f[d], wanted[d]) = 0 PROVE FirstOf(f[n], wanted[n]) = 0
  BY <1>2, <1>4, NothingBelow
<1>5. ASSUME NEW d \in 1 .. n, d < n, FirstOf(f[d], wanted[d]) # 0
      PROVE  f[d + 1] = f[d][FirstOf(f[d], wanted[d])].sub
  BY <1>2, <1>5, LevelIs
<1> QED
  BY <1>1, <1>3, <1>4, <1>5, Zenon

(* The reader finds no field when there is none, or when the outermost one *)
(* is cut off.                                                             *)
LEMMA NotFoundRightly ==
  ASSUME WireTypeOK, NEW f, AreLevels(f), NEW d \in 1 .. Len(wanted), NEW b \in Nat, NEW k \in Nat,
         Looking(f, d, b, k), NEW t, t = Turn, ~t.good,
         There
  PROVE  FirstOf(f[Len(wanted)], wanted[Len(wanted)]) = 0
<1>1. PICK m : /\ m = f[d] /\ Here(m, b, k) /\ m \in Messages /\ k <= Len(m) /\ Len(m) \in Nat
               /\ DOMAIN m = 1 .. Len(m)
  <2>1. Here(f[d], b, k) /\ f[d] \in Messages /\ k <= Len(f[d])
    BY DEF Looking, Here
  <2>2. f[d] \in Seq(WireFields)
    BY <2>1, WireAssumption
  <2> QED
    BY <2>1, <2>2
<1>2. blob \in Blob /\ end \in 0 .. Len(blob) /\ wanted \in WantedPaths
  BY DEF WireTypeOK
<1>3. CASE k = Len(m)
  <2>1. FirstOf(m, wanted[d]) = 0
    BY <1>1, <1>3, FirstIs DEF Looking, NoneIs
  <2> QED
    BY <1>1, <1>2, <2>1, LevelsAre
<1>4. CASE k < Len(m)
  <2>1. /\ Past(m, b, k) \in Nat /\ end \in Nat /\ Past(m, b, k) <= b + Len(Written(m))
        /\ end < Past(m, b, k) => ~t.good
        /\ Past(m, b, k) <= end => Whole(t, m, b, k, m[k + 1])
    BY <1>1, <1>2, <1>4, TurnHere
  <2>2. end < Past(m, b, k)
    <3>1. Past(m, b, k) <= end => t.good
      BY <2>1, Zenon DEF Whole
    <3> QED
      BY <2>1, <3>1
  <2>3. d = 1
    <3>1. ASSUME d # 1 PROVE FALSE
      <4>1. end = b + Len(Written(m))
        BY <1>1, <3>1, Zenon DEF Looking
      <4>2. Past(m, b, k) <= end
        BY <2>1, <4>1, Zenon
      <4> QED
        BY <2>1, <2>2, <4>2
    <3> QED
      BY <3>1
  <2>4. m = message /\ b = 0 /\ end = Len(blob)
    BY <1>1, <1>2, <2>3, LevelsAre DEF Looking
  <2>5. PICK o : /\ o = FirstOf(m, wanted[1]) /\ o # 0
                 /\ Len(WrittenUpTo(m, o)) <= Len(blob)
    BY <2>4 DEF There
  <2>6. o \in 1 .. Len(m) /\ Named(m[o], wanted[1])
    BY <1>1, <2>5, FirstIs
  <2>7. PICK j \in Nat : j = k + 1 /\ j <= o /\ o \in Nat /\ o <= Len(m)
    <3>1. o \notin 1 .. k
      BY <1>1, <2>3, <2>6, Zenon DEF Looking, NoneIs
    <3> QED
      BY <2>6, <3>1
  <2>8. /\ Len(WrittenUpTo(m, j)) <= Len(WrittenUpTo(m, o))
        /\ Len(WrittenUpTo(m, j)) \in Nat /\ Len(WrittenUpTo(m, o)) \in Nat
    BY <1>1, <2>7, UpLies
  <2>9. Past(m, b, k) = Len(WrittenUpTo(m, j))
    BY <2>4, <2>7, <2>8 DEF Past
  <2> QED
    BY <1>2, <2>2, <2>4, <2>5, <2>8, <2>9, BlobIs
<1> QED
  BY <1>1, <1>3, <1>4

(* The field it comes to is whole, and the wanted one if it says so.       *)
LEMMA FieldAt ==
  ASSUME WireTypeOK, NEW f, AreLevels(f), NEW d \in 1 .. Len(wanted), NEW b \in Nat, NEW k \in Nat,
         Looking(f, d, b, k), NEW t, t = Turn, t.good
  PROVE  \E m \in Messages :
           /\ m = f[d] /\ k < Len(m) /\ m[k + 1] \in WireFields
           /\ Whole(t, m, b, k, m[k + 1]) /\ Past(m, b, k) \in Nat /\ end \in Nat
           /\ t.match = Named(m[k + 1], wanted[d])
           /\ t.match => FirstOf(m, wanted[d]) = k + 1 /\ There
<1>1. PICK m : /\ m = f[d] /\ Here(m, b, k) /\ m \in Messages /\ k <= Len(m) /\ Len(m) \in Nat
               /\ DOMAIN m = 1 .. Len(m)
  <2>1. Here(f[d], b, k) /\ f[d] \in Messages /\ k <= Len(f[d])
    BY DEF Looking, Here
  <2>2. f[d] \in Seq(WireFields)
    BY <2>1, WireAssumption
  <2> QED
    BY <2>1, <2>2
<1>2. blob \in Blob /\ end \in 0 .. Len(blob) /\ wanted \in WantedPaths
  BY DEF WireTypeOK
<1>3. k < Len(m)
  <2>1. k # Len(m)
    BY <1>1, <1>2, TurnHere
  <2> QED
    BY <1>1, <2>1
<1>4. /\ m[k + 1] \in WireFields /\ Past(m, b, k) \in Nat /\ end \in Nat
      /\ end < Past(m, b, k) => ~t.good
      /\ Past(m, b, k) <= end => Whole(t, m, b, k, m[k + 1])
  BY <1>1, <1>2, <1>3, TurnHere
<1>5. Whole(t, m, b, k, m[k + 1])
  BY <1>4
<1>6. t.match = Named(m[k + 1], wanted[d])
  <2>1. t.match = Matches(m[k + 1].num, m[k + 1].wt)
    BY <1>5 DEF Whole
  <2>2. Head(path) = wanted[d]
    BY <1>2, WantedIs DEF Looking
  <2> QED
    BY <2>1, <2>2, Zenon DEF Matches, Named
<1>7. ASSUME t.match PROVE FirstOf(m, wanted[d]) = k + 1 /\ There
  <2>1. PICK j \in 1 .. Len(m) : j = k + 1 /\ 1 .. j - 1 = 1 .. k
    BY <1>1, <1>3
  <2>2. Named(m[j], wanted[d]) /\ \A q \in 1 .. j - 1 : ~Named(m[q], wanted[d])
    <3>1. \A q \in 1 .. k : ~Named(m[q], wanted[d])
      BY <1>1, Zenon DEF Looking, NoneIs
    <3> QED
      BY <1>6, <1>7, <2>1, <3>1
  <2>3. FirstOf(m, wanted[d]) = j
    BY <1>1, <2>2, FirstIs
  <2>4. ASSUME d = 1 PROVE There
    <3>1. m = message /\ b = 0 /\ end = Len(blob)
      BY <1>1, <1>2, <2>4, LevelsAre DEF Looking
    <3>2. Past(m, b, k) <= Len(blob)
      BY <1>5, <3>1, Zenon DEF Whole
    <3>3. Len(WrittenUpTo(m, j)) <= Len(blob)
      <4>1. Len(WrittenUpTo(m, j)) \in Nat
        BY <1>1, WrittenTyped DEF Blob
      <4>2. Past(m, b, k) = Len(WrittenUpTo(m, j))
        BY <2>1, <3>1, <4>1 DEF Past
      <4> QED
        BY <3>2, <4>2
    <3> QED
      BY <2>1, <2>3, <2>4, <3>1, <3>3 DEF There
  <2>5. d # 1 => There
    BY DEF Looking
  <2> QED
    BY <2>1, <2>3, <2>4, <2>5
<1> QED
  BY <1>1, <1>3, <1>4, <1>5, <1>6, <1>7, Zenon

LEMMA FindStart == WireInit => FindInv
<1> SUFFICES ASSUME WireInit, message # <<>>, NEW f, AreLevels(f)
             PROVE  Goes(f)
  BY DEF FindInv
<1>1. PICK m \in Messages : \E n \in 0 .. Len(Written(m)) : message = m /\ blob = SubSeq(Written(m), 1, n)
  BY DEF WireInit
<1>2. PICK n \in 0 .. Len(Written(m)) : message = m /\ blob = SubSeq(Written(m), 1, n)
  BY <1>1
<1>3. PICK w \in Seq(Byte) : w = Written(m)
  BY WrittenTyped DEF Blob
<1>4. blob = SubSeq(w, 1, n) /\ Len(blob) = n /\ n \in Nat /\ n <= Len(w)
      /\ \A q \in 1 .. n : blob[q] = w[q]
  BY <1>3, <1>2
<1>5. wanted \in WantedPaths /\ path = wanted /\ p = 1 /\ end = n /\ found = {}
  BY <1>4 DEF WireInit
<1>6. f[1] = m /\ 1 \in 1 .. Len(wanted) /\ path = SubSeq(wanted, 1, Len(wanted)) /\ path # <<>>
  <2>1. Len(wanted) \in Nat \ {0} /\ wanted = SubSeq(wanted, 1, Len(wanted)) /\ wanted # <<>>
    BY <1>5, WantedIs, WireAssumption
  <2> QED
    BY <1>5, <1>2, <2>1, LevelsAre
<1>7. Here(m, 0, 0)
  <2>1. m \in Seq(WireFields) /\ 0 <= Len(m)
    BY WireAssumption
  <2>2. ASSUME NEW q \in 1 .. Len(Written(m)), (0 + 1) + q - 1 <= end
        PROVE  blob[(0 + 1) + q - 1] = Written(m)[q]
    <3>1. (0 + 1) + q - 1 = q /\ q \in 1 .. n
      BY <1>3, <1>4, <1>5, <2>2
    <3> QED
      BY <1>3, <1>4, <3>1
  <2>3. end <= 0 + Len(Written(m))
    BY <1>3, <1>4, <1>5
  <2>4. p = 0 + Len(WrittenUpTo(m, 0)) + 1
    <3>1. Len(WrittenUpTo(m, 0)) = 0
      BY UpIs
    <3> QED
      BY <1>5, <3>1
  <2> QED
    BY <2>1, <2>2, <2>3, <2>4 DEF Here, Lies
<1>8. Looking(f, 1, 0, 0)
  BY <1>4, <1>5, <1>6, <1>7 DEF Looking, NoneIs
<1> QED
  BY <1>6, <1>8 DEF Goes

LEMMA FindStep == WireTypeOK /\ FindInv /\ [WireNext]_wireVars => FindInv'
<1> SUFFICES ASSUME WireTypeOK, FindInv, [WireNext]_wireVars, message' # <<>>,
                    NEW f, AreLevels(f)'
             PROVE  Goes(f)'
  BY DEF FindInv
<1>1. UNCHANGED <<message, blob, wanted>>
  BY DEF WireNext, NotFound, SkipField, Descend, FindField, WireFrame, wireVars
<1>2. AreLevels(f) /\ Goes(f)
  BY <1>1 DEF AreLevels, FindInv
<1>3. There' <=> There
  BY <1>1 DEF There
<1>4. blob \in Blob /\ end \in 0 .. Len(blob) /\ wanted \in WantedPaths /\ Len(blob) \in Nat
  <2>1. blob \in Blob /\ end \in 0 .. Len(blob) /\ wanted \in WantedPaths
    BY DEF WireTypeOK
  <2> QED
    BY <2>1, BlobIs
<1>5. PICK l \in Nat \ {0} : l = Len(wanted)
  BY <1>4, WantedIs
<1>6. CASE UNCHANGED wireVars
  <2>1. UNCHANGED <<message, blob, wanted, path, p, end, found>>
    BY <1>6 DEF wireVars
  <2> QED
    BY <1>2, <1>3, <2>1 DEF Goes, EndsWith, Looking, Here, Lies, NoneIs
<1>7. CASE WireNext
  <2>1. PICK t : /\ t = Turn /\ path # <<>>
                 /\ NotFound(t) \/ SkipField(t) \/ Descend(t) \/ FindField(t)
    BY <1>7 DEF WireNext
  <2>2. PICK d \in 1 .. l, b \in Nat, k \in Nat : Looking(f, d, b, k)
    BY <1>2, <1>5, <2>1 DEF Goes
  <2>3. /\ path = SubSeq(wanted, d, l) /\ Len(path) = l - d + 1 /\ Tail(path) = SubSeq(wanted, d + 1, l)
        /\ d < l => wanted[d][2] = 2
    <3>1. path = SubSeq(wanted, d, l)
      BY <1>5, <2>2 DEF Looking
    <3> QED
      BY <1>4, <1>5, <3>1, WantedIs
  <2>4. CASE NotFound(t)
    <3>1. path' = <<>> /\ found' = {} /\ ~t.good
      BY <2>2, <2>4 DEF NotFound, Looking
    <3>2. ~(There /\ FirstOf(f[l], wanted[l]) # 0)
      BY <1>2, <1>5, <2>1, <2>2, <3>1, NotFoundRightly
    <3> QED
      BY <1>1, <1>3, <1>5, <3>1, <3>2 DEF Goes, EndsWith
  <2>5. ASSUME t.good
        PROVE  \E m \in Messages :
           /\ m = f[d] /\ k < Len(m) /\ m[k + 1] \in WireFields
           /\ Whole(t, m, b, k, m[k + 1]) /\ Past(m, b, k) \in Nat /\ end \in Nat
           /\ t.match = Named(m[k + 1], wanted[d])
           /\ t.match => FirstOf(m, wanted[d]) = k + 1 /\ There
    BY <1>2, <1>5, <2>1, <2>2, <2>5, FieldAt
  <2>6. CASE SkipField(t)
    <3>1. t.good /\ ~t.match /\ p' = t.next /\ UNCHANGED <<path, end, found>>
      BY <2>6 DEF SkipField
    <3>2. PICK m \in Messages :
            /\ m = f[d] /\ k < Len(m) /\ Whole(t, m, b, k, m[k + 1]) /\ ~Named(m[k + 1], wanted[d])
      BY <2>5, <3>1
    <3>3. PICK j \in Nat : j = k + 1 /\ j <= Len(m)
      <4>1. m \in Seq(WireFields)
        BY WireAssumption
      <4> QED
        BY <3>2, <4>1
    <3>4. p' = b + Len(WrittenUpTo(m, j)) + 1
      BY <3>1, <3>2, <3>3 DEF Whole, Past
    <3>5. Here(m, b, j)'
      <4>1. m \in Messages /\ Lies(Written(m), b + 1, end) /\ end <= b + Len(Written(m))
        BY <2>2, <3>2 DEF Looking, Here
      <4> QED
        BY <1>1, <3>1, <3>3, <3>4, <4>1 DEF Here, Lies
    <3>6. NoneIs(m, wanted'[d], j)
      <4>1. \A q \in 1 .. k : ~Named(m[q], wanted[d])
        BY <2>2, <3>2 DEF Looking, NoneIs
      <4>2. \A q \in 1 .. j : q \in 1 .. k \/ q = k + 1
        BY <3>3
      <4> QED
        BY <1>1, <3>2, <4>1, <4>2 DEF NoneIs
    <3>7. Looking(f, d, b, j)'
      <4>1. /\ found = {} /\ path = SubSeq(wanted, d, Len(wanted))
            /\ d = 1 => b = 0 /\ end = Len(blob)
            /\ d # 1 => There /\ end = b + Len(Written(m))
        BY <2>2, <3>2 DEF Looking
      <4> QED
        BY <1>1, <1>3, <3>1, <3>2, <3>5, <3>6, <4>1 DEF Looking
    <3> QED
      BY <1>1, <1>5, <2>1, <3>1, <3>7 DEF Goes
  <2>7. CASE Descend(t)
    <3>1. /\ t.good /\ t.match /\ d < l /\ p' = t.from /\ end' = t.next - 1
          /\ path' = SubSeq(wanted, d + 1, l) /\ found' = found
      <4>1. /\ t.good /\ t.match /\ Len(path) > 1 /\ p' = t.from /\ end' = t.next - 1
            /\ path' = Tail(path) /\ found' = found
        BY <2>7 DEF Descend
      <4> QED
        BY <2>3, <4>1
    <3>2. PICK m \in Messages :
            /\ m = f[d] /\ k < Len(m) /\ m[k + 1] \in WireFields
            /\ Whole(t, m, b, k, m[k + 1]) /\ Past(m, b, k) \in Nat /\ end \in Nat
            /\ Named(m[k + 1], wanted[d]) /\ FirstOf(m, wanted[d]) = k + 1 /\ There
      BY <2>5, <3>1
    <3>3. PICK s \in Messages : s = m[k + 1].sub /\ m[k + 1].payload = Written(s)
      <4>1. m[k + 1].wt = 2
        BY <2>3, <3>1, <3>2 DEF Named
      <4> QED
        BY <3>2, <4>1, WireAssumption
    <3>4. PICK e \in 1 .. l : e = d + 1 /\ e # 1
      BY <3>1
    <3>5. f[e] = s
      <4>1. f[e] = f[d][FirstOf(f[d], wanted[d])].sub
        BY <1>2, <1>4, <1>5, <3>1, <3>2, <3>4, LevelsAre
      <4> QED
        BY <3>2, <3>3, <4>1
    <3>6. PICK c \in Nat, n \in Nat :
            /\ n = Len(Written(s)) /\ c + 1 = t.from /\ c = end' - n /\ end' = c + n /\ end' <= end
            /\ end' \in Nat
      <4>1. /\ t.from = t.next - Len(Written(s)) /\ t.next = Past(m, b, k) + 1 /\ Past(m, b, k) <= end
            /\ t.from \in Nat \ {0}
        BY <3>2, <3>3 DEF Whole
      <4>2. PICK n \in Nat : n = Len(Written(s))
        BY WrittenTyped DEF Blob
      <4>3. PICK x \in Nat : x = Past(m, b, k)
        BY <3>2
      <4>4. PICK c \in Nat : c + 1 = t.from
        BY <4>1
      <4>5. end' = x
        BY <3>1, <4>1, <4>3
      <4>6. c + 1 = (x + 1) - n
        BY <4>1, <4>2, <4>3, <4>4
      <4>7. c = x - n /\ x = c + n
        BY <4>6
      <4>8. x <= end
        BY <4>1, <4>3, Zenon
      <4> QED
        BY <4>2, <4>4, <4>5, <4>7, <4>8, Zenon
    <3>7. Here(s, c, 0)'
      <4>1. Lies(Written(s), c + 1, end')
        <5>1. Lies(Written(s), c + 1, end) /\ Written(s) \in Blob /\ c + 1 \in Nat /\ end \in Nat
          BY <3>2, <3>3, <3>6, WrittenTyped DEF Whole
        <5> QED
          BY <3>6, <5>1, LiesBelow
      <4>2. Len(WrittenUpTo(s, 0)) = 0
        BY UpIs
      <4>3. p' = c + 0 + 1
        BY <3>1, <3>6
      <4>4. 0 <= Len(s)
        <5>1. s \in Seq(WireFields)
          BY WireAssumption
        <5> QED
          BY <5>1
      <4>5. end' <= c + Len(Written(s))
        BY <3>6
      <4> QED
        BY <1>1, <4>1, <4>2, <4>3, <4>4, <4>5 DEF Here, Lies
    <3>8. Looking(f, e, c, 0)'
      <4>1. found' = {} /\ path' = SubSeq(wanted', e, Len(wanted'))
        BY <1>1, <1>5, <2>2, <3>1, <3>4 DEF Looking
      <4>2. NoneIs(f[e], wanted'[e], 0)
        BY DEF NoneIs
      <4>3. There' /\ end' = c + Len(Written(f[e]))
        BY <1>3, <3>2, <3>5, <3>6
      <4> QED
        BY <3>4, <3>5, <3>7, <4>1, <4>2, <4>3 DEF Looking
    <3>9. path' # <<>>
      BY <1>4, <1>5, <3>1, <3>4, WantedIs
    <3> QED
      BY <1>1, <1>5, <3>8, <3>9 DEF Goes
  <2>8. CASE FindField(t)
    <3>1. /\ t.good /\ t.match /\ d = l /\ path' = <<>>
          /\ found' = {Sought(t)}
      <4>1. /\ t.good /\ t.match /\ Len(path) = 1 /\ path' = <<>>
            /\ found' = {Sought(t)}
        BY <2>8 DEF FindField
      <4> QED
        BY <2>3, <4>1
    <3>2. PICK m \in Messages :
            /\ m = f[d] /\ k < Len(m) /\ m[k + 1] \in WireFields
            /\ Whole(t, m, b, k, m[k + 1]) /\ Past(m, b, k) \in Nat /\ end \in Nat
            /\ FirstOf(m, wanted[d]) = k + 1 /\ There /\ Named(m[k + 1], wanted[d])
      BY <2>5, <3>1
    <3>3. Sought(t) = Datum(m[k + 1])
      <4>1. PICK s \in Blob, n \in Nat, i \in Nat \ {0}, x \in Nat :
              /\ s = m[k + 1].payload /\ n = Len(s) /\ i = t.from /\ x = Past(m, b, k)
        BY <3>2, FieldIs DEF Whole
      <4>2. /\ t.next = x + 1 /\ i = t.next - n /\ x <= end /\ Lies(s, i, end)
        BY <3>2, <4>1 DEF Whole
      <4>3. PICK j : j = i + n - 1 /\ j = x /\ j = t.next - 1 /\ j <= end
        BY <4>1, <4>2
      <4>4. SubSeq(blob, i, j) = s
        <5>1. PICK y \in 0 .. Len(blob) : y = end /\ Lies(s, i, y) /\ j <= y
          BY <1>4, <4>2, <4>3
        <5>2. s \in Blob /\ i \in Nat \ {0} /\ n \in Nat /\ n = Len(s) /\ j = i + n - 1
          BY <4>1, <4>3, Zenon
        <5> QED
          BY <1>4, <5>1, <5>2, SliceIs, Zenon
      <4>5. SubSeq(blob, t.from, t.next - 1) = m[k + 1].payload
        BY <4>1, <4>3, <4>4
      <4>6. Head(path) = wanted[d]
        BY <1>4, <1>5, <2>3, WantedIs
      <4>7. Head(path)[2] = m[k + 1].wt
        BY <3>2, <4>6 DEF Named
      <4>8. CASE m[k + 1].wt = 0
        <5>1. PICK z \in Nat : z = m[k + 1].value /\ Fits(z) /\ s = Varint(z)
          BY <3>2, <4>1, <4>8, WireAssumption
        <5>2. Lies(Varint(z), i, end) /\ end \in 0 .. Len(blob)
          BY <1>4, <4>2, <5>1
        <5>3. PICK v : v = ReadVarint(i, end)
          OBVIOUS
        <5>4. NumberIs(v, i, n, z, end)
          BY <1>4, <4>1, <5>1, <5>2, <5>3, NumberAt
        <5>5. v.value = z
          BY <4>3, <5>4 DEF NumberIs
        <5> QED
          BY <4>1, <4>7, <4>8, <5>1, <5>3, <5>5 DEF Sought, Datum
      <4> QED
        BY <4>5, <4>7, <4>8 DEF Sought, Datum
    <3>4. FirstOf(f[l], wanted[l]) = k + 1 /\ k + 1 # 0 /\ found' = {Datum(f[l][FirstOf(f[l], wanted[l])])}
      <4>1. k + 1 # 0
        OBVIOUS
      <4>2. FirstOf(f[l], wanted[l]) = k + 1 /\ f[l] = m
        BY <3>1, <3>2
      <4> QED
        BY <3>1, <3>3, <4>1, <4>2
    <3> QED
      BY <1>1, <1>3, <1>5, <3>1, <3>2, <3>4 DEF Goes, EndsWith
  <2> QED
    BY <2>1, <2>4, <2>6, <2>7, <2>8
<1> QED
  BY <1>6, <1>7

(* FindIsExact: of a message that was written, whole or torn, the loops of *)
(* Find* and DecodeSystemProfile give the number or the bytes that were    *)
(* written to the first field of the wanted number and type, at any depth, *)
(* or nothing.                                                             *)
THEOREM FindsAreExact == WireSpec => []FindIsExact
<1>1. WireTypeOK /\ FindInv => FindIsExact
  <2> SUFFICES ASSUME WireTypeOK, FindInv, path = <<>>, message # <<>> PROVE FindIsExact
    BY DEF FindIsExact
  <2>1. AreLevels(Levels)
    BY LevelFunction, WantedIs DEF AreLevels, WireTypeOK
  <2>2. EndsWith(Levels)
    BY <2>1 DEF FindInv, Goes
  <2> QED
    BY <2>2 DEF EndsWith, FindIsExact, There, Innermost
<1> QED
  BY <1>1, WireTypes, FindStart, FindStep, PTL DEF WireSpec

-----------------------------------------------------------------------------
(* SeedDecoder: the characters that count, one text position at a time.    *)
Counted(s, d, n) == IF IsDigit(d, s, n) THEN <<s[n]>> ELSE <<>>

DigitsIn(f, s, d, k) == f = [n \in 0 .. k |-> IF n = 0 THEN <<>> ELSE f[n - 1] \o Counted(s, d, n)]

LEMMA DigitsExist ==
  ASSUME NEW s, NEW d, NEW l \in Nat
  PROVE  \E f : DigitsIn(f, s, d, l)
<1> DEFINE S == {k \in Nat : \E f : DigitsIn(f, s, d, k)}
<1>1. 0 \in S
  <2>1. DigitsIn([n \in 0 .. 0 |-> <<>>], s, d, 0)
    BY DEF DigitsIn
  <2> QED
    BY <2>1
<1>2. ASSUME NEW k \in Nat, k \in S PROVE k + 1 \in S
  <2>1. PICK f : DigitsIn(f, s, d, k)
    BY <1>2
  <2> DEFINE h == [n \in 0 .. k + 1 |-> IF n # k + 1 THEN f[n] ELSE f[k] \o Counted(s, d, k + 1)]
  <2>2. ASSUME NEW n \in 0 .. k + 1
        PROVE  h[n] = IF n = 0 THEN <<>> ELSE h[n - 1] \o Counted(s, d, n)
    <3>1. CASE n = k + 1
      <4>1. n # 0 /\ n - 1 = k /\ k \in 0 .. k + 1 /\ k # k + 1
        BY <3>1
      <4> QED
        BY <3>1, <4>1
    <3>2. CASE n # k + 1
      <4>1. n \in 0 .. k /\ h[n] = f[n] /\ (n # 0 => h[n - 1] = f[n - 1])
        BY <3>2
      <4> QED
        BY <2>1, <4>1 DEF DigitsIn
    <3> QED
      BY <3>1, <3>2
  <2>3. DigitsIn(h, s, d, k + 1)
    BY <2>2 DEF DigitsIn
  <2> QED
    BY <2>3
<1> HIDE DEF S
<1>3. l \in S
  BY <1>1, <1>2, Induct
<1> QED
  BY <1>3 DEF S

LEMMA DigitsAgree ==
  ASSUME NEW s, NEW d, NEW k \in Nat, NEW l \in Nat, NEW f, NEW g,
         DigitsIn(f, s, d, k), DigitsIn(g, s, d, l)
  PROVE  \A n \in Nat : n <= k /\ n <= l => f[n] = g[n]
<1> DEFINE S == {n \in Nat : n <= k /\ n <= l => f[n] = g[n]}
<1>1. 0 \in S
  BY DEF DigitsIn
<1>2. ASSUME NEW n \in Nat, n \in S PROVE n + 1 \in S
  <2> SUFFICES ASSUME n + 1 <= k, n + 1 <= l PROVE f[n + 1] = g[n + 1]
    OBVIOUS
  <2>1. n + 1 \in 0 .. k /\ n + 1 \in 0 .. l /\ n + 1 # 0 /\ (n + 1) - 1 = n /\ f[n] = g[n]
    BY <1>2
  <2>2. /\ f[n + 1] = f[n] \o Counted(s, d, n + 1)
        /\ g[n + 1] = g[n] \o Counted(s, d, n + 1)
    BY <2>1 DEF DigitsIn
  <2> QED
    BY <2>1, <2>2
<1> HIDE DEF S
<1>3. \A n \in Nat : n \in S
  BY <1>1, <1>2, Induct
<1> QED
  BY <1>3 DEF S

LEMMA DigitsFunction ==
  ASSUME NEW s, NEW d, NEW k \in Nat
  PROVE  \E f : DigitsIn(f, s, d, k) /\ DigitsUpTo(d, s, k) = f[k]
<1> DEFINE Q(f) == f = [n \in 0 .. k |->
                          IF n = 0 THEN <<>>
                          ELSE f[n - 1] \o (IF IsDigit(d, s, n) THEN <<s[n]>> ELSE <<>>)]
<1>1. \A f : DigitsIn(f, s, d, k) <=> Q(f)
  BY DEF DigitsIn, Counted
<1> HIDE DEF Q
<1>2. Q(CHOOSE f : Q(f))
  BY <1>1, DigitsExist
<1>3. DigitsUpTo(d, s, k) = (CHOOSE f : Q(f))[k]
  BY DEF DigitsUpTo, Q
<1> QED
  BY <1>1, <1>2, <1>3

LEMMA DigitsAre ==
  ASSUME NEW s, NEW d
  PROVE  /\ DigitsUpTo(d, s, 0) = <<>>
         /\ \A k \in Nat : DigitsUpTo(d, s, k + 1) = DigitsUpTo(d, s, k) \o Counted(s, d, k + 1)
<1>1. DigitsUpTo(d, s, 0) = <<>>
  <2>1. PICK f : DigitsIn(f, s, d, 0) /\ DigitsUpTo(d, s, 0) = f[0]
    BY DigitsFunction
  <2> QED
    BY <2>1 DEF DigitsIn
<1>2. ASSUME NEW k \in Nat
      PROVE  DigitsUpTo(d, s, k + 1) = DigitsUpTo(d, s, k) \o Counted(s, d, k + 1)
  <2>1. PICK f : DigitsIn(f, s, d, k) /\ DigitsUpTo(d, s, k) = f[k]
    BY DigitsFunction
  <2>2. PICK l \in Nat : l = k + 1
    OBVIOUS
  <2>3. PICK g : DigitsIn(g, s, d, l) /\ DigitsUpTo(d, s, l) = g[l]
    BY DigitsFunction
  <2>4. f[k] = g[k]
    BY <2>1, <2>2, <2>3, DigitsAgree
  <2>5. l \in 0 .. l /\ l # 0 /\ l - 1 = k
    BY <2>2
  <2>6. g[l] = g[k] \o Counted(s, d, l)
    BY <2>3, <2>5 DEF DigitsIn
  <2> QED
    BY <2>1, <2>2, <2>3, <2>4, <2>6
<1> QED
  BY <1>1, <1>2

(* What counts are digits of six bits.                                     *)
LEMMA DigitsTyped ==
  ASSUME NEW s \in Chars, NEW d
  PROVE  \A k \in 0 .. Len(s) : DigitsUpTo(d, s, k) \in Seq(0 .. 63)
<1> DEFINE S == {k \in Nat : k <= Len(s) => DigitsUpTo(d, s, k) \in Seq(0 .. 63)}
<1>1. Len(s) \in Nat
  BY DEF Chars
<1>2. 0 \in S
  <2>1. DigitsUpTo(d, s, 0) \in Seq(0 .. 63)
    BY DigitsAre, EmptySeq
  <2> QED
    BY <2>1
<1>3. ASSUME NEW k \in Nat, k \in S PROVE k + 1 \in S
  <2> SUFFICES ASSUME k + 1 <= Len(s) PROVE DigitsUpTo(d, s, k + 1) \in Seq(0 .. 63)
    OBVIOUS
  <2>1. DigitsUpTo(d, s, k) \in Seq(0 .. 63)
    BY <1>1, <1>3
  <2>2. s[k + 1] \in 0 .. Noise64
    <3>1. k + 1 \in 1 .. Len(s) /\ s \in Seq(0 .. Noise64)
      BY <1>1 DEF Chars
    <3> QED
      BY <3>1, ElementOfSeq
  <2>3. Counted(s, d, k + 1) \in Seq(0 .. 63)
    <3>1. CASE IsDigit(d, s, k + 1)
      <4>1. PICK c \in 0 .. Noise64 : c = s[k + 1]
        BY <2>2
      <4>2. c < Pad
        BY <3>1, <4>1 DEF IsDigit
      <4>3. c \in 0 .. 63
        BY <4>2 DEF Pad, Noise64
      <4> QED
        BY <3>1, <4>1, <4>3 DEF Counted
    <3>2. CASE ~IsDigit(d, s, k + 1)
      BY <3>2, EmptySeq DEF Counted
    <3> QED
      BY <3>1, <3>2
  <2>4. DigitsUpTo(d, s, k + 1) = DigitsUpTo(d, s, k) \o Counted(s, d, k + 1)
    BY DigitsAre
  <2> QED
    BY <2>1, <2>3, <2>4, ConcatProperties
<1> HIDE DEF S
<1>4. \A k \in Nat : k \in S
  BY <1>2, <1>3, Induct
<1> QED
  BY <1>1, <1>4 DEF S

(* Behind the padding nothing counts for the system profile.               *)
LEMMA NothingBehindPad ==
  ASSUME NEW s \in Chars, NEW q \in 1 .. Len(s), s[q] = Pad
  PROVE  Digits("profile", s) = DigitsUpTo("profile", s, q - 1)
<1> DEFINE S == {k \in Nat : DigitsUpTo("profile", s, q - 1 + k) = DigitsUpTo("profile", s, q - 1)}
<1>1. Len(s) \in Nat /\ q - 1 \in Nat /\ Len(s) - (q - 1) \in Nat
  BY DEF Chars
<1>2. 0 \in S
  BY <1>1
<1>3. ASSUME NEW k \in Nat, k \in S PROVE k + 1 \in S
  <2>1. PICK n \in Nat : n = q - 1 + k
    BY <1>1
  <2>2. ~IsDigit("profile", s, n + 1)
    <3>1. q \in 1 .. n + 1
      BY <2>1
    <3> QED
      BY <3>1 DEF IsDigit
  <2>3. DigitsUpTo("profile", s, n + 1) = DigitsUpTo("profile", s, n) \o <<>>
    BY <2>2, DigitsAre DEF Counted
  <2>4. DigitsUpTo("profile", s, n) = DigitsUpTo("profile", s, q - 1)
    BY <1>3, <2>1
  <2>5. DigitsUpTo("profile", s, q - 1) \in Seq(0 .. 63)
    BY <1>1, DigitsTyped
  <2>6. DigitsUpTo("profile", s, n + 1) = DigitsUpTo("profile", s, q - 1)
    BY <2>3, <2>4, <2>5
  <2>7. n + 1 = q - 1 + (k + 1)
    BY <2>1
  <2> QED
    BY <2>6, <2>7
<1> HIDE DEF S
<1>4. Len(s) - (q - 1) \in S
  BY <1>1, <1>2, <1>3, Induct
<1>5. q - 1 + (Len(s) - (q - 1)) = Len(s)
  BY <1>1
<1> QED
  BY <1>4, <1>5 DEF S, Digits

-----------------------------------------------------------------------------
(* The bits of a number.                                                   *)
BitAt(x, j) == (x \div 2^j) % 2

LEMMA LowestBit ==
  ASSUME NEW x \in Int
  PROVE  BitAt(x, 0) = x % 2
BY DEF BitAt

LEMMA SmallNumbers ==
  /\ 0 + 6 = 6 /\ 1 + 6 = 7 /\ 2 + 6 = 8 /\ 3 + 6 = 9 /\ 4 + 6 = 10 /\ 5 + 6 = 11
  /\ \A j \in 0 .. 5 : j = 0 \/ j = 1 \/ j = 2 \/ j = 3 \/ j = 4 \/ j = 5
  /\ \A j \in 0 .. 7 : j = 0 \/ j = 1 \/ j = 2 \/ j = 3 \/ j = 4 \/ j = 5 \/ j = 6 \/ j = 7
OBVIOUS

(* A character comes in below what is there; what the accumulator has no   *)
(* room for is above the twelve bits that are in use.                      *)
Takes(x, a, c) == \E z \in Int : x = (a * 64 + c) - 4096 * z

Shifted(x, a, c) == \A j \in 0 .. 5 : BitAt(x, j) = BitAt(c, j) /\ BitAt(x, j + 6) = BitAt(a, j)

LEMMA ShiftedBits ==
  ASSUME NEW a \in Int, NEW c \in 0 .. 63, NEW x, Takes(x, a, c)
  PROVE  Shifted(x, a, c)
<1>1. PICK z \in Int : x = (a * 64 + c) - 4096 * z
  BY DEF Takes
<1>2. x \in Int /\ x = (a * 64 + c) - 4096 * z
  BY <1>1
<1>3. BitAt(x, 0) = BitAt(c, 0) /\ BitAt(x, 1) = BitAt(c, 1) /\ BitAt(x, 2) = BitAt(c, 2)
  <2>1. x % 2 = c % 2
    BY <1>2
  <2>2. (x \div 2) % 2 = (c \div 2) % 2
    BY <1>2
  <2>3. (x \div 4) % 2 = (c \div 4) % 2
    BY <1>2
  <2>4. BitAt(x, 0) = BitAt(c, 0)
    BY <1>2, <2>1, LowestBit
  <2> QED
    BY <2>2, <2>3, <2>4 DEF BitAt
<1>4. BitAt(x, 3) = BitAt(c, 3) /\ BitAt(x, 4) = BitAt(c, 4) /\ BitAt(x, 5) = BitAt(c, 5)
  <2>1. (x \div 8) % 2 = (c \div 8) % 2
    BY <1>2
  <2>2. (x \div 16) % 2 = (c \div 16) % 2
    BY <1>2
  <2>3. (x \div 32) % 2 = (c \div 32) % 2
    BY <1>2
  <2> QED
    BY <2>1, <2>2, <2>3 DEF BitAt
<1>5. PICK y \in Int : y = a - 64 * z /\ x \div 64 = y
  BY <1>2
<1>6. BitAt(x, 6) = BitAt(a, 0) /\ BitAt(x, 7) = BitAt(a, 1) /\ BitAt(x, 8) = BitAt(a, 2)
  <2>1. (x \div 64) % 2 = a % 2
    BY <1>5
  <2>2. x \div 128 = y \div 2 /\ (y \div 2) % 2 = (a \div 2) % 2
    BY <1>2, <1>5
  <2>3. x \div 256 = y \div 4 /\ (y \div 4) % 2 = (a \div 4) % 2
    BY <1>2, <1>5
  <2> QED
    BY <2>1, <2>2, <2>3 DEF BitAt
<1>7. BitAt(x, 9) = BitAt(a, 3) /\ BitAt(x, 10) = BitAt(a, 4) /\ BitAt(x, 11) = BitAt(a, 5)
  <2>1. x \div 512 = y \div 8 /\ (y \div 8) % 2 = (a \div 8) % 2
    BY <1>2, <1>5
  <2>2. x \div 1024 = y \div 16 /\ (y \div 16) % 2 = (a \div 16) % 2
    BY <1>2, <1>5
  <2>3. x \div 2048 = y \div 32 /\ (y \div 32) % 2 = (a \div 32) % 2
    BY <1>2, <1>5
  <2> QED
    BY <2>1, <2>2, <2>3 DEF BitAt
<1> QED
  BY <1>3, <1>4, <1>6, <1>7, SmallNumbers DEF Shifted

(* The lowest byte has the lowest bits, and ...                            *)
LEMMA LowBits ==
  ASSUME NEW x \in Int
  PROVE  \A j \in 0 .. 7 : BitAt(x % 256, j) = BitAt(x, j)
<1>1. PICK y \in 0 .. 255 : y = x % 256
  OBVIOUS
<1>2. /\ y % 2 = x % 2 /\ (y \div 2) % 2 = (x \div 2) % 2
      /\ (y \div 4) % 2 = (x \div 4) % 2 /\ (y \div 8) % 2 = (x \div 8) % 2
  BY <1>1
<1>3. (y \div 16) % 2 = (x \div 16) % 2 /\ (y \div 32) % 2 = (x \div 32) % 2
  BY <1>1
<1>4. (y \div 64) % 2 = (x \div 64) % 2
  BY <1>1
<1>5. (y \div 128) % 2 = (x \div 128) % 2
  BY <1>1
<1>6. BitAt(y, 0) = BitAt(x, 0)
  BY <1>1, <1>2, LowestBit
<1>7. /\ BitAt(y, 1) = BitAt(x, 1) /\ BitAt(y, 2) = BitAt(x, 2)
      /\ BitAt(y, 3) = BitAt(x, 3) /\ BitAt(y, 4) = BitAt(x, 4) /\ BitAt(y, 5) = BitAt(x, 5)
      /\ BitAt(y, 6) = BitAt(x, 6) /\ BitAt(y, 7) = BitAt(x, 7)
  BY <1>2, <1>3, <1>4, <1>5 DEF BitAt
<1> QED
  BY <1>1, <1>6, <1>7

(* ... what is shifted out has those above.                                *)
LEMMA HighBits ==
  ASSUME NEW x \in Int, NEW s \in {0, 2, 4}
  PROVE  x \div 2^s \in Int /\ \A j \in 0 .. 7 : BitAt(x \div 2^s, j) = BitAt(x, s + j)
<1>1. CASE s = 0
  <2>1. x \div 2^s = x
    BY <1>1
  <2> QED
    BY <1>1, <2>1
<1>2. CASE s = 2
  <2>1. PICK y \in Int : y = x \div 4 /\ y = x \div 2^s
    BY <1>2
  <2>2. y \div 2 = x \div 8 /\ y \div 4 = x \div 16 /\ y \div 8 = x \div 32
    BY <2>1
  <2>3. /\ y \div 16 = x \div 64 /\ y \div 32 = x \div 128 /\ y \div 64 = x \div 256
        /\ y \div 128 = x \div 512
    BY <2>1
  <2>4. /\ BitAt(y, 0) = BitAt(x, 2) /\ BitAt(y, 1) = BitAt(x, 3) /\ BitAt(y, 2) = BitAt(x, 4)
        /\ BitAt(y, 3) = BitAt(x, 5) /\ BitAt(y, 4) = BitAt(x, 6) /\ BitAt(y, 5) = BitAt(x, 7)
        /\ BitAt(y, 6) = BitAt(x, 8) /\ BitAt(y, 7) = BitAt(x, 9)
    BY <2>1, <2>2, <2>3 DEF BitAt
  <2> QED
    BY <1>2, <2>1, <2>4
<1>3. CASE s = 4
  <2>1. PICK y \in Int : y = x \div 16 /\ y = x \div 2^s
    BY <1>3
  <2>2. /\ y \div 2 = x \div 32 /\ y \div 4 = x \div 64
        /\ y \div 8 = x \div 128
    BY <2>1
  <2>3. /\ y \div 16 = x \div 256 /\ y \div 32 = x \div 512 /\ y \div 64 = x \div 1024
        /\ y \div 128 = x \div 2048
    BY <2>1
  <2>4. /\ BitAt(y, 0) = BitAt(x, 4) /\ BitAt(y, 1) = BitAt(x, 5) /\ BitAt(y, 2) = BitAt(x, 6)
        /\ BitAt(y, 3) = BitAt(x, 7) /\ BitAt(y, 4) = BitAt(x, 8) /\ BitAt(y, 5) = BitAt(x, 9)
        /\ BitAt(y, 6) = BitAt(x, 10) /\ BitAt(y, 7) = BitAt(x, 11)
    BY <2>1, <2>2, <2>3 DEF BitAt
  <2> QED
    BY <1>3, <2>1, <2>4
<1> QED
  BY <1>1, <1>2, <1>3

(* Eight bits make a byte.                                                 *)
LEMMA SameBits ==
  ASSUME NEW x \in 0 .. 255, NEW y \in 0 .. 255, \A j \in 0 .. 7 : BitAt(x, j) = BitAt(y, j)
  PROVE  x = y
<1>1. /\ BitAt(x, 0) = BitAt(y, 0) /\ BitAt(x, 1) = BitAt(y, 1) /\ BitAt(x, 2) = BitAt(y, 2)
      /\ BitAt(x, 3) = BitAt(y, 3) /\ BitAt(x, 4) = BitAt(y, 4) /\ BitAt(x, 5) = BitAt(y, 5)
      /\ BitAt(x, 6) = BitAt(y, 6) /\ BitAt(x, 7) = BitAt(y, 7)
  OBVIOUS
<1>2. x \div 128 = y \div 128
  <2>1. (x \div 128) % 2 = (y \div 128) % 2
    BY <1>1 DEF BitAt
  <2> QED
    BY <2>1
<1>3. x \div 64 = y \div 64
  <2>1. (x \div 64) % 2 = (y \div 64) % 2
    BY <1>1 DEF BitAt
  <2> QED
    BY <1>2, <2>1
<1>4. x \div 32 = y \div 32
  <2>1. (x \div 32) % 2 = (y \div 32) % 2
    BY <1>1 DEF BitAt
  <2> QED
    BY <1>3, <2>1
<1>5. x \div 16 = y \div 16
  <2>1. (x \div 16) % 2 = (y \div 16) % 2
    BY <1>1 DEF BitAt
  <2> QED
    BY <1>4, <2>1
<1>6. x \div 8 = y \div 8
  <2>1. (x \div 8) % 2 = (y \div 8) % 2
    BY <1>1 DEF BitAt
  <2> QED
    BY <1>5, <2>1
<1>7. x \div 4 = y \div 4
  <2>1. (x \div 4) % 2 = (y \div 4) % 2
    BY <1>1 DEF BitAt
  <2> QED
    BY <1>6, <2>1
<1>8. x \div 2 = y \div 2
  <2>1. (x \div 2) % 2 = (y \div 2) % 2
    BY <1>1 DEF BitAt
  <2> QED
    BY <1>7, <2>1
<1>9. x % 2 = y % 2
  BY <1>1 DEF BitAt
<1> QED
  BY <1>8, <1>9

-----------------------------------------------------------------------------
LEMMA Rounded ==
  \A n \in Int : /\ n % AccRange \in 0 .. AccRange - 1
                 /\ \E z \in Int : n % AccRange = n - 4096 * z
<1>1. AccRange \in Nat \ {0} /\ AccRange % 4096 = 0
  <2>1. 2^12 = 4096
    OBVIOUS
  <2> QED
    BY <2>1, SeedAssumption
<1>2. PICK c \in Int : AccRange = 4096 * c
  BY <1>1
<1> SUFFICES ASSUME NEW n \in Int
             PROVE  /\ n % AccRange \in 0 .. AccRange - 1
                    /\ \E z \in Int : n % AccRange = n - 4096 * z
  OBVIOUS
<1>3. PICK q \in Int : n % AccRange = n - AccRange * q /\ n % AccRange \in 0 .. AccRange - 1
  BY <1>1
<1>4. AccRange * q = 4096 * (c * q) /\ c * q \in Int
  BY <1>2
<1> QED
  BY <1>3, <1>4

LEMMA WrappedIs ==
  ASSUME NEW n \in Int
  PROVE  /\ Wrapped(n) \in
              IF decoder = "profile" THEN 0 .. AccRange - 1 ELSE -AccHalf .. AccHalf - 1
         /\ \E z \in Int : Wrapped(n) = n - 4096 * z
<1>1. CASE decoder = "profile"
  BY <1>1, Rounded DEF Wrapped
<1>2. CASE decoder # "profile"
  <2>1. AccHalf \in Nat /\ AccRange = 2 * AccHalf
    BY SeedAssumption
  <2>2. PICK i \in Int : i = n + AccHalf
    BY <2>1
  <2>3. PICK m \in 0 .. AccRange - 1 : m = i % AccRange
    BY <2>2, Rounded
  <2>4. PICK z \in Int : m = i - 4096 * z
    BY <2>3, Rounded
  <2>5. Wrapped(n) = m - AccHalf
    BY <1>2, <2>2, <2>3 DEF Wrapped
  <2> QED
    BY <1>2, <2>1, <2>2, <2>4, <2>5
<1> QED
  BY <1>1, <1>2

LEMMA CharTaken ==
  ASSUME NEW a \in Int, NEW c \in 0 .. 63
  PROVE  /\ Takes(Wrapped(a * 64 + c), a, c)
         /\ Wrapped(a * 64 + c) \in Int
         /\ Wrapped(a * 64 + c) \in
              IF decoder = "profile" THEN 0 .. AccRange - 1 ELSE -AccHalf .. AccHalf - 1
<1>1. PICK n \in Int : n = a * 64 + c
  OBVIOUS
<1>2. PICK z \in Int : Wrapped(n) = n - 4096 * z
  BY WrappedIs
<1>3. Wrapped(n) \in IF decoder = "profile" THEN 0 .. AccRange - 1 ELSE -AccHalf .. AccHalf - 1
  BY WrappedIs
<1>4. n - 4096 * z \in Int
  OBVIOUS
<1> QED
  BY <1>1, <1>2, <1>3, <1>4 DEF Takes

-----------------------------------------------------------------------------
(* The bits of digits and of bytes, one after the other.                   *)
LEMMA DigitBits ==
  ASSUME NEW ds \in Seq(0 .. 63), NEW i \in 0 .. Len(ds) - 1, NEW j \in 0 .. 5
  PROVE  BitOf(ds, 6, 6 * i + 5 - j) = BitAt(ds[i + 1], j)
<1>1. (6 * i + 5 - j) \div 6 = i /\ (6 * i + 5 - j) % 6 = 5 - j
  OBVIOUS
<1>2. 6 - 1 - (5 - j) = j
  OBVIOUS
<1> QED
  BY <1>1, <1>2 DEF BitOf, BitAt

LEMMA ByteBits ==
  ASSUME NEW bs \in Bytes, NEW i \in 0 .. Len(bs) - 1, NEW j \in 0 .. 7
  PROVE  BitOf(bs, 8, 8 * i + 7 - j) = BitAt(bs[i + 1], j)
<1>1. Len(bs) \in Nat
  BY DEF Bytes
<1>2. (8 * i + 7 - j) \div 8 = i /\ (8 * i + 7 - j) % 8 = 7 - j
  BY <1>1
<1>3. 8 - 1 - (7 - j) = j
  OBVIOUS
<1> QED
  BY <1>1, <1>2, <1>3 DEF BitOf, BitAt

LEMMA BitBefore ==
  ASSUME NEW s, NEW t, NEW w \in {6, 8}, Len(s) \in Nat, Len(t) = Len(s) + 1,
         \A i \in 1 .. Len(s) : t[i] = s[i]
  PROVE  \A k \in 0 .. w * Len(s) - 1 : BitOf(t, w, k) = BitOf(s, w, k)
<1> SUFFICES ASSUME NEW k \in 0 .. w * Len(s) - 1
             PROVE  BitOf(t, w, k) = BitOf(s, w, k)
  OBVIOUS
<1>1. k \div w \in Nat /\ k \div w < Len(s)
  <2>1. CASE w = 6
    BY <2>1
  <2>2. CASE w = 8
    BY <2>2
  <2> QED
    BY <2>1, <2>2
<1>2. k \div w + 1 \in 1 .. Len(s) /\ k \div w < Len(t)
  BY <1>1
<1> QED
  BY <1>1, <1>2 DEF BitOf

-----------------------------------------------------------------------------
(* One character.  The bytes o carry the first bits of the digits ds, the  *)
(* b + 8 lowest bits of the accumulator a are the rest of them.            *)
BitsLeft(ds, a, m) == \A j \in 0 .. m : BitAt(a, j) = BitOf(ds, 6, 6 * Len(ds) - 1 - j)

Held(ds, o, a, b) ==
  /\ b \in {-8, -6, -4, -2}
  /\ 8 * Len(o) + b + 8 = 6 * Len(ds)
  /\ Carries(ds, o)
  /\ BitsLeft(ds, a, b + 7)

LEMMA Lengthened ==
  ASSUME NEW T, NEW s \in Seq(T), NEW x \in T
  PROVE  /\ s \o <<x>> \in Seq(T) /\ Len(s) \in Nat /\ Len(s \o <<x>>) = Len(s) + 1
         /\ (s \o <<x>>)[Len(s) + 1] = x
         /\ \A i \in 1 .. Len(s) : (s \o <<x>>)[i] = s[i]
OBVIOUS

LEMMA PendingBits ==
  ASSUME NEW ds \in Seq(0 .. 63), NEW o \in Bytes, NEW a \in Int, NEW b, Held(ds, o, a, b),
         NEW c \in 0 .. 63, NEW x \in Int, Takes(x, a, c)
  PROVE  BitsLeft(ds \o <<c>>, x, b + 13)
<1> DEFINE es == ds \o <<c>>
<1>1. /\ es \in Seq(0 .. 63) /\ Len(ds) \in Nat /\ Len(es) = Len(ds) + 1 /\ es[Len(ds) + 1] = c
      /\ \A i \in 1 .. Len(ds) : es[i] = ds[i]
  BY Lengthened
<1>2. b \in {-8, -6, -4, -2} /\ 8 * Len(o) + b + 8 = 6 * Len(ds) /\ Len(o) \in Nat
  BY DEF Held, Bytes
<1>3. \A j \in 0 .. b + 7 : BitAt(a, j) = BitOf(ds, 6, 6 * Len(ds) - 1 - j)
  BY DEF Held, BitsLeft
<1>4. Shifted(x, a, c)
  BY ShiftedBits
<1> HIDE DEF es
<1>5. ASSUME NEW j \in 0 .. b + 13
      PROVE  BitAt(x, j) = BitOf(es, 6, 6 * Len(es) - 1 - j)
  <2>1. CASE j <= 5
    <3>1. j \in 0 .. 5
      BY <1>2, <2>1
    <3>2. Len(ds) \in 0 .. Len(es) - 1
      BY <1>1
    <3>3. BitOf(es, 6, 6 * Len(ds) + 5 - j) = BitAt(es[Len(ds) + 1], j)
      BY <1>1, <3>1, <3>2, DigitBits
    <3>4. 6 * Len(ds) + 5 - j = 6 * Len(es) - 1 - j
      BY <1>1
    <3> QED
      BY <1>1, <1>4, <3>1, <3>3, <3>4, Zenon DEF Shifted
  <2>2. CASE j > 5
    <3>1. PICK i \in Int : i = j - 6
      BY <1>2
    <3>2. i \in 0 .. 5 /\ i \in 0 .. b + 7 /\ i + 6 = j
      BY <1>2, <2>2, <3>1
    <3>3. PICK n \in Nat : n = Len(ds) /\ n + 1 = Len(es)
      BY <1>1
    <3>4. PICK k \in Int : k = 6 * n - 1 - i
      BY <3>2
    <3>5. k = 6 * Len(es) - 1 - j
      BY <3>1, <3>3, <3>4
    <3>6. k \in 0 .. 6 * Len(ds) - 1
      BY <1>2, <3>2, <3>3, <3>4
    <3>7. BitOf(es, 6, k) = BitOf(ds, 6, k)
      BY <1>1, <3>6, BitBefore
    <3>8. BitAt(a, i) = BitOf(ds, 6, k)
      BY <1>3, <3>2, <3>3, <3>4
    <3>9. BitAt(x, j) = BitAt(a, i)
      BY <1>4, <3>2 DEF Shifted
    <3> QED
      BY <3>5, <3>7, <3>8, <3>9
  <2> QED
    BY <1>2, <2>1, <2>2
<1> QED
  BY <1>5 DEF BitsLeft, es

LEMMA NoByteYet ==
  ASSUME NEW ds \in Seq(0 .. 63), NEW o \in Bytes, NEW a \in Int, Held(ds, o, a, -8),
         NEW c \in 0 .. 63, NEW x \in Int, Takes(x, a, c)
  PROVE  Held(ds \o <<c>>, o, x, -2)
<1> DEFINE es == ds \o <<c>>
<1>1. /\ Len(ds) \in Nat /\ Len(es) = Len(ds) + 1
      /\ \A i \in 1 .. Len(ds) : es[i] = ds[i]
  BY Lengthened
<1>2. 8 * Len(o) = 6 * Len(ds) /\ Len(o) \in Nat /\ Carries(ds, o)
  BY DEF Held, Bytes
<1>3. BitsLeft(es, x, -8 + 13)
  BY PendingBits, Zenon
<1> HIDE DEF es
<1>4. BitsLeft(es, x, -2 + 7)
  BY <1>3
<1>5. Carries(es, o)
  <2>1. \A k \in 0 .. 6 * Len(ds) - 1 : BitOf(es, 6, k) = BitOf(ds, 6, k)
    BY <1>1, BitBefore
  <2>2. \A k \in 0 .. 8 * Len(o) - 1 : BitOf(o, 8, k) = BitOf(ds, 6, k)
    BY <1>2 DEF Carries
  <2>3. 8 * Len(o) <= 6 * Len(es)
    BY <1>1, <1>2
  <2> QED
    BY <1>2, <2>1, <2>2, <2>3 DEF Carries
<1>6. 8 * Len(o) + (-2) + 8 = 6 * Len(es)
  BY <1>1, <1>2
<1> QED
  BY <1>4, <1>5, <1>6 DEF Held, es

ByteGoesOut(ds, o, x, b, c, y) ==
  Append(o, y) \in Bytes /\ Held(ds \o <<c>>, Append(o, y), x, b - 2)

LEMMA ByteMade ==
  ASSUME NEW ds \in Seq(0 .. 63), NEW o \in Bytes, NEW a \in Int, NEW b \in {-6, -4, -2},
         Held(ds, o, a, b), NEW c \in 0 .. 63, NEW x \in Int, Takes(x, a, c),
         NEW y, y = (x \div 2^(b + 6)) % 256
  PROVE  ByteGoesOut(ds, o, x, b, c, y)
<1> DEFINE es == ds \o <<c>>
           q == Append(o, y)
<1>1. x \in Int /\ b + 6 \in {0, 2, 4}
  OBVIOUS
<1>2. /\ Len(ds) \in Nat /\ Len(es) = Len(ds) + 1
      /\ \A i \in 1 .. Len(ds) : es[i] = ds[i]
  BY Lengthened
<1>3. 8 * Len(o) + b + 8 = 6 * Len(ds) /\ Len(o) \in Nat /\ Carries(ds, o)
  BY DEF Held, Bytes
<1>4. BitsLeft(es, x, b + 13)
  BY PendingBits
<1>5. PICK s \in {0, 2, 4} : s = b + 6
  BY <1>1
<1>6. y \in 0 .. 255 /\ \A j \in 0 .. 7 : BitAt(y, j) = BitAt(x, s + j)
  <2>1. PICK h \in Int : h = x \div 2^s /\ \A j \in 0 .. 7 : BitAt(h, j) = BitAt(x, s + j)
    BY HighBits
  <2>2. \A j \in 0 .. 7 : BitAt(h % 256, j) = BitAt(h, j)
    BY LowBits
  <2>3. h % 256 \in 0 .. 255
    OBVIOUS
  <2>4. y = h % 256
    BY <1>5, <2>1
  <2>5. y \in 0 .. 255
    BY <2>3, <2>4
  <2>6. ASSUME NEW j \in 0 .. 7 PROVE BitAt(y, j) = BitAt(x, s + j)
    BY <2>1, <2>2, <2>4, Zenon
  <2> QED
    BY <2>5, <2>6
<1> HIDE DEF es
<1>7. /\ q \in Bytes /\ Len(q) = Len(o) + 1 /\ q[Len(o) + 1] = y
      /\ \A i \in 1 .. Len(o) : q[i] = o[i]
  BY <1>6, AppendProperties DEF Bytes
<1> HIDE DEF q
<1>8. PICK n \in Nat, m \in Nat : /\ n = Len(ds) /\ n + 1 = Len(es) /\ m = Len(o) /\ m + 1 = Len(q)
                                  /\ 8 * m + b + 8 = 6 * n
  BY <1>2, <1>3, <1>7
<1>9. BitsLeft(es, x, (b - 2) + 7)
  <2>1. (b - 2) + 7 <= b + 13
    OBVIOUS
  <2> QED
    BY <1>4, <2>1 DEF BitsLeft
<1>10. ASSUME NEW k \in 0 .. 8 * Len(q) - 1 PROVE BitOf(q, 8, k) = BitOf(es, 6, k)
  <2>1. CASE k < 8 * Len(o)
    <3>1. k \in 0 .. 8 * Len(o) - 1 /\ k \in 0 .. 6 * Len(ds) - 1
      BY <1>3, <2>1
    <3>2. BitOf(q, 8, k) = BitOf(o, 8, k)
      BY <1>3, <1>7, <3>1, BitBefore
    <3>3. BitOf(es, 6, k) = BitOf(ds, 6, k)
      BY <1>2, <3>1, BitBefore
    <3> QED
      BY <1>3, <3>1, <3>2, <3>3 DEF Carries
  <2>2. CASE k >= 8 * Len(o)
    <3>1. k \in 0 .. 8 * (m + 1) - 1 /\ k >= 8 * m
      BY <1>8, <2>2
    <3>2. PICK j \in 0 .. 7 : k = 8 * m + 7 - j
      <4>1. 8 * m + 7 - k \in 0 .. 7 /\ k = 8 * m + 7 - (8 * m + 7 - k)
        BY <3>1
      <4> QED
        BY <4>1
    <3>3. k = 8 * Len(o) + 7 - j /\ Len(o) \in 0 .. Len(q) - 1
      BY <1>8, <3>2
    <3>4. BitOf(q, 8, 8 * Len(o) + 7 - j) = BitAt(q[Len(o) + 1], j)
      BY <1>7, <3>3, ByteBits
    <3>5. BitAt(q[Len(o) + 1], j) = BitAt(x, s + j)
      BY <1>6, <1>7, <3>3
    <3>6. PICK i \in 0 .. b + 13 : i = s + j
      BY <1>5, <3>3
    <3>7. 6 * Len(es) - 1 - i = k
      <4>1. i = b + 6 + j
        BY <1>5, <3>6
      <4>2. b \in Int /\ j \in Int /\ 8 * m + b + 8 = 6 * n
        BY <1>8
      <4>3. 6 * (n + 1) - 1 - (b + 6 + j) = 8 * m + 7 - j
        BY <4>2
      <4> QED
        BY <1>8, <3>2, <4>1, <4>3
    <3>8. BitAt(x, i) = BitOf(es, 6, k)
      BY <1>4, <3>7 DEF BitsLeft
    <3> QED
      BY <3>3, <3>4, <3>5, <3>6, <3>8
  <2> QED
    BY <1>3, <2>1, <2>2
<1>11. 8 * Len(q) + (b - 2) + 8 = 6 * Len(es) /\ 8 * Len(q) <= 6 * Len(es)
  <2>1. b \in {-6, -4, -2} /\ 8 * m + b + 8 = 6 * n
    BY <1>8
  <2>2. 8 * (m + 1) + (b - 2) + 8 = 6 * (n + 1) /\ 8 * (m + 1) <= 6 * (n + 1)
    BY <2>1
  <2> QED
    BY <1>8, <2>2
<1>12. Held(es, q, x, b - 2)
  <2>1. Carries(es, q)
    BY <1>10, <1>11 DEF Carries
  <2>2. b - 2 \in {-8, -6, -4, -2}
    OBVIOUS
  <2> QED
    BY <1>9, <1>11, <2>1, <2>2 DEF Held
<1> QED
  BY <1>7, <1>12 DEF es, q, ByteGoesOut

-----------------------------------------------------------------------------
(* A sequence of bytes is what the output begins with if the digits begin  *)
(* with its bits.                                                          *)
LEMMA PrefixIsCarried ==
  ASSUME NEW ds, Len(ds) \in Nat, NEW o \in Bytes, NEW bs \in Bytes, Carries(ds, o),
         Len(o) = (6 * Len(ds)) \div 8
  PROVE  IsPrefix(bs, o) <=> Carries(ds, bs)
<1>1. PICK m \in Nat, n \in Nat : m = Len(bs) /\ n = Len(o)
  BY DEF Bytes
<1>2. \A k \in 0 .. 8 * n - 1 : BitOf(o, 8, k) = BitOf(ds, 6, k)
  BY <1>1 DEF Carries
<1>3. 8 * m <= 6 * Len(ds) <=> m <= n
  BY <1>1
<1>4. ASSUME IsPrefix(bs, o) PROVE Carries(ds, bs)
  <2>1. m <= n /\ SubSeq(bs, 1, m) = SubSeq(o, 1, m)
    BY <1>1, <1>4 DEF IsPrefix
  <2>2. ASSUME NEW i \in 1 .. m PROVE bs[i] = o[i]
    <3>1. SubSeq(bs, 1, m)[i] = bs[i] /\ SubSeq(o, 1, m)[i] = o[i]
      BY <1>1, <2>1 DEF Bytes
    <3> QED
      BY <2>1, <3>1
  <2>3. ASSUME NEW k \in 0 .. 8 * m - 1 PROVE BitOf(bs, 8, k) = BitOf(ds, 6, k)
    <3>1. k \div 8 < m /\ k \div 8 + 1 \in 1 .. m /\ k \div 8 < n /\ k \in 0 .. 8 * n - 1
      BY <2>1
    <3>2. BitOf(bs, 8, k) = BitOf(o, 8, k)
      BY <1>1, <2>2, <3>1 DEF BitOf
    <3> QED
      BY <1>2, <3>1, <3>2
  <2> QED
    BY <1>1, <1>3, <2>1, <2>3 DEF Carries
<1>5. ASSUME Carries(ds, bs) PROVE IsPrefix(bs, o)
  <2>1. m <= n /\ \A k \in 0 .. 8 * m - 1 : BitOf(bs, 8, k) = BitOf(ds, 6, k)
    BY <1>1, <1>3, <1>5 DEF Carries
  <2>2. ASSUME NEW i \in 1 .. m PROVE bs[i] = o[i]
    <3>1. PICK h \in Int : h = i - 1
      OBVIOUS
    <3>2. h \in 0 .. m - 1 /\ h \in 0 .. n - 1 /\ h + 1 = i
      BY <2>1, <3>1
    <3>3. ASSUME NEW j \in 0 .. 7 PROVE BitAt(bs[i], j) = BitAt(o[i], j)
      <4>1. PICK k \in 0 .. 8 * m - 1 : k = 8 * h + 7 - j
        BY <3>2
      <4>2. k \in 0 .. 8 * n - 1
        BY <2>1
      <4>3. /\ BitOf(bs, 8, 8 * h + 7 - j) = BitAt(bs[i], j)
            /\ BitOf(o, 8, 8 * h + 7 - j) = BitAt(o[i], j)
        BY <1>1, <3>2, ByteBits
      <4> QED
        BY <1>2, <2>1, <4>1, <4>2, <4>3
    <3>4. bs[i] \in 0 .. 255 /\ o[i] \in 0 .. 255
      BY <1>1, <2>1 DEF Bytes
    <3> QED
      BY <3>3, <3>4, SameBits
  <2>3. SubSeq(bs, 1, m) = SubSeq(o, 1, m)
    <3>1. SubSeq(bs, 1, m) = [i \in 1 .. m |-> bs[i]] /\ SubSeq(o, 1, m) = [i \in 1 .. m |-> o[i]]
      BY <1>1, <2>1 DEF Bytes
    <3> QED
      BY <2>2, <3>1
  <2> QED
    BY <1>1, <2>1, <2>3 DEF IsPrefix
<1> QED
  BY <1>4, <1>5

-----------------------------------------------------------------------------
LEMMA HeldIs ==
  ASSUME NEW ds, NEW o \in Bytes, NEW a, NEW b, Held(ds, o, a, b), Len(ds) \in Nat
  PROVE  Len(o) = (6 * Len(ds)) \div 8 /\ Carries(ds, o)
<1>1. PICK m \in Nat, n \in Nat : m = Len(o) /\ n = Len(ds)
  BY DEF Bytes
<1>2. b \in {-8, -6, -4, -2} /\ 8 * m + b + 8 = 6 * n
  BY <1>1 DEF Held
<1>3. m = (6 * n) \div 8
  BY <1>2
<1> QED
  BY <1>1, <1>3 DEF Held

(* The inductive invariant: of the digits read the bytes carry the first   *)
(* bits and the accumulator the rest, none was left out, and Gunzip has    *)
(* put out all of the seed or nothing.                                     *)
TextRead == DigitsUpTo(decoder, seed.text, pos - 1)

TextInv ==
  /\ Held(TextRead, decoded, acc, bits)
  /\ phase = "base64" /\ decoder = "profile" => \A i \in 1 .. pos - 1 : seed.text[i] # Pad
  /\ phase # "base64" => TextRead = Digits(decoder, seed.text)

OutcomeInv ==
  /\ phase = "base64" => inflated = 0
  /\ decoder = "profile" => phase \in {"base64", "done"}
  /\ decoder = "variations" =>
       /\ phase \in {"parse", "done"} => inflated = IF Stream = "whole" THEN seed.size ELSE 0
       /\ phase = "done" => (present <=> inflated > 0 /\ seed.parses)

SeedInv == SeedTypeOK /\ TextInv /\ OutcomeInv

LEMMA SeedIs ==
  ASSUME NEW s \in Seeds
  PROVE  /\ s.bytes \in Bytes /\ s.text \in Chars /\ s.stream \in {"whole", "torn", "corrupt"}
         /\ s.size \in Nat /\ s.parses \in BOOLEAN /\ Len(s.text) \in Nat
  BY SeedAssumption DEF Chars

LEMMA SeedInitInv ==
  SeedInit => SeedInv
<1> SUFFICES ASSUME SeedInit PROVE SeedInv
  OBVIOUS
<1>1. /\ seed \in Seeds /\ decoder \in {"profile", "variations"} /\ pos = 1 /\ acc = 0 /\ bits = -8
      /\ decoded = <<>> /\ phase = "base64" /\ inflated = 0 /\ present = FALSE
  BY DEF SeedInit
<1>2. seed.size \in Nat /\ Len(seed.text) \in Nat
  BY <1>1, SeedIs
<1>3. SeedTypeOK
  <2>1. AccRange \in Nat \ {0} /\ AccHalf \in Nat \ {0}
    BY SeedAssumption
  <2>2. <<>> \in Bytes
    BY EmptySeq DEF Bytes
  <2>3. acc \in IF decoder = "profile" THEN 0 .. AccRange - 1 ELSE -AccHalf .. AccHalf - 1
    BY <1>1, <2>1
  <2>4. pos \in 1 .. Len(seed.text) + 1 /\ inflated \in 0 .. seed.size /\ bits \in -8 .. -1
    BY <1>1, <1>2
  <2> QED
    BY <1>1, <2>2, <2>3, <2>4 DEF SeedTypeOK
<1>4. TextInv
  <2>1. TextRead = <<>>
    BY <1>1, DigitsAre DEF TextRead
  <2>2. Held(<<>>, <<>>, 0, -8)
    BY DEF Held, Carries, BitsLeft
  <2> QED
    BY <1>1, <2>1, <2>2 DEF TextInv
<1>5. OutcomeInv
  BY <1>1 DEF OutcomeInv
<1> QED
  BY <1>3, <1>4, <1>5 DEF SeedInv

(* What an invariant says of the text as long as there is some.            *)
LEMMA InTextIs ==
  ASSUME SeedTypeOK, InText
  PROVE  /\ seed.text \in Chars /\ pos \in Nat /\ pos - 1 \in Nat /\ (pos - 1) + 1 = pos
         /\ pos \in 1 .. Len(seed.text) /\ Len(seed.text) \in Nat /\ Char \in 0 .. 65
         /\ pos + 1 \in 1 .. Len(seed.text) + 1 /\ (pos + 1) - 1 = pos
         /\ TextRead \in Seq(0 .. 63) /\ acc \in Int /\ decoded \in Bytes
         /\ DigitsUpTo(decoder, seed.text, pos) = TextRead \o Counted(seed.text, decoder, pos)
<1>1. /\ seed \in Seeds /\ pos \in 1 .. Len(seed.text) + 1
      /\ pos <= Len(seed.text) /\ decoded \in Bytes
  BY DEF SeedTypeOK, InText
<1>2. seed.text \in Chars /\ Len(seed.text) \in Nat
  BY <1>1, SeedIs
<1>3. /\ pos \in 1 .. Len(seed.text) /\ pos \in Nat /\ pos - 1 \in Nat /\ (pos - 1) + 1 = pos
      /\ pos + 1 \in 1 .. Len(seed.text) + 1 /\ (pos + 1) - 1 = pos
      /\ pos - 1 \in 0 .. Len(seed.text)
  BY <1>1, <1>2
<1>4. Char \in 0 .. 65
  <2>1. seed.text \in Seq(0 .. 65)
    BY <1>2 DEF Chars, Noise64
  <2> QED
    BY <1>3, <2>1, ElementOfSeq DEF Char
<1>5. TextRead \in Seq(0 .. 63)
  BY <1>2, <1>3, DigitsTyped DEF TextRead
<1>6. acc \in Int
  <2>1. AccRange \in Nat /\ AccHalf \in Nat
    BY SeedAssumption
  <2> QED
    BY <2>1 DEF SeedTypeOK
<1>7. PICK k \in Nat : k = pos - 1 /\ k + 1 = pos
  BY <1>3
<1>8. DigitsUpTo(decoder, seed.text, k + 1) =
        DigitsUpTo(decoder, seed.text, k) \o Counted(seed.text, decoder, k + 1)
  BY DigitsAre
<1> QED
  BY <1>1, <1>2, <1>3, <1>4, <1>5, <1>6, <1>7, <1>8 DEF TextRead

LEMMA SkipKeeps ==
  ASSUME SeedInv, SkipChar
  PROVE  SeedInv'
<1>1. InText /\ pos' = pos + 1 /\ (Char = Noise64 \/ (Char = Pad /\ decoder = "variations"))
  BY DEF SkipChar
<1>2. /\ acc' = acc /\ bits' = bits /\ decoded' = decoded /\ phase' = phase
      /\ seed' = seed /\ decoder' = decoder /\ inflated' = inflated /\ present' = present
  BY DEF SkipChar, SeedFrame
<1>3. SeedTypeOK'
  BY <1>1, <1>2, InTextIs DEF SeedInv, SeedTypeOK
<1>4. Counted(seed.text, decoder, pos) = <<>>
  <2>1. ~IsDigit(decoder, seed.text, pos)
    BY <1>1 DEF IsDigit, Char, Pad, Noise64
  <2> QED
    BY <2>1 DEF Counted
<1>5. TextRead' = TextRead
  <2>1. TextRead' = DigitsUpTo(decoder, seed.text, pos)
    BY <1>1, <1>2, InTextIs DEF SeedInv, TextRead
  <2>2. TextRead \o <<>> = TextRead
    BY <1>1, InTextIs DEF SeedInv
  <2> QED
    BY <1>1, <1>4, <2>1, <2>2, InTextIs DEF SeedInv
<1>6. phase = "base64"
  BY <1>1 DEF InText
<1>7. decoder = "profile" => \A i \in 1 .. pos' - 1 : seed.text[i] # Pad
  <2> SUFFICES ASSUME decoder = "profile", NEW i \in 1 .. pos' - 1 PROVE seed.text[i] # Pad
    OBVIOUS
  <2>1. CASE i = pos
    BY <1>1, <2>1 DEF Char, Pad, Noise64
  <2>2. CASE i # pos
    <3>1. i \in 1 .. pos - 1
      BY <1>1, <2>2, InTextIs DEF SeedInv
    <3> QED
      BY <1>6, <3>1 DEF SeedInv, TextInv
  <2> QED
    BY <2>1, <2>2
<1>8. TextInv'
  BY <1>2, <1>5, <1>6, <1>7 DEF SeedInv, TextInv
<1>9. OutcomeInv'
  BY <1>2 DEF SeedInv, OutcomeInv, Stream
<1> QED
  BY <1>3, <1>8, <1>9 DEF SeedInv

LEMMA TakeKeeps ==
  ASSUME SeedInv, TakeChar
  PROVE  SeedInv'
<1>1. InText /\ pos' = pos + 1 /\ Char < Pad /\ acc' = Wrapped(acc * 64 + Char)
  BY DEF TakeChar
<1>2. /\ phase' = phase /\ seed' = seed /\ decoder' = decoder
      /\ inflated' = inflated /\ present' = present
  BY DEF TakeChar, SeedFrame
<1>3. phase = "base64"
  BY <1>1 DEF InText
<1>4. PICK c \in 0 .. 63 : c = Char /\ c = seed.text[pos]
  <2>1. PICK c \in 0 .. 65 : c = Char
    BY <1>1, InTextIs DEF SeedInv
  <2>2. c < 64
    BY <1>1, <2>1 DEF Pad
  <2> QED
    BY <2>1, <2>2 DEF Char
<1>5. \A i \in 1 .. pos : decoder = "profile" => seed.text[i] # Pad
  <2> SUFFICES ASSUME decoder = "profile", NEW i \in 1 .. pos PROVE seed.text[i] # Pad
    OBVIOUS
  <2>1. CASE i = pos
    BY <1>4, <2>1 DEF Pad
  <2>2. CASE i # pos
    <3>1. i \in 1 .. pos - 1
      BY <1>1, <2>2, InTextIs DEF SeedInv
    <3> QED
      BY <1>3, <3>1 DEF SeedInv, TextInv
  <2> QED
    BY <2>1, <2>2
<1>6. Counted(seed.text, decoder, pos) = <<c>>
  <2>1. IsDigit(decoder, seed.text, pos)
    BY <1>1, <1>4, <1>5 DEF IsDigit, Pad
  <2> QED
    BY <1>4, <2>1 DEF Counted
<1>7. TextRead' = TextRead \o <<c>>
  <2>1. TextRead' = DigitsUpTo(decoder, seed.text, pos)
    BY <1>1, <1>2, InTextIs DEF SeedInv, TextRead
  <2> QED
    BY <1>1, <1>6, <2>1, InTextIs DEF SeedInv
<1>8. /\ Takes(acc', acc, c) /\ acc' \in Int
      /\ acc' \in IF decoder = "profile" THEN 0 .. AccRange - 1 ELSE -AccHalf .. AccHalf - 1
  <2>1. acc \in Int
    BY <1>1, InTextIs DEF SeedInv
  <2> QED
    BY <1>1, <1>4, <2>1, CharTaken
<1>9. /\ Held(TextRead, decoded, acc, bits) /\ TextRead \in Seq(0 .. 63) /\ decoded \in Bytes
      /\ bits \in {-8, -6, -4, -2} /\ acc \in Int
  BY <1>1, InTextIs DEF SeedInv, TextInv, Held
<1>10. Held(TextRead', decoded', acc', bits') /\ decoded' \in Bytes /\ bits' \in -8 .. -1
  <2>1. CASE bits = -8
    <3>1. decoded' = decoded /\ bits' = -2
      BY <2>1 DEF TakeChar
    <3>2. Held(TextRead \o <<c>>, decoded, acc', -2)
      BY <1>8, <1>9, <2>1, NoByteYet
    <3> QED
      BY <1>7, <1>9, <3>1, <3>2
  <2>2. CASE bits # -8
    <3>1. bits \in {-6, -4, -2} /\ bits + 6 >= 0 /\ bits + 6 - 8 = bits - 2 /\ bits - 2 \in -8 .. -1
      BY <1>9, <2>2
    <3>2. decoded' = Append(decoded, (acc' \div 2^(bits + 6)) % 256) /\ bits' = bits - 2
      BY <3>1 DEF TakeChar
    <3>3. PICK x \in Int, b \in {-6, -4, -2} : x = acc' /\ b = bits
      BY <1>8, <3>1
    <3>4. PICK y : y = (x \div 2^(b + 6)) % 256
      OBVIOUS
    <3>5. PICK ds \in Seq(0 .. 63), o \in Bytes, a \in Int : ds = TextRead /\ o = decoded /\ a = acc
      BY <1>9
    <3>6. Held(ds, o, a, b) /\ Takes(x, a, c)
      BY <1>8, <1>9, <3>3, <3>5
    <3>7. ByteGoesOut(ds, o, x, b, c, y)
      BY <3>4, <3>6, ByteMade
    <3> QED
      BY <1>7, <3>1, <3>2, <3>3, <3>4, <3>5, <3>7 DEF ByteGoesOut
  <2> QED
    BY <2>1, <2>2
<1>11. SeedTypeOK'
  BY <1>1, <1>2, <1>8, <1>10, InTextIs DEF SeedInv, SeedTypeOK
<1>12. TextInv'
  <2>1. pos' - 1 = pos
    BY <1>1, InTextIs DEF SeedInv
  <2> QED
    BY <1>2, <1>3, <1>5, <1>10, <2>1 DEF TextInv
<1>13. OutcomeInv'
  BY <1>2, <1>3 DEF SeedInv, OutcomeInv
<1> QED
  BY <1>11, <1>12, <1>13 DEF SeedInv

LEMMA EndKeeps ==
  ASSUME SeedInv, EndOfText
  PROVE  SeedInv'
<1>1. /\ pos' = pos /\ acc' = acc /\ bits' = bits /\ decoded' = decoded
      /\ seed' = seed /\ decoder' = decoder /\ inflated' = inflated /\ present' = present
      /\ phase = "base64" /\ phase' = IF decoder = "profile" THEN "done" ELSE "gunzip"
  BY DEF EndOfText, SeedFrame
<1>2. SeedTypeOK'
  BY <1>1 DEF SeedInv, SeedTypeOK
<1>3. TextRead' = TextRead
  BY <1>1 DEF TextRead
<1>4. TextRead = Digits(decoder, seed.text)
  <2>1. CASE ~InText
    <3>1. Len(seed.text) \in Nat /\ pos \in 1 .. Len(seed.text) + 1
      BY SeedIs DEF SeedInv, SeedTypeOK
    <3>2. pos - 1 = Len(seed.text)
      BY <1>1, <2>1, <3>1 DEF InText
    <3> QED
      BY <3>2 DEF TextRead, Digits
  <2>2. CASE InText
    <3>1. decoder = "profile" /\ seed.text[pos] = Pad
      BY <2>2 DEF EndOfText, Char
    <3>2. seed.text \in Chars /\ pos \in 1 .. Len(seed.text)
      BY <2>2, InTextIs DEF SeedInv
    <3> QED
      BY <3>1, <3>2, NothingBehindPad DEF TextRead
  <2> QED
    BY <2>1, <2>2
<1>5. TextInv'
  <2>1. phase' # "base64"
    BY <1>1
  <2>2. Digits(decoder, seed.text)' = Digits(decoder, seed.text)
    BY <1>1
  <2> QED
    BY <1>1, <1>3, <1>4, <2>1, <2>2 DEF SeedInv, TextInv
<1>6. OutcomeInv'
  BY <1>1 DEF OutcomeInv, SeedInv, SeedTypeOK
<1> QED
  BY <1>2, <1>5, <1>6 DEF SeedInv

(* The steps of Gunzip and of DecodeVariations leave the text alone.       *)
LEMMA GunzipKeeps ==
  ASSUME SeedInv, InflateFails \/ InflateMore \/ InflateEnds \/ DecodeVariations
  PROVE  SeedInv'
<1>1. /\ pos' = pos /\ acc' = acc /\ bits' = bits /\ decoded' = decoded
      /\ seed' = seed /\ decoder' = decoder /\ phase \in {"gunzip", "parse"}
      /\ phase' \in {"gunzip", "parse", "done"}
  BY DEF InflateFails, InflateMore, InflateEnds, DecodeVariations
<1>2. /\ seed.size \in Nat /\ seed.stream \in {"whole", "torn", "corrupt"}
      /\ inflated \in 0 .. seed.size
      /\ decoder \in {"profile", "variations"} /\ present \in BOOLEAN
  BY SeedIs DEF SeedInv, SeedTypeOK
<1>3. decoder = "variations"
  BY <1>1, <1>2 DEF SeedInv, OutcomeInv
<1>4. Stream' = Stream
  BY <1>1 DEF Stream
<1>5. Output \in 0 .. seed.size - inflated
  BY <1>2, SeedAssumption DEF Output
<1>6. inflated' \in 0 .. seed.size /\ present' \in BOOLEAN
  <2>1. PICK n \in Nat, i \in Int, q \in Int :
          /\ n = seed.size /\ i = inflated /\ q = Output /\ i \in 0 .. n /\ q \in 0 .. n - i
    BY <1>2, <1>5
  <2>2. 0 \in 0 .. n /\ n \in 0 .. n /\ i + q \in 0 .. n
    BY <2>1
  <2>3. inflated' = 0 \/ inflated' = n \/ inflated' = i + q \/ inflated' = i
    BY <2>1 DEF InflateFails, InflateMore, InflateEnds, DecodeVariations
  <2>4. present' \in BOOLEAN
    BY <1>2 DEF InflateFails, InflateMore, InflateEnds, DecodeVariations
  <2> QED
    BY <2>1, <2>2, <2>3, <2>4
<1>7. SeedTypeOK'
  BY <1>1, <1>6 DEF SeedInv, SeedTypeOK
<1>8. TextInv'
  <2>1. TextRead' = TextRead
    BY <1>1 DEF TextRead
  <2>2. phase # "base64" /\ phase' # "base64"
    BY <1>1
  <2>3. Digits(decoder, seed.text)' = Digits(decoder, seed.text)
    BY <1>1
  <2> QED
    BY <1>1, <2>1, <2>2, <2>3 DEF SeedInv, TextInv
<1>9. OutcomeInv'
  <2>1. CASE InflateFails
    BY <1>1, <1>2, <1>3, <1>4, <2>1 DEF InflateFails, OutcomeInv
  <2>2. CASE InflateMore
    BY <1>1, <1>3, <2>2 DEF InflateMore, OutcomeInv
  <2>3. CASE InflateEnds
    BY <1>1, <1>3, <1>4, <2>3 DEF InflateEnds, OutcomeInv
  <2>4. CASE DecodeVariations
    BY <1>1, <1>3, <1>4, <2>4 DEF DecodeVariations, OutcomeInv, SeedInv
  <2> QED
    BY <2>1, <2>2, <2>3, <2>4
<1> QED
  BY <1>7, <1>8, <1>9 DEF SeedInv

LEMMA SeedInvStep ==
  SeedInv /\ [SeedNext]_seedVars => SeedInv'
<1> SUFFICES ASSUME SeedInv, [SeedNext]_seedVars PROVE SeedInv'
  OBVIOUS
<1>1. CASE SkipChar
  BY <1>1, SkipKeeps
<1>2. CASE TakeChar
  BY <1>2, TakeKeeps
<1>3. CASE EndOfText
  BY <1>3, EndKeeps
<1>4. CASE InflateFails \/ InflateMore \/ InflateEnds \/ DecodeVariations
  BY <1>4, GunzipKeeps
<1>5. CASE UNCHANGED seedVars
  BY <1>5 DEF seedVars, SeedInv, SeedTypeOK, TextInv, OutcomeInv, TextRead, Stream
<1> QED
  BY <1>1, <1>2, <1>3, <1>4, <1>5 DEF SeedNext

(* The type invariant of SeedDecoder: the accumulator keeps its range, of  *)
(* the bits eight are never there, and Gunzip gives no more than the seed  *)
(* has.                                                                    *)
THEOREM SeedTypes == SeedSpec => []SeedTypeOK
<1>1. SeedInv => SeedTypeOK
  BY DEF SeedInv
<1> QED
  BY <1>1, SeedInitInv, SeedInvStep, PTL DEF SeedSpec

(* Base64Decode, in both decoders: the bits of the digits come out, all    *)
(* that make up bytes, whatever the text, however wide the accumulator.    *)
THEOREM Base64Decodes == SeedSpec => []Base64IsExact
<1>1. SeedInv => Base64IsExact
  <2> SUFFICES ASSUME SeedInv, phase # "base64"
               PROVE  LET ds == Digits(decoder, seed.text)
                      IN  Len(decoded) = (6 * Len(ds)) \div 8 /\ Carries(ds, decoded)
    BY DEF Base64IsExact
  <2>1. Held(Digits(decoder, seed.text), decoded, acc, bits) /\ decoded \in Bytes
    BY DEF SeedInv, TextInv, SeedTypeOK
  <2>2. Len(Digits(decoder, seed.text)) \in Nat
    <3>1. seed.text \in Chars /\ Len(seed.text) \in 0 .. Len(seed.text)
      BY SeedIs DEF SeedInv, SeedTypeOK
    <3>2. Digits(decoder, seed.text) \in Seq(0 .. 63)
      BY <3>1, DigitsTyped DEF Digits
    <3> QED
      BY <3>2
  <2> QED
    BY <2>1, <2>2, HeldIs
<1> QED
  BY <1>1, SeedInitInv, SeedInvStep, PTL DEF SeedSpec

(* DecodeVariations: the summary is there exactly when the whole seed has  *)
(* come through the text, the stream and the parser.                       *)
THEOREM SeedAllOrNothing == SeedSpec => []SeedIsAllOrNothing
<1>1. SeedInv => SeedIsAllOrNothing
  <2> SUFFICES ASSUME SeedInv, phase = "done", decoder = "variations"
               PROVE  present <=> /\ Carries(Digits(decoder, seed.text), seed.bytes)
                                  /\ seed.stream = "whole" /\ seed.size > 0 /\ seed.parses
    BY DEF SeedIsAllOrNothing
  <2>1. /\ seed.bytes \in Bytes /\ seed.text \in Chars /\ seed.size \in Nat /\ decoded \in Bytes
        /\ seed.stream \in {"whole", "torn", "corrupt"} /\ Len(seed.text) \in Nat
    BY SeedIs DEF SeedInv, SeedTypeOK
  <2>2. PICK ds : ds = Digits(decoder, seed.text)
    OBVIOUS
  <2>3. ds \in Seq(0 .. 63)
    BY <2>1, <2>2, DigitsTyped DEF Digits
  <2>4. Held(ds, decoded, acc, bits)
    BY <2>2 DEF SeedInv, TextInv
  <2>5. IsPrefix(seed.bytes, decoded) <=> Carries(ds, seed.bytes)
    BY <2>1, <2>3, <2>4, HeldIs, PrefixIsCarried
  <2>6. Stream = "whole" <=> Carries(ds, seed.bytes) /\ seed.stream = "whole"
    BY <2>5 DEF Stream
  <2>7. present <=> inflated > 0 /\ seed.parses
    BY DEF SeedInv, OutcomeInv
  <2>8. inflated = IF Stream = "whole" THEN seed.size ELSE 0
    BY DEF SeedInv, OutcomeInv
  <2> QED
    BY <2>1, <2>2, <2>6, <2>7, <2>8
<1> QED
  BY <1>1, SeedInitInv, SeedInvStep, PTL DEF SeedSpec

-----------------------------------------------------------------------------
(* The text that the browser writes.                                       *)
SixBits(f, bs, i) == f = [k \in 0 .. 6 |->
                            IF k = 0 THEN 0 ELSE 2 * f[k - 1] + BitOf(bs, 8, 6 * (i - 1) + k - 1)]

LEMMA DigitFunction ==
  ASSUME NEW bs, NEW i
  PROVE  \E f : SixBits(f, bs, i) /\ Digit(bs, i) = f[6]
<1> DEFINE B(k) == BitOf(bs, 8, 6 * (i - 1) + k - 1)
           Q(f) == f = [k \in 0 .. 6 |-> IF k = 0 THEN 0 ELSE 2 * f[k - 1] + B(k)]
           v1 == 2 * 0 + B(1)
           v2 == 2 * v1 + B(2)
           v3 == 2 * v2 + B(3)
           v4 == 2 * v3 + B(4)
           v5 == 2 * v4 + B(5)
           v6 == 2 * v5 + B(6)
           h == [k \in 0 .. 6 |-> CASE k = 0 -> 0 [] k = 1 -> v1 [] k = 2 -> v2 [] k = 3 -> v3
                                    [] k = 4 -> v4 [] k = 5 -> v5 [] OTHER -> v6]
<1>1. \A f : SixBits(f, bs, i) <=> Q(f)
  BY DEF SixBits
<1>2. Q(h)
  <2> HIDE DEF B
  <2> DEFINE g == [k \in 0 .. 6 |-> IF k = 0 THEN 0 ELSE 2 * h[k - 1] + B(k)]
  <2>1. ASSUME NEW k \in 0 .. 6 PROVE h[k] = g[k]
    <3>1. CASE k = 0
      BY <3>1
    <3>2. CASE k = 1
      BY <3>2
    <3>3. CASE k = 2
      BY <3>3
    <3>4. CASE k = 3
      BY <3>4
    <3>5. CASE k = 4
      BY <3>5
    <3>6. CASE k = 5
      BY <3>6
    <3>7. CASE k = 6
      BY <3>7
    <3> QED
      BY <3>1, <3>2, <3>3, <3>4, <3>5, <3>6, <3>7
  <2> QED
    BY <2>1
<1> HIDE DEF h
<1>3. \E f : Q(f)
  BY <1>2
<1> HIDE DEF Q, B
<1>4. Q(CHOOSE f : Q(f))
  BY <1>3
<1>5. Digit(bs, i) = (CHOOSE f : Q(f))[6]
  BY DEF Digit, Q, B
<1> QED
  BY <1>1, <1>4, <1>5

LEMMA BitIsBit ==
  ASSUME NEW bs \in Bytes, NEW k \in Nat
  PROVE  BitOf(bs, 8, k) \in 0 .. 1
<1>1. PICK e \in 0 .. 7 : e = 8 - 1 - (k % 8)
  OBVIOUS
<1>2. 2^e \in {1, 2, 4, 8, 16, 32, 64, 128}
  <2>1. CASE e = 0
    BY <2>1
  <2>2. CASE e = 1
    BY <2>2
  <2>3. CASE e = 2
    BY <2>3
  <2>4. CASE e = 3
    BY <2>4
  <2>5. CASE e = 4
    BY <2>5
  <2>6. CASE e = 5
    BY <2>6
  <2>7. CASE e = 6
    BY <2>7
  <2>8. CASE e = 7
    BY <2>8
  <2> QED
    BY <2>1, <2>2, <2>3, <2>4, <2>5, <2>6, <2>7, <2>8
<1>3. CASE k \div 8 < Len(bs)
  <2>1. PICK i \in 1 .. Len(bs) : i = k \div 8 + 1
    BY <1>3 DEF Bytes
  <2>2. PICK x \in 0 .. 255 : x = bs[i]
    BY ElementOfSeq DEF Bytes
  <2>3. PICK q \in {1, 2, 4, 8, 16, 32, 64, 128} : q = 2^e
    BY <1>2
  <2>4. (x \div q) % 2 \in 0 .. 1
    OBVIOUS
  <2> QED
    BY <1>1, <1>3, <2>1, <2>2, <2>3, <2>4 DEF BitOf
<1>4. CASE ~(k \div 8 < Len(bs))
  BY <1>4 DEF BitOf
<1> QED
  BY <1>3, <1>4

(* A digit has six of the bits.                                            *)
LEMMA DigitIs ==
  ASSUME NEW bs \in Bytes, NEW i \in Nat \ {0}
  PROVE  /\ Digit(bs, i) \in 0 .. 63
         /\ \A j \in 0 .. 5 : BitAt(Digit(bs, i), j) = BitOf(bs, 8, 6 * (i - 1) + 5 - j)
<1>1. PICK f : SixBits(f, bs, i) /\ Digit(bs, i) = f[6]
  BY DigitFunction
<1>2. PICK n \in Nat : n = 6 * (i - 1)
  OBVIOUS
<1>3. PICK b1 \in 0 .. 1, b2 \in 0 .. 1, b3 \in 0 .. 1,
           b4 \in 0 .. 1, b5 \in 0 .. 1, b6 \in 0 .. 1 :
        /\ b1 = BitOf(bs, 8, n + 0) /\ b2 = BitOf(bs, 8, n + 1) /\ b3 = BitOf(bs, 8, n + 2)
        /\ b4 = BitOf(bs, 8, n + 3) /\ b5 = BitOf(bs, 8, n + 4) /\ b6 = BitOf(bs, 8, n + 5)
  BY BitIsBit
<1>4. \A k \in 0 .. 6 : f[k] = IF k = 0 THEN 0 ELSE 2 * f[k - 1] + BitOf(bs, 8, n + k - 1)
  BY <1>1, <1>2 DEF SixBits
<1>5. f[0] = 0 /\ f[1] = 2 * f[0] + b1 /\ f[2] = 2 * f[1] + b2 /\ f[3] = 2 * f[2] + b3
  <2>1. n + 1 - 1 = n + 0 /\ n + 2 - 1 = n + 1 /\ n + 3 - 1 = n + 2
    OBVIOUS
  <2> QED
    BY <1>3, <1>4, <2>1
<1>6. f[4] = 2 * f[3] + b4 /\ f[5] = 2 * f[4] + b5 /\ f[6] = 2 * f[5] + b6
  <2>1. n + 4 - 1 = n + 3 /\ n + 5 - 1 = n + 4 /\ n + 6 - 1 = n + 5
    OBVIOUS
  <2> QED
    BY <1>3, <1>4, <2>1
<1>7. PICK x \in 0 .. 63 : x = f[6] /\ x = 32 * b1 + 16 * b2 + 8 * b3 + 4 * b4 + 2 * b5 + b6
  BY <1>5, <1>6
<1>8. BitAt(x, 0) = b6 /\ BitAt(x, 1) = b5 /\ BitAt(x, 2) = b4
  <2>1. x % 2 = b6
    BY <1>7
  <2>2. (x \div 2) % 2 = b5
    BY <1>7
  <2>3. (x \div 4) % 2 = b4
    BY <1>7
  <2>4. BitAt(x, 0) = b6
    BY <2>1, LowestBit
  <2> QED
    BY <2>2, <2>3, <2>4 DEF BitAt
<1>9. BitAt(x, 3) = b3 /\ BitAt(x, 4) = b2 /\ BitAt(x, 5) = b1
  <2>1. (x \div 8) % 2 = b3
    BY <1>7
  <2>2. (x \div 16) % 2 = b2
    BY <1>7
  <2>3. (x \div 32) % 2 = b1
    BY <1>7
  <2> QED
    BY <2>1, <2>2, <2>3 DEF BitAt
<1>10. /\ n + 5 - 0 = n + 5 /\ n + 5 - 1 = n + 4 /\ n + 5 - 2 = n + 3
       /\ n + 5 - 3 = n + 2 /\ n + 5 - 4 = n + 1 /\ n + 5 - 5 = n + 0
  OBVIOUS
<1>11. ASSUME NEW j \in 0 .. 5 PROVE BitAt(x, j) = BitOf(bs, 8, n + 5 - j)
  BY <1>3, <1>8, <1>9, <1>10, SmallNumbers
<1> QED
  BY <1>1, <1>2, <1>7, <1>11

LEMMA EncodedIs ==
  ASSUME NEW bs \in Bytes, NEW n, n = (8 * Len(bs) + 5) \div 6
  PROVE  /\ n \in Nat /\ n <= Len(Encoded(bs)) /\ Encoded(bs) \in Chars /\ Len(Encoded(bs)) \in Nat
         /\ \A i \in 1 .. n : Encoded(bs)[i] = Digit(bs, i) /\ Digit(bs, i) \in 0 .. 63
         /\ \A i \in 1 .. Len(Encoded(bs)) : i > n => Encoded(bs)[i] = Pad
<1>1. n \in Nat
  BY DEF Bytes
<1>2. PICK m \in Nat : m = n + ((4 - (n % 4)) % 4) /\ n <= m
  BY <1>1
<1>3. PICK t : t = [i \in 1 .. m |-> IF i <= n THEN Digit(bs, i) ELSE Pad]
  OBVIOUS
<1>4. Encoded(bs) = t
  BY <1>2, <1>3 DEF Encoded
<1>5. ASSUME NEW i \in 1 .. m
      PROVE  /\ t[i] \in 0 .. Noise64
             /\ i <= n => t[i] = Digit(bs, i) /\ Digit(bs, i) \in 0 .. 63
             /\ i > n => t[i] = Pad
  <2>1. Digit(bs, i) \in 0 .. 63
    <3>1. i \in Nat \ {0}
      BY <1>2
    <3> QED
      BY <3>1, DigitIs
  <2> QED
    BY <1>1, <1>3, <2>1 DEF Noise64, Pad
<1>6. t \in [1 .. m -> 0 .. Noise64]
  BY <1>3, <1>5
<1>7. t \in Chars /\ Len(t) = m
  <2>1. PICK T : T = 0 .. Noise64
    OBVIOUS
  <2>2. t \in [1 .. m -> T]
    BY <1>6, <2>1
  <2>3. t \in Seq(T)
    BY <2>2
  <2>4. Len(t) = m
    BY <2>2
  <2> QED
    BY <2>1, <2>3, <2>4 DEF Chars
<1>8. \A i \in 1 .. n : i \in 1 .. m
  BY <1>1, <1>2
<1>9. ASSUME NEW i \in 1 .. n PROVE t[i] = Digit(bs, i) /\ Digit(bs, i) \in 0 .. 63
  <2>1. i \in 1 .. m /\ i <= n
    BY <1>1, <1>8
  <2> QED
    BY <1>5, <2>1
<1>10. ASSUME NEW i \in 1 .. Len(t), i > n PROVE t[i] = Pad
  BY <1>5, <1>7, <1>10
<1> QED
  BY <1>1, <1>2, <1>4, <1>7, <1>9, <1>10

LEMMA EncodedCounts ==
  ASSUME NEW bs \in Bytes, NEW d, NEW n, n = (8 * Len(bs) + 5) \div 6
  PROVE  /\ Digits(d, Encoded(bs)) \in Seq(0 .. 63) /\ Len(Digits(d, Encoded(bs))) = n
         /\ \A i \in 1 .. n : Digits(d, Encoded(bs))[i] = Digit(bs, i)
<1>1. PICK t \in Chars : t = Encoded(bs)
  BY EncodedIs
<1>2. /\ n \in Nat /\ n <= Len(t) /\ Len(t) \in Nat
      /\ \A i \in 1 .. n : t[i] = Digit(bs, i) /\ Digit(bs, i) \in 0 .. 63
      /\ \A i \in 1 .. Len(t) : i > n => t[i] = Pad
  BY <1>1, EncodedIs
<1> DEFINE D(k) == DigitsUpTo(d, t, k)
           S == {k \in Nat : k <= Len(t) =>
                   /\ Len(D(k)) = IF k <= n THEN k ELSE n
                   /\ \A i \in 1 .. n : i <= k => D(k)[i] = Digit(bs, i)}
<1>3. 0 \in S
  <2>1. D(0) = <<>>
    BY DigitsAre
  <2> QED
    BY <1>2, <2>1
<1>4. ASSUME NEW k \in Nat, k \in S PROVE k + 1 \in S
  <2> SUFFICES ASSUME k + 1 <= Len(t)
               PROVE  /\ Len(D(k + 1)) = IF k + 1 <= n THEN k + 1 ELSE n
                      /\ \A i \in 1 .. n : i <= k + 1 => D(k + 1)[i] = Digit(bs, i)
    OBVIOUS
  <2>1. /\ Len(D(k)) = IF k <= n THEN k ELSE n
        /\ \A i \in 1 .. n : i <= k => D(k)[i] = Digit(bs, i)
    BY <1>2, <1>4
  <2>2. D(k) \in Seq(0 .. 63) /\ D(k + 1) = D(k) \o Counted(t, d, k + 1)
    <3>1. k \in 0 .. Len(t)
      BY <1>2
    <3> QED
      BY <3>1, DigitsTyped, DigitsAre
  <2> HIDE DEF D
  <2>3. CASE k + 1 <= n
    <3>1. k + 1 \in 1 .. n /\ \A i \in 1 .. k + 1 : i \in 1 .. n
      BY <1>2, <2>3
    <3>2. IsDigit(d, t, k + 1)
      <4>1. \A c \in 0 .. 63 : c < Pad /\ c # Pad
        BY DEF Pad
      <4>2. ASSUME NEW i \in 1 .. n PROVE t[i] < Pad /\ t[i] # Pad
        <5>1. t[i] \in 0 .. 63
          BY <1>2
        <5> QED
          BY <4>1, <5>1
      <4> QED
        BY <3>1, <4>2, Zenon DEF IsDigit
    <3>3. PICK c \in 0 .. 63 : c = t[k + 1] /\ c = Digit(bs, k + 1)
      BY <1>2, <3>1
    <3>4. D(k + 1) = D(k) \o <<c>>
      BY <2>2, <3>2, <3>3 DEF Counted
    <3>5. /\ Len(D(k + 1)) = Len(D(k)) + 1 /\ D(k + 1)[Len(D(k)) + 1] = c
          /\ \A i \in 1 .. Len(D(k)) : D(k + 1)[i] = D(k)[i]
      BY <2>2, <3>4, Lengthened
    <3>6. Len(D(k)) = k
      BY <2>1, <2>3
    <3> QED
      BY <2>1, <2>3, <3>3, <3>5, <3>6
  <2>4. CASE k + 1 > n
    <3>1. k + 1 \in 1 .. Len(t) /\ t[k + 1] = Pad
      BY <1>2, <2>4
    <3>2. ~IsDigit(d, t, k + 1)
      BY <3>1 DEF IsDigit, Pad
    <3>3. D(k + 1) = D(k)
      BY <2>2, <3>2 DEF Counted
    <3>4. k >= n
      BY <1>2, <2>4
    <3> QED
      BY <1>2, <2>1, <2>4, <3>3, <3>4
  <2> QED
    BY <1>2, <2>3, <2>4
<1> HIDE DEF S
<1>5. Len(t) \in S
  BY <1>2, <1>3, <1>4, Induct
<1>6. D(Len(t)) = Digits(d, t) /\ D(Len(t)) \in Seq(0 .. 63)
  BY <1>2, DigitsTyped DEF Digits
<1> QED
  BY <1>1, <1>2, <1>5, <1>6 DEF S

(* It carries the bytes.                                                   *)
LEMMA EncodedCarries ==
  ASSUME NEW bs \in Bytes, NEW d
  PROVE  /\ Digits(d, Encoded(bs)) \in Seq(0 .. 63) /\ Carries(Digits(d, Encoded(bs)), bs)
         /\ Len(bs) = (6 * Len(Digits(d, Encoded(bs)))) \div 8
<1>1. PICK m \in Nat, n \in Nat : m = Len(bs) /\ n = (8 * m + 5) \div 6
  BY DEF Bytes
<1>2. PICK ds : ds = Digits(d, Encoded(bs))
  OBVIOUS
<1>3. ds \in Seq(0 .. 63) /\ Len(ds) = n /\ \A i \in 1 .. n : ds[i] = Digit(bs, i)
  BY <1>1, <1>2, EncodedCounts
<1>4. 8 * m <= 6 * n /\ m = (6 * n) \div 8
  BY <1>1
<1>5. ASSUME NEW k \in 0 .. 8 * m - 1 PROVE BitOf(bs, 8, k) = BitOf(ds, 6, k)
  <2>1. PICK h \in 0 .. n - 1, j \in 0 .. 5 : k = 6 * h + 5 - j
    <3>1. PICK h \in Int : h = k \div 6
      OBVIOUS
    <3>2. h \in 0 .. n - 1 /\ 6 * h + 5 - k \in 0 .. 5 /\ k = 6 * h + 5 - (6 * h + 5 - k)
      BY <1>4, <3>1
    <3> QED
      BY <3>2
  <2>2. h + 1 \in 1 .. n /\ (h + 1) - 1 = h /\ h \in 0 .. Len(ds) - 1
    BY <1>3
  <2>3. BitOf(ds, 6, 6 * h + 5 - j) = BitAt(ds[h + 1], j)
    BY <1>3, <2>2, DigitBits
  <2>4. BitAt(Digit(bs, h + 1), j) = BitOf(bs, 8, 6 * h + 5 - j)
    <3>1. PICK i \in Nat \ {0} : i = h + 1 /\ i - 1 = h
      BY <2>2
    <3>2. BitAt(Digit(bs, i), j) = BitOf(bs, 8, 6 * (i - 1) + 5 - j)
      BY DigitIs
    <3> QED
      BY <3>1, <3>2
  <2> QED
    BY <1>3, <2>1, <2>2, <2>3, <2>4
<1> QED
  BY <1>1, <1>2, <1>3, <1>4, <1>5 DEF Carries

(* Base64Decode gives back the bytes that the browser has written, in both *)
(* decoders: the text is theirs, or theirs with blanks in it and anything  *)
(* after the padding that the decoder does not count.                      *)
EncodedComesBack ==
  phase # "base64" /\ Digits(decoder, seed.text) = Digits(decoder, Encoded(seed.bytes)) =>
    decoded = seed.bytes

THEOREM EncodedDecodes == SeedSpec => []EncodedComesBack
<1>1. SeedInv => EncodedComesBack
  <2> SUFFICES ASSUME SeedInv, phase # "base64",
                      Digits(decoder, seed.text) = Digits(decoder, Encoded(seed.bytes))
               PROVE  decoded = seed.bytes
    BY DEF EncodedComesBack
  <2>1. seed.bytes \in Bytes /\ decoded \in Bytes
    BY SeedIs DEF SeedInv, SeedTypeOK
  <2>2. PICK ds : ds = Digits(decoder, Encoded(seed.bytes))
    OBVIOUS
  <2>3. /\ ds \in Seq(0 .. 63) /\ Carries(ds, seed.bytes) /\ Len(seed.bytes) = (6 * Len(ds)) \div 8
        /\ Len(ds) \in Nat
    BY <2>1, <2>2, EncodedCarries
  <2>4. Held(ds, decoded, acc, bits)
    BY <2>2 DEF SeedInv, TextInv
  <2>5. Len(decoded) = (6 * Len(ds)) \div 8 /\ Carries(ds, decoded)
    BY <2>1, <2>3, <2>4, HeldIs
  <2>6. IsPrefix(seed.bytes, decoded)
    BY <2>1, <2>3, <2>5, PrefixIsCarried
  <2>7. PICK m \in Nat : m = Len(seed.bytes) /\ m = Len(decoded)
    BY <2>1, <2>3, <2>5 DEF Bytes
  <2>8. SubSeq(seed.bytes, 1, m) = SubSeq(decoded, 1, m)
    BY <2>6, <2>7 DEF IsPrefix
  <2>9. ASSUME NEW i \in 1 .. m PROVE seed.bytes[i] = decoded[i]
    <3>1. SubSeq(seed.bytes, 1, m)[i] = seed.bytes[i] /\ SubSeq(decoded, 1, m)[i] = decoded[i]
      BY <2>1, <2>7 DEF Bytes
    <3> QED
      BY <2>8, <3>1
  <2> QED
    BY <2>1, <2>7, <2>9, SeqEqual DEF Bytes
<1> QED
  BY <1>1, SeedInitInv, SeedInvStep, PTL DEF SeedSpec

-----------------------------------------------------------------------------
(* Inflate: as long as the loop goes on, the result is what inflate has    *)
(* produced, and below the limit.                                          *)

LoopInv ==
  /\ at = "start" => fed = 0 /\ out = 0
  /\ at = "loop" => /\ body.enc = "gzip"
                    /\ out = fed
                    /\ fed <= body.text
                    /\ cap > 0 => out < cap \/ out = 0

InfInv == TypeOK /\ Possible(body) /\ LoopInv /\ DecompressIsExact

LEMMA SizesAreNat ==
  /\ MaxPlain \in Nat /\ BufSize \in Nat /\ Ratio \in Nat /\ Ceiling \in Nat
  /\ MaxPlain > 0 /\ BufSize > 0
<1>1. \A n \in {MaxPlain, BufSize, Ratio, Ceiling} : n \in Nat \ {0}
  BY InflateAssumption
<1>2. /\ MaxPlain \in Nat \ {0} /\ BufSize \in Nat \ {0}
      /\ Ratio \in Nat \ {0} /\ Ceiling \in Nat \ {0}
  BY <1>1
<1> QED BY <1>2

LEMMA TextIsNat ==
  ASSUME TypeOK
  PROVE  /\ body.text \in Nat /\ body.text <= MaxPlain
         /\ body.stored \in Nat /\ cap \in Nat /\ cap <= MaxPlain
         /\ fed \in Nat /\ out \in Nat
         /\ body.enc \in Encodings /\ body.state \in {"whole", "torn", "corrupt"}
<1>1. /\ body.enc \in Encodings /\ body.state \in States
      /\ body.stored \in Stored /\ body.text \in Text
  BY DEF TypeOK, Bodies
<1>2. body.state \in {"whole", "torn", "corrupt"}
  BY <1>1, InflateAssumption
<1>3. cap \in 0 .. MaxPlain /\ fed \in Text /\ out \in Text
  BY DEF TypeOK
<1> QED BY <1>1, <1>2, <1>3, SizesAreNat DEF Stored, Text

LEMMA InfInit == Init => InfInv
<1> SUFFICES ASSUME Init PROVE InfInv
  OBVIOUS
<1>1. TypeOK
  BY SizesAreNat DEF Init, TypeOK, Text
<1>2. LoopInv /\ DecompressIsExact /\ Possible(body)
  BY DEF Init, LoopInv, DecompressIsExact
<1> QED BY <1>1, <1>2 DEF InfInv

LEMMA PlainStep == InfInv /\ DecompressPlain => InfInv'
<1> SUFFICES ASSUME InfInv, DecompressPlain PROVE InfInv'
  OBVIOUS
<1> USE SizesAreNat, TextIsNat DEF InfInv
<1>1. /\ UNCHANGED <<body, cap, fed, rc>> /\ at' = "done"
      /\ out' = IF body.enc = "identity" THEN Capped(body.text) ELSE 0
      /\ body.enc \in {"identity", "zstd"}
  BY DEF DecompressPlain
<1>2. Capped(body.text) \in Text
  BY DEF Capped, Least, Text
<1>3. TypeOK'
  BY <1>1, <1>2 DEF TypeOK, Text
<1>4. LoopInv' /\ Possible(body)'
  BY <1>1 DEF LoopInv, Possible
<1>5. DecompressIsExact'
  BY <1>1 DEF DecompressIsExact, Capped, Possible
<1> QED BY <1>3, <1>4, <1>5

LEMMA BrotliStep == InfInv /\ BrotliDecompress => InfInv'
<1> SUFFICES ASSUME InfInv, BrotliDecompress PROVE InfInv'
  OBVIOUS
<1> USE SizesAreNat, TextIsNat DEF InfInv
<1>1. /\ UNCHANGED <<body, cap, fed, rc>> /\ at' = "done" /\ body.enc = "br"
      /\ out' = IF body.state = "whole" /\ body.text <= BrotliRoom
                THEN body.text ELSE 0
  BY DEF BrotliDecompress
<1>2. TypeOK'
  BY <1>1 DEF TypeOK, Text
<1>3. LoopInv' /\ Possible(body)'
  BY <1>1 DEF LoopInv, Possible
<1>4. BrotliRoom' = BrotliRoom
  BY <1>1 DEF BrotliRoom
<1>5. BrotliRoom \in Nat
  BY DEF BrotliRoom, Least
<1>6. body.text <= BrotliRoom => Capped(body.text) = body.text
  BY DEF BrotliRoom, Capped, Least
<1>7. DecompressIsExact'
  BY <1>1, <1>4, <1>5, <1>6 DEF DecompressIsExact, Capped
<1> QED BY <1>2, <1>3, <1>7

LEMMA GzipStep == InfInv /\ GzipTurn => InfInv'
<1> SUFFICES ASSUME InfInv, GzipTurn PROVE InfInv'
  OBVIOUS
<1> USE SizesAreNat, TextIsNat DEF InfInv
<1>0. PICK n \in 0 .. BufSize :
        \E s \in Produced(n) :
          /\ rc' = s
          /\ fed' = fed + n
          /\ out' = IF Failed(s) THEN 0
                    ELSE IF Full(out + n) THEN cap ELSE out + n
          /\ at' = IF Failed(s) \/ Full(out + n) \/ s = "end" THEN "done"
                   ELSE "loop"
  BY DEF GzipTurn
<1>1. PICK s \in Produced(n) :
        /\ rc' = s
        /\ fed' = fed + n
        /\ out' = IF Failed(s) THEN 0
                  ELSE IF Full(out + n) THEN cap ELSE out + n
        /\ at' = IF Failed(s) \/ Full(out + n) \/ s = "end" THEN "done" ELSE "loop"
  BY <1>0
<1>2. /\ UNCHANGED <<body, cap>> /\ at = "loop" /\ n \in Nat
      /\ out = fed /\ fed <= body.text /\ body.enc = "gzip"
  BY <1>1 DEF GzipTurn, LoopInv
<1>3. /\ n <= body.text - fed
      /\ s \in {"ok", "end", "bufError", "dataError"}
      /\ s = "end" => fed + n = body.text /\ body.state = "whole"
      /\ Failed(s) => body.state = "corrupt"
  BY <1>1, <1>2 DEF Produced, Least, Failed
<1>4. fed + n \in Text
  BY <1>2, <1>3 DEF Text
<1>5. TypeOK'
  BY <1>1, <1>2, <1>3, <1>4 DEF TypeOK, Text, Full
<1>6. LoopInv' /\ Possible(body)'
  BY <1>1, <1>2, <1>3 DEF LoopInv, Possible, Full
<1>7. Full(out + n) => cap > 0 /\ cap <= body.text
  BY <1>2, <1>3 DEF Full
<1>8. DecompressIsExact'
  <2>1. CASE Failed(s)
    BY <2>1, <1>1, <1>2, <1>3 DEF DecompressIsExact
  <2>2. CASE ~Failed(s) /\ Full(out + n)
    BY <2>2, <1>1, <1>2, <1>7 DEF DecompressIsExact, Capped, Least
  <2>3. CASE ~Failed(s) /\ ~Full(out + n)
    BY <2>3, <1>1, <1>2, <1>3 DEF DecompressIsExact, Capped, Least, Full
  <2> QED BY <2>1, <2>2, <2>3
<1> QED BY <1>5, <1>6, <1>8

LEMMA InfNext == InfInv /\ [Next]_vars => InfInv'
<1> SUFFICES ASSUME InfInv, [Next]_vars PROVE InfInv'
  OBVIOUS
<1>1. CASE GzipStart
  <2>1. /\ UNCHANGED <<body, cap, fed, out, rc>> /\ at = "start"
        /\ at' = "loop" /\ body.enc = "gzip"
    BY <1>1 DEF GzipStart
  <2>2. fed = 0 /\ out = 0 /\ body.text \in Nat
    BY <2>1, TextIsNat DEF InfInv, LoopInv
  <2>3. TypeOK' /\ Possible(body)'
    BY <2>1 DEF InfInv, TypeOK, Possible
  <2>4. LoopInv' /\ DecompressIsExact'
    BY <2>1, <2>2 DEF LoopInv, DecompressIsExact
  <2> QED BY <2>3, <2>4 DEF InfInv
<1>2. CASE UNCHANGED vars
  <2>1. UNCHANGED <<body, cap, fed, out, rc, at>>
    BY <1>2 DEF vars
  <2>2. TypeOK' /\ LoopInv' /\ Possible(body)'
    BY <2>1 DEF InfInv, TypeOK, LoopInv, Possible
  <2>3. Capped(body.text)' = Capped(body.text) /\ BrotliRoom' = BrotliRoom
    BY <2>1 DEF Capped, BrotliRoom
  <2>4. DecompressIsExact'
    BY <2>1, <2>3 DEF InfInv, DecompressIsExact
  <2> QED BY <2>2, <2>4 DEF InfInv
<1> QED BY <1>1, <1>2, PlainStep, BrotliStep, GzipStep DEF Next, Step

(* For texts, buffers and limits of any size: Decompress gives exactly the *)
(* part of a whole body's text that the limit allows, a brotli text        *)
(* without room left aside, and nothing of a corrupt one but what the      *)
(* limit let through before the damage.                                    *)
THEOREM InflateIsExact == Spec => [](TypeOK /\ DecompressIsExact)
<1>1. InfInv => TypeOK /\ DecompressIsExact
  BY DEF InfInv
<1> QED BY <1>1, InfInit, InfNext, PTL DEF Spec
=============================================================================
