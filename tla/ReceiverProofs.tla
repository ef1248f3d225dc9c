--------------------------- MODULE ReceiverProofs ---------------------------
(***************************************************************************)
(* What is proved of Wire and Receiver, for every text, date, id and value *)
(* the messages may hold: a message that comes whole is read as it was     *)
(* sent, unless bytes that recv did not write follow it.                   *)
(*                                                                         *)
(* The way there: a number reads as it was written, then a field, the      *)
(* fields of a message, the elements of a command or a response; and then  *)
(* what is left of a message in a buffer, as a C string.                   *)
(***************************************************************************)
EXTENDS Receiver, SequenceTheorems, WellFoundedInduction, TLAPS

-----------------------------------------------------------------------------
(* Numbers.                                                                *)

\* Each set of numbers has a least one: what inductions rest on here.
LEMMA LeastOf ==
  ASSUME NEW S, S \subseteq Nat, S # {}
  PROVE  \E m \in S : \A x \in S : m <= x
<1>1. PICK m \in S : \A x \in S : <<x, m>> \notin OpToRel(<, Nat)
  BY NatLessThanWellFounded, WFMin
<1>2. \A x \in S : ~ (x < m)
  BY <1>1 DEF OpToRel
<1> QED  BY <1>2

LEMMA MaxIs ==
  ASSUME NEW S, S \subseteq Int, NEW m \in S, \A x \in S : x <= m
  PROVE  Max(S) = m
<1>1. \A x \in S : m >= x
  OBVIOUS
<1>2. \A y \in S : (\A x \in S : y >= x) => y = m
  OBVIOUS
<1> QED  BY <1>1, <1>2 DEF Max

LEMMA MinIs ==
  ASSUME NEW S, S \subseteq Int, NEW m \in S, \A x \in S : m <= x
  PROVE  Min(S) = m
<1>1. \A x \in S : m =< x
  OBVIOUS
<1>2. \A y \in S : (\A x \in S : y =< x) => y = m
  OBVIOUS
<1> QED  BY <1>1, <1>2 DEF Min

LEMMA Bases ==
  /\ Base[1] = 1 /\ Base[2] = 128 /\ Base[3] = 16384
  /\ Base[4] = 2097152 /\ Base[5] = 268435456
BY SMT DEF Base

LEMMA VarintSizeIs ==
  ASSUME NEW n \in Number
  PROVE  /\ VarintSize(n) \in 1..5
         /\ VarintSize(n) > 1 => Base[VarintSize(n)] <= n
         /\ \A k \in 1..5 : k > VarintSize(n) => n < Base[k]
<1> DEFINE S == {k \in 1..5 : k = 1 \/ Base[k] <= n}
<1>1. \E m \in S : \A x \in S : x <= m
  <2>1. CASE 5 \in S
    BY <2>1
  <2>2. CASE 5 \notin S /\ 4 \in S
    BY <2>2
  <2>3. CASE {4, 5} \cap S = {} /\ 3 \in S
    BY <2>3
  <2>4. CASE {3, 4, 5} \cap S = {} /\ 2 \in S
    BY <2>4
  <2>5. CASE {2, 3, 4, 5} \cap S = {}
    BY <2>5
  <2> QED  BY <2>1, <2>2, <2>3, <2>4, <2>5
<1>2. PICK m \in S : \A x \in S : x <= m
  BY <1>1
<1>3. VarintSize(n) = Max(S)
  BY SMT DEF VarintSize
<1>4. VarintSize(n) = m
  BY <1>2, <1>3, MaxIs
<1>5. n \in Int /\ \A k \in {1, 2, 3, 4, 5} : Base[k] \in Int
  BY SMT, Bases DEF Number
<1> QED  BY <1>2, <1>4, <1>5

\* The bytes of a message or of a part of one.
Bytes == Seq(0..255)

LEMMA BytesAre ==
  ASSUME NEW s \in Bytes
  PROVE  Len(s) \in Nat /\ \A k \in 1..Len(s) : s[k] \in 0..255
BY ElementOfSeq, LenProperties DEF Bytes

\* What Varint writes: bytes of which each but the last has the continuation
\* bit, none of them 0 unless the number is.
LEMMA VarintBytes ==
  ASSUME NEW n \in Number
  PROVE  /\ Varint(n) \in Bytes
         /\ Len(Varint(n)) = VarintSize(n)
         /\ \A k \in 1..VarintSize(n) : /\ k < VarintSize(n) <=> Varint(n)[k] >= 128
                                        /\ Varint(n)[k] % 128 = (n \div Base[k]) % 128
                                        /\ n > 0 => Varint(n)[k] > 0
<1> DEFINE v == Varint(n)
           z == VarintSize(n)
<1>1. z \in 1..5
  BY VarintSizeIs
<1>2. v = [k \in 1..z |-> ((n \div Base[k]) % 128) + (IF k < z THEN 128 ELSE 0)]
  BY DEF Varint
<1>3. \A k \in 1..z : (n \div Base[k]) % 128 \in 0..127
  <2>1. /\ n % 128 \in 0..127 /\ n \div 1 = n
        /\ (n \div 128) % 128 \in 0..127 /\ (n \div 16384) % 128 \in 0..127
        /\ (n \div 2097152) % 128 \in 0..127 /\ (n \div 268435456) % 128 \in 0..127
    BY SMT DEF Number
  <2>2. \A k \in 1..z : k \in {1, 2, 3, 4, 5}
    BY <1>1
  <2> QED  BY SMT, <2>1, <2>2, Bases
<1>4. n > 0 => (n \div Base[z]) % 128 > 0
  <2>1. /\ z > 1 => Base[z] <= n
        /\ \A k \in 1..5 : k > z => n < Base[k]
        /\ n \in Number
    BY VarintSizeIs
  <2> HIDE DEF z
  <2>2. CASE z = 1
    <3>1. n < 128
      BY SMT, <2>1, <2>2, Bases
    <3> QED  BY SMT, <3>1, <2>1, <2>2, Bases DEF Number
  <2>3. CASE z = 2
    <3>1. n >= 128 /\ n < 16384
      BY SMT, <2>1, <2>3, Bases DEF Number
    <3> QED  BY SMT, <3>1, <2>1, <2>3, Bases DEF Number
  <2>4. CASE z = 3
    <3>1. n >= 16384 /\ n < 2097152
      BY SMT, <2>1, <2>4, Bases DEF Number
    <3> QED  BY SMT, <3>1, <2>1, <2>4, Bases DEF Number
  <2>5. CASE z = 4
    <3>1. n >= 2097152 /\ n < 268435456
      BY SMT, <2>1, <2>5, Bases DEF Number
    <3> QED  BY SMT, <3>1, <2>1, <2>5, Bases DEF Number
  <2>6. CASE z = 5
    <3>1. n >= 268435456 /\ n <= 2147483647
      BY SMT, <2>1, <2>6, Bases DEF Number
    <3> QED  BY SMT, <3>1, <2>1, <2>6, Bases DEF Number
  <2>7. z \in {1, 2, 3, 4, 5}
    BY <1>1
  <2> QED  BY <2>2, <2>3, <2>4, <2>5, <2>6, <2>7
<1> HIDE DEF v, z
<1>5. \A k \in 1..z : v[k] = ((n \div Base[k]) % 128) + (IF k < z THEN 128 ELSE 0)
  BY <1>2
<1>6. \A k \in 1..z : v[k] \in 0..255
  BY <1>3, <1>5, SMTT(30)
<1>7. v \in Seq(0..255) /\ Len(v) = z
  BY <1>1, <1>2, <1>6
<1>8. ASSUME NEW k \in 1..z
      PROVE  /\ k < z <=> v[k] >= 128
             /\ v[k] % 128 = (n \div Base[k]) % 128
             /\ n > 0 => v[k] > 0
  <2> DEFINE d == (n \div Base[k]) % 128
  <2>1. d \in 0..127 /\ v[k] = d + (IF k < z THEN 128 ELSE 0) /\ k <= z
    BY <1>1, <1>3, <1>5
  <2>2. k = z /\ n > 0 => d > 0
    BY <1>4
  <2> HIDE DEF d
  <2>3. k < z <=> v[k] >= 128
    BY <1>1, <2>1
  <2>4. v[k] % 128 = d
    BY <2>1
  <2>5. n > 0 => v[k] > 0
    BY <1>1, <2>1, <2>2
  <2> QED  BY <2>3, <2>4, <2>5 DEF d
<1> QED  BY <1>7, <1>8 DEF v, z, Bytes

-----------------------------------------------------------------------------
(* Reading a number.                                                       *)

\* The bytes t are in s, from p on.
Holds(s, p, t) ==
  /\ p + Len(t) <= Len(s) + 1
  /\ \A k \in 1..Len(t) : s[p + (k - 1)] = t[k]

LEMMA DigitSum ==
  ASSUME NEW n \in Number
  PROVE  n = (n % 128) + (128 * ((n \div 128) % 128)) + (16384 * ((n \div 16384) % 128))
               + (2097152 * ((n \div 2097152) % 128))
               + (268435456 * (((n \div 268435456) % 128) % 8))
BY SMT DEF Number

LEMMA VarintAtIs ==
  ASSUME NEW s, NEW p,
         NEW d, d = [k \in 1..5 |-> IF k <= VarintLen(s, p) THEN s[p + (k - 1)] % 128 ELSE 0]
  PROVE  /\ VarintAt(s, p).len = VarintLen(s, p)
         /\ VarintAt(s, p).val = d[1] + Base[2] * d[2] + Base[3] * d[3] + Base[4] * d[4]
                                   + Base[5] * (d[5] % 8)
         /\ VarintAt(s, p).wide = (d[5] >= 8)
<1> DEFINE len == VarintLen(s, p)
           val == d[1] + Base[2] * d[2] + Base[3] * d[3] + Base[4] * d[4] + Base[5] * (d[5] % 8)
           wide == d[5] >= 8
<1>1. VarintAt(s, p) = [len |-> len, val |-> val, wide |-> wide]
  BY Zenon DEF VarintAt, Joined
<1> HIDE DEF len, val, wide
<1>2. VarintAt(s, p).len = len /\ VarintAt(s, p).val = val /\ VarintAt(s, p).wide = wide
  BY <1>1, SMT
<1> QED  BY <1>2, Zenon DEF len, val, wide

LEMMA VarintLenIs ==
  ASSUME NEW s \in Bytes, NEW p \in Nat \ {0}
  PROVE  /\ VarintLen(s, p) \in 0..10
         /\ VarintLen(s, p) > 0 =>
              /\ p + VarintLen(s, p) <= Len(s) + 1
              /\ s[p + (VarintLen(s, p) - 1)] < 128
         /\ \A n \in 1..10 : p + (n - 1) <= Len(s) /\ s[p + (n - 1)] < 128
                             => VarintLen(s, p) \in 1..n
<1> DEFINE ends == {n \in 1..10 : p + (n - 1) <= Len(s) /\ s[p + (n - 1)] < 128}
<1>1. VarintLen(s, p) = IF ends = {} THEN 0 ELSE Min(ends)
  BY DEF VarintLen
<1>2. /\ \A n \in 1..10 : p + (n - 1) <= Len(s) /\ s[p + (n - 1)] < 128 => n \in ends
      /\ \A n \in ends : n \in 1..10 /\ p + (n - 1) <= Len(s) /\ s[p + (n - 1)] < 128
      /\ ends \subseteq Nat /\ ends \subseteq Int /\ Len(s) \in Nat
  BY BytesAre
<1> HIDE DEF ends
<1>3. CASE ends = {}
  <2>1. VarintLen(s, p) = 0
    BY <1>1, <1>3
  <2> QED  BY <1>2, <1>3, <2>1
<1>4. CASE ends # {}
  <2>1. PICK m \in ends : \A x \in ends : m <= x
    BY <1>2, <1>4, LeastOf
  <2>2. VarintLen(s, p) = m
    BY <1>1, <1>2, <1>4, <2>1, MinIs
  <2> QED  BY <1>2, <2>1, <2>2
<1> QED  BY <1>3, <1>4

LEMMA VarintAtType ==
  ASSUME NEW s \in Bytes, NEW p \in Nat \ {0}
  PROVE  VarintAt(s, p).len = VarintLen(s, p) /\ VarintAt(s, p).val \in Nat
<1> DEFINE l == VarintLen(s, p)
           d == [k \in 1..5 |-> IF k <= l THEN s[p + (k - 1)] % 128 ELSE 0]
<1>1. l \in 0..10 /\ (l > 0 => p + l <= Len(s) + 1) /\ Len(s) \in Nat
  BY VarintLenIs, BytesAre
<1>2. /\ VarintAt(s, p).len = l
      /\ VarintAt(s, p).val = d[1] + Base[2] * d[2] + Base[3] * d[3] + Base[4] * d[4]
                                + Base[5] * (d[5] % 8)
  <2>1. d = [k \in 1..5 |-> IF k <= VarintLen(s, p) THEN s[p + (k - 1)] % 128 ELSE 0]
    OBVIOUS
  <2> HIDE DEF d
  <2> QED  BY <2>1, VarintAtIs
<1> HIDE DEF l
<1>3. ASSUME NEW k \in 1..5 PROVE d[k] \in Nat
  <2>1. CASE k <= l
    <3>1. p + (k - 1) \in 1..Len(s)
      BY <1>1, <2>1
    <3>2. s[p + (k - 1)] \in 0..255
      BY <3>1, BytesAre
    <3> QED  BY <2>1, <3>2
  <2> QED  BY <1>1, <2>1
<1> HIDE DEF d
<1>4. d[1] \in Nat /\ d[2] \in Nat /\ d[3] \in Nat /\ d[4] \in Nat /\ d[5] \in Nat
  BY <1>3
<1> QED  BY SMT, <1>2, <1>4, Bases DEF l

\* A number that was written is read as it was.
LEMMA VarintAtWritten ==
  ASSUME NEW s \in Bytes, NEW p \in Nat \ {0}, NEW n \in Number, Holds(s, p, Varint(n))
  PROVE  /\ VarintAt(s, p).len = VarintSize(n) /\ VarintAt(s, p).val = n
         /\ ~ VarintAt(s, p).wide
<1> DEFINE z == VarintSize(n)
           v == Varint(n)
           l == VarintLen(s, p)
           d == [k \in 1..5 |-> IF k <= l THEN s[p + (k - 1)] % 128 ELSE 0]
<1>1. z \in 1..5 /\ Len(v) = z /\ v \in Bytes /\ Len(s) \in Nat
  BY VarintSizeIs, VarintBytes, BytesAre
<1>2. \A k \in 1..z : v[k] \in 0..255
  BY <1>1, BytesAre
<1>3. p + z <= Len(s) + 1 /\ \A k \in 1..z : s[p + (k - 1)] = v[k]
  BY <1>1 DEF Holds
<1>4. \A k \in 1..z : (k < z <=> v[k] >= 128) /\ v[k] % 128 = (n \div Base[k]) % 128
  BY VarintBytes
<1>5. /\ l \in 0..10
      /\ l > 0 => s[p + (l - 1)] < 128
      /\ \A k \in 1..10 : p + (k - 1) <= Len(s) /\ s[p + (k - 1)] < 128 => l \in 1..k
  BY VarintLenIs
<1>6. /\ VarintAt(s, p).len = l
      /\ VarintAt(s, p).val = d[1] + Base[2] * d[2] + Base[3] * d[3] + Base[4] * d[4]
                                + Base[5] * (d[5] % 8)
      /\ VarintAt(s, p).wide = (d[5] >= 8)
  <2>1. d = [k \in 1..5 |-> IF k <= VarintLen(s, p) THEN s[p + (k - 1)] % 128 ELSE 0]
    OBVIOUS
  <2> HIDE DEF d
  <2> QED  BY <2>1, VarintAtIs
<1> HIDE DEF z, v, l
<1>7. l = z
  <2>1. s[p + (z - 1)] < 128 /\ p + (z - 1) <= Len(s)
    <3>1. ~ (v[z] >= 128) /\ v[z] \in 0..255
      BY <1>1, <1>2, <1>4
    <3>2. v[z] < 128
      BY <3>1
    <3>3. s[p + (z - 1)] = v[z]
      BY <1>1, <1>3
    <3> QED  BY <1>1, <1>3, <3>2, <3>3
  <2>2. l \in 1..z
    BY <1>1, <1>5, <2>1
  <2>3. CASE l < z
    <3>1. v[l] >= 128 /\ s[p + (l - 1)] = v[l] /\ v[l] \in 0..255
      BY <1>1, <1>2, <1>3, <1>4, <2>2, <2>3
    <3>2. ~ (v[l] < 128)
      BY <3>1
    <3> QED  BY <1>5, <2>2, <3>1, <3>2
  <2> QED  BY <1>1, <2>2, <2>3
<1>8. \A k \in 1..5 : d[k] = (n \div Base[k]) % 128
  <2>1. ASSUME NEW k \in 1..5, k <= z PROVE d[k] = (n \div Base[k]) % 128
    BY <1>3, <1>4, <1>7, <2>1
  <2>2. ASSUME NEW k \in 1..5, k > z PROVE d[k] = (n \div Base[k]) % 128
    <3>1. d[k] = 0
      BY <1>1, <1>7, <2>2
    <3>2. n < Base[k] /\ n \in Nat
      BY <2>2, VarintSizeIs DEF Number, z
    <3>3. Base[k] \in Nat
      <4>1. k \in {1, 2, 3, 4, 5}
        OBVIOUS
      <4> QED  BY SMT, <4>1, Bases
    <3>4. (n \div Base[k]) % 128 = 0
      <4> DEFINE b == Base[k]
      <4>1. n < b /\ n \in Nat /\ b \in Nat
        BY <3>2, <3>3
      <4> HIDE DEF b
      <4>2. n \div b = 0
        BY <4>1
      <4> QED  BY <4>2 DEF b
    <3> HIDE DEF d
    <3> QED  BY <3>1, <3>4
  <2> HIDE DEF d
  <2> QED  BY <1>1, <2>1, <2>2
<1> HIDE DEF d
<1>9. /\ d[1] = (n \div Base[1]) % 128 /\ d[2] = (n \div Base[2]) % 128
      /\ d[3] = (n \div Base[3]) % 128 /\ d[4] = (n \div Base[4]) % 128
      /\ d[5] = (n \div Base[5]) % 128
  BY <1>8
<1>10. n \div 1 = n
  BY SMT DEF Number
<1>11. VarintAt(s, p).len = z /\ VarintAt(s, p).val = n
  BY SMT, <1>6, <1>7, <1>9, <1>10, DigitSum, Bases
<1>12. d[5] \in 0..7
  BY SMT, <1>9, Bases DEF Number
<1>13. ~ VarintAt(s, p).wide
  <2>1. ~ (d[5] >= 8)
    BY <1>12
  <2> QED  BY <1>6, <2>1, Zenon
<1> QED  BY <1>11, <1>13 DEF z

-----------------------------------------------------------------------------
(* Reading a field.                                                        *)

LEMMA FieldAtIs ==
  ASSUME NEW s, NEW p
  PROVE  LET tag == VarintAt(s, p)
             first == VarintAt(s, p + tag.len)
             wire == tag.val % 8
             f == FieldAt(s, p)
         IN /\ f.ok = (/\ tag.len \in 1..5 /\ tag.val >= 8 /\ wire <= 5
                       /\ wire = 0 => first.len > 0)
            /\ f.num = tag.val \div 8 /\ f.wire = wire
            /\ wire = 0 => f.val = first.val /\ f.next = p + tag.len + first.len
            /\ wire = 2 /\ first.len \in 1..5 /\ ~ first.wide =>
                 /\ f.next = p + tag.len + first.len + first.val
                 /\ f.val = SubSeq(s, p + tag.len + first.len, Min({f.next - 1, Len(s)}))
            /\ wire = 2 /\ ~ (first.len \in 1..5 /\ ~ first.wide) =>
                 f.next = Len(s) + 2 + first.val
            /\ wire = 1 => f.next = p + tag.len + 8
            /\ wire = 5 => f.next = p + tag.len + 4
            /\ wire \in {3, 4} => f.next = p + tag.len + 0
<1> DEFINE tag == VarintAt(s, p)
           first == VarintAt(s, p + tag.len)
           wire == tag.val % 8
           sized == first.len \in 1..5 /\ ~ first.wide
           start == CASE wire # 2            -> p + tag.len
                      [] wire = 2 /\ sized  -> p + tag.len + first.len
                      [] wire = 2 /\ ~sized -> Len(s) + 2
           next == start + CASE wire = 0 -> first.len
                             [] wire = 1 -> 8
                             [] wire = 2 -> first.val
                             [] wire = 5 -> 4
                             [] OTHER    -> 0
           ok == /\ tag.len \in 1..5 /\ tag.val >= 8 /\ wire <= 5
                 /\ wire = 0 => first.len > 0
           val == IF wire = 0 THEN first.val ELSE SubSeq(s, start, Min({next - 1, Len(s)}))
<1>1. FieldAt(s, p) = [ok |-> ok, num |-> tag.val \div 8, wire |-> wire, val |-> val,
                       next |-> next]
  BY Zenon DEF FieldAt, FieldOf
<1> HIDE DEF ok, val, next, tag, first
<1>2. /\ FieldAt(s, p).ok = ok /\ FieldAt(s, p).num = tag.val \div 8
      /\ FieldAt(s, p).wire = wire /\ FieldAt(s, p).val = val /\ FieldAt(s, p).next = next
  <2> HIDE DEF wire
  <2> QED  BY <1>1, SMT
<1> HIDE DEF sized, wire
<1>3. /\ wire # 2 => start = p + tag.len
      /\ wire = 2 /\ sized => start = p + tag.len + first.len
      /\ wire = 2 /\ ~ sized => start = Len(s) + 2
  OBVIOUS
<1> HIDE DEF start
<1>4. /\ wire = 0 => next = start + first.len
      /\ wire = 1 => next = start + 8
      /\ wire = 2 => next = start + first.val
      /\ wire = 5 => next = start + 4
      /\ wire \in {3, 4} => next = start + 0
  BY DEF next
<1> HIDE DEF next
<1>5. /\ wire = 0 => val = first.val
      /\ wire = 2 => val = SubSeq(s, start, Min({next - 1, Len(s)}))
  <2>1. wire = 2 => wire # 0
    OBVIOUS
  <2> QED  BY <2>1, Zenon DEF val
<1>6. /\ wire = 0 => next = p + tag.len + first.len
      /\ wire = 2 /\ sized => next = p + tag.len + first.len + first.val
      /\ wire = 2 /\ ~ sized => next = Len(s) + 2 + first.val
      /\ wire = 1 => next = p + tag.len + 8
      /\ wire = 5 => next = p + tag.len + 4
      /\ wire \in {3, 4} => next = p + tag.len + 0
  BY <1>3, <1>4
<1>7. wire = 2 /\ sized => val = SubSeq(s, p + tag.len + first.len, Min({next - 1, Len(s)}))
  BY <1>3, <1>5, Zenon
<1>8. wire = 0 => val = first.val
  BY <1>5
<1> QED  BY <1>2, <1>6, <1>7, <1>8, Zenon DEF ok, sized, wire, tag, first

\* A field ends behind where it begins.
LEMMA FieldAtNext ==
  ASSUME NEW s \in Bytes, NEW p \in Nat \ {0}, FieldAt(s, p).ok
  PROVE  FieldAt(s, p).next \in Nat /\ FieldAt(s, p).next > p
<1> DEFINE tag == VarintAt(s, p)
           first == VarintAt(s, p + tag.len)
           f == FieldAt(s, p)
           sized == first.len \in 1..5 /\ ~ first.wide
<1>1. tag.len \in 0..10 /\ tag.val \in Nat /\ (tag.len > 0 => p + tag.len <= Len(s) + 1)
  BY VarintAtType, VarintLenIs
<1>2. p + tag.len \in Nat \ {0}
  BY <1>1
<1>3. first.len \in 0..10 /\ first.val \in Nat /\ Len(s) \in Nat
  BY <1>2, VarintAtType, VarintLenIs, BytesAre
<1>4. /\ f.ok = (/\ tag.len \in 1..5 /\ tag.val >= 8 /\ tag.val % 8 <= 5
                 /\ tag.val % 8 = 0 => first.len > 0)
      /\ tag.val % 8 = 0 => f.next = p + tag.len + first.len
      /\ tag.val % 8 = 2 /\ sized => f.next = p + tag.len + first.len + first.val
      /\ tag.val % 8 = 2 /\ ~ sized => f.next = Len(s) + 2 + first.val
      /\ tag.val % 8 = 1 => f.next = p + tag.len + 8
      /\ tag.val % 8 = 5 => f.next = p + tag.len + 4
      /\ tag.val % 8 \in {3, 4} => f.next = p + tag.len + 0
  BY FieldAtIs, ZenonT(60)
<1>5. f.ok
  OBVIOUS
<1> HIDE DEF tag, first, f, sized
<1> DEFINE wire == tag.val % 8
<1>6. tag.len \in 1..5 /\ wire <= 5 /\ (wire = 0 => first.len > 0)
  BY <1>4, <1>5
<1>7. wire \in 0..7
  BY <1>1
<1>8. /\ wire = 0 => f.next = p + tag.len + first.len
      /\ wire = 2 /\ sized => f.next = p + tag.len + first.len + first.val
      /\ wire = 2 /\ ~ sized => f.next = Len(s) + 2 + first.val
      /\ wire = 1 => f.next = p + tag.len + 8
      /\ wire = 5 => f.next = p + tag.len + 4
      /\ wire \in {3, 4} => f.next = p + tag.len + 0
  BY <1>4
<1> HIDE DEF wire
<1>9. /\ tag.len \in Nat /\ tag.len > 0
      /\ first.len \in Nat /\ first.val \in Nat /\ p \in Nat
  BY <1>3, <1>6
<1>10. ASSUME wire = 2 PROVE f.next \in Nat /\ f.next > p
  <2>1. CASE sized
    <3>1. f.next = p + tag.len + first.len + first.val
      BY <1>8, <1>10, <2>1
    <3> QED  BY <1>9, <3>1
  <2>2. CASE ~ sized
    <3>1. f.next = Len(s) + 2 + first.val
      BY <1>8, <1>10, <2>2
    <3>2. p + tag.len <= Len(s) + 1
      BY <1>1, <1>9
    <3> QED  BY <1>3, <1>9, <3>1, <3>2
  <2> QED  BY <2>1, <2>2
<1>11. ASSUME wire # 2 PROVE f.next \in Nat /\ f.next > p
  <2>1. wire = 0 \/ wire = 1 \/ wire = 5 \/ wire \in {3, 4}
    BY <1>6, <1>7, <1>11
  <2>2. \/ f.next = p + tag.len + first.len \/ f.next = p + tag.len + 8
        \/ f.next = p + tag.len + 4 \/ f.next = p + tag.len + 0
    BY <1>8, <2>1
  <2> QED  BY <1>9, <2>2
<1> QED  BY <1>10, <1>11 DEF f

LEMMA HoldsConcat ==
  ASSUME NEW s, NEW p \in Nat \ {0}, NEW a \in Bytes, NEW b \in Bytes, Len(s) \in Nat
  PROVE  Holds(s, p, a \o b) <=> Holds(s, p, a) /\ Holds(s, p + Len(a), b)
<1> DEFINE l == Len(a)
           m == Len(b)
           c == a \o b
<1>1. /\ Len(c) = l + m /\ l \in Nat /\ m \in Nat
      /\ \A k \in 1..(l + m) : c[k] = IF k <= l THEN a[k] ELSE b[k - l]
  BY ConcatProperties, BytesAre DEF Bytes
<1>2. /\ Holds(s, p, c) <=> (p + (l + m) <= Len(s) + 1 /\ \A k \in 1..(l + m) : s[p + (k - 1)] = c[k])
      /\ Holds(s, p, a) <=> (p + l <= Len(s) + 1 /\ \A k \in 1..l : s[p + (k - 1)] = a[k])
      /\ Holds(s, p + l, b) <=> (p + l + m <= Len(s) + 1 /\ \A k \in 1..m : s[p + l + (k - 1)] = b[k])
  BY <1>1 DEF Holds
<1> HIDE DEF l, m, c
<1>3. ASSUME Holds(s, p, c) PROVE Holds(s, p, a) /\ Holds(s, p + l, b)
  <2>1. ASSUME NEW k \in 1..l PROVE s[p + (k - 1)] = a[k]
    <3>1. k \in 1..(l + m) /\ k <= l
      BY <1>1
    <3>2. c[k] = a[k] /\ s[p + (k - 1)] = c[k]
      BY <1>1, <1>2, <1>3, <3>1
    <3> QED  BY <3>2
  <2>2. ASSUME NEW k \in 1..m PROVE s[p + l + (k - 1)] = b[k]
    <3>1. l + k \in 1..(l + m) /\ ~ (l + k <= l) /\ (l + k) - l = k
          /\ p + ((l + k) - 1) = p + l + (k - 1)
      BY <1>1
    <3>2. s[p + ((l + k) - 1)] = c[l + k] /\ c[l + k] = b[(l + k) - l]
      BY <1>1, <1>2, <1>3, <3>1
    <3> QED  BY <3>1, <3>2
  <2> QED  BY <1>1, <1>2, <1>3, <2>1, <2>2
<1>4. ASSUME Holds(s, p, a), Holds(s, p + l, b) PROVE Holds(s, p, c)
  <2>1. ASSUME NEW k \in 1..(l + m) PROVE s[p + (k - 1)] = c[k]
    <3>1. CASE k <= l
      <4>1. k \in 1..l
        BY <1>1, <3>1
      <4>2. s[p + (k - 1)] = a[k]
        BY <1>2, <1>4, <4>1
      <4>3. c[k] = a[k]
        BY <1>1, <3>1
      <4> QED  BY <4>2, <4>3
    <3>2. CASE k > l
      <4>1. k - l \in 1..m /\ p + l + ((k - l) - 1) = p + (k - 1) /\ ~ (k <= l)
        BY <1>1, <3>2
      <4>2. s[p + l + ((k - l) - 1)] = b[k - l]
        BY <1>2, <1>4, <4>1
      <4> QED  BY <1>1, <4>1, <4>2
    <3> QED  BY <1>1, <3>1, <3>2
  <2> QED  BY <1>1, <1>2, <1>4, <2>1
<1> QED  BY <1>3, <1>4 DEF c, l

LEMMA HeldIs ==
  ASSUME NEW s \in Bytes, NEW p \in Nat \ {0}, NEW t \in Bytes, Holds(s, p, t)
  PROVE  SubSeq(s, p, p + Len(t) - 1) = t
<1> DEFINE l == Len(t)
           u == SubSeq(s, p, p + l - 1)
<1>1. l \in Nat /\ Len(s) \in Nat /\ p + l <= Len(s) + 1 /\ \A k \in 1..l : s[p + (k - 1)] = t[k]
  BY BytesAre DEF Holds
<1> HIDE DEF l
<1>2. \A k \in p..(p + l - 1) : s[k] \in 0..255
  BY <1>1, BytesAre
<1>3. /\ u \in Bytes
      /\ Len(u) = (IF p <= p + l - 1 THEN (p + l - 1) - p + 1 ELSE 0)
      /\ \A k \in 1..((p + l - 1) - p + 1) : u[k] = s[p + k - 1]
  BY <1>1, <1>2, SubSeqProperties DEF Bytes
<1> HIDE DEF u
<1>4. Len(u) = l /\ \A k \in 1..l : u[k] = t[k]
  <2>1. Len(u) = l /\ (p + l - 1) - p + 1 = l
    BY <1>1, <1>3
  <2>2. \A k \in 1..l : p + k - 1 = p + (k - 1)
    BY <1>1
  <2> QED  BY <1>1, <1>3, <2>1, <2>2
<1> QED  BY <1>3, <1>4, SeqEqual DEF l, u, Bytes

LEMMA VarintOfByte ==
  ASSUME NEW b \in 0..127
  PROVE  Varint(b) = <<b>> /\ VarintSize(b) = 1 /\ b \in Number
<1>1. b \in Number
  BY SMT DEF Number
<1>2. VarintSize(b) = 1
  BY SMT, <1>1, VarintSizeIs, Bases
<1>3. Varint(b) = [k \in 1..1 |-> ((b \div Base[k]) % 128) + (IF k < 1 THEN 128 ELSE 0)]
  BY <1>2 DEF Varint
<1>4. Len(Varint(b)) = 1 /\ Varint(b) \in Bytes
  BY <1>1, <1>2, VarintBytes
<1>5. Varint(b)[1] = b
  <2>1. (b \div 1) % 128 = b
    OBVIOUS
  <2> QED  BY <1>3, <2>1, Bases
<1> QED  BY <1>1, <1>2, <1>4, <1>5 DEF Bytes

\* A field that was written is read as it was: one that holds a number, and one
\* that holds bytes, of which there may be more or fewer than its length says.
LEMMA TagAt ==
  ASSUME NEW s \in Bytes, NEW p \in Nat \ {0}, NEW tag \in 0..127, Holds(s, p, <<tag>>)
  PROVE  VarintAt(s, p).len = 1 /\ VarintAt(s, p).val = tag
<1>1. Varint(tag) = <<tag>> /\ VarintSize(tag) = 1 /\ tag \in Number
  BY VarintOfByte
<1>2. Holds(s, p, Varint(tag))
  BY <1>1
<1>3. VarintAt(s, p).len = VarintSize(tag) /\ VarintAt(s, p).val = tag
  BY <1>1, <1>2, VarintAtWritten
<1> QED  BY <1>1, <1>3

LEMMA VarintFieldAt ==
  ASSUME NEW s \in Bytes, NEW p, p \in Nat \ {0}, NEW num, num \in 1..15, NEW n \in Number,
         Holds(s, p, VarintField(num, n)), NEW l, l = Len(VarintField(num, n))
  PROVE  /\ FieldAt(s, p).ok /\ FieldAt(s, p).num = num /\ FieldAt(s, p).wire = 0
         /\ FieldAt(s, p).val = n /\ FieldAt(s, p).next = p + l /\ l \in Nat
         /\ VarintField(num, n) \in Bytes
<1> DEFINE tag == VarintAt(s, p)
           first == VarintAt(s, p + tag.len)
           f == FieldAt(s, p)
<1>1. <<8 * num>> \in Bytes /\ Len(<<8 * num>>) = 1 /\ Varint(n) \in Bytes
  BY VarintBytes DEF Bytes
<1>2. Holds(s, p, <<8 * num>>) /\ Holds(s, p + 1, Varint(n))
  <2> DEFINE t == <<8 * num>>
  <2>1. Holds(s, p, t \o Varint(n)) /\ Len(s) \in Nat
    BY BytesAre DEF VarintField
  <2>2. t \in Bytes /\ Len(t) = 1
    BY <1>1
  <2> HIDE DEF t
  <2>3. Holds(s, p, t) /\ Holds(s, p + Len(t), Varint(n))
    BY <1>1, <2>1, <2>2, HoldsConcat
  <2> QED  BY <2>2, <2>3 DEF t
<1>3. tag.len = 1 /\ tag.val = 8 * num
  <2>1. 8 * num \in 0..127
    OBVIOUS
  <2> QED  BY <1>2, <2>1, TagAt
<1>4. first.len = VarintSize(n) /\ first.val = n /\ VarintSize(n) \in 1..5
  BY <1>2, <1>3, VarintAtWritten, VarintSizeIs
<1>5. /\ f.ok = (/\ tag.len \in 1..5 /\ tag.val >= 8 /\ tag.val % 8 <= 5
                 /\ tag.val % 8 = 0 => first.len > 0)
      /\ f.num = tag.val \div 8 /\ f.wire = tag.val % 8
      /\ tag.val % 8 = 0 => f.val = first.val /\ f.next = p + tag.len + first.len
  BY FieldAtIs, ZenonT(60)
<1>6. Len(VarintField(num, n)) = 1 + VarintSize(n) /\ VarintField(num, n) \in Bytes
  BY <1>1, ConcatProperties, VarintBytes DEF VarintField, Bytes
<1> HIDE DEF tag, first, f
<1>7. tag.val % 8 = 0 /\ tag.val \div 8 = num /\ tag.val >= 8
  BY <1>3
<1> QED  BY <1>3, <1>4, <1>5, <1>6, <1>7 DEF f

\* What is before the bytes: the tag and their number.
Prefix(num, n) == <<8 * num + 2>> \o Varint(n)

LEMMA BytesFieldAt ==
  ASSUME NEW s \in Bytes, NEW p, p \in Nat \ {0}, NEW num, num \in 1..15,
         NEW n \in Number, Holds(s, p, Prefix(num, n))
  PROVE  LET f == FieldAt(s, p)
             start == p + 1 + VarintSize(n)
         IN /\ f.ok /\ f.num = num /\ f.wire = 2 /\ f.next = start + n
            /\ f.val = SubSeq(s, start, Min({f.next - 1, Len(s)}))
<1> DEFINE tag == VarintAt(s, p)
           first == VarintAt(s, p + tag.len)
           f == FieldAt(s, p)
<1>1. <<8 * num + 2>> \in Bytes /\ Len(<<8 * num + 2>>) = 1 /\ Varint(n) \in Bytes
  BY VarintBytes DEF Bytes
<1>2. Holds(s, p, <<8 * num + 2>>) /\ Holds(s, p + 1, Varint(n))
  <2> DEFINE t == <<8 * num + 2>>
  <2>1. Holds(s, p, t \o Varint(n)) /\ Len(s) \in Nat
    BY BytesAre DEF Prefix
  <2>2. t \in Bytes /\ Len(t) = 1
    BY <1>1
  <2> HIDE DEF t
  <2>3. Holds(s, p, t) /\ Holds(s, p + Len(t), Varint(n))
    BY <1>1, <2>1, <2>2, HoldsConcat
  <2> QED  BY <2>2, <2>3 DEF t
<1>3. tag.len = 1 /\ tag.val = 8 * num + 2
  <2>1. 8 * num + 2 \in 0..127
    OBVIOUS
  <2> QED  BY <1>2, <2>1, TagAt
<1>4. first.len = VarintSize(n) /\ first.val = n /\ ~ first.wide /\ VarintSize(n) \in 1..5
  BY <1>2, <1>3, VarintAtWritten, VarintSizeIs
<1>5. /\ f.ok = (/\ tag.len \in 1..5 /\ tag.val >= 8 /\ tag.val % 8 <= 5
                 /\ tag.val % 8 = 0 => first.len > 0)
      /\ f.num = tag.val \div 8 /\ f.wire = tag.val % 8
      /\ tag.val % 8 = 2 /\ first.len \in 1..5 /\ ~ first.wide =>
           /\ f.next = p + tag.len + first.len + first.val
           /\ f.val = SubSeq(s, p + tag.len + first.len, Min({f.next - 1, Len(s)}))
  BY FieldAtIs, ZenonT(60)
<1> HIDE DEF tag, first, f
<1>6. tag.val % 8 = 2 /\ tag.val \div 8 = num /\ tag.val >= 8
  BY <1>3
<1>7. f.ok /\ f.num = num /\ f.wire = 2 /\ f.next = p + 1 + VarintSize(n) + n
  BY <1>3, <1>4, <1>5, <1>6
<1>8. f.val = SubSeq(s, p + 1 + VarintSize(n), Min({f.next - 1, Len(s)}))
  BY <1>3, <1>4, <1>5, <1>6
<1> QED  BY <1>7, <1>8 DEF f

LEMMA WholeFieldAt ==
  ASSUME NEW s \in Bytes, NEW p, p \in Nat \ {0}, NEW num, num \in 1..15, NEW t \in Bytes,
         Len(t) \in Number, Holds(s, p, BytesField(num, t)),
         NEW l, l = Len(BytesField(num, t))
  PROVE  /\ FieldAt(s, p).ok /\ FieldAt(s, p).num = num /\ FieldAt(s, p).wire = 2
         /\ FieldAt(s, p).val = t /\ FieldAt(s, p).next = p + l /\ l \in Nat
         /\ BytesField(num, t) \in Bytes
<1> DEFINE head == Prefix(num, Len(t))
           z == VarintSize(Len(t))
           f == FieldAt(s, p)
           start == p + 1 + z
<1>1. <<8 * num + 2>> \in Bytes /\ Len(<<8 * num + 2>>) = 1
  BY DEF Bytes
<1>2. Varint(Len(t)) \in Bytes /\ Len(Varint(Len(t))) = z /\ z \in 1..5
  BY VarintBytes, VarintSizeIs
<1>3. head \in Bytes /\ Len(head) = 1 + z
  BY <1>1, <1>2, ConcatProperties DEF Bytes, Prefix
<1>4. BytesField(num, t) = head \o t
  BY DEF BytesField, Prefix
<1> HIDE DEF head, z
<1>5. Holds(s, p, head) /\ Holds(s, p + (1 + z), t)
  BY <1>2, <1>3, <1>4, HoldsConcat, BytesAre
<1>6. /\ f.ok /\ f.num = num /\ f.wire = 2 /\ f.next = start + Len(t)
      /\ f.val = SubSeq(s, start, Min({f.next - 1, Len(s)}))
  <2> DEFINE n == Len(t)
  <2>1. n \in Number /\ Holds(s, p, Prefix(num, n)) /\ num \in 1..15 /\ p \in Nat \ {0}
    BY <1>5 DEF head
  <2> HIDE DEF n, start
  <2>2. /\ f.ok /\ f.num = num /\ f.wire = 2 /\ f.next = p + 1 + VarintSize(n) + n
        /\ f.val = SubSeq(s, p + 1 + VarintSize(n), Min({f.next - 1, Len(s)}))
    BY <2>1, BytesFieldAt
  <2> QED  BY <2>2 DEF n, start, z
<1> HIDE DEF f
<1>7. start \in Nat \ {0} /\ start + Len(t) <= Len(s) + 1 /\ Len(t) \in Nat /\ Len(s) \in Nat
      /\ start = p + (1 + z)
  BY <1>2, <1>5, BytesAre DEF Holds
<1> HIDE DEF start
<1>8. Min({f.next - 1, Len(s)}) = start + Len(t) - 1
  <2>1. {f.next - 1, Len(s)} \subseteq Int /\ f.next - 1 \in {f.next - 1, Len(s)}
        /\ (\A x \in {f.next - 1, Len(s)} : f.next - 1 <= x)
    BY <1>6, <1>7
  <2>2. Min({f.next - 1, Len(s)}) = f.next - 1
    BY <2>1, MinIs
  <2> QED  BY <1>6, <1>7, <2>2
<1>9. f.val = t
  BY <1>5, <1>6, <1>7, <1>8, HeldIs
<1>10. BytesField(num, t) \in Bytes /\ Len(BytesField(num, t)) = (1 + z) + Len(t)
  <2>1. head \in Seq(0..255) /\ t \in Seq(0..255)
    BY <1>3 DEF Bytes
  <2>2. head \o t \in Seq(0..255) /\ Len(head \o t) = Len(head) + Len(t)
    BY <2>1, ConcatProperties
  <2> QED  BY <1>3, <1>4, <2>2 DEF Bytes
<1>11. f.next = p + l /\ l \in Nat
  BY <1>2, <1>6, <1>7, <1>10
<1> QED  BY <1>6, <1>9, <1>10, <1>11 DEF f

-----------------------------------------------------------------------------
(* Reading a message: its fields, from the last to the first.              *)

\* What FieldsFrom has at p, given what it has behind p.
FieldsAt(s, from, p) ==
  LET f == FieldAt(s, p) IN
  IF p > Len(s) THEN [Bad EXCEPT !.ok = TRUE]
  ELSE IF ~f.ok THEN Bad
  ELSE IF f.wire = 4 THEN [Bad EXCEPT !.group = f.num, !.next = f.next]
  ELSE IF f.next > Len(s) + 1 THEN [Bad EXCEPT !.fields = <<f>>]
  ELSE IF f.wire # 3 THEN [from[f.next] EXCEPT !.fields = <<f>> \o @]
  ELSE LET inside == from[f.next]
       IN IF inside.group = f.num /\ inside.next \in f.next..(Len(s) + 1)
            THEN from[inside.next] ELSE Bad

LEMMA FieldsAtBehind ==
  ASSUME NEW s \in Bytes, NEW p \in Nat \ {0}, p <= Len(s) + 1, NEW g, NEW h,
         \A q \in (p + 1)..(Len(s) + 1) : g[q] = h[q]
  PROVE  FieldsAt(s, g, p) = FieldsAt(s, h, p)
<1> DEFINE f == FieldAt(s, p)
<1>1. Len(s) \in Nat /\ (f.ok => f.next \in Nat /\ f.next > p)
  BY FieldAtNext, BytesAre
<1> HIDE DEF f
<1>2. f.ok /\ ~ (f.next > Len(s) + 1) =>
        /\ g[f.next] = h[f.next]
        /\ \A q \in f.next..(Len(s) + 1) : g[q] = h[q]
  BY <1>1
<1> QED  BY <1>2 DEF FieldsAt, f

\* The recursion has a solution: one for the positions from m on gives one for
\* those from m - 1 on.
LEMMA FieldsFromIs ==
  ASSUME NEW s \in Bytes
  PROVE  \A p \in 1..(Len(s) + 1) : FieldsFrom(s)[p] = FieldsAt(s, FieldsFrom(s), p)
<1> DEFINE N == Len(s) + 1
           Solves(g, m) == g = [p \in m..N |-> FieldsAt(s, g, p)]
           T == {m \in 1..N : \E g : Solves(g, m)}
<1>1. Len(s) \in Nat /\ N \in Nat \ {0}
  BY BytesAre
<1>2. N \in T
  <2> DEFINE g == [p \in N..N |-> [Bad EXCEPT !.ok = TRUE]]
  <2>1. \A p \in N..N : FieldsAt(s, g, p) = [Bad EXCEPT !.ok = TRUE]
    BY <1>1 DEF FieldsAt
  <2>2. Solves(g, N)
    BY <2>1
  <2> HIDE DEF Solves, N, g
  <2> QED  BY <1>1, <2>2
<1>3. ASSUME NEW m \in T, m > 1 PROVE m - 1 \in T
  <2>1. m \in 1..N /\ m - 1 \in 1..N
    BY <1>1, <1>3
  <2>2. PICK g : Solves(g, m)
    BY <1>3
  <2> DEFINE h == [p \in (m - 1)..N |-> IF p = m - 1 THEN FieldsAt(s, g, m - 1) ELSE g[p]]
  <2>3. ASSUME NEW q \in m..N PROVE h[q] = g[q] /\ g[q] = FieldsAt(s, g, q)
    <3> DEFINE e == [p \in m..N |-> FieldsAt(s, g, p)]
    <3>1. g = e /\ e[q] = FieldsAt(s, g, q)
      BY <2>2
    <3> HIDE DEF e
    <3>2. q \in (m - 1)..N /\ q # m - 1
      BY <1>1, <2>1
    <3>3. h[q] = g[q]
      BY <3>2
    <3> QED  BY <3>1, <3>3
  <2>4. h[m - 1] = FieldsAt(s, g, m - 1)
    BY <1>1, <2>1
  <2>5. h = [p \in (m - 1)..N |-> h[p]]
    OBVIOUS
  <2> HIDE DEF h
  <2>6. ASSUME NEW p \in (m - 1)..N PROVE h[p] = FieldsAt(s, h, p)
    <3>1. FieldsAt(s, g, p) = FieldsAt(s, h, p)
      BY <1>1, <2>1, <2>3, FieldsAtBehind
    <3>2. h[p] = FieldsAt(s, g, p)
      BY <1>1, <2>1, <2>3, <2>4
    <3> QED  BY <3>1, <3>2
  <2>7. Solves(h, m - 1)
    BY <2>5, <2>6
  <2> HIDE DEF Solves, N
  <2> QED  BY <2>1, <2>7
<1>4. 1 \in T
  <2>1. T \subseteq Nat
    BY <1>1
  <2>2. PICK m \in T : \A x \in T : m <= x
    <3> HIDE DEF T
    <3> QED  BY <1>2, <2>1, LeastOf
  <2>3. m \in 1..N
    OBVIOUS
  <2>4. ~ (m > 1)
    <3> HIDE DEF T, N
    <3> QED  BY <1>3, <2>2, <2>3
  <2>5. m = 1
    BY <1>1, <2>3, <2>4
  <2> QED  BY <2>5
<1>5. \E g : Solves(g, 1)
  BY <1>4
<1>6. FieldsFrom(s) = CHOOSE g : Solves(g, 1)
  BY Zenon DEF FieldsFrom, FieldsAt
<1>7. Solves(FieldsFrom(s), 1)
  <2> HIDE DEF Solves
  <2> QED  BY <1>5, <1>6, Zenon
<1> QED  BY <1>7

\* The parse that came to the end of the message, and the one that did not.
Ended(fields) == [ok |-> TRUE, fields |-> fields, group |-> 0, next |-> 0]
Broken(fields) == [ok |-> FALSE, fields |-> fields, group |-> 0, next |-> 0]

\* Field by field: the end, a field that is not well formed, one that is cut
\* short, and one with something behind it.
LEMMA AtEnd ==
  ASSUME NEW s \in Bytes
  PROVE  FieldsFrom(s)[Len(s) + 1] = Ended(<<>>)
<1>1. Len(s) + 1 \in 1..(Len(s) + 1) /\ Len(s) + 1 > Len(s)
  BY BytesAre
<1> QED  BY <1>1, FieldsFromIs DEF FieldsAt, Ended, Bad

LEMMA AtBad ==
  ASSUME NEW s \in Bytes, NEW p \in 1..Len(s), ~ FieldAt(s, p).ok
  PROVE  FieldsFrom(s)[p] = Broken(<<>>)
<1>1. p \in 1..(Len(s) + 1) /\ ~ (p > Len(s))
  BY BytesAre
<1> QED  BY <1>1, FieldsFromIs DEF FieldsAt, Bad, Broken

LEMMA AtField ==
  ASSUME NEW s \in Bytes, NEW p \in 1..Len(s), NEW f, f = FieldAt(s, p), f.ok,
         f.wire \in {0, 2}, NEW rest
  PROVE  /\ f.next > Len(s) + 1 => FieldsFrom(s)[p] = Broken(<<f>>)
         /\ f.next <= Len(s) + 1 /\ FieldsFrom(s)[f.next] = Ended(rest)
              => FieldsFrom(s)[p] = Ended(<<f>> \o rest)
         /\ f.next <= Len(s) + 1 /\ FieldsFrom(s)[f.next] = Broken(rest)
              => FieldsFrom(s)[p] = Broken(<<f>> \o rest)
<1> DEFINE r == FieldsFrom(s)[f.next]
           t == <<f>> \o rest
<1>1. p \in 1..(Len(s) + 1) /\ ~ (p > Len(s)) /\ Len(s) \in Nat
  BY BytesAre
<1>2. f.next \in Nat
  BY <1>1, FieldAtNext
<1>3. f.wire # 3 /\ f.wire # 4
  OBVIOUS
<1>4. FieldsFrom(s)[p] = IF f.next > Len(s) + 1 THEN [Bad EXCEPT !.fields = <<f>>]
                         ELSE [r EXCEPT !.fields = <<f>> \o @]
  BY <1>1, <1>3, FieldsFromIs, Zenon DEF FieldsAt
<1> HIDE DEF r
<1>5. ASSUME f.next <= Len(s) + 1, r = Ended(rest) PROVE FieldsFrom(s)[p] = Ended(t)
  <2>1. r.fields = rest
    BY <1>5 DEF Ended
  <2>2. ~ (f.next > Len(s) + 1)
    BY <1>1, <1>2, <1>5
  <2>3. FieldsFrom(s)[p] = [Ended(rest) EXCEPT !.fields = t]
    BY <1>4, <1>5, <2>1, <2>2
  <2> HIDE DEF t
  <2> QED  BY <2>3 DEF Ended
<1>6. ASSUME f.next <= Len(s) + 1, r = Broken(rest) PROVE FieldsFrom(s)[p] = Broken(t)
  <2>1. r.fields = rest
    BY <1>6 DEF Broken
  <2>2. ~ (f.next > Len(s) + 1)
    BY <1>1, <1>2, <1>6
  <2>3. FieldsFrom(s)[p] = [Broken(rest) EXCEPT !.fields = t]
    BY <1>4, <1>6, <2>1, <2>2
  <2> HIDE DEF t
  <2> QED  BY <2>3 DEF Broken
<1>7. ASSUME f.next > Len(s) + 1 PROVE FieldsFrom(s)[p] = Broken(<<f>>)
  BY <1>4, <1>7 DEF Bad, Broken
<1> HIDE DEF t
<1> QED  BY <1>5, <1>6, <1>7 DEF r, t

LEMMA AtLastField ==
  ASSUME NEW s \in Bytes, NEW p \in 1..Len(s), NEW f, f = FieldAt(s, p), f.ok,
         f.wire \in {0, 2}, f.next = Len(s) + 1
  PROVE  FieldsFrom(s)[p] = Ended(<<f>>)
<1> DEFINE rest == <<>>
<1>1. <<f>> \o rest = <<f>>
  BY ConcatEmptySeq
<1>2. f.next <= Len(s) + 1 /\ FieldsFrom(s)[f.next] = Ended(rest)
  BY AtEnd, BytesAre
<1> HIDE DEF rest
<1>3. FieldsFrom(s)[p] = Ended(<<f>> \o rest)
  BY <1>2, AtField
<1> QED  BY <1>1, <1>3

LEMMA HoldsSelf ==
  ASSUME NEW s \in Bytes
  PROVE  Holds(s, 1, s)
BY BytesAre DEF Holds

LEMMA Tuples ==
  ASSUME NEW a, NEW b, NEW c
  PROVE  /\ <<a>> \o <<>> = <<a>> /\ <<a>> \o <<b>> = <<a, b>>
         /\ <<a>> \o <<b, c>> = <<a, b, c>>
<1> DEFINE S == {a, b, c}
<1>1. <<a>> \o <<>> = <<a>>
  BY ConcatEmptySeq
<1>2. /\ <<a>> \in Seq(S) /\ <<b>> \in Seq(S) /\ <<b, c>> \in Seq(S) /\ <<a, b>> \in Seq(S)
      /\ <<a, b, c>> \in Seq(S)
  OBVIOUS
<1>3. <<a>> \o <<b>> = <<a, b>>
  <2>1. <<a>> \o <<b>> \in Seq(S) /\ Len(<<a>> \o <<b>>) = 2
        /\ \A i \in 1..2 : (<<a>> \o <<b>>)[i] = IF i <= 1 THEN <<a>>[i] ELSE <<b>>[i - 1]
    BY <1>2, ConcatProperties
  <2>2. \A i \in 1..2 : (<<a>> \o <<b>>)[i] = <<a, b>>[i]
    BY <2>1
  <2> QED  BY <1>2, <2>1, <2>2, SeqEqual
<1>4. <<a>> \o <<b, c>> = <<a, b, c>>
  <2>1. <<a>> \o <<b, c>> \in Seq(S) /\ Len(<<a>> \o <<b, c>>) = 3
        /\ \A i \in 1..3 : (<<a>> \o <<b, c>>)[i] = IF i <= 1 THEN <<a>>[i] ELSE <<b, c>>[i - 1]
    BY <1>2, ConcatProperties
  <2>2. \A i \in 1..3 : (<<a>> \o <<b, c>>)[i] = <<a, b, c>>[i]
    BY <2>1
  <2> QED  BY <1>2, <2>1, <2>2, SeqEqual
<1> QED  BY <1>1, <1>3, <1>4

-----------------------------------------------------------------------------
(* Reading what was sent.                                                  *)

\* Nothing follows the tag of a number.
LEMMA TagAlone ==
  ASSUME NEW s \in Bytes, NEW num \in 1..15, Len(s) > 0, s[Len(s)] = 8 * num
  PROVE  FieldsFrom(s)[Len(s)] = Broken(<<>>)
<1> DEFINE p == Len(s)
           tag == VarintAt(s, p)
           first == VarintAt(s, p + tag.len)
           f == FieldAt(s, p)
<1>1. p \in Nat \ {0} /\ p \in 1..Len(s)
  BY BytesAre
<1>2. tag.len = 1 /\ tag.val = 8 * num
  <2>1. Holds(s, p, <<8 * num>>)
    BY <1>1 DEF Holds
  <2>2. 8 * num \in 0..127
    OBVIOUS
  <2> QED  BY <1>1, <2>1, <2>2, TagAt
<1>3. first.len = 0
  <2>1. VarintLen(s, p + 1) = 0
    <3> DEFINE l == VarintLen(s, p + 1)
    <3>1. l \in 0..10 /\ (l > 0 => p + 1 + l <= Len(s) + 1)
      BY <1>1, VarintLenIs
    <3> HIDE DEF l
    <3>2. ~ (l > 0)
      BY <1>1, <3>1
    <3> QED  BY <3>1, <3>2 DEF l
  <2>2. VarintAt(s, p + 1).len = 0
    BY <1>1, <2>1, VarintAtType
  <2> QED  BY <1>2, <2>2
<1>4. f.ok = (/\ tag.len \in 1..5 /\ tag.val >= 8 /\ tag.val % 8 <= 5
              /\ tag.val % 8 = 0 => first.len > 0)
  BY FieldAtIs, ZenonT(60)
<1>5. tag.val % 8 = 0
  BY <1>2
<1>6. ~ f.ok
  <2> HIDE DEF tag, first, f
  <2> QED  BY <1>3, <1>4, <1>5
<1> QED  BY <1>1, <1>6, AtBad

\* The message around a body that is there, and around one of which only the
\* bytes x came.
LEMMA PrefixIs ==
  ASSUME NEW num \in 1..15, NEW n \in Number
  PROVE  /\ Prefix(num, n) \in Bytes /\ Len(Prefix(num, n)) = 1 + VarintSize(n)
         /\ n > 0 => \A k \in 1..Len(Prefix(num, n)) : Prefix(num, n)[k] > 0
         /\ \A t \in Bytes : BytesField(num, t) = Prefix(num, Len(t)) \o t
<1> DEFINE a == <<8 * num + 2>>
           v == Varint(n)
           z == VarintSize(n)
<1>1. a \in Bytes /\ Len(a) = 1 /\ a[1] > 0
  BY DEF Bytes
<1>2. v \in Bytes /\ Len(v) = z /\ z \in 1..5 /\ (n > 0 => \A k \in 1..z : v[k] > 0)
  BY VarintBytes, VarintSizeIs
<1>3. Prefix(num, n) = a \o v
  BY DEF Prefix
<1>4. \A t \in Bytes : BytesField(num, t) = Prefix(num, Len(t)) \o t
  BY DEF BytesField, Prefix
<1> HIDE DEF a, v, z
<1>5. /\ a \o v \in Bytes /\ Len(a \o v) = 1 + z
      /\ \A k \in 1..(1 + z) : (a \o v)[k] = IF k <= 1 THEN a[k] ELSE v[k - 1]
  <2>1. a \in Seq(0..255) /\ v \in Seq(0..255)
    BY <1>1, <1>2 DEF Bytes
  <2>2. /\ a \o v \in Seq(0..255) /\ Len(a \o v) = Len(a) + Len(v)
        /\ \A k \in 1..(Len(a) + Len(v)) : (a \o v)[k] = IF k <= Len(a) THEN a[k] ELSE v[k - Len(a)]
    BY <2>1, ConcatProperties
  <2> QED  BY <1>1, <1>2, <2>2 DEF Bytes
<1>6. ASSUME n > 0, NEW k \in 1..(1 + z) PROVE (a \o v)[k] > 0
  <2>1. CASE k = 1
    BY <1>1, <1>2, <1>5, <2>1
  <2>2. CASE k > 1
    <3>1. k - 1 \in 1..z /\ ~ (k <= 1)
      BY <1>2, <2>2
    <3> QED  BY <1>2, <1>5, <1>6, <3>1
  <2>3. k = 1 \/ k > 1
    BY <1>2
  <2> QED  BY <2>1, <2>2, <2>3
<1> QED  BY <1>3, <1>4, <1>5, <1>6 DEF z

LEMMA WholeMessage ==
  ASSUME NEW num \in 1..15, NEW t \in Bytes, Len(t) \in Number
  PROVE  LET s == BytesField(num, t)
             f == FieldAt(s, 1)
         IN /\ s \in Bytes /\ Fields(s) = Ended(<<f>>)
            /\ f.num = num /\ f.wire = 2 /\ f.val = t
<1> DEFINE s == BytesField(num, t)
           f == FieldAt(s, 1)
<1>1. s \in Bytes /\ Len(s) > 0
  <2>1. s = Prefix(num, Len(t)) \o t /\ Prefix(num, Len(t)) \in Bytes
        /\ Len(Prefix(num, Len(t))) = 1 + VarintSize(Len(t)) /\ VarintSize(Len(t)) \in 1..5
    BY PrefixIs, VarintSizeIs
  <2> HIDE DEF s
  <2> QED  BY <2>1, ConcatProperties, BytesAre DEF Bytes
<1>2. Holds(s, 1, s)
  BY <1>1, HoldsSelf
<1>3. f.ok /\ f.num = num /\ f.wire = 2 /\ f.val = t /\ f.next = 1 + Len(s)
  <2>1. /\ FieldAt(s, 1).ok /\ FieldAt(s, 1).num = num /\ FieldAt(s, 1).wire = 2
        /\ FieldAt(s, 1).val = t /\ FieldAt(s, 1).next = 1 + Len(BytesField(num, t))
    <3> DEFINE l == Len(BytesField(num, t))
           p == 1
    <3>1. Holds(s, p, BytesField(num, t)) /\ s \in Bytes /\ p \in Nat \ {0}
          /\ l = Len(BytesField(num, t)) /\ num \in 1..15
      BY <1>1, <1>2, BytesAre
    <3> HIDE DEF s, l, p
    <3>2. /\ FieldAt(s, p).ok /\ FieldAt(s, p).num = num /\ FieldAt(s, p).wire = 2
          /\ FieldAt(s, p).val = t /\ FieldAt(s, p).next = p + l
      BY <3>1, WholeFieldAt, SMTT(30)
    <3> QED  BY <3>2 DEF p, l
  <2> QED  BY <2>1
<1> HIDE DEF s
<1>4. f.next = Len(s) + 1 /\ f.next <= Len(s) + 1 /\ 1 \in 1..Len(s)
  BY <1>1, <1>3, BytesAre
<1>5. FieldsFrom(s)[1] = Ended(<<f>>)
  <2>1. f = FieldAt(s, 1) /\ f.ok /\ f.wire \in {0, 2}
    BY <1>3
  <2> HIDE DEF f
  <2> QED  BY <1>1, <1>4, <2>1, AtLastField
<1> QED  BY <1>1, <1>3, <1>5 DEF Fields, s

LEMMA CutMessage ==
  ASSUME NEW num \in 1..15, NEW n \in Number, NEW x \in Bytes, Len(x) < n
  PROVE  LET s == Prefix(num, n) \o x
             f == FieldAt(s, 1)
         IN /\ s \in Bytes /\ Fields(s) = Broken(<<f>>)
            /\ f.num = num /\ f.wire = 2 /\ f.val = x
<1> DEFINE h == Prefix(num, n)
           z == VarintSize(n)
           s == h \o x
           f == FieldAt(s, 1)
<1>1. h \in Bytes /\ Len(h) = 1 + z /\ z \in 1..5 /\ Len(x) \in Nat /\ n \in Nat
  <2>1. n \in Nat
    BY SMT DEF Number
  <2> QED  BY <2>1, PrefixIs, VarintSizeIs, BytesAre
<1> HIDE DEF h, z
<1>2. s \in Bytes /\ Len(s) = (1 + z) + Len(x)
  BY <1>1, ConcatProperties DEF Bytes
<1>3. Holds(s, 1, h) /\ Holds(s, 1 + (1 + z), x)
  <2>1. Holds(s, 1, s) /\ Len(s) \in Nat
    BY <1>2, HoldsSelf, BytesAre
  <2> QED  BY <1>1, <2>1, HoldsConcat, SMTT(30)
<1> HIDE DEF s
<1>4. /\ f.ok /\ f.num = num /\ f.wire = 2 /\ f.next = 1 + 1 + z + n
      /\ f.val = SubSeq(s, 1 + 1 + z, Min({f.next - 1, Len(s)}))
  <2> DEFINE p == 1
             g == FieldAt(s, p)
  <2>1. Holds(s, p, Prefix(num, n)) /\ p \in Nat \ {0} /\ num \in 1..15 /\ s \in Bytes
    BY <1>2, <1>3 DEF h
  <2>2. f = g
    OBVIOUS
  <2> HIDE DEF p
  <2>3. /\ g.ok /\ g.num = num /\ g.wire = 2 /\ g.next = p + 1 + VarintSize(n) + n
        /\ g.val = SubSeq(s, p + 1 + VarintSize(n), Min({g.next - 1, Len(s)}))
    BY <2>1, BytesFieldAt
  <2> HIDE DEF g, f
  <2> QED  BY <2>2, <2>3 DEF z, p
<1> HIDE DEF f
<1>5. Min({f.next - 1, Len(s)}) = Len(s)
  <2>1. f.next - 1 \in Int /\ Len(s) \in Int /\ Len(s) <= f.next - 1
    BY <1>1, <1>2, <1>4
  <2> DEFINE S == {f.next - 1, Len(s)}
  <2>2. S \subseteq Int /\ Len(s) \in S /\ \A y \in S : Len(s) <= y
    BY <2>1
  <2>3. Min(S) = Len(s)
    <3> HIDE DEF S
    <3> QED  BY <2>2, MinIs
  <2> QED  BY <2>3
<1>6. f.val = x
  <2>1. SubSeq(s, 1 + (1 + z), 1 + (1 + z) + Len(x) - 1) = x
    BY <1>1, <1>2, <1>3, HeldIs
  <2>2. 1 + (1 + z) + Len(x) - 1 = Len(s) /\ 1 + (1 + z) = 1 + 1 + z
    BY <1>1, <1>2
  <2> QED  BY <1>4, <1>5, <2>1, <2>2
<1>7. 1 \in 1..Len(s) /\ f.next > Len(s) + 1
  BY <1>1, <1>2, <1>4
<1>8. FieldsFrom(s)[1] = Broken(<<f>>)
  BY <1>2, <1>4, <1>7, AtField DEF f
<1> QED  BY <1>2, <1>4, <1>6, <1>8 DEF Fields, f, s, h

\* A body of two or three fields.
Field(f, num, wire, val) == f.num = num /\ f.wire = wire /\ f.val = val

LEMMA TwoFields ==
  ASSUME NEW t \in Bytes, NEW q \in Nat, NEW f, NEW g,
         f = FieldAt(t, 1), f.ok, f.next = q, f.wire \in {0, 2},
         g = FieldAt(t, q), g.ok, g.next = Len(t) + 1, g.wire \in {0, 2}
  PROVE  Fields(t) = Ended(<<f, g>>)
<1>1. Len(t) \in Nat /\ q > 1
  BY FieldAtNext, BytesAre
<1>2. Len(t) + 1 > q
  BY <1>1, FieldAtNext
<1>3. q \in 1..Len(t) /\ 1 \in 1..Len(t) /\ Len(t) + 1 <= Len(t) + 1 /\ q <= Len(t) + 1
  BY <1>1, <1>2
<1>5. FieldsFrom(t)[q] = Ended(<<g>>)
  BY <1>3, AtLastField
<1>6. <<f>> \o <<g>> = <<f, g>>
  BY Tuples
<1>7. FieldsFrom(t)[1] = Ended(<<f>> \o <<g>>)
  BY <1>3, <1>5, <1>6, AtField
<1> QED  BY <1>6, <1>7 DEF Fields

LEMMA ThreeFields ==
  ASSUME NEW t \in Bytes, NEW q \in Nat, NEW r \in Nat, NEW f, NEW g, NEW h,
         f = FieldAt(t, 1), f.ok, f.next = q, f.wire \in {0, 2},
         g = FieldAt(t, q), g.ok, g.next = r, g.wire \in {0, 2},
         h = FieldAt(t, r), h.ok, h.next = Len(t) + 1, h.wire \in {0, 2}
  PROVE  Fields(t) = Ended(<<f, g, h>>)
<1>1. Len(t) \in Nat /\ q > 1
  BY FieldAtNext, BytesAre
<1>2. r > q
  BY <1>1, FieldAtNext
<1>3. Len(t) + 1 > r
  BY <1>1, <1>2, FieldAtNext
<1>4. /\ r \in 1..Len(t) /\ q \in 1..Len(t) /\ 1 \in 1..Len(t)
      /\ Len(t) + 1 <= Len(t) + 1 /\ q <= Len(t) + 1 /\ r <= Len(t) + 1
  BY <1>1, <1>2, <1>3
<1>6. FieldsFrom(t)[r] = Ended(<<h>>)
  BY <1>4, AtLastField
<1>7. <<g>> \o <<h>> = <<g, h>> /\ <<f>> \o <<g, h>> = <<f, g, h>>
  BY Tuples
<1>8. FieldsFrom(t)[q] = Ended(<<g>> \o <<h>>)
  BY <1>4, <1>6, <1>7, AtField
<1>9. FieldsFrom(t)[f.next] = Ended(<<g, h>>) /\ f.next <= Len(t) + 1
  BY <1>4, <1>7, <1>8
<1>10. FieldsFrom(t)[1] = Ended(<<f>> \o <<g, h>>)
  BY <1>4, <1>9, AtField
<1> QED  BY <1>7, <1>10 DEF Fields

\* Where the parts of a message lie.
LEMMA Parts ==
  ASSUME NEW a \in Bytes, NEW b \in Bytes
  PROVE  LET t == a \o b
         IN /\ t \in Bytes /\ Len(a) \in Nat /\ Len(b) \in Nat /\ Len(t) = Len(a) + Len(b)
            /\ Holds(t, 1, a) /\ Holds(t, 1 + Len(a), b)
<1> DEFINE t == a \o b
<1>1. a \in Seq(0..255) /\ b \in Seq(0..255)
  BY DEF Bytes
<1>2. t \in Seq(0..255) /\ Len(t) = Len(a) + Len(b)
  BY <1>1, ConcatProperties
<1>3. t \in Bytes /\ Len(a) \in Nat /\ Len(b) \in Nat /\ Len(t) \in Nat
  BY <1>2, BytesAre DEF Bytes
<1>4. Holds(t, 1, t)
  BY <1>3, HoldsSelf
<1>5. Holds(t, 1, a) /\ Holds(t, 1 + Len(a), b)
  <2>1. Holds(t, 1, a \o b)
    BY <1>4
  <2> HIDE DEF t
  <2> QED  BY <1>3, <2>1, HoldsConcat
<1> QED  BY <1>2, <1>3, <1>5

LEMMA PartsOfThree ==
  ASSUME NEW a \in Bytes, NEW b \in Bytes, NEW c \in Bytes
  PROVE  LET t == a \o b \o c
         IN /\ t \in Bytes /\ Len(a) \in Nat /\ Len(b) \in Nat /\ Len(c) \in Nat
            /\ Len(t) = Len(a) + Len(b) + Len(c)
            /\ Holds(t, 1, a) /\ Holds(t, 1 + Len(a), b) /\ Holds(t, 1 + Len(a) + Len(b), c)
<1> DEFINE u == a \o b
           t == u \o c
<1>1. u \in Bytes /\ Len(a) \in Nat /\ Len(b) \in Nat /\ Len(u) = Len(a) + Len(b)
  BY Parts
<1>2. /\ t \in Bytes /\ Len(c) \in Nat /\ Len(t) = Len(u) + Len(c)
      /\ Holds(t, 1, u) /\ Holds(t, 1 + Len(u), c)
  BY <1>1, Parts
<1>3. Holds(t, 1, a) /\ Holds(t, 1 + Len(a), b)
  <2>1. Holds(t, 1, a \o b) /\ t \in Bytes /\ Len(t) \in Nat
    BY <1>2, BytesAre
  <2> HIDE DEF t
  <2> QED  BY <2>1, HoldsConcat
<1>4. 1 + Len(u) = 1 + Len(a) + Len(b)
  BY <1>1
<1> QED  BY <1>1, <1>2, <1>3, <1>4

\* No byte of it ends a C string.
Unbroken(t) == \A k \in 1..Len(t) : t[k] > 0

LEMMA UnbrokenConcat ==
  ASSUME NEW a \in Bytes, NEW b \in Bytes, Unbroken(a), Unbroken(b)
  PROVE  Unbroken(a \o b)
<1> DEFINE t == a \o b
<1>1. t \in Bytes /\ Len(a) \in Nat /\ Len(b) \in Nat /\ Len(t) = Len(a) + Len(b)
      /\ Holds(t, 1, a) /\ Holds(t, 1 + Len(a), b)
  BY Parts
<1> HIDE DEF t
<1>2. ASSUME NEW k \in 1..Len(t) PROVE t[k] > 0
  <2>1. CASE k <= Len(a)
    <3>1. k \in 1..Len(a) /\ 1 + (k - 1) = k
      BY <1>1, <2>1
    <3>2. t[1 + (k - 1)] = a[k]
      BY <1>1, <3>1 DEF Holds
    <3> QED  BY <3>1, <3>2 DEF Unbroken
  <2>2. CASE k > Len(a)
    <3> DEFINE j == k - Len(a)
    <3>1. j \in 1..Len(b) /\ 1 + Len(a) + (j - 1) = k
      BY <1>1, <2>2
    <3> HIDE DEF j
    <3>2. t[1 + Len(a) + (j - 1)] = b[j]
      BY <1>1, <3>1 DEF Holds
    <3> QED  BY <3>1, <3>2 DEF Unbroken
  <2> QED  BY <1>1, <2>1, <2>2
<1> QED  BY <1>2 DEF Unbroken, t

LEMMA VarintFieldIs ==
  ASSUME NEW num \in 1..15, NEW n \in Number
  PROVE  /\ VarintField(num, n) \in Bytes
         /\ n > 0 => Unbroken(VarintField(num, n))
<1> DEFINE a == <<8 * num>>
           v == Varint(n)
<1>1. a \in Bytes /\ Unbroken(a)
  BY DEF Bytes, Unbroken
<1>2. v \in Bytes /\ (n > 0 => Unbroken(v))
  BY VarintBytes DEF Unbroken
<1>3. VarintField(num, n) = a \o v
  BY DEF VarintField
<1> HIDE DEF a, v
<1> QED  BY <1>1, <1>2, <1>3, Parts, UnbrokenConcat

LEMMA BytesFieldIs ==
  ASSUME NEW num \in 1..15, NEW t \in Bytes, Len(t) \in Number
  PROVE  /\ BytesField(num, t) \in Bytes
         /\ t # <<>> /\ Unbroken(t) => Unbroken(BytesField(num, t))
<1> DEFINE h == Prefix(num, Len(t))
<1>1. h \in Bytes /\ (Len(t) > 0 => Unbroken(h)) /\ BytesField(num, t) = h \o t
  BY PrefixIs DEF Unbroken
<1>2. t # <<>> => Len(t) > 0
  BY BytesAre DEF Bytes
<1> HIDE DEF h
<1> QED  BY <1>1, <1>2, Parts, UnbrokenConcat

\* The body of a request, and that of a response of either kind, without and with
\* a date: last is what follows the second field.
LEMMA RequestBody ==
  ASSUME NEW id \in Number, NEW e \in Bytes, Len(e) \in Number,
         NEW w \in Bytes, Len(w) \in Number
  PROVE  LET t == VarintField(1, id) \o BytesField(2, e) \o BytesField(3, w)
         IN /\ t \in Bytes
            /\ \E f, g, h : /\ Fields(t) = Ended(<<f, g, h>>)
                            /\ Field(f, 1, 0, id) /\ Field(g, 2, 2, e) /\ Field(h, 3, 2, w)
<1> DEFINE x == VarintField(1, id)
           y == BytesField(2, e)
           z == BytesField(3, w)
           t == x \o y \o z
           a == Len(x)
           b == Len(y)
<1>1. x \in Bytes /\ y \in Bytes /\ z \in Bytes
  BY VarintFieldIs, BytesFieldIs
<1>2. /\ t \in Bytes /\ a \in Nat /\ b \in Nat /\ Len(z) \in Nat /\ Len(t) = a + b + Len(z)
      /\ Holds(t, 1, x) /\ Holds(t, 1 + a, y) /\ Holds(t, 1 + a + b, z)
  <2> HIDE DEF x, y, z
  <2> QED  BY <1>1, PartsOfThree
<1> DEFINE q == 1 + a
           r == 1 + a + b
           two == 2
           three == 3
           c == Len(z)
<1>3. /\ Holds(t, 1, VarintField(1, id)) /\ a = Len(VarintField(1, id))
      /\ Holds(t, q, BytesField(two, e)) /\ b = Len(BytesField(two, e))
      /\ Holds(t, r, BytesField(three, w)) /\ c = Len(BytesField(three, w))
  BY <1>2
<1>4. q = 1 + a /\ r = q + b /\ r + c = Len(t) + 1
  BY <1>2
<1>5. q \in Nat \ {0} /\ r \in Nat \ {0} /\ two \in 1..15 /\ three \in 1..15
  BY <1>2
<1> HIDE DEF x, y, z, t, a, b, q, r, two, three, c
<1>6. t \in Bytes /\ 1 \in Nat \ {0} /\ 1 \in 1..15
  BY <1>2
<1>7. FieldAt(t, 1).ok /\ Field(FieldAt(t, 1), 1, 0, id) /\ FieldAt(t, 1).next = q
  <2>1. /\ FieldAt(t, 1).ok /\ FieldAt(t, 1).num = 1 /\ FieldAt(t, 1).wire = 0
        /\ FieldAt(t, 1).val = id /\ FieldAt(t, 1).next = 1 + a
    BY <1>3, <1>6, VarintFieldAt, SMTT(30)
  <2> QED  BY <1>4, <2>1 DEF Field
<1>8. FieldAt(t, q).ok /\ Field(FieldAt(t, q), 2, 2, e) /\ FieldAt(t, q).next = r
  <2>1. /\ Holds(t, q, BytesField(two, e)) /\ t \in Bytes /\ q \in Nat \ {0}
        /\ b = Len(BytesField(two, e)) /\ two \in 1..15
    BY <1>3, <1>5, <1>6
  <2>2. /\ FieldAt(t, q).ok /\ FieldAt(t, q).num = two /\ FieldAt(t, q).wire = 2
        /\ FieldAt(t, q).val = e /\ FieldAt(t, q).next = q + b
    BY <2>1, WholeFieldAt, SMTT(30)
  <2> QED  BY <1>4, <2>2 DEF Field, two
<1>9. FieldAt(t, r).ok /\ Field(FieldAt(t, r), 3, 2, w) /\ FieldAt(t, r).next = Len(t) + 1
  <2>1. /\ Holds(t, r, BytesField(three, w)) /\ t \in Bytes /\ r \in Nat \ {0}
        /\ c = Len(BytesField(three, w)) /\ three \in 1..15
    BY <1>3, <1>5, <1>6
  <2>2. /\ FieldAt(t, r).ok /\ FieldAt(t, r).num = three /\ FieldAt(t, r).wire = 2
        /\ FieldAt(t, r).val = w /\ FieldAt(t, r).next = r + c
    BY <2>1, WholeFieldAt, SMTT(30)
  <2> QED  BY <1>4, <2>2 DEF Field, three
<1> DEFINE f == FieldAt(t, 1)
           g == FieldAt(t, q)
           h == FieldAt(t, r)
<1>10. /\ f = FieldAt(t, 1) /\ g = FieldAt(t, q) /\ h = FieldAt(t, r)
      /\ f.ok /\ f.next = q /\ g.ok /\ g.next = r /\ h.ok /\ h.next = Len(t) + 1
      /\ Field(f, 1, 0, id) /\ Field(g, 2, 2, e) /\ Field(h, 3, 2, w)
  BY <1>7, <1>8, <1>9
<1> HIDE DEF f, g, h
<1>11. Fields(t) = Ended(<<f, g, h>>)
  <2>1. f.wire \in {0, 2} /\ g.wire \in {0, 2} /\ h.wire \in {0, 2}
    BY <1>10 DEF Field
  <2> QED  BY <1>5, <1>6, <1>10, <2>1, ThreeFields
<1> QED  BY <1>6, <1>10, <1>11 DEF t, x, y, z
-----------------------------------------------------------------------------
(* What is taken from the fields.                                          *)

LEMMA OneIs ==
  ASSUME NEW n \in Int
  PROVE  Max({n}) = n /\ Min({n}) = n
<1> DEFINE S == {n}
<1>1. S \subseteq Int /\ n \in S /\ (\A x \in S : x <= n) /\ (\A x \in S : n <= x)
  OBVIOUS
<1> HIDE DEF S
<1>2. Max(S) = n /\ Min(S) = n
  BY <1>1, MaxIs, MinIs
<1> QED  BY <1>2 DEF S

LEMMA LastOfOne ==
  ASSUME NEW fs, NEW num, NEW wire, NEW k \in Int, Select(fs, num, wire) = {k}
  PROVE  \A default : LastOf(fs, num, wire, default) = fs[k].val
<1>1. Max({k}) = k
  BY OneIs
<1> QED  BY <1>1 DEF LastOf

\* The body of a request has what Initialized and Command look for.
LEMMA ThreeOf ==
  ASSUME NEW f, NEW g, NEW h, NEW a, NEW b, NEW c,
         Field(f, 1, 0, a), Field(g, 2, 2, b), Field(h, 3, 2, c)
  PROVE  /\ Initialized(<<f, g, h>>)
         /\ VarintOf(<<f, g, h>>, 1) = a
         /\ BytesOf(<<f, g, h>>, 2) = b /\ BytesOf(<<f, g, h>>, 3) = c
<1> DEFINE fs == <<f, g, h>>
<1>1. DOMAIN fs = 1..3 /\ fs[1] = f /\ fs[2] = g /\ fs[3] = h
  OBVIOUS
<1> HIDE DEF fs
<1>2. /\ fs[1].num = 1 /\ fs[1].wire = 0 /\ fs[1].val = a
      /\ fs[2].num = 2 /\ fs[2].wire = 2 /\ fs[2].val = b
      /\ fs[3].num = 3 /\ fs[3].wire = 2 /\ fs[3].val = c
  BY <1>1 DEF Field
<1>3. Select(fs, 1, 0) = {1} /\ Select(fs, 2, 2) = {2} /\ Select(fs, 3, 2) = {3}
  <2>1. \A j \in 1..3 : j = 1 \/ j = 2 \/ j = 3
    OBVIOUS
  <2> QED  BY <1>1, <1>2, <2>1 DEF Select
<1>4. LastOf(fs, 1, 0, 0) = a
  BY <1>2, <1>3, LastOfOne
<1>5. LastOf(fs, 2, 2, <<>>) = b
  BY <1>2, <1>3, LastOfOne
<1>6. LastOf(fs, 3, 2, <<>>) = c
  BY <1>2, <1>3, LastOfOne
<1>7. Initialized(fs)
  BY <1>3 DEF Initialized
<1> QED  BY <1>4, <1>5, <1>6, <1>7 DEF fs, VarintOf, BytesOf

\* The body of a response, without and with a date, has the value where
\* ReceiveFromServer looks for it.
LEMMA PairBody ==
  ASSUME NEW id \in Number, NEW v \in Number
  PROVE  LET t == VarintField(1, id) \o VarintField(2, v)
         IN t \in Bytes /\ VarintOf(Fields(t).fields, 2) = v
<1> DEFINE x == VarintField(1, id)
           y == VarintField(2, v)
           t == x \o y
           a == Len(x)
           b == Len(y)
           q == 1 + a
           two == 2
<1>1. x \in Bytes /\ y \in Bytes
  BY VarintFieldIs
<1>2. /\ t \in Bytes /\ a \in Nat /\ b \in Nat /\ Len(t) = a + b
      /\ Holds(t, 1, x) /\ Holds(t, 1 + a, y)
  <2> HIDE DEF x, y
  <2> QED  BY <1>1, Parts
<1> HIDE DEF t, a, b
<1>3. q \in Nat \ {0} /\ two \in 1..15 /\ q + b = Len(t) + 1 /\ q = 1 + a
  BY <1>2
<1>4. /\ Holds(t, 1, VarintField(1, id)) /\ a = Len(VarintField(1, id))
      /\ Holds(t, q, VarintField(two, v)) /\ b = Len(VarintField(two, v))
  BY <1>2 DEF a, b
<1> HIDE DEF x, y, q, two
<1>5. t \in Bytes /\ 1 \in Nat \ {0} /\ 1 \in 1..15
  BY <1>2
<1>6. FieldAt(t, 1).ok /\ Field(FieldAt(t, 1), 1, 0, id) /\ FieldAt(t, 1).next = q
  <2>1. /\ FieldAt(t, 1).ok /\ FieldAt(t, 1).num = 1 /\ FieldAt(t, 1).wire = 0
        /\ FieldAt(t, 1).val = id /\ FieldAt(t, 1).next = 1 + a
    BY <1>4, <1>5, VarintFieldAt, SMTT(30)
  <2> QED  BY <1>3, <2>1 DEF Field
<1>7. FieldAt(t, q).ok /\ Field(FieldAt(t, q), 2, 0, v) /\ FieldAt(t, q).next = Len(t) + 1
  <2>1. /\ Holds(t, q, VarintField(two, v)) /\ t \in Bytes /\ q \in Nat \ {0}
        /\ b = Len(VarintField(two, v)) /\ two \in 1..15
    BY <1>3, <1>4, <1>5
  <2>2. /\ FieldAt(t, q).ok /\ FieldAt(t, q).num = two /\ FieldAt(t, q).wire = 0
        /\ FieldAt(t, q).val = v /\ FieldAt(t, q).next = q + b
    BY <2>1, VarintFieldAt, SMTT(30)
  <2> QED  BY <1>3, <2>2 DEF Field, two
<1> DEFINE f == FieldAt(t, 1)
           g == FieldAt(t, q)
<1>8. /\ f = FieldAt(t, 1) /\ g = FieldAt(t, q)
      /\ f.ok /\ f.next = q /\ g.ok /\ g.next = Len(t) + 1
      /\ Field(f, 1, 0, id) /\ Field(g, 2, 0, v) /\ q \in Nat
  BY <1>3, <1>6, <1>7
<1> HIDE DEF f, g
<1>9. Fields(t) = Ended(<<f, g>>)
  <2>1. f.wire \in {0, 2} /\ g.wire \in {0, 2}
    BY <1>8 DEF Field
  <2> QED  BY <1>5, <1>8, <2>1, TwoFields
<1>10. VarintOf(<<f, g>>, 2) = v
  <2> DEFINE fs == <<f, g>>
  <2>1. DOMAIN fs = 1..2 /\ fs[1] = f /\ fs[2] = g
    OBVIOUS
  <2> HIDE DEF fs
  <2>2. Select(fs, 2, 0) = {2}
    <3>1. \A j \in 1..2 : j = 1 \/ j = 2
      OBVIOUS
    <3>2. fs[1].num = 1 /\ fs[2].num = 2 /\ fs[2].wire = 0
      BY <1>8, <2>1 DEF Field
    <3> QED  BY <2>1, <3>1, <3>2 DEF Select
  <2>3. fs[2].val = v
    BY <1>8, <2>1 DEF Field
  <2>4. LastOf(fs, 2, 0, 0) = v
    BY <2>2, <2>3, LastOfOne
  <2> QED  BY <2>4 DEF fs, VarintOf
<1> QED  BY <1>5, <1>9, <1>10 DEF t, x, y, Ended

LEMMA DatedBody ==
  ASSUME NEW id \in Number, NEW v \in Number, NEW d \in Bytes, Len(d) \in Number
  PROVE  LET t == VarintField(1, id) \o VarintField(2, v) \o BytesField(3, d)
         IN t \in Bytes /\ VarintOf(Fields(t).fields, 2) = v
<1> DEFINE x == VarintField(1, id)
           y == VarintField(2, v)
           z == BytesField(3, d)
           t == x \o y \o z
           a == Len(x)
           b == Len(y)
           c == Len(z)
           q == 1 + a
           r == 1 + a + b
           two == 2
           three == 3
<1>1. x \in Bytes /\ y \in Bytes /\ z \in Bytes
  BY VarintFieldIs, BytesFieldIs
<1>2. /\ t \in Bytes /\ a \in Nat /\ b \in Nat /\ c \in Nat /\ Len(t) = a + b + c
      /\ Holds(t, 1, x) /\ Holds(t, 1 + a, y) /\ Holds(t, 1 + a + b, z)
  <2> HIDE DEF x, y, z
  <2> QED  BY <1>1, PartsOfThree
<1> HIDE DEF t, a, b, c
<1>3. /\ q \in Nat \ {0} /\ r \in Nat \ {0} /\ two \in 1..15 /\ three \in 1..15
      /\ q = 1 + a /\ r = q + b /\ r + c = Len(t) + 1
  BY <1>2
<1>4. /\ Holds(t, 1, VarintField(1, id)) /\ a = Len(VarintField(1, id))
      /\ Holds(t, q, VarintField(two, v)) /\ b = Len(VarintField(two, v))
      /\ Holds(t, r, BytesField(three, d)) /\ c = Len(BytesField(three, d))
  BY <1>2 DEF a, b, c
<1> HIDE DEF x, y, z, q, r, two, three
<1>5. t \in Bytes /\ 1 \in Nat \ {0} /\ 1 \in 1..15
  BY <1>2
<1>6. FieldAt(t, 1).ok /\ Field(FieldAt(t, 1), 1, 0, id) /\ FieldAt(t, 1).next = q
  <2>1. /\ FieldAt(t, 1).ok /\ FieldAt(t, 1).num = 1 /\ FieldAt(t, 1).wire = 0
        /\ FieldAt(t, 1).val = id /\ FieldAt(t, 1).next = 1 + a
    BY <1>4, <1>5, VarintFieldAt, SMTT(30)
  <2> QED  BY <1>3, <2>1 DEF Field
<1>7. FieldAt(t, q).ok /\ Field(FieldAt(t, q), 2, 0, v) /\ FieldAt(t, q).next = r
  <2>1. /\ Holds(t, q, VarintField(two, v)) /\ t \in Bytes /\ q \in Nat \ {0}
        /\ b = Len(VarintField(two, v)) /\ two \in 1..15
    BY <1>3, <1>4, <1>5
  <2>2. /\ FieldAt(t, q).ok /\ FieldAt(t, q).num = two /\ FieldAt(t, q).wire = 0
        /\ FieldAt(t, q).val = v /\ FieldAt(t, q).next = q + b
    BY <2>1, VarintFieldAt, SMTT(30)
  <2> QED  BY <1>3, <2>2 DEF Field, two
<1>8. FieldAt(t, r).ok /\ Field(FieldAt(t, r), 3, 2, d) /\ FieldAt(t, r).next = Len(t) + 1
  <2>1. /\ Holds(t, r, BytesField(three, d)) /\ t \in Bytes /\ r \in Nat \ {0}
        /\ c = Len(BytesField(three, d)) /\ three \in 1..15
    BY <1>3, <1>4, <1>5
  <2>2. /\ FieldAt(t, r).ok /\ FieldAt(t, r).num = three /\ FieldAt(t, r).wire = 2
        /\ FieldAt(t, r).val = d /\ FieldAt(t, r).next = r + c
    BY <2>1, WholeFieldAt, SMTT(30)
  <2> QED  BY <1>3, <2>2 DEF Field, three
<1> DEFINE f == FieldAt(t, 1)
           g == FieldAt(t, q)
           h == FieldAt(t, r)
<1>9. /\ f = FieldAt(t, 1) /\ g = FieldAt(t, q) /\ h = FieldAt(t, r)
      /\ f.ok /\ f.next = q /\ g.ok /\ g.next = r /\ h.ok /\ h.next = Len(t) + 1
      /\ Field(f, 1, 0, id) /\ Field(g, 2, 0, v) /\ Field(h, 3, 2, d)
      /\ q \in Nat /\ r \in Nat
  BY <1>3, <1>6, <1>7, <1>8
<1> HIDE DEF f, g, h
<1>10. Fields(t) = Ended(<<f, g, h>>)
  <2>1. f.wire \in {0, 2} /\ g.wire \in {0, 2} /\ h.wire \in {0, 2}
    BY <1>9 DEF Field
  <2> QED  BY <1>5, <1>9, <2>1, ThreeFields
<1>11. VarintOf(<<f, g, h>>, 2) = v
  <2> DEFINE fs == <<f, g, h>>
  <2>1. DOMAIN fs = 1..3 /\ fs[1] = f /\ fs[2] = g /\ fs[3] = h
    OBVIOUS
  <2> HIDE DEF fs
  <2>2. Select(fs, 2, 0) = {2}
    <3>1. \A j \in 1..3 : j = 1 \/ j = 2 \/ j = 3
      OBVIOUS
    <3>2. fs[1].num = 1 /\ fs[2].num = 2 /\ fs[2].wire = 0 /\ fs[3].num = 3
      BY <1>9, <2>1 DEF Field
    <3> QED  BY <2>1, <3>1, <3>2 DEF Select
  <2>3. fs[2].val = v
    BY <1>9, <2>1 DEF Field
  <2>4. LastOf(fs, 2, 0, 0) = v
    BY <2>2, <2>3, LastOfOne
  <2> QED  BY <2>4 DEF fs, VarintOf
<1> QED  BY <1>5, <1>10, <1>11 DEF t, x, y, z, Ended

\* What is left of a body that ends with the tag of a zero id or of a zero value:
\* no value.
LEMMA NoBody ==
  LET t == <<8>> IN t \in Bytes /\ VarintOf(Fields(t).fields, 2) = 0
<1> DEFINE t == <<8>>
           num == 1
<1>1. t \in Bytes /\ Len(t) = 1 /\ t[1] = 8 * num /\ num \in 1..15
  BY DEF Bytes
<1> HIDE DEF t, num
<1>2. FieldsFrom(t)[Len(t)] = Broken(<<>>)
  <2>1. Len(t) > 0 /\ t[Len(t)] = 8 * num
    BY <1>1
  <2> QED  BY <1>1, <2>1, TagAlone
<1>3. Fields(t).fields = <<>>
  BY <1>1, <1>2 DEF Fields, Broken
<1>4. Select(<<>>, 2, 0) = {}
  BY DEF Select
<1> QED  BY <1>1, <1>3, <1>4 DEF t, VarintOf, LastOf

LEMMA HalfBody ==
  ASSUME NEW id \in Number
  PROVE  LET t == VarintField(1, id) \o <<16>>
         IN t \in Bytes /\ VarintOf(Fields(t).fields, 2) = 0
<1> DEFINE x == VarintField(1, id)
           y == <<16>>
           t == x \o y
           a == Len(x)
           q == 1 + a
           num == 2
<1>1. x \in Bytes /\ y \in Bytes /\ Len(y) = 1 /\ y[1] = 8 * num
  BY VarintFieldIs DEF Bytes
<1>2. /\ t \in Bytes /\ a \in Nat /\ Len(t) = a + 1
      /\ Holds(t, 1, x) /\ Holds(t, 1 + a, y)
  <2> HIDE DEF x, y
  <2> QED  BY <1>1, Parts
<1> HIDE DEF t, a, y
<1>3. q \in Nat \ {0} /\ q = Len(t) /\ Len(t) > 0 /\ num \in 1..15 /\ t[q] = 8 * num
  <2>1. t[1 + a + (1 - 1)] = y[1]
    BY <1>1, <1>2 DEF Holds
  <2> QED  BY <1>1, <1>2, <2>1
<1>4. Holds(t, 1, VarintField(1, id)) /\ a = Len(VarintField(1, id)) /\ q = 1 + a
  BY <1>2 DEF a
<1> HIDE DEF x, q, num
<1>5. t \in Bytes /\ 1 \in Nat \ {0} /\ 1 \in 1..15
  BY <1>2
<1>6. /\ FieldAt(t, 1).ok /\ FieldAt(t, 1).num = 1 /\ FieldAt(t, 1).next = q
      /\ FieldAt(t, 1).wire \in {0, 2}
  <2>1. /\ FieldAt(t, 1).ok /\ FieldAt(t, 1).num = 1 /\ FieldAt(t, 1).wire = 0
        /\ FieldAt(t, 1).val = id /\ FieldAt(t, 1).next = 1 + a
    BY <1>4, <1>5, VarintFieldAt, SMTT(30)
  <2> QED  BY <1>4, <2>1
<1>7. FieldsFrom(t)[q] = Broken(<<>>)
  BY <1>3, <1>5, TagAlone
<1> DEFINE f == FieldAt(t, 1)
<1>8. /\ f = FieldAt(t, 1) /\ f.ok /\ f.num = 1 /\ f.wire \in {0, 2}
      /\ f.next = q /\ f.next <= Len(t) + 1 /\ 1 \in 1..Len(t)
  BY <1>3, <1>6
<1> HIDE DEF f
<1> DEFINE rest == <<>>
<1>9. FieldsFrom(t)[f.next] = Broken(rest)
  BY <1>7, <1>8
<1>10. FieldsFrom(t)[1] = Broken(<<f>> \o rest)
  <2> HIDE DEF rest
  <2>1. /\ t \in Bytes /\ 1 \in 1..Len(t) /\ f = FieldAt(t, 1) /\ f.ok /\ f.wire \in {0, 2}
        /\ f.next <= Len(t) + 1 /\ FieldsFrom(t)[f.next] = Broken(rest)
    BY <1>5, <1>8, <1>9
  <2> QED  BY <2>1, AtField
<1>11. Fields(t).fields = <<f>>
  <2>1. <<f>> \o rest = <<f>>
    BY Tuples
  <2> QED  BY <1>10, <2>1 DEF Fields, Broken
<1>12. Select(<<f>>, 2, 0) = {}
  BY <1>8 DEF Select
<1> QED  BY <1>5, <1>11, <1>12 DEF t, x, y, VarintOf, LastOf

LEMMA SelectHere ==
  ASSUME NEW f, NEW num, NEW wire
  PROVE  /\ f.num = num /\ f.wire = wire => Select(<<f>>, num, wire) = {1}
         /\ f.num # num => Select(<<f>>, num, wire) = {}
<1> DEFINE fs == <<f>>
<1>1. DOMAIN fs = {1} /\ fs[1] = f
  OBVIOUS
<1> HIDE DEF fs
<1>2. Select(fs, num, wire) = {n \in {1} : fs[n].num = num /\ fs[n].wire = wire}
  BY <1>1 DEF Select
<1>3. \A n \in {1} : n = 1
  OBVIOUS
<1> QED  BY <1>1, <1>2, <1>3 DEF fs

\* What a command has, from the fields of its element.
Taken(cmd, fields) ==
  [cmd |-> cmd, id |-> VarintOf(fields, 1),
   text |-> [email |-> BytesOf(fields, 2), passwd |-> BytesOf(fields, 3)]]

LEMMA CommandIs ==
  ASSUME NEW cmd, NEW top, NEW num
  PROVE  /\ Select(top.fields, num, 2) = {1} =>
              Command(cmd, top, num) = <<Taken(cmd, Inner(top, 1).fields)>>
         /\ Select(top.fields, num, 2) = {} => Command(cmd, top, num) = <<>>
<1>1. Min({1}) = 1
  BY OneIs
<1> QED  BY <1>1 DEF Command, Taken

\* A request that parses, with its one element.
LEMMA CommandsOfOne ==
  ASSUME NEW f, NEW fs, f.num \in {CreateAccField, AuthenField}, f.wire = 2,
         Fields(f.val) = Ended(fs), Initialized(fs)
  PROVE  CommandsOf(Ended(<<f>>)) =
           <<Taken(IF f.num = CreateAccField THEN "CREATEACCOUNT" ELSE "LOGIN", fs)>>
<1> DEFINE top == Ended(<<f>>)
           login == Command("LOGIN", top, AuthenField)
           create == Command("CREATEACCOUNT", top, CreateAccField)
<1>1. top.ok /\ top.fields = <<f>>
  BY DEF Ended
<1>2. Inner(top, 1).ok /\ Inner(top, 1).fields = fs
  <2>1. Inner(top, 1) = Ended(fs)
    BY <1>1 DEF Inner
  <2> QED  BY <2>1 DEF Ended
<1> HIDE DEF top
<1>3. AuthenField # CreateAccField
  BY DEF AuthenField, CreateAccField
<1>4. /\ f.num = AuthenField => Select(top.fields, AuthenField, 2) = {1}
      /\ f.num # AuthenField => Select(top.fields, AuthenField, 2) = {}
      /\ f.num = CreateAccField => Select(top.fields, CreateAccField, 2) = {1}
      /\ f.num # CreateAccField => Select(top.fields, CreateAccField, 2) = {}
  BY <1>1, SelectHere
<1>5. Elements(top, {CreateAccField, AuthenField}) \subseteq {1}
  BY <1>4 DEF Elements
<1>6. CommandsOf(top) = login \o create
  <2>1. \A n \in Elements(top, {CreateAccField, AuthenField}) :
          Inner(top, n).ok /\ Initialized(Inner(top, n).fields)
    BY <1>2, <1>5
  <2> QED  BY <1>1, <2>1 DEF CommandsOf
<1>7. CASE f.num = AuthenField
  <2>1. login = <<Taken("LOGIN", fs)>> /\ create = <<>>
    BY <1>2, <1>3, <1>4, <1>7, CommandIs
  <2> HIDE DEF login, create
  <2> QED  BY <1>3, <1>6, <1>7, <2>1, Tuples DEF top
<1>8. CASE f.num = CreateAccField
  <2>1. login = <<>> /\ create = <<Taken("CREATEACCOUNT", fs)>>
    BY <1>2, <1>3, <1>4, <1>8, CommandIs
  <2>2. <<>> \o create = create
    BY <2>1, ConcatEmptySeq
  <2> HIDE DEF login, create
  <2> QED  BY <1>6, <1>8, <2>1, <2>2 DEF top
<1> QED  BY <1>7, <1>8

\* The response ReceiveFromServer finds, whole or not, with its one element.
LEMMA ResponseOfOne ==
  ASSUME NEW top, NEW f, top.fields = <<f>>, f.num \in Kind, f.wire = 2
  PROVE  ResponseOf(top) = [kind |-> f.num, val |-> VarintOf(Fields(f.val).fields, 2)]
<1> DEFINE met == Met(top, Kind)
           nums == {top.fields[n].num : n \in met}
           at == {n \in met : top.fields[n].num = Min(nums)}
<1>1. top.fields[1] = f
  OBVIOUS
<1>2. Elements(top, Kind) = {1}
  <2>1. Select(top.fields, f.num, 2) = {1}
    BY SelectHere
  <2>2. \A num \in Kind : Select(top.fields, num, 2) \subseteq {1}
    BY SelectHere
  <2> QED  BY <2>1, <2>2 DEF Elements
<1>3. met = {1}
  BY <1>2 DEF Met
<1> HIDE DEF met
<1>4. nums = {f.num} /\ f.num \in Int
  BY <1>1, <1>3 DEF Kind, AuthSuccess, CreateFail
<1>5. Min(nums) = f.num
  BY <1>4, OneIs
<1>6. at = {1} /\ Min(at) = 1
  <2>1. at = {1}
    BY <1>1, <1>3, <1>5
  <2> HIDE DEF at
  <2> QED  BY <2>1, OneIs
<1>7. ResponseOf(top) = IF met = {} THEN [kind |-> 0, val |-> 0]
                        ELSE [kind |-> Min(nums), val |-> VarintOf(Inner(top, Min(at)).fields, 2)]
  BY Zenon DEF ResponseOf, met
<1> HIDE DEF nums, at
<1> QED  BY <1>1, <1>3, <1>5, <1>6, <1>7 DEF Inner
-----------------------------------------------------------------------------
(* What is left of a message as a C string.                                *)

\* The C string where s begins is x.
Left(s, x) ==
  /\ x \in Bytes /\ Unbroken(x) /\ Holds(s, 1, x)
  /\ Len(x) < Len(s) => s[Len(x) + 1] = 0

LEMMA CStringIs ==
  ASSUME NEW b \in Bytes, NEW x, Left(b, x)
  PROVE  CString(b) = x
<1> DEFINE l == Len(x)
           zeros == {n \in DOMAIN b : b[n] = 0}
<1>1. /\ x \in Bytes /\ l \in Nat /\ Len(b) \in Nat /\ l <= Len(b) /\ DOMAIN b = 1..Len(b)
      /\ \A k \in 1..l : b[k] = x[k] /\ x[k] > 0
      /\ l < Len(b) => b[l + 1] = 0
  <2>1. x \in Bytes /\ Len(x) \in Nat /\ Len(b) \in Nat /\ DOMAIN b = 1..Len(b)
    BY BytesAre, LenProperties DEF Left, Bytes
  <2>2. 1 + Len(x) <= Len(b) + 1 /\ \A k \in 1..Len(x) : b[1 + (k - 1)] = x[k] /\ x[k] > 0
    BY DEF Left, Holds, Unbroken
  <2>3. \A k \in 1..Len(x) : 1 + (k - 1) = k
    BY <2>1
  <2>4. l < Len(b) => b[l + 1] = 0
    BY DEF Left
  <2> QED  BY <2>1, <2>2, <2>3, <2>4
<1>2. CString(b) = IF zeros = {} THEN b ELSE SubSeq(b, 1, Min(zeros) - 1)
  BY DEF CString
<1> HIDE DEF l
<1>3. CASE l = Len(b)
  <2>1. zeros = {}
    BY <1>1, <1>3
  <2>2. b = x
    BY <1>1, <1>3, SeqEqual DEF l, Bytes
  <2> QED  BY <1>2, <2>1, <2>2
<1>4. CASE l < Len(b)
  <2>1. l + 1 \in zeros
    BY <1>1, <1>4
  <2>2. zeros \subseteq Int /\ \A n \in zeros : l + 1 <= n
    <3>1. ASSUME NEW n \in 1..Len(b), b[n] = 0 PROVE l + 1 <= n
      <4>1. ~ (n \in 1..l)
        BY <1>1, <3>1
      <4> QED  BY <1>1, <4>1
    <3> QED  BY <1>1, <3>1
  <2> HIDE DEF zeros
  <2>3. Min(zeros) = l + 1
    BY <2>1, <2>2, MinIs
  <2>4. Holds(b, 1, x) /\ 1 \in Nat \ {0}
    BY DEF Left
  <2>5. SubSeq(b, 1, 1 + Len(x) - 1) = x
    BY <1>1, <2>4, HeldIs
  <2>6. Min(zeros) - 1 = 1 + Len(x) - 1
    BY <1>1, <2>3 DEF l
  <2> DEFINE e == Min(zeros) - 1
             g == 1 + Len(x) - 1
  <2>7. CString(b) = SubSeq(b, 1, e) /\ SubSeq(b, 1, g) = x /\ e = g
    BY <1>2, <2>1, <2>5, <2>6
  <2> HIDE DEF e, g
  <2> QED  BY <2>7
<1>5. l = Len(b) \/ l < Len(b)
  <2>1. l \in Nat /\ Len(b) \in Nat /\ l <= Len(b)
    BY <1>1
  <2> QED  BY <2>1
<1> QED  BY <1>3, <1>4, <1>5

\* A message that holds no zero byte is left whole, one that holds one up to there.
LEMMA LeftWhole ==
  ASSUME NEW s \in Bytes, Unbroken(s)
  PROVE  Left(s, s)
BY HoldsSelf, BytesAre DEF Left

LEMMA LeftUpTo ==
  ASSUME NEW x \in Bytes, Unbroken(x), NEW rest \in Bytes
  PROVE  LET s == x \o <<0>> \o rest
         IN s \in Bytes /\ Left(s, x) /\ Len(x) < Len(s)
<1> DEFINE z == <<0>>
           s == x \o z \o rest
<1>1. z \in Bytes /\ Len(z) = 1 /\ z[1] = 0
  BY DEF Bytes
<1> HIDE DEF z
<1>2. /\ s \in Bytes /\ Len(x) \in Nat /\ Len(rest) \in Nat
      /\ Len(s) = Len(x) + Len(z) + Len(rest)
      /\ Holds(s, 1, x) /\ Holds(s, 1 + Len(x), z)
  BY <1>1, PartsOfThree
<1> HIDE DEF s
<1>3. s[Len(x) + 1] = 0
  <2>1. s[1 + Len(x) + (1 - 1)] = z[1]
    BY <1>1, <1>2 DEF Holds
  <2>2. 1 + Len(x) + (1 - 1) = Len(x) + 1
    BY <1>2
  <2> QED  BY <1>1, <2>1, <2>2
<1> QED  BY <1>1, <1>2, <1>3 DEF Left, s, z

\* What a buffer is read as that begins with a message.
LEMMA BufferIs ==
  ASSUME NEW b \in Bytes, NEW s \in Bytes, NEW x, Holds(b, 1, s), Left(s, x),
         Len(x) < Len(s) \/ Len(s) = Len(b) \/ b[Len(s) + 1] = 0
  PROVE  CString(b) = x
<1> DEFINE l == Len(x)
           n == Len(s)
<1>1. /\ x \in Bytes /\ l \in Nat /\ n \in Nat /\ Len(b) \in Nat
      /\ 1 + n <= Len(b) + 1 /\ 1 + l <= n + 1
      /\ \A k \in 1..n : b[1 + (k - 1)] = s[k]
      /\ \A k \in 1..l : s[1 + (k - 1)] = x[k]
      /\ l < n => s[l + 1] = 0
      /\ l < n \/ n = Len(b) \/ b[n + 1] = 0
  BY BytesAre DEF Left, Holds
<1>2. Unbroken(x)
  BY DEF Left
<1> HIDE DEF l, n
<1>3. \A k \in 1..n : b[k] = s[k]
  <2>1. \A k \in 1..n : 1 + (k - 1) = k
    BY <1>1
  <2> QED  BY <1>1, <2>1
<1>4. \A k \in 1..l : b[1 + (k - 1)] = x[k]
  <2>1. ASSUME NEW k \in 1..l PROVE k \in 1..n /\ 1 + (k - 1) = k
    BY <1>1
  <2> QED  BY <1>1, <1>3, <2>1
<1>5. Holds(b, 1, x)
  BY <1>1, <1>4 DEF Holds, l
<1>6. l < Len(b) => b[l + 1] = 0
  <2>1. CASE l < n
    <3>1. l + 1 \in 1..n
      BY <1>1, <2>1
    <3> QED  BY <1>1, <1>3, <2>1, <3>1
  <2>2. CASE l = n
    BY <1>1, <2>2
  <2> QED  BY <1>1, <2>1, <2>2
<1>7. Left(b, x)
  BY <1>1, <1>2, <1>5, <1>6 DEF Left, l
<1> QED  BY <1>7, CStringIs

-----------------------------------------------------------------------------
(* The messages.                                                           *)

\* The texts are strings.
LEMMA TextIs ==
  ASSUME NEW t \in Seq(TextByte)
  PROVE  t \in Bytes /\ Unbroken(t)
<1>1. TextByte \subseteq 0..255 /\ \A b \in TextByte : b > 0
  <2>1. ASSUME NEW b \in TextByte PROVE b \in 0..255 /\ b > 0
    <3>1. b \in 1..255
      BY DEF TextByte
    <3> QED  BY <3>1
  <2> QED  BY <2>1
<1>2. Len(t) \in Nat /\ \A k \in 1..Len(t) : t[k] \in TextByte
  BY ElementOfSeq, LenProperties
<1>3. t = [k \in 1..Len(t) |-> t[k]]
  BY LenProperties
<1> QED  BY <1>1, <1>2, <1>3 DEF Bytes, Unbroken

\* What a request is made of: the two texts are empty, or neither is.
LEMMA CredTexts ==
  ASSUME NEW cred \in Cred \cup {NoCred}
  PROVE  /\ Text[cred].email \in Bytes /\ Unbroken(Text[cred].email)
         /\ Text[cred].passwd \in Bytes /\ Unbroken(Text[cred].passwd)
         /\ Text[cred] = [email |-> Text[cred].email, passwd |-> Text[cred].passwd]
         /\ cred = NoCred => Text[cred].email = <<>>
         /\ cred # NoCred => Text[cred].email # <<>> /\ Text[cred].passwd # <<>>
<1>1. Text[cred] \in [email : Seq(TextByte), passwd : Seq(TextByte)]
  BY TextAssumption
<1>2. Text[cred].email \in Seq(TextByte) /\ Text[cred].passwd \in Seq(TextByte)
      /\ Text[cred] = [email |-> Text[cred].email, passwd |-> Text[cred].passwd]
  BY <1>1
<1>3. cred = NoCred => Text[cred].email = <<>>
  BY TextAssumption
<1>4. cred # NoCred => Text[cred].email # <<>> /\ Text[cred].passwd # <<>>
  BY TextAssumption
<1> QED  BY <1>2, <1>3, <1>4, TextIs

\* A field that holds bytes is longer than them, however many they are.
LEMMA VarintLength ==
  ASSUME NEW n \in Nat
  PROVE  Varint(n) \in Bytes
<1> DEFINE S == {k \in 1..5 : k = 1 \/ Base[k] <= n}
           z == VarintSize(n)
<1>1. \E m \in S : \A x \in S : x <= m
  <2>1. CASE 5 \in S
    BY <2>1
  <2>2. CASE 5 \notin S /\ 4 \in S
    BY <2>2
  <2>3. CASE {4, 5} \cap S = {} /\ 3 \in S
    BY <2>3
  <2>4. CASE {3, 4, 5} \cap S = {} /\ 2 \in S
    BY <2>4
  <2>5. CASE {2, 3, 4, 5} \cap S = {}
    BY <2>5
  <2> QED  BY <2>1, <2>2, <2>3, <2>4, <2>5
<1>2. PICK m \in S : \A x \in S : x <= m
  BY <1>1
<1>3. z \in 1..5
  <2>1. VarintSize(n) = Max(S)
    BY DEF VarintSize
  <2> QED  BY <1>2, <2>1, MaxIs
<1> HIDE DEF z
<1>4. \A k \in 1..z : ((n \div Base[k]) % 128) + (IF k < z THEN 128 ELSE 0) \in 0..255
  <2>1. \A k \in 1..z : Base[k] \in Nat \ {0}
    <3>1. \A k \in {1, 2, 3, 4, 5} : Base[k] \in Nat \ {0}
      BY Bases
    <3>2. \A k \in 1..z : k \in {1, 2, 3, 4, 5}
      BY <1>3
    <3> QED  BY <3>1, <3>2
  <2>2. ASSUME NEW k \in 1..z
        PROVE  ((n \div Base[k]) % 128) + (IF k < z THEN 128 ELSE 0) \in 0..255
    <3> DEFINE d == Base[k]
    <3>1. d \in Nat \ {0}
      BY <2>1
    <3> HIDE DEF d
    <3>2. (n \div d) % 128 \in 0..127
      BY <3>1
    <3> QED  BY <3>2 DEF d
  <2> QED  BY <2>2
<1>5. Varint(n) = [k \in 1..z |-> ((n \div Base[k]) % 128) + (IF k < z THEN 128 ELSE 0)]
  BY DEF Varint, z
<1> QED  BY <1>3, <1>4, <1>5 DEF Bytes

LEMMA LongerThanHeld ==
  ASSUME NEW num \in 1..15, NEW t \in Bytes
  PROVE  /\ BytesField(num, t) \in Bytes
         /\ Len(BytesField(num, t)) \in Nat /\ Len(t) < Len(BytesField(num, t))
<1> DEFINE a == <<8 * num + 2>>
           v == Varint(Len(t))
           u == a \o v
<1>1. a \in Bytes /\ Len(a) = 1 /\ Len(t) \in Nat
  BY BytesAre DEF Bytes
<1>2. v \in Bytes
  BY <1>1, VarintLength
<1>3. BytesField(num, t) = u \o t
  BY DEF BytesField
<1> HIDE DEF a, v
<1>4. u \in Bytes /\ Len(u) = 1 + Len(v) /\ Len(v) \in Nat
  <2>1. u \in Bytes /\ Len(u) = Len(a) + Len(v) /\ Len(v) \in Nat
    BY <1>1, <1>2, Parts, Zenon
  <2> QED  BY <1>1, <2>1
<1> HIDE DEF u
<1>5. u \o t \in Bytes /\ Len(u \o t) = Len(u) + Len(t)
  BY <1>4, Parts
<1> QED  BY <1>1, <1>3, <1>4, <1>5

LEMMA InNumber ==
  ASSUME NEW n \in Nat, NEW m \in Number, n <= m
  PROVE  n \in Number
BY SMT DEF Number

LEMMA Assoc ==
  ASSUME NEW a \in Bytes, NEW b \in Bytes, NEW c \in Bytes
  PROVE  (a \o b) \o c = a \o (b \o c)
BY ConcatAssociative DEF Bytes

\* y is what is before the first zero byte.
Parted(body, y, rest) ==
  y \in Bytes /\ Unbroken(y) /\ rest \in Bytes /\ body = y \o <<0>> \o rest

\* What is left of s is a message that breaks off behind y.
BrokenOff(s, num, y) ==
  \E x, f : /\ Left(s, x) /\ Len(x) < Len(s) /\ Fields(x) = Broken(<<f>>)
            /\ f.num = num /\ f.wire = 2 /\ f.val = y

\* A message whose body holds a zero byte is left as one that is cut there.
LEMMA LeftOfBody ==
  ASSUME NEW num, num \in 1..15, NEW y, NEW rest, NEW body, Parted(body, y, rest),
         Len(body) \in Number, NEW s, s = BytesField(num, body)
  PROVE  BrokenOff(s, num, y)
<1> DEFINE z == <<0>>
           n == Len(body)
           p == Prefix(num, n)
           x == p \o y
           f == FieldAt(x, 1)
<1>1. z \in Bytes /\ Len(z) = 1
  BY DEF Bytes
<1>2. y \in Bytes /\ Unbroken(y) /\ rest \in Bytes /\ body = y \o z \o rest
  BY DEF Parted
<1> HIDE DEF z
<1>3. /\ body \in Bytes /\ Len(y) \in Nat /\ Len(rest) \in Nat
      /\ Len(body) = Len(y) + Len(z) + Len(rest)
  <2>1. body = y \o z \o rest
    BY <1>2
  <2>2. LET t == y \o z \o rest
        IN /\ t \in Bytes /\ Len(y) \in Nat /\ Len(rest) \in Nat
           /\ Len(t) = Len(y) + Len(z) + Len(rest)
    BY <1>1, <1>2, PartsOfThree
  <2> QED  BY <2>1, <2>2, Zenon
<1>4. Len(y) < Len(body) /\ Len(body) > 0
  BY <1>1, <1>3
<1>5. p \in Bytes /\ Unbroken(p) /\ BytesField(num, body) = p \o body
  BY <1>3, <1>4, PrefixIs DEF Unbroken
<1>6. x \in Bytes /\ Fields(x) = Broken(<<f>>) /\ f.num = num /\ f.wire = 2 /\ f.val = y
  <2>1. n \in Number /\ Len(y) < n
    BY <1>4
  <2> HIDE DEF n
  <2> QED  BY <1>2, <2>1, CutMessage, SMTT(30)
<1> HIDE DEF f, p
<1>7. Unbroken(x)
  BY <1>5, <1>2, UnbrokenConcat
<1>8. BytesField(num, body) = x \o z \o rest
  <2> DEFINE w == y \o z
  <2>1. w \in Bytes
    BY <1>1, <1>2, Parts, Zenon
  <2> HIDE DEF w
  <2>2. p \o (w \o rest) = (p \o w) \o rest
    BY <1>2, <1>5, <2>1, Assoc, Zenon
  <2>3. p \o w = (p \o y) \o z
    BY <1>1, <1>2, <1>5, Assoc, Zenon DEF w
  <2>4. BytesField(num, body) = p \o (w \o rest)
    BY <1>2, <1>5 DEF w
  <2> QED  BY <2>2, <2>3, <2>4
<1> HIDE DEF x
<1>9. Left(x \o z \o rest, x) /\ Len(x) < Len(x \o z \o rest)
  BY <1>6, <1>7, <1>2, LeftUpTo DEF z
<1> QED  BY <1>6, <1>8, <1>9 DEF BrokenOff

\* The first byte of a number that is zero.
LEMMA ZeroIs ==
  ASSUME NEW num \in 1..15
  PROVE  VarintField(num, 0) = <<8 * num>> \o <<0>>
<1>1. Varint(0) = <<0>>
  BY VarintOfByte
<1> QED  BY <1>1 DEF VarintField

LEMMA EmptyIs ==
  ASSUME NEW num \in 1..15
  PROVE  BytesField(num, <<>>) = <<8 * num + 2>> \o <<0>>
<1>1. Varint(Len(<<>>)) = <<0>>
  BY VarintOfByte
<1> DEFINE u == <<8 * num + 2>> \o <<0>>
<1>2. u \in Seq(Int)
  BY ConcatProperties
<1>3. BytesField(num, <<>>) = u \o <<>>
  BY <1>1 DEF BytesField
<1> HIDE DEF u
<1> QED  BY <1>2, <1>3, ConcatEmptySeq DEF u

\* What is left of a request, and what the servers take from it.
LEMMA RequestLeft ==
  ASSUME NEW q \in Requests
  PROVE  LET s == SerializeRequest(q)
         IN /\ s \in Bytes
            /\ \E x : /\ Left(s, x)
                      /\ q.cred = NoCred => Len(x) < Len(s)
                      /\ RequestsIn(x) = IF q.cred = NoCred THEN <<>>
                           ELSE <<[cmd |-> q.cmd, id |-> q.id, text |-> Text[q.cred]]>>
<1> DEFINE id == q.id
           e == Text[q.cred].email
           w == Text[q.cred].passwd
           v == VarintField(1, id)
           body == v \o BytesField(2, e) \o BytesField(3, w)
           num == IF q.cmd = "CREATEACCOUNT" THEN CreateAccField ELSE AuthenField
           s == SerializeRequest(q)
<1>1. q.cmd \in Cmd /\ id \in 1..MaxId /\ q.cred \in Cred \cup {NoCred}
  BY DEF Requests
<1>2. id \in Number /\ id > 0
  <2>1. MaxId \in Number
    BY ReceiverAssumption
  <2> HIDE DEF id
  <2>2. MaxId \in Nat
    BY <2>1, SMT DEF Number
  <2>3. id \in Nat /\ id <= MaxId /\ id > 0
    BY <1>1, <2>2
  <2> QED  BY <2>1, <2>3, InNumber
<1>3. num \in 1..15 /\ num \in {CreateAccField, AuthenField}
      /\ (IF num = CreateAccField THEN "CREATEACCOUNT" ELSE "LOGIN") = q.cmd
  BY <1>1 DEF CreateAccField, AuthenField, Cmd
<1>4. /\ e \in Bytes /\ Unbroken(e) /\ w \in Bytes /\ Unbroken(w)
      /\ Text[q.cred] = [email |-> e, passwd |-> w]
      /\ q.cred = NoCred => e = <<>>
      /\ q.cred # NoCred => e # <<>> /\ w # <<>>
  BY <1>1, CredTexts
<1>5. s = BytesField(num, body)
  BY DEF SerializeRequest
<1>6. Len(s) <= BufLen /\ BufLen \in Number
  BY ReceiverAssumption
<1> HIDE DEF s, e, w, num, id
<1>7. /\ v \in Bytes /\ Unbroken(v)
      /\ BytesField(2, e) \in Bytes /\ Len(e) < Len(BytesField(2, e))
      /\ BytesField(3, w) \in Bytes /\ Len(w) < Len(BytesField(3, w))
  BY <1>2, <1>4, VarintFieldIs, LongerThanHeld
<1>8. /\ body \in Bytes /\ Len(v) \in Nat
      /\ Len(body) = Len(v) + Len(BytesField(2, e)) + Len(BytesField(3, w))
  <2> HIDE DEF v
  <2> QED  BY <1>7, PartsOfThree
<1> DEFINE lv == Len(v)
           le == Len(BytesField(2, e))
           lw == Len(BytesField(3, w))
           lb == Len(body)
<1>9. s \in Bytes /\ lb < Len(s)
  BY <1>3, <1>5, <1>8, LongerThanHeld
<1>10. /\ lv \in Nat /\ le \in Nat /\ lw \in Nat /\ Len(e) \in Nat /\ Len(w) \in Nat
       /\ Len(s) \in Nat /\ Len(e) < le /\ Len(w) < lw /\ lb = lv + le + lw
  BY <1>4, <1>7, <1>8, <1>9, BytesAre
<1> HIDE DEF lv, le, lw, lb
<1>11. BufLen \in Nat
  BY <1>6, SMT DEF Number
<1>12. /\ Len(e) \in Nat /\ Len(e) <= BufLen /\ Len(w) \in Nat /\ Len(w) <= BufLen
       /\ lb \in Nat /\ lb <= BufLen /\ lb > 0
  BY <1>6, <1>9, <1>10, <1>11
<1>13. Len(e) \in Number /\ Len(w) \in Number /\ lb \in Number
  BY <1>6, <1>12, InNumber
<1>14. Len(body) \in Number /\ Len(body) > 0
  BY <1>12, <1>13 DEF lb
<1>15. CASE q.cred # NoCred
  <2>1. PICK f, g, h : /\ Fields(body) = Ended(<<f, g, h>>)
                       /\ Field(f, 1, 0, id) /\ Field(g, 2, 2, e) /\ Field(h, 3, 2, w)
    BY <1>2, <1>4, <1>13, RequestBody
  <2>2. Initialized(<<f, g, h>>) /\ Taken(q.cmd, <<f, g, h>>)
          = [cmd |-> q.cmd, id |-> q.id, text |-> Text[q.cred]]
    BY <1>4, <2>1, ThreeOf DEF Taken, id
  <2>3. Unbroken(body)
    <3>1. Unbroken(BytesField(2, e)) /\ Unbroken(BytesField(3, w))
      BY <1>4, <1>13, <1>15, BytesFieldIs
    <3>2. v \o BytesField(2, e) \in Bytes /\ Unbroken(v \o BytesField(2, e))
      BY <1>7, <3>1, Parts, UnbrokenConcat
    <3> HIDE DEF v
    <3> QED  BY <1>7, <3>1, <3>2, UnbrokenConcat
  <2> HIDE DEF body
  <2>4. Unbroken(s)
    <3>1. body # <<>>
      BY <1>14
    <3> QED  BY <1>3, <1>5, <1>8, <1>14, <2>3, <3>1, BytesFieldIs
  <2>5. Left(s, s)
    BY <1>9, <2>4, LeftWhole
  <2> DEFINE k == FieldAt(s, 1)
  <2>6. Fields(s) = Ended(<<k>>) /\ k.num = num /\ k.wire = 2 /\ k.val = body
    BY <1>3, <1>5, <1>8, <1>14, WholeMessage
  <2> HIDE DEF k
  <2>7. CommandsOf(Ended(<<k>>)) = <<Taken(q.cmd, <<f, g, h>>)>>
    <3>1. k.num \in {CreateAccField, AuthenField} /\ k.wire = 2
          /\ Fields(k.val) = Ended(<<f, g, h>>) /\ Initialized(<<f, g, h>>)
          /\ (IF k.num = CreateAccField THEN "CREATEACCOUNT" ELSE "LOGIN") = q.cmd
      BY <1>3, <2>1, <2>2, <2>6
    <3> DEFINE fs == <<f, g, h>>
    <3>2. Fields(k.val) = Ended(fs) /\ Initialized(fs)
      BY <3>1
    <3> HIDE DEF fs
    <3>3. CommandsOf(Ended(<<k>>))
            = <<Taken(IF k.num = CreateAccField THEN "CREATEACCOUNT" ELSE "LOGIN", fs)>>
      BY <3>1, <3>2, CommandsOfOne
    <3> QED  BY <3>1, <3>3 DEF fs
  <2>8. RequestsIn(s) = <<[cmd |-> q.cmd, id |-> q.id, text |-> Text[q.cred]]>>
    BY <2>2, <2>6, <2>7 DEF RequestsIn
  <2> QED  BY <1>9, <1>15, <2>5, <2>8 DEF s
<1>16. CASE q.cred = NoCred
  <2> DEFINE y == v \o <<18>>
             rest == BytesField(3, w)
  <2>1. <<18>> \in Bytes /\ Unbroken(<<18>>) /\ <<0>> \in Bytes
    BY DEF Bytes, Unbroken
  <2>2. y \in Bytes /\ Unbroken(y)
    <3> HIDE DEF v
    <3> QED  BY <1>7, <2>1, Parts, UnbrokenConcat
  <2>3. body = y \o <<0>> \o rest
    <3>1. BytesField(2, e) = <<18>> \o <<0>>
      BY <1>4, <1>16, EmptyIs
    <3>2. v \o (<<18>> \o <<0>>) = (v \o <<18>>) \o <<0>>
      <4> DEFINE a == <<18>>
                 z == <<0>>
      <4>1. a \in Bytes /\ z \in Bytes /\ v \in Bytes
        BY <1>7, <2>1
      <4> HIDE DEF v, a, z
      <4>2. (v \o a) \o z = v \o (a \o z)
        BY <4>1, Assoc, SMTT(30)
      <4> QED  BY <4>2 DEF a, z
    <3> HIDE DEF v
    <3> QED  BY <3>1, <3>2
  <2>4. Parted(body, y, rest)
    BY <1>7, <2>2, <2>3 DEF Parted
  <2> HIDE DEF body, y, rest
  <2>5. PICK x, f : Left(s, x) /\ Len(x) < Len(s) /\ Fields(x) = Broken(<<f>>)
    <3>1. num \in 1..15 /\ Len(body) \in Number
      BY <1>3, <1>14
    <3>2. BrokenOff(s, num, y)
      BY <1>5, <2>4, <3>1, LeftOfBody
    <3> QED  BY <3>2 DEF BrokenOff
  <2>6. RequestsIn(x) = <<>>
    BY <2>5 DEF RequestsIn, CommandsOf, Broken
  <2> QED  BY <1>9, <1>16, <2>5, <2>6 DEF s
<1> QED  BY <1>15, <1>16

\* What is left of a response, and what ReceiveFromServer finds in it.
LEMMA ResponseLeft ==
  ASSUME NEW r \in Responses
  PROVE  LET s == SerializeResponse(r)
         IN /\ s \in Bytes
            /\ \E x : /\ Left(s, x)
                      /\ Truncated(r) => Len(x) < Len(s)
                      /\ ResponseIn(x) = [kind |-> r.kind, val |-> ValSeen(r)]
<1> DEFINE id == r.id
           val == r.val
           num == r.kind
           v == VarintField(1, id)
           u == VarintField(2, val)
           last == IF num = AuthSuccess THEN BytesField(3, Date) ELSE <<>>
           body == v \o u \o last
           s == SerializeResponse(r)
<1>1. num \in Kind /\ id \in Number /\ val \in Number
  BY ReceiverAssumption DEF Responses
<1>2. num \in 1..15
  BY <1>1 DEF Kind, AuthSuccess, CreateFail
<1>3. s = BytesField(num, body)
  BY DEF SerializeResponse
<1>4. Len(s) <= BufLen /\ BufLen \in Number
  BY ReceiverAssumption
<1>5. id \in Nat /\ val \in Nat /\ BufLen \in Nat
  BY <1>1, <1>4, SMT DEF Number
<1>6. Date \in Bytes /\ Unbroken(Date) /\ Date # <<>>
  BY TextAssumption, TextIs
<1> HIDE DEF s, num, id, val
<1>7. v \in Bytes /\ u \in Bytes /\ (id # 0 => Unbroken(v)) /\ (val # 0 => Unbroken(u))
  BY <1>1, <1>5, VarintFieldIs
<1>8. last \in Bytes
  <2>1. BytesField(3, Date) \in Bytes /\ <<>> \in Bytes
    BY <1>6, LongerThanHeld DEF Bytes
  <2> QED  BY <2>1
<1> HIDE DEF v, u, last
<1>9. /\ body \in Bytes /\ Len(v) \in Nat /\ Len(u) \in Nat /\ Len(last) \in Nat
      /\ Len(body) = Len(v) + Len(u) + Len(last)
  BY <1>7, <1>8, PartsOfThree
<1> DEFINE lb == Len(body)
<1>10. s \in Bytes /\ lb < Len(s) /\ Len(s) \in Nat /\ lb \in Nat
  <2> HIDE DEF body
  <2> QED  BY <1>2, <1>3, <1>9, LongerThanHeld, BytesAre
<1> HIDE DEF lb
<1>11. lb \in Nat /\ lb <= BufLen
  BY <1>4, <1>5, <1>10
<1>12. lb \in Number
  BY <1>4, <1>11, InNumber
<1>13. Len(body) \in Number /\ body \in Bytes
  BY <1>9, <1>12 DEF lb
<1>14. ASSUME NEW y, NEW rest, Parted(body, y, rest),
              VarintOf(Fields(y).fields, 2) = 0, ValSeen(r) = 0
       PROVE  \E x : Left(s, x) /\ Len(x) < Len(s)
                     /\ ResponseIn(x) = [kind |-> num, val |-> ValSeen(r)]
  <2> HIDE DEF body
  <2>1. num \in 1..15 /\ Len(body) \in Number /\ Parted(body, y, rest) /\ s = BytesField(num, body)
    BY <1>2, <1>3, <1>13, <1>14
  <2>2. PICK x, f : /\ Left(s, x) /\ Len(x) < Len(s) /\ Fields(x) = Broken(<<f>>)
                    /\ f.num = num /\ f.wire = 2 /\ f.val = y
    <3>1. BrokenOff(s, num, y)
      BY <2>1, LeftOfBody
    <3> QED  BY <3>1 DEF BrokenOff
  <2>3. Fields(x).fields = <<f>>
    BY <2>2 DEF Broken
  <2>4. ResponseOf(Fields(x)) = [kind |-> f.num, val |-> VarintOf(Fields(f.val).fields, 2)]
    BY <1>1, <2>2, <2>3, ResponseOfOne
  <2>5. ResponseIn(x) = [kind |-> num, val |-> ValSeen(r)]
    BY <1>14, <2>2, <2>4 DEF ResponseIn
  <2> QED  BY <2>2, <2>5
<1>15. CASE id = 0
  <2> DEFINE y == <<8>>
             rest == u \o last
  <2>1. y \in Bytes /\ Unbroken(y) /\ <<0>> \in Bytes
    BY DEF Bytes, Unbroken
  <2>2. rest \in Bytes
    BY <1>7, <1>8, Parts
  <2>3. body = y \o <<0>> \o rest
    <3>1. v = y \o <<0>>
      BY <1>15, ZeroIs DEF v
    <3>2. (v \o u) \o last = v \o (u \o last)
      BY <1>7, <1>8, Assoc
    <3> QED  BY <3>1, <3>2
  <2>4. VarintOf(Fields(y).fields, 2) = 0
    BY NoBody
  <2>5. ValSeen(r) = 0
    BY <1>15 DEF ValSeen, id
  <2>6. Parted(body, y, rest)
    BY <2>1, <2>2, <2>3 DEF Parted
  <2> HIDE DEF body, y, rest
  <2>7. \E x : Left(s, x) /\ Len(x) < Len(s)
               /\ ResponseIn(x) = [kind |-> num, val |-> ValSeen(r)]
    BY <1>14, <2>4, <2>5, <2>6
  <2> QED  BY <1>10, <2>7 DEF s, num
<1>16. CASE id # 0 /\ val = 0
  <2> DEFINE y == v \o <<16>>
             rest == last
  <2>1. <<16>> \in Bytes /\ Unbroken(<<16>>) /\ <<0>> \in Bytes
    BY DEF Bytes, Unbroken
  <2>2. y \in Bytes /\ Unbroken(y)
    BY <1>7, <1>16, <2>1, Parts, UnbrokenConcat
  <2>3. body = y \o <<0>> \o rest
    <3>1. u = <<16>> \o <<0>>
      BY <1>16, ZeroIs DEF u
    <3>2. v \o (<<16>> \o <<0>>) = (v \o <<16>>) \o <<0>>
      BY <1>7, <2>1, Assoc
    <3> QED  BY <3>1, <3>2
  <2>4. VarintOf(Fields(y).fields, 2) = 0
    BY <1>1, HalfBody DEF v
  <2>5. ValSeen(r) = 0
    BY <1>16 DEF ValSeen, id, val
  <2>6. Parted(body, y, rest)
    BY <1>8, <2>2, <2>3 DEF Parted
  <2> HIDE DEF body, y, rest
  <2>7. \E x : Left(s, x) /\ Len(x) < Len(s)
               /\ ResponseIn(x) = [kind |-> num, val |-> ValSeen(r)]
    BY <1>14, <2>4, <2>5, <2>6
  <2> QED  BY <1>10, <2>7 DEF s, num
<1>17. CASE id # 0 /\ val # 0
  <2>1. Unbroken(v \o u) /\ v \o u \in Bytes
    BY <1>7, <1>17, Parts, UnbrokenConcat
  <2>2. ASSUME num = AuthSuccess
        PROVE  Unbroken(body) /\ VarintOf(Fields(body).fields, 2) = val
    <3>1. last = BytesField(3, Date)
      BY <2>2 DEF last
    <3>2. Len(Date) \in Number
      <4> DEFINE ld == Len(Date)
                 ll == Len(last)
                 lv == Len(v)
                 lu == Len(u)
      <4>1. ld \in Nat /\ ll \in Nat /\ ld < ll
        BY <1>6, <3>1, LongerThanHeld, BytesAre
      <4>2. lv \in Nat /\ lu \in Nat /\ lb = lv + lu + ll
        BY <1>9 DEF lb
      <4> HIDE DEF ld, ll, lv, lu
      <4>3. ld <= BufLen
        BY <1>5, <1>11, <4>1, <4>2
      <4>4. ld \in Number
        BY <1>4, <4>1, <4>3, InNumber
      <4> QED  BY <4>4 DEF ld
    <3>3. Unbroken(last)
      BY <1>6, <3>1, <3>2, BytesFieldIs
    <3>4. Unbroken(body)
      BY <1>8, <2>1, <3>3, UnbrokenConcat
    <3>5. VarintOf(Fields(body).fields, 2) = val
      <4> DEFINE t == VarintField(1, id) \o VarintField(2, val) \o BytesField(3, Date)
      <4>1. VarintOf(Fields(t).fields, 2) = val
        BY <1>1, <1>6, <3>2, DatedBody
      <4>2. body = t
        BY <3>1 DEF v, u
      <4> HIDE DEF body, t
      <4> QED  BY <4>1, <4>2
    <3> HIDE DEF body
    <3> QED  BY <3>4, <3>5
  <2>3. ASSUME num # AuthSuccess
        PROVE  Unbroken(body) /\ VarintOf(Fields(body).fields, 2) = val
    <3>1. last = <<>>
      BY <2>3 DEF last
    <3> DEFINE vu == v \o u
    <3>2. body = vu
      <4>1. vu \in Seq(0..255) /\ body = vu \o <<>>
        BY <2>1, <3>1 DEF Bytes
      <4> HIDE DEF vu
      <4> QED  BY <4>1, ConcatEmptySeq
    <3>3. VarintOf(Fields(vu).fields, 2) = val
      <4> DEFINE t == VarintField(1, id) \o VarintField(2, val)
      <4>1. VarintOf(Fields(t).fields, 2) = val
        BY <1>1, PairBody
      <4>2. vu = t
        BY DEF v, u
      <4> HIDE DEF vu, t
      <4> QED  BY <4>1, <4>2
    <3> HIDE DEF body, vu
    <3>4. Unbroken(vu)
      BY <2>1 DEF vu
    <3> QED  BY <3>2, <3>3, <3>4
  <2>4. Unbroken(body) /\ VarintOf(Fields(body).fields, 2) = val
    <3> HIDE DEF body
    <3> QED  BY <2>2, <2>3
  <2>5. body # <<>>
    <3>1. Len(v) > 0
      <4>1. v = <<8 * 1>> \o Varint(id) /\ <<8 * 1>> \in Bytes /\ Len(<<8 * 1>>) = 1
        BY DEF v, VarintField, Bytes
      <4>2. Varint(id) \in Bytes
        BY <1>1, VarintBytes
      <4> DEFINE c == <<8 * 1>>
                 d == Varint(id)
      <4>3. v = c \o d /\ c \in Bytes /\ Len(c) = 1 /\ d \in Bytes
        BY <4>1, <4>2
      <4> HIDE DEF c, d
      <4>4. Len(c \o d) = Len(c) + Len(d) /\ Len(d) \in Nat
        BY <4>3, Parts
      <4> QED  BY <4>3, <4>4
    <3>2. Len(body) > 0
      BY <1>9, <3>1
    <3> HIDE DEF body
    <3> QED  BY <3>2
  <2> HIDE DEF body
  <2>6. Unbroken(s)
    BY <1>2, <1>3, <1>13, <2>4, <2>5, BytesFieldIs
  <2>7. Left(s, s)
    BY <1>10, <2>6, LeftWhole
  <2> DEFINE f == FieldAt(s, 1)
  <2>8. Fields(s) = Ended(<<f>>) /\ f.num = num /\ f.wire = 2 /\ f.val = body
    BY <1>2, <1>3, <1>13, WholeMessage
  <2> HIDE DEF f
  <2>9. Fields(s).fields = <<f>>
    BY <2>8 DEF Ended
  <2>10. ResponseOf(Fields(s)) = [kind |-> f.num, val |-> VarintOf(Fields(f.val).fields, 2)]
    BY <1>1, <2>8, <2>9, ResponseOfOne
  <2>11. ValSeen(r) = val /\ ~ Truncated(r)
    BY <1>17 DEF ValSeen, Truncated, id, val
  <2>12. ResponseIn(s) = [kind |-> num, val |-> ValSeen(r)]
    BY <2>4, <2>8, <2>10, <2>11 DEF ResponseIn
  <2> QED  BY <1>10, <2>7, <2>11, <2>12 DEF s, num
<1> QED  BY <1>15, <1>16, <1>17

-----------------------------------------------------------------------------
(* The receiver.                                                           *)

\* The messages of the direction that is received, and how they are written and read.
Messages == IF what = "requests" THEN Requests ELSE Responses
Serialize(m) == IF what = "requests" THEN SerializeRequest(m) ELSE SerializeResponse(m)
Reading(b) == IF what = "requests" THEN RequestsIn(CString(b)) ELSE ResponseIn(CString(b))

\* What m, and the byte behind it, are in the buffer.
InBuffer(m) ==
  /\ Holds(buf, 1, Serialize(m))
  /\ tail = IF Len(Serialize(m)) < BufLen THEN buf[Len(Serialize(m)) + 1] ELSE 0

\* A message that comes whole is under way, and then at the start of the buffer.
Arrival ==
  /\ what \in {"requests", "responses"}
  /\ buf \in Bytes /\ Len(buf) = BufLen
  /\ stream # <<>> => \E m \in Messages : sent = <<m>> /\ stream = Serialize(m)
  /\ heard # <<>> => \E m \in Messages : sent = <<m>> /\ InBuffer(m) /\ heard = <<Reading(buf)>>

LEMMA MessageIs ==
  ASSUME what \in {"requests", "responses"}, NEW m \in Messages
  PROVE  /\ Serialize(m) \in Bytes /\ Len(Serialize(m)) \in Nat
         /\ Len(Serialize(m)) <= BufLen
<1>1. CASE what = "requests"
  <2>1. m \in Requests /\ Serialize(m) = SerializeRequest(m)
    BY <1>1 DEF Messages, Serialize
  <2>2. Len(SerializeRequest(m)) <= BufLen
    BY <2>1, ReceiverAssumption
  <2>3. SerializeRequest(m) \in Bytes
    BY <2>1, RequestLeft
  <2> QED  BY <2>1, <2>2, <2>3, BytesAre
<1>2. CASE what = "responses"
  <2>1. m \in Responses /\ Serialize(m) = SerializeResponse(m)
    BY <1>2 DEF Messages, Serialize
  <2>2. Len(SerializeResponse(m)) <= BufLen
    BY <2>1, ReceiverAssumption
  <2>3. SerializeResponse(m) \in Bytes
    BY <2>1, ResponseLeft
  <2> QED  BY <2>1, <2>2, <2>3, BytesAre
<1> QED  BY <1>1, <1>2

LEMMA BufLenIs == BufLen \in Nat
<1>1. BufLen \in Number
  BY ReceiverAssumption
<1> QED  BY <1>1, SMT DEF Number

LEMMA ArrivalInit == ~ Cuts /\ Init => Arrival
<1> SUFFICES ASSUME Init PROVE Arrival
  OBVIOUS
<1>0. what \in {"requests", "responses"}
  BY ReceiverAssumption DEF Init
<1>1. PICK b \in Fill : buf = [n \in 1..BufLen |-> b]
  BY DEF Init
<1>2. b \in 0..255
  BY ReceiverAssumption
<1>3. buf \in Seq(0..255) /\ Len(buf) = BufLen
  BY <1>1, <1>2, BufLenIs
<1> QED  BY <1>0, <1>3 DEF Init, Arrival, Bytes

\* recv puts all of the message at the start of the buffer.
LEMMA OverlayIs ==
  ASSUME buf \in Bytes, NEW s \in Bytes, Len(s) <= Len(buf)
  PROVE  LET b == Overlay(SubSeq(s, 1, Len(s)))
         IN b \in Bytes /\ Len(b) = Len(buf) /\ Holds(b, 1, s)
<1> DEFINE b == Overlay(s)
           n == Len(s)
           m == Len(buf)
<1>1. Holds(s, 1, s) /\ n \in Nat /\ m \in Nat /\ DOMAIN buf = 1..m
  BY HoldsSelf, BytesAre, LenProperties DEF Bytes
<1>2. SubSeq(s, 1, n) = s
  <2>1. SubSeq(s, 1, 1 + Len(s) - 1) = s
    BY <1>1, HeldIs
  <2>2. 1 + Len(s) - 1 = n
    BY <1>1
  <2> DEFINE k == 1 + Len(s) - 1
  <2>3. k = n /\ SubSeq(s, 1, k) = s
    BY <2>1, <2>2
  <2> HIDE DEF k, n
  <2> QED  BY <2>3
<1>3. b = [k \in 1..m |-> IF k <= n THEN s[k] ELSE buf[k]]
  BY <1>1 DEF Overlay
<1>4. /\ \A k \in 1..n : s[k] \in 0..255
      /\ \A k \in 1..m : buf[k] \in 0..255
  BY BytesAre
<1>5. n <= m
  OBVIOUS
<1> HIDE DEF b, n, m
<1>6. \A k \in 1..m : (IF k <= n THEN s[k] ELSE buf[k]) \in 0..255
  <2>1. ASSUME NEW k \in 1..m PROVE (IF k <= n THEN s[k] ELSE buf[k]) \in 0..255
    <3>1. k <= n => k \in 1..n
      BY <1>1
    <3> QED  BY <1>4, <3>1
  <2> QED  BY <2>1
<1>7. b \in Seq(0..255) /\ Len(b) = m
  <2> DEFINE e(k) == IF k <= n THEN s[k] ELSE buf[k]
  <2>1. b = [k \in 1..m |-> e(k)] /\ \A k \in 1..m : e(k) \in 0..255
    BY <1>3, <1>6
  <2> HIDE DEF e
  <2> QED  BY <1>1, <2>1
<1>8. \A k \in 1..n : b[1 + (k - 1)] = s[k]
  <2>1. ASSUME NEW k \in 1..n PROVE b[1 + (k - 1)] = s[k]
    <3>1. k \in 1..m /\ k <= n /\ 1 + (k - 1) = k
      BY <1>1, <1>5
    <3> QED  BY <1>3, <3>1
  <2> QED  BY <2>1
<1>9. Holds(b, 1, s)
  <2>1. 1 + n <= m + 1
    BY <1>1, <1>5
  <2> QED  BY <1>7, <1>8, <2>1 DEF Holds, n
<1> QED  BY <1>2, <1>7, <1>9 DEF b, n, m, Bytes

LEMMA ArrivalNext ==
  ASSUME ~ Cuts, Arrival, [Next]_vars
  PROVE  Arrival'
<1>1. /\ what \in {"requests", "responses"} /\ buf \in Bytes /\ Len(buf) = BufLen
      /\ stream # <<>> => \E m \in Messages : sent = <<m>> /\ stream = Serialize(m)
  BY DEF Arrival
<1>2. CASE SendRequest
  <2>1. what' = "requests" /\ UNCHANGED buf /\ heard' = <<>>
    BY <1>2 DEF SendRequest, Send
  <2>2. PICK q \in Requests : sent' = <<q>> /\ stream' = SerializeRequest(q)
    BY <1>2 DEF SendRequest, Send
  <2>3. q \in Messages' /\ stream' = Serialize(q)'
    BY <2>1, <2>2 DEF Messages, Serialize, SerializeRequest, Requests
  <2> QED  BY <1>1, <2>1, <2>2, <2>3 DEF Arrival
<1>3. CASE SendResponse
  <2>1. what' = "responses" /\ UNCHANGED buf /\ heard' = <<>>
    BY <1>3 DEF SendResponse, Send
  <2>2. PICK r \in Responses : sent' = <<r>> /\ stream' = SerializeResponse(r)
    BY <1>3 DEF SendResponse, Send
  <2>3. r \in Messages' /\ stream' = Serialize(r)'
    BY <2>1, <2>2 DEF Messages, Serialize, SerializeResponse, Responses
  <2> QED  BY <1>1, <2>1, <2>2, <2>3 DEF Arrival
<1>4. CASE Recv
  <2>1. PICK m \in Messages : sent = <<m>> /\ stream = Serialize(m)
    BY <1>1, <1>4 DEF Recv
  <2> DEFINE s == Serialize(m)
             n == Len(s)
  <2>2. s \in Bytes /\ n \in Nat /\ n <= BufLen
    BY <1>1, MessageIs
  <2>3. /\ buf' = Overlay(SubSeq(s, 1, n))
        /\ stream' = SubSeq(s, n + 1, n)
        /\ tail' = IF n < BufLen THEN buf'[n + 1] ELSE 0
        /\ heard' = <<IF what = "requests" THEN RequestsIn(CString(buf'))
                      ELSE ResponseIn(CString(buf'))>>
        /\ UNCHANGED <<what, sent>>
    BY <1>4, <2>1 DEF Recv
  <2>4. Messages' = Messages /\ Serialize(m)' = Serialize(m) /\ heard' = <<Reading(buf)'>>
    BY <2>3 DEF Messages, Serialize, Reading
  <2>5. buf' \in Bytes /\ Len(buf') = BufLen /\ Holds(buf', 1, s)
    <3> HIDE DEF s
    <3> QED  BY <1>1, <2>2, <2>3, OverlayIs
  <2>6. stream' = <<>>
    <3> HIDE DEF s, n
    <3> QED  BY <2>2, <2>3
  <2>7. InBuffer(m)'
    BY <2>3, <2>4, <2>5 DEF InBuffer
  <2> QED  BY <1>1, <2>1, <2>3, <2>4, <2>5, <2>6, <2>7 DEF Arrival
<1>5. CASE UNCHANGED vars
  BY <1>5 DEF Arrival, InBuffer, Messages, Serialize, Reading, vars
<1> QED  BY <1>2, <1>3, <1>4, <1>5 DEF Next

LEMMA ArrivalHolds == Spec => [](~ Cuts => Arrival)
<1>1. Init => (~ Cuts => Arrival)
  BY ArrivalInit
<1>2. (~ Cuts => Arrival) /\ [Next]_vars => (~ Cuts => Arrival)'
  BY ArrivalNext
<1> QED  BY <1>1, <1>2, PTL DEF Spec

\* What the buffer is read as, once a message came.
LEMMA ReadingIs ==
  ASSUME Arrival, heard # <<>>
  PROVE  \E m \in Messages :
           /\ Last(sent) = m
           /\ heard[1] = Reading(buf)
           /\ \A x : Left(Serialize(m), x) /\ (tail = 0 \/ Len(x) < Len(Serialize(m)))
                       => CString(buf) = x
<1>1. PICK m \in Messages : sent = <<m>> /\ InBuffer(m) /\ heard = <<Reading(buf)>>
  BY DEF Arrival
<1>2. Last(sent) = m /\ heard[1] = Reading(buf)
  BY <1>1 DEF Last
<1> DEFINE s == Serialize(m)
<1>3. /\ s \in Bytes /\ buf \in Bytes /\ Holds(buf, 1, s) /\ Len(s) \in Nat
      /\ Len(s) <= BufLen /\ Len(buf) = BufLen
      /\ tail = IF Len(s) < BufLen THEN buf[Len(s) + 1] ELSE 0
  BY <1>1, MessageIs DEF Arrival, InBuffer
<1> HIDE DEF s
<1>4. ASSUME NEW x, Left(s, x), tail = 0 \/ Len(x) < Len(s) PROVE CString(buf) = x
  <2>1. Len(x) < Len(s) \/ Len(s) = Len(buf) \/ buf[Len(s) + 1] = 0
    BY <1>3, <1>4, BufLenIs
  <2> QED  BY <1>3, <1>4, <2>1, BufferIs
<1> QED  BY <1>2, <1>4 DEF s

\* A request that arrives whole, with a zero byte behind it or with an empty email
\* and password, is the one command the parser finds in the buffer, with the id, the
\* email and the password sent, or none if it has no email: neither the bytes of
\* SendToServer nor the buffers of ReadFromClient and TCP_Run, which are never
\* cleared, lose or add anything.  Of stale bytes other than zero it says nothing.
THEOREM RequestsAreReadHolds ==
  Spec => [](tail = 0 \/ Last(sent).cred = NoCred => RequestsAreRead)
<1>1. ASSUME ~ Cuts => Arrival, tail = 0 \/ Last(sent).cred = NoCred
      PROVE  RequestsAreRead
  <2> SUFFICES ASSUME what = "requests", heard # <<>>, ~ Cuts
               PROVE  RequestsAreRead
    BY DEF RequestsAreRead
  <2>1. PICK q \in Messages :
          /\ Last(sent) = q
          /\ heard[1] = Reading(buf)
          /\ \A x : Left(Serialize(q), x) /\ (tail = 0 \/ Len(x) < Len(Serialize(q)))
                      => CString(buf) = x
    BY <1>1, ReadingIs
  <2>2. q \in Requests /\ Serialize(q) = SerializeRequest(q)
    BY DEF Messages, Serialize
  <2> DEFINE clean == IF q.cred = NoCred THEN <<>>
                      ELSE <<[cmd |-> q.cmd, id |-> q.id, text |-> Text[q.cred]]>>
  <2>3. PICK x : /\ Left(SerializeRequest(q), x)
                 /\ q.cred = NoCred => Len(x) < Len(SerializeRequest(q))
                 /\ RequestsIn(x) = clean
    BY <2>2, RequestLeft
  <2>4. CString(buf) = x
    BY <1>1, <2>1, <2>2, <2>3
  <2>5. heard[1] = clean
    BY <2>1, <2>3, <2>4 DEF Reading
  <2>6. clean = IF Readable(q, "clean")
                  THEN <<[cmd |-> q.cmd, id |-> q.id, text |-> Text[q.cred]]>> ELSE <<>>
    BY DEF Readable
  <2> HIDE DEF clean
  <2> QED  BY <2>1, <2>5, <2>6 DEF RequestsAreRead
<1> QED  BY <1>1, ArrivalHolds, PTL

\* A response that arrives whole, with a zero byte behind it or with an id or a
\* value of zero, is read with the kind it was sent with and, but for a hidden
\* value, with its value: ReceiveFromServer then derives the status AuthProtocol says.
THEOREM ResponsesAreReadHolds ==
  Spec => [](tail = 0 \/ Truncated(Last(sent)) => ResponsesAreRead)
<1>1. ASSUME ~ Cuts => Arrival, tail = 0 \/ Truncated(Last(sent))
      PROVE  ResponsesAreRead
  <2> SUFFICES ASSUME what = "responses", heard # <<>>, ~ Cuts
               PROVE  ResponsesAreRead
    BY DEF ResponsesAreRead
  <2>1. PICK r \in Messages :
          /\ Last(sent) = r
          /\ heard[1] = Reading(buf)
          /\ \A x : Left(Serialize(r), x) /\ (tail = 0 \/ Len(x) < Len(Serialize(r)))
                      => CString(buf) = x
    BY <1>1, ReadingIs
  <2>2. r \in Responses /\ Serialize(r) = SerializeResponse(r)
    BY DEF Messages, Serialize
  <2>3. PICK x : /\ Left(SerializeResponse(r), x)
                 /\ Truncated(r) => Len(x) < Len(SerializeResponse(r))
                 /\ ResponseIn(x) = [kind |-> r.kind, val |-> ValSeen(r)]
    BY <2>2, ResponseLeft
  <2>4. CString(buf) = x
    BY <1>1, <2>1, <2>2, <2>3
  <2>5. heard[1] = [kind |-> r.kind, val |-> ValSeen(r)]
    BY <2>1, <2>3, <2>4 DEF Reading
  <2>6. heard[1].kind = r.kind /\ heard[1].val = ValSeen(r)
    BY <2>5
  <2>7. KindSeen(r, "clean") = r.kind
    <3>1. KindsSeen(r, "clean") = {r.kind}
      BY DEF KindsSeen
    <3>2. r.kind \in Int
      BY <2>2 DEF Responses, Kind, AuthSuccess, CreateFail
    <3> QED  BY <3>1, <3>2 DEF KindSeen
  <2> DEFINE Seen(t) == [kind |-> KindSeen(r, t), status |-> StatusOf(KindSeen(r, t), ValSeen(r))]
             result == [kind |-> heard[1].kind, status |-> StatusOf(heard[1].kind, heard[1].val)]
  <2>8. result = Seen("clean")
    BY <2>6, <2>7
  <2> HIDE DEF Seen, result
  <2>9. result \in {Seen("clean"), Seen("detail")}
    BY <2>8
  <2> QED  BY <2>1, <2>8, <2>9 DEF ResponsesAreRead, Seen, result
<1> QED  BY <1>1, ArrivalHolds, PTL
=============================================================================
