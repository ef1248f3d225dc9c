---------------------------- MODULE Sha256Proofs ----------------------------
(***************************************************************************)
(* What is proved of Sha256, for every set of sizes and every length.      *)
(***************************************************************************)
EXTENDS Sha256, SequenceTheorems, TLAPS

-----------------------------------------------------------------------------
(* Sequences.                                                              *)

LEMMA FunctionIsSeq ==
  ASSUME NEW S, NEW n \in Nat, NEW f \in [1..n -> S]
  PROVE  f \in Seq(S) /\ Len(f) = n /\ DOMAIN f = 1..n
OBVIOUS

\* A part of a sequence that may be empty.
LEMMA PartOf ==
  ASSUME NEW S, NEW s \in Seq(S), NEW m \in 1..(Len(s) + 1), NEW n \in (m - 1)..Len(s)
  PROVE  /\ SubSeq(s, m, n) \in Seq(S)
         /\ Len(SubSeq(s, m, n)) = n - m + 1
         /\ \A j \in 1..(n - m + 1) : SubSeq(s, m, n)[j] = s[m + j - 1]
<1>1. \A j \in m..n : s[j] \in S
  BY ElementOfSeq
<1>2. m \in Int /\ n \in Int
  OBVIOUS
<1> QED  BY <1>1, <1>2, SubSeqProperties

LEMMA PartAt ==
  ASSUME NEW S, NEW s \in Seq(S), NEW a \in Nat, NEW n \in Nat, a + n <= Len(s)
  PROVE  /\ SubSeq(s, a + 1, a + n) \in Seq(S)
         /\ Len(SubSeq(s, a + 1, a + n)) = n
         /\ \A j \in 1..n : SubSeq(s, a + 1, a + n)[j] = s[a + j]
<1> DEFINE from == a + 1
           to   == a + n
<1>1. from \in 1..(Len(s) + 1) /\ to \in (from - 1)..Len(s) /\ to - from + 1 = n
  BY LenProperties
<1>2. \A j \in 1..n : from + j - 1 = a + j
  OBVIOUS
<1> HIDE DEF from, to
<1>3. /\ SubSeq(s, from, to) \in Seq(S) /\ Len(SubSeq(s, from, to)) = to - from + 1
      /\ \A j \in 1..(to - from + 1) : SubSeq(s, from, to)[j] = s[from + j - 1]
  BY <1>1, PartOf
<1>4. /\ SubSeq(s, from, to) \in Seq(S) /\ Len(SubSeq(s, from, to)) = n
      /\ \A j \in 1..n : SubSeq(s, from, to)[j] = s[a + j]
  BY <1>1, <1>2, <1>3
<1> QED  BY <1>4 DEF from, to

LEMMA HeadAndTail ==
  ASSUME NEW S, NEW s \in Seq(S), NEW l \in Nat, Len(s) = l, NEW t \in 0..l
  PROVE  /\ SubSeq(s, 1, t) \in Seq(S) /\ Len(SubSeq(s, 1, t)) = t
         /\ \A k \in 1..t : SubSeq(s, 1, t)[k] = s[k]
         /\ SubSeq(s, t + 1, l) \in Seq(S) /\ Len(SubSeq(s, t + 1, l)) = l - t
         /\ \A k \in 1..(l - t) : SubSeq(s, t + 1, l)[k] = s[t + k]
<1> DEFINE m == l - t
<1>1. /\ t \in Nat /\ m \in Nat /\ t + m = l
      /\ 0 \in Nat /\ 0 + t <= Len(s) /\ t + m <= Len(s)
  OBVIOUS
<1> HIDE DEF m
<1>2. /\ SubSeq(s, 0 + 1, 0 + t) \in Seq(S) /\ Len(SubSeq(s, 0 + 1, 0 + t)) = t
      /\ \A k \in 1..t : SubSeq(s, 0 + 1, 0 + t)[k] = s[0 + k]
  BY <1>1, PartAt
<1>3. /\ SubSeq(s, t + 1, t + m) \in Seq(S) /\ Len(SubSeq(s, t + 1, t + m)) = m
      /\ \A k \in 1..m : SubSeq(s, t + 1, t + m)[k] = s[t + k]
  BY <1>1, PartAt
<1>4. 0 + 1 = 1 /\ 0 + t = t /\ \A k \in 1..t : 0 + k = k
  OBVIOUS
<1>5. /\ SubSeq(s, 1, t) \in Seq(S) /\ Len(SubSeq(s, 1, t)) = t
      /\ \A k \in 1..t : SubSeq(s, 1, t)[k] = s[k]
  BY <1>2, <1>4
<1>6. /\ SubSeq(s, t + 1, l) \in Seq(S) /\ Len(SubSeq(s, t + 1, l)) = m
      /\ \A k \in 1..m : SubSeq(s, t + 1, l)[k] = s[t + k]
  BY <1>1, <1>3
<1> QED  BY <1>5, <1>6 DEF m

LEMMA TwoAre ==
  ASSUME NEW S, NEW a \in S, NEW b \in S
  PROVE  <<a>> \o <<b>> = <<a, b>>
<1> DEFINE s == <<a>> \o <<b>>
           t == <<a, b>>
<1>1. /\ <<a>> \in Seq(S) /\ <<b>> \in Seq(S) /\ t \in Seq(S)
      /\ Len(<<a>>) = 1 /\ Len(<<b>>) = 1 /\ Len(t) = 2
  OBVIOUS
<1>2. /\ s \in Seq(S) /\ Len(s) = 1 + 1
      /\ \A i \in 1..(1 + 1) : s[i] = IF i <= 1 THEN <<a>>[i] ELSE <<b>>[i - 1]
  BY <1>1, ConcatProperties
<1>3. \A i \in 1..2 : s[i] = t[i]
  BY <1>2
<1> HIDE DEF s, t
<1>4. s = t
  BY <1>1, <1>2, <1>3, SeqEqual
<1> QED  BY <1>4 DEF s, t

\* Written puts s behind the first n places and leaves the others alone.
LEMMA WrittenIs ==
  ASSUME NEW b \in Seq(Nat), NEW n \in Nat, NEW s \in Seq(Nat), n + Len(s) <= Len(b)
  PROVE  /\ Written(b, n, s) \in Seq(Nat)
         /\ Len(Written(b, n, s)) = Len(b)
         /\ \A k \in 1..Len(b) :
              Written(b, n, s)[k] = IF k > n /\ k <= n + Len(s) THEN s[k - n] ELSE b[k]
<1> DEFINE W == Written(b, n, s)
<1>1. DOMAIN b = 1..Len(b) /\ Len(b) \in Nat /\ Len(s) \in Nat
  BY LenProperties
<1>2. W = [k \in 1..Len(b) |-> IF k > n /\ k <= n + Len(s) THEN s[k - n] ELSE b[k]]
  BY <1>1 DEF Written
<1>3. W \in [1..Len(b) -> Nat]
  <2>1. ASSUME NEW k \in 1..Len(b), k > n, k <= n + Len(s) PROVE s[k - n] \in Nat
    <3>1. k - n \in 1..Len(s)
      BY <1>1, <2>1
    <3> QED  BY <3>1, ElementOfSeq
  <2>2. ASSUME NEW k \in 1..Len(b) PROVE b[k] \in Nat
    BY <2>2, ElementOfSeq
  <2> QED  BY <1>2, <2>1, <2>2
<1> HIDE DEF W
<1>4. W \in Seq(Nat) /\ Len(W) = Len(b)
  BY <1>1, <1>3, FunctionIsSeq
<1>5. \A k \in 1..Len(b) : W[k] = IF k > n /\ k <= n + Len(s) THEN s[k - n] ELSE b[k]
  BY <1>2
<1> QED  BY <1>4, <1>5 DEF W

LEMMA Halves ==
  ASSUME NEW n \in Nat
  PROVE  /\ n \div BlockSize \in Nat
         /\ n % BlockSize \in 0..(BlockSize - 1)
         /\ n = (n \div BlockSize) * BlockSize + (n % BlockSize)
BY DEF BlockSize

LEMMA BlocksAre ==
  ASSUME NEW s \in Seq(Nat)
  PROVE  /\ Blocks(s) \in Seq(Seq(Nat))
         /\ Len(Blocks(s)) = Len(s) \div BlockSize
         /\ \A n \in 1..(Len(s) \div BlockSize) :
              /\ Blocks(s)[n] \in Seq(Nat)
              /\ Len(Blocks(s)[n]) = BlockSize
              /\ \A k \in 1..BlockSize : Blocks(s)[n][k] = s[(n - 1) * BlockSize + k]
<1> DEFINE q == Len(s) \div BlockSize
           part(n) == SubSeq(s, (n - 1) * BlockSize + 1, n * BlockSize)
<1>1. Len(s) \in Nat /\ q \in Nat /\ q * BlockSize <= Len(s)
  BY LenProperties, Halves DEF BlockSize
<1>2. ASSUME NEW n \in 1..q
      PROVE  /\ part(n) \in Seq(Nat) /\ Len(part(n)) = BlockSize
             /\ \A k \in 1..BlockSize : part(n)[k] = s[(n - 1) * BlockSize + k]
  <2> HIDE DEF q
  <2> DEFINE from == (n - 1) * BlockSize + 1
             to   == n * BlockSize
  <2>1. from \in 1..(Len(s) + 1) /\ to \in (from - 1)..Len(s) /\ to - from + 1 = BlockSize
    BY <1>1, <1>2 DEF BlockSize
  <2>2. \A k \in 1..BlockSize : from + k - 1 = (n - 1) * BlockSize + k
    BY <1>1, <1>2 DEF BlockSize
  <2> HIDE DEF from, to
  <2>3. /\ SubSeq(s, from, to) \in Seq(Nat) /\ Len(SubSeq(s, from, to)) = BlockSize
        /\ \A k \in 1..BlockSize : SubSeq(s, from, to)[k] = s[from + k - 1]
    BY <2>1, PartOf
  <2> QED  BY <2>2, <2>3 DEF from, to
<1>3. Blocks(s) = [n \in 1..q |-> part(n)]
  BY DEF Blocks
<1> HIDE DEF q, part
<1>4. Blocks(s) \in [1..q -> Seq(Nat)] /\ \A n \in 1..q : Blocks(s)[n] = part(n)
  BY <1>2, <1>3
<1>5. Blocks(s) \in Seq(Seq(Nat)) /\ Len(Blocks(s)) = q
  BY <1>1, <1>4, FunctionIsSeq
<1> QED  BY <1>2, <1>4, <1>5 DEF q

LEMMA RestIs ==
  ASSUME NEW s \in Seq(Nat)
  PROVE  /\ Rest(s) \in Seq(Nat)
         /\ Len(Rest(s)) = Len(s) % BlockSize
         /\ \A k \in 1..(Len(s) % BlockSize) :
              Rest(s)[k] = s[(Len(s) \div BlockSize) * BlockSize + k]
<1> DEFINE from == (Len(s) \div BlockSize) * BlockSize + 1
<1>1. Len(s) \in Nat /\ from \in 1..(Len(s) + 1) /\ Len(s) \in (from - 1)..Len(s)
        /\ Len(s) - from + 1 = Len(s) % BlockSize
  BY LenProperties, Halves DEF BlockSize
<1>2. \A k \in 1..(Len(s) % BlockSize) :
        from + k - 1 = (Len(s) \div BlockSize) * BlockSize + k
  BY LenProperties, Halves DEF BlockSize
<1>3. Rest(s) = SubSeq(s, from, Len(s))
  BY DEF Rest
<1> HIDE DEF from
<1> QED  BY <1>1, <1>2, <1>3, PartOf

LEMMA MinIs ==
  ASSUME NEW a \in Nat, NEW b \in Nat
  PROVE  Min({a, b}) = IF a <= b THEN a ELSE b
BY DEF Min

-----------------------------------------------------------------------------
(* Types, and what was added.                                              *)

\* The invariant of the buffering.
Buffered ==
  /\ TypeOK
  /\ m_numBytes = Len(m_hash) * BlockSize
  /\ NothingLost

LEMMA InitBuffered == Init => Buffered
<1> SUFFICES ASSUME Init PROVE Buffered
  OBVIOUS
<1>1. m_hash \in Seq(Seq(Nat)) /\ Len(m_hash) = 0
  BY EmptySeq DEF Init
<1>2. m_buffer \in Seq(Nat) /\ Len(m_buffer) = BlockSize
  <2>1. m_buffer \in [1..BlockSize -> Nat] /\ BlockSize \in Nat
    BY DEF Init, BlockSize
  <2> QED  BY <2>1, FunctionIsSeq
<1> QED  BY <1>1, <1>2, LengthAssumption DEF Init, Buffered, TypeOK, NothingLost, BlockSize

LEMMA ResetBuffered == Buffered /\ Reset => Buffered'
<1> SUFFICES ASSUME Buffered, Reset PROVE Buffered'
  OBVIOUS
<1>1. m_hash' \in Seq(Seq(Nat)) /\ Len(m_hash') = 0
  BY EmptySeq DEF Reset
<1> QED  BY <1>1, LengthAssumption DEF Reset, Buffered, TypeOK, NothingLost, BlockSize

\* The parts of Add.
Data(n)   == [k \in 1..n |-> Input(length + k)]
Taken(n)  == IF m_bufferSize > 0 THEN Min({n, BlockSize - m_bufferSize}) ELSE 0
First(n)  == SubSeq(Data(n), 1, Taken(n))
More(n)   == SubSeq(Data(n), Taken(n) + 1, n)
Filled(n) == Written(m_buffer, m_bufferSize, First(n))

LEMMA TakenIs ==
  ASSUME NEW n \in Nat, m_bufferSize \in 0..(BlockSize - 1)
  PROVE  /\ Taken(n) \in 0..n
         /\ m_bufferSize + Taken(n) <= BlockSize
         /\ m_bufferSize + Taken(n) \notin {0, BlockSize} => Taken(n) = n
<1> DEFINE room == BlockSize - m_bufferSize
<1>1. room \in Nat /\ m_bufferSize + room = BlockSize
  BY DEF BlockSize
<1>2. Taken(n) = IF m_bufferSize > 0 THEN Min({n, room}) ELSE 0
  BY DEF Taken
<1> HIDE DEF room
<1>3. Min({n, room}) = IF n <= room THEN n ELSE room
  BY <1>1, MinIs
<1> QED  BY <1>1, <1>2, <1>3 DEF BlockSize

LEMMA DataIs ==
  ASSUME NEW n \in Nat, length \in Nat, m_bufferSize \in 0..(BlockSize - 1)
  PROVE  /\ First(n) \in Seq(Nat) /\ Len(First(n)) = Taken(n)
         /\ \A k \in 1..Taken(n) : First(n)[k] = Input(length + k)
         /\ More(n) \in Seq(Nat) /\ Len(More(n)) = n - Taken(n)
         /\ \A k \in 1..(n - Taken(n)) : More(n)[k] = Input(length + Taken(n) + k)
<1>1. Data(n) \in Seq(Nat) /\ Len(Data(n)) = n
  <2>1. Data(n) \in [1..n -> Nat]
    BY DEF Data, Input
  <2> QED  BY <2>1, FunctionIsSeq
<1>2. \A k \in 1..n : Data(n)[k] = Input(length + k)
  BY DEF Data
<1>3. Taken(n) \in 0..n
  BY TakenIs
<1> DEFINE d == Data(n)
           t == Taken(n)
<1>4. First(n) = SubSeq(d, 1, t) /\ More(n) = SubSeq(d, t + 1, n)
  BY DEF First, More
<1>5. d \in Seq(Nat) /\ Len(d) = n /\ t \in 0..n
  BY <1>1, <1>3
<1> HIDE DEF d, t
<1>6. /\ SubSeq(d, 1, t) \in Seq(Nat) /\ Len(SubSeq(d, 1, t)) = t
      /\ \A k \in 1..t : SubSeq(d, 1, t)[k] = d[k]
      /\ SubSeq(d, t + 1, n) \in Seq(Nat) /\ Len(SubSeq(d, t + 1, n)) = n - t
      /\ \A k \in 1..(n - t) : SubSeq(d, t + 1, n)[k] = d[t + k]
  BY <1>5, HeadAndTail
<1>7. \A k \in 1..(n - t) : t + k \in 1..n /\ length + (t + k) = length + t + k
  BY <1>5
<1>8. \A k \in 1..t : k \in 1..n
  BY <1>5
<1>9. \A k \in 1..n : d[k] = Input(length + k)
  BY <1>2 DEF d
<1>10. \A k \in 1..t : First(n)[k] = Input(length + k)
  BY <1>4, <1>6, <1>8, <1>9
<1>11. \A k \in 1..(n - t) : More(n)[k] = Input(length + t + k)
  BY <1>4, <1>6, <1>7, <1>9
<1> QED  BY <1>4, <1>6, <1>10, <1>11 DEF t

LEMMA FilledIs ==
  ASSUME Buffered, NEW n \in Nat
  PROVE  /\ Filled(n) \in Seq(Nat) /\ Len(Filled(n)) = BlockSize
         /\ \A k \in 1..(m_bufferSize + Taken(n)) :
              Filled(n)[k] = Input(Len(m_hash) * BlockSize + k)
<1>1. /\ m_bufferSize \in 0..(BlockSize - 1) /\ length \in Nat /\ Len(m_hash) \in Nat
      /\ length = Len(m_hash) * BlockSize + m_bufferSize
      /\ m_buffer \in Seq(Nat) /\ Len(m_buffer) = BlockSize
  BY LenProperties, LengthAssumption DEF Buffered, TypeOK, NothingLost
<1>2. \A k \in 1..m_bufferSize : m_buffer[k] = Input(Len(m_hash) * BlockSize + k)
  BY DEF Buffered, NothingLost
<1>3. Taken(n) \in Nat /\ m_bufferSize + Taken(n) <= BlockSize
  <2>1. m_bufferSize \in 0..(BlockSize - 1)
    BY <1>1
  <2> QED  BY <2>1, TakenIs
<1>4. /\ First(n) \in Seq(Nat) /\ Len(First(n)) = Taken(n)
      /\ \A k \in 1..Taken(n) : First(n)[k] = Input(length + k)
  BY <1>1, DataIs
<1>5. /\ Filled(n) \in Seq(Nat) /\ Len(Filled(n)) = BlockSize
      /\ \A k \in 1..BlockSize :
           Filled(n)[k] = IF k > m_bufferSize /\ k <= m_bufferSize + Taken(n)
                            THEN First(n)[k - m_bufferSize] ELSE m_buffer[k]
  <2>1. m_bufferSize + Len(First(n)) <= Len(m_buffer) /\ m_bufferSize \in Nat
    BY <1>1, <1>3, <1>4 DEF BlockSize
  <2>2. m_buffer \in Seq(Nat) /\ Len(m_buffer) = BlockSize
    BY <1>1
  <2> QED  BY <1>4, <2>1, <2>2, WrittenIs DEF Filled
<1>6. ASSUME NEW k \in 1..(m_bufferSize + Taken(n))
      PROVE  Filled(n)[k] = Input(Len(m_hash) * BlockSize + k)
  <2>1. k \in 1..BlockSize
    BY <1>1, <1>3 DEF BlockSize
  <2>2. CASE k <= m_bufferSize
    <3>1. k \in 1..m_bufferSize /\ ~(k > m_bufferSize)
      BY <1>1, <2>1, <2>2 DEF BlockSize
    <3>2. Filled(n)[k] = m_buffer[k]
      BY <1>5, <2>1, <3>1
    <3> QED  BY <1>2, <3>1, <3>2
  <2>3. CASE k > m_bufferSize
    <3>1. k - m_bufferSize \in 1..Taken(n) /\ k <= m_bufferSize + Taken(n)
      BY <1>1, <1>3, <2>3 DEF BlockSize
    <3>2. Filled(n)[k] = First(n)[k - m_bufferSize]
      BY <1>5, <2>1, <2>3, <3>1
    <3>3. length + (k - m_bufferSize) = Len(m_hash) * BlockSize + k
      BY <1>1, <1>3 DEF BlockSize
    <3> QED  BY <1>4, <3>1, <3>2, <3>3
  <2> QED  BY <1>1, <2>2, <2>3 DEF BlockSize
<1> QED  BY <1>5, <1>6

\* The parts of Add, continued: whether a buffer was filled, the bytes in the
\* buffer when the rest is put behind them, the full blocks and the rest.
Full(n)   == m_bufferSize + Taken(n) = BlockSize
One(n)    == IF Full(n) THEN 1 ELSE 0
Behind(n) == IF Full(n) THEN 0 ELSE m_bufferSize + Taken(n)
Whole(n)  == Blocks(More(n))
Left(n)   == Rest(More(n))
Hashed    == Len(m_hash)
Wholes(n) == Len(Whole(n))
Lefts(n)  == Len(Left(n))

\* The block of the input at position j.
BlockAt(j) == [k \in 1..BlockSize |-> Input((j - 1) * BlockSize + k)]

LEMMA IsBlockAt ==
  ASSUME NEW j \in Nat, NEW b \in Seq(Nat), Len(b) = BlockSize,
         \A k \in 1..BlockSize : b[k] = Input((j - 1) * BlockSize + k)
  PROVE  b = BlockAt(j)
<1>1. b = [k \in 1..BlockSize |-> b[k]]
  BY LenProperties
<1> QED  BY <1>1 DEF BlockAt

\* Bytes are left behind a full buffer only, or an empty one: they start a block.
LEMMA LeftIs ==
  ASSUME Buffered, NEW n \in Nat
  PROVE  /\ Hashed \in Nat /\ Wholes(n) \in Nat /\ Lefts(n) \in 0..(BlockSize - 1)
         /\ m_bufferSize \in 0..(BlockSize - 1)
         /\ One(n) \in 0..1 /\ Behind(n) \in 0..(BlockSize - 1) /\ Taken(n) \in 0..n
         /\ length = Hashed * BlockSize + m_bufferSize
         /\ m_bufferSize + Taken(n) = One(n) * BlockSize + Behind(n)
         /\ n = Taken(n) + Wholes(n) * BlockSize + Lefts(n)
         /\ Behind(n) > 0 => Wholes(n) = 0 /\ Lefts(n) = 0 /\ One(n) = 0
<1>1. m_bufferSize \in 0..(BlockSize - 1) /\ length \in Nat
  BY LengthAssumption DEF Buffered, TypeOK
<1>2. Hashed \in Nat /\ length = Hashed * BlockSize + m_bufferSize
  BY LenProperties DEF Buffered, TypeOK, NothingLost, Hashed
<1>3. /\ Taken(n) \in 0..n /\ m_bufferSize + Taken(n) <= BlockSize
      /\ m_bufferSize + Taken(n) \notin {0, BlockSize} => Taken(n) = n
  BY <1>1, TakenIs
<1>4. /\ One(n) \in 0..1 /\ Behind(n) \in 0..(BlockSize - 1)
      /\ m_bufferSize + Taken(n) = One(n) * BlockSize + Behind(n)
      /\ Behind(n) > 0 => Taken(n) = n /\ One(n) = 0
  BY <1>1, <1>3 DEF One, Behind, Full, BlockSize
<1>5. More(n) \in Seq(Nat) /\ Len(More(n)) = n - Taken(n)
  BY <1>1, DataIs
<1>6. Wholes(n) = (n - Taken(n)) \div BlockSize /\ Lefts(n) = (n - Taken(n)) % BlockSize
  BY <1>5, BlocksAre, RestIs DEF Whole, Left, Wholes, Lefts
<1>7. n - Taken(n) \in Nat
  BY <1>3
<1>8. /\ Wholes(n) \in Nat /\ Lefts(n) \in 0..(BlockSize - 1)
      /\ n - Taken(n) = Wholes(n) * BlockSize + Lefts(n)
  BY <1>6, <1>7, Halves
<1>9. n = Taken(n) + Wholes(n) * BlockSize + Lefts(n)
  <2>1. Taken(n) \in Nat /\ Wholes(n) * BlockSize \in Nat /\ Lefts(n) \in Nat
    BY <1>3, <1>8 DEF BlockSize
  <2>2. n - Taken(n) = Wholes(n) * BlockSize + Lefts(n)
    BY <1>8
  <2> QED  BY <2>1, <2>2
<1>10. Taken(n) = n => Wholes(n) = 0
  BY <1>3, <1>8 DEF BlockSize
<1>11. Taken(n) = n => Lefts(n) = 0
  BY <1>3, <1>8 DEF BlockSize
<1> QED  BY <1>1, <1>2, <1>3, <1>4, <1>8, <1>9, <1>10, <1>11

\* The full blocks and the rest hold the bytes that belong there.
LEMMA LeftBytes ==
  ASSUME Buffered, NEW n \in Nat
  PROVE  /\ Whole(n) \in Seq(Seq(Nat)) /\ Left(n) \in Seq(Nat)
         /\ \A j \in 1..Wholes(n) : Whole(n)[j] = BlockAt(Hashed + One(n) + j)
         /\ \A k \in 1..Lefts(n) : Left(n)[k] =
              Input((Hashed + One(n) + Wholes(n)) * BlockSize + k)
<1>1. m_bufferSize \in 0..(BlockSize - 1) /\ length \in Nat
  BY LengthAssumption DEF Buffered, TypeOK
<1>2. More(n) \in Seq(Nat) /\ Len(More(n)) = n - Taken(n)
  BY <1>1, DataIs
<1>3. \A k \in 1..(n - Taken(n)) : More(n)[k] = Input(length + Taken(n) + k)
  BY <1>1, DataIs
<1>4. /\ Hashed \in Nat /\ Wholes(n) \in Nat /\ Lefts(n) \in 0..(BlockSize - 1)
      /\ One(n) \in 0..1 /\ Taken(n) \in 0..n
      /\ n = Taken(n) + Wholes(n) * BlockSize + Lefts(n)
  BY LeftIs
<1>5. length + Taken(n) = (Hashed + One(n)) * BlockSize + Behind(n) /\ Behind(n) \in Nat
  <2>1. /\ Hashed \in Nat /\ m_bufferSize \in 0..(BlockSize - 1)
        /\ One(n) \in 0..1 /\ Taken(n) \in 0..n /\ Behind(n) \in 0..(BlockSize - 1)
    BY LeftIs
  <2>2. /\ length = Hashed * BlockSize + m_bufferSize
        /\ m_bufferSize + Taken(n) = One(n) * BlockSize + Behind(n)
    BY LeftIs
  <2> QED  BY <2>1, <2>2 DEF BlockSize
<1>6. Behind(n) > 0 => Wholes(n) = 0 /\ Lefts(n) = 0
  BY LeftIs
<1>7. /\ Whole(n) \in Seq(Seq(Nat))
      /\ Wholes(n) = (n - Taken(n)) \div BlockSize
      /\ \A j \in 1..Wholes(n) :
           /\ Whole(n)[j] \in Seq(Nat) /\ Len(Whole(n)[j]) = BlockSize
           /\ \A k \in 1..BlockSize : Whole(n)[j][k] = More(n)[(j - 1) * BlockSize + k]
  BY <1>2, BlocksAre DEF Whole, Wholes
<1>8. /\ Left(n) \in Seq(Nat)
      /\ \A k \in 1..Lefts(n) : Left(n)[k] = More(n)[Wholes(n) * BlockSize + k]
  <2>1. Lefts(n) = Len(More(n)) % BlockSize /\ Wholes(n) = Len(More(n)) \div BlockSize
    BY <1>2, <1>7, RestIs DEF Left, Lefts
  <2> QED  BY <1>2, <2>1, RestIs DEF Left
<1>9. ASSUME NEW j \in 1..Wholes(n)
      PROVE  Whole(n)[j] = BlockAt(Hashed + One(n) + j)
  <2>1. ASSUME NEW k \in 1..BlockSize
        PROVE  Whole(n)[j][k] = Input(((Hashed + One(n) + j) - 1) * BlockSize + k)
    <3>1. (j - 1) * BlockSize + k \in 1..(n - Taken(n))
      BY <1>4 DEF BlockSize
    <3>2. Behind(n) = 0
      BY <1>4, <1>5, <1>6
    <3>3. length + Taken(n) = (Hashed + One(n)) * BlockSize
      BY <1>4, <1>5, <3>2 DEF BlockSize
    <3>4. length + Taken(n) + ((j - 1) * BlockSize + k)
            = ((Hashed + One(n) + j) - 1) * BlockSize + k
      BY <1>4, <3>3 DEF BlockSize
    <3> QED  BY <1>3, <1>7, <3>1, <3>4
  <2>2. Hashed + One(n) + j \in Nat
    BY <1>4
  <2>3. Whole(n)[j] \in Seq(Nat) /\ Len(Whole(n)[j]) = BlockSize
    BY <1>7
  <2> DEFINE p == Hashed + One(n) + j
  <2>4. ASSUME NEW k \in 1..BlockSize PROVE Whole(n)[j][k] = Input((p - 1) * BlockSize + k)
    BY <2>1
  <2>5. p \in Nat
    BY <2>2
  <2> HIDE DEF p
  <2>6. Whole(n)[j] = BlockAt(p)
    BY <2>3, <2>4, <2>5, IsBlockAt
  <2> QED  BY <2>6 DEF p
<1>10. ASSUME NEW k \in 1..Lefts(n)
      PROVE  Left(n)[k] = Input((Hashed + One(n) + Wholes(n)) * BlockSize + k)
  <2>1. Wholes(n) * BlockSize + k \in 1..(n - Taken(n))
    BY <1>4 DEF BlockSize
  <2>2. Behind(n) = 0
    BY <1>4, <1>5, <1>6 DEF BlockSize
  <2>3. length + Taken(n) = (Hashed + One(n)) * BlockSize
    BY <1>4, <1>5, <2>2 DEF BlockSize
  <2>4. length + Taken(n) + (Wholes(n) * BlockSize + k)
          = (Hashed + One(n) + Wholes(n)) * BlockSize + k
    BY <1>4, <2>3 DEF BlockSize
  <2> QED  BY <1>3, <1>8, <2>1, <2>4
<1> QED  BY <1>7, <1>8, <1>9, <1>10

\* What add leaves, in its parts.
Extra(n) == IF Full(n) THEN <<Filled(n)>> ELSE <<>>
Grown(n) == m_hash \o Extra(n) \o Whole(n)

LEMMA AddParts ==
  ASSUME NEW n \in Nat, Add(n)
  PROVE  /\ m_hash' = Grown(n)
         /\ m_numBytes' = m_numBytes + One(n) * BlockSize + Wholes(n) * BlockSize
         /\ m_buffer' = Written(Filled(n), Behind(n), Left(n))
         /\ m_bufferSize' = Behind(n) + Lefts(n)
         /\ length' = length + n
         /\ hash' = <<>>
<1>1. m_numBytes' = m_numBytes + (IF Full(n) THEN BlockSize ELSE 0) + Wholes(n) * BlockSize
  BY DEF Add, Wholes, Whole, More, Data, Taken, Full
<1>2. One(n) * BlockSize = IF Full(n) THEN BlockSize ELSE 0
  BY DEF One, BlockSize
<1>3. m_buffer' = Written(Filled(n), Behind(n), Left(n))
  BY DEF Add, Filled, First, Behind, Left, More, Data, Taken, Full
<1>4. m_hash' = Grown(n)
  BY DEF Add, Grown, Extra, Filled, First, Whole, More, Data, Taken, Full
<1>5. m_bufferSize' = Behind(n) + Lefts(n)
  BY DEF Add, Behind, Lefts, Left, More, Data, Taken, Full
<1> QED  BY <1>1, <1>2, <1>3, <1>4, <1>5 DEF Add

LEMMA FilledBlock ==
  ASSUME Buffered, NEW n \in Nat, Full(n)
  PROVE  Filled(n) = BlockAt(Hashed + 1)
<1>1. /\ Filled(n) \in Seq(Nat) /\ Len(Filled(n)) = BlockSize
      /\ \A k \in 1..BlockSize : Filled(n)[k] = Input(Hashed * BlockSize + k)
  BY FilledIs DEF Full, Hashed
<1>2. Hashed \in Nat
  BY LeftIs
<1>3. Hashed + 1 \in Nat /\ (Hashed + 1) - 1 = Hashed
  BY <1>2
<1> DEFINE p == Hashed + 1
<1>4. p \in Nat /\ p - 1 = Hashed
  BY <1>3
<1> HIDE DEF p
<1>5. \A k \in 1..BlockSize : Filled(n)[k] = Input((p - 1) * BlockSize + k)
  BY <1>1, <1>4
<1>6. Filled(n) = BlockAt(p)
  BY <1>1, <1>4, <1>5, IsBlockAt
<1> QED  BY <1>6 DEF p

LEMMA HashGrows ==
  ASSUME Buffered, NEW n \in Nat
  PROVE  /\ Grown(n) \in Seq(Seq(Nat))
         /\ Len(Grown(n)) = Hashed + One(n) + Wholes(n)
         /\ \A j \in 1..(Hashed + One(n) + Wholes(n)) : Grown(n)[j] = BlockAt(j)
<1>1. m_hash \in Seq(Seq(Nat)) /\ \A j \in 1..Hashed : m_hash[j] = BlockAt(j)
  BY DEF Buffered, TypeOK, NothingLost, BlockAt, Hashed
<1>2. Hashed \in Nat /\ One(n) \in Nat /\ Wholes(n) \in Nat
  <2>1. Hashed \in Nat /\ One(n) \in 0..1 /\ Wholes(n) \in Nat
    BY LeftIs
  <2> QED  BY <2>1
<1>3. /\ Whole(n) \in Seq(Seq(Nat)) /\ Len(Whole(n)) = Wholes(n)
      /\ \A j \in 1..Wholes(n) : Whole(n)[j] = BlockAt(Hashed + One(n) + j)
  BY LeftBytes DEF Wholes
<1>4. /\ Extra(n) \in Seq(Seq(Nat)) /\ Len(Extra(n)) = One(n)
      /\ \A j \in 1..One(n) : Extra(n)[j] = BlockAt(Hashed + j)
  <2>1. CASE Full(n)
    <3>1. Filled(n) \in Seq(Nat)
      BY FilledIs
    <3>2. Extra(n) = <<Filled(n)>> /\ One(n) = 1
      BY <2>1 DEF Extra, One
    <3> QED  BY <2>1, <3>1, <3>2, FilledBlock
  <2>2. CASE ~Full(n)
    <3>1. Extra(n) = <<>> /\ One(n) = 0
      BY <2>2 DEF Extra, One
    <3> QED  BY <3>1
  <2> QED  BY <2>1, <2>2
<1> DEFINE two == m_hash \o Extra(n)
<1>5. /\ two \in Seq(Seq(Nat)) /\ Len(two) = Hashed + One(n)
      /\ \A j \in 1..(Hashed + One(n)) : two[j] = BlockAt(j)
  <2>1. /\ two \in Seq(Seq(Nat)) /\ Len(two) = Hashed + One(n)
        /\ \A j \in 1..(Hashed + One(n)) :
             two[j] = IF j <= Hashed THEN m_hash[j] ELSE Extra(n)[j - Hashed]
    <3>1. /\ two \in Seq(Seq(Nat)) /\ Len(two) = Len(m_hash) + Len(Extra(n))
          /\ \A j \in 1..(Len(m_hash) + Len(Extra(n))) :
               two[j] = IF j <= Len(m_hash) THEN m_hash[j] ELSE Extra(n)[j - Len(m_hash)]
      BY <1>1, <1>4, ConcatProperties
    <3>2. Len(m_hash) = Hashed /\ Len(Extra(n)) = One(n)
      BY <1>4 DEF Hashed
    <3> HIDE DEF two
    <3> QED  BY <3>1, <3>2
  <2>2. ASSUME NEW j \in 1..(Hashed + One(n)) PROVE two[j] = BlockAt(j)
    <3> HIDE DEF two
    <3>1. CASE j <= Hashed
      <4>1. j \in 1..Hashed
        BY <1>2, <3>1
      <4> QED  BY <1>1, <2>1, <3>1, <4>1
    <3>2. CASE ~(j <= Hashed)
      <4>1. j - Hashed \in 1..One(n) /\ Hashed + (j - Hashed) = j
        BY <1>2, <3>2
      <4>2. two[j] = Extra(n)[j - Hashed]
        BY <2>1, <3>2
      <4>3. Extra(n)[j - Hashed] = BlockAt(Hashed + (j - Hashed))
        BY <1>4, <4>1
      <4> QED  BY <4>1, <4>2, <4>3
    <3> QED  BY <3>1, <3>2
  <2> QED  BY <2>1, <2>2
<1>6. Grown(n) = two \o Whole(n)
  BY DEF Grown
<1> HIDE DEF two
<1> DEFINE q == Hashed + One(n)
<1>7. q \in Nat
  BY <1>2
<1>8. /\ two \in Seq(Seq(Nat)) /\ Len(two) = q
      /\ \A j \in 1..q : two[j] = BlockAt(j)
      /\ \A j \in 1..Wholes(n) : Whole(n)[j] = BlockAt(q + j)
  BY <1>3, <1>5
<1> HIDE DEF q
<1>9. /\ Grown(n) \in Seq(Seq(Nat)) /\ Len(Grown(n)) = q + Wholes(n)
      /\ \A j \in 1..(q + Wholes(n)) :
           Grown(n)[j] = IF j <= q THEN two[j] ELSE Whole(n)[j - q]
  <2>1. /\ Grown(n) \in Seq(Seq(Nat)) /\ Len(Grown(n)) = Len(two) + Len(Whole(n))
        /\ \A j \in 1..(Len(two) + Len(Whole(n))) :
             Grown(n)[j] = IF j <= Len(two) THEN two[j] ELSE Whole(n)[j - Len(two)]
    <3>1. two \in Seq(Seq(Nat)) /\ Whole(n) \in Seq(Seq(Nat))
      BY <1>3, <1>8
    <3> QED  BY <1>6, <3>1, ConcatProperties
  <2>2. Len(two) = q /\ Len(Whole(n)) = Wholes(n)
    BY <1>3, <1>8
  <2> QED  BY <2>1, <2>2
<1>10. ASSUME NEW j \in 1..(q + Wholes(n)) PROVE Grown(n)[j] = BlockAt(j)
  <2>1. CASE j <= q
    <3>1. j \in 1..q
      BY <1>2, <1>7, <2>1
    <3> QED  BY <1>8, <1>9, <2>1, <3>1
  <2>2. CASE ~(j <= q)
    <3>1. j - q \in 1..Wholes(n) /\ q + (j - q) = j
      BY <1>2, <1>7, <2>2
    <3>2. Grown(n)[j] = Whole(n)[j - q]
      BY <1>9, <2>2
    <3>3. Whole(n)[j - q] = BlockAt(q + (j - q))
      BY <1>8, <3>1
    <3> QED  BY <3>1, <3>2, <3>3
  <2> QED  BY <2>1, <2>2
<1> QED  BY <1>9, <1>10 DEF q

LEMMA BufferGrows ==
  ASSUME Buffered, NEW n \in Nat
  PROVE  LET b == Written(Filled(n), Behind(n), Left(n))
         IN /\ b \in Seq(Nat) /\ Len(b) = BlockSize
            /\ \A k \in 1..(Behind(n) + Lefts(n)) :
                 b[k] = Input((Hashed + One(n) + Wholes(n)) * BlockSize + k)
<1> DEFINE b == Written(Filled(n), Behind(n), Left(n))
<1>1. /\ Filled(n) \in Seq(Nat) /\ Len(Filled(n)) = BlockSize
      /\ \A k \in 1..(m_bufferSize + Taken(n)) : Filled(n)[k] = Input(Hashed * BlockSize + k)
  BY FilledIs DEF Hashed
<1>2. /\ Left(n) \in Seq(Nat) /\ Len(Left(n)) = Lefts(n)
      /\ \A k \in 1..Lefts(n) :
           Left(n)[k] = Input((Hashed + One(n) + Wholes(n)) * BlockSize + k)
  BY LeftBytes DEF Lefts
<1>3. Behind(n) \in 0..(BlockSize - 1) /\ Lefts(n) \in 0..(BlockSize - 1) /\ Hashed \in Nat
  BY LeftIs
<1>4. Behind(n) > 0 => Wholes(n) = 0 /\ Lefts(n) = 0 /\ One(n) = 0
  BY LeftIs
<1>5. Behind(n) + Lefts(n) <= BlockSize /\ Behind(n) \in Nat /\ Lefts(n) \in Nat
  BY <1>3, <1>4 DEF BlockSize
<1>6. /\ b \in Seq(Nat) /\ Len(b) = BlockSize
      /\ \A k \in 1..BlockSize :
           b[k] = IF k > Behind(n) /\ k <= Behind(n) + Lefts(n)
                    THEN Left(n)[k - Behind(n)] ELSE Filled(n)[k]
  BY <1>1, <1>2, <1>5, WrittenIs
<1> HIDE DEF b
<1>7. ASSUME NEW k \in 1..(Behind(n) + Lefts(n))
      PROVE  b[k] = Input((Hashed + One(n) + Wholes(n)) * BlockSize + k)
  <2>1. k \in 1..BlockSize
    BY <1>5 DEF BlockSize
  <2>2. CASE Behind(n) = 0
    <3>1. k > Behind(n) /\ k <= Behind(n) + Lefts(n) /\ k - Behind(n) = k /\ k \in 1..Lefts(n)
      BY <1>5, <2>2
    <3>2. b[k] = Left(n)[k]
      BY <1>6, <2>1, <3>1
    <3> QED  BY <1>2, <3>1, <3>2
  <2>3. CASE Behind(n) > 0
    <3>1. Lefts(n) = 0 /\ Wholes(n) = 0 /\ One(n) = 0
      BY <1>4, <2>3
    <3>2. ~(k > Behind(n)) /\ k \in 1..Behind(n)
      BY <1>5, <3>1
    <3>3. Behind(n) = m_bufferSize + Taken(n)
      BY <2>3 DEF Behind
    <3>4. b[k] = Filled(n)[k]
      BY <1>6, <2>1, <3>2
    <3>5. Hashed + One(n) + Wholes(n) = Hashed
      BY <1>3, <3>1
    <3> QED  BY <1>1, <3>2, <3>3, <3>4, <3>5
  <2> QED  BY <1>5, <2>2, <2>3
<1> QED  BY <1>6, <1>7 DEF b

\* add loses nothing: the bytes it is given are in the blocks it processes or
\* wait, each in its place.
LEMMA AddBuffered ==
  ASSUME Buffered, NEW n \in Chunk, length + n <= MaxLength, Add(n)
  PROVE  Buffered'
<1>1. n \in Nat /\ length \in Nat /\ MaxLength \in Nat
  BY LengthAssumption DEF Buffered, TypeOK
<1>2. /\ m_hash' = Grown(n)
      /\ m_numBytes' = m_numBytes + One(n) * BlockSize + Wholes(n) * BlockSize
      /\ m_buffer' = Written(Filled(n), Behind(n), Left(n))
      /\ m_bufferSize' = Behind(n) + Lefts(n)
      /\ length' = length + n
  BY <1>1, AddParts
<1> DEFINE q == Hashed + One(n) + Wholes(n)
<1>3. /\ m_hash' \in Seq(Seq(Nat)) /\ Len(m_hash') = q
      /\ \A j \in 1..q : m_hash'[j] = BlockAt(j)
  BY <1>1, <1>2, HashGrows
<1>4. /\ m_buffer' \in Seq(Nat) /\ Len(m_buffer') = BlockSize
      /\ \A k \in 1..m_bufferSize' : m_buffer'[k] = Input(q * BlockSize + k)
  BY <1>1, <1>2, BufferGrows
<1>5. /\ Hashed \in Nat /\ One(n) \in 0..1 /\ Wholes(n) \in Nat /\ Taken(n) \in 0..n
      /\ Behind(n) \in 0..(BlockSize - 1) /\ Lefts(n) \in 0..(BlockSize - 1)
      /\ m_bufferSize \in 0..(BlockSize - 1)
  BY <1>1, LeftIs
<1>6. Behind(n) > 0 => Lefts(n) = 0
  BY <1>1, LeftIs
<1>7. m_bufferSize' \in 0..(BlockSize - 1)
  BY <1>2, <1>5, <1>6 DEF BlockSize
<1>8. length' = q * BlockSize + m_bufferSize'
  <2>1. length = Hashed * BlockSize + m_bufferSize
    BY <1>1, LeftIs
  <2>2. m_bufferSize + Taken(n) = One(n) * BlockSize + Behind(n)
    BY <1>1, LeftIs
  <2>3. n = Taken(n) + Wholes(n) * BlockSize + Lefts(n)
    BY <1>1, LeftIs
  <2>4. length' = Hashed * BlockSize + (m_bufferSize + Taken(n))
                    + Wholes(n) * BlockSize + Lefts(n)
    <3>1. length' = length + n /\ length \in Nat
      BY <1>1, <1>2
    <3>2. Hashed \in Nat /\ Wholes(n) \in Nat /\ Taken(n) \in Nat /\ Lefts(n) \in Nat
            /\ m_bufferSize \in Nat
      BY <1>5 DEF BlockSize
    <3>3. Hashed * BlockSize \in Nat /\ Wholes(n) * BlockSize \in Nat
      BY <3>2 DEF BlockSize
    <3> QED  BY <2>1, <2>3, <3>1, <3>2, <3>3
  <2>5. length' = Hashed * BlockSize + One(n) * BlockSize + Behind(n)
                    + Wholes(n) * BlockSize + Lefts(n)
    BY <1>5, <2>2, <2>4 DEF BlockSize
  <2> QED  BY <1>2, <1>5, <2>5 DEF BlockSize
<1>9. m_numBytes' = q * BlockSize
  <2>1. m_numBytes = Hashed * BlockSize
    BY DEF Buffered, Hashed
  <2> QED  BY <1>2, <1>5, <2>1 DEF BlockSize
<1>10. q * BlockSize \in Nat /\ length' \in 0..MaxLength
  BY <1>1, <1>2, <1>5 DEF BlockSize
<1> HIDE DEF q
<1>11. TypeOK'
  BY <1>3, <1>4, <1>7, <1>9, <1>10 DEF TypeOK
<1>12. NothingLost'
  BY <1>3, <1>4, <1>8 DEF NothingLost, BlockAt
<1> QED  BY <1>3, <1>9, <1>11, <1>12 DEF Buffered

-----------------------------------------------------------------------------
(* The padding.                                                            *)

LEMMA PaddedLengthIs ==
  ASSUME m_bufferSize \in 0..(BlockSize - 1)
  PROVE  PaddedLength = IF m_bufferSize <= 55 THEN 56 ELSE 120
<1> DEFINE bits == m_bufferSize * 8 + 1
<1>1. bits \in Nat /\ bits % 512 = bits
  BY DEF BlockSize
<1>2. PaddedLength =
        (bits + (IF bits <= 448 THEN 448 - bits ELSE 512 + 448 - bits)) \div 8
  BY <1>1 DEF PaddedLength
<1>3. CASE m_bufferSize <= 55
  <2>1. bits <= 448 /\ bits + (448 - bits) = 448
    BY <1>3 DEF BlockSize
  <2>2. PaddedLength = 448 \div 8
    BY <1>2, <2>1
  <2> QED  BY <1>3, <2>2
<1>4. CASE ~(m_bufferSize <= 55)
  <2>1. ~(bits <= 448) /\ bits + (512 + 448 - bits) = 960
    BY <1>4 DEF BlockSize
  <2>2. PaddedLength = 960 \div 8
    BY <1>2, <2>1
  <2> QED  BY <1>4, <2>2
<1> QED  BY <1>3, <1>4

LEMMA BigEndianIs ==
  ASSUME NEW n \in Nat
  PROVE  BigEndian(n) \in Seq(Nat) /\ Len(BigEndian(n)) = 8
<1> DEFINE place   == <<16777216, 65536, 256, 1>>
           word(w) == [k \in 1..4 |-> (w \div place[k]) % 256]
<1>1. ASSUME NEW w \in Nat PROVE word(w) \in Seq(Nat) /\ Len(word(w)) = 4
  <2>1. ASSUME NEW k \in 1..4 PROVE (w \div place[k]) % 256 \in Nat
    <3>1. place[k] \in Nat \ {0}
      BY <2>1, SMT
    <3> HIDE DEF place
    <3>2. w \div place[k] \in Nat
      BY <3>1, SMT
    <3> QED  BY <3>2, SMT
  <2> HIDE DEF place
  <2>2. word(w) \in [1..4 -> Nat]
    BY <2>1
  <2> QED  BY <2>2, FunctionIsSeq
<1> DEFINE high == (n \div 16777216) \div 256
<1>2. high \in Nat
  BY SMT
<1>3. BigEndian(n) = word(high) \o word(n)
  BY SMT DEF BigEndian
<1> HIDE DEF word, place, high
<1> DEFINE four == word(high)
           last == word(n)
<1>4. /\ four \in Seq(Nat) /\ Len(four) = 4 /\ last \in Seq(Nat) /\ Len(last) = 4
      /\ BigEndian(n) = four \o last
  BY <1>1, <1>2, <1>3
<1> HIDE DEF four, last
<1>5. four \o last \in Seq(Nat) /\ Len(four \o last) = Len(four) + Len(last)
  <2>1. four \in Seq(Nat) /\ last \in Seq(Nat)
    BY <1>4
  <2> QED  BY <2>1, ConcatProperties
<1> QED  BY <1>4, <1>5

\* The zeros of a padding, and what stands before the message length.
Zeros == PaddedLength - m_bufferSize - 1
Short == <<128>> \o [n \in 1..Zeros |-> 0]

LEMMA PaddingIs ==
  ASSUME Buffered
  PROVE  /\ Short \in Seq(Nat)
         /\ Padding = Short \o BigEndian(8 * length)
         /\ Padding \in Seq(Nat)
         /\ Len(Padding) = PaddedLength + 8 - m_bufferSize
<1>1. m_bufferSize \in 0..(BlockSize - 1) /\ length \in Nat
  BY LengthAssumption DEF Buffered, TypeOK
<1>2. PaddedLength = IF m_bufferSize <= 55 THEN 56 ELSE 120
  BY <1>1, PaddedLengthIs
<1>3. Zeros \in Nat /\ 1 + Zeros + 8 = PaddedLength + 8 - m_bufferSize
  BY <1>1, <1>2 DEF BlockSize, Zeros
<1>4. [n \in 1..Zeros |-> 0] \in Seq(Nat) /\ Len([n \in 1..Zeros |-> 0]) = Zeros
  <2>1. [n \in 1..Zeros |-> 0] \in [1..Zeros -> Nat]
    OBVIOUS
  <2> QED  BY <1>3, <2>1, FunctionIsSeq
<1>5. <<128>> \in Seq(Nat) /\ Len(<<128>>) = 1
  OBVIOUS
<1>6. Short \in Seq(Nat) /\ Len(Short) = 1 + Zeros
  <2> DEFINE zeros == [n \in 1..Zeros |-> 0]
  <2>1. Short = <<128>> \o zeros
    BY DEF Short
  <2>2. zeros \in Seq(Nat) /\ Len(zeros) = Zeros
    BY <1>4
  <2> HIDE DEF zeros
  <2>3. Short \in Seq(Nat) /\ Len(Short) = Len(<<128>>) + Len(zeros)
    BY <1>5, <2>1, <2>2, ConcatProperties
  <2> QED  BY <1>5, <2>2, <2>3
<1>7. BigEndian(8 * length) \in Seq(Nat) /\ Len(BigEndian(8 * length)) = 8
  BY <1>1, BigEndianIs
<1>8. m_numBytes + m_bufferSize = length
  BY DEF Buffered, NothingLost
<1>9. Padding = Short \o BigEndian(8 * length)
  BY <1>8 DEF Padding, Short, Zeros
<1>10. Padding \in Seq(Nat) /\ Len(Padding) = Len(Short) + Len(BigEndian(8 * length))
  BY <1>6, <1>7, <1>9, ConcatProperties
<1> QED  BY <1>3, <1>6, <1>7, <1>9, <1>10

\* The padding of the buffer is that of the whole message.
LEMMA ZerosAre ==
  ASSUME Buffered
  PROVE  Zeros = CHOOSE z \in 0..(BlockSize - 1) : (length + 1 + z + 8) % BlockSize = 0
<1>1. m_bufferSize \in 0..(BlockSize - 1) /\ Len(m_hash) \in Nat
  BY LenProperties DEF Buffered, TypeOK
<1>2. PaddedLength = IF m_bufferSize <= 55 THEN 56 ELSE 120
  BY <1>1, PaddedLengthIs
<1> DEFINE h == Len(m_hash)
<1>3. length = h * BlockSize + m_bufferSize /\ h \in Nat
  BY <1>1 DEF Buffered, NothingLost
<1> HIDE DEF h
<1>4. Zeros \in 0..(BlockSize - 1)
  BY <1>1, <1>2 DEF Zeros, BlockSize
<1>5. (length + 1 + Zeros + 8) % BlockSize = 0
  <2>1. CASE m_bufferSize <= 55
    <3>1. length + 1 + Zeros + 8 = (h + 1) * 64
      BY <1>1, <1>2, <1>3, <2>1 DEF Zeros, BlockSize
    <3>2. ((h + 1) * 64) % 64 = 0
      BY <1>3
    <3> QED  BY <3>1, <3>2 DEF BlockSize
  <2>2. CASE ~(m_bufferSize <= 55)
    <3>1. length + 1 + Zeros + 8 = (h + 2) * 64
      BY <1>1, <1>2, <1>3, <2>2 DEF Zeros, BlockSize
    <3>2. ((h + 2) * 64) % 64 = 0
      BY <1>3
    <3> QED  BY <3>1, <3>2 DEF BlockSize
  <2> QED  BY <2>1, <2>2
<1>6. ASSUME NEW y \in 0..(BlockSize - 1), (length + 1 + y + 8) % BlockSize = 0
      PROVE  y = Zeros
  <2> DEFINE a == length + 9
  <2>1. a \in Nat /\ length + 1 + y + 8 = a + y /\ length + 1 + Zeros + 8 = a + Zeros
    BY <1>1, <1>3, <1>4 DEF BlockSize
  <2>2. (a + y) % 64 = 0 /\ (a + Zeros) % 64 = 0
    BY <1>5, <1>6, <2>1 DEF BlockSize
  <2>3. y \in 0..63 /\ Zeros \in 0..63
    BY <1>4 DEF BlockSize
  <2> HIDE DEF a
  <2> QED  BY <2>1, <2>2, <2>3
<1> QED  BY <1>4, <1>5, <1>6

\* The bytes added.
Inputs == [p \in 1..length |-> Input(p)]

LEMMA PaddedIs ==
  ASSUME Buffered
  PROVE  /\ Padded(length) \in Seq(Nat)
         /\ Len(Padded(length)) = Hashed * BlockSize + PaddedLength + 8
         /\ \A k \in 1..length : Padded(length)[k] = Input(k)
         /\ \A k \in (length + 1)..(Hashed * BlockSize + PaddedLength + 8) :
              Padded(length)[k] = Padding[k - length]
<1>1. /\ length \in Nat /\ Hashed \in Nat /\ m_bufferSize \in 0..(BlockSize - 1)
      /\ length = Hashed * BlockSize + m_bufferSize
  BY LengthAssumption, LenProperties DEF Buffered, TypeOK, NothingLost, Hashed
<1>2. /\ Inputs \in Seq(Nat) /\ Len(Inputs) = length
      /\ \A k \in 1..length : Inputs[k] = Input(k)
  <2>1. Inputs \in [1..length -> Nat]
    BY <1>1 DEF Inputs, Input
  <2> QED  BY <1>1, <2>1, FunctionIsSeq DEF Inputs
<1>3. /\ Short \in Seq(Nat) /\ Padding \in Seq(Nat)
      /\ Padding = Short \o BigEndian(8 * length)
      /\ Len(Padding) = PaddedLength + 8 - m_bufferSize
  BY PaddingIs
<1>4. Padded(length) = Inputs \o Padding
  <2> DEFINE zeros == [z \in 1..Zeros |-> 0]
  <2>1. Padded(length) = Inputs \o <<128>> \o zeros \o BigEndian(8 * length)
    BY ZerosAre DEF Padded, Inputs
  <2>2. zeros \in Seq(Nat) /\ <<128>> \in Seq(Nat)
    <3>1. zeros \in [1..Zeros -> Nat] /\ Zeros \in Nat
      BY <1>1, PaddedLengthIs DEF Zeros, BlockSize
    <3>2. zeros \in Seq(Nat)
      BY <3>1, FunctionIsSeq
    <3> QED  BY <3>2
  <2>3. BigEndian(8 * length) \in Seq(Nat)
    BY <1>1, BigEndianIs
  <2>4. Short = <<128>> \o zeros
    BY DEF Short
  <2> HIDE DEF zeros
  <2>5. Inputs \o <<128>> \o zeros = Inputs \o Short
    BY <1>2, <2>2, <2>4, ConcatAssociative
  <2>6. (Inputs \o Short) \o BigEndian(8 * length) = Inputs \o Padding
    <3> DEFINE be == BigEndian(8 * length)
    <3>1. Inputs \in Seq(Nat) /\ Short \in Seq(Nat) /\ be \in Seq(Nat) /\ Padding = Short \o be
      BY <1>2, <1>3, <2>3
    <3> HIDE DEF be
    <3>2. (Inputs \o Short) \o be = Inputs \o (Short \o be)
      BY <3>1, ConcatAssociative
    <3>3. (Inputs \o Short) \o be = Inputs \o Padding
      BY <3>1, <3>2
    <3> QED  BY <3>3 DEF be
  <2> QED  BY <2>1, <2>5, <2>6
<1>5. /\ Padded(length) \in Seq(Nat)
      /\ Len(Padded(length)) = Len(Inputs) + Len(Padding)
      /\ \A k \in 1..(Len(Inputs) + Len(Padding)) :
           Padded(length)[k] = IF k <= Len(Inputs) THEN Inputs[k] ELSE Padding[k - Len(Inputs)]
  <2>1. Inputs \in Seq(Nat) /\ Padding \in Seq(Nat)
    BY <1>2, <1>3
  <2> QED  BY <1>4, <2>1, ConcatProperties
<1>6. PaddedLength = IF m_bufferSize <= 55 THEN 56 ELSE 120
  BY <1>1, PaddedLengthIs
<1> DEFINE all == Hashed * BlockSize + PaddedLength + 8
<1>7. Len(Inputs) + Len(Padding) = all /\ length <= all /\ all \in Nat
  BY <1>1, <1>2, <1>3, <1>6 DEF BlockSize
<1> HIDE DEF all
<1>8. \A k \in 1..all :
        Padded(length)[k] = IF k <= length THEN Inputs[k] ELSE Padding[k - length]
  BY <1>2, <1>5, <1>7
<1>9. ASSUME NEW k \in 1..length PROVE Padded(length)[k] = Input(k)
  <2>1. k \in 1..all /\ k <= length
    BY <1>1, <1>7
  <2> QED  BY <1>2, <1>8, <2>1
<1>10. ASSUME NEW k \in (length + 1)..all PROVE Padded(length)[k] = Padding[k - length]
  <2>1. k \in 1..all /\ ~(k <= length)
    BY <1>1, <1>7
  <2> QED  BY <1>8, <2>1
<1> QED  BY <1>5, <1>7, <1>9, <1>10 DEF all

-----------------------------------------------------------------------------
(* getHash.                                                                *)

\* The two blocks of processBuffer: the buffer and the block extra.
Both       == Written(m_buffer \o [n \in 1..BlockSize |-> 0], m_bufferSize, Padding)
FirstBlock == SubSeq(Both, 1, BlockSize)
ExtraBlock == SubSeq(Both, BlockSize + 1, 2 * BlockSize)

LEMMA BothIs ==
  ASSUME Buffered
  PROVE  /\ Both \in Seq(Nat) /\ Len(Both) = 2 * BlockSize
         /\ \A k \in 1..m_bufferSize : Both[k] = Input(Hashed * BlockSize + k)
         /\ \A k \in (m_bufferSize + 1)..(PaddedLength + 8) :
              Both[k] = Padding[k - m_bufferSize]
<1> DEFINE zeros == [n \in 1..BlockSize |-> 0]
           buffer == m_buffer \o zeros
<1>1. /\ m_buffer \in Seq(Nat) /\ Len(m_buffer) = BlockSize
      /\ m_bufferSize \in 0..(BlockSize - 1)
  BY DEF Buffered, TypeOK
<1>2. \A k \in 1..m_bufferSize : m_buffer[k] = Input(Hashed * BlockSize + k)
  BY DEF Buffered, NothingLost, Hashed
<1>3. zeros \in Seq(Nat) /\ Len(zeros) = BlockSize
  <2>1. zeros \in [1..BlockSize -> Nat] /\ BlockSize \in Nat
    BY DEF BlockSize
  <2> QED  BY <2>1, FunctionIsSeq
<1>4. Padding \in Seq(Nat) /\ Len(Padding) = PaddedLength + 8 - m_bufferSize
  BY PaddingIs
<1>5. PaddedLength \in {56, 120}
  BY <1>1, PaddedLengthIs
<1>6. Both = Written(buffer, m_bufferSize, Padding)
  BY DEF Both
<1> HIDE DEF zeros
<1>7. /\ buffer \in Seq(Nat) /\ Len(buffer) = Len(m_buffer) + Len(zeros)
      /\ \A k \in 1..(Len(m_buffer) + Len(zeros)) :
           buffer[k] = IF k <= Len(m_buffer) THEN m_buffer[k] ELSE zeros[k - Len(m_buffer)]
  <2>1. m_buffer \in Seq(Nat) /\ zeros \in Seq(Nat)
    BY <1>1, <1>3
  <2> QED  BY <2>1, ConcatProperties
<1> HIDE DEF buffer
<1>8. Len(m_buffer) = 64 /\ Len(zeros) = 64 /\ Len(m_buffer) + Len(zeros) = 128
  BY <1>1, <1>3 DEF BlockSize
<1>9. buffer \in Seq(Nat) /\ Len(buffer) = 128 /\ \A k \in 1..64 : buffer[k] = m_buffer[k]
  BY <1>7, <1>8
<1>10. /\ m_bufferSize \in Nat /\ m_bufferSize <= 63
       /\ m_bufferSize + Len(Padding) = PaddedLength + 8
  BY <1>1, <1>4, <1>5 DEF BlockSize
<1>11. /\ Both \in Seq(Nat) /\ Len(Both) = 128
       /\ \A k \in 1..128 :
            Both[k] = IF k > m_bufferSize /\ k <= PaddedLength + 8
                        THEN Padding[k - m_bufferSize] ELSE buffer[k]
  <2>1. m_bufferSize + Len(Padding) <= Len(buffer)
    BY <1>5, <1>9, <1>10
  <2>2. Padding \in Seq(Nat) /\ buffer \in Seq(Nat) /\ m_bufferSize \in Nat
    BY <1>4, <1>9, <1>10
  <2>3. /\ Both \in Seq(Nat) /\ Len(Both) = Len(buffer)
        /\ \A k \in 1..Len(buffer) :
             Both[k] = IF k > m_bufferSize /\ k <= m_bufferSize + Len(Padding)
                         THEN Padding[k - m_bufferSize] ELSE buffer[k]
    BY <1>6, <2>1, <2>2, WrittenIs
  <2>4. Len(buffer) = 128 /\ m_bufferSize + Len(Padding) = PaddedLength + 8
    BY <1>9, <1>10
  <2> QED  BY <2>3, <2>4
<1>12. ASSUME NEW k \in 1..m_bufferSize PROVE Both[k] = Input(Hashed * BlockSize + k)
  <2>1. k \in 1..128 /\ k \in 1..64 /\ ~(k > m_bufferSize)
    BY <1>10
  <2>2. Both[k] = buffer[k]
    BY <1>11, <2>1
  <2> QED  BY <1>2, <1>9, <2>1, <2>2
<1>13. ASSUME NEW k \in (m_bufferSize + 1)..(PaddedLength + 8)
       PROVE  Both[k] = Padding[k - m_bufferSize]
  <2>1. k \in 1..128 /\ k > m_bufferSize /\ k <= PaddedLength + 8
    BY <1>5, <1>10
  <2> QED  BY <1>11, <2>1
<1>14. 2 * BlockSize = 128
  BY DEF BlockSize
<1> QED  BY <1>11, <1>12, <1>13, <1>14

\* The two blocks, byte by byte, are those of the padded message.
LEMMA LastBlocksAre ==
  ASSUME Buffered
  PROVE  /\ FirstBlock \in Seq(Nat) /\ Len(FirstBlock) = BlockSize
         /\ \A k \in 1..m_bufferSize : FirstBlock[k] = Input(Hashed * BlockSize + k)
         /\ \A k \in 1..BlockSize : FirstBlock[k] = Padded(length)[Hashed * BlockSize + k]
         /\ PaddedLength > BlockSize =>
              /\ ExtraBlock \in Seq(Nat) /\ Len(ExtraBlock) = BlockSize
              /\ \A k \in 1..BlockSize :
                   ExtraBlock[k] = Padded(length)[(Hashed + 1) * BlockSize + k]
<1>1. /\ Hashed \in Nat /\ m_bufferSize \in 0..(BlockSize - 1) /\ length \in Nat
      /\ length = Hashed * BlockSize + m_bufferSize
  BY LengthAssumption, LenProperties DEF Buffered, TypeOK, NothingLost, Hashed
<1>2. PaddedLength \in {56, 120}
  BY <1>1, PaddedLengthIs
<1>3. /\ Both \in Seq(Nat) /\ Len(Both) = 128
      /\ \A k \in 1..m_bufferSize : Both[k] = Input(Hashed * BlockSize + k)
      /\ \A k \in (m_bufferSize + 1)..(PaddedLength + 8) : Both[k] = Padding[k - m_bufferSize]
  BY BothIs DEF BlockSize
<1>4. /\ \A k \in 1..length : Padded(length)[k] = Input(k)
      /\ \A k \in (length + 1)..(Hashed * BlockSize + PaddedLength + 8) :
           Padded(length)[k] = Padding[k - length]
  BY PaddedIs
<1>5. ASSUME NEW k \in 1..(PaddedLength + 8)
      PROVE  Both[k] = Padded(length)[Hashed * BlockSize + k]
  <2>1. CASE k <= m_bufferSize
    <3>1. k \in 1..m_bufferSize /\ Hashed * BlockSize + k \in 1..length
      BY <1>1, <1>2, <2>1 DEF BlockSize
    <3> QED  BY <1>3, <1>4, <3>1
  <2>2. CASE ~(k <= m_bufferSize)
    <3>1. k \in (m_bufferSize + 1)..(PaddedLength + 8)
      BY <1>1, <1>2, <2>2 DEF BlockSize
    <3>2. Hashed * BlockSize + k \in (length + 1)..(Hashed * BlockSize + PaddedLength + 8)
      BY <1>1, <1>2, <2>2 DEF BlockSize
    <3>3. (Hashed * BlockSize + k) - length = k - m_bufferSize
      BY <1>1, <1>2 DEF BlockSize
    <3>4. Padded(length)[Hashed * BlockSize + k] = Padding[(Hashed * BlockSize + k) - length]
      BY <1>4, <3>2
    <3>5. Both[k] = Padding[k - m_bufferSize]
      BY <1>3, <3>1
    <3> QED  BY <3>3, <3>4, <3>5
  <2> QED  BY <2>1, <2>2
<1>6. /\ FirstBlock \in Seq(Nat) /\ Len(FirstBlock) = 64
      /\ \A k \in 1..64 : FirstBlock[k] = Both[k]
  <2> DEFINE a == 0
             n == 64
  <2>1. a \in Nat /\ n \in Nat /\ a + n <= Len(Both) /\ \A k \in 1..64 : a + k = k
    BY <1>3
  <2>2. FirstBlock = SubSeq(Both, a + 1, a + n)
    BY DEF FirstBlock, BlockSize
  <2>3. n = 64
    OBVIOUS
  <2> HIDE DEF a, n
  <2>4. /\ FirstBlock \in Seq(Nat) /\ Len(FirstBlock) = n
        /\ \A k \in 1..n : FirstBlock[k] = Both[a + k]
    <3>1. Both \in Seq(Nat) /\ a \in Nat /\ n \in Nat /\ a + n <= Len(Both)
      BY <1>3, <2>1
    <3> QED  BY <2>2, <3>1, PartAt
  <2> QED  BY <2>1, <2>3, <2>4
<1>7. ASSUME NEW k \in 1..m_bufferSize PROVE FirstBlock[k] = Input(Hashed * BlockSize + k)
  <2>1. k \in 1..64
    BY <1>1 DEF BlockSize
  <2> QED  BY <1>3, <1>6, <2>1
<1>8. ASSUME NEW k \in 1..64 PROVE FirstBlock[k] = Padded(length)[Hashed * BlockSize + k]
  <2>1. k \in 1..(PaddedLength + 8)
    BY <1>2
  <2> QED  BY <1>5, <1>6, <2>1
<1>9. ASSUME PaddedLength > BlockSize
      PROVE  /\ ExtraBlock \in Seq(Nat) /\ Len(ExtraBlock) = 64
             /\ \A k \in 1..64 : ExtraBlock[k] = Padded(length)[(Hashed + 1) * BlockSize + k]
  <2>1. PaddedLength = 120
    BY <1>2, <1>9 DEF BlockSize
  <2> DEFINE a == 64
             n == 64
  <2>2. a \in Nat /\ n \in Nat /\ a + n <= Len(Both)
    BY <1>3
  <2>3. ExtraBlock = SubSeq(Both, a + 1, a + n)
    BY DEF ExtraBlock, BlockSize
  <2>4. a = 64 /\ n = 64
    OBVIOUS
  <2> HIDE DEF a, n
  <2>5. /\ ExtraBlock \in Seq(Nat) /\ Len(ExtraBlock) = n
        /\ \A k \in 1..n : ExtraBlock[k] = Both[a + k]
    <3>1. Both \in Seq(Nat)
      BY <1>3
    <3> QED  BY <2>2, <2>3, <3>1, PartAt
  <2>6. /\ ExtraBlock \in Seq(Nat) /\ Len(ExtraBlock) = 64
        /\ \A k \in 1..64 : ExtraBlock[k] = Both[64 + k]
    BY <2>4, <2>5
  <2>7. ASSUME NEW k \in 1..64
        PROVE  ExtraBlock[k] = Padded(length)[(Hashed + 1) * BlockSize + k]
    <3>1. 64 + k \in 1..(PaddedLength + 8)
      BY <2>1
    <3>2. Hashed * BlockSize + (64 + k) = (Hashed + 1) * BlockSize + k
      BY <1>1 DEF BlockSize
    <3>3. Both[64 + k] = Padded(length)[Hashed * BlockSize + (64 + k)]
      BY <1>5, <3>1
    <3> QED  BY <2>6, <3>2, <3>3
  <2> QED  BY <2>6, <2>7
<1>10. BlockSize = 64
  BY DEF BlockSize
<1> QED  BY <1>6, <1>7, <1>8, <1>9, <1>10

LEMMA GetHashBuffered == Buffered /\ GetHash => Buffered'
<1> SUFFICES ASSUME Buffered, GetHash PROVE Buffered'
  OBVIOUS
<1>1. m_buffer' = FirstBlock /\ UNCHANGED <<m_hash, m_numBytes, m_bufferSize, length>>
  BY DEF GetHash, FirstBlock, Both
<1>2. FirstBlock \in Seq(Nat) /\ Len(FirstBlock) = BlockSize
        /\ \A k \in 1..m_bufferSize : FirstBlock[k] = Input(Hashed * BlockSize + k)
  BY LastBlocksAre
<1>3. TypeOK'
  BY <1>1, <1>2 DEF Buffered, TypeOK
<1>4. NothingLost'
  BY <1>1, <1>2 DEF Buffered, NothingLost, Hashed
<1> QED  BY <1>1, <1>3, <1>4 DEF Buffered

\* getHash hashes the blocks of the padded message.
LEMMA GetHashIsOfWhole ==
  ASSUME Buffered, GetHash
  PROVE  hash' = Blocks(Padded(length))
<1> DEFINE last == IF PaddedLength > BlockSize THEN <<FirstBlock, ExtraBlock>>
                                               ELSE <<FirstBlock>>
           more == IF PaddedLength > BlockSize THEN 2 ELSE 1
<1>1. hash' = m_hash \o last
  <2>1. hash' = (m_hash \o <<FirstBlock>>)
                  \o IF PaddedLength > BlockSize THEN <<ExtraBlock>> ELSE <<>>
    BY DEF GetHash, FirstBlock, ExtraBlock, Both
  <2>2. m_hash \in Seq(Seq(Nat)) /\ FirstBlock \in Seq(Nat)
    BY LastBlocksAre DEF Buffered, TypeOK
  <2>3. CASE PaddedLength > BlockSize
    <3>1. <<FirstBlock>> \in Seq(Seq(Nat)) /\ <<ExtraBlock>> \in Seq(Seq(Nat))
      BY <2>2, <2>3, LastBlocksAre
    <3>2. (m_hash \o <<FirstBlock>>) \o <<ExtraBlock>>
            = m_hash \o (<<FirstBlock>> \o <<ExtraBlock>>)
      BY <2>2, <3>1, ConcatAssociative
    <3>3. <<FirstBlock>> \o <<ExtraBlock>> = <<FirstBlock, ExtraBlock>>
      BY <2>2, <2>3, LastBlocksAre, TwoAre
    <3> QED  BY <2>1, <2>3, <3>2, <3>3
  <2>4. CASE ~(PaddedLength > BlockSize)
    <3>1. m_hash \o <<FirstBlock>> \in Seq(Seq(Nat))
      BY <2>2, ConcatProperties
    <3>2. (m_hash \o <<FirstBlock>>) \o <<>> = m_hash \o <<FirstBlock>>
      BY <3>1, ConcatEmptySeq
    <3> QED  BY <2>1, <2>4, <3>2
  <2> QED  BY <2>3, <2>4
<1>2. Hashed \in Nat /\ m_hash \in Seq(Seq(Nat)) /\ Len(m_hash) = Hashed
        /\ m_bufferSize \in 0..(BlockSize - 1)
  BY LenProperties DEF Buffered, TypeOK, Hashed
<1>3. PaddedLength \in {56, 120}
  BY <1>2, PaddedLengthIs
<1>4. /\ last \in Seq(Seq(Nat)) /\ Len(last) = more
      /\ \A j \in 1..more :
           /\ last[j] \in Seq(Nat) /\ Len(last[j]) = BlockSize
           /\ \A k \in 1..BlockSize :
                last[j][k] = Padded(length)[(Hashed + (j - 1)) * BlockSize + k]
  <2>1. /\ FirstBlock \in Seq(Nat) /\ Len(FirstBlock) = BlockSize
        /\ \A k \in 1..BlockSize : FirstBlock[k] = Padded(length)[Hashed * BlockSize + k]
    BY LastBlocksAre
  <2>2. Hashed + (1 - 1) = Hashed /\ Hashed + (2 - 1) = Hashed + 1
    BY <1>2
  <2>3. CASE PaddedLength > BlockSize
    <3>1. /\ ExtraBlock \in Seq(Nat) /\ Len(ExtraBlock) = BlockSize
          /\ \A k \in 1..BlockSize :
               ExtraBlock[k] = Padded(length)[(Hashed + 1) * BlockSize + k]
      BY <2>3, LastBlocksAre
    <3>2. last = <<FirstBlock, ExtraBlock>> /\ more = 2 /\ 1..2 = {1, 2}
      BY <2>3
    <3>3. <<FirstBlock, ExtraBlock>> \in Seq(Seq(Nat)) /\ Len(<<FirstBlock, ExtraBlock>>) = 2
      BY <2>1, <3>1
    <3> HIDE DEF last, more
    <3> QED  BY <2>1, <2>2, <3>1, <3>2, <3>3
  <2>4. CASE ~(PaddedLength > BlockSize)
    <3>1. last = <<FirstBlock>> /\ more = 1 /\ 1..1 = {1}
      BY <2>4
    <3>2. <<FirstBlock>> \in Seq(Seq(Nat)) /\ Len(<<FirstBlock>>) = 1
      BY <2>1
    <3> HIDE DEF last, more
    <3> QED  BY <2>1, <2>2, <3>1, <3>2
  <2> QED  BY <2>3, <2>4
<1> DEFINE padded == Padded(length)
           size == Hashed + more
<1>5. /\ padded \in Seq(Nat) /\ Len(padded) = size * BlockSize
  <2>1. PaddedLength + 8 = more * BlockSize
    BY <1>3 DEF BlockSize
  <2>2. /\ Padded(length) \in Seq(Nat)
        /\ Len(Padded(length)) = Hashed * BlockSize + PaddedLength + 8
    BY PaddedIs
  <2>3. more \in Nat
    OBVIOUS
  <2> HIDE DEF more
  <2>4. Hashed * BlockSize + PaddedLength + 8 = (Hashed + more) * BlockSize
    BY <1>2, <1>3, <2>1, <2>3 DEF BlockSize
  <2> QED  BY <2>2, <2>4
<1>6. more \in Nat
  OBVIOUS
<1> HIDE DEF last, more
<1>7. size \in Nat /\ (size * BlockSize) \div BlockSize = size
  BY <1>2, <1>6 DEF BlockSize
<1>8. \A j \in 1..Hashed : \A k \in 1..BlockSize :
        m_hash[j][k] = padded[(j - 1) * BlockSize + k]
  <2>1. ASSUME NEW j \in 1..Hashed, NEW k \in 1..BlockSize
        PROVE  m_hash[j][k] = padded[(j - 1) * BlockSize + k]
    <3>1. m_hash[j] = BlockAt(j)
      BY DEF Buffered, NothingLost, Hashed, BlockAt
    <3>2. length = Hashed * BlockSize + m_bufferSize
      BY DEF Buffered, NothingLost, Hashed
    <3>3. (j - 1) * BlockSize + k \in 1..length
      BY <1>2, <3>2 DEF BlockSize
    <3> HIDE DEF padded
    <3>4. padded[(j - 1) * BlockSize + k] = Input((j - 1) * BlockSize + k)
      BY <3>3, PaddedIs DEF padded
    <3> QED  BY <3>1, <3>4 DEF BlockAt
  <2> QED  BY <2>1
<1>9. \A j \in 1..Hashed : m_hash[j] \in Seq(Nat) /\ Len(m_hash[j]) = BlockSize
  <2>1. ASSUME NEW j \in 1..Hashed PROVE m_hash[j] \in Seq(Nat) /\ Len(m_hash[j]) = BlockSize
    <3>1. m_hash[j] = BlockAt(j)
      BY DEF Buffered, NothingLost, Hashed, BlockAt
    <3>2. m_hash[j] \in Seq(Nat)
      BY <1>2, ElementOfSeq
    <3>3. DOMAIN m_hash[j] = 1..BlockSize /\ BlockSize \in Nat
      BY <3>1 DEF BlockAt, BlockSize
    <3> QED  BY <3>2, <3>3, LenProperties
  <2> QED  BY <2>1
<1> HIDE DEF padded, size
<1>10. /\ hash' \in Seq(Seq(Nat)) /\ Len(hash') = size
       /\ \A j \in 1..size : hash'[j] = IF j <= Hashed THEN m_hash[j] ELSE last[j - Hashed]
  <2>1. /\ hash' \in Seq(Seq(Nat)) /\ Len(hash') = Len(m_hash) + Len(last)
        /\ \A j \in 1..(Len(m_hash) + Len(last)) :
             hash'[j] = IF j <= Len(m_hash) THEN m_hash[j] ELSE last[j - Len(m_hash)]
    <3>1. m_hash \in Seq(Seq(Nat)) /\ last \in Seq(Seq(Nat))
      BY <1>2, <1>4
    <3> QED  BY <1>1, <3>1, ConcatProperties
  <2>2. Len(m_hash) = Hashed /\ Len(last) = more /\ Hashed + more = size
    BY <1>2, <1>4 DEF size
  <2> QED  BY <2>1, <2>2
<1>11. /\ Blocks(padded) \in Seq(Seq(Nat)) /\ Len(Blocks(padded)) = size
       /\ \A j \in 1..size :
            /\ Blocks(padded)[j] \in Seq(Nat) /\ Len(Blocks(padded)[j]) = BlockSize
            /\ \A k \in 1..BlockSize : Blocks(padded)[j][k] = padded[(j - 1) * BlockSize + k]
  <2>1. padded \in Seq(Nat) /\ Len(padded) \div BlockSize = size
    BY <1>5, <1>7
  <2> QED  BY <2>1, BlocksAre
<1>12. ASSUME NEW j \in 1..size PROVE hash'[j] = Blocks(padded)[j]
  <2>1. /\ hash'[j] \in Seq(Nat) /\ Len(hash'[j]) = BlockSize
        /\ \A k \in 1..BlockSize : hash'[j][k] = padded[(j - 1) * BlockSize + k]
    <3>1. CASE j <= Hashed
      <4>1. j \in 1..Hashed /\ hash'[j] = m_hash[j]
        BY <1>2, <1>10, <3>1
      <4> QED  BY <1>8, <1>9, <4>1
    <3>2. CASE ~(j <= Hashed)
      <4>1. j - Hashed \in 1..more /\ hash'[j] = last[j - Hashed]
        BY <1>2, <1>6, <1>7, <1>10, <3>2 DEF size
      <4>2. Hashed + ((j - Hashed) - 1) = j - 1
        BY <1>2, <1>7
      <4> QED  BY <1>4, <4>1, <4>2 DEF padded
    <3> QED  BY <3>1, <3>2
  <2>2. /\ Blocks(padded)[j] \in Seq(Nat) /\ Len(Blocks(padded)[j]) = BlockSize
        /\ \A k \in 1..BlockSize : Blocks(padded)[j][k] = padded[(j - 1) * BlockSize + k]
    BY <1>11
  <2> DEFINE a == hash'[j]
             b == Blocks(padded)[j]
  <2>3. a \in Seq(Nat) /\ b \in Seq(Nat) /\ Len(a) = Len(b) /\ \A k \in 1..Len(a) : a[k] = b[k]
    BY <2>1, <2>2
  <2> HIDE DEF a, b
  <2>4. a = b
    BY <2>3, SeqEqual
  <2> QED  BY <2>4 DEF a, b
<1>13. hash' = Blocks(padded)
  <2> DEFINE a == hash'
             b == Blocks(padded)
  <2>1. a \in Seq(Seq(Nat)) /\ b \in Seq(Seq(Nat)) /\ Len(a) = Len(b)
          /\ \A j \in 1..Len(a) : a[j] = b[j]
    BY <1>10, <1>11, <1>12
  <2> HIDE DEF a, b
  <2>2. a = b
    BY <2>1, SeqEqual
  <2> QED  BY <2>2 DEF a, b
<1> QED  BY <1>13 DEF padded

-----------------------------------------------------------------------------
(* Theorems.                                                               *)

LEMMA BufferedHolds == Spec => []Buffered
<1>1. Init => Buffered
  BY InitBuffered
<1>2. Buffered /\ [Next]_vars => Buffered'
  <2> SUFFICES ASSUME Buffered, [Next]_vars PROVE Buffered'
    OBVIOUS
  <2>1. CASE Reset
    BY <2>1, ResetBuffered
  <2>2. ASSUME NEW n \in Chunk, length + n <= MaxLength, Add(n) PROVE Buffered'
    BY <2>2, AddBuffered
  <2>3. CASE GetHash
    BY <2>3, GetHashBuffered
  <2>4. CASE UNCHANGED vars
    BY <2>4 DEF vars, Buffered, TypeOK, NothingLost
  <2> QED  BY <2>1, <2>2, <2>3, <2>4 DEF Next
<1> QED  BY <1>1, <1>2, PTL DEF Spec

\* Whatever sizes add is given, the buffer stays short of a block, and what is
\* processed is blocks.
THEOREM TypeCorrect == Spec => []TypeOK
BY BufferedHolds, PTL DEF Buffered

\* Every byte given to add is in a processed block or waits in the buffer, once
\* and in its place, whatever the sizes and however often getHash runs between.
THEOREM NothingLostHolds == Spec => []NothingLost
BY BufferedHolds, PTL DEF Buffered

\* getHash hashes the blocks of the padded whole, for every length and every way
\* to split it into calls of add.
THEOREM HashIsOfWholeHolds == Spec => []HashIsOfWhole
<1>1. Init => HashIsOfWhole
  BY DEF Init, HashIsOfWhole
<1>2. Buffered /\ HashIsOfWhole /\ [Next]_vars => HashIsOfWhole'
  <2> SUFFICES ASSUME Buffered, HashIsOfWhole, [Next]_vars PROVE HashIsOfWhole'
    OBVIOUS
  <2>1. CASE Reset
    BY <2>1 DEF Reset, HashIsOfWhole
  <2>2. ASSUME NEW n \in Chunk, Add(n) PROVE HashIsOfWhole'
    BY <2>2 DEF Add, HashIsOfWhole
  <2>3. CASE GetHash
    <3>1. hash' = Blocks(Padded(length)) /\ length' = length
      BY <2>3, GetHashIsOfWhole DEF GetHash
    <3> QED  BY <3>1 DEF HashIsOfWhole
  <2>4. CASE UNCHANGED vars
    BY <2>4 DEF vars, HashIsOfWhole
  <2> QED  BY <2>1, <2>2, <2>3, <2>4 DEF Next
<1> QED  BY <1>1, <1>2, BufferedHolds, PTL DEF Spec
=============================================================================
