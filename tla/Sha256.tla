------------------------------- MODULE Sha256 -------------------------------
(***************************************************************************)
(* The class SHA256 of the hash library: the buffering of what is added,   *)
(* and the padding.  The compression of a block is left open: the value of *)
(* m_hash is the sequence of the blocks it was computed from, and the byte *)
(* at position p of the input is a number that only says p.                *)
(*                                                                         *)
(* A definition named X_Y, just before X, is X with the mistake Y, used    *)
(* nowhere: see README.md.                                                 *)
(***************************************************************************)
EXTENDS Integers, Sequences, FiniteSetsExt

CONSTANTS
  Chunk,     \* bound: sizes of what is added at once
  MaxLength  \* bound: bytes added in all

ASSUME LengthAssumption ==
  /\ Chunk \subseteq Nat
  /\ MaxLength \in Nat

BlockSize == 64

VARIABLES
  m_hash,       \* the blocks processed
  m_numBytes,   \* their size
  m_buffer,     \* BlockSize bytes
  m_bufferSize, \* how many of them wait for a block to be full
  length,       \* history: the bytes added since reset
  hash          \* history: the blocks the last getHash hashed; none after add

vars == <<m_hash, m_numBytes, m_buffer, m_bufferSize, length, hash>>

\* The byte at position p of the input, no byte of a padding.
Input(p) == 256 + p

TypeOK ==
  /\ m_hash \in Seq(Seq(Nat))
  /\ m_numBytes \in Nat
  /\ m_buffer \in Seq(Nat) /\ Len(m_buffer) = BlockSize
  /\ m_bufferSize \in 0..(BlockSize - 1)
  /\ length \in 0..MaxLength

\* A new object: the buffer holds anything, here zeros.
Init ==
  /\ m_hash = <<>>
  /\ m_numBytes = 0
  /\ m_buffer = [n \in 1..BlockSize |-> 0]
  /\ m_bufferSize = 0
  /\ length = 0
  /\ hash = <<>>

Reset ==
  /\ m_hash' = <<>>
  /\ m_numBytes' = 0
  /\ m_bufferSize' = 0
  /\ length' = 0
  /\ hash' = <<>>
  /\ UNCHANGED m_buffer

\* The buffer with the bytes s from position n on.
Written(buffer, n, s) ==
  [k \in DOMAIN buffer |-> IF k > n /\ k <= n + Len(s) THEN s[k - n] ELSE buffer[k]]

\* The full blocks of s, and what is left behind the last.
Blocks(s) ==
  [n \in 1..(Len(s) \div BlockSize) |-> SubSeq(s, (n - 1) * BlockSize + 1, n * BlockSize)]
Rest(s) == SubSeq(s, (Len(s) \div BlockSize) * BlockSize + 1, Len(s))

\* Bytes go to a buffer that has some, until it is full and processed; the full
\* blocks of what is left are processed, and the rest waits in the buffer.
Add_KeepsFullBuffer(numBytes) ==
  LET data  == [n \in 1..numBytes |-> Input(length + n)]
      taken == IF m_bufferSize > 0 THEN Min({numBytes, BlockSize - m_bufferSize}) ELSE 0
      more  == SubSeq(data, taken + 1, numBytes)
      filled == Written(m_buffer, m_bufferSize, SubSeq(data, 1, taken))
      full  == m_bufferSize + taken = BlockSize /\ more # <<>>
  IN /\ m_hash' = m_hash \o (IF full THEN <<filled>> ELSE <<>>) \o Blocks(more)
     /\ m_numBytes' = m_numBytes + (IF full THEN BlockSize ELSE 0)
                                 + Len(Blocks(more)) * BlockSize
     /\ m_buffer' = Written(filled, IF full THEN 0 ELSE m_bufferSize + taken, Rest(more))
     /\ m_bufferSize' = (IF full THEN 0 ELSE m_bufferSize + taken) + Len(Rest(more))
     /\ length' = length + numBytes
     /\ hash' = <<>>
Add(numBytes) ==
  LET data  == [n \in 1..numBytes |-> Input(length + n)]
      taken == IF m_bufferSize > 0 THEN Min({numBytes, BlockSize - m_bufferSize}) ELSE 0
      more  == SubSeq(data, taken + 1, numBytes)
      filled == Written(m_buffer, m_bufferSize, SubSeq(data, 1, taken))
      full  == m_bufferSize + taken = BlockSize
  IN /\ m_hash' = m_hash \o (IF full THEN <<filled>> ELSE <<>>) \o Blocks(more)
     /\ m_numBytes' = m_numBytes + (IF full THEN BlockSize ELSE 0)
                                 + Len(Blocks(more)) * BlockSize
     /\ m_buffer' = Written(filled, IF full THEN 0 ELSE m_bufferSize + taken, Rest(more))
     /\ m_bufferSize' = (IF full THEN 0 ELSE m_bufferSize + taken) + Len(Rest(more))
     /\ length' = length + numBytes
     /\ hash' = <<>>

\* The length in bytes that the 1 bit and the 0 bits bring the buffer to, short
\* of the eight bytes of the message length.
PaddedLength_RoomForOne ==
  LET bits  == m_bufferSize * 8
      lower == bits % 512
  IN (bits + (IF lower <= 448 THEN 448 - lower ELSE 512 + 448 - lower)) \div 8
PaddedLength ==
  LET bits  == m_bufferSize * 8 + 1
      lower == bits % 512
  IN (bits + (IF lower <= 448 THEN 448 - lower ELSE 512 + 448 - lower)) \div 8

\* A number as eight bytes, the highest first.
BigEndian(n) ==
  LET place   == <<16777216, 65536, 256, 1>>
      word(w) == [k \in 1..4 |-> (w \div place[k]) % 256]
  IN word((n \div 16777216) \div 256) \o word(n)

\* processBuffer: padding and message length go to the buffer behind the bytes
\* that wait, and what does not fit to the block extra.
Padding == <<128>> \o [n \in 1..(PaddedLength - m_bufferSize - 1) |-> 0]
             \o BigEndian(8 * (m_numBytes + m_bufferSize))

\* getHash: processBuffer, and m_hash is put back as it was; the buffer is not.
GetHash_NotPutBack ==
  LET both   == Written(m_buffer \o [n \in 1..BlockSize |-> 0], m_bufferSize, Padding)
      first  == SubSeq(both, 1, BlockSize)
  IN /\ m_hash' = Append(m_hash, first)
     /\ hash' = m_hash'
     /\ m_buffer' = first
     /\ UNCHANGED <<m_numBytes, m_bufferSize, length>>
GetHash ==
  LET both   == Written(m_buffer \o [n \in 1..BlockSize |-> 0], m_bufferSize, Padding)
      first  == SubSeq(both, 1, BlockSize)
      extra  == IF PaddedLength > BlockSize
                  THEN <<SubSeq(both, BlockSize + 1, 2 * BlockSize)>> ELSE <<>>
  IN /\ hash' = m_hash \o <<first>> \o extra
     /\ m_buffer' = first
     /\ UNCHANGED <<m_hash, m_numBytes, m_bufferSize, length>>

Next ==
  \/ Reset
  \/ \E numBytes \in Chunk : length + numBytes <= MaxLength /\ Add(numBytes)
  \/ GetHash

Spec == Init /\ [][Next]_vars

-----------------------------------------------------------------------------
(* Properties.                                                             *)

\* What the standard hashes for a message of n bytes: the message, a byte 128,
\* as few zeros as bring it to eight bytes short of a whole number of blocks,
\* and its length in bits.
Padded(n) ==
  LET zeros == CHOOSE z \in 0..(BlockSize - 1) : (n + 1 + z + 8) % BlockSize = 0
  IN [p \in 1..n |-> Input(p)] \o <<128>> \o [z \in 1..zeros |-> 0] \o BigEndian(8 * n)

\* However the input was split into calls of add, and however often getHash was
\* called in between, the hash is that of the whole input: of the same blocks as
\* if it were added at once.
HashIsOfWhole == hash # <<>> => hash = Blocks(Padded(length))

\* Every byte added is in a processed block or waits in the buffer, once and in
\* its place.
NothingLost ==
  /\ length = Len(m_hash) * BlockSize + m_bufferSize
  /\ \A n \in 1..Len(m_hash) :
       m_hash[n] = [k \in 1..BlockSize |-> Input((n - 1) * BlockSize + k)]
  /\ \A k \in 1..m_bufferSize : m_buffer[k] = Input(Len(m_hash) * BlockSize + k)
=============================================================================
