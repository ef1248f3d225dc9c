-------------------------------- MODULE Wire --------------------------------
(***************************************************************************)
(* The bytes of the messages: SerializeToString, and ParseFromString given *)
(* a char array, for the messages of Proto/AuthProtocol.proto.             *)
(*                                                                         *)
(* This module is the evidence for AuthProtocol, which says in a few       *)
(* words what is left of a message that is read: see Receiver.             *)
(*                                                                         *)
(* A definition named X_Y, just before X, is X with the mistake Y, used    *)
(* nowhere: see README.md.                                                 *)
(***************************************************************************)
EXTENDS AuthProtocol, SequencesExt

CONSTANTS
  Text,   \* the email and the password of each Cred, as bytes
  Date    \* a creation date, as bytes

\* Texts are C strings: a word as cin reads it, a date as the database writes it.
TextByte == 1..255
ASSUME TextAssumption ==
  /\ Text \in [Cred \cup {NoCred} -> [email : Seq(TextByte), passwd : Seq(TextByte)]]
  /\ Text[NoCred] = [email |-> <<>>, passwd |-> <<>>]
  /\ \A cred \in Cred : Text[cred].email # <<>> /\ Text[cred].passwd # <<>>
  /\ Date \in Seq(TextByte) \ {<<>>}

-----------------------------------------------------------------------------
(* Writing.                                                                *)

\* Numbers are ints here: what is larger in bytes nobody sent loses the bits
\* beyond.
Number == {n \in Nat : n <= 2147483647}

\* What the digits of a varint count.
Base == <<1, 128, 16384, 2097152, 268435456>>

VarintSize(n) == Max({k \in 1..5 : k = 1 \/ Base[k] <= n})

Varint(n) ==
  [k \in 1..VarintSize(n) |->
     ((n \div Base[k]) % 128) + (IF k < VarintSize(n) THEN 128 ELSE 0)]

\* Proto2 writes a field that was set whatever its value is.
VarintField_SkipsDefault(num, n) ==
  IF n = 0 THEN <<>> ELSE <<8 * num>> \o Varint(n)
VarintField(num, n) == <<8 * num>> \o Varint(n)
BytesField(num, s) == <<8 * num + 2>> \o Varint(Len(s)) \o s

CreateAccField == 3
AuthenField    == 4

SerializeRequest(q) ==
  BytesField(IF q.cmd = "CREATEACCOUNT" THEN CreateAccField ELSE AuthenField,
             VarintField(1, q.id) \o BytesField(2, Text[q.cred].email)
                                  \o BytesField(3, Text[q.cred].passwd))

SerializeResponse(r) ==
  BytesField(r.kind,
             VarintField(1, r.id) \o VarintField(2, r.val)
               \o IF r.kind = AuthSuccess THEN BytesField(3, Date) ELSE <<>>)

-----------------------------------------------------------------------------
(* Reading.                                                                *)

\* What a char array is as an argument of type std::string.
CString(buf) ==
  LET zeros == {n \in DOMAIN buf : buf[n] = 0}
  IN IF zeros = {} THEN buf ELSE SubSeq(buf, 1, Min(zeros) - 1)

\* The varint at p: its number of bytes, 0 if it does not end, its value, and
\* whether it has more bits than an int.
VarintLen(s, p) ==
  LET ends == {n \in 1..10 : p + (n - 1) <= Len(s) /\ s[p + (n - 1)] < 128}
  IN IF ends = {} THEN 0 ELSE Min(ends)
Joined(len, digit) ==
  [len  |-> len,
   val  |-> digit[1] + Base[2] * digit[2] + Base[3] * digit[3] + Base[4] * digit[4]
              + Base[5] * (digit[5] % 8),
   wide |-> digit[5] >= 8]
VarintAt(s, p) ==
  LET len == VarintLen(s, p)
  IN Joined(len, [k \in 1..5 |-> IF k <= len THEN s[p + (k - 1)] % 128 ELSE 0])

\* The field at p: a tag, and a varint, 8 bytes, a length and as many bytes, or 4
\* bytes; nothing else if it starts or ends a group.  Field 0 is none.  Of a value
\* that is cut short there is what there is, and nothing if its length is none.
FieldOf(s, p, tag, first) ==
  LET wire == tag.val % 8
      sized == first.len \in 1..5 /\ ~first.wide
      start == CASE wire # 2            -> p + tag.len
                 [] wire = 2 /\ sized  -> p + tag.len + first.len
                 [] wire = 2 /\ ~sized -> Len(s) + 2
      next == start + CASE wire = 0 -> first.len
                        [] wire = 1 -> 8
                        [] wire = 2 -> first.val
                        [] wire = 5 -> 4
                        [] OTHER    -> 0
  IN [ok   |-> /\ tag.len \in 1..5 /\ tag.val >= 8 /\ wire <= 5
               /\ wire = 0 => first.len > 0,
      num  |-> tag.val \div 8,
      wire |-> wire,
      val  |-> IF wire = 0 THEN first.val ELSE SubSeq(s, start, Min({next - 1, Len(s)})),
      next |-> next]
FieldAt(s, p) ==
  LET tag == VarintAt(s, p) IN FieldOf(s, p, tag, VarintAt(s, p + tag.len))

\* The fields from p on, up to the end of the message (ok), to the first that is
\* not well formed, or to the end of a group: that group, and what is behind it.
\* The contents of a field that is cut short are still in the message if it is a
\* message itself.  A group that was started must end; what is in it is nothing
\* the program knows.
Bad == [ok |-> FALSE, fields |-> <<>>, group |-> 0, next |-> 0]
FieldsFrom(s) ==
  LET from[p \in 1..(Len(s) + 1)] ==
        LET f == FieldAt(s, p) IN
        IF p > Len(s) THEN [Bad EXCEPT !.ok = TRUE]
        ELSE IF ~f.ok THEN Bad
        ELSE IF f.wire = 4 THEN [Bad EXCEPT !.group = f.num, !.next = f.next]
        ELSE IF f.next > Len(s) + 1 THEN [Bad EXCEPT !.fields = <<f>>]
        ELSE IF f.wire # 3 THEN [from[f.next] EXCEPT !.fields = <<f>> \o @]
        ELSE LET inside == from[f.next]
             IN IF inside.group = f.num /\ inside.next \in f.next..(Len(s) + 1)
                  THEN from[inside.next] ELSE Bad
  IN from
Fields(s) == FieldsFrom(s)[1]

\* The fields of a message with that number and wire type: the last one counts.
Select(fields, num, wire) ==
  {n \in DOMAIN fields : fields[n].num = num /\ fields[n].wire = wire}
LastOf(fields, num, wire, default) ==
  LET found == Select(fields, num, wire)
  IN IF found = {} THEN default ELSE fields[Max(found)].val
VarintOf(fields, num) == LastOf(fields, num, 0, 0)
BytesOf(fields, num) == LastOf(fields, num, 2, <<>>)

\* The elements of a message: those of its fields that are messages, by number.
\* The parse ends with the first that is not well formed.
Elements(top, nums) == UNION {Select(top.fields, num, 2) : num \in nums}
Inner(top, n) == Fields(top.fields[n].val)
Met(top, nums) ==
  {n \in Elements(top, nums) :
     \A m \in Elements(top, nums) : m < n => Inner(top, m).ok}

\* The required fields are there: id, email and password.
Initialized_Unchecked(fields) == TRUE
Initialized(fields) ==
  Select(fields, 1, 0) # {} /\ Select(fields, 2, 2) # {} /\ Select(fields, 3, 2) # {}

\* What the servers take from the first element of a command.
Command(cmd, top, num) ==
  LET found == Select(top.fields, num, 2)
      fields == Inner(top, Min(found)).fields
  IN IF found = {} THEN <<>>
     ELSE <<[cmd |-> cmd, id |-> VarintOf(fields, 1),
             text |-> [email |-> BytesOf(fields, 2), passwd |-> BytesOf(fields, 3)]]>>

\* The servers look for a login first, if the request as a whole parses.
CommandsOf(top) ==
  IF /\ top.ok
     /\ \A n \in Elements(top, {CreateAccField, AuthenField}) :
          LET inner == Inner(top, n) IN inner.ok /\ Initialized(inner.fields)
    THEN Command("LOGIN", top, AuthenField)
           \o Command("CREATEACCOUNT", top, CreateAccField)
    ELSE <<>>
RequestsIn(s) == CommandsOf(Fields(s))

\* The kind ReceiveFromServer finds, 0 if none, and the value that goes with it:
\* it takes what the parse left, whether that ended well or not.
ResponseOf(top) ==
  LET met == Met(top, Kind)
      kind == Min({top.fields[n].num : n \in met})
      first == Min({n \in met : top.fields[n].num = kind})
  IN IF met = {} THEN [kind |-> 0, val |-> 0]
     ELSE [kind |-> kind, val |-> VarintOf(Inner(top, first).fields, 2)]
ResponseIn(s) == ResponseOf(Fields(s))
=============================================================================
