----------------------------- MODULE WireReader -----------------------------
(***************************************************************************)
(* The protobuf reader of readers_sysprofile.cpp: FindLen, FindVarint and  *)
(* FindFixed32 over a message that may be cut short or be no message at    *)
(* all, and DecodeSystemProfile, which looks for a field of a submessage   *)
(* of a submessage.  One step is one turn of a loop.                       *)
(*                                                                         *)
(* The code has Group = 7, Width = 64, FieldWidth = 32 and 8 and 4 bytes.  *)
(***************************************************************************)
EXTENDS Integers, Sequences, FiniteSets

CONSTANTS
  Group,       \* the bits of a varint in a byte
  Width,       \* the bits of the result of ReadVarint
  FieldWidth,  \* the bits of a field number
  Fixed64, Fixed32,   \* the bytes of these fields
  WireFields,  \* fields as they were written
  Messages,    \* messages of them, and the messages that are in these
  Noise,       \* byte sequences nobody wrote as a message
  WantedPaths        \* the fields to look for: <<number, wire type>>, outer ones first

VARIABLES
  message,   \* what was written, <<>> for noise
  blob,      \* the bytes that are there
  wanted,    \* the path
  path,      \* what is left of it
  p, end,    \* the next byte, and the last one of the (sub)message
  found,     \* {}, or what was found: the payload, of a varint its value
  turns      \* history: the turns of the loops

wireVars == <<message, blob, wanted, path, p, end, found,
              turns>>

-----------------------------------------------------------------------------
(* How messages are written: a field is a number, a wire type, its payload *)
(* and, of a varint, its value, of a submessage, its fields.               *)
Radix == 2^Group
Words == 2^Width
Numbers == 2^FieldWidth

Byte == 0 .. 2 * Radix - 1
Blob == Seq(Byte)

Varint(n) ==
  LET bytes[k \in 0 .. n] ==
        LET low == k % Radix
        IN  IF k = low THEN <<low>> ELSE <<low + Radix>> \o bytes[k \div Radix]
  IN  bytes[n]

FieldBytes(f) ==
  Varint(8 * f.num + f.wt) \o (IF f.wt = 2 THEN Varint(Len(f.payload)) ELSE <<>>) \o f.payload

WrittenUpTo(fields, k) ==
  LET upTo[n \in 0 .. k] == IF n = 0 THEN <<>> ELSE upTo[n - 1] \o FieldBytes(fields[n])
  IN  upTo[k]

Written(fields) == WrittenUpTo(fields, Len(fields))

(* A number that a varint can hold.                                        *)
Fits(n) == n < Words /\ (Len(Varint(n)) - 1) * Group < Width

ASSUME WireAssumption ==
  /\ {Group, Width, FieldWidth, Fixed64, Fixed32} \subseteq Nat \ {0}
  /\ {Radix, Words, Numbers} \subseteq Nat \ {0, 1}
  /\ Noise \subseteq Blob
  /\ Messages \subseteq Seq(WireFields)
  /\ \A f \in WireFields :
       /\ f.num \in 1 .. Numbers - 1 /\ f.wt \in {0, 1, 2, 5} /\ f.payload \in Blob
       /\ Fits(8 * f.num + f.wt)
       /\ f.wt = 0 => f.value \in Nat /\ Fits(f.value) /\ f.payload = Varint(f.value)
       /\ f.wt = 1 => Len(f.payload) = Fixed64
       /\ f.wt = 5 => Len(f.payload) = Fixed32
       /\ f.wt = 2 => /\ Fits(Len(f.payload))
                      /\ f.sub \in Messages /\ f.payload = Written(f.sub)
  /\ \A w \in WantedPaths : /\ w # <<>> /\ w \in Seq(Nat \X {0, 2, 5})
                            /\ \A i \in 1 .. Len(w) - 1 : w[i][2] = 2

WireInit ==
  /\ \/ \E m \in Messages : LET w == Written(m) IN \E n \in 0 .. Len(w) :
          /\ message = m
          /\ blob = SubSeq(w, 1, n)
     \/ message = <<>> /\ blob \in Noise
  /\ wanted \in WantedPaths /\ path = wanted
  /\ p = 1 /\ end = Len(blob)
  /\ found = {} /\ turns = 0

WireTypeOK ==
  /\ message # <<>> => message \in Messages
  /\ blob \in Blob
  /\ wanted \in WantedPaths
  /\ \E n \in 0 .. Len(wanted) : path = SubSeq(wanted, n + 1, Len(wanted))
  /\ p \in 1 .. end + 1
  /\ end \in 0 .. Len(blob)
  /\ found \subseteq Blob \cup {<<n>> : n \in 0 .. Words - 1}
  /\ turns \in Nat

-----------------------------------------------------------------------------
(* ReadVarint at i, up to the byte e: the groups are put together as long  *)
(* as the shift is below Width, and what exceeds Width bits is lost.       *)
Stops(i, e) == {j \in i .. e : blob[j] < Radix /\ \A k \in i .. j - 1 : blob[k] >= Radix}

Ended(i, e) == {j \in Stops(i, e) : (j - i) * Group < Width}

(* The groups of the bytes i .. j, of which the first is the lowest.       *)
Groups(i, j) ==
  LET value[n \in 0 .. j - i] ==
        (blob[j - n] % Radix) + IF n = 0 THEN 0 ELSE Radix * value[n - 1]
  IN  value[j - i]

ReadVarint(i, e) ==
  IF Ended(i, e) = {} THEN [ok |-> FALSE, value |-> 0, next |-> i]
  ELSE LET j == CHOOSE k \in Ended(i, e) : TRUE
       IN  [ok |-> TRUE, value |-> Groups(i, j) % Words, next |-> j + 1]

(* Mutation of Room: a length is not compared with what is left.           *)
RoomAlways(i, n) == TRUE

Room(i, n) == n <= end - i + 1

(* The payload of a field of type `wt' at i: where it begins and how long  *)
(* it is.  SkipField and the three loops read it alike.                    *)
Payload(wt, i) ==
  LET v == ReadVarint(i, end)
      Fixed(n) == [ok |-> Room(i, n), from |-> i, len |-> n]
  IN  CASE wt = 0 -> [ok |-> v.ok, from |-> i, len |-> v.next - i]
        [] wt = 1 -> Fixed(Fixed64)
        [] wt = 2 -> [ok |-> v.ok /\ Room(v.next, v.value), from |-> v.next, len |-> v.value]
        [] wt = 5 -> Fixed(Fixed32)
        [] OTHER  -> [ok |-> FALSE, from |-> i, len |-> 0]

(* Mutation of Matches: the wire type is not looked at.                    *)
MatchesNumber(number, wt) == number = Head(path)[1]

Matches(number, wt) == <<number, wt>> = Head(path)

(* What a turn of the loop reads: whether there is a field, whether it is  *)
(* the wanted one, and where its payload lies.                             *)
Turn ==
  LET tag    == ReadVarint(p, end)
      number == (tag.value \div 8) % Numbers
      wt     == tag.value % 8
      field  == Payload(wt, tag.next)
  IN  [good |-> p <= end /\ tag.ok /\ number # 0 /\ field.ok,
       match |-> Matches(number, wt), from |-> field.from, next |-> field.from + field.len]

WireFrame == turns' = turns + 1 /\ UNCHANGED <<message, blob, wanted>>

(* The end of the message, or what is none: not found.                     *)
NotFound(t) ==
  /\ ~t.good
  /\ path' = <<>>
  /\ UNCHANGED <<p, end, found>>
  /\ WireFrame

(* Mutation of SkipField: the bytes of the tag are forgotten.              *)
SkipFieldShort(t) ==
  /\ t.good /\ ~t.match
  /\ p' = p + t.next - t.from
  /\ UNCHANGED <<path, end, found>>
  /\ WireFrame

SkipField(t) ==
  /\ t.good /\ ~t.match
  /\ p' = t.next
  /\ UNCHANGED <<path, end, found>>
  /\ WireFrame

(* DecodeSystemProfile goes on in the submessage, from its first byte to   *)
(* its last.                                                               *)
Descend(t) ==
  /\ t.good /\ t.match /\ Len(path) > 1
  /\ p' = t.from
  /\ end' = t.next - 1
  /\ path' = Tail(path)
  /\ UNCHANGED found
  /\ WireFrame

(* What the caller gets: FindVarint gives the value, as a sequence of one  *)
(* number, the others the bytes.                                           *)
Sought(t) ==
  IF Head(path)[2] = 0 THEN <<ReadVarint(t.from, end).value>>
  ELSE SubSeq(blob, t.from, t.next - 1)

FindField(t) ==
  /\ t.good /\ t.match /\ Len(path) = 1
  /\ found' = {Sought(t)}
  /\ path' = <<>>
  /\ UNCHANGED <<p, end>>
  /\ WireFrame

WireNext ==
  /\ path # <<>>
  /\ \E t \in {Turn} : NotFound(t) \/ SkipField(t) \/ Descend(t) \/ FindField(t)

WireSpec == WireInit /\ [][WireNext]_wireVars

-----------------------------------------------------------------------------
(* The properties.                                                         *)

(* The index of the first field of a number and type, 0 for none.          *)
FirstOf(fields, f) ==
  LET at == {i \in DOMAIN fields : <<fields[i].num, fields[i].wt>> = f}
  IN  IF at = {} THEN 0 ELSE CHOOSE i \in at : \A j \in at : i <= j

(* The submessages on the way down the path, and the one in which its last *)
(* field lies.                                                             *)
Levels ==
  LET level[k \in 1 .. Len(wanted)] ==
        IF k = 1 THEN message
        ELSE LET i == FirstOf(level[k - 1], wanted[k - 1])
             IN  IF i = 0 THEN <<>> ELSE level[k - 1][i].sub
  IN  level

Innermost == Levels[Len(wanted)]

(* What was put into a field.                                              *)
Datum(f) == IF f.wt = 0 THEN <<f.value>> ELSE f.payload

(* Find* and DecodeSystemProfile of what was written as a message, cut     *)
(* short or not: the first field of the number and the type, and in it the *)
(* first of the next, of a varint the number that was written, of any      *)
(* other field its bytes; of a torn message the same as of the whole, or   *)
(* nothing when the outermost field does not lie in what is left.          *)
FindIsExact ==
  path = <<>> /\ message # <<>> =>
    LET outer == FirstOf(message, wanted[1])
        inner == FirstOf(Innermost, wanted[Len(wanted)])
        there == outer # 0 /\ Len(WrittenUpTo(message, outer)) <= Len(blob)
    IN  found = IF there /\ inner # 0 THEN {Datum(Innermost[inner])} ELSE {}

(* The decoder of whatever bytes comes to an end: every turn but the last  *)
(* takes a byte, in the submessages as well.                               *)
TurnsAreBounded == turns <= Len(blob) + 1
=============================================================================
