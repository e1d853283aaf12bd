---------------------------- MODULE AmqpFields ----------------------------
(***************************************************************************)
(* The fields of AMQP frames as the vendored AMQP-CPP library codes them:  *)
(* numbers (outbuffer.h, inbuffer.cpp), strings (stringfield.h), sets of   *)
(* booleans (booleanset.h), tables (table.cpp), arrays (array.cpp) and the *)
(* properties of a message (metadata.h).                                   *)
(*                                                                         *)
(* A byte is a number below 256, a buffer a sequence of bytes.  A reader   *)
(* returns what it has read, the bytes that are left and whether the       *)
(* buffer held enough; where it did not, the code throws.  Numbers are     *)
(* below 2^31: the sign and the upper half of 64 bits never matter.        *)
(***************************************************************************)
EXTENDS Naturals, SequencesExt

\* OutBuffer::add of a number: htobe16(), htobe32(), htobe64().
BigEndian(n, width) ==
    [i \in 1 .. width |-> IF width - i > 3 THEN 0 ELSE (n \div 256^(width - i)) % 256]

\* be16toh() and the others.
NumberOf(bytes) ==
    LET byte(i) == IF i < Len(bytes) THEN bytes[Len(bytes) - i] ELSE 0
    IN  byte(0) + 256 * (byte(1) + 256 * (byte(2) + 256 * byte(3)))

\* What a reader returns: the value and the bytes behind it, or that the buffer
\* did not hold it, which the code throws and no reader catches.
Read(value, rest) == [ok |-> TRUE, value |-> value, rest |-> rest]

Failed == [ok |-> FALSE]

Then(read, Next(_, _)) == IF read.ok THEN Next(read.value, read.rest) ELSE Failed

\* BufferCheck and InBuffer::nextData().
Take(bytes, count) ==
    IF Len(bytes) < count THEN Failed
    ELSE Read(SubSeq(bytes, 1, count), SubSeq(bytes, count + 1, Len(bytes)))

\* InBuffer::nextUint8() ... nextInt64().
TakeNumber(bytes, width) ==
    Then(Take(bytes, width), LAMBDA data, rest : Read(NumberOf(data), rest))

-----------------------------------------------------------------------------
(***************************************************************************)
(* Strings and booleans.  A string is the sequence of its bytes; only the  *)
(* prefix of a short one is cut to a byte.                                 *)
(***************************************************************************)
StringSize(text, width) == width + Len(text)

FillString(text, width) == BigEndian(Len(text), width) \o text

TakeString(bytes, width) ==
    Then(TakeNumber(bytes, width), LAMBDA length, rest : Take(rest, length))

\* A BooleanSet is the set of the indices that are true.
FillBits(bits) == <<MapThenSumSet(LAMBDA i : 2^i, bits)>>

BitsOf(byte) == {i \in 0 .. 7 : (byte \div 2^i) % 2 = 1}

TakeBits(bytes) == Then(TakeNumber(bytes, 1), LAMBDA byte, rest : Read(BitsOf(byte), rest))

-----------------------------------------------------------------------------
(***************************************************************************)
(* The fields of tables and arrays.  A field is a record of its type (the  *)
(* letter of typeID()) and its value; a table is the sequence of its       *)
(* entries in the order of their names, an array that of its fields.       *)
(***************************************************************************)
TypeID ==
    [t |-> 116, b |-> 98, B |-> 66, U |-> 85, u |-> 117, I |-> 73, i |-> 105,
     L |-> 76, l |-> 108, f |-> 102, d |-> 100, D |-> 68, s |-> 115, S |-> 83,
     A |-> 65, T |-> 84, F |-> 70, V |-> 86]

NumericWidth ==
    [b |-> 1, B |-> 1, U |-> 2, u |-> 2, I |-> 4, i |-> 4, L |-> 8, l |-> 8,
     T |-> 8, f |-> 4, d |-> 8]

RECURSIVE FieldSize(_)

\* Table::size(): its own length, then name, type and value of each entry.
TableSize(table) ==
    4 + FoldLeft(LAMBDA n, e : n + StringSize(e.name, 1) + 1 + FieldSize(e.field), 0, table)

ArraySize(fields) == 4 + FoldLeft(LAMBDA n, f : n + 1 + FieldSize(f), 0, fields)

FieldSize(field) ==
    CASE field.type \in DOMAIN NumericWidth -> NumericWidth[field.type]
      [] field.type = "t" -> 1
      [] field.type = "D" -> 5
      [] field.type = "s" -> StringSize(field.value, 1)
      [] field.type = "S" -> StringSize(field.value, 4)
      [] field.type = "A" -> ArraySize(field.value)
      [] field.type = "F" -> TableSize(field.value)
      [] field.type = "V" -> 0

RECURSIVE FillField(_)

FillTable(table) ==
    BigEndian(TableSize(table) - 4, 4)
    \o FlattenSeq([i \in DOMAIN table |->
           FillString(table[i].name, 1) \o <<TypeID[table[i].field.type]>>
           \o FillField(table[i].field)])

FillArray(fields) ==
    BigEndian(ArraySize(fields) - 4, 4)
    \o FlattenSeq([i \in DOMAIN fields |->
           <<TypeID[fields[i].type]>> \o FillField(fields[i])])

FillField(field) ==
    CASE field.type \in DOMAIN NumericWidth -> BigEndian(field.value, NumericWidth[field.type])
      [] field.type = "t" -> FillBits(field.value)
      [] field.type = "D" -> <<field.value.places>> \o BigEndian(field.value.number, 4)
      [] field.type = "s" -> FillString(field.value, 1)
      [] field.type = "S" -> FillString(field.value, 4)
      [] field.type = "A" -> FillArray(field.value)
      [] field.type = "F" -> FillTable(field.value)
      [] field.type = "V" -> <<>>

RECURSIVE TakeEntries(_, _, _), TakeFields(_, _, _)

TakeTable(bytes) ==
    Then(TakeNumber(bytes, 4), LAMBDA length, rest : TakeEntries(rest, length, <<>>))

TakeArray(bytes) ==
    Then(TakeNumber(bytes, 4), LAMBDA length, rest : TakeFields(rest, length, <<>>))

TakeDecimal(bytes) ==
    Then(TakeNumber(bytes, 1), LAMBDA places, rest1 :
    Then(TakeNumber(rest1, 4), LAMBDA number, rest2 :
         Read([places |-> places, number |-> number], rest2)))

TakeValue(type, bytes) ==
    CASE type \in DOMAIN NumericWidth -> TakeNumber(bytes, NumericWidth[type])
      [] type = "t" -> TakeBits(bytes)
      [] type = "D" -> TakeDecimal(bytes)
      [] type = "s" -> TakeString(bytes, 1)
      [] type = "S" -> TakeString(bytes, 4)
      [] type = "A" -> TakeArray(bytes)
      [] type = "F" -> TakeTable(bytes)
      [] type = "V" -> Read(<<>>, bytes)

TypesOf(id) == {t \in DOMAIN TypeID : TypeID[t] = id}

\* The null pointer that Field::decode() returns for a type it does not know.
NoField == [type |-> "none"]

\* Field::decode().
DecodeField(bytes) ==
    Then(TakeNumber(bytes, 1), LAMBDA id, rest1 :
         IF TypesOf(id) = {} THEN Read(NoField, rest1)
         ELSE LET type == CHOOSE t \in TypesOf(id) : TRUE
              IN  Then(TakeValue(type, rest1), LAMBDA value, rest2 :
                       Read([type |-> type, value |-> value], rest2)))

\* What a table or an array does with a field: left bytes remain for it and
\* what follows.  A count that would drop below zero wraps around, and the loop
\* runs on until the buffer has nothing left.
AddEntry(name, field, bytes, left, entries) ==
    IF field = NoField THEN TakeEntries(bytes, left, entries)
    ELSE IF FieldSize(field) > left THEN Failed
    ELSE TakeEntries(bytes, left - FieldSize(field),
                     Append(entries, [name |-> name, field |-> field]))

AddField(field, bytes, left, fields) ==
    IF field = NoField THEN TakeFields(bytes, left, fields)
    ELSE IF FieldSize(field) > left THEN Failed
    ELSE TakeFields(bytes, left - FieldSize(field), Append(fields, field))

\* The loop of Table::Table(InBuffer &).
TakeEntries(bytes, left, entries) ==
    IF left = 0 THEN Read(entries, bytes)
    ELSE Then(TakeString(bytes, 1), LAMBDA name, rest1 :
              IF StringSize(name, 1) + 1 > left THEN Failed
              ELSE Then(DecodeField(rest1), LAMBDA field, rest2 :
                        AddEntry(name, field, rest2, left - StringSize(name, 1) - 1, entries)))

\* The loop of Array::Array(InBuffer &).
TakeFields(bytes, left, fields) ==
    IF left = 0 THEN Read(fields, bytes)
    ELSE Then(DecodeField(bytes), LAMBDA field, rest : AddField(field, rest, left - 1, fields))

-----------------------------------------------------------------------------
(***************************************************************************)
(* The properties of a message.  A MetaData is a function on the           *)
(* properties it has: which they are is written in two bytes of flags.     *)
(***************************************************************************)
\* hasExpiration() ... hasMessageID(): the byte and the bit of each flag.
MetaFlag ==
    [expiration      |-> <<1, 0>>, replyTo       |-> <<1, 1>>, correlationID |-> <<1, 2>>,
     priority        |-> <<1, 3>>, deliveryMode  |-> <<1, 4>>, headers       |-> <<1, 5>>,
     contentEncoding |-> <<1, 6>>, contentType   |-> <<1, 7>>, clusterID     |-> <<2, 2>>,
     appID           |-> <<2, 3>>, userID        |-> <<2, 4>>, typeName      |-> <<2, 5>>,
     timestamp       |-> <<2, 6>>, messageID     |-> <<2, 7>>]

\* The members of MetaData and their types.
MetaType ==
    [expiration |-> "s", replyTo |-> "s", correlationID |-> "s", priority |-> "B",
     deliveryMode |-> "B", headers |-> "F", contentEncoding |-> "s", contentType |-> "s",
     clusterID |-> "s", appID |-> "s", userID |-> "s", typeName |-> "s",
     timestamp |-> "T", messageID |-> "s"]

\* The order in which MetaData::fill() writes.
MetaWritten ==
    <<"contentType", "contentEncoding", "headers", "deliveryMode", "priority",
      "correlationID", "replyTo", "expiration", "messageID", "timestamp", "typeName",
      "userID", "appID", "clusterID">>

\* Mutant: two properties change places in the constructor.
MetaReadSwapped ==
    <<"contentType", "contentEncoding", "headers", "deliveryMode", "priority",
      "correlationID", "replyTo", "expiration", "messageID", "timestamp", "typeName",
      "appID", "userID", "clusterID">>

\* The order in which the constructor from an InBuffer reads.
MetaRead ==
    <<"contentType", "contentEncoding", "headers", "deliveryMode", "priority",
      "correlationID", "replyTo", "expiration", "messageID", "timestamp", "typeName",
      "userID", "appID", "clusterID">>

MetaField(meta, property) == [type |-> MetaType[property], value |-> meta[property]]

MetaSize(meta) == 2 + MapThenSumSet(LAMBDA p : FieldSize(MetaField(meta, p)), DOMAIN meta)

FlagByte(meta, byte) ==
    {MetaFlag[p][2] : p \in {q \in DOMAIN meta : MetaFlag[q][1] = byte}}

FillMeta(meta) ==
    FillBits(FlagByte(meta, 1)) \o FillBits(FlagByte(meta, 2))
    \o FlattenSeq([i \in DOMAIN MetaWritten |->
           IF MetaWritten[i] \in DOMAIN meta
           THEN FillField(MetaField(meta, MetaWritten[i])) ELSE <<>>])

\* One "if (has...()) ... = ...(frame)" of the constructor.
TakeProperty(bits, read, property) ==
    IF ~read.ok \/ MetaFlag[property][2] \notin bits[MetaFlag[property][1]] THEN read
    ELSE Then(TakeValue(MetaType[property], read.rest), LAMBDA value, rest :
              Read(read.value @@ (property :> value), rest))

TakeMeta(bytes) ==
    Then(TakeBits(bytes), LAMBDA bools1, rest1 :
    Then(TakeBits(rest1), LAMBDA bools2, rest2 :
         FoldLeft(LAMBDA read, p : TakeProperty(<<bools1, bools2>>, read, p),
                  Read(<<>>, rest2), MetaRead)))
=============================================================================
