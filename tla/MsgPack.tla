-------------------------------- MODULE MsgPack --------------------------------
(***************************************************************************)
(* The MessagePack codec: MsgPackCodec and the parts of msgpack11 it uses. *)
(*                                                                         *)
(* An encoding is a sequence of bytes, save that a number is one element,  *)
(* and so is a symbol of a string.  A first byte that holds a length, or   *)
(* says how many digits the length has that follows, is a pair.  The       *)
(* lengths from which a longer form is needed are parameters.              *)
(***************************************************************************)
EXTENDS DataObject, SequencesExt

CONSTANTS
  MaxDepth,          \* 200
  MaxFixString,      \* 31
  MaxFixArray,       \* 15, of objects too
  ByteMod            \* 256, the base of the digits

Nil == <<"nil">>
Fix(kind, length) == <<"fix", kind, length>>
Sized(kind, digits) == <<"sized", kind, digits>>
Byte(digit) == <<"byte", digit>>
Symbol(symbol) == <<"symbol", symbol>>
Double(x) == <<"double", x>>
(* Only other implementations write the integers of MessagePack. *)
Integer(i) == <<"integer", i>>

--------------------------------------------------------------------------------
(* encode *)

Power(digits) ==
  LET power[k \in 0 .. digits] == IF k = 0 THEN 1 ELSE ByteMod * power[k - 1]
  IN power[digits]

(* The digits of a length, the most significant first. *)
Digits(length, digits) ==
  [i \in 1 .. digits |-> Byte((length \div Power(digits - i)) % ByteMod)]

MaxFix(kind) == IF kind = "string" THEN MaxFixString ELSE MaxFixArray
Widths(kind) == IF kind = "string" THEN <<1, 2, 4>> ELSE <<2, 4>>

(* The shortest form that has room for the length. *)
RoomForOneMore(length, digits) == length <= Power(digits)           \* mutant
HasRoom(length, digits) == length < Power(digits)

Header(kind, length) ==
  IF length <= MaxFix(kind) THEN <<Fix(kind, length)>>
  ELSE LET fitting == {i \in DOMAIN Widths(kind) : HasRoom(length, Widths(kind)[i])}
           digits == Widths(kind)[CHOOSE i \in fitting : \A j \in fitting : i <= j]
       IN <<Sized(kind, digits)>> \o Digits(length, digits)

DumpString(symbols) ==
  Header("string", Len(symbols)) \o [i \in DOMAIN symbols |-> Symbol(symbols[i])]

RECURSIVE Encode(_)
Encode(v) ==
  CASE Kind(v) = "null"   -> <<Nil>>
    [] Kind(v) = "number" -> <<Double(Content(v))>>
    [] Kind(v) = "bool"   -> << <<"bool", Content(v)>> >>
    [] Kind(v) = "string" -> DumpString(Content(v))
    [] Kind(v) = "array"  ->
         Header("array", Len(Content(v)))
           \o FlattenSeq([i \in DOMAIN Content(v) |-> Encode(Content(v)[i])])
    [] Kind(v) = "object" ->
         LET keys == SetToSeq(DOMAIN Content(v))
             Member(key) == DumpString(key) \o Encode(Content(v)[key])
         IN Header("object", Len(keys))
              \o FlattenSeq([i \in DOMAIN keys |-> Member(keys[i])])

--------------------------------------------------------------------------------
(* decode.  The stream fails for good at the first read past its end.      *)

Failed == [ok |-> FALSE]
Parsed(value, i) == [ok |-> TRUE, value |-> value, next |-> i]

(* msgpack_to_data_object: integers are numbers as well, and what a data   *)
(* object cannot hold is null.  Strings, arrays and objects are built as   *)
(* data objects at once.                                                   *)
IsScalar(element) == Kind(element) \in {"nil", "bool", "double", "integer"}
AsDataObject(scalar) ==
  CASE Kind(scalar) = "bool"    -> Bool(Content(scalar))
    [] Kind(scalar) = "double"  -> Number(Content(scalar))
    [] Kind(scalar) = "integer" -> Number(2 * Content(scalar))
    [] Kind(scalar) \in {"nil", "binary"} -> Null

(* read_bytes, of a length *)
LengthAt(bytes, i, digits) ==
  LET value[k \in 0 .. digits] ==
        IF k = 0 THEN 0 ELSE (ByteMod * value[k - 1]) + Content(bytes[(i + k) - 1])
  IN value[digits]

Readable(bytes, i, length) == (i + length) - 1 <= Len(bytes)

(* parse_string_impl *)
ParseString(bytes, i, length) ==
  IF ~Readable(bytes, i, length) THEN Failed
  ELSE Parsed(String([k \in 1 .. length |-> Content(bytes[(i + k) - 1])]),
              i + length)

RECURSIVE ParseMsgPack(_, _, _), ParseItems(_, _, _, _, _),
          ParseMembers(_, _, _, _, _)

(* parse_array_impl: the remaining items *)
ItemsUntilFailure(bytes, i, remaining, depth, items) ==             \* mutant
  IF remaining = 0 THEN Parsed(Array(items), i)
  ELSE LET item == ParseMsgPack(bytes, i, depth)
       IN IF ~item.ok THEN Parsed(Array(items), i)
          ELSE ParseItems(bytes, item.next, remaining - 1, depth,
                          Append(items, item.value))
ParseItems(bytes, i, remaining, depth, items) ==
  IF remaining = 0 THEN Parsed(Array(items), i)
  ELSE LET item == ParseMsgPack(bytes, i, depth)
       IN IF ~item.ok THEN Failed
          ELSE ParseItems(bytes, item.next, remaining - 1, depth,
                          Append(items, item.value))

(* parse_object_impl: the first of equal keys counts.  Keys that are not   *)
(* strings, which this library never writes, are left out.                 *)
ParseMembers(bytes, i, remaining, depth, members) ==
  IF remaining = 0 THEN Parsed(Object(members), i)
  ELSE LET key == ParseMsgPack(bytes, i, depth)
           value == IF key.ok THEN ParseMsgPack(bytes, key.next, depth) ELSE Failed
       IN IF ~value.ok THEN Failed
          ELSE ParseMembers(bytes, value.next, remaining - 1, depth,
                            members @@ (Content(key.value) :> value.value))

ParseSized(bytes, i, kind, length, depth) ==
  CASE kind = "string" -> ParseString(bytes, i, length)
    [] kind = "array"  -> ParseItems(bytes, i, length, depth, <<>>)
    [] kind = "object" -> ParseMembers(bytes, i, length, depth, <<>>)
    [] kind = "binary" -> IF ~Readable(bytes, i, length) THEN Failed
                          ELSE Parsed(AsDataObject(<<kind>>), i + length)

TooDeep(depth) == MaxDepth < depth

ParseMsgPack(bytes, i, depth) ==
  IF TooDeep(depth) \/ i > Len(bytes) THEN Failed
  ELSE LET first == bytes[i] IN
    CASE IsScalar(first)       -> Parsed(AsDataObject(first), i + 1)
      [] Kind(first) = "fix"   ->
           ParseSized(bytes, i + 1, first[2], first[3], depth + 1)
      [] Kind(first) = "sized" ->
           IF ~Readable(bytes, i + 1, first[3]) THEN Failed
           ELSE ParseSized(bytes, i + 1 + first[3], first[2],
                           LengthAt(bytes, i + 1, first[3]), depth + 1)
      [] OTHER                 -> Failed

(* What follows the value is not looked at. *)
Decode(bytes) == ParseMsgPack(bytes, 1, 0)
================================================================================
