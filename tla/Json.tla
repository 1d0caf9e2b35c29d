--------------------------------- MODULE Json ----------------------------------
(***************************************************************************)
(* The JSON codec: JsonCodec and the parts of json11 it uses.              *)
(*                                                                         *)
(* A text is a sequence of characters and of whole numbers and literals,   *)
(* which nothing in it can split or join.  Whitespace and comments are     *)
(* left out; the values of json11 are the data objects themselves.         *)
(***************************************************************************)
EXTENDS DataObject, SequencesExt

CONSTANT MaxDepth          \* 200

Char(c) == <<"char", c>>
Literal(name) == <<"literal", name>>
Quote == Char("\"")
Backslash == Char("\\")

(* The symbols dump writes with a backslash, and what follows it; one of   *)
(* each kind.  A symbol such as the line separator need not be escaped,    *)
(* while control characters, quotes and backslashes must.                  *)
Escape == ("\"" :> "\"") @@ ("\\" :> "\\") @@ ("\n" :> "n")
            @@ ("U+0001" :> "u0001") @@ ("U+2028" :> "u2028")
Control == {"\n", "U+0001"}
Unescaped(c) == CHOOSE symbol \in DOMAIN Escape : Escape[symbol] = c

--------------------------------------------------------------------------------
(* encode *)

DumpSymbolRaw(symbol) == <<Char(symbol)>>                           \* mutant
DumpSymbol(symbol) ==
  IF symbol \in DOMAIN Escape THEN <<Backslash, Char(Escape[symbol])>>
                              ELSE <<Char(symbol)>>
DumpString(symbols) ==
  <<Quote>> \o FlattenSeq([i \in DOMAIN symbols |-> DumpSymbol(symbols[i])])
    \o <<Quote>>
DumpAnyNumber(x) == << <<"number", x>> >>                           \* mutant
DumpNumber(x) ==
  IF x \in NonFinite THEN <<Literal("null")>> ELSE << <<"number", x>> >>

Separated(texts) ==
  FlattenSeq([i \in DOMAIN texts |->
                IF i = 1 THEN texts[i] ELSE <<Char(",")>> \o texts[i]])

RECURSIVE Encode(_)
Encode(v) ==
  CASE Kind(v) = "null"   -> <<Literal("null")>>
    [] Kind(v) = "number" -> DumpNumber(Content(v))
    [] Kind(v) = "bool"   -> <<Literal(IF Content(v) THEN "true" ELSE "false")>>
    [] Kind(v) = "string" -> DumpString(Content(v))
    [] Kind(v) = "array"  ->
         <<Char("[")>>
           \o Separated([i \in DOMAIN Content(v) |-> Encode(Content(v)[i])])
           \o <<Char("]")>>
    [] Kind(v) = "object" ->
         LET keys == SetToSeq(DOMAIN Content(v))
             Member(key) ==
               DumpString(key) \o <<Char(":")>> \o Encode(Content(v)[key])
         IN <<Char("{")>> \o Separated([i \in DOMAIN keys |-> Member(keys[i])])
              \o <<Char("}")>>

--------------------------------------------------------------------------------
(* decode.  A parser reads text from position i and yields the result and  *)
(* the position after it, or fails.                                        *)

Failed == [ok |-> FALSE]
Parsed(value, i) == [ok |-> TRUE, value |-> value, next |-> i]
At(text, i, token) == i <= Len(text) /\ text[i] = token

(* json_to_data_object.  Strings, arrays and objects are built as data     *)
(* objects at once.                                                        *)
IsScalar(token) == Kind(token) \in {"number", "literal"}
AsDataObject(scalar) ==
  CASE Kind(scalar) = "number"    -> Number(Content(scalar))
    [] scalar = Literal("true")  -> Bool(TRUE)
    [] scalar = Literal("false") -> Bool(FALSE)
    [] scalar = Literal("null")  -> Null

(* parse_string, after the opening quote *)
RECURSIVE ParseString(_, _, _)
ParseString(text, i, out) ==
  IF i > Len(text) \/ text[i] \in {Char(c) : c \in Control} THEN Failed
  ELSE IF text[i] = Quote THEN Parsed(out, i + 1)
  ELSE IF text[i] # Backslash
    THEN ParseString(text, i + 1, Append(out, Content(text[i])))
  ELSE IF i < Len(text) /\ \E symbol \in DOMAIN Escape :
            text[i + 1] = Char(Escape[symbol])
    THEN ParseString(text, i + 2, Append(out, Unescaped(Content(text[i + 1]))))
  ELSE Failed

RECURSIVE ParseJson(_, _, _), ParseItems(_, _, _, _), ParseMembers(_, _, _, _)

(* The items of an array, and the members of an object, from an item on.   *)
ParseItems(text, i, depth, items) ==
  LET item == ParseJson(text, i, depth) IN
  IF ~item.ok THEN Failed
  ELSE IF At(text, item.next, Char("]"))
    THEN Parsed(Array(Append(items, item.value)), item.next + 1)
  ELSE IF At(text, item.next, Char(","))
    THEN ParseItems(text, item.next + 1, depth, Append(items, item.value))
  ELSE Failed

(* The last of equal keys counts. *)
ParseMembers(text, i, depth, members) ==
  LET key == IF At(text, i, Quote) THEN ParseString(text, i + 1, <<>>)
                                   ELSE Failed
      value == IF key.ok /\ At(text, key.next, Char(":"))
                 THEN ParseJson(text, key.next + 1, depth) ELSE Failed
  IN IF ~value.ok THEN Failed
     ELSE LET with == (key.value :> value.value) @@ members IN
       IF At(text, value.next, Char("}")) THEN Parsed(Object(with), value.next + 1)
       ELSE IF At(text, value.next, Char(","))
         THEN ParseMembers(text, value.next + 1, depth, with)
       ELSE Failed

DeeperByOne(depth) == depth > MaxDepth + 1                          \* mutant
TooDeep(depth) == depth > MaxDepth

ParseJson(text, i, depth) ==
  IF TooDeep(depth) \/ i > Len(text) THEN Failed
  ELSE CASE IsScalar(text[i]) -> Parsed(AsDataObject(text[i]), i + 1)
         [] text[i] = Quote     ->
              LET string == ParseString(text, i + 1, <<>>)
              IN IF string.ok THEN Parsed(String(string.value), string.next)
                              ELSE Failed
         [] text[i] = Char("[") ->
              IF At(text, i + 1, Char("]")) THEN Parsed(Array(<<>>), i + 2)
              ELSE ParseItems(text, i + 1, depth + 1, <<>>)
         [] text[i] = Char("{") ->
              IF At(text, i + 1, Char("}")) THEN Parsed(Object(<<>>), i + 2)
              ELSE ParseMembers(text, i + 1, depth + 1, <<>>)
         [] OTHER               -> Failed

(* Nothing may follow the value. *)
Decode(text) ==
  LET result == ParseJson(text, 1, 0)
  IN IF result.ok /\ result.next = Len(text) + 1 THEN result ELSE Failed
================================================================================
