--------------------------------- MODULE Codecs --------------------------------
(***************************************************************************)
(* The codecs of both formats, as Packets uses them.                       *)
(***************************************************************************)
EXTENDS DataTrees

CONSTANTS
  MaxDepth,          \* the parsers' limit of nesting, 200
  MaxFixString, MaxFixArray, ByteMod           \* see MsgPack

ASSUME CodecsAssumption ==
  /\ {MaxFixString, MaxFixArray} \subseteq 0 .. ByteMod - 1
  /\ ByteMod \in Nat \ {0, 1}

JSON == INSTANCE Json
MSGPACK == INSTANCE MsgPack

JsonCodecEncode(v) == JSON!Encode(v)
JsonCodecDecode(text) == JSON!Decode(text)
MsgPackCodecEncode(v) == MSGPACK!Encode(v)
MsgPackCodecDecode(bytes) == MSGPACK!Decode(bytes)

--------------------------------------------------------------------------------
(* For the properties. *)

(* JSON has no numbers that are not finite and says null instead. *)
RECURSIVE WithFiniteNumbers(_)
WithFiniteNumbers(v) ==
  CASE Kind(v) = "number" -> IF Content(v) \in NonFinite THEN Null ELSE v
    [] Kind(v) \in {"array", "object"} ->
         <<Kind(v), [i \in DOMAIN Content(v) |-> WithFiniteNumbers(Content(v)[i])]>>
    [] OTHER -> v

BeyondMaxDepth(v) == ~FitsInto(v, MaxDepth)
================================================================================
