-------------------------------- MODULE MCPackets ------------------------------
(* Instances of Packets for TLC.                                              *)
EXTENDS Packets, Codecs

(* Group names: "a" and "ab" in ASCII. *)
ByteA == {0, 5, 6}
ByteB == {1, 5, 6}
MCGroupNames == {<<ByteA>>, <<ByteA, ByteB>>}
MCReceiverGroup == <<ByteA>>
MCName == <<"n">>

(* What the codecs must keep apart: null and the numbers JSON cannot say,     *)
(* strings of what dump escapes, each length for which MessagePack has a form *)
(* of its own, objects of which one is a part of the other, and nesting up to *)
(* the depth the parsers accept and beyond.                                   *)
X == <<"x">>
Nest(v) == Array(<<v>>)
MCValues ==
  { Nest(Number(NaN)),
    Array(<<Number(3), Bool(FALSE), Number(Inf), String(<<>>),
            String(<<"\"", "\\", "\n", "x">>),
            String(<<"U+0001", "U+2028">>)>>),
    Object(X :> Null),
    Object((X :> Null) @@ (<<"\"">> :> Number(-2))),
    Nest(Nest(Nest(Object(<<>>)))),
    Nest(Nest(Object(X :> Nest(Number(1))))) }

(* Packets of others: nothing, an unknown format, data that is not a packet,  *)
(* packets with an id that is missing, negative only after rounding, or not a *)
(* number, with a type that is unknown or not a string, and with a second     *)
(* value after the first.                                                     *)
Foreign ==
  { Null, Object(X :> Null), Array(<<>>),
    Array(<<String(<<"ack">>)>>),
    Array(<<String(<<"ack">>), String(X)>>),
    Array(<<String(<<"ack">>), Number(-1)>>),
    Array(<<String(<<"sync">>), Number(0)>>),
    Array(<<String(<<"sync">>), Number(-1), Null>>),
    Array(<<String(<<"msg">>), Null, Null>>),
    Array(<<String(X), Number(0), Null>>),
    Array(<<Number(0), Number(0), Null>>) }
MCStrays ==
  { <<>>, <<FormatByte(3), MSGPACK!Nil>> }
    \cup {Serialized(format, v) : format \in Formats, v \in Foreign}
    \cup { Serialized("JSON", AckObject(0)) \o JSON!Encode(Null),
           Serialized("MSGPACK", Array(<<String(<<"ack">>)>>)) \o
             <<MSGPACK!Double(0)>>,
           <<FormatByte(2), MSGPACK!Fix("array", 1), MSGPACK!Integer(-1)>>,
           <<FormatByte(2), MSGPACK!Sized("binary", 1), MSGPACK!Byte(1),
             MSGPACK!Byte(0)>> }

(* The CRC-32 itself: the check value of the polynomial, and that of the      *)
(* empty string.                                                              *)
BitsOf(number) == {i \in 0 .. 30 : (number \div 2 ^ i) % 2 = 1}
WordOf(high, low) == {i + 16 : i \in BitsOf(high)} \cup BitsOf(low)
FullCRC == INSTANCE CRC32
  WITH Width <- 32, Polynomial <- WordOf(60856, 33568)
Digits1To9 == [i \in 1 .. 9 |-> BitsOf(48 + i)]
ASSUME CheckValue ==
  /\ FullCRC!crc32String(Digits1To9) = WordOf(52212, 14630)
  /\ FullCRC!crc32String(<<>>) = {}

(* equals tells the current data, and the copy of it, from every other     *)
(* value, also when one is a part or the beginning of the other.           *)
EqualsIsIdentity ==
  \A v \in Values, w \in {data, copy} \ {NoCopy} :
    Equals(v, w) <=> (v = w /\ ~Occurs(v, NaN))
================================================================================
