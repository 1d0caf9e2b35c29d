------------------------------ MODULE PacketsProofs ----------------------------
(***************************************************************************)
(* Theorems about Packets.  They hold for whatever codecs, hash and other  *)
(* packets for which CodecsAgree holds, which is what the run of Packets   *)
(* checks of both codecs; what a codec makes of a value is defined by      *)
(* recursion over the value, and is not proved here.                       *)
(***************************************************************************)
EXTENDS Packets, TLAPS

(* What CodecsAgree says now holds of everything that may be sent, and an  *)
(* unsigned int has room for every id.                                     *)
ReliableCodecs ==
  /\ \A group \in GroupNames, value \in Values :
       [group |-> group, data |-> value] \in Reliable
  /\ HashesDiffer
  /\ NoStrayIsUnderstood
  /\ 2 ^ Width \in Nat \ (0 .. MaxMessages - 1)

Ids == 0 .. MaxMessages - 1

--------------------------------------------------------------------------------
(* Packets. *)

(* A packet is recognised as one of the format it is in. *)
LEMMA FormatIsKept ==
  ASSUME NEW format \in Formats, NEW S, NEW text \in Seq(S)
  PROVE  LET packet == <<FormatByte(FormatBytes[format])>> \o text
         IN HasFormat(packet) /\ FormatOf(packet) = format /\ Tail(packet) = text
<1> DEFINE b == FormatByte(FormatBytes[format])
           packet == <<b>> \o text
<1>1. \A f \in Formats : FormatByte(FormatBytes[f]) = b => f = format
  BY DEF Formats, FormatByte, FormatBytes
<1> HIDE DEF b
<1>2. packet # <<>> /\ packet[1] = b /\ Tail(packet) = text
  <2>1. <<b>> \in Seq({b} \cup S) /\ text \in Seq({b} \cup S)
    OBVIOUS
  <2> QED
    BY <2>1
<1>3. HasFormat(packet)
  BY <1>2 DEF HasFormat, b
<1>4. FormatOf(packet) = format
  BY <1>1, <1>2 DEF FormatOf, b
<1> QED
  BY <1>2, <1>3, <1>4 DEF b

(* The start of a packet is empty, or it has the format of the packet and  *)
(* the start of its text.                                                  *)
LEMMA StartOfPacket ==
  ASSUME NEW b, NEW S, NEW text \in Seq(S),
         NEW packet \in Starts(<<b>> \o text) \ {<<b>> \o text}
  PROVE  \/ packet = <<>>
         \/ \E length \in 0 .. Len(text) - 1 :
              /\ packet = <<b>> \o SubSeq(text, 1, length)
              /\ SubSeq(text, 1, length) \in Seq(S)
<1> DEFINE whole == <<b>> \o text
<1>1. /\ whole \in Seq({b} \cup S)
      /\ Len(whole) = 1 + Len(text)
      /\ whole[1] = b
      /\ \A i \in 1 .. Len(text) : whole[1 + i] = text[i]
  <2>1. <<b>> \in Seq({b} \cup S) /\ text \in Seq({b} \cup S)
    OBVIOUS
  <2> QED
    BY <2>1
<1> HIDE DEF whole
<1>2. PICK n \in 0 .. Len(whole) : packet = SubSeq(whole, 1, n)
  BY DEF Starts, whole
<1>3. CASE n = 0
  BY <1>1, <1>2, <1>3
<1>4. CASE n = Len(whole)
  <2>1. packet = whole
    BY <1>1, <1>2, <1>4
  <2> QED
    BY <2>1 DEF whole
<1>5. CASE n \in 1 .. Len(text)
  <2> DEFINE part == SubSeq(text, 1, n - 1)
  <2>1. part \in Seq(S) /\ Len(part) = n - 1 /\ n - 1 \in 0 .. Len(text) - 1
    BY <1>5
  <2>2. packet = <<b>> \o part
    <3>1. <<b>> \in Seq({b} \cup S) /\ part \in Seq({b} \cup S)
      BY <2>1
    <3>2. <<b>> \o part \in Seq({b} \cup S) /\ Len(<<b>> \o part) = n
      BY <2>1, <3>1, <1>5
    <3>3. packet \in Seq({b} \cup S) /\ Len(packet) = n
      BY <1>1, <1>2, <1>5
    <3>4. \A i \in 1 .. n : packet[i] = (<<b>> \o part)[i]
      <4> TAKE i \in 1 .. n
      <4>1. packet[i] = whole[i]
        BY <1>1, <1>2, <1>5
      <4>2. CASE i = 1
        BY <4>1, <4>2, <1>1, <3>1
      <4>3. CASE i \in 2 .. n
        <5>1. whole[i] = text[i - 1]
          <6>1. i - 1 \in 1 .. Len(text) /\ 1 + (i - 1) = i
            BY <1>5, <4>3
          <6> QED
            BY <6>1, <1>1
        <5>2. (<<b>> \o part)[i] = part[i - 1]
          BY <2>1, <3>1, <4>3, <1>5
        <5>3. part[i - 1] = text[i - 1]
          BY <1>5, <4>3
        <5> QED
          BY <4>1, <5>1, <5>2, <5>3
      <4> QED
        BY <4>2, <4>3, <1>5
    <3> HIDE DEF part
    <3> QED
      BY <3>2, <3>3, <3>4
  <2> QED
    BY <2>1, <2>2
<1>6. n = 0 \/ n = Len(whole) \/ n \in 1 .. Len(text)
  <2>1. Len(text) \in Nat
    OBVIOUS
  <2> QED
    BY <2>1, <1>1, <1>2
<1> QED
  BY <1>3, <1>4, <1>5, <1>6

(* What survives a codec is received as what is left of it, if at all. *)
LEMMA WholePacket ==
  ASSUME NEW format \in Formats, NEW v, Survives(format, v)
  PROVE  Received(Serialized(format, v)) =
           IF Parsable(v) THEN Accepted(Understood(format, v)) ELSE Ignored
<1> DEFINE text == Encoded(format, v)
<1>1. HasFormat(Serialized(format, v)) /\ FormatOf(Serialized(format, v)) = format
      /\ Tail(Serialized(format, v)) = text
  BY FormatIsKept DEF Survives, Serialized
<1> QED
  BY <1>1 DEF Received, Survives

LEMMA PartOfPacket ==
  ASSUME NEW format \in Formats, NEW v, Survives(format, v),
         NEW packet \in Starts(Serialized(format, v)) \ {Serialized(format, v)}
  PROVE  Received(packet) = Ignored
<1> DEFINE text == Encoded(format, v)
           b == FormatByte(FormatBytes[format])
<1>1. text \in Seq(Range(text))
      /\ \A length \in 0 .. Len(text) - 1 :
           ~Decoded(format, SubSeq(text, 1, length)).ok
  BY DEF Survives
<1>2. packet \in Starts(<<b>> \o text) \ {<<b>> \o text}
  BY DEF Serialized
<1> HIDE DEF text
<1>3. CASE packet = <<>>
  BY <1>3 DEF Received, HasFormat
<1>4. ASSUME NEW length \in 0 .. Len(text) - 1,
             packet = <<b>> \o SubSeq(text, 1, length),
             SubSeq(text, 1, length) \in Seq(Range(text))
      PROVE  Received(packet) = Ignored
  <2>1. /\ HasFormat(packet) /\ FormatOf(packet) = format
        /\ Tail(packet) = SubSeq(text, 1, length)
    BY <1>4, FormatIsKept
  <2> QED
    BY <2>1, <1>1, <1>4 DEF Received
<1> HIDE DEF b
<1> QED
  BY <1>1, <1>2, <1>3, <1>4, StartOfPacket

(* The checks on a packet take an acknowledgement and a message for what   *)
(* they are, and a "dereg" message for nothing.                            *)
LEMMA IdIsKept ==
  ASSUME ReliableCodecs, PacketsAssumption, NEW id \in Ids
  PROVE  /\ IntValueOr(Number(2 * id), -1) = id
         /\ id >= 0
         /\ id % (2 ^ Width) = id
<1>1. id \in Nat /\ id < MaxMessages /\ MaxMessages \in Nat
  BY DEF Ids, PacketsAssumption
<1>2. IntValueOr(Number(2 * id), -1) = id
  <2>1. Rounded(2 * id) = id
    BY <1>1 DEF Rounded
  <2> QED
    BY <2>1 DEF IntValueOr, Number, Kind, Content
<1>3. id % (2 ^ Width) = id
  <2> DEFINE w == 2 ^ Width
  <2>1. w \in Nat \ (0 .. MaxMessages - 1)
    BY DEF ReliableCodecs
  <2> HIDE DEF w
  <2>2. id % w = id
    BY <1>1, <2>1
  <2> QED
    BY <2>2 DEF w
<1> QED
  BY <1>1, <1>2, <1>3

LEMMA AckIsAccepted ==
  ASSUME ReliableCodecs, PacketsAssumption, NEW id \in Ids
  PROVE  Accepted(AckObject(id)) = [kind |-> "ack", id |-> id]
<1> DEFINE number == Number(2 * id)
           ack == AckObject(id)
<1>1. Items(ack) = <<String(<<"ack">>), number>>
  BY DEF AckObject, Items, Array, Kind, Content
<1>2. StringValueOr(String(<<"ack">>), <<>>) = <<"ack">>
  BY DEF StringValueOr, String, Kind, Content
<1> HIDE DEF number, ack
<1>3. /\ Items(ack) # <<>> /\ Len(Items(ack)) = 2
      /\ Items(ack)[1] = String(<<"ack">>) /\ Items(ack)[2] = number
  BY <1>1
<1>4. IntValueOr(number, -1) = id /\ id >= 0 /\ id % (2 ^ Width) = id
  BY IdIsKept DEF number
<1>5. Accepted(ack) = [kind |-> "ack", id |-> id % (2 ^ Width)]
  BY <1>2, <1>3, <1>4 DEF Accepted
<1> QED
  BY <1>4, <1>5 DEF ack

LEMMA TypeStringsDiffer ==
  /\ \A type \in MessageTypes : TypeOf(TypeStrings[type]) = type
  /\ \A type \in MessageTypes : TypeStrings[type] # <<"ack">>
  /\ \A type \in MessageTypes :
       TypeStrings[type] \in {<<"msg">>, <<"sync">>, <<"req_init_sync">>}
         <=> type # "DEREG"
<1>1. \A type, t \in MessageTypes : TypeStrings[type] = TypeStrings[t] => type = t
  BY DEF MessageTypes, TypeStrings
<1>2. \A type \in MessageTypes : TypeOf(TypeStrings[type]) = type
  BY <1>1 DEF TypeOf
<1>3. \A type \in MessageTypes : TypeStrings[type] # <<"ack">>
  BY DEF MessageTypes, TypeStrings
<1>4. \A type \in MessageTypes :
        TypeStrings[type] \in {<<"msg">>, <<"sync">>, <<"req_init_sync">>}
          <=> type # "DEREG"
  BY DEF MessageTypes, TypeStrings
<1> QED
  BY <1>2, <1>3, <1>4

LEMMA MessageIsAccepted ==
  ASSUME ReliableCodecs, PacketsAssumption, NEW id \in Ids,
         NEW type \in MessageTypes, NEW content
  PROVE  Accepted(PacketObject(type, id, content)) =
           IF type = "DEREG" THEN Ignored
           ELSE [kind |-> "message", id |-> id, type |-> type, data |-> content]
<1> DEFINE number == Number(2 * id)
           string == TypeStrings[type]
           object == PacketObject(type, id, content)
<1>1. Items(object) = <<String(string), number, content>>
  BY DEF PacketObject, Items, Array, Kind, Content
<1>2. StringValueOr(String(string), <<>>) = string
  BY DEF StringValueOr, String, Kind, Content
<1>3. /\ TypeOf(string) = type /\ string # <<"ack">>
      /\ string \in {<<"msg">>, <<"sync">>, <<"req_init_sync">>} <=> type # "DEREG"
  BY TypeStringsDiffer
<1> HIDE DEF number, string, object
<1>4. /\ Items(object) # <<>> /\ Len(Items(object)) = 3
      /\ Items(object)[1] = String(string) /\ Items(object)[2] = number
      /\ Items(object)[3] = content
  BY <1>1
<1>5. IntValueOr(number, -1) = id /\ id >= 0 /\ id % (2 ^ Width) = id
  BY IdIsKept DEF number
<1>6. CASE type = "DEREG"
  <2>1. Accepted(object) = Ignored
    BY <1>2, <1>3, <1>4, <1>5, <1>6 DEF Accepted
  <2> QED
    BY <2>1, <1>6 DEF object
<1>7. CASE type # "DEREG"
  <2>1. Accepted(object) = [kind |-> "message", id |-> id % (2 ^ Width),
                            type |-> TypeOf(string), data |-> content]
    BY <1>2, <1>3, <1>4, <1>5, <1>7 DEF Accepted
  <2> QED
    BY <2>1, <1>3, <1>5, <1>7 DEF object
<1> QED
  BY <1>6, <1>7
--------------------------------------------------------------------------------
(* Transmissions. *)

(* What Saying makes of a message under a group and with data. *)
SayingOf(id, type, format, group, value) ==
  LET content == MessageData(type, group, value)
      object == PacketObject(type, id, content)
  IN [id |-> id, type |-> type, format |-> format, group |-> group,
      object |-> object, value |-> Understood(format, value),
      heard_as |->
        IF type # "DEREG" /\ Parsable(object)
          THEN {[id |-> id, type |-> type, data |-> Understood(format, content)]}
          ELSE {}]

Bytes(h) == Serialized(h.format, h.object)

LEMMA SayingNow ==
  ASSUME NEW m
  PROVE  Saying(m) = SayingOf(m.id, m.type, m.format, group_name, data)
BY DEF Saying, SayingOf

LEMMA CodecsAreReliable ==
  ASSUME ReliableCodecs, NEW format \in Formats, NEW id \in Ids
  PROVE  \A group \in GroupNames, value \in Values :
           /\ AckSurvives(format, id)
           /\ \A type \in MessageTypes :
                MessageSurvives(format, type, id, group, value)
<1> TAKE group \in GroupNames, value \in Values
<1>1. [group |-> group, data |-> value] \in Reliable
  BY DEF ReliableCodecs
<1>2. PICK sent \in GroupNames \X Values :
        /\ [group |-> group, data |-> value] = [group |-> sent[1], data |-> sent[2]]
        /\ \A f \in Formats, i \in 0 .. MaxMessages - 1 :
             /\ AckSurvives(f, i)
             /\ \A type \in MessageTypes :
                  MessageSurvives(f, type, i, sent[1], sent[2])
  BY <1>1 DEF Reliable
<1>3. group = sent[1] /\ value = sent[2]
  <2> DEFINE one == [group |-> group, data |-> value]
             other == [group |-> sent[1], data |-> sent[2]]
  <2>1. one.group = other.group /\ one.data = other.data
    BY <1>2
  <2> QED
    BY <2>1
<1> QED
  BY <1>2, <1>3 DEF Ids

(* What the receiver takes a transmission for. *)
Kept(h, id, type, format, group, value) ==
  LET m == [id |-> id, type |-> type,
            data |-> MessageData(type, group, Understood(format, value))]
  IN
  /\ type # "DEREG"
  /\ h.heard_as = {m}
  /\ Received(Bytes(h)) =
       [kind |-> "message", id |-> id, type |-> type, data |-> m.data]
Dropped(h) == h.heard_as = {} /\ Received(Bytes(h)) = Ignored

LEMMA TransmissionIsKept ==
  ASSUME ReliableCodecs, PacketsAssumption,
         NEW id \in Ids, NEW type \in MessageTypes, NEW format \in Formats,
         NEW group \in GroupNames, NEW value \in Values, NEW h,
         h = SayingOf(id, type, format, group, value)
  PROVE  /\ Dropped(h) \/ Kept(h, id, type, format, group, value)
         /\ \A packet \in Starts(Bytes(h)) \ {Bytes(h)} : Received(packet) = Ignored
<1> DEFINE content == MessageData(type, group, value)
           left == MessageData(type, group, Understood(format, value))
           object == PacketObject(type, id, content)
<1>1. /\ Survives(format, object)
      /\ Understood(format, object) = PacketObject(type, id, left)
      /\ Understood(format, content) = left
  BY CodecsAreReliable DEF MessageSurvives
<1>2. Bytes(h) = Serialized(format, object)
  BY DEF Bytes, SayingOf
<1>3. h.heard_as = IF type # "DEREG" /\ Parsable(object)
                     THEN {[id |-> id, type |-> type, data |-> left]}
                     ELSE {}
  BY <1>1 DEF SayingOf
<1> HIDE DEF object
<1>4. Received(Bytes(h)) = IF Parsable(object)
                             THEN Accepted(PacketObject(type, id, left))
                             ELSE Ignored
  BY <1>1, <1>2, WholePacket
<1>5. Accepted(PacketObject(type, id, left)) =
        IF type = "DEREG" THEN Ignored
        ELSE [kind |-> "message", id |-> id, type |-> type, data |-> left]
  BY MessageIsAccepted
<1>6. Dropped(h) \/ Kept(h, id, type, format, group, value)
  <2> HIDE DEF left
  <2>1. CASE type # "DEREG" /\ Parsable(object)
    BY <1>3, <1>4, <1>5, <2>1 DEF Kept, left
  <2>2. CASE ~(type # "DEREG" /\ Parsable(object))
    BY <1>3, <1>4, <1>5, <2>2 DEF Dropped
  <2> QED
    BY <2>1, <2>2
<1>7. \A packet \in Starts(Bytes(h)) \ {Bytes(h)} : Received(packet) = Ignored
  BY <1>1, <1>2, PartOfPacket
<1> QED
  BY <1>6, <1>7

(* The same for acknowledgements. *)
LEMMA AckIsKept ==
  ASSUME ReliableCodecs, PacketsAssumption, GroupNames # {}, Values # {},
         NEW id \in Ids, NEW format \in Formats, NEW bytes,
         bytes = Serialized(format, AckObject(id))
  PROVE  /\ Received(bytes) = [kind |-> "ack", id |-> id]
         /\ \A packet \in Starts(bytes) \ {bytes} : Received(packet) = Ignored
<1>1. AckSurvives(format, id)
  BY CodecsAreReliable
<1>2. /\ Survives(format, AckObject(id)) /\ Parsable(AckObject(id))
      /\ Understood(format, AckObject(id)) = AckObject(id)
  BY <1>1 DEF AckSurvives
<1>3. Received(bytes) = Accepted(AckObject(id))
  BY <1>2, WholePacket
<1>4. \A packet \in Starts(bytes) \ {bytes} : Received(packet) = Ignored
  BY <1>2, PartOfPacket
<1> QED
  BY <1>3, <1>4, AckIsAccepted
--------------------------------------------------------------------------------
(* The invariant: where everything on the network comes from. *)

IsTransmission(h) ==
  \E id \in 0 .. next_active_message_id - 1, type \in MessageTypes,
     format \in Formats, group \in GroupNames, value \in Values :
    h = SayingOf(id, type, format, group, value)

SaidIsSound == \A h \in said : IsTransmission(h)

PacketsAreSound ==
  \A p \in packets :
    /\ p.to \in {"receiver", "sender"}
    /\ p.to = "receiver" => \E h \in said : p.bytes = Bytes(h)
    /\ p.to = "sender" =>
         \E x \in heard, format \in Formats :
           p.bytes = Serialized(format, AckObject(x.id))

HeardIsSound ==
  /\ heard \subseteq UNION {h.heard_as : h \in said}
  /\ handled = {x.id : x \in heard}

PacketsInv ==
  /\ TypeOK
  /\ SaidIsSound
  /\ PacketsAreSound
  /\ HeardIsSound
  /\ GroupsKeptApart

LEMMA IdsOfSaid ==
  ASSUME TypeOK, PacketsAssumption
  PROVE  0 .. next_active_message_id - 1 \subseteq Ids
BY DEF TypeOK, PacketsAssumption, Ids

LEMMA TransmissionSaid ==
  ASSUME ReliableCodecs, PacketsAssumption, TypeOK, SaidIsSound, NEW h \in said
  PROVE  \E id \in 0 .. next_active_message_id - 1, type \in MessageTypes,
            format \in Formats, group \in GroupNames, value \in Values :
           /\ h = SayingOf(id, type, format, group, value)
           /\ Dropped(h) \/ Kept(h, id, type, format, group, value)
           /\ \A packet \in Starts(Bytes(h)) \ {Bytes(h)} :
                Received(packet) = Ignored
<1>1. PICK id \in 0 .. next_active_message_id - 1, type \in MessageTypes,
           format \in Formats, group \in GroupNames, value \in Values :
             h = SayingOf(id, type, format, group, value)
  BY DEF SaidIsSound, IsTransmission
<1>2. id \in Ids
  BY IdsOfSaid
<1>3. /\ Dropped(h) \/ Kept(h, id, type, format, group, value)
      /\ \A packet \in Starts(Bytes(h)) \ {Bytes(h)} :
           Received(packet) = Ignored
  BY <1>1, <1>2, TransmissionIsKept
<1> QED
  BY <1>1, <1>3

(* What has been heard is a message with an id that has been given. *)
LEMMA HeardIds ==
  ASSUME ReliableCodecs, PacketsAssumption, TypeOK, SaidIsSound, HeardIsSound,
         NEW x \in heard
  PROVE  x.id \in 0 .. next_active_message_id - 1 /\ x.id \in Ids
BY IdsOfSaid DEF HeardIsSound, TypeOK

(* Whatever arrives at the receiver is ignored, or is what was said. *)
LEMMA ArrivingAtReceiver ==
  ASSUME ReliableCodecs, PacketsAssumption, PacketsInv,
         NEW packet \in Arriving("receiver"), Received(packet) # Ignored
  PROVE  \E h \in said, id \in 0 .. next_active_message_id - 1,
            type \in MessageTypes, format \in Formats, group \in GroupNames,
            value \in Values :
           /\ h = SayingOf(id, type, format, group, value)
           /\ packet = Bytes(h)
           /\ Kept(h, id, type, format, group, value)
<1>1. packet \notin Strays
  BY DEF ReliableCodecs, NoStrayIsUnderstood
<1>2. PICK p \in packets : p.to = "receiver" /\ packet \in Starts(p.bytes)
  BY <1>1 DEF Arriving
<1>3. PICK h \in said : p.bytes = Bytes(h)
  BY <1>2 DEF PacketsInv, PacketsAreSound
<1>4. PICK id \in 0 .. next_active_message_id - 1, type \in MessageTypes,
           format \in Formats, group \in GroupNames, value \in Values :
           /\ h = SayingOf(id, type, format, group, value)
           /\ Dropped(h) \/ Kept(h, id, type, format, group, value)
           /\ \A start \in Starts(Bytes(h)) \ {Bytes(h)} :
                Received(start) = Ignored
  BY TransmissionSaid DEF PacketsInv
<1>5. packet = Bytes(h)
  BY <1>2, <1>3, <1>4
<1>6. Kept(h, id, type, format, group, value)
  BY <1>4, <1>5 DEF Dropped
<1> QED
  BY <1>4, <1>5, <1>6

(* Whatever arrives at the sender is ignored, or acknowledges a message    *)
(* that was heard.                                                         *)
LEMMA ArrivingAtSender ==
  ASSUME ReliableCodecs, PacketsAssumption, PacketsInv,
         NEW packet \in Arriving("sender"), Received(packet) # Ignored
  PROVE  \E x \in heard : Received(packet) = [kind |-> "ack", id |-> x.id]
<1>1. packet \notin Strays
  BY DEF ReliableCodecs, NoStrayIsUnderstood
<1>2. PICK p \in packets : p.to = "sender" /\ packet \in Starts(p.bytes)
  BY <1>1 DEF Arriving
<1>3. PICK x \in heard, format \in Formats :
        p.bytes = Serialized(format, AckObject(x.id))
  BY <1>2 DEF PacketsInv, PacketsAreSound
<1>4. x.id \in Ids
  BY HeardIds DEF PacketsInv
<1>5. GroupNames # {} /\ Values # {}
  BY DEF PacketsInv, TypeOK
<1>6. /\ Received(p.bytes) = [kind |-> "ack", id |-> x.id]
      /\ \A start \in Starts(p.bytes) \ {p.bytes} : Received(start) = Ignored
  BY <1>3, <1>4, <1>5, AckIsKept
<1> QED
  BY <1>2, <1>6

(* The hash a "sync" message carries identifies the receiver's group. *)
LEMMA HashIsKept ==
  ASSUME ReliableCodecs, NEW group \in GroupNames
  PROVE  IntValueOr(Number(2 * GroupHash(group)), 0) % (2 ^ Width) = GroupHash(group)
<1> DEFINE w == 2 ^ Width
           hash == GroupHash(group)
<1>1. w \in Nat /\ hash \in 0 .. w - 1
  BY DEF ReliableCodecs, HashesDiffer
<1> HIDE DEF w, hash
<1>2. IntValueOr(Number(2 * hash), 0) = hash
  <2>1. Rounded(2 * hash) = hash
    BY <1>1 DEF Rounded
  <2> QED
    BY <2>1 DEF IntValueOr, Number, Kind, Content
<1>3. hash % w = hash
  BY <1>1
<1> QED
  BY <1>2, <1>3 DEF w, hash

LEMMA CopyIsOfOwnGroup ==
  ASSUME ReliableCodecs, NEW type \in MessageTypes, NEW group \in GroupNames,
         NEW left, NEW m, m.type = type, m.data = MessageData(type, group, left),
         CopyAfter(m) # copy
  PROVE  type = "SYNC" /\ group = ReceiverGroup /\ CopyAfter(m) = left
<1> DEFINE number == Number(2 * GroupHash(group))
           items == Items(m.data)
<1>1. type = "SYNC"
  BY DEF CopyAfter
<1>2. m.data = Array(<<number, String(Name), left>>)
  BY <1>1 DEF MessageData
<1>3. items = <<number, String(Name), left>>
  BY <1>2 DEF Items, Array, Kind, Content
<1>4. IntValueOr(number, 0) % (2 ^ Width) = GroupHash(group)
  BY HashIsKept
<1> HIDE DEF number
<1>5. items[1] = number /\ items[3] = left
  BY <1>3
<1> HIDE DEF items
<1>6. /\ IntValueOr(items[1], 0) % (2 ^ Width) = GroupHash(ReceiverGroup)
      /\ CopyAfter(m) = items[3]
  BY DEF CopyAfter, items
<1>7. GroupHash(group) = GroupHash(ReceiverGroup)
  BY <1>4, <1>5, <1>6
<1>8. group = ReceiverGroup
  BY <1>7 DEF ReliableCodecs, HashesDiffer
<1> QED
  BY <1>1, <1>5, <1>6, <1>8

--------------------------------------------------------------------------------
(* The invariant is kept by every step. *)

LEMMA MoreNumbers ==
  ASSUME NEW i \in Nat, NEW j \in Nat, i <= j
  PROVE  0 .. i - 1 \subseteq 0 .. j - 1
OBVIOUS

LEMMA SendingIsSound ==
  ASSUME PacketsInv, PacketsAssumption, NEW M, SendAll(M),
         UNCHANGED <<receiver_vars, group_name, data>>,
         next_active_message_id' \in Nat,
         next_active_message_id <= next_active_message_id',
         \A m \in M : /\ m.id \in 0 .. next_active_message_id' - 1
                      /\ m.type \in MessageTypes
                      /\ m.format \in Formats
  PROVE  SaidIsSound' /\ PacketsAreSound' /\ HeardIsSound' /\ GroupsKeptApart'
<1>0. 0 .. next_active_message_id - 1 \subseteq 0 .. next_active_message_id' - 1
  <2>1. next_active_message_id \in Nat
    BY DEF PacketsInv, TypeOK, PacketsAssumption
  <2> QED
    BY <2>1, MoreNumbers
<1>1. said \subseteq said'
  BY DEF SendAll
<1>2. ASSUME NEW m \in M
      PROVE  IsTransmission(Saying(m))'
  <2>1. group_name \in GroupNames /\ data \in Values
    BY DEF PacketsInv, TypeOK
  <2>2. Saying(m) = SayingOf(m.id, m.type, m.format, group_name, data)
    BY SayingNow
  <2>3. Saying(m)' = SayingOf(m.id, m.type, m.format, group_name, data)
    BY <2>2 DEF Saying
  <2> QED
    BY <2>1, <2>3 DEF IsTransmission
<1>3. SaidIsSound'
  <2> SUFFICES ASSUME NEW h \in said'
               PROVE  IsTransmission(h)'
    BY DEF SaidIsSound
  <2>1. CASE h \in said
    <3>1. PICK id \in 0 .. next_active_message_id - 1, type \in MessageTypes,
               format \in Formats, group \in GroupNames, value \in Values :
            h = SayingOf(id, type, format, group, value)
      BY <2>1 DEF PacketsInv, SaidIsSound, IsTransmission
    <3>2. id \in 0 .. next_active_message_id' - 1
      BY <3>1, <1>0
    <3> QED
      BY <3>1, <3>2 DEF IsTransmission
  <2>2. CASE h \notin said
    <3>1. PICK m \in M : h = Saying(m)
      BY <2>2 DEF SendAll
    <3>2. h = Saying(m)'
      BY <3>1 DEF Saying
    <3> QED
      BY <1>2, <3>2
  <2> QED
    BY <2>1, <2>2
<1>4. PacketsAreSound'
  <2> SUFFICES ASSUME NEW p \in packets'
               PROVE  /\ p.to \in {"receiver", "sender"}
                      /\ p.to = "receiver" => \E h \in said' : p.bytes = Bytes(h)
                      /\ p.to = "sender" =>
                           \E x \in heard', format \in Formats :
                             p.bytes = Serialized(format, AckObject(x.id))
    BY DEF PacketsAreSound
  <2>1. CASE p \in packets
    BY <2>1, <1>1 DEF PacketsInv, PacketsAreSound, receiver_vars
  <2>2. CASE p \notin packets
    <3>1. PICK m \in M :
            p = [to |-> "receiver", bytes |-> Serialized(m.format, Saying(m).object)]
      BY <2>2 DEF SendAll
    <3>2. Saying(m) \in said' /\ Saying(m).format = m.format
      BY DEF SendAll, Saying
    <3>3. p.to = "receiver" /\ p.bytes = Bytes(Saying(m))
      BY <3>1, <3>2 DEF Bytes
    <3> QED
      BY <3>2, <3>3
  <2> QED
    BY <2>1, <2>2
<1>5. HeardIsSound'
  <2>1. UNION {h.heard_as : h \in said} \subseteq UNION {h.heard_as : h \in said'}
    BY <1>1
  <2> QED
    BY <2>1 DEF PacketsInv, HeardIsSound, receiver_vars
<1>6. GroupsKeptApart'
  BY <1>1 DEF PacketsInv, GroupsKeptApart, receiver_vars
<1> QED
  BY <1>3, <1>4, <1>5, <1>6

LEMMA SendMessageIsSound ==
  ASSUME PacketsInv, PacketsAssumption, NEW type \in MessageTypes, SendMessage(type)
  PROVE  PacketsInv'
<1> DEFINE m == [id |-> next_active_message_id, type |-> type,
                 format |-> default_data_format, retries_left |-> MaxRetries]
<1>1. /\ next_active_message_id < MaxMessages
      /\ next_active_message_id' = next_active_message_id + 1
      /\ active_messages' = active_messages \cup {m}
      /\ SendAll({m})
      /\ UNCHANGED <<application_vars, confirmed, receiver_vars>>
  BY DEF SendMessage
<1>2. /\ m.id = next_active_message_id /\ m.type = type
      /\ m.format = default_data_format /\ m.retries_left = MaxRetries
  OBVIOUS
<1> HIDE DEF m
<1>3. TypeOK'
  <2>1. active_messages' \subseteq
          [id : 0 .. next_active_message_id' - 1, type : MessageTypes,
           format : Formats, retries_left : 1 .. MaxRetries]
    <3>1. active_messages \subseteq
            [id : 0 .. next_active_message_id' - 1, type : MessageTypes,
             format : Formats, retries_left : 1 .. MaxRetries]
      BY <1>1, MoreNumbers DEF PacketsInv, TypeOK, PacketsAssumption
    <3>2. m \in [id : 0 .. next_active_message_id' - 1, type : MessageTypes,
                format : Formats, retries_left : 1 .. MaxRetries]
      BY <1>1 DEF m, PacketsInv, TypeOK, PacketsAssumption
    <3> QED
      BY <1>1, <3>1, <3>2
  <2>2. handled' \subseteq 0 .. next_active_message_id' - 1
    BY <1>1 DEF PacketsInv, TypeOK, receiver_vars, PacketsAssumption
  <2> QED
    BY <1>1, <2>1, <2>2 DEF PacketsInv, TypeOK, application_vars, receiver_vars,
                            PacketsAssumption
<1>4. SaidIsSound' /\ PacketsAreSound' /\ HeardIsSound' /\ GroupsKeptApart'
  <2>1. UNCHANGED <<receiver_vars, group_name, data>>
    BY <1>1 DEF application_vars
  <2>2. /\ next_active_message_id' \in Nat
        /\ next_active_message_id <= next_active_message_id'
    BY <1>1 DEF PacketsInv, TypeOK, PacketsAssumption
  <2>3. \A x \in {m} : /\ x.id \in 0 .. next_active_message_id' - 1
                      /\ x.type \in MessageTypes
                      /\ x.format \in Formats
    BY <1>1, <1>2, <2>2 DEF PacketsInv, TypeOK
  <2> QED
    BY <1>1, <2>1, <2>2, <2>3, SendingIsSound
<1> QED
  BY <1>3, <1>4 DEF PacketsInv

LEMMA SendActiveMessagesIsSound ==
  ASSUME PacketsInv, PacketsAssumption, SendActiveMessages
  PROVE  PacketsInv'
<1>1. /\ SendAll(active_messages)
      /\ active_messages' =
           {[m EXCEPT !.retries_left = m.retries_left - 1] :
              m \in {x \in active_messages : x.retries_left > 1}}
      /\ UNCHANGED <<application_vars, next_active_message_id, confirmed,
           receiver_vars>>
  BY DEF SendActiveMessages, HasRetriesLeft
<1>2. active_messages \subseteq
        [id : 0 .. next_active_message_id - 1, type : MessageTypes,
         format : Formats, retries_left : 1 .. MaxRetries]
  BY DEF PacketsInv, TypeOK
<1>3. TypeOK'
  <2>1. active_messages' \subseteq
          [id : 0 .. next_active_message_id - 1, type : MessageTypes,
           format : Formats, retries_left : 1 .. MaxRetries]
    BY <1>1, <1>2 DEF PacketsAssumption
  <2> QED
    BY <1>1, <2>1 DEF PacketsInv, TypeOK, application_vars, receiver_vars
<1>4. SaidIsSound' /\ PacketsAreSound' /\ HeardIsSound' /\ GroupsKeptApart'
  <2>1. UNCHANGED <<receiver_vars, group_name, data>>
    BY <1>1 DEF application_vars
  <2>2. /\ next_active_message_id' \in Nat
        /\ next_active_message_id <= next_active_message_id'
        /\ next_active_message_id' = next_active_message_id
    BY <1>1 DEF PacketsInv, TypeOK, PacketsAssumption
  <2>3. \A m \in active_messages : /\ m.id \in 0 .. next_active_message_id' - 1
                                  /\ m.type \in MessageTypes
                                  /\ m.format \in Formats
    BY <1>2, <2>2
  <2> QED
    BY <1>1, <2>1, <2>2, <2>3, SendingIsSound
<1> QED
  BY <1>3, <1>4 DEF PacketsInv

LEMMA ChangesAreSound ==
  ASSUME PacketsInv, PacketsAssumption, NEW format \in Formats,
         NEW group \in GroupNames, NEW value \in Values,
         Changes(format, group, value)
  PROVE  PacketsInv'
<1>1. TypeOK'
  BY DEF Changes, PacketsInv, TypeOK, sender_vars, receiver_vars, PacketsAssumption
<1>2. SaidIsSound'
  BY DEF Changes, PacketsInv, SaidIsSound, IsTransmission, sender_vars
<1>3. PacketsAreSound' /\ HeardIsSound' /\ GroupsKeptApart'
  BY DEF Changes, PacketsInv, PacketsAreSound, HeardIsSound, GroupsKeptApart,
         receiver_vars
<1> QED
  BY <1>1, <1>2, <1>3 DEF PacketsInv

(* What a reception of a message amounts to. *)
LEMMA HearingIsSound ==
  ASSUME PacketsInv, PacketsAssumption, ReliableCodecs,
         NEW packet \in Arriving("receiver"), ReceiveMessage(packet)
  PROVE  \E h, m :
           /\ h \in said
           /\ m \in h.heard_as
           /\ m.id \in 0 .. next_active_message_id - 1
           /\ handled' = handled \cup {m.id}
           /\ m.id \in handled => UNCHANGED <<copy, heard>>
           /\ m.id \notin handled => heard' = heard \cup {m}
           /\ copy' # copy =>
                h.type = "SYNC" /\ h.group = ReceiverGroup /\ copy' = h.value
           /\ \E format \in Formats :
                packets' = packets \cup
                  {[to |-> "sender", bytes |-> Serialized(format, AckObject(m.id))]}
<1> DEFINE r == Received(packet)
<1>1. /\ r.kind = "message"
      /\ packets' = packets \cup
           {[to |-> "sender", bytes |-> Serialized(FormatOf(packet), AckObject(r.id))]}
      /\ handled' = handled \cup {r.id}
      /\ IF r.id \in handled
           THEN UNCHANGED <<copy, heard>>
           ELSE /\ copy' = CopyAfter(r)
                /\ heard' = heard \cup {[id |-> r.id, type |-> r.type, data |-> r.data]}
  BY DEF ReceiveMessage
<1>2. r # Ignored
  BY <1>1 DEF Ignored
<1>3. PICK h \in said, id \in 0 .. next_active_message_id - 1, type \in MessageTypes,
           format \in Formats, group \in GroupNames, value \in Values :
        /\ h = SayingOf(id, type, format, group, value)
        /\ packet = Bytes(h)
        /\ Kept(h, id, type, format, group, value)
  BY <1>2, ArrivingAtReceiver
<1> DEFINE left == Understood(format, value)
           m == [id |-> id, type |-> type, data |-> MessageData(type, group, left)]
<1>4. h.heard_as = {m} /\ r.id = id /\ r.type = type
      /\ r.data = MessageData(type, group, left)
  BY <1>3 DEF Kept
<1>5. h.type = type /\ h.group = group /\ h.value = left
  BY <1>3 DEF SayingOf
<1>6. HasFormat(packet) /\ FormatOf(packet) \in Formats
  <2>1. HasFormat(packet)
    BY <1>2 DEF Received
  <2> QED
    BY <2>1 DEF HasFormat, FormatOf
<1> HIDE DEF r, left
<1>7. copy' # copy => type = "SYNC" /\ group = ReceiverGroup /\ copy' = left
  <2>1. ASSUME CopyAfter(r) # copy
        PROVE  type = "SYNC" /\ group = ReceiverGroup /\ CopyAfter(r) = left
    BY <1>4, <2>1, CopyIsOfOwnGroup
  <2> QED
    BY <2>1, <1>1
<1>8. m.id = id /\ m \in h.heard_as
      /\ m = [id |-> r.id, type |-> r.type, data |-> r.data]
  BY <1>4
<1> HIDE DEF m
<1> QED
  BY <1>1, <1>3, <1>4, <1>5, <1>6, <1>7, <1>8

LEMMA ReceiveMessageIsSound ==
  ASSUME PacketsInv, PacketsAssumption, ReliableCodecs,
         NEW packet \in Arriving("receiver"), ReceiveMessage(packet)
  PROVE  PacketsInv'
<1>1. PICK h, m :
        /\ h \in said
        /\ m \in h.heard_as
        /\ m.id \in 0 .. next_active_message_id - 1
        /\ handled' = handled \cup {m.id}
        /\ m.id \in handled => UNCHANGED <<copy, heard>>
        /\ m.id \notin handled => heard' = heard \cup {m}
        /\ copy' # copy => h.type = "SYNC" /\ h.group = ReceiverGroup /\ copy' = h.value
        /\ \E format \in Formats :
             packets' = packets \cup
               {[to |-> "sender", bytes |-> Serialized(format, AckObject(m.id))]}
  BY HearingIsSound
<1>2. UNCHANGED <<application_vars, sender_vars, said>>
  BY DEF ReceiveMessage
<1>3. TypeOK'
  BY <1>1, <1>2 DEF PacketsInv, TypeOK, application_vars, sender_vars
<1>4. SaidIsSound'
  BY <1>2 DEF PacketsInv, SaidIsSound, IsTransmission, sender_vars
<1>5. HeardIsSound'
  BY <1>1, <1>2 DEF PacketsInv, HeardIsSound
<1>6. PacketsAreSound'
  <2>1. heard \subseteq heard' /\ \E x \in heard' : x.id = m.id
    BY <1>1, <1>5 DEF HeardIsSound
  <2> SUFFICES ASSUME NEW p \in packets'
               PROVE  /\ p.to \in {"receiver", "sender"}
                      /\ p.to = "receiver" => \E x \in said' : p.bytes = Bytes(x)
                      /\ p.to = "sender" =>
                           \E x \in heard', format \in Formats :
                             p.bytes = Serialized(format, AckObject(x.id))
    BY DEF PacketsAreSound
  <2>2. CASE p \in packets
    BY <2>1, <2>2, <1>2 DEF PacketsInv, PacketsAreSound
  <2>3. CASE p \notin packets
    <3>1. PICK format \in Formats :
            p = [to |-> "sender", bytes |-> Serialized(format, AckObject(m.id))]
      BY <1>1, <2>3
    <3>2. /\ p.to = "sender"
          /\ p.bytes = Serialized(format, AckObject(m.id))
      BY <3>1
    <3> QED
      BY <2>1, <3>1, <3>2
  <2> QED
    BY <2>2, <2>3
<1>7. GroupsKeptApart'
  BY <1>1, <1>2 DEF PacketsInv, GroupsKeptApart
<1> QED
  BY <1>3, <1>4, <1>5, <1>6, <1>7 DEF PacketsInv

(* What a reception of an acknowledgement amounts to. *)
LEMMA ConfirmingIsSound ==
  ASSUME PacketsInv, PacketsAssumption, ReliableCodecs,
         NEW packet \in Arriving("sender"), ReceiveAck(packet)
  PROVE  /\ active_messages' \subseteq active_messages
         /\ \/ confirmed' = confirmed
            \/ \E x \in heard : confirmed' = confirmed \cup {x.id}
<1> DEFINE r == Received(packet)
           acknowledged == {x \in active_messages : x.id = r.id}
<1>1. /\ r.kind = "ack"
      /\ active_messages' = active_messages \ acknowledged
      /\ confirmed' = confirmed \cup {x.id : x \in acknowledged}
  BY DEF ReceiveAck
<1>2. r # Ignored
  BY <1>1 DEF Ignored
<1>3. PICK x \in heard : r = [kind |-> "ack", id |-> x.id]
  BY <1>2, ArrivingAtSender
<1>4. r.id = x.id
  BY <1>3
<1> HIDE DEF r
<1>5. CASE acknowledged = {}
  BY <1>1, <1>5
<1>6. CASE acknowledged # {}
  <2>1. {y.id : y \in acknowledged} = {x.id}
    BY <1>4, <1>6
  <2> HIDE DEF acknowledged
  <2> QED
    BY <1>1, <1>3, <2>1
<1> QED
  BY <1>5, <1>6

LEMMA ReceiveAckIsSound ==
  ASSUME PacketsInv, PacketsAssumption, ReliableCodecs,
         NEW packet \in Arriving("sender"), ReceiveAck(packet)
  PROVE  PacketsInv'
<1>1. /\ active_messages' \subseteq active_messages
      /\ \/ confirmed' = confirmed
         \/ \E x \in heard : confirmed' = confirmed \cup {x.id}
  BY ConfirmingIsSound
<1>2. UNCHANGED <<application_vars, next_active_message_id, receiver_vars, packets,
        said>>
  BY DEF ReceiveAck
<1>3. confirmed' \subseteq handled
  BY <1>1 DEF PacketsInv, TypeOK, HeardIsSound
<1>4. TypeOK'
  BY <1>1, <1>2, <1>3 DEF PacketsInv, TypeOK, application_vars, receiver_vars
<1>5. SaidIsSound'
  BY <1>2 DEF PacketsInv, SaidIsSound, IsTransmission
<1>6. PacketsAreSound' /\ HeardIsSound' /\ GroupsKeptApart'
  BY <1>2 DEF PacketsInv, PacketsAreSound, HeardIsSound, GroupsKeptApart,
              receiver_vars
<1> QED
  BY <1>4, <1>5, <1>6 DEF PacketsInv

LEMMA PacketsInvInitially ==
  ASSUME Init, PacketsAssumption
  PROVE  PacketsInv
<1>1. TypeOK
  BY DEF Init, TypeOK, Formats, PacketsAssumption
<1>2. SaidIsSound /\ PacketsAreSound /\ HeardIsSound /\ GroupsKeptApart
  BY DEF Init, SaidIsSound, PacketsAreSound, HeardIsSound, GroupsKeptApart
<1> QED
  BY <1>1, <1>2 DEF PacketsInv

LEMMA PacketsInvStep ==
  ASSUME PacketsInv, PacketsAssumption, ReliableCodecs, [Next]_vars
  PROVE  PacketsInv'
<1>1. ASSUME NEW type \in MessageTypes, SendMessage(type)
      PROVE  PacketsInv'
  BY <1>1, SendMessageIsSound
<1>2. CASE SendActiveMessages
  BY <1>2, SendActiveMessagesIsSound
<1>3. group_name \in GroupNames /\ data \in Values /\ default_data_format \in Formats
  BY DEF PacketsInv, TypeOK
<1>4. ASSUME NEW format \in Formats, SetDefaultDataFormat(format)
      PROVE  PacketsInv'
  BY <1>3, <1>4, ChangesAreSound DEF SetDefaultDataFormat
<1>5. ASSUME NEW group \in GroupNames, SetGroupName(group)
      PROVE  PacketsInv'
  BY <1>3, <1>5, ChangesAreSound DEF SetGroupName
<1>6. ASSUME NEW value \in Values, ChangeData(value)
      PROVE  PacketsInv'
  BY <1>3, <1>6, ChangesAreSound DEF ChangeData
<1>7. ASSUME NEW packet \in Arriving("receiver"), ReceiveMessage(packet)
      PROVE  PacketsInv'
  BY <1>7, ReceiveMessageIsSound
<1>8. ASSUME NEW packet \in Arriving("sender"), ReceiveAck(packet)
      PROVE  PacketsInv'
  BY <1>8, ReceiveAckIsSound
<1>9. CASE UNCHANGED vars
  <2>1. /\ UNCHANGED <<group_name, data, changes, default_data_format>>
        /\ UNCHANGED <<active_messages, next_active_message_id, confirmed>>
        /\ UNCHANGED <<handled, copy, heard, packets, said>>
    BY <1>9 DEF vars, application_vars, sender_vars, receiver_vars
  <2>2. TypeOK' /\ SaidIsSound'
    BY <2>1 DEF PacketsInv, TypeOK, SaidIsSound, IsTransmission
  <2>3. PacketsAreSound' /\ HeardIsSound' /\ GroupsKeptApart'
    BY <2>1 DEF PacketsInv, PacketsAreSound, HeardIsSound, GroupsKeptApart
  <2> QED
    BY <2>2, <2>3 DEF PacketsInv
<1> QED
  BY <1>1, <1>2, <1>4, <1>5, <1>6, <1>7, <1>8, <1>9 DEF Next

LEMMA PacketsInvAlways ==
  ASSUME ReliableCodecs
  PROVE  Spec => []PacketsInv
<1>1. PacketsAssumption
  BY PacketsAssumption
<1>2. Init => PacketsInv
  BY <1>1, PacketsInvInitially
<1>3. PacketsInv /\ [Next]_vars => PacketsInv'
  BY <1>1, PacketsInvStep
<1> QED
  BY <1>2, <1>3, PTL DEF Spec
--------------------------------------------------------------------------------
(* Theorems. *)

(* A reception never gets an id that was not given, whatever arrives, and  *)
(* nothing is confirmed that was not handled; the messages being repeated  *)
(* have retries left.                                                      *)
THEOREM PacketsTypeCorrect ==
  ASSUME ReliableCodecs
  PROVE  Spec => []TypeOK
<1>1. PacketsInv => TypeOK
  BY DEF PacketsInv
<1> QED
  BY <1>1, PacketsInvAlways, PTL

(* The receiver takes over nothing but data that was sent to its group,    *)
(* with any number of groups, messages, repetitions and changes.           *)
THEOREM GroupsStayApart ==
  ASSUME ReliableCodecs
  PROVE  Spec => []GroupsKeptApart
<1>1. PacketsInv => GroupsKeptApart
  BY DEF PacketsInv
<1> QED
  BY <1>1, PacketsInvAlways, PTL

(* Every packet that is delivered in full is understood as what was said   *)
(* when it was sent, or not at all if it is nested too deeply, and every   *)
(* acknowledgement as one of a message that was heard.                     *)
THEOREM AllIsUnderstood ==
  ASSUME ReliableCodecs
  PROVE  Spec => []UnderstoodAsSaid
<1>1. ASSUME PacketsInv
      PROVE  UnderstoodAsSaid
  <2>1. PacketsAssumption
    BY PacketsAssumption
  <2>2. ASSUME NEW h \in said
        PROVE  LET m == Received(Serialized(h.format, h.object)) IN
               h.heard_as = IF m = Ignored THEN {}
                            ELSE {[id |-> m.id, type |-> m.type, data |-> m.data]}
    <3>1. PICK id \in 0 .. next_active_message_id - 1, type \in MessageTypes,
               format \in Formats, group \in GroupNames, value \in Values :
            Dropped(h) \/ Kept(h, id, type, format, group, value)
      BY <1>1, <2>1, <2>2, TransmissionSaid DEF PacketsInv
    <3>2. CASE Dropped(h)
      BY <3>2 DEF Dropped, Bytes
    <3>3. CASE Kept(h, id, type, format, group, value)
      <4> DEFINE m == Received(Serialized(h.format, h.object))
                 content == MessageData(type, group, Understood(format, value))
      <4>1. /\ m = [kind |-> "message", id |-> id, type |-> type, data |-> content]
            /\ h.heard_as = {[id |-> id, type |-> type, data |-> content]}
        BY <3>3 DEF Kept, Bytes
      <4> HIDE DEF m, content
      <4>2. m # Ignored
        BY <4>1 DEF Ignored
      <4>3. h.heard_as = {[id |-> m.id, type |-> m.type, data |-> m.data]}
        BY <4>1
      <4> QED
        BY <4>2, <4>3 DEF m
    <3> QED
      BY <3>1, <3>2, <3>3
  <2>3. ASSUME NEW p \in packets, p.to = "sender"
        PROVE  Received(p.bytes) \in [kind : {"ack"}, id : {x.id : x \in heard}]
    <3>1. PICK x \in heard, format \in Formats :
            p.bytes = Serialized(format, AckObject(x.id))
      BY <1>1, <2>3 DEF PacketsInv, PacketsAreSound
    <3>2. x.id \in Ids /\ GroupNames # {} /\ Values # {}
      BY <1>1, <2>1, HeardIds DEF PacketsInv, TypeOK
    <3>3. Received(p.bytes) = [kind |-> "ack", id |-> x.id]
      BY <2>1, <3>1, <3>2, AckIsKept
    <3> QED
      BY <3>3
  <2> QED
    BY <2>2, <2>3 DEF UnderstoodAsSaid
<1> QED
  BY <1>1, PacketsInvAlways, PTL

(* No truncated packet, however short or long, is taken for a packet. *)
THEOREM TruncationIsHarmless ==
  ASSUME ReliableCodecs
  PROVE  Spec => []TruncatedIsIgnored
<1>1. PacketsInv => TruncatedIsIgnored
  <2> SUFFICES ASSUME PacketsInv, NEW p \in packets,
                      NEW packet \in Starts(p.bytes) \ {p.bytes}
               PROVE  Received(packet) = Ignored
    BY DEF TruncatedIsIgnored
  <2>1. PacketsAssumption
    BY PacketsAssumption
  <2>2. CASE p.to = "receiver"
    <3>1. PICK h \in said : p.bytes = Bytes(h)
      BY <2>2 DEF PacketsInv, PacketsAreSound
    <3>2. \A start \in Starts(Bytes(h)) \ {Bytes(h)} : Received(start) = Ignored
      BY <2>1, TransmissionSaid DEF PacketsInv
    <3> QED
      BY <3>1, <3>2
  <2>3. CASE p.to = "sender"
    <3>1. PICK x \in heard, format \in Formats :
            p.bytes = Serialized(format, AckObject(x.id))
      BY <2>3 DEF PacketsInv, PacketsAreSound
    <3>2. x.id \in Ids /\ GroupNames # {} /\ Values # {}
      BY <2>1, HeardIds DEF PacketsInv, TypeOK
    <3> QED
      BY <2>1, <3>1, <3>2, AckIsKept
  <2> QED
    BY <2>2, <2>3 DEF PacketsInv, PacketsAreSound
<1> QED
  BY <1>1, PacketsInvAlways, PTL

(* Packets in whatever formats, with every codec on which one can rely,    *)
(* are a wire: every step says something, hears something that was said    *)
(* and not heard before, confirms something that was heard, or shows       *)
(* nothing.                                                                *)
THEOREM PacketsAreAWire ==
  ASSUME ReliableCodecs
  PROVE  Spec => ImplementsWire
<1> DEFINE sayings == UNION {h.heard_as : h \in said}
<1>1. Init => W!Init
  BY DEF Init, W!Init
<1>2. PacketsInv /\ [Next]_vars => [W!Next]_W!vars
  <2> SUFFICES ASSUME PacketsInv, [Next]_vars
               PROVE  [W!Next]_W!vars
    OBVIOUS
  <2>1. PacketsAssumption
    BY PacketsAssumption
  <2>2. ASSUME said \subseteq said', UNCHANGED <<heard, confirmed>>
        PROVE  W!Next
    BY <2>2 DEF W!Next, W!Say
  <2>3. ASSUME UNCHANGED <<said, heard, confirmed>>
        PROVE  UNCHANGED W!vars
    BY <2>3 DEF W!vars
  <2>4. ASSUME NEW type \in MessageTypes, SendMessage(type)
        PROVE  W!Next
    BY <2>4, <2>2 DEF SendMessage, SendAll, receiver_vars
  <2>5. CASE SendActiveMessages
    BY <2>5, <2>2 DEF SendActiveMessages, SendAll, receiver_vars
  <2>6. ASSUME NEW format, NEW group, NEW value, Changes(format, group, value)
        PROVE  UNCHANGED W!vars
    BY <2>6, <2>3 DEF Changes, sender_vars, receiver_vars
  <2>7. ASSUME NEW packet \in Arriving("receiver"), ReceiveMessage(packet)
        PROVE  W!Next \/ UNCHANGED W!vars
    <3>1. UNCHANGED <<said, confirmed>>
      BY <2>7 DEF ReceiveMessage, sender_vars
    <3>2. PICK h, m :
            /\ h \in said
            /\ m \in h.heard_as
            /\ m.id \in handled => UNCHANGED heard
            /\ m.id \notin handled => heard' = heard \cup {m}
      BY <2>1, <2>7, HearingIsSound
    <3>3. CASE m.id \in handled
      BY <2>3, <3>1, <3>2, <3>3
    <3>4. CASE m.id \notin handled
      <4>1. m \in sayings /\ \A x \in heard : x.id # m.id
        BY <3>2, <3>4 DEF PacketsInv, HeardIsSound
      <4> QED
        BY <4>1, <3>1, <3>2, <3>4 DEF W!Next, W!Hear
    <3> QED
      BY <3>3, <3>4
  <2>8. ASSUME NEW packet \in Arriving("sender"), ReceiveAck(packet)
        PROVE  W!Next \/ UNCHANGED W!vars
    <3>1. UNCHANGED <<said, heard>>
      BY <2>8 DEF ReceiveAck, receiver_vars
    <3>2. \/ confirmed' = confirmed
          \/ \E x \in heard : confirmed' = confirmed \cup {x.id}
      BY <2>1, <2>8, ConfirmingIsSound
    <3>3. CASE confirmed' = confirmed
      BY <2>3, <3>1, <3>3
    <3>4. CASE \E x \in heard : confirmed' = confirmed \cup {x.id}
      BY <3>1, <3>4 DEF W!Next, W!Confirm
    <3> QED
      BY <3>2, <3>3, <3>4
  <2>9. CASE UNCHANGED vars
    BY <2>3, <2>9 DEF vars, sender_vars, receiver_vars
  <2> QED
    BY <2>4, <2>5, <2>6, <2>7, <2>8, <2>9
    DEF Next, SetDefaultDataFormat, SetGroupName, ChangeData
<1> QED
  BY <1>1, <1>2, PacketsInvAlways, PTL DEF Spec, ImplementsWire, W!Spec
================================================================================
