--------------------------------- MODULE Packets -------------------------------
(***************************************************************************)
(* What NetworkHandler leaves out: the packets themselves, from the data   *)
(* of a synchronizable through its message, the array around it, a codec   *)
(* and the format byte, and all the way back at the receiver.              *)
(*                                                                         *)
(* One node sends, another receives; every node does both.  A packet is    *)
(* delivered any number of times or never.  The UDP interface may hand     *)
(* over only the start of a packet, and packets of others that do not      *)
(* follow the protocol.  Ids, cancellations, the expiry of receptions and  *)
(* the consequences of a failure are in NetworkHandler and Synchronizer.   *)
(***************************************************************************)
EXTENDS DataObject, CRC32, FiniteSetsExt

CONSTANTS
  JsonEncode(_), JsonDecode(_),            \* the codecs: a value as a text,
  MsgPackEncode(_), MsgPackDecode(_),      \* and what a text says, or not ok
  JsonKeeps(_),         \* what is left of a value in JSON
  NestedTooDeeply(_),   \* whether the parsers do not accept a value
  GroupNames,           \* sequences of bytes
  ReceiverGroup,        \* the receiver's group
  Name,                 \* of the synchronizable both nodes have
  Values,               \* the data it takes
  Strays,               \* packets that are not of this protocol
  MaxRetries,           \* the retries of a message
  MaxMessages,          \* bound on the messages
  MaxChanges            \* bound on the other calls of the application

ASSUME PacketsAssumption ==
  /\ ReceiverGroup \in GroupNames
  /\ MaxRetries \in Nat \ {0}
  /\ {MaxMessages, MaxChanges} \subseteq Nat

VARIABLES
  (* the sender *)
  group_name,
  default_data_format,
  data,                 \* of its synchronizable
  active_messages,
  next_active_message_id,
  changes,
  (* the network *)
  packets,
  (* the receiver *)
  handled,              \* ids in message_reception_times
  copy,                 \* of the sender's synchronizable
  (* history *)
  said,                 \* every transmission
  heard,                \* messages handed to the delegate
  confirmed             \* ids of messages that succeeded

application_vars == <<group_name, default_data_format, data, changes>>
sender_vars == <<active_messages, next_active_message_id, confirmed>>
receiver_vars == <<handled, copy, heard>>
vars == <<application_vars, sender_vars, receiver_vars, packets, said>>

Formats == {"JSON", "MSGPACK"}
MessageTypes == {"MSG", "SYNC", "DEREG", "REQ_INIT_SYNC"}
NoCopy == <<"no copy">>

--------------------------------------------------------------------------------
(* Formats and message types. *)

FormatBytes == [JSON |-> 1, MSGPACK |-> 2]
FormatByte(byte) == <<"format", byte>>
HasFormat(packet) ==
  packet # <<>> /\ \E format \in Formats : packet[1] = FormatByte(FormatBytes[format])
FormatOf(packet) ==
  CHOOSE format \in Formats : packet[1] = FormatByte(FormatBytes[format])

Encoded(format, v) ==
  IF format = "JSON" THEN JsonEncode(v) ELSE MsgPackEncode(v)
Decoded(format, text) ==
  IF format = "JSON" THEN JsonDecode(text) ELSE MsgPackDecode(text)

TypeStrings == [MSG |-> <<"msg">>, SYNC |-> <<"sync">>, DEREG |-> <<"dereg">>,
                REQ_INIT_SYNC |-> <<"req_init_sync">>]
TypeOf(string) == CHOOSE type \in MessageTypes : TypeStrings[type] = string

--------------------------------------------------------------------------------
(* Sending. *)

(* The number that is the hash of a name. *)
HashOfInitial(name) ==                                              \* mutant
  SumSet({2 ^ i : i \in crc32String(SubSeq(name, 1, 1))})
GroupHash(name) == SumSet({2 ^ i : i \in crc32String(name)})

(* to_data_object.  A message of the application has the same data. *)
MessageData(type, group, value) ==
  CASE type = "MSG"  -> value
    [] type = "SYNC" ->
         Array(<<Number(2 * GroupHash(group)), String(Name), value>>)
    [] OTHER         -> Null

PacketObject(type, id, content) ==
  Array(<<String(TypeStrings[type]), Number(2 * id), content>>)
AckObject(id) == Array(<<String(<<"ack">>), Number(2 * id)>>)

Serialized(format, v) ==
  <<FormatByte(FormatBytes[format])>> \o Encoded(format, v)

(* For the properties: what is left of a value in a format, and whether it *)
(* can be parsed at all.                                                   *)
Understood(format, v) == IF format = "JSON" THEN JsonKeeps(v) ELSE v
Parsable(v) == ~NestedTooDeeply(v)

(* What a transmission of m says now.  For the properties, heard_as is the *)
(* message that should be heard, if any should: what is nested too deeply  *)
(* for the parsers is never understood.                                    *)
Saying(m) ==
  LET value == MessageData(m.type, group_name, data)
      object == PacketObject(m.type, m.id, value)
  IN [id |-> m.id, type |-> m.type, format |-> m.format, group |-> group_name,
      object |-> object, value |-> Understood(m.format, data),
      heard_as |->
        IF m.type # "DEREG" /\ Parsable(object)
          THEN {[id |-> m.id, type |-> m.type,
                 data |-> Understood(m.format, value)]}
          ELSE {}]

(* send_active_message, for all messages in M *)
SendAll(M) ==
  /\ said' = said \cup {Saying(m) : m \in M}
  /\ packets' = packets \cup
       {[to |-> "receiver", bytes |-> Serialized(m.format, Saying(m).object)] :
          m \in M}

(* send_message.  The message keeps the codec of this moment. *)
SendMessage(type) ==
  LET m == [id |-> next_active_message_id, type |-> type,
            format |-> default_data_format, retries_left |-> MaxRetries]
  IN
  /\ next_active_message_id < MaxMessages
  /\ next_active_message_id' = next_active_message_id + 1
  /\ active_messages' = active_messages \cup {m}
  /\ SendAll({m})
  /\ UNCHANGED <<application_vars, confirmed, receiver_vars>>

(* send_active_messages: what has no retries left afterwards has failed.   *)
HadRetriesLeft(m) == m.retries_left > 0                             \* mutant
HasRetriesLeft(m) == m.retries_left > 1
SendActiveMessages ==
  /\ active_messages # {}
  /\ SendAll(active_messages)
  /\ active_messages' =
       {[m EXCEPT !.retries_left = @ - 1] :
          m \in {x \in active_messages : HasRetriesLeft(x)}}
  /\ UNCHANGED <<application_vars, next_active_message_id, confirmed,
       receiver_vars>>

(* The application calls set_default_data_format or set_group_name, or     *)
(* changes the data, while messages are being repeated.                    *)
Changes(format, group, value) ==
  /\ changes < MaxChanges
  /\ changes' = changes + 1
  /\ default_data_format' = format
  /\ group_name' = group
  /\ data' = value
  /\ UNCHANGED <<sender_vars, receiver_vars, packets, said>>

SetDefaultDataFormat(format) == Changes(format, group_name, data)
SetGroupName(group) == Changes(default_data_format, group, data)
ChangeData(value) == Changes(default_data_format, group_name, value)

--------------------------------------------------------------------------------
(* Receiving. *)

(* The checks of handle_decoded_message.  An id is passed on as an unsigned *)
(* int.                                                                    *)
Ignored == [kind |-> "ignored"]
Accepted(v) ==
  LET items == Items(v)
      type == IF items = <<>> THEN <<>> ELSE StringValueOr(items[1], <<>>)
      id == IF Len(items) < 2 THEN -1 ELSE IntValueOr(items[2], -1)
  IN CASE type = <<"ack">> /\ id >= 0 -> [kind |-> "ack", id |-> id % 2 ^ Width]
       [] /\ type \in {<<"msg">>, <<"sync">>, <<"req_init_sync">>}
          /\ Len(items) >= 3
          /\ id >= 0 ->
            [kind |-> "message", id |-> id % 2 ^ Width, type |-> TypeOf(type),
             data |-> items[3]]
       [] OTHER -> Ignored

(* handle_packet_reception: the format byte, the codec, the checks. *)
Received(packet) ==
  IF ~HasFormat(packet) THEN Ignored
  ELSE LET decoded == Decoded(FormatOf(packet), Tail(packet))
       IN IF decoded.ok THEN Accepted(decoded.value) ELSE Ignored

(* on_message_received of NetworkHandlerDelegateImpl, for "sync" messages. *)
CopyAfter(m) ==
  LET items == Items(m.data) IN
  IF /\ m.type = "SYNC"
     /\ Len(items) >= 3
     /\ IntValueOr(items[1], 0) % 2 ^ Width = GroupHash(ReceiverGroup)
     /\ StringValueOr(items[2], <<>>) = Name
    THEN items[3]
    ELSE copy

Starts(packet) == {SubSeq(packet, 1, length) : length \in 0 .. Len(packet)}
Arriving(node) ==
  Strays \cup UNION {Starts(p.bytes) : p \in {x \in packets : x.to = node}}

(* A message is acknowledged in its own format, whether or not it is new.  *)
ReceiveMessage(packet) ==
  LET m == Received(packet) IN
  /\ m.kind = "message"
  /\ packets' = packets \cup
       {[to |-> "sender", bytes |-> Serialized(FormatOf(packet), AckObject(m.id))]}
  /\ handled' = handled \cup {m.id}
  /\ IF m.id \in handled
       THEN UNCHANGED <<copy, heard>>
       ELSE /\ copy' = CopyAfter(m)
            /\ heard' = heard \cup {[id |-> m.id, type |-> m.type, data |-> m.data]}
  /\ UNCHANGED <<application_vars, sender_vars, said>>

(* on_received_ack *)
ReceiveAck(packet) ==
  LET m == Received(packet)
      acknowledged == {x \in active_messages : x.id = m.id}
  IN
  /\ m.kind = "ack"
  /\ active_messages' = active_messages \ acknowledged
  /\ confirmed' = confirmed \cup {x.id : x \in acknowledged}
  /\ UNCHANGED <<application_vars, next_active_message_id, receiver_vars, packets,
       said>>

Init ==
  /\ group_name \in GroupNames
  /\ default_data_format = "MSGPACK"
  /\ data \in Values
  /\ active_messages = {}
  /\ next_active_message_id = 0
  /\ changes = 0
  /\ packets = {}
  /\ handled = {}
  /\ copy = NoCopy
  /\ said = {}
  /\ heard = {}
  /\ confirmed = {}

Next ==
  \/ \E type \in MessageTypes : SendMessage(type)
  \/ SendActiveMessages
  \/ \E format \in Formats : SetDefaultDataFormat(format)
  \/ \E group \in GroupNames : SetGroupName(group)
  \/ \E value \in Values : ChangeData(value)
  \/ \E packet \in Arriving("receiver") : ReceiveMessage(packet)
  \/ \E packet \in Arriving("sender") : ReceiveAck(packet)

Spec == Init /\ [][Next]_vars
--------------------------------------------------------------------------------
(* Properties. *)

TypeOK ==
  /\ group_name \in GroupNames
  /\ default_data_format \in Formats
  /\ data \in Values
  /\ active_messages \subseteq
       [id : 0 .. next_active_message_id - 1, type : MessageTypes, format : Formats,
        retries_left : 1 .. MaxRetries]
  /\ next_active_message_id \in 0 .. MaxMessages
  /\ changes \in 0 .. MaxChanges
  /\ handled \subseteq 0 .. next_active_message_id - 1
  /\ confirmed \subseteq handled

(* Encoding and decoding a value yields what is left of it in the format,  *)
(* or nothing if it is nested too deeply, and no beginning of a text is a  *)
(* text.                                                                   *)
Survives(format, v) ==
  LET text == Encoded(format, v) IN
  /\ text \in Seq(Range(text))
  /\ Decoded(format, text).ok = Parsable(v)
  /\ Parsable(v) => Decoded(format, text).value = Understood(format, v)
  /\ \A length \in 0 .. Len(text) - 1 :
       ~Decoded(format, SubSeq(text, 1, length)).ok

AckSurvives(format, id) ==
  LET ack == AckObject(id) IN
  Survives(format, ack) /\ Parsable(ack) /\ Understood(format, ack) = ack

(* What is around the data is left as it is. *)
MessageSurvives(format, type, id, group, value) ==
  LET content == MessageData(type, group, value)
      object == PacketObject(type, id, content)
  IN
  /\ Survives(format, object)
  /\ Understood(format, object) = PacketObject(type, id, Understood(format, content))
  /\ Understood(format, content) = MessageData(type, group, Understood(format, value))

(* The groups and data for which both codecs can be relied on. *)
Reliable ==
  {[group |-> sent[1], data |-> sent[2]] : sent \in
     {x \in GroupNames \X Values :
        \A format \in Formats, id \in 0 .. MaxMessages - 1 :
          /\ AckSurvives(format, id)
          /\ \A type \in MessageTypes :
               MessageSurvives(format, type, id, x[1], x[2])}}

HashesDiffer ==
  \A group \in GroupNames :
    /\ GroupHash(group) \in 0 .. 2 ^ Width - 1
    /\ GroupHash(group) = GroupHash(ReceiverGroup) => group = ReceiverGroup

NoStrayIsUnderstood == \A packet \in Strays : Received(packet) = Ignored

(* What both codecs write now they take back, in the format's own terms    *)
(* and unless it is nested too deeply; they are not satisfied with a part  *)
(* of it or with what others send; and no other group has the hash of the  *)
(* receiver's.                                                             *)
CodecsAgree ==
  /\ [group |-> group_name, data |-> data] \in Reliable
  /\ HashesDiffer
  /\ NoStrayIsUnderstood

(* Every packet of either format is understood as what was said when it    *)
(* was sent, unless it is nested too deeply for the parsers, which is      *)
(* never noticed by the sender; and every acknowledgement is understood as *)
(* one of a message that was heard.                                        *)
UnderstoodAsSaid ==
  /\ \A h \in said :
       LET m == Received(Serialized(h.format, h.object)) IN
       h.heard_as = IF m = Ignored THEN {}
                    ELSE {[id |-> m.id, type |-> m.type, data |-> m.data]}
  /\ \A p \in packets :
       p.to = "sender" =>
         Received(p.bytes) \in [kind : {"ack"}, id : {x.id : x \in heard}]

(* The start of a packet is never taken for a packet, not even for one     *)
(* with other data.                                                        *)
TruncatedIsIgnored ==
  \A p \in packets : \A packet \in Starts(p.bytes) \ {p.bytes} :
    Received(packet) = Ignored

(* The receiver takes over nothing but data that was sent to its group,    *)
(* although a message only carries the hash of the group, as a double, and *)
(* the sender changes its group between the repetitions.                   *)
GroupsKeptApart ==
  copy # NoCopy =>
    \E h \in said : /\ h.type = "SYNC" /\ h.group = ReceiverGroup
                    /\ copy = h.value

(* Packets in whatever formats, truncated or foreign ones among them, are  *)
(* a wire: what NetworkHandler takes for granted.                          *)
W == INSTANCE Wire WITH said <- UNION {h.heard_as : h \in said}
ImplementsWire == W!Spec
================================================================================
