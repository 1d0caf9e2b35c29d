-------------------------- MODULE NetworkHandlerProofs --------------------------
(***************************************************************************)
(* Proofs about NetworkHandler, for every number of endpoints and messages *)
(* and every value of its parameters.                                      *)
(***************************************************************************)
EXTENDS NetworkHandler, TLAPS

--------------------------------------------------------------------------------
(* Wrapping arithmetic. *)

(* The time stays a 32-bit number. *)
LEMMA NextTimeType == \A t \in Times : NextTime(t) \in Times
BY ClockAssumption DEF NextTime, Times

(* Elapsed is a 32-bit number, 0 at the same time. *)
LEMMA ElapsedType ==
  \A now, then \in Times :
    /\ Elapsed(now, then) \in Times
    /\ Elapsed(now, now) = 0
BY ClockAssumption DEF Elapsed, Times

(* One tick later one more decisecond has elapsed, unless 2^32 are over.   *)
LEMMA ElapsedNext ==
  \A now, then \in Times :
    Elapsed(now, then) + 1 < TimeMod =>
      Elapsed(NextTime(now), then) = Elapsed(now, then) + 1
BY ClockAssumption DEF Elapsed, NextTime, Times

--------------------------------------------------------------------------------
(* Packets. *)

LEMMA DataPacketType ==
  \A x \in ActiveNetworkMessage : DataPacket(x) \in Packet
BY MessageAssumption DEF DataPacket, Packet, ActiveNetworkMessage, Types

LEMMA AckPacketType == \A p \in Packet : AckPacket(p) \in Packet
BY DEF AckPacket, Packet

(* What is in flight after packets were sent. *)
LEMMA TransmittedType ==
  ASSUME DOMAIN network \subseteq Packet,
         network \in [DOMAIN network -> 0 .. PacketLifetime],
         NEW S \in SUBSET Packet
  PROVE  /\ DOMAIN Transmitted(S) = DOMAIN network \cup S
         /\ DOMAIN Transmitted(S) \subseteq Packet
         /\ Transmitted(S) \in [DOMAIN Transmitted(S) -> 0 .. PacketLifetime]
         /\ \A p \in S : Transmitted(S)[p] = PacketLifetime
         /\ \A p \in DOMAIN network : p \notin S => Transmitted(S)[p] = network[p]
BY ClockAssumption DEF Transmitted

--------------------------------------------------------------------------------
(* Type correctness. *)

LEMMA InitTypeOK == Init => TypeOK
<1> SUFFICES ASSUME Init PROVE TypeOK
  OBVIOUS
<1>1. << >> \in [{} -> Times] /\ << >> \in [{} -> 0 .. PacketLifetime]
      /\ DOMAIN << >> = {}
  OBVIOUS
<1>2. /\ 0 \in Ids /\ 0 \in Times
      /\ \A e \in Endpoints : 0 <= MaxRestarts[e]
  BY ClockAssumption DEF Ids, Times
<1> QED
  BY <1>1, <1>2, RetentionAssumption DEF Init, TypeOK, Statuses

(* A step that only sends packets of S leaves the network well typed. *)
LEMMA SendingType ==
  ASSUME TypeOK, NEW S \in SUBSET Packet, network' = Transmitted(S)
  PROVE  /\ DOMAIN network' \subseteq Packet
         /\ network' \in [DOMAIN network' -> 0 .. PacketLifetime]
BY TransmittedType DEF TypeOK

(* The packets an endpoint repeats are packets. *)
LEMMA RepeatedPacketsType ==
  ASSUME TypeOK, NEW e \in Endpoints
  PROVE  {DataPacket(x) : x \in active_messages[e]} \in SUBSET Packet
BY DataPacketType DEF TypeOK

(* A reboot, also one that cuts a reception off, sends at most an          *)
(* acknowledgement.                                                        *)
LEMMA RebootEffect ==
  ASSUME TypeOK, NEW e \in Endpoints,
         Restart(e) \/ \E p \in DOMAIN network : RestartWhileReceiving(e, p)
  PROVE  /\ Reboot(e)
         /\ DOMAIN network' \subseteq Packet
         /\ network' \in [DOMAIN network' -> 0 .. PacketLifetime]
         /\ \A q \in DOMAIN network' :
              q.type # "ack" => q \in DOMAIN network /\ network'[q] = network[q]
         /\ cut_off' \subseteq Messages /\ cut_off \subseteq cut_off'
<1>1. CASE Restart(e)
  BY <1>1 DEF Restart, TypeOK
<1>2. ASSUME NEW p \in DOMAIN network, RestartWhileReceiving(e, p)
      PROVE  /\ Reboot(e)
             /\ DOMAIN network' \subseteq Packet
             /\ network' \in [DOMAIN network' -> 0 .. PacketLifetime]
             /\ \A q \in DOMAIN network' :
                  q.type # "ack" => q \in DOMAIN network /\ network'[q] = network[q]
             /\ cut_off' \subseteq Messages /\ cut_off \subseteq cut_off'
  <2>1. /\ p \in Packet /\ AckPacket(p) \in Packet
        /\ AckPacket(p).type = "ack"
    BY AckPacketType DEF TypeOK, AckPacket
  <2>2. /\ Reboot(e) /\ network' = Transmitted({AckPacket(p)})
        /\ p.type # "ack" /\ cut_off' = cut_off \cup {p.message}
    BY <1>2 DEF RestartWhileReceiving
  <2>3. p.message \in Messages
    BY <2>1, <2>2 DEF Packet
  <2>4. /\ DOMAIN network' \subseteq Packet
        /\ network' \in [DOMAIN network' -> 0 .. PacketLifetime]
    BY <2>1, <2>2, SendingType
  <2>5. \A q \in DOMAIN network' :
          q.type # "ack" => q \in DOMAIN network /\ network'[q] = network[q]
    BY <2>1, <2>2 DEF Transmitted
  <2> QED
    BY <2>2, <2>3, <2>4, <2>5 DEF TypeOK
<1> QED
  BY <1>1, <1>2

LEMMA StepTypeOK == TypeOK /\ [Next]_vars => TypeOK'
<1> SUFFICES ASSUME TypeOK, [Next]_vars PROVE TypeOK'
  OBVIOUS
<1>0. CASE UNCHANGED vars
  BY <1>0 DEF TypeOK, vars, handler_vars, history_vars
<1>1. ASSUME NEW m \in Messages, SendMessage(m) PROVE TypeOK'
  <2> DEFINE e == Source[m]
             x == [message |-> m, message_id |-> next_active_message_id[e],
                   retries_left |-> MaxRetries[m]]
  <2>1. e \in Endpoints /\ x \in ActiveNetworkMessage
    BY MessageAssumption DEF TypeOK, ActiveNetworkMessage
  <2>2. (next_active_message_id[e] + 1) % IdMod \in Ids
    BY <2>1, ClockAssumption DEF TypeOK, Ids
  <2>3. next_active_message_id' \in [Endpoints -> Ids]
    BY <1>1, <2>2 DEF SendMessage, TypeOK
  <2>4. active_messages' \in [Endpoints -> SUBSET ActiveNetworkMessage]
    BY <1>1, <2>1 DEF SendMessage, TypeOK
  <2>5. /\ DOMAIN network' \subseteq Packet
        /\ network' \in [DOMAIN network' -> 0 .. PacketLifetime]
    <3>1. CASE udp_interface[e]
      <4>1. network' = Transmitted({DataPacket(x)})
        BY <1>1, <3>1 DEF SendMessage
      <4>2. {DataPacket(x)} \in SUBSET Packet
        BY <2>1, DataPacketType
      <4> QED
        BY <4>1, <4>2, SendingType
    <3>2. CASE ~udp_interface[e]
      BY <1>1, <3>2 DEF SendMessage, TypeOK
    <3> QED
      BY <3>1, <3>2
  <2>6. status' \in [Messages -> Statuses]
    BY <1>1 DEF SendMessage, TypeOK, Statuses
  <2>7. transmissions' \in [Messages -> Nat]
    BY <1>1 DEF SendMessage, TypeOK
  <2> QED
    BY <1>1, <2>3, <2>4, <2>5, <2>6, <2>7 DEF SendMessage, TypeOK
<1>2. ASSUME NEW e \in Endpoints, NEW given \in BOOLEAN, SetUdpInterface(e, given)
      PROVE  TypeOK'
  BY <1>2 DEF SetUdpInterface, TypeOK, history_vars
<1>3. ASSUME NEW e \in Endpoints, NEW t \in ReceptionTimes,
             SetMaxMessageReceptionTime(e, t)
      PROVE  TypeOK'
  BY <1>3 DEF SetMaxMessageReceptionTime, TypeOK, history_vars
<1>4. ASSUME NEW e \in Endpoints, NEW S \in SUBSET Messages,
             CancelActiveMessages(e, S)
      PROVE  TypeOK'
  <2>1. active_messages' \in [Endpoints -> SUBSET ActiveNetworkMessage]
    BY <1>4 DEF CancelActiveMessages, TypeOK
  <2>2. status' \in [Messages -> Statuses]
    BY <1>4 DEF CancelActiveMessages, TypeOK, Statuses
  <2> QED
    BY <1>4, <2>1, <2>2 DEF CancelActiveMessages, TypeOK
<1>5. ASSUME NEW e \in Endpoints, On100MsPassed(e) PROVE TypeOK'
  <2>1. time_in_deciseconds' \in [Endpoints -> Times]
    BY <1>5, NextTimeType DEF On100MsPassed, TypeOK
  <2>2. StillActive(active_messages[e]) \in SUBSET ActiveNetworkMessage
    BY DEF StillActive, IsLastRetry, TypeOK, ActiveNetworkMessage
  <2>3. active_messages' \in [Endpoints -> SUBSET ActiveNetworkMessage]
    BY <1>5, <2>2 DEF On100MsPassed, TypeOK
  <2>4. /\ DOMAIN network' \subseteq Packet
        /\ network' \in [DOMAIN network' -> 0 .. PacketLifetime]
    <3> DEFINE S == {DataPacket(x) : x \in active_messages[e]}
    <3>1. network' = Transmitted(S)
      BY <1>5 DEF On100MsPassed
    <3> HIDE DEF S
    <3>2. S \in SUBSET Packet
      BY RepeatedPacketsType DEF S
    <3> QED
      BY <3>1, <3>2, SendingType
  <2>5. status' \in [Messages -> Statuses]
    BY <1>5 DEF On100MsPassed, TypeOK, Statuses
  <2>6. transmissions' \in [Messages -> Nat]
    BY <1>5 DEF On100MsPassed, TypeOK
  <2>7. ASSUME NEW f \in Endpoints
        PROVE  /\ DOMAIN message_reception_times'[f] \subseteq Endpoints \X Ids
               /\ message_reception_times'[f]
                    \in [DOMAIN message_reception_times'[f] -> Times]
    <3>1. message_reception_times'[f] =
            IF f = e THEN KeptReceptions(e, NextTime(time_in_deciseconds[e]))
                     ELSE message_reception_times[f]
      BY <1>5, <2>7 DEF On100MsPassed, TypeOK
    <3>2. CASE f = e
      BY <3>1, <3>2 DEF KeptReceptions, TypeOK
    <3>3. CASE f # e
      BY <3>1, <3>3 DEF TypeOK
    <3> QED
      BY <3>2, <3>3
  <2>8. ticked' \subseteq Endpoints
    BY <1>5 DEF On100MsPassed, TypeOK
  <2> QED
    BY <1>5, <2>1, <2>3, <2>4, <2>5, <2>6, <2>7, <2>8 DEF On100MsPassed, TypeOK
<1>6. ASSUME NEW e \in Endpoints, On100MsPassedThrows(e) PROVE TypeOK'
  BY <1>6, NextTimeType DEF On100MsPassedThrows, TypeOK, history_vars
<1>7. ASSUME NEW e \in Endpoints, NEW p \in DOMAIN network, ReceiveAck(e, p)
      PROVE  TypeOK'
  <2>1. active_messages' \in [Endpoints -> SUBSET ActiveNetworkMessage]
    BY <1>7 DEF ReceiveAck, TypeOK
  <2>2. status' \in [Messages -> Statuses]
    BY <1>7 DEF ReceiveAck, TypeOK, Statuses
  <2> QED
    BY <1>7, <2>1, <2>2 DEF ReceiveAck, TypeOK
<1>8. ASSUME NEW e \in Endpoints, NEW p \in DOMAIN network, ReceiveMessage(e, p)
      PROVE  TypeOK'
  <2>1. p \in Packet /\ AckPacket(p) \in Packet
    BY AckPacketType DEF TypeOK
  <2>2. /\ DOMAIN network' \subseteq Packet
        /\ network' \in [DOMAIN network' -> 0 .. PacketLifetime]
    <3>1. network' = Transmitted({AckPacket(p)})
      BY <1>8 DEF ReceiveMessage
    <3> QED
      BY <2>1, <3>1, SendingType
  <2>3. ASSUME NEW f \in Endpoints
        PROVE  /\ DOMAIN message_reception_times'[f] \subseteq Endpoints \X Ids
               /\ message_reception_times'[f]
                    \in [DOMAIN message_reception_times'[f] -> Times]
    <3> DEFINE key == <<p.src, p.message_id>>
    <3>1. key \in Endpoints \X Ids
      BY <2>1 DEF Packet
    <3>2. message_reception_times'[f] =
            IF f = e
              THEN [k \in DOMAIN message_reception_times[e] \cup {key} |->
                      IF k = key THEN time_in_deciseconds[e]
                                 ELSE message_reception_times[e][k]]
              ELSE message_reception_times[f]
      BY <1>8, <2>3 DEF ReceiveMessage, TypeOK
    <3>3. CASE f = e
      BY <3>1, <3>2, <3>3 DEF TypeOK
    <3>4. CASE f # e
      BY <3>2, <3>4 DEF TypeOK
    <3> QED
      BY <3>3, <3>4
  <2>4. received' \in [Messages -> Nat]
    <3>1. p.message \in Messages
      BY <1>8, <2>1 DEF ReceiveMessage, Packet
    <3> QED
      BY <1>8, <3>1 DEF ReceiveMessage, TypeOK
  <2> QED
    BY <1>8, <2>2, <2>3, <2>4 DEF ReceiveMessage, TypeOK
<1>9. CASE PeriodEnds
  <2>1. /\ DOMAIN network' \subseteq Packet
        /\ network' \in [DOMAIN network' -> 0 .. PacketLifetime]
    BY <1>9, ClockAssumption DEF PeriodEnds, TypeOK
  <2> QED
    BY <1>9, <2>1 DEF PeriodEnds, TypeOK, handler_vars, history_vars
<1>10. ASSUME NEW e \in Endpoints,
              Restart(e) \/ \E p \in DOMAIN network : RestartWhileReceiving(e, p)
       PROVE  TypeOK'
  <2>0. /\ Reboot(e)
        /\ DOMAIN network' \subseteq Packet
        /\ network' \in [DOMAIN network' -> 0 .. PacketLifetime]
        /\ cut_off' \subseteq Messages
    BY <1>10, RebootEffect
  <2>1. /\ 0 \in Ids /\ 0 \in Times
        /\ << >> \in [{} -> Times] /\ DOMAIN << >> = {}
    BY ClockAssumption DEF Ids, Times
  <2>2. /\ restarts' \in [Endpoints -> Nat]
        /\ \A f \in Endpoints : restarts'[f] <= MaxRestarts[f]
    <3>1. /\ restarts' = [restarts EXCEPT ![e] = @ + 1]
          /\ restarts[e] < MaxRestarts[e]
      BY <2>0 DEF Reboot
    <3>2. restarts \in [Endpoints -> Nat] /\ MaxRestarts \in [Endpoints -> Nat]
      BY ClockAssumption DEF TypeOK
    <3>3. \A f \in Endpoints : restarts'[f] <= MaxRestarts[f]
      BY <3>1, <3>2 DEF TypeOK
    <3> QED
      BY <3>1, <3>2, <3>3
  <2>3. status' \in [Messages -> Statuses]
    BY <2>0 DEF Reboot, TypeOK, Statuses
  <2>4. max_message_reception_time' \in [Endpoints -> ReceptionTimes]
    BY <2>0, RetentionAssumption DEF Reboot, TypeOK
  <2>5. active_messages' \in [Endpoints -> SUBSET ActiveNetworkMessage]
    BY <2>0 DEF Reboot, TypeOK
  <2>6. ASSUME NEW f \in Endpoints
        PROVE  /\ DOMAIN message_reception_times'[f] \subseteq Endpoints \X Ids
               /\ message_reception_times'[f]
                    \in [DOMAIN message_reception_times'[f] -> Times]
    <3>1. CASE f = e
      <4>1. message_reception_times'[f] = << >>
        BY <2>0, <3>1 DEF Reboot, TypeOK
      <4> QED
        BY <2>1, <4>1
    <3>2. CASE f # e
      <4>1. message_reception_times'[f] = message_reception_times[f]
        BY <2>0, <3>2 DEF Reboot, TypeOK
      <4> QED
        BY <4>1 DEF TypeOK
    <3> QED
      BY <3>1, <3>2
  <2> QED
    BY <2>0, <2>1, <2>2, <2>3, <2>4, <2>5, <2>6 DEF Reboot, TypeOK
<1> QED
  BY <1>0, <1>1, <1>2, <1>3, <1>4, <1>5, <1>6, <1>7, <1>8, <1>9, <1>10
     DEF Next, Heartbeat

(* Type correctness, for every value of the constants. *)
THEOREM TypeCorrect == Spec => []TypeOK
BY InitTypeOK, StepTypeOK, PTL DEF Spec

--------------------------------------------------------------------------------
(* At most one delivery.                                                   *)
(*                                                                         *)
(* A message that has been delivered must stay remembered by its receiver  *)
(* for as long as it may arrive again: while a packet of it is in flight,  *)
(* or while its sender still repeats it.  How long that is, and how old    *)
(* the memory is, both change with every tick, of the sender or of the     *)
(* receiver, and with the end of a period, but their sum never grows; it   *)
(* starts below the time receptions are remembered for.                    *)

IsData(p) == p.type # "ack"

(* Whether an endpoint's tick of the current period is still to come.      *)
TicksToCome(e) == IF e \in ticked THEN 0 ELSE 1

(* How often an active message will be repeated.                           *)
RepeatsLeft(x) == IF x.retries_left = 0 THEN 1 ELSE x.retries_left

(* The receiver of m remembers (source, id) and still will for the given   *)
(* number of ticks, which is all it takes.                                 *)
Remembered(m, id, ticks) ==
  LET r == Destination[m]
      key == <<Source[m], id>>
  IN  /\ key \in DOMAIN message_reception_times[r]
      /\ Age(r, key) + TicksToCome(r) + ticks <= Retries(m) + PacketLifetime + 1

ActiveProtected(m) ==
  \A x \in active_messages[Source[m]] :
    x.message = m =>
      Remembered(m, x.message_id,
                 RepeatsLeft(x) - TicksToCome(Source[m]) + PacketLifetime)

PacketsProtected(m) ==
  \A p \in DOMAIN network :
    IsData(p) /\ p.message = m => Remembered(m, p.message_id, network[p])

Protected(m) == ActiveProtected(m) /\ PacketsProtected(m)

(* Active messages belong to their endpoint and wait for an outcome.       *)
ActiveOK ==
  \A e \in Endpoints : \A x \in active_messages[e] :
    /\ Source[x.message] = e
    /\ status[x.message] = "pending"
    /\ x.retries_left <= MaxRetries[x.message]

ActiveOnce ==
  \A e \in Endpoints : \A x, y \in active_messages[e] :
    x.message = y.message => x = y

(* Packets carry a message that was handed over, between its endpoints.    *)
PacketsOK ==
  \A p \in DOMAIN network :
    IsData(p) =>
      /\ p.message \in Messages
      /\ p.src = Source[p.message]
      /\ p.dst = Destination[p.message]
      /\ status[p.message] # "unsent"

(* A message keeps its id: it is only sent once.                           *)
OneId ==
  \A p \in DOMAIN network :
    IsData(p) =>
      /\ \A q \in DOMAIN network :
           IsData(q) /\ q.message = p.message => q.message_id = p.message_id
      /\ \A e \in Endpoints : \A x \in active_messages[e] :
           x.message = p.message => x.message_id = p.message_id

(* Nothing was delivered before it was handed over, ...                    *)
UnsentUntouched == \A m \in Messages : status[m] = "unsent" => received[m] = 0

(* ... or sent before there was an interface, if it was not taken away.    *)
UntransmittedUntouched ==
  \A e \in Endpoints \ interrupted :
    ~udp_interface[e] =>
      \A x \in active_messages[e] :
        /\ received[x.message] = 0
        /\ \A p \in DOMAIN network : IsData(p) => p.message # x.message

Bookkeeping ==
  /\ TypeOK
  /\ ActiveOK
  /\ ActiveOnce
  /\ PacketsOK
  /\ OneId
  /\ UnsentUntouched
  /\ UntransmittedUntouched

DeliveryBounded ==
  \A m \in Messages :
    Source[m] \notin interrupted =>
      \/ received[m] <= restarts[Destination[m]]
      \/ received[m] = restarts[Destination[m]] + 1 /\ Protected(m)

DeliveryInv == Bookkeeping /\ DeliveryBounded

--------------------------------------------------------------------------------
(* The bookkeeping invariants. *)

LEMMA InitBookkeeping == Init => Bookkeeping
BY InitTypeOK DEF Init, Bookkeeping, ActiveOK, ActiveOnce, PacketsOK, OneId,
   UnsentUntouched, UntransmittedUntouched

(* The packet of an active message carries it between its endpoints. *)
LEMMA DataPacketFields ==
  ASSUME NEW x \in ActiveNetworkMessage
  PROVE  /\ IsData(DataPacket(x))
         /\ DataPacket(x).message = x.message
         /\ DataPacket(x).message_id = x.message_id
         /\ DataPacket(x).src = Source[x.message]
         /\ DataPacket(x).dst = Destination[x.message]
BY MessageAssumption DEF DataPacket, IsData, ActiveNetworkMessage, Types

LEMMA AckPacketFields ==
  ASSUME NEW p
  PROVE  /\ ~IsData(AckPacket(p))
         /\ AckPacket(p).dst = p.src
         /\ AckPacket(p).message_id = p.message_id
BY DEF AckPacket, IsData

(* An active message keeps its id and its message while it is repeated.    *)
LEMMA StillActiveFields ==
  ASSUME NEW S \in SUBSET ActiveNetworkMessage
  PROVE  \A y \in StillActive(S) : \E x \in S :
           /\ ~IsLastRetry(x)
           /\ y.message = x.message
           /\ y.message_id = x.message_id
           /\ y = [x EXCEPT !.retries_left = @ - 1]
           /\ y.retries_left = x.retries_left - 1
BY DEF StillActive, ActiveNetworkMessage

LEMMA BookkeepingSend ==
  ASSUME Bookkeeping, TypeOK', NEW m \in Messages, SendMessage(m)
  PROVE  Bookkeeping'
<1> DEFINE e == Source[m]
           x == [message |-> m, message_id |-> next_active_message_id[e],
                 retries_left |-> MaxRetries[m]]
<1> USE DEF Bookkeeping
<1>1. /\ e \in Endpoints
      /\ x \in ActiveNetworkMessage
      /\ x.message = m /\ x.retries_left = MaxRetries[m]
  BY MessageAssumption DEF TypeOK, ActiveNetworkMessage
<1>2. /\ status[m] = "unsent"
      /\ status' = [status EXCEPT ![m] = "pending"]
      /\ active_messages' = [active_messages EXCEPT ![e] = @ \cup {x}]
      /\ UNCHANGED <<udp_interface, interrupted, received>>
  BY DEF SendMessage
<1>3. \A p \in DOMAIN network' : p \in DOMAIN network \/ p = DataPacket(x)
  <2>1. CASE udp_interface[e]
    <3>1. network' = Transmitted({DataPacket(x)})
      BY <2>1 DEF SendMessage
    <3> QED
      BY <3>1 DEF Transmitted
  <2>2. CASE ~udp_interface[e]
    BY <2>2 DEF SendMessage
  <2> QED
    BY <2>1, <2>2
<1>4. ~udp_interface[e] => network' = network
  BY DEF SendMessage
<1> HIDE DEF x
<1>5. ActiveOK'
  <2> SUFFICES ASSUME NEW f \in Endpoints, NEW y \in active_messages'[f]
               PROVE  /\ Source[y.message] = f
                      /\ status'[y.message] = "pending"
                      /\ y.retries_left <= MaxRetries[y.message]
    BY DEF ActiveOK
  <2>1. CASE y \in active_messages[f]
    BY <1>2, <2>1 DEF ActiveOK, TypeOK, ActiveNetworkMessage
  <2>2. CASE f = e /\ y = x
    <3>1. MaxRetries[m] \in Nat /\ status'[m] = "pending"
      BY <1>2, MessageAssumption DEF TypeOK
    <3> QED
      BY <1>1, <2>2, <3>1
  <2> QED
    BY <1>1, <1>2, <2>1, <2>2 DEF TypeOK
<1>6. PacketsOK'
  <2> SUFFICES ASSUME NEW p \in DOMAIN network', IsData(p)
               PROVE  /\ p.message \in Messages
                      /\ p.src = Source[p.message]
                      /\ p.dst = Destination[p.message]
                      /\ status'[p.message] # "unsent"
    BY DEF PacketsOK
  <2>1. CASE p \in DOMAIN network
    BY <1>2, <2>1 DEF PacketsOK, TypeOK
  <2>2. CASE p = DataPacket(x)
    BY <1>1, <1>2, <2>2, DataPacketFields DEF TypeOK
  <2> QED
    BY <1>3, <2>1, <2>2
<1>7. UnsentUntouched'
  BY <1>2 DEF UnsentUntouched, TypeOK
<1>8. UntransmittedUntouched'
  <2> SUFFICES ASSUME NEW f \in Endpoints \ interrupted, ~udp_interface[f],
                      NEW y \in active_messages'[f]
               PROVE  /\ received[y.message] = 0
                      /\ \A p \in DOMAIN network' :
                           IsData(p) => p.message # y.message
    BY <1>2 DEF UntransmittedUntouched
  <2>1. CASE y \in active_messages[f]
    <3>1. Source[y.message] = f /\ status[y.message] = "pending"
      BY <2>1 DEF ActiveOK
    <3>2. y.message # m
      BY <1>2, <3>1
    <3> QED
      BY <1>1, <1>3, <2>1, <3>2, DataPacketFields DEF UntransmittedUntouched
  <2>2. CASE f = e /\ y = x
    BY <1>1, <1>2, <1>4, <2>2 DEF UnsentUntouched, PacketsOK
  <2> QED
    BY <1>1, <1>2, <2>1, <2>2 DEF TypeOK
<1>9. ActiveOnce'
  <2> SUFFICES ASSUME NEW f \in Endpoints,
                      NEW y \in active_messages'[f], NEW z \in active_messages'[f],
                      y.message = z.message
               PROVE  y = z
    BY DEF ActiveOnce
  <2>1. \A w \in active_messages[e] : w.message # m
    BY <1>1, <1>2 DEF ActiveOK
  <2>2. CASE f = e
    <3>1. y \in active_messages[e] \cup {x} /\ z \in active_messages[e] \cup {x}
      BY <1>1, <1>2, <2>2 DEF TypeOK
    <3> QED
      BY <1>1, <2>1, <3>1 DEF ActiveOnce
  <2>3. CASE f # e
    BY <1>1, <1>2, <2>3 DEF TypeOK, ActiveOnce
  <2> QED
    BY <2>2, <2>3
<1>10. OneId'
  <2>1. \A p \in DOMAIN network : IsData(p) => p.message # m
    BY <1>2 DEF PacketsOK
  <2>2. \A f \in Endpoints : \A y \in active_messages[f] : y.message # m
    BY <1>2 DEF ActiveOK
  <2>3. \A f \in Endpoints : \A y \in active_messages'[f] :
          y \in active_messages[f] \/ y = x
    BY <1>2 DEF TypeOK
  <2>4. /\ DataPacket(x).message = m
        /\ DataPacket(x).message_id = x.message_id
    BY <1>1, DataPacketFields
  <2> QED
    BY <1>1, <1>3, <2>1, <2>2, <2>3, <2>4 DEF OneId
<1> QED
  BY <1>5, <1>6, <1>7, <1>8, <1>9, <1>10

LEMMA BookkeepingTick ==
  ASSUME Bookkeeping, TypeOK', NEW e \in Endpoints, On100MsPassed(e)
  PROVE  Bookkeeping'
<1> DEFINE active == active_messages[e]
           failed == Discarded(active)
           S == {DataPacket(x) : x \in active}
<1> USE DEF Bookkeeping
<1>1. active \in SUBSET ActiveNetworkMessage
  BY DEF TypeOK
<1>2. /\ udp_interface[e] \/ active = {}
      /\ active_messages' = [active_messages EXCEPT ![e] = StillActive(active)]
      /\ network' = Transmitted(S)
      /\ status' = [m \in Messages |->
                      IF m \in failed THEN "failed" ELSE status[m]]
      /\ UNCHANGED <<udp_interface, interrupted, received>>
  BY DEF On100MsPassed
<1>3. \A p \in DOMAIN network' :
        p \in DOMAIN network \/ \E x \in active : p = DataPacket(x)
  BY <1>2 DEF Transmitted
(* What fails is what was active here, on its last retry.                  *)
<1>4. \A m \in failed : \E x \in active : x.message = m /\ IsLastRetry(x)
  BY DEF Discarded
<1>5. /\ \A y \in active_messages'[e] : \E x \in active :
           /\ ~IsLastRetry(x)
           /\ y = [x EXCEPT !.retries_left = @ - 1]
           /\ y.message = x.message
           /\ y.message_id = x.message_id
           /\ y.retries_left = x.retries_left - 1
      /\ \A f \in Endpoints :
           f # e => active_messages'[f] = active_messages[f]
  BY <1>1, <1>2, StillActiveFields DEF TypeOK
<1> HIDE DEF active, failed, S
<1>6. ActiveOK'
  <2> SUFFICES ASSUME NEW f \in Endpoints, NEW y \in active_messages'[f]
               PROVE  /\ Source[y.message] = f
                      /\ status'[y.message] = "pending"
                      /\ y.retries_left <= MaxRetries[y.message]
    BY DEF ActiveOK
  <2>1. y.message \in Messages
    BY DEF TypeOK, ActiveNetworkMessage
  <2>2. CASE f = e
    <3>1. PICK x \in active : /\ ~IsLastRetry(x)
                              /\ y.message = x.message
                              /\ y.retries_left = x.retries_left - 1
      BY <1>5, <2>2
    <3>2. x.message \notin failed
      BY <1>4, <3>1 DEF ActiveOnce, active
    <3>3. /\ x.retries_left \in Nat /\ MaxRetries[x.message] \in Nat
          /\ x.retries_left <= MaxRetries[x.message]
          /\ Source[x.message] = e
          /\ status[x.message] = "pending"
      BY <1>1, MessageAssumption DEF ActiveOK, active, ActiveNetworkMessage
    <3> QED
      BY <1>2, <2>1, <2>2, <3>1, <3>2, <3>3
  <2>3. CASE f # e
    <3>1. /\ Source[y.message] = f
          /\ status[y.message] = "pending"
          /\ y.retries_left <= MaxRetries[y.message]
      BY <1>5, <2>3 DEF ActiveOK
    <3>2. y.message \notin failed
      BY <1>4, <2>3, <3>1 DEF ActiveOK, active
    <3> QED
      BY <1>2, <2>1, <3>1, <3>2
  <2> QED
    BY <2>2, <2>3
<1>7. ActiveOnce'
  <2> SUFFICES ASSUME NEW f \in Endpoints,
                      NEW y \in active_messages'[f], NEW z \in active_messages'[f],
                      y.message = z.message
               PROVE  y = z
    BY DEF ActiveOnce
  <2>1. CASE f = e
    <3>1. PICK x \in active : /\ y.message = x.message
                              /\ y = [x EXCEPT !.retries_left = @ - 1]
      BY <1>5, <2>1
    <3>2. PICK w \in active : /\ z.message = w.message
                              /\ z = [w EXCEPT !.retries_left = @ - 1]
      BY <1>5, <2>1
    <3>3. x = w
      BY <3>1, <3>2 DEF ActiveOnce, active
    <3> QED
      BY <3>1, <3>2, <3>3
  <2>2. CASE f # e
    BY <1>5, <2>2 DEF ActiveOnce
  <2> QED
    BY <2>1, <2>2
<1>8. PacketsOK'
  <2> SUFFICES ASSUME NEW p \in DOMAIN network', IsData(p)
               PROVE  /\ p.message \in Messages
                      /\ p.src = Source[p.message]
                      /\ p.dst = Destination[p.message]
                      /\ status'[p.message] # "unsent"
    BY DEF PacketsOK
  <2>1. CASE p \in DOMAIN network
    BY <1>2, <2>1 DEF PacketsOK
  <2>2. ASSUME NEW x \in active, p = DataPacket(x)
        PROVE  /\ p.message \in Messages
               /\ p.src = Source[p.message]
               /\ p.dst = Destination[p.message]
               /\ status'[p.message] # "unsent"
    <3>1. /\ x \in ActiveNetworkMessage /\ x.message \in Messages
          /\ status[x.message] = "pending"
      BY <1>1 DEF ActiveOK, active, ActiveNetworkMessage
    <3> QED
      BY <1>2, <2>2, <3>1, DataPacketFields
  <2> QED
    BY <1>3, <2>1, <2>2
<1>9. UnsentUntouched'
  BY <1>2 DEF UnsentUntouched
<1>10. UntransmittedUntouched'
  <2> SUFFICES ASSUME NEW f \in Endpoints \ interrupted, ~udp_interface[f],
                      NEW y \in active_messages'[f]
               PROVE  /\ received[y.message] = 0
                      /\ \A p \in DOMAIN network' :
                           IsData(p) => p.message # y.message
    BY <1>2 DEF UntransmittedUntouched
  <2>1. f # e
    BY <1>2, <1>5 DEF active
  <2>2. y \in active_messages[f] /\ Source[y.message] = f
    BY <1>5, <2>1 DEF ActiveOK
  <2>3. \A x \in active : DataPacket(x).message # y.message
    BY <1>1, <2>1, <2>2, DataPacketFields DEF ActiveOK, active
  <2> QED
    BY <1>3, <2>2, <2>3 DEF UntransmittedUntouched
<1>11. OneId'
  <2>1. \A f \in Endpoints : \A y \in active_messages'[f] :
          \E x \in active_messages[f] :
            y.message = x.message /\ y.message_id = x.message_id
    <3> SUFFICES ASSUME NEW f \in Endpoints, NEW y \in active_messages'[f]
                 PROVE  \E x \in active_messages[f] :
                          y.message = x.message /\ y.message_id = x.message_id
      OBVIOUS
    <3>1. CASE f = e
      BY <1>5, <3>1 DEF active
    <3>2. CASE f # e
      BY <1>5, <3>2
    <3> QED
      BY <3>1, <3>2
  <2>2. \A p \in DOMAIN network' :
          \/ p \in DOMAIN network
          \/ \E x \in active : /\ p.message = x.message
                              /\ p.message_id = x.message_id
    BY <1>1, <1>3, DataPacketFields
  <2>3. \A x \in active : \A f \in Endpoints : \A y \in active_messages[f] :
          x.message = y.message => x = y
    BY DEF active, ActiveOK, ActiveOnce
  <2>4. active \subseteq active_messages[e]
    BY DEF active
  <2> QED
    BY <2>1, <2>2, <2>3, <2>4 DEF OneId
<1> QED
  BY <1>6, <1>7, <1>8, <1>9, <1>10, <1>11

(* What a reception changes: it only adds an acknowledgement to the        *)
(* network and at most one delivery.                                       *)
LEMMA ReceptionEffect ==
  ASSUME Bookkeeping, NEW e \in Endpoints, NEW p \in DOMAIN network,
         ReceiveMessage(e, p)
  PROVE  /\ p \in Packet /\ IsData(p) /\ p.message \in Messages
         /\ p.src = Source[p.message] /\ e = Destination[p.message]
         /\ DOMAIN network' = DOMAIN network \cup {AckPacket(p)}
         /\ \A q \in DOMAIN network : IsData(q) => network'[q] = network[q]
         /\ \A m \in Messages :
              received'[m] = IF m = p.message /\ ~AlreadyHandled(e, p)
                               THEN received[m] + 1 ELSE received[m]
<1>1. p \in Packet
  BY DEF Bookkeeping, TypeOK
<1>2. IsData(p)
  BY DEF ReceiveMessage, IsData
<1>3. p.message \in Messages /\ p.src = Source[p.message] /\ e = Destination[p.message]
  BY <1>2 DEF Bookkeeping, PacketsOK, ReceiveMessage
<1>4. network' = Transmitted({AckPacket(p)})
  BY DEF ReceiveMessage
<1>5. /\ DOMAIN network' = DOMAIN network \cup {AckPacket(p)}
      /\ \A q \in DOMAIN network : IsData(q) => network'[q] = network[q]
  BY <1>4, AckPacketFields DEF Transmitted
<1>6. \A m \in Messages :
        received'[m] = IF m = p.message /\ ~AlreadyHandled(e, p)
                         THEN received[m] + 1 ELSE received[m]
  BY <1>3 DEF ReceiveMessage, Bookkeeping, TypeOK, AlreadyHandled
<1> QED
  BY <1>1, <1>2, <1>3, <1>5, <1>6

(* A step that takes active messages away, settles them, and leaves        *)
(* packets that carry messages, deliveries and interfaces alone.           *)
LEMMA BookkeepingSettle ==
  ASSUME Bookkeeping, TypeOK', NEW S,
         \A e \in Endpoints : active_messages'[e] \subseteq active_messages[e],
         \A e \in Endpoints : \A x \in active_messages'[e] : x.message \notin S,
         NEW outcome, outcome # "unsent",
         status' = [m \in Messages |-> IF m \in S THEN outcome ELSE status[m]],
         \A e \in Endpoints :
           udp_interface'[e] = udp_interface[e] \/ active_messages'[e] = {},
         \A p \in DOMAIN network' : IsData(p) => p \in DOMAIN network,
         received' = received, interrupted' = interrupted
  PROVE  Bookkeeping'
<1> USE DEF Bookkeeping
<1>1. ActiveOK'
  <2> SUFFICES ASSUME NEW f \in Endpoints, NEW y \in active_messages'[f]
               PROVE  /\ Source[y.message] = f
                      /\ status'[y.message] = "pending"
                      /\ y.retries_left <= MaxRetries[y.message]
    BY DEF ActiveOK
  <2> y.message \in Messages
    BY DEF TypeOK, ActiveNetworkMessage
  <2> QED
    BY DEF ActiveOK
<1>2. ActiveOnce'
  BY DEF ActiveOnce
<1>3. PacketsOK'
  BY DEF PacketsOK
<1>4. UnsentUntouched'
  BY DEF UnsentUntouched
<1>5. UntransmittedUntouched'
  BY DEF UntransmittedUntouched
<1>6. OneId'
  BY DEF OneId
<1> QED
  BY <1>1, <1>2, <1>3, <1>4, <1>5, <1>6

LEMMA BookkeepingStep == Bookkeeping /\ [Next]_vars => Bookkeeping'
<1> SUFFICES ASSUME Bookkeeping, [Next]_vars PROVE Bookkeeping'
  OBVIOUS
<1>t. TypeOK /\ TypeOK'
  BY StepTypeOK DEF Bookkeeping
<1>0. CASE UNCHANGED vars
  BY <1>0, <1>t DEF Bookkeeping, ActiveOK, ActiveOnce, PacketsOK,
     OneId, UnsentUntouched, UntransmittedUntouched, vars, handler_vars, history_vars
<1>1. ASSUME NEW m \in Messages, SendMessage(m) PROVE Bookkeeping'
  BY <1>1, <1>t, BookkeepingSend
<1>2. ASSUME NEW e \in Endpoints, NEW given \in BOOLEAN, SetUdpInterface(e, given)
      PROVE  Bookkeeping'
  BY <1>2, <1>t DEF SetUdpInterface, Bookkeeping, TypeOK, ActiveOK, ActiveOnce,
     PacketsOK, OneId, UnsentUntouched, UntransmittedUntouched, history_vars
<1>3. ASSUME NEW e \in Endpoints, NEW t \in ReceptionTimes,
             SetMaxMessageReceptionTime(e, t)
      PROVE  Bookkeeping'
  BY <1>3, <1>t DEF SetMaxMessageReceptionTime, Bookkeeping, ActiveOK, ActiveOnce,
     PacketsOK, OneId, UnsentUntouched, UntransmittedUntouched, history_vars
<1>4. ASSUME NEW e \in Endpoints, NEW S \in SUBSET Messages,
             CancelActiveMessages(e, S)
      PROVE  Bookkeeping'
  <2>1. \A f \in Endpoints : \A x \in active_messages'[f] : x.message \notin S
    <3> SUFFICES ASSUME NEW f \in Endpoints, NEW x \in active_messages'[f]
                 PROVE  x.message \notin S
      OBVIOUS
    <3>1. CASE f = e
      BY <1>4, <1>t, <3>1 DEF CancelActiveMessages, TypeOK
    <3>2. CASE f # e
      <4>1. x \in active_messages[f] /\ Source[x.message] = f
        BY <1>4, <1>t, <3>2 DEF CancelActiveMessages, TypeOK, Bookkeeping, ActiveOK
      <4>2. \A m \in S : Source[m] = e
        BY <1>4 DEF CancelActiveMessages, Bookkeeping, ActiveOK
      <4> QED
        BY <3>2, <4>1, <4>2
    <3> QED
      BY <3>1, <3>2
  <2>2. \A f \in Endpoints : active_messages'[f] \subseteq active_messages[f]
    BY <1>4, <1>t DEF CancelActiveMessages, TypeOK
  <2>3. /\ status' = [m \in Messages |->
                        IF m \in S THEN "cancelled" ELSE status[m]]
        /\ UNCHANGED <<udp_interface, interrupted, network, received>>
    BY <1>4 DEF CancelActiveMessages
  <2> QED
    BY <1>t, <2>1, <2>2, <2>3, BookkeepingSettle
<1>5. ASSUME NEW e \in Endpoints, On100MsPassed(e) PROVE Bookkeeping'
  BY <1>5, <1>t, BookkeepingTick
<1>6. ASSUME NEW e \in Endpoints, On100MsPassedThrows(e) PROVE Bookkeeping'
  BY <1>6, <1>t DEF On100MsPassedThrows, Bookkeeping, ActiveOK, ActiveOnce,
     PacketsOK, OneId, UnsentUntouched, UntransmittedUntouched, history_vars
<1>7. ASSUME NEW e \in Endpoints, NEW p \in DOMAIN network, ReceiveAck(e, p)
      PROVE  Bookkeeping'
  <2> DEFINE acked == AckedMessages(e, p.message_id)
             S == {x.message : x \in acked}
  <2>1. acked \subseteq active_messages[e]
    BY DEF AckedMessages
  <2>2. /\ active_messages' = [active_messages EXCEPT ![e] = @ \ acked]
        /\ status' = [m \in Messages |->
                        IF m \in S THEN "succeeded" ELSE status[m]]
        /\ UNCHANGED <<udp_interface, interrupted, network, received>>
    BY <1>7 DEF ReceiveAck
  <2> HIDE DEF acked
  <2>3. \A f \in Endpoints : active_messages'[f] \subseteq active_messages[f]
    BY <1>t, <2>2 DEF TypeOK
  <2>4. \A f \in Endpoints : \A x \in active_messages'[f] : x.message \notin S
    <3> SUFFICES ASSUME NEW f \in Endpoints, NEW x \in active_messages'[f],
                        NEW y \in acked, x.message = y.message
                 PROVE  FALSE
      OBVIOUS
    <3>1. f = e
      BY <2>1, <2>3 DEF Bookkeeping, ActiveOK
    <3>2. x \in active_messages[e] \ acked
      BY <1>t, <2>2, <3>1 DEF TypeOK
    <3> QED
      BY <2>1, <3>2 DEF Bookkeeping, ActiveOnce
  <2> HIDE DEF S
  <2> QED
    BY <1>t, <2>2, <2>3, <2>4, BookkeepingSettle
<1>8. ASSUME NEW e \in Endpoints, NEW p \in DOMAIN network, ReceiveMessage(e, p)
      PROVE  Bookkeeping'
  <2>1. UNCHANGED <<udp_interface, interrupted, active_messages, status>>
    BY <1>8 DEF ReceiveMessage
  <2>a. \A q \in DOMAIN network' : IsData(q) => q \in DOMAIN network
    <3>1. DOMAIN network' = DOMAIN network \cup {AckPacket(p)}
      BY <1>8, ReceptionEffect
    <3>2. ~IsData(AckPacket(p))
      BY AckPacketFields
    <3> QED
      BY <3>1, <3>2
  <2>2. PacketsOK'
    BY <2>1, <2>a DEF Bookkeeping, PacketsOK
  <2>3. UnsentUntouched'
    <3>1. status[p.message] # "unsent"
      BY <1>8, ReceptionEffect DEF Bookkeeping, PacketsOK
    <3> QED
      BY <1>8, <2>1, <3>1, ReceptionEffect DEF Bookkeeping, UnsentUntouched
  <2>4. UntransmittedUntouched'
    <3> SUFFICES ASSUME NEW f \in Endpoints \ interrupted, ~udp_interface[f],
                        NEW y \in active_messages[f]
                 PROVE  /\ received'[y.message] = 0
                        /\ \A q \in DOMAIN network' :
                             IsData(q) => q.message # y.message
      BY <2>1 DEF UntransmittedUntouched
    <3>1. y.message \in Messages
      BY <1>t DEF TypeOK, ActiveNetworkMessage
    <3>2. y.message # p.message
      BY <1>8, ReceptionEffect DEF Bookkeeping, UntransmittedUntouched
    <3>b. \A m \in Messages :
            received'[m] = IF m = p.message /\ ~AlreadyHandled(e, p)
                             THEN received[m] + 1 ELSE received[m]
      BY <1>8, ReceptionEffect, Zenon
    <3>a. \A m \in Messages :
            m # p.message => received'[m] = received[m]
      BY <3>b
    <3>3. received'[y.message] = received[y.message]
      BY <3>a, <3>1, <3>2
    <3> QED
      BY <2>a, <3>3 DEF Bookkeeping, UntransmittedUntouched
  <2>5. OneId'
    BY <2>1, <2>a DEF Bookkeeping, OneId
  <2> QED
    BY <1>t, <2>1, <2>2, <2>3, <2>4, <2>5 DEF Bookkeeping, ActiveOK, ActiveOnce
<1>9. CASE PeriodEnds
  <2>1. /\ DOMAIN network' \subseteq DOMAIN network
        /\ UNCHANGED <<udp_interface, interrupted, active_messages, status, received>>
    BY <1>9 DEF PeriodEnds, handler_vars, history_vars
  <2> QED
    BY <1>t, <2>1 DEF Bookkeeping, ActiveOK, ActiveOnce, PacketsOK,
       OneId, UnsentUntouched, UntransmittedUntouched
<1>10. ASSUME NEW e \in Endpoints,
              Restart(e) \/ \E p \in DOMAIN network : RestartWhileReceiving(e, p)
       PROVE  Bookkeeping'
  <2> DEFINE S == {x.message : x \in active_messages[e]}
  <2>1. /\ status' = [m \in Messages |->
                        IF m \in S THEN "forgotten" ELSE status[m]]
        /\ active_messages' = [active_messages EXCEPT ![e] = {}]
        /\ udp_interface' = [udp_interface EXCEPT ![e] = FALSE]
        /\ UNCHANGED <<received, interrupted>>
        /\ \A q \in DOMAIN network' : IsData(q) => q \in DOMAIN network
    BY <1>10, <1>t, RebootEffect DEF Reboot, IsData
  <2>2. \A f \in Endpoints : \A x \in active_messages'[f] : x.message \notin S
    BY <1>t, <2>1 DEF TypeOK, Bookkeeping, ActiveOK
  <2>3. /\ \A f \in Endpoints : active_messages'[f] \subseteq active_messages[f]
        /\ \A f \in Endpoints :
             udp_interface'[f] = udp_interface[f] \/ active_messages'[f] = {}
    BY <1>t, <2>1 DEF TypeOK
  <2> HIDE DEF S
  <2> QED
    BY <1>t, <2>1, <2>2, <2>3, BookkeepingSettle
<1> QED
  BY <1>0, <1>1, <1>2, <1>3, <1>4, <1>5, <1>6, <1>7, <1>8, <1>9, <1>10
     DEF Next, Heartbeat

--------------------------------------------------------------------------------
(* The memory of receptions. *)

LEMMA RetentionBound ==
  ASSUME NEW m \in Messages, NEW t \in ReceptionTimes
  PROVE  /\ Retries(m) \in Nat /\ Retries(m) >= 1
         /\ t \in Nat /\ t < TimeMod
         /\ Retries(m) + PacketLifetime + 1 <= t
BY MessageAssumption, RetentionAssumption DEF Retries

LEMMA AgeType ==
  ASSUME TypeOK, NEW r \in Endpoints, NEW key \in DOMAIN message_reception_times[r]
  PROVE  Age(r, key) \in Nat
BY ElapsedType, ClockAssumption DEF TypeOK, Age, Times

LEMMA TicksType == \A e \in Endpoints : TicksToCome(e) \in {0, 1}
BY DEF TicksToCome

(* Remembering depends on the receiver's memory and clock only.            *)
LEMMA RememberedFrame ==
  ASSUME UNCHANGED <<message_reception_times, time_in_deciseconds, ticked>>,
         NEW m, NEW id, NEW ticks, Remembered(m, id, ticks)
  PROVE  Remembered(m, id, ticks)'
BY DEF Remembered, Age, TicksToCome

(* A tick makes the receiver's memory older by the tick that was to come,  *)
(* and purges nothing that has not outlived the maximum.                   *)
LEMMA TickKeepsMemory ==
  ASSUME TypeOK, NEW e \in Endpoints, On100MsPassed(e) \/ On100MsPassedThrows(e),
         NEW r \in Endpoints, NEW key \in DOMAIN message_reception_times[r],
         NEW t \in ReceptionTimes, t = max_message_reception_time[r],
         t \in Nat, t < TimeMod, Age(r, key) + TicksToCome(r) <= t
  PROVE  /\ key \in DOMAIN message_reception_times'[r]
         /\ Age(r, key)' + TicksToCome(r)' = Age(r, key) + TicksToCome(r)
<1> DEFINE now == time_in_deciseconds[r]
           then == message_reception_times[r][key]
<1>1. now \in Times /\ then \in Times
  BY DEF TypeOK
<1>2. CASE r # e
  <2>1. /\ message_reception_times'[r] = message_reception_times[r]
        /\ time_in_deciseconds'[r] = now
        /\ TicksToCome(r)' = TicksToCome(r)
    BY <1>2 DEF On100MsPassed, On100MsPassedThrows, TypeOK, TicksToCome
  <2> QED
    BY <2>1 DEF Age
<1>3. CASE r = e
  <2>1. /\ TicksToCome(r) = 1 /\ TicksToCome(r)' = 0
        /\ time_in_deciseconds'[r] = NextTime(now)
    BY <1>3 DEF On100MsPassed, On100MsPassedThrows, TypeOK, TicksToCome
  <2>2. Elapsed(now, then) + 1 <= t /\ Elapsed(now, then) \in Times
    BY <1>1, <2>1, ElapsedType DEF Age
  <2>3. Elapsed(NextTime(now), then) = Elapsed(now, then) + 1
    BY <1>1, <2>2, ElapsedNext, ClockAssumption DEF Times
  <2>4. /\ key \in DOMAIN message_reception_times'[r]
        /\ message_reception_times'[r][key] = then
    <3>1. CASE On100MsPassedThrows(e)
      BY <3>1 DEF On100MsPassedThrows
    <3>2. CASE On100MsPassed(e)
      <4>1. message_reception_times'[r] = KeptReceptions(r, NextTime(now))
        BY <1>3, <3>2 DEF On100MsPassed, TypeOK
      <4>2. ~HasExpired(r, key, NextTime(now))
        BY <2>2, <2>3, ClockAssumption DEF HasExpired, Times
      <4> QED
        BY <4>1, <4>2 DEF KeptReceptions
    <3> QED
      BY <3>1, <3>2
  <2>5. Age(r, key)' = Elapsed(NextTime(now), then)
    BY <2>1, <2>4 DEF Age
  <2> QED
    BY <1>1, <2>1, <2>2, <2>3, <2>4, <2>5, ClockAssumption DEF Age, Times
<1> QED
  BY <1>2, <1>3

(* A reception is remembered with age 0, and nothing else grows older.     *)
LEMMA ReceptionKeepsMemory ==
  ASSUME TypeOK, NEW e \in Endpoints, NEW p \in DOMAIN network,
         ReceiveMessage(e, p)
  PROVE  /\ <<p.src, p.message_id>> \in DOMAIN message_reception_times'[e]
         /\ Age(e, <<p.src, p.message_id>>)' = 0
         /\ \A r \in Endpoints : \A key \in DOMAIN message_reception_times[r] :
              /\ key \in DOMAIN message_reception_times'[r]
              /\ Age(r, key)' \in 0 .. Age(r, key)
         /\ \A r \in Endpoints : TicksToCome(r)' = TicksToCome(r)
<1> DEFINE new == <<p.src, p.message_id>>
<1>1. /\ message_reception_times' =
           [message_reception_times EXCEPT
              ![e] = [k \in DOMAIN @ \cup {new} |->
                        IF k = new THEN time_in_deciseconds[e] ELSE @[k]]]
      /\ UNCHANGED <<time_in_deciseconds, ticked>>
  BY DEF ReceiveMessage
<1>2. /\ DOMAIN message_reception_times'[e]
           = DOMAIN message_reception_times[e] \cup {new}
      /\ message_reception_times'[e][new] = time_in_deciseconds[e]
      /\ \A k \in DOMAIN message_reception_times[e] :
           k # new =>
             message_reception_times'[e][k] = message_reception_times[e][k]
      /\ \A r \in Endpoints :
           r # e => message_reception_times'[r] = message_reception_times[r]
  BY <1>1 DEF TypeOK
<1>3. Age(e, new)' = 0
  BY <1>1, <1>2, ElapsedType DEF Age, TypeOK
<1>4. ASSUME NEW r \in Endpoints, NEW key \in DOMAIN message_reception_times[r]
      PROVE  /\ key \in DOMAIN message_reception_times'[r]
             /\ Age(r, key)' \in 0 .. Age(r, key)
  <2>1. Age(r, key) \in Nat
    BY AgeType
  <2>2. CASE r = e /\ key = new
    BY <1>2, <1>3, <2>1, <2>2
  <2>3. CASE ~(r = e /\ key = new)
    <3>1. /\ key \in DOMAIN message_reception_times'[r]
          /\ message_reception_times'[r][key] = message_reception_times[r][key]
      BY <1>2, <2>3
    <3>2. Age(r, key)' = Age(r, key)
      BY <1>1, <3>1 DEF Age
    <3> QED
      BY <2>1, <3>1, <3>2
  <2> QED
    BY <2>2, <2>3
<1>5. \A r \in Endpoints : TicksToCome(r)' = TicksToCome(r)
  BY <1>1 DEF TicksToCome
<1> QED
  BY <1>2, <1>3, <1>4, <1>5

--------------------------------------------------------------------------------
(* At most one delivery, step by step. *)

(* A step that neither delivers nor reboots, leaves the receivers' memory  *)
(* and the network alone and only takes active messages away.              *)
LEMMA DeliverySettle ==
  ASSUME DeliveryInv, Bookkeeping',
         UNCHANGED <<message_reception_times, time_in_deciseconds, ticked,
                     network, received, restarts>>,
         interrupted \subseteq interrupted',
         \A e \in Endpoints : active_messages'[e] \subseteq active_messages[e]
  PROVE  DeliveryInv'
<1> SUFFICES ASSUME NEW m \in Messages, Protected(m)
             PROVE  Protected(m)'
  BY DEF DeliveryInv, DeliveryBounded
<1>1. Source[m] \in Endpoints
  BY MessageAssumption
<1>2. ActiveProtected(m)'
  BY <1>1 DEF Protected, ActiveProtected, Remembered, Age, TicksToCome
<1>3. PacketsProtected(m)'
  BY DEF Protected, PacketsProtected, Remembered, Age, TicksToCome
<1> QED
  BY <1>2, <1>3 DEF Protected

LEMMA DeliverySend ==
  ASSUME DeliveryInv, Bookkeeping', NEW m \in Messages, SendMessage(m)
  PROVE  DeliveryInv'
<1> DEFINE e == Source[m]
           x == [message |-> m, message_id |-> next_active_message_id[e],
                 retries_left |-> MaxRetries[m]]
<1>1. /\ e \in Endpoints /\ x \in ActiveNetworkMessage /\ x.message = m
      /\ received[m] = 0 /\ restarts[Destination[m]] \in Nat
  <2>1. e \in Endpoints /\ x \in ActiveNetworkMessage /\ x.message = m
    BY MessageAssumption
       DEF DeliveryInv, Bookkeeping, TypeOK, ActiveNetworkMessage
  <2>2. received[m] = 0
    BY DEF DeliveryInv, Bookkeeping, UnsentUntouched, SendMessage
  <2>3. restarts[Destination[m]] \in Nat
    BY MessageAssumption, ClockAssumption DEF DeliveryInv, Bookkeeping, TypeOK
  <2> QED
    BY <2>1, <2>2, <2>3
<1>2. /\ active_messages' = [active_messages EXCEPT ![e] = @ \cup {x}]
      /\ network' = network \/ network' = Transmitted({DataPacket(x)})
      /\ UNCHANGED <<message_reception_times, time_in_deciseconds, ticked,
                     received, restarts, interrupted>>
  BY DEF SendMessage
<1>3. IsData(DataPacket(x)) /\ DataPacket(x).message = m
  BY <1>1, DataPacketFields
<1> HIDE DEF x
<1> SUFFICES ASSUME NEW n \in Messages, n # m, Protected(n)
             PROVE  Protected(n)'
  BY <1>1, <1>2 DEF DeliveryInv, DeliveryBounded
<1>4. Source[n] \in Endpoints
  BY MessageAssumption
<1>5. ActiveProtected(n)'
  <2>1. \A y \in active_messages'[Source[n]] :
          y.message = n => y \in active_messages[Source[n]]
    BY <1>1, <1>2, <1>4 DEF DeliveryInv, Bookkeeping, TypeOK
  <2> QED
    BY <1>2, <2>1 DEF Protected, ActiveProtected, Remembered, Age, TicksToCome
<1>6. PacketsProtected(n)'
  <2>1. \A p \in DOMAIN network' :
          IsData(p) /\ p.message = n =>
            p \in DOMAIN network /\ network'[p] = network[p]
    BY <1>2, <1>3 DEF Transmitted
  <2> QED
    BY <1>2, <2>1 DEF Protected, PacketsProtected, Remembered, Age, TicksToCome
<1> QED
  BY <1>5, <1>6 DEF Protected

(* A reception of m's own packet is remembered for long enough; any other  *)
(* leaves m remembered for at least as long.                               *)
LEMMA DeliveryReceive ==
  ASSUME DeliveryInv, Bookkeeping', NEW e \in Endpoints, NEW p \in DOMAIN network,
         ReceiveMessage(e, p)
  PROVE  DeliveryInv'
<1>1. /\ p.message \in Messages /\ IsData(p)
      /\ p.src = Source[p.message] /\ e = Destination[p.message]
      /\ DOMAIN network' = DOMAIN network \cup {AckPacket(p)}
      /\ \A q \in DOMAIN network : IsData(q) => network'[q] = network[q]
      /\ \A m \in Messages :
           received'[m] = IF m = p.message /\ ~AlreadyHandled(e, p)
                            THEN received[m] + 1 ELSE received[m]
  BY ReceptionEffect DEF DeliveryInv
<1>2. UNCHANGED <<active_messages, restarts, interrupted>>
  BY DEF ReceiveMessage
<1>3. \A q \in DOMAIN network' :
        IsData(q) => q \in DOMAIN network /\ network'[q] = network[q]
  BY <1>1, AckPacketFields
<1>4. TypeOK
  BY DEF DeliveryInv, Bookkeeping
<1>5. /\ <<p.src, p.message_id>> \in DOMAIN message_reception_times'[e]
      /\ Age(e, <<p.src, p.message_id>>)' = 0
      /\ \A r \in Endpoints : \A key \in DOMAIN message_reception_times[r] :
           /\ key \in DOMAIN message_reception_times'[r]
           /\ Age(r, key)' \in 0 .. Age(r, key)
      /\ \A r \in Endpoints : TicksToCome(r)' = TicksToCome(r)
  BY <1>4, ReceptionKeepsMemory
<1> SUFFICES ASSUME NEW m \in Messages, Source[m] \notin interrupted
             PROVE  \/ received'[m] <= restarts[Destination[m]]
                    \/ /\ received'[m] = restarts[Destination[m]] + 1
                       /\ Protected(m)'
  BY <1>2 DEF DeliveryInv, DeliveryBounded
<1> DEFINE s == Source[m]
           r == Destination[m]
           bound == Retries(m) + PacketLifetime + 1
<1>6. /\ s \in Endpoints /\ r \in Endpoints
      /\ received[m] \in Nat /\ restarts[r] \in Nat
      /\ Retries(m) \in Nat /\ Retries(m) >= 1 /\ PacketLifetime \in Nat
      /\ TicksToCome(r) \in {0, 1} /\ TicksToCome(s) \in {0, 1}
  BY <1>4, MessageAssumption, ClockAssumption, TicksType DEF TypeOK, Retries
<1>7. /\ \A x \in active_messages[s] :
           x.message = m => /\ RepeatsLeft(x) \in Nat
                            /\ RepeatsLeft(x) <= Retries(m)
      /\ \A q \in DOMAIN network : network[q] \in 0 .. PacketLifetime
  BY <1>4, <1>6, MessageAssumption
     DEF DeliveryInv, Bookkeeping, TypeOK, ActiveOK, ActiveNetworkMessage,
         RepeatsLeft, Retries
<1>8. CASE received[m] = restarts[r] + 1 /\ Protected(m)
  (* It is remembered already, so this is no new delivery.                 *)
  <2>1. received'[m] = received[m]
    <3>1. p.message = m => AlreadyHandled(e, p)
      BY <1>1, <1>8 DEF Protected, PacketsProtected, Remembered, AlreadyHandled
    <3> QED
      BY <1>1, <3>1
  <2>2. ActiveProtected(m)'
    <3> SUFFICES ASSUME NEW x \in active_messages[s], x.message = m
                 PROVE  /\ <<s, x.message_id>> \in DOMAIN message_reception_times'[r]
                        /\ Age(r, <<s, x.message_id>>)' + TicksToCome(r)'
                             + (RepeatsLeft(x) - TicksToCome(s)' + PacketLifetime)
                             <= bound
      BY <1>2, <1>6 DEF ActiveProtected, Remembered
    <3> DEFINE key == <<s, x.message_id>>
    <3>1. /\ key \in DOMAIN message_reception_times[r]
          /\ Age(r, key) + TicksToCome(r)
               + (RepeatsLeft(x) - TicksToCome(s) + PacketLifetime) <= bound
      BY <1>8 DEF Protected, ActiveProtected, Remembered
    <3>2. /\ key \in DOMAIN message_reception_times'[r]
          /\ Age(r, key)' <= Age(r, key)
          /\ Age(r, key) \in Nat /\ Age(r, key)' \in Nat
      BY <1>4, <1>5, <1>6, <3>1, AgeType DEF DeliveryInv, Bookkeeping
    <3> HIDE DEF key
    <3> QED
      BY <1>5, <1>6, <1>7, <3>1, <3>2 DEF key
  <2>3. PacketsProtected(m)'
    <3> SUFFICES ASSUME NEW q \in DOMAIN network, IsData(q), q.message = m
                 PROVE  /\ <<s, q.message_id>> \in DOMAIN message_reception_times'[r]
                        /\ Age(r, <<s, q.message_id>>)' + TicksToCome(r)'
                             + network[q] <= bound
      BY <1>3, <1>6 DEF PacketsProtected, Remembered
    <3> DEFINE key == <<s, q.message_id>>
    <3>1. /\ key \in DOMAIN message_reception_times[r]
          /\ Age(r, key) + TicksToCome(r) + network[q] <= bound
      BY <1>8 DEF Protected, PacketsProtected, Remembered
    <3>2. /\ key \in DOMAIN message_reception_times'[r]
          /\ Age(r, key)' <= Age(r, key)
          /\ Age(r, key) \in Nat /\ Age(r, key)' \in Nat
      BY <1>4, <1>5, <1>6, <3>1, AgeType DEF DeliveryInv, Bookkeeping
    <3> HIDE DEF key
    <3> QED
      BY <1>5, <1>6, <1>7, <3>1, <3>2 DEF key
  <2> QED
    BY <1>8, <2>1, <2>2, <2>3 DEF Protected
<1>9. CASE received[m] <= restarts[r] /\ m = p.message /\ ~AlreadyHandled(e, p)
  <2>1. received'[m] = received[m] + 1
    BY <1>1, <1>9
  <2>2. ActiveProtected(m)'
    <3> SUFFICES ASSUME NEW x \in active_messages[s], x.message = m
                 PROVE  /\ <<s, x.message_id>> \in DOMAIN message_reception_times'[r]
                        /\ Age(r, <<s, x.message_id>>)' + TicksToCome(r)'
                             + (RepeatsLeft(x) - TicksToCome(s)' + PacketLifetime)
                             <= bound
      BY <1>2, <1>6 DEF ActiveProtected, Remembered
    <3>1. x.message_id = p.message_id
      BY <1>1, <1>6, <1>9 DEF DeliveryInv, Bookkeeping, OneId
    <3>2. /\ <<s, x.message_id>> \in DOMAIN message_reception_times'[r]
          /\ Age(r, <<s, x.message_id>>)' = 0
      BY <1>1, <1>5, <1>9, <3>1
    <3> QED
      BY <1>5, <1>6, <1>7, <3>2
  <2>3. PacketsProtected(m)'
    <3> SUFFICES ASSUME NEW q \in DOMAIN network, IsData(q), q.message = m
                 PROVE  /\ <<s, q.message_id>> \in DOMAIN message_reception_times'[r]
                        /\ Age(r, <<s, q.message_id>>)' + TicksToCome(r)'
                             + network[q] <= bound
      BY <1>3, <1>6 DEF PacketsProtected, Remembered
    <3>1. q.message_id = p.message_id
      BY <1>1, <1>9 DEF DeliveryInv, Bookkeeping, OneId
    <3>2. /\ <<s, q.message_id>> \in DOMAIN message_reception_times'[r]
          /\ Age(r, <<s, q.message_id>>)' = 0
      BY <1>1, <1>5, <1>9, <3>1
    <3> QED
      BY <1>5, <1>6, <1>7, <3>2
  <2>4. received'[m] <= restarts[r] \/ received'[m] = restarts[r] + 1
    BY <1>6, <1>9, <2>1
  <2> QED
    BY <2>2, <2>3, <2>4 DEF Protected
<1>10. CASE received[m] <= restarts[r] /\ ~(m = p.message /\ ~AlreadyHandled(e, p))
  BY <1>1, <1>10
<1> QED
  BY <1>8, <1>9, <1>10 DEF DeliveryInv, DeliveryBounded

(* What a tick leaves of the slack of a delivered message: the numbers.    *)
LEMMA ProtectedBounds ==
  ASSUME DeliveryInv, NEW m \in Messages
  PROVE  /\ Source[m] \in Endpoints /\ Destination[m] \in Endpoints
         /\ Retries(m) \in Nat /\ Retries(m) >= 1 /\ PacketLifetime \in Nat
         /\ TicksToCome(Source[m]) \in {0, 1}
         /\ TicksToCome(Destination[m]) \in {0, 1}
         /\ max_message_reception_time[Destination[m]] \in ReceptionTimes
         /\ max_message_reception_time[Destination[m]] \in Nat
         /\ max_message_reception_time[Destination[m]] < TimeMod
         /\ Retries(m) + PacketLifetime + 1
              <= max_message_reception_time[Destination[m]]
         /\ \A key \in DOMAIN message_reception_times[Destination[m]] :
              Age(Destination[m], key) \in Nat
         /\ \A x \in active_messages[Source[m]] :
              x.message = m => RepeatsLeft(x) \in Nat /\ RepeatsLeft(x) >= 1
         /\ \A q \in DOMAIN network : network[q] \in 0 .. PacketLifetime
<1>1. TypeOK
  BY DEF DeliveryInv, Bookkeeping
<1>2. Source[m] \in Endpoints /\ Destination[m] \in Endpoints
  BY MessageAssumption
<1>3. max_message_reception_time[Destination[m]] \in ReceptionTimes
  BY <1>1, <1>2 DEF TypeOK
<1>4. \A x \in active_messages[Source[m]] : x.retries_left \in Nat
  BY <1>1, <1>2 DEF TypeOK, ActiveNetworkMessage
<1>5. \A x \in active_messages[Source[m]] :
        x.message = m => RepeatsLeft(x) \in Nat /\ RepeatsLeft(x) >= 1
  BY <1>4 DEF RepeatsLeft
<1> QED
  BY <1>1, <1>2, <1>3, <1>5, RetentionBound, AgeType, TicksType, ClockAssumption
     DEF TypeOK

(* A tick of the receiver makes its memory older and no longer has to      *)
(* come; a tick of the sender uses up a repetition.                        *)
LEMMA DeliveryTick ==
  ASSUME DeliveryInv, Bookkeeping', NEW e \in Endpoints, On100MsPassed(e)
  PROVE  DeliveryInv'
<1> SUFFICES ASSUME NEW m \in Messages, Protected(m) PROVE Protected(m)'
  BY DEF DeliveryInv, DeliveryBounded, On100MsPassed
<1> DEFINE s == Source[m]
           r == Destination[m]
           bound == Retries(m) + PacketLifetime + 1
           active == active_messages[e]
<1>1. TypeOK
  BY DEF DeliveryInv, Bookkeeping
<1>2. /\ active_messages' = [active_messages EXCEPT ![e] = StillActive(active)]
      /\ network' = Transmitted({DataPacket(x) : x \in active})
      /\ e \notin ticked /\ ticked' = ticked \cup {e}
  BY DEF On100MsPassed
<1>3. /\ TicksToCome(e) = 1 /\ TicksToCome(e)' = 0
      /\ \A f \in Endpoints : f # e => TicksToCome(f)' = TicksToCome(f)
  BY <1>2 DEF TicksToCome
<1>4. /\ s \in Endpoints /\ r \in Endpoints
      /\ Retries(m) \in Nat /\ Retries(m) >= 1 /\ PacketLifetime \in Nat
      /\ TicksToCome(s) \in {0, 1} /\ TicksToCome(r) \in {0, 1}
      /\ TicksToCome(s)' \in {0, 1} /\ TicksToCome(r)' \in {0, 1}
  BY <1>3, ProtectedBounds
<1>5. ASSUME NEW key \in DOMAIN message_reception_times[r],
             Age(r, key) + TicksToCome(r) <= bound
      PROVE  /\ key \in DOMAIN message_reception_times'[r]
             /\ Age(r, key)' + TicksToCome(r)' = Age(r, key) + TicksToCome(r)
  <2>1. /\ max_message_reception_time[r] \in ReceptionTimes
        /\ max_message_reception_time[r] \in Nat
        /\ max_message_reception_time[r] < TimeMod
        /\ bound <= max_message_reception_time[r]
        /\ Age(r, key) \in Nat
    BY ProtectedBounds
  <2>2. Age(r, key) + TicksToCome(r) <= max_message_reception_time[r]
    BY <1>4, <1>5, <2>1
  <2> QED
    BY <1>1, <1>4, <2>1, <2>2, TickKeepsMemory
(* The memory that protects an active message of m, before the step.       *)
<1>6. ASSUME NEW x \in active_messages[s], x.message = m
      PROVE  LET key == <<s, x.message_id>> IN
             /\ key \in DOMAIN message_reception_times[r]
             /\ Age(r, key) \in Nat
             /\ RepeatsLeft(x) \in Nat /\ RepeatsLeft(x) >= 1
             /\ Age(r, key) + TicksToCome(r)
                  + (RepeatsLeft(x) - TicksToCome(s) + PacketLifetime) <= bound
             /\ Age(r, key) + TicksToCome(r) <= bound
  <2> DEFINE key == <<s, x.message_id>>
  <2>1. /\ key \in DOMAIN message_reception_times[r]
        /\ Age(r, key) + TicksToCome(r)
             + (RepeatsLeft(x) - TicksToCome(s) + PacketLifetime) <= bound
    BY <1>6 DEF Protected, ActiveProtected, Remembered
  <2>2. Age(r, key) \in Nat /\ RepeatsLeft(x) \in Nat /\ RepeatsLeft(x) >= 1
    BY <1>6, <2>1, ProtectedBounds
  <2> HIDE DEF key
  <2> QED
    BY <1>4, <2>1, <2>2 DEF key
<1>7. ActiveProtected(m)'
  <2> SUFFICES ASSUME NEW y \in active_messages'[s], y.message = m
               PROVE  LET key == <<s, y.message_id>> IN
                      /\ key \in DOMAIN message_reception_times'[r]
                      /\ Age(r, key)' + TicksToCome(r)'
                           + (RepeatsLeft(y) - TicksToCome(s)' + PacketLifetime)
                           <= bound
    BY <1>4 DEF ActiveProtected, Remembered
  <2>1. PICK x \in active_messages[s] :
          /\ x.message = m /\ x.message_id = y.message_id
          /\ RepeatsLeft(y) - TicksToCome(s)' = RepeatsLeft(x) - TicksToCome(s)
    <3>1. CASE s = e
      <4>1. active \in SUBSET ActiveNetworkMessage
        BY <1>1 DEF TypeOK
      <4>2. y \in StillActive(active)
        BY <1>1, <1>2, <3>1 DEF TypeOK
      <4>3. PICK x \in active : /\ ~IsLastRetry(x)
                                /\ y.message = x.message
                                /\ y.message_id = x.message_id
                                /\ y.retries_left = x.retries_left - 1
        BY <4>1, <4>2, StillActiveFields
      <4>4. x.retries_left \in Nat
        BY <4>1 DEF ActiveNetworkMessage
      <4>5. RepeatsLeft(y) = RepeatsLeft(x) - 1 /\ RepeatsLeft(x) \in Nat
        BY <4>3, <4>4 DEF IsLastRetry, RepeatsLeft
      <4> QED
        BY <1>3, <3>1, <4>3, <4>5
    <3>2. CASE s # e
      BY <1>1, <1>2, <1>3, <1>4, <3>2 DEF TypeOK
    <3> QED
      BY <3>1, <3>2
  <2> DEFINE key == <<s, x.message_id>>
  <2>2. /\ key \in DOMAIN message_reception_times[r]
        /\ Age(r, key) \in Nat
        /\ RepeatsLeft(x) \in Nat
        /\ Age(r, key) + TicksToCome(r)
             + (RepeatsLeft(x) - TicksToCome(s) + PacketLifetime) <= bound
        /\ Age(r, key) + TicksToCome(r) <= bound
    BY <1>6, <2>1
  <2>3. /\ key \in DOMAIN message_reception_times'[r]
        /\ Age(r, key)' + TicksToCome(r)' = Age(r, key) + TicksToCome(r)
    BY <1>5, <2>2
  <2>4. <<s, y.message_id>> = key
    BY <2>1
  <2> HIDE DEF key
  <2> QED
    BY <1>4, <2>1, <2>2, <2>3, <2>4
<1>8. PacketsProtected(m)'
  <2> SUFFICES ASSUME NEW q \in DOMAIN network', IsData(q), q.message = m
               PROVE  LET key == <<s, q.message_id>> IN
                      /\ key \in DOMAIN message_reception_times'[r]
                      /\ Age(r, key)' + TicksToCome(r)' + network'[q] <= bound
    BY <1>4 DEF PacketsProtected, Remembered
  <2> DEFINE key == <<s, q.message_id>>
  <2>1. CASE \E x \in active : q = DataPacket(x)
    <3>1. PICK x \in active : q = DataPacket(x)
      BY <2>1
    <3>2. x \in ActiveNetworkMessage /\ Source[x.message] = e
      BY <1>1 DEF TypeOK, DeliveryInv, Bookkeeping, ActiveOK
    <3>3. x.message = m /\ s = e /\ key = <<s, x.message_id>>
      BY <3>1, <3>2, DataPacketFields
    <3>4. network'[q] = PacketLifetime
      BY <1>2, <2>1 DEF Transmitted
    <3>5. /\ key \in DOMAIN message_reception_times[r]
          /\ Age(r, key) \in Nat
          /\ RepeatsLeft(x) \in Nat /\ RepeatsLeft(x) >= 1
          /\ Age(r, key) + TicksToCome(r)
               + (RepeatsLeft(x) - TicksToCome(s) + PacketLifetime) <= bound
          /\ Age(r, key) + TicksToCome(r) <= bound
      BY <1>6, <3>3
    <3> HIDE DEF key
    <3>6. /\ key \in DOMAIN message_reception_times'[r]
          /\ Age(r, key)' + TicksToCome(r)' = Age(r, key) + TicksToCome(r)
      BY <1>5, <3>5
    <3>7. Age(r, key) + TicksToCome(r) + PacketLifetime <= bound
      BY <1>3, <1>4, <3>3, <3>5
    <3> QED
      BY <3>4, <3>6, <3>7 DEF key
  <2>2. CASE ~\E x \in active : q = DataPacket(x)
    <3>1. q \in DOMAIN network /\ network'[q] = network[q]
      BY <1>2, <2>2 DEF Transmitted
    <3>2. /\ key \in DOMAIN message_reception_times[r]
          /\ Age(r, key) + TicksToCome(r) + network[q] <= bound
      BY <3>1 DEF Protected, PacketsProtected, Remembered
    <3>3. Age(r, key) \in Nat /\ network[q] \in Nat
      BY <3>1, <3>2, ProtectedBounds
    <3> HIDE DEF key
    <3>4. Age(r, key) + TicksToCome(r) <= bound
      BY <1>4, <3>2, <3>3
    <3>5. /\ key \in DOMAIN message_reception_times'[r]
          /\ Age(r, key)' + TicksToCome(r)' = Age(r, key) + TicksToCome(r)
      BY <1>5, <3>2, <3>4
    <3> QED
      BY <3>1, <3>2, <3>5 DEF key
  <2> QED
    BY <2>1, <2>2
<1> QED
  BY <1>7, <1>8 DEF Protected

(* A tick that throws uses up no repetition, but then its endpoint has     *)
(* sent nothing yet, or its interface was taken away.                      *)
LEMMA DeliveryThrows ==
  ASSUME DeliveryInv, Bookkeeping', NEW e \in Endpoints, On100MsPassedThrows(e)
  PROVE  DeliveryInv'
<1>1. UNCHANGED <<active_messages, network, received, restarts, interrupted>>
  BY DEF On100MsPassedThrows, history_vars
<1> SUFFICES ASSUME NEW m \in Messages, Protected(m),
                    Source[m] \notin interrupted,
                    received[m] = restarts[Destination[m]] + 1
             PROVE  Protected(m)'
  BY <1>1 DEF DeliveryInv, DeliveryBounded
<1> DEFINE s == Source[m]
           r == Destination[m]
           bound == Retries(m) + PacketLifetime + 1
<1>2. TypeOK
  BY DEF DeliveryInv, Bookkeeping
<1>3. /\ s \in Endpoints /\ r \in Endpoints
      /\ Retries(m) \in Nat /\ PacketLifetime \in Nat
      /\ TicksToCome(s) \in {0, 1} /\ TicksToCome(r) \in {0, 1}
      /\ received[m] # 0
  BY <1>2, ProtectedBounds, ClockAssumption DEF TypeOK
<1>4. ASSUME NEW key \in DOMAIN message_reception_times[r],
             Age(r, key) + TicksToCome(r) <= bound
      PROVE  /\ key \in DOMAIN message_reception_times'[r]
             /\ Age(r, key)' + TicksToCome(r)' = Age(r, key) + TicksToCome(r)
  <2>1. /\ max_message_reception_time[r] \in ReceptionTimes
        /\ max_message_reception_time[r] \in Nat
        /\ max_message_reception_time[r] < TimeMod
        /\ bound <= max_message_reception_time[r]
        /\ Age(r, key) \in Nat
    BY ProtectedBounds
  <2>2. Age(r, key) + TicksToCome(r) <= max_message_reception_time[r]
    BY <1>3, <1>4, <2>1
  <2> QED
    BY <1>2, <1>3, <2>1, <2>2, TickKeepsMemory
<1>5. ActiveProtected(m)'
  <2> SUFFICES ASSUME NEW x \in active_messages[s], x.message = m
               PROVE  LET key == <<s, x.message_id>> IN
                      /\ key \in DOMAIN message_reception_times'[r]
                      /\ Age(r, key)' + TicksToCome(r)'
                           + (RepeatsLeft(x) - TicksToCome(s)' + PacketLifetime)
                           <= bound
    BY <1>1, <1>3 DEF ActiveProtected, Remembered
  <2> DEFINE key == <<s, x.message_id>>
  <2>1. TicksToCome(s)' = TicksToCome(s)
    <3>1. s # e
      BY <1>3 DEF DeliveryInv, Bookkeeping, UntransmittedUntouched,
         On100MsPassedThrows
    <3> QED
      BY <3>1 DEF On100MsPassedThrows, TicksToCome
  <2>2. /\ key \in DOMAIN message_reception_times[r]
        /\ Age(r, key) + TicksToCome(r)
             + (RepeatsLeft(x) - TicksToCome(s) + PacketLifetime) <= bound
    BY DEF Protected, ActiveProtected, Remembered
  <2>3. Age(r, key) \in Nat /\ RepeatsLeft(x) \in Nat /\ RepeatsLeft(x) >= 1
    BY <2>2, ProtectedBounds
  <2> HIDE DEF key
  <2>4. Age(r, key) + TicksToCome(r) <= bound
    BY <1>3, <2>2, <2>3
  <2>5. /\ key \in DOMAIN message_reception_times'[r]
        /\ Age(r, key)' + TicksToCome(r)' = Age(r, key) + TicksToCome(r)
    BY <1>4, <2>2, <2>4
  <2> QED
    BY <2>1, <2>2, <2>5 DEF key
<1>6. PacketsProtected(m)'
  <2> SUFFICES ASSUME NEW q \in DOMAIN network, IsData(q), q.message = m
               PROVE  LET key == <<s, q.message_id>> IN
                      /\ key \in DOMAIN message_reception_times'[r]
                      /\ Age(r, key)' + TicksToCome(r)' + network[q] <= bound
    BY <1>1, <1>3 DEF PacketsProtected, Remembered
  <2> DEFINE key == <<s, q.message_id>>
  <2>1. /\ key \in DOMAIN message_reception_times[r]
        /\ Age(r, key) + TicksToCome(r) + network[q] <= bound
    BY DEF Protected, PacketsProtected, Remembered
  <2>2. Age(r, key) \in Nat /\ network[q] \in Nat
    BY <2>1, ProtectedBounds
  <2> HIDE DEF key
  <2>3. Age(r, key) + TicksToCome(r) <= bound
    BY <1>3, <2>1, <2>2
  <2>4. /\ key \in DOMAIN message_reception_times'[r]
        /\ Age(r, key)' + TicksToCome(r)' = Age(r, key) + TicksToCome(r)
    BY <1>4, <2>1, <2>3
  <2> QED
    BY <2>1, <2>4 DEF key
<1> QED
  BY <1>5, <1>6 DEF Protected

(* At the end of a period every tick is still to come, the receiver's like *)
(* the sender's, and packets are one boundary older.                       *)
LEMMA DeliveryPeriodEnds ==
  ASSUME DeliveryInv, Bookkeeping', PeriodEnds
  PROVE  DeliveryInv'
<1>1. /\ ticked = Endpoints /\ ticked' = {}
      /\ network' = [q \in {p \in DOMAIN network : network[p] > 0} |->
                       network[q] - 1]
      /\ UNCHANGED <<active_messages, message_reception_times,
                     time_in_deciseconds, received, restarts, interrupted>>
  BY DEF PeriodEnds, handler_vars, history_vars
<1> SUFFICES ASSUME NEW m \in Messages, Protected(m) PROVE Protected(m)'
  BY <1>1 DEF DeliveryInv, DeliveryBounded
<1> DEFINE s == Source[m]
           r == Destination[m]
           bound == Retries(m) + PacketLifetime + 1
<1>2. /\ s \in Endpoints /\ r \in Endpoints
      /\ Retries(m) \in Nat /\ PacketLifetime \in Nat
      /\ \A q \in DOMAIN network : network[q] \in 0 .. PacketLifetime
  BY ProtectedBounds
<1>3. /\ TicksToCome(s) = 0 /\ TicksToCome(r) = 0
      /\ TicksToCome(s)' = 1 /\ TicksToCome(r)' = 1
  BY <1>1, <1>2 DEF TicksToCome
<1>4. \A key \in DOMAIN message_reception_times[r] :
        /\ key \in DOMAIN message_reception_times'[r]
        /\ Age(r, key)' = Age(r, key) /\ Age(r, key) \in Nat
  <2>1. \A key \in DOMAIN message_reception_times[r] : Age(r, key) \in Nat
    BY ProtectedBounds
  <2> QED
    BY <1>1, <2>1 DEF Age
<1>5. ActiveProtected(m)'
  <2> SUFFICES ASSUME NEW x \in active_messages[s], x.message = m
               PROVE  LET key == <<s, x.message_id>> IN
                      /\ key \in DOMAIN message_reception_times'[r]
                      /\ Age(r, key)' + TicksToCome(r)'
                           + (RepeatsLeft(x) - TicksToCome(s)' + PacketLifetime)
                           <= bound
    BY <1>1, <1>2 DEF ActiveProtected, Remembered
  <2> DEFINE key == <<s, x.message_id>>
  <2>1. /\ key \in DOMAIN message_reception_times[r]
        /\ Age(r, key) + TicksToCome(r)
             + (RepeatsLeft(x) - TicksToCome(s) + PacketLifetime) <= bound
    BY DEF Protected, ActiveProtected, Remembered
  <2>2. RepeatsLeft(x) \in Nat
    BY ProtectedBounds
  <2> HIDE DEF key
  <2> QED
    BY <1>2, <1>3, <1>4, <2>1, <2>2 DEF key
<1>6. PacketsProtected(m)'
  <2> SUFFICES ASSUME NEW q \in DOMAIN network', IsData(q), q.message = m
               PROVE  LET key == <<s, q.message_id>> IN
                      /\ key \in DOMAIN message_reception_times'[r]
                      /\ Age(r, key)' + TicksToCome(r)' + network'[q] <= bound
    BY <1>2 DEF PacketsProtected, Remembered
  <2> DEFINE key == <<s, q.message_id>>
  <2>1. q \in DOMAIN network /\ network'[q] = network[q] - 1
    BY <1>1
  <2>2. /\ key \in DOMAIN message_reception_times[r]
        /\ Age(r, key) + TicksToCome(r) + network[q] <= bound
    BY <2>1 DEF Protected, PacketsProtected, Remembered
  <2> HIDE DEF key
  <2> QED
    BY <1>2, <1>3, <1>4, <2>1, <2>2 DEF key
<1> QED
  BY <1>5, <1>6 DEF Protected

(* A reboot of the receiver allows one more delivery of everything; one of *)
(* the sender ends the repetitions.                                        *)
LEMMA DeliveryRestart ==
  ASSUME DeliveryInv, Bookkeeping', NEW e \in Endpoints,
         Restart(e) \/ \E p \in DOMAIN network : RestartWhileReceiving(e, p)
  PROVE  DeliveryInv'
<1>1. TypeOK
  BY DEF DeliveryInv, Bookkeeping
<1>2. /\ restarts' = [restarts EXCEPT ![e] = @ + 1]
      /\ active_messages' = [active_messages EXCEPT ![e] = {}]
      /\ UNCHANGED <<ticked, received, interrupted>>
      /\ \A q \in DOMAIN network' :
           IsData(q) => q \in DOMAIN network /\ network'[q] = network[q]
      /\ \A r \in Endpoints : r # e =>
           /\ message_reception_times'[r] = message_reception_times[r]
           /\ time_in_deciseconds'[r] = time_in_deciseconds[r]
  BY <1>1, RebootEffect DEF Reboot, TypeOK, IsData
<1> SUFFICES ASSUME NEW m \in Messages, Source[m] \notin interrupted
             PROVE  \/ received[m] <= restarts'[Destination[m]]
                    \/ /\ received[m] = restarts'[Destination[m]] + 1
                       /\ Protected(m)'
  BY <1>2 DEF DeliveryInv, DeliveryBounded
<1>3. /\ Source[m] \in Endpoints /\ Destination[m] \in Endpoints
      /\ received[m] \in Nat /\ restarts[Destination[m]] \in Nat
  BY <1>1, MessageAssumption, ClockAssumption DEF TypeOK
<1>4. \/ received[m] <= restarts[Destination[m]]
      \/ received[m] = restarts[Destination[m]] + 1 /\ Protected(m)
  BY DEF DeliveryInv, DeliveryBounded
<1>5. CASE Destination[m] = e
  BY <1>1, <1>2, <1>3, <1>4, <1>5 DEF TypeOK
<1>6. CASE Destination[m] # e
  <2>1. restarts'[Destination[m]] = restarts[Destination[m]]
    BY <1>1, <1>2, <1>3, <1>6 DEF TypeOK
  <2>2. ASSUME Protected(m) PROVE Protected(m)'
    <3>1. active_messages'[Source[m]] \subseteq active_messages[Source[m]]
      BY <1>1, <1>2, <1>3 DEF TypeOK
    <3>2. ActiveProtected(m)'
      BY <1>2, <1>3, <1>6, <2>2, <3>1
         DEF Protected, ActiveProtected, Remembered, Age, TicksToCome
    <3>3. PacketsProtected(m)'
      BY <1>2, <1>3, <1>6, <2>2
         DEF Protected, PacketsProtected, Remembered, Age, TicksToCome
    <3> QED
      BY <3>2, <3>3 DEF Protected
  <2> QED
    BY <1>4, <2>1, <2>2
<1> QED
  BY <1>5, <1>6

LEMMA DeliveryStep == DeliveryInv /\ [Next]_vars => DeliveryInv'
<1> SUFFICES ASSUME DeliveryInv, [Next]_vars PROVE DeliveryInv'
  OBVIOUS
<1>b. Bookkeeping'
  BY BookkeepingStep DEF DeliveryInv
<1>t. TypeOK
  BY DEF DeliveryInv, Bookkeeping
<1>0. CASE UNCHANGED vars
  BY <1>0, <1>b, DeliverySettle DEF vars, handler_vars, history_vars
<1>1. ASSUME NEW m \in Messages, SendMessage(m) PROVE DeliveryInv'
  BY <1>1, <1>b, DeliverySend
<1>2. ASSUME NEW e \in Endpoints,
             \/ \E given \in BOOLEAN : SetUdpInterface(e, given)
             \/ \E t \in ReceptionTimes : SetMaxMessageReceptionTime(e, t)
      PROVE  DeliveryInv'
  BY <1>2, <1>b, DeliverySettle
     DEF SetUdpInterface, SetMaxMessageReceptionTime, history_vars
<1>3. ASSUME NEW e \in Endpoints, NEW S \in SUBSET Messages,
             CancelActiveMessages(e, S)
      PROVE  DeliveryInv'
  <2>1. \A f \in Endpoints : active_messages'[f] \subseteq active_messages[f]
    BY <1>3, <1>t DEF CancelActiveMessages, TypeOK
  <2> QED
    BY <1>3, <1>b, <2>1, DeliverySettle DEF CancelActiveMessages
<1>4. ASSUME NEW e \in Endpoints, On100MsPassed(e) PROVE DeliveryInv'
  BY <1>4, <1>b, DeliveryTick
<1>5. ASSUME NEW e \in Endpoints, On100MsPassedThrows(e) PROVE DeliveryInv'
  BY <1>5, <1>b, DeliveryThrows
<1>6. ASSUME NEW e \in Endpoints, NEW p \in DOMAIN network, ReceiveAck(e, p)
      PROVE  DeliveryInv'
  <2>1. \A f \in Endpoints : active_messages'[f] \subseteq active_messages[f]
    BY <1>6, <1>t DEF ReceiveAck, TypeOK
  <2> QED
    BY <1>6, <1>b, <2>1, DeliverySettle DEF ReceiveAck
<1>7. ASSUME NEW e \in Endpoints, NEW p \in DOMAIN network, ReceiveMessage(e, p)
      PROVE  DeliveryInv'
  BY <1>7, <1>b, DeliveryReceive
<1>8. CASE PeriodEnds
  BY <1>8, <1>b, DeliveryPeriodEnds
<1>9. ASSUME NEW e \in Endpoints,
             Restart(e) \/ \E p \in DOMAIN network : RestartWhileReceiving(e, p)
      PROVE  DeliveryInv'
  BY <1>9, <1>b, DeliveryRestart
<1> QED
  BY <1>0, <1>1, <1>2, <1>3, <1>4, <1>5, <1>6, <1>7, <1>8, <1>9
     DEF Next, Heartbeat

(* A delegate sees a message at most once, and once more for every reboot  *)
(* of its receiver, however many endpoints and messages there are, unless  *)
(* the interface of its sender has been taken away meanwhile.              *)
THEOREM DeliveredAtMostOnce == Spec => []AtMostOnce
<1>1. Init => DeliveryInv
  BY InitBookkeeping, MessageAssumption
     DEF Init, DeliveryInv, DeliveryBounded
<1>2. DeliveryInv => AtMostOnce
  <2> SUFFICES ASSUME DeliveryInv, NEW m \in Messages, Source[m] \notin interrupted
               PROVE  received[m] <= 1 + restarts[Destination[m]]
    BY DEF AtMostOnce
  <2>1. received[m] \in Nat /\ restarts[Destination[m]] \in Nat
    BY MessageAssumption, ClockAssumption DEF DeliveryInv, Bookkeeping, TypeOK
  <2> QED
    BY <2>1 DEF DeliveryInv, DeliveryBounded
<1> QED
  BY <1>1, <1>2, DeliveryStep, PTL DEF Spec

================================================================================
