---------------------------- MODULE TransportProofs -----------------------------
(***************************************************************************)
(* NetworkHandler keeps its promise: success means delivery, for every     *)
(* number of endpoints, messages and ids, and, when nothing reboots,       *)
(* NetworkHandler implements Transport.                                    *)
(***************************************************************************)
EXTENDS NetworkHandlerProofs

(* An acknowledgement names an id and nothing else.  What makes it true is *)
(* that an id of s stands for one message at a time: the one that an       *)
(* active message or a data packet with that id carries.                   *)
StandsFor(s, id, m) ==
  \/ \E x \in active_messages[s] : x.message_id = id /\ x.message = m
  \/ \E p \in DOMAIN network :
       IsData(p) /\ p.src = s /\ p.message_id = id /\ p.message = m

(* What an endpoint takes for the reception of the message an id stands    *)
(* for: an acknowledgement under way, or an entry in a receiver's memory,  *)
(* which would suppress the delivery but be acknowledged.                  *)
Evidence(s, id) ==
  \/ \E p \in DOMAIN network : p.type = "ack" /\ p.dst = s /\ p.message_id = id
  \/ \E r \in Endpoints : <<s, id>> \in DOMAIN message_reception_times[r]

OneMeaning ==
  \A s \in Endpoints : restarts[s] = 0 =>
    \A id : \A m1, m2 : StandsFor(s, id, m1) /\ StandsFor(s, id, m2) => m1 = m2

(* The receiver's delegate has seen m, or its reboot got in between.       *)
Heard(m) == received[m] >= 1 \/ m \in cut_off

EvidenceTrue ==
  \A s \in Endpoints : restarts[s] = 0 =>
    \A id : \A m \in Messages :
      StandsFor(s, id, m) /\ Evidence(s, id) => Heard(m)

CutOffByReboot == \A m \in cut_off : restarts[Destination[m]] > 0

TransportInv ==
  /\ OneMeaning
  /\ EvidenceTrue
  /\ CutOffByReboot
  /\ SuccessMeansDelivered

LEMMA InitDelivery == Init => DeliveryInv
BY InitBookkeeping, MessageAssumption DEF Init, DeliveryInv, DeliveryBounded

LEMMA InitTransport == Init => TransportInv
BY DEF Init, TransportInv, OneMeaning, EvidenceTrue, CutOffByReboot,
       SuccessMeansDelivered, StandsFor

(* What was received or cut off stays so.                                  *)
LEMMA HeardStays ==
  ASSUME TypeOK, TypeOK', \A m \in Messages : received[m] <= received'[m],
         cut_off \subseteq cut_off', NEW m \in Messages, Heard(m)
  PROVE  Heard(m)'
BY DEF Heard, TypeOK

--------------------------------------------------------------------------------
(* Steps after which ids stand for no more messages than before, there is  *)
(* no more evidence, and nothing more has succeeded.                       *)
LEMMA NothingNew ==
  ASSUME TransportInv, TypeOK, TypeOK',
         \A s \in Endpoints : restarts'[s] = 0 =>
           /\ restarts[s] = 0
           /\ \A id : \A m : StandsFor(s, id, m)' => StandsFor(s, id, m)
           /\ \A id : Evidence(s, id)' => Evidence(s, id),
         \A m \in Messages : received[m] <= received'[m],
         cut_off' = cut_off,
         \A e \in Endpoints : restarts[e] <= restarts'[e],
         \A m \in Messages :
           status'[m] = "succeeded" =>
             \/ status[m] = "succeeded"
             \/ restarts[Source[m]] = 0 => Heard(m)
  PROVE  TransportInv'
<1>1. OneMeaning'
  BY DEF TransportInv, OneMeaning
<1>2. \A m \in Messages : Heard(m) => Heard(m)'
  BY HeardStays
<1>3. EvidenceTrue'
  BY <1>2 DEF TransportInv, EvidenceTrue
<1>4. CutOffByReboot'
  BY MessageAssumption DEF TransportInv, CutOffByReboot, TypeOK
<1>5. SuccessMeansDelivered'
  BY <1>2, <1>4, MessageAssumption
     DEF TransportInv, SuccessMeansDelivered, CutOffByReboot, Heard
<1> QED
  BY <1>1, <1>3, <1>4, <1>5 DEF TransportInv

(* Steps that at most take messages off the active ones.                   *)
LEMMA FewerActive ==
  ASSUME DeliveryInv, TypeOK', TransportInv,
         \A s \in Endpoints : active_messages'[s] \subseteq active_messages[s],
         UNCHANGED <<network, message_reception_times, restarts, received, cut_off>>,
         \A m \in Messages :
           status'[m] = "succeeded" =>
             \/ status[m] = "succeeded"
             \/ restarts[Source[m]] = 0 => Heard(m)
  PROVE  TransportInv'
<1>1. TypeOK
  BY DEF DeliveryInv, Bookkeeping
<1>2. \A s \in Endpoints : \A id :
        /\ \A m : StandsFor(s, id, m)' => StandsFor(s, id, m)
        /\ Evidence(s, id)' => Evidence(s, id)
  BY DEF StandsFor, Evidence
<1>3. /\ \A m \in Messages : received[m] <= received'[m]
      /\ \A e \in Endpoints : restarts[e] <= restarts'[e]
  BY <1>1 DEF TypeOK
<1> QED
  BY <1>1, <1>2, <1>3, NothingNew

(* send_message: its id stood for nothing, and there was no evidence.      *)
LEMMA TransportSend ==
  ASSUME DeliveryInv, TypeOK', TransportInv, NEW m \in Messages, SendMessage(m)
  PROVE  TransportInv'
<1> DEFINE e == Source[m]
           i == next_active_message_id[e]
           x == [message |-> m, message_id |-> i, retries_left |-> MaxRetries[m]]
<1>1. TypeOK /\ e \in Endpoints /\ x \in ActiveNetworkMessage
  BY MessageAssumption DEF DeliveryInv, Bookkeeping, TypeOK, ActiveNetworkMessage
<1>2. /\ NextIdIsFree(e)
      /\ active_messages' = [active_messages EXCEPT ![e] = @ \cup {x}]
      /\ status' = [status EXCEPT ![m] = "pending"]
      /\ UNCHANGED <<message_reception_times, restarts, received, cut_off>>
  BY DEF SendMessage
<1>3. \A p \in DOMAIN network' : p \in DOMAIN network \/ p = DataPacket(x)
  <2>1. CASE udp_interface[e]
    <3>1. network' = Transmitted({DataPacket(x)})
      BY <2>1 DEF SendMessage
    <3> QED
      BY <3>1 DEF Transmitted
  <2>2. CASE ~udp_interface[e]
    BY <2>2 DEF SendMessage
  <2> QED
    BY <2>1, <2>2
<1>4. /\ x.message = m /\ x.message_id = i
      /\ DataPacket(x).message = m /\ DataPacket(x).message_id = i
      /\ DataPacket(x).src = e /\ IsData(DataPacket(x))
  BY <1>1, DataPacketFields
<1> HIDE DEF x, i, e
<1>5. ASSUME NEW s \in Endpoints, NEW id, NEW n, StandsFor(s, id, n)'
      PROVE  StandsFor(s, id, n) \/ (s = e /\ id = i /\ n = m)
  <2>1. \A y \in active_messages'[s] : y \in active_messages[s] \/ (s = e /\ y = x)
    BY <1>1, <1>2 DEF TypeOK
  <2> QED
    BY <1>3, <1>4, <1>5, <2>1 DEF StandsFor
<1>6. ASSUME NEW s \in Endpoints, NEW id, Evidence(s, id)'
      PROVE  Evidence(s, id)
  BY <1>2, <1>3, <1>4, <1>6 DEF Evidence, IsData
<1>7. ASSUME restarts[e] = 0
      PROVE  ~Evidence(e, i) /\ \A n : ~StandsFor(e, i, n)
  BY <1>1, <1>2, <1>7 DEF NextIdIsFree, Evidence, StandsFor, IsData, i
<1>8. OneMeaning'
  BY <1>2, <1>5, <1>7 DEF TransportInv, OneMeaning
<1>9. EvidenceTrue'
  BY <1>2, <1>5, <1>6, <1>7 DEF TransportInv, EvidenceTrue, Heard
<1>10. SuccessMeansDelivered' /\ CutOffByReboot'
  BY <1>1, <1>2
     DEF TransportInv, SuccessMeansDelivered, CutOffByReboot, TypeOK
<1> QED
  BY <1>8, <1>9, <1>10 DEF TransportInv

(* on_100_ms_passed: repetitions carry the ids of active messages.         *)
LEMMA TransportTick ==
  ASSUME DeliveryInv, TypeOK', TransportInv, NEW e \in Endpoints, On100MsPassed(e)
  PROVE  TransportInv'
<1> DEFINE active == active_messages[e]
           S == {DataPacket(x) : x \in active}
<1>1. /\ TypeOK /\ active \in SUBSET ActiveNetworkMessage
      /\ \A x \in active : Source[x.message] = e
  BY DEF DeliveryInv, Bookkeeping, TypeOK, ActiveOK
<1>2. /\ active_messages' = [active_messages EXCEPT ![e] = StillActive(active)]
      /\ network' = Transmitted(S)
      /\ UNCHANGED <<restarts, received, cut_off>>
  BY DEF On100MsPassed
<1>3. \A p \in DOMAIN network' :
        p \in DOMAIN network \/ \E x \in active : p = DataPacket(x)
  BY <1>2 DEF Transmitted
<1>4. \A x \in active : /\ IsData(DataPacket(x))
                        /\ DataPacket(x).message = x.message
                        /\ DataPacket(x).message_id = x.message_id
                        /\ DataPacket(x).src = e
  BY <1>1, DataPacketFields
<1>5. /\ \A y \in active_messages'[e] : \E x \in active :
           y.message = x.message /\ y.message_id = x.message_id
      /\ \A f \in Endpoints : f # e => active_messages'[f] = active_messages[f]
  BY <1>1, <1>2, StillActiveFields DEF TypeOK
<1> HIDE DEF S
<1>6. ASSUME NEW s \in Endpoints, NEW id, NEW n, StandsFor(s, id, n)'
      PROVE  StandsFor(s, id, n)
  <2>1. CASE \E y \in active_messages'[s] : y.message_id = id /\ y.message = n
    BY <1>5, <2>1 DEF StandsFor
  <2>2. CASE \E p \in DOMAIN network' :
               IsData(p) /\ p.src = s /\ p.message_id = id /\ p.message = n
    BY <1>3, <1>4, <2>2 DEF StandsFor
  <2> QED
    BY <1>6, <2>1, <2>2 DEF StandsFor
<1>7. \A r \in Endpoints :
        DOMAIN message_reception_times'[r] \subseteq DOMAIN message_reception_times[r]
  <2>1. message_reception_times' =
          [message_reception_times EXCEPT
             ![e] = KeptReceptions(e, NextTime(time_in_deciseconds[e]))]
    BY DEF On100MsPassed
  <2>2. DOMAIN KeptReceptions(e, NextTime(time_in_deciseconds[e]))
          \subseteq DOMAIN message_reception_times[e]
    BY DEF KeptReceptions
  <2> QED
    BY <1>1, <2>1, <2>2 DEF TypeOK
<1>8. ASSUME NEW s \in Endpoints, NEW id, Evidence(s, id)'
      PROVE  Evidence(s, id)
  BY <1>3, <1>4, <1>7, <1>8 DEF Evidence, IsData
<1>9. \A m \in Messages : status'[m] = "succeeded" => status[m] = "succeeded"
  BY DEF On100MsPassed
<1>10. /\ \A m \in Messages : received[m] <= received'[m]
       /\ \A f \in Endpoints : restarts[f] <= restarts'[f]
  BY <1>1, <1>2 DEF TypeOK
<1> QED
  BY <1>1, <1>2, <1>6, <1>8, <1>9, <1>10, NothingNew

(* A message is acknowledged when it is delivered, or when there is        *)
(* evidence that it was.                                                   *)
LEMMA TransportReceive ==
  ASSUME DeliveryInv, TypeOK', TransportInv, NEW e \in Endpoints,
         NEW p \in DOMAIN network, ReceiveMessage(e, p)
  PROVE  TransportInv'
<1> DEFINE key == <<p.src, p.message_id>>
<1>1. /\ TypeOK /\ IsData(p) /\ p \in Packet
      /\ p.message \in Messages /\ p.src \in Endpoints
      /\ p.src = Source[p.message]
  BY MessageAssumption
     DEF DeliveryInv, Bookkeeping, TypeOK, PacketsOK, ReceiveMessage, IsData, Packet
<1>2. /\ network' = Transmitted({AckPacket(p)})
      /\ received' = [received EXCEPT
                        ![p.message] = IF AlreadyHandled(e, p) THEN @ ELSE @ + 1]
      /\ UNCHANGED <<active_messages, restarts, status, cut_off>>
  BY DEF ReceiveMessage
<1>3. \A q \in DOMAIN network' : q \in DOMAIN network \/ q = AckPacket(p)
  BY <1>2 DEF Transmitted
<1>4. \A r \in Endpoints :
        DOMAIN message_reception_times'[r]
          \subseteq DOMAIN message_reception_times[r] \cup {key}
  BY <1>1 DEF ReceiveMessage, TypeOK
<1>5. \A m \in Messages : Heard(m) => Heard(m)'
  BY <1>1, <1>2 DEF TypeOK, Heard
<1>6. ASSUME NEW s \in Endpoints, NEW id, NEW n, StandsFor(s, id, n)'
      PROVE  StandsFor(s, id, n)
  BY <1>2, <1>3, <1>6, AckPacketFields DEF StandsFor
<1>7. ASSUME NEW s \in Endpoints, NEW id, Evidence(s, id)'
      PROVE  Evidence(s, id) \/ (s = p.src /\ id = p.message_id)
  BY <1>3, <1>4, <1>7, AckPacketFields DEF Evidence
<1>8. StandsFor(p.src, p.message_id, p.message)
  BY <1>1 DEF StandsFor
<1>9. ASSUME restarts[p.src] = 0
      PROVE  Heard(p.message)'
  <2>1. CASE AlreadyHandled(e, p)
    <3>1. Evidence(p.src, p.message_id)
      BY <2>1 DEF AlreadyHandled, Evidence
    <3> QED
      BY <1>1, <1>5, <1>8, <1>9, <3>1 DEF TransportInv, EvidenceTrue
  <2>2. CASE ~AlreadyHandled(e, p)
    BY <1>1, <1>2, <2>2 DEF TypeOK, Heard
  <2> QED
    BY <2>1, <2>2
<1>10. OneMeaning'
  BY <1>2, <1>6 DEF TransportInv, OneMeaning
<1>11. EvidenceTrue'
  <2> SUFFICES ASSUME NEW s \in Endpoints, restarts[s] = 0, NEW id,
                      NEW m \in Messages, StandsFor(s, id, m),
                      Evidence(s, id) \/ (s = p.src /\ id = p.message_id)
               PROVE  Heard(m)'
    BY <1>2, <1>6, <1>7 DEF EvidenceTrue
  <2>1. CASE Evidence(s, id)
    BY <1>5, <2>1 DEF TransportInv, EvidenceTrue
  <2>2. CASE s = p.src /\ id = p.message_id
    <3>1. m = p.message
      BY <1>8, <2>2 DEF TransportInv, OneMeaning
    <3> QED
      BY <1>9, <2>2, <3>1
  <2> QED
    BY <2>1, <2>2
<1>12. CutOffByReboot'
  BY <1>2 DEF TransportInv, CutOffByReboot
<1>13. SuccessMeansDelivered'
  BY <1>2, <1>5, <1>12
     DEF TransportInv, SuccessMeansDelivered, CutOffByReboot, Heard
<1> QED
  BY <1>10, <1>11, <1>12, <1>13 DEF TransportInv

(* on_received_ack: what it settles was delivered.                         *)
LEMMA TransportAck ==
  ASSUME DeliveryInv, TypeOK', TransportInv, NEW e \in Endpoints,
         NEW p \in DOMAIN network, ReceiveAck(e, p)
  PROVE  /\ TransportInv'
         /\ restarts[e] = 0 =>
              \A x \in AckedMessages(e, p.message_id) : Heard(x.message)
<1> DEFINE acked == AckedMessages(e, p.message_id)
<1>1. /\ TypeOK
      /\ \A x \in acked : x \in active_messages[e] /\ x.message_id = p.message_id
  BY DEF DeliveryInv, Bookkeeping, AckedMessages
<1>2. ASSUME restarts[e] = 0, NEW x \in acked
      PROVE  Heard(x.message)
  <2>1. Evidence(e, x.message_id)
    BY <1>1, <1>2 DEF Evidence, ReceiveAck
  <2>2. StandsFor(e, x.message_id, x.message) /\ x.message \in Messages
    BY <1>1, <1>2 DEF StandsFor, TypeOK, ActiveNetworkMessage
  <2> QED
    BY <1>2, <2>1, <2>2 DEF TransportInv, EvidenceTrue
<1>3. \A x \in acked : Source[x.message] = e
  BY <1>1 DEF DeliveryInv, Bookkeeping, ActiveOK
<1>4. \A m \in Messages :
        status'[m] = "succeeded" =>
          \/ status[m] = "succeeded"
          \/ restarts[Source[m]] = 0 => Heard(m)
  BY <1>2, <1>3 DEF ReceiveAck
<1>5. \A s \in Endpoints : active_messages'[s] \subseteq active_messages[s]
  BY <1>1 DEF ReceiveAck, TypeOK
<1>6. UNCHANGED <<network, message_reception_times, restarts, received, cut_off>>
  BY DEF ReceiveAck
<1> QED
  BY <1>2, <1>4, <1>5, <1>6, FewerActive

(* A reboot: nothing is promised for the ids of that endpoint any more.    *)
LEMMA RebootKeeps ==
  ASSUME DeliveryInv, TypeOK', NEW e \in Endpoints, Reboot(e),
         \A q \in DOMAIN network' : IsData(q) => q \in DOMAIN network
  PROVE  /\ restarts'[e] # 0
         /\ \A s \in Endpoints : restarts[s] <= restarts'[s]
         /\ \A s \in Endpoints : restarts'[s] = 0 => s # e /\ restarts[s] = 0
         /\ \A s \in Endpoints : s # e => restarts'[s] = restarts[s]
         /\ \A r \in Endpoints : DOMAIN message_reception_times'[r]
                                    \subseteq DOMAIN message_reception_times[r]
         /\ \A s \in Endpoints : restarts'[s] = 0 =>
              \A id : \A m : StandsFor(s, id, m)' => StandsFor(s, id, m)
         /\ received' = received
         /\ \A m \in Messages :
              status'[m] = "succeeded" => status[m] = "succeeded"
<1>1. TypeOK
  BY DEF DeliveryInv, Bookkeeping
<1>2. /\ restarts'[e] # 0
      /\ \A s \in Endpoints : restarts[s] <= restarts'[s]
      /\ \A s \in Endpoints : s # e => restarts'[s] = restarts[s]
      /\ \A s \in Endpoints : s # e => active_messages'[s] = active_messages[s]
      /\ received' = received
  BY <1>1, ClockAssumption DEF Reboot, TypeOK
<1>3. \A r \in Endpoints :
        DOMAIN message_reception_times'[r] \subseteq DOMAIN message_reception_times[r]
  <2>1. message_reception_times'[e] = << >> /\ DOMAIN << >> = {}
    BY <1>1 DEF Reboot, TypeOK
  <2>2. \A r \in Endpoints :
          r # e => message_reception_times'[r] = message_reception_times[r]
    BY <1>1 DEF Reboot, TypeOK
  <2> QED
    BY <2>1, <2>2
<1>4. \A s \in Endpoints : restarts'[s] = 0 =>
        \A id : \A m : StandsFor(s, id, m)' => StandsFor(s, id, m)
  BY <1>2 DEF StandsFor
<1>5. \A m \in Messages : status'[m] = "succeeded" => status[m] = "succeeded"
  BY DEF Reboot
<1> QED
  BY <1>2, <1>3, <1>4, <1>5

LEMMA TransportRestart ==
  ASSUME DeliveryInv, TypeOK', TransportInv, NEW e \in Endpoints, Restart(e)
  PROVE  TransportInv'
<1>1. TypeOK
  BY DEF DeliveryInv, Bookkeeping
<1>2. Reboot(e) /\ UNCHANGED <<network, cut_off>>
  BY DEF Restart
<1>3. /\ \A s \in Endpoints : restarts[s] <= restarts'[s]
      /\ \A s \in Endpoints : restarts'[s] = 0 => restarts[s] = 0
      /\ \A r \in Endpoints : DOMAIN message_reception_times'[r]
                                 \subseteq DOMAIN message_reception_times[r]
      /\ \A s \in Endpoints : restarts'[s] = 0 =>
           \A id : \A m : StandsFor(s, id, m)' => StandsFor(s, id, m)
      /\ received' = received
      /\ \A m \in Messages :
           status'[m] = "succeeded" => status[m] = "succeeded"
  BY <1>2, RebootKeeps
<1>4. \A s \in Endpoints : \A id : Evidence(s, id)' => Evidence(s, id)
  BY <1>2, <1>3 DEF Evidence
<1>5. \A m \in Messages : received[m] <= received'[m]
  BY <1>1, <1>3 DEF TypeOK
<1> QED
  BY <1>1, <1>2, <1>3, <1>4, <1>5, NothingNew

(* A reboot that cuts a reception off: the acknowledgement is under way,   *)
(* and what the delegate missed is on record.                              *)
LEMMA TransportCutOff ==
  ASSUME DeliveryInv, TypeOK', TransportInv, NEW e \in Endpoints,
         NEW p \in DOMAIN network, RestartWhileReceiving(e, p)
  PROVE  TransportInv'
<1>1. /\ TypeOK /\ IsData(p) /\ p \in Packet
      /\ p.message \in Messages /\ p.src \in Endpoints
      /\ p.src = Source[p.message] /\ Destination[p.message] = e
  BY MessageAssumption
     DEF DeliveryInv, Bookkeeping, TypeOK, PacketsOK, RestartWhileReceiving,
         IsData, Packet
<1>2. /\ Reboot(e) /\ network' = Transmitted({AckPacket(p)})
      /\ cut_off' = cut_off \cup {p.message}
  BY DEF RestartWhileReceiving
<1>3. \A q \in DOMAIN network' : q \in DOMAIN network \/ q = AckPacket(p)
  BY <1>2 DEF Transmitted
<1>4. \A q \in DOMAIN network' : IsData(q) => q \in DOMAIN network
  BY <1>3, AckPacketFields
<1>5. /\ restarts'[e] # 0
      /\ \A s \in Endpoints : restarts[s] <= restarts'[s]
      /\ \A s \in Endpoints : restarts'[s] = 0 => s # e /\ restarts[s] = 0
      /\ \A r \in Endpoints : DOMAIN message_reception_times'[r]
                                 \subseteq DOMAIN message_reception_times[r]
      /\ \A s \in Endpoints : restarts'[s] = 0 =>
           \A id : \A m : StandsFor(s, id, m)' => StandsFor(s, id, m)
      /\ received' = received
      /\ \A m \in Messages :
           status'[m] = "succeeded" => status[m] = "succeeded"
  BY <1>2, <1>4, RebootKeeps
<1>6. \A m \in Messages : Heard(m) => Heard(m)'
  BY <1>2, <1>5 DEF Heard
<1>7. ASSUME NEW s \in Endpoints, NEW id, Evidence(s, id)'
      PROVE  Evidence(s, id) \/ (s = p.src /\ id = p.message_id)
  BY <1>3, <1>5, <1>7, AckPacketFields DEF Evidence
<1>8. StandsFor(p.src, p.message_id, p.message)
  BY <1>1 DEF StandsFor
<1>9. OneMeaning'
  BY <1>5 DEF TransportInv, OneMeaning
<1>10. EvidenceTrue'
  <2> SUFFICES ASSUME NEW s \in Endpoints, restarts[s] = 0, NEW id,
                      NEW m \in Messages, StandsFor(s, id, m),
                      Evidence(s, id) \/ (s = p.src /\ id = p.message_id)
               PROVE  Heard(m)'
    BY <1>5, <1>7 DEF EvidenceTrue
  <2>1. CASE Evidence(s, id)
    BY <1>6, <2>1 DEF TransportInv, EvidenceTrue
  <2>2. CASE s = p.src /\ id = p.message_id
    <3>1. m = p.message
      BY <1>8, <2>2 DEF TransportInv, OneMeaning
    <3> QED
      BY <1>2, <3>1 DEF Heard
  <2> QED
    BY <2>1, <2>2
<1>11. CutOffByReboot'
  <2>1. restarts'[e] > 0
    BY <1>5 DEF TypeOK
  <2> QED
    BY <1>1, <1>2, <1>5, <2>1, MessageAssumption
       DEF TransportInv, CutOffByReboot, TypeOK
<1>12. SuccessMeansDelivered'
  BY <1>1, <1>5, <1>6, <1>11, MessageAssumption
     DEF TransportInv, SuccessMeansDelivered, CutOffByReboot, Heard
<1> QED
  BY <1>9, <1>10, <1>11, <1>12 DEF TransportInv

LEMMA TransportStep == DeliveryInv /\ TransportInv /\ [Next]_vars => TransportInv'
<1> SUFFICES ASSUME DeliveryInv, TransportInv, [Next]_vars PROVE TransportInv'
  OBVIOUS
<1>t. TypeOK /\ TypeOK'
  BY StepTypeOK DEF DeliveryInv, Bookkeeping
<1>0. CASE UNCHANGED vars
  BY <1>0, <1>t, FewerActive DEF vars, handler_vars, history_vars
<1>1. ASSUME NEW m \in Messages, SendMessage(m) PROVE TransportInv'
  BY <1>1, <1>t, TransportSend
<1>2. ASSUME NEW e \in Endpoints,
             \/ \E given \in BOOLEAN : SetUdpInterface(e, given)
             \/ \E t \in ReceptionTimes : SetMaxMessageReceptionTime(e, t)
             \/ On100MsPassedThrows(e)
      PROVE  TransportInv'
  BY <1>2, <1>t, FewerActive
     DEF SetUdpInterface, SetMaxMessageReceptionTime, On100MsPassedThrows,
         history_vars
<1>3. ASSUME NEW e \in Endpoints, NEW S \in SUBSET Messages,
             CancelActiveMessages(e, S)
      PROVE  TransportInv'
  <2>1. \A f \in Endpoints : active_messages'[f] \subseteq active_messages[f]
    BY <1>3, <1>t DEF CancelActiveMessages, TypeOK
  <2> QED
    BY <1>3, <1>t, <2>1, FewerActive DEF CancelActiveMessages
<1>4. ASSUME NEW e \in Endpoints, On100MsPassed(e) PROVE TransportInv'
  BY <1>4, <1>t, TransportTick
<1>5. ASSUME NEW e \in Endpoints, NEW p \in DOMAIN network, ReceiveAck(e, p)
      PROVE  TransportInv'
  BY <1>5, <1>t, TransportAck
<1>6. ASSUME NEW e \in Endpoints, NEW p \in DOMAIN network, ReceiveMessage(e, p)
      PROVE  TransportInv'
  BY <1>6, <1>t, TransportReceive
<1>7. CASE PeriodEnds
  <2>1. /\ DOMAIN network' \subseteq DOMAIN network
        /\ UNCHANGED <<active_messages, message_reception_times, restarts,
             received, status, cut_off>>
    BY <1>7 DEF PeriodEnds, handler_vars, history_vars
  <2>2. \A s \in Endpoints :
          /\ \A id : \A m : StandsFor(s, id, m)' => StandsFor(s, id, m)
          /\ \A id : Evidence(s, id)' => Evidence(s, id)
    BY <2>1 DEF StandsFor, Evidence
  <2>3. /\ \A m \in Messages : received[m] <= received'[m]
        /\ \A e \in Endpoints : restarts[e] <= restarts'[e]
    BY <1>t, <2>1 DEF TypeOK
  <2> QED
    BY <1>t, <2>1, <2>2, <2>3, NothingNew
<1>8. ASSUME NEW e \in Endpoints, Restart(e) PROVE TransportInv'
  BY <1>8, <1>t, TransportRestart
<1>9. ASSUME NEW e \in Endpoints, NEW p \in DOMAIN network,
             RestartWhileReceiving(e, p)
      PROVE  TransportInv'
  BY <1>9, <1>t, TransportCutOff
<1> QED
  BY <1>0, <1>1, <1>2, <1>3, <1>4, <1>5, <1>6, <1>7, <1>8, <1>9
     DEF Next, Heartbeat

(* on_send_succeeded is only called for a message the receiver's delegate  *)
(* has seen, or that the receiver's reboot kept from it right after the    *)
(* acknowledgement, as long as the sender has not rebooted, whatever is    *)
(* lost, late, repeated or reordered and whichever ids others use.         *)
THEOREM SuccessIsTrue == Spec => []SuccessMeansDelivered
<1>1. TransportInv => SuccessMeansDelivered
  BY DEF TransportInv
<1> QED
  BY <1>1, InitDelivery, DeliveryStep, InitTransport, TransportStep, PTL DEF Spec

--------------------------------------------------------------------------------
(* Refinement. *)

(* A delivered message is remembered by its receiver as long as a packet   *)
(* of it can arrive, so a reception that is new delivers for the first     *)
(* time.                                                                   *)
LEMMA FirstDelivery ==
  ASSUME DeliveryInv, NEW e \in Endpoints, NEW p \in DOMAIN network,
         ReceiveMessage(e, p), restarts[e] = 0, ~AlreadyHandled(e, p),
         Source[p.message] \notin interrupted
  PROVE  received[p.message] = 0
<1>1. /\ IsData(p) /\ p.message \in Messages
      /\ p.src = Source[p.message] /\ p.dst = Destination[p.message]
      /\ p.dst = e
  BY DEF DeliveryInv, Bookkeeping, PacketsOK, ReceiveMessage, IsData
<1>2. ~Protected(p.message)
  BY <1>1 DEF Protected, PacketsProtected, Remembered, AlreadyHandled
<1>3. received[p.message] <= 0 /\ received[p.message] \in Nat
  BY <1>1, <1>2 DEF DeliveryInv, DeliveryBounded, Bookkeeping, TypeOK
<1> QED
  BY <1>3

LEMMA ImplementsInit == Init => Promise!Init
BY DEF Init, Promise!Init

LEMMA ImplementsStep ==
  ASSUME \A e \in Endpoints : MaxRestarts[e] = 0,
         \A m \in Messages : Source[m] \notin Interruptible,
         DeliveryInv, TransportInv, [Next]_vars
  PROVE  [Promise!Next]_Promise!vars
<1>1. /\ TypeOK /\ \A e \in Endpoints : restarts[e] = 0
      /\ \A m \in Messages : Source[m] \notin interrupted
  BY DEF DeliveryInv, Bookkeeping, TypeOK
<1>c. cut_off = {}
  <2>1. \A m \in cut_off : m \in Messages /\ restarts[Destination[m]] > 0
    BY <1>1 DEF TypeOK, TransportInv, CutOffByReboot
  <2>2. \A m \in Messages : restarts[Destination[m]] = 0
    BY <1>1, MessageAssumption
  <2> QED
    BY <2>1, <2>2
<1>2. ASSUME UNCHANGED <<status, received>>
      PROVE  UNCHANGED Promise!vars
  BY <1>2 DEF Promise!vars
<1>3. ASSUME NEW m \in Messages, SendMessage(m)
      PROVE  Promise!Next
  BY <1>3 DEF SendMessage, Promise!Next, Promise!Send
<1>4. ASSUME NEW e \in Endpoints, NEW S \in SUBSET Messages,
             CancelActiveMessages(e, S)
      PROVE  Promise!Next
  <2>1. S # {} /\ \A m \in S : status[m] = "pending"
    BY <1>4 DEF CancelActiveMessages, DeliveryInv, Bookkeeping, ActiveOK
  <2>2. Promise!Settle(S, "cancelled")
    BY <1>4, <2>1 DEF CancelActiveMessages, Promise!Settle
  <2> QED
    BY <2>2 DEF Promise!Next, Promise!Outcomes
<1>5. ASSUME NEW e \in Endpoints, On100MsPassed(e)
      PROVE  Promise!Next \/ UNCHANGED <<status, received>>
  <2> DEFINE failed == Discarded(active_messages[e])
  <2>1. /\ status' = [m \in Messages |-> IF m \in failed THEN "failed" ELSE status[m]]
        /\ UNCHANGED received
    BY <1>5 DEF On100MsPassed
  <2>2. failed \subseteq Messages /\ \A m \in failed : status[m] = "pending"
    BY <1>1 DEF DeliveryInv, Bookkeeping, ActiveOK, TypeOK, ActiveNetworkMessage,
       Discarded
  <2> HIDE DEF failed
  <2>3. CASE failed = {}
    BY <1>1, <2>1, <2>3 DEF TypeOK
  <2>4. CASE failed # {}
    <3>1. Promise!Settle(failed, "failed")
      BY <2>1, <2>2, <2>4 DEF Promise!Settle
    <3> QED
      BY <2>2, <3>1 DEF Promise!Next, Promise!Outcomes
  <2> QED
    BY <2>3, <2>4
<1>6. ASSUME NEW e \in Endpoints, NEW p \in DOMAIN network, ReceiveAck(e, p)
      PROVE  Promise!Next \/ UNCHANGED <<status, received>>
  <2> DEFINE acked == AckedMessages(e, p.message_id)
             succeeded == {x.message : x \in acked}
  <2>1. /\ status' = [m \in Messages |->
                        IF m \in succeeded THEN "succeeded" ELSE status[m]]
        /\ UNCHANGED received
    BY <1>6 DEF ReceiveAck
  <2>2. \A x \in acked : /\ x.message \in Messages
                         /\ status[x.message] = "pending"
    BY <1>1 DEF DeliveryInv, Bookkeeping, ActiveOK, TypeOK, ActiveNetworkMessage,
       AckedMessages
  <2>3. \A x \in acked : received[x.message] >= 1
    <3>1. TypeOK'
      BY <1>1, StepTypeOK
    <3> QED
      BY <1>1, <1>c, <1>6, <3>1, TransportAck DEF Heard
  <2>4. \A x \in acked : received[x.message] = 1
    <3>1. ASSUME NEW m \in Messages
          PROVE  received[m] <= 1 /\ received[m] \in Nat
      <4>1. received[m] \in Nat /\ restarts[Destination[m]] = 0
        BY <1>1, MessageAssumption DEF TypeOK
      <4> QED
        BY <1>1, <4>1 DEF DeliveryInv, DeliveryBounded
    <3> QED
      BY <2>2, <2>3, <3>1
  <2>5. /\ succeeded \subseteq Messages
        /\ \A m \in succeeded : status[m] = "pending" /\ received[m] = 1
    BY <2>2, <2>4
  <2> HIDE DEF succeeded
  <2>6. CASE succeeded = {}
    BY <1>1, <2>1, <2>6 DEF TypeOK
  <2>7. CASE succeeded # {}
    <3>1. Promise!Settle(succeeded, "succeeded")
      BY <2>1, <2>5, <2>7 DEF Promise!Settle
    <3> QED
      BY <2>5, <3>1 DEF Promise!Next, Promise!Outcomes
  <2> QED
    BY <2>6, <2>7
<1>7. ASSUME NEW e \in Endpoints, NEW p \in DOMAIN network, ReceiveMessage(e, p)
      PROVE  Promise!Next \/ UNCHANGED <<status, received>>
  <2>1. p.message \in Messages /\ status[p.message] # "unsent"
    BY <1>7 DEF DeliveryInv, Bookkeeping, PacketsOK, ReceiveMessage, IsData
  <2>2. CASE AlreadyHandled(e, p)
    BY <1>1, <1>7, <2>1, <2>2 DEF ReceiveMessage, TypeOK
  <2>3. CASE ~AlreadyHandled(e, p)
    <3>1. received[p.message] = 0
      BY <1>1, <1>7, <2>1, <2>3, FirstDelivery
    <3>2. received' = [received EXCEPT ![p.message] = 1] /\ UNCHANGED status
      BY <1>1, <1>7, <2>1, <2>3, <3>1 DEF ReceiveMessage, TypeOK
    <3>3. Promise!Deliver(p.message)
      BY <2>1, <3>1, <3>2 DEF Promise!Deliver
    <3> QED
      BY <2>1, <3>3 DEF Promise!Next
  <2> QED
    BY <2>2, <2>3
<1>8. ASSUME NEW e \in Endpoints,
             \/ \E given \in BOOLEAN : SetUdpInterface(e, given)
             \/ \E t \in ReceptionTimes : SetMaxMessageReceptionTime(e, t)
             \/ On100MsPassedThrows(e)
      PROVE  UNCHANGED <<status, received>>
  BY <1>8 DEF SetUdpInterface, SetMaxMessageReceptionTime, On100MsPassedThrows,
     history_vars
<1>9. ASSUME NEW e \in Endpoints,
             Restart(e) \/ \E p \in DOMAIN network : RestartWhileReceiving(e, p)
      PROVE  FALSE
  <2>1. Reboot(e)
    BY <1>9 DEF Restart, RestartWhileReceiving
  <2> QED
    BY <1>1, <2>1 DEF Reboot
<1>10. CASE PeriodEnds \/ UNCHANGED vars
  BY <1>2, <1>10 DEF PeriodEnds, vars, history_vars
<1> QED
  BY <1>2, <1>3, <1>4, <1>5, <1>6, <1>7, <1>8, <1>9, <1>10 DEF Next, Heartbeat

(* Without reboots, and while no sender's interface is taken away, the     *)
(* handlers are all that the layers above them see of Transport: one       *)
(* outcome per message, at most one delivery, and success only after it.   *)
THEOREM TransportImplemented ==
  ASSUME \A e \in Endpoints : MaxRestarts[e] = 0,
         \A m \in Messages : Source[m] \notin Interruptible
  PROVE  Spec => ImplementsTransport
<1>1. ASSUME DeliveryInv, TransportInv, [Next]_vars
      PROVE  [Promise!Next]_Promise!vars
  BY <1>1, ImplementsStep
<1> QED
  BY <1>1, ImplementsInit, InitDelivery, DeliveryStep, InitTransport,
     TransportStep, PTL DEF Spec, ImplementsTransport, Promise!Spec

--------------------------------------------------------------------------------
(* The promise when endpoints reboot. *)

(* A step in which one message does one of the things Transport knows of.  *)
LEMMA PromisedSteps ==
  ASSUME NEW m \in Messages,
         \/ status'[m] = status[m] /\ Accepted(m)' = Accepted(m)
         \/ /\ status[m] = "unsent" /\ status'[m] = "pending"
            /\ Accepted(m)' = Accepted(m)
         \/ /\ status[m] = "pending" /\ status'[m] \in Promise!Outcomes
            /\ Accepted(m)' = Accepted(m)
            /\ status'[m] = "succeeded" => Accepted(m) = 1
         \/ /\ Accepted(m) = 0 /\ Accepted(m)' = 1
            /\ status[m] # "unsent" /\ status'[m] = status[m]
  PROVE  UNCHANGED PromiseAbout(m)!vars \/ PromiseAbout(m)!Next
<1>2. CASE status'[m] = status[m] /\ Accepted(m)' = Accepted(m)
  BY <1>2 DEF PromiseAbout!vars
<1>3. CASE /\ status[m] = "unsent" /\ status'[m] = "pending"
           /\ Accepted(m)' = Accepted(m)
  <2>1. PromiseAbout(m)!Send(m)
    BY <1>3 DEF PromiseAbout!Send
  <2> QED
    BY <2>1 DEF PromiseAbout!Next
<1>4. CASE /\ status[m] = "pending" /\ status'[m] \in Promise!Outcomes
           /\ Accepted(m)' = Accepted(m)
           /\ status'[m] = "succeeded" => Accepted(m) = 1
  <2>1. ASSUME NEW outcome \in Promise!Outcomes, outcome = status'[m]
        PROVE  PromiseAbout(m)!Next
    <3>1. PromiseAbout(m)!Settle({m}, outcome)
      BY <1>4, <2>1 DEF PromiseAbout!Settle
    <3>2. outcome \in PromiseAbout(m)!Outcomes
      BY DEF PromiseAbout!Outcomes, Promise!Outcomes
    <3> QED
      BY <3>1, <3>2 DEF PromiseAbout!Next
  <2> QED
    BY <1>4, <2>1
<1>5. CASE /\ Accepted(m) = 0 /\ Accepted(m)' = 1
           /\ status[m] # "unsent" /\ status'[m] = status[m]
  <2>1. PromiseAbout(m)!Deliver(m)
    BY <1>5 DEF PromiseAbout!Deliver
  <2> QED
    BY <2>1 DEF PromiseAbout!Next
<1> QED
  BY <1>2, <1>3, <1>4, <1>5

(* A message is accepted at most once, and it is once it has been heard.   *)
ReceptionsBounded ==
  \A m \in Messages : Source[m] \notin interrupted =>
    /\ received[m] \in Nat
    /\ restarts[Destination[m]] \in Nat
    /\ Accepted(m) \in {0, 1}
    /\ Heard(m) => Accepted(m) = 1

LEMMA DeliveryIsBounded == DeliveryInv => ReceptionsBounded
<1> SUFFICES ASSUME DeliveryInv, NEW m \in Messages, Source[m] \notin interrupted
             PROVE  /\ received[m] \in Nat
                    /\ restarts[Destination[m]] \in Nat
                    /\ Accepted(m) \in {0, 1}
                    /\ Heard(m) => Accepted(m) = 1
  BY DEF ReceptionsBounded
<1>1. /\ received[m] \in Nat
      /\ restarts[Destination[m]] \in Nat
  BY MessageAssumption DEF DeliveryInv, Bookkeeping, TypeOK
<1>2. restarts[Destination[m]] = 0 => received[m] <= 1
  BY <1>1 DEF DeliveryInv, DeliveryBounded
<1> QED
  BY <1>1, <1>2 DEF Accepted, Heard

LEMMA InterruptedStays == [Next]_vars => interrupted \subseteq interrupted'
BY DEF Next, vars, SendMessage, SetUdpInterface, SetMaxMessageReceptionTime,
       CancelActiveMessages, On100MsPassed, On100MsPassedThrows, Heartbeat,
       ReceiveAck, ReceiveMessage, Restart, RestartWhileReceiving, Reboot, PeriodEnds

LEMMA PromisedStep ==
  ASSUME DeliveryInv, TransportInv, [Next]_vars,
         NEW m \in Messages, restarts'[Source[m]] = 0,
         Source[m] \notin interrupted'
  PROVE  UNCHANGED PromiseAbout(m)!vars \/ PromiseAbout(m)!Next
<1>i. Source[m] \notin interrupted
  BY InterruptedStays
<1>1. /\ TransportInv' /\ TypeOK /\ TypeOK'
      /\ ReceptionsBounded /\ ReceptionsBounded'
  <2>1. DeliveryInv' /\ TransportInv' /\ TypeOK /\ TypeOK'
    BY DeliveryStep, TransportStep, StepTypeOK DEF DeliveryInv, Bookkeeping
  <2> QED
    BY <2>1, DeliveryIsBounded, PTL
<1>2. ASSUME received'[m] = received[m], m \in cut_off' <=> m \in cut_off
      PROVE  Accepted(m)' = Accepted(m)
  BY <1>1, <1>i, <1>2 DEF ReceptionsBounded, Accepted, Heard
<1>3. ASSUME UNCHANGED <<status, received, cut_off>>
      PROVE  UNCHANGED PromiseAbout(m)!vars
  BY <1>2, <1>3 DEF PromiseAbout!vars
<1>4. ASSUME NEW x \in Messages, SendMessage(x)
      PROVE  UNCHANGED PromiseAbout(m)!vars \/ PromiseAbout(m)!Next
  <2>1. /\ status[x] = "unsent" /\ UNCHANGED <<received, cut_off>>
        /\ status' = [status EXCEPT ![x] = "pending"]
    BY <1>4 DEF SendMessage
  <2>2. Accepted(m)' = Accepted(m)
    BY <1>2, <2>1
  <2>3. \/ status'[m] = status[m]
        \/ status[m] = "unsent" /\ status'[m] = "pending"
    BY <1>1, <2>1 DEF TypeOK
  <2> QED
    BY <2>2, <2>3, PromisedSteps
(* A step that tells the outcome of the messages in S. *)
<1>5. ASSUME NEW S, NEW outcome \in Promise!Outcomes,
             UNCHANGED <<received, cut_off, restarts>>,
             status' = [x \in Messages |-> IF x \in S THEN outcome ELSE status[x]],
             \A x \in S : status[x] = "pending"
      PROVE  UNCHANGED PromiseAbout(m)!vars \/ PromiseAbout(m)!Next
  <2>1. Accepted(m)' = Accepted(m)
    BY <1>2, <1>5
  <2>2. status'[m] = "succeeded" => Accepted(m) = 1
    <3>1. status'[m] = "succeeded" => Heard(m)
      BY <1>1, <1>5 DEF TransportInv, SuccessMeansDelivered, Heard
    <3> QED
      BY <1>1, <1>i, <3>1 DEF ReceptionsBounded
  <2>3. CASE m \in S
    BY <1>5, <2>1, <2>2, <2>3, PromisedSteps
  <2>4. CASE m \notin S
    BY <1>5, <2>1, <2>4, PromisedSteps
  <2> QED
    BY <2>3, <2>4
<1>6. ASSUME NEW e \in Endpoints, NEW S \in SUBSET Messages,
             CancelActiveMessages(e, S)
      PROVE  UNCHANGED PromiseAbout(m)!vars \/ PromiseAbout(m)!Next
  <2>1. \A x \in S : status[x] = "pending"
    BY <1>6 DEF CancelActiveMessages, DeliveryInv, Bookkeeping, ActiveOK
  <2> QED
    BY <1>5, <1>6, <2>1 DEF CancelActiveMessages, Promise!Outcomes
<1>7. ASSUME NEW e \in Endpoints, On100MsPassed(e)
      PROVE  UNCHANGED PromiseAbout(m)!vars \/ PromiseAbout(m)!Next
  <2> DEFINE failed == Discarded(active_messages[e])
  <2>1. /\ status' = [x \in Messages |-> IF x \in failed THEN "failed" ELSE status[x]]
        /\ UNCHANGED <<received, cut_off, restarts>>
    BY <1>7 DEF On100MsPassed
  <2>2. \A x \in failed : status[x] = "pending"
    BY <1>1 DEF DeliveryInv, Bookkeeping, ActiveOK, Discarded
  <2> QED
    BY <1>5, <2>1, <2>2 DEF Promise!Outcomes
<1>8. ASSUME NEW e \in Endpoints, NEW p \in DOMAIN network, ReceiveAck(e, p)
      PROVE  UNCHANGED PromiseAbout(m)!vars \/ PromiseAbout(m)!Next
  <2> DEFINE succeeded == {x.message : x \in AckedMessages(e, p.message_id)}
  <2>1. /\ status' = [x \in Messages |->
                        IF x \in succeeded THEN "succeeded" ELSE status[x]]
        /\ UNCHANGED <<received, cut_off, restarts>>
    BY <1>8 DEF ReceiveAck
  <2>2. \A x \in succeeded : status[x] = "pending"
    BY <1>1 DEF DeliveryInv, Bookkeeping, ActiveOK, AckedMessages
  <2> QED
    BY <1>5, <2>1, <2>2 DEF Promise!Outcomes
<1>9. ASSUME NEW e \in Endpoints, NEW p \in DOMAIN network, ReceiveMessage(e, p)
      PROVE  UNCHANGED PromiseAbout(m)!vars \/ PromiseAbout(m)!Next
  <2>1. /\ p.message \in Messages /\ status[p.message] # "unsent"
        /\ p.dst = Destination[p.message] /\ p.dst = e
    BY <1>9 DEF DeliveryInv, Bookkeeping, PacketsOK, ReceiveMessage, IsData
  <2>2. /\ UNCHANGED <<status, restarts, cut_off>>
        /\ received' = [received EXCEPT
                          ![p.message] = IF AlreadyHandled(e, p) THEN @ ELSE @ + 1]
    BY <1>9 DEF ReceiveMessage
  <2>3. CASE received'[m] = received[m]
    BY <1>2, <2>2, <2>3, PromisedSteps
  <2>4. CASE received'[m] # received[m]
    <3>1. /\ p.message = m /\ ~AlreadyHandled(e, p)
          /\ received'[m] = received[m] + 1
      BY <1>1, <2>2, <2>4 DEF TypeOK
    <3>2. restarts[e] = 0 => received[m] = 0
      BY <1>i, <1>9, <3>1, FirstDelivery
    <3>3. Accepted(m)' = 1
      BY <1>1, <3>1 DEF ReceptionsBounded, Heard, TypeOK
    <3>4. CASE ~Heard(m)
      <4>1. Accepted(m) = 0
        BY <1>1, <1>i, <3>4 DEF ReceptionsBounded, Accepted, Heard
      <4> QED
        BY <2>1, <2>2, <3>1, <3>3, <4>1, PromisedSteps
    <3>5. CASE Heard(m)
      <4>1. Accepted(m) = 1
        BY <1>1, <1>i, <3>5 DEF ReceptionsBounded
      <4> QED
        BY <2>2, <3>3, <4>1, PromisedSteps
    <3> QED
      BY <3>4, <3>5
  <2> QED
    BY <2>3, <2>4
<1>10. ASSUME NEW e \in Endpoints,
              \/ \E given \in BOOLEAN : SetUdpInterface(e, given)
              \/ \E t \in ReceptionTimes : SetMaxMessageReceptionTime(e, t)
              \/ On100MsPassedThrows(e)
       PROVE  UNCHANGED <<status, received, cut_off>>
  BY <1>10 DEF SetUdpInterface, SetMaxMessageReceptionTime, On100MsPassedThrows,
     history_vars
(* Whoever reboots, it is not the sender of m. *)
<1>11. ASSUME NEW e \in Endpoints, Reboot(e)
       PROVE  status'[m] = status[m] /\ received'[m] = received[m]
  <2>1. e # Source[m]
    BY <1>1, <1>11, MessageAssumption DEF Reboot, TypeOK
  <2>2. \A x \in active_messages[e] : x.message # m
    BY <2>1 DEF DeliveryInv, Bookkeeping, ActiveOK
  <2> QED
    BY <1>11, <2>2 DEF Reboot
<1>13. ASSUME NEW e \in Endpoints, Restart(e)
       PROVE  UNCHANGED PromiseAbout(m)!vars
  BY <1>2, <1>11, <1>13 DEF Restart, PromiseAbout!vars
<1>14. ASSUME NEW e \in Endpoints, NEW p \in DOMAIN network,
              RestartWhileReceiving(e, p)
       PROVE  UNCHANGED PromiseAbout(m)!vars \/ PromiseAbout(m)!Next
  <2>1. /\ cut_off' = cut_off \cup {p.message}
        /\ status'[m] = status[m] /\ received'[m] = received[m]
    BY <1>11, <1>14 DEF RestartWhileReceiving
  <2>2. status[p.message] # "unsent"
    BY <1>14 DEF DeliveryInv, Bookkeeping, PacketsOK, RestartWhileReceiving, IsData
  <2>3. CASE m \in cut_off' <=> m \in cut_off
    BY <1>2, <2>1, <2>3, PromisedSteps
  <2>4. CASE p.message = m /\ m \notin cut_off
    <3>1. Accepted(m)' = 1
      BY <2>1, <2>4 DEF Accepted
    <3>2. Accepted(m) \in {0, 1}
      BY <1>1, <1>i DEF ReceptionsBounded
    <3> QED
      BY <2>1, <2>2, <2>4, <3>1, <3>2, PromisedSteps
  <2> QED
    BY <2>1, <2>3, <2>4
<1>12. CASE PeriodEnds \/ UNCHANGED vars
  BY <1>3, <1>12 DEF PeriodEnds, vars, history_vars
<1> QED
  BY <1>3, <1>4, <1>6, <1>7, <1>8, <1>9, <1>10, <1>12, <1>13, <1>14
     DEF Next, Heartbeat

(* Reboots take nothing of the promise away from the messages of the       *)
(* senders that have not rebooted: one outcome each, at most one delivery  *)
(* between two reboots of the receiver, and success only after one, or     *)
(* after a reception that the receiver's reboot cut off.                   *)
THEOREM PromiseOutlives == Spec => PromiseOutlivesReboots
<1>1. ASSUME DeliveryInv, TransportInv, [Next]_vars
      PROVE  [\A m \in Messages :
                restarts'[Source[m]] = 0 /\ Source[m] \notin interrupted' =>
                  UNCHANGED PromiseAbout(m)!vars \/ PromiseAbout(m)!Next]_vars
  BY <1>1, PromisedStep
<1> QED
  BY <1>1, InitDelivery, DeliveryStep, InitTransport, TransportStep,
     PTL DEF Spec, PromiseOutlivesReboots

================================================================================
