------------------------------ MODULE LayersProofs -----------------------------
(***************************************************************************)
(* Proofs about Layers: the messages of any number of Synchronizers are    *)
(* sent, delivered and given up as Transport has it.                       *)
(***************************************************************************)
EXTENDS Layers, SynchronizerProofs

Outcomes == {"succeeded", "failed", "cancelled"}

(* The inductive invariant: what is recorded of a message agrees with what *)
(* the nodes and the network remember of it.  At its sender ...            *)
StatusAgrees(m) ==
  /\ status[m] \in {"pending"} \cup Outcomes
  /\ m \in active_messages => restarts[m.src] = 0 /\ status[m] = "pending"
  /\ restarts[m.src] = 0 /\ status[m] = "pending" => m \in active_messages

(* ... at its receiver, and in between.                                    *)
ReceivedAgrees(m) ==
  /\ received[m] \in Nat
  /\ m \in arrived => received[m] > 0
  /\ m \in active_messages /\ received[m] > 0 => m \in arrived
  /\ restarts[m.dst] = 0 =>
       received[m] <= 1 /\ (received[m] = 1 /\ m \in Present => m \in handled)
  /\ restarts[m.src] = 0 /\ m \in handled => received[m] > 0

StillUnderWay(m) ==
  ~Lossy /\ m.type # "dereg" /\ restarts[m.src] = 0 /\ received[m] = 0
    => m \in UnderWay

HistoryInv ==
  /\ DOMAIN received = Followed
  /\ handled \subseteq Present
  /\ \A m \in Present : restarts[m.src] = 0 => m \in Followed
  /\ \A m \in Followed : m \in SentMessage /\ m.number < sent[m.src]
  /\ \A m \in Followed : StatusAgrees(m)
  /\ \A m \in Followed : ReceivedAgrees(m)
  /\ \A m \in Followed : StillUnderWay(m)

LayersInv == SynchronizerInv /\ HistoryInv

(* What the steps of Synchronizer have in common, each for the messages M  *)
(* it sends and the messages D it delivers.                                *)
NodesStep ==
  /\ sent' \in [Endpoints -> Nat]
  /\ \A n \in Endpoints : sent[n] <= sent'[n]
  /\ \A n \in Endpoints : restarts'[n] = 0 => restarts[n] = 0

SenderStep(M) ==
  /\ active_messages' \subseteq active_messages \cup M
  /\ \A m \in active_messages' : restarts'[m.src] = restarts[m.src]
  /\ M \subseteq SentMessage
  /\ \A m \in M : m.number = sent[m.src] /\ sent[m.src] < sent'[m.src]

ReceiverStep(D) ==
  /\ D \subseteq Present
  /\ D \cap handled = {}
  /\ D \cap active_messages \subseteq active_messages'
  /\ handled' \subseteq Present'
  /\ \A m \in Present' :
       restarts'[m.dst] = 0 /\ m \in handled \cup D => m \in handled'
  /\ \A m \in handled' : restarts'[m.src] = 0 => m \in handled \cup D
  /\ \A m \in arrived' : restarts'[m.src] = 0 => m \in arrived \cup D
  /\ \A m \in Followed \cap active_messages' :
       m \in arrived \cup D => m \in arrived'

NetworkStep(M, D) ==
  /\ Present' \subseteq Present \cup M
  /\ ~Lossy =>
       \A m \in SentMessage \ D :
         /\ restarts'[m.src] = 0
         /\ m \in UnderWay \/ (m \in M /\ m.type # "dereg")
         => m \in UnderWay'

MessagesStep(M, D) ==
  NodesStep /\ SenderStep(M) /\ ReceiverStep(D) /\ NetworkStep(M, D)

(* The outcome of those given up.  Messages are only sent in steps that    *)
(* cancel others; a reboot gives up those of the node that reboots.        *)
GivesUp(outcome, M) ==
  /\ outcome \in Outcomes \cup {"pending"}
  /\ M # {} => outcome = "cancelled"
  /\ outcome = "pending" =>
       \A m \in active_messages \ active_messages' : restarts'[m.src] # 0
  /\ outcome = "succeeded" =>
       \A m \in active_messages \ active_messages' :
         restarts[m.src] = 0 => m \in arrived

--------------------------------------------------------------------------------
(* One message. *)

LEMMA WhatIsRecorded ==
  ASSUME NEW outcome, NEW D, Recorded(outcome, D)
  PROVE  /\ Followed' = Followed \cup {m \in Present' : restarts'[m.src] = 0}
         /\ DOMAIN received' = Followed'
         /\ \A m \in Followed' :
              /\ m \in active_messages' => status'[m] = "pending"
              /\ m \notin active_messages' /\ (m \in active_messages \/ m \notin Followed)
                   => status'[m] = outcome
              /\ m \notin active_messages' /\ m \notin active_messages /\ m \in Followed
                   => status'[m] = status[m]
              /\ received'[m] = (IF m \in Followed THEN received[m] ELSE 0)
                                  + (IF m \in D THEN 1 ELSE 0)
BY DEF Recorded, Followed

(* A message that was not followed before is one that the step sends.      *)
LEMMA NewMessage ==
  ASSUME LayersInv, NEW M, NEW D, MessagesStep(M, D),
         NEW outcome, GivesUp(outcome, M), Recorded(outcome, D),
         NEW m \in Followed', m \notin Followed
  PROVE  /\ m \in M /\ m \in SentMessage /\ m.number < sent'[m.src]
         /\ m \notin Present /\ m \notin D
         /\ restarts'[m.src] = 0
         /\ outcome = "cancelled" /\ received'[m] = 0
<1>1. m \in Present' /\ restarts'[m.src] = 0
  BY WhatIsRecorded
<1>2. m \in M \/ m \in Present
  BY <1>1 DEF MessagesStep, NetworkStep
<1>3. m \in M => m \in SentMessage /\ m.src \in Endpoints
  BY DEF MessagesStep, SenderStep, SentMessage, Message
<1>4. m \in Present => m.src \in Endpoints
  <2>1. Present \subseteq SentMessage
    BY DEF LayersInv, SynchronizerInv, MessagesInv, Present, UnderWay, Packet
  <2> QED
    BY <2>1 DEF SentMessage, Message
<1>5. restarts[m.src] = 0
  BY <1>1, <1>2, <1>3, <1>4 DEF MessagesStep, NodesStep
<1>6. m \notin Present
  BY <1>5 DEF LayersInv, HistoryInv
<1>7. m \in M /\ m \notin D
  BY <1>2, <1>6 DEF MessagesStep, ReceiverStep
<1>8. received'[m] = 0
  BY <1>7, WhatIsRecorded
<1>9. m.number < sent'[m.src]
  BY <1>7 DEF MessagesStep, SenderStep
<1> QED
  BY <1>1, <1>3, <1>6, <1>7, <1>8, <1>9 DEF GivesUp

(* No step sends a message that was sent before: numbers are not reused.   *)
LEMMA OldMessage ==
  ASSUME LayersInv, NEW M, NEW D, MessagesStep(M, D), NEW m \in Followed
  PROVE  /\ m \notin M /\ m \in SentMessage /\ m.src \in Endpoints /\ m.dst \in Endpoints
         /\ m.number < sent'[m.src]
         /\ m \in active_messages' => m \in active_messages
         /\ m \in Present' => m \in Present
<1>1. m \in SentMessage /\ m.number < sent[m.src]
  BY DEF LayersInv, HistoryInv
<1>2. m.src \in Endpoints /\ m.dst \in Endpoints /\ m.number \in Nat
  BY <1>1 DEF SentMessage, Message
<1>3. sent[m.src] \in Nat /\ sent'[m.src] \in Nat /\ sent[m.src] <= sent'[m.src]
  BY <1>2 DEF LayersInv, SynchronizerInv, MessagesInv, MessagesStep, NodesStep
<1>4. m \notin M
  BY <1>1, <1>2, <1>3 DEF MessagesStep, SenderStep
<1> QED
  BY <1>1, <1>2, <1>3, <1>4 DEF MessagesStep, SenderStep, NetworkStep

LEMMA StatusStep ==
  ASSUME LayersInv, NEW M, NEW D, MessagesStep(M, D),
         NEW outcome, GivesUp(outcome, M), Recorded(outcome, D),
         NEW m \in Followed'
  PROVE  StatusAgrees(m)'
<1>1. CASE m \notin Followed
  <2>1. /\ restarts'[m.src] = 0 /\ outcome = "cancelled"
        /\ m \notin active_messages
    BY <1>1, NewMessage DEF Present
  <2> QED
    BY <1>1, <2>1, WhatIsRecorded DEF StatusAgrees, Outcomes
<1>2. CASE m \in Followed
  <2>1. m.src \in Endpoints /\ (m \in active_messages' => m \in active_messages)
    BY <1>2, OldMessage
  <2>2. restarts'[m.src] = 0 => restarts[m.src] = 0
    BY <2>1 DEF MessagesStep, NodesStep
  <2>3. StatusAgrees(m)
    BY <1>2 DEF LayersInv, HistoryInv
  <2>4. CASE m \in active_messages'
    BY <2>1, <2>3, <2>4, WhatIsRecorded DEF StatusAgrees, MessagesStep, SenderStep
  <2>5. CASE m \notin active_messages' /\ m \in active_messages
    BY <2>5, WhatIsRecorded DEF StatusAgrees, GivesUp, Outcomes
  <2>6. CASE m \notin active_messages' /\ m \notin active_messages
    BY <1>2, <2>2, <2>3, <2>6, WhatIsRecorded DEF StatusAgrees
  <2> QED
    BY <2>4, <2>5, <2>6
<1> QED
  BY <1>1, <1>2

LEMMA DeliveryIsFirst ==
  ASSUME LayersInv, NEW M, NEW D, MessagesStep(M, D),
         NEW m \in Followed, m \in D, restarts[m.dst] = 0
  PROVE  received[m] = 0
<1>1. ReceivedAgrees(m) /\ m \in Present /\ m \notin handled
  BY DEF LayersInv, HistoryInv, MessagesStep, ReceiverStep
<1> QED
  BY <1>1 DEF ReceivedAgrees

LEMMA ReceivedStep ==
  ASSUME LayersInv, SynchronizerInv', NEW M, NEW D, MessagesStep(M, D),
         NEW outcome, GivesUp(outcome, M), Recorded(outcome, D),
         NEW m \in Followed'
  PROVE  ReceivedAgrees(m)' /\ StillUnderWay(m)'
<1>0. arrived' \subseteq active_messages' /\ arrived \subseteq active_messages
  BY DEF LayersInv, SynchronizerInv, MessagesInv
<1>1. CASE m \notin Followed
  <2>1. /\ m \in M /\ m \in SentMessage /\ m \notin Present /\ m \notin D
        /\ restarts'[m.src] = 0 /\ received'[m] = 0
    BY <1>1, NewMessage
  <2>2. m \notin arrived /\ m \notin handled
    BY <1>0, <2>1 DEF Present, LayersInv, HistoryInv
  <2>3. m \notin arrived' /\ m \notin handled'
    BY <2>1, <2>2 DEF MessagesStep, ReceiverStep
  <2>4. ReceivedAgrees(m)'
    BY <2>1, <2>3 DEF ReceivedAgrees
  <2>5. StillUnderWay(m)'
    BY <2>1 DEF StillUnderWay, MessagesStep, NetworkStep
  <2> QED
    BY <2>4, <2>5
<1>2. CASE m \in Followed
  <2>1. /\ m \in SentMessage /\ m.src \in Endpoints /\ m.dst \in Endpoints
        /\ m \in active_messages' => m \in active_messages
        /\ m \in Present' => m \in Present
    BY <1>2, OldMessage
  <2>2. /\ restarts'[m.src] = 0 => restarts[m.src] = 0
        /\ restarts'[m.dst] = 0 => restarts[m.dst] = 0
    BY <2>1 DEF MessagesStep, NodesStep
  <2>3. ReceivedAgrees(m) /\ StillUnderWay(m) /\ received[m] \in Nat
    BY <1>2 DEF LayersInv, HistoryInv, ReceivedAgrees
  <2>4. received'[m] = received[m] + (IF m \in D THEN 1 ELSE 0)
    BY <1>2, WhatIsRecorded
  <2>5. received'[m] \in Nat
    BY <2>3, <2>4
  <2>6. m \in arrived' => received'[m] > 0
    <3>1. ASSUME m \in arrived'
          PROVE  restarts'[m.src] = 0
      BY <1>0, <3>1, StatusStep DEF StatusAgrees
    <3> QED
      BY <2>3, <2>4, <3>1 DEF ReceivedAgrees, MessagesStep, ReceiverStep
  <2>7. m \in active_messages' /\ received'[m] > 0 => m \in arrived'
    <3>1. received'[m] > 0 => received[m] > 0 \/ m \in D
      BY <2>3, <2>4
    <3> QED
      BY <1>2, <2>1, <2>3, <3>1 DEF ReceivedAgrees, MessagesStep, ReceiverStep
  <2>8. restarts'[m.dst] = 0 =>
          received'[m] <= 1 /\ (received'[m] = 1 /\ m \in Present' => m \in handled')
    <3>1. CASE m \in D
      BY <1>2, <2>2, <2>4, <3>1, DeliveryIsFirst DEF MessagesStep, ReceiverStep
    <3>2. CASE m \notin D
      BY <2>1, <2>2, <2>3, <2>4, <3>2 DEF ReceivedAgrees, MessagesStep, ReceiverStep
    <3> QED
      BY <3>1, <3>2
  <2>9. restarts'[m.src] = 0 /\ m \in handled' => received'[m] > 0
    BY <2>2, <2>3, <2>4 DEF ReceivedAgrees, MessagesStep, ReceiverStep
  <2>10. StillUnderWay(m)'
    <3>1. received'[m] = 0 => received[m] = 0 /\ m \notin D
      BY <2>3, <2>4
    <3> QED
      BY <2>1, <2>2, <2>3, <3>1 DEF StillUnderWay, MessagesStep, NetworkStep
  <2> QED
    BY <2>5, <2>6, <2>7, <2>8, <2>9, <2>10 DEF ReceivedAgrees
<1> QED
  BY <1>1, <1>2

(* Every step keeps the record in agreement. *)
LEMMA HistoryStep ==
  ASSUME LayersInv, SynchronizerInv', NEW M, NEW D, MessagesStep(M, D),
         NEW outcome, GivesUp(outcome, M), Recorded(outcome, D)
  PROVE  LayersInv'
<1>1. (DOMAIN received)' = Followed'
  BY WhatIsRecorded
<1>2. handled' \subseteq Present'
  BY DEF MessagesStep, ReceiverStep
<1>3. \A m \in Present' : restarts'[m.src] = 0 => m \in Followed'
  BY WhatIsRecorded
<1>4. SentMessage' = SentMessage
  BY DEF SentMessage, Message
<1>5. ASSUME NEW m \in Followed'
      PROVE  m \in SentMessage /\ m.number < sent'[m.src]
  <2>1. CASE m \in Followed
    BY <2>1, OldMessage
  <2>2. CASE m \notin Followed
    BY <2>2, NewMessage
  <2> QED
    BY <2>1, <2>2
<1>6. \A m \in Followed' : StatusAgrees(m)'
  BY StatusStep
<1>7. \A m \in Followed' : ReceivedAgrees(m)' /\ StillUnderWay(m)'
  BY ReceivedStep
<1> QED
  BY <1>1, <1>2, <1>3, <1>4, <1>5, <1>6, <1>7 DEF LayersInv, HistoryInv

--------------------------------------------------------------------------------
(* The promise. *)

(* A step of Transport, told by what it does to one message. *)
LEMMA TransportSteps ==
  ASSUME NEW m,
         \/ StatusOf(m)' = StatusOf(m) /\ Receptions(m)' = Receptions(m)
         \/ /\ StatusOf(m) = "unsent" /\ StatusOf(m)' = "pending"
            /\ Receptions(m)' = Receptions(m)
         \/ /\ StatusOf(m) = "pending" /\ StatusOf(m)' \in Outcomes
            /\ Receptions(m)' = Receptions(m)
            /\ StatusOf(m)' = "succeeded" => Receptions(m) = 1
         \/ /\ Receptions(m) = 0 /\ Receptions(m)' = 1
            /\ StatusOf(m) # "unsent" /\ StatusOf(m)' = StatusOf(m)
  PROVE  UNCHANGED Promise(m)!vars \/ Promise(m)!Next
<1>1. CASE StatusOf(m)' = StatusOf(m) /\ Receptions(m)' = Receptions(m)
  BY <1>1 DEF Promise!vars
<1>2. CASE /\ StatusOf(m) = "unsent" /\ StatusOf(m)' = "pending"
           /\ Receptions(m)' = Receptions(m)
  <2>1. Promise(m)!Send(m)
    BY <1>2 DEF Promise!Send
  <2> QED
    BY <2>1 DEF Promise!Next
<1>3. CASE /\ StatusOf(m) = "pending" /\ StatusOf(m)' \in Outcomes
           /\ Receptions(m)' = Receptions(m)
           /\ StatusOf(m)' = "succeeded" => Receptions(m) = 1
  <2>1. ASSUME NEW outcome \in Outcomes, outcome = StatusOf(m)'
        PROVE  Promise(m)!Next
    <3>1. Promise(m)!Settle({m}, outcome)
      BY <1>3, <2>1 DEF Promise!Settle
    <3>2. outcome \in Promise(m)!Outcomes
      BY DEF Promise!Outcomes, Outcomes
    <3> QED
      BY <3>1, <3>2 DEF Promise!Next
  <2> QED
    BY <1>3, <2>1
<1>4. CASE /\ Receptions(m) = 0 /\ Receptions(m)' = 1
           /\ StatusOf(m) # "unsent" /\ StatusOf(m)' = StatusOf(m)
  <2>1. Promise(m)!Deliver(m)
    BY <1>4 DEF Promise!Deliver
  <2> QED
    BY <2>1 DEF Promise!Next
<1> QED
  BY <1>1, <1>2, <1>3, <1>4

(* A message that is followed is received once, unless it is forgotten.    *)
OnceReceived ==
  \A m \in Followed :
    /\ received[m] \in Nat
    /\ received[m] = 0 => Receptions(m) = 0
    /\ received[m] > 0 => Receptions(m) = 1

LEMMA FollowedOnceReceived == LayersInv => OnceReceived
<1> SUFFICES ASSUME LayersInv, NEW m \in Followed
             PROVE  /\ received[m] \in Nat
                    /\ received[m] = 0 => Receptions(m) = 0
                    /\ received[m] > 0 => Receptions(m) = 1
  BY DEF OnceReceived
<1>1. ReceivedAgrees(m) /\ m \in SentMessage
  BY DEF LayersInv, HistoryInv
<1>2. restarts[m.dst] \in Nat
  BY <1>1 DEF SentMessage, Message, LayersInv, SynchronizerInv, SettingsType
<1> QED
  BY <1>1, <1>2 DEF Receptions, ReceivedAgrees

LEMMA PromiseStep ==
  ASSUME LayersInv, LayersInv', NEW M, NEW D, MessagesStep(M, D),
         NEW outcome, GivesUp(outcome, M), Recorded(outcome, D),
         NEW m \in Followed'
  PROVE  UNCHANGED Promise(m)!vars \/ Promise(m)!Next \/ SentAndCancelled(m)
<1>0. /\ received'[m] \in Nat
      /\ received'[m] = 0 => Receptions(m)' = 0
      /\ received'[m] > 0 => Receptions(m)' = 1
      /\ StatusOf(m)' = status'[m]
  <2>1. OnceReceived'
    BY FollowedOnceReceived, PTL
  <2> QED
    BY <2>1 DEF OnceReceived, StatusOf
<1>1. CASE m \notin Followed
  <2>1. outcome = "cancelled" /\ received'[m] = 0 /\ m \notin active_messages
    BY <1>1, NewMessage DEF Present
  <2>2. StatusOf(m) = "unsent" /\ Receptions(m) = 0
    BY <1>1 DEF StatusOf, Receptions
  <2>3. CASE m \in active_messages'
    BY <1>0, <2>1, <2>2, <2>3, WhatIsRecorded, TransportSteps
  <2>4. CASE m \notin active_messages'
    BY <1>0, <1>1, <2>1, <2>2, <2>4, WhatIsRecorded DEF SentAndCancelled
  <2> QED
    BY <2>3, <2>4
<1>2. CASE m \in Followed
  <2>1. /\ received[m] \in Nat
        /\ received[m] = 0 => Receptions(m) = 0
        /\ received[m] > 0 => Receptions(m) = 1
    BY <1>2, FollowedOnceReceived DEF OnceReceived
  <2>2. StatusOf(m) = status[m] /\ StatusAgrees(m)
    BY <1>2 DEF StatusOf, LayersInv, HistoryInv
  <2>3. received'[m] = received[m] + (IF m \in D THEN 1 ELSE 0)
    BY <1>2, WhatIsRecorded
  <2>4. CASE status'[m] = status[m]
    <3>1. StatusOf(m) # "unsent" /\ StatusOf(m)' = StatusOf(m)
      BY <1>0, <2>2, <2>4 DEF StatusAgrees, Outcomes
    <3>2. Receptions(m)' = Receptions(m) \/ (Receptions(m) = 0 /\ Receptions(m)' = 1)
      BY <1>0, <2>1, <2>3
    <3> QED
      BY <3>1, <3>2, TransportSteps
  <2>5. CASE status'[m] # status[m]
    <3>1. m \in active_messages /\ m \notin active_messages' /\ status'[m] = outcome
      BY <1>2, <2>2, <2>5, OldMessage, WhatIsRecorded DEF StatusAgrees
    <3>2. status[m] = "pending" /\ restarts[m.src] = 0 /\ outcome \in Outcomes
      BY <2>2, <2>5, <3>1 DEF StatusAgrees, GivesUp
    <3>3. Receptions(m)' = Receptions(m)
      <4>1. m \notin D
        BY <3>1 DEF MessagesStep, ReceiverStep
      <4> QED
        BY <1>0, <2>1, <2>3, <4>1
    <3>4. outcome = "succeeded" => Receptions(m) = 1
      <4>1. outcome = "succeeded" => m \in arrived
        BY <3>1, <3>2 DEF GivesUp
      <4>2. ReceivedAgrees(m)
        BY <1>2 DEF LayersInv, HistoryInv
      <4> QED
        BY <2>1, <4>1, <4>2 DEF ReceivedAgrees
    <3> QED
      BY <1>0, <2>2, <3>1, <3>2, <3>3, <3>4, TransportSteps
  <2> QED
    BY <2>4, <2>5
<1> QED
  BY <1>1, <1>2

--------------------------------------------------------------------------------
(* The steps of Synchronizer. *)

LEMMA SentPackets ==
  ASSUME NEW M
  PROVE  {p.message : p \in PacketsOf(M)} = {m \in M : m.type # "dereg"}
<1>1. \A m : PacketOf(m).message = m
  BY DEF PacketOf
<1> QED
  BY <1>1 DEF PacketsOf

(* A step that sends M, of which it cancels some, and delivers nothing.    *)
LEMMA SentMessagesStep ==
  ASSUME LayersInv, SynchronizerInv', NEW n \in Endpoints,
         NEW cancelled, NEW M \in SUBSET SentMessage, NEW kept \in SUBSET M,
         \A m \in M : m.src = n /\ m.number = sent[n],
         Sent(n, cancelled, M, kept), UNCHANGED restarts
  PROVE  MessagesStep(M, {})
<1>1. SynchronizerInv /\ MessagesInv /\ sent \in [Endpoints -> Nat]
  BY DEF LayersInv, SynchronizerInv, MessagesInv
<1>2. NodesStep
  <2>1. sent' \in [Endpoints -> Nat]
    BY DEF SynchronizerInv, MessagesInv
  <2> QED
    BY <1>1, <2>1 DEF NodesStep, Sent
<1>3. SenderStep(M)
  BY <1>1 DEF SenderStep, Sent
<1>4. UnderWay' = UnderWay \cup {m \in M : m.type # "dereg"}
  <2>1. {p.message : p \in PacketsOf(M)} = {m \in M : m.type # "dereg"}
    BY SentPackets
  <2> QED
    BY <2>1 DEF UnderWay, Sent
<1>5. ReceiverStep({})
  <2>1. handled' = {m \in handled : m \in Present'}
    BY DEF Sent, Remembered, Present, UnderWay
  <2>2. arrived' \subseteq arrived
    BY DEF Sent
  <2>3. ASSUME NEW m \in Followed, m \in active_messages', m \in arrived
        PROVE  m \in arrived'
    <3>1. m.src \in Endpoints /\ m.number \in Nat /\ m.number < sent[m.src]
      BY DEF LayersInv, HistoryInv, SentMessage, Message
    <3>2. m \notin M
      BY <1>1, <3>1
    <3> QED
      BY <2>3, <3>2 DEF Sent
  <2> QED
    BY <2>1, <2>2, <2>3 DEF ReceiverStep
<1>6. NetworkStep(M, {})
  BY <1>4 DEF NetworkStep, Present, Sent
<1> QED
  BY <1>2, <1>3, <1>5, <1>6 DEF MessagesStep

(* Steps that neither send nor receive. *)
LEMMA QuietStep ==
  ASSUME LayersInv, UNCHANGED <<message_vars, restarts>>
  PROVE  MessagesStep({}, {})
<1>1. UNCHANGED <<Present, UnderWay>>
  BY DEF message_vars, Present, UnderWay
<1>2. /\ UNCHANGED <<active_messages, arrived, handled, sent, restarts>>
      /\ sent \in [Endpoints -> Nat]
      /\ handled \subseteq Present
  BY DEF message_vars, LayersInv, HistoryInv, SynchronizerInv, MessagesInv
<1> QED
  BY <1>1, <1>2
     DEF MessagesStep, NodesStep, SenderStep, ReceiverStep, NetworkStep

LEMMA CommitScanResultsSends ==
  ASSUME LayersInv, SynchronizerInv', NEW n \in Endpoints,
         NEW answers \in SUBSET Advertisers(n), CommitScanResults(n, answers)
  PROVE  \E M : MessagesStep(M, {})
<1> DEFINE new == NewEndpoints(n, answers)
           own == own_synchronizables[n]
           M == SyncMessages(n, new, own) \cup Requests(n, new)
<1>1. SettingsType /\ MessagesInv
  BY DEF LayersInv, SynchronizerInv
<1>2. new \subseteq Endpoints \ {n} /\ own \subseteq Names
  BY <1>1 DEF NewEndpoints, Advertisers, SettingsType
<1>3. UNCHANGED restarts
  BY DEF CommitScanResults, counts
<1>4. CASE new = {}
  BY <1>3, <1>4, QuietStep DEF CommitScanResults
<1>5. CASE new # {}
  <2>1. PICK last \in new :
          Sent(n, Related(n, own), M, SyncMessages(n, {last}, own) \cup Requests(n, new))
    BY <1>5 DEF CommitScanResults
  <2> DEFINE kept == SyncMessages(n, {last}, own) \cup Requests(n, new)
  <2>2. M \subseteq SentMessage
    BY <1>1, <1>2, MessagesAreMessages
  <2>3. kept \subseteq M
    BY <2>1 DEF SyncMessages
  <2>4. \A m \in M : m.src = n /\ m.number = sent[n]
    BY DEF SyncMessages, Requests
  <2>5. Sent(n, Related(n, own), M, kept)
    BY <2>1
  <2> HIDE DEF M, kept
  <2>6. MessagesStep(M, {})
    BY <1>3, <2>2, <2>3, <2>4, <2>5, SentMessagesStep
  <2> QED
    BY <2>6
<1> QED
  BY <1>4, <1>5

(* All of M stays active. *)
LEMMA KeptMessagesStep ==
  ASSUME LayersInv, SynchronizerInv', NEW n \in Endpoints, NEW cancelled,
         NEW S \in SUBSET (Endpoints \ {n}), NEW names \in SUBSET Names,
         NEW M \in {SyncMessages(n, S, names), Requests(n, S), Deregistrations(n, S)},
         Sent(n, cancelled, M, M), UNCHANGED restarts
  PROVE  \E N : MessagesStep(N, {})
<1>1. M \subseteq SentMessage
  BY MessagesAreMessages DEF LayersInv, SynchronizerInv
<1>2. /\ \A m \in SyncMessages(n, S, names) : m.src = n /\ m.number = sent[n]
      /\ \A m \in Requests(n, S) : m.src = n /\ m.number = sent[n]
      /\ \A m \in Deregistrations(n, S) : m.src = n /\ m.number = sent[n]
  BY DEF SyncMessages, Requests, Deregistrations
<1>3. MessagesStep(M, {})
  BY <1>1, <1>2, SentMessagesStep
<1> QED
  BY <1>3

LEMMA NodeStepSends ==
  ASSUME LayersInv, SynchronizerInv', NEW n \in Endpoints, NodeStep(n)
  PROVE  \E M : MessagesStep(M, {})
<1>1. CopiesInv /\ SettingsType /\ Known(n) \subseteq Endpoints \ {n}
  BY KnownAreOthers DEF LayersInv, SynchronizerInv
<1>2. own_synchronizables[n] \subseteq Names
  BY <1>1 DEF SettingsType
<1>3. ASSUME NEW name \in Objects[n], Change(n, name)
      PROVE  \E M : MessagesStep(M, {})
  BY <1>3, QuietStep DEF Change, counts
<1>4. ASSUME NEW name \in Objects[n], Synchronize(n, name)
      PROVE  \E M : MessagesStep(M, {})
  <2>1. {name} \subseteq Names
    BY SynchronizerAssumption
  <2> QED
    BY <1>1, <1>4, <2>1, KeptMessagesStep DEF Synchronize, KeptBySynchronize, counts
<1>5. ASSUME DeregisterAllEndpoints(n), UNCHANGED restarts
      PROVE  \E M : MessagesStep(M, {})
  BY <1>1, <1>2, <1>5, KeptMessagesStep DEF DeregisterAllEndpoints
<1>6. ASSUME NEW group \in GroupChoices[n], SetGroupName(n, group)
      PROVE  \E M : MessagesStep(M, {})
  BY <1>5, <1>6 DEF SetGroupName, counts
<1>7. CASE StartScan(n)
  BY <1>7, QuietStep DEF StartScan, counts
<1>8. CASE SendActiveMessages(n)
  <2>1. /\ UNCHANGED <<active_messages, arrived, handled, sent, restarts>>
        /\ sent \in [Endpoints -> Nat]
        /\ handled \subseteq Present
    BY <1>8 DEF SendActiveMessages, counts, LayersInv, HistoryInv, SynchronizerInv,
       MessagesInv
  <2>2. UnderWay \subseteq UnderWay' /\ UnderWay' \subseteq Present
    <3> DEFINE M == {m \in active_messages \ handled : m.src = n}
    <3>1. {p.message : p \in PacketsOf(M)} = {m \in M : m.type # "dereg"}
      BY SentPackets
    <3> QED
      BY <1>8, <3>1 DEF SendActiveMessages, UnderWay, Present
  <2>3. Present' = Present
    BY <2>1, <2>2 DEF Present
  <2>4. MessagesStep({}, {})
    BY <2>1, <2>2, <2>3
       DEF MessagesStep, NodesStep, SenderStep, ReceiverStep, NetworkStep
  <2> QED
    BY <2>4
<1>9. ASSUME NEW e \in Endpoints \ {n},
             \/ CallAddEndpoint(n, e) \/ CallRemoveEndpoint(n, e)
             \/ CallSetEndpointInfo(n, e)
      PROVE  \E M : MessagesStep(M, {})
  BY <1>9, QuietStep DEF CallAddEndpoint, CallRemoveEndpoint, CallSetEndpointInfo, Call
<1>10. ASSUME NEW e \in Endpoints \ {n}, CallInitialSynchronization(n, e)
       PROVE  \E M : MessagesStep(M, {})
  BY <1>2, <1>10, KeptMessagesStep DEF CallInitialSynchronization, CallSend, Call
<1>11. ASSUME NEW e \in Endpoints \ {n}, CallRequest(n, e)
       PROVE  \E M : MessagesStep(M, {})
  BY <1>2, <1>11, KeptMessagesStep DEF CallRequest, CallSend, Call
<1>12. CASE CallDeregisterAllEndpoints(n)
  BY <1>5, <1>12 DEF CallDeregisterAllEndpoints, Call
<1> QED
  BY <1>3, <1>4, <1>6, <1>7, <1>8, <1>9, <1>10, <1>11, <1>12,
     CommitScanResultsSends DEF NodeStep

(* Steps that send nothing, and after which the messages in H are          *)
(* remembered that a rebooted node sent or that are delivered.             *)
LEMMA NothingSentStep ==
  ASSUME LayersInv, UNCHANGED sent, \A n \in Endpoints : restarts'[n] = 0 => restarts[n] = 0,
         NEW D \in SUBSET Present, NEW H \in SUBSET Present, D \subseteq H,
         \A m \in H : m \notin D => restarts'[m.src] # 0,
         D \cap handled = {}, D \cap active_messages \subseteq active_messages',
         active_messages' \subseteq active_messages, packets' \subseteq packets,
         \A m \in active_messages' : restarts'[m.src] = restarts[m.src],
         NEW kept \in SUBSET handled, Remembered(kept \cup H),
         \A m \in handled : restarts'[m.dst] = 0 => m \in kept,
         arrived' \subseteq arrived \cup H,
         \A m \in active_messages' : m \in arrived \cup D => m \in arrived',
         ~Lossy =>
           \A m \in UnderWay \ D : restarts'[m.src] = 0 => m \in UnderWay'
  PROVE  MessagesStep({}, D)
<1>1. NodesStep
  BY DEF NodesStep, LayersInv, SynchronizerInv, MessagesInv
<1>2. SenderStep({})
  BY DEF SenderStep
<1>3. handled' = {m \in kept \cup H : m \in Present'}
  BY DEF Remembered, Present, UnderWay
<1>4. ReceiverStep(D)
  BY <1>3 DEF ReceiverStep
<1>5. NetworkStep({}, D)
  BY DEF NetworkStep, Present, UnderWay
<1> QED
  BY <1>1, <1>2, <1>4, <1>5 DEF MessagesStep

LEMMA PacketsAfterAccepting ==
  ASSUME NEW p \in packets
  PROVE  /\ PacketsAfter(p) \subseteq packets
         /\ \A q \in packets : q.message # p.message => q \in PacketsAfter(p)
BY DEF PacketsAfter

(* Any packet is accepted at most once: for the first time it comes.       *)
LEMMA HandleSynchronizationMessageDelivers ==
  ASSUME LayersInv, NEW p \in packets, HandleSynchronizationMessage(p)
  PROVE  MessagesStep({}, {p.message})
<1> DEFINE m == p.message
<1>1. /\ m \notin handled /\ m \in Present
      /\ UNCHANGED <<active_messages, sent, restarts>>
      /\ packets' = PacketsAfter(p)
      /\ arrived' = arrived \cup ({m} \cap active_messages)
      /\ Remembered(handled \cup {m})
  BY DEF HandleSynchronizationMessage, counts, Present, UnderWay
<1>2. \A x \in UnderWay \ {m} : x \in UnderWay'
  BY <1>1, PacketsAfterAccepting DEF UnderWay
<1> HIDE DEF m
<1>3. MessagesStep({}, {m})
  BY <1>1, <1>2, PacketsAfterAccepting, NothingSentStep
<1> QED
  BY <1>3 DEF m

LEMMA IgnoreDelivers ==
  ASSUME LayersInv, NEW p \in packets, Ignore(p)
  PROVE  MessagesStep({}, {})
<1> DEFINE m == p.message
<1>1. /\ m \in Present /\ restarts[m.src] > 0
      /\ UNCHANGED <<active_messages, sent, restarts>>
      /\ packets' = PacketsAfter(p)
      /\ arrived' = arrived \cup ({m} \cap active_messages)
      /\ Remembered(handled \cup {m})
  BY DEF Ignore, Mistakable, counts, Present, UnderWay
<1>2. \A x \in UnderWay \ {m} : x \in UnderWay'
  BY <1>1, PacketsAfterAccepting DEF UnderWay
<1>3. /\ restarts'[m.src] # 0
      /\ packets' \subseteq packets
      /\ arrived' \subseteq arrived \cup {m}
      /\ \A x \in active_messages' : x \in arrived => x \in arrived'
      /\ \A x \in UnderWay : restarts'[x.src] = 0 => x \in UnderWay'
  BY <1>1, <1>2, PacketsAfterAccepting
<1> DEFINE D == {}
           H == {m}
<1>4. /\ D \subseteq Present /\ H \subseteq Present /\ D \subseteq H
      /\ D \cap handled = {} /\ D \cap active_messages \subseteq active_messages'
      /\ arrived' \subseteq arrived \cup H /\ Remembered(handled \cup H)
      /\ \A x \in H : x \notin D => restarts'[x.src] # 0
      /\ \A x \in active_messages' : x \in arrived \cup D => x \in arrived'
      /\ \A x \in UnderWay \ D : restarts'[x.src] = 0 => x \in UnderWay'
  BY <1>1, <1>3
<1>5. MessagesStep({}, D)
  <2> HIDE DEF D, H, m
  <2> QED
    BY <1>1, <1>3, <1>4, NothingSentStep
<1> QED
  BY <1>5

LEMMA LoseDelivers ==
  ASSUME LayersInv, NEW p \in packets, Lose(p)
  PROVE  MessagesStep({}, {})
<1>1. /\ UNCHANGED <<active_messages, arrived, sent, restarts>>
      /\ packets' \subseteq packets /\ Lossy
      /\ Remembered(handled)
  BY DEF Lose, counts
<1> QED
  BY <1>1, NothingSentStep

(* An outcome. *)
LEMMA SettledStep ==
  ASSUME LayersInv, NEW m \in active_messages, OnSendSucceeded(m) \/ OnSendFailed(m)
  PROVE  MessagesStep({}, {})
<1>1. /\ active_messages' = active_messages \ {m}
      /\ arrived' = arrived \ {m}
      /\ UNCHANGED <<packets, sent, restarts>>
      /\ Remembered(handled)
  BY DEF OnSendSucceeded, OnSendFailed, counts
<1> QED
  BY <1>1, NothingSentStep DEF UnderWay

(* A reboot, whether or not it cuts off the reception of the messages D.   *)
LEMMA RebootGivesUp ==
  ASSUME LayersInv, NEW n \in Endpoints, Reboot(n),
         NEW D \in SUBSET Present, D \cap handled = {},
         \A m \in D : m.dst = n /\ m.src # n,
         arrived' = {m \in arrived \cup (D \cap active_messages) : m.src # n}
  PROVE  MessagesStep({}, D) /\ GivesUp("pending", {})
<1> DEFINE kept == {m \in handled : m.dst # n}
<1>1. /\ active_messages' = {m \in active_messages : m.src # n}
      /\ UNCHANGED <<packets, sent>>
      /\ Remembered(kept)
      /\ restarts' = [restarts EXCEPT ![n] = @ + 1]
  BY DEF Reboot
<1>2. /\ DOMAIN restarts = Endpoints /\ \A k \in Endpoints : restarts[k] \in Nat
      /\ active_messages \subseteq SentMessage /\ handled \subseteq SentMessage
      /\ arrived \subseteq active_messages /\ sent \in [Endpoints -> Nat]
  BY DEF LayersInv, SynchronizerInv, SettingsType, MessagesInv
<1>3. /\ restarts'[n] # 0
      /\ \A k \in Endpoints \ {n} : restarts'[k] = restarts[k]
  BY <1>1, <1>2
<1>4. /\ \A m \in active_messages' : restarts'[m.src] = restarts[m.src]
      /\ \A m \in handled : restarts'[m.dst] = 0 => m \in kept
  BY <1>1, <1>2, <1>3 DEF SentMessage, Message
<1>5. UnderWay' = UnderWay /\ Present' \subseteq Present
  BY <1>1 DEF UnderWay, Present
<1>6. NodesStep /\ SenderStep({})
  BY <1>1, <1>2, <1>3, <1>4 DEF NodesStep, SenderStep
<1>7. ReceiverStep(D)
  <2>1. handled' = {m \in kept : m \in Present'}
    BY <1>1 DEF Remembered, Present, UnderWay
  <2> QED
    BY <1>1, <1>3, <1>4, <2>1 DEF ReceiverStep
<1>8. NetworkStep({}, D)
  BY <1>5 DEF NetworkStep
<1>9. GivesUp("pending", {})
  BY <1>1, <1>3 DEF GivesUp
<1> QED
  BY <1>6, <1>7, <1>8, <1>9 DEF MessagesStep

LEMMA RestartGivesUp ==
  ASSUME LayersInv, NEW n \in Endpoints, Restart(n)
  PROVE  MessagesStep({}, {}) /\ GivesUp("pending", {})
<1> DEFINE none == {}
<1>1. /\ none \subseteq Present /\ none \cap handled = {}
      /\ \A m \in none : m.dst = n /\ m.src # n
      /\ arrived' = {m \in arrived \cup (none \cap active_messages) : m.src # n}
      /\ Reboot(n)
  BY DEF Restart
<1>2. MessagesStep({}, none) /\ GivesUp("pending", {})
  <2> HIDE DEF none
  <2> QED
    BY <1>1, RebootGivesUp
<1> QED
  BY <1>2

(* The message whose reception is cut off counts as received.              *)
LEMMA RestartWhileReceivingGivesUp ==
  ASSUME LayersInv, NEW p \in packets, RestartWhileReceiving(p)
  PROVE  MessagesStep({}, {p.message}) /\ GivesUp("pending", {})
<1> DEFINE m == p.message
           n == m.dst
           D == {m}
<1>1. n \in Endpoints /\ m.src # n
  BY DEF LayersInv, SynchronizerInv, MessagesInv, Packet, SentMessage, Message
<1>2. /\ D \subseteq Present /\ D \cap handled = {}
      /\ \A x \in D : x.dst = n /\ x.src # n
      /\ arrived' = {x \in arrived \cup (D \cap active_messages) : x.src # n}
      /\ Reboot(n)
  BY <1>1 DEF RestartWhileReceiving, Present, UnderWay
<1>3. MessagesStep({}, D) /\ GivesUp("pending", {})
  <2> HIDE DEF m, n, D
  <2> QED
    BY <1>1, <1>2, RebootGivesUp
<1> QED
  BY <1>3

(* The answer to a request: one message is delivered, others are cancelled *)
(* and new ones are sent.                                                  *)
LEMMA HandleRequestDelivers ==
  ASSUME LayersInv, SynchronizerInv', NEW p \in packets, HandleRequest(p)
  PROVE  \E M : MessagesStep(M, {p.message})
<1> DEFINE m == p.message
           n == m.dst
           own == own_synchronizables[n]
           cancelled == Related(n, own)
           M == SyncMessages(n, {m.src}, own)
<1>1. SettingsType /\ MessagesInv /\ handled \subseteq Present
  BY DEF LayersInv, HistoryInv, SynchronizerInv
<1>2. n \in Endpoints /\ m.src \in Endpoints \ {n}
  BY <1>1 DEF MessagesInv, Packet, SentMessage, Message
<1>3. M \subseteq SentMessage
  <2>1. own \subseteq Names
    BY <1>1, <1>2 DEF SettingsType
  <2> QED
    BY <1>1, <1>2, <2>1, MessagesAreMessages
<1>4. \A x \in M : x.src = n /\ x.number = sent[n] /\ x.type # "dereg"
  BY DEF SyncMessages
<1>5. /\ active_messages' = (active_messages \ cancelled) \cup M
      /\ arrived' = (arrived \ cancelled) \cup ({m} \cap active_messages)
      /\ packets' = PacketsAfter(p) \cup PacketsOf(M)
      /\ Remembered(handled \cup {m})
      /\ sent' = [sent EXCEPT ![n] = @ + 1]
      /\ UNCHANGED restarts
      /\ m \notin handled /\ m \in Present
  BY DEF HandleRequest, CancelledByInitialSync, counts, Present, UnderWay
<1>6. m \notin cancelled
  BY DEF HandleRequest, Related
<1> HIDE DEF M, cancelled
<1>7. /\ \A x \in UnderWay' : x \in UnderWay \/ x \in M
      /\ \A x \in UnderWay \ {m} : x \in UnderWay'
      /\ \A x \in M : x \in UnderWay'
  <2>1. {q.message : q \in PacketsOf(M)} = M
    BY <1>4, SentPackets
  <2>2. UnderWay' = {q.message : q \in PacketsAfter(p)} \cup M
    BY <1>5, <2>1 DEF UnderWay
  <2> QED
    BY <2>2, PacketsAfterAccepting DEF UnderWay
<1> HIDE DEF m, n
<1>8. NodesStep
  <2>1. sent' \in [Endpoints -> Nat]
    BY DEF SynchronizerInv, MessagesInv
  <2> QED
    BY <1>1, <1>2, <1>5, <2>1 DEF NodesStep, MessagesInv
<1>9. SenderStep(M)
  <2>1. sent \in [Endpoints -> Nat]
    BY <1>1 DEF MessagesInv
  <2> QED
    BY <1>2, <1>3, <1>4, <1>5, <2>1 DEF SenderStep
<1>10. ReceiverStep({m})
  <2>1. handled' = {x \in handled \cup {m} : x \in Present'}
    BY <1>5 DEF Remembered, Present, UnderWay
  <2>2. ASSUME NEW x \in Followed, x \in active_messages', x \in arrived \cup {m}
        PROVE  x \in arrived'
    <3>1. x.src \in Endpoints /\ x.number \in Nat /\ x.number < sent[x.src]
      BY DEF LayersInv, HistoryInv, SentMessage, Message
    <3>2. x \notin M
      BY <1>1, <1>2, <1>4, <3>1 DEF MessagesInv
    <3>3. x \in active_messages /\ x \notin cancelled
      BY <1>5, <2>2, <3>2
    <3> QED
      BY <1>5, <2>2, <3>3
  <2> QED
    BY <1>5, <1>6, <2>1, <2>2 DEF ReceiverStep
<1>11. NetworkStep(M, {m})
  BY <1>5, <1>7 DEF NetworkStep, Present
<1>12. MessagesStep(M, {m})
  BY <1>8, <1>9, <1>10, <1>11 DEF MessagesStep
<1> QED
  BY <1>12 DEF m

--------------------------------------------------------------------------------
(* Every step. *)

LEMMA CancelledStep ==
  ASSUME NEW M
  PROVE  GivesUp("cancelled", M)
BY DEF GivesUp, Outcomes

LEMMA SettledGivesUp ==
  ASSUME LayersInv, NEW m \in active_messages, NEW outcome,
         \/ OnSendSucceeded(m) /\ outcome = "succeeded"
         \/ OnSendFailed(m) /\ outcome = "failed"
  PROVE  GivesUp(outcome, {})
<1>1. active_messages \ active_messages' \subseteq {m}
  BY DEF OnSendSucceeded, OnSendFailed
<1>2. m.src \in Endpoints
  BY DEF LayersInv, SynchronizerInv, MessagesInv, SentMessage, Message
<1>3. restarts[m.src] \in Nat
  BY <1>2 DEF LayersInv, SynchronizerInv, SettingsType
<1>4. outcome = "succeeded" /\ restarts[m.src] = 0 => m \in arrived
  BY <1>3 DEF OnSendSucceeded, Mistakable
<1> QED
  BY <1>1, <1>4 DEF GivesUp, Outcomes

(* What every step of Layers does to the messages. *)
LEMMA StepsOfMessages ==
  ASSUME LayersInv, SynchronizerInv', LayersNext
  PROVE  \E M, D, outcome :
           MessagesStep(M, D) /\ GivesUp(outcome, M) /\ Recorded(outcome, D)
<1> DEFINE Goal == \E M, D, outcome :
                     MessagesStep(M, D) /\ GivesUp(outcome, M) /\ Recorded(outcome, D)
<1>1. ASSUME NEW n \in Endpoints, NodeStep(n) /\ Recorded("cancelled", {})
      PROVE  Goal
  BY <1>1, NodeStepSends, CancelledStep
<1>2. ASSUME NEW n \in Endpoints, Restart(n) /\ Recorded("pending", {})
      PROVE  Goal
  BY <1>2, RestartGivesUp
<1>3. ASSUME NEW m \in active_messages, OnSendSucceeded(m) /\ Recorded("succeeded", {})
      PROVE  Goal
  BY <1>3, SettledStep, SettledGivesUp
<1>4. ASSUME NEW m \in active_messages, OnSendFailed(m) /\ Recorded("failed", {})
      PROVE  Goal
  BY <1>4, SettledStep, SettledGivesUp
<1>5. ASSUME NEW p \in packets,
             OnMessageReceived(p) /\ Recorded("cancelled", {p.message})
      PROVE  Goal
  <2>1. \E M : MessagesStep(M, {p.message})
    BY <1>5, HandleSynchronizationMessageDelivers, HandleRequestDelivers
       DEF OnMessageReceived
  <2> QED
    BY <1>5, <2>1, CancelledStep
<1>6. ASSUME NEW p \in packets, (Ignore(p) \/ Lose(p)) /\ Recorded("cancelled", {})
      PROVE  Goal
  BY <1>6, IgnoreDelivers, LoseDelivers, CancelledStep
<1>7. ASSUME NEW p \in packets,
             RestartWhileReceiving(p) /\ Recorded("pending", {p.message})
      PROVE  Goal
  BY <1>7, RestartWhileReceivingGivesUp
<1> QED
  BY <1>1, <1>2, <1>3, <1>4, <1>5, <1>6, <1>7 DEF LayersNext

LEMMA LayersNextIsNext ==
  ASSUME LayersNext
  PROVE  Next
BY DEF LayersNext, Next

LEMMA LayersStutter ==
  ASSUME LayersInv, UNCHANGED layer_vars
  PROVE  LayersInv'
<1>1. SynchronizerInv'
  BY SynchronizerStep DEF LayersInv, layer_vars
<1>2. /\ UNCHANGED <<active_messages, arrived, handled, packets, sent, restarts>>
      /\ UNCHANGED <<status, received>>
  BY DEF layer_vars, history, vars, message_vars, counts
<1>3. HistoryInv'
  BY <1>2 DEF LayersInv, HistoryInv, StatusAgrees, ReceivedAgrees, StillUnderWay,
     Present, UnderWay, Followed, SentMessage, Message
<1> QED
  BY <1>1, <1>3 DEF LayersInv

LEMMA InitLayers == LayersInit => LayersInv
<1> SUFFICES ASSUME LayersInit
             PROVE  LayersInv
  OBVIOUS
<1>1. SynchronizerInv
  BY InitSynchronizer DEF LayersInit
<1>2. Followed = {} /\ DOMAIN received = {} /\ Present = {} /\ handled = {}
  BY DEF LayersInit, Init, Followed, Present, UnderWay
<1> QED
  BY <1>1, <1>2 DEF LayersInv, HistoryInv

LEMMA LayersStep ==
  ASSUME LayersInv, [LayersNext]_layer_vars
  PROVE  LayersInv'
<1>1. CASE LayersNext
  <2>1. SynchronizerInv'
    BY <1>1, LayersNextIsNext, SynchronizerStep DEF LayersInv
  <2>2. PICK M, D, outcome :
          MessagesStep(M, D) /\ GivesUp(outcome, M) /\ Recorded(outcome, D)
    BY <1>1, <2>1, StepsOfMessages
  <2> QED
    BY <2>1, <2>2, HistoryStep
<1> QED
  BY <1>1, LayersStutter

LEMMA LayersInvariant == LayersSpec => []LayersInv
BY InitLayers, LayersStep, PTL DEF LayersSpec

LEMMA LayersInvImplies == LayersInv => NothingWithheld
<1> SUFFICES ASSUME LayersInv, NEW m \in Followed, restarts[m.src] = 0
             PROVE  /\ status[m] = "pending" <=> m \in active_messages
                    /\ status[m] = "pending" /\ received[m] > 0 => m \in arrived
                    /\ ~Lossy /\ m.type # "dereg" /\ received[m] = 0 =>
                         m \notin handled /\ m \in UnderWay
  BY DEF NothingWithheld
<1>1. StatusAgrees(m) /\ ReceivedAgrees(m) /\ StillUnderWay(m)
  BY DEF LayersInv, HistoryInv
<1> QED
  BY <1>1 DEF StatusAgrees, ReceivedAgrees, StillUnderWay

LEMMA EveryPromiseStep ==
  ASSUME LayersInv, LayersInv', [LayersNext]_layer_vars
  PROVE  [\A m \in Followed' :
            UNCHANGED Promise(m)!vars \/ Promise(m)!Next \/ SentAndCancelled(m)]_layer_vars
<1> SUFFICES ASSUME LayersNext, NEW m \in Followed'
             PROVE  UNCHANGED Promise(m)!vars \/ Promise(m)!Next \/ SentAndCancelled(m)
  OBVIOUS
<1>1. PICK M, D, outcome :
        MessagesStep(M, D) /\ GivesUp(outcome, M) /\ Recorded(outcome, D)
  BY StepsOfMessages DEF LayersInv
<1> QED
  BY <1>1, PromiseStep

(* What the Synchronizers do with their messages, in every interleaving of *)
(* updates, requests, scans, failures and reboots, is what Transport       *)
(* allows: the two layers fit together.                                    *)
THEOREM LayersFit == LayersSpec => UsesTransport
BY InitLayers, LayersStep, EveryPromiseStep, PTL DEF LayersSpec, UsesTransport

(* The Synchronizers' transport withholds nothing that Transport allows: a *)
(* message that is waited for can have each of its outcomes, and one that  *)
(* was given up can still come.                                            *)
THEOREM TransportIsNotKind == LayersSpec => []NothingWithheld
BY LayersInvariant, LayersInvImplies, PTL

================================================================================
