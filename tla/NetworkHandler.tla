---------------------------- MODULE NetworkHandler -----------------------------
(***************************************************************************)
(* The NetworkHandlers of a set of endpoints that exchange messages over   *)
(* UDP: each numbers the messages it sends, repeats them every 100 ms      *)
(* until they are acknowledged or their retries are used up, acknowledges  *)
(* what it receives, and remembers (endpoint, id) pairs for a while so     *)
(* that a repeated message reaches its delegate once.                      *)
(***************************************************************************)
EXTENDS Integers

CONSTANTS
  Endpoints,             \* the nodes
  Messages,              \* NetworkMessage objects, each sent once
  Source,                \* the endpoint that sends a message ...
  Destination,           \* ... and the one it is sent to
  MessageType,           \* NetworkMessage::get_message_type
  MaxRetries,            \* the max_retries a message is sent with
  IdMod,                 \* message ids are 0 .. IdMod - 1 (2^24 in the code)
  TimeMod,               \* uint32_t deciseconds wrap at TimeMod (2^32)
  ExpiryPeriod,          \* receptions are purged every ExpiryPeriod ticks (16)
  ReceptionTimes,        \* the max message reception times in use ...
  DefaultReceptionTime,  \* ... and the initial one (600)
  PacketLifetime,        \* 100 ms boundaries a packet in flight can outlive
  Interruptible,         \* endpoints whose interface may be taken away again
  MaxRestarts            \* bounds on the reboots of each endpoint

Types == {"msg", "sync", "dereg", "req_init_sync"}

(* A message is repeated Retries(m) times: decrement_retries leaves a      *)
(* counter of 0 at 0, so 0 and 1 behave the same.                          *)
Retries(m) == IF MaxRetries[m] = 0 THEN 1 ELSE MaxRetries[m]

ASSUME MessageAssumption ==
  /\ Source \in [Messages -> Endpoints]
  /\ Destination \in [Messages -> Endpoints]
  /\ MessageType \in [Messages -> Types]
  /\ MaxRetries \in [Messages -> Nat]

ASSUME ClockAssumption ==
  /\ IdMod \in Nat \ {0}
  /\ TimeMod \in Nat \ {0}
  /\ ExpiryPeriod \in Nat \ {0}
  /\ TimeMod % ExpiryPeriod = 0
  /\ PacketLifetime \in Nat
  /\ Interruptible \subseteq Endpoints
  /\ MaxRestarts \in [Endpoints -> Nat]

(* A reception is remembered for longer than the last repetition of its    *)
(* message can still be in flight: 600 deciseconds in the code, against    *)
(* 100 for the retries the Synchronizer asks for.                          *)
ASSUME RetentionAssumption ==
  /\ ReceptionTimes \subseteq Nat
  /\ DefaultReceptionTime \in ReceptionTimes
  /\ \A t \in ReceptionTimes :
       /\ t < TimeMod
       /\ \A m \in Messages : Retries(m) + PacketLifetime + 1 <= t

VARIABLES
  (* the members of each NetworkHandler *)
  udp_interface,            \* whether an interface has been provided
  active_messages,
  next_active_message_id,
  time_in_deciseconds,
  message_reception_times,  \* <<endpoint, id>> -> time of the last reception
  max_message_reception_time,
  (* the world around them *)
  network,                  \* packets in flight -> boundaries they outlive
  ticked,                   \* endpoints already called in this 100 ms period
  restarts,                 \* reboots of each endpoint
  interrupted,              \* endpoints whose interface has been taken away
  (* what the callbacks have reported *)
  status,                   \* NetworkMessage callbacks, per message
  received,                 \* NetworkHandlerDelegate::on_message_received
  cut_off,                  \* messages acknowledged, but the receiver rebooted
                            \* before its delegate was called
  transmissions             \* packets sent for a message

handler_vars == <<udp_interface, active_messages, next_active_message_id,
  time_in_deciseconds, message_reception_times, max_message_reception_time>>
history_vars == <<status, received, cut_off, transmissions>>
vars == <<handler_vars, network, ticked, restarts, interrupted, history_vars>>

Ids == 0 .. IdMod - 1
Times == 0 .. TimeMod - 1
NoMessage == "no message"
Packet ==
  [type : Types, src : Endpoints, dst : Endpoints, message_id : Ids,
   message : Messages]
  \cup
  [type : {"ack"}, src : Endpoints, dst : Endpoints, message_id : Ids,
   message : {NoMessage}]
Statuses == {"unsent", "pending", "succeeded", "failed", "cancelled", "forgotten"}
ActiveNetworkMessage ==
  [message : Messages, message_id : Ids, retries_left : Nat]

--------------------------------------------------------------------------------
(* Wrapping 32-bit arithmetic. *)

NextTime(t) == IF t = TimeMod - 1 THEN 0 ELSE t + 1
Elapsed(now, then) ==
  IF now >= then THEN now - then ELSE now - then + TimeMod

Age(e, key) == Elapsed(time_in_deciseconds[e], message_reception_times[e][key])

(* What is put on the wire: the array [type, id, data], or ["ack", id]. *)
DataPacket(a) ==
  [type |-> MessageType[a.message], src |-> Source[a.message],
   dst |-> Destination[a.message], message_id |-> a.message_id,
   message |-> a.message]
AckPacket(p) ==
  [type |-> "ack", src |-> p.dst, dst |-> p.src,
   message_id |-> p.message_id, message |-> NoMessage]

(* UDPInterface::send_packet.  A packet stays deliverable until its        *)
(* lifetime is over, so it may arrive never, once or repeatedly, and in    *)
(* any order with other packets.                                           *)
Transmitted(S) ==
  [p \in DOMAIN network \cup S |->
     IF p \in S THEN PacketLifetime ELSE network[p]]

Init ==
  /\ udp_interface = [e \in Endpoints |-> FALSE]
  /\ active_messages = [e \in Endpoints |-> {}]
  /\ next_active_message_id = [e \in Endpoints |-> 0]
  /\ time_in_deciseconds = [e \in Endpoints |-> 0]
  /\ message_reception_times = [e \in Endpoints |-> << >>]
  /\ max_message_reception_time = [e \in Endpoints |-> DefaultReceptionTime]
  /\ network = << >>
  /\ ticked = {}
  /\ restarts = [e \in Endpoints |-> 0]
  /\ interrupted = {}
  /\ status = [m \in Messages |-> "unsent"]
  /\ received = [m \in Messages |-> 0]
  /\ cut_off = {}
  /\ transmissions = [m \in Messages |-> 0]

--------------------------------------------------------------------------------
(* set_udp_interface, with an interface or with a null pointer.            *)
SetUdpInterface(e, given) ==
  /\ given \/ e \in Interruptible
  /\ udp_interface' = [udp_interface EXCEPT ![e] = given]
  /\ interrupted' =
       interrupted \cup (IF udp_interface[e] /\ ~given THEN {e} ELSE {})
  /\ UNCHANGED <<active_messages, next_active_message_id, time_in_deciseconds,
       message_reception_times, max_message_reception_time, network, ticked,
       restarts, history_vars>>

(* set_max_message_reception_time_in_deciseconds *)
SetMaxMessageReceptionTime(e, t) ==
  /\ max_message_reception_time' = [max_message_reception_time EXCEPT ![e] = t]
  /\ UNCHANGED <<udp_interface, active_messages, next_active_message_id,
       time_in_deciseconds, message_reception_times, network, ticked, restarts,
       interrupted, history_vars>>

(* The 2^24 ids do not wrap around to one that is still in use: no active  *)
(* message, no packet in flight and no reception remembered anywhere       *)
(* carries the next id.  After a reboot, which takes the counter back to   *)
(* 0, only the endpoint's own active messages are sure to be clear of it.  *)
NextIdIsFree(e) ==
  LET id == next_active_message_id[e] IN
  /\ \A a \in active_messages[e] : a.message_id # id
  /\ restarts[e] = 0 =>
       /\ \A p \in DOMAIN network :
            e = (IF p.type = "ack" THEN p.dst ELSE p.src) => p.message_id # id
       /\ \A r \in Endpoints : <<e, id>> \notin DOMAIN message_reception_times[r]

(* send_message: number it, queue it, send it.  Without an interface the   *)
(* message is already queued when send_active_message throws.              *)
SendMessage(m) ==
  LET e == Source[m]
      id == next_active_message_id[e]
      new == [message |-> m, message_id |-> id, retries_left |-> MaxRetries[m]]
  IN
  /\ status[m] = "unsent"
  /\ NextIdIsFree(e)
  /\ next_active_message_id' =
       [next_active_message_id EXCEPT ![e] = (id + 1) % IdMod]
  /\ active_messages' = [active_messages EXCEPT ![e] = @ \cup {new}]
  /\ status' = [status EXCEPT ![m] = "pending"]
  /\ IF udp_interface[e]
       THEN /\ network' = Transmitted({DataPacket(new)})
            /\ transmissions' = [transmissions EXCEPT ![m] = @ + 1]
       ELSE UNCHANGED <<network, transmissions>>
  /\ UNCHANGED <<udp_interface, time_in_deciseconds, message_reception_times,
       max_message_reception_time, ticked, restarts, interrupted, received,
       cut_off>>

(* cancel_active_messages, with a filter that picks the messages in S. *)
CancelActiveMessages(e, S) ==
  /\ S # {}
  /\ S \subseteq {a.message : a \in active_messages[e]}
  /\ active_messages' =
       [active_messages EXCEPT ![e] = {a \in @ : a.message \notin S}]
  /\ status' = [m \in Messages |-> IF m \in S THEN "cancelled" ELSE status[m]]
  /\ UNCHANGED <<udp_interface, next_active_message_id, time_in_deciseconds,
       message_reception_times, max_message_reception_time, network, ticked,
       restarts, interrupted, received, cut_off, transmissions>>

--------------------------------------------------------------------------------
(* on_100_ms_passed *)

(* send_active_messages discards a message whose last retry it just sent.  *)
ChecksBeforeDecrement(a) == a.retries_left = 0                      \* mutant
IgnoresZeroRetries(a) == a.retries_left = 1                         \* mutant
IsLastRetry(a) == a.retries_left <= 1

NoCallbackAtZero(S) == {a.message : a \in {x \in S : x.retries_left = 1}} \* mutant
Discarded(S) == {a.message : a \in {x \in S : IsLastRetry(x)}}

KeepsDiscarded(S) ==                                                \* mutant
  {[a EXCEPT !.retries_left = IF @ = 0 THEN 0 ELSE @ - 1] : a \in S}
StillActive(S) ==
  {[a EXCEPT !.retries_left = @ - 1] : a \in {x \in S : ~IsLastRetry(x)}}

(* remove_expired_message_reception_times, run when the time is a multiple *)
(* of the period.                                                          *)
ExpiresEarly(e, key, now) ==                                        \* mutant
  Elapsed(now, message_reception_times[e][key]) >= max_message_reception_time[e]
SignedAge(e, key, now) ==                                           \* mutant
  now - message_reception_times[e][key] > max_message_reception_time[e]
HasExpired(e, key, now) ==
  Elapsed(now, message_reception_times[e][key]) > max_message_reception_time[e]

KeptReceptions(e, now) ==
  LET times == message_reception_times[e]
  IN  [key \in {k \in DOMAIN times :
                  ~(now % ExpiryPeriod = 0 /\ HasExpired(e, k, now))}
         |-> times[key]]

On100MsPassed(e) ==
  LET active == active_messages[e]
      failed == Discarded(active)
      sent == {a.message : a \in active}
  IN
  /\ e \notin ticked
  /\ udp_interface[e] \/ active = {}
  /\ ticked' = ticked \cup {e}
  /\ time_in_deciseconds' = [time_in_deciseconds EXCEPT ![e] = NextTime(@)]
  /\ active_messages' =
       [active_messages EXCEPT ![e] = StillActive(active)]
  /\ network' = Transmitted({DataPacket(a) : a \in active})
  /\ transmissions' =
       [m \in Messages |-> transmissions[m] + (IF m \in sent THEN 1 ELSE 0)]
  /\ status' = [m \in Messages |-> IF m \in failed THEN "failed" ELSE status[m]]
  /\ message_reception_times' =
       [message_reception_times EXCEPT
          ![e] = KeptReceptions(e, NextTime(time_in_deciseconds[e]))]
  /\ UNCHANGED <<udp_interface, next_active_message_id,
       max_message_reception_time, restarts, interrupted, received, cut_off>>

(* Without an interface the first active message throws: the time has      *)
(* advanced, nothing was sent, no retry was used, nothing is purged.       *)
On100MsPassedThrows(e) ==
  /\ e \notin ticked
  /\ ~udp_interface[e]
  /\ active_messages[e] # {}
  /\ ticked' = ticked \cup {e}
  /\ time_in_deciseconds' = [time_in_deciseconds EXCEPT ![e] = NextTime(@)]
  /\ UNCHANGED <<udp_interface, active_messages, next_active_message_id,
       message_reception_times, max_message_reception_time, network, restarts,
       interrupted, history_vars>>

--------------------------------------------------------------------------------
(* heartbeat: receive one packet. *)

(* on_received_ack: every active message with that id has arrived. *)
IgnoresTheId(e, id) == active_messages[e]                           \* mutant
Cumulative(e, id) == {a \in active_messages[e] : a.message_id <= id} \* mutant
AckedMessages(e, id) == {a \in active_messages[e] : a.message_id = id}

ReceiveAck(e, p) ==
  LET acked == AckedMessages(e, p.message_id)
      succeeded == {a.message : a \in acked}
  IN
  /\ udp_interface[e]
  /\ p.dst = e /\ p.type = "ack"
  /\ active_messages' = [active_messages EXCEPT ![e] = @ \ acked]
  /\ status' =
       [m \in Messages |-> IF m \in succeeded THEN "succeeded" ELSE status[m]]
  /\ UNCHANGED <<udp_interface, next_active_message_id, time_in_deciseconds,
       message_reception_times, max_message_reception_time, network, ticked,
       restarts, interrupted, received, cut_off, transmissions>>

(* handle_decoded_message for the types it knows; "dereg" is not one of    *)
(* them and is dropped without an acknowledgement.  The message is         *)
(* acknowledged first, its reception is recorded or refreshed, and the     *)
(* delegate sees it if the reception is new.                               *)
NeverHandled(e, p) == FALSE                                         \* mutant
RecordedFirst(e, p) == TRUE                                         \* mutant
AlreadyHandled(e, p) ==
  <<p.src, p.message_id>> \in DOMAIN message_reception_times[e]

ReceiveMessage(e, p) ==
  LET key == <<p.src, p.message_id>> IN
  /\ udp_interface[e]
  /\ p.dst = e /\ p.type \in {"msg", "sync", "req_init_sync"}
  /\ network' = Transmitted({AckPacket(p)})
  /\ message_reception_times' =
       [message_reception_times EXCEPT
          ![e] = [k \in DOMAIN @ \cup {key} |->
                    IF k = key THEN time_in_deciseconds[e] ELSE @[k]]]
  /\ received' = [received EXCEPT
                    ![p.message] = IF AlreadyHandled(e, p) THEN @ ELSE @ + 1]
  /\ UNCHANGED <<udp_interface, active_messages, next_active_message_id,
       time_in_deciseconds, max_message_reception_time, ticked, restarts,
       interrupted, status, cut_off, transmissions>>

Heartbeat(e) ==
  \E p \in DOMAIN network : ReceiveAck(e, p) \/ ReceiveMessage(e, p)

--------------------------------------------------------------------------------
(* The environment. *)

(* The 100 ms period ends once every endpoint's on_100_ms_passed has been  *)
(* called ("to be called once every 100 ms"); packets age.                 *)
PeriodEnds ==
  /\ ticked = Endpoints
  /\ ticked' = {}
  /\ network' = [p \in {q \in DOMAIN network : network[q] > 0} |->
                   network[p] - 1]
  /\ UNCHANGED <<handler_vars, restarts, interrupted, history_vars>>

(* An endpoint reboots: its NetworkHandler is constructed anew, and the    *)
(* messages it was sending are forgotten without a callback.               *)
Reboot(e) ==
  LET forgotten == {a.message : a \in active_messages[e]} IN
  /\ restarts[e] < MaxRestarts[e]
  /\ restarts' = [restarts EXCEPT ![e] = @ + 1]
  /\ udp_interface' = [udp_interface EXCEPT ![e] = FALSE]
  /\ active_messages' = [active_messages EXCEPT ![e] = {}]
  /\ next_active_message_id' = [next_active_message_id EXCEPT ![e] = 0]
  /\ time_in_deciseconds' = [time_in_deciseconds EXCEPT ![e] = 0]
  /\ message_reception_times' = [message_reception_times EXCEPT ![e] = << >>]
  /\ max_message_reception_time' =
       [max_message_reception_time EXCEPT ![e] = DefaultReceptionTime]
  /\ status' =
       [m \in Messages |-> IF m \in forgotten THEN "forgotten" ELSE status[m]]
  /\ UNCHANGED <<ticked, interrupted, received, transmissions>>

Restart(e) == Reboot(e) /\ UNCHANGED <<network, cut_off>>

(* ... while it receives a message: after the acknowledgement, which is    *)
(* sent first, and before the delegate is called.  (Of everything else     *)
(* that a reboot cuts short, the others see the whole step, with some of   *)
(* its packets lost.)                                                      *)
RestartWhileReceiving(e, p) ==
  /\ udp_interface[e]
  /\ p.dst = e /\ p.type \in {"msg", "sync", "req_init_sync"}
  /\ ~AlreadyHandled(e, p)
  /\ Reboot(e)
  /\ network' = Transmitted({AckPacket(p)})
  /\ cut_off' = cut_off \cup {p.message}

Next ==
  \/ \E m \in Messages : SendMessage(m)
  \/ \E e \in Endpoints :
       \/ \E given \in BOOLEAN : SetUdpInterface(e, given)
       \/ \E t \in ReceptionTimes : SetMaxMessageReceptionTime(e, t)
       \/ \E S \in SUBSET Messages : CancelActiveMessages(e, S)
       \/ On100MsPassed(e)
       \/ On100MsPassedThrows(e)
       \/ Heartbeat(e)
       \/ Restart(e)
       \/ \E p \in DOMAIN network : RestartWhileReceiving(e, p)
  \/ PeriodEnds

Spec == Init /\ [][Next]_vars

(* The main loop of a device calls on_100_ms_passed for ever. *)
Fairness ==
  /\ \A e \in Endpoints :
       WF_vars(On100MsPassed(e) \/ On100MsPassedThrows(e))
  /\ WF_vars(PeriodEnds)

FairSpec == Spec /\ Fairness
--------------------------------------------------------------------------------
(* Properties. *)

(* Every member has its type; in particular a retry counter never goes     *)
(* below 0 (it is an unsigned int) and a time stays within 32 bits.        *)
TypeOK ==
  /\ udp_interface \in [Endpoints -> BOOLEAN]
  /\ active_messages \in [Endpoints -> SUBSET ActiveNetworkMessage]
  /\ next_active_message_id \in [Endpoints -> Ids]
  /\ time_in_deciseconds \in [Endpoints -> Times]
  /\ DOMAIN message_reception_times = Endpoints
  /\ \A e \in Endpoints :
       /\ DOMAIN message_reception_times[e] \subseteq Endpoints \X Ids
       /\ message_reception_times[e]
            \in [DOMAIN message_reception_times[e] -> Times]
  /\ max_message_reception_time \in [Endpoints -> ReceptionTimes]
  /\ DOMAIN network \subseteq Packet
  /\ network \in [DOMAIN network -> 0 .. PacketLifetime]
  /\ ticked \subseteq Endpoints
  /\ restarts \in [Endpoints -> Nat]
  /\ \A e \in Endpoints : restarts[e] <= MaxRestarts[e]
  /\ interrupted \subseteq Interruptible
  /\ status \in [Messages -> Statuses]
  /\ received \in [Messages -> Nat]
  /\ cut_off \subseteq Messages
  /\ transmissions \in [Messages -> Nat]

(* A delegate sees a message once, however often it is repeated,           *)
(* duplicated or delayed, whatever is expired meanwhile, and whoever else  *)
(* uses the same id; only a reboot of the receiver, which empties its      *)
(* memory of receptions, can let one message through once more.  (A sender *)
(* whose interface is taken away may repeat a message after any time.)     *)
AtMostOnce ==
  \A m \in Messages :
    Source[m] \notin interrupted => received[m] <= 1 + restarts[Destination[m]]

(* on_send_succeeded tells the truth: the receiver's delegate has seen the *)
(* message, unless the receiver rebooted in the very call that received    *)
(* it, between the acknowledgement and the delegate.  An ack names an id   *)
(* and nothing else, so this rests on the sender's ids; it is only         *)
(* promised for a sender that never rebooted.                              *)
SuccessMeansDelivered ==
  \A m \in Messages :
    status[m] = "succeeded" /\ restarts[Source[m]] = 0 =>
      received[m] >= 1 \/ (m \in cut_off /\ restarts[Destination[m]] > 0)

(* No message is sent more often than once and its retries, and it has     *)
(* been sent that often, less the first time when there was no interface   *)
(* yet, before on_send_failed gives up on it.                              *)
RetryBudget ==
  \A m \in Messages :
    /\ transmissions[m] <= 1 + Retries(m)
    /\ status[m] = "failed" => transmissions[m] >= Retries(m)

(* The memory of receptions is bounded in time: an entry is purged at the  *)
(* latest one period after it expired, also when the clock wraps around in *)
(* between.  (The maximum may have been another one of ReceptionTimes then.*)
(* An endpoint whose interface was taken away does not purge while it has  *)
(* messages to send.)                                                      *)
ReceptionMemoryBounded ==
  \A e \in Endpoints \ interrupted :
    \A key \in DOMAIN message_reception_times[e] :
      \E t \in ReceptionTimes : Age(e, key) < t + ExpiryPeriod

(* What the handlers do is what the layers above rely on: at most one      *)
(* delivery, exactly one outcome, success only after the delivery.         *)
Promise == INSTANCE Transport
ImplementsTransport == Promise!Spec

(* Transport knows of no reboot.  What is left of the promise when there   *)
(* are some: each message of a sender that has not rebooted, also to or    *)
(* past endpoints that have, is accepted at most once, has one outcome,    *)
(* and succeeds only if it was accepted.  To be accepted is to reach the   *)
(* delegate, unless the receiver reboots: a message that it got, forgot in *)
(* a reboot and got again is accepted once, and so is one whose reception  *)
(* a reboot cut off.                                                       *)
Accepted(m) ==
  IF m \in cut_off \/ (restarts[Destination[m]] > 0 /\ received[m] > 0)
    THEN 1 ELSE received[m]

PromiseAbout(m) == INSTANCE Transport WITH
  Messages <- {m},
  status <- [x \in {m} |-> status[x]],
  received <- [x \in {m} |-> Accepted(x)]

PromiseOutlivesReboots ==
  [][\A m \in Messages :
       restarts'[Source[m]] = 0 /\ Source[m] \notin interrupted' =>
         UNCHANGED PromiseAbout(m)!vars \/ PromiseAbout(m)!Next]_vars

(* Every message handed over gets its outcome while there is an interface  *)
(* to send it with.                                                        *)
EventuallySettled ==
  \A m \in Messages :
    (status[m] = "pending" /\ udp_interface[Source[m]])
      ~> (status[m] # "pending" \/ ~udp_interface[Source[m]])
================================================================================
