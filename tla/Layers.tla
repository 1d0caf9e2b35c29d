-------------------------------- MODULE Layers ---------------------------------
(***************************************************************************)
(* The two halves of the library together: what a Synchronizer takes for   *)
(* granted about its messages is what a NetworkHandler promises.           *)
(*                                                                         *)
(* Synchronizer forgets a message as soon as it cannot matter any more.    *)
(* Here its steps also record what becomes of each message, in two history *)
(* variables that no guard reads, and Transport is instantiated over them, *)
(* one copy for each message: a step that cancels some messages, delivers  *)
(* another and sends more is one step for each of them.                    *)
(*                                                                         *)
(* Transport knows of no reboot.  Followed are the messages a node sends   *)
(* before its first one; and a message that a rebooted receiver has        *)
(* forgotten and gets once more counts as received once, as does one that  *)
(* a reboot kept from the delegate after it was acknowledged.              *)
(***************************************************************************)
EXTENDS Synchronizer

VARIABLES
  status,              \* messages followed -> what their sender has been told
  received             \* messages followed -> how often they were delivered

history == <<status, received>>
layer_vars == <<vars, history>>

Followed == DOMAIN status

(* Messages whose NetworkMessage object or packets exist. *)
UnderWay == {p.message : p \in packets}
Present == active_messages \cup UnderWay

LayersInit ==
  /\ Init
  /\ status = [m \in {} |-> "unsent"]
  /\ received = [m \in {} |-> 0]

(* The messages in M reach the receiver's delegate; those that are given   *)
(* up, and those that are sent and given up in one step, have the outcome. *)
Recorded(outcome, M) ==
  LET followed == Followed \cup {m \in Present' : restarts'[m.src] = 0} IN
  /\ status' =
       [m \in followed |->
          IF m \in active_messages' THEN "pending"
          ELSE IF m \in active_messages \/ m \notin Followed THEN outcome
          ELSE status[m]]
  /\ received' =
       [m \in followed |->
          (IF m \in Followed THEN received[m] ELSE 0) + (IF m \in M THEN 1 ELSE 0)]

(* A reboot tells nobody anything. *)
LayersNext ==
  \/ \E n \in Endpoints : NodeStep(n) /\ Recorded("cancelled", {})
  \/ \E n \in Endpoints : Restart(n) /\ Recorded("pending", {})
  \/ \E m \in active_messages : OnSendSucceeded(m) /\ Recorded("succeeded", {})
  \/ \E m \in active_messages : OnSendFailed(m) /\ Recorded("failed", {})
  \/ \E p \in packets : OnMessageReceived(p) /\ Recorded("cancelled", {p.message})
  \/ \E p \in packets : (Ignore(p) \/ Lose(p)) /\ Recorded("cancelled", {})
  \/ \E p \in packets :
       RestartWhileReceiving(p) /\ Recorded("pending", {p.message})

LayersSpec == LayersInit /\ [][LayersNext]_layer_vars

--------------------------------------------------------------------------------
(* The promise, about a message m. *)

StatusOf(m) == IF m \in Followed THEN status[m] ELSE "unsent"
Receptions(m) ==
  IF m \notin Followed THEN 0
  ELSE IF restarts[m.dst] > 0 /\ received[m] > 0 THEN 1
  ELSE received[m]

Promise(m) == INSTANCE Transport WITH
  Messages <- {m},
  status <- [x \in {m} |-> StatusOf(x)],
  received <- [x \in {m} |-> Receptions(x)]

(* Send(m), and Settle({m}, "cancelled") before anything else happens.     *)
SentAndCancelled(m) ==
  /\ StatusOf(m) = "unsent"
  /\ StatusOf(m)' = "cancelled"
  /\ Receptions(m)' = Receptions(m)

(* Through updates, requests, scans, changes of the group, failures and    *)
(* reboots, every message takes the steps Transport allows it: it is       *)
(* handed over once, it is received once, only after it was handed over,   *)
(* it has one outcome, and succeeds only if received: delivered, that is,  *)
(* or cut off by a reboot of the receiver.                                 *)
UsesTransport ==
  [][\A m \in Followed' :
       UNCHANGED Promise(m)!vars \/ Promise(m)!Next \/ SentAndCancelled(m)]_layer_vars

(* The transport under a Synchronizer is no kinder than Transport, so that *)
(* nothing proved of the Synchronizer rests on more than is promised: a    *)
(* message its sender waits for can fail, it can succeed once it was       *)
(* delivered, and, unless the network may lose it, it can still be         *)
(* delivered for the first time, in any order and however long ago it was  *)
(* given up.  ("dereg" messages, which every receiver drops, excepted.)    *)
NothingWithheld ==
  \A m \in Followed : restarts[m.src] = 0 =>
    /\ status[m] = "pending" <=> m \in active_messages
    /\ status[m] = "pending" /\ received[m] > 0 => m \in arrived
    /\ ~Lossy /\ m.type # "dereg" /\ received[m] = 0 =>
         m \notin handled /\ m \in UnderWay
================================================================================
