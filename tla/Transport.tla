------------------------------- MODULE Transport -------------------------------
(***************************************************************************)
(* What a NetworkHandler promises to the layers above it, without a word   *)
(* about identifiers, acknowledgements, retries or clocks.                 *)
(*                                                                         *)
(* A message is handed over once.  Its receiver's delegate sees it at most *)
(* once, at any time after that, in any order with other messages, and     *)
(* even after the sender has given up on it.  The sender hears of exactly  *)
(* one outcome (the callbacks of NetworkMessage): on_send_succeeded only   *)
(* if the receiver's delegate has seen the message, on_send_failed or      *)
(* on_cancelled whether it has or not.                                     *)
(***************************************************************************)
EXTENDS Naturals

CONSTANT Messages      \* NetworkMessage objects

VARIABLES
  status,              \* what the sender knows of a message
  received             \* deliveries to the receiver's delegate, per message

vars == <<status, received>>

Outcomes == {"succeeded", "failed", "cancelled"}

Init ==
  /\ status = [m \in Messages |-> "unsent"]
  /\ received = [m \in Messages |-> 0]

(* The application hands a message over. *)
Send(m) ==
  /\ status[m] = "unsent"
  /\ status' = [status EXCEPT ![m] = "pending"]
  /\ UNCHANGED received

(* The receiver's delegate is called with the message. *)
Deliver(m) ==
  /\ status[m] # "unsent"
  /\ received[m] = 0
  /\ received' = [received EXCEPT ![m] = 1]
  /\ UNCHANGED status

(* The sender is told the outcome of the messages in S. *)
Settle(S, outcome) ==
  /\ S # {}
  /\ \A m \in S : /\ status[m] = "pending"
                  /\ outcome = "succeeded" => received[m] = 1
  /\ status' = [m \in Messages |-> IF m \in S THEN outcome ELSE status[m]]
  /\ UNCHANGED received

Next ==
  \/ \E m \in Messages : Send(m) \/ Deliver(m)
  \/ \E S \in SUBSET Messages, outcome \in Outcomes : Settle(S, outcome)

Spec == Init /\ [][Next]_vars
================================================================================
