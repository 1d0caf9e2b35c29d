---------------------------------- MODULE Wire ---------------------------------
(***************************************************************************)
(* What the packets between two nodes amount to, whatever their format:    *)
(* messages that are said, any number of times and perhaps with other data *)
(* each time, heard once at most, and confirmed once heard.                *)
(***************************************************************************)
VARIABLES
  said,              \* messages [id, type, data] put on the wire
  heard,             \* messages handed to the receiver's delegate
  confirmed          \* ids the sender has got an acknowledgement for

vars == <<said, heard, confirmed>>

Init == said = {} /\ heard = {} /\ confirmed = {}

Say == said \subseteq said' /\ UNCHANGED <<heard, confirmed>>

(* Nothing is heard that was not said. *)
Hear ==
  /\ \E m \in said : /\ \A x \in heard : x.id # m.id
                     /\ heard' = heard \cup {m}
  /\ UNCHANGED <<said, confirmed>>

Confirm ==
  /\ \E m \in heard : confirmed' = confirmed \cup {m.id}
  /\ UNCHANGED <<said, heard>>

Next == Say \/ Hear \/ Confirm

Spec == Init /\ [][Next]_vars
================================================================================
