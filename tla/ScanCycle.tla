------------------------------- MODULE ScanCycle -------------------------------
(***************************************************************************)
(* What the scans of a MDNSHandler promise to the Synchronizer, without a  *)
(* word about countdowns, setters or the mDNS library: scans and pauses    *)
(* take turns, and a scan looks for the group the node had when the scan   *)
(* began, or, once the library has been restarted, for nothing.  The       *)
(* module Synchronizer takes its scans from here (its variable scan).      *)
(***************************************************************************)

CONSTANTS
  Groups,              \* groups a node can be in
  Nothing              \* what is looked for when nothing is

VARIABLES
  scanning,
  group,               \* the node's group
  sought               \* the group looked for

vars == <<scanning, group, sought>>

Init ==
  /\ scanning = FALSE
  /\ group \in Groups
  /\ sought = Nothing

Start ==
  /\ ~scanning
  /\ scanning' = TRUE
  /\ sought' = group
  /\ UNCHANGED group

(* The answers are handed over. *)
Commit ==
  /\ scanning
  /\ scanning' = FALSE
  /\ sought' = Nothing
  /\ UNCHANGED group

(* The node changes its group, or its library is restarted, or both. *)
Change(new) ==
  /\ group' = new
  /\ sought' \in {sought, Nothing}
  /\ UNCHANGED scanning

Next ==
  \/ Start
  \/ Commit
  \/ \E new \in Groups : Change(new)

Spec == Init /\ [][Next]_vars
================================================================================
