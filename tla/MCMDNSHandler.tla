----------------------------- MODULE MCMDNSHandler -----------------------------
(***************************************************************************)
(* Instances of MDNSHandler for TLC.                                       *)
(***************************************************************************)
EXTENDS MDNSHandler

(* What the comment on perform_service_query_now says: "Performs a service *)
(* query immediately without waiting for the next scheduled scan."  As     *)
(* long as no scan has begun since the call, none is further away than the *)
(* next tick once the node is not scanning.                                *)
QueryNowIsHonoured ==
  query_now_pending /\ ~is_performing_scan /\ ~zero_period_set
    => time_until_next_scan = 1
================================================================================
