---------------------------- MODULE MCNetworkHandler ---------------------------
(***************************************************************************)
(* Instances of NetworkHandler for TLC: endpoints a and b, and two of the  *)
(* messages first, second and third, which go from a to b, share the ids   *)
(* of a and differ in type and retries.                                    *)
(***************************************************************************)
EXTENDS NetworkHandler, TLC

CONSTANTS a, b, first, second, third

MCSource == [m \in Messages |-> a]
MCDestination == [m \in Messages |-> b]
MCMessageType ==
  [m \in Messages |-> CASE m = first -> "sync"
                        [] m = second -> "msg"
                        [] m = third -> "req_init_sync"]

(* max_retries 0 and 1 are the boundary, 2 the first with a second chance. *)
MCRetries == [m \in Messages |-> CASE m = first -> 2
                                   [] m = second -> 0
                                   [] m = third -> 1]

(* As tight as RetentionAssumption allows for a lifetime of 1 and at most  *)
(* 1 or 2 retries.                                                         *)
MCTight1 == {3}
MCTight2 == {4}
MCTimes == {4, 6}

(* Nobody or everyone reboots, once. *)
NoRestarts == [e \in Endpoints |-> 0]
EveryoneOnce == [e \in Endpoints |-> 1]

================================================================================
