---------------------------- MODULE MCSynchronizer -----------------------------
(***************************************************************************)
(* Instances of Synchronizer for TLC.                                      *)
(***************************************************************************)
EXTENDS Synchronizer, TLC

CONSTANTS a, b, c, home, away, x

(* Only a has objects. *)
OnlyA == [n \in Endpoints |-> IF n = a THEN Names ELSE {}]
(* Nobody, a or everyone changes groups. *)
AllStay == [n \in Endpoints |-> {}]
AMoves == [n \in Endpoints |-> IF n = a THEN Groups ELSE {}]
AllMove == [n \in Endpoints |-> Groups]
SameGroup == [n \in Endpoints |-> home]
(* Nobody or a reboots. *)
NoRestarts == [n \in Endpoints |-> 0]
ARestarts == [n \in Endpoints |-> IF n = a THEN 1 ELSE 0]

--------------------------------------------------------------------------------
(* What the code and its comments say. *)

(* NetworkHandlerDelegateImpl "handles incoming sync, dereg, and           *)
(* req_init_sync messages": an endpoint that has changed to another group, *)
(* and repeats that to everyone it knew, is forgotten by them.  (The code  *)
(* repeats it 100 times, and gives up; here it is repeated on and on.)     *)
LeaversAreForgotten ==
  \A n, e \in Endpoints :
    (\E m \in active_messages : m.type = "dereg" /\ m.src = e /\ m.dst = n)
      ~> (e \notin Known(n) \/ group_name_hash[e] = group_name_hash[n])

(* The library is for "synchronizing small amounts of data over a network" *)
(* of which the NetworkHandler says that messages may arrive out of order: *)
(* unless one of two nodes forgets the other, an endpoint ends up with the *)
(* update that was synchronized to it, or with a later one.                *)
UpdatesArrive ==
  \A n, e \in Endpoints : \A name \in Objects[n] \cap Container :
  \A v \in 1 .. MaxChanges :
    (owed[n][e][name] >= v)
      ~> \/ owed[n][e][name] < v
         \/ /\ n \in Known(e)
            /\ endpoint_to_synchronizables[e][n][name].version >= v
================================================================================
