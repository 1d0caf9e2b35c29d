-------------------------------- MODULE DataTrees -------------------------------
(***************************************************************************)
(* What looks at all the parts of a data object: its comparison with       *)
(* another one, and what the properties ask about it.                      *)
(***************************************************************************)
EXTENDS DataObject

(* equals; a NaN is not equal to itself. *)
RECURSIVE Equals(_, _)
EqualMembers(v, w) ==
  \A key \in DOMAIN Content(v) :
    /\ key \in DOMAIN Content(w)
    /\ Equals(Content(v)[key], Content(w)[key])
EqualObjects(v, w) ==
  /\ Cardinality(DOMAIN Content(v)) = Cardinality(DOMAIN Content(w))
  /\ EqualMembers(v, w)
EqualArrays(v, w) ==
  /\ Len(Content(v)) = Len(Content(w))
  /\ \A i \in 1 .. Len(Content(v)) : Equals(Content(v)[i], Content(w)[i])

Equals(v, w) ==
  /\ Kind(v) = Kind(w)
  /\ CASE Kind(v) = "null"   -> TRUE
       [] Kind(v) = "number" -> Content(v) = Content(w) /\ Content(v) # NaN
       [] Kind(v) = "array"  -> EqualArrays(v, w)
       [] Kind(v) = "object" -> EqualObjects(v, w)
       [] OTHER              -> Content(v) = Content(w)

--------------------------------------------------------------------------------
(* For the properties. *)

Parts(v) ==
  CASE Kind(v) = "array"  -> {Content(v)[i] : i \in DOMAIN Content(v)}
    [] Kind(v) = "object" -> {Content(v)[key] : key \in DOMAIN Content(v)}
    [] OTHER              -> {}

(* Whether its parts are nested no deeper than that many levels. *)
RECURSIVE FitsInto(_, _)
FitsInto(v, levels) ==
  levels >= 0 /\ \A part \in Parts(v) : FitsInto(part, levels - 1)

(* Whether the number x occurs in it. *)
RECURSIVE Occurs(_, _)
Occurs(v, x) == v = Number(x) \/ \E part \in Parts(v) : Occurs(part, x)
================================================================================
