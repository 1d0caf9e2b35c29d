------------------------------- MODULE DataObject ------------------------------
(***************************************************************************)
(* Data objects: the values that messages consist of, immutable trees of   *)
(* null, numbers, Booleans, strings, arrays and objects.                   *)
(*                                                                         *)
(* A value is a pair of its kind and its content.  A number is given in    *)
(* halves, so that 3 stands for 1.5 and rounding is visible; NaN and Inf   *)
(* stand for the doubles that are not finite.  A string is a sequence of   *)
(* symbols, an object a function from strings to values.                   *)
(***************************************************************************)
EXTENDS Integers, Sequences, FiniteSets

CONSTANTS NaN, Inf
NonFinite == {NaN, Inf}

Null == <<"null">>
Number(halves) == <<"number", halves>>
Bool(b) == <<"bool", b>>
String(symbols) == <<"string", symbols>>
Array(items) == <<"array", items>>
Object(members) == <<"object", members>>

Kind(v) == v[1]
Content(v) == v[2]
Items(v) == IF Kind(v) = "array" THEN Content(v) ELSE <<>>

(* string_value().value_or(default) *)
StringValueOr(v, default) == IF Kind(v) = "string" THEN Content(v) ELSE default

(* std::round: halfway cases are rounded away from zero. *)
Truncated(halves) ==                                                \* mutant
  IF halves >= 0 THEN halves \div 2 ELSE -((-halves) \div 2)
Rounded(halves) ==
  IF halves >= 0 THEN (halves + 1) \div 2 ELSE -((1 - halves) \div 2)

(* int_value().value_or(default), for a finite number: what the conversion *)
(* of any other to int64_t yields is undefined.                            *)
IntValueOr(v, default) ==
  IF Kind(v) = "number" THEN Rounded(Content(v)) ELSE default
================================================================================
