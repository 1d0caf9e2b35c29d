------------------------------- MODULE MCLayers --------------------------------
(***************************************************************************)
(* Instances of Layers for TLC.                                            *)
(***************************************************************************)
EXTENDS MCSynchronizer, Layers
================================================================================
