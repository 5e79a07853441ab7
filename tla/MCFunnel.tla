------------------------------ MODULE MCFunnel ------------------------------
(* Instances of Funnel for TLC: the .cfg files give threads and bounds. *)
EXTENDS Funnel
=============================================================================
