----------------------------- MODULE MCTypeWalk -----------------------------
(* TypeWalk on the types of the beacon chain, with the constants of the    *)
(* library.                                                                *)
EXTENDS TypeWalk, BeaconTypes
=============================================================================
