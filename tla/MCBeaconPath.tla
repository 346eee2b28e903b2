---------------------------- MODULE MCBeaconPath ----------------------------
(* A small instance of BeaconPath.                                         *)
EXTENDS BeaconPath
=============================================================================
