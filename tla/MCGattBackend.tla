--------------------------- MODULE MCGattBackend ---------------------------
(* Three writes of two priorities and of one or two fragments, a queue     *)
(* that the third write can overflow, and a plugin that takes one fragment *)
(* at a time, as the Android and iOS clients do.                           *)
EXTENDS GattBackend
=============================================================================
