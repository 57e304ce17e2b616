---------------------------- MODULE MCSyncProtocol ----------------------------
(* TLC instance of SyncProtocol. *)
EXTENDS SyncProtocol
===============================================================================
