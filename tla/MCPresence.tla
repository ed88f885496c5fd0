----------------------------- MODULE MCPresence -----------------------------
(***************************************************************************)
(* A small instance of ExpertPresence for TLC: two sockets, two handlers   *)
(* of which one is a heartbeat.                                            *)
(***************************************************************************)
EXTENDS ExpertPresence
=============================================================================
