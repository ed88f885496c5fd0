--------------------------- MODULE MCSettlement ---------------------------
(***************************************************************************)
(* Small instances of ConsultationSettlement for TLC.  Two consultations   *)
(* are needed for one to eat into the other's hold, two modes for a client *)
(* to have both open, two slots for two workflows to overlap.              *)
(***************************************************************************)
EXTENDS ConsultationSettlement, TLC

CONSTANT HoldAmount

MCHold == [c \in Consultations |-> HoldAmount]

Symmetry == Permutations(Requests) \cup Permutations(Consultations) \cup Permutations(Modes)
=============================================================================
