------------------------------ MODULE MCClock ------------------------------
(***************************************************************************)
(* Small instances of ConsultationClock for TLC.  Two units of TTL let a   *)
(* hold outlast what is left of the budget, two units of budget outlast a  *)
(* dialog; two slots let a timer's handler overlap a command; two units of *)
(* the disconnect grace let a party come back in the middle of it.         *)
(***************************************************************************)
EXTENDS ConsultationClock, TLC

Symmetry == Permutations(Participants) \cup Permutations(Slots)
=============================================================================
