------------------------------ MODULE MCGrace ------------------------------
(***************************************************************************)
(* Small instances of DisconnectGrace for TLC: the sockets the parties     *)
(* started with and those of a refresh or a second tab.                    *)
(***************************************************************************)
EXTENDS DisconnectGrace, TLC

CONSTANTS client, expert, c0, e0, ClientSockets, ExpertSockets

MCActors == {client, expert}
MCFirst == {c0, e0}
MCSockets == MCFirst \cup ClientSockets \cup ExpertSockets
MCRegisters == {expert}
MCOwner == [s \in MCSockets |-> IF s \in ClientSockets \cup {c0} THEN client ELSE expert]

Symmetry == Permutations(ClientSockets) \cup Permutations(ExpertSockets)
=============================================================================
