------------------------------- MODULE MCPuja -------------------------------
(***************************************************************************)
(* A small instance of PujaAppointments for TLC.  The expert of a1 and the *)
(* client of a2 were referred by agent g1, the client of a1 and the expert *)
(* of a2 by agent g2: confirmed together, a1 and a2 lock g1 and g2 in      *)
(* opposite orders.  The client of a1 also books a3, whose expert was      *)
(* referred by g3, who has no agent profile: the balance is enough for     *)
(* both unless a1 was repriced.                                            *)
(***************************************************************************)
EXTENDS PujaAppointments, TLC

CONSTANTS a1, a2, a3, c1, c2, e1, e2, e3, g1, g2, g3

MCAccounts == {c1, c2, e1, e2, e3, g1, g2, g3}
MCClient   == a1 :> c1 @@ a2 :> c2 @@ a3 :> c1
MCExpert   == a1 :> e1 @@ a2 :> e2 @@ a3 :> e3
MCReferrer == (c1 :> g2 @@ c2 :> g1 @@ e1 :> g1 @@ e2 :> g2 @@ e3 :> g3) @@
              [p \in MCAccounts |-> Nobody]
MCInitial  == (c1 :> 2000 @@ c2 :> 1000) @@ [p \in MCAccounts |-> 0]
MCPrices   == a1 :> {1400} @@ [a \in Appointments |-> {}]

\* An expert leaves confirmed appointments alone and confirms none.
MCExpertMoves ==
    {<<"pending", "accepted">>, <<"pending", "rejected">>, <<"accepted", "on_hold">>}
=============================================================================
