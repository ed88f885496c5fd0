-------------------------- MODULE DisconnectGrace --------------------------
(***************************************************************************)
(* What the sockets of a running consultation's two parties do to it: a    *)
(* refresh, a lost connection, several tabs.                               *)
(*                                                                         *)
(* handleConnection and handleDisconnect are async.  Each socket may have  *)
(* both under way at once, and the sockets of one actor overlap: a step    *)
(* below is what runs between two awaits.  One timer per actor closes the  *)
(* sessions of an actor that stays away.  What a budget timer does when it *)
(* fires is the matter of ConsultationClock.                               *)
(***************************************************************************)
EXTENDS Integers, FiniteSets

CONSTANTS
    Actors,      \* client and expert
    Connections, \* connections made, each once
    Owner,       \* the actor of each socket
    First,       \* the sockets the parties started the session with
    Nobody,      \* not an actor
    Registers,   \* actors whose disconnect first leaves the presence set (the expert)
    MaxComputing, \* bound: a party's resume or rejoin adds no computation beyond these
    MaxResumes   \* bound: sessions resumed

\* What the constants are.
Parties ==
    /\ Owner \in [Connections -> Actors]
    /\ First \subseteq Connections
    /\ Registers \subseteq Actors
    /\ MaxComputing \in Nat /\ MaxResumes \in Nat
    /\ Nobody \notin Actors

\* The session was started by sockets of both parties.
BothStarted == \A a \in Actors : \E s \in First : Owner[s] = a

ASSUME GraceAssumption == Parties
ASSUME StartAssumption == BothStarted

VARIABLES
    link,     \* transport of each socket
    identity, \* sockets whose data.auth is set
    conn,     \* handleConnection of each socket
    disc,     \* handleDisconnect of each socket
    grace,    \* actors with a grace timer
    closing,  \* actors whose timer has fired and whose sessions are being closed
    session,  \* the consultation, its open session and who closed it
    budget,   \* the budget timer and the computations that will set it
    resumes,
    away      \* actors that have been without a live socket

graceVars == <<link, identity, conn, disc, grace, closing, session, budget, resumes, away>>
connections == <<link, identity, conn, disc>>
timers == <<grace, closing>>

-----------------------------------------------------------------------------
GraceInit ==
    /\ link = [s \in Connections |-> IF s \in First THEN "up" ELSE "new"]
    /\ identity = First
    /\ conn = [s \in Connections |-> IF s \in First THEN "done" ELSE "idle"]
    /\ disc = [s \in Connections |-> "idle"]
    /\ grace = {}
    /\ closing = {}
    /\ session = [active |-> TRUE, open |-> TRUE, closedBy |-> Nobody]
    /\ budget = [set |-> TRUE, arming |-> 0]
    /\ resumes = 0
    /\ away = {}

SocketsOf(a) == {s \in Connections : Owner[s] = a}

\* hasLiveActorSocket: connected and authenticated.
LiveSockets(a) == {s \in SocketsOf(a) : link[s] = "up" /\ s \in identity}

Present(a) == LiveSockets(a) # {}

\* armBudgetTimer: the timer is cancelled, a computation will set it.
ArmBudget == [set |-> FALSE, arming |-> budget.arming + 1]

-----------------------------------------------------------------------------
(* Connections.                                                            *)

HandleConnection(s) ==
    /\ link[s] = "new"
    /\ link' = [link EXCEPT ![s] = "up"]
    /\ conn' = [conn EXCEPT ![s] = "authenticating"]
    /\ UNCHANGED <<identity, disc, timers, session, budget, resumes, away>>

\* The token is verified, whatever became of the socket meanwhile: the actor's
\* grace is cancelled.
Authenticate(s) ==
    /\ conn[s] = "authenticating"
    /\ identity' = identity \cup {s}
    /\ grace' = grace \ {Owner[s]}
    /\ conn' = [conn EXCEPT ![s] = "resuming"]
    /\ UNCHANGED <<link, disc, closing, session, budget, resumes, away>>

\* resumeActiveConsultationTimers
ResumeTimers(s) ==
    /\ conn[s] = "resuming"
    /\ conn' = [conn EXCEPT ![s] = "done"]
    /\ budget' = IF session.active THEN ArmBudget ELSE budget
    /\ UNCHANGED <<link, identity, disc, timers, session, resumes, away>>

-----------------------------------------------------------------------------
(* Disconnections.                                                         *)

\* Mutated form: the other tabs are not looked for.
AfterCheckSkipped(s, live) == "pausing"

\* Mutated form: the socket that leaves counts as a live tab.
AfterCheckSelf(s, live) == IF live = {} THEN "pausing" ELSE "done"

\* The state of a disconnect that has looked for another live tab.
AfterCheck(s, live) == IF live \ {s} = {} THEN "pausing" ELSE "done"

\* The transport goes.  The server forgets the socket, then handleDisconnect
\* runs: for a socket that has no identity yet it does nothing.
Drop(s) ==
    /\ link[s] = "up"
    /\ link' = [link EXCEPT ![s] = "down"]
    /\ disc' = [disc EXCEPT ![s] =
                  IF s \notin identity THEN "anonymous"
                  ELSE IF Owner[s] \in Registers THEN "unregistering"
                  ELSE AfterCheck(s, LiveSockets(Owner[s]))]
    /\ away' = IF s \in identity /\ LiveSockets(Owner[s]) \subseteq {s}
               THEN away \cup {Owner[s]} ELSE away
    /\ UNCHANGED <<identity, conn, timers, session, budget, resumes>>

\* The expert's socket has left the presence set; now the tabs are looked at.
Unregistered(s) ==
    /\ disc[s] = "unregistering"
    /\ disc' = [disc EXCEPT ![s] = AfterCheck(s, LiveSockets(Owner[s]))]
    /\ UNCHANGED <<link, identity, conn, timers, session, budget, resumes, away>>

\* Mutated form: the grace is kept by socket.
PauseTimersBySocket(s) ==
    /\ disc[s] = "pausing"
    /\ disc' = [disc EXCEPT ![s] = "done"]
    /\ budget' = IF session.active THEN [budget EXCEPT !.set = FALSE] ELSE budget
    /\ grace' = grace \cup {s}
    /\ UNCHANGED <<link, identity, conn, closing, session, resumes, away>>

\* pauseActiveConsultationTimers, then the grace is armed.
PauseTimers(s) ==
    /\ disc[s] = "pausing"
    /\ disc' = [disc EXCEPT ![s] = "done"]
    /\ budget' = IF session.active THEN [budget EXCEPT !.set = FALSE] ELSE budget
    /\ grace' = grace \cup {Owner[s]}
    /\ UNCHANGED <<link, identity, conn, closing, session, resumes, away>>

-----------------------------------------------------------------------------
(* Timers.                                                                 *)

GraceFires(a) ==
    /\ a \in grace
    /\ grace' = grace \ {a}
    /\ closing' = closing \cup {a}
    /\ UNCHANGED <<connections, session, budget, resumes, away>>

\* closeActiveConsultationSessions: the open session is closed, the
\* consultation stays active.
CloseSessions(a) ==
    /\ a \in closing
    /\ closing' = closing \ {a}
    /\ session' = IF session.active /\ session.open
                  THEN [session EXCEPT !.open = FALSE, !.closedBy = a] ELSE session
    /\ UNCHANGED <<connections, grace, budget, resumes, away>>

ArmCompletes ==
    /\ budget.arming > 0
    /\ budget' = [set |-> TRUE, arming |-> budget.arming - 1]
    /\ UNCHANGED <<connections, timers, session, resumes, away>>

-----------------------------------------------------------------------------
(* The parties.                                                            *)

Rejoin(a) ==
    /\ Present(a)
    /\ session.active
    /\ budget.arming < MaxComputing
    /\ budget' = ArmBudget
    /\ UNCHANGED <<connections, timers, session, resumes, away>>

ResumeByParty(a) ==
    /\ Present(a)
    /\ session.active /\ ~session.open
    /\ resumes < MaxResumes
    /\ resumes' = resumes + 1
    /\ session' = [session EXCEPT !.open = TRUE, !.closedBy = Nobody]
    /\ budget' = ArmBudget
    /\ UNCHANGED <<connections, timers, away>>

\* The orchestrator's end; it knows nothing of these timers.
EndByParty(a) ==
    /\ Present(a)
    /\ session.active
    /\ session' = [session EXCEPT !.active = FALSE, !.open = FALSE]
    /\ budget' = [budget EXCEPT !.set = FALSE]
    /\ UNCHANGED <<connections, timers, resumes, away>>

-----------------------------------------------------------------------------
Continuations(s) == Authenticate(s) \/ ResumeTimers(s) \/ Unregistered(s) \/ PauseTimers(s)

GraceNext ==
    \/ \E s \in Connections : HandleConnection(s) \/ Drop(s) \/ Continuations(s)
    \/ \E a \in Actors :
         GraceFires(a) \/ CloseSessions(a) \/ Rejoin(a) \/ ResumeByParty(a) \/ EndByParty(a)
    \/ ArmCompletes

\* Promises settle and timers fire; no party connects, leaves or presses
\* anything unless it likes.
GraceFairness ==
    /\ \A s \in Connections : WF_graceVars(Continuations(s))
    /\ \A a \in Actors : WF_graceVars(GraceFires(a)) /\ WF_graceVars(CloseSessions(a))
    /\ WF_graceVars(ArmCompletes)

GraceSpec == GraceInit /\ [][GraceNext]_graceVars

GraceFairSpec == GraceSpec /\ GraceFairness

-----------------------------------------------------------------------------
(* Properties.                                                             *)

\* Every variable has its type; timers are kept by actor, not by socket.
GraceTypeOK ==
    /\ link \in [Connections -> {"new", "up", "down"}]
    /\ identity \subseteq Connections
    /\ conn \in [Connections -> {"idle", "authenticating", "resuming", "done"}]
    /\ disc \in [Connections -> {"idle", "unregistering", "pausing", "done", "anonymous"}]
    /\ grace \subseteq Actors
    /\ closing \subseteq Actors
    /\ session \in [active : BOOLEAN, open : BOOLEAN, closedBy : Actors \cup {Nobody}]
    /\ budget \in [set : BOOLEAN, arming : Nat]
    /\ resumes \in 0..MaxResumes
    /\ away \subseteq Actors

\* Several tabs: an actor that has kept a live socket all the time has no grace
\* running and no session is closed on its account, however its other sockets
\* come and go.
TabProtects == \A a \in Actors \ away :
    a \notin grace /\ a \notin closing /\ session.closedBy # a

\* An actor with no connection, not even one being authenticated.
Gone(a) == \A s \in SocketsOf(a) : link[s] # "up"

\* A socket of the actor was lost while its token was being verified.
LostEarly(a) == \E s \in SocketsOf(a) : disc[s] = "anonymous"

\* An actor that stays away has its session closed; otherwise it is back or
\* the consultation is over.  One that has lost a socket while authenticating
\* is excepted, since the code takes that socket for its return and never sees
\* it leave, and so is a session that the other party alone has resumed.
AbsenceCloses == \A a \in Actors :
    Gone(a) /\ ~LostEarly(a) /\ resumes = 0 ~> ~Gone(a) \/ ~session.open
=============================================================================
