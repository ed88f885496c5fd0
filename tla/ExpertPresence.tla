---------------------------- MODULE ExpertPresence ----------------------------
(***************************************************************************)
(* What clients see of one expert: the connection keys in Redis with their *)
(* TTL, the availability in Postgres, the BUSY marker that accepting and   *)
(* ending consultations set and delete, the repair of stale markers, and   *)
(* the status changes published to a client that watches.                  *)
(*                                                                         *)
(* A handler is the list of the awaited calls it has still to make; a      *)
(* repair in the middle of an evaluation puts the calls of setIdle, and of *)
(* the evaluation it ends with, in front of the rest.                      *)
(***************************************************************************)
EXTENDS Integers, Sequences

CONSTANTS
    Sockets,         \* the expert's sockets
    Consultations,   \* consultations of the expert
    Workers,         \* slots for handlers that overlap
    NoOne,           \* no consultation
    AnyOverlap,      \* handlers overlap with any other, not only with heartbeats
    MaxNesting       \* bound: calls a handler has left when another begins

ASSUME NoOneAssumption == NoOne \notin Consultations
ASSUME NestingAssumption == MaxNesting \in Nat /\ AnyOverlap \in BOOLEAN

VARIABLES
    open,       \* sockets the gateway knows
    keys,       \* connection keys alive in Redis
    mode,       \* availability_mode
    marker,     \* the consultation the BUSY marker names
    last,       \* last_status in Redis
    shown,      \* what a watching client shows
    status,     \* consultations.status
    worker,     \* the handler in each slot
    clean,      \* nothing so far that may lose a publication
    steady      \* live consultations whose marker nothing has disturbed

sockets == <<open, keys>>
trust   == <<clean, steady>>
vars    == <<sockets, mode, marker, last, shown, status, worker, trust>>

-----------------------------------------------------------------------------
ClientStatus == {"online", "busy", "offline"}
Statuses     == {"requested", "live", "completed", "cancelled", "reopened", "closed"}

\* The statuses on the list of the repair: a closed consultation is not on it.
Terminal     == {"completed", "cancelled"}

\* The statuses of a consultation that no one continues as it is.
Over         == Terminal \cup {"closed"}

Calls == {"repair", "check", "idle", "busy", "derive", "compare", "announce",
          "answer", "sustain", "rewrite"}

\* evaluateAndPublishStatusChange, unforced and forced.
Evaluate == <<"repair", "derive", "compare">>
Announce == <<"repair", "derive", "announce">>

\* A handler that has still to make the calls in todo.
Doing(todo, c) == [todo |-> todo, c |-> c, new |-> "offline"]

Idle == Doing(<<>>, NoOne)

Init ==
    /\ open = {} /\ keys = {}
    /\ mode = "available"
    /\ marker = NoOne
    /\ last = "none" /\ shown = "offline"
    /\ status = [c \in Consultations |-> "requested"]
    /\ worker = [w \in Workers |-> Idle]
    /\ clean = TRUE /\ steady = {}

-----------------------------------------------------------------------------
(* presence.utils.ts                                                       *)

\* Mutated form: the mode is passed on as the status.
DeriveMode ==
    IF keys = {} THEN "offline"
    ELSE IF marker # NoOne THEN "busy" ELSE mode

DeriveExpertClientStatus ==
    IF keys = {} \/ mode = "unavailable" THEN "offline"
    ELSE IF marker # NoOne THEN "busy" ELSE "online"

-----------------------------------------------------------------------------
(* Handlers begin.                                                         *)

Alone(w) == \A v \in Workers : v # w => worker[v] = Idle

\* A heartbeat that finds keys and marker as they should be.
HeartbeatCalls == {"repair", "check", "sustain", "rewrite"}

IsHeartbeat(todo) == \A i \in DOMAIN todo : todo[i] \in HeartbeatCalls

Beside(w, todo) ==
    /\ \A v \in Workers : Len(worker[v].todo) <= MaxNesting
    /\ \/ AnyOverlap
       \/ IsHeartbeat(todo)
       \/ \A v \in Workers : IsHeartbeat(worker[v].todo)

\* Whoever runs next to another handler may publish after it what was true
\* before, or take away a marker that is newer than what it has read.
Begin(w, todo, c, undisturbed) ==
    /\ worker[w] = Idle
    /\ Beside(w, todo)
    /\ worker' = [worker EXCEPT ![w] = Doing(todo, c)]
    /\ clean' = (clean /\ Alone(w))
    /\ steady' = IF Alone(w) THEN undisturbed ELSE {}

\* Mutated form: the evaluation of a connect is never forced.
ForcedNever(offline) == Evaluate

Forced(offline) == IF offline THEN Announce ELSE Evaluate

Connect(w, s) ==
    /\ s \notin open \cup keys
    /\ open' = open \cup {s}
    /\ keys' = keys \cup {s}
    /\ Begin(w, Forced(keys = {}), NoOne, steady)
    /\ UNCHANGED <<mode, marker, last, shown, status>>

Disconnect(w, s) ==
    /\ s \in open
    /\ open' = open \ {s}
    /\ keys' = keys \ {s}
    /\ Begin(w, Evaluate, NoOne, steady)
    /\ UNCHANGED <<mode, marker, last, shown, status>>

\* Repairs or refreshes the marker; a key that had expired comes back.
Heartbeat(w, s) ==
    /\ s \in open
    /\ keys' = keys \cup {s}
    /\ Begin(w, <<"repair", "sustain">> \o (IF s \in keys THEN <<>> ELSE Announce),
             NoOne, steady)
    /\ UNCHANGED <<open, mode, marker, last, shown, status>>

SetAvailability(w) ==
    /\ mode' = IF mode = "available" THEN "unavailable" ELSE "available"
    /\ Begin(w, Evaluate, NoOne, steady)
    /\ UNCHANGED <<sockets, marker, last, shown, status>>

\* The watching client asks for the status.
GetFullStatus(w) ==
    /\ Begin(w, <<"repair", "derive", "answer">>, NoOne, steady)
    /\ UNCHANGED <<sockets, mode, marker, last, shown, status>>

\* The expert accepts; of two live consultations the marker names the later.
Accept(w, c) ==
    /\ status[c] \in {"requested", "reopened"}
    /\ status' = [status EXCEPT ![c] = "live"]
    /\ Begin(w, <<"busy">> \o Evaluate, c,
             IF \A d \in Consultations : status[d] # "live" THEN {c} ELSE {})
    /\ UNCHANGED <<sockets, mode, marker, last, shown>>

\* An end sets the expert idle, whether or not it was the consultation that
\* had the expert busy, and whether or not it ended anything.
End(w, c) ==
    /\ status' = [status EXCEPT ![c] = IF @ = "live" THEN "completed" ELSE @]
    /\ Begin(w, <<"idle">> \o Evaluate, NoOne, {})
    /\ UNCHANGED <<sockets, mode, marker, last, shown>>

-----------------------------------------------------------------------------
(* Handlers go on.                                                         *)

At(w, call) == worker[w].todo # <<>> /\ Head(worker[w].todo) = call

\* The call is made, then those in todo, then what was left.
Then(w, todo, c, new) ==
    LET left == todo \o Tail(worker[w].todo)
    IN  worker' = [worker EXCEPT ![w] =
                     IF left = <<>> THEN Idle ELSE [todo |-> left, c |-> c, new |-> new]]

Go(w, todo) == Then(w, todo, NoOne, "offline")

\* GET of the marker.
RepairStaleBusyMarker(w) ==
    /\ At(w, "repair")
    /\ Then(w, IF marker = NoOne THEN <<>> ELSE <<"check">>, marker, "offline")
    /\ UNCHANGED <<sockets, mode, marker, last, shown, status, trust>>

\* Mutated form: an accepted consultation counts as terminal.
StaleUnlessRequested(c) == status[c] # "requested"

\* Mutated form: only a cancelled consultation is terminal.
StaleIfCancelled(c) == status[c] = "cancelled"

IsBusyMarkerStale(c) == status[c] \in Terminal

\* A stale marker is released by setIdle, which evaluates; sustain is then
\* skipped.
Check(w) ==
    /\ At(w, "check")
    /\ LET todo == worker[w].todo IN
       IF ~IsBusyMarkerStale(worker[w].c) THEN Go(w, <<>>)
       ELSE IF Len(todo) > 1 /\ todo[2] = "sustain"
            THEN worker' = [worker EXCEPT ![w] =
                     Doing(<<"idle">> \o Evaluate \o SubSeq(todo, 3, Len(todo)), NoOne)]
            ELSE Go(w, <<"idle">> \o Evaluate)
    /\ UNCHANGED <<sockets, mode, marker, last, shown, status, trust>>

SetIdle(w) ==
    /\ At(w, "idle")
    /\ marker' = NoOne
    /\ Go(w, <<>>)
    /\ UNCHANGED <<sockets, mode, last, shown, status, trust>>

SetBusy(w) ==
    /\ At(w, "busy")
    /\ marker' = worker[w].c
    /\ Go(w, <<>>)
    /\ UNCHANGED <<sockets, mode, last, shown, status, trust>>

\* sustainBusyMarker: the value is read ...
Sustain(w) ==
    /\ At(w, "sustain")
    /\ Then(w, IF marker = NoOne THEN <<>> ELSE <<"rewrite">>, marker, "offline")
    /\ UNCHANGED <<sockets, mode, marker, last, shown, status, trust>>

\* ... and written back with a new TTL.
RefreshConsultationMarker(w) ==
    /\ At(w, "rewrite")
    /\ marker' = worker[w].c
    /\ Go(w, <<>>)
    /\ UNCHANGED <<sockets, mode, last, shown, status, trust>>

GetStatus(w) ==
    /\ At(w, "derive")
    /\ Then(w, <<>>, NoOne, DeriveExpertClientStatus)
    /\ UNCHANGED <<sockets, mode, marker, last, shown, status, trust>>

ShouldPublish(w) ==
    \/ worker[w].new # last
    \/ At(w, "announce") /\ worker[w].new # "offline"

\* getLastStatus, setLastStatus and publish.  Who comes between them is another
\* evaluation, and then clean is lost already.
PublishStatusChange(w) ==
    /\ At(w, "compare") \/ At(w, "announce")
    /\ IF ShouldPublish(w)
       THEN last' = worker[w].new /\ shown' = worker[w].new
       ELSE UNCHANGED <<last, shown>>
    /\ Go(w, <<>>)
    /\ UNCHANGED <<sockets, mode, marker, status, trust>>

\* The answer reaches the watching client.
Answer(w) ==
    /\ At(w, "answer")
    /\ shown' = worker[w].new
    /\ Go(w, <<>>)
    /\ UNCHANGED <<sockets, mode, marker, last, status, trust>>

-----------------------------------------------------------------------------
(* What happens around the handlers.                                       *)

\* Cancelled, rejected or dropped: nothing is told to the presence.
Cancel(c) ==
    /\ status[c] \in {"requested", "live"}
    /\ status' = [status EXCEPT ![c] = "cancelled"]
    /\ UNCHANGED <<sockets, mode, marker, last, shown, worker, trust>>

\* A completed consultation is requested again.
Reopen(c) ==
    /\ status[c] = "completed"
    /\ status' = [status EXCEPT ![c] = "reopened"]
    /\ UNCHANGED <<sockets, mode, marker, last, shown, worker, trust>>

\* The expert closes it for good: nothing is told to the presence.
Close(c) ==
    /\ status[c] \in {"completed", "reopened"}
    /\ status' = [status EXCEPT ![c] = "closed"]
    /\ UNCHANGED <<sockets, mode, marker, last, shown, worker, trust>>

\* Ninety seconds without a heartbeat.  Nothing is published.
KeyExpires(s) ==
    /\ s \in keys
    /\ keys' = keys \ {s}
    /\ UNCHANGED <<open, mode, marker, last, shown, status, worker, trust>>

\* Fifteen minutes without a heartbeat, mostly of an expert who is away.
MarkerExpires ==
    /\ marker # NoOne
    /\ marker' = NoOne
    /\ clean' = (clean /\ keys = {})
    /\ steady' = steady \ {marker}
    /\ UNCHANGED <<sockets, mode, last, shown, status, worker>>

Evaluating == {"compare", "announce"}

Pending(w, call) == \E i \in DOMAIN worker[w].todo : worker[w].todo[i] = call

\* The server dies with its handlers and sockets, comes back and sweeps: a
\* marker that names a terminal consultation is released.
Restart(w) ==
    /\ open' = {}
    /\ worker' = [v \in Workers |->
                    IF v = w /\ marker # NoOne /\ IsBusyMarkerStale(marker)
                    THEN Doing(<<"idle">> \o Evaluate, NoOne) ELSE Idle]
    /\ clean' = (clean /\ \A v \in Workers : \A call \in Evaluating :
                            ~Pending(v, call))
    /\ steady' = {c \in steady : \A v \in Workers : ~Pending(v, "busy")}
    /\ UNCHANGED <<keys, mode, marker, last, shown, status>>

-----------------------------------------------------------------------------
BeginOn(w) ==
    \/ \E s \in Sockets : Connect(w, s) \/ Disconnect(w, s) \/ Heartbeat(w, s)
    \/ SetAvailability(w) \/ GetFullStatus(w)
    \/ \E c \in Consultations : Accept(w, c) \/ End(w, c)

Step(w) ==
    \/ RepairStaleBusyMarker(w) \/ Check(w) \/ SetIdle(w) \/ SetBusy(w)
    \/ Sustain(w) \/ RefreshConsultationMarker(w)
    \/ GetStatus(w) \/ PublishStatusChange(w) \/ Answer(w)

Next ==
    \/ \E w \in Workers : BeginOn(w) \/ Step(w) \/ Restart(w)
    \/ \E c \in Consultations : Cancel(c) \/ Reopen(c) \/ Close(c)
    \/ \E s \in Sockets : KeyExpires(s)
    \/ MarkerExpires

Spec == Init /\ [][Next]_vars

\* Calls return, an open socket sends its heartbeats, and TTLs run out of
\* keys that nobody refreshes.
Fairness ==
    /\ \A w \in Workers : WF_vars(Step(w))
    /\ \A s \in Sockets : WF_vars(\E w \in Workers : Heartbeat(w, s))
    /\ \A s \in Sockets : WF_vars(s \notin open /\ KeyExpires(s))
    /\ WF_vars(keys = {} /\ MarkerExpires)

FairSpec == Spec /\ Fairness

-----------------------------------------------------------------------------
Handlers == [todo : Seq(Calls), c : Consultations \cup {NoOne}, new : ClientStatus]

\* Keys, markers, statuses and handlers stay well formed.
TypeOK ==
    /\ open \subseteq Sockets /\ keys \subseteq Sockets
    /\ mode \in {"available", "unavailable"}
    /\ marker \in Consultations \cup {NoOne}
    /\ last \in ClientStatus \cup {"none"} /\ shown \in ClientStatus
    /\ status \in [Consultations -> Statuses]
    /\ worker \in [Workers -> Handlers]
    /\ clean \in BOOLEAN /\ steady \subseteq Consultations

Quiet == \A w \in Workers : worker[w] = Idle

\* When nothing is under way and the expert is connected, a watching client
\* shows the status the expert has, through expired keys, revivals, several
\* sockets, repairs and restarts.  Claimed of clean histories only: where two
\* evaluations overlapped, a marker ran out beside a key, or a restart took an
\* evaluation with it, a publication may be lost or late and nothing repeats it.
ShownIsTrue == clean /\ Quiet /\ open \cap keys # {} => shown = DeriveExpertClientStatus

\* While a consultation is live, the expert's marker names it: claimed of those
\* accepted alone, which no end and no overlap has disturbed.
LiveIsBusy ==
    \A c \in steady :
        status[c] = "live" =>
            marker = c \/ \E w \in Workers : At(w, "busy") /\ worker[w].c = c

\* The marker of a consultation that is completed or cancelled goes, whatever
\* handlers overlap and whenever the server restarts, unless the consultation
\* is reopened or closed meanwhile.
StaleMarkerGoes ==
    \A c \in Consultations :
        marker = c /\ status[c] \in Terminal ~> marker # c \/ status[c] \notin Terminal

\* "Consultation rows that can never go live again: a BUSY marker naming one is
\* stale", and goes.  TLC refutes this comment of the code: the marker of a
\* closed one, left by a crash or written back by a heartbeat, lives as long as
\* the expert is connected.
OverMarkerGoes ==
    \A c \in Consultations :
        marker = c /\ status[c] \in Over ~> marker # c \/ status[c] \notin Over
=============================================================================
