------------------------- MODULE ConsultationClock -------------------------
(***************************************************************************)
(* The meter of one consultation and the timers that act on it.            *)
(*                                                                         *)
(* Its state lives in three places: timers in the memory of the process    *)
(* (lost in a crash), keys in Redis with their TTLs, and rows in Postgres. *)
(* The commands pause, resume and end are async handlers that read first   *)
(* and write later; handler slot h runs run[h].                            *)
(*                                                                         *)
(* Time passes in units, in Tick, and only between handlers: a handler     *)
(* takes no time, but handlers interleave.  Timers and TTLs count down;    *)
(* one at 0 is due, and nothing orders a timer of the process and a key of *)
(* Redis that are due in the same unit.                                    *)
(***************************************************************************)
EXTENDS Integers, FiniteSets

CONSTANTS
    Participants, \* the two parties
    Slots,       \* handler slots
    Modes,       \* modes it may have: "chat", "call" (voice and video)
    Commands,    \* commands the parties send
    FromLobby,   \* whether a party may pause or resume before the start
    CrashAnywhere, \* whether a crash may hit a handler between its steps
    Budget,      \* affordable units at the start
    TopUp,       \* units a recharge adds
    Ttl,         \* units of the pause window, the billing hold and the grace (300 s)
    DialogGrace, \* units of the cancel dialog's grace (30 s)
    LeaveGrace,  \* units of the grace of a party whose socket was lost (30 s)
    MaxElapsed,  \* bound: ages saturate here
    MaxCommands, \* bound: commands sent
    MaxArming,   \* bound: joins add no budget computation beyond these
    MaxCrashes   \* bound: crashes of the process

\* What the constants are.
Bounds ==
    /\ Modes \subseteq {"chat", "call"}
    /\ FromLobby \in BOOLEAN /\ CrashAnywhere \in BOOLEAN
    /\ Budget \in Nat /\ TopUp \in Nat /\ MaxElapsed \in Nat
    /\ Ttl \in Nat \ {0} /\ DialogGrace \in Nat \ {0} /\ LeaveGrace \in Nat \ {0}

ASSUME ClockAssumption == Bounds

VARIABLES
    up,     \* the process runs
    memory, \* its timers
    redis,  \* the room keys
    db,     \* the consultation and its latest session
    joined, \* parties that joined the room before the start
    ready,  \* parties that reported media_ready
    gone,   \* parties without a socket
    leaving, \* parties whose handleDisconnect awaits its query
    leave,  \* the disconnect grace of each party, in the process's memory
    run,    \* the handler in each slot
    wall,   \* units since the start
    talked, \* units with a session open and no billing hold
    sent,   \* commands sent so far
    crashes

clockVars == <<up, memory, redis, db, joined, ready, gone, leaving, leave, run, wall, talked,
               sent, crashes>>
absence == <<gone, leaving, leave>>
people == <<joined, ready, gone, leaving, leave>>
ghosts == <<wall, talked, crashes>>

-----------------------------------------------------------------------------
Off == -1

NoTimers == [budget |-> Off, strays |-> {}, recon |-> FALSE,
             grace |-> Off, hold |-> Off, arming |-> 0]

NoLeave == [a \in Participants |-> Off]

IdleRun == [op |-> "idle", at |-> "idle", spent |-> 0, live |-> FALSE, delay |-> Off]

LiveStatuses == {"accepted", "active"}

ClockInit ==
    /\ up = TRUE
    /\ memory = NoTimers
    /\ redis = [base |-> Off, age |-> 0, held |-> Off, paused |-> Off]
    /\ \E mode \in Modes :
         db = [status |-> "accepted", mode |-> mode, open |-> FALSE, since |-> Off,
               budget |-> Budget, billed |-> Off]
    /\ joined = {}
    /\ ready = {}
    /\ gone = {}
    /\ leaving = {}
    /\ leave = NoLeave
    /\ run = [h \in Slots |-> IdleRun]
    /\ wall = 0
    /\ talked = 0
    /\ sent = 0
    /\ crashes = 0

Capped(n) == IF n > MaxElapsed THEN MaxElapsed ELSE n

Held == redis.held # Off

\* Mutated form: the missing start of a session is not caught.
SessionAgeRaw == db.since

\* Nothing before a session has started.
SessionAge == IF db.since = Off THEN 0 ELSE db.since

\* Seconds consumed: frozen at the base while held, else the base and the time
\* since the anchor, or the age of the latest session when there is no anchor.
Elapsed ==
    IF Held THEN (IF redis.base # Off THEN redis.base ELSE 0)
    ELSE IF redis.base # Off THEN Capped(redis.base + redis.age)
    ELSE SessionAge

Remaining == IF Elapsed >= db.budget THEN 0 ELSE db.budget - Elapsed

-----------------------------------------------------------------------------
(* Timers in memory.                                                       *)

\* Clears the timer the map knows; one that was replaced there runs on.
NoBudgetTimer(m) == [m EXCEPT !.budget = Off, !.recon = FALSE]

\* Mutated form: what is armed is cancelled and nothing armed in its place.
ArmingDropped(m) == NoBudgetTimer(m)

\* armBudgetTimer: what is armed is cancelled now, the new timer is set when
\* the affordability has been computed.
Arming(m) == [NoBudgetTimer(m) EXCEPT !.arming = @ + 1]

\* Mutated form: the timer is set for one unit more than is left.
ArmedLate(m, n) == [m EXCEPT !.arming = @ - 1, !.budget = n + 1, !.recon = TRUE]

\* A budget timer, with the one the map held before left to run.
Armed(m, n) == [m EXCEPT !.arming = @ - 1, !.budget = n, !.recon = TRUE,
                         !.strays = IF m.budget = Off THEN @ ELSE @ \cup {m.budget}]

Free(h) == up /\ run[h] = IdleRun

-----------------------------------------------------------------------------
(* Pause, for the reasons "manual", "hold" (a billing hold), "dialog" (a   *)
(* billing hold with the cancel dialog's grace) and "broke" (the budget is *)
(* exhausted).  m is the memory the caller leaves behind, delay the grace  *)
(* that boot recovery passes.                                              *)

PauseReasons == {"manual", "hold", "dialog", "broke"}

\* Timers are cancelled at once; the use case reads the row and the meter.
\* A consultation that is over is left alone.
Pausing(h, reason, m, delay) ==
    /\ memory' = [NoBudgetTimer(m) EXCEPT !.hold = Off]
    /\ run' = IF db.status \in LiveStatuses
              THEN [run EXCEPT ![h] = [op |-> reason, at |-> "write", spent |-> Elapsed,
                                       live |-> db.status = "active", delay |-> delay]]
              ELSE [run EXCEPT ![h] = IdleRun]

\* Mutated form: the hold does not anchor the meter anew.
HoldBillingNoAnchor(r) == [redis EXCEPT !.base = r.spent, !.held = Ttl, !.paused = Ttl]

HoldBilling(r) == [redis EXCEPT !.base = r.spent, !.age = 0, !.held = Ttl, !.paused = Ttl]

\* The running session is closed, the hold is placed or cleared, and the room
\* is paused.
PauseWrite(h) ==
    /\ run[h].op \in PauseReasons
    /\ run[h].at = "write"
    /\ db' = [db EXCEPT !.open = @ /\ ~run[h].live]
    /\ redis' = IF run[h].op \in {"hold", "dialog"}
                THEN HoldBilling(run[h])
                ELSE [redis EXCEPT !.held = Off, !.paused = Ttl]
    /\ run' = [run EXCEPT ![h].at = "arm"]
    /\ UNCHANGED <<up, memory, people, ghosts, sent>>

\* Back in the orchestrator: the timer that goes with the reason is armed.
PauseArm(h) ==
    /\ run[h].op \in PauseReasons
    /\ run[h].at = "arm"
    /\ memory' =
         CASE run[h].op = "manual" -> memory
           [] run[h].op = "hold"   -> [memory EXCEPT !.hold = Ttl]
           [] run[h].op = "dialog" -> [memory EXCEPT !.grace = DialogGrace]
           [] run[h].op = "broke"  ->
                [memory EXCEPT !.grace = IF run[h].delay = Off THEN Ttl ELSE run[h].delay]
    /\ run' = [run EXCEPT ![h] = IdleRun]
    /\ UNCHANGED <<up, redis, db, people, ghosts, sent>>

-----------------------------------------------------------------------------
(* Resume.                                                                 *)

\* The grace is cancelled before anything is checked; with nothing left the
\* use case throws, which releaseExpiredHold answers with a budget hold.  The
\* status of the row is not looked at.
Resuming(h, m, refused) ==
    /\ memory' = [m EXCEPT !.grace = Off]
    /\ run' = IF Remaining > 0
              THEN [run EXCEPT ![h] = [IdleRun EXCEPT !.op = "resume", !.at = "insert",
                                                   !.spent = Elapsed]]
              ELSE [run EXCEPT ![h] = refused]

\* A session is inserted when none is open ...
ResumeInsert(h) ==
    /\ run[h].at = "insert"
    /\ db' = IF db.open THEN db ELSE [db EXCEPT !.open = TRUE, !.since = 0]
    /\ run' = [run EXCEPT ![h].at = "anchor"]
    /\ UNCHANGED <<up, memory, redis, people, ghosts, sent>>

\* Mutated form: what was consumed before is forgotten.
ResumeBaseZero(r) == 0

ResumeBase(r) == r.spent

\* ... the meter is anchored at what was read, and the budget timer armed.
ResumeAnchor(h) ==
    /\ run[h].at = "anchor"
    /\ redis' = [base |-> ResumeBase(run[h]), age |-> 0, held |-> Off, paused |-> Off]
    /\ memory' = Arming(memory)
    /\ run' = [run EXCEPT ![h] = IdleRun]
    /\ UNCHANGED <<up, db, people, ghosts, sent>>

\* A hold could not be released: the normal budget hold.
HoldAfterRefusal(h) ==
    /\ run[h].op = "refused"
    /\ Pausing(h, "broke", memory, Off)
    /\ UNCHANGED <<up, redis, db, people, ghosts, sent>>

-----------------------------------------------------------------------------
(* End.                                                                    *)

\* Budget and grace timers are cancelled; the row and the price are read, and
\* whether the consultation ever started.
Ending(h, m) ==
    /\ memory' = [NoBudgetTimer(m) EXCEPT !.grace = Off]
    /\ run' = [run EXCEPT ![h] = [IdleRun EXCEPT !.op = "end", !.at = "commit",
                                              !.spent = Elapsed,
                                              !.live = db.status \in {"active", "completed"}]]

\* The first charge stands: a later end finds no hold to settle.
EndCommit(h) ==
    /\ run[h].at = "commit"
    /\ db' = [db EXCEPT !.status = IF @ \notin LiveStatuses THEN @
                                   ELSE IF run[h].live THEN "completed" ELSE "cancelled",
                        !.open = FALSE,
                        !.billed = IF run[h].live /\ @ = Off THEN run[h].spent ELSE @]
    /\ run' = [run EXCEPT ![h].at = "flush"]
    /\ UNCHANGED <<up, memory, redis, people, ghosts, sent>>

\* The adapter's onEnd drops the room keys.
EndFlush(h) ==
    /\ run[h].at = "flush"
    /\ redis' = [base |-> Off, age |-> 0, held |-> Off, paused |-> Off]
    /\ run' = [run EXCEPT ![h] = IdleRun]
    /\ UNCHANGED <<up, memory, db, people, ghosts, sent>>

-----------------------------------------------------------------------------
(* Commands of the parties.                                                *)

Send(command) ==
    /\ command \in Commands
    /\ db.status = "accepted" => FromLobby \/ command \in {"end", "recharge", "drop"}
    /\ up
    /\ sent < MaxCommands
    /\ sent' = sent + 1

Pause(h, reason) ==
    /\ Free(h)
    /\ Send(reason)
    /\ Pausing(h, reason, memory, Off)
    /\ UNCHANGED <<up, redis, db, people, ghosts>>

Resume(h) ==
    /\ Free(h)
    /\ Send("resume")
    /\ Resuming(h, memory, IdleRun)
    /\ UNCHANGED <<up, redis, db, people, ghosts>>

EndConsultation(h) ==
    /\ Free(h)
    /\ Send("end")
    /\ Ending(h, memory)
    /\ UNCHANGED <<up, redis, db, people, ghosts>>

\* The wallet grows and the affordable time with it; no timer hears of it.
Recharge ==
    /\ Send("recharge")
    /\ db' = [db EXCEPT !.budget = @ + TopUp]
    /\ UNCHANGED <<up, memory, redis, people, run, ghosts>>

\* switchToChat on a consultation that is a chat: three timers are cancelled
\* before the use case refuses.
RefusedSwitch ==
    /\ db.mode = "chat"
    /\ Send("switch")
    /\ memory' = [NoBudgetTimer(memory) EXCEPT !.grace = Off, !.hold = Off]
    /\ UNCHANGED <<up, redis, db, people, run, ghosts>>

\* ACCEPTED -> ACTIVE with the pending session; the budget timer is armed when
\* the rules of the mode allow it.
Started(arms) ==
    /\ db' = [db EXCEPT !.status = "active", !.open = TRUE, !.since = 0]
    /\ redis' = [redis EXCEPT !.held = Off, !.paused = Off]
    /\ memory' = IF arms THEN Arming(memory) ELSE memory

\* Both parties joining starts the session; joining a running one again arms
\* the budget timer again.
Join(a) ==
    /\ memory.arming < MaxArming
    /\ \/ /\ up
          /\ db.status = "accepted"
          /\ a \notin joined \cup gone
          /\ joined' = joined \cup {a}
          /\ sent' = sent
          /\ IF joined' = Participants
             THEN Started(db.mode = "chat" \/ ready = Participants)
             ELSE UNCHANGED <<db, redis, memory>>
       \/ /\ Send("join")
          /\ db.status = "active"
          /\ a \notin gone
          /\ memory' = Arming(memory)
          /\ UNCHANGED <<db, redis, joined>>
    /\ UNCHANGED <<up, ready, absence, run, ghosts>>

\* The second report of a call starts the session, when it has not started.
MediaReady(a) ==
    /\ up
    /\ db.mode = "call"
    /\ a \notin ready \cup gone
    /\ memory.arming < MaxArming
    /\ ready' = ready \cup {a}
    /\ IF ready' = Participants /\ db.status = "accepted"
       THEN Started(TRUE)
       ELSE UNCHANGED <<db, redis, memory>>
    /\ UNCHANGED <<up, joined, absence, run, ghosts, sent>>

-----------------------------------------------------------------------------
(* The sockets of the parties.  DisconnectGrace has them one by one; here  *)
(* a party loses its last socket and connects again.  Another tab of a     *)
(* party that is connected does what a rejoin does.                        *)

\* The last socket of a party goes.  handleDisconnect asks for the active
\* consultations.
LoseSocket(a) ==
    /\ Send("drop")
    /\ a \notin gone \cup leaving
    /\ gone' = gone \cup {a}
    /\ leaving' = leaving \cup {a}
    /\ UNCHANGED <<up, memory, redis, db, joined, ready, leave, run, ghosts>>

\* The answer is there: the budget timer of an active consultation is
\* cancelled, and nothing else of it touched, and the grace is armed, whether
\* or not the party has connected again.
PauseBilling(a) ==
    /\ a \in leaving
    /\ leaving' = leaving \ {a}
    /\ leave' = [leave EXCEPT ![a] = LeaveGrace]
    /\ memory' = IF db.status = "active" THEN NoBudgetTimer(memory) ELSE memory
    /\ UNCHANGED <<up, redis, db, joined, ready, gone, run, ghosts, sent>>

\* handleClientConnect, handleExpertConnect: the party's grace is cancelled and
\* the budget timer of an active consultation armed.
ComeBack(a) ==
    /\ up
    /\ a \in gone
    /\ memory.arming < MaxArming
    /\ gone' = gone \ {a}
    /\ leave' = [leave EXCEPT ![a] = Off]
    /\ memory' = IF db.status = "active" THEN Arming(memory) ELSE memory
    /\ UNCHANGED <<up, redis, db, joined, ready, leaving, run, ghosts, sent>>

\* closeActiveConsultationSessions: the open session is closed and the
\* consultation left active; one that never started is cancelled.  No timer
\* and no key is touched.
SessionsClosed ==
    IF db.status \in LiveStatuses /\ db.open THEN [db EXCEPT !.open = FALSE]
    ELSE IF db.status = "accepted" THEN [db EXCEPT !.status = "cancelled"]
    ELSE db

\* The grace of a party runs out.
LeaveFires(a) ==
    /\ leave[a] = 0
    /\ leave' = [leave EXCEPT ![a] = Off]
    /\ db' = SessionsClosed
    /\ UNCHANGED <<up, memory, redis, joined, ready, gone, leaving, run, ghosts, sent>>

-----------------------------------------------------------------------------
(* Timers.                                                                 *)

\* The affordability of an armed timer is known: the timer is set, or the
\* budget is gone already.
ArmComputed(h) ==
    /\ Free(h)
    /\ memory.arming > 0
    /\ IF Remaining > 0
       THEN memory' = Armed(memory, Remaining) /\ run' = run
       ELSE Pausing(h, "broke", [memory EXCEPT !.arming = @ - 1], Off)
    /\ UNCHANGED <<up, redis, db, people, ghosts, sent>>

\* A budget timer fires, the one in the map or one that was replaced there.
\* Nobody looks at the meter again.
BudgetFires(h) ==
    /\ Free(h)
    /\ \/ /\ memory.budget = 0
          /\ Pausing(h, "broke", memory, Off)
       \/ /\ 0 \in memory.strays
          /\ Pausing(h, "broke", [memory EXCEPT !.strays = @ \ {0}], Off)
    /\ UNCHANGED <<up, redis, db, people, ghosts, sent>>

\* The reconciliation interval finds the budget gone.
Reconcile(h) ==
    /\ Free(h)
    /\ memory.recon
    /\ Remaining = 0
    /\ Pausing(h, "broke", memory, Off)
    /\ UNCHANGED <<up, redis, db, people, ghosts, sent>>

PauseGraceFires(h) ==
    /\ Free(h)
    /\ memory.grace = 0
    /\ Ending(h, memory)
    /\ UNCHANGED <<up, redis, db, people, ghosts, sent>>

\* The hold's timer resumes a consultation whose hold is still there.
HoldFires(h) ==
    /\ Free(h)
    /\ memory.hold = 0
    /\ IF Held
       THEN Resuming(h, [memory EXCEPT !.hold = Off], [IdleRun EXCEPT !.op = "refused"])
       ELSE memory' = [memory EXCEPT !.hold = Off] /\ run' = run
    /\ UNCHANGED <<up, redis, db, people, ghosts, sent>>

\* Redis drops a key whose TTL has run out.
HoldKeyExpires ==
    /\ redis.held = 0
    /\ redis' = [redis EXCEPT !.held = Off]
    /\ UNCHANGED <<up, memory, db, people, run, ghosts, sent>>

PauseKeyExpires ==
    /\ redis.paused = 0
    /\ redis' = [redis EXCEPT !.paused = Off]
    /\ UNCHANGED <<up, memory, db, people, run, ghosts, sent>>

Less(n) == IF n = Off THEN Off ELSE n - 1

\* Nothing is due and no handler runs: time passes.
ClockQuiet == memory.arming = 0 /\ leaving = {} /\ \A h \in Slots : run[h] = IdleRun

Due == 0 \in {memory.budget, memory.grace, memory.hold, redis.held, redis.paused}
             \cup memory.strays \cup {leave[a] : a \in Participants}

Tick ==
    /\ ClockQuiet
    /\ ~Due
    /\ memory' = [memory EXCEPT !.budget = Less(@), !.grace = Less(@), !.hold = Less(@),
                                !.strays = {n - 1 : n \in @}]
    /\ leave' = [a \in Participants |-> Less(leave[a])]
    /\ redis' = [redis EXCEPT !.age = Capped(@ + 1), !.held = Less(@), !.paused = Less(@)]
    /\ db' = [db EXCEPT !.since = IF @ = Off THEN Off ELSE Capped(@ + 1)]
    /\ wall' = IF db.status = "active" THEN Capped(wall + 1) ELSE wall
    /\ talked' = IF db.status = "active" /\ db.open /\ ~Held THEN Capped(talked + 1) ELSE talked
    /\ UNCHANGED <<up, joined, ready, gone, leaving, run, sent, crashes>>

-----------------------------------------------------------------------------
(* A crash loses the memory, the handlers and the sockets; boot recovery   *)
(* re-arms and the parties connect again.                                  *)

Crash ==
    /\ up
    /\ crashes < MaxCrashes
    /\ CrashAnywhere \/ ClockQuiet
    /\ crashes' = crashes + 1
    /\ up' = FALSE
    /\ memory' = NoTimers
    /\ run' = [h \in Slots |-> IdleRun]
    /\ gone' = Participants
    /\ leaving' = {}
    /\ leave' = NoLeave
    /\ UNCHANGED <<redis, db, joined, ready, wall, talked, sent>>

\* rearmOne: a hold gets its timer back, an exhausted pause its grace, a pause
\* with money left nothing, anything else a budget timer.
Boot(h) ==
    /\ ~up
    /\ up' = TRUE
    /\ \/ db.status # "active" /\ UNCHANGED <<memory, run>>
       \/ /\ db.status = "active" /\ Held
          /\ memory' = [memory EXCEPT !.hold = redis.held]
          /\ run' = run
       \/ /\ db.status = "active" /\ ~Held /\ redis.paused # Off
          /\ IF Remaining > 0
             THEN UNCHANGED <<memory, run>>
             ELSE Pausing(h, "broke", memory, redis.paused)
       \/ /\ db.status = "active" /\ ~Held /\ redis.paused = Off
          /\ memory' = Arming(memory)
          /\ run' = run
    /\ UNCHANGED <<redis, db, people, wall, talked, crashes, sent>>

-----------------------------------------------------------------------------
HandlerSteps(h) ==
    \/ PauseWrite(h) \/ PauseArm(h)
    \/ ResumeInsert(h) \/ ResumeAnchor(h) \/ HoldAfterRefusal(h)
    \/ EndCommit(h) \/ EndFlush(h)

TimerSteps(h) ==
    \/ ArmComputed(h) \/ BudgetFires(h) \/ Reconcile(h) \/ PauseGraceFires(h) \/ HoldFires(h)

SocketSteps(a) == LoseSocket(a) \/ PauseBilling(a) \/ ComeBack(a) \/ LeaveFires(a)

KeySteps == HoldKeyExpires \/ PauseKeyExpires

CommandSteps(h) ==
    \/ \E reason \in {"manual", "hold", "dialog"} : Pause(h, reason)
    \/ Resume(h)
    \/ EndConsultation(h)

ClockNext ==
    \/ \E h \in Slots :
         HandlerSteps(h) \/ TimerSteps(h) \/ CommandSteps(h) \/ Boot(h)
    \/ \E a \in Participants : Join(a) \/ MediaReady(a) \/ SocketSteps(a)
    \/ Recharge
    \/ RefusedSwitch
    \/ KeySteps
    \/ Tick
    \/ Crash

\* Started handlers go on, due timers fire, keys expire and time passes; no
\* party owes a command.
ClockFairness ==
    /\ \A h \in Slots : /\ WF_clockVars(HandlerSteps(h))
                       /\ WF_clockVars(TimerSteps(h)) /\ WF_clockVars(Boot(h))
    /\ \A a \in Participants : WF_clockVars(PauseBilling(a)) /\ WF_clockVars(LeaveFires(a))
    /\ WF_clockVars(KeySteps)
    /\ WF_clockVars(Tick)

ClockSpec == ClockInit /\ [][ClockNext]_clockVars

ClockFairSpec == ClockSpec /\ ClockFairness

-----------------------------------------------------------------------------
(* Properties.                                                             *)

Countdown == Nat \cup {Off}

Ages == Off..MaxElapsed

\* Every timer, key and column has its type; a countdown never runs past 0,
\* so no timer or key that is due is passed over.
ClockTypeOK ==
    /\ up \in BOOLEAN
    /\ memory \in [budget : Countdown, strays : SUBSET Nat, recon : BOOLEAN,
                   grace : Countdown, hold : Countdown, arming : Nat]
    /\ redis \in [base : Ages, age : 0..MaxElapsed, held : Countdown, paused : Countdown]
    /\ db \in [status : {"accepted", "active", "completed", "cancelled"},
               mode : Modes, open : BOOLEAN,
               since : Ages, budget : Nat, billed : Ages]
    /\ joined \subseteq Participants
    /\ ready \subseteq Participants
    /\ gone \subseteq Participants
    /\ leaving \subseteq Participants
    /\ leave \in [Participants -> Countdown]
    /\ DOMAIN run = Slots
    /\ \A h \in Slots : run[h].spent \in 0..MaxElapsed
    /\ wall \in 0..MaxElapsed
    /\ talked \in 0..MaxElapsed

Running == db.status = "active" /\ db.open

\* However often a consultation is paused, held and resumed, the meter never
\* counts more time than has passed since the start, and no bill does.
NeverBeyondRealTime ==
    /\ db.status = "active" => Elapsed <= wall
    /\ db.billed # Off => db.billed <= wall

\* Re-anchoring loses no consumed time: between handlers the meter has counted
\* every unit in which a session was open and the clock not held.
MeterCoversTalk == db.status = "active" /\ ClockQuiet => talked <= Elapsed

\* A session runs on past the affordable time only while the grace of a party
\* whose socket was lost runs, and by at most two of them: the second when that
\* party was back before the first had been armed, and left once more.
MeterWithinBudget ==
    up /\ ClockQuiet /\ Running =>
        \/ Elapsed <= db.budget
        \/ \E a \in Participants :
              leave[a] # Off /\ Elapsed + leave[a] <= db.budget + 2 * LeaveGrace

\* "Disconnect time is not charged": as long as the budget timer of a running
\* session is cancelled for a party that is away, the meter stands still.  The
\* comments of the code say so; it does not, and TLC refutes this.
DisconnectNotCharged ==
    [][Running /\ memory.budget = Off /\ (\E a \in gone : leave[a] # Off)
         => Elapsed' <= Elapsed]_clockVars

\* Nobody is served for ever: a running session is paused, ended or out of
\* budget and closed in the end, whatever is recharged and resumed.
MeteringStops == Running ~> ~Running
=============================================================================
