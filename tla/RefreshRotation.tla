--------------------------- MODULE RefreshRotation ---------------------------
(***************************************************************************)
(* The life of one refresh session of a client or an expert, from login to *)
(* its end: several tabs of one browser, which share a cookie jar, refresh *)
(* at once, answers are lost or come late, and the server rotates the      *)
(* secret under the row lock and replays a rotation from Redis.            *)
(*                                                                         *)
(* Secrets are numbered in the order in which the server makes them; 0     *)
(* stands for any other.  Each login gives its session a family of its     *)
(* own, so revoking the family revokes the session.                        *)
(***************************************************************************)
EXTENDS Integers, FiniteSets

CONSTANTS
    Requests,     \* slots for refresh requests that overlap
    NoOne,        \* no request
    Timely,       \* Redis answers, and the grace outlasts every delay
    MaxSends,     \* bound: requests sent
    MaxCrashes    \* bound: requests lost with a crash of the server

ASSUME NoOneAssumption == NoOne \notin Requests
ASSUME BoundAssumption ==
    MaxSends \in Nat /\ MaxCrashes \in Nat /\ Timely \in BOOLEAN

VARIABLES
    secret,     \* the secret whose hash the session row holds
    expired,    \* expires_at has passed
    ended,      \* why the row is revoked: "no", "logout", "reuse" or "stray"
    suspended,  \* the account or the user is blocked
    lock,       \* the request whose transaction holds the row
    cache,      \* rotation results in Redis: pairs of secrets
    jar,        \* the secret in the browser's cookies, 0 when there is none
    req,        \* the request in each slot
    answered,   \* pairs the server has answered with, for the properties
    sends, crashes

row    == <<secret, expired, ended, suspended>>
bounds == <<sends, crashes>>
vars   == <<row, lock, cache, jar, req, answered, bounds>>

-----------------------------------------------------------------------------
Steps == {"idle", "lock", "rotate", "replay", "save", "answer"}

Idle == [at |-> "idle", in |-> 0, out |-> 0]

At(r, at) == req[r].at = at

Goto(r, at) == req' = [req EXCEPT ![r].at = at]

Finish(r) == req' = [req EXCEPT ![r] = Idle]

Init ==
    /\ secret = 1 /\ jar = 1
    /\ expired = FALSE /\ ended = "no" /\ suspended = FALSE
    /\ lock = NoOne
    /\ cache = {} /\ answered = {}
    /\ req = [r \in Requests |-> Idle]
    /\ sends = 0 /\ crashes = 0

\* Somebody may still present or deliver this secret.
InUse(t) == t = jar \/ \E r \in Requests : req[r] # Idle /\ t \in {req[r].in, req[r].out}

-----------------------------------------------------------------------------
(* The browser.                                                            *)

\* A tab refreshes with what the jar holds.
Send(r) ==
    /\ req[r] = Idle
    /\ jar # 0
    /\ sends < MaxSends
    /\ req' = [req EXCEPT ![r] = [at |-> "lock", in |-> jar, out |-> 0]]
    /\ sends' = sends + 1
    /\ UNCHANGED <<row, lock, cache, jar, answered, crashes>>

\* Somebody presents a secret the server never made, or made too long ago.
SendStray(r) ==
    /\ req[r] = Idle
    /\ sends < MaxSends
    /\ req' = [req EXCEPT ![r] = [at |-> "lock", in |-> 0, out |-> 0]]
    /\ sends' = sends + 1
    /\ UNCHANGED <<row, lock, cache, jar, answered, crashes>>

\* The answer sets the cookies, in whatever order answers come.
Delivered(r) ==
    /\ At(r, "answer")
    /\ jar' = req[r].out
    /\ Finish(r)
    /\ UNCHANGED <<row, lock, cache, answered, bounds>>

\* The answer is lost: the browser keeps its old cookies.
Lost(r) ==
    /\ At(r, "answer")
    /\ Finish(r)
    /\ UNCHANGED <<row, lock, cache, jar, answered, bounds>>

-----------------------------------------------------------------------------
(* ClientRefreshTokenUseCase.execute, ExpertRefreshTokenUseCase.execute.   *)

\* Mutated form: SELECT without FOR UPDATE.
LockFree(r) == lock' = lock

LockRow(r) == lock = NoOne /\ lock' = r

Refusing == ended # "no" \/ expired \/ suspended

\* SELECT ... FOR UPDATE.  A revoked or expired session and a suspended
\* account are refused, and the transaction ends.
Refuse(r) ==
    /\ At(r, "lock")
    /\ lock = NoOne
    /\ Refusing
    /\ Finish(r)
    /\ UNCHANGED <<row, lock, cache, jar, answered, bounds>>

Verify(r) ==
    /\ At(r, "lock")
    /\ ~Refusing
    /\ LockRow(r)
    /\ Goto(r, IF req[r].in = secret THEN "rotate" ELSE "replay")
    /\ UNCHANGED <<row, cache, jar, answered, bounds>>

\* Mutated form: the transaction is left open.
UnlockNever(r) == lock' = lock

Unlock(r) == lock' = IF lock = r THEN NoOne ELSE lock

\* Branch 1: the current secret.  The new one is in the row at the commit.
Rotate(r) ==
    /\ At(r, "rotate")
    /\ lock \in {NoOne, r}
    /\ secret' = secret + 1
    /\ expired' = FALSE
    /\ req' = [req EXCEPT ![r] = [at |-> "save", in |-> @.in, out |-> secret + 1]]
    /\ Unlock(r)
    /\ UNCHANGED <<ended, suspended, cache, jar, answered, bounds>>

\* Mutated form: the result is kept under the new secret.
CacheEntryOfOutput(in, out) == <<out, out>>

CacheEntry(in, out) == <<in, out>>

\* After the commit the result goes to Redis, and then to the client.  A
\* failing Redis is logged and forgotten.
Save(r) ==
    /\ At(r, "save")
    /\ \E kept \in IF Timely THEN {TRUE} ELSE BOOLEAN :
         cache' = IF kept THEN cache \cup {CacheEntry(req[r].in, req[r].out)} ELSE cache
    /\ answered' = answered \cup {<<req[r].in, req[r].out>>}
    /\ Goto(r, "answer")
    /\ UNCHANGED <<row, lock, jar, bounds>>

\* The save is done before a request that waited for the row has come to its
\* look into the cache.
Saved == \A s \in Requests : ~At(s, "save")

\* Branch 2: a secret rotated a moment ago is answered with the same pair.
Replay(r) ==
    /\ At(r, "replay")
    /\ Timely => Saved
    /\ \E p \in cache :
         /\ p[1] = req[r].in
         /\ req' = [req EXCEPT ![r] = [at |-> "answer", in |-> @.in, out |-> p[2]]]
         /\ answered' = answered \cup {p}
    /\ Unlock(r)
    /\ UNCHANGED <<row, cache, jar, bounds>>

\* Branch 3: a secret that is neither is a reuse and revokes the family.  A
\* failing Redis counts as a miss.
Reuse(r) ==
    /\ At(r, "replay")
    /\ Timely => Saved /\ \A p \in cache : p[1] # req[r].in
    /\ ended' = IF req[r].in = 0 THEN "stray" ELSE "reuse"
    /\ Unlock(r)
    /\ Finish(r)
    /\ UNCHANGED <<secret, expired, suspended, cache, jar, answered, bounds>>

-----------------------------------------------------------------------------
(* What else happens to the session.                                       *)

\* Logout revokes by session and by user, and clears the cookies.  An answer
\* on its way may set them again, to secrets of a revoked session.
Logout ==
    /\ jar # 0
    /\ lock = NoOne
    /\ ended' = IF ended = "no" THEN "logout" ELSE ended
    /\ jar' = 0
    /\ UNCHANGED <<secret, expired, suspended, lock, cache, req, answered, bounds>>

\* Seven days without a refresh.
Expire ==
    /\ ~expired
    /\ \A r \in Requests : req[r] = Idle
    /\ expired' = TRUE
    /\ UNCHANGED <<secret, ended, suspended, lock, cache, jar, req, answered, bounds>>

\* An admin blocks the account.
Suspend ==
    /\ ~suspended
    /\ suspended' = TRUE
    /\ UNCHANGED <<secret, expired, ended, lock, cache, jar, req, answered, bounds>>

\* Fifteen seconds after a rotation its result leaves Redis, the older one
\* first.  In time, nobody presents the secret any more by then.
CacheExpires(p) ==
    /\ p \in cache
    /\ \A q \in cache : p[1] <= q[1]
    /\ Timely => ~InUse(p[1])
    /\ cache' = cache \ {p}
    /\ UNCHANGED <<row, lock, jar, req, answered, bounds>>

\* The server goes down with a request: its transaction rolls back; a rotation
\* that was committed stays, its result is never saved.
Crash(r) ==
    /\ req[r] # Idle
    /\ Timely => ~At(r, "save")
    /\ crashes < MaxCrashes
    /\ crashes' = crashes + 1
    /\ Unlock(r)
    /\ Finish(r)
    /\ UNCHANGED <<row, cache, jar, answered, sends>>

-----------------------------------------------------------------------------
Serve(r) ==
    \/ Refuse(r) \/ Verify(r) \/ Rotate(r) \/ Save(r) \/ Replay(r) \/ Reuse(r)
    \/ Delivered(r) \/ Lost(r)

Next ==
    \/ \E r \in Requests : Send(r) \/ SendStray(r) \/ Serve(r) \/ Crash(r)
    \/ Logout \/ Expire \/ Suspend
    \/ \E p \in cache : CacheExpires(p)

Spec == Init /\ [][Next]_vars

\* A request that waits for the row is in its lock queue, so that later ones do
\* not pass it for ever (strong fairness).
Fairness == \A r \in Requests : SF_vars(Serve(r))

FairSpec == Spec /\ Fairness

-----------------------------------------------------------------------------
Secrets == Nat \ {0}
Pairs == Secrets \X Secrets
RequestRecords == [at : Steps, in : Nat, out : Nat]

\* Row, jar, cache and request records stay well formed.
TypeOK ==
    /\ secret \in Secrets
    /\ expired \in BOOLEAN /\ suspended \in BOOLEAN
    /\ ended \in {"no", "logout", "reuse", "stray"}
    /\ lock \in Requests \cup {NoOne}
    /\ cache \in SUBSET Pairs
    /\ answered \in SUBSET Pairs
    /\ jar \in Nat
    /\ req \in [Requests -> RequestRecords]
    /\ sends \in Nat /\ crashes \in Nat

\* Two refreshes with one secret never fork the session: however the tabs
\* overlap, they are answered with the same successor (RefreshTokenCacheService:
\* "retrieve the exact same token pair without re-rotating").
NoFork == \A p, q \in answered : p[1] = q[1] => p[2] = q[2]

\* A browser that only ever presents what it was given, from any number of
\* tabs, with answers lost or late, is never taken for a thief as long as the
\* grace covers the delays (Timely).
HonestStaysIn == ended # "reuse"

\* The jar never holds a secret the server cannot tell from a counterfeit: it
\* is the current one, or its rotation is still known.
JarIsKnown ==
    ended = "no" /\ jar # 0 =>
        \/ jar = secret
        \/ \E p \in cache : p[1] = jar
        \/ \E r \in Requests : At(r, "save") /\ req[r].in = jar

\* Every request is answered or refused.
RequestsEnd == \A r \in Requests : req[r] # Idle ~> req[r] = Idle
=============================================================================
