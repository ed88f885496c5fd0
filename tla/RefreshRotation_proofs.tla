------------------------ MODULE RefreshRotation_proofs ------------------------
(***************************************************************************)
(* Theorems of RefreshRotation for any number of overlapping requests.     *)
(*                                                                         *)
(* That a secret has one successor rests on the row lock: between the      *)
(* check of a secret and its rotation nobody else rotates (OwnerOfRow,     *)
(* RotatesCurrent), so every pair is a secret and the next one (PairSteps).*)
(* That an honest browser stays in rests on the secrets in use being       *)
(* connected: each is the current one, or its rotation can still be looked *)
(* up (InUseIsTraceable), and so can the one of each result (CacheIsChained).  *)
(***************************************************************************)
EXTENDS RefreshRotation, TLAPS

\* The rotation of this secret is in the cache or about to be.
Known(t) ==
    \/ \E p \in cache : p[1] = t
    \/ \E r \in Requests : At(r, "save") /\ req[r].in = t

\* A request between its check and its commit holds the row.
OwnerOfRow == \A r \in Requests : req[r].at \in {"rotate", "replay"} => lock = r

\* What will be rotated is the current secret, what will be looked up is not.
RotatesCurrent ==
    \A r \in Requests :
        /\ At(r, "rotate") => req[r].in = secret
        /\ At(r, "replay") => req[r].in # secret

\* Every rotation goes from a secret to the next one made.
PairSteps ==
    /\ \A p \in cache \cup answered : p[2] = p[1] + 1
    /\ \A r \in Requests : At(r, "save") => req[r].out = req[r].in + 1

\* What is rotated is a secret, and so is what is answered.
RequestsHaveSecrets ==
    \A r \in Requests :
        /\ At(r, "save") => req[r].in # 0
        /\ req[r].at \in {"save", "answer"} => req[r].out # 0

\* The server can tell this secret from a counterfeit.
Traceable(t) == t = 0 \/ t = secret \/ Known(t)

\* So it can for the jar and whatever a request brings or gets.
InUseIsTraceable ==
    /\ Traceable(jar)
    /\ \A r \in Requests : Traceable(req[r].in) /\ Traceable(req[r].out)

\* And for the result of every rotation in the cache.
CacheIsChained == \A p \in cache : Traceable(p[2])

\* Invariants of every instance, and those of a timely one.
LockInv == TypeOK /\ OwnerOfRow /\ RotatesCurrent /\ PairSteps /\ RequestsHaveSecrets

ChainInv == InUseIsTraceable /\ CacheIsChained /\ ended # "reuse"

-----------------------------------------------------------------------------
(* What the actions do to the requests.                                    *)

\* A request record that is replaced by another one.
LEMMA SlotType ==
    ASSUME TypeOK, NEW r \in Requests, NEW q \in RequestRecords,
           req' = [req EXCEPT ![r] = q]
    PROVE  req' \in [Requests -> RequestRecords]
  BY DEF TypeOK

\* Records that differ in their stage.
LEMMA RecordExcept ==
    ASSUME NEW q \in RequestRecords, NEW at
    PROVE  [q EXCEPT !.at = at] = [at |-> at, in |-> q.in, out |-> q.out]
  BY DEF RequestRecords

\* A pair of a secret and a result is one.
LEMMA PairType ==
    ASSUME TypeOK, RequestsHaveSecrets, NEW r \in Requests, At(r, "save")
    PROVE  <<req[r].in, req[r].out>> \in Pairs
<1>1. req[r].in \in Nat \ {0} /\ req[r].out \in Nat \ {0}
  BY DEF TypeOK, RequestRecords, RequestsHaveSecrets, At
<1> QED
  BY <1>1 DEF Pairs, Secrets

\* Send preserves the invariant of the lock.
LEMMA LockSend ==
    ASSUME LockInv, NEW r \in Requests, Send(r)
    PROVE  LockInv'
<1> USE NoOneAssumption DEF LockInv
<1> DEFINE q == [at |-> "lock", in |-> jar, out |-> 0]
<1>1. q \in RequestRecords
  BY DEF Send, TypeOK, RequestRecords, Steps, Secrets, Idle
<1>2. req' = [req EXCEPT ![r] = q]
  BY DEF Send, TypeOK, RequestRecords, Goto, Finish
<1>3. req' \in [Requests -> RequestRecords]
  <2> HIDE DEF q
  <2> QED
    BY <1>1, <1>2, SlotType
<1>4. TypeOK'
  BY <1>2, <1>3 DEF Send, At, Goto, Finish, Idle, row, bounds, TypeOK, Secrets
<1>5. OwnerOfRow'
  BY <1>2, <1>3 DEF Send, At, Goto, Finish, Idle, row, bounds, OwnerOfRow, TypeOK
<1>6. RotatesCurrent'
  BY <1>2, <1>3 DEF Send, At, Goto, Finish, Idle, row, bounds, RotatesCurrent,
     OwnerOfRow, TypeOK
<1>7. PairSteps'
  BY <1>2, <1>3 DEF Send, At, Goto, Finish, Idle, row, bounds, PairSteps,
     RotatesCurrent, TypeOK, RequestRecords
<1>8. RequestsHaveSecrets'
  BY <1>2, <1>3 DEF Send, At, Goto, Finish, Idle, row, bounds, RequestsHaveSecrets,
     TypeOK, RequestRecords, Secrets
<1> QED
  BY <1>4, <1>5, <1>6, <1>7, <1>8

\* SendStray preserves the invariant of the lock.
LEMMA LockSendStray ==
    ASSUME LockInv, NEW r \in Requests, SendStray(r)
    PROVE  LockInv'
<1> USE NoOneAssumption DEF LockInv
<1> DEFINE q == [at |-> "lock", in |-> 0, out |-> 0]
<1>1. q \in RequestRecords
  BY DEF SendStray, TypeOK, RequestRecords, Steps, Secrets, Idle
<1>2. req' = [req EXCEPT ![r] = q]
  BY DEF SendStray, TypeOK, RequestRecords, Goto, Finish
<1>3. req' \in [Requests -> RequestRecords]
  <2> HIDE DEF q
  <2> QED
    BY <1>1, <1>2, SlotType
<1>4. TypeOK'
  BY <1>2, <1>3 DEF SendStray, At, Goto, Finish, Idle, row, bounds, TypeOK, Secrets
<1>5. OwnerOfRow'
  BY <1>2, <1>3 DEF SendStray, At, Goto, Finish, Idle, row, bounds, OwnerOfRow, TypeOK
<1>6. RotatesCurrent'
  BY <1>2, <1>3 DEF SendStray, At, Goto, Finish, Idle, row, bounds, RotatesCurrent,
     OwnerOfRow, TypeOK
<1>7. PairSteps'
  BY <1>2, <1>3 DEF SendStray, At, Goto, Finish, Idle, row, bounds, PairSteps,
     RotatesCurrent, TypeOK, RequestRecords
<1>8. RequestsHaveSecrets'
  BY <1>2, <1>3 DEF SendStray, At, Goto, Finish, Idle, row, bounds,
     RequestsHaveSecrets, TypeOK, RequestRecords, Secrets
<1> QED
  BY <1>4, <1>5, <1>6, <1>7, <1>8

\* Refuse preserves the invariant of the lock.
LEMMA LockRefuse ==
    ASSUME LockInv, NEW r \in Requests, Refuse(r)
    PROVE  LockInv'
<1> USE NoOneAssumption DEF LockInv
<1> DEFINE q == Idle
<1>1. q \in RequestRecords
  BY DEF Refuse, TypeOK, RequestRecords, Steps, Secrets, Idle
<1>2. req' = [req EXCEPT ![r] = q]
  BY DEF Refuse, TypeOK, RequestRecords, Goto, Finish
<1>3. req' \in [Requests -> RequestRecords]
  <2> HIDE DEF q
  <2> QED
    BY <1>1, <1>2, SlotType
<1>4. TypeOK'
  BY <1>2, <1>3 DEF Refuse, At, Goto, Finish, Idle, row, bounds, TypeOK, Secrets
<1>5. OwnerOfRow'
  BY <1>2, <1>3 DEF Refuse, At, Goto, Finish, Idle, row, bounds, OwnerOfRow, TypeOK
<1>6. RotatesCurrent'
  BY <1>2, <1>3 DEF Refuse, At, Goto, Finish, Idle, row, bounds, RotatesCurrent,
     OwnerOfRow, TypeOK
<1>7. PairSteps'
  BY <1>2, <1>3 DEF Refuse, At, Goto, Finish, Idle, row, bounds, PairSteps,
     RotatesCurrent, TypeOK, RequestRecords
<1>8. RequestsHaveSecrets'
  BY <1>2, <1>3 DEF Refuse, At, Goto, Finish, Idle, row, bounds,
     RequestsHaveSecrets, TypeOK, RequestRecords, Secrets
<1> QED
  BY <1>4, <1>5, <1>6, <1>7, <1>8

\* Verify preserves the invariant of the lock.
LEMMA LockVerify ==
    ASSUME LockInv, NEW r \in Requests, Verify(r)
    PROVE  LockInv'
<1> USE NoOneAssumption DEF LockInv
<1> DEFINE q == [at |-> IF req[r].in = secret THEN "rotate" ELSE "replay", in |-> req[r].in, out |-> req[r].out]
<1>1. q \in RequestRecords
  BY DEF Verify, TypeOK, RequestRecords, Steps, Secrets, Idle
<1>2. req' = [req EXCEPT ![r] = q]
  <2>1. req' = [req EXCEPT ![r] = [req[r] EXCEPT !.at = IF req[r].in = secret THEN "rotate" ELSE "replay"]]
    BY DEF Verify, TypeOK, Goto
  <2>2. req[r] \in RequestRecords
    BY DEF TypeOK
  <2> QED
    BY <2>1, <2>2, RecordExcept
<1>3. req' \in [Requests -> RequestRecords]
  <2> HIDE DEF q
  <2> QED
    BY <1>1, <1>2, SlotType
<1>4. TypeOK'
  BY <1>2, <1>3 DEF Verify, At, Goto, Finish, Idle, row, bounds, LockRow, Refusing,
     TypeOK, Secrets
<1>5. OwnerOfRow'
  BY <1>2, <1>3 DEF Verify, At, Goto, Finish, Idle, row, bounds, LockRow, Refusing,
     OwnerOfRow, TypeOK
<1>6. RotatesCurrent'
  BY <1>2, <1>3 DEF Verify, At, Goto, Finish, Idle, row, bounds, LockRow, Refusing,
     RotatesCurrent, OwnerOfRow, TypeOK
<1>7. PairSteps'
  BY <1>2, <1>3 DEF Verify, At, Goto, Finish, Idle, row, bounds, LockRow, Refusing,
     PairSteps, RotatesCurrent, TypeOK, RequestRecords
<1>8. RequestsHaveSecrets'
  BY <1>2, <1>3 DEF Verify, At, Goto, Finish, Idle, row, bounds, LockRow, Refusing,
     RequestsHaveSecrets, TypeOK, RequestRecords, Secrets
<1> QED
  BY <1>4, <1>5, <1>6, <1>7, <1>8

\* Rotate preserves the invariant of the lock.
LEMMA LockRotate ==
    ASSUME LockInv, NEW r \in Requests, Rotate(r)
    PROVE  LockInv'
<1> USE NoOneAssumption DEF LockInv
<1> DEFINE q == [at |-> "save", in |-> req[r].in, out |-> secret + 1]
<1>1. q \in RequestRecords
  BY DEF Rotate, TypeOK, RequestRecords, Steps, Secrets, Idle
<1>2. req' = [req EXCEPT ![r] = q]
  BY DEF Rotate, TypeOK, RequestRecords, Goto, Finish
<1>3. req' \in [Requests -> RequestRecords]
  <2> HIDE DEF q
  <2> QED
    BY <1>1, <1>2, SlotType
<1>b. secret' \in Secrets
  BY DEF Rotate, TypeOK, Secrets
<1>c. lock' \in Requests \cup {NoOne}
  BY DEF Rotate, Unlock, TypeOK
<1>4. TypeOK'
  BY <1>2, <1>3, <1>b, <1>c DEF Rotate, bounds, TypeOK
<1>5. OwnerOfRow'
  BY <1>2, <1>3 DEF Rotate, At, Goto, Finish, Idle, row, bounds, Unlock,
     OwnerOfRow, TypeOK
<1>6. RotatesCurrent'
  BY <1>2, <1>3 DEF Rotate, At, Goto, Finish, Idle, row, bounds, Unlock,
     RotatesCurrent, OwnerOfRow, TypeOK
<1>7. PairSteps'
  BY <1>2, <1>3 DEF Rotate, At, Goto, Finish, Idle, row, bounds, Unlock, PairSteps,
     RotatesCurrent, TypeOK, RequestRecords
<1>8. RequestsHaveSecrets'
  BY <1>2, <1>3 DEF Rotate, At, Goto, Finish, Idle, row, bounds, Unlock,
     RequestsHaveSecrets, RotatesCurrent, TypeOK, RequestRecords, Secrets
<1> QED
  BY <1>4, <1>5, <1>6, <1>7, <1>8

\* Save preserves the invariant of the lock.
LEMMA LockSave ==
    ASSUME LockInv, NEW r \in Requests, Save(r)
    PROVE  LockInv'
<1> USE NoOneAssumption DEF LockInv
<1> DEFINE q == [at |-> "answer", in |-> req[r].in, out |-> req[r].out]
<1>1. q \in RequestRecords
  BY DEF Save, TypeOK, RequestRecords, Steps, Secrets, Idle
<1>2. req' = [req EXCEPT ![r] = q]
  <2>1. req' = [req EXCEPT ![r] = [req[r] EXCEPT !.at = "answer"]]
    BY DEF Save, TypeOK, Goto
  <2>2. req[r] \in RequestRecords
    BY DEF TypeOK
  <2> QED
    BY <2>1, <2>2, RecordExcept
<1>3. req' \in [Requests -> RequestRecords]
  <2> HIDE DEF q
  <2> QED
    BY <1>1, <1>2, SlotType
<1>b. cache' \in SUBSET Pairs /\ answered' \in SUBSET Pairs
  <2>1. <<req[r].in, req[r].out>> \in Pairs
    BY PairType DEF Save
  <2>2. cache' \subseteq cache \cup {<<req[r].in, req[r].out>>}
    BY DEF Save, CacheEntry
  <2> QED
    BY <2>1, <2>2 DEF Save, TypeOK
<1>4. TypeOK'
  BY <1>2, <1>3, <1>b DEF Save, row, bounds, TypeOK
<1>5. OwnerOfRow'
  BY <1>2, <1>3 DEF Save, At, Goto, Finish, Idle, row, bounds, CacheEntry,
     OwnerOfRow, TypeOK
<1>6. RotatesCurrent'
  BY <1>2, <1>3 DEF Save, At, Goto, Finish, Idle, row, bounds, CacheEntry,
     RotatesCurrent, OwnerOfRow, TypeOK
<1>7. PairSteps'
  BY <1>2, <1>3 DEF Save, At, Goto, Finish, Idle, row, bounds, CacheEntry,
     PairSteps, RotatesCurrent, TypeOK, RequestRecords
<1>8. RequestsHaveSecrets'
  BY <1>2, <1>3 DEF Save, At, Goto, Finish, Idle, row, bounds, CacheEntry,
     RequestsHaveSecrets, TypeOK, RequestRecords, Secrets
<1> QED
  BY <1>4, <1>5, <1>6, <1>7, <1>8

\* Replay preserves the invariant of the lock.
LEMMA LockReplay ==
    ASSUME LockInv, NEW r \in Requests, Replay(r)
    PROVE  LockInv'
<1> USE NoOneAssumption DEF LockInv
<1>0. PICK p \in cache : /\ p[1] = req[r].in
                       /\ req' = [req EXCEPT ![r] = [at |-> "answer", in |-> @.in, out |-> p[2]]]
                       /\ answered' = answered \cup {p}
  BY DEF Replay
<1>a. p \in Pairs /\ p[2] \in Nat \ {0}
  BY DEF TypeOK, Pairs, Secrets
<1> DEFINE q == [at |-> "answer", in |-> req[r].in, out |-> p[2]]
<1>1. q \in RequestRecords
  BY <1>0, <1>a DEF Replay, TypeOK, RequestRecords, Steps, Secrets, Idle
<1>2. req' = [req EXCEPT ![r] = q]
  BY <1>0, <1>a DEF Replay, TypeOK, RequestRecords, Goto, Finish
<1>3. req' \in [Requests -> RequestRecords]
  <2> HIDE DEF q
  <2> QED
    BY <1>1, <1>2, SlotType
<1>4. TypeOK'
  BY <1>2, <1>3, <1>0, <1>a DEF Replay, At, Goto, Finish, Idle, row, bounds,
     Unlock, TypeOK, Secrets
<1>5. OwnerOfRow'
  BY <1>2, <1>3, <1>0, <1>a DEF Replay, At, Goto, Finish, Idle, row, bounds,
     Unlock, OwnerOfRow, TypeOK
<1>6. RotatesCurrent'
  BY <1>2, <1>3, <1>0, <1>a DEF Replay, At, Goto, Finish, Idle, row, bounds,
     Unlock, RotatesCurrent, OwnerOfRow, TypeOK
<1>7. PairSteps'
  BY <1>2, <1>3, <1>0, <1>a DEF Replay, At, Goto, Finish, Idle, row, bounds,
     Unlock, PairSteps, RotatesCurrent, TypeOK, RequestRecords
<1>8. RequestsHaveSecrets'
  BY <1>2, <1>3, <1>0, <1>a DEF Replay, At, Goto, Finish, Idle, row, bounds,
     Unlock, RequestsHaveSecrets, TypeOK, RequestRecords, Secrets
<1> QED
  BY <1>4, <1>5, <1>6, <1>7, <1>8

\* Reuse preserves the invariant of the lock.
LEMMA LockReuse ==
    ASSUME LockInv, NEW r \in Requests, Reuse(r)
    PROVE  LockInv'
<1> USE NoOneAssumption DEF LockInv
<1> DEFINE q == Idle
<1>1. q \in RequestRecords
  BY DEF Reuse, TypeOK, RequestRecords, Steps, Secrets, Idle
<1>2. req' = [req EXCEPT ![r] = q]
  BY DEF Reuse, TypeOK, RequestRecords, Goto, Finish
<1>3. req' \in [Requests -> RequestRecords]
  <2> HIDE DEF q
  <2> QED
    BY <1>1, <1>2, SlotType
<1>4. TypeOK'
  BY <1>2, <1>3 DEF Reuse, At, Goto, Finish, Idle, row, bounds, Unlock, TypeOK, Secrets
<1>5. OwnerOfRow'
  BY <1>2, <1>3 DEF Reuse, At, Goto, Finish, Idle, row, bounds, Unlock, OwnerOfRow,
     TypeOK
<1>6. RotatesCurrent'
  BY <1>2, <1>3 DEF Reuse, At, Goto, Finish, Idle, row, bounds, Unlock,
     RotatesCurrent, OwnerOfRow, TypeOK
<1>7. PairSteps'
  BY <1>2, <1>3 DEF Reuse, At, Goto, Finish, Idle, row, bounds, Unlock, PairSteps,
     RotatesCurrent, TypeOK, RequestRecords
<1>8. RequestsHaveSecrets'
  BY <1>2, <1>3 DEF Reuse, At, Goto, Finish, Idle, row, bounds, Unlock,
     RequestsHaveSecrets, TypeOK, RequestRecords, Secrets
<1> QED
  BY <1>4, <1>5, <1>6, <1>7, <1>8

\* Delivered preserves the invariant of the lock.
LEMMA LockDelivered ==
    ASSUME LockInv, NEW r \in Requests, Delivered(r)
    PROVE  LockInv'
<1> USE NoOneAssumption DEF LockInv
<1> DEFINE q == Idle
<1>1. q \in RequestRecords
  BY DEF Delivered, TypeOK, RequestRecords, Steps, Secrets, Idle
<1>2. req' = [req EXCEPT ![r] = q]
  BY DEF Delivered, TypeOK, RequestRecords, Goto, Finish
<1>3. req' \in [Requests -> RequestRecords]
  <2> HIDE DEF q
  <2> QED
    BY <1>1, <1>2, SlotType
<1>4. TypeOK'
  BY <1>2, <1>3 DEF Delivered, At, Goto, Finish, Idle, row, bounds, RequestRecords,
     TypeOK, Secrets
<1>5. OwnerOfRow'
  BY <1>2, <1>3 DEF Delivered, At, Goto, Finish, Idle, row, bounds, OwnerOfRow, TypeOK
<1>6. RotatesCurrent'
  BY <1>2, <1>3 DEF Delivered, At, Goto, Finish, Idle, row, bounds, RotatesCurrent,
     OwnerOfRow, TypeOK
<1>7. PairSteps'
  BY <1>2, <1>3 DEF Delivered, At, Goto, Finish, Idle, row, bounds, PairSteps,
     RotatesCurrent, TypeOK, RequestRecords
<1>8. RequestsHaveSecrets'
  BY <1>2, <1>3 DEF Delivered, At, Goto, Finish, Idle, row, bounds,
     RequestsHaveSecrets, TypeOK, RequestRecords, Secrets
<1> QED
  BY <1>4, <1>5, <1>6, <1>7, <1>8

\* Lost preserves the invariant of the lock.
LEMMA LockLost ==
    ASSUME LockInv, NEW r \in Requests, Lost(r)
    PROVE  LockInv'
<1> USE NoOneAssumption DEF LockInv
<1> DEFINE q == Idle
<1>1. q \in RequestRecords
  BY DEF Lost, TypeOK, RequestRecords, Steps, Secrets, Idle
<1>2. req' = [req EXCEPT ![r] = q]
  BY DEF Lost, TypeOK, RequestRecords, Goto, Finish
<1>3. req' \in [Requests -> RequestRecords]
  <2> HIDE DEF q
  <2> QED
    BY <1>1, <1>2, SlotType
<1>4. TypeOK'
  BY <1>2, <1>3 DEF Lost, At, Goto, Finish, Idle, row, bounds, TypeOK, Secrets
<1>5. OwnerOfRow'
  BY <1>2, <1>3 DEF Lost, At, Goto, Finish, Idle, row, bounds, OwnerOfRow, TypeOK
<1>6. RotatesCurrent'
  BY <1>2, <1>3 DEF Lost, At, Goto, Finish, Idle, row, bounds, RotatesCurrent,
     OwnerOfRow, TypeOK
<1>7. PairSteps'
  BY <1>2, <1>3 DEF Lost, At, Goto, Finish, Idle, row, bounds, PairSteps,
     RotatesCurrent, TypeOK, RequestRecords
<1>8. RequestsHaveSecrets'
  BY <1>2, <1>3 DEF Lost, At, Goto, Finish, Idle, row, bounds, RequestsHaveSecrets,
     TypeOK, RequestRecords, Secrets
<1> QED
  BY <1>4, <1>5, <1>6, <1>7, <1>8

\* Crash preserves the invariant of the lock.
LEMMA LockCrash ==
    ASSUME LockInv, NEW r \in Requests, Crash(r)
    PROVE  LockInv'
<1> USE NoOneAssumption DEF LockInv
<1> DEFINE q == Idle
<1>1. q \in RequestRecords
  BY DEF Crash, TypeOK, RequestRecords, Steps, Secrets, Idle
<1>2. req' = [req EXCEPT ![r] = q]
  BY DEF Crash, TypeOK, RequestRecords, Goto, Finish
<1>3. req' \in [Requests -> RequestRecords]
  <2> HIDE DEF q
  <2> QED
    BY <1>1, <1>2, SlotType
<1>4. TypeOK'
  BY <1>2, <1>3 DEF Crash, At, Goto, Finish, Idle, row, bounds, Unlock, TypeOK, Secrets
<1>5. OwnerOfRow'
  BY <1>2, <1>3 DEF Crash, At, Goto, Finish, Idle, row, bounds, Unlock, OwnerOfRow,
     TypeOK
<1>6. RotatesCurrent'
  BY <1>2, <1>3 DEF Crash, At, Goto, Finish, Idle, row, bounds, Unlock,
     RotatesCurrent, OwnerOfRow, TypeOK
<1>7. PairSteps'
  BY <1>2, <1>3 DEF Crash, At, Goto, Finish, Idle, row, bounds, Unlock, PairSteps,
     RotatesCurrent, TypeOK, RequestRecords
<1>8. RequestsHaveSecrets'
  BY <1>2, <1>3 DEF Crash, At, Goto, Finish, Idle, row, bounds, Unlock,
     RequestsHaveSecrets, TypeOK, RequestRecords, Secrets
<1> QED
  BY <1>4, <1>5, <1>6, <1>7, <1>8

\* Logout preserves the invariant of the lock.
LEMMA LockLogout ==
    ASSUME LockInv, Logout
    PROVE  LockInv'
<1> USE NoOneAssumption DEF LockInv
<1>4. TypeOK'
  BY DEF Logout, At, Goto, Finish, Idle, row, bounds, TypeOK, Secrets
<1>5. OwnerOfRow'
  BY DEF Logout, At, Goto, Finish, Idle, row, bounds, OwnerOfRow, TypeOK
<1>6. RotatesCurrent'
  BY DEF Logout, At, Goto, Finish, Idle, row, bounds, RotatesCurrent, OwnerOfRow, TypeOK
<1>7. PairSteps'
  BY DEF Logout, At, Goto, Finish, Idle, row, bounds, PairSteps, RotatesCurrent,
     TypeOK, RequestRecords
<1>8. RequestsHaveSecrets'
  BY DEF Logout, At, Goto, Finish, Idle, row, bounds, RequestsHaveSecrets, TypeOK,
     RequestRecords, Secrets
<1> QED
  BY <1>4, <1>5, <1>6, <1>7, <1>8

\* Expire preserves the invariant of the lock.
LEMMA LockExpire ==
    ASSUME LockInv, Expire
    PROVE  LockInv'
<1> USE NoOneAssumption DEF LockInv
<1>4. TypeOK'
  BY DEF Expire, At, Goto, Finish, Idle, row, bounds, TypeOK, Secrets
<1>5. OwnerOfRow'
  BY DEF Expire, At, Goto, Finish, Idle, row, bounds, OwnerOfRow, TypeOK
<1>6. RotatesCurrent'
  BY DEF Expire, At, Goto, Finish, Idle, row, bounds, RotatesCurrent, OwnerOfRow, TypeOK
<1>7. PairSteps'
  BY DEF Expire, At, Goto, Finish, Idle, row, bounds, PairSteps, RotatesCurrent,
     TypeOK, RequestRecords
<1>8. RequestsHaveSecrets'
  BY DEF Expire, At, Goto, Finish, Idle, row, bounds, RequestsHaveSecrets, TypeOK,
     RequestRecords, Secrets
<1> QED
  BY <1>4, <1>5, <1>6, <1>7, <1>8

\* Suspend preserves the invariant of the lock.
LEMMA LockSuspend ==
    ASSUME LockInv, Suspend
    PROVE  LockInv'
<1> USE NoOneAssumption DEF LockInv
<1>4. TypeOK'
  BY DEF Suspend, At, Goto, Finish, Idle, row, bounds, TypeOK, Secrets
<1>5. OwnerOfRow'
  BY DEF Suspend, At, Goto, Finish, Idle, row, bounds, OwnerOfRow, TypeOK
<1>6. RotatesCurrent'
  BY DEF Suspend, At, Goto, Finish, Idle, row, bounds, RotatesCurrent, OwnerOfRow,
     TypeOK
<1>7. PairSteps'
  BY DEF Suspend, At, Goto, Finish, Idle, row, bounds, PairSteps, RotatesCurrent,
     TypeOK, RequestRecords
<1>8. RequestsHaveSecrets'
  BY DEF Suspend, At, Goto, Finish, Idle, row, bounds, RequestsHaveSecrets, TypeOK,
     RequestRecords, Secrets
<1> QED
  BY <1>4, <1>5, <1>6, <1>7, <1>8

\* CacheExpires preserves the invariant of the lock.
LEMMA LockCacheExpires ==
    ASSUME LockInv, NEW p \in cache, CacheExpires(p)
    PROVE  LockInv'
<1> USE NoOneAssumption DEF LockInv
<1>4. TypeOK'
  BY DEF CacheExpires, At, Goto, Finish, Idle, row, bounds, TypeOK, Secrets
<1>5. OwnerOfRow'
  BY DEF CacheExpires, At, Goto, Finish, Idle, row, bounds, OwnerOfRow, TypeOK
<1>6. RotatesCurrent'
  BY DEF CacheExpires, At, Goto, Finish, Idle, row, bounds, RotatesCurrent,
     OwnerOfRow, TypeOK
<1>7. PairSteps'
  BY DEF CacheExpires, At, Goto, Finish, Idle, row, bounds, PairSteps,
     RotatesCurrent, TypeOK, RequestRecords
<1>8. RequestsHaveSecrets'
  BY DEF CacheExpires, At, Goto, Finish, Idle, row, bounds, RequestsHaveSecrets,
     TypeOK, RequestRecords, Secrets
<1> QED
  BY <1>4, <1>5, <1>6, <1>7, <1>8

-----------------------------------------------------------------------------
(* The invariant of a timely instance.                                     *)

\* Send keeps every secret in use traceable.
LEMMA ChainSend ==
    ASSUME LockInv, LockInv', ChainInv, Timely, NEW r \in Requests, Send(r)
    PROVE  ChainInv'
<1> USE DEF LockInv, ChainInv
<1>1. ASSUME NEW t, Traceable(t)
      PROVE  Traceable(t)'
  BY <1>1 DEF Send, At, Goto, Finish, Idle, row, bounds, Traceable, Known, TypeOK,
     RequestRecords, CacheEntry
<1>2. InUseIsTraceable'
  BY <1>1 DEF Send, At, Goto, Finish, Idle, row, bounds, InUseIsTraceable,
     Traceable, Known, TypeOK, RequestRecords
<1>3. CacheIsChained'
  BY <1>1 DEF Send, At, Goto, Finish, Idle, row, bounds, CacheIsChained,
     InUseIsTraceable, Traceable, Known, CacheEntry, TypeOK, RequestRecords
<1>4. ended' # "reuse"
  BY DEF Send, At, Goto, Finish, Idle, row, bounds
<1> QED
  BY <1>2, <1>3, <1>4

\* SendStray keeps every secret in use traceable.
LEMMA ChainSendStray ==
    ASSUME LockInv, LockInv', ChainInv, Timely, NEW r \in Requests, SendStray(r)
    PROVE  ChainInv'
<1> USE DEF LockInv, ChainInv
<1>1. ASSUME NEW t, Traceable(t)
      PROVE  Traceable(t)'
  BY <1>1 DEF SendStray, At, Goto, Finish, Idle, row, bounds, Traceable, Known,
     TypeOK, RequestRecords, CacheEntry
<1>2. InUseIsTraceable'
  BY <1>1 DEF SendStray, At, Goto, Finish, Idle, row, bounds, InUseIsTraceable,
     Traceable, Known, TypeOK, RequestRecords
<1>3. CacheIsChained'
  BY <1>1 DEF SendStray, At, Goto, Finish, Idle, row, bounds, CacheIsChained,
     InUseIsTraceable, Traceable, Known, CacheEntry, TypeOK, RequestRecords
<1>4. ended' # "reuse"
  BY DEF SendStray, At, Goto, Finish, Idle, row, bounds
<1> QED
  BY <1>2, <1>3, <1>4

\* Refuse keeps every secret in use traceable.
LEMMA ChainRefuse ==
    ASSUME LockInv, LockInv', ChainInv, Timely, NEW r \in Requests, Refuse(r)
    PROVE  ChainInv'
<1> USE DEF LockInv, ChainInv
<1>1. ASSUME NEW t, Traceable(t)
      PROVE  Traceable(t)'
  BY <1>1 DEF Refuse, At, Goto, Finish, Idle, row, bounds, Traceable, Known,
     TypeOK, RequestRecords, CacheEntry
<1>2. InUseIsTraceable'
  BY <1>1 DEF Refuse, At, Goto, Finish, Idle, row, bounds, InUseIsTraceable,
     Traceable, Known, TypeOK, RequestRecords
<1>3. CacheIsChained'
  BY <1>1 DEF Refuse, At, Goto, Finish, Idle, row, bounds, CacheIsChained,
     InUseIsTraceable, Traceable, Known, CacheEntry, TypeOK, RequestRecords
<1>4. ended' # "reuse"
  BY DEF Refuse, At, Goto, Finish, Idle, row, bounds
<1> QED
  BY <1>2, <1>3, <1>4

\* Verify keeps every secret in use traceable.
LEMMA ChainVerify ==
    ASSUME LockInv, LockInv', ChainInv, Timely, NEW r \in Requests, Verify(r)
    PROVE  ChainInv'
<1> USE DEF LockInv, ChainInv
<1>1. ASSUME NEW t, Traceable(t)
      PROVE  Traceable(t)'
  BY <1>1 DEF Verify, At, Goto, Finish, Idle, row, bounds, Traceable, Known,
     TypeOK, RequestRecords, CacheEntry
<1>2. InUseIsTraceable'
  BY <1>1 DEF Verify, At, Goto, Finish, Idle, row, bounds, InUseIsTraceable,
     Traceable, Known, TypeOK, RequestRecords
<1>3. CacheIsChained'
  BY <1>1 DEF Verify, At, Goto, Finish, Idle, row, bounds, CacheIsChained,
     InUseIsTraceable, Traceable, Known, CacheEntry, TypeOK, RequestRecords
<1>4. ended' # "reuse"
  BY DEF Verify, At, Goto, Finish, Idle, row, bounds
<1> QED
  BY <1>2, <1>3, <1>4

\* Rotate keeps every secret in use traceable.
LEMMA ChainRotate ==
    ASSUME LockInv, LockInv', ChainInv, Timely, NEW r \in Requests, Rotate(r)
    PROVE  ChainInv'
<1> USE DEF LockInv, ChainInv
<1>1. ASSUME NEW t, Traceable(t)
      PROVE  Traceable(t)'
  BY <1>1 DEF Rotate, At, Goto, Finish, Idle, row, bounds, Unlock, Traceable,
     Known, TypeOK, RequestRecords, CacheEntry, RotatesCurrent
<1>2. InUseIsTraceable'
  BY <1>1 DEF Rotate, At, Goto, Finish, Idle, row, bounds, Unlock,
     InUseIsTraceable, Traceable, Known, TypeOK, RequestRecords, RotatesCurrent
<1>3. CacheIsChained'
  BY <1>1 DEF Rotate, CacheIsChained
<1>4. ended' # "reuse"
  BY DEF Rotate, At, Goto, Finish, Idle, row, bounds
<1> QED
  BY <1>2, <1>3, <1>4

\* Save keeps every secret in use traceable.
LEMMA ChainSave ==
    ASSUME LockInv, LockInv', ChainInv, Timely, NEW r \in Requests, Save(r)
    PROVE  ChainInv'
<1> USE DEF LockInv, ChainInv
<1> DEFINE new == <<req[r].in, req[r].out>>
<1>0. cache' = cache \cup {new} /\ new[1] = req[r].in /\ new[2] = req[r].out
  BY DEF Save, CacheEntry
<1>a. \A s \in Requests : req'[s].in = req[s].in /\ req'[s].out = req[s].out
  BY DEF Save, Goto, TypeOK, RequestRecords
<1>b. \A s \in Requests : s # r => req'[s] = req[s]
  BY DEF Save, Goto, TypeOK
<1>c. UNCHANGED <<secret, jar, ended>>
  BY DEF Save, row
<1> HIDE DEF new
<1>1. ASSUME NEW t, Traceable(t)
      PROVE  Traceable(t)'
  <2>1. CASE \E p \in cache : p[1] = t
    BY <1>0, <2>1 DEF Traceable, Known
  <2>2. CASE t = req[r].in
    BY <1>0, <2>2 DEF Traceable, Known
  <2>3. CASE \E s \in Requests : s # r /\ At(s, "save") /\ req[s].in = t
    BY <1>b, <2>3 DEF Traceable, Known, At
  <2> QED
    BY <1>1, <1>c, <2>1, <2>2, <2>3 DEF Traceable, Known
<1>2. InUseIsTraceable'
  BY <1>1, <1>a, <1>c DEF InUseIsTraceable
<1>3. CacheIsChained'
  BY <1>0, <1>1 DEF CacheIsChained, InUseIsTraceable
<1>4. ended' # "reuse"
  BY <1>c
<1> QED
  BY <1>2, <1>3, <1>4

\* Replay keeps every secret in use traceable.
LEMMA ChainReplay ==
    ASSUME LockInv, LockInv', ChainInv, Timely, NEW r \in Requests, Replay(r)
    PROVE  ChainInv'
<1> USE DEF LockInv, ChainInv
<1>1. ASSUME NEW t, Traceable(t)
      PROVE  Traceable(t)'
  BY <1>1 DEF Replay, At, Goto, Finish, Idle, row, bounds, Unlock, Traceable,
     Known, TypeOK, RequestRecords, CacheEntry
<1>2. InUseIsTraceable'
  BY <1>1 DEF Replay, At, Goto, Finish, Idle, row, bounds, Unlock,
     InUseIsTraceable, Traceable, Known, TypeOK, RequestRecords, CacheIsChained
<1>3. CacheIsChained'
  BY <1>1 DEF Replay, At, Goto, Finish, Idle, row, bounds, Unlock, CacheIsChained,
     InUseIsTraceable, Traceable, Known, CacheEntry, TypeOK, RequestRecords
<1>4. ended' # "reuse"
  BY DEF Replay, At, Goto, Finish, Idle, row, bounds
<1> QED
  BY <1>2, <1>3, <1>4

\* Reuse keeps every secret in use traceable.
LEMMA ChainReuse ==
    ASSUME LockInv, LockInv', ChainInv, Timely, NEW r \in Requests, Reuse(r)
    PROVE  ChainInv'
<1> USE DEF LockInv, ChainInv
<1>1. ASSUME NEW t, Traceable(t)
      PROVE  Traceable(t)'
  BY <1>1 DEF Reuse, At, Goto, Finish, Idle, row, bounds, Unlock, Traceable, Known,
     TypeOK, RequestRecords, CacheEntry
<1>2. InUseIsTraceable'
  BY <1>1 DEF Reuse, At, Goto, Finish, Idle, row, bounds, Unlock, InUseIsTraceable,
     Traceable, Known, TypeOK, RequestRecords, OwnerOfRow
<1>3. CacheIsChained'
  BY <1>1 DEF Reuse, At, Goto, Finish, Idle, row, bounds, Unlock, CacheIsChained,
     InUseIsTraceable, Traceable, Known, CacheEntry, TypeOK, RequestRecords
<1>4. ended' # "reuse"
  BY DEF Reuse, At, Goto, Finish, Idle, row, bounds, InUseIsTraceable, Traceable,
     Known, Saved, RotatesCurrent, RequestsHaveSecrets
<1> QED
  BY <1>2, <1>3, <1>4

\* Delivered keeps every secret in use traceable.
LEMMA ChainDelivered ==
    ASSUME LockInv, LockInv', ChainInv, Timely, NEW r \in Requests, Delivered(r)
    PROVE  ChainInv'
<1> USE DEF LockInv, ChainInv
<1>1. ASSUME NEW t, Traceable(t)
      PROVE  Traceable(t)'
  BY <1>1 DEF Delivered, At, Goto, Finish, Idle, row, bounds, Traceable, Known,
     TypeOK, RequestRecords, CacheEntry
<1>2. InUseIsTraceable'
  BY <1>1 DEF Delivered, At, Goto, Finish, Idle, row, bounds, InUseIsTraceable,
     Traceable, Known, TypeOK, RequestRecords
<1>3. CacheIsChained'
  BY <1>1 DEF Delivered, At, Goto, Finish, Idle, row, bounds, CacheIsChained,
     InUseIsTraceable, Traceable, Known, CacheEntry, TypeOK, RequestRecords
<1>4. ended' # "reuse"
  BY DEF Delivered, At, Goto, Finish, Idle, row, bounds
<1> QED
  BY <1>2, <1>3, <1>4

\* Lost keeps every secret in use traceable.
LEMMA ChainLost ==
    ASSUME LockInv, LockInv', ChainInv, Timely, NEW r \in Requests, Lost(r)
    PROVE  ChainInv'
<1> USE DEF LockInv, ChainInv
<1>1. ASSUME NEW t, Traceable(t)
      PROVE  Traceable(t)'
  BY <1>1 DEF Lost, At, Goto, Finish, Idle, row, bounds, Traceable, Known, TypeOK,
     RequestRecords, CacheEntry
<1>2. InUseIsTraceable'
  BY <1>1 DEF Lost, At, Goto, Finish, Idle, row, bounds, InUseIsTraceable,
     Traceable, Known, TypeOK, RequestRecords
<1>3. CacheIsChained'
  BY <1>1 DEF Lost, At, Goto, Finish, Idle, row, bounds, CacheIsChained,
     InUseIsTraceable, Traceable, Known, CacheEntry, TypeOK, RequestRecords
<1>4. ended' # "reuse"
  BY DEF Lost, At, Goto, Finish, Idle, row, bounds
<1> QED
  BY <1>2, <1>3, <1>4

\* Crash keeps every secret in use traceable.
LEMMA ChainCrash ==
    ASSUME LockInv, LockInv', ChainInv, Timely, NEW r \in Requests, Crash(r)
    PROVE  ChainInv'
<1> USE DEF LockInv, ChainInv
<1>1. ASSUME NEW t, Traceable(t)
      PROVE  Traceable(t)'
  BY <1>1 DEF Crash, At, Goto, Finish, Idle, row, bounds, Unlock, Traceable, Known,
     TypeOK, RequestRecords, CacheEntry
<1>2. InUseIsTraceable'
  BY <1>1 DEF Crash, At, Goto, Finish, Idle, row, bounds, Unlock, InUseIsTraceable,
     Traceable, Known, TypeOK, RequestRecords
<1>3. CacheIsChained'
  BY <1>1 DEF Crash, At, Goto, Finish, Idle, row, bounds, Unlock, CacheIsChained,
     InUseIsTraceable, Traceable, Known, CacheEntry, TypeOK, RequestRecords
<1>4. ended' # "reuse"
  BY DEF Crash, At, Goto, Finish, Idle, row, bounds
<1> QED
  BY <1>2, <1>3, <1>4

\* Logout keeps every secret in use traceable.
LEMMA ChainLogout ==
    ASSUME LockInv, LockInv', ChainInv, Timely, Logout
    PROVE  ChainInv'
<1> USE DEF LockInv, ChainInv
<1>1. ASSUME NEW t, Traceable(t)
      PROVE  Traceable(t)'
  BY <1>1 DEF Logout, At, Goto, Finish, Idle, row, bounds, Traceable, Known,
     TypeOK, RequestRecords, CacheEntry
<1>2. InUseIsTraceable'
  BY <1>1 DEF Logout, At, Goto, Finish, Idle, row, bounds, InUseIsTraceable,
     Traceable, Known, TypeOK, RequestRecords
<1>3. CacheIsChained'
  BY <1>1 DEF Logout, At, Goto, Finish, Idle, row, bounds, CacheIsChained,
     InUseIsTraceable, Traceable, Known, CacheEntry, TypeOK, RequestRecords
<1>4. ended' # "reuse"
  BY DEF Logout, At, Goto, Finish, Idle, row, bounds
<1> QED
  BY <1>2, <1>3, <1>4

\* Expire keeps every secret in use traceable.
LEMMA ChainExpire ==
    ASSUME LockInv, LockInv', ChainInv, Timely, Expire
    PROVE  ChainInv'
<1> USE DEF LockInv, ChainInv
<1>1. ASSUME NEW t, Traceable(t)
      PROVE  Traceable(t)'
  BY <1>1 DEF Expire, At, Goto, Finish, Idle, row, bounds, Traceable, Known,
     TypeOK, RequestRecords, CacheEntry
<1>2. InUseIsTraceable'
  BY <1>1 DEF Expire, At, Goto, Finish, Idle, row, bounds, InUseIsTraceable,
     Traceable, Known, TypeOK, RequestRecords
<1>3. CacheIsChained'
  BY <1>1 DEF Expire, At, Goto, Finish, Idle, row, bounds, CacheIsChained,
     InUseIsTraceable, Traceable, Known, CacheEntry, TypeOK, RequestRecords
<1>4. ended' # "reuse"
  BY DEF Expire, At, Goto, Finish, Idle, row, bounds
<1> QED
  BY <1>2, <1>3, <1>4

\* Suspend keeps every secret in use traceable.
LEMMA ChainSuspend ==
    ASSUME LockInv, LockInv', ChainInv, Timely, Suspend
    PROVE  ChainInv'
<1> USE DEF LockInv, ChainInv
<1>1. ASSUME NEW t, Traceable(t)
      PROVE  Traceable(t)'
  BY <1>1 DEF Suspend, At, Goto, Finish, Idle, row, bounds, Traceable, Known,
     TypeOK, RequestRecords, CacheEntry
<1>2. InUseIsTraceable'
  BY <1>1 DEF Suspend, At, Goto, Finish, Idle, row, bounds, InUseIsTraceable,
     Traceable, Known, TypeOK, RequestRecords
<1>3. CacheIsChained'
  BY <1>1 DEF Suspend, At, Goto, Finish, Idle, row, bounds, CacheIsChained,
     InUseIsTraceable, Traceable, Known, CacheEntry, TypeOK, RequestRecords
<1>4. ended' # "reuse"
  BY DEF Suspend, At, Goto, Finish, Idle, row, bounds
<1> QED
  BY <1>2, <1>3, <1>4

\* CacheExpires keeps every secret in use traceable.
LEMMA ChainCacheExpires ==
    ASSUME LockInv, LockInv', ChainInv, Timely, NEW p \in cache, CacheExpires(p)
    PROVE  ChainInv'
<1> USE DEF LockInv, ChainInv
<1>1. ASSUME NEW t, Traceable(t), t # p[1]
      PROVE  Traceable(t)'
  BY <1>1 DEF CacheExpires, Traceable, Known, At, row
<1>2. Traceable(jar) /\ jar # p[1]
  BY DEF CacheExpires, InUse, InUseIsTraceable
<1>3. ASSUME NEW r \in Requests
      PROVE  Traceable(req[r].in)' /\ Traceable(req[r].out)'
  <2>1. CASE req[r] = Idle
    BY <2>1 DEF CacheExpires, Idle, Traceable
  <2>2. CASE req[r] # Idle
    <3>1. req[r].in # p[1] /\ req[r].out # p[1]
      BY <2>2 DEF CacheExpires, InUse
    <3>2. Traceable(req[r].in)' /\ Traceable(req[r].out)'
      BY <1>1, <3>1 DEF InUseIsTraceable, CacheExpires, Traceable, Known, At, row
    <3> QED
      BY <3>2
  <2> QED
    BY <2>1, <2>2
<1>4. ASSUME NEW q \in cache
      PROVE  q[2] # p[1]
  <2>1. q[2] = q[1] + 1 /\ p[1] <= q[1] /\ p[1] \in Nat /\ q[1] \in Nat
    BY DEF CacheExpires, PairSteps, TypeOK, Pairs, Secrets
  <2> QED
    BY <2>1
<1>5. InUseIsTraceable'
  BY <1>1, <1>2, <1>3 DEF InUseIsTraceable, CacheExpires, Traceable, Known, At, row
<1>6. CacheIsChained'
  BY <1>1, <1>4 DEF CacheIsChained, CacheExpires, Traceable, Known, At, row
<1> QED
  BY <1>5, <1>6 DEF CacheExpires, row

-----------------------------------------------------------------------------
(* The theorems.                                                           *)

\* The invariant of the lock holds in every instance.
LEMMA LockInvariant == Spec => []LockInv
<1>1. Init => LockInv
  <2> SUFFICES ASSUME Init PROVE LockInv
    OBVIOUS
  <2>1. Idle \in RequestRecords
    BY DEF Idle, RequestRecords, Steps
  <2>2. TypeOK
    <3>1. req \in [Requests -> RequestRecords]
      BY <2>1 DEF Init
    <3>2. secret \in Secrets /\ jar \in Nat /\ sends \in Nat /\ crashes \in Nat
      BY DEF Init, Secrets
    <3>3. cache \in SUBSET Pairs /\ answered \in SUBSET Pairs
      BY DEF Init
    <3> QED
      BY <3>1, <3>2, <3>3 DEF Init, TypeOK
  <2> QED
    BY <2>2 DEF Init, LockInv, OwnerOfRow, RotatesCurrent, PairSteps,
       RequestsHaveSecrets,
       Idle, At
<1>2. LockInv /\ [Next]_vars => LockInv'
  <2> SUFFICES ASSUME LockInv, [Next]_vars PROVE LockInv'
    OBVIOUS
  <2>1. CASE UNCHANGED vars
    BY <2>1 DEF LockInv, TypeOK, OwnerOfRow, RotatesCurrent, PairSteps,
       RequestsHaveSecrets, At, vars, row, bounds
  <2>2. CASE Next
    BY <2>2, LockSend, LockSendStray, LockRefuse, LockVerify, LockRotate,
       LockSave, LockReplay, LockReuse, LockDelivered, LockLost,
       LockCrash, LockLogout, LockExpire, LockSuspend, LockCacheExpires DEF Next, Serve
  <2> QED
    BY <2>1, <2>2
<1> QED
  BY <1>1, <1>2, PTL DEF Spec

\* The invariant of the chain holds if the instance is timely.
LEMMA ChainInvariant == Timely => (Spec => []ChainInv)
<1> SUFFICES ASSUME Timely PROVE Spec => []ChainInv
  OBVIOUS
<1>1. Init => ChainInv
  BY DEF Init, ChainInv, InUseIsTraceable, CacheIsChained, Traceable, Idle
<1>2. LockInv /\ LockInv' /\ ChainInv /\ [Next]_vars => ChainInv'
  <2> SUFFICES ASSUME LockInv, LockInv', ChainInv, [Next]_vars PROVE ChainInv'
    OBVIOUS
  <2>1. CASE UNCHANGED vars
    BY <2>1 DEF ChainInv, InUseIsTraceable, CacheIsChained, Traceable, Known, At,
       vars, row, bounds
  <2>2. CASE Next
    BY <2>2, ChainSend, ChainSendStray, ChainRefuse, ChainVerify, ChainRotate,
       ChainSave, ChainReplay, ChainReuse, ChainDelivered, ChainLost,
       ChainCrash, ChainLogout, ChainExpire, ChainSuspend, ChainCacheExpires DEF Next, Serve
  <2> QED
    BY <2>1, <2>2
<1> QED
  BY <1>1, <1>2, LockInvariant, PTL DEF Spec

\* Row, jar, cache and request records keep their types for any number of
\* overlapping requests, timely or not.
THEOREM TypeCorrect == Spec => []TypeOK
  BY LockInvariant, PTL DEF LockInv

\* A refresh secret has one successor, whatever tabs, crashes, a failing Redis
\* and expiry do: the row lock of execute alone sees to it.
THEOREM NoForkHolds == Spec => []NoFork
<1>1. LockInv => NoFork
  BY DEF LockInv, PairSteps, NoFork
<1> QED
  BY <1>1, LockInvariant, PTL

\* If the grace covers the delays, a browser that presents what it was given
\* never has its family revoked for reuse.
THEOREM HonestStaysInHolds == Timely => (Spec => []HonestStaysIn)
<1>1. ChainInv => HonestStaysIn
  BY DEF ChainInv, HonestStaysIn
<1> QED
  BY <1>1, ChainInvariant, PTL

\* And what the jar holds is the current secret or one whose rotation is known.
THEOREM JarIsKnownHolds == Timely => (Spec => []JarIsKnown)
<1>1. ChainInv => JarIsKnown
  BY DEF ChainInv, InUseIsTraceable, Traceable, Known, JarIsKnown
<1> QED
  BY <1>1, ChainInvariant, PTL

=============================================================================
