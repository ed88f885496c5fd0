-------------------------- MODULE Realtime_proofs --------------------------
(***************************************************************************)
(* The realtime side of an expert and of a consultation.                   *)
(*                                                                         *)
(* ExpertPresence, for any number of sockets, consultations and handlers:  *)
(* types, that the marker of an undisturbed live consultation names it,    *)
(* and that a watching client is shown the status the expert has.          *)
(*                                                                         *)
(* ConsultationClock, for any bounds and any number of handlers: types, and *)
(* the meter against real time, against the talk and against the budget.   *)
(*                                                                         *)
(* DisconnectGrace, for any parties and sockets: types, and that an actor  *)
(* with a live socket loses no session.                                    *)
(***************************************************************************)
EXTENDS ExpertPresence, ConsultationClock, DisconnectGrace, SequenceTheorems, TLAPS

-----------------------------------------------------------------------------
(* The calls of a handler.                                                 *)

\* The calls that use the status derived just before.
Ends == {"compare", "announce", "answer"}

\* What the i-th call asks of its neighbours: a derived status is used at once,
\* a change of the marker is evaluated, and only the next call uses the marker
\* that was read.
FormedAt(todo, i) ==
    /\ todo[i] = "derive" => (i < Len(todo) /\ todo[i + 1] \in Ends)
    /\ (todo[i] \in Ends /\ i > 1) => todo[i - 1] = "derive"
    /\ todo[i] \in {"idle", "busy"} => (i < Len(todo) - 2 /\ todo[i + 3] = "compare")
    /\ todo[i] \in {"check", "rewrite"} => i = 1
    /\ todo[i] = "answer" => i = Len(todo)

WellFormed(todo) == \A i \in 1..Len(todo) : FormedAt(todo, i)

\* What may follow any call but one that derives.
Follows(todo) ==
    /\ WellFormed(todo)
    /\ todo # <<>> => todo[1] \notin Ends
    /\ \A i \in 1..Len(todo) : todo[i] \notin {"check", "rewrite"}

Has(todo, call) == \E i \in 1..Len(todo) : todo[i] = call

Release == <<"idle">> \o Evaluate

\* One call in front of others.
LEMMA Prepend ==
    ASSUME NEW t \in Seq(Calls), NEW x \in Calls, NEW s, s = <<x>> \o t
    PROVE  /\ s \in Seq(Calls) /\ Len(s) = Len(t) + 1 /\ Len(t) \in Nat
           /\ s[1] = x /\ \A i \in 1..Len(t) : s[i + 1] = t[i]
           /\ \A i \in 1..Len(s) : i = 1 \/ (i > 1 /\ i - 1 \in 1..Len(t) /\ s[i] = t[i - 1])
           /\ s # <<>> /\ Head(s) = x /\ Tail(s) = t
  OBVIOUS

\* What is left after the first call.
LEMMA TailCalls ==
    ASSUME NEW s \in Seq(Calls), s # <<>>
    PROVE  /\ Head(s) \in Calls /\ Head(s) = s[1] /\ Tail(s) \in Seq(Calls)
           /\ Len(s) \in Nat /\ Len(s) > 0 /\ Len(Tail(s)) = Len(s) - 1
           /\ \A i \in 1..Len(Tail(s)) : Tail(s)[i] = s[i + 1]
  OBVIOUS

\* What is left is well formed.
LEMMA TailFormed ==
    ASSUME NEW s \in Seq(Calls), s # <<>>, WellFormed(s)
    PROVE  /\ WellFormed(Tail(s))
           /\ Head(s) # "derive" => Follows(Tail(s))
           /\ Head(s) = "derive" => Tail(s) # <<>> /\ Head(Tail(s)) \in Ends
           /\ Head(s) \in {"idle", "busy"} => Has(Tail(s), "compare")
           /\ Head(s) = "answer" => Tail(s) = <<>>
           /\ Has(s, "compare") /\ Head(s) # "compare" => Has(Tail(s), "compare")
           /\ Has(s, "announce") /\ Head(s) # "announce" => Has(Tail(s), "announce")
<1> DEFINE t == Tail(s)
<1>1. /\ t \in Seq(Calls) /\ Len(s) \in Nat /\ Len(s) > 0 /\ Len(t) = Len(s) - 1
      /\ Head(s) = s[1]
      /\ \A i \in 1..Len(t) : t[i] = s[i + 1] /\ i + 1 \in 1..Len(s)
      /\ \A i \in 1..Len(s) : i # 1 => i - 1 \in 1..Len(t) /\ s[i] = t[i - 1]
  BY TailCalls
<1> HIDE DEF t
<1>2. ASSUME NEW i \in 1..Len(t)
      PROVE  FormedAt(t, i)
  <2>1. FormedAt(s, i + 1) /\ t[i] = s[i + 1]
    BY <1>1 DEF WellFormed
  <2>2. i \in Nat /\ i > 0 /\ i <= Len(t) /\ Len(t) \in Nat
    BY <1>1
  <2>3. ASSUME t[i] = "derive"
        PROVE  i < Len(t) /\ t[i + 1] \in Ends
    <3>1. i + 1 < Len(s) /\ s[(i + 1) + 1] \in Ends
      BY <2>1, <2>3 DEF FormedAt
    <3>2. i + 1 \in 1..Len(t)
      BY <1>1, <2>2, <3>1
    <3> QED BY <1>1, <3>1, <3>2
  <2>4. (t[i] \in Ends /\ i > 1) => t[i - 1] = "derive"
    BY <1>1, <2>1, <2>2 DEF FormedAt
  <2>5. t[i] \in {"idle", "busy"} => (i < Len(t) - 2 /\ t[i + 3] = "compare")
    BY <1>1, <2>1, <2>2 DEF FormedAt
  <2>6. t[i] \notin {"check", "rewrite"}
    BY <1>1, <2>1, <2>2 DEF FormedAt
  <2>7. t[i] = "answer" => i = Len(t)
    BY <1>1, <2>1, <2>2 DEF FormedAt
  <2> QED BY <2>3, <2>4, <2>5, <2>6, <2>7 DEF FormedAt
<1>3. Head(s) # "derive" => Follows(t)
  <2>1. \A i \in 1..Len(t) : t[i] \notin {"check", "rewrite"}
    BY <1>1 DEF WellFormed, FormedAt
  <2>2. ASSUME Head(s) # "derive", t # <<>>
        PROVE  t[1] \notin Ends
    <3>1. Len(t) > 0 /\ 1 \in 1..Len(t) /\ 2 \in 1..Len(s) /\ t[1] = s[2]
      BY <1>1, <2>2
    <3>2. FormedAt(s, 2)
      BY <3>1 DEF WellFormed
    <3> QED BY <1>1, <2>2, <3>1, <3>2 DEF FormedAt
  <2> QED BY <1>2, <2>1, <2>2 DEF Follows, WellFormed
<1>4. Head(s) = "derive" => t # <<>> /\ Head(t) \in Ends
  <2>1. FormedAt(s, 1) /\ 1 \in 1..Len(s)
    BY <1>1 DEF WellFormed
  <2> QED BY <1>1, <2>1 DEF FormedAt
<1>5. Head(s) \in {"idle", "busy"} => Has(t, "compare")
  <2>1. FormedAt(s, 1) /\ 1 \in 1..Len(s)
    BY <1>1 DEF WellFormed
  <2>2. Head(s) \in {"idle", "busy"} => (3 \in 1..Len(t) /\ t[3] = "compare")
    BY <1>1, <2>1 DEF FormedAt
  <2> QED BY <2>2 DEF Has
<1>6. Head(s) = "answer" => t = <<>>
  <2>1. FormedAt(s, 1) /\ 1 \in 1..Len(s)
    BY <1>1 DEF WellFormed
  <2> QED BY <1>1, <2>1 DEF FormedAt
<1>7. \A x : Has(s, x) /\ Head(s) # x => Has(t, x)
  BY <1>1 DEF Has
<1> QED BY <1>2, <1>3, <1>4, <1>5, <1>6, <1>7 DEF t, WellFormed

\* A reading call in front.
LEMMA PrependFormed ==
    ASSUME NEW t \in Seq(Calls), Follows(t), NEW x \in {"check", "rewrite", "repair", "sustain"}
    PROVE  /\ WellFormed(<<x>> \o t) /\ (<<x>> \o t) \in Seq(Calls)
           /\ x \in {"repair", "sustain"} => Follows(<<x>> \o t)
           /\ <<x>> \o t # <<>> /\ Head(<<x>> \o t) = x
           /\ \A y : Has(t, y) => Has(<<x>> \o t, y)
           /\ \A y : Has(<<x>> \o t, y) /\ y # x => Has(t, y)
<1> DEFINE s == <<x>> \o t
<1>1. x \in Calls
  BY DEF Calls
<1>2. /\ s \in Seq(Calls) /\ Len(s) = Len(t) + 1 /\ Len(t) \in Nat
      /\ s[1] = x /\ \A i \in 1..Len(t) : s[i + 1] = t[i] /\ i + 1 \in 1..Len(s)
      /\ \A i \in 1..Len(s) : i = 1 \/ (i > 1 /\ i - 1 \in 1..Len(t) /\ s[i] = t[i - 1])
      /\ s # <<>> /\ Head(s) = x
  BY <1>1, Prepend
<1> HIDE DEF s
<1>3. ASSUME NEW i \in 1..Len(s)
      PROVE  FormedAt(s, i)
  <2>1. CASE i = 1
    BY <1>2, <2>1 DEF FormedAt, Ends
  <2>2. CASE i # 1
    <3> DEFINE j == i - 1
    <3>1. /\ j \in 1..Len(t) /\ j \in Nat /\ i = j + 1 /\ i \in Nat /\ i > 1 /\ j > 0
          /\ s[i] = t[j] /\ j <= Len(t)
      BY <1>2, <2>2
    <3> HIDE DEF j
    <3>2. FormedAt(t, j) /\ t[j] \notin {"check", "rewrite"} /\ (j = 1 => t[j] \notin Ends)
      BY <1>2, <3>1 DEF Follows, WellFormed
    <3>3. t[j] = "derive" => (j + 1 \in 1..Len(t) /\ i < Len(s) /\ s[i + 1] = t[j + 1])
      BY <1>2, <3>1, <3>2 DEF FormedAt
    <3>4. t[j] \in {"idle", "busy"} =>
            (j + 3 \in 1..Len(t) /\ i < Len(s) - 2 /\ s[i + 3] = t[j + 3])
      BY <1>2, <3>1, <3>2 DEF FormedAt
    <3>5. j > 1 => (j - 1 \in 1..Len(t) /\ s[i - 1] = t[j - 1])
      BY <1>2, <3>1
    <3> QED BY <1>2, <3>1, <3>2, <3>3, <3>4, <3>5 DEF FormedAt
  <2> QED BY <2>1, <2>2
<1>4. x \in {"repair", "sustain"} => Follows(s)
  <2>1. ASSUME x \in {"repair", "sustain"}, NEW i \in 1..Len(s)
        PROVE  s[i] \notin {"check", "rewrite"}
    BY <1>2, <2>1 DEF Follows
  <2> QED BY <1>2, <1>3, <2>1 DEF Follows, WellFormed, Ends
<1>5. (\A y : Has(t, y) => Has(s, y)) /\ \A y : Has(s, y) /\ y # x => Has(t, y)
  BY <1>2 DEF Has
<1> QED BY <1>2, <1>3, <1>4, <1>5 DEF s, WellFormed

\* Setting the expert idle or busy in front, with the evaluation that follows.
LEMMA ReleaseFormed ==
    ASSUME NEW t \in Seq(Calls), Follows(t), NEW x \in {"idle", "busy"}
    PROVE  LET s == (<<x>> \o Evaluate) \o t
           IN  /\ WellFormed(s) /\ s \in Seq(Calls)
               /\ s # <<>> /\ Head(s) = x
               /\ Has(s, "compare")
               /\ \A y : Has(t, y) => Has(s, y)
<1> DEFINE s == (<<x>> \o Evaluate) \o t
<1>1. /\ s \in Seq(Calls) /\ Len(s) = Len(t) + 4 /\ Len(t) \in Nat
      /\ s[1] = x /\ s[2] = "repair" /\ s[3] = "derive" /\ s[4] = "compare"
      /\ \A i \in 1..Len(t) : s[i + 4] = t[i] /\ i + 4 \in 1..Len(s)
      /\ s # <<>> /\ Head(s) = x
  BY DEF Evaluate, Calls
<1>2. \A i \in 1..Len(s) : i \in {1, 2, 3, 4} \/ (i > 4 /\ i - 4 \in 1..Len(t) /\ s[i] = t[i - 4])
  BY <1>1
<1> HIDE DEF s
<1>3. ASSUME NEW i \in 1..Len(s)
      PROVE  FormedAt(s, i)
  <2>1. CASE i \in {1, 2, 3, 4}
    BY <1>1, <2>1 DEF FormedAt, Ends
  <2>2. CASE i \notin {1, 2, 3, 4}
    <3> DEFINE j == i - 4
    <3>1. /\ j \in 1..Len(t) /\ j \in Nat /\ i = j + 4 /\ i \in Nat /\ i > 4 /\ j > 0
          /\ s[i] = t[j] /\ j <= Len(t)
      BY <1>1, <1>2, <2>2
    <3> HIDE DEF j
    <3>2. FormedAt(t, j) /\ t[j] \notin {"check", "rewrite"} /\ (j = 1 => t[j] \notin Ends)
      BY <1>1, <3>1 DEF Follows, WellFormed
    <3>3. t[j] = "derive" => (j + 1 \in 1..Len(t) /\ i < Len(s) /\ s[i + 1] = t[j + 1])
      BY <1>1, <3>1, <3>2 DEF FormedAt
    <3>4. t[j] \in {"idle", "busy"} =>
            (j + 3 \in 1..Len(t) /\ i < Len(s) - 2 /\ s[i + 3] = t[j + 3])
      BY <1>1, <3>1, <3>2 DEF FormedAt
    <3>5. ASSUME j > 1
          PROVE  j - 1 \in 1..Len(t) /\ s[i - 1] = t[j - 1]
      <4>1. j - 1 \in 1..Len(t) /\ i - 1 = (j - 1) + 4
        BY <1>1, <3>1, <3>5
      <4> QED BY <1>1, <4>1
    <3> QED BY <1>1, <3>1, <3>2, <3>3, <3>4, <3>5 DEF FormedAt
  <2> QED BY <2>1, <2>2
<1>4. Has(s, "compare") /\ \A y : Has(t, y) => Has(s, y)
  BY <1>1 DEF Has
<1> QED BY <1>1, <1>3, <1>4 DEF s, WellFormed

\* The calls with which handlers begin.
LEMMA BeginFormed ==
    /\ \A e \in {Evaluate, Announce, <<"repair", "derive", "answer">>, <<>>} :
         Follows(e) /\ e \in Seq(Calls)
    /\ \A x \in {"busy", "idle"} :
         WellFormed(<<x>> \o Evaluate) /\ <<x>> \o Evaluate \in Seq(Calls)
    /\ \A e \in {<<>>, Announce} :
         LET s == <<"repair", "sustain">> \o e
         IN  Follows(s) /\ s \in Seq(Calls) /\ (Has(e, "announce") => Has(s, "announce"))
    /\ Has(Evaluate, "compare") /\ Has(Announce, "announce")
<1>1. \A e \in {Evaluate, Announce, <<"repair", "derive", "answer">>, <<>>} :
         Follows(e) /\ e \in Seq(Calls)
  <2>1. ASSUME NEW y \in Ends, NEW e, e = <<"repair", "derive", y>>
        PROVE  Follows(e) /\ e \in Seq(Calls)
    <3>1. Len(e) = 3 /\ e[1] = "repair" /\ e[2] = "derive" /\ e[3] = y /\ e \in Seq(Calls)
      BY <2>1 DEF Calls, Ends
    <3>2. \A i \in 1..Len(e) : i \in {1, 2, 3}
      BY <3>1
    <3>3. FormedAt(e, 1) /\ FormedAt(e, 2) /\ FormedAt(e, 3)
      BY <3>1 DEF FormedAt, Ends
    <3> QED BY <3>1, <3>2, <3>3 DEF Follows, WellFormed, Ends
  <2>2. Follows(<<>>) /\ <<>> \in Seq(Calls)
    BY DEF Follows, WellFormed
  <2> QED BY <2>1, <2>2 DEF Evaluate, Announce, Ends
<1>2. ASSUME NEW x \in {"busy", "idle"}
      PROVE  WellFormed(<<x>> \o Evaluate) /\ <<x>> \o Evaluate \in Seq(Calls)
  <2> DEFINE e == <<x>> \o Evaluate
  <2>1. /\ Len(e) = 4 /\ e[1] = x /\ e[2] = "repair" /\ e[3] = "derive" /\ e[4] = "compare"
        /\ e \in Seq(Calls)
    BY DEF Evaluate, Calls
  <2> HIDE DEF e
  <2>2. \A i \in 1..Len(e) : i \in {1, 2, 3, 4}
    BY <2>1
  <2>3. FormedAt(e, 1) /\ FormedAt(e, 2) /\ FormedAt(e, 3) /\ FormedAt(e, 4)
    BY <2>1 DEF FormedAt, Ends
  <2> QED BY <2>1, <2>2, <2>3 DEF WellFormed, e
<1>3. ASSUME NEW e \in {<<>>, Announce}
      PROVE  LET s == <<"repair", "sustain">> \o e
             IN  Follows(s) /\ s \in Seq(Calls) /\ (Has(e, "announce") => Has(s, "announce"))
  <2>1. <<"repair", "sustain">> \o e = <<"repair">> \o (<<"sustain">> \o e)
    BY <1>1 DEF Calls
  <2>2. Follows(e) /\ e \in Seq(Calls)
    BY <1>1
  <2>3. Follows(<<"sustain">> \o e) /\ <<"sustain">> \o e \in Seq(Calls)
        /\ (Has(e, "announce") => Has(<<"sustain">> \o e, "announce"))
    BY <2>2, PrependFormed
  <2> QED BY <2>1, <2>3, PrependFormed
<1>4. Has(Evaluate, "compare") /\ Has(Announce, "announce")
  <2>1. Evaluate[3] = "compare" /\ Announce[3] = "announce" /\ Len(Evaluate) = 3 /\ Len(Announce) = 3
    BY DEF Evaluate, Announce
  <2> QED BY <2>1 DEF Has
<1> QED BY <1>1, <1>2, <1>3, <1>4

-----------------------------------------------------------------------------
(* The handlers.                                                           *)

\* A handler keeps its record only while calls are left.
Fit(h) ==
    /\ h \in Handlers
    /\ WellFormed(h.todo)
    /\ h = Idle <=> h.todo = <<>>

AllFit == worker \in [Workers -> Handlers] /\ \A w \in Workers : Fit(worker[w])

Markers == Consultations \cup {NoOne}

\* An idle handler has no calls.
LEMMA IdleFit == Fit(Idle) /\ Idle.todo = <<>> /\ Idle.new = "offline" /\ Idle.c = NoOne
<1>1. Idle \in Handlers
  BY DEF Idle, Doing, Handlers, ClientStatus
<1>2. WellFormed(<<>>)
  BY DEF WellFormed
<1> QED BY <1>1, <1>2 DEF Fit, Idle, Doing

\* A handler with calls left.
LEMMA BusyFit ==
    ASSUME NEW s \in Seq(Calls), s # <<>>, WellFormed(s), NEW c \in Markers, NEW new \in ClientStatus
    PROVE  LET h == [todo |-> s, c |-> c, new |-> new]
           IN  Fit(h) /\ h.todo = s /\ h.c = c /\ h.new = new /\ h # Idle
<1> DEFINE h == [todo |-> s, c |-> c, new |-> new]
<1>1. h \in Handlers /\ h.todo = s /\ h.c = c /\ h.new = new
  BY DEF Handlers, Markers
<1> HIDE DEF h
<1>2. h # Idle
  BY <1>1, IdleFit
<1> QED BY <1>1, <1>2 DEF Fit, h

\* A handler begins.
LEMMA BeginFacts ==
    ASSUME NEW w \in Workers, AllFit,
           NEW s \in Seq(Calls), s # <<>>, WellFormed(s), NEW c \in Markers, NEW undisturbed,
           Begin(w, s, c, undisturbed)
    PROVE  /\ AllFit'
           /\ worker'[w].todo = s /\ worker'[w].c = c /\ worker'[w] # Idle
           /\ \A v \in Workers : v # w => worker'[v] = worker[v]
           /\ worker[w] = Idle
           /\ clean' => clean /\ \A v \in Workers : worker[v] = Idle
           /\ steady' # {} => steady' = undisturbed /\ \A v \in Workers : worker[v] = Idle
<1> DEFINE h == [todo |-> s, c |-> c, new |-> "offline"]
<1>1. worker' = [worker EXCEPT ![w] = h] /\ worker[w] = Idle
  BY DEF Begin, Doing
<1>2. Fit(h) /\ h.todo = s /\ h.c = c /\ h # Idle
  BY BusyFit DEF ClientStatus
<1>3. h \in Handlers
  BY <1>2 DEF Fit
<1> HIDE DEF h
<1>4. /\ worker' \in [Workers -> Handlers]
      /\ worker'[w] = h /\ \A v \in Workers : v # w => worker'[v] = worker[v]
  BY <1>1, <1>3 DEF AllFit
<1>5. \A v \in Workers : Fit(worker'[v])
  BY <1>2, <1>4 DEF AllFit
<1>6. (clean' \/ steady' # {}) => \A v \in Workers : worker[v] = Idle
  BY <1>1 DEF Begin, Alone
<1>7. (clean' => clean) /\ (steady' # {} => steady' = undisturbed)
  BY DEF Begin
<1> QED BY <1>1, <1>2, <1>4, <1>5, <1>6, <1>7 DEF AllFit

\* A handler goes on with the calls s.
LEMMA ThenFacts ==
    ASSUME NEW w \in Workers, AllFit,
           NEW todo, NEW c \in Markers, NEW new \in ClientStatus,
           Then(w, todo, c, new),
           todo \o Tail(worker[w].todo) \in Seq(Calls),
           WellFormed(todo \o Tail(worker[w].todo))
    PROVE  /\ AllFit'
           /\ worker'[w].todo = todo \o Tail(worker[w].todo)
           /\ worker'[w].todo # <<>> => worker'[w].c = c /\ worker'[w].new = new
           /\ \A v \in Workers : v # w => worker'[v] = worker[v]
<1> DEFINE s == todo \o Tail(worker[w].todo)
<1> DEFINE h == IF s = <<>> THEN Idle ELSE [todo |-> s, c |-> c, new |-> new]
<1>1. worker' = [worker EXCEPT ![w] = h]
  BY DEF Then
<1>s. s \in Seq(Calls) /\ WellFormed(s)
  OBVIOUS
<1> HIDE DEF s
<1>2. Fit(h) /\ h.todo = s /\ (s # <<>> => h.c = c /\ h.new = new)
  BY <1>s, BusyFit, IdleFit
<1>3. h \in Handlers
  BY <1>2 DEF Fit
<1> HIDE DEF h
<1>4. /\ worker' \in [Workers -> Handlers]
      /\ worker'[w] = h /\ \A v \in Workers : v # w => worker'[v] = worker[v]
  BY <1>1, <1>3 DEF AllFit
<1>5. \A v \in Workers : Fit(worker'[v])
  BY <1>2, <1>4 DEF AllFit
<1> QED BY <1>2, <1>4, <1>5 DEF AllFit, s

\* Nothing is evaluated once the watching client is answered.
LEMMA AnswerIsLast ==
    ASSUME NEW s \in Seq(Calls), s # <<>>, WellFormed(s),
           \/ Head(s) = "answer"
           \/ Head(s) = "derive" /\ Head(Tail(s)) = "answer"
    PROVE  ~Has(s, "compare") /\ ~Has(s, "announce")
<1> DEFINE t == Tail(s)
<1>1. /\ Len(s) \in Nat /\ Len(s) > 0 /\ Head(s) = s[1] /\ 1 \in 1..Len(s)
      /\ Len(t) = Len(s) - 1 /\ t \in Seq(Calls) /\ (t # <<>> => Head(t) = t[1])
      /\ \A i \in 1..Len(t) : t[i] = s[i + 1]
  BY TailCalls
<1>2. CASE Head(s) = "answer"
  <2>1. Len(s) = 1
    BY <1>1, <1>2 DEF WellFormed, FormedAt
  <2> QED BY <1>1, <1>2, <2>1 DEF Has
<1>3. CASE Head(s) = "derive" /\ Head(t) = "answer"
  <2>1. FormedAt(s, 1)
    BY <1>1 DEF WellFormed
  <2>2. Len(s) > 1 /\ 2 \in 1..Len(s) /\ 1 \in 1..Len(t) /\ t # <<>>
    <3>1. Len(s) > 1
      BY <1>1, <1>3, <2>1 DEF FormedAt
    <3> HIDE DEF t
    <3> QED BY <1>1, <3>1
  <2>3. s[2] = "answer"
    BY <1>1, <1>3, <2>2
  <2>4. FormedAt(s, 2)
    BY <2>2 DEF WellFormed
  <2>5. Len(s) = 2
    BY <2>3, <2>4 DEF FormedAt
  <2> QED BY <1>1, <1>3, <2>3, <2>5 DEF Has
<1> QED BY <1>2, <1>3

\* The evaluations a handler has still to make after its first call.
Keeps(s, t) == \A y \in Evaluating : Has(s, y) /\ Head(s) # y => Has(t, y)

\* A handler goes on with what was left.
LEMMA RestFacts ==
    ASSUME NEW w \in Workers, AllFit, worker[w].todo # <<>>,
           NEW c \in Markers, NEW new \in ClientStatus, Then(w, <<>>, c, new)
    PROVE  LET s == worker[w].todo
               t == worker'[w].todo
           IN  /\ AllFit' /\ \A v \in Workers : v # w => worker'[v] = worker[v]
               /\ t = Tail(s)
               /\ Keeps(s, t)
               /\ Head(s) # "derive" => Follows(t)
               /\ t # <<>> => worker'[w].c = c /\ worker'[w].new = new
               /\ Head(s) = "derive" => t # <<>> /\ Head(t) \in Ends
               /\ Head(s) \in {"idle", "busy"} => Has(t, "compare")
               /\ Head(s) = "answer" => t = <<>>
               /\ \A y : Has(t, y) => Has(s, y)
<1> DEFINE s == worker[w].todo
           t == Tail(s)
<1>1. s \in Seq(Calls) /\ WellFormed(s) /\ s # <<>>
  BY DEF AllFit, Fit, Handlers
<1>2. t \in Seq(Calls) /\ WellFormed(t) /\ <<>> \o t = t
  BY <1>1, TailFormed, TailCalls
<1>3. /\ AllFit' /\ \A v \in Workers : v # w => worker'[v] = worker[v]
      /\ worker'[w].todo = t
      /\ t # <<>> => worker'[w].c = c /\ worker'[w].new = new
  <2>1. t = <<>> \o Tail(worker[w].todo)
    BY <1>2
  <2> HIDE DEF t
  <2> QED BY <1>2, <2>1, ThenFacts
<1>4. Keeps(s, t)
  BY <1>1, TailFormed DEF Keeps, Evaluating
<1>5. \A y : Has(t, y) => Has(s, y)
  <2>1. /\ \A i \in 1..Len(t) : t[i] = s[i + 1] /\ i + 1 \in 1..Len(s)
    BY <1>1, TailCalls
  <2> HIDE DEF t
  <2> QED BY <2>1 DEF Has
<1> HIDE DEF s
<1>6. /\ Head(s) # "derive" => Follows(t)
      /\ Head(s) = "derive" => t # <<>> /\ Head(t) \in Ends
      /\ Head(s) \in {"idle", "busy"} => Has(t, "compare")
      /\ Head(s) = "answer" => t = <<>>
  BY <1>1, TailFormed
<1> QED BY <1>3, <1>4, <1>5, <1>6 DEF s

\* A handler reads the marker, and looks at it with the next call if there is
\* one.
LEMMA ReadFacts ==
    ASSUME NEW w \in Workers, AllFit, marker \in Markers, worker[w].todo # <<>>,
           NEW x \in {"check", "rewrite"},
           Head(worker[w].todo) \notin {"derive"} \cup Evaluating,
           Then(w, IF marker = NoOne THEN <<>> ELSE <<x>>, marker, "offline")
    PROVE  LET s == worker[w].todo
               t == worker'[w].todo
           IN  /\ AllFit' /\ \A v \in Workers : v # w => worker'[v] = worker[v]
               /\ Keeps(s, t)
               /\ t # <<>> => Head(t) \notin Ends
               /\ (t # <<>> /\ Head(t) \in {"check", "rewrite"}) =>
                    Head(t) = x /\ worker'[w].c = marker
               /\ \A y : Has(t, y) /\ y # x => Has(s, y)
<1> DEFINE s == worker[w].todo
           t == worker'[w].todo
           r == Tail(s)
<1> SUFFICES /\ AllFit' /\ \A v \in Workers : v # w => worker'[v] = worker[v]
             /\ Keeps(s, t)
             /\ t # <<>> => Head(t) \notin Ends
             /\ (t # <<>> /\ Head(t) \in {"check", "rewrite"}) =>
                  Head(t) = x /\ worker'[w].c = marker
             /\ \A y : Has(t, y) /\ y # x => Has(s, y)
  OBVIOUS
<1>1. s \in Seq(Calls) /\ WellFormed(s) /\ s # <<>> /\ "offline" \in ClientStatus
  BY DEF AllFit, Fit, Handlers, ClientStatus
<1>2. r \in Seq(Calls) /\ Follows(r) /\ (r # <<>> => Head(r) = r[1] /\ 1 \in 1..Len(r))
  BY <1>1, TailFormed, TailCalls
<1>3. CASE marker = NoOne
  <2>1. Then(w, <<>>, marker, "offline")
    BY <1>3
  <2>2. /\ AllFit' /\ \A v \in Workers : v # w => worker'[v] = worker[v]
        /\ t = r /\ Keeps(s, t) /\ \A y : Has(t, y) => Has(s, y)
    BY <1>1, <2>1, RestFacts
  <2> QED BY <1>2, <2>2 DEF Follows
<1>4. CASE marker # NoOne
  <2>1. Then(w, <<x>>, marker, "offline")
    BY <1>4
  <2>2. /\ WellFormed(<<x>> \o r) /\ (<<x>> \o r) \in Seq(Calls)
        /\ <<x>> \o r # <<>> /\ Head(<<x>> \o r) = x
        /\ \A y : Has(r, y) => Has(<<x>> \o r, y)
        /\ \A y : Has(<<x>> \o r, y) /\ y # x => Has(r, y)
    BY <1>2, PrependFormed
  <2>3. /\ AllFit' /\ \A v \in Workers : v # w => worker'[v] = worker[v]
        /\ t = <<x>> \o r /\ worker'[w].c = marker
    <3> DEFINE u == <<x>> \o r
    <3>1. u = <<x>> \o Tail(worker[w].todo) /\ u \in Seq(Calls) /\ WellFormed(u) /\ u # <<>>
      BY <2>2
    <3> HIDE DEF u
    <3>2. /\ AllFit' /\ \A v \in Workers : v # w => worker'[v] = worker[v]
          /\ worker'[w].todo = u /\ worker'[w].c = marker
      BY <1>1, <2>1, <3>1, ThenFacts
    <3> QED BY <3>2 DEF u
  <2>4. Keeps(s, r)
    BY <1>1, TailFormed DEF Keeps, Evaluating
  <2>5. \A y : Has(r, y) => Has(s, y)
    <3>1. \A i \in 1..Len(r) : r[i] = s[i + 1] /\ i + 1 \in 1..Len(s)
      BY <1>1, TailCalls
    <3> HIDE DEF r
    <3> QED BY <3>1 DEF Has
  <2> QED BY <2>2, <2>3, <2>4, <2>5 DEF Keeps, Ends
<1> QED BY <1>3, <1>4

\* A handler looks at the marker it has read.
LEMMA CheckFacts ==
    ASSUME NEW w \in Workers, AllFit, Check(w)
    PROVE  LET s == worker[w].todo
               t == worker'[w].todo
           IN  /\ AllFit' /\ \A v \in Workers : v # w => worker'[v] = worker[v]
               /\ Keeps(s, t)
               /\ t # <<>> => Head(t) \notin Ends \cup {"check", "rewrite"}
               /\ ~IsBusyMarkerStale(worker[w].c) => \A y : Has(t, y) => Has(s, y)
<1> DEFINE s == worker[w].todo
           t == worker'[w].todo
           r == Tail(s)
<1> SUFFICES /\ AllFit' /\ \A v \in Workers : v # w => worker'[v] = worker[v]
             /\ Keeps(s, t)
             /\ t # <<>> => Head(t) \notin Ends \cup {"check", "rewrite"}
             /\ ~IsBusyMarkerStale(worker[w].c) => \A y : Has(t, y) => Has(s, y)
  OBVIOUS
<1>1. s \in Seq(Calls) /\ WellFormed(s) /\ s # <<>> /\ Head(s) = "check"
  BY DEF AllFit, Fit, Handlers, Check, At
<1>2. /\ r \in Seq(Calls) /\ Follows(r) /\ (r # <<>> => Head(r) = r[1] /\ 1 \in 1..Len(r))
      /\ Len(r) = Len(s) - 1 /\ Len(s) \in Nat /\ \A i \in 1..Len(r) : r[i] = s[i + 1]
  BY <1>1, TailFormed, TailCalls
<1>3. Keeps(s, r)
  BY <1>1, TailFormed DEF Keeps, Evaluating
<1>4. NoOne \in Markers /\ "offline" \in ClientStatus
  BY DEF Markers, ClientStatus
<1>5. CASE ~IsBusyMarkerStale(worker[w].c)
  <2>1. Then(w, <<>>, NoOne, "offline")
    BY <1>5 DEF Check, Go
  <2>2. /\ AllFit' /\ \A v \in Workers : v # w => worker'[v] = worker[v]
        /\ t = r /\ Keeps(s, t) /\ \A y : Has(t, y) => Has(s, y)
    BY <1>1, <1>4, <2>1, RestFacts
  <2> HIDE DEF r
  <2>3. t # <<>> => (Head(t) = t[1] /\ 1 \in 1..Len(t))
    BY <1>2, <2>2
  <2> QED BY <1>2, <2>2, <2>3 DEF Follows
<1>6. CASE IsBusyMarkerStale(worker[w].c) /\ ~(Len(s) > 1 /\ s[2] = "sustain")
  <2>1. Then(w, <<"idle">> \o Evaluate, NoOne, "offline")
    BY <1>6 DEF Check, Go
  <2> DEFINE u == (<<"idle">> \o Evaluate) \o r
  <2>2. /\ WellFormed(u) /\ u \in Seq(Calls) /\ u # <<>> /\ Head(u) = "idle"
        /\ \A y : Has(r, y) => Has(u, y)
    <3> HIDE DEF r
    <3> QED BY <1>2, ReleaseFormed
  <2>3. u = (<<"idle">> \o Evaluate) \o Tail(worker[w].todo)
    OBVIOUS
  <2> HIDE DEF u
  <2>4. /\ AllFit' /\ t = u
        /\ \A v \in Workers : v # w => worker'[v] = worker[v]
    BY <1>4, <2>1, <2>2, <2>3, ThenFacts
  <2>5. Keeps(s, u)
    BY <1>3, <2>2 DEF Keeps, Evaluating
  <2> HIDE DEF s, t
  <2> QED BY <1>6, <2>2, <2>4, <2>5 DEF Ends
<1>7. CASE IsBusyMarkerStale(worker[w].c) /\ Len(s) > 1 /\ s[2] = "sustain"
  <2> DEFINE q == Tail(r)
             u == (<<"idle">> \o Evaluate) \o q
             h == [todo |-> u, c |-> NoOne, new |-> "offline"]
  <2>1. r # <<>> /\ Head(r) = "sustain"
    <3> HIDE DEF r, s
    <3>1. Len(r) > 0 /\ 1 \in 1..Len(r) /\ s[2] = "sustain"
      BY <1>2, <1>7
    <3>2. r # <<>> /\ r[1] = s[1 + 1]
      BY <1>2, <3>1
    <3> QED BY <1>2, <3>1, <3>2
  <2>2. /\ q \in Seq(Calls) /\ Follows(q) /\ Keeps(r, q)
    <3> HIDE DEF r
    <3>1. WellFormed(r)
      BY <1>2 DEF Follows
    <3> QED BY <1>2, <2>1, <3>1, TailFormed, TailCalls DEF Keeps, Evaluating
  <2>3. SubSeq(s, 3, Len(s)) = q
    BY <1>1, <2>1
  <2>4. /\ WellFormed(u) /\ u \in Seq(Calls) /\ u # <<>> /\ Head(u) = "idle"
        /\ \A y : Has(q, y) => Has(u, y)
    BY <2>2, ReleaseFormed
  <2>5. <<"idle">> \o Evaluate \o SubSeq(s, 3, Len(s)) = u
    BY <2>3
  <2>6. worker' = [worker EXCEPT ![w] = Doing(u, NoOne)]
    BY <1>7, <2>5 DEF Check
  <2>7. Doing(u, NoOne) = h
    BY DEF Doing
  <2>8. Fit(h) /\ h.todo = u
    BY <1>4, <2>4, BusyFit
  <2>9. h \in Handlers
    BY <2>8 DEF Fit
  <2> HIDE DEF h
  <2>10. /\ worker' \in [Workers -> Handlers]
         /\ worker'[w] = h /\ \A v \in Workers : v # w => worker'[v] = worker[v]
    BY <2>6, <2>7, <2>9 DEF AllFit
  <2>11. AllFit' /\ t = u
    BY <2>8, <2>10 DEF AllFit
  <2>12. Keeps(s, u)
    BY <1>1, <1>3, <2>1, <2>2, <2>4 DEF Keeps, Evaluating
  <2> QED BY <1>7, <2>4, <2>10, <2>11, <2>12 DEF Ends
<1> QED BY <1>5, <1>6, <1>7

-----------------------------------------------------------------------------
(* A step of a handler.                                                    *)

Todo(w) == worker[w].todo

Others(w) == \A v \in Workers : v # w => worker'[v] = worker[v]

\* What the step of a handler may make of its calls.
StepKeeps(w) ==
    /\ Todo(w) # <<>> /\ worker[w] # Idle
    /\ Others(w)
    /\ Keeps(Todo(w), Todo(w)')
    /\ ~At(w, "check") =>
         \A y : (y \notin {"check", "rewrite"} /\ Has(Todo(w)', y)) => Has(Todo(w), y)

\* The next call after one that derives no status and reads no marker.
StepPlain(w) ==
    Todo(w)' # <<>> => Head(Todo(w)') \notin Ends \cup {"check", "rewrite"}

\* Each call makes one kind of step.
LEMMA StepFacts ==
    ASSUME NEW w \in Workers, TypeOK, AllFit, Step(w)
    PROVE  /\ AllFit' /\ StepKeeps(w)
           /\ RepairStaleBusyMarker(w) =>
                /\ Todo(w)' # <<>> => Head(Todo(w)') \notin Ends \cup {"rewrite"}
                /\ (Todo(w)' # <<>> /\ Head(Todo(w)') = "check") => worker'[w].c = marker
           /\ Sustain(w) =>
                /\ Todo(w)' # <<>> => Head(Todo(w)') \notin Ends \cup {"check"}
                /\ (Todo(w)' # <<>> /\ Head(Todo(w)') = "rewrite") => worker'[w].c = marker
           /\ Check(w) =>
                /\ StepPlain(w)
                /\ ~IsBusyMarkerStale(worker[w].c) => \A y : Has(Todo(w)', y) => Has(Todo(w), y)
           /\ SetIdle(w) \/ SetBusy(w) =>
                StepPlain(w) /\ Has(Todo(w)', "compare") /\ Todo(w)' = Tail(Todo(w))
           /\ RefreshConsultationMarker(w) \/ PublishStatusChange(w) => StepPlain(w)
           /\ GetStatus(w) =>
                /\ Todo(w)' # <<>> /\ Head(Todo(w)') \in Ends
                /\ worker'[w].new = DeriveExpertClientStatus
                /\ Head(Todo(w)') = "answer" => ~Has(Todo(w), "compare") /\ ~Has(Todo(w), "announce")
           /\ Answer(w) =>
                Todo(w)' = <<>> /\ ~Has(Todo(w), "compare") /\ ~Has(Todo(w), "announce")
<1> DEFINE s == Todo(w)
           t == Todo(w)'
<1>1. /\ s \in Seq(Calls) /\ WellFormed(s) /\ (s # <<>> => worker[w] # Idle)
      /\ s = worker[w].todo /\ t = worker'[w].todo
  BY DEF AllFit, Fit, Handlers, Todo
<1>2. marker \in Markers /\ NoOne \in Markers /\ "offline" \in ClientStatus
      /\ DeriveExpertClientStatus \in ClientStatus
  BY DEF TypeOK, Markers, ClientStatus, DeriveExpertClientStatus
<1>3. \A u \in Seq(Calls) : Follows(u) /\ u # <<>> => Head(u) \notin Ends \cup {"check", "rewrite"}
  BY TailCalls DEF Follows
<1>4. ASSUME NEW new \in ClientStatus, Then(w, <<>>, NoOne, new), s # <<>>
      PROVE  /\ AllFit' /\ StepKeeps(w)
             /\ t = Tail(s)
             /\ Head(s) # "derive" => StepPlain(w)
             /\ Head(s) = "derive" => t # <<>> /\ Head(t) \in Ends /\ worker'[w].new = new
             /\ Head(s) \in {"idle", "busy"} => Has(t, "compare")
             /\ Head(s) = "answer" => t = <<>>
             /\ \A y : Has(t, y) => Has(s, y)
  <2>1. /\ AllFit' /\ Others(w)
        /\ t = Tail(s) /\ Keeps(s, t)
        /\ Head(s) # "derive" => Follows(t)
        /\ t # <<>> => worker'[w].new = new
        /\ Head(s) = "derive" => t # <<>> /\ Head(t) \in Ends
        /\ Head(s) \in {"idle", "busy"} => Has(t, "compare")
        /\ Head(s) = "answer" => t = <<>>
        /\ \A y : Has(t, y) => Has(s, y)
    BY <1>1, <1>2, <1>4, RestFacts DEF Others
  <2>2. t \in Seq(Calls)
    BY <1>1, <1>4, <2>1, TailCalls
  <2>3. Head(s) # "derive" => StepPlain(w)
    BY <1>3, <2>1, <2>2 DEF StepPlain
  <2>4. StepKeeps(w)
    BY <1>1, <1>4, <2>1 DEF StepKeeps
  <2> QED BY <2>1, <2>3, <2>4
<1>5. ASSUME NEW x \in {"check", "rewrite"}, s # <<>>, Head(s) \in {"repair", "sustain"},
             Then(w, IF marker = NoOne THEN <<>> ELSE <<x>>, marker, "offline")
      PROVE  /\ AllFit' /\ StepKeeps(w)
             /\ t # <<>> => Head(t) \notin Ends
             /\ (t # <<>> /\ Head(t) \in {"check", "rewrite"}) =>
                  Head(t) = x /\ worker'[w].c = marker
  <2>1. Head(s) \notin {"derive"} \cup Evaluating
    BY <1>5 DEF Evaluating
  <2>2. /\ AllFit' /\ Others(w)
        /\ Keeps(s, t)
        /\ t # <<>> => Head(t) \notin Ends
        /\ (t # <<>> /\ Head(t) \in {"check", "rewrite"}) =>
             Head(t) = x /\ worker'[w].c = marker
        /\ \A y : Has(t, y) /\ y # x => Has(s, y)
    BY <1>1, <1>2, <1>5, <2>1, ReadFacts DEF Others
  <2>3. StepKeeps(w)
    BY <1>1, <1>5, <2>2 DEF StepKeeps
  <2> QED BY <2>2, <2>3
<1>6. ASSUME RepairStaleBusyMarker(w)
      PROVE  /\ AllFit' /\ StepKeeps(w)
             /\ t # <<>> => Head(t) \notin Ends \cup {"rewrite"}
             /\ (t # <<>> /\ Head(t) = "check") => worker'[w].c = marker
  <2>1. s # <<>> /\ Head(s) = "repair"
    BY <1>6 DEF RepairStaleBusyMarker, At, Todo
  <2>2. Then(w, IF marker = NoOne THEN <<>> ELSE <<"check">>, marker, "offline")
    BY <1>6 DEF RepairStaleBusyMarker
  <2> QED BY <1>5, <2>1, <2>2
<1>7. ASSUME Sustain(w)
      PROVE  /\ AllFit' /\ StepKeeps(w)
             /\ t # <<>> => Head(t) \notin Ends \cup {"check"}
             /\ (t # <<>> /\ Head(t) = "rewrite") => worker'[w].c = marker
  <2>1. s # <<>> /\ Head(s) = "sustain"
    BY <1>7 DEF Sustain, At, Todo
  <2>2. Then(w, IF marker = NoOne THEN <<>> ELSE <<"rewrite">>, marker, "offline")
    BY <1>7 DEF Sustain
  <2> QED BY <1>5, <2>1, <2>2
<1>8. ASSUME Check(w)
      PROVE  /\ AllFit' /\ StepKeeps(w) /\ StepPlain(w)
             /\ ~IsBusyMarkerStale(worker[w].c) => \A y : Has(t, y) => Has(s, y)
  <2>1. s # <<>> /\ At(w, "check")
    BY <1>8 DEF Check, At, Todo
  <2>2. /\ AllFit' /\ Others(w)
        /\ Keeps(s, t)
        /\ t # <<>> => Head(t) \notin Ends \cup {"check", "rewrite"}
        /\ ~IsBusyMarkerStale(worker[w].c) => \A y : Has(t, y) => Has(s, y)
    BY <1>1, <1>8, CheckFacts DEF Others
  <2> QED BY <1>1, <2>1, <2>2 DEF StepKeeps, StepPlain
<1>9. ASSUME SetIdle(w) \/ SetBusy(w)
      PROVE  /\ AllFit' /\ StepKeeps(w) /\ StepPlain(w) /\ Has(t, "compare") /\ t = Tail(s)
  <2>1. s # <<>> /\ Head(s) \in {"idle", "busy"} /\ Then(w, <<>>, NoOne, "offline")
    BY <1>9 DEF SetIdle, SetBusy, At, Todo, Go
  <2> QED BY <1>2, <1>4, <2>1
<1>10. ASSUME RefreshConsultationMarker(w) \/ PublishStatusChange(w)
       PROVE  AllFit' /\ StepKeeps(w) /\ StepPlain(w)
  <2>1. s # <<>> /\ Head(s) # "derive" /\ Then(w, <<>>, NoOne, "offline")
    BY <1>10 DEF RefreshConsultationMarker, PublishStatusChange, At, Todo, Go
  <2> QED BY <1>2, <1>4, <2>1
<1>11. ASSUME GetStatus(w)
       PROVE  /\ AllFit' /\ StepKeeps(w)
              /\ t # <<>> /\ Head(t) \in Ends
              /\ worker'[w].new = DeriveExpertClientStatus
              /\ Head(t) = "answer" => ~Has(s, "compare") /\ ~Has(s, "announce")
  <2>1. s # <<>> /\ Head(s) = "derive" /\ Then(w, <<>>, NoOne, DeriveExpertClientStatus)
    BY <1>11 DEF GetStatus, At, Todo
  <2>2. /\ AllFit' /\ StepKeeps(w) /\ t = Tail(s)
        /\ t # <<>> /\ Head(t) \in Ends /\ worker'[w].new = DeriveExpertClientStatus
    BY <1>2, <1>4, <2>1
  <2>3. Head(Tail(s)) = "answer" => ~Has(s, "compare") /\ ~Has(s, "announce")
    BY <1>1, <2>1, AnswerIsLast
  <2> QED BY <2>2, <2>3
<1>12. ASSUME Answer(w)
       PROVE  /\ AllFit' /\ StepKeeps(w)
              /\ t = <<>> /\ ~Has(s, "compare") /\ ~Has(s, "announce")
  <2>1. s # <<>> /\ Head(s) = "answer" /\ Then(w, <<>>, NoOne, "offline")
    BY <1>12 DEF Answer, At, Todo, Go
  <2>2. ~Has(s, "compare") /\ ~Has(s, "announce")
    BY <1>1, <2>1, AnswerIsLast
  <2> QED BY <1>2, <1>4, <2>1, <2>2
<1> HIDE DEF s, t
<1>13. AllFit' /\ StepKeeps(w)
  BY <1>6, <1>7, <1>8, <1>9, <1>10, <1>11, <1>12 DEF Step
<1> QED BY <1>6, <1>7, <1>8, <1>9, <1>10, <1>11, <1>12, <1>13 DEF s, t

-----------------------------------------------------------------------------
(* A handler begins.                                                       *)

\* The handlers that leave the marker to their evaluation.
PlainHandlers ==
    {Evaluate, Announce, <<"repair", "derive", "answer">>,
     <<"repair", "sustain">> \o <<>>, <<"repair", "sustain">> \o Announce}

\* A handler that only evaluates, announces or answers: its calls are well formed
\* and touch no marker.
LEMMA PlainFacts ==
    ASSUME NEW e \in PlainHandlers
    PROVE  /\ e \in Seq(Calls) /\ e # <<>> /\ WellFormed(e)
           /\ Head(e) \notin Ends \cup {"check", "rewrite"}
           /\ ~Has(e, "idle") /\ ~Has(e, "busy")
<1>1. e \in Seq(Calls) /\ Follows(e)
  BY BeginFormed DEF PlainHandlers
<1>2. e # <<>> /\ ~Has(e, "idle") /\ ~Has(e, "busy")
  <2>1. CASE e \in {Evaluate, Announce, <<"repair", "derive", "answer">>}
    <3>1. /\ Len(e) = 3 /\ e[1] = "repair" /\ e[2] = "derive"
          /\ e[3] # "idle" /\ e[3] # "busy"
      BY <2>1 DEF Evaluate, Announce
    <3>2. \A i \in 1..Len(e) : e[i] # "idle" /\ e[i] # "busy"
      BY <3>1
    <3> QED BY <3>1, <3>2 DEF Has
  <2>2. CASE e = <<"repair", "sustain">> \o <<>>
    <3>1. Len(e) = 2 /\ e[1] = "repair" /\ e[2] = "sustain"
      BY <2>2
    <3> QED BY <1>1, <3>1 DEF Has
  <2>3. CASE e = <<"repair", "sustain">> \o Announce
    <3>1. /\ Len(e) = 5 /\ e[1] = "repair" /\ e[2] = "sustain" /\ e[3] = "repair"
          /\ e[4] = "derive" /\ e[5] = "announce"
      BY <2>3 DEF Announce
    <3> QED BY <1>1, <3>1 DEF Has
  <2> QED BY <2>1, <2>2, <2>3 DEF PlainHandlers
<1>3. Head(e) = e[1] /\ 1 \in 1..Len(e)
  BY <1>1, <1>2, TailCalls
<1> QED BY <1>1, <1>2, <1>3 DEF Follows, Ends

\* What holds of every handler that has just begun.
StartKeeps(w) ==
    /\ worker[w] = Idle /\ worker'[w] # Idle
    /\ Others(w)
    /\ clean' => clean /\ \A v \in Workers : worker[v] = Idle
    /\ steady' # {} => \A v \in Workers : worker[v] = Idle

StartPlain(w) ==
    /\ StartKeeps(w)
    /\ StepPlain(w)
    /\ ~Has(Todo(w)', "idle") /\ ~Has(Todo(w)', "busy")
    /\ steady' # {} => steady' = steady

\* Such a handler begins.
LEMMA PlainStart ==
    ASSUME NEW w \in Workers, AllFit, NEW e \in PlainHandlers, Begin(w, e, NoOne, steady)
    PROVE  AllFit' /\ StartPlain(w) /\ Todo(w)' = e
<1>1. NoOne \in Markers
  BY DEF Markers
<1>2. /\ e \in Seq(Calls) /\ e # <<>> /\ WellFormed(e)
      /\ Head(e) \notin Ends \cup {"check", "rewrite"}
      /\ ~Has(e, "idle") /\ ~Has(e, "busy")
  BY PlainFacts
<1>3. /\ AllFit' /\ worker'[w].todo = e /\ worker'[w] # Idle /\ Others(w)
      /\ worker[w] = Idle
      /\ clean' => clean /\ \A v \in Workers : worker[v] = Idle
      /\ steady' # {} => steady' = steady /\ \A v \in Workers : worker[v] = Idle
  BY <1>1, <1>2, BeginFacts DEF Others
<1> QED BY <1>2, <1>3 DEF StartPlain, StartKeeps, StepPlain, Todo

\* A handler that sets the marker begins.
LEMMA MarkingStart ==
    ASSUME NEW w \in Workers, AllFit, NEW x \in {"busy", "idle"}, NEW c \in Markers,
           NEW undisturbed, Begin(w, <<x>> \o Evaluate, c, undisturbed)
    PROVE  /\ AllFit' /\ StartKeeps(w) /\ StepPlain(w)
           /\ Todo(w)' = <<x>> \o Evaluate /\ worker'[w].c = c
           /\ steady' # {} => steady' = undisturbed
<1> DEFINE e == <<x>> \o Evaluate
<1>1. e \in Seq(Calls) /\ WellFormed(e)
  BY BeginFormed
<1>2. e # <<>> /\ Head(e) = x
  BY DEF Evaluate
<1> HIDE DEF e
<1>3. Begin(w, e, c, undisturbed)
  BY DEF e
<1>4. /\ AllFit' /\ worker'[w].todo = e /\ worker'[w].c = c /\ worker'[w] # Idle /\ Others(w)
      /\ worker[w] = Idle
      /\ clean' => clean /\ \A v \in Workers : worker[v] = Idle
      /\ steady' # {} => steady' = undisturbed /\ \A v \in Workers : worker[v] = Idle
  BY <1>1, <1>2, <1>3, BeginFacts DEF Others
<1>5. StepPlain(w)
  BY <1>2, <1>4 DEF StepPlain, Todo, Ends
<1> QED BY <1>4, <1>5 DEF StartKeeps, Todo, e

\* Each handler begins with its calls.
LEMMA BeginOnFacts ==
    ASSUME NEW w \in Workers, AllFit
    PROVE  /\ \A s : Connect(w, s) =>
                /\ AllFit' /\ StartPlain(w)
                /\ Todo(w)' = IF keys = {} THEN Announce ELSE Evaluate
           /\ \A s : Disconnect(w, s) => AllFit' /\ StartPlain(w)
           /\ \A s : Heartbeat(w, s) =>
                /\ AllFit' /\ StartPlain(w)
                /\ s \notin keys => Has(Todo(w)', "announce")
           /\ SetAvailability(w) => AllFit' /\ StartPlain(w) /\ Todo(w)' = Evaluate
           /\ GetFullStatus(w) => AllFit' /\ StartPlain(w)
           /\ \A c \in Consultations : Accept(w, c) =>
                /\ AllFit' /\ StartKeeps(w) /\ StepPlain(w)
                /\ Todo(w)' = <<"busy">> \o Evaluate /\ worker'[w].c = c
                /\ steady' # {} => steady' = {c} /\ \A d \in Consultations : status[d] # "live"
           /\ \A c : End(w, c) =>
                AllFit' /\ StartKeeps(w) /\ StepPlain(w) /\ steady' = {}
<1>1. ASSUME NEW s, Connect(w, s)
      PROVE  /\ AllFit' /\ StartPlain(w)
             /\ Todo(w)' = IF keys = {} THEN Announce ELSE Evaluate
  <2>1. Begin(w, IF keys = {} THEN Announce ELSE Evaluate, NoOne, steady)
    BY <1>1 DEF Connect, Forced
  <2>2. (IF keys = {} THEN Announce ELSE Evaluate) \in PlainHandlers
    BY DEF PlainHandlers
  <2> QED BY <2>1, <2>2, PlainStart
<1>2. ASSUME NEW s, Disconnect(w, s)
      PROVE  AllFit' /\ StartPlain(w)
  BY <1>2, PlainStart DEF Disconnect, PlainHandlers
<1>3. ASSUME NEW s, Heartbeat(w, s)
      PROVE  /\ AllFit' /\ StartPlain(w)
             /\ s \notin keys => Has(Todo(w)', "announce")
  <2> DEFINE e == IF s \in keys THEN <<>> ELSE Announce
             h == <<"repair", "sustain">> \o e
  <2>1. Begin(w, h, NoOne, steady)
    BY <1>3 DEF Heartbeat
  <2>2. h \in PlainHandlers
    BY DEF PlainHandlers
  <2>3. s \notin keys => Has(h, "announce")
    BY BeginFormed
  <2> HIDE DEF h
  <2> QED BY <2>1, <2>2, <2>3, PlainStart
<1>4. ASSUME SetAvailability(w)
      PROVE  AllFit' /\ StartPlain(w) /\ Todo(w)' = Evaluate
  BY <1>4, PlainStart DEF SetAvailability, PlainHandlers
<1>5. ASSUME GetFullStatus(w)
      PROVE  AllFit' /\ StartPlain(w)
  BY <1>5, PlainStart DEF GetFullStatus, PlainHandlers
<1>6. ASSUME NEW c \in Consultations, Accept(w, c)
      PROVE  /\ AllFit' /\ StartKeeps(w) /\ StepPlain(w)
             /\ Todo(w)' = <<"busy">> \o Evaluate /\ worker'[w].c = c
             /\ steady' # {} => steady' = {c} /\ \A d \in Consultations : status[d] # "live"
  <2> DEFINE u == IF \A d \in Consultations : status[d] # "live" THEN {c} ELSE {}
  <2>1. Begin(w, <<"busy">> \o Evaluate, c, u) /\ c \in Markers
    BY <1>6 DEF Accept, Markers
  <2>2. u # {} => u = {c} /\ \A d \in Consultations : status[d] # "live"
    OBVIOUS
  <2> HIDE DEF u
  <2> QED BY <2>1, <2>2, MarkingStart
<1>7. ASSUME NEW c, End(w, c)
      PROVE  AllFit' /\ StartKeeps(w) /\ StepPlain(w) /\ steady' = {}
  <2>1. Begin(w, <<"idle">> \o Evaluate, NoOne, {}) /\ NoOne \in Markers
    BY <1>7 DEF End, Markers
  <2> QED BY <2>1, MarkingStart
<1> QED BY <1>1, <1>2, <1>3, <1>4, <1>5, <1>6, <1>7

-----------------------------------------------------------------------------
(* Types.                                                                  *)

Typed == TypeOK /\ AllFit

\* Initially no handler runs.
LEMMA InitTyped == Init => Typed
<1> SUFFICES ASSUME Init PROVE Typed
  OBVIOUS
<1>1. worker \in [Workers -> Handlers] /\ AllFit
  BY IdleFit DEF Init, AllFit, Fit
<1> QED BY <1>1 DEF Init, Typed, TypeOK, ClientStatus, Statuses

\* Every step keeps the types and the calls of every handler well formed.
LEMMA NextTyped == Typed /\ [Next]_vars => Typed'
<1> SUFFICES ASSUME Typed, [Next]_vars PROVE Typed'
  OBVIOUS
<1> USE DEF Typed
<1>1. ASSUME NEW w \in Workers, BeginOn(w)
      PROVE  Typed'
  <2>1. AllFit'
    BY <1>1, BeginOnFacts DEF BeginOn
  <2>2. worker' \in [Workers -> Handlers]
    BY <2>1 DEF AllFit
  <2>3. clean' \in BOOLEAN
    BY <1>1 DEF BeginOn, TypeOK, Connect, Disconnect, Heartbeat, SetAvailability, GetFullStatus,
                Accept, End, Begin
  <2>4. steady' \subseteq Consultations
    BY <1>1 DEF BeginOn, TypeOK, Connect, Disconnect, Heartbeat, SetAvailability, GetFullStatus,
                Accept, End, Begin
  <2>5. /\ open' \subseteq Sockets /\ keys' \subseteq Sockets
        /\ mode' \in {"available", "unavailable"} /\ UNCHANGED <<marker, last, shown>>
    BY <1>1 DEF BeginOn, TypeOK, Connect, Disconnect, Heartbeat, SetAvailability, GetFullStatus,
                Accept, End, sockets
  <2>6. status' \in [Consultations -> Statuses]
    BY <1>1 DEF BeginOn, TypeOK, Connect, Disconnect, Heartbeat, SetAvailability, GetFullStatus,
                Accept, End, Statuses
  <2> QED BY <2>1, <2>2, <2>3, <2>4, <2>5, <2>6 DEF TypeOK
<1>2. ASSUME NEW w \in Workers, Step(w)
      PROVE  Typed'
  <2>1. AllFit'
    BY <1>2, StepFacts
  <2>2. worker' \in [Workers -> Handlers] /\ worker[w].c \in Markers /\ worker[w].new \in ClientStatus
    BY <2>1 DEF AllFit, Handlers, Markers
  <2>3. UNCHANGED <<sockets, mode, status, trust>>
    BY <1>2 DEF Step, RepairStaleBusyMarker, Check, SetIdle, SetBusy, Sustain,
                RefreshConsultationMarker, GetStatus, PublishStatusChange, Answer
  <2>4. marker' \in Markers /\ last' \in ClientStatus \cup {"none"} /\ shown' \in ClientStatus
    BY <1>2, <2>2 DEF Step, RepairStaleBusyMarker, Check, SetIdle, SetBusy, Sustain,
                RefreshConsultationMarker, GetStatus, PublishStatusChange, Answer, TypeOK, Markers
  <2> QED BY <2>1, <2>2, <2>3, <2>4 DEF TypeOK, sockets, trust, Markers
<1>3. ASSUME NEW w \in Workers, Restart(w)
      PROVE  Typed'
  <2> DEFINE h == Doing(<<"idle">> \o Evaluate, NoOne)
  <2>1. Fit(h)
    <3>1. WellFormed(<<"idle">> \o Evaluate) /\ <<"idle">> \o Evaluate \in Seq(Calls)
      BY BeginFormed
    <3>2. <<"idle">> \o Evaluate # <<>>
      BY DEF Evaluate
    <3>3. NoOne \in Markers /\ "offline" \in ClientStatus
      BY DEF Markers, ClientStatus
    <3> QED BY <3>1, <3>2, <3>3, BusyFit DEF Doing
  <2> HIDE DEF h
  <2>2. worker' = [v \in Workers |->
                    IF v = w /\ marker # NoOne /\ IsBusyMarkerStale(marker) THEN h ELSE Idle]
    BY <1>3 DEF Restart, h
  <2>3. worker' \in [Workers -> Handlers] /\ AllFit'
    BY <2>1, <2>2, IdleFit DEF AllFit, Fit
  <2>4. /\ open' = {} /\ UNCHANGED <<keys, mode, marker, last, shown, status>>
        /\ clean' \in BOOLEAN /\ steady' \subseteq steady
    BY <1>3 DEF Restart, TypeOK
  <2> QED BY <2>3, <2>4 DEF TypeOK
<1>4. ASSUME NEW c \in Consultations, Cancel(c) \/ Reopen(c) \/ Close(c)
      PROVE  Typed'
  BY <1>4 DEF Cancel, Reopen, Close, TypeOK, AllFit, sockets, trust, Statuses
<1>5. ASSUME NEW s \in Sockets, KeyExpires(s)
      PROVE  Typed'
  BY <1>5 DEF KeyExpires, TypeOK, AllFit, trust
<1>6. ASSUME MarkerExpires
      PROVE  Typed'
  BY <1>6 DEF MarkerExpires, TypeOK, AllFit, sockets
<1>7. ASSUME UNCHANGED vars
      PROVE  Typed'
  BY <1>7 DEF vars, sockets, trust, TypeOK, AllFit
<1> QED BY <1>1, <1>2, <1>3, <1>4, <1>5, <1>6, <1>7 DEF Next

\* So they always are.
LEMMA AlwaysTyped == Spec => []Typed
  BY InitTyped, NextTyped, PTL DEF Spec

\* Keys, markers, statuses and handlers stay well formed.
THEOREM TypeCorrect == Spec => []TypeOK
<1>1. Typed => TypeOK
  BY DEF Typed
<1> QED BY <1>1, AlwaysTyped, PTL

-----------------------------------------------------------------------------
(* What a watching client is shown.                                        *)

\* The handlers one at a time.
OneHandler == \A v, w \in Workers : worker[v] # Idle /\ worker[w] # Idle => v = w

\* The client shows, and Redis remembers, the status of a connected expert.
Settled == keys # {} => shown = DeriveExpertClientStatus /\ last = DeriveExpertClientStatus

Aligned == keys # {} => shown = last

\* What differs will still be published: an unforced evaluation does it when
\* the client shows what Redis remembers, a forced one in any case.
WillTell(w) ==
    \/ Settled
    \/ Aligned /\ Has(Todo(w), "compare")
    \/ Has(Todo(w), "announce")

\* A derived status is still the status when it is used, and a marker that
\* will be written back is still the marker.
FindsFresh(w) ==
    /\ (Todo(w) # <<>> /\ Head(Todo(w)) \in Ends /\ keys # {}) =>
         worker[w].new = DeriveExpertClientStatus
    /\ At(w, "answer") => worker[w].new \in {last, "offline"}
    /\ At(w, "rewrite") => worker[w].c = marker \/ keys = {}

Told == shown \in {last, "offline"}

Tells(w) == Told /\ WillTell(w) /\ FindsFresh(w)

CleanInv ==
    clean => /\ OneHandler /\ Told
             /\ (\A w \in Workers : worker[w] = Idle) => Settled
             /\ \A w \in Workers : worker[w] # Idle => Tells(w)

\* It is enough to look at the handler that is under way.
LEMMA TellsIsClean ==
    ASSUME NEW w \in Workers, AllFit', \A v \in Workers : v # w => worker'[v] = Idle, Tells(w)'
    PROVE  CleanInv'
<1>1. OneHandler'
  BY DEF OneHandler
<1>2. worker'[w] = Idle => Settled'
  <2>1. worker'[w] = Idle => Todo(w)' = <<>>
    BY DEF AllFit, Fit, Todo
  <2>2. ~Has(<<>>, "compare") /\ ~Has(<<>>, "announce")
    BY DEF Has
  <2> QED BY <2>1, <2>2 DEF Tells, WillTell
<1> QED BY <1>1, <1>2 DEF CleanInv, Tells

\* Before the step of a handler, it is the only one and it tells.
LEMMA CleanTells ==
    ASSUME NEW w \in Workers, CleanInv, clean, worker[w] # Idle
    PROVE  Tells(w) /\ \A v \in Workers : v # w => worker[v] = Idle
  BY DEF CleanInv, OneHandler

\* A call keeps CleanInv: one that changes what is true leaves an evaluation to do.
LEMMA StepClean ==
    ASSUME NEW w \in Workers, Typed, CleanInv, Step(w)
    PROVE  CleanInv'
<1> DEFINE s == Todo(w)
           t == Todo(w)'
           d == DeriveExpertClientStatus
<1>1. /\ TypeOK /\ AllFit /\ AllFit' /\ StepKeeps(w)
      /\ t = worker'[w].todo /\ s = worker[w].todo
  BY StepFacts DEF Typed, Todo
<1>2. UNCHANGED <<keys, mode, status, trust>>
  BY DEF Step, RepairStaleBusyMarker, Check, SetIdle, SetBusy, Sustain,
         RefreshConsultationMarker, GetStatus, PublishStatusChange, Answer, sockets
<1> SUFFICES ASSUME clean PROVE CleanInv'
  BY <1>2 DEF CleanInv, trust
<1>3. worker[w] # Idle /\ Others(w) /\ Keeps(s, t)
  BY <1>1 DEF StepKeeps
<1>4. Tells(w) /\ \A v \in Workers : v # w => worker'[v] = Idle
  BY <1>3, CleanTells DEF Others
<1> SUFFICES Tells(w)'
  BY <1>1, <1>4, TellsIsClean
<1>5. Told /\ WillTell(w) /\ FindsFresh(w)
  BY <1>4 DEF Tells
<1>6. Head(s) \notin Evaluating =>
        /\ Has(s, "compare") => Has(t, "compare")
        /\ Has(s, "announce") => Has(t, "announce")
  BY <1>3 DEF Keeps, Evaluating
<1>7. marker' = marker => d' = d
  BY <1>2 DEF DeriveExpertClientStatus
<1> HIDE DEF s, t, d
<1>8. CASE RepairStaleBusyMarker(w) \/ Check(w) \/ Sustain(w)
  <2>1. UNCHANGED <<marker, last, shown>> /\ Head(s) \notin Evaluating
    BY <1>8 DEF RepairStaleBusyMarker, Check, Sustain, At, Evaluating, s, Todo
  <2>2. Told' /\ WillTell(w)'
    BY <1>2, <1>5, <1>6, <1>7, <2>1 DEF Told, WillTell, Settled, Aligned, s, t, d
  <2>3. /\ t # <<>> => Head(t) \notin Ends
        /\ (t # <<>> /\ Head(t) = "rewrite") => worker'[w].c = marker
    BY <1>1, <1>8, StepFacts DEF StepPlain, t
  <2>4. FindsFresh(w)'
    BY <1>1, <2>1, <2>3 DEF FindsFresh, At, Ends, t
  <2> QED BY <2>2, <2>4 DEF Tells
<1>9. CASE SetIdle(w) \/ SetBusy(w)
  <2>1. UNCHANGED <<last, shown>> /\ Head(s) \notin Evaluating
    BY <1>9 DEF SetIdle, SetBusy, At, Evaluating, s, Todo
  <2>2. StepPlain(w) /\ Has(t, "compare")
    BY <1>1, <1>9, StepFacts DEF t
  <2>3. Told' /\ WillTell(w)'
    BY <1>2, <1>5, <1>6, <2>1, <2>2 DEF Told, WillTell, Settled, Aligned, s, t
  <2>4. FindsFresh(w)'
    BY <1>1, <2>2 DEF FindsFresh, StepPlain, At, Ends, t
  <2> QED BY <2>3, <2>4 DEF Tells
<1>10. CASE RefreshConsultationMarker(w)
  <2>1. /\ UNCHANGED <<last, shown>> /\ Head(s) \notin Evaluating /\ marker' = worker[w].c
        /\ At(w, "rewrite")
    BY <1>10 DEF RefreshConsultationMarker, At, Evaluating, s, Todo
  <2>2. keys = {} \/ marker' = marker
    BY <1>5, <2>1 DEF FindsFresh
  <2>3. Told' /\ WillTell(w)'
    BY <1>2, <1>5, <1>6, <1>7, <2>1, <2>2 DEF Told, WillTell, Settled, Aligned, s, t, d
  <2>4. StepPlain(w)
    BY <1>1, <1>10, StepFacts
  <2>5. FindsFresh(w)'
    BY <1>1, <2>4 DEF FindsFresh, StepPlain, At, Ends, t
  <2> QED BY <2>3, <2>5 DEF Tells
<1>11. CASE GetStatus(w)
  <2>1. UNCHANGED <<marker, last, shown>> /\ Head(s) \notin Evaluating
    BY <1>11 DEF GetStatus, At, Evaluating, s, Todo
  <2>2. Told' /\ WillTell(w)'
    BY <1>2, <1>5, <1>6, <1>7, <2>1 DEF Told, WillTell, Settled, Aligned, s, t, d
  <2>3. /\ t # <<>> /\ Head(t) \in Ends /\ worker'[w].new = d
        /\ Head(t) = "answer" => ~Has(s, "compare") /\ ~Has(s, "announce")
    BY <1>1, <1>11, StepFacts DEF s, t, d
  <2>4. Head(t) = "answer" => worker'[w].new \in {last, "offline"}
    <3>1. CASE keys = {}
      BY <2>3, <3>1 DEF d, DeriveExpertClientStatus
    <3>2. CASE keys # {}
      BY <1>5, <2>3, <3>2 DEF WillTell, Settled, s, d
    <3> QED BY <3>1, <3>2
  <2>5. FindsFresh(w)'
    BY <1>1, <1>7, <2>1, <2>3, <2>4 DEF FindsFresh, At, Ends, t, d
  <2> QED BY <2>2, <2>5 DEF Tells
<1>12. CASE PublishStatusChange(w)
  <2>1. /\ UNCHANGED <<mode, marker>> /\ StepPlain(w)
        /\ s # <<>> /\ Head(s) \in {"compare", "announce"}
        /\ IF ShouldPublish(w)
           THEN last' = worker[w].new /\ shown' = worker[w].new
           ELSE UNCHANGED <<last, shown>>
    BY <1>1, <1>12, StepFacts DEF PublishStatusChange, At, s, Todo
  <2>2. FindsFresh(w)'
    BY <1>1, <2>1 DEF FindsFresh, StepPlain, At, Ends, t
  <2>3. Told'
    BY <1>5, <2>1 DEF Told
  <2>4. CASE keys = {}
    BY <1>2, <2>2, <2>3, <2>4 DEF Tells, WillTell, Settled
  <2>5. CASE keys # {}
    <3>1. worker[w].new = d
      BY <1>5, <2>1, <2>5 DEF FindsFresh, Ends, s, d
    <3>2. CASE ShouldPublish(w)
      BY <1>2, <1>7, <2>1, <2>2, <2>3, <3>1, <3>2 DEF Tells, WillTell, Settled, d
    <3>3. CASE ~ShouldPublish(w)
      <4>1. last = d /\ (Head(s) = "announce" => d = "offline")
        BY <2>1, <3>1, <3>3 DEF ShouldPublish, At, s, Todo
      <4>2. CASE Head(s) = "announce"
        <5>1. shown = d
          BY <1>5, <4>1, <4>2 DEF Told
        <5> QED BY <1>2, <1>7, <2>1, <2>2, <2>3, <3>3, <4>1, <5>1 DEF Tells, WillTell, Settled, d
      <4>3. CASE Head(s) = "compare"
        <5>1. Has(s, "announce") => Has(t, "announce")
          BY <1>3, <4>3 DEF Keeps, Evaluating
        <5>2. shown = d \/ Has(s, "announce")
          BY <1>5, <2>5, <4>1 DEF WillTell, Settled, Aligned, s, d
        <5> QED BY <1>2, <1>7, <2>1, <2>2, <2>3, <3>3, <4>1, <5>1, <5>2
                DEF Tells, WillTell, Settled, d, t
      <4> QED BY <2>1, <4>2, <4>3
    <3> QED BY <3>2, <3>3
  <2> QED BY <2>4, <2>5
<1>13. CASE Answer(w)
  <2>1. /\ UNCHANGED <<marker, last>> /\ shown' = worker[w].new /\ At(w, "answer")
        /\ s # <<>> /\ Head(s) = "answer"
        /\ t = <<>> /\ ~Has(s, "compare") /\ ~Has(s, "announce")
    BY <1>1, <1>13, StepFacts DEF Answer, At, s, t, Todo
  <2>2. Told' /\ FindsFresh(w)'
    BY <1>1, <1>5, <2>1 DEF Told, FindsFresh, At, t
  <2>3. Settled'
    BY <1>2, <1>5, <1>7, <2>1 DEF WillTell, Settled, FindsFresh, Ends, s, d
  <2> QED BY <2>2, <2>3 DEF Tells, WillTell
<1> QED BY <1>8, <1>9, <1>10, <1>11, <1>12, <1>13 DEF Step

\* Before a handler begins alone, the client is shown the status.
LEMMA StartClean ==
    ASSUME NEW w \in Workers, Typed, CleanInv, BeginOn(w)
    PROVE  CleanInv'
<1> DEFINE t == Todo(w)'
           d == DeriveExpertClientStatus
<1> SUFFICES ASSUME clean' PROVE CleanInv'
  BY DEF CleanInv
<1>1. AllFit' /\ StartKeeps(w) /\ StepPlain(w) /\ t = worker'[w].todo
  BY BeginOnFacts DEF BeginOn, StartPlain, Typed, Todo
<1>2. clean /\ (\A v \in Workers : worker[v] = Idle) /\ Others(w)
  BY <1>1 DEF StartKeeps
<1>3. Settled /\ Told
  BY <1>2 DEF CleanInv
<1> SUFFICES WillTell(w)'
  <2>1. FindsFresh(w)'
    BY <1>1 DEF FindsFresh, StepPlain, At, Ends
  <2>2. UNCHANGED <<last, shown>>
    BY DEF BeginOn, Connect, Disconnect, Heartbeat, SetAvailability, GetFullStatus, Accept, End
  <2>3. Tells(w)'
    BY <1>3, <2>1, <2>2 DEF Tells, Told
  <2>4. \A v \in Workers : v # w => worker'[v] = Idle
    BY <1>2 DEF Others
  <2> QED BY <1>1, <2>3, <2>4, TellsIsClean
<1>4. AllFit
  BY DEF Typed
<1>5. ASSUME NEW s \in Sockets, Connect(w, s)
      PROVE  WillTell(w)'
  <2>1. t = (IF keys = {} THEN Announce ELSE Evaluate)
    BY <1>4, <1>5, BeginOnFacts
  <2>2. CASE keys = {}
    BY <2>1, <2>2, BeginFormed DEF WillTell
  <2>3. CASE keys # {}
    <3>1. keys' # {} /\ UNCHANGED <<mode, marker, last, shown>>
      BY <1>5, <2>3 DEF Connect
    <3> QED BY <1>3, <2>3, <3>1 DEF WillTell, Settled, DeriveExpertClientStatus
  <2> QED BY <2>2, <2>3
<1>6. ASSUME NEW s \in Sockets, Disconnect(w, s)
      PROVE  WillTell(w)'
  <2>1. keys' \subseteq keys /\ UNCHANGED <<mode, marker, last, shown>>
    BY <1>6 DEF Disconnect
  <2> QED BY <1>3, <2>1 DEF WillTell, Settled, DeriveExpertClientStatus
<1>7. ASSUME NEW s \in Sockets, Heartbeat(w, s)
      PROVE  WillTell(w)'
  <2>1. CASE s \in keys
    <3>1. UNCHANGED <<keys, mode, marker, last, shown>>
      BY <1>7, <2>1 DEF Heartbeat
    <3> QED BY <1>3, <3>1 DEF WillTell, Settled, DeriveExpertClientStatus
  <2>2. CASE s \notin keys
    BY <1>4, <1>7, <2>2, BeginOnFacts DEF WillTell
  <2> QED BY <2>1, <2>2
<1>8. ASSUME SetAvailability(w)
      PROVE  WillTell(w)'
  <2>1. Has(t, "compare")
    BY <1>4, <1>8, BeginOnFacts, BeginFormed
  <2>2. UNCHANGED <<keys, last, shown>>
    BY <1>8 DEF SetAvailability, sockets
  <2> QED BY <1>3, <2>1, <2>2 DEF WillTell, Settled, Aligned
<1>9. ASSUME UNCHANGED <<keys, mode, marker, last, shown>>
      PROVE  WillTell(w)'
  BY <1>3, <1>9 DEF WillTell, Settled, DeriveExpertClientStatus
<1>10. ASSUME GetFullStatus(w) \/ \E c \in Consultations : Accept(w, c) \/ End(w, c)
       PROVE  WillTell(w)'
  BY <1>9, <1>10 DEF GetFullStatus, Accept, End, sockets
<1> QED BY <1>5, <1>6, <1>7, <1>8, <1>10 DEF BeginOn

\* Handlers that are left alone still tell.
LEMMA AroundClean ==
    ASSUME Typed, CleanInv, UNCHANGED <<last, shown, worker>>, clean' => clean,
           clean' => \/ UNCHANGED <<mode, marker>> /\ (keys' = keys \/ keys' \subseteq keys)
                     \/ keys' = {}
    PROVE  CleanInv'
<1> SUFFICES ASSUME clean' PROVE CleanInv'
  BY DEF CleanInv
<1>1. OneHandler' /\ Told'
  BY DEF CleanInv, OneHandler, Told
<1>2. keys' # {} => keys # {} /\ DeriveExpertClientStatus' = DeriveExpertClientStatus /\ marker' = marker
  BY DEF DeriveExpertClientStatus
<1>3. (\A w \in Workers : worker'[w] = Idle) => Settled'
  BY <1>2 DEF CleanInv, Settled
<1>4. ASSUME NEW w \in Workers, worker'[w] # Idle
      PROVE  Tells(w)'
  <2>1. Tells(w)
    BY <1>4 DEF CleanInv
  <2>2. WillTell(w)'
    BY <1>2, <2>1 DEF Tells, WillTell, Settled, Aligned, Todo
  <2>3. FindsFresh(w)'
    BY <1>2, <2>1 DEF Tells, FindsFresh, At, Todo
  <2> QED BY <1>1, <2>2, <2>3 DEF Tells
<1> QED BY <1>1, <1>3, <1>4 DEF CleanInv

\* A restart keeps CleanInv: what was still to be evaluated ends the trust in clean,
\* and the stale marker it may find is cleared and evaluated.
LEMMA RestartClean ==
    ASSUME NEW w \in Workers, Typed, Typed', CleanInv, Restart(w)
    PROVE  CleanInv'
<1> SUFFICES ASSUME clean' PROVE CleanInv'
  BY DEF CleanInv
<1>1. clean /\ \A v \in Workers : \A call \in Evaluating : ~Pending(v, call)
  BY DEF Restart
<1>2. UNCHANGED <<keys, mode, marker, last, shown>>
  BY DEF Restart
<1>3. Settled /\ Told
  <2>1. CASE \A v \in Workers : worker[v] = Idle
    BY <1>1, <2>1 DEF CleanInv
  <2>2. ASSUME NEW v \in Workers, worker[v] # Idle
        PROVE  Settled /\ Told
    <3>1. Tells(v)
      BY <1>1, <2>2 DEF CleanInv
    <3>2. Todo(v) \in Seq(Calls)
      BY DEF Typed, AllFit, Fit, Handlers, Todo
    <3>3. ~Has(Todo(v), "compare") /\ ~Has(Todo(v), "announce")
      BY <1>1, <3>2 DEF Has, Pending, Todo, Evaluating
    <3> QED BY <3>1, <3>3 DEF Tells, WillTell
  <2> QED BY <2>1, <2>2
<1>4. Settled' /\ Told'
  BY <1>2, <1>3 DEF Settled, Told, DeriveExpertClientStatus
<1>5. \A v \in Workers : v # w => worker'[v] = Idle
  BY DEF Restart
<1>6. Todo(w)' = <<>> \/ Todo(w)' = <<"idle">> \o Evaluate
  BY IdleFit DEF Restart, Todo, Doing
<1>7. FindsFresh(w)'
  <2>1. Todo(w)' # <<>> => Head(Todo(w)') = "idle"
    BY <1>6 DEF Evaluate
  <2> QED BY <2>1 DEF FindsFresh, At, Ends, Todo
<1> QED BY <1>4, <1>5, <1>7, TellsIsClean DEF Tells, WillTell, Typed

\* Initially nothing is shown and nothing is true.
LEMMA InitClean == Init => CleanInv
  BY DEF Init, CleanInv, OneHandler, Told, Settled

\* CleanInv is inductive.
LEMMA NextClean == Typed /\ Typed' /\ CleanInv /\ [Next]_vars => CleanInv'
<1> SUFFICES ASSUME Typed, Typed', CleanInv, [Next]_vars PROVE CleanInv'
  OBVIOUS
<1>1. ASSUME NEW w \in Workers, BeginOn(w) \/ Step(w) \/ Restart(w)
      PROVE  CleanInv'
  BY <1>1, StartClean, StepClean, RestartClean
<1>2. ASSUME NEW c \in Consultations, Cancel(c) \/ Reopen(c) \/ Close(c)
      PROVE  CleanInv'
  BY <1>2, AroundClean DEF Cancel, Reopen, Close, sockets, trust
<1>3. ASSUME NEW s \in Sockets, KeyExpires(s)
      PROVE  CleanInv'
  <2>1. UNCHANGED <<last, shown, worker, mode, marker, clean>> /\ keys' \subseteq keys
    BY <1>3 DEF KeyExpires, trust
  <2> QED BY <2>1, AroundClean
<1>4. ASSUME MarkerExpires
      PROVE  CleanInv'
  <2>1. UNCHANGED <<last, shown, worker, keys>> /\ (clean' => clean /\ keys = {})
    BY <1>4 DEF MarkerExpires, sockets
  <2> QED BY <2>1, AroundClean
<1>5. ASSUME UNCHANGED vars
      PROVE  CleanInv'
  BY <1>5, AroundClean DEF vars, sockets, trust
<1> QED BY <1>1, <1>2, <1>3, <1>4, <1>5 DEF Next

\* When nothing is under way and the expert is connected, a watching client
\* shows the status the expert has, through expired keys, revivals, several
\* sockets, repairs and restarts.
THEOREM ShownIsTrueHolds == Spec => []ShownIsTrue
<1>1. Typed /\ CleanInv => ShownIsTrue
  BY DEF CleanInv, ShownIsTrue, Quiet, Settled
<1>2. Spec => [](Typed /\ CleanInv)
  <2>1. Init => Typed /\ CleanInv
    BY InitTyped, InitClean
  <2>2. (Typed /\ CleanInv) /\ [Next]_vars => (Typed /\ CleanInv)'
    BY NextTyped, NextClean
  <2> QED BY <2>1, <2>2, PTL DEF Spec
<1> QED BY <1>1, <1>2, PTL

-----------------------------------------------------------------------------
(* The marker of a live consultation.                                      *)

\* Nothing of the handler takes the marker of c away.
Leaves(w, c) ==
    /\ ~Has(Todo(w), "idle") /\ ~Has(Todo(w), "busy")
    /\ At(w, "check") \/ At(w, "rewrite") => worker[w].c = c

\* The handler that accepts c has still to set the marker.
Brings(w, c) == Todo(w) = <<"busy">> \o Evaluate /\ worker[w].c = c

Marked(c) ==
    \/ \E w \in Workers : Brings(w, c)
    \/ marker = c /\ \A w \in Workers : Leaves(w, c)

SteadyInv ==
    steady # {} =>
        /\ OneHandler
        /\ \A c \in steady : status[c] \in {"live", "cancelled"}
        /\ \A c \in steady : status[c] = "live" => Marked(c)

\* An idle handler neither takes a marker away nor brings one.
LEMMA IdleLeaves ==
    ASSUME NEW w \in Workers, worker[w] = Idle
    PROVE  \A c : Leaves(w, c) /\ ~Brings(w, c)
<1>1. Todo(w) = <<>>
  BY IdleFit DEF Todo
<1>2. \A y : ~Has(<<>>, y)
  BY DEF Has
<1>3. <<"busy">> \o Evaluate # <<>>
  BY DEF Evaluate
<1> QED BY <1>1, <1>2, <1>3 DEF Leaves, Brings, At, Todo

\* An idle slot has no marker left to clear.
LEMMA IdleLeavesNext ==
    ASSUME NEW w \in Workers, worker'[w] = Idle
    PROVE  \A c : Leaves(w, c)'
<1>1. Todo(w)' = <<>>
  BY IdleFit DEF Todo
<1>2. \A y : ~Has(<<>>, y)
  BY DEF Has
<1> QED BY <1>1, <1>2 DEF Leaves, At, Todo

\* A call keeps SteadyInv: only the handler of a consultation touches its marker.
LEMMA StepSteady ==
    ASSUME NEW w \in Workers, Typed, SteadyInv, Step(w)
    PROVE  SteadyInv'
<1> DEFINE s == Todo(w)
           t == Todo(w)'
<1>1. /\ TypeOK /\ AllFit /\ AllFit' /\ StepKeeps(w)
      /\ t = worker'[w].todo /\ s = worker[w].todo
  BY StepFacts DEF Typed, Todo
<1>2. UNCHANGED <<status, steady>>
  BY DEF Step, RepairStaleBusyMarker, Check, SetIdle, SetBusy, Sustain,
         RefreshConsultationMarker, GetStatus, PublishStatusChange, Answer, trust
<1> SUFFICES ASSUME steady # {} PROVE SteadyInv'
  BY <1>2 DEF SteadyInv
<1>3. OneHandler /\ worker[w] # Idle /\ Others(w) /\ s # <<>>
  BY <1>1 DEF SteadyInv, StepKeeps
<1>4. \A v \in Workers : v # w => worker[v] = Idle /\ worker'[v] = Idle
  BY <1>3 DEF OneHandler, Others
<1>5. OneHandler'
  BY <1>4 DEF OneHandler
<1> SUFFICES ASSUME NEW c \in steady, status[c] = "live"
             PROVE  marker' = c /\ Leaves(w, c)'
  <2>1. ASSUME NEW c \in steady, status[c] = "live", marker' = c, Leaves(w, c)'
        PROVE  Marked(c)'
    BY <1>4, <2>1, IdleLeavesNext DEF Marked
  <2> QED BY <1>2, <1>5, <2>1 DEF SteadyInv
<1>6. Brings(w, c) \/ (marker = c /\ Leaves(w, c))
  BY <1>4, IdleLeaves DEF SteadyInv, Marked
<1>7. Brings(w, c) => Head(s) = "busy" /\ Tail(s) = Evaluate /\ worker[w].c = c
  <2>1. Evaluate \in Seq(Calls) /\ "busy" \in Calls
    BY BeginFormed DEF Calls
  <2>2. Head(<<"busy">> \o Evaluate) = "busy" /\ Tail(<<"busy">> \o Evaluate) = Evaluate
    BY <2>1, Prepend
  <2> QED BY <2>2 DEF Brings, s
<1>8. Head(s) \in {"idle", "busy"} => ~Leaves(w, c)
  <2>1. s \in Seq(Calls)
    BY <1>1 DEF AllFit, Fit, Handlers
  <2>2. Has(s, Head(s))
    BY <1>3, <2>1, TailCalls DEF Has
  <2> QED BY <2>2 DEF Leaves, s
<1>9. ~Brings(w, c) /\ ~At(w, "check") =>
        ~Has(t, "idle") /\ ~Has(t, "busy")
  BY <1>1, <1>6 DEF StepKeeps, Leaves, t
<1> HIDE DEF s, t
<1>10. CASE RepairStaleBusyMarker(w) \/ Sustain(w)
  <2>1. UNCHANGED marker /\ Head(s) \in {"repair", "sustain"}
    BY <1>10 DEF RepairStaleBusyMarker, Sustain, At, s, Todo
  <2>2. marker = c /\ ~At(w, "check")
    BY <1>1, <1>6, <1>7, <2>1 DEF At
  <2>3. (t # <<>> /\ Head(t) \in {"check", "rewrite"}) => worker'[w].c = marker
    BY <1>1, <1>10, StepFacts DEF t
  <2> QED BY <1>1, <1>7, <1>9, <2>1, <2>2, <2>3 DEF Leaves, At, t
<1>11. CASE Check(w)
  <2>1. UNCHANGED marker /\ Head(s) = "check" /\ At(w, "check")
    BY <1>11 DEF Check, At, s, Todo
  <2>2. marker = c /\ Leaves(w, c) /\ worker[w].c = c
    BY <1>6, <1>7, <2>1 DEF Leaves
  <2>3. ~IsBusyMarkerStale(worker[w].c)
    BY <2>2 DEF IsBusyMarkerStale, Terminal
  <2>4. StepPlain(w) /\ \A y : Has(t, y) => Has(s, y)
    BY <1>1, <1>11, <2>3, StepFacts DEF s, t
  <2> QED BY <1>1, <2>1, <2>2, <2>4 DEF Leaves, StepPlain, At, s, t
<1>12. CASE SetIdle(w)
  <2>1. Head(s) = "idle"
    BY <1>12 DEF SetIdle, At, s, Todo
  <2> QED BY <1>6, <1>7, <1>8, <2>1
<1>13. CASE SetBusy(w)
  <2>1. Head(s) = "busy" /\ marker' = worker[w].c
    BY <1>13 DEF SetBusy, At, s, Todo
  <2>2. Brings(w, c)
    BY <1>6, <1>8, <2>1
  <2>3. StepPlain(w) /\ t = Tail(s)
    BY <1>1, <1>13, StepFacts DEF s, t
  <2>4. t = Evaluate /\ marker' = c
    BY <1>7, <2>1, <2>2, <2>3
  <2>5. ~Has(t, "idle") /\ ~Has(t, "busy")
    BY <2>4, PlainFacts DEF PlainHandlers
  <2> QED BY <1>1, <2>3, <2>4, <2>5 DEF Leaves, StepPlain, At, t
<1>14. CASE RefreshConsultationMarker(w)
  <2>1. Head(s) = "rewrite" /\ At(w, "rewrite") /\ marker' = worker[w].c
    BY <1>14 DEF RefreshConsultationMarker, At, s, Todo
  <2>2. marker = c /\ worker[w].c = c /\ ~At(w, "check")
    BY <1>1, <1>6, <1>7, <2>1 DEF Leaves, At
  <2>3. StepPlain(w)
    BY <1>1, <1>14, StepFacts
  <2> QED BY <1>1, <1>7, <1>9, <2>1, <2>2, <2>3 DEF Leaves, StepPlain, At, t
<1>15. CASE PublishStatusChange(w) \/ Answer(w) \/ GetStatus(w)
  <2>1. UNCHANGED marker /\ Head(s) \in {"compare", "announce", "answer", "derive"}
    BY <1>15 DEF PublishStatusChange, Answer, GetStatus, At, s, Todo
  <2>2. marker = c /\ ~At(w, "check") /\ ~Brings(w, c)
    BY <1>1, <1>6, <1>7, <2>1 DEF At
  <2>3. t # <<>> => Head(t) \notin {"check", "rewrite"}
    BY <1>1, <1>15, StepFacts DEF StepPlain, Ends, t
  <2> QED BY <1>1, <1>9, <2>1, <2>2, <2>3 DEF Leaves, At, t
<1> QED BY <1>10, <1>11, <1>12, <1>13, <1>14, <1>15 DEF Step

\* A handler that begins keeps SteadyInv: next to another one it leaves no
\* consultation undisturbed.
LEMMA StartSteady ==
    ASSUME NEW w \in Workers, Typed, SteadyInv, BeginOn(w)
    PROVE  SteadyInv'
<1> SUFFICES ASSUME steady' # {} PROVE SteadyInv'
  BY DEF SteadyInv
<1>1. /\ AllFit /\ AllFit' /\ StartKeeps(w) /\ StepPlain(w) /\ UNCHANGED marker
  BY BeginOnFacts DEF BeginOn, StartPlain, Typed, Connect, Disconnect, Heartbeat,
     SetAvailability, GetFullStatus, Accept, End
<1>2. \A v \in Workers : /\ worker[v] = Idle
                         /\ v # w => worker'[v] = Idle
  BY <1>1 DEF StartKeeps, Others
<1>3. OneHandler'
  BY <1>2 DEF OneHandler
<1>4. ASSUME StartPlain(w), UNCHANGED status
      PROVE  SteadyInv'
  <2>1. steady' = steady /\ ~Has(Todo(w)', "idle") /\ ~Has(Todo(w)', "busy")
    BY <1>4 DEF StartPlain
  <2>2. \A c : Leaves(w, c)'
    BY <1>1, <2>1 DEF Leaves, StepPlain, At, Todo
  <2>3. ASSUME NEW c \in steady, status[c] = "live"
        PROVE  Marked(c)'
    <3>1. marker = c
      BY <1>2, <2>1, <2>3, IdleLeaves DEF SteadyInv, Marked
    <3> QED BY <1>1, <1>2, <2>2, <3>1, IdleLeavesNext DEF Marked
  <2> QED BY <1>3, <1>4, <2>1, <2>3 DEF SteadyInv
<1>5. ASSUME NEW s \in Sockets, Connect(w, s) \/ Disconnect(w, s) \/ Heartbeat(w, s)
      PROVE  SteadyInv'
  BY <1>1, <1>4, <1>5, BeginOnFacts DEF Connect, Disconnect, Heartbeat
<1>6. ASSUME SetAvailability(w) \/ GetFullStatus(w)
      PROVE  SteadyInv'
  BY <1>1, <1>4, <1>6, BeginOnFacts DEF SetAvailability, GetFullStatus
<1>7. ASSUME NEW c \in Consultations, Accept(w, c)
      PROVE  SteadyInv'
  <2>1. /\ Todo(w)' = <<"busy">> \o Evaluate /\ worker'[w].c = c /\ steady' = {c}
    BY <1>1, <1>7, BeginOnFacts
  <2>2. status'[c] = "live"
    BY <1>7 DEF Accept, Typed, TypeOK
  <2>3. Brings(w, c)'
    BY <2>1 DEF Brings
  <2> QED BY <1>3, <2>1, <2>2, <2>3 DEF SteadyInv, Marked
<1>8. ASSUME NEW c \in Consultations, End(w, c)
      PROVE  SteadyInv'
  BY <1>1, <1>8, BeginOnFacts
<1> QED BY <1>5, <1>6, <1>7, <1>8 DEF BeginOn

\* A restart keeps SteadyInv: a marker still to be set ends the trust in its
\* consultation.
LEMMA RestartSteady ==
    ASSUME NEW w \in Workers, Typed, SteadyInv, Restart(w)
    PROVE  SteadyInv'
<1> SUFFICES ASSUME steady' # {} PROVE SteadyInv'
  BY DEF SteadyInv
<1>1. /\ steady' \subseteq steady /\ \A v \in Workers : ~Pending(v, "busy")
      /\ UNCHANGED <<marker, status>>
  BY DEF Restart
<1>2. \A v \in Workers : v # w => worker'[v] = Idle
  BY DEF Restart
<1>3. OneHandler'
  BY <1>2 DEF OneHandler
<1>4. ASSUME NEW c \in steady', status[c] = "live"
      PROVE  Marked(c)'
  <2>1. \A v \in Workers : ~Brings(v, c)
    <3>1. SUFFICES ASSUME NEW v \in Workers, Brings(v, c)
                   PROVE  Pending(v, "busy")
      BY <1>1
    <3>2. /\ Todo(v) \in Seq(Calls) /\ Todo(v) # <<>> /\ Head(Todo(v)) = "busy"
      BY <3>1 DEF Typed, AllFit, Fit, Handlers, Todo, Brings, Evaluate
    <3>3. 1 \in DOMAIN Todo(v) /\ Todo(v)[1] = "busy"
      BY <3>2
    <3> QED BY <3>3 DEF Pending, Todo
  <2>2. marker = c
    BY <1>1, <1>4, <2>1 DEF SteadyInv, Marked
  <2>3. ~IsBusyMarkerStale(marker)
    BY <1>4, <2>2 DEF IsBusyMarkerStale, Terminal
  <2>4. worker'[w] = Idle
    BY <2>3 DEF Restart
  <2> QED BY <1>1, <1>2, <2>2, <2>4, IdleLeavesNext DEF Marked
<1> QED BY <1>1, <1>3, <1>4 DEF SteadyInv

\* What happens around the handlers takes no marker of a consultation that
\* stays live and undisturbed.
LEMMA AroundSteady ==
    ASSUME SteadyInv, UNCHANGED worker, steady' \subseteq steady,
           \A c \in steady' : /\ marker = c => marker' = c
                              /\ status'[c] \in {status[c], "cancelled"}
    PROVE  SteadyInv'
<1> SUFFICES ASSUME steady' # {} PROVE SteadyInv'
  BY DEF SteadyInv
<1>1. OneHandler'
  BY DEF SteadyInv, OneHandler
<1>2. ASSUME NEW c \in steady', status'[c] = "live"
      PROVE  Marked(c)'
  <2>1. Marked(c)
    BY <1>2 DEF SteadyInv
  <2> QED BY <2>1 DEF Marked, Brings, Leaves, At, Todo
<1> QED BY <1>1, <1>2 DEF SteadyInv

\* SteadyInv is inductive.
LEMMA NextSteady == Typed /\ SteadyInv /\ [Next]_vars => SteadyInv'
<1> SUFFICES ASSUME Typed, SteadyInv, [Next]_vars PROVE SteadyInv'
  OBVIOUS
<1>1. ASSUME NEW w \in Workers, BeginOn(w) \/ Step(w) \/ Restart(w)
      PROVE  SteadyInv'
  BY <1>1, StartSteady, StepSteady, RestartSteady
<1>2. ASSUME NEW c \in Consultations, Cancel(c)
      PROVE  SteadyInv'
  <2>1. UNCHANGED <<worker, marker, steady>>
    BY <1>2 DEF Cancel, trust
  <2>2. \A e \in steady : status'[e] \in {status[e], "cancelled"}
    BY <1>2 DEF Cancel, Typed, TypeOK
  <2> QED BY <2>1, <2>2, AroundSteady
<1>3. ASSUME NEW c \in Consultations, Reopen(c) \/ Close(c)
      PROVE  SteadyInv'
  <2>1. UNCHANGED <<worker, marker, steady>> /\ status[c] \in {"completed", "reopened"}
    BY <1>3 DEF Reopen, Close, trust
  <2>2. ASSUME NEW e \in steady
        PROVE  status'[e] = status[e]
    <3>1. e # c
      BY <2>1 DEF SteadyInv
    <3> QED BY <1>3, <3>1 DEF Reopen, Close, Typed, TypeOK
  <2> QED BY <2>1, <2>2, AroundSteady
<1>4. ASSUME NEW s \in Sockets, KeyExpires(s)
      PROVE  SteadyInv'
  BY <1>4, AroundSteady DEF KeyExpires, trust
<1>5. ASSUME MarkerExpires
      PROVE  SteadyInv'
  <2>1. UNCHANGED <<worker, status>> /\ steady' = steady \ {marker}
    BY <1>5 DEF MarkerExpires
  <2> QED BY <2>1, AroundSteady
<1>6. ASSUME UNCHANGED vars
      PROVE  SteadyInv'
  BY <1>6, AroundSteady DEF vars, trust
<1> QED BY <1>1, <1>2, <1>3, <1>4, <1>5, <1>6 DEF Next

\* While a consultation is live and nothing has disturbed its marker, the
\* expert's marker names it or is about to.
THEOREM LiveIsBusyHolds == Spec => []LiveIsBusy
<1>1. Typed /\ SteadyInv => LiveIsBusy
  <2> SUFFICES ASSUME Typed, SteadyInv, NEW c \in steady, status[c] = "live", marker # c
               PROVE  \E w \in Workers : At(w, "busy") /\ worker[w].c = c
    BY DEF LiveIsBusy, Typed, TypeOK
  <2>1. PICK w \in Workers : Brings(w, c)
    BY DEF SteadyInv, Marked
  <2>2. Todo(w) # <<>> /\ Head(Todo(w)) = "busy"
    BY <2>1 DEF Brings, Evaluate
  <2> QED BY <2>1, <2>2 DEF Brings, At, Todo
<1>2. Spec => [](Typed /\ SteadyInv)
  <2>1. Init => Typed /\ SteadyInv
    BY InitTyped DEF Init, SteadyInv
  <2>2. (Typed /\ SteadyInv) /\ [Next]_vars => (Typed /\ SteadyInv)'
    BY NextTyped, NextSteady
  <2> QED BY <2>1, <2>2, PTL DEF Spec
<1> QED BY <1>1, <1>2, PTL

-----------------------------------------------------------------------------
(* The meter of a consultation and its timers.                             *)

Memories == [budget : Countdown, strays : SUBSET Nat, recon : BOOLEAN,
             grace : Countdown, hold : Countdown, arming : Nat]

Ops == PauseReasons \cup {"idle", "resume", "refused", "end"}

Places == {"idle", "write", "arm", "insert", "anchor", "commit", "flush"}

Runs == [op : Ops, at : Places, spent : 0..MaxElapsed, live : BOOLEAN, delay : Countdown]

ClockTyped == Bounds /\ ClockTypeOK /\ run \in [Slots -> Runs]

Refused == [IdleRun EXCEPT !.op = "refused"]

\* The record of an idle slot.
LEMMA IdleFields ==
    ASSUME Bounds
    PROVE  /\ IdleRun \in Runs
           /\ IdleRun.op = "idle" /\ IdleRun.at = "idle" /\ IdleRun.spent = 0
           /\ IdleRun.live = FALSE /\ IdleRun.delay = Off
  BY DEF Bounds, IdleRun, Runs, Ops, Places, Countdown, Off

\* What the meter shows, and what it leaves of the budget.
LEMMA Readings ==
    ASSUME ClockTyped
    PROVE  Elapsed \in 0..MaxElapsed /\ Remaining \in Nat
<1>1. Elapsed \in 0..MaxElapsed
  BY DEF ClockTyped, Bounds, ClockTypeOK, Elapsed, Capped,
     SessionAge, Ages, Off
<1> QED BY <1>1 DEF ClockTyped, Bounds, ClockTypeOK, Remaining

\* A pause begins: the row is read, and a consultation that is over left alone.
PauseBegins(h, reason, delay) ==
    /\ db.status \in LiveStatuses
    /\ run'[h].op = reason /\ run'[h].at = "write" /\ run'[h].spent = Elapsed
    /\ run'[h].live = (db.status = "active") /\ run'[h].delay = delay

ResumeBegins(h) ==
    /\ Remaining > 0
    /\ run'[h].op = "resume" /\ run'[h].at = "insert" /\ run'[h].spent = Elapsed

EndBegins(h) ==
    /\ run'[h].op = "end" /\ run'[h].at = "commit" /\ run'[h].spent = Elapsed
    /\ run'[h].live = (db.status \in {"active", "completed"})

OthersRun(h) == \A g \in Slots : g # h => run'[g] = run[g]

\* The first half of a pause: its timers go, and if there is anything to pause
\* the handler keeps its reading of the meter.
LEMMA PausingFacts ==
    ASSUME ClockTyped, NEW h \in Slots, NEW reason \in PauseReasons, NEW m \in Memories,
           NEW delay \in Countdown, Pausing(h, reason, m, delay)
    PROVE  /\ memory' \in Memories /\ run' \in [Slots -> Runs] /\ OthersRun(h)
           /\ memory'.budget = Off /\ memory'.strays = m.strays /\ memory'.arming = m.arming
           /\ memory'.grace = m.grace /\ memory'.hold = Off
           /\ run'[h] = IdleRun \/ PauseBegins(h, reason, delay)
           /\ db.status \in LiveStatuses => PauseBegins(h, reason, delay)
<1>1. /\ memory' \in Memories
      /\ memory'.budget = Off /\ memory'.strays = m.strays /\ memory'.arming = m.arming
      /\ memory'.grace = m.grace /\ memory'.hold = Off
  BY DEF Pausing, NoBudgetTimer, Memories, Countdown, Off
<1> DEFINE r == [op |-> reason, at |-> "write", spent |-> Elapsed,
                 live |-> db.status = "active", delay |-> delay]
<1>2. r \in Runs
  BY Readings DEF Runs, Ops, Places
<1>3. r.op = reason /\ r.at = "write" /\ r.spent = Elapsed /\ r.live = (db.status = "active")
      /\ r.delay = delay
  OBVIOUS
<1>4. run' = IF db.status \in LiveStatuses THEN [run EXCEPT ![h] = r] ELSE [run EXCEPT ![h] = IdleRun]
  BY DEF Pausing
<1> HIDE DEF r
<1>5. IdleRun \in Runs
  BY IdleFields DEF ClockTyped
<1>6. run' \in [Slots -> Runs] /\ OthersRun(h)
      /\ run'[h] = IF db.status \in LiveStatuses THEN r ELSE IdleRun
  BY <1>2, <1>4, <1>5 DEF ClockTyped, OthersRun
<1> QED BY <1>1, <1>3, <1>6 DEF PauseBegins

\* The first half of a resume: the grace goes, and with time left the handler
\* keeps its reading; with none the caller decides.
LEMMA ResumingFacts ==
    ASSUME ClockTyped, NEW h \in Slots, NEW m \in Memories, NEW refused \in Runs,
           Resuming(h, m, refused)
    PROVE  /\ memory' \in Memories /\ run' \in [Slots -> Runs] /\ OthersRun(h)
           /\ memory'.budget = m.budget /\ memory'.strays = m.strays /\ memory'.arming = m.arming
           /\ ResumeBegins(h) \/ (Remaining = 0 /\ run'[h] = refused)
<1>1. /\ memory' \in Memories
      /\ memory'.budget = m.budget /\ memory'.strays = m.strays /\ memory'.arming = m.arming
  BY DEF Resuming, Memories, Countdown, Off
<1> DEFINE r == [IdleRun EXCEPT !.op = "resume", !.at = "insert", !.spent = Elapsed]
<1>2. IdleRun \in Runs
  BY IdleFields DEF ClockTyped
<1>3. r \in Runs /\ r.op = "resume" /\ r.at = "insert" /\ r.spent = Elapsed
  BY <1>2, Readings DEF Runs, Ops, Places
<1>4. run' = IF Remaining > 0 THEN [run EXCEPT ![h] = r] ELSE [run EXCEPT ![h] = refused]
  BY DEF Resuming
<1> HIDE DEF r
<1>5. run' \in [Slots -> Runs] /\ OthersRun(h)
      /\ run'[h] = IF Remaining > 0 THEN r ELSE refused
  BY <1>3, <1>4 DEF ClockTyped, OthersRun
<1> QED BY <1>1, <1>3, <1>5, Readings DEF ResumeBegins

\* The first half of an end.
LEMMA EndingFacts ==
    ASSUME ClockTyped, NEW h \in Slots, NEW m \in Memories, Ending(h, m)
    PROVE  /\ memory' \in Memories /\ run' \in [Slots -> Runs] /\ OthersRun(h)
           /\ memory'.recon = FALSE /\ memory'.grace = Off /\ memory'.hold = m.hold
           /\ memory'.budget = Off /\ memory'.strays = m.strays /\ memory'.arming = m.arming
           /\ EndBegins(h)
<1>1. /\ memory' \in Memories
      /\ memory'.recon = FALSE /\ memory'.grace = Off /\ memory'.hold = m.hold
      /\ memory'.budget = Off /\ memory'.strays = m.strays /\ memory'.arming = m.arming
  BY DEF Ending, NoBudgetTimer, Memories, Countdown, Off
<1> DEFINE l == db.status \in {"active", "completed"}
           r == [IdleRun EXCEPT !.op = "end", !.at = "commit", !.spent = Elapsed, !.live = l]
<1>2. IdleRun \in Runs /\ l \in BOOLEAN
  BY IdleFields DEF ClockTyped
<1>3. run' = [run EXCEPT ![h] = r]
  BY DEF Ending
<1> HIDE DEF l
<1>4. r \in Runs /\ r.op = "end" /\ r.at = "commit" /\ r.spent = Elapsed /\ r.live = l
  BY <1>2, Readings DEF Runs, Ops, Places
<1> HIDE DEF r
<1>5. run' \in [Slots -> Runs] /\ OthersRun(h) /\ run'[h] = r
  BY <1>3, <1>4 DEF ClockTyped, OthersRun
<1> QED BY <1>1, <1>4, <1>5 DEF EndBegins, l

Timers == memory.strays \cup ({memory.budget} \ {Off})

\* A handler begins, or the memory alone changes.
Opens(h) ==
    \/ Resume(h) \/ EndConsultation(h) \/ HoldAfterRefusal(h) \/ TimerSteps(h)
    \/ \E reason \in {"manual", "hold", "dialog"} : Pause(h, reason)

\* Why a budget is taken to be exhausted.
Exhausted(h) == Remaining = 0 \/ 0 \in Timers \/ run[h].op = "refused"

\* What stands of a running consultation's budget timer when no handler began:
\* it is as it was, or it is set to what is left.
Undisturbed ==
    db.status \in LiveStatuses =>
        \/ memory'.budget = memory.budget /\ memory'.arming = memory.arming
        \/ memory'.budget = Remaining /\ Remaining > 0

\* How a handler may begin.
Outcome(h) ==
    \/ (run'[h] = run[h] \/ run'[h] = IdleRun) /\ Undisturbed
    \/ run'[h] = Refused /\ Held
    \/ \E reason \in PauseReasons, delay \in Countdown :
          /\ PauseBegins(h, reason, delay)
          /\ IF reason = "broke" THEN Exhausted(h)
             ELSE reason \in Commands /\ (db.status = "accepted" => FromLobby)
    \/ ResumeBegins(h) /\ (db.status = "accepted" => FromLobby \/ memory.hold = 0)
    \/ EndBegins(h)

\* The record of a hold that could not be released.
LEMMA RefusedFields ==
    ASSUME Bounds
    PROVE  /\ Refused \in Runs /\ Refused.op = "refused" /\ Refused.at = "idle"
           /\ Refused.spent = 0 /\ Refused.live = FALSE
  BY IdleFields DEF Refused, Runs, Ops

\* How every handler begins, and what it leaves of the timers: none is added but
\* one set to what is left of the budget.
LEMMA OpenFacts ==
    ASSUME ClockTyped, NEW h \in Slots, Opens(h)
    PROVE  /\ memory' \in Memories /\ run' \in [Slots -> Runs] /\ OthersRun(h)
           /\ UNCHANGED <<up, redis, db, people, ghosts>>
           /\ (run[h] = IdleRun /\ up) \/ run[h].op = "refused"
           /\ Outcome(h)
           /\ memory'.arming \in {memory.arming, memory.arming - 1}
           /\ \A t \in Timers' : t \in Timers \/ (t = Remaining /\ Remaining > 0)
<1> USE DEF ClockTyped
<1>1. memory \in Memories /\ "broke" \in PauseReasons /\ Off \in Countdown
      /\ Bounds /\ IdleRun \in Runs /\ Refused \in Runs
  BY IdleFields, RefusedFields DEF ClockTypeOK, Memories, PauseReasons, Countdown
<1> DEFINE Goal ==
      /\ memory' \in Memories /\ run' \in [Slots -> Runs] /\ OthersRun(h)
      /\ Outcome(h)
      /\ memory'.arming \in {memory.arming, memory.arming - 1}
      /\ \A t \in Timers' : t \in Timers \/ (t = Remaining /\ Remaining > 0)
<1>2. /\ UNCHANGED <<up, redis, db, people, ghosts>>
      /\ (run[h] = IdleRun /\ up) \/ run[h].op = "refused"
  BY DEF Opens, Pause, Resume, EndConsultation, HoldAfterRefusal,
     TimerSteps, ArmComputed, BudgetFires,
         Reconcile, PauseGraceFires, HoldFires, Free, ghosts
<1> SUFFICES Goal
  BY <1>2
<1>3. ASSUME NEW reason \in PauseReasons, NEW m \in Memories, Pausing(h, reason, m, Off),
             m.strays \subseteq memory.strays, m.arming \in {memory.arming, memory.arming - 1},
             IF reason = "broke" THEN Exhausted(h)
             ELSE reason \in Commands /\ (db.status = "accepted" => FromLobby)
      PROVE  Goal
  <2>1. /\ memory' \in Memories /\ run' \in [Slots -> Runs] /\ OthersRun(h)
        /\ memory'.budget = Off /\ memory'.strays = m.strays /\ memory'.arming = m.arming
        /\ run'[h] = IdleRun \/ PauseBegins(h, reason, Off)
        /\ db.status \in LiveStatuses => PauseBegins(h, reason, Off)
    BY <1>1, <1>3, PausingFacts
  <2>2. Outcome(h)
    BY <1>1, <1>3, <2>1 DEF Outcome, Undisturbed
  <2>3. \A t \in Timers' : t \in Timers
    BY <1>3, <2>1 DEF Timers
  <2> QED BY <1>3, <2>1, <2>2, <2>3
<1>4. ASSUME NEW reason \in {"manual", "hold", "dialog"}, Pause(h, reason)
      PROVE  Goal
  <2>1. Pausing(h, reason, memory, Off) /\ reason \in PauseReasons
        /\ reason \in Commands /\ (db.status = "accepted" => FromLobby)
    BY <1>4 DEF Pause, Send, PauseReasons
  <2> QED BY <1>1, <1>3, <2>1
<1>5. ASSUME Resume(h)
      PROVE  Goal
  <2>1. Resuming(h, memory, IdleRun) /\ (db.status = "accepted" => FromLobby)
    BY <1>5 DEF Resume, Send
  <2>2. /\ memory' \in Memories /\ run' \in [Slots -> Runs] /\ OthersRun(h)
        /\ memory'.budget = memory.budget /\ memory'.strays = memory.strays
        /\ memory'.arming = memory.arming
        /\ ResumeBegins(h) \/ (Remaining = 0 /\ run'[h] = IdleRun)
    BY <1>1, <2>1, ResumingFacts
  <2> QED BY <2>1, <2>2 DEF Outcome, Undisturbed, Timers
<1>6. ASSUME Ending(h, memory)
      PROVE  Goal
  <2>2. /\ memory' \in Memories /\ run' \in [Slots -> Runs] /\ OthersRun(h)
        /\ memory'.budget = Off /\ memory'.strays = memory.strays
        /\ memory'.arming = memory.arming
        /\ EndBegins(h)
    BY <1>1, <1>6, EndingFacts
  <2> QED BY <2>2 DEF Outcome, Timers
<1>7. ASSUME HoldAfterRefusal(h)
      PROVE  Goal
  <2>1. Pausing(h, "broke", memory, Off) /\ Exhausted(h)
    BY <1>7 DEF HoldAfterRefusal, Exhausted
  <2> QED BY <1>1, <1>3, <2>1
<1>8. ASSUME ArmComputed(h)
      PROVE  Goal
  <2>1. CASE Remaining > 0
    <3>1. memory' = Armed(memory, Remaining) /\ run' = run /\ Remaining \in Nat
      BY <1>8, <2>1, Readings DEF ArmComputed
    <3>2. memory.arming > 0
      BY <1>8 DEF ArmComputed
    <3>3. /\ memory' \in Memories /\ memory'.arming = memory.arming - 1
          /\ memory'.budget = Remaining
          /\ memory'.strays = IF memory.budget = Off THEN memory.strays
                              ELSE memory.strays \cup {memory.budget}
      <4> DEFINE strays == IF memory.budget = Off THEN memory.strays
                           ELSE memory.strays \cup {memory.budget}
      <4>1. strays \in SUBSET Nat /\ memory.arming - 1 \in Nat
        BY <1>1, <3>2 DEF Memories, Countdown
      <4>2. memory' = [memory EXCEPT !.arming = memory.arming - 1, !.budget = Remaining,
                                     !.recon = TRUE, !.strays = strays]
        BY <3>1 DEF Armed
      <4> HIDE DEF strays
      <4>3. /\ memory' \in Memories /\ memory'.arming = memory.arming - 1
            /\ memory'.budget = Remaining /\ memory'.strays = strays
        BY <1>1, <3>1, <4>1, <4>2 DEF Memories, Countdown
      <4> QED BY <4>3 DEF strays
    <3>4. run' \in [Slots -> Runs] /\ OthersRun(h) /\ Outcome(h)
      BY <2>1, <3>1, <3>3 DEF OthersRun, Outcome, Undisturbed
    <3>5. \A t \in Timers' : t \in Timers \/ t = Remaining
      BY <3>3 DEF Timers
    <3> QED BY <2>1, <3>3, <3>4, <3>5
  <2>2. CASE ~(Remaining > 0)
    <3> DEFINE m == [memory EXCEPT !.arming = @ - 1]
    <3>1. Pausing(h, "broke", m, Off) /\ memory.arming > 0
      BY <1>8, <2>2 DEF ArmComputed
    <3>2. m \in Memories /\ m.strays = memory.strays /\ m.arming = memory.arming - 1
      BY <1>1, <3>1 DEF Memories
    <3>3. Exhausted(h)
      BY <2>2, Readings DEF Exhausted
    <3> HIDE DEF m
    <3> QED BY <1>1, <1>3, <3>1, <3>2, <3>3
  <2> QED BY <2>1, <2>2
<1>9. ASSUME BudgetFires(h)
      PROVE  Goal
  <2>1. CASE memory.budget = 0 /\ Pausing(h, "broke", memory, Off)
    <3>1. Exhausted(h)
      BY <2>1 DEF Exhausted, Timers, Off
    <3> QED BY <1>1, <1>3, <2>1, <3>1
  <2>2. CASE 0 \in memory.strays /\ Pausing(h, "broke", [memory EXCEPT !.strays = @ \ {0}], Off)
    <3> DEFINE m == [memory EXCEPT !.strays = @ \ {0}]
    <3>1. m \in Memories /\ m.strays \subseteq memory.strays /\ m.arming = memory.arming
      BY <1>1 DEF Memories
    <3>2. Exhausted(h)
      BY <2>2 DEF Exhausted, Timers
    <3>3. Pausing(h, "broke", m, Off)
      BY <2>2
    <3> HIDE DEF m
    <3> QED BY <1>1, <1>3, <3>1, <3>2, <3>3
  <2> QED BY <1>9, <2>1, <2>2 DEF BudgetFires
<1>10. ASSUME Reconcile(h)
       PROVE  Goal
  <2>1. Pausing(h, "broke", memory, Off) /\ Exhausted(h)
    BY <1>10 DEF Reconcile, Exhausted
  <2> QED BY <1>1, <1>3, <2>1
<1>11. ASSUME HoldFires(h)
       PROVE  Goal
  <2> DEFINE m == [memory EXCEPT !.hold = Off]
  <2>1. m \in Memories /\ m.strays = memory.strays /\ m.arming = memory.arming
        /\ m.budget = memory.budget
    BY <1>1 DEF Memories
  <2>2. CASE Held
    <3>1. Resuming(h, m, Refused) /\ memory.hold = 0
      BY <1>11, <2>2 DEF HoldFires, Refused
    <3> HIDE DEF m
    <3>2. /\ memory' \in Memories /\ run' \in [Slots -> Runs] /\ OthersRun(h)
          /\ memory'.budget = m.budget /\ memory'.strays = m.strays
          /\ memory'.arming = m.arming
          /\ ResumeBegins(h) \/ (Remaining = 0 /\ run'[h] = Refused)
      BY <1>1, <2>1, <3>1, ResumingFacts
    <3> QED BY <2>1, <2>2, <3>1, <3>2 DEF Outcome, Timers
  <2>3. CASE ~Held
    <3>1. memory' = m /\ run' = run
      BY <1>11, <2>3 DEF HoldFires
    <3> HIDE DEF m
    <3> QED BY <2>1, <3>1 DEF Outcome, Undisturbed, Timers, OthersRun
  <2> QED BY <2>2, <2>3
<1>12. ASSUME PauseGraceFires(h) \/ EndConsultation(h)
       PROVE  Goal
  BY <1>6, <1>12 DEF PauseGraceFires, EndConsultation
<1> HIDE DEF Goal
<1> QED BY <1>4, <1>5, <1>7, <1>8, <1>9, <1>10, <1>11, <1>12 DEF Opens, TimerSteps

-----------------------------------------------------------------------------
Redises == [base : Ages, age : 0..MaxElapsed, held : Countdown, paused : Countdown]

Rows == [status : {"accepted", "active", "completed", "cancelled"}, mode : Modes,
         open : BOOLEAN, since : Ages, budget : Nat, billed : Ages]

\* A handler leaves its record for another place, or is done.
LEMMA RunMoves ==
    ASSUME ClockTyped, NEW h \in Slots
    PROVE  /\ \A at \in Places : run' = [run EXCEPT ![h].at = at] =>
                /\ run' \in [Slots -> Runs] /\ OthersRun(h)
                /\ run'[h].at = at /\ run'[h].op = run[h].op
                /\ run'[h].spent = run[h].spent /\ run'[h].live = run[h].live
           /\ run' = [run EXCEPT ![h] = IdleRun] =>
                run' \in [Slots -> Runs] /\ OthersRun(h) /\ run'[h] = IdleRun
<1>1. ASSUME NEW at \in Places, run' = [run EXCEPT ![h].at = at]
      PROVE  /\ run' \in [Slots -> Runs] /\ OthersRun(h)
             /\ run'[h].at = at /\ run'[h].op = run[h].op
             /\ run'[h].spent = run[h].spent /\ run'[h].live = run[h].live
  BY <1>1 DEF ClockTyped, Runs, OthersRun
<1>2. ASSUME run' = [run EXCEPT ![h] = IdleRun]
      PROVE  run' \in [Slots -> Runs] /\ OthersRun(h) /\ run'[h] = IdleRun
  BY <1>2, IdleFields DEF ClockTyped, OthersRun
<1> QED BY <1>1, <1>2

\* What each step of a handler writes.
LEMMA PauseWriteFacts ==
    ASSUME ClockTyped, NEW h \in Slots, PauseWrite(h)
    PROVE  /\ run' \in [Slots -> Runs] /\ OthersRun(h)
           /\ run[h].op \in PauseReasons /\ run[h].at = "write"
           /\ run'[h].at = "arm" /\ run'[h].op = run[h].op /\ run'[h].spent = run[h].spent
           /\ db' \in Rows /\ db'.open = (db.open /\ ~run[h].live)
           /\ db'.status = db.status /\ db'.mode = db.mode /\ db'.since = db.since
           /\ db'.budget = db.budget /\ db'.billed = db.billed
           /\ redis' \in Redises
           /\ \/ /\ run[h].op \in {"hold", "dialog"}
                 /\ redis'.base = run[h].spent /\ redis'.age = 0 /\ redis'.held = Ttl
              \/ /\ run[h].op \notin {"hold", "dialog"}
                 /\ redis'.base = redis.base /\ redis'.age = redis.age /\ redis'.held = Off
           /\ UNCHANGED <<up, memory, people, ghosts, sent>>
<1>1. /\ run' \in [Slots -> Runs] /\ OthersRun(h)
      /\ run'[h].at = "arm" /\ run'[h].op = run[h].op /\ run'[h].spent = run[h].spent
  BY RunMoves DEF PauseWrite, Places
<1>2. /\ db' \in Rows /\ db'.open = (db.open /\ ~run[h].live)
      /\ db'.status = db.status /\ db'.mode = db.mode /\ db'.since = db.since
      /\ db'.budget = db.budget /\ db'.billed = db.billed
  <2>1. db \in Rows /\ run[h].live \in BOOLEAN
    BY DEF ClockTyped, ClockTypeOK, Rows, Runs
  <2> DEFINE o == db.open /\ ~run[h].live
  <2>2. o \in BOOLEAN
    OBVIOUS
  <2>3. db' = [db EXCEPT !.open = o]
    BY DEF PauseWrite
  <2> HIDE DEF o
  <2>4. /\ db' \in Rows /\ db'.open = o
        /\ db'.status = db.status /\ db'.mode = db.mode /\ db'.since = db.since
        /\ db'.budget = db.budget /\ db'.billed = db.billed
    BY <2>1, <2>2, <2>3 DEF Rows
  <2> QED BY <2>4 DEF o
<1>3. redis \in Redises /\ run[h].spent \in Ages /\ Ttl \in Countdown /\ Off \in Countdown
      /\ 0 \in 0..MaxElapsed
  BY DEF ClockTyped, ClockTypeOK, Redises, Runs, Bounds, Ages, Countdown,
     Off
<1>4. CASE run[h].op \in {"hold", "dialog"}
  <2> DEFINE n == run[h].spent
  <2>1. redis' = [redis EXCEPT !.base = n, !.age = 0, !.held = Ttl, !.paused = Ttl]
    BY <1>4 DEF PauseWrite, HoldBilling
  <2>2. n \in Ages
    BY <1>3
  <2> HIDE DEF n
  <2>3. /\ redis' \in Redises
        /\ redis'.base = n /\ redis'.age = 0 /\ redis'.held = Ttl
    BY <1>3, <2>1, <2>2 DEF Redises
  <2> QED BY <1>1, <1>2, <1>4, <2>3 DEF PauseWrite, n
<1>5. CASE run[h].op \notin {"hold", "dialog"}
  <2>1. redis' = [redis EXCEPT !.held = Off, !.paused = Ttl]
    BY <1>5 DEF PauseWrite
  <2>2. /\ redis' \in Redises
        /\ redis'.base = redis.base /\ redis'.age = redis.age /\ redis'.held = Off
    BY <1>3, <2>1 DEF Redises
  <2> QED BY <1>1, <1>2, <1>5, <2>2 DEF PauseWrite
<1> QED BY <1>4, <1>5

\* The last half of a pause: no budget timer is touched.
LEMMA PauseArmFacts ==
    ASSUME ClockTyped, NEW h \in Slots, PauseArm(h)
    PROVE  /\ run' \in [Slots -> Runs] /\ OthersRun(h)
           /\ run[h].at = "arm" /\ run'[h] = IdleRun
           /\ memory' \in Memories /\ memory'.budget = memory.budget
           /\ memory'.strays = memory.strays /\ memory'.arming = memory.arming
           /\ UNCHANGED <<up, redis, db, people, ghosts, sent>>
<1>1. /\ run' \in [Slots -> Runs] /\ OthersRun(h)
      /\ run[h].at = "arm" /\ run'[h] = IdleRun
      /\ UNCHANGED <<up, redis, db, people, ghosts, sent>>
  BY RunMoves DEF PauseArm
<1>2. /\ memory \in Memories /\ run[h].op \in PauseReasons
      /\ Ttl \in Nat /\ DialogGrace \in Nat /\ run[h].delay \in Countdown
  BY DEF ClockTyped, ClockTypeOK, Memories, Bounds, Runs, PauseArm
<1>3. \A n \in Countdown :
        /\ [memory EXCEPT !.grace = n] \in Memories /\ [memory EXCEPT !.hold = n] \in Memories
        /\ [memory EXCEPT !.grace = n].budget = memory.budget
        /\ [memory EXCEPT !.grace = n].strays = memory.strays
        /\ [memory EXCEPT !.grace = n].arming = memory.arming
        /\ [memory EXCEPT !.hold = n].budget = memory.budget
        /\ [memory EXCEPT !.hold = n].strays = memory.strays
        /\ [memory EXCEPT !.hold = n].arming = memory.arming
  BY <1>2 DEF Memories
<1>4. Ttl \in Countdown /\ DialogGrace \in Countdown
      /\ (IF run[h].delay = Off THEN Ttl ELSE run[h].delay) \in Countdown
  BY <1>2 DEF Countdown
<1>5. CASE run[h].op = "manual"
  BY <1>1, <1>2, <1>5 DEF PauseArm
<1>6. CASE run[h].op = "hold"
  BY <1>1, <1>3, <1>4, <1>6 DEF PauseArm
<1>7. CASE run[h].op = "dialog"
  BY <1>1, <1>3, <1>4, <1>7 DEF PauseArm
<1>8. CASE run[h].op = "broke"
  BY <1>1, <1>3, <1>4, <1>8 DEF PauseArm
<1> QED BY <1>2, <1>5, <1>6, <1>7, <1>8 DEF PauseReasons

\* One more timer is being computed, and the one in the map is gone.
LEMMA ArmingFacts ==
    ASSUME ClockTyped
    PROVE  /\ Arming(memory) \in Memories /\ Arming(memory).budget = Off
           /\ Arming(memory).strays = memory.strays /\ Arming(memory).hold = memory.hold
           /\ Arming(memory).grace = memory.grace
           /\ Arming(memory).arming = memory.arming + 1
<1> DEFINE m == NoBudgetTimer(memory)
           n == memory.arming + 1
<1>1. memory \in Memories
  BY DEF ClockTyped, ClockTypeOK, Memories
<1>2. /\ m \in Memories /\ m.budget = Off /\ m.strays = memory.strays
      /\ m.hold = memory.hold /\ m.grace = memory.grace /\ m.arming = memory.arming
  BY <1>1 DEF NoBudgetTimer, Memories, Countdown, Off
<1>3. n \in Nat
  BY <1>1 DEF Memories
<1> HIDE DEF m
<1>4. Arming(memory) = [m EXCEPT !.arming = n]
  BY <1>2 DEF Arming, m
<1> HIDE DEF n
<1>5. /\ Arming(memory) \in Memories /\ Arming(memory).budget = Off
      /\ Arming(memory).strays = memory.strays /\ Arming(memory).hold = memory.hold
      /\ Arming(memory).grace = memory.grace /\ Arming(memory).arming = n
  BY <1>2, <1>3, <1>4 DEF Memories
<1> QED BY <1>5 DEF n

\* A resume inserts a session, unless one is open.
LEMMA ResumeInsertFacts ==
    ASSUME ClockTyped, NEW h \in Slots, ResumeInsert(h)
    PROVE  /\ run' \in [Slots -> Runs] /\ OthersRun(h)
           /\ run[h].at = "insert" /\ run'[h].at = "anchor"
           /\ run'[h].op = run[h].op /\ run'[h].spent = run[h].spent
           /\ db' \in Rows /\ db'.open
           /\ db'.status = db.status /\ db'.mode = db.mode
           /\ db'.budget = db.budget /\ db'.billed = db.billed
           /\ db'.since = IF db.open THEN db.since ELSE 0
           /\ UNCHANGED <<up, memory, redis, people, ghosts, sent>>
<1>1. /\ run' \in [Slots -> Runs] /\ OthersRun(h)
      /\ run[h].at = "insert" /\ run'[h].at = "anchor"
      /\ run'[h].op = run[h].op /\ run'[h].spent = run[h].spent
  BY RunMoves DEF ResumeInsert, Places
<1>2. db \in Rows /\ 0 \in Ages
  BY DEF ClockTyped, ClockTypeOK, Rows, Bounds, Ages, Off
<1>3. /\ db' \in Rows /\ db'.open
      /\ db'.status = db.status /\ db'.mode = db.mode
      /\ db'.budget = db.budget /\ db'.billed = db.billed
      /\ db'.since = IF db.open THEN db.since ELSE 0
  BY <1>2 DEF ResumeInsert, Rows
<1> QED BY <1>1, <1>3 DEF ResumeInsert

\* Then it anchors the meter at its reading and arms.
LEMMA ResumeAnchorFacts ==
    ASSUME ClockTyped, NEW h \in Slots, ResumeAnchor(h)
    PROVE  /\ run' \in [Slots -> Runs] /\ OthersRun(h)
           /\ run[h].at = "anchor" /\ run'[h] = IdleRun
           /\ redis' \in Redises /\ redis'.base = run[h].spent /\ redis'.age = 0
           /\ redis'.held = Off /\ redis'.paused = Off
           /\ memory' \in Memories /\ memory'.budget = Off /\ memory'.strays = memory.strays
           /\ memory'.arming = memory.arming + 1
           /\ UNCHANGED <<up, db, people, ghosts, sent>>
<1>1. /\ run' \in [Slots -> Runs] /\ OthersRun(h)
      /\ run[h].at = "anchor" /\ run'[h] = IdleRun
  BY RunMoves DEF ResumeAnchor
<1>2. run[h].spent \in 0..MaxElapsed /\ MaxElapsed \in Nat /\ memory \in Memories
  BY DEF ClockTyped, ClockTypeOK, Runs, Bounds, Memories
<1>3. /\ redis' \in Redises /\ redis'.base = run[h].spent /\ redis'.age = 0
      /\ redis'.held = Off /\ redis'.paused = Off
  BY <1>2 DEF ResumeAnchor, ResumeBase, Redises, Ages, Countdown, Off
<1>4. /\ memory' \in Memories /\ memory'.budget = Off /\ memory'.strays = memory.strays
      /\ memory'.arming = memory.arming + 1
  BY ArmingFacts DEF ResumeAnchor
<1> QED BY <1>1, <1>3, <1>4 DEF ResumeAnchor

\* An end closes the consultation; the first one that found it running bills it.
LEMMA EndCommitFacts ==
    ASSUME ClockTyped, NEW h \in Slots, EndCommit(h)
    PROVE  /\ run' \in [Slots -> Runs] /\ OthersRun(h)
           /\ run[h].at = "commit" /\ run'[h].at = "flush"
           /\ run'[h].op = run[h].op /\ run'[h].spent = run[h].spent
           /\ db' \in Rows /\ db'.mode = db.mode /\ ~db'.open /\ db'.since = db.since
           /\ db'.budget = db.budget
           /\ db'.status = IF db.status \notin LiveStatuses THEN db.status
                           ELSE IF run[h].live THEN "completed" ELSE "cancelled"
           /\ db'.billed = IF run[h].live /\ db.billed = Off THEN run[h].spent ELSE db.billed
           /\ UNCHANGED <<up, memory, redis, people, ghosts, sent>>
<1>1. /\ run' \in [Slots -> Runs] /\ OthersRun(h)
      /\ run[h].at = "commit" /\ run'[h].at = "flush"
      /\ run'[h].op = run[h].op /\ run'[h].spent = run[h].spent
  BY RunMoves DEF EndCommit, Places
<1>2. db \in Rows /\ run[h].spent \in Ages
  BY DEF ClockTyped, ClockTypeOK, Rows, Runs, Bounds, Ages, Off
<1> DEFINE st == IF db.status \notin LiveStatuses THEN db.status
                 ELSE IF run[h].live THEN "completed" ELSE "cancelled"
           bi == IF run[h].live /\ db.billed = Off THEN run[h].spent ELSE db.billed
<1>3. st \in {"accepted", "active", "completed", "cancelled"} /\ bi \in Ages
  BY <1>2 DEF Rows
<1>4. db' = [db EXCEPT !.status = st, !.open = FALSE, !.billed = bi]
  BY DEF EndCommit
<1> HIDE DEF st, bi
<1>5. /\ db' \in Rows /\ db'.mode = db.mode /\ ~db'.open /\ db'.since = db.since
      /\ db'.budget = db.budget /\ db'.status = st /\ db'.billed = bi
  BY <1>2, <1>3, <1>4 DEF Rows
<1> QED BY <1>1, <1>5 DEF EndCommit, st, bi

\* Then it drops the keys.
LEMMA EndFlushFacts ==
    ASSUME ClockTyped, NEW h \in Slots, EndFlush(h)
    PROVE  /\ run' \in [Slots -> Runs] /\ OthersRun(h)
           /\ run[h].at = "flush" /\ run'[h] = IdleRun
           /\ redis' \in Redises /\ redis'.base = Off /\ redis'.held = Off
           /\ UNCHANGED <<up, memory, db, people, ghosts, sent>>
<1>1. MaxElapsed \in Nat
  BY DEF ClockTyped, Bounds
<1>2. redis' \in Redises /\ redis'.base = Off /\ redis'.held = Off
  BY <1>1 DEF EndFlush, Redises, Ages, Countdown, Off
<1> QED BY <1>2, RunMoves DEF EndFlush

\* What a start or a rejoin does to the timers: the one in the map goes, and
\* one more is being computed.
Rearms ==
    /\ memory'.budget = Off /\ memory'.strays = memory.strays
    /\ memory'.hold = memory.hold /\ memory'.grace = memory.grace
    /\ memory'.arming = memory.arming + 1

\* The consultation starts.
Starts ==
    /\ db.status = "accepted" /\ db'.status = "active"
    /\ db'.open /\ db'.since = 0 /\ db'.mode = db.mode
    /\ db'.budget = db.budget /\ db'.billed = db.billed
    /\ redis'.base = redis.base /\ redis'.age = redis.age
    /\ redis'.held = Off /\ redis'.paused = Off

\* The start writes the row, clears the hold and, in a chat, arms.
LEMMA StartFacts ==
    ASSUME ClockTyped, NEW arms, Started(arms), db.status = "accepted"
    PROVE  /\ memory' \in Memories /\ redis' \in Redises /\ db' \in Rows
           /\ Starts
           /\ IF arms THEN Rearms ELSE memory' = memory
<1>1. memory \in Memories /\ redis \in Redises /\ db \in Rows /\ 0 \in Ages /\ Off \in Countdown
  BY DEF ClockTyped, ClockTypeOK, Memories, Redises, Rows, Bounds, Ages,
     Countdown, Off
<1>2. memory' \in Memories /\ IF arms THEN Rearms ELSE memory' = memory
  BY <1>1, ArmingFacts DEF Started, Rearms
<1>3. /\ redis' \in Redises
      /\ redis'.base = redis.base /\ redis'.age = redis.age
      /\ redis'.held = Off /\ redis'.paused = Off
  BY <1>1 DEF Started, Redises
<1>4. /\ db' \in Rows /\ db'.status = "active" /\ db'.open /\ db'.since = 0
      /\ db'.mode = db.mode /\ db'.budget = db.budget /\ db'.billed = db.billed
  BY <1>1 DEF Started, Rows
<1> QED BY <1>2, <1>3, <1>4 DEF Starts

\* A party joins or reports its media.
Comes(a) == Join(a) \/ MediaReady(a)

\* A party that comes changes nothing, arms once more, or starts the session.
LEMMA ComeFacts ==
    ASSUME ClockTyped, NEW a \in Participants, Comes(a)
    PROVE  /\ UNCHANGED <<up, run, ghosts, absence>> /\ up
           /\ joined' \subseteq Participants /\ ready' \subseteq Participants
           /\ memory' \in Memories /\ redis' \in Redises /\ db' \in Rows
           /\ \/ UNCHANGED <<memory, redis, db>>
              \/ db.status = "active" /\ Rearms /\ UNCHANGED <<redis, db>>
              \/ Starts /\ (Rearms \/ (db.mode # "chat" /\ memory' = memory))
<1>1. /\ memory \in Memories /\ redis \in Redises /\ db \in Rows
      /\ joined \subseteq Participants /\ ready \subseteq Participants
  BY DEF ClockTyped, ClockTypeOK, Memories, Redises, Rows
<1>2. CASE Join(a)
  <2>1. CASE db.status = "accepted" /\ joined' = joined \cup {a} /\ joined' = Participants
             /\ Started(db.mode = "chat" \/ ready = Participants)
    <3> DEFINE arms == db.mode = "chat" \/ ready = Participants
    <3>1. Started(arms)
      BY <2>1
    <3> HIDE DEF arms
    <3>2. /\ memory' \in Memories /\ redis' \in Redises /\ db' \in Rows
          /\ Starts /\ IF arms THEN Rearms ELSE memory' = memory
      BY <2>1, <3>1, StartFacts
    <3>3. UNCHANGED <<up, ready, run, ghosts, absence>> /\ up
      BY <1>2 DEF Join, Send
    <3> QED BY <1>1, <2>1, <3>2, <3>3 DEF arms
  <2>2. CASE joined' = joined \cup {a} /\ UNCHANGED <<db, redis, memory>>
    BY <1>1, <1>2, <2>2 DEF Join, Send
  <2>3. CASE db.status = "active" /\ memory' = Arming(memory) /\ UNCHANGED <<db, redis, joined>>
    BY <1>1, <1>2, <2>3, ArmingFacts DEF Join, Send, Rearms
  <2> QED BY <1>2, <2>1, <2>2, <2>3 DEF Join
<1>3. CASE MediaReady(a)
  <2>1. CASE db.status = "accepted" /\ Started(TRUE)
    <3>1. /\ memory' \in Memories /\ redis' \in Redises /\ db' \in Rows
          /\ Starts /\ Rearms
      BY <2>1, StartFacts
    <3> QED BY <1>1, <1>3, <3>1 DEF MediaReady
  <2>2. CASE UNCHANGED <<db, redis, memory>>
    BY <1>1, <1>3, <2>2 DEF MediaReady
  <2> QED BY <1>3, <2>1, <2>2 DEF MediaReady
<1> QED BY <1>2, <1>3 DEF Comes

\* What a disconnect does to the timers: the one in the map goes.
Disarms ==
    /\ memory'.budget = Off /\ memory'.strays = memory.strays
    /\ memory'.hold = memory.hold /\ memory'.grace = memory.grace
    /\ memory'.arming = memory.arming

\* What the end of a grace does to the row.
Abandons ==
    /\ db'.mode = db.mode /\ db'.since = db.since
    /\ db'.budget = db.budget /\ db'.billed = db.billed
    /\ \/ /\ db.status \in LiveStatuses /\ db.open
          /\ db'.status = db.status /\ ~db'.open
       \/ /\ db.status = "accepted" /\ ~db.open
          /\ db'.status = "cancelled" /\ db'.open = db.open

\* What becomes of the disconnect graces.
Graces(a) ==
    \/ LoseSocket(a) /\ UNCHANGED <<memory, db>>
    \/ PauseBilling(a) /\ db' = db
       /\ IF db.status = "active" THEN Disarms ELSE memory' = memory
    \/ ComeBack(a) /\ db' = db
       /\ IF db.status = "active" THEN Rearms ELSE memory' = memory
    \/ LeaveFires(a) /\ memory' = memory /\ (db' = db \/ Abandons)
       /\ ~(db'.status = "active" /\ db'.open)

\* A party that loses its socket, comes back or stays away touches neither the
\* keys nor a handler.
LEMMA SocketFacts ==
    ASSUME ClockTyped, NEW a \in Participants, SocketSteps(a)
    PROVE  /\ UNCHANGED <<up, run, ghosts, redis, joined, ready>>
           /\ gone' \subseteq Participants /\ leaving' \subseteq Participants
           /\ leave' \in [Participants -> Countdown]
           /\ memory' \in Memories /\ db' \in Rows
           /\ Graces(a)
<1>1. /\ memory \in Memories /\ db \in Rows /\ gone \subseteq Participants
      /\ leaving \subseteq Participants /\ leave \in [Participants -> Countdown]
      /\ LeaveGrace \in Countdown /\ Off \in Countdown
  BY DEF ClockTyped, ClockTypeOK, Memories, Rows, Bounds, Countdown
<1>2. UNCHANGED <<up, run, ghosts, redis, joined, ready>>
  BY DEF SocketSteps, LoseSocket, PauseBilling, ComeBack, LeaveFires
<1>3. CASE LoseSocket(a)
  BY <1>1, <1>2, <1>3 DEF LoseSocket, Graces
<1>4. CASE PauseBilling(a)
  <2>1. /\ NoBudgetTimer(memory) \in Memories /\ NoBudgetTimer(memory).budget = Off
        /\ NoBudgetTimer(memory).strays = memory.strays
        /\ NoBudgetTimer(memory).hold = memory.hold
        /\ NoBudgetTimer(memory).grace = memory.grace
        /\ NoBudgetTimer(memory).arming = memory.arming
    BY <1>1 DEF NoBudgetTimer, Memories
  <2>2. memory' \in Memories /\ IF db.status = "active" THEN Disarms ELSE memory' = memory
    BY <1>1, <1>4, <2>1 DEF PauseBilling, Disarms
  <2> QED BY <1>1, <1>2, <1>4, <2>2 DEF PauseBilling, Graces
<1>5. CASE ComeBack(a)
  <2>1. memory' \in Memories /\ IF db.status = "active" THEN Rearms ELSE memory' = memory
    BY <1>1, <1>5, ArmingFacts DEF ComeBack, Rearms
  <2> QED BY <1>1, <1>2, <1>5, <2>1 DEF ComeBack, Graces
<1>6. CASE LeaveFires(a)
  <2>1. /\ leave' \in [Participants -> Countdown] /\ gone' = gone /\ leaving' = leaving
        /\ memory' = memory /\ db' = SessionsClosed
    BY <1>1, <1>6 DEF LeaveFires
  <2>2. CASE db.status \in LiveStatuses /\ db.open
    <3>1. db' = [db EXCEPT !.open = FALSE]
      BY <2>1, <2>2 DEF SessionsClosed
    <3>2. db' \in Rows /\ Abandons /\ ~db'.open
      BY <1>1, <2>2, <3>1 DEF Rows, Abandons
    <3> QED BY <1>1, <1>2, <1>6, <2>1, <3>2 DEF Graces
  <2>3. CASE db.status = "accepted" /\ ~db.open
    <3>1. db' = [db EXCEPT !.status = "cancelled"]
      BY <2>1, <2>3 DEF SessionsClosed
    <3>2. db' \in Rows /\ Abandons /\ db'.status = "cancelled"
      BY <1>1, <2>3, <3>1 DEF Rows, Abandons
    <3> QED BY <1>1, <1>2, <1>6, <2>1, <3>2 DEF Graces
  <2>4. CASE ~(db.status \in LiveStatuses /\ db.open) /\ db.status # "accepted"
    <3>1. db' = db
      BY <2>1, <2>4 DEF SessionsClosed
    <3> QED BY <1>1, <1>2, <1>6, <2>1, <2>4, <3>1 DEF Graces, LiveStatuses
  <2> QED BY <2>2, <2>3, <2>4 DEF LiveStatuses
<1> QED BY <1>3, <1>4, <1>5, <1>6 DEF SocketSteps

\* A recharge raises the budget and nothing else.
LEMMA RechargeFacts ==
    ASSUME ClockTyped, Recharge
    PROVE  /\ db' \in Rows /\ db'.budget = db.budget + TopUp
           /\ db'.status = db.status /\ db'.mode = db.mode /\ db'.open = db.open
           /\ db'.since = db.since /\ db'.billed = db.billed
           /\ "recharge" \in Commands
           /\ UNCHANGED <<up, memory, redis, people, run, ghosts>>
<1> DEFINE n == db.budget + TopUp
<1>1. db \in Rows /\ n \in Nat
  BY DEF ClockTyped, ClockTypeOK, Rows, Bounds
<1>2. db' = [db EXCEPT !.budget = n]
  BY DEF Recharge
<1> HIDE DEF n
<1>3. /\ db' \in Rows /\ db'.budget = n
      /\ db'.status = db.status /\ db'.mode = db.mode /\ db'.open = db.open
      /\ db'.since = db.since /\ db'.billed = db.billed
  BY <1>1, <1>2 DEF Rows
<1> QED BY <1>3 DEF Recharge, Send, n

\* A refused switch has cleared the timers.
LEMMA SwitchFacts ==
    ASSUME ClockTyped, RefusedSwitch
    PROVE  /\ memory' \in Memories /\ memory'.budget = Off
           /\ memory'.strays = memory.strays /\ memory'.arming = memory.arming
           /\ memory'.recon = FALSE /\ memory'.grace = Off /\ memory'.hold = Off
           /\ "switch" \in Commands
           /\ UNCHANGED <<up, redis, db, people, run, ghosts>>
<1>1. memory \in Memories /\ Off \in Countdown
  BY DEF ClockTyped, ClockTypeOK, Memories, Countdown
<1>2. /\ memory' \in Memories /\ memory'.budget = Off
      /\ memory'.strays = memory.strays /\ memory'.arming = memory.arming
      /\ memory'.recon = FALSE /\ memory'.grace = Off /\ memory'.hold = Off
  BY <1>1 DEF RefusedSwitch, NoBudgetTimer, Memories
<1> QED BY <1>2 DEF RefusedSwitch, Send

\* A key that is due goes; the anchor stays.
LEMMA KeyFacts ==
    ASSUME ClockTyped, KeySteps
    PROVE  /\ redis' \in Redises /\ redis'.base = redis.base /\ redis'.age = redis.age
           /\ \/ redis.held = 0 /\ redis'.held = Off /\ redis'.paused = redis.paused
              \/ redis.paused = 0 /\ redis'.paused = Off /\ redis'.held = redis.held
           /\ UNCHANGED <<up, memory, db, people, run, ghosts, sent>>
<1>1. redis \in Redises /\ Off \in Countdown
  BY DEF ClockTyped, ClockTypeOK, Redises, Countdown
<1> QED BY <1>1 DEF KeySteps, HoldKeyExpires, PauseKeyExpires, Redises

\* A countdown that is not due counts down.
LEMMA LessFacts ==
    ASSUME NEW n \in Countdown, n # 0
    PROVE  Less(n) \in Countdown /\ (n = Off <=> Less(n) = Off)
           /\ (n # Off => Less(n) = n - 1)
  BY DEF Less, Countdown, Off

\* Time passes between handlers, and past nothing that is due.
LEMMA TickFacts ==
    ASSUME ClockTyped, Tick
    PROVE  /\ memory' \in Memories /\ redis' \in Redises /\ db' \in Rows
           /\ ClockQuiet /\ memory'.arming = memory.arming
           /\ memory'.strays = {n - 1 : n \in memory.strays} /\ 0 \notin memory.strays
           /\ memory.budget # 0 /\ memory'.budget = Less(memory.budget)
           /\ memory'.grace = Less(memory.grace) /\ memory'.hold = Less(memory.hold)
           /\ redis'.base = redis.base /\ redis'.age = Capped(redis.age + 1)
           /\ redis.held = Off <=> redis'.held = Off
           /\ redis.paused = Off <=> redis'.paused = Off
           /\ db'.status = db.status /\ db'.mode = db.mode /\ db'.open = db.open
           /\ db'.budget = db.budget /\ db'.billed = db.billed
           /\ db'.since = IF db.since = Off THEN Off ELSE Capped(db.since + 1)
           /\ wall' = IF db.status = "active" THEN Capped(wall + 1) ELSE wall
           /\ talked' = IF db.status = "active" /\ db.open /\ ~Held
                        THEN Capped(talked + 1) ELSE talked
           /\ leave' \in [Participants -> Countdown]
           /\ \A b \in Participants : leave[b] # 0 /\ leave'[b] = Less(leave[b])
           /\ UNCHANGED <<up, joined, ready, gone, leaving, run>>
<1>1. /\ memory \in Memories /\ redis \in Redises /\ db \in Rows
      /\ MaxElapsed \in Nat
  BY DEF ClockTyped, ClockTypeOK, Memories, Redises, Rows, Bounds
<1>2. /\ 0 \notin memory.strays /\ memory.budget # 0 /\ memory.grace # 0 /\ memory.hold # 0
      /\ redis.held # 0 /\ redis.paused # 0
  BY DEF Tick, Due
<1> DEFINE b == Less(memory.budget)
           g == Less(memory.grace)
           o == Less(memory.hold)
           s == {n - 1 : n \in memory.strays}
           a == Capped(redis.age + 1)
           k == Less(redis.held)
           p == Less(redis.paused)
           t == IF db.since = Off THEN Off ELSE Capped(db.since + 1)
<1>3. /\ b \in Countdown /\ g \in Countdown /\ o \in Countdown /\ k \in Countdown
      /\ p \in Countdown
  BY <1>1, <1>2, LessFacts DEF Memories, Redises
<1>4. s \in SUBSET Nat
  BY <1>1, <1>2 DEF Memories
<1>5. a \in 0..MaxElapsed /\ t \in Ages
  BY <1>1 DEF Redises, Rows, Capped, Ages, Off
<1>6. /\ memory' = [memory EXCEPT !.budget = b, !.grace = g, !.hold = o, !.strays = s]
      /\ redis' = [redis EXCEPT !.age = a, !.held = k, !.paused = p]
      /\ db' = [db EXCEPT !.since = t]
  BY DEF Tick
<1>7. /\ redis.held = Off <=> k = Off
      /\ redis.paused = Off <=> p = Off
  BY <1>1, <1>2, LessFacts DEF Redises
<1> HIDE DEF b, g, o, s, a, k, p, t
<1>11. /\ leave' \in [Participants -> Countdown]
       /\ \A c \in Participants : leave[c] # 0 /\ leave'[c] = Less(leave[c])
  BY LessFacts DEF Tick, Due, ClockTyped, ClockTypeOK
<1>8. /\ memory' \in Memories /\ memory'.arming = memory.arming
      /\ memory'.budget = b /\ memory'.grace = g /\ memory'.hold = o /\ memory'.strays = s
  BY <1>1, <1>3, <1>4, <1>6 DEF Memories
<1>9. /\ redis' \in Redises /\ redis'.base = redis.base /\ redis'.age = a
      /\ redis'.held = k /\ redis'.paused = p
  BY <1>1, <1>3, <1>5, <1>6 DEF Redises
<1>10. /\ db' \in Rows /\ db'.since = t
       /\ db'.status = db.status /\ db'.mode = db.mode /\ db'.open = db.open
       /\ db'.budget = db.budget /\ db'.billed = db.billed
  BY <1>1, <1>5, <1>6 DEF Rows
<1> QED BY <1>2, <1>7, <1>8, <1>9, <1>10, <1>11 DEF Tick, b, g, o, s, a, t

\* A crash loses the timers and the handlers.
LEMMA CrashFacts ==
    ASSUME ClockTyped, Crash
    PROVE  /\ memory' \in Memories /\ run' \in [Slots -> Runs]
           /\ \A h \in Slots : run'[h] = IdleRun
           /\ memory'.budget = Off /\ memory'.strays = {} /\ memory'.recon = FALSE
           /\ memory'.grace = Off /\ memory'.hold = Off /\ memory'.arming = 0
           /\ ~up' /\ (CrashAnywhere \/ ClockQuiet)
           /\ gone' = Participants /\ leaving' = {} /\ leave' = NoLeave
           /\ leave' \in [Participants -> Countdown]
           /\ UNCHANGED <<redis, db, joined, ready, wall, talked>>
<1>1. IdleRun \in Runs
  BY IdleFields DEF ClockTyped
<1>2. run' \in [Slots -> Runs] /\ \A h \in Slots : run'[h] = IdleRun
  BY <1>1 DEF Crash
<1> QED BY <1>2 DEF Crash, Memories, NoTimers, NoLeave, Countdown, Off

\* What boot recovery does: it leaves the timers, gives a hold its timer, arms
\* a budget timer or finds the budget gone.
Recovers(h) ==
    \/ /\ UNCHANGED <<memory, run>>
       /\ db.status # "active" \/ redis.paused # Off
    \/ /\ memory'.budget = memory.budget /\ memory'.strays = memory.strays
       /\ memory'.arming = memory.arming /\ run' = run
       /\ db.status = "active" /\ Held
    \/ /\ Rearms /\ run' = run
       /\ db.status = "active" /\ ~Held /\ redis.paused = Off
    \/ /\ memory'.budget = Off /\ memory'.strays = memory.strays
       /\ PauseBegins(h, "broke", redis.paused) /\ Remaining = 0
       /\ db.status = "active" /\ ~Held /\ redis.paused # Off

\* What boot recovery does, and when.
LEMMA BootFacts ==
    ASSUME ClockTyped, NEW h \in Slots, Boot(h)
    PROVE  /\ memory' \in Memories /\ run' \in [Slots -> Runs] /\ OthersRun(h)
           /\ Recovers(h) /\ ~up /\ up'
           /\ UNCHANGED <<redis, db, people, ghosts>>
<1>1. /\ memory \in Memories /\ redis \in Redises /\ "broke" \in PauseReasons
      /\ redis.paused \in Countdown /\ redis.held \in Countdown
      /\ run \in [Slots -> Runs]
  BY DEF ClockTyped, ClockTypeOK, Memories, Redises, PauseReasons
<1>2. ~up /\ up' /\ UNCHANGED <<redis, db, people, ghosts>>
  BY DEF Boot, ghosts, people
<1>3. CASE db.status # "active" /\ UNCHANGED <<memory, run>>
  BY <1>1, <1>2, <1>3 DEF OthersRun, Recovers
<1>4. CASE /\ db.status = "active" /\ Held
           /\ memory' = [memory EXCEPT !.hold = redis.held]
           /\ run' = run
  <2>1. /\ memory' \in Memories /\ memory'.budget = memory.budget
        /\ memory'.strays = memory.strays /\ memory'.arming = memory.arming
    BY <1>1, <1>4 DEF Memories
  <2> QED BY <1>1, <1>2, <1>4, <2>1 DEF OthersRun, Recovers
<1>5. CASE /\ db.status = "active" /\ ~Held /\ redis.paused # Off
           /\ Remaining > 0 /\ UNCHANGED <<memory, run>>
  BY <1>1, <1>2, <1>5 DEF OthersRun, Recovers
<1>6. CASE /\ db.status = "active" /\ ~Held /\ redis.paused # Off
           /\ ~(Remaining > 0) /\ Pausing(h, "broke", memory, redis.paused)
  <2>1. /\ memory' \in Memories /\ run' \in [Slots -> Runs] /\ OthersRun(h)
        /\ memory'.budget = Off /\ memory'.strays = memory.strays
        /\ db.status \in LiveStatuses => PauseBegins(h, "broke", redis.paused)
    BY <1>1, <1>6, PausingFacts
  <2> QED BY <1>2, <1>6, <2>1, Readings DEF Recovers, LiveStatuses
<1>7. CASE /\ db.status = "active" /\ ~Held /\ redis.paused = Off
           /\ memory' = Arming(memory) /\ run' = run
  BY <1>1, <1>2, <1>7, ArmingFacts DEF OthersRun, Recovers, Rearms
<1> QED BY <1>3, <1>4, <1>5, <1>6, <1>7 DEF Boot

-----------------------------------------------------------------------------
(* Types.                                                                  *)

\* A handler goes on, or boot recovery runs in its place.
Moves(h) ==
    \/ PauseWrite(h) \/ PauseArm(h) \/ ResumeInsert(h) \/ ResumeAnchor(h)
    \/ EndCommit(h) \/ EndFlush(h) \/ Boot(h)

\* Every step is one of these.
LEMMA NextCases ==
    ASSUME [ClockNext]_clockVars
    PROVE  \/ UNCHANGED clockVars
           \/ \E h \in Slots : Opens(h) \/ Moves(h)
           \/ \E a \in Participants : Comes(a) \/ SocketSteps(a)
           \/ Recharge \/ RefusedSwitch \/ KeySteps \/ Tick \/ Crash
  BY DEF ClockNext, HandlerSteps, CommandSteps, Opens, Moves, Comes

\* The types of the parts make the type of the whole.
LEMMA TypedParts ==
    ASSUME ClockTyped, up' \in BOOLEAN, memory' \in Memories, redis' \in Redises, db' \in Rows,
           joined' \subseteq Participants, ready' \subseteq Participants, run' \in [Slots -> Runs],
           gone' \subseteq Participants, leaving' \subseteq Participants,
           leave' \in [Participants -> Countdown],
           wall' \in 0..MaxElapsed, talked' \in 0..MaxElapsed
    PROVE  ClockTyped'
<1>1. DOMAIN run' = Slots /\ \A h \in Slots : run'[h].spent \in 0..MaxElapsed
  BY DEF Runs
<1>2. Bounds'
  BY DEF ClockTyped, Bounds
<1> QED BY <1>1, <1>2 DEF ClockTyped, ClockTypeOK, Memories, Redises, Rows

\* The parts of ClockTyped.
LEMMA TypedNow ==
    ASSUME ClockTyped
    PROVE  /\ up \in BOOLEAN /\ memory \in Memories /\ redis \in Redises /\ db \in Rows
           /\ joined \subseteq Participants /\ ready \subseteq Participants /\ run \in [Slots -> Runs]
           /\ gone \subseteq Participants /\ leaving \subseteq Participants
           /\ leave \in [Participants -> Countdown]
           /\ wall \in 0..MaxElapsed /\ talked \in 0..MaxElapsed /\ MaxElapsed \in Nat
  BY DEF ClockTyped, ClockTypeOK, Memories, Redises, Rows, Bounds

\* Every step keeps the types.
LEMMA ClockTypedStep == ClockTyped /\ [ClockNext]_clockVars => ClockTyped'
<1> SUFFICES ASSUME ClockTyped, [ClockNext]_clockVars PROVE ClockTyped'
  OBVIOUS
<1> USE TypedNow
<1>1. CASE UNCHANGED clockVars
  BY <1>1, TypedParts DEF clockVars
<1>2. ASSUME NEW h \in Slots, Opens(h)
      PROVE  ClockTyped'
  BY <1>2, OpenFacts, TypedParts DEF people, ghosts
<1>3. ASSUME NEW h \in Slots, PauseWrite(h) PROVE ClockTyped'
  BY <1>3, PauseWriteFacts, TypedParts DEF people, ghosts
<1>4. ASSUME NEW h \in Slots, PauseArm(h) PROVE ClockTyped'
  BY <1>4, PauseArmFacts, TypedParts DEF people, ghosts
<1>5. ASSUME NEW h \in Slots, ResumeInsert(h) PROVE ClockTyped'
  BY <1>5, ResumeInsertFacts, TypedParts DEF people, ghosts
<1>6. ASSUME NEW h \in Slots, ResumeAnchor(h) PROVE ClockTyped'
  BY <1>6, ResumeAnchorFacts, TypedParts DEF people, ghosts
<1>7. ASSUME NEW h \in Slots, EndCommit(h) PROVE ClockTyped'
  BY <1>7, EndCommitFacts, TypedParts DEF people, ghosts
<1>8. ASSUME NEW h \in Slots, EndFlush(h) PROVE ClockTyped'
  BY <1>8, EndFlushFacts, TypedParts DEF people, ghosts
<1>9. ASSUME NEW h \in Slots, Boot(h) PROVE ClockTyped'
  <2>1. up' \in BOOLEAN
    BY <1>9, BootFacts
  <2> QED BY <1>9, <2>1, BootFacts, TypedParts DEF people, ghosts
<1>10. ASSUME NEW a \in Participants, Comes(a) PROVE ClockTyped'
  BY <1>10, ComeFacts, TypedParts DEF ghosts, absence
<1>16. ASSUME NEW a \in Participants, SocketSteps(a) PROVE ClockTyped'
  BY <1>16, SocketFacts, TypedParts DEF ghosts
<1>11. CASE Recharge
  BY <1>11, RechargeFacts, TypedParts DEF people, ghosts
<1>12. CASE RefusedSwitch
  BY <1>12, SwitchFacts, TypedParts DEF people, ghosts
<1>13. CASE KeySteps
  BY <1>13, KeyFacts, TypedParts DEF people, ghosts
<1>14. CASE Tick
  <2>1. wall' \in 0..MaxElapsed /\ talked' \in 0..MaxElapsed
    BY <1>14, TickFacts DEF Capped
  <2> QED BY <1>14, <2>1, TickFacts, TypedParts
<1>15. CASE Crash
  <2>1. up' \in BOOLEAN
    BY <1>15 DEF Crash
  <2> QED BY <1>15, <2>1, CrashFacts, TypedParts
<1> QED BY <1>1, <1>2, <1>3, <1>4, <1>5, <1>6, <1>7, <1>8, <1>9, <1>10, <1>11, <1>12,
           <1>13, <1>14, <1>15, <1>16, NextCases DEF Moves

\* The initial state has them.
LEMMA ClockTypedInit == Bounds /\ ClockInit => ClockTyped
<1> SUFFICES ASSUME Bounds, ClockInit PROVE ClockTyped
  OBVIOUS
<1>1. run \in [Slots -> Runs]
  BY IdleFields DEF ClockInit
<1>2. DOMAIN run = Slots /\ \A h \in Slots : run[h].spent \in 0..MaxElapsed
  BY <1>1 DEF Runs
<1>3. memory \in Memories
  BY DEF ClockInit, Memories, NoTimers, Countdown, Off
<1>4. redis \in Redises /\ db \in Rows
  BY DEF ClockInit, Bounds, Redises, Rows, Countdown, Ages, Off
<1>5. leave \in [Participants -> Countdown]
  BY DEF ClockInit, NoLeave, Countdown
<1> QED BY <1>1, <1>2, <1>3, <1>4, <1>5 DEF ClockInit, Bounds, ClockTyped, ClockTypeOK,
           Memories, Redises, Rows

\* Every timer, key and column has its type, and no countdown runs past 0:
\* no timer or key that is due is ever passed over, whatever overlaps.
THEOREM ClockTypeCorrect == ClockSpec => []ClockTypeOK
<1>1. ClockInit => ClockTyped
  BY ClockAssumption, ClockTypedInit
<1>2. ClockTyped /\ [ClockNext]_clockVars => ClockTyped'
  BY ClockTypedStep
<1>3. ClockTyped => ClockTypeOK
  BY DEF ClockTyped
<1> QED BY <1>1, <1>2, <1>3, PTL DEF ClockSpec

-----------------------------------------------------------------------------
(* The meter and real time.                                                *)

\* Before the start nothing is armed, anchored or held; a party may only have
\* ended what never began.
Lobby ==
    db.status = "accepted" =>
        /\ memory.budget = Off /\ memory.strays = {} /\ ~memory.recon
        /\ memory.grace = Off /\ memory.hold = Off /\ memory.arming = 0
        /\ redis.base = Off /\ redis.held = Off /\ redis.paused = Off
        /\ db.since = Off /\ ~db.open /\ wall = 0 /\ talked = 0
        /\ \A h \in Slots :
              \/ run[h] = IdleRun
              \/ /\ run[h].op = "end" /\ run[h].at = "commit"
                 /\ run[h].spent = 0 /\ ~run[h].live

\* No anchor, session or reading under way counts more than the real time.
Pace ==
    db.status = "active" =>
        /\ db.since \in 0..wall
        /\ redis.base # Off =>
              redis.base <= wall /\ (redis.base + redis.age <= wall \/ wall = MaxElapsed)
        /\ \A h \in Slots : run[h].spent <= wall

\* Nor does a bill, or the reading of an end that is going to bill first.
Billing ==
    /\ db.status = "completed" => db.billed # Off
    /\ db.billed # Off => db.billed <= wall
    /\ \A h \in Slots :
          (run[h].at = "commit" /\ run[h].live) => (db.billed # Off \/ run[h].spent <= wall)

\* The keys are dropped only when the consultation is over.
Flushed == \A h \in Slots : run[h].at = "flush" => db.status \notin LiveStatuses

RealTime == ClockTyped /\ Lobby /\ Pace /\ Billing /\ Flushed

\* Before the start a handler can only begin an end.
LEMMA LobbyOpens ==
    ASSUME ClockTyped, Lobby, ~FromLobby, db.status = "accepted", NEW h \in Slots, Opens(h)
    PROVE  Ending(h, memory)
<1>1. /\ memory.budget = Off /\ memory.strays = {} /\ ~memory.recon
      /\ memory.grace = Off /\ memory.hold = Off /\ memory.arming = 0
      /\ run[h].op # "refused"
  BY IdleFields DEF Lobby, ClockTyped
<1>2. ASSUME NEW command, Send(command)
      PROVE  command \in {"end", "recharge", "drop"}
  BY <1>2 DEF Send
<1>3. ASSUME NEW reason \in {"manual", "hold", "dialog"}, Pause(h, reason)
      PROVE  FALSE
  BY <1>2, <1>3 DEF Pause
<1>4. ~Resume(h)
  BY <1>2 DEF Resume
<1>5. ~HoldAfterRefusal(h)
  BY <1>1 DEF HoldAfterRefusal
<1>6. ~TimerSteps(h)
  BY <1>1 DEF TimerSteps, ArmComputed, BudgetFires, Reconcile,
     PauseGraceFires, HoldFires, Off
<1> QED BY <1>3, <1>4, <1>5, <1>6 DEF Opens, EndConsultation

\* Lobby is kept: the start leaves it, and nothing returns to it.
LEMMA LobbyStep ==
    ASSUME ClockTyped, Lobby, ~FromLobby, [ClockNext]_clockVars
    PROVE  Lobby'
<1> SUFFICES ASSUME db'.status = "accepted" PROVE Lobby'
  BY DEF Lobby
<1> USE TypedNow
<1> DEFINE
      Calm == /\ memory.budget = Off /\ memory.strays = {} /\ ~memory.recon
              /\ memory.grace = Off /\ memory.hold = Off /\ memory.arming = 0
      Unanchored == /\ redis.base = Off /\ redis.held = Off /\ redis.paused = Off
                    /\ db.since = Off /\ ~db.open /\ wall = 0 /\ talked = 0
      Waiting(h) == \/ run[h] = IdleRun
                    \/ /\ run[h].op = "end" /\ run[h].at = "commit"
                       /\ run[h].spent = 0 /\ ~run[h].live
<1>1. db.status = "accepted" => (Calm /\ Unanchored /\ \A h \in Slots : Waiting(h))
  BY DEF Lobby
<1>2. /\ IdleRun.op = "idle" /\ IdleRun.at = "idle"
  BY IdleFields DEF ClockTyped
<1>3. CASE UNCHANGED clockVars
  BY <1>1, <1>3 DEF Lobby, clockVars
<1>4. ASSUME NEW h \in Slots, Opens(h)
      PROVE  Lobby'
  <2>1. db.status = "accepted" /\ UNCHANGED <<redis, db, wall, talked>>
    BY <1>4, OpenFacts DEF ghosts
  <2>2. Ending(h, memory)
    BY <1>4, <2>1, LobbyOpens
  <2>3. /\ OthersRun(h) /\ EndBegins(h)
        /\ memory'.recon = FALSE /\ memory'.grace = Off /\ memory'.hold = memory.hold
        /\ memory'.budget = Off /\ memory'.strays = memory.strays
        /\ memory'.arming = memory.arming
    BY <2>2, EndingFacts
  <2>4. Elapsed = 0
    BY <1>1, <2>1 DEF Elapsed, Held, SessionAge
  <2>5. \A g \in Slots : Waiting(g)'
    BY <1>1, <2>1, <2>3, <2>4 DEF OthersRun, EndBegins
  <2>6. Calm' /\ Unanchored'
    BY <1>1, <2>1, <2>3
  <2> QED BY <2>5, <2>6 DEF Lobby
<1>5. ASSUME NEW h \in Slots, Moves(h)
      PROVE  Lobby'
  <2>1. CASE PauseWrite(h)
    BY <1>1, <1>2, <2>1, PauseWriteFacts
  <2>2. CASE PauseArm(h)
    BY <1>1, <1>2, <2>2, PauseArmFacts
  <2>3. CASE ResumeInsert(h)
    BY <1>1, <1>2, <2>3, ResumeInsertFacts
  <2>4. CASE ResumeAnchor(h)
    BY <1>1, <1>2, <2>4, ResumeAnchorFacts
  <2>5. CASE EndCommit(h)
    BY <2>5, EndCommitFacts DEF LiveStatuses
  <2>6. CASE EndFlush(h)
    BY <1>1, <1>2, <2>6, EndFlushFacts
  <2>7. CASE Boot(h)
    <3>1. /\ UNCHANGED <<redis, db, wall, talked>> /\ Recovers(h) /\ db.status = "accepted"
      BY <2>7, BootFacts DEF ghosts
    <3>2. UNCHANGED <<memory, run>>
      BY <3>1 DEF Recovers
    <3> QED BY <1>1, <3>1, <3>2 DEF Lobby
  <2> QED BY <1>5, <2>1, <2>2, <2>3, <2>4, <2>5, <2>6, <2>7 DEF Moves
<1>6. ASSUME NEW a \in Participants, Comes(a)
      PROVE  Lobby'
  BY <1>1, <1>6, ComeFacts DEF Lobby, ghosts, Starts
<1>12. ASSUME NEW a \in Participants, SocketSteps(a)
       PROVE  Lobby'
  <2>1. /\ UNCHANGED <<run, redis, wall, talked>> /\ Graces(a)
    BY <1>12, SocketFacts DEF ghosts
  <2>2. db' = db /\ memory' = memory
    BY <1>1, <2>1 DEF Graces, Abandons
  <2> QED BY <1>1, <2>1, <2>2 DEF Lobby
<1>7. CASE Recharge
  BY <1>1, <1>7, RechargeFacts DEF Lobby, ghosts
<1>8. CASE RefusedSwitch
  BY <1>8, SwitchFacts DEF RefusedSwitch, Send
<1>9. CASE KeySteps
  BY <1>1, <1>9, KeyFacts DEF Off
<1>10. CASE Tick
  <2>1. /\ db.status = "accepted" /\ Less(Off) = Off /\ db'.since = Off
        /\ db'.open = db.open /\ wall' = wall /\ talked' = talked /\ run' = run
        /\ memory'.arming = memory.arming /\ memory'.budget = Off
        /\ memory'.grace = Off /\ memory'.hold = Off
        /\ redis'.base = Off /\ redis'.held = Off /\ redis'.paused = Off
    BY <1>1, <1>10, TickFacts DEF Less
  <2>2. memory'.strays = {}
    BY <1>1, <1>10, <2>1, TickFacts
  <2>3. memory'.recon = memory.recon
    BY <1>10 DEF Tick, Memories
  <2> QED BY <1>1, <2>1, <2>2, <2>3 DEF Lobby
<1>11. CASE Crash
  BY <1>1, <1>11, CrashFacts DEF Lobby
<1> QED BY <1>3, <1>4, <1>5, <1>6, <1>7, <1>8, <1>9, <1>10, <1>11, <1>12, NextCases

\* What the meter shows of a running consultation has really passed.
LEMMA ElapsedPace ==
    ASSUME ClockTyped, Pace, db.status = "active"
    PROVE  Elapsed \in 0..MaxElapsed /\ Elapsed <= wall /\ wall \in Nat
<1> USE TypedNow
<1>1. /\ db.since \in 0..wall
      /\ redis.base # Off =>
           redis.base <= wall /\ (redis.base + redis.age <= wall \/ wall = MaxElapsed)
      /\ redis.base \in Ages /\ redis.age \in 0..MaxElapsed
  BY DEF Pace, Redises
<1>2. CASE Held
  BY <1>1, <1>2, Readings DEF Elapsed
<1>3. CASE ~Held /\ redis.base # Off
  BY <1>1, <1>3, Readings DEF Elapsed, Capped, Ages, Off
<1>4. CASE ~Held /\ redis.base = Off
  BY <1>1, <1>4, Readings DEF Elapsed, SessionAge
<1> QED BY <1>2, <1>3, <1>4

\* Time only passes, and only in Tick.
LEMMA WallGrows ==
    ASSUME ClockTyped, [ClockNext]_clockVars
    PROVE  wall' \in Nat /\ wall <= wall' /\ (~Tick => wall' = wall)
<1> USE TypedNow
<1>1. CASE Tick
  BY <1>1, TickFacts DEF Capped
<1>2. CASE UNCHANGED clockVars
  BY <1>2 DEF clockVars
<1>3. ASSUME NEW h \in Slots, Opens(h) PROVE wall' = wall
  BY <1>3, OpenFacts DEF ghosts
<1>4. ASSUME NEW h \in Slots, Moves(h) PROVE wall' = wall
  BY <1>4, PauseWriteFacts, PauseArmFacts, ResumeInsertFacts, ResumeAnchorFacts,
     EndCommitFacts, EndFlushFacts, BootFacts DEF Moves, ghosts
<1>5. ASSUME NEW a \in Participants, Comes(a) \/ SocketSteps(a) PROVE wall' = wall
  BY <1>5, ComeFacts, SocketFacts DEF ghosts
<1>6. ASSUME Recharge \/ RefusedSwitch \/ KeySteps \/ Crash PROVE wall' = wall
  BY <1>6, RechargeFacts, SwitchFacts, KeyFacts, CrashFacts DEF ghosts
<1> QED BY <1>1, <1>2, <1>3, <1>4, <1>5, <1>6, NextCases

\* A reading that a handler begins with is the meter's.
Reads(h) ==
    /\ run'[h].spent \in {Elapsed, 0}
    /\ run'[h].at # "flush"
    /\ (run'[h].at = "commit" /\ run'[h].live) =>
          db.status \in {"active", "completed"} /\ run'[h].spent = Elapsed

\* A handler that begins changes no row and no key, and reads the meter.
LEMMA ReadingTaken ==
    ASSUME ClockTyped, NEW h \in Slots, Opens(h) \/ Boot(h)
    PROVE  /\ OthersRun(h) /\ UNCHANGED <<redis, db, wall, talked>>
           /\ run'[h] = run[h] \/ Reads(h)
<1>1. /\ IdleRun.op = "idle" /\ IdleRun.at = "idle" /\ IdleRun.spent = 0
      /\ Refused.at = "idle" /\ Refused.spent = 0
  BY IdleFields, RefusedFields DEF ClockTyped
<1>2. CASE Opens(h)
  BY <1>1, <1>2, OpenFacts DEF ghosts, Outcome, PauseBegins, ResumeBegins, EndBegins, Reads
<1>3. CASE Boot(h)
  BY <1>1, <1>3, BootFacts DEF ghosts, Recovers, PauseBegins, Reads
<1> QED BY <1>2, <1>3

\* Pace is kept: anchors are readings, and readings do not exceed real time.
LEMMA PaceStep ==
    ASSUME ClockTyped, Lobby, Pace, Flushed, [ClockNext]_clockVars
    PROVE  Pace'
<1> SUFFICES ASSUME db'.status = "active" PROVE Pace'
  BY DEF Pace
<1> USE TypedNow
<1> DEFINE
      Since == db.since \in 0..wall
      Base == redis.base # Off =>
                redis.base <= wall /\ (redis.base + redis.age <= wall \/ wall = MaxElapsed)
      Spent(h) == run[h].spent <= wall
<1>1. db.status = "active" => (Since /\ Base /\ \A h \in Slots : Spent(h))
  BY DEF Pace
<1>2. IdleRun.spent = 0 /\ redis.base \in Ages /\ redis.age \in 0..MaxElapsed
      /\ \A h \in Slots : run[h].spent \in 0..MaxElapsed
  BY IdleFields DEF ClockTyped, Redises, Runs
<1>3. CASE UNCHANGED clockVars
  BY <1>1, <1>3 DEF Pace, clockVars
<1>4. ASSUME NEW h \in Slots, Opens(h) \/ Boot(h)
      PROVE  Pace'
  <2>1. /\ OthersRun(h) /\ UNCHANGED <<redis, db, wall>> /\ db.status = "active"
        /\ run'[h] = run[h] \/ run'[h].spent \in {Elapsed, 0}
    BY <1>4, ReadingTaken DEF Reads
  <2>2. Elapsed <= wall
    BY <2>1, ElapsedPace
  <2>3. \A g \in Slots : Spent(g)'
    BY <1>1, <2>1, <2>2 DEF OthersRun
  <2> QED BY <1>1, <2>1, <2>3 DEF Pace
<1>5. ASSUME NEW h \in Slots, Moves(h)
      PROVE  Pace'
  <2>1. CASE PauseWrite(h)
    <3>1. /\ OthersRun(h) /\ run'[h].spent = run[h].spent /\ wall' = wall
          /\ db'.since = db.since /\ db.status = "active"
      BY <2>1, PauseWriteFacts DEF ghosts
    <3>2. Base'
      BY <1>1, <1>2, <2>1, <3>1, PauseWriteFacts
    <3>3. \A g \in Slots : Spent(g)'
      BY <1>1, <3>1 DEF OthersRun
    <3> QED BY <1>1, <3>1, <3>2, <3>3 DEF Pace
  <2>2. CASE PauseArm(h)
    BY <1>1, <1>2, <2>2, PauseArmFacts DEF ghosts, OthersRun, Pace
  <2>3. CASE ResumeInsert(h)
    BY <1>1, <1>2, <2>3, ResumeInsertFacts DEF ghosts, OthersRun, Pace
  <2>4. CASE ResumeAnchor(h)
    BY <1>1, <1>2, <2>4, ResumeAnchorFacts DEF ghosts, OthersRun, Pace
  <2>5. CASE EndCommit(h)
    BY <2>5, EndCommitFacts DEF LiveStatuses
  <2>6. CASE EndFlush(h)
    BY <2>6, EndFlushFacts DEF Flushed, LiveStatuses
  <2> QED BY <1>4, <1>5, <2>1, <2>2, <2>3, <2>4, <2>5, <2>6 DEF Moves
<1>6. ASSUME NEW a \in Participants, Comes(a)
      PROVE  Pace'
  <2>1. run' = run /\ wall' = wall
    BY <1>6, ComeFacts DEF ghosts
  <2>2. CASE UNCHANGED <<redis, db>>
    BY <1>1, <2>1, <2>2 DEF Pace
  <2>3. CASE Starts
    <3>1. /\ redis.base = Off /\ wall = 0
          /\ \A h \in Slots : run[h] = IdleRun \/ run[h].spent = 0
      BY <2>3 DEF Starts, Lobby
    <3> QED BY <1>2, <2>1, <2>3, <3>1 DEF Starts, Pace
  <2> QED BY <1>6, <2>2, <2>3, ComeFacts
<1>12. ASSUME NEW a \in Participants, SocketSteps(a)
       PROVE  Pace'
  <2>1. UNCHANGED <<run, redis, wall>> /\ Graces(a)
    BY <1>12, SocketFacts DEF ghosts
  <2>2. db.status = "active" /\ db'.since = db.since
    BY <2>1 DEF Graces, Abandons
  <2> QED BY <1>1, <2>1, <2>2 DEF Pace
<1>7. CASE Recharge
  BY <1>1, <1>7, RechargeFacts DEF Pace, ghosts
<1>8. CASE RefusedSwitch
  BY <1>1, <1>8, SwitchFacts DEF Pace, ghosts
<1>9. CASE KeySteps
  BY <1>1, <1>9, KeyFacts DEF Pace, ghosts
<1>10. CASE Tick
  <2>1. /\ db.status = "active" /\ run' = run /\ wall' = Capped(wall + 1)
        /\ db'.since = Capped(db.since + 1)
        /\ redis'.base = redis.base /\ redis'.age = Capped(redis.age + 1)
    BY <1>1, <1>10, TickFacts DEF Off
  <2>2. Since' /\ Base'
    BY <1>1, <1>2, <2>1 DEF Capped, Ages, Off
  <2>3. wall <= wall' /\ wall' \in Nat
    BY <2>1 DEF Capped
  <2>4. \A h \in Slots : Spent(h)'
    BY <1>1, <1>2, <2>1, <2>3
  <2> QED BY <2>2, <2>4 DEF Pace
<1>11. CASE Crash
  BY <1>1, <1>2, <1>11, CrashFacts DEF Pace
<1> QED BY <1>3, <1>4, <1>5, <1>6, <1>7, <1>8, <1>9, <1>10, <1>11, <1>12, NextCases

\* Billing is kept: an end that bills first has read the meter of a running
\* consultation.
LEMMA BillingStep ==
    ASSUME ClockTyped, Lobby, Pace, Billing, [ClockNext]_clockVars
    PROVE  Billing'
<1> USE TypedNow
<1> DEFINE
      Billed == db.status = "completed" => db.billed # Off
      Bill == db.billed # Off => db.billed <= wall
      Bills(h) == (run[h].at = "commit" /\ run[h].live)
                     => (db.billed # Off \/ run[h].spent <= wall)
<1>1. Billed /\ Bill /\ \A h \in Slots : Bills(h)
  BY DEF Billing
<1>2. /\ IdleRun.at = "idle"
      /\ db.billed \in Ages /\ \A h \in Slots : run[h].spent \in 0..MaxElapsed
  BY IdleFields DEF ClockTyped, Rows, Runs
<1>3. CASE UNCHANGED clockVars
  BY <1>1, <1>3 DEF Billing, clockVars
<1>4. ASSUME NEW h \in Slots, Opens(h) \/ Boot(h)
      PROVE  Billing'
  <2>1. OthersRun(h) /\ UNCHANGED <<db, wall>> /\ (run'[h] = run[h] \/ Reads(h))
    BY <1>4, ReadingTaken
  <2>2. db.status = "active" => Elapsed <= wall
    BY ElapsedPace
  <2>3. Bills(h)'
    BY <1>1, <2>1, <2>2 DEF Reads
  <2>4. ASSUME NEW g \in Slots PROVE Bills(g)'
    BY <1>1, <2>1, <2>3 DEF OthersRun
  <2> QED BY <1>1, <2>1, <2>4 DEF Billing
<1>5. ASSUME NEW h \in Slots, Moves(h)
      PROVE  Billing'
  <2>1. CASE PauseWrite(h)
    BY <1>1, <1>2, <2>1, PauseWriteFacts DEF ghosts, OthersRun, Billing
  <2>2. CASE PauseArm(h)
    BY <1>1, <1>2, <2>2, PauseArmFacts DEF ghosts, OthersRun, Billing
  <2>3. CASE ResumeInsert(h)
    BY <1>1, <1>2, <2>3, ResumeInsertFacts DEF ghosts, OthersRun, Billing
  <2>4. CASE ResumeAnchor(h)
    BY <1>1, <1>2, <2>4, ResumeAnchorFacts DEF ghosts, OthersRun, Billing
  <2>5. CASE EndCommit(h)
    <3>1. /\ OthersRun(h) /\ run[h].at = "commit" /\ run'[h].at = "flush" /\ wall' = wall
          /\ db'.status = IF db.status \notin LiveStatuses THEN db.status
                          ELSE IF run[h].live THEN "completed" ELSE "cancelled"
          /\ db'.billed = IF run[h].live /\ db.billed = Off THEN run[h].spent ELSE db.billed
      BY <2>5, EndCommitFacts DEF ghosts
    <3>2. Billed'
      BY <1>1, <1>2, <3>1 DEF Off
    <3>3. Bill'
      BY <1>1, <3>1
    <3>4. ASSUME NEW g \in Slots PROVE Bills(g)'
      BY <1>1, <3>1 DEF OthersRun
    <3> QED BY <3>2, <3>3, <3>4 DEF Billing
  <2>6. CASE EndFlush(h)
    BY <1>1, <1>2, <2>6, EndFlushFacts DEF ghosts, OthersRun, Billing
  <2> QED BY <1>4, <1>5, <2>1, <2>2, <2>3, <2>4, <2>5, <2>6 DEF Moves
<1>6. ASSUME NEW a \in Participants, Comes(a)
      PROVE  Billing'
  BY <1>1, <1>6, ComeFacts DEF ghosts, Starts, Billing
<1>12. ASSUME NEW a \in Participants, SocketSteps(a)
       PROVE  Billing'
  <2>1. UNCHANGED <<run, wall>> /\ Graces(a)
    BY <1>12, SocketFacts DEF ghosts
  <2>2. db'.billed = db.billed /\ (db'.status = "completed" => db.status = "completed")
    BY <2>1 DEF Graces, Abandons
  <2> QED BY <1>1, <2>1, <2>2 DEF Billing
<1>7. CASE Recharge
  BY <1>1, <1>7, RechargeFacts DEF Billing, ghosts
<1>8. CASE RefusedSwitch
  BY <1>1, <1>8, SwitchFacts DEF Billing, ghosts
<1>9. CASE KeySteps
  BY <1>1, <1>9, KeyFacts DEF Billing, ghosts
<1>10. CASE Tick
  <2>1. /\ db'.status = db.status /\ db'.billed = db.billed /\ run' = run
        /\ wall' \in Nat /\ wall <= wall'
    BY <1>10, TickFacts, WallGrows
  <2> QED BY <1>1, <1>2, <2>1 DEF Billing, Ages, Off
<1>11. CASE Crash
  BY <1>1, <1>2, <1>11, CrashFacts DEF Billing
<1> QED BY <1>3, <1>4, <1>5, <1>6, <1>7, <1>8, <1>9, <1>10, <1>11, <1>12, NextCases

\* Flushed is kept: nothing reopens a consultation that is over.
LEMMA FlushedStep ==
    ASSUME ClockTyped, Flushed, [ClockNext]_clockVars
    PROVE  Flushed'
<1> USE TypedNow
<1>1. \A h \in Slots : run[h].at = "flush" => db.status \notin LiveStatuses
  BY DEF Flushed
<1>2. IdleRun.at = "idle"
  BY IdleFields DEF ClockTyped
<1>3. CASE UNCHANGED clockVars
  BY <1>1, <1>3 DEF Flushed, clockVars
<1>4. ASSUME NEW h \in Slots, Opens(h) \/ Boot(h)
      PROVE  Flushed'
  BY <1>1, <1>4, ReadingTaken DEF Reads, OthersRun, Flushed
<1>5. ASSUME NEW h \in Slots, Moves(h)
      PROVE  Flushed'
  <2>1. CASE PauseWrite(h)
    BY <1>1, <1>2, <2>1, PauseWriteFacts DEF OthersRun, Flushed
  <2>2. CASE PauseArm(h)
    BY <1>1, <1>2, <2>2, PauseArmFacts DEF OthersRun, Flushed
  <2>3. CASE ResumeInsert(h)
    BY <1>1, <1>2, <2>3, ResumeInsertFacts DEF OthersRun, Flushed
  <2>4. CASE ResumeAnchor(h)
    BY <1>1, <1>2, <2>4, ResumeAnchorFacts DEF OthersRun, Flushed
  <2>5. CASE EndCommit(h)
    BY <2>5, EndCommitFacts DEF LiveStatuses, Flushed
  <2>6. CASE EndFlush(h)
    BY <1>1, <1>2, <2>6, EndFlushFacts DEF OthersRun, Flushed
  <2> QED BY <1>4, <1>5, <2>1, <2>2, <2>3, <2>4, <2>5, <2>6 DEF Moves
<1>6. ASSUME NEW a \in Participants, Comes(a)
      PROVE  Flushed'
  BY <1>1, <1>6, ComeFacts DEF Starts, LiveStatuses, Flushed
<1>7. CASE Recharge \/ RefusedSwitch \/ KeySteps \/ Tick
  BY <1>1, <1>7, RechargeFacts, SwitchFacts, KeyFacts, TickFacts DEF Flushed
<1>8. CASE Crash
  BY <1>1, <1>2, <1>8, CrashFacts DEF Flushed
<1>9. ASSUME NEW a \in Participants, SocketSteps(a)
      PROVE  Flushed'
  <2>1. run' = run /\ Graces(a)
    BY <1>9, SocketFacts
  <2>2. db'.status \in LiveStatuses => db.status \in LiveStatuses
    BY <2>1 DEF Graces, Abandons, LiveStatuses
  <2> QED BY <1>1, <2>1, <2>2 DEF Flushed
<1> QED BY <1>3, <1>4, <1>5, <1>6, <1>7, <1>8, <1>9, NextCases

\* Initially no time has passed.
LEMMA RealTimeInit == Bounds /\ ClockInit => RealTime
<1> SUFFICES ASSUME Bounds, ClockInit PROVE RealTime
  OBVIOUS
<1>1. ClockTyped
  BY ClockTypedInit
<1>2. /\ db.status = "accepted" /\ db.billed = Off /\ db.since = Off /\ ~db.open
      /\ \A h \in Slots : run[h] = IdleRun
      /\ IdleRun.at = "idle"
  BY IdleFields DEF ClockInit
<1>3. Lobby
  BY <1>2 DEF ClockInit, Lobby, NoTimers
<1> QED BY <1>1, <1>2, <1>3 DEF RealTime, Pace, Billing, Flushed

\* RealTime is inductive.
LEMMA RealTimeStep == ~FromLobby /\ RealTime /\ [ClockNext]_clockVars => RealTime'
  BY ClockTypedStep, LobbyStep, PaceStep, BillingStep, FlushedStep DEF RealTime

\* When nobody pauses or resumes before the start, the meter never counts more
\* time than has passed, and no consultation is billed for more: whatever
\* overlaps, and wherever the process crashes.
THEOREM BilledForRealTime == ~FromLobby => (ClockSpec => []NeverBeyondRealTime)
<1> SUFFICES ASSUME ~FromLobby PROVE ClockSpec => []NeverBeyondRealTime
  OBVIOUS
<1>1. ClockInit => RealTime
  BY ClockAssumption, RealTimeInit
<1>2. RealTime /\ [ClockNext]_clockVars => RealTime'
  BY RealTimeStep
<1>3. RealTime => NeverBeyondRealTime
  <2> SUFFICES ASSUME RealTime PROVE NeverBeyondRealTime
    OBVIOUS
  <2>1. db.status = "active" => Elapsed <= wall
    BY ElapsedPace DEF RealTime
  <2> QED BY <2>1 DEF RealTime, Billing, NeverBeyondRealTime
<1> QED BY <1>1, <1>2, <1>3, PTL DEF ClockSpec

-----------------------------------------------------------------------------
(* The meter covers what was talked.                                       *)

\* No party pauses by hand, no socket is lost and nothing is recharged: a pause
\* by hand and a disconnect grace that runs out leave no anchor, so the next
\* session starts the meter anew, and with a recharge a budget that was
\* exhausted is there again.
Plain ==
    /\ ~FromLobby
    /\ "manual" \notin Commands /\ "recharge" \notin Commands /\ "drop" \notin Commands
    /\ Budget \in 0..MaxElapsed

NoManual == \A h \in Slots : run[h].op # "manual"

BudgetSame == db.budget = Budget

NoAbsence == leaving = {} /\ \A a \in Participants : leave[a] = Off

\* A billing hold has anchored the meter.
HeldIsBased == Held => redis.base # Off

\* What the meter shows, and what a handler has read of it, covers the talk;
\* before the first anchor the session that is open is the only one so far.
Covered ==
    /\ talked <= Elapsed
    /\ \A h \in Slots :
          run[h].at \in {"write", "insert", "anchor"} => talked <= run[h].spent

FirstSession ==
    /\ ~db.open => Remaining = 0
    /\ \A t \in Timers : t + db.since >= db.budget
    /\ \A h \in Slots :
          /\ run[h].op # "refused"
          /\ run[h].op = "broke" => Remaining = 0
          /\ run[h].at = "insert" => Remaining > 0

Cover == db.status = "active" => Covered /\ (redis.base = Off => FirstSession)

TalkInv == RealTime /\ NoManual /\ BudgetSame /\ NoAbsence /\ HeldIsBased /\ Cover

\* No pause by hand begins and the budget stays.
LEMMA PlainStep ==
    ASSUME ClockTyped, Plain, NoManual, BudgetSame, [ClockNext]_clockVars
    PROVE  NoManual' /\ BudgetSame'
<1> USE TypedNow
<1>1. IdleRun.op = "idle" /\ Refused.op = "refused"
  BY IdleFields, RefusedFields DEF ClockTyped
<1>2. CASE UNCHANGED clockVars
  BY <1>2 DEF NoManual, BudgetSame, clockVars
<1>3. ASSUME NEW h \in Slots, Opens(h) \/ Boot(h)
      PROVE  NoManual' /\ BudgetSame'
  <2>1. OthersRun(h) /\ UNCHANGED db
    BY <1>3, ReadingTaken
  <2>2. run'[h].op # "manual"
    <3>1. CASE Opens(h)
      BY <1>1, <3>1, OpenFacts DEF Outcome, PauseBegins, ResumeBegins, EndBegins, NoManual, Plain
    <3>2. CASE Boot(h)
      BY <1>1, <3>2, BootFacts DEF Recovers, PauseBegins, NoManual
    <3> QED BY <1>3, <3>1, <3>2
  <2> QED BY <2>1, <2>2 DEF OthersRun, NoManual, BudgetSame
<1>4. ASSUME NEW h \in Slots, Moves(h)
      PROVE  NoManual' /\ BudgetSame'
  <2>1. CASE PauseWrite(h)
    BY <2>1, PauseWriteFacts DEF OthersRun, NoManual, BudgetSame
  <2>2. CASE PauseArm(h)
    BY <1>1, <2>2, PauseArmFacts DEF OthersRun, NoManual, BudgetSame
  <2>3. CASE ResumeInsert(h)
    BY <2>3, ResumeInsertFacts DEF OthersRun, NoManual, BudgetSame
  <2>4. CASE ResumeAnchor(h)
    BY <1>1, <2>4, ResumeAnchorFacts DEF OthersRun, NoManual, BudgetSame
  <2>5. CASE EndCommit(h)
    BY <2>5, EndCommitFacts DEF OthersRun, NoManual, BudgetSame
  <2>6. CASE EndFlush(h)
    BY <1>1, <2>6, EndFlushFacts DEF OthersRun, NoManual, BudgetSame
  <2> QED BY <1>3, <1>4, <2>1, <2>2, <2>3, <2>4, <2>5, <2>6 DEF Moves
<1>5. ASSUME NEW a \in Participants, Comes(a)
      PROVE  NoManual' /\ BudgetSame'
  BY <1>5, ComeFacts DEF Starts, NoManual, BudgetSame
<1>6. CASE Recharge
  BY <1>6, RechargeFacts DEF Plain
<1>7. CASE RefusedSwitch \/ KeySteps \/ Tick
  BY <1>7, SwitchFacts, KeyFacts, TickFacts DEF NoManual, BudgetSame
<1>8. CASE Crash
  BY <1>1, <1>8, CrashFacts DEF NoManual, BudgetSame
<1>9. ASSUME NEW a \in Participants, SocketSteps(a)
      PROVE  NoManual' /\ BudgetSame'
  <2>1. run' = run /\ Graces(a)
    BY <1>9, SocketFacts
  <2>2. db'.budget = db.budget
    BY <2>1 DEF Graces, Abandons
  <2> QED BY <2>1, <2>2 DEF NoManual, BudgetSame
<1> QED BY <1>2, <1>3, <1>4, <1>5, <1>6, <1>7, <1>8, <1>9, NextCases

\* No disconnect grace is armed.
LEMMA NoAbsenceStep ==
    ASSUME ClockTyped, Plain, NoAbsence, [ClockNext]_clockVars
    PROVE  NoAbsence'
<1> USE TypedNow
<1>1. CASE UNCHANGED clockVars
  BY <1>1 DEF NoAbsence, clockVars
<1>2. ASSUME NEW h \in Slots, Opens(h) \/ Moves(h)
      PROVE  NoAbsence'
  BY <1>2, OpenFacts, PauseWriteFacts, PauseArmFacts, ResumeInsertFacts, ResumeAnchorFacts,
     EndCommitFacts, EndFlushFacts, BootFacts DEF Moves, people, NoAbsence
<1>3. ASSUME NEW a \in Participants, Comes(a)
      PROVE  NoAbsence'
  BY <1>3, ComeFacts DEF absence, NoAbsence
<1>4. ASSUME NEW a \in Participants, SocketSteps(a)
      PROVE  NoAbsence'
  BY <1>4 DEF SocketSteps, LoseSocket, Send, PauseBilling, ComeBack, LeaveFires, NoAbsence,
     Plain, Off
<1>5. CASE Recharge \/ RefusedSwitch \/ KeySteps
  BY <1>5, RechargeFacts, SwitchFacts, KeyFacts DEF people, NoAbsence
<1>6. CASE Tick
  BY <1>6, TickFacts DEF NoAbsence, Less
<1>7. CASE Crash
  BY <1>7, CrashFacts DEF NoAbsence, NoLeave
<1> QED BY <1>1, <1>2, <1>3, <1>4, <1>5, <1>6, <1>7, NextCases

\* HeldIsBased is kept: who places a hold writes the anchor with it.
LEMMA HeldIsBasedStep ==
    ASSUME ClockTyped, HeldIsBased, Lobby, [ClockNext]_clockVars
    PROVE  HeldIsBased'
<1> USE TypedNow DEF Held
<1>1. /\ redis.held # Off => redis.base # Off
      /\ \A h \in Slots : run[h].spent \in 0..MaxElapsed
  BY DEF HeldIsBased, Runs
<1>2. CASE UNCHANGED clockVars
  BY <1>1, <1>2 DEF HeldIsBased, clockVars
<1>3. ASSUME NEW h \in Slots, Opens(h) \/ Boot(h)
      PROVE  HeldIsBased'
  BY <1>1, <1>3, ReadingTaken DEF HeldIsBased
<1>4. ASSUME NEW h \in Slots, Moves(h)
      PROVE  HeldIsBased'
  <2>1. CASE PauseWrite(h)
    BY <1>1, <2>1, PauseWriteFacts DEF HeldIsBased, Off
  <2>2. CASE PauseArm(h) \/ ResumeInsert(h) \/ EndCommit(h)
    BY <1>1, <2>2, PauseArmFacts, ResumeInsertFacts, EndCommitFacts DEF HeldIsBased
  <2>3. CASE ResumeAnchor(h) \/ EndFlush(h)
    BY <2>3, ResumeAnchorFacts, EndFlushFacts DEF HeldIsBased
  <2> QED BY <1>3, <1>4, <2>1, <2>2, <2>3 DEF Moves
<1>5. ASSUME NEW a \in Participants, Comes(a)
      PROVE  HeldIsBased'
  BY <1>1, <1>5, ComeFacts DEF Starts, HeldIsBased
<1>6. CASE Recharge \/ RefusedSwitch \/ Crash
  BY <1>1, <1>6, RechargeFacts, SwitchFacts, CrashFacts DEF HeldIsBased
<1>7. CASE KeySteps \/ Tick
  BY <1>1, <1>7, KeyFacts, TickFacts DEF HeldIsBased
<1>8. ASSUME NEW a \in Participants, SocketSteps(a)
      PROVE  HeldIsBased'
  BY <1>1, <1>8, SocketFacts DEF HeldIsBased
<1> QED BY <1>2, <1>3, <1>4, <1>5, <1>6, <1>7, <1>8, NextCases

\* The meter reads the anchor and the hold, or the latest session.
LEMMA SameReading ==
    ASSUME ClockTyped, redis' = redis, db'.since = db.since
    PROVE  Elapsed' = Elapsed /\ (db'.budget = db.budget => Remaining' = Remaining)
  BY DEF Elapsed, Remaining, Held, SessionAge

\* A hold that goes with its anchor in place gives the meter back its time.
LEMMA HoldGone ==
    ASSUME ClockTyped, redis'.base = redis.base, redis'.age = redis.age, db'.since = db.since,
           db'.budget = db.budget, redis'.held \in {redis.held, Off}, HeldIsBased
    PROVE  /\ Elapsed <= Elapsed' /\ Elapsed' \in Nat
           /\ redis.base = Off => Elapsed' = Elapsed /\ Remaining' = Remaining
<1> USE TypedNow
<1>1. redis.base \in Ages /\ redis.age \in 0..MaxElapsed /\ db.since \in Ages
      /\ db.budget \in Nat
  BY DEF Redises, Rows
<1>2. redis.held # Off => redis.base # Off
  BY DEF HeldIsBased, Held
<1>3. CASE redis.base = Off
  BY <1>1, <1>2, <1>3 DEF Elapsed, Remaining, Held, SessionAge,
     Ages, Off
<1>4. CASE redis.base # Off
  BY <1>1, <1>4 DEF Elapsed, Held, SessionAge, Capped, Ages, Off
<1> QED BY <1>3, <1>4

\* What a handler begins with, while a first session runs without an anchor.
LEMMA FirstOpens ==
    ASSUME ClockTyped, HeldIsBased, NEW h \in Slots, Opens(h),
           redis.base = Off, FirstSession, db.status = "active"
    PROVE  /\ run'[h].op # "refused"
           /\ run'[h].op = "broke" => Remaining = 0
           /\ run'[h].at = "insert" => Remaining > 0
<1> USE TypedNow
<1>1. /\ IdleRun.op = "idle" /\ IdleRun.at = "idle"
  BY IdleFields DEF ClockTyped
<1>2. ~Held
  BY DEF HeldIsBased
<1>3. Outcome(h)
  BY OpenFacts
<1>4. Exhausted(h) => Remaining = 0
  <2>1. db.since \in Ages /\ db.budget \in Nat
    BY DEF Rows
  <2>2. Elapsed = SessionAge
    BY <1>2 DEF Elapsed
  <2>3. 0 \in Timers => db.since >= db.budget
    BY <2>1 DEF FirstSession, Ages, Off
  <2>4. db.since >= db.budget => Remaining = 0
    BY <2>1, <2>2 DEF Remaining, SessionAge, Off, Ages
  <2> QED BY <2>3, <2>4 DEF Exhausted, FirstSession
<1>5. CASE run'[h] = run[h] \/ run'[h] = IdleRun
  BY <1>1, <1>5 DEF FirstSession
<1>6. CASE run'[h] = Refused /\ Held
  BY <1>2, <1>6
<1>7. ASSUME NEW reason \in PauseReasons, NEW delay, PauseBegins(h, reason, delay),
             reason = "broke" => Exhausted(h)
      PROVE  /\ run'[h].op # "refused"
             /\ run'[h].op = "broke" => Remaining = 0
             /\ run'[h].at = "insert" => Remaining > 0
  BY <1>4, <1>7 DEF PauseBegins, PauseReasons
<1>8. CASE ResumeBegins(h)
  BY <1>8 DEF ResumeBegins
<1>9. CASE EndBegins(h)
  BY <1>9 DEF EndBegins
<1> QED BY <1>3, <1>5, <1>6, <1>7, <1>8, <1>9 DEF Outcome

\* A handler that begins has read what covers the talk.
LEMMA CoverOpens ==
    ASSUME ClockTyped, Pace, HeldIsBased, Cover, NEW h \in Slots, Opens(h)
    PROVE  Cover'
<1> SUFFICES ASSUME db'.status = "active" PROVE Cover'
  BY DEF Cover
<1> USE TypedNow
<1>1. /\ OthersRun(h) /\ redis' = redis /\ db' = db /\ wall' = wall /\ talked' = talked
      /\ run'[h] = run[h] \/ run'[h] = IdleRun \/ run'[h] = Refused \/ run'[h].spent = Elapsed
  BY OpenFacts DEF ghosts, Outcome, PauseBegins, ResumeBegins, EndBegins
<1>2. Covered /\ (redis.base = Off => FirstSession) /\ db.status = "active"
  BY <1>1 DEF Cover
<1>3. Elapsed' = Elapsed /\ Remaining' = Remaining
  BY <1>1, SameReading
<1>4. Covered'
  <2>1. IdleRun.at = "idle" /\ Refused.at = "idle"
    BY IdleFields, RefusedFields DEF ClockTyped
  <2>2. ASSUME NEW g \in Slots, run'[g].at \in {"write", "insert", "anchor"}
        PROVE  talked <= run'[g].spent
    BY <1>1, <1>2, <2>1, <2>2 DEF OthersRun, Covered
  <2> QED BY <1>1, <1>2, <1>3, <2>2 DEF Covered
<1>5. ASSUME redis.base = Off
      PROVE  FirstSession'
  <2>1. \A t \in Timers' : t + db.since >= db.budget
    <3>1. db.since \in Nat /\ db.budget \in Nat
      BY <1>2 DEF Rows, Pace
    <3>2. Remaining > 0 => Remaining + db.since >= db.budget
      BY <1>5, <3>1 DEF Remaining, Elapsed, SessionAge, Off, HeldIsBased
    <3> QED BY <1>2, <1>5, <3>2, OpenFacts DEF FirstSession
  <2>2. ASSUME NEW g \in Slots
        PROVE  /\ run'[g].op # "refused"
               /\ run'[g].op = "broke" => Remaining = 0
               /\ run'[g].at = "insert" => Remaining > 0
    BY <1>1, <1>2, <1>5, FirstOpens DEF OthersRun, FirstSession
  <2> QED BY <1>1, <1>2, <1>3, <1>5, <2>1, <2>2 DEF FirstSession
<1> QED BY <1>1, <1>4, <1>5 DEF Cover

\* The steps of a handler anchor the meter at such a reading, or leave it.
LEMMA CoverMoves ==
    ASSUME ClockTyped, Pace, Flushed, NoManual, HeldIsBased, Cover, NEW h \in Slots, Moves(h)
    PROVE  Cover'
<1> SUFFICES ASSUME db'.status = "active" PROVE Cover'
  BY DEF Cover
<1> USE TypedNow
<1> DEFINE
      Talk(n, g) == run[g].at \in {"write", "insert", "anchor"} => n <= run[g].spent
      TheFirst(g) == /\ run[g].op # "refused"
                     /\ run[g].op = "broke" => Remaining = 0
                     /\ run[g].at = "insert" => Remaining > 0
<1>1. db.status = "active" =>
        /\ talked <= Elapsed /\ \A g \in Slots : Talk(talked, g)
        /\ redis.base = Off =>
             /\ ~db.open => Remaining = 0
             /\ \A t \in Timers : t + db.since >= db.budget
             /\ \A g \in Slots : TheFirst(g)
  BY DEF Cover, Covered, FirstSession
<1>2. /\ IdleRun.op = "idle" /\ IdleRun.at = "idle"
      /\ redis.base \in Ages /\ redis.age \in 0..MaxElapsed /\ db.since \in Ages
      /\ db.budget \in Nat
      /\ \A g \in Slots : run[g].spent \in 0..MaxElapsed
  BY IdleFields DEF ClockTyped, Redises, Rows, Runs
<1>3. CASE PauseWrite(h)
  <2>1. /\ OthersRun(h) /\ run[h].at = "write" /\ run'[h].at = "arm"
        /\ run'[h].op = run[h].op /\ run'[h].spent = run[h].spent
        /\ db.status = "active" /\ db'.since = db.since /\ db'.budget = db.budget
        /\ db'.open = (db.open /\ ~run[h].live) /\ memory' = memory /\ talked' = talked
        /\ run[h].op \in {"hold", "dialog", "broke"}
    BY <1>3, PauseWriteFacts DEF ghosts, NoManual, PauseReasons
  <2>2. \A g \in Slots : Talk(talked, g)'
    BY <1>1, <2>1 DEF OthersRun
  <2>3. CASE run[h].op \in {"hold", "dialog"}
    <3>1. redis'.base = run[h].spent /\ redis'.held = Ttl /\ Ttl # Off
      BY <1>3, <2>3, PauseWriteFacts DEF ClockTyped, Bounds, Off
    <3>2. Elapsed' = run[h].spent /\ redis'.base # Off
      BY <1>2, <3>1 DEF Elapsed, Held, Off
    <3> QED BY <1>1, <2>1, <2>2, <3>2 DEF Cover, Covered
  <2>4. CASE run[h].op = "broke"
    <3>1. redis'.base = redis.base /\ redis'.age = redis.age /\ redis'.held = Off
      BY <1>3, <2>4, PauseWriteFacts
    <3>2. /\ Elapsed <= Elapsed' /\ Elapsed' \in Nat
          /\ redis.base = Off => Remaining' = Remaining
      BY <2>1, <3>1, HoldGone
    <3>3. talked <= Elapsed'
      BY <1>1, <2>1, <3>2, Readings
    <3>4. ASSUME redis.base = Off
          PROVE  FirstSession'
      <4>1. Remaining = 0 /\ Timers' = Timers
        BY <1>1, <2>1, <2>4, <3>4 DEF Timers
      <4> QED BY <1>1, <2>1, <3>2, <3>4, <4>1 DEF FirstSession, OthersRun
    <3> QED BY <2>1, <2>2, <3>1, <3>3, <3>4 DEF Cover, Covered
  <2> QED BY <2>1, <2>3, <2>4
<1>4. CASE PauseArm(h)
  <2>1. /\ OthersRun(h) /\ run'[h] = IdleRun /\ redis' = redis /\ db' = db
        /\ talked' = talked /\ Timers' = Timers
    BY <1>4, PauseArmFacts DEF ghosts, Timers
  <2>2. Elapsed' = Elapsed /\ Remaining' = Remaining
    BY <2>1, SameReading
  <2>3. Covered'
    BY <1>1, <1>2, <2>1, <2>2 DEF Covered, OthersRun
  <2>4. ASSUME redis.base = Off PROVE FirstSession'
    BY <1>1, <1>2, <2>1, <2>2, <2>4 DEF FirstSession, OthersRun
  <2> QED BY <2>1, <2>3, <2>4 DEF Cover
<1>5. CASE ResumeInsert(h)
  <2>1. /\ OthersRun(h) /\ run[h].at = "insert" /\ run'[h].at = "anchor"
        /\ run'[h].op = run[h].op /\ run'[h].spent = run[h].spent
        /\ redis' = redis /\ memory' = memory /\ talked' = talked
        /\ db.status = "active" /\ db'.budget = db.budget /\ db'.open
        /\ db'.since = IF db.open THEN db.since ELSE 0
    BY <1>5, ResumeInsertFacts DEF ghosts
  <2>2. \A g \in Slots : Talk(talked, g)'
    BY <1>1, <2>1 DEF OthersRun
  <2>3. CASE redis.base # Off
    <3>1. Elapsed' = Elapsed
      BY <2>1, <2>3 DEF Elapsed, Held
    <3> QED BY <1>1, <2>1, <2>2, <2>3, <3>1 DEF Cover, Covered
  <2>4. CASE redis.base = Off
    <3>1. db.open /\ db'.since = db.since
      BY <1>1, <2>1, <2>4, Readings
    <3>2. Elapsed' = Elapsed /\ Remaining' = Remaining /\ Timers' = Timers
      BY <2>1, <3>1, SameReading DEF Timers
    <3>3. FirstSession'
      BY <1>1, <2>1, <2>4, <3>1, <3>2 DEF FirstSession, OthersRun
    <3> QED BY <1>1, <2>1, <2>2, <3>2, <3>3 DEF Cover, Covered
  <2> QED BY <2>3, <2>4
<1>6. CASE ResumeAnchor(h)
  <2>1. /\ OthersRun(h) /\ run[h].at = "anchor" /\ run'[h] = IdleRun /\ db' = db
        /\ redis'.base = run[h].spent /\ redis'.age = 0 /\ redis'.held = Off
        /\ talked' = talked
    BY <1>6, ResumeAnchorFacts DEF ghosts
  <2>2. Elapsed' = run[h].spent /\ redis'.base # Off
    BY <1>2, <2>1 DEF Elapsed, Held, Capped, Off
  <2> QED BY <1>1, <1>2, <2>1, <2>2 DEF Cover, Covered, OthersRun
<1>7. CASE EndCommit(h)
  BY <1>7, EndCommitFacts DEF LiveStatuses
<1>8. CASE EndFlush(h)
  BY <1>8, EndFlushFacts DEF Flushed, LiveStatuses
<1>9. CASE Boot(h)
  <2>1. /\ OthersRun(h) /\ redis' = redis /\ db' = db /\ talked' = talked /\ Recovers(h)
        /\ db.status = "active"
    BY <1>9, BootFacts DEF ghosts
  <2>2. Elapsed' = Elapsed /\ Remaining' = Remaining
    BY <2>1, SameReading
  <2>3. Timers' \subseteq Timers
    BY <2>1 DEF Recovers, Rearms, Timers
  <2>4. run'[h] = run[h] \/ (PauseBegins(h, "broke", redis.paused) /\ Remaining = 0)
    BY <2>1 DEF Recovers
  <2>5. Covered'
    BY <1>1, <2>1, <2>2, <2>4 DEF Covered, OthersRun, PauseBegins
  <2>6. ASSUME redis.base = Off PROVE FirstSession'
    BY <1>1, <2>1, <2>2, <2>3, <2>4, <2>6 DEF FirstSession, OthersRun, PauseBegins
  <2> QED BY <2>1, <2>5, <2>6 DEF Cover
<1> QED BY <1>3, <1>4, <1>5, <1>6, <1>7, <1>8, <1>9 DEF Moves

\* The meter advances with the talk.
LEMMA CoverTick ==
    ASSUME ClockTyped, Pace, BudgetSame, Plain, HeldIsBased, Cover, Tick
    PROVE  Cover'
<1> SUFFICES ASSUME db'.status = "active" PROVE Cover'
  BY DEF Cover
<1> USE TypedNow
<1>1. /\ redis.base \in Ages /\ redis.age \in 0..MaxElapsed
      /\ db.budget \in Nat /\ db.budget <= MaxElapsed
  BY DEF Redises, Rows, BudgetSame, Plain
<1>2. /\ db.status = "active" /\ run' = run /\ \A h \in Slots : run[h] = IdleRun
      /\ redis'.base = redis.base /\ redis'.age = Capped(redis.age + 1)
      /\ Held' = Held /\ db'.open = db.open /\ db'.budget = db.budget
      /\ db'.since = Capped(db.since + 1) /\ db.since \in 0..MaxElapsed
      /\ talked' = IF db.open /\ ~Held THEN Capped(talked + 1) ELSE talked
  BY TickFacts DEF ClockQuiet, Held, Pace, Off
<1>3. /\ IdleRun.op = "idle" /\ IdleRun.at = "idle"
  BY IdleFields DEF ClockTyped
<1>4. /\ talked <= Elapsed
      /\ redis.base = Off => FirstSession
  BY <1>2 DEF Cover, Covered
<1>5. Elapsed \in 0..MaxElapsed /\ Elapsed' \in 0..MaxElapsed /\ Elapsed <= Elapsed'
      /\ (~Held => Elapsed' = Capped(Elapsed + 1))
  <2>1. Elapsed \in 0..MaxElapsed
    BY Readings
  <2>2. CASE Held
    BY <1>1, <1>2, <2>1, <2>2 DEF Elapsed
  <2>3. CASE ~Held /\ redis.base # Off
    <3>1. redis.base \in 0..MaxElapsed
      BY <1>1, <2>3 DEF Ages, Off
    <3>2. /\ Elapsed = Capped(redis.base + redis.age)
          /\ Elapsed' = Capped(redis.base + Capped(redis.age + 1))
      BY <1>2, <2>3 DEF Elapsed
    <3>3. Capped(redis.base + Capped(redis.age + 1)) = Capped(Capped(redis.base + redis.age) + 1)
      BY <1>1, <3>1 DEF Capped
    <3>4. Capped(Elapsed + 1) \in 0..MaxElapsed /\ Elapsed <= Capped(Elapsed + 1)
      BY <2>1 DEF Capped
    <3> QED BY <2>1, <3>2, <3>3, <3>4
  <2>4. CASE ~Held /\ redis.base = Off
    <3>1. Elapsed = db.since /\ Elapsed' = Capped(db.since + 1)
      BY <1>2, <2>4 DEF Elapsed, SessionAge, Capped, Off
    <3> QED BY <1>2, <2>1, <3>1 DEF Capped
  <2> QED BY <2>2, <2>3, <2>4
<1>6. talked' <= Elapsed'
  BY <1>2, <1>4, <1>5 DEF Capped
<1>7. Covered'
  BY <1>2, <1>3, <1>6 DEF Covered
<1>8. ASSUME redis.base = Off PROVE FirstSession'
  <2>1. ASSUME ~db.open PROVE Remaining' = 0
    <3>1. Remaining = 0
      BY <1>4, <1>8, <2>1 DEF FirstSession
    <3>2. Elapsed >= db.budget
      BY <1>1, <1>5, <3>1 DEF Remaining
    <3> QED BY <1>1, <1>2, <1>5, <3>2 DEF Remaining
  <2>2. ASSUME NEW t \in Timers'
        PROVE  t + db'.since >= db'.budget
    <3>1. memory \in Memories /\ 0 \notin Timers
      BY TickFacts DEF Timers, Off
    <3>2. \E s \in Timers : t = s - 1
      BY <2>2, TickFacts, LessFacts DEF Timers, Memories
    <3>3. PICK s \in Timers : t = s - 1
      BY <3>2
    <3>4. s \in Nat /\ s # 0
      BY <3>1 DEF Timers, Memories, Countdown, Off
    <3>5. s + db.since >= db.budget
      BY <1>4, <1>8 DEF FirstSession
    <3> QED BY <1>1, <1>2, <3>3, <3>4, <3>5 DEF Capped
  <2> QED BY <1>2, <1>3, <2>1, <2>2 DEF FirstSession
<1> QED BY <1>2, <1>7, <1>8 DEF Cover

\* Cover is kept by every step.
LEMMA CoverStep ==
    ASSUME TalkInv, Plain, [ClockNext]_clockVars
    PROVE  Cover'
<1> USE TypedNow
<1>1. ClockTyped /\ Lobby /\ Pace /\ Flushed /\ NoManual /\ BudgetSame /\ HeldIsBased /\ Cover
      /\ NoAbsence
  BY DEF TalkInv, RealTime
<1>2. SUFFICES ASSUME db'.status = "active" PROVE Cover'
  BY DEF Cover
<1>3. /\ IdleRun.op = "idle" /\ IdleRun.at = "idle" /\ IdleRun.spent = 0
  BY <1>1, IdleFields DEF ClockTyped
<1>4. CASE UNCHANGED clockVars
  <2>1. Elapsed' = Elapsed /\ Remaining' = Remaining /\ Timers' = Timers
    BY <1>4 DEF clockVars, Elapsed, Remaining, Held, SessionAge, Timers
  <2> QED BY <1>1, <1>4, <2>1 DEF clockVars, Cover, Covered, FirstSession
<1>5. ASSUME NEW h \in Slots, Opens(h) \/ Moves(h)
      PROVE  Cover'
  BY <1>1, <1>5, CoverOpens, CoverMoves
<1>6. ASSUME NEW a \in Participants, Comes(a)
      PROVE  Cover'
  <2>1. run' = run /\ talked' = talked /\ Timers' \subseteq Timers
    BY <1>1, <1>6, ComeFacts DEF ghosts, Rearms, Timers
  <2>2. CASE UNCHANGED <<redis, db>>
    <3>1. Elapsed' = Elapsed /\ Remaining' = Remaining
      BY <1>1, <2>2, SameReading
    <3> QED BY <1>1, <1>2, <2>1, <2>2, <3>1 DEF Cover, Covered, FirstSession
  <2>3. CASE Starts
    <3>1. /\ talked = 0 /\ redis'.base = Off /\ db'.open
          /\ Timers = {}
          /\ \A h \in Slots : run[h] = IdleRun \/ (run[h].op = "end" /\ run[h].at = "commit")
      BY <1>1, <2>3 DEF Starts, Lobby, Timers
    <3>2. Elapsed' = 0
      BY <2>3, <3>1 DEF Starts, Elapsed, Held, SessionAge, Off
    <3> QED BY <1>3, <2>1, <3>1, <3>2 DEF Cover, Covered, FirstSession
  <2> QED BY <1>1, <1>6, <2>2, <2>3, ComeFacts
<1>12. ASSUME NEW a \in Participants, SocketSteps(a)
       PROVE  Cover'
  <2>1. UNCHANGED <<run, redis, talked>> /\ Graces(a)
    BY <1>1, <1>12, SocketFacts DEF ghosts
  <2>2. db' = db /\ Timers' \subseteq Timers
    BY <1>1, <2>1 DEF Graces, Disarms, Rearms, Timers, LeaveFires, NoAbsence, Off
  <2>3. Elapsed' = Elapsed /\ Remaining' = Remaining
    BY <1>1, <2>1, <2>2, SameReading
  <2> QED BY <1>1, <1>2, <2>1, <2>2, <2>3 DEF Cover, Covered, FirstSession
<1>7. CASE Recharge
  BY <1>1, <1>7, RechargeFacts DEF Plain
<1>8. CASE RefusedSwitch
  <2>1. run' = run /\ talked' = talked /\ redis' = redis /\ db' = db /\ Timers' \subseteq Timers
    BY <1>1, <1>8, SwitchFacts DEF ghosts, Timers
  <2>2. Elapsed' = Elapsed /\ Remaining' = Remaining
    BY <1>1, <2>1, SameReading
  <2> QED BY <1>1, <1>2, <2>1, <2>2 DEF Cover, Covered, FirstSession
<1>9. CASE KeySteps
  <2>1. /\ run' = run /\ talked' = talked /\ db' = db /\ Timers' = Timers
        /\ redis'.base = redis.base
    BY <1>1, <1>9, KeyFacts DEF ghosts, Timers
  <2>2. /\ Elapsed <= Elapsed' /\ Elapsed' \in Nat
        /\ redis.base = Off => Remaining' = Remaining
    BY <1>1, <1>9, <2>1, KeyFacts, HoldGone
  <2>3. talked <= Elapsed'
    BY <1>1, <1>2, <2>1, <2>2, Readings DEF Cover, Covered
  <2> QED BY <1>1, <1>2, <2>1, <2>2, <2>3 DEF Cover, Covered, FirstSession
<1>10. CASE Tick
  BY <1>1, <1>10, CoverTick
<1>11. CASE Crash
  <2>1. /\ \A h \in Slots : run'[h] = IdleRun
        /\ talked' = talked /\ redis' = redis /\ db' = db /\ Timers' = {}
    BY <1>1, <1>11, CrashFacts DEF Timers
  <2>2. Elapsed' = Elapsed /\ Remaining' = Remaining
    BY <1>1, <2>1, SameReading
  <2> QED BY <1>1, <1>2, <1>3, <2>1, <2>2 DEF Cover, Covered, FirstSession
<1> QED BY <1>4, <1>5, <1>6, <1>7, <1>8, <1>9, <1>10, <1>11, <1>12, NextCases

\* Initially nothing was said.
LEMMA TalkInit == Bounds /\ Plain /\ ClockInit => TalkInv
<1> SUFFICES ASSUME Bounds, Plain, ClockInit PROVE TalkInv
  OBVIOUS
<1>1. RealTime
  BY RealTimeInit
<1>2. \A h \in Slots : run[h].op # "manual"
  BY IdleFields DEF ClockInit
<1>3. db.status = "accepted" /\ db.budget = Budget /\ redis.held = Off
  BY DEF ClockInit
<1>4. NoAbsence
  BY DEF ClockInit, NoLeave, NoAbsence
<1> QED BY <1>1, <1>2, <1>3, <1>4 DEF TalkInv, NoManual, BudgetSame, HeldIsBased, Held, Cover

\* TalkInv is inductive.
LEMMA TalkStep == Plain /\ TalkInv /\ [ClockNext]_clockVars => TalkInv'
<1> SUFFICES ASSUME Plain, TalkInv, [ClockNext]_clockVars PROVE TalkInv'
  OBVIOUS
<1>1. Cover'
  BY CoverStep
<1>2. RealTime'
  BY RealTimeStep DEF TalkInv, Plain
<1>3. NoManual' /\ BudgetSame' /\ NoAbsence' /\ HeldIsBased'
  BY PlainStep, NoAbsenceStep, HeldIsBasedStep DEF TalkInv, RealTime
<1> QED BY <1>1, <1>2, <1>3 DEF TalkInv

\* Holds, budget pauses, resumes and crashes, in any overlap, lose no consumed
\* time: between handlers the meter has counted every unit in which a session
\* was open and the clock not held.
THEOREM TalkIsCovered == Plain => (ClockSpec => []MeterCoversTalk)
<1> SUFFICES ASSUME Plain PROVE ClockSpec => []MeterCoversTalk
  OBVIOUS
<1>1. ClockInit => TalkInv
  BY ClockAssumption, TalkInit
<1>2. TalkInv /\ [ClockNext]_clockVars => TalkInv'
  BY TalkStep
<1>3. TalkInv => MeterCoversTalk
  BY DEF TalkInv, Cover, Covered, MeterCoversTalk
<1> QED BY <1>1, <1>2, <1>3, PTL DEF ClockSpec

-----------------------------------------------------------------------------
(* The meter and the budget, of a chat whose commands are handled one at a *)
(* time.                                                                   *)

\* One handler at a time, no crash in the middle of it, a chat that nobody
\* tries to switch to chat.
OneAtATime ==
    /\ \A g, h \in Slots : g = h
    /\ ~FromLobby /\ ~CrashAnywhere
    /\ Modes = {"chat"} /\ "switch" \notin Commands

AllIdle == \A h \in Slots : run[h] = IdleRun

\* What a grace may add to the budget: itself, and itself again for a party
\* that left while one was armed and whose disconnect has armed the second.
Allowance(a) == IF a \in gone \ leaving THEN 2 * LeaveGrace ELSE LeaveGrace

\* The timer is set within the budget.
Timed == memory.budget # Off /\ Elapsed + memory.budget <= db.budget

\* The grace of a party that lost its socket runs out in time.
Graced ==
    \E a \in Participants : leave[a] # Off /\ Elapsed + leave[a] <= db.budget + Allowance(a)

\* The timer is set, or on its way, or was cancelled for a party whose grace
\* runs.
Watched == memory.arming > 0 \/ Timed \/ Graced

\* Between handlers a running session is neither held nor paused, and watched
\* as long as the process is up.
Guarded ==
    Running /\ AllIdle =>
        /\ redis.held = Off /\ redis.paused = Off
        /\ up => Watched

\* A party that is back before its disconnect was through has no grace yet.
BackEarly == \A a \in leaving \ gone : leave[a] = Off

\* A handler that is about to close the session saw it running; one that comes
\* after, or a hold that could not be released, finds it closed.
Closing ==
    \A h \in Slots :
        /\ run[h].at = "write" => run[h].live
        /\ run[h].at \in {"arm", "flush"} \/ run[h].op = "refused" => ~Running
        /\ run[h].op = "refused" => run[h].at = "idle"

\* A process that is down runs no handler.
DownIsIdle == ~up => AllIdle

BudgetInv == RealTime /\ Guarded /\ Closing /\ DownIsIdle /\ BackEarly

\* What the budget invariant speaks of are numbers.
LEMMA BudgetNumbers ==
    ASSUME ClockTyped
    PROVE  /\ Elapsed \in Nat /\ db.budget \in Nat /\ LeaveGrace \in Nat \ {0}
           /\ memory.arming \in Nat /\ memory.budget \in Countdown
           /\ \A a \in Participants : leave[a] \in Countdown /\ Allowance(a) \in Nat
  BY Readings, TypedNow DEF ClockTyped, Bounds, Memories, Rows, Allowance

\* A grace goes on while the meter and the parties stay as they are.
LEMMA GraceStays ==
    ASSUME ClockTyped, Graced, UNCHANGED people, Elapsed' = Elapsed,
           db'.budget \in Nat, db.budget <= db'.budget
    PROVE  Graced'
<1>1. PICK a \in Participants : leave[a] # Off /\ Elapsed + leave[a] <= db.budget + Allowance(a)
  BY DEF Graced
<1>2. leave' = leave /\ gone' = gone /\ leaving' = leaving
  BY DEF people
<1>3. Allowance(a)' = Allowance(a)
  BY <1>2 DEF Allowance
<1>4. Elapsed' + leave'[a] <= db'.budget + Allowance(a)'
  BY <1>1, <1>2, <1>3, BudgetNumbers DEF Countdown, Off
<1> QED BY <1>1, <1>2, <1>4 DEF Graced

\* A handler that begins leaves the timer within the budget, or is on its way to
\* close the session.
LEMMA BudgetOpens ==
    ASSUME BudgetInv, OneAtATime, NEW h \in Slots, Opens(h)
    PROVE  Guarded' /\ Closing' /\ DownIsIdle'
<1> USE TypedNow
<1>1. ClockTyped /\ Lobby /\ Pace
  BY DEF BudgetInv, RealTime
<1>2. /\ IdleRun.op = "idle" /\ IdleRun.at = "idle" /\ Refused.op = "refused" /\ Refused.at = "idle"
  BY <1>1, IdleFields, RefusedFields DEF ClockTyped
<1>3. /\ UNCHANGED <<up, redis, db, people>> /\ Outcome(h)
      /\ (run[h] = IdleRun /\ up) \/ run[h].op = "refused"
      /\ memory'.arming \in {memory.arming, memory.arming - 1}
      /\ run' \in [Slots -> Runs] /\ Slots = {h}
  BY <1>1, OpenFacts DEF OneAtATime
<1>4. Elapsed' = Elapsed /\ Running' = Running
  BY <1>1, <1>3, SameReading DEF Running
<1>5. up
  BY <1>2, <1>3 DEF BudgetInv, DownIsIdle, AllIdle
<1>6. DownIsIdle'
  BY <1>3, <1>5 DEF DownIsIdle
<1>7. Running => run[h] = IdleRun /\ redis.held = Off /\ redis.paused = Off /\ Watched
  BY <1>3, <1>5 DEF BudgetInv, Guarded, Closing, AllIdle
<1>8. CASE (run'[h] = run[h] \/ run'[h] = IdleRun) /\ Undisturbed
  <2>1. Guarded'
    <3> SUFFICES ASSUME Running, AllIdle' PROVE Guarded'
      BY <1>4 DEF Guarded
    <3>1. \/ memory'.budget = memory.budget /\ memory'.arming = memory.arming
          \/ memory'.budget = Remaining /\ Remaining > 0
      BY <1>8 DEF Undisturbed, Running, LiveStatuses
    <3>2. Remaining > 0 => Elapsed + Remaining <= db.budget /\ Remaining # Off
      BY <1>1, Readings DEF Remaining, Rows, Off
    <3>3. Graced => Graced'
      BY <1>1, <1>3, <1>4, BudgetNumbers, GraceStays
    <3>4. Watched'
      BY <1>3, <1>4, <1>7, <3>1, <3>2, <3>3 DEF Watched, Timed
    <3> QED BY <1>3, <1>4, <1>7, <3>4 DEF Guarded
  <2>2. Closing'
    BY <1>2, <1>3, <1>4, <1>7, <1>8 DEF BudgetInv, Closing
  <2> QED BY <1>6, <2>1, <2>2
<1>9. CASE run'[h] = Refused /\ Held
  <2>1. ~Running
    BY <1>7, <1>9 DEF Held
  <2> QED BY <1>2, <1>3, <1>4, <1>6, <1>9, <2>1 DEF Guarded, Closing
<1>10. ASSUME NEW reason \in PauseReasons, NEW delay, PauseBegins(h, reason, delay)
       PROVE  Guarded' /\ Closing' /\ DownIsIdle'
  <2>1. db.status # "accepted"
    <3> SUFFICES ASSUME db.status = "accepted" PROVE FALSE
      OBVIOUS
    <3>1. EndBegins(h)
      BY <1>1, LobbyOpens, EndingFacts DEF OneAtATime
    <3> QED BY <1>10, <3>1 DEF PauseBegins, EndBegins
  <2>2. run'[h].at = "write" /\ run'[h].op = reason /\ run'[h].live
    BY <1>10, <2>1 DEF PauseBegins, LiveStatuses
  <2> QED BY <1>2, <1>3, <1>6, <2>2 DEF Guarded, Closing, AllIdle, PauseReasons
<1>11. CASE ResumeBegins(h)
  BY <1>2, <1>3, <1>6, <1>11 DEF ResumeBegins, Guarded, Closing, AllIdle
<1>12. CASE EndBegins(h)
  BY <1>2, <1>3, <1>6, <1>12 DEF EndBegins, Guarded, Closing, AllIdle
<1> QED BY <1>3, <1>8, <1>9, <1>10, <1>11, <1>12 DEF Outcome

\* The steps of a handler close the session, or arm.
LEMMA BudgetMoves ==
    ASSUME BudgetInv, OneAtATime, NEW h \in Slots, Moves(h)
    PROVE  Guarded' /\ Closing' /\ DownIsIdle'
<1> USE TypedNow
<1>1. ClockTyped /\ Lobby /\ Pace /\ Flushed
  BY DEF BudgetInv, RealTime
<1>2. /\ IdleRun.op = "idle" /\ IdleRun.at = "idle" /\ Slots = {h}
  BY <1>1, IdleFields DEF ClockTyped, OneAtATime
<1>3. /\ run[h].at = "write" => run[h].live
      /\ (run[h].at \in {"arm", "flush"} \/ run[h].op = "refused") => ~Running
      /\ run[h].op = "refused" => run[h].at = "idle"
      /\ ~up => run[h] = IdleRun
  BY DEF BudgetInv, Closing, DownIsIdle, AllIdle
<1>4. CASE PauseWrite(h)
  <2>1. ~db'.open /\ run[h].at = "write" /\ run'[h].at = "arm" /\ up' = up
        /\ run'[h].op = run[h].op
    BY <1>1, <1>3, <1>4, PauseWriteFacts
  <2> QED BY <1>2, <1>3, <2>1 DEF Guarded, Closing, DownIsIdle, Running
<1>5. CASE PauseArm(h)
  <2>1. db' = db /\ run[h].at = "arm" /\ run'[h] = IdleRun /\ up' = up
    BY <1>1, <1>5, PauseArmFacts
  <2> QED BY <1>2, <1>3, <2>1 DEF Guarded, Closing, DownIsIdle, Running, AllIdle
<1>6. CASE ResumeInsert(h)
  <2>1. run[h].at = "insert" /\ run'[h].at = "anchor" /\ run'[h].op = run[h].op /\ up' = up
    BY <1>1, <1>6, ResumeInsertFacts
  <2> QED BY <1>2, <1>3, <2>1 DEF Guarded, Closing, DownIsIdle, AllIdle
<1>7. CASE ResumeAnchor(h)
  <2>1. /\ db' = db /\ run[h].at = "anchor" /\ run'[h] = IdleRun /\ up' = up
        /\ redis'.held = Off /\ redis'.paused = Off /\ memory'.arming > 0
    BY <1>1, <1>7, ResumeAnchorFacts DEF Memories
  <2> QED BY <1>2, <1>3, <2>1 DEF Guarded, Watched, Closing, DownIsIdle, AllIdle
<1>8. CASE EndCommit(h)
  <2>1. ~db'.open /\ run[h].at = "commit" /\ run'[h].at = "flush" /\ up' = up
        /\ run'[h].op = run[h].op
    BY <1>1, <1>8, EndCommitFacts
  <2> QED BY <1>2, <1>3, <2>1 DEF Guarded, Closing, DownIsIdle, Running
<1>9. CASE EndFlush(h)
  <2>1. db' = db /\ run[h].at = "flush" /\ run'[h] = IdleRun /\ up' = up
    BY <1>1, <1>9, EndFlushFacts
  <2> QED BY <1>2, <1>3, <2>1 DEF Guarded, Closing, DownIsIdle, Running, AllIdle
<1>10. CASE Boot(h)
  <2>1. /\ db' = db /\ redis' = redis /\ Recovers(h) /\ up' /\ ~up
    BY <1>1, <1>10, BootFacts
  <2>2. run[h] = IdleRun
    BY <1>3, <2>1
  <2>3. Running => ~Held /\ redis.paused = Off
    BY <1>2, <2>2 DEF BudgetInv, Guarded, AllIdle, Held
  <2>4. CASE run' = run
    <3>1. Running => memory'.arming > 0
      BY <1>1, <1>2, <2>1, <2>2, <2>3, <2>4
         DEF Recovers, Rearms, Running, Memories, PauseBegins, Held
    <3> QED BY <1>2, <2>1, <2>2, <2>3, <2>4, <3>1
              DEF Guarded, Watched, Closing, DownIsIdle, AllIdle, Running, Held
  <2>5. CASE PauseBegins(h, "broke", redis.paused) /\ db.status = "active"
    <3>1. run'[h].at = "write" /\ run'[h].op = "broke" /\ run'[h].live
      BY <2>5 DEF PauseBegins
    <3> QED BY <1>2, <2>1, <3>1 DEF Guarded, Closing, DownIsIdle, AllIdle
  <2> QED BY <2>1, <2>4, <2>5 DEF Recovers
<1> QED BY <1>4, <1>5, <1>6, <1>7, <1>8, <1>9, <1>10 DEF Moves

\* The end of a disconnect's query hands the session over to the grace; a party
\* that comes back has the timer armed, and one that does not has the session
\* closed.
LEMMA SocketWatched ==
    ASSUME ClockTyped, BackEarly, NEW a \in Participants, SocketSteps(a),
           Running', Running => Watched
    PROVE  Watched'
<1> USE TypedNow
<1>1. /\ UNCHANGED <<redis>> /\ Graces(a)
  BY SocketFacts
<1>2. db'.since = db.since /\ db'.budget = db.budget
  BY <1>1 DEF Graces, Abandons
<1>3. Elapsed' = Elapsed
  BY <1>1, <1>2, SameReading
<1>4. /\ Elapsed \in Nat /\ db.budget \in Nat /\ LeaveGrace \in Nat \ {0}
      /\ memory.arming \in Nat /\ memory.budget \in Countdown
      /\ \A b \in Participants : leave[b] \in Countdown /\ Allowance(b) \in Nat
  BY BudgetNumbers
<1>5. CASE LoseSocket(a) /\ UNCHANGED <<memory, db>>
  <2>1. /\ a \notin gone \cup leaving /\ gone' = gone \cup {a} /\ leaving' = leaving \cup {a}
        /\ leave' = leave
    BY <1>5 DEF LoseSocket
  <2>2. \A b \in Participants : Allowance(b)' = Allowance(b)
    BY <2>1 DEF Allowance
  <2>3. Graced => Graced'
    BY <1>3, <1>5, <2>1, <2>2 DEF Graced
  <2> QED BY <1>3, <1>5, <2>3 DEF Watched, Timed, Running
<1>6. CASE PauseBilling(a) /\ db' = db /\ db.status = "active" /\ Disarms
  <2>1. /\ a \in leaving /\ leaving' = leaving \ {a} /\ gone' = gone
        /\ leave'[a] = LeaveGrace /\ \A b \in Participants \ {a} : leave'[b] = leave[b]
    BY <1>6 DEF PauseBilling
  <2>2. Watched /\ memory'.arming = memory.arming
    BY <1>6 DEF Running, Disarms
  <2>3. CASE memory.arming > 0
    BY <2>2, <2>3 DEF Watched
  <2>4. CASE Timed
    <3>1. Elapsed <= db.budget /\ LeaveGrace <= Allowance(a)'
      BY <1>4, <2>4 DEF Timed, Countdown, Off, Allowance
    <3>2. leave'[a] # Off /\ Elapsed' + leave'[a] <= db'.budget + Allowance(a)'
      BY <1>3, <1>4, <1>6, <2>1, <3>1 DEF Allowance, Off
    <3> QED BY <3>2 DEF Watched, Graced
  <2>5. ASSUME NEW b \in Participants, leave[b] # Off, Elapsed + leave[b] <= db.budget + Allowance(b)
        PROVE  Graced'
    <3>1. CASE b # a
      <4>1. Allowance(b)' = Allowance(b) /\ leave'[b] = leave[b]
        BY <2>1, <3>1 DEF Allowance
      <4> QED BY <1>3, <1>6, <2>5, <4>1 DEF Graced
    <3>2. CASE b = a
      <4>1. Allowance(a) = LeaveGrace /\ Allowance(a)' = 2 * LeaveGrace
        BY <2>1, <2>5, <3>2 DEF Allowance, BackEarly
      <4>2. leave[a] \in Nat
        BY <1>4, <2>5, <3>2 DEF Countdown
      <4>3. leave'[a] # Off /\ Elapsed' + leave'[a] <= db'.budget + Allowance(a)'
        BY <1>3, <1>4, <1>6, <2>1, <2>5, <3>2, <4>1, <4>2 DEF Off
      <4> QED BY <4>3 DEF Graced
    <3> QED BY <3>1, <3>2
  <2>6. CASE Graced
    BY <2>5, <2>6 DEF Graced, Watched
  <2> QED BY <2>2, <2>3, <2>4, <2>6 DEF Watched
<1>7. CASE ComeBack(a) /\ db' = db /\ db.status = "active" /\ Rearms
  BY <1>4, <1>7 DEF Rearms, Watched
<1> QED BY <1>1, <1>5, <1>6, <1>7 DEF Graces, Running

\* Starts and rejoins arm; keys expire only of a session that is closed.
LEMMA BudgetRest ==
    ASSUME BudgetInv, OneAtATime,
           \/ UNCHANGED clockVars \/ \E a \in Participants : Comes(a) \/ SocketSteps(a)
           \/ Recharge \/ RefusedSwitch \/ KeySteps \/ Crash
    PROVE  Guarded' /\ Closing' /\ DownIsIdle'
<1> USE TypedNow
<1>1. ClockTyped /\ Lobby /\ Pace /\ Guarded /\ Closing /\ DownIsIdle /\ BackEarly
  BY DEF BudgetInv, RealTime
<1>n. /\ Elapsed \in Nat /\ db.budget \in Nat
  BY <1>1, BudgetNumbers
<1>2. /\ IdleRun.op = "idle" /\ IdleRun.at = "idle" /\ IdleRun.live = FALSE
  BY <1>1, IdleFields DEF ClockTyped
<1>3. CASE UNCHANGED clockVars
  <2>1. Elapsed' = Elapsed /\ Watched' = Watched
    BY <1>3 DEF clockVars, Elapsed, Held, SessionAge, Watched, Timed, Graced, Allowance
  <2> QED BY <1>1, <1>3, <2>1 DEF clockVars, Guarded, Closing, DownIsIdle, AllIdle, Running
<1>4. ASSUME NEW a \in Participants, Comes(a)
      PROVE  Guarded' /\ Closing' /\ DownIsIdle'
  <2>1. run' = run /\ up /\ up' /\ UNCHANGED <<gone, leaving, leave>>
    BY <1>1, <1>4, ComeFacts DEF ghosts, absence
  <2>2. CASE UNCHANGED <<memory, redis, db>>
    <3>1. Elapsed' = Elapsed
      BY <1>1, <2>2, SameReading
    <3>2. Watched' = Watched
      BY <2>1, <2>2, <3>1 DEF Watched, Timed, Graced, Allowance
    <3> QED BY <1>1, <2>1, <2>2, <3>1, <3>2 DEF Guarded, Closing, DownIsIdle, AllIdle, Running
  <2>3. CASE Rearms /\ UNCHANGED <<redis, db>>
    <3>1. memory'.arming > 0 /\ Watched'
      BY <1>1, <2>3 DEF Rearms, Memories, Watched
    <3> QED BY <1>1, <2>1, <2>3, <3>1 DEF Guarded, Closing, DownIsIdle, AllIdle, Running
  <2>4. CASE Starts /\ Rearms
    <3>1. Watched' /\ redis'.held = Off /\ redis'.paused = Off
      BY <1>1, <2>4 DEF Rearms, Memories, Starts, Watched
    <3>2. \A h \in Slots :
             run[h] = IdleRun \/ (run[h].op = "end" /\ run[h].at = "commit")
      BY <1>1, <2>4 DEF Starts, Lobby
    <3> QED BY <1>2, <2>1, <3>1, <3>2 DEF Guarded, Closing, DownIsIdle
  <2>5. db.mode = "chat"
    BY <1>1 DEF OneAtATime, Rows
  <2> QED BY <1>1, <1>4, <2>2, <2>3, <2>4, <2>5, ComeFacts
<1>5. CASE Recharge
  <2>1. /\ UNCHANGED <<up, memory, redis, people, run>> /\ db'.status = db.status
        /\ db'.open = db.open /\ db'.since = db.since /\ db.budget <= db'.budget
    BY <1>1, <1>5, RechargeFacts DEF ghosts, ClockTyped, Bounds, Rows
  <2>2. Elapsed' = Elapsed /\ Elapsed \in Nat /\ db.budget \in Nat /\ db'.budget \in Nat
    BY <1>1, <1>5, <2>1, SameReading, Readings, RechargeFacts DEF Rows
  <2>3. Graced => Graced'
    BY <1>1, <2>1, <2>2, GraceStays
  <2>4. Timed => Timed'
    BY <1>1, <2>1, <2>2, BudgetNumbers DEF Timed, Countdown, Off
  <2> QED BY <1>1, <2>1, <2>3, <2>4 DEF Guarded, Watched, Closing, DownIsIdle, AllIdle, Running
<1>6. CASE RefusedSwitch
  BY <1>1, <1>6, SwitchFacts DEF OneAtATime
<1>7. CASE KeySteps
  <2>1. /\ UNCHANGED <<up, memory, run, db>>
        /\ redis.held = 0 \/ redis.paused = 0
    BY <1>1, <1>7, KeyFacts DEF ghosts
  <2>2. ~(Running /\ AllIdle)
    BY <1>1, <2>1 DEF Guarded, Off
  <2> QED BY <1>1, <2>1, <2>2 DEF Guarded, Closing, DownIsIdle, AllIdle, Running
<1>8. CASE Crash
  <2>1. /\ \A h \in Slots : run'[h] = IdleRun
        /\ ~up' /\ AllIdle /\ UNCHANGED <<redis, db>>
    BY <1>1, <1>8, CrashFacts DEF OneAtATime, ClockQuiet, AllIdle
  <2> QED BY <1>1, <1>2, <2>1 DEF Guarded, Closing, DownIsIdle, AllIdle, Running
<1>9. ASSUME NEW a \in Participants, SocketSteps(a)
      PROVE  Guarded' /\ Closing' /\ DownIsIdle'
  <2>1. UNCHANGED <<up, run, redis>> /\ Graces(a)
    BY <1>1, <1>9, SocketFacts
  <2>2. Running' => Running
    BY <2>1 DEF Graces, Abandons, Running
  <2>3. Closing' /\ DownIsIdle'
    BY <1>1, <2>1, <2>2 DEF Closing, DownIsIdle, AllIdle
  <2>4. Guarded'
    <3> SUFFICES ASSUME Running', AllIdle' PROVE Guarded'
      BY DEF Guarded
    <3>1. Running /\ AllIdle
      BY <2>1, <2>2 DEF AllIdle
    <3>2. up => Watched'
      BY <1>1, <1>9, <3>1, SocketWatched DEF Guarded
    <3> QED BY <1>1, <2>1, <3>1, <3>2 DEF Guarded
  <2> QED BY <2>3, <2>4
<1> QED BY <1>3, <1>4, <1>5, <1>6, <1>7, <1>8, <1>9

\* A party that is back before its disconnect was through cancelled the grace it
\* had, and is not away again before the disconnect is through.
LEMMA BackEarlyStep ==
    ASSUME ClockTyped, BackEarly, [ClockNext]_clockVars
    PROVE  BackEarly'
<1> USE TypedNow
<1>1. CASE UNCHANGED clockVars
  BY <1>1 DEF BackEarly, clockVars
<1>2. ASSUME NEW h \in Slots, Opens(h) \/ Moves(h)
      PROVE  BackEarly'
  BY <1>2, OpenFacts, PauseWriteFacts, PauseArmFacts, ResumeInsertFacts, ResumeAnchorFacts,
     EndCommitFacts, EndFlushFacts, BootFacts DEF Moves, people, BackEarly
<1>3. ASSUME NEW a \in Participants, Comes(a)
      PROVE  BackEarly'
  BY <1>3, ComeFacts DEF absence, BackEarly
<1>4. ASSUME NEW a \in Participants, SocketSteps(a)
      PROVE  BackEarly'
  BY <1>4 DEF SocketSteps, LoseSocket, PauseBilling, ComeBack, LeaveFires, BackEarly
<1>5. CASE Recharge \/ RefusedSwitch \/ KeySteps
  BY <1>5, RechargeFacts, SwitchFacts, KeyFacts DEF people, BackEarly
<1>6. CASE Tick
  BY <1>6, TickFacts DEF BackEarly, Less
<1>7. CASE Crash
  BY <1>7, CrashFacts DEF BackEarly
<1> QED BY <1>1, <1>2, <1>3, <1>4, <1>5, <1>6, <1>7, NextCases

\* Timer and meter advance together.
LEMMA BudgetTick ==
    ASSUME BudgetInv, OneAtATime, Tick
    PROVE  Guarded' /\ Closing' /\ DownIsIdle'
<1> USE TypedNow
<1>1. ClockTyped /\ Pace /\ Guarded /\ Closing /\ DownIsIdle
  BY DEF BudgetInv, RealTime
<1>2. /\ run' = run /\ up' = up /\ AllIdle /\ memory.arming = 0
      /\ db'.status = db.status /\ db'.open = db.open /\ db'.budget = db.budget
      /\ (redis.held = Off <=> redis'.held = Off) /\ (redis.paused = Off <=> redis'.paused = Off)
      /\ memory'.arming = memory.arming
      /\ memory.budget # 0 /\ memory'.budget = Less(memory.budget)
      /\ redis'.base = redis.base /\ redis'.age = Capped(redis.age + 1)
      /\ db'.since = IF db.since = Off THEN Off ELSE Capped(db.since + 1)
  BY <1>1, TickFacts DEF ClockQuiet, AllIdle
<1>3. Closing' /\ DownIsIdle'
  BY <1>1, <1>2 DEF Closing, DownIsIdle, AllIdle, Running
<1>4. Guarded'
  <2> SUFFICES ASSUME Running, up PROVE Guarded'
    BY <1>1, <1>2 DEF Guarded, Running, AllIdle
  <2>1. /\ redis.held = Off /\ redis.paused = Off
        /\ Timed \/ Graced
    BY <1>1, <1>2 DEF Guarded, Watched
  <2>2. Elapsed \in Nat /\ Elapsed' \in Nat /\ Elapsed' <= Elapsed + 1
    <3>1. /\ redis.base \in Ages /\ redis.age \in 0..MaxElapsed
          /\ db.since \in 0..MaxElapsed /\ redis'.held = Off
      BY <1>1, <1>2, <2>1 DEF Redises, Pace, Running
    <3>2. CASE redis.base # Off
      <4>1. redis.base \in 0..MaxElapsed
        BY <3>1, <3>2 DEF Ages, Off
      <4>2. /\ Elapsed = Capped(redis.base + redis.age)
            /\ Elapsed' = Capped(redis.base + Capped(redis.age + 1))
        BY <1>2, <2>1, <3>1, <3>2 DEF Elapsed, Held
      <4> QED BY <1>1, <3>1, <4>1, <4>2 DEF Capped
    <3>3. CASE redis.base = Off
      <4>1. Elapsed = db.since /\ Elapsed' = Capped(db.since + 1)
        BY <1>2, <2>1, <3>1, <3>3 DEF Elapsed, Held, SessionAge,
           Capped, Off
      <4> QED BY <1>1, <3>1, <4>1 DEF Capped
    <3> QED BY <3>2, <3>3
  <2>3. CASE Timed
    <3>1. memory.budget \in Nat /\ db.budget \in Nat /\ memory'.budget = memory.budget - 1
          /\ memory.budget > 0 /\ Elapsed + memory.budget <= db.budget
      BY <1>1, <1>2, <2>3 DEF Timed, Memories, Countdown, Rows, Less, Off
    <3>2. Timed'
      BY <1>2, <2>2, <3>1 DEF Timed, Off
    <3> QED BY <1>2, <2>1, <3>2 DEF Guarded, Watched
  <2>4. ASSUME NEW a \in Participants, leave[a] # Off, Elapsed + leave[a] <= db.budget + Allowance(a)
        PROVE  Graced'
    <3>1. /\ leave[a] # 0 /\ leave'[a] = Less(leave[a]) /\ gone' = gone /\ leaving' = leaving
      BY <1>1, TickFacts
    <3>2. Allowance(a)' = Allowance(a) /\ Allowance(a) \in Nat /\ leave[a] \in Countdown
      BY <1>1, <3>1, BudgetNumbers DEF Allowance
    <3>3. leave[a] \in Nat /\ leave'[a] = leave[a] - 1 /\ leave[a] > 0 /\ db.budget \in Nat
      BY <1>1, <2>4, <3>1, <3>2, BudgetNumbers DEF Countdown, Less, Off
    <3>4. leave'[a] # Off /\ Elapsed' + leave'[a] <= db'.budget + Allowance(a)'
      BY <1>2, <2>2, <2>4, <3>2, <3>3 DEF Off
    <3> QED BY <3>4 DEF Graced
  <2>5. CASE Graced
    BY <1>2, <2>1, <2>4, <2>5 DEF Graced, Guarded, Watched
  <2> QED BY <2>1, <2>3, <2>5
<1> QED BY <1>3, <1>4

\* Initially nothing runs.
LEMMA BudgetInit == Bounds /\ OneAtATime /\ ClockInit => BudgetInv
<1> SUFFICES ASSUME Bounds, OneAtATime, ClockInit PROVE BudgetInv
  OBVIOUS
<1>1. RealTime
  BY RealTimeInit
<1>2. /\ \A h \in Slots : run[h] = IdleRun
      /\ db.status = "accepted" /\ up /\ leaving = {}
  BY DEF ClockInit
<1>3. IdleRun.op = "idle" /\ IdleRun.at = "idle"
  BY IdleFields
<1> QED BY <1>1, <1>2, <1>3
      DEF BudgetInv, Guarded, Closing, DownIsIdle, BackEarly, AllIdle, Running

\* BudgetInv is inductive.
LEMMA BudgetStep == OneAtATime /\ BudgetInv /\ [ClockNext]_clockVars => BudgetInv'
<1> SUFFICES ASSUME OneAtATime, BudgetInv, [ClockNext]_clockVars PROVE BudgetInv'
  OBVIOUS
<1>1. RealTime'
  BY RealTimeStep DEF BudgetInv, OneAtATime
<1>2. Guarded' /\ Closing' /\ DownIsIdle'
  BY BudgetOpens, BudgetMoves, BudgetRest, BudgetTick, NextCases
<1>3. BackEarly'
  BY BackEarlyStep DEF BudgetInv, RealTime
<1> QED BY <1>1, <1>2, <1>3 DEF BudgetInv

\* A chat whose handlers run one at a time, crashes between them and lost
\* sockets included, is served past the affordable time only while the grace of
\* a party that lost its socket runs, and by at most two graces.
THEOREM ServedWithinBudget == OneAtATime => (ClockSpec => []MeterWithinBudget)
<1> SUFFICES ASSUME OneAtATime PROVE ClockSpec => []MeterWithinBudget
  OBVIOUS
<1>1. ClockInit => BudgetInv
  BY ClockAssumption, BudgetInit
<1>2. BudgetInv /\ [ClockNext]_clockVars => BudgetInv'
  BY BudgetStep
<1>3. BudgetInv => MeterWithinBudget
  <2> SUFFICES ASSUME BudgetInv, up, ClockQuiet, Running
               PROVE  \/ Elapsed <= db.budget
                      \/ \E a \in Participants :
                           leave[a] # Off /\ Elapsed + leave[a] <= db.budget + 2 * LeaveGrace
    BY DEF MeterWithinBudget
  <2>1. /\ Elapsed \in Nat /\ db.budget \in Nat /\ LeaveGrace \in Nat \ {0}
        /\ memory.arming \in Nat /\ memory.budget \in Countdown
        /\ \A a \in Participants : leave[a] \in Countdown /\ Allowance(a) \in Nat
    BY BudgetNumbers DEF BudgetInv, RealTime
  <2>2. Timed \/ Graced
    BY <2>1 DEF BudgetInv, Guarded, Watched, ClockQuiet, AllIdle
  <2>3. CASE Timed
    BY <2>1, <2>3 DEF Timed, Countdown, Off
  <2>4. ASSUME NEW a \in Participants, leave[a] # Off, Elapsed + leave[a] <= db.budget + Allowance(a)
        PROVE  Elapsed + leave[a] <= db.budget + 2 * LeaveGrace
    BY <2>1, <2>4 DEF Allowance, Countdown, Off
  <2> QED BY <2>2, <2>3, <2>4 DEF Graced
<1> QED BY <1>1, <1>2, <1>3, PTL DEF ClockSpec

-----------------------------------------------------------------------------
(* The sockets of a running consultation's two parties.                    *)

\* An actor that has never been away has a live socket.
HereIsPresent == \A a \in Actors \ away : Present(a)

\* A disconnect that is still under way is that of a socket that has gone.
LeavingIsDown == \A s \in Connections :
    disc[s] = "unregistering" => link[s] = "down"

\* A disconnect that will arm the grace has found its actor away.
PausedWasAway == \A s \in Connections : disc[s] = "pausing" => Owner[s] \in away

\* TabProtects, by the timers and by the session.
TimersAway == grace \subseteq away /\ closing \subseteq away
ClosedAway == session.closedBy \in away \cup {Nobody}

GraceInv ==
    /\ Parties
    /\ GraceTypeOK
    /\ HereIsPresent
    /\ LeavingIsDown
    /\ PausedWasAway
    /\ TimersAway
    /\ ClosedAway

-----------------------------------------------------------------------------
\* The session has been started by live sockets of both parties.
LEMMA GraceInitially == Parties /\ BothStarted /\ GraceInit => GraceInv
<1> SUFFICES ASSUME Parties, BothStarted, GraceInit PROVE GraceInv
  OBVIOUS
<1> USE DEF Parties
<1>1. GraceTypeOK
  BY DEF GraceInit, GraceTypeOK
<1>2. HereIsPresent
  BY DEF BothStarted, GraceInit, HereIsPresent, Present, LiveSockets,
     SocketsOf
<1>3. LeavingIsDown /\ PausedWasAway /\ TimersAway /\ ClosedAway
  BY DEF GraceInit, LeavingIsDown, PausedWasAway, TimersAway, ClosedAway
<1> QED
  BY <1>1, <1>2, <1>3 DEF GraceInv

\* What every step keeps: types.
LEMMA GraceType == Parties /\ GraceTypeOK /\ [GraceNext]_graceVars => GraceTypeOK'
<1> SUFFICES ASSUME Parties, GraceTypeOK, [GraceNext]_graceVars PROVE GraceTypeOK'
  OBVIOUS
<1> USE DEF Parties, GraceTypeOK
<1>1. ASSUME NEW s \in Connections, HandleConnection(s) PROVE GraceTypeOK'
  BY <1>1 DEF HandleConnection, timers
<1>2. ASSUME NEW s \in Connections, Drop(s) PROVE GraceTypeOK'
  BY <1>2 DEF Drop, AfterCheck, timers
<1>3. ASSUME NEW s \in Connections, Authenticate(s) PROVE GraceTypeOK'
  BY <1>3 DEF Authenticate
<1>4. ASSUME NEW s \in Connections, ResumeTimers(s) PROVE GraceTypeOK'
  <2>1. budget' \in [set : BOOLEAN, arming : Nat]
    BY <1>4 DEF ResumeTimers, ArmBudget
  <2> QED
    BY <1>4, <2>1 DEF ResumeTimers, timers
<1>5. ASSUME NEW s \in Connections, Unregistered(s) PROVE GraceTypeOK'
  <2>1. disc' \in [Connections -> {"idle", "unregistering", "pausing", "done", "anonymous"}]
    BY <1>5 DEF Unregistered, AfterCheck
  <2> QED
    BY <1>5, <2>1 DEF Unregistered, timers
<1>6. ASSUME NEW s \in Connections, PauseTimers(s) PROVE GraceTypeOK'
  <2>1. budget' \in [set : BOOLEAN, arming : Nat]
    BY <1>6 DEF PauseTimers
  <2>2. disc' \in [Connections -> {"idle", "unregistering", "pausing", "done", "anonymous"}]
    BY <1>6 DEF PauseTimers
  <2> QED
    BY <1>6, <2>1, <2>2 DEF PauseTimers
<1>7. ASSUME NEW a \in Actors, GraceFires(a) \/ CloseSessions(a) PROVE GraceTypeOK'
  <2>1. session' \in [active : BOOLEAN, open : BOOLEAN, closedBy : Actors \cup {Nobody}]
    BY <1>7 DEF GraceFires, CloseSessions
  <2> QED
    BY <1>7, <2>1 DEF GraceFires, CloseSessions, connections
<1>8. ASSUME NEW a \in Actors, Rejoin(a) \/ ResumeByParty(a) \/ EndByParty(a) PROVE GraceTypeOK'
  <2>1. session' \in [active : BOOLEAN, open : BOOLEAN, closedBy : Actors \cup {Nobody}]
    BY <1>8 DEF Rejoin, ResumeByParty, EndByParty
  <2>2. budget' \in [set : BOOLEAN, arming : Nat]
    <3>1. ArmBudget \in [set : BOOLEAN, arming : Nat]
      BY DEF ArmBudget
    <3>2. [budget EXCEPT !.set = FALSE] \in [set : BOOLEAN, arming : Nat]
      OBVIOUS
    <3> QED
      BY <1>8, <3>1, <3>2 DEF Rejoin, ResumeByParty, EndByParty
  <2>3. resumes' \in 0..MaxResumes
    BY <1>8 DEF Rejoin, ResumeByParty, EndByParty
  <2> QED
    BY <1>8, <2>1, <2>2, <2>3 DEF Rejoin, ResumeByParty, EndByParty, connections, timers
<1>9. CASE ArmCompletes
  BY <1>9 DEF ArmCompletes, connections, timers
<1>10. CASE UNCHANGED graceVars
  BY <1>10 DEF graceVars
<1> QED
  BY <1>1, <1>2, <1>3, <1>4, <1>5, <1>6, <1>7, <1>8, <1>9, <1>10
  DEF GraceNext, Continuations

\* A step that takes no socket away and ends none of its checks.
LEMMA SocketsKeep ==
    ASSUME GraceInv, GraceTypeOK',
           \A s \in Connections : link[s] = "up" => link'[s] = "up",
           \A s \in Connections : link[s] = "down" => link'[s] = "down",
           identity \subseteq identity', UNCHANGED <<disc, away>>
    PROVE  HereIsPresent' /\ LeavingIsDown' /\ PausedWasAway'
<1>1. HereIsPresent'
  BY DEF GraceInv, HereIsPresent, Present, LiveSockets, SocketsOf
<1> QED
  BY <1>1 DEF GraceInv, LeavingIsDown, PausedWasAway

\* A socket goes.  Its actor remains present unless this was its last live
\* socket, and then the step puts the actor among those that have been away.
LEMMA DropInv == ASSUME GraceInv, NEW s \in Connections, Drop(s) PROVE GraceInv'
<1> USE DEF Parties
<1>1. GraceTypeOK'
  BY GraceType DEF GraceInv, GraceNext
<1>2. link' = [link EXCEPT ![s] = "down"] /\ UNCHANGED <<identity, grace, closing, session>>
  BY DEF Drop, timers
<1>3. away \subseteq away'
  BY DEF Drop
<1>4. HereIsPresent'
  <2> SUFFICES ASSUME NEW a \in Actors \ away' PROVE Present(a)'
    BY DEF HereIsPresent
  <2>1. Present(a)
    BY <1>3 DEF GraceInv, HereIsPresent
  <2>2. PICK t \in LiveSockets(a) : t # s
    <3>1. CASE s \in LiveSockets(a)
      <4>1. a = Owner[s] /\ s \in identity
        BY <3>1 DEF LiveSockets, SocketsOf
      <4>2. ~(LiveSockets(a) \subseteq {s})
        BY <4>1 DEF Drop
      <4> QED
        BY <4>2
    <3>2. CASE s \notin LiveSockets(a)
      BY <2>1, <3>2 DEF Present
    <3> QED
      BY <3>1, <3>2
  <2> QED
    BY <1>2, <2>2 DEF GraceInv, GraceTypeOK, Present, LiveSockets, SocketsOf
<1>5. LeavingIsDown' /\ PausedWasAway'
  <2>1. disc'[s] = "pausing" => Owner[s] \in away'
    BY DEF Drop, AfterCheck, GraceInv, GraceTypeOK
  <2>2. \A t \in Connections \ {s} : disc'[t] = disc[t] /\ link'[t] = link[t]
    BY DEF Drop, GraceInv, GraceTypeOK
  <2>3. link'[s] = "down"
    BY <1>2 DEF GraceInv, GraceTypeOK
  <2> QED
    BY <1>3, <2>1, <2>2, <2>3 DEF GraceInv, LeavingIsDown, PausedWasAway
<1>6. TimersAway' /\ ClosedAway'
  BY <1>2, <1>3 DEF GraceInv, TimersAway, ClosedAway
<1> QED
  BY <1>1, <1>4, <1>5, <1>6 DEF GraceInv

\* The expert's tabs are looked at after an await: the socket is down, so a
\* live one would be another.
LEMMA UnregisteredInv == ASSUME GraceInv, NEW s \in Connections, Unregistered(s) PROVE GraceInv'
<1> USE DEF Parties
<1>1. GraceTypeOK'
  BY GraceType DEF GraceInv, GraceNext, Continuations
<1>2. UNCHANGED <<link, identity, grace, closing, session, away>>
  BY DEF Unregistered, timers
<1>3. s \notin LiveSockets(Owner[s])
  BY DEF GraceInv, LeavingIsDown, Unregistered, LiveSockets
<1>4. disc'[s] = "pausing" => Owner[s] \in away'
  <2> SUFFICES ASSUME disc'[s] = "pausing" PROVE ~Present(Owner[s])
    BY <1>2 DEF GraceInv, HereIsPresent
  <2>1. LiveSockets(Owner[s]) \ {s} = {}
    BY DEF Unregistered, AfterCheck, GraceInv, GraceTypeOK
  <2> QED
    BY <1>3, <2>1 DEF Present
<1>5. LeavingIsDown' /\ PausedWasAway'
  BY <1>2, <1>4 DEF Unregistered, AfterCheck, GraceInv, GraceTypeOK,
     LeavingIsDown, PausedWasAway
<1>6. HereIsPresent' /\ TimersAway' /\ ClosedAway'
  BY <1>2 DEF GraceInv, HereIsPresent, Present, LiveSockets, SocketsOf,
     TimersAway, ClosedAway
<1> QED
  BY <1>1, <1>5, <1>6 DEF GraceInv

\* A disconnect keeps GraceInv.
LEMMA PauseInv == ASSUME GraceInv, NEW s \in Connections, PauseTimers(s) PROVE GraceInv'
<1>1. GraceTypeOK'
  BY GraceType DEF GraceInv, GraceNext, Continuations
<1>2. UNCHANGED <<link, identity, closing, session, away>>
  BY DEF PauseTimers
<1>3. LeavingIsDown' /\ PausedWasAway'
  BY <1>2 DEF PauseTimers, GraceInv, GraceTypeOK, LeavingIsDown, PausedWasAway
<1>4. Owner[s] \in away
  BY DEF PauseTimers, GraceInv, PausedWasAway
<1>5. TimersAway' /\ ClosedAway'
  BY <1>2, <1>4 DEF PauseTimers, GraceInv, TimersAway, ClosedAway
<1>6. HereIsPresent'
  BY <1>2 DEF GraceInv, HereIsPresent, Present, LiveSockets, SocketsOf
<1> QED
  BY <1>1, <1>3, <1>5, <1>6 DEF GraceInv

\* GraceInv is inductive.
LEMMA GraceStep == GraceInv /\ [GraceNext]_graceVars => GraceInv'
<1> SUFFICES ASSUME GraceInv, [GraceNext]_graceVars PROVE GraceInv'
  OBVIOUS
<1>0. GraceTypeOK'
  BY GraceType DEF GraceInv
<1>1. ASSUME NEW s \in Connections, HandleConnection(s) \/ Authenticate(s) \/ ResumeTimers(s) PROVE GraceInv'
  <2>1. HereIsPresent' /\ LeavingIsDown' /\ PausedWasAway'
    BY <1>0, <1>1, SocketsKeep DEF HandleConnection, Authenticate, ResumeTimers,
       GraceInv, GraceTypeOK
  <2>2. TimersAway' /\ ClosedAway'
    BY <1>1 DEF HandleConnection, Authenticate, ResumeTimers, timers, GraceInv,
       TimersAway, ClosedAway
  <2> QED
    BY <1>0, <2>1, <2>2 DEF GraceInv
<1>2. ASSUME NEW a \in Actors,
             GraceFires(a) \/ CloseSessions(a) \/ Rejoin(a) \/ ResumeByParty(a) \/ EndByParty(a)
      PROVE  GraceInv'
  <2>1. HereIsPresent' /\ LeavingIsDown' /\ PausedWasAway'
    BY <1>0, <1>2, SocketsKeep
    DEF GraceFires, CloseSessions, Rejoin, ResumeByParty, EndByParty, connections
  <2>2. TimersAway'
    BY <1>2 DEF GraceFires, CloseSessions, Rejoin, ResumeByParty, EndByParty,
       timers, GraceInv, TimersAway
  <2>3. ClosedAway'
    BY <1>2 DEF GraceFires, CloseSessions, Rejoin, ResumeByParty, EndByParty,
       GraceInv, GraceTypeOK,
                TimersAway, ClosedAway
  <2> QED
    BY <1>0, <2>1, <2>2, <2>3 DEF GraceInv
<1>3. CASE ArmCompletes \/ UNCHANGED graceVars
  <2>1. UNCHANGED <<link, identity, disc, grace, closing, session, away>>
    BY <1>3 DEF ArmCompletes, graceVars, connections, timers
  <2>2. HereIsPresent' /\ LeavingIsDown' /\ PausedWasAway'
    BY <1>0, <2>1, SocketsKeep
  <2>3. TimersAway' /\ ClosedAway'
    BY <2>1 DEF GraceInv, TimersAway, ClosedAway
  <2> QED
    BY <1>0, <2>2, <2>3 DEF GraceInv
<1> QED
  BY <1>1, <1>2, <1>3, DropInv, UnregisteredInv, PauseInv DEF GraceNext, Continuations

\* So it always holds.
LEMMA GraceInvariance == GraceSpec => []GraceInv
<1>1. GraceInit => GraceInv
  BY GraceAssumption, StartAssumption, GraceInitially
<1>2. GraceInv /\ [GraceNext]_graceVars => GraceInv'
  BY GraceStep
<1> QED BY <1>1, <1>2, PTL DEF GraceSpec

\* Every variable keeps its type, timers being kept by actor.
THEOREM GraceTypeCorrect == GraceSpec => []GraceTypeOK
<1>1. GraceInv => GraceTypeOK
  BY DEF GraceInv
<1> QED
  BY <1>1, GraceInvariance, PTL

\* However many sockets an actor has, and however their connects and
\* disconnects overlap: while one of them stays live throughout, no grace runs
\* for the actor and no session is closed on its account.
THEOREM LiveTabProtects == GraceSpec => []TabProtects
<1>1. GraceInv => TabProtects
  BY DEF GraceInv, Parties, TimersAway, ClosedAway, TabProtects
<1> QED
  BY <1>1, GraceInvariance, PTL
=============================================================================
