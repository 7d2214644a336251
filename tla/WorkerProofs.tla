---------------------------- MODULE WorkerProofs ----------------------------
(***************************************************************************)
(* Worker for any settings, number of workers, connections and descriptors.*)
(***************************************************************************)
EXTENDS Worker, TLAPS

USE WorkerAssumption

Before == {"daemonize", "settings", "listen", "failed"}

\* Nothing is forked and nobody served before the listener is there; then
\* forks counts up to Count and stops.
Starting ==
    /\ setting \in Setups
    /\ main \in Before => /\ forks = 0 /\ new = Conns
                          /\ \A w \in Workers : worker[w] = "none"
    /\ forks <= Count
    /\ main = "done" => forks = Count

IInv == TypeOK /\ Starting

(* The number of workers is one at least and MaxProc at most. *)
LEMMA CountRange ==
    ASSUME setting \in Setups
    PROVE  /\ Count \in Workers
           /\ ProcessCount \in Workers => Count = ProcessCount
  <1>1. ProcessCount \in Int
    BY DEF ProcessCount
  <1>q. QED BY <1>1 DEF Count, Workers

LEMMA InitEstablishes == Init => IInv
  <1>. SUFFICES ASSUME Init PROVE IInv
    OBVIOUS
  <1>1. Once
    BY DEF Init, Once, Waiting
  <1>a. scarce \in BOOLEAN
    BY DEF Init
  <1>b. /\ worker \in [Workers -> {"none", "running", "exited"}]
        /\ held \in [Workers -> SUBSET Conns] /\ \A w \in Workers : held[w] = {}
    BY DEF Init
  <1>2. TypeOK
    BY <1>1, <1>a, <1>b DEF Init, TypeOK
  <1>3. Starting
    BY CountRange DEF Init, Starting, Before, Workers
  <1>q. QED BY <1>2, <1>3 DEF IInv

(* What a worker does leaves the start alone. *)
LEMMA StartKept ==
    ASSUME IInv, UNCHANGED processVars, new' = new,
           main \in Before => worker' = worker
    PROVE  Starting'
  BY DEF IInv, Starting, processVars, Count, ProcessCount

(* A connection that is in one place stays so where workers hold fewer and *)
(* the backlog is the same or without its first.                           *)
LEMMA OnceShrinks ==
    ASSUME TypeOK, held' \in [Workers -> SUBSET Conns],
           \A v \in Workers : held'[v] \subseteq held[v],
           new' = new, backlog' = backlog \/ (backlog # <<>> /\ backlog' = Tail(backlog)),
           \A p \in busy' \cup full' : p[2] \in held'[p[1]], busy' \cap full' = {}
    PROVE  Once'
  <1>. USE DEF TypeOK
  <1>1. PICK k \in {0, 1} : /\ Len(backlog') = Len(backlog) - k
                            /\ \A i \in 1..Len(backlog') : backlog'[i] = backlog[i + k]
    <2>1. CASE backlog' = backlog
      <3>1. Len(backlog') = Len(backlog) - 0 /\ \A i \in 1..Len(backlog') : backlog'[i] = backlog[i + 0]
        BY <2>1
      <3>q. QED BY <3>1
    <2>2. CASE backlog # <<>> /\ backlog' = Tail(backlog)
      <3>1. Len(backlog') = Len(backlog) - 1 /\ \A i \in 1..Len(backlog') : backlog'[i] = backlog[i + 1]
        BY <2>2
      <3>q. QED BY <3>1
    <2>q. QED BY <2>1, <2>2
  <1>2. \A i \in 1..Len(backlog') : i + k \in 1..Len(backlog)
    BY <1>1
  <1>3. \A i, j \in 1..Len(backlog') : backlog'[i] = backlog'[j] => i = j
    BY <1>1, <1>2 DEF Once
  <1>4. \A c \in Conns : Waiting(c)' => Waiting(c)
    BY <1>1, <1>2 DEF Waiting
  <1>5. \A c \in Conns : Waiting(c)' => c \notin new' /\ \A w \in Workers : c \notin held'[w]
    BY <1>4 DEF Once
  <1>6. /\ \A w \in Workers : held'[w] \cap new' = {}
        /\ \A v, w \in Workers : v # w => held'[v] \cap held'[w] = {}
    BY DEF Once
  <1>q. QED BY <1>3, <1>5, <1>6 DEF Once

(* What a worker waits in is left alone where it is Idle. *)
LEMMA PairsOfOthers ==
    ASSUME TypeOK, NEW w \in Workers, Idle(w) , busy' \subseteq busy, full' \subseteq full,
           \A v \in Workers : v # w => held'[v] = held[v]
    PROVE  \A p \in busy' \cup full' : p[2] \in held'[p[1]]
  <1>1. \A p \in busy \cup full : p = <<p[1], p[2]>> /\ p[1] \in Workers /\ p[2] \in Conns
    BY DEF TypeOK
  <1>2. \A p \in busy \cup full : p[1] # w
    BY <1>1 DEF Idle
  <1>q. QED BY <1>1, <1>2 DEF TypeOK, Once

(* What a worker holds and the backlog stay. *)
LEMMA OnceStays ==
    ASSUME TypeOK, held' = held, new' = new, backlog' = backlog,
           \A p \in busy' \cup full' : p[2] \in held[p[1]], busy' \cap full' = {}
    PROVE  Once'
  BY DEF TypeOK, Once, Waiting

(* A worker that runs has been forked, so main is past listening. *)
LEMMA RunningIsForked ==
    ASSUME IInv, NEW w \in Workers, worker[w] = "running"
    PROVE  main \notin Before
  BY DEF IInv, Starting

LEMMA StartKeeps == IInv /\ Start => IInv'
  <1>. SUFFICES ASSUME IInv, Start PROVE IInv'
    OBVIOUS
  <1>. USE DEF IInv, TypeOK, Starting, Before
  <1>0. Count \in Workers
    BY CountRange
  <1>a. UNCHANGED <<setting, ready, busy, full, backlog, held, linked, outside>>
    BY DEF Start, Daemonize, ReadSettings, CreateLocalServer, Fork, AllForked, loopVars, connVars
  <1>b. Once'
    BY <1>a, OnceStays DEF Once, outside
  <1>c. Count' = Count
    BY <1>a DEF Count, ProcessCount
  <1>. USE <1>a, <1>b, <1>c DEF loopVars, outside
  <1>1. CASE Daemonize
    BY <1>1 DEF Daemonize
  <1>2. CASE ReadSettings
    BY <1>2 DEF ReadSettings
  <1>3. CASE CreateLocalServer
    BY <1>3 DEF CreateLocalServer
  <1>4. CASE Fork
    <2>2. forks' = forks + 1 /\ forks + 1 <= Count /\ forks + 1 \in Workers
      BY <1>0, <1>4 DEF Fork, MoreToFork, Workers
    <2>3. worker' \in [Workers -> {"none", "running", "exited"}]
      BY <1>4 DEF Fork
    <2>4. watching' \subseteq Workers /\ watching \subseteq watching'
      BY <1>4, <2>2 DEF Fork
    <2>5. \A w \in Workers : worker[w] = "running" => worker'[w] = "running"
      BY <1>4, <2>2 DEF Fork
    <2>6. TypeOK'
      BY <1>0, <1>4, <2>2, <2>3, <2>4, <2>5 DEF Fork, Workers
    <2>7. Starting'
      BY <1>4, <2>2 DEF Fork
    <2>q. QED BY <2>6, <2>7
  <1>5. CASE AllForked
    BY <1>0, <1>5 DEF AllForked, MoreToFork, Workers
  <1>q. QED BY <1>1, <1>2, <1>3, <1>4, <1>5 DEF Start

(* A worker that ends holds nothing; the others are not touched. *)
LEMMA ExitKeeps ==
    ASSUME IInv, NEW w \in Workers, worker[w] = "running", Exit(w),
           backlog' = backlog \/ (backlog # <<>> /\ backlog' = Tail(backlog))
    PROVE  IInv'
  <1>. USE DEF outside, processVars
  <1>0. TypeOK
    BY DEF IInv
  <1>1. /\ held' \in [Workers -> SUBSET Conns] /\ held'[w] = {}
        /\ \A v \in Workers : v # w => held'[v] = held[v]
        /\ \A v \in Workers : held'[v] \subseteq held[v]
    BY <1>0 DEF Exit, TypeOK
  <1>2. \A p \in busy' \cup full' : p \in busy \cup full /\ p[1] \in Workers \ {w}
    BY <1>0 DEF Exit, TypeOK
  <1>3. \A p \in busy' \cup full' : p[2] \in held'[p[1]]
    BY <1>0, <1>1, <1>2 DEF TypeOK, Once
  <1>4. busy' \cap full' = {}
    BY <1>0 DEF Exit, TypeOK, Once
  <1>5. Once'
    BY <1>0, <1>1, <1>3, <1>4, OnceShrinks DEF Exit
  <1>6. backlog' \in Seq(Conns) /\ Len(backlog') <= Backlog
    <2>1. backlog \in Seq(Conns) /\ Len(backlog) <= Backlog
      BY <1>0 DEF TypeOK
    <2>q. QED BY <2>1
  <1>7. worker' \in [Workers -> {"none", "running", "exited"}]
        /\ \A v \in Workers : v # w => worker'[v] = worker[v]
    BY <1>0 DEF Exit, TypeOK
  <1>8. \A v \in Workers : held'[v] # {} => worker'[v] = "running"
    BY <1>0, <1>1, <1>7 DEF TypeOK
  <1>9. TypeOK'
    BY <1>0, <1>1, <1>5, <1>6, <1>7, <1>8 DEF TypeOK, Exit
  <1>10. Starting'
    BY StartKept, RunningIsForked DEF Exit
  <1>q. QED BY <1>9, <1>10 DEF IInv

(* A connection comes from the backlog to one worker. *)
LEMMA AcceptOnce ==
    ASSUME TypeOK, NEW w \in Workers, Accept(w)
    PROVE  TypeOK'
  <1>a. \A d \in Conns : Waiting(d) => d \notin new /\ \A v \in Workers : d \notin held[v]
    BY Zenon DEF TypeOK, Once
  <1>. USE DEF TypeOK, Accept, AcceptCalled, outside, processVars
  <1>. DEFINE c == Head(backlog)
  <1>0. /\ c \in Conns /\ Waiting(c) /\ c = backlog[1]
        /\ Tail(backlog) \in Seq(Conns) /\ Len(Tail(backlog)) = Len(backlog) - 1
        /\ \A i \in 1..Len(Tail(backlog)) : /\ Tail(backlog)[i] = backlog[i + 1]
                                            /\ i + 1 \in 1..Len(backlog) /\ i + 1 # 1
        /\ 1 \in 1..Len(backlog)
    BY DEF Waiting
  <1>. HIDE DEF c
  <1>1. /\ held' = [held EXCEPT ![w] = @ \cup {c}] /\ backlog' = Tail(backlog)
        /\ held' \in [Workers -> SUBSET Conns]
    BY <1>0 DEF c
  <1>2. \A v \in Workers : held'[v] = IF v = w THEN held[v] \cup {c} ELSE held[v]
    BY <1>1
  <1>3. \A i, j \in 1..Len(backlog') : backlog'[i] = backlog'[j] => i = j
    BY <1>0, <1>1 DEF Once
  <1>4. ASSUME NEW d \in Conns, Waiting(d)'
        PROVE  Waiting(d) /\ d # c
    <2>1. PICK i \in 1..Len(backlog') : backlog'[i] = d
      BY <1>4 DEF Waiting
    <2>2. i + 1 \in 1..Len(backlog) /\ backlog[i + 1] = d /\ i + 1 # 1
      BY <1>0, <1>1, <2>1
    <2>q. QED BY <1>0, <2>2 DEF Once, Waiting
  <1>5. \A d \in Conns : Waiting(d)' => d \notin new' /\ \A v \in Workers : d \notin held'[v]
    <2>1. ASSUME NEW d \in Conns, Waiting(d)'
          PROVE  d \notin new /\ d # c /\ \A v \in Workers : d \notin held[v]
      BY <1>4, <2>1, <1>a, Zenon
    <2>2. new' = new
      OBVIOUS
    <2>q. QED BY <1>2, <2>1, <2>2
  <1>6. /\ \A v \in Workers : held'[v] \cap new' = {}
        /\ \A u, v \in Workers : u # v => held'[u] \cap held'[v] = {}
    BY <1>0, <1>2 DEF Once
  <1>7. \A p \in busy' \cup full' : p[2] \in held'[p[1]]
    BY <1>2 DEF Once
  <1>8. busy' \cap full' = {}
    BY DEF Once
  <1>9. Once'
    BY <1>3, <1>5, <1>6, <1>7, <1>8 DEF Once
  <1>10. \A v \in Workers : held'[v] # {} => worker'[v] = "running"
    BY <1>2 DEF Idle
  <1>q. QED BY <1>0, <1>1, <1>9, <1>10

(* acceptCallback and the poll before it. *)
LEMMA AcceptKeeps ==
    ASSUME IInv, NEW w \in Workers, Poll(w) \/ AcceptCallback(w)
    PROVE  IInv'
  <1>. USE DEF connVars, outside, processVars
  <1>1. CASE Poll(w)
    <2>1. Once'
      BY <1>1, OnceStays DEF IInv, TypeOK, Once, Poll
    <2>2. TypeOK'
      BY <1>1, <2>1 DEF IInv, TypeOK, Poll
    <2>q. QED BY <1>1, <2>2, StartKept DEF Poll, IInv
  <1>2. CASE Accept(w)
    BY <1>2, AcceptOnce, StartKept DEF Accept, IInv
  <1>3. CASE AcceptNothing(w)
    <2>1. Once'
      BY <1>3, OnceStays DEF IInv, TypeOK, Once, AcceptNothing
    <2>2. TypeOK'
      BY <1>3, <2>1 DEF IInv, TypeOK, AcceptNothing
    <2>q. QED BY <1>3, <2>2, StartKept DEF AcceptNothing, IInv
  <1>4. CASE AcceptError(w)
    BY <1>4, ExitKeeps DEF AcceptError, AcceptCalled, Idle
  <1>q. QED BY <1>1, <1>2, <1>3, <1>4 DEF AcceptCallback

(* What the end of a session, or its second connection, changes. *)
LEMMA CloseOrLink ==
    ASSUME TypeOK, NEW w \in Workers, NEW c \in Conns,
           Close(w, c) \/ Link(w, c) \/ UNCHANGED <<held, linked>>
    PROVE  /\ held' \in [Workers -> SUBSET Conns] /\ linked' \subseteq Conns
           /\ \A v \in Workers : held'[v] \subseteq held[v]
           /\ \A v \in Workers : v # w => held'[v] = held[v]
           /\ held[w] \ {c} \subseteq held'[w]
  <1>1. CASE Close(w, c)
    BY <1>1 DEF TypeOK, Close
  <1>2. CASE UNCHANGED <<held, linked>>
    BY <1>2 DEF TypeOK
  <1>3. CASE Link(w, c)
    BY <1>1, <1>3 DEF TypeOK, Link
  <1>q. QED BY <1>1, <1>2, <1>3

(* A step of a session that ends no worker. *)
LEMMA HeldShrinks ==
    ASSUME IInv, \E w \in Workers, c \in Conns :
              Close(w, c) \/ Link(w, c) \/ UNCHANGED <<held, linked>>,
           UNCHANGED <<worker, watching, ready, backlog, outside, processVars>>,
           busy' \subseteq Workers \X Conns, full' \subseteq Workers \X Conns,
           \A p \in busy' \cup full' : p[2] \in held'[p[1]], busy' \cap full' = {}
    PROVE  IInv'
  <1>. USE DEF outside, processVars
  <1>1. /\ held' \in [Workers -> SUBSET Conns] /\ linked' \subseteq Conns
        /\ \A v \in Workers : held'[v] \subseteq held[v]
    BY CloseOrLink DEF IInv
  <1>2. Once'
    BY <1>1, OnceShrinks DEF IInv
  <1>3. TypeOK'
    BY <1>1, <1>2 DEF IInv, TypeOK
  <1>q. QED BY <1>3, StartKept DEF IInv

LEMMA SessionKeeps ==
    ASSUME IInv, NEW w \in Workers, Session(w)
    PROVE  IInv'
  <1>. PICK c \in held[w] :
            \/ CloseSession(w, c) \/ CreateRemoteServer(w, c)
            \/ Resolve(w, c) \/ SendAll(w, c) \/ SendAllEnds(w, c)
            \/ WriteReset(w, c) \/ Throw(w, c)
    BY DEF Session
  <1>0. c \in Conns /\ TypeOK
    BY DEF IInv, TypeOK
  <1>1. CASE CloseSession(w, c) \/ CreateRemoteServer(w, c)
    <2>. USE DEF CloseSession, CreateRemoteServer, loopVars
    <2>1. Close(w, c) \/ Link(w, c)
      BY <1>1
    <2>2. \A p \in busy' \cup full' : p[2] \in held'[p[1]]
      BY <1>0, <1>1, <2>1, CloseOrLink, PairsOfOthers
    <2>3. busy' \cap full' = {} /\ busy' \subseteq Workers \X Conns /\ full' \subseteq Workers \X Conns
      BY <1>0, <1>1 DEF TypeOK, Once
    <2>q. QED BY <1>0, <1>1, <2>1, <2>2, <2>3, HeldShrinks
  <1>2. CASE Resolve(w, c) \/ SendAll(w, c)
    <2>1. UNCHANGED <<held, linked, worker, watching, ready, backlog, outside, processVars>>
      BY <1>2 DEF Resolve, SendAll, connVars
    <2>2. /\ busy' \subseteq Workers \X Conns /\ full' \subseteq Workers \X Conns
          /\ \A p \in busy' \cup full' : p[2] \in held'[p[1]]
      BY <1>0, <1>2, <2>1 DEF Resolve, SendAll, TypeOK, Once
    <2>3. busy' \cap full' = {}
      BY <1>0, <1>2 DEF Resolve, SendAll, TypeOK, Once, Idle
    <2>q. QED BY <1>0, <2>1, <2>2, <2>3, HeldShrinks
  <1>3. CASE SendAllEnds(w, c)
    <2>1. CASE Exit(w)
      <3>1. worker[w] = "running" /\ backlog' = backlog
        BY <1>0, <1>3 DEF SendAllEnds, TypeOK
      <3>q. QED BY <2>1, <3>1, ExitKeeps
    <2>2. CASE ~Exit(w)
      <3>1. /\ <<w, c>> \in full /\ full' = full \ {<<w, c>>}
            /\ UNCHANGED <<worker, watching, ready, busy, backlog, outside, processVars>>
            /\ Close(w, c) \/ UNCHANGED <<held, linked>>
        BY <1>3, <2>2 DEF SendAllEnds
      <3>2. \A p \in busy' \cup full' : p \in busy \cup full /\ p # <<w, c>>
        BY <1>0, <3>1 DEF TypeOK, Once
      <3>3. \A p \in busy' \cup full' : p[2] \in held'[p[1]]
        BY <1>0, <3>1, <3>2, CloseOrLink DEF TypeOK, Once
      <3>4. /\ busy' \cap full' = {}
            /\ busy' \subseteq Workers \X Conns /\ full' \subseteq Workers \X Conns
        BY <1>0, <3>1 DEF TypeOK, Once
      <3>q. QED BY <1>0, <3>1, <3>3, <3>4, HeldShrinks
    <2>q. QED BY <2>1, <2>2
  <1>4. CASE WriteReset(w, c) \/ Throw(w, c)
    BY <1>4, ExitKeeps DEF WriteReset, Throw, Idle
  <1>q. QED BY <1>1, <1>2, <1>3, <1>4

(* An answer of the resolver; the worker has gone on to nothing else. *)
LEMMA ResolvedKeeps ==
    ASSUME IInv, NEW w \in Workers, ResolverAnswers(w)
    PROVE  IInv'
  <1>. PICK c \in Conns : Resolved(w, c)
    BY DEF ResolverAnswers
  <1>0. TypeOK
    BY DEF IInv
  <1>1. CASE Exit(w)
    <2>1. worker[w] = "running" /\ backlog' = backlog
      BY <1>0 DEF Resolved, TypeOK, Once
    <2>q. QED BY <1>1, <2>1, ExitKeeps
  <1>2. CASE ~Exit(w)
    <2>1. /\ <<w, c>> \in busy /\ busy' = busy \ {<<w, c>>}
          /\ UNCHANGED <<worker, watching, ready, full, backlog, outside, processVars>>
          /\ Close(w, c) \/ Link(w, c)
      BY <1>2 DEF Resolved
    <2>2. \A p \in busy' \cup full' : p \in busy \cup full /\ p # <<w, c>>
      BY <1>0, <2>1 DEF TypeOK, Once
    <2>3. \A p \in busy' \cup full' : p[2] \in held'[p[1]]
      BY <1>0, <2>1, <2>2, CloseOrLink DEF TypeOK, Once
    <2>4. /\ busy' \cap full' = {}
          /\ busy' \subseteq Workers \X Conns /\ full' \subseteq Workers \X Conns
      BY <1>0, <2>1 DEF TypeOK, Once
    <2>q. QED BY <2>1, <2>3, <2>4, HeldShrinks
  <1>q. QED BY <1>1, <1>2

(* A connection can arrive only where a process listens. *)
LEMMA EnvironmentKeeps ==
    ASSUME IInv, Environment
    PROVE  IInv'
  <1>0. TypeOK
    BY DEF IInv
  <1>1. ASSUME NEW c \in Conns, Arrive(c)
        PROVE  IInv'
    <2>. USE <1>1 DEF Arrive
    <2>1. main \notin Before
      BY RunningIsForked DEF Listening, Before
    <2>2. /\ backlog' \in Seq(Conns) /\ Len(backlog') = Len(backlog) + 1
          /\ backlog'[Len(backlog) + 1] = c
          /\ \A i \in 1..Len(backlog) : backlog'[i] = backlog[i]
      BY <1>0 DEF TypeOK
    <2>3. ~Waiting(c) /\ \A v \in Workers : c \notin held[v]
      BY <1>0 DEF TypeOK, Once
    <2>4. \A i, j \in 1..Len(backlog') : backlog'[i] = backlog'[j] => i = j
      BY <1>0, <2>2, <2>3 DEF TypeOK, Once, Waiting
    <2>5. \A d \in Conns : Waiting(d)' => d = c \/ Waiting(d)
      BY <1>0, <2>2 DEF TypeOK, Waiting
    <2>6. UNCHANGED <<held, worker, watching, ready, busy, full, linked, reset, scarce>>
      BY DEF loopVars
    <2>7. \A d \in Conns : Waiting(d)' => d \notin new' /\ \A v \in Workers : d \notin held'[v]
      BY <1>0, <2>3, <2>5, <2>6 DEF TypeOK, Once
    <2>8. Once'
      BY <1>0, <2>4, <2>6, <2>7 DEF TypeOK, Once
    <2>9. TypeOK'
      BY <1>0, <2>2, <2>6, <2>8 DEF TypeOK, processVars
    <2>10. Starting'
      BY <2>1, <2>6 DEF IInv, Starting, processVars, Count, ProcessCount
    <2>q. QED BY <2>9, <2>10 DEF IInv
  <1>2. CASE Shortage \/ \E c \in Conns : Resets(c)
    <2>. USE DEF Shortage, Resets, loopVars, processVars
    <2>1. Once'
      BY <1>0, <1>2, OnceStays DEF TypeOK, Once
    <2>2. TypeOK'
      BY <1>0, <1>2, <2>1 DEF TypeOK
    <2>q. QED BY <1>2, <2>2, StartKept DEF IInv
  <1>q. QED BY <1>1, <1>2 DEF Environment

LEMMA StepKeeps == IInv /\ [Next]_vars => IInv'
  <1>. SUFFICES ASSUME IInv, [Next]_vars PROVE IInv'
    OBVIOUS
  <1>1. CASE Start
    BY <1>1, StartKeeps
  <1>2. CASE Environment
    BY <1>2, EnvironmentKeeps
  <1>3. ASSUME NEW w \in Workers, Poll(w) \/ AcceptCallback(w) \/ Session(w) \/ ResolverAnswers(w)
        PROVE  IInv'
    BY <1>3, AcceptKeeps, SessionKeeps, ResolvedKeeps
  <1>4. CASE UNCHANGED vars
    <2>1. Once'
      BY <1>4 DEF IInv, TypeOK, Once, Waiting, vars
    <2>q. QED BY <1>4, <2>1 DEF IInv, TypeOK, Starting, vars, Count, ProcessCount
  <1>q. QED BY <1>1, <1>2, <1>3, <1>4 DEF Next

LEMMA Invariance == Spec => []IInv
  <1>q. QED BY InitEstablishes, StepKeeps, PTL DEF Spec

-----------------------------------------------------------------------------
\* Type correctness: a connection is held by workers that run only.
THEOREM TypesAreKept == Spec => []TypeOK
  <1>1. IInv => TypeOK
    BY DEF IInv
  <1>q. QED BY <1>1, Invariance, PTL

\* Whatever count is configured, that many workers are forked, within the
\* bounds of the code, and none where the program could not start.
THEOREM StartsAsConfigured == Spec => []StartedAsConfigured
  <1>1. IInv => StartedAsConfigured
    BY CountRange DEF IInv, Starting, StartedAsConfigured, Before
  <1>q. QED BY <1>1, Invariance, PTL

(* A connection that the worker held, or that was the first to wait, is    *)
(* nowhere when the worker has ended.                                      *)
LEMMA HeldIsOver ==
    ASSUME TypeOK, NEW w \in Workers, NEW c \in held[w], Exit(w), backlog' = backlog
    PROVE  Over(c)'
  <1>1. c \in Conns /\ c \notin new /\ ~Waiting(c) /\ \A v \in Workers : v # w => c \notin held[v]
    BY DEF TypeOK, Once
  <1>2. \A v \in Workers : held'[v] = IF v = w THEN {} ELSE held[v]
    BY DEF Exit, TypeOK
  <1>q. QED BY <1>1, <1>2 DEF Over, Waiting, Exit, outside

LEMMA FirstIsOver ==
    ASSUME TypeOK, NEW w \in Workers, backlog # <<>>, backlog' = Tail(backlog), Exit(w),
           NEW c \in Conns, c = Head(backlog)
    PROVE  Over(c)'
  <1>1. /\ c = backlog[1] /\ 1 \in 1..Len(backlog)
        /\ \A i \in 1..Len(Tail(backlog)) : /\ Tail(backlog)[i] = backlog[i + 1]
                                            /\ i + 1 \in 1..Len(backlog) /\ i + 1 # 1
    BY DEF TypeOK
  <1>2. ~Waiting(c)'
    BY <1>1 DEF TypeOK, Once, Waiting
  <1>3. c \notin new /\ \A v \in Workers : c \notin held[v]
    BY <1>1 DEF TypeOK, Once, Waiting
  <1>4. \A v \in Workers : held'[v] \subseteq held[v]
    BY DEF Exit, TypeOK
  <1>5. c \notin new' /\ \A v \in Workers : c \notin held'[v]
    BY <1>3, <1>4 DEF Exit, outside
  <1>q. QED BY <1>2, <1>5 DEF Over

ForCause(w) ==
    \/ w \in ready /\ NoDescriptor(w)
    \/ \E c \in Conns : Fatal(w, c) /\ Over(c)'

(* An exit is one of acceptCallback, of a session or of the resolver's     *)
(* answer, and of the worker that takes the step.                          *)
LEMMA ExitHasCause ==
    ASSUME IInv, Next, NEW w \in Workers, worker[w] = "running", worker'[w] = "exited"
    PROVE  ForCause(w)
  <1>0. TypeOK
    BY DEF IInv
  <1>1. \A v \in Workers : Exit(v) => v = w
    BY <1>0 DEF Exit, TypeOK
  <1>2. ~Start
    <2>1. CASE Fork
      BY <1>0, <2>1 DEF Fork, TypeOK
    <2>2. CASE Daemonize \/ ReadSettings \/ CreateLocalServer \/ AllForked
      BY <2>2 DEF Daemonize, ReadSettings, CreateLocalServer, AllForked, loopVars
    <2>q. QED BY <2>1, <2>2 DEF Start
  <1>3. ~Environment
    BY DEF Environment, Arrive, Resets, Shortage, loopVars
  <1>4. PICK v \in Workers :
            Poll(v) \/ AcceptCallback(v) \/ Session(v) \/ ResolverAnswers(v)
    BY <1>2, <1>3 DEF Next
  <1>5. ~Poll(v) /\ ~Accept(v) /\ ~AcceptNothing(v)
    BY DEF Poll, Accept, AcceptNothing
  <1>6. CASE AcceptError(v)
    <2>1. v = w /\ w \in ready /\ Exit(w)
      BY <1>1, <1>6 DEF AcceptError, AcceptCalled
    <2>2. CASE NoDescriptor(w)
      BY <2>1, <2>2 DEF ForCause
    <2>3. CASE ~NoDescriptor(w)
      <3>1. backlog # <<>> /\ Head(backlog) \in reset /\ backlog' = Tail(backlog)
        BY <1>6, <2>1, <2>3 DEF AcceptError
      <3>2. PICK c \in Conns : c = Head(backlog)
        BY <1>0, <3>1 DEF TypeOK
      <3>3. Fatal(w, c)
        BY <2>1, <3>1, <3>2 DEF Fatal
      <3>4. Over(c)'
        BY <1>0, <2>1, <3>1, <3>2, FirstIsOver
      <3>q. QED BY <3>3, <3>4 DEF ForCause
    <2>q. QED BY <2>2, <2>3
  <1>7. ASSUME NEW c \in held[v], Fatal(v, c), Exit(v), backlog' = backlog
        PROVE  ForCause(w)
    <2>1. v = w /\ c \in Conns
      BY <1>0, <1>1, <1>7 DEF TypeOK
    <2>2. Over(c)'
      BY <1>0, <1>7, <2>1, HeldIsOver
    <2>q. QED BY <1>7, <2>1, <2>2 DEF ForCause
  <1>8. CASE Session(v)
    <2>1. PICK c \in held[v] :
              \/ CloseSession(v, c) \/ CreateRemoteServer(v, c)
              \/ Resolve(v, c) \/ SendAll(v, c) \/ SendAllEnds(v, c)
              \/ WriteReset(v, c) \/ Throw(v, c)
      BY <1>8 DEF Session
    <2>2. Exit(v) /\ backlog' = backlog /\ Fatal(v, c)
      BY <2>1 DEF CloseSession, CreateRemoteServer, Resolve, SendAll, SendAllEnds, WriteReset,
                  Throw, loopVars, Fatal
    <2>q. QED BY <1>7, <2>2
  <1>9. CASE ResolverAnswers(v)
    <2>1. PICK c \in Conns : Resolved(v, c)
      BY <1>9 DEF ResolverAnswers
    <2>2. c \in held[v]
      BY <1>0, <2>1 DEF Resolved, TypeOK, Once
    <2>3. Exit(v) /\ backlog' = backlog /\ Fatal(v, c)
      BY <2>1 DEF Resolved, Fatal
    <2>q. QED BY <1>7, <2>2, <2>3
  <1>q. QED BY <1>4, <1>5, <1>6, <1>8, <1>9 DEF AcceptCallback

\* A worker ends only where accept has no descriptor for it or by one
\* connection, which ends no second worker; the race for a connection ends
\* none.
THEOREM WorkersExitForCause == Spec => ExitsForCause
  <1>1. IInv /\ [Next]_vars =>
          [\A w \in Workers :
             worker[w] = "running" /\ worker'[w] = "exited" =>
                \/ w \in ready /\ NoDescriptor(w)
                \/ \E c \in Conns : Fatal(w, c) /\ Over(c)']_vars
    BY ExitHasCause DEF ForCause
  <1>q. QED BY <1>1, Invariance, PTL DEF Spec, ExitsForCause
=============================================================================
