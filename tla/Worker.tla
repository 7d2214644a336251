------------------------------- MODULE Worker -------------------------------
(***************************************************************************)
(* The processes of SocksTunnelLocal, and of SocksTunnelServer, which      *)
(* starts its own in the same way: main becomes a daemon, reads its        *)
(* settings, listens, forks the workers and exits; the workers accept from *)
(* the one listener and relay.  A worker is one thread; what it does for   *)
(* one connection is done for none of the others meanwhile.  Nobody starts *)
(* a worker anew.                                                          *)
(***************************************************************************)
EXTENDS Settings, FiniteSets

CONSTANTS
    MaxProc,     \* most workers (100)
    Conns,       \* connections clients may make
    Backlog,     \* connections listen lets wait (10)
    FdLimit,     \* descriptors a worker can have for its sessions
    IPv6Names,   \* connections that ask for a name with IPv6 addresses only
    Resetters,   \* connections that may be reset
    LongNames,   \* connections that ask for a name of 249 bytes or more
    Setups       \* program: local or server; file: can the settings be read, and how
                 \* is it named; addr: can it be bound; js: the settings

CountItem(s) == IF s.program = "local" THEN "local_proc_count" ELSE "remote_proc_count"

ASSUME WorkerAssumption ==
    /\ MaxProc \in Nat \ {0} /\ Backlog \in Nat \ {0} /\ FdLimit \in Nat \ {0}
    /\ \A s \in Setups : IntSetting(s.js, CountItem(s), 1) \in Int

Workers == 1..MaxProc

VARIABLES
    main,      \* how far the starting process is
    setting,   \* the settings, as they are in the file
    forks,     \* how often fork has been called for a worker
    worker,    \* state of each worker
    watching,  \* workers whose loop watches the listener
    ready,     \* workers whose loop will call acceptCallback
    busy,      \* workers that wait in getaddrinfo, each with its connection
    full,      \* workers in sendAll on a full socket, each with its connection
    backlog,   \* connections not accepted yet
    new,       \* connections not made yet
    held,      \* connections of each worker
    linked,    \* of those, the ones whose session has its RemoteServer
    reset,     \* connections that were reset, waiting or with data to write
    scarce     \* is the whole system out of descriptors or memory?

vars == <<main, setting, forks, worker, watching, ready, busy, full, backlog, new,
          held, linked, reset, scarce>>

processVars == <<main, setting, forks>>
loopVars == <<worker, watching, ready, busy, full>>
outside == <<new, reset, scarce>>
connVars == <<backlog, held, linked, outside>>

Init ==
    /\ main = "daemonize"
    /\ setting \in Setups
    /\ forks = 0
    /\ worker = [w \in Workers |-> "none"]
    /\ watching = {} /\ ready = {} /\ busy = {} /\ full = {}
    /\ backlog = <<>> /\ new = Conns
    /\ held = [w \in Workers |-> {}]
    /\ linked = {} /\ reset = {}
    /\ scarce = FALSE

-----------------------------------------------------------------------------
(***************************************************************************)
(* Starting                                                                *)
(***************************************************************************)
\* daemonize forks twice, each time leaving the parent, closes what is open
\* and changes to the root directory.
Daemonize ==
    /\ main = "daemonize"
    /\ main' \in {"settings", "failed"}
    /\ UNCHANGED <<setting, forks, loopVars, connVars>>

\* serverInit reads the settings after that, so that a path relative to the
\* directory the program was started in names another file, or none; then,
\* and when the file is malformed, an exception nobody catches ends the
\* process.
ReadSettings ==
    /\ main = "settings"
    /\ main' = IF setting.file = "absolute" THEN "listen" ELSE "failed"
    /\ UNCHANGED <<setting, forks, loopVars, connVars>>

\* createLocalServer exits if the address cannot be parsed or bound.
CreateLocalServer ==
    /\ main = "listen"
    /\ main' = IF setting.addr THEN "fork" ELSE "failed"
    /\ UNCHANGED <<setting, forks, loopVars, connVars>>

\* getProcessCount and getLocalProcessCount.
ProcessCount == IntSetting(setting.js, CountItem(setting), 1)

\* Variant: no lower bound.
AtMost == IF ProcessCount > MaxProc THEN MaxProc ELSE ProcessCount

\* max(cnt, 1), then min(cnt, 100).
Count ==
    LET atLeast == IF ProcessCount < 1 THEN 1 ELSE ProcessCount
    IN  IF atLeast > MaxProc THEN MaxProc ELSE atLeast

\* Variant: one turn more.
OneForkMore == forks <= Count
MoreToFork == forks < Count

\* fork and, in the child, __doStart.  A fork that fails is passed over.
Fork ==
    /\ main = "fork" /\ MoreToFork
    /\ forks' = forks + 1
    /\ \/ /\ worker' = [worker EXCEPT ![forks + 1] = "running"]
          /\ watching' = watching \cup {forks + 1}
       \/ UNCHANGED <<worker, watching>>
    /\ UNCHANGED <<main, setting, ready, busy, full, connVars>>

\* The starting process exits when all are forked.
AllForked ==
    /\ main = "fork" /\ ~MoreToFork
    /\ main' = "done"
    /\ UNCHANGED <<setting, forks, loopVars, connVars>>

-----------------------------------------------------------------------------
(***************************************************************************)
(* The event loop of a worker                                              *)
(***************************************************************************)
Idle(w) == worker[w] = "running" /\ \A c \in Conns : <<w, c>> \notin busy \cup full

Descriptors(w) == Cardinality(held[w]) + Cardinality(held[w] \cap linked)

NoDescriptor(w) == scarce \/ Descriptors(w) >= FdLimit

\* The worker ends; the system closes what it held.
Exit(w) ==
    /\ worker' = [worker EXCEPT ![w] = "exited"]
    /\ watching' = watching \ {w} /\ ready' = ready \ {w}
    /\ busy' = {p \in busy : p[1] # w} /\ full' = {p \in full : p[1] # w}
    /\ held' = [held EXCEPT ![w] = {}] /\ linked' = linked \ held[w]
    /\ UNCHANGED <<outside, processVars>>

\* The loop finds the listener readable.  Every worker does, for the same
\* connection.
Poll(w) ==
    /\ Idle(w) /\ w \in watching /\ w \notin ready
    /\ backlog # <<>>
    /\ ready' = ready \cup {w}
    /\ UNCHANGED <<worker, watching, busy, full, processVars, connVars>>

AcceptCalled(w) == Idle(w) /\ w \in ready

Accept(w) ==
    /\ AcceptCalled(w) /\ backlog # <<>> /\ ~NoDescriptor(w)
    /\ held' = [held EXCEPT ![w] = @ \cup {Head(backlog)}]
    /\ backlog' = Tail(backlog)
    /\ ready' = ready \ {w}
    /\ UNCHANGED <<worker, watching, busy, full, linked, outside, processVars>>

\* Variants: EAGAIN is taken for an error, and an error stops the watcher
\* but not the worker.
AcceptNothingExits(w) ==
    /\ AcceptCalled(w) /\ backlog = <<>> /\ ~NoDescriptor(w)
    /\ Exit(w)
    /\ UNCHANGED backlog

AcceptErrorStays(w) ==
    /\ AcceptCalled(w) /\ NoDescriptor(w)
    /\ watching' = watching \ {w} /\ ready' = ready \ {w}
    /\ UNCHANGED <<worker, busy, full, processVars, connVars>>

\* Another worker has accepted it: EAGAIN.
AcceptNothing(w) ==
    /\ AcceptCalled(w) /\ backlog = <<>> /\ ~NoDescriptor(w)
    /\ ready' = ready \ {w}
    /\ UNCHANGED <<worker, watching, busy, full, processVars, connVars>>

\* Every other error ends the worker: no descriptor or memory, which is found
\* before whether a connection waits, and, where the system reports it in
\* this way, that the connection was broken off while it waited.
AcceptError(w) ==
    /\ AcceptCalled(w)
    /\ \/ NoDescriptor(w) /\ UNCHANGED backlog
       \/ /\ ~NoDescriptor(w) /\ backlog # <<>> /\ Head(backlog) \in reset
          /\ backlog' = Tail(backlog)
    /\ Exit(w)

Close(w, c) == held' = [held EXCEPT ![w] = @ \ {c}] /\ linked' = linked \ {c}

CloseSession(w, c) ==
    /\ Idle(w) /\ c \in held[w]
    /\ Close(w, c)
    /\ UNCHANGED <<backlog, outside, loopVars, processVars>>

IsLocal == setting.program = "local"

\* The requests that throw: in SocksTunnelLocal a name whose length is
\* negative for assign, in SocksTunnelServer, without the member "user",
\* every AuthMsg that is accepted.
Throws(c) == IF IsLocal THEN c \in LongNames ELSE UserMapThrows(setting.js)

\* Nobody catches the exception.  SocksTunnelLocal has the descriptor for its
\* peer by then, or has closed the session.
Throw(w, c) ==
    /\ Idle(w) /\ c \in held[w] \ linked
    /\ Throws(c) /\ (IsLocal => ~NoDescriptor(w))
    /\ Exit(w) /\ UNCHANGED backlog

\* createRemoteServer gives the session its second descriptor; without one
\* it is closed.
Link(w, c) ==
    IF NoDescriptor(w) THEN Close(w, c) ELSE linked' = linked \cup {c} /\ UNCHANGED held

\* SocksTunnelLocal connects to its peer, SocksTunnelServer to an address.
CreateRemoteServer(w, c) ==
    /\ Idle(w) /\ c \in held[w] \ linked
    /\ ~Throws(c) /\ (IsLocal \/ c \notin IPv6Names)
    /\ Link(w, c)
    /\ UNCHANGED <<backlog, outside, loopVars, processVars>>

\* For a name, createRemoteServer waits for getaddrinfo first.
Resolve(w, c) ==
    /\ Idle(w) /\ c \in held[w] \ linked
    /\ ~IsLocal /\ ~Throws(c)
    /\ busy' = busy \cup {<<w, c>>}
    /\ UNCHANGED <<worker, watching, ready, full, processVars, connVars>>

\* It may find nothing; and without an IPv4 address among what it has found
\* the search reads through a null pointer.
Resolved(w, c) ==
    /\ <<w, c>> \in busy
    /\ \/ /\ \/ c \notin IPv6Names /\ Link(w, c)
             \/ Close(w, c)
          /\ busy' = busy \ {<<w, c>>}
          /\ UNCHANGED <<worker, watching, ready, full, outside, processVars>>
       \/ c \in IPv6Names /\ Exit(w)
    /\ UNCHANGED backlog

ResolverAnswers(w) == \E c \in Conns : Resolved(w, c)

\* A client that repeats a greeting that is refused, and does not read the
\* answers, fills its socket; sendAll then tries again and again, until the
\* client reads on or is gone.
SendAll(w, c) ==
    /\ Idle(w) /\ c \in held[w] \ linked
    /\ IsLocal
    /\ full' = full \cup {<<w, c>>}
    /\ UNCHANGED <<worker, watching, ready, busy, processVars, connVars>>

\* All is sent, or sendAll gives up: after more than ten tries with some of
\* the answer sent, or with an error.  A write to a connection that was reset
\* can also raise SIGPIPE, here and in WriteReset.
SendAllEnds(w, c) ==
    /\ <<w, c>> \in full
    /\ \/ /\ \/ Close(w, c)
             \/ c \notin reset /\ UNCHANGED <<held, linked>>
          /\ full' = full \ {<<w, c>>}
          /\ UNCHANGED <<worker, watching, ready, busy, outside, processVars>>
       \/ c \in reset /\ Exit(w)
    /\ UNCHANGED backlog

\* A write to a connection that was reset: an error, as in CloseSession, or
\* SIGPIPE, which nobody ignores.
WriteReset(w, c) ==
    /\ Idle(w) /\ c \in held[w] \cap reset
    /\ Exit(w) /\ UNCHANGED backlog

-----------------------------------------------------------------------------
(***************************************************************************)
(* Clients and the system                                                  *)
(***************************************************************************)
\* The listener is open as long as a process has it.
Listening == main = "fork" \/ \E w \in Workers : worker[w] = "running"

Arrive(c) ==
    /\ Listening /\ c \in new /\ Len(backlog) < Backlog
    /\ new' = new \ {c} /\ backlog' = Append(backlog, c)
    /\ UNCHANGED <<held, linked, reset, scarce, loopVars, processVars>>

Waiting(c) == \E i \in 1..Len(backlog) : backlog[i] = c

Resets(c) ==
    /\ Waiting(c) \/ \E w \in Workers : c \in held[w]
    /\ c \in Resetters \ reset /\ reset' = reset \cup {c}
    /\ UNCHANGED <<backlog, new, held, linked, scarce, loopVars, processVars>>

\* Other processes use up what the system has, and give it back.
Shortage ==
    /\ scarce' = ~scarce
    /\ UNCHANGED <<backlog, new, held, linked, reset, loopVars, processVars>>

-----------------------------------------------------------------------------
Start == Daemonize \/ ReadSettings \/ CreateLocalServer \/ Fork \/ AllForked

AcceptCallback(w) == Accept(w) \/ AcceptNothing(w) \/ AcceptError(w)

Session(w) ==
    \E c \in held[w] :
        \/ CloseSession(w, c) \/ CreateRemoteServer(w, c)
        \/ Resolve(w, c) \/ SendAll(w, c) \/ SendAllEnds(w, c)
        \/ WriteReset(w, c) \/ Throw(w, c)

Environment == Shortage \/ \E c \in Conns : Arrive(c) \/ Resets(c)

Next ==
    \/ Start \/ Environment
    \/ \E w \in Workers :
          Poll(w) \/ AcceptCallback(w) \/ Session(w) \/ ResolverAnswers(w)

Spec == Init /\ [][Next]_vars

\* main goes on, a loop that is come back to again and again polls and calls
\* back, and the resolver answers, if only that it found nothing in time.
\* Nothing makes a client read.
FairSpec ==
    /\ Spec
    /\ WF_vars(Start)
    /\ \A w \in Workers :
          SF_vars(Poll(w)) /\ SF_vars(AcceptCallback(w)) /\ WF_vars(ResolverAnswers(w))

-----------------------------------------------------------------------------
(***************************************************************************)
(* Properties                                                              *)
(***************************************************************************)
\* A connection is new, waits, is held by one worker, or is over.
Once ==
    /\ \A i, j \in 1..Len(backlog) : backlog[i] = backlog[j] => i = j
    /\ \A c \in Conns : Waiting(c) => c \notin new /\ \A w \in Workers : c \notin held[w]
    /\ \A w \in Workers : held[w] \cap new = {}
    /\ \A v, w \in Workers : v # w => held[v] \cap held[w] = {}
    /\ \A p \in busy \cup full : p[2] \in held[p[1]]
    /\ busy \cap full = {}

\* The variables keep their types; only running workers hold connections,
\* and no two of them the same one.
TypeOK ==
    /\ main \in {"daemonize", "settings", "listen", "fork", "done", "failed"}
    /\ forks \in 0..MaxProc
    /\ worker \in [Workers -> {"none", "running", "exited"}]
    /\ watching \subseteq Workers /\ ready \subseteq watching /\ busy \subseteq Workers \X Conns
    /\ full \subseteq Workers \X Conns
    /\ new \subseteq Conns /\ held \in [Workers -> SUBSET Conns]
    /\ linked \subseteq Conns /\ reset \subseteq Conns /\ scarce \in BOOLEAN
    /\ backlog \in Seq(Conns) /\ Len(backlog) <= Backlog
    /\ \A w \in Workers : held[w] # {} => worker[w] = "running"
    /\ Once

\* README.md gives the number of processes as 1-100: whatever is configured,
\* that many forks are tried, at least one and at most MaxProc, and none if
\* the program could not start.
StartedAsConfigured ==
    /\ main = "done" =>
         /\ forks \in Workers
         /\ ProcessCount \in Workers => forks = ProcessCount
    /\ main = "failed" => forks = 0 /\ new = Conns

Over(c) == c \notin new /\ ~Waiting(c) /\ \A w \in Workers : c \notin held[w]

\* What a connection can end a worker by: a reset, before it is accepted or
\* when it is written to, a name without an IPv4 address, an exception.
Fatal(w, c) ==
    \/ c \in reset /\ c \in held[w]
    \/ c \in reset /\ w \in ready /\ backlog # <<>> /\ c = Head(backlog)
    \/ c \in IPv6Names /\ <<w, c>> \in busy
    \/ c \in held[w] \ linked /\ Throws(c)

\* A worker ends only where accept has no descriptor left for it, or by a
\* connection that can do so, and that connection is over then: none takes
\* two workers with it.  Losing the race for a connection to another worker
\* is no reason.
ExitsForCause ==
    [][\A w \in Workers :
          worker[w] = "running" /\ worker'[w] = "exited" =>
             \/ w \in ready /\ NoDescriptor(w)
             \/ \E c \in Conns : Fatal(w, c) /\ Over(c)']_vars

\* Can the worker accept, now or when the resolver has answered?
Serving(w) == worker[w] = "running" /\ \A c \in Conns : <<w, c>> \notin full

\* A connection that waits is accepted as long as a worker is serving, even
\* if others were faster, some have ended, wait for the resolver or are kept
\* in sendAll by a client.
PendingAccepted ==
    \A c \in Conns : Waiting(c) ~> (~Waiting(c) \/ \A w \in Workers : ~Serving(w))
=============================================================================
