---------------------------- MODULE DaemonProxy ----------------------------
(***************************************************************************)
(* The stdio proxy between one MCP client (the agent) and the shared       *)
(* daemon, src/src/proxy.ts.  It survives the daemon: requests wait in a   *)
(* queue, those already sent are sent again to the next daemon after a     *)
(* replayed handshake, and each must be answered in the end.  A newer      *)
(* installed build makes it drop a working connection, or replace its own  *)
(* process.                                                                *)
(*                                                                         *)
(* An action is one callback of the event loop with the continuations that *)
(* follow it without I/O.  The daemon is what the proxy sees of it.        *)
(***************************************************************************)
EXTENDS Naturals, Sequences, FiniteSets, FiniteSetsExt, SequencesExt

CONSTANTS
    Requests,     \* tool calls of the agent, each with an id of its own
    MaxBuffered,  \* maxBufferedRequests
    MaxConns,     \* bound: connections that are opened
    MaxBumps,     \* bound: version bumps answered by a reconnect
    MaxReexecs    \* bound: version bumps answered by a re-exec

ASSUME ProxyAssumption ==
    /\ {"initialize", "initialized"} \cap Requests = {}
    /\ {MaxBuffered, MaxConns, MaxBumps, MaxReexecs} \subseteq Nat

Reqs == Requests \cup {"initialize"}
Msgs == Reqs \cup {"initialized"}

VARIABLES
    arrived,        \* what the agent has sent, in order: sequence numbers
    answers,        \* per request: what the agent was answered, in order
    out,            \* requests with an answer still being flushed to the agent
    queue,          \* messages to write to the daemon
    pend,           \* per request: whether pendingRequests or expiredRequestKeys has it
    sent,           \* pending requests marked sent
    writing,        \* the write that is awaited, if any
    sock,           \* daemonSocket: the number of the connection, 0 for null
    conns,          \* connections opened so far
    phase,          \* daemonReady and replayingInitialize
    loop,           \* reconnectLoop: where it awaits
    connecting,
    backoff,        \* the timer of reconnectAfterDelay is armed
    outage,         \* bufferedRequestTimer is armed
    initKnown,      \* initializeRequest is set
    initialized,    \* initializedNotification is set
    initDelivered,  \* initializeResultDelivered
    owed,           \* per request: copies this connection's daemon has to answer
    greeted,        \* initialize was written on this connection
    bump, bumps,    \* checkVersionBumpReconnect, and how often it started
    refresh,        \* remediateStaleSelf
    awaited,        \* the rejections remediateStaleSelf waits for
    reexecs,
    orphaned        \* ghost: writes that failed after their drop was handled

agent == <<arrived, answers, out>>
work == <<queue, pend, sent>>
link == <<sock, conns, phase, owed, greeted>>
connector == <<loop, connecting, backoff>>
handshake == <<initKnown, initialized, initDelivered>>
upgrade == <<bump, bumps, refresh, awaited, reexecs>>
vars == <<agent, work, writing, link, connector, outage, handshake, upgrade, orphaned>>

\* "result" and "refused" come from the daemon, "outage" from the buffered
\* request timer, "error" from any other rejection.
Answers == {"result", "refused", "outage", "error"}
NoWrite == [kind |-> "none", msg |-> "none", conn |-> 0]
Nothing == [r \in Reqs |-> 0]

\* start(): the first connection is opened at once.
Init ==
    /\ arrived = <<>> /\ answers = [r \in Reqs |-> <<>>] /\ out = {}
    /\ queue = <<>> /\ pend = [r \in Reqs |-> "new"] /\ sent = {}
    /\ writing = NoWrite
    /\ sock = 0 /\ conns = 0 /\ phase = "down" /\ owed = Nothing /\ greeted = FALSE
    /\ loop = "opening" /\ connecting = TRUE /\ backoff = FALSE
    /\ outage = FALSE
    /\ initKnown = FALSE /\ initialized = FALSE /\ initDelivered = FALSE
    /\ bump = "idle" /\ bumps = 0 /\ refresh = "idle" /\ awaited = {} /\ reexecs = 0
    /\ orphaned = {}

-----------------------------------------------------------------------------
(* The queue.                                                              *)

Pending == {r \in Reqs : pend[r] = "pending"}
IsRequest(m) == m \in Reqs
bufferedRequestCount(q) == Cardinality({i \in DOMAIN q : IsRequest(q[i])})

\* The entries of q with an index in I, in the order R.
Arranged(q, I, R) ==
    [k \in 1 .. Cardinality(I) |->
        q[CHOOSE i \in I : Cardinality({j \in I : <<j, i>> \in R}) = k]]

Kept(q, I) == Arranged(q, I, {p \in I \X I : p[1] <= p[2]})

\* failPendingRequest splices out the first entry of the request only.
Without(q, S) ==
    Kept(q, {i \in DOMAIN q : q[i] \notin S \/ \E j \in 1 .. i - 1 : q[j] = q[i]})

sequence(m) == CHOOSE n \in DOMAIN arrived : arrived[n] = m

\* A stable sort by sequence number.
BySequence(q) ==
    Arranged(q, DOMAIN q, {p \in (DOMAIN q) \X (DOMAIN q) :
        \/ sequence(q[p[1]]) < sequence(q[p[2]])
        \/ sequence(q[p[1]]) = sequence(q[p[2]]) /\ p[1] <= p[2]})

\* The agent is told: each request of S is answered with kind.
Tell(S, kind) ==
    /\ answers' = [r \in Reqs |-> IF r \in S THEN Append(answers[r], kind) ELSE answers[r]]
    /\ out' = out \cup S

\* An entry whose request is no longer pending is passed over.
Live(m, pd) == m = "initialized" \/ pd[m] = "pending"

\* flushQueue up to its next await, on connection c.
FlushFrom(q, snt, pd, c) ==
    LET live == {i \in DOMAIN q : Live(q[i], pd)}
    IN  IF live = {}
        THEN queue' = <<>> /\ sent' = snt /\ writing' = NoWrite
        ELSE LET i == Min(live)
             IN  /\ queue' = SubSeq(q, i + 1, Len(q))
                 /\ sent' = snt \cup ({q[i]} \cap Reqs)
                 /\ writing' = [kind |-> "flush", msg |-> q[i], conn |-> c]

\* void this.flushQueue(): one flush at a time.
Flush(q, pd) ==
    IF phase = "ready" /\ writing = NoWrite
    THEN FlushFrom(q, sent, pd, sock)
    ELSE queue' = q /\ UNCHANGED <<sent, writing>>

-----------------------------------------------------------------------------
(* The agent's messages.                                                   *)

TimerArmed == backoff \/ loop = "delay"

\* kickConnectionIfIdle, then ensureConnecting.
Kick ==
    /\ UNCHANGED backoff
    /\ IF sock = 0 /\ ~connecting /\ ~TimerArmed
       THEN loop' = "opening" /\ connecting' = TRUE
       ELSE UNCHANGED <<loop, connecting>>

\* The agent waits for an answer to initialize before it goes on.
MaySend(m) == m = "initialize" \/ answers["initialize"] # <<>>

Draining == refresh # "idle"
BufferFull == phase # "ready" /\ bufferedRequestCount(queue) >= MaxBuffered

AgentRequest(r) ==
    /\ pend[r] = "new" /\ MaySend(r)
    /\ arrived' = Append(arrived, r)
    /\ initKnown' = (initKnown \/ (r = "initialize" /\ ~Draining))
    /\ IF Draining \/ BufferFull
       THEN /\ Tell({r}, "error")
            /\ pend' = [pend EXCEPT ![r] = "done"]
            /\ UNCHANGED <<queue, sent, writing, connector, outage>>
       ELSE /\ pend' = [pend EXCEPT ![r] = "pending"]
            /\ outage' = (outage \/ phase # "ready")
            /\ Kick
            /\ Flush(Append(queue, r), pend')
            /\ UNCHANGED <<answers, out>>
    /\ UNCHANGED <<link, initialized, initDelivered, upgrade, orphaned>>

AgentInitialized ==
    /\ ~Contains(arrived, "initialized") /\ MaySend("initialized")
    /\ arrived' = Append(arrived, "initialized")
    /\ initialized' = TRUE
    /\ Kick
    /\ Flush(Append(queue, "initialized"), pend)
    /\ UNCHANGED <<answers, out, pend, link, outage, initKnown, initDelivered, upgrade, orphaned>>

\* The bytes of an answer have reached the agent.
OutFlushed(r) ==
    /\ r \in out
    /\ out' = out \ {r}
    /\ initDelivered' = (initDelivered \/ (r = "initialize" /\ Contains(answers[r], "result")))
    /\ UNCHANGED <<arrived, answers, work, writing, link, connector, outage, initKnown,
                   initialized, upgrade, orphaned>>

-----------------------------------------------------------------------------
(* Connecting.                                                             *)

\* Mutant: only a handshake that was answered is replayed.
ReplayIfAnswered == initKnown /\ pend["initialize"] = "done"

\* A replayed initialize goes first, unless the agent's own is still pending.
ReplayFirst == initKnown /\ pend["initialize"] # "pending"

\* Writes on a destroyed socket have failed before a later connect succeeds.
Opened ==
    /\ loop = "opening" /\ conns < MaxConns /\ writing = NoWrite
    /\ conns' = conns + 1 /\ sock' = conns + 1
    /\ owed' = Nothing /\ greeted' = FALSE
    /\ loop' = "idle" /\ connecting' = FALSE
    /\ IF ReplayFirst
       THEN /\ phase' = "replaying"
            /\ writing' = [kind |-> "replay", msg |-> "initialize", conn |-> conns + 1]
            /\ UNCHANGED <<queue, sent>>
       ELSE phase' = "ready" /\ FlushFrom(queue, sent, pend, conns + 1)
    /\ UNCHANGED <<agent, pend, backoff, outage, handshake, upgrade, orphaned>>

OpenFails ==
    /\ loop = "opening"
    /\ loop' = "spawning"
    /\ UNCHANGED <<agent, work, writing, link, connecting, backoff, outage, handshake, upgrade,
                   orphaned>>

\* The endpoint is not safe to use: the loop gives up until the agent speaks.
OpenUnsafe ==
    /\ loop = "opening"
    /\ loop' = "idle" /\ connecting' = FALSE
    /\ outage' = TRUE
    /\ UNCHANGED <<agent, work, writing, link, backoff, handshake, upgrade, orphaned>>

\* spawnInstalledDaemonAfterReconnectFailure has returned.
SpawnTried ==
    /\ loop = "spawning"
    /\ loop' = "delay"
    /\ outage' = TRUE
    /\ UNCHANGED <<agent, work, writing, link, connecting, backoff, handshake, upgrade, orphaned>>

DelayOver ==
    /\ loop = "delay"
    /\ loop' = "opening"
    /\ UNCHANGED <<agent, work, writing, link, connecting, backoff, outage, handshake, upgrade,
                   orphaned>>

BackoffOver ==
    /\ backoff
    /\ backoff' = FALSE /\ connecting' = TRUE /\ loop' = "opening"
    /\ UNCHANGED <<agent, work, writing, link, outage, handshake, upgrade, orphaned>>

-----------------------------------------------------------------------------
(* Losing the connection.                                                  *)

Disconnected ==
    /\ sock' = 0 /\ phase' = "down" /\ owed' = Nothing /\ greeted' = FALSE
    /\ UNCHANGED conns

\* Mutant: only what was never written is kept.
RequeuedNone(q, snt) == {}

\* Sent requests that are not in the queue go back to it.
Requeued(q, snt) == snt \ ToSet(q)

\* enforceBufferCap fails the latest.
Overflow(q) ==
    LET IsOver(i) == IsRequest(q[i]) /\ bufferedRequestCount(SubSeq(q, 1, i)) > MaxBuffered
    IN  {q[i] : i \in {k \in DOMAIN q : IsOver(k)}} \cap Pending

\* handleDaemonDrop on a connection, but for reconnectAfterDelay.
Drop(q, snt) ==
    LET all == BySequence(q \o SetToSeq(Requeued(q, snt)))
        over == Overflow(all)
    IN  /\ Disconnected
        /\ queue' = Without(all, over)
        /\ pend' = [r \in Reqs |-> IF r \in over THEN "expired" ELSE pend[r]]
        /\ sent' = (snt \cap ToSet(q)) \ over
        /\ Tell(over, "error")

\* reconnectAfterDelay, without a connection.
ReconnectLater ==
    /\ UNCHANGED loop
    /\ backoff' = (backoff \/ ~connecting)
    /\ connecting' = TRUE

MayDrop == conns < MaxConns

\* "close" without a write that would have failed first.
Closed ==
    /\ sock # 0 /\ writing = NoWrite /\ MayDrop
    /\ Drop(queue, sent)
    /\ ReconnectLater
    /\ UNCHANGED <<arrived, writing, outage, handshake, upgrade, orphaned>>

\* The catch of flushQueue puts its message back first, of the others nothing.
PutBack ==
    IF writing.kind = "flush" THEN <<writing.msg>> \o queue ELSE queue
Unmarked == sent \ {writing.msg}

WriteFails ==
    /\ writing # NoWrite /\ writing.conn = sock /\ MayDrop
    /\ IF writing.kind = "flush" THEN Drop(PutBack, Unmarked) ELSE Drop(queue, sent)
    /\ ReconnectLater
    /\ writing' = NoWrite
    /\ UNCHANGED <<arrived, outage, handshake, upgrade, orphaned>>

\* A version bump destroyed the socket under the write and has queued the
\* request already.
WriteFailsLate ==
    /\ writing # NoWrite /\ writing.conn # sock
    /\ queue' = PutBack
    /\ sent' = IF writing.kind = "flush" THEN Unmarked ELSE sent
    /\ orphaned' = IF writing.kind = "flush" THEN orphaned \cup {writing.msg} ELSE orphaned
    /\ writing' = NoWrite
    /\ ReconnectLater
    /\ UNCHANGED <<agent, pend, link, outage, handshake, upgrade>>

-----------------------------------------------------------------------------
(* Talking to the daemon.                                                  *)

Owing(m) == [r \in Reqs |-> IF r = m THEN owed[r] + 1 ELSE owed[r]]

WriteCompletes ==
    /\ writing # NoWrite /\ writing.conn = sock
    /\ owed' = Owing(writing.msg)
    /\ greeted' = (greeted \/ writing.msg = "initialize")
    /\ CASE writing.kind = "replay" -> writing' = NoWrite /\ UNCHANGED <<queue, sent, phase, outage>>
         [] writing.kind = "greet" -> /\ phase' = "ready" /\ outage' = FALSE
                                      /\ FlushFrom(queue, sent, pend, sock)
         [] writing.kind = "flush" -> /\ FlushFrom(queue, sent, pend, sock)
                                      /\ UNCHANGED <<phase, outage>>
    /\ UNCHANGED <<agent, pend, sock, conns, connector, handshake, upgrade, orphaned>>

Answered(r) == owed' = [owed EXCEPT ![r] = @ - 1]

\* The daemon accepts the replayed handshake: sendInitializedThenFlush.
ReplayAccepted ==
    /\ phase = "replaying" /\ owed["initialize"] > 0
    /\ Answered("initialize")
    /\ IF initialized
       THEN /\ phase' = "greeting"
            /\ queue' = Kept(queue, {i \in DOMAIN queue : IsRequest(queue[i])})
            /\ writing' = [kind |-> "greet", msg |-> "initialized", conn |-> sock]
            /\ UNCHANGED <<sent, outage>>
       ELSE /\ phase' = "ready" /\ outage' = FALSE
            /\ FlushFrom(queue, sent, pend, sock)
    /\ UNCHANGED <<agent, pend, sock, conns, greeted, connector, handshake, upgrade, orphaned>>

\* failAllPendingRequests.
FailAll(S, kind) ==
    /\ pend' = [r \in Reqs |-> IF r \in S THEN "expired" ELSE pend[r]]
    /\ queue' = Without(queue, S)
    /\ sent' = sent \ S
    /\ Tell(S, kind)

\* It rejects it: nothing connects again until the agent speaks.
ReplayRejected ==
    /\ phase = "replaying" /\ owed["initialize"] > 0 /\ MayDrop
    /\ FailAll(Pending, "error")
    /\ Disconnected
    /\ UNCHANGED <<arrived, writing, connector, outage, handshake, upgrade, orphaned>>

\* Mutant: nothing is remembered of the requests that were given up.
NotQuarantined(r) == FALSE

\* A late answer to a request the agent was told has failed.
Quarantined(r) == pend[r] = "expired"

\* Any other answer of the daemon.
DaemonAnswers(r, kind) ==
    /\ sock # 0 /\ owed[r] > 0 /\ ~(r = "initialize" /\ phase = "replaying")
    /\ Answered(r)
    /\ IF pend[r] # "pending" /\ Quarantined(r)
       THEN UNCHANGED <<answers, out, pend, sent>>
       ELSE /\ Tell({r}, kind)
            /\ pend' = [pend EXCEPT ![r] = "done"]
            /\ sent' = sent \ {r}
    /\ UNCHANGED <<arrived, queue, writing, sock, conns, phase, greeted, connector, outage,
                   handshake, upgrade, orphaned>>

-----------------------------------------------------------------------------
(* Timeouts.                                                               *)

RequestTimesOut(r) ==
    /\ r \in Pending
    /\ FailAll({r}, "error")
    /\ UNCHANGED <<arrived, writing, link, connector, outage, handshake, upgrade, orphaned>>

OutageTimesOut ==
    /\ outage
    /\ outage' = FALSE
    /\ FailAll(Pending, "outage")
    /\ UNCHANGED <<arrived, writing, link, connector, handshake, upgrade, orphaned>>

-----------------------------------------------------------------------------
(* A newer build is installed: reconnect, to a daemon it has spawned.      *)

BumpStarts ==
    /\ bump = "idle" /\ refresh = "idle" /\ bumps < MaxBumps
    /\ bump' = "spawning" /\ bumps' = bumps + 1
    /\ UNCHANGED <<agent, work, writing, link, connector, outage, handshake, refresh, awaited,
                   reexecs, orphaned>>

\* clearReconnectTimer ends the delay of the loop and cancels the backoff;
\* handleDaemonDrop arms a new one unless something still counts as connecting.
BumpDrops ==
    /\ bump = "spawning" /\ (sock = 0 \/ MayDrop)
    /\ bump' = "settling"
    /\ loop' = IF loop = "delay" THEN "opening" ELSE loop
    /\ backoff' = ~connecting
    /\ connecting' = TRUE
    /\ IF sock = 0 THEN UNCHANGED <<answers, out, work, link>> ELSE Drop(queue, sent)
    /\ UNCHANGED <<arrived, writing, outage, handshake, bumps, refresh, awaited, reexecs, orphaned>>

\* Mutant: the bump trusts the flag.
NeverStranded == FALSE

\* After a turn of the loop, nothing that set the flag is left.
Stranded == loop = "idle" /\ sock = 0 /\ ~TimerArmed

BumpSettles ==
    /\ bump = "settling"
    /\ bump' = "idle"
    /\ IF Stranded
       THEN loop' = "opening" /\ connecting' = TRUE
       ELSE UNCHANGED <<loop, connecting>>
    /\ UNCHANGED <<agent, work, writing, link, backoff, outage, handshake, bumps, refresh, awaited,
                   reexecs, orphaned>>

-----------------------------------------------------------------------------
(* Or replace this process in place, once the agent has been answered.     *)

RefreshStarts ==
    /\ refresh = "idle" /\ bump = "idle" /\ reexecs < MaxReexecs
    /\ refresh' = "draining"
    /\ UNCHANGED <<agent, work, writing, link, connector, outage, handshake, bump, bumps, awaited,
                   reexecs, orphaned>>

\* Mutant: an answer is forgotten once it is handed to the stream.
DrainedOfRequests == Pending = {}

\* waitForPendingDrain
Drained == Pending = {} /\ out = {}

\* execve: sockets and memory are gone, the handshake is handed over if the
\* agent has seen its result, and start() runs again.
Execve ==
    /\ reexecs' = reexecs + 1 /\ refresh' = "idle" /\ awaited' = {} /\ bump' = "idle"
    /\ initKnown' = (initKnown /\ initDelivered)
    /\ initialized' = (initialized /\ initDelivered)
    /\ pend' = [r \in Reqs |-> IF pend[r] = "new" THEN "new" ELSE "done"]
    /\ queue' = <<>> /\ sent' = {} /\ writing' = NoWrite /\ out' = {}
    /\ sock' = 0 /\ phase' = "down" /\ owed' = Nothing /\ greeted' = FALSE
    /\ loop' = "opening" /\ connecting' = TRUE /\ backoff' = FALSE /\ outage' = FALSE
    /\ UNCHANGED <<arrived, answers, conns, initDelivered, bumps, orphaned>>

\* An execve that fails, or a handshake too large to hand over.
Resume ==
    /\ refresh' = "idle" /\ awaited' = {}
    /\ UNCHANGED <<agent, work, writing, link, connector, outage, handshake, bump, bumps, reexecs,
                   orphaned>>

RefreshDrained ==
    /\ refresh = "draining" /\ Drained
    /\ (Execve /\ MayDrop) \/ Resume

\* rejectPendingForSelfRemediation
RefreshDeadline ==
    /\ refresh = "draining" /\ ~Drained
    /\ refresh' = "rejecting" /\ awaited' = Pending
    /\ FailAll(Pending, "error")
    /\ UNCHANGED <<arrived, writing, link, connector, outage, handshake, bump, bumps, reexecs,
                   orphaned>>

\* Anything else still being flushed to the agent keeps this process alive.
RefreshRejected ==
    /\ refresh = "rejecting" /\ awaited \cap out = {}
    /\ (Execve /\ MayDrop /\ out = {}) \/ Resume

-----------------------------------------------------------------------------
Proxy ==
    \/ \E r \in Reqs : OutFlushed(r)
    \/ Opened \/ OpenFails \/ SpawnTried \/ DelayOver \/ BackoffOver
    \/ WriteCompletes \/ WriteFails \/ WriteFailsLate
    \/ OutageTimesOut \/ BumpDrops \/ BumpSettles
    \/ RefreshDrained \/ RefreshDeadline \/ RefreshRejected

Daemon ==
    \/ ReplayAccepted \/ ReplayRejected
    \/ \E r \in Reqs, kind \in {"result", "refused"} :
          (r # "initialize" => kind = "result") /\ DaemonAnswers(r, kind)

Next ==
    \/ Proxy \/ Daemon
    \/ \E r \in Reqs : AgentRequest(r) \/ RequestTimesOut(r)
    \/ AgentInitialized \/ Closed \/ OpenUnsafe \/ BumpStarts \/ RefreshStarts

Spec == Init /\ [][Next]_vars

\* Timers fire, promises settle, and the daemon is reachable again and again.
\* Nothing is owed to the 300 s request timeout.
Fairness ==
    /\ WF_vars(OpenFails \/ SpawnTried \/ DelayOver \/ BackoffOver) /\ SF_vars(Opened)
    /\ WF_vars(WriteCompletes \/ WriteFails \/ WriteFailsLate)
    /\ WF_vars(OutageTimesOut) /\ WF_vars(BumpDrops) /\ WF_vars(BumpSettles)
    /\ WF_vars(RefreshDrained) /\ WF_vars(RefreshDeadline) /\ WF_vars(RefreshRejected)
    /\ WF_vars(ReplayAccepted \/ ReplayRejected)
    /\ \A r \in Reqs : WF_vars(OutFlushed(r)) /\ WF_vars(DaemonAnswers(r, "result"))

FairSpec == Spec /\ Fairness

-----------------------------------------------------------------------------
(* Properties.                                                             *)

TypeOK ==
    /\ arrived \in Seq(Msgs) /\ IsInjective(arrived)
    /\ answers \in [Reqs -> Seq(Answers)]
    /\ out \subseteq Reqs
    /\ queue \in Seq(Msgs)
    /\ pend \in [Reqs -> {"new", "pending", "expired", "done"}]
    /\ sent \subseteq Pending
    /\ writing = NoWrite \/ writing \in [kind : {"flush", "replay", "greet"}, msg : Msgs,
                                          conn : 1 .. MaxConns]
    /\ conns \in 0 .. MaxConns /\ sock \in {0, conns}
    /\ phase \in {"down", "replaying", "greeting", "ready"} /\ (phase = "down" <=> sock = 0)
    /\ owed \in [Reqs -> Nat]
    /\ loop \in {"idle", "opening", "spawning", "delay"}
    /\ {connecting, backoff, outage, greeted, initKnown, initialized, initDelivered} \subseteq BOOLEAN
    /\ bump \in {"idle", "spawning", "settling"} /\ bumps \in 0 .. MaxBumps
    /\ refresh \in {"idle", "draining", "rejecting"} /\ awaited \subseteq Reqs
    /\ reexecs \in 0 .. MaxReexecs
    /\ orphaned \subseteq Msgs

\* At most one of the attached socket, the reconnect loop and the backoff timer
\* is there, and the connecting flag is never left up without one of the last
\* two, but for the turn in which a version bump settles: kickConnectionIfIdle
\* and ensureConnecting would then never connect again.
OneConnector ==
    /\ sock # 0 => loop = "idle" /\ ~backoff
    /\ loop # "idle" => ~backoff
    /\ connecting => loop # "idle" \/ backoff \/ bump = "settling"
    /\ loop # "idle" \/ backoff => connecting

\* A pending request is never forgotten: it is in the queue, being written, or
\* the daemon that is connected owes its answer.
NothingLost ==
    \A r \in Pending :
        \/ Contains(queue, r)
        \/ writing.kind = "flush" /\ writing.msg = r
        \/ owed[r] > 0

\* The proxy's connections and its requests are accounted for.
Consistent == TypeOK /\ OneConnector /\ NothingLost

\* The agent gets one answer to a request, unless a version bump cut off its
\* write: then it is queued twice, sent twice and may be answered twice.
AnsweredOnce ==
    \A r \in Reqs : Len(answers[r]) > 1 \/ owed[r] > 1 => r \in orphaned

\* Once the proxy knows the agent's handshake, no daemon is sent a tool call
\* on a connection that has not been sent initialize.
HandshakeFirst ==
    [][\A r \in Requests :
          owed'[r] > owed[r] /\ initKnown => greeted]_vars

\* The process is replaced only when every request it took has been answered
\* and no answer is half written.
ExecLosesNothing ==
    [][reexecs' # reexecs =>
          /\ out = {}
          /\ \A r \in Reqs : pend[r] # "new" => answers[r] # <<>>]_vars

\* Every request is answered, whatever happens to the daemon, without the help
\* of its own timeout.
RequestsAnswered == \A r \in Reqs : pend[r] = "pending" ~> pend[r] # "pending"

=============================================================================
