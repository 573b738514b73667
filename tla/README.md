# Verification project for cmuxlayer

cmuxlayer is an MCP server, and a daemon shared by many MCP clients, that drives
the panes of the cmux terminal multiplexer and the CLI agents that run in them.
Its difficult part is not the text it sends but what it must not do with it: a
message typed into an agent's pane cannot be taken back, the agent gives no
acknowledgement, the daemon may be restarted at any moment, and several callers
and a timer work on the same records.  This directory holds TLA+ models of that
core, the TLC runs that check them on small instances, and theorems about them
that TLAPS checks for every value of the constants.

Paths are relative to the repository; its TypeScript sources are under `src/src/`
in `PROJECT.json` and `src/` below.

## 1. Inventory

| component | state it keeps | operations | hard behaviour | what makes it correct |
|---|---|---|---|---|
| **Delivery queue** `src/engine/delivery-queue.ts`, called from `src/mcp/tools/send.ts`, `raw-send.ts`, `src/server.ts`, `src/engine/sweep.ts` | one receipt per delivery, in a map and in `delivery-receipts.json`; the sweep's position and the receipt object it holds across awaits; the drafts callers own | queue, register, accept, pend, resolve, load; drain; verify; mark stale | daemon death at any step; failed saves; a submission that outlives its timeout; calls that return after the sweep settled their receipt | a message is typed at most once; settled stays settled; nothing stays open in silence |
| **Outbox drainer** `src/outbox-drainer.ts` | `outbox.md`, the drain sidecar with its version, the retry backoff | read, parse, migrate, POST, save | several processes share both files; a crash between POST and save; the operator trims the file | nothing is dropped or sent twice without a cause; a legacy backlog is never sent |
| **Inbox** `src/inbox.ts`, the `inbox-cursor` command of `src/index.ts`, `src/inbox-tail-reaper.ts` | an append-only file per agent, acks, a cursor and its lock, heartbeats, channel markers | dispatch, dispatch once, replay, ack, move the cursor, reap | writers in several processes; two processes resumed as one agent; a lock left by a crash | nothing is skipped; the cursor only advances; a stranded lock stops no message |
| **Agent records** `src/state-manager.ts`, `src/agent-types.ts`, `src/event-log.ts` | a record per agent in `state.json` files, an index, an event log | transition, reopen, resume, update, unbind, rename, retire | multi-file updates cut by a crash; a late verification that reopens a finished agent; version checks | a record moves only along the state machine; at most one agent is bound to a surface |
| **Agent registry** `src/agent-registry.ts`, `src/agent-discovery.ts`, `src/engine/reconcile.ts` | agents in memory, surface bindings, miss counters | reconcile with discovery, adopt, evict | a partial enumeration looks like death; a surface id used again | no live agent is evicted on partial evidence |
| **Lifecycle** `src/engine/lifecycle.ts`, `src/engine/placement.ts`, `src/engine/launch-command.ts`, `src/mcp/tools/spawn.ts`, `stop.ts` | spawns, resumes and stops in progress, and what each read before its awaits | spawn, boot, resume, stop, close | none of them holds the lock: a resume that overlaps a stop, a sweep or another resume; cleanup after a failed step | one session never runs in two processes; a resume that fails leaves its agent resumable |
| **Lifecycle lock** `src/agent-engine.ts` (runLifecycleMutation), with `src/mcp/tools/agent.ts` and `src/engine/sweep.ts` | a chain of promises, who is shown as holder, the revision of the bindings | acquire, time out, lend and reacquire, force the release, settle | waiters that give up, holders that hang and settle later, scans made while the lock is lent | one holder at a time, in order; a scan that is used is current; nobody waits for ever |
| **Sweep** `src/engine/sweep.ts`, `src/engine/loop-stall.ts` | the timer, in-flight guards | start, run, stop; outbox drain, delivery drain, registry sweep | re-entry, stop during a run, one failing part; the lock lost in the middle | parts run once at a time; one failing part does not stop the timer |
| **Halt and quota** `src/engine/halt.ts`, `src/claude-usage-reset.ts` | halted agents, reset times | detect, hold, resume | stale screens; a reset that passes while the daemon is down | an agent is nudged once per halt |
| **Watch specs** `src/watch-spec.ts`, `src/watch-owner.ts` | watch files, owners, last evaluation | arm, evaluate, fire, expire | ownership handed between processes | a watch fires once per match |
| **Transport** `src/cmux-transport-self-heal.ts`, `src/cmux-socket-client.ts` | the route (socket or CLI), the replay queue, the re-probe timer, one shared reconnect | invoke, replay, downgrade, re-probe, drain, upgrade, stop | a call that failed after it was served; calls that fail together; a late failure of an abandoned socket | a mutation is not sent again after it may have been served; the way back to the socket is never lost |
| **Persistent socket** `src/cmux-persistent-socket.ts`, `src/json-rpc-line-buffer.ts` | the current socket, one shared connect, the V1 line queue, V2 requests by id | connect, write, match, time out, disconnect | events of abandoned sockets; late replies; half frames | each request ends once; the error phase tells the truth about what was written |
| **Proxy** `src/proxy.ts` | the queue, pending requests, the handshake, timers of reconnect, outage and version checks | forward, requeue, replay the handshake, reconnect, follow a version bump, re-execute itself | a daemon that dies with requests sent, half written and queued; a bump that drops a working connection | each request is answered, once; one connector at a time |
| **Daemon socket** `src/daemon.ts` (start, unlinkStaleSocket, closeListener), `src/daemon-socket-security.ts`, `src/entry.ts` | the object at the socket path, the identities the daemon remembers | probe, reap, listen, detach, park a placeholder, close, restore, clean up | every file-system call races those of other daemons; a crash leaves a dead socket or a placeholder | a serving daemon is reachable; an operator's file is never deleted; no leftover keeps daemons out |
| **Daemon connections** `src/daemon.ts` (connections, drain), `src/daemon-spawn.ts`, `src/daemon-lifecycle-state.ts` | transports, in-flight requests, retirement | accept, drain, retire | an upgrade under load | a drained request is answered or its transport destroyed |
| **App server** `src/app-server-runtime.ts`, `src/app-server-bridge.ts` | sessions of a second front end | bridge | none of its own | not modelled |
| **Delivery engine** `src/delivery/engine.ts`, `composer-screen.ts`, `surface-state.ts`, `receipts.ts`, `input-policy.ts` | draft ownership, pane locks, observations of a composer | type, press Return, rescue, classify the outcome | the screen changes between a read and a key press | what is reported as submitted was submitted |
| **Screen reading** `src/screen-parser.ts`, `src/pattern-registry.ts`, `src/codex-chrome.ts`, `src/surface-topology.ts` | none | parse | none that is concurrent | parsing is tested by fixtures |
| **Adoption and registration** `src/self-registration.ts`, `src/session-adoption.ts`, `src/registration-observation.ts`, `src/resume-verification.ts` | evidence records, bindings | register, adopt, verify | a hook that fires for an old session | a binding moves only to the session that proved itself |
| **Reapers and guards** `src/mcp-reaper.ts`, `src/resource-guard.ts`, `src/spawn-guard.ts`, `src/heap-guard.ts` | process tables, counters | count, kill, refuse | a pid used again | only an owned process is killed |
| **MCP surface** `src/server.ts`, `src/mcp/**`, `src/palette.ts` | registered tools, caller context | one handler per tool | handlers share every store above | the handlers' parts that change shared state are modelled with the stores |
| **Operations** `src/doctor.ts`, `src/control-health.ts`, `src/init-wizard.ts`, `src/daemon-log.ts`, `src/close-forensics.ts`, `launchd/`, `scripts/`, `site/`, `packaging/` | reports, configuration | diagnose, install | none | not modelled |

Interactions that matter: the MCP handlers, the sweep and late asynchronous
results all change the delivery receipts; the sweep also drains the outbox and
reconciles the registry; a successful verification moves an agent's record; the
transport's retries decide whether a keystroke can be sent twice; a daemon
restart loses everything that is only in memory.

The requests themselves travel agent -> proxy -> daemon socket -> MCP handler ->
delivery queue -> self-healing transport -> persistent socket -> cmux.  Six of the
modules of section 3 cover that path except for the handlers and the text they type;
`LifecycleLock`, `AgentLife` and `Inbox` cover the agents at its end: how they come
and go, and how they are reached without typing.

## 2. Plan

The order follows the damage a mistake does, and the path of a message.

1. `DeliveryQueue` (done): what must not be typed twice; proofs in
   `DeliveryQueueProofs`.
2. `OutboxDrainer` (done): the only path from agents to the operator; proofs in
   `MailProofs`.
3. `SelfHealingClient` and, below it, `PersistentSocket` (done): whether a
   keystroke or a new pane is sent twice; proofs in `SelfHealingClientProofs` and
   `PersistentSocketProofs`.
4. `DaemonProxy` and `DaemonSocket` (done): whether an agent's requests survive
   the daemon, and whether there is a daemon; proofs in `DaemonProxyProofs` and
   `DaemonSocketProofs`.
5. `LifecycleQueue` and `LifecycleLock` (done): the lock that the sweep and most
   tools share, and the queue it implements; proofs, of the refinement too, in
   `LifecycleLockProofs`.
6. `AgentLife` (done): spawn, resume, stop, the record they share, the registry's
   eviction, the sweep's readings and the passes of `list_agents`, one agent at a time; proofs in
   `AgentLifeProofs`.
7. `Inbox` (done): replay against cursor and acks, the cursor's lock; proofs in
   `MailProofs`, beside those of the outbox.
8. Left: several agents in one registry (the surface-session index, `renameState`,
   children of a renamed parent), seat siblings, and the drain of a retiring daemon.

Abstract specifications: `LifecycleQueue` is one (a line and who is inside), and
`LifecycleLock` is checked and proved to implement it.  Others worth stating are *AtMostOnce* (a
set of messages, a step that types one that was not typed, a step that gives up on
one), which `DeliveryQueue` implements except for the requeued retries of the finding
below, and *Relay* (each request is answered once), for `DaemonProxy` composed with a
daemon that may die.

Theorems worth proving next: the step-by-step refinement of *AtMostOnce*.

There is one run per question; where the state space allows it, the safety and the
liveness of one module share a run and its bounds.

## 3. Modules

Each module is one component with its environment; each `MC` module instantiates
it for TLC, and the `.cfg` files beside it give the bounds.  Names of operators
are those of the source where there is one, and `PROJECT.json` gives for each
definition the lines it stands for.  In all of them, what an asynchronous handler
does between two awaits is one action, and steps of different handlers interleave
at the awaits.  Operators marked *Mutant* are wrong on purpose: replacing the
definition they follow by them must make a property fail.

### DeliveryQueue

State: `receipts` is the map in memory and `disk` the file as of the last successful
save; `call[d]`, `retry[d]` and `sub[d]` are the asynchronous activities that may be
under way for a delivery: the tool call that created it, a retry by its owner, and a
submission by the drain, which the submit timeout abandons but does not stop.  `sweep`
is the position of the one sweep; `sweep.mine` says whether the receipt object the
sweep picked before its await is still the map's (callers replace entries, the
sweep mutates objects).  `typed[d]` counts the submissions that typed the text into the
pane, which survives the daemon, and `copies[d]` how often it was typed: the engine's
`sendChunkWithRetry` types a chunk again when the answer to the last attempt was a
timeout or a broken connection, whether or not that attempt's text landed, up to
`ChunkAttempts` times (`tries[d]`).  A call or submission is `unanswered` in between.

Actions: `SendNew`, `QueueReport`, `RegisterExternal` and `SendOwnedRetry` with
`Deliver`, `CallTypes`, `CallReturns`, `RetryReturns`, `QueueForPaused` are the
callers; `StartSweep`, the `Drain...`, `Submission...` and `Verify...` actions and
`EndSweep` are the timer; `Restart` is a daemon death with
`loadDeliveryReceipts`; `Elapses` is any of the deadlines.

Abstracted: a text is one chunk, and an attempt that leaves nothing in the pane is not a
step of its own (it only uses up an attempt); ids are allocated in order and the map is walked in that order (its
insertion order); a deadline is a fact that becomes true at any time (`elapsed`); a
screen is what the verifier concludes from it; there is one target agent, so the
per-target backoff is a condition on receipts.  Recovery at boot of other records,
report metadata, the compaction grace period and `waitForDelivery`, which only
reads, are left out.  A parent report enters the queue only when the parent is
busy, and the caller of the drain is never a draft's owner, as in the code.

### OutboxDrainer

State: the two files, and for each process the snapshots it has taken of them and
its position.  `saveState` is a truncation and a write, since the source uses
`writeFileSync` on the sidecar, so a crash or another process can see the empty file.
`log` keeps every entry ever appended and `head` how many the operator has trimmed;
`EntryId` is the content id with its occurrence count, recomputed at each parse, as in the code.  `owed` are the entries the module is judged by: those appended once
the sidecar carries the current version; `resends` counts the POSTs of an entry that had
been accepted before.  `Renumbered` says that a trim took an entry whose text another
entry has: the occurrence counts have shifted, and a mark in the sidecar may mean another
entry.  Then neither property of `Accounted` is claimed: with four identical texts one trim
can cost two duplicates, or drop an entry.  The module has several processes; the run has
one, because with two the code promises none of this: each process rewrites the whole
sidecar from its own snapshot (see the hazard at `outbox-drainer.ts:212`).  Even
`LegacyBacklogNeverSent` fails with two and a trim: one reads the backlog entry, the other
baselines the sidecar after the trim without it, and the first POSTs it.

### SelfHealingClient

State: the route, the current client, whether each client's socket is connected, the
error with which a shared reconnect was started, the calls with their
attempts, the replay queue, the re-probe timer and the cycle it started.
`executed[c]` counts how often cmux served a mutation, `late[c]` that a command of it is
still with cmux after the caller gave up, `misled[c]` how the client was misled about it:
by the error of another call, or by the CLI.

The module takes over what `PersistentSocket` promises: a socket error of the connect or
write phase means that nothing was served (`UnsentPhasesAreHonest` there).  Of the CLI
nothing of the kind is assumed: `normalizeCliError` reads the phase off the text of a
failure that printed nothing, so `CliFails` may report the write phase for a command that
cmux has served, or has and will serve.  One call
is one RPC; steps that the source runs in adjacent microtasks interleave here, which
allows more behaviours than the code has.  `Clients` are reused once nothing refers
to them.  The irrecoverable-transport counter, the cadence of the probe and the
`ping()` wrapper are left out.

### PersistentSocket

State: the current socket, the shared connect promise, the phase of every socket
object, what cmux has still to answer on each (`owedV1`, lines in their order, and
`owedV2`, requests in any), the line queue `pendingV1`, the rest of a frame in the buffer
(`part`), and for each request where it is, how it ended and whether its bytes are in the
kernel.  Sockets connect, fail, time out and close in any order; one that was abandoned
is destroyed and has only its close event left.  The timeouts and errors of a socket that
is not the current one therefore never come, and the branches of the source for them are
left out; that they are dead is the part `OneConnection` of `Consistent`, which is proved
(every path that clears `this.socket` has destroyed it).  The polling token budget and its
rate-limit retries are left out.

### DaemonProxy

State: the queue, the pending requests, what each connection was sent
(`owed`), the write in progress, the connection and its phase (replaying the
handshake, greeting, ready), the reconnect loop, its timer and the `connecting` flag,
the outage timer, the version-bump check and the self re-execution.  An action is one
callback of the event loop; a write is a state of its own because the source
awaits it and a disconnect may come in between.

Assumed of the environment: the agent waits for the answer to `initialize`, uses each
request id once and sends whole frames; a write that was interrupted by a disconnect
is not received; writes on a destroyed socket settle before a later connect does.
`stop()`, notifications of the daemon, the guards against spawn storms and the lengths
of delays are left out; bounds replace them.  `OpenUnsafe` is the refusal of a path
that `assertSafeDaemonSocket` rejects: the loop ends and the next frame of the agent
starts it again.

The queue's operations are defined by the order of the entries they keep: `Arranged` puts
the entries at some indices in the place an order gives them, `Kept` keeps their own order
and `BySequence` is the stable sort by arrival.

### DaemonSocket

State: the object at the path and those renamed away, each a kind and an inode
number, and per process the next file-system call and what it remembers
(`seen`, `socket`, `own`, `placeholder`, `moved`).  Each lstat, connect, rename,
exclusive create and unlink is an action: `Observe`, `Probe`, `Connect`, `Recheck`,
`Unlink`, `Listen` and `Own` start a daemon, `Detach`, `Rename`, `Park`, `Close`,
`Restore`, `Clean`, `Verify` and `Remove` stop one.  `Close` unlinks the pathname,
whatever is there, because `net.Server.close` does (Node documents it; the process
exit of a crash does not).  `Spawn` has the check of `assertSafeDaemonSocket`, which
the entry and every proxy make before they spawn.

An identity is what `sameIdentity` compares, the inode number and the node type: a file
of the operator, which has content, and the daemon's empty placeholder are both of type
file (`NodeType`), and only `Probe` and `Clean` look at the size.  A new object gets the
number of one that some process remembers, or one nobody knows; which of the unknown ones
makes no difference.  An empty file that the operator puts at the path is what the code
takes for a placeholder, and is not modelled as the operator's.

`raced` is a ghost for the only two ways to lose a live endpoint or the operator's file
(`Precious`): a call hits it by its name, and another process has put it there since the
calling process looked (`Acts`, and in `Own` the lstat that is taken for the new socket's);
or it came there before a second look and that look passed, because the object had been
given the number of the one seen first, or had been away and put back (`Compares`).  The
file system has no compare-and-unlink, so the source cannot exclude the first.  A
retirement is lost only over a path that was changed after the look: the ghost `changed`
of the stuck process itself.  Binding and listening are one
step, and a shutdown before the bind is a crash.  Permission bits, socket activation
and the daemon's connections are left out.

### LifecycleQueue and LifecycleLock

`LifecycleQueue` says what the lock promises: callers stand in a line, enter one at a
time from its head, may give up, and leave.  `LifecycleLock` is how
`runLifecycleMutation` keeps it.  Slots are numbered as they are chained; `released` and
`abandoned` are the slots whose promise is resolved and whose waiter timed out; a call is
idle, waiting, running, has lent the lock or is settled.  `Grant`, `TimeOut`, `PassOn`,
`ForceRelease`, `Settle`, `Lend` and `Reacquire` are the timers and continuations of the
function and of `withUnlocked`; the rest are the three kinds of users: `list_agents`,
which scans with the lock lent and compares the revision, the sweep, which lends it for
topology, screens and waiters, and operations that just mutate.  `world` counts the
changes made under the lock, and `strays` remembers those made without it.  The abstract
line says of each waiter who is ahead of it; `Line` reads that off the slots.

### AgentLife

One agent: its record (`rec`, with the states ready, working and idle as "active", since
they have the same transitions here), its panes, the CLI of each, the process that
registered its session last, and the calls under way: a spawn, resumes and stops, each
with what it read before its awaits.  An action is what the source does between two
awaits.  `SpawnStep`, `ResumeStep` and `StopStep` follow `engine/lifecycle.ts`;
`SweepLists` and `SweepRegistry` are the listing without the lock and the pass over the
registry made with it (reconciliation, eviction and the purges, each an operator on a row:
`Reconciled`, `Evicted`, `StartPurged`, `Purged`); `SweepCaptures`, `SweepMarksBoot` and
`SweepMarksState` are the readings of a screen, whose text is a nondeterministic outcome;
`WaitMarks` is `wait_for`, which has no version to compare; `Listing` is `list_agents` with
`listMerged`, whose passes come in any order since their callers begin at different ones
and wait between any two: it evicts before anything has reconciled (`ListEvicts`),
reconciles and purges (`ListTidies`; the reconciliation is also `wait_for`'s), deletes boots
it takes for ghosts (`ListGhosts`), binds a session again to the pane it moved to
(`ListRecovers`) and resets the state of a failed agent whose pane shows a CLI
(`ListHeals`).  They share the memory of misses (`obs`) with the sweep.  `Restart` loses the calls and
reconciles what the file says.  The world may start, end and register CLIs and close panes
at any time.

Abstracted: pane p runs CLI p, so a pid is not used again; the 5 s between two misses, the
timeouts are facts that become true at any time, and so is the retention window (14 days),
but not while a call or a sweep is under way; one reading of
whether a process is gone serves a whole pass; `ListGhosts` does not look at a clock, so it
may come as soon as a row boots.

### Inbox

State: the three files (`inbox` in order, `acks`, `cursor`), the lock directory, what each
`dispatchOnce` caller has seen, and for each process resumed as the agent where it is,
the positions it has still to reach and the one it is confirming.  A replay is three reads
(`ReadInbox`, `ReadCursor`, `ReadAcks`), because the source reads three files one after
the other; `writeInboxCursor` is `MakeLock` or `LockTaken`, `CheckCursor`, `WriteCursor`
and `RemoveLock`.  `Handle` and the choice of what to confirm with are the agent's, who
follows the documented policy: replay first, act in order, confirm what was handled.

Abstracted: a message is its id, and ids are unique but for the recovery message that two
processes send under one id on purpose; lines are whole.  Heartbeats, the channel markers
and the reaping of the inbox tail are left out.

## 4. Runs

| run | bounds | shows |
|---|---|---|
| `delivery_replay` | one delivery of each kind of caller, one fault of each kind and one in all (a crash or a failed save), one owned retry, a target that pauses and disappears, fair sweeps | `TypeOK`, `NoReplay`, `DrainableIsUntyped`, `SweepKeepsTerminal`, `ConfirmedNotPending`, `Settles` |
| `delivery_requeue` | one send, one owned retry, a pausing target | a counterexample to `RetriesNeverRetype` |
| `outbox_drain` | one process, two entries of two texts, two crashes, two lost answers, one trim, fair sweeps | `Accounted`, `LegacyBacklogNeverSent`, `EventuallySent` |
| `transport_live` | a mutation and a read, two clients, two attempts, denials and a stop, fair | `TypeOK`, `DuplicatesExplained`, `FailuresAreCurrent`, `CallsSettle`, `Recovers` |
| `transport_borrow` | two mutations, three clients | a counterexample to `MutationsOnce` |
| `socket_requests` | two lines and a V2 request, three sockets, a disconnect, unsolicited, malformed and denial frames, fair | `Consistent`, `UnsentPhasesAreHonest`, `MixupsExplained`, `StalePollsUnsent`, `RequestsSettle` |
| `proxy_requests` | initialize and a tool call, a buffer of one, two connections, one bump, one re-execution, fair | `Consistent`, `AnsweredOnce`, `HandshakeFirst`, `ExecLosesNothing`, `RequestsAnswered` |
| `daemon_socket` | two process slots, three shutdowns, retirements or crashes, one file of the operator, fair | `PathKept`, `RetirementsExit`, `Recovers` |
| `lock_turns` | one list_agents call, one mutating operation, one sweep of one step, fair | `TypeOK`, `ScansAreCurrent`, `DiagnosticsTruthful`, `ImplementsQueue`, `WaitersResolved` |
| `lock_lost` | a sweep and a mutating operation | a counterexample to `MutationsSerialized` |
| `life_calls` | three panes, two resumes and a stop of which two are made, one restart, closed pane or exit of a CLI | `TypeOK`, `CreatingAttended`, `OneProcessPerSession`, `SessionRowsKept`, `LivePanesKept` |
| `inbox_replay` | one dispatch, two processes that send one recovery message, two readers, one crash, fair readers | `NothingSkipped`, `CursorNeverBack`, `EventuallyHandled` |

`Accounted` (outbox: duplicates have a cause and nothing is dropped in silence),
`Consistent` (socket: events of abandoned sockets are harmless and what is pending is on
the current one; proxy: one connector, and no request is in no place) and `PathKept`
(daemon socket: the endpoint of a serving daemon and the operator's file) are
conjunctions of parts that stand beside them in the modules.

Why these bounds are enough to be interesting.  Deliveries meet only in the duplicate
check, so one delivery with every fault covers the rest of the code's cases.  A repeated
body needs two entries, and a trim that renumbers it one more append after the trim.  The
shared reconnect and the replay queue need two calls that fail together and a client to
replace the failed one; a third client lets an abandoned one linger.  Three sockets are the
current one, an abandoned one whose close is late and one before that; two lines and a
request are the least that can be mixed up.  The second connection is where a request is
sent again.  Three stops let a retiring daemon meet a closing one and a crash.  A lock is
lost, lent and forced between three callers of different kinds.  Three panes are the
spawn's and those of two resumes, and any two calls of the three may overlap each other
and the sweep.  Two readers and a message behind the one being confirmed suffice for every
order in which the cursor can be moved.  Larger instances were also run by hand, without
an error: two with more connections, bumps or re-executions for `proxy_requests` (7.3 and
4.9 million states), the safety properties of `DaemonSocket` with three daemons and two
stops (11.1 million), those of `Inbox` with two dispatches (9.2 million), `Accounted` with three
entries and two trims (2.1 million), and `life_calls` with all three calls and no fault
(4.0 million).

`Made` says which of its calls `life_calls` makes: the two resumes, or a resume and the stop.
No run uses symmetry.

Deadlock is checked except in the transport, proxy and daemon runs, where the system may
come to rest: a stopped client, a proxy that has re-executed itself, a path whose daemon
keeps serving.

Fairness.  *Delivery*: the sweep timer re-arms itself and each of its awaits has a
timeout, so a step of the sweep that stays possible is taken; the issue filer has
none and is assumed to return; deadlines pass; a submission that
is possible again and again is tried, because every sweep walks all receipts.
*Outbox*: sweeps go on, a POST ends in at most 3 s, the backoff expires, and the
listener accepts a POST that is made again and again.  *Transport* and *socket*: a
continuation runs, sockets and subprocesses settle within their timeouts, a
reconnect ends and the probe timer fires.  *Proxy*: timers fire, writes settle, a daemon
can be reached again and again (a strong fairness on `Opened`) and answers, the agent
reads its input; the 300 s timeout of a request is *not* fair, so requests are answered
without its help.  *Daemon socket*: a process goes on with what it started, and
proxies that find no daemon and a path they may use go on spawning one.  *Lock*:
continuations of resolved promises run and the hold guard is armed; no operation need
finish and no acquire timer need fire.  *Inbox*: a reader goes on with its turn and polls
again, and a dead agent is resumed; nobody is obliged to send or to ack.  `AgentLife` has
no fairness: see section 6.

What the violations show.

- `delivery_requeue`: a repeated `send_to` of a typed, unsubmitted draft is meant to
  press Return again without retyping.  If the target is paused at that moment, the
  paused branch of `send.ts` calls `queueDelivery` with the same id, which replaces
  the receipt by one with no submission started, and the drain types the text again
  when the target resumes, as a second submission.  `NoReplay` holds with that case as its only exception.
- `transport_borrow`: when no live socket path is found, every caller that joined the
  shared reconnect is rejected with the error of the call that began it.  A mutation
  that failed after it was served is then failed with a write-phase error and is
  replayed.  `DuplicatesExplained` holds: the one other way is a CLI that dies of a broken
  pipe without output after cmux got its command, which the violated property sets aside.
- `lock_lost`: a sweep that lends the lock for a screen reading and cannot get it back in
  time goes on without it, because the reading catches every error, and mutates while
  another operation holds the lock.  The source calls the mutex one that serializes
  lifecycle mutations.

Other observations, hazards and not runs.  A message can be typed up to three times within
one submission (`copies`): only the launcher line of a spawn is looked for on the screen
before a chunk is sent again.  When the last attempt fails as well, `send_to` answers
`retry_safe: true`, since nothing of the text counts as dispatched, though copies of it may
be in the composer.  A request that comes before the first connect
of a proxy arms the outage timer; the connect does not disarm it, and if the agent's
`initialize` is still unanswered it fails requests in flight on a working connection.
A reader that dies with the cursor's lock strands it for good: no message is lost
(`EventuallyHandled`), but every resume replays from the same place.  A message that
`dispatchOnce` appended twice by a race is replayed until a later one is confirmed, since
the cursor cannot be moved onto its second copy.  A stop that waits for its pane and
process to go ends in whatever record there is then: if a resume has bound it to a new
pane meanwhile, the record is marked done and killed and gets the old pid, which is proven
gone; once a sweep with an older listing has unbound that row, a second resume takes the
pid as proof that the session is over and starts it again.  `strayed` remembers such an
end, and `OneProcessPerSession` exempts what follows it; with three calls TLC violates the
property without that exemption.  The second look before a placeholder
is removed (`daemon.ts:1050`) asks for the identity without the size, so a file of the
operator that came after the first look with the placeholder's inode number is deleted,
though the comment above it means to protect such files.  A daemon that dies between parking its
placeholder and closing its listener leaves an empty file at the path.
`unlinkStaleSocket` would reap it, and the comment at `daemon.ts:1057` counts on the
successor to do so; but the entry and the proxies refuse a path that is no socket
before they spawn a successor, so somebody has to start one by hand.  `Recovers` names
this leftover among its exceptions.  `list_agents` can delete the row of a session that
could still be resumed.  It evicts before anything has reconciled, so a row that is not
terminal, whose pane was missed twice and whose process is gone, is deleted where a sweep
would have made it an error that keeps its session.  And `evictBootingGhosts` looks at
neither the session nor the retention window: a row that is booting, or failed as stuck, in a pane
whose screen shows no CLI is removed with the session it had captured or was to resume, though the
comment on `sweepSessionRow` (`agent-registry.ts:2218`) says that an observation never
deletes a terminal row with a session inside the window.  `SessionRowsKept` states both as its
exceptions, and that there is no third.

## 5. Proofs

`DeliveryQueueProofs` proves, for every number of deliveries, payloads, callers and every
bound on faults (`DeliveryAssumption` is all that is assumed of the constants):

- `TypeCorrect`: `Spec => []TypeOK`.
- `NeverRetyped`: `Spec => []NoReplay`, with `Copies` inductive beside `IInv`: the copies of
  a chunk that may still be sent again are the attempts made at it.
- `NothingTypedIsLost`: `Spec => []DrainableIsUntyped`.
- `SettledBySomeoneElse`: `Spec => SweepKeepsTerminal`, an action property.
- `ConfirmedForGood`: `Spec => ConfirmedNotPending`, an action property.

`NoReplay` is not inductive: whether typing is safe depends on what the file says, on
which activities are under way and on which receipt the sweep holds.  The invariant is
`IInv == TypeOK /\ Once /\ Unallocated /\ Marks /\ Guarded /\ Held`.

- `Once` is the heart: a delivery that either the map *or the file* still offers for
  submission has not been typed and nobody is typing it; whoever is typing it is the
  only one.  The file is part of it because a restart makes it the map.
- `Unallocated`: an id not yet given out has no receipt and no activity, so a new send
  starts from nothing.
- `Marks`: only a typed draft is owned or retried, so a retry adds no first typing.
- `Guarded`: a receipt whose submission was marked started but not yet typed is the one
  the sweep is submitting, so a failed boundary save hurts no other.
- `Held`: what the sweep claims to hold is an entry of the map.

The proof has one lemma per kind of receipt (fresh, settled, kept, loaded), `Saved`
for what a save may leave behind, `QuietKeeps` for the steps that touch neither receipts
nor typing, and then one lemma per group of actions; `InitIInv` and `NextIInv` put
them together and the theorems follow by `PTL`.

The action properties need a second invariant, `Lasting`: every receipt, in the map or in
the file, is settled or in hand (`Sorted`), and what the sweep holds is in hand.  Whoever
settles a receipt between two steps of the sweep replaces it and thereby takes it from the
sweep; so the sweep changes only what was in hand (`SweepChange`), and every other step
replaces one entry or none (`Replaces`).  That a confirmed delivery is not reopened is
then `acceptPendingVerify`'s own check, which asks for the `terminal` mark as well: by
`Sorted` a confirmed receipt carries it.

`LifecycleLockProofs` proves, for every number of callers and steps (`LockAssumption`: the
three kinds of callers are apart):

- `MutualExclusion`: no two operations hold the lock.
- `ShownIsTrue`: `Spec => []DiagnosticsTruthful`.
- `AcceptedScansAreCurrent`: `Spec => []ScansAreCurrent`.
- `ChainIsQueue`: `Spec => ImplementsQueue`, the refinement of `LifecycleQueue`.
- `TypeCorrect`: `Spec => []TypeOK`, if the callers are finitely many (`FiniteAssumption`).

Exclusion is no invariant by itself: it follows because slots are released in their order
(`InOrder`), so that one slot at a time is unreleased behind a released one (`OneTurn`).
That needs `Chained`: the slot of a waiter was not passed over, and that of a runner was
granted, or given away by the hold guard.  For the scans, `Scans` says what an unchanged
revision is worth: since it was read, nobody who may mutate was granted the lock.  In the
refinement a call that asks for a slot maps to `Ask`, a grant to `Enter`, a time-out in
the line to `GiveUp`, a release to `Leave`, and every other step stutters.  That the
granted call is first in the line is again `InOrder`: all slots before its own are
released, and a waiter's is not.

The types state bounds, and these come from counting.  Each slot that was chained, and each
change of the world, is a pair of its caller and the step it was made at (`PastChainings`,
`PastChanges`); a caller only goes forward (`Advances`), so no pair comes twice, and their
number bounds the slots and the world (`Counted`).  What the bounds say of the code: a
list_agents call takes three slots at most, a sweep two more than it has steps, and
`NoScan`, which stands for "nothing scanned", is no world a scan can meet.

`MailProofs` is about both components that keep messages in shared files, and extends
both; `Inbox` has names of its own for what each specification has (`InboxInit`,
`InboxNext`).  Of `Inbox` it proves, for every number of readers, senders, messages and
crashes (`InboxAssumption`: the recovery message and `None` are apart from the rest):

- `NothingIsSkipped`: `Spec => []NothingSkipped`.
- `CursorNeverGoesBack`: `Spec => CursorNeverBack`, an action property.

The invariant says of each reader that whatever lies before a position it has yet to
reach is handled or is to be reached first (`Ordered`), although the three files were read
at different times; of one that is confirming, that everything up to its message is
handled (`Done`); and of one that has compared under the lock, that the comparison is still
true (`Locked`, `Compared`).

Of `OutboxDrainer` it proves, for every number of entries, texts, trims, crashes and lost
answers (`OutboxAssumption`: there is a process, a text and room for an entry):

- `OutboxTypeCorrect`: `Spec => []TypeOK`, for any number of processes.
- `BacklogStaysQuarantined`: `Spec => LegacyBacklogNeverSent`, if there is one process or
  nobody trims the file (`Unraced`).
- `OneProcessAccounts`: `Spec => []Accounted`, if there is one process (`OneProcess`).

The two hypotheses are those without which TLC finds the property violated (section 3).
For the backlog (`Quarantined`), a process that has read its entry has it listed from the
moment it knows the sidecar, because what it does not find there it adopts.  For `Accounted`
the invariant holds until a trim renumbers identical texts.  Until then an entry's id is its
ordinal in all that was ever appended, so no two entries share one (`IdsTell`), and what a
parse finds is that id (`ParsedIdIs`).  The sidecar is then the process's snapshot, except
within a save (`Saved`): it is empty, or lacks the one entry just delivered.  So a death
forgets at most one delivery, and forgetting all of them is harmless, since an empty sidecar
makes the next drain adopt what it finds.  `Exposed` are the entries that were sent and that
the process will not find listed; a crash or a lost answer adds at most one to them, sending
one again takes it away, and with what was sent again they stay within the faults
(`Budget`).  Nothing is owed before there is a baseline, so adopting a backlog marks no
entry that is owed (`OwedSent`).

`AgentLifeProofs` proves, for every number of panes, resumes, stops, calls and faults
(`LifeAssumption`: there is a pane, the callers are finitely many, and the bounds are natural
numbers):

- `TypeCorrect`: `Spec => []TypeOK`.
- `CreatingIsAttended`: `Spec => []CreatingAttended`.
- `SessionRowsStay`: `Spec => SessionRowsKept`, an action property: before the retention
  window has passed, only `list_agents` deletes a session's row, in the two ways named in
  section 4.
- `LivePanesStay`: `Spec => LivePanesKept`, an action property.
- `SessionsRunOnce`: `Spec => []OneProcessPerSession`.

The invariant of the first four is `IInv == Typed /\ Created /\ Listed /\ OneResume /\ CreatingAttended`:
panes are created in their order and nothing names one that was not (`Created`), one
resume of the agent runs at a time (`OneResume`), and a listing shows the pane that was
missed before it if that is still open (`Listed`).  `Listed` is what `LivePanesKept` rests
on: neither a listing nor a remembered miss is right by itself, and it takes the two
together, in their order, to confirm a loss.  The passes of a sweep are functions of a
row; what each preserves of it is one lemma (`Passed`), and a sweep is their composition.
Alone, before a reconciliation, the eviction does not preserve a session that has not ended:
`ListRecord` finds that this is all `list_agents` can lose by it (`Dropped`).
All steps but four are `Orderly`, and `OrderlyKeeps` carries the invariant over them; the
four that create a pane, begin a resume or reopen the record have lemmas of their own.

`SessionsRunOnce` adds `Alone`, which holds of every state with neither a forced resume nor a stop
that strayed.  The proof of absence looks at one pid, at the command lines that carry the
session and at the open panes; it cannot see a command that was typed and has not started,
nor the spawn's CLI in a closed pane.  It is enough because of what a recorded pid implies
(`Rules`): the record learns one only from a CLI that registered from its own pane, and then
no command waits anywhere and the spawn's CLI, if it runs, is that pid (`PidsRule`, with
`RegisteredRan` and `CapturesRight`).  A resume holds an old pid across its awaits, but
resumes exclude each other, so nothing is typed meanwhile; a stop may hold one that has gone
stale, and then a CLI is busy in a pane it did not stop: the case `strayed` names.  What was
proved lasts until the command is typed (`ProofHolds`), into a pane that is nobody else's
(`NewIsFresh`).  The steps that type no command and teach the record no pid but such a one
are `Quiet`, and one lemma carries `Alone` over them; the eight others have their own.  So
the stop that strays is, beside force, the only way to run a session twice in this model,
with any number of panes, calls and faults.

`SelfHealingClientProofs` proves, for every number of calls, clients, attempts and denials
(`TransportAssumption`: there are finitely many calls, and a client):

- `TypeCorrect`: `Spec => []TypeOK`.
- `DuplicatesAreExplained`: `Spec => []DuplicatesExplained`.
- `FailuresStayCurrent`: `Spec => []FailuresAreCurrent`.

A mutation about which the client was never misled is served once, because while its record
allows its request to be written again nothing of an earlier attempt was left with cmux
(`Once`); this needs that a request waiting for a connection has not been written
(`Unwritten`), and that a record has one of the forms the steps of a call produce
(`Recorded`).  `Drains` is why a failure is that of the current client: once a client is to
be installed, no call of an older one is outstanding on the socket.  The replay queue
lists the calls being replayed, each once, with only its head under way (`Queued`).

`DaemonSocketProofs` proves, for every number of daemons, of their starts and stops, and
of files of the operator, with inode numbers used again in any way:

- `PathIsKept`: `Spec => []PathKept`.
- `RetirementsAlwaysExit`: `Spec => []RetirementsExit`.

The invariant says, of each process and each place it can stand at, what it may take for
granted of a path nobody has changed since it looked (`View`) and of the objects it has
handled (`Memory`); that a serving daemon has its socket there unless a step raced or a
file of the operator came (`Reachable`); and that only a path changed under its hands
leaves one stuck (`Unstuck`).  Inode numbers are used again, but not that of a socket
somebody listens on, so an object with that number is that socket (`Sockets`); what a
process has renamed away stays aside, held by it alone, until it moves it on (`Apart`).

`DaemonProxyProofs` proves, for every number of requests, connections, version bumps and
re-executions, and every size of the buffer (`ProxyAssumption`: `initialize` and
`initialized` are no tool calls, and the bounds are natural numbers):

- `RequestsAreKept`: `Spec => []Consistent`.
- `OneAnswerEach`: `Spec => []AnsweredOnce`.
- `InitializeGoesFirst`: `Spec => HandshakeFirst`, an action property.
- `ExecveAfterAnswers`: `Spec => ExecLosesNothing`, an action property.

The invariant is `IInv == Typed /\ Refreshing /\ Attached /\ Core`.  `Linked` ties the phase
of the connection to the write that can be awaited and to what the daemon can owe.  No
request is lost because one that waits is in the queue, being written or owed (`Held`),
*and* carries the mark `sent` in the latter two cases (`Marked`), which is all a drop goes
by when it queues requests again.  Of these three places it is in one only, unless its
write failed after its drop (`Single`), so it is answered once.  `Greeting` is why the
handshake goes first: a ready connection that was not greeted has the agent's own
`initialize` on its way, since nothing else can have arrived by then.  The lemmas about
`Arranged` use that an order gives each index one place (a pigeonhole argument), so that
sorting and filtering lose no entry and repeat none; `DropKeeps`, `FlushKeeps`,
`TakenKeeps` and `FailAllKeeps` carry the invariant over what several actions share.

`PersistentSocketProofs` proves, for every number of lines, requests and sockets, every
limit of requests in flight and every choice of events (`SocketAssumption`: lines are no V2
requests, sockets are positive numbers, and the limit is positive):

- `SocketsAgree`: `Spec => []Consistent`.
- `UnsentIsHonest`: `Spec => []UnsentPhasesAreHonest`.
- `MixupsHaveACause`: `Spec => MixupsExplained`, an action property.
- `StalePollsStayUnsent`: `Spec => StalePollsUnsent`, an action property.

The invariant is `IInv == TypeOK /\ Links /\ Usable /\ Written /\ Turns /\ InStep`.
`Links` says that a socket which is connecting or open is the current one, under the promise
that callers join, and that no other owes an answer; so the event of any other socket
touches nothing.  By `Usable`, a request about to be written or awaiting its reply never
faces a current socket that is dead.  `Written` is why an error tells the truth: a request
that was written and still waits is on the current socket, with its bytes owed there or
already taken by cmux, and one that failed in the connect or write phase has none.  `Turns`
(only the head of `pendingV1` can have been written) and `InStep` (unless the connection is
confused, cmux owes at most one line, and it is that head) pair replies with lines.  The
lemmas about queues say what appending, removing and taking the head leave; `LostIs` and
`AllLost` carry the invariant over every way a connection ends.  `UnsentIsHonest` is the
promise that `SelfHealingClient` takes over; the two modules are not composed.

Every safety invariant and action property of the passing runs has a theorem,
the two of the outbox under the hypotheses named there.
Only model-checked is liveness (`Settles`, `EventuallySent`, `CallsSettle`, both `Recovers`,
`RequestsSettle`, `RequestsAnswered`, `WaitersResolved`, `EventuallyHandled`): the provers
handle neither fairness nor ENABLED.  No module uses recursive operators, so later proofs can
be written about all of them.

## 6. Not modelled

Screen parsing and the classification of a composer are functions of text, covered by
the repository's fixtures; the delivery and agent models take every outcome they can
return.  Placement, topology, watch specifications, launch commands and path resolution
are sequential.  Doctor, control health, logs, the wizard, `launchd/`, `scripts/` and
`site/` report or install and change nothing the core reads; with the benchmarks they
are a large part of the repository's lines.

Of the agents' life, `AgentLife` leaves out: more than one agent, and with it the
surface-session index, renames and the children they repoint, aliases and seat siblings;
rows another observer owns and rows whose transcript is deferred; the cap on tombstones
and `deletion_intent`; the rules for orchestrators in `purgeTerminal`; a listing
that is partial yet taken for complete; a signal that is refused; batches of stops; the
guard on spawns and the boot prompt; the rows discovery makes up (`auto-`) and the
registrations it moves by their launcher's name; and
`evictDeadProcessAgents`, which has no callers.  A pass of `list_agents` or `wait_for` uses
its listing as soon as it is made: two listings in flight for over 5 s, both older than a pane, could
confirm a miss of it.  `ListHeals` sees a CLI only where one runs; a screen that shows
another's last frame is not modelled.  Its liveness (a booting agent is ready or
failed in the end) is not checked: with two calls and a fault the state graph has some 1.7
million states, too many for TLC's liveness check at these bounds, and with fewer calls
nothing is left that could go wrong.

Of the inbox, what a collision of generated ids does (a millisecond and a counter of the
process) is left out, and so are agents that do not follow the documented policy: one
that only tails the file, as the short boot contract says, and confirms by the cursor
what it saw passes over whatever was appended before it began to tail.

Halt detection, quota resets, watches, the app server, the drain of a retiring daemon and
the reapers are not modelled; their hazards, where they have any that no unit test
reaches, are in `PROJECT.json`.
