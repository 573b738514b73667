----------------------------- MODULE AgentLife -----------------------------
(***************************************************************************)
(* The life of one agent: its record, the panes it was given, the CLI      *)
(* processes typed into them, and everything that writes the record while  *)
(* the others wait: spawnAgent, resumeAgent and stopAgent                  *)
(* (engine/lifecycle.ts), the sweep with the registry's reconciliation and *)
(* eviction (engine/sweep.ts, agent-registry.ts), the screen readings of   *)
(* the sweep and of wait_for (agent-engine.ts), the passes of list_agents  *)
(* (mcp/tools/agent.ts, listMerged), and a restart of the daemon.  Between *)
(* two awaits of one, every other may run: the lifecycle lock that the     *)
(* sweep and list_agents take is lent while they list or scan, and the     *)
(* calls do not take it.                                                   *)
(*                                                                         *)
(* Pane p runs at most one CLI, whose pid is called p: pane 1 is the       *)
(* spawn's, the others are the resumes', in the order they were created.   *)
(* A pane and a pid of 0 are the unbound surface and the null pid.  The    *)
(* states ready, working and idle, which have the same transitions here,   *)
(* are "active".                                                           *)
(***************************************************************************)
EXTENDS Naturals, FiniteSets

CONSTANTS
    N,            \* panes that can be created
    Stoppers,     \* calls of stop_agent
    Resumers,     \* calls of spawn_agent with resume_agent_id
    Made,         \* which of these calls are made: one of these sets
    MaxFaults     \* restarts of the daemon, panes the user closes, CLIs that exit

ASSUME LifeAssumption ==
    /\ N \in Nat \ {0} /\ IsFiniteSet(Stoppers) /\ IsFiniteSet(Resumers)
    /\ Made \subseteq SUBSET (Resumers \cup Stoppers) /\ MaxFaults \in Nat

Panes == 1..N
NoRec == [st |-> "absent", pane |-> 0, pid |-> 0, killed |-> FALSE,
          sess |-> FALSE, err |-> "none", aged |-> FALSE]
NoScan == [at |-> "idle", open |-> {}]
NoResume == [at |-> "idle", force |-> FALSE, pane |-> 0, pid |-> 0, reg |-> 0, new |-> 0]
NoStop == [at |-> "idle", mode |-> "graceful", pane |-> 0, pid |-> 0, marked |-> FALSE]
ResumeOver == [NoResume EXCEPT !.at = "over"]
StopOver == [NoStop EXCEPT !.at = "over"]

VARIABLES
    rec,      \* the agent's record, in memory and on disk
    pane,     \* each pane: "none", "open" or "closed"
    proc,     \* the CLI of each pane: "none", "typed" or "running"
    reg,      \* the process that registered the session last
    spawn,    \* where spawnAgent is
    resume,   \* the resumes, and what they read before their awaits
    stops,    \* the stops, and what they read before their awaits
    scan,     \* the sweep: the panes it listed, and how far it is
    obs,      \* surfacelessObservations: the pane that was missed, or 0
    purge,    \* startupPurgePending
    faults,   \* a counter, bounded above
    forced,   \* ghost: a resume with force has typed its command
    strayed   \* ghost: a stop ended in a record that has another pane since

calls == <<spawn, resume, stops>>
world == <<pane, proc, reg>>
sweeping == <<scan, obs, purge>>
counted == <<faults, forced, strayed>>
vars == <<rec, world, calls, sweeping, counted>>

-----------------------------------------------------------------------------
(* The record                                                              *)

Exists == rec.st # "absent"
Terminal(r) == r.st \in {"done", "error"}

\* Mutant: a reopened record cannot fail before it boots.
CanMoveBooted(from, to) ==
    \/ to = "creating" /\ from = "error"
    \/ to = "error" /\ from \in {"booting", "active"}
    \/ to = "done" /\ from \in {"booting", "active"}
    \/ to = "active" /\ from \in {"booting", "active"}
    \/ to = "booting" /\ from = "creating"

\* VALID_TRANSITIONS.
CanMove(from, to) ==
    \/ to = "creating" /\ from = "error"
    \/ to = "error" /\ from \in {"creating", "booting", "active"}
    \/ to = "done" /\ from \in {"booting", "active"}
    \/ to = "active" /\ from \in {"booting", "active"}
    \/ to = "booting" /\ from = "creating"

\* transition: the state and, for an error, whether its text is that of a CLI
\* that died ("crash") or never became interactive ("stuck").  Every write but unbindSurface renews updated_at.
Moved(r, to, err) ==
    IF CanMove(r.st, to)
    THEN [r EXCEPT !.st = to, !.aged = FALSE, !.err = IF to = "error" THEN err ELSE @]
    ELSE r

\* shouldRetainForExplicitResume
Tombstone(r) == Terminal(r) /\ r.sess /\ (r.killed \/ r.err = "crash")

\* isRetainedResumableSession
Retained(r) == Terminal(r) /\ r.sess /\ ~r.aged

\* agentProcessLiveness: what a probe of a pid may answer.  A recycled pid
\* and one registered in the second of its start are "unknown".
Liveness(pid) ==
    IF pid = 0 THEN {"gone"}
    ELSE IF proc[pid] = "running" THEN {"alive", "unknown"} ELSE {"gone", "unknown"}

Running(r) == r.pane # 0 /\ proc[r.pane] = "running"

\* maybeCaptureBootSessionId: a registration from the pane of a row that is not
\* finished, which may replace a pid that is gone; or a transcript, which one
\* that was deferred finds in any state.
Captures(r) ==
    {s \in {[r EXCEPT !.sess = TRUE, !.pid = reg, !.aged = FALSE]} :
        /\ r.st \in {"booting", "active"} /\ reg # 0 /\ reg = r.pane
        /\ r.pid = 0 \/ ~r.sess \/ (reg # r.pid /\ "gone" \in Liveness(r.pid))}
    \cup {s \in {[r EXCEPT !.sess = TRUE, !.aged = FALSE]} : Running(r) /\ ~r.sess}

Open == {p \in Panes : pane[p] = "open"}

\* A closed pane takes a command that has not started with it; a CLI that
\* runs may outlive its terminal for a while.
Close(p) ==
    /\ pane' = [pane EXCEPT ![p] = "closed"]
    /\ proc' = [proc EXCEPT ![p] = IF @ = "typed" THEN "none" ELSE @]

Init ==
    /\ rec = NoRec
    /\ pane = [p \in Panes |-> "none"] /\ proc = [p \in Panes |-> "none"] /\ reg = 0
    /\ spawn = "idle"
    /\ \E made \in Made :
         /\ resume = [c \in Resumers |-> IF c \in made THEN NoResume ELSE ResumeOver]
         /\ stops = [s \in Stoppers |-> IF s \in made THEN NoStop ELSE StopOver]
    /\ scan = NoScan /\ obs = 0 /\ purge = FALSE
    /\ faults = 0 /\ forced = FALSE /\ strayed = FALSE

-----------------------------------------------------------------------------
(* spawnAgent                                                              *)

Spawned(at) == spawn' = at /\ UNCHANGED <<resume, stops>>

\* createAgentSurface returned a new pane.
SpawnPlaces ==
    /\ spawn = "idle" /\ Spawned("placed")
    /\ pane' = [pane EXCEPT ![1] = "open"]
    /\ UNCHANGED <<rec, proc, reg, sweeping, counted>>

\* The focus failed: the pane stays for the caller to look at.
SpawnUnfocused ==
    /\ spawn = "placed" /\ Spawned("over")
    /\ UNCHANGED <<rec, world, sweeping, counted>>

SpawnRecords ==
    /\ spawn = "placed" /\ Spawned("recorded")
    /\ rec' = [NoRec EXCEPT !.st = "booting", !.pane = 1]
    /\ UNCHANGED <<world, sweeping, counted>>

\* writeState threw, before its rename (no record) or after it (a record that
\* is made terminal at once); the pane is closed again, or could not be.
SpawnUnrecorded ==
    /\ spawn = "placed" /\ Spawned("over")
    /\ rec' \in {rec, [NoRec EXCEPT !.st = "error", !.pane = 1, !.err = "none"]}
    /\ Close(1) \/ UNCHANGED <<pane, proc>>
    /\ UNCHANGED <<reg, sweeping, counted>>

\* reconcileRolePlacements threw outside every try: the record stays booting.
SpawnMisplaced ==
    /\ spawn = "recorded" /\ Spawned("over")
    /\ UNCHANGED <<rec, world, sweeping, counted>>

\* sendLaunchCommand, to the pane the record names now.
SpawnLaunches ==
    /\ spawn = "recorded" /\ Exists /\ rec.pane = 1 /\ pane[1] = "open"
    /\ Spawned("sent")
    /\ proc' = [proc EXCEPT ![1] = "typed"]
    /\ UNCHANGED <<rec, pane, reg, sweeping, counted>>

\* A Codex session is captured at once if it has registered.
SpawnReturns ==
    /\ spawn = "sent" /\ Spawned("over") /\ rec' \in {rec} \cup Captures(rec)
    /\ UNCHANGED <<world, sweeping, counted>>

\* "Launch failed", before or after the command was typed; the session is
\* captured if it can be.
SpawnFails ==
    /\ spawn \in {"recorded", "sent"} /\ Spawned("over")
    /\ rec' \in {Moved(r, "error", "none") : r \in {rec} \cup Captures(rec)}
    /\ UNCHANGED <<world, sweeping, counted>>

SpawnStep ==
    \/ SpawnPlaces \/ SpawnUnfocused \/ SpawnRecords \/ SpawnUnrecorded
    \/ SpawnMisplaced \/ SpawnLaunches \/ SpawnReturns \/ SpawnFails

-----------------------------------------------------------------------------
(* resumeAgent                                                             *)

Resuming(c) == resume[c].at \notin {"idle", "over"}

At(c, r) == resume' = [resume EXCEPT ![c] = r] /\ UNCHANGED <<spawn, stops>>
Refused(c) == At(c, ResumeOver)

Proved(c, force) == At(c, [NoResume EXCEPT !.at = "proved", !.force = force])

\* resumeInProgress: one resume of an agent at a time.
ResumeFree == \A c \in Resumers : ~Resuming(c)

\* The checks before the first await; the registration is dropped if its
\* process is proven gone.  A resume that fails them changes nothing.
ResumeBegins(c) ==
    /\ resume[c].at = "idle" /\ ResumeFree
    /\ Exists /\ Terminal(rec) /\ rec.sess
    /\ \E force \in BOOLEAN, now \in Liveness(rec.pid), then \in Liveness(reg) :
         /\ now = "gone" \/ (now = "unknown" /\ force)
         /\ At(c, [at |-> "proving", force |-> force, pane |-> rec.pane, pid |-> rec.pid,
                   reg |-> IF then = "gone" THEN 0 ELSE reg, new |-> 0])
    /\ UNCHANGED <<rec, world, sweeping, counted>>

\* scanSessionProcesses: `--resume <id>` is in the argv of a resumed CLI, the
\* spawned one carries no id.
Carriers == {p \in Panes \ {1} : proc[p] = "running"}

\* unattributedAgentPanes: live panes that show a CLI and that no record claims.
Unattributed == {p \in Open \ {rec.pane} : proc[p] = "running"}

\* Mutant: a null pid counts as a process that is gone.
NullPidIsGone(r) == "gone" \in Liveness(r.pid) /\ Carriers = {} /\ Unattributed = {}

\* assertPositiveAbsenceProof, for what was read before the listing.
AbsenceProven(r) ==
    r.pid # 0 /\ "gone" \in Liveness(r.pid) /\ Carriers = {} /\ Unattributed = {}

\* assertSessionNotRunningElsewhere: the session runs neither in the row's own
\* pane nor in the one it registered from (the row is bound to that one again).
\* A listing that fails proves nothing: only force goes on then.
ResumeProves(c) ==
    LET r == resume[c] IN
    /\ r.at = "proving"
    /\ \/ /\ r.pane \notin Open /\ r.reg \notin Open
          /\ r.force \/ AbsenceProven(r)
          /\ Proved(c, r.force) /\ UNCHANGED rec
       \/ /\ r.force /\ Proved(c, TRUE) /\ UNCHANGED rec
       \/ /\ ~r.force /\ Refused(c) /\ UNCHANGED rec
       \/ /\ r.pane \in Open /\ Refused(c) /\ UNCHANGED rec
       \/ /\ r.pane \notin Open /\ r.reg \in Open /\ Refused(c)
          /\ rec' = IF Exists THEN [rec EXCEPT !.pane = r.reg, !.aged = FALSE] ELSE rec
    /\ UNCHANGED <<world, sweeping, counted>>

NextPane == Cardinality({p \in Panes : pane[p] # "none"} \cup {1}) + 1

\* createAgentSurface: a fresh pane, or an error.
ResumePlaces(c) ==
    /\ resume[c].at = "proved"
    /\ \/ Refused(c) /\ UNCHANGED pane
       \/ /\ NextPane \in Panes
          /\ pane' = [pane EXCEPT ![NextPane] = "open"]
          /\ At(c, [resume[c] EXCEPT !.at = "placed", !.new = NextPane])
    /\ UNCHANGED <<rec, proc, reg, sweeping, counted>>

\* The focus or the reopening failed: the unbound pane is closed, if it can be.
ResumeCleans(c) ==
    /\ resume[c].at = "placed" /\ Refused(c)
    /\ Close(resume[c].new) \/ UNCHANGED <<pane, proc>>
    /\ UNCHANGED <<rec, reg, sweeping, counted>>

\* reopenForResume and the update that binds the new pane, without an await.
Reopened(p) == [rec EXCEPT !.st = "creating", !.pane = p, !.pid = 0, !.killed = FALSE,
                           !.err = "none", !.aged = FALSE]

ResumeReopens(c) ==
    /\ resume[c].at = "placed" /\ Terminal(rec)
    /\ rec' = Reopened(resume[c].new)
    /\ At(c, [resume[c] EXCEPT !.at = "bound"])
    /\ UNCHANGED <<world, sweeping, counted>>

\* After the tab was renamed.
ResumeBoots(c) ==
    /\ resume[c].at = "bound" /\ CanMove(rec.st, "booting")
    /\ rec' = [Moved(rec, "booting", "none") EXCEPT !.pid = 0, !.sess = TRUE, !.err = "none"]
    /\ At(c, [resume[c] EXCEPT !.at = "booting"])
    /\ UNCHANGED <<world, sweeping, counted>>

\* sendLaunchCommand refuses a pane the record does not name any more.
ResumeLaunches(c) ==
    LET p == resume[c].new IN
    /\ resume[c].at = "booting" /\ Exists /\ rec.pane = p /\ pane[p] = "open"
    /\ proc' = [proc EXCEPT ![p] = "typed"]
    /\ forced' = (forced \/ resume[c].force)
    /\ At(c, [resume[c] EXCEPT !.at = "typed"])
    /\ UNCHANGED <<rec, pane, reg, sweeping, faults, strayed>>

ResumeReturns(c) ==
    /\ resume[c].at = "typed" /\ Refused(c)
    /\ UNCHANGED <<rec, world, sweeping, counted>>

\* Any step after the reopening failed, the launch command typed or not:
\* "Explicit resume failed", on whatever the record is now.
ResumeFails(c) ==
    /\ resume[c].at \in {"bound", "booting", "typed"} /\ Refused(c)
    /\ rec' = Moved(rec, "error", "crash")
    /\ UNCHANGED <<world, sweeping, counted>>

ResumeStep(c) ==
    \/ ResumeBegins(c) \/ ResumeProves(c) \/ ResumePlaces(c) \/ ResumeCleans(c)
    \/ ResumeReopens(c) \/ ResumeBoots(c) \/ ResumeLaunches(c)
    \/ ResumeReturns(c) \/ ResumeFails(c)

-----------------------------------------------------------------------------
(* stopAgent                                                               *)

StopAt(s, r) == stops' = [stops EXCEPT ![s] = r] /\ UNCHANGED <<spawn, resume>>
Ends(s) == StopAt(s, StopOver)

\* A row without a session is evicted; one with a session becomes a tombstone,
\* which keeps the pid only if it is proven gone.
Buried(pid) ==
    IF ~Exists THEN {rec}
    ELSE IF ~rec.sess THEN {NoRec}
    ELSE {[rec EXCEPT !.killed = TRUE, !.aged = FALSE, !.pid = IF l = "gone" THEN pid ELSE 0] :
             l \in Liveness(pid)}

\* Mutant: the mark brings a deleted record back.
MarkedAnyway(value) == [rec EXCEPT !.killed = value, !.aged = FALSE]

Marked(value) == IF Exists THEN [rec EXCEPT !.killed = value, !.aged = FALSE] ELSE rec
Intended(value) == IF rec.killed THEN rec ELSE Marked(value)

\* What a stop writes when its wait is over goes into whatever record there is.
Strays(r) ==
    strayed' = \/ strayed
               \/ rec.pane \notin {0, r.pane}
               \/ \E p \in Panes \ {r.pane} : proc[p] \in {"typed", "running"}

\* The checks before the first await.  A stop of a finished agent changes
\* nothing but the mark of one that failed; with force it goes on.
StopBegins(s) ==
    /\ stops[s].at = "idle" /\ Exists
    /\ \/ /\ ~Terminal(rec)
          /\ \E mode \in {"graceful", "force"} :
               StopAt(s, [NoStop EXCEPT !.at = "routing", !.mode = mode])
          /\ UNCHANGED rec
       \/ /\ Terminal(rec) /\ Ends(s)
          /\ rec' = IF rec.st = "error" THEN Intended(TRUE) ELSE rec
       \/ /\ Terminal(rec) /\ ~rec.sess /\ Ends(s) /\ rec' = NoRec
       \/ /\ Terminal(rec) /\ rec.sess /\ UNCHANGED rec
          /\ StopAt(s, [NoStop EXCEPT !.at = "probing", !.mode = "force",
                                      !.pane = rec.pane, !.pid = rec.pid])
    /\ UNCHANGED <<world, sweeping, counted>>

\* isAgentSurfaceGone, with force on a finished agent with a session: if
\* nothing is left of what was read, the tombstone is all there is to write.
StopProbes(s) ==
    LET r == stops[s] IN
    /\ r.at = "probing"
    /\ \/ /\ r.pane \notin Open /\ Ends(s) /\ Strays(r)
          /\ \E l \in Liveness(r.pid) :
               l = "gone" /\ rec' = [Marked(TRUE) EXCEPT !.pid = IF Exists THEN r.pid ELSE 0]
       \/ /\ StopAt(s, [NoStop EXCEPT !.at = "routing", !.mode = "force"])
          /\ UNCHANGED <<rec, strayed>>
    /\ UNCHANGED <<world, sweeping, faults, forced>>

\* The record's pane is not in a fresh listing, or the record is gone.
StopUnrouted(s) ==
    /\ stops[s].at = "routing" /\ Ends(s)
    /\ UNCHANGED <<rec, world, sweeping, counted>>

\* The route was resolved, compared and gated; the intent is marked and, with
\* force, the process is signalled, all without an await.
StopMarks(s) ==
    LET graceful == stops[s].mode = "graceful"
        To(mode) == [at |-> IF graceful THEN "signalling" ELSE "closing", mode |-> mode,
                     pane |-> rec.pane, pid |-> rec.pid, marked |-> graceful /\ ~rec.killed]
    IN
    /\ stops[s].at = "routing" /\ Exists /\ rec.pane \in Open
    /\ \/ /\ graceful
          /\ rec' = Intended(TRUE) /\ StopAt(s, To("graceful")) /\ UNCHANGED proc
       \/ /\ ~graceful /\ "gone" \in Liveness(rec.pid)
          /\ rec' = Intended(TRUE) /\ StopAt(s, To("accepted")) /\ UNCHANGED proc
       \/ /\ ~graceful /\ "alive" \in Liveness(rec.pid)
          /\ rec' = Intended(TRUE) /\ StopAt(s, To("accepted"))
          /\ proc' = [proc EXCEPT ![rec.pid] = "none"]
       \/ /\ ~graceful /\ "unknown" \in Liveness(rec.pid) /\ UNCHANGED proc
          /\ \/ rec' = Intended(TRUE) /\ StopAt(s, To("owned"))
             \/ rec' = Intended(FALSE) /\ Ends(s)
    /\ UNCHANGED <<pane, reg, sweeping, counted>>

\* Ctrl+C to the pane that was marked, which the CLI heeds or not; if the route
\* changed or the key was not sent, the intent is rolled back.
StopSignals(s) ==
    LET r == stops[s] IN
    /\ r.at = "signalling"
    /\ \/ /\ Exists /\ rec.pane = r.pane /\ r.pane \in Open
          /\ StopAt(s, [r EXCEPT !.at = "closing", !.marked = FALSE])
          /\ proc' \in {proc, [proc EXCEPT ![r.pane] = "none"]} /\ UNCHANGED rec
       \/ Ends(s) /\ rec' = (IF r.marked THEN Marked(FALSE) ELSE rec) /\ UNCHANGED proc
    /\ UNCHANGED <<pane, reg, sweeping, counted>>

\* The route is resolved again: whatever pane the record names now is closed,
\* or could not be.  With no route the stop goes on only if its pane is gone.
StopCloses(s) ==
    LET r == stops[s]
        now == [r EXCEPT !.at = "waiting", !.pane = rec.pane, !.pid = rec.pid]
    IN
    /\ r.at = "closing"
    /\ \/ /\ rec.pane \in Open /\ StopAt(s, now)
          /\ Close(rec.pane) \/ UNCHANGED <<pane, proc>>
       \/ /\ rec.pane \notin Open /\ r.pane \notin Open
          /\ StopAt(s, [r EXCEPT !.at = "waiting"])
          /\ UNCHANGED <<pane, proc>>
       \/ /\ Ends(s) /\ UNCHANGED <<pane, proc>>
    /\ UNCHANGED <<rec, reg, sweeping, counted>>

\* readStopPostCondition: the pane is gone and so is the process; after an
\* accepted signal an unknown process counts as gone.
Stopped(r) ==
    /\ r.pane \notin Open
    /\ \/ "gone" \in Liveness(r.pid)
       \/ r.mode = "accepted" /\ "unknown" \in Liveness(r.pid)

\* done, or error where done is not allowed
Finished(r) ==
    IF CanMove(r.st, "done") THEN Moved(r, "done", "none") ELSE Moved(r, "error", "none")

StopEnds(s) ==
    LET r == stops[s] IN
    /\ r.at = "waiting" /\ Stopped(r) /\ Ends(s) /\ Strays(r)
    /\ \/ r.mode = "graceful" /\ rec' = Finished(Marked(TRUE))
       \/ r.mode # "graceful" /\ \E b \in Buried(r.pid) : rec' = Finished(b)
    /\ UNCHANGED <<world, sweeping, faults, forced>>

\* The deadline passed: the record says so, and keeps its state.
StopTimesOut(s) ==
    LET r == stops[s] IN
    /\ r.at = "waiting" /\ Ends(s)
    /\ rec' = IF Exists THEN [rec EXCEPT !.err = "none", !.aged = FALSE] ELSE rec
    /\ UNCHANGED <<world, sweeping, counted>>

StopStep(s) ==
    \/ StopBegins(s) \/ StopProbes(s) \/ StopUnrouted(s) \/ StopMarks(s)
    \/ StopSignals(s) \/ StopCloses(s) \/ StopEnds(s) \/ StopTimesOut(s)

-----------------------------------------------------------------------------
(* The sweep.  Row is the record with what the registry remembers of the   *)
(* pane it missed; each pass of the registry maps a row to the next one.   *)
(* gone is what a probe of the recorded pid said, listed the panes of the  *)
(* sweep's listing; a miss is ripe if it is 5 s old, which any sweep after *)
(* the one that noted it may find.                                         *)

GoneReadings == {l = "gone" : l \in Liveness(rec.pid)}

Row(r, missed, ripe) == [rec |-> r, obs |-> missed, ripe |-> ripe]
Seen(x) == Row(x.rec, 0, FALSE)
Deleted == Row(NoRec, 0, FALSE)

\* Mutant: the first miss counts for whatever pane the row has now.
ConfirmedAnyPane(x) == x.ripe

\* isSurfacelessConfirmed: the same pane was missed 5 s ago.
Confirmed(x) == x.obs = x.rec.pane /\ x.ripe

\* What a miss that is not confirmed leaves behind.
Missed(x) ==
    IF x.obs = x.rec.pane THEN x ELSE Row(x.rec, x.rec.pane, FALSE)

\* The pane is listed; or there is none, whose absence proves nothing.
Attended(x, listed) == x.rec.pane \in listed \cup {0}

\* reconcileSurfaces
Reconciled(x, listed, gone) ==
    CASE Attended(x, listed) -> Seen(x)
      [] ~Attended(x, listed) /\ Terminal(x.rec) -> x
      [] ~Attended(x, listed) /\ ~Terminal(x.rec) /\ ~gone -> Seen(x)
      [] OTHER -> IF Confirmed(x) THEN [x EXCEPT !.rec = Moved(@, "error", "crash")] ELSE Missed(x)

\* unbindRetainedSession: updated_at stays.
Unbound(x, listed) ==
    IF x.rec.pane \in listed THEN Seen(x) ELSE Row([x.rec EXCEPT !.pane = 0], 0, FALSE)

\* isExpiredResumableSession and isUnboundResumableSession
Expired(r) == Terminal(r) /\ r.sess /\ r.aged /\ ~Tombstone(r) /\ r.pane = 0

\* Mutant: the sweeps forget the retention window.
EvictedUnretained(x, listed, gone) ==
    CASE ~gone \/ x.rec.pane \in listed -> Seen(x)
      [] OTHER -> IF ~Confirmed(x) THEN Missed(x)
                  ELSE IF Tombstone(x.rec) THEN x ELSE Deleted

\* evictSurfaceless, with sweepSessionRow
Evicted(x, listed, gone) ==
    CASE ~gone -> Seen(x)
      [] gone /\ Retained(x.rec) -> Unbound(x, listed)
      [] gone /\ ~Retained(x.rec) /\ Expired(x.rec) -> Deleted
      [] gone /\ ~Retained(x.rec) /\ ~Expired(x.rec) /\ Attended(x, listed) -> Seen(x)
      [] OTHER -> IF ~Confirmed(x) THEN Missed(x)
                  ELSE IF Tombstone(x.rec) THEN x ELSE Deleted

\* purgeAllTerminal, once after a start
StartPurged(x, listed, gone) ==
    IF Tombstone(x.rec) \/ ~gone THEN x
    ELSE IF Retained(x.rec) THEN Unbound(x, listed)
    ELSE IF Terminal(x.rec) THEN Deleted ELSE x

\* purgeTerminal, for a worker
Purged(x, listed, gone) ==
    CASE Tombstone(x.rec) -> x
      [] ~Tombstone(x.rec) /\ (~gone \/ (x.rec.pane \in listed /\ ~Retained(x.rec))) -> Seen(x)
      [] ~Tombstone(x.rec) /\ gone /\ Retained(x.rec) -> Unbound(x, listed)
      [] ~Tombstone(x.rec) /\ gone /\ Expired(x.rec) -> Deleted
      [] OTHER -> IF ~Terminal(x.rec) THEN x
                  ELSE IF Confirmed(x) THEN Deleted ELSE Missed(x)

\* Each pass first forgets the miss of a pane that is listed.
Noticed(x, listed) == IF x.obs \in listed THEN Seen(x) ELSE x

Swept(x, listed, gone) ==
    IF x.rec = NoRec THEN Deleted
    ELSE LET e == Evicted(Reconciled(Noticed(x, listed), listed, gone), listed, gone)
             p == IF purge /\ e.rec # NoRec THEN StartPurged(e, listed, gone) ELSE e
         IN IF p.rec = NoRec THEN p ELSE Purged(p, listed, gone)

\* The panes are listed without the lock; a listing that is not authoritative
\* (empty, incomplete, another observer) ends the sweep's mutations.
SweepLists ==
    /\ scan.at = "idle" /\ scan' = [at |-> "listed", open |-> Open]
    /\ UNCHANGED <<rec, world, calls, obs, purge, counted>>

SweepRegistry ==
    /\ scan.at = "listed" /\ scan' = NoScan
    /\ \E gone \in GoneReadings, ripe \in {FALSE, obs # 0} :
         LET x == Swept(Row(rec, obs, ripe), scan.open, gone)
         IN rec' = x.rec /\ obs' = x.obs
    /\ purge' = FALSE
    /\ UNCHANGED <<world, calls, counted>>

-----------------------------------------------------------------------------
(* The screens: the sweep's readings of a live pane, and wait_for's.       *)

\* maybeMarkBootReady: ready, or "Stuck booting" when the timeout passed.
BootMarks(r) ==
    IF r.st # "booting" THEN {}
    ELSE {IF Running(r) THEN Moved(r, "active", "none") ELSE Moved(r, "error", "stuck")}

\* maybeMarkTaskDone, on evidence any screen may show; maybeMarkCliExited;
\* reopenAfterVerifiedDelivery, for a message the CLI took.
StateMarks(r) ==
    {s \in {Moved(r, "done", "none")} : r.st \in {"booting", "active"}}
    \cup {s \in {Moved(r, "error", "crash")} : r.st = "active" /\ ~Running(r)}
    \cup {s \in {[r EXCEPT !.st = "active", !.aged = FALSE]} :
             r.st = "done" /\ ~r.killed /\ Running(r)}

\* A record that changed during the reading is left alone (its version), so
\* what was read and what is written belong to the same record.
Readable == scan.at = "idle" /\ Exists /\ rec.pane \in Open

SweepCaptures ==
    /\ Readable /\ rec' \in Captures(rec)
    /\ UNCHANGED <<world, calls, sweeping, counted>>

SweepMarksBoot ==
    /\ Readable /\ rec' \in BootMarks(rec)
    /\ UNCHANGED <<world, calls, sweeping, counted>>

SweepMarksState ==
    /\ Readable /\ rec' \in StateMarks(rec)
    /\ UNCHANGED <<world, calls, sweeping, counted>>

\* wait_for has no version to compare: what it read of an agent, at any time,
\* marks whatever record there is when it has confirmed it.
WaitMarks ==
    /\ CanMove(rec.st, "done") /\ rec' = Moved(rec, "done", "none")
    /\ UNCHANGED <<world, calls, sweeping, counted>>

-----------------------------------------------------------------------------
(* list_agents, and listMerged for the other calls that bring the records  *)
(* up to date: the passes of the registry, each with a listing of its own  *)
(* that it uses as it comes, and then what a scan of the screens says.     *)
(* The callers begin at different passes, wait between any two, and stop   *)
(* at a listing that fails, so the passes come in any order; they share    *)
(* the sweep's memory of misses.                                           *)

\* A pass that changes nothing is no step.
Writes(x) ==
    /\ x.rec # rec \/ x.obs # obs
    /\ rec' = x.rec /\ obs' = x.obs
    /\ UNCHANGED <<world, calls, scan, purge, counted>>

\* A pane that is listed, and was not missed, gives a pass nothing to do.
Remembered ==
    IF ~Exists \/ (rec.pane \in Open /\ obs = 0) THEN {}
    ELSE {Noticed(Row(rec, obs, ripe), Open) : ripe \in {FALSE, obs # 0}}

\* list_agents evicts before anything has reconciled.
ListEvicts == \E x \in Remembered, gone \in GoneReadings : Writes(Evicted(x, Open, gone))

\* The reconciliation, which wait_for has too, and the purge of the workers.
ListTidies ==
    \E x \in Remembered, gone \in GoneReadings :
        Writes(Reconciled(x, Open, gone)) \/ Writes(Purged(x, Open, gone))

\* evictBootingGhosts, whatever session the row has: a boot that has lasted too
\* long, or is said to have, in a pane whose screen showed no CLI when it was
\* scanned, which it may do for one that runs.
Ghost(r) == r.pane # 0 /\ (r.st = "booting" \/ (r.st = "error" /\ r.err = "stuck"))

ListGhosts ==
    /\ Ghost(rec) /\ rec' = NoRec /\ obs' = 0
    /\ UNCHANGED <<world, calls, scan, purge, counted>>

\* resetState: what a screen says is the state, whatever it was.
Reset(r) == {[r EXCEPT !.st = st, !.err = "none", !.aged = FALSE] : st \in {"active", "done", "error"}}

\* recoverSessionContinuity: the session registered from another pane, where
\* its process is alive, and the row's own pane is gone.
ListRecovers ==
    /\ Exists /\ rec.sess /\ ~rec.killed /\ rec.pane \notin Open
    /\ reg \in Open /\ proc[reg] = "running"
    /\ rec' \in Reset([rec EXCEPT !.pane = reg, !.pid = reg])
    /\ UNCHANGED <<world, calls, sweeping, counted>>

\* syncManagedRecordLifecycleFromDiscovery: the agent had failed, and its pane
\* shows a CLI.
ListHeals ==
    /\ rec.st = "error" /\ ~rec.killed /\ rec.pane \in Open /\ Running(rec)
    /\ rec' \in Reset(rec)
    /\ UNCHANGED <<world, calls, sweeping, counted>>

Listing ==
    \/ ListEvicts \/ ListTidies \/ ListGhosts
    \/ ListRecovers \/ ListHeals

-----------------------------------------------------------------------------
(* The terminals, the CLIs and the user, outside the program               *)

ProcStarts(p) ==
    /\ proc[p] = "typed" /\ pane[p] = "open" /\ proc' = [proc EXCEPT ![p] = "running"]
    /\ UNCHANGED <<rec, pane, reg, calls, sweeping, counted>>

Fault == faults < MaxFaults /\ faults' = faults + 1

\* The session's hook writes the pid of its CLI.
Registers(p) ==
    /\ proc[p] = "running" /\ reg # p /\ reg' = p
    /\ UNCHANGED <<rec, pane, proc, calls, sweeping, counted>>

\* By itself, or because its terminal is gone.
ProcEnds(p) ==
    /\ proc[p] \in {"typed", "running"} /\ proc' = [proc EXCEPT ![p] = "none"]
    /\ IF pane[p] = "open" THEN Fault ELSE UNCHANGED faults
    /\ UNCHANGED <<rec, pane, reg, calls, sweeping, forced, strayed>>

PaneCloses(p) ==
    /\ pane[p] = "open" /\ Close(p) /\ Fault
    /\ UNCHANGED <<rec, reg, calls, sweeping, forced, strayed>>

\* The retention window of a finished row passes, which only one with a session
\* has: 14 days, which no call and no sweep lasts.
Ages ==
    /\ Terminal(rec) /\ rec.sess /\ ~rec.aged /\ rec' = [rec EXCEPT !.aged = TRUE]
    /\ spawn = "over" /\ ResumeFree /\ scan.at = "idle"
    /\ \A s \in Stoppers : stops[s].at \in {"idle", "over"}
    /\ UNCHANGED <<world, calls, sweeping, counted>>

World == Ages \/ \E p \in Panes : ProcStarts(p) \/ Registers(p) \/ ProcEnds(p) \/ PaneCloses(p)

\* The daemon dies and a new one starts: every call is lost where it is, and
\* reconstitute reads the record and, if the panes can be listed, reconciles
\* it without waiting for a second miss.
Restart ==
    /\ Fault
    /\ spawn' = IF spawn = "idle" THEN spawn ELSE "over"
    /\ resume' = [c \in Resumers |-> IF Resuming(c) THEN ResumeOver ELSE resume[c]]
    /\ stops' = [s \in Stoppers |-> IF stops[s].at = "idle" THEN stops[s] ELSE StopOver]
    /\ scan' = NoScan /\ obs' = 0 /\ purge' = TRUE
    /\ \/ rec' = rec
       \/ /\ Exists
          /\ \E gone \in GoneReadings :
               rec' = Reconciled(Row(rec, rec.pane, TRUE), Open, gone).rec
    /\ UNCHANGED <<world, forced, strayed>>

-----------------------------------------------------------------------------
Sweep ==
    \/ SweepLists \/ SweepRegistry \/ SweepCaptures \/ SweepMarksBoot
    \/ SweepMarksState

Next ==
    \/ SpawnStep \/ Sweep \/ WaitMarks \/ Listing
    \/ \E c \in Resumers : ResumeStep(c)
    \/ \E s \in Stoppers : StopStep(s)
    \/ World \/ Restart

Spec == Init /\ [][Next]_vars

-----------------------------------------------------------------------------
(* Properties                                                              *)

\* Every variable has its type, and a record that is absent is NoRec.
TypeOK ==
    /\ rec \in [st : {"absent", "creating", "booting", "active", "done", "error"},
                pane : 0..N, pid : 0..N, killed : BOOLEAN, sess : BOOLEAN,
                err : {"none", "crash", "stuck"}, aged : BOOLEAN]
    /\ Exists \/ rec = NoRec
    /\ pane \in [Panes -> {"none", "open", "closed"}]
    /\ proc \in [Panes -> {"none", "typed", "running"}] /\ reg \in 0..N
    /\ spawn \in {"idle", "placed", "recorded", "sent", "over"}
    /\ resume \in [Resumers -> [at : {"idle", "proving", "proved", "placed", "bound",
                                      "booting", "typed", "over"},
                                force : BOOLEAN, pane : 0..N, pid : 0..N, reg : 0..N, new : 0..N]]
    /\ stops \in [Stoppers -> [at : {"idle", "probing", "routing", "signalling", "closing",
                                     "waiting", "over"},
                               mode : {"graceful", "force", "accepted", "owned"},
                               pane : 0..N, pid : 0..N, marked : BOOLEAN]]
    /\ purge \in BOOLEAN /\ forced \in BOOLEAN /\ strayed \in BOOLEAN
    /\ scan \in [at : {"idle", "listed"}, open : SUBSET Panes]
    /\ obs \in 0..N /\ faults \in 0..MaxFaults

\* A session is never in two CLIs at once, typed or running, whatever stops,
\* resumes, sweeps and restarts come in between (lifecycle.ts:767-779), unless
\* a resume was forced, which gives up the proof, or a stop declared another
\* pane's CLI ended than the one it had waited for.
OneProcessPerSession ==
    \/ forced \/ strayed
    \/ Cardinality({p \in Panes : proc[p] \in {"typed", "running"}}) <= 1

\* The row of a session that has ended is deleted by nobody before its
\* retention window has passed: until then it can be resumed.  The row of one
\* that has not ended is deleted by nothing but list_agents, once its pane was
\* missed and confirmed and its process is gone.  The boots list_agents takes
\* for ghosts are the one exception to both.
SessionRowsKept ==
    [][Exists /\ rec.sess /\ ~Exists' =>
         \/ Terminal(rec) /\ rec.aged
         \/ ListEvicts /\ ~Terminal(rec) /\ rec.pane \notin Open /\ obs = rec.pane
         \/ ListGhosts]_vars

\* The registry passes, the sweep's and those of list_agents and wait_for,
\* neither end, nor unbind, nor delete an agent that lives in a pane that is
\* open, however old the listing and the miss they remember are.
LivePanesKept ==
    [][Exists /\ ~Terminal(rec) /\ rec.pane \in Open /\ rec' # rec =>
         ~(SweepRegistry \/ ListEvicts \/ ListTidies)]_vars

\* A reopened record waits for a resume that still runs and whose pane it is
\* bound to: a resume that fails, loses a race or is refused never leaves its
\* agent "creating", where no sweep looks at it.  After a fault, of whatever
\* kind, nothing is claimed: a restart that loses the resume leaves it so.
CreatingAttended ==
    rec.st = "creating" =>
        faults > 0 \/ \E c \in Resumers : resume[c].at = "bound" /\ resume[c].new = rec.pane
=============================================================================
