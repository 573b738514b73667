--------------------------- MODULE LifecycleLock ---------------------------
(***************************************************************************)
(* runLifecycleMutation of the agent engine (src/src/agent-engine.ts) and  *)
(* its users: list_agents, the periodic sweep, and the operations that     *)
(* just mutate (close-agent, adopt-session, ensure-registered, ...).       *)
(*                                                                         *)
(* The lock is a chain of promises.  Each acquisition takes the tail of    *)
(* the chain and installs its own; it is granted when the one before it is *)
(* resolved.  A waiter may time out, a holder that hangs is released by a  *)
(* timer while its operation goes on, and a holder may lend the lock       *)
(* around its I/O, queueing again afterwards.  Slots are numbered in the   *)
(* order in which they were chained, and one identifies its acquisition.   *)
(***************************************************************************)
EXTENDS Naturals, FiniteSets

CONSTANTS
    Scanners,   \* list_agents calls (observeOnly)
    Mutators,   \* calls that acquire, mutate and finish
    Sweeps,     \* runSweep calls
    MaxSteps    \* bound: steps of one sweep (mutations and lendings)

ASSUME LockAssumption ==
    /\ Scanners \cap Mutators = {}
    /\ (Scanners \cup Mutators) \cap Sweeps = {}
    /\ MaxSteps \in Nat

\* Only the bounds of TypeOK rest on it.
ASSUME FiniteAssumption == IsFiniteSet(Scanners \cup Mutators \cup Sweeps)

Callers == Scanners \cup Mutators \cup Sweeps
Attempts == 2   \* unlocked scans of list_agents before it scans under the lock

VARIABLES
    slots,      \* slots chained so far: the last one is lifecycleMutationTail
    released,   \* slots whose promise is resolved
    abandoned,  \* slots whose waiter timed out
    forced,     \* calls that were declared hung (lifecycleLockForcedReleases)
    shown,      \* lifecycleLockAcquisitionId: what control_health shows (0: free)
    revision,   \* lifecycleLockMutatingSeq
    at,         \* where each call is
    slot,       \* the slot the call took last (0: none yet)
    lent,       \* what the call lent the lock for last, then what came of it
    steps,      \* scans tried by a list_agents call, steps made by a sweep
    rev,        \* lifecycleLockRevision as read before the unlocked scan
    seen,       \* the world as the scan saw it
    world,      \* mutations made under the lock
    strays      \* ghost: how the lock was lost by calls that then mutated

chain == <<slots, released, abandoned, forced>>
vars == <<chain, shown, revision, at, slot, lent, steps, rev, seen, world, strays>>

Places == {"idle", "waiting", "running", "lent", "settled"}
Lendings == {"none", "scan", "accepted", "topology", "screen", "yield"}
MaxSlots == 3 * Cardinality(Scanners) + Cardinality(Mutators)
              + (MaxSteps + 2) * Cardinality(Sweeps)
MaxWorld == Cardinality(Mutators) + MaxSteps * Cardinality(Sweeps)
NoScan == MaxWorld + 1

Init ==
    /\ slots = 0 /\ released = {} /\ abandoned = {} /\ forced = {}
    /\ shown = 0 /\ revision = 0
    /\ at = [c \in Callers |-> "idle"]
    /\ slot = [c \in Callers |-> 0]
    /\ lent = [c \in Callers |-> "none"]
    /\ steps = [c \in Callers |-> 0]
    /\ rev = [c \in Callers |-> 0]
    /\ seen = [c \in Callers |-> NoScan]
    /\ world = 0 /\ strays = {}

----------------------------------------------------------------------------
(* The lock.                                                               *)

Waiting(c) == at[c] = "waiting"
QueueDepth == Cardinality({c \in Callers : Waiting(c)})
\* Mutant: a waiter that times out resolves its slot.
ResolvedEarly(s) == s = 0 \/ s \in released \cup abandoned
Resolved(s) == s = 0 \/ s \in released

\* An operation that runs holds the lock, unless the hold guard gave its slot
\* away or its own reacquisition timed out and nobody told it.
Holds(c) == at[c] = "running" /\ slot[c] \notin released \cup abandoned
ForcedOut(c) == at[c] = "running" /\ slot[c] \in released \ abandoned
Lockless(c) == at[c] = "running" /\ slot[c] \in abandoned

\* The call chains a slot of its own to the tail and waits for the one before.
Chain(c) ==
    /\ slots' = slots + 1
    /\ slot' = [slot EXCEPT ![c] = slots + 1]
    /\ at' = [at EXCEPT ![c] = "waiting"]
    /\ UNCHANGED <<released, abandoned, forced>>

Request(c) ==
    /\ at[c] = "idle"
    /\ Chain(c)
    /\ UNCHANGED <<shown, revision, lent, steps, rev, seen, world, strays>>

\* Only a holder that may change what discovery observes counts.  Mutant: the
\* sweep is taken for an observer.
RevisionAfterMutators(c) == IF c \in Mutators THEN revision + 1 ELSE revision
RevisionAfter(c) == IF c \in Scanners THEN revision ELSE revision + 1

Grant(c) ==
    /\ Waiting(c) /\ Resolved(slot[c] - 1)
    /\ at' = [at EXCEPT ![c] = "running"]
    /\ shown' = slot[c]
    /\ revision' = RevisionAfter(c)
    /\ UNCHANGED <<chain, slot, lent, steps, rev, seen, world, strays>>

\* What a call knew dies with it.
Forget(c) ==
    /\ lent' = [lent EXCEPT ![c] = "none"]
    /\ steps' = [steps EXCEPT ![c] = 0]
    /\ rev' = [rev EXCEPT ![c] = 0]
    /\ seen' = [seen EXCEPT ![c] = NoScan]

\* What a sweep does with a reacquisition that timed out: reads of a screen
\* catch every error (sweepWatchesBestEffort, reconcileAgents) and the sweep
\* goes on; for the topology and between phases the error ends the sweep.
Swallowed(c) == c \in Sweeps /\ lent[c] = "screen"

\* The acquire timer fires first.  The slot stays in the chain.
TimeOut(c) ==
    /\ Waiting(c) /\ ~Resolved(slot[c] - 1)
    /\ abandoned' = abandoned \cup {slot[c]}
    /\ IF Swallowed(c)
       THEN /\ at' = [at EXCEPT ![c] = "running"]
            /\ UNCHANGED <<lent, steps, rev, seen>>
       ELSE at' = [at EXCEPT ![c] = "settled"] /\ Forget(c)
    /\ UNCHANGED <<slots, released, forced, shown, revision, slot, world, strays>>

\* previous.then(release, release) of a slot that timed out.  Mutant: it is
\* never resolved.
PassOnNever(s) == FALSE
PassOn(s) ==
    /\ s \in abandoned \ released /\ Resolved(s - 1)
    /\ released' = released \cup {s}
    /\ UNCHANGED <<slots, abandoned, forced, shown, revision, at, slot, lent, steps,
                   rev, seen, world, strays>>

\* The hold guard: the slot is resolved, the operation is not stopped.
ForceRelease(c) ==
    /\ Holds(c)
    /\ released' = released \cup {slot[c]}
    /\ forced' = forced \cup {c}
    /\ UNCHANGED <<slots, abandoned, shown, revision, at, slot, lent, steps,
                   rev, seen, world, strays>>

\* releaseHeld: only the owner of the diagnostics clears them.  Mutant: whoever
\* releases does.
ShownAfterAny(c) == 0
ShownAfter(c) == IF shown = slot[c] THEN 0 ELSE shown

ReleaseHeld(c) ==
    /\ released' = released \cup ({slot[c]} \ abandoned)
    /\ shown' = ShownAfter(c)
    /\ UNCHANGED <<slots, abandoned, forced>>

\* The operation returns or throws.  A sweep
\* that lost the lock ends so when it is to yield ("lifecycle lock is not held"),
\* and list_agents when it has used its scan.
Settle(c) ==
    /\ at[c] = "running"
    /\ ReleaseHeld(c)
    /\ at' = [at EXCEPT ![c] = "settled"]
    /\ Forget(c)
    /\ UNCHANGED <<revision, slot, world, strays>>

\* withUnlocked: the lock is given back for the I/O ...
Lend(c, why) ==
    /\ at[c] = "running" /\ ~Lockless(c)
    /\ ReleaseHeld(c)
    /\ at' = [at EXCEPT ![c] = "lent"]
    /\ lent' = [lent EXCEPT ![c] = why]
    /\ steps' = [steps EXCEPT ![c] = @ + 1]
    /\ UNCHANGED <<revision, slot, world, strays>>

\* ... and asked for again when the I/O has settled, whatever its outcome.
Reacquire(c) ==
    /\ at[c] = "lent"
    /\ Chain(c)
    /\ UNCHANGED <<shown, revision, lent, steps, rev, seen, world, strays>>

\* A change that discovery could observe.
Mutate(c) ==
    /\ at[c] = "running"
    /\ world' = IF Holds(c) THEN world + 1 ELSE world
    /\ strays' = strays \cup (IF ForcedOut(c) THEN {"forced"} ELSE {})
                        \cup (IF Lockless(c) THEN {"lost"} ELSE {})
    /\ steps' = [steps EXCEPT ![c] = @ + 1]
    /\ UNCHANGED <<chain, shown, revision, at, slot, lent, rev, seen>>

----------------------------------------------------------------------------
(* close-agent, adopt-session and the like.                                *)

MutatorWorks(c) == steps[c] = 0 /\ Mutate(c)

----------------------------------------------------------------------------
(* list_agents.                                                            *)

\* Mutant: one attempt too many.
AttemptedOnceMore(c) == steps[c] > Attempts
Attempted(c) == steps[c] = Attempts

Acceptable(c) == lent[c] = "scan" /\ seen[c] # NoScan /\ rev[c] = revision

\* The revision is read, and the lock lent for a scan of every surface.
LendForScan(c) ==
    /\ lent[c] \in {"none", "scan"} /\ ~Acceptable(c) /\ ~Attempted(c)
    /\ Lend(c, "scan")
    /\ rev' = [rev EXCEPT ![c] = revision]
    /\ seen' = [seen EXCEPT ![c] = NoScan]

\* The scan reads the world; it is thrown away when a binding changed under it
\* (SurfaceBindingChangedDuringDiscoveryError), which is the step not taken.
ScanUnlocked(c) ==
    /\ at[c] = "lent" /\ lent[c] = "scan" /\ seen[c] = NoScan
    /\ seen' = [seen EXCEPT ![c] = world]
    /\ UNCHANGED <<chain, shown, revision, at, slot, lent, steps, rev, world, strays>>

Accept(c) ==
    /\ at[c] = "running" /\ Acceptable(c)
    /\ lent' = [lent EXCEPT ![c] = "accepted"]
    /\ UNCHANGED <<chain, shown, revision, at, slot, steps, rev, seen, world, strays>>

ScanUnderLock(c) ==
    /\ at[c] = "running" /\ lent[c] = "scan"
    /\ ~Acceptable(c) /\ Attempted(c)
    /\ seen' = [seen EXCEPT ![c] = world]
    /\ lent' = [lent EXCEPT ![c] = "accepted"]
    /\ UNCHANGED <<chain, shown, revision, at, slot, steps, rev, world, strays>>

----------------------------------------------------------------------------
(* runSweepOnce.                                                           *)

CollectTopology(c) ==
    /\ lent[c] = "none"
    /\ Lend(c, "topology")
    /\ UNCHANGED <<rev, seen>>

InPhases(c) == lent[c] \notin {"none"} /\ steps[c] <= MaxSteps

SweepMutates(c) == InPhases(c) /\ Mutate(c)

ReadScreen(c) ==
    /\ InPhases(c)
    /\ Lend(c, "screen")
    /\ UNCHANGED <<rev, seen>>

\* yieldToWaiters, between two phases.
YieldToWaiters(c) ==
    /\ InPhases(c) /\ QueueDepth > 0
    /\ Lend(c, "yield")
    /\ UNCHANGED <<rev, seen>>

----------------------------------------------------------------------------
Terminating ==
    /\ \A c \in Callers : at[c] = "settled"
    /\ UNCHANGED vars

Scanning(c) == LendForScan(c) \/ ScanUnlocked(c) \/ Accept(c) \/ ScanUnderLock(c)
Sweeping(c) == CollectTopology(c) \/ SweepMutates(c) \/ ReadScreen(c)
                 \/ YieldToWaiters(c)

Next ==
    \/ \E c \in Callers : Request(c) \/ Grant(c) \/ TimeOut(c) \/ ForceRelease(c)
                            \/ Settle(c) \/ Reacquire(c)
    \/ \E s \in abandoned : PassOn(s)
    \/ \E c \in Mutators : MutatorWorks(c)
    \/ \E c \in Scanners : Scanning(c)
    \/ \E c \in Sweeps : Sweeping(c)
    \/ Terminating

Spec == Init /\ [][Next]_vars

\* Resolved promises run their continuations and the hold guard is armed; an
\* operation may hang for ever, and no acquire timer need fire.
Fairness ==
    /\ \A c \in Callers : WF_vars(Grant(c)) /\ WF_vars(ForceRelease(c))
    /\ \A s \in 1..MaxSlots : WF_vars(s \in abandoned /\ PassOn(s))

FairSpec == Spec /\ Fairness

----------------------------------------------------------------------------
TypeOK ==
    /\ slots \in 0..MaxSlots
    /\ released \subseteq 1..slots /\ abandoned \subseteq 1..slots
    /\ forced \subseteq Callers
    /\ shown \in 0..slots /\ revision \in 0..slots
    /\ at \in [Callers -> Places]
    /\ slot \in [Callers -> 0..slots]
    /\ lent \in [Callers -> Lendings]
    /\ steps \in [Callers -> 0..(MaxSteps + 2)]
    /\ rev \in [Callers -> 0..slots]
    /\ seen \in [Callers -> 0..NoScan]
    /\ world \in 0..MaxWorld
    /\ strays \subseteq {"forced", "lost"}

\* A list_agents call that holds the lock and is about to use its scan uses one
\* that no mutation made under the lock has outdated since, although the lock
\* was lent during the scan (agent.ts: the revision is compared).  A call that
\* was itself declared hung may have read the revision of another holder.
ScansAreCurrent ==
    \A c \in Scanners \ forced :
        Holds(c) /\ lent[c] = "accepted" => seen[c] = world

\* What control_health shows is never blanked or claimed by somebody else: an
\* operation that holds the lock is the one shown, and one that is shown has
\* not settled (agent-engine.ts: ownership by token, not by label).
DiagnosticsTruthful ==
    /\ \A c \in Callers : Holds(c) => shown = slot[c]
    /\ shown # 0 => \E c \in Callers : at[c] = "running" /\ slot[c] = shown

\* The queue that the chain of promises is: each waiter behind those with
\* lower slots, and the holder inside.
Line == [c \in {d \in Callers : Waiting(d)} |->
            {d \in Callers : Waiting(d) /\ slot[d] < slot[c]}]
Queue == INSTANCE LifecycleQueue WITH
    line <- Line, inside <- {c \in Callers : Holds(c)}

\* The chain of promises implements a queue in which one caller at a time is
\* served in the order of asking, timed out slots and forced releases included.
ImplementsQueue == Queue!Spec

\* Nobody waits for ever, although holders may hang and waiters before have
\* given up: the tail is never poisoned (agent-engine.ts, the comment on #529).
WaitersResolved == \A c \in Callers : Waiting(c) ~> ~Waiting(c)

\* "Serialize a lifecycle mutation behind a BOUNDED mutex" (agent-engine.ts):
\* but for an operation declared hung, only a holder of the lock mutates.
MutationsSerialized == "lost" \notin strays
=============================================================================
