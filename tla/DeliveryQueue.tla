--------------------------- MODULE DeliveryQueue ---------------------------
(***************************************************************************)
(* The delivery queue (src/src/engine/delivery-queue.ts), driven by its    *)
(* callers: send_to (src/src/mcp/tools/send.ts), background raw sends      *)
(* (raw-send.ts), parent reports (server.ts) and the sweep timer           *)
(* (src/src/engine/sweep.ts).                                              *)
(*                                                                         *)
(* A receipt lives in a map in memory and, as of the last successful save, *)
(* in delivery-receipts.json.  API calls REPLACE the map's entry; the      *)
(* sweep mutates the object it picked before an await, which is then no    *)
(* longer the map's (sweep.mine).  The daemon may die at any step, a save  *)
(* may fail, a submission may outlive its timeout, and what is typed into  *)
(* a pane outlives the daemon.  There is one target agent.                 *)
(***************************************************************************)
EXTENDS Integers, FiniteSets

CONSTANTS
    N,               \* bound: delivery ids are 1..N, in the order of allocation
    Payloads,        \* message texts
    Origins,         \* which callers exist: send_to, parent reports, background sends
    Disturbances,    \* what happens to the target: it is paused, its record is gone
    MaxCrashes,      \* bound: daemon deaths
    MaxSaveFailures, \* bound: failed writes of delivery-receipts.json
    MaxRetries,      \* bound: send_to calls that re-drive an owned draft
    MaxFaults,       \* bound: the three of them together
    ChunkAttempts,   \* SEND_INPUT_RETRY_ATTEMPTS
    AttentionAfter,  \* DELIVERY_UNCHANGED_SCREEN_ATTENTION_ATTEMPTS
    GoneAfter        \* DELIVERY_TARGET_GONE_CONFIRM_MISSES

ASSUME DeliveryAssumption ==
    /\ N \in Nat \ {0}
    /\ Payloads # {}
    /\ Origins \subseteq {"send_to", "report", "external"}
    /\ Disturbances \subseteq {"pause", "gone"}
    /\ {MaxCrashes, MaxSaveFailures, MaxRetries, MaxFaults} \subseteq Nat
    /\ {ChunkAttempts, AttentionAfter, GoneAfter} \subseteq Nat \ {0}

VARIABLES
    next,       \* the next id randomUUID hands out
    text,       \* each allocated id's message text
    origin,     \* each allocated id's caller
    receipts,   \* deliveryReceipts: the map in memory
    disk,       \* delivery-receipts.json
    call,       \* each id's send_to or background call: where it stands
    retry,      \* each id's call that re-drives an owned draft, if any
    sub,        \* each id's submission started by the drain, timed out or not
    sweep,      \* the sweep: [at, cur, mine, due]
    elapsed,    \* pairs <<id, kind>> of deadlines that have passed
    owner,      \* ids whose typed draft the caller owns (typedDraftOwners)
    paused,     \* the target pane is paused
    alive,      \* the target agent has a record
    tries,      \* each id's attempts at its text that left it in the pane (attempt)
    typed,      \* ghost: how many submissions of each id typed its text
    copies,     \* ghost: how often its text was typed into the pane
    arrived,    \* ghost: ids whose message the agent has taken
    requeued,   \* ghost: typed ids an owned retry put back into the queue
    crashes, saveFailures, retries   \* counters, bounded above

typing == <<tries, typed, copies>>
pane == <<owner, paused, alive, typing, arrived>>
ids == <<next, text, origin>>
ghosts == <<requeued>>
counters == <<crashes, saveFailures, retries>>
vars == <<ids, receipts, disk, call, retry, sub, sweep, elapsed, pane, ghosts, counters>>

Ids == 1..N
Queueing == {"queued", "steer_pending", "queued_followup"}
Final == {"submitted", "rescued", "failed", "failed_confirmed", "stalled_queue"}
DeliveryStates == Queueing \cup Final \cup {"pending_verify", "typed"}
Deadlines == {"verify", "queue", "age"}

\* typed and submit_dispatched together: nothing, text only, text and Return.
\* Kept for receipts that are pending_verify, the only ones it is read of.
Drafts == {"none", "typed", "dispatched"}

NoReceipt == [st |-> "absent"]

Receipts ==
    [st : DeliveryStates, terminal : BOOLEAN, external : BOOLEAN,
     started : BOOLEAN, accepted : BOOLEAN, draft : Drafts, verified : {"null", "true", "false"},
     attention : BOOLEAN, qdeadline : BOOLEAN,
     unchanged : 0..AttentionAfter, misses : 0..GoneAfter, idle : 0..2]

Idle == [at |-> "idle", cur |-> 0, mine |-> FALSE, due |-> FALSE]

-----------------------------------------------------------------------------
(* Receipts and the map. *)

Known == {d \in Ids : receipts[d] # NoReceipt}

FreshReceipt(st) ==
    [st |-> st, terminal |-> FALSE, external |-> FALSE,
     started |-> FALSE, accepted |-> FALSE, draft |-> "none", verified |-> "null",
     attention |-> FALSE, qdeadline |-> FALSE, unchanged |-> 0, misses |-> 0, idle |-> 0]

\* The states findOpenDuplicate takes for open.
Open(r) ==
    \/ r.st \in Queueing \cup {"pending_verify"}
    \/ r.st = "typed" /\ ~r.terminal

\* A settled receipt: of the rest of it nothing is read again.
Settle(st, verified) ==
    [FreshReceipt(st) EXCEPT !.started = TRUE, !.terminal = TRUE, !.verified = verified]

FaultLeft == crashes + saveFailures + retries < MaxFaults

\* persistDeliveryReceipts writes the whole map, atomically, or throws.
SaveOk == disk' = receipts' /\ UNCHANGED saveFailures

SaveThrows ==
    /\ saveFailures < MaxSaveFailures /\ FaultLeft
    /\ saveFailures' = saveFailures + 1
    /\ UNCHANGED disk

Save == SaveOk \/ SaveThrows

\* An API call sets the map's entry; what the sweep holds is an orphan then.
Replace(d, r) ==
    /\ receipts' = [receipts EXCEPT ![d] = r]
    /\ sweep' = IF sweep.cur = d THEN [sweep EXCEPT !.mine = FALSE] ELSE sweep

\* Mutant: the sweep writes its result under the id, whoever holds the entry.
MutateById(d, r) == receipts' = [receipts EXCEPT ![d] = r]

\* The sweep mutates the object it holds.
Mutate(d, r) ==
    receipts' = IF sweep.mine THEN [receipts EXCEPT ![d] = r] ELSE receipts

-----------------------------------------------------------------------------
(* loadDeliveryReceipts. *)

\* Mutant: an uncertain submission is taken up again.
LoadedReplays(r) == IF r = NoReceipt THEN r ELSE [r EXCEPT !.started = FALSE]

\* A queued receipt whose submission had begun is settled as uncertain.
Loaded(r) ==
    IF r # NoReceipt /\ r.st = "queued" /\ r.started /\ ~r.accepted
    THEN Settle("failed", "null")
    ELSE r

Init ==
    /\ next = 1
    /\ text \in [Ids -> Payloads]
    /\ origin \in [Ids -> Origins]
    /\ receipts = [d \in Ids |-> NoReceipt]
    /\ disk = receipts
    /\ call = [d \in Ids |-> "none"]
    /\ retry = [d \in Ids |-> "none"]
    /\ sub = [d \in Ids |-> "none"]
    /\ sweep = Idle
    /\ elapsed = {} /\ owner = {} /\ arrived = {}
    /\ paused = FALSE /\ alive = TRUE
    /\ tries = [d \in Ids |-> 0]
    /\ typed = [d \in Ids |-> 0]
    /\ copies = [d \in Ids |-> 0]
    /\ requeued = {}
    /\ crashes = 0 /\ saveFailures = 0 /\ retries = 0

\* The daemon dies and restarts: memory is what the file says, submissions and
\* calls are gone, draft ownership is forgotten.
Restart ==
    /\ crashes < MaxCrashes /\ FaultLeft
    /\ crashes' = crashes + 1
    /\ receipts' = [d \in Ids |-> Loaded(disk[d])]
    /\ Save
    /\ call' = [d \in Ids |-> "none"]
    /\ retry' = [d \in Ids |-> "none"]
    /\ sub' = [d \in Ids |-> "none"]
    /\ sweep' = Idle
    /\ owner' = {}
    /\ UNCHANGED <<ids, elapsed, paused, alive, typing, arrived, ghosts, retries>>

-----------------------------------------------------------------------------
(* The callers. *)

\* queueDelivery: a new queued receipt under this id; deleted if not durable.
QueueDelivery(d) ==
    \/ /\ Replace(d, FreshReceipt("queued"))
       /\ SaveOk
       /\ requeued' = IF typed[d] > 0 THEN requeued \cup {d} ELSE requeued
       /\ elapsed' = elapsed \ {<<d, "verify">>, <<d, "queue">>}
    \/ /\ Replace(d, NoReceipt)
       /\ SaveThrows
       /\ UNCHANGED <<requeued, elapsed>>

PendingReceipt(draft) ==
    [FreshReceipt("pending_verify") EXCEPT !.started = TRUE, !.draft = draft]

\* Mutant: a confirmed delivery is reopened by its own late call.
NeverConfirmed(d) == FALSE

AlreadyConfirmed(d) == receipts[d] # NoReceipt /\ receipts[d].terminal /\ receipts[d].verified = "true"

\* acceptPendingVerify: an exact confirmed delivery is left as it is.
AcceptPendingVerify(d, draft) ==
    \/ AlreadyConfirmed(d) /\ UNCHANGED <<receipts, disk, sweep, saveFailures>>
    \/ ~AlreadyConfirmed(d) /\ Replace(d, PendingReceipt(draft)) /\ Save

\* findOpenDuplicate finds none.
NoOpenDuplicate(p) == \A d \in Known : Open(receipts[d]) => text[d] # p

Allocate(d, who) ==
    /\ d = next /\ origin[d] = who
    /\ next' = next + 1
    /\ UNCHANGED <<text, origin>>

\* send_to, up to its first await: no open duplicate, so a new id.  A failed
\* save fails the call but leaves the receipt in memory.
SendNew(d) ==
    /\ Allocate(d, "send_to")
    /\ NoOpenDuplicate(text[d])
    /\ AcceptPendingVerify(d, "none")
    /\ call' = IF saveFailures' = saveFailures THEN [call EXCEPT ![d] = "accepted"] ELSE call
    /\ UNCHANGED <<retry, sub, elapsed, pane, requeued, crashes, retries>>

\* deliverReportInboxPointer for a parent that is busy: straight to the queue.
QueueReport(d) ==
    /\ Allocate(d, "report")
    /\ QueueDelivery(d)
    /\ UNCHANGED <<call, retry, sub, pane, crashes, retries>>

\* A background raw send: registerExternalDelivery, then the send begins.
RegisterExternal(d) ==
    /\ Allocate(d, "external")
    /\ \/ /\ Replace(d, [FreshReceipt("queued") EXCEPT !.started = TRUE, !.external = TRUE])
          /\ SaveOk
          /\ call' = [call EXCEPT ![d] = "sending"]
       \/ /\ Replace(d, NoReceipt)
          /\ SaveThrows
          /\ UNCHANGED call
    /\ UNCHANGED <<retry, sub, elapsed, pane, requeued, crashes, retries>>

\* send_to of the same text while the caller owns the typed draft of d.
SendOwnedRetry(d) ==
    /\ retries < MaxRetries /\ FaultLeft
    /\ receipts[d] # NoReceipt /\ receipts[d].st = "pending_verify"
    /\ d \in owner /\ retry[d] = "none"
    /\ retry' = [retry EXCEPT ![d] = "asked"]
    /\ retries' = retries + 1
    /\ UNCHANGED <<ids, receipts, disk, call, sub, sweep, elapsed, pane, ghosts, crashes, saveFailures>>

\* observePausedTarget says paused: the delivery goes to the queue instead.
QueueForPaused(d) ==
    /\ paused
    /\ \/ call[d] = "accepted" /\ call' = [call EXCEPT ![d] = "none"] /\ UNCHANGED retry
       \/ retry[d] = "asked" /\ retry' = [retry EXCEPT ![d] = "none"] /\ UNCHANGED call
    /\ QueueDelivery(d)
    /\ UNCHANGED <<ids, sub, pane, crashes, retries>>

\* The target is not paused: deliverAgentInput begins.
Deliver(d) ==
    /\ ~paused
    /\ \/ call[d] = "accepted" /\ call' = [call EXCEPT ![d] = "sending"] /\ UNCHANGED retry
       \/ retry[d] = "asked" /\ retry' = [retry EXCEPT ![d] = "sending"] /\ UNCHANGED call
    /\ UNCHANGED <<ids, receipts, disk, sub, sweep, elapsed, pane, ghosts, counters>>

\* An attempt of sendChunkWithRetry leaves the text in the pane.  Attempts that
\* leave nothing there are not steps of their own.
TextLands(d, again) ==
    /\ again => tries[d] < ChunkAttempts
    /\ tries' = [tries EXCEPT ![d] = IF again THEN @ + 1 ELSE 1]
    /\ typed' = [typed EXCEPT ![d] = IF again THEN @ ELSE @ + 1]
    /\ copies' = [copies EXCEPT ![d] = @ + 1]

\* The attempt is acknowledged, and the caller owns the draft from now on; or
\* its answer is a timeout or a broken connection, after which the same text is
\* typed again, without a look at the pane, while attempts are left.
CallTypes(d) ==
    /\ call[d] \in {"sending", "unanswered"}
    /\ TextLands(d, call[d] = "unanswered")
    /\ \/ call' = [call EXCEPT ![d] = "typed"] /\ owner' = owner \cup {d}
       \/ call' = [call EXCEPT ![d] = "unanswered"] /\ UNCHANGED owner
    /\ UNCHANGED <<ids, receipts, disk, retry, sub, sweep, elapsed, paused, alive, arrived, ghosts, counters>>

\* acceptComposerQueue: the TUI holds the message; deleted if not durable.
AcceptComposerQueue(d) ==
    \E st \in Queueing :
       \/ /\ Replace(d, [FreshReceipt(st) EXCEPT !.started = TRUE, !.accepted = TRUE])
          /\ SaveOk
       \/ /\ Replace(d, NoReceipt) /\ SaveThrows

\* resolveDelivery: a terminal receipt replaces whatever there was.
ResolveDelivery(d, st, verified) ==
    /\ Replace(d, Settle(st, verified))
    /\ Save

\* What the caller makes of deliverAgentInput's result once text has landed.
CallResult(d) ==
    \/ AcceptComposerQueue(d)
    \/ \E draft \in {"typed", "dispatched"} : AcceptPendingVerify(d, draft)
    \/ ResolveDelivery(d, "rescued", "false")
    \/ ResolveDelivery(d, "typed", "null")
    \/ ResolveDelivery(d, "submitted", "null")
    \/ d \in arrived /\ ResolveDelivery(d, "submitted", "true")

CallReturns(d) ==
    /\ \/ call[d] = "typed" /\ CallResult(d)
       \/ call[d] \in {"sending", "unanswered", "typed"} /\ ResolveDelivery(d, "failed", "null")
    /\ call' = [call EXCEPT ![d] = "none"]
    /\ UNCHANGED <<ids, retry, sub, elapsed, pane, requeued, crashes, retries>>

Confirmed(r) == r # NoReceipt /\ r.st = "submitted" /\ r.verified = "true"

\* An owned retry has the surface after the first call: it finds the delivery
\* settled meanwhile, or presses Return on the draft and reports the result.
RetryReturns(d) ==
    /\ retry[d] = "sending" /\ call[d] \notin {"sending", "unanswered", "typed"}
    /\ IF Confirmed(receipts[d])
       THEN UNCHANGED <<receipts, disk, sweep, saveFailures>>
       ELSE CallResult(d) \/ ResolveDelivery(d, "failed", "null")
    /\ retry' = [retry EXCEPT ![d] = "none"]
    /\ UNCHANGED <<ids, call, sub, elapsed, pane, requeued, crashes, retries>>

-----------------------------------------------------------------------------
(* drainDeliveryQueue. *)

Drainable(r) == r.st = "queued" /\ ~r.external /\ ~r.accepted

At(phase, d) == sweep.at = phase /\ sweep.cur = d

\* The next entry in the map's order.
NextEntry(d) == d > sweep.cur /\ d \in Known /\ \A e \in Known : e > sweep.cur => e >= d

\* A save inside the loop: on failure the error leaves the whole sweep.
SaveAndGo(to) ==
    \/ SaveOk /\ sweep' = to
    \/ SaveThrows /\ sweep' = Idle

StartSweep ==
    /\ sweep.at = "idle"
    /\ sweep' = [Idle EXCEPT !.at = "drain"]
    /\ UNCHANGED <<ids, receipts, disk, call, retry, sub, elapsed, pane, ghosts, counters>>

Skip(d) ==
    /\ sweep' = [sweep EXCEPT !.cur = d, !.mine = FALSE]
    /\ UNCHANGED <<ids, receipts, disk, call, retry, sub, elapsed, pane, ghosts, counters>>

QueueDeadlinePassed(d) == receipts[d].qdeadline /\ <<d, "queue">> \in elapsed

\* next_attempt_at may lie ahead: the receipt has been refused before.
BackingOff(d) == receipts[d].qdeadline \/ receipts[d].attention

\* Not for the drain, or paused, or inside its backoff window.
DrainSkip(d) ==
    /\ sweep.at = "drain" /\ NextEntry(d)
    /\ Drainable(receipts[d]) =>
          alive /\ (paused \/ (BackingOff(d) /\ ~QueueDeadlinePassed(d)))
    /\ Skip(d)

DrainTargetGone(d) ==
    /\ sweep.at = "drain" /\ NextEntry(d)
    /\ Drainable(receipts[d]) /\ ~alive
    /\ receipts' = [receipts EXCEPT ![d] = Settle("failed", "null")]
    /\ SaveAndGo([sweep EXCEPT !.cur = d, !.mine = FALSE])
    /\ UNCHANGED <<ids, call, retry, sub, elapsed, pane, ghosts, crashes, retries>>

\* queue_deadline_at has passed and no human was asked to look.
DrainExpires(d) ==
    /\ sweep.at = "drain" /\ NextEntry(d)
    /\ Drainable(receipts[d]) /\ alive /\ ~paused
    /\ QueueDeadlinePassed(d) /\ ~receipts[d].attention
    /\ receipts' = [receipts EXCEPT ![d] = Settle("failed_confirmed", "false")]
    /\ SaveAndGo([sweep EXCEPT !.cur = d, !.mine = FALSE])
    /\ UNCHANGED <<ids, call, retry, sub, elapsed, pane, ghosts, crashes, retries>>

\* A human was asked: a fresh deadline, but still inside the backoff window.
DrainRenews(d) ==
    /\ sweep.at = "drain" /\ NextEntry(d)
    /\ Drainable(receipts[d]) /\ alive /\ ~paused
    /\ QueueDeadlinePassed(d) /\ receipts[d].attention
    /\ receipts' = [receipts EXCEPT ![d].qdeadline = FALSE]
    /\ elapsed' = elapsed \ {<<d, "queue">>}
    /\ SaveAndGo([sweep EXCEPT !.cur = d, !.mine = FALSE])
    /\ UNCHANGED <<ids, call, retry, sub, pane, ghosts, crashes, retries>>

\* The no-replay boundary: started is durable before the submitter is called.
Boundary(d) ==
    /\ receipts' = [receipts EXCEPT
           ![d].started = TRUE,
           ![d].qdeadline = @ /\ ~QueueDeadlinePassed(d)]
    /\ SaveOk

DrainSubmits(d) ==
    /\ sweep.at = "drain" /\ NextEntry(d)
    /\ Drainable(receipts[d]) /\ alive /\ ~paused
    /\ QueueDeadlinePassed(d) => receipts[d].attention
    /\ elapsed' = IF QueueDeadlinePassed(d) THEN elapsed \ {<<d, "queue">>} ELSE elapsed
    /\ Boundary(d)
    /\ sub' = [sub EXCEPT ![d] = "running"]
    /\ sweep' = [sweep EXCEPT !.at = "submitting", !.cur = d, !.mine = TRUE]
    /\ UNCHANGED <<ids, call, retry, pane, ghosts, crashes, retries>>

\* The save of the boundary throws: caught, and the receipt has failed.
DrainBoundaryFails(d) ==
    /\ sweep.at = "drain" /\ NextEntry(d)
    /\ Drainable(receipts[d]) /\ alive /\ ~paused
    /\ saveFailures < MaxSaveFailures /\ FaultLeft
    /\ saveFailures' = saveFailures + 1
    /\ receipts' = [receipts EXCEPT ![d] = Settle("failed", "null")]
    /\ disk' = receipts'
    /\ sweep' = [sweep EXCEPT !.cur = d, !.mine = FALSE]
    /\ UNCHANGED <<ids, call, retry, sub, elapsed, pane, ghosts, crashes, retries>>

\* The submission types the text, whether or not the drain still waits for it,
\* by the same attempts as a call.
SubmissionTypes(d) ==
    /\ sub[d] \in {"running", "unanswered"}
    /\ TextLands(d, sub[d] = "unanswered")
    /\ \E at \in {"typed", "unanswered"} : sub' = [sub EXCEPT ![d] = at]
    /\ UNCHANGED <<ids, receipts, disk, call, retry, sweep, elapsed, owner, paused, alive, arrived, ghosts, counters>>

\* The target took the submission: earlier refusals no longer count.
Progressed(r) == [r EXCEPT !.attention = FALSE, !.unchanged = 0]

\* What the drain makes of the submitter's result.
Submitted(d, r) ==
    {[Progressed(r) EXCEPT !.st = st, !.accepted = TRUE] : st \in Queueing}
    \cup {[Progressed(r) EXCEPT !.st = "pending_verify", !.draft = draft] :
            draft \in {"typed", "dispatched"}}
    \cup {Settle("rescued", "false"), Settle("submitted", "null")}
    \cup (IF d \in arrived THEN {Settle("submitted", "true")} ELSE {})

Mine(d) == IF sweep.mine THEN receipts[d] ELSE FreshReceipt("queued")

NextInDrain == [sweep EXCEPT !.at = "drain", !.mine = FALSE]

SubmissionReturns(d) ==
    /\ At("submitting", d) /\ sub[d] = "typed"
    /\ \E r \in Submitted(d, Mine(d)) : Mutate(d, r)
    /\ sub' = [sub EXCEPT ![d] = "none"]
    /\ SaveAndGo(NextInDrain)
    /\ UNCHANGED <<ids, call, retry, elapsed, pane, ghosts, crashes, retries>>

\* The submitter throws, or its timeout passes: the outcome is uncertain.
SubmissionFails(d) ==
    /\ At("submitting", d)
    /\ Mutate(d, Settle("failed", "null"))
    /\ \/ sub' = [sub EXCEPT ![d] = "none"]
       \/ UNCHANGED sub
    /\ SaveAndGo(NextInDrain)
    /\ UNCHANGED <<ids, call, retry, elapsed, pane, ghosts, crashes, retries>>

\* Mutant: a refusal counts as retryable although text has landed.
NothingTypedUnchecked(d) == TRUE

NothingTyped(d) == sub[d] = "running" /\ origin[d] = "report"

\* RetryableDeliveryError with no mutation (only the interactive gate throws it,
\* and send_to passes that gate): the boundary is taken back, durably, before
\* the screen is read.
SubmissionRefused(d) ==
    /\ At("submitting", d) /\ NothingTyped(d)
    /\ sub' = [sub EXCEPT ![d] = "none"]
    /\ Mutate(d, [Mine(d) EXCEPT !.started = FALSE, !.draft = "none"])
    /\ SaveAndGo([sweep EXCEPT !.at = "screen"])
    /\ UNCHANGED <<ids, call, retry, elapsed, pane, ghosts, crashes, retries>>

\* Mutant: attention is asked for one refusal too late.
ScreenNotedLate(r) ==
    {r,
     [r EXCEPT !.unchanged = 1, !.attention = FALSE],
     [r EXCEPT !.unchanged = @ + 1, !.attention = r.unchanged >= AttentionAfter]}

\* recordRetryScreenAttention: no snapshot, a changed or an unchanged screen.
ScreenNoted(r) ==
    LET n == IF r.unchanged < AttentionAfter THEN r.unchanged + 1 ELSE r.unchanged IN
    {r,
     [r EXCEPT !.unchanged = 1, !.attention = (AttentionAfter = 1)],
     [r EXCEPT !.unchanged = n, !.attention = @ \/ n = AttentionAfter]}

RefusalRecorded(d) ==
    /\ At("screen", d)
    /\ \E r \in ScreenNoted(Mine(d)) : Mutate(d, [r EXCEPT !.qdeadline = TRUE])
    /\ SaveAndGo(NextInDrain)
    /\ UNCHANGED <<ids, call, retry, sub, elapsed, pane, ghosts, crashes, retries>>

\* A submission the drain no longer waits for ends in the background.
SubmissionAbandoned(d) ==
    /\ sub[d] # "none" /\ ~At("submitting", d)
    /\ sub' = [sub EXCEPT ![d] = "none"]
    /\ UNCHANGED <<ids, receipts, disk, call, retry, sweep, elapsed, pane, ghosts, counters>>

-----------------------------------------------------------------------------
(* verifyPendingDeliveries, the second half of the sweep. *)

\* Receipts whose outcome is still looked for.  (Parked boot-recovery drafts
\* are not modelled.)
Watching(r) ==
    /\ ~r.terminal
    /\ \/ r.st \in {"pending_verify", "queued_followup", "steer_pending"}
       \/ r.st = "queued" /\ r.accepted

\* Mutant: only plain queued receipts are called to a human's attention.
StaleQueuedOnly == {d \in Known : receipts[d].st = "queued" /\ ~receipts[d].attention /\ <<d, "age">> \in elapsed}

\* markStalePendingDeliveries: open too long, and no one was told.
Stale ==
    {d \in Known : /\ receipts[d].st \in Queueing /\ ~receipts[d].terminal
                   /\ ~receipts[d].attention /\ <<d, "age">> \in elapsed}

\* The drain is through; verification starts by marking what is stale.
StartVerify ==
    /\ sweep.at = "drain" /\ \A d \in Known : d <= sweep.cur
    /\ \E marked \in SUBSET Stale :
          /\ receipts' = [d \in Ids |->
                IF d \in marked THEN [receipts[d] EXCEPT !.attention = TRUE] ELSE receipts[d]]
          /\ \/ marked = Stale /\ SaveOk /\ sweep' = [Idle EXCEPT !.at = "verify"]
             \/ marked # {} /\ SaveThrows /\ sweep' = Idle
    /\ UNCHANGED <<ids, call, retry, sub, elapsed, pane, ghosts, crashes, retries>>

\* deadlineApplies && now >= deadlineMs, taken before the observation.
VerifyDue(d) == receipts[d].st = "pending_verify" /\ <<d, "verify">> \in elapsed

\* Nothing to watch, or looked at a moment ago.
VerifySkip(d) ==
    /\ sweep.at = "verify" /\ NextEntry(d)
    /\ Watching(receipts[d]) => ~VerifyDue(d)
    /\ Skip(d)

\* The snapshot and the verifier are awaited.
VerifyObserves(d) ==
    /\ sweep.at = "verify" /\ NextEntry(d)
    /\ Watching(receipts[d])
    /\ sweep' = [at |-> "observing", cur |-> d, mine |-> TRUE, due |-> VerifyDue(d)]
    /\ UNCHANGED <<ids, receipts, disk, call, retry, sub, elapsed, pane, ghosts, counters>>

NextInVerify == [sweep EXCEPT !.at = "verify", !.mine = FALSE, !.due = FALSE]

\* The save of verify_last_attempt_at throws: the sweep ends, nothing is noted.
ObservationUnsaved(d) ==
    /\ At("observing", d)
    /\ SaveThrows
    /\ sweep' = Idle
    /\ UNCHANGED <<ids, receipts, call, retry, sub, elapsed, pane, ghosts, crashes, retries>>

\* outcome delivered: only what the agent has taken is seen as such.
VerifyDelivered(d) ==
    /\ At("observing", d) /\ d \in arrived
    /\ Mutate(d, Settle("submitted", "true"))
    /\ owner' = owner \ {d}
    /\ SaveAndGo(NextInVerify)
    /\ UNCHANGED <<ids, call, retry, sub, elapsed, paused, alive, typing, arrived, ghosts, crashes, retries>>

Reasons == {"none", "queued_idle", "target_gone", "unreadable"}

\* What the observation leaves in the counters of an undelivered receipt.
Observed(r, reason, shows) ==
    [r EXCEPT !.st = IF shows \in Queueing /\ r.accepted THEN shows ELSE @,
              !.idle = IF reason # "queued_idle" THEN 0 ELSE IF @ < 2 THEN @ + 1 ELSE 2,
              !.misses = IF reason # "target_gone" THEN 0 ELSE IF @ < GoneAfter THEN @ + 1 ELSE @]

ConfirmedGone(r) == r.misses = GoneAfter

\* A deadline cannot fail a Return that was never pressed.
Parks(r, reason, due) == due /\ reason = "none" /\ r.draft = "typed"

\* outcome pending: counted, stalled, parked, failed, or left for the next look.
Undelivered(r, reason, shows, due) ==
    LET o == Observed(r, reason, shows) IN
    (IF reason = "queued_idle" /\ o.idle = 2
     THEN {Settle("stalled_queue", "false")} ELSE {})
    \cup
    {IF Parks(o, reason, due) THEN [o EXCEPT !.st = "typed", !.attention = TRUE]
     ELSE IF due \/ ConfirmedGone(o) THEN Settle("failed_confirmed", "false")
     ELSE o}

\* What the pane can show of a message: its text in a queue, or nothing of it.
Visible(d, reason, shows) ==
    /\ (reason = "target_gone") = ~alive
    /\ shows # "none" \/ reason = "queued_idle" => typed[d] > 0 /\ d \notin arrived

\* Only a verdict with evidence goes to the issue filer, which has no timeout.
Files(r, reason) == r.st = "failed_confirmed" /\ reason \in {"queued_idle", "unreadable"}

VerifyPending(d) ==
    /\ At("observing", d)
    /\ \E reason \in Reasons, shows \in {"none", "queued", "steer_pending"} :
          /\ Visible(d, reason, shows)
          /\ IF sweep.mine
             THEN \E r \in Undelivered(receipts[d], reason, shows, sweep.due) :
                     /\ receipts' = [receipts EXCEPT ![d] = r]
                     /\ SaveAndGo(IF Files(r, reason) THEN [NextInVerify EXCEPT !.at = "filing"]
                                  ELSE NextInVerify)
             ELSE UNCHANGED receipts /\ SaveAndGo(NextInVerify)
    /\ UNCHANGED <<ids, call, retry, sub, elapsed, pane, ghosts, crashes, retries>>

\* fileConfirmedFailureTicket settles, one way or the other.
TicketFiled ==
    /\ sweep.at = "filing"
    /\ UNCHANGED receipts
    /\ SaveAndGo(NextInVerify)
    /\ UNCHANGED <<ids, call, retry, sub, elapsed, pane, ghosts, crashes, retries>>

EndSweep ==
    /\ sweep.at = "verify" /\ \A d \in Known : d <= sweep.cur
    /\ sweep' = Idle
    /\ UNCHANGED <<ids, receipts, disk, call, retry, sub, elapsed, pane, ghosts, counters>>

-----------------------------------------------------------------------------
(* The pane, the human, the clock. *)

\* The agent takes a typed message.
Arrives(d) ==
    /\ typed[d] > 0 /\ d \notin arrived
    /\ arrived' = arrived \cup {d}
    /\ UNCHANGED <<ids, receipts, disk, call, retry, sub, sweep, elapsed, owner, paused, alive, typing, ghosts, counters>>

TogglePause ==
    /\ "pause" \in Disturbances
    /\ paused' = ~paused
    /\ UNCHANGED <<ids, receipts, disk, call, retry, sub, sweep, elapsed, owner, alive, typing, arrived, ghosts, counters>>

\* The agent's record disappears, or a registry that missed it shows it again.
ToggleAlive ==
    /\ "gone" \in Disturbances
    /\ alive' = ~alive
    /\ UNCHANGED <<ids, receipts, disk, call, retry, sub, sweep, elapsed, owner, paused, typing, arrived, ghosts, counters>>

Elapses(d, kind) ==
    /\ <<d, kind>> \notin elapsed
    /\ d \in Known /\ ~receipts[d].terminal
    /\ kind = "verify" => receipts[d].st = "pending_verify"
    /\ kind = "queue" => receipts[d].qdeadline
    /\ kind = "age" => receipts[d].st \in Queueing
    /\ elapsed' = elapsed \cup {<<d, kind>>}
    /\ UNCHANGED <<ids, receipts, disk, call, retry, sub, sweep, pane, ghosts, counters>>

-----------------------------------------------------------------------------

SendTo(d) ==
    \/ SendNew(d) \/ QueueReport(d) \/ RegisterExternal(d)
    \/ SendOwnedRetry(d) \/ QueueForPaused(d) \/ Deliver(d) \/ CallTypes(d)
    \/ CallReturns(d) \/ RetryReturns(d)

DrainStep(d) ==
    \/ DrainSkip(d) \/ DrainTargetGone(d) \/ DrainExpires(d) \/ DrainRenews(d)
    \/ DrainSubmits(d) \/ DrainBoundaryFails(d)
    \/ SubmissionReturns(d) \/ SubmissionFails(d) \/ SubmissionRefused(d) \/ RefusalRecorded(d)

VerifyStep(d) ==
    \/ VerifySkip(d) \/ VerifyObserves(d)
    \/ ObservationUnsaved(d) \/ VerifyDelivered(d) \/ VerifyPending(d)

SweepStep ==
    \/ StartSweep \/ StartVerify \/ TicketFiled \/ EndSweep
    \/ \E d \in Ids : DrainStep(d) \/ VerifyStep(d)

PaneStep(d) == SubmissionTypes(d) \/ SubmissionAbandoned(d) \/ Arrives(d)

Next ==
    \/ SweepStep
    \/ \E d \in Ids : SendTo(d) \/ PaneStep(d) \/ \E kind \in Deadlines : Elapses(d, kind)
    \/ TogglePause \/ ToggleAlive
    \/ Restart

Spec == Init /\ [][Next]_vars

\* The sweep timer re-arms itself, every await of the sweep but the filer's is
\* bounded by a timeout, clocks advance, and a receipt is not skipped forever.
Fairness ==
    /\ WF_vars(SweepStep)
    /\ \A d \in Ids :
          /\ SF_vars(DrainSubmits(d)) /\ SF_vars(VerifyObserves(d))
          /\ \A kind \in Deadlines : WF_vars(Elapses(d, kind))

FairSpec == Spec /\ Fairness

-----------------------------------------------------------------------------
(* Properties. *)

TypeOK ==
    /\ next \in 1..(N + 1) /\ text \in [Ids -> Payloads] /\ origin \in [Ids -> Origins]
    /\ receipts \in [Ids -> Receipts \cup {NoReceipt}]
    /\ disk \in [Ids -> Receipts \cup {NoReceipt}]
    /\ call \in [Ids -> {"none", "accepted", "sending", "unanswered", "typed"}]
    /\ retry \in [Ids -> {"none", "asked", "sending"}]
    /\ sub \in [Ids -> {"none", "running", "unanswered", "typed"}]
    /\ sweep \in [at : {"idle", "drain", "submitting", "screen", "verify", "observing", "filing"},
                  cur : 0..N, mine : BOOLEAN, due : BOOLEAN]
    /\ elapsed \subseteq Ids \X Deadlines
    /\ owner \subseteq Ids /\ paused \in BOOLEAN /\ alive \in BOOLEAN
    /\ tries \in [Ids -> 0..ChunkAttempts]
    /\ typed \in [Ids -> Nat] /\ copies \in [Ids -> Nat] /\ arrived \subseteq Ids
    /\ requeued \subseteq Ids
    /\ crashes \in 0..MaxCrashes /\ saveFailures \in 0..MaxSaveFailures /\ retries \in 0..MaxRetries

\* No replay: across restarts, failed saves, timeouts and refusals at most one
\* submission types a message, unless an owned retry of an already typed draft
\* was put back into the queue because the target was paused.  That submission
\* may leave several copies, since a chunk whose answer was lost is typed again,
\* but never more than one for each of its attempts.
NoReplay ==
    \A d \in Ids : d \notin requeued => typed[d] <= 1 /\ copies[d] <= ChunkAttempts

\* What the drain may still submit has not been typed: giving up on it at its
\* queue deadline, or because the target is gone, loses nothing the agent saw.
DrainableIsUntyped ==
    \A d \in Ids :
        (receipts[d] # NoReceipt /\ Drainable(receipts[d]) /\ ~receipts[d].started)
            => typed[d] = 0 \/ d \in requeued

\* The sweep, which resumes after each await with an object a caller may have
\* replaced meanwhile, never changes a settled receipt.
SweepKeepsTerminal ==
    [][SweepStep => \A d \in Known : receipts[d].terminal => receipts'[d] = receipts[d]]_vars

\* A delivery the verifier confirmed does not go back to pending_verify when
\* its own call returns late.
ConfirmedNotPending ==
    [][crashes' = crashes =>
         \A d \in Ids : Confirmed(receipts[d]) /\ receipts'[d] # NoReceipt
                           => receipts'[d].st # "pending_verify"]_vars

\* No receipt stays open unnoticed: it settles, asks for attention, or waits
\* for a paused target.
Settles ==
    \A d \in Ids :
        (d \in Known) ~> (d \notin Known \/ receipts[d].terminal \/ receipts[d].attention \/ paused)

\* "retains pending verification and ownership for retries without retyping"
\* (the description of send_to): no second submission types a payload.
RetriesNeverRetype == \A d \in Ids : typed[d] <= 1
=============================================================================
