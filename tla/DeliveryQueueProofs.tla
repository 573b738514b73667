------------------------ MODULE DeliveryQueueProofs ------------------------
(***************************************************************************)
(* Proofs about DeliveryQueue, for every number of deliveries, payloads,   *)
(* daemon deaths, failed saves and retries: the type invariant, that no    *)
(* second submission types a message, and that what is settled stays so.   *)
(*                                                                         *)
(* NoReplay is not inductive: it says nothing of who may still type.  The  *)
(* inductive invariant IInv says that there is at most one such right per  *)
(* delivery, and none once the text is in the pane, typing: a receipt the drain    *)
(* may submit (in memory, or in the file a restart would load), a          *)
(* submission under way, or a call under way.  Copies, inductive beside    *)
(* it, counts what the attempts of the one submission leave in the pane.   *)
(* That settled receipts stay rests on Lasting: what the sweep still holds *)
(* after an await is not settled.                                          *)
(***************************************************************************)
EXTENDS DeliveryQueue, TLAPS

Entries == Receipts \cup {NoReceipt}

Sweeps ==
    [at : {"idle", "drain", "submitting", "screen", "verify", "observing", "filing"},
     cur : 0..N, mine : BOOLEAN, due : BOOLEAN]

\* The drain may submit this receipt, now or after a restart.
Submittable(r) == r # NoReceipt /\ Drainable(r) /\ ~r.started

\* The boundary is passed, and the drain would take the receipt again.
Exposed(r) == r # NoReceipt /\ Drainable(r) /\ r.started

Calling(d) == call[d] \in {"accepted", "sending"}

\* At most one right to type a delivery, and none after it was typed.
Once ==
    \A d \in Ids : d \notin requeued =>
        /\ Submittable(receipts[d]) \/ Submittable(disk[d])
              => typed[d] = 0 /\ sub[d] = "none" /\ ~Calling(d)
        /\ sub[d] = "running" => typed[d] = 0 /\ ~Calling(d)
        /\ Calling(d) => typed[d] = 0
        /\ typed[d] <= 1

\* Nothing is known of an id before it is allocated.
Unallocated ==
    \A d \in Ids : d >= next =>
        /\ receipts[d] = NoReceipt /\ disk[d] = NoReceipt
        /\ call[d] = "none" /\ retry[d] = "none" /\ sub[d] = "none" /\ typed[d] = 0

\* Text is in the pane after an attempt that left it there, whatever its answer;
\* only a typed draft is owned, and only its owner retries.
Landed(d) == call[d] = "unanswered" \/ sub[d] \in {"unanswered", "typed"}

Marks ==
    \A d \in Ids :
        d \in owner \/ retry[d] # "none" \/ Landed(d) => typed[d] >= 1

\* An exposed receipt is the one the drain is submitting.
Guarded ==
    \A d \in Ids : Exposed(receipts[d]) => At("submitting", d) /\ sweep.mine

\* What the sweep holds is an entry of the map.
Held ==
    /\ sweep.at \in {"submitting", "screen", "observing"} => sweep.cur \in Ids
    /\ sweep.mine => /\ sweep.at \in {"submitting", "screen", "observing"}
                     /\ receipts[sweep.cur] # NoReceipt

IInv == TypeOK /\ Once /\ Unallocated /\ Marks /\ Guarded /\ Held

-----------------------------------------------------------------------------
(* Receipts. *)

\* A new receipt: queueDelivery's is submittable, any other is not.
LEMMA FreshReceipts ==
    ASSUME NEW st \in DeliveryStates
    PROVE  /\ FreshReceipt(st) \in Receipts
           /\ FreshReceipt(st) # NoReceipt
           /\ ~Exposed(FreshReceipt(st))
<1>1. FreshReceipt(st) \in Receipts
  BY DeliveryAssumption DEF FreshReceipt, Receipts, Drafts
<1>2. FreshReceipt(st).st = st /\ st # "absent" /\ ~FreshReceipt(st).started
  BY DEF FreshReceipt, DeliveryStates, Queueing, Final
<1>. QED BY <1>1, <1>2 DEF NoReceipt, Exposed

\* A settled receipt is out of the drain's reach.
LEMMA SettledReceipts ==
    ASSUME NEW st \in Final \cup {"typed"}, NEW v \in {"null", "true", "false"}
    PROVE  /\ Settle(st, v) \in Receipts
           /\ Settle(st, v) # NoReceipt
           /\ ~Exposed(Settle(st, v))
           /\ ~Submittable(Settle(st, v))
<1>1. st \in DeliveryStates /\ st # "queued" /\ st # "absent"
  BY DEF DeliveryStates, Final, Queueing
<1>2. FreshReceipt(st) \in Receipts
  BY <1>1, FreshReceipts
<1>3. Settle(st, v) \in Receipts
  BY <1>2 DEF Settle, Receipts
<1>4. Settle(st, v).st = st
  BY DEF Settle, FreshReceipt
<1>. QED BY <1>1, <1>3, <1>4 DEF NoReceipt, Exposed, Submittable, Drainable

Settled == {Settle(st, v) : st \in Final \cup {"typed"}, v \in {"null", "true", "false"}}

LEMMA SettledOnes ==
    /\ \A st \in Final \cup {"typed"}, v \in {"null", "true", "false"} : Settle(st, v) \in Settled
    /\ \A r \in Settled : r \in Entries /\ r # NoReceipt /\ ~Exposed(r) /\ ~Submittable(r)
<1>1. ASSUME NEW r \in Settled
      PROVE  r \in Entries /\ r # NoReceipt /\ ~Exposed(r) /\ ~Submittable(r)
  <2>1. PICK st \in Final \cup {"typed"}, v \in {"null", "true", "false"} : r = Settle(st, v)
    BY DEF Settled
  <2>. QED BY <2>1, SettledReceipts DEF Entries
<1>. QED BY <1>1 DEF Settled

\* So is one whose outcome is looked for, or that someone else keeps.
LEMMA KeptReceipts ==
    ASSUME NEW draft \in Drafts, NEW st \in Queueing
    PROVE  \A r \in {PendingReceipt(draft),
                     [FreshReceipt(st) EXCEPT !.started = TRUE, !.accepted = TRUE],
                     [FreshReceipt("queued") EXCEPT !.started = TRUE, !.external = TRUE]} :
              r \in Receipts /\ r # NoReceipt /\ ~Exposed(r) /\ ~Submittable(r)
<1>1. FreshReceipt("pending_verify") \in Receipts /\ FreshReceipt(st) \in Receipts
      /\ FreshReceipt("queued") \in Receipts
  BY FreshReceipts DEF DeliveryStates, Queueing
<1>2. FreshReceipt("pending_verify").st = "pending_verify"
  BY DEF FreshReceipt
<1>3. ASSUME NEW r, r = [FreshReceipt("pending_verify") EXCEPT !.started = TRUE, !.draft = draft]
      PROVE  r \in Receipts /\ r # NoReceipt /\ ~Exposed(r) /\ ~Submittable(r)
  BY <1>1, <1>2, <1>3 DEF Receipts, NoReceipt, Exposed, Submittable, Drainable
<1>4. ASSUME NEW r, r = [FreshReceipt(st) EXCEPT !.started = TRUE, !.accepted = TRUE]
      PROVE  r \in Receipts /\ r # NoReceipt /\ ~Exposed(r) /\ ~Submittable(r)
  BY <1>1, <1>4 DEF Receipts, NoReceipt, Exposed, Submittable, Drainable
<1>5. ASSUME NEW r, r = [FreshReceipt("queued") EXCEPT !.started = TRUE, !.external = TRUE]
      PROVE  r \in Receipts /\ r # NoReceipt /\ ~Exposed(r) /\ ~Submittable(r)
  BY <1>1, <1>5 DEF Receipts, NoReceipt, Exposed, Submittable, Drainable
<1>. QED BY <1>3, <1>4, <1>5 DEF PendingReceipt

\* loadDeliveryReceipts leaves nothing exposed, and makes nothing submittable.
LEMMA LoadedReceipts ==
    ASSUME NEW r \in Entries
    PROVE  /\ Loaded(r) \in Entries
           /\ (Loaded(r) = NoReceipt) = (r = NoReceipt)
           /\ Submittable(Loaded(r)) => Submittable(r)
           /\ ~Exposed(Loaded(r))
<1>1. CASE r = NoReceipt
  BY <1>1 DEF Loaded, Entries, Submittable, Exposed
<1>2. CASE r # NoReceipt /\ r.st = "queued" /\ r.started /\ ~r.accepted
  <2>1. Loaded(r) = Settle("failed", "null")
    BY <1>2 DEF Loaded
  <2>. QED
    BY <1>2, <2>1, SettledReceipts DEF Entries, Final
<1>3. CASE r # NoReceipt /\ ~(r.st = "queued" /\ r.started /\ ~r.accepted)
  BY <1>3 DEF Loaded, Entries, Submittable, Exposed, Drainable
<1>. QED BY <1>1, <1>2, <1>3

-----------------------------------------------------------------------------
(* Most steps grant nobody the right to type. *)

QuietStep ==
    /\ next' = next /\ typed' = typed /\ requeued \subseteq requeued' /\ owner' \subseteq owner
    /\ disk' \in {disk, receipts'}
    /\ \A d \in Ids :
          /\ d >= next => receipts'[d] = receipts[d] \/ receipts'[d] = disk[d]
          /\ Submittable(receipts'[d]) => Submittable(receipts[d]) \/ Submittable(disk[d])
          /\ Calling(d)' => Calling(d)
          /\ call'[d] # "none" => call[d] # "none"
          /\ call'[d] = "unanswered" => call[d] = "unanswered"
          /\ retry'[d] # "none" => retry[d] # "none" \/ d \in owner
          /\ sub'[d] \in {sub[d], "none"}

\* A quiet step preserves who may type.
LEMMA QuietKeeps ==
    ASSUME IInv, QuietStep
    PROVE  Once' /\ Unallocated' /\ Marks'
<1>1. Unallocated'
  BY DEF IInv, TypeOK, QuietStep, Unallocated, Marks, Landed
<1>2. Marks'
  BY DEF IInv, QuietStep, Marks, Landed
<1>3. ASSUME NEW d \in Ids, d \notin requeued'
      PROVE  /\ Submittable(receipts'[d]) \/ Submittable(disk'[d])
                   => typed'[d] = 0 /\ sub'[d] = "none" /\ ~Calling(d)'
             /\ sub'[d] = "running" => typed'[d] = 0 /\ ~Calling(d)'
             /\ Calling(d)' => typed'[d] = 0
             /\ typed'[d] <= 1
  <2>1. d \notin requeued
    BY <1>3 DEF QuietStep
  <2>2. Submittable(receipts'[d]) \/ Submittable(disk'[d])
          => Submittable(receipts[d]) \/ Submittable(disk[d])
    BY DEF QuietStep
  <2>. QED BY <2>1, <2>2 DEF IInv, Once, QuietStep
<1>4. Once'
  BY <1>3 DEF Once
<1>. QED BY <1>1, <1>2, <1>4

\* One entry of the map is overwritten.
LEMMA Overwritten ==
    ASSUME TypeOK, NEW d \in Ids, NEW x \in Entries, receipts' = [receipts EXCEPT ![d] = x]
    PROVE  /\ receipts' \in [Ids -> Entries]
           /\ receipts'[d] = x
           /\ \A e \in Ids \ {d} : receipts'[e] = receipts[e]
BY DEF TypeOK, Entries

\* A save leaves the file as it was or makes it a copy of the map.
LEMMA Saved ==
    ASSUME TypeOK, receipts' \in [Ids -> Entries], Save
    PROVE  /\ disk' \in {disk, receipts'}
           /\ disk' \in [Ids -> Entries]
           /\ saveFailures' \in 0..MaxSaveFailures
BY DeliveryAssumption DEF TypeOK, Entries, Save, SaveOk, SaveThrows

-----------------------------------------------------------------------------
(* The steps that leave the receipts alone. *)

\* The drain or the verifier moves on, or looks at the next receipt.
LEMMA SweepMoves ==
    ASSUME IInv, NEW d \in Ids,
           StartSweep \/ DrainSkip(d) \/ VerifySkip(d) \/ VerifyObserves(d) \/ EndSweep
    PROVE  IInv'
<1>1. /\ UNCHANGED <<ids, receipts, disk, call, retry, sub, elapsed, pane, ghosts, counters>>
      /\ sweep.at \in {"idle", "drain", "verify"}
  BY DEF StartSweep, DrainSkip, VerifySkip, VerifyObserves, EndSweep, Skip
<1>2. QuietStep
  BY <1>1 DEF QuietStep, ids, pane, typing, ghosts, Calling
<1>6. /\ sweep' \in Sweeps
      /\ sweep'.at \in {"submitting", "screen", "observing"} => sweep'.cur \in Ids
      /\ sweep'.mine => /\ sweep'.at \in {"submitting", "screen", "observing"}
                         /\ receipts[sweep'.cur] # NoReceipt
  <2>1. sweep \in Sweeps
    BY DEF IInv, TypeOK, Sweeps
  <2>2. CASE StartSweep \/ EndSweep
    <3>1. CASE StartSweep
      <4>1. sweep' = [at |-> "drain", cur |-> 0, mine |-> FALSE, due |-> FALSE]
        BY <3>1 DEF StartSweep, Idle
      <4>. QED BY <4>1, DeliveryAssumption DEF Sweeps
    <3>2. CASE EndSweep
      BY <3>2, DeliveryAssumption DEF EndSweep, Idle, Sweeps
    <3>. QED BY <2>2, <3>1, <3>2
  <2>3. CASE DrainSkip(d) \/ VerifySkip(d)
    <3>1. /\ sweep' = [sweep EXCEPT !.cur = d, !.mine = FALSE]
          /\ sweep.at \in {"drain", "verify"} /\ d \in 0..N
      BY <2>3, DeliveryAssumption DEF DrainSkip, VerifySkip, Skip, Ids
    <3>2. sweep' = [at |-> sweep.at, cur |-> d, mine |-> FALSE, due |-> sweep.due]
      BY <2>1, <3>1 DEF Sweeps
    <3>. QED BY <2>1, <3>1, <3>2 DEF Sweeps
  <2>4. CASE VerifyObserves(d)
    BY <2>4, DeliveryAssumption DEF VerifyObserves, Sweeps, Ids, NextEntry, Known, VerifyDue
  <2>. QED BY <2>2, <2>3, <2>4
<1>3. TypeOK'
  <2>1. sweep' \in Sweeps
    BY <1>6
  <2>. QED BY <1>1, <2>1 DEF IInv, TypeOK, Sweeps, ids, pane, typing, ghosts, counters
<1>4. Guarded'
  BY <1>1 DEF IInv, Guarded, At
<1>5. Held'
  BY <1>1, <1>6 DEF Held, Sweeps
<1>. QED BY <1>2, <1>3, <1>4, <1>5, QuietKeeps DEF IInv

\* The pane, typing, the human and the clock.
LEMMA Surroundings ==
    ASSUME IInv, NEW d \in Ids, NEW kind \in Deadlines,
           Arrives(d) \/ TogglePause \/ ToggleAlive \/ Elapses(d, kind)
    PROVE  IInv'
<1>1. /\ UNCHANGED <<ids, receipts, disk, call, retry, sub, sweep, owner, typing, ghosts, counters>>
      /\ arrived' \in {arrived, arrived \cup {d}} /\ elapsed' \in {elapsed, elapsed \cup {<<d, kind>>}}
      /\ paused' \in {paused, ~paused} /\ alive' \in {alive, ~alive}
  BY DEF Arrives, TogglePause, ToggleAlive, Elapses, pane, typing
<1>2. QuietStep
  BY <1>1 DEF QuietStep, ids, ghosts, typing, Calling
<1>3. TypeOK'
  <2>1. arrived' \subseteq Ids /\ paused' \in BOOLEAN /\ alive' \in BOOLEAN
    BY <1>1 DEF IInv, TypeOK
  <2>2. elapsed' \subseteq Ids \X Deadlines
    BY <1>1 DEF IInv, TypeOK
  <2>. QED BY <1>1, <2>1, <2>2 DEF IInv, TypeOK, ids, ghosts, typing, counters
<1>4. Guarded' /\ Held'
  BY <1>1 DEF IInv, Guarded, At, Held
<1>. QED BY <1>2, <1>3, <1>4, QuietKeeps DEF IInv

\* A call goes ahead, a draft's owner asks again, a late submission ends.
LEMMA CallsMove ==
    ASSUME IInv, NEW d \in Ids, SendOwnedRetry(d) \/ Deliver(d) \/ SubmissionAbandoned(d)
    PROVE  IInv'
<1>. USE DEF SendOwnedRetry, Deliver, SubmissionAbandoned
<1>1. /\ UNCHANGED <<ids, receipts, disk, sweep, elapsed, pane, ghosts, crashes, saveFailures>>
      /\ retries' \in 0..MaxRetries
  BY DeliveryAssumption DEF IInv, TypeOK, counters
<1>2. /\ call' \in [Ids -> {"none", "accepted", "sending", "unanswered", "typed"}]
      /\ retry' \in [Ids -> {"none", "asked", "sending"}]
      /\ sub' \in [Ids -> {"none", "running", "unanswered", "typed"}]
  BY DEF IInv, TypeOK
<1>3. QuietStep
  BY <1>1, <1>2 DEF IInv, TypeOK, QuietStep, ids, ghosts, pane, typing, Calling
<1>4. TypeOK'
  BY <1>1, <1>2 DEF IInv, TypeOK, ids, ghosts, pane, typing
<1>5. Guarded' /\ Held'
  BY <1>1 DEF IInv, Guarded, At, Held
<1>. QED BY <1>3, <1>4, <1>5, QuietKeeps DEF IInv

-----------------------------------------------------------------------------
(* The sweep's steps. *)

\* Where the sweep may go next.
LEMMA SweepTargets ==
    ASSUME TypeOK, NEW d \in Ids, NEW to
    PROVE  /\ Idle \in Sweeps /\ ~Idle.mine /\ Idle.at = "idle"
           /\ to = [sweep EXCEPT !.cur = d, !.mine = FALSE]
                 => to = [at |-> sweep.at, cur |-> d, mine |-> FALSE, due |-> sweep.due]
           /\ to = [sweep EXCEPT !.at = "submitting", !.cur = d, !.mine = TRUE]
                 => to = [at |-> "submitting", cur |-> d, mine |-> TRUE, due |-> sweep.due]
           /\ to = [sweep EXCEPT !.at = "screen"]
                 => to = [at |-> "screen", cur |-> sweep.cur, mine |-> sweep.mine, due |-> sweep.due]
           /\ to = NextInDrain
                 => to = [at |-> "drain", cur |-> sweep.cur, mine |-> FALSE, due |-> sweep.due]
           /\ to = NextInVerify
                 => to = [at |-> "verify", cur |-> sweep.cur, mine |-> FALSE, due |-> FALSE]
           /\ to = [NextInVerify EXCEPT !.at = "filing"]
                 => to = [at |-> "filing", cur |-> sweep.cur, mine |-> FALSE, due |-> FALSE]
<1>1. sweep \in Sweeps
  BY DEF TypeOK, Sweeps
<1>2. Idle \in Sweeps
  BY DeliveryAssumption DEF Idle, Sweeps
<1>3. ~Idle.mine /\ Idle.at = "idle"
  BY DEF Idle
<1>4. ASSUME to = [sweep EXCEPT !.cur = d, !.mine = FALSE]
      PROVE  to = [at |-> sweep.at, cur |-> d, mine |-> FALSE, due |-> sweep.due]
  BY <1>1, <1>4 DEF Sweeps
<1>5. ASSUME to = [sweep EXCEPT !.at = "submitting", !.cur = d, !.mine = TRUE]
      PROVE  to = [at |-> "submitting", cur |-> d, mine |-> TRUE, due |-> sweep.due]
  BY <1>1, <1>5 DEF Sweeps
<1>6. ASSUME to = [sweep EXCEPT !.at = "screen"]
      PROVE  to = [at |-> "screen", cur |-> sweep.cur, mine |-> sweep.mine, due |-> sweep.due]
  BY <1>1, <1>6 DEF Sweeps
<1>7. ASSUME to = NextInDrain
      PROVE  to = [at |-> "drain", cur |-> sweep.cur, mine |-> FALSE, due |-> sweep.due]
  BY <1>1, <1>7 DEF NextInDrain, Sweeps
<1>8. ASSUME to = NextInVerify
      PROVE  to = [at |-> "verify", cur |-> sweep.cur, mine |-> FALSE, due |-> FALSE]
  BY <1>1, <1>8 DEF NextInVerify, Sweeps
<1>9. ASSUME to = [NextInVerify EXCEPT !.at = "filing"]
      PROVE  to = [at |-> "filing", cur |-> sweep.cur, mine |-> FALSE, due |-> FALSE]
  BY <1>1, <1>9 DEF NextInVerify, Sweeps
<1>. QED BY <1>2, <1>3, <1>4, <1>5, <1>6, <1>7, <1>8, <1>9

\* A save inside the loop lets the sweep go on or ends it.
LEMMA SavedAndGone ==
    ASSUME TypeOK, NEW to, receipts' \in [Ids -> Entries], SaveAndGo(to)
    PROVE  /\ disk' \in {disk, receipts'}
           /\ saveFailures' \in 0..MaxSaveFailures
           /\ sweep' \in {to, Idle}
BY Saved DEF SaveAndGo, Save

\* The sweep writes an entry that nobody may submit unless he could before.
LEMMA SweepWrites ==
    ASSUME IInv, NEW d \in Ids, NEW x \in Entries, NEW to \in Sweeps,
           receipts' = [receipts EXCEPT ![d] = x],
           disk' \in {disk, receipts'}, saveFailures' \in 0..MaxSaveFailures, sweep' \in {to, Idle},
           elapsed' \subseteq elapsed, owner' \subseteq owner,
           sub' \in {sub, [sub EXCEPT ![d] = "none"]},
           UNCHANGED <<ids, call, retry, paused, alive, typing, arrived, ghosts, crashes, retries>>,
           receipts[d] = NoReceipt => x = NoReceipt,
           Submittable(x) => Submittable(receipts[d]),
           ~Exposed(x),
           sweep.at = "submitting" => sweep.cur = d,
           to.at \in {"submitting", "screen", "observing"} => to.cur \in Ids,
           to.mine => to.at \in {"screen", "observing"} /\ to.cur = d /\ x # NoReceipt
    PROVE  IInv'
<1>1. /\ receipts' \in [Ids -> Entries]
      /\ receipts'[d] = x
      /\ \A e \in Ids \ {d} : receipts'[e] = receipts[e]
  BY Overwritten DEF IInv
<1>2. Idle \in Sweeps /\ ~Idle.mine /\ Idle.at = "idle"
  BY SweepTargets DEF IInv
<1>3. /\ disk' \in [Ids -> Entries] /\ sub' \in [Ids -> {"none", "running", "unanswered", "typed"}]
      /\ sweep' \in Sweeps
  BY <1>1, <1>2 DEF IInv, TypeOK, Entries
<1>4. TypeOK'
  <2>1. elapsed' \subseteq Ids \X Deadlines /\ owner' \subseteq Ids
    BY DEF IInv, TypeOK
  <2>. QED BY <1>1, <1>3, <2>1 DEF IInv, TypeOK, Sweeps, Entries, ids, ghosts, typing
<1>5. QuietStep
  <2>1. ASSUME NEW e \in Ids
        PROVE  /\ e >= next => receipts'[e] = receipts[e]
               /\ Submittable(receipts'[e]) => Submittable(receipts[e])
               /\ sub'[e] \in {sub[e], "none"}
    BY <1>1 DEF IInv, TypeOK, Unallocated
  <2>. QED BY <2>1 DEF QuietStep, ids, ghosts, typing, Calling
<1>6. Guarded'
  <2>1. \A e \in Ids : ~Exposed(receipts'[e])
    BY <1>1 DEF IInv, Guarded, At
  <2>. QED BY <2>1 DEF Guarded
<1>7. Held'
  BY <1>1, <1>2 DEF Held
<1>. QED BY <1>4, <1>5, <1>6, <1>7, QuietKeeps DEF IInv

\* The drain gives a receipt up, or gives it a fresh deadline.
LEMMA DrainPasses ==
    ASSUME IInv, NEW d \in Ids,
           DrainTargetGone(d) \/ DrainExpires(d) \/ DrainRenews(d) \/ DrainBoundaryFails(d)
    PROVE  IInv'
<1>. DEFINE to == [sweep EXCEPT !.cur = d, !.mine = FALSE]
            renewed == [receipts[d] EXCEPT !.qdeadline = FALSE]
<1>1. sweep.at = "drain" /\ receipts[d] \in Receipts /\ receipts[d] # NoReceipt
  BY DEF IInv, TypeOK, DrainTargetGone, DrainExpires, DrainRenews, DrainBoundaryFails, NextEntry, Known
<1>2. to = [at |-> "drain", cur |-> d, mine |-> FALSE, due |-> sweep.due]
  BY <1>1, SweepTargets DEF IInv
<1>3. to \in Sweeps /\ to.at = "drain" /\ ~to.mine
  <2>1. sweep.due \in BOOLEAN /\ d \in 0..N
    BY DeliveryAssumption DEF IInv, TypeOK, Ids
  <2>. HIDE DEF to
  <2>. QED BY <1>2, <2>1 DEF Sweeps
<1>4. /\ renewed \in Receipts /\ renewed # NoReceipt
      /\ Submittable(renewed) => Submittable(receipts[d])
      /\ ~Exposed(renewed)
  <2>1. ~Exposed(receipts[d])
    BY <1>1 DEF IInv, Guarded, At
  <2>. QED BY <1>1, <2>1 DEF Receipts, NoReceipt, Submittable, Exposed, Drainable
<1>6. UNCHANGED <<ids, call, retry, sub, owner, paused, alive, typing, arrived, ghosts, crashes, retries>>
  BY DEF DrainTargetGone, DrainExpires, DrainRenews, DrainBoundaryFails, pane, typing
<1>7. elapsed' \subseteq elapsed
  BY DEF DrainTargetGone, DrainExpires, DrainRenews, DrainBoundaryFails
<1>. HIDE DEF to, renewed
<1>8. PICK x \in {renewed} \cup Settled : receipts' = [receipts EXCEPT ![d] = x]
  BY SettledOnes DEF DrainTargetGone, DrainExpires, DrainRenews, DrainBoundaryFails, Final, renewed
<1>9. x \in Entries /\ x # NoReceipt /\ ~Exposed(x) /\ (Submittable(x) => Submittable(receipts[d]))
  BY <1>4, <1>8, SettledOnes DEF Entries
<1>10. receipts' \in [Ids -> Entries]
  BY <1>8, <1>9, Overwritten DEF IInv
<1>11. disk' \in {disk, receipts'} /\ saveFailures' \in 0..MaxSaveFailures /\ sweep' \in {to, Idle}
  <2>1. CASE DrainBoundaryFails(d)
    BY <2>1, DeliveryAssumption DEF IInv, TypeOK, DrainBoundaryFails, to
  <2>2. CASE DrainTargetGone(d) \/ DrainExpires(d) \/ DrainRenews(d)
    <3>1. SaveAndGo(to)
      BY <2>2 DEF DrainTargetGone, DrainExpires, DrainRenews, to
    <3>. QED BY <3>1, <1>10, SavedAndGone DEF IInv
  <2>. QED BY <2>1, <2>2
<1>. QED BY <1>1, <1>3, <1>6, <1>7, <1>8, <1>9, <1>11, SweepWrites

\* The sweep resumes after an await, writes what it made of the receipt if the
\* receipt is still its own, saves and goes on.
LEMMA SweepResumes ==
    ASSUME IInv, NEW d \in Ids, NEW r \in Entries, NEW to \in Sweeps,
           Mutate(d, r), SaveAndGo(to),
           sweep.cur = d, to.at \notin {"submitting", "screen", "observing"}, ~to.mine,
           elapsed' \subseteq elapsed, owner' \subseteq owner,
           sub' \in {sub, [sub EXCEPT ![d] = "none"]},
           UNCHANGED <<ids, call, retry, paused, alive, typing, arrived, ghosts, crashes, retries>>,
           sweep.mine => ~Exposed(r) /\ (Submittable(r) => Submittable(receipts[d]))
    PROVE  IInv'
<1>. DEFINE x == IF sweep.mine THEN r ELSE receipts[d]
<1>1. receipts \in [Ids -> Entries]
  BY DEF IInv, TypeOK, Entries
<1>2. receipts' = [receipts EXCEPT ![d] = x]
  BY <1>1 DEF Mutate
<1>3. /\ x \in Entries
      /\ receipts[d] = NoReceipt => x = NoReceipt
      /\ ~Exposed(x) /\ (Submittable(x) => Submittable(receipts[d]))
  BY <1>1 DEF IInv, Held, Guarded
<1>. HIDE DEF x
<1>4. receipts' \in [Ids -> Entries]
  BY <1>2, <1>3, Overwritten DEF IInv
<1>5. disk' \in {disk, receipts'} /\ saveFailures' \in 0..MaxSaveFailures /\ sweep' \in {to, Idle}
  BY <1>4, SavedAndGone DEF IInv
<1>. QED BY <1>2, <1>3, <1>5, SweepWrites

\* Where it goes on.
LEMMA SweepGoesOn ==
    ASSUME IInv
    PROVE  /\ {NextInDrain, NextInVerify, [NextInVerify EXCEPT !.at = "filing"]} \subseteq Sweeps
           /\ \A to \in {NextInDrain, NextInVerify, [NextInVerify EXCEPT !.at = "filing"]} :
                 to.at \notin {"submitting", "screen", "observing"} /\ ~to.mine
<1>1. sweep \in Sweeps
  BY DEF IInv, TypeOK, Sweeps
<1>. QED BY <1>1 DEF NextInDrain, NextInVerify, Sweeps

\* A submitter's result takes the receipt out of the drain's reach.
LEMMA SubmittedReceipts ==
    ASSUME NEW d \in Ids, NEW r \in Receipts, NEW x \in Submitted(d, r)
    PROVE  x \in Receipts /\ ~Exposed(x) /\ ~Submittable(x)
<1>1. Progressed(r) \in Receipts
  <2>1. 0 \in 0..AttentionAfter
    BY DeliveryAssumption
  <2>. QED BY <2>1 DEF Progressed, Receipts
<1>2. ASSUME NEW st \in Queueing, x = [Progressed(r) EXCEPT !.st = st, !.accepted = TRUE]
      PROVE  x \in Receipts /\ ~Exposed(x) /\ ~Submittable(x)
  BY <1>1, <1>2 DEF Receipts, DeliveryStates, Exposed, Submittable, Drainable
<1>3. ASSUME NEW draft \in {"typed", "dispatched"},
             x = [Progressed(r) EXCEPT !.st = "pending_verify", !.draft = draft]
      PROVE  x \in Receipts /\ ~Exposed(x) /\ ~Submittable(x)
  BY <1>1, <1>3 DEF Receipts, DeliveryStates, Drafts, Exposed, Submittable, Drainable
<1>4. ASSUME x \in Settled
      PROVE  x \in Receipts /\ ~Exposed(x) /\ ~Submittable(x)
  BY <1>4, SettledOnes DEF Entries
<1>5. \/ x \in {Settle("rescued", "false"), Settle("submitted", "null"), Settle("submitted", "true")}
      \/ \E st \in Queueing : x = [Progressed(r) EXCEPT !.st = st, !.accepted = TRUE]
      \/ \E draft \in {"typed", "dispatched"} :
            x = [Progressed(r) EXCEPT !.st = "pending_verify", !.draft = draft]
  BY DEF Submitted
<1>6. {Settle("rescued", "false"), Settle("submitted", "null"), Settle("submitted", "true")} \subseteq Settled
  BY SettledOnes DEF Final
<1>. QED BY <1>2, <1>3, <1>4, <1>5, <1>6

\* What the drain holds, or would hold had it not lost it.
LEMMA MineReceipts ==
    ASSUME IInv, NEW d \in Ids, sweep.cur = d
    PROVE  /\ Mine(d) \in Receipts
           /\ Mine(d) # NoReceipt
           /\ sweep.mine => Mine(d) = receipts[d]
           /\ ~sweep.mine => Mine(d) = FreshReceipt("queued")
<1>1. FreshReceipt("queued") \in Receipts /\ FreshReceipt("queued") # NoReceipt
  BY FreshReceipts DEF DeliveryStates, Queueing
<1>2. sweep.mine => receipts[d] \in Receipts /\ receipts[d] # NoReceipt
  BY DEF IInv, Held, TypeOK
<1>. QED BY <1>1, <1>2 DEF Mine

\* The submission ends while the drain waits for it.
LEMMA SubmissionEnds ==
    ASSUME IInv, NEW d \in Ids, SubmissionReturns(d) \/ SubmissionFails(d)
    PROVE  IInv'
<1>1. /\ sweep.cur = d /\ SaveAndGo(NextInDrain)
      /\ sub' \in {sub, [sub EXCEPT ![d] = "none"]}
      /\ elapsed' \subseteq elapsed /\ owner' \subseteq owner
      /\ UNCHANGED <<ids, call, retry, paused, alive, typing, arrived, ghosts, crashes, retries>>
  BY DEF SubmissionReturns, SubmissionFails, At, pane, typing
<1>2. PICK r \in Submitted(d, Mine(d)) \cup Settled : Mutate(d, r)
  BY SettledOnes DEF SubmissionReturns, SubmissionFails, Final
<1>3. r \in Entries /\ ~Exposed(r) /\ ~Submittable(r)
  BY <1>1, <1>2, MineReceipts, SubmittedReceipts, SettledOnes DEF Entries
<1>. QED BY <1>1, <1>2, <1>3, SweepGoesOn, SweepResumes

\* A refusal counts towards attention and sets the next attempt; no more.
LEMMA NotedReceipts ==
    ASSUME NEW r \in Receipts, NEW n \in ScreenNoted(r)
    PROVE  /\ [n EXCEPT !.qdeadline = TRUE] \in Receipts
           /\ Submittable([n EXCEPT !.qdeadline = TRUE]) => Submittable(r)
           /\ Exposed([n EXCEPT !.qdeadline = TRUE]) => Exposed(r)
<1>1. PICK k \in 0..AttentionAfter, a \in BOOLEAN :
        n = r \/ n = [r EXCEPT !.unchanged = k, !.attention = a]
  <2>1. 1 \in 0..AttentionAfter /\ r.unchanged \in 0..AttentionAfter /\ r.attention \in BOOLEAN
    BY DeliveryAssumption DEF Receipts
  <2>2. (IF r.unchanged < AttentionAfter THEN r.unchanged + 1 ELSE r.unchanged) \in 0..AttentionAfter
    BY <2>1, DeliveryAssumption
  <2>. QED BY <2>1, <2>2 DEF ScreenNoted
<1>2. n \in Receipts /\ n.st = r.st /\ n.external = r.external /\ n.accepted = r.accepted /\ n.started = r.started
  BY <1>1 DEF Receipts
<1>. QED BY <1>2 DEF Receipts, NoReceipt, Submittable, Exposed, Drainable

LEMMA RefusalKeeps ==
    ASSUME IInv, NEW d \in Ids, RefusalRecorded(d)
    PROVE  IInv'
<1>1. /\ sweep.cur = d /\ sweep.at = "screen" /\ SaveAndGo(NextInDrain)
      /\ UNCHANGED <<ids, call, retry, sub, elapsed, owner, paused, alive, typing, arrived, ghosts, crashes, retries>>
  BY DEF RefusalRecorded, At, pane, typing
<1>2. PICK n \in ScreenNoted(Mine(d)) : Mutate(d, [n EXCEPT !.qdeadline = TRUE])
  BY DEF RefusalRecorded
<1>. DEFINE r == [n EXCEPT !.qdeadline = TRUE]
<1>3. Mine(d) \in Receipts /\ (sweep.mine => Mine(d) = receipts[d])
  BY <1>1, MineReceipts
<1>4. r \in Entries /\ (Submittable(r) => Submittable(Mine(d))) /\ (Exposed(r) => Exposed(Mine(d)))
  BY <1>3, NotedReceipts DEF Entries
<1>5. sweep.mine => ~Exposed(receipts[d])
  BY <1>1 DEF IInv, Guarded, At
<1>6. Mutate(d, r)
  BY <1>2
<1>. HIDE DEF r
<1>. QED BY <1>1, <1>3, <1>4, <1>5, <1>6, SweepGoesOn, SweepResumes

\* The verifier's outcomes leave the drain nothing new.
LEMMA UndeliveredReceipts ==
    ASSUME NEW r \in Receipts, NEW reason \in Reasons, NEW shows \in {"none", "queued", "steer_pending"},
           NEW due \in BOOLEAN, NEW x \in Undelivered(r, reason, shows, due)
    PROVE  /\ x \in Receipts
           /\ Submittable(x) => Submittable(r)
           /\ Exposed(x) => Exposed(r)
<1>. DEFINE o == Observed(r, reason, shows)
<1>1. PICK st \in DeliveryStates, i \in 0..2, m \in 0..GoneAfter :
        /\ o = [r EXCEPT !.st = st, !.idle = i, !.misses = m]
        /\ st = r.st \/ r.accepted
  <2>1. r.st \in DeliveryStates /\ r.idle \in 0..2 /\ r.misses \in 0..GoneAfter
    BY DEF Receipts
  <2>. DEFINE st == IF shows \in Queueing /\ r.accepted THEN shows ELSE r.st
              i == IF reason # "queued_idle" THEN 0 ELSE IF r.idle < 2 THEN r.idle + 1 ELSE 2
              m == IF reason # "target_gone" THEN 0 ELSE IF r.misses < GoneAfter THEN r.misses + 1 ELSE r.misses
  <2>2. st \in DeliveryStates /\ i \in 0..2 /\ m \in 0..GoneAfter
    BY <2>1, DeliveryAssumption DEF DeliveryStates
  <2>3. o = [r EXCEPT !.st = st, !.idle = i, !.misses = m]
    BY DEF Observed
  <2>4. st = r.st \/ r.accepted
    BY DEF Receipts
  <2>. HIDE DEF st, i, m, o
  <2>. QED BY <2>2, <2>3, <2>4
<1>. HIDE DEF o
<1>2. o \in Receipts /\ o.st = st /\ o.external = r.external /\ o.accepted = r.accepted /\ o.started = r.started
  BY <1>1 DEF Receipts
<1>3. x \in Settled \/ x = o \/ x = [o EXCEPT !.st = "typed", !.attention = TRUE]
  BY SettledOnes DEF Undelivered, o, Final
<1>4. ASSUME x = [o EXCEPT !.st = "typed", !.attention = TRUE]
      PROVE  x \in Receipts /\ x.st = "typed"
  BY <1>2, <1>4 DEF Receipts, DeliveryStates
<1>5. CASE x \in Settled
  BY <1>5, SettledOnes DEF Entries
<1>6. CASE x = o
  BY <1>1, <1>2, <1>6 DEF NoReceipt, Receipts, Submittable, Exposed, Drainable
<1>7. CASE x = [o EXCEPT !.st = "typed", !.attention = TRUE]
  BY <1>4, <1>7 DEF Submittable, Exposed, Drainable
<1>. QED BY <1>3, <1>5, <1>6, <1>7

\* A look at the target ends.
LEMMA ObservationEnds ==
    ASSUME IInv, NEW d \in Ids, VerifyDelivered(d) \/ VerifyPending(d)
    PROVE  IInv'
<1>1. CASE VerifyDelivered(d)
  <2>1. /\ sweep.cur = d /\ Mutate(d, Settle("submitted", "true")) /\ SaveAndGo(NextInVerify)
        /\ owner' \subseteq owner
        /\ UNCHANGED <<ids, call, retry, sub, elapsed, paused, alive, typing, arrived, ghosts, crashes, retries>>
    BY <1>1 DEF VerifyDelivered, At
  <2>2. Settle("submitted", "true") \in Settled
    BY SettledOnes DEF Final
  <2>. QED BY <2>1, <2>2, SettledOnes, SweepGoesOn, SweepResumes
<1>2. CASE VerifyPending(d)
  <2>1. /\ sweep.cur = d /\ sweep.at = "observing"
        /\ UNCHANGED <<ids, call, retry, sub, elapsed, owner, paused, alive, typing, arrived, ghosts, crashes, retries>>
    BY <1>2 DEF VerifyPending, At, pane, typing
  <2>2. receipts \in [Ids -> Entries]
    BY DEF IInv, TypeOK, Entries
  <2>3. CASE ~sweep.mine
    <3>1. Mutate(d, receipts[d]) /\ SaveAndGo(NextInVerify)
      BY <1>2, <2>3 DEF VerifyPending, Mutate
    <3>. QED BY <2>1, <2>2, <2>3, <3>1, SweepGoesOn, SweepResumes
  <2>4. CASE sweep.mine
    <3>1. PICK reason \in Reasons, shows \in {"none", "queued", "steer_pending"} :
            \E r \in Undelivered(receipts[d], reason, shows, sweep.due) :
               /\ receipts' = [receipts EXCEPT ![d] = r]
               /\ SaveAndGo(IF Files(r, reason) THEN [NextInVerify EXCEPT !.at = "filing"]
                            ELSE NextInVerify)
      BY <1>2, <2>4 DEF VerifyPending
    <3>2. PICK r \in Undelivered(receipts[d], reason, shows, sweep.due) :
            /\ receipts' = [receipts EXCEPT ![d] = r]
            /\ SaveAndGo(IF Files(r, reason) THEN [NextInVerify EXCEPT !.at = "filing"]
                         ELSE NextInVerify)
      BY <3>1
    <3>3. receipts[d] \in Receipts /\ ~Exposed(receipts[d]) /\ sweep.due \in BOOLEAN
      BY <2>1, <2>4 DEF IInv, TypeOK, Held, Guarded, At
    <3>4. r \in Entries /\ ~Exposed(r) /\ (Submittable(r) => Submittable(receipts[d]))
      BY <3>3, UndeliveredReceipts DEF Entries
    <3>5. Mutate(d, r)
      BY <3>2, <2>4 DEF Mutate
    <3>6. PICK to \in {NextInVerify, [NextInVerify EXCEPT !.at = "filing"]} : SaveAndGo(to)
      BY <3>2
    <3>. QED BY <2>1, <3>4, <3>5, <3>6, SweepGoesOn, SweepResumes
  <2>. QED BY <2>3, <2>4
<1>. QED BY <1>1, <1>2

\* The verdict is filed, or the look cannot be noted.
LEMMA VerdictsKeep ==
    ASSUME IInv, TicketFiled \/ \E d \in Ids : ObservationUnsaved(d)
    PROVE  IInv'
<1>1. /\ UNCHANGED <<ids, receipts, call, retry, sub, elapsed, pane, ghosts, crashes, retries>>
      /\ sweep.at \in {"filing", "observing"}
      /\ sweep' \in {NextInVerify, Idle}
  BY DEF TicketFiled, SaveAndGo, ObservationUnsaved, At
<1>2. Save /\ receipts' \in [Ids -> Entries]
  BY <1>1 DEF IInv, TypeOK, Entries, TicketFiled, SaveAndGo, ObservationUnsaved, Save
<1>3. disk' \in {disk, receipts'} /\ disk' \in [Ids -> Entries] /\ saveFailures' \in 0..MaxSaveFailures
  BY <1>2, Saved DEF IInv
<1>4. sweep' \in Sweeps /\ sweep'.at \in {"verify", "idle"} /\ ~sweep'.mine
  <2>1. Idle \in Sweeps /\ ~Idle.mine /\ Idle.at = "idle"
    BY DeliveryAssumption DEF Idle, Sweeps
  <2>2. NextInVerify \in Sweeps /\ ~NextInVerify.mine
    BY SweepGoesOn
  <2>3. NextInVerify.at = "verify"
    BY DEF IInv, TypeOK, NextInVerify
  <2>. QED BY <1>1, <2>1, <2>2, <2>3
<1>5. QuietStep
  BY <1>1, <1>3 DEF QuietStep, ids, pane, typing, ghosts, Calling
<1>6. TypeOK'
  BY <1>1, <1>2, <1>3, <1>4 DEF IInv, TypeOK, Sweeps, Entries, ids, pane, typing, ghosts
<1>7. Guarded'
  BY <1>1 DEF IInv, Guarded, At
<1>8. Held'
  BY <1>4 DEF Held
<1>. QED BY <1>5, <1>6, <1>7, <1>8, QuietKeeps DEF IInv

\* What is stale is marked for a human.
LEMMA StartVerifyKeeps ==
    ASSUME IInv, StartVerify
    PROVE  IInv'
<1>1. PICK marked \in SUBSET Stale :
        receipts' = [d \in Ids |->
            IF d \in marked THEN [receipts[d] EXCEPT !.attention = TRUE] ELSE receipts[d]]
  BY DEF StartVerify
<1>2. /\ UNCHANGED <<ids, call, retry, sub, elapsed, pane, ghosts, crashes, retries>>
      /\ sweep.at = "drain" /\ Save
      /\ sweep' \in {[Idle EXCEPT !.at = "verify"], Idle}
  BY DEF StartVerify, Save
<1>3. ASSUME NEW d \in Ids
      PROVE  /\ receipts'[d] \in Entries
             /\ (receipts'[d] = NoReceipt) = (receipts[d] = NoReceipt)
             /\ Submittable(receipts'[d]) => Submittable(receipts[d])
             /\ Exposed(receipts'[d]) => Exposed(receipts[d])
  <2>1. receipts[d] \in Entries
    BY DEF IInv, TypeOK, Entries
  <2>2. CASE d \notin marked
    BY <1>1, <2>1, <2>2
  <2>3. CASE d \in marked
    <3>1. receipts[d] \in Receipts /\ receipts[d] # NoReceipt
      BY <2>1, <2>3 DEF Stale, Known, Entries
    <3>. DEFINE r == receipts[d]
                n == [r EXCEPT !.attention = TRUE]
    <3>2. receipts'[d] = n
      BY <1>1, <2>3
    <3>3. n \in Receipts /\ n.st = r.st /\ n.external = r.external /\ n.accepted = r.accepted /\ n.started = r.started
      BY <3>1 DEF Receipts
    <3>4. n # NoReceipt
      BY <3>3 DEF Receipts, NoReceipt
    <3>. HIDE DEF n
    <3>. QED BY <3>1, <3>2, <3>3, <3>4 DEF Entries, Submittable, Exposed, Drainable
  <2>. QED BY <2>2, <2>3
<1>4. receipts' \in [Ids -> Entries]
  BY <1>1, <1>3
<1>5. disk' \in {disk, receipts'} /\ disk' \in [Ids -> Entries] /\ saveFailures' \in 0..MaxSaveFailures
  BY <1>2, <1>4, Saved DEF IInv
<1>6. sweep' \in Sweeps /\ sweep'.at \in {"verify", "idle"} /\ ~sweep'.mine
  <2>1. ASSUME sweep' = [Idle EXCEPT !.at = "verify"]
        PROVE  sweep' = [at |-> "verify", cur |-> 0, mine |-> FALSE, due |-> FALSE]
    BY <2>1 DEF Idle
  <2>2. CASE sweep' = Idle
    BY <2>2, DeliveryAssumption DEF Idle, Sweeps
  <2>3. CASE sweep' = [at |-> "verify", cur |-> 0, mine |-> FALSE, due |-> FALSE]
    BY <2>3, DeliveryAssumption DEF Sweeps
  <2>. QED BY <1>2, <2>1, <2>2, <2>3
<1>7. \A d \in Ids : d >= next => receipts'[d] = receipts[d]
  BY <1>3 DEF IInv, Unallocated
<1>8. QuietStep
  BY <1>2, <1>3, <1>5, <1>7 DEF QuietStep, ids, pane, typing, ghosts, Calling
<1>9. TypeOK'
  BY <1>2, <1>4, <1>5, <1>6 DEF IInv, TypeOK, Sweeps, Entries, ids, pane, typing, ghosts
<1>10. Guarded'
  BY <1>2, <1>3 DEF IInv, Guarded, At
<1>11. Held'
  BY <1>6 DEF Held
<1>. QED BY <1>8, <1>9, <1>10, <1>11, QuietKeeps DEF IInv

-----------------------------------------------------------------------------
(* The steps that give or use up a right to type. *)

\* Such a step concerns one delivery.
LEMMA OneDelivery ==
    ASSUME IInv, NEW d \in Ids,
           next' \in {next, next + 1}, d < next', requeued \subseteq requeued',
           disk' \in {disk, receipts'},
           \A e \in Ids \ {d} :
              /\ receipts'[e] = receipts[e] /\ call'[e] = call[e] /\ retry'[e] = retry[e]
              /\ sub'[e] = sub[e] /\ typed'[e] = typed[e] /\ (e \in owner' => e \in owner),
           d \notin requeued' =>
              /\ Submittable(receipts'[d]) \/ Submittable(disk'[d])
                    => typed'[d] = 0 /\ sub'[d] = "none" /\ ~Calling(d)'
              /\ sub'[d] = "running" => typed'[d] = 0 /\ ~Calling(d)'
              /\ Calling(d)' => typed'[d] = 0
              /\ typed'[d] <= 1,
           d \in owner' \/ retry'[d] # "none" \/ Landed(d)' => typed'[d] >= 1
    PROVE  Once' /\ Unallocated' /\ Marks'
<1>1. next \in Nat /\ next' \in Nat /\ next <= next'
  BY DEF IInv, TypeOK
<1>2. ASSUME NEW e \in Ids, e \notin requeued', e # d
      PROVE  /\ Submittable(receipts'[e]) \/ Submittable(disk'[e])
                   => typed'[e] = 0 /\ sub'[e] = "none" /\ ~Calling(e)'
             /\ sub'[e] = "running" => typed'[e] = 0 /\ ~Calling(e)'
             /\ Calling(e)' => typed'[e] = 0
             /\ typed'[e] <= 1
  <2>1. /\ receipts'[e] = receipts[e] /\ disk'[e] \in {receipts[e], disk[e]}
        /\ sub'[e] = sub[e] /\ typed'[e] = typed[e] /\ call'[e] = call[e]
    BY <1>2
  <2>2. Calling(e)' = Calling(e) /\ e \notin requeued
    BY <1>2, <2>1 DEF Calling
  <2>. QED BY <2>1, <2>2 DEF IInv, Once
<1>3. Once'
  BY <1>2 DEF Once
<1>4. ASSUME NEW e \in Ids, e >= next'
      PROVE  /\ receipts'[e] = NoReceipt /\ disk'[e] = NoReceipt
             /\ call'[e] = "none" /\ retry'[e] = "none" /\ sub'[e] = "none" /\ typed'[e] = 0
  <2>1. e # d /\ e >= next
    BY <1>1, <1>4 DEF Ids
  <2>2. receipts'[e] = receipts[e] /\ disk'[e] \in {receipts[e], disk[e]}
    BY <2>1
  <2>. QED BY <2>1, <2>2 DEF IInv, Unallocated
<1>5. Unallocated'
  BY <1>4 DEF Unallocated
<1>6. Marks'
  BY DEF IInv, Marks, Landed
<1>. QED BY <1>3, <1>5, <1>6

\* A caller sets the entry.
LEMMA Replaced ==
    ASSUME IInv, NEW d \in Ids, NEW x \in Entries, Replace(d, x), ~Exposed(x)
    PROVE  /\ receipts' \in [Ids -> Entries]
           /\ receipts'[d] = x
           /\ \A e \in Ids \ {d} : receipts'[e] = receipts[e]
           /\ sweep' \in Sweeps
           /\ Guarded' /\ Held'
<1>1. receipts' = [receipts EXCEPT ![d] = x]
  BY DEF Replace
<1>2. /\ receipts' \in [Ids -> Entries]
      /\ receipts'[d] = x
      /\ \A e \in Ids \ {d} : receipts'[e] = receipts[e]
  BY <1>1, Overwritten DEF IInv
<1>3. sweep \in Sweeps
  BY DEF IInv, TypeOK, Sweeps
<1>4. /\ sweep.cur # d => sweep' = sweep
      /\ sweep.cur = d => sweep' = [sweep EXCEPT !.mine = FALSE]
  BY DEF Replace
<1>5. ASSUME sweep.cur = d
      PROVE  sweep' = [at |-> sweep.at, cur |-> sweep.cur, mine |-> FALSE, due |-> sweep.due]
  BY <1>3, <1>4, <1>5 DEF Sweeps
<1>6. /\ sweep' \in Sweeps /\ sweep'.at = sweep.at /\ sweep'.cur = sweep.cur
      /\ sweep.cur # d => sweep' = sweep
      /\ sweep'.mine => sweep.mine /\ sweep.cur # d
  BY <1>3, <1>4, <1>5 DEF Sweeps
<1>8. Guarded'
  BY <1>2, <1>6 DEF IInv, Guarded, At
<1>9. Held'
  <2>1. sweep'.mine => receipts'[sweep'.cur] = receipts[sweep'.cur]
    BY <1>2, <1>6 DEF IInv, Held
  <2>. QED BY <1>6, <2>1 DEF IInv, Held
<1>. QED BY <1>2, <1>6, <1>8, <1>9

\* A first call under a new id.
LEMMA Allocated ==
    ASSUME IInv, NEW d \in Ids, NEW x \in Entries,
           SendNew(d) \/ QueueReport(d) \/ RegisterExternal(d),
           Replace(d, x), Save, ~Exposed(x), requeued' = requeued,
           \/ call' \in {[call EXCEPT ![d] = "accepted"], [call EXCEPT ![d] = "sending"]}
                /\ ~Submittable(x)
           \/ call' = call,
           elapsed' \subseteq elapsed
    PROVE  IInv'
<1>1. /\ d = next /\ next' = next + 1
      /\ UNCHANGED <<text, origin, retry, sub, pane, crashes, retries>>
  BY DEF SendNew, QueueReport, RegisterExternal, Allocate
<1>2. /\ receipts' \in [Ids -> Entries]
      /\ receipts'[d] = x
      /\ \A e \in Ids \ {d} : receipts'[e] = receipts[e]
      /\ sweep' \in Sweeps
      /\ Guarded' /\ Held'
  BY Replaced
<1>3. disk' \in {disk, receipts'} /\ disk' \in [Ids -> Entries] /\ saveFailures' \in 0..MaxSaveFailures
  BY <1>2, Saved DEF IInv
<1>4. /\ receipts[d] = NoReceipt /\ disk[d] = NoReceipt
      /\ call[d] = "none" /\ retry[d] = "none" /\ sub[d] = "none" /\ typed[d] = 0 /\ d \notin owner
  BY <1>1 DEF IInv, TypeOK, Unallocated, Marks, Landed
<1>5. /\ call' \in [Ids -> {"none", "accepted", "sending", "unanswered", "typed"}]
      /\ \A e \in Ids \ {d} : call'[e] = call[e]
      /\ Calling(d)' => ~Submittable(x)
      /\ ~Landed(d)'
  BY <1>1, <1>4 DEF IInv, TypeOK, Calling, Landed
<1>6. next \in 1..N /\ next' \in 1..(N + 1) /\ d < next'
  BY <1>1, DeliveryAssumption DEF Ids
<1>7. TypeOK'
  <2>1. elapsed' \subseteq Ids \X Deadlines
    BY DEF IInv, TypeOK
  <2>. QED BY <1>1, <1>2, <1>3, <1>5, <1>6, <2>1 DEF IInv, TypeOK, Sweeps, Entries, pane, typing
<1>8. ~Submittable(NoReceipt)
  BY DEF Submittable
<1>9. Submittable(disk'[d]) => Submittable(x)
  BY <1>2, <1>3, <1>4, <1>8
<1>10. Once' /\ Unallocated' /\ Marks'
  BY <1>1, <1>2, <1>3, <1>4, <1>5, <1>6, <1>9, OneDelivery DEF pane, typing
<1>. QED BY <1>2, <1>7, <1>10 DEF IInv

LEMMA AllocationsKeep ==
    ASSUME IInv, NEW d \in Ids, SendNew(d) \/ QueueReport(d) \/ RegisterExternal(d)
    PROVE  IInv'
<1>1. d = next
  BY DEF SendNew, QueueReport, RegisterExternal, Allocate
<1>2. receipts[d] = NoReceipt /\ typed[d] = 0
  BY <1>1 DEF IInv, TypeOK, Unallocated
<1>3. NoReceipt \in Entries /\ ~Exposed(NoReceipt) /\ ~Submittable(NoReceipt)
  BY DEF Entries, Exposed, Submittable
<1>4. CASE SendNew(d)
  <2>1. Replace(d, PendingReceipt("none")) /\ Save
    BY <1>2, <1>4 DEF SendNew, AcceptPendingVerify, AlreadyConfirmed
  <2>2. /\ PendingReceipt("none") \in Entries /\ ~Exposed(PendingReceipt("none"))
        /\ ~Submittable(PendingReceipt("none"))
    BY KeptReceipts DEF Entries, Drafts, Queueing
  <2>3. /\ requeued' = requeued /\ elapsed' = elapsed
        /\ call' = [call EXCEPT ![d] = "accepted"] \/ call' = call
    BY <1>4 DEF SendNew
  <2>. QED BY <1>4, <2>1, <2>2, <2>3, Allocated
<1>5. CASE QueueReport(d)
  <2>1. PICK x \in {FreshReceipt("queued"), NoReceipt} : Replace(d, x) /\ Save
    BY <1>5 DEF QueueReport, QueueDelivery, Save
  <2>2. x \in Entries /\ ~Exposed(x)
    BY <1>3, <2>1, FreshReceipts DEF Entries, DeliveryStates, Queueing
  <2>3. requeued' = requeued /\ elapsed' \subseteq elapsed /\ call' = call
    BY <1>2, <1>5 DEF QueueReport, QueueDelivery
  <2>. QED BY <1>5, <2>1, <2>2, <2>3, Allocated
<1>6. CASE RegisterExternal(d)
  <2>. DEFINE external == [FreshReceipt("queued") EXCEPT !.started = TRUE, !.external = TRUE]
  <2>1. external \in Entries /\ ~Exposed(external) /\ ~Submittable(external)
    BY KeptReceipts DEF Entries, Drafts, Queueing
  <2>2. requeued' = requeued /\ elapsed' = elapsed
    BY <1>6 DEF RegisterExternal
  <2>3. \/ Replace(d, external) /\ SaveOk /\ call' = [call EXCEPT ![d] = "sending"]
        \/ Replace(d, NoReceipt) /\ SaveThrows /\ call' = call
    BY <1>6 DEF RegisterExternal
  <2>. HIDE DEF external
  <2>4. CASE Replace(d, external) /\ SaveOk /\ call' = [call EXCEPT ![d] = "sending"]
    BY <1>6, <2>1, <2>2, <2>4, Allocated DEF Save
  <2>5. CASE Replace(d, NoReceipt) /\ SaveThrows /\ call' = call
    BY <1>3, <1>6, <2>2, <2>5, Allocated DEF Save
  <2>. QED BY <2>3, <2>4, <2>5
<1>. QED BY <1>4, <1>5, <1>6

\* The target is paused: a draft that is in the pane, typing is put back into the queue,
\* and its id is marked as requeued.
LEMMA QueueForPausedKeeps ==
    ASSUME IInv, NEW d \in Ids, QueueForPaused(d)
    PROVE  IInv'
<1>1. UNCHANGED <<ids, sub, pane, crashes, retries>>
  BY DEF QueueForPaused
<1>2. PICK x \in {FreshReceipt("queued"), NoReceipt} :
        /\ Replace(d, x) /\ Save
        /\ x # NoReceipt => requeued' = IF typed[d] > 0 THEN requeued \cup {d} ELSE requeued
        /\ x = NoReceipt => requeued' = requeued
  <2>1. FreshReceipt("queued") # NoReceipt
    BY FreshReceipts DEF DeliveryStates, Queueing
  <2>. QED BY <2>1 DEF QueueForPaused, QueueDelivery, Save
<1>3. x \in Entries /\ ~Exposed(x)
  <2>1. NoReceipt \in Entries /\ ~Exposed(NoReceipt)
    BY DEF Entries, Exposed
  <2>. QED BY <2>1, FreshReceipts DEF Entries, DeliveryStates, Queueing
<1>4. /\ receipts' \in [Ids -> Entries]
      /\ receipts'[d] = x
      /\ \A e \in Ids \ {d} : receipts'[e] = receipts[e]
      /\ sweep' \in Sweeps
      /\ Guarded' /\ Held'
  BY <1>2, <1>3, Replaced
<1>5. disk' \in {disk, receipts'} /\ disk' \in [Ids -> Entries] /\ saveFailures' \in 0..MaxSaveFailures
  BY <1>2, <1>4, Saved DEF IInv
<1>6. \/ call[d] = "accepted" /\ call' = [call EXCEPT ![d] = "none"] /\ retry' = retry
      \/ retry[d] = "asked" /\ retry' = [retry EXCEPT ![d] = "none"] /\ call' = call
  BY DEF QueueForPaused
<1>7. /\ call' \in [Ids -> {"none", "accepted", "sending", "unanswered", "typed"}]
      /\ retry' \in [Ids -> {"none", "asked", "sending"}]
      /\ \A e \in Ids \ {d} : call'[e] = call[e] /\ retry'[e] = retry[e]
  BY <1>6 DEF IInv, TypeOK
<1>8. TypeOK'
  <2>1. elapsed' \subseteq Ids \X Deadlines /\ requeued' \subseteq Ids
    BY <1>2 DEF IInv, TypeOK, QueueForPaused, QueueDelivery
  <2>. QED BY <1>1, <1>4, <1>5, <1>7, <2>1 DEF IInv, TypeOK, Sweeps, Entries, ids, pane, typing
<1>9. d < next' /\ next' = next /\ requeued \subseteq requeued'
  BY <1>1, <1>2, <1>6 DEF IInv, TypeOK, Unallocated, Ids, ids
<1>10. ASSUME d \notin requeued'
       PROVE  /\ Submittable(receipts'[d]) \/ Submittable(disk'[d])
                    => typed'[d] = 0 /\ sub'[d] = "none" /\ ~Calling(d)'
              /\ sub'[d] = "running" => typed'[d] = 0 /\ ~Calling(d)'
              /\ Calling(d)' => typed'[d] = 0
              /\ typed'[d] <= 1
  <2>1. d \notin requeued /\ typed[d] \in Nat /\ sub[d] \in {"none", "running", "unanswered", "typed"}
    BY <1>9, <1>10 DEF IInv, TypeOK
  <2>2. CASE x = NoReceipt
    <3>1. ~Submittable(x)
      BY <2>2 DEF Submittable
    <3>2. Calling(d)' => Calling(d)
      BY <1>6 DEF IInv, TypeOK, Calling
    <3>3. Submittable(disk'[d]) => Submittable(disk[d])
      BY <1>4, <1>5, <3>1
    <3>. QED BY <1>1, <1>4, <2>1, <3>1, <3>2, <3>3 DEF IInv, Once, pane, typing
  <2>3. CASE x # NoReceipt
    <3>1. typed[d] = 0
      BY <1>2, <1>10, <2>1, <2>3
    <3>2. call[d] = "accepted" /\ call' = [call EXCEPT ![d] = "none"]
      BY <1>6, <3>1 DEF IInv, Marks, Landed
    <3>3. ~Calling(d)' /\ Calling(d)
      BY <3>2 DEF IInv, TypeOK, Calling
    <3>4. sub[d] = "none"
      BY <2>1, <3>1, <3>3 DEF IInv, Once, Marks, Landed
    <3>. QED BY <1>1, <3>1, <3>3, <3>4 DEF pane, typing
  <2>. QED BY <2>2, <2>3
<1>11. d \in owner' \/ retry'[d] # "none" \/ Landed(d)' => typed'[d] >= 1
  BY <1>1, <1>6 DEF IInv, TypeOK, Marks, Landed, pane, typing
<1>12. Once' /\ Unallocated' /\ Marks'
  BY <1>1, <1>4, <1>5, <1>7, <1>9, <1>10, <1>11, OneDelivery DEF pane, typing
<1>. QED BY <1>4, <1>8, <1>12 DEF IInv

\* The text lands: the right to type is used up, or was already.
LEMMA TypingKeeps ==
    ASSUME IInv, NEW d \in Ids, CallTypes(d) \/ SubmissionTypes(d)
    PROVE  IInv'
<1>1. UNCHANGED <<ids, receipts, disk, retry, sweep, elapsed, paused, alive, arrived, ghosts, counters>>
  BY DEF CallTypes, SubmissionTypes
<1>2. PICK again \in BOOLEAN :
        /\ TextLands(d, again)
        /\ \/ /\ call[d] = (IF again THEN "unanswered" ELSE "sending")
              /\ \/ call' = [call EXCEPT ![d] = "typed"] /\ owner' = owner \cup {d}
                 \/ call' = [call EXCEPT ![d] = "unanswered"] /\ owner' = owner
              /\ sub' = sub
           \/ /\ sub[d] = (IF again THEN "unanswered" ELSE "running")
              /\ sub' \in {[sub EXCEPT ![d] = "typed"], [sub EXCEPT ![d] = "unanswered"]}
              /\ call' = call /\ owner' = owner
  BY DEF CallTypes, SubmissionTypes
<1>3. /\ call' \in [Ids -> {"none", "accepted", "sending", "unanswered", "typed"}]
      /\ sub' \in [Ids -> {"none", "running", "unanswered", "typed"}]
      /\ owner' \subseteq Ids
      /\ \A e \in Ids \ {d} : call'[e] = call[e] /\ sub'[e] = sub[e] /\ (e \in owner' => e \in owner)
  BY <1>2 DEF IInv, TypeOK
<1>4. /\ tries' \in [Ids -> 0..ChunkAttempts]
      /\ typed' \in [Ids -> Nat] /\ copies' \in [Ids -> Nat]
      /\ \A e \in Ids \ {d} : typed'[e] = typed[e]
      /\ typed'[d] = IF again THEN typed[d] ELSE typed[d] + 1
  <2>1. /\ again => tries[d] < ChunkAttempts
        /\ tries' = [tries EXCEPT ![d] = IF again THEN tries[d] + 1 ELSE 1]
        /\ typed' = [typed EXCEPT ![d] = IF again THEN typed[d] ELSE typed[d] + 1]
        /\ copies' = [copies EXCEPT ![d] = copies[d] + 1]
    BY <1>2 DEF TextLands
  <2>2. (IF again THEN tries[d] + 1 ELSE 1) \in 0..ChunkAttempts
    BY <2>1, DeliveryAssumption DEF IInv, TypeOK
  <2>. QED BY <2>1, <2>2 DEF IInv, TypeOK
<1>5. TypeOK'
  BY <1>1, <1>3, <1>4 DEF IInv, TypeOK, Sweeps, ids, ghosts, counters
<1>6. Guarded' /\ Held'
  BY <1>1 DEF IInv, Guarded, At, Held
<1>7. d < next' /\ next' = next
  BY <1>1, <1>2 DEF IInv, TypeOK, Unallocated, Ids, ids
<1>8. typed[d] \in Nat /\ typed'[d] >= 1
  <2>1. again => typed[d] >= 1
    BY <1>2 DEF IInv, Marks, Landed
  <2>. QED BY <1>4, <2>1 DEF IInv, TypeOK
<1>9. ASSUME d \notin requeued
      PROVE  /\ typed'[d] <= 1 /\ ~Calling(d)'
             /\ ~Submittable(receipts[d]) /\ ~Submittable(disk[d]) /\ sub'[d] # "running"
  <2>1. CASE again
    <3>1. typed'[d] = typed[d] /\ typed[d] >= 1
      BY <1>4, <1>8, <2>1
    <3>2. ~Calling(d) /\ ~Submittable(receipts[d]) /\ ~Submittable(disk[d]) /\ sub[d] # "running"
          /\ typed[d] <= 1
      BY <1>8, <1>9, <3>1 DEF IInv, Once
    <3>3. ~Calling(d)' /\ sub'[d] # "running"
      BY <1>2, <3>2 DEF IInv, TypeOK, Calling
    <3>. QED BY <3>1, <3>2, <3>3
  <2>2. CASE ~again
    <3>1. typed[d] = 0 /\ ~Submittable(receipts[d]) /\ ~Submittable(disk[d])
          /\ (call' # call => sub[d] # "running") /\ (sub' # sub => ~Calling(d))
      BY <1>2, <1>9, <2>2 DEF IInv, TypeOK, Once, Calling
    <3>2. ~Calling(d)' /\ sub'[d] # "running"
      BY <1>2, <1>9, <2>2 DEF IInv, TypeOK, Once, Calling
    <3>. QED BY <1>4, <2>2, <3>1, <3>2
  <2>. QED BY <2>1, <2>2
<1>10. Once' /\ Unallocated' /\ Marks'
  BY <1>1, <1>3, <1>4, <1>7, <1>8, <1>9, OneDelivery DEF ids, ghosts
<1>. QED BY <1>5, <1>6, <1>10 DEF IInv

\* What a call leaves: the confirmed receipt it found, or one no drain takes up.
LEMMA CallOutcomes ==
    ASSUME IInv, NEW d \in Ids,
           CallResult(d) \/ ResolveDelivery(d, "failed", "null")
             \/ UNCHANGED <<receipts, disk, sweep, saveFailures>>
    PROVE  \/ UNCHANGED <<receipts, disk, sweep, saveFailures>>
           \/ \E x \in Entries :
                 Replace(d, x) /\ Save /\ ~Exposed(x) /\ ~Submittable(x)
<1>1. \A st \in Final \cup {"typed"}, v \in {"null", "true", "false"} :
         ResolveDelivery(d, st, v) =>
            \E x \in Entries : Replace(d, x) /\ Save /\ ~Exposed(x) /\ ~Submittable(x)
  BY SettledOnes DEF ResolveDelivery
<1>2. ASSUME AcceptComposerQueue(d)
      PROVE  \E x \in Entries : Replace(d, x) /\ Save /\ ~Exposed(x) /\ ~Submittable(x)
  <2>. DEFINE held(st) == [FreshReceipt(st) EXCEPT !.started = TRUE, !.accepted = TRUE]
  <2>1. \A st \in Queueing : held(st) \in Entries /\ ~Exposed(held(st)) /\ ~Submittable(held(st))
    BY KeptReceipts DEF Entries, Drafts
  <2>2. NoReceipt \in Entries /\ ~Exposed(NoReceipt) /\ ~Submittable(NoReceipt)
    BY DEF Entries, Exposed, Submittable
  <2>3. \E st \in Queueing : Save /\ (Replace(d, held(st)) \/ Replace(d, NoReceipt))
    BY <1>2 DEF AcceptComposerQueue, Save
  <2>. HIDE DEF held
  <2>. QED BY <2>1, <2>2, <2>3
<1>3. ASSUME NEW draft \in {"typed", "dispatched"}, AcceptPendingVerify(d, draft)
      PROVE  \/ UNCHANGED <<receipts, disk, sweep, saveFailures>>
             \/ \E x \in Entries : Replace(d, x) /\ Save /\ ~Exposed(x) /\ ~Submittable(x)
  <2>1. PendingReceipt(draft) \in Entries /\ ~Exposed(PendingReceipt(draft)) /\ ~Submittable(PendingReceipt(draft))
    BY KeptReceipts DEF Entries, Drafts, Queueing
  <2>. QED BY <1>3, <2>1 DEF AcceptPendingVerify
<1>. QED BY <1>1, <1>2, <1>3 DEF CallResult, Final

LEMMA CallsReturn ==
    ASSUME IInv, NEW d \in Ids, CallReturns(d) \/ RetryReturns(d)
    PROVE  IInv'
<1>1. /\ UNCHANGED <<ids, sub, elapsed, pane, requeued, crashes, retries>>
      /\ call[d] # "none" \/ retry[d] # "none"
      /\ call' \in {call, [call EXCEPT ![d] = "none"]}
      /\ retry' \in {retry, [retry EXCEPT ![d] = "none"]}
  BY DEF CallReturns, RetryReturns
<1>2. CallResult(d) \/ ResolveDelivery(d, "failed", "null")
        \/ UNCHANGED <<receipts, disk, sweep, saveFailures>>
  BY DEF CallReturns, RetryReturns
<1>3. /\ receipts' \in [Ids -> Entries]
      /\ \A e \in Ids \ {d} : receipts'[e] = receipts[e]
      /\ Submittable(receipts'[d]) => Submittable(receipts[d])
      /\ sweep' \in Sweeps
      /\ disk' \in {disk, receipts'} /\ disk' \in [Ids -> Entries]
      /\ saveFailures' \in 0..MaxSaveFailures
      /\ Guarded' /\ Held'
  <2>1. CASE UNCHANGED <<receipts, disk, sweep, saveFailures>>
    BY <2>1 DEF IInv, TypeOK, Sweeps, Entries, Guarded, At, Held
  <2>2. CASE \E x \in Entries : Replace(d, x) /\ Save /\ ~Exposed(x) /\ ~Submittable(x)
    <3>1. PICK x \in Entries : Replace(d, x) /\ Save /\ ~Exposed(x) /\ ~Submittable(x)
      BY <2>2
    <3>2. /\ receipts' \in [Ids -> Entries]
          /\ receipts'[d] = x
          /\ \A e \in Ids \ {d} : receipts'[e] = receipts[e]
          /\ sweep' \in Sweeps
          /\ Guarded' /\ Held'
      BY <3>1, Replaced
    <3>. QED BY <3>1, <3>2, Saved DEF IInv
  <2>. QED BY <1>2, <2>1, <2>2, CallOutcomes
<1>4. /\ call' \in [Ids -> {"none", "accepted", "sending", "unanswered", "typed"}]
      /\ retry' \in [Ids -> {"none", "asked", "sending"}]
      /\ \A e \in Ids : call'[e] \in {call[e], "none"} /\ retry'[e] \in {retry[e], "none"}
  BY <1>1 DEF IInv, TypeOK
<1>5. \A e \in Ids : e >= next => receipts'[e] = receipts[e]
  BY <1>1, <1>3 DEF IInv, Unallocated
<1>6. QuietStep
  BY <1>1, <1>3, <1>4, <1>5 DEF QuietStep, ids, pane, typing, Calling
<1>7. TypeOK'
  BY <1>1, <1>3, <1>4 DEF IInv, TypeOK, Sweeps, Entries, ids, pane, typing
<1>. QED BY <1>3, <1>6, <1>7, QuietKeeps DEF IInv

\* The drain passes the boundary: its right to submit becomes the submission's
\* right to type.
LEMMA DrainSubmitsKeeps ==
    ASSUME IInv, NEW d \in Ids, DrainSubmits(d)
    PROVE  IInv'
<1>. DEFINE r == receipts[d]
            begun == [r EXCEPT !.started = TRUE, !.qdeadline = @ /\ ~QueueDeadlinePassed(d)]
            to == [sweep EXCEPT !.at = "submitting", !.cur = d, !.mine = TRUE]
<1>1. /\ UNCHANGED <<ids, call, retry, pane, ghosts, crashes, retries>>
      /\ sweep.at = "drain" /\ d \in Known /\ Drainable(r)
      /\ elapsed' \subseteq elapsed
      /\ saveFailures' = saveFailures /\ disk' = receipts'
      /\ sub' = [sub EXCEPT ![d] = "running"]
  BY DEF DrainSubmits, NextEntry, Boundary, SaveOk
<1>2. receipts' = [receipts EXCEPT ![d] = begun]
  BY DEF DrainSubmits, Boundary
<1>3. r \in Receipts /\ r # NoReceipt
  BY <1>1 DEF IInv, TypeOK, Known
<1>4. begun \in Receipts /\ begun.started
  BY <1>3 DEF Receipts, QueueDeadlinePassed
<1>5. begun \in Entries /\ begun # NoReceipt /\ ~Submittable(begun)
  BY <1>4 DEF Entries, Receipts, NoReceipt, Submittable
<1>6. sweep' = to
  BY DEF DrainSubmits
<1>7. to = [at |-> "submitting", cur |-> d, mine |-> TRUE, due |-> sweep.due]
  BY SweepTargets DEF IInv
<1>. HIDE DEF begun, to
<1>8. /\ receipts' \in [Ids -> Entries]
      /\ receipts'[d] = begun
      /\ \A e \in Ids \ {d} : receipts'[e] = receipts[e]
  BY <1>2, <1>5, Overwritten DEF IInv
<1>9. /\ sweep' \in Sweeps
      /\ sweep'.at = "submitting" /\ sweep'.cur = d /\ sweep'.mine
  <2>1. sweep.due \in BOOLEAN /\ d \in 0..N
    BY DeliveryAssumption DEF IInv, TypeOK, Ids
  <2>. QED BY <1>6, <1>7, <2>1 DEF Sweeps
<1>10. TypeOK'
  <2>1. elapsed' \subseteq Ids \X Deadlines /\ sub' \in [Ids -> {"none", "running", "unanswered", "typed"}]
    BY <1>1 DEF IInv, TypeOK
  <2>. QED BY <1>1, <1>8, <1>9, <2>1 DEF IInv, TypeOK, Sweeps, Entries, ids, pane, typing, ghosts
<1>11. \A e \in Ids : ~Exposed(receipts[e])
  BY <1>1 DEF IInv, Guarded, At
<1>12. Guarded'
  BY <1>8, <1>9, <1>11 DEF Guarded, At
<1>13. Held'
  BY <1>5, <1>8, <1>9 DEF Held
<1>14. Submittable(receipts[d])
  BY <1>1, <1>3, <1>11 DEF Submittable, Exposed
<1>15. d \notin requeued => typed[d] = 0 /\ ~Calling(d)
  BY <1>14 DEF IInv, Once
<1>16. d < next' /\ next' = next
  BY <1>1, <1>3 DEF IInv, TypeOK, Unallocated, Ids, ids
<1>17. /\ \A e \in Ids \ {d} : sub'[e] = sub[e]
       /\ sub'[d] = "running" /\ ~Submittable(disk'[d]) /\ ~Submittable(receipts'[d])
  BY <1>1, <1>5, <1>8 DEF IInv, TypeOK
<1>18. Calling(d)' = Calling(d) /\ (d \in owner \/ retry[d] # "none" \/ Landed(d)' => typed[d] >= 1)
  BY <1>1, <1>17 DEF Calling, IInv, Marks, Landed
<1>19. Once' /\ Unallocated' /\ Marks'
  BY <1>1, <1>8, <1>15, <1>16, <1>17, <1>18, OneDelivery DEF pane, typing, ghosts
<1>. QED BY <1>10, <1>12, <1>13, <1>19 DEF IInv

\* A refused submission, which has typed nothing, gives the right back.
LEMMA SubmissionRefusedKeeps ==
    ASSUME IInv, NEW d \in Ids, SubmissionRefused(d)
    PROVE  IInv'
<1>. DEFINE taken == [Mine(d) EXCEPT !.started = FALSE, !.draft = "none"]
            x == IF sweep.mine THEN taken ELSE receipts[d]
            to == [sweep EXCEPT !.at = "screen"]
<1>1. /\ UNCHANGED <<ids, call, retry, elapsed, pane, ghosts, crashes, retries>>
      /\ sweep.at = "submitting" /\ sweep.cur = d /\ sub[d] = "running"
      /\ sub' = [sub EXCEPT ![d] = "none"]
      /\ Mutate(d, taken) /\ SaveAndGo(to)
  BY DEF SubmissionRefused, At, NothingTyped
<1>2. receipts \in [Ids -> Entries]
  BY DEF IInv, TypeOK, Entries
<1>3. receipts' = [receipts EXCEPT ![d] = x]
  BY <1>1, <1>2 DEF Mutate
<1>4. taken \in Receipts /\ ~taken.started
  <2>1. Mine(d) \in Receipts
    BY <1>1, MineReceipts
  <2>. QED BY <2>1 DEF Receipts, Drafts
<1>5. /\ taken \in Entries /\ ~Exposed(taken) /\ taken # NoReceipt
  BY <1>4 DEF Entries, Receipts, NoReceipt, Exposed
<1>6. x \in Entries /\ ~Exposed(x) /\ (sweep.mine => x # NoReceipt)
  BY <1>2, <1>5 DEF IInv, Guarded
<1>7. to = [at |-> "screen", cur |-> sweep.cur, mine |-> sweep.mine, due |-> sweep.due]
  BY SweepTargets DEF IInv
<1>. HIDE DEF x, taken, to
<1>8. /\ receipts' \in [Ids -> Entries]
      /\ receipts'[d] = x
      /\ \A e \in Ids \ {d} : receipts'[e] = receipts[e]
  BY <1>3, <1>6, Overwritten DEF IInv
<1>9. disk' \in {disk, receipts'} /\ saveFailures' \in 0..MaxSaveFailures /\ sweep' \in {to, Idle}
  BY <1>1, <1>8, SavedAndGone DEF IInv
<1>10. disk' \in [Ids -> Entries]
  BY <1>8, <1>9 DEF IInv, TypeOK, Entries
<1>11. /\ sweep' \in Sweeps
       /\ sweep'.mine => sweep.mine /\ sweep'.at = "screen"
       /\ sweep'.at \in {"submitting", "screen", "observing"} => sweep'.cur = d
  <2>1. Idle \in Sweeps /\ ~Idle.mine /\ Idle.at = "idle"
    BY SweepTargets DEF IInv
  <2>2. to \in Sweeps /\ to.mine = sweep.mine /\ to.at = "screen" /\ to.cur = d
    BY <1>1, <1>7 DEF IInv, TypeOK, Sweeps
  <2>. QED BY <1>9, <2>1, <2>2
<1>12. TypeOK'
  <2>1. sub' \in [Ids -> {"none", "running", "unanswered", "typed"}]
    BY <1>1 DEF IInv, TypeOK
  <2>. QED BY <1>1, <1>8, <1>9, <1>10, <1>11, <2>1 DEF IInv, TypeOK, Sweeps, Entries, ids, pane, typing, ghosts
<1>13. Guarded'
  <2>1. \A e \in Ids \ {d} : ~Exposed(receipts[e])
    BY <1>1 DEF IInv, Guarded, At
  <2>. QED BY <1>6, <1>8, <2>1 DEF Guarded
<1>14. Held'
  BY <1>6, <1>8, <1>11 DEF Held
<1>15. d \notin requeued => typed[d] = 0 /\ ~Calling(d)
  BY <1>1 DEF IInv, Once
<1>16. d < next' /\ next' = next
  BY <1>1 DEF IInv, TypeOK, Unallocated, Ids, ids
<1>17. (\A e \in Ids \ {d} : sub'[e] = sub[e]) /\ sub'[d] = "none"
  BY <1>1 DEF IInv, TypeOK
<1>18. Calling(d)' = Calling(d) /\ (d \in owner \/ retry[d] # "none" \/ Landed(d)' => typed[d] >= 1)
  BY <1>1, <1>17 DEF Calling, IInv, Marks, Landed
<1>19. Once' /\ Unallocated' /\ Marks'
  BY <1>1, <1>8, <1>9, <1>15, <1>16, <1>17, <1>18, OneDelivery DEF pane, typing, ghosts
<1>. QED BY <1>12, <1>13, <1>14, <1>19 DEF IInv

\* A restart leaves the rights the file grants, and no others.
LEMMA RestartKeeps ==
    ASSUME IInv, Restart
    PROVE  IInv'
<1>1. /\ UNCHANGED <<ids, elapsed, paused, alive, typing, arrived, ghosts, retries>>
      /\ crashes' = crashes + 1 /\ crashes < MaxCrashes
      /\ receipts' = [d \in Ids |-> Loaded(disk[d])] /\ Save
      /\ call' = [d \in Ids |-> "none"] /\ retry' = [d \in Ids |-> "none"] /\ sub' = [d \in Ids |-> "none"]
      /\ sweep' = Idle /\ owner' = {}
  BY DEF Restart
<1>2. ASSUME NEW d \in Ids
      PROVE  /\ receipts'[d] \in Entries
             /\ (receipts'[d] = NoReceipt) = (disk[d] = NoReceipt)
             /\ Submittable(receipts'[d]) => Submittable(disk[d])
             /\ ~Exposed(receipts'[d])
  <2>1. disk[d] \in Entries /\ receipts'[d] = Loaded(disk[d])
    BY <1>1 DEF IInv, TypeOK, Entries
  <2>. QED BY <2>1, LoadedReceipts
<1>3. receipts' \in [Ids -> Entries]
  BY <1>1, <1>2
<1>4. disk' \in {disk, receipts'} /\ disk' \in [Ids -> Entries] /\ saveFailures' \in 0..MaxSaveFailures
  BY <1>1, <1>3, Saved DEF IInv
<1>5. Idle \in Sweeps /\ ~Idle.mine /\ Idle.at = "idle"
  BY DeliveryAssumption DEF Idle, Sweeps
<1>6. TypeOK'
  <2>1. crashes' \in 0..MaxCrashes
    BY <1>1, DeliveryAssumption DEF IInv, TypeOK
  <2>. QED BY <1>1, <1>3, <1>4, <1>5, <2>1 DEF IInv, TypeOK, Sweeps, Entries, ids, ghosts, typing
<1>7. QuietStep
  <2>1. \A d \in Ids : d >= next => receipts'[d] = disk[d]
    BY <1>2 DEF IInv, Unallocated
  <2>. QED BY <1>1, <1>2, <1>4, <2>1 DEF QuietStep, ids, ghosts, typing, Calling
<1>8. Guarded' /\ Held'
  BY <1>1, <1>2, <1>5 DEF Guarded, Held
<1>. QED BY <1>6, <1>7, <1>8, QuietKeeps DEF IInv

-----------------------------------------------------------------------------
(* The invariant. *)

LEMMA InitIInv == Init => IInv
<1>. SUFFICES ASSUME Init PROVE IInv
  OBVIOUS
<1>1. /\ next = 1 /\ N \in Nat /\ N >= 1
      /\ \A d \in Ids :
            /\ receipts[d] = NoReceipt /\ disk[d] = NoReceipt /\ typed[d] = 0
            /\ call[d] = "none" /\ retry[d] = "none" /\ sub[d] = "none"
      /\ owner = {}
  BY DeliveryAssumption DEF Init
<1>2. Idle \in Sweeps /\ ~Idle.mine /\ Idle.at = "idle"
  BY DeliveryAssumption DEF Idle, Sweeps
<1>3. TypeOK
  <2>1. 1 \in 1..(N + 1) /\ 0 \in 0..MaxCrashes /\ 0 \in 0..MaxSaveFailures /\ 0 \in 0..MaxRetries
    BY DeliveryAssumption
  <2>2. receipts \in [Ids -> Receipts \cup {NoReceipt}] /\ disk \in [Ids -> Receipts \cup {NoReceipt}]
    BY DEF Init
  <2>3. /\ typed \in [Ids -> Nat] /\ copies \in [Ids -> Nat]
        /\ tries \in [Ids -> 0..ChunkAttempts]
    BY DeliveryAssumption DEF Init
  <2>. QED BY <1>2, <2>1, <2>2, <2>3 DEF Init, TypeOK, Sweeps
<1>4. Once /\ Unallocated /\ Marks /\ Guarded
  BY <1>1 DEF Once, Unallocated, Marks, Landed, Guarded, Submittable, Exposed, Calling
<1>5. Held
  BY <1>2 DEF Init, Held
<1>. QED BY <1>3, <1>4, <1>5 DEF IInv

LEMMA NextIInv == IInv /\ [Next]_vars => IInv'
<1>. SUFFICES ASSUME IInv, [Next]_vars PROVE IInv'
  OBVIOUS
<1>1. CASE UNCHANGED vars
  <2>1. /\ UNCHANGED <<next, text, origin, receipts, disk, call, retry, sub, sweep, elapsed,
                       owner, paused, alive, tries, typed, copies, arrived, requeued,
                       crashes, saveFailures, retries>>
    BY <1>1 DEF vars, ids, pane, typing, ghosts, counters
  <2>2. TypeOK'
    BY <2>1 DEF IInv, TypeOK
  <2>3. Once' /\ Unallocated' /\ Marks' /\ Guarded' /\ Held'
    BY <2>1 DEF IInv, Once, Calling, Unallocated, Marks, Landed, Guarded, At, Held
  <2>. QED BY <2>2, <2>3 DEF IInv
<1>2. CASE SweepStep
  <2>1. CASE StartSweep \/ EndSweep
    <3>1. 1 \in Ids
      BY DeliveryAssumption DEF Ids
    <3>. QED BY <2>1, <3>1, SweepMoves
  <2>2. CASE StartVerify
    BY <2>2, StartVerifyKeeps
  <2>3. CASE TicketFiled
    BY <2>3, VerdictsKeep
  <2>4. ASSUME NEW d \in Ids, DrainStep(d)
        PROVE  IInv'
    BY <2>4, SweepMoves, DrainPasses, DrainSubmitsKeeps, SubmissionEnds,
       SubmissionRefusedKeeps, RefusalKeeps DEF DrainStep
  <2>5. ASSUME NEW d \in Ids, VerifyStep(d)
        PROVE  IInv'
    BY <2>5, SweepMoves, VerdictsKeep, ObservationEnds DEF VerifyStep
  <2>. QED BY <1>2, <2>1, <2>2, <2>3, <2>4, <2>5 DEF SweepStep
<1>3. ASSUME NEW d \in Ids, SendTo(d)
      PROVE  IInv'
  BY <1>3, AllocationsKeep, CallsMove, QueueForPausedKeeps, TypingKeeps, CallsReturn DEF SendTo
<1>4. ASSUME NEW d \in Ids, PaneStep(d) \/ \E kind \in Deadlines : Elapses(d, kind)
      PROVE  IInv'
  <2>1. "age" \in Deadlines
    BY DEF Deadlines
  <2>. QED BY <1>4, <2>1, TypingKeeps, CallsMove, Surroundings DEF PaneStep
<1>5. CASE TogglePause \/ ToggleAlive
  <2>1. 1 \in Ids /\ "age" \in Deadlines
    BY DeliveryAssumption DEF Ids, Deadlines
  <2>. QED BY <1>5, <2>1, Surroundings
<1>6. CASE Restart
  BY <1>6, RestartKeeps
<1>. QED BY <1>1, <1>2, <1>3, <1>4, <1>5, <1>6 DEF Next

\* Type correctness of the delivery queue: the map in memory, the file and the
\* sweep's own view always hold values of their declared kinds.
THEOREM TypeCorrect == Spec => []TypeOK
<1>1. IInv => TypeOK
  BY DEF IInv
<1>. QED BY <1>1, InitIInv, NextIInv, PTL DEF Spec

-----------------------------------------------------------------------------
(* The copies a submission leaves. *)

\* While the chunk of d may be typed again, its copies are the attempts made.
Copies ==
    \A d \in Ids : d \notin requeued =>
        /\ copies[d] <= ChunkAttempts
        /\ typed[d] = 0 => copies[d] = 0
        /\ call[d] = "unanswered" \/ sub[d] = "unanswered" => copies[d] <= tries[d]

\* A step that types nothing, and does not reopen an attempt.
LEMMA NothingTypedKeeps ==
    ASSUME Copies, UNCHANGED typing, requeued \subseteq requeued',
           \A d \in Ids : /\ call'[d] = "unanswered" => call[d] = "unanswered"
                          /\ sub'[d] = "unanswered" => sub[d] = "unanswered"
    PROVE  Copies'
BY DEF Copies, typing

LEMMA TypingCounts ==
    ASSUME IInv, Copies, NEW d \in Ids, CallTypes(d) \/ SubmissionTypes(d)
    PROVE  Copies'
<1>1. PICK again \in BOOLEAN :
        /\ TextLands(d, again)
        /\ \/ /\ call[d] = (IF again THEN "unanswered" ELSE "sending") /\ sub' = sub
              /\ call' \in {[call EXCEPT ![d] = "typed"], [call EXCEPT ![d] = "unanswered"]}
           \/ /\ sub[d] = (IF again THEN "unanswered" ELSE "running") /\ call' = call
              /\ sub' \in {[sub EXCEPT ![d] = "typed"], [sub EXCEPT ![d] = "unanswered"]}
        /\ requeued' = requeued
  BY DEF CallTypes, SubmissionTypes, ghosts
<1>2. /\ again => tries[d] < ChunkAttempts
      /\ tries'[d] = (IF again THEN tries[d] + 1 ELSE 1)
      /\ typed'[d] = (IF again THEN typed[d] ELSE typed[d] + 1)
      /\ copies'[d] = copies[d] + 1
      /\ \A e \in Ids \ {d} : tries'[e] = tries[e] /\ typed'[e] = typed[e] /\ copies'[e] = copies[e]
  BY <1>1 DEF TextLands, IInv, TypeOK
<1>3. \A e \in Ids \ {d} : call'[e] = call[e] /\ sub'[e] = sub[e]
  BY <1>1 DEF IInv, TypeOK
<1>4. ASSUME d \notin requeued
      PROVE  /\ copies'[d] <= ChunkAttempts /\ typed'[d] # 0
             /\ copies'[d] <= tries'[d]
  <2>1. /\ tries[d] \in 0..ChunkAttempts /\ copies[d] \in Nat /\ typed[d] \in Nat
        /\ ChunkAttempts \in Nat /\ ChunkAttempts >= 1
    BY DeliveryAssumption DEF IInv, TypeOK
  <2>2. CASE again
    <3>1. call[d] = "unanswered" \/ sub[d] = "unanswered"
      BY <1>1, <2>2
    <3>2. copies[d] <= tries[d] /\ typed[d] >= 1
      BY <1>4, <3>1 DEF Copies, IInv, Marks, Landed
    <3>. QED BY <1>2, <2>1, <2>2, <3>2
  <2>3. CASE ~again
    <3>1. typed[d] = 0
      BY <1>1, <1>4, <2>3 DEF IInv, Once, Calling
    <3>. QED BY <1>2, <1>4, <2>1, <2>3, <3>1 DEF Copies
  <2>. QED BY <2>2, <2>3
<1>. QED BY <1>1, <1>2, <1>3, <1>4 DEF Copies

LEMMA NextCopies == IInv /\ Copies /\ [Next]_vars => Copies'
<1>. SUFFICES ASSUME IInv, Copies, [Next]_vars PROVE Copies'
  OBVIOUS
<1>. USE DEF pane, ghosts
<1>1. CASE UNCHANGED vars
  BY <1>1, NothingTypedKeeps DEF vars
<1>2. CASE SweepStep
  <2>1. CASE StartSweep \/ StartVerify \/ TicketFiled \/ EndSweep
    BY <2>1, NothingTypedKeeps DEF StartSweep, StartVerify, TicketFiled, EndSweep
  <2>2. ASSUME NEW d \in Ids, DrainStep(d)
        PROVE  Copies'
    <3>1. UNCHANGED <<typing, requeued, call>>
      BY <2>2 DEF DrainStep, DrainSkip, DrainTargetGone, DrainExpires, DrainRenews, DrainSubmits,
         DrainBoundaryFails, SubmissionReturns, SubmissionFails, SubmissionRefused, RefusalRecorded, Skip
    <3>2. sub' = sub \/ sub' \in {[sub EXCEPT ![d] = "none"], [sub EXCEPT ![d] = "running"]}
      BY <2>2 DEF DrainStep, DrainSkip, DrainTargetGone, DrainExpires, DrainRenews, DrainSubmits,
         DrainBoundaryFails, SubmissionReturns, SubmissionFails, SubmissionRefused, RefusalRecorded, Skip
    <3>3. \A e \in Ids : sub'[e] = "unanswered" => sub[e] = "unanswered"
      BY <3>2 DEF IInv, TypeOK
    <3>. QED BY <3>1, <3>3, NothingTypedKeeps
  <2>3. ASSUME NEW d \in Ids, VerifyStep(d)
        PROVE  Copies'
    BY <2>3, NothingTypedKeeps
       DEF VerifyStep, VerifySkip, VerifyObserves, ObservationUnsaved, VerifyDelivered, VerifyPending, Skip
  <2>. QED BY <1>2, <2>1, <2>2, <2>3 DEF SweepStep
<1>3. ASSUME NEW d \in Ids, SendTo(d)
      PROVE  Copies'
  <2>1. CASE CallTypes(d)
    BY <2>1, TypingCounts
  <2>2. CASE ~CallTypes(d)
    <3>1. UNCHANGED <<typing, sub>> /\ requeued \subseteq requeued'
      BY <1>3, <2>2 DEF SendTo, SendNew, QueueReport, QueueDelivery, RegisterExternal, SendOwnedRetry,
         QueueForPaused, Deliver, CallReturns, RetryReturns
    <3>2. \/ call' = call
          \/ call' \in {[call EXCEPT ![d] = "none"], [call EXCEPT ![d] = "accepted"],
                        [call EXCEPT ![d] = "sending"]}
      BY <1>3, <2>2 DEF SendTo, SendNew, QueueReport, RegisterExternal, SendOwnedRetry,
         QueueForPaused, Deliver, CallReturns, RetryReturns
    <3>3. \A e \in Ids : call'[e] = "unanswered" => call[e] = "unanswered"
      BY <3>2 DEF IInv, TypeOK
    <3>. QED BY <3>1, <3>3, NothingTypedKeeps
  <2>. QED BY <2>1, <2>2
<1>4. ASSUME NEW d \in Ids, PaneStep(d)
      PROVE  Copies'
  <2>1. CASE SubmissionTypes(d)
    BY <2>1, TypingCounts
  <2>2. CASE SubmissionAbandoned(d)
    BY <2>2, NothingTypedKeeps DEF SubmissionAbandoned, IInv, TypeOK
  <2>3. CASE Arrives(d)
    BY <2>3, NothingTypedKeeps DEF Arrives
  <2>. QED BY <1>4, <2>1, <2>2, <2>3 DEF PaneStep
<1>5. ASSUME NEW d \in Ids, NEW kind \in Deadlines, Elapses(d, kind)
      PROVE  Copies'
  BY <1>5, NothingTypedKeeps DEF Elapses
<1>6. CASE TogglePause \/ ToggleAlive
  BY <1>6, NothingTypedKeeps DEF TogglePause, ToggleAlive
<1>7. CASE Restart
  BY <1>7, NothingTypedKeeps DEF Restart
<1>. QED BY <1>1, <1>2, <1>3, <1>4, <1>5, <1>6, <1>7 DEF Next

\* At most one submission types a delivery, over any number of daemon deaths,
\* failed saves, refusals and timeouts, unless an owned retry was put back into
\* the queue; and it leaves no more copies than its chunk has attempts.
THEOREM NeverRetyped == Spec => []NoReplay
<1>1. IInv /\ Copies => NoReplay
  BY DEF IInv, Once, Copies, NoReplay
<1>2. Init => Copies
  BY DeliveryAssumption DEF Init, Copies
<1>. QED BY <1>1, <1>2, InitIInv, NextIInv, NextCopies, PTL DEF Spec

\* What the drain may still submit, or give up on, has never been typed.
THEOREM NothingTypedIsLost == Spec => []DrainableIsUntyped
<1>1. IInv => DrainableIsUntyped
  BY DEF IInv, Once, DrainableIsUntyped, Submittable
<1>. QED BY <1>1, InitIInv, NextIInv, PTL DEF Spec

-----------------------------------------------------------------------------
(* A receipt is settled, for good, or still in hand. *)

InHand(r) == ~r.terminal /\ r.verified = "null"

Sorted(r) == r # NoReceipt => r \in Settled \/ InHand(r)

\* What the sweep will mutate after its await is not settled: whoever settles
\* a receipt meanwhile takes it away from the sweep.
Lasting ==
    /\ \A d \in Ids : Sorted(receipts[d]) /\ Sorted(disk[d])
    /\ sweep.mine => ~receipts[sweep.cur].terminal

\* A settled receipt says so, and none of the open states is its.
LEMMA SettledIsTerminal ==
    /\ \A r \in Settled : r.terminal /\ r.st \in Final \cup {"typed"}
    /\ \A r : r # NoReceipt /\ Sorted(r) /\ ~r.terminal => InHand(r)
    /\ \A r : Sorted(r) /\ Confirmed(r) => r.terminal /\ r.verified = "true" /\ r # NoReceipt
<1>1. \A st, v : Settle(st, v).terminal /\ Settle(st, v).st = st
  BY DEF Settle, FreshReceipt
<1>2. \A r \in Settled : r.terminal /\ r.st \in Final \cup {"typed"}
  BY <1>1 DEF Settled
<1>3. \A r : r # NoReceipt /\ Sorted(r) /\ ~r.terminal => InHand(r)
  BY <1>2 DEF Sorted
<1>4. \A r : Sorted(r) /\ Confirmed(r) => r.terminal /\ r.verified = "true" /\ r # NoReceipt
  BY <1>2 DEF Sorted, Confirmed, InHand
<1>. QED BY <1>2, <1>3, <1>4

\* New receipts are in hand.
LEMMA NewInHand ==
    /\ \A st : InHand(FreshReceipt(st))
    /\ \A draft : InHand(PendingReceipt(draft))
    /\ \A st : InHand([FreshReceipt(st) EXCEPT !.started = TRUE, !.accepted = TRUE])
    /\ InHand([FreshReceipt("queued") EXCEPT !.started = TRUE, !.external = TRUE])
BY DEF InHand, FreshReceipt, PendingReceipt

\* The drain's and the verifier's bookkeeping settles a receipt in hand or
\* leaves it in hand.
LEMMA Bookkeeping ==
    ASSUME NEW r \in Receipts, InHand(r)
    PROVE  /\ \A q : InHand([r EXCEPT !.started = TRUE, !.qdeadline = q])
           /\ InHand([r EXCEPT !.qdeadline = FALSE])
           /\ InHand([r EXCEPT !.attention = TRUE])
           /\ InHand([r EXCEPT !.started = FALSE, !.draft = "none"])
           /\ \A n \in ScreenNoted(r) : InHand([n EXCEPT !.qdeadline = TRUE])
           /\ \A d \in Ids : \A x \in Submitted(d, r) : x \in Settled \/ InHand(x)
           /\ \A reason \in Reasons : \A shows, due :
                 \A x \in Undelivered(r, reason, shows, due) : x \in Settled \/ InHand(x)
<1>1. \A n \in ScreenNoted(r) : InHand([n EXCEPT !.qdeadline = TRUE])
  <2>1. ASSUME NEW n \in ScreenNoted(r)
        PROVE  \E k, a : n = r \/ n = [r EXCEPT !.unchanged = k, !.attention = a]
    BY DEF ScreenNoted
  <2>2. \A k, a : InHand([[r EXCEPT !.unchanged = k, !.attention = a] EXCEPT !.qdeadline = TRUE])
    BY DEF InHand, Receipts
  <2>3. InHand([r EXCEPT !.qdeadline = TRUE])
    BY DEF InHand, Receipts
  <2>. QED BY <2>1, <2>2, <2>3
<1>2. ASSUME NEW d \in Ids, NEW x \in Submitted(d, r)
      PROVE  x \in Settled \/ InHand(x)
  <2>1. \/ x \in {Settle("rescued", "false"), Settle("submitted", "null"), Settle("submitted", "true")}
        \/ \E st \in Queueing : x = [Progressed(r) EXCEPT !.st = st, !.accepted = TRUE]
        \/ \E draft \in {"typed", "dispatched"} :
              x = [Progressed(r) EXCEPT !.st = "pending_verify", !.draft = draft]
    BY DEF Submitted
  <2>2. {Settle("rescued", "false"), Settle("submitted", "null"), Settle("submitted", "true")} \subseteq Settled
    BY SettledOnes DEF Final
  <2>3. ASSUME NEW st \in Queueing, x = [Progressed(r) EXCEPT !.st = st, !.accepted = TRUE]
        PROVE  InHand(x)
    BY <2>3 DEF Progressed, InHand, Receipts
  <2>4. ASSUME NEW draft \in {"typed", "dispatched"},
               x = [Progressed(r) EXCEPT !.st = "pending_verify", !.draft = draft]
        PROVE  InHand(x)
    BY <2>4 DEF Progressed, InHand, Receipts
  <2>. QED BY <2>1, <2>2, <2>3, <2>4
<1>3. ASSUME NEW reason \in Reasons, NEW shows, NEW due, NEW x \in Undelivered(r, reason, shows, due)
      PROVE  x \in Settled \/ InHand(x)
  <2>. DEFINE o == Observed(r, reason, shows)
  <2>1. \E st, i, m : o = [r EXCEPT !.st = st, !.idle = i, !.misses = m]
    BY DEF Observed
  <2>2. DOMAIN o = DOMAIN r /\ InHand(o)
    <3>1. PICK st, i, m : o = [r EXCEPT !.st = st, !.idle = i, !.misses = m]
      BY <2>1
    <3>. HIDE DEF o
    <3>. QED BY <3>1 DEF InHand, Receipts
  <2>4. InHand([o EXCEPT !.st = "typed", !.attention = TRUE])
    <3>. HIDE DEF o
    <3>. QED BY <2>2 DEF InHand, Receipts
  <2>3. x \in Settled \/ x = o \/ x = [o EXCEPT !.st = "typed", !.attention = TRUE]
    BY SettledOnes DEF Undelivered, Final
  <2>. HIDE DEF o
  <2>. QED BY <2>2, <2>3, <2>4
<1>4. /\ \A q : InHand([r EXCEPT !.started = TRUE, !.qdeadline = q])
      /\ InHand([r EXCEPT !.qdeadline = FALSE])
      /\ InHand([r EXCEPT !.attention = TRUE])
      /\ InHand([r EXCEPT !.started = FALSE, !.draft = "none"])
  BY DEF InHand, Receipts
<1>. QED BY <1>1, <1>2, <1>3, <1>4

\* loadDeliveryReceipts settles a receipt or leaves it as it was.
LEMMA LoadedSorted ==
    ASSUME NEW r, Sorted(r)
    PROVE  Sorted(Loaded(r))
BY SettledOnes DEF Loaded, Sorted, Final

\* What a step of the sweep does to the receipts: each that changes was in hand.
SweepChange ==
    /\ \A e \in Ids : \/ receipts'[e] = receipts[e]
                      \/ /\ receipts[e] # NoReceipt /\ ~receipts[e].terminal
                         /\ Sorted(receipts'[e])
    /\ disk' \in {disk, receipts'}
    /\ sweep'.mine => ~receipts'[sweep'.cur].terminal

LEMMA OneChanges ==
    ASSUME IInv, NEW d \in Ids, NEW x,
           receipts' = [receipts EXCEPT ![d] = x],
           receipts[d] # NoReceipt, ~receipts[d].terminal, x \in Settled \/ InHand(x),
           disk' \in {disk, receipts'},
           sweep'.mine => sweep'.cur = d /\ InHand(x)
    PROVE  SweepChange
<1>1. receipts'[d] = x /\ \A e \in Ids \ {d} : receipts'[e] = receipts[e]
  BY DEF IInv, TypeOK
<1>2. Sorted(x)
  BY DEF Sorted
<1>3. InHand(x) => ~x.terminal
  BY DEF InHand
<1>. QED BY <1>1, <1>2, <1>3 DEF SweepChange

LEMMA NoneChanges ==
    ASSUME receipts' = receipts, disk' \in {disk, receipts'},
           sweep'.mine => ~receipts[sweep'.cur].terminal
    PROVE  SweepChange
BY DEF SweepChange

\* A save inside the loop, as far as these proofs need it.
LEMMA GoneOn ==
    ASSUME NEW to, SaveAndGo(to)
    PROVE  disk' \in {disk, receipts'} /\ (sweep'.mine => sweep' = to)
BY DEF SaveAndGo, SaveOk, SaveThrows, Idle

\* The sweep resumes after an await and writes only what is still its own.
LEMMA ResumeChanges ==
    ASSUME IInv, Lasting, NEW d \in Ids, NEW r, NEW to,
           Mutate(d, r), SaveAndGo(to), sweep.cur = d,
           to.mine => sweep.mine /\ to.cur = d /\ InHand(r),
           sweep.mine => r \in Settled \/ InHand(r)
    PROVE  SweepChange
<1>1. disk' \in {disk, receipts'} /\ (sweep'.mine => sweep' = to)
  BY GoneOn
<1>2. CASE sweep.mine
  <2>1. receipts[d] # NoReceipt /\ ~receipts[d].terminal
    BY <1>2 DEF IInv, Held, Lasting
  <2>2. receipts' = [receipts EXCEPT ![d] = r]
    BY <1>2 DEF Mutate
  <2>. QED BY <1>1, <1>2, <2>1, <2>2, OneChanges
<1>3. CASE ~sweep.mine
  <2>1. receipts' = receipts
    BY <1>3 DEF Mutate
  <2>. QED BY <1>1, <1>3, <2>1, NoneChanges
<1>. QED BY <1>2, <1>3

\* The steps of the sweep that write no receipt.
LEMMA LookingChanges ==
    ASSUME IInv, Lasting, NEW d \in Ids,
           \/ StartSweep \/ EndSweep \/ TicketFiled
           \/ DrainSkip(d) \/ VerifySkip(d) \/ VerifyObserves(d) \/ ObservationUnsaved(d)
    PROVE  SweepChange
<1>1. CASE StartSweep \/ EndSweep
  BY <1>1, NoneChanges DEF StartSweep, EndSweep, Idle
<1>2. CASE DrainSkip(d) \/ VerifySkip(d)
  <2>1. sweep' = [sweep EXCEPT !.cur = d, !.mine = FALSE] /\ UNCHANGED <<receipts, disk>>
    BY <1>2 DEF DrainSkip, VerifySkip, Skip
  <2>2. ~sweep'.mine
    BY <2>1 DEF IInv, TypeOK
  <2>. QED BY <2>1, <2>2, NoneChanges
<1>3. CASE VerifyObserves(d)
  <2>1. sweep'.cur = d /\ ~receipts[d].terminal /\ UNCHANGED <<receipts, disk>>
    BY <1>3 DEF VerifyObserves, Watching
  <2>. QED BY <2>1, NoneChanges
<1>4. CASE ObservationUnsaved(d)
  BY <1>4, NoneChanges DEF ObservationUnsaved, SaveThrows, Idle
<1>5. CASE TicketFiled
  <2>1. receipts' = receipts /\ SaveAndGo(NextInVerify)
    BY <1>5 DEF TicketFiled
  <2>2. ~NextInVerify.mine
    BY SweepGoesOn
  <2>. QED BY <2>1, <2>2, GoneOn, NoneChanges
<1>. QED BY <1>1, <1>2, <1>3, <1>4, <1>5

\* The drain gives a receipt up, renews it, or begins its submission: it was
\* queued, so it was in hand.
LEMMA DrainChanges ==
    ASSUME IInv, Lasting, NEW d \in Ids,
           \/ DrainTargetGone(d) \/ DrainExpires(d) \/ DrainRenews(d)
           \/ DrainBoundaryFails(d) \/ DrainSubmits(d)
    PROVE  SweepChange
<1>. DEFINE r == receipts[d]
            past == [sweep EXCEPT !.cur = d, !.mine = FALSE]
<1>1. r \in Receipts /\ r # NoReceipt /\ Drainable(r)
  BY DEF IInv, TypeOK, DrainTargetGone, DrainExpires, DrainRenews, DrainBoundaryFails, DrainSubmits,
         NextEntry, Known
<1>2. InHand(r)
  <2>1. r \in Settled => r.st # "queued"
    BY SettledIsTerminal DEF Final
  <2>. QED BY <1>1, <2>1 DEF Lasting, Sorted, Drainable
<1>3. ~r.terminal
  BY <1>2 DEF InHand
<1>4. ~past.mine
  BY DEF IInv, TypeOK
<1>5. CASE DrainTargetGone(d) \/ DrainExpires(d) \/ DrainRenews(d)
  <2>1. SaveAndGo(past)
    BY <1>5 DEF DrainTargetGone, DrainExpires, DrainRenews
  <2>2. PICK x \in {[r EXCEPT !.qdeadline = FALSE]} \cup Settled : receipts' = [receipts EXCEPT ![d] = x]
    BY <1>5, SettledOnes DEF DrainTargetGone, DrainExpires, DrainRenews, Final
  <2>3. InHand([r EXCEPT !.qdeadline = FALSE])
    BY <1>1, <1>2, Bookkeeping
  <2>. HIDE DEF past, r
  <2>4. disk' \in {disk, receipts'} /\ ~sweep'.mine
    BY <1>4, <2>1, GoneOn
  <2>. QED BY <1>1, <1>3, <2>2, <2>3, <2>4, OneChanges DEF r
<1>6. CASE DrainBoundaryFails(d)
  <2>1. /\ receipts' = [receipts EXCEPT ![d] = Settle("failed", "null")]
        /\ disk' = receipts' /\ sweep' = past
    BY <1>6 DEF DrainBoundaryFails
  <2>2. Settle("failed", "null") \in Settled
    BY SettledOnes DEF Final
  <2>. HIDE DEF past
  <2>. QED BY <1>1, <1>3, <1>4, <2>1, <2>2, OneChanges
<1>7. CASE DrainSubmits(d)
  <2>. DEFINE q == r.qdeadline /\ ~QueueDeadlinePassed(d)
              begun == [r EXCEPT !.started = TRUE, !.qdeadline = q]
  <2>1. receipts' = [receipts EXCEPT ![d] = begun] /\ disk' = receipts'
    <3>1. receipts' = [receipts EXCEPT ![d].started = TRUE, ![d].qdeadline = @ /\ ~QueueDeadlinePassed(d)]
      BY <1>7 DEF DrainSubmits, Boundary
    <3>2. receipts \in [Ids -> Entries]
      BY DEF IInv, TypeOK, Entries
    <3>3. disk' = receipts'
      BY <1>7 DEF DrainSubmits, Boundary, SaveOk
    <3>. QED BY <1>1, <3>1, <3>2, <3>3 DEF Receipts
  <2>2. InHand(begun)
    BY <1>1, <1>2, Bookkeeping
  <2>3. sweep'.cur = d
    BY <1>7 DEF IInv, TypeOK, DrainSubmits
  <2>. HIDE DEF begun
  <2>. QED BY <1>1, <1>3, <2>1, <2>2, <2>3, OneChanges
<1>. QED BY <1>5, <1>6, <1>7

\* The drain's submission ends, or its refusal is recorded.
LEMMA SubmissionChanges ==
    ASSUME IInv, Lasting, NEW d \in Ids,
           SubmissionReturns(d) \/ SubmissionFails(d) \/ SubmissionRefused(d) \/ RefusalRecorded(d)
    PROVE  SweepChange
<1>. DEFINE r == Mine(d)
            taken == [r EXCEPT !.started = FALSE, !.draft = "none"]
<1>1. sweep.cur = d
  BY DEF SubmissionReturns, SubmissionFails, SubmissionRefused, RefusalRecorded, At
<1>2. r \in Receipts /\ InHand(r)
  <2>1. r \in Receipts /\ r # NoReceipt
    BY <1>1, MineReceipts
  <2>2. CASE sweep.mine
    BY <1>1, <2>1, <2>2, MineReceipts, SettledIsTerminal DEF Lasting
  <2>3. CASE ~sweep.mine
    BY <1>1, <2>3, MineReceipts, NewInHand
  <2>. QED BY <2>1, <2>2, <2>3
<1>3. CASE SubmissionReturns(d) \/ SubmissionFails(d) \/ RefusalRecorded(d)
  <2>1. SaveAndGo(NextInDrain) /\ ~NextInDrain.mine
    BY <1>3, SweepGoesOn DEF SubmissionReturns, SubmissionFails, RefusalRecorded
  <2>2. \E x : Mutate(d, x) /\ (x \in Settled \/ InHand(x))
    <3>1. ASSUME SubmissionReturns(d)
          PROVE  \E x : Mutate(d, x) /\ (x \in Settled \/ InHand(x))
      <4>1. PICK x \in Submitted(d, r) : Mutate(d, x)
        BY <3>1 DEF SubmissionReturns
      <4>. HIDE DEF r
      <4>. QED BY <1>2, <4>1, Bookkeeping
    <3>2. ASSUME SubmissionFails(d)
          PROVE  \E x : Mutate(d, x) /\ (x \in Settled \/ InHand(x))
      BY <3>2, SettledOnes DEF SubmissionFails, Final
    <3>3. ASSUME RefusalRecorded(d)
          PROVE  \E x : Mutate(d, x) /\ (x \in Settled \/ InHand(x))
      <4>1. PICK n \in ScreenNoted(r) : Mutate(d, [n EXCEPT !.qdeadline = TRUE])
        BY <3>3 DEF RefusalRecorded
      <4>. HIDE DEF r
      <4>2. InHand([n EXCEPT !.qdeadline = TRUE])
        BY <1>2, <4>1, Bookkeeping
      <4>. DEFINE x == [n EXCEPT !.qdeadline = TRUE]
      <4>3. Mutate(d, x) /\ InHand(x)
        BY <4>1, <4>2
      <4>. HIDE DEF x
      <4>. QED BY <4>3
    <3>. QED BY <1>3, <3>1, <3>2, <3>3
  <2>. QED BY <1>1, <2>1, <2>2, ResumeChanges
<1>4. CASE SubmissionRefused(d)
  <2>. DEFINE to == [sweep EXCEPT !.at = "screen"]
  <2>1. Mutate(d, taken) /\ SaveAndGo(to)
    BY <1>4 DEF SubmissionRefused
  <2>2. InHand(taken)
    BY <1>2, Bookkeeping
  <2>3. to.mine = sweep.mine /\ to.cur = d
    BY <1>1 DEF IInv, TypeOK
  <2>. HIDE DEF taken, to
  <2>. QED BY <1>1, <2>1, <2>2, <2>3, ResumeChanges
<1>. QED BY <1>3, <1>4

\* A look at the target ends.
LEMMA ObservationChanges ==
    ASSUME IInv, Lasting, NEW d \in Ids, VerifyDelivered(d) \/ VerifyPending(d)
    PROVE  SweepChange
<1>1. sweep.cur = d
  BY DEF VerifyDelivered, VerifyPending, At
<1>2. CASE VerifyDelivered(d)
  <2>1. Mutate(d, Settle("submitted", "true")) /\ SaveAndGo(NextInVerify)
    BY <1>2 DEF VerifyDelivered
  <2>2. Settle("submitted", "true") \in Settled /\ ~NextInVerify.mine
    BY SettledOnes, SweepGoesOn DEF Final
  <2>. QED BY <1>1, <2>1, <2>2, ResumeChanges
<1>3. CASE VerifyPending(d) /\ ~sweep.mine
  <2>1. receipts' = receipts /\ SaveAndGo(NextInVerify)
    BY <1>3 DEF VerifyPending
  <2>2. ~NextInVerify.mine
    BY SweepGoesOn
  <2>. QED BY <2>1, <2>2, GoneOn, NoneChanges
<1>4. CASE VerifyPending(d) /\ sweep.mine
  <2>1. receipts[d] \in Receipts /\ InHand(receipts[d])
    BY <1>1, <1>4, SettledIsTerminal DEF IInv, TypeOK, Held, Lasting
  <2>2. PICK reason \in Reasons, shows \in {"none", "queued", "steer_pending"} :
          \E r \in Undelivered(receipts[d], reason, shows, sweep.due) :
             /\ receipts' = [receipts EXCEPT ![d] = r]
             /\ SaveAndGo(IF Files(r, reason) THEN [NextInVerify EXCEPT !.at = "filing"]
                          ELSE NextInVerify)
    BY <1>4 DEF VerifyPending
  <2>3. PICK x \in Undelivered(receipts[d], reason, shows, sweep.due) :
          /\ receipts' = [receipts EXCEPT ![d] = x]
          /\ SaveAndGo(IF Files(x, reason) THEN [NextInVerify EXCEPT !.at = "filing"]
                       ELSE NextInVerify)
    BY <2>2
  <2>4. x \in Settled \/ InHand(x)
    BY <2>1, <2>3, Bookkeeping
  <2>5. Mutate(d, x)
    BY <1>4, <2>3 DEF Mutate
  <2>6. PICK to \in {NextInVerify, [NextInVerify EXCEPT !.at = "filing"]} : SaveAndGo(to)
    BY <2>3
  <2>. QED BY <1>1, <2>4, <2>5, <2>6, SweepGoesOn, ResumeChanges
<1>. QED BY <1>2, <1>3, <1>4

\* Marking what is stale leaves it in hand.
LEMMA MarkingChanges ==
    ASSUME IInv, Lasting, StartVerify
    PROVE  SweepChange
<1>1. PICK marked \in SUBSET Stale :
        receipts' = [d \in Ids |->
            IF d \in marked THEN [receipts[d] EXCEPT !.attention = TRUE] ELSE receipts[d]]
  BY DEF StartVerify
<1>2. disk' \in {disk, receipts'}
  BY DEF StartVerify, SaveOk, SaveThrows
<1>3. ~sweep'.mine
  BY DEF StartVerify, Idle
<1>4. ASSUME NEW e \in Ids, e \in marked
      PROVE  /\ receipts[e] # NoReceipt /\ ~receipts[e].terminal
             /\ Sorted(receipts'[e])
  <2>1. receipts[e] # NoReceipt /\ ~receipts[e].terminal /\ receipts[e] \in Receipts
    BY <1>4 DEF Stale, Known, IInv, TypeOK
  <2>2. InHand(receipts[e])
    BY <2>1, SettledIsTerminal DEF Lasting
  <2>3. receipts'[e] = [receipts[e] EXCEPT !.attention = TRUE]
    BY <1>1, <1>4
  <2>. QED BY <2>1, <2>2, <2>3, Bookkeeping DEF Sorted
<1>5. \A e \in Ids \ marked : receipts'[e] = receipts[e]
  BY <1>1
<1>. QED BY <1>2, <1>3, <1>4, <1>5 DEF SweepChange

LEMMA SweepStepChanges ==
    ASSUME IInv, Lasting, SweepStep
    PROVE  SweepChange
<1>1. CASE StartSweep \/ TicketFiled \/ EndSweep
  <2>1. 1 \in Ids
    BY DeliveryAssumption DEF Ids
  <2>. QED BY <1>1, <2>1, LookingChanges
<1>2. CASE StartVerify
  BY <1>2, MarkingChanges
<1>3. ASSUME NEW d \in Ids, DrainStep(d)
      PROVE  SweepChange
  BY <1>3, LookingChanges, DrainChanges, SubmissionChanges DEF DrainStep
<1>4. ASSUME NEW d \in Ids, VerifyStep(d)
      PROVE  SweepChange
  BY <1>4, LookingChanges, ObservationChanges DEF VerifyStep
<1>. QED BY <1>1, <1>2, <1>3, <1>4 DEF SweepStep

\* A call that returns, or a new one, replaces an entry of the map: by one in
\* hand, one settled, or none; and nothing confirmed by one still to verify.
Replaces(d) ==
    \E x : /\ Replace(d, x)
           /\ x = NoReceipt \/ x \in Settled \/ InHand(x)
           /\ Confirmed(receipts[d]) /\ x # NoReceipt => x.st # "pending_verify"
           /\ disk' \in {disk, receipts'}

Leaves == UNCHANGED <<receipts, sweep>> /\ disk' \in {disk, receipts'}

LEMMA ReplacedBy ==
    ASSUME NEW d \in Ids, NEW x, Replace(d, x), SaveOk \/ SaveThrows,
           x = NoReceipt \/ x \in Settled \/ (InHand(x) /\ x.st # "pending_verify")
    PROVE  Replaces(d)
<1>1. disk' \in {disk, receipts'}
  BY DEF SaveOk, SaveThrows
<1>2. x \in Settled => x.st # "pending_verify"
  BY SettledIsTerminal DEF Final
<1>. QED BY <1>1, <1>2 DEF Replaces

\* acceptPendingVerify passes over what is confirmed.
LEMMA PendingReplaces ==
    ASSUME Lasting, NEW d \in Ids, NEW draft, AcceptPendingVerify(d, draft)
    PROVE  Leaves \/ Replaces(d)
<1>1. CASE AlreadyConfirmed(d)
  BY <1>1 DEF AcceptPendingVerify, Leaves
<1>2. CASE ~AlreadyConfirmed(d)
  <2>1. ~Confirmed(receipts[d])
    BY <1>2, SettledIsTerminal DEF Lasting, AlreadyConfirmed
  <2>2. Replace(d, PendingReceipt(draft)) /\ disk' \in {disk, receipts'}
    BY <1>2 DEF AcceptPendingVerify, Save, SaveOk, SaveThrows
  <2>. QED BY <2>1, <2>2, NewInHand DEF Replaces
<1>. QED BY <1>1, <1>2

LEMMA QueueReplaces ==
    ASSUME NEW d \in Ids, QueueDelivery(d)
    PROVE  Replaces(d)
<1>1. FreshReceipt("queued").st = "queued"
  BY DEF FreshReceipt
<1>. QED BY <1>1, NewInHand, ReplacedBy DEF QueueDelivery

LEMMA ResultReplaces ==
    ASSUME Lasting, NEW d \in Ids, CallResult(d) \/ ResolveDelivery(d, "failed", "null")
    PROVE  Leaves \/ Replaces(d)
<1>1. ASSUME AcceptComposerQueue(d)
      PROVE  Replaces(d)
  <2>. DEFINE held(st) == [FreshReceipt(st) EXCEPT !.started = TRUE, !.accepted = TRUE]
  <2>1. \A st : held(st).st = st /\ InHand(held(st))
    BY NewInHand DEF FreshReceipt
  <2>2. PICK st \in Queueing : \/ Replace(d, held(st)) /\ SaveOk
                               \/ Replace(d, NoReceipt) /\ SaveThrows
    BY <1>1 DEF AcceptComposerQueue
  <2>3. st # "pending_verify"
    BY DEF Queueing
  <2>. HIDE DEF held
  <2>. QED BY <2>1, <2>2, <2>3, ReplacedBy
<1>2. \A st \in Final \cup {"typed"}, v \in {"null", "true", "false"} :
         ResolveDelivery(d, st, v) => Replaces(d)
  BY SettledOnes, ReplacedBy DEF ResolveDelivery, Save
<1>. QED BY <1>1, <1>2, PendingReplaces DEF CallResult, Final

\* Whatever a caller, the pane, typing, a human or the clock does.
LEMMA OthersChange ==
    ASSUME Lasting, NEW d \in Ids, SendTo(d) \/ PaneStep(d) \/ \E kind \in Deadlines : Elapses(d, kind)
    PROVE  Leaves \/ Replaces(d)
<1>1. CASE SendNew(d)
  BY <1>1, PendingReplaces DEF SendNew
<1>2. CASE QueueReport(d) \/ QueueForPaused(d)
  BY <1>2, QueueReplaces DEF QueueReport, QueueForPaused
<1>3. CASE RegisterExternal(d)
  <2>. DEFINE external == [FreshReceipt("queued") EXCEPT !.started = TRUE, !.external = TRUE]
  <2>1. external.st = "queued" /\ InHand(external)
    BY NewInHand DEF FreshReceipt
  <2>2. \/ Replace(d, external) /\ SaveOk
        \/ Replace(d, NoReceipt) /\ SaveThrows
    BY <1>3 DEF RegisterExternal
  <2>. HIDE DEF external
  <2>. QED BY <2>1, <2>2, ReplacedBy
<1>4. CASE CallReturns(d)
  BY <1>4, ResultReplaces DEF CallReturns
<1>5. CASE RetryReturns(d)
  BY <1>5, ResultReplaces DEF RetryReturns, Leaves
<1>6. CASE SendOwnedRetry(d) \/ Deliver(d) \/ CallTypes(d)
  BY <1>6 DEF SendOwnedRetry, Deliver, CallTypes, Leaves
<1>7. CASE PaneStep(d) \/ \E kind \in Deadlines : Elapses(d, kind)
  BY <1>7 DEF PaneStep, SubmissionTypes, SubmissionAbandoned, Arrives, Elapses, Leaves
<1>. QED BY <1>1, <1>2, <1>3, <1>4, <1>5, <1>6, <1>7 DEF SendTo

\* What a caller sets the entry to, it takes from the sweep.
LEMMA ReplacesKeeps ==
    ASSUME IInv, Lasting, NEW d \in Ids, Replaces(d)
    PROVE  Lasting'
<1>1. PICK x : /\ Replace(d, x)
               /\ x = NoReceipt \/ x \in Settled \/ InHand(x)
               /\ disk' \in {disk, receipts'}
  BY DEF Replaces
<1>2. receipts'[d] = x /\ \A e \in Ids \ {d} : receipts'[e] = receipts[e]
  BY <1>1 DEF Replace, IInv, TypeOK
<1>3. \A e \in Ids : Sorted(receipts'[e]) /\ Sorted(disk'[e])
  <2>1. \A e \in Ids : Sorted(receipts'[e])
    BY <1>1, <1>2 DEF Lasting, Sorted
  <2>. QED BY <1>1, <2>1 DEF Lasting
<1>4. sweep'.mine => sweep.mine /\ sweep' = sweep /\ sweep.cur # d
  BY <1>1 DEF Replace, IInv, TypeOK
<1>5. sweep'.mine => ~receipts'[sweep'.cur].terminal
  BY <1>2, <1>4 DEF Lasting, IInv, Held
<1>. QED BY <1>3, <1>5 DEF Lasting

LEMMA InitLasting == Init => Lasting
BY DEF Init, Lasting, Sorted, Idle

LEMMA NextLasting ==
    ASSUME IInv, Lasting, [Next]_vars
    PROVE  Lasting'
<1>1. CASE UNCHANGED vars
  BY <1>1 DEF vars, Lasting
<1>2. CASE SweepStep
  <2>1. SweepChange
    BY <1>2, SweepStepChanges
  <2>2. \A e \in Ids : Sorted(receipts'[e])
    BY <2>1 DEF SweepChange, Lasting
  <2>. QED BY <2>1, <2>2 DEF SweepChange, Lasting
<1>3. ASSUME NEW d \in Ids, SendTo(d) \/ PaneStep(d) \/ \E kind \in Deadlines : Elapses(d, kind)
      PROVE  Lasting'
  <2>1. CASE Leaves
    BY <2>1 DEF Leaves, Lasting
  <2>. QED BY <1>3, <2>1, OthersChange, ReplacesKeeps
<1>4. CASE TogglePause \/ ToggleAlive
  BY <1>4 DEF TogglePause, ToggleAlive, Lasting
<1>5. CASE Restart
  <2>1. \A e \in Ids : Sorted(receipts'[e])
    BY <1>5, LoadedSorted DEF Restart, Lasting
  <2>2. disk' \in {disk, receipts'} /\ ~sweep'.mine
    BY <1>5 DEF Restart, Save, SaveOk, SaveThrows, Idle
  <2>. QED BY <2>1, <2>2 DEF Lasting
<1>. QED BY <1>1, <1>2, <1>3, <1>4, <1>5 DEF Next

\* The sweep, which resumes after each await with an object a caller may have
\* replaced meanwhile, never changes a settled receipt.
THEOREM SettledBySomeoneElse == Spec => SweepKeepsTerminal
<1>1. ASSUME IInv, Lasting, [Next]_vars
      PROVE  [SweepStep => \A d \in Known : receipts[d].terminal => receipts'[d] = receipts[d]]_vars
  BY <1>1, SweepStepChanges DEF SweepChange, Known
<1>. QED BY <1>1, InitIInv, NextIInv, InitLasting, NextLasting, PTL DEF Spec, SweepKeepsTerminal

\* A confirmed delivery stays out of pending_verify for as long as the daemon
\* lives, in whatever order its own call and the verifier come to an end.
THEOREM ConfirmedForGood == Spec => ConfirmedNotPending
<1>1. ASSUME IInv, Lasting, Next, crashes' = crashes,
             NEW d \in Ids, Confirmed(receipts[d]), receipts'[d] # NoReceipt
      PROVE  receipts'[d].st # "pending_verify"
  <2>1. receipts[d].terminal /\ receipts[d].st # "pending_verify"
    BY <1>1, SettledIsTerminal DEF Lasting, Confirmed
  <2>2. CASE SweepStep
    BY <1>1, <2>1, <2>2, SweepStepChanges DEF SweepChange
  <2>3. ASSUME NEW e \in Ids, SendTo(e) \/ PaneStep(e) \/ \E kind \in Deadlines : Elapses(e, kind)
        PROVE  receipts'[d].st # "pending_verify"
    <3>1. CASE Leaves
      BY <2>1, <3>1 DEF Leaves
    <3>2. CASE Replaces(e)
      <4>1. PICK x : /\ Replace(e, x)
                     /\ Confirmed(receipts[e]) /\ x # NoReceipt => x.st # "pending_verify"
        BY <3>2 DEF Replaces
      <4>2. receipts'[e] = x /\ \A f \in Ids \ {e} : receipts'[f] = receipts[f]
        BY <1>1, <4>1 DEF Replace, IInv, TypeOK
      <4>. QED BY <1>1, <2>1, <4>1, <4>2
    <3>. QED BY <1>1, <2>3, <3>1, <3>2, OthersChange
  <2>4. CASE TogglePause \/ ToggleAlive
    BY <2>1, <2>4 DEF TogglePause, ToggleAlive
  <2>5. ~Restart
    BY <1>1 DEF Restart, IInv, TypeOK
  <2>. QED BY <1>1, <2>2, <2>3, <2>4, <2>5 DEF Next
<1>2. ASSUME IInv, Lasting, [Next]_vars
      PROVE  [crashes' = crashes =>
                \A d \in Ids : Confirmed(receipts[d]) /\ receipts'[d] # NoReceipt
                                  => receipts'[d].st # "pending_verify"]_vars
  BY <1>1, <1>2
<1>. QED BY <1>2, InitIInv, NextIInv, InitLasting, NextLasting, PTL DEF Spec, ConfirmedNotPending
=============================================================================
