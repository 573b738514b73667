-------------------------- MODULE AgentLifeProofs --------------------------
(***************************************************************************)
(* Proofs about AgentLife, for every number of panes, calls and faults: a  *)
(* record that is creating has a resume to attend it, a row that can be    *)
(* resumed is deleted by list_agents at most, the registry's passes leave  *)
(* a live pane's agent alone, and no session runs in two CLIs.             *)
(*                                                                         *)
(* The passes of a sweep are functions of a row: what each preserves of it *)
(* is one lemma (Passed), and a sweep is their composition.  That a miss   *)
(* cannot confirm a live pane rests on a fact about listings: a pane that  *)
(* was missed before the listing was made, and is open, is in it (Listed). *)
(* That a session runs once rests on what a recorded pid proves of every   *)
(* pane (Rules), and on the proof of absence lasting until the command is  *)
(* typed (ProofHolds); nearly every step is one that disturbs none of it   *)
(* (Quiet).                                                                *)
(***************************************************************************)
EXTENDS AgentLife, FiniteSetTheorems, TLAPS

Records == [st : {"absent", "creating", "booting", "active", "done", "error"},
            pane : 0..N, pid : 0..N, killed : BOOLEAN, sess : BOOLEAN,
            err : {"none", "crash", "stuck"}, aged : BOOLEAN]
IsRecord(r) == r \in Records /\ (r.st # "absent" \/ r = NoRec)

Active(r) == r.st \in {"creating", "booting", "active"}

IsRow(x) ==
    /\ x = Row(x.rec, x.obs, x.ripe)
    /\ IsRecord(x.rec) /\ x.obs \in 0..N /\ x.ripe \in BOOLEAN

-----------------------------------------------------------------------------
(* The record. *)

LEMMA Bounds ==
    /\ N \in Nat /\ MaxFaults \in Nat /\ 0 \in 0..MaxFaults
    /\ 0 \in 0..N /\ 1 \in 0..N /\ 1 \in Panes /\ Panes \subseteq 0..N
  BY LifeAssumption DEF Panes

LEMMA NoRecIsRecord == IsRecord(NoRec)
  BY Bounds DEF IsRecord, Records, NoRec

\* A transition keeps the pane and the session, leaves "creating" only for
\* booting or a failure, and never ages a row or makes it absent.
LEMMA MovedRecord ==
    ASSUME NEW r, IsRecord(r), NEW to \in {"booting", "active", "done", "error"},
           NEW err \in {"none", "crash", "stuck"}
    PROVE  /\ IsRecord(Moved(r, to, err))
           /\ Moved(r, to, err).pane = r.pane /\ Moved(r, to, err).sess = r.sess
           /\ Moved(r, to, err).pid = r.pid
           /\ Moved(r, to, err).st = "creating" => r.st = "creating" /\ to # "error"
           /\ Moved(r, to, err).st = "absent" <=> r.st = "absent"
           /\ Terminal(Moved(r, to, err)) /\ Moved(r, to, err).aged => Terminal(r) /\ r.aged
  <1>1. CASE ~CanMove(r.st, to)
    BY <1>1 DEF Moved, CanMove, IsRecord, Records
  <1>2. CASE CanMove(r.st, to)
    <2> DEFINE m == [r EXCEPT !.st = to, !.aged = FALSE,
                              !.err = IF to = "error" THEN err ELSE @]
    <2>1. Moved(r, to, err) = m
      BY <1>2 DEF Moved
    <2>2. m \in Records /\ m.st = to /\ m.aged = FALSE
      BY DEF IsRecord, Records
    <2>3. m.pane = r.pane /\ m.sess = r.sess /\ m.pid = r.pid
      BY DEF IsRecord, Records
    <2>4. r.st # "absent"
      BY <1>2 DEF CanMove
    <2> QED
      BY <2>1, <2>2, <2>3, <2>4 DEF IsRecord
  <1> QED
    BY <1>1, <1>2

-----------------------------------------------------------------------------
(* The passes of the sweep. *)

\* A session whose row may not be deleted yet.
Guarded(r) == r.st # "absent" /\ r.sess /\ ~(Terminal(r) /\ r.aged)

\* What a pass preserves of a row.
Passed(x, z) ==
    /\ IsRow(z)
    /\ z.rec.pane \in {0, x.rec.pane} /\ z.obs \in {0, x.obs, x.rec.pane}
    /\ z.rec.pid \in {0, x.rec.pid} /\ (z.rec.sess => x.rec.sess)
    /\ Active(z.rec) => z.rec = x.rec
    /\ Guarded(x.rec) => Guarded(z.rec)

LEMMA PassedTwice ==
    ASSUME NEW x, NEW y, NEW z, Passed(x, y), Passed(y, z)
    PROVE  Passed(x, z)
  BY DEF Passed

LEMMA RowFields ==
    ASSUME NEW r, NEW o, NEW b \in BOOLEAN
    PROVE  /\ Row(r, o, b).rec = r /\ Row(r, o, b).obs = o /\ Row(r, o, b).ripe = b
           /\ IsRecord(r) /\ o \in 0..N => IsRow(Row(r, o, b))
  BY DEF Row, IsRow

LEMMA RecordPane ==
    ASSUME NEW r, IsRecord(r)
    PROVE  r.pane \in 0..N /\ 0 \in 0..N
  BY Bounds DEF IsRecord, Records

LEMMA SeenPasses ==
    ASSUME NEW x, IsRow(x)
    PROVE  Passed(x, Seen(x)) /\ Passed(x, x) /\ Passed(x, Missed(x))
  <1>1. IsRecord(x.rec) /\ x.rec.pane \in 0..N /\ 0 \in 0..N
    BY RecordPane DEF IsRow
  <1>2. Passed(x, Seen(x))
    <2>1. IsRow(Seen(x)) /\ Seen(x).rec = x.rec /\ Seen(x).obs = 0
      BY <1>1 DEF Seen, Row, IsRow
    <2> QED
      BY <2>1 DEF Passed
  <1>3. Passed(x, x)
    BY DEF Passed
  <1>4. CASE x.obs # x.rec.pane
    <2>1. /\ IsRow(Missed(x)) /\ Missed(x).rec = x.rec /\ Missed(x).obs = x.rec.pane
      BY <1>1, <1>4 DEF Missed, Row, IsRow
    <2> QED
      BY <1>2, <1>3, <2>1 DEF Passed
  <1> QED
    BY <1>2, <1>3, <1>4 DEF Missed

LEMMA NoticedPasses ==
    ASSUME NEW x, IsRow(x), NEW listed
    PROVE  Passed(x, Noticed(x, listed))
  BY SeenPasses DEF Noticed

LEMMA UnboundPasses ==
    ASSUME NEW x, IsRow(x), Terminal(x.rec), NEW listed
    PROVE  Passed(x, Unbound(x, listed))
  <1>1. CASE x.rec.pane \in listed
    BY <1>1, SeenPasses DEF Unbound
  <1>2. CASE x.rec.pane \notin listed
    <2> DEFINE u == [x.rec EXCEPT !.pane = 0]
    <2>1. /\ IsRecord(u) /\ u.pane = 0 /\ u.st = x.rec.st /\ u.sess = x.rec.sess
          /\ u.aged = x.rec.aged /\ u.pid = x.rec.pid
      BY Bounds DEF IsRow, IsRecord, Records, Terminal, NoRec
    <2>2. ~Active(u)
      BY <2>1 DEF Terminal, Active
    <2> HIDE DEF u
    <2>3. Unbound(x, listed) = Row(u, 0, FALSE)
      BY <1>2 DEF Unbound, Seen, Row, u
    <2>4. /\ IsRow(Row(u, 0, FALSE)) /\ Row(u, 0, FALSE).rec = u /\ Row(u, 0, FALSE).obs = 0
      BY <2>1, RecordPane DEF Row, IsRow
    <2>5. Passed(x, Row(u, 0, FALSE))
      BY <2>1, <2>2, <2>4 DEF Passed, Guarded, Terminal
    <2> QED
      BY <2>3, <2>5
  <1> QED
    BY <1>1, <1>2

LEMMA DeletedPasses ==
    ASSUME NEW x, IsRow(x), ~Guarded(x.rec)
    PROVE  Passed(x, Deleted)
  <1>1. IsRow(Deleted) /\ Deleted.rec = NoRec /\ Deleted.obs = 0
    BY NoRecIsRecord, RecordPane DEF Deleted, Row, IsRow
  <1>2. NoRec.pane = 0 /\ NoRec.pid = 0 /\ ~NoRec.sess /\ ~Active(NoRec)
    BY DEF NoRec, Active
  <1> QED
    BY <1>1, <1>2 DEF Passed

\* After the reconciliation, a row that is gone and unattended is finished, or
\* its miss is not confirmed.
LEMMA ReconciledPasses ==
    ASSUME NEW x, IsRow(x), NEW listed, NEW gone \in BOOLEAN,
           NEW z, z = Reconciled(x, listed, gone)
    PROVE  /\ Passed(x, z)
           /\ gone /\ ~Attended(z, listed) /\ z.rec.st # "absent" /\ Confirmed(z)
                => Terminal(z.rec)
  <1>1. CASE Attended(x, listed)
    <2>1. z = Seen(x)
      BY <1>1 DEF Reconciled
    <2>2. z.rec = x.rec
      BY <2>1 DEF Seen, Row
    <2>3. Attended(z, listed)
      BY <1>1, <2>2 DEF Attended
    <2> QED
      BY <2>1, <2>3, SeenPasses
  <1>2. CASE ~Attended(x, listed) /\ Terminal(x.rec)
    <2>1. z = x
      BY <1>2 DEF Reconciled
    <2> QED
      BY <1>2, <2>1, SeenPasses
  <1>3. CASE ~Attended(x, listed) /\ ~Terminal(x.rec) /\ ~gone
    <2>1. z = Seen(x)
      BY <1>3 DEF Reconciled
    <2> QED
      BY <1>3, <2>1, SeenPasses
  <1>4. CASE ~Attended(x, listed) /\ ~Terminal(x.rec) /\ gone /\ Confirmed(x)
    <2>1. z = [x EXCEPT !.rec = Moved(x.rec, "error", "crash")]
      BY <1>4 DEF Reconciled
    <2>2. z = Row(Moved(x.rec, "error", "crash"), x.obs, x.ripe)
      BY <2>1 DEF IsRow, Row
    <2>3. x.rec.st # "absent" => Terminal(Moved(x.rec, "error", "crash"))
      BY <1>4 DEF Moved, CanMove, Terminal, IsRow, IsRecord, Records
    <2>4. /\ IsRecord(z.rec) /\ z.rec.pane = x.rec.pane /\ z.rec.sess = x.rec.sess
          /\ z.rec.pid = x.rec.pid /\ (z.rec.st = "absent" <=> x.rec.st = "absent")
          /\ Guarded(x.rec) => Guarded(z.rec)
          /\ z.obs = x.obs /\ z.ripe = x.ripe /\ z.rec = Moved(x.rec, "error", "crash")
      BY <2>2, MovedRecord, RowFields DEF IsRow, Guarded
    <2>5. IsRow(z)
      BY <2>2, <2>4, RowFields DEF IsRow
    <2>6. /\ z.rec.pane \in {0, x.rec.pane} /\ z.obs \in {0, x.obs, x.rec.pane}
          /\ z.rec.pid \in {0, x.rec.pid} /\ (z.rec.sess => x.rec.sess)
          /\ Guarded(x.rec) => Guarded(z.rec)
      BY <2>4
    <2>7. Active(z.rec) => z.rec = x.rec
      BY <2>3, <2>4 DEF Active, Terminal
    <2>8. Passed(x, z)
      BY <2>5, <2>6, <2>7 DEF Passed
    <2> QED
      BY <2>3, <2>4, <2>8
  <1>5. CASE ~Attended(x, listed) /\ ~Terminal(x.rec) /\ gone /\ ~Confirmed(x)
    <2>1. z = Missed(x)
      BY <1>5 DEF Reconciled
    <2>2. CASE x.obs = x.rec.pane
      BY <1>5, <2>1, <2>2, SeenPasses DEF Missed
    <2>3. CASE x.obs # x.rec.pane
      <3>1. z.ripe = FALSE
        BY <2>1, <2>3 DEF Missed, Row
      <3> QED
        BY <2>1, <3>1, SeenPasses DEF Confirmed
    <2> QED
      BY <2>2, <2>3
  <1> QED
    BY <1>1, <1>2, <1>3, <1>4, <1>5

LEMMA EvictedPasses ==
    ASSUME NEW x, IsRow(x), NEW listed, NEW gone \in BOOLEAN,
           gone /\ ~Attended(x, listed) /\ x.rec.st # "absent" /\ Confirmed(x) => Terminal(x.rec),
           NEW z, z = Evicted(x, listed, gone)
    PROVE  Passed(x, z)
  <1>1. CASE ~gone
    BY <1>1, SeenPasses DEF Evicted
  <1>2. CASE gone /\ Retained(x.rec)
    <2>1. z = Unbound(x, listed)
      BY <1>2 DEF Evicted
    <2> QED
      BY <1>2, <2>1, UnboundPasses DEF Retained
  <1>3. CASE gone /\ ~Retained(x.rec) /\ Expired(x.rec)
    <2>1. z = Deleted
      BY <1>3 DEF Evicted
    <2> QED
      BY <1>3, <2>1, DeletedPasses DEF Expired, Guarded
  <1>4. CASE gone /\ ~Retained(x.rec) /\ ~Expired(x.rec) /\ Attended(x, listed)
    <2>1. z = Seen(x)
      BY <1>4 DEF Evicted
    <2> QED
      BY <2>1, SeenPasses
  <1>5. CASE gone /\ ~Retained(x.rec) /\ ~Expired(x.rec) /\ ~Attended(x, listed)
    <2>1. z = IF ~Confirmed(x) THEN Missed(x) ELSE IF Tombstone(x.rec) THEN x ELSE Deleted
      BY <1>5 DEF Evicted
    <2>2. Confirmed(x) => ~Guarded(x.rec)
      BY <1>5 DEF Guarded, Retained, IsRow, IsRecord, Records
    <2> QED
      BY <2>1, <2>2, SeenPasses, DeletedPasses
  <1> QED
    BY <1>1, <1>2, <1>3, <1>4, <1>5

LEMMA StartPurgedPasses ==
    ASSUME NEW x, IsRow(x), NEW listed, NEW gone \in BOOLEAN
    PROVE  Passed(x, StartPurged(x, listed, gone))
  <1>1. Terminal(x.rec) /\ ~Retained(x.rec) => ~Guarded(x.rec)
    BY DEF Retained, Guarded, IsRow, IsRecord, Records
  <1>2. Retained(x.rec) => Terminal(x.rec)
    BY DEF Retained
  <1> QED
    BY <1>1, <1>2, SeenPasses, UnboundPasses, DeletedPasses DEF StartPurged

LEMMA PurgedPasses ==
    ASSUME NEW x, IsRow(x), NEW listed \in SUBSET Panes, NEW gone \in BOOLEAN,
           NEW z, z = Purged(x, listed, gone)
    PROVE  Passed(x, z)
  <1>1. Terminal(x.rec) /\ ~Retained(x.rec) => ~Guarded(x.rec)
    BY DEF Retained, Guarded, IsRow, IsRecord, Records
  <1>2. Retained(x.rec) => Terminal(x.rec)
    BY DEF Retained
  <1>3. CASE Tombstone(x.rec)
    BY <1>3, SeenPasses DEF Purged
  <1>4. CASE ~Tombstone(x.rec) /\ (~gone \/ (x.rec.pane \in listed /\ ~Retained(x.rec)))
    <2>1. z = Seen(x)
      BY <1>4 DEF Purged, Expired, Panes
    <2> QED
      BY <2>1, SeenPasses
  <1>5. CASE ~Tombstone(x.rec) /\ gone /\ Retained(x.rec)
    <2>1. z = Unbound(x, listed)
      BY <1>5 DEF Purged, Expired, Retained
    <2> QED
      BY <1>2, <1>5, <2>1, UnboundPasses
  <1>6. CASE ~Tombstone(x.rec) /\ gone /\ ~Retained(x.rec) /\ x.rec.pane \notin listed /\ Expired(x.rec)
    <2>1. z = Deleted
      BY <1>6 DEF Purged
    <2> QED
      BY <1>6, <2>1, DeletedPasses DEF Expired, Guarded
  <1>7. CASE ~Tombstone(x.rec) /\ gone /\ ~Retained(x.rec) /\ x.rec.pane \notin listed /\ ~Expired(x.rec)
    <2>1. z = IF ~Terminal(x.rec) THEN x ELSE IF Confirmed(x) THEN Deleted ELSE Missed(x)
      BY <1>7 DEF Purged
    <2> QED
      BY <1>1, <1>7, <2>1, SeenPasses, DeletedPasses
  <1> QED
    BY <1>3, <1>4, <1>5, <1>6, <1>7

\* A sweep keeps a session whose retention window has not passed.
LEMMA SweptPasses ==
    ASSUME NEW x, IsRow(x), NEW listed \in SUBSET Panes, NEW gone \in BOOLEAN
    PROVE  Passed(x, Swept(x, listed, gone))
  <1> DEFINE y == Noticed(x, listed)
             r == Reconciled(y, listed, gone)
             e == Evicted(r, listed, gone)
             p == IF purge /\ e.rec # NoRec THEN StartPurged(e, listed, gone) ELSE e
             z == IF p.rec = NoRec THEN p ELSE Purged(p, listed, gone)
  <1>1. CASE x.rec = NoRec
    <2>1. Swept(x, listed, gone) = Deleted
      BY <1>1 DEF Swept, Deleted
    <2>2. ~Guarded(x.rec)
      BY <1>1 DEF Guarded, NoRec
    <2> QED
      BY <2>1, <2>2, DeletedPasses
  <1>2. CASE x.rec # NoRec
    <2>1. Swept(x, listed, gone) = z
      BY <1>2 DEF Swept
    <2>2. Passed(x, y)
      BY NoticedPasses
    <2>3. IsRow(y)
      BY <2>2 DEF Passed
    <2>4. /\ Passed(y, r)
          /\ gone /\ ~Attended(r, listed) /\ r.rec.st # "absent" /\ Confirmed(r) => Terminal(r.rec)
      BY <2>3, ReconciledPasses
    <2>5. IsRow(r)
      BY <2>4 DEF Passed
    <2>6. Passed(r, e)
      BY <2>4, <2>5, EvictedPasses
    <2>7. IsRow(e)
      BY <2>6 DEF Passed
    <2>8. Passed(e, p)
      BY <2>7, StartPurgedPasses, SeenPasses
    <2>9. IsRow(p)
      BY <2>8 DEF Passed
    <2>10. Passed(p, z)
      BY <2>9, PurgedPasses, SeenPasses
    <2>11. Passed(x, r)
      BY <2>2, <2>4, PassedTwice
    <2>12. Passed(x, e)
      BY <2>6, <2>11, PassedTwice
    <2>13. Passed(x, p)
      BY <2>8, <2>12, PassedTwice
    <2> QED
      BY <2>1, <2>10, <2>13, PassedTwice
  <1> QED
    BY <1>1, <1>2

-----------------------------------------------------------------------------
(* A sweep and an agent that lives in a pane. *)

\* The row of an agent that is not finished and whose miss confirms nothing.
Live(x) == IsRow(x) /\ x.rec.st # "absent" /\ ~Terminal(x.rec) /\ ~Confirmed(x)

LEMMA LiveSeen ==
    ASSUME NEW x, Live(x), x.rec.pane # 0
    PROVE  /\ Live(Seen(x)) /\ Seen(x).rec = x.rec
           /\ Live(Missed(x)) /\ Missed(x).rec = x.rec
  <1>1. IsRow(Seen(x)) /\ IsRow(Missed(x))
    BY SeenPasses DEF Live, Passed
  <1>2. Seen(x).rec = x.rec /\ ~Confirmed(Seen(x))
    BY DEF Seen, Row, Confirmed
  <1>3. Missed(x).rec = x.rec /\ ~Confirmed(Missed(x))
    BY DEF Missed, Row, Confirmed, Live
  <1> QED
    BY <1>1, <1>2, <1>3 DEF Live

LEMMA NoticedLive ==
    ASSUME NEW x, IsRow(x), x.rec.st # "absent", ~Terminal(x.rec), x.rec.pane # 0,
           NEW listed, x.obs = x.rec.pane => x.obs \in listed
    PROVE  Live(Noticed(x, listed)) /\ Noticed(x, listed).rec = x.rec
  <1>1. CASE x.obs \in listed
    <2>1. Seen(x).rec = x.rec /\ ~Confirmed(Seen(x)) /\ IsRow(Seen(x))
      BY SeenPasses DEF Seen, Row, Confirmed, Passed
    <2> QED
      BY <1>1, <2>1 DEF Live, Noticed
  <1>2. CASE x.obs \notin listed
    BY <1>2 DEF Live, Confirmed, Noticed
  <1> QED
    BY <1>1, <1>2

\* No pass ends it, unbinds it or deletes it.
LEMMA LivePasses ==
    ASSUME NEW x, Live(x), x.rec.pane # 0, NEW listed, NEW gone \in BOOLEAN
    PROVE  /\ Reconciled(x, listed, gone) \in {Seen(x), Missed(x)}
           /\ Evicted(x, listed, gone) \in {Seen(x), Missed(x)}
           /\ Purged(x, listed, gone) \in {Seen(x), x}
  <1>1. Reconciled(x, listed, gone) \in {Seen(x), Missed(x)}
    BY DEF Reconciled, Live
  <1>2. ~Tombstone(x.rec) /\ ~Retained(x.rec) /\ ~Expired(x.rec)
    BY DEF Retained, Expired, Tombstone, Live
  <1>3. Evicted(x, listed, gone) \in {Seen(x), Missed(x)}
    BY <1>2 DEF Evicted, Live
  <1>4. Purged(x, listed, gone) \in {Seen(x), x}
    BY <1>2 DEF Purged, Live
  <1> QED
    BY <1>1, <1>3, <1>4

LEMMA SweptLive ==
    ASSUME NEW x, IsRow(x), x.rec.st # "absent", ~Terminal(x.rec), x.rec.pane # 0,
           NEW listed \in SUBSET Panes, NEW gone \in BOOLEAN,
           x.obs = x.rec.pane => x.obs \in listed
    PROVE  Swept(x, listed, gone).rec = x.rec
  <1> DEFINE y == Noticed(x, listed)
             r == Reconciled(y, listed, gone)
             e == Evicted(r, listed, gone)
             p == IF purge /\ e.rec # NoRec THEN StartPurged(e, listed, gone) ELSE e
             z == IF p.rec = NoRec THEN p ELSE Purged(p, listed, gone)
  <1>1. x.rec # NoRec
    BY DEF NoRec
  <1>2. Swept(x, listed, gone) = z
    BY <1>1 DEF Swept
  <1>3. Live(y) /\ y.rec = x.rec
    BY NoticedLive
  <1>4. Live(r) /\ r.rec = x.rec
    BY <1>3, LivePasses, LiveSeen
  <1>5. Live(e) /\ e.rec = x.rec
    BY <1>4, LivePasses, LiveSeen
  <1>6. Live(p) /\ p.rec = x.rec
    BY <1>5 DEF StartPurged, Live, Retained
  <1>7. z.rec = x.rec
    BY <1>6, LivePasses, LiveSeen
  <1> QED
    BY <1>2, <1>7

-----------------------------------------------------------------------------
(* Types. *)

ResumeCalls == [at : {"idle", "proving", "proved", "placed", "bound", "booting", "typed", "over"},
                force : BOOLEAN, pane : 0..N, pid : 0..N, reg : 0..N, new : 0..N]
StopCalls == [at : {"idle", "probing", "routing", "signalling", "closing", "waiting", "over"},
              mode : {"graceful", "force", "accepted", "owned"},
              pane : 0..N, pid : 0..N, marked : BOOLEAN]

WorldOK ==
    /\ pane \in [Panes -> {"none", "open", "closed"}]
    /\ proc \in [Panes -> {"none", "typed", "running"}] /\ reg \in 0..N
CallsOK ==
    /\ spawn \in {"idle", "placed", "recorded", "sent", "over"}
    /\ resume \in [Resumers -> ResumeCalls] /\ stops \in [Stoppers -> StopCalls]
SweepingOK ==
    /\ scan \in [at : {"idle", "listed"}, open : SUBSET Panes]
    /\ obs \in 0..N /\ purge \in BOOLEAN
CountedOK == faults \in 0..MaxFaults /\ forced \in BOOLEAN /\ strayed \in BOOLEAN
Typed == IsRecord(rec) /\ WorldOK /\ CallsOK /\ SweepingOK /\ CountedOK

LEMMA TypedIsTypeOK == Typed <=> TypeOK
  BY DEF Typed, TypeOK, IsRecord, Records, Exists, WorldOK, CallsOK, ResumeCalls, StopCalls,
         SweepingOK, CountedOK

LEMMA InitTyped == Init => Typed
  <1> SUFFICES ASSUME Init PROVE Typed
    OBVIOUS
  <1>1. IsRecord(rec)
    BY NoRecIsRecord DEF Init
  <1>2. WorldOK
    BY Bounds DEF Init, WorldOK
  <1>3. NoResume \in ResumeCalls /\ ResumeOver \in ResumeCalls
    BY Bounds DEF NoResume, ResumeOver, ResumeCalls
  <1>4. NoStop \in StopCalls /\ StopOver \in StopCalls
    BY Bounds DEF NoStop, StopOver, StopCalls
  <1>5. CallsOK
    BY <1>3, <1>4 DEF Init, CallsOK
  <1>6. SweepingOK
    BY Bounds DEF Init, SweepingOK, NoScan
  <1>7. CountedOK
    BY Bounds DEF Init, CountedOK
  <1> QED
    BY <1>1, <1>2, <1>5, <1>6, <1>7 DEF Typed

\* What a capture writes: a session, for a record that exists.
LEMMA CapturedRecord ==
    ASSUME Typed, NEW r \in Captures(rec)
    PROVE  /\ IsRecord(r) /\ r.st = rec.st /\ rec.st # "absent" /\ r.pane = rec.pane
           /\ r.sess = TRUE
  <1>1. rec.st # "absent"
    BY DEF Typed, IsRecord, NoRec, Captures, Running
  <1> QED
    BY <1>1, Bounds DEF Typed, WorldOK, IsRecord, Records, NoRec, Captures

LEMMA ClosedWorld ==
    ASSUME WorldOK, NEW p, Close(p), reg' = reg
    PROVE  WorldOK'
  BY DEF WorldOK, Close

LEMMA SpawnTyped == Typed /\ SpawnStep => Typed'
  <1> SUFFICES ASSUME Typed, SpawnStep PROVE Typed'
    OBVIOUS
  <1> USE DEF Typed
  <1>1. CallsOK'
    BY DEF SpawnStep, SpawnPlaces, SpawnUnfocused, SpawnRecords, SpawnUnrecorded,
           SpawnMisplaced, SpawnLaunches, SpawnReturns, SpawnFails, Spawned, CallsOK
  <1>2. SweepingOK' /\ CountedOK'
    BY DEF SpawnStep, SpawnPlaces, SpawnUnfocused, SpawnRecords, SpawnUnrecorded,
           SpawnMisplaced, SpawnLaunches, SpawnReturns, SpawnFails, sweeping, counted,
           SweepingOK, CountedOK
  <1>3. IsRecord(rec')
    <2>1. IsRecord([NoRec EXCEPT !.st = "booting", !.pane = 1])
      BY Bounds DEF IsRecord, Records, NoRec
    <2>2. IsRecord([NoRec EXCEPT !.st = "error", !.pane = 1, !.err = "none"])
      BY Bounds DEF IsRecord, Records, NoRec
    <2>3. CASE SpawnFails
      <3>1. PICK r \in {rec} \cup Captures(rec) : rec' = Moved(r, "error", "none")
        BY <2>3 DEF SpawnFails
      <3>2. IsRecord(r)
        BY CapturedRecord
      <3> QED
        BY <3>1, <3>2, MovedRecord
    <2>4. CASE SpawnReturns
      BY <2>4, CapturedRecord DEF SpawnReturns
    <2> QED
      BY <2>1, <2>2, <2>3, <2>4
         DEF SpawnStep, SpawnPlaces, SpawnUnfocused, SpawnRecords, SpawnUnrecorded,
             SpawnMisplaced, SpawnLaunches
  <1>4. WorldOK'
    <2>1. CASE SpawnPlaces \/ SpawnLaunches
      BY <2>1 DEF SpawnPlaces, SpawnLaunches, WorldOK
    <2>2. CASE SpawnUnrecorded
      BY <2>2, ClosedWorld DEF SpawnUnrecorded, WorldOK
    <2> QED
      BY <2>1, <2>2
         DEF SpawnStep, SpawnUnfocused, SpawnRecords, SpawnMisplaced, SpawnReturns, SpawnFails,
             world, WorldOK
  <1> QED
    BY <1>1, <1>2, <1>3, <1>4

LEMMA ResumeTyped == \A c \in Resumers : Typed /\ ResumeStep(c) => Typed'
  <1> SUFFICES ASSUME Typed, NEW c \in Resumers, ResumeStep(c) PROVE Typed'
    OBVIOUS
  <1> USE DEF Typed
  <1>1. SweepingOK'
    BY DEF ResumeStep, ResumeBegins, ResumeProves, ResumePlaces, ResumeCleans, ResumeReopens,
           ResumeBoots, ResumeLaunches, ResumeReturns, ResumeFails, sweeping, SweepingOK
  <1>2. CountedOK'
    BY DEF ResumeStep, ResumeBegins, ResumeProves, ResumePlaces, ResumeCleans, ResumeReopens,
           ResumeBoots, ResumeLaunches, ResumeReturns, ResumeFails, counted, CountedOK,
           CallsOK, ResumeCalls
  <1>3. CallsOK'
    <2>1. \A r \in ResumeCalls : At(c, r) => CallsOK'
      BY DEF At, CallsOK
    <2>2. ResumeOver \in ResumeCalls
      BY Bounds DEF NoResume, ResumeOver, ResumeCalls
    <2>3. resume[c] \in ResumeCalls
      BY DEF CallsOK
    <2>4. Refused(c) => CallsOK'
      BY <2>1, <2>2 DEF Refused
    <2>5. ResumeBegins(c) => CallsOK'
      <3> SUFFICES ASSUME ResumeBegins(c) PROVE CallsOK'
        OBVIOUS
      <3>1. PICK force \in BOOLEAN, then \in Liveness(reg) :
              At(c, [at |-> "proving", force |-> force, pane |-> rec.pane, pid |-> rec.pid,
                     reg |-> IF then = "gone" THEN 0 ELSE reg, new |-> 0])
        BY DEF ResumeBegins
      <3>2. [at |-> "proving", force |-> force, pane |-> rec.pane, pid |-> rec.pid,
             reg |-> IF then = "gone" THEN 0 ELSE reg, new |-> 0] \in ResumeCalls
        BY Bounds DEF ResumeCalls, IsRecord, Records, WorldOK
      <3> QED
        BY <2>1, <3>1, <3>2
    <2>6. \A f \in BOOLEAN : Proved(c, f) => CallsOK'
      <3>1. \A f \in BOOLEAN : [NoResume EXCEPT !.at = "proved", !.force = f] \in ResumeCalls
        BY Bounds DEF NoResume, ResumeCalls
      <3> QED
        BY <2>1, <3>1 DEF Proved
    <2>7. ResumeProves(c) => CallsOK'
      BY <2>3, <2>4, <2>6 DEF ResumeProves, ResumeCalls
    <2>8. NextPane \in Panes => [resume[c] EXCEPT !.at = "placed", !.new = NextPane] \in ResumeCalls
      BY <2>3, Bounds DEF ResumeCalls
    <2>9. \A a \in {"bound", "booting", "typed"} : [resume[c] EXCEPT !.at = a] \in ResumeCalls
      BY <2>3 DEF ResumeCalls
    <2> QED
      BY <2>1, <2>4, <2>5, <2>7, <2>8, <2>9
         DEF ResumeStep, ResumePlaces, ResumeCleans, ResumeReopens, ResumeBoots,
             ResumeLaunches, ResumeReturns, ResumeFails
  <1>4. IsRecord(rec')
    <2>1. CASE ResumeProves(c)
      <3>1. Exists => IsRecord([rec EXCEPT !.pane = resume[c].reg, !.aged = FALSE])
        BY DEF CallsOK, ResumeCalls, IsRecord, Records, NoRec, Exists
      <3> QED
        BY <2>1, <3>1 DEF ResumeProves
    <2>2. CASE ResumeReopens(c)
      <3>1. resume[c].new \in 0..N /\ IsRecord(rec)
        BY DEF CallsOK, ResumeCalls
      <3>2. IsRecord(Reopened(resume[c].new))
        BY <3>1, Bounds DEF Reopened, IsRecord, Records
      <3> QED
        BY <2>2, <3>2 DEF ResumeReopens
    <2>3. CASE ResumeBoots(c)
      <3> DEFINE m == Moved(rec, "booting", "none")
      <3>1. IsRecord(m) /\ m.st = "booting"
        <4>1. IsRecord(m)
          BY MovedRecord
        <4>2. m.st = "booting"
          BY <2>3 DEF ResumeBoots, Moved, IsRecord, Records
        <4> QED
          BY <4>1, <4>2
      <3> HIDE DEF m
      <3>2. IsRecord([m EXCEPT !.pid = 0, !.sess = TRUE, !.err = "none"])
        BY <3>1, Bounds DEF IsRecord, Records
      <3> QED
        BY <2>3, <3>2 DEF ResumeBoots, m
    <2>4. CASE ResumeFails(c)
      BY <2>4, MovedRecord DEF ResumeFails
    <2> QED
      BY <2>1, <2>2, <2>3, <2>4
         DEF ResumeStep, ResumeBegins, ResumePlaces, ResumeCleans, ResumeLaunches, ResumeReturns
  <1>5. WorldOK'
    <2>1. CASE ResumePlaces(c) \/ ResumeLaunches(c)
      BY <2>1 DEF ResumePlaces, ResumeLaunches, WorldOK
    <2>2. CASE ResumeCleans(c)
      BY <2>2, ClosedWorld DEF ResumeCleans, WorldOK
    <2> QED
      BY <2>1, <2>2
         DEF ResumeStep, ResumeBegins, ResumeProves, ResumeReopens, ResumeBoots, ResumeReturns,
             ResumeFails, world, WorldOK
  <1> QED
    BY <1>1, <1>2, <1>3, <1>4, <1>5

\* What a stop writes into the record.
LEMMA StopRecords ==
    ASSUME Typed
    PROVE  /\ \A v \in BOOLEAN : IsRecord(Marked(v)) /\ IsRecord(Intended(v))
           /\ \A p \in 0..N : \A b \in Buried(p) : IsRecord(b)
           /\ \A r : IsRecord(r) => IsRecord(Finished(r))
  <1>1. \A v \in BOOLEAN : IsRecord(Marked(v)) /\ IsRecord(Intended(v))
    BY DEF Marked, Intended, Exists, IsRecord, Records, Typed
  <1>2. \A p \in 0..N : \A b \in Buried(p) : IsRecord(b)
    <2> SUFFICES ASSUME NEW p \in 0..N, NEW b \in Buried(p) PROVE IsRecord(b)
      OBVIOUS
    <2>1. CASE ~Exists
      BY <2>1 DEF Buried, Typed
    <2>2. CASE Exists /\ ~rec.sess
      BY <2>2, NoRecIsRecord DEF Buried
    <2>3. CASE Exists /\ rec.sess
      <3>1. PICK q \in {p, 0} :
              b = [rec EXCEPT !.killed = TRUE, !.aged = FALSE, !.pid = q]
        BY <2>3 DEF Buried
      <3> QED
        BY <2>3, <3>1, Bounds DEF Exists, IsRecord, Records, Typed
    <2> QED
      BY <2>1, <2>2, <2>3
  <1>3. \A r : IsRecord(r) => IsRecord(Finished(r))
    BY MovedRecord DEF Finished
  <1> QED
    BY <1>1, <1>2, <1>3

LEMMA StopTyped == \A s \in Stoppers : Typed /\ StopStep(s) => Typed'
  <1> SUFFICES ASSUME Typed, NEW s \in Stoppers, StopStep(s) PROVE Typed'
    OBVIOUS
  <1> USE DEF Typed
  <1>0. /\ stops[s] \in StopCalls /\ rec.pane \in 0..N /\ rec.pid \in 0..N
        /\ stops[s].marked \in BOOLEAN /\ stops[s].pid \in 0..N
    BY DEF CallsOK, StopCalls, IsRecord, Records
  <1>1. SweepingOK'
    BY DEF StopStep, StopBegins, StopProbes, StopUnrouted, StopMarks, StopSignals, StopCloses,
           StopEnds, StopTimesOut, sweeping, SweepingOK
  <1>2. CountedOK'
    BY DEF StopStep, StopBegins, StopProbes, StopUnrouted, StopMarks, StopSignals, StopCloses,
           StopEnds, StopTimesOut, Strays, counted, CountedOK
  <1>3. CallsOK'
    <2>1. \A r \in StopCalls : StopAt(s, r) => CallsOK'
      BY DEF StopAt, CallsOK
    <2>2. StopOver \in StopCalls
      BY Bounds DEF NoStop, StopOver, StopCalls
    <2>3. Ends(s) => CallsOK'
      BY <2>1, <2>2 DEF Ends
    <2>4. CASE StopBegins(s)
      <3>1. \A mode \in {"graceful", "force"} :
              [NoStop EXCEPT !.at = "routing", !.mode = mode] \in StopCalls
        BY Bounds DEF NoStop, StopCalls
      <3>2. [NoStop EXCEPT !.at = "probing", !.mode = "force", !.pane = rec.pane,
                           !.pid = rec.pid] \in StopCalls
        BY <1>0 DEF NoStop, StopCalls
      <3> QED
        BY <2>1, <2>3, <2>4, <3>1, <3>2 DEF StopBegins
    <2>5. CASE StopProbes(s)
      <3>1. [NoStop EXCEPT !.at = "routing", !.mode = "force"] \in StopCalls
        BY Bounds DEF NoStop, StopCalls
      <3> QED
        BY <2>1, <2>3, <2>5, <3>1 DEF StopProbes
    <2>6. CASE StopMarks(s)
      <3>1. \A a \in {"signalling", "closing"} :
            \A mode \in {"graceful", "force", "accepted", "owned"} : \A b \in BOOLEAN :
              [at |-> a, mode |-> mode, pane |-> rec.pane, pid |-> rec.pid, marked |-> b]
                \in StopCalls
        BY <1>0 DEF StopCalls
      <3>2. (stops[s].mode = "graceful" /\ ~rec.killed) \in BOOLEAN
        OBVIOUS
      <3> QED
        BY <2>1, <2>3, <2>6, <3>1, <3>2 DEF StopMarks
    <2>7. CASE StopSignals(s)
      <3>1. [stops[s] EXCEPT !.at = "closing", !.marked = FALSE] \in StopCalls
        BY <1>0 DEF StopCalls
      <3> QED
        BY <2>1, <2>3, <2>7, <3>1 DEF StopSignals
    <2>8. CASE StopCloses(s)
      <3>1. /\ [stops[s] EXCEPT !.at = "waiting", !.pane = rec.pane, !.pid = rec.pid] \in StopCalls
            /\ [stops[s] EXCEPT !.at = "waiting"] \in StopCalls
        BY <1>0 DEF StopCalls
      <3> QED
        BY <2>1, <2>3, <2>8, <3>1 DEF StopCloses
    <2> QED
      BY <2>3, <2>4, <2>5, <2>6, <2>7, <2>8 DEF StopStep, StopUnrouted, StopEnds, StopTimesOut
  <1>4. IsRecord(rec')
    <2>1. CASE StopBegins(s)
      BY <2>1, StopRecords, NoRecIsRecord DEF StopBegins
    <2>2. CASE StopProbes(s)
      <3>1. IsRecord(Marked(TRUE)) /\ (~Exists => Marked(TRUE) = NoRec)
        BY StopRecords DEF Marked, Exists, IsRecord
      <3>2. IsRecord([Marked(TRUE) EXCEPT !.pid = IF Exists THEN stops[s].pid ELSE 0])
        <4>1. CASE Exists
          <5>1. Marked(TRUE).st # "absent"
            BY <4>1 DEF Marked, Exists, IsRecord, Records
          <5> QED
            BY <1>0, <3>1, <4>1, <5>1 DEF IsRecord, Records
        <4>2. CASE ~Exists
          <5>1. [NoRec EXCEPT !.pid = 0] = NoRec
            BY DEF NoRec
          <5> QED
            BY <3>1, <4>2, <5>1, NoRecIsRecord
        <4> QED
          BY <4>1, <4>2
      <3> QED
        BY <2>2, <3>2 DEF StopProbes
    <2>3. CASE StopMarks(s)
      BY <2>3, StopRecords DEF StopMarks
    <2>4. CASE StopSignals(s)
      BY <2>4, StopRecords DEF StopSignals
    <2>5. CASE StopEnds(s)
      BY <1>0, <2>5, StopRecords DEF StopEnds
    <2>6. CASE StopTimesOut(s)
      <3>1. Exists => IsRecord([rec EXCEPT !.err = "none", !.aged = FALSE])
        BY DEF IsRecord, Records, Exists
      <3> QED
        BY <2>6, <3>1 DEF StopTimesOut
    <2> QED
      BY <2>1, <2>2, <2>3, <2>4, <2>5, <2>6 DEF StopStep, StopUnrouted, StopCloses
  <1>5. WorldOK'
    <2>1. CASE StopMarks(s) \/ StopSignals(s)
      BY <2>1 DEF StopMarks, StopSignals, WorldOK
    <2>2. CASE StopCloses(s)
      BY <2>2, ClosedWorld DEF StopCloses, WorldOK
    <2> QED
      BY <2>1, <2>2
         DEF StopStep, StopBegins, StopProbes, StopUnrouted, StopEnds, StopTimesOut, world, WorldOK
  <1> QED
    BY <1>1, <1>2, <1>3, <1>4, <1>5

\* A sweep keeps the row a row, and guards a session that may be resumed.
LEMMA SweptRecord ==
    ASSUME Typed, SweepRegistry
    PROVE  /\ IsRecord(rec') /\ obs' \in 0..N
           /\ rec'.pane \in {0, rec.pane} /\ obs' \in {0, obs, rec.pane}
           /\ rec'.pid \in {0, rec.pid} /\ (rec'.sess => rec.sess)
           /\ Active(rec') => rec' = rec
           /\ rec'.st = "creating" => rec' = rec
           /\ Guarded(rec) => Guarded(rec')
  <1>1. PICK gone \in GoneReadings, ripe \in {FALSE, obs # 0} :
          /\ rec' = Swept(Row(rec, obs, ripe), scan.open, gone).rec
          /\ obs' = Swept(Row(rec, obs, ripe), scan.open, gone).obs
    BY DEF SweepRegistry
  <1>2. gone \in BOOLEAN /\ ripe \in BOOLEAN
    BY DEF GoneReadings
  <1> DEFINE x == Row(rec, obs, ripe)
             z == Swept(x, scan.open, gone)
  <1>3. IsRow(x) /\ x.rec = rec /\ x.obs = obs
    <2>1. (obs # 0) \in BOOLEAN
      OBVIOUS
    <2> QED
      BY <1>2, RowFields DEF Typed, SweepingOK
  <1>4. scan.open \in SUBSET Panes
    BY DEF Typed, SweepingOK
  <1>5. Passed(x, z)
    BY <1>2, <1>3, <1>4, SweptPasses
  <1> HIDE DEF x, z
  <1> QED
    BY <1>1, <1>3, <1>5 DEF Passed, IsRow, Active, x, z

\* What list_agents may delete of a session that is not finished: its pane is
\* not in the listing, and was missed before.
Dropped == ListEvicts /\ ~Terminal(rec) /\ rec.pane \notin Open /\ obs = rec.pane

LEMMA ListedRow ==
    ASSUME Typed, NEW y \in Remembered
    PROVE  /\ IsRow(y) /\ y.rec = rec /\ y.obs \in {0, obs}
           /\ rec.pane # 0 /\ ~Terminal(rec) /\ rec.pane \in Open => Live(y)
           /\ rec.st # "absent"
  <1>1. PICK ripe \in {FALSE, obs # 0} : y = Noticed(Row(rec, obs, ripe), Open)
    BY DEF Remembered
  <1> DEFINE x == Row(rec, obs, ripe)
  <1>2. ripe \in BOOLEAN
    OBVIOUS
  <1>3. IsRow(x) /\ x.rec = rec /\ x.obs = obs
    BY <1>2, RowFields DEF Typed, SweepingOK
  <1>4. Exists
    BY DEF Remembered
  <1> HIDE DEF x
  <1>5. y \in {x, Seen(x)}
    BY <1>1 DEF Noticed, x
  <1>6. Seen(x).rec = rec /\ Seen(x).obs = 0
    BY <1>3 DEF Seen, Row
  <1>7. IsRow(y)
    BY <1>3, <1>5, SeenPasses DEF Passed
  <1>8. ASSUME rec.pane # 0, ~Terminal(rec), rec.pane \in Open PROVE Live(y)
    BY <1>1, <1>3, <1>4, <1>8, NoticedLive DEF Exists, x
  <1> QED
    BY <1>3, <1>4, <1>5, <1>6, <1>7, <1>8 DEF Exists

\* A pass remembers a miss only of a pane that is not listed.
LEMMA UnlistedIsMissed ==
    ASSUME NEW x, IsRow(x), NEW listed, NEW gone \in BOOLEAN,
           NEW z \in {Reconciled(x, listed, gone), Evicted(x, listed, gone), Purged(x, listed, gone)}
    PROVE  z.obs \in {0, x.obs} \/ (z.obs = x.rec.pane /\ x.rec.pane \notin listed)
  <1>1. /\ Seen(x).obs = 0 /\ Deleted.obs = 0 /\ Unbound(x, listed).obs = 0
        /\ Missed(x).obs = x.rec.pane
    BY DEF Seen, Deleted, Unbound, Missed, Row
  <1>2. \A r : [x EXCEPT !.rec = r].obs = x.obs
    BY DEF IsRow, Row
  <1>3. CASE z = Reconciled(x, listed, gone)
    <2>1. \/ z \in {x, Seen(x)} \/ z = [x EXCEPT !.rec = Moved(x.rec, "error", "crash")]
          \/ z = Missed(x) /\ x.rec.pane \notin listed
      BY <1>3 DEF Reconciled, Attended
    <2> QED
      BY <1>1, <1>2, <2>1
  <1>4. CASE z = Evicted(x, listed, gone)
    <2>1. \/ z \in {x, Seen(x), Deleted, Unbound(x, listed)}
          \/ z = Missed(x) /\ x.rec.pane \notin listed
      BY <1>4 DEF Evicted, Attended
    <2> QED
      BY <1>1, <2>1
  <1>5. CASE z = Purged(x, listed, gone)
    <2>1. \/ z \in {x, Seen(x), Deleted, Unbound(x, listed)}
          \/ z = Missed(x) /\ x.rec.pane \notin listed
      BY <1>5 DEF Purged
    <2> QED
      BY <1>1, <2>1
  <1> QED
    BY <1>3, <1>4, <1>5

\* A pass of list_agents keeps the row a row; it guards a session that may be
\* resumed, but for one it drops.
LEMMA ListRecord ==
    ASSUME Typed, ListEvicts \/ ListTidies
    PROVE  /\ IsRecord(rec') /\ obs' \in 0..N
           /\ rec'.pane \in {0, rec.pane}
           /\ obs' \in {0, obs} \/ (obs' = rec.pane /\ rec.pane \notin Open)
           /\ rec'.pid \in {0, rec.pid} /\ (rec'.sess => rec.sess)
           /\ Active(rec') => rec' = rec
           /\ Guarded(rec) => Guarded(rec') \/ Dropped
  <1> DEFINE Kept(y, z) ==
               /\ IsRow(z) /\ z.rec.pane \in {0, y.rec.pane} /\ z.rec.pid \in {0, y.rec.pid}
               /\ (z.rec.sess => y.rec.sess) /\ (Active(z.rec) => z.rec = y.rec)
  <1>1. \A y, z : Passed(y, z) => Kept(y, z) /\ (Guarded(y.rec) => Guarded(z.rec))
    BY DEF Passed
  <1>2. ASSUME NEW y \in Remembered, NEW gone \in GoneReadings,
               NEW z \in {Reconciled(y, Open, gone), Evicted(y, Open, gone), Purged(y, Open, gone)},
               rec' = z.rec, obs' = z.obs, Kept(y, z),
               Guarded(y.rec) => Guarded(z.rec) \/ Dropped
        PROVE  /\ IsRecord(rec') /\ obs' \in 0..N
               /\ rec'.pane \in {0, rec.pane}
               /\ obs' \in {0, obs} \/ (obs' = rec.pane /\ rec.pane \notin Open)
               /\ rec'.pid \in {0, rec.pid} /\ (rec'.sess => rec.sess)
               /\ Active(rec') => rec' = rec
               /\ Guarded(rec) => Guarded(rec') \/ Dropped
    <2>1. IsRow(y) /\ y.rec = rec /\ y.obs \in {0, obs}
      BY ListedRow
    <2>2. gone \in BOOLEAN
      BY DEF GoneReadings
    <2>3. z.obs \in {0, y.obs} \/ (z.obs = y.rec.pane /\ y.rec.pane \notin Open)
      BY <2>1, <2>2, UnlistedIsMissed
    <2>4. IsRecord(rec') /\ obs' \in 0..N
      BY <1>2 DEF IsRow
    <2> QED
      BY <1>2, <2>1, <2>3, <2>4 DEF Active
  <1>3. CASE ListTidies
    <2>1. PICK y \in Remembered, gone \in GoneReadings :
            Writes(Reconciled(y, Open, gone)) \/ Writes(Purged(y, Open, gone))
      BY <1>3 DEF ListTidies
    <2>2. IsRow(y) /\ gone \in BOOLEAN /\ Open \in SUBSET Panes
      BY ListedRow DEF GoneReadings, Open
    <2>3. Passed(y, Reconciled(y, Open, gone)) /\ Passed(y, Purged(y, Open, gone))
      BY <2>2, ReconciledPasses, PurgedPasses
    <2> HIDE DEF Kept
    <2> QED
      BY <1>1, <1>2, <2>1, <2>3 DEF Writes
  <1>4. CASE ListEvicts
    <2>1. PICK y \in Remembered, gone \in GoneReadings : Writes(Evicted(y, Open, gone))
      BY <1>4 DEF ListEvicts
    <2>2. /\ IsRow(y) /\ gone \in BOOLEAN /\ y.rec = rec /\ y.obs \in {0, obs}
      BY ListedRow DEF GoneReadings
    <2> DEFINE z == Evicted(y, Open, gone)
    <2>3. CASE gone /\ ~Attended(y, Open) /\ y.rec.st # "absent" /\ Confirmed(y) => Terminal(y.rec)
      <3>1. Passed(y, z)
        BY <2>2, <2>3, EvictedPasses
      <3> HIDE DEF Kept
      <3> QED
        BY <1>1, <1>2, <2>1, <3>1 DEF Writes
    <2>4. CASE gone /\ ~Attended(y, Open) /\ Confirmed(y) /\ ~Terminal(y.rec)
      <3>1. z = Deleted
        BY <2>4 DEF Evicted, Retained, Expired, Tombstone
      <3>2. rec.pane # 0 /\ rec.pane \notin Open /\ ~Terminal(rec) /\ y.obs = rec.pane
        BY <2>2, <2>4 DEF Attended, Confirmed
      <3>3. Dropped
        BY <1>4, <2>2, <3>2 DEF Dropped
      <3>4. IsRow(Deleted) /\ Deleted.rec = NoRec
        BY NoRecIsRecord, RecordPane DEF Deleted, Row, IsRow
      <3>5. NoRec.pane = 0 /\ NoRec.pid = 0 /\ ~NoRec.sess /\ ~Active(NoRec)
        BY DEF NoRec, Active
      <3>6. Kept(y, z)
        BY <3>1, <3>4, <3>5
      <3> HIDE DEF Kept
      <3> QED
        BY <1>2, <2>1, <3>3, <3>6 DEF Writes
    <2> QED
      BY <2>3, <2>4
  <1> QED
    BY <1>3, <1>4

\* What a scan of the screens writes is a state the row may have, in its own
\* pane or the one where the session runs.
LEMMA ResetRecord ==
    ASSUME NEW r, IsRecord(r), r.st # "absent", NEW t \in Reset(r)
    PROVE  /\ IsRecord(t) /\ t.pane = r.pane /\ t.pid = r.pid /\ t.sess = r.sess
           /\ t.st \notin {"absent", "creating"}
  BY DEF Reset, IsRecord, Records

LEMMA HealedRecord ==
    ASSUME Typed, ListHeals
    PROVE  /\ IsRecord(rec') /\ rec'.st \notin {"absent", "creating"}
           /\ rec'.pane = rec.pane /\ rec'.pid = rec.pid /\ rec'.sess = rec.sess
  BY ResetRecord DEF ListHeals, Typed

LEMMA RecoveredRecord ==
    ASSUME Typed, ListRecovers
    PROVE  /\ IsRecord(rec') /\ rec'.st \notin {"absent", "creating"}
           /\ rec'.pane = reg /\ rec'.pid = reg /\ rec'.sess = rec.sess
           /\ reg \in Panes /\ pane[reg] = "open" /\ proc[reg] = "running" /\ rec.sess
  <1> DEFINE r == [rec EXCEPT !.pane = reg, !.pid = reg]
  <1>1. /\ reg \in Panes /\ pane[reg] = "open" /\ proc[reg] = "running" /\ rec.sess
        /\ rec.st # "absent" /\ rec' \in Reset(r)
    BY DEF ListRecovers, Open, Exists
  <1>2. IsRecord(r) /\ r.pane = reg /\ r.pid = reg /\ r.sess = rec.sess /\ r.st = rec.st
    BY <1>1 DEF Typed, WorldOK, IsRecord, Records
  <1> HIDE DEF r
  <1> QED
    BY <1>1, <1>2, ResetRecord

\* What a reading of a screen writes into the record.
LEMMA ScreenRecord ==
    ASSUME Typed, SweepCaptures \/ SweepMarksBoot \/ SweepMarksState \/ WaitMarks
    PROVE  /\ IsRecord(rec') /\ rec'.pane = rec.pane
           /\ rec'.st # "absent" /\ rec.st # "absent"
           /\ rec'.st = "creating" => rec.st = "creating"
  <1>1. CASE SweepCaptures
    BY <1>1, CapturedRecord DEF SweepCaptures
  <1>2. ASSUME NEW to \in {"active", "done", "error"}, NEW err \in {"none", "crash", "stuck"},
               rec' = Moved(rec, to, err), CanMove(rec.st, to)
        PROVE  /\ IsRecord(rec') /\ rec'.pane = rec.pane
               /\ rec'.st \notin {"absent", "creating"} /\ rec.st # "absent"
    BY <1>2 DEF Typed, IsRecord, Records, Moved, CanMove
  <1>3. CASE SweepMarksBoot
    <2>1. rec.st = "booting" /\ rec' \in {Moved(rec, "active", "none"), Moved(rec, "error", "stuck")}
      BY <1>3 DEF SweepMarksBoot, BootMarks
    <2> QED
      BY <1>2, <2>1 DEF CanMove
  <1>4. CASE SweepMarksState
    <2>1. CASE rec.st \in {"booting", "active"} /\ rec' = Moved(rec, "done", "none")
      BY <1>2, <2>1 DEF CanMove
    <2>2. CASE rec.st = "active" /\ rec' = Moved(rec, "error", "crash")
      BY <1>2, <2>2 DEF CanMove
    <2>3. CASE rec.st = "done" /\ rec' = [rec EXCEPT !.st = "active", !.aged = FALSE]
      BY <2>3 DEF Typed, IsRecord, Records
    <2> QED
      BY <1>4, <2>1, <2>2, <2>3 DEF SweepMarksState, StateMarks
  <1>5. CASE WaitMarks
    BY <1>2, <1>5 DEF WaitMarks
  <1> QED
    BY <1>1, <1>3, <1>4, <1>5

LEMMA SweepTyped == Typed /\ (Sweep \/ WaitMarks) => Typed'
  <1> SUFFICES ASSUME Typed, Sweep \/ WaitMarks PROVE Typed'
    OBVIOUS
  <1>1. CASE SweepLists
    BY <1>1 DEF SweepLists, Typed, world, calls, counted, WorldOK, CallsOK, SweepingOK,
                CountedOK, Open
  <1>2. CASE SweepRegistry
    <2>1. IsRecord(rec') /\ obs' \in 0..N
      BY <1>2, SweptRecord
    <2>2. WorldOK' /\ CallsOK' /\ CountedOK'
      BY <1>2 DEF SweepRegistry, Typed, world, calls, counted, WorldOK, CallsOK, CountedOK
    <2>3. SweepingOK'
      BY <1>2, <2>1 DEF SweepRegistry, NoScan, SweepingOK
    <2> QED
      BY <2>1, <2>2, <2>3 DEF Typed
  <1>3. CASE SweepCaptures \/ SweepMarksBoot \/ SweepMarksState \/ WaitMarks
    <2>1. IsRecord(rec')
      BY <1>3, ScreenRecord
    <2>2. UNCHANGED <<world, calls, sweeping, counted>>
      BY <1>3 DEF SweepCaptures, SweepMarksBoot, SweepMarksState, WaitMarks
    <2> QED
      BY <2>1, <2>2 DEF Typed, world, calls, sweeping, counted, WorldOK, CallsOK, SweepingOK,
                        CountedOK
  <1> QED
    BY <1>1, <1>2, <1>3 DEF Sweep

LEMMA ListingTyped == Typed /\ Listing => Typed'
  <1> SUFFICES ASSUME Typed, Listing PROVE Typed'
    OBVIOUS
  <1>1. UNCHANGED <<world, calls, scan, purge, counted>>
    BY DEF Listing, ListEvicts, ListTidies, ListGhosts, ListRecovers, ListHeals, Writes, sweeping
  <1>2. IsRecord(rec') /\ obs' \in 0..N
    <2>1. CASE ListEvicts \/ ListTidies
      BY <2>1, ListRecord
    <2>2. CASE ListGhosts
      BY <2>2, NoRecIsRecord, Bounds DEF ListGhosts
    <2>3. CASE ListRecovers \/ ListHeals
      BY <2>3, RecoveredRecord, HealedRecord
         DEF ListRecovers, ListHeals, sweeping, Typed, SweepingOK
    <2> QED
      BY <2>1, <2>2, <2>3 DEF Listing
  <1> QED
    BY <1>1, <1>2 DEF Typed, world, calls, counted, WorldOK, CallsOK, SweepingOK, CountedOK

LEMMA FaultCounted ==
    ASSUME CountedOK, Fault, UNCHANGED <<forced, strayed>>
    PROVE  CountedOK' /\ faults' > 0
  BY Bounds DEF CountedOK, Fault

LEMMA WorldTyped == Typed /\ World => Typed'
  <1> SUFFICES ASSUME Typed, World PROVE Typed'
    OBVIOUS
  <1>1. CASE Ages
    BY <1>1 DEF Ages, Typed, IsRecord, Records, NoRec, Terminal, world, calls, sweeping, counted,
                WorldOK, CallsOK, SweepingOK, CountedOK
  <1>2. ASSUME NEW p \in Panes, ProcStarts(p) PROVE Typed'
    BY <1>2 DEF ProcStarts, Typed, calls, sweeping, counted, WorldOK, CallsOK, SweepingOK,
                CountedOK
  <1>3. ASSUME NEW p \in Panes, Registers(p) PROVE Typed'
    BY <1>3, Bounds DEF Registers, Typed, calls, sweeping, counted, WorldOK, CallsOK, SweepingOK,
                CountedOK
  <1>4. ASSUME NEW p \in Panes, ProcEnds(p) PROVE Typed'
    <2>1. CountedOK'
      BY <1>4, FaultCounted DEF ProcEnds, Typed, CountedOK
    <2> QED
      BY <1>4, <2>1 DEF ProcEnds, Typed, calls, sweeping, WorldOK, CallsOK, SweepingOK
  <1>5. ASSUME NEW p \in Panes, PaneCloses(p) PROVE Typed'
    <2>1. CountedOK'
      BY <1>5, FaultCounted DEF PaneCloses, Typed
    <2>2. WorldOK'
      BY <1>5, ClosedWorld DEF PaneCloses, Typed
    <2> QED
      BY <1>5, <2>1, <2>2 DEF PaneCloses, Typed, calls, sweeping, CallsOK, SweepingOK
  <1> QED
    BY <1>1, <1>2, <1>3, <1>4, <1>5 DEF World

\* A start reads the record, and reconciles it without waiting.
LEMMA RestartRecord ==
    ASSUME Typed, Restart
    PROVE  /\ IsRecord(rec') /\ rec'.pane \in {0, rec.pane}
           /\ (rec'.st = "absent" <=> rec.st = "absent")
           /\ rec' \in {rec, Moved(rec, "error", "crash")}
  <1>1. CASE rec' = rec
    BY <1>1 DEF Typed
  <1>2. CASE rec' # rec
    <2> DEFINE x == Row(rec, rec.pane, TRUE)
    <2>1. PICK gone \in GoneReadings : rec' = Reconciled(x, Open, gone).rec
      BY <1>2 DEF Restart
    <2>2. gone \in BOOLEAN
      BY DEF GoneReadings
    <2>3. IsRow(x) /\ x.rec = rec
      BY RecordPane DEF Typed, IsRow, Row
    <2> HIDE DEF x
    <2>4. Passed(x, Reconciled(x, Open, gone))
      BY <2>2, <2>3, ReconciledPasses
    <2>5. rec' \in {rec, Moved(rec, "error", "crash")}
      <3>1. \A r : [x EXCEPT !.rec = r].rec = r
        BY <2>3 DEF IsRow, Row
      <3>2. Seen(x).rec = rec /\ Missed(x).rec = rec
        BY <2>3 DEF Seen, Missed, Row
      <3> QED
        BY <2>1, <2>3, <3>1, <3>2 DEF Reconciled
    <2> QED
      BY <2>1, <2>3, <2>4, <2>5, MovedRecord DEF Passed, IsRow, Typed
  <1> QED
    BY <1>1, <1>2

LEMMA RestartTyped == Typed /\ Restart => Typed'
  <1> SUFFICES ASSUME Typed, Restart PROVE Typed'
    OBVIOUS
  <1>1. IsRecord(rec')
    BY RestartRecord
  <1>2. WorldOK'
    BY DEF Restart, Typed, world, WorldOK
  <1>3. ResumeOver \in ResumeCalls /\ StopOver \in StopCalls
    BY Bounds DEF NoResume, ResumeOver, ResumeCalls, NoStop, StopOver, StopCalls
  <1>4. CallsOK'
    BY <1>3 DEF Restart, Typed, CallsOK
  <1>5. SweepingOK'
    BY Bounds DEF Restart, NoScan, SweepingOK
  <1>6. CountedOK'
    BY FaultCounted DEF Restart, Typed
  <1> QED
    BY <1>1, <1>2, <1>4, <1>5, <1>6 DEF Typed

LEMMA StepTyped == Typed /\ [Next]_vars => Typed'
  <1>1. Typed /\ UNCHANGED vars => Typed'
    BY DEF Typed, vars, world, calls, sweeping, counted, WorldOK, CallsOK, SweepingOK, CountedOK
  <1> QED
    BY <1>1, SpawnTyped, ResumeTyped, StopTyped, SweepTyped, ListingTyped, WorldTyped, RestartTyped
       DEF Next

-----------------------------------------------------------------------------
(* The panes, the resumes and the record, together. *)

Used == {p \in Panes : pane[p] # "none"} \cup {1}

\* Panes are created in their order, and what names one names one created.
Created ==
    /\ Used = 1..Cardinality(Used)
    /\ spawn = "idle" <=> pane[1] = "none"
    /\ rec.pane # 0 => pane[rec.pane] # "none"
    /\ obs # 0 => pane[obs] # "none"
    /\ \A c \in Resumers : resume[c].new # 0 => pane[resume[c].new] # "none"

\* A listing shows the pane that was missed before it, if that is open.
Listed == scan.at = "listed" /\ obs # 0 /\ pane[obs] = "open" => obs \in scan.open

OneResume == \A c, d \in Resumers : Resuming(c) /\ Resuming(d) => c = d

IInv == Typed /\ Created /\ Listed /\ OneResume /\ CreatingAttended

\* No pane is created, and none is opened again.
PanesKept ==
    \A p \in Panes : (pane'[p] = "none" <=> pane[p] = "none")
                     /\ (pane'[p] = "open" => pane[p] = "open")

\* A row may be deleted that no session can be resumed by, or by list_agents.
Deletable == ~Guarded(rec) \/ Dropped \/ ListGhosts

\* What nearly every step keeps.
Orderly ==
    /\ PanesKept
    /\ spawn' = "idle" <=> spawn = "idle"
    /\ rec'.pane # 0 => pane[rec'.pane] # "none"
    /\ rec'.st = "creating" => faults' > 0 \/ (rec.st = "creating" /\ rec'.pane = rec.pane)
    /\ rec'.st = "absent" => Deletable
    /\ \A c \in Resumers :
          /\ resume'[c].new \in {0, resume[c].new}
          /\ resume'[c].at \notin {"idle", "over"} => Resuming(c)
          /\ resume[c].at = "bound" =>
                resume'[c] = resume[c] \/ rec'.st # "creating" \/ faults' > 0
    /\ faults' >= faults
    /\ \/ UNCHANGED <<scan, obs>>
       \/ scan' = scan /\ (obs' \in {0, obs} \/ (obs' = rec.pane /\ rec.pane \notin Open))
       \/ scan'.at = "idle" /\ obs' \in {0, obs, rec.pane}
       \/ scan'.open = Open /\ obs' = obs

LEMMA OrderlyKeeps ==
    ASSUME IInv, Typed', Orderly
    PROVE  IInv'
  <1>1. Used' = Used
    BY DEF Used, Orderly, PanesKept
  <1>2. rec.pane \in 0..N /\ rec'.pane \in 0..N /\ obs \in 0..N /\ obs' \in 0..N
    BY RecordPane DEF IInv, Typed, SweepingOK
  <1>3. \A p \in 0..N : p # 0 => p \in Panes
    BY Bounds DEF Panes
  <1>4. \A c \in Resumers : resume[c].new \in 0..N /\ resume'[c].new \in 0..N
    BY DEF IInv, Typed, CallsOK, ResumeCalls
  <1>5. Created'
    <2>1. obs' # 0 => pane[obs'] # "none"
      BY DEF Orderly, IInv, Created
    <2>2. \A c \in Resumers : resume'[c].new # 0 => pane[resume'[c].new] # "none"
      BY DEF Orderly, IInv, Created
    <2>3. \A p \in 0..N : p # 0 /\ pane[p] # "none" => pane'[p] # "none"
      BY <1>3 DEF Orderly, PanesKept
    <2>4. (spawn = "idle" <=> pane[1] = "none")'
      BY Bounds DEF Orderly, PanesKept, IInv, Created
    <2>5. (Used = 1..Cardinality(Used))'
      BY <1>1 DEF IInv, Created
    <2> QED
      BY <1>2, <1>4, <2>1, <2>2, <2>3, <2>4, <2>5 DEF Created, Orderly
  <1>6. Listed'
    <2>1. obs' # 0 /\ pane'[obs'] = "open" => pane[obs'] = "open"
      BY <1>2, <1>3 DEF Orderly, PanesKept
    <2>2. obs' # 0 /\ pane[obs'] = "open" => obs' \in Open
      BY <1>2, <1>3 DEF Open
    <2> QED
      BY <2>1, <2>2 DEF Listed, Orderly, IInv
  <1>7. OneResume'
    BY DEF OneResume, Orderly, IInv, Resuming
  <1>8. CreatingAttended'
    <2>1. faults \in Int /\ faults' \in Int
      BY Bounds DEF IInv, Typed, CountedOK
    <2> SUFFICES ASSUME rec'.st = "creating", ~(faults' > 0)
                 PROVE  \E c \in Resumers : resume'[c].at = "bound" /\ resume'[c].new = rec'.pane
      BY DEF CreatingAttended
    <2>2. rec.st = "creating" /\ rec'.pane = rec.pane /\ ~(faults > 0)
      BY <2>1 DEF Orderly
    <2>3. PICK c \in Resumers : resume[c].at = "bound" /\ resume[c].new = rec.pane
      BY <2>2 DEF IInv, CreatingAttended
    <2> QED
      BY <2>2, <2>3 DEF Orderly
  <1> QED
    BY <1>5, <1>6, <1>7, <1>8 DEF IInv

\* The step of a call or of the world that leaves some of it alone.
LEMMA PanesSame == pane' = pane => PanesKept
  BY DEF PanesKept

LEMMA PanesClosed ==
    ASSUME Typed, NEW p, p \in Panes => pane[p] # "none", Close(p)
    PROVE  PanesKept
  BY DEF PanesKept, Close, Typed, WorldOK

LEMMA CountedSame ==
    ASSUME Typed
    PROVE  /\ (faults' = faults => faults' >= faults)
           /\ (Fault => faults' >= faults /\ faults' > 0)
  BY Bounds DEF Typed, CountedOK, Fault

LEMMA ResumesSame ==
    resume' = resume =>
        \A c \in Resumers :
          /\ resume'[c].new \in {0, resume[c].new}
          /\ resume'[c].at \notin {"idle", "over"} => Resuming(c)
          /\ resume[c].at = "bound" =>
                resume'[c] = resume[c] \/ rec'.st # "creating" \/ faults' > 0
  BY DEF Resuming

\* Where the record is left alone, or keeps what Orderly asks of it.
RecordKept ==
    /\ rec'.pane # 0 => pane[rec'.pane] # "none"
    /\ rec'.st = "creating" => faults' > 0 \/ (rec.st = "creating" /\ rec'.pane = rec.pane)
    /\ rec'.st = "absent" => Deletable

LEMMA RecordSame == Created /\ rec' = rec => RecordKept
  BY DEF RecordKept, Created, Guarded, Deletable

LEMMA RecordWritten ==
    ASSUME Created, rec'.pane \in {0, rec.pane},
           rec'.st = "creating" => rec.st = "creating" /\ rec'.pane = rec.pane,
           rec'.st = "absent" => Deletable
    PROVE  RecordKept
  BY DEF RecordKept, Created

LEMMA SpawnOrderly == IInv /\ SpawnStep => Orderly \/ SpawnPlaces
  <1> SUFFICES ASSUME IInv, SpawnStep, ~SpawnPlaces PROVE Orderly
    OBVIOUS
  <1> USE DEF IInv
  <1>1. /\ resume' = resume /\ faults' = faults /\ UNCHANGED <<scan, obs>>
        /\ (spawn' = "idle" <=> spawn = "idle")
    BY DEF SpawnStep, SpawnUnfocused, SpawnRecords, SpawnUnrecorded, SpawnMisplaced,
           SpawnLaunches, SpawnReturns, SpawnFails, Spawned, sweeping, counted
  <1>2. PanesKept
    <2>1. CASE SpawnUnrecorded
      BY <2>1, PanesClosed, PanesSame DEF SpawnUnrecorded, Created
    <2> QED
      BY <2>1, PanesSame DEF SpawnStep, SpawnUnfocused, SpawnRecords, SpawnMisplaced,
           SpawnLaunches, SpawnReturns, SpawnFails, world
  <1>3. RecordKept
    <2>1. CASE SpawnRecords \/ SpawnUnrecorded
      <3>1. pane[1] # "none"
        BY <2>1 DEF SpawnRecords, SpawnUnrecorded, Created
      <3>2. rec' = rec \/ (rec'.pane = 1 /\ rec'.st \in {"booting", "error"})
        BY <2>1 DEF SpawnRecords, SpawnUnrecorded, NoRec
      <3> QED
        BY <3>1, <3>2, RecordSame DEF RecordKept
    <2>2. CASE SpawnReturns
      <3>1. rec' = rec \/ rec' \in Captures(rec)
        BY <2>2 DEF SpawnReturns
      <3> QED
        BY <3>1, RecordSame, RecordWritten, CapturedRecord
    <2>3. CASE SpawnFails
      <3>1. PICK r \in {rec} \cup Captures(rec) : rec' = Moved(r, "error", "none")
        BY <2>3 DEF SpawnFails
      <3>2. IsRecord(r) /\ r.st = rec.st /\ r.pane = rec.pane
        BY <3>1, CapturedRecord DEF Typed
      <3>3. /\ rec'.pane = rec.pane /\ rec'.st # "creating"
            /\ (rec'.st = "absent" <=> rec.st = "absent")
        BY <3>1, <3>2, MovedRecord
      <3> QED
        BY <3>3, RecordWritten DEF Guarded, Deletable
    <2> QED
      BY <2>1, <2>2, <2>3, RecordSame
         DEF SpawnStep, SpawnUnfocused, SpawnMisplaced, SpawnLaunches
  <1> QED
    BY <1>1, <1>2, <1>3, ResumesSame, CountedSame DEF Orderly, RecordKept

\* What a stop writes: the pane stays, and nobody's record becomes creating.
StopWrites(r) ==
    /\ r.pane \in {0, rec.pane}
    /\ r.st = "creating" => rec.st = "creating" /\ r.pane = rec.pane
    /\ r.st = "absent" => ~Guarded(rec)

LEMMA StopRecordKept ==
    ASSUME Typed
    PROVE  /\ \A v \in BOOLEAN : StopWrites(Marked(v)) /\ StopWrites(Intended(v))
           /\ \A p \in 0..N : \A b \in Buried(p) : StopWrites(b)
           /\ \A r : IsRecord(r) /\ StopWrites(r) => StopWrites(Finished(r))
           /\ StopWrites(rec)
  <1>1. \A v \in BOOLEAN : StopWrites(Marked(v)) /\ StopWrites(Intended(v))
    BY DEF Marked, Intended, Exists, IsRecord, Records, Typed, StopWrites, Guarded
  <1>2. \A p \in 0..N : \A b \in Buried(p) : StopWrites(b)
    <2> SUFFICES ASSUME NEW p \in 0..N, NEW b \in Buried(p) PROVE StopWrites(b)
      OBVIOUS
    <2>1. CASE ~Exists
      BY <2>1 DEF Buried, StopWrites, Exists, Guarded
    <2>2. CASE Exists /\ ~rec.sess
      <3>1. b = NoRec
        BY <2>2 DEF Buried
      <3> QED
        BY <2>2, <3>1 DEF StopWrites, Guarded, NoRec
    <2>3. CASE Exists /\ rec.sess
      <3>1. PICK q \in {p, 0} :
              b = [rec EXCEPT !.killed = TRUE, !.aged = FALSE, !.pid = q]
        BY <2>3 DEF Buried
      <3>2. b.pane = rec.pane /\ b.st = rec.st
        BY <3>1 DEF IsRecord, Records, Typed
      <3> QED
        BY <2>3, <3>2 DEF StopWrites, Exists
    <2> QED
      BY <2>1, <2>2, <2>3
  <1>3. \A r : IsRecord(r) /\ StopWrites(r) => StopWrites(Finished(r))
    BY MovedRecord DEF Finished, StopWrites, CanMove
  <1>4. StopWrites(rec)
    BY DEF StopWrites, Guarded
  <1> QED
    BY <1>1, <1>2, <1>3, <1>4

LEMMA StopOrderly == \A s \in Stoppers : IInv /\ StopStep(s) => Orderly
  <1> SUFFICES ASSUME IInv, NEW s \in Stoppers, StopStep(s) PROVE Orderly
    OBVIOUS
  <1> USE DEF IInv
  <1>1. /\ resume' = resume /\ faults' = faults /\ UNCHANGED <<scan, obs>> /\ spawn' = spawn
    BY DEF StopStep, StopBegins, StopProbes, StopUnrouted, StopMarks, StopSignals, StopCloses,
           StopEnds, StopTimesOut, Ends, StopAt, sweeping, counted
  <1>2. PanesKept
    <2>1. CASE StopCloses(s)
      <3>1. rec.pane \in Open => pane[rec.pane] # "none"
        BY DEF Open
      <3> QED
        BY <2>1, <3>1, PanesClosed, PanesSame DEF StopCloses
    <2> QED
      BY <2>1, PanesSame DEF StopStep, StopBegins, StopProbes, StopUnrouted, StopMarks,
           StopSignals, StopEnds, StopTimesOut, world
  <1>3. StopWrites(rec')
    <2>1. CASE StopBegins(s)
      <3>1. Terminal(rec) /\ ~rec.sess => StopWrites(NoRec)
        BY DEF StopWrites, NoRec, Guarded
      <3> QED
        BY <2>1, <3>1, StopRecordKept DEF StopBegins
    <2>2. CASE StopProbes(s)
      <3>1. IsRecord(Marked(TRUE)) /\ StopWrites(Marked(TRUE))
        BY StopRecords, StopRecordKept
      <3>2. \A q : StopWrites([Marked(TRUE) EXCEPT !.pid = q])
        BY <3>1 DEF StopWrites, IsRecord, Records
      <3> QED
        BY <2>2, <3>2, StopRecordKept DEF StopProbes
    <2>3. CASE StopMarks(s) \/ StopSignals(s)
      BY <2>3, StopRecordKept DEF StopMarks, StopSignals
    <2>4. CASE StopEnds(s)
      <3>1. stops[s].pid \in 0..N
        BY DEF Typed, CallsOK, StopCalls
      <3> QED
        BY <2>4, <3>1, StopRecordKept, StopRecords DEF StopEnds
    <2>5. CASE StopTimesOut(s)
      <3>1. StopWrites([rec EXCEPT !.err = "none", !.aged = FALSE])
        BY StopRecordKept DEF StopWrites, Typed, IsRecord, Records
      <3> QED
        BY <2>5, <3>1, StopRecordKept DEF StopTimesOut
    <2> QED
      BY <2>1, <2>2, <2>3, <2>4, <2>5, StopRecordKept DEF StopStep, StopUnrouted, StopCloses
  <1>4. RecordKept
    BY <1>3, RecordWritten DEF StopWrites, Deletable
  <1> QED
    BY <1>1, <1>2, <1>4, ResumesSame, CountedSame DEF Orderly, RecordKept

\* What a resume may write of itself without disturbing the others.
LEMMA ResumeAt ==
    ASSUME Typed, NEW c \in Resumers, NEW r, At(c, r), r.new \in {0, resume[c].new},
           r.at \notin {"idle", "over"} => Resuming(c),
           resume[c].at = "bound" => rec'.st # "creating" \/ faults' > 0
    PROVE  \A d \in Resumers :
             /\ resume'[d].new \in {0, resume[d].new}
             /\ resume'[d].at \notin {"idle", "over"} => Resuming(d)
             /\ resume[d].at = "bound" =>
                   resume'[d] = resume[d] \/ rec'.st # "creating" \/ faults' > 0
  <1>1. /\ \A d \in Resumers : d # c => resume'[d] = resume[d]
        /\ resume'[c] = r
    BY DEF At, Typed, CallsOK
  <1> QED
    BY <1>1 DEF Resuming

LEMMA OverIsNoResume == ResumeOver.new = 0 /\ ResumeOver.at = "over"
  BY DEF ResumeOver, NoResume

LEMMA ResumeOrderly ==
    \A c \in Resumers : IInv /\ ResumeStep(c) =>
        Orderly \/ ResumeBegins(c) \/ ResumePlaces(c) \/ ResumeReopens(c)
  <1> SUFFICES ASSUME IInv, NEW c \in Resumers, ResumeStep(c),
                      ~ResumeBegins(c), ~ResumePlaces(c), ~ResumeReopens(c)
               PROVE  Orderly
    OBVIOUS
  <1> USE DEF IInv
  <1>1. /\ faults' = faults /\ UNCHANGED <<scan, obs>> /\ spawn' = spawn
    BY DEF ResumeStep, ResumeProves, ResumeCleans, ResumeBoots, ResumeLaunches,
           ResumeReturns, ResumeFails, Refused, Proved, At, sweeping, counted
  <1>2. PanesKept
    <2>1. CASE ResumeCleans(c)
      <3>1. resume[c].new \in Panes => pane[resume[c].new] # "none"
        BY DEF Created, Panes
      <3> QED
        BY <2>1, <3>1, PanesClosed, PanesSame DEF ResumeCleans
    <2> QED
      BY <2>1, PanesSame DEF ResumeStep, ResumeProves, ResumeBoots, ResumeLaunches,
           ResumeReturns, ResumeFails, world
  <1>3. /\ RecordKept
        /\ resume[c].at = "bound" => rec'.st # "creating"
    <2>1. CASE ResumeProves(c)
      <3>1. resume[c].at = "proving"
        BY <2>1 DEF ResumeProves
      <3>2. CASE rec' = rec
        BY <3>1, <3>2, RecordSame
      <3>3. CASE rec' # rec
        <4>1. /\ Exists /\ resume[c].reg \in Open
              /\ rec' = [rec EXCEPT !.pane = resume[c].reg, !.aged = FALSE]
          BY <2>1, <3>3 DEF ResumeProves
        <4>2. pane[resume[c].reg] # "none"
          BY <4>1 DEF Open
        <4>3. rec'.pane = resume[c].reg /\ rec'.st = rec.st
          BY <4>1 DEF Typed, IsRecord, Records
        <4>4. rec.st = "creating" => faults > 0
          <5>1. \A d \in Resumers : resume[d].at = "bound" => d = c
            BY <3>1 DEF OneResume, Resuming
          <5> QED
            BY <3>1, <5>1 DEF CreatingAttended
        <4> QED
          BY <1>1, <3>1, <4>1, <4>2, <4>3, <4>4 DEF RecordKept, Exists
      <3> QED
        BY <3>2, <3>3
    <2>2. CASE ResumeBoots(c)
      <3> DEFINE m == Moved(rec, "booting", "none")
      <3>1. IsRecord(m) /\ m.pane = rec.pane
        BY MovedRecord DEF Typed
      <3>2. m.st = "booting"
        BY <2>2 DEF ResumeBoots, Moved, Typed, IsRecord, Records
      <3> HIDE DEF m
      <3>3. rec' = [m EXCEPT !.pid = 0, !.sess = TRUE, !.err = "none"]
        BY <2>2 DEF ResumeBoots, m
      <3>4. rec'.pane = rec.pane /\ rec'.st = "booting"
        BY <3>1, <3>2, <3>3 DEF IsRecord, Records
      <3> QED
        BY <3>4, RecordWritten
    <2>3. CASE ResumeFails(c)
      <3>1. /\ rec'.pane = rec.pane /\ rec'.st # "creating"
            /\ (rec'.st = "absent" <=> rec.st = "absent")
        BY <2>3, MovedRecord DEF ResumeFails, Typed
      <3> QED
        BY <3>1, RecordWritten DEF Guarded, Deletable
    <2>4. CASE ResumeCleans(c) \/ ResumeLaunches(c) \/ ResumeReturns(c)
      BY <2>4, RecordSame DEF ResumeCleans, ResumeLaunches, ResumeReturns
    <2> QED
      BY <2>1, <2>2, <2>3, <2>4 DEF ResumeStep
  <1>4. PICK r : At(c, r) /\ r.new \in {0, resume[c].new} /\ Resuming(c)
    <2>1. Resuming(c)
      BY DEF ResumeStep, ResumeProves, ResumeCleans, ResumeBoots, ResumeLaunches,
             ResumeReturns, ResumeFails, Resuming
    <2>2. \A f : [NoResume EXCEPT !.at = "proved", !.force = f].new = 0
      BY DEF NoResume
    <2>3. \A a : [resume[c] EXCEPT !.at = a].new = resume[c].new
      BY DEF Typed, CallsOK, ResumeCalls
    <2> QED
      BY <2>1, <2>2, <2>3, OverIsNoResume
         DEF ResumeStep, ResumeProves, ResumeCleans, ResumeBoots, ResumeLaunches,
             ResumeReturns, ResumeFails, Refused, Proved
  <1> QED
    BY <1>1, <1>2, <1>3, <1>4, ResumeAt, CountedSame DEF Orderly, RecordKept

LEMMA SweepOrderly == IInv /\ (Sweep \/ WaitMarks) => Orderly
  <1> SUFFICES ASSUME IInv, Sweep \/ WaitMarks PROVE Orderly
    OBVIOUS
  <1> USE DEF IInv
  <1>1. resume' = resume /\ faults' = faults /\ spawn' = spawn /\ PanesKept
    BY PanesSame DEF Sweep, SweepLists, SweepRegistry, SweepCaptures, SweepMarksBoot,
           SweepMarksState, WaitMarks, calls, world, counted
  <1>2. RecordKept
    <2>1. CASE SweepLists
      BY <2>1, RecordSame DEF SweepLists
    <2>2. CASE SweepRegistry
      <3>1. rec'.st = "absent" => ~Guarded(rec)
        BY <2>2, SweptRecord DEF Guarded
      <3> QED
        BY <2>2, <3>1, SweptRecord, RecordWritten DEF Deletable
    <2>3. CASE SweepCaptures \/ SweepMarksBoot \/ SweepMarksState \/ WaitMarks
      BY <2>3, ScreenRecord, RecordWritten
    <2> QED
      BY <2>1, <2>2, <2>3 DEF Sweep
  <1>3. \/ UNCHANGED <<scan, obs>>
        \/ scan'.at = "idle" /\ obs' \in {0, obs, rec.pane}
        \/ scan'.open = Open /\ obs' = obs
    <2>1. CASE SweepLists
      BY <2>1 DEF SweepLists
    <2>2. CASE SweepRegistry
      BY <2>2, SweptRecord DEF SweepRegistry, NoScan
    <2> QED
      BY <2>1, <2>2
         DEF Sweep, SweepCaptures, SweepMarksBoot, SweepMarksState, WaitMarks, sweeping
  <1> QED
    BY <1>1, <1>2, <1>3, ResumesSame, CountedSame DEF Orderly, RecordKept

LEMMA ListingOrderly == IInv /\ Listing => Orderly
  <1> SUFFICES ASSUME IInv, Listing PROVE Orderly
    OBVIOUS
  <1> USE DEF IInv
  <1>1. /\ resume' = resume /\ faults' = faults /\ spawn' = spawn /\ PanesKept
        /\ scan' = scan
    BY PanesSame DEF Listing, ListEvicts, ListTidies, ListGhosts, ListRecovers, ListHeals, Writes,
                     calls, world, counted, sweeping
  <1>2. RecordKept /\ (obs' \in {0, obs} \/ (obs' = rec.pane /\ rec.pane \notin Open))
    <2>1. CASE ListEvicts \/ ListTidies
      <3>1. rec'.st = "absent" => Deletable
        BY <2>1, ListRecord DEF Deletable, Guarded
      <3>2. rec'.st = "creating" => rec' = rec
        BY <2>1, ListRecord DEF Active
      <3> QED
        BY <2>1, <3>1, <3>2, ListRecord, RecordWritten
    <2>2. CASE ListGhosts
      <3>1. rec'.pane = 0 /\ rec'.st = "absent" /\ obs' = 0 /\ Deletable
        BY <2>2 DEF ListGhosts, NoRec, Deletable
      <3> QED
        BY <3>1, RecordWritten
    <2>3. CASE ListRecovers
      BY <2>3, RecoveredRecord DEF RecordKept, ListRecovers, sweeping
    <2>4. CASE ListHeals
      BY <2>4, HealedRecord, RecordWritten DEF ListHeals, sweeping
    <2> QED
      BY <2>1, <2>2, <2>3, <2>4 DEF Listing
  <1> QED
    BY <1>1, <1>2, ResumesSame, CountedSame DEF Orderly, RecordKept

LEMMA WorldOrderly == IInv /\ World => Orderly
  <1> SUFFICES ASSUME IInv, World PROVE Orderly
    OBVIOUS
  <1> USE DEF IInv
  <1>1. resume' = resume /\ spawn' = spawn /\ UNCHANGED <<scan, obs>>
    BY DEF World, Ages, ProcStarts, Registers, ProcEnds, PaneCloses, calls, sweeping
  <1>2. faults' >= faults
    BY CountedSame DEF World, Ages, ProcStarts, Registers, ProcEnds, PaneCloses, counted
  <1>3. PanesKept
    <2>1. ASSUME NEW p \in Panes, PaneCloses(p) PROVE PanesKept
      BY <2>1, PanesClosed DEF PaneCloses
    <2> QED
      BY <2>1, PanesSame DEF World, Ages, ProcStarts, Registers, ProcEnds, world
  <1>4. RecordKept
    <2>1. CASE Ages
      <3>1. rec'.pane = rec.pane /\ rec'.st = rec.st /\ Terminal(rec)
        BY <2>1 DEF Ages, Typed, IsRecord, Records
      <3> QED
        BY <3>1, RecordWritten DEF Terminal
    <2>2. CASE rec' = rec
      BY <2>2, RecordSame
    <2> QED
      BY <2>1, <2>2 DEF World, ProcStarts, Registers, ProcEnds, PaneCloses
  <1> QED
    BY <1>1, <1>2, <1>3, <1>4, ResumesSame DEF Orderly, RecordKept

LEMMA RestartOrderly == IInv /\ Restart => Orderly
  <1> SUFFICES ASSUME IInv, Restart PROVE Orderly
    OBVIOUS
  <1> USE DEF IInv
  <1>1. faults' >= faults /\ faults' > 0
    BY CountedSame DEF Restart
  <1>2. PanesKept
    BY PanesSame DEF Restart, world
  <1>3. (spawn' = "idle" <=> spawn = "idle") /\ scan'.at = "idle" /\ obs' = 0
    BY DEF Restart, NoScan
  <1>4. /\ rec'.pane # 0 => pane[rec'.pane] # "none"
        /\ rec'.st = "absent" => ~Guarded(rec)
    BY RestartRecord DEF Created, Guarded
  <1>5. \A c \in Resumers : resume'[c] \in {resume[c], ResumeOver}
    BY DEF Restart
  <1> QED
    BY <1>1, <1>2, <1>3, <1>4, <1>5, OverIsNoResume DEF Orderly, Deletable, Resuming

-----------------------------------------------------------------------------
(* The steps that are not orderly. *)

\* createAgentSurface: what is used stays an interval, and the pane is new.
LEMMA NextIsNew ==
    ASSUME Typed, Created, NextPane \in Panes
    PROVE  /\ pane[NextPane] = "none" /\ NextPane # 1
           /\ Used \cup {NextPane} = 1..Cardinality(Used \cup {NextPane})
  <1> DEFINE k == Cardinality(Used)
  <1>1. IsFiniteSet(Used) /\ k \in Nat
    <2>1. IsFiniteSet(1..N)
      BY Bounds, FS_Interval
    <2>2. Used \subseteq 1..N
      BY Bounds DEF Used, Panes
    <2> QED
      BY <2>1, <2>2, FS_Subset, FS_CardinalityType
  <1>2. NextPane = k + 1
    BY DEF NextPane, Used
  <1>3. k + 1 \notin Used
    BY <1>1 DEF Created
  <1>4. Cardinality(Used \cup {NextPane}) = k + 1
    BY <1>1, <1>2, <1>3, FS_AddElement
  <1>5. Used \cup {NextPane} = 1..(k + 1)
    BY <1>1, <1>2 DEF Created
  <1>6. pane[NextPane] = "none" /\ NextPane # 1
    BY <1>2, <1>3 DEF Used
  <1> QED
    BY <1>4, <1>5, <1>6

LEMMA SpawnPlacesKeeps == IInv /\ Typed' /\ SpawnPlaces => IInv'
  <1> SUFFICES ASSUME IInv, Typed', SpawnPlaces PROVE IInv'
    OBVIOUS
  <1> USE DEF IInv
  <1>1. /\ pane' = [pane EXCEPT ![1] = "open"] /\ spawn' = "placed" /\ spawn = "idle"
        /\ resume' = resume /\ rec' = rec /\ scan' = scan /\ obs' = obs /\ faults' = faults
    BY DEF SpawnPlaces, Spawned, sweeping, counted
  <1>2. Used' = Used
    BY <1>1 DEF Used, Typed, WorldOK
  <1>3. \A p : pane[p] # "none" => pane'[p] = pane[p]
    BY <1>1 DEF Created, Typed, WorldOK
  <1>4. pane'[1] = "open"
    BY <1>1, Bounds DEF Typed, WorldOK
  <1>5. Created'
    BY <1>1, <1>2, <1>3, <1>4 DEF Created
  <1>6. Listed'
    BY <1>1, <1>3 DEF Created, Listed
  <1>7. OneResume' /\ CreatingAttended'
    BY <1>1 DEF OneResume, Resuming, CreatingAttended
  <1> QED
    BY <1>5, <1>6, <1>7

LEMMA ResumePlacesKeeps ==
    \A c \in Resumers : IInv /\ Typed' /\ ResumePlaces(c) => IInv'
  <1> SUFFICES ASSUME IInv, Typed', NEW c \in Resumers, ResumePlaces(c) PROVE IInv'
    OBVIOUS
  <1> USE DEF IInv
  <1>1. /\ rec' = rec /\ scan' = scan /\ obs' = obs /\ faults' = faults /\ spawn' = spawn
        /\ Resuming(c)
    BY DEF ResumePlaces, Refused, At, Resuming, sweeping, counted
  <1>2. PICK r : At(c, r)
    BY DEF ResumePlaces, Refused
  <1>3. /\ \A d \in Resumers : d # c => resume'[d] = resume[d]
        /\ resume'[c] = r
    BY <1>2 DEF At, Typed, CallsOK
  <1>4. resume[c].at = "proved"
    BY DEF ResumePlaces
  <1>5. OneResume' /\ CreatingAttended'
    BY <1>1, <1>3, <1>4 DEF OneResume, Resuming, CreatingAttended
  <1>6. CASE Refused(c) /\ pane' = pane
    <2>1. resume'[c] = ResumeOver
      BY <1>6 DEF Refused, At, Typed, CallsOK
    <2>2. Used' = Used
      BY <1>6 DEF Used
    <2> QED
      BY <1>1, <1>3, <1>5, <1>6, <2>1, <2>2, OverIsNoResume DEF Created, Listed
  <1>7. CASE /\ NextPane \in Panes /\ pane' = [pane EXCEPT ![NextPane] = "open"]
             /\ At(c, [resume[c] EXCEPT !.at = "placed", !.new = NextPane])
    <2>1. resume'[c].new = NextPane
      BY <1>7 DEF At, Typed, CallsOK, ResumeCalls
    <2>2. /\ pane[NextPane] = "none" /\ NextPane # 1
          /\ Used \cup {NextPane} = 1..Cardinality(Used \cup {NextPane})
      BY <1>7, NextIsNew
    <2> HIDE DEF NextPane
    <2>3. Used' = Used \cup {NextPane}
      BY <1>7 DEF Used, Typed, WorldOK
    <2>4. \A p : pane[p] # "none" => pane'[p] = pane[p]
      BY <1>7, <2>2 DEF Typed, WorldOK
    <2>5. pane'[NextPane] = "open" /\ pane'[1] = pane[1]
      BY <1>7, <2>2, Bounds DEF Typed, WorldOK
    <2>6. Created'
      BY <1>1, <1>3, <2>1, <2>2, <2>3, <2>4, <2>5 DEF Created
    <2>7. Listed'
      BY <1>1, <2>4 DEF Created, Listed
    <2> QED
      BY <1>5, <2>6, <2>7
  <1> QED
    BY <1>6, <1>7 DEF ResumePlaces

LEMMA ResumeBeginsKeeps ==
    \A c \in Resumers : IInv /\ Typed' /\ ResumeBegins(c) => IInv'
  <1> SUFFICES ASSUME IInv, Typed', NEW c \in Resumers, ResumeBegins(c) PROVE IInv'
    OBVIOUS
  <1> USE DEF IInv
  <1>1. /\ rec' = rec /\ scan' = scan /\ obs' = obs /\ faults' = faults /\ spawn' = spawn
        /\ pane' = pane /\ resume[c].at = "idle" /\ \A d \in Resumers : ~Resuming(d)
    BY DEF ResumeBegins, ResumeFree, At, world, sweeping, counted
  <1>2. PICK r : At(c, r) /\ r.new = 0
    BY DEF ResumeBegins
  <1>3. /\ \A d \in Resumers : d # c => resume'[d] = resume[d]
        /\ resume'[c].new = 0
    BY <1>2 DEF At, Typed, CallsOK
  <1>4. Used' = Used
    BY <1>1 DEF Used
  <1>5. Created' /\ Listed'
    BY <1>1, <1>3, <1>4 DEF Created, Listed
  <1>6. OneResume' /\ CreatingAttended'
    BY <1>1, <1>3 DEF OneResume, Resuming, CreatingAttended
  <1> QED
    BY <1>5, <1>6

LEMMA ResumeReopensKeeps ==
    \A c \in Resumers : IInv /\ Typed' /\ ResumeReopens(c) => IInv'
  <1> SUFFICES ASSUME IInv, Typed', NEW c \in Resumers, ResumeReopens(c) PROVE IInv'
    OBVIOUS
  <1> USE DEF IInv
  <1>1. /\ rec' = Reopened(resume[c].new) /\ scan' = scan /\ obs' = obs /\ faults' = faults
        /\ spawn' = spawn /\ pane' = pane /\ resume[c].at = "placed"
        /\ At(c, [resume[c] EXCEPT !.at = "bound"])
    BY DEF ResumeReopens, At, world, sweeping, counted
  <1>2. /\ \A d \in Resumers : d # c => resume'[d] = resume[d]
        /\ resume'[c].new = resume[c].new /\ resume'[c].at = "bound"
    BY <1>1 DEF At, Typed, CallsOK, ResumeCalls
  <1>3. rec'.pane = resume[c].new
    BY <1>1 DEF Reopened, Typed, IsRecord, Records
  <1>4. Used' = Used
    BY <1>1 DEF Used
  <1>5. Created' /\ Listed'
    BY <1>1, <1>2, <1>3, <1>4 DEF Created, Listed
  <1>6. OneResume' /\ CreatingAttended'
    BY <1>1, <1>2, <1>3 DEF OneResume, Resuming, CreatingAttended
  <1> QED
    BY <1>5, <1>6

-----------------------------------------------------------------------------
(* The invariant. *)

LEMMA InitIInv == Init => IInv
  <1> SUFFICES ASSUME Init PROVE IInv
    OBVIOUS
  <1>1. Typed
    BY InitTyped
  <1>2. rec = NoRec /\ NoRec.pane = 0 /\ NoRec.st = "absent"
    BY DEF Init, NoRec
  <1>3. Used = {1} /\ Cardinality({1}) = 1
    BY FS_Singleton DEF Init, Used, Panes
  <1>4. \A c \in Resumers : resume[c].new = 0 /\ resume[c].at \in {"idle", "over"}
    BY DEF Init, NoResume, ResumeOver
  <1>5. Created
    BY <1>2, <1>3, <1>4, Bounds DEF Created, Init
  <1>6. Listed /\ OneResume /\ CreatingAttended
    BY <1>2, <1>4 DEF Init, Listed, NoScan, OneResume, Resuming, CreatingAttended
  <1> QED
    BY <1>1, <1>5, <1>6 DEF IInv

LEMMA StepKeeps == IInv /\ [Next]_vars => IInv'
  <1> SUFFICES ASSUME IInv, [Next]_vars PROVE IInv'
    OBVIOUS
  <1>1. Typed'
    BY StepTyped DEF IInv
  <1>2. CASE UNCHANGED vars
    <2>1. UNCHANGED <<Created, Listed, OneResume, CreatingAttended>>
      BY <1>2 DEF vars, world, calls, sweeping, counted, Created, Used, Listed, OneResume,
                  Resuming, CreatingAttended
    <2> QED
      BY <1>1, <2>1 DEF IInv
  <1>3. CASE Next
    BY <1>1, <1>3, OrderlyKeeps, SpawnOrderly, StopOrderly, ResumeOrderly, SweepOrderly,
       ListingOrderly, WorldOrderly, RestartOrderly, SpawnPlacesKeeps, ResumePlacesKeeps, ResumeBeginsKeeps,
       ResumeReopensKeeps DEF Next
  <1> QED
    BY <1>2, <1>3

\* The panes are created in their order, a listing shows the pane that was
\* missed before it, one resume runs at a time, and types are right.
THEOREM Invariance == Spec => []IInv
  BY InitIInv, StepKeeps, PTL DEF Spec

\* Every variable has its type.
THEOREM TypeCorrect == Spec => []TypeOK
  BY Invariance, TypedIsTypeOK, PTL DEF IInv

\* resumeAgent: a record is not left creating by a resume that fails.
THEOREM CreatingIsAttended == Spec => []CreatingAttended
  BY Invariance, PTL DEF IInv

\* A step deletes no session before its retention window has passed.
LEMMA StepKeepsSessions ==
    ASSUME IInv, [Next]_vars, Exists, rec.sess, ~Exists'
    PROVE  (Terminal(rec) /\ rec.aged) \/ Dropped \/ ListGhosts
  <1>1. Orderly => Deletable
    BY DEF Orderly, Exists
  <1>2. Deletable
    <2>1. CASE UNCHANGED vars
      BY <2>1 DEF vars, Exists
    <2>2. SpawnPlaces => Exists'
      BY DEF SpawnPlaces, Exists
    <2>3. \A c \in Resumers : ResumePlaces(c) \/ ResumeBegins(c) => Exists'
      BY DEF ResumePlaces, ResumeBegins, Exists
    <2>4. \A c \in Resumers : ResumeReopens(c) => Exists'
      BY DEF ResumeReopens, Reopened, Exists, IInv, Typed, IsRecord, Records
    <2>5. CASE Next
      BY <1>1, <2>2, <2>3, <2>4, <2>5, SpawnOrderly, StopOrderly, ResumeOrderly, SweepOrderly,
         ListingOrderly, WorldOrderly, RestartOrderly DEF Next
    <2> QED
      BY <2>1, <2>5
  <1> QED
    BY <1>2 DEF Guarded, Exists, Deletable

\* The sweeps, the stops and a restart keep every row a session can be resumed
\* by until its retention window has passed; what list_agents deletes before is
\* a live session's row whose pane was missed and confirmed, or a ghost's.
THEOREM SessionRowsStay == Spec => SessionRowsKept
  <1>1. IInv /\ [Next]_vars =>
          [Exists /\ rec.sess /\ ~Exists' =>
             \/ Terminal(rec) /\ rec.aged
             \/ ListEvicts /\ ~Terminal(rec) /\ rec.pane \notin Open /\ obs = rec.pane
             \/ ListGhosts]_vars
    BY StepKeepsSessions DEF Dropped
  <1> QED
    BY <1>1, Invariance, PTL DEF Spec, SessionRowsKept

\* A sweep with an old listing.
LEMMA SweepKeepsLive ==
    ASSUME IInv, SweepRegistry, Exists, ~Terminal(rec), rec.pane \in Open
    PROVE  rec' = rec
  <1>1. PICK gone \in GoneReadings, ripe \in {FALSE, obs # 0} :
          rec' = Swept(Row(rec, obs, ripe), scan.open, gone).rec
    BY DEF SweepRegistry
  <1>2. gone \in BOOLEAN /\ ripe \in BOOLEAN
    BY DEF GoneReadings
  <1> DEFINE x == Row(rec, obs, ripe)
  <1>3. IsRow(x) /\ x.rec = rec /\ x.obs = obs
    BY <1>2, RowFields DEF IInv, Typed, SweepingOK
  <1>4. rec.pane # 0 /\ pane[rec.pane] = "open"
    BY DEF Open, Panes
  <1>5. obs = rec.pane => obs \in scan.open
    BY <1>4 DEF IInv, Listed, SweepRegistry
  <1>6. scan.open \in SUBSET Panes
    BY DEF IInv, Typed, SweepingOK
  <1> HIDE DEF x
  <1>7. Swept(x, scan.open, gone).rec = x.rec
    BY <1>2, <1>3, <1>4, <1>5, <1>6, SweptLive DEF Exists
  <1> QED
    BY <1>1, <1>3, <1>7 DEF x

\* A pass of list_agents or wait_for with a listing of its own.
LEMMA ListKeepsLive ==
    ASSUME IInv, ListEvicts \/ ListTidies, Exists, ~Terminal(rec), rec.pane \in Open
    PROVE  rec' = rec
  <1>1. rec.pane # 0
    BY DEF Open, Panes
  <1>2. ASSUME NEW y \in Remembered, NEW gone \in GoneReadings
        PROVE  /\ Reconciled(y, Open, gone).rec = rec /\ Evicted(y, Open, gone).rec = rec
               /\ Purged(y, Open, gone).rec = rec
    <2>1. Live(y) /\ y.rec = rec /\ gone \in BOOLEAN
      BY <1>1, ListedRow DEF IInv, GoneReadings
    <2> QED
      BY <1>1, <2>1, LivePasses, LiveSeen
  <1> QED
    BY <1>2 DEF ListEvicts, ListTidies, Writes

\* reconcileSurfaces, evictSurfaceless and the purges leave an agent alone that
\* lives in an open pane, whoever runs them, and however old the listing.
THEOREM LivePanesStay == Spec => LivePanesKept
  <1>1. IInv /\ [Next]_vars =>
          [Exists /\ ~Terminal(rec) /\ rec.pane \in Open /\ rec' # rec =>
             ~(SweepRegistry \/ ListEvicts \/ ListTidies)]_vars
    BY SweepKeepsLive, ListKeepsLive
  <1> QED
    BY <1>1, Invariance, PTL DEF Spec, LivePanesKept

-----------------------------------------------------------------------------
(* One process per session.  What is proved of every state in which no     *)
(* resume was forced and no stop has strayed: Alone.                       *)

\* Where a command was typed or a CLI runs.
Busy == {p \in Panes : proc[p] # "none"}
NoneTyped == \A p \in Panes : proc[p] # "typed"

\* What a pid that was recorded proves: nothing waits to start, and the spawn's
\* CLI, whose command line carries no session, runs only as that pid.
Rules(pid) == pid # 0 => NoneTyped /\ (proc[1] = "running" => pid = 1)

Early == spawn \in {"idle", "placed", "recorded"}
\* A resume that has a pane and has not typed its command.
Fresh(c) == resume[c].at \in {"placed", "bound", "booting"}

OneCli == \A p, q \in Busy : p = q

\* The pids that can be taken for a proof; a stop's may be out of date, but
\* then a CLI is busy elsewhere, and the stop's end strays.
PidsRule ==
    /\ Rules(rec.pid)
    /\ \A c \in Resumers : resume[c].at = "proving" => Rules(resume[c].pid)
    /\ \A s \in Stoppers : Rules(stops[s].pid) \/ \E p \in Busy : p # stops[s].pane

\* A resume's new pane belongs to it alone until the command is typed.
NewIsFresh ==
    \A c \in Resumers : Fresh(c) =>
        /\ resume[c].new \in Panes \ {1} /\ proc[resume[c].new] = "none"
        /\ reg # resume[c].new
        /\ rec.pid # 0 => rec.pane # resume[c].new
        /\ \A s \in Stoppers : stops[s].pid # 0 => stops[s].pane # resume[c].new

\* The proof of absence stays good until the command is typed.
ProofHolds ==
    \A c \in Resumers : (resume[c].at = "proved" \/ Fresh(c)) /\ ~resume[c].force => Busy = {}

\* Until the spawn has typed its command there is nothing to resume.
SpawnFirst ==
    Early => /\ Busy = {} /\ reg = 0 /\ rec.pid = 0 /\ ~rec.sess
             /\ \A c \in Resumers : ~Resuming(c)
             /\ \A s \in Stoppers : stops[s].pid = 0

PanesFirst ==
    /\ \A p \in Panes : pane[p] = "none" => proc[p] = "none" /\ reg # p
    /\ \A s \in Stoppers : stops[s].pane # 0 => pane[stops[s].pane] # "none"

\* A CLI that registered has started, and the spawn's is over by the time a
\* resumed one registers.
RegisteredRan == reg # 0 => proc[reg] # "typed" /\ (reg # 1 => proc[1] = "none")

\* The row from whose pane a registration would be captured has no command
\* waiting in another.
CapturesRight ==
    Active(rec) =>
        /\ reg = rec.pane => \A p \in Panes : proc[p] = "typed" => p = rec.pane
        /\ \A c \in Resumers : resume[c].at = "proving" => NoneTyped

Alone ==
    /\ OneCli /\ PidsRule /\ NewIsFresh /\ ProofHolds
    /\ SpawnFirst /\ PanesFirst /\ RegisteredRan /\ CapturesRight

\* What nearly every step keeps of it: no command is typed, and a record that
\* learns a pid learns one that proves something.
Tame(r) ==
    /\ r.pid # 0 =>
         \/ r.pid = rec.pid /\ r.pane \in {0, rec.pane}
         \/ Rules(r.pid) /\ ~Early /\ \A c \in Resumers : Fresh(c) => resume[c].new # r.pane
    /\ r.sess => rec.sess \/ ~Early
    /\ Active(r) =>
         \/ NoneTyped
         \/ Active(rec) /\ r.pane = rec.pane
         \/ reg # r.pane /\ \A c \in Resumers : resume'[c].at # "proving"

OnlyEnds == reg' = reg /\ \A p \in Panes : proc'[p] \in {proc[p], "none"}

ResumeGoesOn(c) ==
    \/ resume'[c].at \in {"idle", "typed", "over"}
    \/ /\ resume'[c].new = resume[c].new /\ resume'[c].force = resume[c].force
       /\ resume'[c].pid = resume[c].pid
       /\ resume'[c].at = resume[c].at \/ (Fresh(c) /\ Fresh(c)')

StopReads(s) ==
    \/ stops'[s].pid = 0 /\ stops'[s].pane = 0
    \/ stops'[s].pid = stops[s].pid /\ stops'[s].pane = stops[s].pane
    \/ stops'[s].pid = rec.pid /\ stops'[s].pane = rec.pane

Quiet ==
    /\ OnlyEnds /\ PanesKept /\ Tame(rec')
    /\ Early' => Early /\ \A c \in Resumers : Resuming(c)' => Resuming(c)
    /\ \A c \in Resumers : ResumeGoesOn(c)
    /\ \A s \in Stoppers : StopReads(s)

\* Rules, after a step.
RulesThen(pid) == pid # 0 => NoneTyped' /\ (proc'[1] = "running" => pid = 1)

LEMMA QuietKeeps ==
    ASSUME IInv, IInv', Alone, Quiet
    PROVE  Alone'
  <1> USE DEF Quiet
  <1>0. /\ proc \in [Panes -> {"none", "typed", "running"}]
        /\ proc' \in [Panes -> {"none", "typed", "running"}]
        /\ 1 \in Panes /\ \A p \in 0..N : p # 0 => p \in Panes
        /\ rec.pane \in 0..N /\ rec.pid \in 0..N /\ rec'.pane \in 0..N /\ reg \in 0..N
    BY Bounds DEF IInv, Typed, WorldOK, IsRecord, Records, Panes
  <1>1. Busy' \subseteq Busy /\ \A pid : Rules(pid) => RulesThen(pid)
    BY <1>0 DEF OnlyEnds, Busy, Rules, RulesThen, NoneTyped
  <1>2. OneCli'
    BY <1>1 DEF Alone, OneCli
  <1>3. Busy' = {} => \A pid : RulesThen(pid)
    BY <1>0 DEF Busy, RulesThen, NoneTyped
  <1>4. PidsRule'
    <2>1. RulesThen(rec'.pid)
      BY <1>1 DEF Tame, Alone, PidsRule, RulesThen
    <2>2. ASSUME NEW c \in Resumers, resume'[c].at = "proving" PROVE RulesThen(resume'[c].pid)
      BY <1>1, <2>2 DEF ResumeGoesOn, Fresh, Alone, PidsRule
    <2>3. ASSUME NEW s \in Stoppers
          PROVE  RulesThen(stops'[s].pid) \/ \E p \in Busy' : p # stops'[s].pane
      <3>1. CASE stops'[s].pid = 0
        BY <3>1 DEF RulesThen
      <3>2. CASE stops'[s].pid = rec.pid
        BY <1>1, <3>2 DEF Alone, PidsRule
      <3>3. CASE stops'[s].pid = stops[s].pid /\ stops'[s].pane = stops[s].pane
        <4>1. CASE Rules(stops[s].pid)
          BY <1>1, <3>3, <4>1
        <4>2. CASE \E p \in Busy : p # stops[s].pane
          <5>1. PICK p \in Busy : p # stops[s].pane
            BY <4>2
          <5>2. Busy' = {} \/ p \in Busy'
            BY <1>1 DEF Alone, OneCli
          <5> QED
            BY <1>3, <3>3, <5>1, <5>2
        <4> QED
          BY <4>1, <4>2 DEF Alone, PidsRule
      <3> QED
        BY <3>1, <3>2, <3>3 DEF StopReads
    <2> QED
      BY <2>1, <2>2, <2>3 DEF PidsRule, Rules, RulesThen
  <1>5. NewIsFresh'
    <2> SUFFICES ASSUME NEW c \in Resumers, Fresh(c)'
                 PROVE  /\ resume'[c].new \in Panes \ {1} /\ proc'[resume'[c].new] = "none"
                        /\ reg' # resume'[c].new
                        /\ rec'.pid # 0 => rec'.pane # resume'[c].new
                        /\ \A s \in Stoppers : stops'[s].pid # 0 => stops'[s].pane # resume'[c].new
      BY DEF NewIsFresh
    <2>1. Fresh(c) /\ resume'[c].new = resume[c].new
      BY DEF ResumeGoesOn, Fresh
    <2>2. /\ resume[c].new \in Panes \ {1} /\ proc[resume[c].new] = "none"
          /\ reg # resume[c].new
          /\ rec.pid # 0 => rec.pane # resume[c].new
          /\ \A s \in Stoppers : stops[s].pid # 0 => stops[s].pane # resume[c].new
      BY <2>1 DEF Alone, NewIsFresh
    <2>3. resume[c].new # 0
      BY <2>2 DEF Panes
    <2>4. rec'.pid # 0 => rec'.pane # resume[c].new
      BY <2>1, <2>2, <2>3 DEF Tame
    <2>5. \A s \in Stoppers : stops'[s].pid # 0 => stops'[s].pane # resume[c].new
      BY <2>2 DEF StopReads
    <2> QED
      BY <2>1, <2>2, <2>4, <2>5 DEF OnlyEnds
  <1>6. ProofHolds'
    BY <1>1 DEF ResumeGoesOn, Alone, ProofHolds, Fresh
  <1>7. SpawnFirst'
    BY <1>1 DEF Alone, SpawnFirst, Tame, OnlyEnds, StopReads
  <1>8. PanesFirst'
    <2>1. \A p \in Panes : pane'[p] = "none" => proc'[p] = "none" /\ reg' # p
      BY DEF PanesKept, OnlyEnds, Alone, PanesFirst
    <2>2. ASSUME NEW s \in Stoppers, stops'[s].pane # 0 PROVE pane[stops'[s].pane] # "none"
      BY <2>2 DEF StopReads, Alone, PanesFirst, IInv, Created
    <2>3. \A s \in Stoppers : stops'[s].pane \in 0..N
      BY DEF IInv, Typed, CallsOK, StopCalls
    <2> QED
      BY <1>0, <2>1, <2>2, <2>3 DEF PanesFirst, PanesKept
  <1>9. RegisteredRan'
    BY <1>0 DEF OnlyEnds, Alone, RegisteredRan
  <1>10. CapturesRight'
    <2> SUFFICES ASSUME Active(rec')
                 PROVE  /\ reg' = rec'.pane => \A p \in Panes : proc'[p] = "typed" => p = rec'.pane
                        /\ \A c \in Resumers : resume'[c].at = "proving" => NoneTyped'
      BY DEF CapturesRight, Active
    <2>1. \A p \in Panes : proc'[p] = "typed" => proc[p] = "typed"
      BY DEF OnlyEnds
    <2>2. CASE NoneTyped
      BY <2>1, <2>2 DEF NoneTyped
    <2>3. CASE reg # rec'.pane /\ \A c \in Resumers : resume'[c].at # "proving"
      BY <2>3 DEF OnlyEnds
    <2>4. CASE Active(rec) /\ rec'.pane = rec.pane
      <3>1. \A c \in Resumers : resume'[c].at = "proving" => resume[c].at = "proving"
        BY DEF ResumeGoesOn, Fresh
      <3> QED
        BY <2>1, <2>4, <3>1 DEF Alone, CapturesRight, NoneTyped, OnlyEnds
    <2> QED
      BY <2>2, <2>3, <2>4 DEF Tame
  <1> QED
    BY <1>2, <1>4, <1>5, <1>6, <1>7, <1>8, <1>9, <1>10 DEF Alone

LEMMA AtIs ==
    ASSUME Typed, NEW c \in Resumers, NEW r, At(c, r)
    PROVE  /\ resume'[c] = r /\ \A d \in Resumers : d # c => resume'[d] = resume[d]
           /\ spawn' = spawn /\ stops' = stops
  BY DEF At, Typed, CallsOK

LEMMA StopAtIs ==
    ASSUME Typed, NEW s \in Stoppers, NEW r, StopAt(s, r)
    PROVE  /\ stops'[s] = r /\ \A t \in Stoppers : t # s => stops'[t] = stops[t]
           /\ spawn' = spawn /\ resume' = resume
  BY DEF StopAt, Typed, CallsOK

LEMMA ResumesStay ==
    resume' = resume => \A c \in Resumers : ResumeGoesOn(c) /\ (Resuming(c)' => Resuming(c))
  BY DEF ResumeGoesOn, Resuming

LEMMA StopsStay == stops' = stops => \A s \in Stoppers : StopReads(s)
  BY DEF StopReads

LEMMA TameSame == Tame(rec)
  BY DEF Tame

LEMMA TameMoved ==
    ASSUME NEW r, IsRecord(r), Tame(r), NEW to \in {"booting", "active", "done", "error"},
           NEW err \in {"none", "crash", "stuck"}
    PROVE  Tame(Moved(r, to, err))
  <1>1. /\ Moved(r, to, err).pane = r.pane /\ Moved(r, to, err).pid = r.pid
        /\ Moved(r, to, err).sess = r.sess
    BY MovedRecord
  <1>2. Active(Moved(r, to, err)) => Active(r)
    BY DEF Moved, CanMove, Active
  <1> QED
    BY <1>1, <1>2 DEF Tame

\* A capture of a registered pid: nothing waits to start in another pane.
LEMMA CaptureTame ==
    ASSUME IInv, Alone, NEW r \in Captures(rec)
    PROVE  Tame(r) /\ IsRecord(r)
  <1>0. /\ IsRecord(r) /\ r.st = rec.st /\ r.pane = rec.pane
        /\ rec.pane \in 0..N /\ \A p \in 0..N : p # 0 => p \in Panes
    <2>1. IsRecord(r) /\ r.st = rec.st /\ r.pane = rec.pane
      BY CapturedRecord DEF IInv
    <2>2. rec.pane \in 0..N /\ \A p \in 0..N : p # 0 => p \in Panes
      BY Bounds, RecordPane DEF IInv, Typed, Panes
    <2> QED
      BY <2>1, <2>2
  <1>1. CASE r = [rec EXCEPT !.sess = TRUE, !.pid = reg, !.aged = FALSE]
             /\ rec.st \in {"booting", "active"} /\ reg # 0 /\ reg = rec.pane
    <2>1. r.pid = reg
      BY <1>1 DEF IInv, Typed, IsRecord, Records
    <2>2. NoneTyped
      BY <1>0, <1>1 DEF Alone, CapturesRight, RegisteredRan, Active, NoneTyped
    <2>3. proc[1] = "running" => reg = 1
      BY <1>1 DEF Alone, RegisteredRan
    <2>4. ~Early
      BY <1>1 DEF Alone, SpawnFirst
    <2>5. \A c \in Resumers : Fresh(c) => resume[c].new # rec.pane
      BY <1>1 DEF Alone, NewIsFresh
    <2> QED
      BY <1>0, <2>1, <2>2, <2>3, <2>4, <2>5 DEF Tame, Rules
  <1>2. CASE r = [rec EXCEPT !.sess = TRUE, !.aged = FALSE] /\ Running(rec)
    <2>1. r.pid = rec.pid
      BY <1>2 DEF IInv, Typed, IsRecord, Records
    <2>2. ~Early
      BY <1>0, <1>2 DEF Running, Alone, SpawnFirst, Busy
    <2> QED
      BY <1>0, <2>1, <2>2 DEF Tame, Active
  <1> QED
    BY <1>1, <1>2 DEF Captures

LEMMA SpawnQuiet ==
    ASSUME IInv, Alone, SpawnStep, ~SpawnPlaces, ~SpawnLaunches
    PROVE  Quiet
  <1>1. PanesKept
    BY SpawnOrderly DEF Orderly
  <1>2. /\ resume' = resume /\ stops' = stops /\ reg' = reg /\ (Early' => Early)
    BY DEF SpawnStep, SpawnUnfocused, SpawnRecords, SpawnUnrecorded, SpawnMisplaced,
           SpawnReturns, SpawnFails, Spawned, world, Early
  <1>3. OnlyEnds
    BY <1>2 DEF SpawnStep, SpawnUnfocused, SpawnRecords, SpawnUnrecorded, SpawnMisplaced,
           SpawnReturns, SpawnFails, Close, OnlyEnds, world, IInv, Typed, WorldOK
  <1>4. Tame(rec')
    <2>1. CASE SpawnRecords \/ SpawnUnrecorded
      <3>1. NoneTyped
        BY <2>1 DEF SpawnRecords, SpawnUnrecorded, Alone, SpawnFirst, Early, Busy, NoneTyped
      <3>2. rec' = rec \/ (rec'.pid = 0 /\ ~rec'.sess)
        BY <2>1 DEF SpawnRecords, SpawnUnrecorded, NoRec
      <3> QED
        BY <3>1, <3>2, TameSame DEF Tame
    <2>2. CASE SpawnReturns
      BY <2>2, CaptureTame, TameSame DEF SpawnReturns
    <2>3. CASE SpawnFails
      <3>1. PICK r \in {rec} \cup Captures(rec) : rec' = Moved(r, "error", "none")
        BY <2>3 DEF SpawnFails
      <3>2. IsRecord(r) /\ Tame(r)
        BY CaptureTame, TameSame DEF IInv, Typed
      <3> QED
        BY <3>1, <3>2, TameMoved
    <2> QED
      BY <2>1, <2>2, <2>3, TameSame DEF SpawnStep, SpawnUnfocused, SpawnMisplaced
  <1> QED
    BY <1>1, <1>2, <1>3, <1>4, ResumesStay, StopsStay DEF Quiet

\* A resume that neither begins, nor has proved anything, nor types.
LEMMA ResumeQuiet ==
    ASSUME IInv, Alone, NEW c \in Resumers, ResumeStep(c), ~ResumeBegins(c), ~ResumeLaunches(c),
           ResumeProves(c) => Refused(c), ResumePlaces(c) => Refused(c) /\ pane' = pane
    PROVE  Quiet
  <1>1. PanesKept
    BY ResumeOrderly, PanesSame DEF Orderly, ResumeReopens, world
  <1>2. PICK r : /\ At(c, r)
                 /\ \/ r.at = "over"
                    \/ /\ r.new = resume[c].new /\ r.force = resume[c].force
                       /\ r.pid = resume[c].pid /\ Fresh(c) /\ r.at \in {"bound", "booting"}
    <2>1. \A a \in {"bound", "booting"} : LET r == [resume[c] EXCEPT !.at = a] IN
            /\ r.at = a /\ r.new = resume[c].new /\ r.force = resume[c].force
            /\ r.pid = resume[c].pid
      BY DEF IInv, Typed, CallsOK, ResumeCalls
    <2> QED
      BY <2>1, OverIsNoResume
         DEF ResumeStep, ResumePlaces, ResumeProves, ResumeCleans, ResumeReopens, ResumeBoots,
             ResumeReturns, ResumeFails, Refused, Fresh
  <1>3. /\ resume'[c] = r /\ \A d \in Resumers : d # c => resume'[d] = resume[d]
        /\ spawn' = spawn /\ stops' = stops
    BY <1>2, AtIs DEF IInv
  <1>4. Resuming(c)
    BY DEF ResumeStep, ResumePlaces, ResumeProves, ResumeCleans, ResumeReopens, ResumeBoots,
           ResumeReturns, ResumeFails, Resuming
  <1>5. \A d \in Resumers : ResumeGoesOn(d) /\ (Resuming(d)' => Resuming(d))
    BY <1>2, <1>3, <1>4 DEF ResumeGoesOn, Fresh, Resuming
  <1>6. ~Early
    BY <1>4 DEF Alone, SpawnFirst
  <1>7. reg' = reg /\ OnlyEnds
    BY DEF ResumeStep, ResumePlaces, ResumeProves, ResumeCleans, ResumeReopens, ResumeBoots,
           ResumeReturns, ResumeFails, Close, OnlyEnds, world, IInv, Typed, WorldOK
  <1>8. \A d \in Resumers : d # c => ~Resuming(d)
    BY <1>4 DEF IInv, OneResume
  <1>9. Tame(rec')
    <2>1. CASE ResumeProves(c) /\ rec' # rec
      <3>1. /\ rec' = [rec EXCEPT !.pane = resume[c].reg, !.aged = FALSE]
            /\ resume[c].at = "proving"
        BY <2>1 DEF ResumeProves
      <3>2. rec'.pid = rec.pid /\ rec'.st = rec.st
        BY <3>1 DEF IInv, Typed, IsRecord, Records
      <3>3. Rules(rec.pid)
        BY DEF Alone, PidsRule
      <3>4. \A d \in Resumers : ~Fresh(d)
        BY <1>8, <3>1 DEF Fresh, Resuming
      <3>5. Active(rec) => NoneTyped
        BY <3>1 DEF Alone, CapturesRight
      <3> QED
        BY <1>6, <3>2, <3>3, <3>4, <3>5 DEF Tame, Active
    <2>2. CASE ResumeReopens(c)
      <3>1. rec'.pane = resume[c].new /\ rec'.pid = 0 /\ Fresh(c)
        BY <2>2 DEF ResumeReopens, Reopened, Fresh, IInv, Typed, IsRecord, Records
      <3>2. reg # resume[c].new
        BY <3>1 DEF Alone, NewIsFresh
      <3>3. \A d \in Resumers : resume'[d].at # "proving"
        BY <1>2, <1>3, <1>8 DEF Resuming
      <3> QED
        BY <1>6, <3>1, <3>2, <3>3 DEF Tame
    <2>3. CASE ResumeBoots(c)
      <3> DEFINE m == Moved(rec, "booting", "none")
      <3>1. IsRecord(m) /\ m.pane = rec.pane
        BY MovedRecord DEF IInv, Typed
      <3>2. rec' = [m EXCEPT !.pid = 0, !.sess = TRUE, !.err = "none"] /\ rec.st = "creating"
        BY <2>3 DEF ResumeBoots, CanMove
      <3> HIDE DEF m
      <3>3. rec'.pid = 0 /\ rec'.pane = rec.pane /\ Active(rec)
        BY <3>1, <3>2 DEF IsRecord, Records, Active
      <3> QED
        BY <1>6, <3>3 DEF Tame
    <2>4. CASE ResumeFails(c)
      BY <2>4, TameMoved, TameSame DEF ResumeFails, IInv, Typed
    <2> QED
      BY <2>1, <2>2, <2>3, <2>4, TameSame
         DEF ResumeStep, ResumePlaces, ResumeProves, ResumeCleans, ResumeReturns
  <1> QED
    BY <1>1, <1>3, <1>5, <1>6, <1>7, <1>9, StopsStay DEF Quiet, Early

\* What a stop writes: its mark, or the pid it read, if it does not stray.
LEMMA TameMarks ==
    ASSUME IInv
    PROVE  /\ \A v \in BOOLEAN : Tame(Marked(v)) /\ Tame(Intended(v))
           /\ Tame(NoRec) /\ Tame([rec EXCEPT !.err = "none", !.aged = FALSE])
  <1>1. \A v \in BOOLEAN : Tame(Marked(v)) /\ Tame(Intended(v))
    BY TameSame DEF Marked, Intended, Exists, Tame, Active, IInv, Typed, IsRecord, Records
  <1>2. Tame(NoRec)
    BY DEF Tame, NoRec, Active
  <1>3. Tame([rec EXCEPT !.err = "none", !.aged = FALSE])
    BY DEF Tame, Active, IInv, Typed, IsRecord, Records
  <1> QED
    BY <1>1, <1>2, <1>3

LEMMA StopPidProves ==
    ASSUME IInv, Alone, NEW s \in Stoppers, Strays(stops[s]), ~strayed', stops[s].pid # 0
    PROVE  /\ Rules(stops[s].pid) /\ ~Early
           /\ \A c \in Resumers : Fresh(c) => resume[c].new # rec.pane
  <1>1. /\ rec.pane \in {0, stops[s].pane}
        /\ \A p \in Panes \ {stops[s].pane} : proc[p] \notin {"typed", "running"}
    BY DEF Strays
  <1>2. \A p \in Busy : p = stops[s].pane
    BY <1>1 DEF Busy, IInv, Typed, WorldOK
  <1>3. Rules(stops[s].pid)
    BY <1>2 DEF Alone, PidsRule
  <1>4. ~Early
    BY DEF Alone, SpawnFirst
  <1>5. \A c \in Resumers : Fresh(c) => resume[c].new # rec.pane
    BY <1>1 DEF Alone, NewIsFresh, Panes
  <1> QED
    BY <1>3, <1>4, <1>5

LEMMA StopQuiet ==
    ASSUME IInv, Alone, NEW s \in Stoppers, StopStep(s), ~strayed'
    PROVE  Quiet
  <1>1. PanesKept
    BY StopOrderly DEF Orderly
  <1>2. reg' = reg /\ resume' = resume /\ spawn' = spawn
    BY DEF StopStep, StopBegins, StopProbes, StopUnrouted, StopMarks, StopSignals, StopCloses,
           StopEnds, StopTimesOut, Ends, StopAt, world
  <1>3. OnlyEnds
    BY <1>2 DEF StopStep, StopBegins, StopProbes, StopUnrouted, StopMarks, StopSignals,
           StopCloses, StopEnds, StopTimesOut, Close, OnlyEnds, world, IInv, Typed, WorldOK
  <1>4. \A t \in Stoppers : StopReads(t)
    <2>1. PICK r : /\ StopAt(s, r)
                   /\ \/ r.pid = 0 /\ r.pane = 0
                      \/ r.pid = stops[s].pid /\ r.pane = stops[s].pane
                      \/ r.pid = rec.pid /\ r.pane = rec.pane
      <3>1. /\ StopOver.pid = 0 /\ StopOver.pane = 0
            /\ \A m : [NoStop EXCEPT !.at = "routing", !.mode = m].pid = 0
            /\ \A m : [NoStop EXCEPT !.at = "routing", !.mode = m].pane = 0
        BY DEF StopOver, NoStop
      <3>2. LET r == [NoStop EXCEPT !.at = "probing", !.mode = "force", !.pane = rec.pane,
                                    !.pid = rec.pid]
            IN  r.pid = rec.pid /\ r.pane = rec.pane
        BY DEF NoStop
      <3>3. LET r == [stops[s] EXCEPT !.at = "closing", !.marked = FALSE]
                w == [stops[s] EXCEPT !.at = "waiting"]
                n == [stops[s] EXCEPT !.at = "waiting", !.pane = rec.pane, !.pid = rec.pid]
            IN  /\ r.pid = stops[s].pid /\ r.pane = stops[s].pane
                /\ w.pid = stops[s].pid /\ w.pane = stops[s].pane
                /\ n.pid = rec.pid /\ n.pane = rec.pane
        BY DEF IInv, Typed, CallsOK, StopCalls
      <3>4. CASE StopBegins(s) \/ StopProbes(s)
        BY <3>1, <3>2, <3>4 DEF StopBegins, StopProbes, Ends
      <3>5. CASE StopMarks(s)
        <4>1. \A a \in {"signalling", "closing"} :
              \A mode \in {"graceful", "force", "accepted", "owned"} : \A b \in BOOLEAN :
                LET r == [at |-> a, mode |-> mode, pane |-> rec.pane, pid |-> rec.pid, marked |-> b]
                IN  StopAt(s, r) => StopAt(s, r) /\ r.pid = rec.pid /\ r.pane = rec.pane
          OBVIOUS
        <4>2. (stops[s].mode = "graceful" /\ ~rec.killed) \in BOOLEAN
          OBVIOUS
        <4>3. CASE Ends(s)
          BY <3>1, <4>3 DEF Ends
        <4>4. CASE ~Ends(s)
          <5>1. \E a \in {"signalling", "closing"}, mode \in {"graceful", "force", "accepted", "owned"},
                   b \in BOOLEAN :
                  StopAt(s, [at |-> a, mode |-> mode, pane |-> rec.pane, pid |-> rec.pid,
                             marked |-> b])
            BY <3>5, <4>2, <4>4 DEF StopMarks
          <5> QED
            BY <4>1, <5>1
        <4> QED
          BY <4>3, <4>4
      <3>6. CASE StopSignals(s) \/ StopCloses(s)
        BY <3>1, <3>3, <3>6 DEF StopSignals, StopCloses, Ends
      <3>7. CASE StopUnrouted(s) \/ StopEnds(s) \/ StopTimesOut(s)
        BY <3>1, <3>7 DEF StopUnrouted, StopEnds, StopTimesOut, Ends
      <3> QED
        BY <3>4, <3>5, <3>6, <3>7 DEF StopStep
    <2>2. stops'[s] = r /\ \A t \in Stoppers : t # s => stops'[t] = stops[t]
      BY <2>1, StopAtIs DEF IInv
    <2> QED
      BY <2>1, <2>2 DEF StopReads
  <1>5. Tame(rec')
    <2>1. CASE StopProbes(s) /\ rec' # rec
      <3>1. /\ Strays(stops[s])
            /\ rec' = [Marked(TRUE) EXCEPT !.pid = IF Exists THEN stops[s].pid ELSE 0]
        BY <2>1 DEF StopProbes
      <3>2. Exists
        <4>1. ~Exists => [NoRec EXCEPT !.pid = 0] = NoRec /\ rec = NoRec
          BY DEF NoRec, Exists, IInv, Typed, IsRecord
        <4> QED
          BY <2>1, <3>1, <4>1 DEF Marked
      <3>3. /\ rec'.pid = stops[s].pid /\ rec'.pane = rec.pane /\ rec'.st = rec.st
            /\ rec'.sess = rec.sess
        BY <3>1, <3>2 DEF Marked, IInv, Typed, IsRecord, Records
      <3> QED
        BY <3>1, <3>3, StopPidProves DEF Tame, Active
    <2>2. CASE StopEnds(s)
      <3>1. Strays(stops[s])
        BY <2>2 DEF StopEnds
      <3>2. \A b \in Buried(stops[s].pid) : Tame(b)
        <4> SUFFICES ASSUME NEW b \in Buried(stops[s].pid) PROVE Tame(b)
          OBVIOUS
        <4>1. CASE b \in {rec, NoRec}
          BY <4>1, TameSame, TameMarks
        <4>2. ASSUME NEW q \in {stops[s].pid, 0},
                     b = [rec EXCEPT !.killed = TRUE, !.aged = FALSE, !.pid = q]
              PROVE  Tame(b)
          <5>1. /\ b.pid = q /\ b.pane = rec.pane /\ b.st = rec.st /\ b.sess = rec.sess
            BY <4>2 DEF IInv, Typed, IsRecord, Records
          <5> QED
            BY <3>1, <5>1, StopPidProves DEF Tame, Active
        <4> QED
          BY <4>1, <4>2 DEF Buried
      <3>3. stops[s].pid \in 0..N
        BY DEF IInv, Typed, CallsOK, StopCalls
      <3>4. PICK r : IsRecord(r) /\ Tame(r) /\ rec' = Finished(r)
        BY <2>2, <3>2, <3>3, TameMarks, StopRecords DEF StopEnds, IInv
      <3> QED
        BY <3>4, TameMoved DEF Finished
    <2> QED
      BY <2>1, <2>2, TameMarks, TameSame
         DEF StopStep, StopBegins, StopUnrouted, StopMarks, StopSignals, StopCloses, StopTimesOut
  <1> QED
    BY <1>1, <1>2, <1>3, <1>4, <1>5, ResumesStay DEF Quiet, Early

\* The sweeps and wait_for: what they write was the record's, or is captured.
LEMMA SweepQuiet ==
    ASSUME IInv, Alone, Sweep \/ WaitMarks
    PROVE  Quiet
  <1>1. PanesKept
    BY SweepOrderly DEF Orderly
  <1>2. reg' = reg /\ proc' = proc /\ resume' = resume /\ spawn' = spawn /\ stops' = stops
    BY DEF Sweep, SweepLists, SweepRegistry, SweepCaptures, SweepMarksBoot, SweepMarksState,
           WaitMarks, calls, world
  <1>3. Tame(rec')
    <2>1. CASE SweepRegistry
      BY <2>1, SweptRecord DEF Tame, IInv
    <2>2. CASE SweepCaptures
      BY <2>2, CaptureTame DEF SweepCaptures
    <2>3. ASSUME NEW to \in {"active", "done", "error"}, NEW err \in {"none", "crash", "stuck"},
                 rec' = Moved(rec, to, err)
          PROVE  Tame(rec')
      BY <2>3, TameMoved, TameSame DEF IInv, Typed
    <2>4. CASE SweepMarksBoot
      BY <2>3, <2>4 DEF SweepMarksBoot, BootMarks
    <2>5. CASE SweepMarksState
      <3>1. CASE rec' = [rec EXCEPT !.st = "active", !.aged = FALSE] /\ Running(rec)
        <4>1. rec'.pid = rec.pid /\ rec'.pane = rec.pane /\ rec'.sess = rec.sess
          BY <3>1 DEF IInv, Typed, IsRecord, Records
        <4>2. rec.pane \in Panes
          BY <3>1, Bounds, RecordPane DEF Running, IInv, Typed, Panes
        <4>3. NoneTyped
          BY <3>1, <4>2 DEF Running, Alone, OneCli, Busy, NoneTyped
        <4> QED
          BY <4>1, <4>3 DEF Tame
      <3> QED
        BY <2>3, <2>5, <3>1 DEF SweepMarksState, StateMarks
    <2>6. CASE WaitMarks
      BY <2>3, <2>6 DEF WaitMarks
    <2> QED
      BY <2>1, <2>2, <2>4, <2>5, <2>6, TameSame DEF Sweep, SweepLists
  <1> QED
    BY <1>1, <1>2, <1>3, ResumesStay, StopsStay DEF Quiet, OnlyEnds, Early

\* A CLI that runs is the only one: nothing waits to start, and its pid proves
\* something.
LEMMA RunningProves ==
    ASSUME IInv, Alone, NEW p \in Panes, proc[p] = "running"
    PROVE  NoneTyped /\ Rules(p) /\ ~Early
  <1>1. p \in Busy /\ \A q \in Busy : q = p
    BY DEF Alone, OneCli, Busy
  <1>2. NoneTyped
    BY <1>1 DEF Busy, NoneTyped
  <1>3. proc[1] = "running" => p = 1
    BY <1>1, Bounds DEF Busy
  <1> QED
    BY <1>1, <1>2, <1>3 DEF Rules, Alone, SpawnFirst

LEMMA ListingQuiet ==
    ASSUME IInv, Alone, Listing
    PROVE  Quiet
  <1>1. PanesKept
    BY ListingOrderly DEF Orderly
  <1>2. reg' = reg /\ proc' = proc /\ resume' = resume /\ spawn' = spawn /\ stops' = stops
    BY DEF Listing, ListEvicts, ListTidies, ListGhosts, ListRecovers, ListHeals, Writes, calls, world
  <1>3. Tame(rec')
    <2>1. CASE ListEvicts \/ ListTidies
      BY <2>1, ListRecord DEF Tame, IInv
    <2>2. CASE ListGhosts
      BY <2>2, TameMarks DEF ListGhosts
    <2>3. CASE ListRecovers
      <3>1. /\ rec'.pane = reg /\ rec'.pid = reg /\ rec'.sess = rec.sess
            /\ reg \in Panes /\ proc[reg] = "running" /\ rec.sess
        BY <2>3, RecoveredRecord DEF IInv
      <3>2. NoneTyped /\ Rules(reg) /\ ~Early
        BY <3>1, RunningProves
      <3>3. \A c \in Resumers : Fresh(c) => resume[c].new # reg
        BY DEF Alone, NewIsFresh
      <3> QED
        BY <3>1, <3>2, <3>3 DEF Tame
    <2>4. CASE ListHeals
      <3>1. rec'.pane = rec.pane /\ rec'.pid = rec.pid /\ rec'.sess = rec.sess
        BY <2>4, HealedRecord DEF IInv
      <3>2. rec.pane \in Panes /\ proc[rec.pane] = "running"
        BY <2>4 DEF ListHeals, Open, Running
      <3>3. NoneTyped
        BY <3>2, RunningProves
      <3> QED
        BY <3>1, <3>3 DEF Tame
    <2> QED
      BY <2>1, <2>2, <2>3, <2>4 DEF Listing
  <1> QED
    BY <1>1, <1>2, <1>3, ResumesStay, StopsStay DEF Quiet, OnlyEnds, Early

LEMMA WorldQuiet ==
    ASSUME IInv, Alone, Ages \/ \E p \in Panes : ProcEnds(p) \/ PaneCloses(p)
    PROVE  Quiet
  <1>1. PanesKept
    BY WorldOrderly DEF World, Orderly
  <1>2. reg' = reg /\ resume' = resume /\ spawn' = spawn /\ stops' = stops
    BY DEF Ages, ProcEnds, PaneCloses, calls, world
  <1>3. OnlyEnds
    BY <1>2 DEF Ages, ProcEnds, PaneCloses, Close, OnlyEnds, world, IInv, Typed, WorldOK
  <1>4. Tame(rec')
    <2>1. CASE Ages
      BY <2>1 DEF Ages, Tame, Active, IInv, Typed, IsRecord, Records
    <2> QED
      BY <2>1, TameSame DEF ProcEnds, PaneCloses
  <1> QED
    BY <1>1, <1>2, <1>3, <1>4, ResumesStay, StopsStay DEF Quiet, Early

LEMMA RestartQuiet ==
    ASSUME IInv, Alone, Restart
    PROVE  Quiet
  <1>1. PanesKept
    BY RestartOrderly DEF Orderly
  <1>2. reg' = reg /\ proc' = proc /\ (Early' => Early)
    BY DEF Restart, world, Early
  <1>3. \A c \in Resumers : ResumeGoesOn(c) /\ (Resuming(c)' => Resuming(c))
    BY OverIsNoResume DEF Restart, ResumeGoesOn, Resuming
  <1>4. \A s \in Stoppers : StopReads(s)
    <2>1. StopOver.pid = 0 /\ StopOver.pane = 0
      BY DEF StopOver, NoStop
    <2> QED
      BY <2>1 DEF Restart, StopReads
  <1>5. Tame(rec')
    <2>1. rec' \in {rec, Moved(rec, "error", "crash")}
      BY RestartRecord DEF IInv
    <2> QED
      BY <2>1, TameMoved, TameSame DEF IInv, Typed
  <1> QED
    BY <1>1, <1>2, <1>3, <1>4, <1>5 DEF Quiet, OnlyEnds

\* The steps that are not quiet.

LEMMA ProcFacts ==
    ASSUME IInv
    PROVE  /\ proc \in [Panes -> {"none", "typed", "running"}]
           /\ 1 \in Panes /\ \A p \in 0..N : p # 0 => p \in Panes
           /\ \A p \in Panes : p # 0
           /\ rec.pane \in 0..N /\ rec.pid \in 0..N /\ reg \in 0..N
           /\ \A c \in Resumers : resume[c].pid \in 0..N /\ resume[c].new \in 0..N
           /\ \A s \in Stoppers : stops[s].pane \in 0..N
  <1>1. /\ 1 \in Panes /\ \A p \in 0..N : p # 0 => p \in Panes
        /\ \A p \in Panes : p # 0
    BY Bounds DEF Panes
  <1> QED
    BY <1>1 DEF IInv, Typed, WorldOK, CallsOK, ResumeCalls, StopCalls, IsRecord, Records

\* A command is typed while nothing else is busy, into the record's pane.
LEMMA LaunchAlone ==
    ASSUME IInv, Alone, NEW p \in Panes, Busy = {}, proc' = [proc EXCEPT ![p] = "typed"],
           UNCHANGED <<rec, pane, reg, stops>>, rec.pid = 0, rec.pane = p,
           reg # p, reg = 0 \/ p # 1, pane[p] # "none", ~Early',
           \A s \in Stoppers : stops[s].pid # 0 => stops[s].pane # p,
           \A c \in Resumers : resume'[c].at \in {"idle", "typed", "over"}
    PROVE  Alone'
  <1>1. /\ \A q \in Panes : proc[q] = "none"
        /\ proc'[p] = "typed" /\ \A q \in Panes : q # p => proc'[q] = "none"
    BY ProcFacts DEF Busy
  <1>2. Busy' = {p}
    BY <1>1 DEF Busy
  <1>3. OneCli'
    BY <1>2 DEF OneCli
  <1>4. PidsRule'
    BY <1>2 DEF PidsRule, Rules
  <1>5. NewIsFresh' /\ ProofHolds'
    BY DEF NewIsFresh, ProofHolds, Fresh
  <1>6. SpawnFirst'
    BY DEF SpawnFirst, Early
  <1>7. PanesFirst'
    BY <1>1 DEF Alone, PanesFirst
  <1>8. RegisteredRan'
    BY <1>1, ProcFacts DEF RegisteredRan
  <1>9. CapturesRight'
    BY <1>1 DEF CapturesRight
  <1> QED
    BY <1>3, <1>4, <1>5, <1>6, <1>7, <1>8, <1>9 DEF Alone

LEMMA SpawnLaunchesAlone == IInv /\ Alone /\ SpawnLaunches => Alone'
  <1> SUFFICES ASSUME IInv, Alone, SpawnLaunches PROVE Alone'
    OBVIOUS
  <1>1. /\ Busy = {} /\ reg = 0 /\ rec.pid = 0 /\ \A c \in Resumers : ~Resuming(c)
        /\ \A s \in Stoppers : stops[s].pid = 0
    BY DEF SpawnLaunches, Early, Alone, SpawnFirst
  <1>2. /\ proc' = [proc EXCEPT ![1] = "typed"] /\ UNCHANGED <<rec, pane, reg, stops>>
        /\ rec.pane = 1 /\ pane[1] # "none" /\ ~Early' /\ resume' = resume
    BY DEF SpawnLaunches, Spawned, Early
  <1>3. \A c \in Resumers : resume'[c].at \in {"idle", "typed", "over"}
    BY <1>1, <1>2 DEF Resuming
  <1>4. 1 \in Panes /\ reg # 1
    BY <1>1, Bounds
  <1> QED
    BY <1>1, <1>2, <1>3, <1>4, LaunchAlone

LEMMA ResumeLaunchesAlone ==
    \A c \in Resumers : IInv /\ Alone /\ ResumeLaunches(c) /\ ~forced' => Alone'
  <1> SUFFICES ASSUME IInv, Alone, NEW c \in Resumers, ResumeLaunches(c), ~forced' PROVE Alone'
    OBVIOUS
  <1> DEFINE p == resume[c].new
  <1>1. Fresh(c) /\ Resuming(c) /\ ~resume[c].force
    BY DEF ResumeLaunches, Fresh, Resuming
  <1>2. Busy = {}
    BY <1>1 DEF Alone, ProofHolds
  <1>3. /\ p \in Panes \ {1} /\ reg # p /\ (rec.pid # 0 => rec.pane # p)
        /\ \A s \in Stoppers : stops[s].pid # 0 => stops[s].pane # p
    BY <1>1 DEF Alone, NewIsFresh
  <1>4. /\ proc' = [proc EXCEPT ![p] = "typed"] /\ UNCHANGED <<rec, pane, reg>>
        /\ rec.pane = p /\ pane[p] # "none" /\ At(c, [resume[c] EXCEPT !.at = "typed"])
    BY DEF ResumeLaunches
  <1>5. [resume[c] EXCEPT !.at = "typed"].at = "typed"
    BY DEF IInv, Typed, CallsOK, ResumeCalls
  <1>6. /\ resume'[c].at = "typed" /\ \A d \in Resumers : d # c => resume'[d] = resume[d]
        /\ spawn' = spawn /\ stops' = stops
    BY <1>4, <1>5, AtIs DEF IInv
  <1>7. \A d \in Resumers : d # c => ~Resuming(d)
    BY <1>1 DEF IInv, OneResume
  <1>8. \A d \in Resumers : resume'[d].at \in {"idle", "typed", "over"}
    BY <1>6, <1>7 DEF Resuming
  <1>9. ~Early'
    BY <1>1, <1>6 DEF Alone, SpawnFirst, Early
  <1> HIDE DEF p
  <1> QED
    BY <1>2, <1>3, <1>4, <1>6, <1>8, <1>9, LaunchAlone

LEMMA ProcStartsAlone == \A p \in Panes : IInv /\ Alone /\ ProcStarts(p) => Alone'
  <1> SUFFICES ASSUME IInv, Alone, NEW p \in Panes, ProcStarts(p) PROVE Alone'
    OBVIOUS
  <1>1. /\ UNCHANGED <<rec, pane, reg, resume, stops, spawn>> /\ pane[p] = "open"
        /\ proc[p] = "typed" /\ proc' = [proc EXCEPT ![p] = "running"]
    BY DEF ProcStarts, calls
  <1>2. /\ proc'[p] = "running" /\ \A q \in Panes : q # p => proc'[q] = proc[q]
        /\ 1 \in Panes
    BY <1>1, ProcFacts
  <1>3. Busy' = Busy /\ p \in Busy
    BY <1>1, <1>2 DEF Busy
  <1>4. OneCli' /\ ~Early
    BY <1>3 DEF Alone, OneCli, SpawnFirst
  <1>5. \A pid : Rules(pid) => pid = 0
    BY <1>1 DEF Rules, NoneTyped
  <1>6. PidsRule'
    BY <1>1, <1>3, <1>5 DEF Alone, PidsRule, Rules
  <1>7. NewIsFresh'
    BY <1>1, <1>2 DEF Alone, NewIsFresh, Fresh
  <1>8. ProofHolds' /\ SpawnFirst'
    BY <1>1, <1>3, <1>4 DEF Alone, ProofHolds, SpawnFirst, Fresh, Early
  <1>9. PanesFirst'
    BY <1>1, <1>2 DEF Alone, PanesFirst
  <1>10. RegisteredRan'
    BY <1>1, <1>2, ProcFacts DEF Alone, RegisteredRan
  <1>11. CapturesRight'
    BY <1>1, <1>2 DEF Alone, CapturesRight, NoneTyped, Active
  <1> QED
    BY <1>4, <1>6, <1>7, <1>8, <1>9, <1>10, <1>11 DEF Alone

LEMMA RegistersAlone == \A p \in Panes : IInv /\ Alone /\ Registers(p) => Alone'
  <1> SUFFICES ASSUME IInv, Alone, NEW p \in Panes, Registers(p) PROVE Alone'
    OBVIOUS
  <1>1. /\ UNCHANGED <<rec, pane, proc, resume, stops, spawn>>
        /\ proc[p] = "running" /\ reg' = p
    BY DEF Registers, calls
  <1>2. p \in Busy /\ Busy' = Busy
    BY <1>1 DEF Busy
  <1>3. \A q \in Panes : q # p => proc[q] = "none"
    BY <1>2 DEF Alone, OneCli, Busy
  <1>4. ~Early
    BY <1>2 DEF Alone, SpawnFirst
  <1>5. OneCli' /\ PidsRule' /\ ProofHolds' /\ SpawnFirst'
    BY <1>1, <1>2, <1>4
       DEF Alone, OneCli, PidsRule, Rules, NoneTyped, ProofHolds, Fresh, SpawnFirst, Early
  <1>6. NewIsFresh' /\ PanesFirst'
    BY <1>1 DEF Alone, NewIsFresh, Fresh, PanesFirst
  <1>7. RegisteredRan'
    BY <1>1, <1>3, ProcFacts DEF RegisteredRan
  <1>8. CapturesRight'
    BY <1>1, <1>3 DEF CapturesRight, Active, NoneTyped
  <1> QED
    BY <1>5, <1>6, <1>7, <1>8 DEF Alone

LEMMA SpawnPlacesAlone == IInv /\ Alone /\ SpawnPlaces => Alone'
  <1> SUFFICES ASSUME IInv, Alone, SpawnPlaces PROVE Alone'
    OBVIOUS
  <1>1. /\ UNCHANGED <<rec, proc, reg, resume, stops>> /\ Early
        /\ pane' = [pane EXCEPT ![1] = "open"]
    BY DEF SpawnPlaces, Spawned, Early
  <1>2. Busy' = Busy
    BY <1>1 DEF Busy
  <1>3. \A p \in Panes : pane'[p] # "none" \/ pane'[p] = pane[p]
    BY <1>1 DEF IInv, Typed, WorldOK
  <1>4. \A p \in Panes : pane[p] # "none" => pane'[p] # "none"
    BY <1>1 DEF IInv, Typed, WorldOK
  <1>5. PanesFirst'
    BY <1>1, <1>3, <1>4, ProcFacts DEF Alone, PanesFirst
  <1>6. SpawnFirst'
    BY <1>1, <1>2 DEF Alone, SpawnFirst, Resuming
  <1> QED
    BY <1>1, <1>2, <1>5, <1>6
       DEF Alone, OneCli, PidsRule, Rules, NoneTyped, NewIsFresh, ProofHolds, Fresh,
           RegisteredRan, CapturesRight, Active

\* A new pane is nobody's yet.
LEMMA ResumePlacesAlone ==
    \A c \in Resumers : IInv /\ IInv' /\ Alone /\ ResumePlaces(c) /\ ~(Refused(c) /\ pane' = pane)
                          => Alone'
  <1> SUFFICES ASSUME IInv, IInv', Alone, NEW c \in Resumers, ResumePlaces(c),
                      ~(Refused(c) /\ pane' = pane)
               PROVE  Alone'
    OBVIOUS
  <1> DEFINE p == NextPane
             r == [resume[c] EXCEPT !.at = "placed", !.new = p]
  <1>1. /\ UNCHANGED <<rec, proc, reg>> /\ pane' = [pane EXCEPT ![p] = "open"] /\ p \in Panes
        /\ At(c, r) /\ resume[c].at = "proved"
    BY DEF ResumePlaces
  <1>2. pane[p] = "none" /\ p # 1
    BY <1>1, NextIsNew DEF IInv
  <1> HIDE DEF p
  <1>3. r.at = "placed" /\ r.new = p /\ r.force = resume[c].force
    BY DEF IInv, Typed, CallsOK, ResumeCalls
  <1> HIDE DEF r
  <1>4. /\ resume'[c] = r /\ \A d \in Resumers : d # c => resume'[d] = resume[d]
        /\ spawn' = spawn /\ stops' = stops
    BY <1>1, AtIs DEF IInv
  <1>5. Busy' = Busy /\ ~Early
    BY <1>1 DEF Busy, Alone, SpawnFirst, Resuming
  <1>6. \A q \in Panes : pane'[q] # "none" \/ pane'[q] = pane[q]
    BY <1>1 DEF IInv, Typed, WorldOK
  <1>7. \A q \in Panes : pane[q] # "none" => pane'[q] # "none"
    BY <1>1 DEF IInv, Typed, WorldOK
  <1>8. PanesFirst'
    BY <1>1, <1>4, <1>6, <1>7, ProcFacts DEF Alone, PanesFirst
  <1>9. NewIsFresh'
    <2>1. proc[p] = "none" /\ reg # p
      BY <1>1, <1>2 DEF Alone, PanesFirst
    <2>2. rec.pane # p /\ \A s \in Stoppers : stops[s].pane # p
      BY <1>1, <1>2, ProcFacts DEF Alone, PanesFirst, IInv, Created
    <2>3. \A d \in Resumers : d # c => ~Fresh(d)
      BY <1>1 DEF IInv, OneResume, Resuming, Fresh
    <2> QED
      BY <1>1, <1>2, <1>3, <1>4, <2>1, <2>2, <2>3 DEF NewIsFresh, Fresh
  <1>10. ProofHolds'
    BY <1>1, <1>3, <1>4, <1>5 DEF Alone, ProofHolds, Fresh
  <1>11. PidsRule' /\ CapturesRight'
    BY <1>1, <1>3, <1>4, <1>5 DEF Alone, PidsRule, Rules, NoneTyped, CapturesRight, Active
  <1>12. SpawnFirst' /\ OneCli' /\ RegisteredRan'
    BY <1>1, <1>4, <1>5 DEF Alone, SpawnFirst, Early, OneCli, RegisteredRan
  <1> QED
    BY <1>8, <1>9, <1>10, <1>11, <1>12 DEF Alone

LEMMA ResumeBeginsAlone == \A c \in Resumers : IInv /\ Alone /\ ResumeBegins(c) => Alone'
  <1> SUFFICES ASSUME IInv, Alone, NEW c \in Resumers, ResumeBegins(c) PROVE Alone'
    OBVIOUS
  <1>1. /\ UNCHANGED <<rec, pane, proc, reg>> /\ Terminal(rec) /\ rec.sess
        /\ \A d \in Resumers : ~Resuming(d)
    BY DEF ResumeBegins, ResumeFree, world
  <1>2. PICK r : At(c, r) /\ r.at = "proving" /\ r.pid = rec.pid
    BY DEF ResumeBegins
  <1>3. /\ resume'[c] = r /\ \A d \in Resumers : d # c => resume'[d] = resume[d]
        /\ spawn' = spawn /\ stops' = stops
    BY <1>2, AtIs DEF IInv
  <1>4. ~Early /\ ~Active(rec)
    BY <1>1 DEF Alone, SpawnFirst, Terminal, Active
  <1>5. \A d \in Resumers : ~Fresh(d)' /\ resume'[d].at # "proved"
    BY <1>1, <1>2, <1>3 DEF Fresh, Resuming
  <1>6. NewIsFresh' /\ ProofHolds'
    BY <1>5 DEF NewIsFresh, ProofHolds
  <1>7. CapturesRight' /\ SpawnFirst'
    BY <1>1, <1>3, <1>4 DEF CapturesRight, SpawnFirst, Early, Active
  <1>8. PidsRule'
    BY <1>1, <1>2, <1>3 DEF Alone, PidsRule, Rules, NoneTyped, Busy
  <1>9. OneCli' /\ PanesFirst' /\ RegisteredRan'
    BY <1>1, <1>3 DEF Alone, OneCli, Busy, PanesFirst, RegisteredRan
  <1> QED
    BY <1>6, <1>7, <1>8, <1>9 DEF Alone

\* The proof of absence is one: a pid that rules and is gone leaves no CLI but
\* those that carry the session.
LEMMA AbsenceIsProven ==
    ASSUME IInv, Alone, NEW c \in Resumers, resume[c].at = "proving", AbsenceProven(resume[c])
    PROVE  Busy = {}
  <1>1. Rules(resume[c].pid) /\ resume[c].pid # 0
    BY DEF Alone, PidsRule, AbsenceProven
  <1>2. proc[resume[c].pid] # "running"
    BY <1>1 DEF AbsenceProven, Liveness
  <1>3. \A p \in Panes \ {1} : proc[p] # "running"
    BY DEF AbsenceProven, Carriers
  <1> QED
    BY <1>1, <1>2, <1>3, ProcFacts DEF Rules, NoneTyped, Busy

LEMMA ResumeProvesAlone ==
    \A c \in Resumers : IInv /\ Alone /\ ResumeProves(c) /\ ~Refused(c) => Alone'
  <1> SUFFICES ASSUME IInv, Alone, NEW c \in Resumers, ResumeProves(c), ~Refused(c) PROVE Alone'
    OBVIOUS
  <1>1. /\ UNCHANGED <<rec, pane, proc, reg>> /\ resume[c].at = "proving"
    BY DEF ResumeProves, world
  <1>2. PICK force \in BOOLEAN : Proved(c, force) /\ (force \/ AbsenceProven(resume[c]))
    BY DEF ResumeProves, IInv, Typed, CallsOK, ResumeCalls
  <1> DEFINE r == [NoResume EXCEPT !.at = "proved", !.force = force]
  <1>3. r.at = "proved" /\ r.force = force /\ At(c, r)
    BY <1>2 DEF NoResume, Proved
  <1> HIDE DEF r
  <1>4. /\ resume'[c] = r /\ \A d \in Resumers : d # c => resume'[d] = resume[d]
        /\ spawn' = spawn /\ stops' = stops
    BY <1>3, AtIs DEF IInv
  <1>5. Busy' = Busy /\ ~Early
    BY <1>1 DEF Busy, Alone, SpawnFirst, Resuming
  <1>6. force \/ Busy = {}
    BY <1>1, <1>2, AbsenceIsProven
  <1>7. ProofHolds'
    BY <1>3, <1>4, <1>5, <1>6 DEF Alone, ProofHolds, Fresh
  <1>8. NewIsFresh'
    BY <1>1, <1>3, <1>4 DEF Alone, NewIsFresh, Fresh
  <1>9. PidsRule' /\ CapturesRight'
    BY <1>1, <1>3, <1>4, <1>5 DEF Alone, PidsRule, Rules, NoneTyped, CapturesRight, Active
  <1>10. OneCli' /\ PanesFirst' /\ RegisteredRan' /\ SpawnFirst'
    BY <1>1, <1>4, <1>5 DEF Alone, OneCli, PanesFirst, RegisteredRan, SpawnFirst, Early
  <1> QED
    BY <1>7, <1>8, <1>9, <1>10 DEF Alone

-----------------------------------------------------------------------------

Excused == forced \/ strayed

LEMMA InitAlone == Init => Alone
  <1> SUFFICES ASSUME Init PROVE Alone
    OBVIOUS
  <1>1. /\ rec.pid = 0 /\ ~rec.sess /\ ~Active(rec) /\ reg = 0
        /\ \A p \in Panes : proc[p] = "none" /\ pane[p] = "none"
    BY DEF Init, NoRec, Active
  <1>2. \A c \in Resumers : resume[c].at \in {"idle", "over"}
    BY DEF Init, NoResume, ResumeOver
  <1>3. \A s \in Stoppers : stops[s].pid = 0 /\ stops[s].pane = 0
    BY DEF Init, NoStop, StopOver
  <1>4. Busy = {}
    BY <1>1 DEF Busy
  <1>5. OneCli /\ PanesFirst /\ RegisteredRan /\ CapturesRight
    <2>1. \A p \in Panes : p # 0
      BY Bounds DEF Panes
    <2> QED
      BY <1>1, <1>3, <1>4, <2>1 DEF OneCli, PanesFirst, RegisteredRan, CapturesRight
  <1>6. PidsRule
    BY <1>1, <1>2, <1>3 DEF PidsRule, Rules
  <1>7. NewIsFresh /\ ProofHolds /\ SpawnFirst
    BY <1>1, <1>2, <1>3, <1>4 DEF NewIsFresh, Fresh, ProofHolds, SpawnFirst, Resuming
  <1> QED
    BY <1>5, <1>6, <1>7 DEF Alone

LEMMA StepKeepsAlone ==
    ASSUME IInv, IInv', Excused \/ Alone, [Next]_vars
    PROVE  Excused' \/ Alone'
  <1> SUFFICES ASSUME ~Excused' PROVE Alone'
    OBVIOUS
  <1>1. ~forced' /\ ~strayed'
    BY DEF Excused
  <1>2. Excused => Excused'
    <2>1. (forced => forced') /\ (strayed => strayed')
      <3>1. CASE UNCHANGED counted
        BY <3>1 DEF counted
      <3>2. World \/ Restart => UNCHANGED <<forced, strayed>>
        BY DEF World, Ages, ProcStarts, Registers, ProcEnds, PaneCloses, Restart, counted
      <3>3. ASSUME NEW c \in Resumers, ResumeStep(c) PROVE UNCHANGED counted \/ ResumeLaunches(c)
        BY <3>3 DEF ResumeStep, ResumeBegins, ResumeProves, ResumePlaces, ResumeCleans,
                    ResumeReopens, ResumeBoots, ResumeReturns, ResumeFails
      <3>4. \A c \in Resumers : ResumeLaunches(c) => (forced => forced') /\ strayed' = strayed
        BY DEF ResumeLaunches
      <3>5. ASSUME NEW s \in Stoppers, StopStep(s)
            PROVE  UNCHANGED counted \/ (forced' = forced /\ (strayed => strayed'))
        BY <3>5 DEF StopStep, StopBegins, StopProbes, StopUnrouted, StopMarks, StopSignals,
                    StopCloses, StopEnds, StopTimesOut, Strays, counted
      <3>6. SpawnStep \/ Sweep \/ WaitMarks => UNCHANGED counted
        BY DEF SpawnStep, SpawnPlaces, SpawnUnfocused, SpawnRecords, SpawnUnrecorded,
               SpawnMisplaced, SpawnLaunches, SpawnReturns, SpawnFails, Sweep, SweepLists,
               SweepRegistry, SweepCaptures, SweepMarksBoot, SweepMarksState, WaitMarks
      <3>7. Listing => UNCHANGED counted
        BY DEF Listing, ListEvicts, ListTidies, ListGhosts, ListRecovers, ListHeals, Writes
      <3>8. UNCHANGED vars => UNCHANGED counted
        BY DEF vars, counted
      <3> QED
        BY <3>1, <3>2, <3>3, <3>4, <3>5, <3>6, <3>7, <3>8 DEF Next
    <2> QED
      BY <2>1 DEF Excused
  <1>3. Alone
    BY <1>2
  <1>4. CASE UNCHANGED vars
    BY <1>3, <1>4
       DEF vars, world, calls, Alone, OneCli, Busy, PidsRule, Rules, NoneTyped, NewIsFresh,
           Fresh, ProofHolds, SpawnFirst, Early, Resuming, PanesFirst, RegisteredRan,
           CapturesRight, Active
  <1>5. CASE SpawnStep
    BY <1>3, <1>5, SpawnQuiet, QuietKeeps, SpawnPlacesAlone, SpawnLaunchesAlone
  <1>6. CASE Sweep \/ WaitMarks
    BY <1>3, <1>6, SweepQuiet, QuietKeeps
  <1>7. ASSUME NEW c \in Resumers, ResumeStep(c) PROVE Alone'
    BY <1>1, <1>3, <1>7, ResumeQuiet, QuietKeeps, ResumeBeginsAlone, ResumeProvesAlone,
       ResumePlacesAlone, ResumeLaunchesAlone
  <1>8. ASSUME NEW s \in Stoppers, StopStep(s) PROVE Alone'
    BY <1>1, <1>3, <1>8, StopQuiet, QuietKeeps
  <1>9. CASE World
    BY <1>3, <1>9, WorldQuiet, QuietKeeps, ProcStartsAlone, RegistersAlone DEF World
  <1>10. CASE Restart
    BY <1>3, <1>10, RestartQuiet, QuietKeeps
  <1>11. CASE Listing
    BY <1>3, <1>11, ListingQuiet, QuietKeeps
  <1> QED
    BY <1>4, <1>5, <1>6, <1>7, <1>8, <1>9, <1>10, <1>11 DEF Next

\* At most one busy pane is at most one in number.
LEMMA AloneIsOne == IInv /\ Alone => OneProcessPerSession
  <1> SUFFICES ASSUME IInv, Alone
               PROVE  Cardinality({p \in Panes : proc[p] \in {"typed", "running"}}) <= 1
    BY DEF OneProcessPerSession
  <1> DEFINE S == {p \in Panes : proc[p] \in {"typed", "running"}}
  <1>1. \A p, q \in S : p = q
    BY DEF Alone, OneCli, Busy
  <1>2. CASE S = {}
    BY <1>2, FS_EmptySet
  <1>3. ASSUME NEW p \in S PROVE Cardinality(S) <= 1
    <2>1. S = {p}
      BY <1>1
    <2>2. Cardinality({p}) = 1
      BY FS_Singleton
    <2> HIDE DEF S
    <2> QED
      BY <2>1, <2>2
  <1> QED
    BY <1>2, <1>3

\* resumeAgent and the rest: no session is in two CLIs, but by force or after a
\* stop that ended in a record that was not its own any more.
THEOREM SessionsRunOnce == Spec => []OneProcessPerSession
  <1>1. Init => Excused \/ Alone
    BY InitAlone
  <1>2. IInv /\ IInv' /\ (Excused \/ Alone) /\ [Next]_vars => (Excused \/ Alone)'
    BY StepKeepsAlone DEF Excused
  <1>3. IInv /\ (Excused \/ Alone) => OneProcessPerSession
    BY AloneIsOne DEF Excused, OneProcessPerSession
  <1> QED
    BY <1>1, <1>2, <1>3, Invariance, PTL DEF Spec
=============================================================================
