------------------------------ MODULE MailProofs ------------------------------
(***************************************************************************)
(* Proofs about the two components that keep messages in files several     *)
(* processes share: Inbox and OutboxDrainer.                               *)
(*                                                                         *)
(* Inbox, for every number of readers, senders, messages and crashes: no   *)
(* message is lost between two turns, and the cursor never goes back.      *)
(* Neither is inductive.  That nothing is skipped rests on what a reader   *)
(* still has to reach: whatever lies before a position it will handle is   *)
(* handled, or is to be handled first (Ordered).  That the cursor never    *)
(* goes back rests on the lock (Locked): the comparison made under it is   *)
(* still true when the cursor is written (Compared).                       *)
(*                                                                         *)
(* OutboxDrainer, for every number of entries, texts and faults: its types *)
(* with any number of processes; that a quarantined backlog is never sent, *)
(* with one process or without trims; and with one process that duplicates *)
(* and drops have a cause.  The last rests on the difference between what  *)
(* was sent and what the process will find listed as drained (Exposed),    *)
(* which each fault lets grow by one and each duplicate lets shrink.       *)
(***************************************************************************)
EXTENDS Inbox, OutboxDrainer, FiniteSetTheorems, TLAPS

(***************************************************************************)
(* Inbox                                                                   *)
(***************************************************************************)

Holding == {"locked", "checked", "written"}
Confirming == {"confirming"} \cup Holding

InboxTypeOK ==
    /\ inbox \in Seq(Messages)
    /\ acks \in SUBSET Messages
    /\ cursor \in Messages \cup {None}
    /\ lock \in Readers \cup {None}
    /\ sending \in [Once -> {"idle", "absent", "done"}]
    /\ at \in [Readers -> Places]
    /\ todo \in [Readers -> SUBSET Nat]
    /\ current \in [Readers -> Nat]
    /\ handled \in SUBSET Messages
    /\ deaths \in Nat

\* What the files confirm was handled, and the cursor is in the inbox.
FilesTrue ==
    /\ acks \subseteq handled
    /\ cursor # None =>
         /\ Known(DOMAIN inbox, cursor)
         /\ \A n \in DOMAIN inbox :
               n \notin After(DOMAIN inbox, cursor) => inbox[n] \in handled

\* What a process reads of the inbox is a prefix.
Prefix ==
    \A r \in Readers :
        /\ todo[r] \subseteq DOMAIN inbox
        /\ at[r] \in {"cursor", "acks"} =>
             \A n \in todo[r] : \A j \in DOMAIN inbox : j < n => j \in todo[r]

\* Whatever lies before a position a reader has yet to reach is handled, or is
\* to be reached first.
Ordered ==
    \A r \in Readers : \A n \in todo[r] : \A j \in DOMAIN inbox :
        j < n => j \in todo[r] \/ inbox[j] \in handled

\* Everything up to the message being confirmed is handled.
Done ==
    \A r \in Readers : at[r] \in Confirming =>
        /\ current[r] \in DOMAIN inbox
        /\ \A j \in DOMAIN inbox : j <= current[r] => inbox[j] \in handled

Locked == \A r \in Readers : at[r] \in Holding => lock = r

Compared ==
    \A r \in Readers : at[r] = "checked" => ~Backwards(inbox[current[r]], cursor)

InboxInv == InboxTypeOK /\ FilesTrue /\ Prefix /\ Ordered /\ Done /\ Locked /\ Compared

-----------------------------------------------------------------------------
(* The files. *)

\* An append keeps the messages at their positions and adds one behind them.
LEMMA Appended ==
    ASSUME InboxTypeOK, NEW m \in Messages, AppendMessage(m)
    PROVE  /\ inbox' \in Seq(Messages)
           /\ DOMAIN inbox \subseteq DOMAIN inbox'
           /\ \A n \in DOMAIN inbox : inbox'[n] = inbox[n]
           /\ \A n \in DOMAIN inbox' : n \notin DOMAIN inbox =>
                 \A j \in DOMAIN inbox : j < n
           /\ \A n \in DOMAIN inbox : \A j \in DOMAIN inbox' :
                 j <= n => j \in DOMAIN inbox
           /\ DOMAIN inbox' \subseteq Nat
  BY DEF InboxTypeOK, AppendMessage

\* Positions are naturals.
LEMMA Positions == InboxTypeOK => DOMAIN inbox \subseteq Nat
  BY DEF InboxTypeOK

\* What a replay of the whole files leaves out was handled.
LEMMA LeftOut ==
    ASSUME InboxTypeOK, FilesTrue, NEW n \in DOMAIN inbox, n \notin Undelivered
    PROVE  inbox[n] \in handled
  BY DEF FilesTrue, Undelivered, SinceCursor, Unacked

\* Empty files, and readers that have read nothing.
LEMMA InitInboxInv == InboxInit => InboxInv
  <1> SUFFICES ASSUME InboxInit PROVE InboxInv
    OBVIOUS
  <1>1. InboxTypeOK
    BY InboxAssumption DEF InboxInit, InboxTypeOK, Places
  <1>2. FilesTrue /\ Prefix /\ Ordered /\ Done /\ Locked /\ Compared
    BY DEF InboxInit, FilesTrue, Prefix, Ordered, Done, Confirming, Holding, Locked, Compared
  <1> QED
    BY <1>1, <1>2 DEF InboxInv

-----------------------------------------------------------------------------
(* Senders. *)

LEMMA AppendKeeps ==
    ASSUME InboxInv, NEW m \in Messages, AppendMessage(m),
           sending' \in [Once -> {"idle", "absent", "done"}],
           UNCHANGED <<acks, cursor, lock, reading, handled, deaths>>
    PROVE  InboxInv'
  <1> USE DEF reading
  <1>1. InboxTypeOK
    BY DEF InboxInv
  <1>2. InboxTypeOK'
    BY <1>1, Appended DEF InboxTypeOK
  <1>3. FilesTrue'
    <2>1. CASE cursor = None
      BY <2>1 DEF InboxInv, FilesTrue
    <2>2. CASE cursor # None
      <3>1. Known(DOMAIN inbox, cursor)'
        BY <2>2, <1>1, Appended DEF InboxInv, FilesTrue, Known
      <3>2. ASSUME NEW n \in DOMAIN inbox', n \notin After(DOMAIN inbox, cursor)'
            PROVE  inbox'[n] \in handled
        <4>1. \A j \in DOMAIN inbox' : j < n => inbox'[j] # cursor
          BY <3>2 DEF After
        <4>2. n \in DOMAIN inbox
          BY <4>1, <2>2, <1>1, Appended DEF InboxInv, FilesTrue, Known
        <4>3. n \notin After(DOMAIN inbox, cursor)
          BY <4>1, <4>2, <1>1, Appended DEF After
        <4> QED
          BY <4>2, <4>3, <2>2, <1>1, Appended DEF InboxInv, FilesTrue
      <3> QED
        BY <2>2, <3>1, <3>2 DEF InboxInv, FilesTrue
    <2> QED
      BY <2>1, <2>2
  <1>4. Prefix'
    BY <1>1, Appended, Positions DEF InboxInv, Prefix
  <1>5. Ordered'
    BY <1>1, Appended, Positions DEF InboxInv, Ordered, Prefix
  <1>6. Done'
    BY <1>1, Appended, Positions DEF InboxInv, Done
  <1>7. Locked'
    BY DEF InboxInv, Locked
  <1>8. Compared'
    <2> SUFFICES ASSUME NEW r \in Readers, at[r] = "checked",
                        Backwards(inbox[current[r]], cursor)'
                 PROVE  FALSE
      BY DEF Compared
    <2>1. current[r] \in DOMAIN inbox /\ inbox'[current[r]] = inbox[current[r]]
      BY <1>1, Appended DEF InboxInv, Done, Confirming, Holding
    <2>2. PICK n \in DOMAIN inbox' :
             /\ inbox'[n] = inbox[current[r]]
             /\ \A j \in 1..n : inbox'[j] # cursor
      BY <2>1 DEF Backwards
    <2>3. PICK k \in DOMAIN inbox : inbox[k] = cursor
      BY DEF Backwards, InboxInv, FilesTrue, Known
    <2>4. n \in DOMAIN inbox /\ \A j \in 1..n : inbox[j] # cursor
      BY <2>2, <2>3, <1>1 DEF InboxTypeOK, AppendMessage
    <2>5. cursor # None /\ Known(DOMAIN inbox, cursor)
      BY DEF Backwards, InboxInv, FilesTrue
    <2> QED
      BY <2>1, <2>2, <2>4, <2>5, <1>1, Appended DEF Backwards, InboxInv, Compared
  <1> QED
    BY <1>2, <1>3, <1>4, <1>5, <1>6, <1>7, <1>8 DEF InboxInv

LEMMA SendKeeps ==
    ASSUME InboxInv, Send
    PROVE  InboxInv'
  <1>1. CASE Dispatch
    BY <1>1, AppendKeeps DEF Dispatch, Messages, InboxInv, InboxTypeOK
  <1>2. ASSUME NEW p \in Once, LookOnce(p)
        PROVE  InboxInv'
    BY <1>2 DEF LookOnce, InboxInv, InboxTypeOK, FilesTrue, Prefix, Ordered, Done, Locked,
                Compared, mailFiles, reading, After, Known, Backwards
  <1>3. ASSUME NEW p \in Once, SendOnce(p)
        PROVE  InboxInv'
    BY <1>3, AppendKeeps DEF SendOnce, Messages, InboxInv, InboxTypeOK
  <1> QED
    BY <1>1, <1>2, <1>3 DEF Send

-----------------------------------------------------------------------------
(* The reader. *)

LEMMA ReadInboxKeeps ==
    ASSUME InboxInv, NEW r \in Readers, ReadInbox(r)
    PROVE  InboxInv'
  <1> USE DEF ReadInbox, Go, mailFiles, InboxInv
  <1>1. InboxTypeOK'
    BY Positions DEF InboxTypeOK, Places
  <1>2. Prefix' /\ Ordered'
    BY DEF InboxTypeOK, Prefix, Ordered
  <1>3. FilesTrue' /\ Done' /\ Locked' /\ Compared'
    BY DEF InboxTypeOK, FilesTrue, Known, After, Done, Confirming, Holding, Locked,
           Compared, Backwards
  <1> QED
    BY <1>1, <1>2, <1>3

LEMMA ReadCursorKeeps ==
    ASSUME InboxInv, NEW r \in Readers, ReadCursor(r)
    PROVE  InboxInv'
  <1> USE DEF ReadCursor, Go, mailFiles, InboxInv
  <1>1. InboxTypeOK'
    BY DEF InboxTypeOK, Places, SinceCursor, After
  <1>2. FilesTrue' /\ Done' /\ Locked' /\ Compared'
    BY DEF InboxTypeOK, FilesTrue, Known, After, Done, Confirming, Holding, Locked,
           Compared, Backwards
  <1>3. CASE cursor = None
    BY <1>1, <1>2, <1>3 DEF InboxTypeOK, Prefix, Ordered
  <1>4. CASE cursor # None
    <2>1. /\ todo' = [todo EXCEPT ![r] = SinceCursor(todo[r], cursor)]
          /\ at' = [at EXCEPT ![r] = "working"]
          /\ UNCHANGED <<inbox, handled>>
      BY <1>4
    <2>2. SinceCursor(todo[r], cursor) \subseteq todo[r]
      BY DEF SinceCursor, After
    <2>3. Prefix'
      BY <2>1, <2>2 DEF InboxTypeOK, Prefix
    <2>4. ASSUME NEW n \in SinceCursor(todo[r], cursor), NEW j \in DOMAIN inbox, j < n
          PROVE  j \in SinceCursor(todo[r], cursor) \/ inbox[j] \in handled
      <3>1. n \in todo[r] /\ j \in todo[r]
        BY <2>2, <2>4 DEF Prefix
      <3>2. CASE ~Known(todo[r], cursor)
        BY <3>1, <3>2 DEF SinceCursor
      <3>3. CASE Known(todo[r], cursor) /\ j \notin After(todo[r], cursor)
        <4>1. \A k \in todo[r] : k < j => inbox[k] # cursor
          BY <3>1, <3>3 DEF After
        <4>2. \A k \in DOMAIN inbox : k < j => k \in todo[r]
          BY <3>1 DEF Prefix
        <4>3. j \notin After(DOMAIN inbox, cursor)
          BY <4>1, <4>2 DEF After
        <4> QED
          BY <4>3, <1>4 DEF FilesTrue
      <3>4. CASE Known(todo[r], cursor) /\ j \in After(todo[r], cursor)
        BY <3>4 DEF SinceCursor
      <3> QED
        BY <3>2, <3>3, <3>4
    <2>5. Ordered'
      BY <2>1, <2>4 DEF InboxTypeOK, Ordered
    <2> QED
      BY <1>1, <1>2, <2>3, <2>5
  <1> QED
    BY <1>3, <1>4

LEMMA ReadAcksKeeps ==
    ASSUME InboxInv, NEW r \in Readers, ReadAcks(r)
    PROVE  InboxInv'
  <1> USE DEF ReadAcks, Go, mailFiles, InboxInv
  <1>1. InboxTypeOK'
    BY DEF InboxTypeOK, Places, Unacked
  <1>2. Prefix'
    BY DEF InboxTypeOK, Prefix, Unacked
  <1>3. Ordered'
    <2>1. ASSUME NEW n \in Unacked(todo[r]), NEW j \in DOMAIN inbox, j < n
          PROVE  j \in Unacked(todo[r]) \/ inbox[j] \in handled
      BY <2>1 DEF Prefix, Unacked, FilesTrue
    <2> QED
      BY <2>1 DEF InboxTypeOK, Ordered
  <1>4. FilesTrue' /\ Done' /\ Locked' /\ Compared'
    BY DEF InboxTypeOK, FilesTrue, Known, After, Done, Confirming, Holding, Locked,
           Compared, Backwards
  <1> QED
    BY <1>1, <1>2, <1>3, <1>4

LEMMA HandleKeeps ==
    ASSUME InboxInv, NEW r \in Readers, Handle(r)
    PROVE  InboxInv'
  <1> USE DEF Handle, Go, mailFiles, InboxInv
  <1>1. PICK n \in todo[r] :
           /\ \A j \in todo[r] : n <= j
           /\ handled' = handled \cup {inbox[n]}
           /\ todo' = [todo EXCEPT ![r] = @ \ {n}]
           /\ current' = [current EXCEPT ![r] = n]
    OBVIOUS
  <1>2. n \in DOMAIN inbox /\ n \in Nat /\ inbox[n] \in Messages
    BY Positions DEF InboxTypeOK, Prefix
  <1>3. InboxTypeOK'
    BY <1>1, <1>2 DEF InboxTypeOK, Places
  <1>4. FilesTrue'
    BY <1>1 DEF FilesTrue, Known, After
  <1>5. Prefix' /\ Ordered'
    BY <1>1 DEF InboxTypeOK, Prefix, Ordered
  <1>6. Done'
    <2>1. \A j \in DOMAIN inbox : j < n => inbox[j] \in handled
      BY <1>1, <1>2, Positions DEF Ordered
    <2>2. \A j \in DOMAIN inbox : j <= n => inbox[j] \in handled'
      BY <1>1, <1>2, <2>1, Positions
    <2> QED
      BY <1>1, <1>2, <2>2 DEF InboxTypeOK, Done
  <1>7. Locked'
    BY DEF InboxTypeOK, Locked, Holding
  <1>8. Compared'
    <2>1. at'[r] = "confirming" /\ UNCHANGED <<inbox, cursor>>
      BY DEF InboxTypeOK
    <2>2. \A q \in Readers : q # r => at'[q] = at[q] /\ current'[q] = current[q]
      BY <1>1 DEF InboxTypeOK
    <2>3. \A m : Backwards(m, cursor)' <=> Backwards(m, cursor)
      BY <2>1 DEF Backwards, Known
    <2> QED
      BY <2>1, <2>2, <2>3 DEF Compared
  <1> QED
    BY <1>3, <1>4, <1>5, <1>6, <1>7, <1>8

LEMMA EndTurnKeeps ==
    ASSUME InboxInv, NEW r \in Readers, EndTurn(r)
    PROVE  InboxInv'
  BY DEF EndTurn, Go, mailFiles, InboxInv, InboxTypeOK, Places, FilesTrue, Known, After, Prefix,
         Ordered, Done, Confirming, Holding, Locked, Compared, Backwards

LEMMA AckKeeps ==
    ASSUME InboxInv, NEW r \in Readers, Ack(r)
    PROVE  InboxInv'
  <1> USE DEF Ack, NextMessage, Go, InboxInv
  <1>1. inbox[current[r]] \in handled /\ handled \subseteq Messages
    BY Positions DEF InboxTypeOK, Done, Confirming
  <1>2. InboxTypeOK' /\ FilesTrue'
    BY <1>1 DEF InboxTypeOK, Places, FilesTrue, Known, After
  <1>3. Prefix' /\ Ordered' /\ Done' /\ Locked' /\ Compared'
    BY DEF InboxTypeOK, Prefix, Ordered, Done, Confirming, Holding, Locked, Compared,
           Backwards, Known
  <1> QED
    BY <1>2, <1>3

-----------------------------------------------------------------------------
(* The cursor. *)

LEMMA MakeLockKeeps ==
    ASSUME InboxInv, NEW r \in Readers, MakeLock(r)
    PROVE  InboxInv'
  <1> USE DEF MakeLock, Go, InboxInv
  <1>1. InboxTypeOK' /\ FilesTrue' /\ Prefix' /\ Ordered' /\ Done' /\ Compared'
    BY DEF InboxTypeOK, Places, FilesTrue, Known, After, Prefix, Ordered, Done, Confirming,
           Holding, Compared, Backwards
  <1>2. Locked'
    BY InboxAssumption DEF InboxTypeOK, Locked, Holding
  <1> QED
    BY <1>1, <1>2

LEMMA LockTakenKeeps ==
    ASSUME InboxInv, NEW r \in Readers, LockTaken(r)
    PROVE  InboxInv'
  BY DEF LockTaken, NextMessage, Go, mailFiles, InboxInv, InboxTypeOK, Places, FilesTrue, Known,
         After, Prefix, Ordered, Done, Confirming, Holding, Locked, Compared, Backwards

LEMMA CheckCursorKeeps ==
    ASSUME InboxInv, NEW r \in Readers, CheckCursor(r)
    PROVE  InboxInv'
  <1> USE DEF CheckCursor, Go, mailFiles, InboxInv
  <1>1. InboxTypeOK' /\ FilesTrue' /\ Prefix' /\ Ordered' /\ Done' /\ Locked'
    BY DEF InboxTypeOK, Places, FilesTrue, Known, After, Prefix, Ordered, Done, Confirming,
           Holding, Locked
  <1>2. Compared'
    <2>1. at'[r] = "checked" => ~Backwards(inbox[current[r]], cursor)
      BY DEF InboxTypeOK
    <2>2. \A q \in Readers : q # r => at'[q] = at[q]
      BY DEF InboxTypeOK
    <2>3. \A m : Backwards(m, cursor)' <=> Backwards(m, cursor)
      BY DEF Backwards, Known
    <2> QED
      BY <2>1, <2>2, <2>3 DEF Compared
  <1> QED
    BY <1>1, <1>2

LEMMA WriteCursorKeeps ==
    ASSUME InboxInv, NEW r \in Readers, WriteCursor(r)
    PROVE  InboxInv'
  <1> USE DEF WriteCursor, Go, InboxInv
  <1>1. /\ current[r] \in DOMAIN inbox /\ current[r] \in Nat
        /\ inbox[current[r]] \in Messages
        /\ \A j \in DOMAIN inbox : j <= current[r] => inbox[j] \in handled
    BY DEF InboxTypeOK, Done, Confirming, Holding
  <1>2. InboxTypeOK'
    BY <1>1 DEF InboxTypeOK, Places
  <1>3. FilesTrue'
    <2>1. Known(DOMAIN inbox, cursor)'
      BY <1>1 DEF Known
    <2>2. ASSUME NEW n \in DOMAIN inbox, n \notin After(DOMAIN inbox, cursor)'
          PROVE  inbox[n] \in handled
      <3>1. \A j \in DOMAIN inbox : j < n => inbox[j] # inbox[current[r]]
        BY <2>2 DEF After
      <3>2. n <= current[r]
        BY <1>1, <3>1, Positions
      <3> QED
        BY <1>1, <3>2
    <2> QED
      BY <2>1, <2>2 DEF FilesTrue
  <1>4. Prefix' /\ Ordered' /\ Done' /\ Locked'
    BY DEF InboxTypeOK, Prefix, Ordered, Done, Confirming, Holding, Locked
  <1>5. Compared'
    BY DEF InboxTypeOK, Locked, Holding, Compared
  <1> QED
    BY <1>2, <1>3, <1>4, <1>5

LEMMA RemoveLockKeeps ==
    ASSUME InboxInv, NEW r \in Readers, RemoveLock(r)
    PROVE  InboxInv'
  <1> USE DEF RemoveLock, NextMessage, Go, InboxInv
  <1>1. InboxTypeOK' /\ FilesTrue' /\ Prefix' /\ Ordered' /\ Done' /\ Compared'
    BY DEF InboxTypeOK, Places, FilesTrue, Known, After, Prefix, Ordered, Done, Confirming,
           Holding, Compared, Backwards
  <1>2. Locked'
    BY DEF InboxTypeOK, Locked, Holding
  <1> QED
    BY <1>1, <1>2

LEMMA CrashKeeps ==
    ASSUME InboxInv, NEW r \in Readers, ReaderDies(r)
    PROVE  InboxInv'
  <1> USE DEF ReaderDies, Go, mailFiles, InboxInv
  <1>1. InboxTypeOK' /\ FilesTrue' /\ Prefix' /\ Ordered'
    BY InboxAssumption DEF InboxTypeOK, Places, FilesTrue, Known, After, Prefix, Ordered
  <1>2. at'[r] = "down" /\ \A q \in Readers : q # r =>
           at'[q] = at[q] /\ todo'[q] = todo[q] /\ current'[q] = current[q]
    BY DEF InboxTypeOK
  <1>3. Done' /\ Locked'
    BY <1>2 DEF Done, Confirming, Holding, Locked
  <1>4. Compared'
    <2>1. \A m : Backwards(m, cursor)' <=> Backwards(m, cursor)
      BY DEF Backwards, Known
    <2> QED
      BY <1>2, <2>1 DEF Compared
  <1> QED
    BY <1>1, <1>3, <1>4

LEMMA ResumeKeeps ==
    ASSUME InboxInv, NEW r \in Readers, Resume(r)
    PROVE  InboxInv'
  BY DEF Resume, Go, mailFiles, InboxInv, InboxTypeOK, Places, FilesTrue, Known, After, Prefix,
         Ordered, Done, Confirming, Holding, Locked, Compared, Backwards

-----------------------------------------------------------------------------
(* The theorems. *)

LEMMA StutterKeeps ==
    ASSUME InboxInv, UNCHANGED inboxVars
    PROVE  InboxInv'
  BY DEF inboxVars, mailFiles, reading, InboxInv, InboxTypeOK, FilesTrue, Known, After,
         Prefix, Ordered,
         Done, Locked, Compared, Backwards

LEMMA NextKeeps == InboxInv /\ [InboxNext]_inboxVars => InboxInv'
  <1> SUFFICES ASSUME InboxInv, [InboxNext]_inboxVars PROVE InboxInv'
    OBVIOUS
  <1>1. CASE Send
    BY <1>1, SendKeeps
  <1>2. ASSUME NEW r \in Readers, Turn(r)
        PROVE  InboxInv'
    BY <1>2, ReadInboxKeeps, ReadCursorKeeps, ReadAcksKeeps, HandleKeeps, EndTurnKeeps,
       MakeLockKeeps, LockTakenKeeps, CheckCursorKeeps, WriteCursorKeeps, RemoveLockKeeps
    DEF Turn, Replay, MoveCursor
  <1>3. ASSUME NEW r \in Readers, Ack(r) \/ ReaderDies(r) \/ Resume(r)
        PROVE  InboxInv'
    BY <1>3, AckKeeps, CrashKeeps, ResumeKeeps
  <1>4. CASE UNCHANGED inboxVars
    BY <1>4, StutterKeeps
  <1> QED
    BY <1>1, <1>2, <1>3, <1>4 DEF InboxNext

\* The invariant that the other theorems rest on: what a process has read, is
\* working on or has compared stays true of files that others go on changing.
THEOREM InboxInvariance == InboxSpec => []InboxInv
  BY InitInboxInv, NextKeeps, PTL DEF InboxSpec

\* Each message in inbox.jsonl was handled, or replayUndelivered returns it,
\* whatever other processes append, confirm or die of.
THEOREM NothingIsSkipped == InboxSpec => []NothingSkipped
  <1>1. InboxInv => NothingSkipped
    BY LeftOut DEF InboxInv, NothingSkipped
  <1> QED
    BY <1>1, InboxInvariance, PTL

\* The cursor is written by one action only, and never to an earlier message.
LEMMA PassedGrows ==
    ASSUME InboxInv, [InboxNext]_inboxVars
    PROVE  Passed \subseteq Passed'
  <1>1. CASE UNCHANGED <<inbox, cursor>>
    BY <1>1 DEF Passed, After
  <1>2. ASSUME NEW m \in Messages, AppendMessage(m), UNCHANGED cursor
        PROVE  Passed \subseteq Passed'
    BY <1>2, Appended, Positions DEF Passed, After, InboxInv
  <1>3. ASSUME NEW r \in Readers, WriteCursor(r)
        PROVE  Passed \subseteq Passed'
    <2> DEFINE m == inbox[current[r]]
    <2>1. m # None /\ at[r] = "checked"
      BY <1>3, InboxAssumption DEF WriteCursor, InboxInv, InboxTypeOK, Done, Confirming, Holding,
                                   Messages
    <2> SUFFICES ASSUME cursor # None, NEW n \in DOMAIN inbox,
                        n \notin After(DOMAIN inbox, cursor),
                        NEW k \in DOMAIN inbox, k < n, inbox[k] = m
                 PROVE  FALSE
      BY <1>3, <2>1 DEF Passed, After, WriteCursor
    <2>2. \A j \in DOMAIN inbox : j < n => inbox[j] # cursor
      BY DEF After
    <2>3. \A j \in 1..k : j \in DOMAIN inbox /\ j < n
      BY Positions DEF InboxInv, InboxTypeOK
    <2>4. Known(DOMAIN inbox, cursor)
      BY DEF InboxInv, FilesTrue
    <2>5. Backwards(m, cursor)
      BY <2>2, <2>3, <2>4 DEF Backwards
    <2> QED
      BY <2>1, <2>5 DEF InboxInv, Compared
  <1>4. ASSUME InboxNext
        PROVE  \/ UNCHANGED <<inbox, cursor>>
               \/ \E m \in Messages : AppendMessage(m) /\ UNCHANGED cursor
               \/ \E r \in Readers : WriteCursor(r)
    BY <1>4 DEF InboxNext, Send, Dispatch, LookOnce, SendOnce, Turn, Replay, MoveCursor,
                ReadInbox, ReadCursor, ReadAcks, Handle, EndTurn, Ack, MakeLock,
                LockTaken, CheckCursor, RemoveLock, ReaderDies, Resume, mailFiles, Messages
  <1> QED
    BY <1>1, <1>2, <1>3, <1>4 DEF inboxVars, mailFiles

\* writeInboxCursor never takes the cursor back: what it passed stays passed.
THEOREM CursorNeverGoesBack == InboxSpec => CursorNeverBack
  BY PassedGrows, InboxInvariance, PTL DEF InboxSpec, CursorNeverBack

(***************************************************************************)
(* OutboxDrainer                                                           *)
(***************************************************************************)

\* The uids of what a process has read of the outbox.
Snapshot(p) == {entries[p][n].uid : n \in DOMAIN entries[p]}

\* A process is within what it has read.
Within ==
    \A p \in Procs :
        /\ Len(entries[p]) <= MaxAppends /\ i[p] <= Len(entries[p]) + 1
        /\ pc[p] = "await" => i[p] <= Len(entries[p])
        /\ posted[p] => pc[p] = "await"

Typed == TypeOK /\ Within

-----------------------------------------------------------------------------

LEMMA CurrentIsRead ==
    ASSUME Typed, NEW p \in Procs, AtEntry(p) \/ pc[p] = "await"
    PROVE  /\ i[p] \in DOMAIN entries[p] /\ i[p] <= Len(entries[p])
           /\ Current(p) \in Entries /\ Current(p).uid \in Snapshot(p)
<1>1. entries[p] \in Seq(Entries) /\ i[p] \in 1..(MaxAppends + 1)
  BY DEF Typed, TypeOK
<1>2. i[p] <= Len(entries[p])
  BY DEF Typed, Within, AtEntry
<1>3. i[p] \in DOMAIN entries[p]
  BY <1>1, <1>2, OutboxAssumption
<1>. QED BY <1>1, <1>2, <1>3 DEF Current, Snapshot

\* What a parse returns.
LEMMA ParsedIs ==
    ASSUME Typed
    PROVE  /\ parseOutboxEntries \in Seq(Entries)
           /\ Len(parseOutboxEntries) = Len(log) - head
           /\ \A n \in 1..(Len(log) - head) :
                 parseOutboxEntries[n] = [uid |-> head + n, id |-> EntryId(head + n)]
<1>1. log \in Seq(Bodies) /\ Len(log) \in Nat /\ Len(log) <= MaxAppends /\ MaxAppends \in Nat
      /\ head \in Nat /\ head <= Len(log)
  BY OutboxAssumption DEF Typed, TypeOK
<1>2. DOMAIN Outbox = 1..(Len(log) - head) /\ \A n \in 1..(Len(log) - head) : Outbox[n] = head + n
  BY DEF Outbox
<1>3. ASSUME NEW u \in (head + 1)..Len(log)
      PROVE  EntryId(u) \in Ids
  <2>. DEFINE same == {v \in (head + 1)..(u - 1) : log[v] = log[u]}
  <2>1. u \in Nat /\ head + 1 \in Int /\ u - 1 \in Int
    BY <1>1
  <2>2. /\ IsFiniteSet((head + 1)..(u - 1))
        /\ Cardinality((head + 1)..(u - 1)) =
              IF head + 1 > u - 1 THEN 0 ELSE (u - 1) - (head + 1) + 1
    BY <2>1, FS_Interval
  <2>3. IsFiniteSet(same) /\ Cardinality(same) <= Cardinality((head + 1)..(u - 1))
    BY <2>2, FS_Subset
  <2>4. Cardinality(same) \in Nat
    BY <2>3, FS_CardinalityType
  <2>5. Cardinality(same) \in 0..MaxAppends
    <3>. HIDE DEF same
    <3>. QED BY <1>1, <2>1, <2>2, <2>3, <2>4
  <2>6. log[u] \in Bodies
    BY <1>1
  <2>. QED BY <2>5, <2>6 DEF EntryId, Ids
<1>4. ASSUME NEW n \in 1..(Len(log) - head)
      PROVE  [uid |-> head + n, id |-> EntryId(head + n)] \in Entries
  <2>1. head + n \in (head + 1)..Len(log) /\ head + n \in Uids
    BY <1>1 DEF Uids
  <2>. QED BY <1>3, <2>1 DEF Entries
<1>5. /\ parseOutboxEntries = [n \in 1..(Len(log) - head) |->
                                  [uid |-> head + n, id |-> EntryId(head + n)]]
  BY <1>2 DEF parseOutboxEntries
<1>6. Len(log) - head \in Nat
  BY <1>1
<1>. QED BY <1>4, <1>5, <1>6

\* A step changes one process, or none of the processes' own state.
Stages == {"idle", "load", "loop", "truncate", "write", "await"}

\* Process p moves to the given place, with these values of its own.
Moves(p, c, e, s, k, bo, po) ==
    /\ pc' = [pc EXCEPT ![p] = c] /\ entries' = [entries EXCEPT ![p] = e]
    /\ state' = [state EXCEPT ![p] = s] /\ i' = [i EXCEPT ![p] = k]
    /\ backoff' = [backoff EXCEPT ![p] = bo] /\ posted' = [posted EXCEPT ![p] = po]

\* Values that a process may have.
Fits(c, e, s, k, bo, po) ==
    /\ c \in Stages /\ e \in Seq(Entries) /\ s \in States /\ k \in Nat
    /\ bo \in BOOLEAN /\ po \in BOOLEAN
    /\ k >= 1 /\ k <= Len(e) + 1 /\ Len(e) <= MaxAppends
    /\ c = "await" => k <= Len(e)
    /\ po => c = "await"

\* What the processes share and count stays of its kind.
SharedFits ==
    /\ UNCHANGED <<log, head, owed>>
    /\ sidecar' \in States /\ sent' \in [Uids -> Nat] /\ resends' \in Nat
    /\ crashes' \in 0..MaxCrashes /\ lost' \in 0..MaxLost

\* What one process does is of the declared kinds.
LEMMA OneMoves ==
    ASSUME Typed, NEW p \in Procs, NEW c, NEW e, NEW s, NEW k, NEW bo, NEW po,
           Moves(p, c, e, s, k, bo, po), Fits(c, e, s, k, bo, po), SharedFits
    PROVE  Typed'
<1>1. k \in 1..(MaxAppends + 1)
  BY OutboxAssumption DEF Fits
<1>2. /\ pc' \in [Procs -> Stages] /\ entries' \in [Procs -> Seq(Entries)]
      /\ state' \in [Procs -> States] /\ i' \in [Procs -> 1..(MaxAppends + 1)]
      /\ backoff' \in [Procs -> BOOLEAN] /\ posted' \in [Procs -> BOOLEAN]
  BY <1>1 DEF Typed, TypeOK, Stages, Moves, Fits
<1>3. TypeOK'
  BY <1>2 DEF Typed, TypeOK, Stages, SharedFits
<1>4. ASSUME NEW q \in Procs
      PROVE  /\ Len(entries'[q]) <= MaxAppends /\ i'[q] <= Len(entries'[q]) + 1
             /\ pc'[q] = "await" => i'[q] <= Len(entries'[q])
             /\ posted'[q] => pc'[q] = "await"
  <2>1. CASE q = p
    BY <2>1 DEF Typed, TypeOK, Moves, Fits
  <2>2. CASE q # p
    <3>1. /\ entries'[q] = entries[q] /\ i'[q] = i[q] /\ pc'[q] = pc[q] /\ posted'[q] = posted[q]
      BY <2>2 DEF Typed, TypeOK, Moves
    <3>. QED BY <3>1 DEF Typed, Within
  <2>. QED BY <2>1, <2>2
<1>. QED BY <1>3, <1>4 DEF Typed, Within

\* A process that keeps its values.
LEMMA Keeps ==
    ASSUME Typed, NEW p \in Procs
    PROVE  /\ pc = [pc EXCEPT ![p] = pc[p]] /\ entries = [entries EXCEPT ![p] = entries[p]]
           /\ state = [state EXCEPT ![p] = state[p]] /\ i = [i EXCEPT ![p] = i[p]]
           /\ backoff = [backoff EXCEPT ![p] = backoff[p]]
           /\ posted = [posted EXCEPT ![p] = posted[p]]
           /\ Fits(pc[p], entries[p], state[p], i[p], backoff[p], posted[p])
  BY OutboxAssumption DEF Typed, TypeOK, Within, Stages, Fits

LEMMA AppendKeepsTyped ==
    ASSUME Typed, NEW b \in Bodies, AppendEntry(b)
    PROVE  /\ Typed'
           /\ Len(log') = Len(log) + 1 /\ log'[Len(log) + 1] = b
           /\ \A u \in DOMAIN log : u \in DOMAIN log' /\ log'[u] = log[u]
<1>1. /\ log' = Append(log, b) /\ Len(log) < MaxAppends
      /\ owed' \subseteq owed \cup {Len(log) + 1}
      /\ UNCHANGED <<head, sidecar, local, counts, faults>>
  BY DEF AppendEntry
<1>2. log \in Seq(Bodies) /\ head <= Len(log) /\ owed \subseteq DOMAIN log /\ head \in Nat
  BY OutboxAssumption DEF Typed, TypeOK
<1>3. /\ log' \in Seq(Bodies) /\ Len(log') = Len(log) + 1 /\ DOMAIN log \subseteq DOMAIN log'
      /\ Len(log) + 1 \in DOMAIN log' /\ log'[Len(log) + 1] = b
      /\ \A u \in DOMAIN log : u \in DOMAIN log' /\ log'[u] = log[u]
  BY <1>1, <1>2
<1>4. owed' \subseteq DOMAIN log' /\ head' <= Len(log') /\ Len(log') <= MaxAppends
  BY <1>1, <1>2, <1>3, OutboxAssumption
<1>5. Typed'
  BY <1>1, <1>3, <1>4 DEF local, counts, faults, Typed, TypeOK, Within
<1>. QED BY <1>3, <1>5

LEMMA PostCounts ==
    ASSUME Typed, NEW p \in Procs, Post(p)
    PROVE  /\ pc[p] = "loop" /\ i[p] <= Len(entries[p]) /\ Current(p).uid \in Uids
           /\ sent' \in [Uids -> Nat] /\ resends' \in Nat
<1>1. Current(p).uid \in Uids /\ i[p] <= Len(entries[p]) /\ pc[p] = "loop"
  BY CurrentIsRead DEF Post, Entries, AtEntry
<1>2. sent \in [Uids -> Nat] /\ resends \in Nat
  BY DEF Typed, TypeOK
<1>3. \/ UNCHANGED <<sent, resends>>
      \/ sent' = [sent EXCEPT ![Current(p).uid] = @ + 1] /\ resends' \in {resends, resends + 1}
  BY DEF Post, counts
<1>. QED BY <1>1, <1>2, <1>3

LEMMA MigratedFits ==
    ASSUME Typed, NEW p \in Procs
    PROVE  Migrate(sidecar, entries[p]) \in States
<1>1. sidecar \in States /\ entries[p] \in Seq(Entries)
  BY DEF Typed, TypeOK
<1>2. \A n \in DOMAIN entries[p] : entries[p][n] \in Entries
  BY <1>1
<1>3. {entries[p][n].id : n \in DOMAIN entries[p]} \subseteq Ids
  BY <1>2 DEF Entries
<1>. QED BY <1>1, <1>3 DEF Migrate, States, STATE_VERSION

\* A step changes one process, or none of the processes' own state.
LEMMA TypedKeeps ==
    ASSUME Typed, [Next]_vars
    PROVE  Typed'
<1>1. CASE UNCHANGED vars
  BY <1>1 DEF vars, files, local, counts, faults, Typed, TypeOK, Within
<1>2. ASSUME NEW b \in Bodies, AppendEntry(b)
      PROVE  Typed'
  BY <1>2, AppendKeepsTyped
<1>3. CASE Trim
  BY <1>3, OutboxAssumption DEF Trim, local, counts, faults, Typed, TypeOK, Within
<1>4. ASSUME NEW p \in Procs, Drain(p) \/ BackoffExpires(p) \/ Crash(p)
      PROVE  Typed'
  <2>1. /\ pc = [pc EXCEPT ![p] = pc[p]] /\ entries = [entries EXCEPT ![p] = entries[p]]
        /\ state = [state EXCEPT ![p] = state[p]] /\ i = [i EXCEPT ![p] = i[p]]
        /\ backoff = [backoff EXCEPT ![p] = backoff[p]]
        /\ posted = [posted EXCEPT ![p] = posted[p]]
        /\ Fits(pc[p], entries[p], state[p], i[p], backoff[p], posted[p])
    BY Keeps
  <2>2. /\ sidecar \in States /\ sent \in [Uids -> Nat] /\ resends \in Nat
        /\ crashes \in 0..MaxCrashes /\ lost \in 0..MaxLost
    BY DEF Typed, TypeOK
  <2>3. LostSidecar \in States
    BY DEF LostSidecar, States
  <2>4. <<>> \in Seq(Entries) /\ Len(<<>>) = 0
    OBVIOUS
  <2>5. CASE ReadOutbox(p)
    <3>. DEFINE es == parseOutboxEntries
    <3>1. es \in Seq(Entries) /\ Len(es) = Len(log) - head
      BY ParsedIs
    <3>2. Len(es) <= MaxAppends /\ 1 <= Len(es) + 1
      <4>1. Len(log) \in Nat /\ Len(log) <= MaxAppends /\ head \in Nat /\ head <= Len(log)
        BY OutboxAssumption DEF Typed, TypeOK
      <4>. HIDE DEF es
      <4>. QED BY <3>1, <4>1, OutboxAssumption
    <3>3. /\ entries' = [entries EXCEPT ![p] = es]
          /\ i' = [i EXCEPT ![p] = 1] /\ pc' = [pc EXCEPT ![p] = "load"] /\ pc[p] = "idle"
          /\ UNCHANGED <<log, head, owed, sidecar, state, backoff, posted, sent, resends,
                         crashes, lost>>
      BY <2>5 DEF ReadOutbox, NotInFlight, files, counts, faults
    <3>. HIDE DEF es
    <3>4. Moves(p, "load", es, state[p], 1, backoff[p], posted[p])
      BY <2>1, <3>3 DEF Moves
    <3>5. Fits("load", es, state[p], 1, backoff[p], posted[p])
      BY <2>1, <3>1, <3>2, <3>3 DEF Fits, Stages
    <3>6. SharedFits
      BY <2>2, <3>3 DEF SharedFits
    <3>. QED BY <3>4, <3>5, <3>6, OneMoves
  <2>6. CASE LoadState(p)
    <3>1. PICK s \in States, c \in {"truncate", "loop"} :
             state' = [state EXCEPT ![p] = s] /\ pc' = [pc EXCEPT ![p] = c]
      BY <2>2, <2>6, MigratedFits DEF LoadState
    <3>2. /\ pc[p] = "load"
          /\ UNCHANGED <<log, head, owed, sidecar, entries, i, backoff, posted, sent,
                         resends, crashes, lost>>
      BY <2>6 DEF LoadState, files, counts, faults
    <3>3. Moves(p, c, entries[p], s, i[p], backoff[p], posted[p])
      BY <2>1, <3>1, <3>2 DEF Moves
    <3>4. Fits(c, entries[p], s, i[p], backoff[p], posted[p])
      BY <2>1, <3>1, <3>2 DEF Fits, Stages
    <3>5. SharedFits
      BY <2>2, <3>2 DEF SharedFits
    <3>. QED BY <3>3, <3>4, <3>5, OneMoves
  <2>7. CASE TruncateSidecar(p) \/ WriteSidecar(p)
    <3>1. PICK c \in {"write", "loop"}, s \in {LostSidecar, state[p]} :
             pc' = [pc EXCEPT ![p] = c] /\ sidecar' = s
      BY <2>7 DEF TruncateSidecar, WriteSidecar
    <3>2. /\ pc[p] # "await"
          /\ UNCHANGED <<log, head, owed, entries, state, i, backoff, posted, sent, resends,
                         crashes, lost>>
      BY <2>7 DEF TruncateSidecar, WriteSidecar, counts, faults
    <3>3. Moves(p, c, entries[p], state[p], i[p], backoff[p], posted[p])
      BY <2>1, <3>1, <3>2 DEF Moves
    <3>4. Fits(c, entries[p], state[p], i[p], backoff[p], posted[p])
      BY <2>1, <3>1, <3>2 DEF Fits, Stages
    <3>5. SharedFits
      BY <2>1, <2>2, <2>3, <3>1, <3>2 DEF SharedFits, Fits
    <3>. QED BY <3>3, <3>4, <3>5, OneMoves
  <2>8. CASE SkipDrained(p) \/ SkipInBackoff(p)
    <3>1. /\ i' = [i EXCEPT ![p] = i[p] + 1] /\ pc[p] = "loop" /\ i[p] <= Len(entries[p])
          /\ UNCHANGED <<log, head, owed, sidecar, pc, entries, state, backoff, posted, sent,
                         resends, crashes, lost>>
      BY <2>8 DEF SkipDrained, SkipInBackoff, AtEntry, files, counts, faults
    <3>2. Moves(p, pc[p], entries[p], state[p], i[p] + 1, backoff[p], posted[p])
      BY <2>1, <3>1 DEF Moves
    <3>3. Fits(pc[p], entries[p], state[p], i[p] + 1, backoff[p], posted[p])
      BY <2>1, <3>1 DEF Fits, Stages
    <3>4. SharedFits
      BY <2>2, <3>1 DEF SharedFits
    <3>. QED BY <3>2, <3>3, <3>4, OneMoves
  <2>9. CASE Post(p)
    <3>1. PICK po \in BOOLEAN : posted' = [posted EXCEPT ![p] = po]
      BY <2>9 DEF Post
    <3>2. /\ pc[p] = "loop" /\ i[p] <= Len(entries[p])
          /\ sent' \in [Uids -> Nat] /\ resends' \in Nat
      BY <2>9, PostCounts
    <3>3. /\ pc' = [pc EXCEPT ![p] = "await"]
          /\ UNCHANGED <<log, head, owed, sidecar, entries, state, i, backoff, crashes, lost>>
      BY <2>9 DEF Post, files, faults
    <3>4. Moves(p, "await", entries[p], state[p], i[p], backoff[p], po)
      BY <2>1, <3>1, <3>3 DEF Moves
    <3>5. Fits("await", entries[p], state[p], i[p], backoff[p], po)
      BY <2>1, <3>1, <3>2 DEF Fits, Stages
    <3>6. SharedFits
      BY <2>2, <3>2, <3>3 DEF SharedFits
    <3>. QED BY <3>4, <3>5, <3>6, OneMoves
  <2>10. CASE DeliverOk(p)
    <3>1. Current(p) \in Entries /\ i[p] <= Len(entries[p])
      BY <2>10, CurrentIsRead DEF DeliverOk
    <3>. DEFINE s == [state[p] EXCEPT !.drained = @ \cup {Current(p).id}]
    <3>2. s \in States
      BY <2>1, <3>1 DEF States, Fits, Entries
    <3>3. state' = [state EXCEPT ![p] = s]
      BY <2>10 DEF DeliverOk
    <3>. HIDE DEF s
    <3>4. /\ backoff' = [backoff EXCEPT ![p] = FALSE] /\ posted' = [posted EXCEPT ![p] = FALSE]
          /\ i' = [i EXCEPT ![p] = i[p] + 1] /\ pc' = [pc EXCEPT ![p] = "truncate"]
          /\ UNCHANGED <<log, head, owed, sidecar, entries, sent, resends, crashes, lost>>
      BY <2>10 DEF DeliverOk, files, counts, faults
    <3>5. Moves(p, "truncate", entries[p], s, i[p] + 1, FALSE, FALSE)
      BY <2>1, <3>3, <3>4 DEF Moves
    <3>6. Fits("truncate", entries[p], s, i[p] + 1, FALSE, FALSE)
      BY <2>1, <3>1, <3>2 DEF Fits, Stages
    <3>7. SharedFits
      BY <2>2, <3>4 DEF SharedFits
    <3>. QED BY <3>5, <3>6, <3>7, OneMoves
  <2>11. CASE DeliverFailed(p)
    <3>1. i[p] <= Len(entries[p])
      BY <2>11, CurrentIsRead DEF DeliverFailed
    <3>2. lost' \in 0..MaxLost
      BY <2>2, <2>11, OutboxAssumption DEF DeliverFailed
    <3>3. /\ state' = [state EXCEPT ![p] = state[p]]
          /\ backoff' = [backoff EXCEPT ![p] = TRUE] /\ posted' = [posted EXCEPT ![p] = FALSE]
          /\ i' = [i EXCEPT ![p] = i[p] + 1] /\ pc' = [pc EXCEPT ![p] = "loop"]
          /\ UNCHANGED <<log, head, owed, sidecar, entries, sent, resends, crashes>>
      BY <2>11 DEF DeliverFailed, StateAfterFailure, files, counts, faults
    <3>4. Moves(p, "loop", entries[p], state[p], i[p] + 1, TRUE, FALSE)
      BY <2>1, <3>3 DEF Moves
    <3>5. Fits("loop", entries[p], state[p], i[p] + 1, TRUE, FALSE)
      BY <2>1, <3>1 DEF Fits, Stages
    <3>6. SharedFits
      BY <2>2, <3>2, <3>3 DEF SharedFits
    <3>. QED BY <3>4, <3>5, <3>6, OneMoves
  <2>12. CASE Finish(p) \/ Crash(p)
    <3>1. /\ pc' = [pc EXCEPT ![p] = "idle"] /\ entries' = [entries EXCEPT ![p] = <<>>]
          /\ state' = [state EXCEPT ![p] = LostSidecar] /\ i' = [i EXCEPT ![p] = 1]
          /\ UNCHANGED <<log, head, owed, sidecar, sent, resends, lost>>
      BY <2>12 DEF Finish, Crash, files, counts, faults
    <3>2. /\ backoff' = [backoff EXCEPT ![p] = FALSE] \/ UNCHANGED backoff
          /\ posted' = [posted EXCEPT ![p] = FALSE] \/ (UNCHANGED posted /\ pc[p] # "await")
      BY <2>12 DEF Finish, Crash
    <3>3. crashes' \in 0..MaxCrashes
      BY <2>2, <2>12, OutboxAssumption DEF Finish, Crash, faults
    <3>4. PICK bo \in BOOLEAN : backoff' = [backoff EXCEPT ![p] = bo]
      BY <2>1, <3>2 DEF Fits
    <3>5. posted' = [posted EXCEPT ![p] = FALSE]
      BY <2>1, <3>2 DEF Fits
    <3>6. Moves(p, "idle", <<>>, LostSidecar, 1, bo, FALSE)
      BY <3>1, <3>4, <3>5 DEF Moves
    <3>7. Fits("idle", <<>>, LostSidecar, 1, bo, FALSE)
      BY <2>3, <2>4, OutboxAssumption DEF Fits, Stages
    <3>8. SharedFits
      BY <2>2, <3>1, <3>3 DEF SharedFits
    <3>. QED BY <3>6, <3>7, <3>8, OneMoves
  <2>13. CASE BackoffExpires(p)
    <3>1. /\ backoff' = [backoff EXCEPT ![p] = FALSE]
          /\ UNCHANGED <<log, head, owed, sidecar, pc, entries, state, i, posted, sent,
                         resends, crashes, lost>>
      BY <2>13 DEF BackoffExpires, files, counts, faults
    <3>2. Moves(p, pc[p], entries[p], state[p], i[p], FALSE, posted[p])
      BY <2>1, <3>1 DEF Moves
    <3>3. Fits(pc[p], entries[p], state[p], i[p], FALSE, posted[p])
      BY <2>1 DEF Fits
    <3>4. SharedFits
      BY <2>2, <3>1 DEF SharedFits
    <3>. QED BY <3>2, <3>3, <3>4, OneMoves
  <2>. QED BY <1>4, <2>5, <2>6, <2>7, <2>8, <2>9, <2>10, <2>11, <2>12, <2>13 DEF Drain
<1>. QED BY <1>1, <1>2, <1>3, <1>4 DEF Next

LEMMA InitTyped == Init => Typed
<1>. SUFFICES ASSUME Init PROVE Typed
  OBVIOUS
<1>1. /\ log \in Seq(Bodies) /\ Len(log) <= 1 /\ head = 0 /\ 0 <= Len(log)
  <2>1. CASE log = <<>>
    BY <2>1 DEF Init
  <2>2. CASE \E b \in Bodies : log = <<b>>
    BY <2>2 DEF Init
  <2>. QED BY <2>1, <2>2 DEF Init
<1>2. owed \subseteq DOMAIN log
  BY DEF Init
<1>3. LostSidecar \in States /\ [LostSidecar EXCEPT !.version = STATE_VERSION] \in States
  BY DEF LostSidecar, States
<1>4. <<>> \in Seq(Entries) /\ Len(<<>>) = 0
  OBVIOUS
<1>5. sidecar \in States
  BY <1>3 DEF Init
<1>. QED BY <1>1, <1>2, <1>3, <1>4, <1>5, OutboxAssumption DEF Init, Typed, TypeOK, Within

THEOREM OutboxTypeCorrect == Spec => []TypeOK
<1>1. Init => Typed
  BY InitTyped
<1>2. Typed /\ [Next]_vars => Typed'
  BY TypedKeeps
<1>3. Typed => TypeOK
  BY DEF Typed
<1>. QED BY <1>1, <1>2, <1>3, PTL DEF Spec

-----------------------------------------------------------------------------
(* A quarantined backlog. *)

\* A backlog of one entry beside a sidecar that is missing or of an old version.
Backlog == log # <<>> /\ sidecar.version < STATE_VERSION

\* The id of the backlog's entry, as long as nothing was trimmed.
First == <<log[1], 0>>

\* A process that has read the backlog's entry has it listed before it sends.
QuarantinedFor(p) ==
    /\ \A n \in DOMAIN entries[p] : entries[p][n].uid = 1 => entries[p][n].id = First
    /\ head = 0 /\ pc[p] # "idle" => 1 \in Snapshot(p)
    /\ 1 \in Snapshot(p) /\ pc[p] = "load" /\ sidecar.version = STATE_VERSION
          => First \in sidecar.drained
    /\ 1 \in Snapshot(p) /\ pc[p] \in {"loop", "truncate", "write", "await"}
          => First \in state[p].drained

Quarantined ==
    /\ log # <<>> /\ sent[1] = 0
    /\ head = 0 /\ sidecar.version = STATE_VERSION => First \in sidecar.drained
    /\ \A p \in Procs : QuarantinedFor(p)

\* No process can baseline the sidecar after a trim while another holds the entry.
Unraced == MaxTrims = 0 \/ \A p, q \in Procs : p = q

\* What a process reads of an entry that nothing was trimmed before.
LEMMA FirstRead ==
    ASSUME Typed, log # <<>>
    PROVE  /\ \A n \in DOMAIN parseOutboxEntries :
                 parseOutboxEntries[n].uid = 1 =>
                    head = 0 /\ parseOutboxEntries[n].id = First
           /\ head = 0 => \E n \in DOMAIN parseOutboxEntries : parseOutboxEntries[n].uid = 1
<1>1. /\ Len(log) \in Nat /\ Len(log) > 0 /\ head \in Nat /\ head <= Len(log)
  BY OutboxAssumption DEF Typed, TypeOK
<1>2. DOMAIN parseOutboxEntries = 1..(Len(log) - head)
  <2>. DEFINE es == parseOutboxEntries
  <2>1. es \in Seq(Entries) /\ Len(es) = Len(log) - head
    BY ParsedIs
  <2>. HIDE DEF es
  <2>2. DOMAIN es = 1..(Len(log) - head)
    BY <2>1
  <2>. QED BY <2>2 DEF es
<1>3. \A n \in 1..(Len(log) - head) :
         parseOutboxEntries[n] = [uid |-> head + n, id |-> EntryId(head + n)]
  BY ParsedIs
<1>4. EntryId(1) = First
  <2>1. {v \in (head + 1)..(1 - 1) : log[v] = log[1]} = {}
    BY <1>1
  <2>. QED BY <2>1, FS_EmptySet DEF EntryId, First
<1>5. ASSUME NEW n \in 1..(Len(log) - head), head + n = 1
      PROVE  parseOutboxEntries[n].id = First
  <2>1. parseOutboxEntries[n] = [uid |-> head + n, id |-> EntryId(head + n)]
    BY <1>3
  <2>2. EntryId(head + n) = First
    BY <1>4, <1>5, Zenon
  <2>. QED BY <2>1, <2>2
<1>6. head = 0 => 1 \in 1..(Len(log) - head) /\ head + 1 = 1
  BY <1>1
<1>. HIDE DEF parseOutboxEntries
<1>7. \A n \in 1..(Len(log) - head) : parseOutboxEntries[n].uid = head + n
  <2>. TAKE n \in 1..(Len(log) - head)
  <2>. DEFINE x == head + n  y == EntryId(head + n)
  <2>1. parseOutboxEntries[n] = [uid |-> x, id |-> y]
    BY <1>3
  <2>. HIDE DEF x, y
  <2>2. parseOutboxEntries[n].uid = x
    BY <2>1
  <2>. QED BY <2>2 DEF x
<1>8. \A n \in 1..(Len(log) - head) : head + n = 1 => head = 0
  BY <1>1
<1>9. head = 0 => parseOutboxEntries[1].uid = 1
  BY <1>6, <1>7
<1>. QED BY <1>2, <1>5, <1>6, <1>7, <1>8, <1>9

LEMMA QuarantineKeeps ==
    ASSUME Unraced, Typed, Quarantined, [Next]_vars
    PROVE  Quarantined'
<1>. USE DEF STATE_VERSION
<1>1. /\ Len(log) \in Nat /\ Len(log) > 0 /\ head \in Nat /\ log \in Seq(Bodies)
      /\ log # <<>> /\ sent[1] = 0 /\ 1 \in Uids /\ sent \in [Uids -> Nat]
      /\ sidecar.version = STATE_VERSION /\ head = 0 => First \in sidecar.drained
  BY OutboxAssumption DEF Typed, TypeOK, Quarantined, Uids
<1>2. CASE UNCHANGED vars
  BY <1>2 DEF vars, files, local, counts, faults, Quarantined, QuarantinedFor, First, Snapshot
<1>3. ASSUME NEW b \in Bodies, AppendEntry(b)
      PROVE  Quarantined'
  <2>1. log' # <<>> /\ log'[1] = log[1]
    BY <1>1, <1>3 DEF AppendEntry
  <2>2. UNCHANGED <<head, sidecar, pc, entries, state, sent>>
    BY <1>3 DEF AppendEntry, local, counts
  <2>. QED BY <2>1, <2>2 DEF Quarantined, QuarantinedFor, First, Snapshot
<1>4. CASE Trim
  <2>1. head' > 0 /\ UNCHANGED <<log, sidecar, pc, entries, state, sent>>
    BY <1>1, <1>4 DEF Trim, local, counts
  <2>. QED BY <2>1 DEF Quarantined, QuarantinedFor, First, Snapshot
<1>5. ASSUME NEW p \in Procs, Drain(p) \/ BackoffExpires(p) \/ Crash(p)
      PROVE  Quarantined'
  <2>1. UNCHANGED <<log, head>> /\ First' = First
    BY <1>5 DEF Drain, ReadOutbox, LoadState, TruncateSidecar, WriteSidecar, SkipDrained,
                SkipInBackoff, Post, DeliverOk, DeliverFailed, Finish, BackoffExpires, Crash,
                files, First
  <2>2. /\ pc \in [Procs -> Stages] /\ entries \in [Procs -> Seq(Entries)]
        /\ state \in [Procs -> States]
        /\ \A q \in Procs : QuarantinedFor(q)
    BY DEF Typed, TypeOK, Stages, Quarantined
  <2>3. ASSUME NEW q \in Procs, q # p, sidecar' # sidecar => ~WriteSidecar(p)
        PROVE  QuarantinedFor(q)'
    <3>1. pc'[q] = pc[q] /\ entries'[q] = entries[q] /\ state'[q] = state[q]
      BY <1>5, <2>2, <2>3 DEF Drain, ReadOutbox, LoadState, TruncateSidecar, WriteSidecar,
                SkipDrained, SkipInBackoff, Post, DeliverOk, DeliverFailed, Finish,
                BackoffExpires, Crash
    <3>2. sidecar' = sidecar \/ sidecar'.version # STATE_VERSION
      BY <1>5, <2>3 DEF Drain, ReadOutbox, LoadState, TruncateSidecar, SkipDrained,
                SkipInBackoff, Post, DeliverOk, DeliverFailed, Finish, BackoffExpires, Crash,
                files, LostSidecar
    <3>. QED BY <2>1, <2>2, <3>1, <3>2 DEF QuarantinedFor, Snapshot
  <2>4. CASE ReadOutbox(p)
    <3>1. /\ entries'[p] = parseOutboxEntries /\ pc'[p] = "load"
          /\ UNCHANGED <<sidecar, state, sent>>
      BY <2>2, <2>4 DEF ReadOutbox, files, counts
    <3>2. /\ \A n \in DOMAIN entries'[p] : entries'[p][n].uid = 1 => entries'[p][n].id = First
          /\ head = 0 => 1 \in Snapshot(p)'
      BY <1>1, <3>1, FirstRead DEF Snapshot
    <3>3. 1 \in Snapshot(p)' => head = 0
      <4>1. \A n \in DOMAIN parseOutboxEntries : parseOutboxEntries[n].uid = 1 => head = 0
        BY <1>1, FirstRead
      <4>. QED BY <3>1, <4>1 DEF Snapshot
    <3>4. QuarantinedFor(p)'
      BY <1>1, <2>1, <3>1, <3>2, <3>3 DEF QuarantinedFor
    <3>. QED BY <1>1, <2>1, <2>3, <3>1, <3>4 DEF Quarantined
  <2>5. CASE LoadState(p)
    <3>1. /\ UNCHANGED <<sidecar, entries, sent>> /\ pc[p] = "load"
          /\ \/ /\ sidecar.version < STATE_VERSION
                /\ state'[p] = Migrate(sidecar, entries[p]) /\ pc'[p] = "truncate"
             \/ /\ ~(sidecar.version < STATE_VERSION)
                /\ state'[p] = sidecar /\ pc'[p] = "loop"
      BY <2>2, <2>5 DEF LoadState, files, counts
    <3>2. sidecar.version < STATE_VERSION \/ sidecar.version = STATE_VERSION
      BY DEF Typed, TypeOK, States
    <3>3. 1 \in Snapshot(p) => First \in state'[p].drained
      BY <2>2, <3>1, <3>2 DEF QuarantinedFor, Migrate, Snapshot
    <3>4. QuarantinedFor(p)'
      BY <2>1, <2>2, <3>1, <3>3 DEF QuarantinedFor, Snapshot
    <3>. QED BY <1>1, <2>1, <2>3, <3>1, <3>4 DEF Quarantined
  <2>6. CASE TruncateSidecar(p)
    <3>1. /\ sidecar'.version # STATE_VERSION /\ UNCHANGED <<entries, state, sent>>
          /\ pc[p] = "truncate" /\ pc'[p] = "write"
      BY <2>2, <2>6 DEF TruncateSidecar, LostSidecar, counts
    <3>2. QuarantinedFor(p)'
      BY <2>1, <2>2, <3>1 DEF QuarantinedFor, Snapshot
    <3>3. ~WriteSidecar(p)
      BY <3>1 DEF WriteSidecar
    <3>. QED BY <1>1, <2>1, <2>3, <3>1, <3>2, <3>3 DEF Quarantined
  <2>7. CASE WriteSidecar(p)
    <3>1. /\ sidecar' = state[p] /\ UNCHANGED <<entries, state, sent>>
          /\ pc[p] = "write" /\ pc'[p] = "loop" /\ \A q \in Procs : q # p => pc'[q] = pc[q]
      BY <2>2, <2>7 DEF WriteSidecar, counts
    <3>2. head = 0 => First \in sidecar'.drained
      BY <2>2, <3>1 DEF QuarantinedFor
    <3>3. QuarantinedFor(p)'
      BY <2>1, <2>2, <3>1 DEF QuarantinedFor, Snapshot
    <3>4. ASSUME NEW q \in Procs, q # p
          PROVE  QuarantinedFor(q)'
      <4>1. head = 0
        BY <3>4, OutboxAssumption DEF Unraced, Typed, TypeOK
      <4>. QED BY <2>1, <2>2, <3>1, <3>2, <3>4, <4>1 DEF QuarantinedFor, Snapshot
    <3>. QED BY <1>1, <2>1, <3>1, <3>2, <3>3, <3>4 DEF Quarantined
  <2>8. CASE SkipDrained(p) \/ SkipInBackoff(p) \/ BackoffExpires(p) \/ DeliverFailed(p)
    <3>1. /\ UNCHANGED <<sidecar, entries, sent>> /\ state'[p] = state[p]
          /\ pc'[p] = pc[p] \/ (pc[p] = "await" /\ pc'[p] = "loop")
      <4>1. CASE DeliverFailed(p)
        BY <2>2, <4>1 DEF DeliverFailed, StateAfterFailure, files, counts
      <4>2. CASE SkipDrained(p)
        BY <4>2 DEF SkipDrained, files, counts
      <4>3. CASE SkipInBackoff(p)
        BY <4>3 DEF SkipInBackoff, files, counts
      <4>4. CASE BackoffExpires(p)
        BY <4>4 DEF BackoffExpires, files, counts
      <4>. QED BY <2>8, <4>1, <4>2, <4>3, <4>4
    <3>2. QuarantinedFor(p)'
      BY <2>1, <2>2, <3>1 DEF QuarantinedFor, Snapshot
    <3>. QED BY <1>1, <2>1, <2>3, <3>1, <3>2 DEF Quarantined
  <2>9. CASE Post(p)
    <3>1. /\ UNCHANGED <<sidecar, entries, state>> /\ pc[p] = "loop" /\ pc'[p] = "await"
          /\ Current(p).id \notin state[p].drained
          /\ sent' = [sent EXCEPT ![Current(p).uid] = @ + 1] \/ UNCHANGED sent
      BY <2>2, <2>9 DEF Post, AtEntry, AlreadyDrained, files, counts
    <3>2. i[p] \in DOMAIN entries[p] /\ Current(p) = entries[p][i[p]]
      BY <2>9, CurrentIsRead DEF Post, Current
    <3>3. Current(p).uid # 1
      BY <2>2, <3>1, <3>2 DEF QuarantinedFor, Snapshot
    <3>4. sent'[1] = 0
      BY <1>1, <3>1, <3>3
    <3>5. QuarantinedFor(p)'
      BY <2>1, <2>2, <3>1 DEF QuarantinedFor, Snapshot
    <3>. QED BY <1>1, <2>1, <2>3, <3>1, <3>4, <3>5 DEF Quarantined
  <2>10. CASE DeliverOk(p)
    <3>1. /\ UNCHANGED <<sidecar, entries, sent>> /\ pc[p] = "await" /\ pc'[p] = "truncate"
          /\ state[p].drained \subseteq state'[p].drained
      BY <2>2, <2>10 DEF DeliverOk, files, counts, States
    <3>2. QuarantinedFor(p)'
      BY <2>1, <2>2, <3>1 DEF QuarantinedFor, Snapshot
    <3>. QED BY <1>1, <2>1, <2>3, <3>1, <3>2 DEF Quarantined
  <2>11. CASE Finish(p) \/ Crash(p)
    <3>1. UNCHANGED <<sidecar, sent>> /\ entries'[p] = <<>> /\ pc'[p] = "idle"
      BY <2>2, <2>11 DEF Finish, Crash, files, counts
    <3>2. QuarantinedFor(p)'
      BY <3>1 DEF QuarantinedFor, Snapshot
    <3>. QED BY <1>1, <2>1, <2>3, <3>1, <3>2 DEF Quarantined
  <2>. QED BY <1>5, <2>4, <2>5, <2>6, <2>7, <2>8, <2>9, <2>10, <2>11 DEF Drain
<1>. QED BY <1>2, <1>3, <1>4, <1>5 DEF Next

\* A backlog found beside a sidecar that is missing or of an old version is never
\* POSTed, whatever fails: with one process, or with several that share a file
\* nobody trims (outbox-drainer.ts:215-230, 355-386).
THEOREM BacklogStaysQuarantined ==
    ASSUME Unraced
    PROVE  Spec => LegacyBacklogNeverSent
<1>1. Init /\ Backlog => Typed /\ Quarantined
  <2>1. ASSUME Init, Backlog
        PROVE  Quarantined
    <3>1. log # <<>> /\ sent[1] = 0 /\ sidecar.version # STATE_VERSION
      BY <2>1, OutboxAssumption DEF Init, Backlog, STATE_VERSION, Uids
    <3>2. \A p \in Procs : entries[p] = <<>> /\ pc[p] = "idle"
      BY <2>1 DEF Init
    <3>. QED BY <3>1, <3>2 DEF Quarantined, QuarantinedFor, Snapshot
  <2>. QED BY <2>1, InitTyped
<1>2. Typed /\ Quarantined /\ [Next]_vars => (Typed /\ Quarantined)'
  BY TypedKeeps, QuarantineKeeps
<1>3. Typed /\ Quarantined => sent[1] = 0
  BY DEF Quarantined
<1>. QED BY <1>1, <1>2, <1>3, PTL DEF Spec, LegacyBacklogNeverSent, Backlog
-----------------------------------------------------------------------------
(* One process: every duplicate and every drop has a cause. *)

\* An entry's text, with its ordinal among those of its text in the sequence l.
IdIn(l, u) == <<l[u], Cardinality({v \in 1..(u - 1) : l[v] = l[u]})>>

\* The id by all that was ever appended.
Id(u) == IdIn(log, u)

\* Two entries never have the same id.
LEMMA IdsDiffer ==
    ASSUME NEW l, NEW u \in Nat, NEW w \in Nat, 0 < u, u < w, IdIn(l, u) = IdIn(l, w)
    PROVE  FALSE
<1>. DEFINE E(n) == {v \in 1..(n - 1) : l[v] = l[n]}
<1>1. l[u] = l[w] /\ Cardinality(E(u)) = Cardinality(E(w))
  BY DEF IdIn
<1>2. ASSUME NEW n \in Nat
      PROVE  IsFiniteSet(E(n)) /\ Cardinality(E(n)) \in Nat
  <2>1. IsFiniteSet(1..(n - 1))
    BY FS_Interval
  <2>. QED BY <2>1, FS_Subset, FS_CardinalityType
<1>3. E(u) \cup {u} \subseteq E(w) /\ u \notin E(u)
  BY <1>1
<1>. HIDE DEF E
<1>4. Cardinality(E(u) \cup {u}) = Cardinality(E(u)) + 1
  BY <1>2, <1>3, FS_AddElement
<1>5. Cardinality(E(u) \cup {u}) <= Cardinality(E(w))
  BY <1>2, <1>3, FS_Subset
<1>. QED BY <1>1, <1>2, <1>4, <1>5

LEMMA IdsTell ==
    ASSUME NEW l, NEW u \in Nat, NEW w \in Nat, 0 < u, 0 < w, IdIn(l, u) = IdIn(l, w)
    PROVE  u = w
<1>1. ~(u < w)
  BY IdsDiffer
<1>2. ~(w < u)
  BY IdsDiffer
<1>. QED BY <1>1, <1>2

\* While no trim has taken an entry whose text another has, a parse finds these ids.
LEMMA ParsedIdIs ==
    ASSUME Typed, ~Renumbered, NEW u \in DOMAIN log, u > head
    PROVE  EntryId(u) = Id(u)
<1>1. head \in Nat /\ u \in Nat
  BY OutboxAssumption DEF Typed, TypeOK
<1>2. \A v \in 1..(u - 1) : log[v] = log[u] => v \in (head + 1)..(u - 1)
  BY <1>1 DEF Renumbered
<1>3. {v \in (head + 1)..(u - 1) : log[v] = log[u]} = {v \in 1..(u - 1) : log[v] = log[u]}
  BY <1>1, <1>2
<1>. QED BY <1>3 DEF EntryId, Id, IdIn

\* Counting finite sets of uids.
LEMMA UidsFinite ==
    ASSUME NEW S, S \subseteq Uids
    PROVE  IsFiniteSet(S) /\ Cardinality(S) \in Nat
<1>1. IsFiniteSet(Uids)
  BY FS_Interval, OutboxAssumption DEF Uids
<1>. QED BY <1>1, FS_Subset, FS_CardinalityType

LEMMA NoMore ==
    ASSUME NEW S, NEW T, S \subseteq T, T \subseteq Uids
    PROVE  /\ Cardinality(S) \in Nat /\ Cardinality(T) \in Nat
           /\ Cardinality(S) <= Cardinality(T)
<1>1. S \subseteq Uids
  OBVIOUS
<1>. QED BY <1>1, UidsFinite, FS_Subset

LEMMA OneMore ==
    ASSUME NEW S, NEW T, NEW x, S \subseteq T \cup {x}, S \subseteq Uids, T \subseteq Uids
    PROVE  /\ Cardinality(S) \in Nat /\ Cardinality(T) \in Nat
           /\ Cardinality(S) <= Cardinality(T) + 1
<1>1. /\ IsFiniteSet(T) /\ Cardinality(T) \in Nat /\ Cardinality(S) \in Nat
  BY UidsFinite
<1>2. IsFiniteSet(T \cup {x}) /\ Cardinality(T \cup {x}) <= Cardinality(T) + 1
  <2>1. CASE x \in T
    <3>1. T \cup {x} = T
      BY <2>1
    <3>2. IsFiniteSet(T \cup {x}) /\ Cardinality(T \cup {x}) = Cardinality(T)
      BY <1>1, <3>1, Zenon
    <3>. QED BY <1>1, <3>2
  <2>2. CASE x \notin T
    BY <1>1, <2>2, FS_AddElement
  <2>. QED BY <2>1, <2>2
<1>3. Cardinality(S) <= Cardinality(T \cup {x})
  BY <1>2, FS_Subset
<1>4. Cardinality(T \cup {x}) \in Nat
  BY <1>2, FS_CardinalityType
<1>. QED BY <1>1, <1>2, <1>3, <1>4

LEMMA OneLess ==
    ASSUME NEW S, NEW T, NEW x \in T, S \subseteq T \ {x}, T \subseteq Uids
    PROVE  /\ Cardinality(S) \in Nat /\ Cardinality(T) \in Nat
           /\ Cardinality(S) + 1 <= Cardinality(T)
<1>1. /\ S \subseteq Uids /\ x \notin S /\ S \cup {x} \subseteq T
  OBVIOUS
<1>2. /\ IsFiniteSet(S) /\ Cardinality(S) \in Nat /\ IsFiniteSet(T) /\ Cardinality(T) \in Nat
  BY <1>1, UidsFinite
<1>3. Cardinality(S \cup {x}) = Cardinality(S) + 1
  BY <1>1, <1>2, FS_AddElement
<1>4. Cardinality(S \cup {x}) <= Cardinality(T)
  BY <1>1, <1>2, FS_Subset
<1>. QED BY <1>2, <1>3, <1>4

-----------------------------------------------------------------------------

\* What a process has read is what was logged, under its own id.
ReadRight(p) ==
    \A n \in DOMAIN entries[p] :
        /\ entries[p][n].uid \in DOMAIN log
        /\ entries[p][n].id = Id(entries[p][n].uid)

\* A process that drains has read every entry that was sent and is not trimmed.
SentRead(p) ==
    /\ \A u \in Uids : sent[u] > 0 => u \in DOMAIN log
    /\ pc[p] # "idle" => \A u \in Uids : sent[u] > 0 /\ u > head => u \in Snapshot(p)

\* The sidecar is the process's snapshot of it, but while that is being saved.
Saved(p) ==
    /\ pc[p] \in {"loop", "truncate", "write", "await"} => state[p].version = STATE_VERSION
    /\ pc[p] \in {"loop", "await"} => sidecar = state[p]
    /\ pc[p] = "write" => sidecar = LostSidecar
    /\ pc[p] = "truncate" /\ sidecar.version = STATE_VERSION =>
          /\ i[p] > 1
          /\ state[p].drained = sidecar.drained \cup {entries[p][i[p] - 1].id}

\* The ids in the sidecar and in the snapshot are those of logged entries.
Marks == {Id(u) : u \in DOMAIN log}
MarksLogged(p) == sidecar.drained \subseteq Marks /\ state[p].drained \subseteq Marks

\* A POST that was accepted is one of an entry the process holds as pending.
PostedSent(p) ==
    /\ posted[p] => sent[Current(p).uid] > 0
    /\ pc[p] = "await" => Current(p).id \notin state[p].drained

\* What the process goes by: the sidecar until it has a snapshot of it.
Believed(p) == IF pc[p] \in {"idle", "load"} THEN sidecar ELSE state[p]

\* Entries that were sent and could be sent again: nothing lists them as drained.
Exposed(p) ==
    {u \in Uids :
        /\ sent[u] > 0
        /\ u > head \/ u \in Snapshot(p)
        /\ Believed(p).version = STATE_VERSION
        /\ Id(u) \notin Believed(p).drained
        /\ posted[p] => u # Current(p).uid}

\* Each cause exposes one entry, and sending an exposed entry again closes it.
Budget(p) == resends + Cardinality(Exposed(p)) <= crashes + lost

\* Nothing is owed before there is a baseline, and an owed entry is listed only
\* when it was sent.
OwedSent(p) ==
    crashes = 0 =>
        /\ sidecar.version < STATE_VERSION /\ pc[p] # "write" => owed = {}
        /\ \A u \in owed : Id(u) \in sidecar.drained => sent[u] > 0
        /\ \A u \in owed : Id(u) \in state[p].drained => sent[u] > 0

Kept(p) ==
    /\ ReadRight(p) /\ SentRead(p) /\ Saved(p) /\ MarksLogged(p)
    /\ PostedSent(p) /\ Budget(p) /\ OwedSent(p)

OutboxInv == Typed /\ (~Renumbered => \A p \in Procs : Kept(p))

-----------------------------------------------------------------------------

LEMMA ExposedAreUids ==
    ASSUME NEW p \in Procs
    PROVE  Exposed(p) \subseteq Uids
  BY DEF Exposed

\* The types that the steps of a process need.
LEMMA OwnTypes ==
    ASSUME Typed, NEW p \in Procs
    PROVE  /\ pc \in [Procs -> Stages] /\ entries \in [Procs -> Seq(Entries)]
           /\ state \in [Procs -> States] /\ i \in [Procs -> 1..(MaxAppends + 1)]
           /\ posted \in [Procs -> BOOLEAN] /\ sidecar \in States
           /\ sent \in [Uids -> Nat] /\ log \in Seq(Bodies) /\ owed \subseteq DOMAIN log
           /\ resends \in Nat /\ crashes \in Nat /\ lost \in Nat /\ head \in Nat
           /\ pc[p] # "await" => posted[p] = FALSE
           /\ DOMAIN log \subseteq Uids /\ \A u \in DOMAIN log : u \in Nat /\ 0 < u
<1>1. \A u \in DOMAIN log : u \in Nat /\ 0 < u /\ u \in Uids
  BY OutboxAssumption DEF Typed, TypeOK, Uids
<1>2. posted[p] \in BOOLEAN /\ (posted[p] => pc[p] = "await")
  BY DEF Typed, TypeOK, Within
<1>3. resends \in Nat /\ crashes \in Nat /\ lost \in Nat /\ head \in Nat
  BY OutboxAssumption DEF Typed, TypeOK
<1>4. /\ pc \in [Procs -> Stages] /\ entries \in [Procs -> Seq(Entries)]
      /\ state \in [Procs -> States] /\ i \in [Procs -> 1..(MaxAppends + 1)]
      /\ posted \in [Procs -> BOOLEAN] /\ sidecar \in States
      /\ sent \in [Uids -> Nat] /\ log \in Seq(Bodies) /\ owed \subseteq DOMAIN log
  BY DEF Typed, TypeOK, Stages
<1>. QED BY <1>1, <1>2, <1>3, <1>4

\* Renumbering is for good.
LEMMA RenumberedStays ==
    ASSUME Typed, [Next]_vars, Renumbered
    PROVE  Renumbered'
<1>1. CASE UNCHANGED <<log, head>>
  BY <1>1 DEF Renumbered
<1>2. ASSUME NEW b \in Bodies, AppendEntry(b)
      PROVE  Renumbered'
  <2>1. head' = head
    BY <1>2 DEF AppendEntry
  <2>2. \A u \in DOMAIN log : u \in DOMAIN log' /\ log'[u] = log[u]
    BY <1>2, AppendKeepsTyped
  <2>3. 1..head \subseteq DOMAIN log
    BY OutboxAssumption DEF Typed, TypeOK
  <2>. QED BY <2>1, <2>2, <2>3 DEF Renumbered
<1>3. CASE Trim
  <2>1. log' = log /\ head' = head + 1 /\ head \in Nat
    BY <1>3, OutboxAssumption DEF Trim, Typed, TypeOK
  <2>2. 1..head \subseteq 1..head'
    BY <2>1
  <2>. QED BY <2>1, <2>2 DEF Renumbered
<1>. QED BY <1>1, <1>2, <1>3 DEF Next, Drain, ReadOutbox, LoadState, TruncateSidecar,
         WriteSidecar, SkipDrained, SkipInBackoff, Post, DeliverOk, DeliverFailed, Finish,
         BackoffExpires, Crash, vars, files
-----------------------------------------------------------------------------
(* What each step leaves of Kept(p).                                       *)

\* Ids depend on nothing but the log.
LEMMA SameIds ==
    ASSUME UNCHANGED log
    PROVE  (\A u : Id(u)' = Id(u)) /\ Marks' = Marks
<1>1. \A u : Id(u)' = Id(u)
  BY DEF Id
<1>2. Marks' = {Id(u)' : u \in DOMAIN log'}
  BY DEF Marks
<1>. QED BY <1>1, <1>2 DEF Marks

\* A step that touches neither the files nor what the process knows.
LEMMA UntouchedKept ==
    ASSUME Typed, NEW p \in Procs, Kept(p),
           UNCHANGED <<log, head, owed, sidecar, pc, entries, state, i, posted,
                       sent, resends, crashes, lost>>
    PROVE  Kept(p)'
<1>1. (\A u : Id(u)' = Id(u)) /\ Marks' = Marks
  BY SameIds
<1>2. Exposed(p)' = Exposed(p)
  BY <1>1 DEF Exposed, Believed, Current, Snapshot
<1>3. ReadRight(p)' /\ SentRead(p)'
  BY <1>1 DEF Kept, ReadRight, SentRead, Snapshot
<1>4. Saved(p)' /\ MarksLogged(p)'
  BY <1>1 DEF Kept, Saved, MarksLogged
<1>5. PostedSent(p)' /\ Budget(p)'
  BY <1>2 DEF Kept, PostedSent, Budget, Current
<1>6. OwedSent(p)'
  BY <1>1 DEF Kept, OwedSent
<1>. QED BY <1>3, <1>4, <1>5, <1>6 DEF Kept

\* The counters are numbers.
LEMMA Numbers ==
    ASSUME Typed
    PROVE  resends \in Nat /\ crashes \in Nat /\ lost \in Nat /\ head \in Nat
  BY OutboxAssumption DEF Typed, TypeOK

\* A step that exposes nothing stays within the budget ...
LEMMA BudgetKept ==
    ASSUME Typed, NEW p \in Procs, Budget(p), Exposed(p)' \subseteq Exposed(p),
           UNCHANGED resends,
           \/ UNCHANGED <<crashes, lost>>
           \/ crashes' = crashes + 1 /\ UNCHANGED lost
           \/ lost' = lost + 1 /\ UNCHANGED crashes
    PROVE  Budget(p)'
<1>1. /\ Cardinality(Exposed(p)') \in Nat /\ Cardinality(Exposed(p)) \in Nat
      /\ Cardinality(Exposed(p)') <= Cardinality(Exposed(p))
  BY ExposedAreUids, NoMore
<1>2. resends + Cardinality(Exposed(p)) <= crashes + lost
  BY DEF Budget
<1>3. resends' + Cardinality(Exposed(p)') <= crashes' + lost'
  BY <1>1, <1>2, Numbers
<1>4. Cardinality(Exposed(p))' = Cardinality(Exposed(p)')
  OBVIOUS
<1>. QED BY <1>3, <1>4 DEF Budget

\* ... and so does a fault that exposes one entry.
LEMMA FaultBudgeted ==
    ASSUME Typed, NEW p \in Procs, Budget(p), NEW x,
           Exposed(p)' \subseteq Exposed(p) \cup {x},
           UNCHANGED resends,
           \/ crashes' = crashes + 1 /\ UNCHANGED lost
           \/ lost' = lost + 1 /\ UNCHANGED crashes
    PROVE  Budget(p)'
<1>1. Exposed(p)' \subseteq Uids /\ Exposed(p) \subseteq Uids
  BY DEF Exposed
<1>2. /\ Cardinality(Exposed(p)') \in Nat /\ Cardinality(Exposed(p)) \in Nat
      /\ Cardinality(Exposed(p)') <= Cardinality(Exposed(p)) + 1
  BY <1>1, OneMore
<1>3. resends + Cardinality(Exposed(p)) <= crashes + lost
  BY DEF Budget
<1>4. resends' + Cardinality(Exposed(p)') <= crashes' + lost'
  BY <1>2, <1>3, Numbers
<1>. QED BY <1>4 DEF Budget

LEMMA AppendKept ==
    ASSUME Typed, NEW p \in Procs, Kept(p), NEW b \in Bodies, AppendEntry(b),
           \A q \in Procs : q = p
    PROVE  Kept(p)'
<1>1. /\ log \in Seq(Bodies) /\ Len(log) \in Nat /\ DOMAIN log = 1..Len(log)
      /\ owed \subseteq DOMAIN log
  BY DEF Typed, TypeOK
<1>2. PICK new \in Nat : new = Len(log) + 1
  BY <1>1
<1>3. /\ UNCHANGED <<head, sidecar, pc, entries, state, i, posted, sent, resends, crashes,
                     lost>>
      /\ owed' = IF Baselined THEN owed \cup {new} ELSE owed
  BY <1>2 DEF AppendEntry, local, counts, faults
<1>4. /\ \A u \in DOMAIN log : u \in DOMAIN log' /\ log'[u] = log[u]
      /\ new \in DOMAIN log' /\ new \notin DOMAIN log
      /\ \A u \in DOMAIN log : u \in Nat /\ 0 < u /\ u < new
  <2>1. /\ Len(log') = Len(log) + 1 /\ \A u \in DOMAIN log : u \in DOMAIN log' /\ log'[u] = log[u]
        /\ Typed'
    BY AppendKeepsTyped
  <2>2. log' \in Seq(Bodies)
    BY <2>1 DEF Typed, TypeOK
  <2>. QED BY <1>1, <1>2, <2>1, <2>2
<1>5. \A u \in DOMAIN log : Id(u)' = Id(u)
  <2>1. ASSUME NEW u \in DOMAIN log
        PROVE  Id(u)' = Id(u)
    <3>1. \A v \in 1..(u - 1) : log'[v] = log[v]
      BY <1>1, <1>4
    <3>2. {v \in 1..(u - 1) : log'[v] = log'[u]} = {v \in 1..(u - 1) : log[v] = log[u]}
      BY <1>4, <3>1
    <3>. QED BY <1>4, <3>2 DEF Id, IdIn
  <2>. QED BY <2>1
<1>6. Id(new)' \notin Marks
  <2>1. ASSUME NEW u \in DOMAIN log, Id(new)' = Id(u)
        PROVE  FALSE
    <3>1. IdIn(log', new) = IdIn(log', u)
      BY <1>5, <2>1 DEF Id
    <3>2. u \in Nat /\ 0 < u /\ u < new
      BY <1>4
    <3>. QED BY <3>1, <3>2, IdsDiffer
  <2>. QED BY <2>1 DEF Marks
<1>7. Marks \subseteq Marks'
  <2>1. ASSUME NEW u \in DOMAIN log
        PROVE  Id(u) \in Marks'
    <3>1. u \in DOMAIN log' /\ Id(u) = Id(u)'
      BY <1>4, <1>5
    <3>. QED BY <3>1 DEF Marks
  <2>. QED BY <2>1 DEF Marks
<1>8. ReadRight(p)' /\ SentRead(p)'
  BY <1>3, <1>4, <1>5 DEF Kept, ReadRight, SentRead, Snapshot
<1>9. Saved(p)' /\ MarksLogged(p)' /\ PostedSent(p)'
  BY <1>3, <1>7 DEF Kept, Saved, MarksLogged, PostedSent, Current
<1>10. Budget(p)'
  <2>1. Exposed(p)' \subseteq Exposed(p)
    BY <1>3, <1>5 DEF Kept, SentRead, Exposed, Believed, Current, Snapshot
  <2>. QED BY <1>3, <2>1, BudgetKept DEF Kept
<1>11. OwedSent(p)'
  <2>1. ASSUME crashes = 0, sidecar.version < STATE_VERSION, pc[p] # "write"
        PROVE  owed' = {}
    BY <1>3, <2>1 DEF Baselined, STATE_VERSION, Kept, OwedSent
  <2>2. owed' \subseteq owed \cup {new}
    BY <1>3
  <2>3. Id(new)' \notin sidecar.drained /\ Id(new)' \notin state[p].drained
    BY <1>6 DEF Kept, MarksLogged
  <2>. QED BY <1>1, <1>3, <1>5, <2>1, <2>2, <2>3 DEF Kept, OwedSent
<1>. QED BY <1>8, <1>9, <1>10, <1>11 DEF Kept

LEMMA TrimKept ==
    ASSUME Typed, NEW p \in Procs, Kept(p), Trim
    PROVE  Kept(p)'
<1>1. /\ UNCHANGED <<log, owed, sidecar, pc, entries, state, i, posted, sent, resends,
                     crashes, lost>>
      /\ head' = head + 1 /\ head \in Nat
  BY OwnTypes DEF Trim, local, counts, faults
<1>2. (\A u : Id(u)' = Id(u)) /\ Marks' = Marks
  BY <1>1, SameIds
<1>3. \A u \in Uids : u > head' => u > head
  BY <1>1, OutboxAssumption DEF Uids
<1>4. ReadRight(p)' /\ SentRead(p)'
  BY <1>1, <1>2, <1>3 DEF Kept, ReadRight, SentRead, Snapshot
<1>5. Saved(p)' /\ MarksLogged(p)' /\ PostedSent(p)'
  BY <1>1, <1>2 DEF Kept, Saved, MarksLogged, PostedSent, Current
<1>6. Budget(p)'
  <2>1. Exposed(p)' \subseteq Exposed(p)
    BY <1>1, <1>2, <1>3 DEF Exposed, Believed, Current, Snapshot
  <2>. QED BY <1>1, <2>1, BudgetKept DEF Kept
<1>7. OwedSent(p)'
  BY <1>1, <1>2 DEF Kept, OwedSent
<1>. QED BY <1>4, <1>5, <1>6, <1>7 DEF Kept

LEMMA ReadKept ==
    ASSUME Typed, NEW p \in Procs, Kept(p), ~Renumbered, ReadOutbox(p)
    PROVE  Kept(p)'
<1>1. /\ UNCHANGED <<log, head, owed, sidecar, state, posted, sent, resends, crashes, lost>>
      /\ entries'[p] = parseOutboxEntries /\ pc[p] = "idle" /\ pc'[p] = "load"
      /\ posted[p] = FALSE
  BY OwnTypes DEF ReadOutbox, NotInFlight, files, counts, faults
<1>2. (\A u : Id(u)' = Id(u)) /\ Marks' = Marks
  BY <1>1, SameIds
<1>3. /\ Len(log) \in Nat /\ head \in Nat /\ head <= Len(log) /\ DOMAIN log = 1..Len(log)
  BY OutboxAssumption DEF Typed, TypeOK
<1>4. DOMAIN parseOutboxEntries = 1..(Len(log) - head)
  <2>. DEFINE es == parseOutboxEntries
  <2>1. es \in Seq(Entries) /\ Len(es) = Len(log) - head
    BY ParsedIs
  <2>. HIDE DEF es
  <2>2. DOMAIN es = 1..(Len(log) - head)
    BY <2>1
  <2>. QED BY <2>2 DEF es
<1>5. ASSUME NEW n \in DOMAIN parseOutboxEntries
      PROVE  /\ parseOutboxEntries[n].uid = head + n
             /\ parseOutboxEntries[n].uid \in DOMAIN log /\ parseOutboxEntries[n].uid > head
             /\ parseOutboxEntries[n].id = Id(parseOutboxEntries[n].uid)
  <2>. DEFINE u == head + n
  <2>1. parseOutboxEntries[n] = [uid |-> u, id |-> EntryId(u)]
    BY <1>4, ParsedIs
  <2>2. u \in DOMAIN log /\ u > head
    BY <1>3, <1>4
  <2>3. EntryId(u) = Id(u)
    BY <2>2, ParsedIdIs
  <2>. HIDE DEF u
  <2>4. parseOutboxEntries[n].uid = u /\ parseOutboxEntries[n].id = Id(u)
    BY <2>1, <2>3
  <2>5. parseOutboxEntries[n].id = Id(parseOutboxEntries[n].uid)
    BY <2>4, Zenon
  <2>. QED BY <2>2, <2>4, <2>5 DEF u
<1>6. \A u \in Snapshot(p)' : u > head
  BY <1>1, <1>5 DEF Snapshot
<1>7. ReadRight(p)'
  BY <1>1, <1>2, <1>5 DEF ReadRight
<1>8. SentRead(p)'
  <2>1. ASSUME NEW u \in Uids, sent[u] > 0, u > head
        PROVE  u \in Snapshot(p)'
    <3>1. u \in DOMAIN log /\ u \in Nat
      BY <2>1, OutboxAssumption DEF Kept, SentRead, Uids
    <3>2. PICK n \in 1..(Len(log) - head) : u = head + n
      <4>1. u - head \in 1..(Len(log) - head) /\ u = head + (u - head)
        BY <1>3, <2>1, <3>1
      <4>. QED BY <4>1
    <3>. QED BY <1>1, <1>4, <1>5, <3>2 DEF Snapshot
  <2>. QED BY <1>1, <2>1 DEF Kept, SentRead
<1>9. Saved(p)' /\ MarksLogged(p)' /\ PostedSent(p)'
  BY <1>1, <1>2 DEF Kept, Saved, MarksLogged, PostedSent
<1>10. Budget(p)'
  <2>1. Exposed(p)' \subseteq Exposed(p)
    BY <1>1, <1>2, <1>6 DEF Exposed, Believed
  <2>. QED BY <1>1, <2>1, BudgetKept DEF Kept
<1>11. OwedSent(p)'
  BY <1>1, <1>2 DEF Kept, OwedSent
<1>. QED BY <1>7, <1>8, <1>9, <1>10, <1>11 DEF Kept

LEMMA LoadKept ==
    ASSUME Typed, NEW p \in Procs, Kept(p), LoadState(p)
    PROVE  Kept(p)'
<1>1. /\ UNCHANGED <<log, head, owed, sidecar, entries, i, posted, sent, resends, crashes,
                     lost>>
      /\ pc[p] = "load" /\ posted[p] = FALSE
      /\ \/ /\ sidecar.version < STATE_VERSION
            /\ state'[p] = Migrate(sidecar, entries[p]) /\ pc'[p] = "truncate"
         \/ /\ ~(sidecar.version < STATE_VERSION)
            /\ state'[p] = sidecar /\ pc'[p] = "loop"
  BY OwnTypes DEF LoadState, files, counts, faults
<1>2. (\A u : Id(u)' = Id(u)) /\ Marks' = Marks
  BY <1>1, SameIds
<1>3. sidecar.version \in {0, STATE_VERSION}
  BY DEF Typed, TypeOK, States
<1>4. ReadRight(p)' /\ SentRead(p)'
  BY <1>1, <1>2 DEF Kept, ReadRight, SentRead, Snapshot
<1>5. CASE sidecar.version < STATE_VERSION
  <2>1. /\ state'[p] = Migrate(sidecar, entries[p]) /\ pc'[p] = "truncate"
        /\ sidecar.version # STATE_VERSION
    BY <1>1, <1>5 DEF STATE_VERSION
  <2>2. /\ state'[p].version = STATE_VERSION
        /\ state'[p].drained = sidecar.drained \cup {entries[p][n].id : n \in DOMAIN entries[p]}
    BY <2>1 DEF Migrate
  <2>3. {entries[p][n].id : n \in DOMAIN entries[p]} \subseteq Marks
    BY DEF Kept, ReadRight, Marks
  <2>4. Saved(p)' /\ MarksLogged(p)' /\ PostedSent(p)'
    BY <1>1, <1>2, <2>1, <2>2, <2>3 DEF Kept, Saved, MarksLogged, PostedSent
  <2>5. Exposed(p)' = {}
    <3>1. ASSUME NEW u \in Uids, sent[u] > 0, u > head \/ u \in Snapshot(p)
          PROVE  Id(u) \in state'[p].drained
      <4>1. u \in Snapshot(p)
        BY <1>1, <3>1 DEF Kept, SentRead
      <4>2. PICK n \in DOMAIN entries[p] : u = entries[p][n].uid
        BY <4>1 DEF Snapshot
      <4>3. entries[p][n].id = Id(u)
        BY <4>2 DEF Kept, ReadRight
      <4>. QED BY <2>2, <4>3
    <3>2. Snapshot(p)' = Snapshot(p) /\ Believed(p)' = state'[p]
      BY <1>1, <2>1 DEF Snapshot, Believed
    <3>. QED BY <1>1, <1>2, <3>1, <3>2 DEF Exposed
  <2>6. Budget(p)'
    BY <1>1, <2>5, BudgetKept DEF Kept
  <2>7. OwedSent(p)'
    BY <1>1, <1>5, <2>1 DEF Kept, OwedSent
  <2>. QED BY <1>4, <2>4, <2>6, <2>7 DEF Kept
<1>6. CASE ~(sidecar.version < STATE_VERSION)
  <2>1. state'[p] = sidecar /\ pc'[p] = "loop" /\ sidecar.version = STATE_VERSION
    BY <1>1, <1>3, <1>6 DEF STATE_VERSION
  <2>2. Saved(p)' /\ MarksLogged(p)' /\ PostedSent(p)'
    BY <1>1, <1>2, <2>1 DEF Kept, Saved, MarksLogged, PostedSent
  <2>3. Exposed(p)' \subseteq Exposed(p)
    <3>1. Snapshot(p)' = Snapshot(p) /\ Believed(p)' = Believed(p)
      BY <1>1, <2>1 DEF Snapshot, Believed
    <3>. QED BY <1>1, <1>2, <3>1 DEF Exposed
  <2>4. Budget(p)'
    BY <1>1, <2>3, BudgetKept DEF Kept
  <2>5. OwedSent(p)'
    BY <1>1, <1>2, <1>6, <2>1 DEF Kept, OwedSent
  <2>. QED BY <1>4, <2>2, <2>4, <2>5 DEF Kept
<1>. QED BY <1>5, <1>6

\* The two steps of saveState.
LEMMA SaveKept ==
    ASSUME Typed, NEW p \in Procs, Kept(p), TruncateSidecar(p) \/ WriteSidecar(p)
    PROVE  Kept(p)'
<1>1. /\ UNCHANGED <<log, head, owed, entries, state, i, posted, sent, resends, crashes, lost>>
      /\ \/ pc[p] = "truncate" /\ pc'[p] = "write" /\ sidecar' = LostSidecar
         \/ pc[p] = "write" /\ pc'[p] = "loop" /\ sidecar' = state[p]
  BY OwnTypes DEF TruncateSidecar, WriteSidecar, counts, faults
<1>2. (\A u : Id(u)' = Id(u)) /\ Marks' = Marks
  BY <1>1, SameIds
<1>3. state[p].version = STATE_VERSION /\ LostSidecar.drained = {} /\ posted[p] = FALSE
  BY <1>1, OwnTypes DEF Kept, Saved, LostSidecar
<1>4. ReadRight(p)' /\ SentRead(p)'
  BY <1>1, <1>2 DEF Kept, ReadRight, SentRead, Snapshot
<1>5. Saved(p)' /\ MarksLogged(p)' /\ PostedSent(p)'
  BY <1>1, <1>2, <1>3 DEF Kept, Saved, MarksLogged, PostedSent
<1>6. Budget(p)'
  <2>1. Snapshot(p)' = Snapshot(p) /\ Believed(p)' = state[p] /\ Believed(p) = state[p]
    BY <1>1 DEF Snapshot, Believed
  <2>2. Exposed(p)' \subseteq Exposed(p)
    BY <1>1, <1>2, <1>3, <2>1 DEF Exposed
  <2>. QED BY <1>1, <2>2, BudgetKept DEF Kept
<1>7. OwedSent(p)'
  BY <1>1, <1>2, <1>3 DEF Kept, OwedSent, STATE_VERSION
<1>. QED BY <1>4, <1>5, <1>6, <1>7 DEF Kept

\* A step past an entry that is not sent.
LEMMA SkipKept ==
    ASSUME Typed, NEW p \in Procs, Kept(p), SkipDrained(p) \/ SkipInBackoff(p)
    PROVE  Kept(p)'
<1>1. /\ UNCHANGED <<log, head, owed, sidecar, pc, entries, state, posted, sent, resends,
                     crashes, lost>>
      /\ pc[p] = "loop" /\ posted[p] = FALSE
  BY OwnTypes DEF SkipDrained, SkipInBackoff, AtEntry, files, counts, faults
<1>2. (\A u : Id(u)' = Id(u)) /\ Marks' = Marks
  BY <1>1, SameIds
<1>3. ReadRight(p)' /\ SentRead(p)'
  BY <1>1, <1>2 DEF Kept, ReadRight, SentRead, Snapshot
<1>4. Saved(p)' /\ MarksLogged(p)' /\ PostedSent(p)'
  BY <1>1, <1>2 DEF Kept, Saved, MarksLogged, PostedSent
<1>5. Budget(p)'
  <2>1. Snapshot(p)' = Snapshot(p) /\ Believed(p)' = Believed(p)
    BY <1>1 DEF Snapshot, Believed
  <2>2. Exposed(p)' \subseteq Exposed(p)
    BY <1>1, <1>2, <2>1 DEF Exposed
  <2>. QED BY <1>1, <2>2, BudgetKept DEF Kept
<1>6. OwedSent(p)'
  BY <1>1, <1>2 DEF Kept, OwedSent
<1>. QED BY <1>3, <1>4, <1>5, <1>6 DEF Kept

LEMMA PostKept ==
    ASSUME Typed, NEW p \in Procs, Kept(p), Post(p)
    PROVE  Kept(p)'
<1>. DEFINE u0 == Current(p).uid
<1>1. /\ UNCHANGED <<log, head, owed, sidecar, entries, state, i, crashes, lost>>
      /\ pc[p] = "loop" /\ pc'[p] = "await" /\ posted[p] = FALSE
      /\ Current(p).id \notin state[p].drained
      /\ \/ posted'[p] = FALSE /\ UNCHANGED <<sent, resends>>
         \/ /\ posted'[p] = TRUE /\ sent' = [sent EXCEPT ![u0] = @ + 1]
            /\ resends' = IF sent[u0] > 0 THEN resends + 1 ELSE resends
  BY OwnTypes DEF Post, AtEntry, AlreadyDrained, files, counts, faults
<1>2. (\A u : Id(u)' = Id(u)) /\ Marks' = Marks
  BY <1>1, SameIds
<1>3. /\ Current(p)' = Current(p)
      /\ u0 \in Snapshot(p) /\ u0 \in Uids /\ u0 \in DOMAIN log /\ Current(p).id = Id(u0)
  <2>1. /\ i[p] \in DOMAIN entries[p] /\ Current(p) = entries[p][i[p]]
        /\ u0 \in Snapshot(p) /\ Current(p) \in Entries
    <3>1. AtEntry(p)
      BY DEF Post
    <3>2. i[p] \in DOMAIN entries[p] /\ u0 \in Snapshot(p) /\ Current(p) \in Entries
      BY <3>1, CurrentIsRead
    <3>3. Current(p) = entries[p][i[p]]
      BY DEF Current
    <3>. QED BY <3>2, <3>3
  <2>2. Current(p)' = Current(p)
    BY <1>1 DEF Current
  <2>. QED BY <2>1, <2>2 DEF Kept, ReadRight, Entries
<1>4. /\ \A u \in Uids : sent[u] \in Nat /\ sent'[u] \in Nat /\ sent'[u] >= sent[u]
      /\ \A u \in Uids : u # u0 => sent'[u] = sent[u]
      /\ posted'[p] => sent'[u0] > 0
  <2>1. sent \in [Uids -> Nat]
    BY OwnTypes
  <2>. HIDE DEF u0
  <2>. QED BY <1>1, <1>3, <2>1
<1>. HIDE DEF u0
<1>5. Snapshot(p)' = Snapshot(p) /\ Believed(p)' = Believed(p) /\ Believed(p) = state[p]
  BY <1>1 DEF Snapshot, Believed
<1>6. ReadRight(p)'
  BY <1>1, <1>2 DEF Kept, ReadRight
<1>7. SentRead(p)'
  <2>1. ASSUME NEW u \in Uids, sent'[u] > 0
        PROVE  u \in DOMAIN log /\ (u > head => u \in Snapshot(p))
    BY <1>1, <1>3, <1>4, <2>1 DEF Kept, SentRead
  <2>. QED BY <1>1, <1>5, <2>1 DEF SentRead
<1>8. Saved(p)' /\ MarksLogged(p)'
  BY <1>1, <1>2 DEF Kept, Saved, MarksLogged
<1>9. PostedSent(p)'
  BY <1>1, <1>3, <1>4 DEF PostedSent, u0
<1>10. Budget(p)'
  <2>1. CASE ~posted'[p]
    <3>1. Exposed(p)' \subseteq Exposed(p)
      BY <1>1, <1>2, <1>5, <2>1 DEF Exposed
    <3>. QED BY <1>1, <2>1, <3>1, BudgetKept DEF Kept
  <2>2. CASE posted'[p]
    <3>1. Exposed(p)' \subseteq Exposed(p) \ {u0}
      <4>1. ASSUME NEW u \in Uids, u # u0, sent'[u] > 0, u > head \/ u \in Snapshot(p),
                   state[p].version = STATE_VERSION, Id(u) \notin state[p].drained
            PROVE  u \in Exposed(p)
        BY <1>1, <1>4, <1>5, <4>1 DEF Exposed
      <4>2. \A u \in Exposed(p)' :
               /\ u \in Uids /\ u # u0 /\ sent'[u] > 0 /\ (u > head \/ u \in Snapshot(p))
               /\ state[p].version = STATE_VERSION /\ Id(u) \notin state[p].drained
        BY <1>1, <1>2, <1>3, <1>5, <2>2 DEF Exposed, u0
      <4>. QED BY <4>1, <4>2
    <3>2. CASE sent[u0] > 0
      <4>1. u0 \in Exposed(p)
        BY <1>1, <1>3, <1>5, <3>2 DEF Exposed, Kept, Saved
      <4>2. resends' = resends + 1 /\ UNCHANGED <<crashes, lost>>
        BY <1>1, <2>2, <3>2
      <4>3. /\ Cardinality(Exposed(p)') \in Nat /\ Cardinality(Exposed(p)) \in Nat
            /\ Cardinality(Exposed(p)') + 1 <= Cardinality(Exposed(p))
        BY <3>1, <4>1, ExposedAreUids, OneLess
      <4>4. resends + Cardinality(Exposed(p)) <= crashes + lost
        BY DEF Kept, Budget
      <4>5. resends' + Cardinality(Exposed(p)') <= crashes' + lost'
        BY <4>2, <4>3, <4>4, Numbers
      <4>. QED BY <4>5 DEF Budget
    <3>3. CASE ~(sent[u0] > 0)
      <4>1. UNCHANGED <<resends, crashes, lost>>
        BY <1>1, <3>3
      <4>2. Exposed(p)' \subseteq Exposed(p)
        BY <3>1
      <4>. QED BY <4>1, <4>2, BudgetKept DEF Kept
    <3>. QED BY <3>2, <3>3
  <2>. QED BY <2>1, <2>2
<1>11. OwedSent(p)'
  <2>1. \A u \in owed : u \in Uids
    BY OwnTypes
  <2>2. \A u \in owed : sent[u] > 0 => sent'[u] > 0
    BY <1>4, <2>1
  <2>. QED BY <1>1, <1>2, <2>2 DEF Kept, OwedSent
<1>. QED BY <1>6, <1>7, <1>8, <1>9, <1>10, <1>11 DEF Kept

\* The entry a process is at, under the invariant.
LEMMA AwaitedIs ==
    ASSUME Typed, NEW p \in Procs, Kept(p), pc[p] = "await"
    PROVE  /\ i[p] \in DOMAIN entries[p] /\ Current(p) = entries[p][i[p]]
           /\ Current(p).uid \in Snapshot(p) /\ Current(p).uid \in DOMAIN log
           /\ Current(p).id = Id(Current(p).uid)
<1>1. i[p] \in DOMAIN entries[p] /\ Current(p).uid \in Snapshot(p)
  BY CurrentIsRead
<1>2. Current(p) = entries[p][i[p]]
  BY DEF Current
<1>. QED BY <1>1, <1>2 DEF Kept, ReadRight

\* Logged entries with one id are one entry.
LEMMA LoggedTell ==
    ASSUME Typed, NEW u \in DOMAIN log, NEW w \in DOMAIN log, Id(u) = Id(w)
    PROVE  u = w
<1>1. u \in Nat /\ 0 < u /\ w \in Nat /\ 0 < w
  BY DEF Typed, TypeOK
<1>. QED BY <1>1, IdsTell DEF Id

LEMMA OkKept ==
    ASSUME Typed, NEW p \in Procs, Kept(p), DeliverOk(p)
    PROVE  Kept(p)'
<1>. DEFINE u0 == Current(p).uid
<1>1. /\ UNCHANGED <<log, head, owed, sidecar, entries, sent, resends, crashes, lost>>
      /\ pc[p] = "await" /\ pc'[p] = "truncate" /\ posted[p] /\ posted'[p] = FALSE
      /\ state'[p] = [state[p] EXCEPT !.drained = @ \cup {Current(p).id}]
      /\ i'[p] = i[p] + 1
  BY OwnTypes DEF DeliverOk, files, counts, faults
<1>2. (\A u : Id(u)' = Id(u)) /\ Marks' = Marks
  BY <1>1, SameIds
<1>3. /\ i[p] \in DOMAIN entries[p] /\ Current(p) = entries[p][i[p]]
      /\ u0 \in Snapshot(p) /\ u0 \in DOMAIN log /\ Current(p).id = Id(u0) /\ sent[u0] > 0
  BY <1>1, AwaitedIs DEF Kept, PostedSent
<1>4. /\ state'[p].version = state[p].version
      /\ state'[p].drained = state[p].drained \cup {Id(u0)}
      /\ sidecar = state[p] /\ state[p].version = STATE_VERSION
  <2>1. state[p] \in States
    BY OwnTypes
  <2>. QED BY <1>1, <1>3, <2>1 DEF Kept, Saved, States
<1>5. entries'[p][i'[p] - 1].id = Id(u0) /\ i'[p] > 1
  <2>1. i[p] \in Nat /\ i[p] > 0
    BY OutboxAssumption DEF Typed, TypeOK
  <2>2. i'[p] - 1 = i[p] /\ i'[p] > 1
    BY <1>1, <2>1
  <2>. QED BY <1>1, <1>3, <2>2
<1>6. Snapshot(p)' = Snapshot(p) /\ Believed(p)' = state'[p] /\ Believed(p) = state[p]
  BY <1>1 DEF Snapshot, Believed
<1>. HIDE DEF u0
<1>7. ReadRight(p)' /\ SentRead(p)'
  BY <1>1, <1>2, <1>6 DEF Kept, ReadRight, SentRead
<1>8. Saved(p)' /\ PostedSent(p)'
  BY <1>1, <1>4, <1>5 DEF Kept, Saved, PostedSent
<1>9. MarksLogged(p)'
  BY <1>1, <1>2, <1>3, <1>4 DEF Kept, MarksLogged, Marks
<1>10. Budget(p)'
  <2>1. Exposed(p)' \subseteq Exposed(p)
    BY <1>1, <1>2, <1>4, <1>6 DEF Exposed, u0
  <2>. QED BY <1>1, <2>1, BudgetKept DEF Kept
<1>11. OwedSent(p)'
  <2>1. ASSUME NEW u \in owed, Id(u) = Id(u0)
        PROVE  sent[u] > 0
    <3>1. u \in DOMAIN log
      BY OwnTypes
    <3>2. u = u0
      BY <1>3, <2>1, <3>1, LoggedTell
    <3>. QED BY <1>3, <3>2
  <2>2. sidecar.version = STATE_VERSION
    BY <1>4
  <2>. QED BY <1>1, <1>2, <1>4, <2>1, <2>2 DEF Kept, OwedSent, STATE_VERSION
<1>. QED BY <1>7, <1>8, <1>9, <1>10, <1>11 DEF Kept

LEMMA FailedKept ==
    ASSUME Typed, NEW p \in Procs, Kept(p), DeliverFailed(p)
    PROVE  Kept(p)'
<1>. DEFINE u0 == Current(p).uid
<1>1. /\ UNCHANGED <<log, head, owed, sidecar, entries, sent, resends, crashes>>
      /\ pc[p] = "await" /\ pc'[p] = "loop" /\ posted'[p] = FALSE
      /\ state'[p] = state[p]
      /\ lost' = IF posted[p] THEN lost + 1 ELSE lost
  BY OwnTypes DEF DeliverFailed, StateAfterFailure, files, counts
<1>2. (\A u : Id(u)' = Id(u)) /\ Marks' = Marks
  BY <1>1, SameIds
<1>3. Snapshot(p)' = Snapshot(p) /\ Believed(p)' = state[p] /\ Believed(p) = state[p]
  BY <1>1 DEF Snapshot, Believed
<1>4. ReadRight(p)' /\ SentRead(p)'
  BY <1>1, <1>2, <1>3 DEF Kept, ReadRight, SentRead
<1>5. Saved(p)' /\ MarksLogged(p)' /\ PostedSent(p)'
  BY <1>1, <1>2 DEF Kept, Saved, MarksLogged, PostedSent
<1>6. Budget(p)'
  <2>1. CASE posted[p]
    <3>1. Exposed(p)' \subseteq Exposed(p) \cup {u0}
      BY <1>1, <1>2, <1>3 DEF Exposed
    <3>2. lost' = lost + 1
      BY <1>1, <2>1
    <3>. QED BY <1>1, <3>1, <3>2, FaultBudgeted DEF Kept
  <2>2. CASE ~posted[p]
    <3>1. Exposed(p)' \subseteq Exposed(p)
      BY <1>1, <1>2, <1>3, <2>2 DEF Exposed
    <3>. QED BY <1>1, <2>2, <3>1, BudgetKept DEF Kept
  <2>. QED BY <2>1, <2>2
<1>7. OwedSent(p)'
  BY <1>1, <1>2 DEF Kept, OwedSent
<1>. QED BY <1>4, <1>5, <1>6, <1>7 DEF Kept

LEMMA FinishKept ==
    ASSUME Typed, NEW p \in Procs, Kept(p), Finish(p)
    PROVE  Kept(p)'
<1>1. /\ UNCHANGED <<log, head, owed, sidecar, sent, resends, crashes, lost>>
      /\ pc[p] = "loop" /\ pc'[p] = "idle" /\ posted'[p] = FALSE /\ posted[p] = FALSE
      /\ entries'[p] = <<>> /\ state'[p] = LostSidecar
  BY OwnTypes DEF Finish, files, counts, faults
<1>2. (\A u : Id(u)' = Id(u)) /\ Marks' = Marks
  BY <1>1, SameIds
<1>3. Snapshot(p)' = {} /\ Believed(p)' = sidecar /\ Believed(p) = state[p] /\ sidecar = state[p]
  BY <1>1 DEF Snapshot, Believed, Kept, Saved
<1>4. LostSidecar.drained = {}
  BY DEF LostSidecar
<1>5. ReadRight(p)' /\ SentRead(p)'
  BY <1>1, <1>2 DEF Kept, ReadRight, SentRead
<1>6. Saved(p)' /\ MarksLogged(p)' /\ PostedSent(p)'
  BY <1>1, <1>2, <1>4 DEF Kept, Saved, MarksLogged, PostedSent
<1>7. Budget(p)'
  <2>1. Exposed(p)' \subseteq Exposed(p)
    BY <1>1, <1>2, <1>3 DEF Exposed
  <2>. QED BY <1>1, <2>1, BudgetKept DEF Kept
<1>8. OwedSent(p)'
  BY <1>1, <1>2, <1>4 DEF Kept, OwedSent
<1>. QED BY <1>5, <1>6, <1>7, <1>8 DEF Kept

LEMMA CrashKept ==
    ASSUME Typed, NEW p \in Procs, Kept(p), Crash(p)
    PROVE  Kept(p)'
<1>1. /\ UNCHANGED <<log, head, owed, sidecar, sent, resends, lost>>
      /\ pc[p] # "idle" /\ pc'[p] = "idle" /\ posted'[p] = FALSE
      /\ entries'[p] = <<>> /\ state'[p] = LostSidecar
      /\ crashes' = crashes + 1
  BY OwnTypes DEF Crash, files, counts
<1>2. (\A u : Id(u)' = Id(u)) /\ Marks' = Marks
  BY <1>1, SameIds
<1>3. LostSidecar.drained = {} /\ LostSidecar.version # STATE_VERSION
  BY DEF LostSidecar, STATE_VERSION
<1>4. ReadRight(p)' /\ SentRead(p)'
  BY <1>1, <1>2 DEF Kept, ReadRight, SentRead
<1>5. Saved(p)' /\ MarksLogged(p)' /\ PostedSent(p)'
  BY <1>1, <1>2, <1>3 DEF Kept, Saved, MarksLogged, PostedSent
<1>6. OwedSent(p)'
  <2>1. crashes' # 0
    BY <1>1, Numbers
  <2>. QED BY <2>1 DEF OwedSent
\* What is exposed when the process is gone.
<1>7. \A u \in Exposed(p)' :
         /\ u \in Uids /\ sent[u] > 0 /\ u > head
         /\ sidecar.version = STATE_VERSION /\ Id(u) \notin sidecar.drained
  <2>1. Snapshot(p)' = {} /\ Believed(p)' = sidecar
    BY <1>1 DEF Snapshot, Believed
  <2>. QED BY <1>1, <1>2, <2>1 DEF Exposed
<1>8. CASE pc[p] \in {"load", "loop", "await"}
  <2>1. Believed(p) = sidecar
    BY <1>8 DEF Believed, Kept, Saved
  <2>2. Exposed(p)' \subseteq Exposed(p) \cup {Current(p).uid}
    BY <1>7, <2>1 DEF Exposed
  <2>3. Budget(p)'
    BY <1>1, <2>2, FaultBudgeted DEF Kept
  <2>. QED BY <1>4, <1>5, <1>6, <2>3 DEF Kept
<1>9. CASE pc[p] = "write" \/ sidecar.version # STATE_VERSION
  <2>1. Exposed(p)' \subseteq Exposed(p)
    BY <1>3, <1>7, <1>9 DEF Kept, Saved
  <2>2. Budget(p)'
    BY <1>1, <2>1, BudgetKept DEF Kept
  <2>. QED BY <1>4, <1>5, <1>6, <2>2 DEF Kept
<1>10. CASE pc[p] = "truncate" /\ sidecar.version = STATE_VERSION
  <2>. DEFINE x == entries[p][i[p] - 1].uid
  <2>1. /\ state[p].version = STATE_VERSION
        /\ state[p].drained = sidecar.drained \cup {entries[p][i[p] - 1].id}
        /\ i[p] > 1 /\ posted[p] = FALSE /\ Believed(p) = state[p]
    BY <1>10, OwnTypes DEF Kept, Saved, Believed
  <2>2. i[p] - 1 \in DOMAIN entries[p]
    <3>1. /\ i[p] \in Nat /\ entries[p] \in Seq(Entries) /\ i[p] <= Len(entries[p]) + 1
      BY OutboxAssumption DEF Typed, TypeOK, Within
    <3>. QED BY <2>1, <3>1
  <2>3. x \in DOMAIN log /\ entries[p][i[p] - 1].id = Id(x)
    BY <2>2 DEF Kept, ReadRight
  <2>. HIDE DEF x
  <2>4. ASSUME NEW u \in Exposed(p)', u # x
        PROVE  u \in Exposed(p)
    <3>1. /\ u \in Uids /\ sent[u] > 0 /\ u > head /\ Id(u) \notin sidecar.drained
      BY <1>7
    <3>2. u \in DOMAIN log
      BY <3>1 DEF Kept, SentRead
    <3>3. Id(u) # Id(x)
      BY <2>3, <2>4, <3>2, LoggedTell
    <3>4. Id(u) \notin state[p].drained
      BY <2>1, <2>3, <3>1, <3>3
    <3>. QED BY <2>1, <3>1, <3>4 DEF Exposed
  <2>5. Exposed(p)' \subseteq Exposed(p) \cup {x}
    BY <2>4
  <2>6. Budget(p)'
    BY <1>1, <2>5, FaultBudgeted DEF Kept
  <2>. QED BY <1>4, <1>5, <1>6, <2>6 DEF Kept
<1>11. pc[p] \in Stages
  BY OwnTypes
<1>. QED BY <1>1, <1>8, <1>9, <1>10, <1>11 DEF Stages

-----------------------------------------------------------------------------

\* The server runs one sweep: the sidecar has one writer.
OneProcess == \A p, q \in Procs : p = q

LEMMA OutboxInvKeeps ==
    ASSUME OneProcess, OutboxInv, [Next]_vars
    PROVE  OutboxInv'
<1>1. Typed'
  BY TypedKeeps DEF OutboxInv
<1>2. ASSUME ~Renumbered'
      PROVE  \A p \in Procs : Kept(p)'
  <2>1. ~Renumbered /\ Typed
    BY <1>2, RenumberedStays DEF OutboxInv
  <2>2. SUFFICES ASSUME NEW p \in Procs
                 PROVE  Kept(p)'
    OBVIOUS
  <2>3. Kept(p) /\ \A q \in Procs : q = p
    BY <2>1 DEF OutboxInv, OneProcess
  <2>4. CASE UNCHANGED vars
    BY <2>1, <2>3, <2>4, UntouchedKept DEF vars, files, local, counts, faults
  <2>5. CASE \E b \in Bodies : AppendEntry(b)
    BY <2>1, <2>3, <2>5, AppendKept
  <2>6. CASE Trim
    BY <2>1, <2>3, <2>6, TrimKept
  <2>7. CASE Drain(p)
    BY <2>1, <2>3, <2>7, ReadKept, LoadKept, SaveKept, SkipKept, PostKept, OkKept,
       FailedKept, FinishKept DEF Drain
  <2>8. CASE BackoffExpires(p)
    BY <2>1, <2>3, <2>8, UntouchedKept DEF BackoffExpires, files, counts, faults
  <2>9. CASE Crash(p)
    BY <2>1, <2>3, <2>9, CrashKept
  <2>. QED BY <2>3, <2>4, <2>5, <2>6, <2>7, <2>8, <2>9 DEF Next
<1>. QED BY <1>1, <1>2 DEF OutboxInv

LEMMA InitOutboxInv == Init => OutboxInv
<1>. SUFFICES ASSUME Init PROVE OutboxInv
  OBVIOUS
<1>1. Typed
  BY InitTyped
<1>2. ASSUME NEW p \in Procs
      PROVE  Kept(p)
  <2>1. /\ pc[p] = "idle" /\ entries[p] = <<>> /\ state[p] = LostSidecar /\ posted[p] = FALSE
        /\ sidecar.drained = {} /\ LostSidecar.drained = {}
        /\ resends = 0 /\ crashes = 0 /\ lost = 0
        /\ \A u \in Uids : sent[u] = 0
    BY DEF Init, LostSidecar
  <2>2. sidecar.version < STATE_VERSION => owed = {}
    BY DEF Init, STATE_VERSION
  <2>3. Exposed(p) = {}
    BY <2>1 DEF Exposed
  <2>4. Budget(p)
    BY <2>1, <2>3, FS_EmptySet DEF Budget
  <2>5. ReadRight(p) /\ SentRead(p) /\ Saved(p) /\ MarksLogged(p) /\ PostedSent(p)
    BY <2>1 DEF ReadRight, SentRead, Saved, MarksLogged, PostedSent
  <2>6. OwedSent(p)
    BY <2>1, <2>2 DEF OwedSent
  <2>. QED BY <2>4, <2>5, <2>6 DEF Kept
<1>. QED BY <1>1, <1>2 DEF OutboxInv

LEMMA InvAccounts ==
    ASSUME OutboxInv
    PROVE  Accounted
<1>1. Typed
  BY DEF OutboxInv
<1>2. PICK p \in Procs : TRUE
  BY OutboxAssumption
<1>3. DuplicatesAccounted
  <2>1. ASSUME ~Renumbered
        PROVE  resends <= crashes + lost
    <3>1. resends + Cardinality(Exposed(p)) <= crashes + lost
      BY <2>1 DEF OutboxInv, Kept, Budget
    <3>2. Cardinality(Exposed(p)) \in Nat
      BY ExposedAreUids, UidsFinite
    <3>. QED BY <1>1, <3>1, <3>2, Numbers
  <2>. QED BY <2>1 DEF DuplicatesAccounted
<1>4. NoSilentDrop
  <2>1. ASSUME crashes = 0, ~Renumbered, NEW u \in owed, u > head,
               EntryId(u) \in sidecar.drained, sent[u] = 0
        PROVE  FALSE
    <3>1. u \in DOMAIN log
      BY <1>1, OwnTypes
    <3>2. EntryId(u) = Id(u)
      BY <1>1, <2>1, <3>1, ParsedIdIs
    <3>. QED BY <2>1, <3>2 DEF OutboxInv, Kept, OwedSent
  <2>. QED BY <2>1 DEF NoSilentDrop, Dropped
<1>. QED BY <1>1, <1>3, <1>4 DEF Accounted, Typed

\* With one process nothing is sent twice and nothing is dropped without a cause
\* (outbox-drainer.ts:355-422).
THEOREM OneProcessAccounts ==
    ASSUME OneProcess
    PROVE  Spec => []Accounted
<1>1. Init => OutboxInv
  BY InitOutboxInv
<1>2. OutboxInv /\ [Next]_vars => OutboxInv'
  BY OutboxInvKeeps
<1>3. OutboxInv => Accounted
  BY InvAccounts
<1>. QED BY <1>1, <1>2, <1>3, PTL DEF Spec
=============================================================================
