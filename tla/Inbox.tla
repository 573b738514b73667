------------------------------- MODULE Inbox -------------------------------
(***************************************************************************)
(* One agent's mailbox (src/src/inbox.ts): three files without a server.   *)
(* Any process appends messages; the agent, which may have been resumed    *)
(* twice and then runs as two processes, replays what it has not consumed  *)
(* and confirms each message it handled, by an ack or by the cursor that   *)
(* the inbox-cursor command moves under a lock made of a directory.        *)
(*                                                                         *)
(* The inbox only grows, so that what a process has read of it is the      *)
(* length it had.  Two messages with one id are one message to the reader. *)
(* Lines are whole: appends are one write, as the code relies on.          *)
(***************************************************************************)
EXTENDS Naturals, Sequences, SequencesExt

CONSTANTS
    Plain,      \* messages sent by dispatch
    Once,       \* processes that send the same recovery message by dispatchOnce
    Recovery,   \* its id
    Readers,    \* processes resumed as this agent
    MaxDeaths,  \* bound: crashes of readers
    None

ASSUME InboxAssumption ==
    /\ Recovery \notin Plain
    /\ None \notin Plain \cup {Recovery} \cup Readers
    /\ MaxDeaths \in Nat

Messages == Plain \cup {Recovery}

VARIABLES
    inbox,      \* inbox.jsonl: the messages in the order of their appends
    acks,       \* inbox.ack.jsonl
    cursor,     \* inbox.cursor (None: the file does not exist)
    lock,       \* inbox.cursor.lock: the process that made it, even if dead
    sending,    \* what each dispatchOnce caller knows of the recovery message
    at,         \* where each reader is
    todo,       \* the positions of the inbox it read and has yet to reach
    current,    \* the position of the message it is confirming (0: none)
    handled,    \* ghost: messages some reader acted on
    deaths      \* crashes so far

mailFiles == <<inbox, acks, cursor, lock>>
reading == <<at, todo, current>>
inboxVars == <<mailFiles, sending, reading, handled, deaths>>

Places == {"idle", "cursor", "acks", "working", "confirming", "locked",
           "checked", "written", "down"}

InboxInit ==
    /\ inbox = <<>> /\ acks = {} /\ cursor = None /\ lock = None
    /\ sending = [p \in Once |-> "idle"]
    /\ at = [r \in Readers |-> "idle"]
    /\ todo = [r \in Readers |-> {}]
    /\ current = [r \in Readers |-> 0]
    /\ handled = {} /\ deaths = 0

-----------------------------------------------------------------------------
(* What the files say. *)

\* findIndex finds the id among the positions read.
Known(read, m) == \E i \in read : inbox[i] = m

\* Mutant: slice(cursorIndex + 2).
AfterNext(read, m) == {i \in read : \E j \in read : j + 1 < i /\ inbox[j] = m}

\* The positions after the first one with the id.
After(read, m) == {i \in read : \E j \in read : j < i /\ inbox[j] = m}

\* What replayUndelivered returns of the positions read: cursor c exists.
SinceCursor(read, c) == IF Known(read, c) THEN After(read, c) ELSE read

Unacked(read) == {i \in read : inbox[i] \notin acks}

\* Moving from cursor c to m would go back: m is found before c is.
Backwards(m, c) ==
    /\ c # None
    /\ \E i \in DOMAIN inbox :
          /\ inbox[i] = m
          /\ \A j \in 1..i : inbox[j] # c
    /\ Known(DOMAIN inbox, c)

-----------------------------------------------------------------------------
(* Senders. *)

AppendMessage(m) == inbox' = Append(inbox, m)

\* report_to_parent, a lead, another agent: a message with an id of its own.
Dispatch ==
    /\ \E m \in Plain : ~Known(DOMAIN inbox, m) /\ AppendMessage(m)
    /\ UNCHANGED <<acks, cursor, lock, sending, reading, handled, deaths>>

\* dispatchOnce looks for its id ...
LookOnce(p) ==
    /\ sending[p] = "idle"
    /\ sending' = [sending EXCEPT ![p] =
                      IF Known(DOMAIN inbox, Recovery) THEN "done" ELSE "absent"]
    /\ UNCHANGED <<mailFiles, reading, handled, deaths>>

\* ... and appends on what it saw; a later sweep calls it again.
SendOnce(p) ==
    /\ sending[p] = "absent"
    /\ AppendMessage(Recovery)
    /\ sending' = [sending EXCEPT ![p] = "idle"]
    /\ UNCHANGED <<acks, cursor, lock, reading, handled, deaths>>

-----------------------------------------------------------------------------
(* The reader: a replay reads the inbox, then the cursor, then the acks. *)

Go(r, place) == at' = [at EXCEPT ![r] = place]

\* The message is confirmed, or the agent gives up confirming it.
NextMessage(r) == Go(r, "working") /\ current' = [current EXCEPT ![r] = 0]

ReadInbox(r) ==
    /\ at[r] = "idle"
    /\ todo' = [todo EXCEPT ![r] = DOMAIN inbox]
    /\ Go(r, "cursor")
    /\ UNCHANGED <<mailFiles, sending, current, handled, deaths>>

ReadCursor(r) ==
    /\ at[r] = "cursor"
    /\ \/ /\ cursor # None
          /\ todo' = [todo EXCEPT ![r] = SinceCursor(@, cursor)]
          /\ Go(r, "working")
       \/ /\ cursor = None
          /\ Go(r, "acks")
          /\ UNCHANGED todo
    /\ UNCHANGED <<mailFiles, sending, current, handled, deaths>>

ReadAcks(r) ==
    /\ at[r] = "acks"
    /\ todo' = [todo EXCEPT ![r] = Unacked(@)]
    /\ Go(r, "working")
    /\ UNCHANGED <<mailFiles, sending, current, handled, deaths>>

\* The agent acts on the messages in order.
Handle(r) ==
    /\ at[r] = "working"
    /\ \E i \in todo[r] :
          /\ \A j \in todo[r] : i <= j
          /\ handled' = handled \cup {inbox[i]}
          /\ todo' = [todo EXCEPT ![r] = @ \ {i}]
          /\ current' = [current EXCEPT ![r] = i]
    /\ Go(r, "confirming")
    /\ UNCHANGED <<mailFiles, sending, deaths>>

EndTurn(r) ==
    /\ at[r] = "working" /\ todo[r] = {}
    /\ Go(r, "idle")
    /\ UNCHANGED <<mailFiles, sending, todo, current, handled, deaths>>

Ack(r) ==
    /\ at[r] = "confirming"
    /\ acks' = acks \cup {inbox[current[r]]}
    /\ NextMessage(r)
    /\ UNCHANGED <<inbox, cursor, lock, sending, todo, handled, deaths>>

-----------------------------------------------------------------------------
(* writeInboxCursor: the compare-and-set between resumed processes. *)

\* Mutant: mkdir with recursive, which does not fail if the directory exists.
MakeLockAnyway(r) ==
    /\ at[r] = "confirming"
    /\ lock' = r
    /\ Go(r, "locked")
    /\ UNCHANGED <<inbox, acks, cursor, sending, todo, current, handled, deaths>>

MakeLock(r) ==
    /\ at[r] = "confirming"
    /\ lock = None
    /\ lock' = r
    /\ Go(r, "locked")
    /\ UNCHANGED <<inbox, acks, cursor, sending, todo, current, handled, deaths>>

\* Mutant: the command waits until the lock is free.
LockWaitedFor(r) ==
    /\ at[r] = "confirming" /\ lock # None
    /\ UNCHANGED inboxVars

\* "Inbox cursor is locked; retry": the agent may try again or go on.
LockTaken(r) ==
    /\ at[r] = "confirming"
    /\ lock # None
    /\ NextMessage(r)
    /\ UNCHANGED <<mailFiles, sending, todo, handled, deaths>>

\* An unknown id, or one before the cursor, is refused.
CheckCursor(r) ==
    /\ at[r] = "locked"
    /\ LET m == inbox[current[r]]
       IN  Go(r, IF Known(DOMAIN inbox, m) /\ ~Backwards(m, cursor)
                 THEN "checked" ELSE "written")
    /\ UNCHANGED <<mailFiles, sending, todo, current, handled, deaths>>

WriteCursor(r) ==
    /\ at[r] = "checked"
    /\ cursor' = inbox[current[r]]
    /\ Go(r, "written")
    /\ UNCHANGED <<inbox, acks, lock, sending, todo, current, handled, deaths>>

RemoveLock(r) ==
    /\ at[r] = "written"
    /\ lock' = None
    /\ NextMessage(r)
    /\ UNCHANGED <<inbox, acks, cursor, sending, todo, handled, deaths>>

-----------------------------------------------------------------------------
(* Crashes: the lock of a process that dies is removed by nobody. *)

ReaderDies(r) ==
    /\ at[r] # "down" /\ deaths < MaxDeaths
    /\ deaths' = deaths + 1
    /\ Go(r, "down")
    /\ todo' = [todo EXCEPT ![r] = {}]
    /\ current' = [current EXCEPT ![r] = 0]
    /\ UNCHANGED <<mailFiles, sending, handled>>

Resume(r) ==
    /\ at[r] = "down"
    /\ Go(r, "idle")
    /\ UNCHANGED <<mailFiles, sending, todo, current, handled, deaths>>

-----------------------------------------------------------------------------
Send == Dispatch \/ \E p \in Once : LookOnce(p) \/ SendOnce(p)

Replay(r) == ReadInbox(r) \/ ReadCursor(r) \/ ReadAcks(r)

MoveCursor(r) == MakeLock(r) \/ LockTaken(r) \/ CheckCursor(r) \/ WriteCursor(r)
                   \/ RemoveLock(r)

Turn(r) == Replay(r) \/ Handle(r) \/ EndTurn(r) \/ MoveCursor(r)

InboxNext == Send \/ \E r \in Readers : Turn(r) \/ Ack(r) \/ ReaderDies(r) \/ Resume(r)

InboxSpec == InboxInit /\ [][InboxNext]_inboxVars

\* A live reader goes on with its turn and polls again; a dead one is resumed.
\* The boot contract names the cursor command: nobody is obliged to ack, or to send.
InboxFairSpec == InboxSpec /\ \A r \in Readers : WF_inboxVars(Turn(r)) /\ WF_inboxVars(Resume(r))

-----------------------------------------------------------------------------
(* Properties. *)

\* The positions that a replay of the files, read now in one go, returns.
Undelivered ==
    IF cursor # None THEN SinceCursor(DOMAIN inbox, cursor)
                     ELSE Unacked(DOMAIN inbox)

\* No message is lost between two turns: each one in the file was acted on by
\* some process of the agent, or the next replay returns it.  It is about
\* replayUndelivered reading three files one after the other and about the
\* cursor being moved by two processes that read the inbox at different times.
NothingSkipped ==
    \A i \in DOMAIN inbox : inbox[i] \in handled \/ i \in Undelivered

\* The messages that the cursor keeps from being replayed.
Passed ==
    IF cursor = None THEN {} ELSE DOMAIN inbox \ After(DOMAIN inbox, cursor)

\* The cursor never goes back, whichever of two resumed processes moves it and
\* whenever one of them dies: what it passed stays passed.  It is about the
\* lock around the comparison in writeInboxCursor.
CursorNeverBack == [][Passed \subseteq Passed']_inboxVars

\* Every message is eventually acted on, even when a process died with the
\* cursor's lock and no cursor is ever written again.
EventuallyHandled == \A m \in Messages : Known(DOMAIN inbox, m) ~> m \in handled
=============================================================================
