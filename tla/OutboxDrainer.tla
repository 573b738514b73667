--------------------------- MODULE OutboxDrainer ---------------------------
(***************************************************************************)
(* The outbox drainer (src/src/outbox-drainer.ts): every server process    *)
(* that sweeps reads <coordinationDir>/outbox.md, POSTs each entry that    *)
(* the sidecar .outbox-drained.json does not list to the notify listener,  *)
(* and rewrites the sidecar after each success.                            *)
(*                                                                         *)
(* Several processes share the two files without a lock.  A process can    *)
(* die between any two file operations; saveState is one truncation and    *)
(* one write, and a truncated sidecar reads like a missing one: version 0. *)
(* log keeps every entry ever appended and head the number trimmed off its *)
(* front: an entry's place in log is a ghost uid, which tells entries with *)
(* the same body apart where the code's content ids cannot.                *)
(***************************************************************************)
EXTENDS Naturals, Sequences, FiniteSets

CONSTANTS
    Procs,        \* the server processes that run a sweep
    Bodies,       \* the message texts agents append
    MaxAppends,   \* bound: entries ever appended to outbox.md, a backlog's included
    MaxTrims,     \* bound: entries the operator ever trims off the front
    MaxCrashes,   \* bound: process deaths
    MaxLost       \* bound: POSTs the listener accepts without the answer arriving

ASSUME OutboxAssumption ==
    /\ Procs # {} /\ Bodies # {}
    /\ MaxAppends \in Nat \ {0}
    /\ {MaxTrims, MaxCrashes, MaxLost} \subseteq Nat

VARIABLES
    log,        \* the bodies of all entries ever appended to outbox.md
    head,       \* how many of them the operator has trimmed off the front
    owed,       \* ghost: uids appended once the sidecar carried the current version
    sidecar,    \* .outbox-drained.json, as loadState would return it
    pc,         \* where each process stands in drainOutbox
    entries,    \* each process's snapshot of the parsed outbox
    state,      \* each process's snapshot of the sidecar
    i,          \* each process's position in its snapshot
    backoff,    \* notifyBackoff: the process skips POSTs for a window
    posted,     \* whether the listener accepted the POST being awaited
    sent,       \* ghost: how often the listener accepted each uid
    resends,    \* ghost: how often it accepted one it had accepted before
    crashes, lost   \* counters of the faults, bounded above

files == <<log, head, owed, sidecar>>
local == <<pc, entries, state, i, backoff, posted>>
counts == <<sent, resends>>
faults == <<crashes, lost>>
vars == <<files, local, counts, faults>>

Uids == 1..MaxAppends
STATE_VERSION == 2
Ids == Bodies \X (0..MaxAppends)
Entries == [uid : Uids, id : Ids]
States == [version : {0, STATE_VERSION}, drained : SUBSET Ids]

\* What loadState returns for a missing or an unparsable sidecar.
LostSidecar == [version |-> 0, drained |-> {}]

-----------------------------------------------------------------------------

\* outbox.md as a process reads it: the uids of the entries it holds, in order.
Outbox == [n \in 1..(Len(log) - head) |-> head + n]

\* contentHash(body)#occurrence: the ordinal of this body in this parse.
EntryId(u) == <<log[u], Cardinality({v \in (head + 1)..(u - 1) : log[v] = log[u]})>>

parseOutboxEntries == [n \in DOMAIN Outbox |-> [uid |-> Outbox[n], id |-> EntryId(Outbox[n])]]

\* Mutant: a version bump marks nothing, so the loop re-sends the backlog.
MigrateNothing(st, es) == [st EXCEPT !.version = STATE_VERSION]

\* The version gate: adopt every entry present as drained, undelivered.
\* With no entries this is stampVersionBaseline.
Migrate(st, es) ==
    [version |-> STATE_VERSION,
     drained |-> st.drained \cup {es[n].id : n \in DOMAIN es}]

-----------------------------------------------------------------------------

\* The sidecar is current, legacy, or absent; outbox.md may hold a backlog.
Init ==
    /\ log \in {<<>>} \cup {<<b>> : b \in Bodies}
    /\ head = 0
    /\ sidecar \in {LostSidecar, [LostSidecar EXCEPT !.version = STATE_VERSION]}
    /\ owed = IF sidecar.version = STATE_VERSION THEN DOMAIN log ELSE {}
    /\ pc = [p \in Procs |-> "idle"]
    /\ entries = [p \in Procs |-> <<>>]
    /\ state = [p \in Procs |-> LostSidecar]
    /\ i = [p \in Procs |-> 1]
    /\ backoff = [p \in Procs |-> FALSE]
    /\ posted = [p \in Procs |-> FALSE]
    /\ sent = [u \in Uids |-> 0] /\ resends = 0
    /\ crashes = 0 /\ lost = 0

\* The sidecar is current, or a save is about to make it so again.
Baselined == sidecar.version = STATE_VERSION \/ \E p \in Procs : pc[p] = "write"

\* An agent appends an entry to outbox.md.
AppendEntry(b) ==
    /\ Len(log) < MaxAppends
    /\ log' = Append(log, b)
    /\ owed' = IF Baselined THEN owed \cup {Len(log) + 1} ELSE owed
    /\ UNCHANGED <<head, sidecar, local, counts, faults>>

\* The operator rotates the file: the oldest entry goes.
Trim ==
    /\ head < MaxTrims
    /\ head < Len(log)
    /\ head' = head + 1
    /\ UNCHANGED <<log, owed, sidecar, local, counts, faults>>

-----------------------------------------------------------------------------

\* drainOutboxBestEffort runs one drain at a time per process.
NotInFlight(p) == pc[p] = "idle"

\* existsSync / readFileSync / parseOutboxEntries.
ReadOutbox(p) ==
    /\ NotInFlight(p)
    /\ entries' = [entries EXCEPT ![p] = parseOutboxEntries]
    /\ i' = [i EXCEPT ![p] = 1]
    /\ pc' = [pc EXCEPT ![p] = "load"]
    /\ UNCHANGED <<files, state, backoff, posted, counts, faults>>

\* loadState; below the current version the snapshot is migrated and saved
\* before the loop, otherwise the loop starts at once.
LoadState(p) ==
    /\ pc[p] = "load"
    /\ IF sidecar.version < STATE_VERSION
       THEN /\ state' = [state EXCEPT ![p] = Migrate(sidecar, entries[p])]
            /\ pc' = [pc EXCEPT ![p] = "truncate"]
       ELSE /\ state' = [state EXCEPT ![p] = sidecar]
            /\ pc' = [pc EXCEPT ![p] = "loop"]
    /\ UNCHANGED <<files, entries, i, backoff, posted, counts, faults>>

\* saveState, writeFileSync opening the file with O_TRUNC ...
TruncateSidecar(p) ==
    /\ pc[p] = "truncate"
    /\ sidecar' = LostSidecar
    /\ pc' = [pc EXCEPT ![p] = "write"]
    /\ UNCHANGED <<log, head, owed, entries, state, i, backoff, posted, counts, faults>>

\* ... and writing the snapshot this process holds.
WriteSidecar(p) ==
    /\ pc[p] = "write"
    /\ sidecar' = state[p]
    /\ pc' = [pc EXCEPT ![p] = "loop"]
    /\ UNCHANGED <<log, head, owed, entries, state, i, backoff, posted, counts, faults>>

Current(p) == entries[p][i[p]]

AtEntry(p) == pc[p] = "loop" /\ i[p] <= Len(entries[p])

\* Mutant: the loop does not look at the drained ids.
AlreadyDrainedNever(p) == FALSE

AlreadyDrained(p) == Current(p).id \in state[p].drained

SkipDrained(p) ==
    /\ AtEntry(p)
    /\ AlreadyDrained(p)
    /\ i' = [i EXCEPT ![p] = @ + 1]
    /\ UNCHANGED <<files, pc, entries, state, backoff, posted, counts, faults>>

\* httpDeliver inside its backoff window: false without a POST.
SkipInBackoff(p) ==
    /\ AtEntry(p) /\ ~AlreadyDrained(p)
    /\ backoff[p]
    /\ i' = [i EXCEPT ![p] = @ + 1]
    /\ UNCHANGED <<files, pc, entries, state, backoff, posted, counts, faults>>

\* fetch(POST): the listener takes the message or does not.
Post(p) ==
    /\ AtEntry(p) /\ ~AlreadyDrained(p)
    /\ ~backoff[p]
    /\ pc' = [pc EXCEPT ![p] = "await"]
    /\ \E accepted \in BOOLEAN :
          /\ posted' = [posted EXCEPT ![p] = accepted]
          /\ IF accepted
             THEN /\ sent' = [sent EXCEPT ![Current(p).uid] = @ + 1]
                  /\ resends' = IF sent[Current(p).uid] > 0 THEN resends + 1 ELSE resends
             ELSE UNCHANGED counts
    /\ UNCHANGED <<files, entries, state, i, backoff, faults>>

\* res.ok: the entry joins the drained ids and the sidecar is saved.
DeliverOk(p) ==
    /\ pc[p] = "await" /\ posted[p]
    /\ state' = [state EXCEPT ![p].drained = @ \cup {Current(p).id}]
    /\ backoff' = [backoff EXCEPT ![p] = FALSE]
    /\ posted' = [posted EXCEPT ![p] = FALSE]
    /\ i' = [i EXCEPT ![p] = @ + 1]
    /\ pc' = [pc EXCEPT ![p] = "truncate"]
    /\ UNCHANGED <<files, entries, counts, faults>>

\* Mutant: a failed POST marks the entry as drained all the same.
StateAfterFailureDrained(p) == [state[p] EXCEPT !.drained = @ \cup {Current(p).id}]

\* A failed delivery leaves the snapshot as it was: the entry stays pending.
StateAfterFailure(p) == state[p]

\* An HTTP error, a refused connection, or the 3 s timeout, which may hit a
\* POST the listener has accepted.
DeliverFailed(p) ==
    /\ pc[p] = "await"
    /\ posted[p] => lost < MaxLost
    /\ lost' = IF posted[p] THEN lost + 1 ELSE lost
    /\ state' = [state EXCEPT ![p] = StateAfterFailure(p)]
    /\ backoff' = [backoff EXCEPT ![p] = TRUE]
    /\ posted' = [posted EXCEPT ![p] = FALSE]
    /\ i' = [i EXCEPT ![p] = @ + 1]
    /\ pc' = [pc EXCEPT ![p] = "loop"]
    /\ UNCHANGED <<files, entries, counts, crashes>>

\* drainOutbox returns; the in-flight flag is cleared.  The snapshots are dead.
Finish(p) ==
    /\ pc[p] = "loop" /\ i[p] > Len(entries[p])
    /\ pc' = [pc EXCEPT ![p] = "idle"]
    /\ entries' = [entries EXCEPT ![p] = <<>>]
    /\ state' = [state EXCEPT ![p] = LostSidecar]
    /\ i' = [i EXCEPT ![p] = 1]
    /\ UNCHANGED <<files, backoff, posted, counts, faults>>

\* NOTIFY_BACKOFF_MS have passed.
BackoffExpires(p) ==
    /\ backoff[p]
    /\ backoff' = [backoff EXCEPT ![p] = FALSE]
    /\ UNCHANGED <<files, pc, entries, state, i, posted, counts, faults>>

\* The process dies; its memory, the backoff window included, is lost.
Crash(p) ==
    /\ crashes < MaxCrashes
    /\ pc[p] # "idle"
    /\ crashes' = crashes + 1
    /\ pc' = [pc EXCEPT ![p] = "idle"]
    /\ entries' = [entries EXCEPT ![p] = <<>>]
    /\ state' = [state EXCEPT ![p] = LostSidecar]
    /\ i' = [i EXCEPT ![p] = 1]
    /\ backoff' = [backoff EXCEPT ![p] = FALSE]
    /\ posted' = [posted EXCEPT ![p] = FALSE]
    /\ UNCHANGED <<files, counts, lost>>

Drain(p) ==
    \/ ReadOutbox(p) \/ LoadState(p)
    \/ TruncateSidecar(p) \/ WriteSidecar(p)
    \/ SkipDrained(p) \/ SkipInBackoff(p) \/ Post(p)
    \/ DeliverOk(p) \/ DeliverFailed(p)
    \/ Finish(p)

Next ==
    \/ \E b \in Bodies : AppendEntry(b)
    \/ Trim
    \/ \E p \in Procs : Drain(p) \/ BackoffExpires(p) \/ Crash(p)

Spec == Init /\ [][Next]_vars

\* The sweep timer runs a drain in every process again and again, the backoff
\* window ends, and a listener that is asked for one entry infinitely often
\* eventually takes it and answers in time.
Fairness ==
    \A p \in Procs :
        /\ WF_vars(Drain(p))
        /\ WF_vars(BackoffExpires(p))
        /\ \A u \in Uids :
              SF_vars(Post(p) /\ posted'[p] /\ Current(p).uid = u)
        /\ SF_vars(DeliverOk(p))

FairSpec == Spec /\ Fairness

-----------------------------------------------------------------------------
(* Properties. *)

TypeOK ==
    /\ log \in Seq(Bodies) /\ Len(log) <= MaxAppends
    /\ head \in 0..MaxTrims /\ head <= Len(log)
    /\ owed \subseteq DOMAIN log
    /\ sidecar \in States
    /\ pc \in [Procs -> {"idle", "load", "loop", "truncate", "write", "await"}]
    /\ entries \in [Procs -> Seq(Entries)]
    /\ state \in [Procs -> States]
    /\ i \in [Procs -> 1..(MaxAppends + 1)]
    /\ backoff \in [Procs -> BOOLEAN]
    /\ posted \in [Procs -> BOOLEAN]
    /\ sent \in [Uids -> Nat] /\ resends \in Nat
    /\ crashes \in 0..MaxCrashes /\ lost \in 0..MaxLost

\* A trim took an entry whose text another entry has: ids mean others now.
Renumbered == \E u \in 1..head : \E v \in DOMAIN log : v > u /\ log[v] = log[u]

\* Entries owed a delivery that the sidecar lists as drained, never sent.
Dropped ==
    {u \in owed : u > head /\ EntryId(u) \in sidecar.drained /\ sent[u] = 0}

\* A single process sends an entry twice only for a cause: the process died
\* between the POST and the save, or the listener's answer was lost.  Each cause
\* costs at most one duplicate.  (A trim that renumbers identical texts can
\* cost one for each of them.)
DuplicatesAccounted == ~Renumbered => resends <= crashes + lost

\* While no save was cut short and no trim renumbered identical texts, an entry
\* appended after the baseline is listed as drained only after the listener
\* took it.
NoSilentDrop == crashes = 0 /\ ~Renumbered => Dropped = {}

\* Every POST and every mark in the sidecar is accounted for: no duplicate and
\* no drop without its cause, in states of the declared kinds.
Accounted == TypeOK /\ DuplicatesAccounted /\ NoSilentDrop

\* The version gate (#240): a backlog found beside a missing or corrupt
\* sidecar is never POSTed, whatever fails.  (Of several processes, one may read
\* the entry, and another baseline the sidecar after a trim without it: the
\* first then POSTs it.)
LegacyBacklogNeverSent ==
    (log # <<>> /\ sidecar.version < STATE_VERSION) => [](sent[1] = 0)

\* Every entry appended after the baseline is eventually taken by the listener,
\* however many POSTs fail before it, unless it is trimmed, a crash cut a save
\* short or a trim renumbered identical texts.
EventuallySent ==
    \A u \in Uids :
        (u \in owed) ~> (sent[u] > 0 \/ u <= head \/ crashes > 0 \/ Renumbered)
=============================================================================
