-------------------------- MODULE PersistentSocket --------------------------
(***************************************************************************)
(* The connection every cmux call shares, of                               *)
(* src/src/cmux-persistent-socket.ts.  V2 requests are matched to their    *)
(* responses by id, V1 command lines are answered in order and written one *)
(* at a time, and both wait for one shared connect.  A socket outlives its *)
(* use: destroy() only announces its close event, and another socket may   *)
(* be current when that comes.                                             *)
(*                                                                         *)
(* Continuations of awaited promises run before the next event of the loop;*)
(* the polling budget and the encoding of frames are left out.             *)
(***************************************************************************)
EXTENDS Naturals, Sequences, FiniteSets, SequencesExt

CONSTANTS
    Lines,        \* V1 commands, sent once each by sendLine
    Calls,        \* V2 requests, sent once each by callOnce
    Sockets,      \* identities of net.Socket objects, reused once forgotten
    MaxInFlight,
    Events        \* bound: "disconnect", and the unsolicited frames "status",
                  \* "malformed" and "denial", that may happen

Reqs == Lines \cup Calls

ASSUME SocketAssumption ==
    /\ Lines \cap Calls = {}
    /\ Sockets \subseteq Nat \ {0}
    /\ MaxInFlight \in Nat \ {0}

VARIABLES
    socket,          \* this.socket, 0 for null
    connected,
    connectPromise,  \* the socket it is for, 0 for null
    backoff,         \* is currentBackoffMs positive
    phase,           \* per socket: what the operating system knows of it
    settled,         \* per socket: its connect promise has settled
    armed,           \* per socket: the connect timeout, until the first bytes
    owedV1,          \* per socket: lines cmux has still to answer, in order
    owedV2,          \* per socket: V2 requests it has still to answer
    part,            \* the request, if any, whose reply begins what the buffer holds
    pendingV1,       \* its head is the one written
    req,             \* the state of each request
    sent,            \* per request: how far its bytes have come
    mixed            \* ghost: V1 replies may be out of step on this connection

link == <<socket, connected, connectPromise, backoff>>
sockets == <<phase, settled, armed>>
owed == <<owedV1, owedV2>>
vars == <<link, sockets, owed, part, pendingV1, req, sent, mixed>>

Phases == {"free", "connecting", "open", "destroyed"}
\* How a request ends: with its own reply or another's, with an error of the
\* connect or write phase, or with any other error.
Results == {"none", "reply", "other", "unsent", "failed"}
Stages == {"new", "backoff", "waiting", "resuming", "pending", "done"}

\* A poll (opts.polling) is stale once pollingCancellationGeneration moved on.
Kinds == {"plain", "poll", "stale"}

Requests == [at : Stages, on : Sockets \cup {0}, res : Results, kind : Kinds]
New == [at |-> "new", on |-> 0, res |-> "none", kind |-> "plain"]
Done(r, result) == [New EXCEPT !.at = "done", !.res = result]

Pending == {r \in Reqs : req[r].at = "pending"}
Owed(s) == ToSet(owedV1[s]) \cup owedV2[s]
Waiting(s) == {r \in Reqs : req[r].at = "waiting" /\ req[r].on = s}

\* Microtasks run before the next event.
Quiet == \A r \in Reqs : req[r].at # "resuming"

Unused(s) == phase[s] = "free" /\ s # socket /\ Waiting(s) = {}

Init ==
    /\ socket = 0 /\ connected = FALSE /\ connectPromise = 0
    /\ backoff = FALSE
    /\ phase = [s \in Sockets |-> "free"]
    /\ settled = [s \in Sockets |-> TRUE]
    /\ armed = [s \in Sockets |-> FALSE]
    /\ owedV1 = [s \in Sockets |-> <<>>] /\ owedV2 = [s \in Sockets |-> {}]
    /\ part = {}
    /\ pendingV1 = <<>>
    /\ req = [r \in Reqs |-> New]
    /\ sent = [r \in Reqs |-> "no"]
    /\ mixed = FALSE

-----------------------------------------------------------------------------
(* Getting a connection: connect and ensureConnected.                      *)

\* A new socket becomes this.socket at once, before it is connected; callers
\* that come meanwhile share its promise.
Connect(r, rq) ==
    IF connected
    THEN req' = [rq EXCEPT ![r].at = "resuming"] /\ UNCHANGED <<link, sockets, mixed>>
    ELSE IF connectPromise # 0
    THEN /\ req' = [rq EXCEPT ![r].at = "waiting", ![r].on = connectPromise]
         /\ UNCHANGED <<link, sockets, mixed>>
    ELSE \E s \in Sockets :
            /\ Unused(s) /\ \A t \in Sockets : Unused(t) => s <= t
            /\ socket' = s /\ connectPromise' = s
            /\ phase' = [phase EXCEPT ![s] = "connecting"]
            /\ settled' = [settled EXCEPT ![s] = FALSE]
            /\ armed' = [armed EXCEPT ![s] = TRUE]
            /\ mixed' = FALSE
            /\ req' = [rq EXCEPT ![r].at = "waiting", ![r].on = s]
            /\ UNCHANGED <<connected, backoff>>

\* Mutant: nothing compares the generations.
NeverOutdated(r) == FALSE

\* assertPollingGeneration throws: the poll belongs to a connection that is gone.
Outdated(r) == req[r].kind = "stale"

\* call and sendLine, up to their first await.
Call(r, kind) ==
    LET begun == [req EXCEPT ![r].kind = kind]
    IN  /\ req[r].at = "new"
        /\ kind = "poll" => r \in Calls
        /\ IF Cardinality(Pending) >= MaxInFlight
           THEN req' = [req EXCEPT ![r] = Done(r, "failed")] /\ UNCHANGED <<link, sockets, mixed>>
           ELSE IF backoff /\ ~(connected /\ socket # 0) /\ connectPromise = 0
           THEN req' = [begun EXCEPT ![r].at = "backoff"] /\ UNCHANGED <<link, sockets, mixed>>
           ELSE Connect(r, begun)
        /\ UNCHANGED <<owed, part, pendingV1, sent>>

\* The wait of ensureConnected ends; a poll of an older generation gives up.
BackoffEnds(r) ==
    /\ Quiet /\ req[r].at = "backoff"
    /\ IF Outdated(r)
       THEN req' = [req EXCEPT ![r] = Done(r, "failed")] /\ UNCHANGED <<link, sockets, mixed>>
       ELSE Connect(r, req)
    /\ UNCHANGED <<owed, part, pendingV1, sent>>

-----------------------------------------------------------------------------
(* Writing.                                                                *)

\* writePayload: the socket takes the bytes, and cmux will owe an answer.
Write(r) ==
    /\ sent' = [sent EXCEPT ![r] = "buffered"]
    /\ IF r \in Lines
       THEN owedV1' = [owedV1 EXCEPT ![socket] = Append(@, r)] /\ UNCHANGED owedV2
       ELSE owedV2' = [owedV2 EXCEPT ![socket] = @ \cup {r}] /\ UNCHANGED owedV1

\* The line that writeNextV1 writes when the queue becomes q.
Next1(q) == IF socket = 0 \/ q = <<>> THEN {} ELSE {Head(q)}

\* The head of the V1 queue ends with a result, and the next line is written.
\* Of earlier lines, cmux still owes the answers in left.
EndV1(result, left) ==
    LET head == Head(pendingV1)
        next == Next1(Tail(pendingV1))
    IN  /\ pendingV1' = Tail(pendingV1)
        /\ req' = [r \in Reqs |->
              IF r = head THEN Done(r, result)
              ELSE IF r \in next THEN [req[r] EXCEPT !.on = socket] ELSE req[r]]
        /\ sent' = [r \in Reqs |-> IF r \in next THEN "buffered" ELSE sent[r]]
        /\ owedV1' = IF next = {} THEN left
                     ELSE [left EXCEPT ![socket] = Append(@, Head(Tail(pendingV1)))]

\* callOnce and sendLine after ensureConnected.  The socket may be gone again:
\* a V2 request fails at once, a line is left in the queue unwritten.
Resume(r) ==
    /\ req[r].at = "resuming"
    /\ IF Outdated(r)
       THEN req' = [req EXCEPT ![r] = Done(r, "failed")] /\ UNCHANGED <<pendingV1, sent, owed>>
       ELSE IF r \in Calls /\ socket = 0
       THEN req' = [req EXCEPT ![r] = Done(r, "unsent")] /\ UNCHANGED <<pendingV1, sent, owed>>
       ELSE LET now == r \in Calls \/ (socket # 0 /\ pendingV1 = <<>>)
            IN  /\ req' = [req EXCEPT ![r].at = "pending",
                                            ![r].on = IF now THEN socket ELSE 0]
                /\ pendingV1' = IF r \in Lines THEN Append(pendingV1, r) ELSE pendingV1
                /\ IF now THEN Write(r) ELSE UNCHANGED <<sent, owed>>
    /\ UNCHANGED <<link, sockets, part, mixed>>

\* The kernel has taken the bytes: the write callback runs.
Flush(r) ==
    /\ Quiet /\ sent[r] = "buffered"
    /\ \E s \in Sockets : phase[s] = "open" /\ r \in Owed(s)
    /\ sent' = [sent EXCEPT ![r] = "flushed"]
    /\ UNCHANGED <<link, sockets, owed, part, pendingV1, req, mixed>>

\* A write that throws rejects its own request, without touching the socket.
WriteThrows(r) ==
    /\ req[r].at = "resuming" /\ ~Outdated(r) /\ socket # 0
    /\ r \in Lines => pendingV1 = <<>>
    /\ req' = [req EXCEPT ![r] = Done(r, "unsent")]
    /\ UNCHANGED <<link, sockets, owed, part, pendingV1, sent, mixed>>

-----------------------------------------------------------------------------
(* Endings.                                                                *)

\* Mutant: every request still pending hears the error as its own write's.
HearsAll(s) == Pending

\* Requests whose own listener, which runs first, hears an error of s.
HearsWriteError(s) == {r \in Pending : sent[r] = "buffered" /\ r \in Owed(s)}

\* pollingCancellationGeneration moves on: polls made before it are stale.
Cancelled == {r \in Calls : req[r].kind = "poll"}

\* The requests, when those in "own" fail with a write error, those pending
\* with "all", and the waiters of s with "wait"; "gone" polls become stale.
Ended(s, own, all, wait, gone) ==
    [r \in Reqs |->
        IF r \in own THEN Done(r, "unsent")
        ELSE IF r \in all.of THEN Done(r, all.res)
        ELSE IF r \in Waiting(s) /\ wait # "none" THEN Done(r, wait)
        ELSE IF r \in gone THEN [req[r] EXCEPT !.kind = "stale"]
        ELSE req[r]]

\* rejectAllPending, for both the map and the queue.
Everyone(result) == [of |-> Pending, res |-> result]
Nobody == [of |-> {}, res |-> "none"]

\* Bytes a destroyed socket had not handed over are lost with it.
Lost(s) ==
    /\ sent' = [r \in Reqs |-> IF sent[r] = "buffered" /\ r \in Owed(s) THEN "no" ELSE sent[r]]
    /\ owedV1' = [owedV1 EXCEPT ![s] = <<>>]
    /\ owedV2' = [owedV2 EXCEPT ![s] = {}]

LeaveQueue == pendingV1' = <<>>

\* The connect callback.
Connected(s) ==
    /\ Quiet /\ phase[s] = "connecting"
    /\ settled' = [settled EXCEPT ![s] = TRUE]
    /\ IF settled[s] \/ socket # s
       THEN /\ phase' = [phase EXCEPT ![s] = "destroyed"]
            /\ req' = Ended(s, {}, Nobody, "failed", {})
            /\ UNCHANGED <<link>>
       ELSE /\ phase' = [phase EXCEPT ![s] = "open"]
            /\ connected' = TRUE /\ connectPromise' = 0 /\ backoff' = FALSE
            /\ req' = [r \in Reqs |-> IF r \in Waiting(s)
                                      THEN [req[r] EXCEPT !.at = "resuming", !.on = 0]
                                      ELSE req[r]]
            /\ UNCHANGED socket
    /\ UNCHANGED <<armed, owed, part, pendingV1, sent, mixed>>

\* The connect timeout: also of a connection whose first bytes never come.
TimesOut(s) ==
    /\ Quiet /\ armed[s] /\ phase[s] \in {"connecting", "open"}
    /\ phase' = [phase EXCEPT ![s] = "destroyed"]
    /\ armed' = [armed EXCEPT ![s] = FALSE]
    /\ settled' = [settled EXCEPT ![s] = TRUE]
    /\ backoff' = (backoff \/ ~settled[s])
    /\ IF socket = s
       THEN /\ connected' = FALSE /\ connectPromise' = 0
            /\ req' = Ended(s, {}, Everyone(IF settled[s] THEN "failed" ELSE "unsent"), "unsent", {})
            /\ LeaveQueue
       ELSE /\ req' = Ended(s, {}, Nobody, "unsent", {})
            /\ UNCHANGED <<connected, connectPromise, pendingV1>>
    /\ Lost(s)
    /\ UNCHANGED <<socket, part, mixed>>

\* The error event: the listeners of writes, then the connection's, which
\* leaves everything to the close event when the socket is not current (then
\* its own listeners could only be that of the head: no other line is written).
Errors(s) ==
    LET own == HearsWriteError(s)
        result == IF settled[s] THEN "failed" ELSE "unsent"
    IN  /\ Quiet /\ phase[s] \in {"connecting", "open"}
        /\ phase' = [phase EXCEPT ![s] = "destroyed"]
        /\ armed' = [armed EXCEPT ![s] = FALSE]
        /\ IF socket = s
           THEN /\ connected' = FALSE
                /\ connectPromise' = IF settled[s] THEN connectPromise ELSE 0
                /\ settled' = [settled EXCEPT ![s] = TRUE]
                /\ backoff' = (backoff \/ ~settled[s])
                /\ req' = Ended(s, own, Everyone(result), "unsent", {})
                /\ LeaveQueue
           ELSE /\ req' = Ended(s, own, Nobody, "none", {})
                /\ pendingV1' = IF pendingV1 # <<>> /\ Head(pendingV1) \in own
                                THEN Tail(pendingV1) ELSE pendingV1
                /\ UNCHANGED <<settled, connected, connectPromise, backoff>>
        /\ Lost(s)
        /\ UNCHANGED <<socket, part, mixed>>

\* Mutant: the close event of any socket is taken for the current one's.
IsSomeSocket(s) == TRUE

\* this.socket === socket, in the close listener.
IsCurrent(s) == socket = s

\* Mutant: only the current socket's close rejects its connect promise.
ToldIfCurrent(s) == IF socket = s THEN "unsent" ELSE "none"

\* The connect promise of a socket that closes is rejected, current or not.
Told(s) == "unsent"

\* The close event, after destroy() or when cmux hangs up.
Closes(s) ==
    /\ Quiet /\ phase[s] # "free"
    /\ phase' = [phase EXCEPT ![s] = "free"]
    /\ armed' = [armed EXCEPT ![s] = FALSE]
    /\ settled' = [settled EXCEPT ![s] = TRUE]
    /\ backoff' = (backoff \/ ~settled[s])
    /\ connectPromise' = IF ~settled[s] /\ IsCurrent(s) THEN 0 ELSE connectPromise
    /\ IF IsCurrent(s)
       THEN /\ connected' = FALSE /\ socket' = 0
            /\ req' = Ended(s, {}, Everyone("failed"), Told(s), Cancelled)
            /\ LeaveQueue
       ELSE /\ req' = Ended(s, {}, Nobody, Told(s), {})
            /\ UNCHANGED <<connected, socket, pendingV1>>
    /\ Lost(s)
    /\ UNCHANGED <<part, mixed>>

\* disconnect(): callers that wait for the connect hear of it at the close.
Disconnect ==
    /\ "disconnect" \in Events
    /\ socket' = 0 /\ connected' = FALSE /\ connectPromise' = 0
    /\ req' = Ended(socket, {}, Everyone("failed"), "none", Cancelled)
    /\ LeaveQueue
    /\ IF socket = 0
       THEN UNCHANGED <<phase, armed, sent, owed>>
       ELSE /\ phase' = [phase EXCEPT ![socket] = "destroyed"]
            /\ armed' = [armed EXCEPT ![socket] = FALSE]
            /\ Lost(socket)
    /\ UNCHANGED <<settled, backoff, part, mixed>>

Without(q, r) ==
    IF r \in ToSet(q) THEN RemoveAt(q, CHOOSE n \in DOMAIN q : q[n] = r) ELSE q

\* The timer of a pending request; the next line does not wait for a late reply.
RequestTimesOut(r) ==
    /\ Quiet /\ req[r].at = "pending"
    /\ mixed' = (mixed \/ (r \in Lines /\ sent[r] # "no"))
    /\ IF pendingV1 # <<>> /\ r = Head(pendingV1)
       THEN EndV1("failed", owedV1)
       ELSE /\ req' = [req EXCEPT ![r] = Done(r, "failed")]
            /\ pendingV1' = Without(pendingV1, r)
            /\ UNCHANGED <<sent, owedV1>>
    /\ UNCHANGED <<link, sockets, owedV2, part>>

-----------------------------------------------------------------------------
(* Reading: processBuffer.  Of V1 lines, cmux owes what is left after the  *)
(* answer that the frame carries.                                          *)

EndCalls(result, left) ==
    /\ req' = [r \in Reqs |-> IF r \in Pending \cap Calls THEN Done(r, result) ELSE req[r]]
    /\ owedV1' = left
    /\ UNCHANGED <<pendingV1, sent>>

Ignored(left) == owedV1' = left /\ UNCHANGED <<req, pendingV1, sent>>

\* A line that is not JSON, the reply to those in of: it goes to the oldest line.
PlainFrame(of, left) ==
    IF pendingV1 # <<>> THEN EndV1(IF Head(pendingV1) \in of THEN "reply" ELSE "other", left)
    ELSE IF Pending # {} THEN EndCalls("failed", left)
    ELSE Ignored(left)

\* rejectMalformedFrame, for a line that begins like an object.
MalformedFrame(left) ==
    IF Pending \cap Calls # {} THEN EndCalls("failed", left)
    ELSE IF pendingV1 # <<>> THEN EndV1("failed", left)
    ELSE Ignored(left)

\* Mutant: a response nobody waits for is taken for the reply to a line.
LateToLine(r) == PlainFrame({r}, owedV1)

\* A response whose id is not in the map any more.
LateResponse(r) == Ignored(owedV1)

ResponseFrame(r) ==
    IF r \in Pending
    THEN req' = [req EXCEPT ![r] = Done(r, "reply")] /\ UNCHANGED <<owedV1, pendingV1, sent>>
    ELSE LateResponse(r)

\* What is left in the buffer came over a connection that is gone: nothing
\* clears the buffer, so the next line is glued to it.
Inherited == part # {} /\ \A s \in Sockets : part \cap Owed(s) = {}

\* cmux answers lines in order, and finishes a reply before the next.
Answerable(s, r) ==
    /\ Quiet /\ phase[s] = "open"
    /\ r \in Owed(s) /\ sent[r] = "flushed"
    /\ r \in Lines => r = Head(owedV1[s])
    /\ part \cap Owed(s) \subseteq {r}

\* A chunk that ends a line.
Reply(s, r) ==
    LET left == IF r \in Lines THEN [owedV1 EXCEPT ![s] = Tail(@)] ELSE owedV1
    IN  /\ Answerable(s, r)
        /\ armed' = [armed EXCEPT ![s] = FALSE]
        /\ part' = {}
        /\ IF Inherited
           THEN IF part \subseteq Calls THEN MalformedFrame(left) ELSE PlainFrame({}, left)
           ELSE IF r \in Calls THEN ResponseFrame(r) ELSE PlainFrame({r}, left)
        /\ owedV2' = [owedV2 EXCEPT ![s] = @ \ {r}]
        /\ mixed' = (mixed \/ Inherited)
        /\ UNCHANGED <<link, phase, settled>>

\* A chunk that ends within the reply to r.
Fragment(s, r) ==
    /\ Answerable(s, r) /\ part = {}
    /\ armed' = [armed EXCEPT ![s] = FALSE]
    /\ part' = {r}
    /\ UNCHANGED <<link, phase, settled, owed, pendingV1, req, sent, mixed>>

\* Lines nobody asked for: a sidebar status line, a malformed object, a raw
\* access-control denial.
Unsolicited(s, kind) ==
    /\ Quiet /\ phase[s] = "open" /\ part = {} /\ kind \in Events
    /\ armed' = [armed EXCEPT ![s] = FALSE]
    /\ mixed' = TRUE
    /\ CASE kind = "status" -> IF pendingV1 # <<>> THEN EndV1("other", owedV1) ELSE Ignored(owedV1)
         [] kind = "malformed" -> MalformedFrame(owedV1)
         [] kind = "denial" -> /\ req' = Ended(s, {}, Everyone("failed"), "none", {})
                               /\ LeaveQueue
                               /\ UNCHANGED <<owedV1, sent>>
    /\ UNCHANGED <<link, phase, settled, owedV2, part>>

-----------------------------------------------------------------------------

SocketStep(s) == Connected(s) \/ TimesOut(s) \/ Errors(s) \/ Closes(s)
RequestStep(r) == BackoffEnds(r) \/ Resume(r) \/ WriteThrows(r) \/ RequestTimesOut(r)

Next ==
    \/ \E r \in Reqs : Call(r, "plain") \/ Call(r, "poll") \/ RequestStep(r) \/ Flush(r)
    \/ \E s \in Sockets :
          \/ SocketStep(s)
          \/ \E r \in Reqs : Reply(s, r) \/ Fragment(s, r)
          \/ \E kind \in {"status", "malformed", "denial"} : Unsolicited(s, kind)
    \/ Disconnect

Spec == Init /\ [][Next]_vars

\* Continuations run, timers fire, and a socket that is connecting or destroyed
\* does not stay so for ever.
FairSpec ==
    /\ Spec
    /\ \A r \in Reqs : WF_vars(RequestStep(r))
    /\ \A s \in Sockets : WF_vars(phase[s] # "open" /\ SocketStep(s))

-----------------------------------------------------------------------------
(* Properties.                                                             *)

TypeOK ==
    /\ socket \in Sockets \cup {0} /\ connectPromise \in Sockets \cup {0}
    /\ connected \in BOOLEAN /\ backoff \in BOOLEAN /\ mixed \in BOOLEAN
    /\ phase \in [Sockets -> Phases]
    /\ settled \in [Sockets -> BOOLEAN] /\ armed \in [Sockets -> BOOLEAN]
    /\ owedV1 \in [Sockets -> Seq(Lines)] /\ \A s \in Sockets : IsInjective(owedV1[s])
    /\ owedV2 \in [Sockets -> SUBSET Calls]
    /\ part \subseteq Reqs /\ Cardinality(part) <= 1
    /\ pendingV1 \in Seq(Lines)
    /\ ToSet(pendingV1) = Pending \cap Lines /\ IsInjective(pendingV1)
    /\ req \in [Reqs -> Requests]
    /\ sent \in [Reqs -> {"no", "buffered", "flushed"}]

\* Whatever events of older sockets come late, connected means that the current
\* socket is open, and a connect promise that callers may still join is the
\* unsettled one of the current socket.
StaleEventsHarmless ==
    /\ connected => socket # 0 /\ phase[socket] = "open"
    /\ connectPromise # 0 =>
          socket = connectPromise /\ phase[socket] = "connecting" /\ ~settled[socket]

\* No request outlives its connection: one that is written and still pending is
\* on the current socket, so that socket's end rejects it.
PendingOnCurrent ==
    \A r \in Pending : sent[r] # "no" =>
        socket # 0 /\ req[r].on = socket /\ phase[socket] \in {"connecting", "open"}

\* No connection is left behind: a socket that is not current is destroyed.
OneConnection == \A s \in Sockets : phase[s] \in {"connecting", "open"} => s = socket

\* The client and its sockets agree, whichever socket's events come when.
Consistent == TypeOK /\ StaleEventsHarmless /\ OneConnection /\ PendingOnCurrent

\* An error of the connect or write phase means that cmux never got the request:
\* what canRetryPayload relies on when it sends a mutation again.
UnsentPhasesAreHonest ==
    \A r \in Reqs : req[r].res = "unsent" => sent[r] # "flushed"

\* A line gets the reply of another request only on a connection where an
\* earlier written line timed out, an unsolicited line came, or the buffer held
\* the rest of an older connection.
MixupsExplained ==
    [][\A r \in Reqs : (req[r].res # "other" /\ req'[r].res = "other") => mixed \/ mixed']_vars

\* A poll whose connection was closed or disconnected is not written later, on a
\* connection it did not ask for.
StalePollsUnsent ==
    [][\A r \in Calls : req[r].kind = "stale" /\ sent[r] = "no" => sent'[r] = "no"]_vars

\* Every request settles.
RequestsSettle == \A r \in Reqs : (req[r].at # "new") ~> (req[r].at = "done")

=============================================================================
