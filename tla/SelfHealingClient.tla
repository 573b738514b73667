------------------------- MODULE SelfHealingClient -------------------------
(***************************************************************************)
(* The cmux transport (src/src/cmux-transport-self-heal.ts) over the       *)
(* reconnecting socket client (src/src/cmux-socket-client.ts): calls go to *)
(* the socket or to the cmux CLI, a broken socket is abandoned for the     *)
(* CLI, failed calls that are safe to repeat are replayed one after the    *)
(* other, and a self re-arming timer probes for a way back.                *)
(*                                                                         *)
(* A socket call is at most one command to cmux: its bytes are in the      *)
(* process ("no"), on the wire, or served.  cmux may serve what is on the  *)
(* wire after the caller has given up.  A socket error of the write phase  *)
(* is the kernel's, for bytes it did not take.  A CLI error of that phase  *)
(* is read off the text the CLI died with, and tells nothing of what cmux  *)
(* did with the command.                                                   *)
(***************************************************************************)
EXTENDS Naturals, Sequences, FiniteSets, FiniteSetsExt, SequencesExt

CONSTANTS
    Calls,        \* the forwarded calls of one history, each made once
    Mutations,    \* those whose method is not in READ_ONLY_METHODS
    Clients,      \* identities of CmuxSocketClient objects, reused once forgotten
    MaxAttempts,  \* retryAttempts: deliveries of one payload, the first included
    Events        \* bound: which of "denial" and "stop" may happen

ASSUME TransportAssumption ==
    /\ Mutations \subseteq Calls /\ IsFiniteSet(Calls)
    /\ Clients \subseteq Nat \ {0} /\ Clients # {}
    /\ MaxAttempts \in Nat \ {0, 1}
    /\ Events \subseteq {"denial", "stop"}

VARIABLES
    cmux,          \* the app: "up", "down" or "denying" by access control
    route,         \* the delegate: "socket" or "cli"
    client,        \* the CmuxSocketClient last installed
    conn,          \* per client: is its persistent socket connected
    reconnecting,  \* per client: the error that started reconnectTransport, or "no"
    call,          \* the state of each call
    queue,         \* failedPayloadQueue, its head being retried
    timer,         \* is reprobeTimer armed
    probe,         \* what the re-probe cycle awaits (upgrading unless "idle")
    probing,       \* the client a health check was started for
    stopped,       \* stop() was called
    executed,      \* ghost: how often cmux served each mutation
    late,          \* ghost: a given up command of the mutation is still with cmux
    misled         \* ghost: how the mutation was misled about its own attempt

env == <<cmux, executed, late>>
sockets == <<conn, reconnecting, client>>
calls == <<call, queue, misled>>
cycle == <<timer, probe, probing, stopped>>
vars == <<env, route, sockets, calls, cycle>>

SocketErrors == {"connect", "write", "response", "closed"}
CliErrors == {"cli_write", "cli_pipe", "cli_error"}

\* The call was failed with the error of another, which started the reconnect;
\* or the CLI's failure was taken for one before cmux had its command.
Misleadings == {"borrowed", "cli"}

Errors == SocketErrors \cup CliErrors \cup {"denied", "timeout", "refused"}

\* isRecoverableSocketError; "refused", "timeout" and "cli_error" are answers.
Recoverable == SocketErrors \cup {"denied", "cli_write", "cli_pipe"}

Legs == {"none", "socket", "reconnecting", "cli", "sleep", "thrown"}
CallStates == [at : {"new", "calling", "replaying", "done"}, leg : Legs,
               onSocket : BOOLEAN, client : Clients \cup {0},
               sent : {"no", "wire", "served"}, err : Errors \cup {"none"},
               tries : 0..MaxAttempts]

Fresh == [at |-> "new", leg |-> "none", onSocket |-> FALSE, client |-> 0,
          sent |-> "no", err |-> "none", tries |-> 0]

\* Mutant: only calls that went to the CLI are drained.
InFlightOnCli == Cardinality({c \in Calls : call[c].at = "calling" /\ ~call[c].onSocket})

\* this.inFlight: invokeForwarded's finally runs before the replay it returns
\* has settled, so replays are not counted.
InFlight == Cardinality({c \in Calls : call[c].at = "calling"})

\* The record of a call whose attempt has failed with e.
Thrown(c, e) == [call[c] EXCEPT !.leg = "thrown", !.err = e, !.sent = "no"]

\* Calls whose request is in the pending map of a client's transport, and calls
\* that wait in ensureConnected for its connection.
Pending(g) == {c \in Calls : call[c].leg = "socket" /\ call[c].client = g /\ conn[g]}
Waiting(g) == {c \in Calls : call[c].leg = "socket" /\ call[c].client = g /\ ~conn[g]}

-----------------------------------------------------------------------------

\* A client no call and no reconnect refers to any more.
Unused(g) ==
    /\ reconnecting[g] = "no"
    /\ \A c \in Calls : call[c].leg \in {"socket", "reconnecting"} => call[c].client # g

\* Mutant: any payload that failed on a broken transport is sent again.
CanRetryAnything(c, e) == e \in Recoverable

\* canRetryPayload: a mutation only if the failed attempt was not written.
canRetryPayload(c, e) ==
    /\ e \in Recoverable
    /\ c \in Mutations => e \in {"connect", "write", "cli_write"}

\* The bytes of an abandoned attempt stay with cmux.
Abandon(S) == late' = [c \in Calls |-> late[c] \/ (c \in S \cap Mutations /\ call[c].sent = "wire")]

CountServed(c) == executed' = [executed EXCEPT ![c] = IF c \in Mutations THEN @ + 1 ELSE @]

\* The records cl with the calls in S, just failed with err[c], in
\* withConnectionRetry, awaiting reconnectTransport.
Joining(cl, S, err) ==
    [c \in Calls |-> IF c \in S THEN [cl[c] EXCEPT !.leg = "reconnecting", !.err = err[c], !.sent = "no"]
                                ELSE cl[c]]

\* Mutant: nothing resolves the promise the callers wait for.
StartedForgets(g, S, first) == reconnecting[g]

\* reconnectTransport starts with the error of the first call that gets there.
Started(g, S, first) == IF reconnecting[g] = "no" /\ S # {} THEN first ELSE reconnecting[g]

Closed == [c \in Calls |-> "closed"]

\* CmuxSocketClient.disconnect on g: every pending request of it is rejected.
Disconnect(g, cl) ==
    /\ call' = Joining(cl, Pending(g), Closed)
    /\ reconnecting' = [reconnecting EXCEPT ![g] = Started(g, Pending(g), "closed")]
    /\ conn' = [conn EXCEPT ![g] = FALSE]
    /\ Abandon(Pending(g))

\* Mutant: a downgrade counts on a timer that is already armed.
DowngradeSilent(cl) ==
    /\ route' = "cli"
    /\ Disconnect(client, cl)
    /\ UNCHANGED timer

\* downgradeToCli, with cl the call records it starts from.
Downgrade(cl) ==
    /\ route' = "cli"
    /\ Disconnect(client, cl)
    /\ timer' = ~stopped

-----------------------------------------------------------------------------

Init ==
    /\ cmux = "up"
    /\ route \in {"socket", "cli"}
    /\ client = Min(Clients)
    /\ conn = [g \in Clients |-> route = "socket" /\ g = client]
    /\ reconnecting = [g \in Clients |-> "no"]
    /\ call = [c \in Calls |-> Fresh]
    /\ queue = <<>>
    /\ timer = TRUE
    /\ probe = "idle" /\ probing = 0
    /\ stopped = FALSE
    /\ executed = [c \in Calls |-> 0]
    /\ late = [c \in Calls |-> FALSE]
    /\ misled = [c \in Calls |-> {}]

\* callDelegate on the current route: one attempt of call c begins.
Attempt(c) ==
    [call[c] EXCEPT !.leg = IF route = "socket" THEN "socket" ELSE "cli",
                    !.client = IF route = "socket" THEN client ELSE 0,
                    !.sent = "no"]

\* invokeForwarded.
Invoke(c) ==
    /\ call[c].at = "new"
    /\ call' = [call EXCEPT ![c] = [Attempt(c) EXCEPT !.at = "calling",
                                                      !.onSocket = (route = "socket")]]
    /\ UNCHANGED <<env, route, sockets, queue, misled, cycle>>

\* The head of the queue wakes from its backoff and tries the current delegate.
RetryWakes(c) ==
    /\ call[c].leg = "sleep"
    /\ call' = [call EXCEPT ![c] = Attempt(c)]
    /\ UNCHANGED <<env, route, sockets, queue, misled, cycle>>

\* Mutant: the queue keeps an entry that was rejected.
AfterHeadStuck == queue

\* flushFailedPayloadQueue drops the head, whatever became of it.
AfterHead == Tail(queue)

\* The records with c settled, and the next payload in the queue begun.
Settled(c) ==
    [d \in Calls |->
        IF d = c THEN [Fresh EXCEPT !.at = "done"]
        ELSE IF call[c].at = "replaying" /\ AfterHead # <<>> /\ d = Head(AfterHead)
             THEN [call[d] EXCEPT !.leg = "sleep", !.tries = 1]
             ELSE call[d]]

Settle(c) ==
    /\ call' = Settled(c)
    /\ queue' = IF call[c].at = "replaying" THEN AfterHead ELSE queue

\* The failure of an attempt reaches invokeForwarded: recoverFailedPayload.
CallThrows(c) ==
    LET e == call[c].err
        retry == canRetryPayload(c, e)
        broken == call[c].onSocket /\ route = "socket" /\ e \in Recoverable
        queued == [Fresh EXCEPT !.at = "replaying",
                                  !.leg = IF queue = <<>> THEN "sleep" ELSE "none",
                                  !.tries = IF queue = <<>> THEN 1 ELSE 0]
        next == IF retry THEN [call EXCEPT ![c] = queued] ELSE Settled(c)
    IN  /\ call[c].at = "calling" /\ call[c].leg = "thrown"
        /\ queue' = IF retry THEN Append(queue, c) ELSE queue
        /\ IF broken
           THEN Downgrade(next)
           ELSE call' = next /\ UNCHANGED <<route, conn, reconnecting, timer, late>>
        /\ UNCHANGED <<cmux, executed, client, misled, probe, probing, stopped>>

\* The failure of a retry reaches retryPayload: once more, or give up.
RetryThrows(c) ==
    LET e == call[c].err
    IN  /\ call[c].at = "replaying" /\ call[c].leg = "thrown"
        /\ IF call[c].tries + 1 < MaxAttempts /\ canRetryPayload(c, e)
           THEN /\ call' = [call EXCEPT ![c] = [Fresh EXCEPT !.at = "replaying", !.leg = "sleep",
                                                             !.tries = call[c].tries + 1]]
                /\ UNCHANGED queue
           ELSE Settle(c)
        /\ UNCHANGED <<env, route, sockets, misled, cycle>>

-----------------------------------------------------------------------------
(* One attempt on the socket.                                              *)

\* The shared connectPromise of a client settles: connected...
Connects(g) ==
    /\ cmux = "up" /\ Waiting(g) # {}
    /\ conn' = [conn EXCEPT ![g] = TRUE]
    /\ UNCHANGED <<env, route, reconnecting, client, calls, cycle>>

\* ... or not, and the call goes to reconnectTransport.
ConnectFails(c) ==
    LET g == call[c].client
    IN  /\ g \in Clients /\ c \in Waiting(g)
        /\ call' = Joining(call, {c}, [d \in Calls |-> "connect"])
        /\ reconnecting' = [reconnecting EXCEPT ![g] = Started(g, {c}, "connect")]
        /\ UNCHANGED <<env, route, conn, client, queue, misled, cycle>>

\* The kernel takes the request, and cmux serves it.
Flush(c) ==
    /\ \E g \in Clients : c \in Pending(g)
    /\ call[c].sent = "no"
    /\ call' = [call EXCEPT ![c].sent = "wire"]
    /\ UNCHANGED <<env, route, sockets, queue, misled, cycle>>

Serve(c) ==
    /\ cmux = "up"
    /\ \E g \in Clients : c \in Pending(g)
    /\ call[c].sent = "wire"
    /\ call' = [call EXCEPT ![c].sent = "served"]
    /\ CountServed(c)
    /\ UNCHANGED <<cmux, late, route, sockets, queue, misled, cycle>>

ServeLate(c) ==
    /\ cmux = "up" /\ late[c]
    /\ late' = [late EXCEPT ![c] = FALSE]
    /\ CountServed(c)
    /\ UNCHANGED <<cmux, route, sockets, calls, cycle>>

Answer(c) ==
    /\ \E g \in Clients : c \in Pending(g)
    /\ call[c].sent = "served"
    /\ Settle(c)
    /\ UNCHANGED <<env, route, sockets, misled, cycle>>

\* An application error, or the request timer: no connection error, so thrown
\* as it is.
Refuse(c) ==
    /\ \E g \in Clients : c \in Pending(g)
    /\ call[c].sent = "wire"
    /\ call' = [call EXCEPT ![c] = Thrown(c, "refused")]
    /\ UNCHANGED <<env, route, sockets, queue, misled, cycle>>

TimesOut(c) ==
    /\ \E g \in Clients : c \in Pending(g)
    /\ call' = [call EXCEPT ![c] = Thrown(c, "timeout")]
    /\ Abandon({c})
    /\ UNCHANGED <<cmux, executed, route, sockets, queue, misled, cycle>>

\* The socket fails: unwritten requests hear it from their own listener, which
\* runs first, the others from the connection's.
SocketLost(g) ==
    LET phase == [c \in Calls |-> IF call[c].sent = "no" THEN "write" ELSE "response"]
        first == IF \E c \in Pending(g) : phase[c] = "write" THEN "write" ELSE "response"
    IN  /\ conn[g]
        /\ conn' = [conn EXCEPT ![g] = FALSE]
        /\ call' = Joining(call, Pending(g), phase)
        /\ reconnecting' = [reconnecting EXCEPT ![g] = Started(g, Pending(g), first)]
        /\ Abandon(Pending(g))
        /\ UNCHANGED <<cmux, executed, route, client, queue, misled, cycle>>

\* A raw access-control denial rejects everything pending.
RawDenial(g) ==
    /\ cmux = "denying" /\ conn[g] /\ Pending(g) # {}
    /\ call' = [c \in Calls |-> IF c \in Pending(g)
                                THEN Thrown(c, "denied")
                                ELSE call[c]]
    /\ Abandon(Pending(g))
    /\ UNCHANGED <<cmux, executed, route, sockets, queue, misled, cycle>>

Joined(g) == {c \in Calls : call[c].leg = "reconnecting" /\ call[c].client = g}

\* reconnectTransport finds a live path: replaceTransport disconnects the old
\* transport, and each caller throws the error it came with.
ReconnectFinds(g) ==
    LET thrown == [c \in Calls |-> IF c \in Joined(g) THEN Thrown(c, call[c].err)
                                                      ELSE call[c]]
    IN  /\ cmux = "up" /\ reconnecting[g] # "no"
        /\ call' = Joining(thrown, Pending(g), Closed)
        /\ reconnecting' = [reconnecting EXCEPT ![g] = IF Pending(g) = {} THEN "no" ELSE "closed"]
        /\ conn' = [conn EXCEPT ![g] = FALSE]
        /\ Abandon(Pending(g))
        /\ UNCHANGED <<cmux, executed, route, client, queue, misled, cycle>>

\* The promise all callers share rejects with the error it was started with.
ErrorOf(g, c) == reconnecting[g]

\* No live path: every caller that joined throws what the promise throws.
ReconnectFails(g) ==
    /\ reconnecting[g] # "no"
    /\ call' = [c \in Calls |-> IF c \in Joined(g)
                                THEN Thrown(c, ErrorOf(g, c))
                                ELSE call[c]]
    /\ misled' = [c \in Calls |->
                     IF c \in Joined(g) \cap Mutations /\ ErrorOf(g, c) # call[c].err
                     THEN misled[c] \cup {"borrowed"} ELSE misled[c]]
    /\ reconnecting' = [reconnecting EXCEPT ![g] = "no"]
    /\ UNCHANGED <<env, route, conn, client, queue, cycle>>

-----------------------------------------------------------------------------
(* One attempt on the CLI.                                                 *)

CliServes(c) ==
    /\ cmux = "up" /\ call[c].leg = "cli" /\ call[c].sent = "no"
    /\ call' = [call EXCEPT ![c].sent = "served"]
    /\ CountServed(c)
    /\ UNCHANGED <<cmux, late, route, sockets, queue, misled, cycle>>

CliReturns(c) ==
    /\ call[c].leg = "cli" /\ call[c].sent = "served"
    /\ Settle(c)
    /\ UNCHANGED <<env, route, sockets, misled, cycle>>

\* normalizeCliError: "cli_write" stands for the connect and write phases, which
\* it finds in the error's text when the CLI has printed nothing.  cmux may have
\* served the command by then, or may have it still.
CliFails(c, e) ==
    \E left \in BOOLEAN :
       /\ call[c].leg = "cli" /\ (left => c \in Mutations /\ call[c].sent = "no")
       /\ call' = [call EXCEPT ![c] = Thrown(c, e)]
       /\ late' = [late EXCEPT ![c] = @ \/ left]
       /\ misled' = IF c \in Mutations /\ e = "cli_write" /\ (left \/ call[c].sent = "served")
                    THEN [misled EXCEPT ![c] = @ \cup {"cli"}] ELSE misled
       /\ UNCHANGED <<cmux, executed, route, sockets, queue, cycle>>

-----------------------------------------------------------------------------
(* The re-probe cycle.                                                     *)

\* The end of a cycle that changed nothing else: finally startReprobe.
Idle ==
    /\ probe' = "idle" /\ probing' = 0
    /\ timer' = (timer \/ ~stopped)

\* The timer fires: runReprobeCycle, up to its first await.
TimerFires ==
    /\ timer
    /\ IF probe # "idle"
       THEN timer' = FALSE /\ UNCHANGED <<probe, probing>>
       ELSE IF InFlight > 0
       THEN UNCHANGED <<timer, probe, probing>>
       ELSE /\ timer' = FALSE
            /\ probe' = IF route = "socket" THEN "verifying" ELSE "checking"
            /\ probing' = IF route = "socket" THEN client ELSE 0
    /\ UNCHANGED <<env, route, sockets, calls, stopped>>

\* checkSocketHealth tells the truth about cmux, or times out.
HealthOk == cmux = "up"

\* verifyActiveSocket resumes with a usable socket, or too late to judge it.
VerifyKeeps ==
    /\ probe = "verifying"
    /\ HealthOk \/ route # "socket" \/ client # probing \/ InFlight > 0
    /\ Idle
    /\ UNCHANGED <<env, route, sockets, calls, stopped>>

\* verifyActiveSocket resumes with an unusable socket.
VerifyDowngrades ==
    /\ probe = "verifying"
    /\ ~HealthOk /\ route = "socket" /\ client = probing /\ InFlight = 0
    /\ Downgrade(call)
    /\ probe' = "idle" /\ probing' = 0
    /\ UNCHANGED <<cmux, executed, client, queue, misled, stopped>>

\* tryUpgrade resumes from checkSocketHealth.
CheckFails ==
    /\ probe \in {"checking", "pinging"}
    /\ ~HealthOk
    /\ Idle
    /\ UNCHANGED <<env, route, sockets, calls, stopped>>

\* while (this.inFlight > 0) await sleep(10)
Drained == InFlight = 0

CheckOk ==
    /\ probe = "checking" /\ HealthOk
    /\ probe' = IF Drained THEN "pinging" ELSE "draining"
    /\ UNCHANGED <<env, route, sockets, calls, timer, probing, stopped>>

DrainEnds ==
    /\ probe = "draining" /\ Drained
    /\ probe' = "pinging"
    /\ UNCHANGED <<env, route, sockets, calls, timer, probing, stopped>>

\* The new client answers the ping: the delegate is switched.
Upgrades ==
    /\ probe = "pinging" /\ HealthOk
    /\ \E g \in Clients :
          /\ Unused(g) /\ \A h \in Clients : Unused(h) => g <= h
          /\ client' = g
          /\ conn' = [conn EXCEPT ![g] = TRUE]
    /\ route' = "socket"
    /\ timer' = ~stopped
    /\ probe' = "idle"
    /\ UNCHANGED <<env, reconnecting, calls, probing, stopped>>

\* stop().
Stop ==
    /\ "stop" \in Events /\ ~stopped
    /\ stopped' = TRUE
    /\ timer' = FALSE
    /\ IF route = "socket" THEN Disconnect(client, call)
                           ELSE UNCHANGED <<call, reconnecting, conn, late>>
    /\ UNCHANGED <<cmux, executed, route, client, queue, misled, probe, probing>>

CmuxChanges ==
    /\ cmux' \in {"up", "down"} \cup (IF "denial" \in Events THEN {"denying"} ELSE {})
    /\ cmux' # cmux
    /\ UNCHANGED <<executed, late, route, sockets, calls, cycle>>

-----------------------------------------------------------------------------

CallStep(c) ==
    \/ RetryWakes(c) \/ CallThrows(c) \/ RetryThrows(c)
    \/ ConnectFails(c) \/ TimesOut(c)
    \/ CliReturns(c) \/ CliFails(c, "cli_error")

ClientStep(g) == Connects(g) \/ ReconnectFinds(g) \/ ReconnectFails(g)

ProbeStep ==
    \/ TimerFires \/ VerifyKeeps \/ VerifyDowngrades \/ CheckFails
    \/ CheckOk \/ DrainEnds \/ Upgrades

Next ==
    \/ \E c \in Calls :
          \/ Invoke(c) \/ CallStep(c)
          \/ Flush(c) \/ Serve(c) \/ ServeLate(c) \/ Answer(c) \/ Refuse(c)
          \/ CliServes(c) \/ \E e \in CliErrors : CliFails(c, e)
    \/ \E g \in Clients : ClientStep(g) \/ SocketLost(g) \/ RawDenial(g)
    \/ ProbeStep
    \/ Stop
    \/ CmuxChanges

Spec == Init /\ [][Next]_vars

\* Timers fire, requests and subprocesses have timeouts, probes end: a call
\* takes its steps, and so do a reconnect and the re-probe cycle.
FairSpec ==
    /\ Spec
    /\ \A c \in Calls : WF_vars(CallStep(c))
    /\ \A g \in Clients : WF_vars(ReconnectFinds(g) \/ ReconnectFails(g))
    /\ WF_vars(ProbeStep)

-----------------------------------------------------------------------------
(* Properties.                                                             *)

TypeOK ==
    /\ cmux \in {"up", "down", "denying"}
    /\ route \in {"socket", "cli"} /\ client \in Clients
    /\ conn \in [Clients -> BOOLEAN]
    /\ reconnecting \in [Clients -> SocketErrors \cup {"no"}]
    /\ call \in [Calls -> CallStates]
    /\ queue \in Seq(Calls) /\ IsInjective(queue)
    /\ {queue[n] : n \in DOMAIN queue} = {c \in Calls : call[c].at = "replaying"}
    /\ timer \in BOOLEAN /\ stopped \in BOOLEAN
    /\ probe \in {"idle", "verifying", "checking", "draining", "pinging"}
    /\ probing \in Clients \cup {0}
    /\ executed \in [Calls -> Nat] /\ late \in [Calls -> BOOLEAN]
    /\ misled \in [Calls -> SUBSET Misleadings]

\* cmux serves a mutation twice only if the client was misled about one of its
\* attempts: it got the error of another call, the one that had started
\* reconnectTransport, or its CLI command failed as unwritten though cmux had it.
\* The socket's own errors never cause a second one.
DuplicatesExplained ==
    \A c \in Mutations : executed[c] > 1 => misled[c] # {}

\* tests/cmux-transport-self-heal.test.ts:1191: a mutation is not replayed after
\* a post-response transport failure, so cmux serves it at most once, whatever
\* the CLI may tell of its own failures.
MutationsOnce ==
    \A c \in Mutations : "cli" \notin misled[c] => executed[c] <= 1

\* A call that invokeForwarded started on a socket which is no longer the
\* current one is never outstanding once another socket is installed, so its
\* failure cannot downgrade the new one.
FailuresAreCurrent ==
    \A c \in Calls :
        (call[c].at = "calling" /\ call[c].onSocket /\ route = "socket") => call[c].client = client

\* Every forwarded call settles, its replay included: as each is made once, from
\* some time on none is outstanding or waits in the queue.
CallsSettle == <>[](\A c \in Calls : call[c].at \in {"new", "done"})

\* Once cmux stays up and the client is not stopped, the transport returns to
\* the socket and stays there.
Recovers == <>[](cmux = "up" /\ ~stopped) => <>[](route = "socket")

=============================================================================
