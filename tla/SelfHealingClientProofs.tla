---------------------- MODULE SelfHealingClientProofs ----------------------
(***************************************************************************)
(* Proofs about SelfHealingClient, for every number of calls, clients and  *)
(* attempts: its type, that a mutation is served twice only after it was   *)
(* failed with another call's error or by a CLI whose words belie what     *)
(* cmux did, and that no call of an older client is outstanding once       *)
(* another is installed.                                                   *)
(*                                                                         *)
(* The second rests on what a record tells of the bytes of its call: while *)
(* the request may still be written, none of an earlier attempt is left    *)
(* with cmux (Once), which needs that a request waiting for a connection   *)
(* is unwritten (Unwritten).  The third rests on the drain before an       *)
(* upgrade (Drains), and the first on the queue's order (Queued).          *)
(***************************************************************************)
EXTENDS SelfHealingClient, FiniteSetTheorems, WellFoundedInduction, TLAPS

\* The errors after which canRetryPayload replays a mutation.
Retried == {"connect", "write", "cli_write"}

\* A record of a call is of one of the kinds its steps produce.
Legal(r) ==
    /\ r \in CallStates
    /\ r.at \in {"new", "done"} => r.leg = "none"
    /\ r.at = "calling" => r.leg \in {"socket", "reconnecting", "cli", "thrown"}
    /\ r.leg \notin {"socket", "cli"} => r.sent = "no"
    /\ r.leg \in {"socket", "reconnecting"} => r.client \in Clients
    /\ r.leg = "reconnecting" => r.err \in SocketErrors
    /\ r.leg = "thrown" => r.err \in Errors

\* The request of this record may still be written, for the first time or again.
Repeatable(r) ==
    \/ r.at = "new" \/ r.leg = "sleep"
    \/ r.at = "replaying" /\ r.leg = "none"
    \/ r.leg \in {"socket", "cli"} /\ r.sent # "served"
    \/ r.leg \in {"thrown", "reconnecting"} /\ r.err \in Retried

Untouched(c) == executed[c] = 0 /\ ~late[c]

\* A mutation that was failed by its own errors only is served at most once:
\* while it may be written again, none of its bytes was left behind.
Once ==
    \A c \in Mutations : misled[c] = {} =>
        /\ executed[c] <= 1
        /\ late[c] => executed[c] = 0
        /\ Repeatable(call[c]) => Untouched(c)

\* The queue holds the calls being replayed, and only its head is under way.
Queued ==
    /\ queue \in Seq(Calls) /\ IsInjective(queue)
    /\ {queue[n] : n \in DOMAIN queue} = {c \in Calls : call[c].at = "replaying"}
    /\ \A c \in Calls : call[c].at = "replaying" /\ call[c].leg # "none" =>
          queue # <<>> /\ c = Head(queue)

\* A client that is to be installed finds no call of an older one outstanding.
Drains ==
    /\ probe \in {"checking", "draining", "pinging"} => route = "cli"
    /\ probe = "pinging" => \A c \in Calls : ~(call[c].at = "calling" /\ call[c].onSocket)

Typed ==
    /\ cmux \in {"up", "down", "denying"}
    /\ route \in {"socket", "cli"} /\ client \in Clients
    /\ conn \in [Clients -> BOOLEAN]
    /\ reconnecting \in [Clients -> SocketErrors \cup {"no"}]
    /\ timer \in BOOLEAN /\ stopped \in BOOLEAN
    /\ probe \in {"idle", "verifying", "checking", "draining", "pinging"}
    /\ probing \in Clients \cup {0}
    /\ executed \in [Calls -> Nat] /\ late \in [Calls -> BOOLEAN]
    /\ misled \in [Calls -> SUBSET Misleadings]

Recorded == call \in [Calls -> CallStates] /\ \A c \in Calls : Legal(call[c])

\* What waits for a connection has not been written.
UnwrittenFor(c) == call[c].leg = "socket" /\ ~conn[call[c].client] => call[c].sent = "no"
Unwritten == \A c \in Calls : UnwrittenFor(c)

\* The inductive invariant.
IInv == Typed /\ Recorded /\ Unwritten /\ Queued /\ Once /\ Drains /\ FailuresAreCurrent

-----------------------------------------------------------------------------
LEMMA Bounds ==
    /\ MaxAttempts \in Nat /\ 0 \in 0..MaxAttempts /\ 1 \in 0..MaxAttempts
    /\ Mutations \subseteq Calls /\ 0 \notin Clients /\ Clients \subseteq Nat
  BY TransportAssumption

\* The intervals from 0 to a client, ordered by inclusion, have a smallest one.
LEMMA FirstClient == Min(Clients) \in Clients
  <1> DEFINE T == {0..n : n \in Clients}
             R == StrictSubsetOrdering(Nat)
  <1>1. T \subseteq FiniteSubsetsOf(Nat) /\ T # {}
    <2> SUFFICES ASSUME NEW n \in Clients PROVE 0..n \in FiniteSubsetsOf(Nat)
      BY TransportAssumption
    <2> QED
      BY Bounds, FS_Interval DEF FiniteSubsetsOf
  <1>2. IsWellFoundedOn(R, FiniteSubsetsOf(Nat))
    BY FS_StrictSubsetOrderingWellFounded
  <1>3. PICK x \in T : \A y \in T : ~(<<y, x>> \in R)
    <2> HIDE DEF T, R
    <2> QED
      BY <1>1, <1>2, WFMin
  <1>4. PICK m \in Clients : x = 0..m
    OBVIOUS
  <1>5. ASSUME NEW n \in Clients, n < m PROVE FALSE
    <2>1. 0..n \in T /\ 0..n \subseteq 0..m /\ 0..n # 0..m
      BY <1>5, Bounds
    <2>2. <<0..n, x>> \in R
      BY <1>4, <2>1, Bounds DEF StrictSubsetOrdering
    <2> QED
      BY <1>3, <2>1, <2>2
  <1>6. \A n \in Clients : m <= n
    BY <1>5, Bounds
  <1> QED
    BY <1>6 DEF Min

LEMMA NoneInFlight == InFlight = 0 => \A c \in Calls : call[c].at # "calling"
  <1> DEFINE S == {c \in Calls : call[c].at = "calling"}
  <1>1. IsFiniteSet(S)
    BY TransportAssumption, FS_Subset
  <1>2. InFlight = 0 => S = {}
    BY <1>1, FS_EmptySet DEF InFlight
  <1> QED
    BY <1>2

-----------------------------------------------------------------------------
(* The queue. *)

\* q lists the calls in S, each once.
Fifo(q, S) == q \in Seq(Calls) /\ IsInjective(q) /\ {q[n] : n \in DOMAIN q} = S

LEMMA FifoAppend ==
    ASSUME NEW q, NEW S, Fifo(q, S), NEW c \in Calls, c \notin S
    PROVE  Fifo(Append(q, c), S \cup {c}) /\ Append(q, c) # <<>>
           /\ Head(Append(q, c)) = IF q = <<>> THEN c ELSE Head(q)
  <1> DEFINE a == Append(q, c)
  <1>1. /\ q \in Seq(Calls) /\ a \in Seq(Calls) /\ Len(a) = Len(q) + 1 /\ Len(q) \in Nat
        /\ DOMAIN a = 1..Len(a) /\ DOMAIN q = 1..Len(q)
        /\ \A n \in DOMAIN q : a[n] = q[n] /\ q[n] \in S
        /\ a[Len(a)] = c
    BY DEF Fifo
  <1> HIDE DEF a
  <1>2. IsInjective(a)
    BY <1>1 DEF Fifo, IsInjective
  <1>3. {a[n] : n \in DOMAIN a} = S \cup {c}
    BY <1>1 DEF Fifo
  <1>4. a # <<>> /\ Head(a) = IF q = <<>> THEN c ELSE Head(q)
    BY <1>1
  <1> QED
    BY <1>1, <1>2, <1>3, <1>4 DEF Fifo, a

LEMMA FifoTail ==
    ASSUME NEW q, NEW S, Fifo(q, S), q # <<>>
    PROVE  /\ Fifo(Tail(q), S \ {Head(q)}) /\ Head(q) \in S
           /\ Tail(q) # <<>> => Head(Tail(q)) \in S \ {Head(q)}
  <1> DEFINE t == Tail(q)
  <1>1. /\ q \in Seq(Calls) /\ t \in Seq(Calls) /\ Len(t) = Len(q) - 1 /\ Len(q) \in Nat \ {0}
        /\ DOMAIN t = 1..Len(t) /\ DOMAIN q = 1..Len(q) /\ Head(q) = q[1]
        /\ \A n \in DOMAIN t : t[n] = q[n + 1]
    BY DEF Fifo
  <1>2. t # <<>> => Head(t) = t[1] /\ 1 \in DOMAIN t
    BY <1>1
  <1> HIDE DEF t
  <1>3. IsInjective(t)
    BY <1>1 DEF Fifo, IsInjective
  <1>4. {t[n] : n \in DOMAIN t} = S \ {Head(q)}
    <2>1. ASSUME NEW n \in DOMAIN t PROVE t[n] \in S \ {Head(q)}
      BY <1>1 DEF Fifo, IsInjective
    <2>2. ASSUME NEW c \in S, c # Head(q) PROVE \E n \in DOMAIN t : t[n] = c
      <3>1. PICK n \in DOMAIN q : q[n] = c
        BY DEF Fifo
      <3>2. n - 1 \in DOMAIN t /\ t[n - 1] = c
        BY <1>1, <3>1, <2>2
      <3> QED
        BY <3>2
    <2> QED
      BY <2>1, <2>2
  <1>5. Head(q) \in S
    BY <1>1 DEF Fifo
  <1>6. t # <<>> => Head(t) \in S \ {Head(q)}
    BY <1>2, <1>4
  <1> QED
    BY <1>1, <1>3, <1>4, <1>5, <1>6 DEF Fifo, t

LEMMA QueuedIsFifo ==
    Queued <=> /\ Fifo(queue, {c \in Calls : call[c].at = "replaying"})
               /\ \A c \in Calls : call[c].at = "replaying" /\ call[c].leg # "none" =>
                     queue # <<>> /\ c = Head(queue)
  BY DEF Queued, Fifo

-----------------------------------------------------------------------------
(* The record of one call. *)

\* Once, for one call.
OnceFor(c) ==
    c \in Mutations /\ misled[c] = {} =>
        /\ executed[c] <= 1
        /\ late[c] => executed[c] = 0
        /\ Repeatable(call[c]) => Untouched(c)

LEMMA OnceIsFor == Once <=> \A c \in Calls : OnceFor(c)
  BY Bounds DEF Once, OnceFor

\* The record of an attempt that ends in error e: it waits for a reconnect or
\* is thrown.
Failed(r, leg, e) == [r EXCEPT !.leg = leg, !.err = e, !.sent = "no"]

LEMMA AttemptFails ==
    \A r, leg, e :
        /\ Legal(r) /\ r.leg # "none" /\ e \in Errors /\ leg \in {"thrown", "reconnecting"}
        /\ leg = "reconnecting" => e \in SocketErrors /\ r.client \in Clients
        => /\ Legal(Failed(r, leg, e)) /\ Failed(r, leg, e).at = r.at
           /\ Failed(r, leg, e).onSocket = r.onSocket /\ Failed(r, leg, e).client = r.client
           /\ Failed(r, leg, e).leg = leg /\ Failed(r, leg, e).err = e
           /\ Failed(r, leg, e).sent = "no"
  <1> TAKE r, leg, e
  <1> HAVE /\ Legal(r) /\ r.leg # "none" /\ e \in Errors /\ leg \in {"thrown", "reconnecting"}
           /\ leg = "reconnecting" => e \in SocketErrors /\ r.client \in Clients
  <1> DEFINE z == Failed(r, leg, e)
  <1>1. z = [r EXCEPT !.leg = leg, !.err = e, !.sent = "no"]
    BY DEF Failed
  <1> HIDE DEF z
  <1>2. /\ Legal(z) /\ z.at = r.at /\ z.onSocket = r.onSocket
        /\ z.client = r.client /\ z.leg = leg /\ z.err = e /\ z.sent = "no"
    BY <1>1 DEF Legal, CallStates, Legs, Errors
  <1> QED
    BY <1>2 DEF z

-----------------------------------------------------------------------------
(* Types. *)

LEMMA StartedTyped ==
    ASSUME Typed, NEW g \in Clients, NEW S, NEW first \in SocketErrors
    PROVE  [reconnecting EXCEPT ![g] = Started(g, S, first)]
              \in [Clients -> SocketErrors \cup {"no"}]
  BY DEF Typed, Started

LEMMA DisconnectTyped ==
    ASSUME Typed, NEW g \in Clients, NEW cl, Disconnect(g, cl)
    PROVE  conn' \in [Clients -> BOOLEAN] /\ late' \in [Calls -> BOOLEAN]
           /\ reconnecting' \in [Clients -> SocketErrors \cup {"no"}]
  <1>1. "closed" \in SocketErrors
    BY DEF SocketErrors
  <1>2. reconnecting' \in [Clients -> SocketErrors \cup {"no"}]
    BY <1>1, StartedTyped DEF Disconnect
  <1>3. conn' \in [Clients -> BOOLEAN] /\ late' \in [Calls -> BOOLEAN]
    BY DEF Disconnect, Abandon, Typed
  <1> QED
    BY <1>2, <1>3

LEMMA CallStepTyped ==
    ASSUME IInv, NEW c \in Calls,
           \/ Invoke(c) \/ CallStep(c) \/ Flush(c) \/ Serve(c) \/ ServeLate(c) \/ Answer(c)
           \/ Refuse(c) \/ CliServes(c) \/ \E e \in CliErrors : CliFails(c, e)
    PROVE  Typed'
  <1> USE DEF IInv
  <1>1. CASE Invoke(c) \/ RetryWakes(c) \/ RetryThrows(c) \/ CliReturns(c) \/ Flush(c)
             \/ Answer(c) \/ Refuse(c)
    BY <1>1 DEF Typed, Invoke, RetryWakes, RetryThrows, CliReturns, Flush, Answer, Refuse,
                env, sockets, cycle
  <1>2. CASE Serve(c) \/ ServeLate(c) \/ CliServes(c)
    <2>1. executed' \in [Calls -> Nat]
      BY <1>2 DEF Serve, ServeLate, CliServes, CountServed, Typed
    <2>2. late' \in [Calls -> BOOLEAN]
      BY <1>2 DEF Serve, ServeLate, CliServes, Typed
    <2> QED
      BY <1>2, <2>1, <2>2 DEF Typed, Serve, ServeLate, CliServes, sockets, calls, cycle
  <1>5. CASE TimesOut(c)
    BY <1>5 DEF Typed, TimesOut, Abandon, sockets, cycle
  <1>6. CASE \E e \in CliErrors \cup {"cli_error"} : CliFails(c, e)
    BY <1>6 DEF Typed, CliFails, Misleadings, sockets, cycle
  <1>3. CASE CallThrows(c)
    <2>1. CASE UNCHANGED <<route, conn, reconnecting, timer, late>>
      BY <1>3, <2>1 DEF CallThrows, Typed
    <2>2. CASE \E cl : Downgrade(cl)
      <3>1. PICK cl : Downgrade(cl)
        BY <2>2
      <3>2. Disconnect(client, cl)
        BY <3>1 DEF Downgrade
      <3> QED
        BY <1>3, <3>1, <3>2, DisconnectTyped DEF CallThrows, Downgrade, Typed
    <2> QED
      BY <1>3, <2>1, <2>2 DEF CallThrows
  <1>4. CASE ConnectFails(c)
    <2>1. "connect" \in SocketErrors
      BY DEF SocketErrors
    <2> QED
      BY <1>4, <2>1, StartedTyped DEF ConnectFails, env, cycle, Typed
  <1> QED
    BY <1>1, <1>2, <1>3, <1>4, <1>5, <1>6 DEF CallStep

LEMMA ClientStepTyped ==
    ASSUME IInv, NEW g \in Clients, ClientStep(g) \/ SocketLost(g) \/ RawDenial(g)
    PROVE  Typed'
  <1> USE DEF IInv
  <1>1. CASE Connects(g) \/ RawDenial(g)
    BY <1>1 DEF Typed, Connects, RawDenial, Abandon, env, sockets, calls, cycle
  <1>4. CASE ReconnectFails(g)
    BY <1>4 DEF Typed, ReconnectFails, Misleadings, env, cycle
  <1>2. CASE ReconnectFinds(g)
    BY <1>2 DEF Typed, ReconnectFinds, Abandon, cycle, SocketErrors
  <1>3. CASE SocketLost(g)
    <2>1. "write" \in SocketErrors /\ "response" \in SocketErrors
      BY DEF SocketErrors
    <2> QED
      BY <1>3, <2>1, StartedTyped DEF SocketLost, Abandon, cycle, Typed
  <1> QED
    BY <1>1, <1>2, <1>3, <1>4 DEF ClientStep

LEMMA OtherStepTyped ==
    ASSUME IInv, ProbeStep \/ Stop \/ CmuxChanges
    PROVE  Typed'
  <1> USE DEF IInv
  <1>1. CASE TimerFires \/ VerifyKeeps \/ CheckFails \/ CheckOk \/ DrainEnds \/ CmuxChanges
    BY <1>1 DEF Typed, TimerFires, VerifyKeeps, CheckFails, CheckOk, DrainEnds, CmuxChanges, Idle,
                env, sockets, cycle, calls
  <1>2. CASE VerifyDowngrades
    <2>1. Disconnect(client, call)
      BY <1>2 DEF VerifyDowngrades, Downgrade
    <2> QED
      BY <1>2, <2>1, DisconnectTyped DEF VerifyDowngrades, Downgrade, Typed
  <1>3. CASE Upgrades
    BY <1>3 DEF Upgrades, Typed, env, calls
  <1>4. CASE Stop
    <2>1. CASE route = "socket"
      <3>1. Disconnect(client, call)
        BY <1>4, <2>1 DEF Stop
      <3> QED
        BY <1>4, <3>1, DisconnectTyped DEF Stop, Typed
    <2>2. CASE route # "socket"
      BY <1>4, <2>2 DEF Stop, Typed
    <2> QED
      BY <2>1, <2>2
  <1> QED
    BY <1>1, <1>2, <1>3, <1>4 DEF ProbeStep

-----------------------------------------------------------------------------
(* What a step does to one call. *)

\* The call is where it was, for its queue and for the route.
KeptFor(c) ==
    /\ call'[c].at = call[c].at
    /\ call'[c].leg # "none" => call[c].leg # "none"
    /\ call[c].at = "calling" =>
          call'[c].onSocket = call[c].onSocket /\ call'[c].client = call[c].client

Same(c) == executed'[c] = executed[c] /\ late'[c] = late[c] /\ misled'[c] = misled[c]

\* Its attempt ends in error e; one that may be repeated left nothing with cmux,
\* or the client was misled.
Fails(c, leg, e) ==
    /\ call[c].leg # "none" /\ e \in Errors /\ leg \in {"thrown", "reconnecting"}
    /\ leg = "reconnecting" => e \in SocketErrors /\ call[c].client \in Clients
    /\ call'[c] = [call[c] EXCEPT !.leg = leg, !.err = e, !.sent = "no"]
    /\ executed'[c] = executed[c]
    /\ late'[c] = late[c] \/ Repeatable(call[c])
    /\ \/ misled'[c] # {}
       \/ /\ misled'[c] = misled[c]
          /\ c \in Mutations /\ e \in Retried => Repeatable(call[c]) /\ late'[c] = late[c]

\* Only bytes on the wire are left behind, of an attempt that had not been served.
LEMMA AbandonedLate ==
    Typed /\ Recorded =>
        \A S : Abandon(S) => \A c \in Calls : late'[c] = late[c] \/ Repeatable(call[c])
  BY DEF Typed, Recorded, Legal, Abandon, Repeatable

LEMMA Failing ==
    ASSUME Typed, Recorded, NEW c \in Calls, OnceFor(c), NEW leg, NEW e, Fails(c, leg, e)
    PROVE  Legal(call'[c]) /\ OnceFor(c)' /\ UnwrittenFor(c)' /\ KeptFor(c)
  <1> DEFINE z == Failed(call[c], leg, e)
  <1>1. /\ Legal(z) /\ z.at = call[c].at /\ z.onSocket = call[c].onSocket
        /\ z.client = call[c].client /\ z.leg = leg /\ z.err = e /\ z.sent = "no"
    BY AttemptFails DEF Fails, Recorded
  <1>2. call'[c] = z
    BY DEF Fails, Failed
  <1> HIDE DEF z
  <1>3. KeptFor(c) /\ Legal(call'[c])
    BY <1>1, <1>2 DEF KeptFor, Fails
  <1>4. Repeatable(z) => e \in Retried
    BY <1>1 DEF Repeatable, Fails, Legal, Recorded
  <1>6. OnceFor(c)'
    BY <1>2, <1>4 DEF OnceFor, Untouched, Fails, Typed
  <1>7. UnwrittenFor(c)'
    BY <1>1, <1>2 DEF UnwrittenFor
  <1> QED
    BY <1>3, <1>6, <1>7

\* It is left alone, and a connection it has been written to is kept.
Stays(c) ==
    /\ call'[c] = call[c] /\ Same(c)
    /\ call[c].leg = "socket" /\ conn[call[c].client] => conn'[call[c].client]

LEMMA Staying ==
    ASSUME Recorded, NEW c \in Calls, OnceFor(c), UnwrittenFor(c), Stays(c)
    PROVE  Legal(call'[c]) /\ OnceFor(c)' /\ UnwrittenFor(c)' /\ KeptFor(c)
  BY DEF OnceFor, Untouched, UnwrittenFor, Same, Stays, KeptFor, Recorded

\* What the rest of a step keeps.
Kept ==
    /\ queue' = queue /\ client' = client
    /\ route' \in {route, "cli"} /\ probe' \in {probe, "idle"}

LEMMA KeptKeeps ==
    ASSUME IInv, Typed', call' \in [Calls -> CallStates], Kept,
           \A c \in Calls :
              Legal(call'[c]) /\ OnceFor(c)' /\ UnwrittenFor(c)' /\ KeptFor(c)
    PROVE  IInv'
  <1>1. Recorded' /\ Unwritten'
    BY DEF Recorded, Unwritten
  <1>2. Once'
    BY Bounds DEF Once, OnceFor
  <1>3. {c \in Calls : call'[c].at = "replaying"} = {c \in Calls : call[c].at = "replaying"}
    BY DEF KeptFor
  <1>4. Queued'
    BY <1>3 DEF IInv, Queued, KeptFor, Kept
  <1>5. Drains'
    BY DEF IInv, Drains, KeptFor, Kept
  <1>6. FailuresAreCurrent'
    BY DEF IInv, FailuresAreCurrent, KeptFor, Kept
  <1> QED
    BY <1>1, <1>2, <1>4, <1>5, <1>6 DEF IInv

-----------------------------------------------------------------------------
(* Steps of an attempt. *)

LEMMA LegalIsCall == \A r : Legal(r) => r \in CallStates
  BY DEF Legal

\* Each call stays or fails.
LEMMA FailingKeeps ==
    ASSUME IInv, Typed', Kept, call' = [c \in Calls |-> call'[c]],
           \A c \in Calls : Stays(c) \/ \E leg, e : Fails(c, leg, e)
    PROVE  IInv'
  <1>1. \A c \in Calls : OnceFor(c) /\ UnwrittenFor(c)
    BY OnceIsFor DEF IInv, Unwritten
  <1>2. \A c \in Calls : Legal(call'[c]) /\ OnceFor(c)' /\ UnwrittenFor(c)' /\ KeptFor(c)
    BY <1>1, Failing, Staying DEF IInv
  <1>3. call' \in [Calls -> CallStates]
    BY <1>2, LegalIsCall
  <1> QED
    BY <1>2, <1>3, KeptKeeps

LEMMA ConnectFailsKeeps == \A c \in Calls : IInv /\ Typed' /\ ConnectFails(c) => IInv'
  <1> SUFFICES ASSUME NEW c \in Calls, IInv, Typed', ConnectFails(c) PROVE IInv'
    OBVIOUS
  <1> USE DEF IInv
  <1>1. Fails(c, "reconnecting", "connect")
    <2>1. call[c].leg = "socket" /\ call[c].sent = "no" /\ call[c].client \in Clients
      BY DEF ConnectFails, Waiting, Unwritten, UnwrittenFor
    <2>2. call'[c] = [call[c] EXCEPT !.leg = "reconnecting", !.err = "connect", !.sent = "no"]
      BY DEF ConnectFails, Joining
    <2> QED
      BY <2>1, <2>2 DEF ConnectFails, Fails, env, Repeatable, SocketErrors, Errors
  <1>2. \A d \in Calls : d # c => Stays(d)
    BY DEF ConnectFails, Joining, Stays, Same, env
  <1>3. Kept /\ call' = [d \in Calls |-> call'[d]]
    BY DEF ConnectFails, Kept, Joining, cycle
  <1> QED
    BY <1>1, <1>2, <1>3, FailingKeeps

LEMMA RefuseKeeps == \A c \in Calls : IInv /\ Typed' /\ (Refuse(c) \/ TimesOut(c)) => IInv'
  <1> SUFFICES ASSUME NEW c \in Calls, IInv, Typed', Refuse(c) \/ TimesOut(c) PROVE IInv'
    OBVIOUS
  <1> USE DEF IInv
  <1>1. \E e : Fails(c, "thrown", e)
    <2>1. call[c].leg = "socket"
      BY DEF Refuse, TimesOut, Pending
    <2>2. CASE Refuse(c)
      <3>1. Fails(c, "thrown", "refused")
        BY <2>1, <2>2 DEF Refuse, Thrown, Fails, Errors, Retried, env, Recorded
      <3> QED
        BY <3>1
    <2>3. CASE TimesOut(c)
      <3>1. Fails(c, "thrown", "timeout")
        BY <2>1, <2>3, AbandonedLate DEF TimesOut, Thrown, Fails, Errors, Retried, Recorded
      <3> QED
        BY <3>1
    <2> QED
      BY <2>2, <2>3
  <1>2. \A d \in Calls : d # c => Stays(d)
    BY DEF Refuse, TimesOut, Abandon, Stays, Same, env, sockets, Recorded, Typed
  <1>3. Kept /\ call' = [d \in Calls |-> call'[d]]
    BY DEF Refuse, TimesOut, Kept, cycle, sockets, Recorded
  <1> QED
    BY <1>1, <1>2, <1>3, FailingKeeps

LEMMA CliFailsKeeps ==
    \A c \in Calls, e \in CliErrors : IInv /\ Typed' /\ CliFails(c, e) => IInv'
  <1> SUFFICES ASSUME NEW c \in Calls, NEW e \in CliErrors, IInv, Typed', CliFails(c, e)
               PROVE IInv'
    OBVIOUS
  <1> USE DEF IInv
  <1>1. Fails(c, "thrown", e)
    <2>1. PICK left \in BOOLEAN :
             /\ left => c \in Mutations /\ call[c].sent = "no"
             /\ late' = [late EXCEPT ![c] = @ \/ left]
             /\ misled' = IF c \in Mutations /\ e = "cli_write" /\ (left \/ call[c].sent = "served")
                          THEN [misled EXCEPT ![c] = @ \cup {"cli"}] ELSE misled
      BY DEF CliFails
    <2>2. /\ call[c].leg = "cli" /\ executed'[c] = executed[c] /\ e \in Errors
          /\ call'[c] = [call[c] EXCEPT !.leg = "thrown", !.err = e, !.sent = "no"]
      BY DEF CliFails, Thrown, Errors, CliErrors, Recorded
    <2>3. late'[c] = (late[c] \/ left) /\ (left => Repeatable(call[c]))
      BY <2>1, <2>2 DEF Typed, Repeatable
    <2>4. CASE c \in Mutations /\ e = "cli_write" /\ (left \/ call[c].sent = "served")
      <3>1. misled'[c] = misled[c] \cup {"cli"}
        BY <2>1, <2>4 DEF Typed
      <3> QED
        BY <2>2, <2>3, <3>1 DEF Fails, Typed
    <2>5. CASE ~(c \in Mutations /\ e = "cli_write" /\ (left \/ call[c].sent = "served"))
      <3>1. misled' = misled
        BY <2>1, <2>5
      <3>2. e \in Retried => e = "cli_write"
        BY DEF CliErrors, Retried
      <3>3. ~left => late'[c] = late[c]
        BY <2>3 DEF Typed
      <3>4. call[c].sent # "served" => Repeatable(call[c])
        BY <2>2 DEF Repeatable
      <3> QED
        BY <2>2, <2>3, <2>5, <3>1, <3>2, <3>3, <3>4 DEF Fails
    <2> QED
      BY <2>4, <2>5
  <1>2. \A d \in Calls : d # c => Stays(d)
    BY DEF CliFails, Stays, Same, sockets, Recorded, Typed
  <1>3. Kept /\ call' = [d \in Calls |-> call'[d]]
    BY DEF CliFails, Kept, cycle, sockets, Recorded
  <1> QED
    BY <1>1, <1>2, <1>3, FailingKeeps

LEMMA SocketLostKeeps == \A g \in Clients : IInv /\ Typed' /\ SocketLost(g) => IInv'
  <1> SUFFICES ASSUME NEW g \in Clients, IInv, Typed', SocketLost(g) PROVE IInv'
    OBVIOUS
  <1> USE DEF IInv
  <1>1. ASSUME NEW c \in Pending(g) PROVE \E e : Fails(c, "reconnecting", e)
    <2> DEFINE e == IF call[c].sent = "no" THEN "write" ELSE "response"
    <2>1. c \in Calls /\ call[c].leg = "socket" /\ call[c].client = g /\ e \in SocketErrors
      BY DEF Pending, SocketErrors
    <2>2. call'[c] = [call[c] EXCEPT !.leg = "reconnecting", !.err = e, !.sent = "no"]
      BY <2>1 DEF SocketLost, Joining
    <2>3. e \in Retried => Repeatable(call[c]) /\ call[c].sent = "no"
      BY <2>1 DEF Retried, Repeatable
    <2>4. late'[c] = (late[c] \/ (c \in Mutations /\ call[c].sent = "wire"))
      BY <2>1 DEF SocketLost, Abandon
    <2> HIDE DEF e
    <2>5. e \in Retried => late'[c] = late[c]
      BY <2>1, <2>3, <2>4 DEF Typed
    <2>6. Fails(c, "reconnecting", e)
      BY <2>1, <2>2, <2>3, <2>5, AbandonedLate DEF SocketLost, Fails, Errors
    <2> QED
      BY <2>6
  <1>2. \A c \in Calls : c \notin Pending(g) => Stays(c)
    BY DEF SocketLost, Joining, Abandon, Stays, Same, Typed, Pending, Recorded, Legal
  <1>3. Kept /\ call' = [d \in Calls |-> call'[d]]
    BY DEF SocketLost, Joining, Kept, cycle
  <1> QED
    BY <1>1, <1>2, <1>3, FailingKeeps

LEMMA RawDenialKeeps == \A g \in Clients : IInv /\ Typed' /\ RawDenial(g) => IInv'
  <1> SUFFICES ASSUME NEW g \in Clients, IInv, Typed', RawDenial(g) PROVE IInv'
    OBVIOUS
  <1> USE DEF IInv
  <1>1. ASSUME NEW c \in Pending(g) PROVE Fails(c, "thrown", "denied")
    BY AbandonedLate DEF RawDenial, Pending, Thrown, Fails, Errors, Retried
  <1>2. \A c \in Calls : c \notin Pending(g) => Stays(c)
    BY DEF RawDenial, Abandon, Stays, Same, Typed, sockets
  <1>3. Kept /\ call' = [d \in Calls |-> call'[d]]
    BY DEF RawDenial, Kept, cycle, sockets
  <1> QED
    BY <1>1, <1>2, <1>3, FailingKeeps

LEMMA ReconnectKeeps ==
    \A g \in Clients : IInv /\ Typed' /\ (ReconnectFinds(g) \/ ReconnectFails(g)) => IInv'
  <1> SUFFICES ASSUME NEW g \in Clients, IInv, Typed', ReconnectFinds(g) \/ ReconnectFails(g)
               PROVE IInv'
    OBVIOUS
  <1> USE DEF IInv
  <1>1. CASE ReconnectFinds(g)
    <2>1. ASSUME NEW c \in Pending(g) PROVE Fails(c, "reconnecting", "closed")
      BY <1>1, AbandonedLate DEF ReconnectFinds, Joining, Closed, Joined, Pending, Fails,
                  SocketErrors, Errors, Retried
    <2>2. ASSUME NEW c \in Joined(g) PROVE Fails(c, "thrown", call[c].err)
      BY <1>1 DEF ReconnectFinds, Joining, Thrown, Joined, Pending, Abandon, Fails, Errors,
                  Repeatable, Recorded, Legal, Typed
    <2>3. \A c \in Calls : c \notin Pending(g) /\ c \notin Joined(g) => Stays(c)
      BY <1>1 DEF ReconnectFinds, Joining, Abandon, Stays, Same, Typed, Pending, Recorded, Legal
    <2>4. Kept /\ call' = [d \in Calls |-> call'[d]]
      BY <1>1 DEF ReconnectFinds, Joining, Kept, cycle
    <2> QED
      BY <2>1, <2>2, <2>3, <2>4, FailingKeeps
  <1>2. CASE ReconnectFails(g)
    <2>1. ASSUME NEW c \in Joined(g) PROVE \E e : Fails(c, "thrown", e)
      <3> DEFINE e == reconnecting[g]
      <3>1. c \in Calls /\ call[c].leg = "reconnecting" /\ e \in Errors
        BY <1>2 DEF ReconnectFails, Joined, Typed, Errors
      <3>2. call'[c] = [call[c] EXCEPT !.leg = "thrown", !.err = e, !.sent = "no"]
        BY <1>2, <3>1 DEF ReconnectFails, ErrorOf, Thrown
      <3>3. misled'[c] = IF c \in Mutations /\ e # call[c].err
                         THEN misled[c] \cup {"borrowed"} ELSE misled[c]
        BY <1>2, <3>1 DEF ReconnectFails, ErrorOf
      <3> HIDE DEF e
      <3>4. e = call[c].err /\ e \in Retried => Repeatable(call[c])
        BY <3>1 DEF Repeatable
      <3>5. Fails(c, "thrown", e)
        BY <1>2, <3>1, <3>2, <3>3, <3>4 DEF ReconnectFails, Fails, env, Typed
      <3> QED
        BY <3>5
    <2>2. \A c \in Calls : c \notin Joined(g) => Stays(c)
      BY <1>2 DEF ReconnectFails, Stays, Same, Typed, env
    <2>3. Kept /\ call' = [d \in Calls |-> call'[d]]
      BY <1>2 DEF ReconnectFails, Kept, cycle
    <2> QED
      BY <2>1, <2>2, <2>3, FailingKeeps
  <1> QED
    BY <1>1, <1>2

\* A client that is disconnected fails what is pending on it, and nothing else.
LEMMA DisconnectFails ==
    ASSUME IInv, NEW g \in Clients, Disconnect(g, call), UNCHANGED <<executed, misled>>
    PROVE  /\ \A c \in Calls : Stays(c) \/ \E leg, e : Fails(c, leg, e)
           /\ call' = [c \in Calls |-> call'[c]]
  <1> USE DEF IInv
  <1>1. ASSUME NEW c \in Pending(g) PROVE Fails(c, "reconnecting", "closed")
    BY AbandonedLate DEF Disconnect, Joining, Closed, Pending, Fails, SocketErrors, Errors, Retried
  <1>2. \A c \in Calls : c \notin Pending(g) => Stays(c)
    BY DEF Disconnect, Joining, Abandon, Stays, Same, Typed, Pending, Recorded, Legal
  <1> QED
    BY <1>1, <1>2 DEF Disconnect, Joining

LEMMA DisconnectKeeps == IInv /\ Typed' /\ (VerifyDowngrades \/ Stop) => IInv'
  <1> SUFFICES ASSUME IInv, Typed', VerifyDowngrades \/ Stop PROVE IInv'
    OBVIOUS
  <1> USE DEF IInv
  <1>1. CASE VerifyDowngrades
    BY <1>1, DisconnectFails, FailingKeeps DEF VerifyDowngrades, Downgrade, Kept, Typed
  <1>2. CASE Stop /\ route = "socket"
    BY <1>2, DisconnectFails, FailingKeeps DEF Stop, Kept, Typed
  <1>3. CASE Stop /\ route # "socket"
    <2>1. \A c \in Calls : Stays(c)
      BY <1>3 DEF Stop, Stays, Same
    <2>2. Kept /\ call' = [d \in Calls |-> call'[d]]
      BY <1>3 DEF Stop, Kept, Recorded
    <2> QED
      BY <2>1, <2>2, FailingKeeps
  <1> QED
    BY <1>1, <1>2, <1>3

\* A step of call c that leaves the others alone.
LEMMA OneKeeps ==
    ASSUME IInv, Typed', Kept, NEW c \in Calls,
           call' = [d \in Calls |-> call'[d]], \A d \in Calls : d # c => Stays(d),
           Legal(call'[c]), OnceFor(c)', UnwrittenFor(c)', KeptFor(c)
    PROVE  IInv'
  <1>1. \A d \in Calls : OnceFor(d) /\ UnwrittenFor(d)
    BY OnceIsFor DEF IInv, Unwritten
  <1>2. \A d \in Calls : Legal(call'[d]) /\ OnceFor(d)' /\ UnwrittenFor(d)' /\ KeptFor(d)
    BY <1>1, Staying DEF IInv
  <1>3. call' \in [Calls -> CallStates]
    BY <1>2, LegalIsCall
  <1> QED
    BY <1>2, <1>3, KeptKeeps

LEMMA WritesKeep ==
    \A c \in Calls :
        IInv /\ Typed' /\ (Flush(c) \/ Serve(c) \/ ServeLate(c) \/ CliServes(c)) => IInv'
  <1> SUFFICES ASSUME NEW c \in Calls, IInv, Typed',
                      Flush(c) \/ Serve(c) \/ ServeLate(c) \/ CliServes(c)
               PROVE  IInv'
    OBVIOUS
  <1> USE DEF IInv
  <1>1. OnceFor(c) /\ UnwrittenFor(c) /\ Legal(call[c]) /\ call[c] \in CallStates
    BY OnceIsFor DEF Unwritten, Recorded
  <1>2. Kept /\ call' = [d \in Calls |-> call'[d]] /\ \A d \in Calls : d # c => Stays(d)
    BY DEF Flush, Serve, ServeLate, CliServes, CountServed, Kept, Stays, Same, Recorded, Typed, calls, sockets,
           cycle, env
  <1>3. CASE Flush(c)
    <2>1. /\ call[c].leg = "socket" /\ conn[call[c].client] /\ call[c].sent = "no"
          /\ call'[c] = [call[c] EXCEPT !.sent = "wire"]
          /\ UNCHANGED <<conn, executed, late, misled>>
      BY <1>3 DEF Flush, Pending, Recorded, sockets, env
    <2>2. Legal(call'[c]) /\ KeptFor(c)
      BY <1>1, <2>1 DEF Legal, CallStates, KeptFor
    <2>3. OnceFor(c)' /\ UnwrittenFor(c)'
      BY <1>1, <2>1 DEF OnceFor, Untouched, Repeatable, UnwrittenFor, CallStates
    <2> QED
      BY <1>2, <2>2, <2>3, OneKeeps
  <1>4. CASE Serve(c) \/ CliServes(c)
    <2>1. /\ call[c].leg \in {"socket", "cli"} /\ call[c].sent # "served"
          /\ call[c].leg = "socket" => conn[call[c].client]
          /\ call'[c] = [call[c] EXCEPT !.sent = "served"]
          /\ c \in Mutations => executed'[c] = executed[c] + 1 /\ executed[c] \in Nat
          /\ UNCHANGED <<conn, late, misled>>
      BY <1>4 DEF Serve, CliServes, CountServed, Pending, Recorded, sockets, Typed
    <2>2. Legal(call'[c]) /\ KeptFor(c)
      BY <1>1, <2>1 DEF Legal, CallStates, KeptFor
    <2>3. OnceFor(c)' /\ UnwrittenFor(c)'
      <3>1. Repeatable(call[c]) /\ ~Repeatable(call'[c])
        BY <1>1, <2>1 DEF Repeatable, CallStates, Legal
      <3>2. UnwrittenFor(c)'
        BY <1>1, <2>1 DEF UnwrittenFor, CallStates
      <3> QED
        BY <1>1, <2>1, <3>1, <3>2 DEF OnceFor, Untouched
    <2> QED
      BY <1>2, <2>2, <2>3, OneKeeps
  <1>5. CASE ServeLate(c)
    <2>1. /\ late[c] /\ ~late'[c]
          /\ c \in Mutations => executed'[c] = executed[c] + 1 /\ executed[c] \in Nat
          /\ UNCHANGED <<conn, misled, call>>
      BY <1>5 DEF ServeLate, CountServed, sockets, Typed, calls
    <2>2. Legal(call'[c]) /\ KeptFor(c) /\ OnceFor(c)' /\ UnwrittenFor(c)'
      BY <1>1, <2>1 DEF KeptFor, OnceFor, Untouched, UnwrittenFor
    <2> QED
      BY <1>2, <2>2, OneKeeps
  <1> QED
    BY <1>3, <1>4, <1>5

LEMMA RetriesKeep ==
    \A c \in Calls :
        /\ IInv /\ Typed'
        /\ \/ RetryWakes(c)
           \/ RetryThrows(c) /\ call[c].tries + 1 < MaxAttempts /\ canRetryPayload(c, call[c].err)
        => IInv'
  <1> SUFFICES ASSUME NEW c \in Calls, IInv, Typed',
                      \/ RetryWakes(c)
                      \/ /\ RetryThrows(c) /\ call[c].tries + 1 < MaxAttempts
                         /\ canRetryPayload(c, call[c].err)
               PROVE  IInv'
    OBVIOUS
  <1> USE DEF IInv
  <1>1. OnceFor(c) /\ UnwrittenFor(c) /\ Legal(call[c]) /\ call[c] \in CallStates
    BY OnceIsFor DEF Unwritten, Recorded
  <1>2. Kept /\ call' = [d \in Calls |-> call'[d]] /\ \A d \in Calls : d # c => Stays(d)
    BY DEF RetryWakes, RetryThrows, Kept, Stays, Same, Recorded, Typed, sockets, cycle, env
  <1>3. CASE RetryWakes(c)
    <2>1. /\ call[c].leg = "sleep" /\ call[c].at = "replaying"
          /\ call'[c] = Attempt(c) /\ UNCHANGED <<conn, executed, late, misled>>
          /\ client \in Clients
      BY <1>1, <1>3 DEF RetryWakes, sockets, env, Legal, CallStates, Recorded, Typed
    <2>2. Legal(call'[c]) /\ KeptFor(c) /\ call'[c].sent = "no"
      BY <1>1, <2>1 DEF Legal, CallStates, KeptFor, Attempt, Legs
    <2>3. OnceFor(c)' /\ UnwrittenFor(c)'
      BY <1>1, <2>1, <2>2 DEF OnceFor, Untouched, Repeatable, UnwrittenFor
    <2> QED
      BY <1>2, <2>2, <2>3, OneKeeps
  <1>4. CASE /\ RetryThrows(c) /\ call[c].tries + 1 < MaxAttempts
             /\ canRetryPayload(c, call[c].err)
    <2>1. /\ call[c].leg = "thrown" /\ call[c].at = "replaying"
          /\ call'[c] = [Fresh EXCEPT !.at = "replaying", !.leg = "sleep", !.tries = call[c].tries + 1]
          /\ UNCHANGED <<conn, executed, late, misled>>
          /\ c \in Mutations => call[c].err \in Retried
          /\ call[c].tries + 1 \in 0..MaxAttempts
      BY <1>1, <1>4, Bounds DEF RetryThrows, sockets, env, canRetryPayload, Retried, Recorded,
                                CallStates
    <2>2. Legal(call'[c]) /\ KeptFor(c) /\ call'[c].leg = "sleep"
      BY <1>1, <2>1 DEF Legal, CallStates, KeptFor, Fresh, Legs
    <2>3. OnceFor(c)' /\ UnwrittenFor(c)'
      BY <1>1, <2>1, <2>2 DEF OnceFor, Untouched, Repeatable, UnwrittenFor
    <2> QED
      BY <1>2, <2>2, <2>3, OneKeeps
  <1> QED
    BY <1>3, <1>4

\* Steps that touch no call.
LEMMA QuietKeeps ==
    ASSUME IInv, Typed', UNCHANGED <<env, route, calls, client>>,
           \A g \in Clients : conn[g] => conn'[g],
           \/ probe' \in {probe, "idle", "verifying"}
           \/ probe' \in {"checking", "draining"} /\ route = "cli"
           \/ probe' = "pinging" /\ route = "cli" /\ InFlight = 0
    PROVE  IInv'
  <1> USE DEF IInv
  <1>1. UNCHANGED <<call, queue, executed, late, misled, route, client>>
    BY DEF env, calls
  <1>2. Recorded' /\ Queued' /\ Once' /\ FailuresAreCurrent'
    BY <1>1 DEF Recorded, Queued, Once, Untouched, FailuresAreCurrent
  <1>3. Unwritten'
    BY <1>1 DEF Unwritten, UnwrittenFor, Recorded, Legal
  <1>4. Drains'
    BY <1>1, NoneInFlight DEF Drains
  <1> QED
    BY <1>2, <1>3, <1>4

LEMMA QuietStepsKeep ==
    /\ IInv /\ Typed'
    /\ \/ TimerFires \/ VerifyKeeps \/ CheckFails \/ CheckOk \/ DrainEnds \/ CmuxChanges
       \/ \E g \in Clients : Connects(g)
    => IInv'
  <1> SUFFICES ASSUME IInv, Typed',
                      \/ TimerFires \/ VerifyKeeps \/ CheckFails \/ CheckOk \/ DrainEnds
                      \/ CmuxChanges \/ \E g \in Clients : Connects(g)
               PROVE  IInv'
    OBVIOUS
  <1> USE DEF IInv
  <1>1. CASE TimerFires \/ VerifyKeeps \/ CheckFails \/ CheckOk \/ DrainEnds
    BY <1>1, QuietKeeps DEF TimerFires, VerifyKeeps, CheckFails, CheckOk, DrainEnds, Idle, Drained,
                            sockets, Drains, Typed
  <1>2. CASE \E g \in Clients : Connects(g)
    BY <1>2, QuietKeeps DEF Connects, cycle, Typed
  <1>3. CASE CmuxChanges
    <2>1. UNCHANGED <<call, queue, executed, late, misled, route, client, conn, probe>>
      BY <1>3 DEF CmuxChanges, sockets, calls, cycle
    <2> QED
      BY <2>1 DEF Recorded, Queued, Once, Untouched, FailuresAreCurrent, Unwritten, UnwrittenFor,
                  Drains
  <1> QED
    BY <1>1, <1>2, <1>3

\* The drained client takes over.
LEMMA UpgradesKeep == IInv /\ Typed' /\ Upgrades => IInv'
  <1> SUFFICES ASSUME IInv, Typed', Upgrades PROVE IInv'
    OBVIOUS
  <1> USE DEF IInv
  <1>1. PICK g \in Clients : conn' = [conn EXCEPT ![g] = TRUE]
    BY DEF Upgrades
  <1>2. UNCHANGED <<call, queue, executed, late, misled>> /\ probe' = "idle"
    BY DEF Upgrades, env, calls
  <1>3. Recorded' /\ Queued' /\ Once' /\ Drains'
    BY <1>2 DEF Recorded, Queued, Once, Untouched, Drains
  <1>4. Unwritten'
    BY <1>1, <1>2 DEF Unwritten, UnwrittenFor, Recorded, Legal, Typed
  <1>5. FailuresAreCurrent'
    BY <1>2 DEF Upgrades, FailuresAreCurrent, Drains
  <1> QED
    BY <1>3, <1>4, <1>5

LEMMA InvokeKeeps == \A c \in Calls : IInv /\ Typed' /\ Invoke(c) => IInv'
  <1> SUFFICES ASSUME NEW c \in Calls, IInv, Typed', Invoke(c) PROVE IInv'
    OBVIOUS
  <1> USE DEF IInv
  <1> DEFINE z == [Attempt(c) EXCEPT !.at = "calling", !.onSocket = (route = "socket")]
  <1>1. /\ call' = [call EXCEPT ![c] = z] /\ call[c].at = "new"
        /\ UNCHANGED <<queue, executed, late, misled, conn, client, route, probe>>
    BY DEF Invoke, env, sockets, cycle
  <1>2. /\ Legal(z) /\ z.at = "calling" /\ z.sent = "no" /\ z.onSocket = (route = "socket")
        /\ z.onSocket => z.client = client
    <2> DEFINE a == Attempt(c)
    <2>1. /\ a \in CallStates /\ a.sent = "no" /\ a.leg \in {"socket", "cli"}
          /\ a.leg = "socket" => a.client \in Clients
          /\ route = "socket" => a.client = client
      <3>1. call[c] \in CallStates /\ route \in {"socket", "cli"} /\ client \in Clients
        BY DEF Recorded, Typed
      <3>2. CASE route = "socket"
        <4>1. a = [call[c] EXCEPT !.leg = "socket", !.client = client, !.sent = "no"]
          BY <3>2 DEF Attempt
        <4> QED
          BY <3>1, <4>1 DEF CallStates, Legs
      <3>3. CASE route = "cli"
        <4>1. a = [call[c] EXCEPT !.leg = "cli", !.client = 0, !.sent = "no"]
          BY <3>3 DEF Attempt
        <4> QED
          BY <3>1, <3>3, <4>1 DEF CallStates, Legs
      <3> QED
        BY <3>1, <3>2, <3>3
    <2> HIDE DEF a
    <2>2. z = [a EXCEPT !.at = "calling", !.onSocket = (route = "socket")]
      BY DEF a
    <2>3. (route = "socket") \in BOOLEAN
      OBVIOUS
    <2> HIDE DEF z
    <2>4. /\ z \in CallStates /\ z.at = "calling" /\ z.onSocket = (route = "socket")
          /\ z.sent = a.sent /\ z.leg = a.leg /\ z.client = a.client
      BY <2>1, <2>2, <2>3 DEF CallStates
    <2> QED
      BY <2>1, <2>4 DEF Legal
  <1> HIDE DEF z
  <1>3. call'[c] = z /\ \A d \in Calls : d # c => call'[d] = call[d]
    BY <1>1 DEF Recorded
  <1>4. Recorded'
    BY <1>1, <1>2, <1>3, LegalIsCall DEF Recorded
  <1>5. Queued'
    <2>1. {d \in Calls : call'[d].at = "replaying"} = {d \in Calls : call[d].at = "replaying"}
      BY <1>1, <1>2, <1>3
    <2> QED
      BY <1>1, <1>2, <1>3, <2>1 DEF Queued
  <1>6. Once' /\ Unwritten'
    <2>1. ASSUME NEW d \in Calls PROVE OnceFor(d)' /\ UnwrittenFor(d)'
      <3>1. OnceFor(d) /\ UnwrittenFor(d)
        BY OnceIsFor DEF Unwritten
      <3> QED
        BY <1>1, <1>2, <1>3, <3>1 DEF OnceFor, Untouched, Repeatable, UnwrittenFor
    <2> QED
      BY <2>1, Bounds DEF Once, OnceFor, Unwritten
  <1>7. Drains' /\ FailuresAreCurrent'
    BY <1>1, <1>2, <1>3 DEF Drains, FailuresAreCurrent
  <1> QED
    BY <1>4, <1>5, <1>6, <1>7

-----------------------------------------------------------------------------
(* The end of a call, and of a replay. *)

\* Every record is as it should be, and no call has changed its client.
LEMMA RecordsKeep ==
    ASSUME IInv, Typed', Queued', call' = [c \in Calls |-> call'[c]],
           client' = client, route' \in {route, "cli"}, probe' \in {probe, "idle"},
           \A c \in Calls :
              /\ Legal(call'[c]) /\ OnceFor(c)' /\ UnwrittenFor(c)'
              /\ KeptFor(c) \/ call'[c].at # "calling"
    PROVE  IInv'
  <1>1. Recorded' /\ Unwritten'
    BY LegalIsCall DEF Recorded, Unwritten
  <1>2. Once'
    BY Bounds DEF Once, OnceFor
  <1>3. Drains' /\ FailuresAreCurrent'
    BY DEF IInv, Drains, FailuresAreCurrent, KeptFor
  <1> QED
    BY <1>1, <1>2, <1>3 DEF IInv

\* A call leaves invokeForwarded: it is settled, or its payload is queued.
LEMMA CallEnds ==
    ASSUME IInv, Typed', NEW c \in Calls, call[c].at = "calling",
           call' = [d \in Calls |-> call'[d]],
           client' = client, route' \in {route, "cli"}, probe' = probe,
           \A d \in Calls : d # c => Stays(d) \/ \E leg, e : Fails(d, leg, e),
           Legal(call'[c]), OnceFor(c)', UnwrittenFor(c)',
           \/ call'[c].at = "done" /\ queue' = queue
           \/ /\ call'[c].at = "replaying" /\ queue' = Append(queue, c)
              /\ call'[c].leg # "none" => queue = <<>>
    PROVE  IInv'
  <1> USE DEF IInv
  <1> DEFINE S == {d \in Calls : call[d].at = "replaying"}
             T == {d \in Calls : call'[d].at = "replaying"}
  <1>1. \A d \in Calls : OnceFor(d) /\ UnwrittenFor(d)
    BY OnceIsFor DEF Unwritten
  <1>2. \A d \in Calls : d # c => Legal(call'[d]) /\ OnceFor(d)' /\ UnwrittenFor(d)' /\ KeptFor(d)
    BY <1>1, Failing, Staying
  <1>3. \A d \in Calls : d # c => call'[d].at = call[d].at /\ (call'[d].leg # "none" => call[d].leg # "none")
    BY <1>2 DEF KeptFor
  <1>4. Fifo(queue, S) /\ c \notin S
        /\ \A d \in S : call[d].leg # "none" => queue # <<>> /\ d = Head(queue)
    BY QueuedIsFifo
  <1>5. Queued'
    <2>1. CASE call'[c].at = "done" /\ queue' = queue
      <3>1. T = S
        BY <1>3, <1>4, <2>1
      <3> QED
        BY <1>3, <1>4, <2>1, <3>1 DEF Queued, Fifo
    <2>2. CASE /\ call'[c].at = "replaying" /\ queue' = Append(queue, c)
               /\ call'[c].leg # "none" => queue = <<>>
      <3>1. T = S \cup {c}
        BY <1>3, <1>4, <2>2
      <3> HIDE DEF S
      <3>2. /\ Fifo(queue', S \cup {c}) /\ queue' # <<>>
            /\ Head(queue') = IF queue = <<>> THEN c ELSE Head(queue)
        BY <1>4, <2>2, FifoAppend
      <3>3. ASSUME NEW d \in Calls, call'[d].at = "replaying", call'[d].leg # "none"
            PROVE  queue' # <<>> /\ d = Head(queue')
        <4>1. CASE d = c
          BY <2>2, <3>2, <3>3, <4>1
        <4>2. CASE d # c
          <5>1. d \in S /\ call[d].leg # "none"
            BY <1>3, <3>3, <4>2 DEF S
          <5> QED
            BY <1>4, <3>2, <5>1
        <4> QED
          BY <4>1, <4>2
      <3>4. Fifo(queue', T)
        BY <3>1, <3>2
      <3> QED
        BY <3>3, <3>4 DEF Queued, Fifo
    <2> QED
      BY <2>1, <2>2
  <1>6. \A d \in Calls : /\ Legal(call'[d]) /\ OnceFor(d)' /\ UnwrittenFor(d)'
                         /\ KeptFor(d) \/ call'[d].at # "calling"
    BY <1>2
  <1> QED
    BY <1>5, <1>6, RecordsKeep

LEMMA DoneRecord == Legal([Fresh EXCEPT !.at = "done"])
  BY Bounds DEF Legal, Fresh, CallStates, Legs

\* A replay settles: the next payload in the queue is begun.
LEMMA ReplayEnds ==
    ASSUME IInv, Typed', NEW c \in Calls, call[c].at = "replaying", call[c].leg # "none",
           Settle(c), UNCHANGED <<executed, late, misled, conn, client, route, probe>>
    PROVE  IInv'
  <1> USE DEF IInv
  <1> DEFINE S == {d \in Calls : call[d].at = "replaying"}
             T == {d \in Calls : call'[d].at = "replaying"}
             t == Tail(queue)
  <1>1. \A d \in Calls : OnceFor(d) /\ UnwrittenFor(d) /\ Legal(call[d]) /\ call[d] \in CallStates
    BY OnceIsFor DEF Unwritten, Recorded
  <1>2. Fifo(queue, S) /\ c \in S /\ queue # <<>> /\ c = Head(queue)
        /\ \A d \in S : call[d].leg # "none" => d = c
    BY QueuedIsFifo
  <1>3. Fifo(t, S \ {c}) /\ (t # <<>> => Head(t) \in S \ {c})
    <2> HIDE DEF S, t
    <2> QED
      BY <1>2, FifoTail DEF t
  <1>4. /\ queue' = t /\ call'[c] = [Fresh EXCEPT !.at = "done"]
        /\ \A d \in Calls : d # c =>
              call'[d] = IF t # <<>> /\ d = Head(t)
                         THEN [call[d] EXCEPT !.leg = "sleep", !.tries = 1] ELSE call[d]
        /\ call' = [d \in Calls |-> call'[d]]
    BY DEF Settle, Settled, AfterHead
  <1> HIDE DEF t
  <1>5. ASSUME NEW d \in Calls, d # c, t # <<>>, d = Head(t)
        PROVE  /\ call'[d].at = "replaying" /\ call'[d].leg = "sleep" /\ call'[d].sent = "no"
               /\ call[d].leg = "none" /\ call[d].at = "replaying" /\ Legal(call'[d])
    <2>1. d \in S /\ call[d].leg = "none"
      BY <1>2, <1>3, <1>5
    <2>2. call'[d] = [call[d] EXCEPT !.leg = "sleep", !.tries = 1]
      BY <1>4, <1>5
    <2> QED
      BY <1>1, <2>1, <2>2, Bounds DEF Legal, CallStates, Legs
  <1>6. \A d \in Calls : d # c => call'[d].at = call[d].at
    BY <1>4, <1>5
  <1>7. T = S \ {c}
    BY <1>4, <1>6 DEF Fresh
  <1>8. Queued'
    <2>1. \A d \in T : call'[d].leg # "none" => t # <<>> /\ d = Head(t)
      BY <1>2, <1>4, <1>7
    <2>2. Fifo(queue', T)
      BY <1>3, <1>4, <1>7
    <2>3. t = queue'
      BY <1>4
    <2> QED
      BY <2>1, <2>2, <2>3 DEF Queued, Fifo
  <1>9. ASSUME NEW d \in Calls
        PROVE  /\ Legal(call'[d]) /\ OnceFor(d)' /\ UnwrittenFor(d)'
               /\ KeptFor(d) \/ call'[d].at # "calling"
    <2>1. CASE d = c
      BY <1>1, <1>4, <2>1, DoneRecord DEF OnceFor, Untouched, Repeatable, UnwrittenFor, Fresh
    <2>2. CASE d # c /\ t # <<>> /\ d = Head(t)
      BY <1>1, <1>5, <2>2 DEF OnceFor, Untouched, Repeatable, UnwrittenFor
    <2>3. CASE d # c /\ ~(t # <<>> /\ d = Head(t))
      BY <1>1, <1>4, <2>3 DEF OnceFor, Untouched, UnwrittenFor, KeptFor
    <2> QED
      BY <2>1, <2>2, <2>3
  <1> QED
    BY <1>4, <1>8, <1>9, RecordsKeep

\* An answer, or a replay given up.
LEMMA SettleKeeps ==
    ASSUME IInv, Typed', NEW c \in Calls, call[c].leg # "none", call[c].at \in {"calling", "replaying"},
           Settle(c), UNCHANGED <<executed, late, misled, conn, client, route, probe>>
    PROVE  IInv'
  <1>1. CASE call[c].at = "calling"
    <2>1. /\ call'[c] = [Fresh EXCEPT !.at = "done"] /\ queue' = queue
          /\ \A d \in Calls : d # c => call'[d] = call[d]
          /\ call' = [d \in Calls |-> call'[d]]
      BY <1>1 DEF Settle, Settled
    <2>2. Legal(call'[c]) /\ OnceFor(c)' /\ UnwrittenFor(c)' /\ call'[c].at = "done"
      BY <2>1, DoneRecord, OnceIsFor DEF IInv, OnceFor, Repeatable, UnwrittenFor, Fresh
    <2>3. \A d \in Calls : d # c => Stays(d)
      BY <2>1 DEF Stays, Same
    <2> QED
      BY <1>1, <2>1, <2>2, <2>3, CallEnds
  <1>2. CASE call[c].at = "replaying"
    BY <1>2, ReplayEnds
  <1> QED
    BY <1>1, <1>2

LEMMA ReturnsKeep ==
    \A c \in Calls :
        IInv /\ Typed' /\ (Answer(c) \/ CliReturns(c) \/ RetryThrows(c)) => IInv'
  <1> SUFFICES ASSUME NEW c \in Calls, IInv, Typed', Answer(c) \/ CliReturns(c) \/ RetryThrows(c)
               PROVE  IInv'
    OBVIOUS
  <1>1. UNCHANGED <<executed, late, misled, conn, client, route, probe>>
    BY DEF Answer, CliReturns, RetryThrows, env, sockets, cycle
  <1>2. Legal(call[c])
    BY DEF IInv, Recorded
  <1>3. CASE Answer(c) \/ CliReturns(c)
    <2>1. Settle(c) /\ call[c].leg \in {"socket", "cli"}
      BY <1>3 DEF Answer, CliReturns, Pending
    <2>2. call[c].at \in {"calling", "replaying"}
      BY <1>2, <2>1 DEF Legal, CallStates
    <2> QED
      BY <1>1, <2>1, <2>2, SettleKeeps
  <1>4. CASE RetryThrows(c)
    <2>1. CASE call[c].tries + 1 < MaxAttempts /\ canRetryPayload(c, call[c].err)
      BY <1>4, <2>1, RetriesKeep
    <2>2. CASE ~(call[c].tries + 1 < MaxAttempts /\ canRetryPayload(c, call[c].err))
      <3>1. Settle(c) /\ call[c].leg = "thrown" /\ call[c].at = "replaying"
        BY <1>4, <2>2 DEF RetryThrows
      <3> QED
        BY <1>1, <3>1, SettleKeeps
    <2> QED
      BY <2>1, <2>2
  <1> QED
    BY <1>3, <1>4

LEMMA CallThrowsKeeps == \A c \in Calls : IInv /\ Typed' /\ CallThrows(c) => IInv'
  <1> SUFFICES ASSUME NEW c \in Calls, IInv, Typed', CallThrows(c) PROVE IInv'
    OBVIOUS
  <1> USE DEF IInv
  <1> DEFINE retry == canRetryPayload(c, call[c].err)
             queued == [Fresh EXCEPT !.at = "replaying",
                                     !.leg = IF queue = <<>> THEN "sleep" ELSE "none",
                                     !.tries = IF queue = <<>> THEN 1 ELSE 0]
             next == IF retry THEN [call EXCEPT ![c] = queued] ELSE Settled(c)
  <1>1. /\ call[c].at = "calling" /\ call[c].leg = "thrown"
        /\ queue' = IF retry THEN Append(queue, c) ELSE queue
        /\ UNCHANGED <<executed, client, misled, probe>>
        /\ \/ Downgrade(next)
           \/ call' = next /\ UNCHANGED <<route, conn, late>>
    BY DEF CallThrows
  <1>2. next = [d \in Calls |-> next[d]] /\ \A d \in Calls : d # c => next[d] = call[d]
    BY <1>1 DEF Settled, Recorded
  <1>3. next[c] = IF retry THEN queued ELSE [Fresh EXCEPT !.at = "done"]
    BY <1>1 DEF Settled, Recorded
  <1>4. Legal(queued) /\ queued.at = "replaying" /\ queued.leg \in {"sleep", "none"}
        /\ (queued.leg # "none" => queue = <<>>)
    BY Bounds DEF Legal, Fresh, CallStates, Legs
  <1> HIDE DEF next, queued
  <1>5. /\ call'[c] = next[c] /\ late'[c] = late[c] /\ client' = client /\ route' \in {route, "cli"}
        /\ call' = [d \in Calls |-> call'[d]]
        /\ \A d \in Calls : d # c => Stays(d) \/ \E leg, e : Fails(d, leg, e)
    <2>1. CASE Downgrade(next)
      <3>1. c \notin Pending(client)
        BY <1>1 DEF Pending
      <3>2. ASSUME NEW d \in Pending(client) PROVE Fails(d, "reconnecting", "closed")
        BY <1>1, <1>2, <2>1, <3>1, AbandonedLate DEF Downgrade, Disconnect, Joining, Closed,
              Pending, Fails, SocketErrors, Errors, Retried, Typed
      <3>3. ASSUME NEW d \in Calls, d \notin Pending(client)
            PROVE  call'[d] = next[d] /\ late'[d] = late[d] /\ (d # c => Stays(d))
        <4>1. call'[d] = next[d] /\ (d # c => call'[d] = call[d])
          BY <1>2, <2>1, <3>3 DEF Downgrade, Disconnect, Joining
        <4>2. late'[d] = late[d]
          BY <2>1, <3>3 DEF Downgrade, Disconnect, Abandon, Typed
        <4>3. /\ executed'[d] = executed[d] /\ misled'[d] = misled[d]
              /\ conn' = [conn EXCEPT ![client] = FALSE]
          BY <1>1, <2>1 DEF Downgrade, Disconnect
        <4>4. call[d].leg = "socket" /\ conn[call[d].client] => conn'[call[d].client]
          BY <3>3, <4>3 DEF Pending, Typed, Recorded, Legal
        <4> QED
          BY <4>1, <4>2, <4>3, <4>4 DEF Stays, Same
      <3>4. call' = [d \in Calls |-> call'[d]] /\ route' = "cli"
        BY <2>1 DEF Downgrade, Disconnect, Joining
      <3> QED
        BY <1>1, <3>1, <3>2, <3>3, <3>4
    <2>2. CASE call' = next /\ UNCHANGED <<route, conn, late>>
      BY <1>1, <1>2, <2>2 DEF Stays, Same
    <2> QED
      BY <1>1, <2>1, <2>2
  <1>6. OnceFor(c) /\ (retry /\ c \in Mutations => Repeatable(call[c]))
    BY <1>1, OnceIsFor DEF canRetryPayload, Repeatable, Retried
  <1>7. Legal(call'[c]) /\ UnwrittenFor(c)' /\ call'[c].at # "calling"
    BY <1>3, <1>4, <1>5, DoneRecord DEF UnwrittenFor, Fresh
  <1>8. OnceFor(c)'
    <2>1. CASE retry
      BY <1>1, <1>5, <1>6, <2>1 DEF OnceFor, Untouched
    <2>2. CASE ~retry
      BY <1>1, <1>3, <1>5, <1>6, <2>2 DEF OnceFor, Untouched, Repeatable, Fresh
    <2> QED
      BY <2>1, <2>2
  <1>9. \/ call'[c].at = "done" /\ queue' = queue
        \/ /\ call'[c].at = "replaying" /\ queue' = Append(queue, c)
           /\ call'[c].leg # "none" => queue = <<>>
    BY <1>1, <1>3, <1>4, <1>5 DEF Fresh
  <1> HIDE DEF retry, IInv
  <1> QED
    BY <1>1, <1>5, <1>7, <1>8, <1>9, CallEnds

-----------------------------------------------------------------------------

LEMMA InitIInv == Init => IInv
  <1> SUFFICES ASSUME Init PROVE IInv
    OBVIOUS
  <1>1. Typed
    BY FirstClient DEF Init, Typed
  <1>2. Recorded
    BY Bounds DEF Init, Recorded, Legal, Fresh, CallStates, Legs
  <1>3. Queued
    BY DEF Init, Queued, Fresh, IsInjective
  <1>4. Unwritten /\ Once /\ Drains /\ FailuresAreCurrent
    BY Bounds DEF Init, Unwritten, UnwrittenFor, Once, Untouched, Drains, FailuresAreCurrent, Fresh
  <1> QED
    BY <1>1, <1>2, <1>3, <1>4 DEF IInv

LEMMA NextKeeps == IInv /\ Next => IInv'
  <1> SUFFICES ASSUME IInv, Next PROVE IInv'
    OBVIOUS
  <1>1. ASSUME NEW c \in Calls,
               \/ Invoke(c) \/ CallStep(c) \/ Flush(c) \/ Serve(c) \/ ServeLate(c) \/ Answer(c)
               \/ Refuse(c) \/ CliServes(c) \/ \E e \in CliErrors : CliFails(c, e)
        PROVE  IInv'
    <2>1. Typed'
      BY <1>1, CallStepTyped
    <2>2. "cli_error" \in CliErrors
      BY DEF CliErrors
    <2> QED
      BY <1>1, <2>1, <2>2, InvokeKeeps, RetriesKeep, CallThrowsKeeps, ReturnsKeep, ConnectFailsKeeps,
         RefuseKeeps, CliFailsKeeps, WritesKeep
         DEF CallStep
  <1>2. ASSUME NEW g \in Clients, ClientStep(g) \/ SocketLost(g) \/ RawDenial(g) PROVE IInv'
    BY <1>2, ClientStepTyped, ReconnectKeeps, SocketLostKeeps, RawDenialKeeps, QuietStepsKeep
       DEF ClientStep
  <1>3. CASE ProbeStep \/ Stop \/ CmuxChanges
    BY <1>3, OtherStepTyped, DisconnectKeeps, UpgradesKeep, QuietStepsKeep DEF ProbeStep
  <1> QED
    BY <1>1, <1>2, <1>3 DEF Next

LEMMA StutterKeeps == IInv /\ UNCHANGED vars => IInv'
  BY DEF vars, env, sockets, calls, cycle, IInv, Typed, Recorded, Unwritten, UnwrittenFor, Queued,
         Once, Untouched, Drains, FailuresAreCurrent

LEMMA IInvariant == Spec => []IInv
  <1>1. IInv /\ [Next]_vars => IInv'
    BY NextKeeps, StutterKeeps
  <1> QED
    BY InitIInv, <1>1, PTL DEF Spec

\* Every variable stays in its type: in particular failedPayloadQueue holds the
\* calls whose payload is being replayed, each once.
THEOREM TypeCorrect == Spec => []TypeOK
  <1>1. IInv => TypeOK
    BY DEF IInv, Typed, Recorded, Queued, TypeOK
  <1> QED
    BY <1>1, IInvariant, PTL

\* canRetryPayload replays a mutation only after an attempt that left no bytes
\* behind: if cmux served one twice, reconnectTransport had given it the error
\* of another call.
THEOREM DuplicatesAreExplained == Spec => []DuplicatesExplained
  <1>1. IInv => DuplicatesExplained
    BY Bounds DEF IInv, Typed, Once, DuplicatesExplained
  <1> QED
    BY <1>1, IInvariant, PTL

\* tryUpgrade waits for the calls in flight before it installs a client, so the
\* failure of a call never downgrades a socket it did not run on.
THEOREM FailuresStayCurrent == Spec => []FailuresAreCurrent
  <1>1. IInv => FailuresAreCurrent
    BY DEF IInv
  <1> QED
    BY <1>1, IInvariant, PTL
=============================================================================
