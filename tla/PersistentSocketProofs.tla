----------------------- MODULE PersistentSocketProofs -----------------------
(***************************************************************************)
(* Proofs about PersistentSocket, for every number of requests and sockets *)
(* and every limit of requests in flight: the client and its sockets agree,*)
(* an error of the connect or write phase is only reported of a request    *)
(* that cmux did not get, and a line is given a wrong reply only on a      *)
(* connection that has lost count of its lines.                            *)
(*                                                                         *)
(* All rest on one fact: a socket that is connecting or open is the        *)
(* current one (Links), so what cmux owes, it owes on the current socket.  *)
(* Thus a request that was written and still waits is owed there or was    *)
(* taken over (Written), and only the head of the V1 queue can have been   *)
(* written (Turns).  That pairs replies with lines: unless something has   *)
(* confused the connection, the line cmux owes an answer to is the head    *)
(* (InStep).                                                               *)
(***************************************************************************)
EXTENDS PersistentSocket, FiniteSetTheorems, TLAPS

Alive(s) == phase[s] \in {"connecting", "open"}

\* A live socket is the current one, connecting under the promise that callers
\* join or open with that promise settled; others owe nothing.
Links ==
    /\ OneConnection /\ StaleEventsHarmless
    /\ \A s \in Sockets :
          /\ phase[s] = "connecting" => connectPromise = s /\ ~settled[s]
          /\ phase[s] = "open" => connected /\ settled[s]
          /\ ~Alive(s) => owedV1[s] = <<>> /\ owedV2[s] = {}

\* While a request is about to be written or awaits its reply, the current
\* socket, if there is one, is live.
Usable ==
    \A r \in Reqs : req[r].at \in {"resuming", "pending"} /\ socket # 0 => Alive(socket)

\* How far the bytes of a request have come: none before it is pending, and
\* none if it failed in the connect or write phase.
Honest(r) ==
    /\ req[r].at \in {"new", "backoff", "waiting", "resuming"} => sent[r] = "no"
    /\ req[r].res # "none" => req[r].at = "done"
    /\ req[r].res = "unsent" => sent[r] = "no"

\* What was written and still waits is on the current socket.
OnSocket(r) ==
    req[r].at = "pending" =>
        /\ sent[r] # "no" => socket # 0 /\ req[r].on = socket
        /\ sent[r] = "buffered" => r \in Owed(socket)
        /\ sent[r] = "flushed" => phase[socket] = "open"

Written ==
    /\ \A r \in Reqs : Honest(r) /\ OnSocket(r)
    /\ \A s \in Sockets : \A r \in Owed(s) : sent[r] # "no"

\* A line is written when it comes to the head of the queue.
Turns == \A r \in ToSet(pendingV1) : sent[r] = "no" \/ r = Head(pendingV1)

\* Replies and lines are in step.
InStep ==
    ~mixed => \A s \in Sockets :
        /\ Len(owedV1[s]) <= 1
        /\ owedV1[s] # <<>> => pendingV1 # <<>> /\ Head(owedV1[s]) = Head(pendingV1)

\* The inductive invariant.
IInv == TypeOK /\ Links /\ Usable /\ Written /\ Turns /\ InStep

-----------------------------------------------------------------------------
(* Queues of lines. *)

LEMMA AppendIs ==
    ASSUME NEW M, NEW q \in Seq(M), IsInjective(q), NEW x \in M, x \notin ToSet(q)
    PROVE  /\ Append(q, x) \in Seq(M) /\ Append(q, x) # <<>> /\ IsInjective(Append(q, x))
           /\ ToSet(Append(q, x)) = ToSet(q) \cup {x}
           /\ Head(Append(q, x)) = IF q = <<>> THEN x ELSE Head(q)
           /\ Len(Append(q, x)) = Len(q) + 1
  <1> DEFINE a == Append(q, x)
  <1>1. /\ a \in Seq(M) /\ Len(a) = Len(q) + 1 /\ Len(q) \in Nat
        /\ DOMAIN a = 1..Len(a) /\ DOMAIN q = 1..Len(q)
        /\ \A n \in DOMAIN q : a[n] = q[n]
        /\ a[Len(a)] = x
    OBVIOUS
  <1>2. a # <<>> /\ Head(a) = a[1]
    BY <1>1
  <1> HIDE DEF a
  <1>3. IsInjective(a)
    BY <1>1 DEF ToSet, IsInjective
  <1>4. ToSet(a) = ToSet(q) \cup {x}
    BY <1>1 DEF ToSet
  <1>5. Head(a) = IF q = <<>> THEN x ELSE Head(q)
    BY <1>1, <1>2
  <1> QED
    BY <1>1, <1>2, <1>3, <1>4, <1>5 DEF a

LEMMA TailIs ==
    ASSUME NEW M, NEW q \in Seq(M), IsInjective(q), q # <<>>
    PROVE  /\ Tail(q) \in Seq(M) /\ IsInjective(Tail(q))
           /\ Head(q) \in ToSet(q) /\ Head(q) \in M
           /\ ToSet(Tail(q)) = ToSet(q) \ {Head(q)}
           /\ Tail(q) # <<>> => Head(Tail(q)) \in ToSet(Tail(q)) /\ Head(Tail(q)) \in M
           /\ Len(Tail(q)) = Len(q) - 1
  <1> DEFINE t == Tail(q)
  <1>1. /\ t \in Seq(M) /\ Len(t) = Len(q) - 1 /\ Len(q) \in Nat \ {0}
        /\ DOMAIN t = 1..Len(t) /\ DOMAIN q = 1..Len(q)
        /\ \A n \in DOMAIN t : t[n] = q[n + 1]
        /\ Head(q) = q[1] /\ q[1] \in M
        /\ t # <<>> => Head(t) = t[1] /\ Len(t) > 0
    OBVIOUS
  <1> HIDE DEF t
  <1>2. IsInjective(t)
    BY <1>1 DEF IsInjective
  <1>3. ToSet(t) = ToSet(q) \ {q[1]}
    <2>1. \A n \in DOMAIN t : n + 1 \in DOMAIN q /\ n + 1 # 1
      BY <1>1
    <2>2. \A n \in DOMAIN q : n # 1 => n - 1 \in DOMAIN t /\ t[n - 1] = q[n]
      BY <1>1
    <2>3. \A n \in DOMAIN q : n # 1 => q[n] # q[1]
      BY <1>1 DEF IsInjective
    <2>4. ToSet(t) \subseteq ToSet(q) \ {q[1]}
      BY <1>1, <2>1, <2>3 DEF ToSet
    <2>5. ToSet(q) \ {q[1]} \subseteq ToSet(t)
      BY <2>2 DEF ToSet
    <2> QED
      BY <2>4, <2>5
  <1>4. q[1] \in ToSet(q)
    BY <1>1 DEF ToSet
  <1>5. t # <<>> => Head(t) \in ToSet(t) /\ Head(t) \in M
    BY <1>1 DEF ToSet
  <1> QED
    BY <1>1, <1>2, <1>3, <1>4, <1>5 DEF t

Joined(a, b) == a \o b

LEMMA JoinedIs ==
    ASSUME NEW M, NEW a \in Seq(M), NEW b \in Seq(M), NEW c, c = Joined(a, b)
    PROVE  /\ c \in Seq(M) /\ Len(c) = Len(a) + Len(b)
           /\ \A k \in 1..Len(c) : c[k] = IF k <= Len(a) THEN a[k] ELSE b[k - Len(a)]
  BY DEF Joined

LEMMA WithoutIs ==
    ASSUME NEW M, NEW q \in Seq(M), IsInjective(q), NEW r, q = <<>> \/ r # Head(q)
    PROVE  /\ Without(q, r) \in Seq(M) /\ IsInjective(Without(q, r))
           /\ ToSet(Without(q, r)) = ToSet(q) \ {r}
           /\ q # <<>> => Without(q, r) # <<>> /\ Head(Without(q, r)) = Head(q)
  <1>1. CASE r \notin ToSet(q)
    BY <1>1 DEF Without
  <1>2. CASE r \in ToSet(q)
    <2> DEFINE n == CHOOSE k \in DOMAIN q : q[k] = r
               w == RemoveAt(q, n)
    <2>1. n \in DOMAIN q /\ q[n] = r
      BY <1>2 DEF ToSet
    <2> HIDE DEF n
    <2>2. n \in 1..Len(q) /\ Len(q) \in Nat /\ n # 1 /\ q # <<>> /\ Head(q) = q[1]
      BY <2>1
    <2>3. /\ w \in Seq(M) /\ Len(w) = Len(q) - 1
          /\ \A k \in 1..Len(w) : w[k] = IF k < n THEN q[k] ELSE q[k + 1]
      <3> DEFINE before == SubSeq(q, 1, n - 1)
                 after == SubSeq(q, n + 1, Len(q))
      <3>1. /\ before \in Seq(M) /\ Len(before) = n - 1
            /\ \A k \in 1..n - 1 : before[k] = q[k]
        BY <2>2
      <3>2. /\ after \in Seq(M) /\ Len(after) = Len(q) - n
            /\ \A k \in 1..Len(q) - n : after[k] = q[k + n]
        BY <2>2
      <3>3. w = Joined(before, after)
        BY DEF RemoveAt, Joined
      <3> HIDE DEF before, after, w
      <3>4. /\ w \in Seq(M) /\ Len(w) = Len(before) + Len(after)
            /\ \A k \in 1..Len(w) : w[k] = IF k <= Len(before) THEN before[k]
                                           ELSE after[k - Len(before)]
        BY <3>1, <3>2, <3>3, JoinedIs
      <3>5. ASSUME NEW k \in 1..Len(w), ~(k < n) PROVE w[k] = q[k + 1]
        <4> DEFINE j == k - (n - 1)
        <4>1. w[k] = after[j] /\ j \in 1..Len(q) - n
          BY <2>2, <3>1, <3>2, <3>4, <3>5
        <4>2. after[j] = q[j + n]
          BY <3>2, <4>1
        <4>3. j + n = k + 1
          BY <2>2, <3>4
        <4> QED
          BY <4>1, <4>2, <4>3
      <3> QED
        BY <2>2, <3>1, <3>2, <3>4, <3>5
    <2>4. Without(q, r) = w
      BY <1>2 DEF Without, n
    <2> HIDE DEF w
    <2>5. DOMAIN w = 1..Len(w) /\ DOMAIN q = 1..Len(q)
      BY <2>3
    <2>6. IsInjective(w)
      <3> SUFFICES ASSUME NEW j \in DOMAIN w, NEW k \in DOMAIN w, w[j] = w[k] PROVE j = k
        BY DEF IsInjective
      <3> DEFINE from(i) == IF i < n THEN i ELSE i + 1
      <3>1. \A i \in DOMAIN w : from(i) \in DOMAIN q /\ w[i] = q[from(i)]
        BY <2>2, <2>3, <2>5
      <3>2. from(j) = from(k)
        BY <3>1 DEF IsInjective
      <3> QED
        BY <2>2, <2>5, <3>2
    <2>7. ToSet(w) = ToSet(q) \ {r}
      <3>1. \A k \in DOMAIN w : \E m \in DOMAIN q : m # n /\ w[k] = q[m]
        <4> SUFFICES ASSUME NEW k \in DOMAIN w
                     PROVE  \E m \in DOMAIN q : m # n /\ w[k] = q[m]
          OBVIOUS
        <4>1. k < n => k \in DOMAIN q /\ w[k] = q[k]
          BY <2>2, <2>3, <2>5
        <4>2. ~(k < n) => k + 1 \in DOMAIN q /\ k + 1 # n /\ w[k] = q[k + 1]
          BY <2>2, <2>3, <2>5
        <4> QED
          BY <4>1, <4>2, <2>2
      <3>2. \A m \in DOMAIN q : m # n => \E k \in DOMAIN w : w[k] = q[m]
        <4> SUFFICES ASSUME NEW m \in DOMAIN q, m # n
                     PROVE  \E k \in DOMAIN w : w[k] = q[m]
          OBVIOUS
        <4>1. CASE m < n
          BY <2>2, <2>3, <2>5, <4>1
        <4>2. CASE m > n
          <5>1. m - 1 \in DOMAIN w /\ w[m - 1] = q[m]
            BY <2>2, <2>3, <2>5, <4>2
          <5> QED
            BY <5>1
        <4> QED
          BY <2>2, <2>5, <4>1, <4>2
      <3>3. \A m \in DOMAIN q : m # n => q[m] # r
        BY <2>1 DEF IsInjective
      <3> QED
        BY <3>1, <3>2, <3>3, <2>1 DEF ToSet
    <2>8. w # <<>> /\ Head(w) = q[1]
      BY <2>2, <2>3, <2>5
    <2> QED
      BY <2>2, <2>3, <2>4, <2>6, <2>7, <2>8
  <1> QED
    BY <1>1, <1>2

LEMMA EmptyIs ==
    /\ \A M : <<>> \in Seq(M)
    /\ IsInjective(<<>>) /\ ToSet(<<>>) = {} /\ Len(<<>>) = 0
  BY DEF IsInjective, ToSet

-----------------------------------------------------------------------------
(* Requests. *)

LEMMA Legal ==
    /\ 0 \notin Sockets /\ Lines \cap Calls = {} /\ Reqs = Lines \cup Calls
    /\ New \in Requests /\ New.at = "new" /\ New.res = "none"
    /\ \A r, x : x \in Results => Done(r, x) \in Requests
    /\ \A r, x : Done(r, x).at = "done" /\ Done(r, x).res = x /\ Done(r, x).kind = "plain"
  BY SocketAssumption DEF Reqs, New, Done, Requests, Stages, Results, Kinds

\* The queue, seen from each of its lines.
LEMMA QueueIs ==
    ASSUME TypeOK
    PROVE  /\ \A r \in Lines : r \in ToSet(pendingV1) <=> req[r].at = "pending"
           /\ ToSet(pendingV1) \subseteq Lines
           /\ pendingV1 # <<>> => /\ Head(pendingV1) \in ToSet(pendingV1)
                                  /\ Head(pendingV1) \in Lines
                                  /\ req[Head(pendingV1)].at = "pending"
  <1>1. ToSet(pendingV1) = {r \in Reqs : req[r].at = "pending"} \cap Lines
    BY DEF TypeOK, Pending
  <1>2. pendingV1 # <<>> => Head(pendingV1) \in ToSet(pendingV1)
    BY TailIs DEF TypeOK
  <1> QED
    BY <1>1, <1>2 DEF Reqs

\* Only current sockets owe answers.
LEMMA OwedIs ==
    ASSUME IInv
    PROVE  /\ \A s \in Sockets : \A r \in Owed(s) :
                 s = socket /\ Alive(s) /\ r \in Reqs /\ sent[r] # "no"
           /\ \A s \in Sockets, r \in Lines : r \in Owed(s) <=> r \in ToSet(owedV1[s])
           /\ \A s \in Sockets, r \in Calls : r \in Owed(s) <=> r \in owedV2[s]
           /\ \A s \in Sockets : owedV1[s] = <<>> => ToSet(owedV1[s]) = {}
           /\ \A s \in Sockets : ToSet(owedV1[s]) \subseteq Lines /\ owedV2[s] \subseteq Calls
  <1>1. \A s \in Sockets : ToSet(owedV1[s]) \subseteq Lines /\ owedV2[s] \subseteq Calls
    BY DEF IInv, TypeOK, ToSet
  <1>2. ASSUME NEW s \in Sockets, NEW r \in Owed(s)
        PROVE  s = socket /\ Alive(s) /\ r \in Reqs /\ sent[r] # "no"
    <2>1. owedV1[s] # <<>> \/ owedV2[s] # {}
      BY <1>2, EmptyIs DEF Owed
    <2>2. Alive(s) /\ s = socket
      BY <2>1 DEF IInv, Links, OneConnection, Alive
    <2> QED
      BY <1>1, <1>2, <2>2 DEF IInv, Written, Owed, Reqs
  <1> QED
    BY <1>1, <1>2, Legal, EmptyIs DEF Owed

-----------------------------------------------------------------------------
(* Getting a connection. *)

\* r, which had not been written, goes on or fails there.
Moves(r) ==
    /\ req' \in [Reqs -> Requests] /\ \A x \in Reqs \ {r} : req'[x] = req[x]
    /\ req[r].at \in {"new", "backoff", "resuming"}
    /\ \/ req'[r].at \in {"backoff", "waiting", "resuming"} /\ req'[r].res = "none"
       \/ req'[r].at = "done" /\ req'[r].res \in {"failed", "unsent"}

LEMMA MovesQueue ==
    ASSUME IInv, NEW r \in Reqs, Moves(r), UNCHANGED <<owed, part, pendingV1, sent>>
    PROVE  /\ Pending' = Pending
           /\ \A s \in Sockets : Owed(s)' = Owed(s)
           /\ Turns' /\ \A x \in Reqs : Honest(x)'
           /\ \A s \in Sockets : \A x \in Owed(s)' : sent'[x] # "no"
  <1>1. \A x \in Reqs : req'[x].at = "pending" <=> req[x].at = "pending"
    BY DEF Moves
  <1>2. \A s \in Sockets : Owed(s)' = Owed(s)
    BY DEF Owed, owed
  <1>3. \A x \in Reqs : Honest(x)'
    BY DEF Moves, Honest, IInv, Written
  <1> QED
    BY <1>1, <1>2, <1>3 DEF Pending, Turns, IInv, Written

LEMMA MovesKeeps ==
    ASSUME IInv, NEW r \in Reqs, Moves(r), UNCHANGED <<link, sockets, mixed>>,
           UNCHANGED <<owed, part, pendingV1, sent>>,
           req'[r].at = "resuming" => connected
    PROVE  IInv'
  <1>1. /\ Pending' = Pending
        /\ \A s \in Sockets : Owed(s)' = Owed(s)
        /\ Turns' /\ \A x \in Reqs : Honest(x)'
        /\ \A s \in Sockets : \A x \in Owed(s)' : sent'[x] # "no"
    BY MovesQueue
  <1>2. TypeOK'
    BY <1>1 DEF IInv, TypeOK, Moves, link, sockets, owed
  <1>3. Links'
    BY DEF IInv, Links, OneConnection, StaleEventsHarmless, Alive, link, sockets, owed
  <1>4. Usable'
    BY DEF IInv, Usable, Links, StaleEventsHarmless, Alive, Moves, link, sockets
  <1>5. ASSUME NEW x \in Reqs PROVE OnSocket(x)'
    BY <1>1 DEF OnSocket, IInv, TypeOK, Written, Moves, link, sockets
  <1>6. InStep'
    BY DEF IInv, InStep, owed
  <1> QED
    BY <1>1, <1>2, <1>3, <1>4, <1>5, <1>6 DEF IInv, Written

LEMMA ConnectKeeps ==
    ASSUME IInv, NEW r \in Reqs, NEW rq \in [Reqs -> Requests],
           \A x \in Reqs \ {r} : rq[x] = req[x], rq[r].res = "none",
           req[r].at \in {"new", "backoff"}, Connect(r, rq),
           UNCHANGED <<owed, part, pendingV1, sent>>
    PROVE  IInv'
  <1>1. CASE connected
    <2>1. Moves(r) /\ UNCHANGED <<link, sockets, mixed>>
      BY <1>1 DEF Connect, Moves, Requests, Stages
    <2> QED
      BY <1>1, <2>1, MovesKeeps
  <1>2. CASE ~connected /\ connectPromise # 0
    <2>1. connectPromise \in Sockets
      BY <1>2 DEF IInv, TypeOK
    <2>2. Moves(r) /\ UNCHANGED <<link, sockets, mixed>> /\ req'[r].at = "waiting"
      BY <1>2, <2>1 DEF Connect, Moves, Requests, Stages
    <2> QED
      BY <2>2, MovesKeeps
  <1>3. CASE ~connected /\ connectPromise = 0
    <2>1. PICK s \in Sockets :
             /\ Unused(s)
             /\ socket' = s /\ connectPromise' = s
             /\ phase' = [phase EXCEPT ![s] = "connecting"]
             /\ settled' = [settled EXCEPT ![s] = FALSE]
             /\ armed' = [armed EXCEPT ![s] = TRUE]
             /\ mixed' = FALSE
             /\ req' = [rq EXCEPT ![r].at = "waiting", ![r].on = s]
             /\ UNCHANGED <<connected, backoff>>
      BY <1>3 DEF Connect
    <2>2. s # 0 /\ phase[s] = "free"
      BY <2>1, Legal DEF Unused
    <2>3. Moves(r)
      BY <2>1 DEF Moves, Requests, Stages
    <2>4. /\ Pending' = Pending
          /\ \A t \in Sockets : Owed(t)' = Owed(t)
          /\ Turns' /\ \A x \in Reqs : Honest(x)'
          /\ \A t \in Sockets : \A x \in Owed(t)' : sent'[x] # "no"
      BY <2>3, MovesQueue
    <2>5. \A t \in Sockets : ~Alive(t) /\ owedV1[t] = <<>> /\ owedV2[t] = {}
      BY <1>3, Legal DEF IInv, Links, Alive
    <2>6. TypeOK'
      BY <2>1, <2>3, <2>4 DEF IInv, TypeOK, Moves, owed, Phases
    <2>7. Links'
      BY <1>3, <2>1, <2>2, <2>5 DEF IInv, TypeOK, Links, OneConnection, StaleEventsHarmless,
         Alive, owed
    <2>8. Usable'
      BY <2>1 DEF IInv, TypeOK, Usable, Alive
    <2>9. ASSUME NEW x \in Reqs PROVE OnSocket(x)'
      <3>1. req[x].at = "pending" => sent[x] = "no"
        BY <2>5 DEF IInv, TypeOK, Written, OnSocket, Usable
      <3>2. req'[x].at = "pending" => req[x].at = "pending"
        BY <2>3 DEF Moves
      <3> QED
        BY <3>1, <3>2 DEF OnSocket
    <2>10. InStep'
      BY <2>5, EmptyIs DEF InStep, owed
    <2> QED
      BY <2>4, <2>6, <2>7, <2>8, <2>9, <2>10 DEF IInv, Written
  <1> QED
    BY <1>1, <1>2, <1>3

LEMMA CallKeeps ==
    ASSUME IInv, NEW r \in Reqs, NEW kind \in {"plain", "poll"}, Call(r, kind)
    PROVE  IInv'
  <1> DEFINE begun == [req EXCEPT ![r].kind = kind]
  <1>1. /\ begun \in [Reqs -> Requests] /\ \A x \in Reqs \ {r} : begun[x] = req[x]
        /\ begun[r].res = "none" /\ req[r].at = "new"
    <2>1. req[r].at = "new" /\ req[r].res = "none"
      BY DEF Call, IInv, Written, Honest
    <2> QED
      BY <2>1 DEF IInv, TypeOK, Requests, Kinds
  <1>2. UNCHANGED <<owed, part, pendingV1, sent>>
    BY DEF Call
  <1>3. CASE req' = [req EXCEPT ![r] = Done(r, "failed")] /\ UNCHANGED <<link, sockets, mixed>>
    <2>1. Done(r, "failed") \in Requests
      BY Legal DEF Results
    <2>2. Moves(r)
      BY <1>1, <1>3, <2>1, Legal DEF Moves, IInv, TypeOK
    <2>3. req'[r].at = "done"
      BY <1>3, Legal DEF IInv, TypeOK
    <2> QED
      BY <1>2, <1>3, <2>2, <2>3, MovesKeeps
  <1>4. CASE req' = [begun EXCEPT ![r].at = "backoff"] /\ UNCHANGED <<link, sockets, mixed>>
    <2>1. Moves(r) /\ req'[r].at = "backoff"
      BY <1>1, <1>4 DEF Moves, Requests, Stages
    <2> QED
      BY <1>2, <1>4, <2>1, MovesKeeps
  <1>5. CASE Connect(r, begun)
    <2> HIDE DEF begun
    <2> QED
      BY <1>1, <1>2, <1>5, ConnectKeeps
  <1> QED
    BY <1>3, <1>4, <1>5 DEF Call

LEMMA BackoffEndsKeeps == ASSUME IInv, NEW r \in Reqs, BackoffEnds(r) PROVE IInv'
  <1>1. /\ req \in [Reqs -> Requests] /\ req[r].at = "backoff" /\ req[r].res = "none"
        /\ UNCHANGED <<owed, part, pendingV1, sent>>
    BY DEF BackoffEnds, IInv, TypeOK, Written, Honest
  <1>2. CASE Outdated(r)
    <2>1. Done(r, "failed") \in Requests /\ Done(r, "failed").at = "done"
          /\ Done(r, "failed").res = "failed"
      BY Legal DEF Results
    <2>2. req' = [req EXCEPT ![r] = Done(r, "failed")] /\ UNCHANGED <<link, sockets, mixed>>
      BY <1>2 DEF BackoffEnds
    <2>3. Moves(r) /\ req'[r].at = "done"
      BY <1>1, <2>1, <2>2 DEF Moves
    <2> QED
      BY <1>1, <2>2, <2>3, MovesKeeps
  <1>3. CASE ~Outdated(r)
    BY <1>1, <1>3, ConnectKeeps DEF BackoffEnds
  <1> QED
    BY <1>2, <1>3

-----------------------------------------------------------------------------
(* Writing. *)

LEMMA LeavesKeeps ==
    ASSUME IInv, NEW r \in Reqs, req[r].at = "resuming", NEW x \in {"failed", "unsent"},
           req' = [req EXCEPT ![r] = Done(r, x)],
           UNCHANGED <<link, sockets, owed, part, pendingV1, sent, mixed>>
    PROVE  IInv'
  <1>1. Done(r, x) \in Requests /\ Done(r, x).at = "done" /\ Done(r, x).res = x
    BY Legal DEF Results
  <1>2. req \in [Reqs -> Requests]
    BY DEF IInv, TypeOK
  <1>3. Moves(r) /\ req'[r].at = "done"
    BY <1>1, <1>2 DEF Moves
  <1> QED
    BY <1>3, MovesKeeps

\* r is added to what waits for a reply, written on the current socket if now.
Submits(r, now) ==
    /\ req' = [req EXCEPT ![r].at = "pending", ![r].on = IF now THEN socket ELSE 0]
    /\ pendingV1' = IF r \in Lines THEN Append(pendingV1, r) ELSE pendingV1
    /\ IF now THEN Write(r) ELSE UNCHANGED <<sent, owed>>
    /\ UNCHANGED <<link, sockets, part, mixed>>

LEMMA SubmitsQueue ==
    ASSUME IInv, NEW r \in Reqs, NEW now \in BOOLEAN, req[r].at = "resuming", Submits(r, now)
    PROVE  /\ sent[r] = "no" /\ req[r].res = "none" /\ r \notin Pending
           /\ req' \in [Reqs -> Requests]
           /\ \A x \in Reqs \ {r} : req'[x] = req[x]
           /\ req'[r].at = "pending" /\ req'[r].on = (IF now THEN socket ELSE 0)
           /\ req'[r].res = "none"
           /\ Pending' = Pending \cup {r}
           /\ pendingV1' \in Seq(Lines) /\ IsInjective(pendingV1')
           /\ ToSet(pendingV1') = ToSet(pendingV1) \cup ({r} \cap Lines)
           /\ pendingV1 # <<>> => pendingV1' # <<>> /\ Head(pendingV1') = Head(pendingV1)
           /\ pendingV1 = <<>> /\ r \in Lines => pendingV1' # <<>> /\ Head(pendingV1') = r
  <1>1. sent[r] = "no" /\ req[r].res = "none" /\ r \notin Pending
    BY DEF IInv, Written, Honest, Pending
  <1>2. /\ req' \in [Reqs -> Requests]
        /\ \A x \in Reqs \ {r} : req'[x] = req[x]
        /\ req'[r].at = "pending" /\ req'[r].on = (IF now THEN socket ELSE 0)
        /\ req'[r].res = "none"
    BY <1>1 DEF IInv, TypeOK, Submits, Requests, Stages
  <1>3. Pending' = Pending \cup {r}
    BY <1>2 DEF Pending
  <1>4. pendingV1 \in Seq(Lines) /\ IsInjective(pendingV1) /\ (r \in Lines => r \notin ToSet(pendingV1))
    BY <1>1, QueueIs DEF IInv, TypeOK
  <1>5. CASE r \in Lines
    BY <1>1, <1>2, <1>3, <1>4, <1>5, AppendIs DEF Submits
  <1>6. CASE r \notin Lines
    BY <1>1, <1>2, <1>3, <1>4, <1>6 DEF Submits
  <1> QED
    BY <1>5, <1>6

\* A line that comes behind another, or without a connection, is left unwritten.
LEMMA QueuesKeeps ==
    ASSUME IInv, NEW r \in Lines, req[r].at = "resuming", socket = 0 \/ pendingV1 # <<>>,
           Submits(r, FALSE)
    PROVE  IInv'
  <1>1. r \in Reqs
    BY Legal
  <1>2. /\ sent[r] = "no" /\ req[r].res = "none" /\ r \notin Pending
        /\ req' \in [Reqs -> Requests]
        /\ \A x \in Reqs \ {r} : req'[x] = req[x]
        /\ req'[r].at = "pending" /\ req'[r].on = 0
        /\ req'[r].res = "none"
        /\ Pending' = Pending \cup {r}
        /\ pendingV1' \in Seq(Lines) /\ IsInjective(pendingV1')
        /\ ToSet(pendingV1') = ToSet(pendingV1) \cup {r}
        /\ pendingV1 # <<>> => pendingV1' # <<>> /\ Head(pendingV1') = Head(pendingV1)
        /\ pendingV1 = <<>> => pendingV1' # <<>> /\ Head(pendingV1') = r
    BY <1>1, SubmitsQueue
  <1>3. UNCHANGED <<link, sockets, part, mixed, sent, owed>>
    BY DEF Submits
  <1>4. TypeOK'
    BY <1>1, <1>2, <1>3 DEF IInv, TypeOK, link, sockets, owed
  <1>5. Links'
    BY <1>3 DEF IInv, Links, OneConnection, StaleEventsHarmless, Alive, link, sockets, owed
  <1>6. Usable'
    BY <1>1, <1>2, <1>3 DEF IInv, Usable, Alive, link, sockets
  <1>7. \A s \in Sockets : Owed(s)' = Owed(s)
    BY <1>3 DEF Owed, owed
  <1>8. Written'
    <2>1. ASSUME NEW x \in Reqs PROVE Honest(x)' /\ OnSocket(x)'
      <3>1. CASE x = r
        BY <1>2, <1>3, <3>1 DEF Honest, OnSocket
      <3>2. CASE x # r
        BY <1>2, <1>3, <1>7, <3>2 DEF IInv, TypeOK, Written, Honest, OnSocket, link, sockets
      <3> QED
        BY <3>1, <3>2
    <2> QED
      BY <1>3, <1>7, <2>1 DEF IInv, Written
  <1>9. Turns'
    BY <1>2, <1>3, EmptyIs DEF IInv, Turns
  <1>10. InStep'
    <2>1. socket = 0 => \A s \in Sockets : owedV1[s] = <<>>
      BY Legal DEF IInv, Links, OneConnection, Alive
    <2> QED
      BY <1>2, <1>3, <2>1 DEF IInv, InStep, owed
  <1> QED
    BY <1>4, <1>5, <1>6, <1>8, <1>9, <1>10 DEF IInv

\* How Write changes what cmux owes.
LEMMA WriteIs ==
    ASSUME IInv, NEW r \in Reqs, sent[r] = "no", socket # 0, Write(r)
    PROVE  /\ socket \in Sockets
           /\ \A x \in Reqs : sent'[x] = IF x = r THEN "buffered" ELSE sent[x]
           /\ owedV1' \in [Sockets -> Seq(Lines)] /\ owedV2' \in [Sockets -> SUBSET Calls]
           /\ \A s \in Sockets : IsInjective(owedV1'[s])
           /\ \A s \in Sockets : s # socket => owedV1'[s] = owedV1[s] /\ owedV2'[s] = owedV2[s]
           /\ \A s \in Sockets : Owed(s)' = IF s = socket THEN Owed(s) \cup {r} ELSE Owed(s)
           /\ owedV1' = IF r \in Lines THEN [owedV1 EXCEPT ![socket] = Append(@, r)] ELSE owedV1
  <1>1. socket \in Sockets
    BY DEF IInv, TypeOK
  <1>2. r \notin Owed(socket)
    BY <1>1 DEF IInv, Written
  <1>3. \A x \in Reqs : sent'[x] = IF x = r THEN "buffered" ELSE sent[x]
    BY DEF Write, IInv, TypeOK
  <1>4. CASE r \in Lines
    <2> DEFINE q == owedV1[socket]
    <2>1. q \in Seq(Lines) /\ IsInjective(q) /\ r \notin ToSet(q)
      BY <1>1, <1>2 DEF IInv, TypeOK, Owed
    <2>2. Append(q, r) \in Seq(Lines) /\ IsInjective(Append(q, r))
          /\ ToSet(Append(q, r)) = ToSet(q) \cup {r}
      BY <1>4, <2>1, AppendIs
    <2>3. owedV1' = [owedV1 EXCEPT ![socket] = Append(q, r)] /\ owedV2' = owedV2
      BY <1>4 DEF Write
    <2> DEFINE a == Append(q, r)
    <2> HIDE DEF a, q
    <2>4. owedV1'[socket] = a /\ \A s \in Sockets : s # socket => owedV1'[s] = owedV1[s]
      BY <1>1, <2>3 DEF a, IInv, TypeOK
    <2>5. owedV1' \in [Sockets -> Seq(Lines)]
      BY <2>2, <2>3 DEF a, IInv, TypeOK
    <2>6. \A s \in Sockets : IsInjective(owedV1'[s])
      BY <2>2, <2>4 DEF a, IInv, TypeOK
    <2>7. \A s \in Sockets : Owed(s)' = IF s = socket THEN Owed(s) \cup {r} ELSE Owed(s)
      BY <2>2, <2>3, <2>4 DEF a, q, Owed
    <2>8. owedV1' = [owedV1 EXCEPT ![socket] = Append(@, r)]
      BY <1>4 DEF Write
    <2> QED
      BY <1>1, <1>3, <1>4, <2>3, <2>4, <2>5, <2>6, <2>7, <2>8 DEF IInv, TypeOK
  <1>5. CASE r \in Calls
    <2>1. owedV1' = owedV1 /\ owedV2' = [owedV2 EXCEPT ![socket] = @ \cup {r}]
      BY <1>5, Legal DEF Write
    <2>2. owedV2' \in [Sockets -> SUBSET Calls]
      BY <1>1, <1>5, <2>1 DEF IInv, TypeOK
    <2>3. \A s \in Sockets : owedV2'[s] = IF s = socket THEN owedV2[s] \cup {r} ELSE owedV2[s]
      BY <1>1, <2>1 DEF IInv, TypeOK
    <2>4. \A s \in Sockets : Owed(s)' = IF s = socket THEN Owed(s) \cup {r} ELSE Owed(s)
      BY <2>1, <2>3 DEF Owed
    <2> QED
      BY <1>1, <1>3, <1>5, <2>1, <2>2, <2>3, <2>4, Legal DEF IInv, TypeOK
  <1> QED
    BY <1>4, <1>5, Legal

LEMMA WritesKeeps ==
    ASSUME IInv, NEW r \in Reqs, req[r].at = "resuming", socket # 0,
           r \in Lines => pendingV1 = <<>>, Submits(r, TRUE)
    PROVE  IInv'
  <1>1. /\ sent[r] = "no" /\ req[r].res = "none" /\ r \notin Pending
        /\ req' \in [Reqs -> Requests]
        /\ \A x \in Reqs \ {r} : req'[x] = req[x]
        /\ req'[r].at = "pending" /\ req'[r].on = socket
        /\ req'[r].res = "none"
        /\ Pending' = Pending \cup {r}
        /\ pendingV1' \in Seq(Lines) /\ IsInjective(pendingV1')
        /\ ToSet(pendingV1') = ToSet(pendingV1) \cup ({r} \cap Lines)
        /\ r \in Lines => pendingV1' # <<>> /\ Head(pendingV1') = r
    BY SubmitsQueue
  <1>2. Write(r) /\ UNCHANGED <<link, sockets, part, mixed>>
        /\ (r \notin Lines => pendingV1' = pendingV1)
    BY DEF Submits
  <1>3. /\ socket \in Sockets
        /\ \A x \in Reqs : sent'[x] = IF x = r THEN "buffered" ELSE sent[x]
        /\ owedV1' \in [Sockets -> Seq(Lines)] /\ owedV2' \in [Sockets -> SUBSET Calls]
        /\ \A s \in Sockets : IsInjective(owedV1'[s])
        /\ \A s \in Sockets : s # socket => owedV1'[s] = owedV1[s] /\ owedV2'[s] = owedV2[s]
        /\ \A s \in Sockets : Owed(s)' = IF s = socket THEN Owed(s) \cup {r} ELSE Owed(s)
        /\ owedV1' = IF r \in Lines THEN [owedV1 EXCEPT ![socket] = Append(@, r)] ELSE owedV1
    BY <1>1, <1>2, WriteIs
  <1>4. Alive(socket)
    BY DEF IInv, Usable
  <1>5. sent' \in [Reqs -> {"no", "buffered", "flushed"}]
    BY <1>2 DEF IInv, TypeOK, Write
  <1>6. TypeOK'
    <2>1. ToSet(pendingV1') = Pending' \cap Lines
      BY <1>1 DEF IInv, TypeOK
    <2> QED
      BY <1>1, <1>2, <1>3, <1>5, <2>1 DEF IInv, TypeOK, link, sockets
  <1>7. Links'
    BY <1>2, <1>3, <1>4 DEF IInv, Links, OneConnection, StaleEventsHarmless, Alive, link, sockets
  <1>8. Usable'
    BY <1>2, <1>4 DEF Usable, Alive, link, sockets
  <1>9. Written'
    <2>1. ASSUME NEW x \in Reqs PROVE Honest(x)' /\ OnSocket(x)'
      <3>1. CASE x = r
        BY <1>1, <1>2, <1>3, <3>1 DEF Honest, OnSocket, link
      <3>2. CASE x # r
        BY <1>1, <1>2, <1>3, <3>2 DEF IInv, Written, Honest, OnSocket, link, sockets
      <3> QED
        BY <3>1, <3>2
    <2>2. ASSUME NEW s \in Sockets, NEW x \in Owed(s)' PROVE sent'[x] # "no"
      <3>1. x = r \/ (x \in Reqs /\ sent[x] # "no")
        BY <1>3, OwedIs
      <3> QED
        BY <1>3, <3>1
    <2> QED
      BY <2>1, <2>2 DEF Written
  <1>10. Turns'
    <2>1. ASSUME NEW x \in ToSet(pendingV1') PROVE sent'[x] = "no" \/ x = Head(pendingV1')
      <3>1. CASE r \in Lines
        BY <1>1, <3>1, EmptyIs
      <3>2. CASE r \notin Lines
        <4>1. x \in ToSet(pendingV1) /\ x \in Reqs /\ x # r
          BY <1>2, <3>2, QueueIs, Legal DEF IInv
        <4> QED
          BY <1>2, <1>3, <3>2, <4>1 DEF IInv, Turns
      <3> QED
        BY <3>1, <3>2
    <2> QED
      BY <2>1 DEF Turns
  <1>11. InStep'
    <2>1. CASE r \in Lines
      <3>1. ASSUME ~mixed PROVE owedV1[socket] = <<>>
        BY <1>3, <2>1, <3>1 DEF IInv, InStep
      <3>2. ASSUME ~mixed
            PROVE  Len(owedV1'[socket]) = 1 /\ Head(owedV1'[socket]) = r
        <4>1. owedV1'[socket] = Append(<<>>, r)
          BY <1>3, <2>1, <3>1, <3>2 DEF IInv, TypeOK
        <4> QED
          BY <4>1
      <3>3. ASSUME ~mixed, NEW s \in Sockets, s # socket PROVE owedV1'[s] = <<>>
        BY <1>3, <2>1, <3>3 DEF IInv, InStep
      <3>4. ASSUME ~mixed, NEW s \in Sockets
            PROVE  /\ Len(owedV1'[s]) <= 1
                   /\ owedV1'[s] # <<>> => pendingV1' # <<>> /\ Head(owedV1'[s]) = Head(pendingV1')
        <4>1. CASE s = socket
          <5>1. pendingV1' # <<>> /\ Head(pendingV1') = r
            BY <1>1, <2>1
          <5>2. Len(owedV1'[s]) = 1 /\ Head(owedV1'[s]) = r
            BY <3>2, <3>4, <4>1
          <5> QED
            BY <5>1, <5>2
        <4>2. CASE s # socket
          <5>1. owedV1'[s] = <<>>
            BY <3>3, <3>4, <4>2
          <5> QED
            BY <5>1, EmptyIs
        <4> QED
          BY <4>1, <4>2
      <3>5. mixed' = mixed
        BY <1>2
      <3> QED
        BY <3>4, <3>5 DEF InStep
    <2>2. CASE r \notin Lines
      BY <1>2, <1>3, <2>2 DEF IInv, InStep
    <2> QED
      BY <2>1, <2>2
  <1> QED
    BY <1>6, <1>7, <1>8, <1>9, <1>10, <1>11 DEF IInv

LEMMA ResumeKeeps == ASSUME IInv, NEW r \in Reqs, Resume(r) PROVE IInv'
  <1> DEFINE now == r \in Calls \/ (socket # 0 /\ pendingV1 = <<>>)
  <1>1. req[r].at = "resuming"
    BY DEF Resume
  <1>2. CASE Outdated(r) \/ (r \in Calls /\ socket = 0)
    <2>1. PICK x \in {"failed", "unsent"} :
             /\ req' = [req EXCEPT ![r] = Done(r, x)]
             /\ UNCHANGED <<link, sockets, owed, part, pendingV1, sent, mixed>>
      BY <1>2 DEF Resume
    <2> QED
      BY <1>1, <2>1, LeavesKeeps
  <1>3. CASE ~Outdated(r) /\ ~(r \in Calls /\ socket = 0)
    <2>1. Submits(r, now)
      BY <1>3 DEF Resume, Submits
    <2>2. CASE now
      <3>1. socket # 0 /\ (r \in Lines => pendingV1 = <<>>) /\ now = TRUE
        BY <1>3, <2>2, Legal
      <3> HIDE DEF now
      <3> QED
        BY <1>1, <2>1, <3>1, WritesKeeps
    <2>3. CASE ~now
      <3>1. r \in Lines /\ (socket = 0 \/ pendingV1 # <<>>) /\ now = FALSE
        BY <2>3, Legal
      <3> HIDE DEF now
      <3> QED
        BY <1>1, <2>1, <3>1, QueuesKeeps
    <2> QED
      BY <2>2, <2>3
  <1> QED
    BY <1>2, <1>3

LEMMA WriteThrowsKeeps == ASSUME IInv, NEW r \in Reqs, WriteThrows(r) PROVE IInv'
  BY LeavesKeeps DEF WriteThrows

LEMMA FlushKeeps == ASSUME IInv, NEW r \in Reqs, Flush(r) PROVE IInv'
  <1>1. PICK s \in Sockets : phase[s] = "open" /\ r \in Owed(s)
    BY DEF Flush
  <1>2. s = socket
    BY <1>1, OwedIs
  <1>3. /\ sent[r] = "buffered"
        /\ \A x \in Reqs : sent'[x] = IF x = r THEN "flushed" ELSE sent[x]
        /\ sent' \in [Reqs -> {"no", "buffered", "flushed"}]
        /\ UNCHANGED <<link, sockets, owed, part, pendingV1, req, mixed>>
    BY DEF Flush, IInv, TypeOK
  <1>4. Pending' = Pending /\ \A t \in Sockets : Owed(t)' = Owed(t)
    BY <1>3 DEF Pending, Owed, owed
  <1>5. TypeOK'
    BY <1>3, <1>4 DEF IInv, TypeOK, link, sockets, owed
  <1>6. Links' /\ Usable' /\ InStep'
    BY <1>3 DEF IInv, Links, Usable, InStep, OneConnection, StaleEventsHarmless, Alive, link,
       sockets, owed
  <1>7. ASSUME NEW x \in Reqs PROVE Honest(x)' /\ OnSocket(x)'
    <2>1. socket # 0 => socket \in Sockets
      BY DEF IInv, TypeOK
    <2> QED
      BY <1>1, <1>2, <1>3, <1>4, <2>1 DEF IInv, Written, Honest, OnSocket, link, sockets
  <1>8. ASSUME NEW t \in Sockets, NEW x \in Owed(t)' PROVE sent'[x] # "no"
    BY <1>3, <1>4, OwedIs
  <1>9. Turns'
    <2>1. \A x \in ToSet(pendingV1) : x \in Reqs
      BY QueueIs, Legal DEF IInv
    <2> QED
      BY <1>3, <2>1 DEF IInv, Turns
  <1> QED
    BY <1>5, <1>6, <1>7, <1>8, <1>9 DEF IInv, Written

-----------------------------------------------------------------------------
(* Endings. *)

\* Every request that waits for a reply fails with x, those in own with an error
\* of their own write, and those that wait for the connect of s with wait.
EndsAll(s, own, x, wait, gone) ==
    /\ req' = Ended(s, own, Everyone(x), wait, gone)
    /\ pendingV1' = <<>>
    /\ sent' \in [Reqs -> {"no", "buffered", "flushed"}]
    /\ \A r \in Reqs : sent'[r] = sent[r] \/ sent'[r] = "no"
    /\ own \subseteq Pending /\ \A r \in own : sent'[r] = "no"
    /\ x = "unsent" => \A r \in Pending : sent'[r] = "no"

LEMMA EndsAllIs ==
    ASSUME IInv, NEW s, NEW own, NEW x \in {"failed", "unsent"},
           NEW wait \in {"none", "failed", "unsent"}, NEW gone, EndsAll(s, own, x, wait, gone)
    PROVE  /\ req' \in [Reqs -> Requests] /\ Pending' = {}
           /\ \A r \in Reqs : Honest(r)' /\ OnSocket(r)'
           /\ \A r \in Reqs : req'[r].at = "resuming" => req[r].at = "resuming"
           /\ \A r \in Reqs : req[r].res # "none" => req'[r].res = req[r].res
           /\ Turns'
  <1> DEFINE stale(r) == [req[r] EXCEPT !.kind = "stale"]
  <1>1. \A r \in Reqs :
           req'[r] = IF r \in own THEN Done(r, "unsent")
                     ELSE IF r \in Pending THEN Done(r, x)
                     ELSE IF r \in Waiting(s) /\ wait # "none" THEN Done(r, wait)
                     ELSE IF r \in gone THEN stale(r) ELSE req[r]
    BY DEF EndsAll, Ended, Everyone
  <1>2. \A r \in Reqs : /\ req[r] \in Requests /\ stale(r) \in Requests
                        /\ stale(r).at = req[r].at /\ stale(r).res = req[r].res
    BY DEF IInv, TypeOK, Requests, Kinds
  <1>3. {"failed", "unsent"} \subseteq Results
    BY DEF Results
  <1> HIDE DEF stale
  <1>4. \A r \in Reqs : req'[r] \in Requests /\ req'[r].at # "pending"
    BY <1>1, <1>2, <1>3, Legal DEF Pending
  <1>5. req' \in [Reqs -> Requests]
    <2>1. req' = [r \in Reqs |-> req'[r]]
      BY DEF EndsAll, Ended
    <2> HIDE DEF Reqs
    <2> QED
      BY <1>4, <2>1
  <1>6. \A r \in Pending : r \in Reqs /\ req[r].res = "none"
    BY DEF Pending, IInv, Written, Honest
  <1>7. \A r \in Waiting(s) : sent[r] = "no" /\ req[r].res = "none"
    BY DEF Waiting, IInv, Written, Honest
  <1>8. ASSUME NEW r \in Reqs
        PROVE  /\ Honest(r)'
               /\ req'[r].at = "resuming" => req[r].at = "resuming"
               /\ req[r].res # "none" => req'[r].res = req[r].res
    <2>1. Honest(r) /\ (sent'[r] = sent[r] \/ sent'[r] = "no")
      BY DEF IInv, Written, EndsAll
    <2>2. CASE r \in Pending
      <3>1. req'[r].at = "done" /\ req'[r].res \in {"failed", "unsent"}
            /\ (req'[r].res = "unsent" => sent'[r] = "no")
        BY <1>1, <2>2, Legal DEF EndsAll
      <3> QED
        BY <1>6, <2>2, <3>1 DEF Honest
    <2>3. CASE r \notin Pending /\ r \in Waiting(s) /\ wait # "none"
      <3>1. req'[r].at = "done" /\ sent'[r] = "no"
        BY <1>1, <1>7, <2>1, <2>3, Legal DEF EndsAll
      <3> QED
        BY <1>7, <2>3, <3>1 DEF Honest
    <2>4. CASE r \notin Pending /\ ~(r \in Waiting(s) /\ wait # "none")
      <3>1. req'[r].at = req[r].at /\ req'[r].res = req[r].res
        BY <1>1, <1>2, <2>4 DEF EndsAll
      <3> QED
        BY <2>1, <3>1 DEF Honest
    <2> QED
      BY <2>2, <2>3, <2>4
  <1>9. \A r \in Reqs : OnSocket(r)'
    BY <1>4 DEF OnSocket
  <1>10. Turns'
    BY EmptyIs DEF Turns, EndsAll
  <1> QED
    BY <1>4, <1>5, <1>8, <1>9, <1>10 DEF Pending

TypedLink ==
    /\ socket \in Sockets \cup {0} /\ connectPromise \in Sockets \cup {0}
    /\ connected \in BOOLEAN /\ backoff \in BOOLEAN /\ mixed \in BOOLEAN
    /\ phase \in [Sockets -> Phases]
    /\ settled \in [Sockets -> BOOLEAN] /\ armed \in [Sockets -> BOOLEAN]

TypedOwed ==
    /\ owedV1 \in [Sockets -> Seq(Lines)] /\ \A s \in Sockets : IsInjective(owedV1[s])
    /\ owedV2 \in [Sockets -> SUBSET Calls]

LEMMA EndsAllKeeps ==
    ASSUME IInv, NEW s, NEW own, NEW x \in {"failed", "unsent"},
           NEW wait \in {"none", "failed", "unsent"}, NEW gone, EndsAll(s, own, x, wait, gone),
           UNCHANGED part, TypedLink', TypedOwed', Links', InStep',
           \A t \in Sockets : \A r \in Owed(t)' : sent'[r] # "no",
           Quiet \/ socket' = 0
    PROVE  IInv'
  <1>1. /\ req' \in [Reqs -> Requests] /\ Pending' = {}
        /\ \A r \in Reqs : Honest(r)' /\ OnSocket(r)'
        /\ \A r \in Reqs : req'[r].at = "resuming" => req[r].at = "resuming"
        /\ Turns'
    BY EndsAllIs
  <1>2. TypeOK'
    <2>1. pendingV1' = <<>> /\ sent' \in [Reqs -> {"no", "buffered", "flushed"}]
      BY DEF EndsAll
    <2>2. pendingV1' \in Seq(Lines) /\ ToSet(pendingV1') = {} /\ IsInjective(pendingV1')
      BY <2>1, EmptyIs
    <2> QED
      BY <1>1, <2>1, <2>2 DEF IInv, TypeOK, TypedLink, TypedOwed
  <1>3. Usable'
    BY <1>1 DEF Usable, Pending, Quiet
  <1> QED
    BY <1>1, <1>2, <1>3 DEF IInv, Written

LEMMA LostIs ==
    ASSUME IInv, NEW s \in Sockets, Lost(s)
    PROVE  /\ TypedOwed'
           /\ sent' \in [Reqs -> {"no", "buffered", "flushed"}]
           /\ \A r \in Reqs : sent'[r] = IF sent[r] = "buffered" /\ r \in Owed(s) THEN "no"
                                         ELSE sent[r]
           /\ \A t \in Sockets : /\ owedV1'[t] = IF t = s THEN <<>> ELSE owedV1[t]
                                 /\ owedV2'[t] = IF t = s THEN {} ELSE owedV2[t]
                                 /\ Owed(t)' = IF t = s THEN {} ELSE Owed(t)
           /\ \A t \in Sockets : \A r \in Owed(t)' : sent'[r] # "no"
  <1>1. /\ sent' \in [Reqs -> {"no", "buffered", "flushed"}]
        /\ \A r \in Reqs : sent'[r] = IF sent[r] = "buffered" /\ r \in Owed(s) THEN "no"
                                      ELSE sent[r]
    BY DEF Lost, IInv, TypeOK
  <1>2. \A t \in Sockets : /\ owedV1'[t] = IF t = s THEN <<>> ELSE owedV1[t]
                           /\ owedV2'[t] = IF t = s THEN {} ELSE owedV2[t]
    BY DEF Lost, IInv, TypeOK
  <1>3. TypedOwed'
    <2>1. /\ owedV1' = [owedV1 EXCEPT ![s] = <<>>] /\ owedV2' = [owedV2 EXCEPT ![s] = {}]
          /\ owedV1 \in [Sockets -> Seq(Lines)] /\ owedV2 \in [Sockets -> SUBSET Calls]
          /\ <<>> \in Seq(Lines)
      BY EmptyIs DEF Lost, IInv, TypeOK
    <2>2. owedV1' \in [Sockets -> Seq(Lines)] /\ owedV2' \in [Sockets -> SUBSET Calls]
      BY <2>1
    <2>3. \A t \in Sockets : IsInjective(owedV1'[t])
      BY <1>2, EmptyIs DEF IInv, TypeOK
    <2> QED
      BY <2>2, <2>3 DEF TypedOwed
  <1>4. \A t \in Sockets : Owed(t)' = IF t = s THEN {} ELSE Owed(t)
    BY <1>2, EmptyIs DEF Owed
  <1>5. ASSUME NEW t \in Sockets, NEW r \in Owed(t)' PROVE sent'[r] # "no"
    <2>1. t # s /\ r \in Owed(t) /\ r \in Reqs /\ sent[r] # "no" /\ r \notin Owed(s)
      BY <1>4, OwedIs
    <2> QED
      BY <1>1, <2>1
  <1> QED
    BY <1>1, <1>2, <1>3, <1>4, <1>5

\* When the current socket ends, cmux owes nothing any more.
LEMMA NothingOwed ==
    ASSUME IInv, NEW s \in Sockets, s = socket, Lost(s)
    PROVE  \A t \in Sockets : owedV1'[t] = <<>> /\ owedV2'[t] = {}
  BY LostIs DEF IInv, Links, OneConnection, Alive

\* The step that lost s, where s is the current socket, as it concerns requests.
LEMMA AllLost ==
    ASSUME IInv, NEW s \in Sockets, s = socket, Lost(s), NEW own, NEW x, NEW wait, NEW gone,
           req' = Ended(s, own, Everyone(x), wait, gone), LeaveQueue,
           own \subseteq HearsWriteError(s), x = "unsent" => phase[s] # "open"
    PROVE  /\ EndsAll(s, own, x, wait, gone)
           /\ TypedOwed' /\ InStep'
           /\ \A t \in Sockets : owedV1'[t] = <<>> /\ owedV2'[t] = {}
           /\ \A t \in Sockets : \A r \in Owed(t)' : sent'[r] # "no"
  <1>1. /\ TypedOwed'
        /\ sent' \in [Reqs -> {"no", "buffered", "flushed"}]
        /\ \A r \in Reqs : sent'[r] = IF sent[r] = "buffered" /\ r \in Owed(s) THEN "no"
                                      ELSE sent[r]
        /\ \A t \in Sockets : \A r \in Owed(t)' : sent'[r] # "no"
    BY LostIs
  <1>2. \A t \in Sockets : owedV1'[t] = <<>> /\ owedV2'[t] = {}
    BY NothingOwed
  <1>3. InStep'
    BY <1>2, EmptyIs DEF InStep
  <1>4. own \subseteq Pending /\ \A r \in own : r \in Reqs /\ sent'[r] = "no"
    BY <1>1 DEF HearsWriteError, Pending
  <1>5. ASSUME x = "unsent", NEW r \in Pending PROVE sent'[r] = "no"
    <2>1. r \in Reqs /\ sent[r] \in {"no", "buffered", "flushed"} /\ OnSocket(r)
          /\ req[r].at = "pending"
      BY DEF IInv, TypeOK, Written, Pending
    <2> QED
      BY <1>1, <1>5, <2>1 DEF OnSocket
  <1> QED
    BY <1>1, <1>2, <1>3, <1>4, <1>5 DEF EndsAll, LeaveQueue

LEMMA ConnectedKeeps == ASSUME IInv, NEW s \in Sockets, Connected(s) PROVE IInv'
  <1>1. /\ phase[s] = "connecting" /\ s = socket /\ ~settled[s] /\ connectPromise = s /\ s # 0
        /\ Quiet
    BY Legal DEF Connected, IInv, Links, OneConnection
  <1>2. /\ settled' = [settled EXCEPT ![s] = TRUE] /\ phase' = [phase EXCEPT ![s] = "open"]
        /\ connected' = TRUE /\ connectPromise' = 0 /\ backoff' = FALSE
        /\ req' = [r \in Reqs |-> IF r \in Waiting(s)
                                  THEN [req[r] EXCEPT !.at = "resuming", !.on = 0]
                                  ELSE req[r]]
        /\ UNCHANGED <<socket, armed, owed, part, pendingV1, sent, mixed>>
    BY <1>1 DEF Connected
  <1>3. ASSUME NEW r \in Reqs
        PROVE  /\ req'[r] \in Requests /\ req'[r].res = req[r].res
               /\ \/ req'[r] = req[r]
                  \/ req[r].at = "waiting" /\ req'[r].at = "resuming"
    <2>1. CASE r \in Waiting(s)
      BY <1>2, <2>1 DEF Waiting, IInv, TypeOK, Requests, Stages
    <2>2. CASE r \notin Waiting(s)
      BY <1>2, <2>2 DEF IInv, TypeOK
    <2> QED
      BY <2>1, <2>2
  <1>4. req' \in [Reqs -> Requests]
    <2>1. req' = [r \in Reqs |-> req'[r]]
      BY <1>2
    <2> HIDE DEF Reqs
    <2> QED
      BY <1>3, <2>1
  <1>5. Pending' = Pending
    BY <1>3 DEF Pending
  <1>6. \A t \in Sockets : Owed(t)' = Owed(t)
    BY <1>2 DEF Owed, owed
  <1>7. TypeOK'
    BY <1>2, <1>4, <1>5 DEF IInv, TypeOK, owed, Phases
  <1>8. Links'
    BY <1>1, <1>2 DEF IInv, TypeOK, Links, OneConnection, StaleEventsHarmless, Alive, owed
  <1>9. Usable'
    BY <1>1, <1>2 DEF IInv, TypeOK, Usable, Alive
  <1>10. ASSUME NEW r \in Reqs PROVE Honest(r)' /\ OnSocket(r)'
    <2>1. Honest(r) /\ OnSocket(r)
      BY DEF IInv, Written
    <2>2. Honest(r)'
      BY <1>2, <1>3, <2>1 DEF Honest
    <2>3. Owed(socket)' = Owed(socket) /\ phase'[socket] = "open"
      BY <1>1, <1>2, <1>6 DEF IInv, TypeOK
    <2>4. OnSocket(r)'
      BY <1>1, <1>2, <1>3, <2>1, <2>3 DEF OnSocket
    <2> QED
      BY <2>2, <2>4
  <1>11. Turns' /\ InStep' /\ \A t \in Sockets : \A r \in Owed(t)' : sent'[r] # "no"
    BY <1>2, <1>6 DEF IInv, Turns, InStep, Written, owed
  <1> QED
    BY <1>7, <1>8, <1>9, <1>10, <1>11 DEF IInv, Written

\* A current socket that ends, in whichever way, leaves nobody waiting.
LEMMA EndKeeps ==
    ASSUME IInv, NEW s \in Sockets, s = socket, Lost(s), Quiet,
           NEW own, NEW x \in {"failed", "unsent"}, NEW gone,
           req' = Ended(s, own, Everyone(x), "unsent", gone), LeaveQueue,
           own \subseteq HearsWriteError(s), x = "unsent" => phase[s] # "open",
           NEW p \in {"destroyed", "free"}, phase' = [phase EXCEPT ![s] = p],
           armed' = [armed EXCEPT ![s] = FALSE], settled' = [settled EXCEPT ![s] = TRUE],
           backoff' \in BOOLEAN, connected' = FALSE, connectPromise' = 0,
           socket' \in {0, socket}, UNCHANGED <<part, mixed>>
    PROVE  IInv'
  <1>1. /\ EndsAll(s, own, x, "unsent", gone)
        /\ TypedOwed' /\ InStep'
        /\ \A t \in Sockets : owedV1'[t] = <<>> /\ owedV2'[t] = {}
        /\ \A t \in Sockets : \A r \in Owed(t)' : sent'[r] # "no"
    BY AllLost
  <1>2. TypedLink'
    BY DEF IInv, TypeOK, TypedLink, Phases
  <1>3. Links'
    BY <1>1 DEF IInv, TypeOK, Links, OneConnection, StaleEventsHarmless, Alive
  <1> QED
    BY <1>1, <1>2, <1>3, EndsAllKeeps

LEMMA TimesOutKeeps == ASSUME IInv, NEW s \in Sockets, TimesOut(s) PROVE IInv'
  <1> DEFINE x == IF settled[s] THEN "failed" ELSE "unsent"
             none == {}
  <1>1. s = socket /\ Quiet /\ (x = "unsent" => phase[s] # "open") /\ x \in {"failed", "unsent"}
    BY DEF TimesOut, IInv, Links, OneConnection
  <1>2. /\ req' = Ended(s, none, Everyone(x), "unsent", none) /\ LeaveQueue /\ Lost(s)
        /\ phase' = [phase EXCEPT ![s] = "destroyed"]
        /\ armed' = [armed EXCEPT ![s] = FALSE] /\ settled' = [settled EXCEPT ![s] = TRUE]
        /\ connected' = FALSE /\ connectPromise' = 0 /\ UNCHANGED <<socket, part, mixed>>
    BY <1>1 DEF TimesOut
  <1>3. backoff' \in BOOLEAN
    BY DEF TimesOut
  <1>4. none \subseteq HearsWriteError(s)
    OBVIOUS
  <1> HIDE DEF x, none
  <1> QED
    BY <1>1, <1>2, <1>3, <1>4, EndKeeps

LEMMA ErrorsKeeps == ASSUME IInv, NEW s \in Sockets, Errors(s) PROVE IInv'
  <1> DEFINE x == IF settled[s] THEN "failed" ELSE "unsent"
             own == HearsWriteError(s)
  <1>1. s = socket /\ Quiet /\ (x = "unsent" => phase[s] # "open") /\ x \in {"failed", "unsent"}
    BY DEF Errors, IInv, Links, OneConnection
  <1>2. settled[s] => connectPromise = 0
    BY <1>1 DEF IInv, Links, StaleEventsHarmless
  <1>3. /\ req' = Ended(s, own, Everyone(x), "unsent", {}) /\ LeaveQueue /\ Lost(s)
        /\ phase' = [phase EXCEPT ![s] = "destroyed"]
        /\ armed' = [armed EXCEPT ![s] = FALSE] /\ settled' = [settled EXCEPT ![s] = TRUE]
        /\ connected' = FALSE /\ connectPromise' = 0 /\ UNCHANGED <<socket, part, mixed>>
    BY <1>1, <1>2 DEF Errors
  <1>4. backoff' \in BOOLEAN
    BY <1>1 DEF Errors
  <1> HIDE DEF x, own
  <1>5. own \subseteq HearsWriteError(s)
    BY DEF own
  <1> QED
    BY <1>1, <1>3, <1>4, <1>5, EndKeeps

\* The close of a socket that was left before concerns those alone that waited
\* for it.
LEMMA LeftCloses ==
    ASSUME IInv, NEW s \in Sockets, s # socket, Quiet, Lost(s),
           req' = Ended(s, {}, Nobody, "unsent", {}),
           phase' = [phase EXCEPT ![s] = "free"],
           armed' = [armed EXCEPT ![s] = FALSE], settled' = [settled EXCEPT ![s] = TRUE],
           backoff' \in BOOLEAN,
           UNCHANGED <<connectPromise, connected, socket, pendingV1, part, mixed>>
    PROVE  IInv'
  <1>1. ~Alive(s) /\ connectPromise # s
    BY Legal DEF IInv, Links, OneConnection, StaleEventsHarmless, Alive
  <1>2. Owed(s) = {}
    BY <1>1, EmptyIs DEF IInv, Links, Owed
  <1>3. /\ TypedOwed'
        /\ sent' \in [Reqs -> {"no", "buffered", "flushed"}]
        /\ \A r \in Reqs : sent'[r] = sent[r]
        /\ \A t \in Sockets : /\ owedV1'[t] = owedV1[t] /\ owedV2'[t] = owedV2[t]
                              /\ Owed(t)' = Owed(t)
        /\ \A t \in Sockets : \A r \in Owed(t)' : sent'[r] # "no"
    BY <1>1, <1>2, LostIs DEF IInv, Links
  <1>4. ASSUME NEW r \in Reqs
        PROVE  /\ req'[r] \in Requests
               /\ \/ req'[r] = req[r]
                  \/ req[r].at = "waiting" /\ req'[r].at = "done" /\ sent[r] = "no"
    <2>1. req'[r] = IF r \in Waiting(s) THEN Done(r, "unsent") ELSE req[r]
      BY DEF Ended, Nobody
    <2>2. CASE r \in Waiting(s)
      BY <2>1, <2>2, Legal DEF Waiting, Results, IInv, Written, Honest
    <2>3. CASE r \notin Waiting(s)
      BY <2>1, <2>3 DEF IInv, TypeOK
    <2> QED
      BY <2>2, <2>3
  <1>5. req' \in [Reqs -> Requests]
    <2>1. req' = [r \in Reqs |-> req'[r]]
      BY DEF Ended
    <2> HIDE DEF Reqs
    <2> QED
      BY <1>4, <2>1
  <1>6. Pending' = Pending
    BY <1>4 DEF Pending
  <1>7. TypeOK'
    BY <1>3, <1>5, <1>6 DEF IInv, TypeOK, TypedOwed, Phases
  <1>8. Links'
    <2>1. \A t \in Sockets : t # s => phase'[t] = phase[t] /\ settled'[t] = settled[t]
      BY DEF IInv, TypeOK
    <2>2. phase'[s] = "free"
      BY DEF IInv, TypeOK
    <2>3. connectPromise \in Sockets \cup {0}
      BY DEF IInv, TypeOK
    <2> QED
      BY <1>1, <1>3, <2>1, <2>2, <2>3 DEF IInv, Links, OneConnection, StaleEventsHarmless, Alive
  <1>9. socket # 0 => socket \in Sockets /\ phase'[socket] = phase[socket]
    BY DEF IInv, TypeOK
  <1>10. Usable'
    BY <1>4, <1>9 DEF IInv, Usable, Alive
  <1>11. ASSUME NEW r \in Reqs PROVE Honest(r)' /\ OnSocket(r)'
    <2>1. Honest(r) /\ OnSocket(r) /\ sent'[r] = sent[r]
      BY <1>3 DEF IInv, Written
    <2>2. Honest(r)'
      BY <1>4, <2>1 DEF Honest
    <2>3. socket # 0 => Owed(socket)' = Owed(socket)
      BY <1>3, <1>9
    <2>4. OnSocket(r)'
      BY <1>4, <1>9, <2>1, <2>3 DEF OnSocket
    <2> QED
      BY <2>2, <2>4
  <1>12. Turns'
    <2>1. \A r \in ToSet(pendingV1) : r \in Reqs
      BY QueueIs, Legal DEF IInv
    <2> QED
      BY <1>3, <2>1 DEF IInv, Turns
  <1>13. InStep'
    BY <1>3 DEF IInv, InStep
  <1> QED
    BY <1>3, <1>7, <1>8, <1>10, <1>11, <1>12, <1>13 DEF IInv, Written

LEMMA ClosesKeeps == ASSUME IInv, NEW s \in Sockets, Closes(s) PROVE IInv'
  <1>1. /\ Quiet /\ Lost(s)
        /\ phase' = [phase EXCEPT ![s] = "free"]
        /\ armed' = [armed EXCEPT ![s] = FALSE] /\ settled' = [settled EXCEPT ![s] = TRUE]
        /\ backoff' = (backoff \/ ~settled[s])
        /\ UNCHANGED <<part, mixed>>
    BY DEF Closes
  <1>2. backoff' \in BOOLEAN
    BY <1>1
  <1>3. CASE s = socket
    <2> DEFINE none == {}
               gone == Cancelled
               x == "failed"
               p == "free"
    <2>1. settled[s] => connectPromise = 0
      BY <1>3 DEF IInv, Links, StaleEventsHarmless
    <2>2. /\ req' = Ended(s, none, Everyone(x), "unsent", gone) /\ LeaveQueue
          /\ connected' = FALSE /\ connectPromise' = 0 /\ socket' = 0
      BY <1>3, <2>1 DEF Closes, IsCurrent, Told
    <2>3. none \subseteq HearsWriteError(s) /\ x # "unsent" /\ x \in {"failed", "unsent"}
          /\ p \in {"destroyed", "free"} /\ phase' = [phase EXCEPT ![s] = p]
      BY <1>1
    <2> HIDE DEF none, gone, x, p
    <2> QED
      BY <1>1, <1>2, <1>3, <2>2, <2>3, EndKeeps
  <1>4. CASE s # socket
    <2>1. /\ req' = Ended(s, {}, Nobody, "unsent", {})
          /\ UNCHANGED <<connectPromise, connected, socket, pendingV1, part, mixed>>
      BY <1>1, <1>4 DEF Closes, IsCurrent, Told
    <2> QED
      BY <1>1, <1>2, <1>4, <2>1, LeftCloses
  <1> QED
    BY <1>3, <1>4

LEMMA DisconnectKeeps == ASSUME IInv, Disconnect PROVE IInv'
  <1> DEFINE none == {}
             gone == Cancelled
             x == "failed"
             wait == "none"
  <1>1. /\ req' = Ended(socket, none, Everyone(x), wait, gone) /\ LeaveQueue
        /\ socket' = 0 /\ connected' = FALSE /\ connectPromise' = 0
        /\ UNCHANGED <<settled, backoff, part, mixed>>
    BY DEF Disconnect
  <1>2. x \in {"failed", "unsent"} /\ wait \in {"none", "failed", "unsent"} /\ x # "unsent"
        /\ none \subseteq HearsWriteError(socket) /\ none \subseteq Pending
        /\ \A r \in none : sent'[r] = "no"
    OBVIOUS
  <1>3. socket # 0 => socket \in Sockets
    BY DEF IInv, TypeOK
  <1>4. \A t \in Sockets : t # socket => owedV1[t] = <<>> /\ owedV2[t] = {} /\ ~Alive(t)
    BY DEF IInv, Links, OneConnection, Alive
  <1>5. /\ EndsAll(socket, none, x, wait, gone)
        /\ TypedOwed' /\ InStep'
        /\ \A t \in Sockets : owedV1'[t] = <<>> /\ owedV2'[t] = {}
        /\ \A t \in Sockets : \A r \in Owed(t)' : sent'[r] # "no"
        /\ TypedLink' /\ \A t \in Sockets : ~Alive(t)'
    <2>1. CASE socket = 0
      <3>1. UNCHANGED <<phase, armed, sent, owedV1, owedV2>>
        BY <2>1 DEF Disconnect, owed
      <3>2. \A t \in Sockets : owedV1'[t] = <<>> /\ owedV2'[t] = {} /\ ~Alive(t)'
        BY <1>4, <2>1, <3>1, Legal DEF Alive
      <3>3. \A t \in Sockets : Owed(t)' = {}
        BY <3>2, EmptyIs DEF Owed
      <3>4. InStep'
        BY <3>2, EmptyIs DEF InStep
      <3>5. TypedOwed' /\ TypedLink'
        BY <1>1, <3>1 DEF IInv, TypeOK, TypedOwed, TypedLink
      <3>6. EndsAll(socket, none, x, wait, gone)
        BY <1>1, <1>2, <3>1 DEF EndsAll, LeaveQueue, IInv, TypeOK
      <3> QED
        BY <3>2, <3>3, <3>4, <3>5, <3>6
    <2>2. CASE socket # 0
      <3>1. /\ phase' = [phase EXCEPT ![socket] = "destroyed"]
            /\ armed' = [armed EXCEPT ![socket] = FALSE]
            /\ Lost(socket) /\ socket \in Sockets
        BY <1>3, <2>2 DEF Disconnect
      <3>2. \A t \in Sockets : ~Alive(t)'
        BY <1>4, <3>1 DEF Alive, IInv, TypeOK
      <3>3. TypedLink'
        BY <1>1, <3>1 DEF IInv, TypeOK, TypedLink, Phases
      <3> HIDE DEF none, gone, x, wait
      <3>4. /\ EndsAll(socket, none, x, wait, gone)
            /\ TypedOwed' /\ InStep'
            /\ \A t \in Sockets : owedV1'[t] = <<>> /\ owedV2'[t] = {}
            /\ \A t \in Sockets : \A r \in Owed(t)' : sent'[r] # "no"
        BY <1>1, <1>2, <3>1, AllLost
      <3> QED
        BY <3>2, <3>3, <3>4
    <2> QED
      BY <2>1, <2>2
  <1>6. Links'
    BY <1>1, <1>5 DEF Links, OneConnection, StaleEventsHarmless, Alive
  <1> HIDE DEF none, gone, x, wait
  <1> QED
    BY <1>1, <1>2, <1>5, <1>6, EndsAllKeeps

-----------------------------------------------------------------------------
(* Replies. *)

\* cmux answers something it has got: of lines it then owes left.
Reads(left) ==
    /\ left \in [Sockets -> Seq(Lines)] /\ owedV2' \in [Sockets -> SUBSET Calls]
    /\ \A s \in Sockets :
          /\ IsInjective(left[s])
          /\ ToSet(left[s]) \subseteq ToSet(owedV1[s]) /\ owedV2'[s] \subseteq owedV2[s]
          /\ \A r \in ToSet(owedV1[s]) \ ToSet(left[s]) : sent[r] = "flushed"
          /\ \A r \in owedV2[s] \ owedV2'[s] : sent[r] = "flushed"
    /\ armed' \in [Sockets -> BOOLEAN] /\ mixed' \in BOOLEAN
    /\ part' \subseteq Reqs /\ Cardinality(part') <= 1
    /\ UNCHANGED <<link, phase, settled>>

LEMMA ReadsIs ==
    ASSUME IInv, NEW left, Reads(left)
    PROVE  /\ TypedLink'
           /\ \A s \in Sockets : ~Alive(s) => ToSet(left[s]) = {} /\ owedV2'[s] = {}
           /\ \A s \in Sockets : \A r \in ToSet(left[s]) \cup owedV2'[s] : r \in Owed(s)
           /\ \A s \in Sockets : \A r \in Owed(s) :
                 sent[r] = "flushed" \/ r \in ToSet(left[s]) \cup owedV2'[s]
  <1>1. TypedLink'
    BY DEF IInv, TypeOK, TypedLink, Reads, link
  <1>2. \A s \in Sockets : ~Alive(s) => ToSet(left[s]) = {} /\ owedV2'[s] = {}
    BY EmptyIs DEF IInv, Links, Reads
  <1> QED
    BY <1>1, <1>2 DEF Reads, Owed

LEMMA NoElements == ASSUME NEW q \in Seq(Lines), ToSet(q) = {} PROVE q = <<>>
  <1>1. q # <<>> => 1 \in DOMAIN q
    OBVIOUS
  <1> QED
    BY <1>1 DEF ToSet

\* The requests in D end, while no other is written.
LEMMA AnswersKeeps ==
    ASSUME IInv, NEW left, Reads(left), owedV1' = left, UNCHANGED sent,
           NEW D, D \subseteq Pending, NEW x \in {"reply", "failed"},
           req' = [r \in Reqs |-> IF r \in D THEN Done(r, x) ELSE req[r]],
           pendingV1' \in Seq(Lines), IsInjective(pendingV1'),
           ToSet(pendingV1') = ToSet(pendingV1) \ D,
           pendingV1' # <<>> => pendingV1 # <<>> /\ Head(pendingV1') = Head(pendingV1),
           InStep'
    PROVE  IInv'
  <1>1. ASSUME NEW r \in Reqs
        PROVE  /\ req'[r] \in Requests
               /\ r \in D => req[r].at = "pending" /\ req'[r].at = "done" /\ req'[r].res = x
               /\ r \notin D => req'[r] = req[r]
    <2>1. CASE r \in D
      BY <2>1, Legal DEF Results, Pending
    <2>2. CASE r \notin D
      BY <2>2 DEF IInv, TypeOK
    <2> QED
      BY <2>1, <2>2
  <1>2. req' \in [Reqs -> Requests]
    <2>1. req' = [r \in Reqs |-> req'[r]]
      OBVIOUS
    <2> HIDE DEF Reqs
    <2> QED
      BY <1>1, <2>1
  <1>3. Pending' = Pending \ D
    BY <1>1 DEF Pending
  <1>4. /\ TypedLink'
        /\ \A s \in Sockets : ~Alive(s) => ToSet(left[s]) = {} /\ owedV2'[s] = {}
        /\ \A s \in Sockets : \A r \in ToSet(left[s]) \cup owedV2'[s] : r \in Owed(s)
        /\ \A s \in Sockets : \A r \in Owed(s) :
              sent[r] = "flushed" \/ r \in ToSet(left[s]) \cup owedV2'[s]
    BY ReadsIs
  <1>5. \A s \in Sockets : Owed(s)' = ToSet(left[s]) \cup owedV2'[s]
    BY DEF Owed
  <1>6. TypeOK'
    <2>1. ToSet(pendingV1') = Pending' \cap Lines
      BY <1>3 DEF IInv, TypeOK
    <2>2. TypedOwed' /\ part' \subseteq Reqs /\ Cardinality(part') <= 1
      BY DEF Reads, TypedOwed
    <2>3. sent' \in [Reqs -> {"no", "buffered", "flushed"}]
      BY DEF IInv, TypeOK
    <2> QED
      BY <1>2, <1>4, <2>1, <2>2, <2>3 DEF TypeOK, TypedLink, TypedOwed
  <1>7. Links'
    <2>1. \A s \in Sockets : ~Alive(s) => left[s] = <<>> /\ owedV2'[s] = {}
      BY <1>4, NoElements DEF Reads
    <2> QED
      BY <2>1 DEF IInv, Links, OneConnection, StaleEventsHarmless, Alive, Reads, link
  <1>8. Usable'
    BY <1>1 DEF IInv, Usable, Alive, Reads, link
  <1>9. ASSUME NEW r \in Reqs PROVE Honest(r)' /\ OnSocket(r)'
    <2>1. Honest(r) /\ OnSocket(r) /\ (socket # 0 => socket \in Sockets)
      BY DEF IInv, Written, TypeOK
    <2>2. CASE r \in D
      BY <1>1, <2>2 DEF Honest, OnSocket
    <2>3. CASE r \notin D
      <3>1. Honest(r)'
        BY <1>1, <2>1, <2>3 DEF Honest
      <3>2. socket # 0 /\ sent[r] = "buffered" /\ r \in Owed(socket) => r \in Owed(socket)'
        BY <1>4, <1>5, <2>1 DEF Reads, link
      <3>3. req'[r] = req[r] /\ UNCHANGED <<socket, phase, sent>>
        BY <1>1, <2>3 DEF Reads, link
      <3>4. OnSocket(r)'
        BY <2>1, <3>2, <3>3 DEF OnSocket
      <3> QED
        BY <3>1, <3>4
    <2> QED
      BY <2>2, <2>3
  <1>10. ASSUME NEW s \in Sockets, NEW r \in Owed(s)' PROVE sent'[r] # "no"
    BY <1>4, <1>5, OwedIs
  <1>11. Turns'
    <2>1. ASSUME NEW r \in ToSet(pendingV1') PROVE sent'[r] = "no" \/ r = Head(pendingV1')
      <3>1. r \in ToSet(pendingV1) /\ pendingV1' # <<>>
        BY <2>1, EmptyIs
      <3> QED
        BY <3>1 DEF IInv, Turns
    <2> QED
      BY <2>1 DEF Turns
  <1> QED
    BY <1>6, <1>7, <1>8, <1>9, <1>10, <1>11 DEF IInv, Written

\* The head of the V1 queue ends and the next line is written.
LEMMA EndV1Keeps ==
    ASSUME IInv, pendingV1 # <<>>, NEW left, Reads(left),
           NEW x \in {"reply", "other", "failed"}, EndV1(x, left),
           mixed' \/ \A s \in Sockets : left[s] = <<>>
    PROVE  IInv'
  <1> DEFINE head == Head(pendingV1)
             q == Tail(pendingV1)
             next == Next1(q)
             n == Head(q)
  <1>1. /\ head \in Lines /\ head \in Reqs /\ req[head].at = "pending"
        /\ q \in Seq(Lines) /\ IsInjective(q)
        /\ ToSet(q) = ToSet(pendingV1) \ {head}
        /\ q # <<>> => n \in ToSet(q) /\ n \in Lines
    BY TailIs, QueueIs, Legal DEF IInv, TypeOK
  <1>2. socket # 0 => socket \in Sockets /\ Alive(socket)
    BY <1>1 DEF IInv, Usable, TypeOK
  <1>3. \A r \in ToSet(q) : r \in Reqs /\ r \in Lines /\ sent[r] = "no" /\ req[r].at = "pending"
    BY <1>1, QueueIs, Legal DEF IInv, Turns
  <1>4. next = {} \/ (next = {n} /\ socket # 0 /\ q # <<>>)
    BY DEF Next1
  <1>5. /\ pendingV1' = q
        /\ req' = [r \in Reqs |-> IF r = head THEN Done(r, x)
                                  ELSE IF r \in next THEN [req[r] EXCEPT !.on = socket]
                                  ELSE req[r]]
        /\ sent' = [r \in Reqs |-> IF r \in next THEN "buffered" ELSE sent[r]]
        /\ owedV1' = IF next = {} THEN left ELSE [left EXCEPT ![socket] = Append(@, n)]
    BY DEF EndV1
  <1>6. next \subseteq ToSet(q)
    BY <1>1, <1>4
  <1> HIDE DEF head, q, next, n
  <1>7. ASSUME NEW r \in Reqs
        PROVE  /\ req'[r] \in Requests
               /\ sent'[r] = IF r \in next THEN "buffered" ELSE sent[r]
               /\ r = head => req'[r].at = "done" /\ req'[r].res = x
               /\ r \in next => /\ req[r].at = "pending" /\ req'[r].at = "pending"
                                /\ req'[r].on = socket /\ req'[r].res = req[r].res
               /\ r # head /\ r \notin next => req'[r] = req[r]
    <2>1. CASE r = head
      BY <1>5, <1>6, <1>1, <2>1, Legal DEF Results
    <2>2. CASE r # head /\ r \in next
      BY <1>3, <1>4, <1>5, <1>6, <1>2, <2>2 DEF IInv, TypeOK, Requests
    <2>3. CASE r # head /\ r \notin next
      BY <1>5, <2>3 DEF IInv, TypeOK
    <2> QED
      BY <1>1, <1>6, <2>1, <2>2, <2>3
  <1>8. req' \in [Reqs -> Requests] /\ sent' \in [Reqs -> {"no", "buffered", "flushed"}]
    <2>1. req' = [r \in Reqs |-> req'[r]] /\ sent' = [r \in Reqs |-> sent'[r]]
      BY <1>5
    <2>2. \A r \in Reqs : sent'[r] \in {"no", "buffered", "flushed"}
      BY <1>7 DEF IInv, TypeOK
    <2> HIDE DEF Reqs
    <2> QED
      BY <1>7, <2>1, <2>2
  <1>9. Pending' = Pending \ {head}
    BY <1>1, <1>6, <1>7 DEF Pending
  <1>10. /\ TypedLink'
         /\ \A s \in Sockets : ~Alive(s) => ToSet(left[s]) = {} /\ owedV2'[s] = {}
         /\ \A s \in Sockets : \A r \in ToSet(left[s]) \cup owedV2'[s] : r \in Owed(s)
         /\ \A s \in Sockets : \A r \in Owed(s) :
               sent[r] = "flushed" \/ r \in ToSet(left[s]) \cup owedV2'[s]
    BY ReadsIs
  <1>11. /\ owedV1' \in [Sockets -> Seq(Lines)] /\ \A s \in Sockets : IsInjective(owedV1'[s])
         /\ \A s \in Sockets : s # socket => owedV1'[s] = left[s]
         /\ \A s \in Sockets : ToSet(owedV1'[s]) = IF s = socket THEN ToSet(left[s]) \cup next
                                                   ELSE ToSet(left[s])
         /\ next = {n} => owedV1'[socket] = Append(left[socket], n)
    <2>1. CASE next = {}
      BY <1>5, <2>1 DEF Reads
    <2>2. CASE next = {n} /\ socket # 0 /\ q # <<>>
      <3> DEFINE a == Append(left[socket], n)
      <3>1. left[socket] \in Seq(Lines) /\ IsInjective(left[socket])
            /\ n \in Lines /\ n \notin ToSet(left[socket])
        BY <1>1, <1>2, <1>3, <1>10, <2>2, OwedIs DEF Reads
      <3>2. a \in Seq(Lines) /\ IsInjective(a) /\ ToSet(a) = ToSet(left[socket]) \cup {n}
        BY <3>1, AppendIs
      <3>3. owedV1' = [left EXCEPT ![socket] = a]
        BY <1>5, <2>2
      <3>4. left \in [Sockets -> Seq(Lines)]
        BY DEF Reads
      <3> HIDE DEF a
      <3>5. /\ owedV1' \in [Sockets -> Seq(Lines)] /\ owedV1'[socket] = a
            /\ \A s \in Sockets : s # socket => owedV1'[s] = left[s]
        BY <1>2, <2>2, <3>2, <3>3, <3>4
      <3>6. \A s \in Sockets : IsInjective(owedV1'[s])
        BY <3>2, <3>5 DEF Reads
      <3> QED
        BY <2>2, <3>2, <3>5, <3>6 DEF a
    <2> QED
      BY <1>4, <2>1, <2>2
  <1>12. \A s \in Sockets : Owed(s)' = ToSet(left[s]) \cup owedV2'[s]
                                      \cup (IF s = socket THEN next ELSE {})
    BY <1>11 DEF Owed
  <1>13. TypeOK'
    <2>1. ToSet(pendingV1') = Pending' \cap Lines
      BY <1>1, <1>5, <1>9 DEF IInv, TypeOK
    <2>2. TypedOwed' /\ part' \subseteq Reqs /\ Cardinality(part') <= 1
      BY <1>11 DEF Reads, TypedOwed
    <2> QED
      BY <1>1, <1>5, <1>8, <1>10, <2>1, <2>2 DEF TypeOK, TypedLink, TypedOwed
  <1>14. Links'
    <2>1. \A s \in Sockets : ~Alive(s) => owedV1'[s] = <<>> /\ owedV2'[s] = {}
      BY <1>2, <1>10, <1>11, NoElements, Legal DEF Reads
    <2> QED
      BY <2>1 DEF IInv, Links, OneConnection, StaleEventsHarmless, Alive, Reads, link
  <1>15. Usable'
    BY <1>2 DEF Usable, Alive, Reads, link
  <1>16. ASSUME NEW r \in Reqs PROVE Honest(r)' /\ OnSocket(r)'
    <2>1. Honest(r) /\ OnSocket(r)
      BY DEF IInv, Written
    <2>2. UNCHANGED <<socket, phase>>
      BY DEF Reads, link
    <2>3. CASE r = head
      BY <1>7, <2>3 DEF Honest, OnSocket
    <2>4. CASE r \in next
      <3>1. socket # 0 /\ r \in Owed(socket)'
        BY <1>2, <1>4, <1>12, <2>2, <2>4
      <3>2. sent'[r] = "buffered" /\ req'[r].at = "pending" /\ req'[r].on = socket
            /\ req'[r].res = "none"
        BY <1>7, <2>1, <2>4 DEF Honest
      <3> QED
        BY <2>2, <3>1, <3>2 DEF Honest, OnSocket
    <2>5. CASE r # head /\ r \notin next
      <3>1. req'[r] = req[r] /\ sent'[r] = sent[r]
        BY <1>7, <2>5
      <3>2. socket # 0 /\ sent[r] = "buffered" /\ r \in Owed(socket) => r \in Owed(socket)'
        BY <1>2, <1>10, <1>12, <2>2
      <3> QED
        BY <2>1, <2>2, <3>1, <3>2 DEF Honest, OnSocket
    <2> QED
      BY <2>3, <2>4, <2>5
  <1>17. ASSUME NEW s \in Sockets, NEW r \in Owed(s)' PROVE sent'[r] # "no"
    <2>1. r \in next \/ (r \in Reqs /\ sent[r] # "no")
      BY <1>10, <1>12, OwedIs
    <2> QED
      BY <1>3, <1>6, <1>7, <2>1
  <1>18. Turns'
    <2>1. ASSUME NEW r \in ToSet(q) PROVE sent'[r] = "no" \/ r = n
      BY <1>3, <1>4, <1>7, <2>1
    <2> QED
      BY <1>5, <2>1 DEF Turns, n
  <1>19. InStep'
    <2>1. ASSUME ~mixed', NEW s \in Sockets
          PROVE  /\ Len(owedV1'[s]) <= 1
                 /\ owedV1'[s] # <<>> => q # <<>> /\ Head(owedV1'[s]) = n
      <3>1. left[s] = <<>>
        BY <2>1
      <3>2. CASE s = socket /\ next = {n} /\ q # <<>>
        <4>1. owedV1'[s] = Append(<<>>, n)
          BY <1>11, <3>1, <3>2
        <4>2. Len(owedV1'[s]) = 1 /\ Head(owedV1'[s]) = n
          BY <4>1
        <4> QED
          BY <3>2, <4>2
      <3>3. CASE ~(s = socket /\ next = {n} /\ q # <<>>)
        <4>1. ToSet(owedV1'[s]) = {}
          BY <1>4, <1>11, <3>1, <3>3, EmptyIs
        <4>2. owedV1'[s] = <<>>
          BY <1>11, <4>1, NoElements
        <4> QED
          BY <4>2, EmptyIs
      <3> QED
        BY <3>2, <3>3
    <2> QED
      BY <1>5, <2>1 DEF InStep, n
  <1> QED
    BY <1>13, <1>14, <1>15, <1>16, <1>17, <1>18, <1>19 DEF IInv, Written

\* V2 requests end, or none does; no line is concerned.
LEMMA EndsSomeKeeps ==
    ASSUME IInv, NEW left, Reads(left), owedV1' = left, UNCHANGED <<pendingV1, sent>>,
           NEW D, D \subseteq Pending \cap Calls, NEW x \in {"reply", "failed"},
           req' = [r \in Reqs |-> IF r \in D THEN Done(r, x) ELSE req[r]],
           mixed' \/ \A s \in Sockets : left[s] = <<>> \/ (~mixed /\ left[s] = owedV1[s])
    PROVE  IInv'
  <1>1. /\ pendingV1' \in Seq(Lines) /\ IsInjective(pendingV1')
        /\ pendingV1' # <<>> => pendingV1 # <<>> /\ Head(pendingV1') = Head(pendingV1)
    BY DEF IInv, TypeOK
  <1>2. ToSet(pendingV1') = ToSet(pendingV1) \ D
    BY QueueIs, Legal DEF IInv
  <1>3. InStep'
    <2>1. ASSUME ~mixed', NEW s \in Sockets
          PROVE  /\ Len(left[s]) <= 1
                 /\ left[s] # <<>> => pendingV1 # <<>> /\ Head(left[s]) = Head(pendingV1)
      <3>1. CASE left[s] = <<>>
        BY <3>1, EmptyIs
      <3>2. CASE ~mixed /\ left[s] = owedV1[s]
        BY <3>2 DEF IInv, InStep
      <3> QED
        BY <2>1, <3>1, <3>2
    <2> QED
      BY <2>1 DEF InStep
  <1>4. D \subseteq Pending
    OBVIOUS
  <1> QED
    BY <1>1, <1>2, <1>3, <1>4, AnswersKeeps

LEMMA ReqsStay ==
    ASSUME IInv, NEW x
    PROVE  req = [r \in Reqs |-> IF r \in {} THEN Done(r, x) ELSE req[r]]
  BY DEF IInv, TypeOK

\* What a frame does to the requests, when cmux then owes left of the lines.
Frame(left) ==
    \/ \E x \in {"reply", "other", "failed"} : pendingV1 # <<>> /\ EndV1(x, left)
    \/ EndCalls("failed", left)
    \/ Ignored(left)

LEMMA FrameKeeps ==
    ASSUME IInv, NEW left, Reads(left), Frame(left),
           mixed' \/ \A s \in Sockets : left[s] = <<>>
    PROVE  IInv'
  <1>1. ASSUME NEW x \in {"reply", "other", "failed"}, pendingV1 # <<>>, EndV1(x, left)
        PROVE  IInv'
    BY <1>1, EndV1Keeps
  <1>2. CASE EndCalls("failed", left)
    <2> DEFINE D == Pending \cap Calls
               x == "failed"
    <2>1. /\ owedV1' = left /\ UNCHANGED <<pendingV1, sent>>
          /\ req' = [r \in Reqs |-> IF r \in D THEN Done(r, x) ELSE req[r]]
          /\ D \subseteq Pending \cap Calls /\ x \in {"reply", "failed"}
      BY <1>2 DEF EndCalls
    <2> HIDE DEF D, x
    <2> QED
      BY <2>1, EndsSomeKeeps
  <1>3. CASE Ignored(left)
    <2> DEFINE D == {}
               x == "failed"
    <2>1. /\ owedV1' = left /\ UNCHANGED <<pendingV1, sent>> /\ req' = req
          /\ D \subseteq Pending \cap Calls /\ x \in {"reply", "failed"}
      BY <1>3 DEF Ignored
    <2>2. req' = [r \in Reqs |-> IF r \in D THEN Done(r, x) ELSE req[r]]
      BY <2>1, ReqsStay
    <2> HIDE DEF D, x
    <2> QED
      BY <2>1, <2>2, EndsSomeKeeps
  <1> QED
    BY <1>1, <1>2, <1>3 DEF Frame

LEMMA FramesAre ==
    ASSUME NEW left
    PROVE  /\ MalformedFrame(left) => Frame(left)
           /\ \A of : PlainFrame(of, left) => Frame(left)
  BY DEF MalformedFrame, PlainFrame, Frame

-----------------------------------------------------------------------------
(* The steps that read. *)

\* What reading leaves of what cmux owes.
LEMMA StillReads ==
    ASSUME IInv, owedV2' = owedV2, armed' \in [Sockets -> BOOLEAN], mixed' \in BOOLEAN,
           part' \subseteq Reqs, Cardinality(part') <= 1, UNCHANGED <<link, phase, settled>>
    PROVE  Reads(owedV1)
  BY DEF IInv, TypeOK, Reads

\* The answer to r has come.
Left(s, r) == IF r \in Lines THEN [owedV1 EXCEPT ![s] = Tail(@)] ELSE owedV1

LEMMA AnswerReads ==
    ASSUME IInv, NEW s \in Sockets, NEW r \in Owed(s), sent[r] = "flushed",
           r \in Lines => r = Head(owedV1[s]),
           owedV2' = [owedV2 EXCEPT ![s] = @ \ {r}],
           armed' \in [Sockets -> BOOLEAN], mixed' \in BOOLEAN,
           part' \subseteq Reqs, Cardinality(part') <= 1, UNCHANGED <<link, phase, settled>>
    PROVE  /\ Reads(Left(s, r))
           /\ r \in Lines /\ ~mixed => /\ pendingV1 # <<>> /\ Head(pendingV1) = r
                                       /\ \A t \in Sockets : Left(s, r)[t] = <<>>
  <1> DEFINE left == Left(s, r)
             q == owedV1[s]
             u == Tail(q)
  <1>1. /\ q \in Seq(Lines) /\ IsInjective(q)
        /\ owedV1 \in [Sockets -> Seq(Lines)] /\ owedV2 \in [Sockets -> SUBSET Calls]
    BY DEF IInv, TypeOK
  <1>2. /\ owedV2' \in [Sockets -> SUBSET Calls]
        /\ \A t \in Sockets : owedV2'[t] = IF t = s THEN owedV2[s] \ {r} ELSE owedV2[t]
    BY <1>1
  <1>3. \A t \in Sockets : /\ owedV2'[t] \subseteq owedV2[t]
                           /\ \A x \in owedV2[t] \ owedV2'[t] : sent[x] = "flushed"
    BY <1>2
  <1>4. CASE r \in Lines
    <2>1. r \in ToSet(q) /\ q # <<>> /\ r = Head(q)
      BY <1>4, OwedIs, EmptyIs
    <2>2. u \in Seq(Lines) /\ IsInjective(u) /\ ToSet(u) = ToSet(q) \ {r} /\ Len(u) = Len(q) - 1
      BY <1>1, <2>1, TailIs
    <2>3. left = [owedV1 EXCEPT ![s] = u]
      BY <1>4 DEF Left
    <2> HIDE DEF left, u
    <2>4. /\ left \in [Sockets -> Seq(Lines)]
          /\ \A t \in Sockets : left[t] = IF t = s THEN u ELSE owedV1[t]
      BY <1>1, <2>2, <2>3
    <2>5. \A t \in Sockets :
             /\ IsInjective(left[t]) /\ ToSet(left[t]) \subseteq ToSet(owedV1[t])
             /\ \A x \in ToSet(owedV1[t]) \ ToSet(left[t]) : sent[x] = "flushed"
      BY <2>2, <2>4 DEF IInv, TypeOK
    <2>6. Reads(left)
      BY <1>2, <1>3, <2>4, <2>5 DEF Reads
    <2>7. ASSUME ~mixed
          PROVE  /\ pendingV1 # <<>> /\ Head(pendingV1) = r
                 /\ \A t \in Sockets : left[t] = <<>>
      <3>1. Len(q) <= 1 /\ pendingV1 # <<>> /\ Head(pendingV1) = r
        BY <2>1, <2>7 DEF IInv, InStep
      <3>2. u = <<>>
        BY <1>1, <2>2, <3>1
      <3>3. \A t \in Sockets : t # s => owedV1[t] = <<>>
        BY OwedIs DEF IInv, Links, OneConnection, Alive
      <3> QED
        BY <2>4, <3>1, <3>2, <3>3
    <2> QED
      BY <2>6, <2>7 DEF left
  <1>5. CASE r \notin Lines
    <2>1. left = owedV1
      BY <1>5 DEF Left
    <2>2. Reads(owedV1)
      BY <1>2, <1>3 DEF IInv, TypeOK, Reads
    <2> QED
      BY <1>5, <2>1, <2>2
  <1> QED
    BY <1>4, <1>5

LEMMA RequestTimesOutKeeps == ASSUME IInv, NEW r \in Reqs, RequestTimesOut(r) PROVE IInv'
  <1>1. /\ req[r].at = "pending" /\ r \in Pending
        /\ mixed' = (mixed \/ (r \in Lines /\ sent[r] # "no"))
        /\ UNCHANGED <<link, sockets, owedV2, part>>
    BY DEF RequestTimesOut, Pending
  <1>2. Reads(owedV1)
    <2>1. armed' \in [Sockets -> BOOLEAN] /\ mixed' \in BOOLEAN /\ part' \subseteq Reqs
          /\ Cardinality(part') <= 1 /\ UNCHANGED <<phase, settled>>
      BY <1>1 DEF IInv, TypeOK, sockets
    <2> QED
      BY <1>1, <2>1, StillReads
  <1>3. CASE pendingV1 # <<>> /\ r = Head(pendingV1)
    <2> DEFINE left == owedV1
               x == "failed"
    <2>1. EndV1(x, left) /\ x \in {"reply", "other", "failed"} /\ Reads(left)
      BY <1>2, <1>3 DEF RequestTimesOut
    <2>2. ASSUME ~mixed', NEW s \in Sockets PROVE left[s] = <<>>
      <3>1. ~mixed /\ sent[r] = "no"
        BY <1>1, <1>3, <2>2, QueueIs DEF IInv
      <3>2. r \notin Owed(s)
        BY <3>1, OwedIs
      <3>3. owedV1[s] # <<>> => r \in ToSet(owedV1[s])
        BY <1>3, <3>1, TailIs DEF IInv, InStep, TypeOK
      <3> QED
        BY <3>2, <3>3 DEF Owed
    <2> HIDE DEF left, x
    <2> QED
      BY <1>3, <2>1, <2>2, EndV1Keeps
  <1>4. CASE ~(pendingV1 # <<>> /\ r = Head(pendingV1))
    <2> DEFINE D == {r}
               x == "failed"
               left == owedV1
    <2>1. /\ req' = [req EXCEPT ![r] = Done(r, x)]
          /\ pendingV1' = Without(pendingV1, r) /\ UNCHANGED <<sent, owedV1>>
      BY <1>4 DEF RequestTimesOut
    <2>2. req' = [y \in Reqs |-> IF y \in D THEN Done(y, x) ELSE req[y]]
      BY <2>1 DEF IInv, TypeOK
    <2>3. /\ pendingV1' \in Seq(Lines) /\ IsInjective(pendingV1')
          /\ ToSet(pendingV1') = ToSet(pendingV1) \ D
          /\ pendingV1 # <<>> => pendingV1' # <<>> /\ Head(pendingV1') = Head(pendingV1)
      BY <1>4, <2>1, WithoutIs DEF IInv, TypeOK
    <2>4. pendingV1 = <<>> => pendingV1' = <<>>
      BY <2>3, EmptyIs, NoElements
    <2>5. InStep'
      <3>1. mixed' \/ ~mixed
        BY <1>1
      <3> QED
        BY <2>1, <2>3, <3>1 DEF IInv, InStep
    <2>6. D \subseteq Pending /\ x \in {"reply", "failed"} /\ owedV1' = left /\ Reads(left)
      BY <1>1, <1>2, <2>1
    <2> HIDE DEF D, x, left
    <2> QED
      BY <2>1, <2>2, <2>3, <2>4, <2>5, <2>6, AnswersKeeps
  <1> QED
    BY <1>3, <1>4

LEMMA ReplyKeeps == ASSUME IInv, NEW s \in Sockets, NEW r \in Reqs, Reply(s, r) PROVE IInv'
  <1> DEFINE left == Left(s, r)
  <1>1. /\ r \in Owed(s) /\ sent[r] = "flushed" /\ (r \in Lines => r = Head(owedV1[s]))
        /\ owedV2' = [owedV2 EXCEPT ![s] = @ \ {r}]
        /\ armed' = [armed EXCEPT ![s] = FALSE] /\ mixed' = (mixed \/ Inherited)
        /\ part' = {} /\ UNCHANGED <<link, phase, settled>>
    BY DEF Reply, Answerable
  <1>2. /\ armed' \in [Sockets -> BOOLEAN] /\ mixed' \in BOOLEAN
        /\ part' \subseteq Reqs /\ Cardinality(part') <= 1
    BY <1>1, FS_EmptySet DEF IInv, TypeOK
  <1>3. /\ Reads(left)
        /\ r \in Lines /\ ~mixed => /\ pendingV1 # <<>> /\ Head(pendingV1) = r
                                    /\ \A t \in Sockets : left[t] = <<>>
    BY <1>1, <1>2, AnswerReads
  <1>4. IF Inherited
        THEN IF part \subseteq Calls THEN MalformedFrame(left) ELSE PlainFrame({}, left)
        ELSE IF r \in Calls THEN ResponseFrame(r) ELSE PlainFrame({r}, left)
    BY DEF Reply, Left
  <1>5. CASE Inherited \/ r \notin Calls
    <2>1. Frame(left)
      BY <1>4, <1>5, FramesAre
    <2>2. mixed' \/ \A t \in Sockets : left[t] = <<>>
      BY <1>1, <1>3, <1>5, Legal
    <2> HIDE DEF left
    <2> QED
      BY <1>3, <2>1, <2>2, FrameKeeps
  <1>6. CASE ~Inherited /\ r \in Calls
    <2> DEFINE D == {r} \cap Pending
               x == "reply"
    <2>1. left = owedV1
      BY <1>6, Legal DEF Left
    <2>2. /\ owedV1' = owedV1 /\ UNCHANGED <<pendingV1, sent>>
          /\ req' = [y \in Reqs |-> IF y \in D THEN Done(y, x) ELSE req[y]]
      BY <1>4, <1>6 DEF ResponseFrame, LateResponse, Ignored, IInv, TypeOK
    <2>3. D \subseteq Pending \cap Calls /\ x \in {"reply", "failed"}
      BY <1>6
    <2>4. mixed' \/ ~mixed
      BY <1>1
    <2> HIDE DEF D, x, left
    <2> QED
      BY <1>3, <2>1, <2>2, <2>3, <2>4, EndsSomeKeeps
  <1> QED
    BY <1>5, <1>6

LEMMA FragmentKeeps ==
    ASSUME IInv, NEW s \in Sockets, NEW r \in Reqs, Fragment(s, r) PROVE IInv'
  <1> DEFINE D == {}
             x == "failed"
             left == owedV1
  <1>1. /\ armed' = [armed EXCEPT ![s] = FALSE] /\ part' = {r}
        /\ UNCHANGED <<link, phase, settled, owed, pendingV1, req, sent, mixed>>
    BY DEF Fragment
  <1>2. Cardinality(part') <= 1
    <2>1. Cardinality({r}) = 1
      BY FS_Singleton
    <2> QED
      BY <1>1, <2>1
  <1>3. /\ armed' \in [Sockets -> BOOLEAN] /\ mixed' \in BOOLEAN /\ part' \subseteq Reqs
        /\ owedV2' = owedV2 /\ owedV1' = owedV1
    BY <1>1 DEF IInv, TypeOK, owed
  <1>4. Reads(left)
    BY <1>1, <1>2, <1>3, StillReads
  <1>5. req' = [y \in Reqs |-> IF y \in D THEN Done(y, x) ELSE req[y]]
    BY <1>1, ReqsStay
  <1>6. D \subseteq Pending \cap Calls /\ x \in {"reply", "failed"} /\ owedV1' = left
        /\ \A t \in Sockets : left[t] = owedV1[t]
    BY <1>3
  <1>7. mixed' \/ ~mixed
    BY <1>1
  <1> HIDE DEF D, x, left
  <1> QED
    BY <1>1, <1>4, <1>5, <1>6, <1>7, EndsSomeKeeps

LEMMA UnsolicitedKeeps ==
    ASSUME IInv, NEW s \in Sockets, NEW kind \in {"status", "malformed", "denial"},
           Unsolicited(s, kind)
    PROVE  IInv'
  <1> DEFINE left == owedV1
  <1>1. /\ Quiet /\ armed' = [armed EXCEPT ![s] = FALSE] /\ mixed' = TRUE
        /\ UNCHANGED <<link, phase, settled, owedV2, part>>
    BY DEF Unsolicited
  <1>2. armed' \in [Sockets -> BOOLEAN] /\ mixed' \in BOOLEAN /\ part' \subseteq Reqs
        /\ Cardinality(part') <= 1
    BY <1>1 DEF IInv, TypeOK
  <1>3. Reads(left)
    BY <1>1, <1>2, StillReads
  <1>4. CASE kind # "denial"
    <2>1. Frame(left)
      BY <1>4, FramesAre DEF Unsolicited, Frame
    <2> HIDE DEF left
    <2> QED
      BY <1>1, <1>3, <2>1, FrameKeeps
  <1>5. CASE kind = "denial"
    <2> DEFINE none == {}
               x == "failed"
               wait == "none"
    <2>1. /\ req' = Ended(s, none, Everyone(x), wait, none) /\ LeaveQueue
          /\ UNCHANGED <<owedV1, sent>>
      BY <1>5 DEF Unsolicited
    <2>2. x \in {"failed", "unsent"} /\ wait \in {"none", "failed", "unsent"} /\ x # "unsent"
          /\ none \subseteq Pending /\ \A r \in none : sent'[r] = "no"
      OBVIOUS
    <2>3. EndsAll(s, none, x, wait, none)
      BY <2>1, <2>2 DEF EndsAll, LeaveQueue, IInv, TypeOK
    <2>4. TypedLink' /\ TypedOwed'
      BY <1>1, <1>2, <2>1 DEF IInv, TypeOK, TypedLink, TypedOwed, link
    <2>5. Links'
      BY <1>1, <2>1 DEF IInv, Links, OneConnection, StaleEventsHarmless, Alive, link
    <2>6. InStep'
      BY <1>1 DEF InStep
    <2>7. \A t \in Sockets : \A r \in Owed(t)' : sent'[r] # "no"
      BY <1>1, <2>1 DEF IInv, Written, Owed
    <2>8. part' = part
      BY <1>1
    <2> HIDE DEF none, x, wait
    <2> QED
      BY <1>1, <2>2, <2>3, <2>4, <2>5, <2>6, <2>7, <2>8, EndsAllKeeps
  <1> QED
    BY <1>4, <1>5

-----------------------------------------------------------------------------
(* The theorems. *)

LEMMA InitHolds == Init => IInv
  <1> SUFFICES ASSUME Init PROVE IInv
    OBVIOUS
  <1>1. \A r \in Reqs : req[r] = New /\ sent[r] = "no"
    BY DEF Init
  <1>2. Pending = {}
    BY <1>1, Legal DEF Pending
  <1>3. \A s \in Sockets : owedV1[s] = <<>> /\ owedV2[s] = {} /\ phase[s] = "free"
    BY DEF Init
  <1>4. \A s \in Sockets : Owed(s) = {}
    BY <1>3, EmptyIs DEF Owed
  <1>5. TypeOK
    <2>1. Cardinality({}) = 0
      BY FS_EmptySet
    <2>2. part \subseteq Reqs /\ Cardinality(part) <= 1
      BY <2>1 DEF Init
    <2>3. TypedLink
      BY DEF Init, TypedLink, Phases
    <2>4. TypedOwed
      BY <1>3, EmptyIs DEF Init, TypedOwed
    <2>5. /\ pendingV1 \in Seq(Lines)
          /\ ToSet(pendingV1) = Pending \cap Lines /\ IsInjective(pendingV1)
      BY <1>2, EmptyIs DEF Init
    <2>6. req \in [Reqs -> Requests] /\ sent \in [Reqs -> {"no", "buffered", "flushed"}]
      BY Legal DEF Init
    <2> QED
      BY <2>2, <2>3, <2>4, <2>5, <2>6 DEF TypeOK, TypedLink, TypedOwed
  <1>6. Links
    BY <1>3 DEF Init, Links, OneConnection, StaleEventsHarmless, Alive
  <1>7. Usable /\ Written /\ Turns
    BY <1>1, <1>4, Legal, EmptyIs DEF Init, Usable, Written, Honest, OnSocket, Turns
  <1>8. InStep
    BY <1>3, EmptyIs DEF InStep
  <1> QED
    BY <1>5, <1>6, <1>7, <1>8 DEF IInv

LEMMA StutterKeeps == IInv /\ UNCHANGED vars => IInv'
  <1> SUFFICES ASSUME IInv, UNCHANGED vars PROVE IInv'
    OBVIOUS
  <1>1. UNCHANGED <<socket, connected, connectPromise, backoff, phase, settled, armed,
                    owedV1, owedV2, part, pendingV1, req, sent, mixed>>
    BY DEF vars, link, sockets, owed
  <1>2. Pending' = Pending /\ \A s \in Sockets : Owed(s)' = Owed(s)
    BY <1>1 DEF Pending, Owed
  <1>3. TypeOK'
    BY <1>1, <1>2 DEF IInv, TypeOK
  <1>4. Links' /\ Usable' /\ Turns' /\ InStep'
    BY <1>1 DEF IInv, Links, OneConnection, StaleEventsHarmless, Alive, Usable, Turns, InStep
  <1>5. Written'
    BY <1>1, <1>2 DEF IInv, Written, Honest, OnSocket, Owed
  <1> QED
    BY <1>3, <1>4, <1>5 DEF IInv

LEMMA NextKeeps == IInv /\ [Next]_vars => IInv'
  <1> SUFFICES ASSUME IInv, [Next]_vars PROVE IInv'
    OBVIOUS
  <1>1. ASSUME NEW r \in Reqs, Call(r, "plain") \/ Call(r, "poll") PROVE IInv'
    BY <1>1, CallKeeps
  <1>2. ASSUME NEW r \in Reqs, RequestStep(r) \/ Flush(r) PROVE IInv'
    BY <1>2, BackoffEndsKeeps, ResumeKeeps, WriteThrowsKeeps, RequestTimesOutKeeps, FlushKeeps
       DEF RequestStep
  <1>3. ASSUME NEW s \in Sockets, SocketStep(s) PROVE IInv'
    BY <1>3, ConnectedKeeps, TimesOutKeeps, ErrorsKeeps, ClosesKeeps DEF SocketStep
  <1>4. ASSUME NEW s \in Sockets, NEW r \in Reqs, Reply(s, r) \/ Fragment(s, r) PROVE IInv'
    BY <1>4, ReplyKeeps, FragmentKeeps
  <1>5. ASSUME NEW s \in Sockets, NEW kind \in {"status", "malformed", "denial"},
               Unsolicited(s, kind)
        PROVE  IInv'
    BY <1>5, UnsolicitedKeeps
  <1>6. Disconnect => IInv'
    BY DisconnectKeeps
  <1>7. UNCHANGED vars => IInv'
    BY StutterKeeps
  <1> QED
    BY <1>1, <1>2, <1>3, <1>4, <1>5, <1>6, <1>7 DEF Next

LEMMA Invariance == Spec => []IInv
  BY InitHolds, NextKeeps, PTL DEF Spec

(***************************************************************************)
(* Whichever order the events of old and new sockets come in, connected    *)
(* means that the current socket is open, a promise that callers join is   *)
(* that of the current socket, no other socket is left connecting or open, *)
(* and every request that was written and waits for its reply is on the    *)
(* current socket, whose end rejects it (the listeners of connect).        *)
(***************************************************************************)
THEOREM SocketsAgree == Spec => []Consistent
  <1>1. IInv => Consistent
    <2> SUFFICES ASSUME IInv, NEW r \in Pending, sent[r] # "no"
                 PROVE  /\ socket # 0 /\ req[r].on = socket
                        /\ phase[socket] \in {"connecting", "open"}
      BY DEF IInv, Links, Consistent, PendingOnCurrent
    <2>1. r \in Reqs /\ req[r].at = "pending"
      BY DEF Pending
    <2>2. socket # 0 /\ req[r].on = socket
      BY <2>1 DEF IInv, Written, OnSocket
    <2> QED
      BY <2>1, <2>2 DEF IInv, Usable, Alive
  <1> QED
    BY <1>1, Invariance, PTL

(***************************************************************************)
(* cmux never got a request that is reported failed in the connect or the  *)
(* write phase: the phases on which canRetryPayload sends it again.        *)
(***************************************************************************)
THEOREM UnsentIsHonest == Spec => []UnsentPhasesAreHonest
  <1>1. IInv => UnsentPhasesAreHonest
    BY DEF IInv, Written, Honest, UnsentPhasesAreHonest
  <1> QED
    BY <1>1, Invariance, PTL

\* No request is given another's reply, or the connection is confused.
NoMixup == mixed' \/ \A r \in Reqs : req'[r].res = "other" => req[r].res = "other"

LEMMA CallMixesNothing ==
    ASSUME IInv, NEW r \in Reqs, NEW rq \in [Reqs -> Requests],
           \A x \in Reqs : rq[x].res = req[x].res, Connect(r, rq)
    PROVE  NoMixup
  <1>1. ASSUME NEW x \in Reqs PROVE req'[x].res = rq[x].res
    BY DEF Connect, Requests
  <1> QED
    BY <1>1 DEF NoMixup

\* r alone ends, with a result of its own.
LEMMA EndMixesNothing ==
    ASSUME IInv, NEW r \in Reqs, NEW x \in {"reply", "failed", "unsent"},
           req' = [req EXCEPT ![r] = Done(r, x)]
    PROVE  NoMixup
  <1>1. \A y \in Reqs : req'[y] = IF y = r THEN Done(r, x) ELSE req[y]
    BY DEF IInv, TypeOK
  <1> QED
    BY <1>1, Legal DEF NoMixup

LEMMA EndedMixesNothing ==
    ASSUME IInv, NEW s, NEW own, NEW all, NEW wait \in {"none", "failed", "unsent"}, NEW gone,
           all.res # "other", req' = Ended(s, own, all, wait, gone)
    PROVE  NoMixup
  <1> SUFFICES ASSUME NEW r \in Reqs, req'[r].res = "other" PROVE req[r].res = "other"
    BY DEF NoMixup
  <1> DEFINE stale == [req[r] EXCEPT !.kind = "stale"]
  <1>1. stale.res = req[r].res
    BY DEF IInv, TypeOK, Requests
  <1>2. req'[r] = IF r \in own THEN Done(r, "unsent")
                  ELSE IF r \in all.of THEN Done(r, all.res)
                  ELSE IF r \in Waiting(s) /\ wait # "none" THEN Done(r, wait)
                  ELSE IF r \in gone THEN stale ELSE req[r]
    BY DEF Ended
  <1> HIDE DEF stale
  <1> QED
    BY <1>1, <1>2, Legal

LEMMA EndV1MixesNothing ==
    ASSUME IInv, pendingV1 # <<>>, NEW left, NEW x \in {"reply", "failed"}, EndV1(x, left)
    PROVE  NoMixup
  <1> DEFINE head == Head(pendingV1)
             next == Next1(Tail(pendingV1))
  <1>1. req' = [r \in Reqs |-> IF r = head THEN Done(r, x)
                               ELSE IF r \in next THEN [req[r] EXCEPT !.on = socket]
                               ELSE req[r]]
    BY DEF EndV1
  <1> HIDE DEF head, next
  <1>2. ASSUME NEW r \in Reqs PROVE req'[r].res \in {x, req[r].res}
    <2>1. CASE r = head
      BY <1>1, <2>1, Legal
    <2>2. CASE r # head
      BY <1>1, <2>2 DEF IInv, TypeOK, Requests
    <2> QED
      BY <2>1, <2>2
  <1> QED
    BY <1>2 DEF NoMixup

LEMMA NextMixesNothing == IInv /\ Next => NoMixup
  <1> SUFFICES ASSUME IInv, Next PROVE NoMixup
    OBVIOUS
  <1>1. req \in [Reqs -> Requests]
    BY DEF IInv, TypeOK
  <1>2. ASSUME NEW r \in Reqs, NEW kind \in {"plain", "poll"}, Call(r, kind) PROVE NoMixup
    <2> DEFINE begun == [req EXCEPT ![r].kind = kind]
    <2>1. begun \in [Reqs -> Requests] /\ \A x \in Reqs : begun[x].res = req[x].res
      BY <1>1 DEF Requests, Kinds
    <2>2. CASE req' = [req EXCEPT ![r] = Done(r, "failed")]
      BY <2>2, EndMixesNothing
    <2>3. CASE req' = [begun EXCEPT ![r].at = "backoff"]
      BY <2>1, <2>3 DEF NoMixup, Requests
    <2>4. CASE Connect(r, begun)
      <3> HIDE DEF begun
      <3> QED
        BY <2>1, <2>4, CallMixesNothing
    <2> QED
      BY <1>2, <2>2, <2>3, <2>4 DEF Call
  <1>3. ASSUME NEW r \in Reqs, BackoffEnds(r) PROVE NoMixup
    <2>1. CASE Outdated(r)
      BY <1>3, <2>1, EndMixesNothing DEF BackoffEnds
    <2>2. CASE ~Outdated(r)
      BY <1>1, <1>3, <2>2, CallMixesNothing DEF BackoffEnds
    <2> QED
      BY <2>1, <2>2
  <1>4. ASSUME NEW r \in Reqs, Resume(r) PROVE NoMixup
    <2>1. CASE \E x \in {"failed", "unsent"} : req' = [req EXCEPT ![r] = Done(r, x)]
      BY <2>1, EndMixesNothing
    <2>2. ASSUME NEW n, req' = [req EXCEPT ![r].at = "pending", ![r].on = n] PROVE NoMixup
      BY <1>1, <2>2 DEF NoMixup, Requests
    <2> QED
      BY <1>4, <2>1, <2>2 DEF Resume
  <1>5. ASSUME NEW r \in Reqs, WriteThrows(r) PROVE NoMixup
    BY <1>5, EndMixesNothing DEF WriteThrows
  <1>6. ASSUME NEW r \in Reqs, Flush(r) PROVE NoMixup
    BY <1>6 DEF Flush, NoMixup
  <1>7. ASSUME NEW r \in Reqs, RequestTimesOut(r) PROVE NoMixup
    <2>1. CASE pendingV1 # <<>> /\ r = Head(pendingV1)
      BY <1>7, <2>1, EndV1MixesNothing DEF RequestTimesOut
    <2>2. CASE ~(pendingV1 # <<>> /\ r = Head(pendingV1))
      BY <1>7, <2>2, EndMixesNothing DEF RequestTimesOut
    <2> QED
      BY <2>1, <2>2
  <1>8. ASSUME NEW s, NEW own, NEW x \in {"failed", "unsent"},
               NEW wait \in {"none", "failed", "unsent"}, NEW gone,
               \/ req' = Ended(s, own, Everyone(x), wait, gone)
               \/ req' = Ended(s, own, Nobody, wait, gone)
        PROVE  NoMixup
    <2>1. Nobody.res # "other" /\ Everyone(x).res = x
      BY DEF Nobody, Everyone
    <2> QED
      BY <1>8, <2>1, EndedMixesNothing
  <1>9. ASSUME NEW s \in Sockets, Connected(s) PROVE NoMixup
    <2>1. phase[s] = "connecting" /\ s = socket /\ ~settled[s]
      BY <1>9 DEF Connected, IInv, Links, OneConnection
    <2>2. req' = [r \in Reqs |-> IF r \in Waiting(s)
                                 THEN [req[r] EXCEPT !.at = "resuming", !.on = 0]
                                 ELSE req[r]]
      BY <1>9, <2>1 DEF Connected
    <2> QED
      BY <1>1, <2>2 DEF NoMixup, Requests
  <1>10. ASSUME NEW s \in Sockets, TimesOut(s) \/ Errors(s) \/ Closes(s) PROVE NoMixup
    BY <1>8, <1>10 DEF TimesOut, Errors, Closes, Told
  <1>11. ASSUME Disconnect PROVE NoMixup
    BY <1>8, <1>11 DEF Disconnect
  <1>12. ASSUME NEW s \in Sockets, NEW r \in Reqs, Reply(s, r) PROVE NoMixup
    <2> DEFINE left == Left(s, r)
    <2>1. mixed' = (mixed \/ Inherited)
      BY <1>12 DEF Reply
    <2>2. CASE ~Inherited /\ r \in Calls
      <3>1. req' = [req EXCEPT ![r] = Done(r, "reply")] \/ req' = req
        BY <1>12, <2>2 DEF Reply, ResponseFrame, LateResponse, Ignored
      <3>2. CASE req' = [req EXCEPT ![r] = Done(r, "reply")]
        BY <3>2, EndMixesNothing
      <3>3. CASE req' = req
        BY <3>3 DEF NoMixup
      <3> QED
        BY <3>1, <3>2, <3>3
    <2>3. CASE ~Inherited /\ r \in Lines /\ ~mixed
      <3>1. PlainFrame({r}, left)
        BY <1>12, <2>3, Legal DEF Reply, Left
      <3>2. r \in Owed(s) /\ r = Head(owedV1[s])
        BY <1>12, <2>3 DEF Reply, Answerable
      <3>3. owedV1[s] # <<>>
        BY <2>3, <3>2, OwedIs, EmptyIs
      <3>4. pendingV1 # <<>> /\ Head(pendingV1) = r
        BY <2>3, <3>2, <3>3 DEF IInv, InStep
      <3>5. EndV1("reply", left)
        BY <3>1, <3>4 DEF PlainFrame
      <3> HIDE DEF left
      <3> QED
        BY <3>4, <3>5, EndV1MixesNothing
    <2> QED
      BY <2>1, <2>2, <2>3 DEF NoMixup, Reqs
  <1>13. ASSUME NEW s \in Sockets, NEW r \in Reqs, Fragment(s, r) PROVE NoMixup
    BY <1>13 DEF Fragment, NoMixup
  <1>14. ASSUME NEW s \in Sockets, NEW kind \in {"status", "malformed", "denial"},
                Unsolicited(s, kind)
         PROVE  NoMixup
    BY <1>14 DEF Unsolicited, NoMixup
  <1>15. CASE \E r \in Reqs : Call(r, "plain") \/ Call(r, "poll") \/ RequestStep(r) \/ Flush(r)
    BY <1>2, <1>3, <1>4, <1>5, <1>6, <1>7, <1>15 DEF RequestStep
  <1>16. CASE \E s \in Sockets :
                 \/ SocketStep(s)
                 \/ \E r \in Reqs : Reply(s, r) \/ Fragment(s, r)
                 \/ \E kind \in {"status", "malformed", "denial"} : Unsolicited(s, kind)
    BY <1>9, <1>10, <1>12, <1>13, <1>14, <1>16 DEF SocketStep
  <1> QED
    BY <1>11, <1>15, <1>16 DEF Next

(***************************************************************************)
(* A line gets another's reply only on a connection where an earlier       *)
(* written line timed out, an unsolicited line came, or the buffer held    *)
(* the rest of an older connection (resolveNextV1 pairs them by order).    *)
(***************************************************************************)
THEOREM MixupsHaveACause == Spec => MixupsExplained
  <1>1. IInv /\ [Next]_vars =>
           [\A r \in Reqs : (req[r].res # "other" /\ req'[r].res = "other") => mixed \/ mixed']_vars
    BY NextMixesNothing DEF NoMixup
  <1> QED
    BY <1>1, Invariance, PTL DEF Spec, MixupsExplained

-----------------------------------------------------------------------------
(* Stale polls. *)

LEMMA EndV1Unsent ==
    ASSUME IInv, pendingV1 # <<>>, NEW left, NEW x, EndV1(x, left), NEW r \in Calls
    PROVE  sent'[r] = sent[r]
  <1>1. \A y \in Next1(Tail(pendingV1)) : y \in Lines
    BY TailIs DEF Next1, IInv, TypeOK
  <1>2. r \in Reqs /\ r \notin Lines
    BY Legal
  <1> QED
    BY <1>1, <1>2 DEF EndV1

LEMMA FrameUnsent ==
    ASSUME IInv, NEW left, Frame(left), NEW r \in Calls
    PROVE  sent'[r] = sent[r]
  BY EndV1Unsent DEF Frame, EndCalls, Ignored

LEMMA LostUnsent ==
    ASSUME NEW s, Lost(s), NEW r \in Calls, sent[r] = "no" PROVE sent'[r] = "no"
  BY Legal DEF Lost

LEMMA NextUnsent ==
    ASSUME IInv, Next, NEW r \in Calls, req[r].kind = "stale", sent[r] = "no"
    PROVE  sent'[r] = "no"
  <1>1. r \in Reqs /\ sent \in [Reqs -> {"no", "buffered", "flushed"}]
    BY Legal DEF IInv, TypeOK
  <1>2. ASSUME NEW x \in Reqs, Resume(x) PROVE sent'[r] = "no"
    <2>1. CASE x = r
      BY <1>2, <2>1 DEF Resume, Outdated
    <2>2. CASE x # r
      BY <1>1, <1>2, <2>2 DEF Resume, Write
    <2> QED
      BY <2>1, <2>2
  <1>3. ASSUME NEW x \in Reqs, RequestTimesOut(x) PROVE sent'[r] = "no"
    BY <1>3, EndV1Unsent DEF RequestTimesOut
  <1>4. ASSUME NEW x \in Reqs, Flush(x) PROVE sent'[r] = "no"
    BY <1>1, <1>4 DEF Flush
  <1>5. ASSUME NEW s \in Sockets, SocketStep(s) PROVE sent'[r] = "no"
    BY <1>5, LostUnsent DEF SocketStep, Connected, TimesOut, Errors, Closes
  <1>6. ASSUME Disconnect PROVE sent'[r] = "no"
    BY <1>6, LostUnsent DEF Disconnect
  <1>7. ASSUME NEW s \in Sockets, NEW x \in Reqs, Reply(s, x) PROVE sent'[r] = "no"
    <2>1. Frame(Left(s, x)) \/ UNCHANGED sent
      BY <1>7, FramesAre DEF Reply, Left, ResponseFrame, LateResponse, Ignored
    <2> QED
      BY <2>1, FrameUnsent
  <1>8. ASSUME NEW s \in Sockets, NEW kind \in {"status", "malformed", "denial"},
               Unsolicited(s, kind)
        PROVE  sent'[r] = "no"
    <2>1. Frame(owedV1) \/ UNCHANGED sent
      BY <1>8, FramesAre DEF Unsolicited, Frame
    <2> QED
      BY <2>1, FrameUnsent
  <1>9. CASE \E x \in Reqs : Call(x, "plain") \/ Call(x, "poll") \/ RequestStep(x) \/ Flush(x)
    <2>1. \A x \in Reqs : /\ Call(x, "plain") \/ Call(x, "poll") => UNCHANGED sent
                          /\ BackoffEnds(x) \/ WriteThrows(x) => UNCHANGED sent
      BY DEF Call, BackoffEnds, WriteThrows
    <2> QED
      BY <1>2, <1>3, <1>4, <1>9, <2>1 DEF RequestStep
  <1>10. CASE \E s \in Sockets :
                 \/ SocketStep(s)
                 \/ \E x \in Reqs : Reply(s, x) \/ Fragment(s, x)
                 \/ \E kind \in {"status", "malformed", "denial"} : Unsolicited(s, kind)
    <2>1. \A s \in Sockets, x \in Reqs : Fragment(s, x) => UNCHANGED sent
      BY DEF Fragment
    <2> QED
      BY <1>5, <1>7, <1>8, <1>10, <2>1
  <1> QED
    BY <1>6, <1>9, <1>10 DEF Next

(***************************************************************************)
(* A poll whose connection was closed or disconnected is not written on a  *)
(* later one (assertPollingGeneration after each await).                   *)
(***************************************************************************)
THEOREM StalePollsStayUnsent == Spec => StalePollsUnsent
  <1>1. IInv /\ [Next]_vars =>
           [\A r \in Calls : req[r].kind = "stale" /\ sent[r] = "no" => sent'[r] = "no"]_vars
    BY NextUnsent
  <1> QED
    BY <1>1, Invariance, PTL DEF Spec, StalePollsUnsent
=============================================================================
