-------------------------- MODULE DaemonProxyProofs --------------------------
(***************************************************************************)
(* Proofs about DaemonProxy, for every number of requests, connections,    *)
(* version bumps and re-execs, and every size of the buffer.               *)
(*                                                                         *)
(* What the connection is in the middle of (Linked) tells which writes can *)
(* be awaited and what the daemon can owe.  A request that waits is in the *)
(* queue, being written or owed (NothingLost), and marked as sent in the   *)
(* latter cases (Marked), which is what a drop goes by when it queues      *)
(* requests again.  But for requests whose failed write came after its     *)
(* drop, it is only one of the three (Single).                             *)
(***************************************************************************)
EXTENDS DaemonProxy, TLAPS, FiniteSetTheorems, FunctionTheorems

\* The entry m is in q, and it is there once at most.
Has(q, m) == \E i \in DOMAIN q : q[i] = m
Once(q, m) == \A i, j \in DOMAIN q : q[i] = m /\ q[j] = m => i = j

InQueue(m) == Has(queue, m)
Flushing(m) == writing.kind = "flush" /\ writing.msg = m
OnWire(m) == Flushing(m) /\ sock # 0

Writes == [kind : {"flush", "replay", "greet"}, msg : Msgs, conn : 1 .. MaxConns]
States == {"new", "pending", "expired", "done"}

TypedWork ==
    /\ arrived \in Seq(Msgs) /\ IsInjective(arrived)
    /\ answers \in [Reqs -> Seq(Answers)]
    /\ out \subseteq Reqs
    /\ queue \in Seq(Msgs)
    /\ pend \in [Reqs -> States]
    /\ sent \subseteq Reqs /\ \A r \in sent : pend[r] = "pending"
    /\ writing \in Writes \cup {NoWrite}
    /\ orphaned \subseteq Msgs

TypedLink ==
    /\ conns \in 0 .. MaxConns /\ sock \in {0, conns}
    /\ phase \in {"down", "replaying", "greeting", "ready"} /\ (phase = "down" <=> sock = 0)
    /\ owed \in [Reqs -> Nat]
    /\ greeted \in BOOLEAN /\ initKnown \in BOOLEAN
    /\ initialized \in BOOLEAN /\ initDelivered \in BOOLEAN

TypedUpgrade ==
    /\ loop \in {"idle", "opening", "spawning", "delay"}
    /\ connecting \in BOOLEAN /\ backoff \in BOOLEAN /\ outage \in BOOLEAN
    /\ bump \in {"idle", "spawning", "settling"} /\ bumps \in 0 .. MaxBumps
    /\ refresh \in {"idle", "draining", "rejecting"} /\ awaited \subseteq Reqs
    /\ reexecs \in 0 .. MaxReexecs

\* Once the requests are rejected for a re-exec none is pending, and one may
\* still be made.
Refreshing ==
    /\ refresh = "rejecting" => \A r \in Reqs : pend[r] # "pending"
    /\ refresh # "idle" => reexecs < MaxReexecs

\* What is written and owed on the connection, by phase.
Linked ==
    /\ sock = 0 => ~greeted /\ \A r \in Reqs : owed[r] = 0
    /\ writing # NoWrite => writing.conn = conns
    /\ writing.kind = "flush" => phase \in {"down", "ready"}
    /\ writing.kind = "replay" =>
          /\ phase \in {"down", "replaying"} /\ writing.msg = "initialize"
          /\ owed["initialize"] = 0
    /\ writing.kind = "greet" =>
          phase \in {"down", "greeting"} /\ writing.msg = "initialized"
    /\ phase = "replaying" => owed["initialize"] <= 1
    /\ phase = "greeting" => owed["initialize"] = 0 /\ greeted
    /\ phase \in {"replaying", "greeting"} => pend["initialize"] \notin {"new", "pending"}
    /\ owed["initialize"] > 0 => greeted
    /\ initKnown => pend["initialize"] # "new"

\* Nothing is queued, written or owed that has not arrived, and what the agent
\* was answered tells how its request stands.
Known ==
    /\ \A m \in Msgs : InQueue(m) \/ Flushing(m) => m \in ToSet(arrived)
    /\ \A r \in Reqs :
          /\ pend[r] = "new" <=> r \notin ToSet(arrived)
          /\ answers[r] = <<>> <=> pend[r] \in {"new", "pending"}
          /\ owed[r] > 0 => pend[r] # "new"
    /\ answers["initialize"] = <<>> => ToSet(arrived) \subseteq {"initialize"}

\* A drop queues the marked requests again.
Marked ==
    \A r \in Reqs : pend[r] = "pending" /\ (owed[r] > 0 \/ OnWire(r)) => r \in sent

Held ==
    \A r \in Reqs : pend[r] = "pending" => InQueue(r) \/ Flushing(r) \/ owed[r] > 0

\* A connection is ready before it was greeted only while the agent's own
\* initialize is written to it.
Greeting == phase = "ready" /\ initKnown /\ ~greeted => OnWire("initialize")

\* But for orphaned writes there is one copy of a request that can still be run,
\* and none of one that was answered.
Single ==
    \A r \in Reqs \ orphaned :
        /\ Len(answers[r]) <= 1
        /\ owed[r] <= 1
        /\ OnWire(r) => owed[r] = 0
        /\ pend[r] = "pending" =>
              /\ Once(queue, r)
              /\ InQueue(r) => owed[r] = 0 /\ ~OnWire(r)
        /\ pend[r] = "done" =>
              /\ ~OnWire(r)
              /\ owed[r] > 0 => r = "initialize" /\ phase = "replaying"

\* The connecting flag is down while a connection is attached.
Attached == OneConnector /\ (sock # 0 => ~connecting)

Typed == TypedWork /\ TypedLink /\ TypedUpgrade
Core == Linked /\ Known /\ Marked /\ Held /\ Greeting /\ Single
IInv == Typed /\ Refreshing /\ Attached /\ Core

-----------------------------------------------------------------------------
(* Arranged entries. *)

\* R puts the indices I in one order.
Orders(R, I) ==
    /\ \A i \in I : <<i, i>> \in R
    /\ \A i, j \in I : <<i, j>> \in R \/ <<j, i>> \in R
    /\ \A i, j \in I : <<i, j>> \in R /\ <<j, i>> \in R => i = j
    /\ \A i, j, k \in I : <<i, j>> \in R /\ <<j, k>> \in R => <<i, k>> \in R

UpTo(R, I, i) == {j \in I : <<j, i>> \in R}

\* Each index has a place of its own, and each place an index.
LEMMA PlaceIs ==
    ASSUME NEW I, IsFiniteSet(I), NEW R, Orders(R, I)
    PROVE  /\ Cardinality(I) \in Nat
           /\ \A i \in I : Cardinality(UpTo(R, I, i)) \in 1 .. Cardinality(I)
           /\ \A i, j \in I : Cardinality(UpTo(R, I, i)) = Cardinality(UpTo(R, I, j)) => i = j
           /\ \A k \in 1 .. Cardinality(I) : \E i \in I : Cardinality(UpTo(R, I, i)) = k
  <1>1. Cardinality(I) \in Nat
    BY FS_CardinalityType
  <1>2. ASSUME NEW i \in I
        PROVE  /\ IsFiniteSet(UpTo(R, I, i))
               /\ Cardinality(UpTo(R, I, i)) \in 1 .. Cardinality(I)
    <2>1. UpTo(R, I, i) \subseteq I /\ i \in UpTo(R, I, i)
      BY DEF UpTo, Orders
    <2>2. IsFiniteSet(UpTo(R, I, i)) /\ Cardinality(UpTo(R, I, i)) <= Cardinality(I)
      BY <2>1, FS_Subset
    <2>3. Cardinality(UpTo(R, I, i)) \in Nat
      BY <2>2, FS_CardinalityType
    <2>4. Cardinality(UpTo(R, I, i)) # 0
      BY <2>1, <2>2, FS_EmptySet
    <2> QED
      BY <1>1, <2>2, <2>3, <2>4
  <1>3. ASSUME NEW i \in I, NEW j \in I, <<i, j>> \in R, i # j
        PROVE  Cardinality(UpTo(R, I, i)) # Cardinality(UpTo(R, I, j))
    <2>1. UpTo(R, I, i) \subseteq UpTo(R, I, j) /\ j \in UpTo(R, I, j) /\ j \notin UpTo(R, I, i)
      BY <1>3 DEF UpTo, Orders
    <2>2. UpTo(R, I, i) # UpTo(R, I, j)
      BY <2>1
    <2> QED
      BY <1>2, <2>1, <2>2, FS_Subset
  <1>4. \A i, j \in I : Cardinality(UpTo(R, I, i)) = Cardinality(UpTo(R, I, j)) => i = j
    BY <1>3 DEF Orders
  <1>5. ASSUME NEW k \in 1 .. Cardinality(I), ~ \E i \in I : Cardinality(UpTo(R, I, i)) = k
        PROVE  FALSE
    <2> DEFINE T == (1 .. Cardinality(I)) \ {k}
               f == [i \in I |-> Cardinality(UpTo(R, I, i))]
    <2>1. IsFiniteSet(1 .. Cardinality(I)) /\ Cardinality(1 .. Cardinality(I)) = Cardinality(I)
      BY <1>1, FS_Interval
    <2>2. IsFiniteSet(T) /\ Cardinality(T) = Cardinality(I) - 1
      BY <2>1, <1>1, FS_RemoveElement
    <2>3. f \in [I -> T]
      BY <1>2, <1>5
    <2>4. \E i, j \in I : i # j /\ f[i] = f[j]
      <3>1. Cardinality(T) < Cardinality(I)
        BY <1>1, <2>2
      <3> HIDE DEF T, f
      <3> QED
        BY <2>2, <2>3, <3>1, FS_PigeonHole
    <2> QED
      BY <2>4, <1>4
  <1> QED
    BY <1>1, <1>2, <1>4, <1>5

LEMMA ArrangedIs ==
    ASSUME NEW M, NEW q \in Seq(M), NEW I \in SUBSET DOMAIN q, NEW R, Orders(R, I),
           NEW a, a = Arranged(q, I, R)
    PROVE  /\ a \in Seq(M)
           /\ \A i \in I : Has(a, q[i])
           /\ \A k \in DOMAIN a : \E i \in I : a[k] = q[i]
           /\ \A m : Once(q, m) => Once(a, m)
  <1> DEFINE n == Cardinality(I)
             place(i) == Cardinality(UpTo(R, I, i))
             at(k) == CHOOSE i \in I : place(i) = k
  <1>1. IsFiniteSet(I)
    BY FS_Interval, FS_Subset
  <1>2. /\ n \in Nat
        /\ \A i \in I : place(i) \in 1 .. n
        /\ \A i, j \in I : place(i) = place(j) => i = j
        /\ \A k \in 1 .. n : \E i \in I : place(i) = k
    BY <1>1, PlaceIs
  <1>3. a = [k \in 1 .. n |-> q[at(k)]]
    BY DEF Arranged, UpTo
  <1> HIDE DEF n, place
  <1>4. \A k \in 1 .. n : at(k) \in I /\ place(at(k)) = k
    BY <1>2
  <1>5. \A i \in I : at(place(i)) = i
    BY <1>2, <1>4
  <1> HIDE DEF at
  <1>6. a \in Seq(M) /\ DOMAIN a = 1 .. n
    BY <1>2, <1>3, <1>4
  <1>7. \A i \in I : a[place(i)] = q[i]
    BY <1>2, <1>3, <1>5
  <1>8. \A i \in I : Has(a, q[i])
    BY <1>2, <1>6, <1>7 DEF Has
  <1>9. \A k \in DOMAIN a : a[k] = q[at(k)] /\ at(k) \in I
    BY <1>3, <1>4, <1>6
  <1>10. ASSUME NEW m, Once(q, m) PROVE Once(a, m)
    BY <1>4, <1>6, <1>9, <1>10 DEF Once
  <1> QED
    BY <1>6, <1>8, <1>9, <1>10

LEMMA KeptIs ==
    ASSUME NEW M, NEW q \in Seq(M), NEW I \in SUBSET DOMAIN q, NEW a, a = Kept(q, I)
    PROVE  /\ a \in Seq(M)
           /\ \A i \in I : Has(a, q[i])
           /\ \A k \in DOMAIN a : \E i \in I : a[k] = q[i]
           /\ \A m : Once(q, m) => Once(a, m)
  <1> DEFINE R == {p \in I \X I : p[1] <= p[2]}
  <1>1. I \subseteq Nat
    OBVIOUS
  <1>2. Orders(R, I)
    BY <1>1 DEF Orders
  <1>3. a = Arranged(q, I, R)
    BY DEF Kept
  <1> HIDE DEF R
  <1> QED
    BY <1>2, <1>3, ArrangedIs

LEMMA WithoutIs ==
    ASSUME NEW M, NEW q \in Seq(M), NEW S, NEW a, a = Without(q, S)
    PROVE  /\ a \in Seq(M)
           /\ \A m : m \notin S /\ Has(q, m) => Has(a, m)
           /\ \A m : Has(a, m) => Has(q, m)
           /\ \A m : Once(q, m) => Once(a, m)
  <1> DEFINE I == {i \in DOMAIN q : q[i] \notin S \/ \E j \in 1 .. i - 1 : q[j] = q[i]}
  <1>1. a = Kept(q, I) /\ I \in SUBSET DOMAIN q
    BY DEF Without
  <1>2. \A i \in DOMAIN q : q[i] \notin S => i \in I
    OBVIOUS
  <1> HIDE DEF I
  <1>3. /\ a \in Seq(M)
        /\ \A i \in I : Has(a, q[i])
        /\ \A k \in DOMAIN a : \E i \in I : a[k] = q[i]
        /\ \A m : Once(q, m) => Once(a, m)
    BY <1>1, KeptIs
  <1> QED
    BY <1>1, <1>2, <1>3 DEF Has

LEMMA BySequenceIs ==
    ASSUME arrived \in Seq(Msgs), IsInjective(arrived), NEW q \in Seq(Msgs),
           \A i \in DOMAIN q : q[i] \in ToSet(arrived), NEW a, a = BySequence(q)
    PROVE  /\ a \in Seq(Msgs)
           /\ \A m : Has(a, m) <=> Has(q, m)
           /\ \A m : Once(q, m) => Once(a, m)
  <1> DEFINE D == DOMAIN q
             R == {p \in D \X D :
                     \/ sequence(q[p[1]]) < sequence(q[p[2]])
                     \/ sequence(q[p[1]]) = sequence(q[p[2]]) /\ p[1] <= p[2]}
  <1>1. \A i \in D : sequence(q[i]) \in Nat
    BY DEF sequence, ToSet
  <1>2. D \subseteq Nat
    OBVIOUS
  <1>3. Orders(R, D)
    <2> HIDE DEF D
    <2> QED
      BY <1>1, <1>2 DEF Orders
  <1>4. a = Arranged(q, D, R)
    BY DEF BySequence
  <1> HIDE DEF R
  <1>5. /\ a \in Seq(Msgs)
        /\ \A i \in D : Has(a, q[i])
        /\ \A k \in DOMAIN a : \E i \in D : a[k] = q[i]
        /\ \A m : Once(q, m) => Once(a, m)
    BY <1>3, <1>4, ArrangedIs
  <1> QED
    BY <1>5 DEF Has

\* Requests are appended in some order.
Appended(q, T) == q \o SetToSeq(T)

LEMMA AppendedIs ==
    ASSUME NEW M, NEW q \in Seq(M), NEW T \in SUBSET M, IsFiniteSet(T),
           NEW a, a = Appended(q, T)
    PROVE  /\ a \in Seq(M)
           /\ \A m : Has(a, m) <=> Has(q, m) \/ m \in T
           /\ \A m : Once(q, m) /\ ~(m \in T /\ Has(q, m)) => Once(a, m)
  <1> DEFINE s == SetToSeq(T)
             n == Cardinality(T)
  <1>1. n \in Nat /\ ExistsBijection(1 .. n, T)
    BY FS_CardinalityType
  <1>2. \E f \in [1 .. n -> T] : IsInjective(f)
    <2>1. PICK f : f \in Bijection(1 .. n, T)
      BY <1>1 DEF ExistsBijection
    <2> HIDE DEF n
    <2> QED
      BY <2>1 DEF Bijection, Injection
  <1>3. s \in [1 .. n -> T] /\ \A i, j \in 1 .. n : s[i] = s[j] => i = j
    <2>1. s \in [1 .. n -> T] /\ IsInjective(s)
      BY <1>2 DEF SetToSeq
    <2> HIDE DEF s, n
    <2> QED
      BY <2>1 DEF IsInjective
  <1>4. s \in Seq(M) /\ Len(s) = n /\ DOMAIN s = 1 .. n
    BY <1>1, <1>3
  <1>5. \A m \in T : \E i \in 1 .. n : s[i] = m
    <2> SUFFICES ASSUME NEW m \in T, \A i \in 1 .. n : s[i] # m
                 PROVE  FALSE
      OBVIOUS
    <2>1. IsFiniteSet(T \ {m}) /\ Cardinality(T \ {m}) = n - 1
      BY FS_RemoveElement
    <2>2. s \in [1 .. n -> T \ {m}]
      BY <1>3
    <2>3. IsFiniteSet(1 .. n) /\ Cardinality(1 .. n) = n
      BY <1>1, FS_Interval
    <2>4. Cardinality(T \ {m}) < Cardinality(1 .. n)
      BY <1>1, <2>1, <2>3
    <2> HIDE DEF n, s
    <2> DEFINE U == T \ {m}
               P == 1 .. n
    <2>5. IsFiniteSet(U) /\ IsFiniteSet(P) /\ Cardinality(U) < Cardinality(P) /\ s \in [P -> U]
      BY <2>1, <2>2, <2>3, <2>4
    <2> HIDE DEF U, P
    <2>6. \E i, j \in P : i # j /\ s[i] = s[j]
      BY <2>5, FS_PigeonHole
    <2> USE DEF P
    <2> QED
      BY <2>6, <1>3
  <1> HIDE DEF s, n
  <1>6. a = q \o s
    BY DEF s, Appended
  <1>7. /\ a \in Seq(M) /\ DOMAIN a = 1 .. (Len(q) + n)
        /\ \A i \in 1 .. Len(q) : a[i] = q[i]
        /\ \A i \in 1 .. n : a[Len(q) + i] = s[i]
        /\ \A i \in (Len(q) + 1) .. (Len(q) + n) : i - Len(q) \in 1 .. n /\ a[i] = s[i - Len(q)]
        /\ Len(q) \in Nat /\ DOMAIN q = 1 .. Len(q)
    BY <1>1, <1>4, <1>6
  <1>8. \A m : Has(a, m) <=> Has(q, m) \/ m \in T
    <2>1. ASSUME NEW m, Has(a, m) PROVE Has(q, m) \/ m \in T
      <3>1. PICK i \in DOMAIN a : a[i] = m
        BY <2>1 DEF Has
      <3>2. i \in 1 .. Len(q) \/ i \in (Len(q) + 1) .. (Len(q) + n)
        BY <1>1, <1>7
      <3>3. CASE i \in 1 .. Len(q)
        BY <1>7, <3>1, <3>3 DEF Has
      <3>4. CASE i \in (Len(q) + 1) .. (Len(q) + n)
        BY <1>3, <1>7, <3>1, <3>4
      <3> QED
        BY <3>2, <3>3, <3>4
    <2>2. ASSUME NEW m, Has(q, m) PROVE Has(a, m)
      BY <1>1, <1>7, <2>2 DEF Has
    <2>3. ASSUME NEW m, m \in T PROVE Has(a, m)
      <3>1. PICK i \in 1 .. n : s[i] = m
        BY <1>5, <2>3
      <3>2. Len(q) + i \in DOMAIN a /\ a[Len(q) + i] = m
        BY <1>1, <1>7, <3>1
      <3> QED
        BY <3>2 DEF Has
    <2> QED
      BY <2>1, <2>2, <2>3
  <1>9. ASSUME NEW m, Once(q, m), ~(m \in T /\ Has(q, m)) PROVE Once(a, m)
    <2> SUFFICES ASSUME NEW i \in DOMAIN a, NEW j \in DOMAIN a, a[i] = m, a[j] = m
                 PROVE  i = j
      BY DEF Once
    <2>1. CASE i \in 1 .. Len(q)
      <3>1. Has(q, m)
        BY <1>7, <2>1 DEF Has
      <3>2. j \in 1 .. Len(q)
        <4> SUFFICES ASSUME j \notin 1 .. Len(q) PROVE FALSE
          OBVIOUS
        <4>1. j \in (Len(q) + 1) .. (Len(q) + n)
          BY <1>1, <1>7
        <4>2. s[j - Len(q)] = m /\ s[j - Len(q)] \in T
          BY <1>3, <1>7, <4>1
        <4> QED
          BY <1>9, <3>1, <4>2
      <3> QED
        BY <1>7, <1>9, <2>1, <3>2 DEF Once
    <2>2. CASE i \notin 1 .. Len(q)
      <3>1. i - Len(q) \in 1 .. n /\ s[i - Len(q)] = m
        BY <1>1, <1>7, <2>2
      <3>2. j \notin 1 .. Len(q)
        BY <1>3, <1>7, <1>9, <3>1 DEF Has
      <3>3. j - Len(q) \in 1 .. n /\ s[j - Len(q)] = m
        BY <1>1, <1>7, <3>2
      <3>4. i - Len(q) = j - Len(q)
        BY <1>3, <3>1, <3>3
      <3> QED
        BY <1>1, <1>7, <3>4
    <2> QED
      BY <2>1, <2>2
  <1> QED
    BY <1>7, <1>8, <1>9
LEMMA MinIs ==
    ASSUME NEW S \in SUBSET Nat, IsFiniteSet(S), S # {}
    PROVE  Min(S) \in S /\ \A y \in S : Min(S) <= y
  <1> DEFINE R == {p \in S \X S : p[1] <= p[2]}
  <1>1. Orders(R, S)
    BY DEF Orders
  <1>2. \A i, j \in S : <<i, j>> \in R => i <= j
    OBVIOUS
  <1> HIDE DEF R
  <1>3. Cardinality(S) \in Nat /\ Cardinality(S) # 0
    BY FS_CardinalityType, FS_EmptySet
  <1>4. PICK i \in S : Cardinality(UpTo(R, S, i)) = 1
    BY <1>1, <1>3, PlaceIs
  <1>5. IsFiniteSet(UpTo(R, S, i)) /\ i \in UpTo(R, S, i)
    BY <1>1, FS_Subset DEF UpTo, Orders
  <1>6. UpTo(R, S, i) = {i}
    BY <1>4, <1>5, FS_Singleton
  <1>7. \A j \in S : i <= j
    BY <1>1, <1>2, <1>6 DEF UpTo, Orders
  <1> QED
    BY <1>7 DEF Min

LEMMA ArrivedFinite == arrived \in Seq(Msgs) => IsFiniteSet(ToSet(arrived))
  <1> SUFFICES ASSUME arrived \in Seq(Msgs) PROVE IsFiniteSet(ToSet(arrived))
    OBVIOUS
  <1>1. arrived \in Surjection(1 .. Len(arrived), ToSet(arrived))
    BY DEF Surjection, ToSet
  <1>2. IsFiniteSet(1 .. Len(arrived))
    BY FS_Interval
  <1> QED
    BY <1>1, <1>2, FS_Surjection

-----------------------------------------------------------------------------
(* The queue. *)

Wanted(r, pd) == pd[r] = "pending"

\* flushQueue takes the first entry that is still wanted, if there is one.
Flushed(q, snt, pd, c) ==
    /\ queue' \in Seq(Msgs)
    /\ \A m : Has(queue', m) => Has(q, m)
    /\ \A m : Once(q, m) => Once(queue', m)
    /\ \/ /\ writing' = NoWrite /\ sent' = snt
          /\ \A r \in Reqs : Has(q, r) => ~Wanted(r, pd)
       \/ \E m \in Msgs :
             /\ writing' = [kind |-> "flush", msg |-> m, conn |-> c]
             /\ sent' = snt \cup ({m} \cap Reqs)
             /\ Has(q, m) /\ (m \in Reqs => Wanted(m, pd))
             /\ \A r \in Reqs : Has(q, r) /\ Wanted(r, pd) => r = m \/ Has(queue', r)
             /\ Once(q, m) => ~Has(queue', m)

LEMMA FlushFromIs ==
    ASSUME NEW q \in Seq(Msgs), NEW snt, NEW pd \in [Reqs -> States], NEW c,
           FlushFrom(q, snt, pd, c)
    PROVE  Flushed(q, snt, pd, c)
  <1> USE DEF Flushed
  <1> DEFINE live == {i \in DOMAIN q : Live(q[i], pd)}
  <1>0. "initialized" \notin Reqs
    BY ProxyAssumption DEF Reqs
  <1>1. CASE live = {}
    <2>1. queue' = <<>> /\ sent' = snt /\ writing' = NoWrite
      BY <1>1 DEF FlushFrom
    <2>2. \A r \in Reqs : Has(q, r) => ~Wanted(r, pd)
      BY <1>1 DEF Has, Live, Wanted
    <2> QED
      BY <2>1, <2>2 DEF Has, Once
  <1>2. CASE live # {}
    <2> DEFINE i == Min(live)
    <2>1. live \in SUBSET Nat /\ IsFiniteSet(live)
      BY FS_Interval, FS_Subset
    <2>2. i \in live /\ \A j \in live : i <= j
      BY <1>2, <2>1, MinIs
    <2>3. /\ queue' = SubSeq(q, i + 1, Len(q))
          /\ sent' = snt \cup ({q[i]} \cap Reqs)
          /\ writing' = [kind |-> "flush", msg |-> q[i], conn |-> c]
      BY <1>2 DEF FlushFrom
    <2>4. i \in 1 .. Len(q) /\ Live(q[i], pd) /\ q[i] \in Msgs
          /\ \A j \in 1 .. Len(q) : Live(q[j], pd) => i <= j
      BY <2>2
    <2> HIDE DEF i, live
    <2>5. /\ queue' \in Seq(Msgs) /\ Len(queue') = Len(q) - i
          /\ DOMAIN queue' = 1 .. (Len(q) - i)
          /\ \A k \in 1 .. (Len(q) - i) : queue'[k] = q[i + k]
      BY <2>3, <2>4
    <2>6. \A k \in DOMAIN queue' : i + k \in DOMAIN q /\ queue'[k] = q[i + k] /\ i + k # i
      BY <2>4, <2>5
    <2>7. \A m : Has(queue', m) => Has(q, m)
      BY <2>6 DEF Has
    <2>8. \A m : Once(q, m) => Once(queue', m)
      <3> SUFFICES ASSUME NEW m, Once(q, m), NEW k \in DOMAIN queue', NEW l \in DOMAIN queue',
                          queue'[k] = m, queue'[l] = m
                   PROVE  k = l
        BY DEF Once
      <3>1. i + k = i + l
        BY <2>6 DEF Once
      <3> QED
        BY <2>4, <2>5, <3>1
    <2>9. ASSUME NEW r \in Reqs, Has(q, r), Wanted(r, pd)
          PROVE  r = q[i] \/ Has(queue', r)
      <3>1. PICK j \in 1 .. Len(q) : q[j] = r
        BY <2>9 DEF Has
      <3>2. Live(q[j], pd)
        BY <2>9, <3>1 DEF Live, Wanted
      <3>3. j = i \/ j - i \in 1 .. (Len(q) - i)
        BY <2>4, <3>2
      <3>4. j - i \in 1 .. (Len(q) - i) => queue'[j - i] = r
        BY <2>4, <2>5, <3>1
      <3> QED
        BY <2>5, <3>1, <3>3, <3>4 DEF Has
    <2>10. Once(q, q[i]) => ~Has(queue', q[i])
      BY <2>4, <2>6 DEF Once, Has
    <2>11. Has(q, q[i]) /\ (q[i] \in Reqs => Wanted(q[i], pd))
      BY <1>0, <2>4 DEF Has, Live, Wanted
    <2> QED
      BY <2>3, <2>4, <2>5, <2>7, <2>8, <2>9, <2>10, <2>11
  <1> QED
    BY <1>1, <1>2

\* The queue after a drop: what it held and what is queued again, but for the
\* requests that are failed because the buffer is full.
LEMMA DropIs ==
    ASSUME TypedWork, NEW q \in Seq(Msgs), NEW snt \in SUBSET Reqs,
           \A i \in DOMAIN q : q[i] \in ToSet(arrived), snt \subseteq ToSet(arrived),
           Drop(q, snt)
    PROVE  \E over \in SUBSET Reqs :
              /\ \A r \in over : pend[r] = "pending"
              /\ Disconnected /\ Tell(over, "error")
              /\ pend' = [r \in Reqs |-> IF r \in over THEN "expired" ELSE pend[r]]
              /\ sent' \subseteq snt \ over
              /\ queue' \in Seq(Msgs)
              /\ \A m : Has(queue', m) => Has(q, m) \/ m \in snt
              /\ \A m : m \notin over /\ (Has(q, m) \/ m \in snt) => Has(queue', m)
              /\ \A m : Once(q, m) => Once(queue', m)
  <1> DEFINE T == Requeued(q, snt)
             b == q \o SetToSeq(T)
             all == BySequence(b)
             over == Overflow(all)
  <1>1. /\ T \in SUBSET Msgs /\ IsFiniteSet(T) /\ T \subseteq ToSet(arrived)
        /\ \A m \in T : m \in snt /\ ~Has(q, m)
        /\ \A m \in snt : m \in T \/ Has(q, m)
    <2>1. T \subseteq ToSet(arrived)
      BY DEF Requeued
    <2>2. IsFiniteSet(T)
      BY <2>1, ArrivedFinite, FS_Subset DEF TypedWork
    <2> QED
      BY <2>1, <2>2 DEF Requeued, ToSet, Has, Msgs
  <1>2. /\ Disconnected /\ Tell(over, "error")
        /\ pend' = [r \in Reqs |-> IF r \in over THEN "expired" ELSE pend[r]]
        /\ sent' = (snt \cap ToSet(q)) \ over
        /\ queue' = Without(all, over)
    BY DEF Drop
  <1>3. over \in SUBSET Reqs /\ \A r \in over : pend[r] = "pending"
    BY DEF Overflow, Pending
  <1> HIDE DEF T, over
  <1>0. b = Appended(q, T)
    BY DEF Appended
  <1> HIDE DEF b
  <1>4. /\ b \in Seq(Msgs)
        /\ \A m : Has(b, m) <=> Has(q, m) \/ m \in T
        /\ \A m : Once(q, m) /\ ~(m \in T /\ Has(q, m)) => Once(b, m)
    <2>1. T \in SUBSET Msgs /\ IsFiniteSet(T)
      BY <1>1
    <2> QED
      BY <1>0, <2>1, AppendedIs
  <1>5. \A i \in DOMAIN b : b[i] \in ToSet(arrived)
    <2> SUFFICES ASSUME NEW i \in DOMAIN b PROVE b[i] \in ToSet(arrived)
      OBVIOUS
    <2>1. Has(b, b[i])
      BY DEF Has
    <2>2. Has(q, b[i]) \/ b[i] \in T
      BY <1>4, <2>1
    <2> QED
      BY <1>1, <2>2 DEF Has
  <1>6. /\ all \in Seq(Msgs)
        /\ \A m : Has(all, m) <=> Has(b, m)
        /\ \A m : Once(b, m) => Once(all, m)
    BY <1>4, <1>5, BySequenceIs DEF TypedWork
  <1> HIDE DEF all
  <1>7. /\ queue' \in Seq(Msgs)
        /\ \A m : m \notin over /\ Has(all, m) => Has(queue', m)
        /\ \A m : Has(queue', m) => Has(all, m)
        /\ \A m : Once(all, m) => Once(queue', m)
    BY <1>2, <1>6, WithoutIs
  <1>8. \A m : Once(q, m) => Once(queue', m)
    BY <1>1, <1>4, <1>6, <1>7
  <1>9. \A m : Has(queue', m) => Has(q, m) \/ m \in snt
    BY <1>1, <1>4, <1>6, <1>7
  <1>10. ASSUME NEW m, m \notin over, Has(q, m) \/ m \in snt
         PROVE  Has(queue', m)
    <2>1. Has(q, m) \/ m \in T
      BY <1>1, <1>10
    <2>2. Has(all, m)
      BY <1>4, <1>6, <2>1
    <2> QED
      BY <1>7, <1>10, <2>2
  <1>11. sent' \subseteq snt \ over
    BY <1>2
  <1> QED
    BY <1>2, <1>3, <1>7, <1>8, <1>9, <1>10, <1>11
-----------------------------------------------------------------------------
(* Steps that leave the requests and their writes alone. *)

LEMMA AsideKeeps ==
    ASSUME TypedWork, Core,
           UNCHANGED <<arrived, answers, queue, pend, sent, writing, sock, conns, phase,
                       owed, greeted, initKnown, orphaned>>,
           out' \subseteq out
    PROVE  TypedWork' /\ Core'
  <1>1. TypedWork'
    BY DEF TypedWork
  <1>2. Linked' /\ Known'
    BY DEF Core, Linked, Known, InQueue, Flushing
  <1>3. Marked' /\ Held' /\ Greeting' /\ Single'
    BY DEF Core, Marked, Held, Greeting, Single, InQueue, Flushing, OnWire
  <1> QED
    BY <1>1, <1>2, <1>3 DEF Core

LEMMA StutterKeeps == IInv /\ UNCHANGED vars => IInv'
  <1> SUFFICES ASSUME IInv, UNCHANGED vars PROVE IInv'
    OBVIOUS
  <1>1. TypedWork' /\ Core'
    BY AsideKeeps DEF IInv, Typed, vars, agent, work, link, handshake
  <1>2. TypedLink' /\ TypedUpgrade' /\ Refreshing' /\ Attached'
    BY DEF IInv, Typed, TypedLink, TypedUpgrade, Refreshing, Attached, OneConnector, vars, work, link,
           connector, handshake, upgrade
  <1> QED
    BY <1>1, <1>2 DEF IInv, Typed

\* The reconnect loop, the backoff, and what starts and ends an upgrade.
Idling ==
    \/ OpenFails \/ OpenUnsafe \/ SpawnTried \/ DelayOver \/ BackoffOver
    \/ BumpStarts \/ BumpSettles \/ RefreshStarts \/ Resume

LEMMA IdlingKeeps == IInv /\ Idling => IInv'
  <1> SUFFICES ASSUME IInv, Idling PROVE IInv'
    OBVIOUS
  <1> USE DEF IInv, Typed
  <1>1. /\ UNCHANGED <<arrived, answers, out, queue, pend, sent, writing, sock, conns, phase,
                       owed, greeted, initKnown, initialized, initDelivered, orphaned, reexecs>>
    BY DEF Idling, OpenFails, OpenUnsafe, SpawnTried, DelayOver, BackoffOver, BumpStarts,
           BumpSettles, RefreshStarts, Resume, agent, work, link, handshake, upgrade
  <1>2. TypedWork' /\ Core'
    BY <1>1, AsideKeeps
  <1>3. TypedLink'
    BY <1>1 DEF TypedLink
  <1>4. CASE OpenFails \/ OpenUnsafe \/ SpawnTried \/ DelayOver \/ BackoffOver
    <2>1. UNCHANGED <<bump, bumps, refresh, awaited>>
      BY <1>4 DEF OpenFails, OpenUnsafe, SpawnTried, DelayOver, BackoffOver, upgrade
    <2>2. TypedUpgrade'
      BY <1>4, <1>1, <2>1 DEF OpenFails, OpenUnsafe, SpawnTried, DelayOver, BackoffOver,
         TypedUpgrade
    <2>3. Attached'
      <3>1. CASE OpenFails \/ SpawnTried \/ DelayOver
        BY <2>1, <3>1, <1>1 DEF OpenFails, SpawnTried, DelayOver, Attached, OneConnector
      <3>2. CASE OpenUnsafe
        BY <2>1, <3>2, <1>1 DEF OpenUnsafe, Attached, OneConnector
      <3>3. CASE BackoffOver
        BY <2>1, <3>3, <1>1 DEF BackoffOver, Attached, OneConnector
      <3> QED
        BY <1>4, <3>1, <3>2, <3>3
    <2> QED
      BY <1>1, <1>2, <1>3, <2>1, <2>2, <2>3 DEF Refreshing
  <1>5. CASE BumpStarts \/ RefreshStarts \/ Resume
    <2>1. UNCHANGED <<loop, connecting, backoff, outage>>
      BY <1>5 DEF BumpStarts, RefreshStarts, Resume, connector
    <2>2. bumps' \in 0 .. MaxBumps
      BY <1>5, ProxyAssumption DEF BumpStarts, RefreshStarts, Resume, TypedUpgrade
    <2>3. TypedUpgrade'
      BY <1>5, <1>1, <2>1, <2>2 DEF BumpStarts, RefreshStarts, Resume, TypedUpgrade
    <2>4. Attached'
      BY <1>5, <1>1, <2>1 DEF BumpStarts, RefreshStarts, Resume, Attached, OneConnector
    <2>5. Refreshing'
      BY <1>5, <1>1 DEF BumpStarts, RefreshStarts, Resume, Refreshing
    <2> QED
      BY <1>2, <1>3, <2>3, <2>4, <2>5
  <1>6. CASE BumpSettles
    <2>1. TypedUpgrade' /\ Refreshing'
      BY <1>6, <1>1 DEF BumpSettles, TypedUpgrade, Refreshing
    <2>2. Attached'
      BY <1>6, <1>1 DEF BumpSettles, Stranded, TimerArmed, Attached, OneConnector, TypedUpgrade
    <2> QED
      BY <1>2, <1>3, <2>1, <2>2
  <1> QED
    BY <1>4, <1>5, <1>6 DEF Idling

LEMMA OutFlushedKeeps == ASSUME IInv, NEW r \in Reqs, OutFlushed(r) PROVE IInv'
  <1> USE DEF IInv, Typed
  <1>1. /\ UNCHANGED <<arrived, answers, queue, pend, sent, writing, sock, conns, phase, owed,
                       greeted, initKnown, initialized, orphaned, loop, connecting, backoff,
                       outage, bump, bumps, refresh, awaited, reexecs>>
        /\ out' = out \ {r} /\ initDelivered' \in BOOLEAN
    BY DEF OutFlushed, work, link, connector, upgrade, TypedLink
  <1>2. TypedWork' /\ Core'
    BY <1>1, AsideKeeps
  <1>3. TypedLink' /\ TypedUpgrade' /\ Attached' /\ Refreshing'
    BY <1>1 DEF TypedLink, TypedUpgrade, Attached, OneConnector, Refreshing
  <1> QED
    BY <1>2, <1>3
-----------------------------------------------------------------------------
(* Requests that are failed. *)

\* The agent is told of the requests in S, which it waited for.
LEMMA TellIs ==
    ASSUME TypedWork, NEW S \in SUBSET Reqs, NEW kind \in Answers, Tell(S, kind)
    PROVE  /\ answers' \in [Reqs -> Seq(Answers)] /\ out' \subseteq Reqs
           /\ \A r \in S : answers'[r] = Append(answers[r], kind) /\ answers'[r] # <<>>
           /\ \A r \in Reqs : Len(answers[r]) \in Nat
           /\ \A r \in S : Len(answers'[r]) = Len(answers[r]) + 1
           /\ \A r \in Reqs \ S : answers'[r] = answers[r]
           /\ \A r \in Reqs : answers[r] = <<>> => Len(answers[r]) = 0
  <1>1. answers' \in [Reqs -> Seq(Answers)] /\ out' \subseteq Reqs
    BY DEF Tell, TypedWork
  <1>2. \A r \in Reqs : answers[r] \in Seq(Answers)
    BY DEF TypedWork
  <1>3. \A r \in S : answers'[r] = Append(answers[r], kind)
    BY DEF Tell
  <1>4. \A r \in Reqs \ S : answers'[r] = answers[r]
    BY DEF Tell
  <1>5. ASSUME NEW r \in S
        PROVE  answers'[r] # <<>> /\ Len(answers'[r]) = Len(answers[r]) + 1
    BY <1>2, <1>3
  <1> QED
    BY <1>1, <1>2, <1>3, <1>4, <1>5

LEMMA InitIsRequest == "initialize" \in Reqs /\ "initialized" \notin Reqs /\ Reqs \subseteq Msgs
  BY ProxyAssumption DEF Reqs, Msgs

\* failAllPendingRequests, for some or all of the pending requests; the link is
\* kept, or lost with all of them.
LEMMA FailAllKeeps ==
    ASSUME TypedWork, TypedLink, Core, NEW S \in SUBSET Reqs,
           \A r \in S : pend[r] = "pending", NEW kind \in Answers, FailAll(S, kind),
           UNCHANGED <<arrived, writing, conns, initKnown, orphaned>>,
           \/ UNCHANGED <<sock, phase, owed, greeted>>
           \/ Disconnected /\ S = Pending
    PROVE  /\ TypedWork' /\ Core'
           /\ \A r \in Reqs : pend'[r] = "pending" <=> pend[r] = "pending" /\ r \notin S
  <1> USE InitIsRequest
  <1>1. /\ pend' = [r \in Reqs |-> IF r \in S THEN "expired" ELSE pend[r]]
        /\ queue' = Without(queue, S) /\ sent' = sent \ S /\ Tell(S, kind)
    BY DEF FailAll
  <1>2. /\ queue' \in Seq(Msgs)
        /\ \A m : m \notin S /\ Has(queue, m) => Has(queue', m)
        /\ \A m : Has(queue', m) => Has(queue, m)
        /\ \A m : Once(queue, m) => Once(queue', m)
    BY <1>1, WithoutIs DEF TypedWork
  <1>3. /\ \A r \in S : pend'[r] = "expired"
        /\ \A r \in Reqs \ S : pend'[r] = pend[r]
    BY <1>1
  <1>4. /\ answers' \in [Reqs -> Seq(Answers)] /\ out' \subseteq Reqs
        /\ \A r \in S : answers'[r] # <<>> /\ Len(answers'[r]) = Len(answers[r]) + 1
        /\ \A r \in Reqs \ S : answers'[r] = answers[r]
        /\ \A r \in Reqs : answers[r] = <<>> => Len(answers[r]) = 0
    BY <1>1, TellIs
  <1>5. TypedWork'
    <2>1. pend' \in [Reqs -> States] /\ sent' \subseteq Reqs
          /\ \A r \in sent' : pend'[r] = "pending"
      BY <1>1, <1>3 DEF TypedWork, States
    <2> QED
      BY <1>2, <1>4, <2>1 DEF TypedWork
  <1>6. Known'
    <2>0. \A r \in Reqs : owed'[r] = owed[r] \/ owed'[r] = 0
      BY DEF Disconnected, Nothing
    <2>1. ASSUME NEW m \in Msgs, InQueue(m)' \/ Flushing(m)' PROVE m \in ToSet(arrived)
      BY <1>2, <2>1 DEF Core, Known, InQueue, Flushing
    <2>2. ASSUME NEW r \in Reqs
          PROVE  pend'[r] = "new" <=> r \notin ToSet(arrived)
      BY <1>3 DEF Core, Known
    <2>3. ASSUME NEW r \in Reqs
          PROVE  answers'[r] = <<>> <=> pend'[r] \in {"new", "pending"}
      BY <1>3, <1>4 DEF Core, Known
    <2>4. ASSUME NEW r \in Reqs
          PROVE  owed'[r] > 0 => pend'[r] # "new"
      BY <2>0, <1>3 DEF Core, Known
    <2>5. answers'["initialize"] = <<>> => ToSet(arrived) \subseteq {"initialize"}
      BY <1>4 DEF Core, Known
    <2> QED
      BY <2>1, <2>2, <2>3, <2>4, <2>5 DEF Known
  <1>7. CASE UNCHANGED <<sock, phase, owed, greeted>>
    <2>1. Linked'
      BY <1>3, <1>7 DEF Core, Linked
    <2>2. Marked'
      BY <1>1, <1>3, <1>7 DEF Core, Marked, OnWire, Flushing
    <2>3. Held'
      BY <1>2, <1>3, <1>7 DEF Core, Held, InQueue, Flushing
    <2>4. Greeting'
      BY <1>7 DEF Core, Greeting, OnWire, Flushing
    <2>5. Single'
      <3> SUFFICES ASSUME NEW r \in Reqs \ orphaned
                   PROVE  /\ Len(answers'[r]) <= 1
                          /\ owed[r] <= 1
                          /\ OnWire(r) => owed[r] = 0
                          /\ pend'[r] = "pending" =>
                                /\ Once(queue', r)
                                /\ InQueue(r)' => owed[r] = 0 /\ ~OnWire(r)
                          /\ pend'[r] = "done" =>
                                /\ ~OnWire(r)
                                /\ owed[r] > 0 => r = "initialize" /\ phase = "replaying"
        BY <1>7 DEF Single, OnWire, Flushing
      <3>1. CASE r \in S
        <4>1. answers[r] = <<>>
          BY <3>1 DEF Core, Known
        <4> QED
          BY <3>1, <4>1, <1>3, <1>4 DEF Core, Single
      <3>2. CASE r \notin S
        BY <3>2, <1>2, <1>3, <1>4 DEF Core, Single, InQueue
      <3> QED
        BY <3>1, <3>2
    <2> QED
      BY <1>3, <1>5, <1>6, <2>1, <2>2, <2>3, <2>4, <2>5 DEF Core
  <1>8. CASE Disconnected /\ S = Pending
    <2>1. sock' = 0 /\ phase' = "down" /\ ~greeted' /\ \A r \in Reqs : owed'[r] = 0
      BY <1>8 DEF Disconnected, Nothing
    <2>2. \A r \in Reqs : pend'[r] # "pending"
      BY <1>3, <1>8 DEF Pending
    <2>3. Linked'
      BY <1>3, <2>1 DEF Core, Linked
    <2>4. Marked' /\ Held' /\ Greeting'
      BY <2>1, <2>2 DEF Marked, Held, Greeting, OnWire
    <2>5. Single'
      <3> SUFFICES ASSUME NEW r \in Reqs \ orphaned PROVE Len(answers'[r]) <= 1
        BY <2>1, <2>2 DEF Single, OnWire
      <3>1. CASE r \in S
        <4>1. answers[r] = <<>>
          BY <3>1 DEF Core, Known
        <4> QED
          BY <3>1, <4>1, <1>4
      <3>2. CASE r \notin S
        BY <3>2, <1>4 DEF Core, Single
      <3> QED
        BY <3>1, <3>2
    <2> QED
      BY <1>3, <1>5, <1>6, <2>3, <2>4, <2>5 DEF Core
  <1> QED
    BY <1>7, <1>8
-----------------------------------------------------------------------------
(* Losing the connection. *)

\* A drop of the connection loses no request that is in q, marked or still in a
\* write that is yet to fail.
LEMMA DropKeeps ==
    ASSUME TypedWork, TypedLink, Core, NEW q \in Seq(Msgs), NEW snt \in SUBSET sent,
           \A m : Has(q, m) => m \in ToSet(arrived),
           \A r \in Reqs : pend[r] = "pending" =>
               Has(q, r) \/ r \in snt \/ (writing' = writing /\ Flushing(r)),
           \A r \in Reqs \ orphaned : pend[r] = "pending" => Once(q, r),
           Drop(q, snt), writing' \in {NoWrite, writing},
           UNCHANGED <<arrived, initKnown, initialized, initDelivered, orphaned>>
    PROVE  /\ TypedWork' /\ TypedLink' /\ Core' /\ sock' = 0
           /\ \A r \in Reqs : pend'[r] = "pending" => pend[r] = "pending"
  <1> USE InitIsRequest
  <1>1. snt \subseteq ToSet(arrived) /\ snt \in SUBSET Reqs
    BY DEF Core, Known, TypedWork
  <1>2. PICK over \in SUBSET Reqs :
              /\ \A r \in over : pend[r] = "pending"
              /\ Disconnected /\ Tell(over, "error")
              /\ pend' = [r \in Reqs |-> IF r \in over THEN "expired" ELSE pend[r]]
              /\ sent' \subseteq snt \ over
              /\ queue' \in Seq(Msgs)
              /\ \A m : Has(queue', m) => Has(q, m) \/ m \in snt
              /\ \A m : m \notin over /\ (Has(q, m) \/ m \in snt) => Has(queue', m)
              /\ \A m : Once(q, m) => Once(queue', m)
    <2>1. \A i \in DOMAIN q : q[i] \in ToSet(arrived)
      BY DEF Has
    <2> QED
      BY <1>1, <2>1, DropIs
  <1>3. /\ \A r \in over : pend'[r] = "expired"
        /\ \A r \in Reqs \ over : pend'[r] = pend[r]
    BY <1>2
  <1>4. /\ answers' \in [Reqs -> Seq(Answers)] /\ out' \subseteq Reqs
        /\ \A r \in over : answers'[r] # <<>> /\ Len(answers'[r]) = Len(answers[r]) + 1
        /\ \A r \in Reqs \ over : answers'[r] = answers[r]
        /\ \A r \in Reqs : answers[r] = <<>> => Len(answers[r]) = 0
    BY <1>2, TellIs DEF Answers
  <1>5. /\ sock' = 0 /\ phase' = "down" /\ ~greeted' /\ greeted' \in BOOLEAN /\ conns' = conns
        /\ owed' \in [Reqs -> Nat] /\ \A r \in Reqs : owed'[r] = 0
    BY <1>2 DEF Disconnected, Nothing
  <1>6. TypedWork'
    <2>1. pend' \in [Reqs -> States] /\ sent' \subseteq Reqs
          /\ \A r \in sent' : pend'[r] = "pending"
      BY <1>1, <1>2, <1>3 DEF TypedWork, States
    <2> QED
      BY <1>2, <1>4, <2>1 DEF TypedWork
  <1>7. TypedLink'
    BY <1>5 DEF TypedLink
  <1>8. \A m : Flushing(m)' => writing' = writing /\ Flushing(m)
    BY DEF Flushing, NoWrite
  <1>9. Linked'
    BY <1>3, <1>5 DEF Core, Linked, NoWrite
  <1>10. Known'
    <2>1. ASSUME NEW m \in Msgs, InQueue(m)' \/ Flushing(m)' PROVE m \in ToSet(arrived)
      BY <1>1, <1>2, <1>8, <2>1 DEF Core, Known, InQueue
    <2>2. ASSUME NEW r \in Reqs
          PROVE  /\ pend'[r] = "new" <=> r \notin ToSet(arrived)
                 /\ answers'[r] = <<>> <=> pend'[r] \in {"new", "pending"}
      BY <1>2, <1>3, <1>4 DEF Core, Known
    <2>3. answers'["initialize"] = <<>> => ToSet(arrived) \subseteq {"initialize"}
      BY <1>4 DEF Core, Known
    <2> QED
      BY <1>5, <2>1, <2>2, <2>3 DEF Known
  <1>11. Held'
    <2> SUFFICES ASSUME NEW r \in Reqs, pend'[r] = "pending"
                 PROVE  InQueue(r)' \/ Flushing(r)'
      BY DEF Held
    <2>1. r \notin over /\ pend[r] = "pending"
      BY <1>2, <1>3
    <2>2. CASE Has(q, r) \/ r \in snt
      BY <1>2, <2>1, <2>2 DEF InQueue
    <2>3. CASE writing' = writing /\ Flushing(r)
      BY <2>3 DEF Flushing
    <2> QED
      BY <2>1, <2>2, <2>3
  <1>12. Marked' /\ Greeting'
    BY <1>5 DEF Marked, Greeting, OnWire
  <1>13. Single'
    <2> SUFFICES ASSUME NEW r \in Reqs \ orphaned
                 PROVE  /\ Len(answers'[r]) <= 1
                        /\ pend'[r] = "pending" => Once(queue', r)
      BY <1>5 DEF Single, OnWire
    <2>1. CASE r \in over
      <3>1. answers[r] = <<>>
        BY <1>2, <2>1 DEF Core, Known
      <3> QED
        BY <2>1, <3>1, <1>3, <1>4
    <2>2. CASE r \notin over
      BY <2>2, <1>2, <1>3, <1>4 DEF Core, Single
    <2> QED
      BY <2>1, <2>2
  <1> QED
    BY <1>2, <1>3, <1>5, <1>6, <1>7, <1>9, <1>10, <1>11, <1>12, <1>13 DEF Core
\* m is put before the entries of q.
Headed(m, q) == <<m>> \o q

LEMMA PutBackIs ==
    ASSUME NEW q \in Seq(Msgs), NEW m \in Msgs, NEW b, b = Headed(m, q)
    PROVE  /\ b \in Seq(Msgs)
           /\ \A n : Has(b, n) <=> n = m \/ Has(q, n)
           /\ \A n : Once(q, n) /\ (n = m => ~Has(q, n)) => Once(b, n)
  <1>1. /\ b \in Seq(Msgs) /\ DOMAIN b = 1 .. (Len(q) + 1) /\ Len(q) \in Nat
        /\ DOMAIN q = 1 .. Len(q)
        /\ b[1] = m /\ \A i \in 2 .. (Len(q) + 1) : b[i] = q[i - 1]
    BY DEF Headed
  <1>2. \A i \in DOMAIN b : i = 1 \/ (i \in 2 .. (Len(q) + 1) /\ i - 1 \in DOMAIN q)
    BY <1>1
  <1>3. \A n : Has(b, n) => n = m \/ Has(q, n)
    BY <1>1, <1>2 DEF Has
  <1>4. Has(b, m)
    BY <1>1 DEF Has
  <1>5. ASSUME NEW n, Has(q, n) PROVE Has(b, n)
    <2>1. PICK i \in DOMAIN q : q[i] = n
      BY <1>5 DEF Has
    <2>2. i + 1 \in 2 .. (Len(q) + 1) /\ i + 1 \in DOMAIN b /\ b[i + 1] = q[(i + 1) - 1]
      BY <1>1
    <2>3. b[i + 1] = n
      BY <1>1, <2>1, <2>2
    <2> QED
      BY <2>2, <2>3 DEF Has
  <1>6. ASSUME NEW n, Once(q, n), n = m => ~Has(q, n) PROVE Once(b, n)
    <2> SUFFICES ASSUME NEW i \in DOMAIN b, NEW j \in DOMAIN b, b[i] = n, b[j] = n
                 PROVE  i = j
      BY DEF Once
    <2>1. i # 1 => i - 1 \in DOMAIN q /\ q[i - 1] = n
      BY <1>1, <1>2
    <2>2. j # 1 => j - 1 \in DOMAIN q /\ q[j - 1] = n
      BY <1>1, <1>2
    <2>3. i = 1 \/ j = 1 => i = j
      BY <1>1, <1>6, <2>1, <2>2 DEF Has
    <2>4. i # 1 /\ j # 1 => i - 1 = j - 1
      BY <1>6, <2>1, <2>2 DEF Once
    <2> QED
      BY <1>1, <2>3, <2>4
  <1> QED
    BY <1>1, <1>3, <1>4, <1>5, <1>6

LEMMA PutBackHas ==
    ASSUME TypedWork, writing.msg \in Msgs, writing.kind = "flush"
    PROVE  /\ PutBack \in Seq(Msgs)
           /\ \A n : Has(PutBack, n) <=> n = writing.msg \/ Has(queue, n)
           /\ \A n : Once(queue, n) /\ (n = writing.msg => ~Has(queue, n)) => Once(PutBack, n)
  <1>1. PutBack = Headed(writing.msg, queue)
    BY DEF PutBack, Headed
  <1>2. queue \in Seq(Msgs)
    BY DEF TypedWork
  <1> QED
    BY <1>1, <1>2, PutBackIs

\* What the upgrade and the connector keep when the connection is gone.
LEMMA LaterKeeps ==
    ASSUME IInv, ReconnectLater, sock' = 0, UNCHANGED <<outage, upgrade>>,
           \A r \in Reqs : pend'[r] = "pending" => pend[r] = "pending"
    PROVE  TypedUpgrade' /\ Refreshing' /\ Attached'
  <1>1. TypedUpgrade'
    BY DEF IInv, Typed, TypedUpgrade, upgrade, ReconnectLater
  <1>2. Refreshing'
    BY DEF IInv, Refreshing, upgrade
  <1>3. Attached'
    BY DEF IInv, Typed, TypedUpgrade, Attached, OneConnector, upgrade, ReconnectLater
  <1> QED
    BY <1>1, <1>2, <1>3

\* Without an awaited write, a waiting request is in the queue or marked; with
\* one on the connection it can be the one that is written.
LEMMA Waiting ==
    ASSUME Core, NEW r \in Reqs, pend[r] = "pending"
    PROVE  InQueue(r) \/ Flushing(r) \/ r \in sent
  BY DEF Core, Held, Marked

LEMMA QueueArrived ==
    ASSUME TypedWork, Core
    PROVE  \A m : Has(queue, m) => m \in Msgs /\ m \in ToSet(arrived)
  <1> SUFFICES ASSUME NEW m, Has(queue, m) PROVE m \in Msgs /\ m \in ToSet(arrived)
    OBVIOUS
  <1>1. m \in Msgs
    BY DEF Has, TypedWork
  <1> QED
    BY <1>1 DEF Core, Known, InQueue

LEMMA ClosedKeeps == IInv /\ Closed => IInv'
  <1> SUFFICES ASSUME IInv, Closed PROVE IInv'
    OBVIOUS
  <1> USE DEF IInv, Typed
  <1>1. /\ writing = NoWrite /\ writing' = NoWrite /\ Drop(queue, sent) /\ ReconnectLater
        /\ UNCHANGED <<arrived, initKnown, initialized, initDelivered, orphaned>>
        /\ UNCHANGED <<outage, upgrade>>
    BY DEF Closed, handshake
  <1>2. queue \in Seq(Msgs) /\ sent \in SUBSET sent
    BY DEF TypedWork
  <1>3. \A m : Has(queue, m) => m \in ToSet(arrived)
    BY QueueArrived
  <1>4. \A r \in Reqs : pend[r] = "pending" => Has(queue, r) \/ r \in sent
    BY <1>1, Waiting DEF InQueue, Flushing, NoWrite
  <1>5. \A r \in Reqs \ orphaned : pend[r] = "pending" => Once(queue, r)
    BY DEF Core, Single
  <1>6. /\ TypedWork' /\ TypedLink' /\ Core' /\ sock' = 0
        /\ \A r \in Reqs : pend'[r] = "pending" => pend[r] = "pending"
    BY <1>1, <1>2, <1>3, <1>4, <1>5, DropKeeps
  <1> QED
    BY <1>1, <1>6, LaterKeeps
\* The awaited write, when there is one.
LEMMA WritingIs ==
    ASSUME TypedWork, TypedLink, Core, writing # NoWrite
    PROVE  /\ writing.kind \in {"flush", "replay", "greet"}
           /\ writing.kind = "flush" => writing.msg \in ToSet(arrived)
           /\ writing.conn = conns /\ conns # 0
           /\ writing.conn # sock => sock = 0
           /\ writing.msg \in Msgs
  <1>1. writing \in Writes
    BY DEF TypedWork
  <1>2. writing.kind \in {"flush", "replay", "greet"} /\ writing.msg \in Msgs
        /\ writing.conn \in 1 .. MaxConns
    BY <1>1 DEF Writes
  <1>3. writing.conn = conns
    BY DEF Core, Linked
  <1>4. writing.kind = "flush" => writing.msg \in ToSet(arrived)
    BY <1>2 DEF Core, Known, Flushing
  <1> QED
    BY <1>2, <1>3, <1>4 DEF TypedLink

LEMMA WriteFailsKeeps == IInv /\ WriteFails => IInv'
  <1> SUFFICES ASSUME IInv, WriteFails PROVE IInv'
    OBVIOUS
  <1> USE DEF IInv, Typed
  <1>1. /\ writing # NoWrite /\ writing.conn = sock /\ writing' = NoWrite /\ ReconnectLater
        /\ IF writing.kind = "flush" THEN Drop(PutBack, Unmarked) ELSE Drop(queue, sent)
        /\ UNCHANGED <<arrived, initKnown, initialized, initDelivered, orphaned>>
        /\ UNCHANGED <<outage, upgrade>>
    BY DEF WriteFails, handshake
  <1>2. queue \in Seq(Msgs) /\ sent \in SUBSET sent /\ sent \subseteq Reqs
    BY DEF TypedWork
  <1>3. \A m : Has(queue, m) => m \in ToSet(arrived)
    BY QueueArrived
  <1>4. \A r \in Reqs \ orphaned : pend[r] = "pending" => Once(queue, r)
    BY DEF Core, Single
  <1>5. \A r \in Reqs : pend[r] = "pending" => Has(queue, r) \/ Flushing(r) \/ r \in sent
    BY Waiting DEF InQueue
  <1>6. /\ writing.msg \in Msgs /\ sock # 0
        /\ writing.kind = "flush" => writing.msg \in ToSet(arrived)
    BY <1>1, WritingIs
  <1>7. /\ TypedWork' /\ TypedLink' /\ Core' /\ sock' = 0
        /\ \A r \in Reqs : pend'[r] = "pending" => pend[r] = "pending"
    <2>1. CASE writing.kind = "flush"
      <3>1. /\ PutBack \in Seq(Msgs)
            /\ \A n : Has(PutBack, n) <=> n = writing.msg \/ Has(queue, n)
            /\ \A n : Once(queue, n) /\ (n = writing.msg => ~Has(queue, n)) => Once(PutBack, n)
        BY <1>6, <2>1, PutBackHas
      <3>2. Drop(PutBack, Unmarked) /\ Unmarked \in SUBSET sent
        BY <2>1, <1>1 DEF Unmarked
      <3>3. \A m : Has(PutBack, m) => m \in ToSet(arrived)
        BY <1>3, <1>6, <2>1, <3>1
      <3>4. \A r \in Reqs : pend[r] = "pending" => Has(PutBack, r) \/ r \in Unmarked
        BY <1>5, <3>1 DEF Flushing, Unmarked
      <3>5. \A r \in Reqs \ orphaned : pend[r] = "pending" => Once(PutBack, r)
        <4> SUFFICES ASSUME NEW r \in Reqs \ orphaned, pend[r] = "pending"
                     PROVE  Once(PutBack, r)
          OBVIOUS
        <4>1. r = writing.msg => ~Has(queue, r)
          BY <1>6, <2>1 DEF Core, Single, OnWire, Flushing, InQueue
        <4> QED
          BY <1>4, <3>1, <4>1
      <3> QED
        BY <1>1, <3>1, <3>2, <3>3, <3>4, <3>5, DropKeeps
    <2>2. CASE writing.kind # "flush"
      <3>1. \A r \in Reqs : pend[r] = "pending" => Has(queue, r) \/ r \in sent
        BY <1>5, <2>2 DEF Flushing
      <3> QED
        BY <1>1, <1>2, <1>3, <1>4, <2>2, <3>1, DropKeeps
    <2> QED
      BY <2>1, <2>2
  <1> QED
    BY <1>1, <1>7, LaterKeeps

LEMMA WriteFailsLateKeeps == IInv /\ WriteFailsLate => IInv'
  <1> SUFFICES ASSUME IInv, WriteFailsLate PROVE IInv'
    OBVIOUS
  <1> USE DEF IInv, Typed
  <1> USE InitIsRequest
  <1>1. /\ writing # NoWrite /\ writing.conn # sock /\ writing' = NoWrite /\ ReconnectLater
        /\ queue' = PutBack
        /\ sent' = IF writing.kind = "flush" THEN Unmarked ELSE sent
        /\ orphaned' = IF writing.kind = "flush" THEN orphaned \cup {writing.msg} ELSE orphaned
        /\ UNCHANGED <<arrived, answers, out, pend>>
        /\ UNCHANGED <<sock, conns, phase, owed, greeted, initKnown, initialized, initDelivered>>
        /\ UNCHANGED <<outage, upgrade>>
    BY DEF WriteFailsLate, handshake, link, agent
  <1>2. queue \in Seq(Msgs)
    BY DEF TypedWork
  <1>3. /\ writing.msg \in Msgs /\ sock = 0
        /\ writing.kind = "flush" => writing.msg \in ToSet(arrived)
    BY <1>1, WritingIs
  <1>4. /\ queue' \in Seq(Msgs)
        /\ \A n : Has(queue', n) <=> Flushing(n) \/ Has(queue, n)
        /\ \A n : Once(queue, n) /\ ~Flushing(n) => Once(queue', n)
    <2>1. CASE writing.kind = "flush"
      <3>2. /\ PutBack \in Seq(Msgs)
            /\ \A n : Has(PutBack, n) <=> n = writing.msg \/ Has(queue, n)
            /\ \A n : Once(queue, n) /\ (n = writing.msg => ~Has(queue, n)) => Once(PutBack, n)
        BY <1>3, <2>1, PutBackHas
      <3>3. \A n : Flushing(n) <=> n = writing.msg
        BY <2>1 DEF Flushing
      <3> QED
        BY <1>1, <3>2, <3>3
    <2>2. CASE writing.kind # "flush"
      BY <1>1, <1>2, <2>2 DEF PutBack, Flushing
    <2> QED
      BY <2>1, <2>2
  <1>5. TypedWork'
    <2>1. sent' \subseteq sent /\ orphaned' \subseteq Msgs
      BY <1>1, <1>3 DEF Unmarked, TypedWork
    <2> QED
      BY <1>1, <1>4, <2>1 DEF TypedWork
  <1>6. TypedLink'
    BY <1>1 DEF TypedLink
  <1>7. /\ ~greeted /\ phase = "down" /\ \A r \in Reqs : owed[r] = 0
    BY <1>3 DEF Core, Linked, TypedLink
  <1>8. \A m : ~Flushing(m)'
    BY <1>1 DEF Flushing, NoWrite
  <1>9. Linked'
    BY <1>1, <1>7 DEF Core, Linked, NoWrite
  <1>10. Known'
    <2>1. ASSUME NEW m \in Msgs, InQueue(m)' PROVE m \in ToSet(arrived)
      BY <1>3, <1>4, <2>1 DEF Core, Known, InQueue, Flushing
    <2> QED
      BY <1>1, <1>8, <2>1 DEF Core, Known
  <1>11. Held'
    BY <1>1, <1>4, <1>7 DEF Core, Held, InQueue
  <1>12. Marked' /\ Greeting'
    BY <1>1, <1>3, <1>7 DEF Marked, Greeting, OnWire
  <1>13. Single'
    <2>1. \A r \in Reqs \ orphaned' : r \notin orphaned /\ ~Flushing(r)
      BY <1>1 DEF Flushing
    <2>2. \A r \in Reqs \ orphaned' :
             /\ Len(answers'[r]) <= 1
             /\ pend'[r] = "pending" => Once(queue', r)
      BY <1>1, <1>4, <2>1 DEF Core, Single
    <2> QED
      BY <1>1, <1>3, <1>7, <2>2 DEF Single, OnWire
  <1> QED
    BY <1>1, <1>3, <1>5, <1>6, <1>9, <1>10, <1>11, <1>12, <1>13, LaterKeeps DEF Core

LEMMA BumpDropsKeeps == IInv /\ BumpDrops => IInv'
  <1> SUFFICES ASSUME IInv, BumpDrops PROVE IInv'
    OBVIOUS
  <1> USE DEF IInv, Typed
  <1>1. /\ UNCHANGED <<arrived, writing, outage, initKnown, initialized, initDelivered, bumps,
                       refresh, awaited, reexecs, orphaned>>
        /\ bump' = "settling" /\ backoff' = ~connecting /\ connecting' = TRUE
        /\ loop' = IF loop = "delay" THEN "opening" ELSE loop
        /\ IF sock = 0 THEN UNCHANGED <<answers, out, work, link>> ELSE Drop(queue, sent)
    BY DEF BumpDrops, handshake
  <1>2. /\ TypedWork' /\ TypedLink' /\ Core' /\ sock' = 0
        /\ \A r \in Reqs : pend'[r] = "pending" => pend[r] = "pending"
    <2>1. CASE sock = 0
      <3>1. UNCHANGED <<arrived, answers, out, queue, pend, sent, writing, sock, conns, phase,
                        owed, greeted, initKnown, initialized, initDelivered, orphaned>>
        BY <1>1, <2>1 DEF work, link
      <3>2. TypedWork' /\ Core'
        BY <3>1, AsideKeeps
      <3> QED
        BY <2>1, <3>1, <3>2 DEF TypedLink
    <2>2. CASE sock # 0
      <3>1. queue \in Seq(Msgs) /\ sent \in SUBSET sent /\ Drop(queue, sent)
        BY <1>1, <2>2 DEF TypedWork
      <3>2. \A m : Has(queue, m) => m \in ToSet(arrived)
        BY QueueArrived
      <3>3. \A r \in Reqs \ orphaned : pend[r] = "pending" => Once(queue, r)
        BY DEF Core, Single
      <3>4. \A r \in Reqs : pend[r] = "pending" =>
               Has(queue, r) \/ r \in sent \/ (writing' = writing /\ Flushing(r))
        BY <1>1, Waiting DEF InQueue
      <3> QED
        BY <1>1, <3>1, <3>2, <3>3, <3>4, DropKeeps
    <2> QED
      BY <2>1, <2>2
  <1>3. TypedUpgrade' /\ Attached'
    BY <1>1, <1>2 DEF TypedUpgrade, Attached, OneConnector
  <1>4. Refreshing'
    BY <1>1, <1>2 DEF Refreshing
  <1> QED
    BY <1>2, <1>3, <1>4
-----------------------------------------------------------------------------
(* Flushing. *)

\* What q and snt have to be when the queue is flushed with nothing awaited,
\* once the rest of the step is done.
Flushable(q, snt) ==
    /\ q \in Seq(Msgs) /\ snt \subseteq Reqs
    /\ \A m : Has(q, m) => m \in ToSet(arrived')
    /\ \A r \in snt : pend'[r] = "pending"
    /\ \A r \in Reqs : pend'[r] = "pending" =>
          /\ Has(q, r) \/ owed'[r] > 0
          /\ owed'[r] > 0 => r \in snt
    /\ \A r \in Reqs \ orphaned' : pend'[r] = "pending" =>
          Once(q, r) /\ (Has(q, r) => owed'[r] = 0)

\* The daemon that is connected, and the agent, as a flush finds them.
Settled ==
    /\ arrived' \in Seq(Msgs) /\ IsInjective(arrived')
    /\ answers' \in [Reqs -> Seq(Answers)] /\ out' \subseteq Reqs
    /\ pend' \in [Reqs -> States] /\ orphaned' \subseteq Msgs
    /\ phase' = "ready" /\ sock' = conns' /\ conns' \in 1 .. MaxConns
    /\ owed' \in [Reqs -> Nat]
    /\ owed'["initialize"] > 0 => greeted'
    /\ initKnown' => pend'["initialize"] # "new"
    /\ \A r \in Reqs :
          /\ pend'[r] = "new" <=> r \notin ToSet(arrived')
          /\ answers'[r] = <<>> <=> pend'[r] \in {"new", "pending"}
          /\ owed'[r] > 0 => pend'[r] # "new"
    /\ answers'["initialize"] = <<>> => ToSet(arrived') \subseteq {"initialize"}
    /\ initKnown' /\ ~greeted' =>
          pend'["initialize"] = "pending" /\ owed'["initialize"] = 0
    /\ \A r \in Reqs \ orphaned' :
          /\ Len(answers'[r]) <= 1 /\ owed'[r] <= 1
          /\ pend'[r] = "done" => owed'[r] = 0

LEMMA FlushKeeps ==
    ASSUME NEW q, NEW snt, Settled, Flushable(q, snt), FlushFrom(q, snt, pend', sock')
    PROVE  TypedWork' /\ Core'
  <1> USE InitIsRequest
  <1>1. Flushed(q, snt, pend', sock')
    BY FlushFromIs DEF Settled, Flushable
  <1>2. /\ queue' \in Seq(Msgs)
        /\ \A m : Has(queue', m) => Has(q, m)
        /\ \A m : Once(q, m) => Once(queue', m)
    BY <1>1 DEF Flushed
  <1>3. sock' # 0 /\ phase' = "ready" /\ sock' = conns' /\ conns' \in 1 .. MaxConns
    BY DEF Settled
  <1>4. Known' \/ \E m \in Msgs : Flushing(m)' /\ m \notin ToSet(arrived')
    <2> SUFFICES ASSUME \A m \in Msgs : Flushing(m)' => m \in ToSet(arrived')
                 PROVE  Known'
      OBVIOUS
    <2>1. \A m : InQueue(m)' => m \in ToSet(arrived')
      BY <1>2 DEF Flushable, InQueue
    <2> QED
      BY <2>1 DEF Known, Settled
  <1>5. CASE /\ writing' = NoWrite /\ sent' = snt
             /\ \A r \in Reqs : Has(q, r) => ~Wanted(r, pend')
    <2>1. \A m : ~Flushing(m)' /\ ~OnWire(m)'
      BY <1>5 DEF Flushing, OnWire, NoWrite
    <2>2. TypedWork'
      BY <1>2, <1>5 DEF TypedWork, Settled, Flushable
    <2>3. Linked'
      BY <1>3, <1>5 DEF Linked, NoWrite, Settled
    <2>4. Known'
      BY <1>4, <2>1
    <2>5. Marked' /\ Held'
      BY <1>5, <2>1 DEF Marked, Held, Flushable, Wanted
    <2>6. Greeting'
      BY <1>5 DEF Greeting, Settled, Flushable, Wanted
    <2>7. Single'
      <3> SUFFICES ASSUME NEW r \in Reqs \ orphaned'
                   PROVE  /\ Len(answers'[r]) <= 1
                          /\ owed'[r] <= 1
                          /\ pend'[r] = "pending" => /\ Once(queue', r)
                                                     /\ InQueue(r)' => owed'[r] = 0
                          /\ pend'[r] = "done" => owed'[r] = 0
        BY <2>1 DEF Single
      <3> QED
        BY <1>2 DEF Settled, Flushable, InQueue
    <2> QED
      BY <2>2, <2>3, <2>4, <2>5, <2>6, <2>7 DEF Core
  <1>6. CASE \E m \in Msgs :
             /\ writing' = [kind |-> "flush", msg |-> m, conn |-> sock']
             /\ sent' = snt \cup ({m} \cap Reqs)
             /\ Has(q, m) /\ (m \in Reqs => Wanted(m, pend'))
             /\ \A r \in Reqs : Has(q, r) /\ Wanted(r, pend') => r = m \/ Has(queue', r)
             /\ Once(q, m) => ~Has(queue', m)
    <2>1. PICK m \in Msgs :
             /\ writing' = [kind |-> "flush", msg |-> m, conn |-> sock']
             /\ sent' = snt \cup ({m} \cap Reqs)
             /\ Has(q, m) /\ (m \in Reqs => Wanted(m, pend'))
             /\ \A r \in Reqs : Has(q, r) /\ Wanted(r, pend') => r = m \/ Has(queue', r)
             /\ Once(q, m) => ~Has(queue', m)
      BY <1>6
    <2>2. /\ writing'.kind = "flush" /\ writing'.msg = m /\ writing'.conn = sock'
          /\ \A n : Flushing(n)' <=> n = m
          /\ \A n : OnWire(n)' <=> n = m
      BY <1>3, <2>1 DEF Flushing, OnWire
    <2>3. TypedWork'
      <3>1. writing' \in Writes
        BY <1>3, <2>1 DEF Writes
      <3>2. sent' \subseteq Reqs /\ \A r \in sent' : pend'[r] = "pending"
        BY <2>1 DEF Flushable, Wanted
      <3> QED
        BY <1>2, <3>1, <3>2 DEF TypedWork, Settled
    <2>4. Linked'
      BY <1>3, <2>2 DEF Linked, Settled
    <2>5. Known'
      BY <1>4, <2>1, <2>2 DEF Flushable
    <2>6. Marked' /\ Held'
      <3> SUFFICES ASSUME NEW r \in Reqs, pend'[r] = "pending"
                   PROVE  /\ owed'[r] > 0 \/ r = m => r \in sent'
                          /\ InQueue(r)' \/ r = m \/ owed'[r] > 0
        BY <2>2 DEF Marked, Held
      <3> QED
        BY <2>1 DEF Flushable, Wanted, InQueue
    <2>7. Greeting'
      <3> SUFFICES ASSUME initKnown', ~greeted' PROVE m = "initialize"
        BY <2>2 DEF Greeting
      <3>1. ToSet(arrived') \subseteq {"initialize"}
        BY DEF Settled
      <3> QED
        BY <2>1, <3>1 DEF Flushable
    <2>8. Single'
      <3> SUFFICES ASSUME NEW r \in Reqs \ orphaned'
                   PROVE  /\ Len(answers'[r]) <= 1
                          /\ owed'[r] <= 1
                          /\ r = m => owed'[r] = 0
                          /\ pend'[r] = "pending" => /\ Once(queue', r)
                                                     /\ InQueue(r)' => owed'[r] = 0 /\ r # m
                          /\ pend'[r] = "done" => r # m /\ owed'[r] = 0
        BY <2>2 DEF Single
      <3>1. r = m => pend'[r] = "pending"
        BY <2>1 DEF Wanted
      <3> QED
        BY <1>2, <2>1, <3>1 DEF Settled, Flushable, InQueue
    <2> QED
      BY <2>3, <2>4, <2>5, <2>6, <2>7, <2>8 DEF Core
  <1> QED
    BY <1>1, <1>5, <1>6 DEF Flushed
LEMMA OpenedKeeps == IInv /\ Opened => IInv'
  <1> SUFFICES ASSUME IInv, Opened PROVE IInv'
    OBVIOUS
  <1> USE DEF IInv, Typed
  <1>1. /\ loop = "opening" /\ conns < MaxConns /\ writing = NoWrite
        /\ conns' = conns + 1 /\ sock' = conns + 1
        /\ owed' = Nothing /\ greeted' = FALSE
        /\ loop' = "idle" /\ connecting' = FALSE
        /\ IF ReplayFirst
           THEN /\ phase' = "replaying"
                /\ writing' = [kind |-> "replay", msg |-> "initialize", conn |-> conns + 1]
                /\ UNCHANGED <<queue, sent>>
           ELSE phase' = "ready" /\ FlushFrom(queue, sent, pend, conns + 1)
        /\ UNCHANGED <<arrived, answers, out, pend, backoff, outage, initKnown, initialized,
                       initDelivered, orphaned>>
        /\ UNCHANGED upgrade
    BY DEF Opened, agent, handshake
  <1>2. sock = 0 /\ ~backoff
    BY <1>1 DEF Attached, OneConnector
  <1>3. /\ \A r \in Reqs : owed[r] = 0 /\ owed'[r] = 0
        /\ owed' \in [Reqs -> Nat]
        /\ conns' \in 1 .. MaxConns /\ sock' = conns' /\ sock' # 0
    <2>1. \A r \in Reqs : owed[r] = 0
      BY <1>2 DEF Core, Linked
    <2>2. owed' \in [Reqs -> Nat] /\ \A r \in Reqs : owed'[r] = 0
      BY <1>1 DEF Nothing
    <2>3. conns \in Nat /\ MaxConns \in Nat
      BY ProxyAssumption DEF TypedLink
    <2> QED
      BY <1>1, <2>1, <2>2, <2>3
  <1>4. \A m : ~Flushing(m) /\ ~OnWire(m)
    BY <1>1 DEF Flushing, OnWire, NoWrite
  <1>5. TypedLink'
    <2>1. phase' \in {"replaying", "ready"}
      BY <1>1
    <2>2. conns' \in 0 .. MaxConns
      BY <1>3
    <2> QED
      BY <1>1, <1>3, <2>1, <2>2 DEF TypedLink
  <1>6. TypedUpgrade' /\ Refreshing' /\ Attached'
    BY <1>1, <1>2 DEF TypedUpgrade, Refreshing, Attached, OneConnector, upgrade
  <1>7. CASE ReplayFirst
    <2> USE InitIsRequest
    <2>1. /\ phase' = "replaying"
          /\ writing' = [kind |-> "replay", msg |-> "initialize", conn |-> conns']
          /\ UNCHANGED <<queue, sent>>
          /\ pend["initialize"] # "pending" /\ initKnown
      BY <1>1, <1>7 DEF ReplayFirst
    <2>2. \A m : ~Flushing(m)' /\ ~OnWire(m)'
      BY <2>1 DEF Flushing, OnWire
    <2>3. TypedWork'
      <3>1. writing' \in Writes
        BY <1>3, <2>1 DEF Writes
      <3> QED
        BY <1>1, <2>1, <3>1 DEF TypedWork
    <2>4. Linked'
      BY <1>1, <1>3, <2>1 DEF Core, Linked
    <2>5. Known' /\ Marked' /\ Held'
      BY <1>1, <1>3, <1>4, <2>1, <2>2 DEF Core, Known, Marked, Held, InQueue
    <2>6. Greeting' /\ Single'
      BY <1>1, <1>3, <1>4, <2>1, <2>2 DEF Core, Greeting, Single, InQueue
    <2> QED
      BY <1>5, <1>6, <2>3, <2>4, <2>5, <2>6 DEF Core
  <1>8. CASE ~ReplayFirst
    <2>1. /\ phase' = "ready" /\ FlushFrom(queue, sent, pend', sock')
          /\ initKnown => pend["initialize"] = "pending"
      BY <1>1, <1>8 DEF ReplayFirst
    <2>2. Settled
      <3>1. /\ \A r \in Reqs :
                  /\ pend[r] = "new" <=> r \notin ToSet(arrived)
                  /\ answers[r] = <<>> <=> pend[r] \in {"new", "pending"}
            /\ answers["initialize"] = <<>> => ToSet(arrived) \subseteq {"initialize"}
            /\ initKnown => pend["initialize"] # "new"
        BY DEF Core, Known, Linked
      <3>2. \A r \in Reqs \ orphaned : Len(answers[r]) <= 1
        BY DEF Core, Single
      <3>3. "initialize" \in Reqs
        BY InitIsRequest
      <3> QED
        BY <1>1, <1>3, <2>1, <3>1, <3>2, <3>3 DEF Settled, TypedWork
    <2>3. \A m : Has(queue, m) => m \in ToSet(arrived)
      BY QueueArrived
    <2>4. Flushable(queue, sent)
      <3>1. \A r \in Reqs : pend[r] = "pending" => Has(queue, r)
        BY <1>3, <1>4 DEF Core, Held, InQueue
      <3>2. \A r \in Reqs \ orphaned : pend[r] = "pending" => Once(queue, r)
        BY DEF Core, Single
      <3> QED
        BY <1>1, <1>3, <2>3, <3>1, <3>2 DEF Flushable, TypedWork
    <2>5. TypedWork' /\ Core'
      BY <2>1, <2>2, <2>4, FlushKeeps
    <2> QED
      BY <1>5, <1>6, <2>5
  <1> QED
    BY <1>7, <1>8

LEMMA WriteCompletesKeeps == IInv /\ WriteCompletes => IInv'
  <1> SUFFICES ASSUME IInv, WriteCompletes PROVE IInv'
    OBVIOUS
  <1> USE DEF IInv, Typed
  <1> USE InitIsRequest
  <1> DEFINE m == writing.msg
  <1>1. /\ writing # NoWrite /\ writing.conn = sock
        /\ owed' = Owing(m) /\ greeted' = (greeted \/ m = "initialize")
        /\ CASE writing.kind = "replay" ->
                  writing' = NoWrite /\ UNCHANGED <<queue, sent, phase, outage>>
             [] writing.kind = "greet" -> /\ phase' = "ready" /\ outage' = FALSE
                                          /\ FlushFrom(queue, sent, pend, sock)
             [] writing.kind = "flush" -> /\ FlushFrom(queue, sent, pend, sock)
                                          /\ UNCHANGED <<phase, outage>>
        /\ UNCHANGED <<arrived, answers, out, pend, sock, conns, initKnown, initialized,
                       initDelivered, orphaned, loop, connecting, backoff>>
        /\ UNCHANGED upgrade
    BY DEF WriteCompletes, agent, handshake, connector
  <1>2. /\ writing.kind \in {"flush", "replay", "greet"} /\ m \in Msgs
        /\ sock # 0 /\ sock = conns
    BY <1>1, WritingIs
  <1>3. /\ owed' \in [Reqs -> Nat] /\ greeted' \in BOOLEAN
        /\ \A r \in Reqs : r # m => owed'[r] = owed[r]
        /\ m \in Reqs => owed'[m] = owed[m] + 1
        /\ \A r \in Reqs : owed[r] \in Nat
    BY <1>1 DEF Owing, TypedLink
  <1> HIDE DEF m
  <1>4. CASE writing.kind = "replay"
    <2>1. /\ writing' = NoWrite /\ UNCHANGED <<queue, sent, phase, outage>>
      BY <1>1, <1>4
    <2>2. /\ m = "initialize" /\ phase = "replaying" /\ owed["initialize"] = 0
          /\ owed'["initialize"] = 1 /\ greeted'
          /\ \A r \in Reqs \ {"initialize"} : owed'[r] = owed[r]
      <3>1. m = "initialize" /\ phase \in {"down", "replaying"} /\ owed["initialize"] = 0
        BY <1>4 DEF Core, Linked, m
      <3>2. phase = "replaying"
        BY <1>2, <3>1 DEF TypedLink
      <3>3. owed'["initialize"] = 1
        BY <1>3, <3>1
      <3>4. greeted'
        BY <1>1, <3>1
      <3> QED
        BY <1>3, <3>1, <3>2, <3>3, <3>4
    <2>3. \A n : ~Flushing(n) /\ ~OnWire(n) /\ ~Flushing(n)' /\ ~OnWire(n)'
      BY <1>4, <2>1 DEF Flushing, OnWire, NoWrite
    <2>4. pend["initialize"] \notin {"new", "pending"}
      BY <2>2 DEF Core, Linked
    <2>5. TypedWork' /\ TypedLink'
      BY <1>1, <1>3, <2>1 DEF TypedWork, TypedLink
    <2>6. TypedUpgrade' /\ Refreshing' /\ Attached'
      BY <1>1, <2>1 DEF TypedUpgrade, Refreshing, Attached, OneConnector, upgrade
    <2>7. Linked'
      BY <1>1, <1>2, <2>1, <2>2, <2>4 DEF Core, Linked, NoWrite
    <2>8. Known' /\ Marked' /\ Held' /\ Greeting'
      BY <1>1, <2>1, <2>2, <2>3, <2>4 DEF Core, Known, Marked, Held, Greeting, InQueue
    <2>9. Single'
      BY <1>1, <2>1, <2>2, <2>3, <2>4 DEF Core, Single, InQueue
    <2> QED
      BY <2>5, <2>6, <2>7, <2>8, <2>9 DEF Core
  <1>5. CASE writing.kind \in {"greet", "flush"}
    <2>1. /\ phase' = "ready" /\ outage' \in BOOLEAN
          /\ FlushFrom(queue, sent, pend', sock')
      <3>1. writing.kind = "flush" => phase = "ready"
        BY <1>2 DEF Core, Linked, TypedLink
      <3> QED
        BY <1>1, <1>5, <3>1 DEF TypedUpgrade
    <2>2. TypedLink'
      BY <1>1, <1>2, <1>3, <2>1 DEF TypedLink
    <2>3. TypedUpgrade' /\ Refreshing' /\ Attached'
      BY <1>1, <2>1 DEF TypedUpgrade, Refreshing, Attached, OneConnector, upgrade
    <2>4. /\ \A n : OnWire(n) <=> Flushing(n)
          /\ \A n : Flushing(n) => n = m
          /\ m \in Reqs => OnWire(m)
      <3>1. writing.kind = "greet" => m = "initialized"
        BY DEF Core, Linked, m
      <3> QED
        BY <1>2, <1>5, <3>1 DEF OnWire, Flushing, m
    <2>5. /\ \A r \in Reqs : owed'[r] > 0 => owed[r] > 0 \/ OnWire(r)
          /\ \A r \in Reqs : owed[r] > 0 \/ OnWire(r) => owed'[r] > 0
          /\ \A r \in Reqs : ~OnWire(r) => owed'[r] = owed[r]
          /\ \A r \in Reqs : OnWire(r) => owed'[r] = owed[r] + 1
      BY <1>3, <2>4
    <2>6. \A r \in Reqs : OnWire(r) => r \in ToSet(arrived)
      BY <2>4 DEF Core, Known
    <2>7. greeted \/ m = "initialize" \/ ~initKnown
      <3>1. ASSUME writing.kind = "greet" PROVE greeted
        <4>1. phase = "greeting"
          BY <1>2, <3>1 DEF Core, Linked, TypedLink
        <4> QED
          BY <4>1 DEF Core, Linked
      <3>2. CASE writing.kind = "flush"
        BY <1>2, <2>4, <3>2 DEF Core, Linked, TypedLink, Greeting
      <3> QED
        BY <1>5, <3>1, <3>2
    <2>8. ASSUME NEW r \in Reqs
          PROVE  /\ pend[r] = "new" <=> r \notin ToSet(arrived)
                 /\ answers[r] = <<>> <=> pend[r] \in {"new", "pending"}
                 /\ owed'[r] > 0 => pend[r] # "new"
      BY <2>5, <2>6 DEF Core, Known
    <2>9. owed'["initialize"] > 0 => greeted'
      BY <1>1, <2>4, <2>5 DEF Core, Linked, m
    <2>10. ASSUME NEW r \in Reqs \ orphaned
           PROVE  /\ Len(answers[r]) <= 1 /\ owed'[r] <= 1
                  /\ pend[r] = "done" => owed'[r] = 0
      <3>1. OnWire(r) => owed'[r] = 1 /\ pend[r] # "done"
        BY <2>5, <1>3 DEF Core, Single
      <3>2. ~OnWire(r) => owed'[r] <= 1
        BY <2>5, <1>3 DEF Core, Single
      <3>3. phase # "replaying"
        BY <1>2, <1>5 DEF Core, Linked
      <3>4. pend[r] = "done" => owed[r] = 0 /\ ~OnWire(r)
        BY <1>3, <3>3 DEF Core, Single
      <3> QED
        BY <2>5, <3>1, <3>2, <3>4 DEF Core, Single
    <2>11. Settled
      <3>1. sock' = conns' /\ conns' \in 1 .. MaxConns
        BY <1>1, <1>2 DEF TypedLink
      <3>2. initKnown' /\ ~greeted' => FALSE
        BY <1>1, <2>7, m = writing.msg DEF m
      <3>3. initKnown => pend["initialize"] # "new"
        BY DEF Core, Linked
      <3>4. answers["initialize"] = <<>> => ToSet(arrived) \subseteq {"initialize"}
        BY DEF Core, Known
      <3> QED
        BY <1>1, <1>3, <2>1, <2>8, <2>9, <2>10, <3>1, <3>2, <3>3, <3>4 DEF Settled, TypedWork
    <2>12. Flushable(queue, sent)
      <3>1. \A n : Has(queue, n) => n \in ToSet(arrived)
        BY QueueArrived
      <3>2. \A r \in Reqs : pend[r] = "pending" =>
              /\ Has(queue, r) \/ owed'[r] > 0
              /\ owed'[r] > 0 => r \in sent
        BY <2>4, <2>5 DEF Core, Held, Marked, InQueue
      <3>3. \A r \in Reqs \ orphaned : pend[r] = "pending" =>
              Once(queue, r) /\ (Has(queue, r) => owed'[r] = 0)
        BY <2>5 DEF Core, Single, InQueue
      <3> QED
        BY <1>1, <3>1, <3>2, <3>3 DEF Flushable, TypedWork
    <2>13. TypedWork' /\ Core'
      BY <2>1, <2>11, <2>12, FlushKeeps
    <2> QED
      BY <2>2, <2>3, <2>13
  <1> QED
    BY <1>2, <1>4, <1>5
-----------------------------------------------------------------------------
(* What the daemon says. *)

\* One copy that was owed is answered.
LEMMA AnsweredIs ==
    ASSUME TypedLink, NEW r \in Reqs, owed[r] > 0, Answered(r)
    PROVE  /\ owed' \in [Reqs -> Nat] /\ owed'[r] = owed[r] - 1
           /\ \A s \in Reqs : owed[s] \in Nat /\ owed'[s] <= owed[s]
           /\ \A s \in Reqs \ {r} : owed'[s] = owed[s]
  <1>1. owed \in [Reqs -> Nat] /\ owed' = [owed EXCEPT ![r] = owed[r] - 1]
    BY DEF TypedLink, Answered
  <1>2. owed[r] \in Nat /\ owed[r] - 1 \in Nat
    BY <1>1
  <1> QED
    BY <1>1, <1>2

LEMMA ReplayAcceptedKeeps == IInv /\ ReplayAccepted => IInv'
  <1> SUFFICES ASSUME IInv, ReplayAccepted PROVE IInv'
    OBVIOUS
  <1> USE DEF IInv, Typed
  <1> USE InitIsRequest
  <1>1. /\ phase = "replaying" /\ owed["initialize"] > 0 /\ Answered("initialize")
        /\ IF initialized
           THEN /\ phase' = "greeting"
                /\ queue' = Kept(queue, {i \in DOMAIN queue : IsRequest(queue[i])})
                /\ writing' = [kind |-> "greet", msg |-> "initialized", conn |-> sock]
                /\ UNCHANGED <<sent, outage>>
           ELSE /\ phase' = "ready" /\ outage' = FALSE
                /\ FlushFrom(queue, sent, pend, sock)
        /\ UNCHANGED <<arrived, answers, out, pend, sock, conns, greeted, initKnown, initialized,
                       initDelivered, orphaned, loop, connecting, backoff>>
        /\ UNCHANGED upgrade
    BY DEF ReplayAccepted, agent, handshake, connector
  <1>2. /\ owed' \in [Reqs -> Nat] /\ owed'["initialize"] = 0
        /\ \A s \in Reqs : owed[s] \in Nat /\ owed'[s] <= owed[s]
        /\ \A s \in Reqs \ {"initialize"} : owed'[s] = owed[s]
    <2>1. owed["initialize"] <= 1
      BY <1>1 DEF Core, Linked
    <2> QED
      BY <1>1, <2>1, AnsweredIs
  <1>3. /\ greeted /\ sock # 0 /\ sock = conns /\ conns \in 1 .. MaxConns
        /\ pend["initialize"] \notin {"new", "pending"}
    BY <1>1 DEF Core, Linked, TypedLink
  <1>4. writing = NoWrite
    <2>1. writing # NoWrite => writing.kind \in {"flush", "replay", "greet"}
      BY WritingIs
    <2> QED
      BY <1>1, <2>1 DEF Core, Linked
  <1>5. \A m : ~Flushing(m) /\ ~OnWire(m)
    BY <1>4 DEF Flushing, OnWire, NoWrite
  <1>6. outage' \in BOOLEAN /\ phase' \in {"greeting", "ready"}
    BY <1>1 DEF TypedUpgrade
  <1>7. TypedLink'
    BY <1>1, <1>2, <1>3, <1>6 DEF TypedLink
  <1>8. TypedUpgrade' /\ Refreshing' /\ Attached'
    BY <1>1, <1>6 DEF TypedUpgrade, Refreshing, Attached, OneConnector, upgrade
  <1>9. /\ \A r \in Reqs : owed'[r] > 0 => owed[r] > 0
        /\ \A r \in Reqs : pend[r] = "pending" => owed'[r] = owed[r]
    BY <1>2, <1>3
  <1>10. CASE initialized
    <2> DEFINE I == {i \in DOMAIN queue : IsRequest(queue[i])}
    <2>1. /\ phase' = "greeting" /\ queue' = Kept(queue, I)
          /\ writing' = [kind |-> "greet", msg |-> "initialized", conn |-> sock]
          /\ sent' = sent
      BY <1>1, <1>10
    <2>2. queue \in Seq(Msgs) /\ I \in SUBSET DOMAIN queue
      BY DEF TypedWork
    <2>3. \A r \in Reqs : \A i \in DOMAIN queue : queue[i] = r => i \in I
      BY DEF IsRequest
    <2> HIDE DEF I
    <2>4. /\ queue' \in Seq(Msgs)
          /\ \A i \in I : Has(queue', queue[i])
          /\ \A k \in DOMAIN queue' : \E i \in I : queue'[k] = queue[i]
          /\ \A m : Once(queue, m) => Once(queue', m)
      BY <2>1, <2>2, KeptIs
    <2>5. /\ \A m : Has(queue', m) => Has(queue, m)
          /\ \A r \in Reqs : Has(queue, r) => Has(queue', r)
      BY <2>2, <2>3, <2>4 DEF Has
    <2>6. \A m : ~Flushing(m)' /\ ~OnWire(m)'
      BY <2>1 DEF Flushing, OnWire
    <2>7. TypedWork'
      <3>1. writing' \in Writes
        BY <1>3, <2>1 DEF Writes, Msgs
      <3> QED
        BY <1>1, <2>1, <2>4, <3>1 DEF TypedWork
    <2>8. Linked'
      BY <1>1, <1>2, <1>3, <2>1 DEF Core, Linked
    <2>9. Known'
      BY <1>1, <1>9, <2>5, <2>6 DEF Core, Known, InQueue
    <2>10. Marked' /\ Held' /\ Greeting'
      BY <1>1, <1>5, <1>9, <2>1, <2>5, <2>6 DEF Core, Marked, Held, Greeting, InQueue
    <2>11. Single'
      <3> SUFFICES ASSUME NEW r \in Reqs \ orphaned
                   PROVE  /\ Len(answers[r]) <= 1
                          /\ owed'[r] <= 1
                          /\ pend[r] = "pending" => /\ Once(queue', r)
                                                    /\ Has(queue', r) => owed'[r] = 0
                          /\ pend[r] = "done" => owed'[r] = 0
        BY <1>1, <2>6 DEF Single, InQueue
      <3>1. Len(answers[r]) <= 1 /\ owed'[r] <= 1
        BY <1>2 DEF Core, Single
      <3>2. pend[r] = "pending" => Once(queue', r) /\ (Has(queue', r) => owed'[r] = 0)
        BY <1>9, <2>4, <2>5 DEF Core, Single, InQueue
      <3>3. pend[r] = "done" => owed'[r] = 0
        BY <1>2 DEF Core, Single
      <3> QED
        BY <3>1, <3>2, <3>3
    <2> QED
      BY <1>7, <1>8, <2>7, <2>8, <2>9, <2>10, <2>11 DEF Core
  <1>11. CASE ~initialized
    <2>1. phase' = "ready" /\ FlushFrom(queue, sent, pend', sock')
      BY <1>1, <1>11
    <2>2. Settled
      <3>1. /\ \A r \in Reqs :
                  /\ pend[r] = "new" <=> r \notin ToSet(arrived)
                  /\ answers[r] = <<>> <=> pend[r] \in {"new", "pending"}
                  /\ owed'[r] > 0 => pend[r] # "new"
            /\ answers["initialize"] = <<>> => ToSet(arrived) \subseteq {"initialize"}
            /\ initKnown => pend["initialize"] # "new"
        BY <1>9 DEF Core, Known, Linked
      <3>2. ASSUME NEW r \in Reqs \ orphaned
            PROVE  /\ Len(answers[r]) <= 1 /\ owed'[r] <= 1
                   /\ pend[r] = "done" => owed'[r] = 0
        <4>1. Len(answers[r]) <= 1 /\ owed'[r] <= 1
          BY <1>2 DEF Core, Single
        <4>2. pend[r] = "done" => owed'[r] = 0
          BY <1>2 DEF Core, Single
        <4> QED
          BY <4>1, <4>2
      <3> QED
        BY <1>1, <1>2, <1>3, <2>1, <3>1, <3>2 DEF Settled, TypedWork
    <2>3. \A m : Has(queue, m) => m \in ToSet(arrived)
      BY QueueArrived
    <2>4. Flushable(queue, sent)
      <3>1. \A r \in Reqs : pend[r] = "pending" =>
               /\ Has(queue, r) \/ owed'[r] > 0
               /\ owed'[r] > 0 => r \in sent
        BY <1>5, <1>9 DEF Core, Held, Marked, InQueue
      <3>2. \A r \in Reqs \ orphaned : pend[r] = "pending" =>
               Once(queue, r) /\ (Has(queue, r) => owed'[r] = 0)
        BY <1>9 DEF Core, Single, InQueue
      <3> QED
        BY <1>1, <2>3, <3>1, <3>2 DEF Flushable, TypedWork
    <2>5. TypedWork' /\ Core'
      BY <2>1, <2>2, <2>4, FlushKeeps
    <2> QED
      BY <1>7, <1>8, <2>5
  <1> QED
    BY <1>10, <1>11

LEMMA DaemonAnswersKeeps ==
    ASSUME IInv, NEW r \in Reqs, NEW kind \in Answers, DaemonAnswers(r, kind)
    PROVE  IInv'
  <1> USE DEF IInv, Typed
  <1> USE InitIsRequest
  <1>1. /\ sock # 0 /\ owed[r] > 0 /\ ~(r = "initialize" /\ phase = "replaying")
        /\ Answered(r)
        /\ IF pend[r] # "pending" /\ Quarantined(r)
           THEN UNCHANGED <<answers, out, pend, sent>>
           ELSE /\ Tell({r}, kind)
                /\ pend' = [pend EXCEPT ![r] = "done"]
                /\ sent' = sent \ {r}
        /\ UNCHANGED <<arrived, queue, writing, sock, conns, phase, greeted, outage, orphaned,
                       initKnown, initialized, initDelivered, loop, connecting, backoff>>
        /\ UNCHANGED upgrade
    BY DEF DaemonAnswers, handshake, connector
  <1>2. /\ owed' \in [Reqs -> Nat] /\ owed'[r] = owed[r] - 1
        /\ \A s \in Reqs : owed[s] \in Nat /\ owed'[s] <= owed[s]
        /\ \A s \in Reqs \ {r} : owed'[s] = owed[s]
    BY <1>1, AnsweredIs
  <1>3. /\ pend[r] # "new"
        /\ r = "initialize" => phase \notin {"replaying", "greeting"}
    BY <1>1 DEF Core, Known, Linked
  <1>4. TypedLink'
    BY <1>1, <1>2 DEF TypedLink
  <1>5. \A s : /\ OnWire(s)' <=> OnWire(s)
               /\ Flushing(s)' <=> Flushing(s)
               /\ InQueue(s)' <=> InQueue(s)
    BY <1>1 DEF OnWire, Flushing, InQueue
  <1>6. CASE pend[r] = "expired"
    <2>1. UNCHANGED <<answers, out, pend, sent>>
      BY <1>1, <1>6 DEF Quarantined
    <2>2. TypedWork' /\ TypedUpgrade' /\ Refreshing' /\ Attached'
      BY <1>1, <2>1 DEF TypedWork, TypedUpgrade, Refreshing, Attached, OneConnector, upgrade
    <2>3. Linked'
      BY <1>1, <1>2, <1>3, <2>1 DEF Core, Linked
    <2>4. Known' /\ Marked' /\ Greeting'
      BY <1>1, <1>2, <1>5, <2>1 DEF Core, Known, Marked, Greeting
    <2>5. Held'
      BY <1>1, <1>2, <1>5, <1>6, <2>1 DEF Core, Held
    <2>6. Single'
      <3> SUFFICES ASSUME NEW s \in Reqs \ orphaned
                   PROVE  /\ Len(answers[s]) <= 1
                          /\ owed'[s] <= 1
                          /\ OnWire(s) => owed'[s] = 0
                          /\ pend[s] = "pending" =>
                                /\ Once(queue, s)
                                /\ InQueue(s) => owed'[s] = 0 /\ ~OnWire(s)
                          /\ pend[s] = "done" =>
                                /\ ~OnWire(s)
                                /\ owed'[s] > 0 => s = "initialize" /\ phase = "replaying"
        BY <1>1, <1>5, <2>1 DEF Single
      <3> QED
        BY <1>2 DEF Core, Single
    <2> QED
      BY <1>4, <2>2, <2>3, <2>4, <2>5, <2>6 DEF Core
  <1>7. CASE pend[r] # "expired"
    <2>1. /\ Tell({r}, kind) /\ sent' = sent \ {r}
          /\ pend' = [pend EXCEPT ![r] = "done"]
      BY <1>1, <1>7 DEF Quarantined
    <2>2. /\ pend' \in [Reqs -> States] /\ pend'[r] = "done"
          /\ \A s \in Reqs \ {r} : pend'[s] = pend[s]
          /\ pend[r] \in {"pending", "done"}
      BY <1>3, <1>7, <2>1 DEF TypedWork, States
    <2>3. /\ answers' \in [Reqs -> Seq(Answers)] /\ out' \subseteq Reqs
          /\ answers'[r] # <<>> /\ Len(answers'[r]) = Len(answers[r]) + 1
          /\ \A s \in Reqs \ {r} : answers'[s] = answers[s]
          /\ \A s \in Reqs : answers[s] = <<>> => Len(answers[s]) = 0
      BY <2>1, TellIs
    <2>4. TypedWork'
      BY <1>1, <2>1, <2>2, <2>3 DEF TypedWork
    <2>5. TypedUpgrade' /\ Attached'
      BY <1>1 DEF TypedUpgrade, Attached, OneConnector, upgrade
    <2>6. Refreshing'
      BY <1>1, <2>2 DEF Refreshing, upgrade
    <2>7. Linked'
      BY <1>1, <1>2, <1>3, <2>2 DEF Core, Linked
    <2>8. Known'
      <3>1. ASSUME NEW s \in Reqs
            PROVE  /\ pend'[s] = "new" <=> s \notin ToSet(arrived)
                   /\ answers'[s] = <<>> <=> pend'[s] \in {"new", "pending"}
                   /\ owed'[s] > 0 => pend'[s] # "new"
        BY <1>2, <1>3, <2>2, <2>3 DEF Core, Known
      <3>2. answers'["initialize"] = <<>> => ToSet(arrived) \subseteq {"initialize"}
        BY <2>3 DEF Core, Known
      <3>3. \A m \in Msgs : InQueue(m) \/ Flushing(m) => m \in ToSet(arrived)
        BY DEF Core, Known
      <3> QED
        BY <1>1, <1>5, <3>1, <3>2, <3>3 DEF Known
    <2>9. Marked' /\ Held' /\ Greeting'
      BY <1>1, <1>2, <1>5, <2>1, <2>2 DEF Core, Marked, Held, Greeting
    <2>10. Single'
      <3> SUFFICES ASSUME NEW s \in Reqs \ orphaned
                   PROVE  /\ Len(answers'[s]) <= 1
                          /\ owed'[s] <= 1
                          /\ OnWire(s) => owed'[s] = 0
                          /\ pend'[s] = "pending" =>
                                /\ Once(queue, s)
                                /\ InQueue(s) => owed'[s] = 0 /\ ~OnWire(s)
                          /\ pend'[s] = "done" =>
                                /\ ~OnWire(s)
                                /\ owed'[s] > 0 => s = "initialize" /\ phase = "replaying"
        BY <1>1, <1>5 DEF Single
      <3>1. CASE s = r
        <4>0. owed[r] <= 1 /\ (OnWire(r) => owed[r] = 0)
          BY <3>1 DEF Core, Single
        <4>1. owed[r] = 1 /\ ~OnWire(r) /\ owed'[r] = 0
          BY <1>1, <1>2, <4>0
        <4>2. pend[r] = "pending"
          <5>1. pend[r] = "done" => (owed[r] > 0 => r = "initialize" /\ phase = "replaying")
            BY <3>1 DEF Core, Single
          <5> QED
            BY <1>1, <2>2, <5>1
        <4>3. answers[r] = <<>>
          BY <4>2 DEF Core, Known
        <4>4. Len(answers'[r]) = 1 /\ pend'[r] = "done"
          BY <2>2, <2>3, <4>3
        <4> QED
          BY <3>1, <4>1, <4>4
      <3>2. CASE s # r
        BY <1>2, <2>2, <2>3, <3>2 DEF Core, Single
      <3> QED
        BY <3>1, <3>2
    <2> QED
      BY <1>4, <2>4, <2>5, <2>6, <2>7, <2>8, <2>9, <2>10 DEF Core
  <1> QED
    BY <1>6, <1>7
-----------------------------------------------------------------------------
(* What the agent says. *)

LEMMA AppendIs ==
    ASSUME NEW q \in Seq(Msgs), NEW m \in Msgs, NEW a, a = Append(q, m)
    PROVE  /\ a \in Seq(Msgs)
           /\ \A n : Has(a, n) <=> Has(q, n) \/ n = m
           /\ \A n : Once(q, n) /\ (n = m => ~Has(q, n)) => Once(a, n)
  <1>1. /\ a \in Seq(Msgs) /\ DOMAIN a = 1 .. (Len(q) + 1) /\ Len(q) \in Nat
        /\ DOMAIN q = 1 .. Len(q)
        /\ a[Len(q) + 1] = m /\ \A i \in 1 .. Len(q) : a[i] = q[i]
    OBVIOUS
  <1>2. \A i \in DOMAIN a : i = Len(q) + 1 \/ i \in DOMAIN q
    BY <1>1
  <1>3. DOMAIN q \subseteq DOMAIN a /\ Len(q) + 1 \in DOMAIN a
    BY <1>1
  <1>4. \A n : Has(a, n) <=> Has(q, n) \/ n = m
    BY <1>1, <1>2, <1>3 DEF Has
  <1>5. ASSUME NEW n, Once(q, n), n = m => ~Has(q, n) PROVE Once(a, n)
    <2> SUFFICES ASSUME NEW i \in DOMAIN a, NEW j \in DOMAIN a, a[i] = n, a[j] = n
                 PROVE  i = j
      BY DEF Once
    <2>1. i \in DOMAIN q /\ j \in DOMAIN q => i = j
      BY <1>1, <1>5 DEF Once
    <2>2. i = Len(q) + 1 => j \notin DOMAIN q
      BY <1>1, <1>5 DEF Has
    <2>3. j = Len(q) + 1 => i \notin DOMAIN q
      BY <1>1, <1>5 DEF Has
    <2> QED
      BY <1>2, <2>1, <2>2, <2>3
  <1> QED
    BY <1>1, <1>4, <1>5

\* A message that has not arrived before arrives.
LEMMA ArrivalIs ==
    ASSUME TypedWork, NEW m \in Msgs, m \notin ToSet(arrived), arrived' = Append(arrived, m)
    PROVE  /\ arrived' \in Seq(Msgs) /\ IsInjective(arrived')
           /\ \A n : n \in ToSet(arrived') <=> n \in ToSet(arrived) \/ n = m
  <1> DEFINE a == Append(arrived, m)
  <1>1. arrived \in Seq(Msgs) /\ \A n : Once(arrived, n) /\ (Has(arrived, n) <=> n \in ToSet(arrived))
    <2>1. arrived \in Seq(Msgs) /\ \A n : Once(arrived, n)
      BY DEF TypedWork, IsInjective, Once
    <2>2. \A n : Has(arrived, n) <=> n \in ToSet(arrived)
      BY DEF Has, ToSet
    <2> QED
      BY <2>1, <2>2
  <1>2. /\ a \in Seq(Msgs)
        /\ \A n : Has(a, n) <=> Has(arrived, n) \/ n = m
        /\ \A n : Once(arrived, n) /\ (n = m => ~Has(arrived, n)) => Once(a, n)
    <2>1. arrived \in Seq(Msgs)
      BY <1>1
    <2> QED
      BY <2>1, AppendIs
  <1> HIDE DEF a
  <1>3. \A n : Once(a, n) /\ (n \in ToSet(a) <=> n \in ToSet(arrived) \/ n = m)
    <2>1. \A n : Has(a, n) <=> n \in ToSet(a)
      BY DEF Has, ToSet
    <2> QED
      BY <1>1, <1>2, <2>1
  <1>4. IsInjective(a)
    BY <1>3 DEF IsInjective, Once
  <1>5. arrived' = a
    BY DEF a
  <1> QED
    BY <1>2, <1>3, <1>4, <1>5

\* A message of the agent that is taken into the queue.
LEMMA TakenKeeps ==
    ASSUME TypedWork, TypedLink, Core, NEW m \in Msgs, m \notin ToSet(arrived), MaySend(m),
           arrived' = Append(arrived, m),
           pend' = [s \in Reqs |-> IF s = m THEN "pending" ELSE pend[s]],
           initKnown' \in BOOLEAN, initKnown' => initKnown \/ m = "initialize",
           Flush(Append(queue, m), pend'),
           UNCHANGED <<answers, out, sock, conns, phase, owed, greeted, orphaned>>
    PROVE  TypedWork' /\ Core'
  <1> USE InitIsRequest
  <1> DEFINE a == Append(queue, m)
  <1>1. /\ arrived' \in Seq(Msgs) /\ IsInjective(arrived')
        /\ \A n : n \in ToSet(arrived') <=> n \in ToSet(arrived) \/ n = m
    BY ArrivalIs
  <1>2. /\ a \in Seq(Msgs)
        /\ \A n : Has(a, n) <=> Has(queue, n) \/ n = m
        /\ \A n : Once(queue, n) /\ (n = m => ~Has(queue, n)) => Once(a, n)
    <2>1. queue \in Seq(Msgs)
      BY DEF TypedWork
    <2> QED
      BY <2>1, AppendIs
  <1>3. Flush(a, pend')
    OBVIOUS
  <1> HIDE DEF a
  <1>4. ~InQueue(m) /\ ~Flushing(m) /\ ~OnWire(m)
    BY DEF Core, Known, OnWire
  <1>5. m \in Reqs => pend[m] = "new" /\ answers[m] = <<>> /\ owed[m] = 0
    BY DEF Core, Known, TypedLink
  <1>6. /\ pend' \in [Reqs -> States] /\ \A s \in Reqs : s # m => pend'[s] = pend[s]
        /\ m \in Reqs => pend'[m] = "pending"
    BY DEF TypedWork, States
  <1>7. /\ \A s \in Reqs :
              /\ pend'[s] = "new" <=> s \notin ToSet(arrived')
              /\ answers'[s] = <<>> <=> pend'[s] \in {"new", "pending"}
              /\ owed'[s] > 0 => pend'[s] # "new"
    <2> SUFFICES ASSUME NEW s \in Reqs
                 PROVE  /\ pend'[s] = "new" <=> s \notin ToSet(arrived')
                        /\ answers[s] = <<>> <=> pend'[s] \in {"new", "pending"}
                        /\ owed[s] > 0 => pend'[s] # "new"
      OBVIOUS
    <2>1. CASE s = m
      BY <2>1, <1>1, <1>5, <1>6
    <2>2. CASE s # m
      BY <2>2, <1>1, <1>6 DEF Core, Known
    <2> QED
      BY <2>1, <2>2
  <1>8. answers'["initialize"] = <<>> => ToSet(arrived') \subseteq {"initialize"}
    BY <1>1 DEF Core, Known, MaySend
  <1>9. initKnown' => pend'["initialize"] # "new"
    BY <1>6 DEF Core, Linked
  <1>10. \A n : Has(a, n) => n \in ToSet(arrived')
    BY <1>1, <1>2, QueueArrived
  <1>11. /\ queue \in Seq(Msgs) /\ sent \subseteq Reqs /\ \A s \in sent : pend'[s] = "pending"
    BY <1>6 DEF TypedWork
  <1>12. \A s \in Reqs : pend'[s] = "pending" =>
            /\ Has(a, s) \/ Flushing(s) \/ owed[s] > 0
            /\ owed[s] > 0 \/ OnWire(s) => s \in sent
    BY <1>2, <1>4, <1>5, <1>6 DEF Core, Held, Marked, InQueue
  <1>13. \A s \in Reqs \ orphaned : pend'[s] = "pending" =>
            /\ Once(a, s)
            /\ Has(a, s) => owed[s] = 0 /\ ~OnWire(s)
    <2> SUFFICES ASSUME NEW s \in Reqs \ orphaned, pend'[s] = "pending"
                 PROVE  /\ Once(a, s)
                        /\ Has(a, s) => owed[s] = 0 /\ ~OnWire(s)
      OBVIOUS
    <2>1. CASE s = m
      <3>1. Once(queue, s)
        BY <1>4, <2>1 DEF Once, InQueue, Has
      <3> QED
        BY <1>2, <1>4, <1>5, <2>1, <3>1 DEF InQueue
    <2>2. CASE s # m
      BY <1>2, <1>6, <2>2 DEF Core, Single, InQueue
    <2> QED
      BY <2>1, <2>2
  <1>14. ASSUME NEW s \in Reqs \ orphaned
         PROVE  /\ Len(answers[s]) <= 1 /\ owed[s] <= 1
                /\ OnWire(s) => owed[s] = 0
                /\ pend'[s] = "done" => /\ ~OnWire(s)
                                        /\ owed[s] > 0 => s = "initialize" /\ phase = "replaying"
    BY <1>6 DEF Core, Single
  <1>15. CASE phase = "ready" /\ writing = NoWrite
    <2>1. FlushFrom(a, sent, pend', sock') /\ phase' = "ready"
      BY <1>3, <1>15 DEF Flush
    <2>2. \A n : ~Flushing(n) /\ ~OnWire(n)
      BY <1>15 DEF Flushing, OnWire, NoWrite
    <2>3. sock' = conns' /\ conns' \in 1 .. MaxConns
      BY <1>15 DEF TypedLink
    <2>4. initKnown' /\ ~greeted' => pend'["initialize"] = "pending" /\ owed["initialize"] = 0
      <3>1. initKnown => greeted
        BY <1>15, <2>2 DEF Core, Greeting
      <3> QED
        BY <1>5, <1>6, <3>1
    <2>5. Settled
      <3>1. /\ answers' \in [Reqs -> Seq(Answers)] /\ out' \subseteq Reqs
            /\ orphaned' \subseteq Msgs /\ owed' \in [Reqs -> Nat]
            /\ owed'["initialize"] > 0 => greeted'
        BY DEF TypedWork, TypedLink, Core, Linked
      <3>2. \A s \in Reqs \ orphaned' :
              /\ Len(answers'[s]) <= 1 /\ owed'[s] <= 1
              /\ pend'[s] = "done" => owed'[s] = 0
        BY <1>14, <1>15, <3>1
      <3> QED
        BY <1>1, <1>6, <1>7, <1>8, <1>9, <2>1, <2>3, <2>4, <3>1, <3>2 DEF Settled
    <2>6. Flushable(a, sent)
      BY <1>2, <1>10, <1>11, <1>12, <1>13, <2>2 DEF Flushable
    <2> QED
      BY <2>1, <2>5, <2>6, FlushKeeps
  <1>16. CASE ~(phase = "ready" /\ writing = NoWrite)
    <2>1. queue' = a /\ UNCHANGED <<sent, writing>>
      BY <1>3, <1>16 DEF Flush
    <2>2. \A n : /\ OnWire(n)' <=> OnWire(n)
                 /\ Flushing(n)' <=> Flushing(n)
                 /\ InQueue(n)' <=> Has(a, n)
      BY <2>1 DEF OnWire, Flushing, InQueue
    <2>3. TypedWork'
      BY <1>1, <1>2, <1>6, <1>11, <2>1 DEF TypedWork
    <2>4. Linked'
      BY <1>5, <1>6, <1>9, <2>1 DEF Core, Linked
    <2>5. Known'
      <3>1. \A n \in Msgs : Flushing(n) => n \in ToSet(arrived')
        BY <1>1 DEF Core, Known
      <3> QED
        BY <1>7, <1>8, <1>10, <2>2, <3>1 DEF Known
    <2>6. Marked' /\ Held'
      BY <1>12, <2>1, <2>2 DEF Marked, Held
    <2>7. Greeting'
      <3> SUFFICES ASSUME phase = "ready", initKnown', ~greeted PROVE OnWire("initialize")
        BY <2>2 DEF Greeting
      <3>1. CASE initKnown
        BY <3>1 DEF Core, Greeting
      <3>2. CASE m = "initialize"
        <4>1. \A n \in Msgs : n \notin ToSet(arrived)
          BY <1>5, <3>2 DEF Core, Known
        <4>2. writing # NoWrite
          BY <1>16
        <4>3. /\ writing.kind \in {"flush", "replay", "greet"} /\ writing.msg \in Msgs
              /\ writing.kind = "flush" => writing.msg \in ToSet(arrived)
          BY <4>2, WritingIs
        <4>4. writing.kind = "flush"
          BY <4>3 DEF Core, Linked
        <4> QED
          BY <4>1, <4>3, <4>4
      <3> QED
        BY <3>1, <3>2
    <2>8. Single'
      BY <1>13, <1>14, <2>1, <2>2 DEF Single
    <2> QED
      BY <2>3, <2>4, <2>5, <2>6, <2>7, <2>8 DEF Core
  <1> QED
    BY <1>15, <1>16
\* A request that is refused: it arrives and is answered, and is not queued.
LEMMA RefusedKeeps ==
    ASSUME TypedWork, TypedLink, Core, NEW r \in Reqs, pend[r] = "new", MaySend(r),
           arrived' = Append(arrived, r), Tell({r}, "error"),
           pend' = [pend EXCEPT ![r] = "done"],
           initKnown' \in BOOLEAN, initKnown' => initKnown \/ r = "initialize",
           phase = "ready" => (initKnown' => initKnown),
           UNCHANGED <<queue, sent, writing, sock, conns, phase, owed, greeted, orphaned>>
    PROVE  TypedWork' /\ Core'
  <1> USE InitIsRequest
  <1>1. r \notin ToSet(arrived) /\ r \in Msgs
    BY DEF Core, Known
  <1>2. /\ arrived' \in Seq(Msgs) /\ IsInjective(arrived')
        /\ \A n : n \in ToSet(arrived') <=> n \in ToSet(arrived) \/ n = r
    BY <1>1, ArrivalIs
  <1>3. ~InQueue(r) /\ ~Flushing(r) /\ ~OnWire(r) /\ owed[r] = 0 /\ answers[r] = <<>>
    BY <1>1 DEF Core, Known, OnWire, TypedLink
  <1>4. /\ pend' \in [Reqs -> States] /\ pend'[r] = "done"
        /\ \A s \in Reqs \ {r} : pend'[s] = pend[s]
    BY DEF TypedWork, States
  <1>5. /\ answers' \in [Reqs -> Seq(Answers)] /\ out' \subseteq Reqs
        /\ answers'[r] # <<>> /\ Len(answers'[r]) = 1
        /\ \A s \in Reqs \ {r} : answers'[s] = answers[s]
    <2>1. "error" \in Answers
      BY DEF Answers
    <2>2. /\ answers' \in [Reqs -> Seq(Answers)] /\ out' \subseteq Reqs
          /\ answers'[r] # <<>> /\ Len(answers'[r]) = Len(answers[r]) + 1
          /\ \A s \in Reqs \ {r} : answers'[s] = answers[s]
          /\ \A s \in Reqs : answers[s] = <<>> => Len(answers[s]) = 0
      BY <2>1, TellIs
    <2> QED
      BY <1>3, <2>2
  <1>6. \A n : /\ OnWire(n)' <=> OnWire(n)
               /\ Flushing(n)' <=> Flushing(n)
               /\ InQueue(n)' <=> InQueue(n)
    BY DEF OnWire, Flushing, InQueue
  <1>7. TypedWork'
    BY <1>2, <1>4, <1>5 DEF TypedWork
  <1>8. Linked'
    BY <1>4 DEF Core, Linked
  <1>9. Known'
    <2>1. ASSUME NEW s \in Reqs
          PROVE  /\ pend'[s] = "new" <=> s \notin ToSet(arrived')
                 /\ answers'[s] = <<>> <=> pend'[s] \in {"new", "pending"}
                 /\ owed'[s] > 0 => pend'[s] # "new"
      BY <1>2, <1>4, <1>5 DEF Core, Known
    <2>2. answers'["initialize"] = <<>> => ToSet(arrived') \subseteq {"initialize"}
      BY <1>5 DEF MaySend
    <2>3. \A m \in Msgs : InQueue(m) \/ Flushing(m) => m \in ToSet(arrived')
      BY <1>2 DEF Core, Known
    <2> QED
      BY <1>6, <2>1, <2>2, <2>3 DEF Known
  <1>10. Marked' /\ Held'
    BY <1>4, <1>6 DEF Core, Marked, Held
  <1>11. Greeting'
    BY <1>6 DEF Core, Greeting
  <1>12. Single'
    <2> SUFFICES ASSUME NEW s \in Reqs \ orphaned
                 PROVE  /\ Len(answers'[s]) <= 1
                        /\ owed[s] <= 1
                        /\ OnWire(s) => owed[s] = 0
                        /\ pend'[s] = "pending" =>
                              /\ Once(queue, s)
                              /\ InQueue(s) => owed[s] = 0 /\ ~OnWire(s)
                        /\ pend'[s] = "done" =>
                              /\ ~OnWire(s)
                              /\ owed[s] > 0 => s = "initialize" /\ phase = "replaying"
      BY <1>6 DEF Single
    <2>1. CASE s = r
      BY <2>1, <1>3, <1>4, <1>5
    <2>2. CASE s # r
      BY <2>2, <1>4, <1>5 DEF Core, Single
    <2> QED
      BY <2>1, <2>2
  <1> QED
    BY <1>7, <1>8, <1>9, <1>10, <1>11, <1>12 DEF Core

\* What kickConnectionIfIdle keeps.
LEMMA KickKeeps ==
    ASSUME TypedUpgrade, Attached, Kick, outage' \in BOOLEAN, UNCHANGED <<sock, upgrade>>
    PROVE  TypedUpgrade' /\ Attached'
  BY DEF TypedUpgrade, Attached, OneConnector, Kick, TimerArmed, upgrade

LEMMA AgentRequestKeeps == ASSUME IInv, NEW r \in Reqs, AgentRequest(r) PROVE IInv'
  <1> USE DEF IInv, Typed
  <1>1. /\ pend[r] = "new" /\ MaySend(r) /\ arrived' = Append(arrived, r)
        /\ initKnown' = (initKnown \/ (r = "initialize" /\ ~Draining))
        /\ IF Draining \/ BufferFull
           THEN /\ Tell({r}, "error")
                /\ pend' = [pend EXCEPT ![r] = "done"]
                /\ UNCHANGED <<queue, sent, writing, connector, outage>>
           ELSE /\ pend' = [pend EXCEPT ![r] = "pending"]
                /\ outage' = (outage \/ phase # "ready")
                /\ Kick
                /\ Flush(Append(queue, r), pend')
                /\ UNCHANGED <<answers, out>>
        /\ UNCHANGED <<sock, conns, phase, owed, greeted, initialized, initDelivered, orphaned>>
        /\ UNCHANGED upgrade
    BY DEF AgentRequest, link
  <1>2. initKnown' \in BOOLEAN /\ (initKnown' => initKnown \/ r = "initialize")
    BY <1>1 DEF TypedLink
  <1>3. TypedLink'
    BY <1>1, <1>2 DEF TypedLink
  <1>4. CASE Draining \/ BufferFull
    <2>1. /\ Tell({r}, "error") /\ pend' = [pend EXCEPT ![r] = "done"]
          /\ UNCHANGED <<queue, sent, writing, connector, outage>>
      BY <1>1, <1>4
    <2>2. phase = "ready" => (initKnown' => initKnown)
      BY <1>1, <1>4 DEF BufferFull
    <2>3. TypedWork' /\ Core'
      BY <1>1, <1>2, <2>1, <2>2, RefusedKeeps
    <2>4. TypedUpgrade' /\ Attached'
      BY <1>1, <2>1 DEF TypedUpgrade, Attached, OneConnector, upgrade, connector
    <2>5. Refreshing'
      <3>1. pend \in [Reqs -> States]
        BY DEF TypedWork
      <3> QED
        BY <1>1, <2>1, <3>1 DEF Refreshing, upgrade
    <2> QED
      BY <1>3, <2>3, <2>4, <2>5
  <1>5. CASE ~(Draining \/ BufferFull)
    <2>1. /\ pend' = [pend EXCEPT ![r] = "pending"]
          /\ outage' = (outage \/ phase # "ready") /\ Kick
          /\ Flush(Append(queue, r), pend') /\ UNCHANGED <<answers, out>>
      BY <1>1, <1>5
    <2>2. /\ pend' = [s \in Reqs |-> IF s = r THEN "pending" ELSE pend[s]]
          /\ r \in Msgs /\ r \notin ToSet(arrived)
      BY <1>1, <2>1, InitIsRequest DEF TypedWork, Core, Known
    <2>3. TypedWork' /\ Core'
      BY <1>1, <1>2, <2>1, <2>2, TakenKeeps
    <2>4. outage' \in BOOLEAN
      BY <2>1 DEF TypedUpgrade
    <2>5. TypedUpgrade' /\ Attached'
      BY <1>1, <2>1, <2>4, KickKeeps
    <2>6. Refreshing'
      BY <1>1, <1>5 DEF Refreshing, Draining, upgrade
    <2> QED
      BY <1>3, <2>3, <2>5, <2>6
  <1> QED
    BY <1>4, <1>5

LEMMA AgentInitializedKeeps == IInv /\ AgentInitialized => IInv'
  <1> SUFFICES ASSUME IInv, AgentInitialized PROVE IInv'
    OBVIOUS
  <1> USE DEF IInv, Typed
  <1> DEFINE m == "initialized"
  <1>1. /\ ~Contains(arrived, m) /\ MaySend(m) /\ arrived' = Append(arrived, m)
        /\ initialized' = TRUE /\ Kick /\ Flush(Append(queue, m), pend)
        /\ UNCHANGED <<answers, out, pend, sock, conns, phase, owed, greeted, outage, initKnown,
                       initDelivered, orphaned>>
        /\ UNCHANGED upgrade
    BY DEF AgentInitialized, link
  <1>2. m \in Msgs /\ m \notin Reqs
    BY InitIsRequest DEF Msgs
  <1>3. m \notin ToSet(arrived)
    BY <1>1 DEF Contains, ToSet
  <1>4. pend' = [s \in Reqs |-> IF s = m THEN "pending" ELSE pend[s]]
    BY <1>1, <1>2 DEF TypedWork
  <1>5. TypedLink' /\ initKnown' \in BOOLEAN
    BY <1>1 DEF TypedLink
  <1>6. outage' \in BOOLEAN
    BY <1>1 DEF TypedUpgrade
  <1>7. TypedUpgrade' /\ Attached'
    BY <1>1, <1>6, KickKeeps
  <1>8. Refreshing'
    BY <1>1 DEF Refreshing, upgrade
  <1>9. TypedWork' /\ Core'
    <2>1. Flush(Append(queue, m), pend') /\ (initKnown' => initKnown)
      BY <1>1
    <2> HIDE DEF m
    <2> QED
      BY <1>1, <1>2, <1>3, <1>4, <1>5, <2>1, TakenKeeps
  <1> QED
    BY <1>5, <1>7, <1>8, <1>9
-----------------------------------------------------------------------------
(* Timeouts, and replacing the process. *)

\* The connector and the link, when a step only fails requests.
LEMMA FailingKeeps ==
    ASSUME IInv, NEW S \in SUBSET Reqs, \A r \in S : pend[r] = "pending",
           NEW kind \in Answers, FailAll(S, kind),
           UNCHANGED <<arrived, writing, connector, handshake, orphaned>>,
           UNCHANGED <<bump, bumps, reexecs>>, outage' \in BOOLEAN,
           \/ UNCHANGED link
           \/ Disconnected /\ S = Pending,
           \/ UNCHANGED <<refresh, awaited>>
           \/ refresh = "draining" /\ refresh' = "rejecting" /\ awaited' = Pending /\ S = Pending
    PROVE  IInv'
  <1> USE DEF IInv, Typed
  <1>1. /\ TypedWork' /\ Core'
        /\ \A r \in Reqs : pend'[r] = "pending" <=> pend[r] = "pending" /\ r \notin S
    <2>1. \/ UNCHANGED <<sock, phase, owed, greeted>>
          \/ Disconnected /\ S = Pending
      BY DEF link
    <2>2. UNCHANGED <<arrived, writing, conns, initKnown, orphaned>>
      BY DEF link, handshake, Disconnected
    <2> QED
      BY <2>1, <2>2, FailAllKeeps
  <1>2. TypedLink'
    <2>1. CASE UNCHANGED link
      BY <2>1 DEF TypedLink, link, handshake
    <2>2. CASE Disconnected
      BY <2>2 DEF TypedLink, handshake, Disconnected, Nothing
    <2> QED
      BY <2>1, <2>2
  <1>3. TypedUpgrade'
    BY DEF TypedUpgrade, connector, Pending
  <1>4. Attached'
    <2>1. sock' = sock \/ sock' = 0
      BY DEF link, Disconnected
    <2> QED
      BY <2>1 DEF Attached, OneConnector, connector
  <1>5. Refreshing'
    BY <1>1 DEF Refreshing, Pending
  <1> QED
    BY <1>1, <1>2, <1>3, <1>4, <1>5

LEMMA FailingStepsKeep ==
    ASSUME IInv,
           \/ ReplayRejected \/ OutageTimesOut \/ RefreshDeadline
           \/ \E r \in Reqs : RequestTimesOut(r)
    PROVE  IInv'
  <1>1. /\ \A r \in Pending : pend[r] = "pending"
        /\ Pending \in SUBSET Reqs /\ outage \in BOOLEAN
        /\ "error" \in Answers /\ "outage" \in Answers
    BY DEF Pending, Answers, IInv, Typed, TypedUpgrade
  <1>2. CASE ReplayRejected
    <2>1. /\ FailAll(Pending, "error") /\ Disconnected
          /\ UNCHANGED <<arrived, writing, connector, handshake, orphaned>>
          /\ UNCHANGED <<bump, bumps, refresh, awaited, reexecs>> /\ outage' = outage
      BY <1>2 DEF ReplayRejected, upgrade
    <2> QED
      BY <1>1, <2>1, FailingKeeps
  <1>3. CASE OutageTimesOut
    <2>1. /\ FailAll(Pending, "outage") /\ outage' = FALSE
          /\ UNCHANGED <<arrived, writing, connector, handshake, orphaned>> /\ UNCHANGED link
          /\ UNCHANGED <<bump, bumps, refresh, awaited, reexecs>>
      BY <1>3 DEF OutageTimesOut, upgrade
    <2> QED
      BY <1>1, <2>1, FailingKeeps
  <1>4. CASE RefreshDeadline
    <2>1. /\ FailAll(Pending, "error") /\ outage' = outage
          /\ refresh = "draining" /\ refresh' = "rejecting" /\ awaited' = Pending
          /\ UNCHANGED <<arrived, writing, connector, handshake, orphaned>> /\ UNCHANGED link
          /\ UNCHANGED <<bump, bumps, reexecs>>
      BY <1>4 DEF RefreshDeadline, upgrade
    <2> QED
      BY <1>1, <2>1, FailingKeeps
  <1>5. ASSUME NEW r \in Reqs, RequestTimesOut(r) PROVE IInv'
    <2>1. /\ FailAll({r}, "error") /\ outage' = outage /\ pend[r] = "pending"
          /\ UNCHANGED <<arrived, writing, connector, handshake, orphaned>> /\ UNCHANGED link
          /\ UNCHANGED <<bump, bumps, refresh, awaited, reexecs>>
      BY <1>5 DEF RequestTimesOut, upgrade, Pending
    <2>2. {r} \in SUBSET Reqs /\ \A s \in {r} : pend[s] = "pending"
      BY <2>1
    <2> QED
      BY <1>1, <2>1, <2>2, FailingKeeps
  <1> QED
    BY <1>2, <1>3, <1>4, <1>5

\* Nothing is pending, and no answer half written, when the process is replaced.
LEMMA ExecveOnlyWhenAnswered ==
    ASSUME IInv, RefreshDrained \/ RefreshRejected, ~Resume
    PROVE  Execve /\ out = {} /\ refresh # "idle" /\ \A r \in Reqs : pend[r] # "pending"
  BY DEF IInv, Refreshing, RefreshDrained, RefreshRejected, Drained, Pending

LEMMA ExecveKeeps ==
    ASSUME IInv, Execve, refresh # "idle", \A r \in Reqs : pend[r] # "pending"
    PROVE  IInv'
  <1> USE DEF IInv, Typed
  <1> USE InitIsRequest
  <1>1. /\ reexecs' = reexecs + 1 /\ refresh' = "idle" /\ awaited' = {} /\ bump' = "idle"
        /\ initKnown' = (initKnown /\ initDelivered)
        /\ initialized' = (initialized /\ initDelivered)
        /\ pend' = [r \in Reqs |-> IF pend[r] = "new" THEN "new" ELSE "done"]
        /\ queue' = <<>> /\ sent' = {} /\ writing' = NoWrite /\ out' = {}
        /\ sock' = 0 /\ phase' = "down" /\ owed' = Nothing /\ greeted' = FALSE
        /\ loop' = "opening" /\ connecting' = TRUE /\ backoff' = FALSE /\ outage' = FALSE
        /\ UNCHANGED <<arrived, answers, conns, initDelivered, bumps, orphaned>>
    BY DEF Execve
  <1>2. /\ pend' \in [Reqs -> States]
        /\ \A r \in Reqs : /\ pend'[r] = "new" <=> pend[r] = "new"
                           /\ pend'[r] \in {"new", "done"}
    BY <1>1 DEF States
  <1>3. owed' \in [Reqs -> Nat] /\ \A r \in Reqs : owed'[r] = 0
    BY <1>1 DEF Nothing
  <1>4. \A m : ~Has(queue', m) /\ ~InQueue(m)' /\ ~Flushing(m)' /\ ~OnWire(m)'
    BY <1>1 DEF Has, InQueue, Flushing, OnWire, NoWrite
  <1>5. TypedWork'
    BY <1>1, <1>2 DEF TypedWork
  <1>6. TypedLink'
    BY <1>1, <1>3 DEF TypedLink
  <1>7. TypedUpgrade' /\ Refreshing'
    <2>1. reexecs' \in 0 .. MaxReexecs
      BY <1>1, ProxyAssumption DEF Refreshing, TypedUpgrade
    <2> QED
      BY <1>1, <2>1 DEF TypedUpgrade, Refreshing
  <1>8. Attached'
    BY <1>1 DEF Attached, OneConnector
  <1>9. Linked'
    <2>1. initKnown' => pend'["initialize"] # "new"
      BY <1>1, <1>2 DEF Core, Linked
    <2> QED
      BY <1>1, <1>3, <2>1 DEF Linked, NoWrite
  <1>10. Known'
    BY <1>1, <1>2, <1>3, <1>4 DEF Core, Known
  <1>11. Marked' /\ Held' /\ Greeting'
    BY <1>1, <1>2 DEF Marked, Held, Greeting
  <1>12. Single'
    BY <1>1, <1>2, <1>3, <1>4 DEF Core, Single
  <1> QED
    BY <1>5, <1>6, <1>7, <1>8, <1>9, <1>10, <1>11, <1>12 DEF Core

-----------------------------------------------------------------------------
(* The invariant. *)

LEMMA InitHolds == Init => IInv
  <1> SUFFICES ASSUME Init PROVE IInv
    OBVIOUS
  <1> USE InitIsRequest
  <1>1. /\ arrived = <<>> /\ queue = <<>> /\ sent = {} /\ writing = NoWrite /\ out = {}
        /\ \A r \in Reqs : answers[r] = <<>> /\ pend[r] = "new" /\ owed[r] = 0
        /\ answers \in [Reqs -> Seq(Answers)] /\ pend \in [Reqs -> States]
        /\ owed \in [Reqs -> Nat] /\ orphaned = {} /\ ToSet(arrived) = {}
    BY DEF Init, Nothing, States, ToSet
  <1>2. \A m : ~Has(queue, m) /\ ~InQueue(m) /\ ~Flushing(m) /\ ~OnWire(m)
    BY <1>1 DEF Has, InQueue, Flushing, OnWire, NoWrite
  <1>3. TypedWork
    BY <1>1 DEF TypedWork, IsInjective
  <1>4. TypedLink /\ TypedUpgrade
    <2>1. MaxConns \in Nat /\ MaxBumps \in Nat /\ MaxReexecs \in Nat
      BY ProxyAssumption
    <2>2. 0 \in 0 .. MaxConns /\ 0 \in 0 .. MaxBumps /\ 0 \in 0 .. MaxReexecs
      BY <2>1
    <2>3. TypedLink
      BY <1>1, <2>2 DEF Init, TypedLink
    <2> QED
      BY <2>2, <2>3 DEF Init, TypedUpgrade
  <1>5. Refreshing /\ Attached
    BY DEF Init, Refreshing, Attached, OneConnector
  <1>6. Linked /\ Known /\ Marked /\ Held /\ Greeting
    BY <1>1, <1>2 DEF Init, Linked, Known, Marked, Held, Greeting, NoWrite
  <1>7. Single
    BY <1>1, <1>2 DEF Single
  <1> QED
    BY <1>3, <1>4, <1>5, <1>6, <1>7 DEF IInv, Typed, Core

LEMMA NextKeeps == IInv /\ [Next]_vars => IInv'
  <1> SUFFICES ASSUME IInv, [Next]_vars PROVE IInv'
    OBVIOUS
  <1>1. CASE UNCHANGED vars
    BY <1>1, StutterKeeps
  <1>2. CASE Proxy
    <2>1. CASE RefreshDrained \/ RefreshRejected
      <3>1. CASE Resume
        BY <3>1, IdlingKeeps DEF Idling
      <3>2. CASE ~Resume
        BY <2>1, <3>2, ExecveOnlyWhenAnswered, ExecveKeeps
      <3> QED
        BY <3>1, <3>2
    <2>2. CASE RefreshDeadline \/ OutageTimesOut
      BY <2>2, FailingStepsKeep
    <2>3. CASE OpenFails \/ SpawnTried \/ DelayOver \/ BackoffOver \/ BumpSettles
      BY <2>3, IdlingKeeps DEF Idling
    <2>4. CASE \E r \in Reqs : OutFlushed(r)
      BY <2>4, OutFlushedKeeps
    <2>5. CASE Opened \/ WriteCompletes
      BY <2>5, OpenedKeeps, WriteCompletesKeeps
    <2>6. CASE WriteFails \/ WriteFailsLate \/ BumpDrops
      BY <2>6, WriteFailsKeeps, WriteFailsLateKeeps, BumpDropsKeeps
    <2> QED
      BY <1>2, <2>1, <2>2, <2>3, <2>4, <2>5, <2>6 DEF Proxy
  <1>3. CASE Daemon
    <2>1. ASSUME NEW r \in Reqs, NEW kind \in {"result", "refused"}, DaemonAnswers(r, kind)
          PROVE  IInv'
      <3>1. kind \in Answers
        BY DEF Answers
      <3> QED
        BY <2>1, <3>1, DaemonAnswersKeeps
    <2> QED
      BY <1>3, <2>1, ReplayAcceptedKeeps, FailingStepsKeep DEF Daemon
  <1>4. CASE \E r \in Reqs : AgentRequest(r) \/ RequestTimesOut(r)
    BY <1>4, AgentRequestKeeps, FailingStepsKeep
  <1>5. CASE AgentInitialized \/ Closed
    BY <1>5, AgentInitializedKeeps, ClosedKeeps
  <1>6. CASE OpenUnsafe \/ BumpStarts \/ RefreshStarts
    BY <1>6, IdlingKeeps DEF Idling
  <1> QED
    BY <1>1, <1>2, <1>3, <1>4, <1>5, <1>6 DEF Next

LEMMA Invariance == Spec => []IInv
  BY InitHolds, NextKeeps, PTL DEF Spec
\* The proxy's variables have their types, at most one of the socket, the loop
\* and the backoff is there, and every pending request is in the queue, being
\* written or owed by the daemon.
THEOREM RequestsAreKept == Spec => []Consistent
  <1>1. IInv => Consistent
    <2> SUFFICES ASSUME IInv PROVE Consistent
      OBVIOUS
    <2>1. TypedWork /\ TypedLink /\ TypedUpgrade
      BY DEF IInv, Typed
    <2>2. sent \subseteq Pending
      BY <2>1 DEF TypedWork, Pending
    <2>3. writing = NoWrite \/ writing \in Writes
      BY <2>1 DEF TypedWork
    <2>4. TypeOK
      BY <2>1, <2>2, <2>3 DEF TypeOK, TypedWork, TypedLink, TypedUpgrade, States, Writes
    <2>5. OneConnector
      BY DEF IInv, Attached
    <2>6. NothingLost
      <3> SUFFICES ASSUME NEW r \in Reqs, pend[r] = "pending"
                   PROVE  Contains(queue, r) \/ Flushing(r) \/ owed[r] > 0
        BY DEF NothingLost, Pending, Flushing
      <3>1. InQueue(r) => Contains(queue, r)
        BY <2>1 DEF InQueue, Has, Contains, TypedWork
      <3> QED
        BY <3>1 DEF IInv, Core, Held
    <2> QED
      BY <2>4, <2>5, <2>6 DEF Consistent
  <1> QED
    BY <1>1, Invariance, PTL

\* A request of the agent is answered at most once, and no daemon owes two
\* answers to it, but for requests whose write failed after its drop was handled.
THEOREM OneAnswerEach == Spec => []AnsweredOnce
  <1>1. IInv => AnsweredOnce
    <2> SUFFICES ASSUME IInv, NEW r \in Reqs, Len(answers[r]) > 1 \/ owed[r] > 1, r \notin orphaned
                 PROVE  FALSE
      BY DEF AnsweredOnce
    <2>1. Len(answers[r]) <= 1 /\ owed[r] <= 1
      BY DEF IInv, Core, Single
    <2>2. Len(answers[r]) \in Nat /\ owed[r] \in Nat
      BY DEF IInv, Typed, TypedWork, TypedLink
    <2> QED
      BY <2>1, <2>2
  <1> QED
    BY <1>1, Invariance, PTL

\* No other step than the end of a write makes the daemon owe more answers.
LEMMA OnlyWritesAreOwed ==
    ASSUME IInv, [Next]_vars, ~WriteCompletes, NEW r \in Reqs
    PROVE  ~(owed'[r] > owed[r])
  <1> SUFFICES owed'[r] = owed[r] \/ owed'[r] = 0 \/ owed'[r] <= owed[r]
    <2>1. owed[r] \in Nat /\ owed'[r] \in Nat
      <3>1. owed \in [Reqs -> Nat] /\ owed' \in [Reqs -> Nat]
        BY NextKeeps DEF IInv, Typed, TypedLink
      <3> QED
        BY <3>1
    <2> QED
      BY <2>1
  <1>1. CASE UNCHANGED vars
    BY <1>1 DEF vars, link
  <1>2. CASE \/ \E s \in Reqs : OutFlushed(s) \/ AgentRequest(s) \/ RequestTimesOut(s)
             \/ OpenFails \/ SpawnTried \/ DelayOver \/ BackoffOver \/ OutageTimesOut
             \/ BumpSettles \/ RefreshDeadline \/ AgentInitialized \/ OpenUnsafe \/ BumpStarts
             \/ RefreshStarts \/ WriteFailsLate
    BY <1>2 DEF OutFlushed, AgentRequest, RequestTimesOut, OpenFails, SpawnTried, DelayOver,
       BackoffOver, OutageTimesOut, BumpSettles, RefreshDeadline, AgentInitialized, OpenUnsafe,
       BumpStarts, RefreshStarts, WriteFailsLate, link
  <1>3. CASE Opened \/ Closed \/ WriteFails \/ BumpDrops \/ ReplayRejected
    BY <1>3 DEF Opened, Closed, WriteFails, BumpDrops, ReplayRejected, Drop, Disconnected,
       Nothing, link
  <1>4. CASE RefreshDrained \/ RefreshRejected
    BY <1>4 DEF RefreshDrained, RefreshRejected, Execve, Resume, Nothing, link
  <1>5. CASE \/ ReplayAccepted
             \/ \E s \in Reqs, kind \in {"result", "refused"} : DaemonAnswers(s, kind)
    <2>1. PICK s \in Reqs : owed[s] > 0 /\ Answered(s)
      BY <1>5, InitIsRequest DEF ReplayAccepted, DaemonAnswers
    <2> QED
      BY <2>1, AnsweredIs DEF IInv, Typed
  <1> QED
    BY <1>1, <1>2, <1>3, <1>4, <1>5 DEF Next, Proxy, Daemon

\* No tool call is written to a daemon before initialize is, once the proxy
\* knows the agent's handshake.
THEOREM InitializeGoesFirst == Spec => HandshakeFirst
  <1>1. IInv /\ [Next]_vars =>
           [\A r \in Requests : owed'[r] > owed[r] /\ initKnown => greeted]_vars
    <2> SUFFICES ASSUME IInv, [Next]_vars, NEW r \in Requests, owed'[r] > owed[r], initKnown,
                        ~greeted
                 PROVE  FALSE
      OBVIOUS
    <2>1. r \in Reqs /\ r # "initialize" /\ r # "initialized"
      BY ProxyAssumption DEF Reqs
    <2>2. WriteCompletes
      BY <2>1, OnlyWritesAreOwed
    <2>3. /\ writing # NoWrite /\ writing.conn = sock /\ owed' = Owing(writing.msg)
      BY <2>2 DEF WriteCompletes
    <2>4. owed \in [Reqs -> Nat]
      BY DEF IInv, Typed, TypedLink
    <2>5. r = writing.msg
      BY <2>1, <2>3, <2>4 DEF Owing
    <2>6. /\ writing.kind \in {"flush", "replay", "greet"} /\ sock # 0
      BY <2>3, WritingIs DEF IInv, Typed
    <2>7. writing.kind = "flush" /\ phase = "ready"
      BY <2>1, <2>5, <2>6 DEF IInv, Typed, TypedLink, Core, Linked
    <2>8. OnWire("initialize")
      BY <2>7 DEF IInv, Core, Greeting
    <2> QED
      BY <2>1, <2>5, <2>8 DEF OnWire, Flushing
  <1> QED
    BY <1>1, Invariance, PTL DEF Spec, HandshakeFirst

\* The process is replaced when each request that it took was answered and no
\* answer is left in its output.
THEOREM ExecveAfterAnswers == Spec => ExecLosesNothing
  <1>1. IInv /\ [Next]_vars =>
           [reexecs' # reexecs =>
              /\ out = {}
              /\ \A r \in Reqs : pend[r] # "new" => answers[r] # <<>>]_vars
    <2> SUFFICES ASSUME IInv, [Next]_vars, reexecs' # reexecs
                 PROVE  out = {} /\ \A r \in Reqs : pend[r] # "new" => answers[r] # <<>>
      OBVIOUS
    <2>1. RefreshDrained \/ RefreshRejected
      BY DEF Next, Proxy, Daemon, vars, upgrade, OutFlushed, Opened, OpenFails, SpawnTried,
         DelayOver, BackoffOver, WriteCompletes, WriteFails, WriteFailsLate, OutageTimesOut,
         BumpDrops, BumpSettles, RefreshDeadline, ReplayAccepted, ReplayRejected, DaemonAnswers,
         AgentRequest, RequestTimesOut, AgentInitialized, Closed, OpenUnsafe, BumpStarts,
         RefreshStarts
    <2>2. ~Resume
      BY DEF Resume
    <2>3. out = {} /\ \A r \in Reqs : pend[r] # "pending"
      BY <2>1, <2>2, ExecveOnlyWhenAnswered
    <2> QED
      BY <2>3 DEF IInv, Core, Known
  <1> QED
    BY <1>1, Invariance, PTL DEF Spec, ExecLosesNothing
=============================================================================
