------------------------ MODULE LifecycleLockProofs ------------------------
(***************************************************************************)
(* Proofs about LifecycleLock, for every number of callers and steps:      *)
(* what control_health shows is true, list_agents uses a scan that no      *)
(* mutation has outdated, and the chain of promises is a queue.            *)
(*                                                                         *)
(* All rest on mutual exclusion, which is no invariant by itself: the      *)
(* slots are released in their order (InOrder), although waiters give up   *)
(* and holders are declared hung, so that one slot at a time is unreleased *)
(* behind a released one.  That a scan is current rests on nobody holding  *)
(* the lock who may mutate, as long as the revision has not moved (Scans). *)
(* The bounds on slots and revision come from counting (Counted).          *)
(***************************************************************************)
EXTENDS LifecycleLock, FiniteSetTheorems, TLAPS

Types ==
    /\ slots \in Nat
    /\ released \subseteq 1..slots /\ abandoned \subseteq 1..slots
    /\ forced \subseteq Callers
    /\ shown \in Nat /\ revision \in Nat
    /\ at \in [Callers -> Places]
    /\ slot \in [Callers -> Nat] /\ \A c \in Callers : slot[c] <= slots
    /\ lent \in [Callers -> Lendings]
    /\ steps \in [Callers -> Nat]
    /\ rev \in [Callers -> Nat]
    /\ seen \in [Callers -> Nat \cup {NoScan}]
    /\ world \in Nat

\* Each call has a slot of its own while it waits or runs.  One that waits has
\* not been passed over; one that runs was granted its slot, or is a sweep that
\* did not notice that it gave up waiting; the slot of one that runs is given
\* away by the hold guard only.
Chained ==
    /\ \A c, d \in Callers : slot[c] = slot[d] /\ slot[c] # 0 => c = d
    /\ \A c \in Callers : at[c] \in {"waiting", "running"} => slot[c] # 0
    /\ \A c \in Callers : at[c] = "waiting" => slot[c] \notin released \cup abandoned
    /\ \A c \in Callers : at[c] = "running" =>
          /\ slot[c] \notin abandoned => Resolved(slot[c] - 1)
          /\ slot[c] \in abandoned => c \in Sweeps
          /\ slot[c] \in released \ abandoned => c \in forced

\* Slots are released in their order.
InOrder == \A s \in released : \A t \in 1..s : t \in released

\* A list_agents call not declared hung: while the revision it read is current,
\* nobody who may mutate has the lock, and what it saw is the world.
Scans ==
    \A c \in Scanners \ forced :
        /\ rev[c] <= revision
        /\ at[c] = "idle" => lent[c] = "none"
        /\ at[c] \in {"lent", "waiting"} => lent[c] \in {"none", "scan"}
        /\ lent[c] \in {"none", "scan", "accepted"}
        /\ at[c] \in {"lent", "waiting", "running"} /\ lent[c] = "scan"
             /\ rev[c] = revision =>
               /\ seen[c] \in {NoScan, world}
               /\ \A d \in Callers \ Scanners : ~Holds(d)
        /\ Holds(c) /\ lent[c] = "accepted" => seen[c] = world

LockInv == Types /\ Chained /\ InOrder /\ DiagnosticsTruthful
IInv == LockInv /\ Scans

-----------------------------------------------------------------------------
(* Mutual exclusion. *)

\* One slot at a time is unreleased behind a released one.
LEMMA OneTurn ==
    ASSUME Types, InOrder, NEW s \in Nat \ {0}, NEW t \in Nat \ {0},
           Resolved(s - 1), s \notin released, Resolved(t - 1), t \notin released
    PROVE  s = t
  <1>1. ASSUME NEW a \in Nat \ {0}, NEW b \in Nat \ {0}, Resolved(b - 1),
               a \notin released, a < b
        PROVE  FALSE
    <2>1. b - 1 \in released /\ a \in 1..(b - 1)
      BY <1>1 DEF Resolved
    <2> QED
      BY <2>1, <1>1 DEF InOrder
  <1> QED
    BY <1>1

LEMMA Exclusive ==
    ASSUME Types, Chained, InOrder, NEW c \in Callers, NEW d \in Callers,
           Holds(c), Holds(d)
    PROVE  c = d
  <1>1. slot[c] \in Nat \ {0} /\ slot[d] \in Nat \ {0}
    BY DEF Types, Chained, Holds
  <1>2. Resolved(slot[c] - 1) /\ slot[c] \notin released
    BY DEF Chained, Holds
  <1>3. Resolved(slot[d] - 1) /\ slot[d] \notin released
    BY DEF Chained, Holds
  <1>4. slot[c] = slot[d]
    BY <1>1, <1>2, <1>3, OneTurn
  <1> QED
    BY <1>1, <1>4 DEF Chained

\* Whose turn has come waits for nobody who holds.
LEMMA TurnIsFree ==
    ASSUME Types, Chained, InOrder, NEW c \in Callers, NEW d \in Callers,
           Waiting(c), Resolved(slot[c] - 1), Holds(d)
    PROVE  FALSE
  <1>1. slot[c] \in Nat \ {0} /\ slot[d] \in Nat \ {0}
    BY DEF Types, Chained, Holds, Waiting
  <1>2. slot[c] \notin released
    BY DEF Chained, Waiting
  <1>3. Resolved(slot[d] - 1) /\ slot[d] \notin released
    BY DEF Chained, Holds
  <1>4. slot[c] = slot[d]
    BY <1>1, <1>2, <1>3, OneTurn
  <1> QED
    BY <1>1, <1>4 DEF Chained, Holds, Waiting

LEMMA InitIInv == Init => IInv
  <1> SUFFICES ASSUME Init PROVE IInv
    OBVIOUS
  <1>1. Types
    BY DEF Init, Types, Places, Lendings
  <1>2. Chained /\ InOrder
    BY DEF Init, Chained, InOrder
  <1>3. \A c \in Callers : ~Holds(c)
    BY DEF Init, Holds
  <1>4. DiagnosticsTruthful
    BY <1>3 DEF Init, DiagnosticsTruthful
  <1>5. Scans
    BY <1>3 DEF Init, Scans, Callers
  <1> QED
    BY <1>1, <1>2, <1>4, <1>5 DEF IInv, LockInv

-----------------------------------------------------------------------------
(* Steps of the lock. *)

LEMMA AskKeeps ==
    ASSUME IInv, NEW c \in Callers, Request(c) \/ Reacquire(c)
    PROVE  IInv'
  <1> USE DEF IInv, LockInv
  <1>1. /\ Chain(c) /\ at[c] \in {"idle", "lent"}
        /\ UNCHANGED <<shown, revision, lent, steps, rev, seen, world>>
    BY DEF Request, Reacquire
  <1>2. /\ slot'[c] = slots + 1 /\ at'[c] = "waiting" /\ slots' = slots + 1
        /\ \A d \in Callers : d # c => slot'[d] = slot[d] /\ at'[d] = at[d]
        /\ UNCHANGED <<released, abandoned, forced>>
    BY <1>1 DEF Chain, Types
  <1>3. Types'
    BY <1>1 DEF Chain, Types, Places
  <1>4. Chained'
    BY <1>2 DEF Types, Chained, Resolved
  <1>5. InOrder'
    BY <1>2 DEF InOrder
  <1>6. \A d \in Callers : Holds(d)' <=> Holds(d)
    BY <1>1, <1>2 DEF Holds
  <1>7. DiagnosticsTruthful'
    BY <1>1, <1>2, <1>6 DEF DiagnosticsTruthful, Holds
  <1>8. Scans'
    BY <1>1, <1>2, <1>6 DEF Scans, Callers
  <1> QED
    BY <1>3, <1>4, <1>5, <1>7, <1>8

LEMMA GrantKeeps ==
    ASSUME IInv, NEW c \in Callers, Grant(c)
    PROVE  IInv'
  <1> USE DEF IInv, LockInv
  <1>1. /\ at[c] = "waiting" /\ at'[c] = "running" /\ shown' = slot[c]
        /\ \A d \in Callers : d # c => at'[d] = at[d]
        /\ UNCHANGED <<slots, released, abandoned, forced, slot, lent, steps, rev, seen, world>>
    BY DEF Grant, Waiting, chain, Types
  <1>2. revision' = RevisionAfter(c)
    BY DEF Grant
  <1>3. Types'
    BY <1>1, <1>2 DEF Grant, RevisionAfter, Types, Places
  <1>4. Chained' /\ InOrder'
    BY <1>1 DEF Grant, Types, Chained, InOrder, Resolved
  <1>5. \A d \in Callers : ~Holds(d)
    BY TurnIsFree DEF Grant
  <1>6. \A d \in Callers : Holds(d)' => d = c
    BY <1>1, <1>5 DEF Holds
  <1>7. DiagnosticsTruthful'
    BY <1>1, <1>6 DEF DiagnosticsTruthful
  <1>8. ASSUME NEW d \in Scanners \ forced
        PROVE  rev[d] = revision' => rev[d] = revision /\ c \in Scanners
    BY <1>2, <1>8 DEF RevisionAfter, Scans, Types, Callers
  <1>9. revision' >= revision
    BY <1>2 DEF RevisionAfter, Types
  <1>10. Scans'
    <2> SUFFICES ASSUME NEW d \in Scanners \ forced
                 PROVE  /\ rev[d] <= revision'
                        /\ at'[d] = "idle" => lent[d] = "none"
                        /\ at'[d] \in {"lent", "waiting"} => lent[d] \in {"none", "scan"}
                        /\ lent[d] \in {"none", "scan", "accepted"}
                        /\ at'[d] \in {"lent", "waiting", "running"} /\ lent[d] = "scan"
                             /\ rev[d] = revision' =>
                               /\ seen[d] \in {NoScan, world}
                               /\ \A e \in Callers \ Scanners : ~Holds(e)'
                        /\ Holds(d)' /\ lent[d] = "accepted" => seen[d] = world
      BY <1>1 DEF Scans
    <2>1. d \in Callers /\ rev[d] \in Nat /\ revision \in Nat /\ revision' \in Nat
      BY <1>3 DEF Callers, Types
    <2>2. rev[d] <= revision'
      BY <2>1, <1>9 DEF Scans
    <2>3. /\ at'[d] = "idle" => at[d] = "idle"
          /\ at'[d] = "lent" => at[d] = "lent"
          /\ at'[d] = "waiting" => at[d] = "waiting"
          /\ at'[d] = "running" => at[d] \in {"running", "waiting"}
      BY <1>1, <2>1
    <2>4. ASSUME at'[d] \in {"lent", "waiting", "running"}, lent[d] = "scan",
                 rev[d] = revision'
          PROVE  /\ seen[d] \in {NoScan, world}
                 /\ \A e \in Callers \ Scanners : ~Holds(e)'
      BY <2>3, <2>4, <1>6, <1>8 DEF Scans
    <2>5. ~(Holds(d)' /\ lent[d] = "accepted")
      BY <2>1, <1>1, <1>6 DEF Scans
    <2> QED
      BY <2>2, <2>3, <2>4, <2>5 DEF Scans
  <1> QED
    BY <1>3, <1>4, <1>7, <1>10

LEMMA TimeOutKeeps ==
    ASSUME IInv, NEW c \in Callers, TimeOut(c)
    PROVE  IInv'
  <1> USE DEF IInv, LockInv
  <1>1. /\ at[c] = "waiting" /\ abandoned' = abandoned \cup {slot[c]}
        /\ at'[c] \in {"running", "settled"}
        /\ at'[c] = "running" => c \in Sweeps
        /\ \A d \in Callers : d # c => at'[d] = at[d]
        /\ UNCHANGED <<slots, released, forced, shown, revision, slot, world>>
    BY DEF TimeOut, Waiting, Swallowed, Forget, Types
  <1>2. \A d \in Callers : d # c => /\ lent'[d] = lent[d] /\ rev'[d] = rev[d]
                                   /\ seen'[d] = seen[d]
    BY DEF TimeOut, Forget, Types
  <1>3. Types'
    <2>0. slot[c] \in 1..slots
      BY <1>1 DEF Types, Chained
    <2>1. CASE Swallowed(c)
      BY <2>0, <2>1 DEF TimeOut, Types, Places
    <2>2. CASE ~Swallowed(c)
      <3>1. /\ at' \in [Callers -> Places] /\ lent' \in [Callers -> Lendings]
            /\ seen' \in [Callers -> Nat \cup {NoScan}]
        BY <2>2 DEF TimeOut, Forget, Types, Places, Lendings
      <3>2. steps' \in [Callers -> Nat] /\ rev' \in [Callers -> Nat]
        BY <2>2 DEF TimeOut, Forget, Types
      <3> QED
        BY <2>0, <3>1, <3>2, <1>1 DEF Types
    <2> QED
      BY <2>1, <2>2
  <1>4. Chained'
    BY <1>1 DEF Types, Chained, Resolved
  <1>5. InOrder'
    BY <1>1 DEF InOrder
  <1>6. \A d \in Callers : Holds(d)' <=> Holds(d)
    BY <1>1 DEF Holds, Chained
  <1>7. DiagnosticsTruthful'
    BY <1>1, <1>6 DEF DiagnosticsTruthful
  <1>8. Scans'
    <2> SUFFICES ASSUME NEW d \in Scanners \ forced
                 PROVE  /\ rev'[d] <= revision'
                        /\ at'[d] = "idle" => lent'[d] = "none"
                        /\ at'[d] \in {"lent", "waiting"} => lent'[d] \in {"none", "scan"}
                        /\ lent'[d] \in {"none", "scan", "accepted"}
                        /\ at'[d] \in {"lent", "waiting", "running"} /\ lent'[d] = "scan"
                             /\ rev'[d] = revision' =>
                               /\ seen'[d] \in {NoScan, world'}
                               /\ \A e \in Callers \ Scanners : ~Holds(e)'
                        /\ Holds(d)' /\ lent'[d] = "accepted" => seen'[d] = world'
      BY <1>1 DEF Scans
    <2>1. d \in Callers /\ d \notin Sweeps
      BY LockAssumption DEF Callers
    <2>2. CASE d # c
      BY <2>1, <2>2, <1>1, <1>2, <1>6 DEF Scans
    <2>3. CASE d = c
      <3>1. /\ at'[c] = "settled" /\ lent'[c] = "none" /\ rev'[c] = 0
        BY <2>1, <2>3 DEF TimeOut, Swallowed, Forget, Types
      <3> QED
        BY <3>1, <2>1, <2>3, <1>1 DEF Types, Holds
    <2> QED
      BY <2>2, <2>3
  <1> QED
    BY <1>3, <1>4, <1>5, <1>7, <1>8

LEMMA PassOnKeeps ==
    ASSUME IInv, NEW s \in abandoned, PassOn(s)
    PROVE  IInv'
  <1> USE DEF IInv, LockInv
  <1>1. /\ s \in abandoned \ released /\ Resolved(s - 1)
        /\ released' = released \cup {s}
        /\ UNCHANGED <<slots, abandoned, forced, shown, revision, at, slot, lent, steps,
                       rev, seen, world>>
    BY DEF PassOn
  <1>2. s \in Nat \ {0}
    BY DEF Types
  <1>3. Types'
    BY <1>1 DEF Types
  <1>4. Chained'
    BY <1>1 DEF Chained, Resolved
  <1>5. InOrder'
    BY <1>1, <1>2 DEF InOrder, Resolved
  <1>6. \A d \in Callers : Holds(d)' <=> Holds(d)
    BY <1>1 DEF Holds
  <1>7. DiagnosticsTruthful' /\ Scans'
    BY <1>1, <1>6 DEF DiagnosticsTruthful, Scans, Callers
  <1> QED
    BY <1>3, <1>4, <1>5, <1>7

LEMMA ForceReleaseKeeps ==
    ASSUME IInv, NEW c \in Callers, ForceRelease(c)
    PROVE  IInv'
  <1> USE DEF IInv, LockInv
  <1>1. /\ Holds(c) /\ at[c] = "running" /\ slot[c] \notin abandoned
        /\ released' = released \cup {slot[c]} /\ forced' = forced \cup {c}
        /\ UNCHANGED <<slots, abandoned, shown, revision, at, slot, lent, steps,
                       rev, seen, world>>
    BY DEF ForceRelease, Holds
  <1>2. slot[c] \in 1..slots /\ slot[c] \in Nat \ {0} /\ Resolved(slot[c] - 1)
    BY <1>1 DEF Types, Chained
  <1>3. Types'
    BY <1>1, <1>2 DEF Types
  <1>4. Chained'
    BY <1>1, <1>2 DEF Chained, Resolved
  <1>5. InOrder'
    BY <1>1, <1>2 DEF InOrder, Resolved
  <1>6. \A d \in Callers : Holds(d)' => Holds(d)
    BY <1>1 DEF Holds
  <1>7. DiagnosticsTruthful' /\ Scans'
    BY <1>1, <1>6 DEF DiagnosticsTruthful, Scans, Callers
  <1> QED
    BY <1>3, <1>4, <1>5, <1>7

\* The operation settles, or lends the lock.
LEMMA ReleaseHeldKeeps ==
    ASSUME LockInv, NEW c \in Callers, at[c] = "running", ReleaseHeld(c),
           NEW place \in {"settled", "lent"}, at' = [at EXCEPT ![c] = place],
           UNCHANGED <<revision, slot, world>>
    PROVE  /\ Chained' /\ InOrder' /\ DiagnosticsTruthful'
           /\ released' \subseteq 1..slots' /\ shown' \in Nat
           /\ \A d \in Callers : Holds(d)' <=> Holds(d) /\ d # c
  <1> USE DEF LockInv
  <1>1. /\ released' = released \cup ({slot[c]} \ abandoned)
        /\ shown' = ShownAfter(c)
        /\ UNCHANGED <<slots, abandoned, forced, slot>>
    BY DEF ReleaseHeld
  <1>2. /\ at'[c] = place
        /\ \A d \in Callers : d # c => at'[d] = at[d]
    BY DEF Types
  <1>3. slot[c] \in 1..slots /\ slot[c] \in Nat \ {0}
    BY DEF Types, Chained
  <1>4. released' \subseteq 1..slots' /\ shown' \in Nat
    BY <1>1, <1>3 DEF Types, ShownAfter
  <1>5. \A d \in Callers : d # c => slot[d] # slot[c]
    BY <1>3 DEF Chained
  <1>6. \A d \in Callers : Holds(d)' <=> Holds(d) /\ d # c
    BY <1>1, <1>2, <1>5 DEF Holds
  <1>7. Chained'
    <2>1. \A d \in Callers : d # c /\ at[d] = "waiting" =>
             slot[d] \notin released' \cup abandoned
      BY <1>1, <1>5 DEF Chained
    <2>2. \A d \in Callers : d # c /\ at[d] = "running" =>
             /\ slot[d] \notin abandoned => Resolved(slot[d] - 1)'
             /\ slot[d] \in released' \ abandoned => d \in forced
      BY <1>1, <1>5 DEF Chained, Resolved
    <2> QED
      BY <1>1, <1>2, <2>1, <2>2 DEF Chained
  <1>8. InOrder'
    <2>1. CASE slot[c] \in abandoned
      BY <2>1, <1>1 DEF InOrder
    <2>2. CASE slot[c] \notin abandoned
      <3>1. Resolved(slot[c] - 1)
        BY <2>2 DEF Chained
      <3> QED
        BY <2>2, <3>1, <1>1, <1>3 DEF InOrder, Resolved
    <2> QED
      BY <2>1, <2>2
  <1>9. DiagnosticsTruthful'
    <2>1. CASE shown = slot[c]
      <3>1. \A d \in Callers : ~Holds(d)'
        BY <2>1, <1>5, <1>6 DEF DiagnosticsTruthful
      <3> QED
        BY <2>1, <3>1, <1>1 DEF DiagnosticsTruthful, ShownAfter
    <2>2. CASE shown # slot[c]
      BY <2>2, <1>1, <1>2, <1>6 DEF DiagnosticsTruthful, ShownAfter
    <2> QED
      BY <2>1, <2>2
  <1> QED
    BY <1>4, <1>6, <1>7, <1>8, <1>9

LEMMA SettleKeeps ==
    ASSUME IInv, NEW c \in Callers, Settle(c)
    PROVE  IInv'
  <1> USE DEF IInv
  <1>1. /\ at[c] = "running" /\ ReleaseHeld(c) /\ Forget(c)
        /\ at' = [at EXCEPT ![c] = "settled"]
        /\ UNCHANGED <<revision, slot, world>>
    BY DEF Settle
  <1>2. /\ Chained' /\ InOrder' /\ DiagnosticsTruthful'
        /\ released' \subseteq 1..slots' /\ shown' \in Nat
        /\ \A d \in Callers : Holds(d)' <=> Holds(d) /\ d # c
    BY <1>1, ReleaseHeldKeeps
  <1>3. UNCHANGED <<slots, abandoned, forced>>
    BY <1>1 DEF ReleaseHeld
  <1>4. Types'
    <2>1. /\ at' \in [Callers -> Places] /\ lent' \in [Callers -> Lendings]
          /\ seen' \in [Callers -> Nat \cup {NoScan}]
      BY <1>1 DEF LockInv, Forget, Types, Places, Lendings
    <2>2. steps' \in [Callers -> Nat] /\ rev' \in [Callers -> Nat]
      BY <1>1 DEF LockInv, Forget, Types
    <2> QED
      BY <1>1, <1>2, <1>3, <2>1, <2>2 DEF LockInv, Types
  <1>5. /\ at'[c] = "settled" /\ lent'[c] = "none" /\ rev'[c] = 0
        /\ \A d \in Callers : d # c => /\ at'[d] = at[d] /\ lent'[d] = lent[d]
                                       /\ rev'[d] = rev[d] /\ seen'[d] = seen[d]
    BY <1>1 DEF LockInv, Types, Forget
  <1>6. Scans'
    BY <1>1, <1>2, <1>3, <1>5 DEF Scans, Callers, LockInv, Types
  <1> QED
    BY <1>2, <1>4, <1>6 DEF LockInv

\* withUnlocked, with what list_agents notes as it lends the lock for a scan.
LEMMA LendKeeps ==
    ASSUME IInv, NEW c \in Callers, NEW why \in Lendings, Lend(c, why),
           \/ c \notin Scanners /\ UNCHANGED <<rev, seen>>
           \/ /\ c \in Scanners /\ why = "scan"
              /\ rev' = [rev EXCEPT ![c] = revision]
              /\ seen' = [seen EXCEPT ![c] = NoScan]
    PROVE  IInv'
  <1> USE DEF IInv
  <1>1. /\ at[c] = "running" /\ ~Lockless(c) /\ ReleaseHeld(c)
        /\ at' = [at EXCEPT ![c] = "lent"]
        /\ lent' = [lent EXCEPT ![c] = why]
        /\ steps' = [steps EXCEPT ![c] = @ + 1]
        /\ UNCHANGED <<revision, slot, world>>
    BY DEF Lend
  <1>2. /\ Chained' /\ InOrder' /\ DiagnosticsTruthful'
        /\ released' \subseteq 1..slots' /\ shown' \in Nat
        /\ \A d \in Callers : Holds(d)' <=> Holds(d) /\ d # c
    BY <1>1, ReleaseHeldKeeps
  <1>3. UNCHANGED <<slots, abandoned, forced>>
    BY <1>1 DEF ReleaseHeld
  <1>4. Types'
    <2>1. at' \in [Callers -> Places] /\ lent' \in [Callers -> Lendings]
      BY <1>1 DEF LockInv, Types, Places
    <2>2. steps' \in [Callers -> Nat] /\ rev' \in [Callers -> Nat]
      BY <1>1 DEF LockInv, Types
    <2>3. seen' \in [Callers -> Nat \cup {NoScan}]
      BY DEF LockInv, Types
    <2> QED
      BY <1>1, <1>2, <1>3, <2>1, <2>2, <2>3 DEF LockInv, Types
  <1>5. /\ at'[c] = "lent" /\ lent'[c] = why
        /\ \A d \in Callers : d # c => /\ at'[d] = at[d] /\ lent'[d] = lent[d]
                                       /\ rev'[d] = rev[d] /\ seen'[d] = seen[d]
    BY <1>1 DEF LockInv, Types
  <1>6. ASSUME c \in Scanners
        PROVE  why = "scan" /\ rev'[c] = revision /\ seen'[c] = NoScan
    BY <1>6 DEF LockInv, Types
  <1>7. ASSUME c \notin forced
        PROVE  Holds(c)
    BY <1>1, <1>7 DEF LockInv, Chained, Holds, Lockless
  <1>8. ASSUME c \notin forced
        PROVE  \A d \in Callers : ~Holds(d)'
    BY <1>2, <1>7, <1>8, Exclusive DEF LockInv
  <1>9. Scans'
    <2> SUFFICES ASSUME NEW d \in Scanners \ forced
                 PROVE  /\ rev'[d] <= revision'
                        /\ at'[d] = "idle" => lent'[d] = "none"
                        /\ at'[d] \in {"lent", "waiting"} => lent'[d] \in {"none", "scan"}
                        /\ lent'[d] \in {"none", "scan", "accepted"}
                        /\ at'[d] \in {"lent", "waiting", "running"} /\ lent'[d] = "scan"
                             /\ rev'[d] = revision' =>
                               /\ seen'[d] \in {NoScan, world'}
                               /\ \A e \in Callers \ Scanners : ~Holds(e)'
                        /\ Holds(d)' /\ lent'[d] = "accepted" => seen'[d] = world'
      BY <1>3 DEF Scans
    <2>1. CASE d = c
      BY <2>1, <1>1, <1>5, <1>6, <1>8 DEF LockInv, Types
    <2>2. CASE d # c
      BY <2>2, <1>1, <1>2, <1>5 DEF Scans, Callers
    <2> QED
      BY <2>1, <2>2
  <1> QED
    BY <1>2, <1>4, <1>9 DEF LockInv

-----------------------------------------------------------------------------
(* Steps of the operations. *)

\* A change, made by an operation that is no list_agents call.
LEMMA MutateKeeps ==
    ASSUME IInv, NEW c \in Callers \ Scanners, Mutate(c)
    PROVE  IInv'
  <1> USE DEF IInv, LockInv
  <1>1. /\ world' = IF Holds(c) THEN world + 1 ELSE world
        /\ steps' = [steps EXCEPT ![c] = @ + 1]
        /\ UNCHANGED <<slots, released, abandoned, forced, shown, revision, at, slot,
                       lent, rev, seen>>
    BY DEF Mutate, chain
  <1>2. Types'
    BY <1>1 DEF Types
  <1>3. \A d \in Callers : Holds(d)' <=> Holds(d)
    BY <1>1 DEF Holds
  <1>4. Chained' /\ InOrder' /\ DiagnosticsTruthful'
    BY <1>1, <1>3 DEF Chained, InOrder, Resolved, DiagnosticsTruthful
  <1>5. ASSUME NEW d \in Scanners, Holds(d), Holds(c)
        PROVE  FALSE
    BY <1>5, Exclusive DEF Callers
  <1>6. Scans'
    BY <1>1, <1>3, <1>5 DEF Scans, Callers
  <1> QED
    BY <1>2, <1>4, <1>6

LEMMA ScanningKeeps ==
    ASSUME IInv, NEW c \in Scanners, Scanning(c)
    PROVE  IInv'
  <1> USE DEF IInv
  <1>0. c \in Callers
    BY DEF Callers
  <1>1. CASE LendForScan(c)
    BY <1>0, <1>1, LendKeeps DEF LendForScan, Lendings
  <1>2. CASE ScanUnlocked(c) \/ Accept(c) \/ ScanUnderLock(c)
    <2>1. /\ UNCHANGED <<slots, released, abandoned, forced, shown, revision, at, slot,
                         steps, rev, world>>
          /\ \A d \in Callers : d # c => lent'[d] = lent[d] /\ seen'[d] = seen[d]
      BY <1>2 DEF LockInv, Types, ScanUnlocked, Accept, ScanUnderLock, chain
    <2>2. Types'
      BY <1>2, <2>1 DEF LockInv, Types, ScanUnlocked, Accept, ScanUnderLock, Lendings
    <2>3. \A d \in Callers : Holds(d)' <=> Holds(d)
      BY <2>1 DEF Holds
    <2>4. Chained' /\ InOrder' /\ DiagnosticsTruthful'
      BY <2>1, <2>3 DEF LockInv, Chained, InOrder, Resolved, DiagnosticsTruthful
    <2>5. /\ ScanUnlocked(c) => at[c] = "lent" /\ lent[c] = "scan" /\ lent'[c] = "scan"
                                  /\ seen'[c] = world
          /\ Accept(c) => /\ at[c] = "running" /\ lent[c] = "scan"
                          /\ lent'[c] = "accepted" /\ rev[c] = revision
                          /\ seen[c] # NoScan /\ seen'[c] = seen[c]
          /\ ScanUnderLock(c) => /\ at[c] = "running" /\ lent'[c] = "accepted"
                                 /\ seen'[c] = world
      BY <1>0 DEF LockInv, Types, ScanUnlocked, Accept, Acceptable, ScanUnderLock
    <2>6. Scans'
      <3> SUFFICES ASSUME NEW d \in Scanners \ forced
                   PROVE  /\ rev[d] <= revision
                          /\ at[d] = "idle" => lent'[d] = "none"
                          /\ at[d] \in {"lent", "waiting"} => lent'[d] \in {"none", "scan"}
                          /\ lent'[d] \in {"none", "scan", "accepted"}
                          /\ at[d] \in {"lent", "waiting", "running"} /\ lent'[d] = "scan"
                               /\ rev[d] = revision =>
                                 /\ seen'[d] \in {NoScan, world}
                                 /\ \A e \in Callers \ Scanners : ~Holds(e)
                          /\ Holds(d) /\ lent'[d] = "accepted" => seen'[d] = world
        BY <2>1, <2>3 DEF Scans, Callers
      <3>1. CASE d # c
        BY <3>1, <2>1 DEF Scans, Callers
      <3>2. CASE d = c /\ ScanUnlocked(c)
        BY <3>2, <2>5 DEF Scans
      <3>3. CASE d = c /\ Accept(c)
        BY <3>3, <2>5 DEF Scans
      <3>4. CASE d = c /\ ScanUnderLock(c)
        BY <3>4, <2>5 DEF Scans
      <3> QED
        BY <1>2, <3>1, <3>2, <3>3, <3>4
    <2> QED
      BY <2>2, <2>4, <2>6 DEF LockInv
  <1> QED
    BY <1>1, <1>2 DEF Scanning

LEMMA WorkKeeps ==
    ASSUME IInv,
           \/ \E c \in Mutators : MutatorWorks(c)
           \/ \E c \in Sweeps : Sweeping(c)
    PROVE  IInv'
  <1> USE LockAssumption DEF Callers
  <1>1. ASSUME NEW c \in Mutators, MutatorWorks(c)
        PROVE  IInv'
    BY <1>1, MutateKeeps DEF MutatorWorks
  <1>2. ASSUME NEW c \in Sweeps, Sweeping(c)
        PROVE  IInv'
    <2>1. CASE SweepMutates(c)
      BY <2>1, MutateKeeps DEF SweepMutates
    <2>2. CASE CollectTopology(c)
      BY <2>2, LendKeeps DEF CollectTopology, Lendings
    <2>3. CASE ReadScreen(c)
      BY <2>3, LendKeeps DEF ReadScreen, Lendings
    <2>4. CASE YieldToWaiters(c)
      BY <2>4, LendKeeps DEF YieldToWaiters, Lendings
    <2> QED
      BY <1>2, <2>1, <2>2, <2>3, <2>4 DEF Sweeping
  <1> QED
    BY <1>1, <1>2

LEMMA StutterKeeps ==
    ASSUME IInv, UNCHANGED vars
    PROVE  IInv'
  BY DEF vars, chain, IInv, LockInv, Types, Chained, InOrder, Resolved,
         DiagnosticsTruthful, Scans, Holds

LEMMA NextKeeps == IInv /\ [Next]_vars => IInv'
  <1> SUFFICES ASSUME IInv, [Next]_vars PROVE IInv'
    OBVIOUS
  <1>1. ASSUME NEW c \in Callers,
               Request(c) \/ Grant(c) \/ TimeOut(c) \/ ForceRelease(c) \/ Settle(c)
                 \/ Reacquire(c)
        PROVE  IInv'
    BY <1>1, AskKeeps, GrantKeeps, TimeOutKeeps, ForceReleaseKeeps, SettleKeeps
  <1>2. ASSUME NEW s \in abandoned, PassOn(s)
        PROVE  IInv'
    BY <1>2, PassOnKeeps
  <1>3. ASSUME NEW c \in Scanners, Scanning(c)
        PROVE  IInv'
    BY <1>3, ScanningKeeps
  <1>4. CASE Terminating \/ UNCHANGED vars
    BY <1>4, StutterKeeps DEF Terminating
  <1> QED
    BY <1>1, <1>2, <1>3, <1>4, WorkKeeps DEF Next

-----------------------------------------------------------------------------
(* Bounds: what a call has chained and changed can be read off its place   *)
(* and its steps, and every slot, every change, counts one of them.        *)

\* The calls' chainings of slots, and their changes of the world, numbered.
Chainings == Scanners \X (1..(Attempts + 1)) \cup Mutators \X (1..1)
               \cup Sweeps \X (1..(MaxSteps + 2))
Changes == Mutators \X (1..1) \cup Sweeps \X (1..MaxSteps)

ChainedBy(c) ==
    IF at[c] = "idle" THEN 0
    ELSE IF at[c] = "settled" THEN MaxSteps + 3
    ELSE IF at[c] = "lent" THEN steps[c] ELSE steps[c] + 1
ChangedBy(c) ==
    IF at[c] = "settled" THEN MaxSteps + 1
    ELSE IF c \in Mutators THEN steps[c] ELSE steps[c] - 1

PastChainings == {t \in Chainings : t[2] <= ChainedBy(t[1])}
PastChanges == {t \in Changes : t[2] <= ChangedBy(t[1])}

\* list_agents stops lending after its attempts, a sweep after its steps.
SteppedBy(c) ==
    /\ c \in Scanners => steps[c] <= Attempts
    /\ c \in Mutators => steps[c] <= 1 /\ at[c] # "lent"
    /\ c \in Sweeps => IF lent[c] = "none" THEN steps[c] = 0
                       ELSE steps[c] \in 1..(MaxSteps + 1)
Stepped == \A c \in Callers : SteppedBy(c)

\* Each grant raises the revision by one at most, and each slot is granted once.
Granted ==
    /\ shown <= slots /\ revision <= slots
    /\ \A c \in Callers : /\ rev[c] <= revision
                          /\ Waiting(c) => revision < slot[c]

Counted ==
    /\ slots <= Cardinality(PastChainings)
    /\ world <= Cardinality(PastChanges)
    /\ \A c \in Callers : seen[c] \in 0..MaxWorld \cup {NoScan}
    /\ strays \subseteq {"forced", "lost"}

Bounded == Stepped /\ Granted /\ Counted

LEMMA CardProduct ==
    ASSUME NEW S, IsFiniteSet(S), NEW n \in Nat
    PROVE  /\ IsFiniteSet(S \X (1..n))
           /\ Cardinality(S \X (1..n)) = n * Cardinality(S)
  <1>1. IsFiniteSet(1..n) /\ Cardinality(1..n) = n
    BY FS_Interval
  <1>2. /\ IsFiniteSet(S \X (1..n))
        /\ Cardinality(S \X (1..n)) = Cardinality(S) * n
    BY <1>1, FS_Product
  <1> QED
    BY <1>2, FS_CardinalityType

LEMMA CardUnion ==
    ASSUME NEW S, NEW T, IsFiniteSet(S), IsFiniteSet(T), S \cap T = {}
    PROVE  /\ IsFiniteSet(S \cup T)
           /\ Cardinality(S \cup T) = Cardinality(S) + Cardinality(T)
  BY FS_Union, FS_EmptySet, FS_CardinalityType

\* How many chainings and changes there are.
LEMMA BoundsAre ==
    /\ MaxSlots \in Nat /\ IsFiniteSet(Chainings) /\ Cardinality(Chainings) = MaxSlots
    /\ MaxWorld \in Nat /\ IsFiniteSet(Changes) /\ Cardinality(Changes) = MaxWorld
  <1> DEFINE L == Scanners \X (1..3)
             M == Mutators \X (1..1)
             S == Sweeps \X (1..(MaxSteps + 2))
             W == Sweeps \X (1..MaxSteps)
  <1>1. IsFiniteSet(Scanners) /\ IsFiniteSet(Mutators) /\ IsFiniteSet(Sweeps)
    <2>1. \A C \in {Scanners, Mutators, Sweeps} :
             C \in SUBSET (Scanners \cup Mutators \cup Sweeps)
      OBVIOUS
    <2> QED
      BY <2>1, FiniteAssumption, FS_Subset
  <1>2. /\ Cardinality(Scanners) \in Nat /\ Cardinality(Mutators) \in Nat
        /\ Cardinality(Sweeps) \in Nat
    BY <1>1, FS_CardinalityType
  <1>3. IsFiniteSet(L) /\ Cardinality(L) = 3 * Cardinality(Scanners)
    BY <1>1, CardProduct
  <1>4. IsFiniteSet(M) /\ Cardinality(M) = Cardinality(Mutators)
    <2>1. IsFiniteSet(M) /\ Cardinality(M) = 1 * Cardinality(Mutators)
      BY <1>1, CardProduct
    <2> QED
      BY <1>2, <2>1
  <1>5. IsFiniteSet(S) /\ Cardinality(S) = (MaxSteps + 2) * Cardinality(Sweeps)
    BY <1>1, CardProduct, LockAssumption
  <1>6. IsFiniteSet(W) /\ Cardinality(W) = MaxSteps * Cardinality(Sweeps)
    BY <1>1, CardProduct, LockAssumption
  <1>7. L \cap M = {} /\ (L \cup M) \cap S = {} /\ M \cap W = {}
    BY LockAssumption
  <1>8. Chainings = (L \cup M) \cup S /\ Changes = M \cup W
    BY DEF Chainings, Changes, Attempts
  <1> HIDE DEF L, M, S, W
  <1>9. IsFiniteSet(L \cup M) /\ Cardinality(L \cup M) = Cardinality(L) + Cardinality(M)
    BY <1>3, <1>4, <1>7, CardUnion
  <1>10. /\ IsFiniteSet(Chainings)
         /\ Cardinality(Chainings) = Cardinality(L) + Cardinality(M) + Cardinality(S)
    BY <1>5, <1>7, <1>8, <1>9, CardUnion
  <1>11. /\ IsFiniteSet(Changes)
         /\ Cardinality(Changes) = Cardinality(M) + Cardinality(W)
    BY <1>4, <1>6, <1>7, <1>8, CardUnion
  <1>12. MaxSlots = Cardinality(Chainings) /\ MaxWorld = Cardinality(Changes)
    BY <1>3, <1>4, <1>5, <1>6, <1>10, <1>11 DEF MaxSlots, MaxWorld
  <1> QED
    BY <1>10, <1>11, <1>12, FS_CardinalityType

LEMMA PastIsFinite ==
    /\ IsFiniteSet(PastChainings) /\ Cardinality(PastChainings) \in 0..MaxSlots
    /\ IsFiniteSet(PastChanges) /\ Cardinality(PastChanges) \in 0..MaxWorld
    /\ IsFiniteSet(PastChainings') /\ Cardinality(PastChainings') \in 0..MaxSlots
    /\ IsFiniteSet(PastChanges') /\ Cardinality(PastChanges') \in 0..MaxWorld
  <1>1. /\ PastChainings \in SUBSET Chainings /\ PastChanges \in SUBSET Changes
        /\ PastChainings' \in SUBSET Chainings /\ PastChanges' \in SUBSET Changes
    BY DEF PastChainings, PastChanges
  <1>2. ASSUME NEW S \in SUBSET Chainings
        PROVE  IsFiniteSet(S) /\ Cardinality(S) \in 0..MaxSlots
    BY BoundsAre, FS_Subset, FS_CardinalityType
  <1>3. ASSUME NEW S \in SUBSET Changes
        PROVE  IsFiniteSet(S) /\ Cardinality(S) \in 0..MaxWorld
    BY BoundsAre, FS_Subset, FS_CardinalityType
  <1> QED
    BY <1>1, <1>2, <1>3

LEMMA InitBounded == Init => Bounded
  <1> SUFFICES ASSUME Init PROVE Bounded
    OBVIOUS
  <1>1. Stepped
    BY LockAssumption DEF Init, Stepped, SteppedBy, Attempts, Callers
  <1>2. Granted
    BY DEF Init, Granted, Waiting
  <1>3. IsFiniteSet(PastChainings) /\ IsFiniteSet(PastChanges)
    BY PastIsFinite
  <1>4. Counted
    BY <1>3, FS_CardinalityType DEF Init, Counted
  <1> QED
    BY <1>1, <1>2, <1>4 DEF Bounded

\* Which steps a call makes: one of the lock, after which its count is the same,
\* the last one, a lending, or a change.
Advances(c) ==
    \/ at'[c] = at[c] /\ steps'[c] = steps[c]
    \/ at[c] \in {"idle", "lent", "waiting"} /\ at'[c] \in {"waiting", "running"}
         /\ steps'[c] = steps[c]
    \/ at'[c] = "settled" /\ steps'[c] = 0
    \/ at[c] = "running" /\ at'[c] \in {"lent", "running"} /\ steps'[c] = steps[c] + 1

Grows ==
    \A c \in Callers : ChainedBy(c)' >= ChainedBy(c) /\ ChangedBy(c)' >= ChangedBy(c)

LEMMA AdvanceGrows ==
    ASSUME IInv, Stepped, \A c \in Callers : Advances(c)
    PROVE  Grows
  <1> SUFFICES ASSUME NEW c \in Callers
               PROVE  /\ ChainedBy(c)' >= ChainedBy(c)
                      /\ ChangedBy(c)' >= ChangedBy(c)
    BY DEF Grows
  <1>1. /\ at[c] \in Places /\ steps[c] \in Nat /\ steps[c] <= MaxSteps + 2
        /\ MaxSteps \in Nat
        /\ c \in Mutators => steps[c] <= 1
        /\ c \notin Mutators => steps[c] - 1 <= MaxSteps + 1
    BY LockAssumption DEF IInv, LockInv, Types, Stepped, SteppedBy, Callers, Attempts
  <1>2. Advances(c)
    OBVIOUS
  <1>3. ChainedBy(c)' >= ChainedBy(c)
    BY <1>1, <1>2 DEF Advances, ChainedBy
  <1>4. ChangedBy(c)' >= ChangedBy(c)
    BY <1>1, <1>2 DEF Advances, ChangedBy
  <1> QED
    BY <1>3, <1>4

\* One call advances, the others are left alone.
LEMMA OneAdvances ==
    ASSUME Stepped, NEW c \in Callers, Advances(c), SteppedBy(c)',
           \A d \in Callers : d # c => /\ at'[d] = at[d] /\ steps'[d] = steps[d]
                                       /\ lent'[d] = lent[d]
    PROVE  Stepped' /\ \A d \in Callers : Advances(d)
  <1>1. \A d \in Callers : d # c => SteppedBy(d)' /\ Advances(d)
    BY DEF Stepped, SteppedBy, Advances
  <1> QED
    BY <1>1 DEF Stepped

LEMMA StepsAdvance ==
    ASSUME IInv, Stepped, [Next]_vars
    PROVE  Stepped' /\ \A c \in Callers : Advances(c)
  <1> DEFINE Goal == Stepped' /\ \A c \in Callers : Advances(c)
  <1> SUFFICES Goal
    OBVIOUS
  <1> USE LockAssumption DEF IInv, LockInv, Types, Attempts
  <1>1. ASSUME NEW c \in Callers, Request(c) \/ Grant(c) \/ Reacquire(c)
        PROVE  Goal
    <2>1. /\ at'[c] \in {"waiting", "running"} /\ at[c] \in {"idle", "lent", "waiting"}
          /\ \A d \in Callers : d # c => at'[d] = at[d]
          /\ UNCHANGED <<steps, lent>>
      BY <1>1 DEF Request, Grant, Reacquire, Chain, Waiting
    <2>2. Advances(c) /\ SteppedBy(c)'
      BY <2>1 DEF Advances, Stepped, SteppedBy
    <2> QED
      BY <2>1, <2>2, OneAdvances
  <1>2. ASSUME NEW c \in Callers, TimeOut(c)
        PROVE  Goal
    <2>1. /\ \A d \in Callers : d # c => /\ at'[d] = at[d] /\ steps'[d] = steps[d]
                                          /\ lent'[d] = lent[d]
          /\ \/ /\ at[c] = "waiting" /\ at'[c] = "running"
                /\ steps'[c] = steps[c] /\ lent'[c] = lent[c]
             \/ at'[c] = "settled" /\ steps'[c] = 0 /\ lent'[c] = "none"
      BY <1>2 DEF TimeOut, Waiting, Forget
    <2>2. Advances(c) /\ SteppedBy(c)'
      BY <2>1 DEF Advances, Stepped, SteppedBy, Callers
    <2> QED
      BY <2>1, <2>2, OneAdvances
  <1>3. ASSUME NEW c \in Callers, Settle(c)
        PROVE  Goal
    <2>1. /\ \A d \in Callers : d # c => /\ at'[d] = at[d] /\ steps'[d] = steps[d]
                                          /\ lent'[d] = lent[d]
          /\ at'[c] = "settled" /\ steps'[c] = 0 /\ lent'[c] = "none"
      BY <1>3 DEF Settle, Forget
    <2>2. Advances(c) /\ SteppedBy(c)'
      BY <2>1 DEF Advances, SteppedBy, Callers
    <2> QED
      BY <2>1, <2>2, OneAdvances
  <1>4. ASSUME NEW c \in Callers, Mutate(c),
               \/ c \in Mutators /\ MutatorWorks(c)
               \/ c \in Sweeps /\ SweepMutates(c)
        PROVE  Goal
    <2>1. /\ \A d \in Callers : d # c => steps'[d] = steps[d]
          /\ at[c] = "running" /\ steps'[c] = steps[c] + 1
          /\ UNCHANGED <<at, lent>>
      BY <1>4 DEF Mutate
    <2>2. c \in Mutators => steps[c] = 0
      BY <1>4 DEF MutatorWorks, Callers
    <2>3. c \in Sweeps => lent[c] # "none" /\ steps[c] \in 1..MaxSteps
      BY <1>4 DEF SweepMutates, InPhases, Stepped, SteppedBy, Callers
    <2>4. Advances(c) /\ SteppedBy(c)'
      BY <1>4, <2>1, <2>2, <2>3 DEF Advances, SteppedBy, Callers
    <2> QED
      BY <2>1, <2>4, OneAdvances
  <1>5. ASSUME NEW c \in Callers, NEW why \in Lendings \ {"none"}, Lend(c, why),
               \/ c \in Scanners /\ steps[c] # Attempts
               \/ c \in Sweeps /\ steps[c] <= MaxSteps
        PROVE  Goal
    <2>1. /\ \A d \in Callers : d # c => /\ at'[d] = at[d] /\ steps'[d] = steps[d]
                                          /\ lent'[d] = lent[d]
          /\ at[c] = "running" /\ at'[c] = "lent" /\ lent'[c] = why
          /\ steps'[c] = steps[c] + 1
      BY <1>5 DEF Lend
    <2>2. Advances(c) /\ SteppedBy(c)'
      BY <1>5, <2>1 DEF Advances, Stepped, SteppedBy, Callers
    <2> QED
      BY <2>1, <2>2, OneAdvances
  <1>6. ASSUME \/ \E c \in Callers : ForceRelease(c)
               \/ \E s \in abandoned : PassOn(s)
               \/ \E c \in Scanners : ScanUnlocked(c) \/ Accept(c) \/ ScanUnderLock(c)
               \/ UNCHANGED vars
        PROVE  Goal
    <2>1. /\ UNCHANGED <<at, steps>>
          /\ \A d \in Sweeps : lent'[d] = lent[d]
      BY <1>6
      DEF ForceRelease, PassOn, ScanUnlocked, Accept, ScanUnderLock, vars, chain, Callers
    <2> QED
      BY <2>1 DEF Stepped, SteppedBy, Advances
  <1>7. ASSUME NEW c \in Mutators, MutatorWorks(c)
        PROVE  Goal
    BY <1>4, <1>7 DEF MutatorWorks, Callers
  <1>8. ASSUME NEW c \in Scanners, Scanning(c)
        PROVE  Goal
    <2>1. CASE LendForScan(c)
      BY <1>5, <2>1 DEF LendForScan, Attempted, Lendings, Callers
    <2> QED
      BY <1>6, <1>8, <2>1 DEF Scanning
  <1>9. ASSUME NEW c \in Sweeps, Sweeping(c)
        PROVE  Goal
    <2>1. c \in Callers /\ (lent[c] = "none" => steps[c] = 0)
      BY DEF Stepped, SteppedBy, Callers
    <2>2. CASE SweepMutates(c)
      BY <1>4, <2>1, <2>2 DEF SweepMutates
    <2>3. CASE CollectTopology(c) \/ ReadScreen(c) \/ YieldToWaiters(c)
      BY <1>5, <2>1, <2>3
      DEF CollectTopology, ReadScreen, YieldToWaiters, InPhases, Lendings
    <2> QED
      BY <1>9, <2>2, <2>3 DEF Sweeping
  <1> HIDE DEF IInv, LockInv, Types, Attempts, Goal
  <1>10. CASE UNCHANGED vars
    BY <1>6, <1>10
  <1>11. CASE Next
    <2>1. CASE Terminating
      BY <1>10, <2>1 DEF Terminating
    <2>2. ASSUME NEW c \in Callers, ForceRelease(c)
          PROVE  Goal
      BY <1>6, <2>2
    <2>3. ASSUME NEW s \in abandoned, PassOn(s)
          PROVE  Goal
      BY <1>6, <2>3
    <2> QED
      BY <1>1, <1>2, <1>3, <1>7, <1>8, <1>9, <1>11, <2>1, <2>2, <2>3 DEF Next
  <1> QED
    BY <1>10, <1>11

\* What is counted is counted from then on.
LEMMA PastStays ==
    ASSUME IInv, IInv', Stepped, Grows
    PROVE  PastChainings \subseteq PastChainings' /\ PastChanges \subseteq PastChanges'
  <1>1. \A c \in Callers : /\ ChainedBy(c) \in Int /\ ChainedBy(c)' \in Int
                           /\ ChangedBy(c) \in Int /\ ChangedBy(c)' \in Int
    BY LockAssumption DEF IInv, LockInv, Types, ChainedBy, ChangedBy
  <1>2. \A t \in Chainings \cup Changes : t[1] \in Callers /\ t[2] \in Nat
    BY LockAssumption DEF Chainings, Changes, Callers, Attempts
  <1> QED
    BY <1>1, <1>2 DEF Grows, PastChainings, PastChanges

LEMMA OneMore ==
    ASSUME NEW S, NEW T, NEW x, IsFiniteSet(T), S \subseteq T, x \in T, x \notin S,
           NEW n \in Nat, n <= Cardinality(S)
    PROVE  n + 1 <= Cardinality(T)
  <1>1. IsFiniteSet(S)
    BY FS_Subset
  <1>2. S \cup {x} \in SUBSET T /\ Cardinality(S \cup {x}) = Cardinality(S) + 1
    BY <1>1, FS_AddElement
  <1>3. Cardinality(S) + 1 <= Cardinality(T)
    BY <1>2, FS_Subset
  <1> QED
    BY <1>1, <1>3, FS_CardinalityType

\* A step that chains, grants and changes nothing.
Calm ==
    /\ UNCHANGED <<slots, revision, world, strays, slot>> /\ shown' \in {0, shown}
    /\ \A c \in Callers : /\ at'[c] = "waiting" => at[c] = "waiting"
                          /\ rev'[c] \in {0, rev[c], revision}
                          /\ seen'[c] \in {seen[c], NoScan, world}

LEMMA StepIs ==
    ASSUME IInv, [Next]_vars
    PROVE  \/ \E c \in Callers : Request(c) \/ Reacquire(c) \/ Grant(c)
           \/ \E c \in Mutators : MutatorWorks(c)
           \/ \E c \in Sweeps : SweepMutates(c)
           \/ Calm
  <1> USE DEF IInv, LockInv, Types
  <1>1. ASSUME NEW c \in Callers, TimeOut(c)
        PROVE  Calm
    BY <1>1 DEF TimeOut, Forget, Calm
  <1>2. ASSUME NEW c \in Callers, Settle(c)
        PROVE  Calm
    BY <1>2 DEF Settle, ReleaseHeld, ShownAfter, Forget, Calm
  <1>3. ASSUME NEW c \in Callers, NEW why, Lend(c, why),
               \/ UNCHANGED <<rev, seen>>
               \/ /\ rev' = [rev EXCEPT ![c] = revision]
                  /\ seen' = [seen EXCEPT ![c] = NoScan]
        PROVE  Calm
    BY <1>3 DEF Lend, ReleaseHeld, ShownAfter, Calm
  <1>4. ASSUME NEW c \in Callers, ForceRelease(c)
        PROVE  Calm
    BY <1>4 DEF ForceRelease, Calm
  <1>5. ASSUME NEW s \in abandoned, PassOn(s)
        PROVE  Calm
    BY <1>5 DEF PassOn, Calm
  <1>6. ASSUME UNCHANGED vars
        PROVE  Calm
    BY <1>6 DEF vars, chain, Calm
  <1>7. ASSUME NEW c \in Scanners, Scanning(c)
        PROVE  Calm
    <2>1. CASE LendForScan(c)
      BY <1>3, <2>1 DEF LendForScan, Callers
    <2>2. CASE ScanUnlocked(c) \/ Accept(c) \/ ScanUnderLock(c)
      BY <2>2 DEF ScanUnlocked, Accept, ScanUnderLock, chain, Calm
    <2> QED
      BY <1>7, <2>1, <2>2 DEF Scanning
  <1>8. ASSUME NEW c \in Sweeps, Sweeping(c), ~SweepMutates(c)
        PROVE  Calm
    BY <1>3, <1>8 DEF Sweeping, CollectTopology, ReadScreen, YieldToWaiters, Callers
  <1> HIDE DEF IInv, LockInv, Types
  <1>9. CASE UNCHANGED vars \/ Terminating
    BY <1>6, <1>9 DEF Terminating
  <1> QED
    BY <1>1, <1>2, <1>4, <1>5, <1>7, <1>8, <1>9 DEF Next

LEMMA SlotsCounted ==
    ASSUME IInv, IInv', Stepped, Stepped', Grows, slots <= Cardinality(PastChainings),
           [Next]_vars
    PROVE  slots' <= Cardinality(PastChainings')
  <1>1. /\ PastChainings \subseteq PastChainings'
        /\ IsFiniteSet(PastChainings) /\ IsFiniteSet(PastChainings')
        /\ Cardinality(PastChainings) \in Nat /\ Cardinality(PastChainings') \in Nat
    BY PastStays, PastIsFinite, BoundsAre
  <1>2. ASSUME slots' = slots
        PROVE  slots' <= Cardinality(PastChainings')
    <2>1. Cardinality(PastChainings) <= Cardinality(PastChainings')
      BY <1>1, FS_Subset
    <2>2. slots \in Nat
      BY DEF IInv, LockInv, Types
    <2> QED
      BY <1>1, <1>2, <2>1, <2>2
  <1>3. ASSUME NEW c \in Callers, Request(c) \/ Reacquire(c)
        PROVE  slots' <= Cardinality(PastChainings')
    <2> DEFINE k == IF at[c] = "idle" THEN 1 ELSE steps[c] + 1
    <2>1. /\ slots' = slots + 1 /\ at[c] \in {"idle", "lent"} /\ at'[c] = "waiting"
          /\ UNCHANGED steps
      BY <1>3 DEF Request, Reacquire, Chain, IInv, LockInv, Types
    <2>2. steps[c] \in Nat /\ MaxSteps \in Nat
      BY LockAssumption DEF IInv, LockInv, Types
    <2>3. <<c, k>> \in Chainings
      BY <2>1, <2>2 DEF Chainings, Stepped, SteppedBy, Callers, Attempts
    <2>4. ChainedBy(c) < k /\ ChainedBy(c)' >= k
      BY <2>1, <2>2 DEF ChainedBy
    <2>5. <<c, k>> \in PastChainings' /\ <<c, k>> \notin PastChainings
      BY <2>2, <2>3, <2>4 DEF PastChainings, ChainedBy
    <2> QED
      BY <1>1, <2>1, <2>5, OneMore DEF IInv, LockInv, Types
  <1> QED
    BY <1>2, <1>3, StepIs DEF Calm, Grant, MutatorWorks, SweepMutates, Mutate, chain

LEMMA WorldCounted ==
    ASSUME IInv, IInv', Stepped, Stepped', Grows, world <= Cardinality(PastChanges),
           [Next]_vars
    PROVE  world' <= Cardinality(PastChanges')
  <1>1. /\ PastChanges \subseteq PastChanges'
        /\ IsFiniteSet(PastChanges) /\ IsFiniteSet(PastChanges')
        /\ Cardinality(PastChanges) \in Nat /\ Cardinality(PastChanges') \in Nat
    BY PastStays, PastIsFinite, BoundsAre
  <1>2. ASSUME world' = world
        PROVE  world' <= Cardinality(PastChanges')
    <2>1. Cardinality(PastChanges) <= Cardinality(PastChanges')
      BY <1>1, FS_Subset
    <2>2. world \in Nat
      BY DEF IInv, LockInv, Types
    <2> QED
      BY <1>1, <1>2, <2>1, <2>2
  <1>3. ASSUME NEW c \in Callers, Mutate(c), world' = world + 1,
               \/ c \in Mutators /\ steps[c] = 0
               \/ c \in Sweeps /\ InPhases(c)
        PROVE  world' <= Cardinality(PastChanges')
    <2> DEFINE k == IF c \in Mutators THEN 1 ELSE steps[c]
    <2>1. /\ at[c] = "running" /\ at'[c] = "running" /\ steps'[c] = steps[c] + 1
          /\ steps[c] \in Nat /\ MaxSteps \in Nat
      BY <1>3, LockAssumption DEF Mutate, IInv, LockInv, Types
    <2>2. <<c, k>> \in Changes
      BY <1>3, <2>1, LockAssumption DEF Changes, Stepped, SteppedBy, InPhases
    <2>3. ChangedBy(c) < k /\ ChangedBy(c)' >= k
      BY <1>3, <2>1, LockAssumption DEF ChangedBy
    <2>4. <<c, k>> \in PastChanges' /\ <<c, k>> \notin PastChanges
      BY <2>1, <2>2, <2>3 DEF PastChanges, ChangedBy
    <2> QED
      BY <1>1, <1>3, <2>4, OneMore DEF IInv, LockInv, Types
  <1>4. ASSUME NEW c \in Mutators, MutatorWorks(c)
        PROVE  world' <= Cardinality(PastChanges')
    BY <1>2, <1>3, <1>4 DEF MutatorWorks, Mutate, Callers
  <1>5. ASSUME NEW c \in Sweeps, SweepMutates(c)
        PROVE  world' <= Cardinality(PastChanges')
    BY <1>2, <1>3, <1>5 DEF SweepMutates, Mutate, Callers
  <1> QED
    BY <1>2, <1>4, <1>5, StepIs DEF Calm, Request, Reacquire, Grant

LEMMA CountedKeeps ==
    ASSUME IInv, IInv', Stepped, Stepped', Grows, Counted, [Next]_vars
    PROVE  Counted'
  <1>1. world \in 0..MaxWorld
    BY PastIsFinite, BoundsAre DEF Counted, IInv, LockInv, Types
  <1>2. \A c \in Callers : seen'[c] \in {seen[c], NoScan, world}
    BY StepIs DEF Calm, Request, Reacquire, Grant, MutatorWorks, SweepMutates, Mutate
  <1>3. \A c \in Callers : seen'[c] \in 0..MaxWorld \cup {NoScan}
    BY <1>1, <1>2 DEF Counted
  <1>4. strays' \subseteq strays \cup {"forced", "lost"}
    BY StepIs DEF Calm, Request, Reacquire, Grant, MutatorWorks, SweepMutates, Mutate
  <1> QED
    BY <1>3, <1>4, SlotsCounted, WorldCounted DEF Counted

\* The one granted is the first of those that wait, so its slot still bounds the
\* revision and is below theirs.
LEMMA GrantedKeeps ==
    ASSUME IInv, Granted, [Next]_vars
    PROVE  Granted'
  <1> USE DEF IInv, LockInv, Types, Granted
  <1>1. ASSUME NEW c \in Callers, Request(c) \/ Reacquire(c)
        PROVE  Granted'
    BY <1>1 DEF Request, Reacquire, Chain, Waiting
  <1>2. ASSUME NEW c \in Callers, Grant(c)
        PROVE  Granted'
    <2>1. /\ Waiting(c) /\ Resolved(slot[c] - 1) /\ shown' = slot[c]
          /\ revision' \in {revision, revision + 1}
          /\ UNCHANGED <<slots, slot, rev>>
          /\ at' = [at EXCEPT ![c] = "running"]
      BY <1>2 DEF Grant, RevisionAfter, chain
    <2>2. ASSUME NEW d \in Callers, Waiting(d)'
          PROVE  slot[c] < slot[d]
      <3>1. d # c /\ Waiting(d)
        BY <2>1, <2>2 DEF Waiting
      <3>2. /\ slot[c] \in Nat \ {0} /\ slot[d] \in Nat \ {0} /\ slot[c] # slot[d]
            /\ slot[d] \notin released
        BY <2>1, <3>1 DEF Chained, Waiting
      <3> QED
        BY <2>1, <3>2 DEF Resolved, InOrder
    <2>3. revision < slot[c] /\ slot[c] <= slots
      BY <2>1
    <2> QED
      BY <2>1, <2>2, <2>3
  <1>3. CASE Calm
    BY <1>3 DEF Calm, Waiting
  <1>4. ASSUME NEW c, Mutate(c)
        PROVE  Granted'
    BY <1>4 DEF Mutate, chain, Waiting
  <1> HIDE DEF IInv, LockInv, Types, Granted
  <1> QED
    BY <1>1, <1>2, <1>3, <1>4, StepIs DEF MutatorWorks, SweepMutates

LEMMA BoundedKeeps == IInv /\ Bounded /\ [Next]_vars => Bounded'
  <1> SUFFICES ASSUME IInv, Bounded, [Next]_vars PROVE Bounded'
    OBVIOUS
  <1>1. IInv'
    BY NextKeeps
  <1>2. Stepped' /\ \A c \in Callers : Advances(c)
    BY StepsAdvance DEF Bounded
  <1>3. Grows
    BY <1>2, AdvanceGrows DEF Bounded
  <1> QED
    BY <1>1, <1>2, <1>3, CountedKeeps, GrantedKeeps DEF Bounded

LEMMA TypedByBounds == IInv /\ Bounded => TypeOK
  <1> SUFFICES ASSUME IInv, Bounded PROVE TypeOK
    OBVIOUS
  <1> USE DEF IInv, LockInv, Types, Bounded
  <1>1. slots \in 0..MaxSlots /\ world \in 0..MaxWorld
    BY PastIsFinite, BoundsAre DEF Counted
  <1>2. steps \in [Callers -> 0..(MaxSteps + 2)]
    <2>1. \A c \in Callers : steps[c] \in 0..(MaxSteps + 2)
      BY LockAssumption DEF Stepped, SteppedBy, Callers, Attempts
    <2> QED
      BY <2>1
  <1>3. rev \in [Callers -> 0..slots] /\ slot \in [Callers -> 0..slots]
    <2>1. \A c \in Callers : rev[c] \in 0..slots /\ slot[c] \in 0..slots
      BY DEF Granted
    <2> QED
      BY <2>1
  <1>4. seen \in [Callers -> 0..NoScan]
    <2>1. \A c \in Callers : seen[c] \in 0..NoScan
      BY BoundsAre DEF Counted, NoScan
    <2> QED
      BY <2>1
  <1> QED
    BY <1>1, <1>2, <1>3, <1>4 DEF Granted, Counted, TypeOK

-----------------------------------------------------------------------------
(* The queue: each step is a step of LifecycleQueue or leaves it alone. *)

Waiters == {c \in Callers : Waiting(c)}
Inside == {c \in Callers : Holds(c)}
Ahead(c) == {d \in Callers : Waiting(d) /\ slot[d] < slot[c]}

LEMMA LineIs == Line = [c \in Waiters |-> Ahead(c)] /\ DOMAIN Line = Waiters
  BY DEF Line, Waiters, Ahead

LEMMA LineIsNext ==
    Line' = [c \in Waiters' |-> Ahead(c)'] /\ DOMAIN Line' = Waiters'
  BY DEF Line, Waiters, Ahead

LEMMA InitRefines == Init => Queue!Init
  <1> SUFFICES ASSUME Init PROVE Queue!Init
    OBVIOUS
  <1>1. Waiters = {} /\ Inside = {}
    BY DEF Init, Waiters, Inside, Waiting, Holds
  <1>2. Line = [c \in {} |-> {}]
    BY <1>1, LineIs
  <1> QED
    BY <1>1, <1>2 DEF Queue!Init, Inside

\* A caller leaves the line: those behind it wait for one fewer.
LEMMA LeavesLine ==
    ASSUME NEW c \in Callers, Waiting(c), ~Waiting(c)',
           \A d \in Callers : d # c => (Waiting(d)' <=> Waiting(d)),
           UNCHANGED slot
    PROVE  c \in DOMAIN Line /\ Line' = Queue!Without(c)
  <1>1. Waiters' = Waiters \ {c} /\ c \in Waiters
    BY DEF Waiters
  <1>2. \A d \in Waiters' : Ahead(d)' = Line[d] \ {c}
    BY <1>1, LineIs DEF Ahead, Waiters
  <1>3. Line' = [d \in DOMAIN Line \ {c} |-> Line[d] \ {c}]
    BY <1>1, <1>2, LineIs, LineIsNext
  <1> QED
    BY <1>1, <1>3, LineIs DEF Queue!Without, Queue!Waiters

LEMMA LineStays ==
    ASSUME \A d \in Callers : Waiting(d)' <=> Waiting(d), UNCHANGED slot
    PROVE  Line' = Line
  <1>1. Waiters' = Waiters /\ \A d \in Callers : Ahead(d)' = Ahead(d)
    BY DEF Waiters, Ahead
  <1> QED
    BY <1>1, LineIs, LineIsNext DEF Waiters

LEMMA AskRefines ==
    ASSUME LockInv, NEW c \in Callers, Request(c) \/ Reacquire(c)
    PROVE  Queue!Ask(c)
  <1> USE DEF LockInv
  <1>1. Chain(c) /\ at[c] \in {"idle", "lent"}
    BY DEF Request, Reacquire
  <1>2. /\ slot'[c] = slots + 1 /\ at'[c] = "waiting"
        /\ \A d \in Callers : d # c => slot'[d] = slot[d] /\ at'[d] = at[d]
        /\ UNCHANGED <<released, abandoned>>
    BY <1>1 DEF Chain, Types
  <1>3. Waiters' = Waiters \cup {c} /\ c \notin Waiters /\ c \notin Inside
    BY <1>1, <1>2 DEF Waiters, Waiting, Inside, Holds
  <1>4. Ahead(c)' = Waiters
    BY <1>2, <1>3 DEF Ahead, Waiters, Waiting, Types
  <1>5. \A d \in Waiters : Ahead(d)' = Ahead(d)
    BY <1>2, <1>3 DEF Ahead, Waiters, Waiting, Types
  <1>6. Line' = [d \in Waiters \cup {c} |-> IF d = c THEN Waiters ELSE Line[d]]
    BY <1>3, <1>4, <1>5, LineIs, LineIsNext
  <1>7. UNCHANGED Inside
    BY <1>1, <1>2 DEF Inside, Holds
  <1> QED
    BY <1>3, <1>6, <1>7, LineIs DEF Queue!Ask, Queue!Waiters, Inside

LEMMA GrantRefines ==
    ASSUME LockInv, NEW c \in Callers, Grant(c)
    PROVE  Queue!Enter(c)
  <1> USE DEF LockInv
  <1>1. /\ Waiting(c) /\ Resolved(slot[c] - 1) /\ at'[c] = "running"
        /\ \A d \in Callers : d # c => at'[d] = at[d]
        /\ UNCHANGED <<released, abandoned, slot>>
    BY DEF Grant, Waiting, chain, Types
  <1>2. Inside = {}
    BY <1>1, TurnIsFree DEF Inside
  <1>3. Inside' = {c}
    BY <1>1, <1>2 DEF Inside, Holds, Waiting, Chained
  <1>4. Ahead(c) = {}
    <2> SUFFICES ASSUME NEW d \in Callers, Waiting(d), slot[d] < slot[c]
                 PROVE  FALSE
      BY DEF Ahead
    <2>1. slot[d] \in Nat \ {0} /\ slot[d] \notin released /\ slot[c] \in Nat \ {0}
      BY <1>1 DEF Types, Chained, Waiting
    <2>2. slot[c] - 1 \in released /\ slot[d] \in 1..(slot[c] - 1)
      BY <1>1, <2>1 DEF Resolved
    <2> QED
      BY <2>1, <2>2 DEF InOrder
  <1>5. c \in DOMAIN Line /\ Line' = Queue!Without(c)
    BY <1>1, LeavesLine DEF Waiting
  <1>6. Line[c] = {}
    BY <1>4, <1>5, LineIs
  <1> QED
    BY <1>2, <1>3, <1>5, <1>6 DEF Queue!Enter, Queue!Waiters, Inside

LEMMA TimeOutRefines ==
    ASSUME LockInv, NEW c \in Callers, TimeOut(c)
    PROVE  Queue!GiveUp(c)
  <1> USE DEF LockInv
  <1>1. /\ Waiting(c) /\ abandoned' = abandoned \cup {slot[c]}
        /\ at'[c] \in {"running", "settled"}
        /\ \A d \in Callers : d # c => at'[d] = at[d]
        /\ UNCHANGED <<released, slot>>
    BY DEF TimeOut, Waiting, Types
  <1>2. c \in DOMAIN Line /\ Line' = Queue!Without(c)
    BY <1>1, LeavesLine DEF Waiting
  <1>3. UNCHANGED Inside
    BY <1>1 DEF Inside, Holds, Waiting, Chained
  <1> QED
    BY <1>2, <1>3 DEF Queue!GiveUp, Queue!Waiters, Inside

\* The slot that a caller held is resolved.
LEMMA ReleaseRefines ==
    ASSUME LockInv, NEW c \in Callers, at[c] = "running",
           released' \in {released \cup {slot[c]}, released \cup ({slot[c]} \ abandoned)},
           slot[c] \in released' \cup abandoned,
           at' = at \/ (\E p \in {"settled", "lent"} : at' = [at EXCEPT ![c] = p]),
           UNCHANGED <<abandoned, slot>>
    PROVE  Queue!Leave \/ UNCHANGED <<Line, Inside>>
  <1> USE DEF LockInv
  <1>1. \A d \in Callers : Waiting(d)' <=> Waiting(d)
    BY DEF Types, Waiting
  <1>2. Line' = Line
    BY <1>1, LineStays
  <1>3. \A d \in Callers : Holds(d)' <=> Holds(d) /\ d # c
    <2> SUFFICES ASSUME NEW d \in Callers
                 PROVE  Holds(d)' <=> Holds(d) /\ d # c
      OBVIOUS
    <2>1. CASE d = c
      BY <2>1 DEF Holds
    <2>2. CASE d # c
      <3>1. at'[d] = at[d]
        BY <2>2 DEF Types
      <3>2. at[d] = "running" => slot[d] # slot[c]
        BY <2>2 DEF Chained
      <3> QED
        BY <2>2, <3>1, <3>2 DEF Holds
    <2> QED
      BY <2>1, <2>2
  <1>4. CASE Holds(c)
    <2>1. Inside # {} /\ Inside' = {}
      BY <1>3, <1>4, Exclusive DEF Inside
    <2> QED
      BY <1>2, <2>1 DEF Queue!Leave, Inside
  <1>5. CASE ~Holds(c)
    BY <1>2, <1>3, <1>5 DEF Inside
  <1> QED
    BY <1>4, <1>5

LEMMA ElseStutters ==
    ASSUME LockInv, UNCHANGED <<at, slot, abandoned>>,
           released' \subseteq released \cup abandoned, released \subseteq released'
    PROVE  UNCHANGED <<Line, Inside>>
  <1>1. Line' = Line
    BY LineStays DEF Waiting
  <1>2. Inside' = Inside
    BY DEF Inside, Holds
  <1> QED
    BY <1>1, <1>2

LEMMA LendRefines ==
    ASSUME LockInv, NEW c \in Callers,
           Settle(c) \/ ForceRelease(c) \/ \E why \in Lendings : Lend(c, why)
    PROVE  Queue!Leave \/ UNCHANGED <<Line, Inside>>
  <1>1. CASE ForceRelease(c)
    BY <1>1, ReleaseRefines DEF ForceRelease, Holds
  <1>2. CASE Settle(c)
    <2>1. ReleaseHeld(c) /\ at[c] = "running" /\ at' = [at EXCEPT ![c] = "settled"]
          /\ UNCHANGED slot
      BY <1>2 DEF Settle
    <2> QED
      BY <2>1, ReleaseRefines DEF ReleaseHeld
  <1>3. CASE \E why \in Lendings : Lend(c, why)
    <2>1. ReleaseHeld(c) /\ at[c] = "running" /\ at' = [at EXCEPT ![c] = "lent"]
          /\ UNCHANGED slot
      BY <1>3 DEF Lend
    <2> QED
      BY <2>1, ReleaseRefines DEF ReleaseHeld
  <1> QED
    BY <1>1, <1>2, <1>3

LEMMA NextRefines ==
    ASSUME LockInv, [Next]_vars
    PROVE  [Queue!Next]_<<Line, Inside>>
  <1>1. ASSUME NEW c \in Callers, Request(c) \/ Reacquire(c) \/ Grant(c) \/ TimeOut(c)
        PROVE  Queue!Next
    BY <1>1, AskRefines, GrantRefines, TimeOutRefines DEF Queue!Next
  <1>2. ASSUME NEW c \in Callers,
               Settle(c) \/ ForceRelease(c) \/ \E why \in Lendings : Lend(c, why)
        PROVE  Queue!Next \/ UNCHANGED <<Line, Inside>>
    BY <1>2, LendRefines DEF Queue!Next
  <1>3. CASE \/ \E s \in abandoned : PassOn(s)
             \/ \E c \in Callers : Mutate(c)
             \/ \E c \in Scanners : ScanUnlocked(c) \/ Accept(c) \/ ScanUnderLock(c)
             \/ UNCHANGED vars
    <2>1. /\ UNCHANGED <<at, slot, abandoned>>
          /\ released' \subseteq released \cup abandoned /\ released \subseteq released'
      BY <1>3 DEF PassOn, Mutate, ScanUnlocked, Accept, ScanUnderLock, vars, chain
    <2> QED
      BY <2>1, ElseStutters
  <1>4. ASSUME NEW c \in Mutators, MutatorWorks(c)
        PROVE  \E d \in Callers : Mutate(d)
    BY <1>4 DEF MutatorWorks, Callers
  <1>5. ASSUME NEW c \in Scanners, Scanning(c)
        PROVE  \/ c \in Callers /\ \E why \in Lendings : Lend(c, why)
               \/ ScanUnlocked(c) \/ Accept(c) \/ ScanUnderLock(c)
    BY <1>5 DEF Scanning, LendForScan, Lendings, Callers
  <1>6. ASSUME NEW c \in Sweeps, Sweeping(c)
        PROVE  c \in Callers /\ (Mutate(c) \/ \E why \in Lendings : Lend(c, why))
    BY <1>6 DEF Sweeping, CollectTopology, SweepMutates, ReadScreen, YieldToWaiters,
                Lendings, Callers
  <1> QED
    BY <1>1, <1>2, <1>3, <1>4, <1>5, <1>6 DEF Next, Terminating

-----------------------------------------------------------------------------
(* The theorems. *)

\* The invariant that the other theorems rest on.
THEOREM Invariance == Spec => []IInv
  BY InitIInv, NextKeeps, PTL DEF Spec

\* TypeOK, whose bounds say what the lock costs: list_agents chains three slots at
\* most (two scans with the lock lent), a sweep one more than it lends, and no world that
\* a scan can see is taken for one not seen yet.
THEOREM TypeCorrect == Spec => []TypeOK
  <1>1. Spec => [](IInv /\ Bounded)
    BY InitIInv, InitBounded, NextKeeps, BoundedKeeps, PTL DEF Spec
  <1> QED
    BY <1>1, TypedByBounds, PTL

\* runLifecycleMutation: however many waiters give up and holders are declared
\* hung, no two operations hold the lock.
THEOREM MutualExclusion ==
    Spec => [](\A c, d \in Callers : Holds(c) /\ Holds(d) => c = d)
  <1>1. IInv => \A c, d \in Callers : Holds(c) /\ Holds(d) => c = d
    BY Exclusive DEF IInv, LockInv
  <1> QED
    BY <1>1, Invariance, PTL

\* lifecycleLockAcquisitionId: a holder is shown until it lets go, and nobody
\* else's release blanks it.
THEOREM ShownIsTrue == Spec => []DiagnosticsTruthful
  <1>1. IInv => DiagnosticsTruthful
    BY DEF IInv, LockInv
  <1> QED
    BY <1>1, Invariance, PTL

\* list_agents: the revision that it compares suffices to tell that the scan it
\* made with the lock lent is still the world.
THEOREM AcceptedScansAreCurrent == Spec => []ScansAreCurrent
  <1>1. IInv => ScansAreCurrent
    BY DEF IInv, Scans, ScansAreCurrent
  <1> QED
    BY <1>1, Invariance, PTL

\* The chain of promises refines LifecycleQueue: its initial state is an empty
\* line with nobody inside, a chained slot asks, a time out gives up, a grant
\* lets the first of the line in, and a release, a lending or the hold guard
\* lets the one inside out.
THEOREM ChainIsQueue == Spec => ImplementsQueue
  <1>1. IInv /\ [Next]_vars => [Queue!Next]_<<Line, Inside>>
    BY NextRefines DEF IInv
  <1> QED
    BY <1>1, InitRefines, Invariance, PTL DEF Spec, ImplementsQueue, Queue!Spec, Inside
=============================================================================
