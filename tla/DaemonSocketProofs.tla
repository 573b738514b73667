------------------------- MODULE DaemonSocketProofs -------------------------
(***************************************************************************)
(* Proofs about DaemonSocket, for every number of daemons, shutdowns and   *)
(* files: unless a step hit an object put at the path under its hands, a   *)
(* serving daemon is reachable and a file of the operator survives; and a  *)
(* retirement ends unless the path was changed between its look and its    *)
(* step.                                                                   *)
(*                                                                         *)
(* None is inductive.  Each rests on what a process at a given step may    *)
(* take for granted of a path that nobody has changed since it looked      *)
(* (View) and on what it remembers (Memory); and those on the numbers of   *)
(* the file system: one that is listened on is not given to another object *)
(* (Sockets), and what is renamed away is there once (Apart).              *)
(***************************************************************************)
EXTENDS DaemonSocket, TLAPS

\* The steps at which a process listens on its socket.
Listens == Serving \cup {"detach", "rename", "park", "close", "stuck"}
Socket(i) == [kind |-> "socket", ino |-> i]

\* Sockets that are listened on have numbers of their own: an object with the
\* number of such a socket is that socket.
OwnNumber(d) ==
    Listening(d) =>
        /\ proc[d].socket \in Inodes
        /\ \A o \in aside \cup {path} : o # Nothing /\ o.ino = proc[d].socket => o = SocketOf(d)

Sockets ==
    /\ \A d \in Daemons : OwnNumber(d)
    /\ \A d, e \in Daemons :
          Listening(d) /\ Listening(e) /\ proc[d].socket = proc[e].socket => d = e

\* What a process has renamed away is aside until that process moves it on.
Holds(d) == proc[d].pc \in {"park", "close", "restore"} /\ proc[d].moved # Nothing
Apart ==
    /\ path \notin aside /\ Nothing \notin aside
    /\ \A d \in Daemons : Holds(d) => proc[d].moved \in aside
    /\ \A d, e \in Daemons : Holds(d) /\ Holds(e) /\ proc[d].moved = proc[e].moved => d = e

\* What a process in state p takes for granted about a path nobody else has
\* changed since it looked.
View(p) ==
    ~p.changed =>
        /\ p.pc = "connect" => path.kind = "socket"
        /\ p.pc = "recheck" => path.kind \in {"socket", "file"} /\ ~Live(path)
        /\ p.pc = "unlink" => raced \/ (path.kind # "operator" /\ ~Live(path))
        /\ p.pc = "own" => path = Socket(p.socket)
        /\ p.pc = "rename" => path # Nothing /\ (p.foreign \/ path.ino = p.own)
        /\ p.pc \in {"park", "restore"} => path = Nothing
        /\ p.pc = "close" => path.kind = "file" \/ path = Socket(p.socket)
        /\ p.pc = "verify" => path.kind = "file"
        /\ p.pc = "remove" => raced \/ path.kind = "file"

\* What it remembers of the objects it has handled.
Memory(p) ==
    /\ p.pc \notin {"park", "close", "restore", "clean", "verify", "remove", "stuck"} =>
          p.moved = Nothing
    /\ p.pc \in Starting \cup Serving \cup {"off"} => ~p.foreign
    /\ ~raced /\ p.pc \in {"up", "detach", "rename"} => p.own = p.socket
    /\ ~raced /\ p.pc \in {"park", "close"} /\ ~p.foreign => p.moved.kind # "operator"

\* A daemon that has not moved its socket has it at the path, and none is stuck.
Reachable(p) ==
    ~raced /\ files = 0 /\ p.pc \in {"own", "up", "detach", "rename"} => path = Socket(p.socket)
Unstuck(p) == p.pc = "stuck" => p.changed

Good(p) == View(p) /\ Memory(p) /\ Reachable(p) /\ Unstuck(p)

\* The inductive invariant.
IInv == TypeOK /\ Sockets /\ Apart /\ OperatorFileKept /\ \A d \in Daemons : Good(proc[d])

-----------------------------------------------------------------------------
(* Types. *)

Procs ==
    [pc : {"off", "stuck"} \cup Starting \cup Serving \cup Closing,
     seen : Objects \cup {Nothing}, socket : Inodes \cup {NoInode},
     own : Inodes \cup {NoInode}, placeholder : Inodes \cup {NoInode},
     moved : Objects \cup {Nothing}, foreign : BOOLEAN, retiring : BOOLEAN, changed : BOOLEAN]

LEMMA BoundsAreNat == MaxStops \in Nat /\ MaxFiles \in Nat
  BY DaemonSocketAssumption

LEMMA Numbers ==
    \A i \in NewInodes :
        /\ i \in Inodes
        /\ \A d \in Daemons : Listening(d) => i # proc[d].socket
        /\ \A o \in aside \cup {path} : o # Nothing => i # o.ino
  BY DEF NewInodes, Unknown, InUse

LEMMA Kinds ==
    /\ Nothing.kind = "nothing" /\ Nothing \notin Objects
    /\ \A o \in Objects : o.kind \in {"socket", "file", "operator"} /\ o.ino \in Inodes
    /\ \A i \in Inodes, k \in {"socket", "file", "operator"} : [kind |-> k, ino |-> i] \in Objects
  BY DEF Nothing, Objects

LEMMA OffTyped == Off \in Procs
  BY DEF Off, Procs, NoInode

Typed ==
    /\ path \in Objects \cup {Nothing}
    /\ aside \in SUBSET Objects
    /\ proc \in [Daemons -> Procs]
    /\ stops \in 0 .. MaxStops /\ files \in 0 .. MaxFiles /\ raced \in BOOLEAN

LEMMA TypedIs == TypeOK <=> Typed
  BY DEF TypeOK, Typed, Procs

-----------------------------------------------------------------------------
(* Steps that leave the path and what is aside. *)

\* d becomes p.  If it listens or holds an object, it did so before.
Quiet(d, p) ==
    /\ proc' = [proc EXCEPT ![d] = p] /\ UNCHANGED <<path, aside, files>>
    /\ stops' \in 0 .. MaxStops /\ raced' \in BOOLEAN /\ (raced => raced')
    /\ p.pc \in Listens => proc[d].pc \in Listens /\ p.socket = proc[d].socket
    /\ p.pc \in {"park", "close", "restore"} /\ p.moved # Nothing =>
          Holds(d) /\ p.moved = proc[d].moved

LEMMA QuietListens ==
    ASSUME IInv, NEW d \in Daemons, NEW p \in Procs, Quiet(d, p)
    PROVE  /\ \A e \in Daemons : Listening(e)' => Listening(e) /\ SocketOf(e)' = SocketOf(e)
                                                 /\ proc'[e].socket = proc[e].socket
           /\ Live(path)' => Live(path)
  <1>1. proc \in [Daemons -> Procs]
    BY TypedIs DEF IInv, Typed
  <1>2. ASSUME NEW e \in Daemons, Listening(e)'
        PROVE  Listening(e) /\ SocketOf(e)' = SocketOf(e) /\ proc'[e].socket = proc[e].socket
    BY <1>1, <1>2 DEF Listening, SocketOf, Quiet, Listens
  <1>3. Live(path)' => Live(path)
    BY <1>2 DEF Live, Quiet
  <1> QED
    BY <1>2, <1>3

LEMMA QuietKeeps ==
    ASSUME IInv, NEW d \in Daemons, NEW p \in Procs, Quiet(d, p), Good(p)'
    PROVE  IInv'
  <1>1. Typed
    BY TypedIs DEF IInv
  <1>2. \A e \in Daemons : proc'[e] = IF e = d THEN p ELSE proc[e]
    BY <1>1 DEF Quiet, Typed
  <1>3. Typed' /\ TypeOK'
    BY <1>1 DEF Typed, TypeOK, Quiet, Procs
  <1>4. Sockets'
    BY QuietListens DEF Sockets, OwnNumber, Quiet, IInv
  <1>5. Apart'
    BY <1>2 DEF Apart, Holds, Quiet, IInv
  <1>6. OperatorFileKept'
    BY DEF OperatorFileKept, Quiet, IInv
  <1>7. ASSUME NEW e \in Daemons PROVE Good(proc[e])'
    <2>1. CASE e = d
      BY <1>2, <2>1 DEF Good, View, Memory, Reachable, Unstuck
    <2>2. CASE e # d
      <3>1. proc'[e] = proc[e] /\ Good(proc[e])
        BY <1>2, <2>2 DEF IInv
      <3>2. (Live(path)' => Live(path)) /\ path' = path /\ files' = files /\ (raced => raced')
        BY QuietListens DEF Quiet
      <3> QED
        BY <3>1, <3>2 DEF Good, View, Memory, Reachable, Unstuck
    <2> QED
      BY <2>1, <2>2
  <1> QED
    BY <1>3, <1>4, <1>5, <1>6, <1>7 DEF IInv

-----------------------------------------------------------------------------
(* Steps that put something, or nothing, at the path. *)

LEMMA PutsOthers ==
    ASSUME Typed, NEW d \in Daemons, NEW o, NEW p \in Procs, Puts(d, o, p)
    PROVE  /\ proc' \in [Daemons -> Procs] /\ proc'[d] = p /\ path' = o
           /\ \A e \in Daemons : e # d =>
                 /\ proc'[e].pc = proc[e].pc /\ proc'[e].socket = proc[e].socket
                 /\ proc'[e].own = proc[e].own /\ proc'[e].moved = proc[e].moved
                 /\ proc'[e].foreign = proc[e].foreign
                 /\ ~proc'[e].changed => proc[e].pc = "off"
  <1>1. ASSUME NEW e \in Daemons, e # d
        PROVE  /\ proc'[e] \in Procs
               /\ proc'[e].pc = proc[e].pc /\ proc'[e].socket = proc[e].socket
               /\ proc'[e].own = proc[e].own /\ proc'[e].moved = proc[e].moved
               /\ proc'[e].foreign = proc[e].foreign
               /\ ~proc'[e].changed => proc[e].pc = "off"
    <2>1. PICK b \in BOOLEAN : b = (proc[e].pc # "off")
      OBVIOUS
    <2>2. proc'[e] = [proc[e] EXCEPT !.changed = b]
      BY <1>1, <2>1 DEF Puts
    <2>3. proc[e] \in Procs
      BY DEF Typed
    <2> QED
      BY <2>1, <2>2, <2>3 DEF Procs
  <1>2. proc'[d] = p /\ path' = o /\ proc' = [e \in Daemons |-> proc'[e]]
    BY DEF Puts
  <1> QED
    BY <1>1, <1>2

\* No other process relies on the path: it would know of the change.
LEMMA PutsKeep ==
    ASSUME IInv, NEW d \in Daemons, NEW o \in Objects \cup {Nothing}, NEW p \in Procs, Puts(d, o, p),
           aside' \in SUBSET Objects, UNCHANGED <<stops, files>>, raced' \in BOOLEAN,
           raced => raced', Good(p)', Sockets', Apart', OperatorFileKept',
           ~raced' /\ files = 0 =>
              \A e \in Daemons : e # d => proc[e].pc \notin {"own", "up", "detach", "rename"}
    PROVE  IInv'
  <1>1. Typed
    BY TypedIs DEF IInv
  <1>2. Typed' /\ TypeOK'
    BY <1>1, PutsOthers DEF Typed, TypeOK, Procs
  <1>3. ASSUME NEW e \in Daemons PROVE Good(proc[e])'
    <2>1. CASE e = d
      BY <1>1, <2>1, PutsOthers DEF Good, View, Memory, Reachable, Unstuck
    <2>2. CASE e # d
      <3>1. /\ proc'[e].pc = proc[e].pc /\ proc'[e].socket = proc[e].socket
            /\ proc'[e].own = proc[e].own /\ proc'[e].moved = proc[e].moved
            /\ proc'[e].foreign = proc[e].foreign
            /\ ~proc'[e].changed => proc[e].pc = "off"
        BY <1>1, <2>2, PutsOthers
      <3>2. Memory(proc[e]) /\ Unstuck(proc[e])
        BY DEF IInv, Good
      <3>3. View(proc[e])'
        BY <3>1 DEF View
      <3>4. Memory(proc[e])' /\ Unstuck(proc[e])'
        BY <3>1, <3>2 DEF Memory, Unstuck
      <3>5. Reachable(proc[e])'
        BY <2>2, <3>1 DEF Reachable
      <3> QED
        BY <3>3, <3>4, <3>5 DEF Good
    <2> QED
      BY <2>1, <2>2
  <1> QED
    BY <1>2, <1>3 DEF IInv

\* New objects take numbers that are free.
LEMMA SocketsKeep ==
    ASSUME IInv, NEW d \in Daemons, NEW o \in Objects \cup {Nothing}, NEW p \in Procs, Puts(d, o, p),
           aside' \subseteq aside \cup {path}, aside' \in SUBSET Objects,
           \/ o \in aside \cup {path, Nothing} 
           \/ o.ino \in NewInodes,
           p.pc \in Listens => \/ proc[d].pc \in Listens /\ p.socket = proc[d].socket
                               \/ p.socket \in NewInodes /\ o = Socket(p.socket)
    PROVE  Sockets'
  <1>1. Typed
    BY TypedIs DEF IInv
  <1>2. \A e \in Daemons : e # d => /\ Listening(e)' <=> Listening(e)
                                    /\ proc'[e].socket = proc[e].socket
    BY <1>1, PutsOthers DEF Listening
  <1>3. proc'[d] = p /\ path' = o
    BY <1>1, PutsOthers
  <1>4. ASSUME NEW e \in Daemons, Listening(e)'
        PROVE  /\ proc'[e].socket \in Inodes
               /\ \A a \in aside' \cup {path'} :
                     a # Nothing /\ a.ino = proc'[e].socket => a = Socket(proc'[e].socket)
    <2>1. CASE Listening(e) /\ proc'[e].socket = proc[e].socket
      <3>1. OwnNumber(e)
        BY DEF IInv, Sockets
      <3> QED
        BY <1>3, <2>1, <3>1, Numbers DEF OwnNumber, SocketOf, Socket
    <2>2. CASE e = d /\ p.socket \in NewInodes /\ o = Socket(p.socket)
      BY <1>3, <2>2, Numbers DEF Socket
    <2>3. Listening(e)' <=> proc'[e].pc \in Listens
      BY DEF Listening, Listens
    <2> QED
      BY <1>2, <1>3, <1>4, <2>1, <2>2, <2>3 DEF Listening, Listens
  <1>5. ASSUME NEW e \in Daemons, NEW f \in Daemons, Listening(e)', Listening(f)',
               proc'[e].socket = proc'[f].socket, e # f
        PROVE  FALSE
    <2>1. \A x \in Daemons : Listening(x)' =>
             \/ Listening(x) /\ proc'[x].socket = proc[x].socket
             \/ x = d /\ proc'[x].socket \in NewInodes
      BY <1>2, <1>3 DEF Listening, Listens
    <2>2. \A x, y \in Daemons :
             Listening(x) /\ Listening(y) /\ proc[x].socket = proc[y].socket => x = y
      BY DEF IInv, Sockets
    <2> QED
      BY <1>5, <2>1, <2>2, Numbers
  <1> QED
    BY <1>4, <1>5 DEF Sockets, OwnNumber, SocketOf, Socket

-----------------------------------------------------------------------------
(* Quiet steps. *)

LEMMA ExitsKeep ==
    ASSUME IInv, NEW d \in Daemons, Exits(d), UNCHANGED <<path, aside, files>>,
           stops' \in 0 .. MaxStops, raced' \in BOOLEAN, raced => raced'
    PROVE  IInv'
  <1>1. PICK p \in Procs : p = Off
    BY OffTyped
  <1>2. p.pc = "off" /\ p.moved = Nothing /\ ~p.foreign
    BY <1>1 DEF Off
  <1>3. Good(p)'
    BY <1>2 DEF Good, View, Memory, Reachable, Unstuck, Starting, Serving
  <1>4. Quiet(d, p)
    BY <1>1, <1>2 DEF Quiet, Exits, Listens, Serving
  <1> QED
    BY <1>3, <1>4, QuietKeeps

\* A daemon goes on to listen.
LEMMA ListensNext ==
    ASSUME IInv, NEW d \in Daemons, proc[d].pc \in Starting, Looks(d, "listen"),
           UNCHANGED <<path, aside, files, stops>>, raced' \in BOOLEAN, raced => raced'
    PROVE  IInv'
  <1>0. Typed /\ proc[d] \in Procs
    BY TypedIs DEF IInv, Typed
  <1>1. PICK p : p = [proc[d] EXCEPT !.pc = "listen", !.seen = Nothing, !.changed = FALSE]
    OBVIOUS
  <1>2. /\ p \in Procs /\ p.pc = "listen" /\ p.moved = proc[d].moved /\ p.foreign = proc[d].foreign
        /\ proc' = [proc EXCEPT ![d] = p]
    BY <1>0, <1>1 DEF Procs, Starting, Looks, Typed
  <1>3. p.moved = Nothing /\ ~p.foreign
    BY <1>2 DEF IInv, Good, Memory, Starting
  <1>4. Good(p)'
    BY <1>2, <1>3 DEF Good, View, Memory, Reachable, Unstuck
  <1>5. Quiet(d, p)
    BY <1>0, <1>2 DEF Quiet, Listens, Serving, Typed
  <1> QED
    BY <1>2, <1>4, <1>5, QuietKeeps

LEMMA SpawnKeeps == \A d \in Daemons : IInv /\ Spawn(d) => IInv'
  <1> SUFFICES ASSUME NEW d \in Daemons, IInv, Spawn(d) PROVE IInv'
    OBVIOUS
  <1>0. Typed
    BY TypedIs DEF IInv
  <1>1. PICK p : p = [Off EXCEPT !.pc = "observe"]
    OBVIOUS
  <1>2. p \in Procs /\ p.pc = "observe" /\ p.moved = Nothing /\ ~p.foreign
    BY <1>1, OffTyped DEF Procs, Off, Starting
  <1>3. Good(p)'
    BY <1>2 DEF Good, View, Memory, Reachable, Unstuck
  <1>4. Quiet(d, p)
    BY <1>0, <1>1, <1>2 DEF Quiet, Spawn, Listens, Serving, Typed
  <1> QED
    BY <1>2, <1>3, <1>4, QuietKeeps

\* A starting daemon that looks, and goes on to "probe", "connect" or "recheck".
LEMMA StartKeeps ==
    ASSUME IInv, NEW d \in Daemons, proc[d].pc \in Starting, NEW p \in Procs,
           proc' = [proc EXCEPT ![d] = p], UNCHANGED <<path, aside, stops, files>>,
           raced' \in BOOLEAN, raced => raced',
           p.moved = proc[d].moved, p.foreign = proc[d].foreign,
           \/ p.pc = "probe"
           \/ p.pc = "connect" /\ (~p.changed => path.kind = "socket")
           \/ p.pc = "recheck" /\ (~p.changed => path.kind \in {"socket", "file"} /\ ~Live(path))
           \/ p.pc = "unlink" /\ (raced' \/ (path.kind # "operator" /\ ~Live(path)))
    PROVE  IInv'
  <1>0. Typed
    BY TypedIs DEF IInv
  <1>1. Quiet(d, p)
    BY <1>0 DEF Quiet, Listens, Serving, Typed
  <1>2. p.moved = Nothing /\ ~p.foreign
    BY DEF IInv, Good, Memory, Starting
  <1>3. Live(path)' => Live(path)
    BY <1>1, QuietListens
  <1>4. Good(p)'
    BY <1>2, <1>3 DEF Good, View, Memory, Reachable, Unstuck, Starting, Serving
  <1> QED
    BY <1>1, <1>4, QuietKeeps

LEMMA LooksKeep ==
    \A d \in Daemons : IInv /\ (Observe(d) \/ Probe(d) \/ Connect(d) \/ Recheck(d)) => IInv'
  <1> SUFFICES ASSUME NEW d \in Daemons, IInv, Observe(d) \/ Probe(d) \/ Connect(d) \/ Recheck(d)
               PROVE  IInv'
    OBVIOUS
  <1>0. Typed /\ proc[d] \in Procs /\ View(proc[d])
    BY TypedIs DEF IInv, Typed, Good
  <1>1. CASE Observe(d)
    <2>1. PICK p : p = [proc[d] EXCEPT !.pc = "probe", !.seen = path, !.changed = FALSE]
      OBVIOUS
    <2>2. /\ p \in Procs /\ p.pc = "probe" /\ p.moved = proc[d].moved /\ p.foreign = proc[d].foreign
          /\ proc' = [proc EXCEPT ![d] = p]
      BY <1>0, <1>1, <2>1 DEF Observe, Procs, Starting, Typed
    <2> QED
      BY <1>0, <1>1, <2>2, StartKeeps DEF Observe, Starting, Typed
  <1>2. ASSUME NEW pc \in {"connect", "recheck"}, Goes(d, pc), proc[d].pc \in Starting,
               UNCHANGED <<path, aside, stops, files, raced>>,
               pc = "connect" => path.kind = "socket",
               pc = "recheck" => ~Live(path) /\ (~proc[d].changed => path.kind \in {"socket", "file"})
        PROVE  IInv'
    <2>1. PICK p : p = [proc[d] EXCEPT !.pc = pc]
      OBVIOUS
    <2>2. /\ p \in Procs /\ p.pc = pc /\ p.moved = proc[d].moved /\ p.foreign = proc[d].foreign
          /\ p.changed = proc[d].changed /\ proc' = [proc EXCEPT ![d] = p]
      BY <1>0, <1>2, <2>1 DEF Goes, Procs, Starting, Typed
    <2> QED
      BY <1>0, <1>2, <2>2, StartKeeps DEF Typed
  <1>3. CASE Probe(d)
    <2>1. CASE path = Nothing
      <3>1. /\ proc[d].pc = "probe" /\ Looks(d, "listen")
            /\ UNCHANGED <<path, aside, stops, files, raced>>
        BY <1>3, <2>1, Kinds DEF Probe
      <3> QED
        BY <1>0, <3>1, ListensNext DEF Starting, Typed
    <2>2. CASE path # Nothing
      <3>1. path \in Objects /\ path.kind \in {"socket", "file", "operator"}
        BY <1>0, <2>2, Kinds DEF Typed
      <3>2. CASE path.kind = "operator"
        BY <1>0, <1>3, <2>2, <3>2, ExitsKeep DEF Probe, Typed
      <3>3. CASE path.kind = "file"
        <4>1. ~Live(path)
          BY <3>3 DEF Live, SocketOf
        <4> QED
          BY <1>2, <1>3, <2>2, <3>3, <4>1 DEF Probe, Starting
      <3>4. CASE path.kind = "socket"
        BY <1>2, <1>3, <2>2, <3>4 DEF Probe, Starting
      <3> QED
        BY <3>1, <3>2, <3>3, <3>4
    <2> QED
      BY <2>1, <2>2
  <1>4. CASE Connect(d)
    <2>1. CASE path = Nothing
      <3>1. /\ proc[d].pc = "connect" /\ Looks(d, "listen")
            /\ UNCHANGED <<path, aside, stops, files, raced>>
        BY <1>4, <2>1 DEF Connect, Live, SocketOf, Nothing
      <3> QED
        BY <1>0, <3>1, ListensNext DEF Starting, Typed
    <2>2. CASE path # Nothing /\ Live(path)
      BY <1>0, <1>4, <2>2, ExitsKeep DEF Connect, Typed
    <2>3. CASE path # Nothing /\ ~Live(path)
      <3>1. proc[d].pc = "connect" /\ Goes(d, "recheck") /\ UNCHANGED <<path, aside, stops, files, raced>>
        BY <1>4, <2>3 DEF Connect
      <3>2. ~proc[d].changed => path.kind \in {"socket", "file"}
        BY <1>0, <3>1 DEF View
      <3> QED
        BY <1>2, <2>3, <3>1, <3>2 DEF Starting
    <2> QED
      BY <2>1, <2>2, <2>3
  <1>5. CASE Recheck(d)
    <2>0. /\ proc[d].pc = "recheck" /\ UNCHANGED <<path, aside, stops, files>>
          /\ raced' = (raced \/ (SameIdentity(path, proc[d].seen) /\ proc[d].changed /\ Precious(path)))
          /\ raced' \in BOOLEAN /\ (raced => raced')
      BY <1>0, <1>5 DEF Recheck, Compares, Typed
    <2>1. CASE path = Nothing
      BY <1>5, <2>0, <2>1, ListensNext DEF Recheck, Starting
    <2>2. CASE path # Nothing /\ Revalidated(d)
      <3>1. Looks(d, "unlink")
        BY <1>5, <2>2 DEF Recheck
      <3>2. PICK p : p = [proc[d] EXCEPT !.pc = "unlink", !.seen = Nothing, !.changed = FALSE]
        OBVIOUS
      <3>3. /\ p \in Procs /\ p.pc = "unlink" /\ p.moved = proc[d].moved
            /\ p.foreign = proc[d].foreign /\ proc' = [proc EXCEPT ![d] = p]
        BY <1>0, <3>1, <3>2 DEF Looks, Procs, Starting, Typed
      <3>4. raced' \/ (path.kind # "operator" /\ ~Live(path))
        BY <1>0, <2>0, <2>2 DEF View, Revalidated, Precious
      <3> QED
        BY <2>0, <3>3, <3>4, StartKeeps DEF Starting
    <2>3. CASE path # Nothing /\ ~Revalidated(d)
      BY <1>0, <1>5, <2>0, <2>3, ExitsKeep DEF Recheck, Typed
    <2> QED
      BY <2>1, <2>2, <2>3
  <1> QED
    BY <1>1, <1>3, <1>4, <1>5

LEMMA OwnKeeps == \A d \in Daemons : IInv /\ Own(d) => IInv'
  <1> SUFFICES ASSUME NEW d \in Daemons, IInv, Own(d) PROVE IInv'
    OBVIOUS
  <1>0. Typed /\ proc[d] \in Procs /\ Good(proc[d])
    BY TypedIs DEF IInv, Typed
  <1>1. /\ proc[d].pc = "own" /\ UNCHANGED <<path, aside, stops, files>>
        /\ raced' = (raced \/ (proc[d].changed /\ path \notin {Nothing, SocketOf(d)}))
        /\ raced' \in BOOLEAN /\ (raced => raced')
        /\ stops' \in 0 .. MaxStops
    BY <1>0 DEF Own, Typed, Procs
  <1>2. CASE path = Nothing
    BY <1>1, <1>2, ExitsKeep DEF Own
  <1>3. CASE path # Nothing
    <2>1. PICK p : p = [proc[d] EXCEPT !.pc = "up", !.own = path.ino]
      OBVIOUS
    <2>2. path.ino \in Inodes
      BY <1>0, <1>3, Kinds DEF Typed
    <2>3. /\ p \in Procs /\ p.pc = "up" /\ p.own = path.ino /\ p.socket = proc[d].socket
          /\ p.moved = proc[d].moved /\ p.foreign = proc[d].foreign /\ p.changed = proc[d].changed
          /\ proc' = [proc EXCEPT ![d] = p]
      BY <1>0, <1>3, <2>1, <2>2 DEF Own, Procs, Serving, Typed
    <2>4. Quiet(d, p)
      BY <1>1, <2>3 DEF Quiet, Listens, Serving
    <2>5. ~raced' => path = Socket(p.socket) /\ p.own = p.socket
      <3>1. View(proc[d])
        BY <1>0 DEF Good
      <3>2. ~raced' => path = Socket(proc[d].socket)
        BY <1>1, <1>3, <3>1 DEF View, SocketOf, Socket
      <3> QED
        BY <2>3, <3>2 DEF Socket
    <2>6. Good(p)'
      BY <1>0, <1>1, <2>3, <2>5 DEF Good, View, Memory, Reachable, Unstuck, Serving
    <2> QED
      BY <2>3, <2>4, <2>6, QuietKeeps
  <1> QED
    BY <1>2, <1>3

LEMMA StopKeeps == \A d \in Daemons : IInv /\ Stop(d) => IInv'
  <1> SUFFICES ASSUME NEW d \in Daemons, IInv, Stop(d) PROVE IInv'
    OBVIOUS
  <1>0. Typed /\ proc[d] \in Procs /\ Good(proc[d])
    BY TypedIs DEF IInv, Typed
  <1>1. PICK r \in BOOLEAN :
           proc' = [proc EXCEPT ![d].retiring = r,
                                ![d].pc = IF @ = "up" THEN "detach" ELSE "close"]
    BY DEF Stop
  <1>2. PICK n \in {"detach", "close"} : n = IF proc[d].pc = "up" THEN "detach" ELSE "close"
    OBVIOUS
  <1>3. PICK p : p = [proc[d] EXCEPT !.retiring = r, !.pc = n]
    OBVIOUS
  <1>4. /\ p \in Procs /\ p.own = proc[d].own /\ p.socket = proc[d].socket
        /\ p.moved = proc[d].moved /\ p.foreign = proc[d].foreign /\ p.changed = proc[d].changed
        /\ p.pc = n
    BY <1>0, <1>3 DEF Procs, Closing
  <1>5. proc' = [proc EXCEPT ![d] = p]
    BY <1>0, <1>1, <1>2, <1>3 DEF Typed, Procs
  <1>6. proc[d].pc \in {"own", "up"} /\ UNCHANGED <<path, aside, files, raced>> /\ stops' = stops + 1
        /\ stops < MaxStops
    BY DEF Stop, Serving
  <1>7. stops' \in 0 .. MaxStops
    BY <1>0, <1>6, BoundsAreNat DEF Typed
  <1>8. p.moved = Nothing /\ ~p.foreign /\ p.moved.kind # "operator"
    BY <1>0, <1>4, <1>6, Kinds DEF Good, Memory, Serving
  <1>9. Quiet(d, p)
    BY <1>0, <1>2, <1>4, <1>5, <1>6, <1>7, <1>8 DEF Quiet, Listens, Serving, Typed
  <1>10. Good(p)'
    BY <1>0, <1>2, <1>4, <1>6, <1>8 DEF Good, View, Memory, Reachable, Unstuck, Starting, Serving
  <1> QED
    BY <1>4, <1>9, <1>10, QuietKeeps

LEMMA DetachKeeps == \A d \in Daemons : IInv /\ Detach(d) => IInv'
  <1> SUFFICES ASSUME NEW d \in Daemons, IInv, Detach(d) PROVE IInv'
    OBVIOUS
  <1>0. Typed /\ proc[d] \in Procs /\ Good(proc[d])
    BY TypedIs DEF IInv, Typed
  <1>1. PICK f \in BOOLEAN : f = (path # Nothing /\ path.ino # proc[d].own)
    OBVIOUS
  <1>2. PICK n \in {"park", "rename"} : n = IF path = Nothing THEN "park" ELSE "rename"
    OBVIOUS
  <1>3. PICK p : p = [proc[d] EXCEPT !.pc = n, !.foreign = f, !.changed = FALSE]
    OBVIOUS
  <1>4. /\ p \in Procs /\ p.own = proc[d].own /\ p.socket = proc[d].socket
        /\ p.moved = proc[d].moved /\ p.foreign = f /\ p.changed = FALSE /\ p.pc = n
    BY <1>0, <1>3 DEF Procs, Closing
  <1>5. proc[d].pc = "detach" /\ UNCHANGED <<path, aside, stops, files, raced>>
        /\ proc' = [proc EXCEPT ![d] = p]
    BY <1>0, <1>1, <1>2, <1>3 DEF Detach, Typed
  <1>6. p.moved = Nothing /\ p.moved.kind # "operator"
    BY <1>0, <1>4, <1>5, Kinds DEF Good, Memory
  <1>7. Quiet(d, p)
    BY <1>0, <1>2, <1>4, <1>5, <1>6 DEF Quiet, Listens, Serving, Typed
  <1>8. Good(p)'
    BY <1>0, <1>1, <1>2, <1>4, <1>5, <1>6 DEF Good, View, Memory, Reachable, Unstuck, Starting, Serving
  <1> QED
    BY <1>4, <1>7, <1>8, QuietKeeps

\* A failure: only what another process did can make a retiring daemon stay.
LEMMA FailsKeep ==
    ASSUME IInv, NEW d \in Daemons, proc[d].pc \in {"rename", "park"}, Fails(d),
           UNCHANGED <<path, aside, stops, files>>, proc[d].changed,
           raced' \in BOOLEAN, raced => raced'
    PROVE  IInv'
  <1>0. Typed /\ proc[d] \in Procs /\ Good(proc[d])
    BY TypedIs DEF IInv, Typed
  <1>1. CASE Exits(d)
    BY <1>0, <1>1, ExitsKeep DEF Typed
  <1>2. CASE Goes(d, "stuck")
    <2>1. PICK p : p = [proc[d] EXCEPT !.pc = "stuck"]
      OBVIOUS
    <2>2. /\ p \in Procs /\ p.pc = "stuck" /\ p.socket = proc[d].socket /\ p.changed
          /\ proc' = [proc EXCEPT ![d] = p]
      BY <1>0, <1>2, <2>1 DEF Procs, Goes, Typed
    <2>3. Quiet(d, p)
      BY <1>0, <2>2 DEF Quiet, Listens, Typed
    <2>4. Good(p)'
      BY <2>2 DEF Good, View, Memory, Reachable, Unstuck, Starting, Serving
    <2> QED
      BY <2>2, <2>3, <2>4, QuietKeeps
  <1> QED
    BY <1>1, <1>2 DEF Fails

LEMMA CleanKeeps == \A d \in Daemons : IInv /\ (Clean(d) \/ Verify(d)) => IInv'
  <1> SUFFICES ASSUME NEW d \in Daemons, IInv, Clean(d) \/ Verify(d) PROVE IInv'
    OBVIOUS
  <1>0. Typed /\ proc[d] \in Procs /\ Good(proc[d])
    BY TypedIs DEF IInv, Typed
  <1>3. /\ UNCHANGED <<path, aside, stops, files>> /\ raced' \in BOOLEAN /\ (raced => raced')
        /\ stops' \in 0 .. MaxStops
    BY <1>0 DEF Clean, Verify, Compares, Typed
  <1>1. CASE Exits(d)
    BY <1>1, <1>3, ExitsKeep
  <1>2. CASE ~Exits(d)
    <2>1. NodeType(path) = "file" => path.kind \in {"file", "operator"}
      BY DEF NodeType
    <2>2. PICK p : \/ /\ proc[d].pc = "clean" /\ path.kind = "file"
                      /\ p = [proc[d] EXCEPT !.pc = "verify", !.changed = FALSE]
                      /\ proc' = [proc EXCEPT ![d].pc = "verify", ![d].changed = FALSE]
                   \/ /\ proc[d].pc = "verify" /\ OwnPlaceholder(d) /\ Compares(d, OwnPlaceholder(d))
                      /\ p = [proc[d] EXCEPT !.pc = "remove", !.seen = Nothing, !.changed = FALSE]
                      /\ Looks(d, "remove")
      BY <1>2 DEF Clean, Verify
    <2>3. p \in Procs /\ p.pc \in {"verify", "remove"}
      BY <1>0, <2>2 DEF Procs, Closing
    <2>4. proc' = [proc EXCEPT ![d] = p]
      BY <1>0, <2>2 DEF Looks, Typed
    <2>5. Quiet(d, p)
      BY <1>0, <1>3, <2>3, <2>4 DEF Quiet, Listens, Serving
    <2>6. p.pc = "verify" => path.kind = "file"
      BY <1>0, <2>2 DEF Procs
    <2>7. p.pc = "remove" => raced' \/ path.kind = "file"
      <3>1. CASE proc[d].pc = "clean"
        BY <1>0, <2>2, <3>1 DEF Procs
      <3>2. CASE proc[d].pc # "clean"
        <4>1. NodeType(path) = "file"
          BY <2>2, <3>2 DEF OwnPlaceholder, SameIdentity, NodeType
        <4>2. ~proc[d].changed => path.kind = "file"
          BY <1>0, <2>2, <3>2 DEF Good, View
        <4>3. proc[d].changed /\ path.kind = "operator" => raced'
          BY <2>2, <3>2 DEF Compares, Precious
        <4> QED
          BY <2>1, <4>1, <4>2, <4>3
      <3> QED
        BY <3>1, <3>2
    <2>8. Good(p)'
      BY <1>3, <2>3, <2>6, <2>7 DEF Good, View, Memory, Reachable, Unstuck, Starting, Serving
    <2> QED
      BY <2>3, <2>5, <2>8, QuietKeeps
  <1> QED
    BY <1>1, <1>2

LEMMA CrashKeeps == \A d \in Daemons : IInv /\ Crash(d) => IInv'
  <1> SUFFICES ASSUME NEW d \in Daemons, IInv, Crash(d) PROVE IInv'
    OBVIOUS
  <1>1. Typed
    BY TypedIs DEF IInv
  <1>2. stops' \in 0 .. MaxStops
    BY <1>1, BoundsAreNat DEF Typed, Crash
  <1> QED
    BY <1>1, <1>2, ExitsKeep DEF Crash, Typed

-----------------------------------------------------------------------------
(* Steps that change the path. *)

LEMMA ApartKeeps ==
    ASSUME IInv, NEW d \in Daemons, NEW o, NEW p \in Procs, Puts(d, o, p),
           o \notin aside', Nothing \notin aside',
           p.pc \in {"park", "close", "restore"} /\ p.moved # Nothing =>
              /\ p.moved \in aside'
              /\ \/ Holds(d) /\ p.moved = proc[d].moved
                 \/ p.moved \notin aside,
           \A e \in Daemons : e # d /\ Holds(e) => proc[e].moved \in aside'
    PROVE  Apart'
  <1>1. Typed /\ Apart
    BY TypedIs DEF IInv
  <1>2. /\ proc'[d] = p /\ path' = o
        /\ \A e \in Daemons : e # d => /\ Holds(e)' <=> Holds(e)
                                       /\ proc'[e].moved = proc[e].moved
    BY <1>1, PutsOthers DEF Holds
  <1>3. Holds(d)' => /\ p.moved \in aside'
                     /\ \/ Holds(d) /\ p.moved = proc[d].moved
                        \/ p.moved \notin aside
    BY <1>2 DEF Holds
  <1>4. ASSUME NEW e \in Daemons, NEW f \in Daemons, Holds(e)', Holds(f)',
               proc'[e].moved = proc'[f].moved, e # f
        PROVE  FALSE
    BY <1>1, <1>2, <1>3, <1>4 DEF Apart
  <1> QED
    BY <1>2, <1>3, <1>4 DEF Apart

LEMMA UnlinkKeeps == \A d \in Daemons : IInv /\ Unlink(d) => IInv'
  <1> SUFFICES ASSUME NEW d \in Daemons, IInv, Unlink(d) PROVE IInv'
    OBVIOUS
  <1>0. Typed /\ proc[d] \in Procs /\ Good(proc[d]) /\ Apart
    BY TypedIs DEF IInv, Typed
  <1>1. PICK p : p = [proc[d] EXCEPT !.pc = "listen"]
    OBVIOUS
  <1>2. /\ proc[d].pc = "unlink" /\ Puts(d, Nothing, p) /\ UNCHANGED <<aside, stops, files>>
        /\ raced' = (raced \/ (proc[d].changed /\ Precious(path))) /\ raced' \in BOOLEAN /\ (raced => raced')
    BY <1>0, <1>1 DEF Unlink, Acts, Typed, Procs
  <1>3. /\ p \in Procs /\ p.pc = "listen" /\ p.moved = proc[d].moved /\ p.foreign = proc[d].foreign
    BY <1>0, <1>1 DEF Procs, Starting
  <1>4. Good(p)'
    BY <1>0, <1>2, <1>3 DEF Good, View, Memory, Reachable, Unstuck, Starting, Serving
  <1>5. ~raced' => path.kind # "operator" /\ ~Live(path)
    BY <1>0, <1>2 DEF Good, View, Precious
  <1>6. OperatorFileKept'
    BY <1>2, <1>5 DEF IInv, OperatorFileKept
  <1>7. Sockets'
    BY <1>0, <1>2, <1>3, SocketsKeep DEF Typed, Listens, Serving
  <1>8. Apart'
    BY <1>0, <1>2, <1>3, ApartKeeps DEF Apart
  <1>9. ASSUME ~raced', files = 0, NEW e \in Daemons, proc[e].pc \in {"own", "up", "detach", "rename"}
        PROVE  FALSE
    <2>1. path = Socket(proc[e].socket)
      BY <1>2, <1>9 DEF IInv, Good, Reachable
    <2>2. Listening(e) /\ path = SocketOf(e)
      BY <1>9, <2>1 DEF Listening, Serving, Socket, SocketOf
    <2> QED
      BY <1>5, <1>9, <2>2 DEF Live
  <1> QED
    BY <1>0, <1>2, <1>3, <1>4, <1>6, <1>7, <1>8, <1>9, PutsKeep DEF Typed

LEMMA ListenKeeps == \A d \in Daemons : IInv /\ Listen(d) => IInv'
  <1> SUFFICES ASSUME NEW d \in Daemons, IInv, Listen(d) PROVE IInv'
    OBVIOUS
  <1>0. Typed /\ proc[d] \in Procs /\ Good(proc[d]) /\ Apart
    BY TypedIs DEF IInv, Typed
  <1>1. CASE path # Nothing
    BY <1>0, <1>1, ExitsKeep DEF Listen, Typed
  <1>2. CASE path = Nothing
    <2>1. PICK i \in NewInodes :
             Puts(d, [kind |-> "socket", ino |-> i],
                  [proc[d] EXCEPT !.pc = "own", !.socket = i, !.changed = FALSE])
      BY <1>2 DEF Listen
    <2>2. PICK p : p = [proc[d] EXCEPT !.pc = "own", !.socket = i, !.changed = FALSE]
      OBVIOUS
    <2>3. /\ proc[d].pc = "listen" /\ Puts(d, Socket(i), p) /\ UNCHANGED <<aside, stops, files, raced>>
      BY <2>1, <2>2 DEF Listen, Socket
    <2>4. i \in Inodes /\ Socket(i) \in Objects /\ Socket(i) # Nothing /\ Socket(i).ino = i
      BY Numbers, Kinds DEF Socket, Objects
    <2>5. /\ p \in Procs /\ p.pc = "own" /\ p.socket = i /\ p.moved = proc[d].moved
          /\ p.foreign = proc[d].foreign
      BY <1>0, <2>2, <2>4 DEF Procs, Serving
    <2>6. path' = Socket(i)
      BY <2>3 DEF Puts
    <2>7. Good(p)'
      BY <1>0, <2>3, <2>5, <2>6 DEF Good, View, Memory, Reachable, Unstuck, Starting, Serving
    <2>8. OperatorFileKept'
      BY <1>2, <2>3, Kinds DEF IInv, OperatorFileKept
    <2>9. Sockets'
      BY <1>0, <2>3, <2>4, <2>5, SocketsKeep DEF Typed
    <2>10. Apart'
      <3>1. Socket(i) \notin aside
        BY <2>4, Numbers
      <3> QED
        BY <1>0, <2>3, <2>5, <3>1, ApartKeeps DEF Apart
    <2>11. ASSUME ~raced', files = 0, NEW e \in Daemons,
                  proc[e].pc \in {"own", "up", "detach", "rename"}
           PROVE  FALSE
      BY <1>2, <2>3, <2>11 DEF IInv, Good, Reachable, Socket, Nothing
    <2> QED
      BY <1>0, <2>3, <2>4, <2>5, <2>7, <2>8, <2>9, <2>10, <2>11, PutsKeep DEF Typed
  <1> QED
    BY <1>1, <1>2

LEMMA RenameKeeps == \A d \in Daemons : IInv /\ Rename(d) => IInv'
  <1> SUFFICES ASSUME NEW d \in Daemons, IInv, Rename(d) PROVE IInv'
    OBVIOUS
  <1>0. Typed /\ proc[d] \in Procs /\ Good(proc[d]) /\ Apart
    BY TypedIs DEF IInv, Typed
  <1>1. /\ proc[d].pc = "rename" /\ UNCHANGED <<stops, files>>
        /\ raced' = (raced \/ (proc[d].changed /\ Precious(path))) /\ raced' \in BOOLEAN /\ (raced => raced')
    BY <1>0 DEF Rename, Acts, Typed, Procs
  <1>2. /\ ~proc[d].changed => path # Nothing /\ (proc[d].foreign \/ path.ino = proc[d].own)
        /\ ~raced' => ~proc[d].changed \/ path.kind # "operator"
    BY <1>0, <1>1 DEF Good, View, Precious
  <1>3. CASE path = Nothing
    BY <1>1, <1>2, <1>3, FailsKeep DEF Rename
  <1>4. CASE path # Nothing
    <2>1. PICK p : p = [proc[d] EXCEPT !.pc = "park", !.moved = path, !.changed = FALSE]
      OBVIOUS
    <2>2. Puts(d, Nothing, p) /\ aside' = aside \cup {path}
      BY <1>4, <2>1 DEF Rename
    <2>3. /\ p \in Procs /\ p.pc = "park" /\ p.moved = path /\ p.socket = proc[d].socket
          /\ p.foreign = proc[d].foreign
      BY <1>0, <2>1 DEF Procs, Closing, Typed
    <2>4. path' = Nothing
      BY <2>2 DEF Puts
    <2>5. ~raced' /\ ~p.foreign => p.moved.kind # "operator"
      <3>1. ~raced' => proc[d].own = proc[d].socket
        BY <1>0, <1>1 DEF Good, Memory
      <3>2. OwnNumber(d) /\ Listening(d)
        BY <1>1 DEF IInv, Sockets, Listening
      <3>3. path.ino = proc[d].socket => path = SocketOf(d)
        BY <1>4, <3>2 DEF OwnNumber
      <3>4. SocketOf(d).kind = "socket"
        BY DEF SocketOf
      <3> QED
        BY <1>2, <2>3, <3>1, <3>3, <3>4
    <2>6. Good(p)'
      BY <2>3, <2>4, <2>5 DEF Good, View, Memory, Reachable, Unstuck, Starting, Serving
    <2>7. OperatorFileKept'
      BY <1>1, <2>2 DEF IInv, OperatorFileKept
    <2>8. aside' \in SUBSET Objects
      BY <1>0, <1>4, <2>2 DEF Typed
    <2>9. Sockets'
      BY <1>1, <2>2, <2>3, <2>8, SocketsKeep DEF Listens
    <2>10. Apart'
      <3>1. p.moved \in aside' /\ p.moved \notin aside /\ Nothing \notin aside'
        BY <1>0, <1>4, <2>2, <2>3 DEF Apart
      <3>2. \A e \in Daemons : e # d /\ Holds(e) => proc[e].moved \in aside'
        BY <1>0, <2>2 DEF Apart
      <3> QED
        BY <2>2, <2>3, <3>1, <3>2, ApartKeeps
    <2>11. ASSUME ~raced', files = 0, NEW e \in Daemons, e # d,
                  proc[e].pc \in {"own", "up", "detach", "rename"}
           PROVE  FALSE
      <3>1. \A f \in {d, e} : path = Socket(proc[f].socket) /\ Listening(f)
        BY <1>1, <2>11 DEF IInv, Good, Reachable, Listening, Serving
      <3>2. proc[d].socket = proc[e].socket
        BY <3>1 DEF Socket
      <3> QED
        BY <2>11, <3>1, <3>2 DEF IInv, Sockets
    <2> QED
      BY <1>1, <2>2, <2>3, <2>6, <2>7, <2>8, <2>9, <2>10, <2>11, PutsKeep
  <1> QED
    BY <1>3, <1>4

LEMMA ParkKeeps == \A d \in Daemons : IInv /\ Park(d) => IInv'
  <1> SUFFICES ASSUME NEW d \in Daemons, IInv, Park(d) PROVE IInv'
    OBVIOUS
  <1>0. Typed /\ proc[d] \in Procs /\ Good(proc[d]) /\ Apart
    BY TypedIs DEF IInv, Typed
  <1>1. proc[d].pc = "park" /\ UNCHANGED <<aside, stops, files>> /\ (~proc[d].changed => path = Nothing)
    BY <1>0 DEF Park, Good, View
  <1>2. CASE path # Nothing
    <2>1. Fails(d) /\ path' = path /\ raced' = raced /\ proc[d].changed
      BY <1>1, <1>2 DEF Park
    <2> QED
      BY <1>0, <1>1, <2>1, FailsKeep DEF Typed
  <1>3. CASE path = Nothing
    <2>1. PICK i \in NewInodes :
             Puts(d, [kind |-> "file", ino |-> i],
                  [proc[d] EXCEPT !.pc = "close", !.placeholder = i, !.changed = FALSE])
      BY <1>3 DEF Park
    <2>2. PICK p : p = [proc[d] EXCEPT !.pc = "close", !.placeholder = i, !.changed = FALSE]
      OBVIOUS
    <2>3. PICK o : o = [kind |-> "file", ino |-> i]
      OBVIOUS
    <2>4. Puts(d, o, p) /\ raced' = raced /\ path' = o
      BY <1>0, <1>3, <2>1, <2>2, <2>3 DEF Park, Puts, Typed
    <2>5. i \in Inodes /\ o \in Objects /\ o # Nothing /\ o.ino = i /\ o.kind = "file"
      BY <2>3, Numbers, Kinds
    <2>6. /\ p \in Procs /\ p.pc = "close" /\ p.socket = proc[d].socket /\ p.moved = proc[d].moved
          /\ p.foreign = proc[d].foreign
      BY <1>0, <2>2, <2>5 DEF Procs, Closing
    <2>7. Good(p)'
      BY <1>0, <1>1, <2>4, <2>5, <2>6 DEF Good, View, Memory, Reachable, Unstuck, Starting, Serving
    <2>8. OperatorFileKept'
      BY <1>1, <1>3, <2>4, Kinds DEF IInv, OperatorFileKept
    <2>9. Sockets'
      BY <1>0, <1>1, <2>4, <2>5, <2>6, SocketsKeep DEF Typed, Listens
    <2>10. Apart'
      <3>1. o \notin aside
        BY <2>5, Numbers
      <3> QED
        BY <1>0, <1>1, <2>4, <2>5, <2>6, <3>1, ApartKeeps DEF Apart, Holds
    <2>11. ASSUME ~raced', files = 0, NEW e \in Daemons,
                  proc[e].pc \in {"own", "up", "detach", "rename"}
           PROVE  FALSE
      BY <1>3, <2>4, <2>11 DEF IInv, Good, Reachable, Socket, Nothing
    <2> QED
      BY <1>0, <1>1, <2>4, <2>5, <2>6, <2>7, <2>8, <2>9, <2>10, <2>11, PutsKeep DEF Typed
  <1> QED
    BY <1>2, <1>3

LEMMA CloseKeeps == \A d \in Daemons : IInv /\ Close(d) => IInv'
  <1> SUFFICES ASSUME NEW d \in Daemons, IInv, Close(d) PROVE IInv'
    OBVIOUS
  <1>0. Typed /\ proc[d] \in Procs /\ Good(proc[d]) /\ Apart
    BY TypedIs DEF IInv, Typed
  <1>1. PICK n \in {"restore", "clean"} : n = IF proc[d].foreign THEN "restore" ELSE "clean"
    OBVIOUS
  <1>2. PICK p : p = [proc[d] EXCEPT !.pc = n, !.socket = NoInode, !.own = NoInode, !.changed = FALSE]
    OBVIOUS
  <1>3. /\ proc[d].pc = "close" /\ UNCHANGED <<stops, files>> /\ Puts(d, Nothing, p)
        /\ aside' = IF proc[d].foreign THEN aside ELSE aside \ {proc[d].moved}
        /\ raced' = (raced \/ (proc[d].changed /\ Precious(path))) /\ raced' \in BOOLEAN /\ (raced => raced')
    BY <1>0, <1>1, <1>2 DEF Close, Acts, Typed, Procs
  <1>4. /\ p \in Procs /\ p.pc = n /\ p.moved = proc[d].moved /\ p.foreign = proc[d].foreign
    BY <1>0, <1>2 DEF Procs, Closing
  <1>5. path' = Nothing
    BY <1>3 DEF Puts
  <1>6. Good(p)'
    BY <1>1, <1>4, <1>5 DEF Good, View, Memory, Reachable, Unstuck, Starting, Serving
  <1>7. ~raced' => \/ path.kind = "file" \/ path = Socket(proc[d].socket)
                   \/ path.kind # "operator" /\ ~Live(path)
    BY <1>0, <1>3 DEF Good, View, Precious
  <1>8. OperatorFileKept'
    <2>1. ~raced' => path.kind # "operator"
      BY <1>7 DEF Socket
    <2>2. ~raced' /\ ~proc[d].foreign => proc[d].moved.kind # "operator"
      BY <1>0, <1>3 DEF Good, Memory
    <2> QED
      BY <1>3, <2>1, <2>2 DEF IInv, OperatorFileKept
  <1>9. aside' \subseteq aside /\ aside' \in SUBSET Objects
    BY <1>0, <1>3 DEF Typed
  <1>10. Sockets'
    BY <1>1, <1>3, <1>4, <1>9, SocketsKeep DEF Listens, Serving
  <1>11. Apart'
    <2>1. Nothing \notin aside'
      BY <1>0, <1>9 DEF Apart
    <2>2. p.pc = "restore" /\ p.moved # Nothing => p.moved \in aside' /\ Holds(d)
      BY <1>0, <1>1, <1>3, <1>4 DEF Apart, Holds
    <2>3. ASSUME NEW e \in Daemons, e # d, Holds(e) PROVE proc[e].moved \in aside'
      <3>1. proc[e].moved \in aside
        BY <1>0, <2>3 DEF Apart
      <3>2. proc[d].moved = proc[e].moved => Holds(d)
        BY <1>3, <2>3 DEF Holds
      <3>3. proc[d].moved # proc[e].moved
        BY <1>0, <2>3, <3>2 DEF Apart
      <3> QED
        BY <1>3, <3>1, <3>3
    <2> QED
      BY <1>1, <1>3, <1>4, <2>1, <2>2, <2>3, ApartKeeps
  <1>12. ASSUME ~raced', files = 0, NEW e \in Daemons, e # d,
                proc[e].pc \in {"own", "up", "detach", "rename"}
         PROVE  FALSE
    <2>1. path = Socket(proc[e].socket) /\ Listening(e) /\ Listening(d)
      BY <1>3, <1>12 DEF IInv, Good, Reachable, Listening, Serving
    <2>2. proc[d].socket = proc[e].socket
      BY <1>7, <1>12, <2>1 DEF Socket, SocketOf, Live
    <2> QED
      BY <1>12, <2>1, <2>2 DEF IInv, Sockets
  <1> QED
    BY <1>3, <1>4, <1>6, <1>8, <1>9, <1>10, <1>11, <1>12, PutsKeep

LEMMA RestoreKeeps == \A d \in Daemons : IInv /\ Restore(d) => IInv'
  <1> SUFFICES ASSUME NEW d \in Daemons, IInv, Restore(d) PROVE IInv'
    OBVIOUS
  <1>0. Typed /\ proc[d] \in Procs /\ Good(proc[d]) /\ Apart
    BY TypedIs DEF IInv, Typed
  <1>1. PICK p \in Procs : p = Off
    BY OffTyped
  <1>2. PICK o : o = proc[d].moved
    OBVIOUS
  <1>3. /\ proc[d].pc = "restore" /\ UNCHANGED <<stops, files>> /\ Puts(d, o, p)
        /\ aside' = aside \ {o}
        /\ raced' = (raced \/ (proc[d].changed /\ Precious(path))) /\ raced' \in BOOLEAN /\ (raced => raced')
    BY <1>0, <1>1, <1>2 DEF Restore, Acts, Typed, Procs
  <1>4. p.pc = "off" /\ p.moved = Nothing /\ ~p.foreign /\ path' = o
    BY <1>1, <1>3 DEF Off, Puts
  <1>5. o \in Objects \cup {Nothing} /\ (o = Nothing \/ (Holds(d) /\ o \in aside))
    BY <1>0, <1>2, <1>3 DEF Procs, Holds, Apart
  <1>6. Good(p)'
    BY <1>4 DEF Good, View, Memory, Reachable, Unstuck, Starting, Serving
  <1>7. ~raced' => path = Nothing \/ (path.kind # "operator" /\ ~Live(path))
    BY <1>0, <1>3 DEF Good, View, Precious
  <1>8. OperatorFileKept'
    BY <1>3, <1>4, <1>7, Kinds DEF IInv, OperatorFileKept
  <1>9. aside' \subseteq aside /\ aside' \in SUBSET Objects
    BY <1>0, <1>3 DEF Typed
  <1>10. Sockets'
    BY <1>3, <1>4, <1>5, <1>9, SocketsKeep DEF Listens, Serving
  <1>11. Apart'
    <2>1. \A e \in Daemons : e # d /\ Holds(e) => proc[e].moved \in aside /\ proc[e].moved # o
      BY <1>0, <1>2, <1>5 DEF Apart, Holds
    <2> QED
      BY <1>0, <1>3, <1>4, <2>1, ApartKeeps DEF Apart
  <1>12. ASSUME ~raced', files = 0, NEW e \in Daemons,
                proc[e].pc \in {"own", "up", "detach", "rename"}
         PROVE  FALSE
    <2>1. path = Socket(proc[e].socket) /\ path # Nothing
      BY <1>3, <1>12 DEF IInv, Good, Reachable, Socket, Nothing
    <2>2. Listening(e) /\ path = SocketOf(e)
      BY <1>12, <2>1 DEF Listening, Serving, Socket, SocketOf
    <2> QED
      BY <1>7, <1>12, <2>1, <2>2 DEF Live
  <1> QED
    BY <1>3, <1>5, <1>6, <1>8, <1>9, <1>10, <1>11, <1>12, PutsKeep

LEMMA RemoveKeeps == \A d \in Daemons : IInv /\ Remove(d) => IInv'
  <1> SUFFICES ASSUME NEW d \in Daemons, IInv, Remove(d) PROVE IInv'
    OBVIOUS
  <1>0. Typed /\ proc[d] \in Procs /\ Good(proc[d]) /\ Apart
    BY TypedIs DEF IInv, Typed
  <1>1. PICK p \in Procs : p = Off
    BY OffTyped
  <1>2. /\ proc[d].pc = "remove" /\ UNCHANGED <<aside, stops, files>> /\ Puts(d, Nothing, p)
        /\ raced' = (raced \/ (proc[d].changed /\ Precious(path))) /\ raced' \in BOOLEAN /\ (raced => raced')
    BY <1>0, <1>1 DEF Remove, Acts, Typed, Procs
  <1>3. p.pc = "off" /\ p.moved = Nothing /\ ~p.foreign
    BY <1>1 DEF Off
  <1>4. Good(p)'
    BY <1>3 DEF Good, View, Memory, Reachable, Unstuck, Starting, Serving
  <1>5. ~raced' => path.kind = "file" \/ (path.kind # "operator" /\ ~Live(path))
    BY <1>0, <1>2 DEF Good, View, Precious
  <1>6. OperatorFileKept'
    BY <1>2, <1>5 DEF IInv, OperatorFileKept
  <1>7. Sockets'
    BY <1>0, <1>2, <1>3, SocketsKeep DEF Listens, Serving, Typed
  <1>8. Apart'
    BY <1>0, <1>2, <1>3, ApartKeeps DEF Apart
  <1>9. ASSUME ~raced', files = 0, NEW e \in Daemons,
               proc[e].pc \in {"own", "up", "detach", "rename"}
        PROVE  FALSE
    <2>1. path = Socket(proc[e].socket)
      BY <1>2, <1>9 DEF IInv, Good, Reachable
    <2>2. Listening(e) /\ path = SocketOf(e)
      BY <1>9, <2>1 DEF Listening, Serving, Socket, SocketOf
    <2> QED
      BY <1>5, <1>9, <2>1, <2>2 DEF Socket, Live
  <1> QED
    BY <1>0, <1>2, <1>4, <1>6, <1>7, <1>8, <1>9, PutsKeep DEF Typed

LEMMA WriteFileKeeps == IInv /\ WriteFile => IInv'
  <1> SUFFICES ASSUME IInv, WriteFile PROVE IInv'
    OBVIOUS
  <1>0. Typed /\ Apart /\ Sockets
    BY TypedIs DEF IInv
  <1>1. PICK i \in NewInodes : path' = [kind |-> "operator", ino |-> i]
    BY DEF WriteFile
  <1>2. UNCHANGED <<aside, stops, raced>> /\ files' = files + 1 /\ files < MaxFiles
    BY DEF WriteFile
  <1>3. files' \in 0 .. MaxFiles /\ files' # 0
    BY <1>0, <1>2, BoundsAreNat DEF Typed
  <1>4. ASSUME NEW e \in Daemons
        PROVE  /\ proc'[e] \in Procs /\ proc'[e].pc = proc[e].pc /\ proc'[e].socket = proc[e].socket
               /\ proc'[e].own = proc[e].own /\ proc'[e].moved = proc[e].moved
               /\ proc'[e].foreign = proc[e].foreign
               /\ ~proc'[e].changed => proc[e].pc = "off"
    <2>1. PICK b \in BOOLEAN : b = (proc[e].pc # "off")
      OBVIOUS
    <2>2. proc'[e] = [proc[e] EXCEPT !.changed = b] /\ proc[e] \in Procs
      BY <1>0, <2>1 DEF WriteFile, Typed
    <2> QED
      BY <2>1, <2>2 DEF Procs
  <1>5. path' \in Objects /\ path'.kind = "operator" /\ path'.ino = i /\ path' # Nothing /\ path' \notin aside
    BY <1>1, Numbers, Kinds
  <1>6. proc' = [e \in Daemons |-> proc'[e]]
    BY DEF WriteFile
  <1>7. TypeOK'
    <2>1. proc' \in [Daemons -> Procs]
      BY <1>4, <1>6
    <2> QED
      BY <1>0, <1>2, <1>3, <1>5, <2>1 DEF Typed, TypeOK, Procs
  <1>8. Sockets'
    <2>1. \A e \in Daemons : (Listening(e)' <=> Listening(e)) /\ SocketOf(e)' = SocketOf(e)
      BY <1>4 DEF Listening, SocketOf
    <2> QED
      BY <1>0, <1>2, <1>4, <1>5, <2>1, Numbers DEF Sockets, OwnNumber
  <1>9. Apart'
    BY <1>0, <1>2, <1>4, <1>5 DEF Apart, Holds
  <1>10. OperatorFileKept'
    BY <1>5 DEF OperatorFileKept
  <1>11. ASSUME NEW e \in Daemons PROVE Good(proc[e])'
    <2>1. Good(proc[e])
      BY DEF IInv
    <2> QED
      BY <1>2, <1>3, <1>4, <2>1 DEF Good, View, Memory, Reachable, Unstuck
  <1> QED
    BY <1>7, <1>8, <1>9, <1>10, <1>11 DEF IInv

-----------------------------------------------------------------------------

LEMMA InitIInv == Init => IInv
  <1> SUFFICES ASSUME Init PROVE IInv
    OBVIOUS
  <1>1. TypeOK
    <2>1. Typed
      <3>1. proc \in [Daemons -> Procs]
        BY OffTyped DEF Init
      <3>2. 0 \in 0 .. MaxStops /\ 0 \in 0 .. MaxFiles
        BY BoundsAreNat
      <3> QED
        BY <3>1, <3>2 DEF Init, Typed
    <2> QED
      BY <2>1, TypedIs
  <1>2. \A d \in Daemons : proc[d] = Off
    BY DEF Init
  <1>3. Off.pc = "off" /\ Off.moved = Nothing /\ ~Off.foreign
    BY DEF Off
  <1>4. \A d \in Daemons : Good(proc[d])
    BY <1>2, <1>3 DEF Good, View, Memory, Reachable, Unstuck, Starting, Serving
  <1>5. Sockets /\ Apart /\ OperatorFileKept
    BY <1>2, <1>3 DEF Init, Sockets, OwnNumber, Apart, Holds, Listening, Serving, OperatorFileKept
  <1> QED
    BY <1>1, <1>4, <1>5 DEF IInv

LEMMA IInvariant == Spec => []IInv
  <1>1. ASSUME IInv, Next PROVE IInv'
    BY <1>1, LooksKeep, UnlinkKeeps, ListenKeeps, OwnKeeps, DetachKeeps, RenameKeeps, ParkKeeps,
       CloseKeeps, RestoreKeeps, CleanKeeps, RemoveKeeps, SpawnKeeps, StopKeeps, CrashKeeps,
       WriteFileKeeps
       DEF Next, Starts, Closes
  <1>2. ASSUME IInv, UNCHANGED vars PROVE IInv'
    BY <1>2 DEF vars, IInv, TypeOK, Sockets, OwnNumber, Apart, Holds, Listening, SocketOf, Live,
                OperatorFileKept, Good, View, Memory, Reachable, Unstuck
  <1> QED
    BY InitIInv, <1>1, <1>2, PTL DEF Spec

\* unlinkStaleSocket looks again before it unlinks, and closeListener removes
\* only what it owns: a serving daemon keeps its endpoint, and the operator his
\* file, unless a step raced; and the state stays in its type.
THEOREM PathIsKept == Spec => []PathKept
  <1>1. IInv => EndpointKept
    BY DEF IInv, Good, Reachable, EndpointKept, Serving, Socket, SocketOf
  <1>2. IInv => PathKept
    BY <1>1 DEF IInv, PathKept
  <1> QED
    BY <1>2, IInvariant, PTL

\* The rename and the placeholder of closeListener fail only over a path that
\* another process has changed: else a retiring daemon closes and exits.
THEOREM RetirementsAlwaysExit == Spec => []RetirementsExit
  <1>1. IInv => RetirementsExit
    BY DEF IInv, Good, Unstuck, RetirementsExit
  <1> QED
    BY <1>1, IInvariant, PTL
=============================================================================
