---------------------------- MODULE DaemonSocket ----------------------------
(***************************************************************************)
(* Who owns the daemon's well-known socket path: src/daemon.ts, start(),   *)
(* unlinkStaleSocket and closeListener, in several daemon processes that   *)
(* start, stop and die over one path of the file system.  Every lstat,     *)
(* connect, rename, exclusive create and unlink is a step of its own, and  *)
(* the steps of all processes interleave.  An object of the file system is *)
(* known to the code by its inode number and its node type, and the number *)
(* of an object that is gone may be given to the next one: then nothing    *)
(* but its size tells a file of the operator from a daemon's placeholder.  *)
(***************************************************************************)
EXTENDS Integers, FiniteSets

CONSTANTS
    Daemons,    \* process slots: a process that exits may be spawned again
    Inodes,     \* inode numbers
    MaxStops,   \* bound on shutdowns, retirements and crashes
    MaxFiles    \* bound on files the operator puts at the path

ASSUME DaemonSocketAssumption ==
    /\ MaxStops \in Nat
    /\ MaxFiles \in Nat
    /\ IsFiniteSet(Inodes)
    /\ Inodes \subseteq Nat \ {0}
    /\ Cardinality(Inodes) > 4 * Cardinality(Daemons) + MaxStops + 1

VARIABLES
    path,    \* the object at the socket path, or Nothing
    aside,   \* the objects renamed away (to .closing- and .foreign- names)
    proc,    \* proc[d]: the process in slot d
    stops,   \* shutdowns, retirements and crashes so far
    files,   \* files the operator has put at the path so far
    raced    \* ghost: TRUE once a step took or removed the wrong object, which
             \* another process had put there after the step's process looked

vars == <<path, aside, proc, stops, files, raced>>

Nothing == [kind |-> "nothing"]

\* A "file" is empty, as the daemon's placeholder is; one of the operator's has
\* content.
Objects == [kind : {"socket", "file", "operator"}, ino : Inodes]
NoInode == 0

\* pc is the next step; seen, what lstat last showed; socket, the inode of its
\* own socket; own, ownedSocketIdentity; placeholder, ownedPlaceholderIdentity;
\* moved, what closeListener renamed away, to be put back if it is foreign;
\* changed, whether another process has changed the path since it last looked.
Starting == {"observe", "probe", "connect", "recheck", "unlink", "listen"}
Serving  == {"own", "up"}
Closing  == {"detach", "rename", "park", "close", "restore", "clean", "verify", "remove"}
Off == [pc |-> "off", seen |-> Nothing, socket |-> NoInode, own |-> NoInode,
        placeholder |-> NoInode, moved |-> Nothing, foreign |-> FALSE, retiring |-> FALSE, changed |-> FALSE]

TypeOK ==
    /\ path \in Objects \cup {Nothing}
    /\ aside \in SUBSET Objects
    /\ proc \in [Daemons ->
          [pc : {"off", "stuck"} \cup Starting \cup Serving \cup Closing,
           seen : Objects \cup {Nothing}, socket : Inodes \cup {NoInode},
           own : Inodes \cup {NoInode}, placeholder : Inodes \cup {NoInode},
           moved : Objects \cup {Nothing}, foreign : BOOLEAN, retiring : BOOLEAN, changed : BOOLEAN]]
    /\ stops \in 0 .. MaxStops
    /\ files \in 0 .. MaxFiles
    /\ raced \in BOOLEAN

Init ==
    /\ path = Nothing
    /\ aside = {}
    /\ proc = [d \in Daemons |-> Off]
    /\ stops = 0
    /\ files = 0
    /\ raced = FALSE

\* A socket is listened on until its process closes it or dies.
Listening(d) == proc[d].pc \in Serving \cup {"detach", "rename", "park", "close", "stuck"}
SocketOf(d) == [kind |-> "socket", ino |-> proc[d].socket]
Live(o) == \E d \in Daemons : Listening(d) /\ o = SocketOf(d)

\* Numbers of objects that exist: at the path, aside, or a socket still open.
InUse == {o.ino : o \in ({path} \cup aside) \ {Nothing}}
            \cup {proc[d].socket : d \in {e \in Daemons : Listening(e)}}

\* The number of a new object: one that a process remembers of an object that
\* is gone, or one that nobody knows, which of them makes no difference (there
\* always is one: an object is renamed away only after a shutdown).
Remembered == UNION {{proc[d].own, proc[d].placeholder} \cup
                       {o.ino : o \in {proc[d].seen} \ {Nothing}} : d \in Daemons}
Unknown == Inodes \ (InUse \cup Remembered)
NewInodes ==
    ((Remembered \cap Inodes) \ InUse) \cup {i \in Unknown : \A j \in Unknown : i <= j}

\* What lstat tells of an object besides its number: its type, not its size.
NodeType(o) == IF o.kind = "operator" THEN "file" ELSE o.kind

\* sameIdentity: number and node type; an absent object is never the same.
SameIdentity(a, b) ==
    a # Nothing /\ b # Nothing /\ a.ino = b.ino /\ NodeType(a) = NodeType(b)

Goes(d, pc) == proc' = [proc EXCEPT ![d].pc = pc]
Exits(d)    == proc' = [proc EXCEPT ![d] = Off]

\* d looks at the path, and acts next at pc; its view is fresh again.
Looks(d, pc) ==
    proc' = [proc EXCEPT ![d].pc = pc, ![d].seen = Nothing, ![d].changed = FALSE]

\* d puts o at the path, and becomes p: every other process's view is stale.
Puts(d, o, p) ==
    /\ path' = o
    /\ proc' = [e \in Daemons |->
                   IF e = d THEN p ELSE [proc[e] EXCEPT !.changed = proc[e].pc # "off"]]

\* What no daemon may take from the path: a live endpoint, the operator's file.
Precious(o) == Live(o) \/ o.kind = "operator"

\* d unlinks, renames or overwrites what is at the path, by its name: if that
\* is precious, and another process has put it there since d looked, d raced.
Acts(d) == raced' = (raced \/ (proc[d].changed /\ Precious(path)))

\* d looks again and compares identities: if they agree, though another process
\* has put something precious there meanwhile, d raced.
Compares(d, same) == raced' = (raced \/ (same /\ proc[d].changed /\ Precious(path)))

-----------------------------------------------------------------------------
(* Starting: unlinkStaleSocket, getContext, listen.                         *)

\* assertSafeDaemonSocket: a path that holds anything but a socket, an empty
\* leftover of a daemon included, is never used, nor is a daemon spawned for it.
Safe(o) == o.kind \in {"nothing", "socket"}

\* A proxy or an entry that may use the path and cannot connect spawns a daemon.
Spawn(d) ==
    /\ proc[d].pc = "off"
    /\ Safe(path) /\ ~Live(path)
    /\ proc' = [proc EXCEPT ![d] = [Off EXCEPT !.pc = "observe"]]
    /\ UNCHANGED <<path, aside, stops, files, raced>>

Observe(d) ==
    /\ proc[d].pc = "observe"
    /\ proc' = [proc EXCEPT ![d].pc = "probe", ![d].seen = path, ![d].changed = FALSE]
    /\ UNCHANGED <<path, aside, stops, files, raced>>

\* The probe's lstat: an empty file is a leftover, another file the operator's.
Probe(d) ==
    /\ proc[d].pc = "probe"
    /\ CASE path = Nothing         -> Looks(d, "listen")
         [] path.kind = "operator" -> Exits(d)
         [] path.kind = "file"     -> Goes(d, "recheck")
         [] path.kind = "socket"   -> Goes(d, "connect")
    /\ UNCHANGED <<path, aside, stops, files, raced>>

\* Mutant: whatever the connect ends with, somebody may be listening.
ConnectNeverStale(d) ==
    /\ proc[d].pc = "connect"
    /\ IF path = Nothing THEN Looks(d, "listen") ELSE Exits(d)
    /\ UNCHANGED <<path, aside, stops, files, raced>>

\* The probe's connect: "live" and "unknown" both refuse; whatever answers
\* with no listener, a file put there meanwhile included, is stale.
Connect(d) ==
    /\ proc[d].pc = "connect"
    /\ CASE path = Nothing -> Looks(d, "listen")
         [] Live(path)     -> Exits(d)
         [] OTHER          -> Goes(d, "recheck")
    /\ UNCHANGED <<path, aside, stops, files, raced>>

\* Mutant: no second look before the unlink.
RevalidatedNever(d) == TRUE

\* The object is still the one seen before the probe.
Revalidated(d) == SameIdentity(path, proc[d].seen)

Recheck(d) ==
    /\ proc[d].pc = "recheck"
    /\ CASE path = Nothing -> Looks(d, "listen")
         [] path # Nothing /\ Revalidated(d) -> Looks(d, "unlink")
         [] OTHER          -> Exits(d)
    /\ Compares(d, SameIdentity(path, proc[d].seen))
    /\ UNCHANGED <<path, aside, stops, files>>

Unlink(d) ==
    /\ proc[d].pc = "unlink"
    /\ Puts(d, Nothing, [proc[d] EXCEPT !.pc = "listen"])
    /\ Acts(d)
    /\ UNCHANGED <<aside, stops, files>>

\* The server context is created, then bind; an existing object is EADDRINUSE.
Listen(d) ==
    /\ proc[d].pc = "listen"
    /\ IF path # Nothing
       THEN Exits(d) /\ UNCHANGED path
       ELSE \E i \in NewInodes :
              Puts(d, [kind |-> "socket", ino |-> i],
                   [proc[d] EXCEPT !.pc = "own", !.socket = i, !.changed = FALSE])
    /\ UNCHANGED <<aside, stops, files, raced>>

\* lstat of the path is taken for the identity of the socket just bound.
Own(d) ==
    /\ proc[d].pc = "own"
    /\ IF path = Nothing
       THEN Exits(d)
       ELSE proc' = [proc EXCEPT ![d].pc = "up", ![d].own = path.ino]
    /\ raced' = (raced \/ (proc[d].changed /\ path \notin {Nothing, SocketOf(d)}))
    /\ UNCHANGED <<path, aside, stops, files>>

-----------------------------------------------------------------------------
(* Stopping: closeListener.                                                 *)

\* A signal, or the daemon's own retirement.  Before the identity is known
\* nothing is moved aside.
Stop(d) ==
    /\ proc[d].pc \in Serving
    /\ stops < MaxStops
    /\ stops' = stops + 1
    /\ \E r \in BOOLEAN :
         proc' = [proc EXCEPT ![d].retiring = r,
                              ![d].pc = IF @ = "up" THEN "detach" ELSE "close"]
    /\ UNCHANGED <<path, aside, files, raced>>

\* Mutant: a foreign object is left where it is.
DetachOwnOnly(d) ==
    /\ proc[d].pc = "detach"
    /\ proc' = [proc EXCEPT ![d].pc = IF path = Nothing \/ path.ino # proc[d].own
                                      THEN "park" ELSE "rename",
                            ![d].changed = FALSE]
    /\ UNCHANGED <<path, aside, stops, files, raced>>

\* What is at the path is renamed away, whoever it belongs to; if it is not
\* the daemon's own it is put back later.
Detach(d) ==
    /\ proc[d].pc = "detach"
    /\ proc' = [proc EXCEPT ![d].pc = IF path = Nothing THEN "park" ELSE "rename",
                            ![d].foreign = path # Nothing /\ path.ino # proc[d].own,
                            ![d].changed = FALSE]
    /\ UNCHANGED <<path, aside, stops, files, raced>>

\* A file-system call failed before the listener was closed: on a signal the
\* process exits, on a retirement the error is logged and the process stays.
Fails(d) ==
    IF proc[d].retiring THEN Goes(d, "stuck") ELSE Exits(d)

Rename(d) ==
    /\ proc[d].pc = "rename"
    /\ IF path = Nothing
       THEN Fails(d) /\ UNCHANGED <<path, aside>>
       ELSE /\ aside' = aside \cup {path}
            /\ Puts(d, Nothing,
                    [proc[d] EXCEPT !.pc = "park", !.moved = path, !.changed = FALSE])
    /\ Acts(d)
    /\ UNCHANGED <<stops, files>>

\* The placeholder is created exclusively.
Park(d) ==
    /\ proc[d].pc = "park"
    /\ IF path # Nothing
       THEN Fails(d) /\ UNCHANGED path
       ELSE \E i \in NewInodes :
              Puts(d, [kind |-> "file", ino |-> i],
                   [proc[d] EXCEPT !.pc = "close", !.placeholder = i, !.changed = FALSE])
    /\ UNCHANGED <<aside, stops, files, raced>>

\* net.Server.close unlinks the pathname the socket was bound to, whatever is
\* there; then the daemon's own socket, if it was moved aside, is unlinked.
Close(d) ==
    /\ proc[d].pc = "close"
    /\ Puts(d, Nothing,
            [proc[d] EXCEPT !.pc = IF proc[d].foreign THEN "restore" ELSE "clean",
                            !.socket = NoInode, !.own = NoInode, !.changed = FALSE])
    /\ aside' = IF proc[d].foreign THEN aside ELSE aside \ {proc[d].moved}
    /\ Acts(d)
    /\ UNCHANGED <<stops, files>>

\* rename puts the foreign object back, over whatever is there.
Restore(d) ==
    /\ proc[d].pc = "restore"
    /\ Puts(d, proc[d].moved, Off)
    /\ aside' = aside \ {proc[d].moved}
    /\ Acts(d)
    /\ UNCHANGED <<stops, files>>

\* The object at the path has the identity of the placeholder d created.
OwnPlaceholder(d) ==
    SameIdentity(path, [kind |-> "file", ino |-> proc[d].placeholder])

\* Only an empty file with that identity may be removed...
Clean(d) ==
    /\ proc[d].pc = "clean"
    /\ IF path.kind = "file" /\ OwnPlaceholder(d)
       THEN proc' = [proc EXCEPT ![d].pc = "verify", ![d].changed = FALSE]
       ELSE Exits(d)
    /\ UNCHANGED <<path, aside, stops, files, raced>>

\* ... and only if a last look, at the identity alone, shows it again.
Verify(d) ==
    /\ proc[d].pc = "verify"
    /\ IF OwnPlaceholder(d) THEN Looks(d, "remove") ELSE Exits(d)
    /\ Compares(d, OwnPlaceholder(d))
    /\ UNCHANGED <<path, aside, stops, files>>

Remove(d) ==
    /\ proc[d].pc = "remove"
    /\ Puts(d, Nothing, Off)
    /\ Acts(d)
    /\ UNCHANGED <<aside, stops, files>>

-----------------------------------------------------------------------------
(* The environment.                                                         *)

\* The process dies: its socket is no longer listened on, the path stays.
Crash(d) ==
    /\ proc[d].pc # "off"
    /\ stops < MaxStops
    /\ stops' = stops + 1
    /\ Exits(d)
    /\ UNCHANGED <<path, aside, files, raced>>

\* The operator replaces what is at the path by a file with content.
WriteFile ==
    /\ files < MaxFiles
    /\ files' = files + 1
    /\ \E i \in NewInodes : path' = [kind |-> "operator", ino |-> i]
    /\ proc' = [d \in Daemons |-> [proc[d] EXCEPT !.changed = proc[d].pc # "off"]]
    /\ UNCHANGED <<aside, stops, raced>>

Starts(d) == Observe(d) \/ Probe(d) \/ Connect(d) \/ Recheck(d) \/ Unlink(d) \/ Listen(d) \/ Own(d)
Closes(d) ==
    \/ Detach(d) \/ Rename(d) \/ Park(d) \/ Close(d) \/ Restore(d)
    \/ Clean(d) \/ Verify(d) \/ Remove(d)

Next ==
    \/ \E d \in Daemons : Starts(d) \/ Closes(d) \/ Spawn(d) \/ Stop(d) \/ Crash(d)
    \/ WriteFile

Spec == Init /\ [][Next]_vars

\* A process goes on with what it started, and proxies that find nobody
\* listening go on spawning daemons.
Fairness ==
    /\ \A d \in Daemons : WF_vars(Starts(d) \/ Closes(d))
    /\ WF_vars(\E d \in Daemons : Spawn(d))

FairSpec == Spec /\ Fairness

-----------------------------------------------------------------------------
(* Properties.                                                              *)

\* "The live owner's socket must survive" (tests/daemon-deadlock-529.test.ts):
\* unless a step hit the wrong object, put at the path under its hands, and as
\* long as the operator put no file there, a serving daemon is reachable at the
\* path, so that two daemons never serve at once.
EndpointKept ==
    ~raced /\ files = 0 => \A d \in Daemons : proc[d].pc \in Serving => path = SocketOf(d)

\* "Occupied: not a daemon artifact. NEVER deleted": a file of the operator is
\* at the path or renamed away, whatever daemons start and stop around it, unless
\* it came there after a step's last look at the path, or before that look with
\* the inode number of what the step's process had found there.
OperatorFileKept ==
    files = 1 /\ ~raced => \E o \in aside \cup {path} : o.kind = "operator"

\* What is at the path, or was, is kept for whom it belongs to.
PathKept == TypeOK /\ EndpointKept /\ OperatorFileKept

\* A retiring daemon closes its listener and exits, whatever it finds at the
\* path: it fails only where another process changed the path after it looked.
RetirementsExit == \A d \in Daemons : proc[d].pc = "stuck" => proc[d].changed

\* #529: what a shutdown or a crash leaves at the path does not keep successors
\* out: a daemon is reachable again and again, unless the operator's file is in
\* the way, a retirement has failed and left its process listening, or a
\* process died between creating its placeholder and closing its listener: the
\* file it leaves would be reaped by a daemon, but nobody spawns one over it.
Recovers ==
    []<>(\/ \E d \in Daemons : proc[d].pc \in Serving /\ path = SocketOf(d)
         \/ \E d \in Daemons : proc[d].pc = "stuck"
         \/ files > 0
         \/ path.kind = "file" /\ \A d \in Daemons : proc[d].pc \notin Starting \cup Closing)
=============================================================================
