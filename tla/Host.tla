-------------------------------- MODULE Host --------------------------------
(***************************************************************************)
(* The host (host.rs, with the clone of serve.rs and the rooms of          *)
(* backend/): a table of environments in memory, the same list in          *)
(* host.json, and a container per environment.  Each connection asks for   *)
(* one thing at a time, but nothing holds a lock across a request: every   *)
(* await of create, stop, destroy and save is a place where another        *)
(* connection, or the end of the process, may come in between.             *)
(*                                                                         *)
(* A container is external (docker); a session is seen here only as "this  *)
(* environment has keepers running", and Keeper models one of them.        *)
(***************************************************************************)
EXTENDS Naturals, FiniteSets

CONSTANTS
    Callers,      \* the connections that ask this host for things
    Opener,       \* Host::open, which saves too
    Envs,         \* environment ids, each minted once
    NoEnv,
    Names,        \* what people call environments
    NoName,
    Kinds,        \* the backends this run considers
    MaxRequests,  \* bound: requests asked of one environment list
    MaxFaults     \* bound: crashes, failed saves, docker and git failures

ASSUME Identities ==
    /\ Opener \notin Callers
    /\ NoEnv \notin Envs
    /\ NoName \notin Names

ASSUME Backends == Kinds \subseteq {"local", "docker"}
ASSUME Bounds == MaxRequests \in Nat /\ MaxFaults \in Nat

VARIABLES
    daemon,     \* "down", "opening" or "up"
    kind,       \* Backend::kind
    id,         \* Host.id; 0 while the process is down
    minted,     \* how many host ids were ever drawn
    table,      \* Host.environments
    name,       \* EnvSpec.name, NoName for an id not drawn yet
    state,      \* what host.json holds
    scratch,    \* what host.json.new holds
    at,         \* where each saver is in its request
    op,         \* which request it is
    env,        \* the environment it is about
    taken,      \* the State that save serialised
    handle,     \* which file the saver's open descriptor leads to
    container,  \* the environment's container, as docker has it
    kept,       \* environments with keepers running and not told to end
    home,       \* the host id those keepers' sockets are filed under
    answered,   \* history: creations answered, no destruction ever asked
    doomed,     \* history: environments whose destruction was asked
    gone,       \* history: destructions answered
    stranded,   \* history: creations cut short by a failure or a crash
    late,       \* history: kept, with sessions begun past a destruction's close
    left,       \* history: containers a destruction passed by
    beside,     \* history: the creations under way when this one was asked
    crossed,    \* history: two saves were once under way at a time
    requests, faults

disk == <<state, scratch>>
savers == <<at, op, env, taken, handle>>
rooms == <<container, kept, home>>
promises == <<answered, doomed, gone>>
strays == <<stranded, late, left>>
races == <<beside, crossed>>
history == <<promises, strays, races>>
vars == <<daemon, kind, id, minted, table, name, disk, savers, rooms, history,
          requests, faults>>

Savers == Callers \cup {Opener}

\* A file is absent, just truncated, the overlay of two writers, or one
\* whole State.
Unwritten(is) == [is |-> is, id |-> 0, list |-> {}]
Whole(written) == [is |-> "whole", id |-> written.id, list |-> written.list]
Blank == [id |-> 0, list |-> {}]

Init ==
    /\ daemon = "down" /\ id = 0 /\ minted = 0
    /\ kind \in Kinds
    /\ table = {}
    /\ name = [e \in Envs |-> NoName]
    /\ state = Unwritten("absent") /\ scratch = Unwritten("absent")
    /\ at = [s \in Savers |-> "idle"]
    /\ op = [s \in Savers |-> "none"]
    /\ env = [s \in Savers |-> NoEnv]
    /\ taken = [s \in Savers |-> Blank]
    /\ handle = [s \in Savers |-> "none"]
    /\ container = [e \in Envs |-> "none"]
    /\ kept = {} /\ home = [e \in Envs |-> 0]
    /\ answered = {} /\ doomed = {} /\ gone = {}
    /\ stranded = {} /\ late = {} /\ left = {}
    /\ beside = [e \in Envs |-> {}] /\ crossed = FALSE
    /\ requests = 0 /\ faults = 0

-----------------------------------------------------------------------------
Goto(s, where) == at' = [at EXCEPT ![s] = where]

\* The request is over: the saver keeps nothing of it.
Rest(s) ==
    /\ Goto(s, "idle")
    /\ op' = [op EXCEPT ![s] = "none"]
    /\ env' = [env EXCEPT ![s] = NoEnv]
    /\ taken' = [taken EXCEPT ![s] = Blank]
    /\ handle' = [handle EXCEPT ![s] = "none"]

Fault ==
    /\ faults < MaxFaults
    /\ faults' = faults + 1

Request ==
    /\ daemon = "up"
    /\ requests < MaxRequests
    /\ requests' = requests + 1

Ask(c, what, e, where) ==
    /\ at[c] = "idle"
    /\ Goto(c, where)
    /\ op' = [op EXCEPT ![c] = what]
    /\ env' = [env EXCEPT ![c] = e]
    /\ UNCHANGED <<taken, handle>>

\* A name is taken, or this is the local backend and it holds its one room.
Refused(n) ==
    \/ \E e \in table : name[e] = n
    \/ kind = "local" /\ table # {}

\* The environments being made, checked and not yet in the table.
Coming == {env[c] : c \in {c \in Callers : op[c] = "new"
                                        /\ at[c] \in {"make", "start", "insert"}}}

\* Fault: the name is not checked.
AskNewUnchecked(c, n, e) ==
    /\ Request
    /\ name[e] = NoName
    /\ name' = [name EXCEPT ![e] = n]
    /\ beside' = [beside EXCEPT ![e] = Coming]
    /\ Ask(c, "new", e, "make")
    /\ UNCHANGED <<daemon, kind, id, minted, table, disk, rooms, promises, strays,
                   crossed, faults>>

\* create: checked against the table, then an id is drawn.  What another
\* connection is still making is not in the table.  A refusal changes
\* nothing and is no step.
AskNew(c, n, e) ==
    /\ Request
    /\ ~ Refused(n)
    /\ name[e] = NoName
    /\ name' = [name EXCEPT ![e] = n]
    /\ beside' = [beside EXCEPT ![e] = Coming]
    /\ Ask(c, "new", e, "make")
    /\ UNCHANGED <<daemon, kind, id, minted, table, disk, rooms, promises, strays,
                   crossed, faults>>

AskStart(c, e) ==
    /\ Request
    /\ e \in table
    /\ Ask(c, "start", e, "start")
    /\ UNCHANGED <<daemon, kind, id, minted, table, name, disk, rooms, history, faults>>

AskStop(c, e) ==
    /\ Request
    /\ e \in table
    /\ Ask(c, "stop", e, "close")
    /\ UNCHANGED <<daemon, kind, id, minted, table, name, disk, rooms, history, faults>>

AskDestroy(c, e) ==
    /\ Request
    /\ e \in table
    /\ Ask(c, "rm", e, "close")
    /\ answered' = answered \ {e}
    /\ doomed' = doomed \cup {e}
    /\ UNCHANGED <<daemon, kind, id, minted, table, name, disk, rooms, gone, strays,
                   races, faults>>

\* Open: the environment is found ...
AskShell(c, e) ==
    /\ Request
    /\ e \in table
    /\ Ask(c, "open", e, "shell")
    /\ UNCHANGED <<daemon, kind, id, minted, table, name, disk, rooms, history, faults>>

\* A destruction of the environment is past these of its steps.
Leaving(e, steps) ==
    \E c \in Callers : op[c] \in {"rm", "undo"} /\ env[c] = e /\ at[c] \notin steps

\* ... and a session is started in it, whatever became of it meanwhile, its
\* socket filed under this host's id.  Docker has no shell in a container
\* that does not run.
StartShell(c) ==
    /\ at[c] = "shell"
    /\ IF kind = "docker" /\ container[env[c]] # "running"
         THEN UNCHANGED <<kept, home, late>>
         ELSE /\ kept' = kept \cup {env[c]}
              /\ home' = [home EXCEPT ![env[c]] = id]
              /\ late' = IF env[c] \notin table \/ Leaving(env[c], {"close"})
                           THEN late \cup {env[c]} ELSE late
    /\ Rest(c)
    /\ UNCHANGED <<daemon, kind, id, minted, table, name, disk, container, promises,
                   stranded, left, races, requests, faults>>

\* The last of an environment's shells exits, or somebody ends it.
SessionsEnd(e) ==
    /\ e \in kept
    /\ kept' = kept \ {e} /\ late' = late \ {e}
    /\ UNCHANGED <<daemon, kind, id, minted, table, name, disk, savers, container,
                   home, promises, stranded, left, races, requests, faults>>

-----------------------------------------------------------------------------
\* Backend::create.  The local backend has a directory and no container.
MakeRoom(c) ==
    /\ at[c] = "make"
    /\ container' = IF kind = "docker" /\ container[env[c]] = "none"
                      THEN [container EXCEPT ![env[c]] = "made"]
                      ELSE container
    /\ Goto(c, "start")
    /\ UNCHANGED <<daemon, kind, id, minted, table, name, disk, op, env, taken,
                   handle, kept, home, history, requests, faults>>

\* A start that has a container again after a destruction took it away.
Revived(c) ==
    IF op[c] = "start" /\ (env[c] \notin table \/ Leaving(env[c], {"close", "unmake"}))
      THEN {env[c]} ELSE {}

\* Backend::start, which recreates a container that has gone.
StartRoom(c) ==
    /\ at[c] = "start"
    /\ IF kind = "docker"
         THEN /\ container' = [container EXCEPT ![env[c]] = "running"]
              /\ left' = left \cup Revived(c)
         ELSE UNCHANGED <<container, left>>
    /\ IF op[c] = "new"
         THEN Goto(c, "insert") /\ UNCHANGED <<op, env, taken, handle>>
         ELSE Rest(c)
    /\ UNCHANGED <<daemon, kind, id, minted, table, name, disk, kept, home, promises,
                   stranded, late, races, requests, faults>>

\* docker create, start, stop or rm fails, and the request with it: docker
\* refuses, another request took the container away since it was looked
\* for, or one that is there was taken for absent and is created again.  A
\* container that was created and could not be started is left behind; a
\* start may have got as far as recreating one.
DockerFails(c) ==
    /\ at[c] \in {"make", "start", "unmake", "halt"}
    /\ kind = "docker"
    /\ Fault
    /\ \/ UNCHANGED <<container, left>>
       \/ /\ at[c] = "start" /\ container[env[c]] = "none"
          /\ container' = [container EXCEPT ![env[c]] = "made"]
          /\ left' = left \cup Revived(c)
    /\ stranded' = IF op[c] = "new" THEN stranded \cup {env[c]} ELSE stranded
    /\ Rest(c)
    /\ UNCHANGED <<daemon, kind, id, minted, table, name, disk, kept, home, promises,
                   late, races, requests>>

\* docker inspect fails and is read as "there is no container": a stop or a
\* removal has nothing to do, and the request goes on as if it had done it.
Unseen(c) ==
    /\ at[c] \in {"unmake", "halt"}
    /\ kind = "docker" /\ container[env[c]] # "none"
    /\ Fault
    /\ IF at[c] = "unmake"
         THEN Goto(c, "remove") /\ left' = left \cup {env[c]}
                               /\ UNCHANGED <<op, env, taken, handle>>
         ELSE Rest(c) /\ UNCHANGED left
    /\ UNCHANGED <<daemon, kind, id, minted, table, name, disk, rooms, promises,
                   stranded, late, races, requests>>

\* Fault: create does not save.
InsertUnsaved(c) ==
    /\ at[c] = "insert"
    /\ table' = table \cup {env[c]}
    /\ Goto(c, "clone")
    /\ UNCHANGED <<daemon, kind, id, minted, name, disk, op, env, taken, handle,
                   rooms, history, requests, faults>>

Insert(c) ==
    /\ at[c] = "insert"
    /\ table' = table \cup {env[c]}
    /\ Goto(c, "take")
    /\ UNCHANGED <<daemon, kind, id, minted, name, disk, op, env, taken, handle,
                   rooms, history, requests, faults>>

\* Fault: destroy and stop leave the sessions running.
CloseNothing(c) ==
    /\ at[c] = "close"
    /\ Goto(c, IF op[c] = "stop" THEN "halt" ELSE "unmake")
    /\ UNCHANGED <<daemon, kind, id, minted, table, name, disk, op, env, taken,
                   handle, rooms, history, requests, faults>>

\* Environment::close: every keeper of the environment is told to end.
CloseSessions(c) ==
    /\ at[c] = "close"
    /\ IF home[env[c]] = id
         THEN kept' = kept \ {env[c]} /\ late' = late \ {env[c]}
         ELSE UNCHANGED <<kept, late>>
    /\ Goto(c, IF op[c] = "stop" THEN "halt" ELSE "unmake")
    /\ UNCHANGED <<daemon, kind, id, minted, table, name, disk, op, env, taken,
                   handle, container, home, promises, stranded, left, races,
                   requests, faults>>

Halt(c) ==
    /\ at[c] = "halt"
    /\ container' = IF container[env[c]] = "running"
                      THEN [container EXCEPT ![env[c]] = "made"]
                      ELSE container
    /\ Rest(c)
    /\ UNCHANGED <<daemon, kind, id, minted, table, name, disk, kept, home, history,
                   requests, faults>>

\* Fault: destroy forgets the container.
UnmakeNothing(c) ==
    /\ at[c] = "unmake"
    /\ Goto(c, "remove")
    /\ UNCHANGED <<daemon, kind, id, minted, table, name, disk, op, env, taken,
                   handle, rooms, history, requests, faults>>

Unmake(c) ==
    /\ at[c] = "unmake"
    /\ container' = [container EXCEPT ![env[c]] = "none"]
    /\ left' = left \ {env[c]}
    /\ Goto(c, "remove")
    /\ UNCHANGED <<daemon, kind, id, minted, table, name, disk, op, env, taken,
                   handle, kept, home, promises, stranded, late, races, requests,
                   faults>>

\* Fault: destroy does not save.
RemoveUnsaved(c) ==
    /\ at[c] = "remove"
    /\ table' = table \ {env[c]}
    /\ Goto(c, "answer")
    /\ UNCHANGED <<daemon, kind, id, minted, name, disk, op, env, taken, handle,
                   rooms, history, requests, faults>>

RemoveEntry(c) ==
    /\ at[c] = "remove"
    /\ table' = table \ {env[c]}
    /\ Goto(c, "take")
    /\ UNCHANGED <<daemon, kind, id, minted, name, disk, op, env, taken, handle,
                   rooms, history, requests, faults>>

-----------------------------------------------------------------------------
(* save, by a caller or by the opener. *)

InSave(s) == at[s] \in {"open", "write", "rename"}

TakeList(s) ==
    /\ at[s] = "take"
    /\ taken' = [taken EXCEPT ![s] = [id |-> id, list |-> table]]
    /\ crossed' = (crossed \/ \E t \in Savers : InSave(t))
    /\ Goto(s, "open")
    /\ UNCHANGED <<daemon, kind, id, minted, table, name, disk, op, env, handle,
                   rooms, promises, strays, beside, requests, faults>>

\* Fault: the list is written over host.json itself.
OpenInPlace(s) ==
    /\ at[s] = "open"
    /\ state' = Unwritten("empty")
    /\ handle' = [handle EXCEPT ![s] = "state"]
    /\ Goto(s, "write")
    /\ UNCHANGED <<daemon, kind, id, minted, table, name, scratch, op, env, taken,
                   rooms, history, requests, faults>>

\* fs::write opens host.json.new, truncating what is there ...
OpenScratch(s) ==
    /\ at[s] = "open"
    /\ scratch' = Unwritten("empty")
    /\ handle' = [handle EXCEPT ![s] = "scratch"]
    /\ Goto(s, "write")
    /\ UNCHANGED <<daemon, kind, id, minted, table, name, state, op, env, taken,
                   rooms, history, requests, faults>>

\* What a write from offset zero leaves in a file: over nothing, itself;
\* over another's longer list, itself and the other's tail.
Written(file, written) ==
    IF file.is = "empty" THEN {Whole(written)}
                         ELSE {Whole(written), Unwritten("mixed")}

\* ... and writes through the descriptor, whatever became of the name.
WriteList(s) ==
    /\ at[s] = "write"
    /\ scratch' \in IF handle[s] = "scratch" THEN Written(scratch, taken[s]) ELSE {scratch}
    /\ state' \in IF handle[s] = "state" THEN Written(state, taken[s]) ELSE {state}
    /\ handle' = [handle EXCEPT ![s] = "none"]
    /\ Goto(s, "rename")
    /\ UNCHANGED <<daemon, kind, id, minted, table, name, op, env, taken, rooms,
                   history, requests, faults>>

\* What rename does to the descriptors that are open.
Moved(where) ==
    CASE where = "scratch" -> "state"
      [] where = "state"   -> "unlinked"
      [] OTHER             -> where

Rename(s) ==
    /\ at[s] = "rename"
    /\ scratch.is # "absent"
    /\ state' = scratch
    /\ scratch' = Unwritten("absent")
    /\ handle' = [t \in Savers |-> Moved(handle[t])]
    /\ taken' = [taken EXCEPT ![s] = Blank]
    /\ Goto(s, CASE s = Opener -> "idle" [] op[s] = "new" -> "clone" [] OTHER -> "answer")
    /\ daemon' = IF s = Opener THEN "up" ELSE daemon
    /\ UNCHANGED <<kind, id, minted, table, name, op, env, rooms, history,
                   requests, faults>>

\* The save is an error: of create or destroy, which leave the table as
\* they made it; or of open, and there is no daemon.
SaveLost(s) ==
    /\ Rest(s)
    /\ stranded' = IF op[s] = "new" THEN stranded \cup {env[s]} ELSE stranded
    /\ IF s = Opener
         THEN daemon' = "down" /\ id' = 0 /\ table' = {}
         ELSE UNCHANGED <<daemon, id, table>>
    /\ UNCHANGED <<kind, minted, name, disk, rooms, promises, late, left, races,
                   requests>>

\* The disk refuses; or, the last word of two saves at once, the other one
\* renamed the file this one wrote and there is nothing left to rename.
SaveFails(s) ==
    /\ InSave(s)
    /\ IF at[s] = "rename" /\ scratch.is = "absent" THEN UNCHANGED faults ELSE Fault
    /\ SaveLost(s)

-----------------------------------------------------------------------------
\* make: no repository was named, or it was cloned, and the client is told.
AnswerNew(c) ==
    /\ at[c] = "clone"
    /\ answered' = answered \cup ({env[c]} \ doomed)
    /\ Rest(c)
    /\ UNCHANGED <<daemon, kind, id, minted, table, name, disk, rooms, doomed, gone,
                   strays, races, requests, faults>>

\* The clone failed: the environment is destroyed as a client would have it
\* destroyed, and the client is told why.
CloneFails(c) ==
    /\ at[c] = "clone"
    /\ Fault
    /\ IF env[c] \in table
         THEN /\ Goto(c, "close")
              /\ op' = [op EXCEPT ![c] = "undo"]
              /\ UNCHANGED <<env, taken, handle>>
         ELSE Rest(c)
    /\ doomed' = doomed \cup {env[c]}
    /\ UNCHANGED <<daemon, kind, id, minted, table, name, disk, rooms, answered, gone,
                   strays, races, requests>>

\* A destruction, or the undoing of a creation, ran to its end.
AnswerDestroy(c) ==
    /\ at[c] = "answer"
    /\ gone' = gone \cup {env[c]}
    /\ Rest(c)
    /\ UNCHANGED <<daemon, kind, id, minted, table, name, disk, rooms, answered,
                   doomed, strays, races, requests, faults>>

-----------------------------------------------------------------------------
\* Fault: the table is taken to outlive the process.
CrashKeepsTable ==
    /\ daemon # "down"
    /\ Fault
    /\ daemon' = "down" /\ id' = 0
    /\ at' = [s \in Savers |-> "idle"]
    /\ op' = [s \in Savers |-> "none"]
    /\ env' = [s \in Savers |-> NoEnv]
    /\ taken' = [s \in Savers |-> Blank]
    /\ handle' = [s \in Savers |-> "none"]
    /\ stranded' = stranded \cup {env[c] : c \in {c \in Callers : op[c] = "new"}}
    /\ UNCHANGED <<kind, minted, table, name, disk, rooms, promises, late,
                   left, races, requests>>

\* The process is killed.  Files, containers and keepers are not its own.
Crash ==
    /\ daemon # "down"
    /\ Fault
    /\ daemon' = "down" /\ id' = 0 /\ table' = {}
    /\ at' = [s \in Savers |-> "idle"]
    /\ op' = [s \in Savers |-> "none"]
    /\ env' = [s \in Savers |-> NoEnv]
    /\ taken' = [s \in Savers |-> Blank]
    /\ handle' = [s \in Savers |-> "none"]
    /\ stranded' = stranded \cup {env[c] : c \in {c \in Callers : op[c] = "new"}}
    /\ UNCHANGED <<kind, minted, name, disk, rooms, promises, late, left,
                   races, requests>>

\* Fault: every start of the daemon draws a new id.
OpenAsStranger ==
    /\ daemon = "down"
    /\ daemon' = "opening"
    /\ id' = minted + 1 /\ minted' = minted + 1
    /\ table' = state.list
    /\ Goto(Opener, "take")
    /\ UNCHANGED <<kind, name, disk, op, env, taken, handle, rooms, history,
                   requests, faults>>

\* Host::open: the file's id and list, or a new id and no list when it is
\* missing or does not parse; then a save before anybody is served.
Open ==
    /\ daemon = "down"
    /\ daemon' = "opening"
    /\ IF state.is = "whole"
         THEN id' = state.id /\ minted' = minted
         ELSE id' = minted + 1 /\ minted' = minted + 1
    /\ table' = state.list
    /\ Goto(Opener, "take")
    /\ UNCHANGED <<kind, name, disk, op, env, taken, handle, rooms, history,
                   requests, faults>>

Save(s) ==
    TakeList(s) \/ OpenScratch(s) \/ WriteList(s) \/ Rename(s) \/ SaveFails(s)

Work(c) ==
    \/ MakeRoom(c) \/ StartRoom(c) \/ Insert(c) \/ AnswerNew(c) \/ CloneFails(c)
    \/ CloseSessions(c) \/ Halt(c) \/ Unmake(c) \/ RemoveEntry(c) \/ AnswerDestroy(c)
    \/ StartShell(c) \/ DockerFails(c) \/ Unseen(c)

Asks(c) ==
    \/ \E n \in Names, e \in Envs : AskNew(c, n, e)
    \/ \E e \in Envs : \/ AskStart(c, e) \/ AskStop(c, e) \/ AskDestroy(c, e)
                       \/ AskShell(c, e)

Next ==
    \/ \E s \in Savers : Save(s)
    \/ \E c \in Callers : Work(c) \/ Asks(c)
    \/ \E e \in Envs : SessionsEnd(e)
    \/ Crash
    \/ Open

Spec == Init /\ [][Next]_vars

-----------------------------------------------------------------------------
Contents == [is : {"absent", "empty", "mixed", "whole"}, id : Nat, list : SUBSET Envs]

\* Every variable keeps its type, and only an open host has a table.
TypeOK ==
    /\ daemon \in {"down", "opening", "up"}
    /\ kind \in Kinds
    /\ id \in Nat /\ minted \in Nat
    /\ table \subseteq Envs
    /\ name \in [Envs -> Names \cup {NoName}]
    /\ state \in Contents /\ scratch \in Contents
    /\ at \in [Savers -> {"idle", "make", "start", "insert", "take", "open", "write",
                          "rename", "clone", "shell", "close", "halt", "unmake",
                          "remove", "answer"}]
    /\ op \in [Savers -> {"none", "new", "undo", "rm", "stop", "start", "open"}]
    /\ env \in [Savers -> Envs \cup {NoEnv}]
    /\ taken \in [Savers -> [id : Nat, list : SUBSET Envs]]
    /\ handle \in [Savers -> {"none", "scratch", "state", "unlinked"}]
    /\ container \in [Envs -> {"none", "made", "running"}]
    /\ kept \subseteq Envs /\ home \in [Envs -> Nat]
    /\ answered \subseteq Envs /\ doomed \subseteq Envs /\ gone \subseteq Envs
    /\ stranded \subseteq Envs /\ late \subseteq Envs /\ left \subseteq Envs
    /\ beside \in [Envs -> SUBSET Envs] /\ crossed \in BOOLEAN
    /\ requests \in Nat /\ faults \in Nat
    /\ daemon = "down" => table = {} /\ \A s \in Savers : at[s] = "idle"

\* "A host killed mid-write must come back to the previous list rather than
\* to half of this one" (host.rs:369): host.json is a whole list at every
\* moment the process could be killed, once there is one at all, and there
\* is one before the first request is served.
NeverHalf ==
    /\ state.is \in {"absent", "whole"}
    /\ daemon = "up" => state.is = "whole"

\* It is so whatever requests come between the steps of a save, until two
\* saves cross: they share one scratch file.
DiskIsWhole == crossed \/ NeverHalf

\* A name is claimed once, and the local backend never holds two
\* environments, which would share every file and port (host.rs:221-229);
\* unless one was asked for while the other was being made.
Apart(e, f) ==
    \/ e = f
    \/ e \in beside[f] \/ f \in beside[e]
    \/ name[e] # name[f] /\ kind # "local"
OneNameIn(list) == \A e, f \in list : Apart(e, f)

\* The check of create and its insertion are two awaits apart: names are
\* apart in what the host has and in what it would come back to, whoever
\* else is creating, destroying or saving, except between creations that
\* overlapped.
OneName == OneNameIn(table) /\ OneNameIn(state.list)

\* An environment whose creation was answered, and whose destruction nobody
\* has asked for, survives the daemon: it is on disk at every moment and in
\* the table of every daemon that serves (host.rs:131-147, README), until
\* two saves cross.
AnsweredSurvives ==
    crossed \/ /\ answered \subseteq state.list
               /\ daemon = "up" => answered \subseteq table

\* A destruction that was answered is never undone, by a restart or by
\* another request's save, until two saves cross.
StaysGone == crossed \/ gone \cap (table \cup state.list) = {}

\* Keepers that outlive the daemon are found by the next one: their sockets
\* are under the id it comes back with, and their environment is in its
\* table.  Their environment, not their id, may be lost to three things: it
\* is still being made, its creation failed after it was in the table, or
\* they began while it was being destroyed, after its sessions were closed.
SessionsFound ==
    crossed \/ \A e \in kept :
        /\ home[e] = state.id
        /\ daemon = "up" => home[e] = id
        /\ \/ e \in stranded \cup late
           \/ \E c \in Callers : op[c] = "new" /\ env[c] = e
           \/ e \in state.list /\ (daemon = "up" => e \in table)

\* No container is left that nobody can name: each one belongs to an
\* environment in the table, to one being made, or to a creation that was
\* cut short; or a destruction passed it by, because docker would not say
\* it was there or a start had it back before the environment was gone.
RoomsAreOwned ==
    crossed \/ \A e \in Envs :
        container[e] # "none" =>
            \/ e \in Coming \cup stranded \cup left
            \/ IF daemon = "down" THEN e \in state.list ELSE e \in table

\* The host keeps its identity through every save, failed save and restart:
\* a whole file is only ever replaced by a whole file of the same host,
\* until two saves cross.
IdentityKept ==
    [][crossed \/ (state.is = "whole" => state'.is = "whole" /\ state'.id = state.id)]_vars

=============================================================================
