---------------------------- MODULE Environment ----------------------------
(***************************************************************************)
(* The environments of a host, the sockets of their sessions, and the news *)
(* the host makes of both (devpipe/src/environment.rs, with the requests   *)
(* of host.rs that announce, and the socket end of keeper.rs).             *)
(*                                                                         *)
(* Nothing remembers the sessions: an environment finds them by listing    *)
(* the sockets on disk and asking each keeper, one await after another.    *)
(* What a describer has learnt so far is its look, and it is out of date   *)
(* as soon as something it already asked about changes.  A request, the    *)
(* task that watches a session, and the conversation with a client that    *)
(* follows the host each take looks of their own.                          *)
(*                                                                         *)
(* Host models what of this survives a crash, and what a save or a backend *)
(* that fails leaves behind; here they succeed, a save is part of the step *)
(* that needs it, and a restart comes back with the same table.            *)
(***************************************************************************)
EXTENDS Naturals, Sequences, FiniteSets

CONSTANTS Envs, Sessions,
          Made,         \* the environments the host was opened with
          EnvOf,        \* the environment a session would be started in
          Requesters,   \* clients that change the host
          Followers,    \* clients that draw it
          NoEnv, NoSession,
          NewsBacklog,  \* NEWS_BACKLOG, the slots of the broadcast
          MaxRequests,  \* bound of the model: requests that change the host
          MaxChances    \* and titles, restarts, containers that exit, connections
                        \* that break and connections that fail, together

ASSUME EachHasAHome == EnvOf \in [Sessions -> Envs] /\ Made \subseteq Envs
ASSUME NewsHasRoom == NewsBacklog \in Nat \ {0}
ASSUME ApartFromAll == NoEnv \notin Envs /\ NoSession \notin Sessions
ASSUME DescribersApart == /\ Requesters \cap Sessions = {}
                          /\ Requesters \cap Followers = {}
                          /\ Followers \cap Sessions = {}
ASSUME BoundsAreNumbers == MaxRequests \in Nat /\ MaxChances \in Nat

VARIABLES table,      \* Host.environments
          up,         \* the environments whose container runs
          born,       \* ids that were drawn; one is never drawn twice
          exited,     \* containers that stopped by themselves, and were not started since
          keeper,     \* the keeper process of each session
          socket,     \* its socket file is on disk
          ready,      \* it wrote its ready line
          watch,      \* the task that watches each session
          stirs,      \* titles told to that task and not yet taken
          look,       \* what each describer has learnt
          request,    \* what each requester's handler is at
          subscribed, \* a receiver of the news is held for the follower
          news,       \* what it has not taken yet
          lagged,     \* something it had not taken was overwritten
          missed,     \* history: environments announced between the welcome and the watch
          unheard,    \* history: sessions whose keeper was there, and was not reached
          crossed,    \* history: sessions that began while their home was going, or gone
          late,       \* history: sessions that were ready when they were given up
          requests, chances

roomVars == <<table, up, born, exited>>
keeperVars == <<keeper, socket, ready>>
taskVars == <<watch, stirs, look>>
newsVars == <<subscribed, news, lagged, missed>>
histories == <<unheard, crossed, late>>
counters == <<requests, chances>>
hostVars == <<roomVars, keeperVars, taskVars, request, newsVars, histories, counters>>

Describers == Requesters \cup Sessions \cup Followers

Absent == [here |-> FALSE, up |-> FALSE, sessions |-> {}]

\* The child runs and the keeper says so: a killed child is one that will end.
Alive == {"up", "dying"}

\* The host as it is.
Truth(e) ==
    IF e \in table
    THEN [here |-> TRUE, up |-> e \in up,
          sessions |-> {s \in Sessions : EnvOf[s] = e /\ keeper[s] \in Alive}]
    ELSE Absent

\* What a description is held against: the environment, and the sessions that had
\* begun in it.  While it is the same, nothing in it began, ended or moved.
Mark(e) == [is |-> Truth(e), begun |-> {s \in Sessions : EnvOf[s] = e /\ ready[s]}]
Unmarked == [is |-> Absent, begun |-> {}]

NoLook == [stage |-> "off", left |-> {}, env |-> NoEnv, up |-> FALSE,
           todo |-> {}, litter |-> NoSession, seen |-> {},
           got |-> [e \in Envs |-> Absent], was |-> [e \in Envs |-> Unmarked]]
\* A look at one environment, and at each there is, in turn.
LookAt(e) == [NoLook EXCEPT !.stage = "next", !.left = {e}]
LookAtAll ==
    [NoLook EXCEPT !.stage = "next", !.left = table, !.was = [e \in Envs |-> Mark(e)]]
Handling(at, e, s, links) == [at |-> at, env |-> e, session |-> s, links |-> links]
Idle == Handling("idle", NoEnv, NoSession, {})

HostInit ==
    /\ table = Made /\ up = Made /\ born = Made /\ exited = {}
    /\ keeper = [s \in Sessions |-> "none"]
    /\ socket = [s \in Sessions |-> FALSE]
    /\ ready = [s \in Sessions |-> FALSE]
    /\ watch = [s \in Sessions |-> "none"]
    /\ stirs = [s \in Sessions |-> 0]
    /\ look = [d \in Describers |-> NoLook]
    /\ request = [r \in Requesters |-> Idle]
    /\ subscribed = [f \in Followers |-> FALSE]
    /\ news = [f \in Followers |-> <<>>]
    /\ lagged = [f \in Followers |-> FALSE]
    /\ missed = [f \in Followers |-> {}]
    /\ unheard = {} /\ crossed = {} /\ late = {}
    /\ requests = 0 /\ chances = 0

\* What happens by itself, a bounded number of times.
Chance == chances < MaxChances /\ chances' = chances + 1

-----------------------------------------------------------------------------
(* The news.  A full receiver loses its oldest word and is marked.  A      *)
(* message carries whether it stood when it was said: a description does   *)
(* not when it was overtaken, its environment having changed since it      *)
(* began, or when it is of one that had gone before it began.              *)

Stood(was, what, e) == was = Mark(e) /\ (what.here => e \in table)

EnvironmentIs(e, what, was) ==
    [kind |-> "environment", env |-> e, what |-> what, stood |-> Stood(was, what, e)]
EnvironmentGone(e) == [kind |-> "gone", env |-> e, what |-> Absent, stood |-> TRUE]

\* Fault: a receiver that is full is not told that it lost something.
AnnounceQuietly(said) ==
    /\ news' = [f \in Followers |->
           IF ~subscribed[f] THEN news[f]
           ELSE IF Len(news[f]) = NewsBacklog THEN Append(Tail(news[f]), said)
           ELSE Append(news[f], said)]
    /\ missed' = [f \in Followers |-> IF subscribed[f] THEN missed[f] ELSE missed[f] \cup {said.env}]
    /\ UNCHANGED <<subscribed, lagged>>

Announce(said) ==
    /\ news' = [f \in Followers |->
           IF ~subscribed[f] THEN news[f]
           ELSE IF Len(news[f]) = NewsBacklog THEN Append(Tail(news[f]), said)
           ELSE Append(news[f], said)]
    /\ lagged' = [f \in Followers |->
           lagged[f] \/ (subscribed[f] /\ Len(news[f]) = NewsBacklog)]
    /\ missed' = [f \in Followers |-> IF subscribed[f] THEN missed[f] ELSE missed[f] \cup {said.env}]
    /\ UNCHANGED subscribed

-----------------------------------------------------------------------------
(* A connection to a keeper, which is made by the path of its socket.      *)

Answers(s) == socket[s] /\ keeper[s] \in Alive \cup {"over"}

Reached(s) == Answers(s) /\ UNCHANGED <<unheard, chances>>

\* The socket is not there, or nobody listens on it yet or any more; or no
\* connection can be made, for want of a descriptor, say.
NotReached(s) ==
    /\ IF Answers(s) THEN Chance ELSE UNCHANGED chances
    /\ unheard' = IF keeper[s] \in Alive \cup {"bound", "over"}
                  THEN unheard \cup {s} ELSE unheard

-----------------------------------------------------------------------------
(* describe(): the status, the sockets, and a question to each keeper. *)

Links(e) == {s \in Sessions : socket[s] /\ EnvOf[s] = e}

Asked(d) == look[d].stage = "ask" /\ look[d].todo = {}

\* What the look has of the environment it is at.
Described(d) ==
    [look[d].got EXCEPT ![look[d].env] =
        [here |-> TRUE, up |-> look[d].up, sessions |-> look[d].seen]]

Looked(d) == Asked(d) /\ look[d].left = {}
\* A host with no environments has nothing to ask.
LookedAtNothing(d) == look[d].stage = "next" /\ look[d].left = {}

\* The status of the next environment, its ports, and its sockets; what was
\* learnt of the last one is kept.
ListSockets(d) ==
    /\ look[d].left # {}
    /\ \/ look[d].stage = "next"
       \/ Asked(d)
    /\ \E e \in look[d].left :
           look' = [look EXCEPT ![d] =
               [stage |-> "ask", left |-> look[d].left \ {e}, env |-> e, up |-> e \in up,
                todo |-> Links(e), litter |-> NoSession, seen |-> {},
                got |-> IF Asked(d) THEN Described(d) ELSE look[d].got,
                was |-> [look[d].was EXCEPT ![e] = Mark(e)]]]

\* Fault: a keeper that answers for a finished session is litter too.
AskKeeperForgettingFinished(d, s) ==
    /\ look[d].stage = "ask" /\ s \in look[d].todo
    /\ LET rest == [look[d] EXCEPT !.todo = look[d].todo \ {s}] IN
       \/ /\ Reached(s) /\ keeper[s] \in Alive
          /\ look' = [look EXCEPT ![d] = [rest EXCEPT !.seen = look[d].seen \cup {s}]]
       \/ /\ NotReached(s) \/ (Reached(s) /\ keeper[s] = "over")
          /\ look' = [look EXCEPT ![d] = [rest EXCEPT !.stage = "forget", !.litter = s]]

\* Link::detail.  One that is over answers, and is not listed; one that is not
\* reached has gone, for all its asker knows.
AskKeeper(d, s) ==
    /\ look[d].stage = "ask" /\ s \in look[d].todo
    /\ LET rest == [look[d] EXCEPT !.todo = look[d].todo \ {s}] IN
       \/ /\ Reached(s)
          /\ look' = [look EXCEPT ![d] =
                IF keeper[s] \in Alive THEN [rest EXCEPT !.seen = look[d].seen \cup {s}] ELSE rest]
       \/ /\ NotReached(s)
          /\ look' = [look EXCEPT ![d] = [rest EXCEPT !.stage = "forget", !.litter = s]]

Forget(d) ==
    /\ look[d].stage = "forget"
    /\ socket' = [socket EXCEPT ![look[d].litter] = FALSE]
    /\ look' = [look EXCEPT ![d].stage = "ask", ![d].litter = NoSession]

Look(d) ==
    \/ /\ ListSockets(d)
       /\ UNCHANGED <<roomVars, keeperVars, watch, stirs, request, newsVars, histories, counters>>
    \/ /\ \E s \in Sessions : AskKeeper(d, s)
       /\ UNCHANGED <<roomVars, keeperVars, watch, stirs, request, newsVars>>
       /\ UNCHANGED <<crossed, late, requests>>
    \/ /\ Forget(d)
       /\ UNCHANGED <<roomVars, keeper, ready, watch, stirs, request, newsVars, histories, counters>>

-----------------------------------------------------------------------------
(* Keepers, seen from their sockets. *)

Expected(s) == \E r \in Requesters : request[r].at = "waiting" /\ request[r].session = s

Destroying(e) == \E r \in Requesters : request[r].at = "destroying" /\ request[r].env = e

\* run() clears what an earlier keeper of this name left, and binds.
Bind(s) ==
    /\ keeper[s] = "spawned"
    /\ keeper' = [keeper EXCEPT ![s] = "bound"]
    /\ socket' = [socket EXCEPT ![s] = TRUE]
    /\ UNCHANGED <<roomVars, ready, taskVars, request, newsVars, histories, counters>>

\* The session is spawned and the ready line written.  With nobody left to read
\* the line, writing it fails and so does run(), and the socket stays behind.
Listen(s) ==
    /\ keeper[s] = "bound"
    /\ keeper' = [keeper EXCEPT ![s] = IF Expected(s) THEN "up" ELSE "dead"]
    /\ ready' = [ready EXCEPT ![s] = Expected(s)]
    /\ crossed' = IF EnvOf[s] \notin table \/ Destroying(EnvOf[s]) THEN crossed \cup {s} ELSE crossed
    /\ UNCHANGED <<roomVars, socket, taskVars, request, newsVars, unheard, late, counters>>

\* The pty cannot be had, or the keeper is killed: nothing tidies up.
KeeperDies(s) ==
    /\ keeper[s] \in {"spawned", "bound", "up", "dying", "over"}
    /\ keeper' = [keeper EXCEPT ![s] = "dead"]
    /\ UNCHANGED <<roomVars, socket, ready, taskVars, request, newsVars, histories, counters>>

ChildEnds(s) ==
    /\ keeper[s] \in Alive
    /\ keeper' = [keeper EXCEPT ![s] = "over"]
    /\ UNCHANGED <<roomVars, socket, ready, taskVars, request, newsVars, histories, counters>>

\* The grace period is over and nobody is being served: a watcher has been told.
KeeperGoes(s) ==
    /\ keeper[s] = "over"
    /\ keeper' = [keeper EXCEPT ![s] = "gone"]
    /\ socket' = [socket EXCEPT ![s] = FALSE]
    /\ UNCHANGED <<roomVars, ready, taskVars, request, newsVars, histories, counters>>

-----------------------------------------------------------------------------
(* The task that watches a session. *)

Over == {"over", "gone", "dead"}

\* Link::watch.  A keeper that is not reached is nobody's news.
WatchConnect(s) ==
    /\ watch[s] = "connecting"
    /\ \/ Reached(s) /\ watch' = [watch EXCEPT ![s] = "listening"]
       \/ NotReached(s) /\ watch' = [watch EXCEPT ![s] = "refused"]
    /\ UNCHANGED <<roomVars, keeperVars, stirs, look, request, newsVars>>
    /\ UNCHANGED <<crossed, late, requests>>

Titled(s) ==
    /\ keeper[s] \in Alive
    /\ watch[s] \in {"listening", "looking"}
    /\ stirs' = [stirs EXCEPT ![s] = @ + 1]
    /\ Chance
    /\ UNCHANGED <<roomVars, keeperVars, watch, look, request, newsVars, histories, requests>>

\* A stir is the whole environment described again.
TakeTitle(s) ==
    /\ watch[s] = "listening" /\ stirs[s] > 0
    /\ stirs' = [stirs EXCEPT ![s] = @ - 1]
    /\ watch' = [watch EXCEPT ![s] = "looking"]
    /\ look' = [look EXCEPT ![s] = LookAt(EnvOf[s])]
    /\ UNCHANGED <<roomVars, keeperVars, request, newsVars, histories, counters>>

\* Ended, or the connection gone without a word: the same is said.
TakeEnd(s) ==
    /\ watch[s] = "listening" /\ stirs[s] = 0
    /\ keeper[s] \in Over
    /\ watch' = [watch EXCEPT ![s] = "ending"]
    /\ look' = [look EXCEPT ![s] = LookAt(EnvOf[s])]
    /\ UNCHANGED <<roomVars, keeperVars, stirs, request, newsVars, histories, counters>>

\* Fault: a session that ended is dropped without a word.
TellStirUnlessEnding(s) ==
    /\ watch[s] \in {"looking", "ending"} /\ Looked(s)
    /\ IF watch[s] = "ending" THEN UNCHANGED newsVars
       ELSE Announce(EnvironmentIs(EnvOf[s], Described(s)[EnvOf[s]], look[s].was[EnvOf[s]]))
    /\ watch' = [watch EXCEPT ![s] = IF @ = "ending" THEN "done" ELSE "listening"]
    /\ look' = [look EXCEPT ![s] = NoLook]
    /\ UNCHANGED <<roomVars, keeperVars, stirs, request, histories, counters>>

TellStir(s) ==
    /\ watch[s] \in {"looking", "ending"} /\ Looked(s)
    /\ Announce(EnvironmentIs(EnvOf[s], Described(s)[EnvOf[s]], look[s].was[EnvOf[s]]))
    /\ watch' = [watch EXCEPT ![s] = IF @ = "ending" THEN "done" ELSE "listening"]
    /\ look' = [look EXCEPT ![s] = NoLook]
    /\ UNCHANGED <<roomVars, keeperVars, stirs, request, histories, counters>>

Watcher(s) == WatchConnect(s) \/ TakeTitle(s) \/ TakeEnd(s) \/ TellStir(s)

-----------------------------------------------------------------------------
(* The requests that change the host.  Several requesters may be at one    *)
(* environment at once; each holds on to what it found.                    *)

Begin(r, asked) ==
    /\ request[r] = Idle
    /\ requests < MaxRequests
    /\ requests' = requests + 1
    /\ request' = [request EXCEPT ![r] = asked]

\* The container is made and running, the entry made and saved.
Create(r, e) ==
    /\ e \notin born
    /\ Begin(r, Handling("creating", e, NoSession, {}))
    /\ born' = born \cup {e} /\ table' = table \cup {e} /\ up' = up \cup {e}
    /\ UNCHANGED exited
    /\ look' = [look EXCEPT ![r] = LookAt(e)]
    /\ UNCHANGED <<keeperVars, watch, stirs, newsVars, histories, chances>>

AskStart(r, e) ==
    /\ e \in table
    /\ Begin(r, Handling("starting", e, NoSession, {}))
    /\ UNCHANGED <<roomVars, keeperVars, taskVars, newsVars, histories, chances>>

Started(r) ==
    /\ request[r].at = "starting"
    /\ up' = up \cup {request[r].env} /\ exited' = exited \ {request[r].env}
    /\ request' = [request EXCEPT ![r].at = "telling"]
    /\ look' = [look EXCEPT ![r] = LookAt(request[r].env)]
    /\ UNCHANGED <<table, born, keeperVars, watch, stirs, newsVars, histories, counters>>

\* close() lists the sockets once, and asks each keeper to end its session.
AskStop(r, e) ==
    /\ e \in table
    /\ Begin(r, Handling("stopping", e, NoSession, Links(e)))
    /\ UNCHANGED <<roomVars, keeperVars, taskVars, newsVars, histories, chances>>

\* Fault: the container goes without the sessions being closed.
AskDestroyOutright(r, e) ==
    /\ e \in table
    /\ Begin(r, Handling("destroying", e, NoSession, {}))
    /\ UNCHANGED <<roomVars, keeperVars, taskVars, newsVars, histories, chances>>

AskDestroy(r, e) ==
    /\ e \in table
    /\ Begin(r, Handling("destroying", e, NoSession, Links(e)))
    /\ UNCHANGED <<roomVars, keeperVars, taskVars, newsVars, histories, chances>>

\* A keeper that is not reached is passed over.
Kill(r, s) ==
    /\ s \in request[r].links
    /\ \/ Reached(s) /\ keeper' = [keeper EXCEPT ![s] = IF @ = "up" THEN "dying" ELSE @]
       \/ NotReached(s) /\ UNCHANGED keeper
    /\ request' = [request EXCEPT ![r].links = @ \ {s}]
    /\ UNCHANGED <<roomVars, socket, ready, taskVars, newsVars, crossed, late, requests>>

\* Fault: a stop is not announced.
StoppedQuietly(r) ==
    /\ request[r].at = "stopping" /\ request[r].links = {}
    /\ up' = up \ {request[r].env} /\ exited' = exited \ {request[r].env}
    /\ request' = [request EXCEPT ![r] = Idle]
    /\ UNCHANGED <<table, born, keeperVars, taskVars, newsVars, histories, counters>>

Stopped(r) ==
    /\ request[r].at = "stopping" /\ request[r].links = {}
    /\ up' = up \ {request[r].env} /\ exited' = exited \ {request[r].env}
    /\ request' = [request EXCEPT ![r].at = "telling"]
    /\ look' = [look EXCEPT ![r] = LookAt(request[r].env)]
    /\ UNCHANGED <<table, born, keeperVars, watch, stirs, newsVars, histories, counters>>

\* The container goes, then the entry, and the list is saved.
Destroyed(r) ==
    /\ request[r].at = "destroying" /\ request[r].links = {}
    /\ up' = up \ {request[r].env} /\ exited' = exited \ {request[r].env}
    /\ table' = table \ {request[r].env}
    /\ request' = [request EXCEPT ![r].at = "saving"]
    /\ UNCHANGED <<born, keeperVars, taskVars, newsVars, histories, counters>>

TellGone(r) ==
    /\ request[r].at = "saving"
    /\ Announce(EnvironmentGone(request[r].env))
    /\ request' = [request EXCEPT ![r] = Idle]
    /\ UNCHANGED <<roomVars, keeperVars, taskVars, histories, counters>>

\* announce_environment.  What was created is announced before its repository
\* is cloned; a session started needs no answer of its own.
TellEnvironment(r) ==
    /\ request[r].at \in {"creating", "telling", "opening"} /\ Looked(r)
    /\ LET e == request[r].env IN
       /\ Announce(EnvironmentIs(e, Described(r)[e], look[r].was[e]))
       /\ CASE request[r].at = "creating" ->
                 /\ request' = [request EXCEPT ![r].at = "cloning"]
                 /\ look' = [look EXCEPT ![r] = NoLook]
            [] request[r].at = "telling" ->
                 /\ request' = [request EXCEPT ![r].at = "answering"]
                 /\ look' = [look EXCEPT ![r] = LookAt(e)]
            [] request[r].at = "opening" ->
                 /\ request' = [request EXCEPT ![r] = Idle]
                 /\ look' = [look EXCEPT ![r] = NoLook]
    /\ UNCHANGED <<roomVars, keeperVars, watch, stirs, histories, counters>>

Cloned(r) ==
    /\ request[r].at = "cloning"
    /\ request' = [request EXCEPT ![r].at = "answering"]
    /\ look' = [look EXCEPT ![r] = LookAt(request[r].env)]
    /\ UNCHANGED <<roomVars, keeperVars, watch, stirs, newsVars, histories, counters>>

\* A clone that fails takes the environment with it, if it is still there.
CloneFails(r) ==
    /\ request[r].at = "cloning"
    /\ LET e == request[r].env IN
       request' = [request EXCEPT ![r] =
           IF e \in table
           THEN Handling("destroying", e, NoSession, Links(e))
           ELSE Idle]
    /\ UNCHANGED <<roomVars, keeperVars, taskVars, newsVars, histories, counters>>

\* The requester is answered with one more description.
Answered(r) ==
    /\ request[r].at = "answering" /\ Looked(r)
    /\ request' = [request EXCEPT ![r] = Idle]
    /\ look' = [look EXCEPT ![r] = NoLook]
    /\ UNCHANGED <<roomVars, keeperVars, watch, stirs, newsVars, histories, counters>>

\* start_session: a keeper is spawned, and its ready line waited for.
OpenSession(r, s) ==
    /\ EnvOf[s] \in table
    /\ keeper[s] = "none"
    /\ Begin(r, Handling("waiting", EnvOf[s], s, {}))
    /\ keeper' = [keeper EXCEPT ![s] = "spawned"]
    /\ UNCHANGED <<roomVars, socket, ready, taskVars, newsVars, histories, chances>>

SessionReady(r) ==
    /\ request[r].at = "waiting" /\ ready[request[r].session]
    /\ watch' = [watch EXCEPT ![request[r].session] = "connecting"]
    /\ look' = [look EXCEPT ![r] = LookAt(request[r].env)]
    /\ request' = [request EXCEPT ![r].at = "opening"]
    /\ UNCHANGED <<roomVars, keeperVars, stirs, newsVars, histories, counters>>

\* The keeper stopped before it started, or thirty seconds went by: the ready
\* line may have been written by then, and is not read any more.
SessionFails(r) ==
    /\ request[r].at = "waiting"
    /\ request' = [request EXCEPT ![r] = Idle]
    /\ late' = IF ready[request[r].session] THEN late \cup {request[r].session} ELSE late
    /\ UNCHANGED <<roomVars, keeperVars, taskVars, newsVars, unheard, crossed, counters>>

\* attach() to a session by name, which is known once it was ready: one
\* question, and its litter cleared.
Resume(r, s) ==
    /\ EnvOf[s] \in table
    /\ ready[s]
    /\ Begin(r, Handling("resuming", EnvOf[s], s, {}))
    /\ look' = [look EXCEPT ![r] = [NoLook EXCEPT !.stage = "ask", !.env = EnvOf[s], !.todo = {s}]]
    /\ UNCHANGED <<roomVars, keeperVars, watch, stirs, newsVars, histories, chances>>

Resumed(r) ==
    /\ request[r].at = "resuming" /\ Looked(r)
    /\ request' = [request EXCEPT ![r] = Idle]
    /\ look' = [look EXCEPT ![r] = NoLook]
    /\ UNCHANGED <<roomVars, keeperVars, watch, stirs, newsVars, histories, counters>>

Ask(r) ==
    \/ \E e \in Envs : Create(r, e) \/ AskStart(r, e) \/ AskStop(r, e) \/ AskDestroy(r, e)
    \/ \E s \in Sessions : OpenSession(r, s) \/ Resume(r, s)

Handle(r) ==
    \/ Started(r) \/ Stopped(r) \/ Destroyed(r)
    \/ TellGone(r) \/ TellEnvironment(r)
    \/ Cloned(r) \/ CloneFails(r) \/ Answered(r)
    \/ SessionReady(r) \/ SessionFails(r) \/ Resumed(r)
    \/ \E s \in Sessions : Kill(r, s)

KeeperStep(s) == Bind(s) \/ Listen(s) \/ ChildEnds(s) \/ KeeperDies(s) \/ KeeperGoes(s) \/ Titled(s)

\* A container stops by itself: no handler did it, and nobody watches containers.
ContainerExits(e) ==
    /\ e \in table /\ e \in up
    /\ Chance
    /\ up' = up \ {e} /\ exited' = exited \cup {e}
    /\ UNCHANGED <<table, born, keeperVars, taskVars, request, newsVars, histories, requests>>

\* The daemon stops and starts again: its tasks and its receivers are gone,
\* the keepers are not.  Host::open watches the sockets it finds.
RestartHost ==
    /\ Chance
    /\ request' = [r \in Requesters |-> Idle]
    /\ look' = [d \in Describers |-> NoLook]
    /\ watch' = [s \in Sessions |->
           IF socket[s] /\ EnvOf[s] \in table THEN "connecting" ELSE "none"]
    /\ stirs' = [s \in Sessions |-> 0]
    /\ subscribed' = [f \in Followers |-> FALSE]
    /\ news' = [f \in Followers |-> <<>>]
    /\ lagged' = [f \in Followers |-> FALSE]
    /\ missed' = [f \in Followers |-> {}]
    /\ UNCHANGED <<roomVars, keeperVars, histories, requests>>
=============================================================================
