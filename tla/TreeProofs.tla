----------------------------- MODULE TreeProofs -----------------------------
(***************************************************************************)
(* What the environments of a host keep of their sessions, proved for any  *)
(* number of environments, sessions, clients and requests.                 *)
(***************************************************************************)
EXTENDS Tree, TLAPS

Keepers == {"none", "spawned", "bound", "up", "dying", "over", "gone", "dead"}

Shape == [here : BOOLEAN, up : BOOLEAN, sessions : SUBSET Sessions]

Marks == [is : Shape, begun : SUBSET Sessions]

\* What a describer may have learnt, and what a requester's handler holds.
Homes == Envs \cup {NoEnv}
Learnt == [stage : {"off", "next", "ask", "forget"}, left : SUBSET Homes,
           env : Homes, up : BOOLEAN, todo : SUBSET Sessions,
           litter : Sessions \cup {NoSession}, seen : SUBSET Sessions,
           got : [Envs -> Shape], was : [Envs -> Marks]]
Places == {"idle", "creating", "starting", "telling", "stopping", "destroying", "saving",
           "cloning", "answering", "waiting", "opening", "resuming"}
Held == [at : Places, env : Homes,
         session : Sessions \cup {NoSession}, links : SUBSET Sessions]

Typed ==
    /\ table \subseteq Envs
    /\ keeper \in [Sessions -> Keepers]
    /\ socket \in [Sessions -> BOOLEAN]
    /\ ready \in [Sessions -> BOOLEAN]
    /\ look \in [Describers -> Learnt]
    /\ request \in [Requesters -> Held]

\* A describer asks keepers that had a socket, and clears away the sockets of
\* those that are no more, or that it did not reach.
Looks ==
    \A d \in Describers :
        /\ \A s \in look[d].todo : keeper[s] \notin {"none", "spawned"}
        /\ look[d].stage = "forget" =>
               /\ look[d].litter \in Sessions
               /\ keeper[look[d].litter] \in {"gone", "dead"} \/ look[d].litter \in unheard

\* From the bind on a socket is there, until it is cleared away.
Sockets ==
    \A s \in Sessions :
        /\ socket[s] \/ ready[s] => keeper[s] \notin {"none", "spawned"}
        /\ keeper[s] \in {"bound", "up", "dying", "over"} => socket[s] \/ s \in unheard

\* Whoever destroys a home has still to end what runs in it.
Endings ==
    \A r \in Requesters :
        request[r].at = "destroying" =>
            \A s \in Sessions :
                EnvOf[s] = request[r].env /\ keeper[s] = "up" =>
                    s \in request[r].links \cup crossed \cup unheard

HomeInv == Typed /\ Looks /\ Sockets /\ Endings /\ NoneLeftRunning

\* A step of neither a keeper nor a describer: it may begin or drop a look, and
\* whoever begins to destroy a home has listed its sockets.
Aside ==
    /\ UNCHANGED <<keeper, socket, ready, crossed>>
    /\ unheard \subseteq unheard'
    /\ table \subseteq table' /\ table' \subseteq Envs
    /\ look' \in [Describers -> Learnt]
    /\ \A d \in Describers :
           look'[d] = look[d] \/ (look'[d].todo = {} /\ look'[d].stage # "forget")
    /\ request' \in [Requesters -> Held]
    /\ \A r \in Requesters :
           \/ request'[r] = request[r]
           \/ request'[r].at # "destroying"
           \/ Links(request'[r].env) \subseteq request'[r].links

-----------------------------------------------------------------------------
\* What a description is held against is a description, and some sessions.
LEMMA MarkIs == \A e \in Envs : Mark(e) \in Marks
  BY DEF Mark, Marks, Truth, Shape, Absent

\* A look that begins has learnt nothing.
LEMMA FreshLooks ==
    /\ NoLook \in Learnt /\ NoLook.todo = {} /\ NoLook.stage = "off"
    /\ \A e \in Homes :
           LookAt(e) \in Learnt /\ LookAt(e).todo = {} /\ LookAt(e).stage = "next"
    /\ table \subseteq Envs =>
           LookAtAll \in Learnt /\ LookAtAll.todo = {} /\ LookAtAll.stage = "next"
  BY MarkIs DEF NoLook, LookAt, LookAtAll, Learnt, Shape, Absent, Homes, Unmarked, Marks

\* What a handler holds when its request begins.
LEMMA HandlingHeld ==
    ASSUME NEW p \in Places, NEW e \in Homes,
           NEW s \in Sessions \cup {NoSession}, NEW l \in SUBSET Sessions
    PROVE  /\ Handling(p, e, s, l) \in Held
           /\ Handling(p, e, s, l).at = p /\ Handling(p, e, s, l).env = e
           /\ Handling(p, e, s, l).links = l
  BY DEF Handling, Held

\* A handler that is to end the sessions of a home has listed its sockets.
LEMMA EndingHeld ==
    ASSUME NEW p \in Places, NEW e \in Homes
    PROVE  LET ending == Handling(p, e, NoSession, Links(e)) IN
           ending \in Held /\ Links(ending.env) \subseteq ending.links
  <1>1. Links(e) \in SUBSET Sessions /\ NoSession \in Sessions \cup {NoSession}
    BY DEF Links
  <1> QED
    BY <1>1 DEF Handling, Held

\* A handler that goes on holds on to what it found.
LEMMA HeldOn ==
    ASSUME NEW h \in Held, NEW p \in Places
    PROVE  [h EXCEPT !.at = p] \in Held /\ [h EXCEPT !.at = p].at = p
  BY DEF Held

\* What a look has of an environment has the shape of a description.
LEMMA DescribedShape ==
    ASSUME Typed, NEW d \in Describers
    PROVE  Described(d) \in [Envs -> Shape]
  BY DEF Typed, Described, Learnt, Shape, Homes

\* The invariant holds of a host that has just been opened.
LEMMA HomeInit == Init => HomeInv
  <1> SUFFICES ASSUME Init PROVE HomeInv
    OBVIOUS
  <1>1. Typed
    BY EachHasAHome, FreshLooks, HandlingHeld
       DEF Init, HostInit, Typed, Keepers, Idle, Places, Homes
  <1>2. Looks /\ Sockets
    BY FreshLooks DEF Init, HostInit, Looks, Sockets
  <1>3. Endings /\ NoneLeftRunning
    BY DEF Init, HostInit, Endings, NoneLeftRunning, Idle, Handling
  <1> QED
    BY <1>1, <1>2, <1>3 DEF HomeInv

\* A step aside leaves every keeper its socket and every shell its home.
LEMMA AsideKeeps ==
    ASSUME HomeInv, Aside
    PROVE  HomeInv'
  <1> USE DEF HomeInv, Aside
  <1>1. Typed'
    BY DEF Typed
  <1>2. Looks'
    BY DEF Typed, Looks
  <1>3. Sockets'
    BY DEF Sockets
  <1>4. Endings'
    BY DEF Typed, Endings, Sockets, Links
  <1>5. NoneLeftRunning'
    BY EachHasAHome DEF NoneLeftRunning
  <1> QED
    BY <1>1, <1>2, <1>3, <1>4, <1>5

-----------------------------------------------------------------------------
\* The steps that are aside: the task that watches a session.
LEMMA WatcherAside ==
    ASSUME HomeInv, NEW s \in Sessions, Watcher(s) \/ Titled(s)
    PROVE  Aside
  <1> USE EachHasAHome, FreshLooks DEF HomeInv, Typed, Aside, roomVars, histories, counters,
          keeperVars, taskVars, newsVars
  <1>1. EnvOf[s] \in Envs /\ {EnvOf[s]} \in SUBSET Homes /\ s \in Describers
    BY DEF Homes, Describers
  <1>2. CASE WatchConnect(s)
    BY <1>2 DEF WatchConnect, Reached, NotReached
  <1>3. CASE TakeTitle(s)
    BY <1>1, <1>3 DEF TakeTitle
  <1>4. CASE TakeEnd(s)
    BY <1>1, <1>4 DEF TakeEnd
  <1>5. CASE TellStir(s)
    BY <1>1, <1>5 DEF TellStir
  <1>6. CASE Titled(s)
    BY <1>6 DEF Titled
  <1> QED
    BY <1>2, <1>3, <1>4, <1>5, <1>6 DEF Watcher

\* A container that stops by itself leaves its keepers and their sockets alone.
LEMMA ExitAside ==
    ASSUME HomeInv, NEW e \in Envs, ContainerExits(e)
    PROVE  Aside
  BY DEF ContainerExits, HomeInv, Typed, Aside, roomVars, histories, counters, keeperVars,
         taskVars, newsVars

\* A request that begins, and what it asks: nothing that runs is touched.
LEMMA AskAside ==
    ASSUME HomeInv, NEW r \in Requesters, NEW e \in Envs,
           Create(r, e) \/ AskStart(r, e) \/ AskStop(r, e) \/ AskDestroy(r, e)
    PROVE  Aside
  <1> USE FreshLooks, HandlingHeld DEF HomeInv, Typed, Aside, roomVars, histories, counters,
          keeperVars, taskVars, newsVars, Begin, Places
  <1>1. e \in Homes /\ {e} \in SUBSET Homes /\ r \in Describers /\ Links(e) \in SUBSET Sessions
    BY DEF Homes, Describers, Links
  <1> DEFINE ending(p) == Handling(p, e, NoSession, Links(e))
  <1>2. \A p \in Places :
           ending(p) \in Held /\ Links(ending(p).env) \subseteq ending(p).links
    BY <1>1, EndingHeld
  <1> HIDE DEF ending
  <1>3. CASE Create(r, e)
    BY <1>1, <1>3 DEF Create
  <1>4. CASE AskStart(r, e)
    BY <1>1, <1>4 DEF AskStart
  <1>5. CASE AskStop(r, e)
    BY <1>1, <1>2, <1>5 DEF AskStop, ending
  <1>6. CASE AskDestroy(r, e)
    BY <1>1, <1>2, <1>6 DEF AskDestroy, ending
  <1> QED
    BY <1>3, <1>4, <1>5, <1>6

\* What a handler goes on with, but for ending a session and dropping a home.
LEMMA HandleAside ==
    ASSUME HomeInv, NEW r \in Requesters,
           \/ Started(r) \/ Stopped(r) \/ TellGone(r) \/ TellEnvironment(r)
           \/ Cloned(r) \/ CloneFails(r) \/ Answered(r)
           \/ SessionReady(r) \/ SessionFails(r) \/ Resumed(r)
    PROVE  Aside
  <1> USE FreshLooks, HandlingHeld DEF HomeInv, Typed, Aside, roomVars, histories, counters,
          keeperVars, taskVars, newsVars, Places
  <1> DEFINE e == request[r].env
             at(p) == [request[r] EXCEPT !.at = p]
  <1>1. /\ e \in Homes /\ {e} \in SUBSET Homes /\ r \in Describers
        /\ Links(e) \in SUBSET Sessions
    BY DEF Homes, Describers, Links, Held
  <1>2. Idle \in Held /\ Idle.at # "destroying"
    BY DEF Idle, Homes
  <1>3. \A p \in Places : at(p) \in Held /\ at(p).at = p
    BY HeldOn
  <1> HIDE DEF e, at
  <1>4. CASE Started(r)
    BY <1>1, <1>3, <1>4 DEF Started, e, at
  <1>5. CASE Stopped(r)
    BY <1>1, <1>3, <1>5 DEF Stopped, e, at
  <1>6. CASE TellGone(r)
    BY <1>2, <1>6 DEF TellGone
  <1>7. CASE TellEnvironment(r)
    <2>1. UNCHANGED <<table, keeper, socket, ready, unheard, crossed>>
      BY <1>7 DEF TellEnvironment
    <2>2. CASE request[r].at = "creating"
      <3>1. request' = [request EXCEPT ![r] = at("cloning")] /\ look' = [look EXCEPT ![r] = NoLook]
        BY <1>7, <2>2 DEF TellEnvironment, at
      <3> QED
        BY <1>1, <1>3, <2>1, <3>1
    <2>3. CASE request[r].at = "telling"
      <3>1. request' = [request EXCEPT ![r] = at("answering")] /\ look' = [look EXCEPT ![r] = LookAt(e)]
        BY <1>7, <2>3 DEF TellEnvironment, at, e
      <3> QED
        BY <1>1, <1>3, <2>1, <3>1
    <2>4. CASE request[r].at = "opening"
      BY <1>1, <1>2, <1>7, <2>1, <2>4 DEF TellEnvironment
    <2> QED
      BY <1>7, <2>2, <2>3, <2>4 DEF TellEnvironment
  <1>8. CASE Cloned(r)
    BY <1>1, <1>3, <1>8 DEF Cloned, e, at
  <1>9. CASE CloneFails(r)
    <2> DEFINE ending == Handling("destroying", e, NoSession, Links(e))
    <2>1. ending \in Held /\ Links(ending.env) \subseteq ending.links
      BY <1>1, EndingHeld
    <2>2. request' = [request EXCEPT ![r] = ending] \/ request' = [request EXCEPT ![r] = Idle]
      BY <1>9 DEF CloneFails, e
    <2>3. UNCHANGED <<table, keeper, socket, ready, unheard, crossed, look>>
      BY <1>9 DEF CloneFails
    <2> QED
      BY <1>1, <1>2, <2>1, <2>2, <2>3
  <1>10. CASE Answered(r)
    BY <1>1, <1>2, <1>10 DEF Answered
  <1>11. CASE SessionReady(r)
    BY <1>1, <1>3, <1>11 DEF SessionReady, e, at
  <1>12. CASE SessionFails(r)
    BY <1>2, <1>12 DEF SessionFails
  <1>13. CASE Resumed(r)
    BY <1>1, <1>2, <1>13 DEF Resumed
  <1> QED
    BY <1>4, <1>5, <1>6, <1>7, <1>8, <1>9, <1>10, <1>11, <1>12, <1>13

\* A tree that follows the host, and a host that is started again.
LEMMA FollowAside ==
    ASSUME HomeInv, \/ \E f \in Followers : Follow(f) \/ Drop(f)
                    \/ Restart \/ Rest \/ UNCHANGED vars
    PROVE  Aside
  <1> USE FreshLooks DEF HomeInv, Typed, Aside, roomVars, histories, counters,
          keeperVars, taskVars, newsVars
  <1>1. ASSUME NEW f \in Followers, Follow(f) \/ Drop(f)
        PROVE  Aside
    <2>1. f \in Describers /\ table \in SUBSET Homes
      BY DEF Describers, Homes
    <2>2. CASE Reach(f)
      BY <2>1, <2>2 DEF Reach
    <2>3. CASE SayWelcome(f)
      BY <2>1, <2>3 DEF SayWelcome
    <2>4. CASE ReadWatch(f)
      BY <2>4 DEF ReadWatch
    <2>5. CASE ReadDescribe(f)
      BY <2>1, <2>5 DEF ReadDescribe
    <2>6. CASE Forward(f)
      BY <2>6 DEF Forward
    <2>7. CASE Drop(f)
      BY <2>1, <2>7 DEF Drop
    <2> QED
      BY <1>1, <2>2, <2>3, <2>4, <2>5, <2>6, <2>7 DEF Follow
  <1>2. CASE Restart
    <2>1. Idle \in Held /\ Idle.at # "destroying"
      BY HandlingHeld DEF Idle, Homes, Places
    <2> QED
      BY <1>2, <2>1 DEF Restart, RestartHost
  <1>3. CASE Rest \/ UNCHANGED vars
    BY <1>3 DEF Rest, vars, hostVars
  <1> QED
    BY <1>1, <1>2, <1>3

-----------------------------------------------------------------------------
\* A look goes on by listing the sockets of the next home.
LEMMA ListSocketsKeeps ==
    ASSUME HomeInv, NEW d \in Describers, ListSockets(d),
           UNCHANGED <<table, keeper, socket, ready, request, histories>>
    PROVE  HomeInv'
  <1> USE DEF HomeInv, histories
  <1>1. PICK e \in look[d].left :
            look' = [look EXCEPT ![d] =
               [stage |-> "ask", left |-> look[d].left \ {e}, env |-> e, up |-> e \in up,
                todo |-> Links(e), litter |-> NoSession, seen |-> {},
                got |-> IF Asked(d) THEN Described(d) ELSE look[d].got,
                was |-> [look[d].was EXCEPT ![e] = Mark(e)]]]
    BY DEF ListSockets
  <1>2. Typed'
    <2>1. /\ e \in Homes /\ Links(e) \in SUBSET Sessions
          /\ Described(d) \in [Envs -> Shape] /\ look[d].got \in [Envs -> Shape]
          /\ look[d].left \ {e} \in SUBSET Homes
          /\ look[d].was \in [Envs -> Marks]
      BY DescribedShape DEF Typed, Learnt, Links
    <2> DEFINE now == [look[d].was EXCEPT ![e] = Mark(e)]
    <2>3. now \in [Envs -> Marks]
      <3>1. \A m : (e \in Envs => m \in Marks) => [look[d].was EXCEPT ![e] = m] \in [Envs -> Marks]
        BY <2>1
      <3> QED
        BY <3>1, MarkIs
    <2> HIDE DEF now
    <2>2. look' \in [Describers -> Learnt]
      BY <1>1, <2>1, <2>3 DEF Typed, Learnt, now
    <2> QED
      BY <2>2 DEF Typed
  <1>3. Looks'
    BY <1>1 DEF Typed, Learnt, Looks, Sockets, Links
  <1>4. Sockets' /\ Endings' /\ NoneLeftRunning'
    BY DEF Sockets, Endings, NoneLeftRunning
  <1> QED
    BY <1>2, <1>3, <1>4

\* It asks a keeper, which answers, or has gone, or does not listen yet.
LEMMA AskKeeperKeeps ==
    ASSUME HomeInv, NEW d \in Describers, NEW s \in Sessions, AskKeeper(d, s),
           UNCHANGED <<table, keeper, socket, ready, request, crossed>>
    PROVE  HomeInv'
  <1> USE DEF HomeInv
  <1>1. unheard \subseteq unheard'
    BY DEF AskKeeper, Reached, NotReached
  <1> DEFINE rest     == [look[d] EXCEPT !.todo = look[d].todo \ {s}]
             answered == [rest EXCEPT !.seen = look[d].seen \cup {s}]
             litter   == [rest EXCEPT !.stage = "forget", !.litter = s]
  <1>2. /\ rest \in Learnt /\ answered \in Learnt /\ litter \in Learnt
        /\ rest.todo = look[d].todo \ {s} /\ rest.stage = "ask"
        /\ answered.todo = rest.todo /\ answered.stage = "ask"
        /\ litter.todo = rest.todo /\ litter.litter = s
    <2>1. look[d] \in Learnt
      BY DEF Typed
    <2> QED
      BY <2>1 DEF Learnt, AskKeeper
  <1>3. \/ look' = [look EXCEPT ![d] = answered]
        \/ look' = [look EXCEPT ![d] = rest]
        \/ /\ look' = [look EXCEPT ![d] = litter]
           /\ keeper[s] \in Alive \cup {"bound", "over"} => s \in unheard'
    BY DEF AskKeeper, NotReached
  <1>4. s \in look[d].todo
    BY DEF AskKeeper
  <1> HIDE DEF answered, rest, litter
  <1>5. Typed'
    <2>1. look' \in [Describers -> Learnt]
      BY <1>2, <1>3 DEF Typed
    <2> QED
      BY <2>1 DEF Typed
  <1>6. Looks'
    <2> SUFFICES ASSUME NEW c \in Describers
                 PROVE  /\ \A t \in look'[c].todo : keeper[t] \notin {"none", "spawned"}
                        /\ look'[c].stage = "forget" =>
                              /\ look'[c].litter \in Sessions
                              /\ keeper[look'[c].litter] \in {"gone", "dead"} \/ look'[c].litter \in unheard'
      BY DEF Looks
    <2>1. CASE c = d
      BY <1>1, <1>2, <1>3, <1>4, <2>1 DEF Typed, Looks, Keepers, Alive
    <2>2. CASE c # d
      BY <1>1, <1>3, <2>2 DEF Typed, Looks
    <2> QED
      BY <2>1, <2>2
  <1>7. Sockets' /\ Endings' /\ NoneLeftRunning'
    BY <1>1 DEF Sockets, Endings, NoneLeftRunning
  <1> QED
    BY <1>5, <1>6, <1>7

\* It clears away the socket of a keeper that is no more, or that it had not reached.
LEMMA ForgetKeeps ==
    ASSUME HomeInv, NEW d \in Describers, Forget(d),
           UNCHANGED <<table, keeper, ready, request, histories>>
    PROVE  HomeInv'
  <1> USE DEF HomeInv, Forget, histories
  <1>1. Typed'
    <2>1. look[d] \in Learnt
      BY DEF Typed
    <2>2. [look[d] EXCEPT !.stage = "ask", !.litter = NoSession] \in Learnt
      BY <2>1 DEF Learnt
    <2>3. socket' \in [Sessions -> BOOLEAN]
      BY DEF Typed
    <2> QED
      BY <2>2, <2>3 DEF Typed
  <1>2. Looks'
    BY DEF Typed, Learnt, Looks
  <1>3. Sockets'
    BY DEF Typed, Looks, Sockets
  <1>4. Endings' /\ NoneLeftRunning'
    BY DEF Endings, NoneLeftRunning
  <1> QED
    BY <1>1, <1>2, <1>3, <1>4

-----------------------------------------------------------------------------
\* The steps of a keeper, which alone knows when it listens.
LEMMA KeeperKeeps ==
    ASSUME HomeInv, NEW s \in Sessions,
           Bind(s) \/ Listen(s) \/ ChildEnds(s) \/ KeeperDies(s) \/ KeeperGoes(s)
    PROVE  HomeInv'
  <1> USE EachHasAHome DEF HomeInv, roomVars, histories, counters, keeperVars, taskVars, newsVars
  <1>1. Typed'
    <2>1. UNCHANGED <<table, look, request>>
      BY DEF Bind, Listen, ChildEnds, KeeperDies, KeeperGoes
    <2>2. keeper' \in [Sessions -> Keepers]
      BY DEF Typed, Keepers, Bind, Listen, ChildEnds, KeeperDies, KeeperGoes
    <2>3. socket' \in [Sessions -> BOOLEAN]
      BY DEF Typed, Bind, Listen, ChildEnds, KeeperDies, KeeperGoes
    <2>4. ready' \in [Sessions -> BOOLEAN]
      BY DEF Typed, Bind, Listen, Expected, ChildEnds, KeeperDies, KeeperGoes
    <2> QED
      BY <2>1, <2>2, <2>3, <2>4 DEF Typed
  <1>2. Looks'
    <2>1. /\ look' = look /\ unheard' = unheard
          /\ \A t \in Sessions :
                /\ keeper[t] \notin {"none", "spawned"} => keeper'[t] \notin {"none", "spawned"}
                /\ keeper[t] \in {"gone", "dead"} => keeper'[t] \in {"gone", "dead"}
      BY DEF Typed, Alive, Bind, Listen, ChildEnds, KeeperDies, KeeperGoes
    <2>2. \A d \in Describers : look[d].todo \subseteq Sessions
      BY DEF Typed, Learnt
    <2> QED
      BY <2>1, <2>2 DEF Looks
  <1>3. Sockets'
    BY DEF Typed, Sockets, Alive, Bind, Listen, ChildEnds, KeeperDies, KeeperGoes
  <1>4. Endings' /\ NoneLeftRunning'
    <2>1. CASE Listen(s)
      <3>1. \A r \in Requesters :
               request[r].at = "destroying" /\ EnvOf[s] = request[r].env => s \in crossed'
        BY <2>1 DEF Listen, Destroying
      <3>2. EnvOf[s] \notin table => s \in crossed'
        BY <2>1 DEF Listen
      <3>3. /\ UNCHANGED <<table, request, unheard>> /\ crossed \subseteq crossed'
            /\ \A t \in Sessions \ {s} : keeper'[t] = keeper[t]
        BY <2>1 DEF Listen, Typed
      <3> QED
        BY <3>1, <3>2, <3>3 DEF Endings, NoneLeftRunning
    <2>2. CASE ~Listen(s)
      <3>1. /\ UNCHANGED <<table, request, unheard, crossed>>
            /\ \A t \in Sessions : keeper'[t] = "up" => keeper[t] = "up"
        BY <2>2 DEF Typed, Bind, ChildEnds, KeeperDies, KeeperGoes
      <3> QED
        BY <3>1 DEF Endings, NoneLeftRunning
    <2> QED
      BY <2>1, <2>2
  <1> QED
    BY <1>1, <1>2, <1>3, <1>4

\* A keeper is spawned: it has no socket yet, and runs nothing.
LEMMA OpenSessionKeeps ==
    ASSUME HomeInv, NEW r \in Requesters, NEW s \in Sessions, OpenSession(r, s)
    PROVE  HomeInv'
  <1> USE EachHasAHome DEF HomeInv, OpenSession, roomVars, histories, counters, keeperVars, taskVars, newsVars
  <1>1. /\ UNCHANGED <<table, socket, ready, look, unheard, crossed>>
        /\ request' = [request EXCEPT ![r] = Handling("waiting", EnvOf[s], s, {})]
        /\ keeper' = [keeper EXCEPT ![s] = "spawned"] /\ keeper[s] = "none"
    BY DEF Begin
  <1>2. /\ Handling("waiting", EnvOf[s], s, {}) \in Held
        /\ Handling("waiting", EnvOf[s], s, {}).at # "destroying"
    BY HandlingHeld DEF Places, Homes
  <1>3. Typed'
    BY <1>1, <1>2 DEF Typed, Keepers
  <1>4. Looks'
    BY <1>1 DEF Typed, Looks
  <1>5. Sockets'
    BY <1>1 DEF Typed, Sockets
  <1>6. Endings' /\ NoneLeftRunning'
    BY <1>1, <1>2 DEF Typed, Endings, NoneLeftRunning
  <1> QED
    BY <1>3, <1>4, <1>5, <1>6

\* A session that was ready is asked after by name.
LEMMA ResumeKeeps ==
    ASSUME HomeInv, NEW r \in Requesters, NEW s \in Sessions, Resume(r, s)
    PROVE  HomeInv'
  <1> USE EachHasAHome DEF HomeInv, roomVars, histories, counters, keeperVars, taskVars, newsVars
  <1> DEFINE asking  == [NoLook EXCEPT !.stage = "ask", !.env = EnvOf[s], !.todo = {s}]
             handled == Handling("resuming", EnvOf[s], s, {})
  <1>1. /\ UNCHANGED <<table, keeper, socket, ready, unheard, crossed>>
        /\ request' = [request EXCEPT ![r] = handled]
        /\ look' = [look EXCEPT ![r] = asking]
        /\ ready[s] /\ r \in Describers
    BY DEF Resume, Begin, Describers
  <1>2. handled \in Held /\ handled.at # "destroying"
    BY HandlingHeld DEF Places, Homes
  <1>3. asking \in Learnt /\ asking.todo = {s} /\ asking.stage = "ask"
    <2>1. EnvOf[s] \in Homes
      BY DEF Homes
    <2> QED
      BY <2>1, FreshLooks DEF Learnt
  <1> HIDE DEF asking, handled
  <1>4. Typed'
    BY <1>1, <1>2, <1>3 DEF Typed
  <1>5. Looks'
    BY <1>1, <1>3 DEF Typed, Looks, Sockets
  <1>6. Sockets' /\ NoneLeftRunning'
    BY <1>1 DEF Sockets, NoneLeftRunning
  <1>7. Endings'
    BY <1>1, <1>2 DEF Typed, Endings
  <1> QED
    BY <1>4, <1>5, <1>6, <1>7

\* A session is ended on behalf of whoever stops or destroys its home.
LEMMA KillKeeps ==
    ASSUME HomeInv, NEW r \in Requesters, NEW s \in Sessions, Kill(r, s)
    PROVE  HomeInv'
  <1> USE DEF HomeInv, roomVars, histories, counters, keeperVars, taskVars, newsVars
  <1> DEFINE left == [request[r] EXCEPT !.links = request[r].links \ {s}]
  <1>1. /\ UNCHANGED <<table, socket, ready, look, crossed>> /\ unheard \subseteq unheard'
        /\ request' = [request EXCEPT ![r] = left]
    BY DEF Kill, Reached, NotReached
  <1>2. /\ left \in Held /\ left.at = request[r].at /\ left.env = request[r].env
        /\ left.links = request[r].links \ {s}
    <2>1. request[r] \in Held
      BY DEF Typed
    <2> QED
      BY <2>1 DEF Held
  <1> HIDE DEF left
  <1>3. /\ \/ keeper' = keeper
           \/ keeper' = [keeper EXCEPT ![s] = IF keeper[s] = "up" THEN "dying" ELSE keeper[s]]
        /\ keeper'[s] = "up" => s \in unheard'
    BY DEF Kill, NotReached, Typed, Alive
  <1>4. Typed'
    BY <1>1, <1>2, <1>3 DEF Typed, Keepers
  <1>5. Looks'
    <2>1. /\ \A d \in Describers : look[d].todo \subseteq Sessions
          /\ \A t \in Sessions :
                /\ keeper[t] \notin {"none", "spawned"} => keeper'[t] \notin {"none", "spawned"}
                /\ keeper[t] \in {"gone", "dead"} => keeper'[t] \in {"gone", "dead"}
      BY <1>3 DEF Typed, Learnt
    <2> QED
      BY <1>1, <2>1 DEF Looks
  <1>6. Sockets'
    BY <1>1, <1>3 DEF Typed, Sockets
  <1>7. NoneLeftRunning'
    BY <1>1, <1>3 DEF Typed, NoneLeftRunning
  <1>8. Endings'
    <2>1. \A t \in Sessions : keeper'[t] = "up" => keeper[t] = "up" /\ (t # s \/ t \in unheard')
      BY <1>1, <1>3 DEF Typed
    <2> QED
      BY <1>1, <1>2, <2>1 DEF Typed, Endings
  <1> QED
    BY <1>4, <1>5, <1>6, <1>7, <1>8

\* The home goes once every session that was listed has been told to end: what
\* still runs in it began since, or had no socket to be listed by.
LEMMA DestroyedKeeps ==
    ASSUME HomeInv, NEW r \in Requesters, Destroyed(r)
    PROVE  HomeInv'
  <1> USE DEF HomeInv, roomVars, histories, counters, keeperVars, taskVars, newsVars
  <1> DEFINE saving == [request[r] EXCEPT !.at = "saving"]
  <1>1. /\ UNCHANGED <<keeper, socket, ready, look, unheard, crossed>>
        /\ request' = [request EXCEPT ![r] = saving]
        /\ table' = table \ {request[r].env}
        /\ request[r].at = "destroying" /\ request[r].links = {}
    BY DEF Destroyed
  <1>2. saving \in Held /\ saving.at = "saving"
    BY HeldOn DEF Typed, Places
  <1> HIDE DEF saving
  <1>3. Typed'
    BY <1>1, <1>2 DEF Typed
  <1>4. Looks' /\ Sockets'
    BY <1>1 DEF Looks, Sockets
  <1>5. Endings'
    BY <1>1, <1>2 DEF Typed, Endings
  <1>6. NoneLeftRunning'
    BY <1>1 DEF Endings, NoneLeftRunning
  <1> QED
    BY <1>3, <1>4, <1>5, <1>6

-----------------------------------------------------------------------------
\* A describer's look, in its three steps.
LEMMA LookKeeps ==
    ASSUME HomeInv, NEW d \in Describers, Look(d)
    PROVE  HomeInv'
  <1> USE DEF roomVars, histories, counters, keeperVars, newsVars
  <1>1. CASE /\ ListSockets(d)
             /\ UNCHANGED <<table, keeper, socket, ready, request, histories>>
    BY <1>1, ListSocketsKeeps
  <1>2. ASSUME NEW s \in Sessions, AskKeeper(d, s),
               UNCHANGED <<table, keeper, socket, ready, request, crossed>>
        PROVE  HomeInv'
    BY <1>2, AskKeeperKeeps
  <1>3. CASE /\ Forget(d)
             /\ UNCHANGED <<table, keeper, ready, request, histories>>
    BY <1>3, ForgetKeeps
  <1> QED
    BY <1>1, <1>2, <1>3 DEF Look

\* Every step keeps the sockets, the homes, and what the looks rely on.
LEMMA HomeStep == HomeInv /\ [Next]_vars => HomeInv'
  <1> SUFFICES ASSUME HomeInv, [Next]_vars
               PROVE  HomeInv'
    OBVIOUS
  <1>1. CASE \E d \in Describers : Look(d)
    BY <1>1, LookKeeps
  <1>2. ASSUME NEW s \in Sessions, KeeperStep(s) \/ Watcher(s)
        PROVE  HomeInv'
    BY <1>2, KeeperKeeps, WatcherAside, AsideKeeps DEF KeeperStep
  <1>3. ASSUME NEW r \in Requesters, Ask(r)
        PROVE  HomeInv'
    BY <1>3, AskAside, AsideKeeps, OpenSessionKeeps, ResumeKeeps DEF Ask
  <1>4. ASSUME NEW r \in Requesters, Handle(r)
        PROVE  HomeInv'
    BY <1>4, HandleAside, AsideKeeps, DestroyedKeeps, KillKeeps DEF Handle
  <1>5. CASE \/ \E f \in Followers : Follow(f) \/ Drop(f)
             \/ Restart \/ Rest \/ UNCHANGED vars
    BY <1>5, FollowAside, AsideKeeps
  <1>6. ASSUME NEW e \in Envs, ContainerExits(e)
        PROVE  HomeInv'
    BY <1>6, ExitAside, AsideKeeps
  <1> QED
    BY <1>1, <1>2, <1>3, <1>4, <1>5, <1>6 DEF Next, Host

\* The invariant the two theorems below are read off: what a look has listed,
\* what a handler has still to end, and the sockets and homes of what runs.
THEOREM HomesAreKept == Spec => []HomeInv
  <1> QED
    BY HomeInit, HomeStep, PTL DEF Spec

\* A keeper that answers keeps its socket, whoever describes its home, resumes
\* its session or restarts the host meanwhile, unless somebody had tried to reach
\* it in vain: before it listened, say (environment.rs:146 and 296).
THEOREM SocketsAreKept == Spec => []SocketKept
  <1>1. HomeInv => SocketKept
    BY DEF HomeInv, Sockets, SocketKept, Alive
  <1> QED
    BY <1>1, HomesAreKept, PTL

\* No shell runs on in a home that was destroyed, unless its keeper began to
\* listen while the destruction was under way or after it, or could not be reached
\* (host.rs:324), however many destroy, stop, create and start at once.
THEOREM NothingRunsOn == Spec => []NoneLeftRunning
  <1>1. HomeInv => NoneLeftRunning
    BY DEF HomeInv
  <1> QED
    BY <1>1, HomesAreKept, PTL
=============================================================================
