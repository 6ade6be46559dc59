-------------------------------- MODULE Tree --------------------------------
(***************************************************************************)
(* A tree that follows a host: `tree --watch` (devpipe/src/main.rs), the   *)
(* conversation that feeds it (devpipe/src/serve.rs), and what the person  *)
(* sees.                                                                   *)
(*                                                                         *)
(* A follower is welcomed with the whole host and asks to watch; from then *)
(* on a task of its own forwards the news, while the conversation's loop   *)
(* answers what it asks.  A follower that is told it is stale asks for the *)
(* whole host again.                                                       *)
(*                                                                         *)
(* Both put their frames in one queue, which keeps their order to the      *)
(* picture: a frame that was said is one that was applied, and a follower  *)
(* that does not read is one whose next frame was not said.                *)
(***************************************************************************)
EXTENDS Environment

VARIABLES conn,    \* the host's end: where talk() is
          asks,    \* what the follower asked and talk() has not read
          linked,  \* the follower has a host in its picture, not a reason
          view     \* that picture

followerVars == <<conn, asks, linked, view>>
vars == <<hostVars, followerVars>>

Unseen == [e \in Envs |-> [what |-> Absent, stood |-> TRUE]]

Init ==
    /\ HostInit
    /\ conn = [f \in Followers |-> "away"]
    /\ asks = [f \in Followers |-> <<>>]
    /\ linked = [f \in Followers |-> FALSE]
    /\ view = [f \in Followers |-> Unseen]

-----------------------------------------------------------------------------
(* The conversation with a follower. *)

Welcome(got, was) ==
    [kind |-> "welcome",
     all |-> [e \in Envs |-> [what |-> got[e], stood |-> Stood(was[e], got[e], e)]]]
Stale == [kind |-> "stale"]

\* follow_once, applying what is said under the picture's lock.  The first
\* welcome comes from reach(), and the request to watch after it.
Say(f, said) ==
    \/ /\ said.kind = "welcome"
       /\ view' = [view EXCEPT ![f] = said.all]
       /\ linked' = [linked EXCEPT ![f] = TRUE]
       /\ asks' = [asks EXCEPT ![f] = IF linked[f] THEN @ ELSE Append(@, "watch")]
    \/ /\ said.kind \in {"environment", "gone"}
       /\ view' = [view EXCEPT ![f][said.env] = [what |-> said.what, stood |-> said.stood]]
       /\ UNCHANGED <<asks, linked>>
    \/ /\ said.kind = "stale"
       /\ asks' = [asks EXCEPT ![f] = Append(@, "describe")]
       /\ UNCHANGED <<linked, view>>

\* Hello, with the right version and token: the host is being described.
Reach(f) ==
    /\ conn[f] = "away"
    /\ conn' = [conn EXCEPT ![f] = "describing"]
    /\ look' = [look EXCEPT ![f] = LookAtAll]
    /\ UNCHANGED <<roomVars, keeperVars, watch, stirs, request, newsVars, histories, counters>>
    /\ UNCHANGED <<asks, linked, view>>

\* The whole host, as the look found it.
SayWelcome(f) ==
    /\ conn[f] = "describing"
    /\ Looked(f) \/ LookedAtNothing(f)
    /\ Say(f, Welcome(IF Looked(f) THEN Described(f) ELSE look[f].got, look[f].was))
    /\ conn' = [conn EXCEPT ![f] = "reading"]
    /\ look' = [look EXCEPT ![f] = NoLook]
    /\ missed' = [missed EXCEPT ![f] = {}]
    /\ UNCHANGED <<roomVars, keeperVars, watch, stirs, request, subscribed, news, lagged, histories, counters>>

ReadAsk(f, what) ==
    /\ conn[f] = "reading"
    /\ asks[f] # <<>> /\ Head(asks[f]) = what
    /\ asks' = [asks EXCEPT ![f] = Tail(@)]

\* Watch{on}: a receiver is made, and forwarded from.  The Pong changes nothing.
ReadWatch(f) ==
    /\ ReadAsk(f, "watch")
    /\ subscribed' = [subscribed EXCEPT ![f] = TRUE]
    /\ news' = [news EXCEPT ![f] = <<>>]
    /\ lagged' = [lagged EXCEPT ![f] = FALSE]
    /\ UNCHANGED <<roomVars, keeperVars, taskVars, request, missed, histories, counters>>
    /\ UNCHANGED <<conn, linked, view>>

ReadDescribe(f) ==
    /\ ReadAsk(f, "describe")
    /\ conn' = [conn EXCEPT ![f] = "describing"]
    /\ look' = [look EXCEPT ![f] = LookAtAll]
    /\ UNCHANGED <<roomVars, keeperVars, watch, stirs, request, newsVars, histories, counters>>
    /\ UNCHANGED <<linked, view>>

\* Fault: falling behind is skipped over, and the news goes on from there.
ForwardSkippingLag(f) ==
    /\ subscribed[f] /\ news[f] # <<>>
    /\ Say(f, Head(news[f]))
    /\ news' = [news EXCEPT ![f] = Tail(@)]
    /\ lagged' = [lagged EXCEPT ![f] = FALSE]
    /\ missed' = [missed EXCEPT ![f] = @ \ {Head(news[f]).env}]
    /\ UNCHANGED <<roomVars, keeperVars, taskVars, request, subscribed, histories, counters>>
    /\ UNCHANGED conn

\* forward_news.  A receiver that lagged is told so once, and goes on with the
\* oldest word that is still held.
Forward(f) ==
    /\ subscribed[f]
    /\ \/ /\ lagged[f]
          /\ lagged' = [lagged EXCEPT ![f] = FALSE]
          /\ Say(f, Stale)
          /\ UNCHANGED <<news, missed>>
       \/ /\ ~lagged[f] /\ news[f] # <<>>
          /\ Say(f, Head(news[f]))
          /\ news' = [news EXCEPT ![f] = Tail(@)]
          /\ missed' = [missed EXCEPT ![f] = @ \ {Head(news[f]).env}]
          /\ UNCHANGED lagged
    /\ UNCHANGED <<roomVars, keeperVars, taskVars, request, subscribed, histories, counters>>
    /\ UNCHANGED conn

-----------------------------------------------------------------------------
\* Both ends of f's connection are gone, and follow() says so in the tree.
Broken(F) ==
    /\ conn' = [f \in Followers |-> IF f \in F THEN "away" ELSE conn[f]]
    /\ asks' = [f \in Followers |-> IF f \in F THEN <<>> ELSE asks[f]]
    /\ linked' = [f \in Followers |-> linked[f] /\ f \notin F]
    /\ view' = [f \in Followers |-> IF f \in F THEN Unseen ELSE view[f]]

Drop(f) ==
    /\ conn[f] # "away"
    /\ Chance
    /\ Broken({f})
    /\ subscribed' = [subscribed EXCEPT ![f] = FALSE]
    /\ news' = [news EXCEPT ![f] = <<>>]
    /\ lagged' = [lagged EXCEPT ![f] = FALSE]
    /\ missed' = [missed EXCEPT ![f] = {}]
    /\ look' = [look EXCEPT ![f] = NoLook]
    /\ UNCHANGED <<roomVars, keeperVars, watch, stirs, request, histories, requests>>

Restart ==
    /\ RestartHost
    /\ Broken({f \in Followers : conn[f] # "away"})

-----------------------------------------------------------------------------
Host == \/ \E e \in Envs : ContainerExits(e)
        \/ \E d \in Describers : Look(d)
        \/ \E s \in Sessions : KeeperStep(s) \/ Watcher(s)
        \/ \E r \in Requesters : Ask(r) \/ Handle(r)

Follow(f) == Reach(f) \/ SayWelcome(f) \/ ReadWatch(f) \/ ReadDescribe(f) \/ Forward(f)

-----------------------------------------------------------------------------
(* Nothing is on its way to the tree: no request is being handled, no task *)
(* has something to tell, and every frame and wake-up was taken.           *)

HostAtRest ==
    /\ \A r \in Requesters : request[r] = Idle
    /\ \A s \in Sessions :
         /\ keeper[s] \notin {"spawned", "bound", "dying"}
         /\ watch[s] \in {"none", "refused", "done"}
            \/ (watch[s] = "listening" /\ stirs[s] = 0 /\ keeper[s] = "up")

FollowerAtRest(f) ==
    /\ conn[f] = "reading" /\ subscribed[f]
    /\ news[f] = <<>> /\ ~lagged[f]
    /\ asks[f] = <<>>

AtRest == HostAtRest /\ \A f \in Followers : FollowerAtRest(f)

\* What a run that is over stops in.
Rest == AtRest /\ UNCHANGED vars

Next ==
    \/ Host /\ UNCHANGED followerVars
    \/ \E f \in Followers : Follow(f) \/ Drop(f)
    \/ Restart
    \/ Rest

Spec == Init /\ [][Next]_vars

-----------------------------------------------------------------------------
\* Ready when its handler gave it up, and nobody has watched it since.
Unannounced(s) == s \in late /\ watch[s] = "none"

\* At rest, what a person sees of an environment is what the host has, but for
\* the ways to be quietly wrong that a reader of the code can name.  The whole
\* of the picture: its description was overtaken by a change while it was made,
\* or was begun when the environment had gone already (environment.rs:80); or
\* it was announced between the welcome and the watch (main.rs:574).  Or else
\* one part of it: a container that exited by itself, which stirs nobody; a
\* session that is over, whose watcher was refused (environment.rs:75) or that
\* had none; a session that runs and was never announced, having been ready too
\* late (environment.rs:242), or that lost its socket (environment.rs:296).
WrongOnlyKnownWays ==
    AtRest => \A f \in Followers, e \in Envs :
        /\ linked[f]
        /\ LET shown == view[f][e].what
               is    == Truth(e) IN
           \/ ~view[f][e].stood
           \/ e \in missed[f]
           \/ /\ shown.here = is.here
              /\ shown.up = is.up \/ (shown.up /\ e \in exited)
              /\ \A s \in shown.sessions \ is.sessions : watch[s] = "refused" \/ Unannounced(s)
              /\ \A s \in is.sessions \ shown.sessions : ~socket[s] \/ Unannounced(s)

\* A keeper that runs keeps its socket, unless somebody had tried to reach it in
\* vain: describe() and attach() forget the sockets of those that have gone,
\* never one that is still holding a last screen (keeper.rs:411).
SocketKept ==
    \A s \in Sessions : keeper[s] \in Alive \cup {"over"} => socket[s] \/ s \in unheard

\* No shell runs on in an environment that was destroyed, but for one whose
\* keeper began to listen after its home had begun to go (host.rs:325), or
\* that could not be reached by its socket.
NoneLeftRunning ==
    \A s \in Sessions :
        keeper[s] = "up" /\ EnvOf[s] \notin table => s \in crossed \cup unheard
=============================================================================
