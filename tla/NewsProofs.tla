----------------------------- MODULE NewsProofs -----------------------------
(***************************************************************************)
(* What a person sees in a tree that follows a host, proved for any number *)
(* of environments, sessions, clients, followers and requests, and any     *)
(* backlog of news.                                                        *)
(***************************************************************************)
EXTENDS TreeProofs

\* A handler waits for the session's ready line.
WaitsFor(r, s) == request[r].at = "waiting" /\ request[r].session = s
WaitedFor(s) == \E r \in Requesters : WaitsFor(r, s)

\* A session that was seen in a description: it is watched, or will be, or was
\* given up, unless its home is gone.
Known(s) ==
    /\ ready[s] /\ EnvOf[s] \in born
    /\ watch[s] # "none" \/ WaitedFor(s) \/ s \in late \/ EnvOf[s] \notin table

\* A handler is going to announce the environment.
Telling == {"creating", "telling", "opening"}
Promises(r, e) == request[r].env = e /\ request[r].at \in Telling \cup {"saving"}
Promised(e) == \E r \in Requesters : Promises(r, e)

\* Its end, if it has one, will be told, or there is a reason why not.
Told(s) == watch[s] \notin {"none", "done"} \/ WaitedFor(s) \/ Unannounced(s)

\* There is a reason not to show it.
Hidden(s) == ~socket[s] \/ WaitedFor(s) \/ Unannounced(s)

\* What was said of an environment is so, but for what a reason can be given for.
Explained(what, e) ==
    \/ e \notin table /\ what = Absent
    \/ /\ e \in table /\ what.here
       /\ what.up = (e \in up) \/ (what.up /\ e \in exited)
       /\ \A s \in what.sessions : EnvOf[s] = e /\ ready[s] /\ Told(s)
       /\ \A s \in Sessions :
              EnvOf[s] = e /\ keeper[s] \in Alive => s \in what.sessions \/ Hidden(s)

\* Or it did not stand when it was said, or is about to be said anew.
Accounted(what, stood, e) == ~stood \/ Promised(e) \/ Explained(what, e)

Word == [kind : {"environment", "gone"}, env : Envs, what : Shape, stood : BOOLEAN]
Picture == [what : Shape, stood : BOOLEAN]

HostTyped ==
    /\ born \subseteq Envs /\ table \subseteq born
    /\ watch \in [Sessions -> {"none", "connecting", "listening", "refused",
                               "looking", "ending", "done"}]

TreeTyped ==
    /\ news \in [Followers -> Seq(Word)]
    /\ missed \in [Followers -> SUBSET Envs]
    /\ lagged \in [Followers -> BOOLEAN] /\ subscribed \in [Followers -> BOOLEAN]
    /\ linked \in [Followers -> BOOLEAN]
    /\ conn \in [Followers -> {"away", "describing", "reading"}]
    /\ asks \in [Followers -> Seq({"watch", "describe"})]
    /\ view \in [Followers -> [Envs -> Picture]]

\* Sessions and requests are of environments that were made; one whose removal is
\* to be announced has been removed.
Births ==
    /\ \A s \in Sessions : keeper[s] # "none" => EnvOf[s] \in born
    /\ \A r \in Requesters :
           /\ request[r].at # "idle" => request[r].env \in born
           /\ request[r].at = "saving" => request[r].env \notin table
           /\ request[r].at = "waiting" =>
                  /\ request[r].session \in Sessions
                  /\ request[r].env = EnvOf[request[r].session]

\* One handler waits for a session, and nobody watches it meanwhile.
Waiting ==
    \A s \in Sessions :
        /\ keeper[s] = "none" => watch[s] = "none" /\ ~WaitedFor(s)
        /\ WaitedFor(s) => watch[s] = "none"
        /\ \A r, q \in Requesters : WaitsFor(r, s) /\ WaitsFor(q, s) => r = q

\* A session that is ready and can be found is watched, or will be, or was given up.
Watching ==
    \A s \in Sessions :
        /\ keeper[s] \in Alive => ready[s]
        /\ ready[s] => keeper[s] \notin {"none", "spawned", "bound"}
        /\ watch[s] \in {"ending", "done"} => keeper[s] \in Over
        /\ ready[s] /\ socket[s] /\ EnvOf[s] \in table => Known(s)

\* What a look has of an environment by now, and whom it has still to ask there.
At(l, x) == x = l.env /\ l.stage \in {"ask", "forget"}
Sketch(l, x) ==
    IF At(l, x) THEN [here |-> TRUE, up |-> l.up, sessions |-> l.seen] ELSE l.got[x]
Open(l, x) ==
    IF At(l, x) THEN l.todo \cup (IF l.stage = "forget" THEN {l.litter} ELSE {}) ELSE {}

\* What it has is what there was when it began, and what has begun since; what is
\* not in it is still to be asked, or has lost its socket, or is over.
TrueOf(l, x) ==
    LET was == l.was[x]
        has == Sketch(l, x) IN
    /\ was.is.sessions \subseteq was.begun
    /\ \A s \in was.begun :
           /\ EnvOf[s] = x /\ ready[s]
           /\ s \in was.is.sessions \/ ~was.is.here \/ keeper[s] \in Over
    /\ ~has.here => has = Absent
    /\ has.here /\ was.is.here =>
           /\ has.up = was.is.up
           /\ \A s \in has.sessions :
                  EnvOf[s] = x /\ Known(s) /\ (s \in was.begun => s \in was.is.sessions)
           /\ \A s \in Open(l, x) : s \in Sessions /\ EnvOf[s] = x /\ (ready[s] => Known(s))
           /\ \A s \in was.is.sessions :
                  s \in has.sessions \cup Open(l, x) \/ ~socket[s] \/ keeper[s] \in Over

\* An environment that a handler, or a watcher, is going to tell everybody of.
Tells(d, x) ==
    \/ d \in Requesters /\ request[d].at \in Telling /\ request[d].env = x
    \/ d \in Sessions /\ watch[d] \in {"looking", "ending"} /\ EnvOf[d] = x

\* It does not leave out what it is for: that, or all there was for a follower.
Covers(d, l, x) ==
    Tells(d, x) \/ (d \in Followers /\ l.was[x].is.here) =>
        Sketch(l, x).here \/ x \in l.left

\* Every look is true as far as it got.
Clear(d) == \A x \in Envs : TrueOf(look[d], x) /\ Covers(d, look[d], x)
LooksTrue == \A d \in Describers : Clear(d)

HostKnows == HostTyped /\ Births /\ Waiting /\ Watching /\ LooksTrue

\* Where a follower is, and what it may have asked.
TalksTo(f) ==
    /\ conn[f] = "away" => view[f] = Unseen
    /\ conn[f] = "reading" <=> (linked[f] /\ conn[f] # "describing")
    /\ ~linked[f] => asks[f] = <<>> /\ ~subscribed[f]
    /\ linked[f] /\ ~subscribed[f] => conn[f] = "reading" /\ asks[f] = <<"watch">>
    /\ subscribed[f] => \A i \in DOMAIN asks[f] : asks[f][i] = "describe"
    /\ ~subscribed[f] => news[f] = <<>> /\ ~lagged[f]
Talking == \A f \in Followers : TalksTo(f)

\* The last word on an environment that a follower has still to take.
LastOn(q, i) == \A j \in DOMAIN q : j > i => q[j].env # q[i].env
NoneOn(q, e) == \A j \in DOMAIN q : q[j].env # e

\* The follower will not ask for the whole host again of what it knows now.
Settled(f) ==
    /\ conn[f] = "reading" /\ ~lagged[f]
    /\ \A i \in DOMAIN asks[f] : asks[f][i] # "describe"

LastWordsOf(f) ==
    \A i \in DOMAIN news[f] :
        LastOn(news[f], i) =>
            Accounted(news[f][i].what, news[f][i].stood, news[f][i].env)
LastWordsCount == \A f \in Followers : LastWordsOf(f)

PicturesOf(f) ==
    \A e \in Envs :
        Settled(f) /\ NoneOn(news[f], e) =>
            Accounted(view[f][e].what, view[f][e].stood, e) \/ e \in missed[f]
PicturesCount == \A f \in Followers : PicturesOf(f)

TreesFollow == TreeTyped /\ Talking /\ LastWordsCount /\ PicturesCount

NewsInv == HostKnows /\ TreesFollow

-----------------------------------------------------------------------------
(* What a step may do to what was said, and to what was learnt. *)

\* Nothing that is ready, over, out of reach or known of a session is undone.
Remembers ==
    \A s \in Sessions :
        /\ ready[s] => ready'[s]
        /\ keeper[s] \in Over => keeper'[s] \in Over
        /\ ready[s] /\ socket'[s] => socket[s]
        /\ Known(s) => Known(s)'
        /\ ready'[s] => ready[s] \/ Known(s)'

\* What was said and accounted for still is, but for what is told anew.
Upholds(E) ==
    \A what \in Shape, stood \in BOOLEAN, e \in Envs \ E :
        Accounted(what, stood, e) => Accounted(what, stood, e)'

\* The environment is as it was, or its container has exited; its sessions that
\* run did so before, and the reasons for them are still there.
Steady(e) ==
    /\ e \in table' <=> e \in table
    /\ (e \in up' <=> e \in up) \/ (e \in up /\ e \notin up' /\ e \in exited')
    /\ e \in exited => e \in exited'
    /\ \A s \in Sessions : EnvOf[s] = e =>
           /\ ready[s] => ready'[s]
           /\ ready[s] /\ Told(s) => Told(s)'
           /\ keeper'[s] \in Alive /\ ~Hidden(s)' => keeper[s] \in Alive /\ ~Hidden(s)

\* A look that is as it was, and is for nothing more than it was.
Keeps(d) == look'[d] = look[d] /\ \A x \in Envs : Tells(d, x)' => Tells(d, x)

\* A look that was dropped, or has just begun.
Asking(s) == [NoLook EXCEPT !.stage = "ask", !.env = EnvOf[s], !.todo = {s}]
Fresh(d) ==
    \/ /\ look'[d] = NoLook \/ \E s \in Sessions : look'[d] = Asking(s)
       /\ \A x \in Envs : ~Tells(d, x)'
    \/ \E e \in Envs : look'[d] = LookAt(e) /\ \A x \in Envs : Tells(d, x)' => x = e
    \/ look'[d] = LookAtAll /\ \A x \in Envs : ~Tells(d, x)'

\* The invariant holds of a host that nobody follows yet.
LEMMA NewsInit == Init => NewsInv
  <1> SUFFICES ASSUME Init PROVE NewsInv
    OBVIOUS
  <1> USE DEF Init, HostInit
  <1>1. HostTyped /\ Births /\ Watching /\ Waiting
    BY EachHasAHome DEF HostTyped, Births, Watching, Waiting, WaitedFor, WaitsFor, Alive,
                        Idle, Handling
  <1>2. LooksTrue
    <2>1. \A d \in Describers : look[d] = NoLook /\ \A x \in Envs : ~Tells(d, x)
      BY DEF Tells, Telling, Idle, Handling
    <2>2. \A x \in Envs : /\ NoLook.was[x] = Unmarked /\ NoLook.got[x] = Absent
                          /\ ~At(NoLook, x)
      BY DEF NoLook, At
    <2>3. \A x \in Envs : TrueOf(NoLook, x)
      BY <2>2 DEF TrueOf, Sketch, Open, Unmarked, Absent
    <2>4. \A x \in Envs : ~NoLook.was[x].is.here
      BY <2>2 DEF Unmarked, Absent
    <2> QED
      BY <2>1, <2>3, <2>4 DEF LooksTrue, Clear, Covers
  <1>3. \A f \in Followers : /\ news[f] = <<>> /\ conn[f] = "away" /\ view[f] = Unseen
                             /\ asks[f] = <<>> /\ ~linked[f] /\ ~subscribed[f] /\ ~lagged[f]
    OBVIOUS
  <1>4. Unseen \in [Envs -> Picture]
    BY DEF Unseen, Picture, Shape, Absent
  <1>5. TreeTyped
    BY <1>4 DEF TreeTyped
  <1>6. Talking /\ LastWordsCount /\ PicturesCount
    BY <1>3 DEF Talking, TalksTo, LastWordsCount, LastWordsOf, PicturesCount, PicturesOf, Settled
  <1> QED
    BY <1>1, <1>2, <1>5, <1>6 DEF NewsInv, HostKnows, TreesFollow

\* What is explained still is, when its environment is steady.
LEMMA SteadyExplains ==
    ASSUME NEW what \in Shape, NEW e \in Envs, Steady(e), Explained(what, e)
    PROVE  Explained(what, e)'
  <1>1. what.sessions \subseteq Sessions /\ what.up \in BOOLEAN
    BY DEF Shape
  <1>2. CASE e \notin table
    BY <1>2 DEF Explained, Steady
  <1>3. CASE e \in table
    <2>1. /\ e \in table' /\ what.here
          /\ (what.up = (e \in up)) \/ (what.up /\ e \in exited)
      BY <1>3 DEF Explained, Steady
    <2>2. (what.up = (e \in up')) \/ (what.up /\ e \in exited')
      BY <1>1, <2>1 DEF Steady
    <2>3. \A s \in what.sessions : EnvOf[s] = e /\ ready'[s] /\ Told(s)'
      BY <1>1, <1>3 DEF Explained, Steady
    <2>4. \A s \in Sessions :
              EnvOf[s] = e /\ keeper'[s] \in Alive => s \in what.sessions \/ Hidden(s)'
      BY <1>3 DEF Explained, Steady
    <2> QED
      BY <2>1, <2>2, <2>3, <2>4 DEF Explained
  <1> QED
    BY <1>2, <1>3

\* What was said is still accounted for when its environment is steady, or
\* somebody is going to announce it.
LEMMA UpholdsIf ==
    ASSUME NEW E,
           \A e \in Envs \ E : Promised(e) => Promised(e)',
           \A e \in Envs \ E : Steady(e) \/ Promised(e)'
    PROVE  Upholds(E)
  <1> SUFFICES ASSUME NEW what \in Shape, NEW stood \in BOOLEAN, NEW e \in Envs \ E,
                      Accounted(what, stood, e)
               PROVE  Accounted(what, stood, e)'
    BY DEF Upholds
  <1>1. CASE Promised(e)'
    BY <1>1 DEF Accounted
  <1>2. CASE Explained(what, e) /\ Steady(e)
    BY <1>2, SteadyExplains DEF Accounted
  <1> QED
    BY <1>1, <1>2 DEF Accounted

\* What a look is held against: what runs had begun, and what had begun and does
\* not run is over.
LEMMA MarkIsTrue ==
    ASSUME HomeInv, Watching, NEW x \in Envs
    PROVE  /\ Mark(x).is.sessions \subseteq Mark(x).begun /\ Mark(x).begun \subseteq Sessions
           /\ Mark(x).is.here <=> x \in table
           /\ x \in table => Mark(x).is.up = (x \in up)
           /\ \A s \in Mark(x).begun :
                  /\ EnvOf[s] = x /\ ready[s]
                  /\ s \in Mark(x).is.sessions \/ ~Mark(x).is.here \/ keeper[s] \in Over
           /\ \A s \in Sessions : EnvOf[s] = x /\ ready[s] => s \in Mark(x).begun
           /\ x \in table => \A s \in Sessions :
                  s \in Mark(x).is.sessions <=> EnvOf[s] = x /\ keeper[s] \in Alive
  <1>1. \A s \in Sessions :
            /\ keeper[s] \in Alive => ready[s]
            /\ ready[s] => keeper[s] \in Alive \cup Over
    BY DEF HomeInv, Typed, Keepers, Watching, Alive, Over
  <1>2. CASE x \in table
    <2>1. /\ Mark(x).is.here = TRUE /\ Mark(x).is.up = (x \in up)
          /\ Mark(x).is.sessions = {s \in Sessions : EnvOf[s] = x /\ keeper[s] \in Alive}
          /\ Mark(x).begun = {s \in Sessions : EnvOf[s] = x /\ ready[s]}
      BY <1>2 DEF Mark, Truth
    <2>2. /\ Mark(x).is.sessions \subseteq Mark(x).begun /\ Mark(x).begun \subseteq Sessions
          /\ \A s \in Mark(x).begun : s \in Mark(x).is.sessions \/ keeper[s] \in Over
      BY <1>1, <2>1
    <2>3. /\ \A s \in Sessions : EnvOf[s] = x /\ ready[s] <=> s \in Mark(x).begun
          /\ \A s \in Sessions :
                 s \in Mark(x).is.sessions <=> EnvOf[s] = x /\ keeper[s] \in Alive
      BY <2>1
    <2> QED
      BY <1>2, <2>1, <2>2, <2>3
  <1>3. CASE x \notin table
    <2>1. Truth(x) = Absent
      BY <1>3 DEF Truth
    <2>2. /\ Mark(x).is = Absent
          /\ Mark(x).begun = {s \in Sessions : EnvOf[s] = x /\ ready[s]}
      BY <2>1 DEF Mark
    <2>3. ~Mark(x).is.here /\ Mark(x).is.sessions = {}
      <3>1. Absent.here = FALSE /\ Absent.sessions = {}
        BY DEF Absent
      <3> QED  BY <2>2, <3>1
    <2> QED
      BY <1>3, <2>2, <2>3
  <1> QED
    BY <1>2, <1>3

\* A look that has just begun is true: it has nothing yet.
LEMMA FreshIsTrue ==
    ASSUME HomeInv, Watching, NEW x \in Envs
    PROVE  /\ TrueOf(NoLook, x) /\ ~NoLook.was[x].is.here
           /\ \A s \in Sessions : TrueOf(Asking(s), x) /\ ~Asking(s).was[x].is.here
           /\ \A e \in Envs : /\ TrueOf(LookAt(e), x) /\ ~LookAt(e).was[x].is.here
                              /\ LookAt(e).left = {e}
           /\ TrueOf(LookAtAll, x)
           /\ LookAtAll.was[x].is.here => x \in LookAtAll.left
  <1> USE DEF TrueOf, Sketch, At, Open, NoLook, Unmarked, Absent
  <1>1. TrueOf(NoLook, x) /\ ~NoLook.was[x].is.here
    OBVIOUS
  <1>2. ASSUME NEW s \in Sessions
        PROVE  TrueOf(Asking(s), x) /\ ~Asking(s).was[x].is.here
    BY DEF Asking
  <1>3. ASSUME NEW e \in Envs
        PROVE  TrueOf(LookAt(e), x) /\ ~LookAt(e).was[x].is.here /\ LookAt(e).left = {e}
    BY DEF LookAt
  <1>4. TrueOf(LookAtAll, x) /\ (LookAtAll.was[x].is.here => x \in LookAtAll.left)
    <2>1. /\ LookAtAll.was[x] = Mark(x) /\ LookAtAll.got[x] = Absent
          /\ LookAtAll.stage = "next" /\ LookAtAll.left = table
      BY DEF LookAtAll
    <2> HIDE DEF NoLook, Unmarked
    <2> QED
      BY <2>1, MarkIsTrue
  <1> QED
    BY <1>1, <1>2, <1>3, <1>4

\* Whatever a look has learnt is what it was.
LEMMA TrueStays ==
    ASSUME Remembers, NEW l \in Learnt, NEW x \in Envs, TrueOf(l, x)
    PROVE  TrueOf(l, x)'
  <1> DEFINE was == l.was[x]
             has == Sketch(l, x)
             open == Open(l, x)
  <1>1. /\ was.begun \subseteq Sessions /\ was.is.sessions \subseteq Sessions
        /\ has.sessions \subseteq Sessions
    BY DEF Learnt, Marks, Shape, Sketch
  <1>2. /\ was.is.sessions \subseteq was.begun
        /\ \A s \in was.begun :
               /\ EnvOf[s] = x /\ ready[s]
               /\ s \in was.is.sessions \/ ~was.is.here \/ keeper[s] \in Over
        /\ ~has.here => has = Absent
    BY DEF TrueOf
  <1>3. \A s \in was.begun :
            /\ EnvOf[s] = x /\ ready'[s]
            /\ s \in was.is.sessions \/ ~was.is.here \/ keeper'[s] \in Over
    BY <1>1, <1>2 DEF Remembers
  <1>4. ASSUME has.here, was.is.here
        PROVE  /\ has.up = was.is.up
               /\ \A s \in has.sessions :
                      EnvOf[s] = x /\ Known(s)' /\ (s \in was.begun => s \in was.is.sessions)
               /\ \A s \in open : s \in Sessions /\ EnvOf[s] = x /\ (ready'[s] => Known(s)')
               /\ \A s \in was.is.sessions :
                      s \in has.sessions \cup open \/ ~socket'[s] \/ keeper'[s] \in Over
    <2>1. /\ has.up = was.is.up
          /\ \A s \in has.sessions :
                 EnvOf[s] = x /\ Known(s) /\ (s \in was.begun => s \in was.is.sessions)
          /\ \A s \in open : s \in Sessions /\ EnvOf[s] = x /\ (ready[s] => Known(s))
          /\ \A s \in was.is.sessions :
                 s \in has.sessions \cup open \/ ~socket[s] \/ keeper[s] \in Over
      BY <1>4 DEF TrueOf
    <2> HIDE DEF was, has, open
    <2> QED
      BY <1>1, <1>2, <2>1 DEF Remembers
  <1>5. Sketch(l, x)' = has /\ Open(l, x)' = open
    BY DEF Sketch, At, Open
  <1> QED
    BY <1>2, <1>3, <1>4, <1>5 DEF TrueOf

\* A look that is as it was, or has just begun, is as true as it was; one that
\* goes on has to be looked at.
LEMMA LooksStay ==
    ASSUME HomeInv, Watching, LooksTrue, Remembers,
           \A d \in Describers : Keeps(d) \/ Fresh(d) \/ Clear(d)'
    PROVE  LooksTrue'
  <1> SUFFICES ASSUME NEW d \in Describers, NEW x \in Envs, Keeps(d) \/ Fresh(d)
               PROVE  TrueOf(look[d], x)' /\ Covers(d, look[d], x)'
    BY DEF LooksTrue, Clear
  <1> DEFINE Good(l) == /\ l \in Learnt /\ TrueOf(l, x)
                        /\ Tells(d, x)' \/ (d \in Followers /\ l.was[x].is.here) =>
                               Sketch(l, x).here \/ x \in l.left
  <1>1. ASSUME NEW l, l = look'[d], Good(l)
        PROVE  TrueOf(look[d], x)' /\ Covers(d, look[d], x)'
    <2>1. TrueOf(l, x)'
      BY <1>1, TrueStays
    <2>2. Covers(d, l, x)'
      BY <1>1 DEF Covers, Sketch, At
    <2> QED
      BY <1>1, <2>1, <2>2
  <1>2. CASE Keeps(d)
    <2>1. PICK l : l = look'[d] /\ l = look[d]
      BY <1>2 DEF Keeps
    <2>2. l \in Learnt /\ TrueOf(l, x) /\ Covers(d, l, x)
      BY <2>1 DEF LooksTrue, Clear, HomeInv, Typed
    <2>3. Good(l)
      BY <1>2, <2>2 DEF Keeps, Covers
    <2> QED
      BY <1>1, <2>1, <2>3
  <1>3. CASE Fresh(d)
    <2>0. table \subseteq Envs /\ Envs \subseteq Homes
      BY DEF HomeInv, Typed, Homes
    <2>1. CASE look'[d] = NoLook /\ ~Tells(d, x)'
      <3>1. Good(NoLook)
        BY <2>1, FreshLooks, FreshIsTrue
      <3> QED
        BY <1>1, <2>1, <3>1
    <2>2. ASSUME NEW s \in Sessions, look'[d] = Asking(s), ~Tells(d, x)'
          PROVE  TrueOf(look[d], x)' /\ Covers(d, look[d], x)'
      <3>1. Asking(s) \in Learnt
        <4>1. EnvOf[s] \in Homes /\ {s} \in SUBSET Sessions
          BY <2>0, EachHasAHome
        <4> QED
          BY <4>1, FreshLooks DEF Asking, Learnt
      <3>2. Good(Asking(s))
        BY <2>2, <3>1, FreshIsTrue
      <3> QED
        BY <1>1, <2>2, <3>2
    <2>3. ASSUME NEW e \in Envs, look'[d] = LookAt(e), Tells(d, x)' => x = e
          PROVE  TrueOf(look[d], x)' /\ Covers(d, look[d], x)'
      <3>1. Good(LookAt(e))
        BY <2>0, <2>3, FreshLooks, FreshIsTrue
      <3> QED
        BY <1>1, <2>3, <3>1
    <2>4. CASE look'[d] = LookAtAll /\ ~Tells(d, x)'
      <3>1. PICK l : l = LookAtAll
        OBVIOUS
      <3>2. Good(l)
        BY <2>0, <2>4, <3>1, FreshLooks, FreshIsTrue
      <3> QED
        BY <1>1, <2>4, <3>1, <3>2
    <2> QED
      BY <1>3, <2>1, <2>2, <2>3, <2>4 DEF Fresh
  <1> QED
    BY <1>2, <1>3

\* A word has an environment and a shape, and stood or not.
LEMMA WordIs ==
    \A m \in Word : /\ m.env \in Envs /\ m.what \in Shape /\ m.stood \in BOOLEAN
                    /\ m.kind \in {"environment", "gone"}
                    /\ m.what.sessions \subseteq Sessions
  BY DEF Word, Shape

\* What a follower is shown of an environment has a shape, and stood or not.
LEMMA PictureIs ==
    \A p \in Picture : p.what \in Shape /\ p.stood \in BOOLEAN /\ p.what.sessions \subseteq Sessions
  BY DEF Picture, Shape

\* A step that tells nobody anything leaves the followers what they have.
LEMMA SilenceKeeps ==
    ASSUME NewsInv, HostKnows', Upholds({}), UNCHANGED <<followerVars, newsVars>>
    PROVE  NewsInv'
  <1> USE DEF NewsInv, TreesFollow, followerVars, newsVars
  <1>1. TreeTyped' /\ Talking'
    BY DEF TreeTyped, Talking, TalksTo
  <1>2. /\ \A f \in Followers : \A i \in DOMAIN news[f] : news[f][i] \in Word
        /\ \A f \in Followers, e \in Envs : view[f][e] \in Picture
    BY DEF TreeTyped
  <1>3. LastWordsCount'
    <2> SUFFICES ASSUME NEW f \in Followers, NEW i \in DOMAIN news[f], LastOn(news[f], i)
                 PROVE  Accounted(news[f][i].what, news[f][i].stood, news[f][i].env)'
      BY DEF LastWordsCount, LastWordsOf
    <2> DEFINE m == news[f][i]
    <2>1. m \in Word /\ Accounted(m.what, m.stood, m.env)
      BY <1>2 DEF LastWordsCount, LastWordsOf
    <2>2. PICK what \in Shape, stood \in BOOLEAN, e \in Envs :
              what = m.what /\ stood = m.stood /\ e = m.env
      BY <2>1, WordIs
    <2>3. Accounted(what, stood, e)'
      BY <2>1, <2>2 DEF Upholds
    <2> QED
      BY <2>2, <2>3
  <1>4. PicturesCount'
    <2> SUFFICES ASSUME NEW f \in Followers, NEW e \in Envs, Settled(f), NoneOn(news[f], e),
                        e \notin missed[f]
                 PROVE  Accounted(view[f][e].what, view[f][e].stood, e)'
      BY DEF PicturesCount, PicturesOf, Settled
    <2> DEFINE p == view[f][e]
    <2>1. p \in Picture /\ Accounted(p.what, p.stood, e)
      BY <1>2 DEF PicturesCount, PicturesOf
    <2>2. PICK what \in Shape, stood \in BOOLEAN : what = p.what /\ stood = p.stood
      BY <2>1, PictureIs
    <2>3. Accounted(what, stood, e)'
      BY <2>1, <2>2 DEF Upholds
    <2> QED
      BY <2>2, <2>3
  <1> QED
    BY <1>1, <1>3, <1>4

\* What is still to come when a queue has one more word.
LEMMA OneMoreWord ==
    ASSUME NEW q \in Seq(Word), NEW m \in Word
    PROVE  /\ Append(q, m) \in Seq(Word)
           /\ \A i \in DOMAIN Append(q, m) :
                  \/ Append(q, m)[i] = m
                  \/ /\ i \in DOMAIN q /\ Append(q, m)[i] = q[i]
                     /\ LastOn(Append(q, m), i) => LastOn(q, i) /\ q[i].env # m.env
           /\ \A e : NoneOn(Append(q, m), e) => NoneOn(q, e) /\ m.env # e
  <1> DEFINE more == Append(q, m)
  <1>1. /\ more \in Seq(Word) /\ Len(q) \in Nat /\ DOMAIN more = 1 .. Len(q) + 1
        /\ DOMAIN q = 1 .. Len(q) /\ more[Len(q) + 1] = m
        /\ \A i \in DOMAIN q : i \in DOMAIN more /\ more[i] = q[i]
    OBVIOUS
  <1> HIDE DEF more
  <1>2. ASSUME NEW i \in DOMAIN more, more[i] # m
        PROVE  /\ i \in DOMAIN q /\ more[i] = q[i]
               /\ LastOn(more, i) => LastOn(q, i) /\ q[i].env # m.env
    <2>1. i \in DOMAIN q /\ i < Len(q) + 1 /\ Len(q) + 1 \in DOMAIN more
      BY <1>1, <1>2
    <2> QED
      BY <1>1, <2>1 DEF LastOn
  <1>3. \A e : NoneOn(more, e) => NoneOn(q, e) /\ m.env # e
    <2>1. Len(q) + 1 \in DOMAIN more
      BY <1>1
    <2> QED
      BY <1>1, <2>1 DEF NoneOn
  <1> QED
    BY <1>1, <1>2, <1>3 DEF more

\* What is still to come when the first word was taken, or overwritten.
LEMMA OneWordLess ==
    ASSUME NEW q \in Seq(Word), q # <<>>
    PROVE  /\ Head(q) = q[1] /\ 1 \in DOMAIN q /\ q[1] \in Word /\ Tail(q) \in Seq(Word)
           /\ \A i \in DOMAIN Tail(q) :
                  /\ i + 1 \in DOMAIN q /\ Tail(q)[i] = q[i + 1]
                  /\ LastOn(Tail(q), i) => LastOn(q, i + 1)
           /\ \A e : NoneOn(Tail(q), e) /\ q[1].env # e => NoneOn(q, e)
           /\ NoneOn(Tail(q), q[1].env) => LastOn(q, 1)
  <1> DEFINE rest == Tail(q)
  <1>1. /\ Head(q) = q[1] /\ 1 \in DOMAIN q /\ q[1] \in Word /\ rest \in Seq(Word)
        /\ Len(q) \in Nat \ {0} /\ DOMAIN q = 1 .. Len(q) /\ DOMAIN rest = 1 .. Len(q) - 1
        /\ \A i \in DOMAIN rest : rest[i] = q[i + 1]
    OBVIOUS
  <1> HIDE DEF rest
  <1>2. \A j \in DOMAIN q : j # 1 => j - 1 \in DOMAIN rest /\ rest[j - 1] = q[j]
    BY <1>1
  <1>3. ASSUME NEW i \in DOMAIN rest
        PROVE  /\ i + 1 \in DOMAIN q /\ rest[i] = q[i + 1]
               /\ LastOn(rest, i) => LastOn(q, i + 1)
    <2>1. i \in Nat \ {0} /\ i + 1 \in DOMAIN q
      BY <1>1
    <2>2. \A j \in DOMAIN q : j > i + 1 => j # 1 /\ j - 1 > i
      BY <1>1, <2>1
    <2> QED
      BY <1>1, <1>2, <2>1, <2>2 DEF LastOn
  <1>4. \A e : NoneOn(rest, e) /\ q[1].env # e => NoneOn(q, e)
    BY <1>2 DEF NoneOn
  <1>5. NoneOn(rest, q[1].env) => LastOn(q, 1)
    <2>1. \A j \in DOMAIN q : j > 1 => j # 1
      BY <1>1
    <2> QED
      BY <1>2, <2>1 DEF NoneOn, LastOn
  <1> QED
    BY <1>1, <1>3, <1>4, <1>5 DEF rest

\* An announcement is the last word on its environment for whoever is subscribed,
\* and missed by whoever is not; who loses a word for it is told it is stale.
LEMMA AnnounceKeeps ==
    ASSUME NewsInv, HostKnows', NEW said \in Word, Announce(said),
           UNCHANGED followerVars, Upholds({said.env}),
           Accounted(said.what, said.stood, said.env)'
    PROVE  NewsInv'
  <1> USE DEF NewsInv, TreesFollow, followerVars
  <1>1. /\ UNCHANGED <<subscribed, conn, asks, linked, view>>
        /\ news' = [f \in Followers |->
              IF ~subscribed[f] THEN news[f]
              ELSE IF Len(news[f]) = NewsBacklog THEN Append(Tail(news[f]), said)
              ELSE Append(news[f], said)]
        /\ lagged' = [f \in Followers |->
              lagged[f] \/ (subscribed[f] /\ Len(news[f]) = NewsBacklog)]
        /\ missed' = [f \in Followers |->
              IF subscribed[f] THEN missed[f] ELSE missed[f] \cup {said.env}]
    BY DEF Announce
  <1>2. ASSUME NEW f \in Followers, ~subscribed[f]
        PROVE  news[f] = <<>> /\ news'[f] = <<>> /\ ~lagged'[f] /\ said.env \in missed'[f]
    BY <1>1, <1>2 DEF Talking, TalksTo
  <1>3. ASSUME NEW f \in Followers, subscribed[f]
        PROVE  /\ missed'[f] = missed[f] /\ news'[f] \in Seq(Word)
               /\ \A i \in DOMAIN news'[f] :
                      \/ news'[f][i] = said
                      \/ \E k \in DOMAIN news[f] :
                             /\ news'[f][i] = news[f][k]
                             /\ LastOn(news'[f], i) =>
                                    LastOn(news[f], k) /\ news[f][k].env # said.env
               /\ ~lagged'[f] =>
                      /\ ~lagged[f]
                      /\ \A e \in Envs :
                             NoneOn(news'[f], e) => NoneOn(news[f], e) /\ said.env # e
    <2> DEFINE q == news[f]
               new == news'[f]
    <2>1. q \in Seq(Word) /\ missed'[f] = missed[f]
      BY <1>1, <1>3 DEF TreeTyped
    <2>2. CASE Len(q) = NewsBacklog
      <3>1. new = Append(Tail(q), said) /\ lagged'[f] /\ q # <<>>
        <4>1. q # <<>>
          BY <2>2, NewsHasRoom
        <4> QED
          BY <1>1, <1>3, <2>2, <4>1
      <3>2. Tail(q) \in Seq(Word) /\ \A i \in DOMAIN Tail(q) :
                /\ i + 1 \in DOMAIN q /\ Tail(q)[i] = q[i + 1]
                /\ LastOn(Tail(q), i) => LastOn(q, i + 1)
        BY <2>1, <3>1, OneWordLess
      <3> DEFINE rest == Tail(q)
      <3> HIDE DEF rest, q, new
      <3>3. /\ Append(rest, said) \in Seq(Word)
            /\ \A i \in DOMAIN Append(rest, said) :
                  \/ Append(rest, said)[i] = said
                  \/ /\ i \in DOMAIN rest /\ Append(rest, said)[i] = rest[i]
                     /\ LastOn(Append(rest, said), i) => LastOn(rest, i) /\ rest[i].env # said.env
        <4>1. rest \in Seq(Word)
          BY <3>2 DEF rest
        <4> QED
          BY <4>1, OneMoreWord
      <3>4. new = Append(rest, said)
        BY <3>1 DEF rest
      <3>5. \A i \in DOMAIN rest :
                /\ i + 1 \in DOMAIN q /\ rest[i] = q[i + 1]
                /\ LastOn(rest, i) => LastOn(q, i + 1)
        BY <3>2 DEF rest
      <3>6. new \in Seq(Word) /\ \A i \in DOMAIN new :
                \/ new[i] = said
                \/ \E k \in DOMAIN q :
                       /\ new[i] = q[k]
                       /\ LastOn(new, i) => LastOn(q, k) /\ q[k].env # said.env
        BY <3>3, <3>4, <3>5
      <3> QED
        BY <2>1, <3>1, <3>6 DEF q, new
    <2>3. CASE Len(q) # NewsBacklog
      <3>1. new = Append(q, said) /\ lagged'[f] = lagged[f]
        BY <1>1, <1>3, <2>3 DEF TreeTyped
      <3> HIDE DEF q, new
      <3>2. /\ new \in Seq(Word)
            /\ \A i \in DOMAIN new :
                  \/ new[i] = said
                  \/ /\ i \in DOMAIN q /\ new[i] = q[i]
                     /\ LastOn(new, i) => LastOn(q, i) /\ q[i].env # said.env
            /\ \A e : NoneOn(new, e) => NoneOn(q, e) /\ said.env # e
        BY <2>1, <3>1, OneMoreWord
      <3>3. \A i \in DOMAIN new :
                \/ new[i] = said
                \/ \E k \in DOMAIN q :
                       /\ new[i] = q[k]
                       /\ LastOn(new, i) => LastOn(q, k) /\ q[k].env # said.env
        BY <3>2
      <3> QED
        BY <2>1, <3>1, <3>2, <3>3 DEF q, new
    <2> QED
      BY <2>2, <2>3
  <1>4. TreeTyped'
    <2>1. ASSUME NEW f \in Followers PROVE news'[f] \in Seq(Word)
      <3>1. CASE subscribed[f]
        BY <1>3, <3>1
      <3>2. CASE ~subscribed[f]
        <4>1. news'[f] = <<>>
          BY <1>2, <3>2
        <4>2. <<>> \in Seq(Word)
          OBVIOUS
        <4> QED
          BY <4>1, <4>2
      <3> QED
        BY <3>1, <3>2
    <2>2. news' \in [Followers -> Seq(Word)]
      BY <1>1, <2>1
    <2>3. missed' \in [Followers -> SUBSET Envs] /\ lagged' \in [Followers -> BOOLEAN]
      BY <1>1, WordIs DEF TreeTyped
    <2> QED
      BY <1>1, <2>2, <2>3 DEF TreeTyped
  <1>5. Talking'
    <2>1. \A f \in Followers : ~subscribed[f] => news'[f] = <<>> /\ ~lagged'[f]
      BY <1>2
    <2> QED
      BY <1>1, <2>1 DEF Talking, TalksTo
  <1>6. /\ \A f \in Followers : \A i \in DOMAIN news[f] : news[f][i] \in Word
        /\ \A f \in Followers, e \in Envs : view[f][e] \in Picture
    BY DEF TreeTyped
  <1>7. LastWordsCount'
    <2> SUFFICES ASSUME NEW f \in Followers, NEW i \in DOMAIN news'[f], LastOn(news'[f], i)
                 PROVE  Accounted(news[f][i].what, news[f][i].stood, news[f][i].env)'
      BY DEF LastWordsCount, LastWordsOf
    <2>1. PICK m \in Word : m = news'[f][i]
      BY <1>4 DEF TreeTyped
    <2>2. Accounted(m.what, m.stood, m.env)'
      <3>1. subscribed[f]
        BY <1>2
      <3>2. CASE m = said
        BY <3>2
      <3>3. ASSUME NEW k \in DOMAIN news[f], m = news[f][k],
                   LastOn(news[f], k), m.env # said.env
            PROVE  Accounted(m.what, m.stood, m.env)'
        <4>1. Accounted(m.what, m.stood, m.env)
          BY <3>3 DEF LastWordsCount, LastWordsOf
        <4>2. PICK what \in Shape, stood \in BOOLEAN, e \in Envs \ {said.env} :
                  what = m.what /\ stood = m.stood /\ e = m.env
          BY <3>3, WordIs
        <4>3. Accounted(what, stood, e)'
          BY <4>1, <4>2 DEF Upholds
        <4> QED
          BY <4>2, <4>3
      <3> QED
        BY <1>3, <2>1, <3>1, <3>2, <3>3
    <2> QED
      BY <2>1, <2>2
  <1>8. PicturesCount'
    <2> SUFFICES ASSUME NEW f \in Followers, NEW e \in Envs, Settled(f)', NoneOn(news'[f], e),
                        e \notin missed'[f]
                 PROVE  Accounted(view[f][e].what, view[f][e].stood, e)'
      BY DEF PicturesCount, PicturesOf
    <2>1. Settled(f) /\ NoneOn(news[f], e) /\ said.env # e /\ e \notin missed[f]
      <3>0. conn[f] = "reading" /\ ~lagged'[f] /\ \A i \in DOMAIN asks[f] : asks[f][i] # "describe"
        BY <1>1 DEF Settled
      <3>1. CASE subscribed[f]
        BY <1>3, <3>0, <3>1 DEF Settled
      <3>2. CASE ~subscribed[f]
        <4>1. news[f] = <<>> /\ ~lagged[f] /\ said.env # e /\ e \notin missed[f]
          BY <1>1, <1>2, <3>2 DEF Talking, TalksTo
        <4> QED
          BY <3>0, <4>1 DEF Settled, NoneOn
      <3> QED
        BY <3>1, <3>2
    <2> DEFINE p == view[f][e]
    <2>2. p \in Picture /\ Accounted(p.what, p.stood, e)
      BY <1>6, <2>1 DEF PicturesCount, PicturesOf
    <2>3. PICK what \in Shape, stood \in BOOLEAN : what = p.what /\ stood = p.stood
      BY <2>2, PictureIs
    <2>4. Accounted(what, stood, e)'
      BY <2>1, <2>2, <2>3 DEF Upholds
    <2> QED
      BY <1>1, <2>3, <2>4
  <1> QED
    BY <1>4, <1>5, <1>7, <1>8

-----------------------------------------------------------------------------
(* Describers. *)

\* A socket that is found is of a session that is not ready yet, or is known.
LEMMA FoundIsKnown ==
    ASSUME Births, Watching, NEW s \in Sessions, ready[s], socket[s]
    PROVE  Known(s)
  BY DEF Births, Watching, Known

\* Whoever has asked about all that a look was for can explain what it has of an
\* environment, if that still stands: and all it shows of it runs.
LEMMA LookExplains ==
    ASSUME HomeInv, HostKnows, NEW d \in Describers, NEW x \in Envs,
           look[d].left = {}, Asked(d) \/ look[d].stage = "next",
           Tells(d, x) \/ d \in Followers,
           Stood(look[d].was[x], Sketch(look[d], x), x)
    PROVE  /\ Explained(Sketch(look[d], x), x)
           /\ \A s \in Sketch(look[d], x).sessions : keeper[s] \in Alive
  <1> DEFINE l == look[d]
             has == Sketch(l, x)
  <1> HIDE DEF l, has
  <1>1. /\ l.left = {} /\ Open(l, x) = {} /\ l.was[x] = Mark(x) /\ (has.here => x \in table)
        /\ TrueOf(l, x) /\ Covers(d, l, x)
    BY DEF Open, At, Asked, Stood, HostKnows, LooksTrue, Clear, l, has
  <1>2. CASE x \notin table
    <2>1. has = Absent
      BY <1>1, <1>2 DEF TrueOf, has
    <2> QED
      BY <1>2, <2>1 DEF Explained, Absent, has, l
  <1>3. CASE x \in table
    <2>1. l.was[x].is.here /\ has.here
      BY <1>1, <1>3, MarkIsTrue DEF Covers, HostKnows, has
    <2>2. /\ has.up = Mark(x).is.up
          /\ \A s \in has.sessions :
                 EnvOf[s] = x /\ Known(s) /\ (s \in Mark(x).begun => s \in Mark(x).is.sessions)
          /\ \A s \in Mark(x).is.sessions :
                 s \in has.sessions \/ ~socket[s] \/ keeper[s] \in Over
      BY <1>1, <2>1 DEF TrueOf, has
    <2>3. has.sessions \subseteq Sessions
      BY DEF HomeInv, Typed, Learnt, Shape, Sketch, has, l
    <2>4. /\ Mark(x).is.up = (x \in up)
          /\ \A s \in Sessions : EnvOf[s] = x /\ ready[s] => s \in Mark(x).begun
          /\ \A s \in Sessions :
                 s \in Mark(x).is.sessions <=> EnvOf[s] = x /\ keeper[s] \in Alive
      BY <1>3, MarkIsTrue DEF HostKnows
    <2>5. ASSUME NEW s \in has.sessions
          PROVE  EnvOf[s] = x /\ ready[s] /\ keeper[s] \in Alive /\ Told(s)
      <3>1. EnvOf[s] = x /\ Known(s) /\ ready[s] /\ s \in Sessions
        BY <2>2, <2>3 DEF Known
      <3>2. keeper[s] \in Alive
        BY <2>2, <2>4, <3>1
      <3>3. watch[s] # "done"
        BY <3>1, <3>2 DEF HostKnows, Watching, Alive, Over
      <3> QED
        BY <1>3, <3>1, <3>2, <3>3 DEF Known, Told, Unannounced
    <2>6. ASSUME NEW s \in Sessions, EnvOf[s] = x, keeper[s] \in Alive
          PROVE  s \in has.sessions \/ Hidden(s)
      BY <2>2, <2>4, <2>6 DEF Hidden, Alive, Over
    <2>7. Explained(has, x) /\ \A s \in has.sessions : keeper[s] \in Alive
      BY <1>3, <2>1, <2>2, <2>4, <2>5, <2>6 DEF Explained
    <2> QED
      BY <2>7 DEF has, l
  <1> QED
    BY <1>2, <1>3

\* What a look has is what its describer says.
LEMMA SketchIsSaid ==
    ASSUME HomeInv, NEW d \in Describers
    PROVE  /\ Looked(d) => /\ \A x \in Envs : Sketch(look[d], x) = Described(d)[x]
                           /\ look[d].left = {} /\ Asked(d)
           /\ LookedAtNothing(d) => /\ \A x \in Envs : Sketch(look[d], x) = look[d].got[x]
                                    /\ look[d].left = {} /\ look[d].stage = "next"
  <1>1. look[d].got \in [Envs -> Shape]
    BY DEF HomeInv, Typed, Learnt
  <1> QED
    BY <1>1 DEF Looked, LookedAtNothing, Asked, Sketch, At, Described

\* With the same host and the same handlers, what was known and accounted for is.
LEMMA SameHost ==
    ASSUME UNCHANGED <<table, up, exited, born, keeper, ready, watch, request, late>>,
           \A s \in Sessions : socket'[s] => socket[s]
    PROVE  Remembers /\ Upholds({})
  <1>1. \A s \in Sessions : /\ Known(s)' = Known(s) /\ WaitedFor(s)' = WaitedFor(s)
                            /\ Unannounced(s)' = Unannounced(s)
    BY DEF Known, WaitedFor, WaitsFor, Unannounced
  <1>2. \A e \in Envs : Promised(e)' = Promised(e)
    BY DEF Promised, Promises
  <1>3. \A e \in Envs : Steady(e)
    BY <1>1 DEF Steady, Told, Hidden
  <1>4. Upholds({})
    BY <1>2, <1>3, UpholdsIf
  <1> QED
    BY <1>1, <1>4 DEF Remembers

\* A look begins, or goes on, at the next environment.
LEMMA ListSocketsClear ==
    ASSUME HomeInv, HostKnows, NEW d \in Describers, ListSockets(d)
    PROVE  \E l : /\ l = look'[d]
                  /\ \A x \in Envs : TrueOf(l, x) /\ Covers(d, l, x)
  <1>1. look[d] \in Learnt /\ look \in [Describers -> Learnt] /\ table \subseteq Envs
    BY DEF HomeInv, Typed
  <1>2. PICK e \in look[d].left :
            look' = [look EXCEPT ![d] =
               [stage |-> "ask", left |-> look[d].left \ {e}, env |-> e, up |-> e \in up,
                todo |-> Links(e), litter |-> NoSession, seen |-> {},
                got |-> IF Asked(d) THEN Described(d) ELSE look[d].got,
                was |-> [look[d].was EXCEPT ![e] = Mark(e)]]]
    BY DEF ListSockets
  <1>3. PICK l : l = look'[d]
    OBVIOUS
  <1>4. /\ l.stage = "ask" /\ l.left = look[d].left \ {e} /\ l.env = e /\ l.up = (e \in up)
        /\ l.todo = Links(e) /\ l.seen = {}
        /\ l.got = IF Asked(d) THEN Described(d) ELSE look[d].got
        /\ l.was = [look[d].was EXCEPT ![e] = Mark(e)]
    BY <1>1, <1>2, <1>3
  <1>5. look[d].got \in [Envs -> Shape] /\ look[d].was \in [Envs -> Marks]
    BY <1>1 DEF Learnt
  <1>6. ASSUME NEW x \in Envs, x = e
        PROVE  TrueOf(l, x) /\ Covers(d, l, x)
    <2>1. /\ l.was[x] = Mark(x) /\ Open(l, x) = Links(x)
          /\ Sketch(l, x) = [here |-> TRUE, up |-> x \in up, sessions |-> {}]
      BY <1>4, <1>5, <1>6 DEF Open, Sketch, At
    <2>2. \A s \in Links(x) :
              s \in Sessions /\ EnvOf[s] = x /\ (ready[s] => Known(s))
      BY FoundIsKnown DEF Links, HostKnows
    <2>3. ASSUME x \in table
          PROVE  \A s \in Mark(x).is.sessions : s \in Links(x) \/ ~socket[s]
      <3>1. \A s \in Mark(x).is.sessions : s \in Sessions /\ EnvOf[s] = x
        BY <2>3 DEF Mark, Truth
      <3> QED
        BY <3>1 DEF Links
    <2>4. /\ Mark(x).is.sessions \subseteq Mark(x).begun
          /\ \A s \in Mark(x).begun :
                  /\ EnvOf[s] = x /\ ready[s]
                  /\ s \in Mark(x).is.sessions \/ ~Mark(x).is.here \/ keeper[s] \in Over
          /\ Mark(x).is.here => x \in table /\ Mark(x).is.up = (x \in up)
      BY MarkIsTrue DEF HostKnows
    <2> QED
      BY <2>1, <2>2, <2>3, <2>4 DEF TrueOf, Covers
  <1>7. ASSUME NEW x \in Envs, x # e
        PROVE  TrueOf(l, x) /\ Covers(d, l, x)
    <2>1. /\ l.was[x] = look[d].was[x] /\ Open(l, x) = {}
          /\ x \in l.left <=> x \in look[d].left
      BY <1>4, <1>5, <1>7 DEF Open, At
    <2>2. Sketch(l, x) = Sketch(look[d], x) /\ Open(look[d], x) = {}
      <3>1. CASE Asked(d)
        BY <1>4, <1>5, <1>7, <3>1 DEF Asked, Described, Sketch, Open, At
      <3>2. CASE ~Asked(d)
        <4>1. look[d].stage = "next"
          BY <3>2 DEF ListSockets
        <4> QED
          BY <1>4, <1>7, <3>2, <4>1 DEF Sketch, Open, At
      <3> QED
        BY <3>1, <3>2
    <2>3. TrueOf(look[d], x) /\ Covers(d, look[d], x)
      BY DEF HostKnows, LooksTrue, Clear
    <2> QED
      BY <2>1, <2>2, <2>3 DEF TrueOf, Covers
  <1> QED
    BY <1>3, <1>6, <1>7

\* It asks a keeper: one that runs has begun already, or since.
LEMMA AskKeeperClear ==
    ASSUME HomeInv, HostKnows, NEW d \in Describers, NEW s \in Sessions, AskKeeper(d, s)
    PROVE  \E l : /\ l = look'[d]
                  /\ \A x \in Envs : TrueOf(l, x) /\ Covers(d, l, x)
  <1>1. look[d] \in Learnt /\ look \in [Describers -> Learnt]
    BY DEF HomeInv, Typed
  <1>2. PICK l : l = look'[d]
    OBVIOUS
  <1>3. /\ s \in look[d].todo /\ look[d].stage = "ask"
        /\ l.left = look[d].left /\ l.env = look[d].env /\ l.up = look[d].up
        /\ l.got = look[d].got /\ l.was = look[d].was /\ l.todo = look[d].todo \ {s}
        /\ \/ l.stage = "ask" /\ l.seen = look[d].seen \cup {s} /\ keeper[s] \in Alive
           \/ l.stage = "ask" /\ l.seen = look[d].seen /\ keeper[s] \in Over
           \/ l.stage = "forget" /\ l.seen = look[d].seen /\ l.litter = s
    <2> DEFINE o == look[d]
               rest == [o EXCEPT !.todo = o.todo \ {s}]
    <2>1. /\ s \in o.todo /\ o.stage = "ask"
          /\ \/ l = [rest EXCEPT !.seen = o.seen \cup {s}] /\ keeper[s] \in Alive
             \/ l = rest /\ keeper[s] \in Over
             \/ l = [rest EXCEPT !.stage = "forget", !.litter = s]
      BY <1>1, <1>2 DEF AskKeeper, Reached, Answers, Over
    <2>2. o \in Learnt
      BY <1>1
    <2> HIDE DEF o
    <2>3. PICK l0 \in Learnt : l0 = o
      BY <2>2
    <2> QED
      BY <2>1, <2>3 DEF Learnt, o
  <1>4. ASSUME NEW x \in Envs
        PROVE  TrueOf(l, x) /\ Covers(d, l, x)
    <2>1. TrueOf(look[d], x) /\ Covers(d, look[d], x)
      BY DEF HostKnows, LooksTrue, Clear
    <2>2. CASE x # look[d].env
      <3>1. /\ Sketch(l, x) = Sketch(look[d], x) /\ Open(l, x) = Open(look[d], x)
            /\ l.was[x] = look[d].was[x] /\ l.left = look[d].left
        BY <1>3, <2>2 DEF Sketch, Open, At
      <3> QED
        BY <2>1, <3>1 DEF TrueOf, Covers
    <2>3. CASE x = look[d].env
      <3> DEFINE was == look[d].was[x]
      <3>1. /\ Sketch(look[d], x) = [here |-> TRUE, up |-> l.up, sessions |-> look[d].seen]
            /\ Sketch(l, x) = [here |-> TRUE, up |-> l.up, sessions |-> l.seen]
            /\ Open(look[d], x) = look[d].todo /\ l.was[x] = was
            /\ Open(l, x) = (look[d].todo \ {s}) \cup (IF l.stage = "forget" THEN {s} ELSE {})
        BY <1>3, <2>3 DEF Sketch, Open, At
      <3>2. /\ was.is.sessions \subseteq was.begun
            /\ \A t \in was.begun :
                   /\ EnvOf[t] = x /\ ready[t]
                   /\ t \in was.is.sessions \/ ~was.is.here \/ keeper[t] \in Over
        BY <2>1 DEF TrueOf
      <3>3. ASSUME was.is.here
            PROVE  /\ l.up = was.is.up
                   /\ \A t \in l.seen :
                          EnvOf[t] = x /\ Known(t) /\ (t \in was.begun => t \in was.is.sessions)
                   /\ \A t \in Open(l, x) :
                          t \in Sessions /\ EnvOf[t] = x /\ (ready[t] => Known(t))
                   /\ \A t \in was.is.sessions :
                          t \in l.seen \cup Open(l, x) \/ ~socket[t] \/ keeper[t] \in Over
        <4>1. /\ l.up = was.is.up
              /\ \A t \in look[d].seen :
                     EnvOf[t] = x /\ Known(t) /\ (t \in was.begun => t \in was.is.sessions)
              /\ \A t \in look[d].todo :
                     t \in Sessions /\ EnvOf[t] = x /\ (ready[t] => Known(t))
              /\ \A t \in was.is.sessions :
                     t \in look[d].seen \cup look[d].todo \/ ~socket[t] \/ keeper[t] \in Over
          BY <2>1, <3>1, <3>3 DEF TrueOf
        <4>2. keeper[s] \in Alive => Known(s) /\ EnvOf[s] = x /\ keeper[s] \notin Over
          BY <1>3, <4>1 DEF HostKnows, Watching, Alive, Over
        <4> HIDE DEF was
        <4> QED
          BY <1>3, <3>1, <3>2, <3>3, <4>1, <4>2
      <3>4. TrueOf(l, x)
        BY <3>1, <3>2, <3>3 DEF TrueOf
      <3>5. Covers(d, l, x)
        BY <3>1 DEF Covers
      <3> QED
        BY <3>4, <3>5
    <2> QED
      BY <2>2, <2>3
  <1> QED
    BY <1>2, <1>3, <1>4

\* The litter it clears away has no socket any more.
LEMMA ForgetClear ==
    ASSUME HomeInv, HostKnows, Remembers, NEW d \in Describers, Forget(d),
           UNCHANGED <<request, watch>>
    PROVE  Clear(d)'
  <1>1. look[d] \in Learnt /\ look \in [Describers -> Learnt] /\ look[d].litter \in Sessions
        /\ socket \in [Sessions -> BOOLEAN]
    BY DEF HomeInv, Typed, Looks, Forget
  <1>2. PICK l, o : l = look'[d] /\ o = look[d]
    OBVIOUS
  <1>3. /\ l.stage = "ask" /\ o.stage = "forget" /\ l.left = o.left /\ l.env = o.env
        /\ l.up = o.up /\ l.got = o.got /\ l.was = o.was /\ l.todo = o.todo /\ l.seen = o.seen
        /\ o \in Learnt /\ ~socket'[o.litter]
    BY <1>1, <1>2 DEF Forget, Learnt
  <1>4. ASSUME NEW x \in Envs
        PROVE  TrueOf(l, x)' /\ Covers(d, l, x)'
    <2>1. TrueOf(o, x)' /\ Covers(d, o, x)
      BY <1>2, <1>3, TrueStays DEF HostKnows, LooksTrue, Clear
    <2>2. /\ Sketch(l, x) = Sketch(o, x) /\ l.was[x] = o.was[x] /\ l.left = o.left
          /\ \A t \in Open(o, x) : t \in Open(l, x) \/ t = o.litter
          /\ Open(l, x) \subseteq Open(o, x)
      BY <1>3 DEF Sketch, Open, At
    <2>3. TrueOf(l, x)'
      <3>1. Sketch(l, x)' = Sketch(l, x) /\ Open(l, x)' = Open(l, x)
            /\ Sketch(o, x)' = Sketch(o, x) /\ Open(o, x)' = Open(o, x)
        BY DEF Sketch, Open, At
      <3> QED
        BY <1>3, <2>1, <2>2, <3>1 DEF TrueOf
    <2>4. Covers(d, l, x)'
      BY <2>1, <2>2 DEF Covers, Tells, Sketch, At
    <2> QED
      BY <2>3, <2>4
  <1> QED
    BY <1>2, <1>4 DEF Clear

\* A describer tells nobody anything, and what it learns is true.
LEMMA LookTells ==
    ASSUME HomeInv, NewsInv, NEW d \in Describers, Look(d), UNCHANGED followerVars
    PROVE  NewsInv'
  <1> USE DEF NewsInv, HostKnows
  <1>1. /\ UNCHANGED <<table, up, exited, born, keeper, ready, watch, request, late, newsVars>>
        /\ \A s \in Sessions : socket'[s] => socket[s]
    BY DEF Look, ListSockets, AskKeeper, Forget, keeperVars, roomVars, histories, HomeInv, Typed
  <1>2. Remembers /\ Upholds({})
    BY <1>1, SameHost
  <1>3. HostTyped' /\ Births' /\ Waiting'
    BY <1>1 DEF HostTyped, Births, Waiting, WaitedFor, WaitsFor
  <1>4. Watching'
    BY <1>1, <1>2 DEF Watching, Remembers
  <1>5. Clear(d)'
    <2>0. look'[d] \in Learnt
      BY LookKeeps DEF HomeInv, Typed
    <2>1. ASSUME NEW l, l = look'[d],
                 \A x \in Envs : TrueOf(l, x) /\ Covers(d, l, x)
          PROVE  Clear(d)'
      <3>1. ASSUME NEW x \in Envs PROVE TrueOf(l, x)' /\ Covers(d, l, x)'
        <4>1. TrueOf(l, x)'
          BY <1>2, <2>0, <2>1, TrueStays
        <4>2. Covers(d, l, x)'
          BY <1>1, <2>1 DEF Covers, Tells, Sketch, At
        <4> QED
          BY <4>1, <4>2
      <3> QED
        BY <2>1, <3>1 DEF Clear
    <2>2. CASE ListSockets(d)
      BY <2>1, <2>2, ListSocketsClear
    <2>3. ASSUME NEW s \in Sessions, AskKeeper(d, s) PROVE Clear(d)'
      BY <2>1, <2>3, AskKeeperClear
    <2>4. CASE Forget(d)
      BY <1>1, <1>2, <2>4, ForgetClear
    <2> QED
      BY <2>2, <2>3, <2>4 DEF Look
  <1>6. LooksTrue'
    <2>1. \A c \in Describers : c # d => look'[c] = look[c]
      BY DEF Look, ListSockets, AskKeeper, Forget, HomeInv, Typed
    <2>2. \A c \in Describers, x \in Envs : Tells(c, x)' = Tells(c, x)
      BY <1>1 DEF Tells
    <2> QED
      BY <1>2, <1>5, <2>1, <2>2, LooksStay DEF Keeps
  <1> QED
    BY <1>1, <1>2, <1>3, <1>4, <1>6, SilenceKeeps

-----------------------------------------------------------------------------
(* Keepers, and containers. *)

\* A keeper's step: nothing but the keeper, its socket and its ready line.
LEMMA KeeperIsAlone ==
    ASSUME HomeInv, NewsInv, NEW s \in Sessions, KeeperStep(s)
    PROVE  /\ UNCHANGED <<table, up, exited, born, watch, look, request, late, newsVars>>
           /\ keeper' \in [Sessions -> Keepers]
           /\ \A x \in Sessions :
                  /\ keeper'[x] # "none" <=> keeper[x] # "none"
                  /\ keeper[x] \in Over => keeper'[x] \in Over
                  /\ ready[x] => ready'[x]
                  /\ ready'[x] => ready[x] \/ WaitedFor(x)
                  /\ ready'[x] => keeper'[x] \notin {"none", "spawned", "bound"}
                  /\ ready[x] /\ socket'[x] => socket[x]
                  /\ keeper'[x] \in Alive => ready'[x]
                  /\ keeper'[x] \in Alive => keeper[x] \in Alive \/ WaitedFor(x)
  <1> USE DEF NewsInv, HostKnows, HomeInv, Typed, Watching, Keepers, Alive, Over,
          roomVars, taskVars, keeperVars, histories
  <1>1. CASE Bind(s)
    BY <1>1 DEF Bind
  <1>2. CASE Listen(s)
    <2>1. WaitedFor(s) = Expected(s)
      BY DEF WaitedFor, WaitsFor, Expected
    <2> QED
      BY <1>2, <2>1 DEF Listen
  <1>3. CASE ChildEnds(s)
    BY <1>3 DEF ChildEnds
  <1>4. CASE KeeperDies(s)
    BY <1>4 DEF KeeperDies
  <1>5. CASE KeeperGoes(s)
    BY <1>5 DEF KeeperGoes
  <1>6. CASE Titled(s)
    BY <1>6 DEF Titled
  <1> QED
    BY <1>1, <1>2, <1>3, <1>4, <1>5, <1>6 DEF KeeperStep

\* A keeper tells nobody anything: a session that begins is waited for, and one
\* that ends is watched, or there is a reason why not.
LEMMA KeeperTells ==
    ASSUME HomeInv, NewsInv, NEW s \in Sessions, KeeperStep(s), UNCHANGED followerVars
    PROVE  NewsInv'
  <1> USE DEF NewsInv, HostKnows
  <1>1. /\ UNCHANGED <<table, up, exited, born, watch, look, request, late, newsVars>>
        /\ \A x \in Sessions : WaitedFor(x)' = WaitedFor(x) /\ Unannounced(x)' = Unannounced(x)
    BY KeeperIsAlone DEF WaitedFor, WaitsFor, Unannounced
  <1>2. \A x \in Sessions :
            /\ keeper'[x] # "none" <=> keeper[x] # "none"
            /\ keeper[x] \in Over => keeper'[x] \in Over
            /\ ready[x] => ready'[x]
            /\ ready'[x] => ready[x] \/ WaitedFor(x)
            /\ ready'[x] => keeper'[x] \notin {"none", "spawned", "bound"}
            /\ ready[x] /\ socket'[x] => socket[x]
            /\ keeper'[x] \in Alive => ready'[x]
            /\ keeper'[x] \in Alive => keeper[x] \in Alive \/ WaitedFor(x)
    BY KeeperIsAlone
  <1>3. HostTyped' /\ Births' /\ Waiting'
    BY <1>1, <1>2 DEF HostTyped, Births, Waiting, WaitsFor
  <1>4. Remembers
    <2>1. ASSUME NEW x \in Sessions, WaitedFor(x) PROVE EnvOf[x] \in born
      BY <2>1 DEF Births, WaitedFor, WaitsFor
    <2> QED
      BY <1>1, <1>2, <2>1 DEF Remembers, Known
  <1>5. Watching'
    <2>1. \A x \in Sessions : ready'[x] /\ socket'[x] /\ EnvOf[x] \in table => Known(x)'
      BY <1>2, <1>4 DEF Remembers, Watching
    <2> QED
      BY <1>1, <1>2, <2>1 DEF Watching
  <1>6. LooksTrue'
    <2>1. \A d \in Describers, x \in Envs : Tells(d, x)' = Tells(d, x)
      BY <1>1 DEF Tells
    <2> QED
      BY <1>1, <1>4, <2>1, LooksStay DEF Keeps
  <1>7. Upholds({})
    <2>1. \A e \in Envs : Promised(e) => Promised(e)'
      BY <1>1 DEF Promised, Promises
    <2>2. ASSUME NEW e \in Envs PROVE Steady(e)
      <3>1. \A x \in Sessions : Told(x)' = Told(x)
        BY <1>1 DEF Told
      <3>2. ASSUME NEW x \in Sessions, keeper'[x] \in Alive, ~Hidden(x)'
            PROVE  keeper[x] \in Alive /\ ~Hidden(x)
        <4>1. keeper[x] \in Alive
          BY <1>1, <1>2, <3>2 DEF Hidden
        <4>2. socket[x]
          BY <1>2, <3>2, <4>1 DEF Hidden, Watching
        <4> QED
          BY <1>1, <3>2, <4>1, <4>2 DEF Hidden
      <3> QED
        BY <1>1, <1>2, <3>1, <3>2 DEF Steady
    <2> QED
      BY <2>1, <2>2, UpholdsIf
  <1> QED
    BY <1>1, <1>3, <1>5, <1>6, <1>7, SilenceKeeps

\* A container that stops by itself is nobody's news: what is shown of it was so.
LEMMA ExitTells ==
    ASSUME HomeInv, NewsInv, NEW e \in Envs, ContainerExits(e), UNCHANGED followerVars
    PROVE  NewsInv'
  <1> USE DEF NewsInv, HostKnows
  <1>1. /\ UNCHANGED <<table, born, keeper, socket, ready, watch, look, request, late, newsVars>>
        /\ e \in up /\ up' = up \ {e} /\ exited' = exited \cup {e}
    BY DEF ContainerExits, keeperVars, taskVars, histories
  <1>2. \A s \in Sessions : /\ Known(s)' = Known(s) /\ Told(s)' = Told(s)
                            /\ Hidden(s)' = Hidden(s) /\ WaitedFor(s)' = WaitedFor(s)
    BY <1>1 DEF Known, Told, Hidden, Unannounced, WaitedFor, WaitsFor
  <1>3. HostTyped' /\ Births' /\ Waiting' /\ Watching'
    BY <1>1, <1>2 DEF HostTyped, Births, Waiting, Watching, WaitsFor
  <1>4. Remembers
    BY <1>1, <1>2 DEF Remembers
  <1>5. LooksTrue'
    <2>1. \A d \in Describers, x \in Envs : Tells(d, x)' = Tells(d, x)
      BY <1>1 DEF Tells
    <2> QED
      BY <1>1, <1>4, <2>1, LooksStay DEF Keeps
  <1>6. Upholds({})
    <2>1. \A x \in Envs : Promised(x) => Promised(x)'
      BY <1>1 DEF Promised, Promises
    <2>2. \A x \in Envs : Steady(x)
      BY <1>1, <1>2 DEF Steady
    <2> QED
      BY <2>1, <2>2, UpholdsIf
  <1> QED
    BY <1>1, <1>3, <1>5, <1>6, SilenceKeeps

-----------------------------------------------------------------------------
(* Announcements. *)

\* What is announced is what was learnt, and whether it stands.
LEMMA SaidIsAWord ==
    ASSUME NEW e \in Envs, NEW what \in Shape, NEW was
    PROVE  LET said == EnvironmentIs(e, what, was) IN
           /\ said \in Word /\ said.env = e /\ said.what = what
           /\ said.stood = Stood(was, what, e)
  <1>1. Stood(was, what, e) \in BOOLEAN
    BY DEF Stood
  <1> QED
    BY <1>1 DEF EnvironmentIs, Word

\* An environment that is gone is shown no more.
LEMMA GoneIsAWord ==
    ASSUME NEW e \in Envs
    PROVE  LET said == EnvironmentGone(e) IN
           said \in Word /\ said.env = e /\ said.what = Absent
  BY DEF EnvironmentGone, Word, Absent, Shape

-----------------------------------------------------------------------------
(* The tasks that watch sessions. *)

\* A watcher's step is nothing to the keepers, and what it says is explained.
LEMMA WatcherKnows ==
    ASSUME HomeInv, NewsInv, NEW s \in Sessions, Watcher(s)
    PROVE  /\ UNCHANGED <<table, up, exited, born, keeper, socket, ready, request, late>>
           /\ HostKnows'
           /\ \A x \in Sessions :
                  /\ x # s => watch'[x] = watch[x]
                  /\ watch'[x] = "done" => watch[x] \in {"done", "ending"}
                  /\ watch[x] = "none" <=> watch'[x] = "none"
  <1> USE DEF NewsInv, HostKnows, roomVars, keeperVars, histories
  <1>1. /\ UNCHANGED <<table, up, exited, born, keeper, socket, ready, request, late>>
        /\ watch' \in [Sessions -> {"none", "connecting", "listening", "refused",
                                    "looking", "ending", "done"}]
        /\ \A x \in Sessions :
               /\ x # s => watch'[x] = watch[x]
               /\ watch'[x] = "done" => watch[x] \in {"done", "ending"}
               /\ watch[x] = "none" <=> watch'[x] = "none"
               /\ watch'[x] \in {"ending", "done"} => keeper[x] \in Over
    <2> USE DEF HostTyped, Watching
    <2>1. CASE WatchConnect(s)
      BY <2>1 DEF WatchConnect
    <2>2. CASE TakeTitle(s)
      BY <2>2 DEF TakeTitle
    <2>3. CASE TakeEnd(s)
      BY <2>3 DEF TakeEnd
    <2>4. CASE TellStir(s)
      BY <2>4 DEF TellStir
    <2> QED
      BY <2>1, <2>2, <2>3, <2>4 DEF Watcher
  <1>2. \A x \in Sessions : Known(x)' = Known(x) /\ WaitedFor(x)' = WaitedFor(x)
    BY <1>1 DEF Known, WaitedFor, WaitsFor
  <1>3. HostTyped' /\ Births' /\ Waiting' /\ Watching'
    BY <1>1, <1>2 DEF HostTyped, Births, Waiting, Watching, WaitsFor
  <1>4. Remembers
    BY <1>1, <1>2 DEF Remembers
  <1>5. LooksTrue'
    <2>1. /\ look \in [Describers -> Learnt] /\ s \in Describers /\ s \notin Requesters
          /\ EnvOf[s] \in Envs
      BY EachHasAHome, DescribersApart DEF HomeInv, Typed, Describers
    <2>2. ASSUME NEW d \in Describers, d # s PROVE Keeps(d)
      <3>1. look'[d] = look[d]
        BY <2>1, <2>2 DEF Watcher, WatchConnect, TakeTitle, TakeEnd, TellStir
      <3>2. \A x \in Envs : Tells(d, x)' = Tells(d, x)
        BY <1>1, <2>2 DEF Tells
      <3> QED
        BY <3>1, <3>2 DEF Keeps
    <2>3. Keeps(s) \/ Fresh(s)
      <3>1. \A x \in Envs : Tells(s, x)' <=> watch'[s] \in {"looking", "ending"} /\ EnvOf[s] = x
        BY <2>1 DEF Tells
      <3>2. CASE WatchConnect(s)
        BY <3>1, <3>2 DEF WatchConnect, Keeps, HostTyped
      <3>3. CASE TakeTitle(s) \/ TakeEnd(s)
        <4>1. look'[s] = LookAt(EnvOf[s])
          BY <2>1, <3>3 DEF TakeTitle, TakeEnd
        <4> QED
          BY <2>1, <3>1, <4>1 DEF Fresh
      <3>4. CASE TellStir(s)
        <4>1. look'[s] = NoLook /\ watch'[s] \in {"done", "listening"}
          BY <2>1, <3>4 DEF TellStir, HostTyped
        <4> QED
          BY <3>1, <4>1 DEF Fresh
      <3> QED
        BY <3>2, <3>3, <3>4 DEF Watcher
    <2> QED
      BY <1>4, <2>2, <2>3, LooksStay
  <1> QED
    BY <1>1, <1>3, <1>5

\* A watcher says what it learnt; it drops a session that is over by saying so.
LEMMA WatcherTells ==
    ASSUME HomeInv, NewsInv, NEW s \in Sessions, Watcher(s), UNCHANGED followerVars
    PROVE  NewsInv'
  <1>1. /\ UNCHANGED <<table, up, exited, born, keeper, socket, ready, request, late>>
        /\ HostKnows'
        /\ \A x \in Sessions :
                  /\ x # s => watch'[x] = watch[x]
                  /\ watch'[x] = "done" => watch[x] \in {"done", "ending"}
                  /\ watch[x] = "none" <=> watch'[x] = "none"
    BY WatcherKnows
  <1>2. /\ \A e \in Envs : Promised(e) => Promised(e)'
        /\ \A x \in Sessions : WaitedFor(x)' = WaitedFor(x) /\ Unannounced(x)' = Unannounced(x)
    BY <1>1 DEF Promised, Promises, WaitedFor, WaitsFor, Unannounced
  <1>3. /\ EnvOf[s] \in Envs /\ s \in Describers
        /\ \A x \in Sessions : Hidden(x)' = Hidden(x)
        /\ \A x \in Sessions :
               Told(x) /\ (watch[x] = "ending" => watch'[x] # "done") => Told(x)'
    BY <1>1, <1>2, EachHasAHome DEF Describers, Hidden, Told
  <1>4. CASE TellStir(s)
    <2>1. PICK e \in Envs : e = EnvOf[s]
      BY <1>3
    <2>2. /\ Sketch(look[s], e) = Described(s)[e] /\ Described(s)[e] \in Shape
          /\ look[s].left = {} /\ Asked(s)
      <3>1. Looked(s)
        BY <1>4 DEF TellStir
      <3> QED
        BY <1>3, <3>1, SketchIsSaid, DescribedShape DEF HomeInv
    <2>3. PICK what \in Shape, said \in Word :
              /\ what = Sketch(look[s], e) /\ Announce(said)
              /\ said.env = e /\ said.what = what
              /\ said.stood = Stood(look[s].was[e], what, e)
      <3>1. PICK what \in Shape : what = Sketch(look[s], e) /\ what = Described(s)[e]
        BY <2>2
      <3>2. Announce(EnvironmentIs(e, what, look[s].was[e]))
        BY <1>4, <2>1, <3>1 DEF TellStir
      <3> QED
        BY <3>1, <3>2, SaidIsAWord
    <2>4. Upholds({e})
      <3>1. ASSUME NEW y \in Envs \ {e} PROVE Steady(y)
        <4>1. \A x \in Sessions : EnvOf[x] = y => x # s /\ watch'[x] = watch[x]
          BY <1>1, <2>1, <3>1
        <4> QED
          BY <1>1, <1>3, <4>1 DEF Steady
      <3> QED
        BY <1>2, <3>1, UpholdsIf
    <2>5. ASSUME Stood(look[s].was[e], what, e) PROVE Explained(what, e)'
      <3>1. Tells(s, e)
        BY <1>4, <2>1 DEF TellStir, Tells
      <3>2. Explained(what, e) /\ \A x \in what.sessions : keeper[x] \in Alive
        BY <1>3, <2>2, <2>3, <2>5, <3>1, LookExplains DEF NewsInv
      <3>3. what.sessions \subseteq Sessions
        BY DEF Shape
      <3>4. \A x \in what.sessions : Told(x) => Told(x)'
        BY <1>3, <3>2, <3>3 DEF NewsInv, HostKnows, Watching, Alive, Over
      <3> QED
        BY <1>1, <1>3, <3>2, <3>4 DEF Explained
    <2>6. Accounted(what, said.stood, e)'
      BY <2>3, <2>5 DEF Accounted
    <2>7. PICK stood \in BOOLEAN : stood = said.stood
      BY DEF Word
    <2> QED
      BY <1>1, <2>3, <2>4, <2>6, AnnounceKeeps
  <1>5. CASE ~TellStir(s)
    <2>1. UNCHANGED newsVars /\ \A x \in Sessions : watch'[x] = "done" => watch[x] = "done"
      BY <1>5 DEF Watcher, WatchConnect, TakeTitle, TakeEnd, NewsInv, HostKnows, HostTyped
    <2>2. \A x \in Sessions : Told(x) => Told(x)'
      BY <1>3, <2>1
    <2>3. \A e \in Envs : Steady(e)
      BY <1>1, <1>3, <2>2 DEF Steady
    <2>4. Upholds({})
      BY <1>2, <2>3, UpholdsIf
    <2> QED
      BY <1>1, <2>1, <2>4, SilenceKeeps
  <1> QED
    BY <1>4, <1>5

-----------------------------------------------------------------------------
(* Requests. *)

\* What a handler's step may do, whichever it is: it changes the host for an
\* environment it holds, and a session it waits for is watched, or given up.
Moves(r) ==
    /\ born \subseteq born' /\ born' \subseteq Envs
    /\ table' \subseteq born' /\ table' \cap born \subseteq table
    /\ late \subseteq late' /\ UNCHANGED <<socket, ready>>
    /\ \A s \in Sessions :
           \/ keeper'[s] = keeper[s]
           \/ keeper[s] = "none" /\ keeper'[s] = "spawned" /\ EnvOf[s] \in born'
           \/ keeper[s] = "up" /\ keeper'[s] = "dying"
    /\ watch' \in [Sessions -> {"none", "connecting", "listening", "refused",
                                "looking", "ending", "done"}]
    /\ \A s \in Sessions :
           \/ watch'[s] = watch[s]
           \/ watch'[s] = "connecting" /\ WaitsFor(r, s) /\ request'[r].at # "waiting"
    /\ \A q \in Requesters \ {r} : request'[q] = request[q]
    /\ request'[r].at # "idle" => request'[r].env \in born'
    /\ request'[r].at = "saving" => request'[r].env \notin table'
    /\ request'[r].at = "waiting" =>
           /\ request'[r].session \in Sessions
           /\ request'[r].env = EnvOf[request'[r].session]
           /\ \/ WaitsFor(r, request'[r].session)
              \/ keeper[request'[r].session] = "none" /\ keeper'[request'[r].session] # "none"
    /\ \A s \in Sessions : WaitsFor(r, s) =>
           \/ ~ready[s]
           \/ request'[r].at = "waiting" /\ request'[r].session = s
           \/ watch'[s] # "none"
           \/ s \in late'
    /\ \A d \in Describers \ {r} : look'[d] = look[d]
    /\ Keeps(r) \/ Fresh(r)

\* An environment that it leaves alone.
Untouched(e) ==
    /\ e \in table' <=> e \in table
    /\ e \in up' <=> e \in up
    /\ e \in exited => e \in exited'
    /\ \A s \in Sessions : EnvOf[s] = e => watch'[s] = watch[s]

\* After it the host still knows of its sessions what it has to.
LEMMA MovesKnow ==
    ASSUME HomeInv, NewsInv, NEW r \in Requesters, Moves(r)
    PROVE  HostKnows' /\ Remembers
  <1> USE DEF NewsInv, HostKnows
  <1>1. Remembers
    <2>1. ASSUME NEW s \in Sessions, ready[s], WaitedFor(s)
          PROVE  WaitedFor(s)' \/ watch'[s] # "none" \/ s \in late'
      BY <2>1 DEF Moves, WaitedFor, WaitsFor
    <2>2. /\ born \subseteq born' /\ table' \cap born \subseteq table /\ late \subseteq late'
          /\ UNCHANGED <<ready, socket>>
          /\ \A s \in Sessions : watch[s] # "none" => watch'[s] # "none"
          /\ \A s \in Sessions : keeper[s] \in Over => keeper'[s] \in Over
      BY DEF Moves, Over
    <2>3. \A s \in Sessions : Known(s) => Known(s)'
      BY <2>1, <2>2 DEF Known
    <2> QED
      BY <2>2, <2>3 DEF Remembers
  <1>2. HostTyped'
    BY DEF HostTyped, Moves
  <1>3. Births'
    <2>1. \A s \in Sessions : keeper'[s] # "none" => EnvOf[s] \in born'
      BY DEF Births, Moves
    <2>2. ASSUME NEW q \in Requesters
          PROVE  /\ request'[q].at # "idle" => request'[q].env \in born'
                 /\ request'[q].at = "saving" => request'[q].env \notin table'
                 /\ request'[q].at = "waiting" =>
                       /\ request'[q].session \in Sessions
                       /\ request'[q].env = EnvOf[request'[q].session]
      BY DEF Births, Moves
    <2> QED
      BY <2>1, <2>2 DEF Births
  <1>4. Waiting'
    <2>1. ASSUME NEW s \in Sessions, NEW q \in Requesters, WaitsFor(q, s)'
          PROVE  \/ WaitsFor(q, s)
                 \/ q = r /\ keeper[s] = "none" /\ keeper'[s] # "none"
      BY <2>1 DEF Moves, WaitsFor
    <2>2. ASSUME NEW s \in Sessions, keeper'[s] = "none"
          PROVE  watch'[s] = "none" /\ ~WaitedFor(s)'
      <3>1. keeper[s] = "none" /\ watch[s] = "none" /\ ~WaitedFor(s)
        BY <2>2 DEF Moves, Waiting
      <3> QED
        BY <2>1, <2>2, <3>1 DEF Moves, WaitedFor
    <2>3. ASSUME NEW s \in Sessions, WaitedFor(s)' PROVE watch'[s] = "none"
      <3>1. PICK q \in Requesters : WaitsFor(q, s)'
        BY <2>3 DEF WaitedFor
      <3>2. watch[s] = "none"
        BY <2>1, <3>1 DEF Waiting, WaitedFor
      <3>3. ~(WaitsFor(r, s) /\ request'[r].at # "waiting")
        BY <2>1, <3>1 DEF Waiting, WaitedFor, WaitsFor
      <3> QED
        BY <3>2, <3>3 DEF Moves
    <2>4. \A s \in Sessions, p, q \in Requesters : WaitsFor(p, s)' /\ WaitsFor(q, s)' => p = q
      BY <2>1 DEF Waiting, WaitedFor
    <2>5. \A s \in Sessions : (keeper[s] = "none")' <=> keeper'[s] = "none"
      OBVIOUS
    <2> QED
      BY <2>2, <2>3, <2>4 DEF Waiting
  <1>5. Watching'
    <2>1. \A s \in Sessions :
              /\ keeper'[s] \in Alive => ready'[s]
              /\ ready'[s] => keeper'[s] \notin {"none", "spawned", "bound"}
      BY DEF Watching, Moves, Alive
    <2>2. \A s \in Sessions : watch'[s] \in {"ending", "done"} => keeper'[s] \in Over
      BY DEF Watching, Moves, Over
    <2>3. \A s \in Sessions : ready'[s] /\ socket'[s] /\ EnvOf[s] \in table' => Known(s)'
      BY <1>1 DEF Moves, Remembers, Watching, Births
    <2> QED
      BY <2>1, <2>2, <2>3 DEF Watching
  <1>6. LooksTrue'
    <2>1. ASSUME NEW d \in Describers, d # r, NEW x \in Envs, Tells(d, x)' PROVE Tells(d, x)
      BY <2>1 DEF Moves, Tells
    <2>2. \A d \in Describers : Keeps(d) \/ Fresh(d)
      BY <2>1 DEF Moves, Keeps
    <2> QED
      BY <1>1, <2>2, LooksStay
  <1> QED
    BY <1>1, <1>2, <1>3, <1>4, <1>5, <1>6

\* What a handler's step leaves of what was said, when it goes on to announce
\* what it was going to announce.
LEMMA MovesUphold ==
    ASSUME HomeInv, NewsInv, NEW r \in Requesters, Moves(r), NEW E,
           \A e \in Envs \ E : Promises(r, e) => Promises(r, e)',
           \A e \in Envs \ E : Untouched(e) \/ Promises(r, e)'
    PROVE  Upholds(E)
  <1>1. \A e \in Envs \ E : Promised(e) => Promised(e)'
    BY DEF Moves, Promised, Promises
  <1>2. ASSUME NEW e \in Envs, Untouched(e) PROVE Steady(e)
    <2>1. ASSUME NEW s \in Sessions, watch'[s] = watch[s], ready[s], WaitedFor(s)
          PROVE  WaitedFor(s)' \/ Unannounced(s)'
      <3>1. watch'[s] = "none"
        BY <2>1 DEF NewsInv, HostKnows, Waiting
      <3> QED
        BY <2>1, <3>1 DEF Moves, WaitedFor, WaitsFor, Unannounced
    <2>2. ASSUME NEW s \in Sessions, watch'[s] = watch[s], Unannounced(s) PROVE Unannounced(s)'
      BY <2>2 DEF Moves, Unannounced
    <2>3. ASSUME NEW s \in Sessions, watch'[s] = watch[s], ready[s], Told(s) PROVE Told(s)'
      BY <2>1, <2>2, <2>3 DEF Told
    <2>4. ASSUME NEW s \in Sessions, watch'[s] = watch[s], keeper'[s] \in Alive, ~Hidden(s)'
          PROVE  keeper[s] \in Alive /\ ~Hidden(s)
      <3>1. keeper[s] \in Alive /\ ready[s]
        BY <2>4 DEF Moves, Alive, NewsInv, HostKnows, Watching
      <3>2. socket'[s] = socket[s]
        BY DEF Moves
      <3> QED
        BY <2>1, <2>2, <2>4, <3>1, <3>2 DEF Hidden
    <2>5. UNCHANGED ready
      BY DEF Moves
    <2> QED
      BY <1>2, <2>3, <2>4, <2>5 DEF Steady, Untouched
  <1> QED
    BY <1>1, <1>2, UpholdsIf DEF Promised

\* A handler's step that announces nothing.
LEMMA MovesQuietly ==
    ASSUME HomeInv, NewsInv, NEW r \in Requesters, Moves(r),
           UNCHANGED <<followerVars, newsVars>>,
           \A e \in Envs : Promises(r, e) => Promises(r, e)',
           \A e \in Envs : Untouched(e) \/ Promises(r, e)'
    PROVE  NewsInv'
  <1>1. HostKnows' /\ Remembers
    BY MovesKnow
  <1>2. Upholds({})
    BY MovesUphold
  <1> QED
    BY <1>1, <1>2, SilenceKeeps

\* A handler tells of the environment it is at, and of no other.
LEMMA HandlerTells ==
    ASSUME NEW r \in Requesters, NEW x
    PROVE  /\ Tells(r, x) <=> request[r].at \in Telling /\ request[r].env = x
           /\ Tells(r, x)' <=> request'[r].at \in Telling /\ request'[r].env = x
           /\ Promises(r, x)' <=>
                  request'[r].env = x /\ request'[r].at \in Telling \cup {"saving"}
  BY DescribersApart DEF Tells, Promises

\* What a request asks about is an environment that was made, and one that
\* begins had nothing to announce.
LEMMA AskMoves ==
    ASSUME HomeInv, NewsInv, NEW r \in Requesters, Ask(r)
    PROVE  /\ Moves(r) /\ UNCHANGED newsVars
           /\ \A e \in Envs : Promises(r, e) => Promises(r, e)'
           /\ \A e \in Envs : Untouched(e) \/ Promises(r, e)'
  <1> USE DEF NewsInv, HostKnows, HostTyped
  <1>1. request[r] = Idle
    BY DEF Ask, Create, AskStart, AskStop, AskDestroy, OpenSession, Resume, Begin
  <1>2. /\ \A e \in Envs : ~Promises(r, e)
        /\ \A s \in Sessions : ~WaitsFor(r, s)
    BY <1>1 DEF Promises, Idle, Handling, WaitsFor, Telling
  <1>3. /\ request \in [Requesters -> Held] /\ look \in [Describers -> Learnt]
        /\ keeper \in [Sessions -> Keepers] /\ r \in Describers
    BY DEF HomeInv, Typed, Describers
  <1>4. ASSUME NEW e \in Envs, Create(r, e)
        PROVE  /\ Moves(r) /\ UNCHANGED newsVars
               /\ \A x \in Envs : Untouched(x) \/ Promises(r, x)'
    <2>1. request'[r] = Handling("creating", e, NoSession, {})
      BY <1>3, <1>4 DEF Create, Begin
    <2>2. /\ look' = [look EXCEPT ![r] = LookAt(e)] /\ e \notin born
          /\ born' = born \cup {e} /\ table' = table \cup {e} /\ up' = up \cup {e}
          /\ UNCHANGED <<exited, keeper, socket, ready, watch, late, newsVars>>
      BY <1>4 DEF Create, keeperVars, histories
    <2>3. Fresh(r)
      <3>1. look'[r] = LookAt(e)
        BY <1>3, <2>2
      <3>2. \A x \in Envs : Tells(r, x)' => x = e
        BY <2>1, HandlerTells DEF Handling
      <3> QED
        BY <3>1, <3>2 DEF Fresh
    <2>4. \A q \in Requesters \ {r} : request'[q] = request[q]
      BY <1>3, <1>4 DEF Create, Begin
    <2>5. Moves(r)
      BY <1>2, <1>3, <2>1, <2>2, <2>3, <2>4 DEF Moves, Handling
    <2>6. \A x \in Envs : Untouched(x) \/ Promises(r, x)'
      BY <2>1, <2>2, HandlerTells DEF Untouched, Telling, Handling
    <2> QED
      BY <2>2, <2>5, <2>6
  <1>5. ASSUME NEW e \in Envs, AskStart(r, e) \/ AskStop(r, e) \/ AskDestroy(r, e)
        PROVE  /\ Moves(r) /\ UNCHANGED newsVars
               /\ \A x \in Envs : Untouched(x)
    <2>1. PICK p, l :
              /\ p \in {"starting", "stopping", "destroying"} /\ e \in table
              /\ request' = [request EXCEPT ![r] = Handling(p, e, NoSession, l)]
              /\ UNCHANGED <<table, up, exited, born, keeper, socket, ready, watch, look, late,
                             newsVars>>
      BY <1>5 DEF AskStart, AskStop, AskDestroy, Begin, roomVars, keeperVars, taskVars, histories
    <2>2. request'[r] = Handling(p, e, NoSession, l)
      BY <1>3, <2>1
    <2>3. Keeps(r)
      BY <2>1, <2>2, HandlerTells DEF Keeps, Telling, Handling
    <2>4. Moves(r)
      BY <1>2, <1>3, <2>1, <2>2, <2>3 DEF Moves, Handling
    <2> QED
      BY <2>1, <2>4 DEF Untouched
  <1>6. ASSUME NEW s \in Sessions, OpenSession(r, s)
        PROVE  /\ Moves(r) /\ UNCHANGED newsVars
               /\ \A x \in Envs : Untouched(x)
    <2>1. /\ request' = [request EXCEPT ![r] = Handling("waiting", EnvOf[s], s, {})]
          /\ EnvOf[s] \in table /\ keeper[s] = "none"
          /\ keeper' = [keeper EXCEPT ![s] = "spawned"]
          /\ UNCHANGED <<table, up, exited, born, socket, ready, watch, look, late, newsVars>>
      BY <1>6 DEF OpenSession, Begin, roomVars, taskVars, histories
    <2>2. request'[r] = Handling("waiting", EnvOf[s], s, {})
      BY <1>3, <2>1
    <2>3. Keeps(r)
      BY <2>1, <2>2, HandlerTells DEF Keeps, Telling, Handling
    <2>4. Moves(r)
      <3>1. \A x \in Sessions :
                \/ keeper'[x] = keeper[x]
                \/ keeper[x] = "none" /\ keeper'[x] = "spawned" /\ EnvOf[x] \in born
        BY <1>3, <2>1
      <3>2. keeper'[s] = "spawned" /\ EnvOf[s] \in born
        BY <1>3, <2>1
      <3>3. \A q \in Requesters \ {r} : request'[q] = request[q]
        BY <1>3, <2>1
      <3> QED
        BY <1>2, <2>1, <2>2, <2>3, <3>1, <3>2, <3>3 DEF Moves, Handling
    <2> QED
      BY <2>1, <2>4 DEF Untouched
  <1>7. ASSUME NEW s \in Sessions, Resume(r, s)
        PROVE  /\ Moves(r) /\ UNCHANGED newsVars
               /\ \A x \in Envs : Untouched(x)
    <2>1. /\ request' = [request EXCEPT ![r] = Handling("resuming", EnvOf[s], s, {})]
          /\ look' = [look EXCEPT ![r] = Asking(s)] /\ EnvOf[s] \in table
          /\ UNCHANGED <<table, up, exited, born, keeper, socket, ready, watch, late, newsVars>>
      BY <1>7 DEF Resume, Begin, roomVars, keeperVars, histories, Asking
    <2>2. request'[r] = Handling("resuming", EnvOf[s], s, {}) /\ look'[r] = Asking(s)
      BY <1>3, <2>1
    <2>3. Fresh(r)
      <3>1. \A x \in Envs : ~Tells(r, x)'
        BY <2>2, HandlerTells DEF Telling, Handling
      <3> QED
        BY <2>2, <3>1 DEF Fresh
    <2>4. Moves(r)
      BY <1>2, <1>3, <2>1, <2>2, <2>3 DEF Moves, Handling
    <2> QED
      BY <2>1, <2>4 DEF Untouched
  <1> QED
    BY <1>2, <1>4, <1>5, <1>6, <1>7 DEF Ask

\* What a handler holds when it goes on to something else.
LEMMA GoesOn ==
    ASSUME NEW h \in Held, NEW p \in Places
    PROVE  LET on == [h EXCEPT !.at = p] IN
           on.at = p /\ on.env = h.env /\ on.session = h.session
  BY DEF Held

\* The container, or the entry, is another: whoever made it so says so next.
LEMMA ContainerMoves ==
    ASSUME HomeInv, NewsInv, NEW r \in Requesters, Started(r) \/ Stopped(r) \/ Destroyed(r)
    PROVE  /\ Moves(r) /\ UNCHANGED newsVars
           /\ \A e \in Envs : Promises(r, e) => Promises(r, e)'
           /\ \A e \in Envs : Untouched(e) \/ Promises(r, e)'
  <1> USE DEF NewsInv, HostKnows, HostTyped
  <1>1. /\ request \in [Requesters -> Held] /\ look \in [Describers -> Learnt]
        /\ r \in Describers /\ request[r] \in Held
    BY DEF HomeInv, Typed, Describers
  <1>2. request[r].at \in {"starting", "stopping", "destroying"}
    BY DEF Started, Stopped, Destroyed
  <1>3. /\ request[r].env \in born /\ request[r].env \in Envs
        /\ \A e \in Envs : ~Promises(r, e) /\ ~Tells(r, e)
        /\ \A s \in Sessions : ~WaitsFor(r, s)
    BY <1>2, HandlerTells DEF Births, Promises, WaitsFor, Telling
  <1>4. PICK p \in {"telling", "saving"} :
            /\ request' = [request EXCEPT ![r].at = p]
            /\ p = "telling" => look' = [look EXCEPT ![r] = LookAt(request[r].env)]
            /\ p = "saving" => look' = look /\ table' = table \ {request[r].env}
    BY DEF Started, Stopped, Destroyed, taskVars
  <1>5. request'[r].at = p /\ request'[r].env = request[r].env
    BY <1>1, <1>4, GoesOn DEF Places
  <1>6. /\ UNCHANGED <<born, keeper, socket, ready, watch, late, newsVars>>
        /\ table' \subseteq table
        /\ \A e \in Envs : e # request[r].env =>
               /\ e \in table' <=> e \in table
               /\ e \in up' <=> e \in up
               /\ e \in exited => e \in exited'
    BY DEF Started, Stopped, Destroyed, keeperVars, taskVars, histories
  <1>7. Keeps(r) \/ Fresh(r)
    <2>1. CASE p = "telling"
      <3>1. look'[r] = LookAt(request[r].env)
        BY <1>1, <1>4, <2>1
      <3>2. \A x \in Envs : Tells(r, x)' => x = request[r].env
        BY <1>5, HandlerTells
      <3> QED
        BY <1>3, <3>1, <3>2 DEF Fresh
    <2>2. CASE p = "saving"
      BY <1>4, <1>5, <2>2, HandlerTells DEF Keeps, Telling
    <2> QED
      BY <2>1, <2>2
  <1>8. /\ \A d \in Describers \ {r} : look'[d] = look[d]
        /\ \A q \in Requesters \ {r} : request'[q] = request[q]
    BY <1>1, <1>4
  <1>9. Moves(r)
    BY <1>3, <1>4, <1>5, <1>6, <1>7, <1>8 DEF Moves
  <1>10. \A e \in Envs : Untouched(e) \/ Promises(r, e)'
    BY <1>5, <1>6, HandlerTells DEF Untouched, Telling
  <1> QED
    BY <1>3, <1>6, <1>9, <1>10

\* The session is there: it is watched from now on, and its home announced.
LEMMA SessionReadyMoves ==
    ASSUME HomeInv, NewsInv, NEW r \in Requesters, SessionReady(r)
    PROVE  /\ Moves(r) /\ UNCHANGED newsVars
           /\ \A e \in Envs : Promises(r, e) => Promises(r, e)'
           /\ \A e \in Envs : Untouched(e) \/ Promises(r, e)'
  <1> USE DEF NewsInv, HostKnows, HostTyped
  <1>1. /\ request \in [Requesters -> Held] /\ look \in [Describers -> Learnt]
        /\ r \in Describers /\ request[r] \in Held
    BY DEF HomeInv, Typed, Describers
  <1>2. request[r].at = "waiting" /\ request' = [request EXCEPT ![r].at = "opening"]
    BY DEF SessionReady
  <1>3. /\ request[r].env \in born /\ request[r].env \in Envs /\ request[r].session \in Sessions
        /\ request[r].env = EnvOf[request[r].session]
        /\ \A e \in Envs : ~Promises(r, e)
    BY <1>2 DEF Births, Promises, Telling
  <1>4. request'[r].at = "opening" /\ request'[r].env = request[r].env
    BY <1>1, <1>2, GoesOn DEF Places
  <1>5. /\ UNCHANGED <<table, up, exited, born, keeper, socket, ready, late, newsVars>>
        /\ watch' = [watch EXCEPT ![request[r].session] = "connecting"]
        /\ look' = [look EXCEPT ![r] = LookAt(request[r].env)]
    BY DEF SessionReady, roomVars, keeperVars, histories
  <1>6. Fresh(r)
    <2>1. look'[r] = LookAt(request[r].env)
      BY <1>1, <1>5
    <2>2. \A x \in Envs : Tells(r, x)' => x = request[r].env
      BY <1>4, HandlerTells
    <2> QED
      BY <1>3, <2>1, <2>2 DEF Fresh
  <1>7. Moves(r)
    <2>1. /\ watch' \in [Sessions -> {"none", "connecting", "listening", "refused",
                                      "looking", "ending", "done"}]
          /\ \A s \in Sessions :
                 /\ watch'[s] = watch[s] \/ (watch'[s] = "connecting" /\ WaitsFor(r, s))
                 /\ WaitsFor(r, s) => watch'[s] # "none"
      BY <1>2, <1>3, <1>5 DEF WaitsFor
    <2>2. /\ \A d \in Describers \ {r} : look'[d] = look[d]
          /\ \A q \in Requesters \ {r} : request'[q] = request[q]
      BY <1>1, <1>2, <1>5
    <2> QED
      BY <1>3, <1>4, <1>5, <1>6, <2>1, <2>2 DEF Moves
  <1>8. ASSUME NEW e \in Envs PROVE Untouched(e) \/ Promises(r, e)'
    <2>1. CASE e = request[r].env
      BY <1>4, <2>1, HandlerTells DEF Telling
    <2>2. CASE e # request[r].env
      BY <1>3, <1>5, <2>2 DEF Untouched
    <2> QED
      BY <2>1, <2>2
  <1> QED
    BY <1>3, <1>5, <1>7, <1>8

\* A session that could not be had, or not in time, is given up; a shell asked to
\* end still runs; and an answer is nobody's news.
LEMMA OtherwiseMoves ==
    ASSUME HomeInv, NewsInv, NEW r \in Requesters,
           \/ Cloned(r) \/ CloneFails(r) \/ Answered(r) \/ SessionFails(r) \/ Resumed(r)
           \/ \E s \in Sessions : Kill(r, s)
    PROVE  /\ Moves(r) /\ UNCHANGED newsVars
           /\ \A e \in Envs : Promises(r, e) => Promises(r, e)'
           /\ \A e \in Envs : Untouched(e) \/ Promises(r, e)'
  <1> USE DEF NewsInv, HostKnows, HostTyped
  <1>1. /\ request \in [Requesters -> Held] /\ look \in [Describers -> Learnt]
        /\ keeper \in [Sessions -> Keepers] /\ r \in Describers /\ request[r] \in Held
    BY DEF HomeInv, Typed, Describers
  <1>2. CASE \E s \in Sessions : Kill(r, s)
    <2>1. PICK s \in Sessions : Kill(r, s)
      BY <1>2
    <2>2. /\ request'[r].at = request[r].at /\ request'[r].env = request[r].env
          /\ request'[r].session = request[r].session
          /\ \A x \in Requesters \ {r} : request'[x] = request[x]
      BY <1>1, <2>1 DEF Kill, Held
    <2>3. UNCHANGED <<table, up, exited, born, socket, ready, watch, look, late, newsVars>>
      BY <2>1 DEF Kill, roomVars, taskVars
    <2>4. \A x \in Sessions : keeper'[x] = keeper[x] \/ (keeper[x] = "up" /\ keeper'[x] = "dying")
      BY <1>1, <2>1 DEF Kill
    <2>5. Keeps(r)
      BY <2>2, <2>3, HandlerTells DEF Keeps
    <2>6. Moves(r)
      <3>1. /\ request'[r].at # "idle" => request'[r].env \in born
            /\ request'[r].at = "saving" => request'[r].env \notin table
            /\ request'[r].at = "waiting" =>
                   /\ request'[r].session \in Sessions
                   /\ request'[r].env = EnvOf[request'[r].session]
                   /\ WaitsFor(r, request'[r].session)
        BY <2>2 DEF Births, WaitsFor
      <3>2. \A x \in Sessions : WaitsFor(r, x) =>
                request'[r].at = "waiting" /\ request'[r].session = x
        BY <2>2 DEF WaitsFor
      <3> QED
        BY <1>1, <2>2, <2>3, <2>4, <2>5, <3>1, <3>2 DEF Moves
    <2>7. \A e \in Envs : Promises(r, e) => Promises(r, e)'
      BY <2>2, HandlerTells DEF Promises
    <2> QED
      BY <2>3, <2>6, <2>7 DEF Untouched
  <1>3. CASE Cloned(r) \/ CloneFails(r) \/ Answered(r) \/ SessionFails(r) \/ Resumed(r)
    <2>1. /\ request[r].at \in {"cloning", "answering", "waiting", "resuming"}
          /\ UNCHANGED <<table, up, exited, born, keeper, socket, ready, watch, newsVars>>
          /\ late \subseteq late'
          /\ request[r].at = "waiting" /\ ready[request[r].session] =>
                 request[r].session \in late'
      BY <1>3 DEF Cloned, CloneFails, Answered, SessionFails, Resumed, roomVars, keeperVars,
                  taskVars, histories
    <2>2. request[r].env \in born /\ request[r].env \in Envs
      BY <2>1 DEF Births
    <2>3. /\ request'[r].at \in {"answering", "destroying", "idle"}
          /\ request'[r].at # "idle" => request'[r].env = request[r].env
          /\ \A x \in Requesters \ {r} : request'[x] = request[x]
      <3>1. CASE Cloned(r)
        BY <1>1, <3>1, GoesOn DEF Cloned, Places
      <3>2. CASE CloneFails(r)
        BY <1>1, <3>2 DEF CloneFails, Handling, Idle
      <3>3. CASE Answered(r) \/ SessionFails(r) \/ Resumed(r)
        BY <1>1, <3>3 DEF Answered, SessionFails, Resumed, Handling, Idle
      <3> QED
        BY <1>3, <3>1, <3>2, <3>3
    <2>4. \A x \in Envs : ~Tells(r, x)' /\ ~Promises(r, x)
      BY <2>1, <2>3, HandlerTells DEF Telling, Promises
    <2>5. /\ \A d \in Describers \ {r} : look'[d] = look[d]
          /\ look'[r] \in {look[r], NoLook, LookAt(request[r].env)}
      BY <1>1, <1>3 DEF Cloned, CloneFails, Answered, SessionFails, Resumed, taskVars
    <2>6. Keeps(r) \/ Fresh(r)
      BY <2>2, <2>4, <2>5 DEF Keeps, Fresh
    <2>7. Moves(r)
      <3>1. \A s \in Sessions : WaitsFor(r, s) => ~ready[s] \/ s \in late'
        BY <2>1 DEF WaitsFor
      <3> QED
        BY <1>1, <2>1, <2>2, <2>3, <2>5, <2>6, <3>1 DEF Moves
    <2> QED
      BY <2>1, <2>4, <2>7 DEF Untouched
  <1> QED
    BY <1>2, <1>3

\* An announcement of the environment a handler was at leaves the host as it is.
LEMMA TellMoves ==
    ASSUME HomeInv, NewsInv, NEW r \in Requesters, TellGone(r) \/ TellEnvironment(r)
    PROVE  /\ Moves(r) /\ request[r].env \in Envs
           /\ UNCHANGED table
           /\ \A e \in Envs : Steady(e)
           /\ Upholds({request[r].env})
  <1> USE DEF NewsInv, HostKnows, HostTyped
  <1>1. /\ request \in [Requesters -> Held] /\ look \in [Describers -> Learnt]
        /\ r \in Describers /\ request[r] \in Held
    BY DEF HomeInv, Typed, Describers
  <1>2. /\ request[r].at \in {"creating", "telling", "opening", "saving"}
        /\ UNCHANGED <<table, up, exited, born, keeper, socket, ready, watch, late>>
    BY DEF TellGone, TellEnvironment, roomVars, keeperVars, taskVars, histories
  <1>3. /\ request[r].env \in born /\ request[r].env \in Envs
        /\ \A s \in Sessions : ~WaitsFor(r, s)
    BY <1>2 DEF Births, WaitsFor
  <1>4. /\ request'[r].at \in {"cloning", "answering", "idle"}
        /\ request'[r].at # "idle" => request'[r].env = request[r].env
        /\ \A x \in Requesters \ {r} : request'[x] = request[x]
    <2>1. CASE TellGone(r)
      BY <1>1, <2>1 DEF TellGone, Handling, Idle
    <2>2. CASE TellEnvironment(r)
      <3>1. \/ \E p \in {"cloning", "answering"} : request' = [request EXCEPT ![r].at = p]
            \/ request' = [request EXCEPT ![r] = Idle]
        BY <1>2, <2>2 DEF TellEnvironment
      <3>2. CASE request' = [request EXCEPT ![r] = Idle]
        BY <1>1, <3>2 DEF Handling, Idle
      <3>3. ASSUME NEW p \in {"cloning", "answering"}, request' = [request EXCEPT ![r].at = p]
            PROVE  request'[r].at = p /\ request'[r].env = request[r].env
        BY <1>1, <3>3, GoesOn DEF Places
      <3> QED
        BY <1>1, <3>1, <3>2, <3>3
    <2> QED
      BY <2>1, <2>2
  <1>5. Keeps(r) \/ Fresh(r)
    <2>1. \A x \in Envs : ~Tells(r, x)'
      BY <1>4, HandlerTells DEF Telling
    <2>2. look'[r] \in {look[r], NoLook, LookAt(request[r].env)}
      BY <1>1 DEF TellGone, TellEnvironment, taskVars
    <2> QED
      BY <1>3, <2>1, <2>2 DEF Keeps, Fresh
  <1>6. \A d \in Describers \ {r} : look'[d] = look[d]
    BY <1>1 DEF TellGone, TellEnvironment, taskVars
  <1>7. Moves(r)
    BY <1>2, <1>3, <1>4, <1>5, <1>6 DEF Moves
  <1>8. \A e \in Envs : Untouched(e)
    BY <1>2 DEF Untouched
  <1>9. \A e \in Envs : Steady(e)
    <2>1. \A s \in Sessions : WaitedFor(s)' = WaitedFor(s) /\ Unannounced(s)' = Unannounced(s)
      <3>1. \A q \in Requesters, s \in Sessions : WaitsFor(q, s)' <=> WaitsFor(q, s)
        BY <1>3, <1>4 DEF WaitsFor
      <3> QED
        BY <1>2, <3>1 DEF WaitedFor, Unannounced
    <2> QED
      BY <1>2, <2>1 DEF Steady, Told, Hidden
  <1>10. \A e \in Envs \ {request[r].env} : ~Promises(r, e)
    BY DEF Promises
  <1>11. Upholds({request[r].env})
    BY <1>7, <1>8, <1>10, MovesUphold
  <1> QED
    BY <1>2, <1>3, <1>7, <1>9, <1>11

\* A request changes the host and announces it, in that order.
LEMMA RequestTells ==
    ASSUME HomeInv, NewsInv, NEW r \in Requesters, Ask(r) \/ Handle(r), UNCHANGED followerVars
    PROVE  NewsInv'
  <1>1. CASE Ask(r)
    BY <1>1, AskMoves, MovesQuietly
  <1>2. CASE Started(r) \/ Stopped(r) \/ Destroyed(r)
    BY <1>2, ContainerMoves, MovesQuietly
  <1>3. CASE SessionReady(r)
    BY <1>3, SessionReadyMoves, MovesQuietly
  <1>4. CASE \/ Cloned(r) \/ CloneFails(r) \/ Answered(r) \/ SessionFails(r) \/ Resumed(r)
             \/ \E s \in Sessions : Kill(r, s)
    BY <1>4, OtherwiseMoves, MovesQuietly
  <1>5. CASE TellGone(r)
    <2>1. /\ HostKnows' /\ request[r].env \in Envs
          /\ UNCHANGED table /\ Upholds({request[r].env})
      BY <1>5, TellMoves, MovesKnow
    <2>2. PICK e \in Envs : e = request[r].env
      BY <2>1
    <2>3. PICK said \in Word : Announce(said) /\ said.env = e /\ said.what = Absent
      BY <1>5, <2>2, GoneIsAWord DEF TellGone
    <2>4. e \notin table
      BY <1>5, <2>2 DEF TellGone, NewsInv, HostKnows, Births
    <2>5. Accounted(said.what, said.stood, e)'
      BY <2>1, <2>3, <2>4 DEF Accounted, Explained
    <2> QED
      BY <2>1, <2>2, <2>3, <2>5, AnnounceKeeps
  <1>6. CASE TellEnvironment(r)
    <2>1. /\ HostKnows' /\ request[r].env \in Envs /\ r \in Describers
          /\ \A e \in Envs : Steady(e)
          /\ Upholds({request[r].env})
      BY <1>6, TellMoves, MovesKnow DEF Describers
    <2>2. PICK e \in Envs : e = request[r].env
      BY <2>1
    <2>3. /\ Sketch(look[r], e) = Described(r)[e] /\ Described(r)[e] \in Shape
          /\ look[r].left = {} /\ Asked(r)
      <3>1. Looked(r)
        BY <1>6 DEF TellEnvironment
      <3> QED
        BY <2>1, <3>1, SketchIsSaid, DescribedShape DEF HomeInv
    <2>4. PICK what \in Shape, said \in Word :
              /\ what = Sketch(look[r], e) /\ Announce(said)
              /\ said.env = e /\ said.what = what
              /\ said.stood = Stood(look[r].was[e], what, e)
      <3>1. PICK what \in Shape : what = Sketch(look[r], e) /\ what = Described(r)[e]
        BY <2>3
      <3>2. Announce(EnvironmentIs(e, what, look[r].was[e]))
        BY <1>6, <2>2, <3>1 DEF TellEnvironment
      <3> QED
        BY <3>1, <3>2, SaidIsAWord
    <2>5. ASSUME Stood(look[r].was[e], what, e) PROVE Explained(what, e)'
      <3>1. Tells(r, e)
        BY <1>6, <2>2, HandlerTells DEF TellEnvironment, Telling
      <3>2. Explained(what, e)
        BY <2>1, <2>3, <2>4, <2>5, <3>1, LookExplains DEF NewsInv
      <3> QED
        BY <2>1, <3>2, SteadyExplains
    <2>6. Accounted(what, said.stood, e)'
      BY <2>4, <2>5 DEF Accounted
    <2> QED
      BY <2>1, <2>2, <2>4, <2>6, AnnounceKeeps
  <1> QED
    BY <1>1, <1>2, <1>3, <1>4, <1>5, <1>6 DEF Handle

-----------------------------------------------------------------------------
(* Followers. *)

\* A step of a follower, which is nothing to the host but that it may be looked at.
Following ==
    /\ UNCHANGED <<table, up, exited, born, keeper, socket, ready, watch, request, late>>
    /\ \A d \in Describers : Keeps(d) \/ Fresh(d)

\* A follower's look is for no handler and no watcher.
LEMMA FollowersTell ==
    ASSUME NEW f \in Followers, UNCHANGED <<watch, request>>
    PROVE  /\ \A x \in Envs : ~Tells(f, x)'
           /\ \A d \in Describers : look'[d] = look[d] => Keeps(d)
  BY DescribersApart DEF Tells, Keeps

\* What was known and accounted for is, and the looks show nothing new.
LEMMA FollowingKnows ==
    ASSUME HomeInv, NewsInv, Following
    PROVE  /\ HostKnows'
           /\ \A what \in Shape, stood \in BOOLEAN, e \in Envs :
                  Accounted(what, stood, e)' = Accounted(what, stood, e)
  <1> USE DEF NewsInv, HostKnows, Following
  <1>1. \A s \in Sessions : /\ Known(s)' = Known(s) /\ WaitedFor(s)' = WaitedFor(s)
                            /\ Told(s)' = Told(s) /\ Hidden(s)' = Hidden(s)
    BY DEF Known, Told, Hidden, Unannounced, WaitedFor, WaitsFor
  <1>2. \A e \in Envs : Promised(e)' = Promised(e)
    BY DEF Promised, Promises
  <1>3. ASSUME NEW what \in Shape, NEW stood \in BOOLEAN, NEW e \in Envs
        PROVE  Accounted(what, stood, e)' = Accounted(what, stood, e)
    <2>1. \A s \in what.sessions : Told(s)' = Told(s)
      BY <1>1 DEF Shape
    <2>2. Explained(what, e)' = Explained(what, e)
      BY <1>1, <2>1 DEF Explained
    <2> QED
      BY <1>2, <2>2 DEF Accounted
  <1>4. HostTyped' /\ Births' /\ Waiting' /\ Watching'
    BY <1>1 DEF HostTyped, Births, Waiting, Watching, WaitsFor
  <1>5. LooksTrue'
    <2>1. Remembers
      BY <1>1 DEF Remembers
    <2> QED
      BY <2>1, LooksStay
  <1> QED
    BY <1>3, <1>4, <1>5

\* The words a follower has still to take are accounted for as before.
LEMMA WordsStay ==
    ASSUME HomeInv, NewsInv, Following, NEW f \in Followers, news'[f] = news[f]
    PROVE  LastWordsOf(f)'
  <1> SUFFICES ASSUME NEW i \in DOMAIN news[f], LastOn(news[f], i)
               PROVE  Accounted(news[f][i].what, news[f][i].stood, news[f][i].env)'
    BY DEF LastWordsOf
  <1>1. PICK what \in Shape, stood \in BOOLEAN, e \in Envs :
            what = news[f][i].what /\ stood = news[f][i].stood /\ e = news[f][i].env
    BY WordIs DEF NewsInv, TreesFollow, TreeTyped
  <1>2. Accounted(what, stood, e)
    BY <1>1 DEF NewsInv, TreesFollow, LastWordsCount, LastWordsOf
  <1>3. Accounted(what, stood, e)'
    BY <1>2, FollowingKnows
  <1> QED
    BY <1>1, <1>3

\* One follower at a time.
LEMMA OneFollows ==
    ASSUME HomeInv, NewsInv, Following, TreeTyped', NEW f \in Followers,
           \A g \in Followers \ {f} :
               /\ conn'[g] = conn[g] /\ asks'[g] = asks[g] /\ linked'[g] = linked[g]
               /\ view'[g] = view[g] /\ subscribed'[g] = subscribed[g] /\ news'[g] = news[g]
               /\ lagged'[g] = lagged[g] /\ missed'[g] = missed[g],
           TalksTo(f)', LastWordsOf(f)', PicturesOf(f)'
    PROVE  NewsInv'
  <1> USE DEF NewsInv, TreesFollow
  <1>1. /\ \A g \in Followers : \A i \in DOMAIN news[g] : news[g][i] \in Word
        /\ \A g \in Followers, e \in Envs : view[g][e] \in Picture
    BY DEF TreeTyped
  <1>2. ASSUME NEW g \in Followers, g # f
        PROVE  TalksTo(g)' /\ LastWordsOf(g)' /\ PicturesOf(g)'
    <2>1. TalksTo(g)'
      BY <1>2 DEF Talking, TalksTo
    <2>2. LastWordsOf(g)'
      BY <1>2, WordsStay
    <2>3. PicturesOf(g)'
      <3> SUFFICES ASSUME NEW e \in Envs, Settled(g), NoneOn(news[g], e), e \notin missed[g]
                   PROVE  Accounted(view[g][e].what, view[g][e].stood, e)'
        BY <1>2 DEF PicturesOf, Settled
      <3>1. PICK what \in Shape, stood \in BOOLEAN :
                what = view[g][e].what /\ stood = view[g][e].stood
        BY <1>1, PictureIs
      <3>2. Accounted(what, stood, e)
        BY <3>1 DEF PicturesCount, PicturesOf
      <3>3. Accounted(what, stood, e)'
        BY <3>2, FollowingKnows
      <3> QED
        BY <1>2, <3>1, <3>3
    <2> QED
      BY <2>1, <2>2, <2>3
  <1>3. Talking' /\ LastWordsCount' /\ PicturesCount'
    BY <1>2 DEF Talking, LastWordsCount, PicturesCount
  <1> QED
    BY <1>3, FollowingKnows

\* A follower asks what the host has.
LEMMA AsksKeep ==
    ASSUME HomeInv, NewsInv, NEW f \in Followers, Reach(f) \/ ReadDescribe(f)
    PROVE  NewsInv'
  <1> USE DEF NewsInv, TreesFollow
  <1>1. /\ look \in [Describers -> Learnt] /\ f \in Describers
        /\ TalksTo(f) /\ LastWordsOf(f) /\ asks[f] \in Seq({"watch", "describe"})
    BY DEF HomeInv, Typed, Describers, Talking, LastWordsCount, TreeTyped
  <1>2. Following
    <2>1. /\ UNCHANGED <<table, up, exited, born, keeper, socket, ready, watch, request, late>>
          /\ look'[f] = LookAtAll /\ \A d \in Describers : d # f => look'[d] = look[d]
      BY <1>1 DEF Reach, ReadDescribe, ReadAsk, roomVars, keeperVars, histories
    <2> QED
      BY <2>1, FollowersTell DEF Following, Fresh
  <1>3. /\ UNCHANGED <<linked, view, subscribed, news, lagged, missed>>
        /\ conn' = [conn EXCEPT ![f] = "describing"]
        /\ \A g \in Followers \ {f} : asks'[g] = asks[g]
    BY DEF Reach, ReadDescribe, ReadAsk, newsVars, TreeTyped
  <1>4. TreeTyped'
    <2>1. asks' \in [Followers -> Seq({"watch", "describe"})]
      <3>1. CASE Reach(f)
        BY <3>1 DEF Reach, TreeTyped
      <3>2. CASE ReadDescribe(f)
        <4>1. Tail(asks[f]) \in Seq({"watch", "describe"})
          BY <1>1, <3>2 DEF ReadDescribe, ReadAsk
        <4> QED
          BY <3>2, <4>1 DEF ReadDescribe, ReadAsk, TreeTyped
      <3> QED
        BY <3>1, <3>2
    <2> QED
      BY <1>3, <2>1 DEF TreeTyped
  <1>5. TalksTo(f)'
    <2>1. CASE Reach(f)
      BY <1>1, <1>3, <2>1 DEF Reach, TalksTo, TreeTyped
    <2>2. CASE ReadDescribe(f)
      <3>1. asks[f] # <<>> /\ asks[f][1] = "describe" /\ 1 \in DOMAIN asks[f]
        BY <1>1, <2>2 DEF ReadDescribe, ReadAsk
      <3>2. linked[f] /\ subscribed[f]
        <4>1. asks[f] # <<"watch">>
          BY <3>1
        <4> QED
          BY <1>1, <3>1, <4>1 DEF TalksTo
      <3>3. \A i \in DOMAIN Tail(asks[f]) :
                i + 1 \in DOMAIN asks[f] /\ Tail(asks[f])[i] = asks[f][i + 1]
        BY <1>1, <3>1
      <3>4. \A i \in DOMAIN asks'[f] : asks'[f][i] = "describe"
        BY <1>1, <2>2, <3>2, <3>3 DEF ReadDescribe, ReadAsk, TalksTo, TreeTyped
      <3> QED
        BY <1>3, <3>2, <3>4 DEF TalksTo, TreeTyped
    <2> QED
      BY <2>1, <2>2
  <1>6. PicturesOf(f)'
    BY <1>3 DEF PicturesOf, Settled, TreeTyped
  <1>7. LastWordsOf(f)'
    BY <1>2, <1>3, WordsStay
  <1>8. \A g \in Followers \ {f} : conn'[g] = conn[g]
    BY <1>3 DEF TreeTyped
  <1> QED
    BY <1>2, <1>3, <1>4, <1>5, <1>6, <1>7, <1>8, OneFollows

\* A follower is told the whole host, as somebody looked at it.
LEMMA WelcomeKeeps ==
    ASSUME HomeInv, NewsInv, NEW f \in Followers, SayWelcome(f)
    PROVE  NewsInv'
  <1> USE DEF NewsInv, TreesFollow
  <1>1. /\ look \in [Describers -> Learnt] /\ f \in Describers
        /\ TalksTo(f) /\ asks[f] \in Seq({"watch", "describe"})
    BY DEF HomeInv, Typed, Describers, Talking, TreeTyped
  <1>2. Following
    <2>1. /\ UNCHANGED <<table, up, exited, born, keeper, socket, ready, watch, request, late>>
          /\ look'[f] = NoLook /\ \A d \in Describers : d # f => look'[d] = look[d]
      BY <1>1 DEF SayWelcome, roomVars, keeperVars, histories
    <2> QED
      BY <2>1, FollowersTell DEF Following, Fresh
  <1>3. PICK got \in [Envs -> Shape] :
            /\ \A e \in Envs : got[e] = Sketch(look[f], e)
            /\ look[f].left = {} /\ (Asked(f) \/ look[f].stage = "next")
            /\ Say(f, Welcome(got, look[f].was))
    <2>1. Described(f) \in [Envs -> Shape]
      BY <1>1, DescribedShape DEF HomeInv
    <2>2. look[f].got \in [Envs -> Shape]
      BY <1>1 DEF Learnt
    <2>3. CASE Looked(f)
      <3>1. /\ \A e \in Envs : Described(f)[e] = Sketch(look[f], e)
            /\ look[f].left = {} /\ Asked(f)
        BY <1>1, <2>3, SketchIsSaid
      <3>2. Say(f, Welcome(Described(f), look[f].was))
        BY <2>3 DEF SayWelcome
      <3> QED
        BY <2>1, <3>1, <3>2
    <2>4. CASE ~Looked(f)
      <3>1. LookedAtNothing(f)
        BY <2>4 DEF SayWelcome
      <3>2. /\ \A e \in Envs : look[f].got[e] = Sketch(look[f], e)
            /\ look[f].left = {} /\ look[f].stage = "next"
        BY <1>1, <3>1, SketchIsSaid
      <3>3. Say(f, Welcome(look[f].got, look[f].was))
        BY <2>4 DEF SayWelcome
      <3> QED
        BY <2>2, <3>2, <3>3
    <2> QED
      BY <2>3, <2>4
  <1> DEFINE was == look[f].was
             all == [e \in Envs |-> [what |-> got[e], stood |-> Stood(was[e], got[e], e)]]
  <1>4. /\ view' = [view EXCEPT ![f] = all]
        /\ linked' = [linked EXCEPT ![f] = TRUE]
        /\ asks' = [asks EXCEPT ![f] = IF linked[f] THEN asks[f] ELSE Append(asks[f], "watch")]
    BY <1>3 DEF Say, Welcome
  <1>5. /\ conn[f] = "describing" /\ conn' = [conn EXCEPT ![f] = "reading"]
        /\ missed' = [missed EXCEPT ![f] = {}]
        /\ UNCHANGED <<subscribed, news, lagged>>
    BY DEF SayWelcome
  <1>6. /\ all \in [Envs -> Picture]
        /\ \A e \in Envs : all[e].what = got[e] /\ all[e].stood = Stood(was[e], got[e], e)
    BY <1>3 DEF Picture, Stood
  <1> HIDE DEF all
  <1>7. /\ asks'[f] \in Seq({"watch", "describe"})
        /\ linked[f] => asks'[f] = asks[f]
        /\ ~linked[f] => asks'[f] = <<"watch">>
    <2>1. CASE linked[f]
      BY <1>1, <1>4, <2>1 DEF TreeTyped
    <2>2. CASE ~linked[f]
      <3>1. asks[f] = <<>>
        BY <1>1, <2>2 DEF TalksTo
      <3>2. asks'[f] = Append(<<>>, "watch")
        BY <1>4, <2>2, <3>1 DEF TreeTyped
      <3> QED
        BY <2>2, <3>2
    <2> QED
      BY <2>1, <2>2
  <1>8. TreeTyped'
    BY <1>4, <1>5, <1>6, <1>7 DEF TreeTyped
  <1>9. TalksTo(f)'
    <2>1. /\ conn'[f] = "reading" /\ linked'[f] = TRUE
          /\ subscribed'[f] = subscribed[f] /\ news'[f] = news[f] /\ lagged'[f] = lagged[f]
      BY <1>4, <1>5 DEF TreeTyped
    <2>2. subscribed[f] => linked[f]
      BY <1>1 DEF TalksTo
    <2>3. linked[f] => subscribed[f]
      BY <1>1, <1>5 DEF TalksTo
    <2> QED
      BY <1>1, <1>7, <2>1, <2>2, <2>3 DEF TalksTo
  <1>10. PicturesOf(f)'
    <2> SUFFICES ASSUME NEW e \in Envs
                 PROVE  Accounted(view[f][e].what, view[f][e].stood, e)'
      BY DEF PicturesOf
    <2>1. PICK what \in Shape, stood \in BOOLEAN :
              what = got[e] /\ stood = Stood(was[e], got[e], e)
      BY <1>3 DEF Stood
    <2>2. Accounted(what, stood, e)
      <3>1. stood => Explained(what, e)
        BY <1>1, <1>3, <2>1, LookExplains
      <3> QED
        BY <3>1 DEF Accounted
    <2>3. Accounted(what, stood, e)'
      BY <1>2, <2>2, FollowingKnows
    <2>4. view'[f][e].what = what /\ view'[f][e].stood = stood
      BY <1>4, <1>6, <2>1 DEF TreeTyped
    <2> QED
      BY <2>3, <2>4
  <1>11. LastWordsOf(f)'
    BY <1>2, <1>5, WordsStay
  <1>12. \A g \in Followers \ {f} :
            /\ conn'[g] = conn[g] /\ asks'[g] = asks[g] /\ linked'[g] = linked[g]
            /\ view'[g] = view[g] /\ missed'[g] = missed[g]
    BY <1>4, <1>5 DEF TreeTyped
  <1> QED
    BY <1>2, <1>5, <1>8, <1>9, <1>10, <1>11, <1>12, OneFollows

\* A follower is forwarded the news from here on; what it was told of is as it was.
LEMMA WatchKeeps ==
    ASSUME HomeInv, NewsInv, NEW f \in Followers, ReadWatch(f)
    PROVE  NewsInv'
  <1> USE DEF NewsInv, TreesFollow
  <1>1. TalksTo(f) /\ PicturesOf(f) /\ asks[f] \in Seq({"watch", "describe"})
    BY DEF Talking, PicturesCount, TreeTyped
  <1>2. Following
    BY DEF ReadWatch, Following, Keeps, Tells, roomVars, keeperVars, taskVars, histories
  <1>3. /\ UNCHANGED <<conn, linked, view, missed>> /\ conn[f] = "reading"
        /\ subscribed' = [subscribed EXCEPT ![f] = TRUE]
        /\ news' = [news EXCEPT ![f] = <<>>]
        /\ lagged' = [lagged EXCEPT ![f] = FALSE]
        /\ asks[f] # <<>> /\ asks[f][1] = "watch" /\ 1 \in DOMAIN asks[f]
        /\ asks' = [asks EXCEPT ![f] = Tail(asks[f])]
    BY <1>1 DEF ReadWatch, ReadAsk
  <1>4. linked[f] /\ ~subscribed[f] /\ asks[f] = <<"watch">> /\ news[f] = <<>> /\ ~lagged[f]
    BY <1>1, <1>3 DEF TalksTo, TreeTyped
  <1>5. asks'[f] = <<>> /\ news'[f] = <<>> /\ subscribed'[f] /\ ~lagged'[f]
    BY <1>3, <1>4 DEF TreeTyped
  <1>6. TreeTyped'
    <2>1. /\ asks' \in [Followers -> Seq({"watch", "describe"})]
          /\ news' \in [Followers -> Seq(Word)]
      <3>1. <<>> \in Seq({"watch", "describe"}) /\ <<>> \in Seq(Word)
        OBVIOUS
      <3> QED
        BY <1>3, <1>5, <3>1 DEF TreeTyped
    <2> QED
      BY <1>3, <2>1 DEF TreeTyped
  <1>7. TalksTo(f)'
    BY <1>1, <1>3, <1>4, <1>5 DEF TalksTo
  <1>8. LastWordsOf(f)'
    BY <1>5 DEF LastWordsOf
  <1>9. PicturesOf(f)'
    <2> SUFFICES ASSUME NEW e \in Envs, e \notin missed[f]
                 PROVE  Accounted(view[f][e].what, view[f][e].stood, e)'
      BY <1>3 DEF PicturesOf
    <2>1. Settled(f) /\ NoneOn(news[f], e)
      BY <1>3, <1>4 DEF Settled, NoneOn
    <2>2. PICK what \in Shape, stood \in BOOLEAN :
              what = view[f][e].what /\ stood = view[f][e].stood
      <3>1. view[f][e] \in Picture
        BY DEF TreeTyped
      <3> QED
        BY <3>1, PictureIs
    <2>3. Accounted(what, stood, e)'
      BY <1>1, <1>2, <2>1, <2>2, FollowingKnows DEF PicturesOf
    <2> QED
      BY <1>3, <2>2, <2>3
  <1>10. \A g \in Followers \ {f} :
            /\ asks'[g] = asks[g] /\ subscribed'[g] = subscribed[g]
            /\ news'[g] = news[g] /\ lagged'[g] = lagged[g]
    BY <1>3 DEF TreeTyped
  <1> QED
    BY <1>2, <1>3, <1>6, <1>7, <1>8, <1>9, <1>10, OneFollows

\* A receiver that lost a word has the follower ask for everything again.
LEMMA StaleKeeps ==
    ASSUME HomeInv, NewsInv, NEW f \in Followers, Forward(f), lagged[f]
    PROVE  NewsInv'
  <1> USE DEF NewsInv, TreesFollow
  <1>1. TalksTo(f) /\ asks[f] \in Seq({"watch", "describe"})
    BY DEF Talking, TreeTyped
  <1>2. Following
    BY DEF Forward, Following, Keeps, Tells, roomVars, keeperVars, taskVars, histories
  <1>3. /\ UNCHANGED <<conn, linked, view, missed, subscribed, news>> /\ subscribed[f]
        /\ lagged' = [lagged EXCEPT ![f] = FALSE]
        /\ asks' = [asks EXCEPT ![f] = Append(asks[f], "describe")]
    BY DEF Forward, Say, Stale
  <1>4. /\ asks'[f] \in Seq({"watch", "describe"})
        /\ \E i \in DOMAIN asks'[f] : asks'[f][i] = "describe"
        /\ \A i \in DOMAIN asks'[f] : asks'[f][i] = "describe"
    <2>1. /\ Append(asks[f], "describe") \in Seq({"watch", "describe"})
          /\ Len(asks[f]) + 1 \in DOMAIN Append(asks[f], "describe")
          /\ \A i \in DOMAIN Append(asks[f], "describe") :
                 \/ Append(asks[f], "describe")[i] = "describe"
                 \/ i \in DOMAIN asks[f] /\ Append(asks[f], "describe")[i] = asks[f][i]
          /\ Append(asks[f], "describe")[Len(asks[f]) + 1] = "describe"
      BY <1>1
    <2>2. asks'[f] = Append(asks[f], "describe")
      BY <1>3 DEF TreeTyped
    <2>3. \A i \in DOMAIN asks[f] : asks[f][i] = "describe"
      BY <1>1, <1>3 DEF TalksTo
    <2> QED
      BY <2>1, <2>2, <2>3
  <1>5. TreeTyped'
    BY <1>3, <1>4 DEF TreeTyped
  <1>6. TalksTo(f)'
    BY <1>1, <1>3, <1>4 DEF TalksTo
  <1>7. LastWordsOf(f)'
    BY <1>2, <1>3, WordsStay
  <1>8. PicturesOf(f)'
    BY <1>4 DEF PicturesOf, Settled
  <1>9. \A g \in Followers \ {f} : asks'[g] = asks[g] /\ lagged'[g] = lagged[g]
    BY <1>3 DEF TreeTyped
  <1> QED
    BY <1>2, <1>3, <1>5, <1>6, <1>7, <1>8, <1>9, OneFollows

\* A follower is told the oldest word that is held for it.
LEMMA ForwardKeeps ==
    ASSUME HomeInv, NewsInv, NEW f \in Followers, Forward(f), ~lagged[f]
    PROVE  NewsInv'
  <1> USE DEF NewsInv, TreesFollow
  <1>1. /\ TalksTo(f) /\ LastWordsOf(f) /\ PicturesOf(f)
        /\ news[f] \in Seq(Word) /\ news[f] # <<>>
        /\ \A e \in Envs : view[f][e] \in Picture
    BY DEF Talking, LastWordsCount, PicturesCount, TreeTyped, Forward
  <1>2. Following
    BY DEF Forward, Following, Keeps, Tells, roomVars, keeperVars, taskVars, histories
  <1>3. PICK m \in Word : m = news[f][1] /\ Head(news[f]) = m
    BY <1>1, OneWordLess
  <1>4. PICK rest \in Seq(Word) : rest = Tail(news[f])
    BY <1>1, OneWordLess
  <1>5. /\ 1 \in DOMAIN news[f]
        /\ \A i \in DOMAIN rest :
               /\ i + 1 \in DOMAIN news[f] /\ rest[i] = news[f][i + 1]
               /\ LastOn(rest, i) => LastOn(news[f], i + 1)
        /\ \A e : NoneOn(rest, e) /\ m.env # e => NoneOn(news[f], e)
        /\ NoneOn(rest, m.env) => LastOn(news[f], 1)
    BY <1>1, <1>3, <1>4, OneWordLess
  <1>6. /\ UNCHANGED <<conn, asks, linked, subscribed, lagged>> /\ subscribed[f]
        /\ news' = [news EXCEPT ![f] = rest]
        /\ missed' = [missed EXCEPT ![f] = missed[f] \ {m.env}]
        /\ view' = [view EXCEPT ![f][m.env] = [what |-> m.what, stood |-> m.stood]]
    <2>1. m.kind \in {"environment", "gone"}
      BY WordIs
    <2> QED
      BY <1>3, <1>4, <2>1 DEF Forward, Say
  <1>7. /\ m.env \in Envs /\ [what |-> m.what, stood |-> m.stood] \in Picture
        /\ \A s \in m.what.sessions : s \in Sessions
    BY WordIs DEF Picture
  <1>8. /\ news'[f] = rest /\ missed'[f] = missed[f] \ {m.env}
        /\ view'[f][m.env] = [what |-> m.what, stood |-> m.stood]
        /\ \A e \in Envs : e # m.env => view'[f][e] = view[f][e]
    BY <1>6, <1>7 DEF TreeTyped
  <1>9. TreeTyped'
    BY <1>6, <1>7 DEF TreeTyped
  <1>10. TalksTo(f)'
    <2>1. conn[f] # "away"
      BY <1>1, <1>6 DEF TalksTo
    <2> QED
      BY <1>1, <1>6, <2>1 DEF TalksTo
  <1>11. LastWordsOf(f)'
    <2> SUFFICES ASSUME NEW i \in DOMAIN rest, LastOn(rest, i)
                 PROVE  Accounted(news[f][i].what, news[f][i].stood, news[f][i].env)'
      BY <1>8 DEF LastWordsOf
    <2>1. PICK what \in Shape, stood \in BOOLEAN, e \in Envs :
              what = rest[i].what /\ stood = rest[i].stood /\ e = rest[i].env
      BY WordIs
    <2>2. Accounted(what, stood, e)
      BY <1>1, <1>5, <2>1 DEF LastWordsOf
    <2>3. Accounted(what, stood, e)'
      BY <1>2, <2>2, FollowingKnows
    <2> QED
      BY <1>8, <2>1, <2>3
  <1>12. PicturesOf(f)'
    <2> SUFFICES ASSUME NEW e \in Envs, Settled(f), NoneOn(rest, e), e \notin missed'[f]
                 PROVE  Accounted(view[f][e].what, view[f][e].stood, e)'
      BY <1>6, <1>8 DEF PicturesOf, Settled
    <2>1. CASE e = m.env
      <3>1. PICK what \in Shape, stood \in BOOLEAN : what = m.what /\ stood = m.stood
        BY WordIs
      <3>2. Accounted(what, stood, e)
        BY <1>1, <1>3, <1>5, <2>1, <3>1 DEF LastWordsOf
      <3>3. Accounted(what, stood, e)'
        BY <1>2, <3>2, FollowingKnows
      <3> QED
        BY <1>8, <2>1, <3>1, <3>3
    <2>2. CASE e # m.env
      <3>1. PICK what \in Shape, stood \in BOOLEAN :
                what = view[f][e].what /\ stood = view[f][e].stood
        BY <1>1, PictureIs
      <3>2. NoneOn(news[f], e) /\ e \notin missed[f]
        BY <1>5, <1>8, <2>2
      <3>3. Accounted(what, stood, e)
        BY <1>1, <3>1, <3>2 DEF PicturesOf
      <3>4. Accounted(what, stood, e)'
        BY <1>2, <3>3, FollowingKnows
      <3> QED
        BY <1>8, <2>2, <3>1, <3>4
    <2> QED
      BY <2>1, <2>2
  <1>13. \A g \in Followers \ {f} :
            news'[g] = news[g] /\ missed'[g] = missed[g] /\ view'[g] = view[g]
    BY <1>6 DEF TreeTyped
  <1> QED
    BY <1>2, <1>6, <1>9, <1>10, <1>11, <1>12, <1>13, OneFollows

\* A follower whose connection is gone is told nothing, and shows nothing.
LEMMA AwayFollows ==
    ASSUME NEW f \in Followers,
           conn'[f] = "away", asks'[f] = <<>>, ~linked'[f], view'[f] = Unseen,
           ~subscribed'[f], news'[f] = <<>>, ~lagged'[f]
    PROVE  TalksTo(f)' /\ LastWordsOf(f)' /\ PicturesOf(f)'
  <1>1. \A e \in Envs : Unseen[e].what.sessions = {}
    BY DEF Unseen, Absent
  <1>2. TalksTo(f)'
    BY DEF TalksTo
  <1> QED
    BY <1>2 DEF LastWordsOf, PicturesOf, Settled

\* A picture of nothing is one.
LEMMA UnseenIsAPicture == Unseen \in [Envs -> Picture]
  BY DEF Unseen, Picture, Shape, Absent

\* A connection breaks, and its receiver and its look are dropped.
LEMMA DropKeeps ==
    ASSUME HomeInv, NewsInv, NEW f \in Followers, Drop(f)
    PROVE  NewsInv'
  <1> USE DEF NewsInv, TreesFollow
  <1>1. Following
    <2>1. /\ UNCHANGED <<table, up, exited, born, keeper, socket, ready, watch, request, late>>
          /\ look'[f] = NoLook /\ \A d \in Describers : d # f => look'[d] = look[d]
      BY DEF Drop, roomVars, keeperVars, histories, HomeInv, Typed, Describers
    <2> QED
      BY <2>1, FollowersTell DEF Following, Fresh
  <1>2. \A g \in Followers :
            /\ conn'[g] = IF g = f THEN "away" ELSE conn[g]
            /\ asks'[g] = IF g = f THEN <<>> ELSE asks[g]
            /\ linked'[g] = (linked[g] /\ g # f)
            /\ view'[g] = IF g = f THEN Unseen ELSE view[g]
            /\ subscribed'[g] = IF g = f THEN FALSE ELSE subscribed[g]
            /\ news'[g] = IF g = f THEN <<>> ELSE news[g]
            /\ lagged'[g] = IF g = f THEN FALSE ELSE lagged[g]
            /\ missed'[g] = IF g = f THEN {} ELSE missed[g]
    BY DEF Drop, Broken, TreeTyped
  <1>3. TreeTyped'
    <2>1. <<>> \in Seq({"watch", "describe"}) /\ <<>> \in Seq(Word)
      OBVIOUS
    <2> QED
      BY <2>1, UnseenIsAPicture DEF Drop, Broken, TreeTyped
  <1>4. TalksTo(f)' /\ LastWordsOf(f)' /\ PicturesOf(f)'
    BY <1>2, AwayFollows
  <1>5. \A g \in Followers \ {f} : linked'[g] = linked[g]
    BY <1>2 DEF TreeTyped
  <1> QED
    BY <1>1, <1>2, <1>3, <1>4, <1>5, OneFollows

\* After a restart the sockets that are found are watched, and nobody follows.
LEMMA RestartKeeps ==
    ASSUME HomeInv, NewsInv, Restart
    PROVE  NewsInv'
  <1> USE DEF NewsInv, HostKnows, TreesFollow
  <1>1. /\ UNCHANGED <<table, up, exited, born, keeper, socket, ready, late>>
        /\ request' = [r \in Requesters |-> Idle]
        /\ look' = [d \in Describers |-> NoLook]
        /\ watch' = [s \in Sessions |->
               IF socket[s] /\ EnvOf[s] \in table THEN "connecting" ELSE "none"]
    BY DEF Restart, RestartHost, roomVars, keeperVars, histories
  <1>2. HostTyped' /\ Births'
    BY <1>1 DEF HostTyped, Births, Idle, Handling
  <1>3. Waiting' /\ \A s \in Sessions : ~WaitedFor(s)'
    <2>1. \A s \in Sessions : ~WaitedFor(s)'
      BY <1>1 DEF WaitedFor, WaitsFor, Idle, Handling
    <2>2. \A s \in Sessions : keeper[s] = "none" => ~socket[s]
      BY DEF HomeInv, Sockets
    <2>3. \A s \in Sessions : keeper'[s] = "none" => watch'[s] = "none"
      BY <1>1, <2>2
    <2>4. \A r \in Requesters, s \in Sessions : ~WaitsFor(r, s)'
      BY <1>1 DEF WaitsFor, Idle, Handling
    <2> QED
      BY <2>1, <2>3, <2>4 DEF Waiting
  <1>4. Watching'
    BY <1>1 DEF Watching, Births, Known
  <1>5. LooksTrue'
    <2>1. ASSUME NEW d \in Describers, NEW x \in Envs PROVE ~Tells(d, x)'
      BY <1>1 DEF Tells, Idle, Handling, Telling
    <2>2. /\ \A x \in Envs : NoLook.was[x] = Unmarked /\ NoLook.got[x] = Absent /\ ~At(NoLook, x)
          /\ \A d \in Describers : look'[d] = NoLook
      BY <1>1 DEF NoLook, At
    <2>3. PICK l : l = NoLook
      OBVIOUS
    <2>4. \A x \in Envs : TrueOf(l, x)' /\ ~l.was[x].is.here
      BY <2>2, <2>3 DEF TrueOf, Sketch, Open, At, Unmarked, Absent
    <2>5. ASSUME NEW d \in Describers, NEW x \in Envs
          PROVE  TrueOf(l, x)' /\ Covers(d, l, x)' /\ look'[d] = l
      BY <2>1, <2>2, <2>3, <2>4 DEF Covers
    <2> QED
      BY <2>5 DEF LooksTrue, Clear
  <1>6. \A f \in Followers :
            /\ conn'[f] = "away" /\ asks'[f] = <<>> /\ ~linked'[f] /\ view'[f] = Unseen
            /\ ~subscribed'[f] /\ news'[f] = <<>> /\ ~lagged'[f] /\ missed'[f] = {}
    <2>1. \A f \in Followers :
              conn[f] = "away" => asks[f] = <<>> /\ ~linked[f] /\ view[f] = Unseen
      BY DEF Talking, TalksTo
    <2> QED
      BY <2>1 DEF Restart, RestartHost, Broken
  <1>7. TreeTyped'
    <2>1. <<>> \in Seq({"watch", "describe"}) /\ <<>> \in Seq(Word)
      OBVIOUS
    <2> QED
      BY <2>1, UnseenIsAPicture DEF Restart, RestartHost, Broken, TreeTyped
  <1>8. Talking' /\ LastWordsCount' /\ PicturesCount'
    BY <1>6, AwayFollows DEF Talking, LastWordsCount, PicturesCount
  <1> QED
    BY <1>2, <1>3, <1>4, <1>5, <1>7, <1>8

-----------------------------------------------------------------------------
\* Every step keeps the invariant.
LEMMA NewsStep == HomeInv /\ NewsInv /\ [Next]_vars => NewsInv'
  <1> SUFFICES ASSUME HomeInv, NewsInv, [Next]_vars PROVE NewsInv'
    OBVIOUS
  <1>1. CASE Host /\ UNCHANGED followerVars
    BY <1>1, ExitTells, LookTells, KeeperTells, WatcherTells, RequestTells DEF Host
  <1>2. ASSUME NEW f \in Followers, Follow(f) \/ Drop(f) PROVE NewsInv'
    BY <1>2, AsksKeep, WelcomeKeeps, WatchKeeps, StaleKeeps, ForwardKeeps, DropKeeps DEF Follow
  <1>3. CASE Restart
    BY <1>3, RestartKeeps
  <1>4. CASE UNCHANGED vars
    <2>1. Following /\ UNCHANGED <<followerVars, newsVars>>
      BY <1>4 DEF vars, hostVars, roomVars, keeperVars, taskVars, histories, Following, Keeps, Tells
    <2>2. HostKnows' /\ Upholds({})
      BY <2>1, FollowingKnows DEF Upholds
    <2> QED
      BY <2>1, <2>2, SilenceKeeps
  <1> QED
    BY <1>1, <1>2, <1>3, <1>4 DEF Next, Rest

\* When nothing is on its way, what is shown is so, but for what a reason can be
\* given for; or it did not stand when it was said, or was missed.
LEMMA RestIsAccounted == NewsInv => WrongOnlyKnownWays
  <1> SUFFICES ASSUME NewsInv, AtRest, NEW f \in Followers, NEW e \in Envs
               PROVE  /\ linked[f]
                      /\ LET shown == view[f][e].what
                             is    == Truth(e)
                         IN  \/ ~view[f][e].stood
                             \/ e \in missed[f]
                             \/ /\ shown.here = is.here
                                /\ shown.up = is.up \/ (shown.up /\ e \in exited)
                                /\ \A s \in shown.sessions \ is.sessions :
                                       watch[s] = "refused" \/ Unannounced(s)
                                /\ \A s \in is.sessions \ shown.sessions :
                                       ~socket[s] \/ Unannounced(s)
    BY DEF WrongOnlyKnownWays
  <1> USE DEF NewsInv, TreesFollow
  <1>1. conn[f] = "reading" /\ news[f] = <<>> /\ ~lagged[f] /\ asks[f] = <<>>
    BY DEF AtRest, FollowerAtRest
  <1>2. linked[f]
    BY <1>1 DEF Talking, TalksTo
  <1>3. Settled(f) /\ NoneOn(news[f], e)
    BY <1>1 DEF Settled, NoneOn
  <1>4. Accounted(view[f][e].what, view[f][e].stood, e) \/ e \in missed[f]
    BY <1>3 DEF PicturesCount, PicturesOf
  <1>5. ~Promised(e) /\ \A s \in Sessions : ~WaitedFor(s)
    BY DEF AtRest, HostAtRest, Promised, Promises, WaitedFor, WaitsFor, Idle, Handling, Telling
  <1>6. PICK shown \in Shape : shown = view[f][e].what
    <2>1. view[f][e] \in Picture
      BY DEF TreeTyped
    <2> QED
      BY <2>1, PictureIs
  <1>7. ASSUME Explained(shown, e)
        PROVE  /\ shown.here = Truth(e).here
               /\ shown.up = Truth(e).up \/ (shown.up /\ e \in exited)
               /\ \A s \in shown.sessions \ Truth(e).sessions :
                      watch[s] = "refused" \/ Unannounced(s)
               /\ \A s \in Truth(e).sessions \ shown.sessions : ~socket[s] \/ Unannounced(s)
    <2>1. CASE e \notin table
      BY <1>7, <2>1 DEF Explained, Truth, Absent
    <2>2. CASE e \in table
      <3>1. /\ Truth(e).here /\ Truth(e).up = (e \in up)
            /\ Truth(e).sessions = {s \in Sessions : EnvOf[s] = e /\ keeper[s] \in Alive}
        BY <2>2 DEF Truth
      <3>2. ASSUME NEW s \in shown.sessions, s \notin Truth(e).sessions
            PROVE  watch[s] = "refused" \/ Unannounced(s)
        <4>1. s \in Sessions /\ EnvOf[s] = e /\ ready[s] /\ Told(s)
          BY <1>7, <2>2 DEF Explained, Shape
        <4>2. keeper[s] \notin Alive /\ keeper[s] # "up"
          BY <3>1, <3>2, <4>1 DEF Alive
        <4> QED
          BY <1>5, <4>1, <4>2 DEF Told, AtRest, HostAtRest
      <3>3. ASSUME NEW s \in Truth(e).sessions, s \notin shown.sessions
            PROVE  ~socket[s] \/ Unannounced(s)
        BY <1>5, <1>7, <2>2, <3>1, <3>3 DEF Explained, Hidden
      <3>4. shown.here \in BOOLEAN /\ shown.here /\ Truth(e).here \in BOOLEAN
        BY <1>7, <2>2 DEF Explained, Shape, Truth
      <3> QED
        BY <1>7, <2>2, <3>1, <3>2, <3>3, <3>4 DEF Explained
    <2> QED
      BY <2>1, <2>2
  <1> QED
    BY <1>2, <1>4, <1>5, <1>6, <1>7 DEF Accounted

\* WrongOnlyKnownWays holds of every host and every tree: at rest, what a person
\* sees of an environment is what the host has, but for the ways to be quietly
\* wrong that it names, of environment.rs and main.rs.
THEOREM TreesAreAccountedFor == Spec => []WrongOnlyKnownWays
  <1>1. Init => HomeInv /\ NewsInv
    BY HomeInit, NewsInit
  <1>2. HomeInv /\ NewsInv /\ [Next]_vars => (HomeInv /\ NewsInv)'
    BY HomeStep, NewsStep
  <1> QED
    BY <1>1, <1>2, RestIsAccounted, PTL DEF Spec
=============================================================================
