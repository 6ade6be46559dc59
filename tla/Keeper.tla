------------------------------- MODULE Keeper -------------------------------
(***************************************************************************)
(* A keeper: the process that owns one session and answers whoever         *)
(* connects to its socket (devpipe/src/keeper.rs, run and serve_one).      *)
(* A connection asks for one thing: to attach, to watch, to be told about  *)
(* the session, or to kill it.                                             *)
(*                                                                         *)
(* Output reaches an attached connection through a broadcast channel of    *)
(* Backlog slots.  cursor[c] is the last chunk its receiver has taken; a   *)
(* receiver more than Backlog behind is told it lagged and moved to the    *)
(* oldest chunk still held.  A frame written is a frame the client shows:  *)
(* the client of a full socket is one whose next write has not happened.   *)
(***************************************************************************)
EXTENDS Session, FiniteSets

CONSTANTS Asks,     \* what connections ask for
          Backlog,  \* OUTPUT_BACKLOG, the slots of the broadcast
          Marked,   \* chunks that hold a request to open a url
          Titled    \* chunks that set the title

ASSUME BacklogHasRoom == Backlog \in Nat \ {0}
ASSUME FiniteTasks == IsFiniteSet(Tasks)
ASSUME AskedFor == Asks \subseteq {"attach", "watch", "describe", "kill"}
ASSUME ChunkKinds == Marked \subseteq Nat /\ Titled \subseteq Nat \ {0}

VARIABLES keeper,    \* where run() is
          sawAlive,  \* what run()'s own watch had seen when it subscribed
          deadline,  \* run() has set when to give up
          live,      \* connections being served
          pc,        \* where each connection's serve_one is
          ask,       \* what each connection asked for
          here,      \* the client's end of the connection is open
          inbound,   \* the task reading what the client sends
          cursor,    \* the last chunk the receiver has taken or skipped
          snap,      \* how many chunks the replay in hand shows
          painted,   \* what the client's screen was painted with since its last clear
          opened,    \* the requests reported to the client
          title,     \* the title a watcher was last told
          heard      \* the closing words a client was told

runVars == <<keeper, sawAlive, deadline, live>>
streamVars == <<cursor, snap, painted, opened>>
connVars == <<pc, ask, here, inbound, streamVars, title, heard>>
vars == <<sessionVars, runVars, connVars>>

Attached == {"subscribed", "greeting", "loop", "select", "chunk", "opening", "behind",
             "resyncing", "drain", "draining", "over", "exiting", "closing",
             "stopping"}
Served == Attached \cup {"asking", "watching", "left"}
Stations == Served \cup {"off", "calling", "gone", "refused"}

Words == {"exit", "close", "ended", "running", "over"}

TitleAt(n) ==
    LET set == {k \in Titled : k <= n}
    IN  IF set = {} THEN 0 ELSE CHOOSE k \in set : \A j \in set : j <= k

KInit ==
    /\ Init
    /\ keeper = "starting" /\ sawAlive = TRUE /\ deadline = FALSE /\ live = 0
    /\ pc = [c \in Tasks |-> "off"]
    /\ ask \in [Tasks -> Asks]
    /\ here = [c \in Tasks |-> FALSE]
    /\ inbound = [c \in Tasks |-> "off"]
    /\ cursor = [c \in Tasks |-> 0] /\ snap = [c \in Tasks |-> 0]
    /\ painted = [c \in Tasks |-> <<>>]
    /\ opened = [c \in Tasks |-> <<>>]
    /\ title = [c \in Tasks |-> 0]
    /\ heard = [c \in Tasks |-> {}]

Goto(c, station) == pc' = [pc EXCEPT ![c] = station]
Hear(c, word) == heard' = [heard EXCEPT ![c] = @ \cup {word}]

-----------------------------------------------------------------------------
(* The client's end.  Connecting needs only the listener's backlog. *)

Connect(c) ==
    /\ pc[c] = "off"
    /\ Goto(c, IF keeper = "gone" THEN "refused" ELSE "calling")
    /\ here' = [here EXCEPT ![c] = (keeper # "gone")]
    /\ UNCHANGED <<sessionVars, runVars, ask, inbound, streamVars, title, heard>>

\* Letting go: a detach and a lost connection look the same from here.
Leave(c) ==
    /\ here[c]
    /\ here' = [here EXCEPT ![c] = FALSE]
    /\ UNCHANGED <<sessionVars, runVars, pc, ask, inbound, streamVars, title, heard>>

-----------------------------------------------------------------------------
(* run(): accept, notice the child has gone, give up. *)

\* run() subscribes to the child's end, which shows it no end that came before,
Listen ==
    /\ keeper = "starting"
    /\ keeper' = "listening"
    /\ sawAlive' = alive
    /\ UNCHANGED <<sessionVars, deadline, live, connVars>>

\* Fault: a child that was over before run() listened is never noticed.
BeginWithoutLooking ==
    /\ keeper = "listening"
    /\ keeper' = "serving"
    /\ UNCHANGED <<sessionVars, sawAlive, deadline, live, connVars>>

\* ... so it looks once itself.
Begin ==
    /\ keeper = "listening"
    /\ keeper' = "serving"
    /\ deadline' = ~alive
    /\ UNCHANGED <<sessionVars, sawAlive, live, connVars>>

\* Fault: a connection is not counted while it is served.
AdmitUncounted(c) ==
    /\ keeper = "serving"
    /\ pc[c] = "calling"
    /\ Goto(c, "asking")
    /\ UNCHANGED <<sessionVars, runVars, ask, here, inbound, streamVars, title, heard>>

\* Counted before its task is spawned.
Admit(c) ==
    /\ keeper = "serving"
    /\ pc[c] = "calling"
    /\ Goto(c, "asking")
    /\ live' = live + 1
    /\ UNCHANGED <<sessionVars, keeper, sawAlive, deadline, ask, here, inbound, streamVars, title, heard>>

NoticeGone ==
    /\ keeper = "serving"
    /\ ~deadline
    /\ sawAlive /\ ~alive
    /\ deadline' = TRUE
    /\ UNCHANGED <<sessionVars, keeper, sawAlive, live, connVars>>

\* Fault: the deadline is final, whoever is reading.
ExpireAnyway ==
    /\ keeper = "serving"
    /\ deadline
    /\ keeper' = "gone"
    /\ pc' = [c \in Tasks |-> IF pc[c] = "calling" THEN "refused" ELSE pc[c]]
    /\ UNCHANGED <<sessionVars, sawAlive, deadline, live, ask, here, inbound, streamVars, title, heard>>

\* Not while somebody is still reading: then the deadline moves on.  Dropping
\* the listener drops whoever is still waiting to be accepted.
Expire ==
    /\ keeper = "serving"
    /\ deadline
    /\ live = 0
    /\ keeper' = "gone"
    /\ pc' = [c \in Tasks |-> IF pc[c] = "calling" THEN "refused" ELSE pc[c]]
    /\ UNCHANGED <<sessionVars, sawAlive, deadline, live, ask, here, inbound, streamVars, title, heard>>

\* serve_one has returned; its task counts itself out.
Finish(c) ==
    /\ pc[c] = "left"
    /\ Goto(c, "gone")
    /\ live' = live - 1
    /\ UNCHANGED <<sessionVars, keeper, sawAlive, deadline, ask, here, inbound, streamVars, title, heard>>

-----------------------------------------------------------------------------
(* serve_one: the requests answered once. *)

Asked(c, what) == pc[c] = "asking" /\ ask[c] = what

Describe(c) ==
    /\ Asked(c, "describe")
    /\ Hear(c, IF alive THEN "running" ELSE "over")
    /\ Goto(c, "left")
    /\ UNCHANGED <<sessionVars, runVars, ask, here, inbound, streamVars, title>>

ServeKill(c) ==
    /\ Asked(c, "kill")
    /\ Kill
    /\ Goto(c, "left")
    /\ UNCHANGED <<runVars, ask, here, inbound, streamVars, title, heard>>

\* The client went before its first frame was read.
NeverAsked(c) ==
    /\ pc[c] = "asking"
    /\ ~here[c]
    /\ Goto(c, "left")
    /\ UNCHANGED <<sessionVars, runVars, ask, here, inbound, streamVars, title, heard>>

\* Fault: a watch that begins after the end returns without a word.
WatchMissesEnd(c) ==
    /\ Asked(c, "watch")
    /\ Goto(c, IF alive THEN "watching" ELSE "left")
    /\ title' = [title EXCEPT ![c] = TitleAt(fed)]
    /\ UNCHANGED <<sessionVars, runVars, ask, here, inbound, streamVars, heard>>

Watch(c) ==
    /\ Asked(c, "watch")
    /\ Goto(c, "watching")
    /\ title' = [title EXCEPT ![c] = TitleAt(fed)]
    /\ UNCHANGED <<sessionVars, runVars, ask, here, inbound, streamVars, heard>>

\* Twice a second: a title is told only when it has changed, and a write that
\* fails ends the watch.
TellTitle(c) ==
    /\ pc[c] = "watching"
    /\ TitleAt(fed) # title[c]
    /\ IF here[c]
         THEN title' = [title EXCEPT ![c] = TitleAt(fed)] /\ UNCHANGED pc
         ELSE Goto(c, "left") /\ UNCHANGED title
    /\ UNCHANGED <<sessionVars, runVars, ask, here, inbound, streamVars, heard>>

\* Fault: a session that is to be killed is taken for one that is over.
TellEndedOnKill(c) ==
    /\ pc[c] = "watching"
    /\ shutdown \/ ~alive
    /\ heard' = [heard EXCEPT ![c] = IF here[c] THEN @ \cup {"ended"} ELSE @]
    /\ Goto(c, "left")
    /\ UNCHANGED <<sessionVars, runVars, ask, here, inbound, streamVars, title>>

TellEnded(c) ==
    /\ pc[c] = "watching"
    /\ ~alive
    /\ heard' = [heard EXCEPT ![c] = IF here[c] THEN @ \cup {"ended"} ELSE @]
    /\ Goto(c, "left")
    /\ UNCHANGED <<sessionVars, runVars, ask, here, inbound, streamVars, title>>

-----------------------------------------------------------------------------
(* serve_one: attach. *)

\* Subscribe before taking the mirror.
Subscribe(c) ==
    /\ Asked(c, "attach")
    /\ cursor' = [cursor EXCEPT ![c] = sent]
    /\ Goto(c, "subscribed")
    /\ UNCHANGED <<sessionVars, runVars, ask, here, inbound, snap, painted, opened, title, heard>>

\* The size a client attaches with is optional, and set before the replay.
AttachSize(c, s) ==
    /\ pc[c] = "subscribed"
    /\ ResizePty(c, s)
    /\ UNCHANGED <<runVars, connVars>>

\* replay(): the mirror as it is now.
TakeReplay(c) ==
    /\ pc[c] \in {"subscribed", "behind"}
    /\ resizing[c] = Settled
    /\ snap' = [snap EXCEPT ![c] = fed]
    /\ Goto(c, IF pc[c] = "subscribed" THEN "greeting" ELSE "resyncing")
    /\ UNCHANGED <<sessionVars, runVars, ask, here, inbound, cursor, painted, opened, title, heard>>

\* The replay clears the screen and paints it; the first one starts inbound.
PaintReplay(c) ==
    /\ pc[c] \in {"greeting", "resyncing"}
    /\ here[c]
    /\ painted' = [painted EXCEPT ![c] = << <<"replay", snap[c]>> >>]
    /\ inbound' = [inbound EXCEPT ![c] = IF pc[c] = "greeting" THEN "running" ELSE @]
    /\ Goto(c, "loop")
    /\ UNCHANGED <<sessionVars, runVars, ask, here, cursor, snap, opened, title, heard>>

\* Fault: the end of the session ends the serving, as a write that fails does.
LoopReturns(c) ==
    /\ pc[c] = "loop"
    /\ Goto(c, IF alive THEN "select" ELSE "stopping")
    /\ UNCHANGED <<sessionVars, runVars, ask, here, inbound, streamVars, title, heard>>

\* while *alive.borrow_and_update()
Loop(c) ==
    /\ pc[c] = "loop"
    /\ Goto(c, IF alive THEN "select" ELSE "drain")
    /\ UNCHANGED <<sessionVars, runVars, ask, here, inbound, streamVars, title, heard>>

Ready(c) == cursor[c] < sent
Lagged(c) == sent - cursor[c] > Backlog

\* What a receive does to the receiver.
Receive(c) ==
    cursor' = [cursor EXCEPT ![c] = IF Lagged(c) THEN sent - Backlog ELSE @ + 1]

\* Fault: a receiver that lagged goes on with what the channel still holds.
SelectForwardsGap(c) ==
    /\ pc[c] = "select"
    /\ Ready(c)
    /\ cursor' = [cursor EXCEPT ![c] = IF Lagged(c) THEN sent - Backlog + 1 ELSE @ + 1]
    /\ Goto(c, "chunk")
    /\ UNCHANGED <<sessionVars, runVars, ask, here, inbound, snap, painted, opened, title, heard>>

\* Fault: a receiver that lagged starts over at the end, and repaints nothing.
SelectSkipsLag(c) ==
    /\ pc[c] = "select"
    /\ Ready(c)
    /\ cursor' = [cursor EXCEPT ![c] = IF Lagged(c) THEN sent ELSE @ + 1]
    /\ Goto(c, IF Lagged(c) THEN "loop" ELSE "chunk")
    /\ UNCHANGED <<sessionVars, runVars, ask, here, inbound, snap, painted, opened, title, heard>>

\* Biased: output is taken before the end of the session is looked at.
SelectOutput(c) ==
    /\ pc[c] = "select"
    /\ Ready(c)
    /\ Receive(c)
    /\ Goto(c, IF Lagged(c) THEN "behind" ELSE "chunk")
    /\ UNCHANGED <<sessionVars, runVars, ask, here, inbound, snap, painted, opened, title, heard>>

SelectGone(c) ==
    /\ pc[c] = "select"
    /\ ~Ready(c) /\ ~alive
    /\ Goto(c, "loop")
    /\ UNCHANGED <<sessionVars, runVars, ask, here, inbound, streamVars, title, heard>>

PaintData(c) == painted' = [painted EXCEPT ![c] = Append(@, <<"data", cursor[c]>>)]

\* The bytes first, then what the scanner found in them.
PaintChunk(c) ==
    /\ pc[c] = "chunk"
    /\ here[c]
    /\ PaintData(c)
    /\ Goto(c, IF cursor[c] \in Marked THEN "opening" ELSE "loop")
    /\ UNCHANGED <<sessionVars, runVars, ask, here, inbound, cursor, snap, opened, title, heard>>

ReportOpen(c) ==
    /\ pc[c] = "opening"
    /\ here[c]
    /\ opened' = [opened EXCEPT ![c] = Append(@, cursor[c])]
    /\ Goto(c, "loop")
    /\ UNCHANGED <<sessionVars, runVars, ask, here, inbound, cursor, snap, painted, title, heard>>

\* Fault: the exit is told without collecting what is still in the channel.
DrainNothing(c) ==
    /\ pc[c] = "drain"
    /\ Goto(c, "over")
    /\ UNCHANGED <<sessionVars, runVars, ask, here, inbound, streamVars, title, heard>>

\* try_recv until it is not Ok; a receiver that lagged is not Ok.
Drain(c) ==
    /\ pc[c] = "drain"
    /\ IF Ready(c)
         THEN Receive(c) /\ Goto(c, IF Lagged(c) THEN "over" ELSE "draining")
         ELSE Goto(c, "over") /\ UNCHANGED cursor
    /\ UNCHANGED <<sessionVars, runVars, ask, here, inbound, snap, painted, opened, title, heard>>

PaintLast(c) ==
    /\ pc[c] = "draining"
    /\ here[c]
    /\ PaintData(c)
    /\ Goto(c, "drain")
    /\ UNCHANGED <<sessionVars, runVars, ask, here, inbound, cursor, snap, opened, title, heard>>

Over(c) ==
    /\ pc[c] = "over"
    /\ Goto(c, IF alive THEN "stopping" ELSE "exiting")
    /\ UNCHANGED <<sessionVars, runVars, ask, here, inbound, streamVars, title, heard>>

SayExit(c) ==
    /\ pc[c] = "exiting"
    /\ here[c]
    /\ Hear(c, "exit")
    /\ Goto(c, "closing")
    /\ UNCHANGED <<sessionVars, runVars, ask, here, inbound, streamVars, title>>

SayClose(c) ==
    /\ pc[c] = "closing"
    /\ here[c]
    /\ Hear(c, "close")
    /\ Goto(c, "stopping")
    /\ UNCHANGED <<sessionVars, runVars, ask, here, inbound, streamVars, title>>

\* inbound.abort(), on every way out of the loop.  Nobody waits for the task:
\* it may still be handling a frame, and stops when it next waits for one.
AbortInbound(c) ==
    /\ pc[c] = "stopping"
    /\ inbound' = [inbound EXCEPT ![c] = IF @ = "running" THEN "aborted" ELSE @]
    /\ Goto(c, "left")
    /\ UNCHANGED <<sessionVars, runVars, ask, here, streamVars, title, heard>>

\* A write that fails.  Only the greeting returns at once; a chunk or a resync
\* leaves the loop for the drain, and a request not reported is passed over.
WriteFails(c) ==
    /\ ~here[c]
    /\ \/ pc[c] = "greeting" /\ Goto(c, "left")
       \/ pc[c] \in {"chunk", "resyncing"} /\ Goto(c, "drain")
       \/ pc[c] = "opening" /\ Goto(c, "loop")
       \/ pc[c] = "draining" /\ Goto(c, "over")
       \/ pc[c] = "exiting" /\ Goto(c, "closing")
       \/ pc[c] = "closing" /\ Goto(c, "stopping")
    /\ UNCHANGED <<sessionVars, runVars, ask, here, inbound, streamVars, title, heard>>

-----------------------------------------------------------------------------
(* The inbound task of an attached connection.  It handles one frame at a     *)
(* time without waiting, so it ends between two of them.                      *)

Type(c) ==
    /\ inbound[c] # "off" /\ here[c]
    /\ Write(c)
    /\ UNCHANGED <<runVars, connVars>>

AskSize(c, s) ==
    /\ inbound[c] # "off" /\ here[c]
    /\ ResizePty(c, s)
    /\ UNCHANGED <<runVars, connVars>>

FinishSize(c) ==
    /\ ResizeMirror(c)
    /\ UNCHANGED <<runVars, connVars>>

BetweenFrames(c) == inbound[c] # "off" /\ resizing[c] = Settled

\* Fault: a client that lets go takes the session with it.
InboundEndKills(c) ==
    /\ BetweenFrames(c)
    /\ inbound' = [inbound EXCEPT ![c] = "off"]
    /\ Kill
    /\ UNCHANGED <<runVars, pc, ask, here, streamVars, title, heard>>

\* The client closed its pane, or its half of the connection, or is gone; what
\* is written to it may still arrive.  Or the task was aborted.
InboundEnds(c) ==
    /\ BetweenFrames(c)
    /\ inbound' = [inbound EXCEPT ![c] = "off"]
    /\ UNCHANGED <<sessionVars, runVars, pc, ask, here, streamVars, title, heard>>

-----------------------------------------------------------------------------

SessionStep == (Paint \/ HangUp \/ Thread) /\ UNCHANGED <<runVars, connVars>>

Attach(c) ==
    \/ Subscribe(c) \/ TakeReplay(c) \/ PaintReplay(c) \/ Loop(c)
    \/ SelectOutput(c) \/ SelectGone(c) \/ PaintChunk(c) \/ ReportOpen(c)
    \/ Drain(c) \/ PaintLast(c) \/ Over(c) \/ SayExit(c) \/ SayClose(c)
    \/ AbortInbound(c) \/ WriteFails(c)

Serve(c) ==
    \/ Describe(c) \/ ServeKill(c) \/ NeverAsked(c)
    \/ Watch(c) \/ TellTitle(c) \/ TellEnded(c)
    \/ Attach(c) \/ Finish(c)

Inbound(c) == Type(c) \/ FinishSize(c) \/ InboundEnds(c) \/ \E s \in Sizes : AskSize(c, s)

KNext ==
    \/ SessionStep
    \/ Listen \/ Begin \/ NoticeGone \/ Expire
    \/ \E c \in Tasks :
         \/ Connect(c) \/ Leave(c) \/ Admit(c) \/ Serve(c) \/ Inbound(c)
         \/ \E s \in Sizes : AttachSize(c, s)

\* Every task of the keeper runs and every client that stays keeps reading;
\* the child, typing, connecting and leaving are nobody's duty.
KFairness ==
    /\ WF_vars(Thread /\ UNCHANGED <<runVars, connVars>>)
    /\ WF_vars(Listen) /\ WF_vars(Begin) /\ WF_vars(NoticeGone) /\ WF_vars(Expire)
    /\ \A c \in Tasks :
         /\ WF_vars(Admit(c)) /\ WF_vars(Serve(c))
         /\ WF_vars(FinishSize(c)) /\ WF_vars(InboundEnds(c) /\ (~here[c] \/ inbound[c] = "aborted"))

KSpec == KInit /\ [][KNext]_vars
KFairSpec == KSpec /\ KFairness
-----------------------------------------------------------------------------
(* Properties. *)

Frames == {"replay", "data"} \X (0..MaxChunks)

KTypeOK ==
    /\ TypeOK
    /\ keeper \in {"starting", "listening", "serving", "gone"}
    /\ sawAlive \in BOOLEAN /\ deadline \in BOOLEAN /\ live \in Nat
    /\ pc \in [Tasks -> Stations]
    /\ ask \in [Tasks -> Asks]
    /\ here \in [Tasks -> BOOLEAN] /\ inbound \in [Tasks -> {"off", "running", "aborted"}]
    /\ cursor \in [Tasks -> 0..MaxChunks] /\ snap \in [Tasks -> 0..MaxChunks]
    /\ painted \in [Tasks -> Seq(Frames)]
    /\ opened \in [Tasks -> Seq(0..MaxChunks)]
    /\ title \in [Tasks -> 0..MaxChunks]
    /\ heard \in [Tasks -> SUBSET Words]

Kind(c, i) == painted[c][i][1]
Chunk(c, i) == painted[c][i][2]

\* What a client has been shown has no hole in it: it begins with a replay,
\* the first chunk after a replay is at most one past what the replay showed,
\* and chunks follow one another - whatever the thread painted between the
\* subscription and the replay, and however often the client fell behind
\* (keeper.rs:276-279, 323, 343-346; session.rs:20-22).
NoGap ==
    \A c \in Tasks : \A i \in 1..Len(painted[c]) :
        IF i = 1 THEN Kind(c, 1) = "replay"
        ELSE /\ Kind(c, i) = "data"
             /\ IF i = 2 THEN Chunk(c, 2) <= Chunk(c, 1) + 1
                         ELSE Chunk(c, i) = Chunk(c, i - 1) + 1

Shown(c) == IF painted[c] = <<>> THEN 0
            ELSE LET n == Len(painted[c])
                 IN  IF Chunk(c, n) > Chunk(c, 1) THEN Chunk(c, n) ELSE Chunk(c, 1)

\* A client told the session is over has been shown everything the session
\* put out: "whatever the child painted on its way out" (keeper.rs:360-372).
FinalScreen == \A c \in Tasks : "exit" \in heard[c] => Shown(c) = sent

\* What it has not been shown then was overrun in the drain, and only that: a
\* client that kept within the backlog sees the last of the output, whatever
\* order the end and the output reached it in (keeper.rs:320, 360-368).
LastWords ==
    \A c \in Tasks :
        "exit" \in heard[c] => Shown(c) = sent \/ cursor[c] = sent - Backlog

\* The keeper goes only when its child has gone, and never while a connection
\* it accepted is still being served (keeper.rs:194-197, 205-212).
NoReaderCutOff ==
    keeper = "gone" => ~alive /\ \A c \in Tasks : pc[c] \notin Served \cup {"calling"}

\* No connection is told the session ended while it has not, and the session
\* is over for good once any was (keeper.rs:249-273, 369-372).
EndIsTrue ==
    \A c \in Tasks : heard[c] \cap {"exit", "close", "ended", "over"} # {}
                     => thread = "done" /\ ~alive

\* A detach, a lost client or a reader that stalls is never what kills the
\* session: it takes a connection that asked for it (keeper.rs:248, 312-314).
KilledOnlyByAsking ==
    shutdown => \E c \in Tasks : ask[c] = "kill" /\ pc[c] \in {"left", "gone"}

\* What the connection asked for was done, and it was told so.
Answered(c) ==
    /\ ask[c] = "attach" => {"exit", "close"} \subseteq heard[c]
    /\ ask[c] = "watch" => "ended" \in heard[c]
    /\ ask[c] = "describe" => heard[c] \cap {"running", "over"} # {}
    /\ ask[c] = "kill" => shutdown

\* Whoever stays on the connection is not let go before it has its answer, and
\* an attached or watching one not before it was told the session is over: no
\* way out of serve_one but a client that has gone skips it (keeper.rs:233-374).
NobodyIsLetGoUntold ==
    \A c \in Tasks : pc[c] \in {"left", "gone"} /\ here[c] => Answered(c)

\* Whoever attaches or watches, and stays, is told of the end of the session,
\* also when it came before the request was read (keeper.rs:249-273, 319-372).
EndIsTold ==
    \A c \in Tasks :
        (~alive /\ (Asked(c, "watch") \/ pc[c] = "watching" \/ pc[c] \in Attached))
            ~> (heard[c] \cap {"close", "ended"} # {} \/ ~here[c])

\* A client that stays and reads is shown what the child prints, by the chunk
\* or by a resync, or is told the session is over (keeper.rs:319-358).
OutputArrives ==
    \A c \in Tasks : \A n \in 1..MaxChunks :
        (pc[c] \in Attached /\ sent >= n)
            ~> (Shown(c) >= n \/ ~here[c] \/ ~alive)

\* The keeper does not outlive its child for ever, provided whoever attached
\* keeps reading (keeper.rs:205-219).
KeeperGoes == ~alive ~> keeper = "gone"
=============================================================================
