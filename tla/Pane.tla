-------------------------------- MODULE Pane --------------------------------
(***************************************************************************)
(* A pane, from the person's terminal to the session and back: the attach  *)
(* client (devpipe/src/attach.rs, client.rs), the conversation that serves *)
(* it (serve.rs), and the connection to the keeper (keeper.rs).            *)
(*                                                                         *)
(* Every queue on the way is bounded and every send waits for room, so the *)
(* question of the module is what waits for what: the client does not read *)
(* while it sends, the conversation reads nothing while it feeds a session *)
(* or says something, and each pane has a pump of its own.                 *)
(*                                                                         *)
(* A hop is one queue: what was sent and not read, in buffers and sockets. *)
(* All panes have one channel, as attach has; a client that does more than *)
(* attach opens it again once it let it go.  What is painted is Keeper's;  *)
(* here the session owes its readers a frame or it does not.               *)
(***************************************************************************)
EXTENDS Naturals, Sequences, SequencesExt

CONSTANTS MaxPanes,  \* bounds of the model: panes opened one after another,
          MaxTyped,  \* and keystrokes to all of them
          Wire,      \* room from the client to the conversation
          Backlog,   \* WRITE_BACKLOG, and the way to the client
          Slots      \* room between a conversation and a keeper, each way

ASSUME RoomEverywhere == {Wire, Backlog, Slots} \subseteq Nat \ {0}
ASSUME PanesAndKeysAreBounded == MaxPanes \in Nat /\ MaxTyped \in Nat

Panes == 1 .. MaxPanes

VARIABLES client,   \* where run() is
          pane,     \* the pane it is about; 0 before the first
          hand,     \* the frames it is sending, and does nothing else
          typed,    \* history: keystrokes taken from stdin for each pane
          seen,     \* history: panes it was told are open
          stopped,  \* the person stopped the terminal: it writes no more
          up,       \* from the client to the conversation
          down,     \* from the conversation and its pumps to the client
          talk,     \* what the conversation is doing
          open,     \* panes: the pane that has the channel, or 0
          pump,     \* the task that relays each pane
          into, out,   \* between the conversation and the keeper
          serving,  \* the keeper's end of each pane
          owed,     \* the session has something new for the pane
          got,      \* keystrokes the session was handed through each pane
          session   \* "running", "ended", or "lost" with its keeper

clientVars == <<client, pane, hand, typed, seen, stopped>>
talkVars == <<talk, open>>
keeperVars == <<serving, owed, got, session>>
vars == <<clientVars, talkVars, keeperVars, up, down, pump, into, out>>

Key(p, k) == [kind |-> "key", pane |-> p, key |-> k]
Said(kind, p) == [kind |-> kind, pane |-> p]
Reading == Said("reading", 0)

Init ==
    /\ client = "greeted" /\ pane = 0 /\ hand = <<>>
    /\ typed = [p \in Panes |-> 0] /\ seen = {} /\ stopped = FALSE
    /\ up = <<>> /\ down = <<>>
    /\ talk = Reading /\ open = 0
    /\ pump = [p \in Panes |-> "none"]
    /\ into = [p \in Panes |-> <<>>] /\ out = [p \in Panes |-> <<>>]
    /\ serving = [p \in Panes |-> "none"]
    /\ owed = [p \in Panes |-> FALSE] /\ got = [p \in Panes |-> <<>>]
    /\ session = "running"

-----------------------------------------------------------------------------
(* The client. *)

ClientFrame == UNCHANGED <<talkVars, keeperVars, down, pump, into, out>>

\* The first thing after the greeting, and again if it has more to do here.
AskOpen ==
    /\ client \in {"greeted", "detached"} /\ hand = <<>>
    /\ pane + 1 \in Panes
    /\ pane' = pane + 1
    /\ hand' = <<Said("open", pane + 1)>>
    /\ client' = "asking"
    /\ UNCHANGED <<typed, seen, stopped, up>> /\ ClientFrame

Keystrokes == FoldFunction(+, 0, typed)

\* read_stdin and its queue: a keystroke is typed when converse() takes it.
Type ==
    /\ client = "attached" /\ hand = <<>> /\ ~stopped
    /\ Keystrokes < MaxTyped
    /\ typed' = [typed EXCEPT ![pane] = @ + 1]
    /\ hand' = <<Key(pane, typed[pane] + 1)>>
    /\ UNCHANGED <<client, pane, seen, stopped, up>> /\ ClientFrame

\* The escape; it comes behind what was typed before it.
Detach ==
    /\ client = "attached" /\ hand = <<>> /\ ~stopped
    /\ client' = "leaving"
    /\ UNCHANGED <<pane, hand, typed, seen, stopped, up>> /\ ClientFrame

\* Attach closes the pane by a request; the protocol also has a frame for it.
LetGo ==
    /\ client = "leaving" /\ hand = <<>>
    /\ \E how \in {"close", "release"} : hand' = <<Said(how, pane)>>
    /\ client' = "detached"
    /\ UNCHANGED <<pane, typed, seen, stopped, up>> /\ ClientFrame

Put ==
    /\ hand # <<>> /\ client # "gone"
    /\ Len(up) < Wire
    /\ up' = up \o hand
    /\ hand' = <<>>
    /\ UNCHANGED <<client, pane, typed, seen, stopped>> /\ ClientFrame

\* opened() and converse(), one frame.
Hear(said) ==
    CASE client = "asking" /\ said.kind = "opened" -> "attached"
      [] client = "asking" /\ said.kind = "error" -> "gone"
      [] client = "attached" /\ said.kind \in {"exit", "end"} -> "leaving"
      [] OTHER -> client

Read ==
    /\ client \in {"asking", "attached", "detached"} /\ hand = <<>> /\ ~stopped
    /\ down # <<>>
    /\ client' = Hear(Head(down))
    /\ seen' = IF Head(down).kind = "opened" THEN seen \cup {Head(down).pane} ELSE seen
    /\ down' = Tail(down)
    /\ UNCHANGED <<pane, hand, typed, stopped, up, talkVars, keeperVars, pump, into, out>>

\* close(): what was sent before it still arrives.
Close ==
    /\ client = "detached" /\ hand = <<>>
    /\ client' = "gone"
    /\ UNCHANGED <<pane, hand, typed, seen, stopped, up>> /\ ClientFrame

\* The terminal takes no more output, and the loop waits in write_all.
Stop ==
    /\ client = "attached" /\ hand = <<>> /\ ~stopped
    /\ stopped' = TRUE
    /\ UNCHANGED <<client, pane, hand, typed, seen, up>> /\ ClientFrame

\* The connection breaks: what was on its way is lost.
Break ==
    /\ client # "gone"
    /\ client' = "gone"
    /\ hand' = <<>> /\ up' = <<>> /\ down' = <<>>
    /\ UNCHANGED <<pane, typed, seen, stopped, talkVars, keeperVars, pump, into, out>>

Client == AskOpen \/ Type \/ Detach \/ LetGo \/ Put \/ Read \/ Close \/ Stop

-----------------------------------------------------------------------------
(* The conversation. *)

\* Nobody takes what is said any more: the writer has stopped.
Unheard == client = "gone"

Abort(p) == pump' = [pump EXCEPT ![p] = IF @ = "running" THEN "aborted" ELSE @]

\* link.attach: a connection to the keeper, which subscribes and owes a replay.
Connect(p) ==
    /\ serving' = [serving EXCEPT ![p] = "painting"]
    /\ owed' = [owed EXCEPT ![p] = TRUE]

Receive(kind) == talk = Reading /\ up # <<>> /\ Head(up).kind = kind /\ up' = Tail(up)

\* Open.  A channel that is taken is refused; a session that has gone is an
\* error, and one that ends after it was asked about is still attached to.
HearOpen ==
    /\ Receive("open")
    /\ LET p == Head(up).pane IN
       \/ /\ open = 0 /\ session # "lost"
          /\ Connect(p)
          /\ talk' = Said("opened", p)
       \/ /\ open # 0 \/ session # "running"
          /\ talk' = Said("error", p)
          /\ UNCHANGED <<serving, owed>>
    /\ UNCHANGED <<clientVars, open, got, session, down, pump, into, out>>

\* Fault: the pane is forgotten and its pump left running.
HearCloseKeepingPump ==
    /\ Receive("close")
    /\ open' = 0
    /\ pump' = pump
    /\ talk' = Said("closed", Head(up).pane)
    /\ UNCHANGED <<clientVars, keeperVars, down, into, out>>

HearClose ==
    /\ Receive("close")
    /\ open' = 0
    /\ IF open # 0 THEN Abort(open) ELSE pump' = pump
    /\ talk' = Said("closed", Head(up).pane)
    /\ UNCHANGED <<clientVars, keeperVars, down, into, out>>

HearRelease ==
    /\ Receive("release")
    /\ open' = 0
    /\ IF open # 0 THEN Abort(open) ELSE pump' = pump
    /\ UNCHANGED <<clientVars, talk, keeperVars, down, into, out>>

\* Fault: what does not fit is dropped.
FeedWhatFits ==
    /\ Receive("key")
    /\ into' = [p \in Panes |->
           IF p = open /\ serving[p] # "gone" /\ Len(into[p]) < Slots
           THEN Append(into[p], Head(up).key) ELSE into[p]]
    /\ UNCHANGED <<clientVars, talkVars, keeperVars, down, pump, out>>

\* to_session.send: it waits for room, and nothing behind it is read meanwhile.
\* A keystroke for a channel that is not open, or a keeper that stopped, is lost.
Feed ==
    /\ Receive("key")
    /\ \/ /\ open = 0 \/ serving[open] = "gone"
          /\ into' = into
       \/ /\ open # 0 /\ serving[open] # "gone"
          /\ Len(into[open]) < Slots
          /\ into' = [into EXCEPT ![open] = Append(@, Head(up).key)]
    /\ UNCHANGED <<clientVars, talkVars, keeperVars, down, pump, out>>

\* Fault: the pump is started before the client is told what it carries.
PumpFirst ==
    /\ talk.kind = "opened" /\ ~Unheard
    /\ IF pump[talk.pane] = "none"
       THEN /\ pump' = [pump EXCEPT ![talk.pane] = "running"]
            /\ UNCHANGED <<talk, open, down>>
       ELSE /\ Len(down) < Backlog
            /\ down' = Append(down, talk)
            /\ open' = talk.pane /\ talk' = Reading
            /\ UNCHANGED pump
    /\ UNCHANGED <<clientVars, keeperVars, up, into, out>>

\* The client is told before the pump is started.
SayOpened ==
    /\ talk.kind = "opened" /\ ~Unheard
    /\ Len(down) < Backlog
    /\ down' = Append(down, talk)
    /\ pump' = [pump EXCEPT ![talk.pane] = "running"]
    /\ open' = talk.pane /\ talk' = Reading
    /\ UNCHANGED <<clientVars, keeperVars, up, into, out>>

SayRest ==
    /\ talk.kind \in {"closed", "error"} /\ ~Unheard
    /\ Len(down) < Backlog
    /\ down' = Append(down, talk)
    /\ talk' = Reading
    /\ UNCHANGED <<clientVars, open, keeperVars, up, pump, into, out>>

\* The client has gone, which is read after what it sent, or found by saying.
\* A pane that was about to be opened is let go of with the rest.
EndTalk ==
    /\ Unheard
    /\ \/ talk = Reading /\ up = <<>>
       \/ talk.kind \in {"opened", "closed", "error"}
    /\ talk' = Said("over", 0)
    /\ open' = 0 /\ up' = <<>>
    /\ pump' = [p \in Panes |->
           IF pump[p] = "running" THEN "aborted"
           ELSE IF talk = Said("opened", p) THEN "done" ELSE pump[p]]
    /\ UNCHANGED <<clientVars, keeperVars, down, into, out>>

Talk == HearOpen \/ HearClose \/ HearRelease \/ Feed \/ SayOpened \/ SayRest \/ EndTalk

\* relay().  A pump that is aborted stops when it next waits: until then it may
\* still send.
Carry(p) ==
    /\ pump[p] \in {"running", "aborted"} /\ ~Unheard
    /\ out[p] # <<>> /\ Len(down) < Backlog
    /\ down' = Append(down, Head(out[p]))
    /\ out' = [out EXCEPT ![p] = Tail(@)]
    /\ pump' = [pump EXCEPT ![p] = IF Head(out[p]).kind = "end" THEN "done" ELSE @]
    /\ UNCHANGED <<clientVars, talkVars, keeperVars, up, into>>

\* Fault: a keeper that died is not mentioned.
CarryEndQuietly(p) ==
    /\ pump[p] = "running" /\ ~Unheard
    /\ out[p] = <<>> /\ serving[p] = "gone"
    /\ pump' = [pump EXCEPT ![p] = "done"]
    /\ UNCHANGED <<clientVars, talkVars, keeperVars, up, down, into, out>>

\* The keeper's end went without a Close.
CarryEnd(p) ==
    /\ pump[p] = "running" /\ ~Unheard
    /\ out[p] = <<>> /\ serving[p] = "gone"
    /\ Len(down) < Backlog
    /\ down' = Append(down, Said("end", p))
    /\ pump' = [pump EXCEPT ![p] = "done"]
    /\ UNCHANGED <<clientVars, talkVars, keeperVars, up, into, out>>

StopPump(p) ==
    /\ \/ pump[p] = "aborted"
       \/ pump[p] = "running" /\ Unheard
    /\ pump' = [pump EXCEPT ![p] = "done"]
    /\ out' = [out EXCEPT ![p] = <<>>]
    /\ UNCHANGED <<clientVars, talkVars, keeperVars, up, down, into>>

Pump(p) == Carry(p) \/ CarryEnd(p) \/ StopPump(p)

-----------------------------------------------------------------------------
(* The keeper's end of a pane. *)

KeeperFrame == UNCHANGED <<clientVars, talkVars, up, down, pump>>

\* Both halves of the conversation's end are dropped.
LetGoOf(p) == open # p /\ pump[p] = "done" /\ talk # Said("opened", p)

\* Serving is over, and the task that reads is aborted with what it has not read.
Leave(p) ==
    /\ serving' = [serving EXCEPT ![p] = "gone"]
    /\ owed' = [owed EXCEPT ![p] = FALSE]
    /\ into' = [into EXCEPT ![p] = <<>>]

\* A chunk or a replay.  Once it was let go of, a frame goes nowhere or fails.
Paint(p) ==
    /\ serving[p] = "painting" /\ owed[p]
    /\ ~LetGoOf(p) /\ Len(out[p]) < Slots
    /\ out' = [out EXCEPT ![p] = Append(@, Said("data", p))]
    /\ owed' = [owed EXCEPT ![p] = FALSE]
    /\ UNCHANGED <<serving, into, got, session>> /\ KeeperFrame

\* Nobody is at the other end, and a write fails, if there is another to make.
PaintFails(p) ==
    /\ serving[p] = "painting" /\ LetGoOf(p)
    /\ Leave(p)
    /\ UNCHANGED <<out, got, session>> /\ KeeperFrame

\* The loop ends with the session: the last output, Exit, and Close.
SayExit(p) ==
    /\ serving[p] = "painting" /\ session = "ended"
    /\ ~owed[p] \/ LetGoOf(p)
    /\ serving' = [serving EXCEPT ![p] = "exiting"]
    /\ \/ /\ ~LetGoOf(p) /\ Len(out[p]) < Slots
          /\ out' = [out EXCEPT ![p] = Append(@, Said("exit", p))]
       \/ LetGoOf(p) /\ UNCHANGED out
    /\ UNCHANGED <<owed, got, session, into>> /\ KeeperFrame

SayEnd(p) ==
    /\ serving[p] = "exiting"
    /\ \/ /\ ~LetGoOf(p) /\ Len(out[p]) < Slots
          /\ out' = [out EXCEPT ![p] = Append(@, Said("end", p))]
       \/ LetGoOf(p) /\ UNCHANGED out
    /\ Leave(p)
    /\ UNCHANGED <<got, session>> /\ KeeperFrame

\* Fault: what is typed is read by the loop that paints, when it has nothing to.
TakeBetweenFrames(p) ==
    /\ serving[p] \in {"painting", "exiting"} /\ into[p] # <<>>
    /\ ~owed[p]
    /\ got' = [got EXCEPT ![p] = Append(@, Head(into[p]))]
    /\ into' = [into EXCEPT ![p] = Tail(@)]
    /\ UNCHANGED <<serving, owed, session, out>> /\ KeeperFrame

\* session.write, from a task of its own.
Take(p) ==
    /\ serving[p] \in {"painting", "exiting"} /\ into[p] # <<>>
    /\ got' = [got EXCEPT ![p] = Append(@, Head(into[p]))]
    /\ into' = [into EXCEPT ![p] = Tail(@)]
    /\ UNCHANGED <<serving, owed, session, out>> /\ KeeperFrame

Serve(p) == Paint(p) \/ SayExit(p) \/ SayEnd(p)

\* The session prints, and everybody attached is owed it.
Prints ==
    /\ session = "running"
    /\ owed' = [p \in Panes |-> owed[p] \/ (serving[p] = "painting" /\ ~LetGoOf(p))]
    /\ owed' # owed
    /\ UNCHANGED <<serving, got, session, into, out>> /\ KeeperFrame

SessionEnds ==
    /\ session = "running"
    /\ session' = "ended"
    /\ UNCHANGED <<serving, owed, got, into, out>> /\ KeeperFrame

\* The keeper is killed: its sockets close, with what it had not read.
KeeperDies ==
    /\ session # "lost"
    /\ session' = "lost"
    /\ serving' = [p \in Panes |-> IF serving[p] = "none" THEN "none" ELSE "gone"]
    /\ owed' = [p \in Panes |-> FALSE]
    /\ into' = [p \in Panes |-> <<>>]
    /\ UNCHANGED <<got, out>> /\ KeeperFrame

-----------------------------------------------------------------------------
Next ==
    \/ Client \/ Break
    \/ Talk \/ \E p \in Panes : Pump(p)
    \/ \E p \in Panes : Serve(p) \/ Take(p)
    \/ Prints \/ SessionEnds \/ KeeperDies
    \/ \E p \in Panes : PaintFails(p)

\* Tasks run, and sends that have room are made.  A person need not type, nor
\* leave, and may stop the terminal; until then attach reads.
Fairness ==
    /\ WF_vars(Put) /\ WF_vars(Read) /\ WF_vars(Talk)
    /\ \A p \in Panes : WF_vars(Pump(p)) /\ WF_vars(Serve(p)) /\ WF_vars(Take(p))

Spec == Init /\ [][Next]_vars /\ Fairness

-----------------------------------------------------------------------------
\* What the session was handed through a pane is what was typed in it, from the
\* first keystroke, in order and with nothing missing between.
PasteIsWhole ==
    \A p \in Panes : got[p] = [k \in 1 .. Len(got[p]) |-> k] /\ Len(got[p]) <= typed[p]

\* A client hears that a pane is open before anything of the pane; and while it
\* is being told the pane is closed, the pump that may still send has been stopped.
PaneInOrder ==
    /\ \A i \in DOMAIN down : down[i].kind \in {"data", "exit", "end"} =>
           \/ down[i].pane \in seen
           \/ \E j \in 1 .. i - 1 : down[j] = Said("opened", down[i].pane)
    /\ \A p \in Panes : Said("closed", p) \in {talk} \cup ToSet(down) =>
           open # p /\ pump[p] # "running"

\* What is typed reaches the session, though the terminal is stopped and
\* everything on the way back is full, unless the keeper stopped serving the
\* pane first or the connection broke.
TypedArrives ==
    \A p \in Panes :
        []<>(Len(got[p]) = typed[p] \/ serving[p] = "gone" \/ client = "gone")

\* A person is told when their session ends or its keeper is lost, and is not
\* left at a live-looking pane over nothing.
EndIsTold == session # "running" ~> client # "attached" \/ stopped
=============================================================================
