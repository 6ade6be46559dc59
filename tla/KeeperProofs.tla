---------------------------- MODULE KeeperProofs ----------------------------
(***************************************************************************)
(* What a keeper promises, for any number of connections, chunks and       *)
(* broadcast slots: it runs its session as Session specifies, shows no     *)
(* client a gap, cuts nobody off, and tells no client of an end that has   *)
(* not come.                                                               *)
(***************************************************************************)
EXTENDS Keeper, SessionProofs, FiniteSetTheorems, WellFoundedInduction

-----------------------------------------------------------------------------
(* A keeper's steps are its session's steps, or leave the session alone. *)

\* Each step of a keeper is a step of its session, or leaves the session alone.
LEMMA KeeperStepIsSessionStep == [KNext]_vars => [Next]_sessionVars
<1> SUFFICES ASSUME [KNext]_vars PROVE [Next]_sessionVars  OBVIOUS
<1>1. CASE SessionStep  BY <1>1 DEF SessionStep, Next
<1>2. CASE Listen \/ Begin \/ NoticeGone \/ Expire
  BY <1>2 DEF Listen, Begin, NoticeGone, Expire
<1>3. ASSUME NEW c \in Tasks, Connect(c) \/ Leave(c) \/ Admit(c) \/ Finish(c)
      PROVE  [Next]_sessionVars
  BY <1>3 DEF Connect, Leave, Admit, Finish
<1>4. ASSUME NEW c \in Tasks,
             Describe(c) \/ ServeKill(c) \/ NeverAsked(c) \/ Watch(c) \/ TellTitle(c) \/ TellEnded(c)
      PROVE  [Next]_sessionVars
  BY <1>4 DEF Describe, ServeKill, NeverAsked, Watch, TellTitle, TellEnded, Next
<1>5. ASSUME NEW c \in Tasks, Attach(c) PROVE [Next]_sessionVars
  BY <1>5 DEF Attach, Subscribe, TakeReplay, PaintReplay, Loop, SelectOutput, SelectGone,
              PaintChunk, ReportOpen, Drain, PaintLast, Over, SayExit, SayClose, AbortInbound,
              WriteFails
<1>6. ASSUME NEW c \in Tasks, Inbound(c) PROVE [Next]_sessionVars
  BY <1>6 DEF Inbound, Type, FinishSize, InboundEnds, AskSize, Next
<1>7. ASSUME NEW c \in Tasks, NEW s \in Sizes, AttachSize(c, s) PROVE [Next]_sessionVars
  BY <1>7 DEF AttachSize, Next
<1>8. CASE UNCHANGED vars  BY <1>8 DEF vars
<1> QED  BY <1>1, <1>2, <1>3, <1>4, <1>5, <1>6, <1>7, <1>8 DEF KNext, Serve

\* A keeper implements Session: what is proved of a session holds inside one.
THEOREM KeeperImplementsSession == KSpec => Spec
<1>1. KInit => Init  BY DEF KInit
<1> QED  BY <1>1, KeeperStepIsSessionStep, PTL DEF KSpec, Spec

\* So a keeper keeps what its session keeps by itself.
THEOREM KeeperKeepsSessionInv == KSpec => []SessionInv
<1> QED  BY KeeperImplementsSession, SessionKeepsInv, PTL

-----------------------------------------------------------------------------
(* Who is being served, and what the counter says of it. *)

Serving == {c \in Tasks : pc[c] \in Served}

Places == pc \in [Tasks -> Stations] /\ live = Cardinality(Serving)

\* The stations of a connection whose inbound task may be running.
Feeding == {"loop", "select", "chunk", "opening", "behind", "resyncing", "drain",
            "draining", "over", "exiting", "closing", "stopping"}

\* Those being served can be counted.
LEMMA ServingIsFinite == IsFiniteSet(Serving) /\ Cardinality(Serving) \in Nat
<1>1. Serving \in SUBSET Tasks  BY DEF Serving
<1>2. IsFiniteSet(Serving)  BY <1>1, FiniteTasks, FS_Subset
<1> QED  BY <1>2, FS_CardinalityType

\* A connection that moves from one station to another on the same side of
\* being served leaves the count right.
LEMMA MoveKeepsPlaces ==
    ASSUME Places, NEW c \in Tasks, NEW st \in Stations, Goto(c, st), live' = live,
           pc[c] \in Served <=> st \in Served
    PROVE  Places'
<1>1. pc' \in [Tasks -> Stations]  BY DEF Places, Goto
<1>2. Serving' = Serving  BY <1>1 DEF Serving, Goto, Places
<1> QED  BY <1>1, <1>2 DEF Places

\* A connection that is let in is counted.
LEMMA AdmitKeepsPlaces ==
    ASSUME Places, NEW c \in Tasks, Admit(c) PROVE Places'
<1>1. pc' \in [Tasks -> Stations]  BY DEF Places, Goto, Admit, Stations, Served
<1>2. c \notin Serving  BY DEF Serving, Admit, Served, Attached
<1>3. Serving' = Serving \cup {c}
  BY DEF Serving, Admit, Goto, Places, Served
<1>4. Cardinality(Serving') = Cardinality(Serving) + 1
  BY <1>2, <1>3, ServingIsFinite, FS_AddElement
<1> QED  BY <1>1, <1>4 DEF Places, Admit

\* A connection whose serving is over is no longer counted.
LEMMA FinishKeepsPlaces ==
    ASSUME Places, NEW c \in Tasks, Finish(c) PROVE Places'
<1>1. pc' \in [Tasks -> Stations]  BY DEF Places, Goto, Finish, Stations
<1>2. c \in Serving  BY DEF Serving, Finish, Served
<1>3. Serving' = Serving \ {c}
  BY DEF Serving, Finish, Goto, Places, Served, Attached
<1>4. Cardinality(Serving') = Cardinality(Serving) - 1
  BY <1>2, <1>3, ServingIsFinite, FS_RemoveElement
<1> QED  BY <1>1, <1>4 DEF Places, Finish

\* The grace runs out with nobody served.
LEMMA ExpireKeepsPlaces == ASSUME Places, Expire PROVE Places'
<1>1. pc' \in [Tasks -> Stations]  BY DEF Places, Expire, Stations
<1>2. Serving' = Serving  BY DEF Serving, Expire, Places, Served, Attached
<1> QED  BY <1>1, <1>2 DEF Places, Expire

\* The count of live connections is that of those being served, whatever the step.
LEMMA KeeperStepKeepsPlaces == Places /\ [KNext]_vars => Places'
<1> SUFFICES ASSUME Places, [KNext]_vars PROVE Places'  OBVIOUS
<1> USE DEF Stations, Served, Attached
<1>1. CASE UNCHANGED <<pc, live>>  BY <1>1 DEF Places, Serving
<1>2. CASE SessionStep  BY <1>1, <1>2 DEF SessionStep, connVars, runVars
<1>3. CASE Listen \/ Begin \/ NoticeGone
  BY <1>1, <1>3 DEF Listen, Begin, NoticeGone, connVars
<1>4. ASSUME NEW c \in Tasks, Connect(c) PROVE Places'
  BY <1>4, MoveKeepsPlaces DEF Connect, runVars
<1>5. ASSUME NEW c \in Tasks, Leave(c) \/ Inbound(c) PROVE Places'
  BY <1>1, <1>5 DEF Leave, Inbound, Type, FinishSize, InboundEnds, AskSize, runVars, connVars
<1>6. ASSUME NEW c \in Tasks, NEW s \in Sizes, AttachSize(c, s) PROVE Places'
  BY <1>1, <1>6 DEF AttachSize, runVars, connVars
<1>7. ASSUME NEW c \in Tasks,
             Describe(c) \/ ServeKill(c) \/ NeverAsked(c) \/ Watch(c) \/ TellEnded(c)
      PROVE  Places'
  BY <1>7, MoveKeepsPlaces
     DEF Describe, ServeKill, NeverAsked, Watch, TellEnded, Asked, runVars
<1>8. ASSUME NEW c \in Tasks, TellTitle(c) PROVE Places'
  BY <1>1, <1>8, MoveKeepsPlaces DEF TellTitle, runVars
<1>9. ASSUME NEW c \in Tasks, Attach(c) PROVE Places'
  <2>1. CASE Subscribe(c) \/ TakeReplay(c) \/ PaintReplay(c) \/ Loop(c)
    BY <2>1, MoveKeepsPlaces DEF Subscribe, TakeReplay, PaintReplay, Loop, Asked, runVars
  <2>2. CASE SelectOutput(c) \/ SelectGone(c) \/ PaintChunk(c) \/ ReportOpen(c)
    BY <2>2, MoveKeepsPlaces DEF SelectOutput, SelectGone, PaintChunk, ReportOpen, runVars
  <2>3. CASE Drain(c) \/ PaintLast(c) \/ Over(c)
    BY <2>3, MoveKeepsPlaces DEF Drain, PaintLast, Over, runVars
  <2>4. CASE SayExit(c) \/ SayClose(c) \/ AbortInbound(c) \/ WriteFails(c)
    BY <2>4, MoveKeepsPlaces DEF SayExit, SayClose, AbortInbound, WriteFails, runVars
  <2> QED  BY <1>9, <2>1, <2>2, <2>3, <2>4 DEF Attach
<1>10. CASE UNCHANGED vars  BY <1>1, <1>10 DEF vars, runVars, connVars
<1> QED
  BY <1>2, <1>3, <1>4, <1>5, <1>6, <1>7, <1>8, <1>9, <1>10, AdmitKeepsPlaces,
     FinishKeepsPlaces, ExpireKeepsPlaces
  DEF KNext, Serve

-----------------------------------------------------------------------------
(* How a keeper and its connections end. *)

Endings ==
    /\ keeper \in {"starting", "listening", "serving", "gone"} /\ deadline \in BOOLEAN
    /\ inbound \in [Tasks -> {"off", "running", "aborted"}] /\ heard \in [Tasks -> SUBSET Words]
    /\ deadline => ~alive
    /\ keeper = "gone" => ~alive /\ \A c \in Tasks : pc[c] \notin Served \cup {"calling"}
    /\ \A c \in Tasks :
         /\ inbound[c] = "running" => pc[c] \in Feeding
         /\ pc[c] \in {"exiting", "closing"} => ~alive
         /\ heard[c] \cap {"exit", "close", "ended", "over"} # {} => ~alive
    /\ shutdown => \E c \in Tasks : ask[c] = "kill" /\ pc[c] \in {"left", "gone"}

\* Once its child has gone a session stays gone.
LEMMA AliveOnlyFalls == SessionInv /\ [Next]_sessionVars => (~alive => ~alive')
<1> SUFFICES ASSUME SessionInv, [Next]_sessionVars, ~alive PROVE ~alive'  OBVIOUS
<1> QED
  BY DEF Next, Thread, Paint, HangUp, Kill, Look, Poll, Read, ReadNothing, Send, WriteInput,
         WriteNothing, Reap, TellGone, Write, ResizePty, ResizeMirror, sessionVars, lifeVars

\* The session's own steps shut nothing down.
LEMMA SessionStepShutsNothing == SessionStep => UNCHANGED <<shutdown, runVars, connVars>>
<1> QED
  BY DEF SessionStep, Thread, Paint, HangUp, Look, Poll, Read, ReadNothing, Send, WriteInput,
         WriteNothing, Reap, TellGone, lifeVars

\* Every step keeps what is known of endings.
LEMMA KeeperStepKeepsEndings ==
    SessionInv /\ Places /\ Endings /\ [KNext]_vars => Endings'
<1> SUFFICES ASSUME SessionInv, Places, Endings, [KNext]_vars PROVE Endings'  OBVIOUS
<1> DEFINE ends == {"exit", "close", "ended", "over"}
<1>a. ~alive => ~alive'  BY KeeperStepIsSessionStep, AliveOnlyFalls
<1>b. pc \in [Tasks -> Stations]  BY DEF Places
<1> USE <1>a, <1>b DEF Endings
<1>0. CASE UNCHANGED <<keeper, deadline, pc, ask, inbound, heard, shutdown>>
  BY <1>0
<1>1. CASE SessionStep
  BY <1>0, <1>1, SessionStepShutsNothing DEF connVars, runVars
<1>2. CASE Listen  BY <1>2 DEF Listen, connVars, sessionVars, lifeVars
<1>3. CASE Begin \/ NoticeGone
  <2>1. alive \in BOOLEAN  BY DEF SessionInv, TypeOK
  <2>2. /\ keeper' = "serving" \/ keeper' = keeper
        /\ deadline' \in BOOLEAN /\ (deadline' => ~alive')
        /\ UNCHANGED <<pc, ask, inbound, heard, shutdown, alive>>
    BY <1>3, <2>1 DEF Begin, NoticeGone, connVars, sessionVars, lifeVars
  <2> QED  BY <2>2
<1>4. CASE Expire
  <2>1. Serving = {}
    <3>1. Cardinality(Serving) = 0  BY <1>4 DEF Expire, Places
    <3> QED  BY <3>1, ServingIsFinite, FS_EmptySet
  <2>2. \A c \in Tasks : pc'[c] \notin Served \cup {"calling"}
    BY <1>4, <2>1 DEF Expire, Serving, Served, Attached
  <2>3. \A c \in Tasks : pc[c] # "calling" => pc'[c] = pc[c]  BY <1>4 DEF Expire
  <2>4. UNCHANGED <<deadline, ask, inbound, heard, shutdown, alive>> /\ keeper' = "gone"
    BY <1>4 DEF Expire, sessionVars, lifeVars
  <2>5. \A c \in Tasks : inbound[c] # "running"
    BY <2>1 DEF Serving, Served, Attached, Feeding
  <2>6. ~alive  BY <1>4 DEF Expire
  <2> QED  BY <2>2, <2>3, <2>4, <2>5, <2>6
<1>5. ASSUME NEW c \in Tasks, Connect(c) PROVE Endings'
  BY <1>5 DEF Connect, Goto, runVars, sessionVars, lifeVars, Served, Attached, Stations, Feeding
<1>6. ASSUME NEW c \in Tasks, Leave(c) PROVE Endings'
  BY <1>0, <1>6 DEF Leave, runVars, sessionVars, lifeVars
<1>7. ASSUME NEW c \in Tasks, Admit(c) PROVE Endings'
  BY <1>7 DEF Admit, Goto, sessionVars, lifeVars, Stations, Feeding
<1>8. ASSUME NEW c \in Tasks, Finish(c) PROVE Endings'
  BY <1>8 DEF Finish, Goto, sessionVars, lifeVars, Stations, Feeding, Served
<1>9. ASSUME NEW c \in Tasks, NEW s \in Sizes, AttachSize(c, s) PROVE Endings'
  BY <1>0, <1>9 DEF AttachSize, ResizePty, runVars, connVars, lifeVars
<1>10. ASSUME NEW c \in Tasks, Inbound(c) PROVE Endings'
  <2>1. CASE InboundEnds(c)
    BY <2>1 DEF InboundEnds, BetweenFrames, runVars, sessionVars, lifeVars
  <2>2. CASE ~InboundEnds(c)
    BY <1>0, <1>10, <2>2
       DEF Inbound, Type, FinishSize, AskSize, Write, ResizePty, ResizeMirror, runVars,
           connVars, lifeVars
  <2> QED  BY <2>1, <2>2
<1>11. ASSUME NEW c \in Tasks, Describe(c) PROVE Endings'
  BY <1>11 DEF Describe, Asked, Hear, Goto, runVars, sessionVars, lifeVars, Stations, Feeding,
               Served, Words
<1>12. ASSUME NEW c \in Tasks, ServeKill(c) PROVE Endings'
  BY <1>12 DEF ServeKill, Kill, Asked, Goto, runVars, Stations, Feeding, Served
<1>13. ASSUME NEW c \in Tasks, NeverAsked(c) \/ Watch(c) \/ TellTitle(c) PROVE Endings'
  <2> USE DEF Goto, Asked, runVars, sessionVars, lifeVars, Stations, Feeding, Served
  <2>1. CASE NeverAsked(c)  BY <2>1 DEF NeverAsked
  <2>2. CASE Watch(c)  BY <2>2 DEF Watch
  <2>3. CASE TellTitle(c) /\ here[c]  BY <1>0, <2>3 DEF TellTitle
  <2>4. CASE TellTitle(c) /\ ~here[c]  BY <2>4 DEF TellTitle
  <2> QED  BY <1>13, <2>1, <2>2, <2>3, <2>4
<1>14. ASSUME NEW c \in Tasks, TellEnded(c) PROVE Endings'
  BY <1>14 DEF TellEnded, Goto, runVars, sessionVars, lifeVars, Stations, Feeding, Served, Words
<1>15. ASSUME NEW c \in Tasks, Attach(c) PROVE Endings'
  <2> USE DEF Goto, runVars, sessionVars, lifeVars, Stations, Feeding, Served, Attached
  <2>1. CASE Subscribe(c)  BY <2>1 DEF Subscribe, Asked
  <2>2. CASE TakeReplay(c)  BY <2>2 DEF TakeReplay
  <2>3. CASE PaintReplay(c)  BY <2>3 DEF PaintReplay
  <2>4. CASE Loop(c)  BY <2>4 DEF Loop, streamVars
  <2>5. CASE SelectOutput(c)  BY <2>5 DEF SelectOutput
  <2>6. CASE SelectGone(c)  BY <2>6 DEF SelectGone
  <2>7. CASE PaintChunk(c)  BY <2>7 DEF PaintChunk
  <2>8. CASE ReportOpen(c)  BY <2>8 DEF ReportOpen
  <2>9. CASE Drain(c)  BY <2>9 DEF Drain
  <2>10. CASE PaintLast(c)  BY <2>10 DEF PaintLast
  <2>11. CASE Over(c)  BY <2>11 DEF Over
  <2>12. CASE SayExit(c)  BY <2>12 DEF SayExit, Hear, Words
  <2>13. CASE SayClose(c)  BY <2>13 DEF SayClose, Hear, Words
  <2>14. CASE AbortInbound(c)  BY <2>14 DEF AbortInbound
  <2>15. CASE WriteFails(c)  BY <2>15 DEF WriteFails
  <2> QED
    BY <1>15, <2>1, <2>2, <2>3, <2>4, <2>5, <2>6, <2>7, <2>8, <2>9, <2>10, <2>11, <2>12,
       <2>13, <2>14, <2>15
    DEF Attach
<1>16. CASE UNCHANGED vars
  BY <1>0, <1>16 DEF vars, runVars, connVars, sessionVars, lifeVars
<1> QED
  BY <1>1, <1>2, <1>3, <1>4, <1>5, <1>6, <1>7, <1>8, <1>9, <1>10, <1>11, <1>12, <1>13,
     <1>14, <1>15, <1>16
  DEF KNext, Serve

-----------------------------------------------------------------------------
(* What a client has been shown. *)

\* Painting chunk k next on the client's screen would leave no hole.
Continues(c, k) ==
    /\ painted[c] # <<>>
    /\ IF Len(painted[c]) = 1 THEN k <= Chunk(c, 1) + 1
                              ELSE k = Chunk(c, Len(painted[c])) + 1

StreamTypes ==
    /\ pc \in [Tasks -> Stations] /\ here \in [Tasks -> BOOLEAN]
    /\ cursor \in [Tasks -> Nat] /\ snap \in [Tasks -> Nat]
    /\ painted \in [Tasks -> Seq({"replay", "data"} \X Nat)]

\* Where a reader is in the broadcast agrees with what its client was shown:
\* a replay in hand covers everything the receiver has passed, and the chunk
\* in hand, or the next one, continues the screen.
ReaderInv(c) ==
    /\ cursor[c] <= sent /\ snap[c] <= fed
    /\ pc[c] \in {"greeting", "resyncing"} => cursor[c] <= snap[c]
    /\ here[c] /\ pc[c] \in {"loop", "select", "opening", "drain"}
         => Continues(c, cursor[c] + 1)
    /\ here[c] /\ pc[c] \in {"chunk", "draining"} => Continues(c, cursor[c])

StreamInv == StreamTypes /\ NoGap /\ \A c \in Tasks : ReaderInv(c)

\* One connection's part of NoGap.
NoGapFor(c) ==
    \A i \in 1..Len(painted[c]) :
        IF i = 1 THEN Kind(c, 1) = "replay"
        ELSE /\ Kind(c, i) = "data"
             /\ IF i = 2 THEN Chunk(c, 2) <= Chunk(c, 1) + 1
                         ELSE Chunk(c, i) = Chunk(c, i - 1) + 1

\* A replay starts the screen afresh.
LEMMA ReplayLeavesNoGap ==
    ASSUME StreamTypes, NEW c \in Tasks,
           painted' = [painted EXCEPT ![c] = << <<"replay", snap[c]>> >>]
    PROVE  /\ painted'[c] # <<>> /\ Len(painted'[c]) = 1 /\ painted'[c][1][2] = snap[c]
           /\ NoGapFor(c)'
           /\ painted' \in [Tasks -> Seq({"replay", "data"} \X Nat)]
<1>1. painted'[c] = << <<"replay", snap[c]>> >>  BY DEF StreamTypes
<1>2. Len(painted'[c]) = 1 /\ painted'[c][1] = <<"replay", snap[c]>>  BY <1>1
<1>3. painted'[c] \in Seq({"replay", "data"} \X Nat)  BY <1>1 DEF StreamTypes
<1>4. NoGapFor(c)'  BY <1>2 DEF NoGapFor, Kind
<1> QED  BY <1>1, <1>2, <1>3, <1>4 DEF StreamTypes

\* A chunk that continues the screen leaves no gap behind it.
LEMMA ChunkLeavesNoGap ==
    ASSUME StreamTypes, NEW c \in Tasks, NoGapFor(c), Continues(c, cursor[c]), PaintData(c)
    PROVE  /\ painted'[c] # <<>> /\ Len(painted'[c]) # 1
           /\ painted'[c][Len(painted'[c])][2] = cursor[c]
           /\ NoGapFor(c)'
           /\ painted' \in [Tasks -> Seq({"replay", "data"} \X Nat)]
<1> DEFINE s == painted[c]
           n == Len(s)
           frame == <<"data", cursor[c]>>
<1>1. s \in Seq({"replay", "data"} \X Nat) /\ frame \in {"replay", "data"} \X Nat
  BY DEF StreamTypes
<1>2. painted'[c] = Append(s, frame)  BY DEF PaintData, StreamTypes
<1>3. /\ n \in Nat /\ n # 0
      /\ Len(painted'[c]) = n + 1 /\ painted'[c][n + 1] = frame
      /\ \A i \in 1..n : painted'[c][i] = s[i]
      /\ painted'[c] \in Seq({"replay", "data"} \X Nat)
  BY <1>1, <1>2 DEF Continues
<1> HIDE DEF s, n
<1>4. /\ \A i \in 1..n : s[i] = painted[c][i]
      /\ n = Len(painted[c])
  BY DEF s, n
<1>5. NoGapFor(c)'
  <2> DEFINE t == painted'[c]
  <2>1. t[n + 1][1] = "data" /\ t[n + 1][2] = cursor[c]
    BY <1>3
  <2>a. \A i \in 1..n : t[i] = painted[c][i]  BY <1>3, <1>4
  <2>2. IF n = 1 THEN cursor[c] <= t[1][2] + 1 ELSE cursor[c] = t[n][2] + 1
    <3>1. n \in 1..n /\ 1 \in 1..n  BY <1>3
    <3>2. t[n] = painted[c][n] /\ t[1] = painted[c][1]  BY <2>a, <3>1
    <3> QED  BY <1>4, <3>2 DEF Continues, Chunk
  <2>3. \A i \in 1..n : t[i] = painted[c][i] /\ (i # 1 => t[i - 1] = painted[c][i - 1])
    <3>1. ASSUME NEW i \in 1..n, i # 1 PROVE i - 1 \in 1..n  BY <1>3, <3>1
    <3> QED  BY <2>a, <3>1
  <2> HIDE DEF t
  <2>4. ASSUME NEW i \in 1..n
        PROVE  IF i = 1 THEN t[1][1] = "replay"
               ELSE /\ t[i][1] = "data"
                    /\ IF i = 2 THEN t[2][2] <= t[1][2] + 1
                                ELSE t[i][2] = t[i - 1][2] + 1
    <3>1. i \in 1..Len(painted[c])  BY <1>4
    <3>2. CASE i = 1  BY <1>3, <2>3, <3>1, <3>2 DEF NoGapFor, Kind
    <3>3. CASE i = 2
      <4>1. t[2] = painted[c][2] /\ t[1] = painted[c][1]
        <5>1. 1 \in 1..n /\ 2 \in 1..n  BY <1>3, <3>3
        <5> QED  BY <2>3, <5>1
      <4> QED  BY <3>1, <3>3, <4>1 DEF NoGapFor, Kind, Chunk
    <3>4. CASE i > 2
      <4>1. t[i] = painted[c][i] /\ t[i - 1] = painted[c][i - 1]  BY <1>3, <2>3, <3>4
      <4> QED  BY <1>3, <3>1, <3>4, <4>1 DEF NoGapFor, Kind, Chunk
    <3> QED  BY <1>3, <3>2, <3>3, <3>4
  <2>5. \A i \in 1..n + 1 :
          IF i = 1 THEN t[1][1] = "replay"
          ELSE /\ t[i][1] = "data"
               /\ IF i = 2 THEN t[2][2] <= t[1][2] + 1
                           ELSE t[i][2] = t[i - 1][2] + 1
    <3> SUFFICES ASSUME NEW i \in 1..n + 1
                 PROVE  IF i = 1 THEN t[1][1] = "replay"
                        ELSE /\ t[i][1] = "data"
                             /\ IF i = 2 THEN t[2][2] <= t[1][2] + 1
                                         ELSE t[i][2] = t[i - 1][2] + 1
      OBVIOUS
    <3>1. CASE i \in 1..n  BY <2>4, <3>1
    <3>2. CASE i = n + 1  BY <1>3, <2>1, <2>2, <3>2
    <3> QED  BY <1>3, <3>1, <3>2
  <2> QED  BY <1>3, <2>5 DEF NoGapFor, Kind, Chunk, t
<1>6. painted' \in [Tasks -> Seq({"replay", "data"} \X Nat)]
  BY <1>3 DEF PaintData, StreamTypes
<1> QED  BY <1>3, <1>5, <1>6

\* The mirror and the broadcast only grow.
LEMMA OutputGrows ==
    ASSUME SessionInv, [Next]_sessionVars
    PROVE  sent <= sent' /\ fed <= fed' /\ sent \in Nat /\ fed \in Nat
<1>1. sent \in Nat /\ fed \in Nat  BY ChunkBound DEF SessionInv, TypeOK
<1> USE <1>1 DEF outputVars
<1>2. CASE Read  BY <1>2 DEF Read
<1>3. CASE Send  BY <1>3 DEF Send
<1>4. CASE Look  BY <1>4 DEF Look
<1>5. CASE Poll  BY <1>5 DEF Poll
<1>6. CASE ReadNothing  BY <1>6 DEF ReadNothing
<1>7. CASE WriteInput \/ WriteNothing \/ Reap \/ TellGone
  BY <1>7 DEF WriteInput, WriteNothing, Reap, TellGone
<1>8. CASE Paint \/ HangUp \/ Kill  BY <1>8 DEF Paint, HangUp, Kill
<1>9. ASSUME NEW t \in Tasks, Write(t) \/ ResizeMirror(t) PROVE UNCHANGED <<sent, fed>>
  BY <1>9 DEF Write, ResizeMirror
<1>10. ASSUME NEW t \in Tasks, NEW s \in Sizes, ResizePty(t, s) PROVE UNCHANGED <<sent, fed>>
  BY <1>10 DEF ResizePty
<1>11. CASE UNCHANGED sessionVars  BY <1>11 DEF sessionVars
<1> QED
  BY <1>2, <1>3, <1>4, <1>5, <1>6, <1>7, <1>8, <1>9, <1>10, <1>11 DEF Next, Thread

\* The stations at which the frame in hand, or the next one, matters.
Streaming == {"greeting", "resyncing", "loop", "select", "opening", "drain", "chunk", "draining"}

\* A step that leaves the streams alone and brings no connection to a
\* streaming station.
LEMMA QuietStepKeepsStream ==
    ASSUME SessionInv, StreamInv, [Next]_sessionVars, UNCHANGED <<cursor, snap, painted>>,
           pc' \in [Tasks -> Stations], here' \in [Tasks -> BOOLEAN],
           \A c \in Tasks :
             pc'[c] \in Streaming => pc'[c] = pc[c] /\ (here'[c] => here[c])
    PROVE  StreamInv'
<1>1. sent <= sent' /\ fed <= fed' /\ sent \in Nat /\ fed \in Nat
  BY OutputGrows
<1>2. sent' \in Nat /\ fed' \in Nat
  BY SessionStepKeepsInv, ChunkBound DEF SessionInv, TypeOK
<1>3. StreamTypes'  BY DEF StreamInv, StreamTypes
<1>4. NoGap'  BY DEF StreamInv, NoGap, Kind, Chunk
<1>5. ASSUME NEW c \in Tasks PROVE ReaderInv(c)'
  BY <1>1, <1>2 DEF StreamInv, StreamTypes, ReaderInv, Continues, Chunk, Streaming
<1> QED  BY <1>3, <1>4, <1>5 DEF StreamInv

\* Where the streams stand after a step of one connection c, the others being
\* left as they were.
LEMMA ReaderStepKeepsStream ==
    ASSUME SessionInv, StreamInv, NEW c \in Tasks, UNCHANGED <<sent, fed, here>>,
           StreamTypes', NoGapFor(c)', ReaderInv(c)',
           \A d \in Tasks \ {c} :
             pc'[d] = pc[d] /\ cursor'[d] = cursor[d] /\ snap'[d] = snap[d] /\ painted'[d] = painted[d]
    PROVE  StreamInv'
<1>1. ASSUME NEW d \in Tasks PROVE ReaderInv(d)'
  <2>1. CASE d = c  BY <2>1
  <2>2. CASE d # c  BY <2>2 DEF StreamInv, ReaderInv, Continues, Chunk
  <2> QED  BY <2>1, <2>2
<1>2. ASSUME NEW d \in Tasks PROVE NoGapFor(d)'
  <2>1. CASE d = c  BY <2>1
  <2>2. CASE d # c  BY <2>2 DEF StreamInv, NoGap, NoGapFor, Kind, Chunk
  <2> QED  BY <2>1, <2>2
<1>3. NoGap'  BY <1>2 DEF NoGap, NoGapFor
<1> QED  BY <1>1, <1>3 DEF StreamInv

\* The steps of an attached connection that hand it frames.
LEMMA AttachStepKeepsStream ==
    ASSUME SessionInv, Places, StreamInv, NEW c \in Tasks, Attach(c), [Next]_sessionVars
    PROVE  StreamInv'
<1> USE DEF StreamTypes, Stations, Served, Attached
<1>1. /\ StreamTypes /\ NoGapFor(c) /\ ReaderInv(c)
      /\ sent \in Nat /\ fed \in Nat /\ sent <= fed /\ Backlog \in Nat
  BY ChunkBound, BacklogHasRoom
     DEF StreamInv, SessionInv, TypeOK, MirrorLeads, NoGap, NoGapFor
<1> USE <1>1 DEF Goto, sessionVars, outputVars, ReaderInv
<1>2. CASE Subscribe(c)
  <2>1. StreamTypes' /\ NoGapFor(c)' /\ ReaderInv(c)'
    BY <1>2 DEF Subscribe, NoGapFor, Kind, Chunk
  <2> QED  BY <1>2, <2>1, ReaderStepKeepsStream DEF Subscribe
<1>3. CASE TakeReplay(c)
  <2>1. cursor[c] <= fed  OBVIOUS
  <2>2. StreamTypes' /\ NoGapFor(c)' /\ ReaderInv(c)'
    BY <1>3, <2>1 DEF TakeReplay, NoGapFor, Kind, Chunk
  <2> QED  BY <1>3, <2>2, ReaderStepKeepsStream DEF TakeReplay
<1>4. CASE PaintReplay(c)
  <2>1. painted' = [painted EXCEPT ![c] = << <<"replay", snap[c]>> >>]
    BY <1>4 DEF PaintReplay
  <2>2. /\ painted'[c] # <<>> /\ Len(painted'[c]) = 1 /\ painted'[c][1][2] = snap[c]
        /\ NoGapFor(c)'
        /\ painted' \in [Tasks -> Seq({"replay", "data"} \X Nat)]
    BY <2>1, ReplayLeavesNoGap
  <2>3. StreamTypes'  BY <1>4, <2>2 DEF PaintReplay
  <2>4. ReaderInv(c)'  BY <1>4, <2>2 DEF PaintReplay, Continues, Chunk
  <2>5. \A d \in Tasks \ {c} : painted'[d] = painted[d]  BY <2>1
  <2> QED  BY <1>4, <2>2, <2>3, <2>4, <2>5, ReaderStepKeepsStream DEF PaintReplay
<1>5. CASE Loop(c) \/ SelectGone(c)
  <2>1. StreamTypes'  BY <1>5 DEF Loop, SelectGone, streamVars
  <2>2. NoGapFor(c)'
    BY <1>5 DEF Loop, SelectGone, NoGapFor, Kind, Chunk, streamVars
  <2>3. ReaderInv(c)'
    BY <1>5 DEF Loop, SelectGone, Chunk, Continues, streamVars
  <2> QED  BY <1>5, <2>1, <2>2, <2>3, ReaderStepKeepsStream DEF Loop, SelectGone, streamVars
<1>6. CASE SelectOutput(c)
  <2>1. StreamTypes'
    BY <1>6 DEF SelectOutput, Receive, Ready, Lagged
  <2>2. NoGapFor(c)'
    BY <1>6 DEF SelectOutput, NoGapFor, Kind, Chunk
  <2>3. ReaderInv(c)'
    BY <1>6 DEF SelectOutput, Receive, Ready, Lagged, Chunk, Continues
  <2> QED  BY <1>6, <2>1, <2>2, <2>3, ReaderStepKeepsStream DEF SelectOutput, Receive
<1>7. CASE PaintChunk(c) \/ PaintLast(c)
  <2>1. Continues(c, cursor[c]) /\ PaintData(c)  BY <1>7 DEF PaintChunk, PaintLast
  <2>2. /\ painted'[c] # <<>> /\ Len(painted'[c]) # 1
        /\ painted'[c][Len(painted'[c])][2] = cursor[c]
        /\ NoGapFor(c)'
        /\ painted' \in [Tasks -> Seq({"replay", "data"} \X Nat)]
    BY <2>1, ChunkLeavesNoGap
  <2>3. StreamTypes'  BY <1>7, <2>2 DEF PaintChunk, PaintLast
  <2>4. ReaderInv(c)'  BY <1>7, <2>2 DEF PaintChunk, PaintLast, Continues, Chunk
  <2>5. \A d \in Tasks \ {c} : painted'[d] = painted[d]  BY <2>1 DEF PaintData
  <2> QED  BY <1>7, <2>2, <2>3, <2>4, <2>5, ReaderStepKeepsStream DEF PaintChunk, PaintLast
<1>8. CASE ReportOpen(c)
  <2>1. StreamTypes' /\ NoGapFor(c)' /\ ReaderInv(c)'
    BY <1>8 DEF ReportOpen, NoGapFor, Kind, Chunk, Continues
  <2> QED  BY <1>8, <2>1, ReaderStepKeepsStream DEF ReportOpen
<1>9. CASE Drain(c)
  <2>1. cursor' \in [Tasks -> Nat] /\ cursor'[c] <= sent
    <3>1. CASE ~Ready(c)  BY <1>9, <3>1 DEF Drain
    <3>2. CASE Ready(c) /\ Lagged(c)
      <4>1. sent - Backlog \in Nat /\ sent - Backlog <= sent
        BY <3>2, <1>1 DEF Lagged
      <4> QED  BY <1>9, <3>2, <4>1 DEF Drain, Receive
    <3>3. CASE Ready(c) /\ ~Lagged(c)  BY <1>9, <3>3 DEF Drain, Receive, Ready
    <3> QED  BY <3>1, <3>2, <3>3
  <2>2. pc' \in [Tasks -> Stations] /\ pc'[c] \in {"over", "draining"}
    BY <1>9 DEF Drain
  <2>3. here[c] /\ pc'[c] = "draining" => cursor'[c] = cursor[c] + 1 /\ Continues(c, cursor[c] + 1)
    BY <1>9 DEF Drain, Receive
  <2>4. UNCHANGED <<here, snap, painted, sent, fed>>  BY <1>9 DEF Drain
  <2>5. StreamTypes' /\ NoGapFor(c)' /\ ReaderInv(c)'
    BY <2>1, <2>2, <2>3, <2>4 DEF NoGapFor, Kind, Chunk, Continues
  <2> QED  BY <1>9, <2>5, ReaderStepKeepsStream DEF Drain, Receive
<1>10. CASE Over(c) \/ SayExit(c) \/ SayClose(c) \/ AbortInbound(c)
  <2>1. StreamTypes'
    BY <1>10 DEF Over, SayExit, SayClose, AbortInbound, streamVars
  <2>2. NoGapFor(c)'
    BY <1>10 DEF Over, SayExit, SayClose, AbortInbound, NoGapFor, Kind, Chunk, streamVars
  <2>3. ReaderInv(c)'
    BY <1>10 DEF Over, SayExit, SayClose, AbortInbound, Chunk, streamVars
  <2> QED
    BY <1>10, <2>1, <2>2, <2>3, ReaderStepKeepsStream DEF Over, SayExit, SayClose, AbortInbound, streamVars
<1>11. CASE WriteFails(c)
  <2>1. ~here'[c] /\ UNCHANGED <<cursor, snap, painted, here, sent, fed>>
    BY <1>11 DEF WriteFails, streamVars
  <2>2. pc' \in [Tasks -> Stations] /\ pc'[c] \notin {"greeting", "resyncing"}
    BY <1>11 DEF WriteFails
  <2>3. StreamTypes' /\ NoGapFor(c)' /\ ReaderInv(c)'
    BY <2>1, <2>2 DEF NoGapFor, Kind, Chunk
  <2> QED  BY <1>11, <2>3, ReaderStepKeepsStream DEF WriteFails, streamVars
<1> QED
  BY <1>2, <1>3, <1>4, <1>5, <1>6, <1>7, <1>8, <1>9, <1>10, <1>11 DEF Attach

\* The steps of every other part of the keeper leave what clients were shown
\* alone.
LEMMA KeeperStepKeepsStream ==
    SessionInv /\ Places /\ StreamInv /\ [KNext]_vars => StreamInv'
<1> SUFFICES ASSUME SessionInv, Places, StreamInv, [KNext]_vars PROVE StreamInv'
  OBVIOUS
<1>a. [Next]_sessionVars  BY KeeperStepIsSessionStep
<1>b. pc \in [Tasks -> Stations] /\ here \in [Tasks -> BOOLEAN]
  BY DEF StreamInv, StreamTypes
<1>c. pc' \in [Tasks -> Stations]  BY KeeperStepKeepsPlaces DEF Places
<1>d. ASSUME UNCHANGED <<cursor, snap, painted>>, here' \in [Tasks -> BOOLEAN],
             \A c \in Tasks : pc'[c] \in Streaming => pc'[c] = pc[c] /\ (here'[c] => here[c])
      PROVE  StreamInv'
  BY <1>a, <1>c, <1>d, QuietStepKeepsStream
<1>1. CASE UNCHANGED <<pc, here, cursor, snap, painted>>
  BY <1>1, <1>b, <1>d
<1>2. CASE SessionStep \/ Listen \/ Begin \/ NoticeGone
  BY <1>1, <1>2 DEF SessionStep, Listen, Begin, NoticeGone, connVars, streamVars
<1>3. CASE Expire
  <2>1. \A c \in Tasks : pc'[c] \in Streaming => pc'[c] = pc[c]
    BY <1>3, <1>b DEF Expire, Streaming
  <2> QED  BY <1>3, <1>b, <1>d, <2>1 DEF Expire, streamVars
<1>4. ASSUME NEW c \in Tasks, Connect(c) PROVE StreamInv'
  <2>1. pc[c] = "off" /\ pc'[c] \in {"refused", "calling"}
    BY <1>4, <1>b DEF Connect, Goto
  <2>2. \A d \in Tasks \ {c} : pc'[d] = pc[d] /\ here'[d] = here[d]
    BY <1>4, <1>b DEF Connect, Goto
  <2>3. here' \in [Tasks -> BOOLEAN]  BY <1>4, <1>b DEF Connect
  <2>4. \A d \in Tasks : pc'[d] \in Streaming => pc'[d] = pc[d] /\ (here'[d] => here[d])
    BY <2>1, <2>2 DEF Streaming
  <2> QED  BY <1>4, <1>d, <2>3, <2>4 DEF Connect, streamVars
<1>5. ASSUME NEW c \in Tasks, Leave(c) PROVE StreamInv'
  BY <1>5, <1>b, <1>d DEF Leave, streamVars
<1>6. ASSUME NEW c \in Tasks, NEW st \in Stations \ Streaming, Goto(c, st),
             UNCHANGED <<here, cursor, snap, painted>>
      PROVE  StreamInv'
  <2>1. \A d \in Tasks : pc'[d] \in Streaming => pc'[d] = pc[d]
    BY <1>6, <1>b DEF Goto
  <2> QED  BY <1>6, <1>b, <1>d, <2>1
<1>7. ASSUME NEW c \in Tasks, Admit(c) \/ Finish(c) PROVE StreamInv'
  BY <1>6, <1>7 DEF Admit, Finish, Stations, Served, Attached, Streaming, streamVars
<1>8. ASSUME NEW c \in Tasks,
             Describe(c) \/ ServeKill(c) \/ NeverAsked(c) \/ Watch(c) \/ TellEnded(c)
      PROVE  StreamInv'
  BY <1>6, <1>8
     DEF Describe, ServeKill, NeverAsked, Watch, TellEnded, Stations, Served, Attached,
         Streaming, streamVars
<1>9. ASSUME NEW c \in Tasks, TellTitle(c) PROVE StreamInv'
  BY <1>1, <1>6, <1>9 DEF TellTitle, Stations, Served, Attached, Streaming, streamVars
<1>10. ASSUME NEW c \in Tasks, Attach(c) PROVE StreamInv'
  BY <1>a, <1>10, AttachStepKeepsStream
<1>11. ASSUME NEW c \in Tasks, NEW s \in Sizes, AttachSize(c, s) PROVE StreamInv'
  BY <1>1, <1>11 DEF AttachSize, connVars, streamVars
<1>12. ASSUME NEW c \in Tasks, Inbound(c) PROVE StreamInv'
  BY <1>1, <1>12 DEF Inbound, Type, FinishSize, InboundEnds, AskSize, connVars, streamVars
<1>13. CASE UNCHANGED vars  BY <1>1, <1>13 DEF vars, connVars, streamVars
<1> QED
  BY <1>2, <1>3, <1>4, <1>5, <1>7, <1>8, <1>9, <1>10, <1>11, <1>12, <1>13 DEF KNext, Serve

-----------------------------------------------------------------------------
(* The invariant of a keeper, and what it promises. *)

KeeperInv == SessionInv /\ Places /\ Endings /\ StreamInv

\* A keeper starts in its invariant.
LEMMA KeeperStarts == KInit => KeeperInv
<1> SUFFICES ASSUME KInit PROVE KeeperInv  OBVIOUS
<1> USE DEF KInit
<1>1. SessionInv  BY SessionInit
<1>2. Places
  <2>1. Serving = {}  BY DEF Serving, Served, Attached
  <2> QED  BY <2>1, FS_EmptySet DEF Places, Stations
<1>3. Endings  BY DEF Endings, Feeding, Init
<1>4. StreamInv
  <2>1. <<>> \in Seq({"replay", "data"} \X Nat)  OBVIOUS
  <2>2. StreamTypes  BY <2>1 DEF StreamTypes, Stations
  <2>3. \A c \in Tasks : painted[c] = <<>> /\ pc[c] = "off" /\ cursor[c] = 0 /\ snap[c] = 0
    OBVIOUS
  <2>4. sent = 0 /\ fed = 0  BY DEF Init
  <2>5. NoGap  BY <2>3 DEF NoGap
  <2>6. ASSUME NEW c \in Tasks PROVE ReaderInv(c)
    <3>1. pc[c] = "off" /\ cursor[c] = 0 /\ snap[c] = 0  BY <2>3
    <3> QED  BY <2>4, <3>1 DEF ReaderInv
  <2> QED  BY <2>2, <2>5, <2>6 DEF StreamInv
<1> QED  BY <1>1, <1>2, <1>3, <1>4 DEF KeeperInv

\* Every step of a keeper keeps its invariant.
LEMMA KeeperStepKeepsInv == KeeperInv /\ [KNext]_vars => KeeperInv'
<1> QED
  BY KeeperStepIsSessionStep, SessionStepKeepsInv, KeeperStepKeepsPlaces,
     KeeperStepKeepsEndings, KeeperStepKeepsStream
  DEF KeeperInv

\* The three parts and the session's invariant hold throughout a keeper's life.
THEOREM KeeperKeepsInv == KSpec => []KeeperInv
<1> QED  BY KeeperStarts, KeeperStepKeepsInv, PTL DEF KSpec

\* No client is shown output with a hole in it, however far it fell behind.
THEOREM NobodyIsShownAGap == KSpec => []NoGap
<1>1. KeeperInv => NoGap  BY DEF KeeperInv, StreamInv
<1> QED  BY <1>1, KeeperKeepsInv, PTL

\* The keeper goes only after its child, and never on a connection it serves.
THEOREM NobodyIsCutOff == KSpec => []NoReaderCutOff
<1>1. KeeperInv => NoReaderCutOff  BY DEF KeeperInv, Endings, NoReaderCutOff
<1> QED  BY <1>1, KeeperKeepsInv, PTL

\* No connection is told of an end that has not come.
THEOREM ToldEndsAreTrue == KSpec => []EndIsTrue
<1>1. KeeperInv => EndIsTrue
  BY DEF KeeperInv, SessionInv, Phases, Endings, EndIsTrue
<1> QED  BY <1>1, KeeperKeepsInv, PTL

\* Only a connection that asked for it kills the session.
THEOREM LettingGoKillsNothing == KSpec => []KilledOnlyByAsking
<1>1. KeeperInv => KilledOnlyByAsking
  BY DEF KeeperInv, Endings, KilledOnlyByAsking
<1> QED  BY <1>1, KeeperKeepsInv, PTL

-----------------------------------------------------------------------------
(* What a client has seen when it is told the session is over. *)

Told(c) == Shown(c) = sent \/ cursor[c] = sent - Backlog

LastInv(c) ==
    /\ painted[c] # <<>> => Chunk(c, 1) <= fed
    /\ here[c] /\ pc[c] \in {"drain", "draining", "over"} => ~alive
    /\ here[c] /\ pc[c] \in {"over", "exiting"} => Told(c)
    /\ "exit" \in heard[c] => Told(c) /\ pc[c] \in {"closing", "stopping", "left", "gone"}

\* Once the child has gone, nothing more is fed or sent.
LEMMA OutputEnds ==
    SessionInv /\ [Next]_sessionVars /\ ~alive' => UNCHANGED <<sent, fed>>
<1> SUFFICES ASSUME SessionInv, [Next]_sessionVars, ~alive' PROVE UNCHANGED <<sent, fed>>
  OBVIOUS
<1>1. thread' = "done"
  BY SessionStepKeepsInv DEF SessionInv, Phases
<1> USE <1>1 DEF outputVars
<1>2. CASE Thread
  <2>1. CASE Read  BY <2>1 DEF Read
  <2>2. CASE Send  BY <2>2 DEF Send, AfterReading
  <2>3. CASE Look  BY <2>3 DEF Look
  <2>4. CASE Poll  BY <2>4 DEF Poll
  <2>5. CASE ReadNothing  BY <2>5 DEF ReadNothing
  <2>6. CASE WriteInput \/ WriteNothing \/ Reap \/ TellGone
    BY <2>6 DEF WriteInput, WriteNothing, Reap, TellGone
  <2> QED  BY <1>2, <2>1, <2>2, <2>3, <2>4, <2>5, <2>6 DEF Thread
<1>3. CASE ~Thread
  BY <1>3 DEF Next, Paint, HangUp, Kill, Write, ResizeMirror, ResizePty, sessionVars
<1> QED  BY <1>2, <1>3

\* A step that hands connection c no frame and no closing word.
LEMMA QuietStepKeepsLast ==
    ASSUME KeeperInv, NEW c \in Tasks, LastInv(c), [Next]_sessionVars,
           cursor'[c] = cursor[c], painted'[c] = painted[c],
           "exit" \in heard'[c] => "exit" \in heard[c],
           here'[c] /\ pc'[c] \in {"drain", "draining", "over", "exiting"}
             => here[c] /\ pc'[c] = pc[c],
           pc[c] \in {"closing", "stopping", "left", "gone"}
             => pc'[c] \in {"closing", "stopping", "left", "gone"}
    PROVE  LastInv(c)'
<1>1. ~alive' => UNCHANGED <<sent, fed>>
  BY OutputEnds DEF KeeperInv
<1>2. ~alive => ~alive'
  BY AliveOnlyFalls DEF KeeperInv
<1>3. fed <= fed' /\ fed \in Nat
  BY OutputGrows DEF KeeperInv
<1>4. painted[c] # <<>> => Chunk(c, 1) \in Nat
  <2>1. painted[c] \in Seq({"replay", "data"} \X Nat)
    BY DEF KeeperInv, StreamInv, StreamTypes
  <2> QED  BY <2>1 DEF Chunk
<1>5. ~alive => (Told(c) <=> Told(c)')
  BY <1>1, <1>2 DEF Told, Shown, Chunk
<1>6. fed' \in Nat
  BY SessionStepKeepsInv, ChunkBound DEF KeeperInv, SessionInv, TypeOK
<1>7. pc[c] = "exiting" \/ "exit" \in heard[c] => ~alive
  BY DEF KeeperInv, Endings
<1>8. painted'[c] # <<>> => Chunk(c, 1)' <= fed'
  <2>1. Chunk(c, 1)' = Chunk(c, 1)  BY DEF Chunk
  <2> QED  BY <1>3, <1>4, <1>6, <2>1 DEF LastInv
<1>9. here'[c] /\ pc'[c] \in {"drain", "draining", "over"} => ~alive'
  BY <1>2 DEF LastInv
<1>10. here'[c] /\ pc'[c] \in {"over", "exiting"} => Told(c)'
  BY <1>2, <1>5, <1>7 DEF LastInv
<1>11. "exit" \in heard'[c]
         => Told(c)' /\ pc'[c] \in {"closing", "stopping", "left", "gone"}
  BY <1>5, <1>7 DEF LastInv
<1> QED  BY <1>8, <1>9, <1>10, <1>11 DEF LastInv

\* The steps of the drain and of telling the end.
LEMMA DrainKeepsLast ==
    ASSUME KeeperInv, NEW c \in Tasks, LastInv(c), Drain(c), UNCHANGED sessionVars
    PROVE  LastInv(c)'
<1> USE DEF sessionVars, outputVars, lifeVars
<1>1. /\ sent \in Nat /\ fed \in Nat /\ cursor[c] \in Nat /\ Backlog \in Nat
      /\ cursor[c] <= sent /\ pc[c] = "drain" /\ "exit" \notin heard[c]
      /\ here[c] => ~alive /\ Continues(c, cursor[c] + 1) /\ Chunk(c, 1) <= fed
      /\ painted[c] \in Seq({"replay", "data"} \X Nat)
  BY ChunkBound, BacklogHasRoom
     DEF KeeperInv, StreamInv, StreamTypes, ReaderInv, SessionInv, TypeOK, Drain, LastInv, Continues
<1>2. /\ UNCHANGED <<sent, fed, alive, here, painted, heard>>
      /\ pc'[c] \in {"over", "draining"}
  BY <1>1 DEF Drain, Goto, Places, KeeperInv
<1>3. Chunk(c, 1)' = Chunk(c, 1)  BY <1>2 DEF Chunk
<1>4. here[c] /\ pc'[c] = "over" => Told(c)'
  <2> SUFFICES ASSUME here[c], pc'[c] = "over" PROVE Told(c)'  OBVIOUS
  <2>1. sent = fed  BY <1>1 DEF KeeperInv, SessionInv, Phases, MirrorLeads, TypeOK
  <2>2. CASE Ready(c)
    <3>1. Lagged(c)
      BY <1>1, <2>2 DEF Drain, Goto, Places, KeeperInv
    <3>2. cursor'[c] = sent - Backlog
      BY <2>2, <3>1 DEF Drain, Receive, KeeperInv, StreamInv, StreamTypes
    <3> QED  BY <1>2, <3>2 DEF Told
  <2>3. CASE ~Ready(c)
    <3>1. cursor[c] = sent  BY <1>1, <2>3 DEF Ready
    <3>2. /\ Len(painted[c]) \in Nat /\ Len(painted[c]) # 0
          /\ Chunk(c, 1) \in Nat /\ Chunk(c, Len(painted[c])) \in Nat
      BY <1>1 DEF Continues, Chunk
    <3>3. Shown(c) = sent
      <4> DEFINE first == Chunk(c, 1)
                 last == Chunk(c, Len(painted[c]))
      <4>1. Shown(c) = IF last > first THEN last ELSE first
        BY <1>1 DEF Shown, Continues
      <4>2. IF Len(painted[c]) = 1 THEN cursor[c] + 1 <= first + 1 /\ last = first
                                   ELSE cursor[c] + 1 = last + 1
        BY <1>1 DEF Continues
      <4>3. first <= fed /\ first \in Nat /\ last \in Nat  BY <1>1, <3>2
      <4> HIDE DEF first, last
      <4> QED  BY <1>1, <2>1, <3>1, <4>1, <4>2, <4>3
    <3>4. Shown(c)' = Shown(c)  BY <1>2 DEF Shown, Chunk
    <3> QED  BY <1>2, <3>3, <3>4 DEF Told
  <2> QED  BY <2>2, <2>3
<1> QED  BY <1>1, <1>2, <1>3, <1>4 DEF LastInv

\* Painting keeps what is known of the last output.
LEMMA PaintKeepsLast ==
    ASSUME KeeperInv, NEW c \in Tasks, LastInv(c),
           PaintReplay(c) \/ PaintChunk(c) \/ PaintLast(c), UNCHANGED sessionVars
    PROVE  LastInv(c)'
<1> USE DEF sessionVars, outputVars, lifeVars
<1>1. /\ "exit" \notin heard[c] /\ UNCHANGED <<heard, here, alive, sent, fed>>
      /\ pc'[c] \in {"loop", "opening"} \/ (pc[c] = "draining" /\ pc'[c] = "drain")
  BY DEF PaintReplay, PaintChunk, PaintLast, LastInv, Goto, KeeperInv, Places
<1>2. Chunk(c, 1)' <= fed
  <2>1. CASE PaintReplay(c)
    <3>1. painted'[c] = << <<"replay", snap[c]>> >>
      BY <2>1 DEF PaintReplay, KeeperInv, StreamInv, StreamTypes
    <3>2. snap[c] <= fed  BY DEF KeeperInv, StreamInv, ReaderInv
    <3> QED  BY <3>1, <3>2 DEF Chunk
  <2>2. CASE PaintChunk(c) \/ PaintLast(c)
    <3>1. painted[c] # <<>> /\ PaintData(c) /\ painted[c] \in Seq({"replay", "data"} \X Nat)
      BY <2>2 DEF PaintChunk, PaintLast, KeeperInv, StreamInv, StreamTypes, ReaderInv, Continues
    <3>2. painted'[c] = Append(painted[c], <<"data", cursor[c]>>)
      BY <3>1 DEF PaintData, KeeperInv, StreamInv, StreamTypes
    <3>3. Chunk(c, 1) <= fed  BY <3>1 DEF LastInv
    <3>4. painted'[c][1] = painted[c][1]  BY <3>1, <3>2
    <3> QED  BY <3>3, <3>4 DEF Chunk
  <2> QED  BY <2>1, <2>2
<1> QED  BY <1>1, <1>2 DEF LastInv

\* Every step of the keeper keeps every connection's last words true.
LEMMA KeeperStepKeepsLast ==
    KeeperInv /\ (\A c \in Tasks : LastInv(c)) /\ [KNext]_vars => \A c \in Tasks : LastInv(c)'
<1> SUFFICES ASSUME KeeperInv, [KNext]_vars, NEW c \in Tasks, LastInv(c)
             PROVE  LastInv(c)'
  OBVIOUS
<1>a. [Next]_sessionVars  BY KeeperStepIsSessionStep
<1>b. /\ pc \in [Tasks -> Stations] /\ here \in [Tasks -> BOOLEAN]
      /\ heard \in [Tasks -> SUBSET Words]
      /\ cursor \in [Tasks -> Nat] /\ painted \in [Tasks -> Seq({"replay", "data"} \X Nat)]
  BY DEF KeeperInv, StreamInv, StreamTypes, Endings
<1> DEFINE told == {"closing", "stopping", "left", "gone"}
           late == {"drain", "draining", "over", "exiting"}
<1>c. ASSUME cursor'[c] = cursor[c], painted'[c] = painted[c],
             "exit" \in heard'[c] => "exit" \in heard[c],
             here'[c] /\ pc'[c] \in late => here[c] /\ pc'[c] = pc[c],
             pc[c] \in told => pc'[c] \in told
      PROVE  LastInv(c)'
  BY <1>a, <1>c, QuietStepKeepsLast
<1>1. CASE UNCHANGED <<pc, here, cursor, painted, heard>>  BY <1>1, <1>c
<1>2. CASE SessionStep \/ Listen \/ Begin \/ NoticeGone
  BY <1>1, <1>2 DEF SessionStep, Listen, Begin, NoticeGone, connVars, streamVars
<1>3. CASE Expire
  <2>1. UNCHANGED <<here, cursor, painted, heard>>  BY <1>3 DEF Expire, streamVars
  <2>2. pc'[c] = pc[c] \/ (pc[c] = "calling" /\ pc'[c] = "refused")
    BY <1>3, <1>b DEF Expire
  <2> QED  BY <1>c, <2>1, <2>2
<1>4. ASSUME NEW d \in Tasks, Connect(d) \/ Admit(d) \/ Finish(d) \/ Leave(d) PROVE LastInv(c)'
  <2>1. UNCHANGED <<cursor, painted, heard>>
    BY <1>4 DEF Connect, Admit, Finish, Leave, streamVars
  <2>2. /\ here'[c] => here[c] \/ pc'[c] \notin late
        /\ pc'[c] \in late => pc'[c] = pc[c]
        /\ pc[c] \in told => pc'[c] \in told
    BY <1>4, <1>b DEF Connect, Admit, Finish, Leave, Goto
  <2> QED  BY <1>c, <2>1, <2>2
<1>5. ASSUME NEW d \in Tasks,
             Describe(d) \/ ServeKill(d) \/ NeverAsked(d) \/ Watch(d) \/ TellTitle(d) \/ TellEnded(d)
      PROVE  LastInv(c)'
  <2>1. UNCHANGED <<cursor, painted, here>>
    BY <1>5 DEF Describe, ServeKill, NeverAsked, Watch, TellTitle, TellEnded, streamVars
  <2>2. /\ pc'[c] \in late => pc'[c] = pc[c]
        /\ pc[c] \in told => pc'[c] \in told
    BY <1>5, <1>b DEF Describe, ServeKill, NeverAsked, Watch, TellTitle, TellEnded, Asked, Goto
  <2>3. "exit" \in heard'[c] => "exit" \in heard[c]
    <3>1. CASE Describe(d)  BY <1>b, <3>1 DEF Describe, Hear
    <3>2. CASE TellEnded(d)  BY <1>b, <3>2 DEF TellEnded
    <3>3. CASE ServeKill(d) \/ NeverAsked(d) \/ Watch(d) \/ TellTitle(d)
      BY <3>3 DEF ServeKill, NeverAsked, Watch, TellTitle
    <3> QED  BY <1>5, <3>1, <3>2, <3>3
  <2> QED  BY <1>c, <2>1, <2>2, <2>3
<1>6. ASSUME NEW d \in Tasks, Attach(d), d # c PROVE LastInv(c)'
  <2>1. /\ cursor'[c] = cursor[c] /\ painted'[c] = painted[c] /\ heard'[c] = heard[c]
        /\ pc'[c] = pc[c] /\ here' = here
    BY <1>6, <1>b
       DEF Attach, Subscribe, TakeReplay, PaintReplay, Loop, SelectOutput, SelectGone,
           PaintChunk, ReportOpen, Drain, PaintLast, Over, SayExit, SayClose, AbortInbound,
           WriteFails, Goto, Hear, Receive, PaintData, streamVars
  <2> QED  BY <1>c, <2>1
<1>7. CASE Attach(c)
  <2> USE DEF Goto, streamVars
  <2>1. CASE Subscribe(c)
    <3>1. pc[c] = "asking" /\ pc'[c] = "subscribed" /\ UNCHANGED <<painted, heard, sent, fed, here>>
      BY <1>b, <2>1 DEF Subscribe, Asked, sessionVars, outputVars
    <3>2. Chunk(c, 1)' = Chunk(c, 1)  BY <3>1 DEF Chunk
    <3> QED  BY <3>1, <3>2 DEF LastInv
  <2>2. CASE TakeReplay(c) \/ SelectGone(c) \/ ReportOpen(c) \/ AbortInbound(c)
    BY <1>b, <1>c, <2>2 DEF TakeReplay, SelectGone, ReportOpen, AbortInbound
  <2>3. CASE PaintReplay(c) \/ PaintChunk(c) \/ PaintLast(c)
    BY <2>3, PaintKeepsLast DEF PaintReplay, PaintChunk, PaintLast
  <2>4. CASE Loop(c)
    <3>1. /\ pc[c] = "loop" /\ pc'[c] = IF alive THEN "select" ELSE "drain"
          /\ UNCHANGED <<painted, heard, fed, here, alive>>
      BY <1>b, <2>4 DEF Loop, sessionVars, outputVars, lifeVars
    <3>2. Chunk(c, 1)' = Chunk(c, 1)  BY <3>1 DEF Chunk
    <3> QED  BY <3>1, <3>2 DEF LastInv
  <2>5. CASE SelectOutput(c)
    <3>1. /\ pc[c] = "select" /\ pc'[c] \in {"behind", "chunk"}
          /\ UNCHANGED <<painted, heard, fed, here, alive>>
      BY <1>b, <2>5 DEF SelectOutput, sessionVars, outputVars, lifeVars
    <3>2. Chunk(c, 1)' = Chunk(c, 1)  BY <3>1 DEF Chunk
    <3> QED  BY <3>1, <3>2 DEF LastInv
  <2>6. CASE Drain(c)  BY <2>6, DrainKeepsLast DEF Drain
  <2>7. CASE Over(c)
    <3>1. /\ pc[c] = "over" /\ pc'[c] = IF alive THEN "stopping" ELSE "exiting"
          /\ UNCHANGED <<painted, cursor, heard, fed, sent, here, alive>>
      BY <1>b, <2>7 DEF Over, sessionVars, outputVars, lifeVars
    <3>2. Chunk(c, 1)' = Chunk(c, 1) /\ (Told(c)' <=> Told(c))
      BY <3>1 DEF Told, Shown, Chunk
    <3> QED  BY <3>1, <3>2 DEF LastInv
  <2>8. CASE SayExit(c)
    <3>1. /\ pc[c] = "exiting" /\ here[c] /\ pc'[c] = "closing"
          /\ UNCHANGED <<painted, cursor, fed, sent, here, alive>>
      BY <1>b, <2>8 DEF SayExit, sessionVars, outputVars, lifeVars
    <3>2. Chunk(c, 1)' = Chunk(c, 1) /\ (Told(c)' <=> Told(c))
      BY <3>1 DEF Told, Shown, Chunk
    <3> QED  BY <3>1, <3>2 DEF LastInv
  <2>9. CASE SayClose(c)
    <3>1. "exit" \in heard'[c] => "exit" \in heard[c]
      BY <1>b, <2>9 DEF SayClose, Hear
    <3> QED  BY <1>b, <1>c, <2>9, <3>1 DEF SayClose
  <2>10. CASE WriteFails(c)
    <3>1. ~here'[c] /\ UNCHANGED <<cursor, painted, heard>> /\ (pc[c] \in told => pc'[c] \in told)
      BY <1>b, <2>10 DEF WriteFails
    <3> QED  BY <1>c, <3>1
  <2> QED
    BY <1>7, <2>1, <2>2, <2>3, <2>4, <2>5, <2>6, <2>7, <2>8, <2>9, <2>10 DEF Attach
<1>8. ASSUME NEW d \in Tasks, Inbound(d) \/ (\E s \in Sizes : AttachSize(d, s))
      PROVE  LastInv(c)'
  BY <1>1, <1>8
     DEF Inbound, Type, FinishSize, InboundEnds, AskSize, AttachSize, connVars, streamVars
<1>9. CASE UNCHANGED vars  BY <1>1, <1>9 DEF vars, connVars, streamVars
<1> QED
  BY <1>2, <1>3, <1>4, <1>5, <1>6, <1>7, <1>8, <1>9 DEF KNext, Serve

\* A client told of the end was shown all of the output, or was overrun by the
\* whole backlog while it was handed the last of it.
THEOREM LastWordsAreShown == KSpec => []LastWords
<1> DEFINE Inv == KeeperInv /\ \A c \in Tasks : LastInv(c)
<1>1. KInit => Inv
  <2>1. KInit => \A c \in Tasks : LastInv(c)
    BY DEF KInit, LastInv
  <2> QED  BY <2>1, KeeperStarts
<1>2. Inv /\ [KNext]_vars => Inv'
  BY KeeperStepKeepsInv, KeeperStepKeepsLast
<1>3. Inv => LastWords
  BY DEF LastInv, LastWords, Told
<1> QED  BY <1>1, <1>2, <1>3, PTL DEF KSpec

-----------------------------------------------------------------------------
(* The types.  A watcher's title is that of the last chunk that set one, if there *)
(* is a last one: what the numbers left over come down to ends somewhere.         *)

\* A set of chunk numbers has a last one.
LEMMA LastOf ==
    ASSUME NEW n \in Nat, NEW T \in SUBSET (0 .. n), T # {}
    PROVE  \E m \in T : \A k \in T : k <= m
<1> DEFINE back == {i \in Nat : n - i \in T}
<1>1. back \subseteq Nat /\ back # {}
  <2>1. PICK m \in T : TRUE  OBVIOUS
  <2>2. m \in 0 .. n /\ n - m \in Nat /\ n - (n - m) = m  OBVIOUS
  <2> QED  BY <2>2
<1>2. PICK i \in back : \A j \in back : ~ (<<j, i>> \in OpToRel(<, Nat))
  BY <1>1, WFMin, NatLessThanWellFounded
<1>3. \A j \in back : ~ (j < i)
  BY <1>1, <1>2 DEF OpToRel
<1>4. n - i \in T /\ i \in Nat  BY <1>2
<1>5. ASSUME NEW k \in T PROVE k <= n - i
  <2>1. k \in 0 .. n /\ n - k \in Nat /\ n - (n - k) = k  BY <1>5
  <2>2. n - k \in back  BY <2>1
  <2> QED  BY <1>3, <1>4, <2>1, <2>2
<1> QED  BY <1>4, <1>5

\* The title a watcher compares with is that of a chunk, or none.
LEMMA TitleIsSet == ASSUME NEW n \in Nat PROVE TitleAt(n) \in 0 .. n
<1> DEFINE set == {k \in Titled : k <= n}
<1>1. \A k \in set : k \in 0 .. n  BY ChunkKinds
<1>2. set \in SUBSET (0 .. n)  BY <1>1
<1> HIDE DEF set
<1>3. TitleAt(n) = IF set = {} THEN 0 ELSE CHOOSE k \in set : \A j \in set : j <= k
  BY DEF set, TitleAt
<1>4. CASE set = {}  BY <1>3, <1>4
<1>5. CASE set # {}
  <2>1. \E m \in set : \A k \in set : k <= m  BY <1>2, <1>5, LastOf
  <2>2. TitleAt(n) \in set  BY <1>3, <1>5, <2>1
  <2> QED  BY <1>2, <2>2
<1> QED  BY <1>4, <1>5

\* The types of what the other invariants do not bound.
Types ==
    /\ keeper \in {"starting", "listening", "serving", "gone"}
    /\ sawAlive \in BOOLEAN /\ deadline \in BOOLEAN
    /\ ask \in [Tasks -> Asks]
    /\ here \in [Tasks -> BOOLEAN] /\ inbound \in [Tasks -> {"off", "running", "aborted"}]
    /\ cursor \in [Tasks -> 0..MaxChunks] /\ snap \in [Tasks -> 0..MaxChunks]
    /\ painted \in [Tasks -> Seq(Frames)]
    /\ opened \in [Tasks -> Seq(0..MaxChunks)]
    /\ title \in [Tasks -> 0..MaxChunks]
    /\ heard \in [Tasks -> SUBSET Words]

\* The stream of one connection keeps its types.
LEMMA StreamStepKeepsTypes ==
    ASSUME KeeperInv, Types, NEW c \in Tasks, Attach(c) PROVE Types'
<1>1. /\ sent \in 0..MaxChunks /\ fed \in 0..MaxChunks /\ alive \in BOOLEAN
      /\ MaxChunks \in Nat /\ Backlog \in Nat
  BY BacklogHasRoom, ChunkBound DEF KeeperInv, SessionInv, TypeOK
<1>2. /\ cursor[c] \in 0..MaxChunks /\ snap[c] \in 0..MaxChunks
      /\ painted[c] \in Seq(Frames) /\ opened[c] \in Seq(0..MaxChunks)
      /\ heard[c] \in SUBSET Words
  BY DEF Types
<1> USE DEF Types
<1>3. CASE Receive(c) /\ Ready(c) /\ UNCHANGED <<runVars, ask, here, inbound, snap, painted, opened, title, heard>>
  <2>1. (IF Lagged(c) THEN sent - Backlog ELSE cursor[c] + 1) \in 0..MaxChunks
    BY <1>1, <1>2, <1>3 DEF Lagged, Ready
  <2> QED  BY <1>3, <2>1 DEF Receive, runVars
<1>4. CASE PaintData(c) /\ UNCHANGED <<runVars, ask, here, inbound, cursor, snap, opened, title, heard>>
  <2>1. <<"data", cursor[c]>> \in Frames  BY <1>2 DEF Frames
  <2>2. Append(painted[c], <<"data", cursor[c]>>) \in Seq(Frames)  BY <1>2, <2>1
  <2> QED  BY <1>4, <2>2 DEF PaintData, runVars
<1>5. ASSUME NEW word \in Words, Hear(c, word),
             UNCHANGED <<runVars, ask, here, inbound, streamVars, title>>
      PROVE  Types'
  BY <1>2, <1>5 DEF Hear, runVars, streamVars
<1>6. CASE UNCHANGED <<runVars, ask, here, inbound, streamVars, title, heard>>
  BY <1>6 DEF runVars, streamVars
<1>7. CASE Subscribe(c)  BY <1>1, <1>7 DEF Subscribe, runVars
<1>8. CASE TakeReplay(c)  BY <1>1, <1>8 DEF TakeReplay, runVars
<1>9. CASE PaintReplay(c)
  <2>1. << <<"replay", snap[c]>> >> \in Seq(Frames)  BY <1>2 DEF Frames
  <2> QED  BY <1>9, <2>1 DEF PaintReplay, runVars
<1>10. CASE ReportOpen(c)
  <2>1. Append(opened[c], cursor[c]) \in Seq(0..MaxChunks)  BY <1>2
  <2> QED  BY <1>10, <2>1 DEF ReportOpen, runVars
<1>11. CASE AbortInbound(c)  BY <1>11 DEF AbortInbound, runVars, streamVars
<1>12. CASE SelectOutput(c)  BY <1>3, <1>12 DEF SelectOutput
<1>13. CASE Drain(c)  BY <1>3, <1>6, <1>13 DEF Drain, streamVars
<1>14. CASE PaintChunk(c) \/ PaintLast(c)  BY <1>4, <1>14 DEF PaintChunk, PaintLast
<1>15. CASE SayExit(c) \/ SayClose(c)  BY <1>5, <1>15 DEF SayExit, SayClose, Words
<1>16. CASE Loop(c) \/ SelectGone(c) \/ Over(c) \/ WriteFails(c)
  BY <1>6, <1>16 DEF Loop, SelectGone, Over, WriteFails
<1> QED
  BY <1>7, <1>8, <1>9, <1>10, <1>11, <1>12, <1>13, <1>14, <1>15, <1>16 DEF Attach

\* Every step of a keeper keeps its types.
LEMMA StepKeepsTypes == KeeperInv /\ Types /\ [KNext]_vars => Types'
<1> SUFFICES ASSUME KeeperInv, Types, [KNext]_vars PROVE Types'  OBVIOUS
<1>1. /\ alive \in BOOLEAN /\ fed \in Nat /\ fed <= MaxChunks /\ MaxChunks \in Nat
  BY ChunkBound DEF KeeperInv, SessionInv, TypeOK
<1>2. TitleAt(fed) \in 0..MaxChunks  BY <1>1, TitleIsSet
<1>3. CASE UNCHANGED <<runVars, ask, here, inbound, streamVars, title, heard>>
  BY <1>3 DEF Types, runVars, streamVars
<1>4. CASE SessionStep \/ UNCHANGED vars
  BY <1>3, <1>4 DEF SessionStep, vars, connVars
<1>5. CASE Listen \/ Begin \/ NoticeGone \/ Expire
  BY <1>1, <1>5 DEF Listen, Begin, NoticeGone, Expire, Types, connVars, streamVars
<1>6. ASSUME NEW c \in Tasks, Connect(c) \/ Leave(c) PROVE Types'
  BY <1>6 DEF Connect, Leave, Types, runVars, streamVars
<1>7. ASSUME NEW c \in Tasks, Admit(c) \/ Finish(c) PROVE Types'
  BY <1>7 DEF Admit, Finish, Types, streamVars
<1>8. ASSUME NEW c \in Tasks, ServeKill(c) \/ NeverAsked(c) PROVE Types'
  BY <1>3, <1>8 DEF ServeKill, NeverAsked
<1>9. ASSUME NEW c \in Tasks, Describe(c) \/ TellEnded(c) PROVE Types'
  <2>1. /\ UNCHANGED <<runVars, ask, here, inbound, streamVars, title>>
        /\ \/ heard' = heard
           \/ \E word \in Words : heard' = [heard EXCEPT ![c] = heard[c] \cup {word}]
    BY SMTT(30), <1>9 DEF Describe, TellEnded, Hear, Words, Types
  <2>2. heard' \in [Tasks -> SUBSET Words]
    <3>1. heard \in [Tasks -> SUBSET Words]
      BY DEF Types
    <3>2. CASE heard' = heard
      BY <3>1, <3>2
    <3>3. ASSUME NEW word \in Words, heard' = [heard EXCEPT ![c] = heard[c] \cup {word}]
          PROVE  heard' \in [Tasks -> SUBSET Words]
      <4>1. heard[c] \cup {word} \in SUBSET Words
        BY <3>1
      <4> QED  BY <3>1, <3>3, <4>1
    <3> QED  BY <2>1, <3>2, <3>3
  <2> QED  BY <2>1, <2>2 DEF Types, runVars, streamVars
<1>10. ASSUME NEW c \in Tasks, Watch(c) \/ TellTitle(c) PROVE Types'
  BY <1>2, <1>10 DEF Watch, TellTitle, Types, runVars, streamVars
<1>11. ASSUME NEW c \in Tasks, Attach(c) PROVE Types'
  BY <1>11, StreamStepKeepsTypes
<1>12. ASSUME NEW c \in Tasks, Inbound(c) PROVE Types'
  BY <1>12 DEF Inbound, Type, FinishSize, AskSize, InboundEnds, Types, connVars, runVars, streamVars
<1>13. ASSUME NEW c \in Tasks, NEW s \in Sizes, AttachSize(c, s) PROVE Types'
  BY <1>3, <1>13 DEF AttachSize, connVars
<1> QED
  BY <1>4, <1>5, <1>6, <1>7, <1>8, <1>9, <1>10, <1>11, <1>12, <1>13 DEF KNext, Serve

\* Every variable of a keeper stays in its type: a receiver is moved to a chunk that
\* was sent, and what is painted, reported and told is of chunks the thread has read.
THEOREM KeeperKeepsTypes == KSpec => []KTypeOK
<1>1. KInit => Types
  <2> SUFFICES ASSUME KInit PROVE Types  OBVIOUS
  <2>1. 0 \in 0..MaxChunks  BY ChunkBound
  <2>2. <<>> \in Seq(Frames) /\ <<>> \in Seq(0..MaxChunks)  OBVIOUS
  <2> QED  BY <2>1, <2>2 DEF KInit, Types
<1>2. KeeperInv /\ Types => KTypeOK
  BY ServingIsFinite DEF KeeperInv, SessionInv, Places, Types, KTypeOK
<1> QED  BY <1>1, <1>2, StepKeepsTypes, KeeperKeepsInv, PTL DEF KSpec

-----------------------------------------------------------------------------
(* What the liveness properties of Keeper rest on. *)

\* A keeper that serves and whose child has gone has set its deadline or is
\* about to: an end that came before run() subscribed to it is found by the look
\* run() takes itself, and one that comes after by the watch (keeper.rs:175-204).
EndIsNoticed == keeper = "serving" /\ ~alive => deadline \/ sawAlive

\* Where a connection that stays is on its way out, and what run() has seen.
WaysOut ==
    /\ keeper \in {"starting", "listening", "serving"} /\ (alive \/ keeper = "starting")
         => sawAlive
    /\ EndIsNoticed
    /\ \A c \in Tasks :
         /\ pc[c] \in Attached => ask[c] = "attach"
         /\ pc[c] = "watching" => ask[c] = "watch"
         /\ here[c] /\ pc[c] \in {"drain", "draining", "over"} => ~alive
         /\ here[c] /\ pc[c] = "closing" => "exit" \in heard[c]
         /\ here[c] /\ pc[c] = "stopping" => {"exit", "close"} \subseteq heard[c]
    /\ NobodyIsLetGoUntold

\* Every step leaves whoever stays a way out on which it is told.
LEMMA KeeperStepKeepsWaysOut == KeeperInv /\ WaysOut /\ [KNext]_vars => WaysOut'
<1> SUFFICES ASSUME KeeperInv, WaysOut, [KNext]_vars PROVE WaysOut'
  OBVIOUS
<1>a. ~alive => ~alive'
  BY KeeperStepIsSessionStep, AliveOnlyFalls DEF KeeperInv
<1>b. /\ pc \in [Tasks -> Stations] /\ here \in [Tasks -> BOOLEAN]
      /\ heard \in [Tasks -> SUBSET Words] /\ alive \in BOOLEAN
  BY DEF KeeperInv, Places, Endings, StreamInv, StreamTypes, SessionInv, TypeOK
<1> USE <1>a, <1>b DEF WaysOut, EndIsNoticed, NobodyIsLetGoUntold, Answered
<1>0. CASE UNCHANGED <<runVars, pc, ask, here, heard>> /\ (shutdown => shutdown')
  BY <1>0 DEF runVars
<1>1. CASE SessionStep
  BY <1>0, <1>1, SessionStepShutsNothing DEF connVars
<1>2. CASE Listen \/ Begin \/ NoticeGone
  <2>1. /\ UNCHANGED <<pc, ask, here, heard, shutdown, alive>>
        /\ keeper' \in {"starting", "listening", "serving"} /\ (alive \/ keeper' = "starting")
             => sawAlive'
        /\ keeper' = "serving" /\ ~alive => deadline' \/ sawAlive'
    <3>1. UNCHANGED <<pc, ask, here, heard, shutdown, alive>>
      BY <1>2 DEF Listen, Begin, NoticeGone, connVars, sessionVars, lifeVars
    <3>2. CASE Listen
      BY <3>1, <3>2 DEF Listen
    <3>3. CASE Begin
      BY <3>1, <3>3 DEF Begin
    <3>4. CASE NoticeGone
      BY <3>1, <3>4 DEF NoticeGone
    <3> QED
      BY <1>2, <3>1, <3>2, <3>3, <3>4
  <2> QED
    BY <2>1
<1>3. CASE Expire
  BY <1>3 DEF Expire, sessionVars, lifeVars, Attached
<1>4. ASSUME NEW c \in Tasks, Connect(c) \/ Leave(c) PROVE WaysOut'
  <2>1. CASE Connect(c)
    BY <2>1 DEF Connect, Goto, runVars, sessionVars, lifeVars, Attached
  <2>2. CASE Leave(c)
    BY <2>2 DEF Leave, runVars, sessionVars, lifeVars
  <2> QED
    BY <1>4, <2>1, <2>2
<1>5. ASSUME NEW c \in Tasks, Admit(c) \/ Finish(c) PROVE WaysOut'
  BY <1>5 DEF Admit, Finish, Goto, sessionVars, lifeVars, Attached
<1>6. ASSUME NEW c \in Tasks, NEW s \in Sizes, AttachSize(c, s) PROVE WaysOut'
  BY <1>0, <1>6 DEF AttachSize, ResizePty, connVars, lifeVars
<1>7. ASSUME NEW c \in Tasks, Inbound(c) PROVE WaysOut'
  BY <1>0, <1>7
     DEF Inbound, Type, FinishSize, AskSize, InboundEnds, Write, ResizePty, ResizeMirror,
         connVars, lifeVars, sessionVars
<1>8. ASSUME NEW c \in Tasks, Describe(c) \/ ServeKill(c) \/ NeverAsked(c) PROVE WaysOut'
  <2> USE DEF Goto, Hear, Asked, runVars, sessionVars, lifeVars, Attached
  <2>1. CASE Describe(c)
    BY <2>1 DEF Describe
  <2>2. CASE ServeKill(c)
    BY <2>2 DEF ServeKill, Kill
  <2>3. CASE NeverAsked(c)
    BY <2>3 DEF NeverAsked
  <2> QED
    BY <1>8, <2>1, <2>2, <2>3
<1>9. ASSUME NEW c \in Tasks, Watch(c) \/ TellTitle(c) \/ TellEnded(c) PROVE WaysOut'
  <2> USE DEF Goto, Asked, runVars, sessionVars, lifeVars, Attached
  <2>1. CASE Watch(c)
    BY <2>1 DEF Watch
  <2>2. CASE TellTitle(c)
    BY <2>2 DEF TellTitle
  <2>3. CASE TellEnded(c)
    BY <2>3 DEF TellEnded
  <2> QED
    BY <1>9, <2>1, <2>2, <2>3
<1>10. ASSUME NEW c \in Tasks, Attach(c) PROVE WaysOut'
  <2>a. pc[c] \in Served /\ (pc[c] \in {"exiting", "closing"} => ~alive)
    BY <1>10
       DEF KeeperInv, Endings, Attach, Subscribe, Asked, TakeReplay, PaintReplay, Loop,
           SelectOutput, SelectGone, PaintChunk, ReportOpen, Drain, PaintLast, Over, SayExit,
           SayClose, AbortInbound, WriteFails, Served, Attached
  <2> USE <2>a DEF Goto, Hear, Asked, runVars, sessionVars, lifeVars, Attached
  <2>1. CASE Subscribe(c) \/ TakeReplay(c) \/ PaintReplay(c)
    BY <2>1 DEF Subscribe, TakeReplay, PaintReplay
  <2>2. CASE Loop(c) \/ SelectOutput(c) \/ SelectGone(c)
    BY <2>2 DEF Loop, SelectOutput, SelectGone
  <2>3. CASE PaintChunk(c) \/ ReportOpen(c)
    BY <2>3 DEF PaintChunk, ReportOpen
  <2>4. CASE Drain(c) \/ PaintLast(c) \/ Over(c)
    BY <2>4 DEF Drain, PaintLast, Over
  <2>5. CASE SayExit(c)
    BY <2>5 DEF SayExit
  <2>6. CASE SayClose(c)
    BY <2>6 DEF SayClose
  <2>7. CASE AbortInbound(c)
    BY <2>7 DEF AbortInbound
  <2>8. CASE WriteFails(c)
    BY <2>8 DEF WriteFails
  <2> QED
    BY <1>10, <2>1, <2>2, <2>3, <2>4, <2>5, <2>6, <2>7, <2>8 DEF Attach
<1>11. CASE UNCHANGED vars
  BY <1>0, <1>11 DEF vars, connVars, sessionVars, lifeVars
<1> QED
  BY <1>1, <1>2, <1>3, <1>4, <1>5, <1>6, <1>7, <1>8, <1>9, <1>10, <1>11 DEF KNext, Serve

\* The ways out are kept throughout a keeper's life.
THEOREM KeeperKeepsWaysOut == KSpec => []WaysOut
<1>1. KInit => WaysOut
  BY DEF KInit, WaysOut, EndIsNoticed, NobodyIsLetGoUntold, Attached
<1> QED  BY <1>1, KeeperStepKeepsWaysOut, KeeperKeepsInv, PTL DEF KSpec

\* Nobody who stays is let go before they were answered, and told of the end.
THEOREM EndIsToldBeforeLettingGo == KSpec => []NobodyIsLetGoUntold
<1>1. WaysOut => NobodyIsLetGoUntold
  BY DEF WaysOut
<1> QED  BY <1>1, KeeperKeepsWaysOut, PTL

\* No end of the child escapes a keeper, whenever it came.
THEOREM NoEndGoesUnnoticed == KSpec => []EndIsNoticed
<1>1. WaysOut => EndIsNoticed
  BY DEF WaysOut
<1> QED  BY <1>1, KeeperKeepsWaysOut, PTL

\* The thread of a keeper's session never sleeps on input or a kill either.
THEOREM KeeperLosesNoWake == KSpec => []NoWakeIsLost
<1> QED  BY KeeperImplementsSession, ThreadNeverSleepsOnWork, PTL
=============================================================================
