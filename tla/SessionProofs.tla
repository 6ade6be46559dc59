--------------------------- MODULE SessionProofs ---------------------------
(***************************************************************************)
(* Session keeps its types, its mirror ahead of its clients, its input in  *)
(* order and its exit last, for any number of tasks, chunks and            *)
(* keystrokes.                                                             *)
(***************************************************************************)
EXTENDS Session, SequenceTheorems, TLAPS

\* What the place the thread is in says about the rest of the session.  A
\* thread that writes was told of room for input that is still queued, and
\* one on its way out has read everything, unless a kill or a write to a pty
\* that hung up sent it there.
Phases ==
    /\ ~alive <=> thread = "done"
    /\ thread \in {"reaped", "done"} => pty = "hungup"
    /\ thread = "write" => writable
    /\ thread = "poll" /\ want => pending # <<>>
    /\ thread \in {"read", "send", "write"} /\ writable => pending # <<>>
    /\ thread \in {"reap", "reaped", "done"} /\ ~shutdown /\ pending = <<>>
         => printed = fed /\ pty = "hungup"

SessionInv == TypeOK /\ MirrorLeads /\ Phases /\ InputInOrder

\* Splitting a queue and joining the halves gives the queue back.
LEMMA SplitQueue ==
    ASSUME NEW S, NEW q \in Seq(S), NEW n \in 1..Len(q)
    PROVE  /\ SubSeq(q, 1, n) \in Seq(S)
           /\ SubSeq(q, n + 1, Len(q)) \in Seq(S)
           /\ SubSeq(q, 1, n) \o SubSeq(q, n + 1, Len(q)) = q
<1>1. Len(q) \in Nat /\ n \in Nat /\ \A i \in 1..Len(q) : q[i] \in S
  BY LenProperties, ElementOfSeq
<1>2. SubSeq(q, 1, n) \in Seq(S)
  BY <1>1, SubSeqProperties, 1 \in Int, n \in Int
<1>3. SubSeq(q, n + 1, Len(q)) \in Seq(S)
  BY <1>1, SubSeqProperties, n + 1 \in Int, Len(q) \in Int
<1>4. SubSeq(q, 1, n) \o SubSeq(q, n + 1, Len(q)) = SubSeq(q, 1, Len(q))
  BY <1>1, ConcatAdjacentSubSeq, 1 \in 1..Len(q) + 1, n \in 0..Len(q), Len(q) \in n..Len(q)
<1> QED  BY <1>2, <1>3, <1>4, SubSeqFull

\* The pty taking the first n keystrokes keeps them all, in order.
LEMMA AcceptKeepsOrder ==
    ASSUME TypeOK, InputInOrder, NEW n \in 1..Len(pending), Accept(n)
    PROVE  /\ accepted' \in Seq(Tasks) /\ pending' \in Seq(Tasks)
           /\ accepted' \o pending' = accepted \o pending
<1> DEFINE head == SubSeq(pending, 1, n)
           tail == SubSeq(pending, n + 1, Len(pending))
<1>1. accepted \in Seq(Tasks) /\ pending \in Seq(Tasks)
  BY DEF TypeOK
<1>2. head \in Seq(Tasks) /\ tail \in Seq(Tasks) /\ head \o tail = pending
  BY <1>1, SplitQueue
<1>3. accepted' = accepted \o head /\ pending' = tail
  BY DEF Accept
<1> HIDE DEF head, tail
<1>4. (accepted \o head) \o tail = accepted \o (head \o tail)
  <2>1. \A a, b, c \in Seq(Tasks) : (a \o b) \o c = a \o (b \o c)
    BY ConcatAssociative
  <2> QED  BY <1>1, <1>2, <2>1
<1>5. accepted \o head \in Seq(Tasks)
  BY <1>1, <1>2, ConcatProperties
<1> QED  BY <1>2, <1>3, <1>4, <1>5

\* A session starts in its invariant.
LEMMA SessionInit == Init => SessionInv
<1> SUFFICES ASSUME Init PROVE SessionInv  OBVIOUS
<1> USE DEF Init
<1>1. TypeOK
  <2>1. <<>> \in Seq(Tasks)  OBVIOUS
  <2>2. resizing \in [Tasks -> Sizes \cup {Settled}]  OBVIOUS
  <2>3. 0 \in 0..MaxChunks  BY ChunkBound
  <2>4. "top" \in ThreadAt  BY DEF ThreadAt
  <2> QED  BY <2>1, <2>2, <2>3, <2>4 DEF TypeOK
<1>2. MirrorLeads  BY DEF MirrorLeads
<1>3. Phases  BY DEF Phases
<1>4. InputInOrder  BY ConcatEmptySeq DEF InputInOrder
<1> QED  BY <1>1, <1>2, <1>3, <1>4 DEF SessionInv

\* Every step of the session keeps its invariant.
LEMMA SessionStepKeepsInv == SessionInv /\ [Next]_sessionVars => SessionInv'
<1> SUFFICES ASSUME SessionInv, [Next]_sessionVars PROVE SessionInv'
  OBVIOUS
<1> USE ChunkBound, SettledIsNoSize DEF SessionInv
<1> USE DEF outputVars, inputVars, sizeVars, lifeVars, threadVars
<1>1. CASE Paint
  <2>1. TypeOK'  BY <1>1 DEF Paint, TypeOK, MirrorLeads
  <2>2. MirrorLeads'  BY <1>1 DEF Paint, TypeOK, MirrorLeads
  <2>3. Phases'  BY <1>1 DEF Paint, TypeOK, Phases
  <2>4. InputInOrder'  BY <1>1 DEF Paint, InputInOrder
  <2> QED  BY <2>1, <2>2, <2>3, <2>4
<1>2. CASE HangUp
  <2>1. TypeOK' /\ MirrorLeads'  BY <1>2 DEF HangUp, TypeOK, MirrorLeads
  <2>2. Phases'  BY <1>2 DEF HangUp, TypeOK, Phases
  <2>3. InputInOrder'  BY <1>2 DEF HangUp, InputInOrder
  <2> QED  BY <2>1, <2>2, <2>3
<1>3. CASE Look
  <2>1. TypeOK' /\ MirrorLeads'  BY <1>3 DEF Look, TypeOK, MirrorLeads, ThreadAt
  <2>2. Phases'  BY <1>3 DEF Look, TypeOK, Phases
  <2>3. InputInOrder'  BY <1>3 DEF Look, InputInOrder
  <2> QED  BY <2>1, <2>2, <2>3
<1>4. CASE Poll
  <2>1. TypeOK' /\ MirrorLeads'
    BY <1>4 DEF Poll, TypeOK, MirrorLeads, ThreadAt, Readable
  <2>2. writable' => want
    BY <1>4 DEF Poll
  <2>3. /\ thread = "poll" /\ thread' \in {"read", "write", "top"}
        /\ thread' = "write" => writable'
        /\ UNCHANGED <<printed, fed, pty, alive, shutdown, pending, want>>
    BY <1>4 DEF Poll
  <2>4. Phases'  BY <2>2, <2>3 DEF TypeOK, Phases
  <2>5. InputInOrder'  BY <1>4 DEF Poll, InputInOrder
  <2> QED  BY <2>1, <2>4, <2>5
<1>5. CASE Read
  <2>1. TypeOK' /\ MirrorLeads'  BY <1>5 DEF Read, TypeOK, MirrorLeads, ThreadAt
  <2>2. Phases'  BY <1>5 DEF Read, TypeOK, Phases
  <2>3. InputInOrder'  BY <1>5 DEF Read, InputInOrder
  <2> QED  BY <2>1, <2>2, <2>3
<1>6. CASE ReadNothing
  <2>1. TypeOK' /\ MirrorLeads'
    BY <1>6 DEF ReadNothing, TypeOK, MirrorLeads, ThreadAt, AfterReading
  <2>2. Phases'  BY <1>6 DEF ReadNothing, TypeOK, Phases, AfterReading
  <2>3. InputInOrder'  BY <1>6 DEF ReadNothing, InputInOrder
  <2> QED  BY <2>1, <2>2, <2>3
<1>7. CASE Send
  <2>1. TypeOK' /\ MirrorLeads'
    BY <1>7 DEF Send, TypeOK, MirrorLeads, ThreadAt, AfterReading
  <2>2. Phases'  BY <1>7 DEF Send, TypeOK, Phases, AfterReading
  <2>3. InputInOrder'  BY <1>7 DEF Send, InputInOrder
  <2> QED  BY <2>1, <2>2, <2>3
<1>8. CASE WriteInput
  <2>1. PICK n \in 1..Len(pending) : Accept(n)  BY <1>8 DEF WriteInput
  <2>2. /\ accepted' \in Seq(Tasks) /\ pending' \in Seq(Tasks)
        /\ accepted' \o pending' = accepted \o pending
    BY <2>1, AcceptKeepsOrder
  <2>3. TypeOK' /\ MirrorLeads'
    BY <1>8, <2>2 DEF WriteInput, TypeOK, MirrorLeads, ThreadAt
  <2>4. Phases'  BY <1>8 DEF WriteInput, TypeOK, Phases
  <2>5. InputInOrder'  BY <1>8, <2>2 DEF WriteInput, InputInOrder
  <2> QED  BY <2>3, <2>4, <2>5
<1>9. CASE WriteNothing
  <2>1. TypeOK' /\ MirrorLeads'  BY <1>9 DEF WriteNothing, TypeOK, MirrorLeads, ThreadAt
  <2>2. Phases'  BY <1>9 DEF WriteNothing, TypeOK, Phases
  <2>3. InputInOrder'  BY <1>9 DEF WriteNothing, InputInOrder
  <2> QED  BY <2>1, <2>2, <2>3
<1>10. CASE Reap
  <2>1. TypeOK' /\ MirrorLeads'  BY <1>10 DEF Reap, TypeOK, MirrorLeads, ThreadAt
  <2>2. Phases'  BY <1>10 DEF Reap, TypeOK, Phases
  <2>3. InputInOrder'  BY <1>10 DEF Reap, InputInOrder
  <2> QED  BY <2>1, <2>2, <2>3
<1>11. CASE TellGone
  <2>1. TypeOK' /\ MirrorLeads'  BY <1>11 DEF TellGone, TypeOK, MirrorLeads, ThreadAt
  <2>2. Phases'  BY <1>11 DEF TellGone, TypeOK, Phases
  <2>3. InputInOrder'  BY <1>11 DEF TellGone, InputInOrder
  <2> QED  BY <2>1, <2>2, <2>3
<1>12. CASE Kill
  <2>1. TypeOK' /\ MirrorLeads'  BY <1>12 DEF Kill, TypeOK, MirrorLeads
  <2>2. Phases'  BY <1>12 DEF Kill, TypeOK, Phases
  <2>3. InputInOrder'  BY <1>12 DEF Kill, InputInOrder
  <2> QED  BY <2>1, <2>2, <2>3
<1>13. ASSUME NEW t \in Tasks, Write(t) PROVE SessionInv'
  <2>1. typed \in Seq(Tasks) /\ pending \in Seq(Tasks) /\ accepted \in Seq(Tasks)
    BY DEF TypeOK
  <2>2. /\ typed' = Append(typed, t) /\ typed' \in Seq(Tasks)
        /\ pending' = Append(pending, t) /\ pending' \in Seq(Tasks)
        /\ pending' # <<>>
    BY <1>13, <2>1, AppendProperties DEF Write
  <2>3. TypeOK' /\ MirrorLeads'  BY <1>13, <2>2 DEF Write, TypeOK, MirrorLeads
  <2>4. Phases'  BY <1>13, <2>2 DEF Write, TypeOK, Phases
  <2>5. InputInOrder'
    <3>1. <<t>> \in Seq(Tasks)  OBVIOUS
    <3>2. accepted \o (pending \o <<t>>) = (accepted \o pending) \o <<t>>
      BY <2>1, <3>1, ConcatAssociative
    <3>3. Append(pending, t) = pending \o <<t>> /\ Append(typed, t) = typed \o <<t>>
      BY <2>1, AppendIsConcat
    <3> QED  BY <1>13, <2>2, <3>2, <3>3 DEF Write, InputInOrder
  <2> QED  BY <2>3, <2>4, <2>5
<1>14. ASSUME NEW t \in Tasks, ResizeMirror(t) PROVE SessionInv'
  <2>1. TypeOK' /\ MirrorLeads'  BY <1>14 DEF ResizeMirror, TypeOK, MirrorLeads
  <2>2. Phases' /\ InputInOrder'  BY <1>14 DEF ResizeMirror, Phases, InputInOrder
  <2> QED  BY <2>1, <2>2
<1>15. ASSUME NEW t \in Tasks, NEW s \in Sizes, ResizePty(t, s) PROVE SessionInv'
  <2>1. TypeOK' /\ MirrorLeads'  BY <1>15 DEF ResizePty, TypeOK, MirrorLeads
  <2>2. Phases' /\ InputInOrder'  BY <1>15 DEF ResizePty, Phases, InputInOrder
  <2> QED  BY <2>1, <2>2
<1>16. CASE UNCHANGED sessionVars
  BY <1>16 DEF sessionVars, TypeOK, MirrorLeads, Phases, InputInOrder
<1> QED
  BY <1>1, <1>2, <1>3, <1>4, <1>5, <1>6, <1>7, <1>8, <1>9, <1>10, <1>11, <1>12,
     <1>13, <1>14, <1>15, <1>16
  DEF Next, Thread

\* The invariant holds throughout a session's life.
THEOREM SessionKeepsInv == Spec => []SessionInv
<1> QED  BY SessionInit, SessionStepKeepsInv, PTL DEF Spec

\* The session's variables keep their types.
THEOREM SessionTyped == Spec => []TypeOK
<1>1. SessionInv => TypeOK  BY DEF SessionInv
<1> QED  BY <1>1, SessionKeepsInv, PTL

\* The mirror is fed before clients are sent a chunk, and never lags them.
THEOREM MirrorAlwaysLeads == Spec => []MirrorLeads
<1>1. SessionInv => MirrorLeads  BY DEF SessionInv
<1> QED  BY <1>1, SessionKeepsInv, PTL

\* No keystroke is lost, repeated or reordered on its way to the pty.
THEOREM InputKeepsOrder == Spec => []InputInOrder
<1>1. SessionInv => InputInOrder  BY DEF SessionInv
<1> QED  BY <1>1, SessionKeepsInv, PTL

\* The exit is announced after the pty is closed and everything was sent.
THEOREM ExitIsLast == Spec => []GoneIsLast
<1>1. SessionInv => GoneIsLast
  BY DEF SessionInv, Phases, MirrorLeads, GoneIsLast, TypeOK
<1> QED  BY <1>1, SessionKeepsInv, PTL

\* With no input waiting, a child that ended by itself left nothing unread.
THEOREM IdleOutputIsFinal == Spec => []IdleFinalOutputMirrored
<1>1. SessionInv => IdleFinalOutputMirrored
  BY DEF SessionInv, Phases, MirrorLeads, IdleFinalOutputMirrored, TypeOK
<1> QED  BY <1>1, SessionKeepsInv, PTL

-----------------------------------------------------------------------------
(* What the two liveness properties of Session rest on. *)

\* A thread that waits in poll for what is already there does not wait: input
\* it did not ask room for, and a kill it did not see, have rung the waker
\* since it looked (session.rs:103-107, 189, 220-224).
NoWakeIsLost ==
    thread = "poll" => (pending # <<>> => want \/ woken) /\ (shutdown => woken)

\* Every step keeps the thread from sleeping on what is there.
LEMMA StepLosesNoWake == NoWakeIsLost /\ [Next]_sessionVars => NoWakeIsLost'
<1> SUFFICES ASSUME NoWakeIsLost, [Next]_sessionVars PROVE NoWakeIsLost'
  OBVIOUS
<1> USE DEF NoWakeIsLost, inputVars, lifeVars, threadVars
<1>1. CASE Paint \/ HangUp
  BY <1>1 DEF Paint, HangUp
<1>2. CASE Look
  BY <1>2 DEF Look
<1>3. CASE Poll
  BY <1>3 DEF Poll
<1>4. CASE Read \/ ReadNothing \/ Send \/ WriteInput \/ WriteNothing \/ Reap \/ TellGone
  BY <1>4 DEF Read, ReadNothing, Send, AfterReading, WriteInput, WriteNothing, Reap, TellGone
<1>5. CASE Kill
  BY <1>5 DEF Kill
<1>6. ASSUME NEW t \in Tasks, Write(t) \/ ResizeMirror(t) PROVE NoWakeIsLost'
  BY <1>6 DEF Write, ResizeMirror
<1>7. ASSUME NEW t \in Tasks, NEW s \in Sizes, ResizePty(t, s) PROVE NoWakeIsLost'
  BY <1>7 DEF ResizePty
<1>8. CASE UNCHANGED sessionVars
  BY <1>8 DEF sessionVars
<1> QED
  BY <1>1, <1>2, <1>3, <1>4, <1>5, <1>6, <1>7, <1>8 DEF Next, Thread

\* The thread never sleeps on input or a kill that came before it slept.
THEOREM ThreadNeverSleepsOnWork == Spec => []NoWakeIsLost
<1>1. Init => NoWakeIsLost
  BY DEF Init, NoWakeIsLost
<1> QED  BY <1>1, StepLosesNoWake, PTL DEF Spec

\* Nothing is mirrored, sent or fed to the child once the exit was announced,
\* and the child does not come back (session.rs:154-158).
QuietAfterExit == [][~alive => UNCHANGED <<fed, sent, accepted, alive>>]_sessionVars

\* A session that was announced to be over is over.
THEOREM ExitIsFinal == Spec => QuietAfterExit
<1>1. SessionInv /\ [Next]_sessionVars
        => [~alive => UNCHANGED <<fed, sent, accepted, alive>>]_sessionVars
  <2> SUFFICES ASSUME SessionInv, Next, ~alive
               PROVE  UNCHANGED <<fed, sent, accepted, alive>>
    OBVIOUS
  <2>1. thread = "done"
    BY DEF SessionInv, Phases
  <2> USE DEF outputVars, inputVars, lifeVars
  <2>2. ~Thread
    BY <2>1 DEF Thread, Look, Poll, Read, ReadNothing, Send, WriteInput, WriteNothing, Reap,
                TellGone
  <2>3. CASE Paint \/ HangUp \/ Kill
    BY <2>3 DEF Paint, HangUp, Kill
  <2>4. ASSUME NEW t \in Tasks, Write(t) \/ ResizeMirror(t)
        PROVE  UNCHANGED <<fed, sent, accepted, alive>>
    BY <2>4 DEF Write, ResizeMirror
  <2>5. ASSUME NEW t \in Tasks, NEW s \in Sizes, ResizePty(t, s)
        PROVE  UNCHANGED <<fed, sent, accepted, alive>>
    BY <2>5 DEF ResizePty
  <2> QED
    BY <2>2, <2>3, <2>4, <2>5 DEF Next
<1> QED  BY <1>1, SessionKeepsInv, PTL DEF Spec, QuietAfterExit
=============================================================================
