------------------------------ MODULE Session ------------------------------
(***************************************************************************)
(* One terminal session: the child behind its pty, the thread that drives  *)
(* the pty, the mirror of what the child painted, the broadcast that fans  *)
(* output out, and the queue of input the pty has not taken yet            *)
(* (devpipe/src/session.rs).                                               *)
(*                                                                         *)
(* A chunk of output is its number: the child's first read of output is    *)
(* chunk 1.  The mirror has been fed chunks 1..fed and the broadcast has   *)
(* been sent chunks 1..sent.  A keystroke is the task that typed it.       *)
(***************************************************************************)
EXTENDS Naturals, Sequences

CONSTANTS Tasks,      \* the tasks of serve_one that write and resize
          Sizes,      \* the window sizes clients ask for
          FirstSize,  \* the size the session is spawned with
          Settled,    \* no resize is half done
          MaxChunks,  \* bound: chunks the child prints in its life
          MaxInput    \* bound: keystrokes typed in the session's life

ASSUME ChunkBound == MaxChunks \in Nat
ASSUME InputBound == MaxInput \in Nat
ASSUME SettledIsNoSize == Settled \notin Sizes

VARIABLES printed,   \* chunks the child has written to its side of the pty
          pty,       \* "open", or "hungup" once nothing holds the child's side
          thread,    \* where the pty thread is
          want,      \* want_write, read from the queue before the poll
          writable,  \* ready.writable, as the poll returned it
          woken,     \* the waker rang and no poll has taken it
          fed,       \* chunks in the mirror
          sent,      \* chunks in the broadcast
          alive,     \* the watch clients wait on
          shutdown,  \* the watch kill() sets
          typed,     \* history: every keystroke handed to write(), in order
          pending,   \* the queue of input the pty has not accepted
          accepted,  \* history: every keystroke the pty accepted, in order
          winsize,   \* the size the child sees
          mirrored,  \* the size the mirror draws at
          resizing   \* the size a task has given the pty and not the mirror

outputVars == <<printed, fed, sent>>
inputVars == <<typed, pending, accepted>>
sizeVars == <<winsize, mirrored, resizing>>
lifeVars == <<pty, alive, shutdown>>
threadVars == <<thread, want, writable, woken>>
sessionVars == <<outputVars, inputVars, sizeVars, lifeVars, threadVars>>

ThreadAt == {"top", "poll", "read", "send", "write", "reap", "reaped", "done"}

Init ==
    /\ printed = 0 /\ fed = 0 /\ sent = 0
    /\ pty = "open" /\ alive = TRUE /\ shutdown = FALSE
    /\ thread = "top" /\ want = FALSE /\ writable = FALSE /\ woken = FALSE
    /\ typed = <<>> /\ pending = <<>> /\ accepted = <<>>
    /\ winsize = FirstSize /\ mirrored = FirstSize
    /\ resizing = [t \in Tasks |-> Settled]

-----------------------------------------------------------------------------
(* The child. *)

Paint ==
    /\ pty = "open"
    /\ printed < MaxChunks
    /\ printed' = printed + 1
    /\ UNCHANGED <<fed, sent, inputVars, sizeVars, lifeVars, threadVars>>

\* The last process holding the child's side of the pty is gone.
HangUp ==
    /\ pty = "open"
    /\ pty' = "hungup"
    /\ UNCHANGED <<outputVars, inputVars, sizeVars, alive, shutdown, threadVars>>

-----------------------------------------------------------------------------
(* The pty thread. *)

Readable == printed > fed \/ pty = "hungup"

\* Fault: a pty that hung up ends the loop before what it still holds is read.
LookLeavesUnread ==
    /\ thread = "top"
    /\ IF shutdown \/ pty = "hungup"
         THEN thread' = "reap" /\ UNCHANGED want
         ELSE thread' = "poll" /\ want' = (pending # <<>>)
    /\ UNCHANGED <<outputVars, inputVars, sizeVars, lifeVars, writable, woken>>

\* The head of the loop: leave if shut down, else look at the queue.
Look ==
    /\ thread = "top"
    /\ IF shutdown
         THEN thread' = "reap" /\ UNCHANGED want
         ELSE thread' = "poll" /\ want' = (pending # <<>>)
    /\ UNCHANGED <<outputVars, inputVars, sizeVars, lifeVars, writable, woken>>

\* pump.wait returns: output is there, the waker rang, or the pty has room
\* for the input the poll asked about.  A ring is kept until a poll takes it.
Poll ==
    /\ thread = "poll"
    /\ \E room \in (IF want THEN BOOLEAN ELSE {FALSE}) :
         /\ Readable \/ woken \/ room
         /\ writable' = room
         /\ thread' = IF Readable THEN "read" ELSE IF room THEN "write" ELSE "top"
    /\ woken' = FALSE
    /\ UNCHANGED <<outputVars, inputVars, sizeVars, lifeVars, want>>

AfterReading == IF writable THEN "write" ELSE "top"

\* Fault: what is read goes to the clients and never to the mirror.
ReadSkipsMirror ==
    /\ thread = "read"
    /\ printed > fed
    /\ sent' = sent + 1
    /\ thread' \in {"read", AfterReading}
    /\ UNCHANGED <<printed, fed, inputVars, sizeVars, lifeVars, want, writable, woken>>

\* Fault: a read that would block is taken for a chunk.
ReadWithoutOutput ==
    /\ thread = "read"
    /\ fed' = fed + 1
    /\ thread' = "send"
    /\ UNCHANGED <<printed, sent, inputVars, sizeVars, lifeVars, want, writable, woken>>

\* One read of the drain loop; the mirror is fed before anybody is sent it.
Read ==
    /\ thread = "read"
    /\ printed > fed
    /\ fed' = fed + 1
    /\ thread' = "send"
    /\ UNCHANGED <<printed, sent, inputVars, sizeVars, lifeVars, want, writable, woken>>

ReadNothing ==
    /\ thread = "read"
    /\ printed = fed
    /\ thread' = IF pty = "hungup" THEN "reap" ELSE AfterReading
    /\ UNCHANGED <<outputVars, inputVars, sizeVars, lifeVars, want, writable, woken>>

\* A full buffer reads again, a short one ends the drain.
Send ==
    /\ thread = "send"
    /\ sent' = sent + 1
    /\ thread' \in {"read", AfterReading}
    /\ UNCHANGED <<printed, fed, inputVars, sizeVars, lifeVars, want, writable, woken>>

\* Fault: a partial write throws the rest of the queue away.
AcceptDropsRest(n) ==
    /\ accepted' = accepted \o SubSeq(pending, 1, n)
    /\ pending' = <<>>

\* The queue is held locked while the pty takes what it has room for.
Accept(n) ==
    /\ accepted' = accepted \o SubSeq(pending, 1, n)
    /\ pending' = SubSeq(pending, n + 1, Len(pending))

WriteInput ==
    /\ thread = "write"
    /\ pty = "open"
    /\ \E n \in 1..Len(pending) : Accept(n)
    /\ thread' = "top"
    /\ UNCHANGED <<typed, outputVars, sizeVars, lifeVars, want, writable, woken>>

\* The pty has no room after all; with nobody left on the child's side the
\* write is an error and the loop ends without reading again.
WriteNothing ==
    /\ thread = "write"
    /\ thread' = IF pty = "hungup" THEN "reap" ELSE "top"
    /\ UNCHANGED <<outputVars, inputVars, sizeVars, lifeVars, want, writable, woken>>

\* Fault: the exit is announced before the child is killed and waited for.
ReapTellsFirst ==
    /\ thread = "reap"
    /\ alive' = FALSE
    /\ thread' = "reaped"
    /\ UNCHANGED <<outputVars, inputVars, sizeVars, pty, shutdown, want, writable, woken>>

Reap ==
    /\ thread = "reap"
    /\ pty' = "hungup"
    /\ thread' = "reaped"
    /\ UNCHANGED <<outputVars, inputVars, sizeVars, alive, shutdown, want, writable, woken>>

\* Last, so nothing wakes on the exit and races the reap.
TellGone ==
    /\ thread = "reaped"
    /\ alive' = FALSE
    /\ thread' = "done"
    /\ UNCHANGED <<outputVars, inputVars, sizeVars, pty, shutdown, want, writable, woken>>

Thread ==
    \/ Look \/ Poll \/ Read \/ ReadNothing \/ Send
    \/ WriteInput \/ WriteNothing \/ Reap \/ TellGone

-----------------------------------------------------------------------------
(* What a task of the keeper calls. *)

\* Fault: the waker is not rung for what is typed.
WriteWithoutWaking(t) ==
    /\ Len(typed) < MaxInput
    /\ typed' = Append(typed, t)
    /\ pending' = Append(pending, t)
    /\ UNCHANGED <<accepted, outputVars, sizeVars, lifeVars, threadVars>>

\* write(): append, then ring the waker.
Write(t) ==
    /\ Len(typed) < MaxInput
    /\ typed' = Append(typed, t)
    /\ pending' = Append(pending, t)
    /\ woken' = TRUE
    /\ UNCHANGED <<accepted, outputVars, sizeVars, lifeVars, thread, want, writable>>

\* resize() takes no lock across its two halves: the pty first ...
ResizePty(t, s) ==
    /\ resizing[t] = Settled
    /\ winsize' = s
    /\ resizing' = [resizing EXCEPT ![t] = s]
    /\ UNCHANGED <<mirrored, outputVars, inputVars, lifeVars, threadVars>>

\* ... and the mirror after it.
ResizeMirror(t) ==
    /\ resizing[t] # Settled
    /\ mirrored' = resizing[t]
    /\ resizing' = [resizing EXCEPT ![t] = Settled]
    /\ UNCHANGED <<winsize, outputVars, inputVars, lifeVars, threadVars>>

\* Fault: the waker is not rung for a kill.
KillWithoutWaking ==
    /\ shutdown' = TRUE
    /\ pty' \in {pty, "hungup"}
    /\ UNCHANGED <<outputVars, inputVars, sizeVars, alive, threadVars>>

\* kill(): the flag, the signal, and the waker.
Kill ==
    /\ shutdown' = TRUE
    /\ pty' \in {pty, "hungup"}
    /\ woken' = TRUE
    /\ UNCHANGED <<outputVars, inputVars, sizeVars, alive, thread, want, writable>>

Next ==
    \/ Paint \/ HangUp \/ Thread \/ Kill
    \/ \E t \in Tasks : Write(t) \/ ResizeMirror(t)
    \/ \E t \in Tasks, s \in Sizes : ResizePty(t, s)

\* The thread is a running OS thread.  A child that reads its terminal takes
\* the input it is offered: without that, input stays queued by design.
Fairness ==
    /\ WF_sessionVars(Thread)
    /\ SF_sessionVars(Poll /\ writable')
    /\ SF_sessionVars(WriteInput)
    /\ \A t \in Tasks : WF_sessionVars(ResizeMirror(t))

Spec == Init /\ [][Next]_sessionVars
FairSpec == Spec /\ Fairness

-----------------------------------------------------------------------------
(* Properties. *)

TypeOK ==
    /\ printed \in 0..MaxChunks /\ fed \in 0..MaxChunks /\ sent \in 0..MaxChunks
    /\ pty \in {"open", "hungup"} /\ thread \in ThreadAt
    /\ want \in BOOLEAN /\ writable \in BOOLEAN /\ woken \in BOOLEAN
    /\ alive \in BOOLEAN /\ shutdown \in BOOLEAN
    /\ typed \in Seq(Tasks) /\ pending \in Seq(Tasks) /\ accepted \in Seq(Tasks)
    /\ winsize \in Sizes \cup {FirstSize} /\ mirrored \in Sizes \cup {FirstSize}
    /\ resizing \in [Tasks -> Sizes \cup {Settled}]

\* The mirror is never behind what clients were sent and at most one chunk
\* ahead of it: a client that subscribes and then takes the mirror misses
\* nothing (session.rs:116-124, the order keeper.rs:276-278 relies on).
MirrorLeads ==
    /\ sent <= fed /\ fed <= printed
    /\ fed = sent + (IF thread = "send" THEN 1 ELSE 0)

\* The exit is announced last: once the watch says the child has gone, the
\* pty is closed, nothing more is fed or sent, and everything mirrored was
\* sent (session.rs:154-158).
GoneIsLast == ~alive => thread = "done" /\ pty = "hungup" /\ sent = fed

\* Nothing typed is lost, repeated or reordered on its way to the pty, across
\* partial writes and several typing clients (session.rs:135-152, 182-190).
InputInOrder == accepted \o pending = typed

\* A child that ended by itself with no input waiting has every chunk it
\* printed mirrored and sent before its exit is announced: the drain reads to
\* the end of the pty before the thread gives up (session.rs:111-133).  With
\* input waiting, a write to the closed pty can end the loop first.
IdleFinalOutputMirrored ==
    (~alive /\ ~shutdown /\ pending = <<>>) => sent = printed

\* A keystroke reaches the pty, or the session is over: the thread never
\* sleeps in poll on input it did not see (session.rs:106-107, 189).
InputArrives ==
    \A n \in 1..MaxInput : (Len(typed) >= n) ~> (Len(accepted) >= n \/ ~alive)

\* A killed session ends, wherever the thread was (session.rs:103, 220-224).
KillEnds == shutdown ~> ~alive

=============================================================================
