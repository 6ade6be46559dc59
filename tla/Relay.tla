-------------------------------- MODULE Relay --------------------------------
(***************************************************************************)
(* The relay: machines that cannot be dialled connect to it and wait,      *)
(* clients ask for one by name, and the relay introduces the two and then  *)
(* copies bytes (devpipe/src/relay.rs: greet, hold, introduce, splice, and *)
(* the machine's end, enrolled and answer).                                *)
(*                                                                         *)
(* A machine that reconnects, and a second machine given the same name,    *)
(* are one more control connection in the same place.  A ticket is random  *)
(* and minted once per introduction, so it is the client it was minted     *)
(* for.  Connections that are refused or over are not used again.          *)
(***************************************************************************)
EXTENDS Naturals, Sequences, FiniteSets

CONSTANTS Machines,       \* control connections machines open, over time
          Clients,        \* connections clients open
          Place,          \* the account and name each asks to be, or to reach
          Keyed,          \* the connections whose key is good for what they ask
          Nobody,         \* no machine
          ControlBacklog  \* CONTROL_BACKLOG, the queue towards one machine

ASSUME RoomForOne == ControlBacklog \in Nat \ {0}
ASSUME NobodyIsNoMachine == Nobody \notin Machines
ASSUME ClientsAreNotMachines == Machines \cap Clients = {} /\ Nobody \notin Clients

VARIABLES machines,  \* Relay.machines: the control connection in each place
          hold,      \* where the task of each control connection is
          link,      \* the machine's end of each control connection
          queue,     \* dials on their way to each machine
          inhand,    \* the dial each hold() is sending
          pc,        \* where the task of each client is
          here,      \* the client's end is open
          dial,      \* the control connection each client was looked up to
          pending,   \* Relay.pending: the tickets not yet claimed
          rendezvous,\* the oneshot each client waits on
          offer,     \* the data connection brought up for each ticket
          by         \* the machine that brought it up

machineVars == <<hold, link, queue, inhand>>
clientVars == <<pc, here, dial>>
ticketVars == <<pending, rendezvous, offer, by>>
vars == <<machines, machineVars, clientVars, ticketVars>>

Places == {Place[x] : x \in Machines \cup Clients}

\* The queue towards a machine has a receiver until hold() returns.
Holding == {"enrolled", "holding", "sending", "leaving"}
HoldAt == Holding \cup {"off", "greeted", "refused", "gone"}
ClientAt == {"off", "greeted", "found", "ticketed", "waiting", "unsent", "late", "met",
             "joined", "refused", "lost", "parted"}

Init ==
    /\ machines = [p \in Places |-> Nobody]
    /\ hold = [m \in Machines |-> "off"] /\ link = [m \in Machines |-> "off"]
    /\ queue = [m \in Machines |-> <<>>] /\ inhand = [m \in Machines |-> Nobody]
    /\ pc = [c \in Clients |-> "off"] /\ here = [c \in Clients |-> FALSE]
    /\ dial = [c \in Clients |-> Nobody]
    /\ pending = {}
    /\ rendezvous = [c \in Clients |-> "none"]
    /\ offer = [c \in Clients |-> "none"]
    /\ by = [c \in Clients |-> Nobody]

Goto(c, where) == pc' = [pc EXCEPT ![c] = where]
Turn(m, where) == hold' = [hold EXCEPT ![m] = where]

-----------------------------------------------------------------------------
(* A machine's control connection. *)

\* The machine connects and says Enrol.
Arrive(m) ==
    /\ hold[m] = "off"
    /\ Turn(m, "greeted")
    /\ link' = [link EXCEPT ![m] = "up"]
    /\ UNCHANGED <<machines, queue, inhand, clientVars, ticketVars>>

\* The connection drops: the machine left, or the network did.
Drop(m) ==
    /\ link[m] = "up"
    /\ link' = [link EXCEPT ![m] = "down"]
    /\ UNCHANGED <<machines, hold, queue, inhand, clientVars, ticketVars>>

RefuseKey(m) ==
    /\ hold[m] = "greeted"
    /\ m \notin Keyed
    /\ Turn(m, "refused")
    /\ UNCHANGED <<machines, link, queue, inhand, clientVars, ticketVars>>

\* Fault: whoever enrols last has the name.
EnrolAnyway(m) ==
    /\ hold[m] = "greeted" /\ m \in Keyed
    /\ machines' = [machines EXCEPT ![Place[m]] = m]
    /\ Turn(m, "enrolled")
    /\ UNCHANGED <<link, queue, inhand, clientVars, ticketVars>>

\* Looked up and inserted under one lock.
Enrol(m) ==
    /\ hold[m] = "greeted" /\ m \in Keyed
    /\ machines[Place[m]] = Nobody
    /\ machines' = [machines EXCEPT ![Place[m]] = m]
    /\ Turn(m, "enrolled")
    /\ UNCHANGED <<link, queue, inhand, clientVars, ticketVars>>

\* Fault: the refused connection takes the entry with it as it goes.
RefuseAndRemove(m) ==
    /\ hold[m] = "greeted" /\ m \in Keyed
    /\ machines[Place[m]] # Nobody
    /\ machines' = [machines EXCEPT ![Place[m]] = Nobody]
    /\ Turn(m, "refused")
    /\ UNCHANGED <<link, queue, inhand, clientVars, ticketVars>>

RefuseTaken(m) ==
    /\ hold[m] = "greeted" /\ m \in Keyed
    /\ machines[Place[m]] # Nobody
    /\ Turn(m, "refused")
    /\ UNCHANGED <<machines, link, queue, inhand, clientVars, ticketVars>>

\* Enrolled is said; on a connection that dropped, that can still look like it
\* worked.
SayEnrolled(m) ==
    /\ hold[m] = "enrolled"
    /\ Turn(m, "holding")
    /\ UNCHANGED <<machines, link, queue, inhand, clientVars, ticketVars>>

\* ... or it fails, and hold() returns from there, without the removal at its
\* end: the entry stays, with nobody receiving behind it.
SayEnrolledFails(m) ==
    /\ hold[m] = "enrolled"
    /\ link[m] = "down"
    /\ Turn(m, "gone")
    /\ queue' = [queue EXCEPT ![m] = <<>>]
    /\ UNCHANGED <<machines, link, inhand, clientVars, ticketVars>>

TakeDial(m) ==
    /\ hold[m] = "holding"
    /\ queue[m] # <<>>
    /\ inhand' = [inhand EXCEPT ![m] = Head(queue[m])]
    /\ queue' = [queue EXCEPT ![m] = Tail(@)]
    /\ Turn(m, "sending")
    /\ UNCHANGED <<machines, link, clientVars, ticketVars>>

\* The machine reads the Dial and spawns the task that answers it.
SendDial(m) ==
    /\ hold[m] = "sending"
    /\ link[m] = "up"
    /\ offer' = [offer EXCEPT ![inhand[m]] = "dialled"]
    /\ by' = [by EXCEPT ![inhand[m]] = m]
    /\ inhand' = [inhand EXCEPT ![m] = Nobody]
    /\ Turn(m, "holding")
    /\ UNCHANGED <<machines, link, queue, clientVars, pending, rendezvous>>

\* On a connection that dropped the send fails, or looks like it worked.
LoseDial(m) ==
    /\ hold[m] = "sending"
    /\ link[m] = "down"
    /\ inhand' = [inhand EXCEPT ![m] = Nobody]
    /\ \E next \in {"leaving", "holding"} : Turn(m, next)
    /\ UNCHANGED <<machines, link, queue, clientVars, ticketVars>>

\* Fault: the relay never reads the connection it only writes to.
HearNothing(m) == FALSE

\* Reading the connection is how the relay learns the machine has gone.
HearGone(m) ==
    /\ hold[m] = "holding"
    /\ link[m] = "down"
    /\ Turn(m, "leaving")
    /\ UNCHANGED <<machines, link, queue, inhand, clientVars, ticketVars>>

\* The entry goes, and the dials still in the queue with its receiver.
Remove(m) ==
    /\ hold[m] = "leaving"
    /\ machines' = [machines EXCEPT ![Place[m]] = Nobody]
    /\ queue' = [queue EXCEPT ![m] = <<>>]
    /\ Turn(m, "gone")
    /\ UNCHANGED <<link, inhand, clientVars, ticketVars>>

-----------------------------------------------------------------------------
(* A client's connection. *)

Ask(c) ==
    /\ pc[c] = "off"
    /\ Goto(c, "greeted")
    /\ here' = [here EXCEPT ![c] = TRUE]
    /\ UNCHANGED <<machines, machineVars, dial, ticketVars>>

Leave(c) ==
    /\ here[c]
    /\ here' = [here EXCEPT ![c] = FALSE]
    /\ UNCHANGED <<machines, machineVars, pc, dial, ticketVars>>

\* Fault: a machine is looked up by its name alone.
FindByName(c) ==
    /\ pc[c] = "greeted" /\ c \in Keyed
    /\ \E p \in Places :
         /\ p[2] = Place[c][2] /\ machines[p] # Nobody
         /\ dial' = [dial EXCEPT ![c] = machines[p]]
    /\ Goto(c, "found")
    /\ UNCHANGED <<machines, machineVars, here, ticketVars>>

\* The entry's sender is cloned, and the lock let go.
Find(c) ==
    /\ pc[c] = "greeted" /\ c \in Keyed
    /\ machines[Place[c]] # Nobody
    /\ dial' = [dial EXCEPT ![c] = machines[Place[c]]]
    /\ Goto(c, "found")
    /\ UNCHANGED <<machines, machineVars, here, ticketVars>>

\* "is not here", whether it is somebody else's or nobody's; or no key for it.
NotHere(c) ==
    /\ pc[c] = "greeted"
    /\ c \notin Keyed \/ machines[Place[c]] = Nobody
    /\ Goto(c, "refused")
    /\ UNCHANGED <<machines, machineVars, here, dial, ticketVars>>

Mint(c) ==
    /\ pc[c] = "found"
    /\ pending' = pending \cup {c}
    /\ rendezvous' = [rendezvous EXCEPT ![c] = "open"]
    /\ Goto(c, "ticketed")
    /\ UNCHANGED <<machines, machineVars, here, dial, offer, by>>

Listening(m) == hold[m] \in Holding

\* Fault: a queue with no room takes one more.
DialWithoutRoom(c) ==
    /\ pc[c] = "ticketed"
    /\ Listening(dial[c])
    /\ queue' = [queue EXCEPT ![dial[c]] = Append(@, c)]
    /\ Goto(c, "waiting")
    /\ UNCHANGED <<machines, hold, link, inhand, here, dial, ticketVars>>

\* dial.send: it waits, without a limit, for room in the queue.
Dial(c) ==
    /\ pc[c] = "ticketed"
    /\ Listening(dial[c])
    /\ Len(queue[dial[c]]) < ControlBacklog
    /\ queue' = [queue EXCEPT ![dial[c]] = Append(@, c)]
    /\ Goto(c, "waiting")
    /\ UNCHANGED <<machines, hold, link, inhand, here, dial, ticketVars>>

\* Fault: a queue nobody receives from is taken for a busy one.
DialWaits(c) == FALSE

\* The receiver is gone.
DialFails(c) ==
    /\ pc[c] = "ticketed"
    /\ ~Listening(dial[c])
    /\ Goto(c, "unsent")
    /\ UNCHANGED <<machines, machineVars, here, dial, ticketVars>>

\* Fault: the receiver is kept while the ticket is given up.
TimeOutKeepsReceiver(c) ==
    /\ pc[c] = "waiting"
    /\ rendezvous[c] = "open"
    /\ Goto(c, "late")
    /\ UNCHANGED <<machines, machineVars, here, dial, ticketVars>>

\* DIAL_TIMEOUT; the receiver is dropped before the ticket is removed.
TimeOut(c) ==
    /\ pc[c] = "waiting"
    /\ rendezvous[c] = "open"
    /\ rendezvous' = [rendezvous EXCEPT ![c] = "closed"]
    /\ Goto(c, "late")
    /\ UNCHANGED <<machines, machineVars, here, dial, pending, offer, by>>

\* Fault: the ticket nobody claimed stays.
GiveUpKeepsTicket(c) ==
    /\ pc[c] \in {"late", "unsent"}
    /\ rendezvous' = [rendezvous EXCEPT ![c] = "closed"]
    /\ Goto(c, "refused")
    /\ UNCHANGED <<machines, machineVars, here, dial, pending, offer, by>>

\* The ticket is removed, if nobody has, and the client told.
GiveUp(c) ==
    /\ pc[c] \in {"late", "unsent"}
    /\ pending' = pending \ {c}
    /\ rendezvous' = [rendezvous EXCEPT ![c] = "closed"]
    /\ Goto(c, "refused")
    /\ UNCHANGED <<machines, machineVars, here, dial, offer, by>>

Meet(c) ==
    /\ pc[c] = "waiting"
    /\ rendezvous[c] = "full"
    /\ rendezvous' = [rendezvous EXCEPT ![c] = "closed"]
    /\ Goto(c, "met")
    /\ UNCHANGED <<machines, machineVars, here, dial, pending, offer, by>>

\* Reaching is said, and the two are spliced; to a client that has just left,
\* that can still look like it worked.
Join(c) ==
    /\ pc[c] = "met"
    /\ offer' = [offer EXCEPT ![c] = "joined"]
    /\ Goto(c, "joined")
    /\ UNCHANGED <<machines, machineVars, here, dial, pending, rendezvous, by>>

\* The client left while it waited: the machine's connection goes too.
JoinFails(c) ==
    /\ pc[c] = "met"
    /\ ~here[c]
    /\ offer' = [offer EXCEPT ![c] = "closed"]
    /\ Goto(c, "lost")
    /\ UNCHANGED <<machines, machineVars, here, dial, pending, rendezvous, by>>

\* Either direction ending ends both: the client's, or the machine's.
Part(c) ==
    /\ pc[c] = "joined"
    /\ offer' = [offer EXCEPT ![c] = "closed"]
    /\ Goto(c, "parted")
    /\ UNCHANGED <<machines, machineVars, here, dial, pending, rendezvous, by>>

-----------------------------------------------------------------------------
(* The connection a machine brings up for a ticket. *)

\* However late: the machine does not know when the client stops waiting.
Offer(c) ==
    /\ offer[c] = "dialled"
    /\ offer' = [offer EXCEPT ![c] = "offered"]
    /\ UNCHANGED <<machines, machineVars, clientVars, pending, rendezvous, by>>

\* The ticket is good for one introduction: it is removed as it is claimed.
Claim(c) ==
    /\ offer[c] = "offered"
    /\ offer' = [offer EXCEPT ![c] = IF c \in pending THEN "claimed" ELSE "closed"]
    /\ pending' = pending \ {c}
    /\ UNCHANGED <<machines, machineVars, clientVars, rendezvous, by>>

\* The socket goes to the client's task, if it is still waiting.
HandOver(c) ==
    /\ offer[c] = "claimed"
    /\ IF rendezvous[c] = "open"
         THEN /\ offer' = [offer EXCEPT ![c] = "handed"]
              /\ rendezvous' = [rendezvous EXCEPT ![c] = "full"]
         ELSE /\ offer' = [offer EXCEPT ![c] = "closed"]
              /\ UNCHANGED rendezvous
    /\ UNCHANGED <<machines, machineVars, clientVars, pending, by>>

-----------------------------------------------------------------------------

\* What the relay's task for a control connection does by itself.
Held(m) ==
    \/ RefuseKey(m) \/ Enrol(m) \/ RefuseTaken(m) \/ SayEnrolled(m) \/ SayEnrolledFails(m)
    \/ TakeDial(m) \/ LoseDial(m) \/ HearGone(m) \/ Remove(m)

\* What the relay's task for a client does by itself.
Served(c) ==
    \/ Find(c) \/ NotHere(c) \/ Mint(c) \/ Dial(c) \/ DialFails(c) \/ TimeOut(c)
    \/ GiveUp(c) \/ Meet(c) \/ Join(c) \/ JoinFails(c)

Next ==
    \/ \E m \in Machines : Arrive(m) \/ Drop(m) \/ Held(m) \/ SendDial(m)
    \/ \E c \in Clients :
         \/ Ask(c) \/ Leave(c) \/ Served(c) \/ Part(c)
         \/ Offer(c) \/ Claim(c) \/ HandOver(c)

\* The relay's own tasks run.  A conversation ends once the client has left.
RelayFairness ==
    /\ \A m \in Machines : WF_vars(Held(m))
    /\ \A c \in Clients :
         WF_vars(Served(c)) /\ WF_vars(Claim(c)) /\ WF_vars(HandOver(c))
         /\ WF_vars(Part(c) /\ ~here[c])

\* A machine whose connection stays up reads what is sent down it.
MachinesRead == \A m \in Machines : WF_vars(SendDial(m))

Spec == Init /\ [][Next]_vars
FairSpec == Spec /\ RelayFairness /\ MachinesRead

\* A machine that is there and reads nothing: stopped, or its disk is.
StalledSpec == Spec /\ RelayFairness

-----------------------------------------------------------------------------
(* Properties. *)

TypeOK ==
    /\ machines \in [Places -> Machines \cup {Nobody}]
    /\ hold \in [Machines -> HoldAt] /\ link \in [Machines -> {"off", "up", "down"}]
    /\ queue \in [Machines -> Seq(Clients)]
    /\ \A m \in Machines : Len(queue[m]) <= ControlBacklog
    /\ inhand \in [Machines -> Clients \cup {Nobody}]
    /\ pc \in [Clients -> ClientAt] /\ here \in [Clients -> BOOLEAN]
    /\ dial \in [Clients -> Machines \cup {Nobody}]
    /\ pending \subseteq Clients
    /\ rendezvous \in [Clients -> {"none", "open", "full", "closed"}]
    /\ offer \in [Clients -> {"none", "dialled", "offered", "claimed", "handed", "joined", "closed"}]
    /\ by \in [Clients -> Machines \cup {Nobody}]

\* Two connections are never held under one account and name, across drops,
\* reconnections and machines given the same name (relay.rs:337-354).
OnePerPlace ==
    \A m, n \in Machines :
        Listening(m) /\ Listening(n) /\ Place[m] = Place[n] => m = n

\* The machine at the other end of a client's conversation is the one that
\* client's own account and name were looked up to, whichever queues, tickets
\* and data connections it went through (relay.rs:117-119, 398-414, 249-253).
OwnMachine ==
    \A c \in Clients :
        pc[c] \in {"met", "joined"}
            => /\ by[c] = dial[c] /\ by[c] # Nobody
               /\ Place[by[c]] = Place[c]
               /\ {c, by[c]} \subseteq Keyed

\* No ticket outlives the introduction it was minted for (relay.rs:416-437).
TicketsEnd ==
    \A c \in pending : pc[c] \in {"ticketed", "waiting", "unsent", "late"}

\* A data connection brought up for a client is joined to it or closed: a
\* machine is not left holding one for a client that gave up or went away,
\* whenever it offered (relay.rs:244-259, 428-440).
OffersSettle ==
    \A c \in Clients : (offer[c] = "offered") ~> (offer[c] \in {"joined", "closed"})

\* A client that asks is put through or told why not (relay.rs:50-52, 392-442).
ClientsAnswered ==
    \A c \in Clients :
        (pc[c] = "greeted") ~> (pc[c] \in {"joined", "refused", "lost", "parted"})

\* Once a held machine's connection drops, its entry goes (relay.rs:327-332).
PresenceEnds ==
    \A m \in Machines :
        (hold[m] \in {"holding", "sending"} /\ link[m] = "down")
            ~> (machines[Place[m]] # m)

\* "The connection itself is the presence ... when it drops the entry goes"
\* (relay.rs:329-330): an entry has a task behind it that will remove it.
PresenceIsTheConnection ==
    \A p \in Places : machines[p] # Nobody => Listening(machines[p])

-----------------------------------------------------------------------------
(* The relay keeps the promise of Introductions. *)

Outcome(c) ==
    CASE pc[c] = "joined" -> "introduced"
      [] pc[c] = "parted" -> "parted"
      [] pc[c] \in {"refused", "lost"} -> "refused"
      [] OTHER -> "asking"

Promise == INSTANCE Introductions WITH
    present <- machines,
    seen <- {m \in Machines : hold[m] \in Holding \cup {"gone"}},
    dropped <- {m \in Machines : link[m] = "down"},
    chosen <- dial,
    outcome <- [c \in Clients |-> Outcome(c)]

\* A client is put through only to the machine present in its own place when
\* it was looked up, and a machine leaves its place only when its connection
\* has dropped, whatever the tickets, queues and timeouts in between do
\* (relay.rs:112-124, 333-442).
KeepsPromise == Promise!Spec
=============================================================================
