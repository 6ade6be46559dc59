----------------------------- MODULE RelayProofs -----------------------------
(***************************************************************************)
(* What the relay promises, for any number of machines, clients, accounts  *)
(* and any depth of queue: one connection is held in a place, a client     *)
(* meets its own machine and no other, no ticket outlives its              *)
(* introduction, and the whole implements Introductions.                   *)
(***************************************************************************)
EXTENDS Relay, SequenceTheorems, TLAPS

Offers == {"none", "dialled", "offered", "claimed", "handed", "joined", "closed"}

\* The task of the client has handed its ticket to a machine's queue.
Past == ClientAt \ {"off", "greeted", "found", "ticketed"}

Asked(c) == pc[c] \in Past

\* A held connection is the entry of its place, and an entry is in its place.
Entries ==
    /\ \A m \in Machines : Listening(m) => machines[Place[m]] = m /\ m \in Keyed
    /\ \A p \in Places : machines[p] # Nobody => Place[machines[p]] = p /\ machines[p] \in Keyed
    /\ \A m \in Machines : hold[m] = "leaving" => link[m] = "down"
    /\ \A m \in Machines : hold[m] = "off" => link[m] = "off"

\* A dial is on its way to the machine its client was looked up to.
Dials ==
    /\ \A m \in Machines : \A i \in 1..Len(queue[m]) : dial[queue[m][i]] = m /\ Asked(queue[m][i])
    /\ \A m \in Machines : hold[m] = "sending" =>
            inhand[m] \in Clients /\ dial[inhand[m]] = m /\ Asked(inhand[m])
    /\ \A c \in Clients : by[c] # Nobody => by[c] = dial[c] /\ Asked(c)
    /\ \A c \in Clients : offer[c] # "none" => by[c] # Nobody

\* A client is looked up once, in its own place.
Lookups ==
    /\ \A c \in Clients : pc[c] \in {"off", "greeted"} => dial[c] = Nobody
    /\ \A c \in Clients : pc[c] \in {"found", "ticketed", "waiting", "unsent", "late", "met", "joined"}
                            => dial[c] # Nobody
    /\ \A c \in Clients : dial[c] # Nobody =>
            Place[dial[c]] = Place[c] /\ {c, dial[c]} \subseteq Keyed

\* A ticket is in the map until it is claimed or given up.
Tickets ==
    /\ TicketsEnd
    /\ \A c \in Clients : offer[c] = "claimed" => c \notin pending
    /\ \A c \in Clients : rendezvous[c] = "full" => c \notin pending /\ by[c] # Nobody
    /\ \A c \in Clients : pc[c] \in {"met", "joined"} => by[c] # Nobody

RelayInv == TypeOK /\ Entries /\ Dials /\ Lookups /\ Tickets

\* The relay starts in its invariant.
LEMMA RelayStarts == Init => RelayInv
<1> SUFFICES ASSUME Init PROVE RelayInv  OBVIOUS
<1>1. TypeOK
  <2>1. <<>> \in Seq(Clients) /\ Len(<<>>) = 0  OBVIOUS
  <2> QED  BY <2>1, RoomForOne DEF Init, TypeOK, HoldAt, ClientAt
<1>2. Entries
  <2>1. \A x \in Machines \cup Clients : Place[x] \in Places  BY DEF Places
  <2> QED  BY <2>1 DEF Init, Entries, Listening, Holding
<1>3. Dials  BY DEF Init, Dials
<1>4. Lookups  BY DEF Init, Lookups
<1>5. Tickets  BY DEF Init, Tickets, TicketsEnd
<1> QED  BY <1>1, <1>2, <1>3, <1>4, <1>5 DEF RelayInv

-----------------------------------------------------------------------------
(* Steps. *)

\* The queues keep their types and their bound.
LEMMA QueuesKeepTypes ==
    ASSUME TypeOK, NEW m \in Machines, NEW q, q \in Seq(Clients), Len(q) <= ControlBacklog,
           queue' = [queue EXCEPT ![m] = q]
    PROVE  /\ queue' \in [Machines -> Seq(Clients)]
           /\ \A n \in Machines : Len(queue'[n]) <= ControlBacklog
<1> QED  BY DEF TypeOK

\* Every step keeps the types.
LEMMA StepKeepsTypes == RelayInv /\ [Next]_vars => TypeOK'
<1> SUFFICES ASSUME RelayInv, [Next]_vars PROVE TypeOK'  OBVIOUS
<1> USE DEF Turn, Goto, HoldAt, Holding, ClientAt, machineVars, clientVars, ticketVars
<1>a. TypeOK  BY DEF RelayInv
<1>b. ControlBacklog \in Nat \ {0}  BY RoomForOne
<1>c. <<>> \in Seq(Clients) /\ Len(<<>>) <= ControlBacklog  BY <1>b
<1>1. ASSUME NEW m \in Machines, Arrive(m) PROVE TypeOK'
  BY <1>a, <1>1 DEF TypeOK, Arrive
<1>2. ASSUME NEW m \in Machines, Drop(m) PROVE TypeOK'
  BY <1>a, <1>2 DEF TypeOK, Drop
<1>3. ASSUME NEW m \in Machines, RefuseKey(m) PROVE TypeOK'
  BY <1>a, <1>3 DEF TypeOK, RefuseKey
<1>4. ASSUME NEW m \in Machines, Enrol(m) PROVE TypeOK'
  BY <1>a, <1>4 DEF TypeOK, Enrol
<1>5. ASSUME NEW m \in Machines, RefuseTaken(m) PROVE TypeOK'
  BY <1>a, <1>5 DEF TypeOK, RefuseTaken
<1>6. ASSUME NEW m \in Machines, SayEnrolled(m) PROVE TypeOK'
  BY <1>a, <1>6 DEF TypeOK, SayEnrolled
<1>7. ASSUME NEW m \in Machines, SayEnrolledFails(m) PROVE TypeOK'
  <2> QED  BY <1>a, <1>c, <1>7, QueuesKeepTypes DEF TypeOK, SayEnrolledFails
<1>8. ASSUME NEW m \in Machines, TakeDial(m) PROVE TypeOK'
  <2>1. queue[m] \in Seq(Clients) /\ queue[m] # <<>> /\ Len(queue[m]) <= ControlBacklog
    BY <1>a, <1>8 DEF TypeOK, TakeDial
  <2>2. /\ Head(queue[m]) \in Clients /\ Tail(queue[m]) \in Seq(Clients)
        /\ Len(Tail(queue[m])) <= ControlBacklog
    BY <1>b, <2>1, HeadTailProperties
  <2>3. queue' = [queue EXCEPT ![m] = Tail(queue[m])]  BY <1>8 DEF TakeDial
  <2>4. /\ queue' \in [Machines -> Seq(Clients)]
        /\ \A k \in Machines : Len(queue'[k]) <= ControlBacklog
    BY <1>a, <2>2, <2>3, QueuesKeepTypes
  <2> QED  BY <1>a, <1>8, <2>2, <2>4 DEF TypeOK, TakeDial
<1>9. ASSUME NEW m \in Machines, SendDial(m) PROVE TypeOK'
  <2>1. inhand[m] \in Clients  BY <1>9 DEF SendDial, RelayInv, Dials
  <2> QED  BY <1>a, <1>9, <2>1 DEF TypeOK, SendDial
<1>10. ASSUME NEW m \in Machines, LoseDial(m) PROVE TypeOK'
  BY <1>a, <1>10 DEF TypeOK, LoseDial
<1>11. ASSUME NEW m \in Machines, HearGone(m) PROVE TypeOK'
  BY <1>a, <1>11 DEF TypeOK, HearGone
<1>12. ASSUME NEW m \in Machines, Remove(m) PROVE TypeOK'
  <2> QED  BY <1>a, <1>c, <1>12, QueuesKeepTypes DEF TypeOK, Remove
<1>13. ASSUME NEW c \in Clients, Ask(c) PROVE TypeOK'
  BY <1>a, <1>13 DEF TypeOK, Ask
<1>14. ASSUME NEW c \in Clients, Leave(c) PROVE TypeOK'
  BY <1>a, <1>14 DEF TypeOK, Leave
<1>15. ASSUME NEW c \in Clients, Find(c) PROVE TypeOK'
  <2>1. machines[Place[c]] \in Machines \cup {Nobody}
    <3>1. Place[c] \in Places  BY DEF Places
    <3> QED  BY <1>a, <3>1 DEF TypeOK
  <2> QED  BY <1>a, <1>15, <2>1 DEF TypeOK, Find
<1>16. ASSUME NEW c \in Clients, NotHere(c) PROVE TypeOK'
  BY <1>a, <1>16 DEF TypeOK, NotHere
<1>17. ASSUME NEW c \in Clients, Mint(c) PROVE TypeOK'
  BY <1>a, <1>17 DEF TypeOK, Mint
<1>18. ASSUME NEW c \in Clients, Dial(c) PROVE TypeOK'
  <2>1. dial[c] \in Machines
    BY <1>a, <1>18 DEF TypeOK, Dial, RelayInv, Lookups
  <2>2. queue[dial[c]] \in Seq(Clients) /\ Len(queue[dial[c]]) < ControlBacklog
    BY <1>a, <1>18, <2>1 DEF TypeOK, Dial
  <2>3. Append(queue[dial[c]], c) \in Seq(Clients) /\ Len(Append(queue[dial[c]], c)) <= ControlBacklog
    BY <1>b, <2>2, AppendProperties
  <2>4. queue' = [queue EXCEPT ![dial[c]] = Append(queue[dial[c]], c)]  BY <1>18 DEF Dial
  <2>5. /\ queue' \in [Machines -> Seq(Clients)]
        /\ \A k \in Machines : Len(queue'[k]) <= ControlBacklog
    BY <1>a, <2>1, <2>3, <2>4, QueuesKeepTypes
  <2> QED  BY <1>a, <1>18, <2>5 DEF TypeOK, Dial
<1>19. ASSUME NEW c \in Clients, DialFails(c) PROVE TypeOK'
  BY <1>a, <1>19 DEF TypeOK, DialFails
<1>20. ASSUME NEW c \in Clients, TimeOut(c) PROVE TypeOK'
  BY <1>a, <1>20 DEF TypeOK, TimeOut
<1>21. ASSUME NEW c \in Clients, GiveUp(c) PROVE TypeOK'
  BY <1>a, <1>21 DEF TypeOK, GiveUp
<1>22. ASSUME NEW c \in Clients, Meet(c) PROVE TypeOK'
  BY <1>a, <1>22 DEF TypeOK, Meet
<1>23. ASSUME NEW c \in Clients, Join(c) PROVE TypeOK'
  BY <1>a, <1>23 DEF TypeOK, Join
<1>24. ASSUME NEW c \in Clients, JoinFails(c) PROVE TypeOK'
  BY <1>a, <1>24 DEF TypeOK, JoinFails
<1>25. ASSUME NEW c \in Clients, Part(c) PROVE TypeOK'
  BY <1>a, <1>25 DEF TypeOK, Part
<1>26. ASSUME NEW c \in Clients, Offer(c) PROVE TypeOK'
  BY <1>a, <1>26 DEF TypeOK, Offer
<1>27. ASSUME NEW c \in Clients, Claim(c) PROVE TypeOK'
  BY <1>a, <1>27 DEF TypeOK, Claim
<1>28. ASSUME NEW c \in Clients, HandOver(c) PROVE TypeOK'
  <2>1. CASE rendezvous[c] = "open"  BY <1>a, <1>28, <2>1 DEF TypeOK, HandOver
  <2>2. CASE rendezvous[c] # "open"  BY <1>a, <1>28, <2>2 DEF TypeOK, HandOver
  <2> QED  BY <2>1, <2>2
<1>29. CASE UNCHANGED vars
  BY <1>a, <1>29 DEF TypeOK, vars
<1> QED
  BY <1>1, <1>2, <1>3, <1>4, <1>5, <1>6, <1>7, <1>8, <1>9, <1>10, <1>11, <1>12,
     <1>13, <1>14, <1>15, <1>16, <1>17, <1>18, <1>19, <1>20, <1>21, <1>22, <1>23, <1>24,
     <1>25, <1>26, <1>27, <1>28, <1>29
  DEF Next, Held, Served

\* Every step keeps what is known of the table of machines.
LEMMA StepKeepsEntries == RelayInv /\ [Next]_vars => Entries'
<1> SUFFICES ASSUME RelayInv, [Next]_vars PROVE Entries'  OBVIOUS
<1>a. TypeOK /\ Entries  BY DEF RelayInv
<1>b. \A x \in Machines \cup Clients : Place[x] \in Places  BY DEF Places
<1> USE NobodyIsNoMachine DEF Turn, Listening, Holding, machineVars
<1>0. ASSUME UNCHANGED <<machines, hold, link>> PROVE Entries'
  BY <1>a, <1>0 DEF Entries
<1>1. ASSUME NEW c \in Clients,
             \/ Ask(c) \/ Leave(c) \/ Served(c) \/ Part(c) \/ Offer(c) \/ Claim(c) \/ HandOver(c)
      PROVE  Entries'
  BY <1>0, <1>1
     DEF Ask, Leave, Served, Part, Offer, Claim, HandOver, Find, NotHere, Mint, Dial,
         DialFails, TimeOut, GiveUp, Meet, Join, JoinFails
<1>2. ASSUME NEW m \in Machines, Arrive(m) \/ Drop(m) PROVE Entries'
  <2>1. CASE Arrive(m)  BY <1>a, <2>1 DEF Entries, TypeOK, Arrive
  <2>2. CASE Drop(m)  BY <1>a, <2>2 DEF Entries, TypeOK, Drop
  <2> QED  BY <1>2, <2>1, <2>2
<1>3. ASSUME NEW m \in Machines, RefuseKey(m) \/ RefuseTaken(m) \/ SayEnrolled(m) PROVE Entries'
  BY <1>a, <1>3 DEF Entries, TypeOK, RefuseKey, RefuseTaken, SayEnrolled
<1>4. ASSUME NEW m \in Machines, Enrol(m) PROVE Entries'
  BY <1>a, <1>b, <1>4 DEF Entries, TypeOK, Enrol
<1>5. ASSUME NEW m \in Machines, SayEnrolledFails(m) PROVE Entries'
  BY <1>a, <1>5 DEF Entries, TypeOK, SayEnrolledFails
<1>6. ASSUME NEW m \in Machines, TakeDial(m) \/ SendDial(m) PROVE Entries'
  BY <1>a, <1>6 DEF Entries, TypeOK, TakeDial, SendDial
<1>7. ASSUME NEW m \in Machines, LoseDial(m) \/ HearGone(m) PROVE Entries'
  BY <1>a, <1>7 DEF Entries, TypeOK, LoseDial, HearGone
<1>8. ASSUME NEW m \in Machines, Remove(m) PROVE Entries'
  BY <1>a, <1>b, <1>8 DEF Entries, TypeOK, Remove
<1>9. CASE UNCHANGED vars  BY <1>0, <1>9 DEF vars
<1> QED
  BY <1>1, <1>2, <1>3, <1>4, <1>5, <1>6, <1>7, <1>8, <1>9 DEF Next, Held

\* Every step keeps each dial in one queue or hand.
LEMMA StepKeepsDials == RelayInv /\ [Next]_vars => Dials'
<1> SUFFICES ASSUME RelayInv, [Next]_vars PROVE Dials'  OBVIOUS
<1>a. TypeOK /\ Dials /\ Lookups  BY DEF RelayInv
<1>b. \A m \in Machines : queue[m] \in Seq(Clients)  BY <1>a DEF TypeOK
<1>c. \A m \in Machines : \A i \in 1..Len(queue[m]) : queue[m][i] \in Clients
  BY <1>b, ElementOfSeq
<1> USE NobodyIsNoMachine, ClientsAreNotMachines
    DEF Turn, Goto, Asked, Past, ClientAt, machineVars, clientVars, ticketVars
<1>0. ASSUME UNCHANGED <<queue, inhand, dial, by>>,
             \A c \in Clients : Asked(c) => Asked(c)',
             \A c \in Clients : offer'[c] # "none" => offer[c] # "none" \/ by[c] # Nobody,
             \A m \in Machines : hold'[m] = "sending" => hold[m] = "sending"
      PROVE  Dials'
  BY <1>a, <1>c, <1>0 DEF Dials
<1>1. ASSUME NEW c \in Clients, Ask(c) \/ Leave(c) \/ NotHere(c) \/ Mint(c) \/ DialFails(c)
      PROVE  Dials'
  BY <1>0, <1>1, <1>a DEF TypeOK, Ask, Leave, NotHere, Mint, DialFails
<1>2. ASSUME NEW c \in Clients, TimeOut(c) \/ GiveUp(c) \/ Meet(c) PROVE Dials'
  BY <1>0, <1>2, <1>a DEF TypeOK, TimeOut, GiveUp, Meet
<1>3. ASSUME NEW c \in Clients, Join(c) \/ JoinFails(c) \/ Part(c) PROVE Dials'
  <2>1. by[c] # Nobody
    BY <1>3 DEF RelayInv, Tickets, Join, JoinFails, Part
  <2> QED  BY <1>0, <1>3, <1>a, <2>1 DEF TypeOK, Join, JoinFails, Part
<1>4. ASSUME NEW c \in Clients, Offer(c) \/ Claim(c) \/ HandOver(c) PROVE Dials'
  BY <1>0, <1>4, <1>a DEF TypeOK, Offer, Claim, HandOver
<1>5. ASSUME NEW c \in Clients, Find(c) PROVE Dials'
  <2>1. ~Asked(c) /\ Asked(c)' = Asked(c)  BY <1>5, <1>a DEF TypeOK, Find
  <2>2. \A d \in Clients \ {c} : dial'[d] = dial[d] /\ pc'[d] = pc[d]
    BY <1>5, <1>a DEF TypeOK, Find
  <2>3. UNCHANGED <<queue, inhand, by, offer, hold>>  BY <1>5 DEF Find
  <2>4. \A m \in Machines : \A i \in 1..Len(queue[m]) : queue[m][i] \in Clients \ {c}
    BY <1>a, <1>c, <2>1 DEF Dials
  <2>5. \A m \in Machines : hold[m] = "sending" => inhand[m] \in Clients \ {c}
    BY <1>a, <2>1 DEF Dials
  <2>6. by[c] = Nobody  BY <1>a, <2>1 DEF Dials
  <2> QED  BY <1>a, <2>2, <2>3, <2>4, <2>5, <2>6 DEF Dials
<1>6. ASSUME NEW c \in Clients, Dial(c) PROVE Dials'
  <2> DEFINE m == dial[c]
             q == queue[m]
  <2>1. m \in Machines  BY <1>6, <1>a DEF TypeOK, Lookups, Dial
  <2>2. /\ queue' = [queue EXCEPT ![m] = Append(q, c)]
        /\ UNCHANGED <<hold, inhand, dial, by, offer>>
    BY <1>6 DEF Dial
  <2>3. q \in Seq(Clients)  BY <1>b, <2>1
  <2>4. /\ Len(Append(q, c)) = Len(q) + 1 /\ Append(q, c)[Len(q) + 1] = c
        /\ \A i \in 1..Len(q) : Append(q, c)[i] = q[i]
        /\ Len(q) \in Nat
    BY <2>3, AppendProperties
  <2>5. Asked(c)' /\ \A d \in Clients : Asked(d) => Asked(d)'
    BY <1>6, <1>a DEF TypeOK, Dial
  <2>6. queue'[m] = Append(q, c) /\ \A k \in Machines \ {m} : queue'[k] = queue[k]
    BY <1>a, <2>1, <2>2 DEF TypeOK
  <2>7. \A i \in 1..Len(q) : q[i] \in Clients /\ dial[q[i]] = m /\ Asked(q[i])
    BY <1>a, <1>c, <2>1 DEF Dials
  <2>8. dial[c] = m  OBVIOUS
  <2> HIDE DEF m, q
  <2>9. ASSUME NEW i \in 1..Len(queue'[m])
        PROVE  dial[queue'[m][i]] = m /\ pc'[queue'[m][i]] \in Past
    <3>1. CASE i \in 1..Len(q)  BY <2>4, <2>5, <2>6, <2>7, <3>1
    <3>2. CASE i = Len(q) + 1  BY <2>4, <2>5, <2>6, <2>8, <3>2
    <3> QED  BY <2>4, <2>6, <3>1, <3>2
  <2>10. ASSUME NEW k \in Machines \ {m}, NEW i \in 1..Len(queue'[k])
         PROVE  dial[queue'[k][i]] = k /\ pc'[queue'[k][i]] \in Past
    BY <1>a, <1>c, <2>5, <2>6 DEF Dials
  <2> QED  BY <1>a, <2>2, <2>5, <2>9, <2>10 DEF Dials
<1>7. ASSUME NEW m \in Machines,
             \/ Arrive(m) \/ Drop(m) \/ RefuseKey(m) \/ Enrol(m) \/ RefuseTaken(m)
             \/ SayEnrolled(m) \/ HearGone(m)
      PROVE  Dials'
  BY <1>0, <1>7, <1>a
     DEF TypeOK, Arrive, Drop, RefuseKey, Enrol, RefuseTaken, SayEnrolled, HearGone
<1>8. ASSUME NEW m \in Machines, SayEnrolledFails(m) \/ Remove(m) PROVE Dials'
  <2>1. Len(<<>>) = 0  OBVIOUS
  <2>2. queue'[m] = <<>> /\ \A k \in Machines \ {m} : queue'[k] = queue[k]
    BY <1>8, <1>a DEF TypeOK, SayEnrolledFails, Remove
  <2>3. \A k \in Machines : hold'[k] = "sending" => hold[k] = "sending"
    BY <1>8, <1>a DEF TypeOK, SayEnrolledFails, Remove
  <2>4. UNCHANGED <<inhand, dial, by, offer, pc>>  BY <1>8 DEF SayEnrolledFails, Remove
  <2> QED  BY <1>a, <2>1, <2>2, <2>3, <2>4 DEF Dials
<1>9. ASSUME NEW m \in Machines, TakeDial(m) PROVE Dials'
  <2> DEFINE q == queue[m]
  <2>1. q \in Seq(Clients) /\ q # <<>>  BY <1>9, <1>b DEF TakeDial
  <2>2. /\ Len(q) \in Nat \ {0} /\ Head(q) = q[1] /\ Len(Tail(q)) = Len(q) - 1
        /\ \A i \in 1..Len(Tail(q)) : Tail(q)[i] = q[i + 1]
    BY <2>1, HeadTailProperties, EmptySeq, LenProperties
  <2>3. \A i \in 1..Len(q) : q[i] \in Clients /\ dial[q[i]] = m /\ Asked(q[i])
    BY <1>a, <1>c DEF Dials
  <2>4. /\ inhand' = [inhand EXCEPT ![m] = Head(q)] /\ queue' = [queue EXCEPT ![m] = Tail(q)]
        /\ hold' = [hold EXCEPT ![m] = "sending"]
        /\ UNCHANGED <<dial, by, offer, pc>>
    BY <1>9 DEF TakeDial
  <2>5. /\ inhand'[m] = Head(q) /\ queue'[m] = Tail(q)
        /\ \A k \in Machines \ {m} :
             inhand'[k] = inhand[k] /\ queue'[k] = queue[k] /\ hold'[k] = hold[k]
    BY <1>a, <2>4 DEF TypeOK
  <2> HIDE DEF q
  <2>6. ASSUME NEW i \in 1..Len(queue'[m])
        PROVE  dial[queue'[m][i]] = m /\ pc[queue'[m][i]] \in Past
    <3>1. i + 1 \in 1..Len(q) /\ queue'[m][i] = q[i + 1]  BY <2>2, <2>5
    <3> QED  BY <2>3, <3>1
  <2>7. Head(q) \in Clients /\ dial[Head(q)] = m /\ Asked(Head(q))
    <3>1. 1 \in 1..Len(q)  BY <2>2
    <3> QED  BY <2>2, <2>3, <3>1
  <2>8. ASSUME NEW k \in Machines, hold'[k] = "sending"
        PROVE  inhand'[k] \in Clients /\ dial[inhand'[k]] = k /\ pc[inhand'[k]] \in Past
    <3>1. CASE k = m  BY <2>5, <2>7, <3>1
    <3>2. CASE k # m  BY <1>a, <2>5, <2>8, <3>2 DEF Dials
    <3> QED  BY <3>1, <3>2
  <2>9. ASSUME NEW k \in Machines, NEW i \in 1..Len(queue'[k])
        PROVE  dial[queue'[k][i]] = k /\ pc[queue'[k][i]] \in Past
    <3>1. CASE k = m  BY <2>6, <3>1
    <3>2. CASE k # m  BY <1>a, <2>5, <3>2 DEF Dials
    <3> QED  BY <3>1, <3>2
  <2>10. UNCHANGED <<dial, by, offer, pc>>  BY <2>4
  <2> QED  BY <1>a, <2>8, <2>9, <2>10 DEF Dials
<1>10. ASSUME NEW m \in Machines, SendDial(m) PROVE Dials'
  <2>1. inhand[m] \in Clients /\ dial[inhand[m]] = m /\ Asked(inhand[m])
    BY <1>10, <1>a DEF Dials, SendDial
  <2>2. /\ hold'[m] = "holding" /\ by'[inhand[m]] = m
        /\ \A k \in Machines \ {m} : hold'[k] = hold[k] /\ inhand'[k] = inhand[k]
        /\ \A d \in Clients \ {inhand[m]} : by'[d] = by[d] /\ offer'[d] = offer[d]
        /\ UNCHANGED <<queue, dial, pc>>
    BY <1>10, <1>a, <2>1 DEF TypeOK, SendDial
  <2> QED  BY <1>a, <2>1, <2>2 DEF Dials
<1>11. ASSUME NEW m \in Machines, LoseDial(m) PROVE Dials'
  <2>1. /\ hold'[m] # "sending"
        /\ \A k \in Machines \ {m} : hold'[k] = hold[k] /\ inhand'[k] = inhand[k]
        /\ UNCHANGED <<queue, dial, by, offer, pc>>
    BY <1>11, <1>a DEF TypeOK, LoseDial
  <2> QED  BY <1>a, <2>1 DEF Dials
<1>12. CASE UNCHANGED vars  BY <1>0, <1>12 DEF vars
<1> QED
  BY <1>1, <1>2, <1>3, <1>4, <1>5, <1>6, <1>7, <1>8, <1>9, <1>10, <1>11, <1>12
  DEF Next, Held, Served

\* Every step keeps a client's dial one of its own account and name.
LEMMA StepKeepsLookups == RelayInv /\ [Next]_vars => Lookups'
<1> SUFFICES ASSUME RelayInv, [Next]_vars PROVE Lookups'  OBVIOUS
<1>a. TypeOK /\ Lookups /\ Entries  BY DEF RelayInv
<1> USE NobodyIsNoMachine DEF Goto, ClientAt, machineVars, clientVars, ticketVars
<1> DEFINE early == {"off", "greeted"}
           put == {"found", "ticketed", "waiting", "unsent", "late", "met", "joined"}
<1>0. ASSUME UNCHANGED dial,
             \A c \in Clients : /\ pc'[c] \in early => pc[c] \in early
                                /\ pc'[c] \in put => pc[c] \in put
      PROVE  Lookups'
  BY <1>a, <1>0 DEF Lookups
<1>1. ASSUME NEW m \in Machines, Arrive(m) \/ Drop(m) \/ Held(m) \/ SendDial(m)
      PROVE  Lookups'
  BY <1>0, <1>1
     DEF Arrive, Drop, Held, SendDial, RefuseKey, Enrol, RefuseTaken, SayEnrolled,
         SayEnrolledFails, TakeDial, LoseDial, HearGone, Remove
<1>2. ASSUME NEW c \in Clients, Ask(c) \/ Leave(c) \/ NotHere(c) \/ Mint(c) PROVE Lookups'
  BY <1>0, <1>2, <1>a DEF TypeOK, Ask, Leave, NotHere, Mint
<1>3. ASSUME NEW c \in Clients, Dial(c) \/ DialFails(c) \/ TimeOut(c) \/ GiveUp(c) PROVE Lookups'
  BY <1>0, <1>3, <1>a DEF TypeOK, Dial, DialFails, TimeOut, GiveUp
<1>4. ASSUME NEW c \in Clients, Meet(c) \/ Join(c) \/ JoinFails(c) \/ Part(c) PROVE Lookups'
  BY <1>0, <1>4, <1>a DEF TypeOK, Meet, Join, JoinFails, Part
<1>5. ASSUME NEW c \in Clients, Offer(c) \/ Claim(c) \/ HandOver(c) PROVE Lookups'
  BY <1>0, <1>5 DEF Offer, Claim, HandOver
<1>6. ASSUME NEW c \in Clients, Find(c) PROVE Lookups'
  <2>1. /\ dial'[c] = machines[Place[c]] /\ dial'[c] # Nobody /\ pc'[c] = "found"
        /\ \A d \in Clients \ {c} : dial'[d] = dial[d] /\ pc'[d] = pc[d]
        /\ c \in Keyed
    BY <1>6, <1>a DEF TypeOK, Find
  <2>2. Place[c] \in Places  BY DEF Places
  <2>3. Place[dial'[c]] = Place[c] /\ dial'[c] \in Keyed
    BY <1>a, <2>1, <2>2 DEF Entries
  <2> QED  BY <1>a, <2>1, <2>3 DEF Lookups
<1>7. CASE UNCHANGED vars  BY <1>0, <1>7 DEF vars
<1> QED  BY <1>1, <1>2, <1>3, <1>4, <1>5, <1>6, <1>7 DEF Next, Served

\* Every step keeps tickets, offers and introductions in step.
LEMMA StepKeepsTickets == RelayInv /\ [Next]_vars => Tickets'
<1> SUFFICES ASSUME RelayInv, [Next]_vars PROVE Tickets'  OBVIOUS
<1>a. TypeOK /\ Dials /\ Tickets  BY DEF RelayInv
<1> USE DEF Goto, ClientAt, machineVars, clientVars, ticketVars
<1>0. ASSUME UNCHANGED <<pc, ticketVars>> PROVE Tickets'
  BY <1>a, <1>0 DEF Tickets, TicketsEnd
<1>1. ASSUME NEW m \in Machines, Arrive(m) \/ Drop(m) \/ Held(m) PROVE Tickets'
  BY <1>0, <1>1
     DEF Arrive, Drop, Held, RefuseKey, Enrol, RefuseTaken, SayEnrolled, SayEnrolledFails,
         TakeDial, LoseDial, HearGone, Remove
<1>2. ASSUME NEW m \in Machines, SendDial(m) PROVE Tickets'
  <2>1. inhand[m] \in Clients /\ m # Nobody
    BY <1>2, <1>a, NobodyIsNoMachine DEF Dials, SendDial
  <2>2. /\ offer'[inhand[m]] = "dialled" /\ by'[inhand[m]] = m
        /\ \A d \in Clients \ {inhand[m]} : by'[d] = by[d] /\ offer'[d] = offer[d]
        /\ UNCHANGED <<pc, pending, rendezvous>>
    BY <1>2, <1>a, <2>1 DEF TypeOK, SendDial
  <2> QED  BY <1>a, <2>1, <2>2 DEF Tickets, TicketsEnd
<1>3. ASSUME NEW c \in Clients, Ask(c) \/ Leave(c) \/ Find(c) \/ NotHere(c) PROVE Tickets'
  <2>1. CASE Ask(c)  BY <2>1, <1>a DEF TypeOK, Tickets, TicketsEnd, Ask
  <2>2. CASE Leave(c)  BY <2>2, <1>a DEF TypeOK, Tickets, TicketsEnd, Leave
  <2>3. CASE Find(c)  BY <2>3, <1>a DEF TypeOK, Tickets, TicketsEnd, Find
  <2>4. CASE NotHere(c)  BY <2>4, <1>a DEF TypeOK, Tickets, TicketsEnd, NotHere
  <2> QED  BY <1>3, <2>1, <2>2, <2>3, <2>4
<1>4. ASSUME NEW c \in Clients, Mint(c) PROVE Tickets'
  <2>1. offer[c] = "none"  BY <1>4, <1>a DEF Dials, Asked, Past, Mint
  <2> QED  BY <1>4, <1>a, <2>1 DEF TypeOK, Tickets, TicketsEnd, Mint
<1>5. ASSUME NEW c \in Clients, Dial(c) \/ DialFails(c) \/ TimeOut(c) PROVE Tickets'
  <2>1. CASE Dial(c)  BY <2>1, <1>a DEF TypeOK, Tickets, TicketsEnd, Dial
  <2>2. CASE DialFails(c)  BY <2>2, <1>a DEF TypeOK, Tickets, TicketsEnd, DialFails
  <2>3. CASE TimeOut(c)  BY <2>3, <1>a DEF TypeOK, Tickets, TicketsEnd, TimeOut
  <2> QED  BY <1>5, <2>1, <2>2, <2>3
<1>6. ASSUME NEW c \in Clients, GiveUp(c) \/ Meet(c) PROVE Tickets'
  <2>1. CASE GiveUp(c)  BY <2>1, <1>a DEF TypeOK, Tickets, TicketsEnd, GiveUp
  <2>2. CASE Meet(c)  BY <2>2, <1>a DEF TypeOK, Tickets, TicketsEnd, Meet
  <2> QED  BY <1>6, <2>1, <2>2
<1>7. ASSUME NEW c \in Clients, Join(c) \/ JoinFails(c) \/ Part(c) PROVE Tickets'
  <2>1. CASE Join(c)  BY <2>1, <1>a DEF TypeOK, Tickets, TicketsEnd, Join
  <2>2. CASE JoinFails(c)  BY <2>2, <1>a DEF TypeOK, Tickets, TicketsEnd, JoinFails
  <2>3. CASE Part(c)  BY <2>3, <1>a DEF TypeOK, Tickets, TicketsEnd, Part
  <2> QED  BY <1>7, <2>1, <2>2, <2>3
<1>8. ASSUME NEW c \in Clients, Offer(c) \/ Claim(c) PROVE Tickets'
  <2>1. CASE Offer(c)  BY <2>1, <1>a DEF TypeOK, Tickets, TicketsEnd, Offer
  <2>2. CASE Claim(c)  BY <2>2, <1>a DEF TypeOK, Tickets, TicketsEnd, Claim
  <2> QED  BY <1>8, <2>1, <2>2
<1>9. ASSUME NEW c \in Clients, HandOver(c) PROVE Tickets'
  <2>1. by[c] # Nobody /\ c \notin pending
    BY <1>9, <1>a DEF Dials, Tickets, HandOver
  <2> QED  BY <1>9, <1>a, <2>1 DEF TypeOK, Tickets, TicketsEnd, HandOver
<1>10. CASE UNCHANGED vars  BY <1>0, <1>10 DEF vars
<1> QED
  BY <1>1, <1>2, <1>3, <1>4, <1>5, <1>6, <1>7, <1>8, <1>9, <1>10 DEF Next, Served

\* The invariant holds throughout.
THEOREM RelayKeepsInv == Spec => []RelayInv
<1>1. RelayInv /\ [Next]_vars => RelayInv'
  BY StepKeepsTypes, StepKeepsEntries, StepKeepsDials, StepKeepsLookups, StepKeepsTickets
  DEF RelayInv
<1> QED  BY <1>1, RelayStarts, PTL DEF Spec

\* The relay's variables keep their types, its queues their bound.
THEOREM RelayTyped == Spec => []TypeOK
<1>1. RelayInv => TypeOK  BY DEF RelayInv
<1> QED  BY <1>1, RelayKeepsInv, PTL

\* Two connections are never held under one account and name.
THEOREM PlacesAreHeldOnce == Spec => []OnePerPlace
<1>1. RelayInv => OnePerPlace
  BY DEF RelayInv, Entries, OnePerPlace
<1> QED  BY <1>1, RelayKeepsInv, PTL

\* A client is only ever put through to its own account's machine of the name.
THEOREM ClientsMeetTheirOwn == Spec => []OwnMachine
<1>1. RelayInv => OwnMachine
  BY DEF RelayInv, Dials, Lookups, Tickets, OwnMachine
<1> QED  BY <1>1, RelayKeepsInv, PTL

\* No ticket outlives its introduction.
THEOREM NoTicketLingers == Spec => []TicketsEnd
<1>1. RelayInv => TicketsEnd  BY DEF RelayInv, Tickets
<1> QED  BY <1>1, RelayKeepsInv, PTL

-----------------------------------------------------------------------------
(* The relay implements Introductions. *)

SeenIn == {m \in Machines : hold[m] \in Holding \cup {"gone"}}
DroppedIn == {m \in Machines : link[m] = "down"}
OutcomeIn == [c \in Clients |-> Outcome(c)]

\* The initial states are those of the abstract specification.
LEMMA RelayStartsAsPromised == Init => Promise!Init
<1> SUFFICES ASSUME Init PROVE Promise!Init  OBVIOUS
<1>1. Places = Promise!Places  BY DEF Places, Promise!Places
<1>2. SeenIn = {} /\ DroppedIn = {}  BY DEF Init, SeenIn, DroppedIn, Holding
<1>3. OutcomeIn = [c \in Clients |-> "asking"]  BY DEF Init, OutcomeIn, Outcome
<1> QED  BY <1>1, <1>2, <1>3 DEF Init, Promise!Init, SeenIn, DroppedIn, OutcomeIn

\* What one client's move does to what became of everybody.
LEMMA OutcomeMoves ==
    ASSUME TypeOK, NEW c \in Clients, NEW where \in ClientAt, Goto(c, where)
    PROVE  \A o : (Outcome(c)' = o) => OutcomeIn' = [OutcomeIn EXCEPT ![c] = o]
<1>1. pc'[c] = where /\ \A d \in Clients \ {c} : pc'[d] = pc[d]  BY DEF TypeOK, Goto
<1>2. \A d \in Clients \ {c} : Outcome(d)' = Outcome(d)  BY <1>1 DEF Outcome
<1> QED  BY <1>1, <1>2 DEF OutcomeIn

\* Every step introduces as the abstract specification does, or not at all.
LEMMA RelayStepIsPromised == RelayInv /\ [Next]_vars => [Promise!Next]_(Promise!introductions)
<1> SUFFICES ASSUME RelayInv, [Next]_vars PROVE [Promise!Next]_(Promise!introductions)
  OBVIOUS
<1>a. TypeOK /\ Entries /\ Lookups  BY DEF RelayInv
<1>b. ASSUME UNCHANGED <<machines, dial>>, SeenIn' = SeenIn, DroppedIn' = DroppedIn,
             OutcomeIn' = OutcomeIn
      PROVE  UNCHANGED Promise!introductions
  BY <1>b DEF Promise!introductions, SeenIn, DroppedIn, OutcomeIn
<1> USE DEF machineVars, clientVars, ticketVars
<1>c. UNCHANGED hold => SeenIn' = SeenIn  BY DEF SeenIn
<1>d. UNCHANGED link => DroppedIn' = DroppedIn  BY DEF DroppedIn
<1>e. UNCHANGED pc => OutcomeIn' = OutcomeIn  BY DEF OutcomeIn, Outcome
<1>1. ASSUME NEW m \in Machines, Arrive(m) \/ RefuseKey(m) \/ RefuseTaken(m)
      PROVE  UNCHANGED Promise!introductions
  <2>1. SeenIn' = SeenIn
    BY <1>1, <1>a DEF Arrive, RefuseKey, RefuseTaken, Turn, SeenIn, TypeOK, Holding
  <2>2. DroppedIn' = DroppedIn
    <3>1. ASSUME Arrive(m) PROVE DroppedIn' = DroppedIn
      BY <1>a, <3>1 DEF Arrive, DroppedIn, TypeOK, Entries
    <3> QED  BY <1>1, <1>d, <3>1 DEF RefuseKey, RefuseTaken
  <2> QED  BY <1>1, <1>b, <1>e, <2>1, <2>2 DEF Arrive, RefuseKey, RefuseTaken
<1>2. ASSUME NEW m \in Machines, Drop(m) PROVE Promise!Next
  <2>1. DroppedIn' = DroppedIn \cup {m}
    BY <1>2, <1>a DEF Drop, DroppedIn, TypeOK
  <2>2. Promise!Drop(m)
    BY <1>2, <1>c, <1>e, <2>1 DEF Drop, Promise!Drop, SeenIn, DroppedIn, OutcomeIn
  <2> QED  BY <2>2 DEF Promise!Next
<1>3. ASSUME NEW m \in Machines, Enrol(m) PROVE Promise!Next
  <2>1. m \notin SeenIn /\ SeenIn' = SeenIn \cup {m}
    BY <1>3, <1>a DEF Enrol, Turn, SeenIn, TypeOK, Holding
  <2>2. Promise!Appear(m)
    BY <1>3, <1>d, <1>e, <2>1 DEF Enrol, Promise!Appear, SeenIn, DroppedIn, OutcomeIn
  <2> QED  BY <2>2 DEF Promise!Next
<1>4. ASSUME NEW m \in Machines, Remove(m) PROVE Promise!Next
  <2>1. SeenIn' = SeenIn
    BY <1>4, <1>a DEF Remove, Turn, SeenIn, TypeOK, Holding
  <2>2. m \in DroppedIn /\ machines[Place[m]] = m
    BY <1>4, <1>a DEF Remove, Entries, Listening, Holding, DroppedIn
  <2>3. Promise!Vanish(m)
    BY <1>4, <1>d, <1>e, <2>1, <2>2 DEF Remove, Promise!Vanish, SeenIn, DroppedIn, OutcomeIn
  <2> QED  BY <2>3 DEF Promise!Next
<1>5. ASSUME NEW m \in Machines, SayEnrolled(m) \/ SayEnrolledFails(m) \/ TakeDial(m)
                                 \/ SendDial(m) \/ LoseDial(m) \/ HearGone(m)
      PROVE  UNCHANGED Promise!introductions
  <2>1. hold[m] \in Holding /\ \E where \in Holding \cup {"gone"} : Turn(m, where)
    BY <1>5 DEF SayEnrolled, SayEnrolledFails, TakeDial, SendDial, LoseDial, HearGone, Holding
  <2>2. SeenIn' = SeenIn  BY <1>a, <2>1 DEF Turn, SeenIn, TypeOK
  <2>3. UNCHANGED <<machines, link, pc, dial>>
    BY <1>5 DEF SayEnrolled, SayEnrolledFails, TakeDial, SendDial, LoseDial, HearGone
  <2> QED  BY <1>b, <1>d, <1>e, <2>2, <2>3
<1>6. ASSUME NEW c \in Clients, Leave(c) \/ Offer(c) \/ Claim(c) \/ HandOver(c)
      PROVE  UNCHANGED Promise!introductions
  BY <1>6, <1>b, <1>c, <1>d, <1>e DEF Leave, Offer, Claim, HandOver
<1>7. ASSUME NEW c \in Clients, Ask(c) \/ Mint(c) \/ Dial(c) \/ DialFails(c) \/ TimeOut(c) \/ Meet(c)
      PROVE  UNCHANGED Promise!introductions
  <2>1. Outcome(c) = "asking" /\ Outcome(c)' = "asking"
    BY <1>7, <1>a DEF Ask, Mint, Dial, DialFails, TimeOut, Meet, Goto, TypeOK, Outcome
  <2>2. \A d \in Clients \ {c} : Outcome(d)' = Outcome(d)
    BY <1>7, <1>a DEF Ask, Mint, Dial, DialFails, TimeOut, Meet, Goto, TypeOK, Outcome
  <2>3. OutcomeIn' = OutcomeIn  BY <2>1, <2>2 DEF OutcomeIn
  <2> QED
    BY <1>7, <1>b, <1>c, <1>d, <2>3 DEF Ask, Mint, Dial, DialFails, TimeOut, Meet
<1>8. ASSUME NEW c \in Clients, Find(c) PROVE Promise!Next
  <2>1. Outcome(c) = "asking" /\ Outcome(c)' = "asking"
    BY <1>8, <1>a DEF Find, Goto, TypeOK, Outcome
  <2>2. \A d \in Clients \ {c} : Outcome(d)' = Outcome(d)
    BY <1>8, <1>a DEF Find, Goto, TypeOK, Outcome
  <2>3. OutcomeIn' = OutcomeIn  BY <2>1, <2>2 DEF OutcomeIn
  <2>4. dial[c] = Nobody /\ OutcomeIn[c] = "asking"
    BY <1>8, <1>a, <2>1 DEF Find, Lookups, OutcomeIn
  <2>5. Promise!Choose(c)
    BY <1>8, <1>c, <1>d, <2>3, <2>4 DEF Find, Promise!Choose, SeenIn, DroppedIn, OutcomeIn
  <2> QED  BY <2>5 DEF Promise!Next
<1>9. ASSUME NEW c \in Clients, NotHere(c) \/ GiveUp(c) \/ JoinFails(c) PROVE Promise!Next
  <2>1. Outcome(c) = "asking" /\ Outcome(c)' = "refused"
    BY <1>9, <1>a DEF NotHere, GiveUp, JoinFails, Goto, TypeOK, Outcome
  <2>2. \E where \in ClientAt : Goto(c, where)
    BY <1>9 DEF NotHere, GiveUp, JoinFails, ClientAt
  <2>3. OutcomeIn' = [OutcomeIn EXCEPT ![c] = "refused"] /\ OutcomeIn[c] = "asking"
    BY <1>a, <2>1, <2>2, OutcomeMoves DEF OutcomeIn
  <2>4. Promise!Refuse(c)
    BY <1>9, <1>c, <1>d, <2>3
       DEF NotHere, GiveUp, JoinFails, Promise!Refuse, SeenIn, DroppedIn, OutcomeIn
  <2> QED  BY <2>4 DEF Promise!Next
<1>10. ASSUME NEW c \in Clients, Join(c) PROVE Promise!Next
  <2>1. Outcome(c) = "asking" /\ Outcome(c)' = "introduced"
    BY <1>10, <1>a DEF Join, Goto, TypeOK, Outcome
  <2>2. \E where \in ClientAt : Goto(c, where)  BY <1>10 DEF Join, ClientAt
  <2>3. OutcomeIn' = [OutcomeIn EXCEPT ![c] = "introduced"] /\ OutcomeIn[c] = "asking"
    BY <1>a, <2>1, <2>2, OutcomeMoves DEF OutcomeIn
  <2>4. dial[c] # Nobody  BY <1>10, <1>a DEF Join, Lookups
  <2>5. Promise!Introduce(c)
    BY <1>10, <1>c, <1>d, <2>3, <2>4 DEF Join, Promise!Introduce, SeenIn, DroppedIn, OutcomeIn
  <2> QED  BY <2>5 DEF Promise!Next
<1>11. ASSUME NEW c \in Clients, Part(c) PROVE Promise!Next
  <2>1. Outcome(c) = "introduced" /\ Outcome(c)' = "parted"
    BY <1>11, <1>a DEF Part, Goto, TypeOK, Outcome
  <2>2. \E where \in ClientAt : Goto(c, where)  BY <1>11 DEF Part, ClientAt
  <2>3. OutcomeIn' = [OutcomeIn EXCEPT ![c] = "parted"] /\ OutcomeIn[c] = "introduced"
    BY <1>a, <2>1, <2>2, OutcomeMoves DEF OutcomeIn
  <2>4. Promise!Part(c)
    BY <1>11, <1>c, <1>d, <2>3 DEF Part, Promise!Part, SeenIn, DroppedIn, OutcomeIn
  <2> QED  BY <2>4 DEF Promise!Next
<1>12. CASE UNCHANGED vars
  BY <1>12, <1>b, <1>c, <1>d, <1>e DEF vars
<1> QED
  BY <1>1, <1>2, <1>3, <1>4, <1>5, <1>6, <1>7, <1>8, <1>9, <1>10, <1>11, <1>12
  DEF Next, Held, Served

\* The relay implements Introductions: whoever is put through was put through
\* to the machine present in its own place when it was looked up, and nobody
\* vanishes from a place but by losing its connection.
THEOREM RelayKeepsPromise == Spec => KeepsPromise
<1> QED
  BY RelayStartsAsPromised, RelayKeepsInv, RelayStepIsPromised, PTL
  DEF Spec, KeepsPromise, Promise!Spec

-----------------------------------------------------------------------------
(* Who is behind an entry, and who behind an offer. *)

\* Telling the machine it was enrolled failed, and its task is gone.
LostInGreeting(m) == hold[m] = "gone" /\ link[m] = "down"

\* An entry has the task of a connection behind it, or the one whose greeting
\* was lost: that is the only way PresenceIsTheConnection fails, and a client
\* that finds such an entry finds nobody listening (relay.rs:327-356).
EntriesAreHeldOrLost ==
    \A p \in Places : machines[p] # Nobody => Listening(machines[p]) \/ LostInGreeting(machines[p])

\* ... and then nobody ever has the place again: an enrolment is refused, and
\* the only task that would have removed the entry is gone (relay.rs:337-356).
LostPlacesStayLost ==
    [][\A p \in Places :
           machines[p] # Nobody /\ LostInGreeting(machines[p]) => machines'[p] = machines[p]]_vars

\* A client that waits has a ticket to be claimed, a claim under way, or a socket
\* to pick up: it is never left to its timeout by a machine that was turned away.
\* A socket handed over is one its client is there to join or close, and a joined
\* one ends with the conversation (relay.rs:244-259, 416-442).
NobodyWaitsInVain ==
    \A c \in Clients :
        /\ pc[c] = "waiting" =>
             \/ rendezvous[c] = "open" /\ c \in pending /\ offer[c] \in {"none", "dialled", "offered"}
             \/ rendezvous[c] = "open" /\ offer[c] = "claimed"
             \/ rendezvous[c] = "full" /\ offer[c] = "handed"
        /\ offer[c] = "handed" => pc[c] \in {"waiting", "met"}
        /\ offer[c] = "joined" <=> pc[c] = "joined"

\* A client whose dial has not been sent, and was not refused for want of a receiver.
Fresh(c) == by[c] = Nobody /\ pc[c] # "unsent"

\* A dial is in one place of one queue, or in one hand, and is sent once.
SentOnce ==
    /\ \A m \in Machines : \A i \in 1..Len(queue[m]) :
         /\ Fresh(queue[m][i])
         /\ \A j \in 1..Len(queue[m]) : queue[m][i] = queue[m][j] => i = j
         /\ hold[m] = "sending" => queue[m][i] # inhand[m]
    /\ \A m \in Machines : hold[m] = "sending" => Fresh(inhand[m])
    /\ \A c \in Clients : by[c] # Nobody => pc[c] # "unsent"

\* Where the rest of a meeting is when its client is where it is.
Meeting(c) ==
    /\ pc[c] = "ticketed" => c \in pending
    /\ pc[c] \in {"ticketed", "unsent"} => rendezvous[c] = "open"
    /\ pc[c] \in {"met", "joined", "late"} => rendezvous[c] = "closed"
    /\ pc[c] = "met" => offer[c] = "handed"
    /\ rendezvous[c] = "open" => pc[c] \in {"ticketed", "unsent", "waiting"}

MeetingInv == SentOnce /\ NobodyWaitsInVain /\ \A c \in Clients : Meeting(c)

\* An entry has somebody behind it, or somebody who was lost in the greeting.
LEMMA StepKeepsPresence ==
    RelayInv /\ EntriesAreHeldOrLost /\ [Next]_vars => EntriesAreHeldOrLost'
<1> SUFFICES ASSUME RelayInv, EntriesAreHeldOrLost, [Next]_vars PROVE EntriesAreHeldOrLost'
  OBVIOUS
<1>a. TypeOK /\ Entries
  BY DEF RelayInv
<1>b. \A x \in Machines \cup Clients : Place[x] \in Places
  BY DEF Places
<1> USE NobodyIsNoMachine
    DEF Turn, Listening, Holding, machineVars, EntriesAreHeldOrLost, LostInGreeting
<1>0. ASSUME UNCHANGED <<machines, hold, link>> PROVE EntriesAreHeldOrLost'
  BY <1>0
<1>1. ASSUME NEW c \in Clients,
             \/ Ask(c) \/ Leave(c) \/ Served(c) \/ Part(c) \/ Offer(c) \/ Claim(c) \/ HandOver(c)
      PROVE  EntriesAreHeldOrLost'
  BY <1>0, <1>1
     DEF Ask, Leave, Served, Part, Offer, Claim, HandOver, Find, NotHere, Mint, Dial,
         DialFails, TimeOut, GiveUp, Meet, Join, JoinFails
<1>2. ASSUME NEW m \in Machines, Arrive(m) \/ Drop(m) PROVE EntriesAreHeldOrLost'
  BY <1>a, <1>2 DEF TypeOK, Arrive, Drop
<1>c. ASSUME NEW m \in Machines, NEW where \in HoldAt, Turn(m, where), UNCHANGED <<machines, link>>,
             Listening(m) => where \in Holding \/ (where = "gone" /\ link[m] = "down"),
             hold[m] # "gone"
      PROVE  EntriesAreHeldOrLost'
  <2>1. hold'[m] = where /\ \A n \in Machines \ {m} : hold'[n] = hold[n]
    BY <1>a, <1>c DEF TypeOK
  <2> QED
    BY <1>a, <1>c, <2>1 DEF TypeOK
<1>3. ASSUME NEW m \in Machines, RefuseKey(m) \/ RefuseTaken(m) \/ SayEnrolled(m)
      PROVE  EntriesAreHeldOrLost'
  BY <1>c, <1>3 DEF RefuseKey, RefuseTaken, SayEnrolled, HoldAt
<1>4. ASSUME NEW m \in Machines, Enrol(m) \/ SayEnrolledFails(m) PROVE EntriesAreHeldOrLost'
  <2>1. CASE SayEnrolledFails(m)
    BY <1>c, <2>1 DEF SayEnrolledFails, HoldAt
  <2>2. CASE Enrol(m)
    <3>1. /\ hold'[m] = "enrolled" /\ \A n \in Machines \ {m} : hold'[n] = hold[n]
          /\ machines'[Place[m]] = m /\ \A p \in Places \ {Place[m]} : machines'[p] = machines[p]
          /\ hold[m] = "greeted" /\ UNCHANGED link
      BY <1>a, <1>b, <2>2 DEF TypeOK, Enrol
    <3>2. ASSUME NEW p \in Places, machines'[p] # Nobody
          PROVE  \/ hold'[machines'[p]] \in {"enrolled", "holding", "sending", "leaving"}
                 \/ hold'[machines'[p]] = "gone" /\ link'[machines'[p]] = "down"
      <4>1. CASE p = Place[m]
        BY <3>1, <4>1
      <4>2. CASE p # Place[m]
        <5>1. machines'[p] = machines[p] /\ machines[p] \in Machines
          BY <1>a, <3>1, <3>2, <4>2 DEF TypeOK
        <5>2. Listening(machines[p]) \/ LostInGreeting(machines[p])
          BY <3>2, <5>1
        <5>3. machines[p] # m
          BY <3>1, <5>2
        <5> QED
          BY <3>1, <5>1, <5>2, <5>3
      <4> QED
        BY <4>1, <4>2
    <3> QED
      BY <3>2
  <2> QED
    BY <1>4, <2>1, <2>2
<1>5. ASSUME NEW m \in Machines, TakeDial(m) \/ SendDial(m) \/ LoseDial(m) \/ HearGone(m)
      PROVE  EntriesAreHeldOrLost'
  BY <1>c, <1>5 DEF TakeDial, SendDial, LoseDial, HearGone, HoldAt
<1>6. ASSUME NEW m \in Machines, Remove(m) PROVE EntriesAreHeldOrLost'
  BY <1>a, <1>b, <1>6 DEF TypeOK, Entries, Remove
<1>7. CASE UNCHANGED vars
  BY <1>0, <1>7 DEF vars
<1> QED
  BY <1>1, <1>2, <1>3, <1>4, <1>5, <1>6, <1>7 DEF Next, Held

\* An entry with nobody behind it is one whose connection was lost as it enrolled.
THEOREM OnlyLostGreetingsLinger == Spec => []EntriesAreHeldOrLost
<1>1. Init => EntriesAreHeldOrLost
  BY DEF Init, EntriesAreHeldOrLost
<1> QED  BY <1>1, StepKeepsPresence, RelayKeepsInv, PTL DEF Spec

\* Nobody has the place of such an entry again.
THEOREM LingeringEntriesStay == Spec => LostPlacesStayLost
<1>1. RelayInv /\ [Next]_vars =>
          [\A p \in Places :
               machines[p] # Nobody /\ LostInGreeting(machines[p]) => machines'[p] = machines[p]]_vars
  <2> SUFFICES ASSUME RelayInv, Next, NEW p \in Places, machines[p] # Nobody,
                      LostInGreeting(machines[p])
               PROVE  machines'[p] = machines[p]
    OBVIOUS
  <2>a. TypeOK /\ Entries
    BY DEF RelayInv
  <2>1. CASE UNCHANGED machines
    BY <2>1
  <2>2. ASSUME NEW m \in Machines, Enrol(m) PROVE machines'[p] = machines[p]
    BY <2>a, <2>2 DEF Enrol, TypeOK
  <2>3. ASSUME NEW m \in Machines, Remove(m) PROVE machines'[p] = machines[p]
    BY <2>a, <2>3 DEF Remove, TypeOK, Entries, Listening, Holding, LostInGreeting
  <2> QED
    BY <2>1, <2>2, <2>3
       DEF Next, Held, Arrive, Drop, RefuseKey, RefuseTaken, SayEnrolled, SayEnrolledFails,
           TakeDial, SendDial, LoseDial, HearGone, Ask, Leave, Served, Part, Offer, Claim,
           HandOver, Find, NotHere, Mint, Dial, DialFails, TimeOut, GiveUp, Meet, Join,
           JoinFails, machineVars, clientVars, ticketVars
<1> QED  BY <1>1, RelayKeepsInv, PTL DEF Spec, LostPlacesStayLost

\* Every step sends a dial once.
LEMMA StepKeepsSentOnce == RelayInv /\ SentOnce /\ [Next]_vars => SentOnce'
<1> SUFFICES ASSUME RelayInv, SentOnce, [Next]_vars PROVE SentOnce'
  OBVIOUS
<1>a. TypeOK /\ Dials
  BY DEF RelayInv
<1>b. \A m \in Machines : queue[m] \in Seq(Clients) /\ Len(queue[m]) \in Nat
  BY <1>a, LenProperties DEF TypeOK
<1>c. \A m \in Machines : \A i \in 1..Len(queue[m]) : queue[m][i] \in Clients
  BY <1>b, ElementOfSeq
<1>d. \A m \in Machines : hold[m] = "sending" => inhand[m] \in Clients
  BY <1>a DEF Dials
<1> USE NobodyIsNoMachine, ClientsAreNotMachines
    DEF Turn, Goto, Fresh, machineVars, clientVars, ticketVars
<1>0. ASSUME UNCHANGED <<queue, inhand, by>>,
             \A m \in Machines : hold'[m] = "sending" => hold[m] = "sending",
             \A c \in Clients : pc'[c] = "unsent" => pc[c] = "unsent"
      PROVE  SentOnce'
  BY <1>c, <1>d, <1>0 DEF SentOnce
<1>1. ASSUME NEW c \in Clients, Ask(c) \/ Leave(c) \/ Find(c) \/ NotHere(c) \/ Mint(c)
      PROVE  SentOnce'
  BY <1>0, <1>1, <1>a DEF TypeOK, Ask, Leave, Find, NotHere, Mint
<1>2. ASSUME NEW c \in Clients, TimeOut(c) \/ GiveUp(c) \/ Meet(c) PROVE SentOnce'
  BY <1>0, <1>2, <1>a DEF TypeOK, TimeOut, GiveUp, Meet
<1>3. ASSUME NEW c \in Clients, Join(c) \/ JoinFails(c) \/ Part(c) PROVE SentOnce'
  BY <1>0, <1>3, <1>a DEF TypeOK, Join, JoinFails, Part
<1>4. ASSUME NEW c \in Clients, Offer(c) \/ Claim(c) \/ HandOver(c) PROVE SentOnce'
  BY <1>0, <1>4, <1>a DEF TypeOK, Offer, Claim, HandOver
<1>e. \A c \in Clients : pc[c] = "ticketed" =>
          /\ by[c] = Nobody
          /\ \A m \in Machines : \A i \in 1..Len(queue[m]) : queue[m][i] # c
          /\ \A m \in Machines : hold[m] = "sending" => inhand[m] # c
  BY <1>a DEF Dials, Asked, Past
<1>5. ASSUME NEW c \in Clients, DialFails(c) PROVE SentOnce'
  <2>1. /\ pc[c] = "ticketed" /\ UNCHANGED <<queue, inhand, by, hold>>
        /\ \A d \in Clients \ {c} : pc'[d] = pc[d]
    BY <1>5, <1>a DEF TypeOK, DialFails
  <2> QED
    BY <1>c, <1>d, <1>e, <2>1 DEF SentOnce
<1>6. ASSUME NEW c \in Clients, Dial(c) PROVE SentOnce'
  <2>1. PICK m \in Machines : m = dial[c]
    BY <1>6, <1>a DEF TypeOK, Lookups, Dial, RelayInv
  <2>2. /\ queue' = [queue EXCEPT ![m] = Append(queue[m], c)]
        /\ pc[c] = "ticketed" /\ UNCHANGED <<hold, inhand, by>>
    BY <1>6, <2>1 DEF Dial
  <2>3. PICK q \in Seq(Clients), more \in Seq(Clients) :
          q = queue[m] /\ more = Append(q, c)
    BY <1>b, AppendProperties
  <2>4. /\ Len(more) = Len(q) + 1 /\ more[Len(q) + 1] = c /\ Len(q) \in Nat
        /\ \A i \in 1..Len(q) : more[i] = q[i]
    BY <2>3, AppendProperties, LenProperties
  <2>5. /\ queue'[m] = more /\ \A k \in Machines \ {m} : queue'[k] = queue[k]
        /\ pc'[c] = "waiting" /\ \A d \in Clients \ {c} : pc'[d] = pc[d]
    BY <1>6, <1>a, <2>2, <2>3 DEF TypeOK, Dial
  <2>6. \A d \in Clients : Fresh(d) /\ pc[d] # "unsent" => Fresh(d)'
    BY <2>2, <2>5
  <2>7. ASSUME NEW i \in 1..Len(more)
        PROVE  /\ by[more[i]] = Nobody /\ pc'[more[i]] # "unsent" /\ more[i] \in Clients
               /\ \A j \in 1..Len(more) : more[i] = more[j] => i = j
               /\ hold[m] = "sending" => more[i] # inhand[m]
    <3>1. \A j \in 1..Len(q) : /\ q[j] \in Clients \ {c} /\ Fresh(q[j])
                               /\ \A k \in 1..Len(q) : q[j] = q[k] => j = k
                               /\ hold[m] = "sending" => q[j] # inhand[m]
      BY <1>c, <1>e, <2>2, <2>3 DEF SentOnce
    <3>2. \A j \in 1..Len(more) : \/ j \in 1..Len(q) /\ more[j] = q[j]
                                  \/ j = Len(q) + 1 /\ more[j] = c
      BY <2>4
    <3>3. /\ by[c] = Nobody /\ pc'[c] # "unsent"
          /\ hold[m] = "sending" => c # inhand[m]
      BY <1>e, <2>2, <2>5
    <3> QED
      BY <2>2, <2>5, <3>1, <3>2, <3>3
  <2>8. ASSUME NEW k \in Machines
        PROVE  /\ \A i \in 1..Len(queue'[k]) :
                    /\ by[queue'[k][i]] = Nobody /\ pc'[queue'[k][i]] # "unsent"
                    /\ \A j \in 1..Len(queue'[k]) : queue'[k][i] = queue'[k][j] => i = j
                    /\ hold[k] = "sending" => queue'[k][i] # inhand[k]
               /\ hold[k] = "sending" => by[inhand[k]] = Nobody /\ pc'[inhand[k]] # "unsent"
    <3>1. CASE k = m
      <4>1. queue'[k] = more /\ (hold[k] = "sending" => Fresh(inhand[k]) /\ inhand[k] # c)
        BY <1>e, <2>2, <2>5, <3>1 DEF SentOnce
      <4>2. hold[k] = "sending" => by[inhand[k]] = Nobody /\ pc'[inhand[k]] # "unsent"
        BY <1>d, <2>5, <4>1
      <4> QED
        BY <2>7, <3>1, <4>1, <4>2
    <3>2. CASE k # m
      BY <1>c, <1>d, <2>2, <2>5, <3>2 DEF SentOnce
    <3> QED
      BY <3>1, <3>2
  <2> QED
    BY <2>2, <2>5, <2>8 DEF SentOnce
<1>7. ASSUME NEW m \in Machines,
             \/ Arrive(m) \/ Drop(m) \/ RefuseKey(m) \/ Enrol(m) \/ RefuseTaken(m)
             \/ SayEnrolled(m) \/ HearGone(m)
      PROVE  SentOnce'
  BY <1>0, <1>7, <1>a
     DEF TypeOK, Arrive, Drop, RefuseKey, Enrol, RefuseTaken, SayEnrolled, HearGone
<1>8. ASSUME NEW m \in Machines, SayEnrolledFails(m) \/ Remove(m) PROVE SentOnce'
  <2>1. Len(<<>>) = 0
    OBVIOUS
  <2>2. /\ queue'[m] = <<>> /\ \A k \in Machines \ {m} : queue'[k] = queue[k]
        /\ \A k \in Machines : hold'[k] = "sending" => hold[k] = "sending"
        /\ UNCHANGED <<inhand, by, pc>>
    BY <1>8, <1>a DEF TypeOK, SayEnrolledFails, Remove
  <2> QED
    BY <2>1, <2>2 DEF SentOnce
<1>9. ASSUME NEW m \in Machines, TakeDial(m) PROVE SentOnce'
  <2>1. PICK q \in Seq(Clients), rest \in Seq(Clients) :
          q = queue[m] /\ q # <<>> /\ rest = Tail(q)
    BY <1>9, <1>b, HeadTailProperties DEF TakeDial
  <2>2. /\ Len(q) \in Nat \ {0} /\ Head(q) = q[1] /\ Len(rest) = Len(q) - 1
        /\ \A i \in 1..Len(rest) : rest[i] = q[i + 1]
    BY <2>1, HeadTailProperties, EmptySeq, LenProperties
  <2>3. /\ inhand'[m] = q[1] /\ queue'[m] = rest
        /\ \A k \in Machines \ {m} :
             inhand'[k] = inhand[k] /\ queue'[k] = queue[k] /\ hold'[k] = hold[k]
        /\ UNCHANGED <<by, pc>>
    BY <1>9, <1>a, <2>1, <2>2 DEF TypeOK, TakeDial
  <2>4. \A j \in 1..Len(q) : /\ Fresh(q[j])
                             /\ \A k \in 1..Len(q) : q[j] = q[k] => j = k
    BY <2>1 DEF SentOnce
  <2>5. ASSUME NEW i \in 1..Len(rest)
        PROVE  /\ Fresh(rest[i]) /\ rest[i] # q[1]
               /\ \A j \in 1..Len(rest) : rest[i] = rest[j] => i = j
    <3>1. ASSUME NEW j \in 1..Len(rest)
          PROVE  j + 1 \in 1..Len(q) /\ j + 1 # 1 /\ rest[j] = q[j + 1]
      <4>1. Len(q) \in Nat /\ Len(rest) = Len(q) - 1 /\ rest[j] = q[j + 1]
        BY <2>2
      <4>2. j \in Int /\ 1 <= j /\ j <= Len(q) - 1
        BY <4>1
      <4> QED
        BY <4>1, <4>2
    <3>2. 1 \in 1..Len(q)
      BY <2>2
    <3>3. ASSUME NEW j \in 1..Len(rest), rest[i] = rest[j] PROVE i + 1 = j + 1
      <4>1. /\ i + 1 \in 1..Len(q) /\ j + 1 \in 1..Len(q)
            /\ q[i + 1] = rest[i] /\ q[j + 1] = rest[j]
        BY <3>1
      <4>2. \A a, b \in 1..Len(q) : q[a] = q[b] => a = b
        BY <2>4
      <4> QED
        BY <3>3, <4>1, <4>2
    <3> QED
      BY <2>4, <3>1, <3>2, <3>3
  <2>6. Fresh(q[1])
    <3>1. 1 \in 1..Len(q)
      BY <2>2
    <3> QED
      BY <2>4, <3>1
  <2> QED
    BY SMTT(30), <2>3, <2>5, <2>6 DEF SentOnce
<1>10. ASSUME NEW m \in Machines, SendDial(m) PROVE SentOnce'
  <2>1. PICK c \in Clients : c = inhand[m] /\ hold[m] = "sending" /\ dial[c] = m
    BY <1>10, <1>a DEF Dials, SendDial
  <2>2. /\ hold'[m] = "holding" /\ by'[c] = m
        /\ \A k \in Machines \ {m} : hold'[k] = hold[k] /\ inhand'[k] = inhand[k]
        /\ \A d \in Clients \ {c} : by'[d] = by[d]
        /\ UNCHANGED <<queue, pc>>
    BY <1>10, <1>a, <2>1 DEF TypeOK, SendDial
  <2>3. pc[c] # "unsent" /\ \A i \in 1..Len(queue[m]) : queue[m][i] # c
    BY <2>1 DEF SentOnce
  <2>4. \A k \in Machines \ {m} :
          /\ \A i \in 1..Len(queue[k]) : queue[k][i] # c
          /\ hold[k] = "sending" => inhand[k] # c
    BY <1>a, <2>1 DEF Dials
  <2> QED
    BY <1>c, <1>d, <2>2, <2>3, <2>4 DEF SentOnce
<1>11. ASSUME NEW m \in Machines, LoseDial(m) PROVE SentOnce'
  <2>1. /\ hold'[m] # "sending"
        /\ \A k \in Machines \ {m} : hold'[k] = hold[k] /\ inhand'[k] = inhand[k]
        /\ UNCHANGED <<queue, by, pc>>
    BY <1>11, <1>a DEF TypeOK, LoseDial
  <2> QED
    BY <2>1 DEF SentOnce
<1>12. CASE UNCHANGED vars
  BY <1>0, <1>12 DEF vars
<1> QED
  BY <1>1, <1>2, <1>3, <1>4, <1>5, <1>6, <1>7, <1>8, <1>9, <1>10, <1>11, <1>12
  DEF Next, Held, Served

\* Every step leaves a client that waits somebody who is about to answer.
LEMMA StepKeepsMeetings ==
    RelayInv /\ MeetingInv /\ [Next]_vars
        => NobodyWaitsInVain' /\ \A c \in Clients : Meeting(c)'
<1> SUFFICES ASSUME RelayInv, MeetingInv, [Next]_vars
             PROVE  NobodyWaitsInVain' /\ \A c \in Clients : Meeting(c)'
  OBVIOUS
<1>a. TypeOK /\ Tickets /\ NobodyWaitsInVain /\ SentOnce /\ \A c \in Clients : Meeting(c)
  BY DEF RelayInv, MeetingInv
<1>b. \A c \in Clients : pc[c] \in {"off", "greeted", "found", "ticketed", "unsent"} =>
          offer[c] = "none"
  BY <1>a DEF RelayInv, Dials, Asked, Past, SentOnce
<1> USE DEF Goto, ClientAt, machineVars, clientVars, ticketVars, NobodyWaitsInVain, Meeting
<1>0. ASSUME UNCHANGED <<pc, ticketVars>>
      PROVE  NobodyWaitsInVain' /\ \A c \in Clients : Meeting(c)'
  BY <1>a, <1>0
<1>1. ASSUME NEW m \in Machines, Arrive(m) \/ Drop(m) \/ Held(m)
      PROVE  NobodyWaitsInVain' /\ \A c \in Clients : Meeting(c)'
  BY <1>0, <1>1
     DEF Arrive, Drop, Held, RefuseKey, Enrol, RefuseTaken, SayEnrolled, SayEnrolledFails,
         TakeDial, LoseDial, HearGone, Remove
<1>2. ASSUME NEW m \in Machines, SendDial(m)
      PROVE  NobodyWaitsInVain' /\ \A c \in Clients : Meeting(c)'
  <2>1. PICK c \in Clients : c = inhand[m] /\ by[c] = Nobody
    BY <1>2, <1>a DEF SendDial, RelayInv, Dials, SentOnce, Fresh
  <2>2. offer[c] = "none" /\ pc[c] # "joined"
    BY <1>a, <2>1 DEF RelayInv, Dials
  <2>3. /\ offer'[c] = "dialled" /\ \A d \in Clients \ {c} : offer'[d] = offer[d]
        /\ UNCHANGED <<pc, pending, rendezvous>>
    BY <1>2, <1>a, <2>1 DEF TypeOK, SendDial
  <2> QED
    BY <1>a, <2>2, <2>3
<1>3. ASSUME NEW c \in Clients, Ask(c) \/ Leave(c) \/ Find(c) \/ NotHere(c)
      PROVE  NobodyWaitsInVain' /\ \A d \in Clients : Meeting(d)'
  <2>1. /\ \/ pc' = pc
           \/ /\ pc[c] \in {"off", "greeted"} /\ pc'[c] \in {"greeted", "found", "refused"}
              /\ \A d \in Clients \ {c} : pc'[d] = pc[d]
        /\ UNCHANGED ticketVars
    BY <1>3, <1>a DEF TypeOK, Ask, Leave, Find, NotHere
  <2> QED
    BY <1>a, <1>b, <2>1
<1>4. ASSUME NEW c \in Clients,
             Mint(c) \/ Dial(c) \/ DialFails(c) \/ TimeOut(c) \/ GiveUp(c) \/ Meet(c)
      PROVE  NobodyWaitsInVain' /\ \A d \in Clients : Meeting(d)'
  <2>1. \A d \in Clients \ {c} : /\ pc'[d] = pc[d] /\ offer'[d] = offer[d]
                                 /\ rendezvous'[d] = rendezvous[d]
                                 /\ d \in pending' <=> d \in pending
    BY <1>4, <1>a DEF TypeOK, Mint, Dial, DialFails, TimeOut, GiveUp, Meet
  <2>2. CASE Mint(c) \/ Dial(c) \/ DialFails(c)
    BY <1>a, <1>b, <2>1, <2>2 DEF TypeOK, Mint, Dial, DialFails
  <2>3. CASE TimeOut(c)
    <3>1. /\ pc[c] = "waiting" /\ rendezvous[c] = "open" /\ pc'[c] = "late"
          /\ rendezvous'[c] = "closed" /\ offer' = offer
      BY <1>a, <2>3 DEF TypeOK, TimeOut
    <3>2. offer[c] \notin {"handed", "joined"}
      BY <1>a, <3>1
    <3> QED
      BY <1>a, <2>1, <3>1, <3>2
  <2>5. CASE Meet(c)
    <3>1. /\ pc[c] = "waiting" /\ rendezvous[c] = "full" /\ pc'[c] = "met"
          /\ rendezvous'[c] = "closed" /\ offer' = offer
      BY <1>a, <2>5 DEF TypeOK, Meet
    <3>2. offer[c] = "handed"
      BY <1>a, <3>1
    <3> QED
      BY <1>a, <2>1, <3>1, <3>2
  <2>4. CASE GiveUp(c)
    BY <1>a, <2>1, <2>4 DEF TypeOK, GiveUp
  <2> QED
    BY <1>4, <2>2, <2>3, <2>4, <2>5
<1>5. ASSUME NEW c \in Clients, Join(c) \/ JoinFails(c) \/ Part(c)
      PROVE  NobodyWaitsInVain' /\ \A d \in Clients : Meeting(d)'
  <2>1. CASE Join(c)
    BY <1>a, <2>1 DEF TypeOK, Join
  <2>2. CASE JoinFails(c)
    BY <1>a, <2>2 DEF TypeOK, JoinFails
  <2>3. CASE Part(c)
    BY <1>a, <2>3 DEF TypeOK, Part
  <2> QED
    BY <1>5, <2>1, <2>2, <2>3
<1>6. ASSUME NEW c \in Clients, Offer(c) \/ Claim(c) \/ HandOver(c)
      PROVE  NobodyWaitsInVain' /\ \A d \in Clients : Meeting(d)'
  <2>1. CASE Offer(c)
    BY <1>a, <2>1 DEF TypeOK, Offer
  <2>2. CASE Claim(c)
    BY <1>a, <1>b, <2>2 DEF TypeOK, Claim
  <2>3. CASE HandOver(c)
    BY <1>a, <1>b, <2>3 DEF TypeOK, HandOver
  <2> QED
    BY <1>6, <2>1, <2>2, <2>3
<1>7. CASE UNCHANGED vars
  BY <1>0, <1>7 DEF vars
<1> QED
  BY <1>1, <1>2, <1>3, <1>4, <1>5, <1>6, <1>7 DEF Next, Served

\* The meetings of the relay are kept throughout.
THEOREM RelayKeepsMeetings == Spec => []MeetingInv
<1>1. Init => MeetingInv
  <2>1. Len(<<>>) = 0
    OBVIOUS
  <2> QED
    BY <2>1 DEF Init, MeetingInv, SentOnce, Fresh, NobodyWaitsInVain, Meeting
<1>2. RelayInv /\ MeetingInv /\ [Next]_vars => MeetingInv'
  BY StepKeepsSentOnce, StepKeepsMeetings DEF MeetingInv
<1> QED  BY <1>1, <1>2, RelayKeepsInv, PTL DEF Spec

\* A client that waits is waited for, and a socket handed over is taken.
THEOREM ClientsAreWaitedFor == Spec => []NobodyWaitsInVain
<1>1. MeetingInv => NobodyWaitsInVain
  BY DEF MeetingInv
<1> QED  BY <1>1, RelayKeepsMeetings, PTL

\* No dial is in two places, and none is sent again.
THEOREM DialsAreSentOnce == Spec => []SentOnce
<1>1. MeetingInv => SentOnce
  BY DEF MeetingInv
<1> QED  BY <1>1, RelayKeepsMeetings, PTL
=============================================================================
