----------------------------- MODULE PaneProofs -----------------------------
(***************************************************************************)
(* What a client hears of its panes, and what the session is handed of     *)
(* what is typed in them, proved for any number of panes and keystrokes    *)
(* and any room in the queues between them.                                *)
(***************************************************************************)
EXTENDS Pane, SequenceTheorems, TLAPS

\* What a client asks for, and what a conversation or its pumps say.
Sent == [kind : {"open", "close", "release"}, pane : Panes]
        \cup [kind : {"key"}, pane : Panes, key : Nat]
Told == [kind : {"opened", "closed", "error", "data", "exit", "end"}, pane : Panes]
Painted(p) == [kind : {"data", "exit", "end"}, pane : {p}]

Typed ==
    /\ pane \in 0 .. MaxPanes /\ (client \notin {"greeted", "gone"} => pane \in Panes)
    /\ up \in Seq(Sent) /\ hand \in Seq(Sent) /\ Len(hand) <= 1
    /\ down \in Seq(Told)
    /\ talk \in Told \cup {Reading, Said("over", 0)}
    /\ open \in Nat
    /\ pump \in [Panes -> {"none", "running", "aborted", "done"}]
    /\ out \in [Panes -> Seq(Told)]
    /\ \A p \in Panes : \A i \in DOMAIN out[p] : out[p][i] \in Painted(p)
    /\ typed \in [Panes -> Nat]

\* Requests are in the order of the panes they are about, and a pane is opened
\* before anything else is asked of it, once.
Ordered ==
    /\ \A i, j \in DOMAIN up :
           i < j => /\ up[i].pane <= up[j].pane
                    /\ up[j].kind = "open" => up[i].pane < up[j].pane
    /\ \A i \in DOMAIN up : up[i].pane <= pane
    /\ hand # <<>> =>
           /\ hand[1].pane = pane
           /\ hand[1].kind = "open" => \A i \in DOMAIN up : up[i].pane < pane

\* Nothing is still to be heard of panes before p, nor that p be opened.
Past(p) ==
    /\ p <= pane
    /\ \A i \in DOMAIN up : up[i].pane >= p /\ (up[i].kind = "open" => up[i].pane > p)
    /\ hand # <<>> /\ hand[1].kind = "open" => hand[1].pane > p

\* The conversation has heard of the pane.
Heard(p) ==
    \/ open = p \/ pump[p] # "none"
    \/ talk.kind \in {"opened", "closed", "error"} /\ talk.pane = p
    \/ \E i \in DOMAIN down : down[i].kind = "closed" /\ down[i].pane = p

\* What it has heard of is past.
Reached == \A p \in Panes : Heard(p) => Past(p)

\* A pane that is about to be opened was never open, and no other one is.
Opening ==
    talk.kind = "opened" =>
        /\ open = 0
        /\ pump[talk.pane] = "none"
        /\ \A i \in DOMAIN down : down[i].kind = "closed" => down[i].pane # talk.pane

\* A pump that was not told to stop is the open pane's.
OnePump == \A p \in Panes : pump[p] = "running" => open = p

\* Whoever may still send has been announced.
Announced ==
    client # "gone" =>
        \A p \in Panes : pump[p] \in {"running", "aborted"} =>
            p \in seen \/ \E i \in DOMAIN down : down[i] = Said("opened", p)

\* Nothing of a pane is on its way to a client that will not have been told.
ToldFirst ==
    \A i \in DOMAIN down : down[i].kind \in {"data", "exit", "end"} =>
        \/ down[i].pane \in seen
        \/ \E j \in 1 .. i - 1 : down[j] = Said("opened", down[i].pane)

\* While a client is being told that a pane is closed, it is.
ClosedIsStopped ==
    /\ talk.kind = "closed" => open # talk.pane /\ pump[talk.pane] # "running"
    /\ \A i \in DOMAIN down : down[i].kind = "closed" =>
           open # down[i].pane /\ pump[down[i].pane] # "running"

OrderInv ==
    /\ Typed /\ Ordered /\ Reached
    /\ Opening /\ OnePump /\ Announced
    /\ ToldFirst /\ ClosedIsStopped

-----------------------------------------------------------------------------
\* What was said has the kind and the pane it was said with.
LEMMA SaidIs ==
    \A k, p, l, q :
        /\ Said(k, p).kind = k /\ Said(k, p).pane = p
        /\ Said(k, p) = Said(l, q) => k = l /\ p = q
  BY DEF Said

\* The rest of a sequence, one place further on.
LEMMA RestOf ==
    ASSUME NEW S, NEW q \in Seq(S), q # <<>>
    PROVE  /\ Head(q) = q[1] /\ 1 \in DOMAIN q
           /\ Tail(q) \in Seq(S) /\ Len(Tail(q)) = Len(q) - 1 /\ Len(q) \in Nat
           /\ \A i \in DOMAIN Tail(q) : i \in Nat \ {0} /\ i + 1 \in DOMAIN q /\ Tail(q)[i] = q[i + 1]
  OBVIOUS

\* One more at the end of a sequence.
LEMMA OneMore ==
    ASSUME NEW S, NEW q \in Seq(S), NEW m \in S
    PROVE  /\ Append(q, m) \in Seq(S) /\ Len(q) \in Nat /\ Len(Append(q, m)) = Len(q) + 1
           /\ Append(q, m)[Len(q) + 1] = m
           /\ \A i \in DOMAIN q : i \in DOMAIN Append(q, m) /\ Append(q, m)[i] = q[i]
           /\ \A i \in DOMAIN Append(q, m) : i \in DOMAIN q \/ i = Len(q) + 1
  OBVIOUS

\* A sequence of at most one.
LEMMA OnlyOne ==
    ASSUME NEW S, NEW q \in Seq(S), q # <<>>, Len(q) <= 1
    PROVE  q = <<q[1]>> /\ q[1] \in S
  <1>1. Len(q) \in Nat /\ Len(q) # 0
    BY EmptySeq
  <1> QED
    BY <1>1

\* The invariant as the property that the run checks.
LEMMA OrderGivesPaneInOrder == OrderInv => PaneInOrder
  <1> SUFFICES ASSUME OrderInv PROVE PaneInOrder
    OBVIOUS
  <1>1. \A i \in DOMAIN down : down[i].kind \in {"data", "exit", "end"} =>
           \/ down[i].pane \in seen
           \/ \E j \in 1 .. i - 1 : down[j] = Said("opened", down[i].pane)
    BY DEF OrderInv, ToldFirst
  <1>2. ASSUME NEW p \in Panes, Said("closed", p) \in {talk} \cup ToSet(down)
        PROVE  open # p /\ pump[p] # "running"
    <2>1. Said("closed", p).kind = "closed" /\ Said("closed", p).pane = p
      BY SaidIs
    <2>2. talk = Said("closed", p) \/ \E i \in DOMAIN down : down[i] = Said("closed", p)
      BY <1>2 DEF ToSet
    <2> QED
      BY <2>1, <2>2 DEF OrderInv, ClosedIsStopped
  <1> QED
    BY <1>1, <1>2 DEF PaneInOrder

\* Nothing was said when nothing was asked.
LEMMA OrderInit == Init => OrderInv
  <1> SUFFICES ASSUME Init PROVE OrderInv
    OBVIOUS
  <1>1. Typed
    BY PanesAndKeysAreBounded DEF Init, Typed, Panes, Reading, Said
  <1>2. talk.kind = "reading" /\ down = <<>>
    BY SaidIs DEF Init, Reading
  <1>3. Ordered /\ Reached /\ Opening /\ OnePump /\ Announced
    BY <1>2 DEF Init, Ordered, Reached, Heard, Past, Opening, OnePump, Announced, Panes
  <1>4. ToldFirst /\ ClosedIsStopped
    BY <1>2 DEF ToldFirst, ClosedIsStopped
  <1> QED
    BY <1>1, <1>3, <1>4 DEF OrderInv

-----------------------------------------------------------------------------
(* The wire from the client, and what is past on it. *)

\* A step that neither sends nor reads a request leaves their order alone.
LEMMA WireLeftAlone ==
    ASSUME Ordered, UNCHANGED <<pane, hand, up>>
    PROVE  Ordered' /\ \A p \in Panes : Past(p) => Past(p)'
  BY DEF Ordered, Past

\* A request that is read leaves the others in order, and its pane is past.
LEMMA ReceivedIsPast ==
    ASSUME OrderInv, NEW kind, Receive(kind), UNCHANGED clientVars
    PROVE  /\ Ordered' /\ up' \in Seq(Sent)
           /\ Head(up) \in Sent /\ Head(up).pane \in Panes /\ Head(up).kind = kind
           /\ \A p \in Panes : p = Head(up).pane => Past(p)'
           /\ \A p \in Panes : Past(p) => Past(p)'
           /\ kind = "open" => ~Past(Head(up).pane)
  <1> USE DEF Typed, OrderInv, clientVars
  <1>1. /\ Head(up) = up[1] /\ 1 \in DOMAIN up /\ up' \in Seq(Sent)
        /\ up[1].kind = kind
        /\ \A i \in DOMAIN up' : i \in Nat \ {0} /\ i + 1 \in DOMAIN up /\ up'[i] = up[i + 1]
    BY RestOf DEF Receive
  <1>2. up[1] \in Sent /\ \A i \in DOMAIN up : up[i] \in Sent /\ i \in Nat
    BY <1>1
  <1>3. \A m \in Sent : m.pane \in Panes /\ m.pane \in Nat
    BY PanesAndKeysAreBounded DEF Sent, Panes
  <1>4. UNCHANGED <<pane, hand>>
    OBVIOUS
  <1>a. \A i, j \in DOMAIN up' : i < j => i + 1 < j + 1
    BY <1>1
  <1>b. \A i \in DOMAIN up' : 1 < i + 1
    BY <1>1
  <1>5. Ordered'
    <2>1. \A i, j \in DOMAIN up' :
              i < j => /\ up'[i].pane <= up'[j].pane
                       /\ up'[j].kind = "open" => up'[i].pane < up'[j].pane
      BY <1>1, <1>a DEF Ordered
    <2>2. \A i \in DOMAIN up' : up'[i].pane <= pane'
      BY <1>1, <1>4 DEF Ordered
    <2>3. hand' # <<>> =>
              /\ hand'[1].pane = pane'
              /\ hand'[1].kind = "open" => \A i \in DOMAIN up' : up'[i].pane < pane'
      BY <1>1, <1>4 DEF Ordered
    <2> QED
      BY <2>1, <2>2, <2>3 DEF Ordered
  <1>6. ASSUME NEW p \in Panes, p = up[1].pane PROVE Past(p)'
    <2>1. up[1].pane <= pane
      BY <1>1 DEF Ordered
    <2>2. \A i \in DOMAIN up' : /\ up'[i].pane >= up[1].pane
                                /\ up'[i].kind = "open" => up'[i].pane > up[1].pane
      BY <1>1, <1>2, <1>3, <1>b DEF Ordered
    <2>3. hand # <<>> /\ hand[1].kind = "open" => hand[1].pane > up[1].pane
      BY <1>1, <1>2, <1>3 DEF Ordered
    <2> QED
      BY <1>4, <1>6, <2>1, <2>2, <2>3 DEF Past
  <1>7. \A p \in Panes : Past(p) => Past(p)'
    BY <1>1, <1>4 DEF Past
  <1>8. kind = "open" => ~Past(up[1].pane)
    BY <1>1, <1>2, <1>3 DEF Past
  <1> QED
    BY <1>1, <1>2, <1>3, <1>5, <1>6, <1>7, <1>8

-----------------------------------------------------------------------------
(* The client. *)

\* Asking for something: a frame in the hand, of the last pane or of a new one.
LEMMA AskKeeps ==
    ASSUME OrderInv, AskOpen \/ Type \/ LetGo
    PROVE  OrderInv'
  <1> USE PanesAndKeysAreBounded DEF OrderInv, ClientFrame, talkVars
  <1>1. /\ UNCHANGED <<up, down, talk, open, pump, out, seen>>
        /\ client # "gone" /\ hand = <<>> /\ pane \in Nat
    <2>1. pane \in Nat
      BY DEF Typed
    <2>2. CASE AskOpen
      BY <2>1, <2>2 DEF AskOpen
    <2>3. CASE Type
      BY <2>1, <2>3 DEF Type
    <2>4. CASE LetGo
      BY <2>1, <2>4 DEF LetGo
    <2> QED
      BY <2>2, <2>3, <2>4
  <1>2. PICK m \in Sent : /\ hand' = <<m>> /\ m.pane = pane' /\ pane' \in Panes
                          /\ (pane' = pane /\ m.kind # "open") \/ pane' = pane + 1
    <2>1. CASE AskOpen
      BY <2>1, SaidIs DEF AskOpen, Typed, Sent, Said, Panes
    <2>2. CASE Type
      <3>1. pane \in Panes /\ pane' = pane /\ typed[pane] + 1 \in Nat
        BY <2>2 DEF Type, Typed
      <3>2. Key(pane, typed[pane] + 1) \in Sent
        BY <3>1 DEF Key, Sent
      <3>3. hand' = <<Key(pane, typed[pane] + 1)>>
        BY <2>2 DEF Type
      <3> QED
        BY <3>1, <3>2, <3>3 DEF Key
    <2>3. CASE LetGo
      <3>1. pane \in Panes /\ pane' = pane
        BY <2>3 DEF LetGo, Typed
      <3>2. PICK how \in {"close", "release"} : hand' = <<Said(how, pane)>>
        BY <2>3 DEF LetGo
      <3>3. Said(how, pane) \in Sent /\ Said(how, pane).pane = pane /\ Said(how, pane).kind # "open"
        BY <3>1 DEF Said, Sent
      <3> QED
        BY <3>1, <3>2, <3>3
    <2> QED
      BY <2>1, <2>2, <2>3
  <1>3. hand' \in Seq(Sent) /\ Len(hand') = 1 /\ hand'[1] = m
    BY <1>2
  <1>4. typed' \in [Panes -> Nat]
    <2>1. typed \in [Panes -> Nat]
      BY DEF Typed
    <2>2. CASE AskOpen \/ LetGo
      BY <2>1, <2>2 DEF AskOpen, LetGo
    <2>3. CASE Type
      <3>1. typed' = [typed EXCEPT ![pane] = typed[pane] + 1] /\ pane \in Panes
        BY <2>3 DEF Type, Typed
      <3> QED
        BY <2>1, <3>1
    <2> QED
      BY <2>2, <2>3
  <1>5. Typed'
    BY <1>1, <1>2, <1>3, <1>4 DEF Typed, Panes
  <1>6. \A i \in DOMAIN up : up[i].pane \in Nat
    BY DEF Typed, Sent, Panes
  <1>7. Ordered'
    BY <1>1, <1>2, <1>3, <1>6 DEF Ordered
  <1>8. \A p \in Panes : Past(p) => Past(p)'
    BY <1>1, <1>2, <1>3, <1>6 DEF Past, Panes
  <1>9. Reached' /\ Opening' /\ OnePump' /\ Announced' /\ ToldFirst' /\ ClosedIsStopped'
    BY <1>1, <1>8 DEF Reached, Heard, Opening, OnePump, Announced, ToldFirst, ClosedIsStopped
  <1> QED
    BY <1>5, <1>7, <1>9

\* What was in the hand is the last on the wire.
LEMMA PutKeeps == ASSUME OrderInv, Put PROVE OrderInv'
  <1> USE PanesAndKeysAreBounded DEF OrderInv, ClientFrame, talkVars
  <1>1. /\ UNCHANGED <<client, pane, typed, seen, down, talk, open, pump, out>>
        /\ hand' = <<>> /\ hand # <<>>
    BY DEF Put
  <1>2. hand = <<hand[1]>> /\ hand[1] \in Sent
    <2>1. hand \in Seq(Sent) /\ Len(hand) <= 1
      BY DEF Typed
    <2> QED
      BY <1>1, <2>1, OnlyOne
  <1>3. up' = Append(up, hand[1])
    BY <1>2 DEF Put, Typed
  <1>4. /\ up' \in Seq(Sent) /\ Len(up) \in Nat
        /\ \A i \in DOMAIN up : i \in Nat /\ i <= Len(up) /\ up'[i] = up[i] /\ up[i].pane \in Nat
        /\ \A i \in DOMAIN up' : i \in Nat /\ (i \in DOMAIN up \/ i = Len(up) + 1)
        /\ up'[Len(up) + 1] = hand[1]
    <2>1. \A m \in Sent : m.pane \in Nat
      BY DEF Sent, Panes
    <2>2. up \in Seq(Sent)
      BY DEF Typed
    <2> QED
      BY <1>2, <1>3, <2>1, <2>2, OneMore
  <1>5. Typed'
    BY <1>1, <1>4 DEF Typed
  <1>6. hand[1].pane = pane /\ pane \in Nat
    BY <1>1 DEF Ordered, Typed
  <1>7. Ordered'
    BY <1>1, <1>4, <1>6 DEF Ordered
  <1>8. \A p \in Panes : Past(p) => Past(p)'
    BY <1>1, <1>4, <1>6 DEF Past, Panes
  <1>9. Reached' /\ Opening' /\ OnePump' /\ Announced' /\ ToldFirst' /\ ClosedIsStopped'
    BY <1>1, <1>8 DEF Reached, Heard, Opening, OnePump, Announced, ToldFirst, ClosedIsStopped
  <1> QED
    BY <1>5, <1>7, <1>9

\* What is read comes off the front, and is seen if it announces a pane.
LEMMA ReadKeeps == ASSUME OrderInv, Read PROVE OrderInv'
  <1> USE DEF OrderInv, talkVars
  <1>1. /\ UNCHANGED <<pane, hand, typed, up, talk, open, pump, out>>
        /\ client \notin {"greeted", "gone"} /\ down # <<>> /\ down' = Tail(down)
        /\ seen' = IF Head(down).kind = "opened" THEN seen \cup {Head(down).pane} ELSE seen
    BY DEF Read
  <1>2. /\ Head(down) = down[1] /\ 1 \in DOMAIN down /\ down' \in Seq(Told)
        /\ \A i \in DOMAIN down' : i \in Nat \ {0} /\ i + 1 \in DOMAIN down /\ down'[i] = down[i + 1]
        /\ Len(down') = Len(down) - 1 /\ Len(down) \in Nat
    BY <1>1, RestOf DEF Typed
  <1>3. seen \subseteq seen' /\ \A p \in Panes : down[1] = Said("opened", p) => p \in seen'
    BY <1>1, <1>2, SaidIs
  <1>4. \A k \in DOMAIN down : k # 1 => k - 1 \in DOMAIN down' /\ down'[k - 1] = down[k]
    BY <1>2
  <1>5. Typed'
    BY <1>1, <1>2 DEF Typed
  <1>6. Ordered' /\ \A p \in Panes : Past(p) => Past(p)'
    BY <1>1, WireLeftAlone
  <1>7. Reached' /\ Opening' /\ OnePump' /\ ClosedIsStopped'
    BY <1>1, <1>2, <1>6 DEF Reached, Heard, Opening, OnePump, ClosedIsStopped
  <1>8. Announced'
    BY <1>1, <1>3, <1>4 DEF Announced
  <1>9. ToldFirst'
    <2> SUFFICES ASSUME NEW i \in DOMAIN down', down'[i].kind \in {"data", "exit", "end"}
                 PROVE  \/ down'[i].pane \in seen'
                        \/ \E j \in 1 .. i - 1 : down'[j] = Said("opened", down'[i].pane)
      BY DEF ToldFirst
    <2>1. i \in Nat \ {0} /\ i + 1 \in DOMAIN down /\ down'[i] = down[i + 1] /\ down[i + 1] \in Told
      BY <1>2 DEF Typed
    <2>2. down[i + 1].pane \in Panes
      BY <2>1 DEF Told
    <2>3. CASE down[i + 1].pane \in seen
      BY <2>1, <2>3, <1>3
    <2>4. CASE \E j \in 1 .. i + 1 - 1 : down[j] = Said("opened", down[i + 1].pane)
      <3>1. PICK j \in 1 .. i : down[j] = Said("opened", down[i + 1].pane)
        BY <2>1, <2>4
      <3>2. CASE j = 1
        BY <3>1, <3>2, <2>1, <2>2, <1>3
      <3>3. CASE j # 1
        <4>1. j \in DOMAIN down /\ j - 1 \in 1 .. i - 1
          BY <3>3, <2>1, <1>2 DEF Typed
        <4>2. down'[j - 1] = Said("opened", down'[i].pane)
          BY <4>1, <3>1, <3>3, <2>1, <1>4
        <4> QED
          BY <4>1, <4>2
      <3> QED
        BY <3>2, <3>3
    <2> QED
      BY <2>1, <2>3, <2>4 DEF ToldFirst
  <1> QED
    BY <1>5, <1>6, <1>7, <1>8, <1>9

\* Leaving, and hearing nothing more.
LEMMA LeaveKeeps == ASSUME OrderInv, Detach \/ Close \/ Stop PROVE OrderInv'
  <1> USE DEF OrderInv, ClientFrame, talkVars
  <1>1. /\ UNCHANGED <<pane, hand, typed, seen, up, down, talk, open, pump, out>>
        /\ client \notin {"greeted", "gone"}
    BY DEF Detach, Close, Stop
  <1>2. Ordered' /\ \A p \in Panes : Past(p) => Past(p)'
    BY <1>1, WireLeftAlone
  <1>3. Typed'
    BY <1>1 DEF Typed
  <1>4. Reached' /\ Opening' /\ OnePump' /\ Announced' /\ ToldFirst' /\ ClosedIsStopped'
    BY <1>1, <1>2 DEF Reached, Heard, Opening, OnePump, Announced, ToldFirst, ClosedIsStopped
  <1> QED
    BY <1>2, <1>3, <1>4

\* Nothing is on a connection that broke.
LEMMA BreakKeeps == ASSUME OrderInv, Break PROVE OrderInv'
  <1> USE DEF OrderInv, talkVars
  <1>1. /\ UNCHANGED <<pane, typed, seen, talk, open, pump, out>>
        /\ client' = "gone" /\ hand' = <<>> /\ up' = <<>> /\ down' = <<>>
    BY DEF Break
  <1>2. Typed'
    BY <1>1 DEF Typed
  <1>3. Ordered' /\ \A p \in Panes : Past(p) => Past(p)'
    BY <1>1 DEF Ordered, Past
  <1>4. Reached' /\ Opening' /\ OnePump' /\ Announced' /\ ToldFirst' /\ ClosedIsStopped'
    BY <1>1, <1>3 DEF Reached, Heard, Opening, OnePump, Announced, ToldFirst, ClosedIsStopped
  <1> QED
    BY <1>2, <1>3, <1>4

-----------------------------------------------------------------------------
(* The conversation. *)

\* What is said has the fields of what can be said.
LEMMA ToldIs ==
    \A m \in Told : m = Said(m.kind, m.pane) /\ m.pane \in Panes /\ m.pane \in Nat \ {0}
  BY DEF Told, Said, Panes

\* Whatever is said of a pane is something that can be told.
LEMMA SaidIsTold ==
    \A k \in {"opened", "closed", "error", "data", "exit", "end"} :
        \A p \in Panes : Said(k, p) \in Told
  BY DEF Told, Said

\* A request to open: the pane is new to the conversation.
LEMMA HearOpenKeeps == ASSUME OrderInv, HearOpen PROVE OrderInv'
  <1> USE DEF OrderInv
  <1>1. /\ UNCHANGED <<client, pane, hand, typed, seen, down, open, pump, out>>
        /\ Receive("open") /\ UNCHANGED clientVars
    BY DEF HearOpen, clientVars
  <1> DEFINE q == Head(up).pane
  <1>2. /\ Ordered' /\ up' \in Seq(Sent) /\ q \in Panes
        /\ \A p \in Panes : p = q => Past(p)'
        /\ \A p \in Panes : Past(p) => Past(p)'
        /\ ~Past(q)
    BY <1>1, ReceivedIsPast
  <1>3. ~Heard(q)
    BY <1>2 DEF Reached
  <1>4. \/ open = 0 /\ talk' = Said("opened", q)
        \/ talk' = Said("error", q)
    BY DEF HearOpen
  <1>5. /\ talk'.pane = q /\ talk' \in Told /\ talk'.kind \in {"opened", "error"}
        /\ talk'.kind = "opened" => open = 0
    BY <1>2, <1>4, SaidIs, SaidIsTold
  <1> HIDE DEF q
  <1>6. Typed'
    BY <1>1, <1>2, <1>5 DEF Typed
  <1>7. Reached'
    BY <1>1, <1>2, <1>5 DEF Reached, Heard
  <1>8. Opening'
    BY <1>1, <1>3, <1>5 DEF Opening, Heard
  <1>9. OnePump' /\ Announced' /\ ToldFirst' /\ ClosedIsStopped'
    BY <1>1, <1>5 DEF OnePump, Announced, ToldFirst, ClosedIsStopped
  <1> QED
    BY <1>2, <1>6, <1>7, <1>8, <1>9

\* A request to let go: the pane that has the channel has no pump any more.
LEMMA HearLetGoKeeps == ASSUME OrderInv, HearClose \/ HearRelease PROVE OrderInv'
  <1> USE DEF OrderInv
  <1>1. /\ UNCHANGED <<client, pane, hand, typed, seen, down, out>>
        /\ (Receive("close") \/ Receive("release"))
        /\ UNCHANGED clientVars
        /\ open' = 0 /\ talk = Reading
        /\ IF open # 0 THEN Abort(open) ELSE pump' = pump
    BY DEF HearClose, HearRelease, Receive, clientVars
  <1> DEFINE q == Head(up).pane
  <1>2. /\ Ordered' /\ up' \in Seq(Sent) /\ q \in Panes
        /\ \A p \in Panes : p = q => Past(p)'
        /\ \A p \in Panes : Past(p) => Past(p)'
    BY <1>1, ReceivedIsPast DEF HearClose, HearRelease
  <1>3. talk' = talk \/ talk' = Said("closed", q)
    BY DEF HearClose, HearRelease
  <1>4. /\ talk'.kind \in {"reading", "closed"} /\ talk' \in Told \cup {Reading}
        /\ talk'.kind = "closed" => talk'.pane = q
    BY <1>1, <1>2, <1>3, SaidIs, SaidIsTold DEF Reading
  <1> HIDE DEF q
  <1>5. /\ pump' \in [Panes -> {"none", "running", "aborted", "done"}]
        /\ \A p \in Panes : /\ pump'[p] # "running"
                            /\ pump'[p] = "none" <=> pump[p] = "none"
                            /\ pump'[p] = "aborted" => pump[p] \in {"running", "aborted"}
    <2>1. pump \in [Panes -> {"none", "running", "aborted", "done"}]
      BY DEF Typed
    <2>2. \A p \in Panes : p # 0
      BY DEF Panes
    <2>3. CASE open # 0
      <3>1. pump' = [pump EXCEPT ![open] = IF pump[open] = "running" THEN "aborted" ELSE pump[open]]
        BY <1>1, <2>3 DEF Abort
      <3> QED
        BY <2>1, <3>1 DEF OnePump
    <2>4. CASE open = 0
      BY <1>1, <2>1, <2>2, <2>4 DEF OnePump
    <2> QED
      BY <2>3, <2>4
  <1>6. Typed'
    BY <1>1, <1>2, <1>4, <1>5 DEF Typed
  <1>7. \A p \in Panes : Heard(p)' => Heard(p) \/ p = q
    BY <1>1, <1>4, <1>5 DEF Heard, Panes
  <1>8. Reached'
    BY <1>2, <1>7 DEF Reached
  <1>9. Opening' /\ OnePump' /\ Announced' /\ ToldFirst'
    BY <1>1, <1>4, <1>5 DEF Opening, OnePump, Announced, ToldFirst
  <1>10. ClosedIsStopped'
    <2>1. \A i \in DOMAIN down : down[i].pane \in Panes
      BY ToldIs DEF Typed
    <2> QED
      BY <1>1, <1>2, <1>4, <1>5, <2>1 DEF ClosedIsStopped, Panes
  <1> QED
    BY <1>2, <1>6, <1>8, <1>9, <1>10

\* A keystroke is taken, and nothing of the panes changes.
LEMMA FeedKeeps == ASSUME OrderInv, Feed PROVE OrderInv'
  <1> USE DEF OrderInv
  <1>1. /\ UNCHANGED <<client, pane, hand, typed, seen, down, talk, open, pump, out>>
        /\ Receive("key") /\ UNCHANGED clientVars
    BY DEF Feed, clientVars, talkVars
  <1>2. /\ Ordered' /\ up' \in Seq(Sent)
        /\ \A p \in Panes : Past(p) => Past(p)'
    BY <1>1, ReceivedIsPast
  <1>3. Typed'
    BY <1>1, <1>2 DEF Typed
  <1>4. Reached' /\ Opening' /\ OnePump' /\ Announced' /\ ToldFirst' /\ ClosedIsStopped'
    BY <1>1, <1>2 DEF Reached, Heard, Opening, OnePump, Announced, ToldFirst, ClosedIsStopped
  <1> QED
    BY <1>2, <1>3, <1>4

\* What is said last does not come before what announces its pane.
LEMMA SaidInOrder ==
    ASSUME Typed, ToldFirst, NEW m \in Told, down' = Append(down, m), UNCHANGED seen,
           m.kind \in {"data", "exit", "end"} =>
               m.pane \in seen \/ \E i \in DOMAIN down : down[i] = Said("opened", m.pane)
    PROVE  ToldFirst'
  <1>1. /\ down \in Seq(Told) /\ Len(down) \in Nat
        /\ down'[Len(down) + 1] = m
        /\ \A i \in DOMAIN down : i \in DOMAIN down' /\ down'[i] = down[i]
        /\ \A i \in DOMAIN down' : i \in DOMAIN down \/ i = Len(down) + 1
    BY OneMore DEF Typed
  <1>2. ASSUME NEW i \in DOMAIN down', down'[i].kind \in {"data", "exit", "end"}
        PROVE  \/ down'[i].pane \in seen
               \/ \E j \in 1 .. i - 1 : down'[j] = Said("opened", down'[i].pane)
    <2>1. CASE i \in DOMAIN down
      <3>1. DOMAIN down = 1 .. Len(down)
        BY <1>1
      <3>2. \A j \in 1 .. i - 1 : j \in DOMAIN down
        BY <1>1, <2>1, <3>1
      <3> QED
        BY <1>1, <1>2, <2>1, <3>2 DEF ToldFirst
    <2>2. CASE i = Len(down) + 1
      <3>1. \A j \in DOMAIN down : j \in 1 .. i - 1
        BY <1>1, <2>2
      <3> QED
        BY <1>1, <1>2, <2>2, <3>1
    <2> QED
      BY <1>1, <2>1, <2>2
  <1> QED
    BY <1>2 DEF ToldFirst

\* The client is told that a pane is open, and only then is there a pump.
LEMMA SayOpenedKeeps == ASSUME OrderInv, SayOpened PROVE OrderInv'
  <1> USE DEF OrderInv
  <1> DEFINE q == talk.pane
  <1>1. /\ UNCHANGED <<client, pane, hand, typed, seen, up, out>>
        /\ talk.kind = "opened" /\ down' = Append(down, talk)
        /\ pump' = [pump EXCEPT ![q] = "running"]
        /\ open' = q /\ talk' = Reading
    BY DEF SayOpened, clientVars
  <1>2. talk \in Told /\ talk = Said("opened", q) /\ q \in Panes /\ q \in Nat \ {0}
    BY <1>1, ToldIs, SaidIs DEF Typed, Reading
  <1>3. /\ down' \in Seq(Told) /\ down'[Len(down) + 1] = talk
        /\ \A i \in DOMAIN down : i \in DOMAIN down' /\ down'[i] = down[i]
        /\ \A i \in DOMAIN down' : i \in DOMAIN down \/ i = Len(down) + 1
        /\ Len(down) + 1 \in DOMAIN down'
    BY <1>1, <1>2, OneMore DEF Typed
  <1>4. /\ pump' \in [Panes -> {"none", "running", "aborted", "done"}]
        /\ pump'[q] = "running" /\ \A p \in Panes : p # q => pump'[p] = pump[p]
    BY <1>1, <1>2 DEF Typed
  <1>5. talk'.kind = "reading"
    BY <1>1, SaidIs DEF Reading
  <1>6. Typed'
    BY <1>1, <1>2, <1>3, <1>4 DEF Typed
  <1>7. Ordered' /\ \A p \in Panes : Past(p) => Past(p)'
    BY <1>1, WireLeftAlone
  <1>8. \A p \in Panes : Heard(p)' => Heard(p)
    BY <1>1, <1>2, <1>3, <1>4, <1>5 DEF Heard
  <1>9. Reached'
    BY <1>7, <1>8 DEF Reached
  <1>10. OnePump'
    BY <1>1, <1>2, <1>4 DEF OnePump, Opening, Panes
  <1>11. Announced'
    BY <1>1, <1>2, <1>3, <1>4 DEF Announced
  <1>12. ToldFirst'
    BY <1>1, <1>2, SaidInOrder
  <1>13. ClosedIsStopped' /\ Opening'
    BY <1>1, <1>2, <1>3, <1>4, <1>5 DEF ClosedIsStopped, Opening
  <1> QED
    BY <1>6, <1>7, <1>9, <1>10, <1>11, <1>12, <1>13

\* The client is told that a pane is closed, or was not opened.
LEMMA SayRestKeeps == ASSUME OrderInv, SayRest PROVE OrderInv'
  <1> USE DEF OrderInv
  <1>1. /\ UNCHANGED <<client, pane, hand, typed, seen, up, open, pump, out>>
        /\ talk.kind \in {"closed", "error"} /\ down' = Append(down, talk)
        /\ talk' = Reading
    BY DEF SayRest, clientVars
  <1>2. talk \in Told
    BY <1>1, SaidIs DEF Typed, Reading
  <1>3. /\ down' \in Seq(Told) /\ down'[Len(down) + 1] = talk
        /\ \A i \in DOMAIN down : i \in DOMAIN down' /\ down'[i] = down[i]
        /\ \A i \in DOMAIN down' : i \in DOMAIN down \/ i = Len(down) + 1
    BY <1>1, <1>2, OneMore DEF Typed
  <1>4. talk'.kind = "reading"
    BY <1>1, SaidIs DEF Reading
  <1>5. Typed'
    BY <1>1, <1>2, <1>3 DEF Typed
  <1>6. Ordered' /\ \A p \in Panes : Past(p) => Past(p)'
    BY <1>1, WireLeftAlone
  <1>7. \A p \in Panes : Heard(p)' => Heard(p)
    BY <1>1, <1>3, <1>4 DEF Heard
  <1>8. Reached' /\ Opening' /\ OnePump' /\ Announced'
    BY <1>1, <1>3, <1>4, <1>6, <1>7 DEF Reached, Opening, OnePump, Announced
  <1>9. ToldFirst'
    BY <1>1, <1>2, SaidInOrder
  <1>10. ClosedIsStopped'
    BY <1>1, <1>3, <1>4 DEF ClosedIsStopped
  <1> QED
    BY <1>5, <1>6, <1>8, <1>9, <1>10

\* When the conversation is over no pump runs, and nobody hears.
LEMMA EndTalkKeeps == ASSUME OrderInv, EndTalk PROVE OrderInv'
  <1> USE DEF OrderInv
  <1>1. /\ UNCHANGED <<client, pane, hand, typed, seen, down, out>>
        /\ client = "gone" /\ talk' = Said("over", 0) /\ open' = 0 /\ up' = <<>>
        /\ pump' = [p \in Panes |->
               IF pump[p] = "running" THEN "aborted"
               ELSE IF talk = Said("opened", p) THEN "done" ELSE pump[p]]
    BY DEF EndTalk, Unheard, clientVars
  <1>2. talk'.kind = "over"
    BY <1>1, SaidIs
  <1>3. /\ pump' \in [Panes -> {"none", "running", "aborted", "done"}]
        /\ \A p \in Panes : /\ pump'[p] # "running"
                            /\ pump'[p] # "none" => pump[p] # "none" \/ talk = Said("opened", p)
    BY <1>1 DEF Typed
  <1>4. Typed'
    BY <1>1, <1>3 DEF Typed
  <1>5. Ordered' /\ \A p \in Panes : Past(p) => Past(p)'
    BY <1>1 DEF Ordered, Past
  <1>6. \A p \in Panes : Heard(p)' => Heard(p)
    BY <1>1, <1>2, <1>3, SaidIs DEF Heard, Panes
  <1>7. Reached' /\ Opening' /\ OnePump' /\ Announced' /\ ToldFirst'
    BY <1>1, <1>2, <1>3, <1>5, <1>6 DEF Reached, Opening, OnePump, Announced, ToldFirst
  <1>8. ClosedIsStopped'
    <2>1. \A i \in DOMAIN down : down[i].pane \in Panes
      BY ToldIs DEF Typed
    <2> QED
      BY <1>1, <1>2, <1>3, <2>1 DEF ClosedIsStopped, Panes
  <1> QED
    BY <1>4, <1>5, <1>7, <1>8

-----------------------------------------------------------------------------
(* The pumps, and the keeper's ends. *)

\* A pump that is not done says something of a pane that has been announced, and
\* may be done then.
LEMMA PumpSaysKeeps ==
    ASSUME OrderInv, NEW p \in Panes, NEW m \in Painted(p),
           pump[p] \in {"running", "aborted"}, client # "gone",
           UNCHANGED <<client, pane, hand, typed, seen, up, talk, open>>,
           down' = Append(down, m),
           pump' = [pump EXCEPT ![p] = "done"] \/ pump' = pump,
           out' \in [Panes -> Seq(Told)],
           \A q \in Panes : \A i \in DOMAIN out'[q] : out'[q][i] \in Painted(q)
    PROVE  OrderInv'
  <1> USE DEF OrderInv
  <1>1. m \in Told /\ m.pane = p /\ m.kind \in {"data", "exit", "end"}
    BY DEF Told, Painted
  <1>2. /\ down' \in Seq(Told) /\ down'[Len(down) + 1] = m
        /\ \A i \in DOMAIN down : i \in DOMAIN down' /\ down'[i] = down[i]
        /\ \A i \in DOMAIN down' : i \in DOMAIN down \/ i = Len(down) + 1
    BY <1>1, OneMore DEF Typed
  <1>3. /\ pump' \in [Panes -> {"none", "running", "aborted", "done"}]
        /\ \A q \in Panes : pump'[q] = pump[q] \/ (q = p /\ pump'[q] = "done")
    BY DEF Typed
  <1>4. Typed'
    BY <1>2, <1>3 DEF Typed
  <1>5. Ordered' /\ \A q \in Panes : Past(q) => Past(q)'
    BY WireLeftAlone
  <1>6. \A q \in Panes : Heard(q)' => Heard(q)
    BY <1>1, <1>2, <1>3 DEF Heard
  <1>7. Reached' /\ OnePump' /\ Announced'
    BY <1>2, <1>3, <1>5, <1>6 DEF Reached, OnePump, Announced
  <1>8. Opening'
    <2>1. talk.kind = "opened" => talk.pane \in Panes
      BY ToldIs, SaidIs DEF Typed, Reading
    <2> QED
      BY <1>1, <1>2, <1>3, <2>1 DEF Opening
  <1>9. ToldFirst'
    BY <1>1, SaidInOrder DEF Announced
  <1>10. ClosedIsStopped'
    <2>1. \A i \in DOMAIN down : down[i].pane \in Panes
      BY ToldIs DEF Typed
    <2>2. talk.kind = "closed" => talk.pane \in Panes
      BY ToldIs, SaidIs DEF Typed, Reading
    <2> QED
      BY <1>1, <1>2, <1>3, <2>1, <2>2 DEF ClosedIsStopped
  <1> QED
    BY <1>4, <1>5, <1>7, <1>8, <1>9, <1>10

\* What a pump carries came from the keeper's end of its pane.
LEMMA CarryKeeps == ASSUME OrderInv, NEW p \in Panes, Carry(p) PROVE OrderInv'
  <1> USE DEF OrderInv
  <1>1. /\ UNCHANGED <<client, pane, hand, typed, seen, up, talk, open>>
        /\ pump[p] \in {"running", "aborted"} /\ client # "gone"
        /\ out[p] # <<>> /\ down' = Append(down, Head(out[p]))
        /\ out' = [out EXCEPT ![p] = Tail(out[p])]
        /\ pump' = [pump EXCEPT ![p] = IF Head(out[p]).kind = "end" THEN "done" ELSE pump[p]]
    BY DEF Carry, Unheard, clientVars, talkVars
  <1>2. out \in [Panes -> Seq(Told)] /\ out[p] \in Seq(Told)
    BY DEF Typed
  <1>3. /\ Head(out[p]) = out[p][1] /\ 1 \in DOMAIN out[p] /\ Tail(out[p]) \in Seq(Told)
        /\ \A i \in DOMAIN Tail(out[p]) : i + 1 \in DOMAIN out[p] /\ Tail(out[p])[i] = out[p][i + 1]
    BY <1>1, <1>2, RestOf
  <1>4. Head(out[p]) \in Painted(p)
    BY <1>3 DEF Typed
  <1>5. /\ out' \in [Panes -> Seq(Told)] /\ out'[p] = Tail(out[p])
        /\ \A q \in Panes : q # p => out'[q] = out[q]
    BY <1>1, <1>2, <1>3
  <1>6. \A q \in Panes : \A i \in DOMAIN out'[q] : out'[q][i] \in Painted(q)
    <2>1. \A q \in Panes : \A i \in DOMAIN out[q] : out[q][i] \in Painted(q)
      BY DEF Typed
    <2>2. \A i \in DOMAIN out'[p] : out'[p][i] \in Painted(p)
      BY <1>3, <1>5, <2>1
    <2> QED
      BY <1>5, <2>1, <2>2
  <1>7. pump' = [pump EXCEPT ![p] = "done"] \/ pump' = pump
    BY <1>1 DEF Typed
  <1> QED
    BY <1>1, <1>4, <1>5, <1>6, <1>7, PumpSaysKeeps

\* A pump that finds the keeper gone says that the pane is over.
LEMMA CarryEndKeeps == ASSUME OrderInv, NEW p \in Panes, CarryEnd(p) PROVE OrderInv'
  <1>1. /\ UNCHANGED <<client, pane, hand, typed, seen, up, talk, open, out>>
        /\ pump[p] = "running" /\ client # "gone"
        /\ down' = Append(down, Said("end", p))
        /\ pump' = [pump EXCEPT ![p] = "done"]
    BY DEF CarryEnd, Unheard, clientVars, talkVars
  <1>2. Said("end", p) \in Painted(p)
    BY DEF Said, Painted
  <1>3. /\ out' \in [Panes -> Seq(Told)]
        /\ \A q \in Panes : \A i \in DOMAIN out'[q] : out'[q][i] \in Painted(q)
    BY <1>1 DEF OrderInv, Typed
  <1> QED
    BY <1>1, <1>2, <1>3, PumpSaysKeeps

\* A pump that stops takes what it had not sent with it.
LEMMA StopPumpKeeps == ASSUME OrderInv, NEW p \in Panes, StopPump(p) PROVE OrderInv'
  <1> USE DEF OrderInv
  <1>1. /\ UNCHANGED <<client, pane, hand, typed, seen, up, down, talk, open>>
        /\ pump[p] \in {"running", "aborted"}
        /\ pump' = [pump EXCEPT ![p] = "done"] /\ out' = [out EXCEPT ![p] = <<>>]
    BY DEF StopPump, clientVars, talkVars
  <1>2. /\ pump' \in [Panes -> {"none", "running", "aborted", "done"}]
        /\ \A q \in Panes : pump'[q] = pump[q] \/ (q = p /\ pump'[q] = "done")
    BY <1>1 DEF Typed
  <1>3. /\ out' \in [Panes -> Seq(Told)]
        /\ \A q \in Panes : \A i \in DOMAIN out'[q] : out'[q][i] \in Painted(q)
    BY <1>1 DEF Typed
  <1>4. Typed'
    BY <1>1, <1>2, <1>3 DEF Typed
  <1>5. Ordered' /\ \A q \in Panes : Past(q) => Past(q)'
    BY <1>1, WireLeftAlone
  <1>6. \A q \in Panes : Heard(q)' => Heard(q)
    BY <1>1, <1>2 DEF Heard
  <1>7. Reached' /\ OnePump' /\ Announced' /\ ToldFirst'
    BY <1>1, <1>2, <1>5, <1>6 DEF Reached, OnePump, Announced, ToldFirst
  <1>8. Opening' /\ ClosedIsStopped'
    <2>1. \A i \in DOMAIN down : down[i].pane \in Panes
      BY ToldIs DEF Typed
    <2>2. talk.kind \in {"opened", "closed"} => talk.pane \in Panes
      BY ToldIs, SaidIs DEF Typed, Reading
    <2> QED
      BY <1>1, <1>2, <2>1, <2>2 DEF Opening, ClosedIsStopped
  <1> QED
    BY <1>4, <1>5, <1>7, <1>8

\* What the keeper's end of a pane does reaches the client through its pump only.
LEMMA KeeperKeeps ==
    ASSUME OrderInv, KeeperFrame,
           \/ UNCHANGED out
           \/ \E p \in Panes : \E k \in {"data", "exit", "end"} :
                  out' = [out EXCEPT ![p] = Append(out[p], Said(k, p))]
    PROVE  OrderInv'
  <1> USE DEF OrderInv, KeeperFrame, clientVars, talkVars
  <1>1. UNCHANGED <<client, pane, hand, typed, seen, up, down, talk, open, pump>>
    OBVIOUS
  <1>2. /\ out' \in [Panes -> Seq(Told)]
        /\ \A q \in Panes : \A i \in DOMAIN out'[q] : out'[q][i] \in Painted(q)
    <2>1. CASE UNCHANGED out
      BY <2>1 DEF Typed
    <2>2. ASSUME NEW p \in Panes, NEW k \in {"data", "exit", "end"},
                 out' = [out EXCEPT ![p] = Append(out[p], Said(k, p))]
          PROVE  /\ out' \in [Panes -> Seq(Told)]
                 /\ \A q \in Panes : \A i \in DOMAIN out'[q] : out'[q][i] \in Painted(q)
      <3>1. Said(k, p) \in Told /\ Said(k, p) \in Painted(p)
        BY DEF Said, Told, Painted
      <3>2. out \in [Panes -> Seq(Told)] /\ out[p] \in Seq(Told)
        BY DEF Typed
      <3> DEFINE more == Append(out[p], Said(k, p))
      <3>3. /\ more \in Seq(Told) /\ more[Len(out[p]) + 1] = Said(k, p)
            /\ \A i \in DOMAIN out[p] : more[i] = out[p][i]
            /\ \A i \in DOMAIN more : i \in DOMAIN out[p] \/ i = Len(out[p]) + 1
        BY <3>1, <3>2, OneMore
      <3>4. /\ out' \in [Panes -> Seq(Told)] /\ out'[p] = more
            /\ \A q \in Panes : q # p => out'[q] = out[q]
        BY <2>2, <3>2, <3>3
      <3> HIDE DEF more
      <3>5. \A q \in Panes : \A i \in DOMAIN out'[q] : out'[q][i] \in Painted(q)
        BY <3>1, <3>3, <3>4 DEF Typed
      <3> QED
        BY <3>4, <3>5
    <2> QED
      BY <2>1, <2>2
  <1>3. Typed'
    BY <1>1, <1>2 DEF Typed
  <1>4. Ordered' /\ \A p \in Panes : Past(p) => Past(p)'
    BY <1>1, WireLeftAlone
  <1>5. Reached' /\ Opening' /\ OnePump' /\ Announced' /\ ToldFirst' /\ ClosedIsStopped'
    BY <1>1, <1>4 DEF Reached, Heard, Opening, OnePump, Announced, ToldFirst, ClosedIsStopped
  <1> QED
    BY <1>3, <1>4, <1>5

\* Painting, ending and taking keystrokes.
LEMMA ServeKeeps ==
    ASSUME OrderInv, NEW p \in Panes, Serve(p) \/ Take(p) \/ PaintFails(p)
    PROVE  OrderInv'
  <1>1. KeeperFrame
    BY DEF Serve, Paint, SayExit, SayEnd, Take, PaintFails
  <1>2. \/ UNCHANGED out
        \/ \E k \in {"data", "exit", "end"} :
               out' = [out EXCEPT ![p] = Append(out[p], Said(k, p))]
    BY DEF Serve, Paint, SayExit, SayEnd, Take, PaintFails
  <1> QED
    BY <1>1, <1>2, KeeperKeeps

-----------------------------------------------------------------------------
\* Every step keeps what is said of the panes in order.
LEMMA OrderStep == OrderInv /\ [Next]_vars => OrderInv'
  <1> SUFFICES ASSUME OrderInv, [Next]_vars PROVE OrderInv'
    OBVIOUS
  <1>1. CASE Client
    BY <1>1, AskKeeps, PutKeeps, ReadKeeps, LeaveKeeps DEF Client
  <1>2. CASE Break
    BY <1>2, BreakKeeps
  <1>3. CASE Talk
    BY <1>3, HearOpenKeeps, HearLetGoKeeps, FeedKeeps, SayOpenedKeeps, SayRestKeeps,
       EndTalkKeeps DEF Talk
  <1>4. CASE \E p \in Panes : Pump(p)
    BY <1>4, CarryKeeps, CarryEndKeeps, StopPumpKeeps DEF Pump
  <1>5. CASE \E p \in Panes : Serve(p) \/ Take(p) \/ PaintFails(p)
    BY <1>5, ServeKeeps
  <1>6. CASE Prints \/ SessionEnds \/ KeeperDies
    <2>1. KeeperFrame /\ UNCHANGED out
      BY <1>6 DEF Prints, SessionEnds, KeeperDies
    <2> QED
      BY <2>1, KeeperKeeps
  <1>7. CASE UNCHANGED vars
    <2>1. KeeperFrame /\ UNCHANGED out
      BY <1>7 DEF vars, KeeperFrame
    <2> QED
      BY <2>1, KeeperKeeps
  <1> QED
    BY <1>1, <1>2, <1>3, <1>4, <1>5, <1>6, <1>7 DEF Next

\* A client hears that a pane is open before it hears anything of it, and is told
\* that it is closed only when its pump has been stopped: serve.rs writes Opened
\* before it starts the task that relays, and aborts that task before Closed.
THEOREM PanesAreInOrder == Spec => []PaneInOrder
  <1>1. Init => OrderInv
    BY OrderInit
  <1>2. OrderInv /\ [Next]_vars => OrderInv'
    BY OrderStep
  <1>3. OrderInv => PaneInOrder
    BY OrderGivesPaneInOrder
  <1> QED
    BY <1>1, <1>2, <1>3, PTL DEF Spec

-----------------------------------------------------------------------------
(* What is typed. *)

Answer == {"opened", "error"}

\* The client waits for the answer to its last request, and has typed nothing.
Waiting == client \in {"asking", "gone"} /\ up = <<>> /\ hand = <<>> /\ typed[pane] = 0

\* A keystroke for the pane goes to the session.
Flows(p) == open = p /\ serving[p] # "gone"

\* What was handed to the session through the pane, or to its keeper.
Passed(p) == Len(got[p]) + Len(into[p])

PasteTypes ==
    /\ got \in [Panes -> Seq(Nat)] /\ into \in [Panes -> Seq(Nat)]
    /\ pane \in Nat /\ typed \in [Panes -> Nat]

\* What the client holds goes with what it is at.
Handed ==
    hand # <<>> =>
        /\ client # "gone"
        /\ hand[1].kind = "open" => client = "asking" /\ typed[pane] = 0
        /\ client = "attached" <=> hand[1].kind = "key"
        /\ hand[1].kind = "key" => hand[1].key = typed[pane] /\ typed[pane] > 0

\* Nothing is sent behind a request to open, until it is answered.
Asked ==
    \A i \in DOMAIN up : up[i].kind = "open" =>
        /\ i = Len(up) /\ hand = <<>> /\ client \in {"asking", "gone"}
        /\ up[i].pane = pane /\ typed[pane] = 0

Answered ==
    /\ talk.kind \in Answer => Waiting /\ talk.pane = pane
    /\ \A i \in DOMAIN down : down[i].kind \in Answer =>
           /\ Waiting /\ talk.kind \notin Answer
           /\ down[i].kind = "opened" => open \in {0, pane}
           /\ \A j \in DOMAIN down : down[j].kind \in Answer => i = j

Untyped ==
    \A p \in Panes : p > pane \/ (p = pane /\ client = "asking") => typed[p] = 0

\* Keystrokes on the way are of one pane, with nothing before them, and go on
\* from what has been passed on.
Queued ==
    \A p \in Panes : \A j \in DOMAIN up : up[j].kind = "key" /\ up[j].pane = p =>
        /\ up[j].key \in 1 .. typed[p]
        /\ open \in {0, p}
        /\ \A i \in 1 .. j : up[i].kind = "key" /\ up[i].pane = p
        /\ Flows(p) => up[j].key = Passed(p) + j

\* Nothing that was typed is missing, while it can be typed.
Typing ==
    \A p \in Panes : client = "attached" /\ pane = p =>
        /\ open \in {0, p}
        /\ \A i \in DOMAIN up : up[i].kind = "key" /\ up[i].pane = p
        /\ Flows(p) => typed[p] = Passed(p) + Len(up) + Len(hand)

Given ==
    \A p \in Panes :
        /\ \A k \in DOMAIN got[p] : got[p][k] = k
        /\ \A i \in DOMAIN into[p] : into[p][i] = Len(got[p]) + i
        /\ Passed(p) <= typed[p]

\* A pane that is open, or about to be, has a connection to the keeper, if only
\* one that has gone.
Served ==
    /\ serving \in [Panes -> {"none", "painting", "exiting", "gone"}]
    /\ \A p \in Panes : open = p \/ talk = Said("opened", p) => serving[p] # "none"

PasteInv ==
    /\ PasteTypes /\ Handed /\ Asked /\ Answered /\ Untyped
    /\ Queued /\ Typing /\ Given

\* How much was passed on is a number, and a step that leaves both ends alone
\* leaves it alone.
LEMMA PassedIs == ASSUME PasteTypes PROVE \A p \in Panes : Passed(p) \in Nat
  BY DEF PasteTypes, Passed

\* A step that leaves both ends of a pane alone passes nothing on.
LEMMA PassedLeftAlone ==
    ASSUME UNCHANGED <<got, into, open, serving>>
    PROVE  \A p \in Panes : Passed(p)' = Passed(p) /\ (Flows(p)' <=> Flows(p))
  BY DEF Passed, Flows

\* The invariant as the property that the run checks.
LEMMA PasteGivesPasteIsWhole == PasteInv => PasteIsWhole
  <1> SUFFICES ASSUME PasteInv, NEW p \in Panes
               PROVE  got[p] = [k \in 1 .. Len(got[p]) |-> k] /\ Len(got[p]) <= typed[p]
    BY DEF PasteIsWhole
  <1>1. got[p] \in Seq(Nat) /\ into[p] \in Seq(Nat) /\ typed[p] \in Nat
    BY DEF PasteInv, PasteTypes
  <1>2. \A k \in DOMAIN got[p] : got[p][k] = k
    BY DEF PasteInv, Given
  <1>3. Len(got[p]) <= typed[p]
    <2>1. Len(got[p]) + Len(into[p]) <= typed[p]
      BY DEF PasteInv, Given, Passed
    <2>2. Len(got[p]) \in Nat /\ Len(into[p]) \in Nat
      BY <1>1
    <2>3. \A a, b, c \in Nat : a + b <= c => a <= c
      OBVIOUS
    <2> QED
      BY <1>1, <2>1, <2>2, <2>3
  <1> DEFINE whole == [k \in 1 .. Len(got[p]) |-> k]
  <1>4. whole \in Seq(Nat) /\ Len(whole) = Len(got[p])
    BY <1>1
  <1>5. \A k \in 1 .. Len(got[p]) : whole[k] = got[p][k]
    BY <1>1, <1>2
  <1> HIDE DEF whole
  <1>6. got[p] = whole
    BY <1>1, <1>4, <1>5, SeqEqual
  <1> QED
    BY <1>3, <1>6 DEF whole

\* Nothing has been typed.
LEMMA PasteInit == Init => PasteInv
  <1> SUFFICES ASSUME Init PROVE PasteInv
    OBVIOUS
  <1>1. talk.kind = "reading"
    BY SaidIs DEF Init, Reading
  <1>2. PasteTypes
    BY DEF Init, PasteTypes
  <1>3. Handed /\ Asked /\ Answered /\ Untyped /\ Queued /\ Typing
    BY <1>1 DEF Init, Handed, Asked, Answered, Answer, Untyped, Queued, Typing
  <1>4. Given
    BY DEF Init, Given, Passed
  <1> QED
    BY <1>2, <1>3, <1>4 DEF PasteInv

\* A request to open: no answer is outstanding.
LEMMA AskOpenKeepsPaste == ASSUME OrderInv, PasteInv, AskOpen PROVE PasteInv'
  <1> USE DEF PasteInv, ClientFrame, talkVars, keeperVars
  <1>1. /\ UNCHANGED <<typed, up, down, talk, open, into, serving, got>>
        /\ client \in {"greeted", "detached"} /\ hand = <<>> /\ pane \in Nat /\ pane + 1 \in Panes
        /\ pane' = pane + 1 /\ client' = "asking"
        /\ hand' = <<Said("open", pane + 1)>>
    BY DEF AskOpen, PasteTypes
  <1>2. hand' # <<>> /\ hand'[1] = Said("open", pane + 1) /\ hand'[1].kind = "open"
    BY <1>1, SaidIs
  <1>3. /\ talk.kind \notin Answer /\ \A i \in DOMAIN down : down[i].kind \notin Answer
        /\ \A i \in DOMAIN up : up[i].kind # "open"
    BY <1>1 DEF Answered, Waiting, Asked
  <1>4. \A p \in Panes : p > pane => typed[p] = 0
    BY DEF Untyped
  <1>5. \A p \in Panes : p \in Nat
    BY DEF Panes
  <1>6. typed[pane + 1] = 0
    BY <1>1, <1>4
  <1>7. PasteTypes' /\ Handed'
    BY <1>1, <1>2, <1>6 DEF PasteTypes, Handed
  <1>8. Untyped'
    BY <1>1, <1>4, <1>5 DEF Untyped
  <1>9. Asked' /\ Answered' /\ Typing'
    BY <1>1, <1>3 DEF Asked, Answered, Typing
  <1>10. Queued' /\ Given'
    BY <1>1, PassedLeftAlone DEF Queued, Given
  <1> QED
    BY <1>7, <1>8, <1>9, <1>10

\* A keystroke is the next of its pane.
LEMMA TypeKeepsPaste == ASSUME OrderInv, PasteInv, Type PROVE PasteInv'
  <1> USE DEF PasteInv, ClientFrame, talkVars, keeperVars
  <1>1. /\ UNCHANGED <<client, pane, up, down, talk, open, into, serving, got>>
        /\ client = "attached" /\ hand = <<>>
        /\ typed' = [typed EXCEPT ![pane] = typed[pane] + 1]
        /\ hand' = <<Key(pane, typed[pane] + 1)>>
    BY DEF Type
  <1>2. /\ pane \in Panes /\ pane \in Nat /\ typed[pane] \in Nat
        /\ typed' \in [Panes -> Nat] /\ typed'[pane] = typed[pane] + 1
        /\ \A p \in Panes : p # pane => typed'[p] = typed[p]
    BY <1>1 DEF OrderInv, Typed, PasteTypes
  <1>3. /\ hand' # <<>> /\ Len(hand') = 1 /\ Len(hand) = 0 /\ hand'[1].kind = "key"
        /\ hand'[1].key = typed'[pane]
    BY <1>1, <1>2 DEF Key
  <1>4. /\ talk.kind \notin Answer /\ \A i \in DOMAIN down : down[i].kind \notin Answer
        /\ \A i \in DOMAIN up : up[i].kind = "key" /\ up[i].pane = pane
    BY <1>1, <1>2 DEF Answered, Waiting, Typing
  <1>5. \A p \in Panes : Passed(p)' = Passed(p) /\ (Flows(p)' <=> Flows(p)) /\ Passed(p) \in Nat
    <2>1. PasteTypes
      OBVIOUS
    <2>2. \A p \in Panes : Passed(p) \in Nat
      BY <2>1, PassedIs
    <2> QED
      BY <1>1, <2>2, PassedLeftAlone
  <1>6. ASSUME NEW p \in Panes
        PROVE  typed[p] \in Nat /\ typed'[p] \in Nat /\ typed[p] <= typed'[p]
    <2>1. typed[p] \in Nat /\ typed'[p] \in Nat
      BY <1>2 DEF PasteTypes
    <2>2. typed'[p] = typed[p] \/ typed'[p] = typed[p] + 1
      BY <1>2
    <2> QED
      BY <2>1, <2>2
  <1>7. PasteTypes' /\ Handed'
    BY <1>1, <1>2, <1>3 DEF PasteTypes, Handed
  <1>8. Untyped'
    BY <1>1, <1>2 DEF Untyped, Panes
  <1>9. Asked' /\ Answered'
    BY <1>1, <1>4 DEF Asked, Answered
  <1>10. Queued'
    <2>1. \A k, p : p \in Panes /\ k \in 1 .. typed[p] => k \in 1 .. typed'[p]
      BY <1>6
    <2> QED
      BY <1>1, <1>5, <2>1 DEF Queued
  <1>11. Typing'
    <2>1. Len(up) \in Nat
      BY DEF OrderInv, Typed
    <2>2. Flows(pane) => typed'[pane] = Passed(pane) + Len(up) + Len(hand')
      BY <1>1, <1>2, <1>3, <1>5, <2>1 DEF Typing
    <2> QED
      BY <1>1, <1>2, <1>4, <1>5, <2>2 DEF Typing
  <1>12. Given'
    <2>1. \A p \in Panes : Passed(p) <= typed'[p]
      BY <1>5, <1>6 DEF Given
    <2> QED
      BY <1>1, <1>5, <2>1 DEF Given
  <1> QED
    BY <1>7, <1>8, <1>9, <1>10, <1>11, <1>12

\* Leaving and letting go: nothing more is typed.
LEMMA LeaveKeepsPaste ==
    ASSUME OrderInv, PasteInv, Detach \/ LetGo \/ Close \/ Stop PROVE PasteInv'
  <1> USE DEF PasteInv, ClientFrame, talkVars, keeperVars
  <1>1. /\ UNCHANGED <<pane, typed, up, down, talk, open, into, serving, got>>
        /\ client \notin {"greeted", "asking", "gone"} /\ hand = <<>>
        /\ \/ client' = client /\ hand' = <<>>
           \/ client' \in {"leaving", "gone"} /\ hand' = <<>>
           \/ client' = "detached" /\ hand' # <<>> /\ hand'[1].kind \in {"close", "release"}
    <2>1. CASE Detach \/ Close \/ Stop
      BY <2>1 DEF Detach, Close, Stop
    <2>2. CASE LetGo
      <3>1. PICK how \in {"close", "release"} : hand' = <<Said(how, pane)>>
        BY <2>2 DEF LetGo
      <3>2. hand' # <<>> /\ hand'[1].kind = how
        BY <3>1, SaidIs
      <3> QED
        BY <2>2, <3>2 DEF LetGo
    <2> QED
      BY <2>1, <2>2
  <1>2. /\ talk.kind \notin Answer /\ \A i \in DOMAIN down : down[i].kind \notin Answer
        /\ \A i \in DOMAIN up : up[i].kind # "open"
    BY <1>1 DEF Answered, Waiting, Asked
  <1>3. Handed'
    BY <1>1 DEF Handed
  <1>4. PasteTypes' /\ Asked' /\ Answered' /\ Untyped'
    BY <1>1, <1>2 DEF PasteTypes, Asked, Answered, Untyped
  <1>5. Queued' /\ Typing' /\ Given'
    BY <1>1, PassedLeftAlone DEF Queued, Typing, Given
  <1> QED
    BY <1>3, <1>4, <1>5

\* A keystroke that is put on the wire is the next there.
LEMMA PutKeepsPaste == ASSUME OrderInv, PasteInv, Put PROVE PasteInv'
  <1> USE DEF PasteInv, ClientFrame, talkVars, keeperVars
  <1>1. /\ UNCHANGED <<client, pane, typed, down, talk, open, into, serving, got>>
        /\ hand' = <<>> /\ hand # <<>> /\ client # "gone" /\ up' = up \o hand
    BY DEF Put
  <1>2. /\ hand = <<hand[1]>> /\ hand[1] \in Sent /\ Len(hand) = 1 /\ hand[1].pane = pane
        /\ up \in Seq(Sent) /\ Len(up) \in Nat
    <2>1. hand \in Seq(Sent) /\ Len(hand) <= 1 /\ up \in Seq(Sent)
      BY DEF OrderInv, Typed
    <2>2. hand = <<hand[1]>> /\ hand[1] \in Sent
      BY <1>1, <2>1, OnlyOne
    <2> QED
      BY <1>1, <2>1, <2>2 DEF OrderInv, Ordered
  <1>3. /\ up'[Len(up) + 1] = hand[1] /\ Len(up') = Len(up) + 1
        /\ \A i \in DOMAIN up : up'[i] = up[i] /\ i \in 1 .. Len(up)
        /\ \A i \in DOMAIN up' : i \in DOMAIN up \/ i = Len(up) + 1
        /\ \A i \in 1 .. Len(up) : i \in DOMAIN up
    <2>1. up \o <<hand[1]>> = Append(up, hand[1])
      BY <1>2
    <2>2. up' = Append(up, hand[1])
      BY <1>1, <1>2, <2>1
    <2>3. DOMAIN up = 1 .. Len(up)
      BY <1>2
    <2> QED
      BY <1>2, <2>2, <2>3, OneMore
  <1>4. /\ talk.kind \notin Answer /\ \A i \in DOMAIN down : down[i].kind \notin Answer
        /\ \A i \in DOMAIN up : up[i].kind # "open"
    BY <1>1 DEF Answered, Waiting, Asked
  <1>5. /\ hand[1].kind = "open" => client = "asking" /\ typed[pane] = 0
        /\ client = "attached" <=> hand[1].kind = "key"
        /\ hand[1].kind = "key" => hand[1].key = typed[pane] /\ typed[pane] > 0
    BY <1>1 DEF Handed
  <1>6. /\ pane \in Panes /\ typed[pane] \in Nat
        /\ \A p \in Panes : Passed(p)' = Passed(p) /\ (Flows(p)' <=> Flows(p)) /\ Passed(p) \in Nat
    <2>1. pane \in Panes
      BY <1>2 DEF Sent
    <2> QED
      BY <1>1, <2>1, PassedLeftAlone, PassedIs DEF PasteTypes
  <1>7. PasteTypes' /\ Handed' /\ Untyped' /\ Answered' /\ Given'
    BY <1>1, <1>4, <1>6 DEF PasteTypes, Handed, Untyped, Answered, Given
  <1>8. Asked'
    BY <1>1, <1>2, <1>3, <1>4, <1>5 DEF Asked
  <1>9. client = "attached" =>
            /\ hand[1].key \in 1 .. typed[pane] /\ open \in {0, pane}
            /\ Flows(pane) => hand[1].key = Passed(pane) + (Len(up) + 1)
            /\ \A i \in DOMAIN up : up[i].kind = "key" /\ up[i].pane = pane
            /\ Flows(pane) => typed[pane] = Passed(pane) + Len(up') + Len(hand')
    <2>1. Len(hand') = 0
      BY <1>1
    <2> QED
      BY SMTT(30), <1>2, <1>3, <1>5, <1>6, <2>1 DEF Typing
  <1>10. Queued'
    <2> SUFFICES ASSUME NEW p \in Panes, NEW j \in DOMAIN up',
                        up'[j].kind = "key", up'[j].pane = p
                 PROVE  /\ up'[j].key \in 1 .. typed[p]
                        /\ open \in {0, p}
                        /\ \A i \in 1 .. j : up'[i].kind = "key" /\ up'[i].pane = p
                        /\ Flows(p) => up'[j].key = Passed(p) + j
      BY <1>1, <1>6 DEF Queued
    <2>1. CASE j \in DOMAIN up
      <3>1. \A i \in 1 .. j : i \in DOMAIN up /\ up'[i] = up[i]
        BY <1>2, <1>3, <2>1
      <3>2. up'[j] = up[j]
        BY <1>3, <2>1
      <3> QED
        BY <2>1, <3>1, <3>2 DEF Queued
    <2>2. CASE j = Len(up) + 1
      <3>1. up'[j] = hand[1] /\ client = "attached" /\ p = pane
        BY <1>2, <1>3, <1>5, <2>2
      <3>2. \A i \in 1 .. j : i \in 1 .. Len(up) \/ i = j
        BY <1>2, <2>2
      <3> QED
        BY <1>3, <1>9, <2>2, <3>1, <3>2
    <2> QED
      BY <1>3, <2>1, <2>2
  <1>11. Typing'
    BY <1>1, <1>2, <1>3, <1>5, <1>6, <1>9 DEF Typing
  <1> QED
    BY <1>7, <1>8, <1>10, <1>11

\* An answer that is read is the only one, and comes to a client that has sent
\* nothing since.
LEMMA ReadKeepsPaste == ASSUME OrderInv, PasteInv, Read PROVE PasteInv'
  <1> USE DEF PasteInv, talkVars, keeperVars
  <1>1. /\ UNCHANGED <<pane, hand, typed, up, talk, open, into, serving, got>>
        /\ client \in {"asking", "attached", "detached"} /\ hand = <<>>
        /\ down # <<>> /\ down' = Tail(down) /\ client' = Hear(Head(down))
    BY DEF Read
  <1>2. /\ Head(down) = down[1] /\ 1 \in DOMAIN down
        /\ \A i \in DOMAIN down' : i \in Nat \ {0} /\ i + 1 \in DOMAIN down /\ down'[i] = down[i + 1]
    BY <1>1, RestOf DEF OrderInv, Typed
  <1>3. client' \in {"asking", "attached", "detached", "leaving", "gone"}
    BY <1>1 DEF Hear
  <1>4. \/ client' = client /\ (client = "asking" => down[1].kind \notin Answer)
        \/ client = "asking" /\ client' = "attached" /\ down[1].kind = "opened"
        \/ client = "asking" /\ client' = "gone" /\ down[1].kind = "error"
        \/ client = "attached" /\ client' = "leaving"
    <2>1. CASE client = "asking"
      BY <1>1, <1>2, <2>1 DEF Hear, Answer
    <2>2. CASE client = "attached"
      BY <1>1, <1>2, <2>2 DEF Hear
    <2>3. CASE client = "detached"
      BY <1>1, <1>2, <2>3 DEF Hear
    <2> QED
      BY <1>1, <2>1, <2>2, <2>3
  <1>5. PasteTypes' /\ Handed'
    BY <1>1 DEF PasteTypes, Handed
  <1>6. Untyped'
    BY <1>1, <1>4 DEF Untyped
  <1>7. Asked'
    <2>1. CASE down[1].kind \in Answer
      BY <1>1, <1>2, <2>1 DEF Answered, Waiting, Asked
    <2>2. CASE down[1].kind \notin Answer
      BY <1>1, <1>4, <2>2 DEF Asked, Answer
    <2> QED
      BY <2>1, <2>2
  <1>8. Answered'
    <2>1. CASE down[1].kind \in Answer
      <3>1. talk.kind \notin Answer /\ \A i \in DOMAIN down : down[i].kind \in Answer => i = 1
        BY <1>2, <2>1 DEF Answered
      <3>2. \A i \in DOMAIN down' : i + 1 # 1
        BY <1>2
      <3>3. \A i \in DOMAIN down' : down'[i].kind \notin Answer
        BY <1>2, <3>1, <3>2
      <3> QED
        BY <1>1, <3>1, <3>3 DEF Answered
    <2>2. CASE down[1].kind \notin Answer
      <3>1. talk.kind \in Answer \/ (\E i \in DOMAIN down : down[i].kind \in Answer) => client' = client
        BY <1>1, <1>4, <2>2 DEF Answered, Waiting, Answer
      <3>2. talk.kind \in Answer => Waiting' /\ talk.pane = pane
        BY <1>1, <3>1 DEF Answered, Waiting, Answer
      <3>3. ASSUME NEW i \in DOMAIN down', down'[i].kind \in Answer
            PROVE  /\ Waiting' /\ talk.kind \notin Answer
                   /\ down'[i].kind = "opened" => open \in {0, pane}
                   /\ \A j \in DOMAIN down' : down'[j].kind \in Answer => i = j
        <4>1. i + 1 \in DOMAIN down /\ down[i + 1].kind \in Answer
          BY <1>2, <3>3
        <4>a. down'[i] = down[i + 1]
          BY <1>2
        <4>2. \A j \in DOMAIN down' : down'[j].kind \in Answer => i + 1 = j + 1
          BY <1>2, <4>1 DEF Answered
        <4>3. \A j \in DOMAIN down' : down'[j].kind \in Answer => i = j
          BY <1>2, <4>2
        <4> QED
          BY <1>1, <3>1, <4>1, <4>a, <4>3 DEF Answered, Waiting
      <3> QED
        BY <1>1, <3>2, <3>3 DEF Answered
    <2> QED
      BY <2>1, <2>2
  <1>9. \A p \in Panes : Passed(p)' = Passed(p) /\ (Flows(p)' <=> Flows(p)) /\ Passed(p) \in Nat
    <2>1. PasteTypes
      OBVIOUS
    <2>2. \A p \in Panes : Passed(p) \in Nat
      BY <2>1, PassedIs
    <2> QED
      BY <1>1, <2>2, PassedLeftAlone
  <1>10. Queued' /\ Given'
    BY <1>1, <1>9 DEF Queued, Given
  <1>11. Typing'
    <2>1. CASE client' = client
      BY <1>1, <1>9, <2>1 DEF Typing
    <2>2. CASE client = "asking" /\ client' = "attached" /\ down[1].kind = "opened"
      <3>1. up = <<>> /\ hand = <<>> /\ typed[pane] = 0 /\ open \in {0, pane}
        BY <1>2, <2>2 DEF Answered, Waiting, Answer
      <3>2. pane \in Panes => Passed(pane) = 0
        BY <1>9, <3>1 DEF Given
      <3>3. Len(up) = 0 /\ Len(hand) = 0
        BY <3>1
      <3>4. pane \in Panes => typed[pane] = Passed(pane) + Len(up) + Len(hand)
        BY <3>1, <3>2, <3>3
      <3>5. DOMAIN up = {}
        BY <3>1
      <3> QED
        BY <1>1, <1>9, <3>1, <3>4, <3>5 DEF Typing
    <2>3. CASE client' \in {"leaving", "gone"}
      BY <2>3 DEF Typing
    <2> QED
      BY <1>4, <2>1, <2>2, <2>3
  <1> QED
    BY <1>5, <1>6, <1>7, <1>8, <1>10, <1>11

\* On a connection that broke nothing is typed or answered.
LEMMA BreakKeepsPaste == ASSUME OrderInv, PasteInv, Break PROVE PasteInv'
  <1> USE DEF PasteInv, talkVars, keeperVars
  <1>1. /\ UNCHANGED <<pane, typed, talk, open, into, serving, got>>
        /\ client' = "gone" /\ hand' = <<>> /\ up' = <<>> /\ down' = <<>>
    BY DEF Break
  <1>2. PasteTypes' /\ Handed' /\ Asked' /\ Untyped' /\ Typing'
    BY <1>1 DEF PasteTypes, Handed, Asked, Untyped, Typing
  <1>3. Answered'
    BY <1>1 DEF Answered, Waiting
  <1>4. Queued' /\ Given'
    BY <1>1, PassedLeftAlone DEF Queued, Given
  <1> QED
    BY <1>2, <1>3, <1>4

\* The conversation takes a request to open: the last there is.
LEMMA HearOpenKeepsPaste == ASSUME OrderInv, PasteInv, HearOpen PROVE PasteInv'
  <1> USE DEF PasteInv
  <1>1. /\ UNCHANGED <<client, pane, hand, typed, down, open, into, got>>
        /\ talk = Reading /\ up # <<>> /\ Head(up).kind = "open" /\ up' = Tail(up)
    BY DEF HearOpen, Receive, clientVars
  <1>2. /\ Head(up) = up[1] /\ 1 \in DOMAIN up /\ up \in Seq(Sent)
    BY <1>1, RestOf DEF OrderInv, Typed
  <1>3. /\ Len(up) = 1 /\ hand = <<>> /\ client \in {"asking", "gone"}
        /\ up[1].pane = pane /\ typed[pane] = 0
    BY <1>1, <1>2 DEF Asked
  <1>4. up' = <<>>
    BY <1>1, <1>2, <1>3
  <1>5. \A i \in DOMAIN down : down[i].kind \notin Answer
    BY <1>1 DEF Answered, Waiting
  <1>6. talk' = Said("opened", pane) \/ talk' = Said("error", pane)
    BY <1>2, <1>3 DEF HearOpen
  <1>7. talk'.pane = pane
    BY <1>6, SaidIs
  <1>8. PasteTypes' /\ Handed' /\ Asked' /\ Untyped' /\ Typing' /\ Queued'
    BY <1>1, <1>3, <1>4 DEF PasteTypes, Handed, Asked, Untyped, Typing, Queued
  <1>9. Answered'
    BY <1>1, <1>3, <1>4, <1>5, <1>7 DEF Answered, Waiting
  <1>10. Given'
    BY <1>1 DEF Given, Passed
  <1> QED
    BY <1>8, <1>9, <1>10

\* A request to let go has nothing typed behind it.
LEMMA HearLetGoKeepsPaste ==
    ASSUME OrderInv, PasteInv, HearClose \/ HearRelease PROVE PasteInv'
  <1> USE DEF PasteInv
  <1>1. /\ UNCHANGED <<client, pane, hand, typed, down, into, got, serving>>
        /\ talk = Reading /\ up # <<>> /\ Head(up).kind \in {"close", "release"}
        /\ up' = Tail(up) /\ open' = 0
        /\ talk' = talk \/ talk' = Said("closed", Head(up).pane)
    BY DEF HearClose, HearRelease, Receive, clientVars, keeperVars
  <1>2. /\ Head(up) = up[1] /\ 1 \in DOMAIN up /\ up \in Seq(Sent)
        /\ \A i \in DOMAIN up' : i \in Nat \ {0} /\ i + 1 \in DOMAIN up /\ up'[i] = up[i + 1]
        /\ Len(up') = Len(up) - 1 /\ Len(up) \in Nat
        /\ \A i \in DOMAIN up : up[i].pane \in Panes
    BY <1>1, RestOf DEF OrderInv, Typed, Sent
  <1>3. talk.kind \notin Answer /\ talk'.kind \notin Answer
    BY <1>1, SaidIs DEF Reading, Answer
  <1>4. /\ \A i \in DOMAIN down : down[i].kind \notin Answer
        /\ pane \in Panes => client # "attached"
    BY <1>1, <1>2 DEF Answered, Waiting, Typing
  <1>5. \A i \in DOMAIN up : 1 \in 1 .. i
    BY <1>2
  <1>6. \A i \in DOMAIN up' : up'[i].kind # "key"
    BY <1>1, <1>2, <1>5 DEF Queued
  <1>7. PasteTypes' /\ Handed' /\ Untyped' /\ Typing' /\ Queued'
    BY <1>1, <1>4, <1>6 DEF PasteTypes, Handed, Untyped, Typing, Queued
  <1>8. Asked'
    <2>1. \A i \in DOMAIN up' : i + 1 = Len(up) => i = Len(up')
      BY <1>2
    <2> QED
      BY <1>1, <1>2, <2>1 DEF Asked
  <1>9. Answered'
    BY <1>1, <1>3, <1>4 DEF Answered
  <1>10. Given'
    BY <1>1 DEF Given, Passed
  <1> QED
    BY <1>7, <1>8, <1>9, <1>10

\* A keystroke goes on to the keeper as the next of its pane, or no more of the
\* pane's go anywhere.
LEMMA FeedKeepsPaste == ASSUME OrderInv, PasteInv, Feed PROVE PasteInv'
  <1> USE DEF PasteInv
  <1>1. /\ UNCHANGED <<client, pane, hand, typed, down, got, serving, talk, open>>
        /\ talk = Reading /\ up # <<>> /\ Head(up).kind = "key" /\ up' = Tail(up)
        /\ \/ (open = 0 \/ serving[open] = "gone") /\ into' = into
           \/ /\ open # 0 /\ serving[open] # "gone"
              /\ into' = [into EXCEPT ![open] = Append(into[open], Head(up).key)]
    BY DEF Feed, Receive, clientVars, talkVars, keeperVars
  <1>2. /\ Head(up) = up[1] /\ 1 \in DOMAIN up /\ up \in Seq(Sent)
        /\ \A i \in DOMAIN up' : i \in Nat \ {0} /\ i + 1 \in DOMAIN up /\ up'[i] = up[i + 1]
        /\ Len(up') = Len(up) - 1 /\ Len(up) \in Nat
        /\ up[1].pane \in Panes
    BY <1>1, RestOf DEF OrderInv, Typed, Sent
  <1>q. PICK q \in Panes : q = up[1].pane
    BY <1>2
  <1>3. /\ q \in Panes /\ q # 0 /\ up[1].key \in 1 .. typed[q] /\ open \in {0, q}
        /\ Flows(q) => up[1].key = Passed(q) + 1
    BY <1>1, <1>2, <1>q DEF Queued, Panes
  <1>4. /\ talk.kind \notin Answer /\ \A i \in DOMAIN down : down[i].kind \notin Answer
    BY <1>1, SaidIs DEF Reading, Answer, Answered, Waiting
  <1>5. \A p \in Panes : Passed(p) \in Nat /\ typed[p] \in Nat /\ got[p] \in Seq(Nat) /\ into[p] \in Seq(Nat)
    <2>1. PasteTypes
      OBVIOUS
    <2> QED
      BY <2>1, PassedIs DEF PasteTypes
  <1>6. \A p \in Panes : Flows(p)' <=> Flows(p)
    BY <1>1 DEF Flows
  <1>7. \A p \in Panes : Flows(p) => p = q
    BY <1>3 DEF Flows, Panes
  <1>8. /\ PasteTypes' /\ Given'
        /\ Flows(q) => Passed(q)' = Passed(q) + 1
    <2>1. CASE ~Flows(q)
      <3>1. into' = into
        BY <1>1, <1>3, <2>1 DEF Flows
      <3>2. PasteTypes' /\ Given'
        BY <1>1, <3>1 DEF PasteTypes, Given, Passed
      <3> QED
        BY <2>1, <3>2
    <2>2. CASE Flows(q)
      <3> DEFINE k == up[1].key
      <3>1. k \in Nat /\ k = Passed(q) + 1 /\ k <= typed[q] /\ typed[q] \in Nat
        BY <1>3, <1>5, <2>2
      <3>2. into' = [into EXCEPT ![q] = Append(into[q], k)]
        BY <1>1, <1>2, <1>3, <1>q, <2>2 DEF Flows
      <3> HIDE DEF k
      <3>3. into \in [Panes -> Seq(Nat)] /\ got \in [Panes -> Seq(Nat)]
        BY DEF PasteTypes
      <3>4. /\ Append(into[q], k) \in Seq(Nat) /\ Len(Append(into[q], k)) = Len(into[q]) + 1
            /\ Append(into[q], k)[Len(into[q]) + 1] = k /\ Len(into[q]) \in Nat
            /\ \A i \in DOMAIN into[q] : Append(into[q], k)[i] = into[q][i]
            /\ \A i \in DOMAIN Append(into[q], k) : i \in DOMAIN into[q] \/ i = Len(into[q]) + 1
        BY <1>3, <1>5, <3>1, OneMore
      <3>5. /\ into' \in [Panes -> Seq(Nat)] /\ into'[q] = Append(into[q], k)
            /\ \A p \in Panes : p # q => into'[p] = into[p]
        BY <1>3, <3>2, <3>3, <3>4
      <3>6. Len(got[q]) \in Nat
        BY <1>3, <1>5
      <3>7. /\ Passed(q)' = Passed(q) + 1
            /\ k = Len(got[q]) + (Len(into[q]) + 1)
        <4>1. Passed(q) = Len(got[q]) + Len(into[q])
          BY DEF Passed
        <4>2. Passed(q)' = Len(got[q]) + (Len(into[q]) + 1)
          BY <1>1, <3>4, <3>5 DEF Passed
        <4>3. \A a, b \in Nat : a + (b + 1) = (a + b) + 1
          OBVIOUS
        <4> QED
          BY <3>1, <3>4, <3>6, <4>1, <4>2, <4>3
      <3>8. \A p \in Panes : p # q => Passed(p)' = Passed(p)
        BY <1>1, <3>5 DEF Passed
      <3>9. PasteTypes'
        BY <1>1, <3>5 DEF PasteTypes
      <3>10. ASSUME NEW i \in DOMAIN into'[q]
             PROVE  into'[q][i] = Len(got[q]) + i
        <4>1. CASE i \in DOMAIN into[q]
          BY <1>3, <3>4, <3>5, <4>1 DEF Given
        <4>2. CASE i = Len(into[q]) + 1
          <5>1. into'[q][i] = k
            BY <3>4, <3>5, <4>2
          <5> QED
            BY <3>7, <4>2, <5>1
        <4> QED
          BY <3>4, <3>5, <3>10, <4>1, <4>2
      <3>11. Passed(q)' <= typed[q]
        BY <3>1, <3>7
      <3>12. ASSUME NEW p \in Panes
             PROVE  /\ \A i \in DOMAIN got[p] : got[p][i] = i
                    /\ \A i \in DOMAIN into'[p] : into'[p][i] = Len(got[p]) + i
                    /\ Passed(p)' <= typed[p]
        <4>1. CASE p = q
          BY <3>10, <3>11, <4>1 DEF Given
        <4>2. CASE p # q
          BY <3>5, <3>8, <4>2 DEF Given
        <4> QED
          BY <4>1, <4>2
      <3>13. Given'
        BY <1>1, <3>12 DEF Given
      <3> QED
        BY <3>7, <3>9, <3>13
    <2> QED
      BY <2>1, <2>2
  <1>9. Handed' /\ Untyped' /\ Answered'
    BY <1>1, <1>4 DEF Handed, Untyped, Answered
  <1>10. Asked'
    <2>1. \A i \in DOMAIN up' : i + 1 = Len(up) => i = Len(up')
      BY <1>2
    <2> QED
      BY <1>1, <1>2, <2>1 DEF Asked
  <1>11. Queued'
    <2> SUFFICES ASSUME NEW p \in Panes, NEW j \in DOMAIN up',
                        up'[j].kind = "key", up'[j].pane = p
                 PROVE  /\ up'[j].key \in 1 .. typed[p]
                        /\ open \in {0, p}
                        /\ \A i \in 1 .. j : up'[i].kind = "key" /\ up'[i].pane = p
                        /\ Flows(p)' => up'[j].key = Passed(p)' + j
      BY <1>1 DEF Queued
    <2>1. j + 1 \in DOMAIN up /\ j \in Nat /\ up'[j] = up[j + 1]
      BY <1>2
    <2>2. /\ up[j + 1].key \in 1 .. typed[p] /\ open \in {0, p}
          /\ \A i \in 1 .. j + 1 : up[i].kind = "key" /\ up[i].pane = p
          /\ Flows(p) => up[j + 1].key = Passed(p) + (j + 1)
      BY <2>1 DEF Queued
    <2>3. \A i \in 1 .. j : i \in DOMAIN up' /\ i + 1 \in 1 .. j + 1
      <3>1. up' \in Seq(Sent)
        BY <1>1, <1>2
      <3>2. DOMAIN up' = 1 .. Len(up') /\ Len(up') \in Nat
        BY <3>1
      <3> QED
        BY <2>1, <3>2
    <2>4. \A i \in 1 .. j : up'[i].kind = "key" /\ up'[i].pane = p
      BY <1>2, <2>2, <2>3
    <2>5. Flows(p)' => up[j + 1].key = Passed(p)' + j
      <3> SUFFICES ASSUME Flows(p)' PROVE up[j + 1].key = Passed(p)' + j
        OBVIOUS
      <3>1. p = q /\ Flows(p) /\ Passed(p) \in Nat
        BY <1>5, <1>6, <1>7
      <3>2. Passed(p)' = Passed(p) + 1 /\ up[j + 1].key = Passed(p) + (j + 1)
        BY <1>8, <2>2, <3>1
      <3> QED
        BY <2>1, <3>1, <3>2
    <2> QED
      BY <2>1, <2>2, <2>4, <2>5
  <1>12. Typing'
    <2> SUFFICES ASSUME NEW p \in Panes, client = "attached", pane = p
                 PROVE  /\ open \in {0, p}
                        /\ \A i \in DOMAIN up' : up'[i].kind = "key" /\ up'[i].pane = p
                        /\ Flows(p)' => typed[p] = Passed(p)' + Len(up') + Len(hand)
      BY <1>1 DEF Typing
    <2>1. /\ open \in {0, p} /\ \A i \in DOMAIN up : up[i].kind = "key" /\ up[i].pane = p
          /\ Flows(p) => typed[p] = Passed(p) + Len(up) + Len(hand)
      BY DEF Typing
    <2>2. Len(hand) \in Nat
      BY DEF OrderInv, Typed
    <2>3. \A i \in DOMAIN up' : up'[i].kind = "key" /\ up'[i].pane = p
      BY <1>2, <2>1
    <2>4. Flows(p)' => typed[p] = Passed(p)' + Len(up') + Len(hand)
      <3> SUFFICES ASSUME Flows(p)' PROVE typed[p] = Passed(p)' + Len(up') + Len(hand)
        OBVIOUS
      <3>1. p = q /\ Flows(p) /\ Passed(p) \in Nat
        BY <1>5, <1>6, <1>7
      <3>2. Passed(p)' = Passed(p) + 1 /\ typed[p] = Passed(p) + Len(up) + Len(hand)
        BY <1>8, <2>1, <3>1
      <3>3. \A a, b, c \in Nat : a + b + c = (a + 1) + (b - 1) + c
        OBVIOUS
      <3> QED
        BY <1>2, <2>2, <3>1, <3>2, <3>3
    <2> QED
      BY <2>1, <2>3, <2>4
  <1> QED
    BY <1>8, <1>9, <1>10, <1>11, <1>12

\* The client is told that its pane is open, while it waits with nothing typed.
LEMMA SayKeepsPaste == ASSUME OrderInv, PasteInv, SayOpened \/ SayRest PROVE PasteInv'
  <1> USE DEF PasteInv
  <1>1. /\ UNCHANGED <<client, pane, hand, typed, up, into, got, serving>>
        /\ talk.kind \in {"opened", "closed", "error"} /\ talk' = Reading
        /\ down' = Append(down, talk)
        /\ open' = open \/ (talk.kind = "opened" /\ open' = talk.pane)
    BY DEF SayOpened, SayRest, clientVars, keeperVars
  <1>2. talk \in Told
    BY <1>1, SaidIs DEF OrderInv, Typed, Reading
  <1>3. /\ down'[Len(down) + 1] = talk
        /\ \A i \in DOMAIN down : down'[i] = down[i]
        /\ \A i \in DOMAIN down' : i \in DOMAIN down \/ i = Len(down) + 1
    BY <1>1, <1>2, OneMore DEF OrderInv, Typed
  <1>4. talk'.kind \notin Answer
    BY <1>1, SaidIs DEF Reading, Answer
  <1>5. talk.kind \in Answer => Waiting /\ talk.pane = pane /\ \A i \in DOMAIN down : down[i].kind \notin Answer
    BY DEF Answered
  <1>o. talk.kind = "opened" => open' = talk.pane
    BY <1>1, SaidIs DEF SayOpened, SayRest
  <1>7. PasteTypes' /\ Handed' /\ Asked' /\ Untyped'
    BY <1>1 DEF PasteTypes, Handed, Asked, Untyped
  <1>8. Given'
    BY <1>1 DEF Given, Passed
  <1>9. Answered'
    <2>1. ASSUME NEW i \in DOMAIN down', down'[i].kind \in Answer
          PROVE  /\ Waiting'
                 /\ down'[i].kind = "opened" => open' \in {0, pane}
                 /\ \A j \in DOMAIN down' : down'[j].kind \in Answer => i = j
      <3>1. CASE talk.kind \in Answer
        <4>1. Waiting /\ talk.pane = pane /\ \A j \in DOMAIN down : down[j].kind \notin Answer
          BY <1>5, <3>1
        <4>2. down'[i] = talk
          BY <1>3, <2>1, <4>1
        <4>3. talk.kind = "opened" => open' \in {0, pane}
          BY <1>1, <1>o, <4>1
        <4> QED
          BY <1>1, <1>3, <2>1, <4>1, <4>2, <4>3 DEF Waiting
      <3>2. CASE talk.kind \notin Answer
        <4>1. open' = open
          BY <1>1, <3>2 DEF Answer
        <4>2. i \in DOMAIN down /\ \A j \in DOMAIN down' : down'[j].kind \in Answer => j \in DOMAIN down
          BY <1>3, <2>1, <3>2
        <4> QED
          BY <1>1, <1>3, <2>1, <4>1, <4>2 DEF Answered, Waiting
      <3> QED
        BY <3>1, <3>2
    <2> QED
      BY <1>1, <1>4, <2>1 DEF Answered
  <1>10. Queued' /\ Typing'
    <2>1. CASE open' = open
      BY <1>1, <2>1, PassedLeftAlone DEF Queued, Typing
    <2>2. CASE talk.kind = "opened"
      <3>1. up = <<>> /\ client # "attached"
        BY <1>5, <2>2 DEF Waiting, Answer
      <3> QED
        BY <1>1, <3>1 DEF Queued, Typing
    <2> QED
      BY <1>1, <2>1, <2>2
  <1> QED
    BY <1>7, <1>8, <1>9, <1>10

\* A conversation that is over has no pane open.
LEMMA EndTalkKeepsPaste == ASSUME OrderInv, PasteInv, EndTalk PROVE PasteInv'
  <1> USE DEF PasteInv
  <1>1. /\ UNCHANGED <<client, pane, hand, typed, down, into, got, serving>>
        /\ client = "gone" /\ talk' = Said("over", 0) /\ open' = 0 /\ up' = <<>>
    BY DEF EndTalk, Unheard, clientVars, keeperVars
  <1>2. talk'.kind \notin Answer
    BY <1>1, SaidIs DEF Answer
  <1>3. PasteTypes' /\ Handed' /\ Asked' /\ Untyped' /\ Queued' /\ Typing'
    BY <1>1 DEF PasteTypes, Handed, Asked, Untyped, Queued, Typing
  <1>4. Answered'
    BY <1>1, <1>2 DEF Answered, Waiting
  <1>5. Given'
    BY <1>1 DEF Given, Passed
  <1> QED
    BY <1>3, <1>4, <1>5

\* A pump says nothing that answers a request.
LEMMA PumpKeepsPaste == ASSUME OrderInv, PasteInv, NEW p \in Panes, Pump(p) PROVE PasteInv'
  <1> USE DEF PasteInv
  <1>1. UNCHANGED <<client, pane, hand, typed, up, talk, open, into, got, serving>>
    BY DEF Pump, Carry, CarryEnd, StopPump, clientVars, talkVars, keeperVars
  <1>2. down' = down \/ \E m \in Told : down' = Append(down, m) /\ m.kind \notin Answer
    <2>1. CASE Carry(p)
      <3>1. out[p] # <<>> /\ down' = Append(down, Head(out[p])) /\ out[p] \in Seq(Told)
        BY <2>1 DEF Carry, OrderInv, Typed
      <3>2. Head(out[p]) = out[p][1] /\ 1 \in DOMAIN out[p]
        BY <3>1, RestOf
      <3>3. Head(out[p]) \in Painted(p)
        BY <3>2 DEF OrderInv, Typed
      <3> QED
        BY <3>1, <3>3 DEF Painted, Told, Answer
    <2>2. CASE CarryEnd(p)
      <3>1. Said("end", p) \in Told /\ Said("end", p).kind \notin Answer
        BY SaidIs, SaidIsTold DEF Answer
      <3> QED
        BY <2>2, <3>1 DEF CarryEnd
    <2>3. CASE StopPump(p)
      BY <2>3 DEF StopPump
    <2> QED
      BY <2>1, <2>2, <2>3 DEF Pump
  <1>3. Answered'
    <2>1. CASE down' = down
      BY <1>1, <2>1 DEF Answered, Waiting
    <2>2. ASSUME NEW m \in Told, down' = Append(down, m), m.kind \notin Answer
          PROVE  Answered'
      <3>1. /\ down'[Len(down) + 1] = m
            /\ \A i \in DOMAIN down : down'[i] = down[i]
            /\ \A i \in DOMAIN down' : i \in DOMAIN down \/ i = Len(down) + 1
        BY <2>2, OneMore DEF OrderInv, Typed
      <3> QED
        BY <1>1, <2>2, <3>1 DEF Answered, Waiting
    <2> QED
      BY <1>2, <2>1, <2>2
  <1>4. PasteTypes' /\ Handed' /\ Asked' /\ Untyped'
    BY <1>1 DEF PasteTypes, Handed, Asked, Untyped
  <1>5. Queued' /\ Typing' /\ Given'
    BY <1>1, PassedLeftAlone DEF Queued, Typing, Given
  <1> QED
    BY <1>3, <1>4, <1>5

\* The keeper's end passes on what it has taken, or drops it and takes no more.
LEMMA EndKeepsPaste ==
    ASSUME OrderInv, PasteInv, KeeperFrame, PasteTypes', Given',
           \A p \in Panes : open = p /\ serving'[p] # "gone" =>
               Passed(p)' = Passed(p) /\ serving[p] # "gone"
    PROVE  PasteInv'
  <1> USE DEF PasteInv, KeeperFrame, clientVars, talkVars
  <1>1. UNCHANGED <<client, pane, hand, typed, up, down, talk, open>>
    OBVIOUS
  <1>2. \A p \in Panes : Flows(p)' => Flows(p) /\ Passed(p)' = Passed(p)
    BY <1>1 DEF Flows
  <1>3. Handed' /\ Asked' /\ Answered' /\ Untyped'
    BY <1>1 DEF Handed, Asked, Answered, Waiting, Untyped
  <1>4. Queued' /\ Typing'
    BY <1>1, <1>2 DEF Queued, Typing
  <1> QED
    BY <1>3, <1>4

\* Ends that take nothing go on, or go with what they had not read.
LEMMA IdleEndKeepsPaste ==
    ASSUME OrderInv, PasteInv, KeeperFrame, UNCHANGED got,
           \A p \in Panes : open = p /\ serving'[p] # "gone" => serving[p] # "gone",
           into' \in [Panes -> Seq(Nat)],
           \A p \in Panes : into'[p] = into[p] \/ (into'[p] = <<>> /\ (open = p => serving'[p] = "gone"))
    PROVE  PasteInv'
  <1> USE DEF PasteInv, KeeperFrame, clientVars, talkVars
  <1>1. UNCHANGED <<pane, typed>>
    OBVIOUS
  <1>2. PasteTypes'
    BY <1>1 DEF PasteTypes
  <1>3. ASSUME NEW p \in Panes
        PROVE  Passed(p)' <= typed[p] /\ \A i \in DOMAIN into'[p] : into'[p][i] = Len(got[p]) + i
    <2>1. CASE into'[p] = into[p]
      BY <2>1 DEF Given, Passed
    <2>2. CASE into'[p] = <<>>
      <3>1. Len(got[p]) \in Nat /\ Passed(p) \in Nat /\ typed[p] \in Nat
        BY PassedIs DEF PasteTypes
      <3>2. Passed(p)' = Len(got[p]) + 0 /\ DOMAIN into'[p] = {}
        BY <2>2 DEF Passed
      <3>3. Len(got[p]) <= Passed(p)
        <4>1. Len(into[p]) \in Nat
          BY DEF PasteTypes
        <4>2. \A a, b \in Nat : a <= a + b
          OBVIOUS
        <4> QED
          BY <3>1, <4>1, <4>2 DEF Passed
      <3>4. Passed(p) <= typed[p]
        BY DEF Given
      <3> QED
        BY <3>1, <3>2, <3>3, <3>4
    <2> QED
      BY <2>1, <2>2
  <1>4. Given'
    BY <1>1, <1>3 DEF Given
  <1>5. \A p \in Panes : open = p /\ serving'[p] # "gone" => Passed(p)' = Passed(p)
    BY DEF Passed
  <1> QED
    BY <1>2, <1>4, <1>5, EndKeepsPaste

\* What the session is handed is the first of what was passed on and not yet taken.
LEMMA TakeKeepsPaste == ASSUME OrderInv, PasteInv, NEW p \in Panes, Take(p) PROVE PasteInv'
  <1> USE DEF PasteInv
  <1>1. /\ KeeperFrame /\ UNCHANGED <<pane, typed, serving>>
        /\ serving[p] # "gone" /\ into[p] # <<>>
        /\ got' = [got EXCEPT ![p] = Append(got[p], Head(into[p]))]
        /\ into' = [into EXCEPT ![p] = Tail(into[p])]
    BY DEF Take, KeeperFrame, clientVars
  <1>2. /\ got \in [Panes -> Seq(Nat)] /\ into \in [Panes -> Seq(Nat)]
        /\ got[p] \in Seq(Nat) /\ into[p] \in Seq(Nat)
    BY DEF PasteTypes
  <1>3. /\ Head(into[p]) = into[p][1] /\ 1 \in DOMAIN into[p]
        /\ Tail(into[p]) \in Seq(Nat) /\ Len(Tail(into[p])) = Len(into[p]) - 1 /\ Len(into[p]) \in Nat
        /\ \A i \in DOMAIN Tail(into[p]) :
               i \in Nat \ {0} /\ i + 1 \in DOMAIN into[p] /\ Tail(into[p])[i] = into[p][i + 1]
    BY <1>1, <1>2, RestOf
  <1>4. PICK k \in Nat : k = Head(into[p]) /\ k = Len(got[p]) + 1
    BY <1>2, <1>3 DEF Given
  <1>5. /\ Append(got[p], k) \in Seq(Nat) /\ Len(got[p]) \in Nat
        /\ Len(Append(got[p], k)) = Len(got[p]) + 1
        /\ Append(got[p], k)[Len(got[p]) + 1] = k
        /\ \A i \in DOMAIN got[p] : Append(got[p], k)[i] = got[p][i]
        /\ \A i \in DOMAIN Append(got[p], k) : i \in DOMAIN got[p] \/ i = Len(got[p]) + 1
    BY <1>2, OneMore
  <1>6. /\ got' \in [Panes -> Seq(Nat)] /\ into' \in [Panes -> Seq(Nat)]
        /\ got'[p] = Append(got[p], k) /\ into'[p] = Tail(into[p])
        /\ \A q \in Panes : q # p => got'[q] = got[q] /\ into'[q] = into[q]
    BY <1>1, <1>2, <1>3, <1>4, <1>5
  <1>7. PasteTypes'
    BY <1>1, <1>6 DEF PasteTypes
  <1>8. Passed(p)' = Passed(p)
    <2>1. \A a, b \in Nat : (a + 1) + (b - 1) = a + b
      OBVIOUS
    <2>2. Passed(p)' = (Len(got[p]) + 1) + (Len(into[p]) - 1)
      BY <1>3, <1>5, <1>6 DEF Passed
    <2>3. Passed(p) = Len(got[p]) + Len(into[p])
      BY DEF Passed
    <2> QED
      BY <1>3, <1>5, <2>1, <2>2, <2>3
  <1>9. \A q \in Panes : Passed(q)' = Passed(q)
    <2>1. \A q \in Panes : q # p => Passed(q)' = Passed(q)
      BY <1>6 DEF Passed
    <2> QED
      BY <1>8, <2>1
  <1>10. \A i \in DOMAIN got'[p] : got'[p][i] = i
    BY <1>4, <1>5, <1>6 DEF Given
  <1>11. \A i \in DOMAIN into'[p] : into'[p][i] = Len(got'[p]) + i
    <2> SUFFICES ASSUME NEW i \in DOMAIN into'[p] PROVE into'[p][i] = Len(got'[p]) + i
      OBVIOUS
    <2>1. i \in Nat /\ i + 1 \in DOMAIN into[p] /\ into'[p][i] = into[p][i + 1]
      BY <1>3, <1>6
    <2>2. into[p][i + 1] = Len(got[p]) + (i + 1)
      BY <2>1 DEF Given
    <2>3. Len(got'[p]) = Len(got[p]) + 1
      BY <1>5, <1>6
    <2>4. \A a, b \in Nat : a + (b + 1) = (a + 1) + b
      OBVIOUS
    <2>5. Len(got[p]) + (i + 1) = (Len(got[p]) + 1) + i
      BY <1>5, <2>1, <2>4
    <2> QED
      BY <2>1, <2>2, <2>3, <2>5
  <1>12. Given'
    <2>1. ASSUME NEW q \in Panes
          PROVE  /\ \A i \in DOMAIN got'[q] : got'[q][i] = i
                 /\ \A i \in DOMAIN into'[q] : into'[q][i] = Len(got'[q]) + i
                 /\ Passed(q)' <= typed[q]
      <3>1. CASE q = p
        BY <1>9, <1>10, <1>11, <3>1 DEF Given
      <3>2. CASE q # p
        BY <1>6, <1>9, <3>2 DEF Given
      <3> QED
        BY <3>1, <3>2
    <2> QED
      BY <1>1, <2>1 DEF Given
  <1> QED
    BY <1>1, <1>7, <1>9, <1>12, EndKeepsPaste

\* Painting, and the end of a connection.
LEMMA ServeKeepsPaste ==
    ASSUME OrderInv, PasteInv, Served, NEW p \in Panes, Serve(p) \/ PaintFails(p)
    PROVE  PasteInv'
  <1>1. into \in [Panes -> Seq(Nat)] /\ serving \in [Panes -> {"none", "painting", "exiting", "gone"}]
    BY DEF PasteInv, PasteTypes, Served
  <1>2. CASE Paint(p) \/ SayExit(p)
    <2>1. KeeperFrame /\ UNCHANGED <<got, into>> /\ serving[p] = "painting"
      BY <1>2 DEF Paint, SayExit
    <2>2. serving' = serving \/ serving' = [serving EXCEPT ![p] = "exiting"]
      BY <1>2 DEF Paint, SayExit
    <2>3. \A q \in Panes : serving'[q] # "gone" => serving[q] # "gone"
      BY <1>1, <2>1, <2>2
    <2> QED
      BY <1>1, <2>1, <2>3, IdleEndKeepsPaste
  <1>3. CASE SayEnd(p) \/ PaintFails(p)
    <2>1. /\ KeeperFrame /\ UNCHANGED got
          /\ serving' = [serving EXCEPT ![p] = "gone"]
          /\ into' = [into EXCEPT ![p] = <<>>]
      BY <1>3 DEF SayEnd, PaintFails, Leave
    <2>2. \A q \in Panes : serving'[q] # "gone" => serving[q] # "gone"
      BY <1>1, <2>1
    <2>3. into' \in [Panes -> Seq(Nat)]
      BY <1>1, <2>1
    <2>4. \A q \in Panes : into'[q] = into[q] \/ (into'[q] = <<>> /\ serving'[q] = "gone")
      BY <1>1, <2>1
    <2> QED
      BY <2>1, <2>2, <2>3, <2>4, IdleEndKeepsPaste
  <1> QED
    BY <1>2, <1>3 DEF Serve

\* The session goes on, ends, or is lost with what its keeper had not read.
LEMMA SessionKeepsPaste ==
    ASSUME OrderInv, PasteInv, Served, Prints \/ SessionEnds \/ KeeperDies \/ UNCHANGED vars
    PROVE  PasteInv'
  <1>1. into \in [Panes -> Seq(Nat)]
    BY DEF PasteInv, PasteTypes
  <1>2. CASE Prints \/ SessionEnds \/ UNCHANGED vars
    <2>1. KeeperFrame /\ UNCHANGED <<got, into, serving>>
      BY <1>2 DEF Prints, SessionEnds, vars, KeeperFrame, keeperVars
    <2> QED
      BY <1>1, <2>1, IdleEndKeepsPaste
  <1>3. CASE KeeperDies
    <2>1. KeeperFrame /\ UNCHANGED got /\ into' = [p \in Panes |-> <<>>]
      BY <1>3 DEF KeeperDies
    <2>2. \A p \in Panes :
              serving'[p] = "gone" \/ (serving'[p] = "none" /\ serving[p] = "none")
      BY <1>3 DEF KeeperDies
    <2>3. \A p \in Panes : open = p => serving'[p] = "gone"
      BY <2>2 DEF Served
    <2>4. into' \in [Panes -> Seq(Nat)] /\ \A p \in Panes : into'[p] = <<>>
      BY <2>1
    <2> QED
      BY <2>1, <2>3, <2>4, IdleEndKeepsPaste
  <1> QED
    BY <1>2, <1>3

\* No step opens a pane that has no connection, or forgets one.
LEMMA ServedStep == ASSUME OrderInv, Served, [Next]_vars PROVE Served'
  <1> DEFINE States == {"none", "painting", "exiting", "gone"}
  <1>1. serving \in [Panes -> States]
    BY DEF Served
  <1>2. CASE UNCHANGED serving /\ open' \in {0, open} /\ (talk' = talk \/ talk'.kind # "opened")
    <2>1. \A p \in Panes : p # 0 /\ Said("opened", p).kind = "opened"
      BY SaidIs DEF Panes
    <2> QED
      BY <1>2, <2>1 DEF Served
  <1>3. CASE SayOpened
    <2>1. UNCHANGED serving /\ open' = talk.pane /\ talk' = Reading /\ talk.kind = "opened"
      BY <1>3 DEF SayOpened, keeperVars
    <2>2. talk \in Told
      BY <2>1, SaidIs DEF OrderInv, Typed, Reading
    <2>3. talk = Said("opened", talk.pane)
      BY <2>1, <2>2 DEF Told, Said
    <2>4. \A p \in Panes : talk' # Said("opened", p)
      BY <2>1, SaidIs DEF Reading
    <2> QED
      BY <2>1, <2>3, <2>4 DEF Served
  <1>4. CASE HearOpen
    <2>1. /\ UNCHANGED open
          /\ \/ /\ open = 0 /\ serving' = [serving EXCEPT ![Head(up).pane] = "painting"]
                /\ talk' = Said("opened", Head(up).pane)
             \/ UNCHANGED serving /\ talk' = Said("error", Head(up).pane)
      BY <1>4 DEF HearOpen, Connect
    <2>2. CASE UNCHANGED serving /\ talk' = Said("error", Head(up).pane)
      <3>1. talk'.kind # "opened"
        BY <2>2, SaidIs
      <3> QED
        BY <1>2, <2>1, <2>2, <3>1
    <2>3. CASE /\ open = 0 /\ serving' = [serving EXCEPT ![Head(up).pane] = "painting"]
               /\ talk' = Said("opened", Head(up).pane)
      <3>1. \A p \in Panes : p # 0
        BY DEF Panes
      <3>2. \A p \in Panes : talk' = Said("opened", p) => p = Head(up).pane
        BY <2>3, SaidIs
      <3>3. \A p \in Panes : p = Head(up).pane => serving'[p] = "painting"
        BY <1>1, <2>3
      <3> QED
        BY <1>1, <2>1, <2>3, <3>1, <3>2, <3>3 DEF Served
    <2> QED
      BY <2>1, <2>2, <2>3
  <1>5. CASE UNCHANGED talkVars /\ \E p \in Panes, s \in {"exiting", "gone"} :
                 serving' = [serving EXCEPT ![p] = s]
    BY <1>1, <1>5 DEF Served, talkVars
  <1>6. CASE KeeperDies
    BY <1>1, <1>6 DEF Served, KeeperDies, KeeperFrame, talkVars
  <1>7. CASE Client \/ Break \/ (\E p \in Panes : Pump(p) \/ Take(p) \/ Paint(p))
              \/ Prints \/ SessionEnds \/ UNCHANGED vars
    <2>1. UNCHANGED <<serving, open, talk>>
      BY <1>7 DEF Client, AskOpen, Type, Detach, LetGo, Put, Read, Close, Stop, Break, ClientFrame,
         Pump, Carry, CarryEnd, StopPump, Take, Paint, Prints, SessionEnds, KeeperFrame,
         talkVars, keeperVars, vars
    <2> QED
      BY <1>2, <2>1
  <1>8. CASE HearClose \/ HearRelease \/ Feed \/ SayRest \/ EndTalk
    <2>1. /\ UNCHANGED serving /\ open' \in {0, open}
          /\ talk' \in {talk, Reading, Said("over", 0)} \/ talk' = Said("closed", Head(up).pane)
      BY <1>8 DEF HearClose, HearRelease, Feed, SayRest, EndTalk, keeperVars, talkVars
    <2>2. talk' = talk \/ talk'.kind # "opened"
      BY <2>1, SaidIs DEF Reading
    <2> QED
      BY <1>2, <2>1, <2>2
  <1>9. CASE \E p \in Panes : SayExit(p) \/ SayEnd(p) \/ PaintFails(p)
    <2>1. UNCHANGED talkVars /\ \E p \in Panes, s \in {"exiting", "gone"} :
              serving' = [serving EXCEPT ![p] = s]
      BY <1>9 DEF SayExit, SayEnd, PaintFails, Leave, KeeperFrame
    <2> QED
      BY <1>5, <2>1
  <1> QED
    BY <1>3, <1>4, <1>6, <1>7, <1>8, <1>9 DEF Next, Talk, Serve

\* Every step keeps what is typed whole.
LEMMA PasteStep == OrderInv /\ PasteInv /\ Served /\ [Next]_vars => PasteInv'
  <1> SUFFICES ASSUME OrderInv, PasteInv, Served, [Next]_vars PROVE PasteInv'
    OBVIOUS
  <1>1. CASE Client
    BY <1>1, AskOpenKeepsPaste, TypeKeepsPaste, LeaveKeepsPaste, PutKeepsPaste, ReadKeepsPaste
       DEF Client
  <1>2. CASE Break
    BY <1>2, BreakKeepsPaste
  <1>3. CASE Talk
    BY <1>3, HearOpenKeepsPaste, HearLetGoKeepsPaste, FeedKeepsPaste, SayKeepsPaste,
       EndTalkKeepsPaste DEF Talk
  <1>4. CASE \E p \in Panes : Pump(p)
    BY <1>4, PumpKeepsPaste
  <1>5. CASE \E p \in Panes : Serve(p) \/ Take(p) \/ PaintFails(p)
    BY <1>5, ServeKeepsPaste, TakeKeepsPaste
  <1>6. CASE Prints \/ SessionEnds \/ KeeperDies \/ UNCHANGED vars
    BY <1>6, SessionKeepsPaste
  <1> QED
    BY <1>1, <1>2, <1>3, <1>4, <1>5, <1>6 DEF Next

\* A paste arrives whole or its tail is missing, however the queues on the way fill:
\* every hop of serve.rs and keeper.rs waits for room, and what stops taking
\* keystrokes of a pane takes no more of them.
THEOREM PastesAreWhole == Spec => []PasteIsWhole
  <1>1. Init => OrderInv /\ PasteInv /\ Served
    <2>1. Init => Served
      BY SaidIs DEF Init, Served, Reading, Panes
    <2> QED
      BY <2>1, OrderInit, PasteInit
  <1>2. OrderInv /\ PasteInv /\ Served /\ [Next]_vars => (OrderInv /\ PasteInv /\ Served)'
    BY OrderStep, PasteStep, ServedStep
  <1>3. PasteInv => PasteIsWhole
    BY PasteGivesPasteIsWhole
  <1> QED
    BY <1>1, <1>2, <1>3, PTL DEF Spec

-----------------------------------------------------------------------------
(* Who waits for whom, and who is left at a pane that is over: what has to  *)
(* hold for anybody to get on.                                             *)

\* A client that is sending, and finds no room, does not face a conversation that
\* has something to say and waits for room in its turn.
NoCircularWait == hand # <<>> /\ Len(up) >= Wire => talk.kind \notin {"opened", "closed", "error"}

\* The client is at the pane, or is being told that it is open.
Live ==
    \/ client = "attached"
    \/ client = "asking" /\ \E i \in DOMAIN down : down[i].kind = "opened"

EndComes == \E i \in DOMAIN down : down[i] \in {Said("exit", pane), Said("end", pane)}

\* Whoever is at a pane will hear that it is over: it is on its way, or the pump
\* that has to say it runs and, when the keeper is lost, finds it gone.
NobodyLeftAtNothing ==
    client = "attached" =>
        \/ EndComes
        \/ pump[pane] = "running" /\ (session = "lost" => serving[pane] = "gone")

LettingGo == {"close", "release"}
Left == {"detached", "asking", "gone"}

\* Behind a request to let go of a pane comes nothing but one to open the next.
LastAsked ==
    /\ hand # <<>> /\ hand[1].kind \in LettingGo => client = "detached"
    /\ \A i \in DOMAIN up : up[i].kind \in LettingGo =>
           /\ client \in Left
           /\ \A j \in DOMAIN up : i < j => up[j].kind = "open"
           /\ hand # <<>> => hand[1].kind = "open"
    /\ talk.kind = "closed" =>
           /\ client \in Left
           /\ \A i \in DOMAIN up : up[i].kind = "open"
           /\ hand # <<>> => hand[1].kind = "open"

\* A live pane is the open one, and its pump runs until it said that it is over.
TalkedTo ==
    Live =>
        /\ talk = Reading /\ open = pane
        /\ pump[pane] = "running" \/ EndComes

\* A pane that is asked for is new to the client, and the only one it may be told
\* is open.
Unseen ==
    /\ client = "asking" => pane \notin seen
    /\ \A q \in seen : q \in 1 .. pane
    /\ \A i \in DOMAIN down : down[i].kind = "opened" => down[i].pane = pane

\* A keeper that is lost serves nobody.
Deserted == session = "lost" => \A p \in Panes : serving[p] \in {"none", "gone"}

WaitInv == LastAsked /\ TalkedTo /\ Unseen /\ Deserted

\* Who sends without room is alone with it: the conversation that answers a request
\* to open has a client that only listens, and the one that says a pane is closed
\* has nothing left to read but a request that is on the wire already.
LEMMA NothingWaitsInACircle == OrderInv /\ PasteInv /\ WaitInv => NoCircularWait
  <1> SUFFICES ASSUME OrderInv, PasteInv, WaitInv, hand # <<>>, Len(up) >= Wire,
                      talk.kind \in {"opened", "closed", "error"}
               PROVE  FALSE
    BY DEF NoCircularWait
  <1>1. up \in Seq(Sent) /\ Wire \in Nat \ {0}
    BY RoomEverywhere DEF OrderInv, Typed
  <1>2. 1 \in DOMAIN up
    BY <1>1
  <1>3. talk.kind = "closed"
    BY DEF PasteInv, Answered, Answer, Waiting
  <1>4. up[1].kind = "open"
    BY <1>2, <1>3 DEF WaitInv, LastAsked
  <1> QED
    BY <1>2, <1>4 DEF PasteInv, Asked

\* Who is attached is at a live pane, which is the open one and therefore served,
\* or was.
LEMMA EndIsNear == OrderInv /\ Served /\ WaitInv => NobodyLeftAtNothing
  <1> SUFFICES ASSUME OrderInv, Served, WaitInv, client = "attached"
               PROVE  \/ EndComes
                      \/ pump[pane] = "running" /\ (session = "lost" => serving[pane] = "gone")
    BY DEF NobodyLeftAtNothing
  <1>1. pane \in Panes
    BY DEF OrderInv, Typed
  <1>2. open = pane /\ (pump[pane] = "running" \/ EndComes)
    BY DEF WaitInv, TalkedTo, Live
  <1>3. serving[pane] # "none"
    BY <1>1, <1>2 DEF Served
  <1> QED
    BY <1>1, <1>2, <1>3 DEF WaitInv, Deserted

\* Nobody was asked, and nobody is lost.
LEMMA WaitInit == Init => WaitInv
  <1> SUFFICES ASSUME Init PROVE WaitInv
    OBVIOUS
  <1>1. talk.kind = "reading"
    BY SaidIs DEF Init, Reading
  <1> QED
    BY <1>1 DEF Init, WaitInv, LastAsked, LettingGo, TalkedTo, Live, Unseen, Deserted

-----------------------------------------------------------------------------
(* The client. *)

\* A live pane has nothing on the wire but keystrokes, and nobody else at it.
LEMMA LivePane ==
    ASSUME OrderInv, PasteInv, WaitInv, Live
    PROVE  /\ pane \in Panes /\ talk = Reading /\ talk.kind = "reading" /\ open = pane
           /\ client # "gone"
           /\ \A i \in DOMAIN up : up[i].kind = "key"
  <1>1. pane \in Panes /\ client # "gone"
    BY DEF OrderInv, Typed, Live
  <1>2. talk = Reading /\ talk.kind = "reading" /\ open = pane
    BY SaidIs DEF WaitInv, TalkedTo, Reading
  <1>3. \A i \in DOMAIN up : up[i].kind = "key"
    <2>1. CASE client = "attached"
      BY <1>1, <2>1 DEF PasteInv, Typing
    <2>2. CASE \E i \in DOMAIN down : down[i].kind = "opened"
      BY <2>2 DEF PasteInv, Answered, Answer, Waiting
    <2> QED
      BY <2>1, <2>2 DEF Live
  <1> QED
    BY <1>1, <1>2, <1>3

\* A request to open comes when there is no answer left to read.
LEMMA AskOpenKeepsWait == ASSUME OrderInv, PasteInv, WaitInv, AskOpen PROVE WaitInv'
  <1> USE DEF WaitInv, ClientFrame, talkVars, keeperVars
  <1>1. /\ UNCHANGED <<seen, up, down, talk, open, pump, serving, session>>
        /\ client \in {"greeted", "detached"} /\ hand = <<>> /\ pane \in Nat
        /\ pane' = pane + 1 /\ client' = "asking"
        /\ hand' = <<Said("open", pane + 1)>>
    BY DEF AskOpen, OrderInv, Typed
  <1>2. hand' # <<>> /\ hand'[1].kind = "open"
    BY <1>1, SaidIs
  <1>3. \A i \in DOMAIN down : down[i].kind # "opened"
    BY <1>1 DEF PasteInv, Answered, Answer, Waiting
  <1>4. LastAsked'
    BY <1>1, <1>2 DEF LastAsked, LettingGo, Left
  <1>5. TalkedTo' /\ Deserted'
    BY <1>1, <1>3 DEF TalkedTo, Live, Deserted
  <1>6. Unseen'
    <2>1. pane + 1 \notin 1 .. pane /\ 1 .. pane \subseteq 1 .. pane + 1
      BY <1>1
    <2>2. \A q \in seen : q \in 1 .. pane
      BY DEF Unseen
    <2> QED
      BY <1>1, <1>3, <2>1, <2>2 DEF Unseen
  <1> QED
    BY <1>4, <1>5, <1>6

\* Typing, stopping, leaving and letting go: only the last asks for anything.
LEMMA LeaveKeepsWait ==
    ASSUME OrderInv, PasteInv, WaitInv, Type \/ Detach \/ LetGo \/ Close \/ Stop PROVE WaitInv'
  <1> USE DEF WaitInv, ClientFrame, talkVars, keeperVars
  <1>1. /\ UNCHANGED <<pane, seen, up, down, talk, open, pump, serving, session>>
        /\ client \notin {"greeted", "asking", "gone"} /\ hand = <<>>
        /\ \/ client = "attached" /\ client' = client /\ hand' # <<>> /\ hand'[1].kind = "key"
           \/ client' = client /\ hand' = <<>>
           \/ client = "attached" /\ client' = "leaving" /\ hand' = <<>>
           \/ client = "detached" /\ client' = "gone" /\ hand' = <<>>
           \/ /\ client = "leaving" /\ client' = "detached" /\ hand' # <<>>
              /\ hand'[1].kind \in LettingGo
    <2>1. CASE Type
      BY <2>1 DEF Type, Key
    <2>2. CASE Detach \/ Close \/ Stop
      BY <2>2 DEF Detach, Close, Stop
    <2>3. CASE LetGo
      <3>1. PICK how \in {"close", "release"} : hand' = <<Said(how, pane)>>
        BY <2>3 DEF LetGo
      <3> QED
        BY <2>3, <3>1, SaidIs DEF LetGo, LettingGo
    <2> QED
      BY <2>1, <2>2, <2>3
  <1>2. client \in {"attached", "leaving"} =>
            /\ \A i \in DOMAIN up : up[i].kind \notin LettingGo
            /\ talk.kind # "closed"
    BY DEF LastAsked, Left
  <1>3. LastAsked'
    BY <1>1, <1>2 DEF LastAsked, LettingGo, Left
  <1>4. TalkedTo' /\ Unseen' /\ Deserted'
    BY <1>1 DEF TalkedTo, Live, EndComes, Unseen, Deserted
  <1> QED
    BY <1>3, <1>4

\* What is put on the wire comes behind what is there.
LEMMA PutKeepsWait == ASSUME OrderInv, PasteInv, WaitInv, Put PROVE WaitInv'
  <1> USE DEF WaitInv, ClientFrame, talkVars, keeperVars
  <1>1. /\ UNCHANGED <<client, pane, seen, down, talk, open, pump, serving, session>>
        /\ hand' = <<>> /\ hand # <<>> /\ up' = up \o hand
    BY DEF Put
  <1>2. /\ up'[Len(up) + 1] = hand[1] /\ Len(up) \in Nat
        /\ \A i \in DOMAIN up : up'[i] = up[i] /\ i \in Nat /\ i <= Len(up)
        /\ \A i \in DOMAIN up' : i \in DOMAIN up \/ i = Len(up) + 1
    <2>1. hand = <<hand[1]>> /\ hand[1] \in Sent /\ up \in Seq(Sent)
      BY <1>1, OnlyOne DEF OrderInv, Typed
    <2>2. up \o <<hand[1]>> = Append(up, hand[1])
      BY <2>1
    <2>3. up' = Append(up, hand[1])
      BY <1>1, <2>1, <2>2
    <2> QED
      BY <2>1, <2>3, OneMore
  <1>3. LastAsked'
    <2>1. ASSUME NEW i \in DOMAIN up', up'[i].kind \in LettingGo
          PROVE  /\ client \in Left
                 /\ \A j \in DOMAIN up' : i < j => up'[j].kind = "open"
      <3>1. CASE i \in DOMAIN up
        <4>1. up[i].kind \in LettingGo
          BY <1>2, <2>1, <3>1
        <4>2. /\ client \in Left /\ hand[1].kind = "open"
              /\ \A j \in DOMAIN up : i < j => up[j].kind = "open"
          BY <1>1, <3>1, <4>1 DEF LastAsked
        <4> QED
          BY <1>2, <4>2
      <3>2. CASE i = Len(up) + 1
        <4>1. hand[1].kind \in LettingGo
          BY <1>2, <2>1, <3>2
        <4>2. client = "detached"
          BY <1>1, <4>1 DEF LastAsked
        <4>3. \A j \in DOMAIN up' : ~(i < j)
          BY <1>2, <3>2
        <4> QED
          BY <4>2, <4>3 DEF Left
      <3> QED
        BY <1>2, <3>1, <3>2
    <2>2. talk.kind = "closed" => client \in Left /\ \A i \in DOMAIN up' : up'[i].kind = "open"
      BY <1>1, <1>2 DEF LastAsked
    <2> QED
      BY <1>1, <2>1, <2>2 DEF LastAsked
  <1>4. TalkedTo' /\ Unseen' /\ Deserted'
    BY <1>1 DEF TalkedTo, Live, EndComes, Unseen, Deserted
  <1> QED
    BY <1>3, <1>4

\* What is read comes off the front; a pane is over for a client that hears so.
LEMMA ReadKeepsWait == ASSUME OrderInv, PasteInv, WaitInv, Read PROVE WaitInv'
  <1> USE DEF WaitInv, talkVars, keeperVars
  <1>1. /\ UNCHANGED <<pane, hand, up, talk, open, pump, serving, session>>
        /\ client \in {"asking", "attached", "detached"} /\ down # <<>> /\ down' = Tail(down)
        /\ client' = Hear(Head(down))
        /\ seen' = IF Head(down).kind = "opened" THEN seen \cup {Head(down).pane} ELSE seen
    BY DEF Read
  <1>2. /\ Head(down) = down[1] /\ 1 \in DOMAIN down
        /\ \A i \in DOMAIN down' : i + 1 \in DOMAIN down /\ down'[i] = down[i + 1]
        /\ \A k \in DOMAIN down : k # 1 => k - 1 \in DOMAIN down' /\ down'[k - 1] = down[k]
    <2>1. down \in Seq(Told)
      BY DEF OrderInv, Typed
    <2> QED
      BY <1>1, <2>1, RestOf
  <1>3. /\ client' = "attached" =>
               \/ client = "asking" /\ down[1].kind = "opened"
               \/ client = "attached" /\ down[1].kind \notin {"exit", "end"}
        /\ client' = "asking" => client = "asking" /\ down[1].kind # "opened"
        /\ client \in Left => client' \in Left \cup {"attached"}
    BY <1>1, <1>2 DEF Hear, Left
  <1>4. Live' => Live
    BY <1>1, <1>2, <1>3 DEF Live
  <1>5. LastAsked'
    <2>1. CASE client' = "attached"
      <3>1. Live
        BY <1>4, <2>1 DEF Live
      <3>2. talk.kind = "reading" /\ \A i \in DOMAIN up : up[i].kind = "key"
        BY <3>1, LivePane
      <3>3. client # "detached"
        BY <1>3, <2>1
      <3> QED
        BY <1>1, <3>2, <3>3 DEF LastAsked, LettingGo
    <2>2. CASE client' # "attached"
      <3>1. client \in Left => client' \in Left
        BY <1>3, <2>2
      <3>2. client = "detached" => client' = "detached"
        BY <1>1 DEF Hear
      <3> QED
        BY <1>1, <3>1, <3>2 DEF LastAsked
    <2> QED
      BY <2>1, <2>2
  <1>6. TalkedTo'
    <2> SUFFICES ASSUME Live'
                 PROVE  talk' = Reading /\ open' = pane' /\ (pump'[pane'] = "running" \/ EndComes')
      BY DEF TalkedTo
    <2>1. talk = Reading /\ open = pane /\ (pump[pane] = "running" \/ EndComes)
      BY <1>4 DEF TalkedTo
    <2>2. ASSUME NEW i \in DOMAIN down, down[i] \in {Said("exit", pane), Said("end", pane)}
          PROVE  EndComes'
      <3>1. down[i].kind \in {"exit", "end"} /\ down[i].pane = pane
        BY <2>2, SaidIs
      <3>2. i # 1
        <4>1. CASE client' = "attached"
          BY <1>3, <3>1, <4>1
        <4>2. CASE client' = "asking"
          <5>1. pane \notin seen
            BY <1>3, <4>2 DEF Unseen
          <5>2. \A j : j \notin 1 .. 1 - 1
            OBVIOUS
          <5>3. 1 \in DOMAIN down /\ i = 1 => pane \in seen
            BY <3>1, <5>2 DEF OrderInv, ToldFirst
          <5> QED
            BY <1>2, <5>1, <5>3
        <4> QED
          BY <4>1, <4>2 DEF Live
      <3>3. i - 1 \in DOMAIN down' /\ down'[i - 1] = down[i]
        BY <1>2, <3>2
      <3> QED
        BY <1>1, <2>2, <3>3 DEF EndComes
    <2> QED
      BY <1>1, <2>1, <2>2 DEF EndComes
  <1>7. Unseen'
    <2>1. pane \in 1 .. pane
      BY <1>1 DEF OrderInv, Typed, Panes
    <2> QED
      BY <1>1, <1>2, <1>3, <2>1 DEF Unseen
  <1>8. Deserted'
    BY <1>1 DEF Deserted
  <1> QED
    BY <1>5, <1>6, <1>7, <1>8

\* Nobody waits on a connection that broke.
LEMMA BreakKeepsWait == ASSUME OrderInv, PasteInv, WaitInv, Break PROVE WaitInv'
  <1> USE DEF WaitInv, talkVars, keeperVars
  <1>1. /\ UNCHANGED <<pane, seen, talk, open, pump, serving, session>>
        /\ client' = "gone" /\ hand' = <<>> /\ up' = <<>> /\ down' = <<>>
    BY DEF Break
  <1> QED
    BY <1>1 DEF LastAsked, TalkedTo, Live, Unseen, Deserted, Left

-----------------------------------------------------------------------------
(* The conversation. *)

\* A request that is read leaves the rest behind it as it was.
LEMMA ReceivedLeaves ==
    ASSUME OrderInv, NEW kind, Receive(kind)
    PROVE  /\ Head(up) = up[1] /\ 1 \in DOMAIN up /\ up[1].kind = kind
           /\ \A i \in DOMAIN up' : i \in Nat \ {0} /\ i + 1 \in DOMAIN up /\ up'[i] = up[i + 1]
           /\ talk = Reading /\ talk.kind = "reading"
  BY RestOf, SaidIs DEF Receive, OrderInv, Typed, Reading

\* Reading a request that is answered with no "closed": what is behind it stays last.
LEMMA ReceivedKeepsLast ==
    ASSUME OrderInv, WaitInv, NEW kind, Receive(kind), UNCHANGED <<client, hand>>,
           talk'.kind # "closed"
    PROVE  LastAsked'
  <1>1. \A i \in DOMAIN up' : i \in Nat \ {0} /\ i + 1 \in DOMAIN up /\ up'[i] = up[i + 1]
    BY ReceivedLeaves
  <1>2. \A i, j \in DOMAIN up' : i < j => i + 1 < j + 1
    BY <1>1
  <1> QED
    BY <1>1, <1>2 DEF WaitInv, LastAsked

\* Nobody is at a live pane while another is asked for.
LEMMA HearOpenKeepsWait == ASSUME OrderInv, PasteInv, WaitInv, HearOpen PROVE WaitInv'
  <1> USE DEF WaitInv
  <1>1. /\ UNCHANGED <<client, pane, hand, seen, down, open, pump, session>>
        /\ Receive("open")
        /\ talk'.kind \in {"opened", "error"}
        /\ session # "lost" \/ UNCHANGED serving
    BY SaidIs DEF HearOpen, clientVars
  <1>2. LastAsked'
    BY <1>1, ReceivedKeepsLast
  <1>3. ~Live
    BY <1>1, ReceivedLeaves, LivePane
  <1> QED
    BY <1>1, <1>2, <1>3 DEF TalkedTo, Live, Unseen, Deserted

\* A request to let go: nothing behind it but a request to open.
LEMMA HearLetGoKeepsWait ==
    ASSUME OrderInv, PasteInv, WaitInv, HearClose \/ HearRelease PROVE WaitInv'
  <1> USE DEF WaitInv
  <1>1. /\ UNCHANGED <<client, pane, hand, seen, down, serving, session>>
        /\ Receive("close") \/ Receive("release")
    BY DEF HearClose, HearRelease, clientVars, keeperVars
  <1>2. up[1].kind \in LettingGo /\ 1 \in DOMAIN up /\ talk.kind = "reading"
    BY <1>1, ReceivedLeaves DEF LettingGo
  <1>3. LastAsked'
    <2>1. CASE HearRelease
      <3>1. Receive("release") /\ UNCHANGED talk
        BY <2>1 DEF HearRelease
      <3>2. WaitInv /\ UNCHANGED <<client, hand>> /\ talk'.kind # "closed"
        BY <1>1, <1>2, <3>1
      <3> HIDE DEF WaitInv
      <3> QED
        BY <3>1, <3>2, ReceivedKeepsLast
    <2>2. CASE HearClose
      <3>1. \A i \in DOMAIN up' : i + 1 \in DOMAIN up /\ 1 < i + 1 /\ up'[i] = up[i + 1]
        BY <2>2, ReceivedLeaves DEF HearClose
      <3>2. /\ client \in Left
            /\ hand # <<>> => hand[1].kind = "open"
            /\ \A j \in DOMAIN up : 1 < j => up[j].kind = "open"
        BY <1>2 DEF LastAsked
      <3>3. \A i \in DOMAIN up' : up'[i].kind = "open"
        BY <3>1, <3>2
      <3> QED
        BY <1>1, <3>2, <3>3 DEF LastAsked, LettingGo
    <2> QED
      BY <2>1, <2>2
  <1>4. ~Live
    BY <1>2, LivePane DEF LettingGo
  <1> QED
    BY <1>1, <1>3, <1>4 DEF TalkedTo, Live, Unseen, Deserted

\* Passing on a keystroke: the pane is live for as long.
LEMMA FeedKeepsWait == ASSUME OrderInv, PasteInv, WaitInv, Feed PROVE WaitInv'
  <1> USE DEF WaitInv
  <1>1. /\ UNCHANGED <<client, pane, hand, seen, down, talk, open, pump, serving, session>>
        /\ Receive("key")
    BY DEF Feed, clientVars, talkVars, keeperVars
  <1>2. LastAsked'
    BY <1>1, ReceivedLeaves, ReceivedKeepsLast
  <1> QED
    BY <1>1, <1>2 DEF TalkedTo, Live, EndComes, Unseen, Deserted

\* A pane that is said to be open has a pump from then on.
LEMMA SayOpenedKeepsWait == ASSUME OrderInv, PasteInv, WaitInv, SayOpened PROVE WaitInv'
  <1> USE DEF WaitInv
  <1>1. /\ UNCHANGED <<client, pane, hand, seen, up, serving, session>>
        /\ talk.kind = "opened" /\ down' = Append(down, talk)
        /\ pump' = [pump EXCEPT ![talk.pane] = "running"]
        /\ open' = talk.pane /\ talk' = Reading
    BY DEF SayOpened, clientVars, keeperVars
  <1>2. talk \in Told /\ talk.pane = pane /\ pane \in Panes
    BY <1>1, SaidIs, ToldIs DEF OrderInv, Typed, Reading, PasteInv, Answered, Answer
  <1>3. pump'[pane'] = "running" /\ talk'.kind = "reading"
    BY <1>1, <1>2, SaidIs DEF OrderInv, Typed, Reading
  <1>4. \A i \in DOMAIN down' : (i \in DOMAIN down /\ down'[i] = down[i]) \/ down'[i] = talk
    BY <1>1, <1>2, OneMore DEF OrderInv, Typed
  <1>5. LastAsked' /\ TalkedTo' /\ Deserted'
    BY <1>1, <1>2, <1>3 DEF LastAsked, TalkedTo, Deserted
  <1>6. Unseen'
    BY <1>1, <1>2, <1>4 DEF Unseen
  <1> QED
    BY <1>5, <1>6

\* Nobody is at a live pane that is being closed, or was not opened.
LEMMA SayRestKeepsWait == ASSUME OrderInv, PasteInv, WaitInv, SayRest PROVE WaitInv'
  <1> USE DEF WaitInv
  <1>1. /\ UNCHANGED <<client, pane, hand, seen, up, open, pump, serving, session>>
        /\ talk.kind \in {"closed", "error"} /\ down' = Append(down, talk)
        /\ talk' = Reading
    BY DEF SayRest, clientVars, keeperVars
  <1>2. talk \in Told /\ talk'.kind = "reading"
    BY <1>1, SaidIs DEF OrderInv, Typed, Reading
  <1>3. \A i \in DOMAIN down' : (i \in DOMAIN down /\ down'[i] = down[i]) \/ down'[i] = talk
    BY <1>1, <1>2, OneMore DEF OrderInv, Typed
  <1>4. ~Live
    BY <1>1, LivePane
  <1>5. ~Live'
    BY <1>1, <1>3, <1>4 DEF Live
  <1> QED
    BY <1>1, <1>2, <1>3, <1>5 DEF LastAsked, TalkedTo, Unseen, Deserted

\* The conversation ends when its client has gone.
LEMMA EndTalkKeepsWait == ASSUME OrderInv, PasteInv, WaitInv, EndTalk PROVE WaitInv'
  <1> USE DEF WaitInv
  <1>1. /\ UNCHANGED <<client, pane, hand, seen, down, serving, session>>
        /\ client = "gone" /\ talk' = Said("over", 0) /\ up' = <<>>
    BY DEF EndTalk, Unheard, clientVars, keeperVars
  <1>2. talk'.kind = "over"
    BY <1>1, SaidIs
  <1> QED
    BY <1>1, <1>2 DEF LastAsked, TalkedTo, Live, Unseen, Deserted

-----------------------------------------------------------------------------
(* The pumps, and the keeper's end of a pane. *)

\* What a pump says of its pane; it stops with the word that the pane is over.
LEMMA PumpSaysKeepsWait ==
    ASSUME OrderInv, WaitInv, NEW p \in Panes, NEW m \in Painted(p),
           UNCHANGED <<client, pane, hand, seen, up, talk, open, serving, session>>,
           down' = Append(down, m),
           pump' = pump \/ (pump' = [pump EXCEPT ![p] = "done"] /\ m.kind = "end")
    PROVE  WaitInv'
  <1> USE DEF WaitInv
  <1>1. m \in Told /\ m.kind \in {"data", "exit", "end"} /\ m = Said(m.kind, p)
    BY DEF Painted, Told, Said
  <1>2. /\ \A i \in DOMAIN down : i \in DOMAIN down' /\ down'[i] = down[i]
        /\ \A i \in DOMAIN down' : (i \in DOMAIN down /\ down'[i] = down[i]) \/ down'[i] = m
        /\ Len(down) + 1 \in DOMAIN down' /\ down'[Len(down) + 1] = m
    BY <1>1, OneMore DEF OrderInv, Typed
  <1>3. TalkedTo'
    <2> SUFFICES ASSUME Live'
                 PROVE  talk' = Reading /\ open' = pane' /\ (pump'[pane'] = "running" \/ EndComes')
      BY DEF TalkedTo
    <2>1. Live
      BY <1>1, <1>2 DEF Live
    <2>2. talk = Reading /\ open = pane /\ (pump[pane] = "running" \/ EndComes)
      BY <2>1 DEF TalkedTo
    <2>3. EndComes => EndComes'
      BY <1>2 DEF EndComes
    <2>4. pump[pane] = "running" => pump'[pane] = "running" \/ EndComes'
      <3>1. CASE pump' = pump
        BY <3>1
      <3>2. CASE pump' = [pump EXCEPT ![p] = "done"] /\ m.kind = "end" /\ p = pane
        BY <1>1, <1>2, <3>2 DEF EndComes
      <3>3. CASE pump' = [pump EXCEPT ![p] = "done"] /\ p # pane
        BY <3>3 DEF OrderInv, Typed
      <3> QED
        BY <3>1, <3>2, <3>3
    <2> QED
      BY <2>2, <2>3, <2>4
  <1>4. LastAsked' /\ Unseen' /\ Deserted'
    BY <1>1, <1>2 DEF LastAsked, Unseen, Deserted
  <1> QED
    BY <1>3, <1>4

\* A pump says what the keeper's end says, or that it has gone, or was told to stop.
LEMMA PumpKeepsWait ==
    ASSUME OrderInv, PasteInv, WaitInv, NEW p \in Panes, Pump(p) PROVE WaitInv'
  <1> USE DEF OrderInv, WaitInv
  <1>1. CASE Carry(p)
    <2>1. /\ UNCHANGED <<client, pane, hand, seen, up, talk, open, serving, session>>
          /\ out[p] # <<>> /\ down' = Append(down, Head(out[p]))
          /\ pump' = [pump EXCEPT ![p] = IF Head(out[p]).kind = "end" THEN "done" ELSE pump[p]]
      BY <1>1 DEF Carry, clientVars, talkVars, keeperVars
    <2>2. Head(out[p]) \in Painted(p)
      <3>1. out[p] \in Seq(Told)
        BY DEF Typed
      <3>2. Head(out[p]) = out[p][1] /\ 1 \in DOMAIN out[p]
        BY <2>1, <3>1, RestOf
      <3> QED
        BY <3>2 DEF Typed
    <2>3. \/ pump' = pump
          \/ pump' = [pump EXCEPT ![p] = "done"] /\ Head(out[p]).kind = "end"
      BY <2>1 DEF Typed
    <2> QED
      BY <2>1, <2>2, <2>3, PumpSaysKeepsWait
  <1>2. CASE CarryEnd(p)
    <2>1. Said("end", p) \in Painted(p) /\ Said("end", p).kind = "end"
      BY DEF Said, Painted
    <2> QED
      BY <1>2, <2>1, PumpSaysKeepsWait DEF CarryEnd, clientVars, talkVars, keeperVars
  <1>3. CASE StopPump(p)
    <2>1. /\ UNCHANGED <<client, pane, hand, seen, up, down, talk, open, serving, session>>
          /\ pump[p] = "aborted" \/ client = "gone"
          /\ pump' = [pump EXCEPT ![p] = "done"]
      BY <1>3 DEF StopPump, Unheard, clientVars, talkVars, keeperVars
    <2>2. client # "gone" => \A q \in Panes : pump[q] = "running" => pump'[q] = "running"
      BY <2>1 DEF Typed
    <2>3. Live' => pane \in Panes /\ client # "gone"
      BY <2>1 DEF Live, Typed
    <2>4. TalkedTo'
      BY <2>1, <2>2, <2>3 DEF TalkedTo, Live, EndComes
    <2> QED
      BY <2>1, <2>4 DEF LastAsked, Unseen, Deserted
  <1> QED
    BY <1>1, <1>2, <1>3 DEF Pump

\* The keeper's end of a pane and its session wait for no client.
LEMMA KeeperKeepsWait ==
    ASSUME WaitInv, UNCHANGED <<client, pane, hand, seen, up, down, talk, open, pump>>, Deserted'
    PROVE  WaitInv'
  BY DEF WaitInv, LastAsked, TalkedTo, Live, EndComes, Unseen

\* A keeper that is lost does not serve again.
LEMMA DesertedStep ==
    ASSUME Served, WaitInv,
           \/ \E p \in Panes : Serve(p) \/ Take(p) \/ PaintFails(p)
           \/ Prints \/ SessionEnds \/ KeeperDies \/ UNCHANGED vars
    PROVE  Deserted'
  <1> USE DEF WaitInv, Deserted
  <1>1. serving \in [Panes -> {"none", "painting", "exiting", "gone"}]
    BY DEF Served
  <1>2. ASSUME NEW p \in Panes, Serve(p) \/ Take(p) \/ PaintFails(p) PROVE Deserted'
    <2>1. /\ UNCHANGED session
          /\ \/ UNCHANGED serving
             \/ /\ serving[p] \in {"painting", "exiting"}
                /\ \E s \in {"exiting", "gone"} : serving' = [serving EXCEPT ![p] = s]
      BY <1>2 DEF Serve, Paint, SayExit, SayEnd, Take, PaintFails, Leave
    <2> QED
      BY <1>1, <2>1
  <1>3. CASE Prints \/ SessionEnds \/ UNCHANGED vars
    BY <1>3 DEF Prints, SessionEnds, vars, keeperVars
  <1>4. CASE KeeperDies
    BY <1>4 DEF KeeperDies
  <1> QED
    BY <1>2, <1>3, <1>4

-----------------------------------------------------------------------------
\* Every step keeps a way out of every wait.
LEMMA WaitStep == OrderInv /\ PasteInv /\ Served /\ WaitInv /\ [Next]_vars => WaitInv'
  <1> SUFFICES ASSUME OrderInv, PasteInv, Served, WaitInv, [Next]_vars PROVE WaitInv'
    OBVIOUS
  <1>1. CASE Client
    BY <1>1, AskOpenKeepsWait, LeaveKeepsWait, PutKeepsWait, ReadKeepsWait DEF Client
  <1>2. CASE Break
    BY <1>2, BreakKeepsWait
  <1>3. CASE Talk
    BY <1>3, HearOpenKeepsWait, HearLetGoKeepsWait, FeedKeepsWait, SayOpenedKeepsWait,
       SayRestKeepsWait, EndTalkKeepsWait DEF Talk
  <1>4. CASE \E p \in Panes : Pump(p)
    BY <1>4, PumpKeepsWait
  <1>5. CASE \E p \in Panes : Serve(p) \/ Take(p) \/ PaintFails(p)
    <2>1. KeeperFrame
      BY <1>5 DEF Serve, Paint, SayExit, SayEnd, Take, PaintFails
    <2> QED
      BY <1>5, <2>1, DesertedStep, KeeperKeepsWait DEF KeeperFrame, clientVars, talkVars
  <1>6. CASE Prints \/ SessionEnds \/ KeeperDies \/ UNCHANGED vars
    <2>1. KeeperFrame
      BY <1>6 DEF Prints, SessionEnds, KeeperDies, KeeperFrame, vars
    <2> QED
      BY <1>6, <2>1, DesertedStep, KeeperKeepsWait DEF KeeperFrame, clientVars, talkVars
  <1> QED
    BY <1>1, <1>2, <1>3, <1>4, <1>5, <1>6 DEF Next

\* The invariants of a pane, all of them.
THEOREM PaneKeepsWaits == Spec => [](OrderInv /\ PasteInv /\ Served /\ WaitInv)
  <1>1. Init => OrderInv /\ PasteInv /\ Served /\ WaitInv
    <2>1. Init => Served
      BY SaidIs DEF Init, Served, Reading, Panes
    <2> QED
      BY <2>1, OrderInit, PasteInit, WaitInit
  <1>2. OrderInv /\ PasteInv /\ Served /\ WaitInv /\ [Next]_vars
            => (OrderInv /\ PasteInv /\ Served /\ WaitInv)'
    BY OrderStep, PasteStep, ServedStep, WaitStep
  <1> QED
    BY <1>1, <1>2, PTL DEF Spec

\* A client that sends and a conversation that answers never wait for each other,
\* though neither reads while it writes: attach.rs awaits every send in its loop,
\* and serve.rs its own, over a connection that holds only so much each way.
THEOREM NobodyWaitsInACircle == Spec => []NoCircularWait
  BY PaneKeepsWaits, NothingWaitsInACircle, PTL

\* While attach.rs shows a pane, the task of serve.rs that has to say that it is
\* over runs or has said so, whoever ended first: the session, or its keeper.
THEOREM NobodyIsLeftAtNothing == Spec => []NobodyLeftAtNothing
  BY PaneKeepsWaits, EndIsNear, PTL
=============================================================================
