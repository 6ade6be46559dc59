--------------------------- MODULE Introductions ---------------------------
(***************************************************************************)
(* What a relay promises, said without tickets, queues or timeouts.  A     *)
(* machine is present under one place, an account and a name, from when it *)
(* takes the place until after its connection dropped, and nobody else is  *)
(* present there meanwhile.  A client is introduced, once, to the machine  *)
(* that was present in the client's own place at some moment after it      *)
(* asked; or it is refused.                                                *)
(***************************************************************************)
CONSTANTS Machines,  \* connections machines enrol on
          Clients,   \* connections clients ask on
          Place,     \* the account and name each connection speaks for
          Nobody     \* no machine

VARIABLES present,  \* who holds each place
          seen,     \* machines that have been present
          dropped,  \* machines whose connection is gone
          chosen,   \* the machine each client is being put through to
          outcome   \* what became of each client

introductions == <<present, seen, dropped, chosen, outcome>>

Places == {Place[x] : x \in Machines \cup Clients}

Init ==
    /\ present = [p \in Places |-> Nobody]
    /\ seen = {} /\ dropped = {}
    /\ chosen = [c \in Clients |-> Nobody]
    /\ outcome = [c \in Clients |-> "asking"]

Appear(m) ==
    /\ m \notin seen
    /\ present[Place[m]] = Nobody
    /\ present' = [present EXCEPT ![Place[m]] = m]
    /\ seen' = seen \cup {m}
    /\ UNCHANGED <<dropped, chosen, outcome>>

Drop(m) ==
    /\ dropped' = dropped \cup {m}
    /\ UNCHANGED <<present, seen, chosen, outcome>>

Vanish(m) ==
    /\ m \in dropped
    /\ present[Place[m]] = m
    /\ present' = [present EXCEPT ![Place[m]] = Nobody]
    /\ UNCHANGED <<seen, dropped, chosen, outcome>>

Choose(c) ==
    /\ outcome[c] = "asking" /\ chosen[c] = Nobody
    /\ present[Place[c]] # Nobody
    /\ chosen' = [chosen EXCEPT ![c] = present[Place[c]]]
    /\ UNCHANGED <<present, seen, dropped, outcome>>

Introduce(c) ==
    /\ outcome[c] = "asking" /\ chosen[c] # Nobody
    /\ outcome' = [outcome EXCEPT ![c] = "introduced"]
    /\ UNCHANGED <<present, seen, dropped, chosen>>

Refuse(c) ==
    /\ outcome[c] = "asking"
    /\ outcome' = [outcome EXCEPT ![c] = "refused"]
    /\ UNCHANGED <<present, seen, dropped, chosen>>

Part(c) ==
    /\ outcome[c] = "introduced"
    /\ outcome' = [outcome EXCEPT ![c] = "parted"]
    /\ UNCHANGED <<present, seen, dropped, chosen>>

Next ==
    \/ \E m \in Machines : Appear(m) \/ Drop(m) \/ Vanish(m)
    \/ \E c \in Clients : Choose(c) \/ Introduce(c) \/ Refuse(c) \/ Part(c)

Spec == Init /\ [][Next]_introductions
=============================================================================
