------------------------------- MODULE PubSub -------------------------------
(***************************************************************************)
(* What the hub promises, without locks, maps or goroutines.  A broadcast  *)
(* takes its list of recipients in one instant; each recipient then gets   *)
(* the event once or, when its mailbox is full, loses it.  Nobody leaves   *)
(* while an event is still on its way to them, so nothing is ever sent to  *)
(* a mailbox that is gone.                                                 *)
(***************************************************************************)
EXTENDS Integers, Sequences

CONSTANTS Subscribers, Events, Capacity

VARIABLES
    members,    \* who is registered
    box,        \* each one's unread events
    under       \* <<s, e>>: event e is on its way to s

vars == <<members, box, under>>

Init ==
    /\ members = {}
    /\ box = [s \in Subscribers |-> << >>]
    /\ under = {}

Join(s) ==
    /\ s \notin members
    /\ members' = members \cup {s}
    /\ UNCHANGED <<box, under>>

Leave(s) ==
    /\ s \in members
    /\ \A e \in Events : <<s, e>> \notin under
    /\ members' = members \ {s}
    /\ UNCHANGED <<box, under>>

Broadcast(e) ==
    /\ \A s \in Subscribers : <<s, e>> \notin under
    /\ \E M \in SUBSET members : under' = under \cup (M \X {e})
    /\ UNCHANGED <<members, box>>

Deliver(s, e) ==
    /\ <<s, e>> \in under
    /\ Len(box[s]) < Capacity
    /\ box' = [box EXCEPT ![s] = Append(@, e)]
    /\ under' = under \ {<<s, e>>}
    /\ UNCHANGED members

Lose(s, e) ==
    /\ <<s, e>> \in under
    /\ Len(box[s]) >= Capacity
    /\ under' = under \ {<<s, e>>}
    /\ UNCHANGED <<members, box>>

Take(s) ==
    /\ s \in members
    /\ box[s] # << >>
    /\ box' = [box EXCEPT ![s] = Tail(@)]
    /\ UNCHANGED <<members, under>>

Next ==
    \/ \E s \in Subscribers : Join(s) \/ Leave(s) \/ Take(s)
    \/ \E e \in Events : Broadcast(e)
    \/ \E s \in Subscribers, e \in Events : Deliver(s, e) \/ Lose(s, e)

Spec == Init /\ [][Next]_vars
=============================================================================
