-------------------------------- MODULE Hub --------------------------------
(***************************************************************************)
(* internal/realtime/hub.go: the in-memory publish/subscribe hub.          *)
(*                                                                         *)
(* A publisher is a client that waits for an answer before it sends its    *)
(* next mutating request; the handler of each publishes to the group's     *)
(* topic, then to some members' own topics, and only then answers          *)
(* (actions.go:102-105, 222-233).  So a publisher's calls come one after   *)
(* the other, and several of them may be to one topic.  A subscriber is    *)
(* the goroutine of one SSE stream or WebTransport session: it subscribes  *)
(* to one topic, receives until its client goes away and unsubscribes      *)
(* (handlers/realtime.go).  Each subscriber makes a channel of its own, so *)
(* the channel carries the subscriber's name.                              *)
(*                                                                         *)
(* sync.RWMutex is external: a writer that has called Lock keeps new       *)
(* readers out and waits for the readers already in; Unlock lets all       *)
(* waiting readers in before another writer can lock.                      *)
(***************************************************************************)
EXTENDS Integers, Sequences, FiniteSets

CONSTANTS
    Publishers, Subscribers, Topics,
    BufCap,         \* capacity of a channel (16 in the code)
    Script          \* bound: the topics of the Publish calls each publisher makes

ASSUME BufCapAssumption == BufCap \in Nat \ {0}
ASSUME ScriptAssumption == Script \in [Publishers -> Seq(Topics)]

NoOne == "none"

ASSUME NoOneAssumption == NoOne \notin Subscribers

\* An event is named <<publisher, k>>, the publisher's k-th call.
Events == UNION {{p} \X (DOMAIN Script[p]) : p \in Publishers}

VARIABLES
    subs,       \* topic -> the channels registered for it (a partial function)
    topic,      \* the topic a subscriber asked for
    subPc,      \* where a subscriber's goroutine is
    chan,       \* the events buffered in a channel
    closed,     \* the channels that have been closed
    received,   \* what a subscriber has taken out of its channel
    pubPc,      \* where a publisher's goroutine is
    count,      \* the number of Publish calls a publisher has begun
    todo,       \* the channels its range loop has yet to visit
    missed,     \* events a full channel could not take (history variable)
    writer,     \* who holds or is waiting for the write lock
    readers,    \* the holders of the read lock
    blocked,    \* readers held back by a writer
    panicked    \* a publisher sent on a closed channel

subVars == <<topic, subPc, closed>>
pubVars == <<pubPc, count, todo>>
lockVars == <<writer, readers, blocked>>
vars == <<subs, topic, subPc, chan, closed, received, pubPc, count,
          todo, missed, writer, readers, blocked, panicked>>

Init ==
    /\ subs = [t \in {} |-> {}]
    /\ topic \in [Subscribers -> Topics]
    /\ subPc = [s \in Subscribers |-> "new"]
    /\ chan = [s \in Subscribers |-> << >>]
    /\ closed = {}
    /\ received = [s \in Subscribers |-> << >>]
    /\ pubPc = [p \in Publishers |-> "idle"]
    /\ count = [p \in Publishers |-> 0]
    /\ todo = [p \in Publishers |-> {}]
    /\ missed = [s \in Subscribers |-> {}]
    /\ writer = NoOne
    /\ readers = {} /\ blocked = {}
    /\ panicked = FALSE

-----------------------------------------------------------------------------
(* sync.RWMutex *)

\* Lock announces the writer; it is in once the earlier readers are out.
Lock(s) == /\ writer = NoOne
           /\ writer' = s
           /\ UNCHANGED <<readers, blocked>>

Locked(s) == writer = s /\ readers = {}

Unlock == /\ writer' = NoOne
          /\ readers' = readers \cup blocked
          /\ blocked' = {}

RLock(p) == /\ p \notin readers \cup blocked
            /\ readers' = IF writer = NoOne THEN readers \cup {p} ELSE readers
            /\ blocked' = IF writer = NoOne THEN blocked ELSE blocked \cup {p}
            /\ UNCHANGED writer

RUnlock(p) == /\ readers' = readers \ {p}
              /\ UNCHANGED <<writer, blocked>>

-----------------------------------------------------------------------------
(* Subscribe and the function it returns *)

\* subs with channel s registered under topic t: the set is made on demand.
Registered(t, s) ==
    [u \in DOMAIN subs \cup {t} |->
        (IF u \in DOMAIN subs THEN subs[u] ELSE {}) \cup
        (IF u = t THEN {s} ELSE {})]

\* subs without channel s: a topic left without channels disappears.
\* Mutants: the channel stays registered; an emptied topic stays in the map.
UnregisteredNever(t, s) == subs

UnregisteredLeaky(t, s) ==
    [v \in DOMAIN subs |-> IF v = t THEN subs[v] \ {s} ELSE subs[v]]

Unregistered(t, s) ==
    IF t \notin DOMAIN subs THEN subs
    ELSE [u \in DOMAIN subs \ (IF subs[t] \ {s} = {} THEN {t} ELSE {}) |->
             IF u = t THEN subs[u] \ {s} ELSE subs[u]]

Subscribe(s) ==
    /\ subPc[s] = "new"
    /\ subPc' = [subPc EXCEPT ![s] = "joining"]
    /\ UNCHANGED <<subs, topic, chan, closed, received, pubVars, missed,
                   lockVars, panicked>>

LockToJoin(s) ==
    /\ subPc[s] = "joining"
    /\ Lock(s)
    /\ subPc' = [subPc EXCEPT ![s] = "subscribing"]
    /\ UNCHANGED <<subs, topic, chan, closed, received, pubVars, missed, panicked>>

Register(s) ==
    /\ subPc[s] = "subscribing"
    /\ Locked(s)
    /\ subs' = Registered(topic[s], s)
    /\ Unlock
    /\ subPc' = [subPc EXCEPT ![s] = "live"]
    /\ UNCHANGED <<topic, chan, closed, received, pubVars, missed, panicked>>

Receive(s) ==
    /\ subPc[s] = "live"
    /\ chan[s] # << >>
    /\ received' = [received EXCEPT ![s] = Append(@, Head(chan[s]))]
    /\ chan' = [chan EXCEPT ![s] = Tail(@)]
    /\ UNCHANGED <<subs, subVars, pubVars, missed, lockVars, panicked>>

\* The request context ends (or a write fails): the deferred unsubscribe runs.
Unsubscribe(s) ==
    /\ subPc[s] = "live"
    /\ subPc' = [subPc EXCEPT ![s] = "leaving"]
    /\ UNCHANGED <<subs, topic, chan, closed, received, pubVars, missed,
                   lockVars, panicked>>

LockToLeave(s) ==
    /\ subPc[s] = "leaving"
    /\ Lock(s)
    /\ subPc' = [subPc EXCEPT ![s] = "unsubscribing"]
    /\ UNCHANGED <<subs, topic, chan, closed, received, pubVars, missed, panicked>>

\* Mutant: the set is changed without waiting for the readers.
UnregisterUnderRLock(s) ==
    /\ subPc[s] = "unsubscribing"
    /\ subs' = Unregistered(topic[s], s)
    /\ Unlock
    /\ subPc' = [subPc EXCEPT ![s] = "closing"]
    /\ UNCHANGED <<topic, chan, closed, received, pubVars, missed, panicked>>

Unregister(s) ==
    /\ subPc[s] = "unsubscribing"
    /\ Locked(s)
    /\ subs' = Unregistered(topic[s], s)
    /\ Unlock
    /\ subPc' = [subPc EXCEPT ![s] = "closing"]
    /\ UNCHANGED <<topic, chan, closed, received, pubVars, missed, panicked>>

Close(s) ==
    /\ subPc[s] = "closing"
    /\ closed' = closed \cup {s}
    /\ subPc' = [subPc EXCEPT ![s] = "gone"]
    /\ UNCHANGED <<subs, topic, chan, received, pubVars, missed, lockVars, panicked>>

-----------------------------------------------------------------------------
(* Publish *)

Publish(p) ==
    /\ pubPc[p] = "idle"
    /\ count[p] < Len(Script[p])
    /\ RLock(p)
    /\ count' = [count EXCEPT ![p] = @ + 1]
    /\ pubPc' = [pubPc EXCEPT ![p] = "locking"]
    /\ UNCHANGED <<subs, subVars, chan, received, todo, missed, panicked>>

\* The topic of p's call under way.
TopicOf(p) == Script[p][count[p]]

ChannelsOf(t) == IF t \in DOMAIN subs THEN subs[t] ELSE {}

StartRange(p) ==
    /\ pubPc[p] = "locking"
    /\ p \in readers
    /\ todo' = [todo EXCEPT ![p] = ChannelsOf(TopicOf(p))]
    /\ pubPc' = [pubPc EXCEPT ![p] = "sending"]
    /\ UNCHANGED <<subs, subVars, chan, received, count, missed,
                   lockVars, panicked>>

\* Mutants: an unbounded channel; a send without the default case; a channel
\* taken to be full one event too early.
OfferUnbounded(s, e) ==
    /\ IF s \in closed THEN panicked' = TRUE /\ UNCHANGED chan
                       ELSE chan' = [chan EXCEPT ![s] = Append(@, e)] /\ UNCHANGED panicked
    /\ UNCHANGED missed

OfferBlocking(s, e) ==
    /\ Len(chan[s]) < BufCap
    /\ chan' = [chan EXCEPT ![s] = Append(@, e)]
    /\ UNCHANGED <<missed, panicked>>

OfferDropsEarly(s, e) ==
    IF Len(chan[s]) + 1 < BufCap
    THEN chan' = [chan EXCEPT ![s] = Append(@, e)] /\ UNCHANGED <<missed, panicked>>
    ELSE missed' = [missed EXCEPT ![s] = @ \cup {e}] /\ UNCHANGED <<chan, panicked>>

\* select { case ch <- e: default: }.  Sending on a closed channel panics.
Offer(s, e) ==
    IF s \in closed THEN /\ panicked' = TRUE
                         /\ UNCHANGED <<chan, missed>>
    ELSE IF Len(chan[s]) < BufCap
         THEN /\ chan' = [chan EXCEPT ![s] = Append(@, e)]
              /\ UNCHANGED <<missed, panicked>>
         ELSE /\ missed' = [missed EXCEPT ![s] = @ \cup {e}]
              /\ UNCHANGED <<chan, panicked>>

\* Mutant: the range may visit a channel again.
SendAgain(p) ==
    /\ pubPc[p] = "sending"
    /\ \E s \in todo[p], T \in SUBSET todo[p] :
          /\ Offer(s, <<p, count[p]>>)
          /\ todo' = [todo EXCEPT ![p] = T]
    /\ UNCHANGED <<subs, subVars, received, pubPc, count, lockVars>>

Send(p) ==
    /\ pubPc[p] = "sending"
    /\ \E s \in todo[p] : /\ Offer(s, <<p, count[p]>>)
                          /\ todo' = [todo EXCEPT ![p] = @ \ {s}]
    /\ UNCHANGED <<subs, subVars, received, pubPc, count, lockVars>>

EndPublish(p) ==
    /\ pubPc[p] = "sending"
    /\ todo[p] = {}
    /\ RUnlock(p)
    /\ pubPc' = [pubPc EXCEPT ![p] = "idle"]
    /\ UNCHANGED <<subs, subVars, chan, received, count, todo, missed,
                   panicked>>

-----------------------------------------------------------------------------

SubscriberStep(s) ==
    \/ Subscribe(s) \/ LockToJoin(s) \/ Register(s) \/ Receive(s)
    \/ Unsubscribe(s) \/ LockToLeave(s) \/ Unregister(s) \/ Close(s)

PublisherStep(p) ==
    \/ Publish(p) \/ StartRange(p) \/ Send(p) \/ EndPublish(p)

Next == \/ \E s \in Subscribers : SubscriberStep(s)
        \/ \E p \in Publishers : PublisherStep(p)

(***************************************************************************)
(* A goroutine inside Subscribe, Publish or the unsubscribe function keeps *)
(* running, and the mutex serves its waiters.  Nothing is assumed of the   *)
(* clients: they may never receive and may stay connected for ever, and    *)
(* nobody is obliged to publish, to subscribe or to leave.                 *)
(***************************************************************************)
Fairness ==
    /\ \A s \in Subscribers :
          /\ WF_vars(LockToJoin(s)) /\ WF_vars(LockToLeave(s))
          /\ WF_vars(Register(s)) /\ WF_vars(Unregister(s)) /\ WF_vars(Close(s))
    /\ \A p \in Publishers : WF_vars(StartRange(p) \/ Send(p) \/ EndPublish(p))

Spec == Init /\ [][Next]_vars /\ Fairness

-----------------------------------------------------------------------------

SubPcs == {"new", "joining", "subscribing", "live", "leaving",
           "unsubscribing", "closing", "gone"}

\* The values the hub's state takes; a channel holds BufCap events (hub.go:22-35).
TypeOK ==
    /\ DOMAIN subs \subseteq Topics
    /\ \A t \in DOMAIN subs : subs[t] \subseteq Subscribers
    /\ topic \in [Subscribers -> Topics]
    /\ subPc \in [Subscribers -> SubPcs]
    /\ chan \in [Subscribers -> Seq(Events)]
    /\ \A s \in Subscribers : Len(chan[s]) <= BufCap
    /\ closed \subseteq Subscribers
    /\ received \in [Subscribers -> Seq(Events)]
    /\ pubPc \in [Publishers -> {"idle", "locking", "sending"}]
    /\ count \in [Publishers -> Nat]
    /\ \A p \in Publishers : count[p] <= Len(Script[p])
    /\ todo \in [Publishers -> SUBSET Subscribers]
    /\ missed \in [Subscribers -> SUBSET Events]
    /\ writer \in Subscribers \cup {NoOne}
    /\ readers \subseteq Publishers
    /\ blocked \subseteq Publishers
    /\ panicked \in BOOLEAN

(***************************************************************************)
(* No publisher sends on a closed channel, which would panic: unsubscribe  *)
(* takes the channel out of the set under the write lock BEFORE it closes  *)
(* it (hub.go:44-52), while Publish ranges under the read lock.            *)
(***************************************************************************)
NoSendOnClosed ==
    /\ ~panicked
    /\ \A p \in Publishers : todo[p] \cap closed = {}

(***************************************************************************)
(* The topic map is never written while a Publish ranges over it: Go would *)
(* abort the process (hub.go:36-40, 44-50 against 60-67).                  *)
(***************************************************************************)
NoWriteDuringRange ==
    [][subs' # subs => \A p \in Publishers : pubPc[p] # "sending"]_vars

Connected == {s \in Subscribers : subPc[s] \in {"live", "leaving", "unsubscribing"}}

(***************************************************************************)
(* The map holds the channels of the connected subscribers and no others,  *)
(* each under its own topic, and no entry for a topic nobody listens to:   *)
(* connections that come and go leave nothing behind (hub.go:36-39, 44-50).*)
(***************************************************************************)
RegistryExact ==
    /\ \A t \in DOMAIN subs : subs[t] # {}
    /\ \A t \in Topics : ChannelsOf(t) = {s \in Connected : topic[s] = t}

Inbox(s) == received[s] \o chan[s]

(***************************************************************************)
(* A subscriber gets the events of one client's requests in the order in   *)
(* which they were made and none of them twice, whatever is lost in        *)
(* between and however publishers interleave (hub.go:58-68).               *)
(***************************************************************************)
PublisherOrder ==
    \A s \in Subscribers : \A i, j \in DOMAIN Inbox(s) :
        i < j /\ Inbox(s)[i][1] = Inbox(s)[j][1] => Inbox(s)[i][2] < Inbox(s)[j][2]

UnderWay ==
    UNION {todo[p] \X {<<p, count[p]>>} : p \in Publishers}

Abstract == INSTANCE PubSub WITH
    Capacity <- BufCap,
    members <- Connected,
    box <- chan,
    under <- UnderWay

(***************************************************************************)
(* The hub implements PubSub: a Publish takes its recipients at one        *)
(* instant, the start of its range loop, and each of them gets the event   *)
(* or loses it because its own buffer is full (hub.go:62-67): a full       *)
(* channel never costs another subscriber its event.                       *)
(***************************************************************************)
ImplementsPubSub == Abstract!Spec

(***************************************************************************)
(* "a slow client never blocks the publisher" (hub.go:33): Publish returns *)
(* although no client ever reads, and so do Subscribe and unsubscribe.     *)
(***************************************************************************)
CallsReturn ==
    /\ \A p \in Publishers : pubPc[p] # "idle" ~> pubPc[p] = "idle"
    /\ \A s \in Subscribers : subPc[s] = "joining" ~> subPc[s] = "live"
    /\ \A s \in Subscribers : subPc[s] = "leaving" ~> subPc[s] = "gone"
=============================================================================
