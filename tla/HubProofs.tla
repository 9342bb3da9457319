----------------------------- MODULE HubProofs -----------------------------
(***************************************************************************)
(* What holds of the hub for any number of publishers and connections, any *)
(* buffer size and any sequence of publications.  The argument: a writer   *)
(* changes the map only when no reader is in (LockInv), so what a publisher*)
(* has yet to visit stays registered (RangeInv), and what is registered is *)
(* exactly what is connected (RegistryExact), hence not closed.            *)
(***************************************************************************)
EXTENDS Hub, TLAPS

LockInv ==
    /\ \A s \in Subscribers :
          subPc[s] \in {"subscribing", "unsubscribing"} <=> writer = s
    /\ \A p \in Publishers :
          /\ pubPc[p] = "sending" => p \in readers
          /\ pubPc[p] = "idle" => p \notin readers \cup blocked
    /\ readers \cap blocked = {}

RangeInv ==
    \A p \in Publishers :
        /\ todo[p] # {} => pubPc[p] = "sending"
        /\ pubPc[p] # "idle" => count[p] \in DOMAIN Script[p]
        /\ todo[p] \subseteq Connected

ClosedInv == closed = {s \in Subscribers : subPc[s] = "gone"}

Ind == TypeOK /\ LockInv /\ RangeInv /\ RegistryExact /\ ClosedInv /\ ~panicked

-----------------------------------------------------------------------------

LEMMA InitInd == Init => Ind
<1> SUFFICES ASSUME Init PROVE Ind
  OBVIOUS
<1>1. TypeOK
  <2>1. chan \in [Subscribers -> Seq(Events)] /\ received \in [Subscribers -> Seq(Events)]
    BY DEF Init
  <2>2. \A s \in Subscribers : Len(chan[s]) <= BufCap
    BY BufCapAssumption DEF Init
  <2>3. \A p \in Publishers : Len(Script[p]) \in Nat
    BY ScriptAssumption
  <2>4. DOMAIN subs = {} /\ missed \in [Subscribers -> SUBSET Events]
    BY DEF Init
  <2>5. /\ count \in [Publishers -> Nat]
        /\ \A p \in Publishers : count[p] <= Len(Script[p])
    BY <2>3 DEF Init
  <2>6. /\ topic \in [Subscribers -> Topics]
        /\ subPc \in [Subscribers -> SubPcs]
        /\ pubPc \in [Publishers -> {"idle", "locking", "sending"}]
        /\ todo \in [Publishers -> SUBSET Subscribers]
    BY DEF Init, SubPcs
  <2> QED
    BY <2>1, <2>2, <2>4, <2>5, <2>6 DEF Init, TypeOK
<1>2. LockInv /\ RangeInv /\ ClosedInv /\ ~panicked
  BY NoOneAssumption DEF Init, LockInv, RangeInv, ClosedInv
<1>3. RegistryExact
  BY DEF Init, RegistryExact, Connected, ChannelsOf
<1> QED
  BY <1>1, <1>2, <1>3 DEF Ind

\* While a writer is in, no publisher ranges over the map.
LEMMA WriterAlone ==
    ASSUME Ind, NEW s \in Subscribers, Locked(s)
    PROVE  \A p \in Publishers : pubPc[p] # "sending" /\ todo[p] = {}
  BY DEF Ind, LockInv, RangeInv, Locked

\* A call under way names a topic, and its event is one of the events.
LEMMA CallUnderWay ==
    ASSUME Ind, NEW p \in Publishers, pubPc[p] # "idle"
    PROVE  <<p, count[p]>> \in Events /\ TopicOf(p) \in Topics
<1>1. count[p] \in DOMAIN Script[p]
  BY DEF Ind, RangeInv
<1>2. Script[p] \in Seq(Topics)
  BY ScriptAssumption
<1> QED
  BY <1>1, <1>2 DEF Events, TopicOf

LEMMA SubscriberInd ==
    ASSUME Ind, NEW s \in Subscribers, SubscriberStep(s)
    PROVE  Ind'
<1> USE NoOneAssumption DEF Ind
<1>1. CASE Subscribe(s) \/ Unsubscribe(s)
  <2>1. TypeOK'
    BY <1>1 DEF Subscribe, Unsubscribe, TypeOK, SubPcs, lockVars, pubVars
  <2>2. Connected' = Connected
    BY <1>1 DEF Subscribe, Unsubscribe, TypeOK, Connected
  <2>3. LockInv' /\ ClosedInv' /\ ~panicked'
    BY <1>1 DEF Subscribe, Unsubscribe, TypeOK, LockInv, ClosedInv, lockVars, pubVars
  <2>4. RangeInv' /\ RegistryExact'
    BY <1>1, <2>2 DEF Subscribe, Unsubscribe, RangeInv, RegistryExact, ChannelsOf,
                      pubVars
  <2> QED
    BY <2>1, <2>3, <2>4
<1>2. CASE LockToJoin(s) \/ LockToLeave(s)
  <2>1. TypeOK'
    BY <1>2 DEF LockToJoin, LockToLeave, Lock, TypeOK, SubPcs, pubVars
  <2>2. Connected' = Connected
    BY <1>2 DEF LockToJoin, LockToLeave, TypeOK, Connected
  <2>3. LockInv' /\ ClosedInv' /\ ~panicked'
    BY <1>2 DEF LockToJoin, LockToLeave, Lock, TypeOK, LockInv, ClosedInv, pubVars
  <2>4. RangeInv' /\ RegistryExact'
    BY <1>2, <2>2 DEF LockToJoin, LockToLeave, RangeInv, RegistryExact, ChannelsOf,
                      pubVars
  <2> QED
    BY <2>1, <2>3, <2>4
<1>3. CASE Register(s)
  <2>1. /\ \A p \in Publishers : pubPc[p] # "sending" /\ todo[p] = {}
        /\ topic[s] \in Topics
    BY <1>3, WriterAlone DEF Register, TypeOK
  <2>2. /\ DOMAIN subs' = DOMAIN subs \cup {topic[s]}
        /\ \A t \in DOMAIN subs' :
              subs'[t] = ChannelsOf(t) \cup (IF t = topic[s] THEN {s} ELSE {})
    BY <1>3 DEF Register, Registered, ChannelsOf
  <2>3. TypeOK'
    BY <1>3, <2>1, <2>2 DEF Register, Unlock, TypeOK, SubPcs, pubVars, ChannelsOf
  <2>4. LockInv' /\ ClosedInv' /\ ~panicked'
    BY <1>3, <2>1 DEF Register, Locked, Unlock, TypeOK, LockInv, ClosedInv, pubVars
  <2>5. Connected' = Connected \cup {s}
    BY <1>3 DEF Register, TypeOK, Connected
  <2>6. RangeInv'
    BY <1>3, <2>1, <2>5 DEF Register, RangeInv, pubVars
  <2>7. RegistryExact'
    <3>1. \A t \in Topics :
             ChannelsOf(t)' = ChannelsOf(t) \cup (IF t = topic[s] THEN {s} ELSE {})
      BY <2>2 DEF ChannelsOf
    <3>2. \A t \in Topics : ChannelsOf(t)' = {r \in Connected' : topic[r] = t}
      BY <2>1, <2>5, <3>1 DEF RegistryExact, Connected
    <3>3. \A t \in DOMAIN subs' : subs'[t] # {}
      BY <2>2 DEF RegistryExact, ChannelsOf
    <3> QED
      BY <1>3, <3>2, <3>3 DEF RegistryExact, Register
  <2> QED
    BY <2>3, <2>4, <2>6, <2>7
<1>4. CASE Receive(s)
  <2>1. chan[s] \in Seq(Events) /\ chan[s] # << >> /\ received[s] \in Seq(Events)
    BY <1>4 DEF Receive, TypeOK
  <2>2. /\ Head(chan[s]) \in Events /\ Tail(chan[s]) \in Seq(Events)
        /\ Len(Tail(chan[s])) = Len(chan[s]) - 1
    BY <2>1
  <2>3. /\ chan' \in [Subscribers -> Seq(Events)]
        /\ received' \in [Subscribers -> Seq(Events)]
        /\ \A r \in Subscribers : Len(chan'[r]) <= BufCap
    BY <1>4, <2>1, <2>2, BufCapAssumption DEF Receive, TypeOK
  <2>4. TypeOK'
    BY <1>4, <2>3 DEF Receive, TypeOK, subVars, pubVars, lockVars
  <2> QED
    BY <1>4, <2>4 DEF Receive, LockInv, RangeInv, RegistryExact, ClosedInv, Connected,
                      ChannelsOf, subVars, pubVars, lockVars
<1>5. CASE Unregister(s)
  <2>1. /\ \A p \in Publishers : pubPc[p] # "sending" /\ todo[p] = {}
        /\ topic[s] \in Topics
    BY <1>5, WriterAlone DEF Unregister, TypeOK
  <2>2. s \in Connected /\ Connected' = Connected \ {s}
    BY <1>5 DEF Unregister, TypeOK, Connected
  <2>3. topic[s] \in DOMAIN subs
    BY <2>1, <2>2 DEF RegistryExact, ChannelsOf
  <2>4. /\ DOMAIN subs' = DOMAIN subs \ (IF subs[topic[s]] \ {s} = {} THEN {topic[s]} ELSE {})
        /\ \A t \in DOMAIN subs' :
              subs'[t] = IF t = topic[s] THEN subs[t] \ {s} ELSE subs[t]
    BY <1>5, <2>3 DEF Unregister, Unregistered
  <2>5. TypeOK'
    BY <1>5, <2>4 DEF Unregister, Unlock, TypeOK, SubPcs, pubVars
  <2>6. LockInv' /\ ClosedInv' /\ ~panicked'
    BY <1>5, <2>1 DEF Unregister, Locked, Unlock, TypeOK, LockInv, ClosedInv, pubVars
  <2>7. RangeInv'
    BY <1>5, <2>1 DEF Unregister, RangeInv, pubVars
  <2>8. RegistryExact'
    <3>1. \A t \in Topics :
             ChannelsOf(t)' = IF t = topic[s] THEN ChannelsOf(t) \ {s} ELSE ChannelsOf(t)
      BY <2>3, <2>4 DEF ChannelsOf
    <3>2. \A t \in Topics : ChannelsOf(t)' = {r \in Connected' : topic[r] = t}
      BY <2>1, <2>2, <3>1 DEF RegistryExact
    <3>3. \A t \in DOMAIN subs' : subs'[t] # {}
      BY <2>3, <2>4 DEF RegistryExact
    <3> QED
      BY <1>5, <3>2, <3>3 DEF RegistryExact, Unregister
  <2> QED
    BY <2>5, <2>6, <2>7, <2>8
<1>6. CASE Close(s)
  <2>1. TypeOK'
    BY <1>6 DEF Close, TypeOK, SubPcs, pubVars, lockVars
  <2>2. Connected' = Connected
    BY <1>6 DEF Close, TypeOK, Connected
  <2>3. LockInv' /\ ClosedInv' /\ ~panicked'
    BY <1>6 DEF Close, TypeOK, LockInv, ClosedInv, pubVars, lockVars
  <2>4. RangeInv' /\ RegistryExact'
    BY <1>6, <2>2 DEF Close, RangeInv, RegistryExact, ChannelsOf, pubVars
  <2> QED
    BY <2>1, <2>3, <2>4
<1> QED
  BY <1>1, <1>2, <1>3, <1>4, <1>5, <1>6 DEF SubscriberStep

LEMMA PublisherInd ==
    ASSUME Ind, NEW p \in Publishers, PublisherStep(p)
    PROVE  Ind'
<1> USE NoOneAssumption DEF Ind
<1>1. CASE Publish(p)
  <2>1. /\ Script[p] \in Seq(Topics) /\ count[p] \in Nat /\ count[p] < Len(Script[p])
        /\ count' = [count EXCEPT ![p] = @ + 1]
        /\ pubPc' = [pubPc EXCEPT ![p] = "locking"]
    BY <1>1, ScriptAssumption DEF Publish, TypeOK
  <2>2. count[p] + 1 \in DOMAIN Script[p] /\ Len(Script[p]) \in Nat
    BY <2>1
  <2>3. TypeOK'
    <3>1. \A q \in Publishers : count'[q] <= Len(Script[q])
      BY <2>1, <2>2 DEF TypeOK
    <3> QED
      BY <1>1, <2>1, <3>1 DEF Publish, RLock, TypeOK, subVars
  <2>4. LockInv'
    BY <1>1 DEF Publish, RLock, TypeOK, LockInv, subVars
  <2>5. RangeInv'
    BY <1>1, <2>1, <2>2 DEF Publish, TypeOK, RangeInv, Connected, subVars
  <2>6. RegistryExact' /\ ClosedInv' /\ ~panicked'
    BY <1>1 DEF Publish, RegistryExact, ClosedInv, Connected, ChannelsOf, subVars
  <2> QED
    BY <2>3, <2>4, <2>5, <2>6
<1>2. CASE StartRange(p)
  <2>1. TopicOf(p) \in Topics
    BY <1>2, CallUnderWay DEF StartRange
  <2>2. ChannelsOf(TopicOf(p)) \subseteq Connected
    BY <2>1 DEF RegistryExact
  <2>3. ChannelsOf(TopicOf(p)) \subseteq Subscribers
    BY <2>2 DEF Connected
  <2>4. TypeOK'
    BY <1>2, <2>3 DEF StartRange, TypeOK, subVars, lockVars
  <2>5. LockInv'
    BY <1>2 DEF StartRange, TypeOK, LockInv, subVars, lockVars
  <2>6. Connected' = Connected
    BY <1>2 DEF StartRange, Connected, subVars
  <2>7. RangeInv'
    BY <1>2, <2>2, <2>6 DEF StartRange, TypeOK, RangeInv
  <2>8. RegistryExact' /\ ClosedInv' /\ ~panicked'
    BY <1>2, <2>6 DEF StartRange, RegistryExact, ClosedInv, ChannelsOf, subVars
  <2> QED
    BY <2>4, <2>5, <2>7, <2>8
<1>3. CASE Send(p)
  <2> DEFINE e == <<p, count[p]>>
  <2>1. PICK s \in todo[p] : Offer(s, e) /\ todo' = [todo EXCEPT ![p] = @ \ {s}]
    BY <1>3 DEF Send
  <2>2. s \in Subscribers /\ s \notin closed
    BY <2>1 DEF RangeInv, Connected, ClosedInv
  <2>3. e \in Events
    BY <1>3, CallUnderWay DEF Send
  <2> HIDE DEF e
  <2>4. /\ chan' \in [Subscribers -> Seq(Events)]
        /\ \A r \in Subscribers : Len(chan'[r]) <= BufCap
        /\ missed' \in [Subscribers -> SUBSET Events]
        /\ panicked' = panicked
    <3>1. /\ chan \in [Subscribers -> Seq(Events)] /\ chan[s] \in Seq(Events)
          /\ missed \in [Subscribers -> SUBSET Events]
          /\ \A r \in Subscribers : Len(chan[r]) <= BufCap
      BY <2>2 DEF TypeOK
    <3>2. CASE Len(chan[s]) < BufCap
      <4>1. /\ chan' = [chan EXCEPT ![s] = Append(@, e)]
            /\ UNCHANGED <<missed, panicked>>
        BY <2>1, <2>2, <3>2 DEF Offer
      <4>2. /\ Append(chan[s], e) \in Seq(Events)
            /\ Len(Append(chan[s], e)) = Len(chan[s]) + 1
            /\ Len(chan[s]) + 1 <= BufCap
        BY <2>3, <3>1, <3>2, BufCapAssumption
      <4> QED
        BY <2>2, <3>1, <4>1, <4>2
    <3>3. CASE ~(Len(chan[s]) < BufCap)
      <4>1. /\ missed' = [missed EXCEPT ![s] = @ \cup {e}]
            /\ UNCHANGED <<chan, panicked>>
        BY <2>1, <2>2, <3>3 DEF Offer
      <4> QED
        BY <2>2, <2>3, <3>1, <4>1
    <3> QED
      BY <3>2, <3>3
  <2>5. TypeOK'
    BY <1>3, <2>1, <2>4 DEF Send, TypeOK, subVars, lockVars
  <2>6. LockInv'
    BY <1>3 DEF Send, LockInv, subVars, lockVars
  <2>7. Connected' = Connected
    BY <1>3 DEF Send, Connected, subVars
  <2>8. RangeInv'
    BY <1>3, <2>1, <2>7 DEF Send, TypeOK, RangeInv
  <2>9. RegistryExact' /\ ClosedInv' /\ ~panicked'
    BY <1>3, <2>4, <2>7 DEF Send, RegistryExact, ClosedInv, ChannelsOf, subVars
  <2> QED
    BY <2>5, <2>6, <2>8, <2>9
<1>4. CASE EndPublish(p)
  <2>1. TypeOK'
    BY <1>4 DEF EndPublish, RUnlock, TypeOK, subVars
  <2>2. LockInv'
    <3>1. p \notin blocked
      BY <1>4 DEF EndPublish, LockInv, TypeOK
    <3> QED
      BY <1>4, <3>1 DEF EndPublish, RUnlock, TypeOK, LockInv, subVars
  <2>3. RangeInv' /\ RegistryExact' /\ ClosedInv' /\ ~panicked'
    BY <1>4 DEF EndPublish, TypeOK, RangeInv, RegistryExact, ClosedInv, Connected,
                ChannelsOf, subVars
  <2> QED
    BY <2>1, <2>2, <2>3
<1> QED
  BY <1>1, <1>2, <1>3, <1>4 DEF PublisherStep

LEMMA StutterInd == Ind /\ UNCHANGED vars => Ind'
  BY DEF vars, Ind, TypeOK, LockInv, RangeInv, RegistryExact, ClosedInv, Connected,
         ChannelsOf

\* The inductive invariant of the hub holds in every state.
THEOREM IndAlways == Spec => []Ind
<1>1. Ind /\ [Next]_vars => Ind'
  BY SubscriberInd, PublisherInd, StutterInd DEF Next
<1> QED
  BY <1>1, InitInd, PTL DEF Spec

(***************************************************************************)
(* Every variable of the hub keeps its type; no channel exceeds its        *)
(* capacity.                                                               *)
(***************************************************************************)
THEOREM TypeCorrect == Spec => []TypeOK
<1>1. Ind => TypeOK
  BY DEF Ind
<1> QED
  BY <1>1, IndAlways, PTL

(***************************************************************************)
(* No publisher ever sends on a closed channel.                            *)
(***************************************************************************)
THEOREM NeverSendOnClosed == Spec => []NoSendOnClosed
<1>1. Ind => NoSendOnClosed
  BY DEF Ind, NoSendOnClosed, RangeInv, ClosedInv, Connected
<1> QED
  BY <1>1, IndAlways, PTL

(***************************************************************************)
(* The map holds exactly the connected channels and no empty topic.        *)
(***************************************************************************)
THEOREM RegistryAlwaysExact == Spec => []RegistryExact
<1>1. Ind => RegistryExact
  BY DEF Ind
<1> QED
  BY <1>1, IndAlways, PTL

(***************************************************************************)
(* The map is never written while a Publish ranges over it.                *)
(***************************************************************************)
THEOREM RangeIsUndisturbed == Spec => NoWriteDuringRange
<1>1. Ind /\ [Next]_vars =>
          [subs' # subs => \A p \in Publishers : pubPc[p] # "sending"]_vars
  <2> SUFFICES ASSUME Ind, Next, subs' # subs
               PROVE  \A p \in Publishers : pubPc[p] # "sending"
    OBVIOUS
  <2>1. ASSUME NEW p \in Publishers, PublisherStep(p) PROVE FALSE
    BY <2>1 DEF PublisherStep, Publish, StartRange, Send, EndPublish
  <2>2. ASSUME NEW s \in Subscribers, SubscriberStep(s) PROVE Locked(s)
    BY <2>2 DEF SubscriberStep, Subscribe, LockToJoin, Register, Receive, Unsubscribe,
                LockToLeave, Unregister, Close
  <2> QED
    BY <2>1, <2>2, WriterAlone DEF Next
<1> QED
  BY <1>1, IndAlways, PTL DEF Spec, NoWriteDuringRange

-----------------------------------------------------------------------------

\* What is on its way is what the publishers have yet to visit.
LEMMA UnderWayMember ==
    ASSUME NEW s \in Subscribers, NEW e
    PROVE  <<s, e>> \in UnderWay <=>
               \E p \in Publishers : e = <<p, count[p]>> /\ s \in todo[p]
  BY DEF UnderWay

LEMMA SubscriberImplements ==
    ASSUME Ind, NEW s \in Subscribers, SubscriberStep(s)
    PROVE  [Abstract!Next]_(Abstract!vars)
<1> USE DEF Ind
<1>1. CASE Register(s)
  <2>1. s \notin Connected /\ Connected' = Connected \cup {s}
    BY <1>1 DEF Register, TypeOK, Connected
  <2>2. UnderWay' = UnderWay /\ chan' = chan
    BY <1>1 DEF Register, UnderWay, pubVars
  <2> QED
    BY <2>1, <2>2 DEF Abstract!Next, Abstract!Join
<1>2. CASE Unregister(s)
  <2>1. s \in Connected /\ Connected' = Connected \ {s}
    BY <1>2 DEF Unregister, TypeOK, Connected
  <2>2. UnderWay' = UnderWay /\ chan' = chan
    BY <1>2 DEF Unregister, UnderWay, pubVars
  <2>3. \A e \in Events : <<s, e>> \notin UnderWay
    BY <1>2, WriterAlone, UnderWayMember DEF Unregister
  <2> QED
    BY <2>1, <2>2, <2>3 DEF Abstract!Next, Abstract!Leave
<1>3. CASE Receive(s)
  <2>1. s \in Connected /\ Connected' = Connected
    BY <1>3 DEF Receive, Connected, subVars
  <2>2. UnderWay' = UnderWay
    BY <1>3 DEF Receive, UnderWay, pubVars
  <2>3. chan[s] # << >> /\ chan' = [chan EXCEPT ![s] = Tail(@)]
    BY <1>3 DEF Receive
  <2> QED
    BY <2>1, <2>2, <2>3 DEF Abstract!Next, Abstract!Take
<1>4. CASE Subscribe(s) \/ LockToJoin(s) \/ Unsubscribe(s) \/ LockToLeave(s) \/ Close(s)
  <2>1. Connected' = Connected
    BY <1>4 DEF Subscribe, LockToJoin, Unsubscribe, LockToLeave, Close, TypeOK, Connected
  <2>2. UnderWay' = UnderWay /\ chan' = chan
    BY <1>4 DEF Subscribe, LockToJoin, Unsubscribe, LockToLeave, Close, UnderWay, pubVars
  <2> QED
    BY <2>1, <2>2 DEF Abstract!vars
<1> QED
  BY <1>1, <1>2, <1>3, <1>4 DEF SubscriberStep

LEMMA PublisherImplements ==
    ASSUME Ind, NEW p \in Publishers, PublisherStep(p)
    PROVE  [Abstract!Next]_(Abstract!vars)
<1> USE DEF Ind
<1> DEFINE e == <<p, count[p]>>
<1>1. CASE Publish(p) \/ EndPublish(p)
  <2>1. todo[p] = {} /\ todo' = todo /\ count' \in [Publishers -> Nat]
    BY <1>1, PublisherInd DEF Publish, EndPublish, RangeInv, TypeOK
  <2>2. \A q \in Publishers : q # p => count'[q] = count[q]
    BY <1>1 DEF Publish, EndPublish, TypeOK
  <2>3. UnderWay' = UnderWay
    BY <2>1, <2>2 DEF UnderWay
  <2>4. Connected' = Connected /\ chan' = chan
    BY <1>1 DEF Publish, EndPublish, Connected, subVars
  <2> QED
    BY <2>3, <2>4 DEF Abstract!vars
<1>2. CASE StartRange(p)
  <2>1. e \in Events /\ TopicOf(p) \in Topics
    BY <1>2, CallUnderWay DEF StartRange
  <2>2. todo[p] = {}
    BY <1>2 DEF StartRange, RangeInv
  <2>3. ChannelsOf(TopicOf(p)) \in SUBSET Connected
    BY <2>1 DEF RegistryExact
  <2>4. \A r \in Subscribers : <<r, e>> \notin UnderWay
    BY <2>2, UnderWayMember
  <2>5. UnderWay' = UnderWay \cup (ChannelsOf(TopicOf(p)) \X {e})
    <3>1. /\ count' = count
          /\ todo' = [todo EXCEPT ![p] = ChannelsOf(TopicOf(p))]
          /\ todo \in [Publishers -> SUBSET Subscribers]
      BY <1>2 DEF StartRange, TypeOK
    <3> QED
      BY <2>2, <3>1 DEF UnderWay
  <2>6. Connected' = Connected /\ chan' = chan
    BY <1>2 DEF StartRange, Connected, subVars
  <2>7. Abstract!Broadcast(e)
    BY <2>3, <2>4, <2>5, <2>6 DEF Abstract!Broadcast
  <2> QED
    BY <2>1, <2>7 DEF Abstract!Next
<1>3. CASE Send(p)
  <2>1. PICK s \in todo[p] : Offer(s, e) /\ todo' = [todo EXCEPT ![p] = @ \ {s}]
    BY <1>3 DEF Send
  <2>2. s \in Subscribers /\ s \notin closed
    BY <2>1 DEF RangeInv, Connected, ClosedInv
  <2>3. e \in Events
    BY <1>3, CallUnderWay DEF Send
  <2>4. <<s, e>> \in UnderWay
    BY <2>1, <2>2, UnderWayMember
  <2>5. UnderWay' = UnderWay \ {<<s, e>>}
    BY <1>3, <2>1 DEF Send, UnderWay, TypeOK
  <2>6. Connected' = Connected
    BY <1>3 DEF Send, Connected, subVars
  <2>7. Abstract!Deliver(s, e) \/ Abstract!Lose(s, e)
    <3>1. Len(chan[s]) \in Nat /\ BufCap \in Nat
      BY <2>2, BufCapAssumption DEF TypeOK
    <3>2. CASE Len(chan[s]) < BufCap
      BY <2>1, <2>2, <2>4, <2>5, <2>6, <3>2 DEF Offer, Abstract!Deliver
    <3>3. CASE Len(chan[s]) >= BufCap
      BY <2>1, <2>2, <2>4, <2>5, <2>6, <3>1, <3>3 DEF Offer, Abstract!Lose
    <3> QED
      BY <3>1, <3>2, <3>3
  <2> QED
    BY <2>2, <2>3, <2>7 DEF Abstract!Next
<1> QED
  BY <1>1, <1>2, <1>3 DEF PublisherStep

(***************************************************************************)
(* The hub implements PubSub: recipients are fixed in one instant, each of *)
(* them is served or found full once, and nobody leaves in between.        *)
(***************************************************************************)
THEOREM HubImplementsPubSub == Spec => ImplementsPubSub
<1>1. Init => Abstract!Init
  BY DEF Init, Abstract!Init, Connected, UnderWay
<1>2. Ind /\ UNCHANGED vars => UNCHANGED Abstract!vars
  BY DEF vars, Abstract!vars, Connected, UnderWay
<1>3. Ind /\ [Next]_vars => [Abstract!Next]_(Abstract!vars)
  BY <1>2, SubscriberImplements, PublisherImplements DEF Next
<1> QED
  BY <1>1, <1>3, IndAlways, PTL DEF Spec, ImplementsPubSub, Abstract!Spec

-----------------------------------------------------------------------------
(* The order in which one publisher's events arrive *)

\* What a subscriber has of a publisher's events precedes the call under way,
\* and is earlier than it for as long as the call may still reach the subscriber.
Behind(e, s) ==
    /\ e[2] <= count[e[1]]
    /\ pubPc[e[1]] = "locking" \/ s \in todo[e[1]] => e[2] < count[e[1]]

BehindInv ==
    \A s \in Subscribers : \A i \in DOMAIN Inbox(s) : Behind(Inbox(s)[i], s)

LEMMA EventShape ==
    ASSUME NEW e \in Events
    PROVE  e[1] \in Publishers /\ e[2] \in Nat \ {0}
<1>1. PICK p \in Publishers : e \in {p} \X (DOMAIN Script[p])
  BY DEF Events
<1>2. Script[p] \in Seq(Topics)
  BY ScriptAssumption
<1> QED
  BY <1>1, <1>2

\* Taking an event out of the channel leaves the inbox as it is.
LEMMA MoveHead ==
    ASSUME NEW S, NEW a \in Seq(S), NEW b \in Seq(S), b # << >>
    PROVE  Append(a, Head(b)) \o Tail(b) = a \o b
  OBVIOUS

LEMMA InboxGrows ==
    ASSUME NEW S, NEW a \in Seq(S), NEW b \in Seq(S), NEW e \in S
    PROVE  /\ a \o b \in Seq(S)
           /\ DOMAIN (a \o Append(b, e)) = 1..(Len(a \o b) + 1)
           /\ (a \o Append(b, e))[Len(a \o b) + 1] = e
           /\ \A i \in 1..Len(a \o b) : (a \o Append(b, e))[i] = (a \o b)[i]
  OBVIOUS

LEMMA InboxType ==
    ASSUME TypeOK, NEW s \in Subscribers
    PROVE  /\ Inbox(s) \in Seq(Events)
           /\ \A i \in DOMAIN Inbox(s) : /\ Inbox(s)[i] \in Events
                                         /\ Inbox(s)[i][1] \in Publishers
                                         /\ Inbox(s)[i][2] \in Nat \ {0}
<1>1. Inbox(s) \in Seq(Events)
  BY DEF TypeOK, Inbox
<1> QED
  BY <1>1, EventShape

\* Steps that leave the inboxes, the counts and the channels to visit alone.
LEMMA OrderUntouched ==
    ASSUME BehindInv, PublisherOrder, UNCHANGED <<chan, received, count, todo, pubPc>>
    PROVE  BehindInv' /\ PublisherOrder'
<1>1. \A s \in Subscribers : Inbox(s)' = Inbox(s)
  BY DEF Inbox
<1> QED
  BY <1>1 DEF BehindInv, PublisherOrder, Behind

LEMMA SubscriberOrder ==
    ASSUME Ind, BehindInv, PublisherOrder, NEW s \in Subscribers, SubscriberStep(s)
    PROVE  BehindInv' /\ PublisherOrder'
<1>1. CASE Receive(s)
  <2>1. /\ chan[s] \in Seq(Events) /\ received[s] \in Seq(Events) /\ chan[s] # << >>
        /\ received' = [received EXCEPT ![s] = Append(@, Head(chan[s]))]
        /\ chan' = [chan EXCEPT ![s] = Tail(@)]
        /\ UNCHANGED <<count, todo, pubPc>>
    BY <1>1 DEF Ind, TypeOK, Receive, pubVars
  <2>2. Append(received[s], Head(chan[s])) \o Tail(chan[s]) = received[s] \o chan[s]
    BY <2>1, MoveHead, Zenon
  <2>3. \A r \in Subscribers : Inbox(r)' = Inbox(r)
    BY <2>1, <2>2 DEF Ind, TypeOK, Inbox
  <2> QED
    BY <2>1, <2>3 DEF BehindInv, PublisherOrder, Behind
<1>2. CASE ~Receive(s)
  <2>1. UNCHANGED <<chan, received, count, todo, pubPc>>
    BY <1>2 DEF SubscriberStep, Subscribe, LockToJoin, Register, Unsubscribe,
                LockToLeave, Unregister, Close, pubVars
  <2> QED
    BY <2>1, OrderUntouched
<1> QED
  BY <1>1, <1>2

LEMMA PublishOrder ==
    ASSUME Ind, BehindInv, PublisherOrder, NEW p \in Publishers, Publish(p)
    PROVE  BehindInv' /\ PublisherOrder'
<1>1. /\ count \in [Publishers -> Nat] /\ pubPc[p] = "idle"
      /\ count' = [count EXCEPT ![p] = @ + 1]
      /\ pubPc' = [pubPc EXCEPT ![p] = "locking"]
      /\ pubPc \in [Publishers -> {"idle", "locking", "sending"}]
      /\ UNCHANGED <<chan, received, todo>>
  BY DEF Ind, TypeOK, Publish
<1>2. \A r \in Subscribers : Inbox(r)' = Inbox(r)
  BY <1>1 DEF Inbox
<1>3. ASSUME NEW r \in Subscribers, NEW i \in DOMAIN Inbox(r)
      PROVE  Behind(Inbox(r)[i], r)'
  <2>1. /\ Inbox(r)[i][1] \in Publishers /\ Inbox(r)[i][2] \in Nat
        /\ Behind(Inbox(r)[i], r)
    BY InboxType DEF Ind, BehindInv
  <2> DEFINE e == Inbox(r)[i]
  <2>2. Inbox(r)'[i] = e
    BY <1>2
  <2> HIDE DEF e
  <2>3. /\ e[1] \in Publishers /\ e[2] \in Nat /\ Behind(e, r)
    BY <2>1 DEF e
  <2>4. /\ e[2] <= count'[e[1]]
        /\ pubPc'[e[1]] = "locking" \/ r \in todo'[e[1]] => e[2] < count'[e[1]]
    <3>1. CASE e[1] = p
      BY <1>1, <2>3, <3>1 DEF Behind
    <3>2. CASE e[1] # p
      BY <1>1, <2>3, <3>2 DEF Behind
    <3> QED
      BY <3>1, <3>2
  <2> QED
    BY <2>2, <2>4 DEF Behind
<1> QED
  BY <1>2, <1>3 DEF BehindInv, PublisherOrder

LEMMA StartRangeOrder ==
    ASSUME Ind, BehindInv, PublisherOrder, NEW p \in Publishers, StartRange(p)
    PROVE  BehindInv' /\ PublisherOrder'
<1>1. /\ pubPc[p] = "locking"
      /\ pubPc' = [pubPc EXCEPT ![p] = "sending"]
      /\ pubPc \in [Publishers -> {"idle", "locking", "sending"}]
      /\ todo \in [Publishers -> SUBSET Subscribers]
      /\ todo' = [todo EXCEPT ![p] = ChannelsOf(TopicOf(p))]
      /\ UNCHANGED <<chan, received, count>>
  BY DEF Ind, TypeOK, StartRange
<1>2. \A r \in Subscribers : Inbox(r)' = Inbox(r)
  BY <1>1 DEF Inbox
<1>3. ASSUME NEW r \in Subscribers, NEW i \in DOMAIN Inbox(r)
      PROVE  Behind(Inbox(r)[i], r)'
  <2>1. Inbox(r)[i][1] \in Publishers /\ Behind(Inbox(r)[i], r)
    BY InboxType DEF Ind, BehindInv
  <2> QED
    BY <1>1, <1>2, <2>1 DEF Behind
<1> QED
  BY <1>2, <1>3 DEF BehindInv, PublisherOrder

LEMMA EndPublishOrder ==
    ASSUME Ind, BehindInv, PublisherOrder, NEW p \in Publishers, EndPublish(p)
    PROVE  BehindInv' /\ PublisherOrder'
<1>1. /\ pubPc' = [pubPc EXCEPT ![p] = "idle"]
      /\ pubPc \in [Publishers -> {"idle", "locking", "sending"}]
      /\ UNCHANGED <<chan, received, count, todo>>
  BY DEF Ind, TypeOK, EndPublish
<1>2. \A r \in Subscribers : Inbox(r)' = Inbox(r)
  BY <1>1 DEF Inbox
<1>3. ASSUME NEW r \in Subscribers, NEW i \in DOMAIN Inbox(r)
      PROVE  Behind(Inbox(r)[i], r)'
  <2>1. Inbox(r)[i][1] \in Publishers /\ Behind(Inbox(r)[i], r)
    BY InboxType DEF Ind, BehindInv
  <2> QED
    BY <1>1, <1>2, <2>1 DEF Behind
<1> QED
  BY <1>2, <1>3 DEF BehindInv, PublisherOrder

LEMMA SendOrder ==
    ASSUME Ind, BehindInv, PublisherOrder, NEW p \in Publishers, Send(p)
    PROVE  BehindInv' /\ PublisherOrder'
<1> DEFINE e == <<p, count[p]>>
<1>1. PICK s \in todo[p] : Offer(s, e) /\ todo' = [todo EXCEPT ![p] = @ \ {s}]
  BY DEF Send
<1>2. /\ s \in Subscribers /\ s \notin closed /\ e \in Events
      /\ e[1] = p /\ e[2] = count[p]
  BY <1>1, CallUnderWay DEF Ind, RangeInv, Connected, ClosedInv, Send
<1> HIDE DEF e
<1>3. /\ pubPc[p] = "sending" /\ UNCHANGED <<received, count, pubPc>>
      /\ todo \in [Publishers -> SUBSET Subscribers]
      /\ chan \in [Subscribers -> Seq(Events)]
      /\ count \in [Publishers -> Nat]
  BY DEF Ind, TypeOK, Send
<1>4. ASSUME NEW r \in Subscribers, NEW i \in DOMAIN Inbox(r)
      PROVE  /\ Behind(Inbox(r)[i], r)
             /\ /\ Inbox(r)[i][2] <= count'[Inbox(r)[i][1]]
                /\ \/ pubPc'[Inbox(r)[i][1]] = "locking"
                   \/ r \in todo'[Inbox(r)[i][1]]
                   => Inbox(r)[i][2] < count'[Inbox(r)[i][1]]
  <2>1. Inbox(r)[i][1] \in Publishers /\ Behind(Inbox(r)[i], r)
    BY InboxType DEF Ind, BehindInv
  <2> QED
    BY <1>1, <1>3, <2>1 DEF Behind
<1>5. CASE chan' = chan
  <2>1. \A r \in Subscribers : Inbox(r)' = Inbox(r)
    BY <1>3, <1>5 DEF Inbox
  <2> QED
    BY <1>4, <2>1 DEF BehindInv, Behind, PublisherOrder
<1>6. CASE chan' = [chan EXCEPT ![s] = Append(@, e)]
  <2>1. \A r \in Subscribers \ {s} : Inbox(r)' = Inbox(r)
    BY <1>3, <1>6 DEF Inbox
  <2> DEFINE n == Len(Inbox(s))
  <2>2. /\ DOMAIN Inbox(s)' = 1..(n + 1) /\ n \in Nat /\ DOMAIN Inbox(s) = 1..n
        /\ Inbox(s)'[n + 1] = e
        /\ \A i \in 1..n : Inbox(s)'[i] = Inbox(s)[i]
    <3>1. /\ received[s] \in Seq(Events) /\ chan[s] \in Seq(Events)
          /\ Inbox(s) = received[s] \o chan[s]
          /\ Inbox(s)' = received[s] \o Append(chan[s], e)
      BY <1>2, <1>3, <1>6 DEF Ind, TypeOK, Inbox
    <3>2. /\ DOMAIN (received[s] \o Append(chan[s], e)) = 1..(n + 1)
          /\ (received[s] \o Append(chan[s], e))[n + 1] = e
          /\ \A i \in 1..n : (received[s] \o Append(chan[s], e))[i] = Inbox(s)[i]
      <4> DEFINE a == received[s]
                 b == chan[s]
      <4>1. a \in Seq(Events) /\ b \in Seq(Events) /\ e \in Events
        BY <1>2, <3>1
      <4> HIDE DEF a, b
      <4>2. /\ DOMAIN (a \o Append(b, e)) = 1..(Len(a \o b) + 1)
            /\ (a \o Append(b, e))[Len(a \o b) + 1] = e
            /\ \A i \in 1..Len(a \o b) : (a \o Append(b, e))[i] = (a \o b)[i]
        BY <4>1, InboxGrows
      <4>3. Inbox(s) = a \o b
        BY <3>1 DEF a, b
      <4> QED
        <5> DEFINE q == received[s] \o Append(chan[s], e)
        <5>1. /\ DOMAIN q = 1..(n + 1) /\ q[n + 1] = e
              /\ \A i \in 1..n : q[i] = (a \o b)[i]
          BY <4>2, <4>3 DEF a, b
        <5> HIDE DEF q
        <5>2. \A i \in 1..n : q[i] = Inbox(s)[i]
          BY <4>3, <5>1
        <5> QED
          BY <5>1, <5>2 DEF q
    <3>3. n \in Nat /\ DOMAIN Inbox(s) = 1..n
      BY <1>2, InboxType DEF Ind
    <3> QED
      BY <3>1, <3>2, <3>3
  <2> HIDE DEF n
  <2>3. \A i \in 1..n : Inbox(s)[i][1] = p => Inbox(s)[i][2] < count[p]
    BY <1>1, <1>2, <1>4, <2>2 DEF Behind
  <2>4. BehindInv'
    <3>1. e[2] <= count'[p] /\ pubPc'[p] # "locking" /\ s \notin todo'[p]
      BY <1>1, <1>2, <1>3
    <3>2. \A i \in DOMAIN Inbox(s)' : Behind(Inbox(s)[i], s)'
      <4> SUFFICES ASSUME NEW i \in 1..(n + 1)
                   PROVE  /\ Inbox(s)'[i][2] <= count'[Inbox(s)'[i][1]]
                          /\ \/ pubPc'[Inbox(s)'[i][1]] = "locking"
                             \/ s \in todo'[Inbox(s)'[i][1]]
                             => Inbox(s)'[i][2] < count'[Inbox(s)'[i][1]]
        BY <2>2 DEF Behind
      <4>1. CASE i = n + 1
        BY <4>1, <1>2, <3>1, <2>2
      <4>2. CASE i \in 1..n
        BY <4>2, <1>2, <1>4, <2>2
      <4> QED
        BY <4>1, <4>2, <2>2
    <3>3. \A r \in Subscribers \ {s} : \A i \in DOMAIN Inbox(r)' :
             Behind(Inbox(r)[i], r)'
      BY <1>4, <2>1 DEF Behind
    <3> QED
      BY <3>2, <3>3 DEF BehindInv
  <2>5. PublisherOrder'
    <3> SUFFICES ASSUME NEW r \in Subscribers,
                        NEW i \in DOMAIN Inbox(r)', NEW j \in DOMAIN Inbox(r)',
                        i < j, Inbox(r)'[i][1] = Inbox(r)'[j][1]
                 PROVE  Inbox(r)'[i][2] < Inbox(r)'[j][2]
      BY DEF PublisherOrder
    <3>1. CASE r # s
      BY <3>1, <2>1 DEF PublisherOrder
    <3>2. CASE r = s /\ j \in 1..n
      <4>1. i \in 1..n
        BY <3>2, <2>2
      <4> QED
        BY <3>2, <4>1, <1>2, <2>2 DEF PublisherOrder
    <3>3. CASE r = s /\ j = n + 1
      <4>1. i \in 1..n
        BY <3>3, <2>2
      <4> QED
        BY <3>3, <4>1, <1>2, <2>2, <2>3
    <3> QED
      BY <3>1, <3>2, <3>3, <2>2
  <2> QED
    BY <2>4, <2>5
<1>7. chan' = chan \/ chan' = [chan EXCEPT ![s] = Append(@, e)]
  BY <1>1, <1>2 DEF Offer
<1> QED
  BY <1>5, <1>6, <1>7

(***************************************************************************)
(* Whatever is dropped and however the publishers interleave, a subscriber *)
(* sees one publisher's events in the order of its calls, none twice       *)
(* (hub.go:58-68).                                                         *)
(***************************************************************************)
THEOREM OnePublishersEventsInOrder == Spec => []PublisherOrder
<1>1. Init => BehindInv /\ PublisherOrder
  <2>1. ASSUME Init, NEW s \in Subscribers PROVE DOMAIN Inbox(s) = {}
    BY <2>1 DEF Init, Inbox
  <2> QED
    BY <2>1 DEF BehindInv, PublisherOrder
<1>2. Ind /\ BehindInv /\ PublisherOrder /\ [Next]_vars => BehindInv' /\ PublisherOrder'
  <2> SUFFICES ASSUME Ind, BehindInv, PublisherOrder, [Next]_vars
               PROVE  BehindInv' /\ PublisherOrder'
    OBVIOUS
  <2>1. CASE UNCHANGED vars
    BY <2>1, OrderUntouched DEF vars
  <2> QED
    BY <2>1, SubscriberOrder, PublishOrder, StartRangeOrder, SendOrder,
       EndPublishOrder DEF Next, PublisherStep
<1> QED
  BY <1>1, <1>2, IndAlways, PTL DEF Spec
=============================================================================
