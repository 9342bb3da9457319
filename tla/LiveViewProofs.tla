--------------------------- MODULE LiveViewProofs ---------------------------
(***************************************************************************)
(* What holds of the live page for any number of requests, any regions and *)
(* queries, any capacities and any number of faults.  StaleOnlyIfMissed    *)
(* names every place a refresh can be.  It is preserved because a handler  *)
(* publishes after its last write, a full channel holds an event already,  *)
(* and a trigger is kept while a request is under way.  Two facts are      *)
(* needed beside it: a region with no request has read nothing (IdleInv),  *)
(* and no read is older than what the region shows (OrderInv), without     *)
(* which an answer could take a current region back.                       *)
(***************************************************************************)
EXTENDS LiveView, TLAPS

Assumptions == /\ Queries \in [Regions -> Seq(Parts)]
               /\ BufCap \in Nat \ {0} /\ WireCap \in Nat \ {0}
               /\ MaxFaults \in Nat

LEMMA AssumptionsHold == Assumptions
  BY RegionsAssumption, CapacityAssumption, MaxFaultsAssumption DEF Assumptions

IdleInv == \A r \in Regions \ asking : answer[r] = << >>

\* What is read is at least as new as what is shown, and not from the future.
Ordered(r, k) ==
    LET now == db[Queries[r][k]] IN
    /\ shown[r] # Blank => shown[r][k] <= now
    /\ k <= Len(answer[r]) => /\ answer[r][k] <= now
                              /\ shown[r] # Blank => shown[r][k] <= answer[r][k]

OrderInv == \A r \in Regions : \A k \in DOMAIN Queries[r] : Ordered(r, k)

Ind == TypeOK /\ IdleInv /\ OrderInv /\ StaleOnlyIfMissed

-----------------------------------------------------------------------------
(* Types *)

LEMMA EndRequestTypes ==
    ASSUME TypeOK, NEW r \in Regions, r \in asking, EndRequest(r)
    PROVE  /\ answer' \in [Regions -> Seq(Nat)]
           /\ \A q \in Regions : Len(answer'[q]) <= Len(Queries[q])
           /\ asking' \subseteq Regions
           /\ queued' \subseteq asking'
  <1>1. << >> \in Seq(Nat) /\ Len(<< >>) = 0
    OBVIOUS
  <1>2. \A q \in Regions : Len(Queries[q]) \in Nat
    BY AssumptionsHold DEF Assumptions
  <1>3. answer' \in [Regions -> Seq(Nat)]
    BY <1>1 DEF TypeOK, EndRequest
  <1>4. \A q \in Regions : Len(answer'[q]) <= Len(Queries[q])
    BY <1>1, <1>2 DEF TypeOK, EndRequest
  <1> QED
    BY <1>3, <1>4 DEF TypeOK, EndRequest

LEMMA HandlerTypes ==
    ASSUME TypeOK, NEW h \in Handlers, HandlerStep(h)
    PROVE  TypeOK'
  <1>1. CASE Commit(h)
    BY <1>1 DEF TypeOK, Commit, Move, Bump, Parts, linkVars, pageVars, Underway
  <1>2. CASE AttachReceipt(h)
    BY <1>2 DEF TypeOK, AttachReceipt, Move, Bump, Parts, linkVars, pageVars, Underway
  <1>3. CASE LogActivity(h)
    <2>1. db' \in [Parts -> Nat]
      BY <1>3 DEF TypeOK, LogActivity, Bump, Parts
    <2>2. faults' \in 0..MaxFaults
      BY <1>3, AssumptionsHold DEF TypeOK, LogActivity, Fault, Assumptions
    <2>3. pc' \in [Handlers -> {"idle", "committed", "attached", "logged", "done"}]
      BY <1>3 DEF TypeOK, LogActivity, Move
    <2> QED
      BY <1>3, <2>1, <2>2, <2>3 DEF TypeOK, LogActivity, linkVars, pageVars, Underway
  <1>4. CASE Publish(h)
    <2>1. buf' \in 0..BufCap /\ (up \/ buf' = buf)
      BY <1>4, AssumptionsHold DEF TypeOK, Publish, Offered, Assumptions
    <2> QED
      BY <1>4, <2>1 DEF TypeOK, Publish, Move, pageVars, Underway
  <1> QED
    BY <1>1, <1>2, <1>3, <1>4 DEF HandlerStep

LEMMA StreamTypes ==
    ASSUME TypeOK, StreamStep \/ ReceiveDatagram
    PROVE  TypeOK'
  <1>1. CASE Connect
    BY <1>1 DEF TypeOK, Connect, serverVars, pageVars, Underway
  <1>2. CASE Forward
    <2>1. buf' \in 0..BufCap /\ wire' \in 0..WireCap
      BY <1>2, AssumptionsHold DEF TypeOK, Forward, Assumptions
    <2>2. up'
      BY <1>2 DEF TypeOK, Forward, Underway
    <2> QED
      BY <1>2, <2>1, <2>2 DEF TypeOK, Forward, serverVars, pageVars
  <1>3. CASE Disconnect
    <2>1. buf' \in 0..BufCap /\ wire' \in 0..WireCap /\ ~Underway'
      BY <1>3, AssumptionsHold DEF Disconnect, Assumptions, Underway
    <2>2. faults' \in 0..MaxFaults
      BY <1>3, AssumptionsHold DEF TypeOK, Disconnect, Fault, Assumptions
    <2> QED
      BY <1>3, <2>1, <2>2 DEF TypeOK, Disconnect, serverVars, pageVars
  <1>4. CASE Receive
    <2>1. wire' \in 0..WireCap /\ up'
      BY <1>4, AssumptionsHold DEF TypeOK, Receive, Assumptions, Underway
    <2> QED
      BY <1>4, <2>1 DEF TypeOK, Receive, Refresh, serverVars
  <1>5. CASE ReceiveDatagram
    BY <1>5 DEF TypeOK, ReceiveDatagram, Refresh, serverVars, linkVars, Underway
  <1> QED
    BY <1>1, <1>2, <1>3, <1>4, <1>5 DEF StreamStep

LEMMA RegionTypes ==
    ASSUME TypeOK, NEW r \in Regions, RegionStep(r)
    PROVE  TypeOK'
  <1>1. CASE Read(r)
    <2> DEFINE part == Queries[r][Len(answer[r]) + 1]
    <2>1. part \in Parts
      <3>1. Queries[r] \in Seq(Parts) /\ answer[r] \in Seq(Nat)
        BY AssumptionsHold DEF TypeOK, Assumptions
      <3>2. Len(answer[r]) + 1 \in 1..Len(Queries[r])
        BY <1>1, <3>1 DEF Read
      <3> QED
        BY <3>1, <3>2
    <2>2. db[part] \in Nat
      BY <2>1 DEF TypeOK
    <2>3. answer' = [answer EXCEPT ![r] = Append(answer[r], db[part])]
      BY <1>1 DEF Read
    <2>4. answer' \in [Regions -> Seq(Nat)]
      BY <2>2, <2>3 DEF TypeOK
    <2>5. Len(Append(answer[r], db[part])) = Len(answer[r]) + 1
      BY <2>2 DEF TypeOK
    <2>6. Len(answer[r]) \in Nat /\ Len(Queries[r]) \in Nat
      BY AssumptionsHold DEF TypeOK, Assumptions
    <2>7. \A q \in Regions : Len(answer'[q]) <= Len(Queries[q])
      BY <1>1, <2>3, <2>5, <2>6 DEF TypeOK, Read
    <2> QED
      BY <1>1, <2>4, <2>7 DEF TypeOK, Read, serverVars, linkVars, Underway
  <1>2. CASE Swap(r)
    <2>1. /\ answer' \in [Regions -> Seq(Nat)]
          /\ \A q \in Regions : Len(answer'[q]) <= Len(Queries[q])
          /\ asking' \subseteq Regions
          /\ queued' \subseteq asking'
      BY <1>2, EndRequestTypes DEF Swap
    <2>2. shown' \in [Regions -> Seq(Nat)]
      BY <1>2 DEF TypeOK, Swap
    <2>3. \A q \in Regions : shown'[q] = Blank \/ Len(shown'[q]) = Len(Queries[q])
      BY <1>2 DEF TypeOK, Swap
    <2> QED
      BY <1>2, <2>1, <2>2, <2>3 DEF TypeOK, Swap, serverVars, linkVars, Underway
  <1>3. CASE FetchFails(r)
    <2>1. /\ answer' \in [Regions -> Seq(Nat)]
          /\ \A q \in Regions : Len(answer'[q]) <= Len(Queries[q])
          /\ asking' \subseteq Regions
          /\ queued' \subseteq asking'
      BY <1>3, EndRequestTypes DEF FetchFails
    <2>2. faults' \in 0..MaxFaults
      BY <1>3, AssumptionsHold DEF TypeOK, FetchFails, Fault, Assumptions
    <2> QED
      BY <1>3, <2>1, <2>2 DEF TypeOK, FetchFails, serverVars, linkVars, Underway
  <1> QED
    BY <1>1, <1>2, <1>3 DEF RegionStep

LEMMA FaultTypes ==
    ASSUME TypeOK, Reload \/ Crash
    PROVE  TypeOK'
  <1>1. << >> \in Seq(Nat) /\ Len(<< >>) = 0
    OBVIOUS
  <1>2. \A q \in Regions : Len(Queries[q]) \in Nat
    BY AssumptionsHold DEF Assumptions
  <1>3. faults' \in 0..MaxFaults
    BY AssumptionsHold DEF TypeOK, Reload, Crash, Fault, Assumptions
  <1>4. /\ buf' = 0 /\ wire' = 0 /\ up' = FALSE
        /\ answer' = [q \in Regions |-> << >>]
        /\ queued' = {}
    BY DEF Reload, Crash
  <1>5. buf' \in 0..BufCap /\ wire' \in 0..WireCap /\ ~Underway'
    BY <1>4, AssumptionsHold DEF Assumptions, Underway
  <1>6. /\ answer' \in [Regions -> Seq(Nat)]
        /\ \A q \in Regions : Len(answer'[q]) <= Len(Queries[q])
    BY <1>1, <1>2, <1>4
  <1>7. CASE Reload
    <2>1. shown' = [q \in Regions |-> << >>]
      BY <1>7 DEF Reload, Blank
    <2>2. shown' \in [Regions -> Seq(Nat)] /\ \A q \in Regions : shown'[q] = Blank
      BY <1>1, <2>1 DEF Blank
    <2> QED
      BY <1>3, <1>4, <1>5, <1>6, <1>7, <2>2 DEF TypeOK, Reload, serverVars
  <1>8. CASE Crash
    <2>1. pc' \in [Handlers -> {"idle", "committed", "attached", "logged", "done"}]
      BY <1>8 DEF TypeOK, Crash
    <2>2. missed' \subseteq Regions
      BY <1>8 DEF TypeOK, Crash
    <2> QED
      BY <1>3, <1>4, <1>5, <1>6, <1>8, <2>1, <2>2 DEF TypeOK, Crash
  <1> QED
    BY <1>7, <1>8

LEMMA TypeStep ==
    ASSUME TypeOK, [Next]_vars
    PROVE  TypeOK'
  <1>1. CASE UNCHANGED vars
    BY <1>1 DEF TypeOK, vars, Underway
  <1>2. CASE Next
    BY <1>2, HandlerTypes, StreamTypes, RegionTypes, FaultTypes DEF Next
  <1> QED
    BY <1>1, <1>2

-----------------------------------------------------------------------------
(* The auxiliary invariants *)

LEMMA IdleStep ==
    ASSUME TypeOK, IdleInv, [Next]_vars
    PROVE  IdleInv'
  <1>1. CASE UNCHANGED <<asking, answer>>
    BY <1>1 DEF IdleInv
  <1>2. CASE Receive \/ ReceiveDatagram
    BY <1>2 DEF Receive, ReceiveDatagram, Refresh, IdleInv
  <1>3. ASSUME NEW r \in Regions, Read(r)
        PROVE  IdleInv'
    BY <1>3 DEF Read, IdleInv, TypeOK
  <1>4. ASSUME NEW r \in Regions, r \in asking, EndRequest(r)
        PROVE  IdleInv'
    BY <1>4 DEF EndRequest, IdleInv, TypeOK
  <1>5. CASE Reload \/ Crash
    BY <1>5 DEF Reload, Crash, IdleInv
  <1> QED
    BY <1>1, <1>2, <1>3, <1>4, <1>5
    DEF Next, HandlerStep, StreamStep, RegionStep, Commit, AttachReceipt, LogActivity,
        Publish, Connect, Forward, Disconnect, Swap, FetchFails, vars, pageVars

\* Writes make versions grow.
LEMMA VersionsGrow ==
    ASSUME TypeOK, [Next]_vars
    PROVE  \A p \in Parts : db[p] \in Nat /\ db'[p] \in Nat /\ db[p] <= db'[p]
  <1>1. CASE UNCHANGED db
    BY <1>1 DEF TypeOK
  <1>2. ASSUME NEW p \in Parts, Bump(p)
        PROVE  \A q \in Parts : db[q] \in Nat /\ db'[q] \in Nat /\ db[q] <= db'[q]
    BY <1>2 DEF TypeOK, Bump
  <1>3. "ledger" \in Parts /\ "log" \in Parts
    BY DEF Parts
  <1> QED
    BY <1>1, <1>2, <1>3
    DEF Next, HandlerStep, StreamStep, RegionStep, Commit, AttachReceipt, LogActivity,
        Publish, Connect, Forward, Disconnect, Receive, ReceiveDatagram, Read, Swap,
        FetchFails, Reload, Crash, vars, serverVars

\* The versions a region has to do with, and where they are.
LEMMA QueryTypes ==
    ASSUME TypeOK, NEW r \in Regions, NEW k \in DOMAIN Queries[r]
    PROVE  /\ Queries[r][k] \in Parts
           /\ k \in Nat /\ 1 <= k /\ k <= Len(Queries[r]) /\ Len(Queries[r]) \in Nat
           /\ answer[r] \in Seq(Nat) /\ shown[r] \in Seq(Nat)
           /\ Len(answer[r]) \in Nat
           /\ k <= Len(answer[r]) => answer[r][k] \in Nat
           /\ shown[r] # Blank => Len(shown[r]) = Len(Queries[r]) /\ shown[r][k] \in Nat
           /\ db[Queries[r][k]] \in Nat
  <1>1. Queries[r] \in Seq(Parts) /\ answer[r] \in Seq(Nat) /\ shown[r] \in Seq(Nat)
    BY AssumptionsHold DEF TypeOK, Assumptions
  <1>2. k \in 1..Len(Queries[r]) /\ Len(Queries[r]) \in Nat
    BY <1>1
  <1>3. Queries[r][k] \in Parts
    BY <1>1, <1>2
  <1>4. db[Queries[r][k]] \in Nat
    BY <1>3 DEF TypeOK
  <1>5. k <= Len(answer[r]) => answer[r][k] \in Nat
    BY <1>1, <1>2
  <1>6. shown[r] # Blank => Len(shown[r]) = Len(Queries[r])
    BY DEF TypeOK
  <1>7. shown[r] # Blank => shown[r][k] \in Nat
    BY <1>1, <1>2, <1>6
  <1> QED
    BY <1>1, <1>2, <1>3, <1>4, <1>5, <1>6, <1>7

LEMMA OrderStep ==
    ASSUME TypeOK, OrderInv, [Next]_vars
    PROVE  OrderInv'
  <1> SUFFICES ASSUME NEW r \in Regions, NEW k \in DOMAIN Queries[r]
               PROVE  Ordered(r, k)'
    BY DEF OrderInv
  <1> DEFINE part == Queries[r][k]
  <1>1. Ordered(r, k)
    BY DEF OrderInv
  <1>2. /\ part \in Parts
        /\ k \in Nat /\ 1 <= k /\ k <= Len(Queries[r]) /\ Len(Queries[r]) \in Nat
        /\ answer[r] \in Seq(Nat) /\ shown[r] \in Seq(Nat)
        /\ Len(answer[r]) \in Nat
        /\ k <= Len(answer[r]) => answer[r][k] \in Nat
        /\ shown[r] # Blank => Len(shown[r]) = Len(Queries[r]) /\ shown[r][k] \in Nat
    BY QueryTypes
  <1>3. db[part] \in Nat /\ db'[part] \in Nat /\ db[part] <= db'[part]
    BY <1>2, VersionsGrow
  <1> HIDE DEF part
  <1>4. CASE shown'[r] = shown[r] /\ answer'[r] = answer[r]
    BY <1>1, <1>2, <1>3, <1>4, SMTT(30) DEF Ordered, part
  <1>5. CASE shown'[r] = shown[r] /\ answer'[r] = << >>
    BY <1>1, <1>2, <1>3, <1>5 DEF Ordered, part
  <1>6. CASE shown'[r] = Blank /\ answer'[r] = << >>
    BY <1>2, <1>6 DEF Ordered, part
  <1>7. ASSUME Len(answer[r]) < Len(Queries[r]), UNCHANGED <<db, shown>>,
               answer'[r] = Append(answer[r], db[Queries[r][Len(answer[r]) + 1]])
        PROVE  Ordered(r, k)'
    <2>1. CASE k <= Len(answer[r])
      <3>1. answer'[r][k] = answer[r][k]
        BY <1>2, <1>7, <2>1
      <3> QED
        BY <1>1, <1>7, <2>1, <3>1 DEF Ordered
    <2>2. CASE k = Len(answer[r]) + 1
      <3>1. answer'[r][k] = db[part]
        BY <1>2, <1>7, <2>2 DEF part
      <3> QED
        BY <1>1, <1>3, <1>7, <3>1 DEF Ordered, part
    <2>3. CASE k > Len(answer[r]) + 1
      <3>1. Len(answer'[r]) = Len(answer[r]) + 1
        BY <1>2, <1>7
      <3>2. ~(k <= Len(answer'[r]))
        BY <1>2, <2>3, <3>1
      <3> QED
        BY <1>1, <1>7, <3>2 DEF Ordered
    <2> QED
      BY <1>2, <2>1, <2>2, <2>3
  <1>8. ASSUME Len(answer[r]) = Len(Queries[r]), UNCHANGED db,
               shown'[r] = answer[r], answer'[r] = << >>
        PROVE  Ordered(r, k)'
    <2>1. answer[r][k] <= db[part]
      BY <1>1, <1>2, <1>8 DEF Ordered, part
    <2>2. Len(answer'[r]) = 0
      BY <1>8
    <2>3. ~(k <= Len(answer'[r]))
      BY <1>2, <2>2
    <2> QED
      BY <1>8, <2>1, <2>3 DEF Ordered, part
  <1>9. ASSUME NEW q \in Regions, Read(q)
        PROVE  Ordered(r, k)'
    <2>1. CASE q = r
      BY <1>7, <1>9, <2>1 DEF Read, TypeOK, serverVars
    <2>2. CASE q # r
      BY <1>4, <1>9, <2>2 DEF Read, TypeOK
    <2> QED
      BY <2>1, <2>2
  <1>10. ASSUME NEW q \in Regions, Swap(q)
         PROVE  Ordered(r, k)'
    <2>1. CASE q = r
      BY <1>8, <1>10, <2>1 DEF Swap, EndRequest, TypeOK, serverVars
    <2>2. CASE q # r
      BY <1>4, <1>10, <2>2 DEF Swap, EndRequest, TypeOK
    <2> QED
      BY <2>1, <2>2
  <1>11. ASSUME NEW q \in Regions, FetchFails(q)
         PROVE  Ordered(r, k)'
    <2>1. CASE q = r
      BY <1>5, <1>11, <2>1 DEF FetchFails, EndRequest, TypeOK
    <2>2. CASE q # r
      BY <1>4, <1>11, <2>2 DEF FetchFails, EndRequest, TypeOK
    <2> QED
      BY <2>1, <2>2
  <1>12. CASE Reload
    BY <1>6, <1>12 DEF Reload
  <1>13. CASE Crash
    BY <1>5, <1>13 DEF Crash
  <1> QED
    BY <1>4, <1>9, <1>10, <1>11, <1>12, <1>13
    DEF Next, HandlerStep, StreamStep, RegionStep, Commit, AttachReceipt, LogActivity,
        Publish, Connect, Forward, Disconnect, Receive, ReceiveDatagram, Refresh,
        vars, pageVars

-----------------------------------------------------------------------------
(* The main invariant *)

\* What StaleOnlyIfMissed says of one query of one region.
Accounted(r, k) ==
    \/ Current(r, k)
    \/ WillShow(r, k)
    \/ Underway
    \/ Untold # {}
    \/ r \in missed

LEMMA HandlerAccounts ==
    ASSUME TypeOK, NEW h \in Handlers, HandlerStep(h),
           NEW r \in Regions, NEW k \in DOMAIN Queries[r]
    PROVE  Accounted(r, k)'
  <1>1. CASE Commit(h) \/ AttachReceipt(h) \/ LogActivity(h)
    <2>1. pc'[h] \in {"committed", "attached", "logged"}
      BY <1>1 DEF Commit, AttachReceipt, LogActivity, Move, TypeOK
    <2> QED
      BY <2>1 DEF Accounted, Untold
  <1>2. CASE Publish(h)
    <2>1. CASE up
      <3>1. buf' > 0
        BY <1>2, <2>1, AssumptionsHold DEF Publish, Offered, TypeOK, Assumptions
      <3> QED
        BY <3>1 DEF Accounted, Underway
    <2>2. CASE ~up
      BY <1>2, <2>2 DEF Publish, Accounted
    <2> QED
      BY <2>1, <2>2
  <1> QED
    BY <1>1, <1>2 DEF HandlerStep

LEMMA StreamAccounts ==
    ASSUME TypeOK, IdleInv, StreamStep \/ ReceiveDatagram,
           NEW r \in Regions, NEW k \in DOMAIN Queries[r], Accounted(r, k)
    PROVE  Accounted(r, k)'
  <1>1. CASE Connect
    BY <1>1 DEF Connect, Accounted, Current, WillShow, Underway, Untold, serverVars, pageVars
  <1>2. CASE Forward
    <2>1. wire' > 0
      BY <1>2 DEF Forward, TypeOK
    <2> QED
      BY <2>1 DEF Accounted, Underway
  <1>3. CASE Disconnect
    <2>1. CASE Underway
      BY <1>3, <2>1 DEF Disconnect, Accounted
    <2>2. CASE ~Underway
      BY <1>3, <2>2 DEF Disconnect, Accounted, Current, WillShow, Untold, serverVars, pageVars
    <2> QED
      BY <2>1, <2>2
  <1>4. CASE Receive \/ ReceiveDatagram
    <2>1. r \in asking' /\ (r \in asking => r \in queued')
      BY <1>4 DEF Receive, ReceiveDatagram, Refresh
    <2>2. r \notin asking => answer'[r] = << >>
      BY <1>4 DEF Receive, ReceiveDatagram, Refresh, IdleInv
    <2>3. k \in Nat /\ 1 <= k
      BY QueryTypes
    <2>4. r \notin asking => Len(answer'[r]) < k
      BY <2>2, <2>3
    <2> QED
      BY <2>1, <2>4 DEF Accounted, WillShow
  <1> QED
    BY <1>1, <1>2, <1>3, <1>4 DEF StreamStep

LEMMA ReadAccounts ==
    ASSUME TypeOK, NEW q \in Regions, Read(q),
           NEW r \in Regions, NEW k \in DOMAIN Queries[r], Accounted(r, k)
    PROVE  Accounted(r, k)'
  <1>1. /\ UNCHANGED <<db, shown, asking, queued, missed>>
        /\ Underway' = Underway /\ Untold' = Untold
    BY DEF Read, serverVars, linkVars, Underway, Untold
  <1>2. CASE ~WillShow(r, k) \/ q # r
    BY <1>1, <1>2 DEF Read, Accounted, Current, WillShow, TypeOK
  <1>3. CASE WillShow(r, k) /\ q = r
    <2>1. /\ k \in Nat /\ 1 <= k
          /\ answer[r] \in Seq(Nat) /\ Len(answer[r]) \in Nat
      BY QueryTypes
    <2>2. /\ r \in asking
          /\ answer'[r] = Append(answer[r], db[Queries[r][Len(answer[r]) + 1]])
      BY <1>3 DEF Read, TypeOK
    <2>3. CASE r \in queued
      BY <1>1, <2>3 DEF Accounted, WillShow
    <2>4. CASE k <= Len(answer[r]) /\ answer[r][k] = db[Queries[r][k]]
      <3>1. answer'[r][k] = answer[r][k]
        BY <2>1, <2>2, <2>4
      <3> QED
        BY <1>1, <2>2, <2>4, <3>1 DEF Accounted, WillShow
    <2>5. CASE k = Len(answer[r]) + 1
      <3>1. answer'[r][k] = db[Queries[r][k]]
        BY <2>1, <2>2, <2>5
      <3> QED
        BY <1>1, <2>2, <3>1 DEF Accounted, WillShow
    <2>6. CASE k > Len(answer[r]) + 1
      <3>1. Len(answer'[r]) = Len(answer[r]) + 1
        BY <2>1, <2>2
      <3>2. Len(answer'[r]) < k
        BY <2>1, <2>6, <3>1
      <3> QED
        BY <1>1, <2>2, <3>2 DEF Accounted, WillShow
    <2> QED
      BY <1>3, <2>1, <2>3, <2>4, <2>5, <2>6 DEF WillShow
  <1> QED
    BY <1>2, <1>3

\* The request of another region ends.
LEMMA OthersUndisturbed ==
    ASSUME TypeOK, NEW q \in Regions, Swap(q) \/ FetchFails(q),
           NEW r \in Regions, r # q, NEW k \in DOMAIN Queries[r], Accounted(r, k)
    PROVE  Accounted(r, k)'
  <1>1. /\ UNCHANGED db /\ shown'[r] = shown[r] /\ answer'[r] = answer[r]
        /\ r \in asking' <=> r \in asking
        /\ r \in queued' <=> r \in queued
        /\ r \in missed => r \in missed'
        /\ Underway' = Underway /\ Untold' = Untold
    BY DEF Swap, FetchFails, EndRequest, TypeOK, serverVars, linkVars, Underway, Untold
  <1> QED
    BY <1>1 DEF Accounted, Current, WillShow

LEMMA SwapAccounts ==
    ASSUME TypeOK, OrderInv, NEW r \in Regions, Swap(r),
           NEW k \in DOMAIN Queries[r], Accounted(r, k)
    PROVE  Accounted(r, k)'
  <1>1. /\ k \in Nat /\ 1 <= k /\ k <= Len(Queries[r])
        /\ Len(answer[r]) = Len(Queries[r])
        /\ Len(answer[r]) \in Nat
        /\ answer[r] \in Seq(Nat)
        /\ answer[r][k] \in Nat /\ db[Queries[r][k]] \in Nat
    BY QueryTypes DEF Swap
  <1>2. /\ UNCHANGED <<db, missed>> /\ shown'[r] = answer[r] /\ answer'[r] = << >>
        /\ Underway' = Underway /\ Untold' = Untold
    BY DEF Swap, EndRequest, TypeOK, serverVars, linkVars, Underway, Untold
  <1>3. CASE r \in queued
    <2>1. r \in asking' /\ Len(answer'[r]) < k
      BY <1>1, <1>2, <1>3 DEF Swap, EndRequest
    <2> QED
      BY <2>1 DEF Accounted, WillShow
  <1>4. CASE answer[r][k] = db[Queries[r][k]]
    <2>1. answer[r] # Blank
      BY <1>1 DEF Blank
    <2> QED
      BY <1>2, <1>4, <2>1 DEF Accounted, Current
  <1>5. CASE Current(r, k)
    <2>1. Ordered(r, k)
      BY DEF OrderInv
    <2>2. answer[r][k] = db[Queries[r][k]]
      BY <1>1, <1>5, <2>1 DEF Ordered, Current
    <2> QED
      BY <1>4, <2>2
  <1>6. CASE Underway \/ Untold # {} \/ r \in missed
    BY <1>2, <1>6 DEF Accounted
  <1>7. WillShow(r, k) => r \in queued \/ answer[r][k] = db[Queries[r][k]]
    BY <1>1 DEF WillShow
  <1> QED
    BY <1>3, <1>4, <1>5, <1>6, <1>7 DEF Accounted

LEMMA FailureAccounts ==
    ASSUME TypeOK, NEW r \in Regions, FetchFails(r), NEW k \in DOMAIN Queries[r]
    PROVE  Accounted(r, k)'
  <1>1. CASE r \in queued
    <2>1. r \in asking' /\ answer'[r] = << >>
      BY <1>1 DEF FetchFails, EndRequest, TypeOK
    <2>2. Len(answer'[r]) < k
      BY <2>1, QueryTypes
    <2> QED
      BY <2>1, <2>2 DEF Accounted, WillShow
  <1>2. CASE r \notin queued
    BY <1>2 DEF FetchFails, Accounted
  <1> QED
    BY <1>1, <1>2

LEMMA CrashAccounts ==
    ASSUME TypeOK, Crash,
           NEW r \in Regions, NEW k \in DOMAIN Queries[r], Accounted(r, k)
    PROVE  Accounted(r, k)'
  <1>1. CASE Untold # {} \/ Underway \/ r \in asking
    BY <1>1 DEF Crash, Accounted
  <1>2. CASE ~(Untold # {} \/ Underway \/ r \in asking)
    <2>1. ~WillShow(r, k)
      BY <1>2 DEF WillShow, TypeOK
    <2> QED
      BY <1>2, <2>1 DEF Crash, Accounted, Current
  <1> QED
    BY <1>1, <1>2

LEMMA StaleStep ==
    ASSUME TypeOK, IdleInv, OrderInv, StaleOnlyIfMissed, [Next]_vars
    PROVE  StaleOnlyIfMissed'
  <1> SUFFICES ASSUME NEW r \in Regions, NEW k \in DOMAIN Queries[r]
               PROVE  Accounted(r, k)'
    BY DEF StaleOnlyIfMissed, Accounted
  <1>1. Accounted(r, k)
    BY DEF StaleOnlyIfMissed, Accounted
  <1>2. CASE UNCHANGED vars
    BY <1>1, <1>2 DEF Accounted, Current, WillShow, Underway, Untold, vars
  <1>3. CASE \E h \in Handlers : HandlerStep(h)
    BY <1>3, HandlerAccounts
  <1>4. CASE StreamStep \/ ReceiveDatagram
    BY <1>1, <1>4, StreamAccounts
  <1>5. ASSUME NEW q \in Regions, RegionStep(q)
        PROVE  Accounted(r, k)'
    <2>1. CASE Read(q)
      BY <1>1, <2>1, ReadAccounts
    <2>2. CASE Swap(q)
      BY <1>1, <2>2, SwapAccounts, OthersUndisturbed
    <2>3. CASE FetchFails(q)
      BY <1>1, <2>3, FailureAccounts, OthersUndisturbed
    <2> QED
      BY <1>5, <2>1, <2>2, <2>3 DEF RegionStep
  <1>6. CASE Reload
    <2>1. r \in asking' /\ answer'[r] = << >>
      BY <1>6 DEF Reload
    <2>2. Len(answer'[r]) < k
      BY <2>1, QueryTypes
    <2> QED
      BY <2>1, <2>2 DEF Accounted, WillShow
  <1>7. CASE Crash
    BY <1>1, <1>7, CrashAccounts
  <1> QED
    BY <1>2, <1>3, <1>4, <1>5, <1>6, <1>7 DEF Next

LEMMA ForwardStep ==
    ASSUME TypeOK, OrderInv, [Next]_vars,
           NEW r \in Regions, NEW k \in DOMAIN Queries[r],
           shown[r] # Blank, shown'[r] # Blank
    PROVE  shown[r][k] <= shown'[r][k]
  <1>1. shown[r][k] \in Nat
    BY QueryTypes
  <1>2. CASE shown'[r] = shown[r]
    BY <1>1, <1>2
  <1>3. CASE Swap(r)
    <2>1. Len(answer[r]) = Len(Queries[r]) /\ shown'[r] = answer[r]
      BY <1>3 DEF Swap, TypeOK
    <2>2. k <= Len(answer[r])
      BY <2>1, QueryTypes
    <2>3. Ordered(r, k)
      BY DEF OrderInv
    <2> QED
      BY <2>1, <2>2, <2>3 DEF Ordered
  <1>4. ASSUME NEW q \in Regions, q # r, Swap(q)
        PROVE  shown'[r] = shown[r]
    BY <1>4 DEF Swap, TypeOK
  <1>5. CASE Reload
    BY <1>5 DEF Reload
  <1> QED
    BY <1>2, <1>3, <1>4, <1>5
    DEF Next, HandlerStep, StreamStep, RegionStep, Commit, AttachReceipt, LogActivity,
        Publish, Connect, Forward, Disconnect, Receive, ReceiveDatagram, Refresh, Read,
        FetchFails, Crash, vars, pageVars

-----------------------------------------------------------------------------
(* Theorems *)

LEMMA InitInd == Init => Ind
  <1> SUFFICES ASSUME Init PROVE Ind
    OBVIOUS
  <1>1. << >> \in Seq(Nat) /\ Len(<< >>) = 0
    OBVIOUS
  <1>2. \A r \in Regions : Len(Queries[r]) \in Nat
    BY AssumptionsHold DEF Assumptions
  <1>3. TypeOK
    <2>1. buf \in 0..BufCap /\ wire \in 0..WireCap /\ ~Underway /\ faults \in 0..MaxFaults
      BY AssumptionsHold DEF Init, Assumptions, Underway
    <2>2. shown \in [Regions -> Seq(Nat)] /\ answer \in [Regions -> Seq(Nat)]
      BY <1>1 DEF Init, Blank
    <2>3. \A r \in Regions : /\ Len(answer[r]) <= Len(Queries[r])
                              /\ shown[r] = Blank
      BY <1>1, <1>2 DEF Init, Blank
    <2> QED
      BY <2>1, <2>2, <2>3 DEF Init, TypeOK
  <1>4. IdleInv
    BY DEF Init, IdleInv
  <1>5. \A r \in Regions : \A k \in DOMAIN Queries[r] :
            /\ shown[r] = Blank /\ r \in asking
            /\ Len(answer[r]) < k /\ ~(k <= Len(answer[r]))
    <2> SUFFICES ASSUME NEW r \in Regions, NEW k \in DOMAIN Queries[r]
                 PROVE  /\ shown[r] = Blank /\ r \in asking
                        /\ Len(answer[r]) < k /\ ~(k <= Len(answer[r]))
      OBVIOUS
    <2>1. k \in Nat /\ 1 <= k
      BY <1>3, QueryTypes
    <2>2. Len(answer[r]) = 0
      BY <1>1 DEF Init
    <2> QED
      BY <2>1, <2>2 DEF Init
  <1>6. OrderInv
    BY <1>5 DEF OrderInv, Ordered
  <1>7. StaleOnlyIfMissed
    BY <1>5 DEF StaleOnlyIfMissed, WillShow
  <1> QED
    BY <1>3, <1>4, <1>6, <1>7 DEF Ind

LEMMA NextInd == Ind /\ [Next]_vars => Ind'
  BY TypeStep, IdleStep, OrderStep, StaleStep DEF Ind

LEMMA AlwaysInd == Spec => []Ind
  BY InitInd, NextInd, PTL DEF Spec

\* Types and capacities, for any numbers of handlers, regions and faults.
THEOREM TypeCorrect == Spec => []TypeOK
  <1>1. Ind => TypeOK
    BY DEF Ind
  <1> QED
    BY <1>1, AlwaysInd, PTL

\* A stale region has its refresh coming, or missed an event or an answer: the
\* hub's dropped events and htmx's merged triggers never leave a page behind.
THEOREM StaleMeansMissed == Spec => []StaleOnlyIfMissed
  <1>1. Ind => StaleOnlyIfMissed
    BY DEF Ind
  <1> QED
    BY <1>1, AlwaysInd, PTL

\* A region never goes back to an older state.
THEOREM PageMovesForward == Spec => NeverBackwards
  <1>1. Ind /\ [Next]_vars =>
          [\A r \in Regions : \A k \in DOMAIN Queries[r] :
              shown[r] # Blank /\ shown'[r] # Blank => shown[r][k] <= shown'[r][k]]_vars
    BY ForwardStep DEF Ind
  <1> QED
    BY <1>1, AlwaysInd, PTL DEF Spec, NeverBackwards
=============================================================================
