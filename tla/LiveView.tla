------------------------------ MODULE LiveView ------------------------------
(***************************************************************************)
(* What an open group page shows against what the database holds.          *)
(*                                                                         *)
(* A mutating handler (actions.go, expense_edit.go, comments.go) commits,  *)
(* appends to the activity feed and publishes to the group's topic, in     *)
(* this order.  An event says only that something changed: the page        *)
(* (group.html, app.js) answers by fetching each of its live regions       *)
(* again.  A page listens on an SSE stream, which is reliable while it     *)
(* lasts, and on WebTransport sessions, whose datagrams may be lost.       *)
(*                                                                         *)
(* Publish is one step here: Hub shows that the locked hub does as much.   *)
(* The page's htmx is external: one request per region at a time, the last *)
(* trigger that arrives meanwhile is kept and fired when it ends, and an   *)
(* answer with an error is not swapped in.                                 *)
(***************************************************************************)
EXTENDS Integers, Sequences, FiniteSets

CONSTANTS
    Handlers,       \* mutating requests, of anyone in the group
    Uploads,        \* those among them that bring a receipt for a new expense
    Regions,        \* the live regions of the page
    Queries,        \* region -> the parts of the database its handler reads, in order
    BufCap,         \* capacity of the stream's channel (16 in the code)
    WireCap,        \* bound: events under way to the browser on the stream
    MaxFaults       \* bound: failed inserts and fetches, lost connections, reloads, crashes

Parts == {"ledger", "log"}

ASSUME RegionsAssumption == Queries \in [Regions -> Seq(Parts)]
ASSUME UploadsAssumption == Uploads \subseteq Handlers
ASSUME CapacityAssumption == BufCap \in Nat \ {0} /\ WireCap \in Nat \ {0}
ASSUME MaxFaultsAssumption == MaxFaults \in Nat

VARIABLES
    db,         \* part -> its version: how often it has been written
    pc,         \* handler -> where its goroutine is
    up,         \* the page's stream is subscribed to the hub
    buf,        \* the number of events in its channel
    wire,       \* the number of events written to it and not received yet
    shown,      \* region -> the versions on the screen, << >> before the first
    asking,     \* the regions with a request under way
    answer,     \* region -> the versions its request has read so far
    queued,     \* the regions triggered while their request was under way
    missed,     \* the regions an event or answer failed to reach (history variable)
    faults      \* faults so far

serverVars == <<db, pc>>
linkVars == <<up, buf, wire>>
pageVars == <<shown, asking, answer, queued>>
vars == <<db, pc, up, buf, wire, shown, asking, answer, queued, missed, faults>>

Blank == << >>

Init ==
    /\ db = [p \in Parts |-> 0]
    /\ pc = [h \in Handlers |-> "idle"]
    /\ up = FALSE
    /\ buf = 0 /\ wire = 0
    /\ shown = [r \in Regions |-> Blank]
    /\ asking = Regions                      \* hx-trigger="load"
    /\ answer = [r \in Regions |-> << >>]
    /\ queued = {}
    /\ missed = {}
    /\ faults = 0

\* Handlers that have changed the database and not told anyone yet.
Untold == {h \in Handlers : pc[h] \in {"committed", "attached", "logged"}}

\* An event is on its way to the page over the stream.
Underway == buf > 0 \/ wire > 0

Fault == faults < MaxFaults /\ faults' = faults + 1

-----------------------------------------------------------------------------
(* The server's handlers *)

Move(h, from, to) == pc[h] = from /\ pc' = [pc EXCEPT ![h] = to]

Bump(p) == db' = [db EXCEPT ![p] = @ + 1]

\* The store call: a transaction that is refused is not a handler here.
Commit(h) ==
    /\ Move(h, "idle", "committed")
    /\ Bump("ledger")
    /\ UNCHANGED <<linkVars, pageVars, missed, faults>>

\* createExpense sets the receipt in a write of its own.
AttachReceipt(h) ==
    /\ h \in Uploads
    /\ Move(h, "committed", "attached")
    /\ Bump("ledger")
    /\ UNCHANGED <<linkVars, pageVars, missed, faults>>

\* An error of the insert is ignored.
LogActivity(h) ==
    /\ Move(h, "committed", "logged") \/ Move(h, "attached", "logged")
    /\ \/ Bump("log") /\ UNCHANGED faults
       \/ Fault /\ UNCHANGED db
    /\ UNCHANGED <<linkVars, pageVars, missed>>

\* Hub.Publish to the stream's channel: when it is full the event is dropped.
\* Mutant: the channel takes any number of events.
OfferedUnbounded == IF up THEN buf + 1 ELSE buf

Offered == IF up /\ buf < BufCap THEN buf + 1 ELSE buf

Publish(h) ==
    /\ Move(h, "logged", "done")
    /\ buf' = Offered
    /\ missed' = IF up THEN {} ELSE Regions
    /\ UNCHANGED <<db, up, wire, pageVars, faults>>

-----------------------------------------------------------------------------
(* The stream *)

\* Handlers.sse subscribes; the ": connected" it writes is a comment, which
\* triggers nothing.  A browser opens the stream again after it has lost it.
Connect ==
    /\ ~up
    /\ up' = TRUE
    /\ UNCHANGED <<serverVars, buf, wire, pageVars, missed, faults>>

\* The select loop: an event from the channel is written to the connection.
\* Mutant: events are held back until there are two.
ForwardBatched ==
    /\ buf > 1
    /\ wire < WireCap
    /\ buf' = buf - 1
    /\ wire' = wire + 1
    /\ UNCHANGED <<serverVars, up, pageVars, missed, faults>>

Forward ==
    /\ buf > 0
    /\ wire < WireCap
    /\ buf' = buf - 1
    /\ wire' = wire + 1
    /\ UNCHANGED <<serverVars, up, pageVars, missed, faults>>

\* The connection ends: its goroutine unsubscribes, what is under way is lost.
Disconnect ==
    /\ up
    /\ Fault
    /\ up' = FALSE
    /\ buf' = 0 /\ wire' = 0
    /\ missed' = IF Underway THEN Regions ELSE missed
    /\ UNCHANGED <<serverVars, pageVars>>

-----------------------------------------------------------------------------
(* The page *)

\* sse:update on every region.
\* Mutant: a trigger that finds a request under way is forgotten.
RefreshDropping ==
    /\ asking' = Regions
    /\ UNCHANGED <<shown, answer, queued>>

Refresh ==
    /\ asking' = Regions
    /\ queued' = queued \cup asking
    /\ UNCHANGED <<shown, answer>>

Receive ==
    /\ wire > 0
    /\ wire' = wire - 1
    /\ Refresh
    /\ UNCHANGED <<serverVars, up, buf, missed, faults>>

\* A datagram makes the page do the same: an event, or the greeting of the
\* user's session, which is opened anew whenever it has ended.  As datagrams
\* may be lost, one may arrive at any time and none ever needs to.
ReceiveDatagram ==
    /\ Refresh
    /\ UNCHANGED <<serverVars, linkVars, missed, faults>>

\* One query of the region's handler.
\* Mutant: the answer may come from a cache.
ReadCached(r) ==
    /\ r \in asking
    /\ Len(answer[r]) < Len(Queries[r])
    /\ \E v \in 0..db[Queries[r][Len(answer[r]) + 1]] :
          answer' = [answer EXCEPT ![r] = Append(@, v)]
    /\ UNCHANGED <<serverVars, linkVars, shown, asking, queued, missed, faults>>

Read(r) ==
    /\ r \in asking
    /\ Len(answer[r]) < Len(Queries[r])
    /\ answer' = [answer EXCEPT ![r] = Append(@, db[Queries[r][Len(@) + 1]])]
    /\ UNCHANGED <<serverVars, linkVars, shown, asking, queued, missed, faults>>

\* The request ends and, if there was a trigger meanwhile, the next begins.
EndRequest(r) ==
    /\ answer' = [answer EXCEPT ![r] = << >>]
    /\ asking' = IF r \in queued THEN asking ELSE asking \ {r}
    /\ queued' = queued \ {r}

Swap(r) ==
    /\ r \in asking
    /\ Len(answer[r]) = Len(Queries[r])
    /\ shown' = [shown EXCEPT ![r] = answer[r]]
    /\ EndRequest(r)
    /\ UNCHANGED <<serverVars, linkVars, missed, faults>>

\* A 500 or a lost request: the region keeps what it shows.
FetchFails(r) ==
    /\ r \in asking
    /\ Fault
    /\ EndRequest(r)
    /\ missed' = IF r \in queued THEN missed ELSE missed \cup {r}
    /\ UNCHANGED <<serverVars, linkVars, shown>>

\* The page is loaded anew, for instance by the redirect after a form.
Reload ==
    /\ Fault
    /\ up' = FALSE
    /\ buf' = 0 /\ wire' = 0
    /\ shown' = [r \in Regions |-> Blank]
    /\ asking' = Regions
    /\ answer' = [r \in Regions |-> << >>]
    /\ queued' = {}
    /\ missed' = {}
    /\ UNCHANGED serverVars

\* The process dies and is started again: handlers, requests and connections
\* are gone, the database is not.
Crash ==
    /\ Fault
    /\ pc' = [h \in Handlers |-> IF pc[h] = "idle" THEN "idle" ELSE "done"]
    /\ up' = FALSE
    /\ buf' = 0 /\ wire' = 0
    /\ asking' = {}
    /\ answer' = [r \in Regions |-> << >>]
    /\ queued' = {}
    /\ missed' = IF Untold # {} \/ Underway THEN Regions ELSE missed \cup asking
    /\ UNCHANGED <<db, shown>>

-----------------------------------------------------------------------------
HandlerStep(h) == Commit(h) \/ AttachReceipt(h) \/ LogActivity(h) \/ Publish(h)
StreamStep == Connect \/ Forward \/ Disconnect \/ Receive
RegionStep(r) == Read(r) \/ Swap(r) \/ FetchFails(r)

Next ==
    \/ \E h \in Handlers : HandlerStep(h)
    \/ StreamStep
    \/ ReceiveDatagram
    \/ \E r \in Regions : RegionStep(r)
    \/ Reload
    \/ Crash

\* A handler under way goes on, the stream's goroutine and connection carry
\* events while they last, and a request under way is answered.  Nothing is
\* assumed of datagrams, of reconnecting or of anyone issuing requests.
Fairness ==
    /\ \A h \in Handlers : WF_vars(AttachReceipt(h) \/ LogActivity(h) \/ Publish(h))
    /\ WF_vars(Forward)
    /\ WF_vars(Receive)
    /\ \A r \in Regions : WF_vars(Read(r) \/ Swap(r))

Spec == Init /\ [][Next]_vars /\ Fairness

-----------------------------------------------------------------------------
(* Properties *)

\* Types and capacities; a request has not read more than its handler does.
TypeOK ==
    /\ db \in [Parts -> Nat]
    /\ pc \in [Handlers -> {"idle", "committed", "attached", "logged", "done"}]
    /\ up \in BOOLEAN
    /\ buf \in 0..BufCap
    /\ wire \in 0..WireCap
    /\ up \/ ~Underway
    /\ shown \in [Regions -> Seq(Nat)]
    /\ asking \subseteq Regions
    /\ answer \in [Regions -> Seq(Nat)]
    /\ queued \subseteq asking
    /\ missed \subseteq Regions
    /\ faults \in 0..MaxFaults
    /\ \A r \in Regions : /\ Len(answer[r]) <= Len(Queries[r])
                          /\ shown[r] = Blank \/ Len(shown[r]) = Len(Queries[r])

\* The k-th thing region r shows is what the database holds now.
Current(r, k) == shown[r] # Blank /\ shown[r][k] = db[Queries[r][k]]

\* The k-th query of the request under way is still to come, or saw it.
WillShow(r, k) ==
    \/ r \in queued
    \/ /\ r \in asking
       /\ Len(answer[r]) < k \/ answer[r][k] = db[Queries[r][k]]

\* A region that is behind has a refresh coming to it (a request, an event on
\* the stream, a handler that has yet to publish), or an event of its stream
\* or a fetch failed to reach it.  In particular an event that a full channel
\* drops, and a trigger that meets a request under way, cost nothing, and a
\* balances region whose two reads disagree is read again.
StaleOnlyIfMissed ==
    \A r \in Regions : \A k \in DOMAIN Queries[r] :
        \/ Current(r, k)
        \/ WillShow(r, k)
        \/ Underway
        \/ Untold # {}
        \/ r \in missed

\* Whatever the order of writes, triggers, reads and failures, a region that
\* shows something never goes back to an older state of the group.
NeverBackwards ==
    [][\A r \in Regions : \A k \in DOMAIN Queries[r] :
          shown[r] # Blank /\ shown'[r] # Blank => shown[r][k] <= shown'[r][k]]_vars

\* Nothing is under way, and the page listens.
Settled ==
    /\ up
    /\ asking = {}
    /\ ~Underway
    /\ \A h \in Handlers : pc[h] \in {"idle", "done"}

\* Every region is again and again as current as the database: a change is
\* eventually on the screen, or the page has missed an event since.
CatchesUp ==
    \A r \in Regions :
        []<>(r \in missed \/ \A k \in DOMAIN Queries[r] : Current(r, k))

\* What README.md:163 says of the group page ("instant UI refresh via QUIC
\* datagrams (WebTransport) or SSE"): once all is quiet, an open page that
\* listens to its group shows the group as it is.
SettledPageIsCurrent ==
    Settled => \A r \in Regions : \A k \in DOMAIN Queries[r] : Current(r, k)
=============================================================================
