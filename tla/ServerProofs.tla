---------------------------- MODULE ServerProofs ----------------------------
(***************************************************************************)
(* The safety of Server for any requests, browsers, tables and faults.     *)
(*                                                                         *)
(* The schema is complete because each stage of db.Open ends only when its *)
(* part is there.  A login survives because users are never removed, a     *)
(* session only by a logout that carries its token, and a cookie is set    *)
(* only by a request whose session is stored.                              *)
(***************************************************************************)
EXTENDS Server, TLAPS

USE TablesAssumption, MaxFaultsAssumption, NoTokenAssumption, MixesAssumption

SchemaInv ==
    /\ main \in {"down", "tables", "column", "open"} => serve = "none"
    /\ main = "column" => tables = Tables
    /\ main \notin {"down", "tables", "column"} => tables = Tables /\ column

Stored(t) == (t \in sessions /\ job[t].email \in users) \/ LeavingWith(t)

SessionInv ==
    \A r \in Requests :
        /\ pc[r] \in {"known", "session"} => job[r].email \in users
        /\ pc[r] = "session" => Stored(r)

CookieInv == \A b \in Browsers : cookie[b] # NoToken => Stored(cookie[b])

Ind == TypeOK /\ SchemaInv /\ SessionInv /\ CookieInv

LEMMA JobType ==
    ASSUME TypeOK, NEW r \in Requests
    PROVE  job[r].browser \in Browsers /\ job[r].email \in Emails
BY DEF TypeOK, Jobs

LEMMA InitInd == Init => Ind
<1> SUFFICES ASSUME Init PROVE Ind
  OBVIOUS
<1>1. stop \in 0..1 /\ tables \in 0..Tables /\ faults \in 0..MaxFaults
  BY DEF Init
<1>2. /\ job \in [Requests -> Jobs]
      /\ pc \in [Requests -> {"new", "begun", "known", "session", "left", "failed",
                             "answered", "cut"}]
      /\ carried \in [Requests -> Requests \cup {NoToken}]
      /\ cookie \in [Browsers -> Requests \cup {NoToken}]
      /\ SessionInv /\ CookieInv
  BY DEF Init, SessionInv, CookieInv
<1> QED
  BY <1>1, <1>2 DEF Init, Ind, TypeOK, SchemaInv

-----------------------------------------------------------------------------
(* Steps of the process: the requests stay or are cut *)

Processes == Start \/ MainStep \/ ServeStep \/ Environment

\* What TypeOK says of the numbers: the provers take them apart from Booleans.
LEMMA Numbers ==
    ASSUME TypeOK
    PROVE  stop \in 0..1 /\ tables \in 0..Tables /\ faults \in 0..MaxFaults
BY DEF TypeOK

LEMMA FaultType == ASSUME TypeOK, Fault PROVE faults' \in 0..MaxFaults
BY Numbers DEF Fault

LEMMA EndTypes ==
    ASSUME TypeOK, End, faults' \in 0..MaxFaults
    PROVE  TypeOK' /\ SchemaInv'
<1>1. stop' \in 0..1
  BY DEF End
<1>2. pc' \in [Requests -> {"new", "begun", "known", "session", "left", "failed",
                          "answered", "cut"}]
  BY DEF End, TypeOK
<1> QED
  BY <1>1, <1>2 DEF TypeOK, SchemaInv, End, dataVars

\* A step of the process keeps the types and the order of the start.
LEMMA ProcessTypes ==
    ASSUME TypeOK, SchemaInv, Processes
    PROVE  TypeOK' /\ SchemaInv'
<1>1. CASE Start \/ TablesCreated \/ AddColumn
  BY <1>1 DEF Start, TablesCreated, AddColumn, TypeOK, SchemaInv, reqVars, dataVars
<1>2. CASE SpawnServe \/ Notify \/ WaitForSignal
  BY <1>2 DEF SpawnServe, Notify, WaitForSignal, TypeOK, SchemaInv, reqVars, dataVars
<1>8. CASE CreateTable
  <2>1. tables' \in 0..Tables
    BY <1>8, Numbers DEF CreateTable
  <2> QED
    BY <1>8, <2>1 DEF CreateTable, TypeOK, SchemaInv, reqVars, dataVars
<1>9. CASE ReceiveSignal
  <2>1. stop' \in 0..1
    BY <1>9, Numbers DEF ReceiveSignal
  <2> QED
    BY <1>9, <2>1 DEF ReceiveSignal, TypeOK, SchemaInv, reqVars, dataVars
<1>3. CASE CloseQuic \/ StopTcp \/ DrainEnds \/ Listen
  BY <1>3 DEF CloseQuic, StopTcp, DrainEnds, Listen, TypeOK, SchemaInv, reqVars, dataVars
<1>4. CASE Exit \/ ServeFatal
  <2>1. End /\ faults' \in 0..MaxFaults
    BY <1>4 DEF Exit, ServeFatal, TypeOK
  <2> QED
    BY <2>1, EndTypes
<1>5. CASE StartFails \/ Crash
  <2>1. End /\ faults' \in 0..MaxFaults
    BY <1>5, FaultType DEF StartFails, Crash
  <2> QED
    BY <2>1, EndTypes
<1>6. CASE ListenerFails
  <2>1. faults' \in 0..MaxFaults
    BY <1>6, FaultType DEF ListenerFails
  <2> QED
    BY <1>6, <2>1 DEF ListenerFails, TypeOK, SchemaInv, reqVars, dataVars
<1>7. CASE Signal
  <2>1. faults' \in 0..MaxFaults
    BY <1>7, FaultType DEF Signal
  <2>2. CASE End
    BY <2>1, <2>2, EndTypes
  <2>3. CASE ~ End
    <3>1. /\ stop' = 1 /\ asked' = TRUE
          /\ UNCHANGED <<main, serve, tables, column, reqVars, dataVars>>
      BY <1>7, <2>3 DEF Signal, StopAfter
    <3>2. stop' \in 0..1
      BY <3>1
    <3> QED
      BY <2>1, <3>1, <3>2 DEF TypeOK, SchemaInv, reqVars, dataVars
  <2> QED
    BY <2>2, <2>3
<1> QED
  BY <1>1, <1>2, <1>3, <1>4, <1>5, <1>6, <1>7, <1>8, <1>9
  DEF Processes, MainStep, ServeStep, Environment

\* What it does to the requests and the database.
LEMMA ProcessData ==
    ASSUME TypeOK, Processes
    PROVE  /\ UNCHANGED <<job, carried, users, sessions, cookie>>
           /\ \A r \in Requests : pc'[r] = pc[r] \/ (pc[r] # "new" /\ pc'[r] = "cut")
<1>1. CASE UNCHANGED <<reqVars, dataVars>>
  BY <1>1 DEF reqVars, dataVars
<1>2. CASE End
  BY <1>2 DEF End, Working, dataVars, TypeOK
<1>3. UNCHANGED <<reqVars, dataVars>> \/ End
  BY DEF Processes, MainStep, ServeStep, Environment, Start, CreateTable, TablesCreated,
         AddColumn, SpawnServe, Notify, WaitForSignal, ReceiveSignal, CloseQuic, StopTcp,
         DrainEnds, Exit, Listen, ServeFatal, StartFails, ListenerFails, Signal, Crash
<1> QED
  BY <1>1, <1>2, <1>3

-----------------------------------------------------------------------------
(* Steps of a request *)

LEMMA RequestTypes ==
    ASSUME TypeOK, SchemaInv, NEW r \in Requests, RequestStep(r)
    PROVE  TypeOK' /\ SchemaInv'
<1> USE JobType DEF TypeOK, SchemaInv, procVars, dataVars, Goto
<1>1. CASE Arrive(r)
  BY <1>1 DEF Arrive
<1>2. CASE CreateUser(r)
  <2>1. users' \subseteq Emails
    <3>1. job[r].email \in Emails /\ users \subseteq Emails
      BY JobType
    <3>2. users' = users \cup {job[r].email} \/ users' = users
      BY <1>2 DEF CreateUser
    <3> HIDE DEF TypeOK, SchemaInv
    <3> QED
      BY <3>1, <3>2
  <2>2. pc' = [pc EXCEPT ![r] = "known"] \/ pc' = [pc EXCEPT ![r] = "failed"]
    BY <1>2 DEF CreateUser
  <2>3. pc' \in [Requests -> {"new", "begun", "known", "session", "left", "failed",
                            "answered", "cut"}]
    BY <2>2
  <2>4. UNCHANGED <<procVars, job, carried, sessions, cookie>>
    BY <1>2 DEF CreateUser
  <2> QED
    BY <2>1, <2>3, <2>4
<1>6. CASE Authenticate(r)
  BY <1>6 DEF Authenticate
<1>3. CASE CreateSession(r) \/ DeleteSession(r)
  BY <1>3 DEF CreateSession, DeleteSession
<1>4. CASE Answer(r)
  <2>1. cookie' \in [Browsers -> Requests \cup {NoToken}]
    BY <1>4 DEF Answer
  <2> QED
    BY <1>4, <2>1 DEF Answer
<1>5. CASE AnswerLost(r)
  BY <1>5 DEF AnswerLost
<1> QED
  BY <1>1, <1>2, <1>3, <1>4, <1>5, <1>6 DEF RequestStep

\* A request moves only itself, and never back to its beginning.
LEMMA RequestFrame ==
    ASSUME TypeOK, NEW r \in Requests, RequestStep(r)
    PROVE  /\ job' = job /\ users \subseteq users'
           /\ pc'[r] # "new"
           /\ \A q \in Requests : pc[q] # "new" => pc'[q] # "new" /\ carried'[q] = carried[q]
           /\ \A q \in Requests \ {r} : pc'[q] = pc[q]
BY DEF RequestStep, Arrive, CreateUser, Authenticate, CreateSession, DeleteSession,
       Answer, AnswerLost, Goto, TypeOK, procVars, dataVars

\* What is stored stays so, or leaves by a logout.
LEMMA StoredKept ==
    ASSUME TypeOK, NEW r \in Requests, RequestStep(r), NEW t \in Requests, Stored(t)
    PROVE  Stored(t)'
<1>1. LeavingWith(t) => LeavingWith(t)'
  BY RequestFrame DEF LeavingWith
<1>2. t \in sessions \ sessions' => LeavingWith(t)'
  <2> SUFFICES ASSUME t \in sessions \ sessions' PROVE LeavingWith(t)'
    OBVIOUS
  <2>1. DeleteSession(r) /\ t = carried[r]
    BY DEF RequestStep, Arrive, CreateUser, Authenticate, CreateSession, DeleteSession,
           Answer, AnswerLost, dataVars
  <2>2. job'[r].op = "logout" /\ pc'[r] # "new" /\ carried'[r] = t
    BY <2>1, RequestFrame DEF DeleteSession
  <2> QED
    BY <2>2 DEF LeavingWith
<1> QED
  BY <1>1, <1>2, RequestFrame DEF Stored

LEMMA RequestSession ==
    ASSUME Ind, NEW r \in Requests, RequestStep(r)
    PROVE  SessionInv'
<1> SUFFICES ASSUME NEW q \in Requests
             PROVE  /\ pc'[q] \in {"known", "session"} => job'[q].email \in users'
                    /\ pc'[q] = "session" => Stored(q)'
  BY DEF SessionInv
<1>1. CASE pc'[q] = pc[q]
  BY <1>1, RequestFrame, StoredKept DEF Ind, SessionInv
<1>2. CASE pc'[q] # pc[q]
  <2>1. q = r
    BY <1>2, RequestFrame DEF Ind
  <2>2. CASE CreateUser(r) \/ Authenticate(r)
    BY <2>1, <2>2 DEF CreateUser, Authenticate, Goto, Ind, TypeOK, dataVars
  <2>3. CASE CreateSession(r)
    BY <2>1, <2>3 DEF CreateSession, Goto, Ind, TypeOK, SessionInv, Stored
  <2>4. CASE Arrive(r) \/ DeleteSession(r) \/ Answer(r) \/ AnswerLost(r)
    BY <2>1, <2>4 DEF Arrive, DeleteSession, Answer, AnswerLost, Goto, Ind, TypeOK
  <2> QED
    BY <2>2, <2>3, <2>4 DEF RequestStep
<1> QED
  BY <1>1, <1>2

LEMMA RequestCookie ==
    ASSUME Ind, NEW r \in Requests, RequestStep(r)
    PROVE  CookieInv'
<1> SUFFICES ASSUME NEW b \in Browsers, cookie'[b] # NoToken
             PROVE  Stored(cookie[b])'
  BY DEF CookieInv
<1>1. cookie'[b] \in Requests
  BY RequestTypes DEF Ind, TypeOK
<1>2. CASE cookie'[b] = cookie[b]
  BY <1>1, <1>2, StoredKept DEF Ind, CookieInv
<1>3. CASE cookie'[b] # cookie[b]
  <2>1. Answer(r)
    BY <1>3 DEF RequestStep, Arrive, CreateUser, Authenticate, CreateSession,
                DeleteSession, AnswerLost, dataVars
  <2>2. pc[r] = "session" /\ cookie'[b] = r
    BY <1>3, <2>1 DEF Answer, Ind, TypeOK
  <2> QED
    BY <2>2, StoredKept DEF Ind, SessionInv
<1> QED
  BY <1>2, <1>3

-----------------------------------------------------------------------------

LEMMA ProcessInd == Ind /\ Processes => Ind'
<1> SUFFICES ASSUME Ind, Processes PROVE Ind'
  OBVIOUS
<1>1. TypeOK' /\ SchemaInv'
  BY ProcessTypes DEF Ind
<1>2. /\ UNCHANGED <<job, carried, users, sessions, cookie>>
      /\ \A r \in Requests : pc'[r] = pc[r] \/ (pc[r] # "new" /\ pc'[r] = "cut")
  BY ProcessData DEF Ind
<1>3. \A t : Stored(t) => Stored(t)'
  BY <1>2 DEF Stored, LeavingWith
<1>4. SessionInv'
  BY <1>2, <1>3 DEF Ind, SessionInv
<1>5. CookieInv'
  BY <1>2, <1>3 DEF Ind, CookieInv
<1> QED
  BY <1>1, <1>4, <1>5 DEF Ind

LEMMA AlwaysInd == Spec => []Ind
<1>1. Ind /\ [Next]_vars => Ind'
  <2> SUFFICES ASSUME Ind, [Next]_vars PROVE Ind'
    OBVIOUS
  <2>1. ASSUME NEW r \in Requests, RequestStep(r) PROVE Ind'
    BY <2>1, RequestTypes, RequestSession, RequestCookie DEF Ind
  <2>2. CASE Processes
    BY <2>2, ProcessInd
  <2>3. CASE UNCHANGED vars
    BY <2>3 DEF vars, procVars, reqVars, dataVars, Ind, TypeOK, SchemaInv, SessionInv,
                CookieInv, Stored, LeavingWith
  <2> QED
    BY <2>1, <2>2, <2>3 DEF Next, Processes
<1> QED
  BY InitInd, <1>1, PTL DEF Spec

\* Types; a second signal finds the channel full and is dropped.
THEOREM TypeCorrect == Spec => []TypeOK
<1>1. Ind => TypeOK
  BY DEF Ind
<1> QED
  BY <1>1, AlwaysInd, PTL

\* The database is complete whenever the listeners are up, whatever file the
\* process found and however often its migration was interrupted.
THEOREM SchemaIsComplete == Spec => []SchemaCompleteWhenServing
<1>1. Ind => SchemaCompleteWhenServing
  BY DEF Ind, TypeOK, SchemaInv, SchemaCompleteWhenServing, Serving
<1> QED
  BY <1>1, AlwaysInd, PTL

\* A cookie names a stored session of a stored user until a logout with it
\* arrives, for any overlap of requests and any number of crashes.
THEOREM LoginsSurvive == Spec => []LoginSurvives
<1>1. Ind => LoginSurvives
  BY DEF Ind, CookieInv, Stored, LoginSurvives
<1> QED
  BY <1>1, AlwaysInd, PTL
=============================================================================
