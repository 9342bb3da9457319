------------------------------- MODULE Server -------------------------------
(***************************************************************************)
(* The process and what outlives it: main.go, server/server.go and         *)
(* db/db.go, with the accounts of handlers/auth.go and store/store.go.     *)
(*                                                                         *)
(* main opens and migrates the database, starts a goroutine that serves    *)
(* both listeners, waits for SIGINT or SIGTERM and shuts down; whatever    *)
(* the goroutine gets back from its listeners ends in log.Fatalf.  The     *)
(* process is started again by its container (docker-compose.yml,          *)
(* deploy/k8s.yaml: one replica, Recreate).  Requests come over TCP or     *)
(* QUIC, commit to the database statement by statement, and give their     *)
(* browser a cookie that it keeps when the process is gone.                *)
(***************************************************************************)
EXTENDS Naturals, FiniteSets

CONSTANTS
    Requests,   \* a request; also the token of the session it creates
    Browsers, Emails,
    Mixes,      \* what the requests ask for: the combinations considered
    NoToken,    \* a browser without the sid cookie
    Tables,     \* number of tables that the schema creates
    MaxFaults   \* bound on crashes, signals, failed starts and listener errors

ASSUME TablesAssumption == Tables \in Nat \ {0}
ASSUME MaxFaultsAssumption == MaxFaults \in Nat
ASSUME NoTokenAssumption == NoToken \notin Requests

Jobs == [op : {"signup", "login", "logout", "stream"}, lane : {"tcp", "quic"},
         browser : Browsers, email : Emails]

ASSUME MixesAssumption == Mixes \subseteq [Requests -> Jobs]

VARIABLES
    main,       \* where the main goroutine is
    serve,      \* the goroutine of ListenAndServe
    stop,       \* signals in the channel, which has room for one
    tables,     \* tables in the database file
    column,     \* expenses has its column receipt_path
    asked,      \* history: this process has been told to stop
    faults

procVars == <<main, serve, stop, tables, column, asked, faults>>

VARIABLES
    job,        \* what each request asks for; never changes
    pc,         \* where each request is
    carried,    \* the token it came with
    users, sessions,    \* the tables
    cookie      \* the sid cookie of each browser

dataVars == <<users, sessions, cookie>>
reqVars == <<job, pc, carried>>
vars == <<procVars, reqVars, dataVars>>

\* The database file is new, or of an older or of this version.
Init ==
    /\ main = "down" /\ serve = "none" /\ stop = 0
    /\ tables \in {0, Tables} /\ column \in BOOLEAN /\ (column => tables = Tables)
    /\ asked = FALSE /\ faults = 0
    /\ job \in Mixes
    /\ pc = [r \in Requests |-> "new"]
    /\ carried = [r \in Requests |-> NoToken]
    /\ users = {} /\ sessions = {}
    /\ cookie = [b \in Browsers |-> NoToken]

Fault == faults < MaxFaults /\ faults' = faults + 1

Working == {r \in Requests : pc[r] \notin {"new", "answered", "cut"}}

WorkingOn(lane) == {r \in Working : job[r].lane = lane}

\* The process is gone, and its goroutines with it.
End ==
    /\ main' = "down" /\ serve' = "none" /\ stop' = 0 /\ asked' = FALSE
    /\ pc' = [r \in Requests |-> IF r \in Working THEN "cut" ELSE pc[r]]
    /\ UNCHANGED <<tables, column, job, carried, dataVars>>

-----------------------------------------------------------------------------
(* db.Open *)

\* By the container.
Start ==
    /\ main = "down"
    /\ main' = "tables"
    /\ UNCHANGED <<serve, stop, tables, column, asked, faults, reqVars, dataVars>>

\* CREATE TABLE IF NOT EXISTS, each a transaction of its own.
CreateTable ==
    /\ main = "tables" /\ tables < Tables
    /\ tables' = tables + 1
    /\ UNCHANGED <<main, serve, stop, column, asked, faults, reqVars, dataVars>>

TablesCreated ==
    /\ main = "tables" /\ tables = Tables
    /\ main' = "column"
    /\ UNCHANGED <<serve, stop, tables, column, asked, faults, reqVars, dataVars>>

\* Mutants: the error of a column that is there already is not recognised; the
\* error of any statement is ignored.
AddColumnStrict ==
    /\ main = "column"
    /\ \/ /\ ~column
          /\ main' = "open" /\ column' = TRUE
          /\ UNCHANGED <<serve, stop, tables, asked, faults, reqVars, dataVars>>
       \/ column /\ End /\ UNCHANGED faults

AddColumnIgnoringErrors ==
    /\ main = "column"
    /\ main' = "open" /\ column' \in {column, TRUE}
    /\ UNCHANGED <<serve, stop, tables, asked, faults, reqVars, dataVars>>

\* ALTER TABLE: a "duplicate column" error is ignored.
AddColumn ==
    /\ main = "column"
    /\ main' = "open" /\ column' = TRUE
    /\ UNCHANGED <<serve, stop, tables, asked, faults, reqVars, dataVars>>

\* Opening, the migration or building the server fails: log.Fatalf.
StartFails == main \in {"tables", "column", "open"} /\ Fault /\ End

-----------------------------------------------------------------------------
(* ListenAndServe, in its goroutine *)

SpawnServe ==
    /\ main = "open"
    /\ main' = "spawned" /\ serve' = "starting"
    /\ UNCHANGED <<stop, tables, column, asked, faults, reqVars, dataVars>>

\* Shutdown leaves nothing to listen with.
Listen ==
    /\ serve = "starting"
    /\ serve' = IF main \in {"spawned", "notified", "waiting", "closing"}
                THEN "listening" ELSE "failed"
    /\ UNCHANGED <<main, stop, tables, column, asked, faults, reqVars, dataVars>>

ListenerFails ==
    /\ serve \in {"starting", "listening"} /\ Fault
    /\ serve' = "failed"
    /\ UNCHANGED <<main, stop, tables, column, asked, reqVars, dataVars>>

\* Any error, also the one that says that the server was shut down.
ServeFatal == serve = "failed" /\ End /\ UNCHANGED faults

-----------------------------------------------------------------------------
(* Signals and shutdown *)

Notify ==
    /\ main = "spawned"
    /\ main' = "notified"
    /\ UNCHANGED <<serve, stop, tables, column, asked, faults, reqVars, dataVars>>

WaitForSignal ==
    /\ main = "notified"
    /\ main' = "waiting"
    /\ UNCHANGED <<serve, stop, tables, column, asked, faults, reqVars, dataVars>>

\* Mutants: a channel without room; one that is never full.
StopAfterUnbuffered == IF main = "waiting" THEN 1 ELSE stop

StopAfterUnbounded == stop + 1

\* signal.Notify does not block: a second signal is dropped.
StopAfter == 1

\* Before Notify the signal kills the process.
Signal ==
    /\ main # "down" /\ Fault
    /\ \/ main \in {"tables", "column", "open", "spawned"} /\ End
       \/ /\ main \notin {"tables", "column", "open", "spawned"}
          /\ stop' = StopAfter /\ asked' = TRUE
          /\ UNCHANGED <<main, serve, tables, column, reqVars, dataVars>>

ReceiveSignal ==
    /\ main = "waiting" /\ stop > 0
    /\ main' = "closing" /\ stop' = stop - 1
    /\ UNCHANGED <<serve, tables, column, asked, faults, reqVars, dataVars>>

\* Shutdown: wt.Close and udp.Close.  Serve returns an error.
CloseQuic ==
    /\ main = "closing"
    /\ main' = "closed"
    /\ serve' = IF serve = "listening" THEN "failed" ELSE serve
    /\ UNCHANGED <<stop, tables, column, asked, faults, reqVars, dataVars>>

\* tcp.Shutdown closes the listener; ListenAndServeTLS returns an error.
StopTcp ==
    /\ main = "closed"
    /\ main' = "draining"
    /\ serve' = IF serve = "listening" THEN "failed" ELSE serve
    /\ UNCHANGED <<stop, tables, column, asked, faults, reqVars, dataVars>>

\* Nothing is served over TCP any more, or the five seconds are over.
Drained == WorkingOn("tcp") = {}

DrainEnds ==
    /\ main = "draining"
    /\ main' = IF Drained THEN "returning" ELSE "timed out"
    /\ UNCHANGED <<serve, stop, tables, column, asked, faults, reqVars, dataVars>>

\* main returns.
Exit == main \in {"returning", "timed out"} /\ End /\ UNCHANGED faults

\* A panic, the kernel or the container ends the process.
Crash == main # "down" /\ Fault /\ End

-----------------------------------------------------------------------------
(* Requests *)

Goto(r, label) == pc' = [pc EXCEPT ![r] = label]

\* The TCP listener is open until StopTcp, the QUIC one until CloseQuic.
Accepting(lane) ==
    /\ serve = "listening"
    /\ main \in (IF lane = "tcp" THEN {"spawned", "notified", "waiting", "closing", "closed"}
                                 ELSE {"spawned", "notified", "waiting", "closing"})

Arrive(r) ==
    /\ pc[r] = "new" /\ Accepting(job[r].lane)
    /\ Goto(r, "begun")
    /\ carried' = [carried EXCEPT ![r] = cookie[job[r].browser]]
    /\ UNCHANGED <<procVars, job, dataVars>>

\* doSignup: CreateUser, whose INSERT fails when the email is taken.
CreateUser(r) ==
    /\ pc[r] = "begun" /\ job[r].op = "signup"
    /\ \/ /\ job[r].email \notin users
          /\ users' = users \cup {job[r].email}
          /\ Goto(r, "known")
       \/ Goto(r, "failed") /\ UNCHANGED users
    /\ UNCHANGED <<procVars, job, carried, sessions, cookie>>

\* doLogin: Authenticate; the password may be wrong.
Authenticate(r) ==
    /\ pc[r] = "begun" /\ job[r].op = "login"
    /\ \/ job[r].email \in users /\ Goto(r, "known")
       \/ Goto(r, "failed")
    /\ UNCHANGED <<procVars, job, carried, dataVars>>

\* Mutant: the cookie is set although the session could not be stored.
CreateSessionUnchecked(r) ==
    /\ pc[r] = "known"
    /\ sessions' \in {sessions, sessions \cup {r}}
    /\ Goto(r, "session")
    /\ UNCHANGED <<procVars, job, carried, users, cookie>>

\* startSession: CreateSession, or an error page.
CreateSession(r) ==
    /\ pc[r] = "known"
    /\ \/ sessions' = sessions \cup {r} /\ Goto(r, "session")
       \/ Goto(r, "failed") /\ UNCHANGED sessions
    /\ UNCHANGED <<procVars, job, carried, users, cookie>>

\* doLogout: the error of DeleteSession is ignored.
DeleteSession(r) ==
    /\ pc[r] = "begun" /\ job[r].op = "logout"
    /\ sessions' \in {sessions, sessions \ {carried[r]}}
    /\ Goto(r, "left")
    /\ UNCHANGED <<procVars, job, carried, users, cookie>>

\* The browser gets its answer; Close cuts the connections of QUIC.  A stream
\* ends when its browser goes away.
Answer(r) ==
    /\ pc[r] \in {"session", "left", "failed"}
    /\ job[r].lane = "quic" => main \notin {"closed", "draining", "returning", "timed out"}
    /\ cookie' = [cookie EXCEPT ![job[r].browser] =
                      CASE pc[r] = "session" -> r
                        [] pc[r] = "left" -> NoToken
                        [] pc[r] = "failed" -> @]
    /\ Goto(r, "answered")
    /\ UNCHANGED <<procVars, job, carried, users, sessions>>

AnswerLost(r) ==
    /\ \/ pc[r] \in {"session", "left", "failed"}
       \/ pc[r] = "begun" /\ job[r].op = "stream"
    /\ Goto(r, "cut")
    /\ UNCHANGED <<procVars, job, carried, dataVars>>

-----------------------------------------------------------------------------

MainStep ==
    \/ CreateTable \/ TablesCreated \/ AddColumn
    \/ SpawnServe \/ Notify \/ WaitForSignal
    \/ ReceiveSignal \/ CloseQuic \/ StopTcp \/ DrainEnds \/ Exit

ServeStep == Listen \/ ServeFatal

Environment == StartFails \/ ListenerFails \/ Signal \/ Crash

RequestStep(r) ==
    \/ Arrive(r)
    \/ CreateUser(r) \/ Authenticate(r) \/ CreateSession(r) \/ DeleteSession(r)
    \/ Answer(r) \/ AnswerLost(r)

Next ==
    \/ Start \/ MainStep \/ ServeStep \/ Environment
    \/ \E r \in Requests : RequestStep(r)

\* Both goroutines are scheduled, and the container starts the process again.
Fairness == WF_vars(Start) /\ WF_vars(MainStep) /\ WF_vars(ServeStep)

Spec == Init /\ [][Next]_vars /\ Fairness

-----------------------------------------------------------------------------

\* The stop channel holds one signal at most (main.go:78).
TypeOK ==
    /\ main \in {"down", "tables", "column", "open", "spawned", "notified", "waiting",
                 "closing", "closed", "draining", "returning", "timed out"}
    /\ serve \in {"none", "starting", "listening", "failed"}
    /\ stop \in 0..1
    /\ tables \in 0..Tables /\ column \in BOOLEAN
    /\ asked \in BOOLEAN /\ faults \in 0..MaxFaults
    /\ job \in [Requests -> Jobs]
    /\ pc \in [Requests -> {"new", "begun", "known", "session", "left", "failed",
                            "answered", "cut"}]
    /\ carried \in [Requests -> Requests \cup {NoToken}]
    /\ users \subseteq Emails /\ sessions \subseteq Requests
    /\ cookie \in [Browsers -> Requests \cup {NoToken}]

Serving == serve # "none"

(***************************************************************************)
(* No request meets a database without a table or without the column: the  *)
(* migration repairs a new file, one of an older version and one whose     *)
(* migration was interrupted (db.go:29-43).                                *)
(***************************************************************************)
SchemaCompleteWhenServing == Serving => tables = Tables /\ column

\* A logout with this token has reached the server.
LeavingWith(t) ==
    \E r \in Requests : job[r].op = "logout" /\ pc[r] # "new" /\ carried[r] = t

(***************************************************************************)
(* The cookie that a browser keeps names a stored session of a registered  *)
(* user until a logout with it arrives, whatever fails between the two     *)
(* inserts of a signup, whichever tabs overlap, and however often the      *)
(* process ends in the middle of a request (auth.go:28-82).                *)
(***************************************************************************)
LoginSurvives ==
    \A b \in Browsers :
        cookie[b] # NoToken =>
            \/ cookie[b] \in sessions /\ job[cookie[b]].email \in users
            \/ LeavingWith(cookie[b])

(***************************************************************************)
(* "Migrations are idempotent - safe to run on an already-migrated DB"     *)
(* (BYDEV.md:229): once faults are over, the server comes up and stays up, *)
(* whatever was interrupted, instead of failing at every start.            *)
(***************************************************************************)
ComesUp == <>[](main = "waiting" /\ serve = "listening")

(***************************************************************************)
(* A process that has been told to stop ends: the signal is not lost       *)
(* between Notify and the receive, and a stream that never ends holds the  *)
(* shutdown up for its timeout only (main.go:77-84).                       *)
(***************************************************************************)
StopsWhenAsked == asked ~> main = "down"

ShuttingDown == main \in {"closing", "closed", "draining"}

(***************************************************************************)
(* "Graceful shutdown on Ctrl-C / SIGTERM" (main.go:77): a process that is *)
(* shutting down does not end while it still works on a request over TCP,  *)
(* unless the five seconds are over or it crashes.                         *)
(***************************************************************************)
ShutdownDrains ==
    [][ShuttingDown /\ main' = "down" /\ faults' = faults => WorkingOn("tcp") = {}]_vars
=============================================================================
