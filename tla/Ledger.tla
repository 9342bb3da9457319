------------------------------- MODULE Ledger -------------------------------
(***************************************************************************)
(* One group's ledger: internal/store/expenses.go and balances.go over     *)
(* SQLite, driven by concurrent HTTP requests (handlers/actions.go and     *)
(* expense_edit.go).                                                       *)
(*                                                                         *)
(* A request creates, edits or deletes an expense or records a settlement, *)
(* statement by statement.  Readers compute balances from several queries  *)
(* that share no transaction.  The process may be killed at any point.     *)
(*                                                                         *)
(* SQLite is external: one writer at a time from its first write statement *)
(* to commit or rollback, readers see the last committed state (WAL), an   *)
(* uncommitted transaction vanishes in a crash, and a writer kept waiting  *)
(* longer than busy_timeout gets an error (db.go:15).  A foreign key is    *)
(* checked by the statement that writes it; the one from shares to         *)
(* expenses also cascades on DELETE.  A full disk or an I/O error may fail *)
(* any statement and the commit, and then undoes the transaction.          *)
(*                                                                         *)
(* Requests have passed requireMember; nothing in the program takes a      *)
(* membership away.  The payer, the participants and the parties to a      *)
(* settlement are ids from the form that only the foreign keys look at.    *)
(* Bills are what splits.Compute returns (see Splits): the shares of a     *)
(* bill sum to its amount.                                                 *)
(***************************************************************************)
EXTENDS Integers, FiniteSets, Sums

CONSTANTS
    Users,          \* the ids that a form may name
    Registered,     \* those of them that are in the table of users
    Currencies,
    Expenses,       \* the expense ids that newID may draw
    Bills,          \* inputs of create and edit, with their computed shares
    Payments,       \* inputs of settle: [from, to, amount, cur]
    Requests,       \* the goroutines serving mutating requests, one each
    NoRow,          \* the absence of an expense row or of a share row
    NoOne,          \* nobody holds SQLite's write lock
    MaxCrashes      \* bound on the number of process deaths

\* The rows of expense_shares of one expense: an amount for each participant.
ShareRows == [Users -> Nat \cup {NoRow}]

NoShares == [u \in Users |-> NoRow]

Participants(shares) == {u \in Users : shares[u] # NoRow}

Owed(shares) == SumOver(shares, Participants(shares))

Headers == [payer : Users, amount : Nat \ {0}, cur : Currencies]

Header(b) == [payer |-> b.payer, amount |-> b.amount, cur |-> b.cur]

ASSUME RegisteredAssumption == Registered \subseteq Users
\* There are finitely many people and, ids being UUIDs (store.go:26), expenses.
ASSUME FiniteAssumption == IsFiniteSet(Users) /\ IsFiniteSet(Expenses)
\* The guard of actions.go:147-151.
ASSUME PaymentsAssumption ==
    Payments \subseteq [from : Users, to : Users, amount : Nat \ {0}, cur : Currencies]
ASSUME BillsAssumption ==
    \A b \in Bills : /\ Header(b) \in Headers
                     /\ b.shares \in ShareRows
                     /\ Participants(b.shares) # {}
                     /\ b = [payer |-> b.payer, amount |-> b.amount,
                             cur |-> b.cur, shares |-> b.shares]
ASSUME SharesSumAssumption == \A b \in Bills : Owed(b.shares) = b.amount
ASSUME NoRowAssumption == NoRow \notin Headers \cup Bills \cup Nat
ASSUME NoOneAssumption == NoOne \notin Requests
ASSUME MaxCrashesAssumption == MaxCrashes \in Nat

\* What a request asks for.  For a create, exp is the id newID will draw.
Jobs == [op : {"create", "update"}, exp : Expenses, bill : Bills]
            \cup [op : {"delete"}, exp : Expenses]
            \cup [op : {"settle"}, pay : Payments]

VARIABLES
    job,        \* what each request asks for; never changes
    pc,         \* where each request is
    todo,       \* the participants whose share a request has yet to insert
    db,         \* the committed state: expenses, their shares, settlements
    work,       \* what the transaction under way has made of it
    tx,         \* the request that holds the write lock
    rd,         \* a balance reader: where it is and what it has read
    edited,     \* an edit or deletion committed since it began (history)
    crashes

reqVars == <<job, pc, todo>>
dbVars == <<db, work, tx>>
rdVars == <<rd, edited>>
vars == <<job, pc, todo, db, work, tx, rd, edited, crashes>>

EmptyDb == [exp |-> [e \in Expenses |-> NoRow],
            rows |-> [e \in Expenses |-> NoShares],
            stl |-> {}]

NotReading == [at |-> "idle", todo |-> {}, exp |-> EmptyDb.exp,
               rows |-> EmptyDb.rows, stl |-> {}]

Init ==
    /\ job \in [Requests -> Jobs]
    /\ \A r, q \in Requests :        \* newID never draws the same id twice
          r # q /\ job[r].op = "create" /\ job[q].op = "create" =>
              job[r].exp # job[q].exp
    /\ pc = [r \in Requests |-> "new"]
    /\ todo = [r \in Requests |-> {}]
    /\ db = EmptyDb /\ work = EmptyDb /\ tx = NoOne
    /\ rd = NotReading
    /\ edited = FALSE
    /\ crashes = 0

At(r, label) == pc[r] = label

Goto(r, label) == pc' = [pc EXCEPT ![r] = label]

-----------------------------------------------------------------------------
(* The statements, as functions from one database state to the next        *)

Exists(d, e) == d.exp[e] # NoRow

InsertExpense(d, e, b) == [d EXCEPT !.exp[e] = Header(b)]

\* Mutant: INSERT OR REPLACE instead of UPDATE.
UpsertExpenseRow(d, e, b) == [d EXCEPT !.exp[e] = Header(b)]

\* UPDATE expenses ... WHERE id = e: no row, no effect, no error.
UpdateExpenseRow(d, e, b) ==
    IF Exists(d, e) THEN [d EXCEPT !.exp[e] = Header(b)] ELSE d

\* Mutant: the shares of the earlier version stay.
KeepSharesOf(d, e) == d

DeleteSharesOf(d, e) == [d EXCEPT !.rows[e] = NoShares]

\* Mutant: what somebody owes is stored as a negative amount.
InsertNegatedShareRow(d, e, u, n) == [d EXCEPT !.rows[e][u] = -n]

InsertShareRow(d, e, u, n) == [d EXCEPT !.rows[e][u] = n]

\* DELETE FROM expenses: the shares go with the row (ON DELETE CASCADE).
DeleteExpenseRow(d, e) == [d EXCEPT !.exp[e] = NoRow, !.rows[e] = NoShares]

InsertSettlement(d, r, p) == [d EXCEPT !.stl = @ \cup {<<r, p>>}]

-----------------------------------------------------------------------------
(* Mutating requests *)

\* The foreign keys to users of a row that r writes.
PayerKnown(r) == job[r].bill.payer \in Registered

PartiesKnown(r) == {job[r].pay.from, job[r].pay.to} \subseteq Registered

\* A create or settle goes straight to its write; an edit first looks the
\* expense up (expense_edit.go:88) and answers 404 if it is not there.
Arrive(r) ==
    /\ At(r, "new")
    /\ IF job[r].op = "update" /\ ~Exists(db, job[r].exp)
       THEN Goto(r, "failed")
       ELSE Goto(r, job[r].op)
    /\ UNCHANGED <<job, todo, dbVars, rdVars, crashes>>

\* The first write statement takes the write lock.
BeginCreate(r) ==
    /\ At(r, "create") /\ tx = NoOne
    /\ PayerKnown(r)
    /\ tx' = r
    /\ work' = InsertExpense(db, job[r].exp, job[r].bill)
    /\ todo' = [todo EXCEPT ![r] = Participants(job[r].bill.shares)]
    /\ Goto(r, "insert")
    /\ UNCHANGED <<job, db, rdVars, crashes>>

BeginUpdate(r) ==
    /\ At(r, "update") /\ tx = NoOne
    /\ Exists(db, job[r].exp) => PayerKnown(r)
    /\ tx' = r
    /\ work' = UpdateExpenseRow(db, job[r].exp, job[r].bill)
    /\ Goto(r, "clear")
    /\ UNCHANGED <<job, todo, db, rdVars, crashes>>

DeleteShares(r) ==
    /\ At(r, "clear")
    /\ work' = DeleteSharesOf(work, job[r].exp)
    /\ todo' = [todo EXCEPT ![r] = Participants(job[r].bill.shares)]
    /\ Goto(r, "insert")
    /\ UNCHANGED <<job, db, tx, rdVars, crashes>>

\* Mutant: the error of an INSERT is not looked at.
InsertShareOrGoOn(r) ==
    /\ At(r, "insert")
    /\ \E u \in todo[r] :
          /\ work' = IF Exists(work, job[r].exp) /\ u \in Registered
                     THEN InsertShareRow(work, job[r].exp, u, job[r].bill.shares[u])
                     ELSE work
          /\ todo' = [todo EXCEPT ![r] = @ \ {u}]
    /\ UNCHANGED <<job, pc, db, tx, rdVars, crashes>>

InsertShare(r) ==
    /\ At(r, "insert")
    /\ Exists(work, job[r].exp)
    /\ \E u \in todo[r] \cap Registered :
          /\ work' = InsertShareRow(work, job[r].exp, u, job[r].bill.shares[u])
          /\ todo' = [todo EXCEPT ![r] = @ \ {u}]
    /\ UNCHANGED <<job, pc, db, tx, rdVars, crashes>>

\* An error ends the request, and the deferred Rollback undoes what its
\* transaction did.  A single statement has none to undo.
Rollback(r) ==
    /\ tx \in {NoOne, r}
    /\ tx' = NoOne
    /\ work' = db
    /\ todo' = [todo EXCEPT ![r] = {}]
    /\ Goto(r, "failed")
    /\ UNCHANGED <<job, db, rdVars, crashes>>

\* The payer, a party or, with some shares perhaps inserted, a participant is
\* not in users; or the shares are those of an expense that is gone.
ForeignKeyFails(r) ==
    /\ \/ At(r, "create") /\ ~PayerKnown(r)
       \/ At(r, "update") /\ Exists(db, job[r].exp) /\ ~PayerKnown(r)
       \/ At(r, "insert") /\ \E u \in todo[r] :
                                u \notin Registered \/ ~Exists(work, job[r].exp)
       \/ At(r, "settle") /\ ~PartiesKnown(r)
    /\ Rollback(r)

\* A statement meets a full disk or an I/O error, or the commit does.
StorageFails(r) ==
    /\ pc[r] \in {"create", "update", "delete", "settle", "clear", "insert"}
    /\ Rollback(r)

Reading == rd.at \in {"shares", "done"}

\* Mutant: Commit inside the loop over the shares.
CommitEarly(r) ==
    /\ At(r, "insert")
    /\ db' = work
    /\ tx' = NoOne
    /\ Goto(r, "committed")
    /\ edited' = (edited \/ (Reading /\ job[r].op = "update"))
    /\ UNCHANGED <<job, todo, work, rd, crashes>>

Commit(r) ==
    /\ At(r, "insert") /\ todo[r] = {}
    /\ db' = work
    /\ tx' = NoOne
    /\ Goto(r, "committed")
    /\ edited' = (edited \/ (Reading /\ job[r].op = "update"))
    /\ UNCHANGED <<job, todo, work, rd, crashes>>

\* Single statements commit by themselves.
Delete(r) ==
    /\ At(r, "delete") /\ tx = NoOne
    /\ db' = DeleteExpenseRow(db, job[r].exp)
    /\ work' = db'
    /\ Goto(r, "committed")
    /\ edited' = (edited \/ Reading)
    /\ UNCHANGED <<job, todo, tx, rd, crashes>>

Settle(r) ==
    /\ At(r, "settle") /\ tx = NoOne
    /\ PartiesKnown(r)
    /\ db' = InsertSettlement(db, r, job[r].pay)
    /\ work' = db'
    /\ Goto(r, "committed")
    /\ UNCHANGED <<job, todo, tx, rdVars, crashes>>

\* Another writer keeps the lock for longer than busy_timeout.
Busy(r) ==
    /\ pc[r] \in {"create", "update", "delete", "settle"} /\ tx # NoOne
    /\ Goto(r, "failed")
    /\ UNCHANGED <<job, todo, dbVars, rdVars, crashes>>

-----------------------------------------------------------------------------
(* Balances: one query lists the expenses, one more reads the shares of    *)
(* each of them, one reads the settlements                                 *)

Listed(d) == {e \in Expenses : Exists(d, e)}

ListExpenses ==
    /\ rd.at = "idle"
    /\ rd' = [rd EXCEPT !.at = "shares", !.exp = db.exp, !.todo = Listed(db)]
    /\ edited' = FALSE
    /\ UNCHANGED <<reqVars, dbVars, crashes>>

ReadShares ==
    /\ rd.at = "shares"
    /\ \E e \in rd.todo :
          rd' = [rd EXCEPT !.rows[e] = db.rows[e], !.todo = @ \ {e}]
    /\ UNCHANGED <<reqVars, dbVars, edited, crashes>>

\* Mutant: the expense rows are read again after their shares.
ReadSettlementsAndRelist ==
    /\ rd.at = "shares" /\ rd.todo = {}
    /\ rd' = [rd EXCEPT !.at = "done", !.stl = db.stl, !.exp = db.exp]
    /\ UNCHANGED <<reqVars, dbVars, edited, crashes>>

ReadSettlements ==
    /\ rd.at = "shares" /\ rd.todo = {}
    /\ rd' = [rd EXCEPT !.at = "done", !.stl = db.stl]
    /\ UNCHANGED <<reqVars, dbVars, edited, crashes>>

\* The page is sent; another one may be asked for.
Respond ==
    /\ rd.at = "done"
    /\ rd' = NotReading
    /\ edited' = FALSE
    /\ UNCHANGED <<reqVars, dbVars, crashes>>

\* balances.go:34-49.  d is a database state or what a reader has read.
Net(d, c, u) ==
    LET fronted(e) == IF d.exp[e].payer = u THEN d.exp[e].amount ELSE 0
        consumed(e) == IF d.rows[e][u] # NoRow THEN d.rows[e][u] ELSE 0
        inCur == {e \in Listed(d) : d.exp[e].cur = c}
        paid(s) == IF s[2].from = u THEN s[2].amount ELSE 0
        got(s) == IF s[2].to = u THEN s[2].amount ELSE 0
        stlCur == {s \in d.stl : s[2].cur = c}
    IN    SumOver([e \in inCur |-> fronted(e) - consumed(e)], inCur)
        + SumOver([s \in stlCur |-> paid(s) - got(s)], stlCur)

NetSum(d, c) == SumOver([u \in Users |-> Net(d, c, u)], Users)

-----------------------------------------------------------------------------

\* The process dies: requests in flight and the reader are gone, and SQLite
\* discards the transaction that had not committed.
Crash ==
    /\ crashes < MaxCrashes
    /\ crashes' = crashes + 1
    /\ pc' = [r \in Requests |->
                 IF pc[r] \in {"new", "committed"} THEN pc[r] ELSE "failed"]
    /\ todo' = [r \in Requests |-> {}]
    /\ tx' = NoOne
    /\ work' = db
    /\ rd' = NotReading
    /\ edited' = FALSE
    /\ UNCHANGED <<job, db>>

RequestStep(r) ==
    \/ Arrive(r) \/ BeginCreate(r) \/ BeginUpdate(r) \/ DeleteShares(r)
    \/ InsertShare(r) \/ Commit(r) \/ Delete(r) \/ Settle(r)
    \/ ForeignKeyFails(r) \/ StorageFails(r) \/ Busy(r)

ReaderStep == ListExpenses \/ ReadShares \/ ReadSettlements \/ Respond

Next == \/ \E r \in Requests : RequestStep(r)
        \/ ReaderStep
        \/ Crash

Spec == Init /\ [][Next]_vars

-----------------------------------------------------------------------------

Tables == [exp : [Expenses -> Headers \cup {NoRow}],
           rows : [Expenses -> ShareRows],
           stl : SUBSET (Requests \X Payments)]

Labels == {"new", "create", "update", "delete", "settle", "clear", "insert",
           "committed", "failed"}

\* The values the tables, a transaction and a reader take (db.go:45-121).
TypeOK ==
    /\ job \in [Requests -> Jobs]
    /\ pc \in [Requests -> Labels]
    /\ todo \in [Requests -> SUBSET Users]
    /\ db \in Tables /\ work \in Tables
    /\ tx \in Requests \cup {NoOne}
    /\ rd \in [at : {"idle", "shares", "done"}, todo : SUBSET Expenses,
               exp : [Expenses -> Headers \cup {NoRow}],
               rows : [Expenses -> ShareRows],
               stl : SUBSET (Requests \X Payments)]
    /\ edited \in BOOLEAN
    /\ crashes \in 0..MaxCrashes

(***************************************************************************)
(* Every stored expense is one request's work, whole: its row and all its  *)
(* share rows come from the same create or edit, and no share outlives its *)
(* expense.  An edit racing another edit, a deletion, a participant that   *)
(* is not registered, met after some shares, or a crash between any two    *)
(* statements leaves no mixture (expenses.go:9-89, 176-179).               *)
(***************************************************************************)
WholeExpenses ==
    \A e \in Expenses :
        \/ db.exp[e] = NoRow /\ db.rows[e] = NoShares
        \/ \E b \in Bills : db.exp[e] = Header(b) /\ db.rows[e] = b.shares

(***************************************************************************)
(* "expenses + settlements should always net to zero across all            *)
(* participants" (simplify.go:64-67): so they do in the stored ledger, in  *)
(* every currency.                                                         *)
(***************************************************************************)
LedgerNetsToZero == \A c \in Currencies : NetSum(db, c) = 0

(***************************************************************************)
(* A deletion is final: an expense enters the table only when its creation *)
(* commits, so an edit that passed its existence check before the deletion *)
(* does not bring it back (expense_edit.go:88, expenses.go:56-80).         *)
(***************************************************************************)
NoResurrection ==
    [][\A e \in Expenses :
          ~Exists(db, e) /\ Exists(db, e)' =>
              \E r \in Requests : /\ job[r].op = "create" /\ job[r].exp = e
                                  /\ pc[r] # "committed" /\ pc'[r] = "committed"]_vars

(***************************************************************************)
(* Creations and settlements that commit while the balances are being read *)
(* never unbalance the page: only an edit or a deletion of an expense      *)
(* already listed can (balances.go:27-49, expenses.go:119-152).            *)
(***************************************************************************)
ReadUnbalancedOnlyByEdits ==
    rd.at = "done" /\ ~edited => \A c \in Currencies : NetSum(rd, c) = 0

(***************************************************************************)
(* The page's net balances sum to zero whenever the stored ones do.  The   *)
(* code takes a non-zero sum for "a data integrity violation upstream"     *)
(* (simplify.go:64-66), which the ledger excludes; yet a reader's queries  *)
(* share no snapshot.                                                      *)
(***************************************************************************)
ReadNetsToZero ==
    rd.at = "done" => \A c \in Currencies : NetSum(rd, c) = 0

-----------------------------------------------------------------------------

\* The committed bill of an expense.
Recorded(e) ==
    IF db.exp[e] = NoRow THEN NoRow
    ELSE [payer |-> db.exp[e].payer, amount |-> db.exp[e].amount,
          cur |-> db.exp[e].cur, shares |-> db.rows[e]]

Atomic == INSTANCE AtomicLedger WITH
    ledger <- [e \in Expenses |-> Recorded(e)],
    payments <- db.stl,
    done <- {r \in Requests : pc[r] = "committed"}

(***************************************************************************)
(* The store implements AtomicLedger: statements, foreign keys, lock       *)
(* waits and crashes included, a request takes effect at its commit or not *)
(* at all ("all atomically", expenses.go:43-44).                           *)
(***************************************************************************)
ImplementsAtomicLedger == Atomic!Spec
=============================================================================
