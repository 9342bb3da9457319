---------------------------- MODULE LedgerProofs ----------------------------
(***************************************************************************)
(* What holds of the ledger for any people, bills, payments, number of     *)
(* concurrent requests and number of crashes.  The argument: only the      *)
(* holder of the write lock touches the working copy, and there only its   *)
(* own expense (TxInv); at its commit that expense is whole, because every *)
(* share row has been inserted.  A row that is refused, at whichever       *)
(* statement, sends the working copy back to the committed state.          *)
(***************************************************************************)
EXTENDS Ledger, SumProofs, TLAPS

Writes(r) == job[r].op \in {"create", "update"}

\* A request is only ever at the labels of what it asks for.
LabelInv ==
    \A r \in Requests :
        /\ pc[r] \in {"create", "update", "delete", "settle"} => pc[r] = job[r].op
        /\ pc[r] = "clear" => job[r].op = "update"
        /\ pc[r] = "insert" => Writes(r)

LockInv ==
    /\ \A r \in Requests : pc[r] \in {"clear", "insert"} <=> tx = r
    /\ tx = NoOne => work = db

\* The ids drawn for creations are distinct, and unused until the commit.
FreshInv ==
    /\ \A r, q \in Requests :
          r # q /\ job[r].op = "create" /\ job[q].op = "create" =>
              job[r].exp # job[q].exp
    /\ \A r \in Requests :
          job[r].op = "create" /\ pc[r] # "committed" => db.exp[job[r].exp] = NoRow

\* How far the transaction of request r has got with expense e and bill b.
Progress(r, e, b) ==
    /\ work.stl = db.stl
    /\ \A f \in Expenses \ {e} : work.exp[f] = db.exp[f] /\ work.rows[f] = db.rows[f]
    /\ work.exp[e] \in {Header(b), NoRow}
    /\ job[r].op = "create" => work.exp[e] = Header(b)
    /\ job[r].op = "update" => (work.exp[e] = NoRow <=> db.exp[e] = NoRow)
    /\ pc[r] = "insert" =>
          /\ todo[r] \subseteq Participants(b.shares)
          /\ work.rows[e] = [u \in Users |-> IF u \in todo[r] THEN NoRow ELSE b.shares[u]]
          /\ work.exp[e] = NoRow => todo[r] = Participants(b.shares)

TxInv == \A r \in Requests : tx = r => Progress(r, job[r].exp, job[r].bill)

Ind == TypeOK /\ LabelInv /\ LockInv /\ FreshInv /\ TxInv /\ WholeExpenses

-----------------------------------------------------------------------------
(* What the statements do to the tables *)

LEMMA EmptyTables == EmptyDb \in Tables
  BY DEF EmptyDb, Tables, ShareRows, NoShares

LEMMA BillTypes ==
    ASSUME NEW b \in Bills
    PROVE  /\ Header(b) \in Headers /\ Header(b) # NoRow /\ b # NoRow
           /\ b.shares \in ShareRows /\ Participants(b.shares) # {}
           /\ b.shares # NoShares
           /\ Participants(b.shares) \subseteq Users
           /\ \A u \in Participants(b.shares) : b.shares[u] \in Nat
  BY BillsAssumption, NoRowAssumption DEF Participants, ShareRows, NoShares

LEMMA InsertExpenseDoes ==
    ASSUME NEW d \in Tables, NEW e \in Expenses, NEW b \in Bills
    PROVE  LET n == InsertExpense(d, e, b)
           IN  /\ n \in Tables /\ n.rows = d.rows /\ n.stl = d.stl
               /\ n.exp = [d.exp EXCEPT ![e] = Header(b)]
  BY BillTypes DEF Tables, InsertExpense

LEMMA DeleteSharesDoes ==
    ASSUME NEW d \in Tables, NEW e \in Expenses
    PROVE  LET n == DeleteSharesOf(d, e)
           IN  /\ n \in Tables /\ n.exp = d.exp /\ n.stl = d.stl
               /\ n.rows = [d.rows EXCEPT ![e] = NoShares]
  BY DEF Tables, DeleteSharesOf, ShareRows, NoShares

LEMMA InsertShareDoes ==
    ASSUME NEW d \in Tables, NEW e \in Expenses, NEW u \in Users, NEW k \in Nat
    PROVE  LET n == InsertShareRow(d, e, u, k)
           IN  /\ n \in Tables /\ n.exp = d.exp /\ n.stl = d.stl
               /\ n.rows = [d.rows EXCEPT ![e] = [d.rows[e] EXCEPT ![u] = k]]
  BY DEF Tables, InsertShareRow, ShareRows

LEMMA DeleteExpenseDoes ==
    ASSUME NEW d \in Tables, NEW e \in Expenses
    PROVE  LET n == DeleteExpenseRow(d, e)
           IN  /\ n \in Tables /\ n.stl = d.stl
               /\ n.exp = [d.exp EXCEPT ![e] = NoRow]
               /\ n.rows = [d.rows EXCEPT ![e] = NoShares]
  BY DEF Tables, DeleteExpenseRow, ShareRows, NoShares

LEMMA InsertSettlementDoes ==
    ASSUME NEW d \in Tables, NEW r \in Requests, NEW p \in Payments
    PROVE  LET n == InsertSettlement(d, r, p)
           IN  /\ n \in Tables /\ n.exp = d.exp /\ n.rows = d.rows
               /\ n.stl = d.stl \cup {<<r, p>>}
  BY DEF Tables, InsertSettlement

LEMMA JobTypes ==
    ASSUME TypeOK, NEW r \in Requests
    PROVE  /\ job[r].op \in {"create", "update", "delete", "settle"}
           /\ Writes(r) => job[r].exp \in Expenses /\ job[r].bill \in Bills
           /\ job[r].op = "delete" => job[r].exp \in Expenses
           /\ job[r].op = "settle" => job[r].pay \in Payments
  BY DEF TypeOK, Jobs, Writes

\* The pieces of TypeOK.
ReaderType ==
    /\ rd \in [at : {"idle", "shares", "done"}, todo : SUBSET Expenses,
               exp : [Expenses -> Headers \cup {NoRow}],
               rows : [Expenses -> ShareRows],
               stl : SUBSET (Requests \X Payments)]
    /\ edited \in BOOLEAN

LEMMA NotReadingType == NotReading \in [at : {"idle", "shares", "done"},
               todo : SUBSET Expenses, exp : [Expenses -> Headers \cup {NoRow}],
               rows : [Expenses -> ShareRows], stl : SUBSET (Requests \X Payments)]
  BY EmptyTables DEF NotReading, Tables, EmptyDb

-----------------------------------------------------------------------------

LEMMA InitInd == Init => Ind
<1> SUFFICES ASSUME Init PROVE Ind
  OBVIOUS
<1>1. TypeOK
  <2>1. db \in Tables /\ work \in Tables
    BY EmptyTables DEF Init
  <2>2. ReaderType
    BY NotReadingType DEF Init, ReaderType
  <2>3. crashes \in 0..MaxCrashes
    BY MaxCrashesAssumption DEF Init
  <2> QED
    BY <2>1, <2>2, <2>3 DEF Init, TypeOK, ReaderType, Labels
<1>2. LabelInv /\ LockInv /\ TxInv
  BY NoOneAssumption DEF Init, LabelInv, LockInv, TxInv
<1>3. FreshInv
  BY <1>1, JobTypes DEF Init, FreshInv, EmptyDb, Writes
<1>4. WholeExpenses
  BY DEF Init, WholeExpenses, EmptyDb
<1> QED
  BY <1>1, <1>2, <1>3, <1>4 DEF Ind

\* A request that moves between labels outside a transaction, short of a
\* commit, disturbs nothing.
LEMMA QuietInd ==
    ASSUME Ind, NEW r \in Requests, Arrive(r) \/ Busy(r)
    PROVE  Ind'
<1> USE DEF Ind
<1>1. PICK l \in {"create", "update", "delete", "settle", "failed"} :
          /\ pc' = [pc EXCEPT ![r] = l]
          /\ l # "failed" => l = job[r].op
  BY JobTypes DEF Arrive, Busy, Goto
<1>2. /\ UNCHANGED <<job, todo, db, work, tx, rd, edited, crashes>>
      /\ pc[r] \in {"new", "create", "update", "delete", "settle"}
  BY DEF Arrive, Busy, At, dbVars, rdVars
<1>3. TypeOK'
  BY <1>1, <1>2 DEF TypeOK, Labels
<1>4. LabelInv' /\ FreshInv' /\ WholeExpenses'
  BY <1>1, <1>2 DEF LabelInv, FreshInv, WholeExpenses, TypeOK, Writes
<1>5. LockInv'
  BY <1>1, <1>2 DEF LockInv, TypeOK
<1>6. TxInv'
  <2>1. tx # r
    BY <1>2 DEF LockInv
  <2> QED
    BY <1>1, <1>2, <2>1 DEF TxInv, Progress, TypeOK
<1> QED
  BY <1>3, <1>4, <1>5, <1>6

LEMMA BeginCreateInd ==
    ASSUME Ind, NEW r \in Requests, BeginCreate(r)
    PROVE  Ind'
<1> USE DEF Ind
<1> DEFINE e == job[r].exp
           b == job[r].bill
<1>1. /\ pc[r] = "create" /\ tx = NoOne /\ work = db
      /\ job[r].op = "create" /\ Writes(r)
  BY DEF BeginCreate, At, LockInv, LabelInv, Writes
<1>2. e \in Expenses /\ b \in Bills /\ db \in Tables
  BY <1>1, JobTypes DEF TypeOK
<1>3. /\ UNCHANGED <<job, db, rd, edited, crashes>>
      /\ tx' = r /\ work' = InsertExpense(db, e, b)
      /\ todo' = [todo EXCEPT ![r] = Participants(b.shares)]
      /\ pc' = [pc EXCEPT ![r] = "insert"]
  BY DEF BeginCreate, Goto, rdVars
<1>0. e' = e /\ b' = b
  BY DEF BeginCreate
<1> HIDE DEF e, b
<1>4. /\ work' \in Tables /\ work'.rows = db.rows /\ work'.stl = db.stl
      /\ work'.exp = [db.exp EXCEPT ![e] = Header(b)]
  BY <1>2, <1>3, InsertExpenseDoes
<1>5. TypeOK'
  BY <1>2, <1>3, <1>4, BillTypes DEF TypeOK, Labels
<1>6. LabelInv' /\ FreshInv' /\ WholeExpenses'
  BY <1>1, <1>3 DEF LabelInv, FreshInv, WholeExpenses, TypeOK, Writes
<1>7. LockInv'
  BY <1>1, <1>3, NoOneAssumption DEF LockInv, TypeOK
<1>8. TxInv'
  <2>1. db.exp[e] = NoRow
    BY <1>1 DEF FreshInv, e
  <2>2. db.rows[e] = NoShares
    BY <1>2, <2>1, BillTypes DEF WholeExpenses
  <2>3. [u \in Users |-> IF u \in Participants(b.shares) THEN NoRow ELSE b.shares[u]]
            = NoShares
    BY DEF Participants, NoShares
  <2>4. /\ work'.exp[e] = Header(b) /\ work'.rows[e] = NoShares
        /\ \A f \in Expenses \ {e} : work'.exp[f] = db.exp[f] /\ work'.rows[f] = db.rows[f]
        /\ Header(b) # NoRow
        /\ todo'[r] = Participants(b.shares) /\ job[r].op # "update"
    BY <1>1, <1>2, <1>3, <1>4, <2>2, BillTypes DEF Tables, TypeOK
  <2>5. Progress(r, e, b)'
    BY <1>0, <1>3, <1>4, <2>3, <2>4 DEF Progress
  <2> QED
    BY <1>3, <2>5, NoOneAssumption DEF TxInv, e, b
<1> QED
  BY <1>5, <1>6, <1>7, <1>8

LEMMA BeginUpdateInd ==
    ASSUME Ind, NEW r \in Requests, BeginUpdate(r)
    PROVE  Ind'
<1> USE DEF Ind
<1> DEFINE e == job[r].exp
           b == job[r].bill
<1>1. /\ pc[r] = "update" /\ tx = NoOne /\ work = db
      /\ job[r].op = "update" /\ Writes(r)
  BY DEF BeginUpdate, At, LockInv, LabelInv, Writes
<1>2. e \in Expenses /\ b \in Bills /\ db \in Tables
  BY <1>1, JobTypes DEF TypeOK
<1>3. /\ UNCHANGED <<job, todo, db, rd, edited, crashes>>
      /\ tx' = r /\ work' = UpdateExpenseRow(db, e, b)
      /\ pc' = [pc EXCEPT ![r] = "clear"]
  BY DEF BeginUpdate, Goto, rdVars
<1>0. e' = e /\ b' = b
  BY DEF BeginUpdate
<1> HIDE DEF e, b
<1>4. /\ work' \in Tables /\ work'.rows = db.rows /\ work'.stl = db.stl
      /\ work'.exp = IF db.exp[e] # NoRow THEN [db.exp EXCEPT ![e] = Header(b)]
                     ELSE db.exp
  BY <1>2, <1>3, InsertExpenseDoes DEF UpdateExpenseRow, InsertExpense, Exists
<1>5. TypeOK'
  BY <1>2, <1>3, <1>4 DEF TypeOK, Labels
<1>6. LabelInv' /\ FreshInv' /\ WholeExpenses'
  BY <1>1, <1>3 DEF LabelInv, FreshInv, WholeExpenses, TypeOK, Writes
<1>7. LockInv'
  BY <1>1, <1>3, NoOneAssumption DEF LockInv, TypeOK
<1>8. TxInv'
  <2>1. /\ work'.exp[e] = IF db.exp[e] # NoRow THEN Header(b) ELSE NoRow
        /\ \A f \in Expenses \ {e} : work'.exp[f] = db.exp[f] /\ work'.rows[f] = db.rows[f]
        /\ Header(b) # NoRow
        /\ pc'[r] = "clear"
    BY <1>2, <1>3, <1>4, BillTypes DEF Tables, TypeOK
  <2>2. Progress(r, e, b)'
    BY <1>0, <1>1, <1>3, <1>4, <2>1 DEF Progress
  <2> QED
    BY <1>3, <2>2, NoOneAssumption DEF TxInv, e, b
<1> QED
  BY <1>5, <1>6, <1>7, <1>8

LEMMA DeleteSharesInd ==
    ASSUME Ind, NEW r \in Requests, DeleteShares(r)
    PROVE  Ind'
<1> USE DEF Ind
<1> DEFINE e == job[r].exp
           b == job[r].bill
<1>1. pc[r] = "clear" /\ tx = r /\ job[r].op = "update" /\ Writes(r)
  BY DEF DeleteShares, At, LockInv, LabelInv, Writes
<1>2. e \in Expenses /\ b \in Bills /\ work \in Tables
  BY <1>1, JobTypes DEF TypeOK
<1>3. /\ UNCHANGED <<job, db, tx, rd, edited, crashes>>
      /\ work' = DeleteSharesOf(work, e)
      /\ todo' = [todo EXCEPT ![r] = Participants(b.shares)]
      /\ pc' = [pc EXCEPT ![r] = "insert"]
  BY DEF DeleteShares, Goto, rdVars
<1>4. Progress(r, e, b)
  BY <1>1 DEF TxInv
<1>0. e' = e /\ b' = b
  BY DEF DeleteShares
<1> HIDE DEF e, b
<1>5. /\ work' \in Tables /\ work'.exp = work.exp /\ work'.stl = work.stl
      /\ work'.rows = [work.rows EXCEPT ![e] = NoShares]
  BY <1>2, <1>3, DeleteSharesDoes
<1>6. TypeOK'
  BY <1>2, <1>3, <1>5, BillTypes DEF TypeOK, Labels
<1>7. LabelInv' /\ FreshInv' /\ WholeExpenses'
  BY <1>1, <1>3 DEF LabelInv, FreshInv, WholeExpenses, TypeOK, Writes
<1>8. LockInv'
  BY <1>1, <1>3, NoOneAssumption DEF LockInv, TypeOK
<1>9. TxInv'
  <2>1. [u \in Users |-> IF u \in Participants(b.shares) THEN NoRow ELSE b.shares[u]]
            = NoShares
    BY DEF Participants, NoShares
  <2>2. /\ work'.rows[e] = NoShares /\ todo'[r] = Participants(b.shares)
        /\ \A f \in Expenses \ {e} : work'.rows[f] = work.rows[f]
    BY <1>2, <1>3, <1>5 DEF Tables, TypeOK
  <2>3. Progress(r, e, b)'
    BY <1>0, <1>3, <1>4, <1>5, <2>1, <2>2 DEF Progress
  <2> QED
    BY <1>1, <1>3, <2>3 DEF TxInv, e, b
<1> QED
  BY <1>6, <1>7, <1>8, <1>9

LEMMA InsertShareInd ==
    ASSUME Ind, NEW r \in Requests, InsertShare(r)
    PROVE  Ind'
<1> USE DEF Ind
<1> DEFINE e == job[r].exp
           b == job[r].bill
<1>1. pc[r] = "insert" /\ tx = r /\ Writes(r) /\ work.exp[e] # NoRow
  BY DEF InsertShare, At, Exists, LockInv, LabelInv
<1>2. e \in Expenses /\ b \in Bills /\ work \in Tables
  BY <1>1, JobTypes DEF TypeOK
<1>3. PICK u \in todo[r] : /\ work' = InsertShareRow(work, e, u, b.shares[u])
                           /\ todo' = [todo EXCEPT ![r] = @ \ {u}]
  BY DEF InsertShare
<1>4. UNCHANGED <<job, pc, db, tx, rd, edited, crashes>>
  BY DEF InsertShare, rdVars
<1>5. Progress(r, e, b)
  BY <1>1 DEF TxInv
<1>0. e' = e /\ b' = b
  BY DEF InsertShare
<1> HIDE DEF e, b
<1>6. u \in Participants(b.shares) /\ u \in Users /\ b.shares[u] \in Nat
  BY <1>1, <1>2, <1>5, BillTypes DEF Progress
<1>7. /\ work' \in Tables /\ work'.exp = work.exp /\ work'.stl = work.stl
      /\ work'.rows = [work.rows EXCEPT ![e] = [work.rows[e] EXCEPT ![u] = b.shares[u]]]
  BY <1>2, <1>3, <1>6, InsertShareDoes
<1>8. TypeOK'
  BY <1>3, <1>4, <1>7 DEF TypeOK
<1>9. LabelInv' /\ FreshInv' /\ WholeExpenses' /\ LockInv'
  BY <1>1, <1>4, NoOneAssumption DEF LabelInv, FreshInv, WholeExpenses, Writes, LockInv
<1>10. TxInv'
  <2>1. /\ todo'[r] = todo[r] \ {u}
        /\ work'.rows[e] = [work.rows[e] EXCEPT ![u] = b.shares[u]]
        /\ \A f \in Expenses \ {e} : work'.rows[f] = work.rows[f]
    BY <1>2, <1>3, <1>7 DEF Tables, TypeOK
  <2>2. work'.rows[e] =
            [v \in Users |-> IF v \in todo'[r] THEN NoRow ELSE b.shares[v]]
    BY <1>1, <1>5, <1>6, <2>1 DEF Progress
  <2>3. Progress(r, e, b)'
    BY <1>0, <1>1, <1>4, <1>5, <1>7, <2>1, <2>2 DEF Progress
  <2> QED
    BY <1>1, <1>4, <2>3 DEF TxInv, e, b
<1> QED
  BY <1>8, <1>9, <1>10

\* Rolling back: the lock is free, the working copy is the committed state.
LEMMA RollbackInd ==
    ASSUME Ind, NEW r \in Requests, ForeignKeyFails(r) \/ StorageFails(r)
    PROVE  Ind'
<1> USE DEF Ind
<1>1. /\ UNCHANGED <<job, db, rd, edited, crashes>>
      /\ tx' = NoOne /\ work' = db /\ todo' = [todo EXCEPT ![r] = {}]
      /\ pc' = [pc EXCEPT ![r] = "failed"] /\ pc[r] # "committed"
      /\ tx \in {NoOne, r}
  BY DEF ForeignKeyFails, StorageFails, Rollback, Goto, At, rdVars
<1>2. TypeOK'
  BY <1>1 DEF TypeOK, Labels
<1>3. LabelInv' /\ FreshInv' /\ WholeExpenses'
  BY <1>1 DEF LabelInv, FreshInv, WholeExpenses, TypeOK, Writes
<1>4. LockInv' /\ TxInv'
  BY <1>1, NoOneAssumption DEF LockInv, TxInv, TypeOK
<1> QED
  BY <1>2, <1>3, <1>4

\* At a commit the transaction's expense is complete.
LEMMA CommitWhole ==
    ASSUME Ind, NEW r \in Requests, Commit(r)
    PROVE  LET e == job[r].exp
               b == job[r].bill
           IN  /\ Writes(r) /\ tx = r /\ e \in Expenses /\ b \in Bills
               /\ pc[r] = "insert" /\ todo[r] = {}
               /\ job[r].op = "update" <=> db.exp[e] # NoRow
               /\ work.exp[e] = Header(b) /\ work.rows[e] = b.shares
               /\ \A f \in Expenses \ {e} :
                      work.exp[f] = db.exp[f] /\ work.rows[f] = db.rows[f]
               /\ work.stl = db.stl
<1> USE DEF Ind
<1> DEFINE e == job[r].exp
           b == job[r].bill
<1>1. pc[r] = "insert" /\ todo[r] = {} /\ tx = r /\ Writes(r)
  BY DEF Commit, At, LockInv, LabelInv
<1>2. e \in Expenses /\ b \in Bills
  BY <1>1, JobTypes
<1>3. Progress(r, e, b)
  BY <1>1 DEF TxInv
<1>4. job[r].op = "create" => db.exp[e] = NoRow
  BY <1>1 DEF FreshInv
<1> HIDE DEF e, b
<1>5. work.exp[e] = Header(b) /\ Header(b) # NoRow
  BY <1>1, <1>2, <1>3, BillTypes DEF Progress
<1>6. work.rows[e] = b.shares
  BY <1>1, <1>2, <1>3, BillTypes DEF Progress, ShareRows
<1>7. job[r].op = "update" <=> db.exp[e] # NoRow
  BY <1>1, <1>3, <1>4, <1>5 DEF Progress, Writes
<1> QED
  BY <1>1, <1>2, <1>3, <1>5, <1>6, <1>7 DEF Progress, e, b

LEMMA CommitInd ==
    ASSUME Ind, NEW r \in Requests, Commit(r)
    PROVE  Ind'
<1> USE DEF Ind
<1> DEFINE e == job[r].exp
           b == job[r].bill
<1>1. /\ Writes(r) /\ tx = r /\ e \in Expenses /\ b \in Bills /\ pc[r] = "insert"
      /\ work.exp[e] = Header(b) /\ work.rows[e] = b.shares
      /\ \A f \in Expenses \ {e} : work.exp[f] = db.exp[f] /\ work.rows[f] = db.rows[f]
      /\ job[r].op = "update" <=> db.exp[e] # NoRow
  BY CommitWhole
<1>2. /\ UNCHANGED <<job, todo, work, rd, crashes>> /\ db' = work /\ tx' = NoOne
      /\ pc' = [pc EXCEPT ![r] = "committed"]
      /\ edited' = (edited \/ (Reading /\ job[r].op = "update"))
  BY DEF Commit, Goto
<1>3. TypeOK'
  BY <1>2 DEF TypeOK, Labels, Reading
<1>4. LabelInv'
  BY <1>2 DEF LabelInv, TypeOK, Writes
<1>5. FreshInv'
  <2>1. ASSUME NEW q \in Requests, job[q].op = "create", pc'[q] # "committed"
        PROVE  db'.exp[job[q].exp] = NoRow
    <3>1. q # r /\ db.exp[job[q].exp] = NoRow /\ job[q].exp \in Expenses
      BY <1>2, <2>1, JobTypes DEF FreshInv, TypeOK, Writes
    <3>2. job[q].exp # e
      <4>1. CASE job[r].op = "create"
        BY <2>1, <3>1, <4>1 DEF FreshInv
      <4>2. CASE job[r].op = "update"
        BY <1>1, <3>1, <4>2
      <4> QED
        BY <1>1, <4>1, <4>2 DEF Writes
    <3> QED
      BY <1>1, <1>2, <3>1, <3>2
  <2> QED
    BY <1>2, <2>1 DEF FreshInv
<1>6. LockInv' /\ TxInv'
  BY <1>1, <1>2, NoOneAssumption DEF LockInv, TxInv, TypeOK
<1>7. WholeExpenses'
  <2>1. ASSUME NEW f \in Expenses
        PROVE  \/ work.exp[f] = NoRow /\ work.rows[f] = NoShares
               \/ \E c \in Bills : work.exp[f] = Header(c) /\ work.rows[f] = c.shares
    <3>1. CASE f = e
      BY <1>1, <3>1
    <3>2. CASE f # e
      BY <1>1, <3>2 DEF WholeExpenses
    <3> QED
      BY <3>1, <3>2
  <2> QED
    BY <1>2, <2>1 DEF WholeExpenses
<1> QED
  BY <1>3, <1>4, <1>5, <1>6, <1>7

LEMMA DeleteInd ==
    ASSUME Ind, NEW r \in Requests, Delete(r)
    PROVE  Ind'
<1> USE DEF Ind
<1> DEFINE e == job[r].exp
<1>1. pc[r] = "delete" /\ tx = NoOne /\ job[r].op = "delete"
  BY DEF Delete, At, LabelInv
<1>2. e \in Expenses /\ db \in Tables
  BY <1>1, JobTypes DEF TypeOK
<1>3. /\ UNCHANGED <<job, todo, tx, rd, crashes>>
      /\ db' = DeleteExpenseRow(db, e) /\ work' = db'
      /\ pc' = [pc EXCEPT ![r] = "committed"]
      /\ edited' = (edited \/ Reading)
  BY DEF Delete, Goto
<1> HIDE DEF e
<1>4. /\ db' \in Tables /\ db'.stl = db.stl
      /\ db'.exp = [db.exp EXCEPT ![e] = NoRow]
      /\ db'.rows = [db.rows EXCEPT ![e] = NoShares]
  BY <1>2, <1>3, DeleteExpenseDoes
<1>5. TypeOK'
  BY <1>3, <1>4 DEF TypeOK, Labels, Reading
<1>6. LabelInv'
  BY <1>3 DEF LabelInv, TypeOK, Writes
<1>7. FreshInv'
  <2>1. \A f \in Expenses : db.exp[f] = NoRow => db'.exp[f] = NoRow
    BY <1>2, <1>4 DEF Tables
  <2>2. \A q \in Requests : job[q].op = "create" => job[q].exp \in Expenses
    BY JobTypes DEF Writes
  <2>3. \A q \in Requests : pc'[q] # "committed" => pc[q] # "committed"
    BY <1>3 DEF TypeOK
  <2> QED
    BY <1>3, <2>1, <2>2, <2>3 DEF FreshInv
<1>8. LockInv' /\ TxInv'
  BY <1>1, <1>3, NoOneAssumption DEF LockInv, TxInv, TypeOK
<1>9. WholeExpenses'
  BY <1>2, <1>4 DEF WholeExpenses, Tables
<1> QED
  BY <1>5, <1>6, <1>7, <1>8, <1>9

LEMMA SettleInd ==
    ASSUME Ind, NEW r \in Requests, Settle(r)
    PROVE  Ind'
<1> USE DEF Ind
<1>1. pc[r] = "settle" /\ tx = NoOne /\ job[r].pay \in Payments /\ db \in Tables
  BY JobTypes DEF Settle, At, LabelInv, TypeOK
<1>2. /\ UNCHANGED <<job, todo, tx, rd, edited, crashes>>
      /\ db' = InsertSettlement(db, r, job[r].pay) /\ work' = db'
      /\ pc' = [pc EXCEPT ![r] = "committed"]
  BY DEF Settle, Goto, rdVars
<1>3. db' \in Tables /\ db'.exp = db.exp /\ db'.rows = db.rows
  BY <1>1, <1>2, InsertSettlementDoes
<1>4. TypeOK'
  BY <1>2, <1>3 DEF TypeOK, Labels
<1>5. LabelInv' /\ FreshInv' /\ WholeExpenses'
  BY <1>2, <1>3 DEF LabelInv, FreshInv, WholeExpenses, TypeOK, Writes
<1>6. LockInv' /\ TxInv'
  BY <1>1, <1>2, NoOneAssumption DEF LockInv, TxInv, TypeOK
<1> QED
  BY <1>4, <1>5, <1>6

LEMMA ReaderInd ==
    ASSUME Ind, ReaderStep
    PROVE  Ind'
<1> USE DEF Ind
<1>1. UNCHANGED <<job, pc, todo, db, work, tx, crashes>>
  BY DEF ReaderStep, ListExpenses, ReadShares, ReadSettlements, Respond, reqVars, dbVars
<1>2. ReaderType'
  <2>1. CASE ListExpenses
    BY <2>1 DEF ListExpenses, ReaderType, TypeOK, Tables, Listed
  <2>2. CASE ReadShares
    <3>1. PICK e \in rd.todo :
              rd' = [rd EXCEPT !.rows[e] = db.rows[e], !.todo = @ \ {e}]
      BY <2>2 DEF ReadShares
    <3>2. /\ e \in Expenses /\ db.rows[e] \in ShareRows
          /\ rd.rows \in [Expenses -> ShareRows] /\ rd.todo \subseteq Expenses
      BY DEF TypeOK, Tables
    <3>3. [rd.rows EXCEPT ![e] = db.rows[e]] \in [Expenses -> ShareRows]
      BY <3>2
    <3>4. edited' = edited
      BY <2>2 DEF ReadShares
    <3> QED
      BY <3>1, <3>2, <3>3, <3>4 DEF ReaderType, TypeOK
  <2>3. CASE ReadSettlements
    BY <2>3 DEF ReadSettlements, ReaderType, TypeOK, Tables
  <2>4. CASE Respond
    BY <2>4, NotReadingType DEF Respond, ReaderType
  <2> QED
    BY <2>1, <2>2, <2>3, <2>4 DEF ReaderStep
<1>3. TypeOK'
  BY <1>1, <1>2 DEF TypeOK, ReaderType
<1>4. LabelInv' /\ LockInv' /\ FreshInv' /\ TxInv' /\ WholeExpenses'
  BY <1>1 DEF LabelInv, LockInv, FreshInv, TxInv, Progress, WholeExpenses, Writes
<1> QED
  BY <1>3, <1>4

LEMMA CrashInd == ASSUME Ind, Crash PROVE Ind'
<1> USE DEF Ind
<1>1. /\ UNCHANGED <<job, db>> /\ tx' = NoOne /\ work' = db
      /\ rd' = NotReading /\ edited' = FALSE /\ crashes' = crashes + 1
      /\ todo' = [r \in Requests |-> {}]
      /\ crashes < MaxCrashes
  BY DEF Crash
<1>2. /\ pc' \in [Requests -> Labels]
      /\ \A r \in Requests :
            pc'[r] = IF pc[r] \in {"new", "committed"} THEN pc[r] ELSE "failed"
  BY DEF Crash, TypeOK, Labels
<1>3. TypeOK'
  <2>1. ReaderType'
    BY <1>1, NotReadingType DEF ReaderType
  <2>2. crashes' \in 0..MaxCrashes
    BY <1>1, MaxCrashesAssumption DEF TypeOK
  <2>3. todo' \in [Requests -> SUBSET Users]
    BY <1>1
  <2> QED
    BY <1>1, <1>2, <2>1, <2>2, <2>3 DEF TypeOK, ReaderType
<1>4. LabelInv' /\ LockInv' /\ FreshInv' /\ TxInv' /\ WholeExpenses'
  BY <1>1, <1>2, NoOneAssumption
     DEF LabelInv, LockInv, FreshInv, TxInv, WholeExpenses, Writes
<1> QED
  BY <1>3, <1>4

LEMMA StutterInd == Ind /\ UNCHANGED vars => Ind'
  BY DEF vars, Ind, TypeOK, LabelInv, LockInv, FreshInv, TxInv, Progress,
         WholeExpenses, Writes

LEMMA StepInd == Ind /\ [Next]_vars => Ind'
  BY QuietInd, BeginCreateInd, BeginUpdateInd, DeleteSharesInd, InsertShareInd,
     RollbackInd, CommitInd, DeleteInd, SettleInd, ReaderInd, CrashInd,
     StutterInd
     DEF Next, RequestStep

\* The inductive invariant of the store holds in every state.
THEOREM IndAlways == Spec => []Ind
  BY InitInd, StepInd, PTL DEF Spec

(***************************************************************************)
(* Every variable keeps its type, the tables included.                     *)
(***************************************************************************)
THEOREM TypeCorrect == Spec => []TypeOK
<1>1. Ind => TypeOK
  BY DEF Ind
<1> QED
  BY <1>1, IndAlways, PTL

(***************************************************************************)
(* A stored expense is always the whole work of one request.               *)
(***************************************************************************)
THEOREM ExpensesStayWhole == Spec => []WholeExpenses
<1>1. Ind => WholeExpenses
  BY DEF Ind
<1> QED
  BY <1>1, IndAlways, PTL

\* Which steps change the committed tables, and how they leave the requests.
LEMMA OtherSteps ==
    ASSUME Ind, [Next]_vars,
           \A r \in Requests : ~Commit(r) /\ ~Delete(r) /\ ~Settle(r)
    PROVE  /\ db' = db
           /\ \A r \in Requests : pc'[r] = "committed" <=> pc[r] = "committed"
<1> USE DEF Ind
<1>1. CASE UNCHANGED vars
  BY <1>1 DEF vars
<1>2. CASE ReaderStep
  BY <1>2 DEF ReaderStep, ListExpenses, ReadShares, ReadSettlements, Respond,
              reqVars, dbVars
<1>3. CASE Crash
  BY <1>3 DEF Crash
<1>4. ASSUME NEW r \in Requests, RequestStep(r)
      PROVE  /\ db' = db
             /\ \A q \in Requests : pc'[q] = "committed" <=> pc[q] = "committed"
  <2>1. CASE Arrive(r)
    BY <2>1, JobTypes DEF Arrive, At, Goto, dbVars, TypeOK
  <2>2. CASE BeginCreate(r) \/ BeginUpdate(r) \/ DeleteShares(r)
    BY <2>2 DEF BeginCreate, BeginUpdate, DeleteShares, At, Goto, TypeOK
  <2>3. CASE InsertShare(r)
    BY <2>3 DEF InsertShare
  <2>4. CASE ForeignKeyFails(r) \/ StorageFails(r) \/ Busy(r)
    BY <2>4 DEF ForeignKeyFails, StorageFails, Rollback, Busy, At, Goto, dbVars, TypeOK
  <2> QED
    BY <1>4, <2>1, <2>2, <2>3, <2>4 DEF RequestStep
<1> QED
  BY <1>1, <1>2, <1>3, <1>4 DEF Next

(***************************************************************************)
(* A deleted expense never comes back: only the commit of its creation     *)
(* brings an expense into the table.                                       *)
(***************************************************************************)
THEOREM DeletionIsFinal == Spec => NoResurrection
<1>1. ASSUME Ind, [Next]_vars, NEW e \in Expenses, ~Exists(db, e), Exists(db, e)'
      PROVE  \E r \in Requests : /\ job[r].op = "create" /\ job[r].exp = e
                                 /\ pc[r] # "committed" /\ pc'[r] = "committed"
  <2> USE <1>1 DEF Ind
  <2>1. ASSUME NEW r \in Requests, Delete(r) PROVE FALSE
    <3>1. job[r].exp \in Expenses /\ db \in Tables
      BY <2>1, JobTypes DEF Delete, At, LabelInv, TypeOK
    <3>2. db'.exp = [db.exp EXCEPT ![job[r].exp] = NoRow]
      BY <2>1, <3>1, DeleteExpenseDoes DEF Delete
    <3> QED
      BY <3>1, <3>2 DEF Exists, Tables
  <2>2. ASSUME NEW r \in Requests, Settle(r) PROVE FALSE
    BY <2>2 DEF Settle, InsertSettlement, Exists, TypeOK, Tables
  <2>3. PICK r \in Requests : Commit(r)
    BY <2>1, <2>2, OtherSteps DEF Exists
  <2>4. /\ Writes(r)
        /\ job[r].op = "update" <=> db.exp[job[r].exp] # NoRow
        /\ \A f \in Expenses \ {job[r].exp} : work.exp[f] = db.exp[f]
    BY <2>3, CommitWhole
  <2>5. db' = work
    BY <2>3 DEF Commit
  <2>6. job[r].exp = e
    BY <2>4, <2>5 DEF Exists
  <2>7. job[r].op = "create"
    BY <2>4, <2>6 DEF Exists, Writes
  <2>8. pc[r] # "committed" /\ pc'[r] = "committed"
    BY <2>3 DEF Commit, At, Goto, TypeOK
  <2> QED
    BY <2>6, <2>7, <2>8
<1>2. Ind /\ [Next]_vars =>
          [\A e \in Expenses :
              ~Exists(db, e) /\ Exists(db, e)' =>
                  \E r \in Requests : /\ job[r].op = "create" /\ job[r].exp = e
                                      /\ pc[r] # "committed" /\ pc'[r] = "committed"]_vars
  BY <1>1
<1> QED
  BY <1>2, IndAlways, PTL DEF Spec, NoResurrection

-----------------------------------------------------------------------------

LedgerNow == [e \in Expenses |-> Recorded(e)]

Done == {r \in Requests : pc[r] = "committed"}

\* A bill is made of its header and its shares.
LEMMA BillParts ==
    ASSUME NEW b \in Bills
    PROVE  /\ [payer |-> Header(b).payer, amount |-> Header(b).amount,
               cur |-> Header(b).cur, shares |-> b.shares] = b
           /\ Header(b) # NoRow /\ b # NoRow
<1>1. [payer |-> Header(b).payer, amount |-> Header(b).amount,
       cur |-> Header(b).cur, shares |-> b.shares]
        = [payer |-> b.payer, amount |-> b.amount, cur |-> b.cur, shares |-> b.shares]
  BY DEF Header
<1> QED
  BY <1>1, BillsAssumption, BillTypes

\* An expense has a recorded bill exactly when it has a row.
LEMMA RecordedRow ==
    ASSUME WholeExpenses, NEW e \in Expenses
    PROVE  /\ Recorded(e) = NoRow <=> db.exp[e] = NoRow
           /\ Recorded(e) \in Bills \cup {NoRow}
<1>1. CASE db.exp[e] = NoRow
  BY <1>1 DEF Recorded
<1>2. CASE db.exp[e] # NoRow
  <2>1. PICK b \in Bills : db.exp[e] = Header(b) /\ db.rows[e] = b.shares
    BY <1>2 DEF WholeExpenses
  <2>2. Recorded(e) = b
    BY <1>2, <2>1, BillParts DEF Recorded
  <2> QED
    BY <1>2, <2>1, <2>2, BillParts
<1> QED
  BY <1>1, <1>2

LEMMA CommitImplements ==
    ASSUME Ind, NEW r \in Requests, Commit(r)
    PROVE  Atomic!Next
<1> USE DEF Ind
<1>1. PICK e \in Expenses, b \in Bills :
          /\ e = job[r].exp /\ b = job[r].bill
          /\ Writes(r) /\ pc[r] = "insert"
          /\ job[r].op = "update" <=> db.exp[e] # NoRow
          /\ work.exp[e] = Header(b) /\ work.rows[e] = b.shares
          /\ \A f \in Expenses \ {e} :
                 work.exp[f] = db.exp[f] /\ work.rows[f] = db.rows[f]
          /\ work.stl = db.stl
  BY CommitWhole
<1>2. db' = work /\ pc' = [pc EXCEPT ![r] = "committed"]
  BY DEF Commit, Goto
<1>3. r \notin Done /\ Done' = Done \cup {r}
  BY <1>1, <1>2 DEF Done, TypeOK
<1>4. Recorded(e)' = b
  BY <1>1, <1>2, BillParts DEF Recorded
<1>5. \A f \in Expenses \ {e} : Recorded(f)' = Recorded(f)
  BY <1>1, <1>2 DEF Recorded
<1>6. LedgerNow' = [LedgerNow EXCEPT ![e] = b]
  BY <1>4, <1>5 DEF LedgerNow
<1>7. db'.stl = db.stl
  BY <1>1, <1>2
<1>8. Recorded(e) = NoRow <=> job[r].op = "create"
  BY <1>1, RecordedRow DEF Writes
<1>9. LedgerNow[e] = Recorded(e)
  BY DEF LedgerNow
<1>10. Atomic!Once(r)
  BY <1>3 DEF Atomic!Once, Done
<1>11. CASE job[r].op = "create"
  BY <1>6, <1>7, <1>8, <1>9, <1>10, <1>11 DEF Atomic!Next, Atomic!Record, LedgerNow
<1>12. CASE job[r].op = "update"
  BY <1>6, <1>7, <1>8, <1>9, <1>10, <1>12 DEF Atomic!Next, Atomic!Replace, LedgerNow
<1> QED
  BY <1>1, <1>11, <1>12 DEF Writes

LEMMA DeleteImplements ==
    ASSUME Ind, NEW r \in Requests, Delete(r)
    PROVE  Atomic!Next
<1> USE DEF Ind
<1>1. PICK e \in Expenses : e = job[r].exp
  BY JobTypes DEF Delete, At, LabelInv
<1>2. db \in Tables /\ db' = DeleteExpenseRow(db, e)
  BY <1>1 DEF Delete, TypeOK
<1>3. /\ db'.stl = db.stl /\ db'.exp = [db.exp EXCEPT ![e] = NoRow]
      /\ db'.rows = [db.rows EXCEPT ![e] = NoShares]
  BY <1>2, DeleteExpenseDoes
<1>4. pc[r] = "delete" /\ pc' = [pc EXCEPT ![r] = "committed"]
  BY DEF Delete, At, Goto
<1>5. Atomic!Once(r)
  BY <1>4 DEF Atomic!Once, TypeOK
<1>6. /\ Recorded(e)' = NoRow
      /\ \A f \in Expenses \ {e} : Recorded(f)' = Recorded(f)
  BY <1>2, <1>3 DEF Recorded, Tables
<1>7. LedgerNow' = [LedgerNow EXCEPT ![e] = NoRow]
  BY <1>6 DEF LedgerNow
<1> QED
  BY <1>3, <1>5, <1>7 DEF Atomic!Next, Atomic!Remove, LedgerNow

LEMMA SettleImplements ==
    ASSUME Ind, NEW r \in Requests, Settle(r)
    PROVE  Atomic!Next
<1> USE DEF Ind
<1>1. /\ pc[r] = "settle" /\ pc' = [pc EXCEPT ![r] = "committed"]
      /\ job[r].pay \in Payments /\ db \in Tables
      /\ db' = InsertSettlement(db, r, job[r].pay)
  BY JobTypes DEF Settle, At, Goto, LabelInv, TypeOK
<1>2. /\ db'.exp = db.exp /\ db'.rows = db.rows
      /\ db'.stl = db.stl \cup {<<r, job[r].pay>>}
  BY <1>1, InsertSettlementDoes
<1>3. Atomic!Once(r)
  BY <1>1 DEF Atomic!Once, TypeOK
<1>4. LedgerNow' = LedgerNow
  BY <1>2 DEF LedgerNow, Recorded
<1> QED
  BY <1>1, <1>2, <1>3, <1>4 DEF Atomic!Next, Atomic!Pay, LedgerNow

(***************************************************************************)
(* Create, edit, delete and settle are atomic: every request takes effect  *)
(* at one instant or never, whatever runs beside it and wherever the       *)
(* process dies.                                                           *)
(***************************************************************************)
THEOREM LedgerImplementsAtomicLedger == Spec => ImplementsAtomicLedger
<1>1. Init => Atomic!Init
  BY DEF Init, Atomic!Init, EmptyDb, Recorded
<1>2. ASSUME Ind, [Next]_vars PROVE [Atomic!Next]_(Atomic!vars)
  <2>1. CASE \A r \in Requests : ~Commit(r) /\ ~Delete(r) /\ ~Settle(r)
    <3>1. db' = db /\ Done' = Done
      BY <1>2, <2>1, OtherSteps DEF Done
    <3>2. LedgerNow' = LedgerNow
      BY <3>1 DEF LedgerNow, Recorded
    <3> QED
      BY <3>1, <3>2 DEF Atomic!vars, LedgerNow, Done
  <2>2. CASE \E r \in Requests : Commit(r) \/ Delete(r) \/ Settle(r)
    BY <1>2, <2>2, CommitImplements, DeleteImplements, SettleImplements
  <2> QED
    BY <2>1, <2>2
<1> QED
  BY <1>1, <1>2, IndAlways, PTL DEF Spec, ImplementsAtomicLedger, Atomic!Spec

-----------------------------------------------------------------------------
(* Balances.  What has been read of the ledger, or is stored there, nets   *)
(* to zero when every expense in it is whole: what its payer fronted is    *)
(* what its participants consumed, and a settlement takes from one what it *)
(* gives to the other.                                                     *)

\* Whole expenses and finitely many settlements, stored or read.
WholeAndFinite(d) ==
    /\ d.stl \subseteq Requests \X Payments /\ IsFiniteSet(d.stl)
    /\ \A e \in Listed(d) :
          \E b \in Bills : d.exp[e] = Header(b) /\ d.rows[e] = b.shares

\* What one expense, or one settlement, adds to everybody's balance.
ExpenseRow(d, e) ==
    [u \in Users |-> (IF d.exp[e].payer = u THEN d.exp[e].amount ELSE 0)
                       - (IF d.rows[e][u] # NoRow THEN d.rows[e][u] ELSE 0)]

SettlementRow(s) ==
    [u \in Users |-> (IF s[2].from = u THEN s[2].amount ELSE 0)
                       - (IF s[2].to = u THEN s[2].amount ELSE 0)]

LEMMA UsersFinite == IsFiniteSet(Users) /\ Users \in SUBSET Users
  BY FiniteAssumption

\* A function that is n for one person and zero for the others.
LEMMA SumOfOne ==
    ASSUME NEW p \in Users, NEW n \in Int, NEW f \in [Users -> Int],
           \A u \in Users : f[u] = IF p = u THEN n ELSE 0
    PROVE  SumOver(f, Users) = n
<1>1. {p} \in SUBSET Users /\ \A u \in Users \ {p} : f[u] = 0
  OBVIOUS
<1>2. SumOver(f, Users) = SumOver(f, {p})
  BY <1>1, UsersFinite, SumSupport
<1>3. SumOver(f, {p}) = f[p]
  BY UsersFinite, SumOne
<1> QED
  BY <1>2, <1>3

LEMMA ExpenseCancels ==
    ASSUME NEW d, NEW e, NEW b \in Bills, d.exp[e] = Header(b), d.rows[e] = b.shares
    PROVE  /\ ExpenseRow(d, e) \in [Users -> Int]
           /\ SumOver(ExpenseRow(d, e), Users) = 0
<1> DEFINE fronted == [u \in Users |-> IF b.payer = u THEN b.amount ELSE 0]
           consumed == [u \in Users |-> IF b.shares[u] # NoRow THEN b.shares[u] ELSE 0]
           row == ExpenseRow(d, e)
           P == Participants(b.shares)
<1>1. /\ b.payer \in Users /\ b.amount \in Int /\ b.shares \in [Users -> Nat \cup {NoRow}]
      /\ d.exp[e].payer = b.payer /\ d.exp[e].amount = b.amount
  BY BillsAssumption DEF Header, Headers, ShareRows
<1>2. /\ fronted \in [Users -> Int] /\ consumed \in [Users -> Int]
      /\ row = [u \in Users |-> fronted[u] - consumed[u]]
  BY <1>1 DEF ExpenseRow
<1>3. row \in [Users -> Int] /\ \A u \in Users : fronted[u] = row[u] + consumed[u]
  BY <1>2
<1>4. SumOver(fronted, Users) = b.amount
  BY <1>1, <1>2, SumOfOne
<1>5. SumOver(consumed, Users) = SumOver(consumed, P)
  <2>1. P \in SUBSET Users /\ \A u \in Users \ P : consumed[u] = 0
    BY DEF Participants
  <2> HIDE DEF P, consumed
  <2> QED
    BY <1>2, <2>1, UsersFinite, SumSupport
<1>6. SumOver(consumed, P) = SumOver(b.shares, P)
  <2>1. \A u \in P : consumed[u] = b.shares[u]
    BY DEF Participants
  <2> HIDE DEF P, consumed
  <2> QED
    BY <2>1, SumEqual
<1>7. SumOver(b.shares, P) = b.amount
  BY SharesSumAssumption DEF Owed
<1>8. SumOver(fronted, Users) = SumOver(row, Users) + SumOver(consumed, Users)
  <2> HIDE DEF fronted, consumed, row
  <2> QED
    BY <1>2, <1>3, UsersFinite, SumPlus
<1>9. SumOver(row, Users) \in Int /\ SumOver(consumed, Users) \in Int
  <2> HIDE DEF consumed, row
  <2> QED
    BY <1>2, <1>3, UsersFinite, SumType
<1> HIDE DEF fronted, consumed, row, P
<1>10. SumOver(row, Users) = 0
  BY <1>1, <1>4, <1>5, <1>6, <1>7, <1>8, <1>9
<1> QED
  BY <1>3, <1>10 DEF row

LEMMA SettlementCancels ==
    ASSUME NEW s \in Requests \X Payments
    PROVE  /\ SettlementRow(s) \in [Users -> Int]
           /\ SumOver(SettlementRow(s), Users) = 0
<1> DEFINE paid == [u \in Users |-> IF s[2].from = u THEN s[2].amount ELSE 0]
           got == [u \in Users |-> IF s[2].to = u THEN s[2].amount ELSE 0]
           row == SettlementRow(s)
<1>1. s[2].from \in Users /\ s[2].to \in Users /\ s[2].amount \in Int
  BY PaymentsAssumption
<1>2. /\ paid \in [Users -> Int] /\ got \in [Users -> Int]
      /\ row = [u \in Users |-> paid[u] - got[u]]
  BY <1>1 DEF SettlementRow
<1>3. row \in [Users -> Int] /\ \A u \in Users : paid[u] = row[u] + got[u]
  BY <1>2
<1>4. SumOver(paid, Users) = s[2].amount /\ SumOver(got, Users) = s[2].amount
  <2>1. PICK from, to, n : from = s[2].from /\ to = s[2].to /\ n = s[2].amount
    OBVIOUS
  <2>2. /\ from \in Users /\ to \in Users /\ n \in Int
        /\ \A u \in Users : /\ paid[u] = IF from = u THEN n ELSE 0
                           /\ got[u] = IF to = u THEN n ELSE 0
    BY <1>1, <2>1
  <2> HIDE DEF paid, got
  <2>3. SumOver(paid, Users) = n
    BY <1>2, <2>2, SumOfOne
  <2>4. SumOver(got, Users) = n
    BY <1>2, <2>2, SumOfOne
  <2> QED
    BY <2>1, <2>3, <2>4
<1> HIDE DEF paid, got, row
<1>5. SumOver(paid, Users) = SumOver(row, Users) + SumOver(got, Users)
  BY <1>2, <1>3, UsersFinite, SumPlus
<1>6. SumOver(row, Users) \in Int
  BY <1>3, UsersFinite, SumType
<1> QED
  BY <1>1, <1>3, <1>4, <1>5, <1>6 DEF row

LEMMA WholeNetsToZero ==
    ASSUME NEW d, WholeAndFinite(d), NEW c \in Currencies
    PROVE  NetSum(d, c) = 0
<1> DEFINE E == {e \in Listed(d) : d.exp[e].cur = c}
           T == {s \in d.stl : s[2].cur = c}
           m == [e \in E |-> ExpenseRow(d, e)]
           n == [s \in T |-> SettlementRow(s)]
           colE == [u \in Users |-> [e \in E |-> m[e][u]]]
           colT == [u \in Users |-> [s \in T |-> n[s][u]]]
           fromE == [u \in Users |-> SumOver(colE[u], E)]
           fromT == [u \in Users |-> SumOver(colT[u], T)]
           nets == [u \in Users |-> Net(d, c, u)]
<1>1. IsFiniteSet(E) /\ IsFiniteSet(T)
  BY FiniteAssumption, FS_Subset DEF WholeAndFinite, Listed
<1>2. m \in [E -> [Users -> Int]] /\ \A e \in E : SumOver(m[e], Users) = 0
  BY ExpenseCancels DEF WholeAndFinite
<1>3. n \in [T -> [Users -> Int]] /\ \A s \in T : SumOver(n[s], Users) = 0
  BY SettlementCancels DEF WholeAndFinite
<1>4. ASSUME NEW u \in Users
      PROVE  nets[u] = fromE[u] + fromT[u]
  <2>1. [e \in E |-> m[e][u]] =
          [e \in E |-> (IF d.exp[e].payer = u THEN d.exp[e].amount ELSE 0)
                         - (IF d.rows[e][u] # NoRow THEN d.rows[e][u] ELSE 0)]
    BY DEF ExpenseRow
  <2>2. [s \in T |-> n[s][u]] =
          [s \in T |-> (IF s[2].from = u THEN s[2].amount ELSE 0)
                         - (IF s[2].to = u THEN s[2].amount ELSE 0)]
    BY DEF SettlementRow
  <2> QED
    BY <2>1, <2>2 DEF Net
<1>5. fromE \in [Users -> Int] /\ SumOver(fromE, Users) = 0
  <2>1. /\ colE \in [Users -> [E -> Int]]
        /\ \A e \in E : \A u \in Users : m[e][u] = colE[u][e]
    <3> HIDE DEF E, m
    <3> QED
      BY <1>2
  <2>2. \A u \in Users : SumOver(colE[u], E) \in Int
    <3> HIDE DEF E, m, colE
    <3>1. E \in SUBSET E
      OBVIOUS
    <3> QED
      BY <1>1, <2>1, <3>1, SumType
  <2> HIDE DEF E, m, colE
  <2>3. fromE \in [Users -> Int] /\ \A u \in Users : fromE[u] = SumOver(colE[u], E)
    BY <2>2
  <2> HIDE DEF fromE
  <2>4. IsTable(E, Users, m, colE, fromE)
    BY <1>2, <2>1, <2>3 DEF IsTable
  <2> QED
    BY <1>1, <1>2, <2>3, <2>4, UsersFinite, ColumnsCancel
<1>6. fromT \in [Users -> Int] /\ SumOver(fromT, Users) = 0
  <2>1. /\ colT \in [Users -> [T -> Int]]
        /\ \A s \in T : \A u \in Users : n[s][u] = colT[u][s]
    <3> HIDE DEF T, n
    <3> QED
      BY <1>3
  <2>2. \A u \in Users : SumOver(colT[u], T) \in Int
    <3> HIDE DEF T, n, colT
    <3>1. T \in SUBSET T
      OBVIOUS
    <3> QED
      BY <1>1, <2>1, <3>1, SumType
  <2> HIDE DEF T, n, colT
  <2>3. fromT \in [Users -> Int] /\ \A u \in Users : fromT[u] = SumOver(colT[u], T)
    BY <2>2
  <2> HIDE DEF fromT
  <2>4. IsTable(T, Users, n, colT, fromT)
    BY <1>3, <2>1, <2>3 DEF IsTable
  <2> QED
    BY <1>1, <1>3, <2>3, <2>4, UsersFinite, ColumnsCancel
<1>7. nets = [u \in Users |-> nets[u]]
  OBVIOUS
<1> HIDE DEF E, T, m, n, colE, colT, fromE, fromT, nets
<1>8. nets \in [Users -> Int]
  BY <1>4, <1>5, <1>6, <1>7
<1>9. SumOver(nets, Users) = SumOver(fromE, Users) + SumOver(fromT, Users)
  BY <1>4, <1>5, <1>6, <1>8, UsersFinite, SumPlus
<1> QED
  BY <1>5, <1>6, <1>9 DEF NetSum, nets

StoredFinite == IsFiniteSet(db.stl)

LEMMA StoredFiniteStep ==
    ASSUME Ind, StoredFinite, [Next]_vars
    PROVE  StoredFinite'
<1>1. ASSUME NEW r \in Requests, Commit(r) \/ Delete(r) PROVE db'.stl = db.stl
  <2>1. CASE Commit(r)
    BY <2>1, CommitWhole DEF Commit
  <2>2. CASE Delete(r)
    <3>1. job[r].exp \in Expenses /\ db \in Tables
      BY <2>2, JobTypes DEF Delete, At, Ind, LabelInv, TypeOK
    <3> QED
      BY <2>2, <3>1, DeleteExpenseDoes DEF Delete
  <2> QED
    BY <1>1, <2>1, <2>2
<1>2. ASSUME NEW r \in Requests, Settle(r) PROVE StoredFinite'
  <2>1. job[r].pay \in Payments /\ db \in Tables
    BY <1>2, JobTypes DEF Settle, At, Ind, LabelInv, TypeOK
  <2>2. db'.stl = db.stl \cup {<<r, job[r].pay>>}
    BY <1>2, <2>1, InsertSettlementDoes DEF Settle
  <2> QED
    BY <2>2, FS_AddElement DEF StoredFinite
<1>3. CASE \A r \in Requests : ~Commit(r) /\ ~Delete(r) /\ ~Settle(r)
  BY <1>3, OtherSteps DEF StoredFinite
<1> QED
  BY <1>1, <1>2, <1>3 DEF StoredFinite

LEMMA StoredFiniteAlways == Spec => []StoredFinite
<1>1. Init => StoredFinite
  BY FS_EmptySet DEF Init, EmptyDb, StoredFinite
<1> QED
  BY <1>1, StoredFiniteStep, IndAlways, PTL DEF Spec

(***************************************************************************)
(* The stored expenses and settlements net to zero in every currency, at   *)
(* every moment, whatever requests and crashes came before.                *)
(***************************************************************************)
THEOREM StoredLedgerNetsToZero == Spec => []LedgerNetsToZero
<1>1. Ind /\ StoredFinite => LedgerNetsToZero
  <2> SUFFICES ASSUME Ind, StoredFinite PROVE LedgerNetsToZero
    OBVIOUS
  <2>1. WholeAndFinite(db)
    BY DEF Ind, TypeOK, Tables, StoredFinite, WholeExpenses, WholeAndFinite,
           Listed, Exists
  <2> QED
    BY <2>1, WholeNetsToZero DEF LedgerNetsToZero
<1> QED
  BY <1>1, IndAlways, StoredFiniteAlways, PTL

\* What the reader has, unless something it had listed was edited or deleted:
\* rows that are in the tables still.
ReadInv ==
    /\ rd.at = "done" => rd.todo = {}
    /\ IsFiniteSet(rd.stl)
    /\ Reading /\ ~edited =>
          \A e \in Listed(rd) : /\ db.exp[e] = rd.exp[e]
                                /\ e \notin rd.todo => db.rows[e] = rd.rows[e]

LEMMA CommitKeepsRead ==
    ASSUME Ind, ReadInv, NEW r \in Requests, Commit(r)
    PROVE  ReadInv'
<1>1. UNCHANGED rd /\ edited' = (edited \/ (Reading /\ job[r].op = "update"))
  BY DEF Commit
<1>2. SUFFICES ASSUME Reading, ~edited, job[r].op # "update", NEW e \in Listed(rd)
               PROVE  db'.exp[e] = db.exp[e] /\ db'.rows[e] = db.rows[e]
  BY <1>1 DEF ReadInv, Reading, Listed, Exists
<1>3. /\ Writes(r) /\ db' = work
      /\ job[r].op = "update" <=> db.exp[job[r].exp] # NoRow
      /\ \A f \in Expenses \ {job[r].exp} :
             work.exp[f] = db.exp[f] /\ work.rows[f] = db.rows[f]
  BY CommitWhole DEF Commit
<1>4. e \in Expenses /\ db.exp[e] # NoRow
  BY <1>2 DEF ReadInv, Listed, Exists
<1> QED
  BY <1>2, <1>3, <1>4

LEMMA ReaderKeepsRead ==
    ASSUME Ind, StoredFinite, ReadInv, ReaderStep
    PROVE  ReadInv'
<1>1. UNCHANGED db /\ rd.exp \in [Expenses -> Headers \cup {NoRow}]
      /\ rd.rows \in [Expenses -> ShareRows] /\ rd.todo \subseteq Expenses
  BY DEF ReaderStep, ListExpenses, ReadShares, ReadSettlements, Respond, dbVars,
         Ind, TypeOK
<1>2. CASE ListExpenses
  BY <1>1, <1>2 DEF ListExpenses, ReadInv, Listed, Exists, Ind, TypeOK
<1>3. CASE ReadShares
  <2>1. PICK e \in rd.todo : rd' = [rd EXCEPT !.rows[e] = db.rows[e], !.todo = @ \ {e}]
    BY <1>3 DEF ReadShares
  <2>2. /\ rd'.at = rd.at /\ rd.at = "shares" /\ rd'.stl = rd.stl /\ rd'.exp = rd.exp
        /\ rd'.todo = rd.todo \ {e}
        /\ rd'.rows = [rd.rows EXCEPT ![e] = db.rows[e]]
        /\ edited' = edited
    BY <1>3, <2>1 DEF ReadShares, Ind, TypeOK
  <2>3. \A f \in Expenses : rd'.rows[f] = IF f = e THEN db.rows[e] ELSE rd.rows[f]
    BY <1>1, <2>2
  <2>4. Reading' <=> Reading
    BY <2>2 DEF Reading
  <2>5. Listed(rd)' = Listed(rd) /\ Listed(rd) \subseteq Expenses
    BY <2>2 DEF Listed, Exists
  <2> QED
    BY <1>1, <2>2, <2>3, <2>4, <2>5 DEF ReadInv
<1>4. CASE ReadSettlements
  <2>1. /\ rd' = [rd EXCEPT !.at = "done", !.stl = db.stl]
        /\ rd.at = "shares" /\ rd.todo = {} /\ edited' = edited
    BY <1>4 DEF ReadSettlements
  <2>2. /\ rd'.at = "done" /\ rd'.stl = db.stl /\ rd'.exp = rd.exp
        /\ rd'.rows = rd.rows /\ rd'.todo = {}
    BY <2>1 DEF Ind, TypeOK
  <2>3. Listed(rd)' = Listed(rd)
    BY <2>2 DEF Listed, Exists
  <2> QED
    BY <1>1, <2>1, <2>2, <2>3 DEF ReadInv, StoredFinite, Reading
<1>5. CASE Respond
  BY <1>5, FS_EmptySet DEF Respond, ReadInv, NotReading, Reading
<1> QED
  BY <1>2, <1>3, <1>4, <1>5 DEF ReaderStep

LEMMA ReadInvStep ==
    ASSUME Ind, StoredFinite, ReadInv, [Next]_vars
    PROVE  ReadInv'
<1>1. CASE ReaderStep
  BY <1>1, ReaderKeepsRead
<1>2. CASE Crash
  BY <1>2, FS_EmptySet DEF Crash, ReadInv, NotReading, Reading
<1>3. ASSUME NEW r \in Requests, RequestStep(r) PROVE ReadInv'
  <2>1. CASE Commit(r)
    BY <2>1, CommitKeepsRead
  <2>2. CASE Delete(r)
    BY <2>2 DEF Delete, ReadInv, Reading
  <2>3. CASE Settle(r)
    <3>1. job[r].pay \in Payments /\ db \in Tables
      BY <2>3, JobTypes DEF Settle, At, Ind, LabelInv, TypeOK
    <3>2. db'.exp = db.exp /\ db'.rows = db.rows /\ rd' = rd /\ edited' = edited
      BY <2>3, <3>1, InsertSettlementDoes DEF Settle, rdVars
    <3> QED
      BY <3>2 DEF ReadInv, Reading, Listed, Exists
  <2>4. CASE ~Commit(r) /\ ~Delete(r) /\ ~Settle(r)
    <3>1. db' = db /\ rd' = rd /\ edited' = edited
      BY <1>3, <2>4 DEF RequestStep, Arrive, BeginCreate, BeginUpdate, DeleteShares,
         InsertShare, ForeignKeyFails, StorageFails, Rollback, Busy, dbVars, rdVars
    <3> QED
      BY <3>1 DEF ReadInv, Reading, Listed, Exists
  <2> QED
    BY <2>1, <2>2, <2>3, <2>4
<1>4. CASE UNCHANGED vars
  BY <1>4 DEF vars, ReadInv, Reading, Listed, Exists
<1> QED
  BY <1>1, <1>2, <1>3, <1>4 DEF Next

(***************************************************************************)
(* A page computed from queries without a common snapshot nets to zero     *)
(* all the same, unless an edit or a deletion committed in between.        *)
(***************************************************************************)
THEOREM OnlyEditsUnbalanceAPage == Spec => []ReadUnbalancedOnlyByEdits
<1>1. Init => ReadInv
  BY FS_EmptySet DEF Init, NotReading, ReadInv, Reading
<1>2. Ind /\ ReadInv => ReadUnbalancedOnlyByEdits
  <2> SUFFICES ASSUME Ind, ReadInv, rd.at = "done", ~edited
               PROVE  \A c \in Currencies : NetSum(rd, c) = 0
    BY DEF ReadUnbalancedOnlyByEdits
  <2>1. ASSUME NEW e \in Listed(rd)
        PROVE  \E b \in Bills : rd.exp[e] = Header(b) /\ rd.rows[e] = b.shares
    <3>1. db.exp[e] = rd.exp[e] /\ db.rows[e] = rd.rows[e]
      BY DEF ReadInv, Reading
    <3>2. e \in Expenses /\ db.exp[e] # NoRow
      BY <3>1 DEF Listed, Exists
    <3> QED
      BY <3>1, <3>2 DEF Ind, WholeExpenses
  <2>2. WholeAndFinite(rd)
    BY <2>1 DEF WholeAndFinite, ReadInv, Ind, TypeOK
  <2> QED
    BY <2>2, WholeNetsToZero
<1> QED
  BY <1>1, <1>2, ReadInvStep, IndAlways, StoredFiniteAlways, PTL DEF Spec
=============================================================================
