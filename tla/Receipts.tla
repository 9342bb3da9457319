------------------------------ MODULE Receipts ------------------------------
(***************************************************************************)
(* The receipt picture of one expense: a file in the upload directory,     *)
(* named after the expense and the picture's type, and the column          *)
(* receipt_path of its row (handlers/receipts.go, actions.go,              *)
(* expense_edit.go, store/expenses.go).                                    *)
(*                                                                         *)
(* File and row are written one after the other by concurrent requests; a  *)
(* copy may fail and the process may die in between.  Files of different   *)
(* expenses have different names and meet nowhere.                         *)
(*                                                                         *)
(* A file is written in place: Create empties it and each writer fills it  *)
(* from its own offset.  The row changes in one step, which Ledger         *)
(* justifies by implementing AtomicLedger.                                 *)
(***************************************************************************)
EXTENDS Naturals, FiniteSets

CONSTANTS
    Requests,       \* the goroutines that create, edit or delete the expense
    Exts,           \* the file name extensions of allowedReceiptExt
    Parts,          \* a picture is copied in at most so many writes
    NoPicture,      \* the form has no acceptable picture
    NoRow,          \* the expense is not in the table
    NoPath,         \* its receipt_path is empty
    Absent,         \* there is no such file
    Nobody,         \* this part of a file has not been written
    MaxCrashes      \* bound on the number of process deaths

ASSUME PartsAssumption == Parts \in Nat \ {0}
ASSUME MaxCrashesAssumption == MaxCrashes \in Nat
ASSUME NamesAssumption == /\ NoRow \notin Exts /\ NoPath \notin Exts
                          /\ NoRow # NoPath /\ Nobody \notin Requests

Pictures == [ext : Exts, size : 1..Parts]

ASSUME NoPictureAssumption == NoPicture \notin Pictures

Contents == [1..Parts -> Requests \cup {Nobody}]

ASSUME AbsentAssumption == Absent \notin Contents

Jobs == [op : {"create", "update"}, pic : Pictures \cup {NoPicture}]
            \cup [op : {"delete"}, pic : {NoPicture}]

VARIABLES
    job,        \* what each request asks for; never changes
    pc,         \* where each request is
    written,    \* how many parts it has copied
    got,        \* saveReceipt returned it a file name
    row,        \* NoRow, or the receipt_path of the expense
    disk,       \* the upload directory
    rd,         \* a download: the path it has looked up, or NoPath
    completed,  \* history: the names under which a copy has been completed
    attached,   \* history: the request whose picture the path was last set for
    spoiled,    \* history: the names whose last upload was disturbed
    crashes

reqVars == <<job, pc, written, got>>
history == <<completed, attached, spoiled>>
vars == <<job, pc, written, got, row, disk, rd, completed, attached,
          spoiled, crashes>>

Init ==
    /\ job \in [Requests -> Jobs]
    /\ \A r, q \in Requests :       \* newID draws the expense's id once
          job[r].op = "create" /\ job[q].op = "create" => r = q
    /\ pc = [r \in Requests |-> "new"]
    /\ written = [r \in Requests |-> 0]
    /\ got = [r \in Requests |-> FALSE]
    /\ row = NoRow /\ rd = NoPath
    /\ disk = [x \in Exts |-> Absent]
    /\ completed = {} /\ attached = Nobody /\ spoiled = {}
    /\ crashes = 0

Goto(r, label) == pc' = [pc EXCEPT ![r] = label]

HasPicture(r) == job[r].pic # NoPicture

Ext(r) == job[r].pic.ext

\* What a file holds that r has filled without disturbance.
Upload(r) == [k \in 1..Parts |-> IF k <= job[r].pic.size THEN r ELSE Nobody]

\* Uploads that have touched the file and not yet been heard of by the row.
Uploading(x) ==
    {r \in Requests : /\ HasPicture(r) /\ Ext(r) = x
                      /\ pc[r] = "copy" \/ (pc[r] = "store" /\ got[r])}

Spoil(r) == spoiled' = IF got[r] THEN spoiled \cup {Ext(r)} ELSE spoiled

-----------------------------------------------------------------------------
(* Before the picture *)

\* CreateExpense has committed, or the form or the split was refused.
CreateExpense(r) ==
    /\ pc[r] = "new" /\ job[r].op = "create"
    /\ \/ /\ row' = NoPath
          /\ Goto(r, IF HasPicture(r) THEN "open" ELSE "done")
       \/ /\ Goto(r, "refused")
          /\ UNCHANGED row
    /\ UNCHANGED <<job, written, got, disk, rd, history, crashes>>

\* The edit's existence check and the checks of the form.
CheckUpdate(r) ==
    /\ pc[r] = "new" /\ job[r].op = "update"
    /\ \/ /\ row # NoRow
          /\ Goto(r, IF HasPicture(r) THEN "open" ELSE "store")
       \/ Goto(r, "refused")
    /\ UNCHANGED <<job, written, got, row, disk, rd, history, crashes>>

\* A lock wait may refuse the deletion.
Delete(r) ==
    /\ pc[r] = "new" /\ job[r].op = "delete"
    /\ \/ row' = NoRow /\ Goto(r, "done")
       \/ UNCHANGED row /\ Goto(r, "refused")
    /\ UNCHANGED <<job, written, got, disk, rd, history, crashes>>

-----------------------------------------------------------------------------
(* saveReceipt *)

Emptied == [k \in 1..Parts |-> Nobody]

\* Mutant: the file is opened without being truncated.
CreatedWithoutTruncation(x) == IF disk[x] = Absent THEN Emptied ELSE disk[x]

\* os.Create truncates a file that is there.
Created(x) == Emptied

OpenFile(r) ==
    /\ pc[r] = "open"
    /\ disk' = [disk EXCEPT ![Ext(r)] = Created(Ext(r))]
    /\ spoiled' = IF Uploading(Ext(r)) = {} THEN spoiled \ {Ext(r)}
                  ELSE spoiled \cup {Ext(r)}
    /\ Goto(r, "copy")
    /\ UNCHANGED <<job, written, got, row, rd, completed, attached, crashes>>

\* MkdirAll or Create fails: the caller goes on without a picture.
OpenFails(r) ==
    /\ pc[r] = "open"
    /\ Goto(r, "store")
    /\ UNCHANGED <<job, written, got, row, disk, rd, history, crashes>>

\* Mutant: one part more than the picture has (a limit off by one).
CopyPartTooMany(r) ==
    /\ pc[r] = "copy" /\ written[r] <= job[r].pic.size
    /\ disk' = [disk EXCEPT ![Ext(r)] = [@ EXCEPT ![written[r] + 1] = r]]
    /\ written' = [written EXCEPT ![r] = @ + 1]
    /\ UNCHANGED <<job, pc, got, row, rd, history, crashes>>

CopyPart(r) ==
    /\ pc[r] = "copy" /\ written[r] < job[r].pic.size
    /\ disk' = [disk EXCEPT ![Ext(r)] = [@ EXCEPT ![written[r] + 1] = r]]
    /\ written' = [written EXCEPT ![r] = @ + 1]
    /\ UNCHANGED <<job, pc, got, row, rd, history, crashes>>

\* What is copied stays on the disk; the caller goes on without a picture.
CopyFails(r) ==
    /\ pc[r] = "copy" /\ written[r] < job[r].pic.size
    /\ spoiled' = spoiled \cup {Ext(r)}
    /\ Goto(r, "store")
    /\ UNCHANGED <<job, written, got, row, disk, rd, completed, attached, crashes>>

\* The deferred Close may still fail; the code does not ask, and a file that
\* was closed with an error is left out.
CopyEnds(r) ==
    /\ pc[r] = "copy" /\ written[r] = job[r].pic.size
    /\ got' = [got EXCEPT ![r] = TRUE]
    /\ completed' = completed \cup {Ext(r)}
    /\ Goto(r, "store")
    /\ UNCHANGED <<job, written, row, disk, rd, attached, spoiled, crashes>>

-----------------------------------------------------------------------------
(* After the picture *)

\* Mutant: the path is set although saveReceipt failed.
PathAfterAlways(r) == IF HasPicture(r) /\ row # NoRow THEN Ext(r) ELSE row

\* SetReceipt and UpdateExpense: a row that is gone stays gone, and the path
\* stays unless the request brings a new one.
PathAfter(r) == IF got[r] /\ row # NoRow THEN Ext(r) ELSE row

\* The row is written, and with a new path it is r's picture that it shows.
Attach(r) ==
    /\ row' = PathAfter(r)
    /\ attached' = IF got[r] /\ row # NoRow THEN r ELSE attached
    /\ UNCHANGED spoiled

\* The row stays as it was; the file is r's all the same.
LeaveRow(r) == Spoil(r) /\ UNCHANGED <<row, attached>>

\* SetReceipt, whose errors createExpense ignores.
StoreCreated(r) ==
    /\ pc[r] = "store" /\ job[r].op = "create"
    /\ Attach(r) \/ LeaveRow(r)
    /\ Goto(r, "done")
    /\ UNCHANGED <<job, written, got, disk, rd, completed, crashes>>

\* UpdateExpense: the split, a lock wait or the foreign key of a row that is
\* gone may still refuse the edit.
StoreUpdated(r) ==
    /\ pc[r] = "store" /\ job[r].op = "update"
    /\ \/ row # NoRow /\ Attach(r) /\ Goto(r, "done")
       \/ LeaveRow(r) /\ Goto(r, "refused")
    /\ UNCHANGED <<job, written, got, disk, rd, completed, crashes>>

-----------------------------------------------------------------------------
(* serveReceipt: the path is read from the row, then the file is opened *)

LookUp ==
    /\ rd = NoPath /\ row \in Exts
    /\ rd' = row
    /\ UNCHANGED <<reqVars, row, disk, history, crashes>>

ServeFile ==
    /\ rd # NoPath
    /\ rd' = NoPath
    /\ UNCHANGED <<reqVars, row, disk, history, crashes>>

-----------------------------------------------------------------------------

\* Requests and downloads under way are gone; files and the row stay.
Crash ==
    /\ crashes < MaxCrashes
    /\ crashes' = crashes + 1
    /\ spoiled' = spoiled \cup {x \in Exts : Uploading(x) # {}}
    /\ pc' = [r \in Requests |-> IF pc[r] \in {"new", "done"} THEN pc[r] ELSE "refused"]
    /\ rd' = NoPath
    /\ UNCHANGED <<job, written, got, row, disk, completed, attached>>

RequestStep(r) ==
    \/ CreateExpense(r) \/ CheckUpdate(r) \/ Delete(r)
    \/ OpenFile(r) \/ OpenFails(r) \/ CopyPart(r) \/ CopyFails(r) \/ CopyEnds(r)
    \/ StoreCreated(r) \/ StoreUpdated(r)

Next == \/ \E r \in Requests : RequestStep(r)
        \/ LookUp \/ ServeFile
        \/ Crash

Spec == Init /\ [][Next]_vars

-----------------------------------------------------------------------------

\* The values of the row, the directory and the requests (receipts.go:17-24).
TypeOK ==
    /\ job \in [Requests -> Jobs]
    /\ pc \in [Requests -> {"new", "open", "copy", "store", "done", "refused"}]
    /\ written \in [Requests -> 0..Parts]
    /\ got \in [Requests -> BOOLEAN]
    /\ row \in Exts \cup {NoRow, NoPath}
    /\ disk \in [Exts -> Contents \cup {Absent}]
    /\ rd \in Exts \cup {NoPath}
    /\ completed \subseteq Exts /\ spoiled \subseteq Exts
    /\ attached \in Requests \cup {Nobody}
    /\ crashes \in 0..MaxCrashes

\* The names that a link on the page or a download under way relies on.
Named == {row, rd} \cap Exts

(***************************************************************************)
(* A path names a file that is there and was once completely received:     *)
(* whatever fails or dies between the file and the row, and whichever      *)
(* edit or deletion overtakes a download, "View receipt" never leads to a  *)
(* file that is missing (receipts.go:64-75, 81-94, actions.go:95-97).      *)
(***************************************************************************)
AttachedAfterUpload ==
    \A x \in Named : disk[x] # Absent /\ x \in completed

(***************************************************************************)
(* The path leads to the picture of the very request that set it, whole:   *)
(* not to what an earlier or longer picture left behind, nor to another    *)
(* request's.  This is promised only of a name whose last upload was left  *)
(* alone.  A file is damaged, or replaced without the row's knowing, while *)
(* it is being uploaded again, and by an upload that overlaps another of   *)
(* the same name, fails, dies with the process, is refused after its copy, *)
(* or cannot set its path; the next undisturbed one repairs it.  Uploads   *)
(* under another name, edits without a picture and deletions do nothing    *)
(* to it (receipts.go:64-75, actions.go:95-97, expense_edit.go:125-132).   *)
(***************************************************************************)
PictureIsTheAttachedOne ==
    row \in Exts /\ row \notin spoiled /\ Uploading(row) = {} =>
        disk[row] = Upload(attached)
=============================================================================
