--------------------------- MODULE ReceiptsProofs ---------------------------
(***************************************************************************)
(* The invariants of Receipts for any requests, pictures and crashes.      *)
(*                                                                         *)
(* A path is set only after a copy under its name was completed, and a     *)
(* completed file is never removed: that gives AttachedAfterUpload.  For   *)
(* what the file holds, Sound also follows the one undisturbed upload from *)
(* its first part until the row has heard of it.                           *)
(***************************************************************************)
EXTENDS Receipts, TLAPS

USE PartsAssumption, MaxCrashesAssumption, NamesAssumption, NoPictureAssumption,
    AbsentAssumption

\* What a request has, at each point of its way.
Stages ==
    \A r \in Requests :
        /\ pc[r] \in {"open", "copy"} => HasPicture(r)
        /\ pc[r] \in {"new", "open"} => written[r] = 0
        /\ pc[r] = "copy" => written[r] <= job[r].pic.size /\ disk[Ext(r)] # Absent
        /\ got[r] => /\ HasPicture(r) /\ Ext(r) \in completed
                     /\ pc[r] \notin {"new", "open", "copy"}
                     /\ written[r] = job[r].pic.size

\* A completed file is there; a path names a completed one.
Received == /\ \A x \in completed : disk[x] # Absent
            /\ Named \subseteq completed

\* The file of an upload that nobody has disturbed.
Progress(r) == [k \in 1..Parts |-> IF k <= written[r] THEN r ELSE Nobody]

Uploads(x, r) == Uploading(x) = {r} /\ disk[x] = Progress(r)

Holds(x, r) == r \in Requests /\ HasPicture(r) /\ Ext(r) = x /\ disk[x] = Upload(r)

\* With no upload under way, a row that names the file names its owner.
Shown(x) == Uploading(x) = {} /\ (row = x => Holds(x, attached))

Sound(x) ==
    x \notin spoiled /\ disk[x] # Absent =>
        Shown(x) \/ \E r \in Requests : Uploads(x, r)

AllSound == \A x \in Exts : Sound(x)

-----------------------------------------------------------------------------

LEMMA PictureType ==
    ASSUME TypeOK, NEW r \in Requests, HasPicture(r)
    PROVE  job[r].pic \in Pictures /\ Ext(r) \in Exts /\ job[r].pic.size \in 1..Parts
<1>1. job[r] \in Jobs
  BY DEF TypeOK
<1>2. job[r].pic \in Pictures
  BY <1>1 DEF Jobs, HasPicture
<1> QED
  BY <1>2 DEF Pictures, Ext

LEMMA EmptiedType == Emptied \in Contents /\ Emptied # Absent
BY DEF Emptied, Contents

LEMMA InitTypeOK == Init => TypeOK
BY DEF Init, TypeOK

\* Every step keeps the types; a part is written within the picture.
LEMMA NextTypeOK == TypeOK /\ Stages /\ [Next]_vars => TypeOK'
<1> SUFFICES ASSUME TypeOK, Stages, [Next]_vars PROVE TypeOK'
  OBVIOUS
<1>1. ASSUME NEW r \in Requests, CreateExpense(r) PROVE TypeOK'
  BY <1>1 DEF CreateExpense, TypeOK, Goto, history
<1>2. ASSUME NEW r \in Requests, CheckUpdate(r) PROVE TypeOK'
  BY <1>2 DEF CheckUpdate, TypeOK, Goto, history
<1>3. ASSUME NEW r \in Requests, Delete(r) PROVE TypeOK'
  BY <1>3 DEF Delete, TypeOK, Goto, history
<1>4. ASSUME NEW r \in Requests, OpenFile(r) PROVE TypeOK'
  <2>1. Ext(r) \in Exts
    BY <1>4, PictureType DEF OpenFile, Stages
  <2> QED
    BY <1>4, <2>1, EmptiedType DEF OpenFile, Created, TypeOK, Goto
<1>5. ASSUME NEW r \in Requests, OpenFails(r) \/ CopyFails(r) PROVE TypeOK'
  <2>1. pc[r] \in {"open", "copy"} /\ Ext(r) \in Exts
    BY <1>5, PictureType DEF OpenFails, CopyFails, Stages
  <2> QED
    BY <1>5, <2>1 DEF OpenFails, CopyFails, TypeOK, Goto, history
<1>6. ASSUME NEW r \in Requests, CopyPart(r) PROVE TypeOK'
  <2>1. Ext(r) \in Exts /\ job[r].pic.size \in 1..Parts /\ disk[Ext(r)] # Absent
    BY <1>6, PictureType DEF CopyPart, Stages
  <2>2. written[r] \in 0..Parts /\ written[r] + 1 \in 1..Parts
    BY <1>6, <2>1 DEF CopyPart, TypeOK
  <2>3. disk[Ext(r)] \in Contents
    BY <2>1 DEF TypeOK
  <2>4. [disk[Ext(r)] EXCEPT ![written[r] + 1] = r] \in Contents
    BY <2>2, <2>3 DEF Contents
  <2>5. disk' \in [Exts -> Contents \cup {Absent}]
    BY <1>6, <2>1, <2>4 DEF CopyPart, TypeOK
  <2>6. written' \in [Requests -> 0..Parts]
    BY <1>6, <2>2 DEF CopyPart, TypeOK
  <2> QED
    BY <1>6, <2>5, <2>6 DEF CopyPart, TypeOK, history
<1>7. ASSUME NEW r \in Requests, CopyEnds(r) PROVE TypeOK'
  <2>1. Ext(r) \in Exts
    BY <1>7, PictureType DEF CopyEnds, Stages
  <2> QED
    BY <1>7, <2>1 DEF CopyEnds, TypeOK, Goto
<1>8. ASSUME NEW r \in Requests, StoreCreated(r) \/ StoreUpdated(r) PROVE TypeOK'
  <2>1. PathAfter(r) \in Exts \cup {NoRow, NoPath}
    BY PictureType DEF PathAfter, Stages, TypeOK
  <2>2. got[r] => Ext(r) \in Exts
    BY PictureType DEF Stages
  <2> QED
    BY <1>8, <2>1, <2>2, PictureType
    DEF StoreCreated, StoreUpdated, Attach, LeaveRow, Spoil, TypeOK, Goto
<1>9. CASE LookUp \/ ServeFile
  BY <1>9 DEF LookUp, ServeFile, TypeOK, reqVars, history
<1>10. CASE Crash
  BY <1>10 DEF Crash, TypeOK
<1>11. CASE UNCHANGED vars
  BY <1>11 DEF vars, TypeOK
<1> QED
  BY <1>1, <1>2, <1>3, <1>4, <1>5, <1>6, <1>7, <1>8, <1>9, <1>10, <1>11
  DEF Next, RequestStep

-----------------------------------------------------------------------------
(* Stages and Received *)

LEMMA NextStages == TypeOK /\ Stages /\ [Next]_vars => Stages'
<1> SUFFICES ASSUME TypeOK, Stages, [Next]_vars PROVE Stages'
  OBVIOUS
<1>1. ASSUME NEW r \in Requests, CreateExpense(r) \/ CheckUpdate(r) \/ Delete(r)
      PROVE  Stages'
  BY <1>1 DEF CreateExpense, CheckUpdate, Delete, Stages, TypeOK, Goto, history,
              HasPicture, Ext
<1>2. ASSUME NEW r \in Requests, OpenFile(r) PROVE Stages'
  <2>1. Ext(r) \in Exts
    BY <1>2, PictureType DEF OpenFile, Stages
  <2>2. \A x \in Exts : disk'[x] = IF x = Ext(r) THEN Emptied ELSE disk[x]
    BY <1>2, <2>1 DEF OpenFile, Created, TypeOK
  <2>3. job[r].pic.size \in 1..Parts
    BY <1>2, PictureType DEF OpenFile, Stages
  <2> QED
    BY <1>2, <2>1, <2>2, <2>3, EmptiedType, PictureType
    DEF OpenFile, Stages, TypeOK, Goto, HasPicture, Ext
<1>3. ASSUME NEW r \in Requests, OpenFails(r) \/ CopyFails(r) PROVE Stages'
  BY <1>3 DEF OpenFails, CopyFails, Stages, TypeOK, Goto, history, HasPicture, Ext
<1>4. ASSUME NEW r \in Requests, CopyPart(r) PROVE Stages'
  <2>1. Ext(r) \in Exts /\ disk[Ext(r)] # Absent /\ job[r].pic.size \in 1..Parts
    BY <1>4, PictureType DEF CopyPart, Stages
  <2>2. disk[Ext(r)] \in Contents
    BY <2>1 DEF TypeOK
  <2>3. [disk[Ext(r)] EXCEPT ![written[r] + 1] = r] \in Contents
    BY <2>1, <2>2, <1>4 DEF Contents, CopyPart, TypeOK
  <2>4. \A x \in Exts : disk[x] # Absent => disk'[x] # Absent
    BY <1>4, <2>3 DEF CopyPart, TypeOK
  <2>5. \A q \in Requests : written'[q] = IF q = r THEN written[q] + 1 ELSE written[q]
    BY <1>4 DEF CopyPart, TypeOK
  <2> QED
    BY <1>4, <2>1, <2>4, <2>5, PictureType
    DEF CopyPart, Stages, TypeOK, history, HasPicture, Ext
<1>5. ASSUME NEW r \in Requests, CopyEnds(r) PROVE Stages'
  BY <1>5 DEF CopyEnds, Stages, TypeOK, Goto, HasPicture, Ext
<1>6. ASSUME NEW r \in Requests, StoreCreated(r) \/ StoreUpdated(r) PROVE Stages'
  BY <1>6 DEF StoreCreated, StoreUpdated, Stages, TypeOK, Goto, HasPicture, Ext
<1>7. CASE LookUp \/ ServeFile
  BY <1>7 DEF LookUp, ServeFile, Stages, reqVars, history, HasPicture, Ext
<1>8. CASE Crash
  BY <1>8 DEF Crash, Stages, TypeOK, HasPicture, Ext
<1>9. CASE UNCHANGED vars
  BY <1>9 DEF vars, Stages, HasPicture, Ext
<1> QED
  BY <1>1, <1>2, <1>3, <1>4, <1>5, <1>6, <1>7, <1>8, <1>9 DEF Next, RequestStep

LEMMA NextReceived == TypeOK /\ Stages /\ Received /\ [Next]_vars => Received'
<1> SUFFICES ASSUME TypeOK, Stages, Received, [Next]_vars PROVE Received'
  OBVIOUS
<1> USE DEF Received, Named
<1>1. ASSUME NEW r \in Requests, CreateExpense(r) \/ CheckUpdate(r) \/ Delete(r)
      PROVE  Received'
  BY <1>1 DEF CreateExpense, CheckUpdate, Delete, TypeOK, Goto, history
<1>2. ASSUME NEW r \in Requests, OpenFile(r) PROVE Received'
  BY <1>2, EmptiedType DEF OpenFile, Created, TypeOK
<1>3. ASSUME NEW r \in Requests, OpenFails(r) \/ CopyFails(r) PROVE Received'
  BY <1>3 DEF OpenFails, CopyFails, history
<1>4. ASSUME NEW r \in Requests, CopyPart(r) PROVE Received'
  <2>1. Ext(r) \in Exts /\ disk[Ext(r)] # Absent /\ job[r].pic.size \in 1..Parts
    BY <1>4, PictureType DEF CopyPart, Stages
  <2>2. disk[Ext(r)] \in Contents
    BY <2>1 DEF TypeOK
  <2>3. [disk[Ext(r)] EXCEPT ![written[r] + 1] = r] \in Contents
    BY <2>1, <2>2, <1>4 DEF Contents, CopyPart, TypeOK
  <2>4. \A x \in Exts : disk[x] # Absent => disk'[x] # Absent
    BY <1>4, <2>3 DEF CopyPart, TypeOK
  <2> QED
    BY <1>4, <2>4 DEF CopyPart, history, TypeOK
<1>5. ASSUME NEW r \in Requests, CopyEnds(r) PROVE Received'
  BY <1>5 DEF CopyEnds, Stages
<1>6. ASSUME NEW r \in Requests, StoreCreated(r) \/ StoreUpdated(r) PROVE Received'
  <2>1. PathAfter(r) \in Exts => PathAfter(r) \in completed
    BY DEF PathAfter, Stages
  <2> QED
    BY <1>6, <2>1 DEF StoreCreated, StoreUpdated, Attach, LeaveRow
<1>7. CASE LookUp \/ ServeFile
  BY <1>7 DEF LookUp, ServeFile, reqVars, history
<1>8. CASE Crash
  BY <1>8 DEF Crash
<1>9. CASE UNCHANGED vars
  BY <1>9 DEF vars
<1> QED
  BY <1>1, <1>2, <1>3, <1>4, <1>5, <1>6, <1>7, <1>8, <1>9 DEF Next, RequestStep

-----------------------------------------------------------------------------
(* What a file holds *)

\* A file that nobody touches, with the same uploads, stays sound, and so does
\* one that the row no longer names.
LEMMA SoundKept ==
    ASSUME NEW x \in Exts, Sound(x), job' = job, disk'[x] = disk[x],
           x \in spoiled => x \in spoiled',
           row' = x => row = x /\ attached' = attached,
           Uploading(x)' = Uploading(x), \A r \in Uploading(x) : written'[r] = written[r]
    PROVE  Sound(x)'
<1>1. \A r \in Requests : Upload(r)' = Upload(r) /\ HasPicture(r)' = HasPicture(r)
                           /\ Ext(r)' = Ext(r)
  BY DEF Upload, HasPicture, Ext
<1>2. \A r \in Requests : Holds(x, r) => Holds(x, r)'
  BY <1>1 DEF Holds
<1>3. Shown(x) => Shown(x)'
  BY <1>2 DEF Shown, Holds
<1>4. \A r \in Uploading(x) : Progress(r)' = Progress(r)
  BY DEF Progress
<1>5. \A r \in Requests : Uploads(x, r) => Uploads(x, r)'
  BY <1>4 DEF Uploads
<1> QED
  BY <1>3, <1>5 DEF Sound

LEMMA SamePlaces ==
    ASSUME job' = job, got' = got,
           \A r \in Requests : pc'[r] = "copy" <=> pc[r] = "copy",
           \A r \in Requests : got[r] => (pc'[r] = "store" <=> pc[r] = "store")
    PROVE  \A x : Uploading(x)' = Uploading(x)
BY DEF Uploading, HasPicture, Ext

LEMMA OpenedSound ==
    ASSUME TypeOK, Stages, AllSound, NEW r \in Requests, OpenFile(r), NEW x \in Exts
    PROVE  Sound(x)'
<1>1. Ext(r) \in Exts /\ HasPicture(r) /\ written[r] = 0 /\ pc[r] = "open" /\ ~got[r]
  BY PictureType DEF OpenFile, Stages, TypeOK
<1>2. /\ pc' = [pc EXCEPT ![r] = "copy"] /\ job' = job /\ written' = written
      /\ got' = got /\ row' = row /\ attached' = attached
  BY DEF OpenFile, Goto
<1>3. CASE x # Ext(r)
  <2>1. Uploading(x)' = Uploading(x)
    BY <1>1, <1>2, <1>3 DEF Uploading, HasPicture, Ext, TypeOK
  <2>2. disk'[x] = disk[x] /\ (x \in spoiled => x \in spoiled')
    BY <1>1, <1>3 DEF OpenFile, TypeOK
  <2> QED
    BY <1>2, <2>1, <2>2, SoundKept DEF AllSound
<1>4. CASE x = Ext(r) /\ Uploading(x) # {}
  BY <1>4 DEF OpenFile, Sound
<1>5. CASE x = Ext(r) /\ Uploading(x) = {}
  <2>1. Uploading(x)' = {r}
    BY <1>1, <1>2, <1>5 DEF Uploading, HasPicture, Ext, TypeOK
  <2>2. disk'[x] = Emptied
    BY <1>1, <1>5 DEF OpenFile, Created, TypeOK
  <2>3. Progress(r)' = Emptied
    BY <1>1, <1>2 DEF Progress, Emptied
  <2> QED
    BY <2>1, <2>2, <2>3 DEF Sound, Uploads
<1> QED
  BY <1>3, <1>4, <1>5

LEMMA CopiedSound ==
    ASSUME TypeOK, Stages, AllSound, NEW r \in Requests, CopyPart(r), NEW x \in Exts
    PROVE  Sound(x)'
<1>1. /\ Ext(r) \in Exts /\ HasPicture(r) /\ disk[Ext(r)] # Absent
      /\ job[r].pic.size \in 1..Parts /\ written[r] \in 0..Parts
  BY PictureType DEF CopyPart, Stages, TypeOK
<1>2. Uploading(x)' = Uploading(x)
  BY SamePlaces DEF CopyPart
<1>3. \A q \in Requests : written'[q] = IF q = r THEN written[r] + 1 ELSE written[q]
  BY DEF CopyPart, TypeOK
<1>4. CASE x # Ext(r)
  <2>1. /\ disk'[x] = disk[x] /\ spoiled' = spoiled /\ job' = job
        /\ row' = row /\ attached' = attached
    BY <1>1, <1>4 DEF CopyPart, TypeOK, history
  <2>2. \A q \in Uploading(x) : written'[q] = written[q]
    BY <1>3, <1>4 DEF Uploading
  <2> QED
    BY <1>2, <2>1, <2>2, SoundKept DEF AllSound
<1>5. CASE x = Ext(r)
  <2> SUFFICES ASSUME x \notin spoiled PROVE Sound(x)'
    BY DEF CopyPart, history, Sound
  <2>1. r \in Uploading(x)
    BY <1>1, <1>5 DEF Uploading, CopyPart
  <2>2. PICK q \in Requests : Uploads(x, q)
    BY <1>1, <1>5, <2>1 DEF AllSound, Sound, Shown
  <2>3. q = r /\ Uploading(x) = {r} /\ disk[x] = Progress(r)
    BY <2>1, <2>2 DEF Uploads
  <2>4. disk'[x] = [Progress(r) EXCEPT ![written[r] + 1] = r]
    BY <1>1, <1>5, <2>3 DEF CopyPart, TypeOK
  <2>5. Progress(r)' = [Progress(r) EXCEPT ![written[r] + 1] = r]
    <3>1. \A k \in 1..Parts :
             (k <= written'[r]) <=> (k <= written[r] \/ k = written[r] + 1)
      BY <1>1, <1>3
    <3>2. Progress(r)' = [k \in 1..Parts |-> IF k <= written'[r] THEN r ELSE Nobody]
      BY DEF Progress
    <3>3. [Progress(r) EXCEPT ![written[r] + 1] = r]
            = [k \in 1..Parts |-> IF k = written[r] + 1 THEN r ELSE Progress(r)[k]]
      BY DEF Progress
    <3>4. \A k \in 1..Parts :
             Progress(r)[k] = IF k <= written[r] THEN r ELSE Nobody
      BY DEF Progress
    <3> QED
      BY <3>1, <3>2, <3>3, <3>4
  <2> QED
    BY <1>2, <2>3, <2>4, <2>5 DEF Sound, Uploads
<1> QED
  BY <1>4, <1>5

\* The end of the copy is no news for the file: r is still uploading.
LEMMA EndedSound ==
    ASSUME TypeOK, Stages, AllSound, NEW r \in Requests, CopyEnds(r), NEW x \in Exts
    PROVE  Sound(x)'
<1>1. /\ pc[r] = "copy" /\ pc' = [pc EXCEPT ![r] = "store"]
      /\ got' = [got EXCEPT ![r] = TRUE]
  BY DEF CopyEnds, Goto
<1>2. UNCHANGED <<job, written, disk, spoiled, row, attached>>
  BY DEF CopyEnds
<1>3. Uploading(x)' = Uploading(x)
  BY <1>1, <1>2 DEF Uploading, HasPicture, Ext, TypeOK
<1> QED
  BY <1>2, <1>3, SoundKept DEF AllSound

\* CreateExpense and Delete set the row to what is no file name.
LEMMA RowSound ==
    ASSUME TypeOK, Stages, AllSound, NEW r \in Requests, NEW x \in Exts,
           CreateExpense(r) \/ CheckUpdate(r) \/ Delete(r) \/ OpenFails(r)
    PROVE  Sound(x)'
<1>1. UNCHANGED <<job, written, got, disk, spoiled, attached>>
  BY DEF CreateExpense, CheckUpdate, Delete, OpenFails, history
<1>2. /\ \A q \in Requests : pc'[q] = "copy" <=> pc[q] = "copy"
      /\ \A q \in Requests : got[q] => (pc'[q] = "store" <=> pc[q] = "store")
  BY DEF CreateExpense, CheckUpdate, Delete, OpenFails, Goto, Stages, TypeOK
<1>3. row' = x => row = x
  BY DEF CreateExpense, CheckUpdate, Delete, OpenFails
<1> QED
  BY <1>1, <1>2, <1>3, SamePlaces, SoundKept DEF AllSound

LEMMA FailedSound ==
    ASSUME TypeOK, Stages, AllSound, NEW r \in Requests, CopyFails(r), NEW x \in Exts
    PROVE  Sound(x)'
<1>1. CASE x = Ext(r)
  BY <1>1 DEF CopyFails, Sound
<1>2. CASE x # Ext(r)
  <2>1. /\ pc' = [pc EXCEPT ![r] = "store"]
        /\ x \in spoiled => x \in spoiled'
        /\ UNCHANGED <<job, written, got, disk, row, attached>>
    BY DEF CopyFails, Goto
  <2>2. Uploading(x)' = Uploading(x)
    BY <1>2, <2>1 DEF Uploading, HasPicture, Ext, TypeOK
  <2> QED
    BY <2>1, <2>2, SoundKept DEF AllSound
<1> QED
  BY <1>1, <1>2

\* The row hears of r's picture, or the name is spoiled.
LEMMA StoredSound ==
    ASSUME TypeOK, Stages, AllSound, NEW r \in Requests,
           StoreCreated(r) \/ StoreUpdated(r), NEW x \in Exts
    PROVE  Sound(x)'
<1>1. /\ pc[r] = "store" /\ UNCHANGED <<job, written, got, disk>>
      /\ Attach(r) \/ LeaveRow(r)
  BY DEF StoreCreated, StoreUpdated
<1>2. Uploading(x)' = Uploading(x) \ {r}
  <2>1. /\ pc'[r] # "store" /\ pc'[r] # "copy"
        /\ \A q \in Requests \ {r} : pc'[q] = pc[q]
    BY DEF StoreCreated, StoreUpdated, Goto, TypeOK
  <2> QED
    BY <1>1, <2>1 DEF Uploading, HasPicture, Ext
<1>3. CASE ~got[r]
  <2>1. Uploading(x)' = Uploading(x)
    BY <1>1, <1>2, <1>3 DEF Uploading
  <2>2. UNCHANGED <<row, attached, spoiled>>
    BY <1>1, <1>3 DEF Attach, LeaveRow, PathAfter, Spoil
  <2> QED
    BY <1>1, <2>1, <2>2, SoundKept DEF AllSound
<1>4. CASE got[r] /\ x # Ext(r)
  <2>1. Uploading(x)' = Uploading(x)
    BY <1>2, <1>4 DEF Uploading
  <2>2. (x \in spoiled => x \in spoiled') /\ (row' = x => row = x /\ attached' = attached)
    BY <1>1, <1>4 DEF Attach, LeaveRow, PathAfter, Spoil
  <2> QED
    BY <1>1, <2>1, <2>2, SoundKept DEF AllSound
<1>5. CASE got[r] /\ x = Ext(r) /\ LeaveRow(r)
  BY <1>5 DEF LeaveRow, Spoil, Sound
<1>6. CASE got[r] /\ x = Ext(r) /\ Attach(r)
  <2> SUFFICES ASSUME x \notin spoiled, disk[x] # Absent PROVE Shown(x)'
    BY <1>1, <1>6 DEF Attach, Sound
  <2>1. HasPicture(r) /\ written[r] = job[r].pic.size
    BY <1>6 DEF Stages
  <2>2. r \in Uploading(x)
    BY <1>1, <1>6, <2>1 DEF Uploading
  <2>3. PICK q \in Requests : Uploads(x, q)
    BY <2>2 DEF AllSound, Sound, Shown
  <2>4. Uploading(x) = {r} /\ disk[x] = Progress(r)
    BY <2>2, <2>3 DEF Uploads
  <2>5. Uploading(x)' = {}
    BY <1>2, <2>4
  <2>6. Progress(r) = Upload(r)
    BY <2>1 DEF Progress, Upload
  <2>7. Holds(x, r)'
    BY <1>1, <1>6, <2>1, <2>4, <2>6 DEF Holds, Upload, HasPicture, Ext
  <2>8. row' = x => attached' = r
    BY <1>6 DEF Attach, PathAfter
  <2> QED
    BY <2>5, <2>7, <2>8 DEF Shown, Holds
<1> QED
  BY <1>1, <1>3, <1>4, <1>5, <1>6

LEMMA NextSound == TypeOK /\ Stages /\ AllSound /\ [Next]_vars => AllSound'
<1> SUFFICES ASSUME TypeOK, Stages, AllSound, [Next]_vars, NEW x \in Exts
             PROVE  Sound(x)'
  BY DEF AllSound
<1>1. ASSUME NEW r \in Requests, RequestStep(r) PROVE Sound(x)'
  BY <1>1, RowSound, OpenedSound, CopiedSound, FailedSound, EndedSound, StoredSound
  DEF RequestStep
<1>2. CASE LookUp \/ ServeFile \/ UNCHANGED vars
  <2>1. UNCHANGED <<job, pc, written, got, disk, spoiled, row, attached>>
    BY <1>2 DEF LookUp, ServeFile, vars, reqVars, history
  <2> QED
    BY <2>1, SamePlaces, SoundKept DEF AllSound
<1>3. CASE Crash
  <2>1. Uploading(x) # {} => x \in spoiled'
    BY <1>3 DEF Crash
  <2>2. Uploading(x)' = {}
    BY <1>3 DEF Crash, Uploading, TypeOK
  <2>3. /\ UNCHANGED <<job, written, disk, row, attached>>
        /\ x \in spoiled => x \in spoiled'
    BY <1>3 DEF Crash
  <2>4. CASE Uploading(x) = {}
    BY <2>2, <2>3, <2>4, SoundKept DEF AllSound
  <2>5. CASE Uploading(x) # {}
    BY <2>1, <2>5 DEF Sound
  <2> QED
    BY <2>4, <2>5
<1> QED
  BY <1>1, <1>2, <1>3 DEF Next

-----------------------------------------------------------------------------

Ind == TypeOK /\ Stages /\ Received /\ AllSound

LEMMA InitInd == Init => Ind
<1> SUFFICES ASSUME Init PROVE Ind
  OBVIOUS
<1>1. Stages /\ Received
  BY DEF Init, Stages, Received, Named
<1>2. AllSound
  BY DEF Init, AllSound, Sound
<1> QED
  BY <1>1, <1>2, InitTypeOK DEF Ind

LEMMA AlwaysInd == Spec => []Ind
<1>1. Ind /\ [Next]_vars => Ind'
  BY NextTypeOK, NextStages, NextReceived, NextSound DEF Ind
<1> QED
  BY InitInd, <1>1, PTL DEF Spec

\* Types, and no part is written behind the end of a picture.
THEOREM TypeCorrect == Spec => []TypeOK
<1>1. Ind => TypeOK
  BY DEF Ind
<1> QED
  BY <1>1, AlwaysInd, PTL

\* A path, on the page or in a download under way, names a file that is there
\* and was once received completely, whatever fails, overlaps or crashes.
THEOREM PathsLeadToPictures == Spec => []AttachedAfterUpload
<1>1. Ind => AttachedAfterUpload
  BY DEF Ind, Received, AttachedAfterUpload, Named
<1> QED
  BY <1>1, AlwaysInd, PTL

\* The path leads to the whole picture of the request that set it, unless the
\* last upload under that name was disturbed or is not over.
THEOREM PictureIsWhatWasAttached == Spec => []PictureIsTheAttachedOne
<1>1. Ind => PictureIsTheAttachedOne
  <2> SUFFICES ASSUME Ind, row \in Exts, row \notin spoiled, Uploading(row) = {}
               PROVE  disk[row] = Upload(attached)
    BY DEF PictureIsTheAttachedOne
  <2>1. disk[row] # Absent
    BY DEF Ind, Received, Named
  <2>2. \A r \in Requests : ~Uploads(row, r)
    BY DEF Uploads
  <2> QED
    BY <2>1, <2>2 DEF Ind, AllSound, Sound, Shown, Holds
<1> QED
  BY <1>1, AlwaysInd, PTL
=============================================================================
