-------------------------- MODULE BackupRestore_proofs --------------------------
(* What a restore leaves behind, for any tables, files, archives, settings   *)
(* and numbers of workers and faults: everything of the archive or the state *)
(* before, and the state before in an archive that can be read.              *)
(*                                                                           *)
(* Neither property is inductive.  A request that nobody disturbed knows the *)
(* tables and the files at every step (Snapshot, Replacing, Undoing and      *)
(* Returning), which needs that the open transaction is its own              *)
(* (OwnTransaction) and what its emergency archive holds (Saved).  How long  *)
(* that archive stays on disk is an invariant of its own (Held): what others *)
(* change does not matter to it, only what they remove.                      *)
EXTENDS BackupRestore, FiniteSetTheorems, TLAPS

States == [db : Tables, files : Files]

Steps == {"idle", "settings", "users", "copy", "record", "retain", "extract", "files",
          "restored", "undo"}

Jobs == [at : Steps, restore : BOOLEAN, full : BOOLEAN, password : BOOLEAN,
         restore_env : BOOLEAN, upload : Archive \cup {None},
         part : {None} \cup [token : Secrets \cup {Blank}] \cup Tables, id : Nat,
         todo : SUBSET Paths, committed : BOOLEAN, stuck : {"no", "gone", "error"},
         before : States \cup {None}, disturbed : BOOLEAN, deleted : BOOLEAN]

(* Types, finer than TypeOK: what the program holds at each step.            *)
Typed ==
    /\ db \in Tables /\ files \in Files
    /\ tx \in [by : Workers, db : Tables] \cup {None}
    /\ job \in [Workers -> Jobs]
    /\ disk \subseteq DOMAIN archives
    /\ DOMAIN archives = 1 .. (NextId - 1) /\ NextId \in Nat
    /\ \A i \in DOMAIN archives : archives[i] \in Archive

(* A job by itself.                                                          *)
Shape(j) ==
    /\ j.at = "users" => j.part \in [token : Secrets \cup {Blank}]
    /\ j.at = "copy" => j.part \in Tables
    /\ j.at \in {"extract", "files", "restored", "undo"} => j.restore
    /\ j.restore => j.full /\ j.upload \in Archive
    /\ j.restore /\ ~j.disturbed => j.before \in States
    /\ j.at \in {"record", "retain", "extract", "files", "restored", "undo"} =>
          j.id \in DOMAIN archives
    /\ j.at = "restored" => j.committed
    /\ j.committed => j.at \in {"restored", "undo"}
    /\ j.at = "files" => j.todo \subseteq InFiles(j.upload)

(* Until it replaces something, the tables and files are those of before, and *)
(* so is what it has read of them.                                           *)
Snapshot(j) ==
    /\ j.at \in {"settings", "users", "copy", "record", "extract"} =>
          db = j.before.db /\ files = j.before.files
    /\ j.at = "users" => j.part.token = j.before.db.token
    /\ j.at = "copy" => j.part = j.before.db

Holding == {"record", "extract", "files", "restored", "undo"}

(* Its emergency archive holds them, and is encrypted with a password only.  *)
Saved(j) ==
    j.at \in Holding =>
        /\ archives[j.id].db = j.before.db /\ archives[j.id].files = j.before.files
        /\ archives[j.id].encrypted = j.password

(* The files that are done are those of the archive, the others untouched.   *)
Replacing(j) ==
    /\ j.at = "files" => db = j.before.db
    /\ j.at = "restored" => j.todo = {} /\ db = Restored(j.before.db, j.upload.db)
    /\ j.at \in {"files", "restored"} => \A p \in Paths :
          files[p] = IF p \in InFiles(j.upload) \ j.todo /\ Allowed(j, p)
                     THEN j.upload.files[p] ELSE j.before.files[p]

(* The files that are not to be copied back are as they were.                *)
Undoing(j) ==
    j.at = "undo" =>
        db = IF j.committed THEN Restored(j.before.db, j.upload.db) ELSE j.before.db

Returning(j) ==
    j.at = "undo" /\ ~j.password /\ j.stuck = "no" =>
        /\ j.todo \subseteq InFiles(archives[j.id])
        /\ \A p \in Paths \ j.todo :
              j.before.files[p] # Absent => files[p] = j.before.files[p]

Known(j) == j.restore /\ ~j.disturbed =>
                /\ Snapshot(j) /\ Saved(j) /\ Replacing(j)
                /\ Undoing(j) /\ Returning(j)

(* A restore that replaces files has the one open transaction.               *)
OwnTransaction ==
    /\ \A w \in Workers : job[w].at = "files" <=> tx # None /\ tx.by = w
    /\ tx # None => tx.db = Restored(db, job[tx.by].upload.db)

IInv ==
    /\ Typed
    /\ \A w \in Workers : Shape(job[w])
    /\ \A w \in Workers : Known(job[w])
    /\ OwnTransaction

-------------------------------------------------------------------------------
(* What steps do to the jobs of others, and to archives.                     *)

(* Archives are added, never changed.                                        *)
Kept == /\ DOMAIN archives \subseteq DOMAIN archives'
        /\ \A i \in DOMAIN archives : archives'[i] = archives[i]

LEMMA NoneApart == /\ \A a \in Archive : a # None
                   /\ \A x \in States : x # None
                   /\ \A x \in [by : Workers, db : Tables] : x # None
BY DEF None, Archive, States

(* A job that goes on undisturbed, or is told that it is disturbed.          *)
LEMMA OthersKeep ==
    ASSUME IInv, Kept, NEW S \in SUBSET Workers,
           \A v \in S :
              \/ job'[v] = Disturbed(job[v])
              \/ /\ job'[v] = job[v] \/ job'[v] = [job[v] EXCEPT !.deleted = TRUE]
                 /\ UNCHANGED <<db, files>>
    PROVE  \A v \in S : job'[v] \in Jobs /\ Shape(job[v])' /\ Known(job[v])'
<1> SUFFICES ASSUME NEW v \in S PROVE job'[v] \in Jobs /\ Shape(job[v])' /\ Known(job[v])'
    OBVIOUS
<1>1. job[v] \in Jobs /\ Shape(job[v]) /\ Known(job[v])
    BY DEF IInv, Typed
<1>2. CASE /\ UNCHANGED <<db, files>>
           /\ job'[v] = job[v] \/ job'[v] = [job[v] EXCEPT !.deleted = TRUE]
    <2>0. /\ job'[v] \in Jobs
          /\ \A f \in {"at", "restore", "full", "password", "restore_env", "upload", "part", "id",
                       "todo", "committed", "stuck", "before", "disturbed"} : job'[v][f] = job[v][f]
        BY <1>1, <1>2 DEF Jobs
    <2>. PICK k \in Jobs : k = job'[v]
        BY <2>0
    <2>1. /\ k.at = job[v].at /\ k.restore = job[v].restore /\ k.full = job[v].full
          /\ k.password = job[v].password /\ k.restore_env = job[v].restore_env
          /\ k.upload = job[v].upload /\ k.part = job[v].part /\ k.id = job[v].id
          /\ k.todo = job[v].todo /\ k.committed = job[v].committed /\ k.stuck = job[v].stuck
          /\ k.before = job[v].before /\ k.disturbed = job[v].disturbed
          /\ \A p : Allowed(k, p) <=> Allowed(job[v], p)
        BY <2>0 DEF Allowed
    <2>2. k.restore /\ k.at \in Holding =>
             k.id \in DOMAIN archives /\ archives'[k.id] = archives[k.id]
        BY <1>1, <2>1 DEF Shape, Holding, Kept
    <2>3. Shape(job[v])'
        BY <1>1, <2>1 DEF Shape, Kept
    <2>4. Known(job[v])'
        <3> SUFFICES ASSUME k.restore, ~k.disturbed
                     PROVE  /\ Snapshot(job[v])' /\ Saved(job[v])' /\ Replacing(job[v])'
                            /\ Undoing(job[v])' /\ Returning(job[v])'
            BY DEF Known
        <3>1. /\ Snapshot(job[v]) /\ Saved(job[v]) /\ Replacing(job[v])
              /\ Undoing(job[v]) /\ Returning(job[v])
            BY <1>1, <2>1 DEF Known
        <3>2. Snapshot(job[v])'
            BY <1>2, <2>1, <3>1 DEF Snapshot
        <3>3. Saved(job[v])'
            BY <2>1, <2>2, <3>1 DEF Saved
        <3>4. Replacing(job[v])'
            BY <1>2, <2>1, <3>1 DEF Replacing
        <3>5. Undoing(job[v])' /\ Returning(job[v])'
            BY <1>2, <2>1, <2>2, <3>1 DEF Undoing, Returning, Holding, InFiles
        <3> QED BY <3>2, <3>3, <3>4, <3>5
    <2> QED BY <2>0, <2>3, <2>4
<1>3. CASE job'[v] = Disturbed(job[v])
    <2>1. CASE job[v].restore
        <3>1. job'[v] = [job[v] EXCEPT !.disturbed = TRUE, !.before = None]
            BY <1>3, <2>1 DEF Disturbed
        <3>2. job'[v] \in Jobs
            BY <1>1, <3>1 DEF Jobs
        <3>3. Shape(job[v])'
            BY <1>1, <3>1 DEF Shape, Kept, Jobs
        <3>4. job'[v].disturbed
            BY <1>1, <3>1 DEF Jobs
        <3> QED BY <3>2, <3>3, <3>4 DEF Known
    <2>2. CASE ~job[v].restore
        <3>1. job'[v] = job[v]
            BY <1>3, <2>2 DEF Disturbed
        <3>2. Shape(job[v])'
            BY <1>1, <3>1 DEF Shape, Kept
        <3> QED BY <1>1, <2>2, <3>1, <3>2 DEF Known
    <2> QED BY <2>1, <2>2
<1> QED BY <1>2, <1>3

(* The parts of a disturbed job that others look at are as before.           *)
LEMMA DisturbedSame ==
    ASSUME NEW j \in Jobs
    PROVE  /\ Disturbed(j) \in Jobs
           /\ Disturbed(j).at = j.at /\ Disturbed(j).upload = j.upload
           /\ Disturbed(j).id = j.id /\ Disturbed(j).restore = j.restore
           /\ Disturbed(j).deleted = j.deleted
<1>1. CASE j.restore
    <2>1. Disturbed(j) = [j EXCEPT !.disturbed = TRUE, !.before = None]
        BY <1>1 DEF Disturbed
    <2> QED BY <2>1 DEF Jobs
<1>2. CASE ~j.restore
    BY <1>2 DEF Disturbed
<1> QED BY <1>1, <1>2

-------------------------------------------------------------------------------
(* Steps of a request.                                                       *)

(* Steps that change only the request itself, outside its transaction.       *)
LEMMA OwnStep ==
    ASSUME IInv, NEW w \in Workers, NEW j \in Jobs,
           Goto(w, j), UNCHANGED <<db, tx, files, archives>>, disk' \subseteq disk,
           Shape(j), Known(j), job[w].at # "files", j.at # "files"
    PROVE  IInv'
<1>1. /\ job'[w] = j /\ job' \in [Workers -> Jobs]
      /\ \A v \in Workers \ {w} : job'[v] = job[v]
    BY DEF Goto, IInv, Typed
<1>2. Typed'
    BY <1>1 DEF IInv, Typed, NextId
<1>3. \A v \in Workers \ {w} : Shape(job[v])' /\ Known(job[v])'
    BY <1>1, OthersKeep DEF Kept
<1>4. Shape(job[w])' /\ Known(job[w])'
    BY <1>1 DEF Shape, Known, Snapshot, Saved, Holding, Replacing, Undoing, Returning
<1>5. OwnTransaction'
    BY <1>1, NoneApart DEF IInv, Typed, OwnTransaction, Jobs
<1> QED BY <1>2, <1>3, <1>4, <1>5 DEF IInv

LEMMA NoJobIs == NoJob \in Jobs /\ Shape(NoJob) /\ Known(NoJob)
BY DEF NoJob, Jobs, Steps, Shape, Known

LEMMA BeginCreateKeeps ==
    ASSUME IInv, NEW w \in Workers, NEW full \in BOOLEAN, NEW password \in BOOLEAN,
           BeginCreate(w, full, password)
    PROVE  IInv'
<1> DEFINE j == [NoJob EXCEPT !.at = "settings", !.full = full, !.password = full /\ password]
<1>1. j \in Jobs /\ Shape(j) /\ Known(j) /\ j.at = "settings"
    BY DEF NoJob, Jobs, Steps, Shape, Known
<1> QED BY <1>1, OwnStep DEF BeginCreate

LEMMA BeginRestoreKeeps ==
    ASSUME IInv, NEW w \in Workers, NEW u \in Archive, NEW password \in BOOLEAN,
           NEW env \in BOOLEAN, BeginRestore(w, u, password, env)
    PROVE  IInv'
<1> DEFINE j == [NoJob EXCEPT !.at = "settings", !.restore = TRUE, !.full = TRUE,
                              !.password = password, !.restore_env = env, !.upload = u,
                              !.before = [db |-> db, files |-> files]]
<1>1. [db |-> db, files |-> files] \in States
    BY DEF States, IInv, Typed
<1>2. j \in Jobs /\ Shape(j) /\ j.at = "settings" /\ j.before = [db |-> db, files |-> files]
    BY <1>1 DEF NoJob, Jobs, Steps, Shape
<1>3. Known(j)
    BY <1>2 DEF Known, Snapshot, Saved, Holding, Replacing, Undoing, Returning
<1> QED BY <1>2, <1>3, OwnStep DEF BeginRestore

(* The tables are read one by one; nothing undisturbed has changed between.  *)
LEMMA ExportKeeps ==
    ASSUME IInv, NEW w \in Workers, ExportSettings(w) \/ ExportUsers(w)
    PROVE  IInv'
<1>1. job[w] \in Jobs /\ Shape(job[w]) /\ Known(job[w]) /\ db \in Tables
    BY DEF IInv, Typed
<1>2. CASE ExportSettings(w)
    <2> DEFINE j == [job[w] EXCEPT !.at = "users",
                                   !.part = [token |-> IF job[w].full THEN db.token ELSE Blank]]
    <2>1. j \in Jobs /\ Shape(j)
        BY <1>1, <1>2 DEF ExportSettings, Jobs, Steps, Shape, Tables
    <2>2. Known(j)
        BY <1>1, <1>2 DEF ExportSettings, Jobs, Known, Shape, Snapshot, Saved, Holding,
           Replacing, Undoing, Returning
    <2>3. j.at = "users"
        BY <1>1 DEF Jobs
    <2> QED BY <1>2, <2>1, <2>2, <2>3, OwnStep DEF ExportSettings
<1>3. CASE ExportUsers(w)
    <2> DEFINE j == [job[w] EXCEPT !.at = "copy",
                                   !.part = [users |-> db.users, token |-> job[w].part.token]]
    <2>1. j \in Jobs /\ Shape(j) /\ j.at = "copy"
        BY <1>1, <1>3 DEF ExportUsers, Jobs, Steps, Shape, Tables
    <2>2. Known(j)
        <3>1. job[w].restore /\ ~job[w].disturbed =>
                 [users |-> db.users, token |-> job[w].part.token] = job[w].before.db
            BY <1>1, <1>3 DEF ExportUsers, Known, Snapshot, Tables
        <3> QED BY <1>1, <1>3, <3>1 DEF ExportUsers, Jobs, Known, Snapshot, Saved, Holding,
                   Replacing, Undoing, Returning
    <2> QED BY <1>3, <2>1, <2>2, OwnStep DEF ExportUsers
<1> QED BY <1>2, <1>3

(* Where the transaction and the steps of those who replace files stay.      *)
LEMMA TransactionKept ==
    ASSUME IInv, UNCHANGED tx, tx # None => UNCHANGED db, job' \in [Workers -> Jobs],
           \A v \in Workers : (job'[v].at = "files" <=> job[v].at = "files")
                             /\ job'[v].upload = job[v].upload
    PROVE  OwnTransaction'
<1>1. OwnTransaction
    BY DEF IInv
<1>2. tx # None => tx.by \in Workers
    BY DEF IInv, Typed
<1> QED BY <1>1, <1>2 DEF OwnTransaction

(* Where that of one request, if it has one, is rolled back.                 *)
LEMMA TransactionClosed ==
    ASSUME IInv, NEW w \in Workers, NEW j \in Jobs, Goto(w, j), j.at # "files",
           tx' = IF tx # None /\ tx.by = w THEN None ELSE tx,
           UNCHANGED <<db, files, archives, disk>>, Shape(j), Known(j)
    PROVE  IInv'
<1>1. /\ job'[w] = j /\ job' \in [Workers -> Jobs]
      /\ \A v \in Workers \ {w} : job'[v] = job[v]
    BY DEF Goto, IInv, Typed
<1>2. Typed'
    BY <1>1 DEF IInv, Typed, NextId
<1>3. \A v \in Workers \ {w} : Shape(job[v])' /\ Known(job[v])'
    BY <1>1, OthersKeep DEF Kept
<1>4. Shape(job[w])' /\ Known(job[w])'
    BY <1>1 DEF Shape, Known, Snapshot, Saved, Holding, Replacing, Undoing, Returning
<1>5. OwnTransaction'
    <2>1. OwnTransaction /\ (tx # None => tx.by \in Workers)
        BY DEF IInv, Typed
    <2>2. CASE tx # None /\ tx.by = w
        BY <1>1, <2>1, <2>2 DEF OwnTransaction
    <2>3. CASE ~(tx # None /\ tx.by = w)
        BY <1>1, <2>1, <2>3 DEF OwnTransaction
    <2> QED BY <2>2, <2>3
<1> QED BY <1>2, <1>3, <1>4, <1>5 DEF IInv

(* The new archive of a restore holds what there was before it.              *)
LEMMA WriteArchiveKeeps ==
    ASSUME IInv, NEW w \in Workers, WriteArchive(w)
    PROVE  IInv'
<1> DEFINE copied == [p \in Paths |-> IF p = ".env" /\ ~job[w].full THEN Absent ELSE files[p]]
           new == [db |-> job[w].part, files |-> copied, signed |-> TRUE,
                   encrypted |-> job[w].full /\ job[w].password]
           j == [job[w] EXCEPT !.at = "record", !.id = NextId, !.part = None]
<1>1. /\ job[w] \in Jobs /\ Shape(job[w]) /\ Known(job[w]) /\ files \in Files
      /\ NextId \in Nat /\ DOMAIN archives = 1 .. (NextId - 1) /\ disk \subseteq DOMAIN archives
      /\ \A i \in DOMAIN archives : archives[i] \in Archive
    BY DEF IInv, Typed
<1>2. /\ job[w].at = "copy" /\ Goto(w, j) /\ disk' = disk \cup {NextId}
      /\ archives' = [i \in 1 .. NextId |-> IF i = NextId THEN new ELSE archives[i]]
      /\ UNCHANGED <<db, tx, files>>
    BY DEF WriteArchive
<1>3. NextId >= 1 /\ NextId' = NextId + 1
    <2>1. NextId = Cardinality(1 .. (NextId - 1)) + 1
        BY <1>1 DEF NextId
    <2>2. Cardinality(1 .. (NextId - 1)) \in Nat
        BY <1>1, FS_Interval
    <2>3. Cardinality(1 .. NextId) = NextId
        BY <1>1, <2>1, <2>2, FS_Interval
    <2>4. NextId >= 1
        BY <2>1, <2>2
    <2>5. DOMAIN archives' = 1 .. NextId
        BY <1>2
    <2> QED BY <2>3, <2>4, <2>5 DEF NextId
<1>4. new \in Archive
    <2>1. copied \in Files
        BY <1>1 DEF Files
    <2>2. job[w].part \in Tables /\ job[w].full \in BOOLEAN /\ job[w].password \in BOOLEAN
        BY <1>1, <1>2 DEF Shape, Jobs
    <2> QED BY <2>1, <2>2 DEF Archive
<1>5. Kept /\ DOMAIN archives' = 1 .. (NextId' - 1) /\ archives'[NextId] = new
      /\ \A i \in DOMAIN archives' : archives'[i] \in Archive
    <2>1. DOMAIN archives' = 1 .. NextId /\ NextId = NextId' - 1
        BY <1>1, <1>2, <1>3
    <2>2. \A i \in DOMAIN archives : i # NextId /\ i \in 1 .. NextId
        BY <1>1
    <2>3. /\ \A i \in DOMAIN archives : archives'[i] = archives[i]
          /\ archives'[NextId] = new
        BY <1>1, <1>2, <1>3, <2>2
    <2>4. \A i \in DOMAIN archives' : i = NextId \/ i \in DOMAIN archives
        BY <1>1, <2>1
    <2>5. \A i \in DOMAIN archives' : archives'[i] \in Archive
        BY <1>1, <1>4, <2>3, <2>4
    <2>6. DOMAIN archives \subseteq DOMAIN archives'
        BY <2>1, <2>2
    <2> QED BY <2>1, <2>3, <2>5, <2>6 DEF Kept
<1>6. j \in Jobs
    BY <1>1 DEF Jobs, Steps
<1>7. /\ job'[w] = j /\ job' \in [Workers -> Jobs]
      /\ \A v \in Workers \ {w} : job'[v] = job[v]
    BY <1>2, <1>6 DEF Goto, IInv, Typed
<1>8. Typed'
    <2>1. disk' \subseteq DOMAIN archives' /\ NextId' \in Nat
        BY <1>1, <1>2, <1>3, <1>5
    <2> QED BY <1>2, <1>5, <1>7, <2>1 DEF IInv, Typed
<1>9. \A v \in Workers \ {w} : Shape(job[v])' /\ Known(job[v])'
    BY <1>2, <1>5, <1>7, OthersKeep
<1>10. Shape(job[w])'
    BY <1>1, <1>2, <1>3, <1>5, <1>7 DEF Shape, Jobs
<1>11. Known(job[w])'
    <2> SUFFICES ASSUME job[w].restore, ~job[w].disturbed
                 PROVE  Known(job[w])'
        BY <1>1, <1>7 DEF Known, Jobs
    <2>1. Snapshot(job[w]) /\ job[w].full /\ job[w].before \in States
        BY <1>1 DEF Known, Shape
    <2>2. job[w].part = job[w].before.db /\ db = job[w].before.db /\ files = job[w].before.files
        BY <1>2, <2>1 DEF Snapshot
    <2>3. copied = files
        BY <1>1, <2>1 DEF Files
    <2>4. /\ j.at = "record" /\ j.id = NextId /\ j.before = job[w].before
          /\ j.password = job[w].password
        BY <1>1 DEF Jobs
    <2>5. new.encrypted = job[w].password /\ new.db = job[w].before.db /\ new.files = job[w].before.files
        BY <1>1, <2>1, <2>2, <2>3 DEF Jobs
    <2>6. Saved(job[w])'
        BY <1>2, <1>5, <1>7, <2>4, <2>5 DEF Saved
    <2>7. Snapshot(job[w])' /\ Replacing(job[w])' /\ Undoing(job[w])' /\ Returning(job[w])'
        BY <1>2, <1>7, <2>2, <2>4 DEF Snapshot, Replacing, Undoing, Returning
    <2> QED BY <2>6, <2>7 DEF Known
<1>12. OwnTransaction'
    <2>1. job[w].at # "files" /\ job'[w].at # "files" /\ job'[w].upload = job[w].upload
        BY <1>1, <1>2, <1>7 DEF Jobs
    <2> QED BY <1>2, <1>7, <2>1, TransactionKept
<1> QED BY <1>7, <1>8, <1>9, <1>10, <1>11, <1>12 DEF IInv

LEMMA RecordArchiveKeeps ==
    ASSUME IInv, NEW w \in Workers, RecordArchive(w)
    PROVE  IInv'
<1> DEFINE j == [job[w] EXCEPT !.at = IF job[w].restore THEN "extract" ELSE "retain"]
<1>1. job[w] \in Jobs /\ Shape(job[w]) /\ Known(job[w]) /\ job[w].at = "record"
    BY DEF IInv, Typed, RecordArchive
<1>2. j \in Jobs /\ Shape(j) /\ j.at # "files"
    BY <1>1 DEF Jobs, Steps, Shape
<1>3. Known(j)
    BY <1>1 DEF Jobs, Known, Snapshot, Saved, Holding, Replacing, Undoing, Returning
<1> QED BY <1>1, <1>2, <1>3, OwnStep DEF RecordArchive, Step

(* Retention removes archives; nothing a request knows of itself is said of disk. *)
LEMMA RetainKeeps ==
    ASSUME IInv, NEW w \in Workers, Retain(w)
    PROVE  IInv'
<1>1. /\ job[w].at = "retain" /\ NoJob.at # "files" /\ Goto(w, NoJob)
      /\ disk' = Newest(disk) /\ UNCHANGED <<db, tx, files, archives>>
    BY DEF Retain, NoJob
<1>2. disk' \subseteq disk
    BY <1>1 DEF Newest
<1> QED BY <1>1, <1>2, NoJobIs, OwnStep

LEMMA DeleteArchiveKeeps ==
    ASSUME IInv, NEW i, DeleteArchive(i)
    PROVE  IInv'
<1>1. /\ disk' = disk \ {i} /\ UNCHANGED <<db, tx, files, archives>>
      /\ job' = [v \in Workers |-> IF job[v].restore /\ job[v].id = i
                                  THEN [job[v] EXCEPT !.deleted = TRUE] ELSE job[v]]
    BY DEF DeleteArchive
<1>2. \A v \in Workers : job'[v] = job[v] \/ job'[v] = [job[v] EXCEPT !.deleted = TRUE]
    BY <1>1
<1>3. \A v \in Workers : job[v] \in Jobs
    BY DEF IInv, Typed
<1>4. \A v \in Workers : /\ job'[v].at = job[v].at /\ job'[v].upload = job[v].upload
                         /\ job'[v] \in Jobs /\ Shape(job[v])' /\ Known(job[v])'
    <2>1. \A v \in Workers : job'[v] \in Jobs /\ Shape(job[v])' /\ Known(job[v])'
        BY <1>1, <1>2, OthersKeep DEF Kept
    <2>2. \A v \in Workers : job'[v].at = job[v].at /\ job'[v].upload = job[v].upload
        <3> SUFFICES ASSUME NEW v \in Workers
                     PROVE  job'[v].at = job[v].at /\ job'[v].upload = job[v].upload
            OBVIOUS
        <3> QED BY <1>2, <1>3 DEF Jobs
    <2> QED BY <2>1, <2>2
<1>5. job' \in [Workers -> Jobs]
    BY <1>1, <1>4
<1>6. Typed'
    BY <1>1, <1>5 DEF IInv, Typed, NextId
<1>7. OwnTransaction'
    BY <1>1, <1>4, <1>5, TransactionKept
<1> QED BY <1>4, <1>6, <1>7 DEF IInv

(* A request that breaks off leaves nothing behind but its archive.          *)
LEMMA CreateFailsKeeps ==
    ASSUME IInv, NEW w \in Workers, CreateFails(w)
    PROVE  IInv'
<1>1. NoJob.at # "files" /\ job[w].at # "files"
    BY DEF NoJob, CreateFails
<1> QED BY <1>1, NoJobIs, OwnStep DEF CreateFails

-------------------------------------------------------------------------------
(* Restoring.                                                                *)

LEMMA ReplaceTablesKeeps ==
    ASSUME IInv, NEW w \in Workers, ReplaceTables(w)
    PROVE  IInv'
<1> DEFINE u == job[w].upload
           j == [job[w] EXCEPT !.at = "files", !.todo = InFiles(u)]
<1>1. /\ job[w].at = "extract" /\ tx = None /\ Goto(w, j)
      /\ tx' = [by |-> w, db |-> Restored(db, u.db)]
      /\ UNCHANGED <<db, files, archives, disk>>
    BY DEF ReplaceTables, CanWrite
<1>2. job[w] \in Jobs /\ Shape(job[w]) /\ Known(job[w]) /\ db \in Tables /\ files \in Files
    BY DEF IInv, Typed
<1>3. job[w].restore /\ u \in Archive /\ u.db \in Tables
    BY <1>1, <1>2 DEF Shape, Archive
<1>4. Restored(db, u.db) \in Tables
    BY <1>2, <1>3 DEF Restored, Tables
<1>5. j \in Jobs /\ Shape(j) /\ InFiles(u) \subseteq Paths
    BY <1>1, <1>2 DEF Jobs, Steps, Shape, InFiles
<1>6. Known(j)
    <2>1. j.at = "files" /\ j.todo = InFiles(u) /\ j.before = job[w].before /\ j.id = job[w].id
          /\ j.password = job[w].password /\ j.restore = job[w].restore
          /\ j.disturbed = job[w].disturbed /\ j.upload = u
        BY <1>2 DEF Jobs
    <2> QED BY <1>1, <1>2, <2>1 DEF Known, Snapshot, Saved, Holding, Replacing, Undoing, Returning
<1>7. /\ job'[w] = j /\ job' \in [Workers -> Jobs]
      /\ \A v \in Workers \ {w} : job'[v] = job[v]
    BY <1>1, <1>5 DEF Goto, IInv, Typed
<1>8. Typed'
    BY <1>1, <1>4, <1>7 DEF IInv, Typed, NextId
<1>9. \A v \in Workers \ {w} : Shape(job[v])' /\ Known(job[v])'
    BY <1>1, <1>7, OthersKeep DEF Kept
<1>10. Shape(job[w])' /\ Known(job[w])'
    BY <1>1, <1>5, <1>6, <1>7 DEF Shape, Known, Snapshot, Saved, Holding, Replacing, Undoing,
       Returning
<1>11. OwnTransaction'
    <2>1. \A v \in Workers : job[v].at # "files"
        BY <1>1 DEF IInv, OwnTransaction
    <2>2. job'[w].at = "files" /\ job'[w].upload = u
        BY <1>2, <1>7 DEF Jobs
    <2>3. tx' # None /\ tx'.by = w /\ tx'.db = Restored(db', u.db)
        BY <1>1, <1>4, NoneApart
    <2> QED BY <1>7, <2>1, <2>2, <2>3 DEF OwnTransaction
<1> QED BY <1>7, <1>8, <1>9, <1>10, <1>11 DEF IInv

(* A step that touches what others restore disturbs them.                    *)
LEMMA Alone ==
    ASSUME IInv, NEW w \in Workers, NEW j \in Jobs, GotoDisturbing(w, j),
           UNCHANGED <<archives, disk>>
    PROVE  /\ job'[w] = j /\ job' \in [Workers -> Jobs]
           /\ \A v \in Workers \ {w} :
                 /\ Shape(job[v])' /\ Known(job[v])'
                 /\ job'[v].at = job[v].at /\ job'[v].upload = job[v].upload
<1>1. \A v \in Workers : job[v] \in Jobs
    BY DEF IInv, Typed
<1>2. job'[w] = j /\ \A v \in Workers \ {w} : job'[v] = Disturbed(job[v])
    BY DEF GotoDisturbing
<1>3. job' \in [Workers -> Jobs]
    BY <1>1, DisturbedSame DEF GotoDisturbing
<1>4. \A v \in Workers \ {w} : Shape(job[v])' /\ Known(job[v])'
    BY <1>2, OthersKeep DEF Kept
<1> QED BY <1>1, <1>2, <1>3, <1>4, DisturbedSame

LEMMA RestoreFileKeeps ==
    ASSUME IInv, NEW w \in Workers, NEW p \in Paths, RestoreFile(w, p)
    PROVE  IInv'
<1> DEFINE u == job[w].upload
           j == [job[w] EXCEPT !.todo = @ \ {p}]
<1>1. /\ job[w].at = "files" /\ p \in job[w].todo /\ UNCHANGED <<db, tx, archives, disk>>
      /\ IF Allowed(job[w], p)
         THEN files' = [files EXCEPT ![p] = u.files[p]] /\ GotoDisturbing(w, j)
         ELSE UNCHANGED files /\ Goto(w, j)
    BY DEF RestoreFile
<1>2. job[w] \in Jobs /\ Shape(job[w]) /\ Known(job[w]) /\ files \in Files
    BY DEF IInv, Typed
<1>3. u \in Archive /\ u.files \in Files /\ p \in InFiles(u)
    BY <1>1, <1>2 DEF Shape, Archive
<1>4. /\ j \in Jobs /\ Shape(j) /\ j.at = "files" /\ j.upload = u /\ j.todo = job[w].todo \ {p}
      /\ j.before = job[w].before /\ j.id = job[w].id /\ j.password = job[w].password
      /\ j.restore = job[w].restore /\ j.disturbed = job[w].disturbed
      /\ \A q : Allowed(j, q) <=> Allowed(job[w], q)
    BY <1>1, <1>2 DEF Jobs, Shape, Allowed, authentic
<1>5. /\ job'[w] = j /\ job' \in [Workers -> Jobs]
      /\ \A v \in Workers \ {w} :
            /\ Shape(job[v])' /\ Known(job[v])'
            /\ job'[v].at = job[v].at /\ job'[v].upload = job[v].upload
    <2>1. CASE Allowed(job[w], p)
        BY <1>1, <1>4, <2>1, Alone
    <2>2. CASE ~Allowed(job[w], p)
        <3>1. /\ job'[w] = j /\ job' \in [Workers -> Jobs]
              /\ \A v \in Workers \ {w} : job'[v] = job[v]
            BY <1>1, <1>4, <2>2 DEF Goto, IInv, Typed
        <3> QED BY <1>1, <2>2, <3>1, OthersKeep DEF Kept
    <2> QED BY <2>1, <2>2
<1>6. files' \in Files /\ \A q \in Paths :
         files'[q] = IF q = p /\ Allowed(job[w], p) THEN u.files[p] ELSE files[q]
    BY <1>1, <1>2, <1>3 DEF Files
<1>7. Typed'
    BY <1>1, <1>5, <1>6 DEF IInv, Typed, NextId
<1>8. Shape(job[w])'
    BY <1>1, <1>4, <1>5 DEF Shape
<1>9. Known(job[w])'
    <2> SUFFICES ASSUME job[w].restore, ~job[w].disturbed
                 PROVE  Known(job[w])'
        BY <1>4, <1>5 DEF Known
    <2>1. Saved(job[w]) /\ Replacing(job[w])
        BY <1>2 DEF Known
    <2>2. \A q \in Paths : files'[q] = IF q \in InFiles(u) \ j.todo /\ Allowed(j, q)
                                      THEN u.files[q] ELSE job[w].before.files[q]
        BY <1>1, <1>3, <1>4, <1>6, <2>1 DEF Replacing
    <2>3. /\ j.at = "files" /\ db' = j.before.db
          /\ \A q \in Paths : files'[q] = IF q \in InFiles(j.upload) \ j.todo /\ Allowed(j, q)
                                         THEN j.upload.files[q] ELSE j.before.files[q]
        BY <1>1, <1>4, <2>1, <2>2 DEF Replacing
    <2> HIDE DEF j
    <2>5. Replacing(job[w])'
        BY <1>5, <2>3 DEF Replacing
    <2>4. Saved(job[w])' /\ Snapshot(job[w])' /\ Undoing(job[w])' /\ Returning(job[w])'
        BY <1>1, <1>4, <1>5, <2>1 DEF Saved, Holding, Snapshot, Undoing, Returning
    <2> QED BY <2>4, <2>5 DEF Known
<1>10. OwnTransaction'
    <2>1. \A v \in Workers : (job'[v].at = "files" <=> job[v].at = "files")
                            /\ job'[v].upload = job[v].upload
        BY <1>1, <1>4, <1>5
    <2> QED BY <1>1, <1>5, <2>1, TransactionKept
<1> QED BY <1>5, <1>7, <1>8, <1>9, <1>10 DEF IInv

LEMMA CommitKeeps ==
    ASSUME IInv, NEW w \in Workers, Commit(w)
    PROVE  IInv'
<1> DEFINE j == [job[w] EXCEPT !.at = "restored", !.committed = TRUE]
<1>1. /\ job[w].at = "files" /\ job[w].todo = {} /\ db' = tx.db /\ tx' = None
      /\ GotoDisturbing(w, j) /\ UNCHANGED <<files, archives, disk>>
    BY DEF Commit
<1>2. job[w] \in Jobs /\ Shape(job[w]) /\ Known(job[w])
    BY DEF IInv, Typed
<1>3. /\ tx # None /\ tx.by = w /\ tx \in [by : Workers, db : Tables]
      /\ tx.db = Restored(db, job[w].upload.db)
      /\ \A v \in Workers \ {w} : job[v].at # "files"
    BY <1>1 DEF IInv, Typed, OwnTransaction
<1>4. /\ j \in Jobs /\ j.at = "restored" /\ j.committed /\ j.upload = job[w].upload
      /\ j.before = job[w].before /\ j.id = job[w].id /\ j.password = job[w].password
      /\ j.restore = job[w].restore /\ j.disturbed = job[w].disturbed /\ j.todo = {}
      /\ j.full = job[w].full
      /\ \A q : Allowed(j, q) <=> Allowed(job[w], q)
    BY <1>1, <1>2 DEF Jobs, Steps, Allowed, authentic
<1>5. /\ job'[w] = j /\ job' \in [Workers -> Jobs]
      /\ \A v \in Workers \ {w} :
            /\ Shape(job[v])' /\ Known(job[v])'
            /\ job'[v].at = job[v].at /\ job'[v].upload = job[v].upload
    BY <1>1, <1>4, Alone
<1>6. Typed'
    BY <1>1, <1>3, <1>5 DEF IInv, Typed, NextId
<1>7. Shape(job[w])'
    BY <1>1, <1>2, <1>4, <1>5 DEF Shape
<1>8. Known(job[w])'
    <2> SUFFICES ASSUME job[w].restore, ~job[w].disturbed
                 PROVE  Known(job[w])'
        BY <1>4, <1>5 DEF Known
    <2>1. Saved(job[w]) /\ Replacing(job[w])
        BY <1>2 DEF Known
    <2>2. db' = Restored(job[w].before.db, job[w].upload.db)
        BY <1>1, <1>3, <2>1 DEF Replacing
    <2>3. \A p \in Paths : files'[p] = IF p \in InFiles(j.upload) \ j.todo /\ Allowed(j, p)
                                      THEN j.upload.files[p] ELSE j.before.files[p]
        BY <1>1, <1>4, <2>1 DEF Replacing
    <2>4. Replacing(job[w])'
        BY <1>4, <1>5, <2>2, <2>3 DEF Replacing
    <2>5. Saved(job[w])' /\ Snapshot(job[w])' /\ Undoing(job[w])' /\ Returning(job[w])'
        BY <1>1, <1>4, <1>5, <2>1 DEF Saved, Holding, Snapshot, Undoing, Returning
    <2> QED BY <2>4, <2>5 DEF Known
<1>9. OwnTransaction'
    <2>1. \A v \in Workers : job'[v].at # "files"
        BY <1>3, <1>4, <1>5
    <2> QED BY <1>1, <2>1 DEF OwnTransaction
<1> QED BY <1>5, <1>6, <1>7, <1>8, <1>9 DEF IInv

LEMMA RequestEnds ==
    ASSUME IInv, NEW w \in Workers, RecordRestore(w) \/ ReportFailure(w)
    PROVE  IInv'
<1>1. NoJob.at # "files" /\ job[w].at # "files"
    BY DEF NoJob, RecordRestore, ReportFailure
<1> QED BY <1>1, NoJobIs, OwnStep DEF RecordRestore, ReportFailure

-------------------------------------------------------------------------------
(* Undoing.                                                                  *)

(* What cannot be copied back was not there, or was not replaced.            *)
LEMMA RestoreFailsKeeps ==
    ASSUME IInv, NEW w \in Workers, RestoreFails(w)
    PROVE  IInv'
<1> DEFINE j == [job[w] EXCEPT !.at = "undo", !.todo = Undoable(job[w]),
                               !.stuck = IF job[w].id \in disk THEN "no" ELSE "gone"]
<1>1. /\ job[w].at \in {"extract", "files", "restored"} /\ Goto(w, j)
      /\ tx' = IF tx # None /\ tx.by = w THEN None ELSE tx
      /\ UNCHANGED <<db, files, archives, disk>>
    BY DEF RestoreFails
<1>2. job[w] \in Jobs /\ Shape(job[w]) /\ Known(job[w])
    BY DEF IInv, Typed
<1>3. Undoable(job[w]) \subseteq Paths
    BY DEF Undoable, InFiles
<1>4. /\ j \in Jobs /\ j.at = "undo" /\ j.todo = Undoable(job[w])
      /\ j.stuck = IF job[w].id \in disk THEN "no" ELSE "gone"
      /\ j.before = job[w].before /\ j.id = job[w].id /\ j.password = job[w].password
      /\ j.restore = job[w].restore /\ j.disturbed = job[w].disturbed
      /\ j.committed = job[w].committed /\ j.full = job[w].full /\ j.upload = job[w].upload
    BY <1>2, <1>3 DEF Jobs, Steps
<1> HIDE DEF j
<1>5. Shape(j)
    BY <1>1, <1>2, <1>4 DEF Shape
<1>6. Known(j)
    <2> SUFFICES ASSUME job[w].restore, ~job[w].disturbed
                 PROVE  Known(j)
        BY <1>4 DEF Known
    <2>1. Snapshot(job[w]) /\ Saved(job[w]) /\ Replacing(job[w])
        BY <1>2 DEF Known
    <2>2. Saved(j) /\ Snapshot(j) /\ Replacing(j)
        BY <1>1, <1>4, <2>1 DEF Saved, Holding, Snapshot, Replacing
    <2>3. Undoing(j)
        <3>1. CASE job[w].committed
            <4>1. job[w].at = "restored"
                BY <1>1, <1>2, <3>1 DEF Shape
            <4> QED BY <1>4, <2>1, <3>1, <4>1 DEF Replacing, Undoing
        <3>2. CASE ~job[w].committed
            <4>1. job[w].at \in {"extract", "files"}
                BY <1>1, <1>2, <3>2 DEF Shape
            <4> QED BY <1>4, <2>1, <3>2, <4>1 DEF Snapshot, Replacing, Undoing
        <3> QED BY <3>1, <3>2
    <2>4. ASSUME ~j.password, j.stuck = "no"
          PROVE  /\ j.todo \subseteq InFiles(archives[j.id])
                 /\ \A p \in Paths \ j.todo :
                       j.before.files[p] # Absent => files[p] = j.before.files[p]
        <3>1. /\ job[w].id \in disk /\ ~archives[job[w].id].encrypted
              /\ archives[job[w].id].files = job[w].before.files
            BY <1>1, <1>4, <2>1, <2>4 DEF Saved, Holding
        <3>2. j.todo = {p \in InFiles(archives[j.id]) : p = ".env" => job[w].restore_env}
            BY <1>4, <3>1 DEF Undoable
        <3>3. ASSUME NEW p \in Paths, p \notin j.todo, j.before.files[p] # Absent
              PROVE  files[p] = j.before.files[p]
            <4>1. p = ".env" /\ ~job[w].restore_env
                BY <1>4, <3>1, <3>2, <3>3 DEF InFiles
            <4>2. ~Allowed(job[w], p)
                BY <4>1 DEF Allowed
            <4> QED BY <1>1, <1>4, <2>1, <4>2 DEF Snapshot, Replacing
        <3> QED BY <3>2, <3>3
    <2>5. Returning(j)
        BY <2>4 DEF Returning
    <2> QED BY <2>2, <2>3, <2>5 DEF Known
<1> QED BY <1>1, <1>4, <1>5, <1>6, TransactionClosed

LEMMA UndoFileKeeps ==
    ASSUME IInv, NEW w \in Workers, NEW p \in Paths, UndoFile(w, p)
    PROVE  IInv'
<1> DEFINE a == archives[job[w].id]
           j == [job[w] EXCEPT !.todo = @ \ {p}]
<1>1. /\ job[w].at = "undo" /\ p \in job[w].todo /\ UNCHANGED <<db, tx, archives, disk>>
      /\ files' = [files EXCEPT ![p] = a.files[p]] /\ GotoDisturbing(w, j)
    BY DEF UndoFile
<1>2. job[w] \in Jobs /\ Shape(job[w]) /\ Known(job[w]) /\ files \in Files
    BY DEF IInv, Typed
<1>3. a \in Archive /\ a.files \in Files
    BY <1>1, <1>2 DEF Shape, IInv, Typed, Archive
<1>4. /\ j \in Jobs /\ j.at = "undo" /\ j.todo = job[w].todo \ {p}
      /\ j.before = job[w].before /\ j.id = job[w].id /\ j.password = job[w].password
      /\ j.restore = job[w].restore /\ j.disturbed = job[w].disturbed
      /\ j.committed = job[w].committed /\ j.full = job[w].full /\ j.upload = job[w].upload
      /\ j.stuck = job[w].stuck
    BY <1>1, <1>2 DEF Jobs
<1>5. /\ job'[w] = j /\ job' \in [Workers -> Jobs]
      /\ \A v \in Workers \ {w} :
            /\ Shape(job[v])' /\ Known(job[v])'
            /\ job'[v].at = job[v].at /\ job'[v].upload = job[v].upload
    BY <1>1, <1>4, Alone
<1>6. files' \in Files /\ \A q \in Paths : files'[q] = IF q = p THEN a.files[p] ELSE files[q]
    BY <1>1, <1>2, <1>3 DEF Files
<1>7. Typed'
    BY <1>1, <1>5, <1>6 DEF IInv, Typed, NextId
<1>8. Shape(job[w])'
    BY <1>1, <1>2, <1>4, <1>5 DEF Shape
<1>9. Known(job[w])'
    <2> SUFFICES ASSUME job[w].restore, ~job[w].disturbed
                 PROVE  Known(job[w])'
        BY <1>4, <1>5 DEF Known
    <2>1. Saved(job[w]) /\ Undoing(job[w]) /\ Returning(job[w])
        BY <1>2 DEF Known
    <2> HIDE DEF j
    <2>2. Saved(job[w])' /\ Snapshot(job[w])' /\ Replacing(job[w])'
        BY <1>1, <1>4, <1>5, <2>1 DEF Saved, Holding, Snapshot, Replacing
    <2>3. Undoing(job[w])'
        BY <1>1, <1>4, <1>5, <2>1 DEF Undoing
    <2>4. Returning(job[w])'
        <3>1. a.files = j.before.files
            BY <1>1, <1>4, <2>1 DEF Saved, Holding
        <3> QED BY <1>1, <1>4, <1>5, <1>6, <2>1, <3>1 DEF Returning
    <2> QED BY <2>2, <2>3, <2>4 DEF Known
<1>10. OwnTransaction'
    <2>1. \A v \in Workers : (job'[v].at = "files" <=> job[v].at = "files")
                            /\ job'[v].upload = job[v].upload
        BY <1>1, <1>4, <1>5
    <2> QED BY <1>1, <1>5, <2>1, TransactionKept
<1> QED BY <1>5, <1>7, <1>8, <1>9, <1>10 DEF IInv

(* The files stay as they are; that they are back is no longer said.         *)
LEMMA UndoFailsKeeps ==
    ASSUME IInv, NEW w \in Workers, UndoFails(w)
    PROVE  IInv'
<1> DEFINE j == [job[w] EXCEPT !.todo = {}, !.stuck = "error"]
<1>1. /\ job[w].at = "undo" /\ Goto(w, j) /\ UNCHANGED <<db, tx, files, archives, disk>>
    BY DEF UndoFails
<1>2. job[w] \in Jobs /\ Shape(job[w]) /\ Known(job[w])
    BY DEF IInv, Typed
<1>3. /\ j \in Jobs /\ j.at = "undo" /\ j.todo = {} /\ j.stuck = "error"
      /\ j.before = job[w].before /\ j.id = job[w].id /\ j.password = job[w].password
      /\ j.restore = job[w].restore /\ j.disturbed = job[w].disturbed
      /\ j.committed = job[w].committed /\ j.full = job[w].full /\ j.upload = job[w].upload
    BY <1>1, <1>2 DEF Jobs
<1> HIDE DEF j
<1>4. Shape(j)
    BY <1>1, <1>2, <1>3 DEF Shape
<1>5. Known(j)
    BY <1>1, <1>2, <1>3 DEF Known, Snapshot, Saved, Holding, Replacing, Undoing, Returning
<1> QED BY <1>1, <1>3, <1>4, <1>5, OwnStep

-------------------------------------------------------------------------------
(* What else happens.                                                        *)

LEMMA CrashKeeps ==
    ASSUME IInv, NEW w \in Workers, Crash(w)
    PROVE  IInv'
<1>1. /\ Goto(w, NoJob) /\ tx' = IF tx # None /\ tx.by = w THEN None ELSE tx
      /\ UNCHANGED <<db, files, archives, disk>> /\ NoJob.at # "files"
    BY DEF Crash, NoJob
<1> QED BY <1>1, NoJobIs, TransactionClosed

LEMMA EditKeeps ==
    ASSUME IInv, Edit
    PROVE  IInv'
<1>1. Disturbing /\ UNCHANGED <<tx, archives, disk>> /\ db \in Tables /\ files \in Files
    BY DEF Edit, IInv, Typed
<1>2. /\ job' \in [Workers -> Jobs]
      /\ \A v \in Workers : /\ Shape(job[v])' /\ Known(job[v])'
                            /\ job'[v].at = job[v].at /\ job'[v].upload = job[v].upload
    <2>1. \A v \in Workers : job'[v] = Disturbed(job[v]) /\ job[v] \in Jobs
        BY <1>1 DEF Disturbing, IInv, Typed
    <2>2. job' \in [Workers -> Jobs]
        BY <1>1, <2>1, DisturbedSame DEF Disturbing
    <2> QED BY <1>1, <2>1, <2>2, OthersKeep, DisturbedSame DEF Kept
<1>3. db' \in Tables /\ files' \in Files /\ (tx # None => UNCHANGED db)
    BY <1>1 DEF Edit, Tables, Files, CanWrite
<1>4. Typed'
    BY <1>1, <1>2, <1>3 DEF IInv, Typed, NextId
<1>5. OwnTransaction'
    BY <1>1, <1>2, <1>3, TransactionKept
<1> QED BY <1>2, <1>4, <1>5 DEF IInv

(* Delivery touches the log only.                                            *)
LEMMA ElsewhereKeeps ==
    ASSUME IInv, UNCHANGED <<db, tx, files, archives, disk, job>>
    PROVE  IInv'
BY DEF IInv, Typed, NextId, Shape, Known, Snapshot, Saved, Holding, Replacing, Undoing,
   Returning, OwnTransaction

-------------------------------------------------------------------------------
LEMMA Inductive ==
    ASSUME IInv, [Next]_vars
    PROVE  IInv'
<1>1. CASE UNCHANGED vars
    BY <1>1, ElsewhereKeeps DEF vars
<1>2. ASSUME NEW w \in Workers, NEW full \in BOOLEAN, NEW password \in BOOLEAN,
             BeginCreate(w, full, password)
      PROVE  IInv'
    BY <1>2, BeginCreateKeeps
<1>3. ASSUME NEW w \in Workers, NEW u \in Brought \cup {archives[i] : i \in DOMAIN archives},
             NEW password \in BOOLEAN, NEW env \in BOOLEAN, BeginRestore(w, u, password, env)
      PROVE  IInv'
    <2>1. u \in Archive
        BY BackupAssumption DEF IInv, Typed
    <2> QED BY <1>3, <2>1, BeginRestoreKeeps
<1>4. ASSUME NEW w \in Workers, Serve(w) PROVE IInv'
    BY <1>4, ExportKeeps, WriteArchiveKeeps, RecordArchiveKeeps, RetainKeeps, ReplaceTablesKeeps,
       RestoreFileKeeps, CommitKeeps, RequestEnds, UndoFileKeeps DEF Serve
<1>5. ASSUME NEW w \in Workers, CreateFails(w) \/ RestoreFails(w) \/ UndoFails(w) \/ Crash(w)
      PROVE  IInv'
    BY <1>5, CreateFailsKeeps, RestoreFailsKeeps, UndoFailsKeeps, CrashKeeps
<1>6. ASSUME NEW i \in Ids,
             Deliver(i) \/ DeliveryFails(i) \/ DeleteArchive(i) \/ SendByHand(i)
      PROVE  IInv'
    <2>1. CASE Deliver(i) \/ DeliveryFails(i) \/ SendByHand(i)
        BY <2>1, ElsewhereKeeps DEF Deliver, Attempt, Answer, DeliveryFails, SendByHand
    <2> QED BY <1>6, <2>1, DeleteArchiveKeeps
<1>7. CASE Edit
    BY <1>7, EditKeeps
<1> QED BY <1>1, <1>2, <1>3, <1>4, <1>5, <1>6, <1>7 DEF Next

LEMMA Initially == Init => IInv
<1> SUFFICES ASSUME Init PROVE IInv
    OBVIOUS
<1>1. db \in Tables /\ files \in Files
    BY BackupAssumption DEF Init, Tables, Files
<1>2. DOMAIN archives = {} /\ NextId = 1
    <2>1. DOMAIN archives = {}
        BY DEF Init
    <2> QED BY <2>1, FS_EmptySet DEF NextId
<1>3. 1 .. (NextId - 1) = {}
    BY <1>2
<1>4. \A w \in Workers : job[w] = NoJob
    BY DEF Init
<1>5. Typed
    BY <1>1, <1>2, <1>3, NoJobIs DEF Init, Typed
<1>6. \A w \in Workers : Shape(job[w]) /\ Known(job[w]) /\ job[w].at # "files"
    BY <1>4, NoJobIs DEF NoJob
<1> QED BY <1>5, <1>6 DEF Init, IInv, OwnTransaction

LEMMA IInvAlways == Spec => []IInv
BY Initially, Inductive, PTL DEF Spec

(* restore_backup, its transaction and _rollback_files restore everything of *)
(* the archive or leave everything as it was, for any tables, files and      *)
(* archives, so long as others take, restore and remove archives but change  *)
(* nothing: except for files where a password was given, the emergency       *)
(* archive is gone, or undoing fails itself, and for tables of a restore     *)
(* that fails after its commit, which are all of the archive.                *)
THEOREM RestoresAllOrNothing == Spec => []AllOrNothing
<1>1. IInv => AllOrNothing
    <2> SUFFICES ASSUME IInv, NEW w \in Workers, job[w].restore, ~job[w].disturbed
                 PROVE  LET j == job[w] IN
                        /\ j.at = "restored" => TablesReplaced(j) /\ FilesReplaced(j)
                        /\ j.at = "undo" /\ j.todo = {} =>
                              /\ IF j.committed THEN TablesReplaced(j) ELSE db = j.before.db
                              /\ ~j.password /\ j.stuck = "no" => FilesBack(j)
        BY DEF AllOrNothing
    <2>1. Shape(job[w]) /\ Replacing(job[w]) /\ Undoing(job[w]) /\ Returning(job[w])
        BY DEF IInv, Known
    <2>2. job[w].upload.db \in Tables /\ job[w].before.db \in Tables
        BY <2>1 DEF Shape, Archive, States
    <2>3. db = Restored(job[w].before.db, job[w].upload.db) => TablesReplaced(job[w])
        BY <2>2 DEF Restored, TablesReplaced, Tables
    <2>4. job[w].at = "restored" => FilesReplaced(job[w])
        BY <2>1 DEF Replacing, FilesReplaced, InFiles
    <2>5. job[w].at = "undo" /\ job[w].todo = {} /\ ~job[w].password /\ job[w].stuck = "no" =>
             FilesBack(job[w])
        BY <2>1 DEF Returning, FilesBack
    <2> QED BY <2>1, <2>3, <2>4, <2>5 DEF Replacing, Undoing
<1> QED BY <1>1, IInvAlways, PTL

-------------------------------------------------------------------------------
(* How long the emergency archive stays.                                     *)

(* It is on disk, or an admin deleted it, or it is one of the older ones.    *)
NewerIn(ids, id) == {i \in ids : i > id}

Held(j) == j.restore /\ j.at \in Holding =>
              \/ j.id \in disk
              \/ j.deleted
              \/ Cardinality(NewerIn(DOMAIN archives, j.id)) >= MaxKeep

AllHeld == \A w \in Workers : Held(job[w])

(* A request that goes on with the archive it has, or has none (yet).        *)
Follows(w) ==
    job'[w].restore /\ job'[w].at \in Holding =>
        /\ job[w].restore /\ job[w].at \in Holding
        /\ job'[w].id = job[w].id
        /\ job[w].deleted => job'[w].deleted

LEMMA ArchivesFinite == ASSUME IInv PROVE IsFiniteSet(DOMAIN archives)
BY FS_Interval DEF IInv, Typed

(* Archives that are newer only become more.                                 *)
LEMMA NewerGrow ==
    ASSUME NEW S, NEW T, S \subseteq T, IsFiniteSet(T), NEW id
    PROVE  /\ Cardinality(NewerIn(S, id)) \in Nat /\ Cardinality(NewerIn(T, id)) \in Nat
           /\ Cardinality(NewerIn(S, id)) <= Cardinality(NewerIn(T, id))
<1>1. NewerIn(T, id) \subseteq T /\ NewerIn(S, id) \subseteq NewerIn(T, id)
    BY DEF NewerIn
<1>2. IsFiniteSet(NewerIn(T, id))
    BY <1>1, FS_Subset
<1> QED BY <1>1, <1>2, FS_Subset, FS_CardinalityType

LEMMA FollowsHeld ==
    ASSUME IInv, IInv', Kept, disk \subseteq disk', NEW w \in Workers, Held(job[w]), Follows(w)
    PROVE  Held(job[w])'
<1> SUFFICES ASSUME job'[w].restore, job'[w].at \in Holding
             PROVE  \/ job'[w].id \in disk'
                    \/ job'[w].deleted
                    \/ Cardinality(NewerIn(DOMAIN archives', job'[w].id)) >= MaxKeep
    BY DEF Held
<1>1. job'[w].id = job[w].id /\ MaxKeep \in Nat
    BY BackupAssumption DEF Follows
<1>2. \/ job[w].id \in disk
      \/ job[w].deleted
      \/ Cardinality(NewerIn(DOMAIN archives, job[w].id)) >= MaxKeep
    BY DEF Follows, Held
<1>3. CASE job[w].id \in disk \/ job[w].deleted
    BY <1>1, <1>3 DEF Follows
<1>4. CASE Cardinality(NewerIn(DOMAIN archives, job[w].id)) >= MaxKeep
    <2>1. IsFiniteSet(DOMAIN archives')
        BY FS_Interval DEF IInv, Typed
    <2>2. /\ Cardinality(NewerIn(DOMAIN archives, job[w].id)) \in Nat
          /\ Cardinality(NewerIn(DOMAIN archives', job[w].id)) \in Nat
          /\ Cardinality(NewerIn(DOMAIN archives, job[w].id)) <=
                Cardinality(NewerIn(DOMAIN archives', job[w].id))
        BY <2>1, NewerGrow DEF Kept
    <2> QED BY <1>1, <1>4, <2>2
<1> QED BY <1>2, <1>3, <1>4

(* A new archive is on disk, and the others of before are too.               *)
LEMMA WriteArchiveHolds ==
    ASSUME IInv, IInv', AllHeld, NEW w \in Workers, WriteArchive(w)
    PROVE  AllHeld'
<1>1. /\ disk' = disk \cup {NextId}
      /\ Goto(w, [job[w] EXCEPT !.at = "record", !.id = NextId, !.part = None])
      /\ \E new : archives' = [i \in 1 .. NextId |-> IF i = NextId THEN new ELSE archives[i]]
    BY DEF WriteArchive
<1>2. /\ DOMAIN archives = 1 .. (NextId - 1) /\ NextId \in Nat
      /\ job \in [Workers -> Jobs]
    BY DEF IInv, Typed
<1>3. Kept
    BY <1>1, <1>2 DEF Kept
<1>4. job'[w].id = NextId /\ \A v \in Workers \ {w} : job'[v] = job[v]
    BY <1>1, <1>2 DEF Goto, Jobs
<1>5. \A v \in Workers \ {w} : Held(job[v])'
    BY <1>1, <1>3, <1>4, FollowsHeld DEF AllHeld, Follows
<1>6. Held(job[w])'
    BY <1>1, <1>4 DEF Held
<1> QED BY <1>5, <1>6 DEF AllHeld

(* What retention removes is older than as many as are kept.                 *)
LEMMA RetainHolds ==
    ASSUME IInv, IInv', AllHeld, NEW w \in Workers, Retain(w)
    PROVE  AllHeld'
<1>1. disk' = Newest(disk) /\ UNCHANGED archives /\ Goto(w, NoJob)
    BY DEF Retain
<1>2. job'[w] = NoJob /\ \A v \in Workers \ {w} : job'[v] = job[v]
    BY <1>1 DEF Goto, IInv, Typed
<1>3. ASSUME NEW v \in Workers \ {w} PROVE Held(job[v])'
    <2> SUFFICES ASSUME job[v].restore, job[v].at \in Holding, ~job[v].deleted,
                        job[v].id \notin disk'
                 PROVE  Cardinality(NewerIn(DOMAIN archives, job[v].id)) >= MaxKeep
        BY <1>1, <1>2 DEF Held
    <2>1. CASE job[v].id \notin disk
        BY <2>1 DEF AllHeld, Held
    <2>2. CASE job[v].id \in disk
        <3>1. ~(Cardinality(NewerIn(disk, job[v].id)) < MaxKeep)
            BY <1>1, <2>2 DEF Newest, NewerIn
        <3>2. /\ Cardinality(NewerIn(disk, job[v].id)) \in Nat
              /\ Cardinality(NewerIn(DOMAIN archives, job[v].id)) \in Nat
              /\ Cardinality(NewerIn(disk, job[v].id)) <=
                    Cardinality(NewerIn(DOMAIN archives, job[v].id))
            BY ArchivesFinite, NewerGrow DEF IInv, Typed
        <3> QED BY <3>1, <3>2, BackupAssumption
    <2> QED BY <2>1, <2>2
<1>4. Held(job[w])'
    BY <1>2 DEF Held, NoJob, Holding
<1> QED BY <1>3, <1>4 DEF AllHeld

LEMMA DeleteArchiveHolds ==
    ASSUME IInv, IInv', AllHeld, NEW i, DeleteArchive(i)
    PROVE  AllHeld'
<1>1. /\ disk' = disk \ {i} /\ UNCHANGED archives
      /\ job' = [v \in Workers |-> IF job[v].restore /\ job[v].id = i
                                  THEN [job[v] EXCEPT !.deleted = TRUE] ELSE job[v]]
    BY DEF DeleteArchive
<1>2. ASSUME NEW v \in Workers PROVE Held(job[v])'
    <2>1. job[v] \in Jobs /\ Held(job[v])
        BY DEF IInv, Typed, AllHeld
    <2>2. CASE job[v].restore /\ job[v].id = i
        BY <1>1, <2>1, <2>2 DEF Jobs, Held
    <2>3. CASE ~(job[v].restore /\ job[v].id = i)
        BY <1>1, <2>1, <2>3 DEF Held
    <2> QED BY <2>2, <2>3
<1> QED BY <1>2 DEF AllHeld

(* Every other step leaves the archives alone.                               *)
LEMMA OthersHold ==
    ASSUME IInv, IInv', AllHeld, UNCHANGED <<archives, disk>>, \A v \in Workers : Follows(v)
    PROVE  AllHeld'
BY FollowsHeld DEF AllHeld, Kept

(* A request that goes on as j, others as they were or disturbed.            *)
LEMMA GoesOn ==
    ASSUME IInv, NEW w \in Workers, NEW j, Goto(w, j) \/ GotoDisturbing(w, j),
           \/ j.at \notin Holding
           \/ /\ j.restore = job[w].restore /\ job[w].at \in Holding
              /\ j.id = job[w].id /\ j.deleted = job[w].deleted
    PROVE  \A v \in Workers : Follows(v)
<1>1. job \in [Workers -> Jobs]
    BY DEF IInv, Typed
<1>2. Follows(w)
    <2>1. job'[w] = j
        BY <1>1 DEF Goto, GotoDisturbing
    <2> QED BY <2>1 DEF Follows
<1>3. ASSUME NEW v \in Workers \ {w} PROVE Follows(v)
    <2>1. job'[v] = job[v] \/ job'[v] = Disturbed(job[v])
        BY <1>1 DEF Goto, GotoDisturbing
    <2> QED BY <1>1, <2>1, DisturbedSame DEF Follows
<1> QED BY <1>2, <1>3

(* The steps of a request, and what ends it.                                 *)
RequestStep(w) ==
    \/ \E full, password \in BOOLEAN : BeginCreate(w, full, password)
    \/ \E u \in Brought \cup {archives[i] : i \in DOMAIN archives}, password, env \in BOOLEAN :
          BeginRestore(w, u, password, env)
    \/ ExportSettings(w) \/ ExportUsers(w) \/ RecordArchive(w)
    \/ ReplaceTables(w) \/ (\E p \in Paths : RestoreFile(w, p)) \/ Commit(w) \/ RecordRestore(w)
    \/ (\E p \in Paths : UndoFile(w, p)) \/ ReportFailure(w)
    \/ CreateFails(w) \/ RestoreFails(w) \/ UndoFails(w) \/ Crash(w)

LEMMA RequestFollows ==
    ASSUME IInv, NEW w \in Workers, RequestStep(w)
    PROVE  UNCHANGED <<archives, disk>> /\ \A v \in Workers : Follows(v)
<1>1. job[w] \in Jobs
    BY DEF IInv, Typed
<1>2. NoJob.at = "idle" /\ NoJob \in Jobs
    BY NoJobIs DEF NoJob
<1>3. CASE \E full, password \in BOOLEAN : BeginCreate(w, full, password)
    <2>1. PICK full \in BOOLEAN, password \in BOOLEAN : BeginCreate(w, full, password)
        BY <1>3
    <2> DEFINE j == [NoJob EXCEPT !.at = "settings", !.full = full, !.password = full /\ password]
    <2>2. j.at \notin Holding
        BY DEF NoJob, Holding
    <2> QED BY <2>1, <2>2, GoesOn DEF BeginCreate
<1>4. CASE \E u \in Brought \cup {archives[i] : i \in DOMAIN archives}, password, env \in BOOLEAN :
              BeginRestore(w, u, password, env)
    <2>1. PICK u \in Brought \cup {archives[i] : i \in DOMAIN archives},
               password \in BOOLEAN, env \in BOOLEAN : BeginRestore(w, u, password, env)
        BY <1>4
    <2> DEFINE j == [NoJob EXCEPT !.at = "settings", !.restore = TRUE, !.full = TRUE,
                                  !.password = password, !.restore_env = env, !.upload = u,
                                  !.before = [db |-> db, files |-> files]]
    <2>2. j.at \notin Holding
        BY DEF NoJob, Holding
    <2> QED BY <2>1, <2>2, GoesOn DEF BeginRestore
<1>5. CASE ExportSettings(w)
    <2> DEFINE j == [job[w] EXCEPT !.at = "users",
                                   !.part = [token |-> IF job[w].full THEN db.token ELSE Blank]]
    <2>1. j.at \notin Holding
        BY <1>1 DEF Jobs, Holding
    <2> QED BY <1>5, <2>1, GoesOn DEF ExportSettings
<1>6. CASE ExportUsers(w)
    <2> DEFINE j == [job[w] EXCEPT !.at = "copy",
                                   !.part = [users |-> db.users, token |-> job[w].part.token]]
    <2>1. j.at \notin Holding
        BY <1>1 DEF Jobs, Holding
    <2> QED BY <1>6, <2>1, GoesOn DEF ExportUsers
<1>7. CASE RecordArchive(w)
    <2> DEFINE j == [job[w] EXCEPT !.at = IF job[w].restore THEN "extract" ELSE "retain"]
    <2>1. /\ j.restore = job[w].restore /\ j.id = job[w].id /\ j.deleted = job[w].deleted
          /\ job[w].at \in Holding
        BY <1>1, <1>7 DEF Jobs, Holding, RecordArchive
    <2> QED BY <1>7, <2>1, GoesOn DEF RecordArchive, Step
<1>8. CASE ReplaceTables(w)
    <2> DEFINE j == [job[w] EXCEPT !.at = "files", !.todo = InFiles(job[w].upload)]
    <2>1. /\ j.restore = job[w].restore /\ j.id = job[w].id /\ j.deleted = job[w].deleted
          /\ job[w].at \in Holding
        BY <1>1, <1>8 DEF Jobs, Holding, ReplaceTables
    <2> QED BY <1>8, <2>1, GoesOn DEF ReplaceTables
<1>9. ASSUME NEW p \in Paths, RestoreFile(w, p) \/ UndoFile(w, p)
      PROVE  UNCHANGED <<archives, disk>> /\ \A v \in Workers : Follows(v)
    <2> DEFINE j == [job[w] EXCEPT !.todo = @ \ {p}]
    <2>1. /\ j.restore = job[w].restore /\ j.id = job[w].id /\ j.deleted = job[w].deleted
          /\ job[w].at \in Holding
        BY <1>1, <1>9 DEF Jobs, Holding, RestoreFile, UndoFile
    <2>2. Goto(w, j) \/ GotoDisturbing(w, j)
        BY <1>9 DEF RestoreFile, UndoFile
    <2> HIDE DEF j
    <2> QED BY <1>9, <2>1, <2>2, GoesOn DEF RestoreFile, UndoFile
<1>10. CASE Commit(w)
    <2> DEFINE j == [job[w] EXCEPT !.at = "restored", !.committed = TRUE]
    <2>1. /\ j.restore = job[w].restore /\ j.id = job[w].id /\ j.deleted = job[w].deleted
          /\ job[w].at \in Holding
        BY <1>1, <1>10 DEF Jobs, Holding, Commit
    <2> QED BY <1>10, <2>1, GoesOn DEF Commit
<1>11. CASE RecordRestore(w) \/ ReportFailure(w) \/ CreateFails(w) \/ Crash(w)
    <2>1. Goto(w, NoJob) /\ UNCHANGED <<archives, disk>> /\ NoJob.at \notin Holding
        BY <1>2, <1>11 DEF RecordRestore, ReportFailure, CreateFails, Crash, Holding
    <2> QED BY <2>1, GoesOn
<1>12. CASE RestoreFails(w)
    <2> DEFINE j == [job[w] EXCEPT !.at = "undo", !.todo = Undoable(job[w]),
                                   !.stuck = IF job[w].id \in disk THEN "no" ELSE "gone"]
    <2>1. /\ j.restore = job[w].restore /\ j.id = job[w].id /\ j.deleted = job[w].deleted
          /\ job[w].at \in Holding
        BY <1>1, <1>12 DEF Jobs, Holding, RestoreFails
    <2> QED BY <1>12, <2>1, GoesOn DEF RestoreFails
<1>13. CASE UndoFails(w)
    <2> DEFINE j == [job[w] EXCEPT !.todo = {}, !.stuck = "error"]
    <2>1. /\ j.restore = job[w].restore /\ j.id = job[w].id /\ j.deleted = job[w].deleted
          /\ job[w].at \in Holding
        BY <1>1, <1>13 DEF Jobs, Holding, UndoFails
    <2> QED BY <1>13, <2>1, GoesOn DEF UndoFails
<1> QED BY <1>3, <1>4, <1>5, <1>6, <1>7, <1>8, <1>9, <1>10, <1>11, <1>12, <1>13 DEF RequestStep

LEMMA HeldInductive ==
    ASSUME IInv, IInv', AllHeld, [Next]_vars
    PROVE  AllHeld'
<1>1. ASSUME UNCHANGED <<archives, disk, job>> PROVE AllHeld'
    BY <1>1 DEF AllHeld, Held
<1>2. ASSUME NEW w \in Workers, RequestStep(w) PROVE AllHeld'
    BY <1>2, RequestFollows, OthersHold
<1>3. ASSUME NEW w \in Workers, WriteArchive(w) \/ Retain(w) PROVE AllHeld'
    BY <1>3, WriteArchiveHolds, RetainHolds
<1>4. ASSUME NEW i, DeleteArchive(i) PROVE AllHeld'
    BY <1>4, DeleteArchiveHolds
<1>5. ASSUME NEW i \in Ids, Deliver(i) \/ DeliveryFails(i) \/ SendByHand(i) PROVE AllHeld'
    BY <1>1, <1>5 DEF Deliver, Attempt, Answer, DeliveryFails, SendByHand
<1>6. CASE Edit
    <2>1. job \in [Workers -> Jobs] /\ UNCHANGED <<archives, disk>>
          /\ \A v \in Workers : job'[v] = Disturbed(job[v])
        BY <1>6 DEF Edit, Disturbing, IInv, Typed
    <2>2. \A v \in Workers : Follows(v)
        BY <2>1, DisturbedSame DEF Follows
    <2> QED BY <2>1, <2>2, OthersHold
<1>7. CASE UNCHANGED vars
    BY <1>1, <1>7 DEF vars
<1> QED BY <1>2, <1>3, <1>4, <1>5, <1>6, <1>7 DEF Next, Serve, RequestStep

(* From its first change on, the emergency archive restore_backup takes with *)
(* create_backup holds all there was before it, .env and secrets included;   *)
(* it is on disk until an admin deletes it or MaxKeep newer ones have been   *)
(* written, whatever backups, restores, deliveries and faults come between.  *)
THEOREM BeforeSaved == Spec => []BeforeIsSaved
<1>1. Init => AllHeld
    BY DEF Init, AllHeld, Held, NoJob
<1>2. IInv /\ IInv' /\ AllHeld /\ [Next]_vars => AllHeld'
    BY HeldInductive
<1>3. IInv /\ AllHeld => BeforeIsSaved
    BY DEF IInv, Known, Saved, Holding, AllHeld, Held, NewerIn, BeforeIsSaved
<1> QED BY <1>1, <1>2, <1>3, IInvAlways, PTL DEF Spec

================================================================================
