----------------------------- MODULE BackupRestore -----------------------------
(***************************************************************************)
(* Archives of the panel (src/v2raysub/services/backup_service.py): taking  *)
(* one, keeping the newest ones, sending one to a chat with retries, and    *)
(* restoring one over the live database and files.                         *)
(*                                                                         *)
(* A restore takes an emergency archive first, replaces the tables in a    *)
(* transaction, copies the files while that transaction is open, commits,   *)
(* and on an exception rolls the transaction back and copies the files of   *)
(* the emergency archive back.  Requests run in the threads of Workers; a   *)
(* worker may be killed with its request and its delivery threads.          *)
(*                                                                         *)
(* The tables are two: the subscriptions and everything like them (users),  *)
(* and the secret settings (token; Blank when not set).  A standard archive *)
(* has its secrets blanked and carries no .env; a full one carries both and *)
(* is encrypted when a password is given.  The raw database file in the     *)
(* archive, which is never written back, is left out, and so are wording    *)
(* and checksums: a broken archive is refused before anything happens.      *)
(***************************************************************************)
EXTENDS Naturals, FiniteSets

CONSTANTS Workers,
          Users,          \* contents of the tables
          Secrets,        \* values of the secret settings
          Blank,          \* no value
          Paths, Code,    \* files, and those restored from an authentic archive only
          Versions,       \* contents of a file
          Absent,         \* no such file
          Installed,      \* tables and files at the start
          Brought,        \* archives an admin may bring from elsewhere
          MaxKeep,        \* backup_retention_max
          telegram_enabled,
          Retries,        \* the length of retry_intervals
          MaxRequests,    \* bound: archives taken and restores begun
          MaxFaults,      \* bound: steps that fail, threads and workers that die
          MaxEdits        \* bound: edits, removals and sendings by hand

Tables == [users : Users, token : Secrets \cup {Blank}]
Files  == [Paths -> Versions \cup {Absent}]

Archive == [db : Tables, files : Files, encrypted : BOOLEAN, signed : BOOLEAN]

ASSUME BackupAssumption ==
    /\ Blank \notin Secrets /\ Absent \notin Versions
    /\ ".env" \in Code /\ Code \subseteq Paths
    /\ telegram_enabled \in BOOLEAN /\ Brought \subseteq Archive
    /\ Installed \in [db : [users : Users, token : Secrets], files : [Paths -> Versions]]
    /\ {MaxKeep, Retries, MaxRequests, MaxFaults, MaxEdits} \subseteq Nat

VARIABLES db,         \* the committed tables
          tx,         \* the open write transaction of a restore
          files,      \* the files of the installation
          archives,   \* every archive ever written, in the order of writing
          disk,       \* those still in storage/backups
          log,        \* delivery_status in backup_logs, by archive
          delivery,   \* the delivery thread or timer of an archive
          job,        \* the request each worker is serving
          cut,        \* history: archives whose delivery thread ended undecided
          spent       \* history: how much of the bounds is used

vars == <<db, tx, files, archives, disk, log, delivery, job, cut, spent>>

--------------------------------------------------------------------------------
Ids == 1 .. MaxRequests

None == [none |-> TRUE]

NoJob == [at |-> "idle", restore |-> FALSE, full |-> FALSE, password |-> FALSE,
          restore_env |-> FALSE, upload |-> None, part |-> None, id |-> 0,
          todo |-> {}, committed |-> FALSE, stuck |-> "no",
          \* history: the state it began with, and what others did since
          before |-> None, disturbed |-> FALSE, deleted |-> FALSE]

Statuses == {"NONE", "NOT_APPLICABLE", "PENDING", "SENT", "FAILED"}

Init ==
    /\ db = Installed.db /\ tx = None
    /\ files = Installed.files
    /\ archives = <<>> /\ disk = {} /\ log = [i \in Ids |-> "NONE"]
    /\ delivery = [i \in Ids |-> None]
    /\ job = [w \in Workers |-> NoJob]
    /\ cut = {} /\ spent = [requests |-> 0, faults |-> 0, edits |-> 0]

Spend(kind, bound) == spent[kind] < bound /\ spent' = [spent EXCEPT ![kind] = @ + 1]
Fault == Spend("faults", MaxFaults)

NextId == Cardinality(DOMAIN archives) + 1

\* The request of w goes on; if what it does touches what others restore or
\* undo, theirs are disturbed.
Goto(w, new) == job' = [job EXCEPT ![w] = new]
Step(w, at)  == Goto(w, [job[w] EXCEPT !.at = at])

Disturbed(j) == IF j.restore THEN [j EXCEPT !.disturbed = TRUE, !.before = None] ELSE j

GotoDisturbing(w, new) ==
    job' = [v \in Workers |-> IF v = w THEN new ELSE Disturbed(job[v])]

Disturbing == job' = [v \in Workers |-> Disturbed(job[v])]

\* SQLite: one writer at a time; others wait for it.
CanWrite == tx = None

--------------------------------------------------------------------------------
(* Taking an archive: create_backup.  For a restore it is the full archive   *)
(* of the state before, which no retention follows.                          *)

BeginCreate(w, full, password) ==
    /\ job[w].at = "idle"
    /\ Spend("requests", MaxRequests)
    /\ Goto(w, [NoJob EXCEPT !.at = "settings", !.full = full, !.password = full /\ password])
    /\ UNCHANGED <<db, tx, files, archives, disk, log, delivery, cut>>

\* Mutant: secrets are blanked in every archive.
ExportBlanked(w) ==
    /\ job[w].at = "settings"
    /\ Goto(w, [job[w] EXCEPT !.at = "users", !.part = [token |-> Blank]])
    /\ UNCHANGED <<db, tx, files, archives, disk, log, delivery, cut, spent>>

\* The tables are read one after the other, outside any transaction.
ExportSettings(w) ==
    /\ job[w].at = "settings"
    /\ Goto(w, [job[w] EXCEPT !.at = "users",
                              !.part = [token |-> IF job[w].full THEN db.token ELSE Blank]])
    /\ UNCHANGED <<db, tx, files, archives, disk, log, delivery, cut, spent>>

ExportUsers(w) ==
    /\ job[w].at = "users"
    /\ Goto(w, [job[w] EXCEPT !.at = "copy",
                              !.part = [users |-> db.users, token |-> job[w].part.token]])
    /\ UNCHANGED <<db, tx, files, archives, disk, log, delivery, cut, spent>>

\* The files are copied, packed, and the archive appears under its name.
WriteArchive(w) ==
    LET copied == [p \in Paths |-> IF p = ".env" /\ ~job[w].full THEN Absent ELSE files[p]]
        new    == [db |-> job[w].part, files |-> copied, signed |-> TRUE,
                   encrypted |-> job[w].full /\ job[w].password]
    IN  /\ job[w].at = "copy"
        /\ archives' = [i \in 1 .. NextId |-> IF i = NextId THEN new ELSE archives[i]]
        /\ disk' = disk \cup {NextId}
        /\ Goto(w, [job[w] EXCEPT !.at = "record", !.id = NextId, !.part = None])
        /\ UNCHANGED <<db, tx, files, log, delivery, cut, spent>>

\* Delivery is PENDING when it is switched on, never for an emergency archive.
RecordArchive(w) ==
    /\ job[w].at = "record" /\ CanWrite
    /\ log' = [log EXCEPT ![job[w].id] =
                   IF telegram_enabled /\ ~job[w].restore THEN "PENDING" ELSE "NOT_APPLICABLE"]
    /\ Step(w, IF job[w].restore THEN "extract" ELSE "retain")
    /\ UNCHANGED <<db, tx, files, archives, disk, delivery, cut, spent>>

\* Mutant: the newest go.
Oldest(ids) == {i \in ids : Cardinality({j \in ids : j < i}) < MaxKeep}

\* The oldest archives go, emergency ones among them.
Newest(ids) == {i \in ids : Cardinality({j \in ids : j > i}) < MaxKeep}

\* _enforce_retention, then the delivery thread.
Retain(w) ==
    LET i == job[w].id
    IN  /\ job[w].at = "retain"
        /\ disk' = Newest(disk)
        /\ delivery' = IF telegram_enabled
                       THEN [delivery EXCEPT ![i] = [at |-> "due", retry |-> 0, host |-> w]]
                       ELSE delivery
        /\ Goto(w, NoJob)
        /\ UNCHANGED <<db, tx, files, archives, log, cut, spent>>

\* An exception anywhere on the way: the request ends; a restore gives up before
\* it has changed anything.  After the row is written, what is lost is the thread.
CreateFails(w) ==
    /\ job[w].at \in {"settings", "users", "copy", "record", "retain"}
    /\ Fault
    /\ cut' = IF job[w].at = "retain" THEN cut \cup {job[w].id} ELSE cut
    /\ Goto(w, NoJob)
    /\ UNCHANGED <<db, tx, files, archives, disk, log, delivery>>

--------------------------------------------------------------------------------
(* Restoring: restore_backup.                                                *)

authentic(u) == u.signed \/ u.encrypted

\* verify_backup refuses an encrypted archive without its password; a password
\* that is not needed is used for the emergency archive all the same.
BeginRestore(w, u, password, restore_env) ==
    /\ job[w].at = "idle" /\ (u.encrypted => password)
    /\ Spend("requests", MaxRequests)
    /\ Goto(w, [NoJob EXCEPT !.at = "settings", !.restore = TRUE, !.full = TRUE,
                             !.password = password, !.restore_env = restore_env, !.upload = u,
                             !.before = [db |-> db, files |-> files]])
    /\ UNCHANGED <<db, tx, files, archives, disk, log, delivery, cut>>

\* preserved_secrets: a blanked secret does not replace one that is set here.
Restored(old, new) == [new EXCEPT !.token = IF @ = Blank THEN old.token ELSE @]

InFiles(a) == {p \in Paths : a.files[p] # Absent}

\* Mutant: every statement commits by itself.
ReplaceCommitted(w) ==
    /\ job[w].at = "extract" /\ CanWrite
    /\ db' = Restored(db, job[w].upload.db)
    /\ GotoDisturbing(w, [job[w] EXCEPT !.at = "files", !.todo = InFiles(job[w].upload)])
    /\ tx' = [by |-> w, db |-> db']
    /\ UNCHANGED <<files, archives, disk, log, delivery, cut, spent>>

\* The tables are emptied and filled in a transaction of their own.
ReplaceTables(w) ==
    /\ job[w].at = "extract" /\ CanWrite
    /\ tx' = [by |-> w, db |-> Restored(db, job[w].upload.db)]
    /\ Goto(w, [job[w] EXCEPT !.at = "files", !.todo = InFiles(job[w].upload)])
    /\ UNCHANGED <<db, files, archives, disk, log, delivery, cut, spent>>

Allowed(j, p) == (p = ".env" => j.restore_env) /\ (p \in Code => authentic(j.upload))

\* One file of the archive, in the order of the directory walk.
RestoreFile(w, p) ==
    LET j == [job[w] EXCEPT !.todo = @ \ {p}]
    IN  /\ job[w].at = "files" /\ p \in job[w].todo
        /\ IF Allowed(job[w], p)
           THEN files' = [files EXCEPT ![p] = job[w].upload.files[p]] /\ GotoDisturbing(w, j)
           ELSE UNCHANGED files /\ Goto(w, j)
        /\ UNCHANGED <<db, tx, archives, disk, log, delivery, cut, spent>>

Commit(w) ==
    /\ job[w].at = "files" /\ job[w].todo = {}
    /\ db' = tx.db /\ tx' = None
    /\ GotoDisturbing(w, [job[w] EXCEPT !.at = "restored", !.committed = TRUE])
    /\ UNCHANGED <<files, archives, disk, log, delivery, cut, spent>>

\* The row of success, and restart_services (see ScanCoordination).
RecordRestore(w) ==
    /\ job[w].at = "restored" /\ CanWrite
    /\ Goto(w, NoJob)
    /\ UNCHANGED <<db, tx, files, archives, disk, log, delivery, cut, spent>>

\* What _rollback_files can copy back: nothing if the archive is gone, or is
\* encrypted, which ZipFile does not open.
Undoable(j) ==
    IF j.id \in disk /\ ~archives[j.id].encrypted
    THEN {p \in InFiles(archives[j.id]) : p = ".env" => j.restore_env}
    ELSE {}

\* Any exception, also after the commit.
RestoreFails(w) ==
    /\ job[w].at \in {"extract", "files", "restored"}
    /\ Fault
    /\ tx' = IF tx # None /\ tx.by = w THEN None ELSE tx
    /\ Goto(w, [job[w] EXCEPT !.at = "undo", !.todo = Undoable(job[w]),
                              !.stuck = IF job[w].id \in disk THEN "no" ELSE "gone"])
    /\ UNCHANGED <<db, files, archives, disk, log, delivery, cut>>

UndoFile(w, p) ==
    /\ job[w].at = "undo" /\ p \in job[w].todo
    /\ files' = [files EXCEPT ![p] = archives[job[w].id].files[p]]
    /\ GotoDisturbing(w, [job[w] EXCEPT !.todo = @ \ {p}])
    /\ UNCHANGED <<db, tx, archives, disk, log, delivery, cut, spent>>

\* An exception while undoing is printed and swallowed.  What broke the restore may
\* break this too: no further fault is counted.
UndoFails(w) ==
    /\ job[w].at = "undo" /\ job[w].todo # {}
    /\ Goto(w, [job[w] EXCEPT !.todo = {}, !.stuck = "error"])
    /\ UNCHANGED <<db, tx, files, archives, disk, log, delivery, cut, spent>>

\* "The system was returned to the state before."  The row of failure may not get
\* written: the request ends either way.
ReportFailure(w) ==
    /\ job[w].at = "undo" /\ job[w].todo = {}
    /\ Goto(w, NoJob)
    /\ UNCHANGED <<db, tx, files, archives, disk, log, delivery, cut, spent>>

--------------------------------------------------------------------------------
(* Delivery: deliver_backup, once and after 1, 5 and 15 minutes.             *)

\* By a thread, or by the timer of a retry.  The checksum is taken before
\* anything else, outside the try: without the file the thread ends there.
Attempt(i) ==
    /\ delivery[i] # None /\ delivery[i].at = "due"
    /\ CASE i \notin disk ->
              /\ delivery' = [delivery EXCEPT ![i] = None] /\ cut' = cut \cup {i}
              /\ UNCHANGED log
         [] i \in disk /\ db.token = Blank ->
              /\ CanWrite /\ log' = [log EXCEPT ![i] = "FAILED"]
              /\ delivery' = [delivery EXCEPT ![i] = None] /\ UNCHANGED cut
         [] OTHER ->
              /\ delivery' = [delivery EXCEPT ![i].at = "posting"] /\ UNCHANGED <<log, cut>>
    /\ UNCHANGED <<db, tx, files, archives, disk, job, spent>>

AnswerForgotten(i) ==
    /\ delivery[i] # None /\ delivery[i].at = "posting" /\ CanWrite
    /\ delivery' = [delivery EXCEPT ![i] = None]
    /\ \E status \in {"SENT", "PENDING"} : log' = [log EXCEPT ![i] = status]
    /\ UNCHANGED <<db, tx, files, archives, disk, job, cut, spent>>

\* The upload works, or the next attempt is scheduled, or there is none left.
Answer(i) ==
    LET retry == delivery[i].retry
    IN  /\ delivery[i] # None /\ delivery[i].at = "posting" /\ CanWrite
        /\ \/ /\ log' = [log EXCEPT ![i] = "SENT"]
              /\ delivery' = [delivery EXCEPT ![i] = None]
           \/ /\ retry < Retries
              /\ log' = [log EXCEPT ![i] = "PENDING"]
              /\ delivery' = [delivery EXCEPT ![i].at = "due", ![i].retry = retry + 1]
           \/ /\ retry = Retries
              /\ log' = [log EXCEPT ![i] = "FAILED"]
              /\ delivery' = [delivery EXCEPT ![i] = None]
        /\ UNCHANGED <<db, tx, files, archives, disk, job, cut, spent>>

\* A statement fails outside the try or in its except branch: the database stays
\* locked for more than 15 s, or the disk is full.  The thread ends as it is.
DeliveryFails(i) ==
    /\ delivery[i] # None
    /\ Fault
    /\ delivery' = [delivery EXCEPT ![i] = None]
    /\ cut' = cut \cup {i}
    /\ UNCHANGED <<db, tx, files, archives, disk, log, job>>

--------------------------------------------------------------------------------
(* What else happens: the panel in use, and workers that are killed.         *)

Edit ==
    /\ Spend("edits", MaxEdits) /\ Disturbing
    /\ \/ /\ CanWrite /\ UNCHANGED files
          /\ \/ \E rows \in Users \ {db.users} : db' = [db EXCEPT !.users = rows]
             \/ \E value \in (Secrets \cup {Blank}) \ {db.token} : db' = [db EXCEPT !.token = value]
       \/ \E p \in Paths : \E v \in Versions \ {files[p]} :
             files' = [files EXCEPT ![p] = v] /\ UNCHANGED db
    /\ UNCHANGED <<tx, archives, disk, log, delivery, cut>>

\* delete_backup.
DeleteArchive(i) ==
    /\ i \in disk /\ Spend("edits", MaxEdits)
    /\ disk' = disk \ {i}
    /\ job' = [v \in Workers |-> IF job[v].restore /\ job[v].id = i
                                THEN [job[v] EXCEPT !.deleted = TRUE] ELSE job[v]]
    /\ UNCHANGED <<db, tx, files, archives, log, delivery, cut>>

\* send_backup_route: an archive sent by hand, whatever its thread is doing.
SendByHand(i) ==
    /\ i \in disk /\ db.token # Blank /\ CanWrite /\ Spend("edits", MaxEdits)
    /\ log[i] \notin {"NONE", "SENT"} /\ log' = [log EXCEPT ![i] = "SENT"]
    /\ UNCHANGED <<db, tx, files, archives, disk, delivery, job, cut>>

\* The open transaction of a killed worker is rolled back by SQLite; its timers
\* and threads are gone.
Crash(w) ==
    LET orphans == {i \in Ids : delivery[i] # None /\ delivery[i].host = w}
    IN  /\ job[w] # NoJob \/ orphans # {}
        /\ Fault
        /\ tx' = IF tx # None /\ tx.by = w THEN None ELSE tx
        /\ delivery' = [i \in Ids |-> IF i \in orphans THEN None ELSE delivery[i]]
        /\ cut' = cut \cup orphans \cup IF job[w].at = "retain" THEN {job[w].id} ELSE {}
        /\ Goto(w, NoJob)
        /\ UNCHANGED <<db, files, archives, disk, log>>

--------------------------------------------------------------------------------
Serve(w) ==
    \/ ExportSettings(w) \/ ExportUsers(w) \/ WriteArchive(w) \/ RecordArchive(w) \/ Retain(w)
    \/ ReplaceTables(w) \/ (\E p \in Paths : RestoreFile(w, p)) \/ Commit(w) \/ RecordRestore(w)
    \/ (\E p \in Paths : UndoFile(w, p)) \/ ReportFailure(w)

Deliver(i) == Attempt(i) \/ Answer(i)

Next ==
    \/ \E w \in Workers :
          \/ \E full, password \in BOOLEAN : BeginCreate(w, full, password)
          \/ \E u \in Brought \cup {archives[i] : i \in DOMAIN archives}, password, env \in BOOLEAN :
                BeginRestore(w, u, password, env)
          \/ Serve(w) \/ CreateFails(w) \/ RestoreFails(w) \/ UndoFails(w) \/ Crash(w)
    \/ \E i \in Ids : Deliver(i) \/ DeliveryFails(i) \/ DeleteArchive(i) \/ SendByHand(i)
    \/ Edit

Spec == Init /\ [][Next]_vars

\* A thread that can go on does, uploads have timeouts and timers fire.  Nobody
\* has to ask for anything, and nothing has to fail.
FairSpec ==
    Spec /\ (\A w \in Workers : WF_vars(Serve(w))) /\ (\A i \in Ids : WF_vars(Deliver(i)))

--------------------------------------------------------------------------------
(* Properties.                                                             *)

TypeOK ==
    /\ db \in Tables /\ files \in Files
    /\ tx = None \/ (tx.by \in Workers /\ tx.db \in Tables)
    /\ DOMAIN archives = 1 .. Cardinality(DOMAIN archives)
    /\ \A i \in DOMAIN archives : archives[i] \in Archive
    /\ disk \subseteq DOMAIN archives /\ cut \subseteq DOMAIN archives
    /\ log \in [Ids -> Statuses]
    /\ \A i \in Ids : delivery[i] # None => delivery[i].retry \in 0 .. Retries

\* The tables are those of the archive; a secret that is blank there keeps its
\* value (the comment at SENSITIVE_SETTING_KEYS).
TablesReplaced(j) ==
    /\ db.users = j.upload.db.users
    /\ db.token = IF j.upload.db.token = Blank THEN j.before.db.token ELSE j.upload.db.token

FilesReplaced(j) == \A p \in InFiles(j.upload) : Allowed(j, p) => files[p] = j.upload.files[p]

FilesBack(j) == \A p \in Paths : j.before.files[p] # Absent => files[p] = j.before.files[p]

\* restore_backup restores everything or nothing, so long as nothing else changes
\* tables or files meanwhile: when it reports success, tables and permitted files
\* are those of the archive; when it reports failure, the tables are those of
\* before, or all those of the archive if it failed after the commit, and files
\* that existed are as they were, except in three cases: a password was given,
\* the emergency archive is gone ("gone"), or undoing fails itself ("error").
AllOrNothing ==
    \A w \in Workers :
        LET j == job[w]
        IN  j.restore /\ ~j.disturbed =>
              /\ j.at = "restored" => TablesReplaced(j) /\ FilesReplaced(j)
              /\ j.at = "undo" /\ j.todo = {} =>
                    /\ IF j.committed THEN TablesReplaced(j) ELSE db = j.before.db
                    /\ ~j.password /\ j.stuck = "no" => FilesBack(j)

\* Without those exceptions: what the message of line 1068 says.
FailureUndone ==
    \A w \in Workers :
        LET j == job[w]
        IN  j.restore /\ ~j.disturbed /\ j.at = "undo" /\ j.todo = {} =>
                db = j.before.db /\ files = j.before.files

\* Before a restore makes its first change, all there was before it, secrets and
\* .env included, is in an archive, which stays on disk while the restore runs
\* until an admin deletes it or as many archives as are kept have been written
\* after it; so a restore that is killed half way can be taken back.
BeforeIsSaved ==
    \A w \in Workers :
        LET j == job[w]
        IN  j.restore /\ j.at \in {"extract", "files", "restored", "undo"} =>
                /\ \/ j.id \in disk
                   \/ j.deleted
                   \/ Cardinality({i \in DOMAIN archives : i > j.id}) >= MaxKeep
                /\ ~j.disturbed => archives[j.id].db = j.before.db
                                    /\ archives[j.id].files = j.before.files

\* A delivery shown as pending is decided by the thread and timers of
\* deliver_backup, unless they end undecided: their worker dies, the file is gone
\* when its checksum is taken, or a statement fails that nothing catches.
DeliverySettles == \A i \in Ids : log[i] = "PENDING" ~> log[i] # "PENDING" \/ i \in cut

\* Once an archive is shown as sent it stays so.
SentStays == [][\A i \in Ids : log[i] = "SENT" => log'[i] = "SENT"]_log

================================================================================
