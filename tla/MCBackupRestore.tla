---------------------------- MODULE MCBackupRestore ----------------------------
(* One archive is brought from elsewhere: full, from a server whose bot has no *)
(* token, so that its signature does not count and its token is blank.         *)
EXTENDS BackupRestore

CONSTANTS w1, w2

FilesOf(version) == [p \in Paths |-> version]

MCInstalled == [db |-> [users |-> 1, token |-> "t"], files |-> FilesOf(1)]

Foreign == [db |-> [users |-> 2, token |-> Blank], files |-> FilesOf(2),
            signed |-> FALSE, encrypted |-> FALSE]
MCBrought == {Foreign}
================================================================================
