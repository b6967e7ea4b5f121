---------------------------- MODULE BackupRestore ----------------------------
(***************************************************************************)
(* The backup of the database and the verification of a backup in a            *)
(* disposable container (production-backup.mjs, backup-crypto.mjs).            *)
(*                                                                          *)
(* Two runs of the script, one that backs up and one that verifies what is      *)
(* then on disk.  Every step may fail, every removal too, and each run may be   *)
(* killed between two steps.  pg_dump streams into the encryption, which sees   *)
(* the end of the stream but not whether pg_dump ended well.                   *)
(***************************************************************************)
EXTENDS Naturals

VARIABLES
    dump,           \* pg_dump: "idle", "running", or how it ended: "ok", "died"
    archive,        \* the encrypted file: "none", "open" (no tag yet) or "sealed"
    sum,            \* its .sha256: "none", "partial" or "whole"
    back,           \* where the backup is
    ver,            \* where the verification is
    failed,         \* what failed of the verification: the operation, a clean-up
    plain,          \* the decrypted file: "none", "unproved" or "proved"
    directory,      \* whether the temporary directory exists
    container       \* the container: whether it exists, and has the dump restored in it

files == <<dump, archive, sum>>
temps == <<plain, directory, container>>
vars  == <<files, back, ver, failed, temps>>

NoContainer == [exists |-> FALSE, named |-> FALSE, restored |-> FALSE]

Init ==
    /\ dump = "idle" /\ archive = "none" /\ sum = "none"
    /\ back = "idle" /\ ver = "idle" /\ failed = {}
    /\ plain = "none" /\ directory = FALSE
    /\ container = NoContainer
-----------------------------------------------------------------------------
\* The destination is opened and pg_dump started.
StartBackup ==
    /\ back = "idle"
    /\ back' = "piping" /\ dump' = "running" /\ archive' = "open"
    /\ UNCHANGED <<sum, ver, failed, temps>>

\* pg_dump ends, well or not: its output ends either way.
DumpEnds ==
    /\ dump = "running"
    /\ dump' \in {"ok", "died"}
    /\ UNCHANGED <<archive, sum, back, ver, failed, temps>>

\* The catch of backup: pg_dump is killed, and the archive removed if that is possible.
GiveUp ==
    /\ back' = "failed"
    /\ dump' = IF dump = "running" THEN "died" ELSE dump
    /\ archive' \in {"none", archive}

\* encryptBackup: the stream has ended and the tag is appended; or an error of the
\* file, and what was written is removed if that is possible.
Encrypt ==
    /\ back = "piping"
    /\ \/ /\ dump # "running"
          /\ archive' = "sealed" /\ back' = "exit"
          /\ UNCHANGED <<dump, sum>>
       \/ GiveUp /\ UNCHANGED sum
    /\ UNCHANGED <<ver, failed, temps>>

\* Mutant: the end of the stream passes for the success of pg_dump.
IgnoreExit ==
    /\ back = "exit"
    /\ back' = "sum"
    /\ UNCHANGED <<files, ver, failed, temps>>

\* The exit of pg_dump decides; the archive of a dump that died is removed.
AwaitExit ==
    /\ back = "exit"
    /\ \/ dump = "ok" /\ back' = "sum" /\ UNCHANGED <<dump, archive>>
       \/ dump = "died" /\ GiveUp
    /\ UNCHANGED <<sum, ver, failed, temps>>

\* The hash is computed and written.  What there is of its file after an error stays.
WriteSum ==
    /\ back = "sum"
    /\ \/ sum' = "whole" /\ back' = "created" /\ UNCHANGED <<dump, archive>>
       \/ sum' \in {"none", "partial"} /\ GiveUp
    /\ UNCHANGED <<ver, failed, temps>>

\* The process is killed, and pg_dump loses its reader.
KillBackup ==
    /\ back \in {"piping", "exit", "sum"}
    /\ back' = "killed"
    /\ dump' = IF dump = "running" THEN "died" ELSE dump
    /\ UNCHANGED <<archive, sum, ver, failed, temps>>
-----------------------------------------------------------------------------
\* The operation goes on to the next stage, or fails and is cleaned up after.
Go(next) == ver' = next /\ UNCHANGED failed
Fail     == ver' = "container.cleanup" /\ failed' = {"operation"}

StartVerify ==
    /\ ver = "idle" /\ archive # "none"
    /\ directory' = TRUE
    /\ Go("archive.decrypt")
    /\ UNCHANGED <<files, back, plain, container>>

\* Mutant: an archive without its tag is taken for an old format.
TakesUntagged ==
    /\ ver = "archive.decrypt"
    /\ \/ archive = "sealed" /\ plain' = "proved" /\ Go("container.create")
       \/ archive = "open" /\ plain' = "unproved" /\ Go("container.create")
       \/ plain' \in {"none", "unproved"} /\ Fail
    /\ UNCHANGED <<files, back, directory, container>>

\* decryptBackup writes what it decrypts before it knows that it is authentic; when
\* it is not, the plaintext is removed if that is possible.
Decrypt ==
    /\ ver = "archive.decrypt"
    /\ \/ archive = "sealed" /\ plain' = "proved" /\ Go("container.create")
       \/ plain' \in {"none", "unproved"} /\ Fail
    /\ UNCHANGED <<files, back, directory, container>>

\* Mutant: the name is kept only once docker run has answered.
NamesLate ==
    /\ ver = "container.create"
    /\ \/ /\ container' = [NoContainer EXCEPT !.exists = TRUE, !.named = TRUE]
          /\ Go("pg_restore")
       \/ container' \in {NoContainer, [NoContainer EXCEPT !.exists = TRUE]} /\ Fail
    /\ UNCHANGED <<files, back, plain, directory>>

\* docker run under a name known before: it may fail and leave the container.
CreateContainer ==
    /\ ver = "container.create"
    /\ \/ /\ container' = [NoContainer EXCEPT !.exists = TRUE, !.named = TRUE]
          /\ Go("pg_restore") \/ Fail
       \/ container' = [NoContainer EXCEPT !.named = TRUE] /\ Fail
    /\ UNCHANGED <<files, back, plain, directory>>

\* Mutant: pg_restore goes on after an error, and its exit status is not looked at.
RestoresWhatItCan ==
    /\ ver = "pg_restore"
    /\ \/ /\ container' = [container EXCEPT !.restored = TRUE]
          /\ Go("restore.verify")
       \/ Fail /\ UNCHANGED container
    /\ UNCHANGED <<files, back, plain, directory>>

\* Readiness, the runtime role and pg_restore, which does not get past the end of a
\* truncated archive.
Restore ==
    /\ ver = "pg_restore"
    /\ \/ /\ dump = "ok"
          /\ container' = [container EXCEPT !.restored = TRUE]
          /\ Go("restore.verify")
       \/ Fail /\ UNCHANGED container
    /\ UNCHANGED <<files, back, plain, directory>>

\* The grants, and the queries that check migrations, tables and policies.
Verify ==
    /\ ver = "restore.verify"
    /\ Go("container.cleanup") \/ Fail
    /\ UNCHANGED <<files, back, temps>>

\* docker rm, if a container was named: an error does not stop the other clean-up.
RemoveContainer ==
    /\ ver = "container.cleanup"
    /\ ver' = "directory.cleanup"
    /\ \/ ~container.named /\ UNCHANGED <<container, failed>>
       \/ container.named /\ container' = NoContainer /\ UNCHANGED failed
       \/ container.named /\ failed' = failed \cup {"container"} /\ UNCHANGED container
    /\ UNCHANGED <<files, back, plain, directory>>

\* The directory is removed with what is in it; the exit code reports any error.
RemoveDirectory ==
    /\ ver = "directory.cleanup"
    /\ \/ directory' = FALSE /\ plain' = "none" /\ UNCHANGED failed
       \/ failed' = failed \cup {"directory"} /\ UNCHANGED <<plain, directory>>
    /\ ver' = IF failed' = {} THEN "passed" ELSE "failed"
    /\ UNCHANGED <<files, back, container>>

KillVerify ==
    /\ ver \notin {"idle", "passed", "failed", "killed"}
    /\ ver' = "killed"
    /\ UNCHANGED <<files, back, failed, temps>>

Next ==
    \/ StartBackup \/ DumpEnds \/ Encrypt \/ AwaitExit \/ WriteSum \/ KillBackup
    \/ StartVerify \/ Decrypt \/ CreateContainer \/ Restore \/ Verify
    \/ RemoveContainer \/ RemoveDirectory \/ KillVerify

Spec == Init /\ [][Next]_vars
-----------------------------------------------------------------------------
Ended == {"passed", "failed"}

\* A backup reported as created holds all that pg_dump had to write, its tag and its
\* hash, although the encryption ends in the same way when pg_dump dies (backup).
CreatedIsWhole ==
    back = "created" => dump = "ok" /\ archive = "sealed" /\ sum = "whole"

\* SQL goes to the container only from an archive authenticated to its end, whatever
\* a killed backup left on disk ("Authenticate the entire archive before ...").
AuthenticatedFirst ==
    ver \in {"pg_restore", "restore.verify"} => plain = "proved" /\ container.named

\* A verification that exits with 0 restored a whole dump and left neither container
\* nor plaintext behind (verifyRestore, withCleanup).
PassIsClean ==
    ver = "passed" => dump = "ok" /\ ~container.exists /\ plain = "none" /\ ~directory

\* What a verification that ended left behind is something whose removal was tried
\* and reported: nothing is forgotten on an error path, a docker run that failed
\* half-way included.
LeftoversReported ==
    ver \in Ended =>
        /\ container.exists => "container" \in failed
        /\ directory \/ plain # "none" => "directory" \in failed
=============================================================================
