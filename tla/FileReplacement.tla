-------------------------- MODULE FileReplacement --------------------------
(***************************************************************************)
(* How the configuration, the usage log and the benchmark cache replace a  *)
(* file: the new content is written to a temporary file and renamed over   *)
(* the old one.  Where a rename cannot replace a file the old one is first *)
(* moved to a backup.  Three packages have this code; they differ in what  *)
(* happens when there is no old file to move, and in whether a reader      *)
(* looks for the backup.  The temporary file is known to its writer only.  *)
(***************************************************************************)
CONSTANTS
    NoFile,
    RenameMayFail   \* whether a rename may fail to replace a file

ASSUME ReplacementAssumption == RenameMayFail \in BOOLEAN

VARIABLES
    target,   \* the content of the file
    backup,   \* that of its backup
    fresh,    \* of the temporary file
    stage     \* of the replacement, or how it ended

fileVars == <<target, backup, fresh, stage>>

Stage == {"none", "write", "aside", "protect", "saved", "failed"}

Begin(content) ==
    /\ stage = "none"
    /\ fresh' = content
    /\ stage' = "write"
    /\ UNCHANGED <<target, backup>>

\* The directory, the temporary file, its content or its sync fail.
WriteFails ==
    /\ stage = "write"
    /\ stage' = "failed"
    /\ UNCHANGED <<target, backup, fresh>>

RenameOver ==
    /\ stage = "write"
    /\ target' = fresh
    /\ stage' = "protect"
    /\ UNCHANGED <<backup, fresh>>

\* The rename fails; an older backup is removed and the file takes its place.
MoveAside ==
    /\ stage = "write"
    /\ RenameMayFail
    /\ target # NoFile
    /\ backup' = target
    /\ target' = NoFile
    /\ stage' = "aside"
    /\ UNCHANGED fresh

\* There is no file to move: the usage log gives up, the others go on.
NothingToMove(next) ==
    /\ stage = "write"
    /\ RenameMayFail
    /\ target = NoFile
    /\ backup' = NoFile
    /\ stage' = next
    /\ UNCHANGED <<target, fresh>>

MoveAsideFails ==
    /\ stage = "write"
    /\ RenameMayFail
    /\ target # NoFile
    /\ backup' = NoFile
    /\ stage' = "failed"
    /\ UNCHANGED <<target, fresh>>

Install ==
    /\ stage = "aside"
    /\ target' = fresh
    /\ backup' = NoFile
    /\ stage' = "protect"
    /\ UNCHANGED fresh

\* The old file is put back, which may fail as well.
InstallFails ==
    /\ stage = "aside"
    /\ \/ target' = backup /\ backup' = NoFile
       \/ UNCHANGED <<target, backup>>
    /\ stage' = "failed"
    /\ UNCHANGED fresh

\* The mode of the new file is set last: when that fails the error is
\* returned although the file has been replaced.
Protect ==
    /\ stage = "protect"
    /\ stage' \in {"saved", "failed"}
    /\ UNCHANGED <<target, backup, fresh>>

Replacing(missing) ==
    \/ WriteFails \/ RenameOver \/ MoveAside \/ NothingToMove(missing)
    \/ MoveAsideFails \/ Install \/ InstallFails \/ Protect

\* The writer has seen how it ended.
Finished ==
    /\ stage' = "none"
    /\ fresh' = NoFile
    /\ UNCHANGED <<target, backup>>

\* The program ends: a temporary file is left to nobody.
Abandon ==
    /\ stage' = "none"
    /\ fresh' = NoFile
    /\ UNCHANGED <<target, backup>>
============================================================================
