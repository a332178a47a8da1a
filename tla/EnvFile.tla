------------------------------ MODULE EnvFile ------------------------------
(***************************************************************************)
(* UpdateEnvVariable of common-lib/environment.go: the environment file is *)
(* read, copied to .bak, written to .tmp and replaced by a rename, and put *)
(* back from .bak when the rename fails.  One action per call that touches *)
(* the disk, because the process may end after any of them.                *)
(*                                                                         *)
(* The content of a file is the set of settings it holds; one that was     *)
(* partly written holds any of them.  For the backup and the temporary     *)
(* file, which nobody reads before they are complete, {} stands for that   *)
(* while the process is in the middle of writing.  The application updates *)
(* one setting at a time; the SDK's own calls are commented out.           *)
(***************************************************************************)
CONSTANTS Settings,    \* the settings a node needs to start
          Extra        \* settings the application adds

\* Stands for the content of a file that does not exist.
NoFile == {"no file"}

ASSUME EnvAssumption == "no file" \notin Settings \cup Extra

VARIABLES env, bak, tmp,    \* the three files
          upc,              \* where UpdateEnvVariable is
          envMap,           \* what it read, with the new setting
          whole             \* observer: the last update began with all the settings

envVars == <<env, bak, tmp, upc, envMap, whole>>

Contents == SUBSET (Settings \cup Extra)

EnvTypeOK ==
    /\ env \in Contents
    /\ bak \in Contents \cup {NoFile} /\ tmp \in Contents \cup {NoFile}
    /\ upc \in {"idle", "backup", "copy", "create", "write", "rename",
                "restore", "recopy", "cleanup"}
    /\ envMap \in Contents
    /\ whole \in BOOLEAN

EnvInit ==
    /\ env \in SUBSET Settings
    /\ bak = NoFile /\ tmp = NoFile
    /\ upc = "idle" /\ envMap = {} /\ whole = (Settings \subseteq env)

Goto(l) == upc' = l /\ envMap' = IF l = "idle" THEN {} ELSE envMap

\* A step of the file system, which ends the call when it fails.
File(from, to) == upc = from /\ Goto(to)

-----------------------------------------------------------------------------

ReadEnv(key) ==
    /\ upc = "idle" /\ upc' = "backup"
    /\ envMap' = env \cup {key}
    /\ whole' = (Settings \subseteq env)
    /\ UNCHANGED <<env, bak, tmp>>

\* copyFile: os.Create truncates .bak, io.Copy fills it.
CreateBackup == File("backup", "copy") /\ bak' = {} /\ UNCHANGED <<env, tmp, whole>>

CopyToBackup == File("copy", "create") /\ bak' = env /\ UNCHANGED <<env, tmp, whole>>

CreateTemp == File("create", "write") /\ tmp' = {} /\ UNCHANGED <<env, bak, whole>>

\* WriteString, Sync and Close.
WriteTemp == File("write", "rename") /\ tmp' = envMap /\ UNCHANGED <<env, bak, whole>>

Rename == File("rename", "cleanup") /\ env' = tmp /\ tmp' = NoFile /\ UNCHANGED <<bak, whole>>

\* A rename that fails leaves the file as it was; it is restored all the same.
RenameFails == File("rename", "restore") /\ UNCHANGED <<env, bak, tmp, whole>>

\* restoreBackup is copyFile the other way round: the file is truncated, and
\* some of it is back when the process ends in the middle of the copy.
TruncateEnv ==
    /\ File("restore", "recopy")
    /\ env' \in SUBSET bak
    /\ UNCHANGED <<bak, tmp, whole>>

CopyToEnv == File("recopy", "idle") /\ env' = bak /\ UNCHANGED <<bak, tmp, whole>>

\* Whether the removal fails or not, the call is over.
RemoveBackup ==
    /\ File("cleanup", "idle")
    /\ bak' \in {NoFile, bak}
    /\ UNCHANGED <<env, tmp, whole>>

\* Mutant: a failed update takes its backup with it.
UpdateFails_Cleans ==
    /\ upc \in {"backup", "copy", "create", "write", "restore", "recopy"} /\ Goto("idle")
    /\ bak' = NoFile
    /\ tmp' \in IF upc = "write" THEN SUBSET envMap ELSE {tmp}
    /\ env' \in IF upc = "recopy" THEN SUBSET bak ELSE {env}
    /\ UNCHANGED whole

\* A call in the middle fails, and UpdateEnvVariable returns its error.  What
\* was being written may be there in part.
UpdateFails ==
    /\ upc \in {"backup", "copy", "create", "write", "restore", "recopy"} /\ Goto("idle")
    /\ bak' \in IF upc = "copy" THEN SUBSET env ELSE {bak}
    /\ tmp' \in IF upc = "write" THEN SUBSET envMap ELSE {tmp}
    /\ env' \in IF upc = "recopy" THEN SUBSET bak ELSE {env}
    /\ UNCHANGED whole

writeEnvFile ==
    \/ CreateBackup \/ CopyToBackup \/ CreateTemp \/ WriteTemp \/ Rename
    \/ TruncateEnv \/ CopyToEnv \/ RemoveBackup

-----------------------------------------------------------------------------
(* Properties.                                                             *)

Complete == Settings \subseteq env \/ (bak # NoFile /\ Settings \subseteq bak)

\* An update that began with all the settings does not lose them: however it
\* is cut off, by errors or by the end of the process, and whatever is done
\* with the torn file next, all are in the file or in its backup until another
\* update begins.
SettingsSurvive == whole => Complete

\* What the head of environment.go says: the backup avoids data loss.  It does
\* not when an update follows on a torn file, and copies that over the backup.
NoAccidentalLoss == [][Complete => Complete']_envVars
=============================================================================
