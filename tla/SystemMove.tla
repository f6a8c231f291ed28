----------------------------- MODULE SystemMove -----------------------------
(***************************************************************************)
(* hop-agent install --migrate-from: the enrollments of the desktop        *)
(* client's agent become those of the system service.  The directories and *)
(* then the registry are renamed one by one; the command may fail or be    *)
(* killed between two renames and be run again.  The service then mirrors  *)
(* the token and the port of its local API into the user's directory and   *)
(* hands the two files over to the user, at once or when someone logs in.  *)
(***************************************************************************)
EXTENDS Naturals

CONSTANTS
  Enrollments,
  MaxFaults     \* bound on failures and kills

VARIABLES
  src, dst,                \* enrollment directories at the two places
  stale,                   \* names whose directory was at the destination before
  sReg, sBak, dReg, dBak,  \* enrollments.json and its backup at the two places
  pc,                      \* the command: "idle", "dirs", "registry", "backup", "install"
  agent,                   \* does the system service run, with --mirror-dir?
  console,                 \* owner of /dev/console: "root" before anyone logs in
  home,                    \* owner of the mirror directory
  token, port,             \* owners of the two mirror files, "none" if absent
  faults

mirror == <<agent, console, home, token, port>>
moved == <<src, dst, stale, sReg, sBak, dReg, dBak, pc>>
vars == <<moved, mirror, faults>>

TypeOK ==
  /\ src \subseteq Enrollments /\ dst \subseteq Enrollments /\ stale \subseteq Enrollments
  /\ <<sReg, sBak, dReg, dBak, agent>> \in BOOLEAN \X BOOLEAN \X BOOLEAN \X BOOLEAN \X BOOLEAN
  /\ pc \in {"idle", "dirs", "registry", "backup", "install"}
  /\ console \in {"root", "user"} /\ home \in {"root", "user"}
  /\ token \in {"none", "root", "user"} /\ port \in {"none", "root", "user"}
  /\ faults \in 0..MaxFaults

\* An enrollment that was not registered, or not removed to the end, leaves its directory
\* at the destination.
Init ==
  /\ src = Enrollments /\ dst \in SUBSET Enrollments /\ stale = dst
  /\ sReg = TRUE /\ sBak \in BOOLEAN /\ dReg = FALSE /\ dBak = FALSE
  /\ pc = "idle" /\ agent = FALSE /\ console \in {"root", "user"} /\ home = "root"
  /\ token = "none" /\ port = "none" /\ faults = 0

Fault == faults < MaxFaults /\ faults' = faults + 1
Abort == Fault /\ pc' = "idle"

----------------------------------------------------------------------------
\* migrateEnrollmentsToSystem: every enrollment of the source must be complete, and
\* the destination must have none.  Either copy of a registry makes it non-empty.
Validate ==
  /\ pc = "idle" /\ ~agent /\ (sReg \/ sBak)
  /\ src = Enrollments /\ ~dReg /\ ~dBak
  /\ pc' = "dirs"
  /\ UNCHANGED <<src, dst, stale, sReg, sBak, dReg, dBak, mirror, faults>>

\* The directories first; one that is at the destination is skipped.
MoveDirs ==
  /\ pc = "dirs"
  /\ \/ \E e \in Enrollments \ dst :
          src' = src \ {e} /\ dst' = dst \cup {e} /\ UNCHANGED <<pc, faults>>
     \/ dst = Enrollments /\ pc' = "registry" /\ UNCHANGED <<src, dst, faults>>
     \/ Abort /\ UNCHANGED <<src, dst>>
  /\ UNCHANGED <<stale, sReg, sBak, dReg, dBak, mirror>>

\* A plausible bug: the registry is moved before the directories.
MoveRegistryFirst ==
  /\ pc = "dirs" /\ sReg
  /\ sReg' = FALSE /\ dReg' = TRUE /\ UNCHANGED <<src, dst, stale, sBak, dBak, pc, mirror, faults>>

\* Then the registry; without enrollments.json the rename fails.
MoveRegistry ==
  /\ pc = "registry"
  /\ \/ sReg /\ sReg' = FALSE /\ dReg' = TRUE /\ pc' = "backup" /\ UNCHANGED faults
     \/ Abort /\ UNCHANGED <<sReg, dReg>>
  /\ UNCHANGED <<src, dst, stale, sBak, dBak, mirror>>

\* Then the backup and the token of the old local API, errors ignored.
MoveBackup ==
  /\ pc = "backup"
  /\ \/ dBak' = (dBak \/ sBak) /\ sBak' = FALSE /\ pc' = "install" /\ UNCHANGED faults
     \/ Fault /\ pc' = "install" /\ UNCHANGED <<sBak, dBak>>
     \/ Abort /\ UNCHANGED <<sBak, dBak>>
  /\ UNCHANGED <<src, dst, stale, sReg, dReg, mirror>>

Chown(t, p, o) == token' = (IF t = "none" THEN t ELSE o) /\ port' = (IF p = "none" THEN p ELSE o)

\* chownMirrorFiles: the console user, else the owner of the directory, else an
\* error and the files stay as they are.
ChownMirrorFiles(t, p) ==
  \/ IF console = "user" \/ home = "user" THEN Chown(t, p, "user") /\ UNCHANGED faults
     ELSE token' = t /\ port' = p /\ UNCHANGED faults
  \/ Fault /\ token' = t /\ port' = p

\* RunAgentInstall: if someone is logged in the mirror directory is made and given
\* to that user, errors ignored; otherwise the service runs without a mirror.
InstallService ==
  /\ pc = "install" /\ pc' = "idle"
  /\ \/ console = "user" /\ agent' = TRUE /\ home' = "user" /\ UNCHANGED faults
     \/ console = "user" /\ agent' = TRUE /\ Fault /\ UNCHANGED home
     \/ console = "root" /\ UNCHANGED <<agent, home, faults>>
  /\ UNCHANGED <<src, dst, stale, sReg, sBak, dReg, dBak, console, token, port>>

\* writeSystemMirrorFiles, when the local API of the service starts: each of the two
\* files may be missing after a failed write, and without the token there is no port.
WriteMirror ==
  /\ agent /\ token = "none" /\ port = "none"
  /\ \/ ChownMirrorFiles("root", "root")
     \/ Fault /\ token' = "root" /\ port' = "none"
  /\ UNCHANGED <<moved, agent, console, home>>

\* One round of runMirrorChownSelfHeal.
SelfHeal ==
  /\ agent /\ "root" \in {token, port}
  /\ ChownMirrorFiles(token, port)
  /\ UNCHANGED <<moved, agent, console, home>>

\* The machine starts again: the service writes the files anew, as root, before
\* anyone logs in.
Reboot ==
  /\ agent /\ Fault /\ console' = "root" /\ token' = "none" /\ port' = "none"
  /\ UNCHANGED <<moved, agent, home>>

Login ==
  /\ console = "root" /\ console' = "user"
  /\ UNCHANGED <<moved, agent, home, token, port, faults>>

Next == Validate \/ MoveDirs \/ MoveRegistry \/ MoveBackup \/ InstallService
        \/ WriteMirror \/ SelfHeal \/ Reboot \/ Login

Spec == Init /\ [][Next]_vars

----------------------------------------------------------------------------
\* migrateEnrollmentsToSystem moves the registry last: a registry at the destination
\* finds every directory it names, and the service can start all enrollments; each is the
\* one the source had, unless the destination had one of that name before.
RegistryFindsDirs == dReg => dst = Enrollments /\ src \subseteq stale

=============================================================================
