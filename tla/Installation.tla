---------------------------- MODULE Installation ----------------------------
(***************************************************************************)
(* The agent as installed software: its binary, service registration,      *)
(* configuration and logs on one machine, and the commands install,        *)
(* restart, stop, update and uninstall, which change them in several       *)
(* steps and may be killed between two of them.                            *)
(***************************************************************************)
EXTENDS Naturals

CONSTANTS
  Systems,      \* subset of {"linux", "darwin", "windows"}
  MaxVersion,   \* releases are 1..MaxVersion
  MaxFaults     \* bound on failures and kills

VARIABLES
  os,
  unit,        \* is the service registered?
  running,     \* version of the running agent, 0 if none
  bin, old,    \* installed binary and <exe>.old: [ver, good], ver 0 if absent
  kept,        \* subset of {"config", "log"} on the disk
  hub, github, \* versions the control plane and GitHub serve
  cmd,         \* the command in progress
  faults,
  removed      \* ghost: has an uninstall removed the binary?

vars == <<os, unit, running, bin, old, kept, hub, github, cmd, faults, removed>>

Versions == 1..MaxVersion
None == [ver |-> 0, good |-> TRUE]
Binary == [ver : 0..MaxVersion, good : BOOLEAN]
Idle == [op |-> "idle", want |-> 0, source |-> "none", tmp |-> None, plan |-> {}]
Things == {"unit", "config", "log", "bin", "old"}

TypeOK ==
  /\ os \in Systems /\ unit \in BOOLEAN /\ running \in 0..MaxVersion
  /\ bin \in Binary /\ old \in Binary /\ kept \subseteq {"config", "log"}
  /\ hub \in Versions /\ github \in Versions
  /\ cmd \in [op : {"idle", "download", "verify", "aside", "replace", "restart", "stop", "remove", "notice"},
              want : 0..MaxVersion, source : {"none", "hub", "github"}, tmp : Binary,
              plan : SUBSET Things]
  /\ faults \in 0..MaxFaults
  /\ removed \in BOOLEAN

Fault == faults < MaxFaults /\ faults' = faults + 1
NoFault == UNCHANGED faults
Become(c) == cmd' = c

Init ==
  /\ os \in Systems /\ unit = FALSE /\ running = 0
  /\ bin = [ver |-> 1, good |-> TRUE] /\ old = None /\ kept = {"config"}
  /\ hub = 1 /\ github = 1 /\ cmd = Idle /\ faults = 0
  /\ removed = FALSE

\* A release appears on GitHub; the operator brings the control plane up to date.
Publish ==
  /\ \/ github < MaxVersion /\ github' = github + 1 /\ UNCHANGED hub
     \/ hub < github /\ hub' = github /\ UNCHANGED github
  /\ UNCHANGED <<os, unit, running, bin, old, kept, cmd, faults, removed>>

\* The install script puts the control plane's binary in place.
InstallScript ==
  /\ cmd.op = "idle" /\ bin.ver = 0
  /\ bin' = [ver |-> hub, good |-> TRUE] /\ kept' = kept \cup {"config"} /\ removed' = FALSE
  /\ UNCHANGED <<os, unit, running, old, hub, github, cmd, faults>>

----------------------------------------------------------------------------
(* The service.  The agent removes <exe>.old when it starts and opens its  *)
(* log file.                                                               *)

RedirectLogsToFile == kept \cup {"log"}

StartAgent ==
  /\ running' = bin.ver
  /\ old' = None /\ kept' = RedirectLogsToFile

\* The service manager starts a registered service that is not running.
Respawn ==
  /\ unit /\ running = 0 /\ bin.ver # 0 /\ cmd.op = "idle"
  /\ StartAgent
  /\ UNCHANGED <<os, unit, bin, hub, github, cmd, faults, removed>>

AgentExits ==
  /\ running # 0 /\ Fault /\ running' = 0
  /\ UNCHANGED <<os, unit, bin, old, kept, hub, github, cmd, removed>>

\* systemctl start leaves a running service alone.
InstallAgentSystemd ==
  /\ os = "linux" /\ unit' = TRUE
  /\ \/ running = 0 /\ NoFault /\ StartAgent
     \/ running # 0 /\ NoFault /\ UNCHANGED <<running, old, kept>>
     \/ Fault /\ UNCHANGED <<running, old, kept>>

\* What is loaded is unloaded, the plist is written and loaded.
InstallAgentLaunchd ==
  /\ os = "darwin"
  /\ \/ NoFault /\ unit' = TRUE /\ StartAgent
     \/ /\ Fault /\ unit' \in {unit, TRUE}
        /\ running' = IF unit THEN 0 ELSE running
        /\ UNCHANGED <<old, kept>>

\* A service that exists is restarted, else it is created and started.
InstallAgentWindows ==
  /\ os = "windows"
  /\ \/ NoFault /\ unit' = TRUE /\ StartAgent
     \/ /\ Fault /\ unit' \in {unit, TRUE}
        /\ running' = IF unit THEN 0 ELSE running
        /\ UNCHANGED <<old, kept>>

\* The files of an enrollment must be there.
RunAgentInstall ==
  /\ cmd.op = "idle" /\ bin.ver # 0 /\ "config" \in kept
  /\ InstallAgentSystemd \/ InstallAgentLaunchd \/ InstallAgentWindows
  /\ UNCHANGED <<os, bin, hub, github, cmd, removed>>

RunRestart ==
  /\ cmd.op = "idle" /\ unit /\ bin.ver # 0 /\ StartAgent
  /\ UNCHANGED <<os, unit, bin, hub, github, cmd, faults, removed>>

RunStop ==
  /\ cmd.op = "idle" /\ unit /\ running # 0 /\ running' = 0
  /\ UNCHANGED <<os, unit, bin, old, kept, hub, github, cmd, faults, removed>>

----------------------------------------------------------------------------
(* Updating.                                                               *)

\* Check: the control plane is asked first, GitHub if it cannot be reached.
\* Equal versions mean up to date, any other version is installed.
Check ==
  /\ cmd.op = "idle" /\ bin.ver # 0
  /\ \E s \in {"hub", "github"} :
       LET v == IF s = "hub" THEN hub ELSE github IN
       /\ v # bin.ver
       /\ Become([Idle EXCEPT !.op = "download", !.want = v, !.source = s])
  /\ UNCHANGED <<os, unit, running, bin, old, kept, hub, github, faults, removed>>

\* update --version v, and --force for the same version: no check; the download
\* comes from the control plane when there is one.
UpdateVersion ==
  /\ cmd.op = "idle" /\ bin.ver # 0
  /\ \E s \in {"hub", "github"}, v \in 1..github :
       Become([Idle EXCEPT !.op = "download", !.want = v, !.source = s])
  /\ UNCHANGED <<os, unit, running, bin, old, kept, hub, github, faults, removed>>

\* Apply: the download goes to a temporary file.  The control plane serves one
\* version, its own; GitHub serves the one asked for.
Download ==
  /\ cmd.op = "download"
  /\ \/ \E good \in BOOLEAN :
          /\ IF good THEN NoFault ELSE Fault
          /\ Become([cmd EXCEPT !.op = "verify",
                      !.tmp = [ver |-> IF cmd.source = "hub" THEN hub ELSE cmd.want, good |-> good]])
     \/ Fault /\ Become(Idle)
  /\ UNCHANGED <<os, unit, running, bin, old, kept, hub, github, removed>>

\* verifyChecksum: a checksum that cannot be fetched is not a reason to stop.
VerifyChecksum ==
  /\ cmd.op = "verify"
  /\ \E available \in BOOLEAN :
       /\ IF available THEN NoFault ELSE Fault
       /\ Become(IF available /\ ~cmd.tmp.good THEN Idle
                 ELSE [cmd EXCEPT !.op = IF os = "windows" THEN "aside" ELSE "replace"])
  /\ UNCHANGED <<os, unit, running, bin, old, kept, hub, github, removed>>

\* On Windows the running binary is renamed first, once an earlier .old is removed.
MoveAside ==
  /\ cmd.op = "aside"
  /\ \/ /\ old' = bin /\ bin' = None /\ NoFault /\ Become([cmd EXCEPT !.op = "replace"])
     \/ /\ Fault /\ Become(Idle) /\ old' \in {old, None} /\ UNCHANGED bin
  /\ UNCHANGED <<os, unit, running, kept, hub, github, removed>>

ReplaceInPlace ==
  /\ cmd.op = "replace"
  /\ \/ bin' = cmd.tmp /\ NoFault /\ Become([cmd EXCEPT !.op = "restart", !.tmp = None])
     \/ bin' = None /\ Fault /\ Become(Idle)
  /\ UNCHANGED <<os, unit, running, old, kept, hub, github, removed>>
\* The temporary file replaces the binary in one rename.
Replace ==
  /\ cmd.op = "replace"
  /\ \/ bin' = cmd.tmp /\ NoFault /\ Become([cmd EXCEPT !.op = "restart", !.tmp = None])
     \/ Fault /\ Become(Idle) /\ UNCHANGED bin
  /\ UNCHANGED <<os, unit, running, old, kept, hub, github, removed>>

\* restartService: a service that is active is restarted; a failure is a warning.
RestartService ==
  /\ cmd.op = "restart" /\ Become(Idle)
  /\ \/ unit /\ running # 0 /\ StartAgent /\ NoFault
     \/ ~(unit /\ running # 0) /\ NoFault /\ UNCHANGED <<running, old, kept>>
     \/ Fault /\ UNCHANGED <<running, old, kept>>
  /\ UNCHANGED <<os, unit, bin, hub, github, removed>>

----------------------------------------------------------------------------
(* Uninstalling.                                                           *)

Present == (IF unit /\ os # "windows" THEN {"unit"} ELSE {}) \cup kept
           \cup (IF bin.ver # 0 THEN {"bin"} ELSE {}) \cup (IF old.ver # 0 THEN {"old"} ELSE {})

\* uninstallTargets: the plan holds what exists of the categories asked for.  A
\* full uninstall is --purge --remove-logs with the binary.
RunAgentUninstall ==
  /\ cmd.op = "idle" /\ bin.ver # 0
  /\ \E purge, logs, binary \in BOOLEAN :
       LET wanted == {"unit"} \cup (IF purge THEN {"config"} ELSE {}) \cup (IF logs THEN {"log"} ELSE {})
                     \cup (IF binary THEN {"bin", "old"} ELSE {})
       IN Become([Idle EXCEPT !.op = "stop", !.plan = wanted \cap Present])
  /\ UNCHANGED <<os, unit, running, bin, old, kept, hub, github, faults, removed>>

\* uninstallAgentSystemd, uninstallAgentLaunchd: the service is stopped, errors of
\* the service manager are ignored, and the unit stays for removeTargets.
UninstallAgentUnix ==
  /\ os # "windows" /\ Become([cmd EXCEPT !.op = "remove"]) /\ UNCHANGED unit
  /\ \/ NoFault /\ running' = IF unit THEN 0 ELSE running
     \/ Fault /\ UNCHANGED running

\* Windows also deletes the service here, and a failure ends the command.
UninstallAgentWindows ==
  /\ os = "windows"
  /\ \/ /\ NoFault /\ running' = IF unit THEN 0 ELSE running
        /\ unit' = FALSE /\ Become([cmd EXCEPT !.op = "remove"])
     \/ Fault /\ Become(Idle) /\ running' \in {running, IF unit THEN 0 ELSE running} /\ UNCHANGED unit

StopServiceForUninstall ==
  /\ cmd.op = "stop"
  /\ UninstallAgentUnix \/ UninstallAgentWindows
  /\ UNCHANGED <<os, bin, old, kept, hub, github, removed>>

Remove(t) ==
  /\ unit' = (unit /\ t # "unit") /\ kept' = kept \ {t}
  /\ bin' = IF t = "bin" THEN None ELSE bin
  /\ old' = IF t = "old" THEN None ELSE old
  /\ removed' = (removed \/ t = "bin")
\* removeTargets: one after the other; a failure is printed and the next one tried.
RemoveTargets ==
  /\ cmd.op = "remove"
  /\ \/ \E t \in cmd.plan :
          /\ Become([cmd EXCEPT !.plan = @ \ {t}])
          /\ \/ Remove(t) /\ NoFault
             \/ Fault /\ UNCHANGED <<unit, kept, bin, old, removed>>
     \/ /\ cmd.plan = {} /\ Become([cmd EXCEPT !.op = "notice"])
        /\ NoFault /\ UNCHANGED <<unit, kept, bin, old, removed>>
  /\ UNCHANGED <<os, running, hub, github>>

\* printRemainingNotice
PrintRemainingNotice ==
  /\ cmd.op = "notice" /\ Become(Idle)
  /\ UNCHANGED <<os, unit, running, bin, old, kept, hub, github, faults, removed>>

\* The command is killed between two steps.
Kill ==
  /\ cmd.op # "idle" /\ Fault /\ Become(Idle)
  /\ UNCHANGED <<os, unit, running, bin, old, kept, hub, github, removed>>

Next ==
  \/ Publish \/ InstallScript \/ Respawn \/ AgentExits \/ RunAgentInstall \/ RunRestart \/ RunStop
  \/ Check \/ UpdateVersion \/ Download \/ VerifyChecksum \/ MoveAside \/ Replace \/ RestartService
  \/ RunAgentUninstall \/ StopServiceForUninstall \/ RemoveTargets \/ PrintRemainingNotice \/ Kill

Spec == Init /\ [][Next]_vars

----------------------------------------------------------------------------
\* selfupdate.Apply: whenever the update fails or is killed there is a binary to
\* start, on Windows at least the one that was moved aside.
ABinaryRemains == removed \/ bin.ver # 0 \/ (os = "windows" /\ old.ver # 0)

=============================================================================
