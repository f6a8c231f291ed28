-------------------------- MODULE AgentHostProofs --------------------------
(***************************************************************************)
(* The agent on its host: its certificate and key on disk, the program and *)
(* its replacement, and what it knows of its peers: CertFiles,             *)
(* Installation, PeerEndpoints and PathQuality, each with its constants,   *)
(* what is assumed of them, its instance and the properties that           *)
(* MCAgentHost checks; and the proofs of the safety properties for every   *)
(* value of the constants: the inductive invariant of each part, that its  *)
(* initial states satisfy it and its steps keep it, and the theorem about  *)
(* its specification.  The parts share no state with each other while they *)
(* run.                                                                    *)
(***************************************************************************)
EXTENDS Integers, Sequences, FiniteSets, TLAPS

-----------------------------------------------------------------------------
(* Installation.                                                           *)

CONSTANTS
  Systems, MaxVersion, InstallMaxFaults

\* There is a release, and a bound.
ASSUME InstallAssumption ==
  MaxVersion \in Nat \ {0} /\ InstallMaxFaults \in Nat

VARIABLES
  os, unit, running, bin, installOld, kept, hub, github, cmd, installFaults, removed

I == INSTANCE Installation WITH
       MaxFaults <- InstallMaxFaults, old <- installOld, faults <- installFaults

installVars == <<os, unit, running, bin, installOld, kept, hub, github, cmd, installFaults,
                 removed>>

\* selfupdate.Apply: whenever the update fails or is killed there is a binary to
\* start, on Windows at least the one that was moved aside.
ABinaryRemains == I!ABinaryRemains

CmdType ==
  [op : {"idle", "download", "verify", "aside", "replace", "restart", "stop", "remove", "notice"},
   want : 0..MaxVersion, source : {"none", "hub", "github"}, tmp : I!Binary, plan : SUBSET I!Things]

InstallTypes ==
  /\ os \in Systems /\ unit \in BOOLEAN /\ running \in 0..MaxVersion
  /\ bin \in I!Binary /\ installOld \in I!Binary /\ kept \subseteq {"config", "log"}
  /\ hub \in 1..MaxVersion /\ github \in 1..MaxVersion
  /\ cmd \in CmdType /\ installFaults \in 0..InstallMaxFaults /\ removed \in BOOLEAN

\* What a command knows of the binary when it is about to take a step.
CommandKnows(c, b, o) ==
  /\ c.op = "download" => c.want # 0
  /\ c.op \in {"verify", "aside", "replace"} => c.tmp.ver # 0
  /\ c.op \in {"download", "verify", "aside", "restart"} => b.ver # 0
  /\ c.op = "aside" => os = "windows"
  /\ c.op \in {"stop", "remove"} => b.ver # 0 \/ removed

InstallInv == InstallTypes /\ CommandKnows(cmd, bin, installOld) /\ ABinaryRemains

\* The record that stands for no command, and no binary.
LEMMA IdleType ==
    /\ I!Idle \in CmdType /\ I!Idle.op = "idle" /\ I!Idle.plan = {} /\ I!Idle.tmp = I!None
    /\ I!None \in I!Binary /\ I!None.ver = 0
<1>1. I!None \in I!Binary /\ I!None.ver = 0
  BY InstallAssumption DEF I!None, I!Binary
<1> HIDE DEF I!None
<1>2. I!Idle \in CmdType /\ I!Idle.op = "idle" /\ I!Idle.plan = {} /\ I!Idle.tmp = I!None
  BY <1>1, InstallAssumption DEF I!Idle, CmdType
<1> QED  BY <1>1, <1>2, Zenon

\* The binary of an installation that has not started yet.
LEMMA InstallInit == I!Init => InstallInv
<1> SUFFICES ASSUME I!Init PROVE InstallInv
  OBVIOUS
<1>1. bin \in I!Binary /\ bin.ver = 1 /\ installOld = I!None
  BY InstallAssumption DEF I!Init, I!Binary
<1>2. cmd = I!Idle /\ os \in Systems /\ running = 0 /\ kept = {"config"} /\ hub = 1 /\ github = 1 /\ installFaults = 0
  BY Zenon DEF I!Init
<1>3. unit \in BOOLEAN /\ removed \in BOOLEAN
  BY Zenon DEF I!Init
<1>4. InstallTypes
  BY <1>1, <1>2, <1>3, IdleType, InstallAssumption DEF InstallTypes
<1>5. CommandKnows(cmd, bin, installOld)
  BY <1>2, IdleType, Zenon DEF CommandKnows
<1>6. ABinaryRemains
  BY <1>1 DEF ABinaryRemains, I!ABinaryRemains
<1> QED  BY <1>4, <1>5, <1>6, Zenon DEF InstallInv

\* A failure is counted.
LEMMA InstallFault ==
    ASSUME InstallInv, I!Fault \/ I!NoFault
    PROVE  installFaults' \in 0..InstallMaxFaults
  BY InstallAssumption DEF I!Fault, I!NoFault, InstallInv, InstallTypes

\* What is left to show of a step that leaves the binary alone: the command is as before
\* or has ended.
LEMMA BinaryStays ==
    ASSUME InstallInv, UNCHANGED <<os, bin, removed>>, unit' \in BOOLEAN, running' \in 0..MaxVersion,
           installOld' \in I!Binary, kept' \subseteq {"config", "log"}, hub' \in 1..MaxVersion, github' \in 1..MaxVersion,
           installFaults' \in 0..InstallMaxFaults, cmd' \in {cmd, I!Idle},
           UNCHANGED installOld \/ bin.ver # 0
    PROVE  InstallInv'
<1>1. InstallTypes'
  BY IdleType, Zenon DEF InstallInv, InstallTypes
<1>2. CommandKnows(cmd, bin, installOld)'
  <2>1. CASE cmd' = cmd
    BY <2>1, Zenon DEF InstallInv, CommandKnows
  <2>2. CASE cmd' = I!Idle
    BY <2>2, IdleType, Zenon DEF CommandKnows
  <2> QED  BY <2>1, <2>2, Zenon
<1>3. ABinaryRemains'
  BY Zenon DEF InstallInv, ABinaryRemains, I!ABinaryRemains
<1> QED  BY <1>1, <1>2, <1>3, Zenon DEF InstallInv

\* Releases.
LEMMA ReleaseStep == ASSUME InstallInv, I!Publish PROVE InstallInv'
<1>1. /\ hub' \in 1..MaxVersion /\ github' \in 1..MaxVersion
      /\ UNCHANGED <<os, unit, running, bin, installOld, kept, cmd, installFaults, removed>>
  BY InstallAssumption DEF I!Publish, InstallInv, InstallTypes
<1> QED  BY <1>1, BinaryStays, Zenon DEF InstallInv, InstallTypes

\* The service starts.
LEMMA StartAgentType ==
    ASSUME InstallInv, I!StartAgent
    PROVE  running' \in 0..MaxVersion /\ installOld' \in I!Binary /\ kept' \subseteq {"config", "log"}
<1>1. bin.ver \in 0..MaxVersion
  BY Zenon DEF InstallInv, InstallTypes, I!Binary
<1> QED  BY <1>1, IdleType, Zenon DEF I!StartAgent, I!RedirectLogsToFile, InstallInv, InstallTypes

\* What changes the service and not the software.
LEMMA ServiceStep ==
    ASSUME InstallInv, I!Respawn \/ I!AgentExits \/ I!RunRestart \/ I!RunStop
    PROVE  InstallInv'
<1>1. CASE I!Respawn
  <2>1. bin.ver # 0 /\ I!StartAgent /\ UNCHANGED <<os, unit, bin, hub, github, cmd, installFaults, removed>>
    BY <1>1, Zenon DEF I!Respawn
  <2> QED  BY <2>1, StartAgentType, BinaryStays, Zenon DEF InstallInv, InstallTypes
<1>2. CASE I!AgentExits
  <2>1. I!Fault /\ running' = 0 /\ UNCHANGED <<os, unit, bin, installOld, kept, hub, github, cmd, removed>>
    BY <1>2, Zenon DEF I!AgentExits
  <2>2. running' \in 0..MaxVersion
    BY <2>1, InstallAssumption
  <2> QED  BY <2>1, <2>2, InstallFault, BinaryStays, Zenon DEF InstallInv, InstallTypes
<1>3. CASE I!RunRestart
  <2>1. bin.ver # 0 /\ I!StartAgent /\ UNCHANGED <<os, unit, bin, hub, github, cmd, installFaults, removed>>
    BY <1>3, Zenon DEF I!RunRestart
  <2> QED  BY <2>1, StartAgentType, BinaryStays DEF InstallInv, InstallTypes
<1>4. CASE I!RunStop
  <2>1. running' = 0 /\ UNCHANGED <<os, unit, bin, installOld, kept, hub, github, cmd, installFaults, removed>>
    BY <1>4, Zenon DEF I!RunStop
  <2>2. running' \in 0..MaxVersion
    BY <2>1, InstallAssumption
  <2> QED  BY <2>1, <2>2, BinaryStays, Zenon DEF InstallInv, InstallTypes
<1> QED  BY <1>1, <1>2, <1>3, <1>4, Zenon

\* install.
LEMMA RunAgentInstallStep == ASSUME InstallInv, I!RunAgentInstall PROVE InstallInv'
<1>1. bin.ver # 0 /\ UNCHANGED <<os, bin, hub, github, cmd, removed>>
  BY Zenon DEF I!RunAgentInstall
<1>2. I!InstallAgentSystemd \/ I!InstallAgentLaunchd \/ I!InstallAgentWindows
  BY Zenon DEF I!RunAgentInstall
<1>3. I!Fault \/ I!NoFault
  BY <1>2, Zenon DEF I!InstallAgentSystemd, I!InstallAgentLaunchd, I!InstallAgentWindows
<1>4. unit' = TRUE \/ unit' = unit
  BY <1>2, Zenon DEF I!InstallAgentSystemd, I!InstallAgentLaunchd, I!InstallAgentWindows
<1>5. unit' \in BOOLEAN
  BY <1>4, Zenon DEF InstallInv, InstallTypes
<1>6. I!StartAgent \/ (running' \in {running, 0} /\ UNCHANGED <<installOld, kept>>)
  BY <1>2, Zenon DEF I!InstallAgentSystemd, I!InstallAgentLaunchd, I!InstallAgentWindows
<1>7. running' \in 0..MaxVersion /\ installOld' \in I!Binary /\ kept' \subseteq {"config", "log"}
  <2>1. CASE I!StartAgent
    BY <2>1, StartAgentType, Zenon
  <2>2. CASE running' \in {running, 0} /\ UNCHANGED <<installOld, kept>>
    BY <2>2, InstallAssumption DEF InstallInv, InstallTypes
  <2> QED  BY <1>6, <2>1, <2>2, Zenon
<1> QED  BY <1>1, <1>3, <1>5, <1>7, InstallFault, BinaryStays DEF InstallInv, InstallTypes

\* The install script.
LEMMA InstallScriptStep == ASSUME InstallInv, I!InstallScript PROVE InstallInv'
<1> DEFINE b == [ver |-> hub, good |-> TRUE]
<1>1. b \in I!Binary /\ b.ver # 0
  BY InstallAssumption DEF InstallInv, InstallTypes, I!Binary
<1>2. /\ cmd.op = "idle" /\ bin' = b /\ kept' = kept \cup {"config"} /\ removed' = FALSE
      /\ UNCHANGED <<os, unit, running, installOld, hub, github, cmd, installFaults>>
  BY Zenon DEF I!InstallScript
<1> HIDE DEF b
<1>3. removed' \in BOOLEAN
  BY <1>2, Zenon
<1>4. InstallTypes'
  BY <1>1, <1>2, <1>3, Zenon DEF InstallInv, InstallTypes
<1>5. CommandKnows(cmd, bin, installOld)'
  BY <1>2, Zenon DEF CommandKnows
<1>6. ABinaryRemains'
  BY <1>1, <1>2, Zenon DEF ABinaryRemains, I!ABinaryRemains
<1> QED  BY <1>4, <1>5, <1>6, Zenon DEF InstallInv

\* A step that leaves the software alone and goes on with the command.
LEMMA CmdChanges ==
    ASSUME InstallInv, NEW q \in CmdType, cmd' = q, UNCHANGED <<os, bin, installOld, kept, hub, github, removed>>,
           unit' \in BOOLEAN, running' \in 0..MaxVersion, installFaults' \in 0..InstallMaxFaults,
           CommandKnows(q, bin, installOld)
    PROVE  InstallInv'
<1>1. InstallTypes'
  BY Zenon DEF InstallInv, InstallTypes
<1>2. CommandKnows(cmd, bin, installOld)'
  BY Zenon DEF CommandKnows
<1>3. ABinaryRemains'
  BY Zenon DEF InstallInv, ABinaryRemains, I!ABinaryRemains
<1> QED  BY <1>1, <1>2, <1>3, Zenon DEF InstallInv

\* update begins.
LEMMA CheckStep == ASSUME InstallInv, I!Check \/ I!UpdateVersion PROVE InstallInv'
<1>1. PICK s \in {"hub", "github"}, v \in 1..MaxVersion :
        cmd' = [I!Idle EXCEPT !.op = "download", !.want = v, !.source = s]
  <2>1. CASE I!Check
    BY <2>1, Zenon DEF I!Check, I!Become, InstallInv, InstallTypes
  <2>2. CASE I!UpdateVersion
    <3>1. PICK s \in {"hub", "github"}, v \in 1..github :
            cmd' = [I!Idle EXCEPT !.op = "download", !.want = v, !.source = s]
      BY <2>2, Zenon DEF I!UpdateVersion, I!Become
    <3>2. v \in 1..MaxVersion
      BY InstallAssumption DEF InstallInv, InstallTypes
    <3> QED  BY <3>1, <3>2, Zenon
  <2> QED  BY <2>1, <2>2, Zenon
<1>2. bin.ver # 0 /\ UNCHANGED <<os, unit, running, bin, installOld, kept, hub, github, installFaults, removed>>
  BY Zenon DEF I!Check, I!UpdateVersion
<1> DEFINE q == [I!Idle EXCEPT !.op = "download", !.want = v, !.source = s]
<1>3. q \in CmdType /\ q.op = "download" /\ q.want = v /\ v # 0
  <2>1. v \in 0..MaxVersion /\ v # 0
    BY InstallAssumption
  <2> QED  BY <2>1, IdleType, Zenon DEF CmdType
<1>4. cmd' = q
  BY <1>1, Zenon
<1> HIDE DEF q
<1>5. CommandKnows(q, bin, installOld)
  BY <1>2, <1>3, Zenon DEF CommandKnows
<1> QED  BY <1>2, <1>3, <1>4, <1>5, CmdChanges, Zenon DEF InstallInv, InstallTypes

\* A command ends or is killed.
LEMMA EndsStep ==
    ASSUME InstallInv, cmd' = I!Idle, UNCHANGED <<os, unit, running, bin, installOld, kept, hub, github, removed>>,
           installFaults' \in 0..InstallMaxFaults
    PROVE  InstallInv'
  BY BinaryStays, Zenon DEF InstallInv, InstallTypes

\* The download.
LEMMA DownloadStep == ASSUME InstallInv, I!Download PROVE InstallInv'
<1>1. cmd \in CmdType /\ cmd.op = "download" /\ UNCHANGED <<os, unit, running, bin, installOld, kept, hub, github, removed>>
  BY Zenon DEF I!Download, InstallInv, InstallTypes
<1>2. I!Fault \/ I!NoFault
  BY Zenon DEF I!Download
<1>3. CASE cmd' = I!Idle
  BY <1>1, <1>2, <1>3, InstallFault, EndsStep, Zenon
<1>4. CASE cmd' # I!Idle
  <2> DEFINE v == IF cmd.source = "hub" THEN hub ELSE cmd.want
  <2>1. PICK good \in BOOLEAN : cmd' = [cmd EXCEPT !.op = "verify", !.tmp = [ver |-> v, good |-> good]]
    BY <1>4, Zenon DEF I!Download, I!Become
  <2>2. v \in 1..MaxVersion
    BY <1>1, InstallAssumption DEF InstallInv, InstallTypes, CommandKnows, CmdType
  <2> HIDE DEF v
  <2> DEFINE t == [ver |-> v, good |-> good]
             q == [cmd EXCEPT !.op = "verify", !.tmp = t]
  <2>3. t \in I!Binary /\ t.ver # 0
    BY <2>2 DEF I!Binary
  <2> HIDE DEF t
  <2>4. q \in CmdType /\ q.op = "verify" /\ q.tmp = t
    BY <1>1, <2>3, Zenon DEF CmdType
  <2>5. cmd' = q
    BY <2>1, Zenon DEF t
  <2> HIDE DEF q
  <2>6. CommandKnows(q, bin, installOld)
    BY <1>1, <2>3, <2>4, Zenon DEF InstallInv, CommandKnows
  <2> QED  BY <1>1, <1>2, <2>4, <2>5, <2>6, InstallFault, CmdChanges, Zenon DEF InstallInv, InstallTypes
<1> QED  BY <1>3, <1>4, Zenon

\* The checksum.
LEMMA VerifyChecksumStep == ASSUME InstallInv, I!VerifyChecksum PROVE InstallInv'
<1>1. cmd \in CmdType /\ cmd.op = "verify" /\ UNCHANGED <<os, unit, running, bin, installOld, kept, hub, github, removed>>
  BY Zenon DEF I!VerifyChecksum, InstallInv, InstallTypes
<1>2. I!Fault \/ I!NoFault
  BY Zenon DEF I!VerifyChecksum
<1>3. CASE cmd' = I!Idle
  BY <1>1, <1>2, <1>3, InstallFault, EndsStep, Zenon
<1>4. CASE cmd' # I!Idle
  <2> DEFINE q == [cmd EXCEPT !.op = IF os = "windows" THEN "aside" ELSE "replace"]
  <2>1. cmd' = q
    BY <1>4, Zenon DEF I!VerifyChecksum, I!Become
  <2>2. q \in CmdType /\ q.op = (IF os = "windows" THEN "aside" ELSE "replace") /\ q.tmp = cmd.tmp
    BY <1>1, Zenon DEF CmdType
  <2> HIDE DEF q
  <2>3. CommandKnows(q, bin, installOld)
    BY <1>1, <2>2, Zenon DEF InstallInv, CommandKnows
  <2> QED  BY <1>1, <1>2, <2>1, <2>2, <2>3, InstallFault, CmdChanges, Zenon DEF InstallInv, InstallTypes
<1> QED  BY <1>3, <1>4

\* The running binary of Windows steps aside.
LEMMA MoveAsideStep == ASSUME InstallInv, I!MoveAside PROVE InstallInv'
<1>1. /\ cmd \in CmdType /\ cmd.op = "aside" /\ UNCHANGED <<os, unit, running, kept, hub, github, removed>>
      /\ bin.ver # 0 /\ os = "windows" /\ cmd.tmp.ver # 0
  BY Zenon DEF I!MoveAside, InstallInv, InstallTypes, CommandKnows
<1>2. I!Fault \/ I!NoFault
  BY Zenon DEF I!MoveAside
<1>3. CASE cmd' = I!Idle /\ bin' = bin /\ installOld' \in {installOld, I!None}
  <2>1. installOld' \in I!Binary /\ installFaults' \in 0..InstallMaxFaults
    BY <1>2, <1>3, IdleType, InstallFault, Zenon DEF InstallInv, InstallTypes
  <2>2. InstallTypes'
    BY <1>1, <1>3, <2>1, IdleType, Zenon DEF InstallInv, InstallTypes
  <2>3. CommandKnows(cmd, bin, installOld)'
    BY <1>3, IdleType, Zenon DEF CommandKnows
  <2>4. ABinaryRemains'
    BY <1>1, <1>3, Zenon DEF ABinaryRemains, I!ABinaryRemains
  <2> QED  BY <2>2, <2>3, <2>4, Zenon DEF InstallInv
<1>4. CASE ~(cmd' = I!Idle /\ bin' = bin /\ installOld' \in {installOld, I!None})
  <2> DEFINE q == [cmd EXCEPT !.op = "replace"]
  <2>1. cmd' = q /\ installOld' = bin /\ bin' = I!None
    BY <1>4, Zenon DEF I!MoveAside, I!Become
  <2>2. q \in CmdType /\ q.op = "replace" /\ q.tmp = cmd.tmp
    BY <1>1, Zenon DEF CmdType
  <2> HIDE DEF q
  <2>3. InstallTypes'
    BY <1>1, <1>2, <2>1, <2>2, IdleType, InstallFault, Zenon DEF InstallInv, InstallTypes
  <2>4. CommandKnows(cmd, bin, installOld)'
    BY <1>1, <2>1, <2>2, Zenon DEF CommandKnows
  <2>5. ABinaryRemains'
    BY <1>1, <2>1, Zenon DEF ABinaryRemains, I!ABinaryRemains
  <2> QED  BY <2>3, <2>4, <2>5 DEF InstallInv
<1> QED  BY <1>3, <1>4, Zenon

\* The new binary takes the place.
LEMMA ReplaceStep == ASSUME InstallInv, I!Replace PROVE InstallInv'
<1>1. /\ cmd \in CmdType /\ cmd.op = "replace" /\ UNCHANGED <<os, unit, running, installOld, kept, hub, github, removed>>
      /\ cmd.tmp.ver # 0
  BY Zenon DEF I!Replace, InstallInv, InstallTypes, CommandKnows
<1>2. I!Fault \/ I!NoFault
  BY Zenon DEF I!Replace
<1>3. CASE cmd' = I!Idle /\ UNCHANGED bin
  BY <1>1, <1>2, <1>3, InstallFault, EndsStep
<1>4. CASE ~(cmd' = I!Idle /\ UNCHANGED bin)
  <2> DEFINE q == [cmd EXCEPT !.op = "restart", !.tmp = I!None]
  <2>1. cmd' = q /\ bin' = cmd.tmp
    BY <1>4, Zenon DEF I!Replace, I!Become
  <2>2. q \in CmdType /\ q.op = "restart" /\ cmd.tmp \in I!Binary
    BY <1>1, IdleType, Zenon DEF CmdType
  <2> HIDE DEF q
  <2>3. InstallTypes'
    BY <1>1, <1>2, <2>1, <2>2, InstallFault, Zenon DEF InstallInv, InstallTypes
  <2>4. CommandKnows(cmd, bin, installOld)'
    BY <1>1, <2>1, <2>2, Zenon DEF CommandKnows
  <2>5. ABinaryRemains'
    BY <1>1, <2>1, Zenon DEF ABinaryRemains, I!ABinaryRemains
  <2> QED  BY <2>3, <2>4, <2>5 DEF InstallInv
<1> QED  BY <1>3, <1>4, Zenon

\* The service is restarted.
LEMMA RestartServiceStep == ASSUME InstallInv, I!RestartService PROVE InstallInv'
<1>1. /\ cmd.op = "restart" /\ cmd' = I!Idle /\ UNCHANGED <<os, unit, bin, hub, github, removed>>
      /\ (I!Fault \/ I!NoFault) /\ (I!StartAgent \/ UNCHANGED <<running, installOld, kept>>)
  BY Zenon DEF I!RestartService, I!Become
<1>2. bin.ver # 0
  BY <1>1, Zenon DEF InstallInv, CommandKnows
<1>3. running' \in 0..MaxVersion /\ installOld' \in I!Binary /\ kept' \subseteq {"config", "log"}
  BY <1>1, StartAgentType, Zenon DEF InstallInv, InstallTypes
<1> QED  BY <1>1, <1>2, <1>3, InstallFault, BinaryStays, Zenon DEF InstallInv, InstallTypes

\* uninstall makes its plan.
LEMMA RunAgentUninstallStep == ASSUME InstallInv, I!RunAgentUninstall PROVE InstallInv'
<1>1. /\ bin.ver # 0 /\ UNCHANGED <<os, unit, running, bin, installOld, kept, hub, github, installFaults, removed>>
      /\ \E x : cmd' = [I!Idle EXCEPT !.op = "stop", !.plan = x \cap I!Present]
  BY Zenon DEF I!RunAgentUninstall, I!Become
<1>2. I!Present \subseteq I!Things
  BY Zenon DEF I!Present, I!Things, InstallInv, InstallTypes
<1>3. PICK x : cmd' = [I!Idle EXCEPT !.op = "stop", !.plan = x \cap I!Present]
  BY <1>1, Zenon
<1> DEFINE p == x \cap I!Present
           q == [I!Idle EXCEPT !.op = "stop", !.plan = p]
<1>4. p \in SUBSET I!Things
  BY <1>2, Zenon
<1> HIDE DEF p
<1>5. q \in CmdType /\ q.op = "stop"
  BY <1>4, IdleType, Zenon DEF CmdType
<1>6. cmd' = q
  BY <1>3, Zenon DEF p
<1> HIDE DEF q
<1>7. CommandKnows(q, bin, installOld)
  BY <1>1, <1>5, Zenon DEF CommandKnows
<1> QED  BY <1>1, <1>5, <1>6, <1>7, CmdChanges, Zenon DEF InstallInv, InstallTypes

\* The service is stopped.
LEMMA StopServiceStep == ASSUME InstallInv, I!StopServiceForUninstall PROVE InstallInv'
<1>1. cmd \in CmdType /\ cmd.op = "stop" /\ UNCHANGED <<os, bin, installOld, kept, hub, github, removed>>
  BY Zenon DEF I!StopServiceForUninstall, InstallInv, InstallTypes
<1>2. I!UninstallAgentUnix \/ I!UninstallAgentWindows
  BY Zenon DEF I!StopServiceForUninstall
<1>3. I!Fault \/ I!NoFault
  BY <1>2, Zenon DEF I!UninstallAgentUnix, I!UninstallAgentWindows
<1>4. running' \in {running, 0}
  BY <1>2, Zenon DEF I!UninstallAgentUnix, I!UninstallAgentWindows
<1>5. unit' = FALSE \/ unit' = unit
  BY <1>2, Zenon DEF I!UninstallAgentUnix, I!UninstallAgentWindows
<1>6. unit' \in BOOLEAN
  BY <1>5, Zenon DEF InstallInv, InstallTypes
<1>7. running' \in 0..MaxVersion
  BY <1>4, InstallAssumption DEF InstallInv, InstallTypes
<1>8. CASE cmd' = I!Idle
  BY <1>1, <1>3, <1>6, <1>7, <1>8, InstallFault, BinaryStays, Zenon DEF InstallInv, InstallTypes
<1>9. CASE cmd' # I!Idle
  <2> DEFINE q == [cmd EXCEPT !.op = "remove"]
  <2>1. cmd' = q
    BY <1>2, <1>9, Zenon DEF I!UninstallAgentUnix, I!UninstallAgentWindows, I!Become
  <2>2. q \in CmdType /\ q.op = "remove"
    BY <1>1, Zenon DEF CmdType
  <2> HIDE DEF q
  <2>3. CommandKnows(q, bin, installOld)
    BY <1>1, <2>2, Zenon DEF InstallInv, CommandKnows
  <2> QED  BY <1>1, <1>3, <1>6, <1>7, <2>1, <2>2, <2>3, InstallFault, CmdChanges, ZenonT(40)
<1> QED  BY <1>8, <1>9

\* The files are removed.
LEMMA RemoveTargetsStep == ASSUME InstallInv, I!RemoveTargets PROVE InstallInv'
<1>1. cmd \in CmdType /\ cmd.op = "remove" /\ UNCHANGED <<os, running, hub, github>>
  BY Zenon DEF I!RemoveTargets, InstallInv, InstallTypes
<1>2. I!Fault \/ I!NoFault
  BY Zenon DEF I!RemoveTargets
<1>3. PICK q \in CmdType : cmd' = q /\ q.op \in {"remove", "notice"}
  <2>1. CASE cmd' = [cmd EXCEPT !.op = "notice"]
    BY <1>1, <2>1 DEF CmdType
  <2>2. ASSUME NEW t \in cmd.plan, cmd' = [cmd EXCEPT !.plan = cmd.plan \ {t}] PROVE cmd' \in CmdType /\ cmd'.op = "remove"
    BY <1>1, <2>2, Zenon DEF CmdType
  <2> QED  BY <2>1, <2>2, Zenon DEF I!RemoveTargets, I!Become
<1>4. UNCHANGED <<unit, kept, bin, installOld, removed>> \/ \E t : I!Remove(t)
  BY Zenon DEF I!RemoveTargets
<1>5. CASE UNCHANGED <<unit, kept, bin, installOld, removed>>
  <2>1. CommandKnows(q, bin, installOld)
    BY <1>1, <1>3, Zenon DEF InstallInv, CommandKnows
  <2> QED  BY <1>1, <1>2, <1>3, <1>5, <2>1, InstallFault, CmdChanges, Zenon DEF InstallInv, InstallTypes
<1>6. CASE \E t : I!Remove(t)
  <2>1. PICK t : I!Remove(t)
    BY <1>6, Zenon
  <2>2. unit' = (unit /\ t # "unit") /\ removed' = (removed \/ t = "bin")
    BY <2>1, Zenon DEF I!Remove
  <2>3. unit' \in BOOLEAN /\ removed' \in BOOLEAN
    BY <2>2, Zenon
  <2>4. removed' \/ (bin' = bin /\ ~removed)
    BY <2>1, Zenon DEF I!Remove
  <2>5. bin' \in {bin, I!None} /\ installOld' \in {installOld, I!None} /\ kept' \subseteq kept
    BY <2>1, Zenon DEF I!Remove
  <2>6. InstallTypes'
    BY <1>1, <1>2, <1>3, <2>3, <2>5, IdleType, InstallFault, ZenonT(40) DEF InstallInv, InstallTypes
  <2>7. removed' \/ bin'.ver # 0
    BY <1>1, <2>4, Zenon DEF InstallInv, CommandKnows
  <2>8. CommandKnows(cmd, bin, installOld)'
    BY <1>3, <2>7, Zenon DEF CommandKnows
  <2>9. ABinaryRemains'
    BY <2>7, Zenon DEF ABinaryRemains, I!ABinaryRemains
  <2> QED  BY <2>6, <2>8, <2>9, Zenon DEF InstallInv
<1> QED  BY <1>4, <1>5, <1>6, Zenon

\* Every step of the module, and none.
LEMMA InstallStep == InstallInv /\ [I!Next]_installVars => InstallInv'
<1> SUFFICES ASSUME InstallInv, [I!Next]_installVars PROVE InstallInv'
  BY Zenon
<1>1. CASE UNCHANGED installVars
  <2>1. UNCHANGED <<os, unit, running, bin, installOld, kept, hub, github, cmd, installFaults, removed>>
    BY <1>1, Zenon DEF installVars
  <2> QED  BY <2>1, BinaryStays, Zenon DEF InstallInv, InstallTypes
<1>2. CASE I!PrintRemainingNotice \/ I!Kill
  <2>1. /\ cmd' = I!Idle /\ UNCHANGED <<os, unit, running, bin, installOld, kept, hub, github, removed>>
        /\ I!Fault \/ I!NoFault
    BY <1>2, Zenon DEF I!PrintRemainingNotice, I!Kill, I!Become, I!NoFault
  <2> QED  BY <2>1, InstallFault, EndsStep, Zenon
<1>3. CASE I!Next /\ ~(I!PrintRemainingNotice \/ I!Kill)
  BY <1>3, ReleaseStep, ServiceStep, RunAgentInstallStep, InstallScriptStep, CheckStep, DownloadStep,
     VerifyChecksumStep, MoveAsideStep, ReplaceStep, RestartServiceStep, RunAgentUninstallStep,
     StopServiceStep, RemoveTargetsStep, SMTT(20) DEF I!Next
<1> QED  BY <1>1, <1>2, <1>3, Zenon

\* There is a binary to start whenever an update fails or is killed, for any systems,
\* releases and number of failures (selfupdate.Apply).
THEOREM InstallSafe == I!Spec => [](I!TypeOK /\ ABinaryRemains)
<1>1. I!Init => InstallInv
  BY InstallInit, Zenon
<1>2. InstallInv /\ [I!Next]_(I!vars) => InstallInv'
  BY InstallStep, Zenon DEF installVars, I!vars
<1>3. InstallInv => I!TypeOK /\ ABinaryRemains
  BY Zenon DEF InstallInv, InstallTypes, CmdType, I!TypeOK, I!Versions
<1> QED  BY <1>1, <1>2, <1>3, PTL DEF I!Spec

-----------------------------------------------------------------------------
(* PeerEndpoints.                                                          *)

CONSTANTS
  Peers, Self, TTL, PeersMaxMoves, MaxTime, MaxStarts

\* Bounds; the endpoints an old file may list for the agent itself are among those of the
\* model.
ASSUME PeersAssumption ==
  /\ TTL \in Nat /\ PeersMaxMoves \in Nat \ {0}
  /\ MaxTime \in Nat /\ MaxStarts \in Nat

VARIABLES
  truth, told, peersMoves, peersNow, starts, peersUp, hostmap, ownIP, file, boot, req

E == INSTANCE PeerEndpoints WITH
       MaxMoves <- PeersMaxMoves, moves <- peersMoves, now <- peersNow, up <- peersUp

peersVars == <<truth, told, peersMoves, peersNow, starts, peersUp, hostmap, ownIP, file,
               boot, req>>

\* What enters the hostmap is what the server said of that peer, and said
\* within the last 24 hours: the cache ages with the certificate, over any
\* number of restarts, merges and lost saves (peer_cache.go 40-44, 157-172),
\* and the agent's own address enters only from an old file, while the certificate
\* that holds it cannot be read (renew.go 394-402).
InjectedIsRecent == E!InjectedIsRecent

PeerEntry == [ep : E!Eps, at : 0..MaxTime]
PeerCache == [E!All -> PeerEntry]
Told == [E!All -> [E!Eps -> 0..MaxTime]]
Reader == [pc : {"idle", "answer", "save", "write"}, body : [E!All -> E!Eps], file : PeerCache]
Start == [pc : {"down", "load", "inject", "warm", "wait", "done"}, file : PeerCache]

PeersTypes ==
  /\ truth \in [E!All -> E!Eps] /\ peersMoves \in E!Eps /\ told \in Told
  /\ peersNow \in 0..MaxTime /\ starts \in 0..MaxStarts /\ peersUp \in BOOLEAN
  /\ hostmap \in [E!All -> E!Eps] /\ file \in PeerCache
  /\ boot \in Start /\ req \in [E!Readers -> Reader]

\* An entry is older than the last time the server said so, after k moves, with t as
\* the times and at time n.
SaidBy(p, e, k, t, n) ==
  p # Self /\ e.ep # 0 => e.ep <= k /\ e.at <= t[p][e.ep] /\ e.at <= n

\* The server has said so in this hour.
SaidNow(p, v, k, t, n) ==
  p # Self /\ v # 0 => v <= k /\ t[p][v] = n

ServerKnows ==
  /\ \A p \in E!All : truth[p] <= peersMoves
  /\ \A p \in E!All, v \in E!Eps : told[p][v] <= peersNow

FileSaid == \A p \in E!All : SaidBy(p, file[p], peersMoves, told, peersNow)

BootSaid ==
  boot.pc = "inject" =>
    \A p \in E!All : /\ SaidBy(p, boot.file[p], peersMoves, told, peersNow)
                     /\ boot.file[p].ep # 0 => boot.file[p].at + TTL >= peersNow

ReadersSaid ==
  \A r \in E!Readers :
    /\ req[r].pc \in {"answer", "save"} =>
         \A p \in E!All : SaidNow(p, req[r].body[p], peersMoves, told, peersNow)
    /\ req[r].pc = "write" =>
         \A p \in E!All : SaidBy(p, req[r].file[p], peersMoves, told, peersNow)

PeersInv == PeersTypes /\ ServerKnows /\ FileSaid /\ BootSaid /\ ReadersSaid

\* Entries that are not there.
LEMMA NothingTyped ==
  /\ E!NoEntry \in PeerEntry /\ E!Nothing \in PeerCache /\ E!Quiet \in Reader
  /\ 0 \in E!Eps /\ E!NoEntry.ep = 0 /\ \A p \in E!All : E!Nothing[p] = E!NoEntry
  /\ E!Quiet.pc = "idle"
<1>1. E!NoEntry \in PeerEntry /\ 0 \in E!Eps /\ E!NoEntry.ep = 0
  BY PeersAssumption DEF E!NoEntry, PeerEntry, E!Eps
<1>2. E!Nothing \in PeerCache /\ \A p \in E!All : E!Nothing[p] = E!NoEntry
  BY <1>1, Zenon DEF E!Nothing, PeerCache
<1>3. E!Quiet \in Reader /\ E!Quiet.pc = "idle"
  BY <1>1, <1>2, Zenon DEF E!Quiet, Reader
<1> QED  BY <1>1, <1>2, <1>3, Zenon

\* What was said stays said.
LEMMA StaysSaid ==
    ASSUME NEW p \in E!All, NEW e \in PeerEntry, NEW k \in E!Eps, NEW l \in E!Eps, NEW t \in Told, NEW u \in Told,
           NEW n \in 0..MaxTime, NEW z \in 0..MaxTime,
           k <= l, n <= z, \A v \in E!Eps : t[p][v] <= u[p][v], SaidBy(p, e, k, t, n)
    PROVE  SaidBy(p, e, l, u, z)
<1>1. e.ep \in E!Eps /\ e.at \in 0..MaxTime
  BY Zenon DEF PeerEntry
<1>2. t[p][e.ep] \in 0..MaxTime /\ u[p][e.ep] \in 0..MaxTime /\ t[p][e.ep] <= u[p][e.ep]
  BY <1>1, Zenon DEF Told
<1> QED  BY <1>1, <1>2, PeersAssumption DEF SaidBy, E!Eps

\* The invariant contains the type invariant of the module.
LEMMA PeersTypeOK == ASSUME PeersInv, ownIP \in BOOLEAN PROVE E!TypeOK
  BY Zenon DEF PeersInv, PeersTypes, E!TypeOK, PeerCache, PeerEntry, Told, Start, Reader

\* An agent that has never started.
LEMMA PeersInit == E!Init => PeersInv
<1> SUFFICES ASSUME E!Init PROVE PeersInv
  BY Zenon
<1>1. /\ 0 \in E!Eps /\ 1 \in E!Eps /\ 0 \in 0..MaxTime /\ 0 \in 0..MaxStarts
  BY PeersAssumption DEF E!Eps
<1>2. /\ truth = [p \in E!All |-> 0] /\ peersMoves = 0 /\ peersNow = 0 /\ starts = 0
      /\ told = [p \in E!All |-> [v \in E!Eps |-> 0]] /\ hostmap = [p \in E!All |-> 0]
      /\ boot = [pc |-> "down", file |-> E!Nothing] /\ req = [r \in E!Readers |-> E!Quiet]
      /\ file \in {E!Nothing, [E!Nothing EXCEPT ![Self] = [ep |-> 1, at |-> 0]]}
  BY Zenon DEF E!Init
<1>3. peersUp \in BOOLEAN
  BY Zenon DEF E!Init
<1>4. [ep |-> 1, at |-> 0] \in PeerEntry
  BY <1>1, Zenon DEF PeerEntry
<1>5. file \in PeerCache /\ \A p \in E!All : p # Self => file[p] = E!NoEntry
  BY <1>2, <1>4, NothingTyped, Zenon DEF PeerCache
<1>6. told \in Told /\ truth \in [E!All -> E!Eps] /\ hostmap \in [E!All -> E!Eps]
  BY <1>1, <1>2, Zenon DEF Told
<1>7. boot \in Start /\ req \in [E!Readers -> Reader] /\ \A r \in E!Readers : req[r].pc = "idle"
  BY <1>2, NothingTyped, Zenon DEF Start
<1>8. PeersTypes
  BY <1>1, <1>2, <1>3, <1>5, <1>6, <1>7, Zenon DEF PeersTypes
<1>9. ServerKnows
  BY <1>2 DEF ServerKnows
<1>10. FileSaid
  BY <1>5, NothingTyped, Zenon DEF FileSaid, SaidBy
<1>11. BootSaid /\ ReadersSaid
  BY <1>2, <1>7, Zenon DEF BootSaid, ReadersSaid
<1> QED  BY <1>8, <1>9, <1>10, <1>11, Zenon DEF PeersInv

\* Entries that are kept while time, moves and answers go on.
LEMMA Kept ==
    ASSUME PeersInv, PeersTypes', peersMoves <= peersMoves', peersNow <= peersNow',
           \A p \in E!All, v \in E!Eps : told[p][v] <= told'[p][v],
           NEW c \in PeerCache, \A p \in E!All : SaidBy(p, c[p], peersMoves, told, peersNow)
    PROVE  \A p \in E!All : SaidBy(p, c[p], peersMoves', told', peersNow')
<1> SUFFICES ASSUME NEW p \in E!All PROVE SaidBy(p, c[p], peersMoves', told', peersNow')
  BY Zenon
<1>1. c[p] \in PeerEntry
  BY Zenon DEF PeerCache
<1>2. /\ peersMoves \in E!Eps /\ peersMoves' \in E!Eps /\ told \in Told /\ told' \in Told
      /\ peersNow \in 0..MaxTime /\ peersNow' \in 0..MaxTime
  BY Zenon DEF PeersInv, PeersTypes
<1> QED  BY <1>1, <1>2, StaysSaid, Zenon

\* A peer moves or leaves.
LEMMA WorldStep == ASSUME PeersInv, NEW p \in Peers, E!Move(p) \/ E!Leave(p) PROVE PeersInv'
<1>1. UNCHANGED <<told, peersNow, starts, peersUp, hostmap, file, boot, req>>
  BY Zenon DEF E!Move, E!Leave
<1>2. p \in E!All /\ truth \in [E!All -> E!Eps] /\ peersMoves \in E!Eps /\ PeersMaxMoves \in Nat
  BY PeersAssumption, Zenon DEF E!All, PeersInv, PeersTypes
<1>3. PICK v \in E!Eps : truth' = [truth EXCEPT ![p] = v] /\ v <= peersMoves' /\ peersMoves' \in E!Eps /\ peersMoves <= peersMoves'
  <2>1. CASE E!Move(p)
    <3>1. truth' = [truth EXCEPT ![p] = peersMoves + 1] /\ peersMoves' = peersMoves + 1 /\ peersMoves < PeersMaxMoves
      BY <2>1, Zenon DEF E!Move
    <3>2. peersMoves + 1 \in E!Eps /\ peersMoves <= peersMoves + 1
      BY <1>2, <3>1 DEF E!Eps
    <3>3. peersMoves + 1 <= peersMoves + 1
      BY <1>2 DEF E!Eps
    <3> QED  BY <3>1, <3>2, <3>3, Zenon
  <2>2. CASE E!Leave(p)
    <3>1. truth' = [truth EXCEPT ![p] = 0] /\ peersMoves' = peersMoves
      BY <2>2, Zenon DEF E!Leave
    <3>2. 0 \in E!Eps /\ 0 <= peersMoves /\ peersMoves <= peersMoves
      BY <1>2 DEF E!Eps
    <3> QED  BY <1>2, <3>1, <3>2, Zenon
  <2> QED  BY <2>1, <2>2, Zenon
<1>4. PeersTypes'
  BY <1>1, <1>2, <1>3, Zenon DEF PeersInv, PeersTypes
<1>5. ServerKnows'
  BY <1>1, <1>2, <1>3 DEF PeersInv, ServerKnows, E!Eps
<1>6. \A x \in E!All, v1 \in E!Eps : told[x][v1] <= told'[x][v1]
  BY <1>1 DEF PeersInv, PeersTypes, Told
<1>7. peersNow <= peersNow' /\ file \in PeerCache /\ boot.file \in PeerCache
  BY <1>1 DEF PeersInv, PeersTypes, Start
<1>8. FileSaid'
  BY <1>1, <1>3, <1>4, <1>6, <1>7, Kept, Zenon DEF PeersInv, FileSaid
<1>9. BootSaid'
  <2>1. CASE boot.pc = "inject"
    BY <1>1, <1>3, <1>4, <1>6, <1>7, <2>1, Kept, Zenon DEF PeersInv, BootSaid
  <2>2. CASE boot.pc # "inject"
    BY <1>1, <2>2, Zenon DEF BootSaid
  <2> QED  BY <2>1, <2>2, Zenon
<1>10. ReadersSaid'
  <2> SUFFICES ASSUME NEW r \in E!Readers
               PROVE  /\ req[r].pc \in {"answer", "save"} =>
                           \A x \in E!All : SaidNow(x, req[r].body[x], peersMoves', told, peersNow)
                      /\ req[r].pc = "write" =>
                           \A x \in E!All : SaidBy(x, req[r].file[x], peersMoves', told, peersNow)
    BY <1>1, Zenon DEF ReadersSaid
  <2>1. req[r].file \in PeerCache /\ req[r].body \in [E!All -> E!Eps]
    BY Zenon DEF PeersInv, PeersTypes, Reader
  <2>2. CASE req[r].pc \in {"answer", "save"}
    <3>1. \A x \in E!All : SaidNow(x, req[r].body[x], peersMoves, told, peersNow)
      BY <2>2, Zenon DEF PeersInv, ReadersSaid
    <3> QED  BY <1>2, <1>3, <2>1, <2>2, <3>1 DEF SaidNow, E!Eps
  <2>3. CASE req[r].pc = "write"
    BY <1>1, <1>3, <1>4, <1>6, <1>7, <2>1, <2>3, Kept, Zenon DEF PeersInv, ReadersSaid
  <2> QED  BY <2>2, <2>3, Zenon
<1> QED  BY <1>4, <1>5, <1>8, <1>9, <1>10, Zenon DEF PeersInv

\* An hour passes, with nothing under way.
LEMMA HourStep == ASSUME PeersInv, E!Tick PROVE PeersInv'
<1>1. UNCHANGED <<truth, told, peersMoves, starts, peersUp, hostmap, file, boot, req>>
  BY Zenon DEF E!Tick
<1>2. peersNow' \in 0..MaxTime /\ peersNow \in 0..MaxTime /\ peersNow' = peersNow + 1
  BY PeersAssumption DEF E!Tick, PeersInv, PeersTypes
<1>3. boot.pc # "inject" /\ \A r \in E!Readers : req[r].pc = "idle"
  BY Zenon DEF E!Tick, E!Busy
<1>4. PeersTypes'
  BY <1>1, <1>2, Zenon DEF PeersInv, PeersTypes
<1>5. \A x \in E!All, v \in E!Eps : told[x][v] <= told'[x][v] /\ told[x][v] \in Int
  BY <1>1 DEF PeersInv, PeersTypes, Told
<1>6. peersNow <= peersNow' /\ peersMoves <= peersMoves' /\ file \in PeerCache
  BY <1>1, <1>2 DEF PeersInv, PeersTypes, E!Eps
<1>7. FileSaid'
  BY <1>1, <1>4, <1>5, <1>6, Kept, Zenon DEF PeersInv, FileSaid
<1>8. ServerKnows'
  BY <1>1, <1>2, <1>5 DEF PeersInv, ServerKnows
<1>9. BootSaid' /\ ReadersSaid'
  BY <1>1, <1>3, Zenon DEF BootSaid, ReadersSaid
<1> QED  BY <1>4, <1>7, <1>8, <1>9, Zenon DEF PeersInv

\* Only the start, the hostmap and what is under way change.
LEMMA SameSaid ==
    ASSUME PeersInv, UNCHANGED <<truth, told, peersMoves, peersNow>>, PeersTypes', UNCHANGED file, BootSaid', ReadersSaid'
    PROVE  PeersInv'
<1>1. FileSaid' /\ ServerKnows'
  BY Zenon DEF PeersInv, FileSaid, ServerKnows
<1> QED  BY <1>1, Zenon DEF PeersInv

\* What the start and the readers put into the hostmap.
LEMMA HostmapTyped ==
    ASSUME PeersInv, NEW eps \in [E!All -> E!Eps], NEW own PROVE E!ReplaceStaticHostMap(eps, own) \in [E!All -> E!Eps]
  BY Zenon DEF E!ReplaceStaticHostMap, PeersInv, PeersTypes

\* The steps of the start.
LEMMA BootStepOf ==
    ASSUME PeersInv, E!Start \/ E!LoadPeerCache \/ E!InjectCachedPeerEndpoints \/ E!Reload \/ E!WarmEnds
    PROVE  PeersInv'
<1>1. UNCHANGED <<truth, told, peersMoves, peersNow, file, req>>
  BY Zenon DEF E!Start, E!LoadPeerCache, E!InjectCachedPeerEndpoints, E!Reload, E!WarmEnds
<1>2. starts' \in 0..MaxStarts
  BY PeersAssumption DEF E!Start, E!LoadPeerCache, E!InjectCachedPeerEndpoints, E!Reload, E!WarmEnds, PeersInv, PeersTypes
<1>3. peersUp' \in BOOLEAN
  BY Zenon DEF E!Start, E!LoadPeerCache, E!InjectCachedPeerEndpoints, E!Reload, E!WarmEnds, PeersInv, PeersTypes
<1>4. hostmap' \in [E!All -> E!Eps]
  <2>1. [p \in E!All |-> 0] \in [E!All -> E!Eps]
    BY NothingTyped, Zenon
  <2>2. [p \in E!All |-> boot.file[p].ep] \in [E!All -> E!Eps]
    BY Zenon DEF PeersInv, PeersTypes, Start, PeerCache, PeerEntry
  <2>3. hostmap' \in {hostmap, [p \in E!All |-> 0], E!ReplaceStaticHostMap([p \in E!All |-> boot.file[p].ep], ownIP')}
    BY Zenon DEF E!Start, E!LoadPeerCache, E!InjectCachedPeerEndpoints, E!Reload, E!WarmEnds
  <2> QED  BY <2>1, <2>2, <2>3, HostmapTyped, Zenon DEF PeersInv, PeersTypes
<1>5. boot' \in Start /\ BootSaid'
  <2>1. CASE E!LoadPeerCache
    <3> DEFINE c == [p \in E!All |-> IF E!Fresh(file[p]) THEN file[p] ELSE E!NoEntry]
    <3>1. boot' = [pc |-> "inject", file |-> c]
      BY <2>1, Zenon DEF E!LoadPeerCache
    <3>2. c \in PeerCache
      BY NothingTyped, Zenon DEF PeersInv, PeersTypes, PeerCache
    <3>3. ASSUME NEW p \in E!All
          PROVE  SaidBy(p, c[p], peersMoves, told, peersNow) /\ (c[p].ep # 0 => c[p].at + TTL >= peersNow)
      BY NothingTyped, Zenon DEF PeersInv, FileSaid, SaidBy, E!Fresh
    <3> HIDE DEF c
    <3> QED  BY <1>1, <3>1, <3>2, <3>3, Zenon DEF BootSaid, Start
  <2>2. CASE ~E!LoadPeerCache
    <3>1. boot'.pc # "inject" /\ boot' \in Start
      BY <2>2, NothingTyped DEF E!Start, E!InjectCachedPeerEndpoints, E!Reload, E!WarmEnds, PeersInv, PeersTypes, Start
    <3> QED  BY <3>1, Zenon DEF BootSaid
  <2> QED  BY <2>1, <2>2, Zenon
<1>6. ReadersSaid'
  BY <1>1, Zenon DEF PeersInv, ReadersSaid
<1>7. PeersTypes'
  BY <1>1, <1>2, <1>3, <1>4, <1>5, Zenon DEF PeersInv, PeersTypes
<1> QED  BY <1>1, <1>5, <1>6, <1>7, SameSaid, Zenon

\* The agent stops.
LEMMA AgentStopsStep == ASSUME PeersInv, E!Stop PROVE PeersInv'
<1>1. UNCHANGED <<truth, told, peersMoves, peersNow, starts, file>>
  BY Zenon DEF E!Stop
<1>2. /\ boot' = [pc |-> "down", file |-> E!Nothing] /\ hostmap' = [p \in E!All |-> 0]
      /\ req' = [r \in E!Readers |-> E!Quiet]
  BY Zenon DEF E!Stop
<1>3. peersUp' \in BOOLEAN
  BY Zenon DEF E!Stop
<1>4. /\ boot' \in Start /\ hostmap' \in [E!All -> E!Eps] /\ req' \in [E!Readers -> Reader]
      /\ boot'.pc = "down" /\ \A r \in E!Readers : req'[r].pc = "idle"
  BY <1>2, NothingTyped, Zenon DEF Start
<1>5. BootSaid' /\ ReadersSaid'
  BY <1>4, Zenon DEF BootSaid, ReadersSaid
<1>6. PeersTypes'
  BY <1>1, <1>3, <1>4, Zenon DEF PeersInv, PeersTypes
<1> QED  BY <1>1, <1>5, <1>6, SameSaid, Zenon

\* The server answers: its view, told in this hour.
LEMMA ServerAnswersStep == ASSUME PeersInv, NEW r \in E!Readers, E!Answer(r) PROVE PeersInv'
<1>1. /\ UNCHANGED <<truth, peersMoves, peersNow, starts, peersUp, hostmap, file>>
      /\ told' = [p \in E!All |-> [told[p] EXCEPT ![truth[p]] = peersNow]]
      /\ req' = [req EXCEPT ![r].pc = "answer", ![r].body = truth]
      /\ boot' \in {boot, [boot EXCEPT !.pc = "wait"]}
  BY Zenon DEF E!Answer
<1>2. /\ truth \in [E!All -> E!Eps] /\ told \in Told /\ peersNow \in 0..MaxTime /\ peersMoves \in E!Eps /\ boot \in Start
      /\ req \in [E!Readers -> Reader]
  BY Zenon DEF PeersInv, PeersTypes
<1>3. boot' \in Start /\ boot'.file = boot.file /\ (boot'.pc = "inject" => boot.pc = "inject")
  BY <1>1, <1>2, Zenon DEF Start
<1>4. /\ req' \in [E!Readers -> Reader] /\ req'[r].pc = "answer" /\ req'[r].body = truth
      /\ \A x \in E!Readers : x # r => req'[x] = req[x]
  <2>1. req[r] \in Reader
    BY <1>2, Zenon
  <2>2. req'[r] = [req[r] EXCEPT !.pc = "answer", !.body = truth] /\ \A x \in E!Readers : x # r => req'[x] = req[x]
    BY <1>1, <1>2, Zenon
  <2>3. [req[r] EXCEPT !.pc = "answer", !.body = truth] \in Reader
    BY <1>2, <2>1, Zenon DEF Reader
  <2>4. req' \in [E!Readers -> Reader]
    BY <1>1, <1>2, <2>3, Zenon
  <2> QED  BY <2>1, <2>2, <2>4, Zenon DEF Reader
<1>5. told' \in Told
  BY <1>1, <1>2, Zenon DEF Told
<1>6. \A p \in E!All, v \in E!Eps : told'[p][v] = IF v = truth[p] THEN peersNow ELSE told[p][v]
  BY <1>1, <1>2, Zenon DEF Told
<1>7. \A p \in E!All, v \in E!Eps : told[p][v] <= told'[p][v] /\ told'[p][v] <= peersNow
  BY <1>2, <1>6 DEF PeersInv, ServerKnows, Told
<1>8. PeersTypes'
  BY <1>1, <1>3, <1>4, <1>5, Zenon DEF PeersInv, PeersTypes
<1>9. peersMoves <= peersMoves' /\ peersNow <= peersNow'
  BY <1>1, <1>2 DEF E!Eps
<1>10. ServerKnows'
  BY <1>1, <1>7 DEF PeersInv, ServerKnows
<1>11. FileSaid'
  BY <1>1, <1>7, <1>8, <1>9, Kept, Zenon DEF PeersInv, PeersTypes, FileSaid
<1>12. BootSaid'
  <2>1. CASE boot'.pc = "inject"
    <3>1. boot.file \in PeerCache /\ boot.pc = "inject"
      BY <1>2, <1>3, <2>1, Zenon DEF Start
    <3>2. \A p \in E!All : SaidBy(p, boot.file[p], peersMoves', told', peersNow')
      BY <1>7, <1>8, <1>9, <3>1, Kept, Zenon DEF PeersInv, BootSaid
    <3> QED  BY <1>1, <1>3, <3>1, <3>2, Zenon DEF PeersInv, BootSaid
  <2>2. CASE boot'.pc # "inject"
    BY <2>2, Zenon DEF BootSaid
  <2> QED  BY <2>1, <2>2, Zenon
<1>13. ReadersSaid'
  <2> SUFFICES ASSUME NEW x \in E!Readers
               PROVE  /\ req'[x].pc \in {"answer", "save"} =>
                           \A p \in E!All : SaidNow(p, req'[x].body[p], peersMoves', told', peersNow')
                      /\ req'[x].pc = "write" =>
                           \A p \in E!All : SaidBy(p, req'[x].file[p], peersMoves', told', peersNow')
    BY Zenon DEF ReadersSaid
  <2>1. CASE x = r
    BY <1>1, <1>2, <1>4, <1>6, <2>1 DEF SaidNow, PeersInv, ServerKnows
  <2>2. CASE x # r
    <3>1. req'[x] = req[x] /\ req[x].file \in PeerCache /\ req[x].body \in [E!All -> E!Eps]
      BY <1>2, <1>4, <2>2, Zenon DEF Reader
    <3>2. ASSUME req[x].pc \in {"answer", "save"}, NEW p \in E!All
          PROVE  SaidNow(p, req[x].body[p], peersMoves', told', peersNow')
      <4>1. SaidNow(p, req[x].body[p], peersMoves, told, peersNow)
        BY <3>2, Zenon DEF PeersInv, ReadersSaid
      <4> QED  BY <1>1, <1>6, <3>1, <4>1 DEF SaidNow
    <3>3. ASSUME req[x].pc = "write"
          PROVE  \A p \in E!All : SaidBy(p, req[x].file[p], peersMoves', told', peersNow')
      BY <1>7, <1>8, <1>9, <3>1, <3>3, Kept, Zenon DEF PeersInv, ReadersSaid
    <3> QED  BY <3>1, <3>2, <3>3, Zenon
  <2> QED  BY <2>1, <2>2, Zenon
<1> QED  BY <1>8, <1>10, <1>11, <1>12, <1>13, Zenon DEF PeersInv

\* A reader goes on with an answer.
LEMMA ReaderGoesOn ==
    ASSUME PeersInv, UNCHANGED <<truth, told, peersMoves, peersNow, starts, peersUp, boot>>,
           hostmap' \in [E!All -> E!Eps], file' \in PeerCache,
           NEW r \in E!Readers, NEW q \in Reader, req' = [req EXCEPT ![r] = q],
           q.pc = "save" => \A p \in E!All : SaidNow(p, q.body[p], peersMoves, told, peersNow),
           q.pc = "write" => \A p \in E!All : SaidBy(p, q.file[p], peersMoves, told, peersNow),
           q.pc # "answer", \A p \in E!All : SaidBy(p, file'[p], peersMoves, told, peersNow)
    PROVE  PeersInv'
<1>1. req \in [E!Readers -> Reader]
  BY Zenon DEF PeersInv, PeersTypes
<1>2. req' \in [E!Readers -> Reader] /\ req'[r] = q /\ \A x \in E!Readers : x # r => req'[x] = req[x]
  BY <1>1, Zenon
<1>3. PeersTypes'
  BY <1>2, Zenon DEF PeersInv, PeersTypes
<1>4. ServerKnows' /\ BootSaid' /\ FileSaid'
  BY Zenon DEF PeersInv, ServerKnows, BootSaid, FileSaid
<1>5. ReadersSaid'
  <2> SUFFICES ASSUME NEW x \in E!Readers
               PROVE  /\ req'[x].pc \in {"answer", "save"} =>
                           \A p \in E!All : SaidNow(p, req'[x].body[p], peersMoves, told, peersNow)
                      /\ req'[x].pc = "write" =>
                           \A p \in E!All : SaidBy(p, req'[x].file[p], peersMoves, told, peersNow)
    BY Zenon DEF ReadersSaid
  <2>1. CASE x = r
    BY <1>2, <2>1, Zenon
  <2>2. CASE x # r
    BY <1>2, <2>2, Zenon DEF PeersInv, ReadersSaid
  <2> QED  BY <2>1, <2>2, Zenon
<1> QED  BY <1>3, <1>4, <1>5, Zenon DEF PeersInv

\* The steps of a reader after the answer.
LEMMA ReaderStep ==
    ASSUME PeersInv, NEW r \in E!Readers, E!InjectPeerEndpoints(r) \/ E!SaveReads(r) \/ E!SaveWrites(r)
    PROVE  PeersInv'
<1>1. UNCHANGED <<truth, told, peersMoves, peersNow, starts, peersUp, boot>>
  BY Zenon DEF E!InjectPeerEndpoints, E!SaveReads, E!SaveWrites
<1>2. /\ req \in [E!Readers -> Reader] /\ req[r] \in Reader /\ hostmap \in [E!All -> E!Eps] /\ file \in PeerCache
      /\ peersNow \in 0..MaxTime
  BY Zenon DEF PeersInv, PeersTypes
<1>3. \A p \in E!All : SaidBy(p, file[p], peersMoves, told, peersNow)
  BY Zenon DEF PeersInv, FileSaid
<1>4. CASE E!InjectPeerEndpoints(r)
  <2>1. req[r].pc = "answer" /\ UNCHANGED file /\ hostmap' \in {hostmap, E!ReplaceStaticHostMap(req[r].body, ownIP')}
    BY <1>4, Zenon DEF E!InjectPeerEndpoints
  <2>2. hostmap' \in [E!All -> E!Eps]
    BY <1>2, <2>1, HostmapTyped DEF Reader
  <2>3. PICK k \in {"idle", "save"} : req' = [req EXCEPT ![r].pc = k]
    BY <1>4, Zenon DEF E!InjectPeerEndpoints
  <2>4. PICK q \in Reader : q = [req[r] EXCEPT !.pc = k]
    BY <1>2, Zenon DEF Reader
  <2>5. req' = [req EXCEPT ![r] = q] /\ q.pc = k /\ q.body = req[r].body
    BY <1>2, <2>3, <2>4, Zenon DEF Reader
  <2>6. \A p \in E!All : SaidNow(p, q.body[p], peersMoves, told, peersNow)
    BY <2>1, <2>5, Zenon DEF PeersInv, ReadersSaid
  <2>7. q.pc # "answer" /\ q.pc # "write" /\ \A p \in E!All : SaidBy(p, file'[p], peersMoves, told, peersNow)
    BY <1>3, <2>1, <2>5, Zenon
  <2> QED  BY <1>1, <1>2, <2>1, <2>2, <2>5, <2>6, <2>7, ReaderGoesOn, Zenon
<1>5. CASE E!SaveReads(r)
  <2> DEFINE c == E!Merge(file, req[r].body)
  <2>1. req[r].pc = "save" /\ UNCHANGED <<hostmap, file>> /\ req' = [req EXCEPT ![r].pc = "write", ![r].file = c]
    BY <1>5, Zenon DEF E!SaveReads
  <2>2. c \in PeerCache
    BY <1>2, Zenon DEF E!Merge, PeerCache, PeerEntry, Reader
  <2>3. ASSUME NEW p \in E!All PROVE SaidBy(p, c[p], peersMoves, told, peersNow)
    <3>1. SaidNow(p, req[r].body[p], peersMoves, told, peersNow)
      BY <2>1, Zenon DEF PeersInv, ReadersSaid
    <3>2. c[p] = IF req[r].body[p] # 0 THEN [ep |-> req[r].body[p], at |-> peersNow] ELSE file[p]
      BY Zenon DEF E!Merge
    <3> HIDE DEF c
    <3> QED  BY <1>2, <1>3, <3>1, <3>2 DEF SaidNow, SaidBy
  <2> HIDE DEF c
  <2>4. PICK q \in Reader : q = [req[r] EXCEPT !.pc = "write", !.file = c]
    BY <1>2, <2>2, Zenon DEF Reader
  <2>5. req' = [req EXCEPT ![r] = q] /\ q.pc = "write" /\ q.file = c
    BY <1>2, <2>1, <2>4, Zenon DEF Reader
  <2> QED  BY <1>1, <1>2, <1>3, <2>1, <2>3, <2>5, ReaderGoesOn, Zenon
<1>6. CASE E!SaveWrites(r)
  <2>1. /\ req[r].pc = "write" /\ UNCHANGED hostmap /\ file' \in {req[r].file, file, E!Nothing}
        /\ req' = [req EXCEPT ![r] = E!Quiet]
    BY <1>6, Zenon DEF E!SaveWrites
  <2>2. file' \in PeerCache
    BY <1>2, <2>1, NothingTyped, Zenon DEF Reader
  <2>3. ASSUME NEW p \in E!All PROVE SaidBy(p, file'[p], peersMoves, told, peersNow)
    <3>1. SaidBy(p, req[r].file[p], peersMoves, told, peersNow)
      BY <2>1, Zenon DEF PeersInv, ReadersSaid
    <3>2. SaidBy(p, E!Nothing[p], peersMoves, told, peersNow)
      BY NothingTyped, Zenon DEF SaidBy
    <3> QED  BY <1>3, <2>1, <3>1, <3>2, Zenon
  <2> QED  BY <1>1, <1>2, <2>1, <2>2, <2>3, NothingTyped, ReaderGoesOn, Zenon
<1> QED  BY <1>4, <1>5, <1>6, Zenon

\* Every step of the module, and none.
LEMMA PeersStep == PeersInv /\ [E!Next]_(E!vars) => PeersInv'
<1>1. ASSUME PeersInv, UNCHANGED E!vars PROVE PeersInv'
  BY <1>1, Zenon DEF E!vars, PeersInv, PeersTypes, ServerKnows, FileSaid, BootSaid, ReadersSaid
<1>2. ASSUME PeersInv, E!Next PROVE PeersInv'
  BY <1>2, WorldStep, HourStep, BootStepOf, AgentStopsStep, ServerAnswersStep, ReaderStep, Zenon DEF E!Next, E!Reads
<1> QED  BY <1>1, <1>2, Zenon

\* The invariant holds for any peers, moves, starts and time.
LEMMA PeersAlways == E!Spec => []PeersInv
  BY PeersInit, PeersStep, PTL DEF E!Spec

\* The types of the cache and of what is under way.
THEOREM PeersTyped == E!Spec => []E!TypeOK
<1>1. E!Init => ownIP \in BOOLEAN
  BY Zenon DEF E!Init
<1>2. ownIP \in BOOLEAN /\ [E!Next]_(E!vars) => (ownIP \in BOOLEAN)'
  <2>1. [E!Next]_(E!vars) => ownIP' \in {ownIP, TRUE, FALSE}
    BY Zenon DEF E!Next, E!Reads, E!Move, E!Leave, E!Tick, E!Start, E!LoadPeerCache, E!Reload, E!WarmEnds, E!Stop,
           E!InjectCachedPeerEndpoints, E!InjectPeerEndpoints, E!MeshIP, E!Answer, E!SaveReads, E!SaveWrites, E!vars
  <2> QED  BY <2>1, Zenon
<1> QED  BY <1>1, <1>2, PeersAlways, PeersTypeOK, PTL DEF E!Spec

\* What enters the hostmap: from the cache, and from an answer.
LEMMA Entering ==
    ASSUME PeersInv, E!Next, NEW p \in E!All, hostmap'[p] # hostmap[p], hostmap'[p] # 0
    PROVE  \/ p = Self /\ ~ownIP'
           \/ p # Self /\ hostmap'[p] <= peersMoves /\ told[p][hostmap'[p]] + TTL >= peersNow
<1>1. \/ E!InjectCachedPeerEndpoints
      \/ \E r \in E!Readers : E!InjectPeerEndpoints(r)
  BY Zenon DEF E!Next, E!Reads, E!Move, E!Leave, E!Tick, E!Start, E!LoadPeerCache, E!Reload, E!WarmEnds, E!Stop,
         E!Answer, E!SaveReads, E!SaveWrites
<1>2. told \in Told /\ peersNow \in 0..MaxTime /\ TTL \in Nat /\ peersMoves \in E!Eps
  BY PeersAssumption, Zenon DEF PeersInv, PeersTypes
<1>3. CASE E!InjectCachedPeerEndpoints
  <2>1. boot.pc = "inject" /\ hostmap' = E!ReplaceStaticHostMap([x \in E!All |-> boot.file[x].ep], ownIP')
    BY <1>3, Zenon DEF E!InjectCachedPeerEndpoints
  <2>2. ~(ownIP' /\ p = Self) /\ hostmap'[p] = boot.file[p].ep
    BY <2>1, Zenon DEF E!ReplaceStaticHostMap, E!AcceptPeerEndpoint
  <2>3. /\ SaidBy(p, boot.file[p], peersMoves, told, peersNow)
        /\ boot.file[p].ep # 0 => boot.file[p].at + TTL >= peersNow
    BY <2>1, Zenon DEF PeersInv, BootSaid
  <2>4. boot.file[p].ep \in E!Eps /\ boot.file[p].at \in 0..MaxTime
    BY Zenon DEF PeersInv, PeersTypes, Start, PeerCache, PeerEntry
  <2>5. told[p][boot.file[p].ep] \in 0..MaxTime
    BY <1>2, <2>4, Zenon DEF Told
  <2> QED  BY <1>2, <2>2, <2>3, <2>4, <2>5 DEF SaidBy
<1>4. ASSUME NEW r \in E!Readers, E!InjectPeerEndpoints(r)
      PROVE  \/ p = Self /\ ~ownIP'
             \/ p # Self /\ hostmap'[p] <= peersMoves /\ told[p][hostmap'[p]] + TTL >= peersNow
  <2>1. req[r].pc = "answer" /\ hostmap' \in {hostmap, E!ReplaceStaticHostMap(req[r].body, ownIP')}
    BY <1>4, Zenon DEF E!InjectPeerEndpoints
  <2>2. ~(ownIP' /\ p = Self) /\ hostmap'[p] = req[r].body[p]
    BY <2>1, Zenon DEF E!ReplaceStaticHostMap, E!AcceptPeerEndpoint
  <2>3. SaidNow(p, req[r].body[p], peersMoves, told, peersNow)
    BY <2>1, Zenon DEF PeersInv, ReadersSaid
  <2> QED  BY <1>2, <2>2, <2>3 DEF SaidNow
<1> QED  BY <1>1, <1>3, <1>4, Zenon

\* What enters the hostmap is what the server said of that peer within the TTL, for any
\* peers, TTL, moves, restarts and interleavings of the two readers and the start; the
\* agent's own address enters only while it is unknown (loadPeerCache, savePeerCache,
\* injectPeerEndpoints, acceptPeerEndpoint).
THEOREM PeersRecent == E!Spec => InjectedIsRecent
<1>1. PeersInv /\ [E!Next]_(E!vars) =>
        [\A p \in E!All :
           hostmap'[p] # hostmap[p] /\ hostmap'[p] # 0 =>
             \/ p = Self /\ ~ownIP'
             \/ /\ p # Self /\ hostmap'[p] <= peersMoves
                /\ told[p][hostmap'[p]] + TTL >= peersNow]_(E!vars)
  BY Entering, Zenon
<1> QED  BY <1>1, PeersAlways, PTL DEF E!Spec, InjectedIsRecent, E!InjectedIsRecent

-----------------------------------------------------------------------------
(* PathQuality.                                                            *)

CONSTANTS
  Rtts, MaxProbes

\* Times are numbers; a power of ten is positive.
ASSUME PathAssumption ==
  Rtts \subseteq Nat /\ MaxProbes \in Nat /\ 10 ^ MaxProbes \in Nat \ {0}

VARIABLES
  ewma, count, bad, down, lastLog, alarm, pathNow, hist

Y == INSTANCE PathQuality WITH
       now <- pathNow

pathVars == <<ewma, count, bad, down, lastLog, alarm, pathNow, hist>>

\* An alarm is never false: the last three probes that were made were all
\* answered, and each lay at least 50 ms above what the average was before
\* it.  So comparing with the average that already contains the sample
\* (path_quality.go 121-127) can only miss a degradation, not invent one.
AlarmIsReal == Y!AlarmIsReal

Probe == [ok : BOOLEAN, rtt : Nat, before : Nat, first : BOOLEAN]

\* An answered probe that lay 50 ms above the average before it.
High(p) ==
  p.ok /\ ~p.first /\ p.rtt * Y!Scale > p.before + Y!Threshold * Y!Scale

PathTypes ==
  /\ ewma \in Nat /\ count \in 0..pathNow /\ bad \in 0..count /\ down \in 0..pathNow
  /\ lastLog \in -1..pathNow /\ alarm \in BOOLEAN /\ pathNow \in 0..MaxProbes
  /\ hist \in Seq(Probe) /\ Len(hist) <= pathNow

\* The counter of concerning samples counts probes at the end of the history.
RowIsHigh ==
  /\ bad <= Len(hist)
  /\ \A j \in 1..Len(hist) : j > Len(hist) - bad => High(hist[j])

PathInv == PathTypes /\ RowIsHigh /\ (alarm => bad >= Y!Consecutive)

\* The scale of the averages.
LEMMA ScaleIsPositive == Y!Scale \in Nat \ {0}
  BY PathAssumption, Zenon DEF Y!Scale

\* A sample that lies 50 ms above the average with it lies 50 ms above the one before.
LEMMA AboveTheOld ==
    ASSUME NEW x \in Nat, NEW e \in Nat, NEW t \in Nat, x > (3 * x + 7 * e) \div 10 + t
    PROVE  x > e + t
<1>1. 10 * ((3 * x + 7 * e) \div 10) >= 3 * x + 7 * e - 9
  OBVIOUS
<1> QED  BY <1>1

\* A sample is never above the average it primes.
LEMMA NotTheFirst ==
    ASSUME PathInv, NEW rtt \in Nat, Y!Concerning(rtt)
    PROVE  count # 0 /\ rtt * Y!Scale > ewma + Y!Threshold * Y!Scale
<1> DEFINE x == rtt * Y!Scale
           t == Y!Threshold * Y!Scale
<1>1. x \in Nat /\ t \in Nat
  BY ScaleIsPositive DEF Y!Threshold
<1>2. x > Y!Fold(rtt) + t
  BY Zenon DEF Y!Concerning
<1>3. 3 * rtt * Y!Scale = 3 * x
  BY ScaleIsPositive
<1>4. Y!Fold(rtt) = IF count = 0 THEN x ELSE (3 * x + 7 * ewma) \div 10
  BY <1>3, Zenon DEF Y!Fold
<1>5. ewma \in Nat
  BY Zenon DEF PathInv, PathTypes
<1> HIDE DEF x, t
<1>6. count # 0
  BY <1>1, <1>2, <1>4
<1>7. x > ewma + t
  BY <1>1, <1>2, <1>4, <1>5, <1>6, AboveTheOld
<1> QED  BY <1>6, <1>7, Zenon DEF x, t

\* The average stays a number.
LEMMA FoldIsNat == ASSUME PathInv, NEW rtt \in Nat PROVE Y!Fold(rtt) \in Nat
<1> DEFINE x == rtt * Y!Scale
<1>1. x \in Nat /\ 3 * rtt * Y!Scale = 3 * x
  BY ScaleIsPositive
<1>2. ewma \in Nat
  BY Zenon DEF PathInv, PathTypes
<1>3. Y!Fold(rtt) = IF count = 0 THEN x ELSE (3 * x + 7 * ewma) \div 10
  BY <1>1, Zenon DEF Y!Fold
<1> HIDE DEF x
<1> QED  BY <1>1, <1>2, <1>3

\* The invariant contains the type invariant of the module and the property.
LEMMA PathSays == ASSUME PathInv PROVE Y!TypeOK /\ AlarmIsReal
<1>1. Y!TypeOK
  <2>1. count \in 0..MaxProbes
    BY PathAssumption DEF PathInv, PathTypes
  <2> QED  BY <2>1, Zenon DEF PathInv, PathTypes, Y!TypeOK
<1>2. ASSUME alarm PROVE Len(hist) >= 3 /\ \A j \in 1..3 : High(Y!Last3[j])
  <2>1. bad >= 3 /\ bad <= Len(hist) /\ hist \in Seq(Probe) /\ bad \in Int
    BY <1>2 DEF PathInv, PathTypes, RowIsHigh, Y!Consecutive
  <2>2. Len(hist) \in Nat /\ Len(hist) >= 3
    BY <2>1
  <2>3. ASSUME NEW j \in 1..3 PROVE Y!Last3[j] = hist[Len(hist) - 3 + j]
    BY <2>1, <2>2 DEF Y!Last3
  <2>4. ASSUME NEW j \in 1..3 PROVE High(hist[Len(hist) - 3 + j])
    BY <2>1, <2>2 DEF PathInv, RowIsHigh
  <2> QED  BY <2>2, <2>3, <2>4, Zenon
<1>3. AlarmIsReal
  BY <1>2, Zenon DEF AlarmIsReal, Y!AlarmIsReal, High, Y!Consecutive
<1> QED  BY <1>1, <1>3

\* A tracker without samples.
LEMMA PathInit == Y!Init => PathInv
<1> SUFFICES ASSUME Y!Init PROVE PathInv
  OBVIOUS
<1>1. alarm \in BOOLEAN /\ ~alarm
  BY Zenon DEF Y!Init
<1>2. /\ ewma \in Nat /\ count \in 0..pathNow /\ bad \in 0..count /\ down \in 0..pathNow
      /\ lastLog \in -1..pathNow /\ pathNow \in 0..MaxProbes
      /\ hist \in Seq(Probe) /\ Len(hist) <= pathNow /\ Len(hist) = 0 /\ bad = 0
  BY PathAssumption DEF Y!Init
<1> QED  BY <1>1, <1>2 DEF PathInv, PathTypes, RowIsHigh

\* An answer.
LEMMA SampleStep == ASSUME PathInv, NEW rtt \in Rtts, Y!RecordSample(rtt) PROVE PathInv'
<1> DEFINE p == [ok |-> TRUE, rtt |-> rtt, before |-> ewma, first |-> count = 0]
<1>1. rtt \in Nat
  BY PathAssumption, Zenon
<1>2. p \in Probe
  BY <1>1, Zenon DEF PathInv, PathTypes, Probe
<1>3. hist' = Append(hist, p)
  BY Zenon DEF Y!RecordSample
<1>4. Y!Concerning(rtt) => High(p)
  BY <1>1, NotTheFirst, Zenon DEF High
<1>5. /\ pathNow < MaxProbes /\ pathNow' = pathNow + 1 /\ ewma' = Y!Fold(rtt) /\ count' = count + 1 /\ down' = 0
      /\ bad' = (IF Y!Concerning(rtt) THEN bad + 1 ELSE 0)
  BY Zenon DEF Y!RecordSample, Y!BadAfter
<1>6. alarm' \in BOOLEAN /\ (alarm' => bad' >= Y!Consecutive)
  BY Zenon DEF Y!RecordSample
<1>7. lastLog' \in {pathNow, lastLog}
  BY Zenon DEF Y!RecordSample
<1>8. ewma' \in Nat
  BY <1>1, <1>5, FoldIsNat, Zenon
<1>9. MaxProbes \in Nat /\ hist \in Seq(Probe)
  BY PathAssumption, Zenon DEF PathInv, PathTypes
<1> HIDE DEF p
<1>10. /\ hist' \in Seq(Probe) /\ Len(hist') = Len(hist) + 1 /\ hist'[Len(hist) + 1] = p
       /\ \A j \in 1..Len(hist) : hist'[j] = hist[j]
  BY <1>2, <1>3, <1>9
<1>11. /\ count' \in 0..pathNow' /\ bad' \in 0..count' /\ down' \in 0..pathNow'
       /\ lastLog' \in -1..pathNow' /\ pathNow' \in 0..MaxProbes /\ Len(hist') <= pathNow'
  BY <1>5, <1>7, <1>9, <1>10 DEF PathInv, PathTypes
<1>12. RowIsHigh'
  <2>1. bad \in Nat /\ Len(hist) \in Nat /\ bad <= Len(hist)
    BY <1>9 DEF PathInv, PathTypes, RowIsHigh
  <2>2. bad' <= Len(hist') /\ (bad' = 0 \/ (Y!Concerning(rtt) /\ bad' = bad + 1))
    <3>1. CASE Y!Concerning(rtt)
      <4>1. bad' = bad + 1
        BY <1>5, <3>1, Zenon
      <4>2. bad' <= Len(hist')
        BY <1>10, <2>1, <4>1
      <4> QED  BY <3>1, <4>1, <4>2, Zenon
    <3>2. CASE ~Y!Concerning(rtt)
      <4>1. bad' = 0
        BY <1>5, <3>2, Zenon
      <4>2. bad' <= Len(hist')
        BY <1>10, <2>1, <4>1
      <4> QED  BY <4>1, <4>2, Zenon
    <3> QED  BY <3>1, <3>2, Zenon
  <2>3. ASSUME NEW j \in 1..Len(hist'), j > Len(hist') - bad' PROVE High(hist'[j])
    <3>1. Y!Concerning(rtt) /\ bad' = bad + 1
      BY <2>1, <2>2, <1>10, <2>3
    <3>2. CASE j = Len(hist) + 1
      BY <1>4, <1>10, <3>1, <3>2, Zenon
    <3>3. CASE j # Len(hist) + 1
      <4>1. j \in 1..Len(hist) /\ j > Len(hist) - bad
        BY <1>10, <2>1, <2>3, <3>1, <3>3
      <4> QED  BY <1>10, <4>1, Zenon DEF PathInv, RowIsHigh
    <3> QED  BY <3>2, <3>3, Zenon
  <2>4. \A j \in 1..Len(hist') : j > Len(hist') - bad' => High(hist'[j])
    BY <2>3, Zenon
  <2> QED  BY <2>2, <2>4, Zenon DEF RowIsHigh, High
<1>13. PathTypes'
  BY <1>6, <1>8, <1>10, <1>11, Zenon DEF PathTypes
<1> QED  BY <1>6, <1>12, <1>13, Zenon DEF PathInv, Y!Consecutive

\* A timeout, and a peer that is not probed.
LEMMA NoSampleStep == ASSUME PathInv, Y!RecordTimeout \/ Y!SkipPeer PROVE PathInv'
<1>1. /\ pathNow < MaxProbes /\ pathNow' = pathNow + 1 /\ UNCHANGED <<ewma, count, lastLog>>
      /\ down' \in {down, down + 1} /\ bad' \in {0, bad}
  BY Zenon DEF Y!RecordTimeout, Y!SkipPeer, Y!BadAfterTimeout
<1>2. alarm' \in BOOLEAN /\ ~alarm'
  BY Zenon DEF Y!RecordTimeout, Y!SkipPeer
<1>3. MaxProbes \in Nat /\ hist \in Seq(Probe) /\ ewma \in Nat
  BY PathAssumption, Zenon DEF PathInv, PathTypes
<1>4. \/ bad' = bad /\ hist' = hist
      \/ bad' = 0 /\ hist' \in Seq(Probe) /\ Len(hist') = Len(hist) + 1
  <2>1. CASE Y!SkipPeer
    BY <2>1, Zenon DEF Y!SkipPeer
  <2>2. CASE Y!RecordTimeout
    <3>1. [ok |-> FALSE, rtt |-> 0, before |-> ewma, first |-> FALSE] \in Probe
      BY <1>3, Zenon DEF Probe
    <3> QED  BY <1>3, <2>2, <3>1 DEF Y!RecordTimeout, Y!BadAfterTimeout
  <2> QED  BY <2>1, <2>2, Zenon
<1>5. /\ ewma' \in Nat /\ count' \in 0..pathNow' /\ bad' \in 0..count' /\ down' \in 0..pathNow'
      /\ lastLog' \in -1..pathNow' /\ pathNow' \in 0..MaxProbes /\ hist' \in Seq(Probe) /\ Len(hist') <= pathNow'
  BY <1>1, <1>3, <1>4 DEF PathInv, PathTypes
<1>6. PathTypes'
  BY <1>2, <1>5, Zenon DEF PathTypes
<1>7. RowIsHigh'
  <2>1. CASE bad' = bad /\ hist' = hist
    BY <2>1, Zenon DEF PathInv, RowIsHigh, High
  <2>2. CASE bad' = 0 /\ hist' \in Seq(Probe)
    BY <2>2 DEF RowIsHigh
  <2> QED  BY <1>4, <2>1, <2>2, Zenon
<1> QED  BY <1>2, <1>6, <1>7, Zenon DEF PathInv

\* No alarm is false, for any round-trip times and any number of probes (recordSample
\* compares with the average that already contains the sample).
THEOREM PathSafe == Y!Spec => [](Y!TypeOK /\ AlarmIsReal)
<1>1. Y!Init => PathInv
  BY PathInit
<1>2. PathInv /\ [Y!Next]_(Y!vars) => PathInv'
  <2>1. ASSUME PathInv, UNCHANGED Y!vars PROVE PathInv'
    BY <2>1, Zenon DEF Y!vars, PathInv, PathTypes, RowIsHigh, High
  <2>2. ASSUME PathInv, Y!Next PROVE PathInv'
    BY <2>2, SampleStep, NoSampleStep, Zenon DEF Y!Next
  <2> QED  BY <2>1, <2>2
<1>3. PathInv => Y!TypeOK /\ AlarmIsReal
  BY PathSays
<1> QED  BY <1>1, <1>2, <1>3, PTL DEF Y!Spec

LOCAL INSTANCE FiniteSetTheorems

-----------------------------------------------------------------------------
(* CertFiles.                                                              *)

CONSTANTS
  Loop, Forced, MaxSerial, FilesMaxReloads, FilesMaxFaults

\* There is a serial number; a forced renewal is not the loop.
ASSUME FilesAssumption ==
  /\ MaxSerial \in Nat \ {0} /\ FilesMaxReloads \in Nat /\ FilesMaxFaults \in Nat
  /\ Loop \notin Forced

VARIABLES
  filesFile, tmp, filesOld, w, svc, reloads, filesFaults

F == INSTANCE CertFiles WITH
       MaxReloads <- FilesMaxReloads, MaxFaults <- FilesMaxFaults, file <- filesFile,
       old <- filesOld, faults <- filesFaults

filesVars == <<filesFile, tmp, filesOld, w, svc, reloads, filesFaults>>

\* A renewal during which no other one wrote leaves a certificate with its key,
\* whatever pair and temporary files it found.
AloneWritesPair == F!AloneWritesPair

\* Nebula comes back with a valid certificate after failed writes, a certificate
\* left with another key, a crash and failed reloads: the loop replaces both
\* files once the certificate has expired.  It never replaces a node.crt that
\* cannot be parsed.
MeshRecovers == F!MeshRecovers

\* What a call of renewCert can rely on while no other one writes.
Own(x) ==
    /\ F!Writing(x) => w[x].s \in F!Serials
    /\ w[x].alone /\ (F!Writing(x) \/ w[x].pc = "reload") => \A y \in F!Writers \ {x} : ~F!Writing(y)
    /\ w[x].alone /\ w[x].pc = "fill" => w[x].fd = "tmp"
    /\ w[x].alone /\ w[x].pc = "rename" => tmp[w[x].f] = w[x].s
    /\ w[x].alone /\ F!Writing(x) /\ w[x].f = "key" => filesFile["crt"] = w[x].s
    /\ w[x].alone /\ w[x].pc = "reload" => F!Paired

FilesInv == F!TypeOK /\ \A x \in F!Writers : Own(x)

\* The calls that begin or have returned are calls.
LEMMA AtIsCall == F!At("idle") \in F!Calls /\ F!At("post") \in F!Calls
  BY Zenon DEF F!At, F!Call, F!Calls, F!Files

\* The invariant holds at first.
LEMMA FilesInit == F!Init => FilesInv
  <1> SUFFICES ASSUME F!Init PROVE FilesInv
    OBVIOUS
  <1>1. F!TypeOK
    <2>1. 1 \in F!Serials
      BY FilesAssumption DEF F!Serials
    <2>2. filesOld \in BOOLEAN
      BY Zenon DEF F!Init
    <2> QED
      BY <2>1, <2>2, AtIsCall, FilesAssumption, SMTT(20) DEF F!Init, F!TypeOK
  <1>2. ASSUME NEW x \in F!Writers PROVE Own(x)
    BY Zenon DEF F!Init, Own, F!Writing, F!At, F!Call
  <1> QED
    BY <1>1, <1>2, Zenon DEF FilesInv

\* A call that ends, or goes back to its request, disturbs nobody.
LEMMA Resting ==
    ASSUME FilesInv, F!TypeOK', UNCHANGED <<filesFile, tmp>>,
           \A x \in F!Writers : w'[x] = w[x] \/ w'[x] = F!At("idle") \/ w'[x] = F!At("post")
    PROVE  FilesInv'
  <1>1. ASSUME NEW x \in F!Writers PROVE F!Writing(x)' => F!Writing(x)
    BY DEF F!Writing, F!At, F!Call
  <1>2. ASSUME NEW x \in F!Writers PROVE Own(x)'
    <2>1. CASE w'[x] = w[x]
      BY <2>1, <1>1, SMTT(20) DEF FilesInv, Own, F!Writing, F!Paired
    <2>2. CASE w'[x] = F!At("idle") \/ w'[x] = F!At("post")
      BY <2>2 DEF Own, F!Writing, F!At, F!Call
    <2> QED
      BY <2>1, <2>2, Zenon
  <1> QED
    BY <1>2, Zenon DEF FilesInv

\* renewCert gives up.
LEMMA ReturnErrorStep ==
    ASSUME FilesInv, NEW x \in F!Writers, F!ReturnError(x), UNCHANGED <<filesFile, tmp, filesOld, svc, reloads, filesFaults>>
    PROVE  FilesInv'
  <1>1. PICK c \in {F!At("idle"), F!At("post")} : w' = [w EXCEPT ![x] = c]
    BY Zenon DEF F!ReturnError, F!Become
  <1>2. F!TypeOK'
    BY <1>1, AtIsCall, Zenon DEF FilesInv, F!TypeOK
  <1>3. \A y \in F!Writers : w'[y] = w[y] \/ w'[y] = F!At("idle") \/ w'[y] = F!At("post")
    BY <1>1, Zenon DEF FilesInv, F!TypeOK
  <1> QED
    BY <1>2, <1>3, Resting, Zenon

\* The steps of renewCert that write nothing.
LEMMA FilesQuietStep ==
    ASSUME FilesInv, NEW x \in F!Writers,
           \/ F!RunCertRenewal \/ F!ForceRenew(x) \/ F!RenewFails(x) \/ F!WriteFileFails(x)
           \/ F!RenameFails(x) \/ F!ReloadNebula(x) \/ F!ReloadNebulaFails(x)
    PROVE  FilesInv'
  <1>1. CASE F!RenewFails(x) \/ F!WriteFileFails(x) \/ F!RenameFails(x)
    BY <1>1, ReturnErrorStep, Zenon DEF F!RenewFails, F!WriteFileFails, F!RenameFails
  <1>2. CASE F!RunCertRenewal \/ F!ForceRenew(x) \/ F!ReloadNebula(x) \/ F!ReloadNebulaFails(x)
    <2>1. PICK y \in F!Writers, c \in {F!At("idle"), F!At("post")} : w' = [w EXCEPT ![y] = c]
      BY <1>2, Zenon DEF F!RunCertRenewal, F!ForceRenew, F!ReloadNebula, F!ReloadNebulaFails, F!Become, F!Writers
    <2>2. w' \in [F!Writers -> F!Calls]
      BY <2>1, AtIsCall, Zenon DEF FilesInv, F!TypeOK
    <2>3. UNCHANGED <<filesFile, tmp, filesOld>>
      BY <1>2, Zenon DEF F!RunCertRenewal, F!ForceRenew, F!ReloadNebula, F!ReloadNebulaFails
    <2>4. svc' \in {"valid", "expired", "down"} /\ reloads' \in 0..FilesMaxReloads /\ filesFaults' \in 0..FilesMaxFaults
      BY <1>2, FilesAssumption DEF F!RunCertRenewal, F!ForceRenew, F!ReloadNebula, F!ReloadNebulaFails, F!Loaded, FilesInv, F!TypeOK
    <2>5. F!TypeOK'
      BY <2>2, <2>3, <2>4, Zenon DEF FilesInv, F!TypeOK
    <2>6. \A z \in F!Writers : w'[z] = w[z] \/ w'[z] = F!At("idle") \/ w'[z] = F!At("post")
      BY <2>1, Zenon DEF FilesInv, F!TypeOK
    <2> QED
      BY <2>3, <2>5, <2>6, Resting, Zenon
  <1> QED
    BY <1>1, <1>2, Zenon

\* What happens to the files without a renewal.
LEMMA OutsideStep == ASSUME FilesInv, F!RetryReload \/ F!Expire \/ F!Crash PROVE FilesInv'
  <1>1. UNCHANGED <<filesFile, tmp>>
    BY Zenon DEF F!RetryReload, F!Expire, F!Crash
  <1>2. w' \in [F!Writers -> F!Calls] /\ \A z \in F!Writers : w'[z] = w[z] \/ w'[z] = F!At("idle")
    BY AtIsCall, Zenon DEF F!RetryReload, F!Expire, F!Crash, FilesInv, F!TypeOK
  <1>3. filesOld' \in BOOLEAN /\ svc' \in {"valid", "expired", "down"}
    BY Zenon DEF F!RetryReload, F!Expire, F!Crash, F!Loaded, FilesInv, F!TypeOK
  <1>4. reloads' \in 0..FilesMaxReloads /\ filesFaults' \in 0..FilesMaxFaults
    BY FilesAssumption DEF F!RetryReload, F!Expire, F!Crash, FilesInv, F!TypeOK
  <1>5. F!TypeOK'
    BY <1>1, <1>2, <1>3, <1>4, Zenon DEF FilesInv, F!TypeOK
  <1> QED
    BY <1>1, <1>2, <1>5, Resting, Zenon

\* The module's own instance of Cardinality.
LEMMA FilesCardinality == \A X : F!Cardinality(X) = Cardinality(X)
  BY Zenon DEF F!Cardinality, Cardinality

\* There are finitely many certificates in use, and numbers for all of them.
LEMMA LiveFinite ==
    /\ IsFiniteSet(F!Serials) /\ IsFiniteSet(F!Live)
    /\ Cardinality(F!Live) \in 0..MaxSerial
  <1>1. IsFiniteSet(1..MaxSerial) /\ Cardinality(1..MaxSerial) = MaxSerial
    BY FS_Interval, FilesAssumption
  <1>2. F!Live \in SUBSET (1..MaxSerial)
    BY Zenon DEF F!Live, F!Serials
  <1>3. IsFiniteSet(F!Live) /\ Cardinality(F!Live) <= MaxSerial
    BY <1>1, <1>2, FS_Subset, Zenon
  <1>4. Cardinality(F!Live) \in Nat
    BY <1>3, FS_CardinalityType, Zenon
  <1> QED
    BY <1>1, <1>3, <1>4, FilesAssumption, SMTT(20) DEF F!Serials

\* A certificate in use is renumbered with a number, everything else is left alone.
LEMMA RankTyped ==
    ASSUME NEW s
    PROVE  IF s \in F!Live THEN F!Rank(s) \in 1..Cardinality(F!Live) ELSE F!Rank(s) = s
  <1>1. CASE s \in F!Live
    <2> DEFINE T == {t \in F!Live : t <= s}
    <2>1. T \in SUBSET F!Live /\ T # {}
      BY <1>1 DEF F!Live, F!Serials
    <2>2. IsFiniteSet(T) /\ Cardinality(T) <= Cardinality(F!Live)
      BY <2>1, LiveFinite, FS_Subset, Zenon
    <2>3. Cardinality(T) \in Nat /\ Cardinality(T) # 0
      BY <2>1, <2>2, FS_CardinalityType, FS_EmptySet, Zenon
    <2>4. F!Rank(s) = Cardinality(T)
      BY <1>1, FilesCardinality, Zenon DEF F!Rank
    <2> HIDE DEF T
    <2> QED
      BY <1>1, <2>2, <2>3, <2>4, LiveFinite, SMTT(20)
  <1>2. CASE s \notin F!Live
    BY <1>2, Zenon DEF F!Rank
  <1> QED
    BY <1>1, <1>2, Zenon

\* Different certificates get different numbers, which the new one has not.
LEMMA RankKeepsApart ==
    ASSUME NEW s \in F!Live, NEW t \in F!Live
    PROVE  (F!Rank(s) = F!Rank(t) => s = t) /\ F!Rank(s) # F!Newest
  <1>1. ASSUME NEW a \in F!Live, NEW b \in F!Live, a < b PROVE F!Rank(a) # F!Rank(b)
    <2> DEFINE A == {u \in F!Live : u <= a}
               B == {u \in F!Live : u <= b}
    <2>1. A \in SUBSET B /\ b \in B /\ b \notin A /\ B \in SUBSET F!Live
      BY <1>1 DEF F!Live, F!Serials
    <2>2. F!Rank(a) = Cardinality(A) /\ F!Rank(b) = Cardinality(B)
      BY FilesCardinality, Zenon DEF F!Rank
    <2> HIDE DEF A, B
    <2>3. IsFiniteSet(B)
      BY <2>1, LiveFinite, FS_Subset, Zenon
    <2>4. Cardinality(B) = Cardinality(A) => B = A
      BY <2>1, <2>3, FS_Subset, Zenon
    <2> QED
      BY <2>1, <2>2, <2>4, Zenon
  <1>2. s \in Int /\ t \in Int
    BY DEF F!Live, F!Serials
  <1>3. s = t \/ s < t \/ t < s
    BY <1>2
  <1>4. F!Rank(s) # F!Newest
    <2>1. F!Newest = Cardinality(F!Live) + 1
      BY FilesCardinality, Zenon DEF F!Newest
    <2>2. F!Rank(s) \in 1..Cardinality(F!Live)
      BY RankTyped, Zenon
    <2> QED
      BY <2>1, <2>2, LiveFinite, SMTT(20)
  <1> QED
    BY <1>1, <1>3, <1>4, Zenon

\* The renumbering keeps the types.
LEMMA RankedTyped ==
    ASSUME F!TypeOK
    PROVE  /\ \A f \in F!Files : F!Rank(filesFile[f]) \in F!Serials \cup {F!Junk}
           /\ \A f \in F!Files : F!Rank(tmp[f]) \in F!Serials \cup {F!Junk, F!None}
           /\ \A y \in F!Writers : F!Rank(w[y].s) \in F!Serials \cup {F!None}
           /\ \A y \in F!Writers : w[y].s \in F!Serials => F!Rank(w[y].s) \in F!Serials
  <1>1. \A s : IF s \in F!Live THEN F!Rank(s) \in F!Serials ELSE F!Rank(s) = s
    <2> TAKE s
    <2>1. IF s \in F!Live THEN F!Rank(s) \in 1..Cardinality(F!Live) ELSE F!Rank(s) = s
      BY RankTyped, Zenon
    <2> QED
      BY <2>1, LiveFinite, FilesAssumption, SMTT(20) DEF F!Serials
  <1>2. \A y \in F!Writers : w[y].s \in F!Serials \cup {F!None} /\ (w[y].s \in F!Serials => w[y].s \in F!Live)
    BY Zenon DEF F!TypeOK, F!Calls, F!Live
  <1>3. /\ \A f \in F!Files : filesFile[f] \in F!Serials \cup {F!Junk}
        /\ \A f \in F!Files : tmp[f] \in F!Serials \cup {F!Junk, F!None}
    BY Zenon DEF F!TypeOK
  <1>4. \A f \in F!Files : /\ filesFile[f] \in F!Serials => filesFile[f] \in F!Live
                           /\ tmp[f] \in F!Serials => tmp[f] \in F!Live
    BY Zenon DEF F!Live
  <1> QED
    BY <1>1, <1>2, <1>3, <1>4, Zenon

\* A renewal has the answer of the server and begins to write.
LEMMA RenewStep == ASSUME FilesInv, NEW x \in F!Writers, F!Renew(x) PROVE FilesInv'
  <1>1. PICK s \in F!Serials :
          w' = [y \in F!Writers |->
                  IF y = x THEN F!Call("open", "crt", s, "none", \A z \in F!Writers : ~F!Writing(z))
                  ELSE [w[y] EXCEPT !.s = F!Rank(@), !.alone = w[y].pc \in {"idle", "post"}]]
    <2>1. F!Newest \in F!Serials
      <3>1. F!Newest = Cardinality(F!Live) + 1 /\ Cardinality(F!Live) < MaxSerial
        BY FilesCardinality, Zenon DEF F!Newest, F!Renew
      <3> QED
        BY <3>1, LiveFinite, FilesAssumption, SMTT(20) DEF F!Serials
    <2> QED
      BY <2>1, Zenon DEF F!Renew
  <1>2. /\ filesFile' = [f \in F!Files |-> F!Rank(filesFile[f])]
        /\ tmp' = [f \in F!Files |-> F!Rank(tmp[f])]
        /\ UNCHANGED <<filesOld, svc, reloads, filesFaults>>
    BY Zenon DEF F!Renew
  <1>t. F!TypeOK /\ w \in [F!Writers -> F!Calls]
    BY Zenon DEF FilesInv, F!TypeOK
  <1>a. ASSUME NEW y \in F!Writers, y # x
        PROVE  /\ w'[y] \in F!Calls
               /\ w'[y].pc = w[y].pc /\ w'[y].alone = (w[y].pc \in {"idle", "post"})
               /\ w[y].s \in F!Serials => w'[y].s \in F!Serials
    <2> DEFINE a == w[y].pc \in {"idle", "post"}
               r == F!Rank(w[y].s)
    <2>1. w'[y] = [w[y] EXCEPT !.s = r, !.alone = a]
      BY <1>1, <1>a, Zenon
    <2>2. r \in F!Serials \cup {F!None} /\ (w[y].s \in F!Serials => r \in F!Serials)
      BY <1>t, RankedTyped
    <2>6. a \in BOOLEAN
      OBVIOUS
    <2>3. w[y] \in F!Calls
      BY <1>t, Zenon
    <2>4. a = (w[y].pc \in {"idle", "post"})
      OBVIOUS
    <2> HIDE DEF a, r
    <2>5. w'[y] \in F!Calls /\ w'[y].pc = w[y].pc /\ w'[y].alone = a /\ w'[y].s = r
      BY <2>1, <2>2, <2>3, <2>6, Zenon DEF F!Calls
    <2> QED
      BY <2>2, <2>4, <2>5, Zenon
  <1>b. /\ w'[x] \in F!Calls /\ w'[x].pc = "open" /\ w'[x].f = "crt" /\ w'[x].s = s
        /\ w'[x].alone = (\A z \in F!Writers : ~F!Writing(z))
    <2>1. PICK a \in BOOLEAN : a = (\A z \in F!Writers : ~F!Writing(z)) /\ w'[x] = F!Call("open", "crt", s, "none", a)
      BY <1>1, Zenon
    <2>2. w'[x] \in F!Calls /\ w'[x].pc = "open" /\ w'[x].f = "crt" /\ w'[x].s = s /\ w'[x].alone = a
      BY <2>1 DEF F!Calls, F!Call, F!Files
    <2> QED
      BY <2>1, <2>2, Zenon
  <1>3. F!TypeOK'
    <2>1. w' \in [F!Writers -> F!Calls]
      BY <1>1, <1>a, <1>b, Zenon
    <2>2. filesFile' \in [F!Files -> F!Serials \cup {F!Junk}] /\ tmp' \in [F!Files -> F!Serials \cup {F!Junk, F!None}]
      BY <1>2, <1>t, RankedTyped, Zenon
    <2> QED
      BY <1>2, <2>1, <2>2, Zenon DEF FilesInv, F!TypeOK
  <1>4. ASSUME NEW y \in F!Writers, y # x PROVE Own(y)'
    BY <1>a, <1>4, Zenon DEF FilesInv, Own, F!Writing
  <1>5. Own(x)'
    <2>1. ASSUME NEW y \in F!Writers \ {x} PROVE F!Writing(y)' = F!Writing(y)
      BY <1>a, Zenon DEF F!Writing
    <2> QED
      BY <1>b, <2>1, Zenon DEF Own, F!Writing
  <1> QED
    BY <1>3, <1>4, <1>5, Zenon DEF FilesInv

\* A step of a writing call: the others are not alone, or do not need to be.
LEMMA OthersNotAlone ==
    ASSUME FilesInv, NEW x \in F!Writers, F!Writing(x), NEW y \in F!Writers, y # x,
           F!Writing(y) \/ w[y].pc = "reload"
    PROVE  ~w[y].alone
  BY Zenon DEF FilesInv, Own

\* The temporary file is opened.
LEMMA WriteFileOpenStep == ASSUME FilesInv, NEW x \in F!Writers, F!WriteFileOpen(x) PROVE FilesInv'
  <1>1. F!Writing(x) /\ w[x].pc = "open"
    BY Zenon DEF F!WriteFileOpen, F!Writing
  <1>2. /\ w' = [w EXCEPT ![x] = F!Call("fill", w[x].f, w[x].s, "tmp", w[x].alone)]
        /\ tmp' = [tmp EXCEPT ![w[x].f] = F!Junk]
        /\ UNCHANGED <<filesFile, filesOld, svc, reloads, filesFaults>>
    BY Zenon DEF F!WriteFileOpen, F!Become
  <1>3. F!TypeOK'
    <2>1. F!Call("fill", w[x].f, w[x].s, "tmp", w[x].alone) \in F!Calls
      BY Zenon DEF FilesInv, F!TypeOK, F!Calls, F!Call
    <2>2. tmp' \in [F!Files -> F!Serials \cup {F!Junk, F!None}]
      BY <1>2, Zenon DEF FilesInv, F!TypeOK, F!Calls
    <2> QED
      BY <1>2, <2>1, <2>2, Zenon DEF FilesInv, F!TypeOK
  <1>4. ASSUME NEW y \in F!Writers, y # x PROVE w'[y] = w[y] /\ Own(y)'
    <2>1. w'[y] = w[y]
      BY <1>2, <1>4, Zenon DEF FilesInv, F!TypeOK
    <2>2. F!Writing(y) \/ w[y].pc = "reload" => ~w[y].alone
      BY <1>1, <1>4, OthersNotAlone, Zenon
    <2> QED
      BY <2>1, <2>2, Zenon DEF FilesInv, Own, F!Writing
  <1>5. w'[x] = F!Call("fill", w[x].f, w[x].s, "tmp", w[x].alone)
    BY <1>2, Zenon DEF FilesInv, F!TypeOK
  <1>6. Own(x)'
    <2>1. /\ w'[x].pc = "fill" /\ w'[x].f = w[x].f /\ w'[x].s = w[x].s /\ w'[x].alone = w[x].alone
          /\ w'[x].fd = "tmp"
      BY <1>5, SMTT(20) DEF F!Call
    <2>w. F!Writing(x)'
      BY <2>1, Zenon DEF F!Writing
    <2>2. \A y \in F!Writers \ {x} : F!Writing(y)' = F!Writing(y)
      BY <1>4, Zenon DEF F!Writing
    <2>3. w[x].alone => \A y \in F!Writers \ {x} : ~F!Writing(y)
      BY <1>1, Zenon DEF FilesInv, Own
    <2>4. w[x].s \in F!Serials /\ (w[x].alone /\ w[x].f = "key" => filesFile["crt"] = w[x].s)
      BY <1>1, Zenon DEF FilesInv, Own
    <2> QED
      BY <1>2, <2>1, <2>w, <2>2, <2>3, <2>4, Zenon DEF Own
  <1> QED
    BY <1>3, <1>4, <1>6, Zenon DEF FilesInv

\* It is written, or the write fails.
LEMMA WriteFileStep == ASSUME FilesInv, NEW x \in F!Writers, F!WriteFile(x) PROVE FilesInv'
  <1>1. F!Writing(x) /\ w[x].pc = "fill" /\ w[x].s \in F!Serials /\ w[x].f \in F!Files
    BY Zenon DEF F!WriteFile, F!Writing, FilesInv, Own, F!TypeOK, F!Calls
  <1>2. /\ w' = [w EXCEPT ![x] = F!Call("rename", w[x].f, w[x].s, "none", w[x].alone)]
        /\ tmp' = IF w[x].fd = "tmp" THEN [tmp EXCEPT ![w[x].f] = w[x].s] ELSE tmp
        /\ filesFile' = IF w[x].fd = "file" THEN [filesFile EXCEPT ![w[x].f] = w[x].s] ELSE filesFile
        /\ UNCHANGED <<svc, reloads, filesFaults>>
    BY Zenon DEF F!WriteFile, F!Become
  <1>3. F!TypeOK'
    <2>1. F!Call("rename", w[x].f, w[x].s, "none", w[x].alone) \in F!Calls
      BY Zenon DEF FilesInv, F!TypeOK, F!Calls, F!Call
    <2>2. tmp' \in [F!Files -> F!Serials \cup {F!Junk, F!None}] /\ filesFile' \in [F!Files -> F!Serials \cup {F!Junk}]
      BY <1>1, <1>2, Zenon DEF FilesInv, F!TypeOK
    <2>3. filesOld' \in BOOLEAN
      BY ZenonT(40) DEF F!WriteFile
    <2> QED
      BY <1>2, <2>1, <2>2, <2>3, Zenon DEF FilesInv, F!TypeOK
  <1>4. ASSUME NEW y \in F!Writers, y # x PROVE w'[y] = w[y] /\ Own(y)'
    <2>1. w'[y] = w[y]
      BY <1>2, <1>4, Zenon DEF FilesInv, F!TypeOK
    <2>2. F!Writing(y) \/ w[y].pc = "reload" => ~w[y].alone
      BY <1>1, <1>4, OthersNotAlone, Zenon
    <2> QED
      BY <2>1, <2>2 DEF FilesInv, Own, F!Writing
  <1>5. w'[x] = F!Call("rename", w[x].f, w[x].s, "none", w[x].alone)
    BY <1>2, Zenon DEF FilesInv, F!TypeOK
  <1>6. w[x].alone => w[x].fd = "tmp" /\ filesFile' = filesFile /\ tmp'[w[x].f] = w[x].s
    BY <1>1, <1>2, ZenonT(40) DEF FilesInv, Own, F!TypeOK
  <1>7. Own(x)'
    <2>1. /\ w'[x].pc = "rename" /\ w'[x].f = w[x].f /\ w'[x].s = w[x].s /\ w'[x].alone = w[x].alone
      BY <1>5, SMTT(20) DEF F!Call
    <2>w. F!Writing(x)'
      BY <2>1, Zenon DEF F!Writing
    <2>2. \A y \in F!Writers \ {x} : F!Writing(y)' = F!Writing(y)
      BY <1>4, Zenon DEF F!Writing
    <2>3. w[x].alone => \A y \in F!Writers \ {x} : ~F!Writing(y)
      BY <1>1, Zenon DEF FilesInv, Own
    <2>4. w[x].alone /\ w[x].f = "key" => filesFile["crt"] = w[x].s
      BY <1>1, Zenon DEF FilesInv, Own
    <2> QED
      BY <1>1, <1>6, <2>1, <2>w, <2>2, <2>3, <2>4, Zenon DEF Own
  <1> QED
    BY <1>3, <1>4, <1>7, Zenon DEF FilesInv

\* It takes the place of the file.
LEMMA RenameStep == ASSUME FilesInv, NEW x \in F!Writers, F!Rename(x) PROVE FilesInv'
  <1>1. F!Writing(x) /\ w[x].pc = "rename" /\ w[x].s \in F!Serials /\ w[x].f \in F!Files
    BY Zenon DEF F!Rename, F!Writing, FilesInv, Own, F!TypeOK, F!Calls
  <1>2. /\ w' = [y \in F!Writers |-> IF y = x THEN F!Then(w[x]) ELSE F!Moved(y, w[x].f)]
        /\ tmp' = [tmp EXCEPT ![w[x].f] = F!None]
        /\ filesFile' = [filesFile EXCEPT ![w[x].f] = tmp[w[x].f]]
        /\ tmp[w[x].f] \in F!Serials \cup {F!Junk}
        /\ UNCHANGED <<svc, reloads, filesFaults>>
    BY <1>1, Zenon DEF F!Rename, FilesInv, F!TypeOK
  <1>3. ASSUME NEW y \in F!Writers, y # x
        PROVE  /\ w'[y] \in F!Calls
               /\ \A n \in {"pc", "f", "s", "alone"} : w'[y][n] = w[y][n]
    <2>1. w'[y] = F!Moved(y, w[x].f)
      BY <1>2, <1>3, Zenon
    <2> QED
      BY <2>1 DEF F!Moved, FilesInv, F!TypeOK, F!Calls
  <1>4. F!TypeOK'
    <2>1. F!Then(w[x]) \in F!Calls
      BY Zenon DEF F!Then, FilesInv, F!TypeOK, F!Calls, F!Call, F!Files
    <2>2. w' \in [F!Writers -> F!Calls]
      BY <1>2, <1>3, <2>1, Zenon
    <2>3. tmp' \in [F!Files -> F!Serials \cup {F!Junk, F!None}] /\ filesFile' \in [F!Files -> F!Serials \cup {F!Junk}]
      BY <1>1, <1>2, Zenon DEF FilesInv, F!TypeOK
    <2>4. filesOld' \in BOOLEAN
      BY Zenon DEF F!Rename
    <2> QED
      BY <1>2, <2>2, <2>3, <2>4, Zenon DEF FilesInv, F!TypeOK
  <1>5. ASSUME NEW y \in F!Writers, y # x PROVE Own(y)'
    <2>1. F!Writing(y) \/ w[y].pc = "reload" => ~w[y].alone
      BY <1>1, <1>5, OthersNotAlone, Zenon
    <2>2. w'[y].pc = w[y].pc /\ w'[y].s = w[y].s /\ w'[y].alone = w[y].alone
      BY <1>3, <1>5, Zenon
    <2> QED
      BY <2>1, <2>2, Zenon DEF FilesInv, Own, F!Writing
  <1>6. Own(x)'
    <2>1. w'[x] = F!Then(w[x])
      BY <1>2, Zenon
    <2>2. ASSUME NEW y \in F!Writers \ {x} PROVE F!Writing(y)' = F!Writing(y)
      BY <1>3, Zenon DEF F!Writing
    <2>3. w[x].alone => tmp[w[x].f] = w[x].s /\ (w[x].f = "key" => filesFile["crt"] = w[x].s)
      BY <1>1, Zenon DEF FilesInv, Own
    <2>4. CASE w[x].f = "crt"
      <3>1. w'[x] = F!Call("open", "key", w[x].s, "none", w[x].alone)
        BY <2>1, <2>4, Zenon DEF F!Then
      <3>2. w[x].alone => filesFile'["crt"] = w[x].s
        BY <1>2, <2>3, <2>4, Zenon DEF FilesInv, F!TypeOK, F!Files
      <3>3. w'[x].f = "key" /\ w'[x].pc = "open" /\ w'[x].s = w[x].s /\ w'[x].alone = w[x].alone
        BY <3>1 DEF F!Call
      <3>4. /\ w[x].s \in F!Serials
            /\ w[x].alone => \A y \in F!Writers \ {x} : ~F!Writing(y)'
        BY <1>1, <2>2, Zenon DEF FilesInv, Own
      <3> QED
        BY <3>2, <3>3, <3>4, Zenon DEF Own, F!Writing
    <2>5. CASE w[x].f = "key"
      <3>1. w'[x] = F!Call("reload", "key", F!None, "none", w[x].alone)
        BY <2>1, <2>5, Zenon DEF F!Then
      <3>2. w[x].alone => filesFile'["crt"] = w[x].s /\ filesFile'["key"] = w[x].s
        BY <1>2, <2>3, <2>5, Zenon DEF FilesInv, F!TypeOK, F!Files
      <3>3. w[x].s # F!Junk
        BY <1>1 DEF F!Serials, F!Junk
      <3>4. w'[x].pc = "reload" /\ w'[x].alone = w[x].alone
        BY <3>1 DEF F!Call
      <3>5. w[x].alone => \A y \in F!Writers \ {x} : ~F!Writing(y)'
        BY <1>1, <2>2, Zenon DEF FilesInv, Own
      <3>6. ~F!Writing(x)'
        BY <3>4, Zenon DEF F!Writing
      <3>7. w[x].alone => F!Paired'
        BY <3>2, <3>3, Zenon DEF F!Paired
      <3> QED
        BY <3>4, <3>5, <3>6, <3>7, Zenon DEF Own
    <2> QED
      BY <1>1, <2>4, <2>5, Zenon DEF F!Files
  <1> QED
    BY <1>4, <1>5, <1>6, Zenon DEF FilesInv
-----------------------------------------------------------------------------
\* Every step of the module, and none.
LEMMA FilesStep == ASSUME FilesInv, [F!Next]_(F!vars) PROVE FilesInv'
  <1>1. CASE UNCHANGED F!vars
    BY <1>1, Zenon DEF F!vars, FilesInv, F!TypeOK, Own, F!Writing, F!Paired
  <1>2. CASE F!RunCertRenewal \/ \E x \in F!Writers : F!ForceRenew(x) \/ F!RenewCert(x)
    BY <1>2, FilesQuietStep, RenewStep, WriteFileOpenStep, WriteFileStep, RenameStep, Zenon DEF F!RenewCert, F!Writers
  <1> QED
    BY <1>1, <1>2, OutsideStep, Zenon DEF F!Next

\* Every behaviour satisfies the invariant.
LEMMA FilesInvariance == F!Spec => []FilesInv
  BY FilesInit, FilesStep, PTL DEF F!Spec

\* The files, the temporary files and the calls of renewCert keep their types.
THEOREM CertFilesTyped == F!Spec => []F!TypeOK
  BY FilesInvariance, PTL DEF FilesInv

\* renewCert leaves a certificate with its key when no other call of it wrote at the
\* same time, however many calls there are and whatever an earlier one left.
THEOREM PairIsWritten == F!Spec => []AloneWritesPair
  <1>1. FilesInv => AloneWritesPair
    BY Zenon DEF FilesInv, Own, AloneWritesPair, F!AloneWritesPair
  <1> QED
    BY <1>1, FilesInvariance, PTL

=============================================================================
