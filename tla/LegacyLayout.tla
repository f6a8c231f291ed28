---------------------------- MODULE LegacyLayout ----------------------------
(***************************************************************************)
(* Moving the files of one enrollment from the root of the configuration   *)
(* directory, where releases before 0.10 and bundles put them, into the    *)
(* subdirectory of the enrollment, and registering it.  The move runs at   *)
(* every start of the agent and of most commands until enrollments.json    *)
(* exists; it may be interrupted after every file.                         *)
(***************************************************************************)
EXTENDS Naturals, Sequences, Functions

CONSTANTS MaxFaults   \* bound on crashes and failing renames

VARIABLES
  root, sub,   \* files at the root and in the subdirectory
  reg,         \* does enrollments.json exist, with the enrollment?
  pc, nth,     \* the run: "idle", "move", "complete", "tar", "unpack", "register"; next file
  partial,     \* has tar begun to unpack a bundle and not come to its end?
  faults

vars == <<root, sub, reg, pc, nth, partial, faults>>

\* legacyMigratableFiles, in their order; "node-id" stands for the optional ones.
Files == <<"ca.crt", "node.crt", "node.key", "token", "endpoint", "node-id">>
Optional == {"node-id"}
Required == Range(Files) \ Optional
\* What a bundle delivers, in the order it is unpacked and moved.
BundledFiles == <<"ca.crt", "node.crt", "node.key", "token">>

TypeOK ==
  /\ root \subseteq Range(Files) /\ sub \subseteq Range(Files)
  /\ reg \in BOOLEAN /\ partial \in BOOLEAN
  /\ pc \in {"idle", "move", "complete", "tar", "unpack", "register"}
  /\ nth \in 1..Len(Files) + 1 /\ faults \in 0..MaxFaults

Fault == faults < MaxFaults /\ faults' = faults + 1
Quit == pc' = "idle" /\ nth' = 1

\* A machine with the old layout, or a new one.
Init ==
  /\ root \in {Range(Files), Required, {}}
  /\ sub = {} /\ reg = FALSE /\ pc = "idle" /\ nth = 1
  /\ partial = FALSE /\ faults = 0

LegacyAtRoot == "node.crt" \in root
\* detectHalfMigratedSubdir
HalfMigrated == "node.crt" \in sub

\* migrateLegacyLayout: what is found decides.  Files in both places, and a root
\* without the ca.crt that gives the name, are errors.
MigrateLegacyLayout ==
  /\ pc = "idle" /\ ~reg
  /\ \/ HalfMigrated /\ ~LegacyAtRoot /\ pc' = "complete"
     \/ LegacyAtRoot /\ ~HalfMigrated /\ "ca.crt" \in root /\ pc' = "move"
  /\ UNCHANGED <<root, sub, reg, nth, partial, faults>>

Rename(f) == root' = root \ {f} /\ sub' = sub \cup {f}
After(files) == IF nth = Len(files) THEN pc' = "register" /\ nth' = 1 ELSE nth' = nth + 1 /\ UNCHANGED pc

\* The loop of migrateLegacyLayout: a required file that is missing ends the run.
Move ==
  /\ pc = "move"
  /\ LET f == Files[nth] IN
       \/ f \in root /\ Rename(f) /\ After(Files) /\ UNCHANGED faults
       \/ f \notin root /\ f \in Optional /\ After(Files) /\ UNCHANGED <<root, sub, faults>>
       \/ f \notin root /\ f \notin Optional /\ Quit /\ UNCHANGED <<root, sub, faults>>
       \/ Fault /\ Quit /\ UNCHANGED <<root, sub>>
  /\ UNCHANGED <<reg, partial>>

\* A plausible bug: a rename that fails is passed over.
CompleteIgnoringErrors ==
  /\ pc = "complete"
  /\ LET f == Files[nth] IN
       \/ f \in root /\ f \notin sub /\ Rename(f) /\ After(Files) /\ UNCHANGED faults
       \/ f \in root /\ f \in sub /\ root' = root \ {f} /\ After(Files) /\ UNCHANGED <<sub, faults>>
       \/ f \notin root /\ After(Files) /\ UNCHANGED <<root, sub, faults>>
       \/ Fault /\ After(Files) /\ UNCHANGED <<root, sub>>
  /\ UNCHANGED <<reg, partial>>

\* completeMigration: what is in both places is kept in the subdirectory.
Complete ==
  /\ pc = "complete"
  /\ LET f == Files[nth] IN
       \/ f \in root /\ f \notin sub /\ Rename(f) /\ After(Files) /\ UNCHANGED faults
       \/ f \in root /\ f \in sub /\ root' = root \ {f} /\ After(Files) /\ UNCHANGED <<sub, faults>>
       \/ f \notin root /\ After(Files) /\ UNCHANGED <<root, sub, faults>>
       \/ Fault /\ Quit /\ UNCHANGED <<root, sub>>
  /\ UNCHANGED <<reg, partial>>

\* registerMigratedEnrollment: the fingerprint needs ca.crt; then the registry is
\* saved.
Register ==
  /\ pc = "register" /\ Quit
  /\ \/ reg' = ("ca.crt" \in sub) /\ UNCHANGED faults
     \/ Fault /\ UNCHANGED reg
  /\ UNCHANGED <<root, sub, partial>>

\* The process is killed, at any point.
Crash ==
  /\ pc # "idle" /\ Fault /\ Quit
  /\ UNCHANGED <<root, sub, reg, partial>>

\* RunEnroll with a bundle: past the migration there is nothing the agent knows of, and
\* tar begins to unpack the bundle at the root, over what is there ...
EnrollFromBundle ==
  /\ pc = "idle" /\ ~reg /\ ~LegacyAtRoot /\ ~HalfMigrated
  /\ pc' = "tar" /\ partial' = TRUE
  /\ UNCHANGED <<root, sub, reg, nth, faults>>

\* ... file by file, the configuration last; tar may fail on any of them (a bundle that
\* was cut off, a full disk), and what it wrote stays ...
Untar ==
  /\ pc = "tar"
  /\ \/ /\ nth <= Len(BundledFiles) /\ root' = root \cup {BundledFiles[nth]}
        /\ nth' = nth + 1 /\ UNCHANGED <<pc, partial, faults>>
     \/ /\ nth > Len(BundledFiles) /\ pc' = "unpack" /\ nth' = 1
        /\ partial' = FALSE /\ UNCHANGED <<root, faults>>
     \/ Fault /\ Quit /\ UNCHANGED <<root, partial>>
  /\ UNCHANGED <<sub, reg>>

\* ... and the files are moved one by one, what is absent is passed over; endpoint and
\* node-id are written at the end.
MoveBundle ==
  /\ pc = "unpack"
  /\ \/ /\ nth <= Len(BundledFiles)
        /\ LET there == {BundledFiles[nth]} \cap root IN
             root' = root \ there /\ sub' = sub \cup there
        /\ nth' = nth + 1 /\ UNCHANGED <<pc, faults>>
     \/ /\ nth > Len(BundledFiles)
        /\ sub' = sub \cup {"endpoint", "node-id"}
        /\ pc' = "register" /\ nth' = 1 /\ UNCHANGED <<root, faults>>
     \/ Fault /\ Quit /\ UNCHANGED <<root, sub>>
  /\ UNCHANGED <<reg, partial>>

Step == MigrateLegacyLayout \/ Move \/ Complete \/ Register \/ Untar \/ MoveBundle
Next == Step \/ Crash \/ EnrollFromBundle

\* An interrupted process stops; the service and the commands run the move again.
Spec == Init /\ [][Next]_vars /\ WF_vars(Step)

----------------------------------------------------------------------------
\* completeMigration, registerMigratedEnrollment, enrollFromBundle: whatever was
\* interrupted before, an enrollment is registered only with its certificates, its key
\* and its token in the subdirectory; except after a bundle that tar did not unpack to
\* the end, whose files are then taken for an old layout.
RegisteredIsComplete == reg /\ ~partial => Range(BundledFiles) \subseteq sub

\* migrateLegacyLayout at every start: with finitely many interruptions an old
\* layout ends up registered.
MoveEnds == LegacyAtRoot ~> reg

=============================================================================
