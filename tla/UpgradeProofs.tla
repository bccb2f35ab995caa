---------------------------- MODULE UpgradeProofs ----------------------------
(***************************************************************************)
(* The safety properties of Upgrade for any number of updaters,            *)
(* instructions, builds and faults.                                        *)
(*                                                                         *)
(* Their inductive invariant IInv has two layers.  Basics holds whoever    *)
(* meets whom: an updater at work has an instruction, a version that is    *)
(* complete stays complete, current and previous hold a complete version,  *)
(* nothing or a copy under way, and the link on Linux is never without a   *)
(* complete one.  Tree, Service and Metadata hold of an updater that meets *)
(* no other: they say, for each step it may be interrupted at, where the   *)
(* version it replaces is, whether the service runs, and what              *)
(* installed-build.conf and its backup name.  Alone, that there is one     *)
(* updater until two have met, carries them from the updater that steps    *)
(* to all of them.                                                         *)
(***************************************************************************)
EXTENDS Upgrade, TLAPS

\* The steps of an updater before it has stopped the service, those between the
\* service's stop and its start, and those after the switch.
Prior == {"snapshot", "load", "pending", "download", "install", "extract", "stop"}
Stopped == {"activate", "switch", "copy", "metadata", "record", "start", "rb_switch", "rb_rename", "rb_start"}
Switched == {"metadata", "record", "start", "health", "healthy"}
RollingBack == {"rb_stop", "rb_switch", "rb_rename", "rb_start", "rb_record", "rb_failed"}

-----------------------------------------------------------------------------
(* What holds whoever meets whom *)

\* An updater at work has an instruction, and the target of one that may switch
\* is complete.
Instructed ==
  /\ record.state # "FAILED" => record.id \in Upgrades
  /\ \A w \in Workers : pc[w] # "idle" => record.id \in Upgrades
  /\ \A w \in Workers : pc[w] \notin {"idle", "snapshot", "load", "exit"} => loaded[w] \in Upgrades
  /\ \A w \in Workers : pc[w] \in {"stop", "activate", "switch", "copy"} => Target(w) \in versions

\* What an updater has attempted and recorded, by how far it is.
Accounted(w) ==
  /\ pc[w] \in Prior \cup {"idle"} => ~attempted[w]
  /\ pc[w] \in Stopped \cup Switched \cup RollingBack => attempted[w]
  /\ pc[w] \in Prior \cup {"idle", "activate", "switch"} => local[w].previous = NoBuild
  /\ local[w].previous \in versions \cup {NoBuild}
  /\ pc[w] \in {"copy", "rb_rename"} => platform = "windows"

\* A name always leads to a complete version, to none, or to a copy under way;
\* the link on Linux to a complete one.
Placed ==
  /\ current \in versions \cup {NoBuild, Partial} /\ previous \in versions \cup {NoBuild, Partial}
  /\ platform = "linux" => current \in versions /\ \A w \in Workers : pc[w] = "switch" => origin[w] \in versions

Basics == TypeOK /\ Instructed /\ Placed /\ \A w \in Workers : Accounted(w)

-----------------------------------------------------------------------------
(* What holds of a lone updater *)

Alone == ~overlapped => \A v, w \in Workers : pc[v] # "idle" /\ pc[w] # "idle" => v = w

\* The versions when nobody is at work, or an updater has nothing left to do.
Resting ==
  /\ current \in versions \/ previous \in versions
  /\ running # NoBuild => current \in versions
TreeRight(w) ==
  /\ pc[w] \in Stopped => running = NoBuild
  /\ pc[w] \in Prior \cup {"activate"} => current \in versions
  /\ pc[w] = "switch" => current = origin[w] /\ current \in versions /\ (platform = "windows" => previous = NoBuild)
  /\ pc[w] = "copy" => previous = origin[w] /\ previous \in versions
  /\ pc[w] \in Switched =>
       /\ current = Target(w) /\ current \in versions /\ origin[w] \in versions
       /\ origin[w] = IF platform = "windows" THEN previous ELSE local[w].previous
  /\ pc[w] \in {"catch", "rb_stop", "rb_switch"} /\ attempted[w] =>
       /\ origin[w] \in versions /\ (current \in versions \/ previous = origin[w])
       /\ (IF platform = "windows" THEN previous ELSE local[w].previous) \in {NoBuild, origin[w]}
  /\ pc[w] \in {"catch", "rb_stop"} /\ (running # NoBuild \/ ~attempted[w]) => current \in versions
  /\ pc[w] = "rb_rename" => previous = origin[w] /\ previous \in versions
  /\ pc[w] \in {"rb_start", "rb_record"} => current = origin[w] /\ current \in versions
  /\ pc[w] = "rb_record" => running = origin[w]
  /\ pc[w] \in {"rb_failed", "exit"} => Resting
TreeHolds ==
  /\ (\A w \in Workers : pc[w] = "idle") => Resting
  /\ \A w \in Workers : pc[w] # "idle" => TreeRight(w)
Tree == ~overlapped /\ ~uncleared => TreeHolds

\* The service, for an updater that was not interrupted.
ServiceRight(w) ==
  /\ pc[w] \in Prior \cup {"health", "healthy", "rb_record"} => running # NoBuild
  /\ pc[w] = "catch" /\ ~attempted[w] => running # NoBuild
  /\ pc[w] = "exit" => running # NoBuild \/ activation.state = "ROLLBACK_FAILED"
ServiceHolds ==
  /\ (\A w \in Workers : pc[w] = "idle") => running # NoBuild \/ activation.state = "ROLLBACK_FAILED"
  /\ \A w \in Workers : pc[w] # "idle" => ServiceRight(w)
Service == ~overlapped /\ ~gaveUp /\ faults = 0 => ServiceHolds

\* The metadata names the build.
Match(i, build) == i = NoUpgrade \/ BuildOf[i] = build
MetadataRight(w) ==
  /\ pc[w] \in Prior \cup {"activate"} \/ (pc[w] = "catch" /\ ~attempted[w]) => Match(installed, current)
  /\ pc[w] \in (Prior \ {"snapshot"}) \cup {"activate", "switch", "copy", "metadata"} => installed = backup
  /\ pc[w] \in {"record", "start", "health", "healthy"} => installed = loaded[w]
  /\ pc[w] \in {"switch", "copy"} \cup Switched \cup (RollingBack \ {"rb_failed"})
     \/ (pc[w] = "catch" /\ attempted[w])
       => Match(backup, origin[w])
  /\ pc[w] \in {"catch", "rb_stop", "rb_failed"} /\ running # NoBuild => Match(installed, current)
  /\ pc[w] = "exit" =>
       /\ activation.state \in {"FAILED", "ROLLED_BACK", "ROLLBACK_FAILED"}
       /\ activation.state = "FAILED" => Match(installed, current)
       /\ activation.state = "ROLLED_BACK" => Match(backup, current)
       /\ activation.state = "ROLLBACK_FAILED" /\ running # NoBuild => Match(installed, current)
MetadataHolds ==
  /\ (\A w \in Workers : pc[w] = "idle") /\ (running # NoBuild \/ activation.state # "ROLLBACK_FAILED") =>
       Match(installed, current)
  /\ \A w \in Workers : pc[w] # "idle" => MetadataRight(w)
Metadata == ~overlapped /\ ~uncleared /\ faults = 0 => MetadataHolds

-----------------------------------------------------------------------------
(* Types *)

\* NoBuild and Partial are no builds, and every upgrade installs one.
LEMMA BuildNames ==
  /\ NoBuild \notin Builds /\ Partial \notin Builds /\ NoBuild # Partial
  /\ InstalledBuild \in Builds /\ \A u \in Upgrades : BuildOf[u] \in Builds
BY UpgradeAssumption DEF Builds, NoBuild, Partial

\* The records an updater saves, and what they say of the version before.
LEMMA ActivationFields ==
  \A a \in Activations : a.id \in Upgrades \cup {NoUpgrade} /\ a.previous \in Builds \cup {NoBuild}
BY DEF Activations

\* An updater that has loaded no record knows of no previous version.
LEMMA NoRecordHeld == NoActivation \in Activations /\ NoActivation.previous = NoBuild
BY DEF Activations, NoActivation, ActivationStates

\* launch_pending_upgrade's updater starts from a record without a previous version.
LEMMA LoadedRecord ==
  ASSUME NEW u \in Upgrades
  PROVE  LET a == [NoActivation EXCEPT !.id = u, !.state = "INSTALLING"]
         IN  a \in Activations /\ a.previous = NoBuild
BY DEF Activations, NoActivation, ActivationStates

\* save_activation changes the state alone.
LEMMA SavedRecord ==
  ASSUME NEW a \in Activations, NEW s \in ActivationStates
  PROVE  LET b == [a EXCEPT !.state = s] IN b \in Activations /\ b.previous = a.previous /\ b.state = s
BY DEF Activations, ActivationStates

\* A record names the build that was extracted, and then the version it replaces.
LEMMA ExtractedRecord ==
  ASSUME NEW a \in Activations, NEW build \in Builds
  PROVE  LET b == [a EXCEPT !["active"] = build] IN b \in Activations /\ b.previous = a.previous
BY DEF Activations, ActivationStates

\* The second of these: the version that the switch replaces.
LEMMA SwitchedRecord ==
  ASSUME NEW a \in Activations, NEW build \in Builds
  PROVE  LET b == [a EXCEPT !["previous"] = build] IN b \in Activations /\ b.previous = build
BY DEF Activations, ActivationStates

\* An updater that is gone leaves its locals as they are before a launch.
LEMMA GoneTypes ==
  ASSUME TypeOK, NEW W, Gone(W)
  PROVE  /\ pc' \in [Workers -> Steps]
         /\ unit' \in [Workers -> Upgrades \cup {NoUpgrade}] /\ loaded' \in [Workers -> Upgrades \cup {NoUpgrade}]
         /\ local' \in [Workers -> Activations]
         /\ attempted' \in [Workers -> BOOLEAN]
         /\ origin' \in [Workers -> Builds \cup {NoBuild, Partial}]
<1>1. pc' \in [Workers -> Steps]
  BY DEF TypeOK, Gone, Steps
<1>2. unit' \in [Workers -> Upgrades \cup {NoUpgrade}] /\ loaded' \in [Workers -> Upgrades \cup {NoUpgrade}]
  BY DEF TypeOK, Gone
<1>3. local' \in [Workers -> Activations]
  BY NoRecordHeld DEF TypeOK, Gone
<1>4. attempted' \in [Workers -> BOOLEAN]
  BY DEF TypeOK, Gone
<1>5. origin' \in [Workers -> Builds \cup {NoBuild, Partial}]
  BY DEF TypeOK, Gone
<1> QED
  BY <1>1, <1>2, <1>3, <1>4, <1>5

\* Every step keeps the types.
LEMMA TypesKept == Basics /\ [Next]_vars => TypeOK'
<1> SUFFICES ASSUME Basics, [Next]_vars PROVE TypeOK'
  OBVIOUS
<1> USE BuildNames DEF Basics, TypeOK, Steps, LocalStates, ActivationStates, Goto, files, tree,
        locals, history
<1>u. CASE UNCHANGED vars
  BY <1>u DEF vars
<1>h. ASSUME NEW u \in Upgrades \cup {NoUpgrade}, Heartbeat(u) PROVE TypeOK'
  <2>1. record' \in [id : Upgrades \cup {NoUpgrade}, state : LocalStates]
    BY <1>h DEF Heartbeat, Accepts
  <2>2. pc' \in [Workers -> Steps] /\ unit' \in [Workers -> Upgrades \cup {NoUpgrade}]
    BY <1>h, <2>1 DEF Heartbeat
  <2>3. overlapped' \in BOOLEAN
    BY <1>h DEF Heartbeat
  <2> QED
    BY <1>h, <2>1, <2>2, <2>3 DEF Heartbeat
<1>1. ASSUME NEW w \in Workers, Snapshot(w) PROVE TypeOK'
  BY <1>1 DEF Snapshot
<1>2. ASSUME NEW w \in Workers, Load(w) PROVE TypeOK'
  <2>1. record.id \in Upgrades
    BY <1>2 DEF Load, Instructed
  <2>2. local' \in [Workers -> Activations]
    BY <1>2, <2>1, LoadedRecord DEF Load
  <2>3. attempted' \in [Workers -> BOOLEAN]
    BY <1>2 DEF Load
  <2> QED
    BY <1>2, <2>1, <2>2, <2>3 DEF Load
<1>3. ASSUME NEW w \in Workers, Pending(w) PROVE TypeOK'
  BY <1>3 DEF Pending
<1>4. ASSUME NEW w \in Workers, Download(w) PROVE TypeOK'
  BY <1>4 DEF Download
<1>5. ASSUME NEW w \in Workers, Install(w) PROVE TypeOK'
  BY <1>5 DEF Install, SaveActivation
<1>6. ASSUME NEW w \in Workers, Extract(w) PROVE TypeOK'
  <2>1. Target(w) \in Builds
    BY <1>6 DEF Extract, Instructed, Target
  <2>2. local' \in [Workers -> Activations]
    BY <1>6, <2>1, ExtractedRecord DEF Extract, SetLocal
  <2> QED
    BY <1>6, <2>1, <2>2 DEF Extract
<1>7. ASSUME NEW w \in Workers, Stop(w) PROVE TypeOK'
  <2>1. attempted' \in [Workers -> BOOLEAN]
    BY <1>7 DEF Stop
  <2>3. gaveUp' \in BOOLEAN
    BY <1>7 DEF Stop
  <2>2. running' \in Builds \cup {NoBuild} /\ pc' \in [Workers -> Steps]
    BY <1>7 DEF Stop
  <2> QED
    BY <1>7, <2>1, <2>2, <2>3 DEF Stop
<1>8. ASSUME NEW w \in Workers, Activate(w) PROVE TypeOK'
  <2>1. uncleared' \in BOOLEAN
    BY <1>8 DEF Activate
  <2>2. /\ previous' \in Builds \cup {NoBuild, Partial} /\ pc' \in [Workers -> Steps]
        /\ origin' \in [Workers -> Builds \cup {NoBuild, Partial}]
    BY <1>8 DEF Activate
  <2> QED
    BY <1>8, <2>1, <2>2 DEF Activate
<1>9. ASSUME NEW w \in Workers, Switch(w) PROVE TypeOK'
  <2>1. Target(w) \in Builds
    BY <1>9 DEF Switch, Instructed, Target
  <2>2. platform = "linux" => origin[w] \in Builds
    BY <1>9 DEF Switch, Placed
  <2>3. local' \in [Workers -> Activations]
    BY <1>9, <2>2, SwitchedRecord DEF Switch, SetLocal
  <2> QED
    BY <1>9, <2>1, <2>3 DEF Switch
<1>10. ASSUME NEW w \in Workers, Copy(w) PROVE TypeOK'
  <2>1. Target(w) \in Builds
    BY <1>10 DEF Copy, Instructed, Target
  <2> QED
    BY <1>10, <2>1 DEF Copy
<1>11. ASSUME NEW w \in Workers, WriteMetadata(w) PROVE TypeOK'
  BY <1>11 DEF WriteMetadata
<1>12. ASSUME NEW w \in Workers, Record(w) PROVE TypeOK'
  BY <1>12 DEF Record, SaveActivation
<1>13. ASSUME NEW w \in Workers, Start(w) PROVE TypeOK'
  BY <1>13 DEF Start, StartService
<1>14. ASSUME NEW w \in Workers, WaitForHealth(w) PROVE TypeOK'
  BY <1>14 DEF WaitForHealth
<1>15. ASSUME NEW w \in Workers, RecordHealthy(w) PROVE TypeOK'
  <2>1. activation' \in Activations
    BY <1>15, SavedRecord DEF RecordHealthy
  <2> QED
    BY <1>15, <2>1, GoneTypes DEF RecordHealthy
<1>16. ASSUME NEW w \in Workers, Catch(w) PROVE TypeOK'
  <2>1. activation' \in Activations
    BY <1>16, SavedRecord DEF Catch, SaveActivation
  <2> QED
    BY <1>16, <2>1 DEF Catch, SaveActivation
<1>17. ASSUME NEW w \in Workers, RollbackStop(w) PROVE TypeOK'
  BY <1>17 DEF RollbackStop
<1>18. ASSUME NEW w \in Workers, RollbackSwitch(w) PROVE TypeOK'
  <2>1. local[w].previous \in Builds \cup {NoBuild}
    BY ActivationFields
  <2> QED
    BY <1>18, <2>1 DEF RollbackSwitch
<1>19. ASSUME NEW w \in Workers, RollbackRename(w) PROVE TypeOK'
  BY <1>19 DEF RollbackRename
<1>20. ASSUME NEW w \in Workers, RollbackStart(w) PROVE TypeOK'
  BY <1>20 DEF RollbackStart, StartService
<1>21. ASSUME NEW w \in Workers, RecordRollback(w) PROVE TypeOK'
  <2>1. activation' \in Activations
    <3>1. \A s \in ActivationStates : [local[w] EXCEPT !.state = s] \in Activations
      BY SavedRecord
    <3> QED
      BY <1>21, <3>1 DEF RecordRollback, SaveActivation
  <2> QED
    BY <1>21, <2>1 DEF RecordRollback, SaveActivation
<1>22. ASSUME NEW w \in Workers, Exit(w) PROVE TypeOK'
  <2> QED
    BY <1>22, GoneTypes DEF Exit
<1>23. ASSUME NEW w \in Workers, SetupFails(w) PROVE TypeOK'
  BY <1>23, UpgradeAssumption DEF SetupFails
<1>24. ASSUME NEW w \in Workers, WorkerDies(w) PROVE TypeOK'
  <2>1. died' \subseteq Upgrades \cup {NoUpgrade}
    BY <1>24, ActivationFields DEF WorkerDies, Killed
  <2>2. faults' \in 0..MaxFaults
    BY <1>24, UpgradeAssumption DEF WorkerDies, Killed
  <2> QED
    BY <1>24, <2>1, <2>2, GoneTypes DEF WorkerDies, Killed
<1>r. CASE Reboot
  <2>1. died' \subseteq Upgrades \cup {NoUpgrade}
    BY <1>r, ActivationFields DEF Reboot, Killed, Busy
  <2>2. faults' \in 0..MaxFaults
    BY <1>r, UpgradeAssumption DEF Reboot, Killed
  <2>3. running' \in Builds \cup {NoBuild}
    BY <1>r DEF Reboot
  <2> QED
    BY <1>r, <2>1, <2>2, <2>3, GoneTypes DEF Reboot, Killed
<1> QED
  BY <1>u, <1>h, <1>1, <1>2, <1>3, <1>4, <1>5, <1>6, <1>7, <1>8, <1>9, <1>10, <1>11, <1>12, <1>13,
     <1>14, <1>15, <1>16, <1>17, <1>18, <1>19, <1>20, <1>21, <1>22, <1>23, <1>24, <1>r DEF Next,
     Updater

\* A record keeps its shape when its state changes. Every later proof uses this fact: a record
\* update among the hypotheses also has the SMT backend encode them without inferring types,
\* which takes longer than the proofs themselves.
LEMMA StateChanged ==
  \A a \in Activations, s \in ActivationStates : [a EXCEPT !.state = s] \in Activations
BY ZenonT(30) DEF Activations

USE StateChanged

\* An updater at work keeps its instruction: current.json is never removed.
LEMMA InstructedKept == Basics /\ [Next]_vars => Instructed'
<1> SUFFICES ASSUME Basics, [Next]_vars PROVE Instructed'
  OBVIOUS
<1> USE BuildNames DEF Basics, TypeOK, Instructed, Steps, LocalStates, Goto, Target, files, tree,
        locals, history
<1>u. CASE UNCHANGED vars
  BY <1>u DEF vars
<1>h. ASSUME NEW u \in Upgrades \cup {NoUpgrade}, Heartbeat(u) PROVE Instructed'
  BY <1>h DEF Heartbeat, Accepts, MayLaunch, Busy
<1>1. ASSUME NEW w \in Workers, Snapshot(w) PROVE Instructed'
  BY <1>1 DEF Snapshot
<1>2. ASSUME NEW w \in Workers, Load(w) PROVE Instructed'
  BY <1>2 DEF Load
<1>3. ASSUME NEW w \in Workers, Pending(w) PROVE Instructed'
  BY <1>3 DEF Pending
<1>4. ASSUME NEW w \in Workers, Download(w) PROVE Instructed'
  BY <1>4 DEF Download
<1>5. ASSUME NEW w \in Workers, Install(w) PROVE Instructed'
  BY <1>5 DEF Install, SaveActivation
<1>6. ASSUME NEW w \in Workers, Extract(w) PROVE Instructed'
  BY <1>6 DEF Extract, SetLocal, Target
<1>7. ASSUME NEW w \in Workers, Stop(w) PROVE Instructed'
  BY <1>7 DEF Stop
<1>8. ASSUME NEW w \in Workers, Activate(w) PROVE Instructed'
  BY <1>8 DEF Activate
<1>9. ASSUME NEW w \in Workers, Switch(w) PROVE Instructed'
  BY <1>9 DEF Switch, SetLocal, Target
<1>10. ASSUME NEW w \in Workers, Copy(w) PROVE Instructed'
  BY <1>10 DEF Copy, Target
<1>11. ASSUME NEW w \in Workers, WriteMetadata(w) PROVE Instructed'
  BY <1>11 DEF WriteMetadata
<1>12. ASSUME NEW w \in Workers, Record(w) PROVE Instructed'
  BY <1>12 DEF Record, SaveActivation
<1>13. ASSUME NEW w \in Workers, Start(w) PROVE Instructed'
  BY <1>13 DEF Start, StartService
<1>14. ASSUME NEW w \in Workers, WaitForHealth(w) PROVE Instructed'
  BY <1>14 DEF WaitForHealth
<1>15. ASSUME NEW w \in Workers, RecordHealthy(w) PROVE Instructed'
  BY <1>15 DEF RecordHealthy, Gone
<1>16. ASSUME NEW w \in Workers, Catch(w) PROVE Instructed'
  BY <1>16 DEF Catch, SaveActivation
<1>17. ASSUME NEW w \in Workers, RollbackStop(w) PROVE Instructed'
  BY <1>17 DEF RollbackStop
<1>18. ASSUME NEW w \in Workers, RollbackSwitch(w) PROVE Instructed'
  BY <1>18 DEF RollbackSwitch
<1>19. ASSUME NEW w \in Workers, RollbackRename(w) PROVE Instructed'
  BY <1>19 DEF RollbackRename
<1>20. ASSUME NEW w \in Workers, RollbackStart(w) PROVE Instructed'
  BY <1>20 DEF RollbackStart, StartService
<1>21. ASSUME NEW w \in Workers, RecordRollback(w) PROVE Instructed'
  BY <1>21 DEF RecordRollback, SaveActivation
<1>22. ASSUME NEW w \in Workers, Exit(w) PROVE Instructed'
  BY <1>22 DEF Exit, Gone
<1>23. ASSUME NEW w \in Workers, SetupFails(w) PROVE Instructed'
  BY <1>23 DEF SetupFails
<1>24. ASSUME NEW w \in Workers, WorkerDies(w) PROVE Instructed'
  BY <1>24 DEF WorkerDies, Killed, Gone
<1>r. CASE Reboot
  BY <1>r, ZenonT(30) DEF Reboot, Killed, Gone
<1> QED
  BY <1>u, <1>h, <1>1, <1>2, <1>3, <1>4, <1>5, <1>6, <1>7, <1>8, <1>9, <1>10, <1>11, <1>12, <1>13,
     <1>14, <1>15, <1>16, <1>17, <1>18, <1>19, <1>20, <1>21, <1>22, <1>23, <1>24, <1>r DEF Next,
     Updater

\* No version is removed from versions/, and only a copy under way is incomplete.
LEMMA PlacedKept == Basics /\ [Next]_vars => Placed'
<1> SUFFICES ASSUME Basics, [Next]_vars PROVE Placed'
  OBVIOUS
<1> USE BuildNames DEF Basics, TypeOK, Instructed, Placed, Accounted, Steps, LocalStates, Goto,
        Target, files, tree, locals, history, Prior, Stopped, Switched, RollingBack
<1>u. CASE UNCHANGED vars
  BY <1>u DEF vars
<1>h. ASSUME NEW u \in Upgrades \cup {NoUpgrade}, Heartbeat(u) PROVE Placed'
  BY <1>h DEF Heartbeat, Accepts, MayLaunch, Busy
<1>1. ASSUME NEW w \in Workers, Snapshot(w) PROVE Placed'
  BY <1>1 DEF Snapshot
<1>2. ASSUME NEW w \in Workers, Load(w) PROVE Placed'
  BY <1>2 DEF Load
<1>3. ASSUME NEW w \in Workers, Pending(w) PROVE Placed'
  BY <1>3 DEF Pending
<1>4. ASSUME NEW w \in Workers, Download(w) PROVE Placed'
  BY <1>4 DEF Download
<1>5. ASSUME NEW w \in Workers, Install(w) PROVE Placed'
  BY <1>5 DEF Install, SaveActivation
<1>6. ASSUME NEW w \in Workers, Extract(w) PROVE Placed'
  BY <1>6 DEF Extract, SetLocal, Target
<1>7. ASSUME NEW w \in Workers, Stop(w) PROVE Placed'
  BY <1>7 DEF Stop
<1>8. ASSUME NEW w \in Workers, Activate(w) PROVE Placed'
  BY <1>8 DEF Activate
<1>9. ASSUME NEW w \in Workers, Switch(w) PROVE Placed'
  BY <1>9 DEF Switch, SetLocal, Target
<1>10. ASSUME NEW w \in Workers, Copy(w) PROVE Placed'
  BY <1>10 DEF Copy, Target
<1>11. ASSUME NEW w \in Workers, WriteMetadata(w) PROVE Placed'
  BY <1>11 DEF WriteMetadata
<1>12. ASSUME NEW w \in Workers, Record(w) PROVE Placed'
  BY <1>12 DEF Record, SaveActivation
<1>13. ASSUME NEW w \in Workers, Start(w) PROVE Placed'
  BY <1>13 DEF Start, StartService
<1>14. ASSUME NEW w \in Workers, WaitForHealth(w) PROVE Placed'
  BY <1>14 DEF WaitForHealth
<1>15. ASSUME NEW w \in Workers, RecordHealthy(w) PROVE Placed'
  BY <1>15 DEF RecordHealthy, Gone
<1>16. ASSUME NEW w \in Workers, Catch(w) PROVE Placed'
  BY <1>16 DEF Catch, SaveActivation
<1>17. ASSUME NEW w \in Workers, RollbackStop(w) PROVE Placed'
  BY <1>17 DEF RollbackStop
<1>18. ASSUME NEW w \in Workers, RollbackSwitch(w) PROVE Placed'
  BY <1>18 DEF RollbackSwitch
<1>19. ASSUME NEW w \in Workers, RollbackRename(w) PROVE Placed'
  BY <1>19 DEF RollbackRename
<1>20. ASSUME NEW w \in Workers, RollbackStart(w) PROVE Placed'
  BY <1>20 DEF RollbackStart, StartService
<1>21. ASSUME NEW w \in Workers, RecordRollback(w) PROVE Placed'
  BY <1>21 DEF RecordRollback, SaveActivation
<1>22. ASSUME NEW w \in Workers, Exit(w) PROVE Placed'
  BY <1>22 DEF Exit, Gone
<1>23. ASSUME NEW w \in Workers, SetupFails(w) PROVE Placed'
  BY <1>23 DEF SetupFails
<1>24. ASSUME NEW w \in Workers, WorkerDies(w) PROVE Placed'
  BY <1>24 DEF WorkerDies, Killed, Gone
<1>r. CASE Reboot
  BY <1>r DEF Reboot, Killed, Gone
<1> QED
  BY <1>u, <1>h, <1>1, <1>2, <1>3, <1>4, <1>5, <1>6, <1>7, <1>8, <1>9, <1>10, <1>11, <1>12, <1>13,
     <1>14, <1>15, <1>16, <1>17, <1>18, <1>19, <1>20, <1>21, <1>22, <1>23, <1>24, <1>r DEF Next,
     Updater

\* An updater that is gone has attempted and recorded nothing.
LEMMA GoneAccounted ==
  ASSUME Basics, NEW W, Gone(W), UNCHANGED <<versions, platform>>
  PROVE  \A v \in Workers : Accounted(v)'
<1>1. \A v \in Workers : local'[v].previous = IF v \in W THEN NoBuild ELSE local[v].previous
  BY NoRecordHeld DEF Basics, TypeOK, Gone
<1>2. \A v \in Workers : pc'[v] = (IF v \in W THEN "idle" ELSE pc[v])
                         /\ (attempted'[v] <=> v \notin W /\ attempted[v])
  BY DEF Gone
<1> QED
  BY <1>1, <1>2 DEF Basics, Accounted, Prior, Stopped, Switched, RollingBack

\* What an updater has done, it remembers until it is gone.
LEMMA AccountedKept == Basics /\ [Next]_vars => (\A v \in Workers : Accounted(v)')
<1> SUFFICES ASSUME Basics, [Next]_vars PROVE (\A v \in Workers : Accounted(v)')
  OBVIOUS
<1> USE BuildNames DEF Basics, TypeOK, Placed, Instructed, Accounted, Steps, LocalStates, Goto,
        Target, files, tree, locals, history, Prior, Stopped, Switched, RollingBack
<1>u. CASE UNCHANGED vars
  BY <1>u DEF vars
<1>h. ASSUME NEW u \in Upgrades \cup {NoUpgrade}, Heartbeat(u) PROVE (\A v \in Workers : Accounted(v)')
  BY <1>h DEF Heartbeat, Accepts, MayLaunch, Busy
<1>1. ASSUME NEW w \in Workers, Snapshot(w) PROVE (\A v \in Workers : Accounted(v)')
  BY <1>1 DEF Snapshot
<1>2. ASSUME NEW w \in Workers, Load(w) PROVE (\A v \in Workers : Accounted(v)')
  <2>1. record.id \in Upgrades
    BY <1>2 DEF Load
  <2>2. \A v \in Workers : local'[v].previous = IF v = w THEN NoBuild ELSE local[v].previous
    <3> DEFINE a == [NoActivation EXCEPT !.id = record.id, !.state = "INSTALLING"]
    <3>1. a.previous = NoBuild
      BY <2>1, LoadedRecord
    <3>2. local' = [local EXCEPT ![w] = a]
      BY <1>2 DEF Load
    <3> HIDE DEF a
    <3> QED
      BY <3>1, <3>2, ZenonT(30)
  <2>3. /\ pc' = [pc EXCEPT ![w] = IF record.state = "VERIFIED" THEN "install" ELSE "pending"]
        /\ attempted' = [attempted EXCEPT ![w] = FALSE] /\ UNCHANGED <<platform, versions>>
    BY <1>2 DEF Load
  <2> QED
    BY <1>2, <2>2, <2>3
<1>3. ASSUME NEW w \in Workers, Pending(w) PROVE (\A v \in Workers : Accounted(v)')
  BY <1>3 DEF Pending
<1>4. ASSUME NEW w \in Workers, Download(w) PROVE (\A v \in Workers : Accounted(v)')
  BY <1>4 DEF Download
<1>5. ASSUME NEW w \in Workers, Install(w) PROVE (\A v \in Workers : Accounted(v)')
  BY <1>5 DEF Install, SaveActivation
<1>6. ASSUME NEW w \in Workers, Extract(w) PROVE (\A v \in Workers : Accounted(v)')
  <2>1. Target(w) \in Builds
    BY <1>6 DEF Extract
  <2>2. \A v \in Workers : local'[v].previous = local[v].previous
    <3> DEFINE a == [local[w] EXCEPT !["active"] = Target(w)]
    <3>1. a.previous = local[w].previous
      BY <2>1, ExtractedRecord
    <3>2. local' = [local EXCEPT ![w] = a] \/ local' = local
      BY <1>6 DEF Extract, SetLocal
    <3> HIDE DEF a
    <3> QED
      BY <3>1, <3>2
  <2>3. /\ \E step \in {"stop", "catch"} : pc' = [pc EXCEPT ![w] = step]
        /\ versions \subseteq versions' /\ UNCHANGED <<attempted, platform>> /\ pc[w] = "extract"
    BY <1>6 DEF Extract
  <2> QED
    BY <2>2, <2>3
<1>7. ASSUME NEW w \in Workers, Stop(w) PROVE (\A v \in Workers : Accounted(v)')
  BY <1>7 DEF Stop
<1>8. ASSUME NEW w \in Workers, Activate(w) PROVE (\A v \in Workers : Accounted(v)')
  BY <1>8 DEF Activate
<1>9. ASSUME NEW w \in Workers, Switch(w) PROVE (\A v \in Workers : Accounted(v)')
  <2>1. CASE platform = "linux" /\ SetLocal(w, "previous", origin[w]) /\ Goto(w, "metadata")
    <3>1. origin[w] \in Builds /\ origin[w] \in versions
      BY <1>9, <2>1 DEF Switch
    <3>2. \A v \in Workers : local'[v].previous = IF v = w THEN origin[w] ELSE local[v].previous
      BY <2>1, <3>1, SwitchedRecord DEF SetLocal
    <3>3. pc' = [pc EXCEPT ![w] = "metadata"] /\ UNCHANGED <<attempted, platform, versions>> /\ pc[w] = "switch"
      BY <1>9, <2>1 DEF Switch
    <3> QED
      BY <3>1, <3>2, <3>3
  <2>2. CASE UNCHANGED local
    BY <1>9, <2>2 DEF Switch
  <2> QED
    BY <1>9, <2>1, <2>2 DEF Switch
<1>10. ASSUME NEW w \in Workers, Copy(w) PROVE (\A v \in Workers : Accounted(v)')
  BY <1>10 DEF Copy, Target
<1>11. ASSUME NEW w \in Workers, WriteMetadata(w) PROVE (\A v \in Workers : Accounted(v)')
  BY <1>11 DEF WriteMetadata
<1>12. ASSUME NEW w \in Workers, Record(w) PROVE (\A v \in Workers : Accounted(v)')
  BY <1>12 DEF Record, SaveActivation
<1>13. ASSUME NEW w \in Workers, Start(w) PROVE (\A v \in Workers : Accounted(v)')
  BY <1>13 DEF Start, StartService
<1>14. ASSUME NEW w \in Workers, WaitForHealth(w) PROVE (\A v \in Workers : Accounted(v)')
  BY <1>14 DEF WaitForHealth
<1>15. ASSUME NEW w \in Workers, RecordHealthy(w) PROVE (\A v \in Workers : Accounted(v)')
  BY <1>15, GoneAccounted DEF RecordHealthy
<1>16. ASSUME NEW w \in Workers, Catch(w) PROVE (\A v \in Workers : Accounted(v)')
  BY <1>16 DEF Catch, SaveActivation
<1>17. ASSUME NEW w \in Workers, RollbackStop(w) PROVE (\A v \in Workers : Accounted(v)')
  BY <1>17 DEF RollbackStop
<1>18. ASSUME NEW w \in Workers, RollbackSwitch(w) PROVE (\A v \in Workers : Accounted(v)')
  BY <1>18 DEF RollbackSwitch
<1>19. ASSUME NEW w \in Workers, RollbackRename(w) PROVE (\A v \in Workers : Accounted(v)')
  BY <1>19 DEF RollbackRename
<1>20. ASSUME NEW w \in Workers, RollbackStart(w) PROVE (\A v \in Workers : Accounted(v)')
  BY <1>20 DEF RollbackStart, StartService
<1>21. ASSUME NEW w \in Workers, RecordRollback(w) PROVE (\A v \in Workers : Accounted(v)')
  <2>1. \A v \in Workers : local'[v].previous = local[v].previous
    <3>1. \A s \in ActivationStates : [local[w] EXCEPT !.state = s].previous = local[w].previous
      BY SavedRecord
    <3> QED
      BY <1>21, <3>1 DEF RecordRollback, SaveActivation, ActivationStates
  <2>2. /\ pc[w] \in {"rb_record", "rb_failed"} /\ pc' = [pc EXCEPT ![w] = "exit"]
        /\ UNCHANGED <<attempted, platform, versions>>
    BY <1>21 DEF RecordRollback
  <2> QED
    BY <2>1, <2>2
<1>22. ASSUME NEW w \in Workers, Exit(w) PROVE (\A v \in Workers : Accounted(v)')
  BY <1>22, GoneAccounted DEF Exit
<1>23. ASSUME NEW w \in Workers, SetupFails(w) PROVE (\A v \in Workers : Accounted(v)')
  BY <1>23 DEF SetupFails
<1>24. ASSUME NEW w \in Workers, WorkerDies(w) PROVE (\A v \in Workers : Accounted(v)')
  BY <1>24, GoneAccounted DEF WorkerDies, Killed
<1>r. CASE Reboot
  BY <1>r, GoneAccounted DEF Reboot, Killed
<1> QED
  BY <1>u, <1>h, <1>1, <1>2, <1>3, <1>4, <1>5, <1>6, <1>7, <1>8, <1>9, <1>10, <1>11, <1>12, <1>13,
     <1>14, <1>15, <1>16, <1>17, <1>18, <1>19, <1>20, <1>21, <1>22, <1>23, <1>24, <1>r DEF Next,
     Updater

\* Only a heartbeat that starts a second updater makes two of them.
LEMMA AloneKept == TypeOK /\ Alone /\ [Next]_vars => Alone'
<1> SUFFICES ASSUME TypeOK, Alone, [Next]_vars PROVE Alone'
  OBVIOUS
<1> USE DEF TypeOK, Alone, Goto, files, tree, locals, history
<1>u. CASE UNCHANGED vars
  BY <1>u DEF vars
<1>h. ASSUME NEW u \in Upgrades \cup {NoUpgrade}, Heartbeat(u) PROVE Alone'
  <2>1. CASE UNCHANGED <<pc, overlapped>>
    BY <2>1
  <2>2. ASSUME NEW w \in Workers, Goto(w, "snapshot"), overlapped' = (overlapped \/ Busy # {}) PROVE Alone'
    <3>1. ~overlapped' => ~overlapped /\ \A v \in Workers : pc[v] = "idle"
      BY <2>2 DEF Busy
    <3> QED
      BY <2>2, <3>1
  <2> QED
    BY <1>h, <2>1, <2>2 DEF Heartbeat
<1>1. ASSUME NEW w \in Workers, Snapshot(w) PROVE Alone'
  BY <1>1 DEF Snapshot
<1>2. ASSUME NEW w \in Workers, Load(w) PROVE Alone'
  BY <1>2 DEF Load
<1>3. ASSUME NEW w \in Workers, Pending(w) PROVE Alone'
  BY <1>3 DEF Pending
<1>4. ASSUME NEW w \in Workers, Download(w) PROVE Alone'
  BY <1>4 DEF Download
<1>5. ASSUME NEW w \in Workers, Install(w) PROVE Alone'
  BY <1>5 DEF Install, SaveActivation
<1>6. ASSUME NEW w \in Workers, Extract(w) PROVE Alone'
  BY <1>6 DEF Extract, SetLocal, Target
<1>7. ASSUME NEW w \in Workers, Stop(w) PROVE Alone'
  BY <1>7 DEF Stop
<1>8. ASSUME NEW w \in Workers, Activate(w) PROVE Alone'
  BY <1>8 DEF Activate
<1>9. ASSUME NEW w \in Workers, Switch(w) PROVE Alone'
  BY <1>9 DEF Switch, SetLocal, Target
<1>10. ASSUME NEW w \in Workers, Copy(w) PROVE Alone'
  BY <1>10 DEF Copy, Target
<1>11. ASSUME NEW w \in Workers, WriteMetadata(w) PROVE Alone'
  BY <1>11 DEF WriteMetadata
<1>12. ASSUME NEW w \in Workers, Record(w) PROVE Alone'
  BY <1>12 DEF Record, SaveActivation
<1>13. ASSUME NEW w \in Workers, Start(w) PROVE Alone'
  BY <1>13 DEF Start, StartService
<1>14. ASSUME NEW w \in Workers, WaitForHealth(w) PROVE Alone'
  BY <1>14 DEF WaitForHealth
<1>15. ASSUME NEW w \in Workers, RecordHealthy(w) PROVE Alone'
  BY <1>15 DEF RecordHealthy, Gone
<1>16. ASSUME NEW w \in Workers, Catch(w) PROVE Alone'
  BY <1>16 DEF Catch, SaveActivation
<1>17. ASSUME NEW w \in Workers, RollbackStop(w) PROVE Alone'
  BY <1>17 DEF RollbackStop
<1>18. ASSUME NEW w \in Workers, RollbackSwitch(w) PROVE Alone'
  BY <1>18 DEF RollbackSwitch
<1>19. ASSUME NEW w \in Workers, RollbackRename(w) PROVE Alone'
  BY <1>19 DEF RollbackRename
<1>20. ASSUME NEW w \in Workers, RollbackStart(w) PROVE Alone'
  BY <1>20 DEF RollbackStart, StartService
<1>21. ASSUME NEW w \in Workers, RecordRollback(w) PROVE Alone'
  BY <1>21 DEF RecordRollback, SaveActivation
<1>22. ASSUME NEW w \in Workers, Exit(w) PROVE Alone'
  BY <1>22 DEF Exit, Gone
<1>23. ASSUME NEW w \in Workers, SetupFails(w) PROVE Alone'
  BY <1>23 DEF SetupFails
<1>24. ASSUME NEW w \in Workers, WorkerDies(w) PROVE Alone'
  BY <1>24 DEF WorkerDies, Killed, Gone
<1>r. CASE Reboot
  BY <1>r DEF Reboot, Killed, Gone
<1> QED
  BY <1>u, <1>h, <1>1, <1>2, <1>3, <1>4, <1>5, <1>6, <1>7, <1>8, <1>9, <1>10, <1>11, <1>12, <1>13,
     <1>14, <1>15, <1>16, <1>17, <1>18, <1>19, <1>20, <1>21, <1>22, <1>23, <1>24, <1>r DEF Next,
     Updater

\* A heartbeat on Linux starts no updater under a name that is taken.
LEMMA OneUpdaterKept == TypeOK /\ OneUpdater /\ [Next]_vars => OneUpdater'
<1> SUFFICES ASSUME TypeOK, OneUpdater, [Next]_vars PROVE OneUpdater'
  OBVIOUS
<1> USE DEF TypeOK, OneUpdater, Busy, Goto, files, tree, locals, history
<1>u. CASE UNCHANGED vars
  BY <1>u DEF vars
<1>h. ASSUME NEW u \in Upgrades \cup {NoUpgrade}, Heartbeat(u) PROVE OneUpdater'
  BY <1>h DEF Heartbeat, Accepts, MayLaunch, Busy
<1>1. ASSUME NEW w \in Workers, Snapshot(w) PROVE OneUpdater'
  BY <1>1 DEF Snapshot
<1>2. ASSUME NEW w \in Workers, Load(w) PROVE OneUpdater'
  BY <1>2 DEF Load
<1>3. ASSUME NEW w \in Workers, Pending(w) PROVE OneUpdater'
  BY <1>3 DEF Pending
<1>4. ASSUME NEW w \in Workers, Download(w) PROVE OneUpdater'
  BY <1>4 DEF Download
<1>5. ASSUME NEW w \in Workers, Install(w) PROVE OneUpdater'
  BY <1>5 DEF Install, SaveActivation
<1>6. ASSUME NEW w \in Workers, Extract(w) PROVE OneUpdater'
  BY <1>6 DEF Extract, SetLocal, Target
<1>7. ASSUME NEW w \in Workers, Stop(w) PROVE OneUpdater'
  BY <1>7 DEF Stop
<1>8. ASSUME NEW w \in Workers, Activate(w) PROVE OneUpdater'
  BY <1>8 DEF Activate
<1>9. ASSUME NEW w \in Workers, Switch(w) PROVE OneUpdater'
  BY <1>9 DEF Switch, SetLocal, Target
<1>10. ASSUME NEW w \in Workers, Copy(w) PROVE OneUpdater'
  BY <1>10 DEF Copy, Target
<1>11. ASSUME NEW w \in Workers, WriteMetadata(w) PROVE OneUpdater'
  BY <1>11 DEF WriteMetadata
<1>12. ASSUME NEW w \in Workers, Record(w) PROVE OneUpdater'
  BY <1>12 DEF Record, SaveActivation
<1>13. ASSUME NEW w \in Workers, Start(w) PROVE OneUpdater'
  BY <1>13 DEF Start, StartService
<1>14. ASSUME NEW w \in Workers, WaitForHealth(w) PROVE OneUpdater'
  BY <1>14 DEF WaitForHealth
<1>15. ASSUME NEW w \in Workers, RecordHealthy(w) PROVE OneUpdater'
  BY <1>15 DEF RecordHealthy, Gone
<1>16. ASSUME NEW w \in Workers, Catch(w) PROVE OneUpdater'
  BY <1>16 DEF Catch, SaveActivation
<1>17. ASSUME NEW w \in Workers, RollbackStop(w) PROVE OneUpdater'
  BY <1>17 DEF RollbackStop
<1>18. ASSUME NEW w \in Workers, RollbackSwitch(w) PROVE OneUpdater'
  BY <1>18 DEF RollbackSwitch
<1>19. ASSUME NEW w \in Workers, RollbackRename(w) PROVE OneUpdater'
  BY <1>19 DEF RollbackRename
<1>20. ASSUME NEW w \in Workers, RollbackStart(w) PROVE OneUpdater'
  BY <1>20 DEF RollbackStart, StartService
<1>21. ASSUME NEW w \in Workers, RecordRollback(w) PROVE OneUpdater'
  BY <1>21 DEF RecordRollback, SaveActivation
<1>22. ASSUME NEW w \in Workers, Exit(w) PROVE OneUpdater'
  BY <1>22 DEF Exit, Gone
<1>23. ASSUME NEW w \in Workers, SetupFails(w) PROVE OneUpdater'
  BY <1>23 DEF SetupFails
<1>24. ASSUME NEW w \in Workers, WorkerDies(w) PROVE OneUpdater'
  BY <1>24 DEF WorkerDies, Killed, Gone
<1>r. CASE Reboot
  BY <1>r, ZenonT(30) DEF Reboot, Killed, Gone
<1> QED
  BY <1>u, <1>h, <1>1, <1>2, <1>3, <1>4, <1>5, <1>6, <1>7, <1>8, <1>9, <1>10, <1>11, <1>12, <1>13,
     <1>14, <1>15, <1>16, <1>17, <1>18, <1>19, <1>20, <1>21, <1>22, <1>23, <1>24, <1>r DEF Next,
     Updater

-----------------------------------------------------------------------------
(* The versions *)

\* A step of an updater leaves the others where they are.
LEMMA OthersKept ==
  ASSUME NEW w \in Workers, TypeOK,
         Updater(w) \/ SetupFails(w) \/ WorkerDies(w)
  PROVE  /\ pc[w] # "idle" /\ \A v \in Workers : v # w => pc'[v] = pc[v]
         /\ UNCHANGED overlapped /\ (uncleared => uncleared') /\ (gaveUp => gaveUp')
         /\ (faults' = 0 => faults = 0)
<1> USE DEF TypeOK, Goto, locals, history
<1>1. CASE Snapshot(w)
  BY <1>1 DEF Snapshot
<1>2. CASE Load(w)
  BY <1>2 DEF Load
<1>3. CASE Pending(w)
  BY <1>3 DEF Pending
<1>4. CASE Download(w)
  BY <1>4 DEF Download
<1>5. CASE Install(w)
  BY <1>5 DEF Install, SaveActivation
<1>6. CASE Extract(w)
  BY <1>6 DEF Extract, SetLocal, Target
<1>7. CASE Stop(w)
  BY <1>7 DEF Stop
<1>8. CASE Activate(w)
  BY <1>8 DEF Activate
<1>9. CASE Switch(w)
  BY <1>9 DEF Switch, SetLocal, Target
<1>10. CASE Copy(w)
  BY <1>10 DEF Copy, Target
<1>11. CASE WriteMetadata(w)
  BY <1>11 DEF WriteMetadata
<1>12. CASE Record(w)
  BY <1>12 DEF Record, SaveActivation
<1>13. CASE Start(w)
  BY <1>13 DEF Start, StartService
<1>14. CASE WaitForHealth(w)
  BY <1>14 DEF WaitForHealth
<1>15. CASE RecordHealthy(w)
  BY <1>15 DEF RecordHealthy, Gone
<1>16. CASE Catch(w)
  BY <1>16 DEF Catch, SaveActivation
<1>17. CASE RollbackStop(w)
  BY <1>17 DEF RollbackStop
<1>18. CASE RollbackSwitch(w)
  BY <1>18 DEF RollbackSwitch
<1>19. CASE RollbackRename(w)
  BY <1>19 DEF RollbackRename
<1>20. CASE RollbackStart(w)
  BY <1>20 DEF RollbackStart, StartService
<1>21. CASE RecordRollback(w)
  BY <1>21 DEF RecordRollback, SaveActivation
<1>22. CASE Exit(w)
  BY <1>22 DEF Exit, Gone
<1>23. CASE SetupFails(w)
  BY <1>23 DEF SetupFails
<1>24. CASE WorkerDies(w)
  BY <1>24 DEF WorkerDies, Killed, Gone
<1> QED
  BY <1>1, <1>2, <1>3, <1>4, <1>5, <1>6, <1>7, <1>8, <1>9, <1>10, <1>11, <1>12, <1>13, <1>14, <1>15,
     <1>16, <1>17, <1>18, <1>19, <1>20, <1>21, <1>22, <1>23, <1>24 DEF Updater

\* Wherever a lone updater is interrupted, what it leaves is as good as what one
\* leaves that ends.
LEMMA RightIsResting ==
  ASSUME Basics, NEW w \in Workers, pc[w] # "idle", TreeRight(w)
  PROVE  Resting
<1>1. pc[w] \in Steps
  BY ZenonT(30) DEF Basics, TypeOK
<1> QED
  BY <1>1, BuildNames DEF Basics, TypeOK, Accounted, TreeRight, Resting, Steps, Prior, Stopped,
     Switched, RollingBack

\* What a lone updater does to the versions, step by step.
LEMMA TreeStep ==
  ASSUME NEW w \in Workers, Basics, TreeRight(w), ~uncleared',
         Updater(w) \/ SetupFails(w) \/ WorkerDies(w)
  PROVE  IF pc'[w] = "idle" THEN Resting' ELSE TreeRight(w)'
<1> USE BuildNames DEF Basics, TypeOK, Instructed, Placed, Accounted, TreeRight, Resting, Goto,
        Target, files, tree, locals, history, Prior, Stopped, Switched, RollingBack
<1>1. CASE Snapshot(w)
  BY <1>1 DEF Snapshot
<1>2. CASE Load(w)
  BY <1>2 DEF Load
<1>3. CASE Pending(w)
  BY <1>3 DEF Pending
<1>4. CASE Download(w)
  BY <1>4 DEF Download
<1>5. CASE Install(w)
  BY <1>5 DEF Install, SaveActivation
<1>6. CASE Extract(w)
  BY <1>6 DEF Extract, SetLocal, Target
<1>7. CASE Stop(w)
  BY <1>7 DEF Stop
<1>8. CASE Activate(w)
  BY <1>8 DEF Activate
<1>9. CASE Switch(w)
  <2>1. CASE platform = "linux" /\ SetLocal(w, "previous", origin[w]) /\ Goto(w, "metadata")
    <3>1. origin[w] \in Builds /\ origin[w] \in versions /\ current' = Target(w) /\ Target(w) \in versions
      BY <1>9, <2>1 DEF Switch
    <3>2. local'[w].previous = origin[w]
      BY <2>1, <3>1, SwitchedRecord DEF SetLocal
    <3>3. /\ pc'[w] = "metadata" /\ UNCHANGED <<attempted, platform, versions, running, origin, loaded>>
          /\ pc[w] = "switch"
      BY <1>9, <2>1 DEF Switch
    <3> QED
      BY <2>1, <3>1, <3>2, <3>3
  <2>2. CASE platform = "windows" /\ Goto(w, "copy")
    BY <1>9, <2>2 DEF Switch
  <2>3. CASE Goto(w, "catch") /\ UNCHANGED <<current, previous, local>>
    BY <1>9, <2>3 DEF Switch
  <2> QED
    BY <1>9, <2>1, <2>2, <2>3 DEF Switch
<1>10. CASE Copy(w)
  BY <1>10 DEF Copy, Target
<1>11. CASE WriteMetadata(w)
  BY <1>11 DEF WriteMetadata
<1>12. CASE Record(w)
  BY <1>12 DEF Record, SaveActivation
<1>13. CASE Start(w)
  BY <1>13 DEF Start, StartService
<1>14. CASE WaitForHealth(w)
  BY <1>14 DEF WaitForHealth
<1>15. CASE RecordHealthy(w)
  BY <1>15 DEF RecordHealthy, Gone
<1>16. CASE Catch(w)
  BY <1>16 DEF Catch, SaveActivation
<1>17. CASE RollbackStop(w)
  BY <1>17 DEF RollbackStop
<1>18. CASE RollbackSwitch(w)
  BY <1>18 DEF RollbackSwitch
<1>19. CASE RollbackRename(w)
  BY <1>19 DEF RollbackRename
<1>20. CASE RollbackStart(w)
  BY <1>20 DEF RollbackStart, StartService
<1>21. CASE RecordRollback(w)
  BY <1>21 DEF RecordRollback, SaveActivation
<1>22. CASE Exit(w)
  BY <1>22 DEF Exit, Gone
<1>23. CASE SetupFails(w)
  BY <1>23 DEF SetupFails
<1>24. CASE WorkerDies(w)
  <2>1. pc'[w] = "idle" /\ UNCHANGED <<versions, current, previous, running>> /\ pc[w] # "idle"
    BY <1>24 DEF WorkerDies, Killed, Gone
  <2> QED
    BY <2>1, RightIsResting
<1> QED
  BY <1>1, <1>2, <1>3, <1>4, <1>5, <1>6, <1>7, <1>8, <1>9, <1>10, <1>11, <1>12, <1>13, <1>14, <1>15,
     <1>16, <1>17, <1>18, <1>19, <1>20, <1>21, <1>22, <1>23, <1>24 DEF Updater

\* Every step keeps what the names lead to, if no two updaters have met.
LEMMA TreeKept == Basics /\ Alone /\ Tree /\ [Next]_vars => Tree'
<1> SUFFICES ASSUME Basics, Alone, Tree, [Next]_vars, ~overlapped', ~uncleared' PROVE TreeHolds'
  BY DEF Tree
<1>u. CASE UNCHANGED vars
  BY <1>u DEF vars, files, tree, locals, history, Tree, TreeHolds, TreeRight, Resting, Target
<1>h. ASSUME NEW u \in Upgrades \cup {NoUpgrade}, Heartbeat(u) PROVE TreeHolds'
  <2>1. TreeHolds /\ UNCHANGED <<platform, versions, current, previous, running, loaded, local, attempted, origin>>
        /\ running # NoBuild
    <3>1. ~overlapped /\ ~uncleared
      BY <1>h DEF Heartbeat, Basics, TypeOK
    <3> QED
      BY <1>h, <3>1 DEF Heartbeat, Tree, tree
  <2>2. CASE UNCHANGED pc
    BY <2>1, <2>2 DEF TreeHolds, TreeRight, Resting, Target
  <2>3. ASSUME NEW w \in Workers, Goto(w, "snapshot"), overlapped' = (overlapped \/ Busy # {}) PROVE TreeHolds'
    <3>1. \A v \in Workers : pc[v] = "idle"
      BY <2>3 DEF Busy
    <3>2. Resting /\ current \in versions
      BY <2>1, <3>1 DEF TreeHolds, Resting
    <3>3. pc'[w] = "snapshot" /\ \A v \in Workers : v # w => pc'[v] = "idle"
      BY <2>3, <3>1 DEF Goto, Basics, TypeOK
    <3> QED
      BY <2>1, <3>2, <3>3 DEF TreeHolds, TreeRight, Prior, Stopped, Switched
  <2> QED
    BY <1>h, <2>2, <2>3 DEF Heartbeat
<1>s. ASSUME NEW w \in Workers, Updater(w) \/ SetupFails(w) \/ WorkerDies(w) PROVE TreeHolds'
  <2>1. TypeOK
    BY DEF Basics
  <2>2. /\ pc[w] # "idle" /\ \A v \in Workers : v # w => pc'[v] = pc[v]
        /\ ~overlapped /\ ~uncleared
    BY <1>s, <2>1, OthersKept
  <2>3. \A v \in Workers : v # w => pc'[v] = "idle"
    BY <2>2 DEF Alone
  <2>4. IF pc'[w] = "idle" THEN Resting' ELSE TreeRight(w)'
    BY <1>s, <2>2, TreeStep DEF Tree, TreeHolds
  <2> QED
    BY <2>3, <2>4 DEF TreeHolds
<1>r. CASE Reboot
  <2>1. TreeHolds /\ UNCHANGED <<versions, current, previous>>
        /\ running' = IF current \in Builds THEN current ELSE NoBuild
    BY <1>r DEF Reboot, Tree, tree
  <2>2. \A v \in Workers : pc'[v] = "idle"
    BY <1>r DEF Reboot, Killed, Gone, Busy
  <2>3. Resting
    BY <2>1, RightIsResting DEF TreeHolds
  <2>4. Resting'
    BY <2>1, <2>3, BuildNames DEF Basics, Placed, Resting
  <2> QED
    BY <2>2, <2>4 DEF TreeHolds
<1> QED
  BY <1>u, <1>h, <1>s, <1>r DEF Next

-----------------------------------------------------------------------------
(* The service *)

\* What the record of a rollback says.
LEMMA RollbackRecord ==
  ASSUME TypeOK, NEW w \in Workers, RecordRollback(w)
  PROVE  activation'.state = IF pc[w] = "rb_record" THEN "ROLLED_BACK" ELSE "ROLLBACK_FAILED"
<1>1. \A s \in ActivationStates : [local[w] EXCEPT !.state = s].state = s
  BY SavedRecord DEF TypeOK
<1> QED
  BY <1>1 DEF RecordRollback, SaveActivation, ActivationStates

\* What a lone updater does to the service, step by step.
LEMMA ServiceStep ==
  ASSUME NEW w \in Workers, Basics, ServiceRight(w), ~gaveUp', faults' = 0,
         Updater(w) \/ SetupFails(w) \/ WorkerDies(w)
  PROVE  IF pc'[w] = "idle"
         THEN running' # NoBuild \/ activation'.state = "ROLLBACK_FAILED"
         ELSE ServiceRight(w)'
<1> USE BuildNames DEF Basics, TypeOK, Accounted, ServiceRight, Goto, files, tree, locals, history,
        Prior, Stopped, Switched, RollingBack
<1>1. CASE Snapshot(w)
  BY <1>1 DEF Snapshot
<1>2. CASE Load(w)
  BY <1>2 DEF Load
<1>3. CASE Pending(w)
  BY <1>3 DEF Pending
<1>4. CASE Download(w)
  BY <1>4 DEF Download
<1>5. CASE Install(w)
  BY <1>5 DEF Install, SaveActivation
<1>6. CASE Extract(w)
  BY <1>6 DEF Extract, SetLocal, Target
<1>7. CASE Stop(w)
  BY <1>7 DEF Stop
<1>8. CASE Activate(w)
  BY <1>8 DEF Activate
<1>9. CASE Switch(w)
  BY <1>9 DEF Switch, SetLocal, Target
<1>10. CASE Copy(w)
  BY <1>10 DEF Copy, Target
<1>11. CASE WriteMetadata(w)
  BY <1>11 DEF WriteMetadata
<1>12. CASE Record(w)
  BY <1>12 DEF Record, SaveActivation
<1>13. CASE Start(w)
  BY <1>13 DEF Start, StartService
<1>14. CASE WaitForHealth(w)
  BY <1>14 DEF WaitForHealth
<1>15. CASE RecordHealthy(w)
  BY <1>15 DEF RecordHealthy, Gone
<1>16. CASE Catch(w)
  BY <1>16 DEF Catch, SaveActivation
<1>17. CASE RollbackStop(w)
  BY <1>17 DEF RollbackStop
<1>18. CASE RollbackSwitch(w)
  BY <1>18 DEF RollbackSwitch
<1>19. CASE RollbackRename(w)
  BY <1>19 DEF RollbackRename
<1>20. CASE RollbackStart(w)
  BY <1>20 DEF RollbackStart, StartService
<1>21. CASE RecordRollback(w)
  <2>1. activation'.state = IF pc[w] = "rb_record" THEN "ROLLED_BACK" ELSE "ROLLBACK_FAILED"
    BY <1>21, RollbackRecord
  <2>2. pc[w] \in {"rb_record", "rb_failed"} /\ pc'[w] = "exit" /\ UNCHANGED running
    BY <1>21 DEF RecordRollback
  <2> QED
    BY <2>1, <2>2
<1>22. CASE Exit(w)
  BY <1>22 DEF Exit, Gone
<1>23. CASE SetupFails(w)
  BY <1>23 DEF SetupFails
<1>24. CASE WorkerDies(w)
  BY <1>24 DEF WorkerDies, Killed, Gone
<1> QED
  BY <1>1, <1>2, <1>3, <1>4, <1>5, <1>6, <1>7, <1>8, <1>9, <1>10, <1>11, <1>12, <1>13, <1>14, <1>15,
     <1>16, <1>17, <1>18, <1>19, <1>20, <1>21, <1>22, <1>23, <1>24 DEF Updater

\* Every step keeps what is known of the service, if no two updaters have met.
LEMMA ServiceKept == Basics /\ Alone /\ Service /\ [Next]_vars => Service'
<1> SUFFICES ASSUME Basics, Alone, Service, [Next]_vars, ~overlapped', ~gaveUp', faults' = 0 PROVE ServiceHolds'
  BY DEF Service
<1>t. TypeOK
  BY DEF Basics
<1>u. CASE UNCHANGED vars
  BY <1>u DEF vars, files, tree, locals, history, Service, ServiceHolds, ServiceRight
<1>h. ASSUME NEW u \in Upgrades \cup {NoUpgrade}, Heartbeat(u) PROVE ServiceHolds'
  <2>1. ServiceHolds /\ UNCHANGED <<activation, installed, backup, current, running, loaded, attempted, origin>>
        /\ running # NoBuild
    <3>1. ~overlapped
      BY <1>h DEF Heartbeat, Basics, TypeOK
    <3> QED
      BY <1>h, <3>1 DEF Heartbeat, Service, tree
  <2>2. CASE UNCHANGED pc
    BY <2>1, <2>2 DEF ServiceHolds, ServiceRight
  <2>3. ASSUME NEW w \in Workers, Goto(w, "snapshot"), overlapped' = (overlapped \/ Busy # {})
        PROVE  ServiceHolds'
    <3>1. \A v \in Workers : pc[v] = "idle"
      BY <2>3 DEF Busy
    <3>2. running # NoBuild
      BY <2>1, <3>1 DEF ServiceHolds
    <3>3. pc'[w] = "snapshot" /\ \A v \in Workers : v # w => pc'[v] = "idle"
      BY <2>3, <3>1 DEF Goto, Basics, TypeOK
    <3> QED
      BY <2>1, <3>2, <3>3 DEF ServiceHolds, ServiceRight, Prior, Stopped, Switched, RollingBack
  <2> QED
    BY <1>h, <2>2, <2>3 DEF Heartbeat
<1>s. ASSUME NEW w \in Workers, Updater(w) \/ SetupFails(w) \/ WorkerDies(w) PROVE ServiceHolds'
  <2>1. /\ pc[w] # "idle" /\ \A v \in Workers : v # w => pc'[v] = pc[v]
        /\ ~overlapped /\ ~gaveUp /\ faults = 0
    BY <1>s, <1>t, OthersKept
  <2>2. \A v \in Workers : v # w => pc'[v] = "idle"
    BY <2>1 DEF Alone
  <2>3. ServiceRight(w)
    BY <2>1 DEF Service, ServiceHolds
  <2>4. IF pc'[w] = "idle"
        THEN running' # NoBuild \/ activation'.state = "ROLLBACK_FAILED"
        ELSE ServiceRight(w)'
    BY <1>s, <2>3, ServiceStep
  <2> QED
    BY <2>2, <2>4 DEF ServiceHolds
<1>r. CASE Reboot
  BY <1>r, <1>t, UpgradeAssumption DEF Reboot, Killed, TypeOK
<1> QED
  BY <1>u, <1>h, <1>s, <1>r DEF Next

-----------------------------------------------------------------------------
(* The metadata *)

\* What a lone updater does to the metadata, step by step.
LEMMA MetadataStep ==
  ASSUME NEW w \in Workers, Basics, TreeRight(w), MetadataRight(w), ~uncleared', faults' = 0,
         Updater(w) \/ SetupFails(w) \/ WorkerDies(w)
  PROVE  IF pc'[w] = "idle"
         THEN running' # NoBuild \/ activation'.state # "ROLLBACK_FAILED" => Match(installed', current')
         ELSE MetadataRight(w)'
<1> USE BuildNames DEF Basics, TypeOK, Accounted, TreeRight, Resting, MetadataRight, Target, Goto,
        files, tree, locals, history, Prior, Stopped, Switched, RollingBack
<1>1. CASE Snapshot(w)
  BY <1>1 DEF Snapshot
<1>2. CASE Load(w)
  BY <1>2 DEF Load
<1>3. CASE Pending(w)
  BY <1>3 DEF Pending
<1>4. CASE Download(w)
  BY <1>4 DEF Download
<1>5. CASE Install(w)
  BY <1>5 DEF Install, SaveActivation
<1>6. CASE Extract(w)
  BY <1>6 DEF Extract, SetLocal, Target
<1>7. CASE Stop(w)
  BY <1>7 DEF Stop
<1>8. CASE Activate(w)
  BY <1>8 DEF Activate
<1>9. CASE Switch(w)
  BY <1>9 DEF Switch, SetLocal, Target
<1>10. CASE Copy(w)
  BY <1>10 DEF Copy, Target
<1>11. CASE WriteMetadata(w)
  BY <1>11 DEF WriteMetadata
<1>12. CASE Record(w)
  BY <1>12 DEF Record, SaveActivation
<1>13. CASE Start(w)
  BY <1>13 DEF Start, StartService
<1>14. CASE WaitForHealth(w)
  <2>1. Match(installed, current)
    BY <1>14 DEF WaitForHealth, Match
  <2> QED
    BY <1>14, <2>1 DEF WaitForHealth
<1>15. CASE RecordHealthy(w)
  <2>1. Match(installed, current)
    BY <1>15 DEF RecordHealthy, Match
  <2> QED
    BY <1>15, <2>1 DEF RecordHealthy, Gone
<1>16. CASE Catch(w)
  BY <1>16 DEF Catch, SaveActivation
<1>17. CASE RollbackStop(w)
  BY <1>17 DEF RollbackStop
<1>18. CASE RollbackSwitch(w)
  BY <1>18 DEF RollbackSwitch
<1>19. CASE RollbackRename(w)
  BY <1>19 DEF RollbackRename
<1>20. CASE RollbackStart(w)
  BY <1>20 DEF RollbackStart, StartService
<1>21. CASE RecordRollback(w)
  <2>1. activation'.state = IF pc[w] = "rb_record" THEN "ROLLED_BACK" ELSE "ROLLBACK_FAILED"
    BY <1>21, RollbackRecord
  <2>2. pc[w] \in {"rb_record", "rb_failed"} /\ pc'[w] = "exit" /\ UNCHANGED <<installed, backup, current, running>>
    BY <1>21 DEF RecordRollback
  <2> QED
    BY <2>1, <2>2
<1>22. CASE Exit(w)
  BY <1>22 DEF Exit, Gone
<1>23. CASE SetupFails(w)
  BY <1>23, UpgradeAssumption DEF SetupFails
<1>24. CASE WorkerDies(w)
  BY <1>24, UpgradeAssumption DEF WorkerDies, Killed
<1> QED
  BY <1>1, <1>2, <1>3, <1>4, <1>5, <1>6, <1>7, <1>8, <1>9, <1>10, <1>11, <1>12, <1>13, <1>14, <1>15,
     <1>16, <1>17, <1>18, <1>19, <1>20, <1>21, <1>22, <1>23, <1>24 DEF Updater

\* Every step keeps what the metadata names, if no two updaters have met.
LEMMA MetadataKept == Basics /\ Alone /\ Tree /\ Metadata /\ [Next]_vars => Metadata'
<1> SUFFICES ASSUME Basics, Alone, Tree, Metadata, [Next]_vars, ~overlapped', ~uncleared', faults' = 0
             PROVE  MetadataHolds'
  BY DEF Metadata
<1>t. TypeOK
  BY DEF Basics
<1>u. CASE UNCHANGED vars
  BY <1>u DEF vars, files, tree, locals, history, Metadata, MetadataHolds, MetadataRight
<1>h. ASSUME NEW u \in Upgrades \cup {NoUpgrade}, Heartbeat(u) PROVE MetadataHolds'
  <2>1. MetadataHolds /\ UNCHANGED <<activation, installed, backup, current, running, loaded, attempted, origin>>
        /\ running # NoBuild
    <3>1. ~overlapped
      BY <1>h DEF Heartbeat, Basics, TypeOK
    <3> QED
      BY <1>h, <3>1 DEF Heartbeat, Metadata, tree
  <2>2. CASE UNCHANGED pc
    BY <2>1, <2>2 DEF MetadataHolds, MetadataRight
  <2>3. ASSUME NEW w \in Workers, Goto(w, "snapshot"), overlapped' = (overlapped \/ Busy # {})
        PROVE  MetadataHolds'
    <3>1. \A v \in Workers : pc[v] = "idle"
      BY <2>3 DEF Busy
    <3>2. Match(installed, current)
      BY <2>1, <3>1 DEF MetadataHolds
    <3>3. pc'[w] = "snapshot" /\ \A v \in Workers : v # w => pc'[v] = "idle"
      BY <2>3, <3>1 DEF Goto, Basics, TypeOK
    <3> QED
      BY <2>1, <3>2, <3>3 DEF MetadataHolds, MetadataRight, Prior, Stopped, Switched, RollingBack
  <2> QED
    BY <1>h, <2>2, <2>3 DEF Heartbeat
<1>s. ASSUME NEW w \in Workers, Updater(w) \/ SetupFails(w) \/ WorkerDies(w) PROVE MetadataHolds'
  <2>1. /\ pc[w] # "idle" /\ \A v \in Workers : v # w => pc'[v] = pc[v]
        /\ ~overlapped /\ ~uncleared /\ faults = 0
    BY <1>s, <1>t, OthersKept
  <2>2. \A v \in Workers : v # w => pc'[v] = "idle"
    BY <2>1 DEF Alone
  <2>3. MetadataRight(w) /\ TreeRight(w)
    BY <2>1 DEF Metadata, MetadataHolds, Tree, TreeHolds
  <2>4. IF pc'[w] = "idle"
        THEN running' # NoBuild \/ activation'.state # "ROLLBACK_FAILED" => Match(installed', current')
        ELSE MetadataRight(w)'
    BY <1>s, <2>3, MetadataStep
  <2> QED
    BY <2>2, <2>4 DEF MetadataHolds
<1>r. CASE Reboot
  BY <1>r, <1>t, UpgradeAssumption DEF Reboot, Killed, TypeOK
<1> QED
  BY <1>u, <1>h, <1>s, <1>r DEF Next

-----------------------------------------------------------------------------
(* The theorems *)

IInv == Basics /\ Alone /\ OneUpdater /\ Tree /\ Service /\ Metadata

\* The invariant holds at the start, is kept by every step, and so holds always.
LEMMA InitRight == Init => IInv
<1> SUFFICES ASSUME Init PROVE IInv
  OBVIOUS
<1> USE BuildNames, NoRecordHeld DEF Init
<1>1. TypeOK
  <2>1. record \in [id : Upgrades \cup {NoUpgrade}, state : LocalStates]
    BY DEF NoRecord, LocalStates
  <2>2. faults \in 0..MaxFaults
    BY UpgradeAssumption
  <2>3. pc \in [Workers -> Steps] /\ local \in [Workers -> Activations]
    BY DEF Steps
  <2>4. attempted \in [Workers -> BOOLEAN]
    OBVIOUS
  <2> QED
    BY <2>1, <2>2, <2>3, <2>4 DEF TypeOK
<1>2. Instructed /\ Placed
  BY DEF Instructed, Placed, NoRecord
<1>3. \A w \in Workers : Accounted(w)
  BY DEF Accounted, Prior, Stopped, Switched, RollingBack
<1>4. Alone /\ OneUpdater
  BY DEF Alone, OneUpdater, Busy
<1>5. TreeHolds /\ ServiceHolds /\ MetadataHolds
  BY DEF TreeHolds, ServiceHolds, MetadataHolds, Resting, Match
<1> QED
  BY <1>1, <1>2, <1>3, <1>4, <1>5 DEF IInv, Basics, Tree, Service, Metadata

\* Every step keeps the invariant.
LEMMA NextRight == IInv /\ [Next]_vars => IInv'
<1> SUFFICES ASSUME IInv, [Next]_vars PROVE IInv'
  OBVIOUS
<1>1. Basics /\ TypeOK /\ Alone /\ OneUpdater /\ Tree /\ Service /\ Metadata
  BY DEF IInv, Basics
<1>2. Basics'
  BY <1>1, TypesKept, InstructedKept, PlacedKept, AccountedKept DEF Basics
<1>3. Alone' /\ OneUpdater'
  BY <1>1, AloneKept, OneUpdaterKept
<1>4. Tree' /\ Service' /\ Metadata'
  BY <1>1, TreeKept, ServiceKept, MetadataKept
<1> QED
  BY <1>2, <1>3, <1>4 DEF IInv

\* The invariant holds in every reachable state.
LEMMA RightAlways == Spec => []IInv
BY InitRight, NextRight, PTL DEF Spec

\* Every variable keeps its type, whoever meets whom.
THEOREM TypeCorrect == Spec => []TypeOK
<1>1. IInv => TypeOK
  BY DEF IInv, Basics
<1> QED
  BY <1>1, RightAlways, PTL

\* No upgrade has two updaters on Linux (launch_upgrade_worker_if_needed and the
\* name of the transient unit).
THEOREM OneAtATime == Spec => []OneUpdater
<1>1. IInv => OneUpdater
  BY DEF IInv
<1> QED
  BY <1>1, RightAlways, PTL

\* Whatever is interrupted, the host keeps a complete version to run
\* (activate_version, rollback_version).
THEOREM Survives == Spec => []SurvivingVersion
<1>1. IInv => SurvivingVersion
  <2> SUFFICES ASSUME IInv, platform # "linux", ~overlapped, ~uncleared
               PROVE  current \in versions \/ previous \in versions
    BY DEF IInv, Basics, Placed, SurvivingVersion
  <2>1. TreeHolds /\ Basics
    BY DEF IInv, Tree
  <2>2. Resting
    BY <2>1, RightIsResting DEF TreeHolds
  <2> QED
    BY <2>2 DEF Resting
<1> QED
  BY <1>1, RightAlways, PTL

\* A lone updater that is about to record ROLLED_BACK has restored what was active
\* before it switched, and that runs (rollback_version, start_service).
THEOREM RollsBack == Spec => []RollbackRestores
<1>1. IInv => RollbackRestores
  BY DEF IInv, Tree, TreeHolds, TreeRight, RollbackRestores, Restored
<1> QED
  BY <1>1, RightAlways, PTL

\* An updater that ends leaves the service running or says that it could not, and
\* leaves the metadata of what is active (run_upgrade_worker, updater_main).
THEOREM Ends == Spec => []EndsInOrder
<1>1. IInv => ServiceComesBack
  BY DEF IInv, Service, ServiceHolds, ServiceComesBack, Busy
<1>2. IInv => MetadataSettles
  BY DEF IInv, Metadata, MetadataHolds, MetadataSettles, Match, Busy
<1>3. IInv => EndsInOrder
  BY <1>1, <1>2 DEF EndsInOrder
<1> QED
  BY <1>3, RightAlways, PTL
==============================================================================
