------------------------------- MODULE Upgrade -------------------------------
(***************************************************************************)
(* Self-upgrade of the agent (src/core/upgrade.cpp,                        *)
(* src/core/upgrade_runtime.cpp, src/updater_main.cpp): the service        *)
(* accepts an instruction from a heartbeat's answer and starts a detached  *)
(* updater, which downloads, extracts, stops the service, switches the     *)
(* active version, starts it, waits for health, and rolls back when any of *)
(* this throws.                                                            *)
(*                                                                         *)
(* A step of an updater is one call that changes a file, a link or the     *)
(* service, so that another updater, the service, the death of the updater *)
(* or a restart of the host can come between any two.  An instruction is   *)
(* abstracted to its upgrade_id; BuildOf gives the build it installs, and  *)
(* two instructions for one build have the same artifact.  Progress        *)
(* reports are best effort, change nothing and are left out; the state     *)
(* files are written by replacement and their writes do not fail.          *)
(***************************************************************************)
EXTENDS Integers, FiniteSets

CONSTANTS
  Platforms,       \* a subset of {"windows", "linux"}
  Upgrades,        \* upgrade_ids the coordinator may offer
  BuildOf,
  InstalledBuild,  \* what was installed by hand
  Workers,
  MaxFaults        \* model bound: updaters killed or unable to begin, restarts of the host

NoBuild == "no build"
Partial == "partial copy"
NoUpgrade == "no upgrade"
Builds == {InstalledBuild} \cup {BuildOf[u] : u \in Upgrades}

ASSUME UpgradeAssumption ==
  /\ Platforms \subseteq {"windows", "linux"}
  /\ IsFiniteSet(Upgrades) /\ NoUpgrade \notin Upgrades
  /\ Builds \cap {NoBuild, Partial} = {}
  /\ MaxFaults \in Nat

VARIABLES
  platform,
  record,       \* upgrade/current.json: UpgradeState
  activation,   \* upgrade/activation.json: UpgradeActivationRecord
  installed,    \* installed-build.conf: the upgrade it names
  backup,       \* installed-build.previous.conf; NoUpgrade for .absent
  versions,     \* complete directories versions/<build-id>
  current,      \* the link or directory the service is started from
  previous,
  running,      \* the build the service runs
  pc,           \* what each updater does next
  unit,         \* the upgrade each updater was started for
  loaded,       \* state->instruction in each updater
  local,        \* the activation record each updater holds
  attempted,    \* activation_attempted
  origin,       \* old_target: current when activate_version read it
  overlapped,   \* history: two updaters have been at work at once
  gaveUp,       \* history: stop_service gave up waiting before anything was switched
  uncleared,    \* history: activate_version could not remove the directory previous
  died,         \* history: upgrades whose updater was killed after it had begun to install
  faults

files == <<record, activation, installed, backup>>
tree == <<versions, current, previous>>
locals == <<unit, loaded, local, attempted, origin>>
history == <<overlapped, gaveUp, uncleared, died, faults>>
vars == <<platform, files, tree, running, pc, locals, history>>

LocalStates == {"RECEIVED", "DOWNLOADING", "VERIFIED", "FAILED"}
\* ROLLBACK_FAILED stands for FAILED with that failure_code.
ActivationStates == {"INSTALLING", "LOCAL_HEALTHY", "FAILED", "ROLLED_BACK", "ROLLBACK_FAILED"}
Steps == {"idle", "snapshot", "load", "pending", "download", "install", "extract", "stop",
          "activate", "switch", "copy", "metadata", "record", "start", "health", "healthy",
          "catch", "rb_stop", "rb_switch", "rb_rename", "rb_start", "rb_record", "rb_failed",
          "exit"}

\* No current.json: like a failed upgrade it stops neither an acceptance nor starts
\* an updater.
NoRecord == [id |-> NoUpgrade, state |-> "FAILED"]
NoActivation == [id |-> NoUpgrade, state |-> "FAILED", active |-> NoBuild, previous |-> NoBuild]

Activations ==
  [id : Upgrades \cup {NoUpgrade}, state : ActivationStates, active : Builds \cup {NoBuild}, previous : Builds \cup {NoBuild}]

TypeOK ==
  /\ platform \in Platforms
  /\ record \in [id : Upgrades \cup {NoUpgrade}, state : LocalStates]
  /\ activation \in Activations
  /\ installed \in Upgrades \cup {NoUpgrade} /\ backup \in Upgrades \cup {NoUpgrade}
  /\ versions \subseteq Builds
  /\ current \in Builds \cup {NoBuild, Partial} /\ previous \in Builds \cup {NoBuild, Partial}
  /\ running \in Builds \cup {NoBuild}
  /\ pc \in [Workers -> Steps]
  /\ unit \in [Workers -> Upgrades \cup {NoUpgrade}] /\ loaded \in [Workers -> Upgrades \cup {NoUpgrade}]
  /\ local \in [Workers -> Activations]
  /\ attempted \in [Workers -> BOOLEAN]
  /\ origin \in [Workers -> Builds \cup {NoBuild, Partial}]
  /\ overlapped \in BOOLEAN /\ gaveUp \in BOOLEAN /\ uncleared \in BOOLEAN
  /\ died \subseteq Upgrades \cup {NoUpgrade} /\ faults \in 0..MaxFaults

Init ==
  /\ platform \in Platforms
  /\ record = NoRecord /\ activation = NoActivation
  /\ installed = NoUpgrade /\ backup = NoUpgrade
  /\ versions = {InstalledBuild} /\ current = InstalledBuild /\ previous = NoBuild
  /\ running = InstalledBuild
  /\ pc = [w \in Workers |-> "idle"]
  /\ unit = [w \in Workers |-> NoUpgrade] /\ loaded = [w \in Workers |-> NoUpgrade]
  /\ local = [w \in Workers |-> NoActivation]
  /\ attempted = [w \in Workers |-> FALSE]
  /\ origin = [w \in Workers |-> NoBuild]
  /\ overlapped = FALSE /\ gaveUp = FALSE /\ uncleared = FALSE /\ died = {} /\ faults = 0

Busy == {w \in Workers : pc[w] # "idle"}
Goto(w, step) == pc' = [pc EXCEPT ![w] = step]

\* The updaters W are gone, and their locals with them.
Gone(W) ==
  /\ pc' = [w \in Workers |-> IF w \in W THEN "idle" ELSE pc[w]]
  /\ unit' = [w \in Workers |-> IF w \in W THEN NoUpgrade ELSE unit[w]]
  /\ loaded' = [w \in Workers |-> IF w \in W THEN NoUpgrade ELSE loaded[w]]
  /\ local' = [w \in Workers |-> IF w \in W THEN NoActivation ELSE local[w]]
  /\ attempted' = [w \in Workers |-> w \notin W /\ attempted[w]]
  /\ origin' = [w \in Workers |-> IF w \in W THEN NoBuild ELSE origin[w]]

-----------------------------------------------------------------------------
(* The service *)

\* instruction_matches_build for the build identity the service has: the constants
\* compiled into what runs, and the artifact installed-build.conf names.
MatchesBuild(u) ==
  /\ u \in Upgrades /\ BuildOf[u] = running
  /\ installed # NoUpgrade => BuildOf[installed] = BuildOf[u]

\* activation_is_terminal_for
ActivationIsTerminal(u) ==
  activation.id = u /\ activation.state \in {"FAILED", "ROLLED_BACK", "ROLLBACK_FAILED"}

\* UpgradeStateStore::accept: whether it stores the instruction;
Accepts(u) ==
  /\ u \in Upgrades /\ record.id # u
  /\ \/ record.state = "FAILED"
     \/ MatchesBuild(record.id)
     \/ ActivationIsTerminal(record.id)
  /\ ~MatchesBuild(u)

\* whether it returns the one it has.  Otherwise it throws, and the rest of the
\* heartbeat is skipped.
Repeats(u) == u \in {record.id, NoUpgrade}

\* Mutant: an updater is started again although the upgrade was begun.
MayLaunch_Again(rec) == rec.state # "FAILED"

\* Mutant: only an upgrade nothing was done for is started.
MayLaunch_New(rec) ==
  /\ rec.state = "RECEIVED"
  /\ activation.id # rec.id
  /\ platform = "linux" => \A w \in Busy : unit[w] # rec.id

\* launch_upgrade_worker_if_needed.  On Linux the transient unit is named after the
\* upgrade, so systemd-run fails while an updater for it is at work.
MayLaunch(rec) ==
  /\ rec.state # "FAILED"
  /\ activation.id # rec.id
  /\ platform = "linux" => \A w \in Busy : unit[w] # rec.id

\* A heartbeat and its answer: send_heartbeat (or send_agent_hello), acceptance,
\* maybe_launch_upgrade.
Heartbeat(u) ==
  /\ running # NoBuild
  /\ Accepts(u) \/ Repeats(u)
  /\ record' = IF Accepts(u) THEN [id |-> u, state |-> "RECEIVED"] ELSE record
  /\ \/ \E w \in Workers \ Busy :
          /\ MayLaunch(record')
          /\ Goto(w, "snapshot")
          /\ unit' = [unit EXCEPT ![w] = record'.id]
          /\ overlapped' = (overlapped \/ Busy # {})
     \/ /\ ~MayLaunch(record') \/ Busy = Workers
        /\ UNCHANGED <<pc, unit, overlapped>>
  /\ UNCHANGED <<platform, activation, installed, backup, tree, running, loaded, local,
                 attempted, origin, gaveUp, uncleared, died, faults>>

-----------------------------------------------------------------------------
(* The updater: download *)

\* snapshot_installed_metadata
Snapshot(w) ==
  /\ pc[w] = "snapshot" /\ Goto(w, "load")
  /\ backup' = installed
  /\ UNCHANGED <<platform, record, activation, installed, tree, running, locals, history>>

\* run_upgrade_worker reads current.json.
Load(w) ==
  /\ pc[w] = "load" /\ Goto(w, IF record.state = "VERIFIED" THEN "install" ELSE "pending")
  /\ loaded' = [loaded EXCEPT ![w] = record.id]
  /\ local' = [local EXCEPT ![w] = [NoActivation EXCEPT !.id = record.id,
                                                       !.state = "INSTALLING"]]
  /\ attempted' = [attempted EXCEPT ![w] = FALSE]
  /\ UNCHANGED <<platform, files, tree, running, unit, origin, history>>

\* download_pending_upgrade reads it again.
Pending(w) ==
  /\ pc[w] = "pending"
  /\ \/ record.state = "VERIFIED" /\ Goto(w, "install") /\ UNCHANGED record
     \/ record.state = "FAILED" /\ Goto(w, "catch") /\ UNCHANGED record
     \/ /\ record.state \in {"RECEIVED", "DOWNLOADING"} /\ Goto(w, "download")
        /\ record' = [record EXCEPT !.state = "DOWNLOADING"]
  /\ loaded' = IF record.state = "FAILED" THEN loaded ELSE [loaded EXCEPT ![w] = record.id]
  /\ UNCHANGED <<platform, activation, installed, backup, tree, running, unit, local, attempted,
                 origin, history>>

\* download_and_verify, and the state saved after it.
Download(w) ==
  /\ pc[w] = "download"
  /\ \/ record' = [id |-> loaded[w], state |-> "VERIFIED"] /\ Goto(w, "install")
     \/ record' = [id |-> loaded[w], state |-> "FAILED"] /\ Goto(w, "catch")
  /\ UNCHANGED <<platform, activation, installed, backup, tree, running, locals, history>>

-----------------------------------------------------------------------------
(* The updater: activation *)

Target(w) == BuildOf[loaded[w]]
SetLocal(w, field, value) == local' = [local EXCEPT ![w][field] = value]

\* activation_store.save
SaveActivation(w, rec) ==
  /\ activation' = rec
  /\ local' = [local EXCEPT ![w] = rec]

Install(w) ==
  /\ pc[w] = "install" /\ Goto(w, "extract")
  /\ SaveActivation(w, local[w])
  /\ UNCHANGED <<platform, record, installed, backup, tree, running, unit, loaded, attempted,
                 origin, history>>

\* extract_version: the directory of the target, from the verified artifact unless
\* it is there already.
Extract(w) ==
  /\ pc[w] = "extract"
  /\ \/ /\ versions' = versions \cup {Target(w)} /\ SetLocal(w, "active", Target(w))
        /\ Goto(w, "stop")
     \/ Goto(w, "catch") /\ UNCHANGED <<versions, local>>
  /\ UNCHANGED <<platform, files, current, previous, running, unit, loaded, attempted, origin,
                 history>>

\* stop_service.  On Windows it can give up waiting, and the service stop later or
\* not at all; systemctl stop ends a process that does not stop by itself.
Stop(w) ==
  /\ pc[w] = "stop"
  /\ \/ /\ running' = NoBuild /\ Goto(w, "activate")
        /\ attempted' = [attempted EXCEPT ![w] = TRUE] /\ UNCHANGED gaveUp
     \/ /\ platform = "windows" /\ running' \in {running, NoBuild} /\ Goto(w, "catch")
        /\ gaveUp' = TRUE /\ UNCHANGED attempted
  /\ UNCHANGED <<platform, files, tree, unit, loaded, local, origin, overlapped, uncleared, died,
                 faults>>

\* activate_version, first: previous is replaced by a link to what is current, or
\* removed, which can fail after some of its files are gone.
Activate(w) ==
  /\ pc[w] = "activate"
  /\ \/ /\ previous' = IF platform = "linux" THEN current ELSE NoBuild
        /\ Goto(w, "switch") /\ UNCHANGED uncleared
     \/ /\ platform = "linux" /\ Goto(w, "catch") /\ UNCHANGED <<previous, uncleared>>
     \/ /\ platform = "windows" /\ previous # NoBuild /\ previous' \in {previous, Partial}
        /\ Goto(w, "catch") /\ uncleared' = TRUE
  /\ origin' = [origin EXCEPT ![w] = current]
  /\ UNCHANGED <<platform, files, versions, current, running, unit, loaded, local, attempted,
                 overlapped, gaveUp, died, faults>>

\* then: the link is switched in one rename, or the directory moved out of the way;
Switch(w) ==
  /\ pc[w] = "switch"
  /\ \/ /\ platform = "linux"
        /\ SetLocal(w, "previous", origin[w]) /\ current' = Target(w) /\ Goto(w, "metadata")
        /\ UNCHANGED previous
     \/ /\ platform = "windows"
        /\ \/ current # NoBuild /\ previous = NoBuild /\ previous' = current
           \/ current = NoBuild /\ UNCHANGED previous
        /\ current' = NoBuild /\ Goto(w, "copy")
        /\ UNCHANGED local
     \/ Goto(w, "catch") /\ UNCHANGED <<current, previous, local>>
  /\ UNCHANGED <<platform, files, versions, running, unit, loaded, attempted, origin, history>>

\* last, on Windows: the version is copied, file by file.
Copy(w) ==
  /\ pc[w] = "copy"
  /\ \/ current # Partial /\ current' = Partial /\ UNCHANGED pc
     \/ current = Partial /\ current' = Target(w) /\ Goto(w, "metadata")
     \/ Goto(w, "catch") /\ UNCHANGED current
  /\ UNCHANGED <<platform, files, versions, previous, running, locals, history>>

\* write_installed_build
WriteMetadata(w) ==
  /\ pc[w] = "metadata" /\ Goto(w, "record")
  /\ installed' = loaded[w]
  /\ UNCHANGED <<platform, record, activation, backup, tree, running, locals, history>>

Record(w) ==
  /\ pc[w] = "record" /\ Goto(w, "start")
  /\ SaveActivation(w, local[w])
  /\ UNCHANGED <<platform, record, installed, backup, tree, running, unit, loaded, attempted,
                 origin, history>>

\* start_service: the service manager starts what current holds, unless the service
\* runs already; it fails for an incomplete copy, and may for any build.
StartService(w, then, otherwise) ==
  \/ /\ running # NoBuild \/ current \in Builds
     /\ running' = IF running # NoBuild THEN running ELSE current
     /\ Goto(w, then)
  \/ running = NoBuild /\ UNCHANGED running /\ Goto(w, otherwise)

Start(w) ==
  /\ pc[w] = "start" /\ StartService(w, "health", "catch")
  /\ UNCHANGED <<platform, files, tree, locals, history>>

\* service_running and check_upgrade_health
Healthy(w) ==
  /\ running # NoBuild
  /\ activation.id = loaded[w] /\ activation.state \in {"INSTALLING", "LOCAL_HEALTHY"}
  /\ installed = loaded[w]
  /\ activation.active = Target(w) /\ current = activation.active

\* wait_for_health: healthy at some poll, or the time is up.
WaitForHealth(w) ==
  /\ pc[w] = "health"
  /\ \/ Healthy(w) /\ Goto(w, "healthy")
     \/ Goto(w, "catch")
  /\ UNCHANGED <<platform, files, tree, running, locals, history>>

RecordHealthy(w) ==
  /\ pc[w] = "healthy" /\ Gone({w})
  /\ activation' = [local[w] EXCEPT !.state = "LOCAL_HEALTHY"]
  /\ UNCHANGED <<platform, record, installed, backup, tree, running, history>>

-----------------------------------------------------------------------------
(* The updater: failure and rollback *)

\* Mutant: an updater that fails does not roll back.
Catch_NoRollback(w) ==
  /\ pc[w] = "catch" /\ Goto(w, "exit")
  /\ SaveActivation(w, [local[w] EXCEPT !.state = "FAILED"])
  /\ UNCHANGED <<platform, record, installed, backup, tree, running, unit, loaded, attempted,
                 origin, history>>

\* The first handler of run_upgrade_worker.
Catch(w) ==
  /\ pc[w] = "catch" /\ Goto(w, IF attempted[w] THEN "rb_stop" ELSE "exit")
  /\ SaveActivation(w, [local[w] EXCEPT !.state = "FAILED"])
  /\ UNCHANGED <<platform, record, installed, backup, tree, running, unit, loaded, attempted,
                 origin, history>>

RollbackStop(w) ==
  /\ pc[w] = "rb_stop"
  /\ \/ running' = NoBuild /\ Goto(w, "rb_switch")
     \/ platform = "windows" /\ running' \in {running, NoBuild} /\ Goto(w, "rb_failed")
  /\ UNCHANGED <<platform, files, tree, locals, history>>

\* Mutant: the current version is removed whether or not there is another.
RollbackSwitch_Unchecked(w) ==
  /\ pc[w] = "rb_switch"
  /\ \/ platform = "linux" /\ current' = local[w].previous /\ Goto(w, "rb_start")
     \/ platform = "windows" /\ current' = NoBuild /\ Goto(w, "rb_rename")
     \/ Goto(w, "rb_failed") /\ UNCHANGED current
  /\ UNCHANGED <<platform, files, versions, previous, running, locals, history>>

\* rollback_version: the link is switched back, if the record says to what, or the
\* current directory removed, if there is a previous one;
RollbackSwitch(w) ==
  /\ pc[w] = "rb_switch"
  /\ \/ /\ platform = "linux" /\ local[w].previous # NoBuild
        /\ current' = local[w].previous /\ Goto(w, "rb_start")
     \/ /\ platform = "windows" /\ previous # NoBuild
        /\ current' = NoBuild /\ Goto(w, "rb_rename")
     \/ Goto(w, "rb_failed") /\ UNCHANGED current
  /\ UNCHANGED <<platform, files, versions, previous, running, locals, history>>

\* then the previous one takes its place.
RollbackRename(w) ==
  /\ pc[w] = "rb_rename"
  /\ \/ previous # NoBuild /\ current' = previous /\ previous' = NoBuild /\ Goto(w, "rb_start")
     \/ Goto(w, "rb_failed") /\ UNCHANGED <<current, previous>>
  /\ UNCHANGED <<platform, files, versions, running, locals, history>>

\* Mutant: the old service is not started.
RollbackStart_Skipped(w) ==
  /\ pc[w] = "rb_start" /\ Goto(w, "rb_record")
  /\ UNCHANGED <<platform, files, tree, running, locals, history>>

RollbackStart(w) ==
  /\ pc[w] = "rb_start" /\ StartService(w, "rb_record", "rb_failed")
  /\ UNCHANGED <<platform, files, tree, locals, history>>

RecordRollback(w) ==
  /\ \/ /\ pc[w] = "rb_record"
        /\ SaveActivation(w, [local[w] EXCEPT !.state = "ROLLED_BACK"])
     \/ /\ pc[w] = "rb_failed"
        /\ SaveActivation(w, [local[w] EXCEPT !.state = "ROLLBACK_FAILED"])
  /\ Goto(w, "exit")
  /\ UNCHANGED <<platform, record, installed, backup, tree, running, unit, loaded, attempted,
                 origin, history>>

\* main: the metadata is restored when the record on disk says so.
Exit(w) ==
  /\ pc[w] = "exit" /\ Gone({w})
  /\ installed' = IF activation.state = "ROLLED_BACK" THEN backup ELSE installed
  /\ UNCHANGED <<platform, record, activation, backup, tree, running, history>>

-----------------------------------------------------------------------------
(* Faults *)

\* Whoever dies after the first activation record is saved is not started again.
Begun(w) == pc[w] \notin {"idle", "snapshot", "load", "pending", "download", "install"}

Killed(W) ==
  /\ faults < MaxFaults /\ faults' = faults + 1
  /\ died' = died \cup {local[w].id : w \in {x \in W : Begun(x)}}
  /\ Gone(W)

\* main throws before the snapshot: reconcile_linux_systemd_units fails, or there is
\* no room for it.  No activation record is saved, so the updater is started again.
SetupFails(w) ==
  /\ pc[w] = "snapshot" /\ Goto(w, "exit")
  /\ faults < MaxFaults /\ faults' = faults + 1
  /\ UNCHANGED <<platform, files, tree, running, locals, overlapped, gaveUp, uncleared, died>>

WorkerDies(w) ==
  /\ pc[w] # "idle" /\ Killed({w})
  /\ UNCHANGED <<platform, files, tree, running, overlapped, gaveUp, uncleared>>

\* The host restarts, and the service with it if there is something to start.
Reboot ==
  /\ Killed(Busy)
  /\ running' = IF current \in Builds THEN current ELSE NoBuild
  /\ UNCHANGED <<platform, files, tree, overlapped, gaveUp, uncleared>>

Updater(w) ==
  \/ Snapshot(w) \/ Load(w) \/ Pending(w) \/ Download(w)
  \/ Install(w) \/ Extract(w) \/ Stop(w) \/ Activate(w) \/ Switch(w) \/ Copy(w)
  \/ WriteMetadata(w) \/ Record(w) \/ Start(w) \/ WaitForHealth(w) \/ RecordHealthy(w)
  \/ Catch(w) \/ RollbackStop(w) \/ RollbackSwitch(w) \/ RollbackRename(w)
  \/ RollbackStart(w) \/ RecordRollback(w) \/ Exit(w)

Next ==
  \/ \E u \in Upgrades \cup {NoUpgrade} : Heartbeat(u)
  \/ \E w \in Workers : Updater(w) \/ SetupFails(w) \/ WorkerDies(w)
  \/ Reboot

\* The service sends heartbeats for as long as it runs, whether or not the
\* coordinator offers something, and an updater that lives runs on.
Spec ==
  /\ Init /\ [][Next]_vars
  /\ WF_vars(Heartbeat(NoUpgrade))
  /\ \A w \in Workers : WF_vars(Updater(w))

-----------------------------------------------------------------------------
(* Properties *)

\* Whatever is interrupted, the host keeps a complete version to run: the link on
\* Linux always leads to one; on Windows, where activate_version and rollback_version
\* move directories, current or previous is one, unless two updaters met or previous
\* could not be removed.
SurvivingVersion ==
  IF platform = "linux" THEN current \in versions
  ELSE overlapped \/ uncleared \/ {current, previous} \cap versions # {}

Restored(w) == current = origin[w] /\ running = origin[w]

\* When a lone updater is about to record ROLLED_BACK, what was active before it
\* switched is active and runs again, wherever it failed (rollback_version), unless
\* previous could not be removed.
RollbackRestores ==
  \A w \in Workers : pc[w] = "rb_record" /\ ~overlapped /\ ~uncleared => Restored(w)

\* No upgrade has two updaters on Linux: the unit name excludes a second one until
\* the first has recorded that it installs, and that record from then on.
OneUpdater ==
  platform = "linux" =>
    \A v, w \in Busy : v # w => unit[v] # unit[w]

\* "so subsequent old-agent build reports do not claim the failed target artifact
\* SHA": once an updater has ended without being killed and without failing to roll
\* back, installed-build.conf names what is active, after a success as after a
\* rollback.
MetadataSettles ==
  Busy = {} /\ ~overlapped /\ ~uncleared /\ faults = 0 /\ activation.state # "ROLLBACK_FAILED" =>
    installed = NoUpgrade \/ BuildOf[installed] = current

\* The same at every moment: "restores that metadata after successful rollback so
\* subsequent old-agent build reports do not claim the failed target artifact SHA".
\* The run shows the old service, started by run_upgrade_worker, read the metadata of
\* the failed target before updater_main restores it.
RolledBackReports ==
  activation.state = "ROLLED_BACK" /\ running # NoBuild => installed # activation.id

\* No updater leaves the service stopped and says nothing of it: unless it was killed,
\* met another one, or stop_service gave up waiting, the service runs when it has
\* ended, or the record says that rolling back failed (run_upgrade_worker's two
\* handlers).
ServiceComesBack ==
  Busy = {} /\ running = NoBuild /\ faults = 0 /\ ~overlapped /\ ~gaveUp =>
    activation.state = "ROLLBACK_FAILED"

\* What an updater leaves behind when it ends: ServiceComesBack and MetadataSettles.
EndsInOrder == ServiceComesBack /\ MetadataSettles

\* The upgrade was refused, installed, rolled back or superseded, or its updater was
\* killed after it had begun, or an earlier one left the service stopped.
Settled(u) ==
  \/ running = NoBuild /\ Busy = {}
  \/ record.id # u \/ record.state = "FAILED" \/ u \in died
  \/ activation.id = u /\ activation.state # "INSTALLING"

\* Every accepted instruction is settled, also when an updater dies while it
\* downloads: launch_upgrade_worker_if_needed starts another one.
EverySettles == \A u \in Upgrades : record.id = u ~> Settled(u)
==============================================================================
