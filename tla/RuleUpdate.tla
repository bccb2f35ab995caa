------------------------------ MODULE RuleUpdate ------------------------------
(***************************************************************************)
(* Central rule bundles and YARA content (src/core/rule_convergence.cpp,   *)
(* src/core/rule_fleet_client.cpp): the answer to a heartbeat names the    *)
(* bundle the coordinator wants; when the bundle on disk is another, the   *)
(* service leaves a marker and starts a detached `fleet rules-update`,     *)
(* which fetches, replaces the files, acknowledges, restarts the service   *)
(* and puts the previous files back when this fails.  The same update can  *)
(* be run by hand; that of the YARA content by hand or by a timer.         *)
(*                                                                         *)
(* A step of an update is one call that changes a file or the service, so  *)
(* that another update, the service or the death of the updater can come   *)
(* between any two.  A bundle is a model value that stands for its text,   *)
(* its revision and its SHA-256; a temporary file is written in one step.  *)
(***************************************************************************)
EXTENDS Naturals, Sequences, FiniteSets

CONSTANTS
  Updaters,
  Sites            \* endpoints to explore: their os, the YARA content they have (`yara`, perhaps NoFile), the
                   \* releases [rules, yara] the coordinator asks for over time, and as model bounds the failures (calls that fail, updaters killed, deaths of the
                   \* service) and the updates and refreshes by hand

NoFile == "no file"
BuiltIn == "built-in rules"
NoTemp == "no temporary"
NoUnit == "no unit"
NoMarker == [sha256 |-> "none", recent |-> FALSE]

VARIABLES
  site,
  release,    \* index in site.releases of what the coordinator wants
  file,       \* rules/active.json, yarax-content/active.yar and active.meta
  temp,       \* the .tmp each of them is replaced from
  marker,     \* rules/convergence.pending: [sha256, recent]
  service,    \* "up", "stopping" or "down"
  serving,    \* the rule bundle the service loaded when it started
  unit,       \* the bundle in the name of each updater's unit, if the unit also names the process of the service
  job,        \* each updater
  company,    \* history: updaters that were at work beside another of their kind
  unforced,   \* history: no marker expired, nothing was run or refreshed by hand, no release changed
  failures,
  byHand

ruleVars == <<site, release, file, temp, marker, service, serving, unit, job, company, unforced, failures, byHand>>

Kinds == {"rules", "yara"}
RuleFiles == {"active.json", "active.yar", "active.meta"}
FilesOf == [rules |-> <<"active.json">>, yara |-> <<"active.yar", "active.meta">>]
\* Every site is asked for something, and a bundle is never the absence of one.
ASSUME SitesAssumption ==
  \A s \in Sites :
    /\ Len(s.releases) \in Nat \ {0}
    /\ \A i \in 1..Len(s.releases), kind \in Kinds : s.releases[i][kind] # NoFile

Idle == [pc |-> "idle", kind |-> "rules", bundle |-> NoFile, previous |-> [f \in RuleFiles |-> NoFile],
         at |-> 1, then |-> "failed", found |-> [f \in RuleFiles |-> NoFile], torn |-> FALSE]

\* What the coordinator's answers name: RuleControlDecision's desired bundle.
Wanted(kind) == site.releases[release][kind]

\* active_rule_bundle_state, RuleSetLoader::active: the bundle on disk, else the built-in one.
Active == IF file["active.json"] = NoFile THEN BuiltIn ELSE file["active.json"]

RulesInit ==
  /\ site \in Sites
  /\ release = 1
  /\ file = [f \in RuleFiles |-> IF f = "active.json" THEN NoFile ELSE site.yara] /\ temp = [f \in RuleFiles |-> NoTemp]
  /\ marker = NoMarker
  /\ service = "up" /\ serving = BuiltIn /\ unit = [w \in Updaters |-> NoUnit]
  /\ job = [w \in Updaters |-> Idle]
  /\ company = {} /\ unforced = TRUE /\ failures = 0 /\ byHand = 0

Fails == failures < site.failures /\ failures' = failures + 1
Goes == UNCHANGED failures

-----------------------------------------------------------------------------
(* The coordinator, the clock and the service. *)

\* The operator of the fleet assigns other content.
Release ==
  /\ release < Len(site.releases) /\ release' = release + 1
  /\ unforced' = FALSE
  /\ UNCHANGED <<site, file, temp, marker, service, serving, unit, job, company, failures, byHand>>

\* Ten minutes pass after the marker was written.
MarkerAges ==
  /\ marker.recent
  /\ marker' = [marker EXCEPT !.recent = FALSE]
  /\ unforced' = FALSE
  /\ UNCHANGED <<site, release, file, temp, service, serving, unit, job, company, failures, byHand>>

\* The service loads its rules once, when it starts.
Starts == service' = "up" /\ serving' = Active /\ unit' = [w \in Updaters |-> NoUnit]

\* The service dies; systemd or the service control manager restarts it.
ServiceDies ==
  /\ service = "up" /\ service' = "down" /\ Fails
  /\ UNCHANGED <<site, release, file, temp, marker, serving, unit, job, company, unforced, byHand>>
ServiceStarts ==
  /\ service = "down" /\ Starts
  /\ UNCHANGED <<site, release, file, temp, marker, job, company, unforced, failures, byHand>>
\* A stop that reload_service_if_running no longer waits for comes to its end.
ServiceStops ==
  /\ service = "stopping" /\ service' = "down"
  /\ UNCHANGED <<site, release, file, temp, marker, serving, unit, job, company, unforced, failures, byHand>>

-----------------------------------------------------------------------------
(* Deciding to update. *)

Working(w) == job[w].pc # "idle"
\* main of a detached `fleet rules-update` or `fleet yarax-content-update`.
BeginUpdate(w, kind, name) ==
  /\ ~Working(w)
  /\ job' = [job EXCEPT ![w] = [Idle EXCEPT !.pc = "fetch", !.kind = kind]]
  /\ unit' = [unit EXCEPT ![w] = name]
  /\ LET others == {v \in Updaters : Working(v) /\ job[v].kind = kind}
     IN company' = IF others = {} THEN company ELSE company \cup others \cup {w}

\* As MarkerRecent below, but the marker never expires.
MarkerStands(sha256) == marker.sha256 = sha256
\* rule_convergence_marker_recent
MarkerRecent(sha256) == marker.sha256 = sha256 /\ marker.recent

\* rule_convergence_write_marker, rule_convergence_remove_marker
WriteMarker(sha256) == marker' = [sha256 |-> sha256, recent |-> TRUE]
RemoveMarker == marker' = NoMarker

\* rule_convergence_launch_worker: a transient systemd unit, named after the
\* service's process and the bundle, or a detached process.
UnitTaken(sha256) == site.os = "linux" /\ \E w \in Updaters : unit[w] = sha256
LaunchWorker(sha256) ==
  \/ /\ ~UnitTaken(sha256) /\ Goes
     /\ WriteMarker(sha256)
     /\ \E w \in Updaters : BeginUpdate(w, "rules", sha256)
  \/ /\ IF UnitTaken(sha256) THEN Goes ELSE Fails
     /\ RemoveMarker
     /\ UNCHANGED <<job, unit, company>>

\* As Accept below, but the marker is only written when the worker is done.
AcceptUnmarked(refresh) ==
  LET desired == Wanted("rules")
      drift == Active # desired
  IN  /\ service = "up"
      /\ refresh => byHand < site.byHand
      /\ byHand' = IF refresh THEN byHand + 1 ELSE byHand
      /\ unforced' = (unforced /\ ~refresh)
      /\ drift \/ refresh
      /\ ~UnitTaken(desired) /\ Goes /\ marker' = marker
      /\ \E w \in Updaters : BeginUpdate(w, "rules", desired)
      /\ UNCHANGED <<site, release, file, temp, service, serving>>
\* accept_rule_control_from_coordinator_response, on the answer to AgentHello
\* and to every heartbeat; `refresh` is refreshRequested.
Accept(refresh) ==
  LET desired == Wanted("rules")
      drift == Active # desired
  IN  /\ service = "up"
      /\ refresh => byHand < site.byHand
      /\ byHand' = IF refresh THEN byHand + 1 ELSE byHand
      /\ unforced' = (unforced /\ ~refresh)
      /\ \/ ~drift /\ ~refresh /\ RemoveMarker /\ UNCHANGED <<job, unit, company, failures>>
         \/ (drift \/ refresh) /\ MarkerRecent(desired) /\ UNCHANGED <<marker, job, unit, company, failures>>
         \/ (drift \/ refresh) /\ ~MarkerRecent(desired) /\ LaunchWorker(desired)
      /\ UNCHANGED <<site, release, file, temp, service, serving>>

\* `fleet rules-update` run by hand, or `fleet yarax-content-update` by hand or by
\* its timer; the latter is refused on Windows.
ByHand(w, kind) ==
  /\ byHand < site.byHand /\ byHand' = byHand + 1
  /\ kind = "yara" => site.os = "linux"
  /\ BeginUpdate(w, kind, NoUnit)
  /\ unforced' = FALSE
  /\ UNCHANGED <<site, release, file, temp, marker, service, serving, failures>>

-----------------------------------------------------------------------------
(* An update: update_rules_from_coordinator, update_yarax_content_from_coordinator. *)

Names(w) == FilesOf[job[w].kind]
This(w) == Names(w)[job[w].at]
IsLast(w) == job[w].at = Len(Names(w))
Proceed(w, pc) == job' = [job EXCEPT ![w].pc = pc]
Keeps == UNCHANGED <<site, release, marker, company, unforced, byHand>>
KeepsFiles == UNCHANGED <<file, temp>>
KeepsService == UNCHANGED <<service, serving, unit>>

\* To the next file of the update, or on to what comes after the last.
Advance(w, more, finished) ==
  job' = [job EXCEPT ![w].pc = IF IsLast(w) THEN finished ELSE more, ![w].at = IF IsLast(w) THEN 1 ELSE @ + 1]

\* fetch_rule_bundle, load_text and the check of the schema; parse_yarax_content.
Fetch(w) ==
  /\ job[w].pc = "fetch"
  /\ \/ Goes /\ job' = [job EXCEPT ![w].pc = "stage", ![w].bundle = Wanted(job[w].kind), ![w].found = file]
     \/ Fails /\ job' = [job EXCEPT ![w].pc = "failed", ![w].found = file]
  /\ Keeps /\ KeepsFiles /\ KeepsService

\* atomic_write: the temporary file, then its rename.  Either may fail; the
\* rename does when another update has moved the shared temporary away.
Stage(w) ==
  /\ job[w].pc = "stage"
  /\ LET read == IF job[w].at = 1 THEN file ELSE job[w].previous IN
     \/ Goes /\ temp' = [temp EXCEPT ![This(w)] = job[w].bundle]
             /\ job' = [job EXCEPT ![w].pc = "rename", ![w].previous = read]
     \/ Fails /\ UNCHANGED temp
              /\ job' = [job EXCEPT ![w].pc = "failed", ![w].torn = TRUE]
  /\ UNCHANGED file /\ Keeps /\ KeepsService
Replace(w, here, more, finished) ==
  /\ job[w].pc = here
  /\ temp' = [temp EXCEPT ![This(w)] = NoTemp]
  /\ IF temp[This(w)] = NoTemp
       THEN UNCHANGED file /\ job' = [job EXCEPT ![w].pc = "failed", ![w].torn = TRUE]
       ELSE file' = [file EXCEPT ![This(w)] = temp[This(w)]] /\ Advance(w, more, finished)
  /\ Goes /\ Keeps /\ KeepsService
Rename(w) == Replace(w, "rename", "stage", "installed")

\* The acknowledgement INSTALLED; without it the previous files are put back.
Installed(w) ==
  /\ job[w].pc = "installed"
  /\ \/ Goes /\ Proceed(w, "reload")
     \/ Fails /\ job' = [job EXCEPT ![w].pc = "restore", ![w].then = "failed"]
  /\ Keeps /\ KeepsFiles /\ KeepsService

\* reload_service_if_running up to the stop: nothing when the service does not
\* run.  systemd does not call a service active that is stopping; Windows'
\* updater takes every state but SERVICE_STOPPED for running.
Runs == service = "up" \/ (site.os = "windows" /\ service = "stopping")
Stop(w, here, stopped, skipped, thrown) ==
  /\ job[w].pc = here
  /\ \/ ~Runs /\ Goes /\ Proceed(w, skipped) /\ KeepsService
     \/ Runs /\ Goes /\ Proceed(w, stopped) /\ service' = "down" /\ UNCHANGED <<serving, unit>>
     \/ Runs /\ Fails /\ Proceed(w, thrown) /\ service' \in {service, "stopping"} /\ UNCHANGED <<serving, unit>>
  /\ Keeps /\ KeepsFiles
\* ... and its start, which fails with the service down or late.
Start(w, here, done, thrown) ==
  /\ job[w].pc = here
  /\ \/ Goes /\ Proceed(w, done) /\ IF service = "up" THEN KeepsService ELSE Starts
     \/ Fails /\ Proceed(w, thrown) /\ KeepsService
     \/ Fails /\ Proceed(w, thrown) /\ service = "down" /\ Starts
  /\ Keeps /\ KeepsFiles
\* As Reload below, but ACTIVE is acknowledged also when there was nothing to reload.
ReloadAssumed(w) ==
  \/ Stop(w, "reload", "start", "active", "not reloaded")
  \/ Start(w, "start", "active", "not reloaded")
\* The reload that puts the files in force.
Reload(w) ==
  \/ Stop(w, "reload", "start", "done", "not reloaded")
  \/ Start(w, "start", "active", "not reloaded")
NotReloaded(w) ==
  /\ job[w].pc = "not reloaded"
  /\ job' = [job EXCEPT ![w].pc = "restore", ![w].then = "again"]
  /\ Goes /\ Keeps /\ KeepsFiles /\ KeepsService

\* As RestorePrevious below, but of the first file only.
RestoreFirst(w) ==
  /\ job[w].pc = "restore"
  /\ file' = [file EXCEPT ![This(w)] = job[w].previous[This(w)]] /\ Proceed(w, job[w].then)
  /\ UNCHANGED temp /\ Goes /\ Keeps /\ KeepsService
\* restore_previous of each file: atomic_write of what was there, or a removal.
RestorePrevious(w) ==
  LET old == job[w].previous[This(w)] IN
  \/ /\ job[w].pc = "restore"
     /\ \/ /\ old = NoFile /\ Goes
           /\ file' = [file EXCEPT ![This(w)] = NoFile] /\ UNCHANGED temp
           /\ Advance(w, "restore", job[w].then)
        \/ /\ old # NoFile /\ Goes
           /\ temp' = [temp EXCEPT ![This(w)] = old] /\ UNCHANGED file
           /\ Proceed(w, "put back")
        \/ /\ old # NoFile /\ Fails
           /\ job' = [job EXCEPT ![w].pc = "failed", ![w].torn = TRUE] /\ KeepsFiles
     /\ Keeps /\ KeepsService
  \/ Replace(w, "put back", "restore", job[w].then)

\* After a failed reload: once more, whatever comes of it, and APPLY_FAILED.
ReloadAgain(w) ==
  \/ Stop(w, "again", "start again", "failed", "failed")
  \/ Start(w, "start again", "failed", "failed")

\* The acknowledgement ACTIVE; when it is lost, the update throws and keeps the bundle.
AckActive(w) ==
  /\ job[w].pc = "active"
  /\ Proceed(w, "done") /\ (Goes \/ Fails)
  /\ Keeps /\ KeepsFiles /\ KeepsService

Gone(w) ==
  /\ job' = [job EXCEPT ![w] = Idle] /\ unit' = [unit EXCEPT ![w] = NoUnit] /\ company' = company \ {w}
  /\ UNCHANGED <<site, release, file, temp, marker, service, serving, unforced, byHand>>
Exit(w) == job[w].pc \in {"done", "failed"} /\ Goes /\ Gone(w)
Killed(w) == Working(w) /\ Fails /\ Gone(w)

Update(w) ==
  \/ Fetch(w) \/ Stage(w) \/ Rename(w) \/ Installed(w) \/ Reload(w) \/ NotReloaded(w) \/ RestorePrevious(w) \/ ReloadAgain(w)
  \/ AckActive(w) \/ Exit(w)

RulesNext ==
  \/ Release \/ MarkerAges \/ ServiceDies \/ ServiceStarts \/ ServiceStops
  \/ \E refresh \in BOOLEAN : Accept(refresh)
  \/ \E w \in Updaters, kind \in Kinds : ByHand(w, kind)
  \/ \E w \in Updaters : Update(w) \/ Killed(w)
RulesFairness ==
  /\ WF_ruleVars(Accept(FALSE)) /\ WF_ruleVars(MarkerAges) /\ WF_ruleVars(ServiceStops)
  /\ \A w \in Updaters : WF_ruleVars(Update(w))
RulesSpec == RulesInit /\ [][RulesNext]_ruleVars /\ RulesFairness

-----------------------------------------------------------------------------
(* Properties *)

\* An updater that had no other of its kind beside it acknowledges ACTIVE only
\* when the bundle it fetched is the one the service's last start loaded
\* (rule_fleet_client.cpp:332).
ActiveIsServed ==
  \A w \in Updaters : job[w].pc = "active" /\ job[w].kind = "rules" /\ w \notin company => serving = job[w].bundle

\* An update that has ended, without another of its kind beside it, left all of
\* its files new or all of them as it found them, so that YARA content and its
\* metadata stay the pair yarax_state_from_meta accepts; a failed write of its
\* own is the only excuse (rule_fleet_client.cpp:314, 318, 326, 364, 369, 376).
AllOrNothing ==
  \A w \in Updaters :
    LET mine == {FilesOf[job[w].kind][i] : i \in 1..Len(FilesOf[job[w].kind])}
    IN  w \notin company =>
          /\ job[w].pc = "done" => \A f \in mine : file[f] = job[w].bundle
          /\ job[w].pc = "failed" /\ ~job[w].torn => \A f \in mine : file[f] = job[w].found[f]

\* An update without another beside it is whole and true: ActiveIsServed and AllOrNothing.
UpdateIsWhole == ActiveIsServed /\ AllOrNothing

\* While no marker expires, no release changes and nobody refreshes or updates
\* by hand, the service never has two updaters between their fetch and their
\* last write of the bundle, through all its restarts (the comment at
\* rule_convergence.cpp:222).
Writing(w) == job[w].pc \in {"fetch", "stage", "rename", "installed", "reload", "start", "not reloaded", "restore", "put back"}
OneWriter == unforced => Cardinality({w \in Updaters : Writing(w)}) <= 1

\* Whatever overlapped, failed or was killed: unless the service stays down,
\* the bundle on disk becomes and stays the one the coordinator asks for.
BundleConverges == <>[](service = "down") \/ <>[](Active = Wanted("rules"))

\* As BundleConverges for the rules in force: violated when an updater is
\* killed between its rename and its reload, since the service compares the
\* file, not what it loaded.
RulesTakeEffect == <>[](service = "down") \/ <>[](serving = Wanted("rules"))

\* A finding's rule_set names the rule set that was in force when it was
\* produced: violated between an update's rename and its reload, since the
\* payload is built from the file.
FindingNamesItsRules == service = "up" => Active = serving
==============================================================================
