------------------------------ MODULE RuleProofs ------------------------------
(***************************************************************************)
(* UpdateIsWhole and OneWriter of RuleUpdate for any number of updaters,   *)
(* releases, failures, refreshes and updates by hand.                      *)
(***************************************************************************)
EXTENDS RuleUpdate, FiniteSetTheorems, TLAPS

PCs == {"idle", "fetch", "stage", "rename", "installed", "reload", "start", "active", "done", "not reloaded",
        "restore", "put back", "again", "start again", "failed"}
Bundles ==
  {NoFile} \cup {s.yara : s \in Sites}
           \cup UNION {{s.releases[i][kind] : i \in 1..Len(s.releases), kind \in Kinds} : s \in Sites}
Contents == [RuleFiles -> Bundles]
Jobs ==
  [pc : PCs, kind : Kinds, bundle : Bundles, previous : Contents, at : 1..2, then : {"failed", "again"},
   found : Contents, torn : BOOLEAN]

\* The kind of update a file belongs to, and its place among the files of it.
KindOf(f) == IF f = "active.json" THEN "rules" ELSE "yara"
Place(f) == IF f = "active.meta" THEN 2 ELSE 1

Types ==
  /\ site \in Sites /\ release \in 1..Len(site.releases)
  /\ file \in Contents /\ temp \in [RuleFiles -> Bundles \cup {NoTemp}]
  /\ job \in [Updaters -> Jobs]

\* What an update knows by itself: it is at its second file only while it
\* replaces or restores, and has a bundle once it has fetched one.
JobShape(j) ==
  /\ j.at = 2 => j.kind = "yara" /\ j.pc \in {"stage", "rename", "restore", "put back", "failed"}
  /\ j.pc \notin {"idle", "fetch", "failed"} => j.bundle # NoFile

Replacing == {"stage", "rename"}
Replaced == {"installed", "reload", "start", "active", "done", "not reloaded"}
Restoring == {"restore", "put back"}
Restored(j) == j.pc \in {"again", "start again"} \/ (j.pc = "failed" /\ ~j.torn)

\* What the files of a lone update hold, by how far it is: new up to the place
\* it has reached and as found from there on, or the other way round.
FilesRight(j, fs, ts) ==
  \A f \in RuleFiles : KindOf(f) = j.kind =>
    /\ j.pc \in Replacing => fs[f] = IF Place(f) < j.at THEN j.bundle ELSE j.found[f]
    /\ j.pc \in Replaced => fs[f] = j.bundle
    /\ j.pc \in Restoring => fs[f] = IF Place(f) < j.at THEN j.found[f] ELSE j.bundle
    /\ Restored(j) => fs[f] = j.found[f]
    /\ (j.pc = "stage" /\ j.at = 2) \/ j.pc = "rename" \/ j.pc \in Replaced \cup Restoring => j.previous[f] = j.found[f]
    /\ j.pc = "rename" /\ Place(f) = j.at => ts[f] = j.bundle
    /\ j.pc = "put back" /\ Place(f) = j.at => ts[f] = j.previous[f]

\* What a lone update of the rules knows of the service it restarts: from its
\* stop on, only a start that loads the new bundle brings it up.
ServedRight(j, state, loaded) ==
  j.kind = "rules" =>
    /\ j.pc = "start" => state = "down" \/ loaded = j.bundle
    /\ j.pc = "active" => loaded = j.bundle

\* Updates of one kind that are at work together know it.
CompanyKnown ==
  \A v, w \in Updaters : v # w /\ Working(v) /\ Working(w) /\ job[v].kind = job[w].kind => v \in company
JobRight(w) ==
  /\ JobShape(job[w])
  /\ w \notin company => FilesRight(job[w], file, temp) /\ ServedRight(job[w], service, serving)
IInv == Types /\ CompanyKnown /\ \A w \in Updaters : JobRight(w)

-----------------------------------------------------------------------------
(* Operators *)

\* The files of a kind: each has its own place, and only YARA content has two.
LEMMA FileNames ==
  ASSUME NEW kind \in Kinds, NEW i \in 1..2, i = 2 => kind = "yara"
  PROVE  /\ FilesOf[kind][i] \in RuleFiles
         /\ KindOf(FilesOf[kind][i]) = kind
         /\ Place(FilesOf[kind][i]) = i
         /\ \A f \in RuleFiles : KindOf(f) = kind /\ Place(f) = i => f = FilesOf[kind][i]
         /\ Len(FilesOf[kind]) = IF kind = "yara" THEN 2 ELSE 1
<1>1. CASE kind = "rules"
  <2>1. i = 1 /\ FilesOf[kind] = <<"active.json">>
    BY <1>1 DEF FilesOf
  <2> QED BY <1>1, <2>1 DEF RuleFiles, KindOf, Place
<1>2. CASE kind = "yara"
  <2>1. FilesOf[kind] = <<"active.yar", "active.meta">>
    BY <1>2, Zenon DEF FilesOf
  <2> QED BY <1>2, <2>1 DEF RuleFiles, KindOf, Place
<1> QED BY <1>1, <1>2, Zenon DEF Kinds

\* A file comes first or second among those of its kind.
LEMMA Places == ASSUME NEW f \in RuleFiles PROVE Place(f) \in 1..2 /\ (Place(f) = 2 => KindOf(f) = "yara")
<1>1. CASE f = "active.meta"
  BY <1>1 DEF Place, KindOf
<1>2. CASE f # "active.meta"
  BY <1>2 DEF Place
<1> QED BY <1>1, <1>2, Zenon

\* What the policy of the site wants installed is a bundle.
LEMMA WantedIsABundle ==
  ASSUME Types, NEW kind \in Kinds
  PROVE  Wanted(kind) \in Bundles /\ Wanted(kind) # NoFile
BY SitesAssumption DEF Types, Wanted, Bundles

\* The locals of an updater that is not at work are well formed.
LEMMA IdleIsAJob == Idle \in Jobs /\ JobShape(Idle) /\ Idle.pc = "idle"
BY DEF Idle, Jobs, PCs, Kinds, Bundles, Contents, JobShape

\* An update that has renamed all its files is back at the first of them.
LEMMA AtTheFirst ==
  ASSUME NEW j \in Jobs, JobShape(j), j.pc \in Replaced
  PROVE  j.at = 1 /\ \A f \in RuleFiles : ~(Place(f) < j.at)
<1>1. j.at = 1
  <2>1. j.at \in 1..2
    BY Zenon DEF Jobs
  <2>2. j.at # 2
    BY Zenon DEF JobShape, Replaced
  <2> QED BY <2>1, <2>2
<1>2. ASSUME NEW f \in RuleFiles PROVE ~(Place(f) < j.at)
  <2>1. Place(f) \in 1..2
    BY Places, Zenon
  <2> QED BY <1>1, <2>1
<1> QED BY <1>1, <1>2, Zenon

\* The file an update is at.
LEMMA ThisFile ==
  ASSUME Types, NEW w \in Updaters, JobShape(job[w])
  PROVE  /\ This(w) \in RuleFiles /\ KindOf(This(w)) = job[w].kind /\ Place(This(w)) = job[w].at
         /\ \A f \in RuleFiles : KindOf(f) = job[w].kind /\ Place(f) = job[w].at => f = This(w)
         /\ IsLast(w) <=> ~(job[w].kind = "yara" /\ job[w].at = 1)
<1>1. job[w].kind \in Kinds /\ job[w].at \in 1..2 /\ (job[w].at = 2 => job[w].kind = "yara")
  BY Zenon DEF Types, Jobs, JobShape
<1>2. IsLast(w) <=> job[w].at = IF job[w].kind = "yara" THEN 2 ELSE 1
  BY <1>1, FileNames DEF IsLast, Names
<1> QED BY <1>1, <1>2, FileNames DEF This, Names

-----------------------------------------------------------------------------
(* UpdateIsWhole *)

\* The service starts with what is on disk, or stops.
ServiceMoves ==
  \/ UNCHANGED <<service, serving>>
  \/ service' = "up" /\ serving' = Active
  \/ UNCHANGED serving /\ (service = "down" => service' = "down")

\* An update that stands by while others write other files and the service moves.
LEMMA Bystander ==
  ASSUME IInv, NEW v \in Updaters, v \notin company, ServiceMoves,
         \A f \in RuleFiles : KindOf(f) = job[v].kind => file'[f] = file[f] /\ temp'[f] = temp[f]
  PROVE  FilesRight(job[v], file', temp') /\ ServedRight(job[v], service', serving')
<1> DEFINE j == job[v]
<1>1. j \in Jobs /\ JobShape(j) /\ FilesRight(j, file, temp) /\ ServedRight(j, service, serving)
  BY Zenon DEF IInv, Types, JobRight
<1>2. FilesRight(j, file', temp')
  BY <1>1, Zenon DEF FilesRight
<1>3. ServedRight(j, service', serving')
  <2> SUFFICES ASSUME j.kind = "rules", j.pc \in {"start", "active"}
               PROVE  (j.pc = "start" => service' = "down" \/ serving' = j.bundle) /\ (j.pc = "active" => serving' = j.bundle)
    BY Zenon DEF ServedRight
  <2>1. "active.json" \in RuleFiles /\ KindOf("active.json") = j.kind
    BY Zenon DEF RuleFiles, KindOf
  <2>2. Active = j.bundle
    BY <1>1, <2>1, Zenon DEF FilesRight, JobShape, Active, Replaced
  <2> QED BY <1>1, <2>2, Zenon DEF ServedRight, ServiceMoves
<1> QED BY <1>2, <1>3, Zenon

\* A step of the update w alone.
LEMMA OneUpdate ==
  ASSUME IInv, NEW w \in Updaters, Working(w), NEW STATE j, j \in Jobs, JobShape(j),
         job' = [job EXCEPT ![w] = j], j.kind = job[w].kind,
         UNCHANGED <<site, release, company>>, ServiceMoves,
         file' \in Contents, temp' \in [RuleFiles -> Bundles \cup {NoTemp}],
         \A f \in RuleFiles : KindOf(f) # job[w].kind => file'[f] = file[f] /\ temp'[f] = temp[f],
         w \notin company => FilesRight(j, file', temp') /\ ServedRight(j, service', serving')
  PROVE  IInv'
<1>1. Types'
  BY Zenon DEF IInv, Types
<1>2. job'[w] = j /\ \A v \in Updaters : v # w => job'[v] = job[v]
  BY Zenon DEF IInv, Types
<1>3. CompanyKnown'
  BY <1>2 DEF IInv, CompanyKnown, Working
<1>4. ASSUME NEW v \in Updaters PROVE JobRight(v)'
  <2>1. CASE v = w
    BY <1>2, <2>1, Zenon DEF JobRight
  <2>2. CASE v # w
    <3>1. job'[v] = job[v] /\ JobShape(job[v])
      BY <1>2, <2>2, Zenon DEF IInv, JobRight
    <3>2. ASSUME v \notin company PROVE FilesRight(job[v], file', temp') /\ ServedRight(job[v], service', serving')
      <4>1. CASE job[v].pc = "idle"
        BY <4>1, Zenon DEF FilesRight, ServedRight, Replacing, Replaced, Restoring, Restored
      <4>2. CASE Working(v)
        <5>1. job[v].kind # job[w].kind
          BY <2>2, <3>2, <4>2, Zenon DEF IInv, CompanyKnown
        <5> QED BY <3>2, <5>1, Bystander, Zenon
      <4> QED BY <4>1, <4>2, Zenon DEF Working
    <3> QED BY <3>1, <3>2, Zenon DEF JobRight
  <2> QED BY <2>1, <2>2, Zenon
<1> QED BY <1>1, <1>3, <1>4, Zenon DEF IInv

\* A step of no update.
LEMMA NoUpdate ==
  ASSUME IInv, UNCHANGED <<site, file, temp, job, company>>, release' \in 1..Len(site.releases), ServiceMoves
  PROVE  IInv'
<1>1. Types' /\ CompanyKnown'
  BY Zenon DEF IInv, Types, CompanyKnown, Working
<1>2. ASSUME NEW v \in Updaters PROVE JobRight(v)'
  <2>1. ASSUME v \notin company PROVE FilesRight(job[v], file', temp') /\ ServedRight(job[v], service', serving')
    BY <2>1, Bystander, Zenon
  <2> QED BY <2>1, Zenon DEF IInv, JobRight
<1> QED BY <1>1, <1>2, Zenon DEF IInv

\* A step that begins or ends the update w.
LEMMA BeginOrEnd ==
  ASSUME IInv, NEW w \in Updaters, NEW STATE j, j \in Jobs, JobShape(j), j.pc \in {"idle", "fetch"},
         job' = [job EXCEPT ![w] = j], UNCHANGED <<site, release, file, temp, service, serving>>,
         \A v \in Updaters \ {w} : v \notin company' => v \notin company,
         j.pc = "fetch" => \A v \in Updaters \ {w} : Working(v) /\ job[v].kind = j.kind => {v, w} \subseteq company'
  PROVE  IInv'
<1>1. Types'
  BY Zenon DEF IInv, Types
<1>2. job'[w] = j /\ \A v \in Updaters : v # w => job'[v] = job[v]
  BY Zenon DEF IInv, Types
<1>3. CompanyKnown'
  <2> SUFFICES ASSUME NEW v \in Updaters, NEW u \in Updaters, v # u, Working(v)', Working(u)', job'[v].kind = job'[u].kind
               PROVE  v \in company'
    BY Zenon DEF CompanyKnown
  <2>1. CASE v = w \/ u = w
    BY <1>2, <2>1 DEF Working
  <2>2. CASE v # w /\ u # w
    BY <1>2, <2>2 DEF IInv, CompanyKnown, Working
  <2> QED BY <2>1, <2>2, Zenon
<1>4. ASSUME NEW v \in Updaters PROVE JobRight(v)'
  <2>1. CASE v = w
    BY <1>2, <2>1, Zenon DEF JobRight, FilesRight, ServedRight, Replacing, Replaced, Restoring, Restored
  <2>2. CASE v # w
    BY <1>2, <2>2, Zenon DEF IInv, JobRight
  <2> QED BY <2>1, <2>2, Zenon
<1> QED BY <1>1, <1>3, <1>4, Zenon DEF IInv

\* The initial state satisfies the invariant.
LEMMA InitRight == RulesInit => IInv
<1> SUFFICES ASSUME RulesInit PROVE IInv
  BY Zenon
<1>1. \A w \in Updaters : job[w] = Idle
  BY Zenon DEF RulesInit
<1>2. Types
  <2>1. site \in Sites /\ release \in 1..Len(site.releases)
    BY SitesAssumption DEF RulesInit
  <2>2. file \in Contents /\ temp \in [RuleFiles -> Bundles \cup {NoTemp}]
    BY <2>1 DEF RulesInit, Contents, Bundles
  <2> QED BY <2>1, <2>2, IdleIsAJob, Zenon DEF RulesInit, Types
<1>3. CompanyKnown
  BY <1>1, IdleIsAJob, Zenon DEF CompanyKnown, Working
<1>4. ASSUME NEW w \in Updaters PROVE JobRight(w)
  BY <1>1, IdleIsAJob, Zenon DEF JobRight, FilesRight, ServedRight, Replacing, Replaced, Restoring, Restored
<1> QED BY <1>2, <1>3, <1>4, Zenon DEF IInv

\* A release, the ageing of the marker, and the death, start or stop of the service.
LEMMA ServiceStep ==
  ASSUME IInv, Release \/ MarkerAges \/ ServiceDies \/ ServiceStarts \/ ServiceStops
  PROVE  IInv'
<1>1. UNCHANGED <<site, file, temp, job, company>> /\ ServiceMoves
  BY Zenon DEF Release, MarkerAges, ServiceDies, ServiceStarts, ServiceStops, Starts, ServiceMoves
<1>2. release' \in 1..Len(site.releases)
  BY SitesAssumption DEF IInv, Types, Release, MarkerAges, ServiceDies, ServiceStarts, ServiceStops
<1> QED BY <1>1, <1>2, NoUpdate, Zenon

\* What every start of an updater does: it is at fetch, in the company of those at work.
LEMMA BeginStep ==
  ASSUME IInv, NEW w \in Updaters, NEW kind \in Kinds, NEW name, BeginUpdate(w, kind, name),
         UNCHANGED <<site, release, file, temp, service, serving>>
  PROVE  IInv'
<1> DEFINE j == [Idle EXCEPT !.pc = "fetch", !.kind = kind]
           others == {v \in Updaters : Working(v) /\ job[v].kind = kind}
<1>1. j \in Jobs /\ JobShape(j) /\ j.pc = "fetch" /\ j.kind = kind
  BY IdleIsAJob, Zenon DEF Idle, Jobs, PCs, JobShape
<1>2. job' = [job EXCEPT ![w] = j] /\ ~Working(w)
  BY Zenon DEF BeginUpdate
<1>3. company' = IF others = {} THEN company ELSE company \cup others \cup {w}
  BY Zenon DEF BeginUpdate
<1>4. \A v \in Updaters \ {w} : v \notin company' => v \notin company
  BY <1>3, Zenon
<1>5. \A v \in Updaters \ {w} : Working(v) /\ job[v].kind = j.kind => {v, w} \subseteq company'
  BY <1>1, <1>3, Zenon
<1> HIDE DEF j
<1> QED BY <1>1, <1>2, <1>4, <1>5, BeginOrEnd, Zenon

\* The service launches an updater, or finds no reason to.
LEMMA AcceptStep == ASSUME IInv, NEW refresh \in BOOLEAN, Accept(refresh) PROVE IInv'
<1>1. UNCHANGED <<site, release, file, temp, service, serving>>
  BY Zenon DEF Accept
<1>2. CASE UNCHANGED <<job, company>>
  BY <1>1, <1>2, NoUpdate, Zenon DEF ServiceMoves, IInv, Types
<1>3. CASE \E w \in Updaters : BeginUpdate(w, "rules", Wanted("rules"))
  BY <1>1, <1>3, BeginStep, Zenon DEF Kinds
<1> QED BY <1>2, <1>3, Zenon DEF Accept, LaunchWorker

\* An update is started from the command line.
LEMMA ByHandStep == ASSUME IInv, NEW w \in Updaters, NEW kind \in Kinds, ByHand(w, kind) PROVE IInv'
BY BeginStep, Zenon DEF ByHand

\* An updater ends or is killed.
LEMMA GoneStep == ASSUME IInv, NEW w \in Updaters, Exit(w) \/ Killed(w) PROVE IInv'
<1>1. Gone(w)
  BY Zenon DEF Exit, Killed
<1>2. job' = [job EXCEPT ![w] = Idle] /\ company' = company \ {w} /\ UNCHANGED <<site, release, file, temp, service, serving>>
  BY <1>1, Zenon DEF Gone
<1> QED BY <1>2, IdleIsAJob, BeginOrEnd, Zenon

\* A step that changes what an update does next and neither the files nor the
\* service.
LEMMA QuietStep ==
  ASSUME IInv, NEW w \in Updaters, Working(w), NEW STATE j, j \in Jobs, JobShape(j), j.kind = job[w].kind,
         job' = [job EXCEPT ![w] = j], UNCHANGED <<site, release, company, file, temp, service, serving>>,
         w \notin company => FilesRight(j, file, temp) /\ ServedRight(j, service, serving)
  PROVE  IInv'
BY OneUpdate, Zenon DEF ServiceMoves, IInv, Types

\* An updater fetches the release and records what it found.
LEMMA FetchStep == ASSUME IInv, NEW w \in Updaters, Fetch(w) PROVE IInv'
<1>1. job[w] \in Jobs /\ JobShape(job[w]) /\ file \in Contents /\ job[w].pc = "fetch" /\ Working(w)
  BY Zenon DEF IInv, Types, JobRight, Fetch, Working
<1>a. job[w].at = 1
  BY <1>1 DEF Jobs, JobShape
<1>2. UNCHANGED <<site, release, company, file, temp, service, serving>>
  BY Zenon DEF Fetch, Keeps, KeepsFiles, KeepsService
<1>3. CASE job' = [job EXCEPT ![w].pc = "stage", ![w].bundle = Wanted(job[w].kind), ![w].found = file]
  <2> DEFINE j == [job[w] EXCEPT !.pc = "stage", !.bundle = Wanted(job[w].kind), !.found = file]
  <2>1. Wanted(job[w].kind) \in Bundles /\ Wanted(job[w].kind) # NoFile
    BY <1>1, WantedIsABundle, Zenon DEF IInv, Jobs
  <2>a. j \in Jobs /\ j.kind = job[w].kind /\ j.pc = "stage" /\ j.at = 1 /\ j.found = file /\ j.bundle = Wanted(job[w].kind)
    BY <1>1, <1>a, <2>1, Zenon DEF Jobs, PCs
  <2>2. JobShape(j)
    BY <2>1, <2>a DEF JobShape
  <2>3. FilesRight(j, file, temp) /\ ServedRight(j, service, serving)
    BY <2>a DEF FilesRight, ServedRight, Replacing, Replaced, Restoring, Restored, Place
  <2>4. job' = [job EXCEPT ![w] = j]
    BY <1>1, <1>3, Zenon DEF IInv, Types
  <2> HIDE DEF j
  <2> QED BY <1>1, <1>2, <2>a, <2>2, <2>3, <2>4, QuietStep, Zenon
<1>4. CASE job' = [job EXCEPT ![w].pc = "failed", ![w].found = file]
  <2> DEFINE j == [job[w] EXCEPT !.pc = "failed", !.found = file]
  <2>2. j \in Jobs /\ JobShape(j) /\ j.kind = job[w].kind /\ j.pc = "failed" /\ j.found = file
    BY <1>1, Zenon DEF Jobs, PCs, JobShape
  <2>3. FilesRight(j, file, temp) /\ ServedRight(j, service, serving)
    BY <2>2, Zenon DEF FilesRight, ServedRight, Replacing, Replaced, Restoring, Restored, Place
  <2>4. job' = [job EXCEPT ![w] = j]
    BY <1>1, <1>4, Zenon DEF IInv, Types
  <2> HIDE DEF j
  <2> QED BY <1>1, <1>2, <2>2, <2>3, <2>4, QuietStep, Zenon
<1> QED BY <1>3, <1>4, Zenon DEF Fetch

\* What an update at work starts a step from.
LEMMA AtWork ==
  ASSUME IInv, NEW w \in Updaters, job[w].pc # "idle"
  PROVE  /\ Working(w) /\ job[w] \in Jobs /\ JobShape(job[w]) /\ job[w].at \in 1..2
         /\ file \in Contents /\ temp \in [RuleFiles -> Bundles \cup {NoTemp}]
         /\ w \notin company => FilesRight(job[w], file, temp) /\ ServedRight(job[w], service, serving)
BY Zenon DEF IInv, Types, JobRight, Working, Jobs

StageFacts(w, j) ==
  /\ j.kind = job[w].kind /\ j.bundle = job[w].bundle /\ j.found = job[w].found /\ j.at = job[w].at

\* A write that fails.
LEMMA TornStep ==
  ASSUME IInv, NEW w \in Updaters, job[w].pc \in {"stage", "rename", "restore", "put back"},
         job' = [job EXCEPT ![w].pc = "failed", ![w].torn = TRUE],
         UNCHANGED <<site, release, company, file, service, serving>>,
         temp' \in [RuleFiles -> Bundles \cup {NoTemp}],
         \A f \in RuleFiles : KindOf(f) # job[w].kind => temp'[f] = temp[f]
  PROVE  IInv'
<1> DEFINE j == [job[w] EXCEPT !.pc = "failed", !.torn = TRUE]
<1>1. Working(w) /\ job[w] \in Jobs /\ JobShape(job[w]) /\ file \in Contents
  BY AtWork, Zenon
<1>2. j \in Jobs /\ j.pc = "failed" /\ j.torn /\ StageFacts(w, j)
  BY <1>1, Zenon DEF Jobs, PCs, StageFacts
<1>3. JobShape(j)
  BY <1>1, <1>2, Zenon DEF JobShape, StageFacts
<1>4. FilesRight(j, file', temp') /\ ServedRight(j, service', serving')
  BY <1>2, Zenon DEF FilesRight, ServedRight, Replacing, Replaced, Restoring, Restored
<1>5. job' = [job EXCEPT ![w] = j]
  BY Zenon DEF IInv, Types
<1> HIDE DEF j
<1> QED BY <1>1, <1>2, <1>3, <1>4, <1>5, OneUpdate, Zenon DEF ServiceMoves, StageFacts

\* atomic_write fills its temporary file, once the previous content has been read.
LEMMA StageStep == ASSUME IInv, NEW w \in Updaters, Stage(w) PROVE IInv'
<1> DEFINE this == This(w)
           read == IF job[w].at = 1 THEN file ELSE job[w].previous
<1>a. job[w].pc = "stage" /\ UNCHANGED <<site, release, company, file, service, serving>>
  BY Zenon DEF Stage, Keeps, KeepsService
<1>1. /\ Working(w) /\ job[w] \in Jobs /\ JobShape(job[w]) /\ job[w].at \in 1..2
      /\ file \in Contents /\ temp \in [RuleFiles -> Bundles \cup {NoTemp}]
      /\ w \notin company => FilesRight(job[w], file, temp) /\ ServedRight(job[w], service, serving)
  BY <1>a, AtWork, Zenon
<1>2. /\ this \in RuleFiles /\ KindOf(this) = job[w].kind /\ Place(this) = job[w].at
      /\ \A f \in RuleFiles : KindOf(f) = job[w].kind /\ Place(f) = job[w].at => f = this
  BY <1>1, ThisFile, Zenon DEF IInv
<1>3. CASE /\ temp' = [temp EXCEPT ![this] = job[w].bundle]
           /\ job' = [job EXCEPT ![w].pc = "rename", ![w].previous = read]
  <2> DEFINE j == [job[w] EXCEPT !.pc = "rename", !.previous = read]
  <2>1. j \in Jobs /\ j.pc = "rename" /\ j.previous = read /\ StageFacts(w, j)
    BY <1>1, Zenon DEF Jobs, PCs, StageFacts
  <2>2. JobShape(j)
    BY <1>1, <1>a, <2>1, Zenon DEF JobShape, StageFacts
  <2>3. temp' \in [RuleFiles -> Bundles \cup {NoTemp}] /\ temp'[this] = job[w].bundle
    BY <1>1, <1>2, <1>3, Zenon DEF Jobs
  <2>4. ASSUME w \notin company PROVE FilesRight(j, file', temp')
    <3> SUFFICES ASSUME NEW f \in RuleFiles, KindOf(f) = job[w].kind
                 PROVE  /\ file[f] = IF Place(f) < job[w].at THEN job[w].bundle ELSE job[w].found[f]
                        /\ read[f] = job[w].found[f]
                        /\ Place(f) = job[w].at => temp'[f] = job[w].bundle
      BY <1>a, <2>1 DEF FilesRight, StageFacts, Replacing, Replaced, Restoring, Restored
    <3>1. file[f] = IF Place(f) < job[w].at THEN job[w].bundle ELSE job[w].found[f]
      BY <1>1, <1>a, <2>4, Zenon DEF FilesRight, Replacing
    <3>2. read[f] = job[w].found[f]
      <4>1. CASE job[w].at = 1
        <5>1. ~(Place(f) < job[w].at)
          BY ONLY <4>1 DEF Place
        <5> QED BY <3>1, <4>1, <5>1, Zenon
      <4>2. CASE job[w].at = 2
        <5>1. job[w].at # 1
          BY ONLY <4>2
        <5>2. FilesRight(job[w], file, temp)
          BY <1>1, <2>4, Zenon
        <5>3. job[w].previous[f] = job[w].found[f]
          BY <1>a, <4>2, <5>2, Zenon DEF FilesRight
        <5> QED BY <5>1, <5>3, Zenon
      <4>3. job[w].at \in 1..2
        BY <1>1, Zenon
      <4>4. job[w].at = 1 \/ job[w].at = 2
        BY ONLY <4>3
      <4> QED BY <4>1, <4>2, <4>4, Zenon
    <3> QED BY <1>2, <2>3, <3>1, <3>2, Zenon
  <2>5. ServedRight(j, service', serving')
    BY <2>1, Zenon DEF ServedRight
  <2>6. \A f \in RuleFiles : KindOf(f) # job[w].kind => file'[f] = file[f] /\ temp'[f] = temp[f]
    BY <1>a, <1>2, <1>1, <1>3, Zenon
  <2>7. job' = [job EXCEPT ![w] = j]
    BY <1>3, Zenon DEF IInv, Types
  <2> HIDE DEF j
  <2> QED BY <1>a, <1>1, <2>1, <2>2, <2>3, <2>4, <2>5, <2>6, <2>7, OneUpdate, Zenon DEF ServiceMoves, StageFacts
<1>4. CASE UNCHANGED temp /\ job' = [job EXCEPT ![w].pc = "failed", ![w].torn = TRUE]
  BY <1>a, <1>1, <1>4, TornStep, Zenon
<1> QED BY <1>3, <1>4, Zenon DEF Stage

\* The two renames of an update.
IsRename(w, here, more, finished) ==
  \/ here = "rename" /\ more = "stage" /\ finished = "installed"
  \/ here = "put back" /\ more = "restore" /\ finished = job[w].then

\* A rename of a temporary file, which goes on to the next file of the update or
\* is its last.
LEMMA ReplaceStep ==
  ASSUME IInv, NEW w \in Updaters, NEW STATE here, NEW STATE more, NEW STATE finished, Replace(w, here, more, finished), IsRename(w, here, more, finished)
  PROVE  IInv'
<1> DEFINE this == This(w)
<1>a. job[w].pc = here /\ UNCHANGED <<site, release, company, service, serving>> /\ temp' = [temp EXCEPT ![this] = NoTemp]
  BY Zenon DEF Replace, Keeps, KeepsService
<1>b. here \in {"rename", "put back"}
  BY Zenon DEF IsRename
<1>1. /\ Working(w) /\ job[w] \in Jobs /\ JobShape(job[w]) /\ job[w].at \in 1..2
      /\ file \in Contents /\ temp \in [RuleFiles -> Bundles \cup {NoTemp}]
      /\ w \notin company => FilesRight(job[w], file, temp) /\ ServedRight(job[w], service, serving)
  BY <1>a, <1>b, AtWork, Zenon
<1>2. /\ this \in RuleFiles /\ KindOf(this) = job[w].kind /\ Place(this) = job[w].at
      /\ \A f \in RuleFiles : KindOf(f) = job[w].kind /\ Place(f) = job[w].at => f = this
      /\ IsLast(w) <=> ~(job[w].kind = "yara" /\ job[w].at = 1)
  BY <1>1, ThisFile, Zenon DEF IInv
<1>3. /\ temp' \in [RuleFiles -> Bundles \cup {NoTemp}]
      /\ \A f \in RuleFiles : KindOf(f) # job[w].kind => temp'[f] = temp[f]
  BY <1>a, <1>1, <1>2, Zenon
<1>4. CASE temp[this] = NoTemp
  <2>1. UNCHANGED file /\ job' = [job EXCEPT ![w].pc = "failed", ![w].torn = TRUE]
    BY <1>4, Zenon DEF Replace
  <2> QED BY <1>a, <1>b, <1>3, <2>1, TornStep, Zenon
<1>5. CASE temp[this] # NoTemp
  <2> DEFINE first == job[w].kind = "yara" /\ job[w].at = 1
             pc == IF first THEN more ELSE finished
             at == IF first THEN 2 ELSE 1
             j == [job[w] EXCEPT !.pc = pc, !.at = at]
  <2>1. file' = [file EXCEPT ![this] = temp[this]] /\ Advance(w, more, finished)
    BY <1>5, Zenon DEF Replace
  <2>a. job' = [job EXCEPT ![w].pc = IF ~first THEN finished ELSE more, ![w].at = IF ~first THEN 1 ELSE job[w].at + 1]
    BY <2>1, <1>2, Zenon DEF Advance, IsLast, Names
  <2>2. job' = [job EXCEPT ![w] = j]
    <3>1. CASE first
      <4>1. job[w].at + 1 = 2
        BY <3>1
      <4>2. job' = [job EXCEPT ![w].pc = more, ![w].at = 2]
        BY <2>a, <3>1, <4>1, Zenon
      <4>3. j = [job[w] EXCEPT !.pc = more, !.at = 2]
        BY <3>1, Zenon
      <4> QED BY <4>2, <4>3, Zenon DEF IInv, Types
    <3>2. CASE ~first
      BY <2>a, <3>2, Zenon DEF IInv, Types
    <3> QED BY <3>1, <3>2, Zenon
  <2>3. temp[this] \in Bundles /\ file' \in Contents
    BY <1>1, <1>2, <1>5, <2>1, Zenon DEF Contents
  <2>4. at \in 1..2 /\ (at = 2 => first)
    OBVIOUS
  <2>5. job[w].then \in {"failed", "again"} /\ job[w].kind \in Kinds /\ pc \in PCs
    BY <1>1, Zenon DEF Jobs, PCs, IsRename
  <2>6. /\ j \in Jobs /\ j.pc = pc /\ j.at = at /\ j.kind = job[w].kind /\ j.bundle = job[w].bundle
        /\ j.found = job[w].found /\ j.previous = job[w].previous
    BY <1>1, <2>4, <2>5, Zenon DEF Jobs
  <2>7. pc \in {"stage", "installed", "restore", "failed", "again"}
        /\ (pc \in {"stage", "restore"} <=> first)
        /\ (here = "rename" <=> pc \in {"stage", "installed"})
    BY <2>5, Zenon DEF IsRename
  <2> HIDE DEF pc, j
  <2>8. JobShape(j)
    BY <1>1, <1>a, <1>b, <2>4, <2>6, <2>7, Zenon DEF JobShape
  <2>9. \A f \in RuleFiles : KindOf(f) # job[w].kind => file'[f] = file[f]
    BY <1>1, <1>2, <2>1, Zenon DEF Contents
  <2>10. ServedRight(j, service', serving')
    BY <2>6, <2>7, Zenon DEF ServedRight
  <2>11. ASSUME w \notin company PROVE FilesRight(j, file', temp')
    <3>1. FilesRight(job[w], file, temp)
      BY <1>1, <2>11, Zenon
    <3>2. \A f \in RuleFiles : file'[f] = IF f = this THEN temp[this] ELSE file[f]
      BY <1>1, <2>1, Zenon DEF Contents
    <3> HIDE DEF this, at
    <3> SUFFICES ASSUME NEW f \in RuleFiles, KindOf(f) = job[w].kind
                 PROVE  /\ pc = "stage" => file'[f] = IF Place(f) < at THEN job[w].bundle ELSE job[w].found[f]
                        /\ pc = "installed" => file'[f] = job[w].bundle
                        /\ pc = "restore" => file'[f] = IF Place(f) < at THEN job[w].found[f] ELSE job[w].bundle
                        /\ pc \in {"failed", "again"} => file'[f] = job[w].found[f]
                        /\ job[w].previous[f] = job[w].found[f]
      BY <2>6, <2>7, Zenon DEF FilesRight, Replacing, Replaced, Restoring, Restored
    <3>3. job[w].previous[f] = job[w].found[f]
      BY <1>a, <1>b, <3>1, Zenon DEF FilesRight, Restoring
    <3>4. Place(f) \in 1..2 /\ (Place(f) = 2 => job[w].kind = "yara")
      BY Places, Zenon
    <3>5. Place(f) = job[w].at <=> f = this
      BY <1>2, Zenon
    <3>a. first => at = 2
      BY Zenon DEF at
    <3>b. job[w].at \in 1..2
      BY <1>1, Zenon
    <3>c. ~first => (Place(f) < job[w].at <=> f # this)
      BY ONLY <3>4, <3>5, <3>b DEF first
    <3>d. (Place(f) < 2 <=> Place(f) = 1) /\ (job[w].at = 1 => ~(Place(f) < job[w].at))
      BY ONLY <3>4
    <3>6. CASE here = "rename"
      <4>1. file[f] = (IF Place(f) < job[w].at THEN job[w].bundle ELSE job[w].found[f]) /\ (f = this => temp[f] = job[w].bundle)
        BY <1>a, <3>1, <3>5, <3>6, Zenon DEF FilesRight, Replacing
      <4>2. CASE first
        <5>1. pc = "stage" /\ at = 2 /\ job[w].at = 1
          BY <2>7, <3>6, <3>a, <4>2, Zenon
        <5>2. file'[f] = IF Place(f) < at THEN job[w].bundle ELSE job[w].found[f]
          BY <3>2, <3>5, <3>d, <4>1, <5>1, Zenon
        <5> QED BY <3>3, <5>1, <5>2, Zenon
      <4>3. CASE ~first
        <5>1. pc = "installed"
          BY <2>7, <3>6, <4>3, Zenon
        <5>2. file'[f] = job[w].bundle
          BY <3>2, <3>c, <4>1, <4>3, Zenon
        <5> QED BY <3>3, <5>1, <5>2, Zenon
      <4> QED BY <4>2, <4>3, Zenon
    <3>7. CASE here = "put back"
      <4>1. file[f] = (IF Place(f) < job[w].at THEN job[w].found[f] ELSE job[w].bundle) /\ (f = this => temp[f] = job[w].found[f])
        BY <1>a, <3>1, <3>3, <3>5, <3>7, Zenon DEF FilesRight, Restoring
      <4>2. CASE first
        <5>1. pc = "restore" /\ at = 2 /\ job[w].at = 1
          BY <2>7, <3>7, <3>a, <4>2, Zenon
        <5>2. file'[f] = IF Place(f) < at THEN job[w].found[f] ELSE job[w].bundle
          BY <3>2, <3>5, <3>d, <4>1, <5>1, Zenon
        <5> QED BY <3>3, <5>1, <5>2, Zenon
      <4>3. CASE ~first
        <5>1. pc \in {"failed", "again"}
          BY <2>7, <3>7, <4>3, Zenon
        <5>2. file'[f] = job[w].found[f]
          BY <3>2, <3>c, <4>1, <4>3, Zenon
        <5> QED BY <3>3, <5>1, <5>2, Zenon
      <4> QED BY <4>2, <4>3, Zenon
    <3> QED BY <1>b, <3>6, <3>7, Zenon
  <2> QED BY <1>a, <1>1, <1>3, <2>2, <2>3, <2>6, <2>8, <2>9, <2>10, <2>11, OneUpdate, Zenon DEF ServiceMoves
<1> QED BY <1>4, <1>5, Zenon

\* Replaced or restored files stay, whatever the update does with the service.
LEMMA ProceedStep ==
  ASSUME IInv, NEW w \in Updaters, NEW STATE pc,
         \/ job[w].pc \in Replaced /\ pc \in Replaced
         \/ job[w].pc \in {"again", "start again"} /\ pc \in {"start again", "failed"},
         Proceed(w, pc), UNCHANGED <<site, release, company, file, temp>>, ServiceMoves,
         pc = "start" => service' = "down",
         pc = "active" /\ job[w].kind = "rules" /\ w \notin company => serving' = job[w].bundle
  PROVE  IInv'
<1> DEFINE j == [job[w] EXCEPT !.pc = pc]
<1>1. /\ Working(w) /\ job[w] \in Jobs /\ JobShape(job[w]) /\ job[w].at \in 1..2
      /\ file \in Contents /\ temp \in [RuleFiles -> Bundles \cup {NoTemp}]
      /\ w \notin company => FilesRight(job[w], file, temp)
  BY AtWork, Zenon DEF Replaced
<1>2. job' = [job EXCEPT ![w] = j]
  BY Zenon DEF Proceed, IInv, Types
<1>3. pc \in PCs
  BY Zenon DEF PCs, Replaced
<1>4. j \in Jobs /\ j.pc = pc /\ j.previous = job[w].previous /\ StageFacts(w, j)
  BY <1>1, <1>3, Zenon DEF Jobs, StageFacts
<1>5. JobShape(j)
  BY <1>1, <1>4, Zenon DEF JobShape, StageFacts, Replaced
<1>6. w \notin company => FilesRight(j, file, temp)
  BY <1>1, <1>4 DEF FilesRight, StageFacts, Replacing, Replaced, Restoring, Restored
<1>7. w \notin company => ServedRight(j, service', serving')
  BY <1>4, Zenon DEF ServedRight, StageFacts
<1> HIDE DEF j
<1> QED BY <1>1, <1>2, <1>4, <1>5, <1>6, <1>7, OneUpdate, Zenon DEF StageFacts

Undo(w, then) == job' = [job EXCEPT ![w].pc = "restore", ![w].then = then]

\* A replaced update that is to be undone begins with its first file.
LEMMA UndoStep ==
  ASSUME IInv, NEW w \in Updaters, job[w].pc \in {"installed", "not reloaded"},
         NEW then \in {"failed", "again"}, Undo(w, then),
         UNCHANGED <<site, release, company, file, temp, service, serving>>
  PROVE  IInv'
<1> DEFINE j == [job[w] EXCEPT !.pc = "restore", !.then = then]
<1>1. /\ Working(w) /\ job[w] \in Jobs /\ JobShape(job[w]) /\ job[w].at \in 1..2
      /\ w \notin company => FilesRight(job[w], file, temp)
  BY AtWork, Zenon
<1>2. job' = [job EXCEPT ![w] = j]
  BY Zenon DEF Undo, IInv, Types
<1>3. j \in Jobs /\ j.pc = "restore" /\ j.previous = job[w].previous /\ StageFacts(w, j)
  BY <1>1, Zenon DEF Jobs, PCs, StageFacts
<1>4. \A f \in RuleFiles : ~(Place(f) < job[w].at)
  BY <1>1, AtTheFirst, Zenon DEF Replaced
<1>5. JobShape(j)
  BY <1>1, <1>3, Zenon DEF JobShape, StageFacts
<1>6. ASSUME w \notin company PROVE FilesRight(j, file, temp)
  BY <1>1, <1>3, <1>4, <1>6, Zenon DEF FilesRight, StageFacts, Replacing, Replaced, Restoring, Restored
<1>7. ServedRight(j, service, serving)
  BY <1>3, Zenon DEF ServedRight
<1> HIDE DEF j
<1> QED BY <1>1, <1>2, <1>3, <1>5, <1>6, <1>7, QuietStep, Zenon DEF StageFacts

\* The steps between the last rename and the end of an update.
LEMMA InstalledStep == ASSUME IInv, NEW w \in Updaters, Installed(w) \/ NotReloaded(w) \/ AckActive(w) PROVE IInv'
<1>1. UNCHANGED <<site, release, company, file, temp, service, serving>>
  BY Zenon DEF Installed, NotReloaded, AckActive, Keeps, KeepsFiles, KeepsService
<1>2. CASE job[w].pc = "installed" /\ Proceed(w, "reload")
  BY <1>1, <1>2, ProceedStep, Zenon DEF Replaced, ServiceMoves
<1>3. CASE job[w].pc = "installed" /\ Undo(w, "failed")
  BY <1>1, <1>3, UndoStep, Zenon
<1>4. CASE job[w].pc = "not reloaded" /\ Undo(w, "again")
  BY <1>1, <1>4, UndoStep, Zenon
<1>5. CASE job[w].pc = "active" /\ Proceed(w, "done")
  BY <1>1, <1>5, ProceedStep, Zenon DEF Replaced, ServiceMoves
<1> QED BY <1>2, <1>3, <1>4, <1>5, Zenon DEF Installed, NotReloaded, AckActive, Undo

\* An updater stops and starts the service, after an update or after its rollback.
LEMMA ReloadStep == ASSUME IInv, NEW w \in Updaters, Reload(w) \/ ReloadAgain(w) PROVE IInv'
<1> USE DEF Replaced
<1>1. UNCHANGED <<site, release, company, file, temp>>
  BY Zenon DEF Reload, ReloadAgain, Stop, Start, Keeps, KeepsFiles
<1>2. CASE Stop(w, "reload", "start", "done", "not reloaded")
  <2>1. ServiceMoves
    BY <1>2, Zenon DEF Stop, Runs, KeepsService, ServiceMoves
  <2>2. job[w].pc = "reload" /\ (Proceed(w, "done") \/ (Proceed(w, "start") /\ service' = "down") \/ Proceed(w, "not reloaded"))
    BY <1>2, Zenon DEF Stop
  <2> QED BY <1>1, <2>1, <2>2, ProceedStep, Zenon
<1>3. CASE Stop(w, "again", "start again", "failed", "failed")
  <2>1. ServiceMoves
    BY <1>3, Zenon DEF Stop, Runs, KeepsService, ServiceMoves
  <2>2. job[w].pc = "again" /\ (Proceed(w, "start again") \/ Proceed(w, "failed"))
    BY <1>3, Zenon DEF Stop
  <2> QED BY <1>1, <2>1, <2>2, ProceedStep, Zenon
<1>4. CASE Start(w, "start again", "failed", "failed")
  <2>1. ServiceMoves
    BY <1>4, Zenon DEF Start, Starts, KeepsService, ServiceMoves
  <2>2. job[w].pc = "start again" /\ Proceed(w, "failed")
    BY <1>4, Zenon DEF Start
  <2> QED BY <1>1, <2>1, <2>2, ProceedStep, Zenon
<1>5. CASE Start(w, "start", "active", "not reloaded")
  <2>1. ServiceMoves
    BY <1>5, Zenon DEF Start, Starts, KeepsService, ServiceMoves
  <2>2. job[w].pc = "start"
    BY <1>5, Zenon DEF Start
  <2>3. CASE Proceed(w, "not reloaded")
    BY <1>1, <2>1, <2>2, <2>3, ProceedStep, Zenon
  <2>4. CASE Proceed(w, "active") /\ IF service = "up" THEN KeepsService ELSE Starts
    <3>1. ASSUME job[w].kind = "rules", w \notin company PROVE serving' = job[w].bundle
      <4>1. JobShape(job[w]) /\ FilesRight(job[w], file, temp) /\ ServedRight(job[w], service, serving)
        BY <2>2, <3>1, AtWork, Zenon
      <4>2. "active.json" \in RuleFiles /\ KindOf("active.json") = "rules"
        BY Zenon DEF RuleFiles, KindOf
      <4>3. Active = job[w].bundle
        BY <2>2, <3>1, <4>1, <4>2, Zenon DEF FilesRight, JobShape, Active
      <4>4. service = "down" \/ serving = job[w].bundle
        BY <2>2, <3>1, <4>1, Zenon DEF ServedRight
      <4> QED BY <2>4, <4>3, <4>4, Zenon DEF KeepsService, Starts
    <3> QED BY <1>1, <2>1, <2>2, <2>4, <3>1, ProceedStep, Zenon
  <2> QED BY <1>5, <2>3, <2>4, Zenon DEF Start
<1> QED BY <1>2, <1>3, <1>4, <1>5, Zenon DEF Reload, ReloadAgain

\* A file that was not there is removed again.
LEMMA RemoveStep ==
  ASSUME IInv, NEW w \in Updaters, job[w].pc = "restore", job[w].previous[This(w)] = NoFile,
         file' = [file EXCEPT ![This(w)] = NoFile], Advance(w, "restore", job[w].then),
         UNCHANGED <<site, release, company, temp, service, serving>>
  PROVE  IInv'
<1> DEFINE this == This(w)
           first == job[w].kind = "yara" /\ job[w].at = 1
           pc == IF first THEN "restore" ELSE job[w].then
           at == IF first THEN 2 ELSE 1
           j == [job[w] EXCEPT !.pc = pc, !.at = at]
<1>1. /\ Working(w) /\ job[w] \in Jobs /\ JobShape(job[w]) /\ job[w].at \in 1..2
      /\ file \in Contents /\ temp \in [RuleFiles -> Bundles \cup {NoTemp}]
      /\ w \notin company => FilesRight(job[w], file, temp)
  BY AtWork, Zenon
<1>2. /\ this \in RuleFiles /\ KindOf(this) = job[w].kind /\ Place(this) = job[w].at
      /\ \A f \in RuleFiles : KindOf(f) = job[w].kind /\ Place(f) = job[w].at => f = this
      /\ IsLast(w) <=> ~first
  BY <1>1, ThisFile, Zenon DEF IInv
<1>3. job' = [job EXCEPT ![w] = j]
  <2>1. job' = [job EXCEPT ![w].pc = IF ~first THEN job[w].then ELSE "restore", ![w].at = IF ~first THEN 1 ELSE job[w].at + 1]
    BY <1>2, Zenon DEF Advance, IsLast, Names
  <2>2. CASE first
    <3>1. job[w].at + 1 = 2
      BY <2>2
    <3>2. job' = [job EXCEPT ![w].pc = "restore", ![w].at = 2]
      BY <2>1, <2>2, <3>1, Zenon
    <3>3. j = [job[w] EXCEPT !.pc = "restore", !.at = 2]
      BY <2>2, Zenon
    <3> QED BY <3>2, <3>3, Zenon DEF IInv, Types
  <2>3. CASE ~first
    BY <2>1, <2>3, Zenon DEF IInv, Types
  <2> QED BY <2>2, <2>3, Zenon
<1>4. file' \in Contents
  BY <1>1, <1>2 DEF Contents, Bundles
<1>5. at \in 1..2 /\ (at = 2 => first)
  OBVIOUS
<1>6. job[w].then \in {"failed", "again"} /\ pc \in {"restore", "failed", "again"} /\ (pc = "restore" <=> first)
  BY <1>1, Zenon DEF Jobs
<1>a. pc \in PCs
  BY <1>6, Zenon DEF PCs
<1>7. /\ j \in Jobs /\ j.pc = pc /\ j.at = at /\ j.kind = job[w].kind /\ j.bundle = job[w].bundle
      /\ j.found = job[w].found /\ j.previous = job[w].previous
  BY <1>1, <1>5, <1>a, Zenon DEF Jobs
<1> HIDE DEF pc, at, j, this
<1>8. JobShape(j)
  BY <1>1, <1>5, <1>6, <1>7, Zenon DEF JobShape
<1>9. \A f \in RuleFiles : file'[f] = IF f = this THEN NoFile ELSE file[f]
  BY <1>1, Zenon DEF Contents, this
<1>10. ServedRight(j, service', serving')
  BY <1>6, <1>7, Zenon DEF ServedRight
<1>11. ASSUME w \notin company PROVE FilesRight(j, file', temp')
  <2>1. FilesRight(job[w], file, temp)
    BY <1>1, <1>11, Zenon
  <2> SUFFICES ASSUME NEW f \in RuleFiles, KindOf(f) = job[w].kind
               PROVE  /\ pc = "restore" => file'[f] = IF Place(f) < at THEN job[w].found[f] ELSE job[w].bundle
                      /\ pc \in {"failed", "again"} => file'[f] = job[w].found[f]
                      /\ job[w].previous[f] = job[w].found[f]
    BY <1>6, <1>7, ZenonT(30) DEF FilesRight, Replacing, Replaced, Restoring, Restored
  <2>2. job[w].previous[f] = job[w].found[f]
        /\ file[f] = IF Place(f) < job[w].at THEN job[w].found[f] ELSE job[w].bundle
    BY <2>1, Zenon DEF FilesRight, Restoring
  <2>3. f = this => file'[f] = job[w].found[f]
    BY <1>9, <2>2, Zenon DEF this
  <2>4. Place(f) \in 1..2 /\ (Place(f) = 2 => job[w].kind = "yara")
    BY Places, Zenon
  <2>5. Place(f) = job[w].at <=> f = this
    BY <1>2, Zenon
  <2>a. job[w].at \in 1..2
    BY <1>1, Zenon
  <2>b. (Place(f) < 2 <=> Place(f) = 1) /\ (job[w].at = 1 => ~(Place(f) < job[w].at))
    BY ONLY <2>4
  <2>6. CASE first
    <3>1. pc = "restore" /\ at = 2 /\ job[w].at = 1
      BY <1>6, <2>6, Zenon DEF at
    <3>2. file'[f] = IF Place(f) < at THEN job[w].found[f] ELSE job[w].bundle
      BY <1>9, <2>2, <2>3, <2>5, <2>b, <3>1, Zenon
    <3> QED BY <2>2, <3>1, <3>2, Zenon
  <2>7. CASE ~first
    <3>1. pc \in {"failed", "again"}
      BY <1>6, <2>7, Zenon
    <3>2. f # this => Place(f) < job[w].at
      BY ONLY <2>4, <2>5, <2>7, <2>a DEF first
    <3>3. file'[f] = job[w].found[f]
      BY <1>9, <2>2, <2>3, <3>2, Zenon
    <3> QED BY <2>2, <3>1, <3>3, Zenon
  <2> QED BY <2>6, <2>7, Zenon
<1>12. \A f \in RuleFiles : KindOf(f) # job[w].kind => file'[f] = file[f]
  BY <1>2, <1>9, Zenon
<1> QED BY <1>1, <1>3, <1>4, <1>7, <1>8, <1>10, <1>11, <1>12, OneUpdate, Zenon DEF ServiceMoves

\* A file of the previous bundle is put back, or that fails.
LEMMA RestoreStep == ASSUME IInv, NEW w \in Updaters, RestorePrevious(w) PROVE IInv'
<1> DEFINE this == This(w)
           old == job[w].previous[this]
<1>1. CASE Replace(w, "put back", "restore", job[w].then)
  BY <1>1, ReplaceStep, Zenon DEF IsRename
<1>2. CASE ~Replace(w, "put back", "restore", job[w].then)
  <2>1. job[w].pc = "restore" /\ UNCHANGED <<site, release, company, service, serving>>
    BY <1>2, Zenon DEF RestorePrevious, Keeps, KeepsService
  <2>2. CASE /\ old = NoFile /\ file' = [file EXCEPT ![this] = NoFile] /\ UNCHANGED temp
             /\ Advance(w, "restore", job[w].then)
    BY <2>1, <2>2, RemoveStep, Zenon
  <2>3. CASE UNCHANGED <<file, temp>> /\ job' = [job EXCEPT ![w].pc = "failed", ![w].torn = TRUE]
    BY <2>1, <2>3, TornStep, Zenon DEF IInv, Types
  <2>4. CASE temp' = [temp EXCEPT ![this] = old] /\ UNCHANGED file /\ Proceed(w, "put back")
    <3> DEFINE j == [job[w] EXCEPT !.pc = "put back"]
    <3>1. /\ Working(w) /\ job[w] \in Jobs /\ JobShape(job[w])
          /\ file \in Contents /\ temp \in [RuleFiles -> Bundles \cup {NoTemp}]
          /\ w \notin company => FilesRight(job[w], file, temp)
      BY <2>1, AtWork, Zenon
    <3>2. /\ this \in RuleFiles /\ KindOf(this) = job[w].kind
          /\ \A f \in RuleFiles : KindOf(f) = job[w].kind /\ Place(f) = job[w].at => f = this
      BY <3>1, ThisFile, Zenon DEF IInv
    <3>3. job' = [job EXCEPT ![w] = j]
      BY <2>4, Zenon DEF Proceed, IInv, Types
    <3>4. j \in Jobs /\ j.pc = "put back" /\ j.previous = job[w].previous /\ StageFacts(w, j)
      BY <3>1, Zenon DEF Jobs, PCs, StageFacts
    <3>5. JobShape(j)
      BY <2>1, <3>1, <3>4, Zenon DEF JobShape, StageFacts
    <3>6. temp' \in [RuleFiles -> Bundles \cup {NoTemp}] /\ temp'[this] = old
      BY <2>4, <3>1, <3>2, Zenon DEF Jobs, Contents
    <3>7. ASSUME w \notin company PROVE FilesRight(j, file', temp')
      <4>1. FilesRight(job[w], file, temp)
        BY <3>1, <3>7, Zenon
      <4> HIDE DEF this, j
      <4>2. ASSUME NEW f \in RuleFiles, KindOf(f) = job[w].kind, Place(f) = job[w].at PROVE temp'[f] = job[w].previous[f]
        BY <3>2, <3>6, <4>2, Zenon
      <4> QED BY <2>1, <2>4, <3>4, <4>1, <4>2, ZenonT(30) DEF FilesRight, StageFacts, Replacing, Replaced, Restoring, Restored
    <3>8. ServedRight(j, service', serving')
      BY <3>4, Zenon DEF ServedRight
    <3>9. \A f \in RuleFiles : KindOf(f) # job[w].kind => file'[f] = file[f] /\ temp'[f] = temp[f]
      BY <2>4, <3>1, <3>2, Zenon
    <3> HIDE DEF j
    <3> QED BY <2>1, <2>4, <3>1, <3>3, <3>4, <3>5, <3>6, <3>7, <3>8, <3>9, OneUpdate, Zenon DEF ServiceMoves, StageFacts
  <2> QED BY <1>2, <2>2, <2>3, <2>4, Zenon DEF RestorePrevious, KeepsFiles
<1> QED BY <1>1, <1>2, Zenon

\* Every step keeps the invariant.
LEMMA NextRight == IInv /\ [RulesNext]_ruleVars => IInv'
<1> SUFFICES ASSUME IInv, [RulesNext]_ruleVars PROVE IInv'
  BY Zenon
<1>1. CASE UNCHANGED ruleVars
  BY <1>1, NoUpdate, Zenon DEF ruleVars, ServiceMoves, IInv, Types
<1>2. CASE Release \/ MarkerAges \/ ServiceDies \/ ServiceStarts \/ ServiceStops
  BY <1>2, ServiceStep, Zenon
<1>3. CASE \E refresh \in BOOLEAN : Accept(refresh)
  BY <1>3, AcceptStep, Zenon
<1>4. CASE \E w \in Updaters, kind \in Kinds : ByHand(w, kind)
  BY <1>4, ByHandStep, Zenon
<1>5. ASSUME NEW w \in Updaters, Update(w) \/ Killed(w) PROVE IInv'
  <2>1. CASE Fetch(w)
    BY <2>1, FetchStep, Zenon
  <2>2. CASE Stage(w)
    BY <2>2, StageStep, Zenon
  <2>3. CASE Rename(w)
    BY <2>3, ReplaceStep, Zenon DEF Rename, IsRename
  <2>4. CASE Installed(w) \/ NotReloaded(w) \/ AckActive(w)
    BY <2>4, InstalledStep, Zenon
  <2>5. CASE Reload(w) \/ ReloadAgain(w)
    BY <2>5, ReloadStep, Zenon
  <2>6. CASE RestorePrevious(w)
    BY <2>6, RestoreStep, Zenon
  <2>7. CASE Exit(w) \/ Killed(w)
    BY <2>7, GoneStep, Zenon
  <2> QED BY <1>5, <2>1, <2>2, <2>3, <2>4, <2>5, <2>6, <2>7, Zenon DEF Update
<1> QED BY <1>1, <1>2, <1>3, <1>4, <1>5, Zenon DEF RulesNext

\* The invariant holds in every reachable state.
LEMMA RightAlways == RulesSpec => []IInv
BY InitRight, NextRight, PTL DEF RulesSpec

\* Whatever the updaters, releases, failures, deaths and updates by hand: an
\* update with no other of its kind beside it leaves all of its files new or all
\* as it found them, unless one of its writes failed, and acknowledges ACTIVE
\* only for the bundle that the service loaded
\* (update_rules_from_coordinator, update_yarax_content_from_coordinator).
THEOREM Whole == RulesSpec => []UpdateIsWhole
<1>1. IInv => UpdateIsWhole
  <2> SUFFICES ASSUME IInv, NEW w \in Updaters, w \notin company
               PROVE  /\ job[w].pc = "active" /\ job[w].kind = "rules" => serving = job[w].bundle
                      /\ \A f \in {FilesOf[job[w].kind][i] : i \in 1..Len(FilesOf[job[w].kind])} :
                           /\ job[w].pc = "done" => file[f] = job[w].bundle
                           /\ job[w].pc = "failed" /\ ~job[w].torn => file[f] = job[w].found[f]
    BY Zenon DEF UpdateIsWhole, ActiveIsServed, AllOrNothing
  <2>1. job[w].kind \in Kinds /\ FilesRight(job[w], file, temp) /\ ServedRight(job[w], service, serving)
    BY Zenon DEF IInv, Types, Jobs, JobRight
  <2>2. ASSUME NEW i \in 1..Len(FilesOf[job[w].kind])
        PROVE  FilesOf[job[w].kind][i] \in RuleFiles /\ KindOf(FilesOf[job[w].kind][i]) = job[w].kind
    <3>1. i \in 1..2 /\ (i = 2 => job[w].kind = "yara")
      BY <2>1, FileNames
    <3> QED BY <2>1, <3>1, FileNames
  <2> QED BY <2>1, <2>2, Zenon DEF FilesRight, ServedRight, Replaced, Restored
<1> QED BY <1>1, RightAlways, PTL

-----------------------------------------------------------------------------
(* OneWriter *)

\* Until its rename an update has the marker, and the bundle is still wanted;
\* from there on it has the marker, or the bundle on disk is the one wanted and
\* nothing is launched.
Early(w) == job[w].pc \in {"fetch", "stage", "rename"}
Excluded ==
  unforced =>
    /\ \A w \in Updaters : Working(w) => job[w].kind = "rules"
    /\ \A v, w \in Updaters : Writing(v) /\ Writing(w) => v = w
    /\ \A w \in Updaters : Early(w) => MarkerRecent(Wanted("rules")) /\ Active # Wanted("rules")
    /\ \A w \in Updaters : Writing(w) => MarkerRecent(Wanted("rules")) \/ Active = Wanted("rules")

\* What a step of an update does to the rules on disk: nothing, and it begins to
\* write only in its fetch; or it is the rename, or the last write of a restore.
Moves(w) ==
  /\ UNCHANGED <<site, release, marker, unforced>>
  /\ \A v \in Updaters : v # w => job'[v] = job[v]
  /\ Working(w) /\ (job'[w].kind = job[w].kind \/ job'[w].pc = "idle")
  /\ \/ UNCHANGED file /\ (Writing(w)' => Writing(w)) /\ (Early(w)' => Early(w))
     \/ Early(w) /\ ~Early(w)'
     \/ Writing(w) /\ ~Writing(w)'

\* A step of this form keeps the exclusion of writers.
LEMMA MovesExclude == ASSUME Excluded, NEW w \in Updaters, Moves(w) PROVE Excluded'
<1> SUFFICES ASSUME unforced' PROVE Excluded'
  BY Zenon DEF Excluded
<1>1. /\ \A v \in Updaters : Working(v) => job[v].kind = "rules"
      /\ \A u, v \in Updaters : Writing(u) /\ Writing(v) => u = v
      /\ \A v \in Updaters : Early(v) => MarkerRecent(Wanted("rules")) /\ Active # Wanted("rules")
      /\ \A v \in Updaters : Writing(v) => MarkerRecent(Wanted("rules")) \/ Active = Wanted("rules")
  BY Zenon DEF Excluded, Moves
<1>2. MarkerRecent(Wanted("rules"))' = MarkerRecent(Wanted("rules")) /\ Wanted("rules")' = Wanted("rules")
  BY Zenon DEF Moves, MarkerRecent, Wanted
<1>3. \A v \in Updaters : Early(v) => Writing(v)
  BY Zenon DEF Early, Writing
<1>4. \A v \in Updaters : v # w => (Early(v)' <=> Early(v)) /\ (Writing(v)' <=> Writing(v)) /\ (Working(v)' <=> Working(v))
  BY Zenon DEF Moves, Early, Writing, Working
<1>5. \A v \in Updaters : Working(v)' => job'[v].kind = "rules"
  BY <1>1, <1>4, Zenon DEF Moves, Working
<1>6. Early(w)' => Writing(w)'
  BY Zenon DEF Early, Writing
<1>7. CASE UNCHANGED file /\ (Writing(w)' => Writing(w)) /\ (Early(w)' => Early(w))
  <2>1. Active' = Active
    BY <1>7, Zenon DEF Active
  <2> QED BY <1>1, <1>2, <1>4, <1>5, <1>7, <2>1, Zenon DEF Excluded
<1>8. CASE (Early(w) /\ ~Early(w)') \/ (Writing(w) /\ ~Writing(w)')
  <2>1. \A v \in Updaters : v # w => ~Writing(v)' /\ ~Early(v)'
    BY <1>1, <1>3, <1>4, <1>8, Zenon
  <2>2. ~Early(w)'
    BY <1>6, <1>8, Zenon
  <2>3. Writing(w)' => MarkerRecent(Wanted("rules"))
    BY <1>1, <1>8, Zenon
  <2> QED BY <1>2, <1>5, <2>1, <2>2, <2>3, Zenon DEF Excluded
<1> QED BY <1>7, <1>8, Zenon DEF Moves

\* The rename of the one file of the rules, and its counterpart in a rollback.
LEMMA OneFileMoves ==
  ASSUME IInv, NEW w \in Updaters, job[w].kind = "rules",
         Rename(w) \/ Replace(w, "put back", "restore", job[w].then)
  PROVE  Moves(w)
<1>1. /\ job[w].pc \in {"rename", "put back"} /\ UNCHANGED <<site, release, marker, unforced>>
      /\ Working(w) /\ job[w] \in Jobs /\ JobShape(job[w])
  BY AtWork, Zenon DEF Rename, Replace, Keeps
<1>2. IsLast(w) /\ job[w].then \in {"failed", "again"}
  BY <1>1, ThisFile, Zenon DEF IInv, Jobs
<1>3. job \in [Updaters -> Jobs]
  BY Zenon DEF IInv, Types
<1>4. CASE job' = [job EXCEPT ![w].pc = "failed", ![w].torn = TRUE]
  <2>1. (\A v \in Updaters : v # w => job'[v] = job[v]) /\ job'[w].kind = job[w].kind /\ job'[w].pc = "failed"
    BY <1>1, <1>3, <1>4, Zenon DEF Jobs
  <2> QED BY <1>1, <2>1, Zenon DEF Moves, Writing, Early
<1>5. CASE job[w].pc = "rename" /\ Advance(w, "stage", "installed")
  <2>1. job' = [job EXCEPT ![w].pc = "installed", ![w].at = 1]
    BY <1>2, <1>5, Zenon DEF Advance
  <2>2. (\A v \in Updaters : v # w => job'[v] = job[v]) /\ job'[w].kind = job[w].kind /\ job'[w].pc = "installed"
    BY <1>1, <1>3, <2>1, Zenon DEF Jobs
  <2> QED BY <1>1, <1>5, <2>2, Zenon DEF Moves, Early
<1>6. CASE job[w].pc = "put back" /\ Advance(w, "restore", job[w].then)
  <2>1. job' = [job EXCEPT ![w].pc = job[w].then, ![w].at = 1]
    BY <1>2, <1>6, Zenon DEF Advance
  <2>2. (\A v \in Updaters : v # w => job'[v] = job[v]) /\ job'[w].kind = job[w].kind /\ job'[w].pc = job[w].then
    BY <1>1, <1>3, <2>1, Zenon DEF Jobs
  <2> QED BY <1>1, <1>2, <1>6, <2>2, Zenon DEF Moves, Writing
<1> QED BY <1>4, <1>5, <1>6, Zenon DEF Rename, Replace

\* A rollback writes the rules at most once, with its last step.
LEMMA RestoreMoves ==
  ASSUME IInv, NEW w \in Updaters, job[w].kind = "rules", RestorePrevious(w)
  PROVE  Moves(w)
<1>1. CASE Replace(w, "put back", "restore", job[w].then)
  BY <1>1, OneFileMoves, Zenon
<1>2. CASE ~Replace(w, "put back", "restore", job[w].then)
  <2>1. /\ job[w].pc = "restore" /\ UNCHANGED <<site, release, marker, unforced>>
        /\ Working(w) /\ job[w] \in Jobs /\ JobShape(job[w])
    BY <1>2, AtWork, Zenon DEF RestorePrevious, Keeps
  <2>2. IsLast(w) /\ job[w].then \in {"failed", "again"}
    BY <2>1, ThisFile, Zenon DEF IInv, Jobs
  <2>3. job \in [Updaters -> Jobs]
    BY Zenon DEF IInv, Types
  <2>4. CASE Advance(w, "restore", job[w].then)
    <3>1. job' = [job EXCEPT ![w].pc = job[w].then, ![w].at = 1]
      BY <2>2, <2>4, Zenon DEF Advance
    <3>2. (\A v \in Updaters : v # w => job'[v] = job[v]) /\ job'[w].kind = job[w].kind /\ job'[w].pc = job[w].then
      BY <2>1, <2>3, <3>1, Zenon DEF Jobs
    <3> QED BY <2>1, <2>2, <3>2, Zenon DEF Moves, Writing
  <2>5. CASE UNCHANGED file /\ (job' = [job EXCEPT ![w].pc = "failed", ![w].torn = TRUE] \/ Proceed(w, "put back"))
    <3>1. /\ \A v \in Updaters : v # w => job'[v] = job[v]
          /\ job'[w].kind = job[w].kind /\ job'[w].pc \in {"failed", "put back"}
      <4>1. CASE job' = [job EXCEPT ![w].pc = "failed", ![w].torn = TRUE]
        BY ONLY w \in Updaters, <2>1, <2>3, <4>1 DEF Jobs
      <4>2. CASE Proceed(w, "put back")
        BY ONLY w \in Updaters, <2>1, <2>3, <4>2 DEF Jobs, Proceed
      <4> QED BY <2>5, <4>1, <4>2, Zenon
    <3> QED BY <2>1, <2>5, <3>1, Zenon DEF Moves, Writing, Early
  <2> QED BY <1>2, <2>4, <2>5, Zenon DEF RestorePrevious, KeepsFiles
<1> QED BY <1>1, <1>2, Zenon

\* The other steps of an update leave the rules on disk alone.
LEMMA QuietMoves ==
  ASSUME IInv, NEW w \in Updaters,
         Fetch(w) \/ Stage(w) \/ Installed(w) \/ Reload(w) \/ NotReloaded(w) \/ ReloadAgain(w) \/ AckActive(w) \/ Exit(w) \/ Killed(w)
  PROVE  Moves(w)
<1>1. job[w].pc # "idle" /\ UNCHANGED <<site, release, marker, unforced, file>>
  BY DEF Fetch, Stage, Installed, Reload, NotReloaded, ReloadAgain, AckActive, Exit, Killed, Gone, Stop, Start, Working,
         Keeps, KeepsFiles
<1>2. job \in [Updaters -> Jobs] /\ job[w] \in Jobs /\ Working(w)
  BY <1>1, AtWork, Zenon DEF IInv, Types
<1>3. CASE Exit(w) \/ Killed(w)
  <2>1. (\A v \in Updaters : v # w => job'[v] = job[v]) /\ job'[w].pc = "idle"
    BY <1>2, <1>3, IdleIsAJob, Zenon DEF Exit, Killed, Gone
  <2> QED BY <1>1, <1>2, <2>1, Zenon DEF Moves, Writing, Early
<1>4. CASE Fetch(w)
  <2>1. /\ \A v \in Updaters : v # w => job'[v] = job[v]
        /\ job'[w].kind = job[w].kind /\ job'[w].pc \in {"stage", "failed"} /\ job[w].pc = "fetch"
    <3>0. job[w].pc = "fetch"
      BY <1>4, Zenon DEF Fetch
    <3>1. CASE job' = [job EXCEPT ![w].pc = "stage", ![w].bundle = Wanted(job[w].kind), ![w].found = file]
      BY ONLY w \in Updaters, <1>2, <3>0, <3>1 DEF Jobs
    <3>2. CASE job' = [job EXCEPT ![w].pc = "failed", ![w].found = file]
      BY ONLY w \in Updaters, <1>2, <3>0, <3>2 DEF Jobs
    <3> QED BY <1>4, <3>1, <3>2, Zenon DEF Fetch
  <2> QED BY <1>1, <1>2, <2>1, Zenon DEF Moves, Writing, Early
<1>5. CASE Stage(w)
  <2>1. /\ \A v \in Updaters : v # w => job'[v] = job[v]
        /\ job'[w].kind = job[w].kind /\ job'[w].pc \in {"rename", "failed"} /\ job[w].pc = "stage"
    <3> DEFINE read == IF job[w].at = 1 THEN file ELSE job[w].previous
    <3>0. job[w].pc = "stage"
      BY <1>5, Zenon DEF Stage
    <3>1. CASE job' = [job EXCEPT ![w].pc = "rename", ![w].previous = read]
      <4> HIDE DEF read
      <4>1. (\A v \in Updaters : v # w => job'[v] = job[v]) /\ job'[w].kind = job[w].kind /\ job'[w].pc = "rename"
        BY ONLY w \in Updaters, <1>2, <3>1 DEF Jobs
      <4> QED BY <3>0, <4>1, Zenon
    <3>2. CASE job' = [job EXCEPT ![w].pc = "failed", ![w].torn = TRUE]
      <4>1. (\A v \in Updaters : v # w => job'[v] = job[v]) /\ job'[w].kind = job[w].kind /\ job'[w].pc = "failed"
        BY ONLY w \in Updaters, <1>2, <3>2 DEF Jobs
      <4> QED BY <3>0, <4>1, Zenon
    <3> QED BY <1>5, <3>1, <3>2, Zenon DEF Stage
  <2> QED BY <1>1, <1>2, <2>1, Zenon DEF Moves, Writing, Early
<1>6. CASE Installed(w) \/ NotReloaded(w)
  <2>1. /\ \A v \in Updaters : v # w => job'[v] = job[v]
        /\ job'[w].kind = job[w].kind /\ job'[w].pc \in {"reload", "restore"} /\ job[w].pc \in {"installed", "not reloaded"}
    <3>1. CASE Proceed(w, "reload") /\ job[w].pc = "installed"
      BY <1>2, <3>1, Zenon DEF Proceed, Jobs
    <3>2. CASE Undo(w, "failed") /\ job[w].pc = "installed"
      BY <1>2, <3>2, Zenon DEF Undo, Jobs
    <3>3. CASE Undo(w, "again") /\ job[w].pc = "not reloaded"
      BY <1>2, <3>3, Zenon DEF Undo, Jobs
    <3> QED BY <1>6, <3>1, <3>2, <3>3, Zenon DEF Installed, NotReloaded, Undo
  <2> QED BY <1>1, <1>2, <2>1, Zenon DEF Moves, Writing, Early
<1>7. CASE Reload(w) \/ ReloadAgain(w) \/ AckActive(w)
  <2>a. \/ job[w].pc \in {"reload", "start"} /\ (Proceed(w, "start") \/ Proceed(w, "not reloaded"))
        \/ Proceed(w, "done") \/ Proceed(w, "active") \/ Proceed(w, "start again") \/ Proceed(w, "failed")
    <3>1. CASE AckActive(w)
      BY <3>1, Zenon DEF AckActive
    <3>2. CASE Stop(w, "reload", "start", "done", "not reloaded") \/ Start(w, "start", "active", "not reloaded")
      BY <3>2, Zenon DEF Stop, Start
    <3>3. CASE Stop(w, "again", "start again", "failed", "failed") \/ Start(w, "start again", "failed", "failed")
      BY <3>3, Zenon DEF Stop, Start
    <3> QED BY <1>7, <3>1, <3>2, <3>3, Zenon DEF Reload, ReloadAgain
  <2>1. PICK pc \in {"start", "done", "not reloaded", "active", "start again", "failed"} :
          Proceed(w, pc) /\ (pc \in {"start", "not reloaded"} => job[w].pc \in {"reload", "start"})
    BY <2>a, Zenon
  <2>2. /\ \A v \in Updaters : v # w => job'[v] = job[v]
        /\ job'[w].kind = job[w].kind /\ job'[w].pc = pc
    BY <1>2, <2>1, Zenon DEF Proceed, Jobs
  <2> QED BY <1>1, <1>2, <2>1, <2>2, Zenon DEF Moves, Writing, Early
<1> QED BY <1>3, <1>4, <1>5, <1>6, <1>7, Zenon

\* No step of an updater, its death included, makes a second writer.
LEMMA UpdateExcludes == ASSUME IInv, Excluded, NEW w \in Updaters, Update(w) \/ Killed(w) PROVE Excluded'
<1>1. CASE unforced
  <2>1. Working(w) => job[w].kind = "rules"
    BY <1>1, Zenon DEF Excluded
  <2>2. CASE Rename(w) \/ RestorePrevious(w)
    <3>1. Working(w)
      BY <2>2, Zenon DEF Rename, RestorePrevious, Replace, Working
    <3> QED BY <2>1, <2>2, <3>1, OneFileMoves, RestoreMoves, MovesExclude, Zenon
  <2>3. CASE ~(Rename(w) \/ RestorePrevious(w))
    BY <2>3, QuietMoves, MovesExclude, Zenon DEF Update
  <2> QED BY <2>2, <2>3, Zenon
<1>2. CASE ~unforced
  <2>1. UNCHANGED unforced
    BY DEF Update, Fetch, Stage, Rename, Replace, Installed, Reload, NotReloaded, RestorePrevious, ReloadAgain, AckActive, Stop, Start,
           Exit, Killed, Gone, Keeps
  <2> QED BY <1>2, <2>1, ZenonT(30) DEF Excluded
<1> QED BY <1>1, <1>2, Zenon

\* The service launches no second writer.
LEMMA AcceptExcludes == ASSUME IInv, Excluded, NEW refresh \in BOOLEAN, Accept(refresh) PROVE Excluded'
<1> SUFFICES ASSUME unforced' PROVE Excluded'
  BY Zenon DEF Excluded
<1> DEFINE d == Wanted("rules")
<1>1. unforced /\ ~refresh /\ UNCHANGED <<site, release, file>>
  BY Zenon DEF Accept
<1>2. /\ \A v \in Updaters : Working(v) => job[v].kind = "rules"
      /\ \A u, v \in Updaters : Writing(u) /\ Writing(v) => u = v
      /\ \A v \in Updaters : Early(v) => MarkerRecent(d) /\ Active # d
      /\ \A v \in Updaters : Writing(v) => MarkerRecent(d) \/ Active = d
  BY <1>1, Zenon DEF Excluded
<1>3. d' = d /\ Active' = Active
  BY <1>1, Zenon DEF Wanted, Active
<1>4. CASE UNCHANGED job /\ Active = d
  <2>1. \A v \in Updaters : (Early(v)' <=> Early(v)) /\ (Writing(v)' <=> Writing(v)) /\ (Working(v)' <=> Working(v))
    BY <1>4, Zenon DEF Early, Writing, Working
  <2> QED BY <1>2, <1>3, <1>4, <2>1, Zenon DEF Excluded
<1>5. CASE UNCHANGED <<job, marker>>
  <2>1. \A v \in Updaters : (Early(v)' <=> Early(v)) /\ (Writing(v)' <=> Writing(v)) /\ (Working(v)' <=> Working(v))
    BY <1>5, Zenon DEF Early, Writing, Working
  <2>2. MarkerRecent(d)' = MarkerRecent(d)
    BY <1>3, <1>5, Zenon DEF MarkerRecent
  <2> QED BY <1>2, <1>3, <1>5, <2>1, <2>2, Zenon DEF Excluded
<1>6. CASE Active # d /\ ~MarkerRecent(d) /\ LaunchWorker(d)
  <2>1. \A v \in Updaters : ~Writing(v) /\ ~Early(v)
    BY <1>2, <1>6, Zenon
  <2>2. CASE UNCHANGED job
    <3>1. \A v \in Updaters : ~Writing(v)' /\ ~Early(v)' /\ (Working(v)' <=> Working(v))
      BY <2>1, <2>2, Zenon DEF Early, Writing, Working
    <3> QED BY <1>2, <2>2, <3>1, Zenon DEF Excluded
  <2>3. CASE WriteMarker(d) /\ \E w \in Updaters : BeginUpdate(w, "rules", d)
    <3>1. PICK w \in Updaters : BeginUpdate(w, "rules", d)
      BY <2>3, Zenon
    <3>2. MarkerRecent(d)'
      BY <1>3, <2>3, Zenon DEF WriteMarker, MarkerRecent
    <3>3. job'[w].kind = "rules" /\ \A v \in Updaters : v # w => job'[v] = job[v]
      BY <3>1, IdleIsAJob, Zenon DEF BeginUpdate, IInv, Types, Idle
    <3>4. \A v \in Updaters : v # w => ~Writing(v)' /\ ~Early(v)' /\ (Working(v)' <=> Working(v))
      BY <2>1, <3>3, Zenon DEF Early, Writing, Working
    <3> QED BY <1>2, <1>3, <1>6, <3>2, <3>3, <3>4, Zenon DEF Excluded
  <2> QED BY <1>6, <2>2, <2>3, Zenon DEF LaunchWorker
<1> QED BY <1>1, <1>4, <1>5, <1>6, Zenon DEF Accept

\* While no marker expires, no release changes and nobody refreshes or updates by
\* hand, the marker and the comparison with the bundle on disk keep the service
\* from ever having two updaters that write, whatever fails, dies or restarts
\* (accept_rule_control_from_coordinator_response).
THEOREM Exclusive == RulesSpec => []OneWriter
<1>1. RulesInit => Excluded
  <2> SUFFICES ASSUME RulesInit PROVE Excluded
    BY Zenon
  <2>1. \A w \in Updaters : job[w].pc = "idle"
    BY IdleIsAJob, Zenon DEF RulesInit
  <2> QED BY <2>1, Zenon DEF Excluded, Working, Writing, Early
<1>2. IInv /\ Excluded /\ [RulesNext]_ruleVars => Excluded'
  <2> SUFFICES ASSUME IInv, Excluded, [RulesNext]_ruleVars PROVE Excluded'
    BY Zenon
  <2>1. CASE UNCHANGED <<site, release, file, marker, unforced, job>>
    BY <2>1, Zenon DEF Excluded, Working, Writing, Early, MarkerRecent, Wanted, Active
  <2>2. CASE ~unforced'
    BY <2>2, Zenon DEF Excluded
  <2>3. CASE \E refresh \in BOOLEAN : Accept(refresh)
    BY <2>3, AcceptExcludes, Zenon
  <2>4. CASE \E w \in Updaters : Update(w) \/ Killed(w)
    BY <2>4, UpdateExcludes, Zenon
  <2> QED BY <2>1, <2>2, <2>3, <2>4
      DEF RulesNext, ruleVars, Release, MarkerAges, ServiceDies, ServiceStarts, ServiceStops, ByHand
<1>3. Excluded => OneWriter
  <2> SUFFICES ASSUME Excluded, unforced PROVE Cardinality({w \in Updaters : Writing(w)}) <= 1
    BY Zenon DEF OneWriter
  <2> DEFINE S == {w \in Updaters : Writing(w)}
  <2>1. CASE S = {}
    BY <2>1, FS_EmptySet
  <2>2. CASE S # {}
    <3>1. PICK w \in S : TRUE
      BY <2>2, Zenon
    <3>2. S = {w}
      BY <3>1, Zenon DEF Excluded
    <3> QED BY <3>2, FS_Singleton
  <2> QED BY <2>1, <2>2, Zenon
<1> QED BY <1>1, <1>2, <1>3, RightAlways, PTL DEF RulesSpec
==============================================================================
