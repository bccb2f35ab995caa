---- MODULE WindowsSensorBroker ----
(***************************************************************************)
(* The Windows sensor broker (src/platform/windows/sensor_broker_*.cpp).    *)
(* Process and lifecycle events of the host are attributed to an endpoint   *)
(* by process tree: EndpointProcessRegistry remembers the endpoint of every *)
(* pid it has come across and, for one it has not, walks up a snapshot of   *)
(* the process table.  An agent has one connection, a message-mode pipe,    *)
(* for both kinds of event.                                                 *)
(*                                                                          *)
(* The host is external: processes start, exit and open connections, pids   *)
(* are given out again, and each of the two event streams reaches the       *)
(* broker in order but at its own pace.                                     *)
(***************************************************************************)
EXTENDS SensorFrames, Sequences, SequencesExt, Functions, TLC

CONSTANTS
  Slots, RootPid,      \* slot -> the pid of its root process (--map)
  Outside,             \* the pid of a process that is in no endpoint
  Pids,                \* pids of the processes the host starts
  QueueCapacity, PipeCapacity,
  MaxReuse, MaxEvents,
  Conns                \* connections, by name

TraceThreads == {"process", "lifecycle"}
Resolvers == TraceThreads \cup Conns
Roots == {RootPid[s] : s \in Slots}
SlotOfRoot(pid) == CHOOSE s \in Slots : RootPid[s] = pid

VARIABLES
  proc,        \* the host's processes: [pid, ppid, parent, alive]
  emitted,     \* its events: [event, of], of the number of the process
  etw,         \* thread -> numbers of the events it has yet to take
  owners,      \* owners_: pid -> [slot, key, root]
  work,        \* resolver -> the resolve_pid call it is in
  queue, dropped, unroutable,
  conn         \* connection -> its record

vars == <<proc, emitted, etw, owners, work, queue, dropped, unroutable, conn>>
host == <<proc, emitted, etw>>
router == <<queue, dropped, unroutable>>

NoWork == [at |-> "idle", n |-> None, pid |-> None, parents |-> <<>>, slot |-> None]
Unused == [slot |-> None, of |-> None, server |-> "none", client |-> "none", hand |-> None,
           pipe |-> <<>>, inbox |-> <<>>, received |-> <<>>]

\* register_endpoint, for every --map: the roots are running, and known.
Init ==
  /\ \E roots \in {SetToSeq(Roots \cup {Outside})} :
       proc = [i \in DOMAIN roots |-> [pid |-> roots[i], ppid |-> 0, parent |-> i, alive |-> TRUE]]
  /\ emitted = <<>> /\ etw = [t \in TraceThreads |-> <<>>]
  /\ owners = [p \in Roots |-> [slot |-> SlotOfRoot(p), key |-> None, root |-> TRUE]]
  /\ work = [r \in Resolvers |-> NoWork]
  /\ queue = [s \in Slots |-> <<>>] /\ dropped = [s \in Slots |-> 0] /\ unroutable = 0
  /\ conn = [c \in Conns |-> Unused]

----
(***************************************************************************)
(* The host (external).  The number of a process is its UniqueProcessKey.   *)
(***************************************************************************)
Initially == Cardinality(Roots) + 1
Holders(pid) == {i \in DOMAIN proc : proc[i].pid = pid}
Reuses == Len(proc) - Initially - Cardinality({proc[i].pid : i \in DOMAIN proc} \ (Roots \cup {Outside}))

Happens(kind, type, i, values) ==
  /\ Len(emitted) < MaxEvents
  /\ emitted' = Append(emitted, [of |-> i,
       event |-> Event(kind, type, Len(emitted) + 1, values, IF type = "start" THEN "long" ELSE "short")])
  /\ etw' = [etw EXCEPT ![kind] = Append(@, Len(emitted) + 1)]
  /\ UNCHANGED <<owners, work, queue, dropped, unroutable, conn>>

ProcessStarts ==
  \E parent \in DOMAIN proc, pid \in Pids :
    /\ proc[parent].alive
    /\ \A i \in Holders(pid) : ~proc[i].alive
    /\ Holders(pid) # {} => Reuses < MaxReuse
    /\ proc' = Append(proc, [pid |-> pid, ppid |-> proc[parent].pid, parent |-> parent, alive |-> TRUE])
    /\ Happens("process", "start", Len(proc) + 1,
               [pid |-> pid, parentPid |-> proc[parent].pid, key |-> Len(proc) + 1])
ProcessExits ==
  \E i \in DOMAIN proc :
    /\ i > Initially /\ proc[i].alive
    /\ proc' = [proc EXCEPT ![i].alive = FALSE]
    /\ Happens("process", "exit", i, [pid |-> proc[i].pid, key |-> i])
ConnectionOpens ==
  \E i \in DOMAIN proc :
    /\ i > Initially /\ proc[i].alive
    /\ Happens("lifecycle", "connect", i, [kernelPid |-> proc[i].pid, local |-> 1])
    /\ UNCHANGED proc

\* The processes of a snapshot (CreateToolhelp32Snapshot), with the pid each
\* was started by, whether or not that process still exists.
ProcessParents ==
  [p \in {proc[i].pid : i \in {j \in DOMAIN proc : proc[j].alive}} |->
     proc[CHOOSE i \in Holders(p) : proc[i].alive].ppid]

----
(***************************************************************************)
(* The registry.                                                            *)
(***************************************************************************)
\* resolve_pid, up to the snapshot: a known pid is answered at once.
Resolve(n, pid) ==
  IF pid \in DOMAIN owners
  THEN [NoWork EXCEPT !.at = "resolved", !.n = n, !.pid = pid, !.slot = owners[pid].slot]
  ELSE [NoWork EXCEPT !.at = "walk", !.n = n, !.pid = pid, !.parents = ProcessParents]

RECURSIVE GuessFrom(_, _, _), WalkFrom(_, _, _)
GuessFrom(current, parents, path) ==
  CASE current \in DOMAIN owners -> [slot |-> owners[current].slot, path |-> Append(path, current)]
    [] current \notin DOMAIN parents \/ current \in Range(path) ->
         [slot |-> CHOOSE s \in Slots : TRUE, path |-> path]
    [] OTHER -> GuessFrom(parents[current], parents, Append(path, current))
\* The walk: up the snapshot until a pid is known.  (Its bound of 128 steps is
\* beyond the processes of the model.)
WalkFrom(current, parents, path) ==
  CASE current = 0 \/ current \in Range(path) -> [slot |-> None, path |-> path]
    [] current \in DOMAIN owners -> [slot |-> owners[current].slot, path |-> Append(path, current)]
    [] current \in Roots -> [slot |-> SlotOfRoot(current), path |-> Append(path, current)]
    [] current \notin DOMAIN parents -> [slot |-> None, path |-> path]
    [] OTHER -> WalkFrom(parents[current], parents, Append(path, current))

WalkGuessing(r) ==
  LET w == GuessFrom(work[r].pid, work[r].parents, <<>>) IN
  /\ work[r].at = "walk"
  /\ work' = [work EXCEPT ![r].at = "resolved", ![r].slot = w.slot, ![r].parents = <<>>]
  /\ UNCHANGED <<host, owners, queue, dropped, unroutable, conn>>
\* resolve_pid, from the snapshot on: the pids on the way are remembered, with
\* no process key, even those whose exit has been observed in the meantime.
Walk(r) ==
  LET w == WalkFrom(work[r].pid, work[r].parents, <<>>)
      members == Range(w.path) \ Roots
  IN
  /\ work[r].at = "walk"
  /\ work' = [work EXCEPT ![r].at = "resolved", ![r].slot = w.slot, ![r].parents = <<>>]
  /\ owners' = IF w.slot = None THEN owners
               ELSE [p \in members |-> [slot |-> w.slot, key |-> None, root |-> FALSE]] @@ owners
  /\ UNCHANGED <<host, queue, dropped, unroutable, conn>>

\* observe, once it has a slot.  Start: the pid is its parent's endpoint's.
\* Exit: the entry of this process is dropped, unless it is a root or is known
\* to be another process's.
Observed(e, slot) ==
  LET pid == e.opt["pid"] IN
  IF e.type = "start"
  THEN (pid :> [slot |-> slot, key |-> e.opt["key"], root |-> pid \in Roots]) @@ owners
  ELSE IF pid \in DOMAIN owners /\ ~owners[pid].root
          /\ (owners[pid].key = None \/ owners[pid].key = e.opt["key"])
       THEN Restrict(owners, DOMAIN owners \ {pid})
       ELSE owners

\* BoundedFrameQueue::push
Push(slot, frame) ==
  LET full == Len(queue[slot]) >= QueueCapacity IN
  /\ queue' = [queue EXCEPT ![slot] = Append(IF full THEN Tail(@) ELSE @, frame)]
  /\ dropped' = [dropped EXCEPT ![slot] = @ + (IF full THEN 1 ELSE 0)]
  /\ UNCHANGED unroutable
NoteUnroutable == unroutable' = unroutable + 1 /\ UNCHANGED <<queue, dropped>>

\* The process thread: the parent's endpoint first for a start, else the
\* process's own.
TakeProcessEvent ==
  LET n == Head(etw["process"]) e == emitted[n].event IN
  /\ work["process"].at = "idle" /\ etw["process"] # <<>>
  /\ etw' = [etw EXCEPT !["process"] = Tail(@)]
  /\ work' = [work EXCEPT !["process"] =
                Resolve(n, IF e.type = "start" THEN e.opt["parentPid"] ELSE e.opt["pid"])]
  /\ UNCHANGED <<proc, emitted, owners, queue, dropped, unroutable, conn>>
RouteProcessEvent ==
  LET w == work["process"] e == emitted[w.n].event IN
  /\ w.at = "resolved"
  /\ IF w.slot = None /\ e.type = "start" /\ w.pid # e.opt["pid"]
     THEN /\ work' = [work EXCEPT !["process"] = Resolve(w.n, e.opt["pid"])]
          /\ UNCHANGED <<owners, queue, dropped, unroutable>>
     ELSE /\ work' = [work EXCEPT !["process"] = NoWork]
          /\ IF w.slot = None THEN NoteUnroutable /\ UNCHANGED owners
             ELSE /\ owners' = Observed(e, w.slot)
                  /\ Push(w.slot, WindowsEncodeProcessExec(w.n, e))
  /\ UNCHANGED <<host, conn>>

\* The lifecycle thread (lifecycle_pid: the kernel's pid, else the agent's).
TakeLifecycleEvent ==
  LET n == Head(etw["lifecycle"]) e == emitted[n].event
      pid == IF e.opt["kernelPid"] # None THEN e.opt["kernelPid"] ELSE e.opt["agentPid"]
  IN
  /\ work["lifecycle"].at = "idle" /\ etw["lifecycle"] # <<>>
  /\ etw' = [etw EXCEPT !["lifecycle"] = Tail(@)]
  /\ work' = [work EXCEPT !["lifecycle"] = Resolve(n, pid)]
  /\ UNCHANGED <<proc, emitted, owners, queue, dropped, unroutable, conn>>
RouteLifecycleEvent ==
  LET w == work["lifecycle"] IN
  /\ w.at = "resolved"
  /\ work' = [work EXCEPT !["lifecycle"] = NoWork]
  /\ IF w.slot = None THEN NoteUnroutable
     ELSE Push(w.slot, WindowsEncodeLifecycle(w.n, emitted[w.n].event))
  /\ UNCHANGED <<host, owners, conn>>

----
(***************************************************************************)
(* Connections.                                                             *)
(***************************************************************************)
\* shared_connection: a process connects and registers the slot it is
\* configured with, which need not be that of its process tree.
Connect ==
  /\ \E c \in Conns : conn[c] = Unused
  /\ \E c \in {CHOOSE d \in Conns : conn[d] = Unused}, i \in DOMAIN proc, s \in Slots :
       /\ proc[i].alive
       /\ conn' = [conn EXCEPT ![c] = [Unused EXCEPT !.slot = s, !.of = i, !.server = "registering",
                                                     !.client = "open"]]
       /\ work' = [work EXCEPT ![c] = Resolve(None, proc[i].pid)]
       /\ UNCHANGED <<host, owners, router>>

\* serve_client, up to its loop: the client's process must be the endpoint's.
Admit(c) ==
  /\ conn[c].server = "registering" /\ work[c].at = "resolved"
  /\ conn' = [conn EXCEPT ![c].server = IF work[c].slot = conn[c].slot THEN "serving" ELSE "gone"]
  /\ work' = [work EXCEPT ![c] = NoWork]
  /\ UNCHANGED <<host, owners, router>>

Take(c) ==
  /\ conn[c].server = "serving" /\ queue[conn[c].slot] # <<>>
  /\ conn' = [conn EXCEPT ![c].server = "holding", ![c].hand = Head(queue[conn[c].slot])]
  /\ queue' = [queue EXCEPT ![conn[c].slot] = Tail(@)]
  /\ UNCHANGED <<host, owners, work, dropped, unroutable>>
\* write_pipe_message: waits for room, fails once the client has gone.
Write(c) ==
  /\ conn[c].server = "holding"
  /\ conn[c].client # "closed" => Len(conn[c].pipe) < PipeCapacity
  /\ conn' = IF conn[c].client = "closed"
             THEN [conn EXCEPT ![c].server = "gone", ![c].hand = None]
             ELSE [conn EXCEPT ![c].server = "serving", ![c].hand = None,
                               ![c].pipe = Append(@, conn[c].hand)]
  /\ UNCHANGED <<host, owners, work, router>>

\* read_loop: PeekNamedPipe reports the bytes of every message in the pipe and
\* ReadFile returns the first, so that anything but exactly one message is an
\* error; so is a pipe the server has closed.  An error is for good.
ReadLoop(c) ==
  LET frame == Head(conn[c].pipe)
      event == IF frame.kind = "lifecycle" THEN WindowsDecodeLifecycle(frame)
               ELSE WindowsDecodeProcessExec(frame)
  IN
  /\ conn[c].client = "open"
  /\ conn[c].server # "gone" => conn[c].pipe # <<>>
  /\ conn' = IF Len(conn[c].pipe) # 1 \/ event = None
             THEN [conn EXCEPT ![c].client = "failed"]
             ELSE [conn EXCEPT ![c].pipe = <<>>, ![c].inbox = Append(@, event)]
  /\ UNCHANGED <<host, owners, work, router>>

\* poll_lifecycle and poll_process: everything of the kind that has come in;
\* a failed connection throws first, whatever is still in the inbox.
Poll(c, kind) ==
  LET of(e) == e.kind = kind
      others(e) == e.kind # kind
  IN
  /\ conn[c].client = "open" /\ SelectSeq(conn[c].inbox, of) # <<>>
  /\ conn' = [conn EXCEPT ![c].received = @ \o SelectSeq(conn[c].inbox, of),
                          ![c].inbox = SelectSeq(@, others)]
  /\ UNCHANGED <<host, owners, work, router>>

\* The observers are destroyed, or their process ends.
CloseClient(c) ==
  /\ conn[c].client \in {"open", "failed"}
  /\ conn' = [conn EXCEPT ![c].client = "closed", ![c].pipe = <<>>, ![c].inbox = <<>>]
  /\ UNCHANGED <<host, owners, work, router>>

Next ==
  \/ ProcessStarts \/ ProcessExits \/ ConnectionOpens \/ Connect
  \/ TakeProcessEvent \/ RouteProcessEvent \/ TakeLifecycleEvent \/ RouteLifecycleEvent
  \/ \E r \in Resolvers : Walk(r)
  \/ \E c \in Conns : Admit(c) \/ Take(c) \/ Write(c) \/ ReadLoop(c) \/ CloseClient(c)
  \/ \E c \in Conns, kind \in TraceThreads : Poll(c, kind)
Spec == Init /\ [][Next]_vars

----
(***************************************************************************)
(* Properties.                                                              *)
(***************************************************************************)
\* A process, the one that started it, and so on; the endpoint of the tree.
RECURSIVE Lineage(_)
Lineage(i) == IF proc[i].parent = i THEN {i} ELSE {i} \cup Lineage(proc[i].parent)
EndpointOf(i) ==
  LET tops == {proc[j].pid : j \in Lineage(i)} \cap Roots
  IN IF tops = {} THEN None ELSE SlotOfRoot(CHOOSE p \in tops : TRUE)
Recycled(i) == \E j \in Lineage(i) : Cardinality(Holders(proc[j].pid)) > 1

\* A client is given events of its endpoint's processes, once each, in the
\* order the host produced them within a kind, each with what the format can
\* carry of it; and it is itself one of those processes (the registry, the
\* router, serve_client, the codec).  An event goes elsewhere only when the pid
\* of its process, or of one it descends from, has had another holder.
OwnEventsOnly ==
  \A c \in Conns : LET got == conn[c].received IN
    /\ \A i \in DOMAIN got :
         LET source == emitted[got[i].ts] IN
         /\ got[i] = CarriedByWindows(source.event)
         /\ EndpointOf(source.of) = conn[c].slot \/ Recycled(source.of)
         /\ \A j \in 1 .. i - 1 : got[j].kind = got[i].kind => got[j].ts < got[i].ts
         /\ \A d \in Conns \ {c} : got[i] \notin Range(conn[d].received)
    /\ conn[c].server \in {"serving", "holding"} =>
         EndpointOf(conn[c].of) = conn[c].slot \/ Recycled(conn[c].of)

\* No event is queued for an endpoint that its process does not belong to
\* (docs/LARGE_SCALE_SIMULATOR_PHASE3.md: "Unknown ownership is never guessed
\* or broadcast").  The registry's entries and the parent pids of a snapshot
\* outlive the processes they were about, so that this fails once a pid is
\* given out again.
UnknownNeverGuessed ==
  \A s \in Slots : \A f \in Range(queue[s]) : EndpointOf(emitted[f.payload.ts].of) = s
====
