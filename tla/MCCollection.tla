---- MODULE MCCollection ----
(***************************************************************************)
(* The collection layer, model-checked: the two sensor brokers and the two  *)
(* sensors that pair records of the kernel by an id that is given out       *)
(* again.  They share no state, so a behaviour of the run is a behaviour of *)
(* one of them; `part` says which, and the others' state is idle.           *)
(***************************************************************************)
EXTENDS SensorFrames, Sequences

CONSTANTS Slots, QueueCapacity,
          Mappings, Hosts, SocketBuffer, Prompt, MaxConns,
          RootPid, Outside, Pids, PipeCapacity, MaxReuse, MaxEvents, Conns,
          Threads, Calls, Chains, MaxAddresses, PendingCapacity, RingCapacity, MaxCalls,
          EtwPids, EtwHosts, MaxActive, MaxCached

VARIABLES part, up, netns, cgroup, emitted, ring, queue, dropped, unroutable, sequence, conn,
          proc, happened, etw, owners, work, pending, discarded, unowned, pipes,
          stack, inflight, samples, drops, observed, made, finished, unseen,
          host, alive, open, born, opened, trace, lost, cache, active, order, generation, local,
          events, polled

linux == <<up, netns, cgroup, emitted, ring, queue, dropped, unroutable, sequence, conn>>
windows == <<proc, happened, etw, owners, work, pending, discarded, unowned, pipes>>
lookups == <<stack, inflight, samples, drops, observed, made, finished, unseen>>
connections == <<host, alive, open, born, opened, trace, lost, cache, active, order, generation, local,
                 events, polled>>

L == INSTANCE LinuxSensorBroker
W == INSTANCE WindowsSensorBroker
       WITH emitted <- happened, queue <- pending, dropped <- discarded, unroutable <- unowned,
            conn <- pipes
R == INSTANCE ResolverProbe
E == INSTANCE EtwLifecycle WITH Pids <- EtwPids, Hosts <- EtwHosts

Init ==
  /\ part \in {"linux broker", "windows broker", "linux lookups", "windows connections"}
  /\ L!Init /\ W!Init /\ R!Init /\ E!Init
  /\ part # "linux broker" => emitted = <<>>
  /\ part # "windows connections" => host = CHOOSE h \in EtwHosts : TRUE
Next ==
  \/ part = "linux broker" /\ L!Next /\ UNCHANGED <<part, windows, lookups, connections>>
  \/ part = "windows broker" /\ W!Next /\ UNCHANGED <<part, linux, lookups, connections>>
  \/ part = "linux lookups" /\ R!Next /\ UNCHANGED <<part, linux, windows, connections>>
  \/ part = "windows connections" /\ E!Next /\ UNCHANGED <<part, linux, windows, lookups>>
Spec == Init /\ [][Next]_<<part, linux, windows, lookups, connections>> /\ L!Fairness

\* LinuxSensorBroker: an observer returns its endpoint's events, once, in order.
StreamIsTheEndpoints == L!StreamIsTheEndpoints
\* LinuxSensorBroker: a frame that was not delivered is counted, or went down
\* with its connection.
LossIsBounded == L!LossIsBounded
\* LinuxSensorBroker: a slow endpoint holds back no other.
SlowBlocksNoOther == L!SlowBlocksNoOther
\* WindowsSensorBroker: a client is given the events of its own process tree.
OwnEventsOnly == W!OwnEventsOnly
\* WindowsSensorBroker: ownership is never guessed.
UnknownNeverGuessed == W!UnknownNeverGuessed
\* ResolverProbe: an observation has its own lookup's name and, if exact, every
\* address; a lookup without one shows in the drop counter.
ObservationIsTrue == R!ObservationIsTrue
\* EtwLifecycle: a close has the owner and the tuple of its open, or health shows why not.
CloseIsTrue == E!CloseIsTrue

----
MCMappings ==
  {<<[slot |-> "a", netns |-> 1, cgroup |-> 11], [slot |-> "b", netns |-> 2, cgroup |-> 12]>>,
   <<[slot |-> "b", netns |-> 2, cgroup |-> 12]>>,
   <<[slot |-> "a", netns |-> 1, cgroup |-> 11], [slot |-> "b", netns |-> 1, cgroup |-> 12]>>}
OfA ==
  Event("lifecycle", "connect", 0,
        [agentPid |-> 5, agentTgid |-> 5, kernelPid |-> 6, netns |-> 1, local |-> 7, localPort |-> 8], "short")
OfB == Event("lifecycle", "close", 0, [netns |-> 2, cookie |-> 9, remotePort |-> 8], "long")
ProcessOfB == Event("process", "exit", 0, [pid |-> 5, tgid |-> 5, parentPid |-> 4, cgroup |-> 12], "empty")
MCHosts == {<<>>, <<OfA, OfA, OfB>>, <<ProcessOfB, OfA, OfB>>, <<ProcessOfB, OfB, ProcessOfB>>}
MCRoots == [a |-> 1, b |-> 2]

MCCalls == {[named |-> TRUE, long |-> FALSE], [named |-> TRUE, long |-> TRUE], [named |-> FALSE, long |-> FALSE]}
MCChains == {<<"ok", "ok">>, <<"ok", "ok", "ok">>, <<"addr", "ok">>, <<"ok", "node">>}

\* A host whose pid and kernel id are given out again and whose session loses
\* records; and one that has a connection more than the sensor remembers.
MCEtwHosts ==
  {[processes |-> 2, opened |-> 2, connids |-> {1}, lost |-> 2, lag |-> 2, opaque |-> {2}, keyed |-> k, queued |-> 1]
     : k \in BOOLEAN}
   \cup {[processes |-> 1, opened |-> 4, connids |-> {1, 2, 3}, lost |-> 0, lag |-> 1, opaque |-> {}, keyed |-> TRUE,
           queued |-> 8]}
====
