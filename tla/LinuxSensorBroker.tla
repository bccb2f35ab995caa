---- MODULE LinuxSensorBroker ----
(***************************************************************************)
(* The Linux sensor broker (include/neta/sensor_broker.hpp): one process    *)
(* polls the host's lifecycle and process-exec sensors and routes every     *)
(* event to the endpoint whose network namespace or cgroup it carries.  An   *)
(* observer of an endpoint's agent is a connection for one of the streams:  *)
(* the service opens one of each, `process watch` another, and              *)
(* `capabilities` one that it closes again at once.  A detached thread per  *)
(* connection takes frames from the endpoint's bounded queue and sends them.*)
(*                                                                          *)
(* The kernel stamps events with their number (timestamp_ns).  A socket     *)
(* holds SocketBuffer packets; a send to a full one blocks.                 *)
(***************************************************************************)
EXTENDS SensorFrames, Sequences, SequencesExt, FiniteSetsExt, Functions

CONSTANTS
  Slots,          \* endpoints, named by the slot their agents are configured with
  Mappings,       \* the --map lists a broker can be started with
  Hosts,          \* the sequences of events a host can produce
  QueueCapacity, SocketBuffer,
  Prompt,         \* endpoints whose agents keep polling
  MaxConns

Streams == {"lifecycle", "process"}
Ids == 1 .. MaxConns

VARIABLES
  up,         \* the broker: "starting", "running", "stopped"
  netns, cgroup, \* netns_to_slot_, cgroup_to_slot_
  emitted,    \* the events of the host, in order
  ring,       \* stream -> numbers of those the poll thread has yet to come to
  queue,      \* slot -> stream -> frames waiting
  dropped,    \* slot -> stream -> frames the bounded queue discarded
  unroutable,
  sequence,
  conn        \* connection -> its record

vars == <<up, netns, cgroup, emitted, ring, queue, dropped, unroutable, sequence, conn>>
broker == <<up, netns, cgroup>>

\* handler: "none", "reading" the registration, "serving", "holding" a frame, "gone"
Unused == [slot |-> None, stream |-> None, handler |-> "none", client |-> "none",
           hand |-> None, buffer |-> <<>>, received |-> <<>>]

Init ==
  /\ up = "starting" /\ netns = <<>> /\ cgroup = <<>>
  /\ \E events \in Hosts :
       /\ emitted = [n \in DOMAIN events |-> [events[n] EXCEPT !.ts = n]]
       /\ ring = [k \in Streams |-> SelectSeq([n \in DOMAIN events |-> n],
                                              LAMBDA n : events[n].kind = k)]
  /\ queue = [s \in Slots |-> [k \in Streams |-> <<>>]]
  /\ dropped = [s \in Slots |-> [k \in Streams |-> 0]]
  /\ unroutable = 0 /\ sequence = 1
  /\ conn = [c \in Ids |-> Unused]

----
\* register_endpoint for every --map in turn; a slot, namespace or cgroup
\* given twice is an exception, and the broker does not come up.
Distinct(maps) ==
  \A i, j \in DOMAIN maps : i # j =>
    maps[i].slot # maps[j].slot /\ maps[i].netns # maps[j].netns /\ maps[i].cgroup # maps[j].cgroup
RegisterEndpoints ==
  /\ up = "starting"
  /\ \E maps \in Mappings :
       IF Distinct(maps)
       THEN /\ up' = "running"
            /\ netns' = [n \in {maps[i].netns : i \in DOMAIN maps} |->
                           (CHOOSE m \in Range(maps) : m.netns = n).slot]
            /\ cgroup' = [g \in {maps[i].cgroup : i \in DOMAIN maps} |->
                            (CHOOSE m \in Range(maps) : m.cgroup = g).slot]
       ELSE up' = "stopped" /\ UNCHANGED <<netns, cgroup>>
  /\ UNCHANGED <<emitted, ring, queue, dropped, unroutable, sequence, conn>>
HasEndpoint(s) == s \in Range(netns)

SlotForNetns(e) == IF e.opt["netns"] \in DOMAIN netns THEN netns[e.opt["netns"]] ELSE None
SlotForCgroup(e) == IF e.opt["cgroup"] \in DOMAIN cgroup THEN cgroup[e.opt["cgroup"]] ELSE None
SlotOf(e) == IF e.kind = "lifecycle" THEN SlotForNetns(e) ELSE SlotForCgroup(e)

PushBlocking(s, k, frame) ==
  /\ Len(queue[s][k]) < QueueCapacity
  /\ queue' = [queue EXCEPT ![s][k] = Append(@, frame)]
  /\ UNCHANGED dropped
PushUncounted(s, k, frame) ==
  /\ queue' = [queue EXCEPT ![s][k] = Append(IF Len(@) >= QueueCapacity THEN Tail(@) ELSE @, frame)]
  /\ UNCHANGED dropped
\* BoundedQueue::push: a full queue loses its oldest frame, and counts it.
Push(s, k, frame) ==
  LET full == Len(queue[s][k]) >= QueueCapacity IN
  /\ queue' = [queue EXCEPT ![s][k] = Append(IF full THEN Tail(@) ELSE @, frame)]
  /\ dropped' = [dropped EXCEPT ![s][k] = @ + (IF full THEN 1 ELSE 0)]

\* EventRouter::route, for either kind of event.
Route(e) ==
  IF SlotOf(e) = None THEN unroutable' = unroutable + 1 /\ UNCHANGED <<queue, dropped>>
  ELSE /\ Push(SlotOf(e), e.kind, IF e.kind = "lifecycle" THEN LinuxEncodeLifecycle(sequence, e)
                                                          ELSE LinuxEncodeProcessExec(sequence, e))
       /\ UNCHANGED unroutable

\* The poll thread of a stream hands the next event to the router.
PollThread(k) ==
  /\ up = "running" /\ ring[k] # <<>>
  /\ Route(emitted[Head(ring[k])])
  /\ ring' = [ring EXCEPT ![k] = Tail(@)]
  /\ sequence' = sequence + 1
  /\ UNCHANGED <<broker, emitted, conn>>

----
(***************************************************************************)
(* Connections.                                                             *)
(***************************************************************************)
\* BrokerClient: connect and send the registration.
Connect(s, k) ==
  /\ up = "running"
  /\ \E c \in Ids :
       /\ conn[c] = Unused /\ \A d \in Ids : d < c => conn[d] # Unused
       /\ conn' = [conn EXCEPT ![c] = [Unused EXCEPT !.slot = s, !.stream = k,
                                                     !.handler = "reading", !.client = "open"]]
  /\ UNCHANGED <<broker, emitted, ring, queue, dropped, unroutable, sequence>>

\* handle_client reads the registration.  An unknown slot is turned away.
HandleRegistration(c) ==
  /\ up = "running" /\ conn[c].handler = "reading"
  /\ conn' = [conn EXCEPT ![c].handler = IF HasEndpoint(conn[c].slot) THEN "serving" ELSE "gone"]
  /\ UNCHANGED <<broker, emitted, ring, queue, dropped, unroutable, sequence>>

Take(c) ==
  LET s == conn[c].slot k == conn[c].stream IN
  /\ up = "running" /\ conn[c].handler = "serving" /\ queue[s][k] # <<>>
  /\ conn' = [conn EXCEPT ![c].handler = "holding", ![c].hand = Head(queue[s][k])]
  /\ queue' = [queue EXCEPT ![s][k] = Tail(@)]
  /\ UNCHANGED <<broker, emitted, ring, dropped, unroutable, sequence>>

\* send: it blocks while the socket is full, and fails once the client is gone;
\* the handler then ends, with the frame it had taken.  After a stop request
\* the handler ends too, but not before a blocked send.
Send(c) ==
  /\ conn[c].handler = "holding"
  /\ conn[c].client = "open" => Len(conn[c].buffer) < SocketBuffer
  /\ conn' = IF conn[c].client = "open"
             THEN [conn EXCEPT ![c].handler = "serving", ![c].hand = None,
                               ![c].buffer = Append(@, conn[c].hand)]
             ELSE [conn EXCEPT ![c].handler = "gone", ![c].hand = None]
  /\ UNCHANGED <<broker, emitted, ring, queue, dropped, unroutable, sequence>>

\* An observer's poll.  A closed connection is reported before anything that
\* still waits in the socket is read (POLLHUP is tested first); the exception
\* ends the observer.
Poll(c) ==
  LET frame == Head(conn[c].buffer)
      event == IF conn[c].stream = "lifecycle" THEN LinuxDecodeLifecycle(frame)
               ELSE LinuxDecodeProcessExec(frame)
  IN
  /\ conn[c].client = "open"
  /\ conn[c].handler # "gone" => conn[c].buffer # <<>>
  /\ conn' = IF conn[c].handler = "gone"
             THEN [conn EXCEPT ![c].client = "closed", ![c].buffer = <<>>]
             ELSE [conn EXCEPT ![c].buffer = Tail(@),
                               ![c].received = IF event = None THEN @ ELSE Append(@, event)]
  /\ UNCHANGED <<broker, emitted, ring, queue, dropped, unroutable, sequence>>

\* The observer is destroyed, or its process ends: what the socket held is gone.
CloseClient(c) ==
  /\ up = "running" /\ conn[c].client = "open"
  /\ conn' = [conn EXCEPT ![c].client = "closed", ![c].buffer = <<>>]
  /\ UNCHANGED <<broker, emitted, ring, queue, dropped, unroutable, sequence>>

\* SIGINT or SIGTERM: every loop ends at its next test of the flag, and the
\* process exits with its queues and its detached handlers.
Stop ==
  /\ up = "running"
  /\ up' = "stopped"
  /\ ring' = [k \in Streams |-> <<>>]
  /\ queue' = [s \in Slots |-> [k \in Streams |-> <<>>]]
  /\ conn' = [c \in Ids |-> IF conn[c] = Unused THEN Unused
                            ELSE [conn[c] EXCEPT !.handler = "gone", !.hand = None]]
  /\ UNCHANGED <<netns, cgroup, emitted, dropped, unroutable, sequence>>

Next ==
  \/ RegisterEndpoints \/ Stop
  \/ \E k \in Streams : PollThread(k)
  \/ \E s \in Slots, k \in Streams : Connect(s, k)
  \/ \E c \in Ids : HandleRegistration(c) \/ Take(c) \/ Send(c) \/ Poll(c) \/ CloseClient(c)

\* The threads of the broker run, and the agents of Prompt keep polling; the
\* others may be as slow as they like.
Fairness ==
  /\ \A k \in Streams : WF_vars(PollThread(k))
  /\ \A c \in Ids : WF_vars(HandleRegistration(c) \/ Take(c) \/ Send(c))
  /\ \A c \in Ids : WF_vars(conn[c].slot \in Prompt /\ Poll(c))
Spec == Init /\ [][Next]_vars /\ Fairness

----
(***************************************************************************)
(* Properties.                                                              *)
(***************************************************************************)
\* What an observer returns is events of its endpoint's namespace or cgroup, in
\* the order the host produced them, each with what the format can carry of it
\* (route, the queues, the handlers, the codec); and no two observers of an
\* endpoint are given the same event.
StreamIsTheEndpoints ==
  \A c \in Ids : LET got == conn[c].received IN
    /\ \A i \in DOMAIN got :
         /\ SlotOf(emitted[got[i].ts]) = conn[c].slot
         /\ got[i] = CarriedByLinux(emitted[got[i].ts])
         /\ \A j \in 1 .. i - 1 : got[j].ts < got[i].ts
         /\ \A d \in Ids \ {c} : got[i] \notin Range(conn[d].received)

\* Events of the stream that the router has put into the endpoint's queue.
Routed(s, k) ==
  {n \in DOMAIN emitted : emitted[n].kind = k /\ SlotOf(emitted[n]) = s /\ n \notin Range(ring[k])}
ConnsOf(s, k) == {c \in Ids : conn[c].slot = s /\ conn[c].stream = k}
Received(s, k) == UNION {{e.ts : e \in Range(conn[c].received)} : c \in ConnsOf(s, k)}
InTransit(s, k) ==
  {f.payload.ts : f \in Range(queue[s][k])
                         \cup UNION {Range(conn[c].buffer) \cup ({conn[c].hand} \ {None}) : c \in ConnsOf(s, k)}}

\* A frame that is nowhere any more was discarded by its full queue, and
\* counted, or it went down with a connection: with the socket's contents, or
\* as the one frame the handler of a closed client took before its send
\* failed.  Every event that was not queued is counted as unroutable.
LossIsBounded == up = "running" =>
  /\ \A s \in Slots, k \in Streams :
       Cardinality(Routed(s, k) \ (InTransit(s, k) \cup Received(s, k)))
         <= dropped[s][k]
            + (SocketBuffer + 1) * Cardinality({c \in ConnsOf(s, k) : conn[c].client = "closed"})
  /\ unroutable = Cardinality({n \in DOMAIN emitted : SlotOf(emitted[n]) = None
                                                      /\ n \notin Range(ring[emitted[n].kind])})

Served(s, k) ==
  up = "running" /\ \E c \in ConnsOf(s, k) : conn[c].client = "open" /\ conn[c].handler # "gone"
Drained(s) ==
  \A k \in Streams : Served(s, k) =>
    InTransit(s, k) = {} /\ \A n \in Range(ring[k]) : SlotOf(emitted[n]) # s
\* An endpoint that is slow to read, or does not read at all, holds back no
\* other: every event of an endpoint whose agents poll leaves the broker, for
\* its observer or lost as above, however full another endpoint's queue is.
SlowBlocksNoOther == \A s \in Prompt : []<>Drained(s)
====
