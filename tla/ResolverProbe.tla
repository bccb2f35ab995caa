---- MODULE ResolverProbe ----
(***************************************************************************)
(* The Linux name-resolution sensor: a probe on the entry and one on the    *)
(* return of glibc's getaddrinfo, a map that carries a call from the one to *)
(* the other under its thread's id, a ring buffer, and the observer that    *)
(* drains and decodes it.  What a thread calls, and when it nests, returns  *)
(* or dies inside a call, is the host's; a thread id is given out again.    *)
(***************************************************************************)
EXTENDS Naturals, Sequences, FiniteSets

CONSTANTS Threads,          \* thread ids of the host
          Calls,            \* what may be called: [named, long] records
          Chains,           \* what a result pointer may lead to: sequences of "ok", "node", "addr"
          MaxAddresses,     \* NETA_NAME_RESOLUTION_MAX_ADDRESSES
          PendingCapacity,  \* entries of the LRU map of calls in flight
          RingCapacity,     \* events the ring buffer holds
          MaxCalls          \* bound: calls of a behaviour

VARIABLES
  stack,     \* thread -> its calls in flight, innermost last (the host's own truth)
  inflight,  \* name_resolution_pending: thread -> no entry, or the one entry
  samples,   \* name_resolution_events
  drops,     \* name_resolution_drops
  observed,  \* what poll has returned
  made,      \* calls made so far; a call's id is its number
  finished,  \* returned calls: [id, named, since, until], the drop counter at entry and return
  unseen     \* ids of calls whose entry was evicted, or was taken by a nested nameless call

vars == <<stack, inflight, samples, drops, observed, made, finished, unseen>>

Init ==
  /\ stack = [t \in Threads |-> <<>>]
  /\ inflight = [t \in Threads |-> <<>>]
  /\ samples = <<>> /\ observed = <<>>
  /\ drops = 0 /\ made = 0
  /\ finished = {} /\ unseen = {}

Holding == {t \in Threads : inflight[t] # <<>>}

\* The entry a first call makes; a name that fills its buffer is cut.
Entry(id, call) == [id |-> id, depth |-> 1, suppressed |-> FALSE, partial |-> call.long]

\* An LRU map at capacity gives up another thread's entry for the new one.
Store(t, entry) ==
  \E victims \in SUBSET (Holding \ {t}) :
    /\ Cardinality(victims) = (IF Cardinality(Holding) < PendingCapacity THEN 0 ELSE 1)
    /\ inflight' = [u \in Threads |-> IF u = t THEN <<entry>> ELSE IF u \in victims THEN <<>> ELSE inflight[u]]
    /\ unseen' = unseen \cup {inflight[u][1].id : u \in victims}

\* As Nested below, but the call inside is only counted.
NestedShares(t) == drops' = drops + 1 /\ UNCHANGED inflight

\* A call inside a recorded call gives both up: the entry is marked, and the
\* drop counted once.
Nested(t) ==
  /\ inflight' = [inflight EXCEPT ![t] = <<[@[1] EXCEPT !.depth = @ + 1, !.suppressed = TRUE]>>]
  /\ drops' = drops + 1

\* neta_getaddrinfo_enter.  A call with no name to resolve, or nowhere to put
\* the result, is not recorded.  The map may refuse an entry.
Enter(t, call) ==
  /\ made < MaxCalls
  /\ made' = made + 1
  /\ stack' = [stack EXCEPT ![t] = Append(@, [id |-> made + 1, named |-> call.named, since |-> drops])]
  /\ \/ ~call.named /\ UNCHANGED <<inflight, drops, unseen>>
     \/ call.named /\ inflight[t] # <<>> /\ Nested(t) /\ UNCHANGED unseen
     \/ call.named /\ inflight[t] = <<>> /\ Store(t, Entry(made + 1, call)) /\ UNCHANGED drops
     \/ call.named /\ inflight[t] = <<>> /\ drops' = drops + 1 /\ UNCHANGED <<inflight, unseen>>
  /\ UNCHANGED <<samples, observed, finished>>

\* read_results: at most MaxAddresses nodes of the chain are visited; a node
\* that cannot be read ends the walk.
Visited(chain) ==
  LET bad == {i \in DOMAIN chain : chain[i] = "node"}
      end == IF bad = {} THEN Len(chain) ELSE (CHOOSE i \in bad : \A j \in bad : i <= j) - 1
  IN SubSeq(chain, 1, IF end < MaxAddresses THEN end ELSE MaxAddresses)

\* add_ipv4_address, add_ipv6_address: an address that cannot be read is left
\* out.  The event is marked when anything was, or the chain goes on.
Walk(chain) ==
  [addresses |-> Len(SelectSeq(Visited(chain), LAMBDA n : n = "ok")),
   partial |-> Len(chain) > MaxAddresses \/ \E i \in DOMAIN chain : chain[i] # "ok"]

\* decode_name_resolution_event: partial evidence supports, whole evidence is exact.
Decode(sample) ==
  [id |-> sample.id, by |-> sample.by, named |-> sample.named, held |-> sample.held, addresses |-> sample.addresses,
   fidelity |-> IF sample.partial THEN "supporting" ELSE "exact"]

\* The event the return probe submits: the name is the entry's, the result code
\* is the returning call's, and the addresses are read where the entry's call
\* asked for them.
Sample(entry, call, code, chain) ==
  LET walk == IF code = 0 THEN Walk(chain) ELSE [addresses |-> 0, partial |-> FALSE]
  IN [id |-> entry.id, by |-> call.id, named |-> call.named, held |-> IF code = 0 THEN Len(chain) ELSE 0,
      addresses |-> walk.addresses, partial |-> entry.partial \/ walk.partial]

\* neta_getaddrinfo_exit: of the innermost call of thread t, whatever call the
\* thread's entry was made for.
Exit(t, code, chain) ==
  /\ stack[t] # <<>>
  /\ LET call == stack[t][Len(stack[t])]
         over(n) == finished \cup {[id |-> call.id, named |-> call.named, since |-> call.since, until |-> n]}
     IN /\ stack' = [stack EXCEPT ![t] = SubSeq(@, 1, Len(@) - 1)]
        /\ \/ /\ inflight[t] = <<>>
              /\ finished' = over(drops)
              /\ UNCHANGED <<inflight, samples, drops, unseen>>
           \/ /\ inflight[t] # <<>> /\ inflight[t][1].depth > 1
              /\ inflight' = [inflight EXCEPT ![t][1].depth = @ - 1]
              /\ finished' = over(drops)
              /\ UNCHANGED <<samples, drops, unseen>>
           \/ /\ inflight[t] # <<>> /\ inflight[t][1].depth = 1
              /\ inflight' = [inflight EXCEPT ![t] = <<>>]
              /\ LET entry == inflight[t][1]
                     full == Len(samples) >= RingCapacity
                     counted == IF ~entry.suppressed /\ full THEN drops + 1 ELSE drops
                 IN /\ drops' = counted
                    /\ finished' = over(counted)
                    /\ samples' = IF entry.suppressed \/ full THEN samples
                                  ELSE Append(samples, Sample(entry, call, code, chain))
                    /\ unseen' = IF call.named THEN unseen ELSE unseen \cup {entry.id}
  /\ UNCHANGED <<observed, made>>

\* A thread ends inside its calls.  No return probe runs, the entry stays, and
\* the next thread may be given the same id.
Dies(t) ==
  /\ stack[t] # <<>>
  /\ stack' = [stack EXCEPT ![t] = <<>>]
  /\ UNCHANGED <<inflight, samples, drops, observed, made, finished, unseen>>

\* poll and on_sample: the ring is drained and every sample decoded.
Poll ==
  /\ samples # <<>>
  /\ samples' = <<>>
  /\ observed' = observed \o [i \in DOMAIN samples |-> Decode(samples[i])]
  /\ UNCHANGED <<stack, inflight, drops, made, finished, unseen>>

Next ==
  \/ \E t \in Threads : \E call \in Calls : Enter(t, call)
  \/ \E t \in Threads : \E code \in {0, 1} : \E chain \in Chains : Exit(t, code, chain)
  \/ \E t \in Threads : Dies(t)
  \/ Poll

Spec == Init /\ [][Next]_vars

-----------------------------------------------------------------------------
Emitted == {samples[i].id : i \in DOMAIN samples} \cup {observed[i].id : i \in DOMAIN observed}

\* The probes pair a name with a result through an entry keyed by thread, across
\* nesting, thread death, id reuse and eviction.  When the return of a call that
\* had a name yields an observation, it is that call's own: its name with its
\* result.  (The return of a nameless call inside a named one is not so paired.)
NameMeetsItsResult ==
  \A i \in DOMAIN observed : observed[i].named => observed[i].id = observed[i].by

\* An observation the decoder calls exact lists every address the call returned,
\* up to and at the limit of addresses an event carries.
ExactIsWhole ==
  \A i \in DOMAIN observed :
    observed[i].fidelity = "exact" => observed[i].addresses = observed[i].held

\* A named call that returned and of which nothing was ever emitted shows in the
\* sensor's health: the drop counter moved during the call.  The two exceptions
\* are the losses the probes cannot see: an evicted entry, and an entry taken by
\* the return of a nested nameless call.
LostLookupsShow ==
  \A f \in finished :
    (f.named /\ f.id \notin Emitted) => f.until > f.since \/ f.id \in unseen

\* What an observation says of a lookup is true, on whatever path of enter,
\* walk_results and exit it came, and a lookup without one shows in the drop
\* counter: NameMeetsItsResult, ExactIsWhole and LostLookupsShow.
ObservationIsTrue == NameMeetsItsResult /\ ExactIsWhole /\ LostLookupsShow
====
