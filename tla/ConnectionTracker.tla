-------------------------- MODULE ConnectionTracker --------------------------
(***************************************************************************)
(* ConnectionTracker (src/core/connection_tracker.cpp): lifecycle events   *)
(* and socket snapshots are brought together into one history record per   *)
(* connection.  The operators take and return the tracker's state, a       *)
(* record with                                                             *)
(*   conns    connections_: identity -> tracked connection                 *)
(*   index    correlation_by_identity_: identity -> key; correlation_index_*)
(*            is its inverse                                               *)
(*   rows     the table connections: what it says of each record           *)
(* Times, samples and addresses are abstracted to the socket they are      *)
(* about.                                                                  *)
(***************************************************************************)
EXTENDS Integers, Sequences, FiniteSets, Functions

CONSTANTS
  Sockets,
  Accepted,     \* the sockets that were accepted rather than connected
  TupleOf,      \* addresses and ports of a socket, <<local, remote>>
  ProcessOf,    \* owner of a socket, with its start time
  Attributed    \* the sockets whose owner the agent can see in an event

NoSocket == "no socket"
reconciliation_miss_limit == 3

ASSUME SocketsAssumption ==
  /\ IsFiniteSet(Sockets) /\ NoSocket \notin Sockets
  /\ Accepted \subseteq Sockets /\ Attributed \subseteq Sockets
  /\ \A s \in Sockets : TupleOf[s] = <<TupleOf[s][1], TupleOf[s][2]>>

Origins == {"LIFECYCLE", "LIFECYCLE_PLUS_SNAPSHOT", "PREEXISTING", "AFTER_LOSS"}
Ended == {"CLOSED", "DISAPPEARED", "ABSENT_AFTER_LOSS", "PREEXISTING_DISAPPEARED"}
RowStates == {"ACTIVE", "PREEXISTING", "RECONCILED_AFTER_LOSS", "OBSERVATION_ENDED"} \cup Ended

EmptyTracker == [conns |-> <<>>, index |-> <<>>, rows |-> <<>>]

Reverse(tuple) == <<tuple[2], tuple[1]>>
snapshot_owned(entry) == entry.origin \in {"PREEXISTING", "AFTER_LOSS"}

-----------------------------------------------------------------------------
(* Identities and correlation *)

\* identity_for an event: the cookie, which Linux gives for a connect and a close, or
\* the fallback, which has the event's time in it, or the platform's own.
EventIdentity(platform, event) ==
  CASE platform = "windows" -> <<"p", event.socket>>
    [] platform = "linux" /\ event.type = "ACCEPT" -> <<"f", event.socket>>
    [] OTHER -> <<"c", event.socket>>
HasCookie(platform, event) == platform = "linux" /\ event.type # "ACCEPT"

\* identity_for a socket: the cookie, or the tuple (there are no inodes on Windows).
SocketIdentity(platform, s) == IF platform = "windows" THEN <<"i", TupleOf[s]>> ELSE <<"c", s>>

\* Mutant of KeyOf: the local end alone.
KeyOfLocalEnd(platform, tuple, s, resolved) ==
  IF platform = "windows" /\ resolved THEN <<tuple[1], ProcessOf[s]>> ELSE <<tuple[1]>>

\* correlation_key: on Windows the process is part of it, when it could be resolved.
KeyOf(platform, tuple, s, resolved) ==
  IF platform = "windows" /\ resolved THEN <<tuple, ProcessOf[s]>> ELSE <<tuple>>

\* unique_active_correlation_match, as the set of the match.
UniqueMatch(T, key) ==
  LET candidates == {i \in DOMAIN T.index : T.index[i] = key /\ i \in DOMAIN T.conns}
  IN  {i \in candidates : candidates = {i}}

\* rekey_identity
Rekey(T, old, new) ==
  LET move(f) == [i \in (DOMAIN f \ {old}) \cup {new} |-> IF i = new THEN f[old] ELSE f[i]]
  IN  [T EXCEPT !.conns = move(@),
                !.index = IF old \in DOMAIN @ THEN move(@) ELSE @]

\* promote_socket_cookie_identity: update_socket_cookie sets a cookie only where
\* there is none, and only then the entry moves.
Promotable(T, i) == T.rows[T.conns[i].id].cookie = NoSocket
SetCookie(T, id, s) == [T EXCEPT !.rows[id].cookie = s]
PromoteCookie(T, i, new, s) == Rekey(SetCookie(T, T.conns[i].id, s), i, new)

\* touch_connection
Touch(T, id, state) == [T EXCEPT !.rows[id].state = state]

\* Mutant of Forget: the index keeps the entry.
ForgetButIndex(T, i) == [T EXCEPT !.conns = Restrict(@, DOMAIN @ \ {i})]

\* connections_.erase and remove_correlation_identity
Forget(T, i) ==
  [T EXCEPT !.conns = Restrict(@, DOMAIN @ \ {i}), !.index = Restrict(@, DOMAIN @ \ {i})]

\* begin_connection, connections_.emplace and index_correlation
Begin(T, identity, key, entry, row) ==
  LET id == Len(T.rows) + 1
      add(f, v) == [i \in DOMAIN f \cup {identity} |-> IF i \in DOMAIN f THEN f[i] ELSE v]
  IN  [T EXCEPT !.rows = Append(@, row),
                !.conns = add(@, [entry EXCEPT !.id = id]),
                !.index = add(@, key)]

Entry(origin, sampled) ==
  [id |-> 0, origin |-> origin, sampled |-> sampled, present |-> sampled, misses |-> 0]

\* A row of the table connections for the socket s, with what other tables and the
\* completion callback (told: the TLS evidence of each call; repeated: the same twice)
\* add to it.
Row(s, cookie, direction, state) ==
  [socket |-> s, cookie |-> cookie, direction |-> direction, state |-> state,
   about |-> {s}, tls |-> {}, route |-> "none", told |-> {}, repeated |-> FALSE]

\* ConnectionAdmission; id 0 for std::nullopt.
Nothing(T) == [T |-> T, id |-> 0, new |-> FALSE, closed |-> FALSE, promoted |-> FALSE]
Admission(T, id) == [Nothing(T) EXCEPT !.id = id]

-----------------------------------------------------------------------------
(* observe_lifecycle *)

\* Mutant of EventMatch: an event that opens a connection is matched by identity only.
EventMatchCloseOnly(platform, T, event) ==
  LET identity == EventIdentity(platform, event)
      s == event.socket
      forward == UniqueMatch(T, KeyOf(platform, TupleOf[s], s, s \in Attributed))
  IN  IF identity \in DOMAIN T.conns THEN {identity}
      ELSE IF event.type = "CLOSE" THEN forward ELSE {}

\* The tracked connection an event is about, as a set: its identity, or the only
\* connection with its tuple, if the event is a close or that one was found by a
\* snapshot, or for a close the only one with the reversed tuple.
EventMatch(platform, T, event) ==
  LET identity == EventIdentity(platform, event)
      s == event.socket
      forward == UniqueMatch(T, KeyOf(platform, TupleOf[s], s, s \in Attributed))
      backward == UniqueMatch(T, KeyOf(platform, Reverse(TupleOf[s]), s, s \in Attributed))
      correlated == {i \in forward : event.type = "CLOSE" \/ snapshot_owned(T.conns[i])}
  IN  IF identity \in DOMAIN T.conns THEN {identity}
      ELSE IF correlated # {} \/ event.type # "CLOSE" THEN correlated ELSE backward

\* The connection i takes the event's identity, if it may: the tracker, and the
\* identity the connection then has.
WithEventIdentity(platform, T, i, event) ==
  LET identity == EventIdentity(platform, event)
  IN  IF i = identity THEN <<T, i>>
      ELSE IF ~HasCookie(platform, event) THEN <<Rekey(T, i, identity), identity>>
      ELSE IF Promotable(T, i) THEN <<PromoteCookie(T, i, identity, event.socket), identity>>
      ELSE <<T, i>>

\* The row id has evidence about s.
Attach(T, id, s) == [T EXCEPT !.rows[id].about = @ \cup {s}]

CloseConnection(T, i, event) ==
  LET id == T.conns[i].id
  IN  [Admission(Forget(Touch(Attach(T, id, event.socket), id, "CLOSED"), i), id)
         EXCEPT !.closed = TRUE]

\* promote_connection_direction and the entry's new origin.
EnrichConnection(T, i, event, direction) ==
  LET id == T.conns[i].id
      unknown == T.rows[id].direction = "UNKNOWN"
      origin == IF T.conns[i].sampled THEN "LIFECYCLE_PLUS_SNAPSHOT" ELSE "LIFECYCLE"
      attached == [Attach(T, id, event.socket) EXCEPT !.conns[i].origin = origin]
  IN  [Admission([attached EXCEPT !.rows[id].direction = IF unknown THEN direction ELSE @], id)
         EXCEPT !.promoted = unknown]

\* The events are of TCP connections and have both endpoints.
observe_lifecycle(platform, T, event, direction) ==
  LET s == event.socket
      identity == EventIdentity(platform, event)
      match == EventMatch(platform, T, event)
      cookie == IF HasCookie(platform, event) THEN s ELSE NoSocket
      key == KeyOf(platform, TupleOf[s], s, TRUE)
      found == WithEventIdentity(platform, T, CHOOSE i \in match : TRUE, event)
  IN  IF event.type = "CLOSE" THEN
        IF match = {} THEN Nothing(T) ELSE CloseConnection(found[1], found[2], event)
      ELSE IF s \notin Attributed THEN Nothing(T)
      ELSE IF match # {} THEN EnrichConnection(found[1], found[2], event, direction)
      ELSE [Admission(Begin(T, identity, key, Entry("LIFECYCLE", FALSE),
                            Row(s, cookie, direction, "ACTIVE")),
                      Len(T.rows) + 1) EXCEPT !.new = TRUE]

-----------------------------------------------------------------------------
(* observe_socket and the bracket of a snapshot *)

\* persist_sample
PersistSample(T, i, s) ==
  LET sampled == [T.conns[i] EXCEPT !.sampled = TRUE, !.present = TRUE,
                    !.origin = IF @ = "LIFECYCLE" THEN "LIFECYCLE_PLUS_SNAPSHOT" ELSE @]
      id == T.conns[i].id
  IN  Admission(Touch([Attach(T, id, s) EXCEPT !.conns[i] = sampled], id, "ACTIVE"), id)

\* A connection seen for the first time by a snapshot.
BeginFromSnapshot(platform, T, s, direction, origin, resolved) ==
  LET cookie == IF platform = "linux" THEN s ELSE NoSocket
      state == IF origin = "PREEXISTING" THEN "PREEXISTING" ELSE "RECONCILED_AFTER_LOSS"
  IN  [Admission(Begin(T, SocketIdentity(platform, s),
                       KeyOf(platform, TupleOf[s], s, resolved), Entry(origin, TRUE),
                       Row(s, cookie, direction, state)),
                 Len(T.rows) + 1) EXCEPT !.new = TRUE]

\* resolved: resolver_.resolve finds the process.  eligible: eligible_connection_seed.
observe_socket(platform, T, s, direction, allow_new, origin, resolved, eligible) ==
  LET identity == SocketIdentity(platform, s)
      match == UniqueMatch(T, KeyOf(platform, TupleOf[s], s, resolved))
      i == CHOOSE x \in match : TRUE
      promote == platform = "linux" /\ i # identity
  IN  IF identity \in DOMAIN T.conns THEN
        IF match \subseteq {identity} THEN PersistSample(T, identity, s) ELSE Nothing(T)
      ELSE IF match # {} THEN
        IF ~promote THEN PersistSample(T, i, s)
        ELSE IF Promotable(T, i)
             THEN PersistSample(PromoteCookie(T, i, identity, s), identity, s)
        ELSE Nothing(T)
      ELSE IF allow_new /\ eligible /\ resolved
           THEN BeginFromSnapshot(platform, T, s, direction, origin, resolved)
      ELSE Nothing(T)

begin_snapshot(T) ==
  [T EXCEPT !.conns = [i \in DOMAIN @ |-> [@[i] EXCEPT !.present = FALSE]]]

\* Mutant of Absent: lost events make no difference.
AbsentIfOwned(T, polling, degraded) ==
  {i \in DOMAIN T.conns :
     /\ ~T.conns[i].present
     /\ polling \/ (snapshot_owned(T.conns[i]) /\ T.conns[i].misses + 1 >= reconciliation_miss_limit)}

\* The connections that end_snapshot gives up.
Absent(T, polling, degraded) ==
  {i \in DOMAIN T.conns :
     /\ ~T.conns[i].present
     /\ \/ polling
        \/ /\ snapshot_owned(T.conns[i]) \/ degraded
           /\ T.conns[i].misses + 1 >= reconciliation_miss_limit}

\* end_snapshot; the ids it returns are those of Absent.  Misses are counted up to
\* the limit, beyond which the code tells no two numbers apart.
end_snapshot(T, polling, degraded) ==
  LET gone == Absent(T, polling, degraded)
      ids == {T.conns[i].id : i \in gone}
      state == IF polling THEN "DISAPPEARED"
               ELSE IF degraded THEN "ABSENT_AFTER_LOSS" ELSE "PREEXISTING_DISAPPEARED"
      kept == DOMAIN T.conns \ gone
  IN  [rows |-> [n \in DOMAIN T.rows |->
                   IF n \in ids THEN [T.rows[n] EXCEPT !.state = state] ELSE T.rows[n]],
       index |-> Restrict(T.index, DOMAIN T.index \ gone),
       conns |-> [i \in kept |->
                    [T.conns[i] EXCEPT !.misses = IF T.conns[i].present THEN 0
                                                ELSE IF @ < reconciliation_miss_limit THEN @ + 1
                                                ELSE @]]]

\* Mutant of finish_observation: every row of the run is touched.
FinishEveryRow(T, polling) ==
  [T EXCEPT !.rows = [n \in DOMAIN @ |-> [@[n] EXCEPT !.state = "OBSERVATION_ENDED"]]]

finish_observation(T, polling) ==
  LET left == {T.conns[i].id : i \in DOMAIN T.conns}
      missing == {T.conns[i].id : i \in {x \in DOMAIN T.conns : ~T.conns[x].present}}
      state(n) == IF polling /\ n \in missing THEN "DISAPPEARED" ELSE "OBSERVATION_ENDED"
  IN  [T EXCEPT !.rows = [n \in DOMAIN @ |-> IF n \in left THEN [@[n] EXCEPT !.state = state(n)]
                                             ELSE @[n]]]
===============================================================================
