---------------------------- MODULE SessionProofs ----------------------------
(***************************************************************************)
(* The inductive invariant of ObservationSession, a lemma for each action, *)
(* and HistoryAgrees, CompletionAccounted, RecordIsTheSockets and          *)
(* EndedForGood for any sockets, tuples, processes, configurations and     *)
(* bounds.                                                                 *)
(***************************************************************************)
EXTENDS TrackerProofs

-----------------------------------------------------------------------------
(* The inductive invariant *)

\* Where run() is, and what it is about to sample.  A snapshot is degraded only after
\* an event was lost; between snapshots that a batch of events asked for, what is left
\* of the batch is kept.
ControlInv ==
  /\ pc \in {"loop", "events", "sample", "snapshot", "stopped"}
  /\ DOMAIN scan = {"degraded", "todo", "seen", "inner"}
  /\ {scan.inner, scan.degraded} \subseteq BOOLEAN /\ scan.todo \subseteq Sockets
  /\ pc \in {"loop", "events"} => ~scan.inner
  /\ pc # "events" /\ ~scan.inner => batch = <<>>
  /\ pc = "snapshot" /\ scan.degraded => lost

\* The host, what is queued of it, and the candidates.  Nothing is queued while polling.
HostInv ==
  /\ config \in Configs /\ phase \in [Sockets -> {"none", "open", "tail", "gone"}]
  /\ handshakes \subseteq Sockets
  /\ batch \in Seq(EventSpace) /\ ring \in Seq(EventSpace) /\ QueueInv(Queue, phase)
  /\ ~config.exact => Queue = <<>> /\ pc # "events" /\ ~scan.inner
  /\ \A key \in DOMAIN candidates : candidates[key] \in Sockets

RunInv ==
  /\ SessionInv(config.platform, ses)
  /\ ~lost => Order(config, ses.T, Queue, phase, scan.todo, pc = "snapshot")

IInv ==
  /\ ControlInv /\ HostInv
  /\ IF pc = "stopped" THEN HistoryAgrees /\ CompletionAccounted /\ RecordIsTheSockets ELSE RunInv

\* What a step of run() leaves alone of the host, and what it does to the records.
Steps == IInv' /\ RowsGoOn(ses.T, ses'.T)

-----------------------------------------------------------------------------
(* The rows go on *)

\* What is settled in a row stays so over two steps.
LEMMA GoOnTwice ==
  ASSUME NEW T, NEW U, NEW V, RowsGoOn(T, U), RowsGoOn(U, V)
  PROVE  RowsGoOn(T, V)
  BY ZenonT(30) DEF RowsGoOn, RowGoesOn

\* And over notes.
LEMMA NotesGoOn ==
  ASSUME NEW T, NEW U, NotesOnly(T, U)
  PROVE  RowsGoOn(T, U)
  <1>1. ASSUME NEW n \in DOMAIN T.rows PROVE RowGoesOn(T.rows[n], U.rows[n])
    <2>1. Bones(U.rows[n]) = Bones(T.rows[n])
      BY Zenon DEF NotesOnly
    <2> QED BY <2>1, Zenon DEF Bones, RowGoesOn
  <1> QED BY <1>1, Zenon DEF RowsGoOn, NotesOnly

\* And over whatever the tracker answers.
LEMMA AnswerGoesOn ==
  ASSUME NEW p, NEW T, NEW A, NEW t, NEW d, Answer(p, T, A, t, d)
  PROVE  RowsGoOn(T, A.T) /\ A.new \in BOOLEAN
  <1>1. CASE A = Nothing(T)
    <2>1. A.T = T /\ A.new = FALSE
      BY <1>1, Zenon DEF Nothing
    <2> QED BY <2>1, Zenon DEF RowsGoOn, RowGoesOn
  <1>2. CASE Continues(p, T, A.T, A.id)
    <2>1. RowsGoOn(T, A.T)
      BY <1>2, Zenon DEF Continues
    <2>2. CASE AnswerNew(T, A, t, d)
      BY <2>1, <2>2, Zenon DEF AnswerNew
    <2>3. CASE AnswerClosed(T, A, t)
      BY <2>1, <2>3, Zenon DEF AnswerClosed
    <2>4. CASE AnswerKept(T, A, t, d)
      BY <2>1, <2>4, Zenon DEF AnswerKept
    <2>5. CASE A = Nothing(T)
      BY <1>1, <2>5, Zenon
    <2> QED BY <2>2, <2>3, <2>4, <2>5, Zenon DEF Answer
  <1> QED BY <1>1, <1>2, Zenon DEF Answer

\* Apply: the session after an answer.
Applied(S, A, U) ==
  /\ SessionInv(config.platform, U) /\ NotesOnly(A.T, U.T) /\ RowsGoOn(S.T, U.T)
  /\ TrackerInv(config.platform, A.T) /\ A.new \in BOOLEAN

\* Applying an answer of the tracker keeps the invariant of the session, and what is
\* settled in the rows.
LEMMA ApplyStep ==
  ASSUME NEW S, SessionInv(config.platform, S), NEW A, NEW t, NEW d,
         Answer(config.platform, S.T, A, t, d)
  PROVE  Applied(S, A, Apply(S, A, d))
  <1> DEFINE p == config.platform
             U == Apply(S, A, d)
  <1>1. Follows(p, A.T, U)
    BY ApplyKeeps, Zenon
  <1> HIDE DEF U
  <1>2. SessionInv(p, U) /\ NotesOnly(A.T, U.T)
    BY <1>1, Zenon DEF Follows
  <1>3. RowsGoOn(S.T, A.T) /\ A.new \in BOOLEAN
    BY AnswerGoesOn, Zenon
  <1>4. RowsGoOn(S.T, U.T)
    BY <1>2, <1>3, NotesGoOn, GoOnTwice, Zenon
  <1>5. TrackerInv(p, A.T)
    <2>1. CASE A = Nothing(S.T)
      <3>1. A.T = S.T
        BY <2>1, Zenon DEF Nothing
      <3> QED BY <3>1, Zenon DEF SessionInv
    <2>2. CASE Continues(p, S.T, A.T, A.id)
      BY <2>2, Zenon DEF Continues
    <2> QED BY <2>1, <2>2, Zenon DEF Answer
  <1> QED BY <1>2, <1>3, <1>4, <1>5, Zenon DEF Applied, U

-----------------------------------------------------------------------------
(* The events *)

\* The events left of a poll and those still in the ring, one after the other, are one
\* queue.
LEMMA QueueFacts ==
  ASSUME NEW b \in Seq(EventSpace), NEW r \in Seq(EventSpace)
  PROVE  /\ b \o r \in Seq(EventSpace)
         /\ <<>> \o r = r /\ r \o <<>> = r
         /\ b # <<>> => /\ b \o r # <<>> /\ Head(b \o r) = Head(b)
                        /\ Tail(b) \in Seq(EventSpace) /\ Tail(b \o r) = Tail(b) \o r
         /\ \A e \in EventSpace : /\ Append(r, e) \in Seq(EventSpace)
                                  /\ b \o Append(r, e) = Append(b \o r, e)
  OBVIOUS

\* Candidates that are left are candidates still.
LEMMA FewerCandidates ==
  ASSUME NEW keep, keep \subseteq DOMAIN candidates,
         \A key \in DOMAIN candidates : candidates[key] \in Sockets
  PROVE  \A key \in DOMAIN Restrict(candidates, keep) : Restrict(candidates, keep)[key] \in Sockets
  BY Zenon DEF Restrict

\* lifecycle_observer.poll moves events from the ring to the batch.
LEMMA PollStep ==
  ASSUME IInv, Poll
  PROVE  Steps
  <1>1. /\ pc = "loop" /\ batch' = ring /\ ring' = <<>> /\ pc' = "events" /\ ses' = ses
        /\ UNCHANGED <<config, phase, lost, handshakes, candidates, scan>> /\ config.exact
    BY Zenon DEF Poll
  <1>2. ControlInv /\ HostInv /\ RunInv
    BY <1>1, Zenon DEF IInv
  <1>3. batch = <<>> /\ batch \in Seq(EventSpace) /\ ring \in Seq(EventSpace) /\ ~scan.inner
    BY <1>1, <1>2, Zenon DEF ControlInv, HostInv
  <1>4. Queue' = Queue /\ ring' \in Seq(EventSpace)
    BY <1>1, <1>3, QueueFacts, Zenon DEF Queue
  <1>5. ControlInv'
    BY <1>1, <1>2, Zenon DEF ControlInv
  <1>6. HostInv'
    BY <1>1, <1>2, <1>3, <1>4, Zenon DEF HostInv
  <1>7. RunInv'
    <2>1. lost \/ Order(config, ses.T, Queue, phase, scan.todo, FALSE)
      BY <1>2, OrderIdle, Zenon DEF RunInv
    <2>2. (pc = "snapshot")' = FALSE
      BY <1>1, Zenon
    <2> QED BY <1>1, <1>2, <1>4, <2>1, <2>2, Zenon DEF RunInv
  <1>8. RowsGoOn(ses.T, ses'.T)
    BY <1>1, Zenon DEF RowsGoOn, RowGoesOn
  <1> QED BY <1>1, <1>5, <1>6, <1>7, <1>8, Zenon DEF IInv, Steps

\* What observe_lifecycle answers, or what it would if the policy did not refuse the event.
AnswersEvent(p, T, event, A) ==
  \/ A = Nothing(T)
  \/ A = observe_lifecycle(p, T, event, DirectionOf(event.socket))

\* The answer to an event, and the session and the records after it.
LEMMA EventApplied ==
  ASSUME SessionInv(config.platform, ses), NEW event \in EventSpace, NEW A,
         AnswersEvent(config.platform, ses.T, event, A)
  PROVE  Applied(ses, A, Apply(ses, A, DirectionOf(event.socket)))
  <1> DEFINE p == config.platform
             t == event.socket
             d == DirectionOf(t)
  <1>1. TrackerInv(p, ses.T)
    BY Zenon DEF SessionInv
  <1>2. Answer(p, ses.T, A, t, d)
    <2>1. CASE A = Nothing(ses.T)
      BY <2>1, Zenon DEF Answer
    <2>2. CASE A = observe_lifecycle(p, ses.T, event, d)
      BY <1>1, <2>2, LifecycleAnswers, Zenon
    <2> QED BY <2>1, <2>2, Zenon DEF AnswersEvent
  <1> QED BY <1>2, ApplyStep, Zenon

\* Reading the next event keeps the order of events, samples and records.
LEMMA OrderEvent ==
  ASSUME NEW c, NEW T, TrackerInv(c.platform, T), c.exact, NEW q, NEW ph, NEW event, NEW q1,
         Taken(q, ph, event, q1), NEW A, AnswersEvent(c.platform, T, event, A),
         TrackerInv(c.platform, A.T), NEW U, NotesOnly(A.T, U),
         NEW todo, NEW scanning, Order(c, T, q, ph, todo, scanning), NEW todo1
  PROVE  Order(c, U, q1, ph, todo1, FALSE)
  <1>1. ASSUME NEW s \in Alone
        PROVE  RecordsInv(A.T, q1, ph, s) /\ PollingInv(c, A.T, todo1, FALSE, ph, s)
    <2>1. RecordsInv(T, q, ph, s)
      BY Zenon DEF Order
    <2>2. RecordsInv(A.T, q1, ph, s)
      BY <2>1, EventRecords, Zenon DEF AnswersEvent
    <2> QED BY <2>2, Zenon DEF PollingInv
  <1>2. Order(c, A.T, q1, ph, todo1, FALSE)
    BY <1>1, Zenon DEF Order
  <1> QED BY <1>2, OrderNotes, Zenon

\* Handling one event of the batch.
LEMMA HandleStep ==
  ASSUME IInv, HandleEvent
  PROVE  Steps
  <1> DEFINE event == Head(batch)
             direction == DirectionOf(event.socket)
             A == IF evaluate(event) THEN observe_lifecycle(config.platform, ses.T, event, direction)
                  ELSE Nothing(ses.T)
  <1>1. /\ pc = "events" /\ batch # <<>> /\ batch' = Tail(batch)
        /\ ses' = Apply(ses, A, direction)
        /\ pc' = IF A.new THEN "sample" ELSE "events"
        /\ scan' = [NoScan EXCEPT !.inner = A.new]
        /\ UNCHANGED <<config, phase, ring, lost, handshakes>>
    BY Zenon DEF HandleEvent, world
  <1>2. \E keys : candidates' = Without(keys)
    BY Zenon DEF HandleEvent
  <1>3. AnswersEvent(config.platform, ses.T, event, A)
    BY Zenon DEF AnswersEvent
  <1> HIDE DEF A
  <1>4. ControlInv /\ HostInv /\ RunInv
    BY <1>1, Zenon DEF IInv
  <1>5. config.exact /\ batch \in Seq(EventSpace) /\ ring \in Seq(EventSpace)
    BY <1>1, <1>4, Zenon DEF HostInv
  <1>6. Queue # <<>> /\ Head(Queue) = event /\ Tail(Queue) = Queue' /\ batch' \in Seq(EventSpace)
    BY <1>1, <1>5, QueueFacts, Zenon DEF Queue
  <1>7. Taken(Queue, phase, event, Queue')
    <2>1. QueueInv(Queue, phase)
      BY <1>4, Zenon DEF HostInv
    <2>2. Taken(Queue, phase, Head(Queue), Tail(Queue))
      BY <1>6, <2>1, HeadTaken, Zenon
    <2> QED BY <1>6, <2>2, Zenon
  <1> HIDE DEF event
  <1>8. Applied(ses, A, ses')
    <2>1. SessionInv(config.platform, ses) /\ event \in EventSpace
      BY <1>4, <1>7, Zenon DEF RunInv, Taken
    <2>2. Applied(ses, A, Apply(ses, A, DirectionOf(event.socket)))
      BY <1>3, <2>1, EventApplied, Zenon
    <2> QED BY <1>1, <2>2, Zenon
  <1>9. A.new \in BOOLEAN /\ SessionInv(config.platform, ses') /\ RowsGoOn(ses.T, ses'.T)
    BY <1>8, Zenon DEF Applied
  <1>10. DOMAIN scan' = {"degraded", "todo", "seen", "inner"} /\ scan'.inner = A.new
         /\ scan'.todo = {} /\ scan'.degraded = FALSE
    BY <1>1, Zenon DEF NoScan
  <1>11. ControlInv'
    BY <1>1, <1>9, <1>10, Zenon DEF ControlInv
  <1>12. \A key \in DOMAIN candidates' : candidates'[key] \in Sockets
    <2>1. PICK keys : candidates' = Restrict(candidates, DOMAIN candidates \ keys)
      BY <1>2, Zenon DEF Without
    <2> QED BY <1>4, <2>1, FewerCandidates, Zenon DEF HostInv
  <1>13. HostInv'
    <2>1. QueueInv(Queue', phase)
      BY <1>7, Zenon DEF Taken
    <2> QED BY <1>1, <1>4, <1>5, <1>6, <1>12, <2>1, Zenon DEF HostInv
  <1>14. ASSUME ~lost PROVE Order(config, ses'.T, Queue', phase, scan'.todo, FALSE)
    <2>1. /\ Order(config, ses.T, Queue, phase, scan.todo, pc = "snapshot")
          /\ TrackerInv(config.platform, ses.T)
      BY <1>4, <1>14, Zenon DEF RunInv, SessionInv
    <2>2. NotesOnly(A.T, ses'.T) /\ TrackerInv(config.platform, A.T)
      BY <1>8, Zenon DEF Applied
    <2> QED BY <1>3, <1>5, <1>7, <2>1, <2>2, OrderEvent, Zenon
  <1>15. RunInv'
    <2>1. (pc = "snapshot")' = FALSE
      BY <1>1, Zenon
    <2> QED BY <1>1, <1>9, <1>14, <2>1, Zenon DEF RunInv
  <1>16. pc' # "stopped"
    BY <1>1, Zenon
  <1> QED BY <1>9, <1>11, <1>13, <1>15, <1>16, Zenon DEF IInv, Steps

\* Draining TLS sessions and reporting what is due keeps the invariant.
LEMMA SettleKeeps ==
  ASSUME NEW S, SessionInv(config.platform, S), handshakes \subseteq Sockets, NEW late, NEW drained,
         drained = drain_tls_sessions(S, late), NEW ids, ids \subseteq drained.pending
  PROVE  Follows(config.platform, S.T, dispatch_completed(drained, ids))
  <1> DEFINE p == config.platform
  <1>1. Follows(p, S.T, drained)
    BY DrainKeeps, Zenon
  <1>2. SessionInv(p, drained)
    BY <1>1, Zenon DEF Follows
  <1>3. Follows(p, drained.T, dispatch_completed(drained, ids))
    BY <1>2, DispatchKeeps, Zenon
  <1> QED BY <1>1, <1>3, FollowsTwice, Zenon

\* After the last event: TLS sessions, routes and reports, and back to the loop or on
\* to a sample.
LEMMA EndEventsStep ==
  ASSUME IInv, EndEvents
  PROVE  Steps
  <1>1. /\ pc = "events" /\ batch = <<>> /\ handshakes' = {} /\ pc' \in transport_due(ses')
        /\ UNCHANGED <<config, phase, ring, lost, batch, candidates, scan>>
    BY Zenon DEF EndEvents
  <1>2. ControlInv /\ HostInv /\ RunInv
    BY <1>1, Zenon DEF IInv
  <1>3. Follows(config.platform, ses.T, ses')
    <2>1. PICK late \in SUBSET (ses.sessions \cup handshakes) :
            \E ids \in SUBSET drain_tls_sessions(ses, late).pending :
              ses' = dispatch_completed(drain_tls_sessions(ses, late), ids)
      BY Zenon DEF EndEvents
    <2> DEFINE drained == drain_tls_sessions(ses, late)
    <2>2. PICK ids \in SUBSET drained.pending : ses' = dispatch_completed(drained, ids)
      BY <2>1, Zenon
    <2> HIDE DEF drained
    <2>3. SessionInv(config.platform, ses) /\ handshakes \subseteq Sockets
      BY <1>2, Zenon DEF RunInv, HostInv
    <2>4. Follows(config.platform, ses.T, dispatch_completed(drained, ids))
      BY <2>3, SettleKeeps, Zenon DEF drained
    <2> QED BY <2>2, <2>4, Zenon
  <1>4. SessionInv(config.platform, ses') /\ NotesOnly(ses.T, ses'.T)
    BY <1>3, Zenon DEF Follows
  <1>5. RowsGoOn(ses.T, ses'.T)
    BY <1>4, NotesGoOn, Zenon
  <1>6. pc' \in {"sample", "loop"}
    BY <1>1, Zenon DEF transport_due
  <1>7. ControlInv'
    BY <1>1, <1>2, <1>6, Zenon DEF ControlInv
  <1>8. Queue' = Queue
    BY <1>1, Zenon DEF Queue
  <1>9. HostInv'
    BY <1>1, <1>2, <1>6, <1>8, Zenon DEF HostInv
  <1>10. ASSUME ~lost PROVE Order(config, ses'.T, Queue, phase, scan.todo, FALSE)
    <2>1. /\ Order(config, ses.T, Queue, phase, scan.todo, pc = "snapshot")
          /\ TrackerInv(config.platform, ses.T)
      BY <1>2, <1>10, Zenon DEF RunInv, SessionInv
    <2>2. Order(config, ses.T, Queue, phase, scan.todo, FALSE)
      BY <2>1, OrderIdle, Zenon
    <2> QED BY <1>4, <2>1, <2>2, OrderNotes, Zenon
  <1>11. RunInv'
    <2>1. (pc = "snapshot")' = FALSE
      BY <1>6, Zenon
    <2> QED BY <1>1, <1>4, <1>8, <1>10, <2>1, Zenon DEF RunInv
  <1> QED BY <1>5, <1>6, <1>7, <1>9, <1>11, Zenon DEF IInv, Steps

-----------------------------------------------------------------------------
(* The snapshots *)

WithTracker(S, T1) == [S EXCEPT !.T = T1]
HasTracker(p, U, T1) == SessionInv(p, U) /\ U.T = T1

\* A snapshot that begins changes nothing the session relies on.
LEMMA BegunKeeps ==
  ASSUME NEW p, NEW S, SessionInv(p, S), NEW T1, SnapshotBegun(p, S.T, T1)
  PROVE  HasTracker(p, WithTracker(S, T1), T1)
  <1> DEFINE U == WithTracker(S, T1)
  <1>1. IsSession(S)
    BY Zenon DEF SessionInv
  <1>2. /\ IsSession(U) /\ U.T = T1 /\ U.active = S.active /\ U.pending = S.pending
        /\ U.dispatched = S.dispatched /\ U.sessions = S.sessions /\ U.requests = S.requests
    BY ONLY <1>1, Zenon DEF IsSession, WithTracker
  <1> HIDE DEF U
  <1>3. T1.rows = S.T.rows /\ Ids(T1) = Ids(S.T) /\ TrackerInv(p, T1)
    BY Zenon DEF SnapshotBegun
  <1>4. \A n \in DOMAIN S.T.rows : Reported(U, n)
    BY <1>2, <1>3, Zenon DEF SessionInv, Reported
  <1>5. SessionInv(p, U)
    BY <1>2, <1>3, <1>4, Zenon DEF SessionInv
  <1> QED BY <1>2, <1>5, Zenon DEF U, HasTracker

\* begin_snapshot, and the sockets of the snapshot.
LEMMA BeginSampleStep ==
  ASSUME IInv, BeginSample
  PROVE  Steps
  <1>1. /\ ses' = [ses EXCEPT !.T = begin_snapshot(ses.T)]
        /\ scan' = [scan EXCEPT !.degraded = config.exact /\ lost, !.todo = Visible, !.seen = {}]
        /\ UNCHANGED <<config, phase, ring, lost, handshakes, batch, candidates>>
    BY Zenon DEF BeginSample, Polling, world
  <1>2. pc \in {"sample", "loop"} /\ pc' = "snapshot"
    BY Zenon DEF BeginSample
  <1>3. ControlInv /\ HostInv /\ RunInv
    BY <1>2, Zenon DEF IInv
  <1>4. SnapshotBegun(config.platform, ses.T, begin_snapshot(ses.T))
    BY <1>3, BeginSnapshot, Zenon DEF RunInv, SessionInv
  <1>5. SessionInv(config.platform, ses') /\ ses'.T = begin_snapshot(ses.T)
    <2>1. SessionInv(config.platform, ses)
      BY <1>3, Zenon DEF RunInv
    <2>2. ses' = WithTracker(ses, begin_snapshot(ses.T))
      BY <1>1, Zenon DEF WithTracker
    <2> DEFINE U == WithTracker(ses, begin_snapshot(ses.T))
    <2>3. HasTracker(config.platform, U, begin_snapshot(ses.T))
      BY <1>4, <2>1, BegunKeeps, Zenon
    <2> HIDE DEF U
    <2> QED BY ONLY <2>2, <2>3, Zenon DEF U, HasTracker
  <1>6. RowsGoOn(ses.T, ses'.T)
    BY <1>4, <1>5, Zenon DEF SnapshotBegun, RowsGoOn, RowGoesOn
  <1>7. /\ DOMAIN scan' = {"degraded", "todo", "seen", "inner"} /\ scan'.inner = scan.inner
        /\ scan'.todo = Visible /\ scan'.degraded = (config.exact /\ lost)
    BY <1>1, <1>3, Zenon DEF ControlInv
  <1>8. Visible \subseteq Sockets /\ \A s \in Sockets : phase[s] \in {"open", "tail"} => s \in Visible
    BY Zenon DEF Visible
  <1>9. ControlInv'
    BY <1>1, <1>2, <1>3, <1>7, <1>8, Zenon DEF ControlInv
  <1>10. Queue' = Queue
    BY <1>1, Zenon DEF Queue
  <1>11. HostInv'
    BY <1>1, <1>2, <1>3, <1>7, <1>10, Zenon DEF HostInv
  <1>12. ASSUME ~lost PROVE Order(config, ses'.T, Queue, phase, scan'.todo, TRUE)
    <2>1. Order(config, ses.T, Queue, phase, scan.todo, pc = "snapshot")
      BY <1>3, <1>12, Zenon DEF RunInv
    <2>2. Order(config, begin_snapshot(ses.T), Queue, phase, Visible, TRUE)
      BY <1>4, <1>8, <2>1, OrderBegun, Zenon
    <2> QED BY <1>5, <1>7, <2>2, Zenon
  <1>13. RunInv'
    <2>1. (pc = "snapshot")' = TRUE
      BY <1>2, Zenon
    <2> QED BY <1>1, <1>5, <1>10, <1>12, <2>1, Zenon DEF RunInv
  <1> QED BY <1>2, <1>6, <1>9, <1>11, <1>13, Zenon DEF IInv, Steps

\* The answer A is one that run() may get when it samples t.
Samples(c, T, ph, t, resolved, A) ==
  SampleOf(c.platform, T, ph, t, A) /\ (c.exact \/ Finds(c.platform, T, t, resolved, A))

\* A sample that is passed over.
LEMMA NothingSamples ==
  ASSUME NEW c, c.exact, NEW T, TrackerInv(c.platform, T), NEW ph, NEW t, NEW resolved, NEW A,
         A = Nothing(T)
  PROVE  Samples(c, T, ph, t, resolved, A)
  <1>1. A.T = T /\ A.id = 0 /\ A.new = FALSE /\ A.closed = FALSE
    BY Zenon DEF Nothing
  <1>2. ASSUME NEW i \in DOMAIN T.conns PROVE T.conns[i].id # 0
    <2>1. T.conns[i].id \in DOMAIN T.rows /\ T.rows \in Seq(RowSpace)
      BY Zenon DEF TrackerInv, EntryRight
    <2> QED BY <2>1
  <1>3. Observed(c.platform, T, A, t)
    BY <1>1, <1>2, Zenon DEF Observed
  <1>4. Answer(c.platform, T, A, t, "UNKNOWN")
    BY Zenon DEF Answer
  <1> QED BY <1>1, <1>3, <1>4, Zenon DEF Samples, SampleOf

\* A sample that the session has the tracker observe: the owner is resolved only for a
\* socket that is open.
LEMMA ObserveSamples ==
  ASSUME TrackerInv(config.platform, ses.T), NEW t \in Sockets, NEW allow_new,
         NEW resolved \in BOOLEAN, resolved => phase[t] = "open", NEW eligible,
         NEW A, A = Observe(t, allow_new, resolved, eligible)
  PROVE  Samples(config, ses.T, phase, t, resolved, A)
  <1> DEFINE p == config.platform
             origin == IF scan.degraded THEN "AFTER_LOSS" ELSE "PREEXISTING"
  <1>1. A = observe_socket(p, ses.T, t, "UNKNOWN", allow_new, origin, resolved, eligible)
    BY Zenon DEF Observe
  <1>2. origin \in {"PREEXISTING", "AFTER_LOSS"}
    BY Zenon
  <1> HIDE DEF origin
  <1>3. AnswersSocket(p, ses.T, t, resolved, A)
    BY <1>1, <1>2, SocketAnswers, Zenon
  <1> QED BY <1>3, Zenon DEF AnswersSocket, Samples, SampleOf

\* A sample keeps the order of events, samples and records.
LEMMA OrderSample ==
  ASSUME NEW c, NEW T, TrackerInv(c.platform, T), NEW ph, NEW t \in Sockets,
         NEW resolved \in BOOLEAN, NEW A, Samples(c, T, ph, t, resolved, A),
         TrackerInv(c.platform, A.T), NEW U, NotesOnly(A.T, U),
         NEW q, NEW todo, Order(c, T, q, ph, todo, TRUE)
  PROVE  Order(c, U, q, ph, todo \ {t}, TRUE)
  <1>1. ASSUME NEW s \in Alone
        PROVE  RecordsInv(A.T, q, ph, s) /\ PollingInv(c, A.T, todo \ {t}, TRUE, ph, s)
    <2>1. RecordsInv(T, q, ph, s) /\ PollingInv(c, T, todo, TRUE, ph, s)
      BY Zenon DEF Order
    <2>2. SampleOf(c.platform, T, ph, t, A) /\ (c.exact \/ Finds(c.platform, T, t, resolved, A))
      BY Zenon DEF Samples
    <2>3. RecordsInv(A.T, q, ph, s)
      BY <2>1, <2>2, SampleRecords, Zenon
    <2>4. PollingInv(c, A.T, todo \ {t}, TRUE, ph, s)
      BY <2>1, <2>2, SamplePolling, Zenon
    <2> QED BY <2>3, <2>4, Zenon
  <1>2. Order(c, A.T, q, ph, todo \ {t}, TRUE)
    BY <1>1, Zenon DEF Order
  <1> QED BY <1>2, OrderNotes, Zenon

\* SeeSocket, whether events are active or not.
Saw(s, resolved, A) ==
  /\ Samples(config, ses.T, phase, s, resolved, A) /\ ses' = Apply(ses, A, "UNKNOWN")
  /\ DOMAIN scan' = DOMAIN scan /\ scan'.todo = scan.todo \ {s}
  /\ scan'.degraded = scan.degraded /\ scan'.inner = scan.inner
  /\ \A key \in DOMAIN candidates' : candidates'[key] \in Sockets

\* With lifecycle events, a sample is observed, made a candidate or passed over.
LEMMA ReconcileSees ==
  ASSUME ControlInv, HostInv, TrackerInv(config.platform, ses.T), config.exact,
         NEW s \in Sockets, NEW resolved \in BOOLEAN, resolved => phase[s] = "open",
         NEW eligible, NEW grace, Reconcile(s, resolved, eligible, grace)
  PROVE  \E A : Saw(s, resolved, A)
  <1> DEFINE key == SnapshotKey(s, resolved)
             enrichment == Observe(s, FALSE, resolved, eligible)
             admit == scan.degraded \/ grace
             A == IF enrichment.id # 0 THEN enrichment
                  ELSE IF evaluate_reconciliation_socket(s, eligible) /\ admit
                       THEN Observe(s, TRUE, resolved, eligible) ELSE Nothing(ses.T)
             pends == enrichment.id = 0 /\ evaluate_reconciliation_socket(s, eligible)
  <1>1. /\ ses' = Apply(ses, A, "UNKNOWN")
        /\ candidates' = IF pends /\ ~admit
                         THEN [k \in DOMAIN candidates \cup {key} |->
                                 IF k = key THEN s ELSE candidates[k]]
                         ELSE IF pends \/ enrichment.id # 0 THEN Without({key}) ELSE candidates
        /\ scan' = [scan EXCEPT !.todo = scan.todo \ {s},
                                !.seen = IF pends THEN scan.seen \cup {key} ELSE scan.seen]
    BY Zenon DEF Reconcile
  <1>2. \/ A = Nothing(ses.T)
        \/ A = Observe(s, FALSE, resolved, eligible)
        \/ A = Observe(s, TRUE, resolved, eligible)
    BY Zenon
  <1> HIDE DEF key, enrichment, admit, A, pends
  <1>3. Samples(config, ses.T, phase, s, resolved, A)
    <2>1. CASE A = Nothing(ses.T)
      BY <2>1, NothingSamples, Zenon
    <2>2. CASE A = Observe(s, FALSE, resolved, eligible)
      BY <2>2, ObserveSamples, Zenon
    <2>3. CASE A = Observe(s, TRUE, resolved, eligible)
      BY <2>3, ObserveSamples, Zenon
    <2> QED BY <1>2, <2>1, <2>2, <2>3, Zenon
  <1>4. /\ DOMAIN scan' = DOMAIN scan /\ scan'.todo = scan.todo \ {s}
        /\ scan'.degraded = scan.degraded /\ scan'.inner = scan.inner
    BY <1>1, Zenon DEF ControlInv
  <1>5. \A k \in DOMAIN candidates : candidates[k] \in Sockets
    BY Zenon DEF HostInv
  <1>6. \A k \in DOMAIN Without({key}) : Without({key})[k] \in Sockets
    BY <1>5, FewerCandidates, Zenon DEF Without
  <1>7. \A k \in DOMAIN candidates' : candidates'[k] \in Sockets
    <2>1. CASE candidates' = [k \in DOMAIN candidates \cup {key} |->
                                IF k = key THEN s ELSE candidates[k]]
      BY <1>5, <2>1, Zenon
    <2>2. CASE candidates' = Without({key})
      BY <1>6, <2>2, Zenon
    <2>3. CASE candidates' = candidates
      BY <1>5, <2>3, Zenon
    <2> QED BY <1>1, <2>1, <2>2, <2>3, Zenon
  <1> QED BY <1>1, <1>3, <1>4, <1>7, Zenon DEF Saw

\* Without them, it is observed.
LEMMA DiscoverSees ==
  ASSUME ControlInv, HostInv, TrackerInv(config.platform, ses.T),
         NEW s \in Sockets, NEW resolved \in BOOLEAN, resolved => phase[s] = "open",
         NEW eligible, Discover(s, resolved, eligible)
  PROVE  \E A : Saw(s, resolved, A)
  <1> DEFINE A == Observe(s, evaluate_new_socket(s, eligible), resolved, eligible)
  <1>1. /\ ses' = Apply(ses, A, "UNKNOWN") /\ scan' = [scan EXCEPT !.todo = scan.todo \ {s}]
        /\ candidates' = candidates
    BY Zenon DEF Discover
  <1>2. Samples(config, ses.T, phase, s, resolved, A)
    BY ObserveSamples, Zenon
  <1> HIDE DEF A
  <1>3. /\ DOMAIN scan' = DOMAIN scan /\ scan'.todo = scan.todo \ {s}
        /\ scan'.degraded = scan.degraded /\ scan'.inner = scan.inner
    BY <1>1, Zenon DEF ControlInv
  <1> QED BY <1>1, <1>2, <1>3, Zenon DEF Saw, HostInv

\* One socket of a snapshot.
LEMMA SeeSocketStep ==
  ASSUME IInv, NEW s \in Sockets, SeeSocket(s)
  PROVE  Steps
  <1>1. /\ pc = "snapshot" /\ pc' = pc
        /\ UNCHANGED <<config, phase, ring, lost, handshakes, batch>>
    BY Zenon DEF SeeSocket, world
  <1>2. ControlInv /\ HostInv /\ RunInv
    BY <1>1, Zenon DEF IInv
  <1>3. SessionInv(config.platform, ses) /\ TrackerInv(config.platform, ses.T)
    BY <1>2, Zenon DEF RunInv, SessionInv
  <1>4. PICK resolved \in BOOLEAN, eligible \in BOOLEAN :
          /\ Resolves(s, resolved)
          /\ IF config.exact THEN \E grace \in BOOLEAN : Reconcile(s, resolved, eligible, grace)
             ELSE Discover(s, resolved, eligible)
    BY Zenon DEF SeeSocket
  <1>5. resolved => phase[s] = "open"
    BY <1>4, Zenon DEF Resolves
  <1>6. \E A : Saw(s, resolved, A)
    <2>1. CASE config.exact
      BY <1>2, <1>3, <1>4, <1>5, <2>1, ReconcileSees, Zenon
    <2>2. CASE ~config.exact
      BY <1>2, <1>3, <1>4, <1>5, <2>2, DiscoverSees, Zenon
    <2> QED BY <2>1, <2>2, Zenon
  <1>7. PICK A : Saw(s, resolved, A)
    BY <1>6, Zenon
  <1>8. /\ Samples(config, ses.T, phase, s, resolved, A) /\ ses' = Apply(ses, A, "UNKNOWN")
    BY <1>7, Zenon DEF Saw
  <1>9. Applied(ses, A, ses')
    <2>1. Answer(config.platform, ses.T, A, s, "UNKNOWN")
      BY <1>8, Zenon DEF Samples, SampleOf
    <2>2. Applied(ses, A, Apply(ses, A, "UNKNOWN"))
      BY <1>3, <2>1, ApplyStep, Zenon
    <2> QED BY <1>8, <2>2, Zenon
  <1>10. /\ SessionInv(config.platform, ses') /\ NotesOnly(A.T, ses'.T)
         /\ RowsGoOn(ses.T, ses'.T) /\ TrackerInv(config.platform, A.T)
    BY <1>9, Zenon DEF Applied
  <1>11. /\ DOMAIN scan' = DOMAIN scan /\ scan'.todo = scan.todo \ {s}
         /\ scan'.degraded = scan.degraded /\ scan'.inner = scan.inner
    BY <1>7, Zenon DEF Saw
  <1>12. ControlInv'
    BY <1>1, <1>2, <1>11, Zenon DEF ControlInv
  <1>13. Queue' = Queue
    BY <1>1, Zenon DEF Queue
  <1>14. HostInv'
    BY <1>1, <1>2, <1>7, <1>11, <1>13, Zenon DEF HostInv, Saw
  <1>15. ASSUME ~lost PROVE Order(config, ses'.T, Queue, phase, scan'.todo, TRUE)
    <2>1. Order(config, ses.T, Queue, phase, scan.todo, TRUE)
      BY <1>1, <1>2, <1>15, Zenon DEF RunInv
    <2>2. Order(config, ses'.T, Queue, phase, scan.todo \ {s}, TRUE)
      BY <1>3, <1>8, <1>10, <2>1, OrderSample, Zenon
    <2> QED BY <1>11, <2>2, Zenon
  <1>16. RunInv'
    <2>1. (pc = "snapshot")' = TRUE
      BY <1>1, Zenon
    <2> QED BY <1>1, <1>10, <1>13, <1>15, <2>1, Zenon DEF RunInv
  <1> QED BY <1>1, <1>10, <1>12, <1>14, <1>16, Zenon DEF IInv, Steps

\* A candidate that the snapshot has not shown again is dropped.
LEMMA DropCandidateStep ==
  ASSUME IInv, NEW key \in DOMAIN candidates, DropCandidate(key)
  PROVE  Steps
  <1> DEFINE s == candidates[key]
  <1>1. /\ pc = "snapshot" /\ pc' = pc /\ candidates' = Without({key})
        /\ UNCHANGED <<config, phase, ring, lost, handshakes, batch, scan>>
    BY Zenon DEF DropCandidate, world
  <1>2. ControlInv /\ HostInv /\ RunInv
    BY <1>1, Zenon DEF IInv
  <1>3. SessionInv(config.platform, ses) /\ TrackerInv(config.platform, ses.T)
    BY <1>2, Zenon DEF RunInv, SessionInv
  <1>4. s \in Sockets
    BY <1>2, Zenon DEF HostInv
  <1>5. PICK resolved \in BOOLEAN :
          /\ Resolves(s, resolved)
          /\ ses' = IF scan.degraded THEN Apply(ses, Observe(s, TRUE, resolved, TRUE), "UNKNOWN")
                    ELSE ses
    BY Zenon DEF DropCandidate
  <1>6. resolved => phase[s] = "open"
    BY <1>5, Zenon DEF Resolves
  <1> HIDE DEF s
  <1>7. SessionInv(config.platform, ses') /\ RowsGoOn(ses.T, ses'.T)
    <2>1. CASE scan.degraded
      <3> DEFINE A == Observe(s, TRUE, resolved, TRUE)
      <3>1. Samples(config, ses.T, phase, s, resolved, A)
        BY <1>3, <1>4, <1>6, ObserveSamples, Zenon
      <3> HIDE DEF A
      <3>2. Answer(config.platform, ses.T, A, s, "UNKNOWN")
        BY <3>1, Zenon DEF Samples, SampleOf
      <3>3. Applied(ses, A, Apply(ses, A, "UNKNOWN"))
        BY <1>3, <3>2, ApplyStep, Zenon
      <3>4. ses' = Apply(ses, A, "UNKNOWN")
        BY <1>5, <2>1, Zenon DEF A
      <3> QED BY <3>3, <3>4, Zenon DEF Applied
    <2>2. CASE ~scan.degraded
      <3>1. ses' = ses
        BY <1>5, <2>2, Zenon
      <3> QED BY <1>3, <3>1, Zenon DEF RowsGoOn, RowGoesOn
    <2> QED BY <2>1, <2>2, Zenon
  <1>8. ControlInv'
    BY <1>1, <1>2, Zenon DEF ControlInv
  <1>9. Queue' = Queue
    BY <1>1, Zenon DEF Queue
  <1>10. HostInv'
    <2>1. \A k \in DOMAIN candidates' : candidates'[k] \in Sockets
      BY <1>1, <1>2, FewerCandidates, Zenon DEF Without, HostInv
    <2> QED BY <1>1, <1>2, <1>9, <2>1, Zenon DEF HostInv
  <1>11. RunInv'
    <2>1. ~lost => ses' = ses
      BY <1>1, <1>2, <1>5, Zenon DEF ControlInv
    <2> QED BY <1>1, <1>2, <1>7, <1>9, <2>1, Zenon DEF RunInv
  <1> QED BY <1>1, <1>7, <1>8, <1>10, <1>11, Zenon DEF IInv, Steps

\* end_snapshot, and what run() does with the records it gives up.
LEMMA EndedKeeps ==
  ASSUME NEW S, SessionInv(config.platform, S), handshakes \subseteq Sockets,
         NEW T1, NEW absent, NEW state, SnapshotEnded(config.platform, S.T, T1, absent, state),
         NEW late, NEW drained,
         drained = drain_tls_sessions(connection_closed(WithTracker(S, T1), absent), late),
         NEW ids, ids \subseteq drained.pending
  PROVE  Follows(config.platform, T1, observe_scheduled_routes(dispatch_completed(drained, ids)))
  <1> DEFINE p == config.platform
             closed == connection_closed(WithTracker(S, T1), absent)
             sent == dispatch_completed(drained, ids)
  <1>1. Ends(p, S.T, T1, absent)
    BY Zenon DEF SnapshotEnded, Ends
  <1>2. Follows(p, T1, closed)
    BY <1>1, ClosedKeeps, Zenon DEF WithTracker
  <1> HIDE DEF closed
  <1>3. SessionInv(p, closed)
    BY <1>2, Zenon DEF Follows
  <1>4. drained = drain_tls_sessions(closed, late)
    BY Zenon DEF closed
  <1>5. Follows(p, closed.T, sent)
    BY <1>3, <1>4, SettleKeeps, Zenon
  <1> HIDE DEF sent
  <1>6. SessionInv(p, sent)
    BY <1>5, Zenon DEF Follows
  <1>7. Follows(p, sent.T, observe_scheduled_routes(sent))
    BY <1>6, RoutesKeep, Zenon
  <1>8. Follows(p, T1, sent)
    BY <1>2, <1>5, FollowsTwice, Zenon
  <1>9. Follows(p, T1, observe_scheduled_routes(sent))
    BY <1>7, <1>8, FollowsTwice, Zenon
  <1> QED BY <1>9, Zenon DEF sent

\* end_snapshot, the connections it ends, and what follows the last socket.
LEMMA EndSampleStep ==
  ASSUME IInv, EndSample
  PROVE  Steps
  <1> DEFINE T1 == end_snapshot(ses.T, Polling, scan.degraded)
             absent == {ses.T.conns[i].id : i \in Absent(ses.T, Polling, scan.degraded)}
             state == StateOfAbsent(Polling, scan.degraded)
  <1>1. /\ pc = "snapshot" /\ scan.todo = {} /\ handshakes' = {}
        /\ pc' = IF scan.inner THEN "events" ELSE "loop"
        /\ scan' = NoScan
        /\ UNCHANGED <<config, phase, ring, lost, batch>>
    BY Zenon DEF EndSample
  <1>2. ControlInv /\ HostInv /\ RunInv
    BY <1>1, Zenon DEF IInv
  <1>3. SessionInv(config.platform, ses) /\ TrackerInv(config.platform, ses.T)
        /\ handshakes \subseteq Sockets
    BY <1>2, Zenon DEF RunInv, SessionInv, HostInv
  <1>4. SnapshotEnded(config.platform, ses.T, T1, absent, state)
    BY <1>3, EndSnapshot, Zenon
  <1>5. PICK late : \E ids \in SUBSET drain_tls_sessions(
                                 connection_closed(WithTracker(ses, T1), absent), late).pending :
          ses' = observe_scheduled_routes(dispatch_completed(
                   drain_tls_sessions(connection_closed(WithTracker(ses, T1), absent), late), ids))
    BY Zenon DEF EndSample, WithTracker
  <1> DEFINE drained == drain_tls_sessions(connection_closed(WithTracker(ses, T1), absent), late)
  <1>6. PICK ids \in SUBSET drained.pending :
          ses' = observe_scheduled_routes(dispatch_completed(drained, ids))
    BY <1>5, Zenon
  <1>7. Follows(config.platform, T1, ses')
    <2> HIDE DEF T1, absent, state
    <2>1. ids \subseteq drained.pending
      BY <1>6, Zenon
    <2>2. Follows(config.platform, T1, observe_scheduled_routes(dispatch_completed(drained, ids)))
      <3>1. drained = drain_tls_sessions(connection_closed(WithTracker(ses, T1), absent), late)
        BY Zenon
      <3> HIDE DEF drained
      <3> QED BY <1>3, <1>4, <2>1, <3>1, EndedKeeps, Zenon
    <2> QED BY <1>6, <2>2, Zenon
  <1> HIDE DEF drained
  <1>8. SessionInv(config.platform, ses') /\ NotesOnly(T1, ses'.T)
    BY <1>7, Zenon DEF Follows
  <1>9. RowsGoOn(ses.T, ses'.T) /\ TrackerInv(config.platform, T1)
    <2>1. RowsGoOn(ses.T, T1) /\ TrackerInv(config.platform, T1)
      BY <1>4, Zenon DEF SnapshotEnded
    <2> QED BY <1>8, <2>1, NotesGoOn, GoOnTwice, Zenon
  <1>10. pc' # "stopped" /\ (pc = "snapshot")' = FALSE
    BY <1>1, Zenon
  <1>11. ControlInv'
    BY <1>1, <1>2, Zenon DEF ControlInv, NoScan
  <1>12. Queue' = Queue
    BY <1>1, Zenon DEF Queue
  <1>13. \A key \in DOMAIN candidates' : candidates'[key] \in Sockets
    <2>1. PICK keep \in SUBSET DOMAIN candidates : candidates' = Restrict(candidates, keep)
      BY Zenon DEF EndSample
    <2> QED BY <1>2, <2>1, FewerCandidates, Zenon DEF HostInv
  <1>14. HostInv'
    <2>1. ~config.exact => ~scan.inner /\ Queue = <<>>
      BY <1>2, Zenon DEF HostInv
    <2>2. scan'.inner = FALSE
      BY <1>1, Zenon DEF NoScan
    <2>3. ~config.exact => pc' # "events"
      BY <1>1, <2>1, Zenon
    <2> QED BY <1>1, <1>2, <1>12, <1>13, <2>1, <2>2, <2>3, Zenon DEF HostInv
  <1>15. ASSUME ~lost PROVE Order(config, ses'.T, Queue, phase, scan'.todo, FALSE)
    <2>1. ~scan.degraded
      BY <1>1, <1>2, <1>15, Zenon DEF ControlInv
    <2>2. Order(config, ses.T, Queue, phase, {}, TRUE)
      BY <1>1, <1>2, <1>15, Zenon DEF RunInv
    <2>3. /\ phase \in [Sockets -> {"none", "open", "tail", "gone"}]
          /\ ~config.exact => Queue = <<>>
      BY <1>2, Zenon DEF HostInv
    <2>4. /\ absent = {ses.T.conns[i].id : i \in Absent(ses.T, ~config.exact, scan.degraded)}
          /\ state = StateOfAbsent(~config.exact, scan.degraded)
      BY Zenon DEF Polling
    <2> HIDE DEF T1, absent, state
    <2>5. Order(config, T1, Queue, phase, scan'.todo, FALSE)
      BY <1>3, <1>4, <2>1, <2>2, <2>3, <2>4, OrderEnded, Zenon
    <2> QED BY <1>8, <1>9, <2>5, OrderNotes, Zenon
  <1>16. RunInv'
    BY <1>1, <1>8, <1>10, <1>12, <1>15, Zenon DEF RunInv
  <1> QED BY <1>9, <1>10, <1>11, <1>14, <1>16, Zenon DEF IInv, Steps

-----------------------------------------------------------------------------
(* What the invariant says of the records *)

\* What EvidenceBelongs asks of a row.
Belongs(row) ==
  row.socket \in Alone =>
    /\ row.about = {row.socket}
    /\ row.cookie \in {NoSocket, row.socket}
    /\ row.direction \in {"UNKNOWN", DirectionOf(row.socket)}
    /\ row.route \in {"none", "UNKNOWN", row.direction}
    /\ row.tls \subseteq {row.socket}

\* The row of a socket whose tuple nobody else has speaks of that socket alone.
LEMMA RowBelongs ==
  ASSUME NEW row, RowRight(row)
  PROVE  Belongs(row)
  <1> SUFFICES ASSUME row.socket \in Alone
               PROVE  /\ row.about = {row.socket}
                      /\ row.cookie \in {NoSocket, row.socket}
                      /\ row.direction \in {"UNKNOWN", DirectionOf(row.socket)}
                      /\ row.route \in {"none", "UNKNOWN", row.direction}
                      /\ row.tls \subseteq {row.socket}
    BY Zenon DEF Belongs
  <1>1. row.socket \in Sockets
    BY Zenon DEF Alone
  <1>2. Kin(row.socket) = {row.socket}
    BY <1>1, KinFacts, Zenon
  <1> QED BY <1>2, Zenon DEF RowRight

\* And no other row speaks of that socket.
LEMMA AboutAlone ==
  ASSUME NEW row \in RowSpace, RowRight(row), NEW s \in Alone, s \in row.about
  PROVE  row.socket = s
  <1>1. row.socket \in Sockets /\ s \in Kin(row.socket)
    BY Zenon DEF RowSpace, RowRight
  <1> QED BY <1>1, AloneKin, Zenon

\* The records that OneRecord counts.
Counted(T, s) ==
  {n \in DOMAIN T.rows : s \in T.rows[n].about /\ T.rows[n].state # "PREEXISTING_DISAPPEARED"}

\* So the records that speak of a socket are its own.
LEMMA CountedIsKept ==
  ASSUME NEW p, NEW T, TrackerInv(p, T), NEW s \in Alone, NEW n \in Counted(T, s)
  PROVE  n \in Kept(T, s)
  <1>1. /\ n \in DOMAIN T.rows /\ s \in T.rows[n].about
        /\ T.rows[n].state # "PREEXISTING_DISAPPEARED"
    BY Zenon DEF Counted
  <1>2. T.rows[n] \in RowSpace /\ RowRight(T.rows[n])
    BY <1>1 DEF TrackerInv
  <1>3. T.rows[n].socket = s
    BY <1>1, <1>2, AboutAlone, Zenon
  <1> QED BY <1>1, <1>3, Zenon DEF Kept

\* While the session runs, its invariant implies the three properties.
LEMMA RunningHolds ==
  ASSUME HostInv, RunInv, pc # "stopped"
  PROVE  HistoryAgrees /\ CompletionAccounted /\ RecordIsTheSockets
  <1> DEFINE T == ses.T
  <1>1. SessionInv(config.platform, ses) /\ TrackerInv(config.platform, T)
    BY Zenon DEF RunInv, SessionInv
  <1>2. Tracked = Ids(T) /\ Rows = DOMAIN T.rows
    BY Zenon DEF Tracked, Ids, Rows
  <1>3. HistoryAgrees
    <2>1. DOMAIN T.index = DOMAIN T.conns
      BY <1>1, Zenon DEF TrackerInv
    <2>2. \A i, j \in DOMAIN T.conns : T.conns[i].id = T.conns[j].id => i = j
      BY <1>1, Zenon DEF TrackerInv
    <2>3. ses.active = Ids(T) /\ DOMAIN ses.requests \subseteq ses.active
      BY <1>1, Zenon DEF SessionInv
    <2>4. Ids(T) = {n \in Rows : T.rows[n].state \notin Ended}
      BY <1>1, <1>2, Zenon DEF TrackerInv, Unended
    <2> QED BY <1>2, <2>1, <2>2, <2>3, <2>4, Zenon DEF HistoryAgrees
  <1>4. CompletionAccounted
    <2>1. /\ ses.pending \cup ses.dispatched = Rows \ Tracked
          /\ ses.pending \cap ses.dispatched = {}
      BY <1>1, <1>2, Zenon DEF SessionInv
    <2>2. ASSUME NEW n \in Rows
          PROVE  /\ n \in ses.dispatched <=> T.rows[n].tls \in T.rows[n].told
                 /\ ~T.rows[n].repeated
      <3>1. Reported(ses, n)
        BY <1>1, <1>2, Zenon DEF SessionInv
      <3> QED BY <3>1, Zenon DEF Reported
    <2>3. ses.dispatched \subseteq Rows
      BY <2>1, Zenon
    <2> QED BY <2>1, <2>2, <2>3, Zenon DEF CompletionAccounted
  <1>5. ASSUME ~lost, NEW s \in Alone
        PROVE  \A m, n \in Counted(T, s) : m = n
    <2>1. RecordsInv(T, Queue, phase, s)
      BY <1>5, Zenon DEF RunInv, Order
    <2>2. \A m, n \in Kept(T, s) : m = n
      BY <2>1, Zenon DEF RecordsInv
    <2>3. \A n \in Counted(T, s) : n \in Kept(T, s)
      BY <1>1, CountedIsKept, Zenon
    <2> QED BY <2>2, <2>3, Zenon
  <1>6. OneRecord
    BY <1>5, Zenon DEF OneRecord, Counted, Rows
  <1>7. ASSUME NEW n \in Rows PROVE Belongs(ses.T.rows[n])
    <2>1. RowRight(T.rows[n])
      BY <1>1, <1>2, Zenon DEF TrackerInv
    <2> QED BY <2>1, RowBelongs, Zenon
  <1>8. EvidenceBelongs
    BY <1>7, Zenon DEF EvidenceBelongs, Belongs
  <1> QED BY <1>3, <1>4, <1>6, <1>8, Zenon DEF RecordIsTheSockets

-----------------------------------------------------------------------------
(* The end of run() *)

\* What run() does before finish_observation leaves nothing to report.
NothingLeft(p, T, last) == Follows(p, T, last) /\ last.pending = {}

\* The reports at the end: everything that has ended is reported with all of its TLS
\* sessions, those that came late included.
LEMMA LastReports ==
  ASSUME NEW S, SessionInv(config.platform, S), handshakes \subseteq Sockets, NEW late,
         NEW drained, drained = drain_tls_sessions(S, late),
         NEW first, first = dispatch_completed(drained, drained.pending),
         NEW second, second = correlate_tls_sessions(first),
         NEW last, last = dispatch_completed(second, second.pending)
  PROVE  NothingLeft(config.platform, S.T, last)
  <1> DEFINE p == config.platform
  <1>1. Follows(p, S.T, first)
    BY SettleKeeps, Zenon
  <1>2. SessionInv(p, first)
    BY <1>1, Zenon DEF Follows
  <1>3. Follows(p, first.T, second)
    BY <1>2, CorrelateKeeps, Zenon
  <1>4. SessionInv(p, second)
    BY <1>3, Zenon DEF Follows
  <1>5. Follows(p, second.T, last) /\ last.pending = {}
    <2> DEFINE ids == second.pending
    <2>1. /\ Follows(p, second.T, dispatch_completed(second, ids))
          /\ dispatch_completed(second, ids).pending = second.pending \ ids
      BY <1>4, DispatchKeeps
    <2> QED BY <2>1, Zenon
  <1>6. Follows(p, S.T, second)
    BY <1>1, <1>3, FollowsTwice, Zenon
  <1>7. Follows(p, S.T, last)
    BY <1>5, <1>6, FollowsTwice, Zenon
  <1> QED BY <1>5, <1>7, Zenon DEF NothingLeft

\* The session U is S after finish_observation.
HasStopped(S, U) ==
  /\ Finished(S.T, U.T) /\ U.active = S.active /\ U.requests = S.requests
  /\ U.pending = S.pending /\ U.dispatched = S.dispatched

\* What finish_observation writes does not disturb what was reported.
LEMMA FinishStops ==
  ASSUME NEW p, NEW S, SessionInv(p, S), NEW polling
  PROVE  HasStopped(S, WithTracker(S, finish_observation(S.T, polling)))
  <1> DEFINE T1 == finish_observation(S.T, polling)
             U == WithTracker(S, T1)
  <1>1. IsSession(S) /\ TrackerInv(p, S.T)
    BY Zenon DEF SessionInv
  <1>2. Finished(S.T, T1)
    BY <1>1, FinishObservation, Zenon
  <1> HIDE DEF T1
  <1>3. /\ U.T = T1 /\ U.active = S.active /\ U.requests = S.requests
        /\ U.pending = S.pending /\ U.dispatched = S.dispatched
    BY ONLY <1>1, Zenon DEF IsSession, WithTracker
  <1> HIDE DEF U
  <1>4. HasStopped(S, U)
    BY <1>2, <1>3, Zenon DEF HasStopped
  <1> QED BY <1>4, Zenon DEF U, T1

\* The end of run().
LEMMA StopStep ==
  ASSUME IInv, Stop
  PROVE  Steps
  <1>1. /\ pc = "loop" /\ pc' = "stopped" /\ handshakes' = {}
        /\ UNCHANGED <<config, phase, ring, lost, batch, candidates, scan>>
    BY Zenon DEF Stop
  <1>2. ControlInv /\ HostInv /\ RunInv
    BY <1>1, Zenon DEF IInv
  <1>3. /\ SessionInv(config.platform, ses) /\ handshakes \subseteq Sockets
        /\ TrackerInv(config.platform, ses.T)
    BY <1>2, Zenon DEF RunInv, HostInv, SessionInv
  <1>4. PICK late :
          LET drained == drain_tls_sessions(ses, late)
              first == dispatch_completed(drained, drained.pending)
              second == correlate_tls_sessions(first)
              last == dispatch_completed(second, second.pending)
          IN  ses' = WithTracker(last, finish_observation(last.T, Polling))
    BY Zenon DEF Stop, WithTracker
  <1> DEFINE drained == drain_tls_sessions(ses, late)
             first == dispatch_completed(drained, drained.pending)
             second == correlate_tls_sessions(first)
             last == dispatch_completed(second, second.pending)
  <1>5. ses' = WithTracker(last, finish_observation(last.T, Polling))
    BY <1>4, Zenon
  <1>6. NothingLeft(config.platform, ses.T, last)
    BY <1>3, LastReports, Zenon
  <1> HIDE DEF last
  <1>7. SessionInv(config.platform, last) /\ NotesOnly(ses.T, last.T)
    BY <1>6, Zenon DEF Follows, NothingLeft
  <1>8. HasStopped(last, ses')
    <2>1. HasStopped(last, WithTracker(last, finish_observation(last.T, Polling)))
      BY <1>7, FinishStops, Zenon
    <2> QED BY <1>5, <2>1, Zenon
  <1> DEFINE T == last.T
             U == ses'.T
  <1>9. /\ U.conns = T.conns /\ U.index = T.index /\ DOMAIN U.rows = DOMAIN T.rows
        /\ ses'.active = last.active /\ ses'.requests = last.requests
        /\ ses'.pending = {} /\ ses'.dispatched = last.dispatched
    BY <1>6, <1>8, Zenon DEF HasStopped, Finished, NothingLeft
  <1>10. ASSUME NEW n \in DOMAIN T.rows
         PROVE  /\ RowRight(U.rows[n]) /\ RowGoesOn(T.rows[n], U.rows[n])
                /\ U.rows[n].about = T.rows[n].about
                /\ Noted(U.rows[n]) = Noted(T.rows[n])
                /\ n \notin Ids(T) => U.rows[n] = T.rows[n]
    BY <1>8, Zenon DEF HasStopped, Finished
  <1>11. TrackerInv(config.platform, T)
    BY <1>7, Zenon DEF SessionInv
  <1>12. Tracked' = Ids(T) /\ Rows' = DOMAIN T.rows
    BY <1>9, Zenon DEF Tracked, Ids, Rows
  <1>13. HistoryAgrees'
    <2>1. DOMAIN T.index = DOMAIN T.conns
      BY <1>11, Zenon DEF TrackerInv
    <2>2. \A i, j \in DOMAIN T.conns : T.conns[i].id = T.conns[j].id => i = j
      BY <1>11, Zenon DEF TrackerInv
    <2>3. last.active = Ids(T) /\ DOMAIN last.requests \subseteq last.active
      BY <1>7, Zenon DEF SessionInv
    <2> HIDE DEF T
    <2> QED BY <1>1, <1>9, <1>12, <2>1, <2>2, <2>3, Zenon DEF HistoryAgrees
  <1>14. CompletionAccounted'
    <2>1. last.dispatched \subseteq DOMAIN T.rows
      BY <1>7, Zenon DEF SessionInv
    <2>2. ASSUME NEW n \in DOMAIN T.rows
          PROVE  /\ n \in last.dispatched <=> U.rows[n].tls \in U.rows[n].told
                 /\ ~U.rows[n].repeated
      <3>1. Reported(last, n)
        BY <1>7, Zenon DEF SessionInv
      <3>2. /\ U.rows[n].told = T.rows[n].told /\ U.rows[n].tls = T.rows[n].tls
            /\ U.rows[n].repeated = T.rows[n].repeated
        BY <1>10, Zenon DEF Noted
      <3> QED BY <3>1, <3>2, Zenon DEF Reported
    <2> HIDE DEF T
    <2> QED BY <1>1, <1>9, <1>12, <2>1, <2>2, Zenon DEF CompletionAccounted
  <1>15. ASSUME ~lost, NEW s \in Alone
         PROVE  \A m, n \in Counted(U, s) : m = n
    <2>1. Order(config, T, Queue, phase, scan.todo, pc = "snapshot")
      <3>1. Order(config, ses.T, Queue, phase, scan.todo, pc = "snapshot")
        BY <1>2, <1>15, ZenonT(30) DEF RunInv
      <3> QED BY <1>3, <1>7, <3>1, OrderNotes, Zenon
    <2>2. \A m, n \in Kept(T, s) : m = n
      BY <2>1, Zenon DEF Order, RecordsInv
    <2>3. ASSUME NEW n \in Counted(U, s) PROVE n \in Kept(T, s)
      <3>1. n \in DOMAIN T.rows /\ s \in T.rows[n].about
        BY <1>9, <1>10, <2>3, Zenon DEF Counted
      <3>2. T.rows[n].state # "PREEXISTING_DISAPPEARED"
        <4>1. CASE n \in Ids(T)
          <5>1. n \in Unended(T)
            BY <1>11, <4>1, Zenon DEF TrackerInv
          <5> QED BY <5>1, Zenon DEF Unended, Ended
        <4>2. CASE n \notin Ids(T)
          BY <1>10, <2>3, <3>1, <4>2, Zenon DEF Counted
        <4> QED BY <4>1, <4>2, Zenon
      <3>3. n \in Counted(T, s)
        BY <3>1, <3>2, Zenon DEF Counted
      <3> QED BY <1>11, <3>3, CountedIsKept, Zenon
    <2> QED BY <2>2, <2>3, Zenon
  <1>16. OneRecord'
    <2>1. ASSUME NEW s \in Alone, ~lost
          PROVE  \A m, n \in {k \in Rows' : /\ s \in ses'.T.rows[k].about
                                   /\ ses'.T.rows[k].state # "PREEXISTING_DISAPPEARED"} : m = n
      BY <1>9, <1>12, <1>15, <2>1 DEF Counted
    <2> QED BY <1>1, <2>1, ZenonT(30) DEF OneRecord
  <1>17. EvidenceBelongs'
    <2>1. ASSUME NEW n \in Rows' PROVE Belongs(ses'.T.rows[n])
      BY <1>10, <1>12, RowBelongs, Zenon
    <2> QED BY <2>1, Zenon DEF EvidenceBelongs, Belongs
  <1>18. RowsGoOn(ses.T, ses'.T)
    <2>1. RowsGoOn(T, U)
      BY <1>9, <1>10, Zenon DEF RowsGoOn
    <2> QED BY <1>7, <2>1, NotesGoOn, GoOnTwice, Zenon
  <1>19. ControlInv'
    BY <1>1, <1>2, Zenon DEF ControlInv
  <1>20. HostInv'
    <2>1. Queue' = Queue
      BY <1>1, Zenon DEF Queue
    <2> QED BY <1>1, <1>2, <2>1, Zenon DEF HostInv
  <1> QED BY <1>1, <1>13, <1>14, <1>16, <1>17, <1>18, <1>19, <1>20
          DEF IInv, Steps, RecordIsTheSockets

-----------------------------------------------------------------------------
(* The host *)

\* The socket t goes from its phase to the phase x, and the event is announced, lost, or
\* nobody's concern.
SocketMoves(t, x, event) ==
  /\ HostMoves /\ phase' = [phase EXCEPT ![t] = x] /\ handshakes' = handshakes
  /\ <<phase[t], x>> \in {<<"none", "open">>, <<"open", "tail">>, <<"tail", "gone">>}
  /\ event \in EventSpace /\ event.socket = t /\ (event.type = "CLOSE" <=> phase[t] # "none")
  /\ \/ ring' = ring /\ lost' = lost /\ (x = "gone" \/ ~config.exact)
     \/ ring' = Append(ring, event) /\ lost' = lost /\ config.exact /\ x # "gone"
     \/ ring' = ring /\ lost' = TRUE

\* What a socket does keeps the queue in order.
LEMMA QueueMoves ==
  ASSUME HostInv, NEW t \in Sockets, NEW x, NEW event, SocketMoves(t, x, event)
  PROVE  /\ QueueInv(Queue', phase') /\ ring' \in Seq(EventSpace)
         /\ ~config.exact => Queue' = <<>>
         /\ lost' = lost => PhaseMoves(Queue, phase, Queue', phase', t)
  <1>1. /\ batch' = batch /\ batch \in Seq(EventSpace) /\ ring \in Seq(EventSpace)
        /\ QueueInv(Queue, phase) /\ phase \in [Sockets -> {"none", "open", "tail", "gone"}]
        /\ ~config.exact => Queue = <<>>
    BY Zenon DEF HostInv, SocketMoves, HostMoves
  <1>2. /\ phase'[t] = x /\ \A s \in Sockets : s # t => phase'[s] = phase[s]
    BY <1>1, Zenon DEF SocketMoves
  <1>3. \/ phase[t] = "none" /\ x = "open"
        \/ phase[t] = "open" /\ x = "tail"
        \/ phase[t] = "tail" /\ x = "gone"
    BY Zenon DEF SocketMoves
  <1>4. event \in EventSpace /\ event.socket = t /\ (event.type = "CLOSE" <=> phase[t] # "none")
    BY Zenon DEF SocketMoves
  <1>5. CASE ring' = ring
    <2>1. Queue' = Queue
      BY <1>1, <1>5, Zenon DEF Queue
    <2>2. QueueInv(Queue, phase')
      BY <1>1, <1>2, <1>3, PhaseKeepsQueue
    <2>3. \A s \in Sockets : NoneAdded(Queue, Queue, s)
      BY Zenon DEF NoneAdded
    <2>4. PhaseMoves(Queue, phase, Queue, phase', t)
      BY <1>2, <1>3, <2>3, Zenon DEF PhaseMoves
    <2> QED BY <1>1, <1>5, <2>1, <2>2, <2>4, Zenon
  <1>6. CASE ring' = Append(ring, event) /\ config.exact /\ x # "gone"
    <2>1. Queue' = Append(Queue, event) /\ ring' \in Seq(EventSpace)
      BY <1>1, <1>4, <1>6, QueueFacts, Zenon DEF Queue
    <2>2. Announced(Queue, phase, event, Queue', phase')
      BY <1>1, <1>2, <1>3, <1>4, <1>6, <2>1, Zenon DEF Announced
    <2>3. /\ QueueInv(Queue', phase')
          /\ \A s \in Sockets : s # event.socket => NoneAdded(Queue, Queue', s)
          /\ event.type = "CLOSE" /\ OpenQueued(Queue', event.socket)
               => OpenQueued(Queue, event.socket)
      BY <2>2, AnnouncedKeeps, Zenon
    <2>4. PhaseMoves(Queue, phase, Queue', phase', t)
      BY <1>2, <1>3, <1>4, <1>6, <2>3, Zenon DEF PhaseMoves
    <2> QED BY <1>6, <2>1, <2>3, <2>4, Zenon
  <1> QED BY <1>5, <1>6, Zenon DEF SocketMoves

\* What a socket does, its event announced or lost, keeps the invariant.
LEMMA HostStep ==
  ASSUME IInv, NEW t \in Sockets, NEW x, NEW event, SocketMoves(t, x, event)
  PROVE  Steps
  <1>1. /\ pc \in {"loop", "sample"}
        /\ UNCHANGED <<config, pc, batch, ses, candidates, scan, handshakes>>
    BY Zenon DEF SocketMoves, HostMoves
  <1>2. ControlInv /\ HostInv /\ RunInv
    BY <1>1, Zenon DEF IInv
  <1>3. /\ QueueInv(Queue', phase') /\ ring' \in Seq(EventSpace)
        /\ ~config.exact => Queue' = <<>>
        /\ lost' = lost => PhaseMoves(Queue, phase, Queue', phase', t)
    BY <1>2, QueueMoves, Zenon
  <1>4. lost' = lost \/ lost' = TRUE
    BY Zenon DEF SocketMoves
  <1>5. ControlInv'
    BY <1>1, <1>2, <1>4, ZenonT(30) DEF ControlInv
  <1>6. phase' \in [Sockets -> {"none", "open", "tail", "gone"}]
    BY <1>2, Zenon DEF HostInv, SocketMoves
  <1>7. HostInv'
    BY <1>1, <1>2, <1>3, <1>6, Zenon DEF HostInv
  <1>8. ASSUME ~lost' PROVE Order(config, ses.T, Queue', phase', scan.todo, FALSE)
    <2>1. ~lost /\ lost' = lost
      BY <1>4, <1>8
    <2>2. Order(config, ses.T, Queue, phase, scan.todo, FALSE) /\ TrackerInv(config.platform, ses.T)
      BY <1>2, <2>1, OrderIdle, Zenon DEF RunInv, SessionInv
    <2>3. PhaseMoves(Queue, phase, Queue', phase', t)
      BY <1>3, <2>1, Zenon
    <2> QED BY <2>2, <2>3, OrderMoves, Zenon
  <1>9. RunInv'
    <2>1. (pc = "snapshot")' = FALSE
      BY <1>1, Zenon
    <2> QED BY <1>1, <1>2, <1>8, <2>1, Zenon DEF RunInv
  <1>10. RowsGoOn(ses.T, ses'.T)
    BY <1>1, Zenon DEF RowsGoOn, RowGoesOn
  <1> QED BY <1>1, <1>5, <1>7, <1>9, <1>10, Zenon DEF IInv, Steps

\* A socket opens.
LEMMA OpenStep ==
  ASSUME IInv, NEW s \in Sockets, Open(s)
  PROVE  Steps
  <1> DEFINE event == [type |-> IF s \in Accepted THEN "ACCEPT" ELSE "CONNECT", socket |-> s]
  <1>1. event \in EventSpace /\ event.socket = s /\ event.type # "CLOSE"
    BY Zenon DEF EventSpace
  <1>2. \/ ring' = (IF config.exact THEN Append(ring, event) ELSE ring) /\ lost' = lost
        \/ lost' = TRUE /\ ring' = ring
    BY Zenon DEF Open, Announce
  <1> HIDE DEF event
  <1>3. SocketMoves(s, "open", event)
    BY <1>1, <1>2, Zenon DEF Open, SocketMoves
  <1> QED BY <1>3, HostStep, Zenon

\* A socket closes.
LEMMA CloseStep ==
  ASSUME IInv, NEW s \in Sockets, Close(s)
  PROVE  Steps
  <1> DEFINE event == [type |-> "CLOSE", socket |-> s]
  <1>1. event \in EventSpace /\ event.socket = s /\ event.type = "CLOSE"
    BY Zenon DEF EventSpace
  <1>2. \/ ring' = (IF config.exact THEN Append(ring, event) ELSE ring) /\ lost' = lost
        \/ lost' = TRUE /\ ring' = ring
    BY Zenon DEF Close, Announce
  <1> HIDE DEF event
  <1>3. SocketMoves(s, "tail", event)
    BY <1>1, <1>2, Zenon DEF Close, SocketMoves
  <1> QED BY <1>3, HostStep, Zenon

\* A closed socket leaves the kernel.
LEMMA VanishStep ==
  ASSUME IInv, NEW s \in Sockets, Vanish(s)
  PROVE  Steps
  <1> DEFINE event == [type |-> "CLOSE", socket |-> s]
  <1>1. event \in EventSpace /\ event.socket = s /\ event.type = "CLOSE"
    BY Zenon DEF EventSpace
  <1> HIDE DEF event
  <1>2. SocketMoves(s, "gone", event)
    BY <1>1, Zenon DEF Vanish, SocketMoves
  <1> QED BY <1>2, HostStep, Zenon

\* A TLS session is announced.
LEMMA HandshakeStep ==
  ASSUME IInv, NEW s \in Sockets, Handshake(s)
  PROVE  Steps
  <1>1. /\ pc \in {"loop", "sample"} /\ handshakes' = handshakes \cup {s}
        /\ UNCHANGED <<config, pc, batch, ses, candidates, scan, phase, ring, lost>>
    BY Zenon DEF Handshake, HostMoves
  <1>2. ControlInv /\ HostInv /\ RunInv
    BY <1>1, Zenon DEF IInv
  <1>3. Queue' = Queue
    BY <1>1, Zenon DEF Queue
  <1>4. ControlInv' /\ HostInv' /\ RunInv'
    <2>1. ControlInv'
      BY <1>1, <1>2, Zenon DEF ControlInv
    <2>2. HostInv'
      BY <1>1, <1>2, <1>3, Zenon DEF HostInv
    <2>3. RunInv'
      BY <1>1, <1>2, <1>3, Zenon DEF RunInv
    <2> QED BY <2>1, <2>2, <2>3, Zenon
  <1>5. RowsGoOn(ses.T, ses'.T)
    BY <1>1, Zenon DEF RowsGoOn, RowGoesOn
  <1> QED BY <1>1, <1>4, <1>5, Zenon DEF IInv, Steps

-----------------------------------------------------------------------------
(* The theorems *)

\* The invariant holds when run() begins: nothing is tracked, queued or reported.
LEMMA InitHolds ==
  ASSUME Init
  PROVE  IInv
  <1>1. /\ config \in Configs /\ ring = <<>> /\ lost = FALSE /\ handshakes = {}
        /\ pc \in {"sample", "loop"} /\ (~config.exact => pc = "loop")
        /\ batch = <<>> /\ ses = EmptySession /\ candidates = <<>> /\ scan = NoScan
        /\ phase \in [Sockets -> {"none", "open", "gone"}]
    BY Zenon DEF Init
  <1>2. ControlInv
    BY <1>1, Zenon DEF ControlInv, NoScan
  <1>3. Queue = <<>>
    BY <1>1 DEF Queue
  <1>4. HostInv
    <2>1. QueueInv(Queue, phase)
      BY <1>3 DEF QueueInv
    <2>2. phase \in [Sockets -> {"none", "open", "tail", "gone"}]
      BY <1>1, Zenon
    <2>3. <<>> \in Seq(EventSpace) /\ DOMAIN <<>> = {}
      OBVIOUS
    <2>4. ~scan.inner
      BY <1>1, Zenon DEF NoScan
    <2>5. \A key \in DOMAIN candidates : candidates[key] \in Sockets
      BY <1>1, <2>3, Zenon
    <2> QED BY <1>1, <1>3, <2>1, <2>2, <2>3, <2>4, <2>5, Zenon DEF HostInv
  <1>5. /\ IsTracker(ses.T) /\ ses.T.rows = <<>> /\ ses.T.conns = <<>> /\ ses.T.index = <<>>
        /\ IsSession(ses) /\ ses.requests = <<>>
        /\ ses.active = {} /\ ses.pending = {} /\ ses.dispatched = {} /\ ses.sessions = {}
    BY <1>1, Zenon DEF EmptySession, EmptyTracker, IsTracker, IsSession
  <1>6. DOMAIN <<>> = {} /\ <<>> \in Seq(RowSpace)
    OBVIOUS
  <1>7. Ids(ses.T) = {} /\ Unended(ses.T) = {}
    BY <1>5, <1>6, Zenon DEF Ids, Unended
  <1>8. TrackerInv(config.platform, ses.T)
    BY <1>5, <1>6, <1>7, Zenon DEF TrackerInv
  <1>9. SessionInv(config.platform, ses)
    BY <1>5, <1>6, <1>7, <1>8, Zenon DEF SessionInv
  <1>10. ASSUME NEW s \in Alone
         PROVE  /\ RecordsInv(ses.T, Queue, phase, s)
                /\ PollingInv(config, ses.T, scan.todo, pc = "snapshot", phase, s)
    BY <1>5, <1>6, Zenon DEF RecordsInv, PollingInv, Kept
  <1>11. RunInv
    BY <1>9, <1>10, Zenon DEF RunInv, Order
  <1> QED BY <1>1, <1>2, <1>4, <1>11, Zenon DEF IInv

\* It holds while nothing happens.
LEMMA StutterStep ==
  ASSUME IInv, UNCHANGED vars
  PROVE  Steps
  <1>1. UNCHANGED <<config, phase, ring, lost, handshakes, pc, batch, ses, candidates, scan>>
    BY Zenon DEF vars, world
  <1>2. ControlInv'
    BY <1>1, Zenon DEF IInv, ControlInv
  <1>3. Queue' = Queue
    BY <1>1, Zenon DEF Queue
  <1>4. HostInv'
    BY <1>1, <1>3, Zenon DEF IInv, HostInv
  <1>5. CASE pc = "stopped"
    <2>1. HistoryAgrees /\ CompletionAccounted /\ RecordIsTheSockets
      BY <1>5, Zenon DEF IInv
    <2>0. Rows' = Rows /\ Tracked' = Tracked
      BY ONLY <1>1, Zenon DEF Rows, Tracked
    <2>2. HistoryAgrees'
      BY ONLY <1>1, <2>0, <2>1, Zenon DEF HistoryAgrees
    <2>3. CompletionAccounted'
      BY ONLY <1>1, <2>0, <2>1, Zenon DEF CompletionAccounted
    <2>4. RecordIsTheSockets'
      <3>1. OneRecord'
        BY ONLY <1>1, <2>0, <2>1, ZenonT(30) DEF RecordIsTheSockets, OneRecord
      <3>2. EvidenceBelongs'
        BY ONLY <1>1, <2>0, <2>1, Zenon DEF RecordIsTheSockets, EvidenceBelongs
      <3> QED BY <3>1, <3>2, Zenon DEF RecordIsTheSockets
    <2> QED BY <1>1, <1>2, <1>4, <1>5, <2>2, <2>3, <2>4, Zenon DEF IInv, Steps, RowsGoOn, RowGoesOn
  <1>6. CASE pc # "stopped"
    <2>1. RunInv
      BY <1>6, Zenon DEF IInv
    <2>2. RunInv'
      BY <1>1, <1>3, <2>1, Zenon DEF RunInv
    <2> QED BY <1>1, <1>2, <1>4, <1>6, <2>2, Zenon DEF IInv, Steps, RowsGoOn, RowGoesOn
  <1> QED BY <1>5, <1>6, Zenon

\* Every step keeps the invariant and what is settled in the rows.
LEMMA NextSteps ==
  ASSUME IInv, [Next]_vars
  PROVE  Steps
  <1>1. CASE Poll BY <1>1, PollStep, Zenon
  <1>2. CASE HandleEvent BY <1>2, HandleStep, Zenon
  <1>3. CASE EndEvents BY <1>3, EndEventsStep, Zenon
  <1>4. CASE BeginSample BY <1>4, BeginSampleStep, Zenon
  <1>5. CASE EndSample BY <1>5, EndSampleStep, Zenon
  <1>6. CASE \E s \in Sockets : SeeSocket(s) BY <1>6, SeeSocketStep, Zenon
  <1>7. CASE \E key \in DOMAIN candidates : DropCandidate(key) BY <1>7, DropCandidateStep, Zenon
  <1>8. CASE Stop BY <1>8, StopStep, Zenon
  <1>9. CASE \E s \in Sockets : Open(s) BY <1>9, OpenStep, Zenon
  <1>10. CASE \E s \in Sockets : Handshake(s) BY <1>10, HandshakeStep, Zenon
  <1>11. CASE \E s \in Sockets : Close(s) BY <1>11, CloseStep, Zenon
  <1>12. CASE \E s \in Sockets : Vanish(s) BY <1>12, VanishStep, Zenon
  <1>13. CASE UNCHANGED vars BY <1>13, StutterStep, Zenon
  <1> QED
    BY <1>1, <1>2, <1>3, <1>4, <1>5, <1>6, <1>7, <1>8, <1>9, <1>10, <1>11, <1>12, <1>13
    DEF Next, Run, Host

\* The invariant implies the three properties, while the session runs and when it has
\* stopped.
LEMMA InvariantHolds ==
  ASSUME IInv
  PROVE  HistoryAgrees /\ CompletionAccounted /\ RecordIsTheSockets
  BY RunningHolds, Zenon DEF IInv

\* In every behaviour of the session, for any sockets, tuples, processes,
\* configurations and bounds, the tracker, the scheduler, the requests, the reports,
\* the queue of events and the snapshot under way are in the relation that IInv
\* states.
THEOREM SessionInvariant == Spec => []IInv
  <1>1. Init => IInv
    BY InitHolds, Zenon
  <1>2. IInv /\ [Next]_vars => IInv'
    BY NextSteps, Zenon DEF Steps
  <1> QED BY <1>1, <1>2, PTL DEF Spec

\* observe_lifecycle, observe_socket and end_snapshot never let the tracker's entries,
\* its tuple index, the scheduler and the history disagree.
THEOREM HistoryAlwaysAgrees == Spec => []HistoryAgrees
  <1>1. IInv => HistoryAgrees
    BY InvariantHolds, Zenon
  <1> QED BY <1>1, SessionInvariant, PTL

\* Every ended connection waits to be reported or was, with all of its TLS evidence,
\* and is reported again only for a session that dispatch_completed had not seen.
THEOREM CompletionsAccounted == Spec => []CompletionAccounted
  <1>1. IInv => CompletionAccounted
    BY InvariantHolds, Zenon
  <1> QED BY <1>1, SessionInvariant, PTL

\* While no event was lost each socket has one record at most, but for those given up
\* by end_snapshot, and what a record says is about its own socket.
THEOREM RecordsAreTheSockets == Spec => []RecordIsTheSockets
  <1>1. IInv => RecordIsTheSockets
    BY InvariantHolds, Zenon
  <1> QED BY <1>1, SessionInvariant, PTL

\* No step of the session changes the state, the cookie or the direction of a record
\* that has ended, or a direction that is known.
THEOREM EndedRecordsStay == Spec => EndedForGood
  <1> DEFINE Keeps ==
        \A n \in Rows :
          LET row == ses.T.rows[n]
              next == ses'.T.rows[n]
          IN  /\ row.state \in Ended => /\ next.state = row.state
                                        /\ next.cookie = row.cookie
                                        /\ next.direction = row.direction
              /\ row.direction # "UNKNOWN" => next.direction = row.direction
  <1>1. IInv /\ [Next]_vars => [Keeps]_vars
    <2> SUFFICES ASSUME IInv, [Next]_vars PROVE Keeps
      BY Zenon
    <2>1. RowsGoOn(ses.T, ses'.T)
      BY NextSteps, Zenon DEF Steps
    <2> QED BY <2>1, Zenon DEF RowsGoOn, RowGoesOn, Rows
  <1>2. Spec => [][Keeps]_vars
    BY <1>1, SessionInvariant, PTL DEF Spec
  <1> QED BY <1>2, Zenon DEF EndedForGood

===============================================================================
