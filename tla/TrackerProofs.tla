---------------------------- MODULE TrackerProofs ----------------------------
(***************************************************************************)
(* What each operation of the tracker does to a tracker that is in order,  *)
(* whatever the sockets, their tuples and the platform: the entries, the   *)
(* index and the rows that have not ended correspond, and what an entry is *)
(* found by belongs to a socket with its tuple.  Then what the session     *)
(* makes of the tracker's answers: its collections agree with the rows,    *)
(* the queue of events is in the order of each socket's life, and a socket *)
(* whose tuple is its own has one record.                                  *)
(***************************************************************************)
EXTENDS ObservationSession, TLAPS

-----------------------------------------------------------------------------
(* The invariant of the tracker *)

Directions == {"UNKNOWN", "INBOUND", "OUTBOUND"}
RowSpace ==
  [socket : Sockets, cookie : Sockets \cup {NoSocket}, direction : Directions,
   state : RowStates, about : SUBSET Sockets, tls : SUBSET Sockets,
   route : Directions \cup {"none"}, told : SUBSET (SUBSET Sockets),
   repeated : BOOLEAN]
EntrySpace ==
  [id : Nat, origin : Origins, sampled : BOOLEAN, present : BOOLEAN,
   misses : 0 .. reconciliation_miss_limit]

\* The sockets whose tuple is that of s, in one direction or the other, and the
\* identities that a record of s may have.
Kin(s) == {t \in Sockets : TupleOf[t] \in {TupleOf[s], Reverse(TupleOf[s])}}
IdentitiesOf(s) == ({"p", "f", "c"} \X Kin(s)) \cup {<<"i", TupleOf[s]>>}

RowRight(row) ==
  /\ row.socket \in row.about /\ row.about \cup row.tls \subseteq Kin(row.socket)
  /\ row.cookie \in Kin(row.socket) \cup {NoSocket}
  /\ row.direction \in {"UNKNOWN"} \cup {DirectionOf(t) : t \in Kin(row.socket)}
  /\ row.route \in {"none", "UNKNOWN", row.direction}

IsTracker(T) == DOMAIN T = {"conns", "index", "rows"}
Ids(T) == {T.conns[i].id : i \in DOMAIN T.conns}
Unended(T) == {n \in DOMAIN T.rows : T.rows[n].state \notin Ended}

\* The entry i is of the record id.
Tracks(T, i, id) == i \in DOMAIN T.conns /\ id = T.conns[i].id

EntryRight(p, T, i, id) ==
  /\ T.conns[i] \in EntrySpace /\ id \in DOMAIN T.rows
  /\ T.index[i] = KeyOf(p, TupleOf[T.rows[id].socket], T.rows[id].socket, TRUE)
  /\ i \in IdentitiesOf(T.rows[id].socket)

TrackerInv(p, T) ==
  /\ IsTracker(T)
  /\ T.rows \in Seq(RowSpace) /\ \A n \in DOMAIN T.rows : RowRight(T.rows[n])
  /\ DOMAIN T.index = DOMAIN T.conns
  /\ \A i \in DOMAIN T.conns : EntryRight(p, T, i, T.conns[i].id)
  /\ \A i, j \in DOMAIN T.conns : T.conns[i].id = T.conns[j].id => i = j
  /\ Ids(T) = Unended(T)

\* What no step may do to a row: the socket it is of, and what has been settled, stay.
RowGoesOn(row, next) ==
  /\ next.socket = row.socket
  /\ row.state \in Ended => /\ next.state = row.state
                            /\ next.cookie = row.cookie
                            /\ next.direction = row.direction
  /\ row.direction # "UNKNOWN" => next.direction = row.direction
RowsGoOn(T, U) ==
  /\ DOMAIN T.rows \subseteq DOMAIN U.rows
  /\ \A n \in DOMAIN T.rows : RowGoesOn(T.rows[n], U.rows[n])

\* What only the session writes.
Noted(row) == <<row.tls, row.told, row.repeated, row.route>>

-----------------------------------------------------------------------------
(* Sockets and tuples *)

\* A socket is kin to itself, kinship goes both ways, and a socket whose tuple nobody
\* else has is alone.
LEMMA KinFacts ==
  ASSUME NEW s \in Sockets
  PROVE  /\ s \in Kin(s)
         /\ Kin(s) \subseteq Sockets
         /\ s \in Alone => Kin(s) = {s}
         /\ \A t \in Sockets : t \in Kin(s) => s \in Kin(t)
  <1>1. ASSUME NEW t \in Sockets, TupleOf[t] = Reverse(TupleOf[s])
        PROVE  TupleOf[s] = Reverse(TupleOf[t])
    BY <1>1, SocketsAssumption DEF Reverse
  <1> QED
    BY <1>1, Zenon DEF Kin, Alone

\* The record of an entry exists, is right and has not ended: what the map of
\* connections leads to in the history.
LEMMA RowOfEntry ==
  ASSUME NEW p, NEW T, TrackerInv(p, T), NEW i, NEW id, Tracks(T, i, id)
  PROVE  /\ EntryRight(p, T, i, id) /\ id \in DOMAIN T.rows
         /\ T.rows[id] \in RowSpace /\ RowRight(T.rows[id])
         /\ T.rows[id].state \notin Ended /\ T.rows[id].socket \in Sockets
  <1>1. EntryRight(p, T, i, id)
    BY Zenon DEF TrackerInv, Tracks
  <1>2. id \in DOMAIN T.rows /\ RowRight(T.rows[id])
    BY <1>1, Zenon DEF TrackerInv, EntryRight
  <1>3. T.rows[id] \in RowSpace
    BY <1>2 DEF TrackerInv
  <1>4. id \in Unended(T)
    BY Zenon DEF TrackerInv, Ids, Tracks
  <1> QED BY <1>1, <1>2, <1>3, <1>4, Zenon DEF RowSpace, Unended

\* The tuple index leads to a connection of a socket with that tuple or its reverse
\* only.
LEMMA UniqueMatchIsKin ==
  ASSUME NEW p, NEW T, TrackerInv(p, T), NEW t \in Sockets, NEW b \in BOOLEAN,
         NEW i, NEW id, Tracks(T, i, id),
         \/ i \in UniqueMatch(T, KeyOf(p, TupleOf[t], t, b))
         \/ i \in UniqueMatch(T, KeyOf(p, Reverse(TupleOf[t]), t, b))
  PROVE  t \in Kin(T.rows[id].socket)
  <1> DEFINE s == T.rows[id].socket
  <1>0. EntryRight(p, T, i, id) /\ s \in Sockets
    BY RowOfEntry, Zenon
  <1>1. s \in Sockets /\ T.index[i] = KeyOf(p, TupleOf[s], s, TRUE)
    BY <1>0, Zenon DEF EntryRight
  <1>2. T.index[i] = KeyOf(p, TupleOf[t], t, b) \/ T.index[i] = KeyOf(p, Reverse(TupleOf[t]), t, b)
    BY Zenon DEF UniqueMatch
  <1> HIDE DEF s
  <1>3. TupleOf[s] \in {TupleOf[t], Reverse(TupleOf[t])}
    BY ONLY <1>1, <1>2, b \in BOOLEAN DEF KeyOf
  <1>4. s \in Kin(t)
    BY <1>1, <1>3, Zenon DEF Kin
  <1>5. t \in Kin(s)
    BY <1>1, <1>4, KinFacts, Zenon
  <1> QED BY <1>5, Zenon DEF s

\* So does an identity: a cookie, a fallback or a platform's own is found under a
\* socket with that tuple.
LEMMA IdentityIsKin ==
  ASSUME NEW p, NEW T, TrackerInv(p, T), NEW t \in Sockets, NEW k \in {"p", "f", "c"},
         NEW i, NEW id, Tracks(T, i, id), i = <<k, t>> \/ i = <<"i", TupleOf[t]>>
  PROVE  t \in Kin(T.rows[id].socket)
  <1> DEFINE s == T.rows[id].socket
  <1>0. EntryRight(p, T, i, id)
    BY RowOfEntry, Zenon
  <1>1. i \in IdentitiesOf(s)
    BY <1>0, Zenon DEF EntryRight
  <1> HIDE DEF s
  <1>2. CASE i \in {"p", "f", "c"} \X Kin(s)
    BY <1>2 DEF s
  <1>3. CASE i = <<"i", TupleOf[s]>>
    BY <1>3, Zenon DEF Kin, s
  <1> QED BY <1>1, <1>2, <1>3, Zenon DEF IdentitiesOf

-----------------------------------------------------------------------------
(* What the tracker's statements do *)

\* T becomes U, and the statement was about the record id.
Continues(p, T, U, id) ==
  /\ TrackerInv(p, U) /\ RowsGoOn(T, U)
  /\ \A n \in DOMAIN T.rows : /\ Noted(U.rows[n]) = Noted(T.rows[n])
                              /\ n # id => U.rows[n] = T.rows[n]
  /\ \A j \in DOMAIN U.conns :
       U.conns[j].id # id => j \in DOMAIN T.conns /\ U.conns[j] = T.conns[j]
SameRecords(T, U) == Ids(U) = Ids(T) /\ DOMAIN U.rows = DOMAIN T.rows

\* Writing and adding rows leaves a sequence of rows.
LEMMA RowsAreSequence ==
  ASSUME NEW rows \in Seq(RowSpace), NEW id \in DOMAIN rows, NEW r \in RowSpace
  PROVE  /\ [rows EXCEPT ![id] = r] \in Seq(RowSpace)
         /\ DOMAIN [rows EXCEPT ![id] = r] = DOMAIN rows
         /\ DOMAIN rows = 1 .. Len(rows) /\ Len(rows) \in Nat
         /\ Append(rows, r) \in Seq(RowSpace)
         /\ DOMAIN Append(rows, r) = DOMAIN rows \cup {Len(rows) + 1}
  OBVIOUS

\* U is T with another row for the entry i, and perhaps another entry in its place.
EntryWritten(T, U, i) ==
  /\ U.index = T.index /\ DOMAIN U.conns = DOMAIN T.conns
  /\ \A j \in DOMAIN U.conns : /\ U.conns[j] \in EntrySpace
                               /\ U.conns[j].id = T.conns[j].id
                               /\ j # i => U.conns[j] = T.conns[j]
RowWritten(T, U, id) ==
  /\ U.rows \in Seq(RowSpace) /\ DOMAIN U.rows = DOMAIN T.rows
  /\ \A n \in DOMAIN T.rows : n # id => U.rows[n] = T.rows[n]
  /\ RowRight(U.rows[id]) /\ U.rows[id].state \notin Ended
  /\ RowGoesOn(T.rows[id], U.rows[id]) /\ Noted(U.rows[id]) = Noted(T.rows[id])

\* A step that writes one entry and its row keeps the invariant and ends no record.
LEMMA Written ==
  ASSUME NEW p, NEW T, NEW U, TrackerInv(p, T), IsTracker(U), NEW i, NEW id,
         Tracks(T, i, id), EntryWritten(T, U, i), RowWritten(T, U, id)
  PROVE  Continues(p, T, U, id) /\ SameRecords(T, U)
  <1>1. id \in DOMAIN T.rows /\ T.rows[id].state \notin Ended
    BY RowOfEntry, Zenon
  <1>2. Ids(U) = Ids(T)
    BY Zenon DEF Ids, EntryWritten
  <1>3. Unended(U) = Unended(T)
    BY <1>1, Zenon DEF Unended, RowWritten
  <1>4. RowsGoOn(T, U)
    <2>1. ASSUME NEW n \in DOMAIN T.rows, n # id PROVE RowGoesOn(T.rows[n], U.rows[n])
      BY <2>1, Zenon DEF RowGoesOn, RowWritten
    <2> QED BY <2>1, Zenon DEF RowsGoOn, RowWritten
  <1>5. \A n \in DOMAIN T.rows : /\ Noted(U.rows[n]) = Noted(T.rows[n])
                                 /\ n # id => U.rows[n] = T.rows[n]
    BY Zenon DEF RowWritten
  <1>6. \A j \in DOMAIN U.conns : U.conns[j].id # id => j \in DOMAIN T.conns /\ U.conns[j] = T.conns[j]
    BY Zenon DEF EntryWritten, Tracks
  <1>7. ASSUME NEW j \in DOMAIN U.conns PROVE EntryRight(p, U, j, U.conns[j].id)
    <2> DEFINE n == U.conns[j].id
    <2>1. EntryRight(p, T, j, n)
      BY Zenon DEF TrackerInv, EntryWritten
    <2>2. U.conns[j] \in EntrySpace /\ U.index[j] = T.index[j]
      BY Zenon DEF EntryWritten
    <2> HIDE DEF n
    <2>3. n \in DOMAIN T.rows /\ U.rows[n].socket = T.rows[n].socket
      BY <1>4, <2>1, Zenon DEF RowsGoOn, RowGoesOn, EntryRight
    <2>4. n \in DOMAIN U.rows
      BY <1>4, <2>3, Zenon DEF RowsGoOn
    <2>5. EntryRight(p, U, j, n)
      BY <2>1, <2>2, <2>3, <2>4, Zenon DEF EntryRight
    <2> QED BY <2>5, Zenon DEF n
  <1>8. \A n \in DOMAIN U.rows : RowRight(U.rows[n])
    BY Zenon DEF RowWritten, TrackerInv
  <1>9. TrackerInv(p, U)
    BY <1>2, <1>3, <1>7, <1>8, Zenon DEF TrackerInv, EntryWritten, RowWritten
  <1> QED BY <1>2, <1>4, <1>5, <1>6, <1>9, Zenon DEF Continues, SameRecords, RowWritten

\* A promotion of the identity of a connection keeps its entry, its record and every
\* other connection.
LEMMA Rekeyed ==
  ASSUME NEW p, NEW T, TrackerInv(p, T), NEW old, NEW id, Tracks(T, old, id),
         NEW new \in IdentitiesOf(T.rows[id].socket), new \notin DOMAIN T.conns
  PROVE  /\ Continues(p, T, Rekey(T, old, new), id)
         /\ SameRecords(T, Rekey(T, old, new))
         /\ Tracks(Rekey(T, old, new), new, id)
         /\ Rekey(T, old, new).conns[new] = T.conns[old]
         /\ Rekey(T, old, new).rows = T.rows
  <1> DEFINE U == Rekey(T, old, new)
             D == (DOMAIN T.conns \ {old}) \cup {new}
  <1>1. /\ IsTracker(U) /\ U.rows = T.rows
        /\ DOMAIN U.conns = D /\ DOMAIN U.index = D
        /\ U.conns[new] = T.conns[old] /\ U.index[new] = T.index[old]
        /\ \A i \in D \ {new} : U.conns[i] = T.conns[i] /\ U.index[i] = T.index[i]
    BY Zenon DEF TrackerInv, IsTracker, Rekey, Tracks
  <1> HIDE DEF U
  <1>2. Ids(U) = Ids(T)
    BY <1>1 DEF Ids, Tracks
  <1>3. RowsGoOn(T, U)
    BY <1>1, Zenon DEF RowsGoOn, RowGoesOn
  <1>4. ASSUME NEW j \in D PROVE EntryRight(p, U, j, U.conns[j].id)
    <2>1. CASE j = new
      <3>1. EntryRight(p, T, old, id) /\ U.conns[j].id = id
        BY <1>1, <2>1, RowOfEntry, Zenon DEF Tracks
      <3> QED BY <1>1, <2>1, <3>1, Zenon DEF EntryRight
    <2>2. CASE j # new
      <3>1. EntryRight(p, T, j, U.conns[j].id)
        BY <1>1, <2>2, Zenon DEF TrackerInv
      <3> QED BY <1>1, <2>2, <3>1, Zenon DEF EntryRight
    <2> QED BY <2>1, <2>2, Zenon
  <1>5. \A i, j \in D : U.conns[i].id = U.conns[j].id => i = j
    BY <1>1 DEF TrackerInv, Tracks
  <1>6. TrackerInv(p, U)
    BY <1>1, <1>2, <1>4, <1>5, Zenon DEF TrackerInv, Unended
  <1>7. \A j \in D : U.conns[j].id # id => j \in DOMAIN T.conns /\ U.conns[j] = T.conns[j]
    BY <1>1, Zenon DEF Tracks
  <1> QED BY <1>1, <1>2, <1>3, <1>6, <1>7, Zenon DEF Continues, SameRecords, U, Tracks

\* U is T with the entry i removed and its row ended.
RowClosed(T, U, id) ==
  /\ U.rows \in Seq(RowSpace) /\ DOMAIN U.rows = DOMAIN T.rows
  /\ \A n \in DOMAIN T.rows : n # id => U.rows[n] = T.rows[n]
  /\ RowRight(U.rows[id]) /\ U.rows[id].state \in Ended
  /\ RowGoesOn(T.rows[id], U.rows[id]) /\ Noted(U.rows[id]) = Noted(T.rows[id])
EntryGone(T, U, i) ==
  /\ DOMAIN U.conns = DOMAIN T.conns \ {i} /\ DOMAIN U.index = DOMAIN T.conns \ {i}
  /\ \A j \in DOMAIN U.conns : U.conns[j] = T.conns[j] /\ U.index[j] = T.index[j]

\* A step that takes an entry out and ends its row keeps the invariant: the record,
\* and no other, is ended.
LEMMA Removed ==
  ASSUME NEW p, NEW T, NEW U, TrackerInv(p, T), IsTracker(U), NEW i, NEW id,
         Tracks(T, i, id), EntryGone(T, U, i), RowClosed(T, U, id)
  PROVE  /\ Continues(p, T, U, id)
         /\ Ids(U) = Ids(T) \ {id} /\ id \in Ids(T) /\ DOMAIN U.rows = DOMAIN T.rows
  <1>1. id \in DOMAIN T.rows /\ T.rows[id].state \notin Ended
    BY RowOfEntry, Zenon
  <1>2. Ids(U) = Ids(T) \ {id} /\ id \in Ids(T)
    BY DEF Ids, EntryGone, Tracks, TrackerInv
  <1>3. Unended(U) = Unended(T) \ {id}
    BY <1>1, Zenon DEF Unended, RowClosed
  <1>4. RowsGoOn(T, U)
    <2>1. ASSUME NEW n \in DOMAIN T.rows, n # id PROVE RowGoesOn(T.rows[n], U.rows[n])
      BY <2>1, Zenon DEF RowGoesOn, RowClosed
    <2> QED BY <2>1, Zenon DEF RowsGoOn, RowClosed
  <1>5. \A n \in DOMAIN T.rows : /\ Noted(U.rows[n]) = Noted(T.rows[n])
                                 /\ n # id => U.rows[n] = T.rows[n]
    BY Zenon DEF RowClosed
  <1>6. \A j \in DOMAIN U.conns : U.conns[j].id # id => j \in DOMAIN T.conns /\ U.conns[j] = T.conns[j]
    BY Zenon DEF EntryGone
  <1>7. ASSUME NEW j \in DOMAIN U.conns PROVE EntryRight(p, U, j, U.conns[j].id)
    <2> DEFINE n == U.conns[j].id
    <2>1. EntryRight(p, T, j, n)
      BY Zenon DEF TrackerInv, EntryGone
    <2>2. U.conns[j] = T.conns[j] /\ U.index[j] = T.index[j]
      BY Zenon DEF EntryGone
    <2> HIDE DEF n
    <2>3. n \in DOMAIN T.rows /\ n \in DOMAIN U.rows /\ U.rows[n].socket = T.rows[n].socket
      BY <1>4, <2>1, Zenon DEF RowsGoOn, RowGoesOn, EntryRight
    <2>4. EntryRight(p, U, j, n)
      BY <2>1, <2>2, <2>3, Zenon DEF EntryRight
    <2> QED BY <2>4, Zenon DEF n
  <1>8. \A n \in DOMAIN U.rows : RowRight(U.rows[n])
    BY Zenon DEF RowClosed, TrackerInv
  <1>9. TrackerInv(p, U)
    BY <1>2, <1>3, <1>7, <1>8, Zenon DEF TrackerInv, EntryGone, RowClosed
  <1> QED BY <1>2, <1>4, <1>5, <1>6, <1>9, Zenon DEF Continues, RowClosed

\* A row that was just begun.
FreshRow(row) ==
  /\ row \in RowSpace /\ RowRight(row) /\ row.state \notin Ended
  /\ Noted(row) = <<{}, {}, FALSE, "none">>

\* U is T with a row and an entry for it.
RowAdded(T, U, id, row) ==
  /\ U.rows \in Seq(RowSpace) /\ id \in Nat /\ id # 0 /\ id \notin DOMAIN T.rows
  /\ DOMAIN U.rows = DOMAIN T.rows \cup {id} /\ U.rows[id] = row
  /\ \A n \in DOMAIN T.rows : U.rows[n] = T.rows[n]
EntryAdded(p, T, U, identity, id, s) ==
  /\ identity \notin DOMAIN T.conns /\ identity \in IdentitiesOf(s)
  /\ DOMAIN U.conns = DOMAIN T.conns \cup {identity}
  /\ DOMAIN U.index = DOMAIN T.conns \cup {identity}
  /\ U.conns[identity] \in EntrySpace /\ U.conns[identity].id = id
  /\ U.index[identity] = KeyOf(p, TupleOf[s], s, TRUE)
  /\ \A j \in DOMAIN T.conns : U.conns[j] = T.conns[j] /\ U.index[j] = T.index[j]

OneMore(p, T, U, identity, id) ==
  /\ Continues(p, T, U, id) /\ Tracks(U, identity, id)
  /\ Ids(U) = Ids(T) \cup {id} /\ DOMAIN U.rows = DOMAIN T.rows \cup {id}

\* A step that adds an entry and its row keeps the invariant, and the row is the last.
LEMMA Added ==
  ASSUME NEW p, NEW T, TrackerInv(p, T), NEW U, IsTracker(U), NEW identity, NEW id,
         NEW row, FreshRow(row), RowAdded(T, U, id, row),
         EntryAdded(p, T, U, identity, id, row.socket)
  PROVE  OneMore(p, T, U, identity, id)
  <1>1. Ids(U) = Ids(T) \cup {id}
    BY DEF Ids, EntryAdded
  <1>2. Unended(U) = Unended(T) \cup {id}
    BY Zenon DEF Unended, FreshRow, RowAdded
  <1>3. RowsGoOn(T, U)
    BY Zenon DEF RowsGoOn, RowGoesOn, RowAdded
  <1>4. \A j \in DOMAIN T.conns : T.conns[j].id \in DOMAIN T.rows
    BY Zenon DEF TrackerInv, EntryRight
  <1>5. ASSUME NEW j \in DOMAIN U.conns PROVE EntryRight(p, U, j, U.conns[j].id)
    <2>1. CASE j = identity
      <3>1. EntryRight(p, U, identity, id)
        BY Zenon DEF EntryRight, EntryAdded, RowAdded
      <3> QED BY <2>1, <3>1, Zenon DEF EntryAdded
    <2>2. CASE j # identity
      <3> DEFINE n == U.conns[j].id
      <3>1. j \in DOMAIN T.conns /\ U.conns[j] = T.conns[j] /\ U.index[j] = T.index[j]
        BY <2>2, Zenon DEF EntryAdded
      <3>2. EntryRight(p, T, j, n)
        BY <3>1, Zenon DEF TrackerInv
      <3> HIDE DEF n
      <3>3. n \in DOMAIN T.rows /\ n \in DOMAIN U.rows /\ U.rows[n] = T.rows[n]
        BY <3>2, Zenon DEF EntryRight, RowAdded
      <3>4. EntryRight(p, U, j, n)
        BY <3>1, <3>2, <3>3, Zenon DEF EntryRight
      <3> QED BY <3>4, Zenon DEF n
    <2> QED BY <2>1, <2>2, Zenon
  <1>6. \A i, j \in DOMAIN U.conns : U.conns[i].id = U.conns[j].id => i = j
    <2>1. id \notin DOMAIN T.rows
      BY Zenon DEF RowAdded
    <2> QED BY <1>4, <2>1 DEF TrackerInv, EntryAdded
  <1>7. \A n \in DOMAIN U.rows : RowRight(U.rows[n])
    BY Zenon DEF TrackerInv, FreshRow, RowAdded
  <1>8. DOMAIN U.index = DOMAIN U.conns /\ U.rows \in Seq(RowSpace)
    BY Zenon DEF EntryAdded, RowAdded
  <1>9. TrackerInv(p, U)
    BY <1>1, <1>2, <1>5, <1>6, <1>7, <1>8, Zenon DEF TrackerInv
  <1>10. \A n \in DOMAIN T.rows : Noted(U.rows[n]) = Noted(T.rows[n]) /\ U.rows[n] = T.rows[n]
    BY Zenon DEF RowAdded
  <1>11. \A j \in DOMAIN U.conns : U.conns[j].id # id => j \in DOMAIN T.conns /\ U.conns[j] = T.conns[j]
    BY Zenon DEF EntryAdded
  <1>12. Continues(p, T, U, id)
    BY <1>3, <1>9, <1>10, <1>11, Zenon DEF Continues
  <1> QED BY <1>1, <1>12, Zenon DEF OneMore, Tracks, RowAdded, EntryAdded

Begun(p, T, U, identity, id, entry, row) ==
  /\ IsTracker(U) /\ RowAdded(T, U, id, row)
  /\ EntryAdded(p, T, U, identity, id, row.socket)
  /\ U.conns[identity] = [entry EXCEPT !.id = id]

\* Begin adds one entry, indexed by the key of its socket, and one row.
LEMMA BeginAdds ==
  ASSUME NEW p, NEW T, TrackerInv(p, T), NEW identity, identity \notin DOMAIN T.conns,
         NEW entry \in EntrySpace, NEW row, FreshRow(row),
         identity \in IdentitiesOf(row.socket)
  PROVE  Begun(p, T, Begin(T, identity, KeyOf(p, TupleOf[row.socket], row.socket, TRUE),
                           entry, row), identity, Len(T.rows) + 1, entry, row)
  <1> DEFINE key == KeyOf(p, TupleOf[row.socket], row.socket, TRUE)
             U == Begin(T, identity, key, entry, row)
             id == Len(T.rows) + 1
  <1>0. T.rows \in Seq(RowSpace) /\ row \in RowSpace
    BY Zenon DEF TrackerInv, FreshRow
  <1>1. /\ IsTracker(U) /\ U.rows = Append(T.rows, row)
        /\ DOMAIN U.conns = DOMAIN T.conns \cup {identity}
        /\ DOMAIN U.index = DOMAIN T.conns \cup {identity}
        /\ U.conns[identity] = [entry EXCEPT !.id = id] /\ U.index[identity] = key
        /\ \A j \in DOMAIN T.conns : U.conns[j] = T.conns[j] /\ U.index[j] = T.index[j]
    BY Zenon DEF TrackerInv, IsTracker, Begin
  <1> HIDE DEF U
  <1>2. RowAdded(T, U, id, row)
    <2>1. /\ Append(T.rows, row) \in Seq(RowSpace) /\ id \in Nat /\ id # 0
          /\ id \notin DOMAIN T.rows
          /\ DOMAIN Append(T.rows, row) = DOMAIN T.rows \cup {id}
          /\ Append(T.rows, row)[id] = row
          /\ \A n \in DOMAIN T.rows : Append(T.rows, row)[n] = T.rows[n]
      BY ONLY <1>0
    <2> QED BY <1>1, <2>1, Zenon DEF RowAdded
  <1>3. id \in Nat
    BY ONLY <1>0
  <1> HIDE DEF id
  <1>4. U.conns[identity] \in EntrySpace /\ U.conns[identity].id = id
    BY ONLY <1>1, <1>3, entry \in EntrySpace, Zenon DEF EntrySpace
  <1>5. EntryAdded(p, T, U, identity, id, row.socket)
    BY <1>1, <1>4, Zenon DEF EntryAdded
  <1> QED BY <1>1, <1>2, <1>5, Zenon DEF U, id, Begun

-----------------------------------------------------------------------------
(* The tracker's answers *)

\* U is T with r for the row id.
OnRow(T, U, id, r) ==
  /\ IsTracker(U) /\ U.conns = T.conns /\ U.index = T.index
  /\ U.rows \in Seq(RowSpace) /\ DOMAIN U.rows = DOMAIN T.rows
  /\ U.rows[id] = r /\ \A n \in DOMAIN T.rows : n # id => U.rows[n] = T.rows[n]

\* Writing one row writes nothing else.
LEMMA PutRow ==
  ASSUME NEW T, IsTracker(T), T.rows \in Seq(RowSpace), NEW id \in DOMAIN T.rows,
         NEW r \in RowSpace
  PROVE  OnRow(T, [T EXCEPT !.rows[id] = r], id, r)
  <1>1. [T.rows EXCEPT ![id] = r] \in Seq(RowSpace)
    BY RowsAreSequence, Zenon
  <1>2. [T EXCEPT !.rows[id] = r].rows = [T.rows EXCEPT ![id] = r]
    BY Zenon DEF IsTracker
  <1>3. /\ IsTracker([T EXCEPT !.rows[id] = r])
        /\ [T EXCEPT !.rows[id] = r].conns = T.conns
        /\ [T EXCEPT !.rows[id] = r].index = T.index
    BY Zenon DEF IsTracker
  <1> QED BY <1>1, <1>2, <1>3, Zenon DEF OnRow

\* Updates of one row.
LEMMA RowAbout ==
  ASSUME NEW row \in RowSpace, RowRight(row), NEW t \in Kin(row.socket)
  PROVE  LET r == [row EXCEPT !.about = @ \cup {t}] IN
         /\ r \in RowSpace /\ RowRight(r) /\ RowGoesOn(row, r) /\ Noted(r) = Noted(row)
         /\ r.state = row.state /\ r.cookie = row.cookie /\ r.direction = row.direction
         /\ r.socket = row.socket
  <1> DEFINE r == [row EXCEPT !.about = @ \cup {t}]
  <1>1. t \in Sockets
    BY Zenon DEF Kin
  <1>2. /\ r \in RowSpace /\ r.about = row.about \cup {t} /\ r.socket = row.socket
        /\ r.state = row.state /\ r.cookie = row.cookie /\ r.direction = row.direction
        /\ r.tls = row.tls /\ r.told = row.told /\ r.repeated = row.repeated /\ r.route = row.route
    BY <1>1, Zenon DEF RowSpace
  <1> HIDE DEF r
  <1>3. RowRight(r) /\ RowGoesOn(row, r) /\ Noted(r) = Noted(row)
    BY <1>2, Zenon DEF RowRight, RowGoesOn, Noted
  <1> QED BY <1>2, <1>3, Zenon DEF r

\* A row that has not ended may change its state.
LEMMA RowState ==
  ASSUME NEW row \in RowSpace, RowRight(row), row.state \notin Ended, NEW state \in RowStates
  PROVE  LET r == [row EXCEPT !.state = state] IN
         /\ r \in RowSpace /\ RowRight(r) /\ RowGoesOn(row, r) /\ Noted(r) = Noted(row)
         /\ r.state = state /\ r.cookie = row.cookie /\ r.direction = row.direction
         /\ r.socket = row.socket
  <1> DEFINE r == [row EXCEPT !.state = state]
  <1>2. /\ r \in RowSpace /\ r.about = row.about /\ r.socket = row.socket
        /\ r.state = state /\ r.cookie = row.cookie /\ r.direction = row.direction
        /\ r.tls = row.tls /\ r.told = row.told /\ r.repeated = row.repeated /\ r.route = row.route
    BY Zenon DEF RowSpace
  <1> HIDE DEF r
  <1>3. RowRight(r) /\ RowGoesOn(row, r) /\ Noted(r) = Noted(row)
    BY <1>2, Zenon DEF RowRight, RowGoesOn, Noted
  <1> QED BY <1>2, <1>3, Zenon DEF r

\* A row that has not ended may learn a cookie, HistoryStore::update_socket_cookie.
LEMMA RowCookie ==
  ASSUME NEW row \in RowSpace, RowRight(row), row.state \notin Ended, NEW t \in Kin(row.socket)
  PROVE  LET r == [row EXCEPT !.cookie = t] IN
         /\ r \in RowSpace /\ RowRight(r) /\ RowGoesOn(row, r) /\ Noted(r) = Noted(row)
         /\ r.state = row.state /\ r.direction = row.direction /\ r.socket = row.socket
  <1> DEFINE r == [row EXCEPT !.cookie = t]
  <1>1. t \in Sockets
    BY Zenon DEF Kin
  <1>2. /\ r \in RowSpace /\ r.about = row.about /\ r.socket = row.socket
        /\ r.state = row.state /\ r.cookie = t /\ r.direction = row.direction
        /\ r.tls = row.tls /\ r.told = row.told /\ r.repeated = row.repeated /\ r.route = row.route
    BY <1>1, Zenon DEF RowSpace
  <1> HIDE DEF r
  <1>3. RowRight(r) /\ RowGoesOn(row, r) /\ Noted(r) = Noted(row)
    BY <1>2, Zenon DEF RowRight, RowGoesOn, Noted
  <1> QED BY <1>2, <1>3, Zenon DEF r

\* A row that has not ended may learn its direction, which EnrichConnection writes
\* only if it was unknown.
LEMMA RowDirection ==
  ASSUME NEW row \in RowSpace, RowRight(row), row.state \notin Ended, NEW t \in Kin(row.socket)
  PROVE  LET r == [row EXCEPT !.direction = IF row.direction = "UNKNOWN" THEN DirectionOf(t) ELSE @] IN
         /\ r \in RowSpace /\ RowRight(r) /\ RowGoesOn(row, r) /\ Noted(r) = Noted(row)
         /\ r.state = row.state /\ r.socket = row.socket
         /\ r.direction = IF row.direction = "UNKNOWN" THEN DirectionOf(t) ELSE row.direction
  <1> DEFINE d == IF row.direction = "UNKNOWN" THEN DirectionOf(t) ELSE row.direction
             r == [row EXCEPT !.direction = d]
  <1>1. d \in Directions
    BY Zenon DEF RowSpace, DirectionOf, Directions
  <1>2. /\ r \in RowSpace /\ r.about = row.about /\ r.socket = row.socket
        /\ r.state = row.state /\ r.cookie = row.cookie /\ r.direction = d
        /\ r.tls = row.tls /\ r.told = row.told /\ r.repeated = row.repeated /\ r.route = row.route
    BY <1>1, Zenon DEF RowSpace
  <1> HIDE DEF r
  <1>3. RowRight(r) /\ RowGoesOn(row, r) /\ Noted(r) = Noted(row)
    BY <1>2, Zenon DEF RowRight, RowGoesOn, Noted
  <1> QED BY <1>2, <1>3, Zenon DEF r

\* Erasing a connection erases its entry and its place in the index and nothing else.
LEMMA ForgetShape ==
  ASSUME NEW T, IsTracker(T), NEW i
  PROVE  LET U == Forget(T, i) IN
         /\ IsTracker(U) /\ U.rows = T.rows
         /\ DOMAIN U.conns = DOMAIN T.conns \ {i} /\ DOMAIN U.index = DOMAIN T.index \ {i}
         /\ \A j \in DOMAIN T.conns \ {i} : U.conns[j] = T.conns[j]
         /\ \A j \in DOMAIN T.index \ {i} : U.index[j] = T.index[j]
  BY Zenon DEF Forget, IsTracker, Restrict

\* U is T with e for the entry i.
OnEntry(T, U, i, e) ==
  /\ IsTracker(U) /\ U.rows = T.rows /\ U.index = T.index
  /\ DOMAIN U.conns = DOMAIN T.conns /\ U.conns[i] = e
  /\ \A j \in DOMAIN T.conns : j # i => U.conns[j] = T.conns[j]

\* Writing one entry writes nothing else.
LEMMA PutEntry ==
  ASSUME NEW T, IsTracker(T), NEW i \in DOMAIN T.conns, NEW e
  PROVE  OnEntry(T, [T EXCEPT !.conns[i] = e], i, e)
  BY Zenon DEF IsTracker, OnEntry

\* Adding a sample or an event to a record writes that record.
LEMMA AttachPuts ==
  ASSUME NEW T, IsTracker(T), T.rows \in Seq(RowSpace), NEW id \in DOMAIN T.rows,
         RowRight(T.rows[id]), NEW t \in Kin(T.rows[id].socket)
  PROVE  OnRow(T, Attach(T, id, t), id, [T.rows[id] EXCEPT !.about = @ \cup {t}])
  <1> DEFINE r == [T.rows[id] EXCEPT !.about = @ \cup {t}]
  <1>1. T.rows[id] \in RowSpace
    OBVIOUS
  <1>2. r \in RowSpace
    BY <1>1, RowAbout, Zenon
  <1>3. Attach(T, id, t) = [T EXCEPT !.rows[id] = r]
    BY Zenon DEF Attach
  <1> HIDE DEF r
  <1>4. OnRow(T, [T EXCEPT !.rows[id] = r], id, r)
    BY <1>2, PutRow, Zenon
  <1> QED BY <1>3, <1>4, Zenon DEF r

\* Updating the state of a record writes that record.
LEMMA TouchPuts ==
  ASSUME NEW T, IsTracker(T), T.rows \in Seq(RowSpace), NEW id \in DOMAIN T.rows,
         NEW state \in RowStates
  PROVE  OnRow(T, Touch(T, id, state), id, [T.rows[id] EXCEPT !.state = state])
  <1> DEFINE r == [T.rows[id] EXCEPT !.state = state]
  <1>1. T.rows[id] \in RowSpace
    OBVIOUS
  <1>2. r \in RowSpace
    BY <1>1, Zenon DEF RowSpace
  <1>3. Touch(T, id, state) = [T EXCEPT !.rows[id] = r]
    BY Zenon DEF Touch, IsTracker
  <1> HIDE DEF r
  <1>4. OnRow(T, [T EXCEPT !.rows[id] = r], id, r)
    BY <1>2, PutRow, Zenon
  <1> QED BY <1>3, <1>4, Zenon DEF r

\* update_socket_cookie writes one record.
LEMMA SetCookiePuts ==
  ASSUME NEW T, IsTracker(T), T.rows \in Seq(RowSpace), NEW id \in DOMAIN T.rows,
         NEW t \in Sockets
  PROVE  OnRow(T, SetCookie(T, id, t), id, [T.rows[id] EXCEPT !.cookie = t])
  <1> DEFINE r == [T.rows[id] EXCEPT !.cookie = t]
  <1>1. T.rows[id] \in RowSpace
    OBVIOUS
  <1>2. r \in RowSpace
    BY <1>1, Zenon DEF RowSpace
  <1>3. SetCookie(T, id, t) = [T EXCEPT !.rows[id] = r]
    BY Zenon DEF SetCookie, IsTracker
  <1> HIDE DEF r
  <1>4. OnRow(T, [T EXCEPT !.rows[id] = r], id, r)
    BY <1>2, PutRow, Zenon
  <1> QED BY <1>3, <1>4, Zenon DEF r

HasClosed(p, T, A, id) ==
  /\ A.id = id /\ A.closed = TRUE /\ A.new = FALSE /\ A.promoted = FALSE
  /\ Continues(p, T, A.T, id)
  /\ Ids(A.T) = Ids(T) \ {id} /\ id \in Ids(T) /\ DOMAIN A.T.rows = DOMAIN T.rows
  /\ A.T.rows[id].state = "CLOSED"

\* CloseConnection ends the record of the entry it erases and keeps what else is known
\* of it.
LEMMA CloseRemoves ==
  ASSUME NEW p, NEW T, TrackerInv(p, T), NEW i, NEW id, Tracks(T, i, id),
         NEW event, event.socket \in Kin(T.rows[id].socket)
  PROVE  HasClosed(p, T, CloseConnection(T, i, event), id)
  <1> DEFINE t == event.socket
             T1 == Attach(T, id, t)
             r1 == [T.rows[id] EXCEPT !.about = @ \cup {t}]
             T2 == Touch(T1, id, "CLOSED")
             r2 == [T1.rows[id] EXCEPT !.state = "CLOSED"]
             U == Forget(T2, i)
             A == CloseConnection(T, i, event)
  <1>1. A = [Admission(U, id) EXCEPT !.closed = TRUE]
    BY Zenon DEF CloseConnection, Tracks
  <1>2. A.T = U /\ A.id = id /\ A.closed = TRUE /\ A.new = FALSE /\ A.promoted = FALSE
    BY ONLY <1>1, Zenon DEF Admission, Nothing
  <1>3. /\ IsTracker(T) /\ T.rows \in Seq(RowSpace) /\ id \in DOMAIN T.rows
        /\ T.rows[id] \in RowSpace /\ RowRight(T.rows[id]) /\ T.rows[id].state \notin Ended
    BY RowOfEntry, Zenon DEF TrackerInv
  <1> HIDE DEF A, U, T2, T1
  <1>4. OnRow(T, T1, id, r1)
    BY <1>3, AttachPuts, Zenon DEF T1
  <1>5. /\ r1 \in RowSpace /\ RowRight(r1) /\ RowGoesOn(T.rows[id], r1)
        /\ Noted(r1) = Noted(T.rows[id]) /\ r1.state = T.rows[id].state
    BY <1>3, RowAbout, Zenon
  <1> HIDE DEF r1
  <1>0. "CLOSED" \in RowStates /\ "CLOSED" \in Ended
    BY Zenon DEF RowStates, Ended
  <1>6. OnRow(T1, T2, id, r2)
    <2>1. IsTracker(T1) /\ T1.rows \in Seq(RowSpace) /\ id \in DOMAIN T1.rows
      BY <1>3, <1>4, Zenon DEF OnRow
    <2> QED BY <1>0, <2>1, TouchPuts, Zenon DEF T2
  <1>7. T1.rows[id] = r1
    BY <1>4, Zenon DEF OnRow
  <1>8. /\ r2 \in RowSpace /\ RowRight(r2) /\ RowGoesOn(r1, r2)
        /\ Noted(r2) = Noted(r1) /\ r2.state = "CLOSED"
    BY <1>0, <1>3, <1>5, <1>7, RowState, Zenon
  <1> HIDE DEF r2
  <1>9. RowGoesOn(T.rows[id], r2)
    BY <1>3, <1>5, <1>8, Zenon DEF RowGoesOn
  <1>10. /\ IsTracker(U) /\ U.rows = T2.rows
         /\ DOMAIN U.conns = DOMAIN T2.conns \ {i} /\ DOMAIN U.index = DOMAIN T2.index \ {i}
         /\ \A j \in DOMAIN T2.conns \ {i} : U.conns[j] = T2.conns[j]
         /\ \A j \in DOMAIN T2.index \ {i} : U.index[j] = T2.index[j]
    BY <1>6, ForgetShape, Zenon DEF U, OnRow
  <1>11. T2.conns = T.conns /\ T2.index = T.index /\ DOMAIN T.index = DOMAIN T.conns
    BY <1>4, <1>6, Zenon DEF OnRow, TrackerInv
  <1>12. EntryGone(T, U, i)
    BY <1>10, <1>11, Zenon DEF EntryGone
  <1>13. U.rows[id] = r2 /\ U.rows \in Seq(RowSpace) /\ DOMAIN U.rows = DOMAIN T.rows
    BY <1>4, <1>6, <1>10, Zenon DEF OnRow
  <1>14. \A n \in DOMAIN T.rows : n # id => U.rows[n] = T.rows[n]
    BY <1>4, <1>6, <1>10, Zenon DEF OnRow
  <1>15. RowClosed(T, U, id)
    BY <1>0, <1>5, <1>8, <1>9, <1>13, <1>14, Zenon DEF RowClosed
  <1>16. Continues(p, T, U, id) /\ Ids(U) = Ids(T) \ {id} /\ id \in Ids(T)
    BY <1>10, <1>12, <1>15, Removed, Zenon
  <1> QED BY <1>2, <1>8, <1>13, <1>16, Zenon DEF A, HasClosed

HasEnriched(p, T, A, id, d) ==
  /\ A.id = id /\ A.closed = FALSE /\ A.new = FALSE /\ A.promoted \in BOOLEAN
  /\ Continues(p, T, A.T, id) /\ SameRecords(T, A.T)
  /\ A.T.rows[id].direction = IF A.promoted THEN d ELSE T.rows[id].direction

\* EnrichConnection writes one entry and its record, whose direction is known
\* afterwards.
LEMMA EnrichWrites ==
  ASSUME NEW p, NEW T, TrackerInv(p, T), NEW i, NEW id, Tracks(T, i, id),
         NEW event, event.socket \in Kin(T.rows[id].socket)
  PROVE  HasEnriched(p, T, EnrichConnection(T, i, event, DirectionOf(event.socket)), id,
                     DirectionOf(event.socket))
  <1> DEFINE t == event.socket
             d == DirectionOf(t)
             T1 == Attach(T, id, t)
             r1 == [T.rows[id] EXCEPT !.about = @ \cup {t}]
             origin == IF T.conns[i].sampled THEN "LIFECYCLE_PLUS_SNAPSHOT" ELSE "LIFECYCLE"
             e == [T1.conns[i] EXCEPT !.origin = origin]
             T2 == [T1 EXCEPT !.conns[i] = e]
             unknown == T.rows[id].direction = "UNKNOWN"
             r2 == [T2.rows[id] EXCEPT !.direction = IF unknown THEN d ELSE @]
             U == [T2 EXCEPT !.rows[id] = r2]
             A == EnrichConnection(T, i, event, d)
  <1>0. T.conns[i].id = id /\ i \in DOMAIN T.conns
    BY Zenon DEF Tracks
  <1>1. A = [Admission(U, id) EXCEPT !.promoted = unknown]
    BY <1>0, ZenonT(30) DEF EnrichConnection
  <1>2. A.T = U /\ A.id = id /\ A.closed = FALSE /\ A.new = FALSE /\ A.promoted = unknown
    BY ONLY <1>1, Zenon DEF Admission, Nothing
  <1>3. /\ IsTracker(T) /\ T.rows \in Seq(RowSpace) /\ id \in DOMAIN T.rows
        /\ T.rows[id] \in RowSpace /\ RowRight(T.rows[id]) /\ T.rows[id].state \notin Ended
    BY RowOfEntry, Zenon DEF TrackerInv
  <1>20. T.conns[i] \in EntrySpace
    BY RowOfEntry, Zenon DEF EntryRight
  <1> HIDE DEF A, U, T2, T1, e, r2, unknown
  <1>4. OnRow(T, T1, id, r1)
    BY <1>3, AttachPuts, Zenon DEF T1
  <1>5. /\ r1 \in RowSpace /\ RowRight(r1) /\ RowGoesOn(T.rows[id], r1)
        /\ Noted(r1) = Noted(T.rows[id]) /\ r1.state = T.rows[id].state
        /\ r1.direction = T.rows[id].direction /\ r1.socket = T.rows[id].socket
    BY <1>3, RowAbout, Zenon
  <1> HIDE DEF r1
  <1>6. OnEntry(T1, T2, i, e)
    <2>1. IsTracker(T1) /\ i \in DOMAIN T1.conns
      BY <1>0, <1>4, Zenon DEF OnRow
    <2> QED BY <2>1, PutEntry, Zenon DEF T2
  <1>7. T1.conns[i] = T.conns[i]
    BY <1>4, Zenon DEF OnRow
  <1>8. origin \in {"LIFECYCLE", "LIFECYCLE_PLUS_SNAPSHOT"}
    <2>1. CASE T.conns[i].sampled
      BY ONLY <2>1, Zenon
    <2>2. CASE ~T.conns[i].sampled
      BY ONLY <2>2, Zenon
    <2> QED BY ONLY <2>1, <2>2, Zenon
  <1> HIDE DEF origin
  <1>9. e \in EntrySpace /\ e.id = T.conns[i].id /\ e.origin = origin
    BY <1>20, <1>7, <1>8, Zenon DEF e, EntrySpace, Origins
  <1>10. T2.rows[id] = r1 /\ T2.rows \in Seq(RowSpace) /\ id \in DOMAIN T2.rows
    BY <1>3, <1>4, <1>6, Zenon DEF OnRow, OnEntry
  <1>11. r2 = [r1 EXCEPT !.direction = IF r1.direction = "UNKNOWN" THEN DirectionOf(t) ELSE @]
    BY <1>5, <1>10, Zenon DEF r2, unknown
  <1>12. /\ r2 \in RowSpace /\ RowRight(r2) /\ RowGoesOn(r1, r2) /\ Noted(r2) = Noted(r1)
         /\ r2.state = r1.state
         /\ r2.direction = IF r1.direction = "UNKNOWN" THEN DirectionOf(t) ELSE r1.direction
    BY <1>3, <1>5, <1>11, RowDirection, Zenon
  <1>13. OnRow(T2, U, id, r2)
    <2>1. IsTracker(T2)
      BY <1>6, Zenon DEF OnEntry
    <2> QED BY <2>1, <1>10, <1>12, PutRow, Zenon DEF U
  <1>14. EntryWritten(T, U, i)
    <2>1. U.index = T.index
      BY <1>4, <1>6, <1>13, Zenon DEF OnRow, OnEntry
    <2>2. DOMAIN U.conns = DOMAIN T.conns /\ U.conns[i] = e
      BY <1>4, <1>6, <1>13, Zenon DEF OnRow, OnEntry
    <2>3. \A j \in DOMAIN T.conns : j # i => U.conns[j] = T.conns[j]
      BY <1>4, <1>6, <1>13, Zenon DEF OnRow, OnEntry
    <2>4. \A j \in DOMAIN T.conns : T.conns[j] \in EntrySpace
      BY Zenon DEF TrackerInv, EntryRight
    <2> QED BY <1>9, <2>1, <2>2, <2>3, <2>4, Zenon DEF EntryWritten
  <1>15. RowWritten(T, U, id)
    <2>1. U.rows[id] = r2 /\ U.rows \in Seq(RowSpace) /\ DOMAIN U.rows = DOMAIN T.rows
      BY <1>4, <1>6, <1>13, Zenon DEF OnRow, OnEntry
    <2>2. \A n \in DOMAIN T.rows : n # id => U.rows[n] = T.rows[n]
      BY <1>4, <1>6, <1>13, Zenon DEF OnRow, OnEntry
    <2>3. RowGoesOn(T.rows[id], r2)
      BY <1>5, <1>12, Zenon DEF RowGoesOn
    <2>4. Noted(r2) = Noted(T.rows[id]) /\ r2.state \notin Ended
      BY <1>3, <1>5, <1>12, Zenon
    <2> QED BY <1>12, <2>1, <2>2, <2>3, <2>4, Zenon DEF RowWritten
  <1>16. Continues(p, T, U, id) /\ SameRecords(T, U)
    BY <1>13, <1>14, <1>15, Written, Zenon DEF OnRow
  <1>17. U.rows[id].direction = IF unknown THEN d ELSE T.rows[id].direction
    BY <1>5, <1>12, <1>13, Zenon DEF OnRow, unknown
  <1>18. unknown \in BOOLEAN
    BY Zenon DEF unknown
  <1> QED BY <1>2, <1>16, <1>17, <1>18, Zenon DEF A, HasEnriched

\* The record id of T has the entry i, and that of U the same one, which may be j now.
Moved(p, T, U, i, j, id) ==
  /\ Continues(p, T, U, id) /\ SameRecords(T, U)
  /\ Tracks(U, j, id) /\ U.conns[j] = T.conns[i]
  /\ U.rows[id].direction = T.rows[id].direction /\ U.rows[id].socket = T.rows[id].socket

\* Two steps on one record make one.
LEMMA ContinuesTwice ==
  ASSUME NEW p, NEW T, NEW U, NEW V, NEW id, Continues(p, T, U, id), Continues(p, U, V, id)
  PROVE  Continues(p, T, V, id)
  <1>1. RowsGoOn(T, V)
    <2>1. DOMAIN T.rows \subseteq DOMAIN V.rows
      BY Zenon DEF Continues, RowsGoOn
    <2>2. ASSUME NEW n \in DOMAIN T.rows PROVE RowGoesOn(T.rows[n], V.rows[n])
      <3>1. RowGoesOn(T.rows[n], U.rows[n]) /\ RowGoesOn(U.rows[n], V.rows[n])
        BY Zenon DEF Continues, RowsGoOn
      <3> QED BY <3>1, Zenon DEF RowGoesOn
    <2> QED BY <2>1, <2>2, Zenon DEF RowsGoOn
  <1>2. \A n \in DOMAIN T.rows : /\ Noted(V.rows[n]) = Noted(T.rows[n])
                                 /\ n # id => V.rows[n] = T.rows[n]
    <2> TAKE n \in DOMAIN T.rows
    <2>1. n \in DOMAIN U.rows
      BY Zenon DEF Continues, RowsGoOn
    <2> QED BY <2>1, Zenon DEF Continues
  <1>3. \A j \in DOMAIN V.conns : V.conns[j].id # id => j \in DOMAIN T.conns /\ V.conns[j] = T.conns[j]
    BY Zenon DEF Continues
  <1>4. TrackerInv(p, V)
    BY Zenon DEF Continues
  <1> QED BY <1>1, <1>2, <1>3, <1>4, Zenon DEF Continues

\* Changing the identity of a connection moves its entry to the new one.
LEMMA RekeyMoves ==
  ASSUME NEW p, NEW T, TrackerInv(p, T), NEW i, NEW id, Tracks(T, i, id),
         NEW new \in IdentitiesOf(T.rows[id].socket), new \notin DOMAIN T.conns
  PROVE  Moved(p, T, Rekey(T, i, new), i, new, id)
  BY Rekeyed DEF Moved

\* So does promoting a fallback identity to the cookie, which is written to the record
\* as well.
LEMMA PromoteMoves ==
  ASSUME NEW p, NEW T, TrackerInv(p, T), NEW i, NEW id, Tracks(T, i, id),
         NEW t \in Kin(T.rows[id].socket), NEW new \in IdentitiesOf(T.rows[id].socket),
         new \notin DOMAIN T.conns
  PROVE  Moved(p, T, PromoteCookie(T, i, new, t), i, new, id)
  <1> DEFINE T1 == SetCookie(T, id, t)
             r1 == [T.rows[id] EXCEPT !.cookie = t]
             U == Rekey(T1, i, new)
  <1>1. PromoteCookie(T, i, new, t) = U
    BY Zenon DEF PromoteCookie, Tracks
  <1>2. /\ IsTracker(T) /\ T.rows \in Seq(RowSpace) /\ id \in DOMAIN T.rows
        /\ T.rows[id] \in RowSpace /\ RowRight(T.rows[id]) /\ T.rows[id].state \notin Ended
    BY RowOfEntry, Zenon DEF TrackerInv
  <1>3. t \in Sockets
    BY Zenon DEF Kin
  <1> HIDE DEF U, T1
  <1>4. OnRow(T, T1, id, r1)
    BY <1>2, <1>3, SetCookiePuts, Zenon DEF T1
  <1>5. /\ r1 \in RowSpace /\ RowRight(r1) /\ RowGoesOn(T.rows[id], r1)
        /\ Noted(r1) = Noted(T.rows[id]) /\ r1.state = T.rows[id].state
        /\ r1.direction = T.rows[id].direction /\ r1.socket = T.rows[id].socket
    BY <1>2, RowCookie, Zenon
  <1> HIDE DEF r1
  <1>6. EntryWritten(T, T1, i)
    <2>1. \A j \in DOMAIN T.conns : T.conns[j] \in EntrySpace
      BY Zenon DEF TrackerInv, EntryRight
    <2> QED BY <1>4, <2>1, Zenon DEF EntryWritten, OnRow
  <1>7. RowWritten(T, T1, id)
    BY <1>2, <1>4, <1>5, Zenon DEF RowWritten, OnRow
  <1>8. Continues(p, T, T1, id) /\ SameRecords(T, T1) /\ IsTracker(T1)
    BY <1>4, <1>6, <1>7, Written, Zenon DEF OnRow
  <1>9. TrackerInv(p, T1) /\ Tracks(T1, i, id)
    BY <1>4, <1>8, Zenon DEF Continues, Tracks, OnRow
  <1>10. new \in IdentitiesOf(T1.rows[id].socket) /\ new \notin DOMAIN T1.conns
    BY <1>4, <1>5, Zenon DEF OnRow
  <1>11. Moved(p, T1, U, i, new, id)
    BY <1>9, <1>10, RekeyMoves, Zenon DEF U
  <1>12. Continues(p, T, U, id)
    BY <1>8, <1>11, ContinuesTwice, Zenon DEF Moved
  <1>13. SameRecords(T, U)
    BY <1>8, <1>11, Zenon DEF SameRecords, Moved
  <1>14. /\ U.conns[new] = T.conns[i] /\ U.rows[id].direction = T.rows[id].direction
         /\ U.rows[id].socket = T.rows[id].socket
    BY <1>4, <1>5, <1>11, Zenon DEF OnRow, Moved
  <1>15. Moved(p, T, U, i, new, id)
    BY <1>11, <1>12, <1>13, <1>14, Zenon DEF Moved
  <1> QED BY <1>1, <1>15, Zenon

\* A connection that keeps its identity is where it was.
LEMMA StaysMoved ==
  ASSUME NEW p, NEW T, TrackerInv(p, T), NEW i, NEW id, Tracks(T, i, id)
  PROVE  Moved(p, T, T, i, i, id)
  BY Zenon DEF Moved, Continues, SameRecords, RowsGoOn, RowGoesOn

\* What a sample of the socket t leaves at the entry of the record id.
Sampled(T, U, i, id) ==
  /\ Tracks(U, i, id) /\ U.conns[i].present = TRUE
  /\ snapshot_owned(T.conns[i]) => snapshot_owned(U.conns[i])

HasSampled(p, T, A, i, id) ==
  /\ A.id = id /\ A.closed = FALSE /\ A.new = FALSE /\ A.promoted = FALSE
  /\ Continues(p, T, A.T, id) /\ SameRecords(T, A.T)
  /\ A.T.rows[id].direction = T.rows[id].direction
  /\ Sampled(T, A.T, i, id)

\* persist_sample writes one entry, which is present and has no misses then, and its
\* record.
LEMMA PersistWrites ==
  ASSUME NEW p, NEW T, TrackerInv(p, T), NEW i, NEW id, Tracks(T, i, id),
         NEW t, t \in Kin(T.rows[id].socket)
  PROVE  HasSampled(p, T, PersistSample(T, i, t), i, id)
  <1> DEFINE T1 == Attach(T, id, t)
             r1 == [T.rows[id] EXCEPT !.about = @ \cup {t}]
             e == [T.conns[i] EXCEPT !.sampled = TRUE, !.present = TRUE,
                     !.origin = IF @ = "LIFECYCLE" THEN "LIFECYCLE_PLUS_SNAPSHOT" ELSE @]
             T2 == [T1 EXCEPT !.conns[i] = e]
             r2 == [T2.rows[id] EXCEPT !.state = "ACTIVE"]
             U == Touch(T2, id, "ACTIVE")
             A == PersistSample(T, i, t)
  <1>0. T.conns[i].id = id /\ i \in DOMAIN T.conns
    BY Zenon DEF Tracks
  <1>1. A = Admission(U, id)
    BY <1>0, Zenon DEF PersistSample
  <1>2. A.T = U /\ A.id = id /\ A.closed = FALSE /\ A.new = FALSE /\ A.promoted = FALSE
    BY ONLY <1>1, Zenon DEF Admission, Nothing
  <1>3. /\ IsTracker(T) /\ T.rows \in Seq(RowSpace) /\ id \in DOMAIN T.rows
        /\ T.rows[id] \in RowSpace /\ RowRight(T.rows[id]) /\ T.rows[id].state \notin Ended
    BY RowOfEntry, Zenon DEF TrackerInv
  <1>20. T.conns[i] \in EntrySpace
    BY RowOfEntry, Zenon DEF EntryRight
  <1>9. /\ e \in EntrySpace /\ e.id = T.conns[i].id /\ e.present = TRUE
        /\ snapshot_owned(T.conns[i]) => snapshot_owned(e)
    BY ONLY <1>20, Zenon DEF EntrySpace, Origins, snapshot_owned
  <1>21. "ACTIVE" \in RowStates /\ "ACTIVE" \notin Ended
    BY Zenon DEF RowStates, Ended
  <1> HIDE DEF A, U, T2, T1, e, r2
  <1>4. OnRow(T, T1, id, r1)
    BY <1>3, AttachPuts, Zenon DEF T1
  <1>5. /\ r1 \in RowSpace /\ RowRight(r1) /\ RowGoesOn(T.rows[id], r1)
        /\ Noted(r1) = Noted(T.rows[id]) /\ r1.state = T.rows[id].state
        /\ r1.direction = T.rows[id].direction /\ r1.socket = T.rows[id].socket
    BY <1>3, RowAbout, Zenon
  <1> HIDE DEF r1
  <1>6. OnEntry(T1, T2, i, e)
    <2>1. IsTracker(T1) /\ i \in DOMAIN T1.conns
      BY <1>0, <1>4, Zenon DEF OnRow
    <2> QED BY <2>1, PutEntry, Zenon DEF T2
  <1>10. T2.rows[id] = r1 /\ T2.rows \in Seq(RowSpace) /\ id \in DOMAIN T2.rows
    BY <1>3, <1>4, <1>6, Zenon DEF OnRow, OnEntry
  <1>11. r2 = [r1 EXCEPT !.state = "ACTIVE"] /\ r1.state \notin Ended
    BY <1>3, <1>5, <1>10, Zenon DEF r2
  <1>12. /\ r2 \in RowSpace /\ RowRight(r2) /\ RowGoesOn(r1, r2) /\ Noted(r2) = Noted(r1)
         /\ r2.state = "ACTIVE" /\ r2.direction = r1.direction
    BY <1>5, <1>11, <1>21, RowState, Zenon
  <1>13. OnRow(T2, U, id, r2)
    <2>1. IsTracker(T2)
      BY <1>6, Zenon DEF OnEntry
    <2> QED BY <2>1, <1>10, <1>21, TouchPuts, Zenon DEF U, r2
  <1>14. EntryWritten(T, U, i)
    <2>1. U.index = T.index
      BY <1>4, <1>6, <1>13, Zenon DEF OnRow, OnEntry
    <2>2. DOMAIN U.conns = DOMAIN T.conns /\ U.conns[i] = e
      BY <1>4, <1>6, <1>13, Zenon DEF OnRow, OnEntry
    <2>3. \A j \in DOMAIN T.conns : j # i => U.conns[j] = T.conns[j]
      BY <1>4, <1>6, <1>13, Zenon DEF OnRow, OnEntry
    <2>4. \A j \in DOMAIN T.conns : T.conns[j] \in EntrySpace
      BY Zenon DEF TrackerInv, EntryRight
    <2> QED BY <1>9, <2>1, <2>2, <2>3, <2>4, Zenon DEF EntryWritten
  <1>15. RowWritten(T, U, id)
    <2>1. U.rows[id] = r2 /\ U.rows \in Seq(RowSpace) /\ DOMAIN U.rows = DOMAIN T.rows
      BY <1>4, <1>6, <1>13, Zenon DEF OnRow, OnEntry
    <2>2. \A n \in DOMAIN T.rows : n # id => U.rows[n] = T.rows[n]
      BY <1>4, <1>6, <1>13, Zenon DEF OnRow, OnEntry
    <2>3. RowGoesOn(T.rows[id], r2)
      BY <1>3, <1>5, <1>12, Zenon DEF RowGoesOn
    <2>4. Noted(r2) = Noted(T.rows[id]) /\ r2.state \notin Ended
      BY <1>5, <1>12, <1>21, Zenon
    <2> QED BY <1>12, <2>1, <2>2, <2>3, <2>4, Zenon DEF RowWritten
  <1>16. Continues(p, T, U, id) /\ SameRecords(T, U)
    BY <1>13, <1>14, <1>15, Written, Zenon DEF OnRow
  <1>17. U.rows[id].direction = T.rows[id].direction
    BY <1>5, <1>12, <1>13, Zenon DEF OnRow
  <1>18. Sampled(T, U, i, id)
    BY <1>0, <1>4, <1>6, <1>9, <1>13, Zenon DEF OnRow, OnEntry, Tracks, Sampled
  <1> QED BY <1>2, <1>16, <1>17, <1>18, Zenon DEF A, HasSampled

-----------------------------------------------------------------------------
(* What the tracker answers to an event or a sample of the socket t *)

EventSpace == [type : {"ACCEPT", "CONNECT", "CLOSE"}, socket : Sockets]

AnswerNew(T, A, t, d) ==
  /\ A.new = TRUE /\ A.id \notin DOMAIN T.rows
  /\ DOMAIN A.T.rows = DOMAIN T.rows \cup {A.id} /\ Ids(A.T) = Ids(T) \cup {A.id}
  /\ FreshRow(A.T.rows[A.id])
  /\ A.T.rows[A.id].socket = t /\ A.T.rows[A.id].direction = d
AnswerClosed(T, A, t) ==
  /\ A.new = FALSE /\ A.promoted = FALSE /\ A.closed = TRUE
  /\ A.id \in Ids(T) /\ t \in Kin(T.rows[A.id].socket)
  /\ Ids(A.T) = Ids(T) \ {A.id} /\ DOMAIN A.T.rows = DOMAIN T.rows
  /\ A.T.rows[A.id].state = "CLOSED"
AnswerKept(T, A, t, d) ==
  /\ A.new = FALSE /\ A.closed = FALSE /\ SameRecords(T, A.T)
  /\ A.id \in Ids(T) /\ t \in Kin(T.rows[A.id].socket)
  /\ A.promoted \in BOOLEAN
  /\ A.T.rows[A.id].direction = IF A.promoted THEN d ELSE T.rows[A.id].direction
Answer(p, T, A, t, d) ==
  \/ A = Nothing(T)
  \/ /\ Continues(p, T, A.T, A.id)
     /\ AnswerNew(T, A, t, d) \/ AnswerClosed(T, A, t) \/ AnswerKept(T, A, t, d)

\* The identity of an event names the socket of the event.
LEMMA EventIdentityKind ==
  ASSUME NEW p, NEW event
  PROVE  \E k \in {"p", "f", "c"} : EventIdentity(p, event) = <<k, event.socket>>
  BY Zenon DEF EventIdentity

\* An event matches a connection of its own socket, or of one with its tuple or the
\* reverse; the identity it is then given is free.
LEMMA EventMatchIsKin ==
  ASSUME NEW p, NEW T, TrackerInv(p, T), NEW event \in EventSpace,
         NEW i \in EventMatch(p, T, event), NEW id, id = T.conns[i].id
  PROVE  /\ Tracks(T, i, id) /\ event.socket \in Kin(T.rows[id].socket)
         /\ i # EventIdentity(p, event) => EventIdentity(p, event) \notin DOMAIN T.conns
  <1> DEFINE t == event.socket
             identity == EventIdentity(p, event)
             b == t \in Attributed
             forward == UniqueMatch(T, KeyOf(p, TupleOf[t], t, b))
             backward == UniqueMatch(T, KeyOf(p, Reverse(TupleOf[t]), t, b))
  <1>1. t \in Sockets /\ b \in BOOLEAN
    BY DEF EventSpace
  <1>2. CASE identity \in DOMAIN T.conns
    <2>1. i = identity
      BY <1>2, Zenon DEF EventMatch
    <2>2. Tracks(T, i, id)
      BY <1>2, <2>1, Zenon DEF Tracks
    <2>3. PICK k \in {"p", "f", "c"} : i = <<k, t>>
      BY <2>1, EventIdentityKind, Zenon
    <2> QED BY <1>1, <2>1, <2>2, <2>3, IdentityIsKin, Zenon
  <1>3. CASE identity \notin DOMAIN T.conns
    <2>1. i \in forward \/ i \in backward
      BY <1>3, Zenon DEF EventMatch
    <2>2. Tracks(T, i, id)
      BY <2>1, Zenon DEF Tracks, UniqueMatch
    <2> HIDE DEF b
    <2> QED BY <1>1, <1>3, <2>1, <2>2, UniqueMatchIsKin, Zenon
  <1> QED BY <1>2, <1>3, Zenon

\* Giving a connection the identity of its event moves its entry.
LEMMA WithIdentityMoves ==
  ASSUME NEW p, NEW T, TrackerInv(p, T), NEW event, NEW i, NEW id, Tracks(T, i, id),
         event.socket \in Kin(T.rows[id].socket),
         i # EventIdentity(p, event) => EventIdentity(p, event) \notin DOMAIN T.conns
  PROVE  Moved(p, T, WithEventIdentity(p, T, i, event)[1], i,
               WithEventIdentity(p, T, i, event)[2], id)
  <1> DEFINE identity == EventIdentity(p, event)
             W == WithEventIdentity(p, T, i, event)
  <1>1. identity \in IdentitiesOf(T.rows[id].socket)
    BY EventIdentityKind DEF IdentitiesOf
  <1>2. CASE W = <<T, i>>
    BY <1>2, StaysMoved
  <1>3. CASE i # identity /\ W = <<Rekey(T, i, identity), identity>>
    BY <1>1, <1>3, RekeyMoves
  <1>4. CASE i # identity /\ W = <<PromoteCookie(T, i, identity, event.socket), identity>>
    BY <1>1, <1>4, PromoteMoves
  <1> QED BY <1>2, <1>3, <1>4, Zenon DEF WithEventIdentity

\* The row of a new connection is about its socket alone and has not ended.
LEMMA RowIsFresh ==
  ASSUME NEW t \in Sockets, NEW cookie \in {t, NoSocket},
         NEW d \in {"UNKNOWN", DirectionOf(t)}, NEW state \in RowStates \ Ended
  PROVE  LET r == Row(t, cookie, d, state)
         IN  FreshRow(r) /\ r.socket = t /\ r.direction = d /\ r.state = state
  <1> DEFINE r == Row(t, cookie, d, state)
  <1>1. t \in Kin(t) /\ d \in Directions
    BY KinFacts, Zenon DEF Directions, DirectionOf
  <1>2. /\ r \in RowSpace /\ r.about = {t} /\ r.socket = t /\ r.state = state
        /\ r.cookie = cookie /\ r.direction = d /\ r.tls = {} /\ r.told = {}
        /\ r.repeated = FALSE
        /\ r.route = "none"
    BY <1>1, Zenon DEF Row, RowSpace
  <1> HIDE DEF r
  <1>3. RowRight(r) /\ Noted(r) = <<{}, {}, FALSE, "none">>
    BY <1>1, <1>2, Zenon DEF RowRight, Noted
  <1> QED BY <1>2, <1>3, Zenon DEF FreshRow, r

\* A record begins, with the entry for it.
HasBegun(p, T, A, t, d, identity, entry, row) ==
  /\ Continues(p, T, A.T, A.id) /\ AnswerNew(T, A, t, d)
  /\ Tracks(A.T, identity, A.id) /\ A.T.rows[A.id] = row
  /\ A.T.conns[identity] = [entry EXCEPT !.id = A.id]

\* What the tracker answers when it begins a connection: a new record, of that socket.
LEMMA BeginAnswers ==
  ASSUME NEW p, NEW T, TrackerInv(p, T), NEW t \in Sockets, NEW d, NEW identity,
         identity \notin DOMAIN T.conns, identity \in IdentitiesOf(t),
         NEW entry \in EntrySpace, NEW row, FreshRow(row), row.socket = t, row.direction = d
  PROVE  HasBegun(p, T,
           [Admission(Begin(T, identity, KeyOf(p, TupleOf[t], t, TRUE), entry, row),
                      Len(T.rows) + 1) EXCEPT !.new = TRUE],
           t, d, identity, entry, row)
  <1> DEFINE U == Begin(T, identity, KeyOf(p, TupleOf[t], t, TRUE), entry, row)
             id == Len(T.rows) + 1
             A == [Admission(U, id) EXCEPT !.new = TRUE]
  <1>1. A.T = U /\ A.id = id /\ A.new = TRUE
    BY ONLY TRUE, Zenon DEF Admission, Nothing
  <1>2. Begun(p, T, U, identity, id, entry, row)
    BY BeginAdds, Zenon
  <1> HIDE DEF U, A, id
  <1>3. OneMore(p, T, U, identity, id)
    <2>1. /\ IsTracker(U) /\ RowAdded(T, U, id, row)
          /\ EntryAdded(p, T, U, identity, id, row.socket)
      BY <1>2, Zenon DEF Begun
    <2> QED BY ONLY TrackerInv(p, T), FreshRow(row), <2>1, Added, Zenon
  <1>4. id \notin DOMAIN T.rows /\ U.rows[id] = row
    BY <1>2, Zenon DEF RowAdded, Begun
  <1>5. AnswerNew(T, A, t, d)
    BY <1>1, <1>3, <1>4, Zenon DEF AnswerNew, OneMore
  <1>6. Continues(p, T, A.T, A.id) /\ Tracks(A.T, identity, A.id) /\ A.T.rows[A.id] = row
    BY <1>1, <1>3, <1>4, Zenon DEF OneMore
  <1>7. A.T.conns[identity] = [entry EXCEPT !.id = A.id]
    BY <1>1, <1>2, Zenon DEF Begun
  <1> QED BY <1>5, <1>6, <1>7, Zenon DEF A, U, id, HasBegun

Outcome(A, new, closed) == A.new = new /\ A.closed = closed

\* What it answers to a CLOSE of a connection it has, under whatever identity.
LEMMA CloseAnswers ==
  ASSUME NEW p, NEW T, NEW event, NEW i, NEW id, Tracks(T, i, id),
         event.socket \in Kin(T.rows[id].socket),
         NEW U, NEW j, Moved(p, T, U, i, j, id), NEW d
  PROVE  /\ Answer(p, T, CloseConnection(U, j, event), event.socket, d)
         /\ Outcome(CloseConnection(U, j, event), FALSE, TRUE)
  <1> DEFINE A == CloseConnection(U, j, event)
  <1>1. TrackerInv(p, U) /\ Tracks(U, j, id) /\ event.socket \in Kin(U.rows[id].socket)
    BY Zenon DEF Moved, Continues
  <1>2. HasClosed(p, U, A, id)
    BY <1>1, CloseRemoves, Zenon
  <1> HIDE DEF A
  <1>3. Continues(p, T, A.T, A.id)
    BY <1>2, ContinuesTwice, Zenon DEF Moved, HasClosed
  <1>4. AnswerClosed(T, A, event.socket)
    BY <1>2, Zenon DEF AnswerClosed, Moved, SameRecords, HasClosed
  <1>5. Answer(p, T, A, event.socket, d)
    BY <1>3, <1>4, Zenon DEF Answer
  <1>6. Outcome(A, FALSE, TRUE)
    BY <1>2, Zenon DEF HasClosed, Outcome
  <1> QED BY <1>5, <1>6, Zenon DEF A

\* What it answers to a CONNECT, an ACCEPT or a state of a connection it has.
LEMMA EnrichAnswers ==
  ASSUME NEW p, NEW T, NEW event, NEW i, NEW id, Tracks(T, i, id),
         event.socket \in Kin(T.rows[id].socket),
         NEW U, NEW j, Moved(p, T, U, i, j, id), NEW d, d = DirectionOf(event.socket)
  PROVE  /\ Answer(p, T, EnrichConnection(U, j, event, d), event.socket, d)
         /\ Outcome(EnrichConnection(U, j, event, d), FALSE, FALSE)
  <1> DEFINE A == EnrichConnection(U, j, event, d)
  <1>1. TrackerInv(p, U) /\ Tracks(U, j, id) /\ event.socket \in Kin(U.rows[id].socket)
    BY Zenon DEF Moved, Continues
  <1>2. HasEnriched(p, U, A, id, d)
    BY <1>1, EnrichWrites, Zenon
  <1> HIDE DEF A
  <1>3. Continues(p, T, A.T, A.id)
    BY <1>2, ContinuesTwice, Zenon DEF Moved, HasEnriched
  <1>4. AnswerKept(T, A, event.socket, d)
    <2>1. SameRecords(T, A.T) /\ id \in Ids(T)
      BY <1>2, Zenon DEF Moved, SameRecords, Ids, Tracks, HasEnriched
    <2>2. A.T.rows[id].direction = IF A.promoted THEN d ELSE T.rows[id].direction
      BY <1>2, Zenon DEF Moved, HasEnriched
    <2> QED BY <1>2, <2>1, <2>2, Zenon DEF AnswerKept, HasEnriched
  <1>5. Answer(p, T, A, event.socket, d)
    BY <1>3, <1>4, Zenon DEF Answer
  <1>6. Outcome(A, FALSE, FALSE)
    BY <1>2, Zenon DEF HasEnriched, Outcome
  <1> QED BY <1>5, <1>6, Zenon DEF A

\* Whatever observe_lifecycle answers, the invariant is kept; it closes on a CLOSE
\* only, and begins a record only for an event of an attributed process that matched
\* nothing.
LEMMA LifecycleAnswers ==
  ASSUME NEW p, NEW T, TrackerInv(p, T), NEW event \in EventSpace, NEW A,
         A = observe_lifecycle(p, T, event, DirectionOf(event.socket))
  PROVE  /\ Answer(p, T, A, event.socket, DirectionOf(event.socket))
         /\ A.closed = TRUE => event.type = "CLOSE"
         /\ A.new = TRUE => /\ event.type # "CLOSE" /\ event.socket \in Attributed
                            /\ EventMatch(p, T, event) = {}
  <1> DEFINE t == event.socket
             d == DirectionOf(t)
             match == EventMatch(p, T, event)
             i == CHOOSE x \in match : TRUE
             id == T.conns[i].id
             W == WithEventIdentity(p, T, i, event)
             cookie == IF HasCookie(p, event) THEN t ELSE NoSocket
             identity == EventIdentity(p, event)
             entry == Entry("LIFECYCLE", FALSE)
             row == Row(t, cookie, d, "ACTIVE")
             B == Begin(T, identity, KeyOf(p, TupleOf[t], t, TRUE), entry, row)
  <1>0. t \in Sockets
    BY Zenon DEF EventSpace
  <1>1. ASSUME match # {}
        PROVE  Tracks(T, i, id) /\ t \in Kin(T.rows[id].socket) /\ Moved(p, T, W[1], i, W[2], id)
    <2>1. i \in match
      BY <1>1, Zenon
    <2>2. /\ Tracks(T, i, id) /\ t \in Kin(T.rows[id].socket)
          /\ i # identity => identity \notin DOMAIN T.conns
      BY <2>1, EventMatchIsKin, Zenon
    <2> QED BY <2>2, WithIdentityMoves, Zenon
  <1>2. CASE A = Nothing(T)
    BY <1>2 DEF Answer, Nothing
  <1>3. CASE event.type = "CLOSE" /\ match # {} /\ A = CloseConnection(W[1], W[2], event)
    <2> HIDE DEF W, i, match, id
    <2>1. Answer(p, T, A, t, d) /\ Outcome(A, FALSE, TRUE)
      BY <1>1, <1>3, CloseAnswers, Zenon
    <2> QED BY <1>3, <2>1, Zenon DEF Outcome
  <1>4. CASE event.type # "CLOSE" /\ match # {} /\ A = EnrichConnection(W[1], W[2], event, d)
    <2> HIDE DEF W, i, match, id
    <2>1. Answer(p, T, A, t, d) /\ Outcome(A, FALSE, FALSE)
      BY <1>1, <1>4, EnrichAnswers, Zenon
    <2> QED BY <1>4, <2>1, Zenon DEF Outcome
  <1>5. CASE /\ event.type # "CLOSE" /\ match = {} /\ t \in Attributed
             /\ A = [Admission(B, Len(T.rows) + 1) EXCEPT !.new = TRUE]
    <2>1. identity \notin DOMAIN T.conns
      BY <1>5, Zenon DEF EventMatch
    <2>2. identity \in IdentitiesOf(t)
      BY <1>0, EventIdentityKind, KinFacts DEF IdentitiesOf
    <2>3. entry \in EntrySpace
      BY DEF Entry, EntrySpace, Origins, reconciliation_miss_limit
    <2>4. cookie \in {t, NoSocket}
      BY Zenon
    <2>5. "ACTIVE" \in RowStates \ Ended
      BY Zenon DEF RowStates, Ended
    <2>6. FreshRow(row) /\ row.socket = t /\ row.direction = d
      <3> HIDE DEF cookie
      <3> QED BY <1>0, <2>4, <2>5, RowIsFresh
    <2>7. A.new = TRUE /\ A.closed = FALSE
      BY <1>5, Zenon DEF Admission, Nothing
    <2> HIDE DEF entry, row, identity
    <2>8. HasBegun(p, T, A, t, d, identity, entry, row)
      <3>1. HasBegun(p, T, [Admission(B, Len(T.rows) + 1) EXCEPT !.new = TRUE],
                     t, d, identity, entry, row)
        BY <1>0, <2>1, <2>2, <2>3, <2>6, BeginAnswers, Zenon
      <3> QED BY <1>5, <3>1, Zenon
    <2>9. Answer(p, T, A, t, d)
      BY <2>8, Zenon DEF Answer, HasBegun
    <2> QED BY <1>5, <2>7, <2>9, Zenon
  <1> QED BY <1>2, <1>3, <1>4, <1>5, Zenon DEF observe_lifecycle

\* What a sample of t leaves at the entry of the record it was found to be of.
Observed(p, T, A, t) ==
  \A i \in DOMAIN A.T.conns : A.T.conns[i].id = A.id =>
    /\ i = SocketIdentity(p, t) \/ Tracks(T, i, A.id)
    /\ A.T.conns[i].present = TRUE
    /\ \/ snapshot_owned(A.T.conns[i])
       \/ \E j \in DOMAIN T.conns : Tracks(T, j, A.id) /\ ~snapshot_owned(T.conns[j])

AnswersSample(p, T, A, t, d, id) ==
  /\ Answer(p, T, A, t, d) /\ A.new = FALSE /\ A.closed = FALSE
  /\ Observed(p, T, A, t) /\ A.id = id

\* What the tracker answers when it persists a sample of a connection it has.
LEMMA SampleAnswers ==
  ASSUME NEW p, NEW T, NEW i, NEW id, Tracks(T, i, id), NEW t, t \in Kin(T.rows[id].socket),
         NEW U, NEW j, Moved(p, T, U, i, j, id), i = j \/ j = SocketIdentity(p, t), NEW d
  PROVE  AnswersSample(p, T, PersistSample(U, j, t), t, d, id)
  <1> DEFINE A == PersistSample(U, j, t)
  <1>1. TrackerInv(p, U) /\ Tracks(U, j, id) /\ t \in Kin(U.rows[id].socket)
    BY Zenon DEF Moved, Continues
  <1>2. HasSampled(p, U, A, j, id)
    BY <1>1, PersistWrites, Zenon
  <1> HIDE DEF A
  <1>3. Continues(p, T, A.T, A.id)
    BY <1>2, ContinuesTwice, Zenon DEF Moved, HasSampled
  <1>4. AnswerKept(T, A, t, d)
    <2>1. SameRecords(T, A.T) /\ id \in Ids(T)
      BY <1>2, Zenon DEF Moved, SameRecords, Ids, Tracks, HasSampled
    <2>2. A.T.rows[id].direction = T.rows[id].direction
      BY <1>2, Zenon DEF Moved, HasSampled
    <2> QED BY <1>2, <2>1, <2>2, Zenon DEF AnswerKept, HasSampled
  <1>5. Answer(p, T, A, t, d)
    BY <1>3, <1>4, Zenon DEF Answer
  <1>6. A.new = FALSE /\ A.closed = FALSE /\ A.id = id
    BY <1>2, Zenon DEF HasSampled
  <1>7. Observed(p, T, A, t)
    <2> SUFFICES ASSUME NEW x \in DOMAIN A.T.conns, A.T.conns[x].id = A.id
                 PROVE  /\ x = SocketIdentity(p, t) \/ Tracks(T, x, A.id)
                        /\ A.T.conns[x].present = TRUE
                        /\ \/ snapshot_owned(A.T.conns[x])
                           \/ \E y \in DOMAIN T.conns : Tracks(T, y, A.id) /\ ~snapshot_owned(T.conns[y])
      BY Zenon DEF Observed
    <2>1. Tracks(A.T, j, id) /\ TrackerInv(p, A.T)
      BY <1>2, <1>3, Zenon DEF HasSampled, Sampled, Continues
    <2>2. x = j
      BY <1>6, <2>1, Zenon DEF TrackerInv, Tracks
    <2>3. A.T.conns[j].present = TRUE /\ (snapshot_owned(T.conns[i]) => snapshot_owned(A.T.conns[j]))
      BY <1>2, Zenon DEF HasSampled, Sampled, Moved
    <2>4. i \in DOMAIN T.conns /\ Tracks(T, i, A.id)
      BY <1>6, Zenon DEF Tracks
    <2> QED BY <2>2, <2>3, <2>4, Zenon
  <1> QED BY <1>5, <1>6, <1>7, Zenon DEF A, AnswersSample

\* A sample of t finds the entry that has the identity of t, unless another is the only
\* one with the key of t.
Finds(p, T, t, resolved, A) ==
  /\ SocketIdentity(p, t) \in DOMAIN T.conns
  /\ UniqueMatch(T, KeyOf(p, TupleOf[t], t, resolved)) \subseteq {SocketIdentity(p, t)}
  => Tracks(T, SocketIdentity(p, t), A.id)
AnswersSocket(p, T, t, resolved, A) ==
  /\ Answer(p, T, A, t, "UNKNOWN") /\ A.closed = FALSE /\ Observed(p, T, A, t)
  /\ A.new = TRUE => resolved /\ UniqueMatch(T, KeyOf(p, TupleOf[t], t, TRUE)) = {}
  /\ Finds(p, T, t, resolved, A)

\* Whatever observe_socket answers, the invariant is kept: it closes nothing, begins a
\* record only for an owner that is resolved and if no connection is found by the
\* identity or the key of the socket, and marks the one it finds as present.
LEMMA SocketAnswers ==
  ASSUME NEW p, NEW T, TrackerInv(p, T), NEW t \in Sockets, NEW allow_new,
         NEW origin \in {"PREEXISTING", "AFTER_LOSS"}, NEW resolved \in BOOLEAN, NEW eligible,
         NEW A, A = observe_socket(p, T, t, "UNKNOWN", allow_new, origin, resolved, eligible)
  PROVE  AnswersSocket(p, T, t, resolved, A)
  <1> DEFINE identity == SocketIdentity(p, t)
             match == UniqueMatch(T, KeyOf(p, TupleOf[t], t, resolved))
             i == CHOOSE x \in match : TRUE
             P == PromoteCookie(T, i, identity, t)
             cookie == IF p = "linux" THEN t ELSE NoSocket
             state == IF origin = "PREEXISTING" THEN "PREEXISTING" ELSE "RECONCILED_AFTER_LOSS"
             entry == Entry(origin, TRUE)
             row == Row(t, cookie, "UNKNOWN", state)
             B == Begin(T, identity, KeyOf(p, TupleOf[t], t, TRUE), entry, row)
  <1>1. ASSUME match # {}
        PROVE  /\ Tracks(T, i, T.conns[i].id) /\ t \in Kin(T.rows[T.conns[i].id].socket)
               /\ Moved(p, T, T, i, i, T.conns[i].id)
    <2>1. i \in match
      BY <1>1, Zenon
    <2> HIDE DEF i
    <2>4. i \in DOMAIN T.conns
      BY <2>1, Zenon DEF UniqueMatch
    <2>2. Tracks(T, i, T.conns[i].id)
      BY <2>4, Zenon DEF Tracks
    <2>3. t \in Kin(T.rows[T.conns[i].id].socket)
      BY <2>1, <2>2, UniqueMatchIsKin, Zenon
    <2> QED BY <2>2, <2>3, StaysMoved, Zenon
  <1>2. ASSUME identity \in DOMAIN T.conns
        PROVE  /\ Tracks(T, identity, T.conns[identity].id)
               /\ t \in Kin(T.rows[T.conns[identity].id].socket)
               /\ Moved(p, T, T, identity, identity, T.conns[identity].id)
    <2>1. Tracks(T, identity, T.conns[identity].id)
      BY <1>2, Zenon DEF Tracks
    <2>2. identity = <<"c", t>> \/ identity = <<"i", TupleOf[t]>>
      BY Zenon DEF SocketIdentity
    <2> HIDE DEF identity
    <2>3. t \in Kin(T.rows[T.conns[identity].id].socket)
      BY <2>1, <2>2, IdentityIsKin, Zenon
    <2> QED BY <2>1, <2>3, StaysMoved, Zenon
  <1>3. CASE A = Nothing(T) /\ ~(identity \in DOMAIN T.conns /\ match \subseteq {identity})
    <2>1. A.T = T /\ A.id = 0 /\ A.new = FALSE /\ A.closed = FALSE
      BY <1>3 DEF Nothing
    <2>2. \A x \in DOMAIN T.conns : T.conns[x].id # 0
      <3>1. \A x \in DOMAIN T.conns : T.conns[x].id \in DOMAIN T.rows
        BY Zenon DEF TrackerInv, EntryRight
      <3>2. T.rows \in Seq(RowSpace)
        BY Zenon DEF TrackerInv
      <3>3. 0 \notin DOMAIN T.rows
        BY ONLY <3>2
      <3> QED BY <3>1, <3>3, Zenon
    <2>3. Observed(p, T, A, t)
      BY <2>1, <2>2, Zenon DEF Observed
    <2> QED BY <1>3, <2>1, <2>3, Zenon DEF Answer, AnswersSocket, Finds
  <1>4. CASE identity \in DOMAIN T.conns /\ A = PersistSample(T, identity, t)
    <2> HIDE DEF identity
    <2>1. AnswersSample(p, T, PersistSample(T, identity, t), t, "UNKNOWN", T.conns[identity].id)
      BY <1>2, <1>4, SampleAnswers, Zenon
    <2> QED BY <1>2, <1>4, <2>1, Zenon DEF AnswersSample, identity, AnswersSocket, Finds
  <1>5. CASE identity \notin DOMAIN T.conns /\ match # {} /\ A = PersistSample(T, i, t)
    <2> HIDE DEF i, match
    <2>1. AnswersSample(p, T, PersistSample(T, i, t), t, "UNKNOWN", T.conns[i].id)
      BY <1>1, <1>5, SampleAnswers, Zenon
    <2> QED BY <1>5, <2>1, Zenon DEF AnswersSample, AnswersSocket, Finds
  <1>6. CASE /\ identity \notin DOMAIN T.conns /\ match # {} /\ p = "linux"
             /\ A = PersistSample(P, identity, t)
    <2>1. Tracks(T, i, T.conns[i].id) /\ t \in Kin(T.rows[T.conns[i].id].socket)
      BY <1>1, <1>6, Zenon
    <2>2. identity \in IdentitiesOf(T.rows[T.conns[i].id].socket)
      BY <1>6, <2>1, Zenon DEF IdentitiesOf, SocketIdentity
    <2> HIDE DEF i, identity
    <2>3. Moved(p, T, P, i, identity, T.conns[i].id)
      BY <1>6, <2>1, <2>2, PromoteMoves, Zenon
    <2> HIDE DEF P
    <2>5. identity = SocketIdentity(p, t)
      BY Zenon DEF identity
    <2>4. AnswersSample(p, T, PersistSample(P, identity, t), t, "UNKNOWN", T.conns[i].id)
      BY <2>1, <2>3, <2>5, SampleAnswers, Zenon
    <2> QED BY <1>6, <2>4, Zenon DEF AnswersSample, identity, AnswersSocket, Finds
  <1>7. CASE /\ identity \notin DOMAIN T.conns /\ match = {} /\ resolved
             /\ A = [Admission(B, Len(T.rows) + 1) EXCEPT !.new = TRUE]
    <2>2. identity \in IdentitiesOf(t)
      BY KinFacts, Zenon DEF IdentitiesOf, SocketIdentity
    <2>3. entry \in EntrySpace
      BY DEF Entry, EntrySpace, Origins, reconciliation_miss_limit
    <2>4. cookie \in {t, NoSocket}
      BY Zenon
    <2>5. state \in RowStates \ Ended
      BY Zenon DEF RowStates, Ended
    <2>6. FreshRow(row) /\ row.socket = t /\ row.direction = "UNKNOWN"
      <3> HIDE DEF cookie, state
      <3> QED BY <2>4, <2>5, RowIsFresh
    <2>7. A.new = TRUE /\ A.closed = FALSE
      BY <1>7, Zenon DEF Admission, Nothing
    <2>10. entry.present = TRUE /\ snapshot_owned(entry) /\ entry \in EntrySpace
      BY <2>3, Zenon DEF Entry, snapshot_owned
    <2> HIDE DEF entry, row, identity
    <2>8. HasBegun(p, T, A, t, "UNKNOWN", identity, entry, row)
      <3>1. HasBegun(p, T, [Admission(B, Len(T.rows) + 1) EXCEPT !.new = TRUE],
                     t, "UNKNOWN", identity, entry, row)
        BY <1>7, <2>2, <2>3, <2>6, BeginAnswers, Zenon
      <3> QED BY <1>7, <3>1, Zenon
    <2>9. Answer(p, T, A, t, "UNKNOWN")
      BY <2>8, Zenon DEF Answer, HasBegun
    <2>11. Observed(p, T, A, t)
      <3>1. TrackerInv(p, A.T) /\ Tracks(A.T, identity, A.id)
        BY <2>8, Zenon DEF HasBegun, Continues
      <3>2. \A x \in DOMAIN A.T.conns : A.T.conns[x].id = A.id => x = identity
        BY <3>1, Zenon DEF TrackerInv, Tracks
      <3>3. A.T.conns[identity] = [entry EXCEPT !.id = A.id]
        BY <2>8, Zenon DEF HasBegun
      <3>4. A.T.conns[identity].present = TRUE /\ snapshot_owned(A.T.conns[identity])
        BY ONLY <2>10, <3>3, Zenon DEF snapshot_owned, EntrySpace
      <3> QED BY <3>2, <3>4, Zenon DEF Observed, identity
    <2>12. UniqueMatch(T, KeyOf(p, TupleOf[t], t, TRUE)) = {}
      BY <1>7, Zenon
    <2> QED BY <1>7, <2>7, <2>9, <2>11, <2>12, Zenon DEF identity, AnswersSocket, Finds
  <1>8. \/ A = Nothing(T) /\ ~(identity \in DOMAIN T.conns /\ match \subseteq {identity})
        \/ identity \in DOMAIN T.conns /\ A = PersistSample(T, identity, t)
        \/ identity \notin DOMAIN T.conns /\ match # {} /\ A = PersistSample(T, i, t)
        \/ /\ identity \notin DOMAIN T.conns /\ match # {} /\ p = "linux"
           /\ A = PersistSample(P, identity, t)
        \/ /\ identity \notin DOMAIN T.conns /\ match = {} /\ resolved
           /\ A = BeginFromSnapshot(p, T, t, "UNKNOWN", origin, resolved)
    BY Zenon DEF observe_socket
  <1>9. resolved => BeginFromSnapshot(p, T, t, "UNKNOWN", origin, resolved) =
                      [Admission(B, Len(T.rows) + 1) EXCEPT !.new = TRUE]
    <2>1. resolved => KeyOf(p, TupleOf[t], t, resolved) = KeyOf(p, TupleOf[t], t, TRUE)
      BY Zenon DEF KeyOf
    <2> QED BY <2>1, Zenon DEF BeginFromSnapshot
  <1>10. \/ A = Nothing(T) /\ ~(identity \in DOMAIN T.conns /\ match \subseteq {identity})
         \/ identity \in DOMAIN T.conns /\ A = PersistSample(T, identity, t)
         \/ identity \notin DOMAIN T.conns /\ match # {} /\ A = PersistSample(T, i, t)
         \/ /\ identity \notin DOMAIN T.conns /\ match # {} /\ p = "linux"
            /\ A = PersistSample(P, identity, t)
         \/ /\ identity \notin DOMAIN T.conns /\ match = {} /\ resolved
            /\ A = [Admission(B, Len(T.rows) + 1) EXCEPT !.new = TRUE]
    <2> HIDE DEF identity, match, i, P, B
    <2> QED BY <1>8, <1>9, Zenon
  <1> QED BY <1>3, <1>4, <1>5, <1>6, <1>7, <1>10, Zenon

-----------------------------------------------------------------------------
(* The bracket of a snapshot, and the end *)

\* A function on the rows is a sequence of rows.
LEMMA RowsFunction ==
  ASSUME NEW rows \in Seq(RowSpace), NEW g, g = [n \in DOMAIN rows |-> g[n]],
         \A n \in DOMAIN rows : g[n] \in RowSpace
  PROVE  g \in Seq(RowSpace) /\ DOMAIN g = DOMAIN rows
  <1>1. DOMAIN rows = 1 .. Len(rows) /\ Len(rows) \in Nat
    OBVIOUS
  <1>2. g \in [1 .. Len(rows) -> RowSpace]
    BY <1>1, Zenon
  <1> QED BY <1>1, <1>2

SnapshotBegun(p, T, U) ==
  /\ TrackerInv(p, U) /\ U.rows = T.rows /\ Ids(U) = Ids(T) /\ DOMAIN U.conns = DOMAIN T.conns
  /\ \A i \in DOMAIN T.conns : /\ U.conns[i].id = T.conns[i].id
                               /\ U.conns[i].origin = T.conns[i].origin

\* begin_snapshot changes only whether entries are present: none is.
LEMMA BeginSnapshot ==
  ASSUME NEW p, NEW T, TrackerInv(p, T)
  PROVE  SnapshotBegun(p, T, begin_snapshot(T))
  <1> DEFINE U == begin_snapshot(T)
  <1>1. /\ IsTracker(U) /\ U.rows = T.rows /\ U.index = T.index
        /\ DOMAIN U.conns = DOMAIN T.conns
        /\ \A i \in DOMAIN T.conns : U.conns[i] = [T.conns[i] EXCEPT !.present = FALSE]
    BY Zenon DEF TrackerInv, IsTracker, begin_snapshot
  <1> HIDE DEF U
  <1>2. \A i \in DOMAIN T.conns : T.conns[i] \in EntrySpace
    BY Zenon DEF TrackerInv, EntryRight
  <1>3. ASSUME NEW i \in DOMAIN T.conns
        PROVE  /\ U.conns[i] \in EntrySpace /\ U.conns[i].id = T.conns[i].id
               /\ U.conns[i].origin = T.conns[i].origin
    <2>1. U.conns[i] = [T.conns[i] EXCEPT !.present = FALSE] /\ T.conns[i] \in EntrySpace
      BY <1>1, <1>2, Zenon
    <2> QED BY ONLY <2>1, Zenon DEF EntrySpace
  <1>4. Ids(U) = Ids(T) /\ Unended(U) = Unended(T)
    BY <1>1, <1>3 DEF Ids, Unended
  <1>5. ASSUME NEW i \in DOMAIN U.conns PROVE EntryRight(p, U, i, U.conns[i].id)
    <2> DEFINE n == U.conns[i].id
    <2>1. EntryRight(p, T, i, n) /\ U.conns[i] \in EntrySpace
      BY <1>1, <1>3, Zenon DEF TrackerInv
    <2> HIDE DEF n
    <2>2. EntryRight(p, U, i, n)
      BY <1>1, <2>1, Zenon DEF EntryRight
    <2> QED BY <2>2, Zenon DEF n
  <1>6. \A i, j \in DOMAIN U.conns : U.conns[i].id = U.conns[j].id => i = j
    BY <1>1, <1>3, Zenon DEF TrackerInv
  <1>7. TrackerInv(p, U)
    BY <1>1, <1>4, <1>5, <1>6, Zenon DEF TrackerInv
  <1> QED BY <1>1, <1>3, <1>4, <1>7, Zenon DEF SnapshotBegun, U

\* The records in ids have ended, and their entries are gone.
SnapshotEnded(p, T, U, ids, state) ==
  /\ TrackerInv(p, U) /\ RowsGoOn(T, U) /\ DOMAIN U.rows = DOMAIN T.rows
  /\ ids \subseteq Ids(T) /\ Ids(U) = Ids(T) \ ids
  /\ \A n \in DOMAIN T.rows : /\ Noted(U.rows[n]) = Noted(T.rows[n])
                              /\ U.rows[n].direction = T.rows[n].direction
                              /\ n \notin ids => U.rows[n] = T.rows[n]
                              /\ n \in ids => U.rows[n].state = state
  /\ DOMAIN U.conns \subseteq DOMAIN T.conns
  /\ \A i \in DOMAIN U.conns : /\ U.conns[i].id = T.conns[i].id
                               /\ U.conns[i].origin = T.conns[i].origin

\* The state of the records that end_snapshot gives up.
StateOfAbsent(polling, degraded) ==
  IF polling THEN "DISAPPEARED"
  ELSE IF degraded THEN "ABSENT_AFTER_LOSS" ELSE "PREEXISTING_DISAPPEARED"

\* end_snapshot ends the records of the entries that were absent too often, erases
\* those entries, counts the misses of the others, and leaves everything else.
LEMMA EndSnapshot ==
  ASSUME NEW p, NEW T, TrackerInv(p, T), NEW polling, NEW degraded
  PROVE  SnapshotEnded(p, T, end_snapshot(T, polling, degraded),
           {T.conns[i].id : i \in Absent(T, polling, degraded)}, StateOfAbsent(polling, degraded))
  <1> DEFINE U == end_snapshot(T, polling, degraded)
             gone == Absent(T, polling, degraded)
             ids == {T.conns[i].id : i \in gone}
             state == StateOfAbsent(polling, degraded)
             misses(e) == IF e.present THEN 0
                          ELSE IF e.misses < reconciliation_miss_limit THEN e.misses + 1 ELSE e.misses
  <1>1. gone \subseteq DOMAIN T.conns
    BY Zenon DEF Absent
  <1>2. /\ IsTracker(U) /\ U.rows = [n \in DOMAIN T.rows |-> U.rows[n]]
        /\ \A n \in DOMAIN T.rows :
             U.rows[n] = IF n \in ids THEN [T.rows[n] EXCEPT !.state = state] ELSE T.rows[n]
    BY Zenon DEF IsTracker, end_snapshot, StateOfAbsent
  <1>3. /\ DOMAIN U.index = DOMAIN T.index \ gone /\ DOMAIN U.conns = DOMAIN T.conns \ gone
        /\ \A i \in DOMAIN T.index \ gone : U.index[i] = T.index[i]
        /\ \A i \in DOMAIN T.conns \ gone :
             U.conns[i] = [T.conns[i] EXCEPT !.misses = misses(T.conns[i])]
    BY Zenon DEF end_snapshot, Restrict
  <1>4. state \in RowStates /\ state \in Ended
    BY Zenon DEF StateOfAbsent, RowStates, Ended
  <1>5. \A i \in DOMAIN T.conns : /\ T.conns[i] \in EntrySpace /\ T.conns[i].id \in DOMAIN T.rows
                                  /\ T.rows[T.conns[i].id].state \notin Ended
    <2> TAKE i \in DOMAIN T.conns
    <2>1. Tracks(T, i, T.conns[i].id)
      BY Zenon DEF Tracks
    <2> QED BY <2>1, RowOfEntry, Zenon DEF EntryRight
  <1> HIDE DEF U, gone, state
  <1>6. ASSUME NEW i \in DOMAIN U.conns
        PROVE  /\ U.conns[i] \in EntrySpace /\ U.conns[i].id = T.conns[i].id
               /\ U.conns[i].origin = T.conns[i].origin
    <2>1. T.conns[i] \in EntrySpace /\ U.conns[i] = [T.conns[i] EXCEPT !.misses = misses(T.conns[i])]
      BY <1>3, <1>5, Zenon
    <2>2. misses(T.conns[i]) \in 0 .. reconciliation_miss_limit
      BY ONLY <2>1 DEF EntrySpace, reconciliation_miss_limit
    <2> HIDE DEF misses
    <2> QED BY ONLY <2>1, <2>2, Zenon DEF EntrySpace
  <1>7. ids \subseteq Ids(T) /\ Ids(U) = Ids(T) \ ids
    <2>1. ids \subseteq Ids(T)
      BY <1>1, Zenon DEF Ids
    <2>2. \A i, j \in DOMAIN T.conns : T.conns[i].id = T.conns[j].id => i = j
      BY Zenon DEF TrackerInv
    <2>3. Ids(U) = {T.conns[i].id : i \in DOMAIN T.conns \ gone}
      BY <1>3, <1>6 DEF Ids
    <2>4. ASSUME NEW i \in DOMAIN T.conns \ gone PROVE T.conns[i].id \in Ids(T) \ ids
      <3>1. \A j \in gone : T.conns[j].id # T.conns[i].id
        BY <1>1, <2>2, Zenon
      <3> QED BY <3>1, Zenon DEF Ids
    <2>5. \A i \in DOMAIN T.conns : T.conns[i].id \notin ids => i \notin gone
      BY Zenon
    <2> HIDE DEF ids
    <2>6. \A n \in Ids(U) : n \in Ids(T) \ ids
      BY <2>3, <2>4, Zenon
    <2>7. \A n \in Ids(T) \ ids : n \in Ids(U)
      BY <2>3, <2>5, Zenon DEF Ids
    <2> QED BY <2>1, <2>6, <2>7, Zenon
  <1>8. ids \subseteq DOMAIN T.rows /\ \A n \in ids : T.rows[n].state \notin Ended
    BY <1>1, <1>5, Zenon
  <1> HIDE DEF ids
  <1>9. ASSUME NEW n \in DOMAIN T.rows
        PROVE  /\ U.rows[n] \in RowSpace /\ RowRight(U.rows[n]) /\ RowGoesOn(T.rows[n], U.rows[n])
               /\ Noted(U.rows[n]) = Noted(T.rows[n])
               /\ U.rows[n].direction = T.rows[n].direction
               /\ n \notin ids => U.rows[n] = T.rows[n]
               /\ n \in ids => U.rows[n].state = state
    <2>1. T.rows[n] \in RowSpace /\ RowRight(T.rows[n])
      BY DEF TrackerInv
    <2>2. CASE n \in ids
      <3>1. U.rows[n] = [T.rows[n] EXCEPT !.state = state] /\ T.rows[n].state \notin Ended
        BY <1>2, <1>8, <2>2, Zenon
      <3> QED BY <1>4, <2>1, <2>2, <3>1, RowState
    <2>3. CASE n \notin ids
      <3>1. U.rows[n] = T.rows[n]
        BY <1>2, <2>3, Zenon
      <3> QED BY <2>1, <2>3, <3>1, Zenon DEF RowGoesOn
    <2> QED BY <2>2, <2>3, Zenon
  <1>10. U.rows \in Seq(RowSpace) /\ DOMAIN U.rows = DOMAIN T.rows
    <2>1. T.rows \in Seq(RowSpace)
      BY Zenon DEF TrackerInv
    <2> QED BY <1>2, <1>9, <2>1, RowsFunction, Zenon
  <1>11. RowsGoOn(T, U)
    BY <1>9, <1>10, Zenon DEF RowsGoOn
  <1>12. Unended(U) = Unended(T) \ ids
    BY <1>4, <1>9, <1>10, Zenon DEF Unended
  <1>13. ASSUME NEW i \in DOMAIN U.conns PROVE EntryRight(p, U, i, U.conns[i].id)
    <2> DEFINE n == U.conns[i].id
    <2>1. EntryRight(p, T, i, n) /\ U.conns[i] \in EntrySpace
      BY <1>3, <1>6, Zenon DEF TrackerInv
    <2>2. U.index[i] = T.index[i]
      BY <1>3, Zenon DEF TrackerInv
    <2> HIDE DEF n
    <2>3. n \in DOMAIN T.rows /\ U.rows[n].socket = T.rows[n].socket
      BY <1>9, <2>1, Zenon DEF RowGoesOn, EntryRight
    <2>4. EntryRight(p, U, i, n)
      BY <1>10, <2>1, <2>2, <2>3, Zenon DEF EntryRight
    <2> QED BY <2>4, Zenon DEF n
  <1>14. \A i, j \in DOMAIN U.conns : U.conns[i].id = U.conns[j].id => i = j
    BY <1>3, <1>6, Zenon DEF TrackerInv
  <1>15. DOMAIN U.index = DOMAIN U.conns /\ \A n \in DOMAIN U.rows : RowRight(U.rows[n])
    BY <1>3, <1>9, <1>10, Zenon DEF TrackerInv
  <1>16. TrackerInv(p, U)
    BY <1>2, <1>7, <1>10, <1>12, <1>13, <1>14, <1>15, Zenon DEF TrackerInv
  <1>17. SnapshotEnded(p, T, U, ids, state)
    BY <1>3, <1>6, <1>7, <1>9, <1>10, <1>11, <1>16, Zenon DEF SnapshotEnded
  <1> QED BY <1>17, Zenon DEF U, ids, gone, state

\* The rows of the records that were tracked have another state, and nothing else changes.
Finished(T, U) ==
  /\ U.conns = T.conns /\ U.index = T.index /\ DOMAIN U.rows = DOMAIN T.rows
  /\ \A n \in DOMAIN T.rows :
       /\ RowRight(U.rows[n]) /\ RowGoesOn(T.rows[n], U.rows[n])
       /\ U.rows[n].about = T.rows[n].about
       /\ Noted(U.rows[n]) = Noted(T.rows[n])
       /\ n \notin Ids(T) => U.rows[n] = T.rows[n]
       /\ n \in Ids(T) => U.rows[n].state \in {"DISAPPEARED", "OBSERVATION_ENDED"}

\* finish_observation closes the rows of what is still tracked, in the state that
\* fits, and no other.
LEMMA FinishObservation ==
  ASSUME NEW p, NEW T, TrackerInv(p, T), NEW polling
  PROVE  Finished(T, finish_observation(T, polling))
  <1> DEFINE U == finish_observation(T, polling)
             missing == {T.conns[i].id : i \in {x \in DOMAIN T.conns : ~T.conns[x].present}}
             state(n) == IF polling /\ n \in missing THEN "DISAPPEARED" ELSE "OBSERVATION_ENDED"
  <1>1. /\ U.conns = T.conns /\ U.index = T.index /\ DOMAIN U.rows = DOMAIN T.rows
        /\ \A n \in DOMAIN T.rows :
             U.rows[n] = IF n \in Ids(T) THEN [T.rows[n] EXCEPT !.state = state(n)] ELSE T.rows[n]
    BY Zenon DEF finish_observation, TrackerInv, IsTracker, Ids
  <1> HIDE DEF U
  <1>2. ASSUME NEW n \in DOMAIN T.rows
        PROVE  /\ RowRight(U.rows[n]) /\ RowGoesOn(T.rows[n], U.rows[n])
               /\ U.rows[n].about = T.rows[n].about
               /\ Noted(U.rows[n]) = Noted(T.rows[n])
               /\ n \notin Ids(T) => U.rows[n] = T.rows[n]
               /\ n \in Ids(T) => U.rows[n].state \in {"DISAPPEARED", "OBSERVATION_ENDED"}
    <2>1. T.rows[n] \in RowSpace /\ RowRight(T.rows[n])
      BY DEF TrackerInv
    <2>2. CASE n \in Ids(T)
      <3>1. T.rows[n].state \notin Ended
        BY <2>2, Zenon DEF TrackerInv, Unended
      <3>2. state(n) \in RowStates /\ state(n) \in {"DISAPPEARED", "OBSERVATION_ENDED"}
        BY Zenon DEF RowStates, Ended
      <3> DEFINE x == state(n)
      <3> HIDE DEF state
      <3>3. U.rows[n] = [T.rows[n] EXCEPT !.state = x]
        BY <1>1, <2>2, Zenon
      <3> HIDE DEF x
      <3>4. U.rows[n].about = T.rows[n].about
        BY ONLY <2>1, <3>3, Zenon DEF RowSpace
      <3> QED BY <2>1, <2>2, <3>1, <3>2, <3>3, <3>4, RowState DEF x
    <2>3. CASE n \notin Ids(T)
      <3>1. U.rows[n] = T.rows[n]
        BY <1>1, <2>3, Zenon
      <3> QED BY <2>1, <2>3, <3>1, Zenon DEF RowGoesOn
    <2> QED BY <2>2, <2>3, Zenon
  <1> QED BY <1>1, <1>2, Zenon DEF Finished, U

-----------------------------------------------------------------------------
(* The invariant of the session *)

IsSession(S) ==
  DOMAIN S = {"T", "active", "due", "requests", "pending", "dispatched", "sessions", "keys"}

\* What has been reported of the record n, and what of it is still to be.
Reported(S, n) ==
  LET row == S.T.rows[n]
  IN  /\ n \in S.dispatched <=> row.tls \in row.told
      /\ \A X \in row.told : X \subseteq row.tls
      /\ ~row.repeated

SessionInv(p, S) ==
  /\ IsSession(S) /\ TrackerInv(p, S.T)
  /\ S.active = Ids(S.T)
  /\ DOMAIN S.requests \subseteq S.active
  /\ \A n \in DOMAIN S.requests : S.requests[n] \in {"UNKNOWN", S.T.rows[n].direction}
  /\ S.pending \cap S.dispatched = {}
  /\ S.pending \cup S.dispatched = DOMAIN S.T.rows \ Ids(S.T)
  /\ S.sessions \subseteq Sockets
  /\ \A n \in DOMAIN S.T.rows : Reported(S, n)


\* What the tracker writes in a row.
Bones(row) == <<row.socket, row.cookie, row.direction, row.state, row.about>>

\* U is T but for what the session writes in the rows.
NotesOnly(T, U) ==
  /\ IsTracker(U) /\ U.conns = T.conns /\ U.index = T.index
  /\ U.rows \in Seq(RowSpace) /\ DOMAIN U.rows = DOMAIN T.rows
  /\ \A n \in DOMAIN T.rows : RowRight(U.rows[n]) /\ Bones(U.rows[n]) = Bones(T.rows[n])

\* Reports, TLS sessions and routes written to rows leave the tracker as it was.
LEMMA NotesKeep ==
  ASSUME NEW p, NEW T, NEW U, TrackerInv(p, T), NotesOnly(T, U)
  PROVE  TrackerInv(p, U) /\ RowsGoOn(T, U) /\ Ids(U) = Ids(T)
  <1>1. ASSUME NEW n \in DOMAIN T.rows
        PROVE  /\ U.rows[n].socket = T.rows[n].socket /\ U.rows[n].state = T.rows[n].state
               /\ U.rows[n].cookie = T.rows[n].cookie
               /\ U.rows[n].direction = T.rows[n].direction
    BY Zenon DEF NotesOnly, Bones
  <1>2. RowsGoOn(T, U)
    BY <1>1, Zenon DEF RowsGoOn, RowGoesOn, NotesOnly
  <1>3. Ids(U) = Ids(T)
    BY Zenon DEF Ids, NotesOnly
  <1>4. Unended(U) = Unended(T)
    BY <1>1, Zenon DEF Unended, NotesOnly
  <1>5. ASSUME NEW i \in DOMAIN U.conns PROVE EntryRight(p, U, i, U.conns[i].id)
    <2> DEFINE n == U.conns[i].id
    <2>1. EntryRight(p, T, i, n) /\ U.conns[i] = T.conns[i] /\ U.index[i] = T.index[i]
      BY Zenon DEF TrackerInv, NotesOnly
    <2> HIDE DEF n
    <2>2. n \in DOMAIN T.rows /\ n \in DOMAIN U.rows /\ U.rows[n].socket = T.rows[n].socket
      BY <1>1, <2>1, Zenon DEF EntryRight, NotesOnly
    <2>3. EntryRight(p, U, i, n)
      BY <2>1, <2>2, Zenon DEF EntryRight
    <2> QED BY <2>3, Zenon DEF n
  <1>6. /\ \A i, j \in DOMAIN U.conns : U.conns[i].id = U.conns[j].id => i = j
        /\ DOMAIN U.index = DOMAIN U.conns
    BY Zenon DEF TrackerInv, NotesOnly
  <1>7. TrackerInv(p, U)
    BY <1>3, <1>4, <1>5, <1>6, Zenon DEF TrackerInv, NotesOnly
  <1> QED BY <1>2, <1>3, <1>7, Zenon

\* They may be written one after the other.
LEMMA NotesTwice ==
  ASSUME NEW T, NEW U, NEW V, NotesOnly(T, U), NotesOnly(U, V)
  PROVE  NotesOnly(T, V)
  BY Zenon DEF NotesOnly

\* Or not at all.
LEMMA NotesNone ==
  ASSUME NEW p, NEW T, TrackerInv(p, T)
  PROVE  NotesOnly(T, T)
  BY Zenon DEF NotesOnly, TrackerInv

\* A row takes on TLS sessions of its own socket or of one with its tuple.
LEMMA RowTls ==
  ASSUME NEW row \in RowSpace, RowRight(row), NEW new, new \subseteq Kin(row.socket),
         NEW r, r = [row EXCEPT !.tls = @ \cup new]
  PROVE  /\ r \in RowSpace /\ RowRight(r) /\ Bones(r) = Bones(row)
         /\ r.tls = row.tls \cup new /\ r.told = row.told /\ r.repeated = row.repeated
         /\ r.direction = row.direction
  <1>1. new \subseteq Sockets
    BY Zenon DEF Kin
  <1>2. /\ r \in RowSpace /\ r.about = row.about /\ r.socket = row.socket
        /\ r.state = row.state /\ r.cookie = row.cookie /\ r.direction = row.direction
        /\ r.tls = row.tls \cup new /\ r.told = row.told /\ r.repeated = row.repeated
        /\ r.route = row.route
    BY <1>1, Zenon DEF RowSpace
  <1> QED BY <1>2, Zenon DEF RowRight, Bones

\* The row r is row once its completion has been reported.
WasTold(row, r) ==
  /\ r \in RowSpace /\ RowRight(r) /\ Bones(r) = Bones(row)
  /\ r.tls = row.tls /\ r.told = row.told \cup {row.tls}
  /\ r.repeated = (row.repeated \/ row.tls \in row.told)
  /\ r.direction = row.direction

\* A row remembers what a report of it said, and whether an earlier one had said the
\* same.
LEMMA RowTold ==
  ASSUME NEW row \in RowSpace, RowRight(row),
         NEW r, r = [row EXCEPT !.told = @ \cup {row.tls},
                                !.repeated = @ \/ row.tls \in row.told]
  PROVE  WasTold(row, r)
  <1> DEFINE c == row.repeated \/ row.tls \in row.told
             e == row.told \cup {row.tls}
  <1>1. c \in BOOLEAN /\ e \in SUBSET (SUBSET Sockets)
    BY Zenon DEF RowSpace
  <1>2. r = [row EXCEPT !.told = e, !.repeated = c]
    BY Zenon
  <1> HIDE DEF c, e
  <1>3. /\ r \in RowSpace /\ r.about = row.about /\ r.socket = row.socket
        /\ r.state = row.state /\ r.cookie = row.cookie /\ r.direction = row.direction
        /\ r.tls = row.tls /\ r.told = e /\ r.repeated = c
        /\ r.route = row.route
    BY ONLY row \in RowSpace, <1>1, <1>2, Zenon DEF RowSpace
  <1> QED BY <1>3, Zenon DEF WasTold, RowRight, Bones, c, e

\* A row takes on the relation of a route.
LEMMA RowRoute ==
  ASSUME NEW row \in RowSpace, RowRight(row), NEW d \in {"UNKNOWN", row.direction},
         NEW r, r = [row EXCEPT !.route = d]
  PROVE  /\ r \in RowSpace /\ RowRight(r) /\ Bones(r) = Bones(row)
         /\ r.tls = row.tls /\ r.told = row.told /\ r.repeated = row.repeated
         /\ r.direction = row.direction
  <1>1. d \in Directions
    BY Zenon DEF RowSpace, Directions
  <1>2. /\ r \in RowSpace /\ r.about = row.about /\ r.socket = row.socket
        /\ r.state = row.state /\ r.cookie = row.cookie /\ r.direction = row.direction
        /\ r.tls = row.tls /\ r.told = row.told /\ r.repeated = row.repeated
        /\ r.route = d
    BY <1>1, Zenon DEF RowSpace
  <1> QED BY <1>2, Zenon DEF RowRight, Bones

\* U is a session, and its tracker is T but for what the session has written.
Follows(p, T, U) == SessionInv(p, U) /\ NotesOnly(T, U.T)

\* Two steps of the session on one tracker make one.
LEMMA FollowsTwice ==
  ASSUME NEW p, NEW T, NEW U, NEW V, Follows(p, T, U), Follows(p, U.T, V)
  PROVE  Follows(p, T, V)
  BY NotesTwice, Zenon DEF Follows

\* A TLS session is attached to a connection with its tuple only.
LEMMA CandidateIsKin ==
  ASSUME NEW S, SessionInv(config.platform, S), NEW s \in Sockets, NEW n \in DOMAIN S.T.rows,
         CandidateKind(S, s, n) = "match"
  PROVE  s \in Kin(S.T.rows[n].socket)
  <1> DEFINE row == S.T.rows[n]
  <1>1. row \in RowSpace /\ RowRight(row)
    BY DEF SessionInv, TrackerInv
  <1>2. row.cookie = s \/ TupleOf[row.socket] = TupleOf[s]
    BY Zenon DEF CandidateKind
  <1> HIDE DEF row
  <1>3. CASE row.cookie = s
    BY <1>1, <1>3, SocketsAssumption, Zenon DEF RowRight, row
  <1>4. CASE TupleOf[row.socket] = TupleOf[s]
    BY <1>4, Zenon DEF Kin, row
  <1> QED BY <1>2, <1>3, <1>4, Zenon

\* correlate_tls_sessions keeps the invariant: a connection that gets a session it did
\* not have waits to be reported again.
LEMMA CorrelateKeeps ==
  ASSUME NEW S, SessionInv(config.platform, S)
  PROVE  Follows(config.platform, S.T, correlate_tls_sessions(S))
  <1> DEFINE p == config.platform
             A == AttachSessions(S)
             again == {n \in S.dispatched \ S.pending : A.T.rows[n].tls # S.T.rows[n].tls}
             C == [A EXCEPT !.pending = @ \cup again, !.dispatched = @ \ again]
  <1>1. CASE S.sessions = {}
    BY <1>1, NotesNone, Zenon DEF correlate_tls_sessions, Follows, SessionInv
  <1>2. CASE S.sessions # {}
    <2>1. ASSUME NEW n \in DOMAIN S.T.rows PROVE FreshFor(S, n) \subseteq Kin(S.T.rows[n].socket)
      <3> SUFFICES ASSUME NEW s \in FreshFor(S, n) PROVE s \in Kin(S.T.rows[n].socket)
        BY Zenon
      <3>1. s \in Sockets /\ CandidateKind(S, s, n) = "match"
        BY Zenon DEF SessionInv, OfKind, Fresh, FreshFor
      <3> QED BY <3>1, CandidateIsKin, Zenon
    <2>2. IsSession(S) /\ IsTracker(S.T) /\ S.T.rows \in Seq(RowSpace)
      BY Zenon DEF SessionInv, TrackerInv
    <2>3. /\ IsSession(A) /\ A.active = S.active /\ A.requests = S.requests
          /\ A.pending = S.pending /\ A.dispatched = S.dispatched
          /\ A.sessions \subseteq S.sessions
          /\ IsTracker(A.T) /\ A.T.conns = S.T.conns /\ A.T.index = S.T.index
          /\ A.T.rows = [n \in DOMAIN S.T.rows |-> [S.T.rows[n] EXCEPT !.tls = @ \cup FreshFor(S, n)]]
      <3>1. /\ IsSession(A) /\ A.active = S.active /\ A.requests = S.requests
            /\ A.pending = S.pending /\ A.dispatched = S.dispatched
        BY ONLY <2>2, Zenon DEF IsSession, AttachSessions
      <3>2. A.sessions \subseteq S.sessions
        BY ONLY <2>2, Zenon DEF IsSession, AttachSessions
      <3>3. A.T = [S.T EXCEPT !.rows = AttachedRows(S)]
        BY ONLY <2>2, Zenon DEF IsSession, AttachSessions
      <3> HIDE DEF A
      <3>4. /\ IsTracker(A.T) /\ A.T.conns = S.T.conns /\ A.T.index = S.T.index
            /\ A.T.rows = AttachedRows(S)
        BY ONLY <2>2, <3>3, Zenon DEF IsTracker
      <3> QED BY <3>1, <3>2, <3>4, Zenon DEF AttachedRows
    <2> HIDE DEF A
    <2>4. /\ IsSession(C) /\ C.active = S.active /\ C.requests = S.requests /\ C.T = A.T
          /\ C.pending = S.pending \cup again /\ C.dispatched = S.dispatched \ again
          /\ C.sessions \subseteq S.sessions
      BY <2>3, Zenon DEF IsSession
    <2> HIDE DEF C
    <2>5. ASSUME NEW n \in DOMAIN S.T.rows
          PROVE  /\ A.T.rows[n] \in RowSpace /\ RowRight(A.T.rows[n])
                 /\ Bones(A.T.rows[n]) = Bones(S.T.rows[n])
                 /\ A.T.rows[n].tls = S.T.rows[n].tls \cup FreshFor(S, n)
                 /\ A.T.rows[n].told = S.T.rows[n].told
                 /\ A.T.rows[n].repeated = S.T.rows[n].repeated
                 /\ A.T.rows[n].direction = S.T.rows[n].direction
      <3>1. S.T.rows[n] \in RowSpace /\ RowRight(S.T.rows[n])
        BY DEF SessionInv, TrackerInv
      <3>2. A.T.rows[n] = [S.T.rows[n] EXCEPT !.tls = @ \cup FreshFor(S, n)]
        BY <2>3, Zenon
      <3> QED BY <2>1, <3>1, <3>2, RowTls
    <2>6. A.T.rows \in Seq(RowSpace) /\ DOMAIN A.T.rows = DOMAIN S.T.rows
      <3>1. A.T.rows = [n \in DOMAIN S.T.rows |-> A.T.rows[n]]
        BY <2>3, Zenon
      <3> QED BY <2>2, <2>5, <3>1, RowsFunction, Zenon
    <2>7. NotesOnly(S.T, A.T)
      BY <2>3, <2>5, <2>6, Zenon DEF NotesOnly
    <2>8. TrackerInv(p, A.T) /\ Ids(A.T) = Ids(S.T)
      BY <2>7, NotesKeep, Zenon DEF SessionInv
    <2>9. ASSUME NEW n \in DOMAIN S.T.rows PROVE Reported(C, n)
      <3>1. Reported(S, n) /\ S.pending \cap S.dispatched = {}
        BY Zenon DEF SessionInv
      <3> DEFINE X == S.T.rows[n].tls
                 Y == A.T.rows[n].tls
                 told == S.T.rows[n].told
      <3>2. X \subseteq Y
        BY <2>5, Zenon
      <3>3. /\ n \in S.dispatched <=> X \in told
            /\ \A Z \in told : Z \subseteq X
            /\ ~S.T.rows[n].repeated
        BY <3>1, Zenon DEF Reported
      <3>4. n \in C.dispatched <=> n \in S.dispatched /\ X = Y
        BY <2>4, <3>1, ZenonT(30)
      <3>5. C.T.rows[n].told = told /\ ~C.T.rows[n].repeated /\ C.T.rows[n].tls = Y
        BY <2>4, <2>5, <3>3
      <3> HIDE DEF X, Y, told
      <3>6. (n \in C.dispatched <=> Y \in told) /\ \A Z \in told : Z \subseteq Y
        <4>1. Y \in told => X = Y
          BY <3>2, <3>3, Zenon
        <4> QED BY <3>2, <3>3, <3>4, <4>1, Zenon
      <3> QED BY <3>5, <3>6, Zenon DEF Reported
    <2>10. SessionInv(p, C)
      <3>1. C.pending \cap C.dispatched = {}
        BY <2>4, Zenon DEF SessionInv
      <3>2. C.pending \cup C.dispatched = DOMAIN C.T.rows \ Ids(C.T)
        BY <2>4, <2>6, <2>8, Zenon DEF SessionInv
      <3>3. \A n \in DOMAIN C.requests : C.requests[n] \in {"UNKNOWN", C.T.rows[n].direction}
        <4>1. \A n \in DOMAIN S.requests : n \in DOMAIN S.T.rows
          BY DEF SessionInv, TrackerInv, Unended
        <4> QED BY <2>4, <2>5, <4>1 DEF SessionInv
      <3>4. C.active = Ids(C.T) /\ DOMAIN C.requests \subseteq C.active /\ C.sessions \subseteq Sockets
        BY <2>4, <2>8, Zenon DEF SessionInv
      <3> QED BY <2>4, <2>6, <2>8, <2>9, <3>1, <3>2, <3>3, <3>4, Zenon DEF SessionInv
    <2>11. Follows(p, S.T, C)
      BY <2>4, <2>7, <2>10, Zenon DEF Follows
    <2>12. correlate_tls_sessions(S) = C
      BY <1>2, Zenon DEF correlate_tls_sessions, C, A
    <2> QED BY <2>11, <2>12, Zenon
  <1> QED BY <1>1, <1>2, Zenon

\* What was reported of a record is so for as long as no note in it changes.
LEMMA ReportedSame ==
  ASSUME NEW S, NEW U, NEW n, Reported(S, n), Noted(U.T.rows[n]) = Noted(S.T.rows[n]),
         n \in U.dispatched <=> n \in S.dispatched
  PROVE  Reported(U, n)
  <1>1. /\ U.T.rows[n].tls = S.T.rows[n].tls /\ U.T.rows[n].told = S.T.rows[n].told
        /\ U.T.rows[n].repeated = S.T.rows[n].repeated
    BY Zenon DEF Noted
  <1> QED BY <1>1, Zenon DEF Reported

\* dispatch_completed reports what it is given, all that is known of it, and once.
LEMMA DispatchKeeps ==
  ASSUME NEW p, NEW S, SessionInv(p, S), NEW ids, ids \subseteq S.pending
  PROVE  /\ Follows(p, S.T, dispatch_completed(S, ids))
         /\ dispatch_completed(S, ids).pending = S.pending \ ids
  <1> DEFINE D == dispatch_completed(S, ids)
  <1>1. IsSession(S) /\ IsTracker(S.T) /\ S.T.rows \in Seq(RowSpace)
    BY Zenon DEF SessionInv, TrackerInv
  <1>2. /\ IsSession(D) /\ D.active = S.active /\ D.requests = S.requests
        /\ D.pending = S.pending \ ids /\ D.dispatched = S.dispatched \cup ids
        /\ D.sessions = S.sessions
    BY ONLY <1>1, Zenon DEF IsSession, dispatch_completed
  <1>3. D.T = [S.T EXCEPT !.rows = CalledRows(S, ids)]
    BY ONLY <1>1, Zenon DEF IsSession, dispatch_completed
  <1> HIDE DEF D
  <1>4. /\ IsTracker(D.T) /\ D.T.conns = S.T.conns /\ D.T.index = S.T.index
        /\ D.T.rows = CalledRows(S, ids)
    BY ONLY <1>1, <1>3, Zenon DEF IsTracker
  <1>5. ids \cap S.dispatched = {}
    BY Zenon DEF SessionInv
  <1>6. ASSUME NEW n \in DOMAIN S.T.rows
        PROVE  /\ D.T.rows[n] \in RowSpace /\ RowRight(D.T.rows[n])
               /\ Bones(D.T.rows[n]) = Bones(S.T.rows[n])
               /\ D.T.rows[n].direction = S.T.rows[n].direction
               /\ n \notin ids => D.T.rows[n] = S.T.rows[n]
               /\ n \in ids => /\ D.T.rows[n].tls = S.T.rows[n].tls
                               /\ D.T.rows[n].told = S.T.rows[n].told \cup {S.T.rows[n].tls}
                               /\ D.T.rows[n].repeated
                                    = (S.T.rows[n].repeated \/ S.T.rows[n].tls \in S.T.rows[n].told)
    <2>1. S.T.rows[n] \in RowSpace /\ RowRight(S.T.rows[n])
      BY DEF SessionInv, TrackerInv
    <2>2. CASE n \in ids
      <3>1. D.T.rows[n] = [S.T.rows[n] EXCEPT !.told = @ \cup {S.T.rows[n].tls},
                                      !.repeated = @ \/ S.T.rows[n].tls \in S.T.rows[n].told]
        BY <1>4, <1>5, <2>2, Zenon DEF CalledRows
      <3>2. WasTold(S.T.rows[n], D.T.rows[n])
        BY <2>1, <3>1, RowTold, Zenon
      <3> QED BY <2>2, <3>2, Zenon DEF WasTold
    <2>3. CASE n \notin ids
      <3>1. D.T.rows[n] = S.T.rows[n]
        BY <1>4, <2>3, Zenon DEF CalledRows
      <3> QED BY <2>1, <2>3, <3>1, Zenon
    <2> QED BY <2>2, <2>3, Zenon
  <1>7. D.T.rows \in Seq(RowSpace) /\ DOMAIN D.T.rows = DOMAIN S.T.rows
    <2>1. D.T.rows = [n \in DOMAIN S.T.rows |-> D.T.rows[n]]
      BY <1>4, Zenon DEF CalledRows
    <2> QED BY <1>1, <1>6, <2>1, RowsFunction, Zenon
  <1>8. NotesOnly(S.T, D.T)
    BY <1>4, <1>6, <1>7, Zenon DEF NotesOnly
  <1>9. TrackerInv(p, D.T) /\ Ids(D.T) = Ids(S.T)
    BY <1>8, NotesKeep, Zenon DEF SessionInv
  <1>10. ASSUME NEW n \in DOMAIN S.T.rows PROVE Reported(D, n)
    <2>1. Reported(S, n)
      BY Zenon DEF SessionInv
    <2>2. CASE n \in ids
      <3> DEFINE X == S.T.rows[n].tls
                 told == S.T.rows[n].told
      <3>1. X \notin told /\ (\A Z \in told : Z \subseteq X) /\ ~S.T.rows[n].repeated
        BY <1>5, <2>1, <2>2, Zenon DEF Reported
      <3>2. /\ D.T.rows[n].tls = X /\ D.T.rows[n].told = told \cup {X}
            /\ ~D.T.rows[n].repeated
        BY <1>6, <2>2, <3>1, Zenon
      <3>3. n \in D.dispatched
        BY <1>2, <2>2, Zenon
      <3> HIDE DEF X, told
      <3> QED BY <3>1, <3>2, <3>3, Zenon DEF Reported
    <2>3. CASE n \notin ids
      <3>1. D.T.rows[n] = S.T.rows[n] /\ (n \in D.dispatched <=> n \in S.dispatched)
        BY <1>2, <1>6, <2>3, Zenon
      <3> QED BY <2>1, <3>1, ReportedSame, Zenon
    <2> QED BY <2>2, <2>3, Zenon
  <1>11. SessionInv(p, D)
    <2>1. D.pending \cap D.dispatched = {} /\ D.pending \cup D.dispatched = DOMAIN D.T.rows \ Ids(D.T)
      BY <1>2, <1>7, <1>9, Zenon DEF SessionInv
    <2>2. \A n \in DOMAIN D.requests : D.requests[n] \in {"UNKNOWN", D.T.rows[n].direction}
      <3>1. \A n \in DOMAIN S.requests : n \in DOMAIN S.T.rows
        BY DEF SessionInv, TrackerInv, Unended
      <3> QED BY <1>2, <1>6, <3>1, ZenonT(30) DEF SessionInv
    <2>3. D.active = Ids(D.T) /\ DOMAIN D.requests \subseteq D.active /\ D.sessions \subseteq Sockets
      BY <1>2, <1>9, Zenon DEF SessionInv
    <2> QED BY <1>2, <1>7, <1>9, <1>10, <2>1, <2>2, <2>3, Zenon DEF SessionInv
  <1>12. Follows(p, S.T, D) /\ D.pending = S.pending \ ids
    BY <1>2, <1>8, <1>11, Zenon DEF Follows
  <1> QED BY <1>12, Zenon DEF D

\* observe_scheduled_routes writes to connections that are active only, with the
\* direction they were requested with or the one they have.
LEMMA RoutesKeep ==
  ASSUME NEW p, NEW S, SessionInv(p, S)
  PROVE  Follows(p, S.T, observe_scheduled_routes(S))
  <1> DEFINE D == observe_scheduled_routes(S)
             requests == Restrict(S.requests, DOMAIN S.requests \ Asked(S))
  <1>1. IsSession(S) /\ IsTracker(S.T) /\ S.T.rows \in Seq(RowSpace)
    BY Zenon DEF SessionInv, TrackerInv
  <1>2. /\ IsSession(D) /\ D.active = S.active /\ D.requests = requests
        /\ D.pending = S.pending /\ D.dispatched = S.dispatched
        /\ D.sessions = S.sessions
    BY ONLY <1>1, Zenon DEF IsSession, observe_scheduled_routes
  <1>3. D.T = [S.T EXCEPT !.rows = RoutedRows(S)]
    BY ONLY <1>1, Zenon DEF IsSession, observe_scheduled_routes
  <1> HIDE DEF D
  <1>4. /\ IsTracker(D.T) /\ D.T.conns = S.T.conns /\ D.T.index = S.T.index
        /\ D.T.rows = RoutedRows(S)
    BY ONLY <1>1, <1>3, Zenon DEF IsTracker
  <1>5. /\ DOMAIN requests \subseteq DOMAIN S.requests
        /\ \A n \in DOMAIN requests : requests[n] = S.requests[n]
    BY Zenon DEF Restrict
  <1> HIDE DEF requests
  <1>6. ASSUME NEW n \in DOMAIN S.T.rows
        PROVE  /\ D.T.rows[n] \in RowSpace /\ RowRight(D.T.rows[n])
               /\ Bones(D.T.rows[n]) = Bones(S.T.rows[n])
               /\ D.T.rows[n].direction = S.T.rows[n].direction
               /\ D.T.rows[n].tls = S.T.rows[n].tls
               /\ D.T.rows[n].told = S.T.rows[n].told
               /\ D.T.rows[n].repeated = S.T.rows[n].repeated
    <2>1. S.T.rows[n] \in RowSpace /\ RowRight(S.T.rows[n])
      BY DEF SessionInv, TrackerInv
    <2>2. CASE n \in Asked(S)
      <3>1. D.T.rows[n] = [S.T.rows[n] EXCEPT !.route = S.requests[n]]
        BY <1>4, <2>2, Zenon DEF RoutedRows
      <3>2. S.requests[n] \in {"UNKNOWN", S.T.rows[n].direction}
        BY <2>2, Zenon DEF Asked, SessionInv
      <3> QED BY <2>1, <3>1, <3>2, RowRoute
    <2>3. CASE n \notin Asked(S)
      <3>1. D.T.rows[n] = S.T.rows[n]
        BY <1>4, <2>3, Zenon DEF RoutedRows
      <3> QED BY <2>1, <3>1, Zenon
    <2> QED BY <2>2, <2>3, Zenon
  <1>7. D.T.rows \in Seq(RowSpace) /\ DOMAIN D.T.rows = DOMAIN S.T.rows
    <2>1. D.T.rows = [n \in DOMAIN S.T.rows |-> D.T.rows[n]]
      BY <1>4, Zenon DEF RoutedRows
    <2> QED BY <1>1, <1>6, <2>1, RowsFunction, Zenon
  <1>8. NotesOnly(S.T, D.T)
    BY <1>4, <1>6, <1>7, Zenon DEF NotesOnly
  <1>9. TrackerInv(p, D.T) /\ Ids(D.T) = Ids(S.T)
    BY <1>8, NotesKeep, Zenon DEF SessionInv
  <1>10. ASSUME NEW n \in DOMAIN S.T.rows PROVE Reported(D, n)
    <2>1. Reported(S, n)
      BY Zenon DEF SessionInv
    <2> QED BY <1>2, <1>6, <2>1, Zenon DEF Reported
  <1>11. SessionInv(p, D)
    <2>1. D.pending \cap D.dispatched = {} /\ D.pending \cup D.dispatched = DOMAIN D.T.rows \ Ids(D.T)
      BY <1>2, <1>7, <1>9, Zenon DEF SessionInv
    <2>2. \A n \in DOMAIN D.requests : D.requests[n] \in {"UNKNOWN", D.T.rows[n].direction}
      <3>1. \A n \in DOMAIN S.requests : n \in DOMAIN S.T.rows
        BY DEF SessionInv, TrackerInv, Unended
      <3> QED BY <1>2, <1>5, <1>6, <3>1, Zenon DEF SessionInv
    <2>3. D.active = Ids(D.T) /\ DOMAIN D.requests \subseteq D.active /\ D.sessions \subseteq Sockets
      BY <1>2, <1>5, <1>9, Zenon DEF SessionInv
    <2> QED BY <1>2, <1>7, <1>9, <1>10, <2>1, <2>2, <2>3, Zenon DEF SessionInv
  <1>12. Follows(p, S.T, D)
    BY <1>8, <1>11, Zenon DEF Follows
  <1> QED BY <1>12, Zenon DEF D

\* drain_tls_sessions keeps the invariant: what it takes in are sessions of sockets.
LEMMA DrainKeeps ==
  ASSUME NEW S, SessionInv(config.platform, S), handshakes \subseteq Sockets, NEW late
  PROVE  Follows(config.platform, S.T, drain_tls_sessions(S, late))
  <1> DEFINE D == [S EXCEPT !.sessions = (@ \cup handshakes) \ late]
  <1>1. IsSession(S)
    BY Zenon DEF SessionInv
  <1>2. /\ IsSession(D) /\ D.T = S.T /\ D.active = S.active /\ D.requests = S.requests
        /\ D.pending = S.pending /\ D.dispatched = S.dispatched
        /\ D.sessions = (S.sessions \cup handshakes) \ late
    BY ONLY <1>1, Zenon DEF IsSession
  <1> HIDE DEF D
  <1>3. \A n \in DOMAIN S.T.rows : Reported(D, n)
    BY <1>2, Zenon DEF SessionInv, Reported
  <1>4. SessionInv(config.platform, D)
    BY <1>2, <1>3, Zenon DEF SessionInv
  <1>5. Follows(config.platform, S.T, correlate_tls_sessions(D))
    BY <1>2, <1>4, CorrelateKeeps, Zenon
  <1> QED BY <1>5, Zenon DEF D, drain_tls_sessions

\* The tracker T1 has ended the records in ids.
Ends(p, T, T1, ids) ==
  /\ TrackerInv(p, T1) /\ ids \subseteq Ids(T) /\ Ids(T1) = Ids(T) \ ids
  /\ DOMAIN T1.rows = DOMAIN T.rows
  /\ \A n \in DOMAIN T.rows : /\ Noted(T1.rows[n]) = Noted(T.rows[n])
                              /\ n \notin ids => T1.rows[n].direction = T.rows[n].direction

\* When the tracker has ended records, connection_closed takes them out of the
\* scheduler and of the route requests, and has each of them wait to be reported.
LEMMA ClosedKeeps ==
  ASSUME NEW p, NEW S, SessionInv(p, S), NEW T1, NEW ids, Ends(p, S.T, T1, ids)
  PROVE  Follows(p, T1, connection_closed([S EXCEPT !.T = T1], ids))
  <1> DEFINE C == connection_closed([S EXCEPT !.T = T1], ids)
             requests == Restrict(S.requests, DOMAIN S.requests \ ids)
  <1>1. IsSession(S)
    BY Zenon DEF SessionInv
  <1>2. /\ IsSession(C) /\ C.T = T1 /\ C.active = S.active \ ids /\ C.requests = requests
        /\ C.pending = S.pending \cup ids /\ C.dispatched = S.dispatched
        /\ C.sessions = S.sessions
    BY ONLY <1>1, Zenon DEF IsSession, connection_closed
  <1>3. /\ DOMAIN requests = DOMAIN S.requests \ ids
        /\ \A n \in DOMAIN requests : requests[n] = S.requests[n]
    BY Zenon DEF Restrict
  <1> HIDE DEF C, requests
  <1>4. Ids(S.T) \subseteq DOMAIN S.T.rows
    BY Zenon DEF SessionInv, TrackerInv, Unended
  <1>5. \A n \in DOMAIN S.T.rows : Reported(C, n)
    <2> TAKE n \in DOMAIN S.T.rows
    <2>1. Reported(S, n)
      BY Zenon DEF SessionInv
    <2>2. Noted(C.T.rows[n]) = Noted(S.T.rows[n])
      BY <1>2, Zenon DEF Ends
    <2> QED BY <1>2, <2>1, <2>2, ReportedSame, Zenon
  <1>6. /\ C.pending \cap C.dispatched = {}
        /\ C.pending \cup C.dispatched = DOMAIN C.T.rows \ Ids(C.T)
    BY <1>2, <1>4, Zenon DEF SessionInv, Ends
  <1>7. C.active = Ids(C.T) /\ DOMAIN C.requests \subseteq C.active /\ C.sessions \subseteq Sockets
    BY <1>2, <1>3, Zenon DEF SessionInv, Ends
  <1>8. \A n \in DOMAIN C.requests : C.requests[n] \in {"UNKNOWN", C.T.rows[n].direction}
    <2> TAKE n \in DOMAIN C.requests
    <2>1. n \in DOMAIN S.requests /\ n \notin ids /\ C.requests[n] = S.requests[n]
      BY <1>2, <1>3, Zenon
    <2>2. n \in DOMAIN S.T.rows /\ S.requests[n] \in {"UNKNOWN", S.T.rows[n].direction}
      BY <1>4, <2>1, Zenon DEF SessionInv
    <2>3. C.T.rows[n].direction = S.T.rows[n].direction
      BY <1>2, <2>1, <2>2, Zenon DEF Ends
    <2> QED BY <2>1, <2>2, <2>3, Zenon
  <1>9. SessionInv(p, C)
    BY <1>2, <1>5, <1>6, <1>7, <1>8, Zenon DEF SessionInv, Ends
  <1>10. NotesOnly(T1, C.T)
    BY <1>2, NotesNone, Zenon DEF Ends
  <1> QED BY <1>9, <1>10, Zenon DEF Follows, C

\* When the tracker has begun a record, record_admission schedules it with the
\* direction it has.
LEMMA AdmissionKeeps ==
  ASSUME NEW S, SessionInv(config.platform, S), NEW A, NEW t, NEW d,
         Continues(config.platform, S.T, A.T, A.id), AnswerNew(S.T, A, t, d)
  PROVE  Follows(config.platform, A.T, record_admission([S EXCEPT !.T = A.T], A.id, d))
  <1> DEFINE id == A.id
             requests == [n \in DOMAIN S.requests \cup {id} |-> IF n = id THEN d ELSE S.requests[n]]
             U == [S EXCEPT !.T = A.T]
             C == [U EXCEPT !.active = @ \cup {id}, !.due = @ \cup {id},
                     !.requests = [n \in DOMAIN @ \cup {id} |-> IF n = id THEN d ELSE @[n]]]
  <1>1. IsSession(S)
    BY Zenon DEF SessionInv
  <1>2. /\ IsSession(C) /\ C.T = A.T /\ C.active = S.active \cup {id} /\ C.requests = requests
        /\ C.pending = S.pending /\ C.dispatched = S.dispatched
        /\ C.sessions = S.sessions
    BY ONLY <1>1, Zenon DEF IsSession
  <1>3. /\ DOMAIN requests = DOMAIN S.requests \cup {id} /\ requests[id] = d
        /\ \A n \in DOMAIN S.requests : n # id => requests[n] = S.requests[n]
    BY Zenon
  <1>13. record_admission(U, A.id, d) = correlate_tls_sessions(C)
    BY Zenon DEF record_admission
  <1> HIDE DEF C, requests, U
  <1>4. Ids(S.T) \subseteq DOMAIN S.T.rows
    BY Zenon DEF SessionInv, TrackerInv, Unended
  <1>5. /\ id \notin DOMAIN S.T.rows /\ DOMAIN C.T.rows = DOMAIN S.T.rows \cup {id}
        /\ Ids(C.T) = Ids(S.T) \cup {id} /\ TrackerInv(config.platform, C.T)
        /\ FreshRow(C.T.rows[id]) /\ C.T.rows[id].direction = d
        /\ \A n \in DOMAIN S.T.rows : C.T.rows[n] = S.T.rows[n]
    BY <1>2, Zenon DEF AnswerNew, Continues
  <1>6. S.pending \cup S.dispatched \subseteq DOMAIN S.T.rows
    BY Zenon DEF SessionInv
  <1>7. ASSUME NEW n \in DOMAIN C.T.rows PROVE Reported(C, n)
    <2>1. CASE n = id
      <3>1. /\ C.T.rows[id].told = {} /\ ~C.T.rows[id].repeated
            /\ n \notin C.dispatched
        BY <1>2, <1>5, <1>6, <2>1, Zenon DEF FreshRow, Noted
      <3> QED BY <2>1, <3>1, Zenon DEF Reported
    <2>2. CASE n # id
      <3>1. Reported(S, n) /\ C.T.rows[n] = S.T.rows[n]
        BY <1>5, <2>2, Zenon DEF SessionInv
      <3> QED BY <1>2, <3>1, ReportedSame, Zenon
    <2> QED BY <2>1, <2>2, Zenon
  <1>8. /\ C.pending \cap C.dispatched = {}
        /\ C.pending \cup C.dispatched = DOMAIN C.T.rows \ Ids(C.T)
    BY <1>2, <1>5, <1>6 DEF SessionInv
  <1>9. C.active = Ids(C.T) /\ DOMAIN C.requests \subseteq C.active /\ C.sessions \subseteq Sockets
    BY <1>2, <1>3, <1>5, Zenon DEF SessionInv
  <1>10. \A n \in DOMAIN C.requests : C.requests[n] \in {"UNKNOWN", C.T.rows[n].direction}
    <2> TAKE n \in DOMAIN C.requests
    <2>1. CASE n = id
      BY <1>2, <1>3, <1>5, <2>1, Zenon
    <2>2. CASE n # id
      <3>1. n \in DOMAIN S.requests /\ C.requests[n] = S.requests[n]
        BY <1>2, <1>3, <2>2, Zenon
      <3>2. n \in DOMAIN S.T.rows /\ S.requests[n] \in {"UNKNOWN", S.T.rows[n].direction}
        BY <1>4, <3>1, Zenon DEF SessionInv
      <3> QED BY <1>5, <3>1, <3>2, Zenon
    <2> QED BY <2>1, <2>2, Zenon
  <1>11. SessionInv(config.platform, C)
    BY <1>2, <1>5, <1>7, <1>8, <1>9, <1>10, Zenon DEF SessionInv
  <1>12. Follows(config.platform, A.T, correlate_tls_sessions(C))
    BY <1>2, <1>11, CorrelateKeeps, Zenon
  <1> QED BY <1>12, <1>13, Zenon DEF U

\* The session U is S with the tracker of the answer A, which may have promoted a direction.
Updated(S, A, d, U) ==
  /\ IsSession(U) /\ U.T = A.T /\ U.active = S.active /\ U.pending = S.pending
  /\ U.dispatched = S.dispatched /\ U.sessions = S.sessions
  /\ DOMAIN U.requests = DOMAIN S.requests
  /\ \A n \in DOMAIN S.requests :
       U.requests[n] = IF A.promoted /\ n = A.id THEN d ELSE S.requests[n]

\* When the tracker has found a record, the session's requests are brought up to date
\* with its direction.
LEMMA UpdateKeeps ==
  ASSUME NEW p, NEW S, SessionInv(p, S), NEW A, NEW t, NEW d,
         Continues(p, S.T, A.T, A.id), AnswerKept(S.T, A, t, d), NEW U, Updated(S, A, d, U)
  PROVE  Follows(p, A.T, U)
  <1>1. /\ TrackerInv(p, U.T) /\ Ids(U.T) = Ids(S.T) /\ DOMAIN U.T.rows = DOMAIN S.T.rows
        /\ \A n \in DOMAIN S.T.rows : /\ Noted(U.T.rows[n]) = Noted(S.T.rows[n])
                                      /\ n # A.id => U.T.rows[n] = S.T.rows[n]
        /\ U.T.rows[A.id].direction = IF A.promoted THEN d ELSE S.T.rows[A.id].direction
    BY Zenon DEF Continues, AnswerKept, SameRecords, Updated
  <1>2. \A n \in DOMAIN S.T.rows : Reported(U, n)
    <2> TAKE n \in DOMAIN S.T.rows
    <2>1. Reported(S, n)
      BY Zenon DEF SessionInv
    <2> QED BY <1>1, <2>1, ReportedSame, Zenon DEF Updated
  <1>3. \A n \in DOMAIN U.requests : U.requests[n] \in {"UNKNOWN", U.T.rows[n].direction}
    <2> TAKE n \in DOMAIN U.requests
    <2>1. n \in DOMAIN S.T.rows /\ S.requests[n] \in {"UNKNOWN", S.T.rows[n].direction}
      BY DEF SessionInv, TrackerInv, Unended, Updated
    <2>2. CASE n = A.id /\ A.promoted
      BY <1>1, <2>2, Zenon DEF Updated
    <2>3. CASE n = A.id /\ ~A.promoted
      BY <1>1, <2>1, <2>3, Zenon DEF Updated
    <2>4. CASE n # A.id
      BY <1>1, <2>1, <2>4, Zenon DEF Updated
    <2> QED BY <2>2, <2>3, <2>4, Zenon
  <1>4. SessionInv(p, U)
    BY <1>1, <1>2, <1>3, Zenon DEF SessionInv, Updated
  <1>5. NotesOnly(A.T, U.T)
    BY <1>1, NotesNone, Zenon DEF Updated
  <1> QED BY <1>4, <1>5, Zenon DEF Follows

\* Whatever the tracker answered, the collections of the session agree with it once
\* the session has applied it.
LEMMA ApplyKeeps ==
  ASSUME NEW S, SessionInv(config.platform, S), NEW A, NEW t, NEW d,
         Answer(config.platform, S.T, A, t, d)
  PROVE  Follows(config.platform, A.T, Apply(S, A, d))
  <1> DEFINE p == config.platform
             U == [S EXCEPT !.T = A.T]
             V == record_direction_promotion(U, A.id, d)
  <1>1. IsSession(S)
    BY Zenon DEF SessionInv
  <1>2. /\ IsSession(U) /\ U.T = A.T /\ U.active = S.active /\ U.pending = S.pending
        /\ U.dispatched = S.dispatched /\ U.sessions = S.sessions /\ U.requests = S.requests
    BY ONLY <1>1, Zenon DEF IsSession
  <1> HIDE DEF U
  <1>3. /\ IsSession(V) /\ V.T = A.T /\ V.active = S.active /\ V.pending = S.pending
        /\ V.dispatched = S.dispatched /\ V.sessions = S.sessions
        /\ DOMAIN V.requests = DOMAIN S.requests
        /\ \A n \in DOMAIN S.requests : V.requests[n] = IF n = A.id THEN d ELSE S.requests[n]
    BY ONLY <1>2, Zenon DEF IsSession, record_direction_promotion
  <1> HIDE DEF V
  <1>4. CASE A = Nothing(S.T)
    <2>1. A.T = S.T /\ A.new = FALSE /\ A.promoted = FALSE /\ A.closed = FALSE
      BY <1>4, Zenon DEF Nothing
    <2>2. Apply(S, A, d) = U
      BY <2>1, Zenon DEF Apply, U
    <2>3. \A n \in DOMAIN S.T.rows : Reported(U, n)
      BY <1>2, <2>1, Zenon DEF SessionInv, Reported
    <2>4. SessionInv(p, U)
      BY <1>2, <2>1, <2>3, Zenon DEF SessionInv
    <2>5. NotesOnly(A.T, U.T)
      BY <1>2, <2>1, NotesNone, Zenon DEF SessionInv
    <2> QED BY <2>2, <2>4, <2>5, Zenon DEF Follows
  <1>5. CASE Continues(p, S.T, A.T, A.id) /\ AnswerNew(S.T, A, t, d)
    <2>1. Apply(S, A, d) = record_admission([S EXCEPT !.T = A.T], A.id, d)
      BY <1>5, Zenon DEF Apply, AnswerNew
    <2> QED BY <1>5, <2>1, AdmissionKeeps, Zenon
  <1>6. CASE Continues(p, S.T, A.T, A.id) /\ AnswerClosed(S.T, A, t)
    <2>1. Apply(S, A, d) = connection_closed([S EXCEPT !.T = A.T], {A.id})
      BY <1>6, Zenon DEF Apply, AnswerClosed
    <2>2. Ends(p, S.T, A.T, {A.id})
      BY <1>6, Zenon DEF Ends, AnswerClosed, Continues
    <2> QED BY <2>1, <2>2, ClosedKeeps, Zenon
  <1>7. CASE Continues(p, S.T, A.T, A.id) /\ AnswerKept(S.T, A, t, d)
    <2>1. CASE A.promoted
      <3>1. Apply(S, A, d) = V
        BY <1>7, <2>1, Zenon DEF Apply, AnswerKept, U, V
      <3>2. \A n \in DOMAIN S.requests :
              V.requests[n] = IF A.promoted /\ n = A.id THEN d ELSE S.requests[n]
        BY <1>3, <2>1, Zenon
      <3>3. Updated(S, A, d, V)
        BY <1>3, <3>2, Zenon DEF Updated
      <3>4. Follows(p, A.T, V)
        BY <1>7, <3>3, UpdateKeeps, Zenon
      <3> QED BY <3>1, <3>4, Zenon
    <2>2. CASE ~A.promoted
      <3>1. Apply(S, A, d) = U
        BY <1>7, <2>2, Zenon DEF Apply, AnswerKept, U
      <3>2. \A n \in DOMAIN S.requests :
              U.requests[n] = IF A.promoted /\ n = A.id THEN d ELSE S.requests[n]
        BY <1>2, <2>2, Zenon
      <3>3. Updated(S, A, d, U)
        BY <1>2, <3>2, Zenon DEF Updated
      <3>4. Follows(p, A.T, U)
        BY <1>7, <3>3, UpdateKeeps, Zenon
      <3> QED BY <3>1, <3>4, Zenon
    <2> QED BY <2>1, <2>2, Zenon
  <1> QED BY <1>4, <1>5, <1>6, <1>7, Zenon DEF Answer

-----------------------------------------------------------------------------
(* The events that are queued *)

\* The events that run() has still to handle, in the order they happened.
Queue == batch \o ring

\* A socket opens before it closes, and each of the two is announced once.
QueueInv(q, ph) ==
  /\ q \in Seq(EventSpace)
  /\ \A j, k \in DOMAIN q : j < k /\ q[j].socket = q[k].socket
                              => q[j].type # "CLOSE" /\ q[k].type = "CLOSE"
  /\ \A k \in DOMAIN q : /\ ph[q[k].socket] # "none"
                         /\ q[k].type = "CLOSE" => ph[q[k].socket] \in {"tail", "gone"}

Queued(q, s) == \E k \in DOMAIN q : q[k].socket = s
OpenQueued(q, s) == \E k \in DOMAIN q : q[k].socket = s /\ q[k].type # "CLOSE"

\* Nothing is queued in q1 that is not in q.
NoneAdded(q, q1, s) ==
  (Queued(q1, s) => Queued(q, s)) /\ (OpenQueued(q1, s) => OpenQueued(q, s))

\* The first event of q has been taken.
Taken(q, ph, event, q1) ==
  /\ QueueInv(q1, ph) /\ event \in EventSpace /\ ph[event.socket] # "none"
  /\ event.type # "CLOSE" => OpenQueued(q, event.socket)
  /\ Queued(q, event.socket) /\ ~OpenQueued(q1, event.socket)
  /\ event.type = "CLOSE" => /\ ph[event.socket] \in {"tail", "gone"}
                             /\ ~Queued(q1, event.socket)
  /\ \A s \in Sockets : NoneAdded(q, q1, s)

\* The first event of the queue: if it opens a socket no other such event is left, if
\* it closes one nothing of that socket is.
LEMMA HeadTaken ==
  ASSUME NEW q, NEW ph, QueueInv(q, ph), q # <<>>
  PROVE  Taken(q, ph, Head(q), Tail(q))
  <1> DEFINE q1 == Tail(q)
             event == Head(q)
  <1>1. q \in Seq(EventSpace)
    BY Zenon DEF QueueInv
  <1>2. /\ q1 \in Seq(EventSpace) /\ 1 \in DOMAIN q /\ event = q[1]
        /\ \A k \in DOMAIN q1 : k \in Nat /\ k >= 1 /\ k + 1 \in DOMAIN q /\ q1[k] = q[k + 1]
    BY <1>1
  <1> HIDE DEF q1, event
  <1>3. \A k \in DOMAIN q : q[k] \in EventSpace
    BY <1>1
  <1>4. event \in EventSpace /\ Queued(q, event.socket) /\ ph[event.socket] # "none"
    BY <1>2, <1>3, Zenon DEF Queued, QueueInv
  <1>5. event.type # "CLOSE" => OpenQueued(q, event.socket)
    BY <1>2, Zenon DEF OpenQueued
  <1>6. ASSUME NEW k \in DOMAIN q1, q1[k].socket = event.socket
        PROVE  event.type # "CLOSE" /\ q1[k].type = "CLOSE"
    <2>1. 1 < k + 1 /\ k + 1 \in DOMAIN q /\ q[1].socket = q[k + 1].socket
      BY <1>2, <1>6
    <2> QED BY <1>2, <2>1, Zenon DEF QueueInv
  <1>7. event.type = "CLOSE" => ph[event.socket] \in {"tail", "gone"}
    BY <1>2, Zenon DEF QueueInv
  <1>8. \A s \in Sockets : NoneAdded(q, q1, s)
    BY <1>2, Zenon DEF NoneAdded, Queued, OpenQueued
  <1>9. QueueInv(q1, ph)
    <2>1. ASSUME NEW j \in DOMAIN q1, NEW k \in DOMAIN q1, j < k, q1[j].socket = q1[k].socket
          PROVE  q1[j].type # "CLOSE" /\ q1[k].type = "CLOSE"
      <3>1. j + 1 < k + 1 /\ j + 1 \in DOMAIN q /\ k + 1 \in DOMAIN q
        BY <1>2, <2>1
      <3> QED BY <1>2, <2>1, <3>1 DEF QueueInv
    <2>2. ASSUME NEW k \in DOMAIN q1
          PROVE  /\ ph[q1[k].socket] # "none"
                 /\ q1[k].type = "CLOSE" => ph[q1[k].socket] \in {"tail", "gone"}
      <3>1. k + 1 \in DOMAIN q /\ q1[k] = q[k + 1]
        BY <1>2, Zenon
      <3> QED BY <3>1, Zenon DEF QueueInv
    <2> QED BY <1>2, <2>1, <2>2, Zenon DEF QueueInv
  <1>10. /\ ~OpenQueued(q1, event.socket)
         /\ event.type = "CLOSE" => ~Queued(q1, event.socket)
    BY <1>6, Zenon DEF OpenQueued, Queued
  <1> QED BY <1>4, <1>5, <1>7, <1>8, <1>9, <1>10, Zenon DEF Taken, q1, event

\* The event is added to q.
LEMMA EventAdded ==
  ASSUME NEW q, q \in Seq(EventSpace), NEW event \in EventSpace, NEW q1, q1 = Append(q, event)
  PROVE  /\ q1 \in Seq(EventSpace) /\ Len(q) \in Nat /\ DOMAIN q = 1 .. Len(q)
         /\ DOMAIN q1 = 1 .. (Len(q) + 1)
         /\ q1[Len(q) + 1] = event /\ \A k \in DOMAIN q : q1[k] = q[k]
  OBVIOUS

\* The socket of the event goes to the phase ph1.
Announced(q, ph, event, q1, ph1) ==
  /\ QueueInv(q, ph) /\ event \in EventSpace /\ q1 = Append(q, event)
  /\ ph1[event.socket] # "none"
  /\ \A s \in Sockets : s # event.socket => ph1[s] = ph[s]
  /\ \/ event.type # "CLOSE" /\ ph[event.socket] = "none"
     \/ event.type = "CLOSE" /\ ph[event.socket] = "open" /\ ph1[event.socket] = "tail"

\* An event that a socket announces as it opens or closes comes after everything of
\* it, and concerns no other socket.
LEMMA AnnouncedKeeps ==
  ASSUME NEW q, NEW ph, NEW event, NEW q1, NEW ph1, Announced(q, ph, event, q1, ph1)
  PROVE  /\ QueueInv(q1, ph1)
         /\ \A s \in Sockets : s # event.socket => NoneAdded(q, q1, s)
         /\ event.type = "CLOSE" /\ OpenQueued(q1, event.socket) => OpenQueued(q, event.socket)
  <1> DEFINE n == Len(q) + 1
             t == event.socket
  <1>1. q \in Seq(EventSpace) /\ event \in EventSpace /\ q1 = Append(q, event)
    BY Zenon DEF Announced, QueueInv
  <1>2. /\ q1 \in Seq(EventSpace) /\ Len(q) \in Nat /\ DOMAIN q = 1 .. Len(q)
        /\ DOMAIN q1 = 1 .. n /\ q1[n] = event /\ \A k \in DOMAIN q : q1[k] = q[k]
    BY <1>1, EventAdded
  <1>3. \A k \in DOMAIN q : k < n /\ q[k] \in EventSpace
    BY <1>1, <1>2
  <1>4. \A k \in DOMAIN q1 : k = n \/ k \in DOMAIN q
    BY <1>2
  <1>5. n \in Nat /\ \A k \in DOMAIN q1 : k \in Nat /\ k <= n
    BY <1>2
  <1> HIDE DEF n
  <1>6. ASSUME NEW k \in DOMAIN q, q[k].socket = t
        PROVE  event.type = "CLOSE" /\ q[k].type # "CLOSE"
    BY <1>6, Zenon DEF Announced, QueueInv
  <1>7. ASSUME NEW j \in DOMAIN q1, NEW k \in DOMAIN q1, j < k, q1[j].socket = q1[k].socket
        PROVE  q1[j].type # "CLOSE" /\ q1[k].type = "CLOSE"
    <2>1. j \in DOMAIN q /\ q1[j] = q[j]
      BY <1>2, <1>4, <1>5, <1>7
    <2>2. CASE k = n
      BY <1>2, <1>6, <1>7, <2>1, <2>2, ZenonT(30)
    <2>3. CASE k \in DOMAIN q
      BY <1>2, <1>7, <2>1, <2>3 DEF Announced, QueueInv
    <2> QED BY <1>4, <2>2, <2>3, Zenon
  <1>8. ASSUME NEW k \in DOMAIN q1
        PROVE  /\ ph1[q1[k].socket] # "none"
               /\ q1[k].type = "CLOSE" => ph1[q1[k].socket] \in {"tail", "gone"}
    <2>1. CASE k = n
      BY <1>2, <2>1, Zenon DEF Announced
    <2>2. CASE k \in DOMAIN q /\ q[k].socket = t
      BY <1>2, <1>6, <2>2, Zenon DEF Announced
    <2>3. CASE k \in DOMAIN q /\ q[k].socket # t
      <3>1. q[k].socket \in Sockets /\ q1[k] = q[k]
        BY <1>2, <1>3, <2>3, Zenon DEF EventSpace
      <3> QED BY <2>3, <3>1, Zenon DEF Announced, QueueInv
    <2> QED BY <1>4, <2>1, <2>2, <2>3, Zenon
  <1>9. QueueInv(q1, ph1)
    BY <1>2, <1>7, <1>8, Zenon DEF QueueInv
  <1>10. \A s \in Sockets : s # t => NoneAdded(q, q1, s)
    BY <1>2, <1>4, Zenon DEF NoneAdded, Queued, OpenQueued
  <1>11. event.type = "CLOSE" /\ OpenQueued(q1, t) => OpenQueued(q, t)
    BY <1>2, <1>4, Zenon DEF OpenQueued
  <1> QED BY <1>9, <1>10, <1>11, Zenon

-----------------------------------------------------------------------------
(* The records of a socket that has its tuple for itself *)

\* The records of s, but for those that end_snapshot gave up as preexisting.
Kept(T, s) ==
  {n \in DOMAIN T.rows : T.rows[n].socket = s /\ T.rows[n].state # "PREEXISTING_DISAPPEARED"}
IsOf(T, i, s) == i \in DOMAIN T.conns /\ T.rows[T.conns[i].id].socket = s

\* There is one at most.  It ends after the socket was closed and its last event read,
\* and until its first event is read the record is one that a snapshot has found.
RecordsInv(T, q, ph, s) ==
  /\ \A m, n \in Kept(T, s) : m = n
  /\ \A n \in Kept(T, s) : ph[s] # "none"
  /\ \A n \in Kept(T, s) :
       T.rows[n].state \in Ended => ph[s] \in {"tail", "gone"} /\ ~Queued(q, s)
  /\ \A i \in DOMAIN T.conns : IsOf(T, i, s) /\ OpenQueued(q, s) => snapshot_owned(T.conns[i])

\* While polling, the entry of s has the identity that snapshots give s, so that a
\* snapshot that has s finds it.
PollingInv(c, T, todo, scanning, ph, s) ==
  ~c.exact => \A i \in DOMAIN T.conns : IsOf(T, i, s) =>
      /\ i = SocketIdentity(c.platform, s)
      /\ scanning /\ ph[s] \in {"open", "tail"} => s \in todo \/ T.conns[i].present

\* Nothing new is said of s in U.
Untouched(T, U, s) ==
  /\ \A n \in Kept(U, s) : n \in Kept(T, s) /\ U.rows[n].state = T.rows[n].state
  /\ \A i \in DOMAIN U.conns :
       IsOf(U, i, s) => IsOf(T, i, s) /\ U.conns[i].origin = T.conns[i].origin

\* A step that says nothing new of a socket keeps what holds of its records.
LEMMA UntouchedRecords ==
  ASSUME NEW T, NEW U, NEW s, Untouched(T, U, s), NEW q, NEW q1, NoneAdded(q, q1, s),
         NEW ph, NEW ph1, ph1[s] = ph[s], RecordsInv(T, q, ph, s)
  PROVE  RecordsInv(U, q1, ph1, s)
  <1>1. /\ \A m, n \in Kept(U, s) : m = n
        /\ \A n \in Kept(U, s) : ph1[s] # "none"
    BY Zenon DEF Untouched, RecordsInv
  <1>2. \A n \in Kept(U, s) :
          U.rows[n].state \in Ended => ph1[s] \in {"tail", "gone"} /\ ~Queued(q1, s)
    BY Zenon DEF Untouched, RecordsInv, NoneAdded
  <1>3. \A i \in DOMAIN U.conns : IsOf(U, i, s) /\ OpenQueued(q1, s) => snapshot_owned(U.conns[i])
    BY Zenon DEF Untouched, RecordsInv, NoneAdded, snapshot_owned, IsOf
  <1> QED BY <1>1, <1>2, <1>3, Zenon DEF RecordsInv

\* Notes in rows say nothing new of a socket.
LEMMA NotesUntouched ==
  ASSUME NEW p, NEW T, TrackerInv(p, T), NEW U, NotesOnly(T, U), NEW s
  PROVE  Untouched(T, U, s)
  <1>1. \A n \in DOMAIN T.rows :
          U.rows[n].socket = T.rows[n].socket /\ U.rows[n].state = T.rows[n].state
    BY Zenon DEF NotesOnly, Bones
  <1>2. \A i \in DOMAIN T.conns : T.conns[i].id \in DOMAIN T.rows
    BY Zenon DEF TrackerInv, EntryRight
  <1>3. U.conns = T.conns /\ DOMAIN U.rows = DOMAIN T.rows
    BY Zenon DEF NotesOnly
  <1> QED BY <1>1, <1>2, <1>3, Zenon DEF Untouched, Kept, IsOf

\* A socket whose tuple nobody else has is kin to nobody.
LEMMA AloneKin ==
  ASSUME NEW s \in Alone
  PROVE  /\ s \in Sockets
         /\ \A t \in Sockets : s \in Kin(t) \/ t \in Kin(s) => t = s
  <1>1. s \in Sockets
    BY Zenon DEF Alone
  <1>2. Kin(s) = {s} /\ \A t \in Sockets : s \in Kin(t) => t \in Kin(s)
    BY <1>1, KinFacts, Zenon
  <1> QED BY <1>1, <1>2, Zenon

EntriesStay(T, U, s) ==
  \A i \in DOMAIN U.conns : IsOf(U, i, s) => IsOf(T, i, s) /\ U.conns[i] = T.conns[i]

\* An answer about another socket.
LEMMA AnswerUntouched ==
  ASSUME NEW p, NEW T, TrackerInv(p, T), NEW A, NEW t \in Sockets, NEW d, Answer(p, T, A, t, d),
         NEW s \in Alone, s # t
  PROVE  Untouched(T, A.T, s) /\ EntriesStay(T, A.T, s)
  <1>0. \A i \in DOMAIN T.conns : T.conns[i].id \in DOMAIN T.rows
    BY Zenon DEF TrackerInv, EntryRight
  <1>1. CASE A = Nothing(T)
    <2>1. A.T = T
      BY <1>1, Zenon DEF Nothing
    <2> QED BY <2>1, Zenon DEF Untouched, EntriesStay
  <1>2. CASE Continues(p, T, A.T, A.id) /\ AnswerNew(T, A, t, d)
    <2>1. /\ DOMAIN A.T.rows = DOMAIN T.rows \cup {A.id} /\ A.id \notin DOMAIN T.rows
          /\ A.T.rows[A.id].socket # s
          /\ \A n \in DOMAIN T.rows : A.T.rows[n] = T.rows[n]
          /\ \A j \in DOMAIN A.T.conns :
               A.T.conns[j].id # A.id => j \in DOMAIN T.conns /\ A.T.conns[j] = T.conns[j]
      BY <1>2, Zenon DEF Continues, AnswerNew
    <2>2. \A n \in Kept(A.T, s) : n \in Kept(T, s) /\ A.T.rows[n].state = T.rows[n].state
      BY <2>1, Zenon DEF Kept
    <2>3. ASSUME NEW i \in DOMAIN A.T.conns, IsOf(A.T, i, s)
          PROVE  IsOf(T, i, s) /\ A.T.conns[i] = T.conns[i]
      <3>1. A.T.conns[i].id # A.id
        BY <2>1, <2>3, Zenon DEF IsOf
      <3>2. i \in DOMAIN T.conns /\ A.T.conns[i] = T.conns[i] /\ T.conns[i].id \in DOMAIN T.rows
        BY <1>0, <2>1, <3>1, Zenon
      <3> QED BY <2>1, <2>3, <3>2, Zenon DEF IsOf
    <2> QED BY <2>2, <2>3, Zenon DEF Untouched, EntriesStay
  <1>3. ASSUME Continues(p, T, A.T, A.id), A.id \in Ids(T), t \in Kin(T.rows[A.id].socket),
               DOMAIN A.T.rows = DOMAIN T.rows
        PROVE  Untouched(T, A.T, s) /\ EntriesStay(T, A.T, s)
    <2>1. A.id \in DOMAIN T.rows /\ T.rows[A.id].socket \in Sockets
      <3>1. A.id \in DOMAIN T.rows
        BY <1>3, Zenon DEF TrackerInv, Unended
      <3>2. T.rows[A.id] \in RowSpace
        BY <3>1 DEF TrackerInv
      <3> QED BY <3>1, <3>2, Zenon DEF RowSpace
    <2>2. T.rows[A.id].socket # s
      BY <1>3, <2>1, AloneKin, Zenon
    <2>3. A.T.rows[A.id].socket = T.rows[A.id].socket
      BY <1>3, <2>1, Zenon DEF Continues, RowsGoOn, RowGoesOn
    <2>4. /\ \A n \in DOMAIN T.rows : n # A.id => A.T.rows[n] = T.rows[n]
          /\ \A j \in DOMAIN A.T.conns :
               A.T.conns[j].id # A.id => j \in DOMAIN T.conns /\ A.T.conns[j] = T.conns[j]
      BY <1>3, Zenon DEF Continues
    <2>5. \A n \in Kept(A.T, s) : n \in Kept(T, s) /\ A.T.rows[n].state = T.rows[n].state
      BY <1>3, <2>2, <2>3, <2>4, Zenon DEF Kept
    <2>6. \A i \in DOMAIN A.T.conns :
            IsOf(A.T, i, s) => IsOf(T, i, s) /\ A.T.conns[i] = T.conns[i]
      BY <1>0, <2>2, <2>3, <2>4, ZenonT(30) DEF IsOf
    <2> QED BY <2>5, <2>6, Zenon DEF Untouched, EntriesStay
  <1> QED BY <1>1, <1>2, <1>3, Zenon DEF Answer, AnswerClosed, AnswerKept, SameRecords

\* An entry of s is the only one with the key of s.
LEMMA FoundByKey ==
  ASSUME NEW p, NEW T, TrackerInv(p, T), NEW s \in Alone, NEW i, IsOf(T, i, s),
         \A m, n \in Kept(T, s) : m = n
  PROVE  UniqueMatch(T, KeyOf(p, TupleOf[s], s, TRUE)) = {i}
  <1> DEFINE key == KeyOf(p, TupleOf[s], s, TRUE)
             candidates0 == {x \in DOMAIN T.index : T.index[x] = key /\ x \in DOMAIN T.conns}
  <1>1. ASSUME NEW j, IsOf(T, j, s)
        PROVE  T.conns[j].id \in Kept(T, s) /\ T.index[j] = key
    <2> DEFINE id == T.conns[j].id
    <2>1. Tracks(T, j, id)
      BY <1>1, Zenon DEF Tracks, IsOf
    <2>2. EntryRight(p, T, j, id) /\ id \in DOMAIN T.rows /\ T.rows[id].state \notin Ended
      BY <2>1, RowOfEntry, Zenon
    <2> QED BY <1>1, <2>2, Zenon DEF IsOf, Kept, EntryRight, Ended
  <1>2. i \in candidates0
    BY <1>1, Zenon DEF IsOf, TrackerInv
  <1>3. ASSUME NEW j \in candidates0 PROVE j = i
    <2> DEFINE id == T.conns[j].id
               t == T.rows[id].socket
    <2>1. Tracks(T, j, id)
      BY Zenon DEF Tracks
    <2>2. EntryRight(p, T, j, id) /\ t \in Sockets
      BY <2>1, RowOfEntry, Zenon
    <2>3. T.index[j] = KeyOf(p, TupleOf[t], t, TRUE)
      BY <2>2, Zenon DEF EntryRight
    <2> HIDE DEF t
    <2>4. TupleOf[t] = TupleOf[s]
      <3>1. KeyOf(p, TupleOf[t], t, TRUE) = KeyOf(p, TupleOf[s], s, TRUE)
        BY <2>3, Zenon
      <3> QED BY ONLY <3>1, Zenon DEF KeyOf
    <2>5. t \in Kin(s)
      BY <2>2, <2>4, Zenon DEF Kin
    <2>6. t = s
      BY <2>2, <2>5, AloneKin, Zenon
    <2>7. IsOf(T, j, s)
      BY <2>6, Zenon DEF IsOf, t
    <2>8. T.conns[j].id = T.conns[i].id
      BY <1>1, <2>7, Zenon
    <2> QED BY <2>7, <2>8, Zenon DEF IsOf, TrackerInv
  <1>4. candidates0 = {i}
    BY <1>2, <1>3, Zenon
  <1>5. UniqueMatch(T, key) = {x \in candidates0 : candidates0 = {x}}
    BY Zenon DEF UniqueMatch
  <1> HIDE DEF candidates0
  <1> QED BY <1>4, <1>5, Zenon

\* The record of an entry is one that counts.
LEMMA EntryIsKept ==
  ASSUME NEW p, NEW T, TrackerInv(p, T), NEW s, NEW i, IsOf(T, i, s)
  PROVE  T.conns[i].id \in Kept(T, s)
  <1> DEFINE id == T.conns[i].id
  <1>1. Tracks(T, i, id)
    BY Zenon DEF Tracks, IsOf
  <1>2. id \in DOMAIN T.rows /\ T.rows[id].state \notin Ended
    BY <1>1, RowOfEntry, Zenon
  <1> QED BY <1>2, Zenon DEF IsOf, Kept, Ended

\* A record that counts and has not ended has an entry.
LEMMA KeptIsEntry ==
  ASSUME NEW p, NEW T, TrackerInv(p, T), NEW s, NEW n \in Kept(T, s), T.rows[n].state \notin Ended
  PROVE  \E i \in DOMAIN T.conns : IsOf(T, i, s) /\ T.conns[i].id = n
  <1>1. n \in Unended(T)
    BY Zenon DEF Kept, Unended
  <1>2. n \in Ids(T)
    BY <1>1, Zenon DEF TrackerInv
  <1>3. PICK i \in DOMAIN T.conns : T.conns[i].id = n
    BY <1>2, Zenon DEF Ids
  <1> QED BY <1>3, Zenon DEF IsOf, Kept

\* Until the first event of s is read, the entry of the record id is a snapshot's.
OwnedUntil(U, id, q, s) ==
  \A i \in DOMAIN U.conns : U.conns[i].id = id /\ OpenQueued(q, s) => snapshot_owned(U.conns[i])

\* A record that is begun is the only one if there was none.
LEMMA NewRecords ==
  ASSUME NEW p, NEW T, TrackerInv(p, T), NEW A, NEW s, NEW d,
         Continues(p, T, A.T, A.id), AnswerNew(T, A, s, d),
         NEW q, NEW ph, Kept(T, s) = {}, ph[s] # "none", OwnedUntil(A.T, A.id, q, s)
  PROVE  RecordsInv(A.T, q, ph, s)
  <1>1. /\ A.id \in Ids(A.T) /\ DOMAIN A.T.rows = DOMAIN T.rows \cup {A.id}
        /\ A.id \notin DOMAIN T.rows /\ \A n \in DOMAIN T.rows : A.T.rows[n] = T.rows[n]
        /\ \A j \in DOMAIN A.T.conns :
             A.T.conns[j].id # A.id => j \in DOMAIN T.conns /\ A.T.conns[j] = T.conns[j]
        /\ Ids(A.T) = Unended(A.T)
    BY Zenon DEF Continues, AnswerNew, TrackerInv
  <1>2. A.T.rows[A.id].state \notin Ended
    BY <1>1, Zenon DEF Unended
  <1>3. \A n \in Kept(A.T, s) : n = A.id
    BY <1>1, Zenon DEF Kept
  <1>4. ASSUME NEW i \in DOMAIN A.T.conns, IsOf(A.T, i, s) PROVE A.T.conns[i].id = A.id
    <2>1. TrackerInv(p, A.T)
      BY Zenon DEF Continues
    <2>2. A.T.conns[i].id \in Kept(A.T, s)
      BY <1>4, <2>1, EntryIsKept, Zenon
    <2> QED BY <1>3, <2>2, Zenon
  <1>5. \A i \in DOMAIN A.T.conns : IsOf(A.T, i, s) /\ OpenQueued(q, s) => snapshot_owned(A.T.conns[i])
    BY <1>4, Zenon DEF OwnedUntil
  <1> QED BY <1>2, <1>3, <1>5, Zenon DEF RecordsInv

\* A step on the record a socket has leaves it with one.
LEMMA KeptRecords ==
  ASSUME NEW p, NEW T, TrackerInv(p, T), NEW A, NEW s, NEW d,
         Continues(p, T, A.T, A.id), AnswerKept(T, A, s, d),
         NEW q, NEW q1, NoneAdded(q, q1, s), NEW ph, RecordsInv(T, q, ph, s),
         OwnedUntil(A.T, A.id, q1, s)
  PROVE  RecordsInv(A.T, q1, ph, s)
  <1>1. /\ A.id \in Ids(A.T) /\ Ids(T) = Ids(A.T) /\ DOMAIN A.T.rows = DOMAIN T.rows
        /\ \A n \in DOMAIN T.rows : n # A.id => A.T.rows[n] = T.rows[n]
        /\ \A n \in DOMAIN T.rows : A.T.rows[n].socket = T.rows[n].socket
        /\ \A j \in DOMAIN A.T.conns :
             A.T.conns[j].id # A.id => j \in DOMAIN T.conns /\ A.T.conns[j] = T.conns[j]
        /\ Ids(A.T) = Unended(A.T) /\ Ids(T) = Unended(T)
    BY Zenon DEF Continues, AnswerKept, SameRecords, TrackerInv, RowsGoOn, RowGoesOn
  <1>2. /\ A.T.rows[A.id].state \notin Ended /\ T.rows[A.id].state \notin Ended
        /\ A.id \in DOMAIN T.rows
    BY <1>1, Zenon DEF Unended
  <1>3. ASSUME NEW n \in Kept(A.T, s)
        PROVE  n \in Kept(T, s) /\ (A.T.rows[n].state \in Ended => T.rows[n].state \in Ended)
    BY <1>1, <1>2, Zenon DEF Kept, Ended
  <1>4. ASSUME NEW i \in DOMAIN A.T.conns, IsOf(A.T, i, s), OpenQueued(q1, s)
        PROVE  snapshot_owned(A.T.conns[i])
    <2>1. CASE A.T.conns[i].id = A.id
      BY <1>4, <2>1, Zenon DEF OwnedUntil
    <2>2. CASE A.T.conns[i].id # A.id
      <3>1. i \in DOMAIN T.conns /\ A.T.conns[i] = T.conns[i]
        BY <1>1, <2>2, Zenon
      <3>2. A.T.conns[i].id \in DOMAIN A.T.rows
        BY Zenon DEF Continues, TrackerInv, EntryRight
      <3>3. IsOf(T, i, s)
        BY <1>1, <1>4, <3>1, <3>2, Zenon DEF IsOf
      <3> QED BY <1>4, <3>1, <3>3, Zenon DEF RecordsInv, NoneAdded
    <2> QED BY <2>1, <2>2, Zenon
  <1> QED BY <1>3, <1>4, Zenon DEF RecordsInv, NoneAdded

\* It may end once the socket is closed and none of its events is left.
LEMMA ClosedRecords ==
  ASSUME NEW p, NEW T, TrackerInv(p, T), NEW A, NEW s,
         Continues(p, T, A.T, A.id), AnswerClosed(T, A, s),
         NEW q, NEW q1, NEW ph, RecordsInv(T, q, ph, s),
         ph[s] \in {"tail", "gone"}, ~Queued(q1, s)
  PROVE  RecordsInv(A.T, q1, ph, s)
  <1>1. /\ A.id \in Ids(T) /\ DOMAIN A.T.rows = DOMAIN T.rows
        /\ \A n \in DOMAIN T.rows : n # A.id => A.T.rows[n] = T.rows[n]
        /\ \A n \in DOMAIN T.rows : A.T.rows[n].socket = T.rows[n].socket
        /\ Ids(T) = Unended(T)
    BY Zenon DEF Continues, AnswerClosed, TrackerInv, RowsGoOn, RowGoesOn
  <1>2. T.rows[A.id].state \notin Ended
    BY <1>1, Zenon DEF Unended
  <1>3. ASSUME NEW n \in Kept(A.T, s) PROVE n \in Kept(T, s)
    BY <1>1, <1>2, Zenon DEF Kept, Ended
  <1>4. ~OpenQueued(q1, s)
    BY Zenon DEF OpenQueued, Queued
  <1> QED BY <1>3, <1>4, Zenon DEF RecordsInv

\* An event that opens a socket finds the record that a snapshot has begun for it,
\* whose tuple nobody else has.
LEMMA EventFinds ==
  ASSUME NEW p, NEW T, NEW event \in EventSpace, event.type # "CLOSE",
         NEW s, s = event.socket, s \in Attributed, NEW i,
         UniqueMatch(T, KeyOf(p, TupleOf[s], s, TRUE)) = {i}, snapshot_owned(T.conns[i])
  PROVE  EventMatch(p, T, event) # {}
  <1> DEFINE identity == EventIdentity(p, event)
             forward == UniqueMatch(T, KeyOf(p, TupleOf[s], s, s \in Attributed))
             correlated == {x \in forward : event.type = "CLOSE" \/ snapshot_owned(T.conns[x])}
  <1>1. KeyOf(p, TupleOf[s], s, s \in Attributed) = KeyOf(p, TupleOf[s], s, TRUE)
    BY Zenon DEF KeyOf
  <1>2. forward = {i}
    BY <1>1, Zenon
  <1>3. i \in correlated
    BY <1>2, Zenon
  <1>4. EventMatch(p, T, event) = IF identity \in DOMAIN T.conns THEN {identity} ELSE correlated
    BY Zenon DEF EventMatch
  <1> HIDE DEF correlated, identity, forward
  <1> QED BY <1>3, <1>4, Zenon

\* However an event is answered, its socket and every other has one record at most:
\* before an event begins one there is none, since a record that was begun by a
\* snapshot would have matched.
LEMMA EventRecords ==
  ASSUME NEW p, NEW T, TrackerInv(p, T), NEW q, NEW ph, NEW event, NEW q1,
         Taken(q, ph, event, q1), NEW s \in Alone, RecordsInv(T, q, ph, s), NEW A,
         \/ A = Nothing(T)
         \/ A = observe_lifecycle(p, T, event, DirectionOf(event.socket))
  PROVE  RecordsInv(A.T, q1, ph, s)
  <1> DEFINE t == event.socket
             d == DirectionOf(t)
  <1>1. event \in EventSpace /\ t \in Sockets /\ s \in Sockets /\ NoneAdded(q, q1, s)
    BY AloneKin, Zenon DEF Taken, EventSpace
  <1>2. /\ Answer(p, T, A, t, d)
        /\ A.closed = TRUE => event.type = "CLOSE"
        /\ A.new = TRUE => event.type # "CLOSE" /\ t \in Attributed /\ EventMatch(p, T, event) = {}
    <2>1. CASE A = Nothing(T)
      BY <2>1, Zenon DEF Nothing, Answer
    <2>2. CASE A = observe_lifecycle(p, T, event, d)
      BY <1>1, <2>2, LifecycleAnswers, Zenon
    <2> QED BY <2>1, <2>2, Zenon
  <1>3. CASE s # t
    <2>1. Untouched(T, A.T, s)
      BY <1>1, <1>2, <1>3, AnswerUntouched, Zenon
    <2> QED BY <1>1, <2>1, UntouchedRecords, Zenon
  <1>4. CASE s = t
    <2>1. /\ ph[s] # "none" /\ ~OpenQueued(q1, s) /\ Queued(q, s)
          /\ event.type # "CLOSE" => OpenQueued(q, s)
          /\ event.type = "CLOSE" => ph[s] \in {"tail", "gone"} /\ ~Queued(q1, s)
      BY <1>4, Zenon DEF Taken
    <2>2. OwnedUntil(A.T, A.id, q1, s)
      BY <2>1, Zenon DEF OwnedUntil
    <2>3. CASE A = Nothing(T)
      <3>1. A.T = T
        BY <2>3, Zenon DEF Nothing
      <3>2. Untouched(T, A.T, s)
        BY <3>1, Zenon DEF Untouched
      <3> QED BY <1>1, <3>2, UntouchedRecords, Zenon
    <2>4. CASE Continues(p, T, A.T, A.id) /\ AnswerNew(T, A, t, d)
      <3>1. event.type # "CLOSE" /\ t \in Attributed /\ EventMatch(p, T, event) = {}
        BY <1>2, <2>4, Zenon DEF AnswerNew
      <3>2. ASSUME NEW n \in Kept(T, s) PROVE FALSE
        <4>1. T.rows[n].state \notin Ended
          BY <2>1, Zenon DEF RecordsInv
        <4>2. PICK i \in DOMAIN T.conns : IsOf(T, i, s)
          BY <4>1, KeptIsEntry, Zenon
        <4>3. snapshot_owned(T.conns[i])
          BY <2>1, <3>1, <4>2, Zenon DEF RecordsInv
        <4>4. \A x, y \in Kept(T, s) : x = y
          BY Zenon DEF RecordsInv
        <4>5. UniqueMatch(T, KeyOf(p, TupleOf[s], s, TRUE)) = {i}
          BY <4>2, <4>4, FoundByKey, Zenon
        <4>6. EventMatch(p, T, event) # {}
          BY <1>1, <1>4, <3>1, <4>3, <4>5, EventFinds, Zenon
        <4> QED BY <3>1, <4>6, Zenon
      <3>3. Kept(T, s) = {}
        BY <3>2, Zenon
      <3> QED BY <1>4, <2>1, <2>2, <2>4, <3>3, NewRecords, Zenon
    <2>5. CASE Continues(p, T, A.T, A.id) /\ AnswerClosed(T, A, t)
      <3>1. event.type = "CLOSE"
        BY <1>2, <2>5, Zenon DEF AnswerClosed
      <3> QED BY <1>4, <2>1, <2>5, <3>1, ClosedRecords, Zenon
    <2>6. CASE Continues(p, T, A.T, A.id) /\ AnswerKept(T, A, t, d)
      BY <1>1, <1>4, <2>2, <2>6, KeptRecords, Zenon
    <2> QED BY <1>2, <2>3, <2>4, <2>5, <2>6, Zenon DEF Answer
  <1> QED BY <1>3, <1>4, Zenon

\* What SocketAnswers says of the answer to a sample of t, whose process was found to
\* be open if it was found at all.
SampleOf(p, T, ph, t, A) ==
  /\ Answer(p, T, A, t, "UNKNOWN") /\ A.closed = FALSE /\ Observed(p, T, A, t)
  /\ A.new = TRUE => /\ ph[t] = "open"
                     /\ UniqueMatch(T, KeyOf(p, TupleOf[t], t, TRUE)) = {}

\* However a sample is answered, its socket and every other has one record at most: a
\* sample begins one only for a socket with an owner, hence open, and whose entry, if
\* it had one, would have been found by its key.
LEMMA SampleRecords ==
  ASSUME NEW p, NEW T, TrackerInv(p, T), NEW ph, NEW t \in Sockets, NEW A,
         SampleOf(p, T, ph, t, A), NEW q, NEW s \in Alone, RecordsInv(T, q, ph, s)
  PROVE  RecordsInv(A.T, q, ph, s)
  <1>1. s \in Sockets /\ NoneAdded(q, q, s)
    BY AloneKin, Zenon DEF NoneAdded
  <1>2. Answer(p, T, A, t, "UNKNOWN") /\ A.closed = FALSE /\ Observed(p, T, A, t)
    BY Zenon DEF SampleOf
  <1>3. CASE s # t
    <2>1. Untouched(T, A.T, s)
      BY <1>1, <1>2, <1>3, AnswerUntouched, Zenon
    <2> QED BY <1>1, <2>1, UntouchedRecords, Zenon
  <1>4. CASE s = t
    <2>1. CASE A = Nothing(T)
      <3>1. A.T = T
        BY <2>1, Zenon DEF Nothing
      <3> QED BY <3>1, Zenon
    <2>2. CASE Continues(p, T, A.T, A.id) /\ AnswerNew(T, A, t, "UNKNOWN")
      <3>1. ph[s] = "open" /\ UniqueMatch(T, KeyOf(p, TupleOf[s], s, TRUE)) = {}
        BY <1>4, <2>2, Zenon DEF AnswerNew, SampleOf
      <3>2. ASSUME NEW n \in Kept(T, s) PROVE FALSE
        <4>1. T.rows[n].state \notin Ended
          BY <3>1, Zenon DEF RecordsInv
        <4>2. PICK i \in DOMAIN T.conns : IsOf(T, i, s)
          BY <4>1, KeptIsEntry, Zenon
        <4>3. \A x, y \in Kept(T, s) : x = y
          BY Zenon DEF RecordsInv
        <4>4. UniqueMatch(T, KeyOf(p, TupleOf[s], s, TRUE)) = {i}
          BY <4>2, <4>3, FoundByKey, Zenon
        <4> QED BY <3>1, <4>4, Zenon
      <3>3. OwnedUntil(A.T, A.id, q, s)
        <4>1. ASSUME NEW j, Tracks(T, j, A.id) PROVE FALSE
          <5>1. A.id \in DOMAIN T.rows
            BY <4>1, RowOfEntry, Zenon
          <5> QED BY <2>2, <5>1, Zenon DEF AnswerNew
        <4> QED BY <1>2, <4>1, Zenon DEF Observed, OwnedUntil
      <3>4. Kept(T, s) = {}
        BY <3>2, Zenon
      <3> QED BY <1>4, <2>2, <3>1, <3>3, <3>4, NewRecords, Zenon
    <2>3. CASE Continues(p, T, A.T, A.id) /\ AnswerKept(T, A, t, "UNKNOWN")
      <3>1. ASSUME NEW j, Tracks(T, j, A.id), OpenQueued(q, s) PROVE snapshot_owned(T.conns[j])
        <4>1. T.rows[A.id].socket \in Sockets
          BY <3>1, RowOfEntry, Zenon
        <4>2. T.rows[A.id].socket = s
          BY <1>4, <2>3, <4>1, AloneKin, Zenon DEF AnswerKept
        <4>3. IsOf(T, j, s)
          BY <3>1, <4>2, Zenon DEF IsOf, Tracks
        <4> QED BY <3>1, <4>3, Zenon DEF RecordsInv, IsOf
      <3>2. OwnedUntil(A.T, A.id, q, s)
        BY <1>2, <3>1, Zenon DEF Observed, OwnedUntil
      <3> QED BY <1>1, <1>4, <2>3, <3>2, KeptRecords, Zenon
    <2>4. A.closed # TRUE
      BY <1>2, Zenon
    <2> QED BY <1>2, <2>1, <2>2, <2>3, <2>4, Zenon DEF Answer, AnswerClosed
  <1> QED BY <1>3, <1>4, Zenon

\* While polling, a sample leaves an entry that is present.
LEMMA SamplePolling ==
  ASSUME NEW c, NEW T, TrackerInv(c.platform, T), NEW ph, NEW t \in Sockets, NEW A,
         SampleOf(c.platform, T, ph, t, A), NEW resolved \in BOOLEAN,
         c.exact \/ Finds(c.platform, T, t, resolved, A),
         NEW todo, NEW s \in Alone, PollingInv(c, T, todo, TRUE, ph, s)
  PROVE  PollingInv(c, A.T, todo \ {t}, TRUE, ph, s)
  <1> DEFINE p == c.platform
             identity == SocketIdentity(p, s)
  <1> SUFFICES ASSUME ~c.exact, NEW i \in DOMAIN A.T.conns, IsOf(A.T, i, s)
               PROVE  /\ i = identity
                      /\ ph[s] \in {"open", "tail"} => s \in todo \ {t} \/ A.T.conns[i].present
    BY Zenon DEF PollingInv
  <1>1. Answer(p, T, A, t, "UNKNOWN") /\ Observed(p, T, A, t) /\ Finds(p, T, t, resolved, A)
    BY Zenon DEF SampleOf
  <1>2. ASSUME NEW j, IsOf(T, j, s)
        PROVE  /\ j = identity
               /\ ph[s] \in {"open", "tail"} => s \in todo \/ T.conns[j].present
    BY <1>2, Zenon DEF PollingInv, IsOf
  <1>3. CASE s # t
    <2>1. EntriesStay(T, A.T, s)
      BY <1>1, <1>3, AnswerUntouched, Zenon
    <2>2. IsOf(T, i, s) /\ A.T.conns[i] = T.conns[i]
      BY <2>1, Zenon DEF EntriesStay
    <2> QED BY <1>2, <1>3, <2>2, Zenon
  <1>4. CASE s = t
    <2>1. ASSUME NEW j, IsOf(T, j, s) PROVE Tracks(T, j, A.id)
      <3>1. j = identity /\ identity \in DOMAIN T.conns
        BY <1>2, <2>1, Zenon DEF IsOf
      <3>2. ASSUME NEW k \in UniqueMatch(T, KeyOf(p, TupleOf[t], t, resolved)) PROVE k = identity
        <4> DEFINE id == T.conns[k].id
        <4>1. Tracks(T, k, id)
          BY <3>2, Zenon DEF UniqueMatch, Tracks
        <4>2. t \in Kin(T.rows[id].socket)
          BY <3>2, <4>1, UniqueMatchIsKin, Zenon
        <4>3. T.rows[id].socket \in Sockets
          BY <4>1, RowOfEntry, Zenon
        <4>4. T.rows[id].socket = s
          BY <1>4, <4>2, <4>3, AloneKin, Zenon
        <4>5. IsOf(T, k, s)
          BY <4>1, <4>4, Zenon DEF IsOf, Tracks
        <4> QED BY <1>2, <4>5, Zenon
      <3>3. UniqueMatch(T, KeyOf(p, TupleOf[t], t, resolved)) \subseteq {identity}
        BY <3>2, Zenon
      <3> QED BY <1>1, <1>4, <3>1, <3>3, Zenon DEF Finds
    <2>2. CASE A = Nothing(T)
      <3>1. A.T = T /\ A.id = 0
        BY <2>2, Zenon DEF Nothing
      <3>2. Tracks(T, i, 0)
        BY <2>1, <3>1, Zenon
      <3>3. 0 \in DOMAIN T.rows /\ T.rows \in Seq(RowSpace)
        BY <3>2, RowOfEntry, Zenon DEF TrackerInv
      <3> QED BY <3>3
    <2>3. CASE Continues(p, T, A.T, A.id)
      <3>1. CASE A.T.conns[i].id = A.id
        <4>1. (i = identity \/ Tracks(T, i, A.id)) /\ A.T.conns[i].present = TRUE
          BY <1>1, <1>4, <3>1, Zenon DEF Observed
        <4>2. CASE Tracks(T, i, A.id)
          <5>1. A.id \in DOMAIN T.rows
            BY <4>2, RowOfEntry, ZenonT(30)
          <5>2. T.rows[A.id].socket = s
            BY <2>3, <3>1, <5>1, Zenon DEF Continues, RowsGoOn, RowGoesOn, IsOf
          <5>3. IsOf(T, i, s)
            BY <4>2, <5>2, Zenon DEF IsOf, Tracks
          <5> QED BY <1>2, <4>1, <5>3, Zenon
        <4> QED BY <4>1, <4>2, Zenon
      <3>2. CASE A.T.conns[i].id # A.id
        <4>1. i \in DOMAIN T.conns /\ A.T.conns[i] = T.conns[i]
          BY <2>3, <3>2, Zenon DEF Continues
        <4>2. T.conns[i].id \in DOMAIN T.rows
          BY <4>1, Zenon DEF TrackerInv, EntryRight
        <4>3. IsOf(T, i, s)
          BY <2>3, <3>2, <4>1, <4>2, Zenon DEF Continues, IsOf
        <4> QED BY <2>1, <3>2, <4>1, <4>3, Zenon DEF Tracks
      <3> QED BY <3>1, <3>2, Zenon
    <2> QED BY <1>1, <2>2, <2>3, Zenon DEF Answer
  <1> QED BY <1>3, <1>4, Zenon

-----------------------------------------------------------------------------
(* All of these sockets, step by step *)

Order(c, T, q, ph, todo, scanning) ==
  \A s \in Alone : RecordsInv(T, q, ph, s) /\ PollingInv(c, T, todo, scanning, ph, s)

\* Notes in rows keep the order of events, samples and records.
LEMMA OrderNotes ==
  ASSUME NEW p, NEW T, TrackerInv(p, T), NEW U, NotesOnly(T, U),
         NEW c, NEW q, NEW ph, NEW todo, NEW scanning, Order(c, T, q, ph, todo, scanning)
  PROVE  Order(c, U, q, ph, todo, scanning)
  <1> SUFFICES ASSUME NEW s \in Alone
               PROVE  RecordsInv(U, q, ph, s) /\ PollingInv(c, U, todo, scanning, ph, s)
    BY Zenon DEF Order
  <1>1. RecordsInv(T, q, ph, s) /\ PollingInv(c, T, todo, scanning, ph, s)
    BY Zenon DEF Order
  <1>2. Untouched(T, U, s) /\ NoneAdded(q, q, s)
    BY NotesUntouched, Zenon DEF NoneAdded
  <1>3. RecordsInv(U, q, ph, s)
    BY <1>1, <1>2, UntouchedRecords, Zenon
  <1>4. U.conns = T.conns
    BY Zenon DEF NotesOnly
  <1>5. PollingInv(c, U, todo, scanning, ph, s)
    BY <1>1, <1>2, <1>4, Zenon DEF PollingInv, Untouched
  <1> QED BY <1>3, <1>5, Zenon

\* Between snapshots nothing is asked of the entries' presence.
LEMMA OrderIdle ==
  ASSUME NEW c, NEW T, NEW q, NEW ph, NEW todo, NEW scanning, Order(c, T, q, ph, todo, scanning),
         NEW todo1
  PROVE  Order(c, T, q, ph, todo1, FALSE)
  BY Zenon DEF Order, PollingInv

\* When a snapshot begins, every socket that the kernel has is still to come.
LEMMA OrderBegun ==
  ASSUME NEW c, NEW T, NEW U, SnapshotBegun(c.platform, T, U), NEW q, NEW ph, NEW todo,
         NEW scanning, Order(c, T, q, ph, todo, scanning),
         NEW todo1, \A s \in Sockets : ph[s] \in {"open", "tail"} => s \in todo1
  PROVE  Order(c, U, q, ph, todo1, TRUE)
  <1> SUFFICES ASSUME NEW s \in Alone
               PROVE  RecordsInv(U, q, ph, s) /\ PollingInv(c, U, todo1, TRUE, ph, s)
    BY Zenon DEF Order
  <1>0. s \in Sockets /\ NoneAdded(q, q, s)
    BY AloneKin, Zenon DEF NoneAdded
  <1>1. RecordsInv(T, q, ph, s) /\ PollingInv(c, T, todo, scanning, ph, s)
    BY Zenon DEF Order
  <1>2. Untouched(T, U, s)
    BY Zenon DEF SnapshotBegun, Untouched, Kept, IsOf
  <1>3. RecordsInv(U, q, ph, s)
    BY <1>0, <1>1, <1>2, UntouchedRecords, Zenon
  <1>4. PollingInv(c, U, todo1, TRUE, ph, s)
    BY <1>0, <1>1, <1>2, Zenon DEF PollingInv, Untouched, IsOf
  <1> QED BY <1>3, <1>4, ZenonT(30)

\* When one ends and no event was lost, the records it ends are of sockets that are
\* gone, if polling, or are no longer counted.
LEMMA OrderEnded ==
  ASSUME NEW c, NEW T, TrackerInv(c.platform, T), NEW degraded, ~degraded, NEW U, NEW ids,
         ids = {T.conns[i].id : i \in Absent(T, ~c.exact, degraded)},
         SnapshotEnded(c.platform, T, U, ids, StateOfAbsent(~c.exact, degraded)),
         NEW q, ~c.exact => q = <<>>, NEW ph \in [Sockets -> {"none", "open", "tail", "gone"}],
         Order(c, T, q, ph, {}, TRUE), NEW todo1
  PROVE  Order(c, U, q, ph, todo1, FALSE)
  <1> SUFFICES ASSUME NEW s \in Alone
               PROVE  RecordsInv(U, q, ph, s) /\ PollingInv(c, U, todo1, FALSE, ph, s)
    BY Zenon DEF Order
  <1>0. s \in Sockets /\ NoneAdded(q, q, s)
    BY AloneKin, Zenon DEF NoneAdded
  <1>1. RecordsInv(T, q, ph, s) /\ PollingInv(c, T, {}, TRUE, ph, s)
    BY Zenon DEF Order
  <1>2. \A n \in DOMAIN T.rows : U.rows[n].socket = T.rows[n].socket
    BY Zenon DEF SnapshotEnded, RowsGoOn, RowGoesOn
  <1>3. ASSUME NEW i \in DOMAIN U.conns, IsOf(U, i, s)
        PROVE  IsOf(T, i, s) /\ U.conns[i].origin = T.conns[i].origin
    <2>1. i \in DOMAIN T.conns /\ U.conns[i].id = T.conns[i].id /\ U.conns[i].origin = T.conns[i].origin
      BY Zenon DEF SnapshotEnded
    <2>2. T.conns[i].id \in DOMAIN T.rows
      BY <2>1, Zenon DEF TrackerInv, EntryRight
    <2> QED BY <1>2, <1>3, <2>1, <2>2, Zenon DEF IsOf
  <1>4. ASSUME NEW n \in Kept(U, s), n \notin ids
        PROVE  n \in Kept(T, s) /\ U.rows[n].state = T.rows[n].state
    <2>1. n \in DOMAIN T.rows /\ U.rows[n] = T.rows[n]
      BY <1>4, Zenon DEF SnapshotEnded, Kept
    <2> QED BY <2>1, Zenon DEF Kept
  <1>5. PollingInv(c, U, todo1, FALSE, ph, s)
    <2>1. ASSUME ~c.exact, NEW i \in DOMAIN U.conns, IsOf(U, i, s)
          PROVE  i = SocketIdentity(c.platform, s)
      <3>1. i \in DOMAIN T.conns /\ IsOf(T, i, s)
        BY <1>3, <2>1, Zenon DEF IsOf
      <3> QED BY <1>1, <2>1, <3>1, Zenon DEF PollingInv
    <2> QED BY <2>1, Zenon DEF PollingInv
  <1>6. CASE c.exact
    <2>1. \A n \in Kept(U, s) : n \notin ids
      BY <1>6, Zenon DEF SnapshotEnded, Kept, StateOfAbsent
    <2>2. Untouched(T, U, s)
      BY <1>3, <1>4, <2>1, Zenon DEF Untouched
    <2> QED BY <1>0, <1>1, <1>5, <2>2, UntouchedRecords, Zenon
  <1>7. CASE ~c.exact
    <2>0. q = <<>>
      BY <1>7, Zenon
    <2>1. ~Queued(q, s) /\ ~OpenQueued(q, s)
      BY ONLY <2>0 DEF Queued, OpenQueued
    <2>2. ASSUME NEW n \in Kept(U, s), n \in ids
          PROVE  n \in Kept(T, s) /\ ph[s] \in {"tail", "gone"}
      <3>1. PICK i \in Absent(T, ~c.exact, degraded) : n = T.conns[i].id
        BY <2>2, Zenon
      <3>2. i \in DOMAIN T.conns /\ ~T.conns[i].present
        BY <3>1, Zenon DEF Absent
      <3>3. Tracks(T, i, n)
        BY <3>1, <3>2, Zenon DEF Tracks
      <3>4. n \in DOMAIN T.rows
        BY <3>3, RowOfEntry, Zenon
      <3>5. T.rows[n].socket = s
        BY <1>2, <2>2, <3>4, Zenon DEF Kept
      <3>6. IsOf(T, i, s)
        BY <3>1, <3>2, <3>5, Zenon DEF IsOf
      <3>7. n \in Kept(T, s)
        BY <3>1, <3>6, EntryIsKept, Zenon
      <3>8. ph[s] # "none"
        BY <1>1, <3>7, Zenon DEF RecordsInv
      <3>9. ph[s] \notin {"open", "tail"}
        BY <1>1, <1>7, <3>2, <3>6, Zenon DEF PollingInv
      <3> QED BY <1>0, <3>7, <3>8, <3>9, Zenon
    <2>3. \A n \in Kept(U, s) : n \in Kept(T, s)
      BY <1>4, <2>2, Zenon
    <2>4. \A n \in Kept(U, s) : U.rows[n].state \in Ended => ph[s] \in {"tail", "gone"}
      BY <1>1, <1>4, <2>2, Zenon DEF RecordsInv
    <2>5. RecordsInv(U, q, ph, s)
      BY <1>1, <2>1, <2>3, <2>4, Zenon DEF RecordsInv
    <2> QED BY <1>5, <2>5, Zenon
  <1> QED BY <1>6, <1>7, Zenon

\* The socket t moves on.
PhaseMoves(q, ph, q1, ph1, t) ==
  /\ \A s \in Sockets : s # t => ph1[s] = ph[s] /\ NoneAdded(q, q1, s)
  /\ \/ ph[t] = "none"
     \/ /\ ph[t] = "open" /\ ph1[t] = "tail"
        /\ OpenQueued(q1, t) => OpenQueued(q, t)
     \/ ph[t] = "tail" /\ ph1[t] = "gone" /\ NoneAdded(q, q1, t)

\* The order survives what sockets do and announce.
LEMMA OrderMoves ==
  ASSUME NEW p, NEW T, TrackerInv(p, T), NEW c, NEW q, NEW ph, NEW q1, NEW ph1, NEW t \in Sockets,
         PhaseMoves(q, ph, q1, ph1, t), NEW todo, Order(c, T, q, ph, todo, FALSE)
  PROVE  Order(c, T, q1, ph1, todo, FALSE)
  <1> SUFFICES ASSUME NEW s \in Alone
               PROVE  RecordsInv(T, q1, ph1, s) /\ PollingInv(c, T, todo, FALSE, ph1, s)
    BY Zenon DEF Order
  <1>0. s \in Sockets
    BY AloneKin, Zenon
  <1>1. RecordsInv(T, q, ph, s) /\ PollingInv(c, T, todo, FALSE, ph, s)
    BY Zenon DEF Order
  <1>2. PollingInv(c, T, todo, FALSE, ph1, s)
    BY <1>1, Zenon DEF PollingInv
  <1>3. CASE s # t
    <2>1. Untouched(T, T, s) /\ ph1[s] = ph[s] /\ NoneAdded(q, q1, s)
      BY <1>0, <1>3, Zenon DEF Untouched, PhaseMoves
    <2> QED BY <1>1, <1>2, <2>1, UntouchedRecords, Zenon
  <1>4. CASE s = t /\ ph[t] = "none"
    <2>1. Kept(T, s) = {}
      BY <1>1, <1>4, Zenon DEF RecordsInv
    <2>2. \A i \in DOMAIN T.conns : ~IsOf(T, i, s)
      BY <2>1, EntryIsKept, Zenon
    <2> QED BY <1>2, <2>1, <2>2, Zenon DEF RecordsInv
  <1>5. CASE s = t /\ ph[t] = "open" /\ ph1[t] = "tail" /\ (OpenQueued(q1, t) => OpenQueued(q, t))
    <2>1. \A n \in Kept(T, s) : T.rows[n].state \notin Ended
      BY <1>1, <1>5, Zenon DEF RecordsInv
    <2> QED BY <1>1, <1>2, <1>5, <2>1, Zenon DEF RecordsInv
  <1>6. CASE s = t /\ ph[t] = "tail" /\ ph1[t] = "gone" /\ NoneAdded(q, q1, t)
    BY <1>1, <1>2, <1>6, Zenon DEF RecordsInv, NoneAdded
  <1> QED BY <1>3, <1>4, <1>5, <1>6, Zenon DEF PhaseMoves

\* So does the queue, if a socket says nothing.
LEMMA PhaseKeepsQueue ==
  ASSUME NEW q, NEW ph, QueueInv(q, ph), NEW ph1, NEW t, ph1[t] # "none",
         \A s \in Sockets : s # t => ph1[s] = ph[s],
         ph[t] \in {"tail", "gone"} => ph1[t] \in {"tail", "gone"}
  PROVE  QueueInv(q, ph1)
  <1>1. \A k \in DOMAIN q : q[k] \in EventSpace
    BY DEF QueueInv
  <1>2. ASSUME NEW k \in DOMAIN q
        PROVE  /\ ph1[q[k].socket] # "none"
               /\ q[k].type = "CLOSE" => ph1[q[k].socket] \in {"tail", "gone"}
    <2>1. q[k].socket \in Sockets
      BY <1>1, Zenon DEF EventSpace
    <2>2. CASE q[k].socket = t
      BY <2>2, Zenon DEF QueueInv
    <2>3. CASE q[k].socket # t
      BY <2>1, <2>3, Zenon DEF QueueInv
    <2> QED BY <2>2, <2>3, Zenon
  <1> QED BY <1>2, Zenon DEF QueueInv

===============================================================================
