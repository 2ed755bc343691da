------------------------------ MODULE DuelsProofs ------------------------------
(***************************************************************************)
(* Theorems about Duels, the duel of two annotators.                       *)
(*                                                                         *)
(* With any number of requests in flight: the types, that a move is one    *)
(* annotation and that the two statistics agree.  Both rest on one         *)
(* invariant, DInv: annotations and flushed inserts have distinct keys,    *)
(* what a request has seen of a duel is still there when it commits, and   *)
(* nothing is scored for who has not moved.                                *)
(*                                                                         *)
(* With one request at a time: the status of a duel and its points, and    *)
(* that each vote is counted, from the invariants OneInv and Heard.        *)
(***************************************************************************)
EXTENDS Duels, SegmentsProofs

-----------------------------------------------------------------------------
JoinTxn == [op: {"join"}, user: Users, duel: DuelIds]
CreateTxn == [op: {"create"}, user: Users, segment: SegmentIds]
MoveTxn == [op: {"move"}, id: DuelIds, duel: Duel, ms: Nat, row: Row,
            mine: Annotation]
MovedTxn == [op: {"moved", "moved again"}, id: DuelIds, duel: Duel, ms: Nat,
             row: Row, mine: Annotation, read: Anns]

MoveOps == {"move", "moved", "moved again"}

(* Whoever is in a duel, or has moved, as a request saw it, still is or    *)
(* has; nobody leaves a duel while a request is in flight.                 *)
SeenIn(d, t) ==
  /\ d.segment = t.mine.segment
  /\ t.duel.entry[t.mine.user].joined
  /\ t.duel.entry[t.mine.user].verdict = NoVerdict
  /\ \A p \in Users : /\ t.duel.entry[p].joined => d.entry[p].joined
                      /\ HasMoved(t.duel, p) => HasMoved(d, p)

DuelSlot(t) ==
  /\ t.op = "join" => t \in JoinTxn /\ t.duel <= lastDuel /\ t.user \notin deleted
  /\ t.op = "create" => t \in CreateTxn /\ t.user \notin deleted
  /\ t.op = "move" => t \in MoveTxn
  /\ t.op \in {"moved", "moved again"} => t \in MovedTxn
  /\ t.op \in MoveOps => /\ t.id <= lastDuel /\ SeenIn(duel[t.id], t)
                         /\ t.mine.user \notin deleted
  /\ t.op = "moved again" => \E m \in annotations : SameKey(m, t.mine)

(* One annotation for each user and segment, stored or flushed.            *)
KeysAreUnique ==
  /\ \A m, n \in annotations : SameKey(m, n) => m = n
  /\ \A q \in Requests : Inserted(q) =>
       \A m \in annotations : ~SameKey(m, txn[q].mine)
  /\ \A q, r \in Requests :
       Inserted(q) /\ Inserted(r) /\ SameKey(txn[q].mine, txn[r].mine) => q = r

MovesAreAnnotated ==
  \A i \in 1 .. lastDuel : \A u \in Users \ deleted :
    HasMoved(duel[i], u) =>
      \E n \in annotations : n.user = u /\ n.segment = duel[i].segment

(* Only moves are scored, nobody is in a duel before it is created, and    *)
(* nobody whose account is gone is in one.                                 *)
EntriesAreEarned ==
  \A i \in DuelIds : \A u \in Users :
    /\ ~HasMoved(duel[i], u) =>
         duel[i].entry[u].score = 0 /\ ~duel[i].entry[u].winner
    /\ i > lastDuel \/ u \in deleted => duel[i].entry[u] = NoEntry

DInv ==
  /\ TInv /\ duel \in [DuelIds -> Duel] /\ lastDuel \in 0 .. MaxDuels
  /\ KeysAreUnique /\ MovesAreAnnotated /\ EntriesAreEarned
  /\ \A r \in Requests : DuelSlot(txn[r])

-----------------------------------------------------------------------------
(* One request at a time. *)

FreshDuel(t) ==
  /\ t.op = "join" => /\ duel[t.duel].status = "open"
                      /\ t.user \notin Players(duel[t.duel])
  /\ t.op \in MoveOps => /\ t.duel = duel[t.id] /\ t.duel.status # "finished"
                         /\ t.row = segment[t.mine.segment]

(* How far a duel has come, as long as nobody has left it. *)
Stage(d) ==
  \/ d.status = "open" /\ Cardinality(Players(d)) = 1
  \/ /\ d.status = "active" /\ Cardinality(Players(d)) = 2
     /\ \E p \in Players(d) : ~HasMoved(d, p)
  \/ d.status = "finished" /\ BothMoved(d)

(* Two players who have agreed, or not, and are separated by speed alone. *)
Fair(d) ==
  d.status = "finished" => \A u, w \in Players(d) : u # w =>
    LET e == d.entry[u]
        f == d.entry[w]
    IN /\ e.score >= 40 <=> f.score >= 40
       /\ e.winner => e.score = f.score + 10 /\ Agreed(e, f) /\ ~f.winner
       /\ e.winner => Plausible(e.ms)

Staged == deleted = {} => \A i \in 1 .. lastDuel : Stage(duel[i])
AllFair == \A i \in 1 .. lastDuel : Fair(duel[i])

OneInv ==
  /\ DInv /\ Fresh /\ \A r \in Requests : FreshDuel(txn[r])
  /\ Staged /\ AllFair /\ IndexIsFormula

-----------------------------------------------------------------------------
(* Keys: an annotation, or nothing, is added at a time. *)

LEMMA KeysKept ==
  ASSUME KeysAreUnique, annotations' \subseteq annotations,
         \A q \in Requests :
           txn'[q].op \in {"inserted", "moved"} => txn'[q] = txn[q]
  PROVE  KeysAreUnique'
BY DEF KeysAreUnique, Inserted

LEMMA KeysInsert ==
  ASSUME KeysAreUnique, UNCHANGED annotations, NEW r \in Requests, NEW n,
         txn'[r].mine = n, \A q \in Requests \ {r} : txn'[q] = txn[q],
         \A m \in annotations : ~SameKey(m, n),
         \A q \in Requests : Inserted(q) => ~SameKey(txn[q].mine, n)
  PROVE  KeysAreUnique'
<1>1. \A q \in Requests \ {r} : txn'[q] = txn[q]
  OBVIOUS
<1>2. \A k, m : SameKey(k, m) => SameKey(m, k)
  BY DEF SameKey
<1>3. ASSUME NEW q \in Requests, Inserted(q)', NEW m \in annotations'
      PROVE  ~SameKey(m, txn'[q].mine)
  BY <1>1, <1>3 DEF KeysAreUnique, Inserted
<1>4. ASSUME NEW q \in Requests, NEW p \in Requests, Inserted(q)', Inserted(p)',
             SameKey(txn'[q].mine, txn'[p].mine), q # p
      PROVE  FALSE
  <2>1. CASE q = r
    <3>1. Inserted(p) /\ SameKey(txn[p].mine, n)
      BY <1>1, <1>2, <1>4, <2>1 DEF Inserted
    <3> QED BY <3>1
  <2>2. CASE p = r
    <3>1. Inserted(q) /\ SameKey(txn[q].mine, n)
      BY <1>1, <1>4, <2>2 DEF Inserted
    <3> QED BY <3>1
  <2>3. CASE q # r /\ p # r
    BY <1>1, <1>4, <2>3 DEF KeysAreUnique, Inserted
  <2> QED BY <2>1, <2>2, <2>3
<1>5. \A k, m \in annotations' : SameKey(k, m) => k = m
  BY DEF KeysAreUnique
<1> QED BY <1>3, <1>4, <1>5 DEF KeysAreUnique

LEMMA KeysCommit ==
  ASSUME KeysAreUnique, DOMAIN txn = Requests, NEW r \in Requests, Inserted(r),
         Finish(r), annotations' = annotations \cup {txn[r].mine}
  PROVE  KeysAreUnique'
<1> DEFINE n == txn[r].mine
<1>1. \A q \in Requests : txn'[q] = IF q = r THEN Idle ELSE txn[q]
  BY DEF Finish
<1>2. \A q \in Requests : Inserted(q)' => q # r /\ Inserted(q) /\ txn'[q] = txn[q]
  BY <1>1 DEF Inserted, Idle
<1>3. \A m \in annotations : ~SameKey(m, n) /\ ~SameKey(n, m)
  BY DEF KeysAreUnique, SameKey
<1>4. \A q \in Requests : Inserted(q) /\ q # r => ~SameKey(n, txn[q].mine)
  BY DEF KeysAreUnique
<1> HIDE DEF n
<1>5. annotations' = annotations \cup {n}
  BY DEF n
<1> QED BY <1>2, <1>3, <1>4, <1>5 DEF KeysAreUnique

LEMMA KeysNext ==
  ASSUME TInv, KeysAreUnique, [Next]_vars
  PROVE  KeysAreUnique'
<1>0. DOMAIN txn = Requests
  BY DEF TInv, TypeOK
<1>1. CASE UNCHANGED <<annotations, txn>>
  BY <1>1, KeysKept
<1>2. ASSUME NEW u \in Users, AccountRemoved(u) PROVE KeysAreUnique'
  BY <1>2, KeysKept DEF AccountRemoved
<1>3. ASSUME NEW r \in Requests, NEW t, txn' = [txn EXCEPT ![r] = t],
             t.op # "inserted", t.op # "moved", UNCHANGED annotations
      PROVE  KeysAreUnique'
  <2>1. \A q \in Requests :
          txn'[q].op \in {"inserted", "moved"} => txn'[q] = txn[q]
    BY <1>0, <1>3
  <2> QED BY <1>3, <2>1, KeysKept
<1>4. ASSUME NEW r \in Requests, NEW t, Begin(r, t), t.op # "inserted",
             t.op # "moved"
      PROVE  KeysAreUnique'
  BY <1>3, <1>4 DEF Begin
<1>5. ASSUME NEW r \in Requests, Finish(r), UNCHANGED annotations
      PROVE  KeysAreUnique'
  <2>1. Idle.op # "inserted" /\ Idle.op # "moved"
    BY DEF Idle
  <2> QED BY <1>3, <1>5, <2>1 DEF Finish
<1>6. ASSUME NEW r \in Requests, Start(r) PROVE KeysAreUnique'
  BY <1>4, <1>6 DEF Start, AnnotateBegin, QueueBegin, DecideBegin, BatchBegin,
     IngestBegin, CleanupBegin, Load
<1>7. ASSUME NEW r \in Requests, AnnotateInsert(r) PROVE KeysAreUnique'
  <2> DEFINE n == txn[r].mine
  <2>1. txn'[r].mine = n /\ \A q \in Requests \ {r} : txn'[q] = txn[q]
    BY <1>0, <1>7 DEF AnnotateInsert
  <2>2. UNCHANGED annotations /\ (\A m \in annotations : ~SameKey(m, n))
        /\ \A q \in Requests : Inserted(q) => ~SameKey(txn[q].mine, n)
    BY <1>7 DEF AnnotateInsert
  <2> HIDE DEF n
  <2> QED BY <2>1, <2>2, KeysInsert
<1>8. ASSUME NEW r \in Requests, AnnotateCommit(r) \/ ControlCommit(r)
      PROVE  KeysAreUnique'
  BY <1>0, <1>8, KeysCommit DEF AnnotateCommit, ControlCommit, Inserted
<1>9. ASSUME NEW r \in Requests, Continue(r) PROVE KeysAreUnique'
  BY <1>5, <1>7, <1>8, <1>9 DEF Continue, QueueCommit, DecideCommit, BatchCommit,
     IngestCommit, CleanupCommit, Abort
<1> QED BY <1>1, <1>2, <1>6, <1>9 DEF Next, Environment, TimePasses, CreateEvent, vars

-----------------------------------------------------------------------------
(* Entries and duels as handlers write them. *)

LEMMA EntryTypes ==
  /\ NoEntry \in Entry /\ ~NoEntry.joined /\ NoEntry.verdict = NoVerdict
  /\ NoEntry.score = 0 /\ ~NoEntry.winner
  /\ NewEntry \in Entry /\ NewEntry.joined /\ NewEntry.verdict = NoVerdict
  /\ NewEntry.score = 0 /\ ~NewEntry.winner
BY DEF NoEntry, NewEntry, Entry

LEMMA FlushedEntry ==
  ASSUME NEW x \in Entry, NEW y \in Entry, NEW z \in Entry
  PROVE  /\ Flush(x, y, z) \in Entry
         /\ \A f \in {"joined", "verdict", "ms", "score", "winner"} :
              Flush(x, y, z)[f] = IF z[f] = y[f] THEN x[f] ELSE z[f]
         /\ x = y => Flush(x, y, z) = z
         /\ z = y => Flush(x, y, z) = x
BY DEF Flush, Entry

LEMMA PointsAre ==
  ASSUME NEW e, NEW f
  PROVE  /\ Points(e, f) \in {10, 40, 50}
         /\ Agreed(e, f) <=> Points(e, f) \in {40, 50}
BY DEF Points

LEMMA FastIsPlausible ==
  ASSUME NEW e, NEW f, Points(e, f) = 50
  PROVE  Plausible(e.ms)
BY DEF Points, Faster

LEMMA ScoredEntry ==
  ASSUME NEW e \in Entry, NEW f
  PROVE  /\ Scored(e, f) \in Entry
         /\ Scored(e, f).joined = e.joined /\ Scored(e, f).verdict = e.verdict
         /\ Scored(e, f).ms = e.ms
         /\ Scored(e, f).score = Points(e, f)
         /\ Scored(e, f).winner = (Points(e, f) > Points(f, e))
<1> DEFINE score == Points(e, f)
           winner == Points(e, f) > Points(f, e)
<1>1. score \in Nat /\ winner \in BOOLEAN
  BY PointsAre
<1>2. Scored(e, f) = [e EXCEPT !.score = score, !.winner = winner]
  BY DEF Scored
<1> HIDE DEF score, winner
<1> QED BY <1>1, <1>2 DEF Entry, score, winner

(* The duel with the move, before it is scored. *)
LEMMA WithMoveDuel ==
  ASSUME NEW t, t.duel \in Duel, t.ms \in Nat, t.mine \in Annotation
  PROVE  LET m == WithMove(t)
             u == t.mine.user
         IN /\ m \in Duel /\ m.segment = t.duel.segment
            /\ m.status = t.duel.status
            /\ \A p \in Users \ {u} : m.entry[p] = t.duel.entry[p]
            /\ m.entry[u] = [t.duel.entry[u] EXCEPT !.verdict = t.mine.verdict,
                                                    !.ms = t.ms]
            /\ m.entry[u].verdict = t.mine.verdict
            /\ \A f \in {"joined", "score", "winner"} :
                 m.entry[u][f] = t.duel.entry[u][f]
<1> DEFINE d == t.duel
           u == t.mine.user
           e == [d.entry[u] EXCEPT !.verdict = t.mine.verdict, !.ms = t.ms]
           entry == [d.entry EXCEPT ![u] = e]
<1>1. /\ u \in Users /\ d.entry \in [Users -> Entry] /\ d.entry[u] \in Entry
      /\ t.mine.verdict \in Verdicts
  BY DEF Duel, Annotation
<1>2. e \in Entry /\ e.verdict = t.mine.verdict
      /\ \A f \in {"joined", "score", "winner"} : e[f] = d.entry[u][f]
  BY <1>1 DEF Entry
<1>3. WithMove(t) = [d EXCEPT !.entry = entry]
  BY <1>1 DEF WithMove, Duel, Entry
<1> HIDE DEF e
<1>4. /\ entry \in [Users -> Entry] /\ entry[u] = e
      /\ \A p \in Users \ {u} : entry[p] = d.entry[p]
  BY <1>1, <1>2
<1> HIDE DEF entry
<1>5. /\ WithMove(t) \in Duel /\ WithMove(t).entry = entry
      /\ WithMove(t).segment = d.segment /\ WithMove(t).status = d.status
  BY <1>3, <1>4 DEF Duel
<1> QED BY <1>2, <1>4, <1>5 DEF e

LEMMA FinishedDuel ==
  ASSUME NEW d \in Duel
  PROVE  LET n == Finished(d)
             Other(p) == CHOOSE q \in Players(d) : q # p
         IN /\ n \in Duel /\ n.segment = d.segment /\ n.status = "finished"
            /\ \A p \in Users :
                 n.entry[p] = IF p \in Players(d)
                              THEN Scored(d.entry[p], d.entry[Other(p)])
                              ELSE d.entry[p]
            /\ \A p \in Users : /\ n.entry[p] \in Entry
                                /\ n.entry[p].joined = d.entry[p].joined
                                /\ n.entry[p].verdict = d.entry[p].verdict
                                /\ n.entry[p].ms = d.entry[p].ms
<1> DEFINE Other(p) == CHOOSE q \in Players(d) : q # p
           entry == [p \in Users |->
                       IF p \in Players(d)
                       THEN Scored(d.entry[p], d.entry[Other(p)])
                       ELSE d.entry[p]]
<1>1. \A p \in Users : d.entry[p] \in Entry
  BY DEF Duel
<1>2. \A p \in Users : /\ entry[p] \in Entry
                       /\ entry[p].joined = d.entry[p].joined
                       /\ entry[p].verdict = d.entry[p].verdict
                       /\ entry[p].ms = d.entry[p].ms
  BY <1>1, ScoredEntry
<1>3. Finished(d) = [d EXCEPT !.status = "finished", !.entry = entry]
  BY DEF Finished, Duel
<1>4. \A p \in Users : entry[p] = IF p \in Players(d)
                                  THEN Scored(d.entry[p], d.entry[Other(p)])
                                  ELSE d.entry[p]
  OBVIOUS
<1>5. entry \in [Users -> Entry]
  BY <1>2
<1> HIDE DEF entry
<1>6. /\ Finished(d) \in Duel /\ Finished(d).entry = entry
      /\ Finished(d).segment = d.segment /\ Finished(d).status = "finished"
  BY <1>3, <1>5 DEF Duel
<1> QED BY <1>2, <1>4, <1>6

(* What a move means to every entry the handler loaded. *)
LEMMA MovedDuel ==
  ASSUME NEW t, t.duel \in Duel, t.ms \in Nat, t.mine \in Annotation
  PROVE  LET n == Moved(t)
             u == t.mine.user
         IN /\ n \in Duel /\ n.segment = t.duel.segment
            /\ n.entry[u].joined = t.duel.entry[u].joined
            /\ n.entry[u].verdict = t.mine.verdict
            /\ \A p \in Users \ {u} :
                 /\ n.entry[p].joined = t.duel.entry[p].joined
                 /\ n.entry[p].verdict = t.duel.entry[p].verdict
                 /\ n.entry[p].ms = t.duel.entry[p].ms
                 /\ \/ HasMoved(t.duel, p)
                    \/ n.entry[p] = t.duel.entry[p]
<1> DEFINE m == WithMove(t)
           u == t.mine.user
<1>1. /\ m \in Duel /\ m.segment = t.duel.segment /\ u \in Users
      /\ \A p \in Users \ {u} : m.entry[p] = t.duel.entry[p]
      /\ m.entry[u].verdict = t.mine.verdict
      /\ m.entry[u].joined = t.duel.entry[u].joined
  BY WithMoveDuel DEF Annotation
<1>2. CASE Moved(t) = m
  BY <1>1, <1>2
<1>3. CASE Moved(t) = Finished(m) /\ \A p \in Players(m) : HasMoved(m, p)
  <2>1. /\ Finished(m) \in Duel /\ Finished(m).segment = m.segment
        /\ \A p \in Users : /\ Finished(m).entry[p].joined = m.entry[p].joined
                            /\ Finished(m).entry[p].verdict = m.entry[p].verdict
                            /\ Finished(m).entry[p].ms = m.entry[p].ms
                            /\ \/ p \in Players(m)
                               \/ Finished(m).entry[p] = m.entry[p]
    BY <1>1, FinishedDuel
  <2>2. \A p \in Users \ {u} : p \in Players(m) => HasMoved(t.duel, p)
    BY <1>1, <1>3 DEF HasMoved
  <2> QED BY <1>1, <1>3, <2>1, <2>2
<1>4. Moved(t) = m \/ (Moved(t) = Finished(m) /\ \A p \in Players(m) : HasMoved(m, p))
  BY DEF Moved
<1> QED BY <1>2, <1>3, <1>4

-----------------------------------------------------------------------------
(* What requests have seen stays, as long as no account is removed: and    *)
(* that waits until no request is in flight.                               *)

Grows ==
  /\ UNCHANGED deleted /\ annotations \subseteq annotations'
  /\ lastDuel' \in 0 .. MaxDuels /\ lastDuel <= lastDuel'
  /\ \A i \in 1 .. lastDuel :
       /\ duel'[i].segment = duel[i].segment
       /\ \A p \in Users :
            /\ duel[i].entry[p].joined => duel'[i].entry[p].joined
            /\ HasMoved(duel[i], p) => HasMoved(duel'[i], p)

LEMMA SlotKept ==
  ASSUME lastDuel \in 0 .. MaxDuels, Grows, NEW t, DuelSlot(t)
  PROVE  DuelSlot(t)'
<1>1. t.op = "join" =>
        t \in JoinTxn /\ t.duel <= lastDuel' /\ t.user \notin deleted'
  BY DEF DuelSlot, Grows, JoinTxn, DuelIds
<1>2. ASSUME t.op \in MoveOps
      PROVE  /\ t.id <= lastDuel' /\ SeenIn(duel'[t.id], t)
             /\ t.mine.user \notin deleted'
  <2>1. t.id \in DuelIds /\ t.id <= lastDuel /\ SeenIn(duel[t.id], t)
    BY <1>2 DEF DuelSlot, MoveOps, MoveTxn, MovedTxn
  <2>2. t.id \in 1 .. lastDuel
    BY <2>1 DEF DuelIds
  <2>3. t.id <= lastDuel'
    BY <2>2 DEF Grows
  <2>4. SeenIn(duel'[t.id], t)
    BY <2>1, <2>2 DEF SeenIn, Grows
  <2> QED BY <1>2, <2>3, <2>4 DEF DuelSlot, Grows
<1>3. t.op = "moved again" => \E m \in annotations' : SameKey(m, t.mine)
  BY DEF DuelSlot, Grows
<1> QED BY <1>1, <1>2, <1>3 DEF DuelSlot, Grows

LEMMA NextGrows ==
  ASSUME TInv, [Next]_vars
  PROVE  \/ \E u \in Users : AccountRemoved(u)
         \/ UNCHANGED deleted /\ annotations \subseteq annotations'
<1>1. ASSUME NEW r \in Requests, Start(r)
      PROVE  UNCHANGED <<deleted, annotations>>
  BY <1>1 DEF Start, AnnotateBegin, QueueBegin, DecideBegin, BatchBegin, IngestBegin,
     CleanupBegin, Begin
<1>2. ASSUME NEW r \in Requests, Continue(r)
      PROVE  UNCHANGED deleted /\ annotations \subseteq annotations'
  BY <1>2 DEF Continue, AnnotateInsert, AnnotateCommit, ControlCommit, QueueCommit,
     DecideCommit, BatchCommit, IngestCommit, CleanupCommit, Abort
<1> QED BY <1>1, <1>2 DEF Next, Environment, TimePasses, CreateEvent, vars

LEMMA CreatedDuels ==
  ASSUME DInv, NEW i \in 1 .. lastDuel
  PROVE  i \in DuelIds
BY DuelsAssumption DEF DInv, DuelIds

LEMMA RemovalKeeps ==
  ASSUME DInv, NEW u \in Users, AccountRemoved(u), TInv', KeysAreUnique',
         duel' = [d \in DuelIds |-> Remaining(duel[d])], UNCHANGED lastDuel
  PROVE  DInv'
<1>1. /\ deleted' = deleted \cup {u} /\ annotations' = annotations \ Of(u)
      /\ \A r \in Requests : txn'[r] = Idle
  BY DEF AccountRemoved
<1>2. ASSUME NEW i \in DuelIds
      PROVE  /\ duel'[i] \in Duel /\ duel'[i].segment = duel[i].segment
             /\ duel'[i].status = duel[i].status
             /\ \A p \in Users :
                  duel'[i].entry[p] = IF p \in deleted' THEN NoEntry
                                      ELSE duel[i].entry[p]
  <2> DEFINE entry == [p \in Users |-> IF p \in deleted' THEN NoEntry
                                       ELSE duel[i].entry[p]]
  <2>1. duel[i] \in Duel /\ duel[i].entry \in [Users -> Entry]
    BY DEF DInv, Duel
  <2>2. entry \in [Users -> Entry]
    BY <2>1, EntryTypes
  <2>3. duel'[i] = [duel[i] EXCEPT !.entry = entry]
    BY <2>1 DEF Remaining, Duel
  <2>4. \A p \in Users : entry[p] = IF p \in deleted' THEN NoEntry
                                    ELSE duel[i].entry[p]
    OBVIOUS
  <2> HIDE DEF entry
  <2> QED BY <2>1, <2>2, <2>3, <2>4 DEF Duel
<1>3. duel' \in [DuelIds -> Duel]
  BY <1>2
<1>4. EntriesAreEarned'
  BY <1>1, <1>2, EntryTypes DEF DInv, EntriesAreEarned, HasMoved
<1>5. MovesAreAnnotated'
  <2> SUFFICES ASSUME NEW i \in 1 .. lastDuel, NEW p \in Users \ deleted',
                      HasMoved(duel'[i], p)
               PROVE  \E n \in annotations' : /\ n.user = p
                                              /\ n.segment = duel'[i].segment
    BY DEF MovesAreAnnotated
  <2>1. i \in DuelIds
    BY CreatedDuels
  <2>2. HasMoved(duel[i], p) /\ duel'[i].segment = duel[i].segment
    BY <1>2, <2>1 DEF HasMoved
  <2>3. PICK n \in annotations : n.user = p /\ n.segment = duel[i].segment
    BY <1>1, <2>2 DEF DInv, MovesAreAnnotated
  <2>4. n \in annotations'
    BY <1>1, <2>3 DEF Of
  <2> QED BY <2>2, <2>3, <2>4
<1>6. ASSUME NEW r \in Requests PROVE DuelSlot(txn[r])'
  <2>1. txn'[r].op = "idle"
    BY <1>1 DEF Idle
  <2> QED BY <2>1 DEF DuelSlot, MoveOps
<1> QED BY <1>3, <1>4, <1>5, <1>6 DEF DInv

LEMMA NobodyLeaves ==
  ASSUME DInv, UNCHANGED deleted, duel' = [d \in DuelIds |-> Remaining(duel[d])]
  PROVE  duel' = duel
<1> SUFFICES ASSUME NEW i \in DuelIds PROVE Remaining(duel[i]) = duel[i]
  BY DEF DInv
<1> DEFINE entry == [p \in Users |-> IF p \in deleted' THEN NoEntry
                                     ELSE duel[i].entry[p]]
<1>1. duel[i] \in Duel /\ duel[i].entry \in [Users -> Entry]
  BY DEF DInv, Duel
<1>2. \A p \in Users : p \in deleted' => duel[i].entry[p] = NoEntry
  BY DEF DInv, EntriesAreEarned
<1>3. entry = duel[i].entry
  BY <1>1, <1>2
<1>4. Remaining(duel[i]) = [duel[i] EXCEPT !.entry = entry]
  BY <1>1 DEF Remaining, Duel
<1> HIDE DEF entry
<1> QED BY <1>1, <1>3, <1>4 DEF Duel

LEMMA SegmentStepKeeps ==
  ASSUME DInv, [Next]_vars, UNCHANGED lastDuel,
         UNCHANGED <<vars, duel>> \/ duel' = [d \in DuelIds |-> Remaining(duel[d])]
  PROVE  DInv'
<1>1. TInv' /\ KeysAreUnique'
  BY StepTypes, KeysNext DEF DInv
<1>2. CASE /\ \E u \in Users : AccountRemoved(u)
           /\ duel' = [d \in DuelIds |-> Remaining(duel[d])]
  BY <1>1, <1>2, RemovalKeeps
<1>3. CASE UNCHANGED deleted /\ annotations \subseteq annotations'
  <2>1. duel' = duel
    BY <1>3, NobodyLeaves DEF vars
  <2>2. Grows
    BY <1>3, <2>1 DEF DInv, Grows
  <2>3. ASSUME NEW r \in Requests PROVE DuelSlot(txn[r])'
    <3>1. CASE txn'[r].op \in SegmentOps
      BY <3>1 DEF SegmentOps, DuelSlot, MoveOps
    <3>2. CASE txn'[r].op \notin SegmentOps
      <4>1. PICK t : t = txn[r] /\ txn'[r] = t /\ DuelSlot(t)
        BY <3>2, ForeignSlots DEF DInv
      <4>2. DuelSlot(t)'
        BY <2>2, <4>1, SlotKept DEF DInv
      <4> QED BY <4>1, <4>2
    <3> QED BY <3>1, <3>2
  <2>4. MovesAreAnnotated' /\ EntriesAreEarned'
    BY <1>3, <2>1 DEF DInv, MovesAreAnnotated, EntriesAreEarned
  <2> QED BY <1>1, <2>1, <2>3, <2>4 DEF DInv
<1>4. CASE UNCHANGED <<vars, duel>>
  BY <1>3, <1>4 DEF vars
<1> QED BY <1>2, <1>3, <1>4, NextGrows DEF DInv

-----------------------------------------------------------------------------
(* The steps of the duels. *)

(* A request begins, or goes on, without writing anything. *)
LEMMA SlotStep ==
  ASSUME DInv, NEW r \in Requests, NEW t, txn' = [txn EXCEPT ![r] = t],
         SlotType(t), DuelSlot(t), KeysAreUnique',
         UNCHANGED <<segment, annotations, user, deleted, trips, audit, duel, lastDuel>>
  PROVE  DInv'
<1>1. /\ DOMAIN txn = Requests
      /\ \A q \in Requests : txn'[q] = IF q = r THEN t ELSE txn[q]
  BY DEF DInv, TInv, TypeOK
<1>2. TInv'
  BY <1>1 DEF DInv, TInv, TypeOK, Anns
<1>3. Grows
  BY DEF Grows, DInv
<1>4. ASSUME NEW q \in Requests PROVE DuelSlot(txn[q])'
  <2>1. PICK x : txn'[q] = x /\ DuelSlot(x)
    BY <1>1 DEF DInv
  <2>2. DuelSlot(x)'
    BY <1>3, <2>1, SlotKept DEF DInv
  <2> QED BY <2>1, <2>2
<1> QED BY <1>2, <1>4 DEF DInv, MovesAreAnnotated, EntriesAreEarned

LEMMA BeginKeys ==
  ASSUME KeysAreUnique, DOMAIN txn = Requests, NEW r \in Requests, NEW t,
         txn' = [txn EXCEPT ![r] = t], t.op # "inserted", t.op # "moved",
         UNCHANGED annotations
  PROVE  KeysAreUnique'
<1>1. \A q \in Requests :
        txn'[q].op \in {"inserted", "moved"} => txn'[q] = txn[q]
  OBVIOUS
<1> QED BY <1>1, KeysKept

LEMMA BeginStep ==
  ASSUME DInv, NEW r \in Requests, NEW t, Begin(r, t), UNCHANGED dvars,
         t.op \in {"join", "create", "move"}, DuelSlot(t)
  PROVE  DInv'
<1>1. /\ txn' = [txn EXCEPT ![r] = t] /\ DOMAIN txn = Requests
      /\ UNCHANGED <<segment, annotations, user, deleted, trips, audit, duel, lastDuel>>
  BY DEF Begin, DInv, TInv, TypeOK, dvars
<1>2. SlotType(t)
  BY DEF SlotType
<1>3. KeysAreUnique'
  BY <1>1, BeginKeys DEF DInv
<1> QED BY <1>1, <1>2, <1>3, SlotStep

LEMMA JoinBegins ==
  ASSUME DInv, NEW r \in Requests, NEW u \in Users, JoinBegin(r, u)
  PROVE  DInv'
<1>1. PICK d \in Open(u) : Begin(r, [op |-> "join", user |-> u, duel |-> d])
  BY DEF JoinBegin
<1> DEFINE t == [op |-> "join", user |-> u, duel |-> d]
<1>2. d \in 1 .. lastDuel
  BY DEF Open
<1>3. DuelSlot(t)
  BY <1>2, CreatedDuels DEF DuelSlot, JoinTxn, MoveOps, JoinBegin
<1>4. Begin(r, t) /\ t.op = "join" /\ UNCHANGED dvars
  BY <1>1 DEF JoinBegin
<1> HIDE DEF t
<1> QED BY <1>3, <1>4, BeginStep

LEMMA CreateBegins ==
  ASSUME DInv, NEW r \in Requests, NEW u \in Users, CreateBegin(r, u)
  PROVE  DInv'
<1>1. PICK s \in Eligible(u) : Begin(r, [op |-> "create", user |-> u, segment |-> s])
  BY DEF CreateBegin
<1> DEFINE t == [op |-> "create", user |-> u, segment |-> s]
<1>2. DuelSlot(t)
  BY DEF DuelSlot, CreateTxn, MoveOps, CreateBegin, Eligible
<1>3. Begin(r, t) /\ t.op = "create" /\ UNCHANGED dvars
  BY <1>1 DEF CreateBegin
<1> HIDE DEF t
<1> QED BY <1>2, <1>3, BeginStep

LEMMA MoveBegins ==
  ASSUME DInv, NEW r \in Requests, NEW u \in Users, NEW d \in 1 .. lastDuel,
         NEW v \in Verdicts, NEW ms \in Times, MoveBegin(r, u, d, v, ms)
  PROVE  DInv'
<1> DEFINE w == BlendReputation(user[u])
           mine == [user |-> u, segment |-> duel[d].segment, verdict |-> v,
                    weight |-> w, control |-> FALSE]
           t == [op |-> "move", id |-> d, duel |-> duel[d], ms |-> ms,
                 row |-> segment[duel[d].segment], mine |-> mine]
<1>1. d \in DuelIds /\ duel[d] \in Duel /\ ms \in Nat
  BY CreatedDuels, DuelsAssumption DEF DInv
<1>2. duel[d].segment \in SegmentIds /\ duel[d].entry[u] \in Entry
  BY <1>1 DEF Duel
<1>3. user[u] \in UserRow /\ segment[duel[d].segment] \in Row
  BY <1>2 DEF DInv, TInv, TypeOK
<1>4. w \in Reputation
  BY <1>3, BlendIsReputation
<1>5. Begin(r, t) /\ UNCHANGED dvars
  BY DEF MoveBegin
<1> HIDE DEF w
<1>6. mine \in Annotation /\ mine.user = u /\ mine.segment = duel[d].segment
  BY <1>2, <1>4 DEF Annotation
<1> HIDE DEF mine
<1>7. t \in MoveTxn /\ t.op = "move" /\ t.id = d /\ t.duel = duel[d] /\ t.mine = mine
  BY <1>1, <1>3, <1>6 DEF MoveTxn
<1> HIDE DEF t
<1>8. u \notin deleted /\ duel[d].entry[u].joined
      /\ duel[d].entry[u].verdict = NoVerdict
  BY DEF MoveBegin, Players, HasMoved
<1>9. SeenIn(duel[d], t)
  BY <1>6, <1>7, <1>8 DEF SeenIn
<1>10. DuelSlot(t)
  BY <1>6, <1>7, <1>8, <1>9 DEF DuelSlot, MoveOps
<1> QED BY <1>5, <1>7, <1>10, BeginStep

LEMMA MoveInserts ==
  ASSUME DInv, NEW r \in Requests, MoveInsert(r)
  PROVE  DInv'
<1> DEFINE x == txn[r]
           n == x.mine
           again == \E m \in annotations : SameKey(m, n)
           op == IF again THEN "moved again" ELSE "moved"
           read == Counted(n.segment) \cup {n}
           t == [op |-> op, id |-> x.id, duel |-> x.duel, ms |-> x.ms, row |-> x.row,
                 mine |-> n, read |-> read]
<1>1. x \in MoveTxn /\ DuelSlot(x) /\ x.op = "move"
  BY DEF DInv, DuelSlot, MoveInsert
<1>2. /\ x.id \in DuelIds /\ x.duel \in Duel /\ x.ms \in Nat /\ x.row \in Row
      /\ n \in Annotation /\ x.id <= lastDuel /\ n.user \notin deleted
      /\ SeenIn(duel[x.id], x)
  BY <1>1 DEF MoveTxn, DuelSlot, MoveOps
<1>3. read \in Anns
  BY <1>2, OfSegment, OneMoreAnnotation DEF DInv
<1>4. /\ txn' = [txn EXCEPT ![r] = t] /\ DOMAIN txn = Requests
      /\ UNCHANGED <<segment, annotations, user, deleted, trips, audit, duel, lastDuel>>
  BY DEF MoveInsert, DInv, TInv, TypeOK, dvars
<1>5. op \in {"moved", "moved again"} /\ (op = "moved again" <=> again)
  OBVIOUS
<1>6. again \/ \A q \in Requests : Inserted(q) => ~SameKey(txn[q].mine, n)
  BY DEF MoveInsert
<1> HIDE DEF op, read
<1>7. t \in MovedTxn /\ t.mine = n /\ t.id = x.id /\ t.duel = x.duel /\ t.op = op
  BY <1>2, <1>3, <1>5 DEF MovedTxn
<1> HIDE DEF t
<1>8. SeenIn(duel[t.id], t)
  BY <1>2, <1>7 DEF SeenIn
<1>9. DuelSlot(t)
  BY <1>2, <1>5, <1>7, <1>8 DEF DuelSlot, MoveOps
<1>10. SlotType(t)
  BY <1>5, <1>7 DEF SlotType
<1>11. KeysAreUnique'
  <2>1. CASE op = "moved again"
    BY <1>4, <1>7, <2>1, BeginKeys DEF DInv
  <2>2. CASE op = "moved"
    <3>1. txn'[r].mine = n /\ \A q \in Requests \ {r} : txn'[q] = txn[q]
      BY <1>4, <1>7
    <3>2. /\ \A m \in annotations : ~SameKey(m, n)
          /\ \A q \in Requests : Inserted(q) => ~SameKey(txn[q].mine, n)
      BY <1>5, <1>6, <2>2
    <3> HIDE DEF n
    <3> QED BY <1>4, <3>1, <3>2, KeysInsert DEF DInv
  <2> QED BY <1>5, <2>1, <2>2
<1> QED BY <1>4, <1>9, <1>10, <1>11, SlotStep

(* A request commits. *)
LEMMA CommitStep ==
  ASSUME DInv, NEW r \in Requests, Finish(r), Grows, TInv', KeysAreUnique',
         duel' \in [DuelIds -> Duel], MovesAreAnnotated', EntriesAreEarned'
  PROVE  DInv'
<1>1. \A q \in Requests : txn'[q] = IF q = r THEN Idle ELSE txn[q]
  BY DEF DInv, TInv, TypeOK, Finish
<1>2. ASSUME NEW q \in Requests PROVE DuelSlot(txn[q])'
  <2>1. CASE q = r
    <3>1. txn'[q].op = "idle"
      BY <1>1, <2>1 DEF Idle
    <3> QED BY <3>1 DEF DuelSlot, MoveOps
  <2>2. CASE q # r
    <3>1. PICK x : txn'[q] = x /\ DuelSlot(x)
      BY <1>1, <2>2 DEF DInv
    <3>2. DuelSlot(x)'
      BY <3>1, SlotKept DEF DInv
    <3> QED BY <3>1, <3>2
  <2> QED BY <2>1, <2>2
<1> QED BY <1>2 DEF DInv, Grows

(* Nothing but the slot of the request is written besides the duels. *)
LEMMA OnlyDuels ==
  ASSUME DInv, NEW r \in Requests, Finish(r),
         UNCHANGED <<segment, annotations, user, deleted, trips, audit>>
  PROVE  TInv' /\ KeysAreUnique'
<1>1. TInv'
  BY FinishTypes DEF DInv, TInv, TypeOK, Anns
<1>2. Idle.op # "inserted" /\ Idle.op # "moved" /\ txn' = [txn EXCEPT ![r] = Idle]
  BY DEF Idle, Finish
<1>3. KeysAreUnique'
  BY <1>2, BeginKeys DEF DInv, TInv, TypeOK
<1> QED BY <1>1, <1>3

(* A player comes into a duel. *)
Enters(k, u) ==
  /\ duel'[k] \in Duel
  /\ duel'[k].entry[u] = NewEntry
  /\ \A p \in Users \ {u} : duel'[k].entry[p] = duel[k].entry[p]
  /\ \A i \in DuelIds \ {k} : duel'[i] = duel[i]

LEMMA JoinWrites ==
  ASSUME DInv, NEW r \in Requests, JoinCommit(r)
  PROVE  /\ txn[r].duel \in 1 .. lastDuel /\ txn[r].user \in Users \ deleted
         /\ Enters(txn[r].duel, txn[r].user)
         /\ duel'[txn[r].duel].segment = duel[txn[r].duel].segment
         /\ duel'[txn[r].duel].status = "active"
         /\ ~duel[txn[r].duel].entry[txn[r].user].joined
<1> DEFINE k == txn[r].duel
           u == txn[r].user
           entry == [duel[k].entry EXCEPT ![u] = NewEntry]
<1>1. /\ k \in DuelIds /\ k <= lastDuel /\ u \in Users /\ u \notin deleted
  BY DEF DInv, DuelSlot, JoinCommit, JoinTxn
<1>2. k \in 1 .. lastDuel
  BY <1>1, DuelsAssumption DEF DInv, DuelIds
<1>3. duel[k] \in Duel /\ duel[k].entry \in [Users -> Entry]
  BY <1>1 DEF DInv, Duel
<1>4. /\ entry \in [Users -> Entry] /\ entry[u] = NewEntry
      /\ \A p \in Users \ {u} : entry[p] = duel[k].entry[p]
  BY <1>1, <1>3, EntryTypes
<1>5. /\ duel' = [duel EXCEPT ![k].status = "active", ![k].entry[u] = NewEntry]
      /\ ~duel[k].entry[u].joined
  BY <1>1 DEF JoinCommit, Players
<1> HIDE DEF k, u
<1>6. /\ duel'[k] = [duel[k] EXCEPT !.status = "active", !.entry = entry]
      /\ \A i \in DuelIds \ {k} : duel'[i] = duel[i]
  BY <1>1, <1>3, <1>5 DEF DInv, Duel
<1> HIDE DEF entry
<1>7. /\ duel'[k] \in Duel /\ duel'[k].entry = entry
      /\ duel'[k].segment = duel[k].segment /\ duel'[k].status = "active"
  BY <1>3, <1>4, <1>6 DEF Duel
<1>8. Enters(k, u)
  BY <1>4, <1>6, <1>7 DEF Enters
<1> QED BY <1>1, <1>2, <1>5, <1>7, <1>8 DEF k, u

LEMMA CreateWrites ==
  ASSUME DInv, NEW r \in Requests, CreateCommit(r)
  PROVE  /\ lastDuel' = lastDuel + 1 /\ lastDuel' \in DuelIds
         /\ txn[r].user \in Users \ deleted
         /\ Enters(lastDuel', txn[r].user)
         /\ duel'[lastDuel'].status = "open"
<1> DEFINE k == lastDuel + 1
           u == txn[r].user
           s == txn[r].segment
           entry == [duel[k].entry EXCEPT ![u] = NewEntry]
<1>1. k \in DuelIds /\ u \in Users /\ u \notin deleted /\ s \in SegmentIds
  BY DEF DInv, DuelSlot, CreateCommit, CreateTxn
<1>2. duel[k] \in Duel /\ duel[k].entry \in [Users -> Entry]
  BY <1>1 DEF DInv, Duel
<1>3. /\ entry \in [Users -> Entry] /\ entry[u] = NewEntry
      /\ \A p \in Users \ {u} : entry[p] = duel[k].entry[p]
  BY <1>1, <1>2, EntryTypes
<1>4. duel' = [duel EXCEPT ![k].status = "open", ![k].segment = s,
                           ![k].entry[u] = NewEntry]
  BY DEF CreateCommit
<1>5. lastDuel' = k
  BY DEF CreateCommit
<1> HIDE DEF k, u, s
<1>6. /\ duel'[k] = [duel[k] EXCEPT !.status = "open", !.segment = s,
                                    !.entry = entry]
      /\ \A i \in DuelIds \ {k} : duel'[i] = duel[i]
  BY <1>1, <1>2, <1>4 DEF DInv, Duel
<1> HIDE DEF entry
<1>7. /\ duel'[k] \in Duel /\ duel'[k].entry = entry /\ duel'[k].status = "open"
  BY <1>1, <1>2, <1>3, <1>6 DEF Duel
<1>8. Enters(k, u)
  BY <1>3, <1>6, <1>7 DEF Enters
<1> QED BY <1>1, <1>5, <1>7, <1>8 DEF k, u

LEMMA EntersEarned ==
  ASSUME DInv, NEW k \in DuelIds, NEW u \in Users \ deleted, Enters(k, u),
         lastDuel' \in Int, lastDuel <= lastDuel', k <= lastDuel', UNCHANGED deleted
  PROVE  EntriesAreEarned'
<1> SUFFICES ASSUME NEW i \in DuelIds, NEW p \in Users
             PROVE  /\ ~HasMoved(duel'[i], p) => duel'[i].entry[p].score = 0
                                               /\ ~duel'[i].entry[p].winner
                    /\ i > lastDuel' \/ p \in deleted' =>
                         duel'[i].entry[p] = NoEntry
  BY DEF EntriesAreEarned
<1>1. /\ ~HasMoved(duel[i], p) =>
           duel[i].entry[p].score = 0 /\ ~duel[i].entry[p].winner
      /\ i > lastDuel \/ p \in deleted => duel[i].entry[p] = NoEntry
  BY DEF DInv, EntriesAreEarned
<1>2. i > lastDuel' => i > lastDuel /\ i # k
  BY DEF DInv, DuelIds
<1>3. CASE i = k /\ p = u
  BY <1>2, <1>3, EntryTypes DEF Enters
<1>4. CASE ~(i = k /\ p = u)
  <2>1. duel'[i].entry[p] = duel[i].entry[p]
    BY <1>4 DEF Enters
  <2> QED BY <1>1, <1>2, <2>1 DEF HasMoved
<1> QED BY <1>3, <1>4

LEMMA JoinCommits ==
  ASSUME DInv, NEW r \in Requests, JoinCommit(r)
  PROVE  DInv'
<1> DEFINE k == txn[r].duel
           u == txn[r].user
<1>1. /\ k \in 1 .. lastDuel /\ u \in Users \ deleted /\ Enters(k, u)
      /\ duel'[k].segment = duel[k].segment /\ ~duel[k].entry[u].joined
  BY JoinWrites
<1>2. /\ UNCHANGED <<segment, annotations, user, deleted, trips, audit, lastDuel>>
      /\ Finish(r)
  BY DEF JoinCommit
<1> HIDE DEF k, u
<1>3. k \in DuelIds /\ lastDuel \in Int
  BY <1>1, CreatedDuels DEF DInv
<1>4. duel' \in [DuelIds -> Duel]
  <2>1. DOMAIN duel' = DuelIds /\ duel' = [i \in DuelIds |-> duel'[i]]
    BY DEF DInv, JoinCommit
  <2> QED BY <1>1, <2>1 DEF Enters, DInv
<1>5. \A i \in 1 .. lastDuel : \A p \in Users :
        (i = k /\ p = u) \/ duel'[i].entry[p] = duel[i].entry[p]
  BY <1>1, CreatedDuels DEF Enters
<1>6. \A i \in 1 .. lastDuel : duel'[i].segment = duel[i].segment
  BY <1>1, CreatedDuels DEF Enters
<1>7. ~HasMoved(duel[k], u) /\ ~HasMoved(duel'[k], u)
  BY <1>1, EntryTypes DEF HasMoved, Enters
<1>8. Grows
  BY <1>1, <1>2, <1>5, <1>6, <1>7 DEF Grows, DInv, HasMoved
<1>9. MovesAreAnnotated'
  BY <1>2, <1>5, <1>6, <1>7 DEF MovesAreAnnotated, DInv, HasMoved
<1>10. EntriesAreEarned'
  BY <1>1, <1>2, <1>3, EntersEarned
<1>11. TInv' /\ KeysAreUnique'
  BY <1>2, OnlyDuels
<1> QED BY <1>2, <1>4, <1>8, <1>9, <1>10, <1>11, CommitStep

LEMMA CreateCommits ==
  ASSUME DInv, NEW r \in Requests, CreateCommit(r)
  PROVE  DInv'
<1> DEFINE k == lastDuel'
           u == txn[r].user
<1>1. /\ k = lastDuel + 1 /\ k \in DuelIds
      /\ u \in Users \ deleted /\ Enters(k, u)
  BY CreateWrites
<1>2. UNCHANGED <<segment, annotations, user, deleted, trips, audit>> /\ Finish(r)
  BY DEF CreateCommit
<1> HIDE DEF u
<1>3. /\ lastDuel \in Int /\ k \in Int /\ lastDuel <= k /\ k \in 0 .. MaxDuels
  BY <1>1, DuelsAssumption DEF DInv, DuelIds
<1>4. duel' \in [DuelIds -> Duel]
  <2>1. duel' = [i \in DuelIds |-> duel'[i]]
    BY DEF DInv, CreateCommit
  <2> QED BY <1>1, <2>1 DEF Enters, DInv
<1>5. \A i \in 1 .. lastDuel : i \in DuelIds \ {k} /\ duel'[i] = duel[i]
  BY <1>1, <1>3, CreatedDuels DEF Enters
<1>6. Grows
  BY <1>2, <1>3, <1>5 DEF Grows
<1>7. ASSUME NEW p \in Users PROVE ~HasMoved(duel'[k], p)
  <2>1. k > lastDuel
    BY <1>1, <1>3
  <2>2. duel[k].entry[p] = NoEntry
    BY <1>1, <2>1 DEF DInv, EntriesAreEarned
  <2> QED BY <1>1, <2>2, EntryTypes DEF Enters, HasMoved
<1>8. MovesAreAnnotated'
  <2>1. \A i \in 1 .. k : i = k \/ i \in 1 .. lastDuel
    BY <1>1, <1>3
  <2> QED BY <1>2, <1>5, <1>7, <2>1 DEF MovesAreAnnotated, DInv
<1>9. EntriesAreEarned'
  BY <1>1, <1>2, <1>3, EntersEarned
<1>10. TInv' /\ KeysAreUnique'
  BY <1>2, OnlyDuels
<1> QED BY <1>2, <1>4, <1>6, <1>8, <1>9, <1>10, CommitStep

(* What a move writes: the entry of the player, and points to whoever has  *)
(* moved.                                                                  *)
LEMMA MoveWrites ==
  ASSUME DInv, NEW r \in Requests, MoveCommit(r)
  PROVE  LET k == txn[r].id
             u == txn[r].mine.user
         IN /\ txn[r] \in MovedTxn /\ k \in 1 .. lastDuel /\ u \in Users \ deleted
            /\ duel[k].segment = txn[r].mine.segment
            /\ duel'[k] \in Duel /\ duel'[k].segment = duel[k].segment
            /\ \A i \in DuelIds \ {k} : duel'[i] = duel[i]
            /\ HasMoved(duel'[k], u)
            /\ \A p \in Users \ {u} :
                 \/ duel'[k].entry[p] = duel[k].entry[p]
                 \/ HasMoved(duel[k], p) /\ HasMoved(duel'[k], p)
<1> DEFINE t == txn[r]
           k == t.id
           u == t.mine.user
           new == Moved(t)
           old == duel[k]
           entry == [p \in Users |->
                       Flush(old.entry[p], t.duel.entry[p], new.entry[p])]
           status == IF new.status = t.duel.status THEN old.status ELSE new.status
<1>1. /\ t \in MovedTxn /\ k <= lastDuel /\ SeenIn(old, t) /\ u \notin deleted
  BY DEF DInv, DuelSlot, MoveCommit, MoveOps
<1>2. /\ k \in DuelIds /\ t.duel \in Duel /\ t.ms \in Nat /\ t.mine \in Annotation
      /\ u \in Users
  BY <1>1 DEF MovedTxn, Annotation
<1>3. k \in 1 .. lastDuel
  BY <1>1, <1>2, DuelsAssumption DEF DInv, DuelIds
<1>4. old \in Duel
  BY <1>2 DEF DInv
<1>5. /\ new \in Duel
      /\ new.entry[u].joined = t.duel.entry[u].joined
      /\ new.entry[u].verdict = t.mine.verdict
      /\ \A p \in Users \ {u} :
           /\ new.entry[p].joined = t.duel.entry[p].joined
           /\ new.entry[p].verdict = t.duel.entry[p].verdict
           /\ HasMoved(t.duel, p) \/ new.entry[p] = t.duel.entry[p]
  BY <1>2, MovedDuel
<1>6. /\ old.segment = t.mine.segment
      /\ t.duel.entry[u].joined /\ t.duel.entry[u].verdict = NoVerdict
      /\ \A p \in Users : /\ t.duel.entry[p].joined => old.entry[p].joined
                          /\ HasMoved(t.duel, p) => HasMoved(old, p)
  BY <1>1 DEF SeenIn
<1>7. \A p \in Users : /\ old.entry[p] \in Entry /\ t.duel.entry[p] \in Entry
                       /\ new.entry[p] \in Entry
  BY <1>2, <1>4, <1>5 DEF Duel
<1>8. t.mine.verdict # NoVerdict
  BY <1>2 DEF Annotation, Verdicts, NoVerdict
<1>9. duel' = [duel EXCEPT ![k].status = IF new.status = t.duel.status THEN @
                                          ELSE new.status,
                           ![k].entry = entry]
  BY DEF MoveCommit
<1> HIDE DEF new
<1>10. \A p \in Users :
         /\ entry[p] \in Entry
         /\ \A f \in {"joined", "verdict", "ms", "score", "winner"} :
              entry[p][f] = IF new.entry[p][f] = t.duel.entry[p][f]
                            THEN old.entry[p][f] ELSE new.entry[p][f]
         /\ new.entry[p] = t.duel.entry[p] => entry[p] = old.entry[p]
  <2> SUFFICES ASSUME NEW p \in Users
               PROVE  /\ entry[p] \in Entry
                      /\ \A f \in {"joined", "verdict", "ms", "score", "winner"} :
                           entry[p][f] = IF new.entry[p][f] = t.duel.entry[p][f]
                                         THEN old.entry[p][f] ELSE new.entry[p][f]
                      /\ new.entry[p] = t.duel.entry[p] => entry[p] = old.entry[p]
    OBVIOUS
  <2>1. PICK x : x = old.entry[p]
    OBVIOUS
  <2>2. PICK y : y = t.duel.entry[p]
    OBVIOUS
  <2>3. PICK z : z = new.entry[p]
    OBVIOUS
  <2>4. entry[p] = Flush(x, y, z)
    BY <2>1, <2>2, <2>3
  <2>5. x \in Entry /\ y \in Entry /\ z \in Entry
    BY <1>7, <2>1, <2>2, <2>3
  <2>6. PICK w : w = Flush(x, y, z)
    OBVIOUS
  <2>7. /\ w \in Entry
        /\ \A f \in {"joined", "verdict", "ms", "score", "winner"} :
             w[f] = IF z[f] = y[f] THEN x[f] ELSE z[f]
        /\ z = y => w = x
    BY <2>5, <2>6, FlushedEntry
  <2>8. entry[p] = w
    BY <2>4, <2>6
  <2> HIDE DEF entry, old
  <2> QED BY <2>1, <2>2, <2>3, <2>7, <2>8
<1>11. entry \in [Users -> Entry]
  BY <1>10
<1>12. status \in {"none", "open", "active", "finished"}
  BY <1>4, <1>5 DEF Duel
<1> HIDE DEF entry
<1>13. /\ duel'[k] = [old EXCEPT !.status = status, !.entry = entry]
       /\ \A i \in DuelIds \ {k} : duel'[i] = duel[i]
  BY <1>2, <1>4, <1>9 DEF DInv, Duel
<1> HIDE DEF status
<1>14. /\ duel'[k] \in Duel /\ duel'[k].entry = entry
       /\ duel'[k].segment = old.segment
  BY <1>4, <1>11, <1>12, <1>13 DEF Duel
<1>15. HasMoved(duel'[k], u)
  <2>1. entry[u].joined = old.entry[u].joined /\ old.entry[u].joined
    BY <1>2, <1>5, <1>6, <1>10
  <2>2. entry[u].verdict = t.mine.verdict
    BY <1>2, <1>5, <1>6, <1>8, <1>10
  <2> QED BY <1>8, <1>14, <2>1, <2>2 DEF HasMoved
<1>16. ASSUME NEW p \in Users \ {u}
       PROVE  \/ duel'[k].entry[p] = duel[k].entry[p]
              \/ HasMoved(duel[k], p) /\ HasMoved(duel'[k], p)
  <2>1. CASE new.entry[p] = t.duel.entry[p]
    BY <1>10, <1>14, <2>1
  <2>2. CASE HasMoved(t.duel, p)
    <3>1. /\ entry[p].joined = old.entry[p].joined
          /\ entry[p].verdict = old.entry[p].verdict
      BY <1>5, <1>10
    <3> QED BY <1>6, <1>14, <2>2, <3>1 DEF HasMoved
  <2> QED BY <1>5, <2>1, <2>2
<1> QED BY <1>1, <1>2, <1>3, <1>6, <1>13, <1>14, <1>15, <1>16

(* What it writes besides. *)
LEMMA MoveVotes ==
  ASSUME DInv, NEW r \in Requests, MoveCommit(r)
  PROVE  /\ TInv' /\ KeysAreUnique' /\ annotations \subseteq annotations'
         /\ \E m \in annotations' : SameKey(m, txn[r].mine)
<1> DEFINE t == txn[r]
           n == t.mine
<1>1. /\ t \in MovedTxn /\ t.op \in {"moved", "moved again"}
      /\ t.op = "moved again" => \E m \in annotations : SameKey(m, n)
  BY DEF DInv, DuelSlot, MoveCommit
<1>2. /\ n \in Annotation /\ t.row \in Row /\ t.read \in Anns
      /\ n.segment \in SegmentIds
  BY <1>1 DEF MovedTxn, Annotation
<1>3. Finish(r) /\ UNCHANGED <<user, deleted, trips, audit>>
  BY DEF MoveCommit
<1>4. CASE t.op = "moved again"
  <2>1. UNCHANGED <<segment, annotations>>
    BY <1>4 DEF MoveCommit
  <2> QED BY <1>1, <1>3, <1>4, <2>1, OnlyDuels
<1>5. CASE t.op = "moved"
  <2> DEFINE z == WithConsensus(t.row, t.read)
  <2>1. /\ annotations' = annotations \cup {n}
        /\ segment' = [segment EXCEPT ![n.segment] = Flush(@, t.row, z)]
    BY <1>5 DEF MoveCommit
  <2>2. z \in Row
    <3>1. NoVerdict \in Verdicts \cup {NoVerdict}
      OBVIOUS
    <3> QED BY <1>2, <3>1, AgreedRow
  <2> HIDE DEF z
  <2>3. segment' \in [SegmentIds -> Row]
    BY <1>2, <2>1, <2>2, FlushedRow DEF DInv, TInv, TypeOK
  <2>4. annotations' \in Anns
    BY <1>2, <2>1, OneMoreAnnotation DEF DInv, TInv
  <2>5. TInv'
    BY <1>3, <2>3, <2>4, FinishTypes DEF DInv, TInv, TypeOK, Anns
  <2>6. KeysAreUnique'
    BY <1>3, <1>5, <2>1, KeysCommit DEF DInv, TInv, TypeOK, Inserted
  <2>7. n \in annotations' /\ SameKey(n, n)
    BY <2>1 DEF SameKey
  <2> QED BY <2>1, <2>5, <2>6, <2>7
<1> QED BY <1>1, <1>4, <1>5

LEMMA MoveCommits ==
  ASSUME DInv, NEW r \in Requests, MoveCommit(r)
  PROVE  DInv'
<1> DEFINE n == txn[r].mine
           k == txn[r].id
           u == n.user
<1>1. /\ k \in 1 .. lastDuel /\ u \in Users \ deleted
      /\ duel[k].segment = n.segment
      /\ duel'[k] \in Duel /\ duel'[k].segment = duel[k].segment
      /\ \A i \in DuelIds \ {k} : duel'[i] = duel[i]
      /\ HasMoved(duel'[k], u)
      /\ \A p \in Users \ {u} :
           \/ duel'[k].entry[p] = duel[k].entry[p]
           \/ HasMoved(duel[k], p) /\ HasMoved(duel'[k], p)
  BY MoveWrites
<1>2. /\ TInv' /\ KeysAreUnique' /\ annotations \subseteq annotations'
      /\ \E m \in annotations' : SameKey(m, n)
  BY MoveVotes
<1>3. Finish(r) /\ UNCHANGED <<deleted, lastDuel>>
  BY DEF MoveCommit
<1> HIDE DEF n, k
<1>4. duel' \in [DuelIds -> Duel]
  <2>1. duel' = [i \in DuelIds |-> duel'[i]]
    BY DEF DInv, MoveCommit
  <2> QED BY <1>1, <2>1 DEF DInv
<1>5. \A i \in 1 .. lastDuel : i \in DuelIds
  BY CreatedDuels
<1>6. \A i \in 1 .. lastDuel : duel'[i].segment = duel[i].segment
  BY <1>1, <1>5
<1>7. \A i \in 1 .. lastDuel : \A p \in Users :
        \/ duel'[i].entry[p] = duel[i].entry[p]
        \/ HasMoved(duel[i], p) /\ HasMoved(duel'[i], p)
        \/ i = k /\ p = u /\ HasMoved(duel'[i], p)
  BY <1>1, <1>5
<1>8. Grows
  BY <1>1, <1>2, <1>3, <1>6, <1>7 DEF Grows, DInv, HasMoved
<1>9. MovesAreAnnotated'
  <2> SUFFICES ASSUME NEW i \in 1 .. lastDuel, NEW p \in Users \ deleted,
                      HasMoved(duel'[i], p)
               PROVE  \E m \in annotations' : /\ m.user = p
                                              /\ m.segment = duel'[i].segment
    BY <1>3 DEF MovesAreAnnotated
  <2>1. CASE i = k /\ p = u
    BY <1>1, <1>2, <2>1 DEF SameKey
  <2>2. CASE HasMoved(duel[i], p)
    <3>1. \E m \in annotations : m.user = p /\ m.segment = duel[i].segment
      BY <2>2 DEF DInv, MovesAreAnnotated
    <3> QED BY <1>2, <1>6, <3>1
  <2> QED BY <1>7, <2>1, <2>2 DEF HasMoved
<1>10. EntriesAreEarned'
  <2> SUFFICES ASSUME NEW i \in DuelIds, NEW p \in Users
               PROVE  /\ ~HasMoved(duel'[i], p) => duel'[i].entry[p].score = 0
                                                 /\ ~duel'[i].entry[p].winner
                      /\ i > lastDuel \/ p \in deleted =>
                           duel'[i].entry[p] = NoEntry
    BY <1>3 DEF EntriesAreEarned
  <2>1. /\ ~HasMoved(duel[i], p) =>
             duel[i].entry[p].score = 0 /\ ~duel[i].entry[p].winner
        /\ i > lastDuel \/ p \in deleted => duel[i].entry[p] = NoEntry
    BY DEF DInv, EntriesAreEarned
  <2>2. CASE duel'[i].entry[p] = duel[i].entry[p]
    BY <2>1, <2>2 DEF HasMoved
  <2>3. CASE duel'[i].entry[p] # duel[i].entry[p]
    <3>1. i = k /\ HasMoved(duel'[i], p) /\ (p = u \/ HasMoved(duel[i], p))
      BY <1>1, <2>3
    <3>2. ~(i > lastDuel)
      BY <1>1, <3>1 DEF DInv
    <3>3. p \notin deleted
      BY <1>1, <2>1, <3>1, EntryTypes DEF HasMoved
    <3> QED BY <3>1, <3>2, <3>3
  <2> QED BY <2>2, <2>3
<1> QED BY <1>2, <1>3, <1>4, <1>8, <1>9, <1>10, CommitStep

-----------------------------------------------------------------------------
LEMMA DuelsBegin == DuelsInit => DInv
<1> SUFFICES ASSUME DuelsInit PROVE DInv
  OBVIOUS
<1> DEFINE first == CHOOSE s \in SegmentIds : TRUE
           none == [u \in Users |-> NoEntry]
           unused == [status |-> "none", segment |-> first, entry |-> none]
<1>1. TInv /\ annotations = {} /\ \A r \in Requests : txn[r] = Idle
  BY InitTypes DEF DuelsInit, Init
<1>2. first \in SegmentIds
  BY DuelsAssumption
<1>3. duel = [d \in DuelIds |-> unused] /\ lastDuel = 0
  BY DEF DuelsInit
<1>4. none \in [Users -> Entry] /\ \A u \in Users : none[u] = NoEntry
  BY EntryTypes
<1> HIDE DEF first, none
<1>5. unused \in Duel /\ unused.entry = none
  BY <1>2, <1>4 DEF Duel
<1> HIDE DEF unused
<1>6. duel \in [DuelIds -> Duel] /\ lastDuel \in 0 .. MaxDuels
  BY <1>3, <1>5, DuelsAssumption
<1>7. EntriesAreEarned
  BY <1>3, <1>4, <1>5, EntryTypes DEF EntriesAreEarned
<1>8. \A r \in Requests : txn[r].op = "idle"
  BY <1>1 DEF Idle
<1>9. KeysAreUnique
  BY <1>1, <1>8 DEF KeysAreUnique, Inserted
<1>10. MovesAreAnnotated
  BY <1>3 DEF MovesAreAnnotated
<1>11. ASSUME NEW r \in Requests PROVE DuelSlot(txn[r])
  BY <1>8 DEF DuelSlot, MoveOps
<1> QED BY <1>1, <1>6, <1>7, <1>9, <1>10, <1>11 DEF DInv

LEMMA DuelsKeep ==
  ASSUME DInv, [DuelsNext]_allvars
  PROVE  DInv'
<1>1. CASE UNCHANGED allvars
  BY <1>1, SegmentStepKeeps DEF allvars, dvars
<1>2. CASE Next /\ duel' = [d \in DuelIds |-> Remaining(duel[d])]
                /\ UNCHANGED lastDuel
  BY <1>2, SegmentStepKeeps
<1>3. ASSUME NEW r \in Requests, DuelStep(r) PROVE DInv'
  <2>1. ASSUME NEW u \in Users, JoinBegin(r, u) \/ CreateBegin(r, u) PROVE DInv'
    BY <2>1, JoinBegins, CreateBegins
  <2>2. ASSUME NEW u \in Users, NEW d \in 1 .. lastDuel, NEW v \in Verdicts,
               NEW ms \in Times, MoveBegin(r, u, d, v, ms)
        PROVE  DInv'
    BY <2>2, MoveBegins
  <2> QED BY <1>3, <2>1, <2>2, JoinCommits, CreateCommits, MoveInserts, MoveCommits
          DEF DuelStep
<1> QED BY <1>1, <1>2, <1>3 DEF DuelsNext

LEMMA DuelsAlways == DuelsSpec => []DInv
BY DuelsBegin, DuelsKeep, PTL DEF DuelsSpec

(* Duels are of their type, whatever overlaps. *)
THEOREM DuelsTypeCorrect == DuelsSpec => []DuelsTypeOK
<1>1. DInv => DuelsTypeOK
  BY DEF DInv, TInv, DuelsTypeOK
<1> QED BY <1>1, DuelsAlways, PTL

(* Whoever has moved has one annotation on the segment of the duel, and    *)
(* not two, however moves and annotations overlap (make_move).             *)
THEOREM MovesAreOneAnnotation == DuelsSpec => []MoveIsAnnotation
<1>1. ASSUME DInv PROVE MoveIsAnnotation
  <2> SUFFICES ASSUME NEW i \in 1 .. lastDuel, NEW u \in Users \ deleted,
                      HasMoved(duel[i], u)
               PROVE  Cardinality({n \in Of(u) : n.segment = duel[i].segment}) = 1
    BY DEF MoveIsAnnotation
  <2>1. PICK n \in annotations : n.user = u /\ n.segment = duel[i].segment
    BY <1>1 DEF DInv, MovesAreAnnotated
  <2>2. {m \in Of(u) : m.segment = duel[i].segment} = {n}
    BY <1>1, <2>1 DEF DInv, KeysAreUnique, SameKey, Of
  <2> QED BY <2>2, FS_Singleton
<1> QED BY <1>1, DuelsAlways, PTL

-----------------------------------------------------------------------------
(* The points of a player, as a sum over duels. *)

ScoreStep(u, S, f) ==
  [s \in SUBSET S |-> IF s = {} THEN 0
                      ELSE duel[Some(s)].entry[u].score + f[Rest(s)]]
ScoreSums(u, S) == CHOOSE f : f = ScoreStep(u, S, f)

LEMMA ScoreIsTotal ==
  ASSUME NEW u, NEW S, NEW w, \A d \in S : w[d] = duel[d].entry[u].score
  PROVE  Score(u, S) = Total(w, S)
<1>1. Score(u, S) = ScoreSums(u, S)[S]
  BY DEF Score, MapThenSumSet, MapThenFoldSet, ScoreSums, ScoreStep, Some, Rest
<1>2. \A f : ScoreStep(u, S, f) = Added(w, S, f)
  BY RestIsSmaller DEF ScoreStep, Added
<1>3. ScoreSums(u, S) = Sums(w, S)
  BY <1>2, Zenon DEF ScoreSums, Sums
<1> QED BY <1>1, <1>3 DEF Total

(* The profile and the leaderboard agree on the points of a player, since  *)
(* the duels that only one of them counts have brought nothing.            *)
THEOREM PointsAreMoved == DuelsSpec => []StatisticsAgree
<1>1. ASSUME DInv PROVE StatisticsAgree
  <2> SUFFICES ASSUME NEW u \in Users
               PROVE  /\ Score(u, Submitted(u)) = Score(u, Entered(u))
                      /\ Won(u) \subseteq Submitted(u)
    BY DEF StatisticsAgree
  <2> DEFINE w == [d \in DuelIds |-> duel[d].entry[u].score]
  <2>1. /\ Submitted(u) \subseteq Entered(u) /\ Entered(u) \subseteq DuelIds
        /\ Entered(u) \subseteq 1 .. lastDuel /\ lastDuel \in Nat
    BY <1>1, CreatedDuels DEF Submitted, Entered, Players, HasMoved, DInv
  <2>2. \A d \in DuelIds : w[d] \in Nat /\ w[d] = duel[d].entry[u].score
    BY <1>1 DEF DInv, Duel, Entry
  <2>3. \A d \in Entered(u) \ Submitted(u) :
          duel[d].entry[u].score = 0 /\ ~duel[d].entry[u].winner
    BY <1>1, <2>1 DEF DInv, EntriesAreEarned, Submitted
  <2> HIDE DEF w
  <2>4. NaturalTerms(w, Entered(u))
    <3>1. IsFiniteSet(1 .. lastDuel)
      BY <2>1, FS_Interval
    <3>2. IsFiniteSet(Entered(u))
      BY <2>1, <3>1, FS_Subset
    <3> QED BY <2>1, <2>2, <3>2 DEF NaturalTerms
  <2>5. Score(u, Submitted(u)) = Total(w, Submitted(u))
    BY <2>1, <2>2, ScoreIsTotal
  <2>6. Score(u, Entered(u)) = Total(w, Entered(u))
    BY <2>1, <2>2, ScoreIsTotal
  <2>7. Total(w, Submitted(u)) = Total(w, Entered(u))
    BY <2>1, <2>2, <2>3, <2>4, TotalOfPart
  <2>8. Won(u) \subseteq Submitted(u)
    BY <2>3 DEF Won
  <2> QED BY <2>5, <2>6, <2>7, <2>8
<1> QED BY <1>1, DuelsAlways, PTL

-----------------------------------------------------------------------------
(* One request at a time: what it loaded is what is stored. *)

LEMMA PlayersAreFinite ==
  ASSUME NEW d
  PROVE  IsFiniteSet(Players(d)) /\ Cardinality(Players(d)) \in Nat
BY FS_Subset, FS_CardinalityType, DuelsAssumption DEF Players

LEMMA OneSlot ==
  ASSUME OneAtATime, DInv, NEW r \in Requests, NEW t,
         txn' = [txn EXCEPT ![r] = t],
         t.op \in {"idle", "join", "create"} \cup MoveOps, FreshDuel(t)'
  PROVE  Fresh' /\ \A q \in Requests : FreshDuel(txn[q])'
<1>1. Requests = {r} /\ DOMAIN txn = Requests
  BY DEF OneAtATime, DInv, TInv, TypeOK
<1>2. txn'[r] = t
  BY <1>1
<1>3. /\ t.op # "annotate" /\ t.op # "inserted" /\ t.op # "queue"
      /\ t.op # "decide" /\ t.op # "batch" /\ t.op # "ingest" /\ t.op # "cleanup"
  BY DEF MoveOps
<1>4. Fresh'
  BY <1>1, <1>2, <1>3 DEF Fresh, FreshSlot
<1>5. \A q \in Requests : FreshDuel(txn[q])'
  BY <1>1, <1>2 DEF FreshDuel
<1> QED BY <1>4, <1>5

LEMMA IdleSlot ==
  ASSUME OneAtATime, DInv, NEW r \in Requests, Finish(r)
  PROVE  Fresh' /\ \A q \in Requests : FreshDuel(txn[q])'
<1>1. PICK t : t = Idle
  OBVIOUS
<1>2. t.op = "idle" /\ txn' = [txn EXCEPT ![r] = t]
  BY <1>1 DEF Idle, Finish
<1>3. FreshDuel(t)'
  BY <1>2 DEF FreshDuel, MoveOps
<1> QED BY <1>2, <1>3, OneSlot

(* While a request of the duels is in flight, the segments rest. *)
LEMMA SegmentsRest ==
  ASSUME OneAtATime, DInv, [Next]_vars, NEW r \in Requests,
         txn'[r].op \notin SegmentOps
  PROVE  UNCHANGED <<segment, deleted, annotations>> /\ txn'[r] = txn[r]
<1>1. Requests = {r} /\ txn'[r] = txn[r]
  BY ForeignSlots DEF OneAtATime, DInv
<1>2. /\ txn[r].op # "idle" /\ txn[r].op # "annotate" /\ txn[r].op # "inserted"
      /\ txn[r].op # "queue" /\ txn[r].op # "decide" /\ txn[r].op # "batch"
      /\ txn[r].op # "ingest" /\ txn[r].op # "cleanup"
  BY <1>1 DEF SegmentOps
<1>3. txn[r] # Idle
  BY <1>2 DEF Idle
<1>4. ~Start(r)
  BY <1>3 DEF Start, AnnotateBegin, QueueBegin, DecideBegin, BatchBegin, IngestBegin,
     CleanupBegin, Begin
<1>5. Continue(r) => UNCHANGED <<segment, deleted, annotations>>
  BY <1>2 DEF Continue, AnnotateInsert, AnnotateCommit, ControlCommit, QueueCommit,
     DecideCommit, BatchCommit, IngestCommit, CleanupCommit, Abort
<1>6. Environment => UNCHANGED <<segment, deleted, annotations>>
  BY <1>3 DEF Environment, TimePasses, AccountRemoved, CreateEvent
<1> QED BY <1>1, <1>4, <1>5, <1>6 DEF Next, vars

LEMMA RemovalIsFair ==
  ASSUME DInv, NEW i \in DuelIds, Fair(duel[i]), NEW e,
         e = Remaining(duel[i])
  PROVE  Fair(e)
<1> DEFINE d == duel[i]
           entry == [p \in Users |-> IF p \in deleted' THEN NoEntry ELSE d.entry[p]]
<1>1. d \in Duel
  BY DEF DInv
<1>2. e.status = d.status /\ e.entry = entry
  BY <1>1 DEF Remaining, Duel
<1>3. \A p \in Players(e) : p \in Players(d) /\ e.entry[p] = d.entry[p]
  BY <1>2, EntryTypes DEF Players
<1> QED BY <1>2, <1>3 DEF Fair

LEMMA SegmentStepIsFair ==
  ASSUME OneAtATime, OneInv, DInv', [Next]_vars, UNCHANGED lastDuel,
         UNCHANGED <<vars, duel>> \/ duel' = [d \in DuelIds |-> Remaining(duel[d])]
  PROVE  OneInv'
<1>1. Fresh' /\ IndexIsFormula'
  BY FreshStep, Effects, IndexStep DEF OneInv, DInv
<1>2. UNCHANGED deleted => duel' = duel
  BY NobodyLeaves DEF OneInv, vars
<1>3. ASSUME NEW r \in Requests PROVE FreshDuel(txn[r])'
  <2>1. CASE txn'[r].op \in SegmentOps
    BY <2>1 DEF SegmentOps, FreshDuel, MoveOps
  <2>2. CASE txn'[r].op \notin SegmentOps
    <3>1. UNCHANGED <<segment, deleted, duel>> /\ txn'[r] = txn[r]
      BY <1>2, <2>2, SegmentsRest DEF OneInv
    <3>2. FreshDuel(txn[r])
      BY DEF OneInv
    <3> QED BY <3>1, <3>2 DEF FreshDuel
  <2> QED BY <2>1, <2>2
<1>4. deleted' = {} => deleted = {}
  BY NextGrows DEF OneInv, DInv, AccountRemoved
<1>5. Staged'
  BY <1>2, <1>4 DEF OneInv, Staged
<1>6. ASSUME NEW i \in 1 .. lastDuel' PROVE Fair(duel'[i])
  <2>1. i \in DuelIds /\ Fair(duel[i])
    BY CreatedDuels DEF OneInv, AllFair
  <2>2. duel'[i] = duel[i] \/ duel'[i] = Remaining(duel[i])
    BY <2>1
  <2> QED BY <2>1, <2>2, RemovalIsFair DEF OneInv
<1> QED BY <1>1, <1>3, <1>5, <1>6 DEF OneInv, AllFair

LEMMA QuietStep ==
  ASSUME OneAtATime, OneInv, DInv', NEW r \in Requests, NEW t,
         txn' = [txn EXCEPT ![r] = t],
         t.op \in {"idle", "join", "create"} \cup MoveOps, FreshDuel(t)',
         UNCHANGED <<segment, deleted, duel, lastDuel>>
  PROVE  OneInv'
<1>1. Fresh' /\ \A q \in Requests : FreshDuel(txn[q])'
  BY OneSlot DEF OneInv
<1> QED BY <1>1 DEF OneInv, Staged, AllFair, IndexIsFormula

LEMMA BeginsFresh ==
  ASSUME OneAtATime, OneInv, DInv', NEW r \in Requests,
         \/ \E u \in Users : JoinBegin(r, u) \/ CreateBegin(r, u)
         \/ \E u \in Users, d \in 1 .. lastDuel, v \in Verdicts, ms \in Times :
              MoveBegin(r, u, d, v, ms)
         \/ MoveInsert(r)
  PROVE  OneInv'
<1>1. ASSUME NEW t, Begin(r, t), UNCHANGED dvars,
             t.op \in {"join", "create", "move"}, FreshDuel(t)
      PROVE  OneInv'
  <2>1. /\ txn' = [txn EXCEPT ![r] = t]
        /\ UNCHANGED <<segment, deleted, duel, lastDuel>>
    BY <1>1 DEF Begin, dvars
  <2>2. FreshDuel(t)'
    BY <1>1, <2>1 DEF FreshDuel
  <2> QED BY <1>1, <2>1, <2>2, QuietStep DEF MoveOps
<1>2. ASSUME NEW u \in Users, JoinBegin(r, u) PROVE OneInv'
  <2>1. PICK d \in Open(u) : Begin(r, [op |-> "join", user |-> u, duel |-> d])
    BY <1>2 DEF JoinBegin
  <2> DEFINE t == [op |-> "join", user |-> u, duel |-> d]
  <2>2. FreshDuel(t) /\ t.op = "join"
    BY DEF FreshDuel, Open, MoveOps
  <2>3. Begin(r, t) /\ UNCHANGED dvars
    BY <1>2, <2>1 DEF JoinBegin
  <2> HIDE DEF t
  <2> QED BY <1>1, <2>2, <2>3
<1>3. ASSUME NEW u \in Users, CreateBegin(r, u) PROVE OneInv'
  <2>1. PICK s : Begin(r, [op |-> "create", user |-> u, segment |-> s])
    BY <1>3 DEF CreateBegin
  <2> DEFINE t == [op |-> "create", user |-> u, segment |-> s]
  <2>2. FreshDuel(t) /\ t.op = "create"
    BY DEF FreshDuel, MoveOps
  <2>3. Begin(r, t) /\ UNCHANGED dvars
    BY <1>3, <2>1 DEF CreateBegin
  <2> HIDE DEF t
  <2> QED BY <1>1, <2>2, <2>3
<1>4. ASSUME NEW u \in Users, NEW d \in 1 .. lastDuel, NEW v \in Verdicts,
             NEW ms \in Times, MoveBegin(r, u, d, v, ms)
      PROVE  OneInv'
  <2> DEFINE t == [op |-> "move", id |-> d, duel |-> duel[d], ms |-> ms,
                   row |-> segment[duel[d].segment],
                   mine |-> [user |-> u, segment |-> duel[d].segment,
                             verdict |-> v, weight |-> BlendReputation(user[u]),
                             control |-> FALSE]]
  <2>1. Begin(r, t) /\ UNCHANGED dvars /\ duel[d].status # "finished"
    BY <1>4 DEF MoveBegin
  <2>2. FreshDuel(t) /\ t.op = "move"
    BY <2>1 DEF FreshDuel
  <2> HIDE DEF t
  <2> QED BY <1>1, <2>1, <2>2
<1>5. CASE MoveInsert(r)
  <2> DEFINE x == txn[r]
             again == \E m \in annotations : SameKey(m, x.mine)
             op == IF again THEN "moved again" ELSE "moved"
             read == Counted(x.mine.segment) \cup {x.mine}
             t == [op |-> op, id |-> x.id, duel |-> x.duel, ms |-> x.ms,
                   row |-> x.row, mine |-> x.mine, read |-> read]
  <2>1. /\ txn' = [txn EXCEPT ![r] = t] /\ x.op = "move"
        /\ UNCHANGED <<segment, deleted, duel, lastDuel>>
    BY <1>5 DEF MoveInsert, dvars
  <2>2. op \in {"moved", "moved again"}
    OBVIOUS
  <2>3. FreshDuel(x)
    BY DEF OneInv
  <2> HIDE DEF op, read, x
  <2>4. t.op \in MoveOps /\ FreshDuel(t)
    BY <2>1, <2>2, <2>3 DEF FreshDuel, MoveOps
  <2>5. PICK c : c = t
    OBVIOUS
  <2>6. /\ txn' = [txn EXCEPT ![r] = c] /\ c.op \in MoveOps /\ FreshDuel(c)
    BY <2>1, <2>4, <2>5
  <2>7. FreshDuel(c)'
    BY <2>1, <2>6 DEF FreshDuel
  <2> QED BY <2>1, <2>6, <2>7, QuietStep
<1> QED BY <1>2, <1>3, <1>4, <1>5

(* A player comes into a duel that has one, or none. *)
LEMMA MorePlayers ==
  ASSUME DInv, NEW k \in DuelIds, NEW u \in Users, Enters(k, u),
         ~duel[k].entry[u].joined
  PROVE  /\ Cardinality(Players(duel'[k])) = Cardinality(Players(duel[k])) + 1
         /\ u \in Players(duel'[k]) /\ ~HasMoved(duel'[k], u)
<1>1. Players(duel'[k]) = Players(duel[k]) \cup {u}
  BY EntryTypes DEF Players, Enters
<1>2. u \notin Players(duel[k])
  BY DEF Players
<1>3. u \in Players(duel'[k]) /\ ~HasMoved(duel'[k], u)
  BY <1>1, EntryTypes DEF Enters, HasMoved
<1> QED BY <1>1, <1>2, <1>3, PlayersAreFinite, FS_AddElement

(* The duel of a step, if it alone changes. *)
LEMMA OneDuel ==
  ASSUME OneInv, NEW k \in 1 .. lastDuel', lastDuel' \in Nat,
         UNCHANGED deleted, deleted = {} => Stage(duel'[k]), Fair(duel'[k]),
         \A i \in 1 .. lastDuel' : i # k => i \in 1 .. lastDuel /\ duel'[i] = duel[i]
  PROVE  Staged' /\ AllFair'
BY DEF OneInv, Staged, AllFair

LEMMA JoinIsFair ==
  ASSUME OneAtATime, OneInv, DInv', NEW r \in Requests, JoinCommit(r)
  PROVE  OneInv'
<1> DEFINE k == txn[r].duel
           u == txn[r].user
<1>1. /\ k \in 1 .. lastDuel /\ u \in Users /\ Enters(k, u)
      /\ duel'[k].status = "active" /\ ~duel[k].entry[u].joined
  BY JoinWrites DEF OneInv
<1>2. /\ UNCHANGED <<segment, annotations, deleted, lastDuel>> /\ Finish(r)
      /\ duel[k].status = "open"
  BY DEF JoinCommit, OneInv, FreshDuel
<1> HIDE DEF k, u
<1>3. k \in DuelIds
  BY <1>1, CreatedDuels DEF OneInv
<1>4. /\ Cardinality(Players(duel'[k])) = Cardinality(Players(duel[k])) + 1
      /\ u \in Players(duel'[k]) /\ ~HasMoved(duel'[k], u)
  BY <1>1, <1>3, MorePlayers DEF OneInv
<1>5. deleted = {} => Cardinality(Players(duel[k])) = 1
  BY <1>1, <1>2 DEF OneInv, Staged, Stage
<1>6. deleted = {} => Stage(duel'[k])
  BY <1>1, <1>4, <1>5 DEF Stage
<1>7. Fair(duel'[k])
  BY <1>1 DEF Fair
<1>8. \A i \in 1 .. lastDuel : i # k => duel'[i] = duel[i]
  BY <1>1, CreatedDuels DEF Enters, OneInv
<1>9. Staged' /\ AllFair'
  BY <1>1, <1>2, <1>6, <1>7, <1>8, OneDuel DEF OneInv, DInv
<1> QED BY <1>2, <1>9, IdleSlot DEF OneInv, IndexIsFormula

LEMMA CreateIsFair ==
  ASSUME OneAtATime, OneInv, DInv', NEW r \in Requests, CreateCommit(r)
  PROVE  OneInv'
<1> DEFINE k == lastDuel'
           u == txn[r].user
<1>1. /\ k = lastDuel + 1 /\ k \in DuelIds /\ u \in Users
      /\ Enters(k, u) /\ duel'[k].status = "open"
  BY CreateWrites DEF OneInv
<1>2. UNCHANGED <<segment, annotations, deleted>> /\ Finish(r)
  BY DEF CreateCommit
<1> HIDE DEF u
<1>3. lastDuel \in Nat /\ k > lastDuel
  BY <1>1 DEF OneInv, DInv
<1>4. \A p \in Users : duel[k].entry[p] = NoEntry
  BY <1>1, <1>3 DEF OneInv, DInv, EntriesAreEarned
<1>5. /\ Cardinality(Players(duel'[k])) = Cardinality(Players(duel[k])) + 1
  BY <1>1, <1>4, MorePlayers, EntryTypes DEF OneInv
<1>6. Cardinality(Players(duel[k])) = 0
  BY <1>4, EntryTypes, FS_EmptySet DEF Players
<1>7. Stage(duel'[k]) /\ Fair(duel'[k])
  BY <1>1, <1>5, <1>6 DEF Stage, Fair
<1>8. \A i \in 1 .. k : i # k => i \in 1 .. lastDuel
  BY <1>1, <1>3
<1>9. \A i \in 1 .. lastDuel : duel'[i] = duel[i]
  BY <1>1, <1>3, CreatedDuels DEF Enters, OneInv
<1>10. Staged' /\ AllFair'
  <2>1. k \in 1 .. k /\ k \in Nat
    BY <1>1, <1>3
  <2> QED BY <1>2, <1>7, <1>8, <1>9, <2>1, OneDuel
<1> QED BY <1>2, <1>10, IdleSlot DEF OneInv, IndexIsFormula

(* The scored pair: both have the same view of their agreement. *)
LEMMA PairScores ==
  ASSUME NEW e \in Entry, NEW f \in Entry
  PROVE  /\ Scored(e, f).score >= 40 <=> Scored(f, e).score >= 40
         /\ Scored(e, f).winner =>
              /\ Scored(e, f).score = Scored(f, e).score + 10
              /\ Agreed(Scored(e, f), Scored(f, e)) /\ ~Scored(f, e).winner
              /\ Plausible(Scored(e, f).ms)
<1>1. /\ Scored(e, f).score = Points(e, f) /\ Scored(f, e).score = Points(f, e)
      /\ Scored(e, f).winner = (Points(e, f) > Points(f, e))
      /\ Scored(f, e).winner = (Points(f, e) > Points(e, f))
      /\ Agreed(Scored(e, f), Scored(f, e)) <=> Agreed(e, f)
  BY ScoredEntry DEF Agreed
<1>2. Agreed(e, f) <=> Agreed(f, e)
  BY DEF Agreed
<1>3. PICK p \in {10, 40, 50} : p = Points(e, f) /\ (Agreed(e, f) <=> p \in {40, 50})
  BY PointsAre
<1>4. PICK q \in {10, 40, 50} : q = Points(f, e) /\ (Agreed(e, f) <=> q \in {40, 50})
  BY <1>2, PointsAre
<1>5. p >= 40 <=> q >= 40
  BY <1>3, <1>4
<1>6. p > q => p = q + 10 /\ p \in {40, 50} /\ ~(q > p) /\ p = 50
  BY <1>3, <1>4
<1>7. p > q => Plausible(Scored(e, f).ms)
  BY <1>3, <1>6, ScoredEntry, FastIsPlausible
<1> QED BY <1>1, <1>3, <1>4, <1>5, <1>6, <1>7

(* Two players, if there are two. *)
LEMMA TheOther ==
  ASSUME NEW d, Cardinality(Players(d)) = 2, NEW u \in Players(d),
         NEW w \in Players(d), u # w
  PROVE  (CHOOSE q \in Players(d) : q # u) = w
<1>1. IsFiniteSet({u}) /\ Cardinality({u}) = 1 /\ w \notin {u}
  BY FS_Singleton
<1>2. Cardinality({u} \cup {w}) = 2
  BY <1>1, FS_AddElement
<1>3. {u} \cup {w} \in SUBSET Players(d)
  OBVIOUS
<1>4. Players(d) = {u} \cup {w}
  BY <1>2, <1>3, PlayersAreFinite, FS_Subset
<1> QED BY <1>4

LEMMA FinishedIsFair ==
  ASSUME NEW d \in Duel, Cardinality(Players(d)) = 2,
         \A p \in Players(d) : HasMoved(d, p)
  PROVE  Stage(Finished(d)) /\ Fair(Finished(d))
<1> DEFINE n == Finished(d)
           Other(p) == CHOOSE q \in Players(d) : q # p
<1>1. /\ n.status = "finished"
      /\ \A p \in Users : /\ n.entry[p].joined = d.entry[p].joined
                          /\ n.entry[p].verdict = d.entry[p].verdict
      /\ \A p \in Players(d) :
           n.entry[p] = Scored(d.entry[p], d.entry[Other(p)])
  BY FinishedDuel DEF Players
<1> HIDE DEF n
<1>2. Players(n) = Players(d) /\ \A p \in Users : HasMoved(n, p) <=> HasMoved(d, p)
  BY <1>1 DEF Players, HasMoved
<1>3. Stage(n)
  BY <1>1, <1>2 DEF Stage, BothMoved, Players
<1>4. ASSUME NEW u \in Players(n), NEW w \in Players(n), u # w
      PROVE  /\ n.entry[u].score >= 40 <=> n.entry[w].score >= 40
             /\ n.entry[u].winner => /\ n.entry[u].score = n.entry[w].score + 10
                                     /\ Agreed(n.entry[u], n.entry[w])
                                     /\ ~n.entry[w].winner
                                     /\ Plausible(n.entry[u].ms)
  <2>1. Other(u) = w /\ Other(w) = u
    BY <1>2, <1>4, TheOther
  <2>2. d.entry[u] \in Entry /\ d.entry[w] \in Entry
    BY DEF Duel, Players
  <2>3. /\ n.entry[u] = Scored(d.entry[u], d.entry[w])
        /\ n.entry[w] = Scored(d.entry[w], d.entry[u])
    BY <1>1, <1>2, <2>1
  <2> QED BY <2>2, <2>3, PairScores
<1> QED BY <1>3, <1>4 DEF Fair, n

(* The duel a move leaves behind. *)
LEMMA MoveIsFair ==
  ASSUME NEW t, t.duel \in Duel, t.ms \in Nat, t.mine \in Annotation,
         t.duel.status # "finished"
  PROVE  Fair(Moved(t)) /\ (Stage(t.duel) => Stage(Moved(t)))
<1> DEFINE m == WithMove(t)
           u == t.mine.user
<1>1. /\ m \in Duel /\ m.status = t.duel.status /\ u \in Users
      /\ \A p \in Users \ {u} : m.entry[p] = t.duel.entry[p]
      /\ m.entry[u].joined = t.duel.entry[u].joined
  BY WithMoveDuel DEF Annotation
<1> HIDE DEF m
<1>2. Players(m) = Players(t.duel)
  BY <1>1 DEF Players
<1>3. CASE /\ Cardinality(Players(m)) = 2
           /\ \A p \in Players(m) : HasMoved(m, p)
  <2>1. Moved(t) = Finished(m)
    BY <1>3 DEF Moved, m
  <2> QED BY <1>1, <1>3, <2>1, FinishedIsFair
<1>4. CASE ~(/\ Cardinality(Players(m)) = 2
             /\ \A p \in Players(m) : HasMoved(m, p))
  <2>1. Moved(t) = m
    BY <1>4 DEF Moved, m
  <2>2. Fair(m)
    BY <1>1 DEF Fair
  <2>3. ASSUME Stage(t.duel) PROVE Stage(m)
    BY <1>1, <1>2, <1>4, <2>3 DEF Stage
  <2> QED BY <2>1, <2>2, <2>3
<1> QED BY <1>3, <1>4

(* Nothing has come between: the move is written as the handler left it.   *)
LEMMA MoveIsWritten ==
  ASSUME OneInv, NEW r \in Requests, MoveCommit(r)
  PROVE  LET t == txn[r]
         IN /\ t \in MovedTxn /\ t.duel.status # "finished"
            /\ t.id \in 1 .. lastDuel /\ t.duel = duel[t.id]
            /\ t.row = segment[t.mine.segment]
            /\ duel'[t.id] = Moved(t)
<1> DEFINE t == txn[r]
           k == t.id
           new == Moved(t)
           old == duel[k]
           entry == [p \in Users |->
                       Flush(old.entry[p], t.duel.entry[p], new.entry[p])]
           status == IF new.status = t.duel.status THEN old.status ELSE new.status
<1>1. /\ t \in MovedTxn /\ k \in 1 .. lastDuel
  BY MoveWrites DEF OneInv
<1>2. /\ k \in DuelIds /\ t.duel \in Duel /\ t.ms \in Nat /\ t.mine \in Annotation
  BY <1>1 DEF MovedTxn
<1>3. FreshDuel(t) /\ t.op \in MoveOps
  BY DEF OneInv, MoveCommit, MoveOps
<1>4. t.duel = old /\ t.duel.status # "finished" /\ t.row = segment[t.mine.segment]
  BY <1>3 DEF FreshDuel
<1>5. new \in Duel /\ new.segment = t.duel.segment
  BY <1>2, MovedDuel
<1>6. duel' = [duel EXCEPT ![k].status = IF new.status = t.duel.status THEN @
                                          ELSE new.status,
                           ![k].entry = entry]
  BY DEF MoveCommit
<1> HIDE DEF new
<1>7. entry = new.entry
  <2>1. old.entry \in [Users -> Entry] /\ new.entry \in [Users -> Entry]
    BY <1>2, <1>4, <1>5 DEF Duel
  <2>2. ASSUME NEW p \in Users PROVE entry[p] = new.entry[p]
    <3>1. PICK x : x = old.entry[p]
      OBVIOUS
    <3>2. PICK z : z = new.entry[p]
      OBVIOUS
    <3>3. entry[p] = Flush(x, x, z) /\ x \in Entry /\ z \in Entry
      BY <1>4, <2>1, <3>1, <3>2
    <3> QED BY <3>2, <3>3, FlushedEntry
  <2> QED BY <2>1, <2>2
<1>8. status = new.status
  BY <1>4
<1> HIDE DEF entry
<1>9. duel'[k] = [old EXCEPT !.status = status, !.entry = entry]
  BY <1>2, <1>4, <1>6 DEF OneInv, DInv, Duel
<1> HIDE DEF status
<1>10. duel'[k] = new
  <2>1. PICK a \in Duel : a = old
    BY <1>2, <1>4
  <2>2. PICK b \in Duel : b = new /\ b.segment = a.segment
    BY <1>4, <1>5, <2>1
  <2>3. [a EXCEPT !.status = b.status, !.entry = b.entry] = b
    BY <2>2 DEF Duel
  <2>4. duel'[k] = [a EXCEPT !.status = b.status, !.entry = b.entry]
    BY <1>7, <1>8, <1>9, <2>1, <2>2
  <2> QED BY <2>2, <2>3, <2>4
<1> QED BY <1>1, <1>4, <1>10 DEF new

LEMMA MoveStaysFair ==
  ASSUME OneAtATime, OneInv, DInv', NEW r \in Requests, MoveCommit(r)
  PROVE  OneInv'
<1> DEFINE t == txn[r]
           n == t.mine
           z == WithConsensus(t.row, t.read)
<1>1. /\ t \in MovedTxn /\ t.duel.status # "finished"
      /\ t.id \in 1 .. lastDuel /\ t.duel = duel[t.id]
      /\ t.row = segment[n.segment] /\ duel'[t.id] = Moved(t)
  BY MoveIsWritten
<1>2. /\ t.duel \in Duel /\ t.ms \in Nat /\ n \in Annotation
      /\ t.row \in Row /\ t.read \in Anns /\ n.segment \in SegmentIds
  BY <1>1 DEF MovedTxn, Annotation
<1>3. /\ Finish(r) /\ UNCHANGED <<deleted, lastDuel>>
  BY DEF MoveCommit
<1>4. Fair(duel'[t.id]) /\ (Stage(t.duel) => Stage(duel'[t.id]))
  BY <1>1, <1>2, MoveIsFair
<1>5. deleted = {} => Stage(t.duel)
  BY <1>1 DEF OneInv, Staged
<1>6. \A i \in 1 .. lastDuel : i # t.id => duel'[i] = duel[i]
  BY MoveWrites, CreatedDuels DEF OneInv
<1>7. Staged' /\ AllFair'
  <2>1. PICK k : k = t.id
    OBVIOUS
  <2>2. /\ k \in 1 .. lastDuel' /\ lastDuel' \in Nat
        /\ Fair(duel'[k]) /\ (deleted = {} => Stage(duel'[k]))
        /\ \A i \in 1 .. lastDuel' : i # k => i \in 1 .. lastDuel /\ duel'[i] = duel[i]
    BY <1>1, <1>3, <1>4, <1>5, <1>6, <2>1 DEF OneInv, DInv
  <2> QED BY <1>3, <2>2, OneDuel
<1>8. IndexIsFormula'
  <2>1. CASE UNCHANGED segment
    BY <2>1 DEF OneInv, IndexIsFormula
  <2>2. CASE segment' = [segment EXCEPT ![n.segment] = Flush(@, t.row, z)]
    <3>1. z \in Row /\ z.index = IndexOf(z)
      <4>1. NoVerdict \in Verdicts \cup {NoVerdict}
        OBVIOUS
      <4> QED BY <1>2, <4>1, AgreedRow
    <3> HIDE DEF z
    <3>2. Flush(segment[n.segment], t.row, z) = z
      BY <1>1, <1>2, <3>1, FlushedRow
    <3>3. segment' = [segment EXCEPT ![n.segment] = z]
      BY <2>2, <3>2
    <3>4. /\ segment'[n.segment] = z
          /\ \A s \in SegmentIds \ {n.segment} : segment'[s] = segment[s]
      BY <1>2, <3>3, OneRow DEF OneInv, DInv
    <3> QED BY <3>1, <3>4 DEF OneInv, IndexIsFormula, IndexOf
  <2> QED BY <2>1, <2>2 DEF MoveCommit
<1> QED BY <1>3, <1>7, <1>8, IdleSlot DEF OneInv

-----------------------------------------------------------------------------
LEMMA OneKeeps ==
  ASSUME OneAtATime, OneInv, [DuelsNext]_allvars
  PROVE  OneInv'
<1>1. DInv'
  BY DuelsKeep DEF OneInv
<1>2. CASE UNCHANGED allvars
  BY <1>1, <1>2, SegmentStepIsFair DEF allvars, dvars
<1>3. CASE Next /\ duel' = [d \in DuelIds |-> Remaining(duel[d])]
                /\ UNCHANGED lastDuel
  BY <1>1, <1>3, SegmentStepIsFair
<1>4. ASSUME NEW r \in Requests, DuelStep(r) PROVE OneInv'
  BY <1>1, <1>4, BeginsFresh, JoinIsFair, CreateIsFair, MoveStaysFair DEF DuelStep
<1> QED BY <1>2, <1>3, <1>4 DEF DuelsNext

LEMMA OneBegins == DuelsInit => OneInv
<1>1. ASSUME DuelsInit PROVE OneInv
  <2>1. DInv /\ Fresh /\ IndexIsFormula
    BY <1>1, DuelsBegin, InitHolds DEF DuelsInit, SInv
  <2>2. lastDuel = 0 /\ \A r \in Requests : txn[r] = Idle
    BY <1>1 DEF DuelsInit, Init
  <2>3. Staged /\ AllFair
    BY <2>2 DEF Staged, AllFair
  <2>4. ASSUME NEW r \in Requests PROVE FreshDuel(txn[r])
    <3>1. txn[r].op = "idle"
      BY <2>2 DEF Idle
    <3> QED BY <3>1 DEF FreshDuel, MoveOps
  <2> QED BY <2>1, <2>3, <2>4 DEF OneInv
<1> QED BY <1>1

LEMMA OneAlways == OneAtATime /\ DuelsSpec => []OneInv
<1> SUFFICES ASSUME OneAtATime PROVE DuelsSpec => []OneInv
  OBVIOUS
<1>1. OneInv /\ [DuelsNext]_allvars => OneInv'
  BY OneKeeps
<1> QED BY <1>1, OneBegins, PTL DEF DuelsSpec

(* A duel waits for a rival, is played by two or is finished, and nothing  *)
(* else, as long as nobody's account is removed from it.                   *)
THEOREM StatusIsProgress == OneAtATime /\ DuelsSpec => []StatusTellsProgress
<1>1. ASSUME OneInv PROVE StatusTellsProgress
  BY <1>1 DEF OneInv, Staged, Stage, StatusTellsProgress, BothMoved
<1> QED BY <1>1, OneAlways, PTL

(* Whoever wins has agreed with the other player: speed alone never wins.  *)
THEOREM AgreementWins == OneAtATime /\ DuelsSpec => []AgreementOutweighsSpeed
<1>1. ASSUME OneInv PROVE AgreementOutweighsSpeed
  BY <1>1 DEF OneInv, AllFair, Fair, AgreementOutweighsSpeed
<1> QED BY <1>1, OneAlways, PTL

(* Moves are votes as well, and leave the index the formula of the stored  *)
(* factors.                                                                *)
THEOREM MovesKeepIndex == OneAtATime /\ DuelsSpec => []IndexIsFormula
<1>1. OneInv => IndexIsFormula
  BY DEF OneInv
<1> QED BY <1>1, OneAlways, PTL
-----------------------------------------------------------------------------
(* What a move has read is still what is stored, when it commits. *)

HeardSlot(t) ==
  /\ t.op \in {"move", "moved"} => ~t.mine.control
  /\ t.op = "moved" => t.read = Counted(t.mine.segment) \cup {t.mine}

Heard == \A r \in Requests : HeardSlot(txn[r])

LEMMA HeardAlone ==
  ASSUME OneAtATime, DInv, NEW r \in Requests, NEW t,
         txn' = [txn EXCEPT ![r] = t], HeardSlot(t)'
  PROVE  Heard'
<1>1. Requests = {r} /\ DOMAIN txn = Requests
  BY DEF OneAtATime, DInv, TInv, TypeOK
<1>2. txn'[r] = t
  BY <1>1
<1> QED BY <1>1, <1>2 DEF Heard, HeardSlot

LEMMA HeardWhileSegmentsMove ==
  ASSUME OneAtATime, DInv, Heard, [Next]_vars
  PROVE  Heard'
<1> SUFFICES ASSUME NEW r \in Requests PROVE HeardSlot(txn[r])'
  BY DEF Heard
<1>1. CASE txn'[r].op \in SegmentOps
  BY <1>1 DEF SegmentOps, HeardSlot
<1>2. CASE txn'[r].op \notin SegmentOps
  <2>1. UNCHANGED annotations /\ txn'[r] = txn[r]
    BY <1>2, SegmentsRest
  <2>2. HeardSlot(txn[r])
    BY DEF Heard
  <2> QED BY <2>1, <2>2 DEF HeardSlot, Counted, On
<1> QED BY <1>1, <1>2

LEMMA HeardInDuels ==
  ASSUME OneAtATime, DInv, Heard, NEW r \in Requests, DuelStep(r)
  PROVE  Heard'
<1>1. ASSUME NEW t, txn' = [txn EXCEPT ![r] = t],
             t.op \notin {"move", "moved"}
      PROVE  Heard'
  BY <1>1, HeardAlone DEF HeardSlot
<1>2. CASE Finish(r)
  <2>1. Idle.op \notin {"move", "moved"}
    BY DEF Idle
  <2> QED BY <1>1, <1>2, <2>1 DEF Finish
<1>3. ASSUME NEW u \in Users, JoinBegin(r, u) \/ CreateBegin(r, u) PROVE Heard'
  BY <1>1, <1>3 DEF JoinBegin, CreateBegin, Begin
<1>4. ASSUME NEW u \in Users, NEW d \in 1 .. lastDuel, NEW v \in Verdicts,
             NEW ms \in Times, MoveBegin(r, u, d, v, ms)
      PROVE  Heard'
  <2> DEFINE t == [op |-> "move", id |-> d, duel |-> duel[d], ms |-> ms,
                   row |-> segment[duel[d].segment],
                   mine |-> [user |-> u, segment |-> duel[d].segment,
                             verdict |-> v, weight |-> BlendReputation(user[u]),
                             control |-> FALSE]]
  <2>1. txn' = [txn EXCEPT ![r] = t]
    BY <1>4 DEF MoveBegin, Begin
  <2>2. t.op = "move" /\ ~t.mine.control
    OBVIOUS
  <2> HIDE DEF t
  <2>3. PICK c : c = t
    OBVIOUS
  <2>4. c.op = "move" /\ ~c.mine.control
    BY <2>2, <2>3
  <2>5. HeardSlot(c)'
    BY <2>4 DEF HeardSlot
  <2> QED BY <2>1, <2>3, <2>5, HeardAlone
<1>5. CASE MoveInsert(r)
  <2> DEFINE x == txn[r]
             again == \E m \in annotations : SameKey(m, x.mine)
             op == IF again THEN "moved again" ELSE "moved"
             read == Counted(x.mine.segment) \cup {x.mine}
             t == [op |-> op, id |-> x.id, duel |-> x.duel, ms |-> x.ms,
                   row |-> x.row, mine |-> x.mine, read |-> read]
  <2>1. txn' = [txn EXCEPT ![r] = t] /\ UNCHANGED annotations
    BY <1>5 DEF MoveInsert
  <2>2. HeardSlot(x) /\ x.op = "move"
    BY <1>5 DEF Heard, MoveInsert
  <2>3. op # "move"
    OBVIOUS
  <2> HIDE DEF x, op
  <2>4. PICK c : c = t
    OBVIOUS
  <2>5. /\ txn' = [txn EXCEPT ![r] = c] /\ c.mine = x.mine /\ ~c.mine.control
        /\ c.read = Counted(c.mine.segment) \cup {c.mine}
    BY <2>1, <2>2, <2>4 DEF HeardSlot
  <2>6. HeardSlot(c)'
    BY <2>1, <2>5 DEF HeardSlot, Counted, On
  <2> QED BY <2>5, <2>6, HeardAlone
<1> QED BY <1>2, <1>3, <1>4, <1>5 DEF DuelStep, JoinCommit, CreateCommit, MoveCommit

LEMMA VotesStay ==
  ASSUME UNCHANGED annotations, NEW s \in SegmentIds
  PROVE  Counted(s)' = Counted(s)
BY DEF Counted, On

LEMMA OneMoreVote ==
  ASSUME NEW n, annotations' = annotations \cup {n}, NEW s \in SegmentIds,
         Counted(s)' # Counted(s)
  PROVE  n.segment = s /\ Counted(s)' = Counted(s) \cup {n}
BY DEF Counted, On

LEMMA VotesOfSegments ==
  ASSUME TInv, Fresh, [Next]_vars, NEW s \in SegmentIds,
         Counted(s)' # Counted(s), deleted' = deleted
  PROVE  segment'[s].votes = Votes(Counted(s)')
<1>1. Effect
  BY Effects
<1>2. annotations' # annotations
  BY VotesStay
<1>3. ASSUME NEW u \in Users, AccountRemoved(u) PROVE FALSE
  BY <1>3 DEF AccountRemoved
<1>4. ASSUME NEW n \in Annotation, MeasureArrives(n) PROVE FALSE
  BY <1>4 DEF MeasureArrives, Counted, On
<1>5. ASSUME NEW n \in Annotation, VoteArrives(n)
      PROVE  segment'[s].votes = Votes(Counted(s)')
  <2>1. n.segment = s /\ Counted(s)' = Counted(s) \cup {n}
    BY <1>5, OneMoreVote DEF VoteArrives
  <2>2. PICK z \in Row : /\ segment' = [segment EXCEPT ![s] = z]
                         /\ z.votes = Votes(Counted(s) \cup {n})
    BY <1>5, <2>1 DEF VoteArrives, AgreedFrom
  <2>3. segment'[s] = z
    BY <2>2, OneRow
  <2> QED BY <2>1, <2>2, <2>3
<1> QED BY <1>1, <1>2, <1>3, <1>4, <1>5 DEF Effect, tables, TimePasses, CreateEvent,
        QueueRepairs, Decides, ShoreChanges

LEMMA VotesOfMoves ==
  ASSUME OneInv, Heard, NEW r \in Requests, MoveCommit(r), NEW s \in SegmentIds,
         Counted(s)' # Counted(s)
  PROVE  segment'[s].votes = Votes(Counted(s)')
<1> DEFINE t == txn[r]
           n == t.mine
           z == WithConsensus(t.row, t.read)
<1>1. /\ t \in MovedTxn /\ t.row = segment[n.segment]
  BY MoveIsWritten
<1>2. t.row \in Row /\ t.read \in Anns
  BY <1>1 DEF MovedTxn
<1>3. /\ t.op = "moved" /\ annotations' = annotations \cup {n}
      /\ segment' = [segment EXCEPT ![n.segment] = Flush(@, t.row, z)]
  BY VotesStay DEF MoveCommit
<1>4. n.segment = s /\ Counted(s)' = Counted(s) \cup {n}
  BY <1>3, OneMoreVote
<1>5. t.read = Counted(s) \cup {n}
  BY <1>3, <1>4 DEF Heard, HeardSlot
<1>6. z \in Row /\ z.votes = Votes(t.read)
  <2>1. NoVerdict \in Verdicts \cup {NoVerdict}
    OBVIOUS
  <2> QED BY <1>2, <2>1, AgreedRow
<1> HIDE DEF z
<1>7. Flush(segment[s], t.row, z) = z
  BY <1>1, <1>2, <1>4, <1>6, FlushedRow
<1>8. segment'[s] = z
  BY <1>3, <1>4, <1>7, OneRow DEF OneInv, DInv
<1> QED BY <1>4, <1>5, <1>6, <1>8

(* Every vote, cast by a move or outside of a duel, is counted with the    *)
(* votes that are there and with no control answer, whatever decisions,    *)
(* pools and repairs of the queue have come before.                        *)
THEOREM VotesCount == OneAtATime /\ DuelsSpec => VotesAreCounted
<1> SUFFICES ASSUME OneAtATime PROVE DuelsSpec => VotesAreCounted
  OBVIOUS
<1> DEFINE Right(s) == Counted(s)' # Counted(s) /\ deleted' = deleted =>
                         segment'[s].votes = Votes(Counted(s)')
           Rights == \A s \in SegmentIds : Right(s)
<1>1. DuelsInit => Heard
  <2>1. Idle.op \notin {"move", "moved"}
    BY DEF Idle
  <2> QED BY <2>1 DEF DuelsInit, Init, Heard, HeardSlot
<1>2. OneInv /\ Heard /\ [DuelsNext]_allvars => Heard'
  BY HeardWhileSegmentsMove, HeardInDuels DEF OneInv, DuelsNext, allvars
<1>3. ASSUME OneInv, Heard, [DuelsNext]_allvars, NEW s \in SegmentIds PROVE Right(s)
  <2> SUFFICES ASSUME Counted(s)' # Counted(s), deleted' = deleted
               PROVE  segment'[s].votes = Votes(Counted(s)')
    OBVIOUS
  <2>1. CASE [Next]_vars
    BY <1>3, <2>1, VotesOfSegments DEF OneInv, DInv
  <2>2. ASSUME NEW r \in Requests, MoveCommit(r)
        PROVE  segment'[s].votes = Votes(Counted(s)')
    BY <1>3, <2>2, VotesOfMoves
  <2>3. ASSUME NEW r \in Requests, DuelStep(r), ~MoveCommit(r) PROVE FALSE
    <3>1. UNCHANGED annotations
      BY <2>3 DEF DuelStep, JoinBegin, CreateBegin, MoveBegin, Begin, JoinCommit,
         CreateCommit, MoveInsert
    <3> QED BY <3>1, VotesStay
  <2> QED BY <1>3, <2>1, <2>2, <2>3 DEF DuelsNext, allvars
<1>4. OneInv /\ Heard /\ [DuelsNext]_allvars => Rights
  BY <1>3
<1> HIDE DEF Rights
<1>5. OneInv /\ Heard /\ [DuelsNext]_allvars => [Rights]_allvars
  BY <1>4
<1>6. [][Rights]_allvars => VotesAreCounted
  BY DEF Rights, Right, VotesAreCounted
<1> QED BY <1>1, <1>2, <1>5, <1>6, OneAlways, PTL DEF DuelsSpec
=============================================================================
