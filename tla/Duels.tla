--------------------------------- MODULE Duels ---------------------------------
(***************************************************************************)
(* The duel of two annotators: join_duel and make_move of api/v1/games.py  *)
(* and the scoring of services/games.py.  A move is also an annotation, so *)
(* the module extends the life of the segments.                            *)
(***************************************************************************)
EXTENDS Segments

CONSTANTS MaxDuels,    \* bound: duels ever created
          Times        \* milliseconds a client may report for a move

ASSUME DuelsAssumption ==
  /\ MaxDuels \in Nat /\ Times \subseteq Nat
  /\ IsFiniteSet(Users) /\ SegmentIds # {}

VARIABLES duel,        \* tables duels and duel_entries
          lastDuel     \* duels are numbered in the order of created_at

dvars == <<duel, lastDuel>>
allvars == <<vars, dvars>>

DuelIds == 1 .. MaxDuels
Entry == [joined: BOOLEAN, verdict: Verdicts \cup {NoVerdict},
          ms: Nat, score: Nat, winner: BOOLEAN]
NoEntry == [joined |-> FALSE, verdict |-> NoVerdict, ms |-> 0,
            score |-> 0, winner |-> FALSE]
NewEntry == [NoEntry EXCEPT !.joined = TRUE]
Duel == [status: {"none", "open", "active", "finished"},
         segment: SegmentIds, entry: [Users -> Entry]]

DuelsTypeOK ==
  /\ TypeOK
  /\ duel \in [DuelIds -> Duel]
  /\ lastDuel \in 0 .. MaxDuels

DuelsInit ==
  /\ Init
  /\ duel = [d \in DuelIds |->
       [status |-> "none", segment |-> CHOOSE s \in SegmentIds : TRUE,
        entry |-> [u \in Users |-> NoEntry]]]
  /\ lastDuel = 0

Players(d) == {u \in Users : d.entry[u].joined}
HasMoved(d, u) == d.entry[u].joined /\ d.entry[u].verdict # NoVerdict

-----------------------------------------------------------------------------
(* score_duel *)

Plausible(ms) == 800 <= ms /\ ms <= 300000
Agreed(e, f) == IndicatesProblem(e.verdict) <=> IndicatesProblem(f.verdict)

(* The bonus goes to the faster of two plausible moves, or the only one. *)
Faster(e, f) == Plausible(e.ms) /\ (Plausible(f.ms) => e.ms < f.ms)

(* Mutant: speed pays without agreement. *)
SpeedPays(e, f) == 10 + (IF Agreed(e, f) THEN 30 ELSE 0)
                      + (IF Faster(e, f) THEN 10 ELSE 0)

Points(e, f) == 10 + (IF Agreed(e, f) THEN 30 ELSE 0)
                   + (IF Agreed(e, f) /\ Faster(e, f) THEN 10 ELSE 0)

Scored(e, f) == [e EXCEPT !.score = Points(e, f),
                          !.winner = Points(e, f) > Points(f, e)]

-----------------------------------------------------------------------------
(* POST /games/duels/join *)

Annotated(u) == {n.segment : n \in Of(u)}

(* Mutant: a duel is open to everybody until it is finished. *)
OpenUntilFinished(u) == {d \in 1 .. lastDuel :
                           /\ duel[d].status # "finished"
                           /\ u \notin Players(duel[d])
                           /\ duel[d].segment \notin Annotated(u)}

(* The oldest open duel of somebody else, on a segment new to the player. *)
Open(u) == {d \in 1 .. lastDuel :
              /\ duel[d].status = "open"
              /\ u \notin Players(duel[d])
              /\ duel[d].segment \notin Annotated(u)}

JoinBegin(r, u) ==
  /\ u \notin deleted
  /\ \E d \in Open(u) :
       /\ \A e \in Open(u) : d <= e
       /\ Begin(r, [op |-> "join", user |-> u, duel |-> d])
  /\ UNCHANGED dvars

(* The status was loaded as "open", so "active" is always written; a       *)
(* second entry of the same player violates a unique key (Abort).          *)
JoinCommit(r) ==
  LET t == txn[r]
  IN /\ t.op = "join"
     /\ t.user \notin Players(duel[t.duel])
     /\ duel' = [duel EXCEPT ![t.duel].status = "active",
                             ![t.duel].entry[t.user] = NewEntry]
     /\ Finish(r)
     /\ UNCHANGED <<segment, annotations, user, deleted, trips, audit>>
     /\ UNCHANGED lastDuel

Eligible(u) == {s \in SegmentIds :
                  /\ s \notin Annotated(u)
                  /\ ~segment[s].verified
                  /\ segment[s].status # "clean"}

CreateBegin(r, u) ==
  /\ u \notin deleted
  /\ Open(u) = {}
  /\ \E s \in Eligible(u) :
       /\ \A q \in Eligible(u) : segment[q].index <= segment[s].index
       /\ Begin(r, [op |-> "create", user |-> u, segment |-> s])
  /\ UNCHANGED dvars

CreateCommit(r) ==
  LET t == txn[r]
      d == lastDuel + 1
  IN /\ t.op = "create"
     /\ d \in DuelIds
     /\ duel' = [duel EXCEPT ![d].status = "open",
                             ![d].segment = t.segment,
                             ![d].entry[t.user] = NewEntry]
     /\ lastDuel' = d
     /\ Finish(r)
     /\ UNCHANGED <<segment, annotations, user, deleted, trips, audit>>

-----------------------------------------------------------------------------
(* POST /games/duels/{id}/move *)

MoveBegin(r, u, d, v, ms) ==
  /\ u \notin deleted
  /\ u \in Players(duel[d])
  /\ duel[d].status # "finished"
  /\ ~HasMoved(duel[d], u)
  /\ Begin(r, [op |-> "move", id |-> d, duel |-> duel[d], ms |-> ms,
               row |-> segment[duel[d].segment],
               mine |-> [user |-> u, segment |-> duel[d].segment,
                         verdict |-> v, weight |-> BlendReputation(user[u]),
                         control |-> FALSE]])
  /\ UNCHANGED dvars

(* Mutant: the move is counted among all answers, control answers included. *)
MoveReadsAll(r) ==
  LET t == txn[r]
      n == t.mine
      again == \E m \in annotations : SameKey(m, n)
  IN /\ t.op = "move"
     /\ again \/ ~\E q \in Requests : Inserted(q) /\ SameKey(txn[q].mine, n)
     /\ txn' = [txn EXCEPT ![r] =
          [op |-> IF again THEN "moved again" ELSE "moved",
           id |-> t.id, duel |-> t.duel, ms |-> t.ms, row |-> t.row,
           mine |-> n, read |-> On(n.segment) \cup {n}]]
     /\ UNCHANGED <<segment, annotations, user, deleted, trips, audit>>
     /\ UNCHANGED dvars

(* The move is inserted as an annotation unless the player already has one *)
(* on the segment; the counted annotations are then read.                  *)
MoveInsert(r) ==
  LET t == txn[r]
      n == t.mine
      again == \E m \in annotations : SameKey(m, n)
  IN /\ t.op = "move"
     /\ again \/ ~\E q \in Requests : Inserted(q) /\ SameKey(txn[q].mine, n)
     /\ txn' = [txn EXCEPT ![r] =
          [op |-> IF again THEN "moved again" ELSE "moved",
           id |-> t.id, duel |-> t.duel, ms |-> t.ms, row |-> t.row,
           mine |-> n, read |-> Counted(n.segment) \cup {n}]]
     /\ UNCHANGED <<segment, annotations, user, deleted, trips, audit>>
     /\ UNCHANGED dvars

(* The entry of the player with the move, and the points of both players.  *)
WithMove(t) ==
  [t.duel EXCEPT !.entry[t.mine.user].verdict = t.mine.verdict,
                 !.entry[t.mine.user].ms = t.ms]

Finished(d) ==
  LET Other(p) == CHOOSE q \in Players(d) : q # p
  IN [d EXCEPT !.status = "finished",
        !.entry = [p \in Users |->
          IF p \in Players(d) THEN Scored(@[p], @[Other(p)]) ELSE @[p]]]

(* Mutant: the first move of two players already finishes the duel. *)
FinishedByOne(t) ==
  IF Cardinality(Players(t.duel)) = 2 THEN Finished(WithMove(t))
  ELSE WithMove(t)

(* The duel as the handler leaves it: scored if it saw two entries, both   *)
(* with a move.  Only what differs from the loaded duel is written.        *)
Moved(t) ==
  LET move == WithMove(t)
  IN IF /\ Cardinality(Players(move)) = 2
        /\ \A p \in Players(move) : HasMoved(move, p)
     THEN Finished(move) ELSE move

MoveCommit(r) ==
  LET t == txn[r]
      n == t.mine
      new == Moved(t)
  IN /\ t.op \in {"moved", "moved again"}
     /\ duel' = [duel EXCEPT
          ![t.id].status = IF new.status = t.duel.status THEN @
                           ELSE new.status,
          ![t.id].entry = [p \in Users |->
            Flush(duel[t.id].entry[p], t.duel.entry[p], new.entry[p])]]
     /\ IF t.op = "moved"
        THEN /\ annotations' = annotations \cup {n}
             /\ segment' = [segment EXCEPT ![n.segment] =
                  Flush(@, t.row, WithConsensus(t.row, t.read))]
        ELSE UNCHANGED <<annotations, segment>>
     /\ Finish(r)
     /\ UNCHANGED <<user, deleted, trips, audit, lastDuel>>

-----------------------------------------------------------------------------
(* GET /games/stats counts the entries with a move, GET /games/leaderboard *)
(* every entry.                                                            *)
Submitted(u) == {d \in 1 .. lastDuel : HasMoved(duel[d], u)}
Entered(u) == {d \in 1 .. lastDuel : u \in Players(duel[d])}
Score(u, ds) == MapThenSumSet(LAMBDA d : duel[d].entry[u].score, ds)
Won(u) == {d \in Entered(u) : duel[d].entry[u].winner}

(* A removed account takes its entries along (the foreign key cascades).   *)
Remaining(d) ==
  [d EXCEPT !.entry = [u \in Users |-> IF u \in deleted' THEN NoEntry ELSE @[u]]]

DuelStep(r) ==
  \/ \E u \in Users : JoinBegin(r, u) \/ CreateBegin(r, u)
  \/ \E u \in Users, d \in 1 .. lastDuel, v \in Verdicts, ms \in Times :
       MoveBegin(r, u, d, v, ms)
  \/ JoinCommit(r) \/ CreateCommit(r) \/ MoveInsert(r) \/ MoveCommit(r)

DuelsNext ==
  \/ Next /\ duel' = [d \in DuelIds |-> Remaining(duel[d])]
          /\ UNCHANGED lastDuel
  \/ \E r \in Requests : DuelStep(r)

DuelsSpec == DuelsInit /\ [][DuelsNext]_allvars

-----------------------------------------------------------------------------
(* Properties *)

BothMoved(d) == Cardinality(Players(d)) = 2
                  /\ \A u \in Players(d) : HasMoved(d, u)

(* enums.py:93-98: "open" waits for a rival, "active" has both players but *)
(* not both moves, "finished" has both moves and the points; a third       *)
(* player never gets in (models/game.py:48), as long as no account was     *)
(* removed from a duel.                                                    *)
StatusTellsProgress ==
  deleted = {} => \A i \in 1 .. lastDuel :
    LET d == duel[i]
    IN /\ Cardinality(Players(d)) <= 2
       /\ d.status = "open" <=> Cardinality(Players(d)) = 1
       /\ d.status = "finished" <=> BothMoved(d)

(* games.py:194-197: a move is an ordinary annotation, in the same circle  *)
(* of consensus: whoever moved has exactly one annotation on the segment,  *)
(* however moves and ordinary annotations overlap.                         *)
MoveIsAnnotation ==
  \A i \in 1 .. lastDuel : \A u \in Users \ deleted :
    HasMoved(duel[i], u) =>
      Cardinality({n \in Of(u) : n.segment = duel[i].segment}) = 1

(* games.py:440-530: the profile and the leaderboard give a player the     *)
(* same points and no more victories than moves, although they do not      *)
(* count the same entries: who never moved has won nothing.                *)
StatisticsAgree ==
  \A u \in Users :
    /\ Score(u, Submitted(u)) = Score(u, Entered(u))
    /\ Won(u) \subseteq Submitted(u)

(* services/games.py:6-12: agreement outweighs speed.  Two players get the *)
(* agreement points together or not at all, and only those who agree can   *)
(* be separated by speed, won by a time a player can need (games.py:24-29). *)
AgreementOutweighsSpeed ==
  \A i \in 1 .. lastDuel : \A u, w \in Players(duel[i]) :
    LET e == duel[i].entry[u]
        f == duel[i].entry[w]
    IN duel[i].status = "finished" /\ u # w =>
         /\ e.score >= 40 <=> f.score >= 40
         /\ e.winner => e.score = f.score + 10 /\ Agreed(e, f)
         /\ e.winner => ~f.winner /\ Plausible(e.ms)

(* games.py:249-257, annotations.py:140-142: a vote that is cast, in a duel *)
(* or outside of one, is counted with the other votes and with them alone, *)
(* even if the segment is a control task by now and control answers lie    *)
(* beside them.                                                            *)
VotesAreCounted ==
  [][\A s \in SegmentIds :
       Counted(s)' # Counted(s) /\ deleted' = deleted =>
         segment'[s].votes = Votes(Counted(s)')]_allvars
=============================================================================
