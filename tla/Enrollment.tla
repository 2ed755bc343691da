------------------------------ MODULE Enrollment ------------------------------
(***************************************************************************)
(* Enrolment for a field trip and the volunteer's admission to it:         *)
(* backend/app/api/v1/events.py and backend/app/services/enrollment.py.    *)
(*                                                                         *)
(* Every handler is a transaction of one request: a Begin step loads rows  *)
(* (PostgreSQL READ COMMITTED, so a later statement of another request may *)
(* overtake it) and a Commit step writes back the columns the handler      *)
(* changed with respect to what it had loaded.  A request rejected with an *)
(* error before it has written anything leaves no trace and is no step.    *)
(***************************************************************************)
EXTENDS Integers, FiniteSets

CONSTANTS Users,      \* accounts
          Events,     \* trips, all PLANNED: no code ever sets another status
          Requests,   \* slots for requests in flight at the same time
          NoOne,      \* no lock holder
          Capacity,   \* Event.capacity
          MaxToken,   \* bound: signing links ever issued
          RowLocks    \* TRUE: FOR UPDATE locks (PostgreSQL); FALSE: SQLite

ASSUME EnrollmentAssumption ==
  /\ IsFiniteSet(Users)
  /\ Capacity \in [Events -> Nat \ {0}]
  /\ MaxToken \in Nat
  /\ RowLocks \in BOOLEAN
  /\ NoOne \notin Requests

VARIABLES student,     \* users whose role is still STUDENT
          minor,       \* users with User.is_minor
          started,     \* events with starts_at in the past
          enrollment,  \* table enrollments, by <<user, event>>
          consent,     \* table consents, by <<user, event>>
          links,       \* signing links that reached a parent
          lastToken,   \* the last token issued
          lock,        \* by event, the request that holds its row
          txn          \* by slot, the request in flight and what it loaded

people == <<student, minor, started>>
tables == <<enrollment, consent, links, lastToken>>
evars == <<student, minor, started, enrollment, consent, links, lastToken,
           lock, txn>>

Keys == Users \X Events
EnrollmentStatus == {"absent", "pending_requirements", "ready", "attended",
                     "cancelled"}
ConsentStatus == {"not_required", "requested", "signed"}
Row == [status: EnrollmentStatus, consentStatus: ConsentStatus,
        briefed: BOOLEAN, attended: BOOLEAN]
NoRow == [status |-> "absent", consentStatus |-> "not_required",
          briefed |-> FALSE, attended |-> FALSE]
Consent == [state: {"absent", "requested", "signed"},
            token: 0 .. MaxToken, expired: BOOLEAN]
NoConsent == [state |-> "absent", token |-> 0, expired |-> FALSE]
Link == [key: Keys, token: 1 .. MaxToken]

Idle == [op |-> "idle"]
EnrollTxn == [op: {"count", "insert"}, key: Keys]
EditTxn == [op: {"request", "sign", "brief"}, key: Keys, row: Row,
            cons: Consent]

TypeOK ==
  /\ student \subseteq Users
  /\ minor \subseteq Users
  /\ started \subseteq Events
  /\ enrollment \in [Keys -> Row]
  /\ consent \in [Keys -> Consent]
  /\ links \subseteq Link
  /\ lastToken \in 0 .. MaxToken
  /\ lock \in [Events -> Requests \cup {NoOne}]
  /\ txn \in [Requests -> {Idle} \cup EnrollTxn \cup EditTxn]

Init ==
  /\ student \in SUBSET Users
  /\ minor \in SUBSET Users
  /\ started = {}
  /\ enrollment = [k \in Keys |-> NoRow]
  /\ consent = [k \in Keys |-> NoConsent]
  /\ links = {}
  /\ lastToken = 0
  /\ lock = [e \in Events |-> NoOne]
  /\ txn = [r \in Requests |-> Idle]

-----------------------------------------------------------------------------
(* services/enrollment.py *)

IsAdmitted(u, row, cons) ==
  /\ u \notin student
  /\ u \in minor => cons.state = "signed"
  /\ row.briefed

Terminal == {"attended", "cancelled"}

(* Mutant: the consent of a minor is not asked for. *)
SyncWithoutConsent(u, row, cons) ==
  IF row.status \in Terminal THEN row
  ELSE [row EXCEPT !.status = IF u \notin student /\ row.briefed
                              THEN "ready" ELSE "pending_requirements"]

SyncStatus(u, row, cons) ==
  IF row.status \in Terminal THEN row
  ELSE [row EXCEPT !.status = IF IsAdmitted(u, row, cons)
                              THEN "ready" ELSE "pending_requirements"]

(* The flush of the ORM: a column is written only if the handler changed it. *)
Column(current, loaded, new) == IF new = loaded THEN current ELSE new

(* Mutant: the whole row is written back. *)
FlushAll(current, loaded, new) == new

FlushRow(current, loaded, new) ==
  [status        |-> Column(current.status, loaded.status, new.status),
   consentStatus |-> Column(current.consentStatus, loaded.consentStatus,
                            new.consentStatus),
   briefed       |-> Column(current.briefed, loaded.briefed, new.briefed),
   attended      |-> Column(current.attended, loaded.attended, new.attended)]

Seats(e) == {u \in Users :
               enrollment[<<u, e>>].status \notin {"absent", "cancelled"}}

-----------------------------------------------------------------------------
(* The world outside the requests. *)

EventStarts(e) ==
  /\ e \notin started
  /\ started' = started \cup {e}
  /\ UNCHANGED <<student, minor, tables, lock, txn>>

ComesOfAge(u) ==
  /\ u \in minor
  /\ minor' = minor \ {u}
  /\ UNCHANGED <<student, started, tables, lock, txn>>

(* services/course.promote; nothing makes an observer a student again. *)
Promoted(u) ==
  /\ u \in student
  /\ student' = student \ {u}
  /\ UNCHANGED <<minor, started, tables, lock, txn>>

(* Fourteen days after requested_at. *)
LinkExpires(k) ==
  /\ consent[k].state = "requested" /\ ~consent[k].expired
  /\ consent' = [consent EXCEPT ![k].expired = TRUE]
  /\ UNCHANGED <<people, enrollment, links, lastToken, lock, txn>>

(* The end of a request's transaction: its slot and its row lock are free. *)
Released(r) == [e \in Events |-> IF lock[e] = r THEN NoOne ELSE lock[e]]
Finish(r) == /\ txn' = [txn EXCEPT ![r] = Idle]
             /\ lock' = Released(r)

(* A lost connection, an exception or a restart before the commit:         *)
(* get_session rolls the transaction back.                                 *)
Abort(r) ==
  /\ txn[r] # Idle
  /\ Finish(r)
  /\ UNCHANGED <<people, tables>>

-----------------------------------------------------------------------------
(* POST /events/{id}/enrollment *)

(* Mutant: the event is read without FOR UPDATE. *)
EnrollNoLock(r, u, e) ==
  /\ txn[r] = Idle
  /\ u \notin student
  /\ e \notin started
  /\ lock[e] = NoOne
  /\ txn' = [txn EXCEPT ![r] = [op |-> "count", key |-> <<u, e>>]]
  /\ UNCHANGED <<people, tables, lock>>

EnrollLock(r, u, e) ==
  /\ txn[r] = Idle
  /\ u \notin student
  /\ e \notin started
  /\ lock[e] = NoOne
  /\ lock' = IF RowLocks THEN [lock EXCEPT ![e] = r] ELSE lock
  /\ txn' = [txn EXCEPT ![r] = [op |-> "count", key |-> <<u, e>>]]
  /\ UNCHANGED <<people, tables>>

(* Mutant: the answer 409 leaves the transaction open. *)
EnrollFullStuck(r) ==
  /\ txn[r].op = "count"
  /\ Cardinality(Seats(txn[r].key[2])) >= Capacity[txn[r].key[2]]
  /\ txn' = [txn EXCEPT ![r] = Idle]
  /\ UNCHANGED <<people, tables, lock>>

EnrollFull(r) ==
  /\ txn[r].op = "count"
  /\ Cardinality(Seats(txn[r].key[2])) >= Capacity[txn[r].key[2]]
  /\ Finish(r)
  /\ UNCHANGED <<people, tables>>

(* Mutant: one seat too many. *)
EnrollCountOffByOne(r) ==
  /\ txn[r].op = "count"
  /\ Cardinality(Seats(txn[r].key[2])) <= Capacity[txn[r].key[2]]
  /\ txn' = [txn EXCEPT ![r].op = "insert"]
  /\ UNCHANGED <<people, tables, lock>>

EnrollCount(r) ==
  /\ txn[r].op = "count"
  /\ Cardinality(Seats(txn[r].key[2])) < Capacity[txn[r].key[2]]
  /\ txn' = [txn EXCEPT ![r].op = "insert"]
  /\ UNCHANGED <<people, tables, lock>>

EnrollDuplicate(r) ==
  /\ txn[r].op = "insert"
  /\ enrollment[txn[r].key].status # "absent"
  /\ Finish(r)
  /\ UNCHANGED <<people, tables>>

EnrollInsert(r) ==
  LET k == txn[r].key
      new == [NoRow EXCEPT !.status = "pending_requirements",
                           !.consentStatus = IF k[1] \in minor
                                             THEN "requested"
                                             ELSE "not_required"]
  IN /\ txn[r].op = "insert"
     /\ enrollment[k].status = "absent"
     /\ enrollment' =
          [enrollment EXCEPT ![k] = SyncStatus(k[1], new, NoConsent)]
     /\ Finish(r)
     /\ UNCHANGED <<people, consent, links, lastToken>>

-----------------------------------------------------------------------------
(* POST /events/{id}/consent *)

Load(r, op, k) ==
  /\ txn[r] = Idle
  /\ enrollment[k].status # "absent"
  /\ txn' = [txn EXCEPT ![r] =
               [op |-> op, key |-> k, row |-> enrollment[k],
                cons |-> consent[k]]]
  /\ UNCHANGED <<people, tables, lock>>

RequestBegin(r, k) ==
  /\ k[1] \in minor
  /\ consent[k].state # "signed"
  /\ Load(r, "request", k)

(* Two first requests at once: the second violates the unique key          *)
(* consents.enrollment_id and is answered 500.                             *)
RequestDuplicate(r) ==
  /\ txn[r].op = "request"
  /\ txn[r].cons.state = "absent"
  /\ consent[txn[r].key].state # "absent"
  /\ Finish(r)
  /\ UNCHANGED <<people, tables>>

(* Mutant: a repeated request starts the consent afresh. *)
RequestedAfresh(current, loaded, token) ==
  [NoConsent EXCEPT !.state = "requested", !.token = token]

(* The consent is inserted, or its token and its date are replaced; the    *)
(* address of the parent is left out.                                      *)
Requested(current, loaded, token) ==
  IF loaded.state = "absent"
  THEN [NoConsent EXCEPT !.state = "requested", !.token = token]
  ELSE [current EXCEPT !.token = token, !.expired = FALSE]

(* The e-mail to the parent leaves after the commit and may be lost.       *)
RequestCommit(r) ==
  LET t == txn[r]
      k == t.key
      token == lastToken + 1
  IN /\ t.op = "request"
     /\ t.cons.state = "absent" => consent[k].state = "absent"
     /\ token \in 1 .. MaxToken
     /\ consent' = [consent EXCEPT ![k] =
                      Requested(@, t.cons, token)]
     /\ enrollment' = [enrollment EXCEPT ![k] =
          FlushRow(@, t.row, [t.row EXCEPT !.consentStatus = "requested"])]
     /\ lastToken' = token
     /\ links' \in {links, links \cup {[key |-> k, token |-> token]}}
     /\ Finish(r)
     /\ UNCHANGED people

-----------------------------------------------------------------------------
(* POST /events/{id}/consent/{token}/sign, opened by whoever got the link. *)

SignBegin(r, l) ==
  /\ consent[l.key].token = l.token
  /\ consent[l.key].state = "requested"
  /\ ~consent[l.key].expired
  /\ Load(r, "sign", l.key)

(* Mutant: a value that is not one of ConsentStatus. *)
MarkConfirmed(cons) == [cons EXCEPT !.state = "confirmed"]

MarkSigned(cons) == [cons EXCEPT !.state = "signed"]

SignCommit(r) ==
  LET t == txn[r]
      k == t.key
      new == SyncStatus(k[1], [t.row EXCEPT !.consentStatus = "signed"],
                        MarkSigned(t.cons))
  IN /\ t.op = "sign"
     /\ consent' = [consent EXCEPT ![k] = MarkSigned(@)]
     /\ enrollment' = [enrollment EXCEPT ![k] = FlushRow(@, t.row, new)]
     /\ Finish(r)
     /\ UNCHANGED <<people, links, lastToken>>

-----------------------------------------------------------------------------
(* POST /events/{id}/briefing *)

BriefBegin(r, k) == Load(r, "brief", k)

BriefCommit(r) ==
  LET t == txn[r]
      new == SyncStatus(t.key[1], [t.row EXCEPT !.briefed = TRUE], t.cons)
  IN /\ t.op = "brief"
     /\ enrollment' = [enrollment EXCEPT ![t.key] = FlushRow(@, t.row, new)]
     /\ Finish(r)
     /\ UNCHANGED <<people, consent, links, lastToken>>

-----------------------------------------------------------------------------
Environment ==
  \/ \E e \in Events : EventStarts(e)
  \/ \E u \in Users : ComesOfAge(u) \/ Promoted(u)
  \/ \E k \in Keys : LinkExpires(k)

Begin(r) ==
  \/ \E u \in Users, e \in Events : EnrollLock(r, u, e)
  \/ \E k \in Keys : RequestBegin(r, k) \/ BriefBegin(r, k)
  \/ \E l \in links : SignBegin(r, l)

Continue(r) ==
  \/ EnrollFull(r) \/ EnrollCount(r) \/ EnrollDuplicate(r) \/ EnrollInsert(r)
  \/ RequestDuplicate(r) \/ RequestCommit(r) \/ SignCommit(r) \/ BriefCommit(r)

Next == Environment \/ \E r \in Requests : Begin(r) \/ Continue(r) \/ Abort(r)

Spec == Init /\ [][Next]_evars

(* A request that was started is carried on by the server: only the steps  *)
(* of requests in flight are fair, never clients, failures or the clock.   *)
FairSpec == Spec /\ \A r \in Requests : WF_evars(Continue(r))

-----------------------------------------------------------------------------
(* Properties *)

Signed(k) == consent[k].state = "signed"
Quiescent == \A r \in Requests : txn[r] = Idle

(* No trip is ever overbooked: requests that see the same last free seat   *)
(* do not both take it (events.py:182, "пять одновременных запросов").     *)
NoOverbooking == \A e \in Events : Cardinality(Seats(e)) <= Capacity[e]

(* The stored status never says "ready" of a volunteer who is not          *)
(* admitted, although each request computes it from rows that may be stale *)
(* when it commits (services/enrollment.py:3-5).                           *)
ReadyIsAdmitted ==
  \A k \in Keys : enrollment[k].status = "ready" =>
                    IsAdmitted(k[1], enrollment[k], consent[k])

(* The denormalised consent_status and the consent itself agree: a repeated*)
(* request that overlaps the signing does not take the signature back.     *)
ConsentStatusIsTrue ==
  \A k \in Keys : enrollment[k].consentStatus = "signed" <=> Signed(k)

(* No step of any request withdraws a fact the admission rests on: an      *)
(* enrolment, a signature or a briefing, once recorded, stays recorded.    *)
FactsAreKept ==
  [][\A k \in Keys :
       /\ enrollment[k].status # "absent" => enrollment'[k].status # "absent"
       /\ enrollment[k].briefed => enrollment'[k].briefed
       /\ Signed(k) => Signed(k)']_evars

(* Enrolment implements Trip: seats are taken one by one while there is    *)
(* room, and a volunteer who was cleared stays cleared.                    *)
Cleared(e) == {u \in Seats(e) :
                 enrollment[<<u, e>>].status \in {"ready", "attended"}}
TripOf == INSTANCE Trip WITH seats <- [e \in Events |-> Seats(e)],
                             cleared <- [e \in Events |-> Cleared(e)]
ImplementsTrip == TripOf!Spec

(* Whatever the interleaving, no request keeps an event's row locked for   *)
(* ever: a lock taken is released (events.py:186-190).                     *)
LocksAreReleased ==
  \A e \in Events : (lock[e] # NoOne) ~> (lock[e] = NoOne)

(* services/enrollment.py:52-55: the denormalised status is brought in line*)
(* with the facts after any change of the conditions.  With no request in  *)
(* flight, a minor whose parent signed and who is briefed is "ready".      *)
StatusFollowsFacts ==
  Quiescent => \A k \in Keys :
    (/\ k[1] \in minor /\ enrollment[k].status \notin Terminal \cup {"absent"}
     /\ IsAdmitted(k[1], enrollment[k], consent[k]))
    => enrollment[k].status = "ready"
=============================================================================
