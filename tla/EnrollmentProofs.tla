--------------------------- MODULE EnrollmentProofs ---------------------------
(***************************************************************************)
(* Proofs about Enrollment, for any number of users, trips, seats,         *)
(* requests in flight and links: its types, and that a volunteer whom the  *)
(* database calls ready is admitted, however requests overlap.             *)
(***************************************************************************)
EXTENDS Enrollment, FiniteSetTheorems, TLAPS

Editing == {"request", "sign", "brief"}

(* What a slot holds follows from the operation it is in. *)
LEMMA TxnTypes ==
  ASSUME TypeOK, NEW r \in Requests
  PROVE  /\ txn[r].op \in Editing => txn[r] \in EditTxn
         /\ txn[r].op \in {"count", "insert"} => txn[r] \in EnrollTxn
BY DEF TypeOK, Idle, EnrollTxn, EditTxn, Editing

LEMMA NoRowTypes == NoRow \in Row /\ NoConsent \in Consent
BY EnrollmentAssumption DEF NoRow, Row, NoConsent, Consent, EnrollmentStatus,
  ConsentStatus

LEMMA SyncTypes ==
  ASSUME NEW u, NEW row \in Row, NEW cons
  PROVE  /\ SyncStatus(u, row, cons) \in Row
         /\ SyncStatus(u, row, cons).briefed = row.briefed
         /\ SyncStatus(u, row, cons).consentStatus = row.consentStatus
         /\ SyncStatus(u, row, cons).attended = row.attended
BY DEF SyncStatus, Row, EnrollmentStatus

LEMMA FlushTypes ==
  ASSUME NEW a \in Row, NEW b \in Row, NEW c \in Row
  PROVE  FlushRow(a, b, c) \in Row
BY DEF FlushRow, Column, Row

LEMMA SignedTypes ==
  ASSUME NEW c \in Consent
  PROVE  MarkSigned(c) \in Consent
BY DEF Consent, MarkSigned

LEMMA RequestedTypes ==
  ASSUME NEW c \in Consent, NEW d \in Consent, NEW n \in 0 .. MaxToken
  PROVE  Requested(c, d, n) \in Consent
BY NoRowTypes DEF Consent, Requested

-----------------------------------------------------------------------------
LEMMA TypeInit == Init => TypeOK
BY EnrollmentAssumption, NoRowTypes DEF Init, TypeOK

LEMMA FinishTypes ==
  ASSUME TypeOK, NEW r \in Requests, Finish(r)
  PROVE  /\ txn' \in [Requests -> {Idle} \cup EnrollTxn \cup EditTxn]
         /\ lock' \in [Events -> Requests \cup {NoOne}]
BY DEF TypeOK, Finish, Released

LEMMA LoadTypes ==
  ASSUME TypeOK, NEW r \in Requests, NEW k \in Keys,
         NEW op \in Editing, Load(r, op, k)
  PROVE  TypeOK'
<1>1. [op |-> op, key |-> k, row |-> enrollment[k], cons |-> consent[k]]
        \in EditTxn
  BY DEF TypeOK, EditTxn, Editing
<1> QED
  BY <1>1 DEF TypeOK, Load, people, tables

LEMMA TypeNext == TypeOK /\ [Next]_evars => TypeOK'
<1> SUFFICES ASSUME TypeOK, [Next]_evars PROVE TypeOK'
  OBVIOUS
<1>1. CASE UNCHANGED evars
  BY <1>1 DEF TypeOK, evars
<1>2. CASE Environment
  <2>1. ASSUME NEW e \in Events, EventStarts(e) PROVE TypeOK'
    BY <2>1 DEF EventStarts, TypeOK, tables
  <2>2. ASSUME NEW u \in Users, ComesOfAge(u) \/ Promoted(u) PROVE TypeOK'
    BY <2>2 DEF ComesOfAge, Promoted, TypeOK, tables
  <2>3. ASSUME NEW k \in Keys, LinkExpires(k) PROVE TypeOK'
    BY <2>3 DEF LinkExpires, TypeOK, people, Consent
  <2> QED
    BY <1>2, <2>1, <2>2, <2>3 DEF Environment
<1>3. ASSUME NEW r \in Requests, Begin(r) PROVE TypeOK'
  <2>1. ASSUME NEW u \in Users, NEW e \in Events, EnrollLock(r, u, e)
        PROVE  TypeOK'
    <3>1. [op |-> "count", key |-> <<u, e>>] \in EnrollTxn
      BY DEF EnrollTxn, Keys
    <3> QED
      BY <2>1, <3>1 DEF EnrollLock, TypeOK, people, tables
  <2>2. ASSUME NEW k \in Keys, RequestBegin(r, k) PROVE TypeOK'
    BY <2>2, LoadTypes DEF RequestBegin, Editing
  <2>3. ASSUME NEW l \in links, SignBegin(r, l) PROVE TypeOK'
    <3>1. l.key \in Keys
      BY DEF TypeOK, Link
    <3> QED
      BY <2>3, <3>1, LoadTypes DEF SignBegin, Editing
  <2>4. ASSUME NEW k \in Keys, BriefBegin(r, k) PROVE TypeOK'
    BY <2>4, LoadTypes DEF BriefBegin, Editing
  <2> QED
    BY <1>3, <2>1, <2>2, <2>3, <2>4 DEF Begin
<1>4. ASSUME NEW r \in Requests, Continue(r) PROVE TypeOK'
  <2>1. CASE EnrollFull(r) \/ EnrollDuplicate(r) \/ RequestDuplicate(r)
    BY <2>1, FinishTypes
       DEF EnrollFull, EnrollDuplicate, RequestDuplicate, TypeOK, people, tables
  <2>2. CASE EnrollCount(r)
    <3>1. [txn[r] EXCEPT !.op = "insert"] \in EnrollTxn
      BY <2>2, TxnTypes DEF EnrollCount, EnrollTxn
    <3> QED
      BY <2>2, <3>1 DEF EnrollCount, TypeOK, people, tables
  <2>3. CASE EnrollInsert(r)
    <3> DEFINE k == txn[r].key
               new == [NoRow EXCEPT !.status = "pending_requirements",
                                    !.consentStatus = IF k[1] \in minor
                                                      THEN "requested"
                                                      ELSE "not_required"]
    <3>1. new \in Row
      BY NoRowTypes DEF Row, EnrollmentStatus, ConsentStatus
    <3>2. SyncStatus(k[1], new, NoConsent) \in Row
      BY <3>1, SyncTypes
    <3> QED
      BY <2>3, <3>2, FinishTypes
         DEF EnrollInsert, TypeOK, people
  <2>4. CASE RequestCommit(r)
    <3> DEFINE t == txn[r]
               k == t.key
               token == lastToken + 1
    <3>1. /\ t \in EditTxn /\ k \in Keys
          /\ token \in 1 .. MaxToken /\ token \in 0 .. MaxToken
      <4>1. t \in EditTxn /\ token \in 1 .. MaxToken
        BY <2>4, TxnTypes DEF RequestCommit, Editing
      <4> QED
        BY <4>1, EnrollmentAssumption DEF EditTxn, TypeOK
    <3> HIDE DEF token
    <3>2. FlushRow(enrollment[k], t.row,
                   [t.row EXCEPT !.consentStatus = "requested"]) \in Row
      <4>1. [t.row EXCEPT !.consentStatus = "requested"] \in Row
        BY <3>1 DEF EditTxn, Row, ConsentStatus
      <4> QED
        BY <3>1, <4>1, FlushTypes DEF EditTxn, TypeOK
    <3>3. Requested(consent[k], t.cons, token) \in Consent
      BY <3>1, RequestedTypes DEF TypeOK, EditTxn
    <3>5. enrollment' \in [Keys -> Row]
      BY <2>4, <3>1, <3>2 DEF RequestCommit, TypeOK, EditTxn
    <3>6. consent' \in [Keys -> Consent]
      BY <2>4, <3>1, <3>3 DEF RequestCommit, TypeOK, token
    <3>7. links' \subseteq Link
      <4>1. [key |-> k, token |-> token] \in Link
        BY <3>1 DEF Link
      <4> QED
        BY <2>4, <3>1, <4>1 DEF RequestCommit, TypeOK, token
    <3> QED
      BY <2>4, <3>1, <3>5, <3>6, <3>7, FinishTypes
         DEF RequestCommit, TypeOK, people, token
  <2>5. CASE SignCommit(r)
    <3> DEFINE t == txn[r]
               k == t.key
               signed == MarkSigned(t.cons)
               edited == [t.row EXCEPT !.consentStatus = "signed"]
    <3>1. t \in EditTxn /\ k \in Keys
      BY <2>5, TxnTypes DEF SignCommit, EditTxn, Editing
    <3>2. edited \in Row
      BY <3>1 DEF EditTxn, Row, ConsentStatus
    <3>3. FlushRow(enrollment[k], t.row, SyncStatus(k[1], edited, signed)) \in Row
      BY <3>1, <3>2, SyncTypes, FlushTypes DEF EditTxn, TypeOK
    <3>4. MarkSigned(consent[k]) \in Consent
      BY <3>1, SignedTypes DEF TypeOK
    <3>5. consent' \in [Keys -> Consent]
      BY <2>5, <3>1, <3>4 DEF SignCommit, TypeOK
    <3>6. enrollment' \in [Keys -> Row]
      BY <2>5, <3>1, <3>3 DEF SignCommit, TypeOK
    <3> QED
      BY <2>5, <3>5, <3>6, FinishTypes DEF SignCommit, TypeOK, people
  <2>6. CASE BriefCommit(r)
    <3> DEFINE t == txn[r]
               edited == [t.row EXCEPT !.briefed = TRUE]
    <3>1. t \in EditTxn /\ t.key \in Keys
      BY <2>6, TxnTypes DEF BriefCommit, EditTxn, Editing
    <3>2. edited \in Row
      BY <3>1 DEF EditTxn, Row
    <3>3. FlushRow(enrollment[t.key], t.row,
                   SyncStatus(t.key[1], edited, t.cons)) \in Row
      BY <3>1, <3>2, SyncTypes, FlushTypes DEF EditTxn, TypeOK
    <3> QED
      BY <2>6, <3>1, <3>3, FinishTypes DEF BriefCommit, TypeOK, people
  <2> QED
    BY <1>4, <2>1, <2>2, <2>3, <2>4, <2>5, <2>6 DEF Continue
<1>5. ASSUME NEW r \in Requests, Abort(r) PROVE TypeOK'
  BY <1>5, FinishTypes DEF Abort, TypeOK, people, tables
<1> QED
  BY <1>1, <1>2, <1>3, <1>4, <1>5 DEF Next

(* The types of the tables, the locks and the requests in flight hold in   *)
(* every state, whatever the requests do.                                  *)
THEOREM TypeCorrect == Spec => []TypeOK
BY TypeInit, TypeNext, PTL DEF Spec

-----------------------------------------------------------------------------
(* The inductive invariant.  A commit writes what was computed from rows   *)
(* loaded earlier, so the properties of the tables rest on what the rows   *)
(* in flight say about the current ones.                                   *)

(* One key of the tables: its enrolment, its consent and their user. *)
Sound(u, row, cons) ==
  /\ row.status \in {"absent", "pending_requirements", "ready"}
  /\ cons.state # "absent" \/ row.briefed => row.status # "absent"
  /\ row.status = "ready" => IsAdmitted(u, row, cons)
  /\ row.consentStatus = "signed" <=> cons.state = "signed"
  /\ row.status # "absent" /\ row.consentStatus = "not_required" =>
       u \notin minor

(* What was loaded still holds: facts are only ever added. *)
StillTrue(t) ==
  /\ enrollment[t.key].status # "absent"
  /\ t.row.briefed => enrollment[t.key].briefed
  /\ t.cons.state = "signed" => Signed(t.key)
  /\ t.cons.state # "absent" => consent[t.key].state # "absent"

TablesAreSound == \A k \in Keys : Sound(k[1], enrollment[k], consent[k])

LoadedAreSound ==
  \A r \in Requests : txn[r].op \in Editing =>
    /\ Sound(txn[r].key[1], txn[r].row, txn[r].cons)
    /\ txn[r].row.status # "absent"
    /\ StillTrue(txn[r])
    /\ txn[r].op = "request" => txn[r].row.consentStatus = "requested"
    /\ txn[r].op = "sign" => txn[r].cons.state = "requested"

(* Under row locks, who counts or has counted the seats holds the event,   *)
(* and the free seat it saw is still free.                                 *)
SeatsAreGuarded ==
  /\ NoOverbooking
  /\ \A r \in Requests : txn[r].op \in {"count", "insert"} =>
       lock[txn[r].key[2]] = r
  /\ \A r \in Requests : txn[r].op = "insert" =>
       Cardinality(Seats(txn[r].key[2])) < Capacity[txn[r].key[2]]

IInv == TypeOK /\ TablesAreSound /\ LoadedAreSound

-----------------------------------------------------------------------------
(* Steps on the row of one volunteer, whatever the other tables hold. *)

(* A commit neither forgets an enrolment, a briefing nor a signature, nor  *)
(* does it take "ready" back.                                              *)
Grows ==
  \A k \in Keys :
    /\ enrollment[k].status # "absent" => enrollment'[k].status # "absent"
    /\ enrollment[k].status = "ready" => enrollment'[k].status = "ready"
    /\ enrollment[k].briefed => enrollment'[k].briefed
    /\ Signed(k) => Signed(k)'
    /\ consent[k].state # "absent" => consent'[k].state # "absent"

LEMMA BriefedRow ==
  ASSUME NEW u, NEW now \in Row, NEW cons \in Consent,
         NEW row \in Row, NEW seen \in Consent,
         Sound(u, now, cons), Sound(u, row, seen),
         now.status # "absent", row.status # "absent",
         row.briefed => now.briefed,
         seen.state = "signed" => cons.state = "signed",
         NEW new,
         new = FlushRow(now, row,
                        SyncStatus(u, [row EXCEPT !.briefed = TRUE], seen))
  PROVE  /\ Sound(u, new, cons) /\ new.status # "absent" /\ new.briefed
         /\ now.status = "ready" => new.status = "ready"
BY DEF Sound, FlushRow, SyncStatus, Column, IsAdmitted, Row, Consent,
       Terminal, EnrollmentStatus, ConsentStatus

LEMMA SignedRow ==
  ASSUME NEW u, NEW now \in Row, NEW cons \in Consent,
         NEW row \in Row, NEW seen \in Consent,
         Sound(u, now, cons), Sound(u, row, seen),
         now.status # "absent", row.status # "absent",
         row.briefed => now.briefed, seen.state = "requested",
         NEW new,
         new = FlushRow(now, row,
                 SyncStatus(u, [row EXCEPT !.consentStatus = "signed"],
                            MarkSigned(seen)))
  PROVE  /\ Sound(u, new, MarkSigned(cons))
         /\ new.status # "absent"
         /\ now.briefed => new.briefed
         /\ now.status = "ready" => new.status = "ready"
BY DEF Sound, FlushRow, SyncStatus, Column, IsAdmitted, Row, Consent,
       Terminal, EnrollmentStatus, ConsentStatus, MarkSigned

LEMMA RequestedRow ==
  ASSUME NEW u, NEW now \in Row, NEW cons \in Consent,
         NEW row \in Row, NEW seen \in Consent, NEW token,
         Sound(u, now, cons), now.status # "absent",
         row.consentStatus = "requested",
         seen.state = "absent" => cons.state = "absent",
         seen.state # "absent" => cons.state # "absent",
         NEW new,
         new = FlushRow(now, row, [row EXCEPT !.consentStatus = "requested"]),
         NEW changed, changed = Requested(cons, seen, token)
  PROVE  /\ Sound(u, new, changed)
         /\ new.status = now.status /\ new.briefed = now.briefed
         /\ cons.state = "signed" => changed.state = "signed"
         /\ changed.state # "absent"
BY DEF Sound, FlushRow, Column, IsAdmitted, Row, Consent, Requested, NoConsent,
       EnrollmentStatus, ConsentStatus

-----------------------------------------------------------------------------
(* A step on the tables leaves every key sound and every fact in place. *)
SoundAfter == \A k \in Keys : Sound(k[1], enrollment'[k], consent'[k])

LEMMA SameTables ==
  ASSUME IInv, UNCHANGED <<enrollment, consent>>
  PROVE  Grows /\ SoundAfter
BY DEF IInv, TablesAreSound, Grows, SoundAfter, Signed

(* It is enough to look at the key the step writes. *)
LEMMA OneKey ==
  ASSUME IInv, NEW k \in Keys, NEW row, NEW cons,
         enrollment' = [enrollment EXCEPT ![k] = row],
         consent' = [consent EXCEPT ![k] = cons],
         Sound(k[1], row, cons),
         enrollment[k].status # "absent" => row.status # "absent",
         enrollment[k].status = "ready" => row.status = "ready",
         enrollment[k].briefed => row.briefed,
         consent[k].state = "signed" => cons.state = "signed",
         consent[k].state # "absent" => cons.state # "absent"
  PROVE  Grows /\ SoundAfter
BY DEF IInv, TypeOK, TablesAreSound, Grows, SoundAfter, Signed

LEMMA TablesStep ==
  ASSUME IInv, [Next]_evars
  PROVE  Grows /\ SoundAfter
<1>1. CASE UNCHANGED <<enrollment, consent>>
  BY <1>1, SameTables
<1>2. ASSUME NEW k \in Keys, LinkExpires(k) PROVE Grows /\ SoundAfter
  BY <1>2 DEF LinkExpires, IInv, TypeOK, TablesAreSound, Grows, SoundAfter,
              Signed, Sound, IsAdmitted, Consent
<1>3. ASSUME NEW r \in Requests, EnrollInsert(r) PROVE Grows /\ SoundAfter
  <2> DEFINE k == txn[r].key
             new == [NoRow EXCEPT !.status = "pending_requirements",
                                  !.consentStatus = IF k[1] \in minor
                                                    THEN "requested"
                                                    ELSE "not_required"]
             row == SyncStatus(k[1], new, NoConsent)
  <2>1. k \in Keys
    BY <1>3, TxnTypes DEF EnrollInsert, EnrollTxn, IInv
  <2>2. consent[k].state = "absent"
    BY <1>3, <2>1 DEF EnrollInsert, IInv, TablesAreSound, Sound, TypeOK, Consent
  <2>3. Sound(k[1], row, consent[k])
    BY <2>2 DEF Sound, SyncStatus, IsAdmitted, NoRow, Terminal
  <2>4. enrollment' = [enrollment EXCEPT ![k] = row]
    BY <1>3 DEF EnrollInsert
  <2>5. consent' = [consent EXCEPT ![k] = consent[k]]
    BY <1>3 DEF EnrollInsert, IInv, TypeOK
  <2>6. ~enrollment[k].briefed /\ enrollment[k].status = "absent"
    BY <1>3, <2>1 DEF EnrollInsert, IInv, TablesAreSound, Sound, TypeOK, Row
  <2> HIDE DEF k, row
  <2> QED
    BY <2>1, <2>2, <2>3, <2>4, <2>5, <2>6, OneKey
<1>4. ASSUME NEW r \in Requests, RequestCommit(r) PROVE Grows /\ SoundAfter
  <2> DEFINE t == txn[r]
             k == t.key
             row == FlushRow(enrollment[k], t.row,
                             [t.row EXCEPT !.consentStatus = "requested"])
             cons == Requested(consent[k], t.cons, lastToken + 1)
  <2>1. /\ t.op = "request" /\ t.op \in Editing /\ k \in Keys
        /\ t.row \in Row /\ t.cons \in Consent
    BY <1>4, TxnTypes DEF RequestCommit, Editing, EditTxn, IInv
  <2>2. /\ enrollment[k].status # "absent" /\ t.row.consentStatus = "requested"
        /\ t.cons.state # "absent" => consent[k].state # "absent"
        /\ Sound(k[1], enrollment[k], consent[k])
    BY <2>1 DEF IInv, LoadedAreSound, StillTrue, TablesAreSound
  <2>3. /\ enrollment[k] \in Row /\ consent[k] \in Consent
        /\ t.cons.state = "absent" => consent[k].state = "absent"
    BY <1>4, <2>1 DEF IInv, TypeOK, RequestCommit
  <2>4. /\ enrollment' = [enrollment EXCEPT ![k] = row]
        /\ consent' = [consent EXCEPT ![k] = cons]
    BY <1>4 DEF RequestCommit
  <2>5. /\ row = FlushRow(enrollment[k], t.row,
                          [t.row EXCEPT !.consentStatus = "requested"])
        /\ cons = Requested(consent[k], t.cons, lastToken + 1)
    OBVIOUS
  <2> HIDE DEF t, k, row, cons
  <2>6. /\ Sound(k[1], row, cons)
        /\ row.status = enrollment[k].status
        /\ row.briefed = enrollment[k].briefed
        /\ consent[k].state = "signed" => cons.state = "signed"
        /\ cons.state # "absent"
    BY <2>1, <2>2, <2>3, <2>5, RequestedRow
  <2> QED
    BY <2>1, <2>4, <2>6, OneKey
<1>5. ASSUME NEW r \in Requests, SignCommit(r) PROVE Grows /\ SoundAfter
  <2> DEFINE t == txn[r]
             k == t.key
             row == FlushRow(enrollment[k], t.row,
                      SyncStatus(k[1], [t.row EXCEPT !.consentStatus = "signed"],
                                 MarkSigned(t.cons)))
             cons == MarkSigned(consent[k])
  <2>1. /\ t.op = "sign" /\ t.op \in Editing /\ k \in Keys
        /\ t.row \in Row /\ t.cons \in Consent
    BY <1>5, TxnTypes DEF SignCommit, Editing, EditTxn, IInv
  <2>2. /\ enrollment[k].status # "absent" /\ t.row.status # "absent"
        /\ t.row.briefed => enrollment[k].briefed
        /\ t.cons.state = "requested"
        /\ Sound(k[1], enrollment[k], consent[k])
        /\ Sound(k[1], t.row, t.cons)
    BY <2>1 DEF IInv, LoadedAreSound, StillTrue, TablesAreSound
  <2>3. enrollment[k] \in Row /\ consent[k] \in Consent
    BY <2>1 DEF IInv, TypeOK
  <2>4. /\ enrollment' = [enrollment EXCEPT ![k] = row]
        /\ consent' = [consent EXCEPT ![k] = cons]
    BY <1>5 DEF SignCommit
  <2>5. /\ row = FlushRow(enrollment[k], t.row,
                   SyncStatus(k[1], [t.row EXCEPT !.consentStatus = "signed"],
                              MarkSigned(t.cons)))
        /\ cons = MarkSigned(consent[k])
    OBVIOUS
  <2> HIDE DEF t, k, row, cons
  <2>6. /\ Sound(k[1], row, cons) /\ row.status # "absent"
        /\ enrollment[k].briefed => row.briefed
        /\ enrollment[k].status = "ready" => row.status = "ready"
    BY <2>1, <2>2, <2>3, <2>5, SignedRow
  <2>7. cons.state = "signed"
    BY <2>3, <2>5 DEF MarkSigned, Consent
  <2> QED
    BY <2>1, <2>4, <2>6, <2>7, OneKey
<1>6. ASSUME NEW r \in Requests, BriefCommit(r) PROVE Grows /\ SoundAfter
  <2> DEFINE t == txn[r]
             k == t.key
             row == FlushRow(enrollment[k], t.row,
                      SyncStatus(k[1], [t.row EXCEPT !.briefed = TRUE], t.cons))
  <2>1. /\ t.op \in Editing /\ k \in Keys
        /\ t.row \in Row /\ t.cons \in Consent
    BY <1>6, TxnTypes DEF BriefCommit, Editing, EditTxn, IInv
  <2>2. /\ enrollment[k].status # "absent" /\ t.row.status # "absent"
        /\ t.row.briefed => enrollment[k].briefed
        /\ t.cons.state = "signed" => consent[k].state = "signed"
        /\ Sound(k[1], enrollment[k], consent[k])
        /\ Sound(k[1], t.row, t.cons)
    BY <2>1 DEF IInv, LoadedAreSound, StillTrue, TablesAreSound, Signed
  <2>3. enrollment[k] \in Row /\ consent[k] \in Consent
    BY <2>1 DEF IInv, TypeOK
  <2>4. /\ Sound(k[1], row, consent[k]) /\ row.status # "absent"
        /\ row.briefed
        /\ enrollment[k].status = "ready" => row.status = "ready"
    BY <2>1, <2>2, <2>3, BriefedRow
  <2>5. /\ enrollment' = [enrollment EXCEPT ![k] = row]
        /\ consent' = [consent EXCEPT ![k] = consent[k]]
    BY <1>6, <2>1 DEF BriefCommit, IInv, TypeOK
  <2> HIDE DEF k, row
  <2> QED
    BY <2>1, <2>4, <2>5, OneKey
<1> QED
  BY <1>1, <1>2, <1>3, <1>4, <1>5, <1>6
     DEF Next, Environment, Begin, Continue, EventStarts, ComesOfAge, Promoted,
         EnrollLock, EnrollFull, EnrollCount, EnrollDuplicate, RequestBegin,
         RequestDuplicate, SignBegin, BriefBegin, Load, Abort, tables, evars

-----------------------------------------------------------------------------
(* A step changes a slot by ending its request, by taking an enrolment one *)
(* phase further, or by loading the rows as they are now.                  *)
Fresh(r) ==
  LET t == txn'[r]
      k == t.key
  IN /\ UNCHANGED <<enrollment, consent>>
     /\ k \in Keys
     /\ t.row = enrollment[k] /\ t.cons = consent[k]
     /\ t.row.status # "absent"
     /\ t.op = "request" => t.row.consentStatus = "requested"
     /\ t.op = "sign" => t.cons.state = "requested"

SlotStep ==
  \A r \in Requests :
    txn'[r] = txn[r] \/ txn'[r].op \notin Editing \/ Fresh(r)

LEMMA LoadStep ==
  ASSUME IInv, NEW r \in Requests, NEW op, NEW k \in Keys,
         Load(r, op, k),
         op = "request" => enrollment[k].consentStatus = "requested",
         op = "sign" => consent[k].state = "requested"
  PROVE  SlotStep
BY DEF Load, IInv, TypeOK, SlotStep, Fresh, tables

LEMMA FinishStep ==
  ASSUME IInv, NEW r \in Requests, Finish(r)
  PROVE  SlotStep
BY DEF Finish, IInv, TypeOK, SlotStep, Idle, Editing

LEMMA SlotsStep ==
  ASSUME IInv, [Next]_evars
  PROVE  SlotStep
<1>1. CASE UNCHANGED txn
  BY <1>1 DEF SlotStep
<1>2. ASSUME NEW r \in Requests, Finish(r) PROVE SlotStep
  BY <1>2, FinishStep
<1>3. ASSUME NEW r \in Requests, NEW u \in Users, NEW e \in Events,
             EnrollLock(r, u, e)
      PROVE  SlotStep
  BY <1>3 DEF EnrollLock, IInv, TypeOK, SlotStep, Editing
<1>4. ASSUME NEW r \in Requests, EnrollCount(r) PROVE SlotStep
  <2>1. txn'[r].op = "insert"
    BY <1>4, TxnTypes DEF EnrollCount, IInv, TypeOK, EnrollTxn
  <2> QED
    BY <1>4, <2>1 DEF EnrollCount, IInv, TypeOK, SlotStep, Editing
<1>5. ASSUME NEW r \in Requests, NEW k \in Keys, RequestBegin(r, k)
      PROVE  SlotStep
  <2>1. enrollment[k].consentStatus = "requested"
    BY <1>5 DEF RequestBegin, Load, IInv, TablesAreSound, Sound, TypeOK, Row,
                ConsentStatus
  <2> QED
    BY <1>5, <2>1, LoadStep DEF RequestBegin
<1>6. ASSUME NEW r \in Requests, NEW l \in links, SignBegin(r, l)
      PROVE  SlotStep
  <2>1. l.key \in Keys
    BY DEF IInv, TypeOK, Link
  <2> QED
    BY <1>6, <2>1, LoadStep DEF SignBegin
<1>7. ASSUME NEW r \in Requests, NEW k \in Keys, BriefBegin(r, k)
      PROVE  SlotStep
  BY <1>7, LoadStep DEF BriefBegin
<1> QED
  BY <1>1, <1>2, <1>3, <1>4, <1>5, <1>6, <1>7
     DEF Next, Environment, Begin, Continue, EventStarts, ComesOfAge, Promoted,
         LinkExpires, EnrollFull, EnrollDuplicate, EnrollInsert,
         RequestDuplicate, RequestCommit, SignCommit, BriefCommit, Abort, evars

(* Nobody becomes a student or a minor again. *)
LEMMA PeopleStep ==
  ASSUME IInv, [Next]_evars
  PROVE  student' \subseteq student /\ minor' \subseteq minor
BY DEF Next, Environment, Begin, Continue, EventStarts, ComesOfAge, Promoted,
       LinkExpires, EnrollLock, EnrollFull, EnrollCount, EnrollDuplicate,
       EnrollInsert, RequestBegin, SignBegin, BriefBegin, Load,
       RequestDuplicate, RequestCommit, SignCommit, BriefCommit, Abort,
       people, evars

-----------------------------------------------------------------------------
LEMMA SoundIsMonotone ==
  ASSUME NEW u, NEW row, NEW cons, Sound(u, row, cons),
         student' \subseteq student, minor' \subseteq minor
  PROVE  /\ row.status \in {"absent", "pending_requirements", "ready"}
         /\ cons.state # "absent" \/ row.briefed => row.status # "absent"
         /\ row.status = "ready" =>
              /\ u \notin student'
              /\ u \in minor' => cons.state = "signed"
              /\ row.briefed
         /\ row.consentStatus = "signed" <=> cons.state = "signed"
         /\ row.status # "absent" /\ row.consentStatus = "not_required" =>
              u \notin minor'
BY DEF Sound, IsAdmitted

LEMMA InvInit == Init => IInv
<1> SUFFICES ASSUME Init PROVE IInv
  OBVIOUS
<1>1. TypeOK
  BY TypeInit
<1>2. TablesAreSound
  BY DEF Init, TablesAreSound, Sound, NoRow, NoConsent
<1>3. LoadedAreSound
  BY DEF Init, LoadedAreSound, Idle, Editing
<1> QED
  BY <1>1, <1>2, <1>3 DEF IInv

LEMMA InvNext == IInv /\ [Next]_evars => IInv'
<1> SUFFICES ASSUME IInv, [Next]_evars PROVE IInv'
  OBVIOUS
<1>1. TypeOK'
  BY TypeNext DEF IInv
<1>2. Grows /\ SoundAfter /\ SlotStep
  BY TablesStep, SlotsStep
<1>3. student' \subseteq student /\ minor' \subseteq minor
  BY PeopleStep
<1>4. TablesAreSound'
  BY <1>2, <1>3, SoundIsMonotone
     DEF SoundAfter, TablesAreSound, Sound, IsAdmitted
<1>5. LoadedAreSound'
  <2> SUFFICES ASSUME NEW r \in Requests, txn'[r].op \in Editing
               PROVE  /\ Sound(txn[r].key[1], txn[r].row, txn[r].cons)'
                      /\ txn'[r].row.status # "absent"
                      /\ StillTrue(txn[r])'
                      /\ txn'[r].op = "request" =>
                           txn'[r].row.consentStatus = "requested"
                      /\ txn'[r].op = "sign" =>
                           txn'[r].cons.state = "requested"
    BY DEF LoadedAreSound
  <2>1. CASE txn'[r] = txn[r]
    <3>1. /\ Sound(txn[r].key[1], txn[r].row, txn[r].cons)
          /\ txn[r].row.status # "absent"
          /\ StillTrue(txn[r])
          /\ txn[r].op = "request" => txn[r].row.consentStatus = "requested"
          /\ txn[r].op = "sign" => txn[r].cons.state = "requested"
      BY <2>1 DEF IInv, LoadedAreSound
    <3>2. txn[r].key \in Keys
      BY <2>1, TxnTypes DEF IInv, Editing, EditTxn
    <3>3. StillTrue(txn[r])'
      BY <1>2, <2>1, <3>1, <3>2 DEF StillTrue, Grows, Signed
    <3>4. Sound(txn[r].key[1], txn[r].row, txn[r].cons)'
      BY <1>3, <2>1, <3>1, SoundIsMonotone DEF Sound, IsAdmitted
    <3> QED
      BY <2>1, <3>1, <3>3, <3>4
  <2>2. CASE Fresh(r)
    <3> DEFINE k == txn'[r].key
    <3>1. Sound(k[1], enrollment[k], consent[k])
      BY <2>2 DEF Fresh, IInv, TablesAreSound
    <3>2. Sound(txn[r].key[1], txn[r].row, txn[r].cons)'
      BY <1>3, <2>2, <3>1, SoundIsMonotone DEF Fresh, Sound, IsAdmitted
    <3>3. StillTrue(txn[r])'
      BY <2>2 DEF Fresh, StillTrue, Signed
    <3> QED
      BY <2>2, <3>2, <3>3 DEF Fresh
  <2> QED
    BY <1>2, <2>1, <2>2 DEF SlotStep
<1> QED
  BY <1>1, <1>4, <1>5 DEF IInv

LEMMA Invariance == Spec => []IInv
BY InvInit, InvNext, PTL DEF Spec

(* The stored status never says "ready" of a volunteer who is not admitted,*)
(* however stale the rows are from which a request computed it.            *)
THEOREM ReadyMeansAdmitted == Spec => []ReadyIsAdmitted
<1>1. IInv => ReadyIsAdmitted
  BY DEF IInv, TablesAreSound, Sound, ReadyIsAdmitted
<1> QED
  BY <1>1, Invariance, PTL

(* The copy of the consent's status in the enrolment agrees with it.       *)
THEOREM ConsentStatusAgrees == Spec => []ConsentStatusIsTrue
<1>1. IInv => ConsentStatusIsTrue
  BY DEF IInv, TablesAreSound, Sound, ConsentStatusIsTrue, Signed
<1> QED
  BY <1>1, Invariance, PTL

(* No step forgets an enrolment, a briefing or a signature.                *)
THEOREM FactsStay == Spec => FactsAreKept
<1>1. IInv /\ [Next]_evars =>
        [\A k \in Keys :
           /\ enrollment[k].status # "absent" =>
                enrollment'[k].status # "absent"
           /\ enrollment[k].briefed => enrollment'[k].briefed
           /\ Signed(k) => Signed(k)']_evars
  BY TablesStep DEF Grows
<1> QED
  BY <1>1, Invariance, PTL DEF Spec, FactsAreKept

-----------------------------------------------------------------------------
(* Seats.  With row locks, whoever is between counting the seats of a trip *)
(* and inserting holds the trip's row, so the count is still true.         *)

LEMMA SeatsAreFinite ==
  ASSUME NEW e \in Events
  PROVE  /\ IsFiniteSet(Seats(e))
         /\ Cardinality(Seats(e)) \in Nat
<1>1. Seats(e) \subseteq Users
  BY DEF Seats
<1> QED
  BY <1>1, FS_Subset, FS_CardinalityType, EnrollmentAssumption

(* Only an insertion takes a seat, and nothing gives one back. *)
LEMMA SeatsStep ==
  ASSUME IInv, IInv', [Next]_evars, NEW e \in Events
  PROVE  \/ Seats(e)' = Seats(e)
         \/ \E r \in Requests :
              /\ EnrollInsert(r) /\ txn[r].key[2] = e
              /\ txn[r].key[1] \notin Seats(e)
              /\ Seats(e)' = Seats(e) \cup {txn[r].key[1]}
<1>1. ASSUME NEW u \in Users
      PROVE  /\ u \in Seats(e) <=> enrollment[<<u, e>>].status # "absent"
             /\ u \in Seats(e)' <=> enrollment'[<<u, e>>].status # "absent"
             /\ u \in Seats(e) => u \in Seats(e)'
  <2>1. <<u, e>> \in Keys
    BY DEF Keys
  <2>2. /\ enrollment[<<u, e>>].status # "cancelled"
        /\ enrollment'[<<u, e>>].status # "cancelled"
    BY <2>1 DEF IInv, TablesAreSound, Sound
  <2>3. Grows
    BY TablesStep
  <2> QED
    BY <2>1, <2>2, <2>3 DEF Seats, Grows
<1>2. ASSUME NEW r \in Requests, NEW k \in Keys, NEW row,
             txn[r].op \in Editing, txn[r].key = k,
             enrollment' = [enrollment EXCEPT ![k] = row]
      PROVE  Seats(e)' = Seats(e)
  <2>1. enrollment[k].status # "absent"
    BY <1>2 DEF IInv, LoadedAreSound, StillTrue
  <2>2. ASSUME NEW u \in Users, enrollment[<<u, e>>].status = "absent"
        PROVE  enrollment'[<<u, e>>].status = "absent"
    BY <1>2, <2>1, <2>2 DEF IInv, TypeOK
  <2> QED
    BY <1>1, <2>2 DEF Seats
<1>3. CASE UNCHANGED enrollment
  BY <1>3 DEF Seats
<1>4. ASSUME NEW r \in Requests, EnrollInsert(r)
      PROVE  \/ Seats(e)' = Seats(e)
             \/ /\ txn[r].key[2] = e
                /\ txn[r].key[1] \notin Seats(e)
                /\ Seats(e)' = Seats(e) \cup {txn[r].key[1]}
  <2> DEFINE k == txn[r].key
  <2>1. k \in Keys /\ k = <<k[1], k[2]>> /\ k[1] \in Users
    BY <1>4, TxnTypes DEF EnrollInsert, EnrollTxn, IInv, Keys
  <2>2. /\ enrollment[k].status = "absent"
        /\ \A u \in Users : <<u, e>> # k =>
             enrollment'[<<u, e>>] = enrollment[<<u, e>>]
    BY <1>4 DEF EnrollInsert, IInv, TypeOK
  <2>3. CASE k[2] # e
    <3>1. \A u \in Users : <<u, e>> # k
      BY <2>1, <2>3
    <3> QED
      BY <2>2, <3>1 DEF Seats
  <2>4. CASE k[2] = e
    <3>1. enrollment'[k].status # "absent"
      <4>1. enrollment'[k] = SyncStatus(k[1],
              [NoRow EXCEPT !.status = "pending_requirements",
                 !.consentStatus = IF k[1] \in minor THEN "requested"
                                                     ELSE "not_required"],
              NoConsent)
        BY <1>4, <2>1 DEF EnrollInsert, IInv, TypeOK
      <4> QED
        BY <4>1 DEF SyncStatus, NoRow, Terminal
    <3>2. k[1] \notin Seats(e) /\ k[1] \in Seats(e)'
      BY <1>1, <2>1, <2>2, <2>4, <3>1
    <3>3. ASSUME NEW u \in Users, u # k[1]
          PROVE  u \in Seats(e)' <=> u \in Seats(e)
      <4>1. <<u, e>> # k
        BY <2>1, <3>3
      <4>2. enrollment'[<<u, e>>] = enrollment[<<u, e>>]
        BY <2>2, <4>1
      <4> QED
        BY <1>1, <4>2
    <3>4. Seats(e) \subseteq Users /\ Seats(e)' \subseteq Users
      BY DEF Seats
    <3> QED
      BY <2>1, <2>4, <3>2, <3>3, <3>4
  <2> QED
    BY <2>3, <2>4
<1>5. ASSUME NEW r \in Requests,
             RequestCommit(r) \/ SignCommit(r) \/ BriefCommit(r)
      PROVE  Seats(e)' = Seats(e)
  <2>1. /\ txn[r].op \in Editing
        /\ \E row : enrollment' = [enrollment EXCEPT ![txn[r].key] = row]
    BY <1>5 DEF RequestCommit, SignCommit, BriefCommit, Editing
  <2>2. txn[r].key \in Keys
    BY <2>1, TxnTypes DEF IInv, EditTxn
  <2> QED
    BY <1>2, <2>1, <2>2
<1> QED
  BY <1>3, <1>4, <1>5
     DEF Next, Environment, Begin, Continue, EventStarts, ComesOfAge, Promoted,
         LinkExpires, EnrollLock, EnrollFull, EnrollCount, EnrollDuplicate,
         RequestBegin, RequestDuplicate, SignBegin, BriefBegin, Load, Abort,
         tables, evars

LEMMA GuardedInit == Init => SeatsAreGuarded
<1> SUFFICES ASSUME Init PROVE SeatsAreGuarded
  OBVIOUS
<1>1. ASSUME NEW e \in Events PROVE Cardinality(Seats(e)) <= Capacity[e]
  <2>1. Seats(e) = {}
    BY DEF Init, Seats, Keys, NoRow
  <2> QED
    BY <2>1, FS_EmptySet, EnrollmentAssumption
<1>2. \A r \in Requests : txn[r].op = "idle"
  BY DEF Init, Idle
<1> QED
  BY <1>1, <1>2 DEF SeatsAreGuarded, NoOverbooking

(* A slot that is counting or about to insert after a step was either      *)
(* there before the step, or entered that phase by it.                     *)
LEMMA PhaseStep ==
  ASSUME IInv, [Next]_evars, NEW r \in Requests,
         txn'[r].op \in {"count", "insert"}
  PROVE  \/ txn'[r] = txn[r]
         \/ \E u \in Users, e \in Events :
              EnrollLock(r, u, e) /\ txn'[r].key = <<u, e>>
                                  /\ txn'[r].op = "count"
         \/ EnrollCount(r) /\ txn'[r].key = txn[r].key
<1>1. CASE UNCHANGED txn
  BY <1>1
<1>2. ASSUME NEW q \in Requests, Finish(q) PROVE txn'[r] = txn[r]
  BY <1>2 DEF Finish, IInv, TypeOK, Idle
<1>3. ASSUME NEW q \in Requests, NEW u \in Users, NEW e \in Events,
             EnrollLock(q, u, e)
      PROVE  \/ txn'[r] = txn[r]
             \/ q = r /\ txn'[r].key = <<u, e>> /\ txn'[r].op = "count"
  BY <1>3 DEF EnrollLock, IInv, TypeOK
<1>4. ASSUME NEW q \in Requests, EnrollCount(q)
      PROVE  \/ txn'[r] = txn[r]
             \/ q = r /\ txn'[r].key = txn[r].key
  <2>1. CASE q = r
    <3>1. txn[r] \in EnrollTxn
      BY <1>4, <2>1, TxnTypes DEF EnrollCount, IInv
    <3>2. txn'[r] = [txn[r] EXCEPT !.op = "insert"]
      BY <1>4, <2>1 DEF EnrollCount, IInv, TypeOK
    <3> QED
      BY <2>1, <3>1, <3>2 DEF EnrollTxn
  <2> QED
    BY <1>4, <2>1 DEF EnrollCount, IInv, TypeOK
<1>5. ASSUME NEW q \in Requests, NEW op \in Editing, NEW k, Load(q, op, k)
      PROVE  txn'[r] = txn[r]
  BY <1>5 DEF Load, IInv, TypeOK, Editing
<1> QED
  BY <1>1, <1>2, <1>3, <1>4, <1>5
     DEF Next, Environment, Begin, Continue, EventStarts, ComesOfAge, Promoted,
         LinkExpires, EnrollFull, EnrollDuplicate, EnrollInsert, RequestBegin,
         RequestDuplicate, RequestCommit, SignBegin, SignCommit, BriefBegin,
         BriefCommit, Abort, Editing, evars

(* A lock is lost only by the request that holds it, when it ends. *)
LEMMA LockStep ==
  ASSUME IInv, [Next]_evars, RowLocks, NEW r \in Requests, NEW e \in Events,
         lock[e] = r, txn'[r].op \in {"count", "insert"}
  PROVE  lock'[e] = r
<1>1. CASE UNCHANGED lock
  BY <1>1
<1>2. ASSUME NEW q \in Requests, Finish(q) PROVE lock'[e] = r
  <2>1. q # r
    BY <1>2 DEF Finish, IInv, TypeOK, Idle
  <2> QED
    BY <1>2, <2>1 DEF Finish, Released
<1>3. ASSUME NEW q \in Requests, NEW u \in Users, NEW f \in Events,
             EnrollLock(q, u, f)
      PROVE  lock'[e] = r
  BY <1>3, EnrollmentAssumption DEF EnrollLock, IInv, TypeOK
<1> QED
  BY <1>1, <1>2, <1>3
     DEF Next, Environment, Begin, Continue, EventStarts, ComesOfAge, Promoted,
         LinkExpires, EnrollFull, EnrollCount, EnrollDuplicate, EnrollInsert,
         RequestBegin, RequestDuplicate, RequestCommit, SignBegin, SignCommit,
         BriefBegin, BriefCommit, Load, Abort, evars

LEMMA GuardedNext ==
  ASSUME RowLocks, IInv, IInv', SeatsAreGuarded, [Next]_evars
  PROVE  SeatsAreGuarded'
<1>1. ASSUME NEW e \in Events PROVE Cardinality(Seats(e))' <= Capacity[e]
  <2>1. CASE Seats(e)' = Seats(e)
    BY <2>1 DEF SeatsAreGuarded, NoOverbooking
  <2>2. ASSUME NEW r \in Requests, EnrollInsert(r), txn[r].key[2] = e,
               txn[r].key[1] \notin Seats(e),
               Seats(e)' = Seats(e) \cup {txn[r].key[1]}
        PROVE  Cardinality(Seats(e))' <= Capacity[e]
    <3>1. Cardinality(Seats(e)) < Capacity[e]
      BY <2>2 DEF EnrollInsert, SeatsAreGuarded
    <3>2. Cardinality(Seats(e)') = Cardinality(Seats(e)) + 1
      BY <2>2, SeatsAreFinite, FS_AddElement
    <3> QED
      BY <3>1, <3>2, SeatsAreFinite, EnrollmentAssumption
  <2> QED
    BY <2>1, <2>2, SeatsStep
<1>2. ASSUME NEW r \in Requests, txn'[r].op \in {"count", "insert"}
      PROVE  lock'[txn'[r].key[2]] = r
  <2>1. CASE txn'[r] = txn[r] \/ (EnrollCount(r) /\ txn'[r].key = txn[r].key)
    <3>1. txn[r].op \in {"count", "insert"} /\ txn'[r].key = txn[r].key
      BY <1>2, <2>1 DEF EnrollCount
    <3>2. txn[r].key[2] \in Events /\ lock[txn[r].key[2]] = r
      BY <3>1, TxnTypes DEF IInv, EnrollTxn, Keys, SeatsAreGuarded
    <3> QED
      BY <1>2, <3>1, <3>2, LockStep
  <2>2. ASSUME NEW u \in Users, NEW e \in Events, EnrollLock(r, u, e),
               txn'[r].key = <<u, e>>
        PROVE  lock'[txn'[r].key[2]] = r
    BY <2>2 DEF EnrollLock, IInv, TypeOK
  <2> QED
    BY <1>2, <2>1, <2>2, PhaseStep
<1>3. ASSUME NEW r \in Requests, txn'[r].op = "insert"
      PROVE  Cardinality(Seats(txn[r].key[2]))' < Capacity[txn'[r].key[2]]
  <2>1. /\ txn'[r].key = txn[r].key
        /\ txn[r].op \in {"count", "insert"}
        /\ Cardinality(Seats(txn[r].key[2])) < Capacity[txn[r].key[2]]
    <3>1. txn'[r] = txn[r] \/ (EnrollCount(r) /\ txn'[r].key = txn[r].key)
      BY <1>3, PhaseStep
    <3> QED
      BY <1>3, <3>1 DEF EnrollCount, SeatsAreGuarded
  <2>2. PICK e \in Events : e = txn[r].key[2] /\ lock[e] = r
    BY <2>1, TxnTypes DEF IInv, EnrollTxn, Keys, SeatsAreGuarded
  <2>3. ASSUME NEW q \in Requests, EnrollInsert(q), txn[q].key[2] = e
        PROVE  FALSE
    <3>1. q = r
      BY <2>2, <2>3 DEF EnrollInsert, SeatsAreGuarded
    <3> QED
      BY <1>3, <2>3, <3>1 DEF EnrollInsert, Finish, IInv, TypeOK, Idle
  <2>4. Seats(e)' = Seats(e)
    BY <2>3, SeatsStep
  <2>5. txn'[r].key[2] = e
    BY <2>1, <2>2
  <2>6. Cardinality(Seats(e)') < Capacity[e]
    BY <2>1, <2>2, <2>4
  <2> QED
    BY <2>5, <2>6 DEF Seats
<1> QED
  BY <1>1, <1>2, <1>3 DEF SeatsAreGuarded, NoOverbooking

(* With row locks no trip is ever overbooked, for any capacity and any     *)
(* number of requests that see the same last free seat.                    *)
THEOREM NeverOverbooked == RowLocks /\ Spec => []NoOverbooking
<1> SUFFICES ASSUME RowLocks PROVE Spec => []NoOverbooking
  OBVIOUS
<1>1. Init => SeatsAreGuarded
  BY GuardedInit
<1>2. IInv /\ IInv' /\ SeatsAreGuarded /\ [Next]_evars => SeatsAreGuarded'
  BY GuardedNext
<1>3. SeatsAreGuarded => NoOverbooking
  BY DEF SeatsAreGuarded
<1> QED
  BY <1>1, <1>2, <1>3, Invariance, PTL DEF Spec

-----------------------------------------------------------------------------
(* Enrolment implements Trip.                                              *)

LEMMA ClearedAreReady ==
  ASSUME IInv, NEW e \in Events
  PROVE  Cleared(e) = {u \in Users : enrollment[<<u, e>>].status = "ready"}
<1>1. \A u \in Users : enrollment[<<u, e>>].status
                        \in {"absent", "pending_requirements", "ready"}
  BY DEF IInv, TablesAreSound, Sound, Keys
<1> QED
  BY <1>1 DEF Cleared, Seats

(* A step writes the row of one enrolment at most. *)
LEMMA OneRow ==
  ASSUME IInv, [Next]_evars
  PROVE  \/ UNCHANGED enrollment
         \/ \E k \in Keys : \A q \in Keys :
              q # k => enrollment'[q] = enrollment[q]
<1>1. ASSUME NEW r \in Requests, NEW k \in Keys, NEW row, txn[r].key = k,
             enrollment' = [enrollment EXCEPT ![k] = row]
      PROVE  \E q \in Keys : \A p \in Keys :
               p # q => enrollment'[p] = enrollment[p]
  BY <1>1 DEF IInv, TypeOK
<1>2. ASSUME NEW r \in Requests,
             \/ EnrollInsert(r) \/ RequestCommit(r)
             \/ SignCommit(r) \/ BriefCommit(r)
      PROVE  /\ txn[r].key \in Keys
             /\ \E row : enrollment' = [enrollment EXCEPT ![txn[r].key] = row]
  <2>1. txn[r].op \in {"insert", "request", "sign", "brief"}
    BY <1>2 DEF EnrollInsert, RequestCommit, SignCommit, BriefCommit
  <2>2. txn[r].key \in Keys
    BY <2>1, TxnTypes DEF IInv, EnrollTxn, EditTxn, Editing
  <2> QED
    BY <1>2, <2>2 DEF EnrollInsert, RequestCommit, SignCommit, BriefCommit
<1> QED
  BY <1>1, <1>2
     DEF Next, Environment, Begin, Continue, EventStarts, ComesOfAge, Promoted,
         LinkExpires, EnrollLock, EnrollFull, EnrollCount, EnrollDuplicate,
         RequestBegin, RequestDuplicate, SignBegin, BriefBegin, Load, Abort,
         tables, evars

(* Whoever takes a seat is not briefed yet, so not cleared either. *)
LEMMA InsertClearsNobody ==
  ASSUME IInv, IInv', NEW r \in Requests, EnrollInsert(r), NEW e \in Events
  PROVE  Cleared(e)' = Cleared(e)
<1> DEFINE k == txn[r].key
<1>1. k \in Keys
  BY TxnTypes DEF EnrollInsert, EnrollTxn, IInv
<1>2. enrollment[k].status = "absent"
  BY DEF EnrollInsert
<1>3. enrollment'[k].status # "ready"
  <2>1. enrollment'[k] = SyncStatus(k[1],
          [NoRow EXCEPT !.status = "pending_requirements",
             !.consentStatus = IF k[1] \in minor THEN "requested"
                                                 ELSE "not_required"],
          NoConsent)
    BY <1>1 DEF EnrollInsert, IInv, TypeOK
  <2> QED
    BY <2>1 DEF SyncStatus, NoRow, Terminal, IsAdmitted
<1>4. ASSUME NEW u \in Users
      PROVE  enrollment'[<<u, e>>].status = "ready" <=>
               enrollment[<<u, e>>].status = "ready"
  <2>1. CASE <<u, e>> = k
    BY <2>1, <1>2, <1>3
  <2>2. CASE <<u, e>> # k
    BY <2>2 DEF EnrollInsert, IInv, TypeOK, Keys
  <2> QED
    BY <2>1, <2>2
<1>5. Cleared(e) = {u \in Users : enrollment[<<u, e>>].status = "ready"}
  BY ClearedAreReady
<1>6. Cleared(e)' = {u \in Users : enrollment'[<<u, e>>].status = "ready"}
  <2>1. \A u \in Users : enrollment'[<<u, e>>].status
                          \in {"absent", "pending_requirements", "ready"}
    BY DEF IInv, TablesAreSound, Sound, Keys
  <2> QED
    BY <2>1 DEF Cleared, Seats
<1> QED
  BY <1>4, <1>5, <1>6

seatsOf == [e \in Events |-> Seats(e)]
clearedOf == [e \in Events |-> Cleared(e)]

LEMMA TripInit == Init => TripOf!Init
<1> SUFFICES ASSUME Init PROVE TripOf!Init
  OBVIOUS
<1>1. ASSUME NEW e \in Events PROVE Seats(e) = {} /\ Cleared(e) = {}
  BY DEF Init, Seats, Cleared, Keys, NoRow
<1> QED
  BY <1>1 DEF TripOf!Init

LEMMA TripNext ==
  ASSUME IInv, IInv', SeatsAreGuarded, [Next]_evars
  PROVE  [TripOf!Next]_<<seatsOf, clearedOf>>
<1>1. ASSUME NEW e \in Events, Seats(e)' # Seats(e)
      PROVE  TripOf!Next
  <2>1. PICK r \in Requests :
          /\ EnrollInsert(r) /\ txn[r].key[2] = e
          /\ txn[r].key[1] \notin Seats(e)
          /\ Seats(e)' = Seats(e) \cup {txn[r].key[1]}
    BY <1>1, SeatsStep
  <2>2. PICK u \in Users : u = txn[r].key[1]
    BY <2>1, TxnTypes DEF EnrollInsert, EnrollTxn, IInv, Keys
  <2>3. Cardinality(Seats(e)) < Capacity[e]
    BY <2>1 DEF EnrollInsert, SeatsAreGuarded
  <2>4. \A f \in Events : f # e => Seats(f)' = Seats(f)
    <3>1. ASSUME NEW f \in Events, f # e, NEW w \in Users
          PROVE  enrollment'[<<w, f>>] = enrollment[<<w, f>>]
      <4>1. <<w, f>> # txn[r].key
        BY <2>1, <3>1
      <4> QED
        BY <2>1, <4>1 DEF EnrollInsert, IInv, TypeOK, Keys
    <3> QED
      BY <3>1 DEF Seats
  <2>5. \A f \in Events : Cleared(f)' = Cleared(f)
    BY <2>1, InsertClearsNobody
  <2>6. TripOf!TakeSeat(u, e)
    <3>1. u \notin seatsOf[e] /\ Cardinality(seatsOf[e]) < Capacity[e]
      BY <2>1, <2>2, <2>3 DEF seatsOf
    <3>2. Seats(e)' = Seats(e) \cup {u}
      BY <2>1, <2>2
    <3>3. seatsOf' = [seatsOf EXCEPT ![e] = @ \cup {u}]
      BY <2>4, <3>2 DEF seatsOf
    <3>4. clearedOf' = clearedOf
      BY <2>5 DEF clearedOf
    <3>5. TripOf!Cardinality(seatsOf[e]) = Cardinality(seatsOf[e])
      BY DEF TripOf!Cardinality, Cardinality
    <3> QED
      BY <3>1, <3>3, <3>4, <3>5 DEF TripOf!TakeSeat, seatsOf, clearedOf
  <2> QED
    BY <2>6 DEF TripOf!Next
<1>2. ASSUME \A e \in Events : Seats(e)' = Seats(e)
      PROVE  TripOf!Next \/ UNCHANGED <<seatsOf, clearedOf>>
  <2>1. CASE \A e \in Events : Cleared(e)' = Cleared(e)
    BY <1>2, <2>1 DEF seatsOf, clearedOf
  <2>2. ASSUME NEW e \in Events, Cleared(e)' # Cleared(e)
        PROVE  TripOf!Next
    <3>1. PICK k \in Keys : \A q \in Keys :
                              q # k => enrollment'[q] = enrollment[q]
      BY <2>2, OneRow DEF Cleared, Seats
    <3>2. PICK u \in Users, f \in Events : k = <<u, f>>
      BY DEF Keys
    <3>3. \A g \in Events : g # f => Cleared(g)' = Cleared(g)
      BY <3>1, <3>2 DEF Cleared, Seats, Keys
    <3>4. f = e
      BY <2>2, <3>3
    <3>5. \A w \in Users : w # u => (w \in Cleared(e)' <=> w \in Cleared(e))
      BY <3>1, <3>2 DEF Cleared, Seats, Keys
    <3>6. \A w \in Users : w \in Cleared(e) => w \in Cleared(e)'
      <4>1. Grows
        BY TablesStep
      <4>2. \A w \in Users : w \in Cleared(e) =>
                              enrollment'[<<w, e>>].status = "ready"
        BY <4>1, ClearedAreReady DEF Grows, Keys
      <4> QED
        BY <4>2 DEF Cleared, Seats
    <3>7. /\ Cleared(e) \subseteq Users /\ Cleared(e)' \subseteq Users
          /\ Cleared(e)' \subseteq Seats(e)'
      BY DEF Cleared, Seats
    <3>8. u \notin Cleared(e) /\ Cleared(e)' = Cleared(e) \cup {u}
      BY <2>2, <3>5, <3>6, <3>7
    <3>9. u \in Seats(e)
      BY <1>2, <3>7, <3>8
    <3>10. TripOf!Clear(u, e)
      BY <1>2, <3>3, <3>4, <3>8, <3>9 DEF TripOf!Clear
    <3> QED
      BY <3>10 DEF TripOf!Next
  <2> QED
    BY <2>1, <2>2
<1> QED
  BY <1>1, <1>2

(* With row locks, enrolment implements Trip: the requests, locks and rows *)
(* are a way to take free seats one by one and to clear the seated.        *)
THEOREM EnrollmentImplementsTrip == RowLocks /\ Spec => ImplementsTrip
<1> SUFFICES ASSUME RowLocks PROVE Spec => ImplementsTrip
  OBVIOUS
<1>1. Init => SeatsAreGuarded
  BY GuardedInit
<1>2. IInv /\ IInv' /\ SeatsAreGuarded /\ [Next]_evars => SeatsAreGuarded'
  BY GuardedNext
<1>3. IInv /\ IInv' /\ SeatsAreGuarded /\ [Next]_evars =>
        [TripOf!Next]_<<seatsOf, clearedOf>>
  BY TripNext
<1> QED
  BY <1>1, <1>2, <1>3, TripInit, Invariance, PTL
     DEF Spec, ImplementsTrip, TripOf!Spec, seatsOf, clearedOf
=============================================================================
