-------------------------- MODULE FieldReportsProofs --------------------------
(***************************************************************************)
(* Proofs about FieldReports, for any number of volunteers, trips, photos  *)
(* and requests in flight: the types, that reports come only from admitted *)
(* volunteers, that what the inspector decides on is complete, that one    *)
(* submission is decided once, and that a segment is cleaned once.  Then   *)
(* about Notices: sending them leaves all of this true, and nobody is told *)
(* what the journal does not hold.                                         *)
(***************************************************************************)
EXTENDS Notices, EnrollmentProofs

JobRecord == UploadJob \cup CreateJob \cup UpdateJob \cup DecideJob
             \cup DecidedJob

(* What a slot holds follows from the operation it is in. *)
LEMMA JobTypes ==
  ASSUME ReportsTypeOK, NEW j \in Jobs
  PROVE  /\ job[j].op = "free" => job[j] = Free
         /\ job[j].op = "upload" => job[j] \in UploadJob
         /\ job[j].op = "create" => job[j] \in CreateJob
         /\ job[j].op = "update" => job[j] \in UpdateJob
         /\ job[j].op = "decide" => job[j] \in DecideJob
         /\ job[j].op = "decided" => job[j] \in DecidedJob
BY DEF ReportsTypeOK, Free, UploadJob, CreateJob, UpdateJob, DecideJob,
       DecidedJob

LEMMA ColumnTypes ==
  ASSUME NEW S, NEW current \in S, NEW loaded, NEW new \in S
  PROVE  Column(current, loaded, new) \in S
BY DEF Column

-----------------------------------------------------------------------------
(* Types *)

LEMMA ReportsTypeInit == ReportsInit => ReportsTypeOK
<1> SUFFICES ASSUME ReportsInit PROVE ReportsTypeOK
  OBVIOUS
<1>1. TypeOK
  BY TypeInit DEF ReportsInit
<1>2. NoReport \in Report
  BY DEF NoReport, Report, ReportStatus
<1>3. [status |-> "work", lowered |-> 0] \in SegmentRow
  BY DEF SegmentRow
<1>4. <<>> \in Seq(AuditActions)
  OBVIOUS
<1> QED
  BY <1>1, <1>2, <1>3, <1>4 DEF ReportsInit, ReportsTypeOK

LEMMA CommittedTypes ==
  ASSUME ReportsTypeOK, NEW j \in Jobs, NEW rest \in {Free} \cup JobRecord,
         Committed(j, rest)
  PROVE  /\ job' \in [Jobs -> {Free} \cup UploadJob \cup CreateJob
                              \cup UpdateJob \cup DecideJob \cup DecidedJob]
         /\ rowLock' \in [Keys -> Jobs \cup {NoOne}]
BY DEF Committed, ReportsTypeOK, JobRecord

LEMMA EndJobTypes ==
  ASSUME ReportsTypeOK, NEW j \in Jobs, EndJob(j)
  PROVE  /\ job' \in [Jobs -> {Free} \cup UploadJob \cup CreateJob
                              \cup UpdateJob \cup DecideJob \cup DecidedJob]
         /\ rowLock' \in [Keys -> Jobs \cup {NoOne}]
BY CommittedTypes DEF EndJob

LEMMA BeginTypes ==
  ASSUME ReportsTypeOK, NEW j \in Jobs, NEW t \in JobRecord,
         job' = [job EXCEPT ![j] = t]
  PROVE  job' \in [Jobs -> {Free} \cup UploadJob \cup CreateJob
                           \cup UpdateJob \cup DecideJob \cup DecidedJob]
BY DEF ReportsTypeOK, JobRecord

LEMMA EnrolmentTypesStay ==
  ASSUME TypeOK, UNCHANGED evars
  PROVE  TypeOK'
BY TypeNext

(* Submitting marks the attendance of one enrolment, and nothing else. *)
Attendance(k) == [enrollment EXCEPT ![k].attended = TRUE,
                                    ![k].status = "attended"]

LEMMA AttendanceRow ==
  ASSUME TypeOK, NEW k \in Keys
  PROVE  /\ Attendance(k) \in [Keys -> Row]
         /\ Attendance(k)[k] = [enrollment[k] EXCEPT !.attended = TRUE,
                                                     !.status = "attended"]
         /\ \A q \in Keys : q # k => Attendance(k)[q] = enrollment[q]
<1>1. enrollment \in [Keys -> Row]
  BY DEF TypeOK
<1>2. \A row \in Row :
        [row EXCEPT !.attended = TRUE, !.status = "attended"] \in Row
  BY DEF Row, EnrollmentStatus
<1>3. Attendance(k)[k] = [enrollment[k] EXCEPT !.attended = TRUE,
                                               !.status = "attended"]
  BY <1>1 DEF Attendance
<1>4. \A q \in Keys : q # k => Attendance(k)[q] = enrollment[q]
  BY <1>1 DEF Attendance
<1>5. \A q \in Keys : Attendance(k)[q] \in Row
  <2>1. Attendance(k)[k] \in Row
    <3>1. enrollment[k] \in Row
      BY <1>1
    <3> QED
      BY <3>1, <1>2, <1>3
  <2> QED
    BY <1>1, <1>4, <2>1
<1>6. Attendance(k) = [q \in Keys |-> Attendance(k)[q]]
  BY <1>1 DEF Attendance
<1> QED
  BY <1>3, <1>4, <1>5, <1>6

LEMMA AttendedTypes ==
  ASSUME TypeOK, NEW k \in Keys, enrollment' \in {enrollment, Attendance(k)},
         UNCHANGED <<people, consent, links, lastToken, lock, txn>>
  PROVE  TypeOK'
<1>1. enrollment' \in [Keys -> Row]
  BY AttendanceRow DEF TypeOK
<1> QED
  BY <1>1 DEF TypeOK, people

(* What a draft becomes, and what a submission or a decision makes of it. *)
LEMMA WrittenReport ==
  ASSUME ReportsTypeOK, NEW k \in Keys, NEW a \in Photos \cup {NoOne},
         NEW b \in Photos \cup {NoOne}, NEW s \in ReportStatus
  PROVE  /\ [report EXCEPT ![k].after = a, ![k].status = s] \in [Keys -> Report]
         /\ [report EXCEPT ![k].status = s, ![k].before = b]
              \in [Keys -> Report]
         /\ [report EXCEPT ![k].status = s] \in [Keys -> Report]
<1>1. report \in [Keys -> Report] /\ report[k] \in Report
  BY DEF ReportsTypeOK
<1>2. \A r \in Report : /\ [r EXCEPT !.after = a, !.status = s] \in Report
                        /\ [r EXCEPT !.status = s, !.before = b] \in Report
                        /\ [r EXCEPT !.status = s] \in Report
  BY DEF Report
<1>3. /\ [report[k] EXCEPT !.after = a, !.status = s] \in Report
      /\ [report[k] EXCEPT !.status = s, !.before = b] \in Report
      /\ [report[k] EXCEPT !.status = s] \in Report
  BY <1>1, <1>2
<1>4. [report EXCEPT ![k].after = a, ![k].status = s] \in [Keys -> Report]
  BY <1>1, <1>3
<1>5. [report EXCEPT ![k].status = s, ![k].before = b] \in [Keys -> Report]
  BY <1>1, <1>3
<1>6. [report EXCEPT ![k].status = s] \in [Keys -> Report]
  BY <1>1, <1>3
<1> QED
  BY <1>4, <1>5, <1>6

LEMMA DecidedTypes ==
  ASSUME ReportsTypeOK, NEW j \in Jobs, NEW approved \in BOOLEAN,
         Decided(j, approved)
  PROVE  /\ TypeOK'
         /\ report' \in [Keys -> Report]
         /\ audit' \in [Keys -> Seq(AuditActions)]
         /\ job' \in [Jobs -> {Free} \cup UploadJob \cup CreateJob
                              \cup UpdateJob \cup DecideJob \cup DecidedJob]
         /\ rowLock' \in [Keys -> Jobs \cup {NoOne}]
<1> DEFINE k == job[j].key
           verdict == IF approved THEN "approved" ELSE "rejected"
           rest == [op |-> "decided", key |-> k, approved |-> approved]
<1>1. job[j] \in DecideJob /\ k \in Keys
  BY JobTypes DEF Decided, DecideJob
<1>2. verdict \in AuditActions /\ verdict \in ReportStatus
  BY DEF AuditActions, ReportStatus
<1>3. report' \in [Keys -> Report]
  <2>1. report' = [report EXCEPT ![k].status = verdict]
    BY DEF Decided
  <2> HIDE DEF k, verdict
  <2> QED
    BY <1>1, <1>2, <2>1, WrittenReport DEF Report
<1>4. audit' \in [Keys -> Seq(AuditActions)]
  <2>1. audit' = [audit EXCEPT ![k] = Append(@, verdict)]
    BY DEF Decided
  <2> HIDE DEF k, verdict
  <2> QED
    BY <1>1, <1>2, <2>1 DEF ReportsTypeOK
<1>5. rest \in DecidedJob
  BY <1>1 DEF DecidedJob
<1>6. Committed(j, rest)
  BY DEF Decided
<1>7. TypeOK'
  BY EnrolmentTypesStay DEF Decided, ReportsTypeOK
<1> QED
  BY <1>3, <1>4, <1>5, <1>6, <1>7, CommittedTypes DEF JobRecord

LEMMA ReportsTypeNext == ReportsTypeOK /\ [ReportsNext]_vars => ReportsTypeOK'
<1> SUFFICES ASSUME ReportsTypeOK, [ReportsNext]_vars PROVE ReportsTypeOK'
  OBVIOUS
<1>1. CASE UNCHANGED vars
  BY <1>1, EnrolmentTypesStay
     DEF vars, rvars, photos, journal, ReportsTypeOK
<1>2. CASE Next /\ UNCHANGED rvars
  BY <1>2, TypeNext DEF rvars, photos, journal, ReportsTypeOK
<1>3. ASSUME NEW j \in Jobs, NEW u \in Users, NEW f \in Photos,
             UploadBegin(j, u, f)
      PROVE  ReportsTypeOK'
  <2>1. [op |-> "upload", owner |-> u, photo |-> f] \in JobRecord
    BY DEF UploadJob, JobRecord
  <2> QED
    BY <1>3, <2>1, BeginTypes, EnrolmentTypesStay
       DEF UploadBegin, ReportsTypeOK, journal
<1>4. ASSUME NEW j \in Jobs, NEW k \in Keys, NEW f \in Photos,
             CreateBegin(j, k, f)
      PROVE  ReportsTypeOK'
  <2>1. [op |-> "create", key |-> k, before |-> f] \in JobRecord
    BY DEF CreateJob, JobRecord
  <2> QED
    BY <1>4, <2>1, BeginTypes, EnrolmentTypesStay
       DEF CreateBegin, ReportsTypeOK, photos, journal
<1>5. ASSUME NEW j \in Jobs, NEW k \in Keys, NEW a \in Photos \cup {NoOne},
             NEW s \in BOOLEAN, UpdateBegin(j, k, a, s)
      PROVE  ReportsTypeOK'
  <2>1. [op |-> "update", key |-> k, row |-> report[k], after |-> a,
         submit |-> s] \in JobRecord
    BY DEF UpdateJob, JobRecord, ReportsTypeOK
  <2> QED
    BY <1>5, <2>1, BeginTypes, EnrolmentTypesStay
       DEF UpdateBegin, ReportsTypeOK, photos, journal
<1>6. ASSUME NEW j \in Jobs, NEW k \in Keys, DecideBegin(j, k)
      PROVE  ReportsTypeOK'
  <2>1. k[1] \in Users /\ Site[k[2]] \in Segments
    BY ReportsAssumption DEF Keys
  <2>2. [op |-> "decide", key |-> k, hours |-> hours[k[1]],
         segment |-> segment[Site[k[2]]]] \in JobRecord
    BY <2>1 DEF DecideJob, JobRecord, ReportsTypeOK
  <2>3. rowLock' \in [Keys -> Jobs \cup {NoOne}]
    BY <1>6 DEF DecideBegin, ReportsTypeOK
  <2> QED
    BY <1>6, <2>2, <2>3, BeginTypes, EnrolmentTypesStay
       DEF DecideBegin, ReportsTypeOK, photos, journal
<1>7. ASSUME NEW j \in Jobs, UploadCommit(j) PROVE ReportsTypeOK'
  <2>1. job[j] \in UploadJob
    BY <1>7, JobTypes DEF UploadCommit
  <2>2. media' \in [Photos -> Users \cup {NoOne}]
    BY <1>7, <2>1 DEF UploadCommit, ReportsTypeOK, UploadJob
  <2> QED
    BY <1>7, <2>2, EndJobTypes, EnrolmentTypesStay
       DEF UploadCommit, ReportsTypeOK, journal
<1>8. ASSUME NEW j \in Jobs, CreateCommit(j) PROVE ReportsTypeOK'
  <2> DEFINE k == job[j].key
             b == job[j].before
  <2>1. k \in Keys /\ b \in Photos
    BY <1>8, JobTypes DEF CreateCommit, CreateJob
  <2>2. \/ report' = report
        \/ report' = [report EXCEPT ![k].status = "draft", ![k].before = b]
    BY <1>8 DEF CreateCommit
  <2> HIDE DEF k, b
  <2>3. report' \in [Keys -> Report]
    <3>1. CASE report' = report
      BY <3>1 DEF ReportsTypeOK
    <3>2. CASE report' = [report EXCEPT ![k].status = "draft",
                                        ![k].before = b]
      <4>1. "draft" \in ReportStatus
        BY DEF ReportStatus
      <4> QED
        BY <2>1, <3>2, <4>1, WrittenReport
    <3> QED
      BY <2>2, <3>1, <3>2
  <2> QED
    BY <1>8, <2>3, EndJobTypes, EnrolmentTypesStay
       DEF CreateCommit, ReportsTypeOK, photos, journal
<1>9. ASSUME NEW j \in Jobs, UpdateCommit(j) PROVE ReportsTypeOK'
  <2> DEFINE t == job[j]
             k == t.key
             after == IF t.after = NoOne THEN t.row.after ELSE t.after
             status == IF t.submit THEN "pending" ELSE t.row.status
             a == Column(report[k].after, t.row.after, after)
             s == Column(report[k].status, t.row.status, status)
  <2>1. t \in UpdateJob
    BY <1>9, JobTypes DEF UpdateCommit
  <2>2. k \in Keys /\ t.row \in Report /\ t.after \in Photos \cup {NoOne}
    BY <2>1 DEF UpdateJob
  <2>3. report[k] \in Report
    BY <2>2 DEF ReportsTypeOK
  <2>4. a \in Photos \cup {NoOne} /\ s \in ReportStatus
    BY <2>2, <2>3, ColumnTypes DEF Report, ReportStatus
  <2>5. report' = [report EXCEPT ![k].after = a, ![k].status = s]
    BY <1>9, <2>2 DEF UpdateCommit, ReportsTypeOK
  <2>6. enrollment' \in {enrollment, Attendance(k)}
    BY <1>9 DEF UpdateCommit, Attendance
  <2>7. submits' \in [Keys -> Nat]
    BY <1>9, <2>2 DEF UpdateCommit, ReportsTypeOK
  <2> HIDE DEF a, s
  <2>8. report' \in [Keys -> Report]
    BY <2>2, <2>4, <2>5, WrittenReport
  <2>9. TypeOK'
    BY <1>9, <2>2, <2>6, AttendedTypes DEF UpdateCommit, ReportsTypeOK
  <2> QED
    BY <1>9, <2>7, <2>8, <2>9, EndJobTypes
       DEF UpdateCommit, ReportsTypeOK, photos
<1>10. ASSUME NEW j \in Jobs, Approve(j) PROVE ReportsTypeOK'
  <2>1. job[j] \in DecideJob /\ Decided(j, TRUE)
    BY <1>10, JobTypes DEF Approve, Decided
  <2>2. job[j].key[1] \in Users /\ Site[job[j].key[2]] \in Segments
    BY <2>1, ReportsAssumption DEF DecideJob, Keys
  <2>3. hours' \in [Users -> Nat]
    BY <1>10, <2>1, <2>2
       DEF Approve, ReportsTypeOK, DecideJob, HoursPerReport
  <2>4. \A row \in SegmentRow : Cleaned(row, job[j].segment) \in SegmentRow
    BY <2>1 DEF Cleaned, DecideJob, SegmentRow
  <2>5. segment' \in [Segments -> SegmentRow]
    BY <1>10, <2>2, <2>4 DEF Approve, ReportsTypeOK
  <2> QED
    BY <2>1, <2>3, <2>5, DecidedTypes DEF Decided, ReportsTypeOK, photos
<1>11. ASSUME NEW j \in Jobs, Reject(j) PROVE ReportsTypeOK'
  BY <1>11, DecidedTypes DEF Reject, Decided, ReportsTypeOK, photos
<1>12. ASSUME NEW j \in Jobs, AbortJob(j) \/ Answered(j) PROVE ReportsTypeOK'
  BY <1>12, EndJobTypes, EnrolmentTypesStay
     DEF AbortJob, Answered, ReportsTypeOK, photos, journal
<1> QED
  BY <1>1, <1>2, <1>3, <1>4, <1>5, <1>6, <1>7, <1>8, <1>9, <1>10, <1>11,
     <1>12 DEF ReportsNext, ReportStep

(* The types of the tables, the photos, the locks and the requests in      *)
(* flight hold in every state of the reports.                              *)
THEOREM ReportsTypeCorrect == ReportsSpec => []ReportsTypeOK
BY ReportsTypeInit, ReportsTypeNext, PTL DEF ReportsSpec

-----------------------------------------------------------------------------
(* Facts of the enrolment.  A submission writes "attended" over whatever   *)
(* status the enrolment has, so the invariant of Enrollment alone does not *)
(* carry over; what the reports rest on is weaker and does: no step of any *)
(* request takes an enrolment, a briefing, an attendance or a signature    *)
(* back, and nobody becomes a student or a minor again.                    *)

(* What a request in flight loaded still holds. *)
LoadedAreKept ==
  \A r \in Requests : txn[r].op \in Editing =>
    txn[r].row.status # "absent" /\ StillTrue(txn[r])

PeopleGrow == student' \subseteq student /\ minor' \subseteq minor

RowsGrow ==
  \A k \in Keys : enrollment[k].status # "absent" =>
    /\ enrollment'[k].status # "absent"
    /\ enrollment[k].briefed => enrollment'[k].briefed
    /\ enrollment[k].attended => enrollment'[k].attended

ConsentsGrow ==
  \A k \in Keys : /\ Signed(k) => Signed(k)'
                  /\ consent[k].state # "absent" => consent'[k].state # "absent"

FactsGrow == PeopleGrow /\ RowsGrow /\ ConsentsGrow

(* A commit computed from a loaded row that withdraws nothing. *)
LEMMA KeptRow ==
  ASSUME NEW now \in Row, NEW row \in Row, NEW new \in Row,
         now.status # "absent", new.status # "absent",
         row.briefed => new.briefed, new.attended = row.attended
  PROVE  /\ FlushRow(now, row, new).status # "absent"
         /\ now.briefed => FlushRow(now, row, new).briefed
         /\ now.attended => FlushRow(now, row, new).attended
BY DEF FlushRow, Column, Row

LEMMA SyncedIsPresent ==
  ASSUME NEW u, NEW row \in Row, NEW cons, row.status # "absent"
  PROVE  SyncStatus(u, row, cons).status # "absent"
BY DEF SyncStatus, Row, Terminal

LEMMA OneRowGrows ==
  ASSUME TypeOK, NEW k \in Keys, NEW row,
         enrollment' = [enrollment EXCEPT ![k] = row],
         enrollment[k].status # "absent" =>
           /\ row.status # "absent"
           /\ enrollment[k].briefed => row.briefed
           /\ enrollment[k].attended => row.attended
  PROVE  RowsGrow
BY DEF TypeOK, RowsGrow

LEMMA OneConsentGrows ==
  ASSUME TypeOK, NEW k \in Keys, NEW cons,
         consent' = [consent EXCEPT ![k] = cons],
         Signed(k) => cons.state = "signed",
         consent[k].state # "absent" => cons.state # "absent"
  PROVE  ConsentsGrow
BY DEF TypeOK, ConsentsGrow, Signed

LEMMA EnrolmentPeople ==
  ASSUME [Next]_evars
  PROVE  PeopleGrow
BY DEF Next, Environment, Begin, Continue, EventStarts, ComesOfAge, Promoted,
       LinkExpires, EnrollLock, EnrollFull, EnrollCount, EnrollDuplicate,
       EnrollInsert, RequestBegin, SignBegin, BriefBegin, Load,
       RequestDuplicate, RequestCommit, SignCommit, BriefCommit, Abort,
       people, evars, PeopleGrow

LEMMA EnrolmentConsents ==
  ASSUME TypeOK, LoadedAreKept, [Next]_evars
  PROVE  ConsentsGrow
<1>1. CASE UNCHANGED consent
  BY <1>1 DEF ConsentsGrow, Signed
<1>2. ASSUME NEW k \in Keys, LinkExpires(k) PROVE ConsentsGrow
  BY <1>2 DEF LinkExpires, TypeOK, ConsentsGrow, Signed, Consent
<1>3. ASSUME NEW r \in Requests, RequestCommit(r) PROVE ConsentsGrow
  <2> DEFINE t == txn[r]
             k == t.key
             cons == Requested(consent[k], t.cons, lastToken + 1)
  <2>1. t \in EditTxn /\ t.op \in Editing
    BY <1>3, TxnTypes DEF RequestCommit, Editing
  <2>2. k \in Keys /\ consent[k] \in Consent
    BY <2>1 DEF EditTxn, TypeOK
  <2>3. /\ t.cons.state = "absent" => consent[k].state = "absent"
        /\ consent' = [consent EXCEPT ![k] = cons]
    BY <1>3 DEF RequestCommit
  <2>4. cons.state # "absent" /\ (Signed(k) => cons.state = "signed")
    BY <2>1, <2>2, <2>3
       DEF LoadedAreKept, StillTrue, Requested, NoConsent, Signed, Consent
  <2> HIDE DEF k, cons
  <2> QED
    BY <2>2, <2>3, <2>4, OneConsentGrows
<1>4. ASSUME NEW r \in Requests, SignCommit(r) PROVE ConsentsGrow
  <2> DEFINE k == txn[r].key
             cons == MarkSigned(consent[k])
  <2>1. k \in Keys
    BY <1>4, TxnTypes DEF SignCommit, Editing, EditTxn
  <2>2. consent' = [consent EXCEPT ![k] = cons]
    BY <1>4 DEF SignCommit
  <2>3. cons.state = "signed"
    BY <2>1 DEF MarkSigned, TypeOK, Consent
  <2> HIDE DEF k, cons
  <2> QED
    BY <2>1, <2>2, <2>3, OneConsentGrows
<1> QED
  BY <1>1, <1>2, <1>3, <1>4
     DEF Next, Environment, Begin, Continue, EventStarts, ComesOfAge, Promoted,
         EnrollLock, EnrollFull, EnrollCount, EnrollDuplicate, EnrollInsert,
         RequestBegin, SignBegin, BriefBegin, Load, RequestDuplicate,
         BriefCommit, Abort, tables, evars

LEMMA EnrolmentRows ==
  ASSUME TypeOK, LoadedAreKept, [Next]_evars
  PROVE  RowsGrow
<1>1. CASE UNCHANGED enrollment
  BY <1>1 DEF RowsGrow
<1>2. ASSUME NEW r \in Requests, EnrollInsert(r) PROVE RowsGrow
  <2>1. txn[r].key \in Keys
    BY <1>2, TxnTypes DEF EnrollInsert, EnrollTxn
  <2>2. /\ enrollment[txn[r].key].status = "absent"
        /\ \E row : enrollment' = [enrollment EXCEPT ![txn[r].key] = row]
    BY <1>2 DEF EnrollInsert
  <2> QED
    BY <2>1, <2>2, OneRowGrows
<1>3. ASSUME NEW r \in Requests, txn[r].op \in Editing, NEW new \in Row,
             new.status # "absent", txn[r].row.briefed => new.briefed,
             new.attended = txn[r].row.attended,
             enrollment' = [enrollment EXCEPT ![txn[r].key] =
                              FlushRow(@, txn[r].row, new)]
      PROVE  RowsGrow
  <2> DEFINE k == txn[r].key
             now == enrollment[k]
             row == txn[r].row
             written == FlushRow(now, row, new)
  <2>1. k \in Keys /\ now \in Row /\ row \in Row
    BY <1>3, TxnTypes DEF EditTxn, TypeOK
  <2>2. now.status # "absent"
    BY <1>3 DEF LoadedAreKept, StillTrue
  <2>3. /\ written.status # "absent"
        /\ now.briefed => written.briefed
        /\ now.attended => written.attended
    BY <1>3, <2>1, <2>2, KeptRow
  <2>4. enrollment' = [enrollment EXCEPT ![k] = written]
    BY <1>3
  <2> HIDE DEF k, written
  <2> QED
    BY <2>1, <2>3, <2>4, OneRowGrows
<1>4. ASSUME NEW r \in Requests, RequestCommit(r) PROVE RowsGrow
  <2> DEFINE row == txn[r].row
             new == [row EXCEPT !.consentStatus = "requested"]
  <2>1. txn[r].op \in Editing /\ row \in Row
    BY <1>4, TxnTypes DEF RequestCommit, Editing, EditTxn
  <2>2. new \in Row /\ new.status # "absent" /\ new.briefed = row.briefed
        /\ new.attended = row.attended
    BY <2>1 DEF Row, ConsentStatus, LoadedAreKept
  <2>3. enrollment' = [enrollment EXCEPT ![txn[r].key] = FlushRow(@, row, new)]
    BY <1>4 DEF RequestCommit
  <2> HIDE DEF new
  <2> QED
    BY <1>3, <2>1, <2>2, <2>3
<1>5. ASSUME NEW r \in Requests, SignCommit(r) PROVE RowsGrow
  <2> DEFINE row == txn[r].row
             edited == [row EXCEPT !.consentStatus = "signed"]
             new == SyncStatus(txn[r].key[1], edited, MarkSigned(txn[r].cons))
  <2>1. txn[r].op \in Editing /\ row \in Row
    BY <1>5, TxnTypes DEF SignCommit, Editing, EditTxn
  <2>2. edited \in Row /\ edited.status # "absent"
        /\ edited.briefed = row.briefed /\ edited.attended = row.attended
    BY <2>1 DEF Row, ConsentStatus, LoadedAreKept
  <2>3. enrollment' = [enrollment EXCEPT ![txn[r].key] = FlushRow(@, row, new)]
    BY <1>5 DEF SignCommit
  <2> HIDE DEF edited
  <2>4. new \in Row /\ new.status # "absent" /\ new.briefed = row.briefed
        /\ new.attended = row.attended
    BY <2>2, SyncTypes, SyncedIsPresent
  <2> HIDE DEF new
  <2> QED
    BY <1>3, <2>1, <2>3, <2>4
<1>6. ASSUME NEW r \in Requests, BriefCommit(r) PROVE RowsGrow
  <2> DEFINE row == txn[r].row
             edited == [row EXCEPT !.briefed = TRUE]
             new == SyncStatus(txn[r].key[1], edited, txn[r].cons)
  <2>1. txn[r].op \in Editing /\ row \in Row
    BY <1>6, TxnTypes DEF BriefCommit, Editing, EditTxn
  <2>2. edited \in Row /\ edited.status # "absent"
        /\ edited.briefed /\ edited.attended = row.attended
    BY <2>1 DEF Row, LoadedAreKept
  <2>3. enrollment' = [enrollment EXCEPT ![txn[r].key] = FlushRow(@, row, new)]
    BY <1>6 DEF BriefCommit
  <2> HIDE DEF edited
  <2>4. new \in Row /\ new.status # "absent" /\ new.briefed
        /\ new.attended = row.attended
    BY <2>2, SyncTypes, SyncedIsPresent
  <2> HIDE DEF new
  <2> QED
    BY <1>3, <2>1, <2>3, <2>4
<1> QED
  BY <1>1, <1>2, <1>4, <1>5, <1>6
     DEF Next, Environment, Begin, Continue, EventStarts, ComesOfAge, Promoted,
         LinkExpires, EnrollLock, EnrollFull, EnrollCount, EnrollDuplicate,
         RequestBegin, SignBegin, BriefBegin, Load, RequestDuplicate, Abort,
         tables, evars

LEMMA FactsStep ==
  ASSUME ReportsTypeOK, LoadedAreKept, [ReportsNext]_vars
  PROVE  FactsGrow
<1>1. ASSUME [Next]_evars PROVE FactsGrow
  BY <1>1, EnrolmentPeople, EnrolmentConsents, EnrolmentRows
     DEF FactsGrow, ReportsTypeOK
<1>2. ASSUME NEW j \in Jobs, UpdateCommit(j) PROVE FactsGrow
  <2> DEFINE k == job[j].key
  <2>1. k \in Keys
    BY <1>2, JobTypes DEF UpdateCommit, UpdateJob
  <2>2. enrollment' \in {enrollment, Attendance(k)}
    BY <1>2 DEF UpdateCommit, Attendance
  <2>3. ASSUME NEW q \in Keys, enrollment[q].status # "absent"
        PROVE  /\ enrollment'[q].status # "absent"
               /\ enrollment[q].briefed => enrollment'[q].briefed
               /\ enrollment[q].attended => enrollment'[q].attended
    <3>1. CASE enrollment'[q] = enrollment[q]
      BY <2>3, <3>1
    <3>2. CASE enrollment'[q] = [enrollment[q] EXCEPT !.attended = TRUE,
                                                      !.status = "attended"]
      <4>1. enrollment[q] \in Row
        BY DEF ReportsTypeOK, TypeOK
      <4> QED
        BY <3>2, <4>1 DEF Row
    <3>3. CASE enrollment' = Attendance(k)
      <4>1. /\ Attendance(k)[k] = [enrollment[k] EXCEPT !.attended = TRUE,
                                                        !.status = "attended"]
            /\ q # k => Attendance(k)[q] = enrollment[q]
        BY <2>1, AttendanceRow DEF ReportsTypeOK
      <4> HIDE DEF k
      <4>2. CASE q = k
        BY <3>2, <3>3, <4>1, <4>2
      <4> QED
        BY <3>1, <3>3, <4>1, <4>2
    <3> QED
      BY <2>2, <3>1, <3>3
  <2>4. PeopleGrow /\ ConsentsGrow
    BY <1>2 DEF UpdateCommit, people, PeopleGrow, ConsentsGrow, Signed
  <2> QED
    BY <2>3, <2>4 DEF FactsGrow, RowsGrow
<1>3. CASE \/ Next /\ UNCHANGED rvars
           \/ UNCHANGED evars
  BY <1>1, <1>3
<1> QED
  BY <1>2, <1>3
     DEF ReportsNext, ReportStep, UploadBegin, UploadCommit, CreateBegin,
         CreateCommit, UpdateBegin, DecideBegin, Approve, Reject, Decided,
         AbortJob, Answered, vars

(* A slot that edits an enrolment after a step was either editing it       *)
(* before, or has just loaded it.                                          *)
JustLoaded(r) ==
  /\ txn'[r].key \in Keys
  /\ txn'[r].row = enrollment[txn'[r].key]
  /\ txn'[r].cons = consent[txn'[r].key]
  /\ enrollment[txn'[r].key].status # "absent"
  /\ UNCHANGED <<enrollment, consent>>

SlotsKeep ==
  \A r \in Requests : txn'[r].op \in Editing =>
    txn'[r] = txn[r] \/ JustLoaded(r)

LEMMA FinishKeeps ==
  ASSUME TypeOK, NEW r \in Requests, Finish(r)
  PROVE  SlotsKeep
BY DEF Finish, TypeOK, SlotsKeep, Idle, Editing

LEMMA LoadKeeps ==
  ASSUME TypeOK, NEW r \in Requests, NEW op, NEW k \in Keys, Load(r, op, k)
  PROVE  SlotsKeep
BY DEF Load, TypeOK, SlotsKeep, JustLoaded, tables

LEMMA SlotsStepKeeps ==
  ASSUME TypeOK, [Next]_evars
  PROVE  SlotsKeep
<1>1. CASE UNCHANGED txn
  BY <1>1 DEF SlotsKeep
<1>2. ASSUME NEW r \in Requests, Finish(r) PROVE SlotsKeep
  BY <1>2, FinishKeeps
<1>3. ASSUME NEW r \in Requests, NEW u \in Users, NEW e \in Events,
             EnrollLock(r, u, e)
      PROVE  SlotsKeep
  BY <1>3 DEF EnrollLock, TypeOK, SlotsKeep, Editing
<1>4. ASSUME NEW r \in Requests, EnrollCount(r) PROVE SlotsKeep
  <2>1. txn'[r].op = "insert"
    BY <1>4, TxnTypes DEF EnrollCount, TypeOK, EnrollTxn
  <2> QED
    BY <1>4, <2>1 DEF EnrollCount, TypeOK, SlotsKeep, Editing
<1>5. ASSUME NEW r \in Requests, NEW k \in Keys,
             RequestBegin(r, k) \/ BriefBegin(r, k)
      PROVE  SlotsKeep
  BY <1>5, LoadKeeps DEF RequestBegin, BriefBegin
<1>6. ASSUME NEW r \in Requests, NEW l \in links, SignBegin(r, l)
      PROVE  SlotsKeep
  <2>1. l.key \in Keys
    BY DEF TypeOK, Link
  <2> QED
    BY <1>6, <2>1, LoadKeeps DEF SignBegin
<1> QED
  BY <1>1, <1>2, <1>3, <1>4, <1>5, <1>6
     DEF Next, Environment, Begin, Continue, EventStarts, ComesOfAge, Promoted,
         LinkExpires, EnrollFull, EnrollDuplicate, EnrollInsert,
         RequestDuplicate, RequestCommit, SignCommit, BriefCommit, Abort, evars

LEMMA LoadedAreKeptNext ==
  ASSUME ReportsTypeOK, LoadedAreKept, [ReportsNext]_vars
  PROVE  LoadedAreKept'
<1>1. SlotsKeep
  <2>1. CASE [Next]_evars
    BY <2>1, SlotsStepKeeps DEF ReportsTypeOK
  <2>2. CASE UNCHANGED txn
    BY <2>2 DEF SlotsKeep
  <2> QED
    BY <2>1, <2>2
       DEF ReportsNext, ReportStep, UploadBegin, UploadCommit, CreateBegin,
           CreateCommit, UpdateBegin, UpdateCommit, DecideBegin, Approve,
           Reject, Decided, AbortJob, Answered, vars, evars
<1>2. FactsGrow
  BY FactsStep
<1> SUFFICES ASSUME NEW r \in Requests, txn'[r].op \in Editing
             PROVE  txn'[r].row.status # "absent" /\ StillTrue(txn[r])'
  BY DEF LoadedAreKept
<1>3. CASE txn'[r] = txn[r]
  <2>1. txn[r].row.status # "absent" /\ StillTrue(txn[r])
    BY <1>3 DEF LoadedAreKept
  <2>2. txn[r].key \in Keys
    BY <1>3, TxnTypes DEF ReportsTypeOK, EditTxn
  <2> QED
    BY <1>2, <1>3, <2>1, <2>2
       DEF FactsGrow, RowsGrow, ConsentsGrow, StillTrue, Signed
<1>4. CASE JustLoaded(r)
  BY <1>4 DEF JustLoaded, StillTrue, Signed
<1> QED
  BY <1>1, <1>3, <1>4 DEF SlotsKeep

-----------------------------------------------------------------------------
(* The inductive invariant.  A commit writes what a request checked when   *)
(* it began, so each table rests on what the requests in flight carry, and *)
(* that on facts no step takes back.                                       *)

Standing(k) == /\ enrollment[k].status # "absent"
               /\ IsAdmitted(k[1], enrollment[k], consent[k])
Submitted == {"pending", "approved", "rejected"}
OwnOrNone(k) == PhotosOf(k[1]) \cup {NoOne}

Founded(k) ==
  /\ report[k].status # "absent" =>
       Standing(k) /\ report[k].before \in PhotosOf(k[1])
  /\ report[k].after \in OwnOrNone(k)
  /\ report[k].status \in Submitted =>
       report[k].after # NoOne /\ enrollment[k].attended
ReportsAreFounded == \A k \in Keys : Founded(k)

PhotosAreOnDisk == \A f \in Photos : media[f] # NoOne => f \in files

(* Two uploads never write the same row. *)
UploadIsFounded(j) ==
  /\ job[j].photo \in files /\ media[job[j].photo] = NoOne
  /\ \A i \in Jobs : job[i].op = "upload" /\ job[i].photo = job[j].photo =>
                       i = j
CreateIsFounded(j) ==
  Standing(job[j].key) /\ job[j].before \in PhotosOf(job[j].key[1])
UpdateIsFounded(j) ==
  LET t == job[j]
  IN /\ t.row.status \in {"draft", "rejected"}
     /\ report[t.key].status # "absent"
     /\ t.row.after # NoOne => report[t.key].after # NoOne
     /\ t.after \in OwnOrNone(t.key) /\ t.row.after \in OwnOrNone(t.key)
     /\ t.submit => t.after # NoOne \/ t.row.after # NoOne
DecideIsFounded(j) ==
  /\ report[job[j].key].status \in Submitted
  /\ job[j].segment.status # "clean" => job[j].segment.lowered = 0

JobsAreFounded ==
  \A j \in Jobs :
    /\ job[j].op = "upload" => UploadIsFounded(j)
    /\ job[j].op = "create" => CreateIsFounded(j)
    /\ job[j].op = "update" => UpdateIsFounded(j)
    /\ job[j].op = "decide" => DecideIsFounded(j)

RInv == /\ ReportsTypeOK
        /\ LoadedAreKept
        /\ PhotosAreOnDisk
        /\ ReportsAreFounded
        /\ JobsAreFounded
        /\ FactorsLoweredOnce

LEMMA RInvInit == ReportsInit => RInv
<1> SUFFICES ASSUME ReportsInit PROVE RInv
  OBVIOUS
<1>1. ReportsTypeOK
  BY ReportsTypeInit
<1>2. LoadedAreKept
  BY DEF ReportsInit, Init, LoadedAreKept, Idle, Editing
<1>3. PhotosAreOnDisk /\ JobsAreFounded
  BY DEF ReportsInit, PhotosAreOnDisk, JobsAreFounded, Free
<1>4. ReportsAreFounded
  BY DEF ReportsInit, ReportsAreFounded, Founded, NoReport, OwnOrNone,
         Submitted
<1>5. FactorsLoweredOnce
  BY DEF ReportsInit, FactorsLoweredOnce
<1> QED
  BY <1>1, <1>2, <1>3, <1>4, <1>5 DEF RInv

(* A file stays on the disk, and a photo with an owner keeps it. *)
PhotosGrow ==
  /\ files \subseteq files'
  /\ \A f \in Photos : media[f] # NoOne => media'[f] = media[f]

LEMMA PhotosStep ==
  ASSUME RInv, [ReportsNext]_vars
  PROVE  PhotosGrow /\ PhotosAreOnDisk'
<1>1. CASE UNCHANGED photos
  BY <1>1 DEF photos, PhotosGrow, RInv, PhotosAreOnDisk
<1>2. ASSUME NEW j \in Jobs, NEW u \in Users, NEW f \in Photos,
             UploadBegin(j, u, f)
      PROVE  PhotosGrow /\ PhotosAreOnDisk'
  BY <1>2 DEF UploadBegin, PhotosGrow, RInv, PhotosAreOnDisk
<1>3. ASSUME NEW j \in Jobs, UploadCommit(j)
      PROVE  PhotosGrow /\ PhotosAreOnDisk'
  <2>1. /\ job[j].photo \in files /\ media[job[j].photo] = NoOne
        /\ job[j].photo \in Photos
    BY <1>3, JobTypes
       DEF UploadCommit, RInv, JobsAreFounded, UploadIsFounded, UploadJob
  <2> QED
    BY <1>3, <2>1
       DEF UploadCommit, PhotosGrow, RInv, PhotosAreOnDisk, ReportsTypeOK
<1> QED
  BY <1>1, <1>2, <1>3
     DEF ReportsNext, ReportStep, CreateBegin, CreateCommit, UpdateBegin,
         UpdateCommit, DecideBegin, Approve, Reject, Decided, AbortJob,
         Answered, vars, rvars

LEMMA OwnStays ==
  ASSUME PhotosGrow, NEW k \in Keys, NEW f \in PhotosOf(k[1])
  PROVE  f \in PhotosOf(k[1])'
<1>1. k[1] \in Users /\ f \in Photos /\ media[f] = k[1]
  BY DEF PhotosOf, Keys
<1>2. media'[f] = k[1]
  BY <1>1, ReportsAssumption DEF PhotosGrow
<1> QED
  BY <1>1, <1>2 DEF PhotosOf

LEMMA OwnOrNoneStays ==
  ASSUME PhotosGrow, NEW k \in Keys, NEW f \in OwnOrNone(k)
  PROVE  f \in OwnOrNone(k)'
BY OwnStays DEF OwnOrNone

LEMMA StandingStays ==
  ASSUME FactsGrow, NEW k \in Keys, Standing(k)
  PROVE  Standing(k)'
BY DEF FactsGrow, PeopleGrow, RowsGrow, ConsentsGrow, Standing, IsAdmitted,
       Signed

-----------------------------------------------------------------------------
(* What a step may write into a report. *)
Rewritten(k) ==
  /\ \A q \in Keys : q # k => report'[q] = report[q]
  /\ Standing(k)
  /\ report'[k].status # "absent"
  /\ report'[k].before \in PhotosOf(k[1])
  /\ report'[k].after \in OwnOrNone(k)
  /\ report[k].after # NoOne => report'[k].after # NoOne
  /\ report[k].status \in Submitted => report'[k].status \in Submitted
  /\ report'[k].status \in Submitted =>
       report'[k].after # NoOne /\ enrollment'[k].attended

LEMMA CreateWrites ==
  ASSUME RInv, NEW j \in Jobs, CreateCommit(j), report' # report
  PROVE  \E k \in Keys : Rewritten(k)
<1> DEFINE k == job[j].key
           b == job[j].before
<1>1. k \in Keys /\ CreateIsFounded(j)
  BY JobTypes DEF CreateCommit, CreateJob, RInv, JobsAreFounded
<1>2. /\ report[k].status = "absent"
      /\ report' = [report EXCEPT ![k].status = "draft", ![k].before = b]
  BY DEF CreateCommit
<1>3. report[k] \in Report /\ Founded(k)
  BY <1>1 DEF RInv, ReportsTypeOK, ReportsAreFounded
<1>4. Standing(k) /\ b \in PhotosOf(k[1])
  BY <1>1 DEF CreateIsFounded
<1> HIDE DEF k, b
<1>5. \A q \in Keys : q # k => report'[q] = report[q]
  BY <1>2 DEF RInv, ReportsTypeOK
<1>6. report'[k] = [report[k] EXCEPT !.status = "draft", !.before = b]
  BY <1>1, <1>2 DEF RInv, ReportsTypeOK
<1>7. /\ report'[k].status = "draft" /\ report'[k].before = b
      /\ report'[k].after = report[k].after
  BY <1>3, <1>6 DEF Report
<1> QED
  BY <1>1, <1>2, <1>3, <1>4, <1>5, <1>7 DEF Rewritten, Submitted, Founded

LEMMA DecisionWrites ==
  ASSUME RInv, NEW j \in Jobs, NEW approved \in BOOLEAN, Decided(j, approved)
  PROVE  \E k \in Keys : Rewritten(k)
<1> DEFINE k == job[j].key
           verdict == IF approved THEN "approved" ELSE "rejected"
<1>1. k \in Keys /\ DecideIsFounded(j)
  BY JobTypes DEF Decided, DecideJob, RInv, JobsAreFounded
<1>2. /\ report' = [report EXCEPT ![k].status = verdict]
      /\ UNCHANGED enrollment
      /\ verdict \in Submitted
  BY DEF Decided, evars, Submitted
<1>3. report[k] \in Report /\ Founded(k) /\ report[k].status \in Submitted
  BY <1>1 DEF RInv, ReportsTypeOK, ReportsAreFounded, DecideIsFounded
<1> HIDE DEF k, verdict
<1>5. \A q \in Keys : q # k => report'[q] = report[q]
  BY <1>2 DEF RInv, ReportsTypeOK
<1>6. report'[k] = [report[k] EXCEPT !.status = verdict]
  BY <1>1, <1>2 DEF RInv, ReportsTypeOK
<1>7. /\ report'[k].status = verdict /\ report'[k].before = report[k].before
      /\ report'[k].after = report[k].after
  BY <1>3, <1>6 DEF Report
<1> QED
  BY <1>1, <1>2, <1>3, <1>5, <1>7 DEF Rewritten, Submitted, Founded

LEMMA UpdateWrites ==
  ASSUME RInv, NEW j \in Jobs, UpdateCommit(j)
  PROVE  /\ \E k \in Keys : Rewritten(k)
         /\ job[j].submit => report'[job[j].key].status = "pending"
         /\ ~job[j].submit =>
              report'[job[j].key].status = report[job[j].key].status
<1> DEFINE t == job[j]
           k == t.key
           after == IF t.after = NoOne THEN t.row.after ELSE t.after
           status == IF t.submit THEN "pending" ELSE t.row.status
           a == Column(report[k].after, t.row.after, after)
           s == Column(report[k].status, t.row.status, status)
<1>1. t \in UpdateJob /\ UpdateIsFounded(j)
  BY JobTypes DEF UpdateCommit, RInv, JobsAreFounded
<1>2. k \in Keys /\ t.row \in Report /\ t.submit \in BOOLEAN
  BY <1>1 DEF UpdateJob
<1>3. report[k] \in Report /\ Founded(k) /\ Standing(k)
  BY <1>1, <1>2
     DEF RInv, ReportsTypeOK, ReportsAreFounded, Founded, UpdateIsFounded
<1>4. report' = [report EXCEPT ![k].after = a, ![k].status = s]
  BY <1>2 DEF UpdateCommit, RInv, ReportsTypeOK
<1>5. /\ a \in OwnOrNone(k)
      /\ report[k].after # NoOne => a # NoOne
      /\ t.submit => a # NoOne
  BY <1>1, <1>3 DEF UpdateIsFounded, Founded, Column
<1>6. /\ t.submit => s = "pending"
      /\ ~t.submit => s = report[k].status
  BY <1>1 DEF UpdateIsFounded, Column
<1>7. t.submit => enrollment'[k].attended
  <2> SUFFICES ASSUME t.submit, ~enrollment[k].attended
               PROVE  enrollment'[k].attended
    BY DEF UpdateCommit
  <2>1. enrollment' = Attendance(k)
    BY DEF UpdateCommit, Attendance
  <2>2. Attendance(k)[k] = [enrollment[k] EXCEPT !.attended = TRUE,
                                                 !.status = "attended"]
    BY <1>2, AttendanceRow DEF RInv, ReportsTypeOK
  <2>3. enrollment[k] \in Row
    BY <1>2 DEF RInv, ReportsTypeOK, TypeOK
  <2> QED
    BY <2>1, <2>2, <2>3 DEF Row
<1>8. ~t.submit => enrollment' = enrollment
  BY DEF UpdateCommit
<1>9. k = job[j].key /\ t = job[j]
  OBVIOUS
<1> HIDE DEF t, k, a, s
<1>10. \A q \in Keys : q # k => report'[q] = report[q]
  BY <1>4 DEF RInv, ReportsTypeOK
<1>11. report'[k] = [report[k] EXCEPT !.after = a, !.status = s]
  BY <1>2, <1>4 DEF RInv, ReportsTypeOK
<1>12. /\ report'[k].status = s /\ report'[k].before = report[k].before
       /\ report'[k].after = a
  BY <1>3, <1>11 DEF Report
<1>13. report[k].status # "absent"
  BY <1>1, <1>9 DEF UpdateIsFounded, t, k
<1>14. /\ report[k].status \in Submitted => s \in Submitted
       /\ s # "absent"
       /\ s \in Submitted => a # NoOne /\ enrollment'[k].attended
  BY <1>2, <1>3, <1>5, <1>6, <1>7, <1>8, <1>13 DEF Submitted, Founded
<1>15. Rewritten(k)
  BY <1>3, <1>5, <1>10, <1>12, <1>13, <1>14 DEF Rewritten, Founded
<1> QED
  BY <1>2, <1>6, <1>9, <1>12, <1>15

LEMMA WriteStep ==
  ASSUME RInv, [ReportsNext]_vars
  PROVE  UNCHANGED report \/ \E k \in Keys : Rewritten(k)
BY CreateWrites, UpdateWrites, DecisionWrites
   DEF ReportsNext, ReportStep, UploadBegin, UploadCommit, CreateBegin,
       UpdateBegin, DecideBegin, Approve, Reject, AbortJob, Answered, vars,
       rvars

(* A report once there stays, as does its photo and its submission. *)
ReportsGrow ==
  \A k \in Keys :
    /\ report[k].status # "absent" => report'[k].status # "absent"
    /\ report[k].after # NoOne => report'[k].after # NoOne
    /\ report[k].status \in Submitted => report'[k].status \in Submitted

LEMMA ReportsStep ==
  ASSUME RInv, [ReportsNext]_vars
  PROVE  ReportsGrow
BY WriteStep DEF Rewritten, ReportsGrow

LEMMA FoundedNext ==
  ASSUME RInv, [ReportsNext]_vars, FactsGrow, PhotosGrow
  PROVE  ReportsAreFounded'
<1> SUFFICES ASSUME NEW k \in Keys PROVE Founded(k)'
  BY DEF ReportsAreFounded
<1>1. Founded(k)
  BY DEF RInv, ReportsAreFounded
<1>2. CASE report'[k] = report[k]
  <2>1. report[k].status # "absent" =>
          Standing(k)' /\ report[k].before \in PhotosOf(k[1])'
    BY <1>1, StandingStays, OwnStays DEF Founded
  <2>2. report[k].after \in OwnOrNone(k)'
    BY <1>1, OwnOrNoneStays DEF Founded
  <2>3. report[k].status \in Submitted =>
          report[k].after # NoOne /\ enrollment'[k].attended
    BY <1>1 DEF Founded, FactsGrow, RowsGrow, Standing, Submitted
  <2> QED
    BY <1>2, <2>1, <2>2, <2>3 DEF Founded
<1>3. CASE Rewritten(k)
  <2>1. Standing(k)' /\ report'[k].before \in PhotosOf(k[1])'
    BY <1>3, StandingStays, OwnStays DEF Rewritten
  <2>2. report'[k].after \in OwnOrNone(k)'
    BY <1>3, OwnOrNoneStays DEF Rewritten
  <2> QED
    BY <1>3, <2>1, <2>2 DEF Founded, Rewritten
<1> QED
  BY <1>2, <1>3, WriteStep DEF Rewritten

LEMMA FactorsNext ==
  ASSUME RInv, [ReportsNext]_vars
  PROVE  FactorsLoweredOnce'
<1>1. CASE UNCHANGED segment
  BY <1>1 DEF RInv, FactorsLoweredOnce
<1>2. ASSUME NEW j \in Jobs, Approve(j) PROVE FactorsLoweredOnce'
  <2> DEFINE t == job[j]
             s == Site[t.key[2]]
  <2>1. /\ t \in DecideJob /\ t.segment \in SegmentRow
        /\ t.segment.status # "clean" => t.segment.lowered = 0
    BY <1>2, JobTypes
       DEF Approve, Decided, RInv, JobsAreFounded, DecideIsFounded, DecideJob
  <2>2. s \in Segments
    BY <2>1, ReportsAssumption DEF DecideJob, Keys
  <2>3. segment' = [segment EXCEPT ![s] = Cleaned(segment[s], t.segment)]
    BY <1>2, <2>2 DEF Approve, RInv, ReportsTypeOK
  <2>4. \/ Cleaned(segment[s], t.segment) = segment[s]
        \/ Cleaned(segment[s], t.segment) = [status |-> "clean", lowered |-> 1]
    BY <2>1 DEF Cleaned, SegmentRow
  <2> HIDE DEF s, t
  <2> QED
    BY <2>2, <2>3, <2>4 DEF RInv, FactorsLoweredOnce, ReportsTypeOK
<1> QED
  BY <1>1, <1>2
     DEF ReportsNext, ReportStep, UploadBegin, UploadCommit, CreateBegin,
         CreateCommit, UpdateBegin, UpdateCommit, DecideBegin, Reject,
         AbortJob, Answered, vars, rvars

-----------------------------------------------------------------------------
(* Requests in flight. *)

(* A slot changes when its request begins, and when it ends or has         *)
(* committed: then it carries no claim any more.                           *)
Done(t) == t.op \in {"free", "decided"}

LEMMA EndedSlot ==
  ASSUME ReportsTypeOK, NEW j \in Jobs, NEW rest, Committed(j, rest),
         Done(rest)
  PROVE  \A i \in Jobs : job'[i] = job[i] \/ Done(job'[i])
BY DEF ReportsTypeOK, Committed

LEMMA BegunSlot ==
  ASSUME ReportsTypeOK, NEW j \in Jobs, NEW t, job' = [job EXCEPT ![j] = t]
  PROVE  /\ job'[j] = t
         /\ \A i \in Jobs : i # j => job'[i] = job[i]
BY DEF ReportsTypeOK

(* What a request relies on stays true while others commit. *)
LEMMA ClaimsStay ==
  ASSUME RInv, FactsGrow, PhotosGrow, ReportsGrow, NEW j \in Jobs,
         job'[j] = job[j]
  PROVE  /\ job[j].op = "create" => CreateIsFounded(j)'
         /\ job[j].op = "update" => UpdateIsFounded(j)'
         /\ job[j].op = "decide" => DecideIsFounded(j)'
<1>1. CASE job[j].op = "create"
  <2>1. CreateIsFounded(j)
    BY <1>1 DEF RInv, JobsAreFounded
  <2>2. PICK k \in Keys, b \in Photos : k = job[j].key /\ b = job[j].before
    BY <1>1, JobTypes DEF RInv, CreateJob
  <2>3. Standing(k) /\ b \in PhotosOf(k[1])
    BY <2>1, <2>2 DEF CreateIsFounded
  <2>4. Standing(k)' /\ b \in PhotosOf(k[1])'
    BY <2>3, StandingStays, OwnStays
  <2> QED
    BY <1>1, <2>2, <2>4 DEF CreateIsFounded
<1>2. CASE job[j].op = "update"
  <2>1. job[j].key \in Keys /\ UpdateIsFounded(j)
    BY <1>2, JobTypes DEF RInv, JobsAreFounded, UpdateJob
  <2> QED
    BY <1>2, <2>1, OwnOrNoneStays DEF UpdateIsFounded, ReportsGrow
<1>3. CASE job[j].op = "decide"
  <2>1. job[j].key \in Keys /\ DecideIsFounded(j)
    BY <1>3, JobTypes DEF RInv, JobsAreFounded, DecideJob
  <2> QED
    BY <1>3, <2>1 DEF DecideIsFounded, ReportsGrow
<1> QED
  BY <1>1, <1>2, <1>3

BeginStep(j) ==
  \/ \E u \in Users, f \in Photos : UploadBegin(j, u, f)
  \/ \E k \in Keys, f \in Photos : CreateBegin(j, k, f)
  \/ \E k \in Keys, a \in Photos \cup {NoOne}, s \in BOOLEAN :
       UpdateBegin(j, k, a, s)
  \/ \E k \in Keys : DecideBegin(j, k)

LEMMA SlotStepOfReports ==
  ASSUME RInv, [ReportsNext]_vars, NEW j \in Jobs
  PROVE  job'[j] = job[j] \/ Done(job'[j]) \/ BeginStep(j)
<1>1. ASSUME NEW i \in Jobs, NEW rest, Committed(i, rest), Done(rest)
      PROVE  job'[j] = job[j] \/ Done(job'[j])
  BY <1>1, EndedSlot DEF RInv
<1>2. ASSUME NEW i \in Jobs, EndJob(i)
      PROVE  job'[j] = job[j] \/ Done(job'[j])
  BY <1>1, <1>2 DEF EndJob, Done, Free
<1>3. ASSUME NEW i \in Jobs, NEW a \in BOOLEAN, Decided(i, a)
      PROVE  job'[j] = job[j] \/ Done(job'[j])
  BY <1>1, <1>3 DEF Decided, Done
<1>4. ASSUME NEW i \in Jobs, BeginStep(i)
      PROVE  job'[j] = job[j] \/ BeginStep(j)
  <2>1. \E t : job' = [job EXCEPT ![i] = t]
    BY <1>4 DEF BeginStep, UploadBegin, CreateBegin, UpdateBegin, DecideBegin
  <2>2. i # j => job'[j] = job[j]
    BY <2>1, BegunSlot DEF RInv
  <2> QED
    BY <1>4, <2>2
<1>5. CASE UNCHANGED job
  BY <1>5
<1>6. ASSUME NEW i \in Jobs, ReportStep(i) \/ Answered(i)
      PROVE  job'[j] = job[j] \/ Done(job'[j]) \/ BeginStep(j)
  BY <1>2, <1>3, <1>4, <1>6
     DEF ReportStep, BeginStep, UploadCommit, CreateCommit, UpdateCommit,
         Approve, Reject, AbortJob, Answered
<1> QED
  BY <1>5, <1>6 DEF ReportsNext, vars, rvars

LEMMA UploadsNext ==
  ASSUME RInv, [ReportsNext]_vars, NEW j \in Jobs, job'[j].op = "upload"
  PROVE  UploadIsFounded(j)'
<1>1. ASSUME NEW i \in Jobs, NEW u \in Users, NEW f \in Photos,
             UploadBegin(i, u, f)
      PROVE  UploadIsFounded(j)'
  <2>1. /\ job'[i] = [op |-> "upload", owner |-> u, photo |-> f]
        /\ \A h \in Jobs : h # i => job'[h] = job[h]
    BY <1>1, BegunSlot DEF UploadBegin, RInv
  <2>2. f \notin files /\ media[f] = NoOne /\ UNCHANGED media
        /\ files' = files \cup {f}
    BY <1>1 DEF UploadBegin, RInv, PhotosAreOnDisk
  <2>3. \A h \in Jobs : job[h].op = "upload" =>
          UploadIsFounded(h) /\ job[h].photo # f
    BY <2>2 DEF RInv, JobsAreFounded, UploadIsFounded
  <2>4. job'[i].photo = f
    BY <2>1
  <2>5. CASE j = i
    BY <2>1, <2>2, <2>3, <2>4, <2>5 DEF UploadIsFounded
  <2>6. CASE j # i
    BY <2>1, <2>2, <2>3, <2>4, <2>6 DEF UploadIsFounded
  <2> QED
    BY <2>5, <2>6
<1>2. CASE \A i \in Jobs, u \in Users, f \in Photos : ~UploadBegin(i, u, f)
  <2>1. \A i \in Jobs : job'[i].op = "upload" => job'[i] = job[i]
    <3> SUFFICES ASSUME NEW i \in Jobs, job'[i].op = "upload", BeginStep(i)
                 PROVE  FALSE
      BY SlotStepOfReports DEF Done
    <3>1. \A k \in Keys, f \in Photos : ~CreateBegin(i, k, f)
      BY DEF CreateBegin, RInv, ReportsTypeOK
    <3>2. \A k, a, s : ~UpdateBegin(i, k, a, s)
      BY DEF UpdateBegin, RInv, ReportsTypeOK
    <3>3. \A k \in Keys : ~DecideBegin(i, k)
      BY DEF DecideBegin, RInv, ReportsTypeOK
    <3> QED
      BY <1>2, <3>1, <3>2, <3>3 DEF BeginStep
  <2>2. job[j].op = "upload" /\ UploadIsFounded(j) /\ job'[j] = job[j]
    BY <2>1 DEF RInv, JobsAreFounded
  <2>3. files \subseteq files'
    BY PhotosStep DEF PhotosGrow
  <2>4. media'[job[j].photo] = NoOne
    <3>1. CASE UNCHANGED media
      BY <2>2, <3>1 DEF UploadIsFounded
    <3>2. ASSUME NEW i \in Jobs, UploadCommit(i)
          PROVE  media'[job[j].photo] = NoOne
      <4>1. job'[i] = Free
        BY <3>2 DEF UploadCommit, EndJob, Committed, RInv, ReportsTypeOK
      <4>2. i # j
        BY <4>1 DEF Free
      <4>3. job[i].op = "upload" /\ job[i].photo # job[j].photo
        BY <2>2, <3>2, <4>2 DEF UploadCommit, UploadIsFounded
      <4>4. job[j].photo \in Photos
        BY <2>2, JobTypes DEF RInv, UploadJob
      <4> QED
        BY <2>2, <3>2, <4>3, <4>4
           DEF UploadCommit, UploadIsFounded, RInv, ReportsTypeOK
    <3> QED
      BY <1>2, <3>1, <3>2
         DEF ReportsNext, ReportStep, CreateBegin, CreateCommit, UpdateBegin,
             UpdateCommit, DecideBegin, Approve, Reject, Decided, AbortJob,
             Answered, vars, rvars, photos
  <2> QED
    BY <2>1, <2>2, <2>3, <2>4 DEF UploadIsFounded
<1> QED
  BY <1>1, <1>2

(* What a request claims when it begins. *)
LEMMA BegunIsFounded ==
  ASSUME RInv, NEW j \in Jobs, BeginStep(j)
  PROVE  /\ job'[j].op = "create" => CreateIsFounded(j)'
         /\ job'[j].op = "update" => UpdateIsFounded(j)'
         /\ job'[j].op = "decide" => DecideIsFounded(j)'
<1>1. ASSUME NEW u \in Users, NEW f \in Photos, UploadBegin(j, u, f)
      PROVE  job'[j].op = "upload"
  <2>1. job'[j] = [op |-> "upload", owner |-> u, photo |-> f]
    BY <1>1, BegunSlot DEF UploadBegin, RInv
  <2> QED
    BY <2>1
<1>2. ASSUME NEW k \in Keys, NEW f \in Photos, CreateBegin(j, k, f)
      PROVE  job'[j].op = "create" /\ CreateIsFounded(j)'
  <2>1. job'[j] = [op |-> "create", key |-> k, before |-> f]
    BY <1>2, BegunSlot DEF CreateBegin, RInv
  <2>2. Standing(k)' /\ f \in PhotosOf(k[1])'
    BY <1>2 DEF CreateBegin, Standing, IsAdmitted, PhotosOf, evars, photos
  <2> QED
    BY <2>1, <2>2 DEF CreateIsFounded
<1>3. ASSUME NEW k \in Keys, NEW a \in Photos \cup {NoOne}, NEW s \in BOOLEAN,
             UpdateBegin(j, k, a, s)
      PROVE  job'[j].op = "update" /\ UpdateIsFounded(j)'
  <2>1. job'[j] = [op |-> "update", key |-> k, row |-> report[k], after |-> a,
                   submit |-> s]
    BY <1>3, BegunSlot DEF UpdateBegin, RInv
  <2>2. /\ a \in OwnOrNone(k)' /\ report[k].after \in OwnOrNone(k)'
        /\ UNCHANGED report
    BY <1>3
       DEF UpdateBegin, RInv, ReportsAreFounded, Founded, OwnOrNone, PhotosOf,
           photos
  <2>3. /\ report[k].status \in {"draft", "rejected"}
        /\ s => a # NoOne \/ report[k].after # NoOne
    BY <1>3 DEF UpdateBegin
  <2> QED
    BY <2>1, <2>2, <2>3 DEF UpdateIsFounded
<1>4. ASSUME NEW k \in Keys, DecideBegin(j, k)
      PROVE  job'[j].op = "decide" /\ DecideIsFounded(j)'
  <2> DEFINE s == segment[Site[k[2]]]
  <2>1. job'[j] = [op |-> "decide", key |-> k, hours |-> hours[k[1]],
                   segment |-> s]
    BY <1>4 DEF DecideBegin, RInv, ReportsTypeOK
  <2>2. Site[k[2]] \in Segments
    BY ReportsAssumption DEF Keys
  <2>3. s.status # "clean" => s.lowered = 0
    BY <2>2 DEF RInv, FactorsLoweredOnce
  <2>4. report'[k].status \in Submitted
    BY <1>4 DEF DecideBegin, Submitted
  <2> HIDE DEF s
  <2> QED
    BY <2>1, <2>3, <2>4 DEF DecideIsFounded
<1> QED
  BY <1>1, <1>2, <1>3, <1>4 DEF BeginStep

LEMMA JobsFoundedNext ==
  ASSUME RInv, [ReportsNext]_vars, FactsGrow, PhotosGrow, ReportsGrow
  PROVE  JobsAreFounded'
<1> SUFFICES ASSUME NEW j \in Jobs
             PROVE  /\ job'[j].op = "create" => CreateIsFounded(j)'
                    /\ job'[j].op = "update" => UpdateIsFounded(j)'
                    /\ job'[j].op = "decide" => DecideIsFounded(j)'
  BY UploadsNext DEF JobsAreFounded
<1>1. CASE job'[j] = job[j]
  BY <1>1, ClaimsStay
<1>2. CASE Done(job'[j])
  BY <1>2 DEF Done
<1>3. CASE BeginStep(j)
  BY <1>3, BegunIsFounded
<1> QED
  BY <1>1, <1>2, <1>3, SlotStepOfReports

LEMMA RInvNext == RInv /\ [ReportsNext]_vars => RInv'
<1> SUFFICES ASSUME RInv, [ReportsNext]_vars PROVE RInv'
  OBVIOUS
<1>1. ReportsTypeOK' /\ FactsGrow /\ LoadedAreKept'
  BY ReportsTypeNext, FactsStep, LoadedAreKeptNext DEF RInv
<1>2. PhotosGrow /\ PhotosAreOnDisk' /\ ReportsGrow
  BY PhotosStep, ReportsStep
<1>3. ReportsAreFounded' /\ JobsAreFounded' /\ FactorsLoweredOnce'
  BY <1>1, <1>2, FoundedNext, JobsFoundedNext, FactorsNext
<1> QED
  BY <1>1, <1>2, <1>3 DEF RInv

LEMMA ReportsInvariance == ReportsSpec => []RInv
BY RInvInit, RInvNext, PTL DEF ReportsSpec

-----------------------------------------------------------------------------
(* With reports and their decisions in the system too, no step takes back  *)
(* an enrolment, a briefing, an attendance or a signature, and nobody is a *)
(* student or a minor again.                                               *)
THEOREM FactsStayWithReports == ReportsSpec => [][FactsGrow]_vars
<1>1. RInv /\ [ReportsNext]_vars => [FactsGrow]_vars
  BY FactsStep DEF RInv
<1> QED
  BY <1>1, ReportsInvariance, PTL DEF ReportsSpec

(* Whoever has a report has an enrolment and is admitted to the territory, *)
(* however long ago the request that created it checked this.              *)
THEOREM OnlyAdmittedReport == ReportsSpec => []ReportsAreFromAdmitted
<1>1. RInv => ReportsAreFromAdmitted
  BY DEF RInv, ReportsAreFounded, Founded, Standing, ReportsAreFromAdmitted
<1> QED
  BY <1>1, ReportsInvariance, PTL

(* A submitted report has two photos of its author that are on the disk,   *)
(* and its author's attendance is recorded.                                *)
THEOREM WhatIsDecidedIsComplete == ReportsSpec => []SubmittedIsComplete
<1>1. RInv => SubmittedIsComplete
  <2> SUFFICES ASSUME RInv, NEW k \in Keys, report[k].status \in Submitted
               PROVE  /\ {report[k].before, report[k].after}
                           \subseteq PhotosOf(k[1]) \cap files
                      /\ enrollment[k].attended
    BY DEF SubmittedIsComplete, Submitted
  <2>1. /\ report[k].before \in PhotosOf(k[1])
        /\ report[k].after \in PhotosOf(k[1])
        /\ enrollment[k].attended
    BY DEF RInv, ReportsAreFounded, Founded, OwnOrNone, Submitted
  <2>2. PhotosOf(k[1]) \subseteq files
    BY ReportsAssumption DEF RInv, PhotosAreOnDisk, PhotosOf, Keys
  <2> QED
    BY <2>1, <2>2
<1> QED
  BY <1>1, ReportsInvariance, PTL

(* A segment's factors are lowered by the first approval and by no other.  *)
THEOREM CleanedOnce == ReportsSpec => []FactorsLoweredOnce
<1>1. RInv => FactorsLoweredOnce
  BY DEF RInv
<1> QED
  BY <1>1, ReportsInvariance, PTL

-----------------------------------------------------------------------------
(* Decisions.  With row locks, who is about to decide holds the report's   *)
(* row, so that the submission it read as pending is still pending.        *)

LocksAreHeld ==
  \A j \in Jobs : job[j].op = "decide" =>
    rowLock[job[j].key] = j /\ report[job[j].key].status = "pending"

(* A pending submission is one more than the decisions so far. *)
SubmissionsAreCounted ==
  \A k \in Keys : /\ Len(audit[k]) <= submits[k]
                  /\ report[k].status = "pending" => Len(audit[k]) < submits[k]

DInv == LocksAreHeld /\ SubmissionsAreCounted

LEMMA DInvInit == ReportsInit => DInv
<1> SUFFICES ASSUME ReportsInit PROVE DInv
  OBVIOUS
<1>1. LocksAreHeld
  BY DEF ReportsInit, LocksAreHeld, Free
<1>2. \A k \in Keys : Len(audit[k]) = 0 /\ submits[k] = 0
                      /\ report[k].status # "pending"
  BY DEF ReportsInit, NoReport
<1> QED
  BY <1>1, <1>2 DEF DInv, SubmissionsAreCounted

(* Nobody else decides, edits or locks a report that is being decided.     *)
LEMMA LockedIsUntouched ==
  ASSUME RowLocks, RInv, DInv, [ReportsNext]_vars, NEW j \in Jobs,
         job[j].op = "decide", job'[j] = job[j]
  PROVE  /\ rowLock'[job[j].key] = j
         /\ report'[job[j].key].status = "pending"
<1> DEFINE k == job[j].key
<1>1. k \in Keys /\ rowLock[k] = j /\ report[k].status = "pending"
  BY JobTypes DEF RInv, DecideJob, DInv, LocksAreHeld
<1>2. j # NoOne
  BY ReportsAssumption
<1>3. ASSUME NEW i \in Jobs, NEW rest, Committed(i, rest), rest # job[i]
      PROVE  rowLock'[k] = j
  <2>1. i # j
    BY <1>3 DEF Committed, RInv, ReportsTypeOK
  <2> QED
    BY <1>1, <1>3, <2>1 DEF Committed
<1>4. ASSUME NEW i \in Jobs, CreateCommit(i)
      PROVE  rowLock'[k] = j /\ report'[k] = report[k]
  <2>1. rowLock'[k] = j
    BY <1>3, <1>4 DEF CreateCommit, EndJob, Free
  <2>2. report'[k] = report[k]
    BY <1>1, <1>4 DEF CreateCommit, RInv, ReportsTypeOK
  <2> QED
    BY <2>1, <2>2
<1>5. ASSUME NEW i \in Jobs, UpdateCommit(i)
      PROVE  rowLock'[k] = j /\ report'[k] = report[k]
  <2>1. rowLock'[k] = j
    BY <1>3, <1>5 DEF UpdateCommit, EndJob, Free
  <2>2. job[i].key # k
    BY <1>1, <1>2, <1>5 DEF UpdateCommit
  <2>3. report'[k] = report[k]
    BY <1>1, <1>5, <2>2 DEF UpdateCommit, RInv, ReportsTypeOK
  <2> QED
    BY <2>1, <2>3
<1>6. ASSUME NEW i \in Jobs, NEW a \in BOOLEAN, Decided(i, a)
      PROVE  rowLock'[k] = j /\ report'[k] = report[k]
  <2>1. job[i].op = "decide" /\ job'[i].op = "decided"
    BY <1>6 DEF Decided, Committed, RInv, ReportsTypeOK
  <2>2. i # j
    BY <2>1
  <2>3. rowLock'[k] = j
    BY <1>1, <1>6, <2>2 DEF Decided, Committed
  <2>4. job[i].key # k
    BY <1>1, <2>1, <2>2 DEF DInv, LocksAreHeld
  <2>5. report'[k] = report[k]
    BY <1>1, <1>6, <2>4 DEF Decided, RInv, ReportsTypeOK
  <2> QED
    BY <2>3, <2>5
<1>7. ASSUME NEW i \in Jobs, EndJob(i), job[i] # Free, UNCHANGED report
      PROVE  rowLock'[k] = j /\ report'[k] = report[k]
  BY <1>3, <1>7 DEF EndJob
<1>8. ASSUME NEW i \in Jobs, NEW q \in Keys, DecideBegin(i, q)
      PROVE  rowLock'[k] = j /\ report'[k] = report[k]
  BY <1>1, <1>2, <1>8 DEF DecideBegin, RInv, ReportsTypeOK
<1>9. ASSUME NEW i \in Jobs, UploadCommit(i) \/ AbortJob(i) \/ Answered(i)
      PROVE  rowLock'[k] = j /\ report'[k] = report[k]
  <2>1. EndJob(i) /\ job[i] # Free /\ UNCHANGED report
    BY <1>9 DEF UploadCommit, AbortJob, Answered, Free
  <2> QED
    BY <1>7, <2>1
<1>10. ASSUME UNCHANGED <<rowLock, report>>
       PROVE  rowLock'[k] = j /\ report'[k] = report[k]
  BY <1>1, <1>10
<1> HIDE DEF k
<1>11. rowLock'[k] = j /\ report'[k] = report[k]
  <2>1. ASSUME NEW i \in Jobs, Approve(i) \/ Reject(i)
        PROVE  rowLock'[k] = j /\ report'[k] = report[k]
    BY <1>6, <2>1 DEF Approve, Reject
  <2>2. ASSUME NEW i \in Jobs,
               \/ \E u \in Users, f \in Photos : UploadBegin(i, u, f)
               \/ \E q \in Keys, f \in Photos : CreateBegin(i, q, f)
               \/ \E q \in Keys, a \in Photos \cup {NoOne}, s \in BOOLEAN :
                    UpdateBegin(i, q, a, s)
        PROVE  UNCHANGED <<rowLock, report>>
    BY <2>2 DEF UploadBegin, CreateBegin, UpdateBegin
  <2>3. ASSUME NEW i \in Jobs, ReportStep(i) \/ Answered(i)
        PROVE  rowLock'[k] = j /\ report'[k] = report[k]
    BY <1>4, <1>5, <1>8, <1>9, <1>10, <2>1, <2>2, <2>3 DEF ReportStep
  <2>4. \/ UNCHANGED <<rowLock, report>>
        \/ \E i \in Jobs : ReportStep(i) \/ Answered(i)
    BY DEF ReportsNext, vars, rvars
  <2> QED
    BY <1>10, <2>3, <2>4
<1> QED
  BY <1>1, <1>11 DEF k

LEMMA LocksNext ==
  ASSUME RowLocks, RInv, DInv, [ReportsNext]_vars
  PROVE  LocksAreHeld'
<1> SUFFICES ASSUME NEW j \in Jobs, job'[j].op = "decide"
             PROVE  /\ rowLock'[job'[j].key] = j
                    /\ report'[job'[j].key].status = "pending"
  BY DEF LocksAreHeld
<1>1. CASE job'[j] = job[j]
  BY <1>1, LockedIsUntouched
<1>2. CASE BeginStep(j)
  <2>1. PICK k \in Keys : DecideBegin(j, k)
    <3>1. \A u \in Users, f \in Photos : ~UploadBegin(j, u, f)
      BY DEF UploadBegin, RInv, ReportsTypeOK
    <3>2. \A k \in Keys, f \in Photos : ~CreateBegin(j, k, f)
      BY DEF CreateBegin, RInv, ReportsTypeOK
    <3>3. \A k, a, s : ~UpdateBegin(j, k, a, s)
      BY DEF UpdateBegin, RInv, ReportsTypeOK
    <3> QED
      BY <1>2, <3>1, <3>2, <3>3 DEF BeginStep
  <2>2. job'[j].key = k /\ rowLock'[k] = j /\ report'[k].status = "pending"
    BY <2>1 DEF DecideBegin, RInv, ReportsTypeOK
  <2> QED
    BY <2>2
<1> QED
  BY <1>1, <1>2, SlotStepOfReports DEF Done

LEMMA CountedNext ==
  ASSUME RowLocks, RInv, DInv, [ReportsNext]_vars
  PROVE  SubmissionsAreCounted'
<1>1. \A k \in Keys : submits[k] \in Nat /\ Len(audit[k]) \in Nat
  BY DEF RInv, ReportsTypeOK
<1>2. SubmissionsAreCounted
  BY DEF DInv
<1>3. CASE UNCHANGED <<report, submits, audit>>
  BY <1>2, <1>3 DEF SubmissionsAreCounted
<1>4. ASSUME NEW j \in Jobs, CreateCommit(j) PROVE SubmissionsAreCounted'
  <2>1. \A k \in Keys : report'[k].status = "pending" =>
                          report[k].status = "pending"
    BY <1>4, JobTypes
       DEF CreateCommit, CreateJob, RInv, ReportsTypeOK, Report
  <2>2. UNCHANGED <<submits, audit>>
    BY <1>4 DEF CreateCommit, journal
  <2> QED
    BY <1>2, <2>1, <2>2 DEF SubmissionsAreCounted
<1>5. ASSUME NEW j \in Jobs, UpdateCommit(j) PROVE SubmissionsAreCounted'
  <2> DEFINE k == job[j].key
  <2>1. k \in Keys /\ job[j].submit \in BOOLEAN
    BY <1>5, JobTypes DEF UpdateCommit, UpdateJob, RInv
  <2>2. /\ ~job[j].submit => report'[k].status = report[k].status
        /\ \A q \in Keys : q # k => report'[q] = report[q]
    <3>1. ~job[j].submit => report'[k].status = report[k].status
      BY <1>5, UpdateWrites
    <3>2. \A q \in Keys : q # k => report'[q] = report[q]
      BY <1>5 DEF UpdateCommit, RInv, ReportsTypeOK
    <3> QED
      BY <3>1, <3>2
  <2>3. /\ job[j].submit => submits' = [submits EXCEPT ![k] = @ + 1]
        /\ ~job[j].submit => submits' = submits
        /\ UNCHANGED audit
    BY <1>5 DEF UpdateCommit
  <2> HIDE DEF k
  <2>4. CASE job[j].submit
    <3>1. /\ submits'[k] = submits[k] + 1
          /\ \A q \in Keys : q # k => submits'[q] = submits[q]
      BY <2>1, <2>3, <2>4 DEF RInv, ReportsTypeOK
    <3> QED
      BY <1>1, <1>2, <2>1, <2>2, <2>3, <3>1 DEF SubmissionsAreCounted
  <2>5. CASE ~job[j].submit
    BY <1>2, <2>1, <2>2, <2>3, <2>5 DEF SubmissionsAreCounted
  <2> QED
    BY <2>1, <2>4, <2>5
<1>6. ASSUME NEW j \in Jobs, NEW a \in BOOLEAN, Decided(j, a)
      PROVE  SubmissionsAreCounted'
  <2> DEFINE k == job[j].key
             verdict == IF a THEN "approved" ELSE "rejected"
  <2>1. k \in Keys /\ report[k].status = "pending"
    BY <1>6, JobTypes DEF Decided, DecideJob, RInv, DInv, LocksAreHeld
  <2>2. /\ audit' = [audit EXCEPT ![k] = Append(@, verdict)]
        /\ report' = [report EXCEPT ![k].status = verdict]
        /\ UNCHANGED submits
        /\ verdict # "pending"
    BY <1>6 DEF Decided
  <2>3. audit[k] \in Seq(AuditActions) /\ verdict \in AuditActions
    BY <2>1 DEF RInv, ReportsTypeOK, AuditActions
  <2> HIDE DEF k, verdict
  <2>4. /\ Len(audit'[k]) = Len(audit[k]) + 1
        /\ \A q \in Keys : q # k => audit'[q] = audit[q]
    BY <2>1, <2>2, <2>3 DEF RInv, ReportsTypeOK
  <2>5. /\ report'[k].status = verdict
        /\ \A q \in Keys : q # k => report'[q] = report[q]
    <3>1. report'[k] = [report[k] EXCEPT !.status = verdict]
      BY <2>1, <2>2 DEF RInv, ReportsTypeOK
    <3>2. report[k] \in Report
      BY <2>1 DEF RInv, ReportsTypeOK
    <3>3. \A q \in Keys : q # k => report'[q] = report[q]
      BY <2>2 DEF RInv, ReportsTypeOK
    <3> QED
      BY <3>1, <3>2, <3>3 DEF Report
  <2> QED
    BY <1>1, <1>2, <2>1, <2>2, <2>4, <2>5 DEF SubmissionsAreCounted
<1> QED
  BY <1>3, <1>4, <1>5, <1>6
     DEF ReportsNext, ReportStep, UploadBegin, UploadCommit, CreateBegin,
         UpdateBegin, DecideBegin, Approve, Reject, AbortJob, Answered, vars,
         rvars, journal

(* With row locks no submission is decided twice, for any number of        *)
(* inspectors who open the same pending report at once.                    *)
THEOREM DecidedOnce == RowLocks /\ ReportsSpec => []OneDecisionPerSubmission
<1> SUFFICES ASSUME RowLocks PROVE ReportsSpec => []OneDecisionPerSubmission
  OBVIOUS
<1>1. RInv /\ DInv /\ [ReportsNext]_vars => DInv'
  BY LocksNext, CountedNext DEF DInv
<1>2. DInv => OneDecisionPerSubmission
  BY DEF DInv, SubmissionsAreCounted, OneDecisionPerSubmission
<1> QED
  BY <1>1, <1>2, DInvInit, ReportsInvariance, PTL DEF ReportsSpec

-----------------------------------------------------------------------------
(* Notices. *)

(* The steps of Notices are steps of the reports or leave them alone. *)
LEMMA NoticesStep ==
  ASSUME [NoticesNext]_allvars
  PROVE  [ReportsNext]_vars
BY DEF NoticesNext, ReportsNext, TellAuthor, TellSubscribers, Subscribe,
       Unsubscribe, allvars

(* With notices the reports are what they are without: every behaviour of  *)
(* Notices is one of FieldReports.                                         *)
THEOREM NoticesImplementReports == NoticesSpec => ReportsSpec
<1>1. NoticesInit => ReportsInit
  BY DEF NoticesInit
<1>2. [NoticesNext]_allvars => [ReportsNext]_vars
  BY NoticesStep
<1> QED
  BY <1>1, <1>2, PTL DEF NoticesSpec, ReportsSpec

(* What was proved of the reports therefore holds while notices are sent.  *)
THEOREM ReportsWithNotices ==
  NoticesSpec => [](/\ ReportsAreFromAdmitted /\ SubmittedIsComplete
                    /\ FactorsLoweredOnce
                    /\ RowLocks => OneDecisionPerSubmission)
<1>1. CASE RowLocks
  BY <1>1, NoticesImplementReports, OnlyAdmittedReport,
     WhatIsDecidedIsComplete, CleanedOnce, DecidedOnce, PTL
<1>2. CASE ~RowLocks
  BY <1>2, NoticesImplementReports, OnlyAdmittedReport,
     WhatIsDecidedIsComplete, CleanedOnce, PTL
<1> QED
  BY <1>1, <1>2

-----------------------------------------------------------------------------
(* Types *)

LEMMA NoticesTypeInit == NoticesInit => NoticesTypeOK
<1> SUFFICES ASSUME NoticesInit PROVE NoticesTypeOK
  OBVIOUS
<1>1. ReportsTypeOK
  BY ReportsTypeInit DEF NoticesInit
<1> QED
  BY <1>1 DEF NoticesInit, NoticesTypeOK

LEMMA NoticesTypeNext ==
  NoticesTypeOK /\ [NoticesNext]_allvars => NoticesTypeOK'
<1> SUFFICES ASSUME NoticesTypeOK, [NoticesNext]_allvars PROVE NoticesTypeOK'
  OBVIOUS
<1>1. ReportsTypeOK'
  BY NoticesStep, ReportsTypeNext DEF NoticesTypeOK
<1>2. CASE UNCHANGED allvars
  BY <1>1, <1>2 DEF NoticesTypeOK, allvars, nvars, vars, rvars
<1>3. CASE /\ announced' = {j \in announced : job'[j].op = "decided"}
           /\ UNCHANGED <<subscribed, told, news>>
  BY <1>1, <1>3 DEF NoticesTypeOK
<1>4. ASSUME NEW j \in Jobs, TellAuthor(j) PROVE NoticesTypeOK'
  <2>1. job[j].key \in Keys
    BY <1>4, JobTypes DEF TellAuthor, NoticesTypeOK, DecidedJob
  <2>2. told' \in [Keys -> [AuditActions -> Nat]]
    BY <1>4, <2>1 DEF TellAuthor, NoticesTypeOK, AuditActions
  <2>3. announced' \subseteq {i \in Jobs : job'[i].op = "decided"}
    BY <1>4 DEF TellAuthor, NoticesTypeOK, vars, rvars
  <2> QED
    BY <1>1, <1>4, <2>2, <2>3 DEF TellAuthor, NoticesTypeOK
<1>5. ASSUME NEW j \in Jobs, TellSubscribers(j) PROVE NoticesTypeOK'
  <2>1. news' \in [Places -> Nat]
    BY <1>5 DEF TellSubscribers, NoticesTypeOK
  <2>2. \A i \in Jobs : i # j => job'[i] = job[i]
    BY <1>5, CommittedTypes
       DEF TellSubscribers, Answered, EndJob, Committed, NoticesTypeOK,
           ReportsTypeOK
  <2>3. announced' \subseteq {i \in Jobs : job'[i].op = "decided"}
    BY <1>5, <2>2 DEF TellSubscribers, NoticesTypeOK
  <2> QED
    BY <1>1, <1>5, <2>1, <2>3 DEF TellSubscribers, NoticesTypeOK
<1>6. ASSUME NEW p \in Places, Subscribe(p) \/ Unsubscribe(p)
      PROVE  NoticesTypeOK'
  <2>1. UNCHANGED <<job, told, news, announced>>
    BY <1>6 DEF Subscribe, Unsubscribe, vars, rvars
  <2>2. subscribed' \subseteq Places
    BY <1>6 DEF Subscribe, Unsubscribe, NoticesTypeOK
  <2> QED
    BY <1>1, <2>1, <2>2 DEF NoticesTypeOK
<1> QED
  BY <1>2, <1>3, <1>4, <1>5, <1>6 DEF NoticesNext

(* The types of the subscriptions and of the notices sent hold in every    *)
(* state, with those of the reports and of the enrolment.                  *)
THEOREM NoticesTypeCorrect == NoticesSpec => []NoticesTypeOK
BY NoticesTypeInit, NoticesTypeNext, PTL DEF NoticesSpec

-----------------------------------------------------------------------------
(* The inductive invariant counts the notices that may still be sent: for  *)
(* an author the decisions of which he was not told, for a subscriber the  *)
(* approvals whose request has not answered.  Both were committed, so the  *)
(* journal holds an entry for each on top of those already told.           *)

Verdict(t) == IF t.approved THEN "approved" ELSE "rejected"
Untold(k, a) ==
  {j \in Jobs : /\ job[j].op = "decided" /\ job[j].key = k
                /\ Verdict(job[j]) = a /\ j \notin announced}
Unanswered(s) ==
  {j \in Jobs : /\ job[j].op = "decided" /\ job[j].approved
                /\ Site[job[j].key[2]] = s}

AuthorsAreOwed ==
  \A k \in Keys, a \in AuditActions :
    /\ IsFiniteSet(Entries(k, a))
    /\ told[k][a] + Cardinality(Untold(k, a)) <= Cardinality(Entries(k, a))
SubscribersAreOwed ==
  \A p \in Places :
    /\ IsFiniteSet(Approvals(p[2]))
    /\ news[p] + Cardinality(Unanswered(p[2])) <= Cardinality(Approvals(p[2]))

NInv == NoticesTypeOK /\ AuthorsAreOwed /\ SubscribersAreOwed

LEMMA OwedAreFinite ==
  /\ \A k, a : IsFiniteSet(Untold(k, a)) /\ Cardinality(Untold(k, a)) \in Nat
  /\ \A s : IsFiniteSet(Unanswered(s)) /\ Cardinality(Unanswered(s)) \in Nat
<1>1. ASSUME NEW T \in SUBSET Jobs
      PROVE  IsFiniteSet(T) /\ Cardinality(T) \in Nat
  BY NoticesAssumption, FS_Subset, FS_CardinalityType
<1>2. \A k, a : Untold(k, a) \in SUBSET Jobs
  BY DEF Untold
<1>3. \A s : Unanswered(s) \in SUBSET Jobs
  BY DEF Unanswered
<1> QED
  BY <1>1, <1>2, <1>3

LEMMA NInvInit == NoticesInit => NInv
<1> SUFFICES ASSUME NoticesInit PROVE NInv
  OBVIOUS
<1>1. NoticesTypeOK
  BY NoticesTypeInit
<1>2. \A k \in Keys, a \in AuditActions : Entries(k, a) = {}
  BY DEF NoticesInit, ReportsInit, Entries
<1>3. \A s : Approvals(s) = {}
  BY <1>2 DEF Approvals, AuditActions
<1>4. (\A k, a : Untold(k, a) = {}) /\ (\A s : Unanswered(s) = {})
  BY DEF NoticesInit, ReportsInit, Untold, Unanswered, Free
<1>5. /\ \A k \in Keys, a \in AuditActions : told[k][a] = 0
      /\ \A p \in Places : news[p] = 0
  BY DEF NoticesInit
<1>6. AuthorsAreOwed
  BY <1>2, <1>4, <1>5, FS_EmptySet DEF AuthorsAreOwed
<1>7. SubscribersAreOwed
  BY <1>3, <1>4, <1>5, FS_EmptySet DEF SubscribersAreOwed
<1> QED
  BY <1>1, <1>6, <1>7 DEF NInv

(* A decision adds one entry to the journal, of its report and its kind.   *)
LEMMA DecisionEntry ==
  ASSUME NoticesTypeOK, NEW j \in Jobs, NEW b \in BOOLEAN, Decided(j, b),
         NEW k, k = job[j].key, NEW v, v = IF b THEN "approved" ELSE "rejected"
  PROVE  /\ k \in Keys /\ v \in AuditActions
         /\ job'[j] = [op |-> "decided", key |-> k, approved |-> b]
         /\ \A i \in Jobs : i # j => job'[i] = job[i]
         /\ Len(audit[k]) + 1 \notin DOMAIN audit[k]
         /\ Entries(k, v)' = Entries(k, v) \cup {Len(audit[k]) + 1}
         /\ \A q \in Keys, a \in AuditActions :
              q # k \/ a # v => Entries(q, a)' = Entries(q, a)
<1>1. k \in Keys
  BY JobTypes DEF Decided, DecideJob, NoticesTypeOK
<1>2. v \in AuditActions
  BY DEF AuditActions
<1>3. /\ job'[j] = [op |-> "decided", key |-> k, approved |-> b]
      /\ \A i \in Jobs : i # j => job'[i] = job[i]
  BY DEF Decided, Committed, NoticesTypeOK, ReportsTypeOK
<1>4. /\ audit'[k] = Append(audit[k], v)
      /\ \A q \in Keys : q # k => audit'[q] = audit[q]
  BY <1>1 DEF Decided, NoticesTypeOK, ReportsTypeOK
<1>5. audit[k] \in Seq(AuditActions)
  BY <1>1 DEF NoticesTypeOK, ReportsTypeOK
<1> DEFINE n == Len(audit[k])
<1>6. /\ n \in Nat /\ DOMAIN audit[k] = 1 .. n
      /\ DOMAIN audit'[k] = 1 .. (n + 1)
      /\ \A i \in 1 .. n : audit'[k][i] = audit[k][i]
      /\ audit'[k][n + 1] = v
  BY <1>2, <1>4, <1>5
<1> HIDE DEF n
<1>7. n + 1 \notin 1 .. n /\ 1 .. (n + 1) = (1 .. n) \cup {n + 1}
  BY <1>6
<1>8. Entries(k, v)' = Entries(k, v) \cup {n + 1}
  BY <1>6, <1>7 DEF Entries
<1>9. \A a \in AuditActions : a # v => Entries(k, a)' = Entries(k, a)
  BY <1>6, <1>7 DEF Entries
<1>10. \A q \in Keys, a \in AuditActions : q # k =>
         Entries(q, a)' = Entries(q, a)
  BY <1>4 DEF Entries
<1> QED
  BY <1>1, <1>2, <1>3, <1>6, <1>7, <1>8, <1>9, <1>10 DEF n

LEMMA ApprovalsOf ==
  \A s, x : x \in Approvals(s) <=>
    \E k \in Keys : Site[k[2]] = s /\ \E i \in Entries(k, "approved") :
                                        x = <<k, i>>
BY DEF Approvals

LEMMA ApprovalsAfter ==
  \A s, x : x \in Approvals(s)' <=>
    \E k \in Keys : Site[k[2]] = s /\ \E i \in Entries(k, "approved")' :
                                        x = <<k, i>>
BY DEF Approvals

LEMMA OneMore ==
  ASSUME NEW S, IsFiniteSet(S), NEW x, x \notin S
  PROVE  /\ IsFiniteSet(S \cup {x})
         /\ Cardinality(S \cup {x}) = Cardinality(S) + 1
         /\ Cardinality(S) \in Nat
BY FS_AddElement, FS_CardinalityType

LEMMA OneLess ==
  ASSUME NEW S, IsFiniteSet(S), NEW x, x \in S
  PROVE  /\ Cardinality(S \ {x}) = Cardinality(S) - 1
         /\ Cardinality(S) \in Nat
BY FS_RemoveElement, FS_CardinalityType

(* A decision owes its author one notice and each subscriber at most one.  *)
LEMMA DecisionOwes ==
  ASSUME NInv, NEW j \in Jobs, NEW b \in BOOLEAN, Decided(j, b),
         announced' = {i \in announced : job'[i].op = "decided"},
         UNCHANGED <<told, news>>
  PROVE  AuthorsAreOwed' /\ SubscribersAreOwed'
<1>a. PICK k \in Keys : k = job[j].key
  BY JobTypes DEF Decided, DecideJob, NInv, NoticesTypeOK
<1>b. PICK v \in AuditActions : v = IF b THEN "approved" ELSE "rejected"
  BY DEF AuditActions
<1>c. PICK n \in Nat : n = Len(audit[k]) + 1
  BY <1>a DEF NInv, NoticesTypeOK, ReportsTypeOK
<1>1. /\ job'[j] = [op |-> "decided", key |-> k, approved |-> b]
      /\ \A i \in Jobs : i # j => job'[i] = job[i]
      /\ n \notin DOMAIN audit[k]
      /\ Entries(k, v)' = Entries(k, v) \cup {n}
      /\ \A q \in Keys, a \in AuditActions :
           q # k \/ a # v => Entries(q, a)' = Entries(q, a)
  BY <1>a, <1>b, <1>c, DecisionEntry DEF NInv
<1>2. job[j].op = "decide" /\ (v = "approved" <=> b) /\ job[j].key = k
  BY <1>a, <1>b DEF Decided
<1>3. n \notin Entries(k, v)
  BY <1>1 DEF Entries
<1>4. /\ job'[j].op = "decided" /\ job'[j].key = k /\ job'[j].approved = b
      /\ Verdict(job'[j]) = v
  BY <1>1, <1>b DEF Verdict
<1>5. j \notin announced /\ announced' = announced
  BY <1>1, <1>2 DEF NInv, NoticesTypeOK
<1>6. ASSUME NEW q \in Keys, NEW a \in AuditActions
      PROVE  /\ IsFiniteSet(Entries(q, a)')
             /\ told'[q][a] + Cardinality(Untold(q, a)') <=
                  Cardinality(Entries(q, a)')
  <2>1. /\ IsFiniteSet(Entries(q, a)) /\ IsFiniteSet(Untold(q, a))
        /\ told[q][a] + Cardinality(Untold(q, a)) <= Cardinality(Entries(q, a))
        /\ told[q][a] \in Nat
    BY OwedAreFinite DEF NInv, AuthorsAreOwed, NoticesTypeOK
  <2>2. CASE q = k /\ a = v
    <3>1. Untold(k, v)' = Untold(k, v) \cup {j} /\ j \notin Untold(k, v)
      BY <1>1, <1>2, <1>4, <1>5 DEF Untold
    <3>2. /\ IsFiniteSet(Entries(k, v) \cup {n})
          /\ Cardinality(Entries(k, v) \cup {n}) = Cardinality(Entries(k, v)) + 1
          /\ Cardinality(Entries(k, v)) \in Nat
      BY <1>3, <2>1, <2>2, OneMore
    <3>3. /\ Cardinality(Untold(k, v) \cup {j}) = Cardinality(Untold(k, v)) + 1
          /\ Cardinality(Untold(k, v)) \in Nat
      BY <2>1, <2>2, <3>1, OneMore
    <3>4. /\ Entries(q, a) = Entries(k, v) /\ Entries(q, a)' = Entries(k, v)'
          /\ Untold(q, a) = Untold(k, v) /\ Untold(q, a)' = Untold(k, v)'
      BY <2>2
    <3>5. Entries(k, v)' = Entries(k, v) \cup {n} /\ told'[q][a] = told[q][a]
      BY <1>1
    <3> QED
      BY <2>1, <3>1, <3>2, <3>3, <3>4, <3>5
  <2>3. CASE q # k \/ a # v
    <3>1. Untold(q, a)' = Untold(q, a)
      BY <1>1, <1>2, <1>4, <1>5, <2>3 DEF Untold
    <3>2. Entries(q, a)' = Entries(q, a)
      BY <1>1, <2>3
    <3> QED
      BY <2>1, <3>1, <3>2
  <2> QED
    BY <2>2, <2>3
<1>7. ASSUME NEW s, IsFiniteSet(Approvals(s)), NEW m \in Nat,
             m + Cardinality(Unanswered(s)) <= Cardinality(Approvals(s))
      PROVE  /\ IsFiniteSet(Approvals(s)')
             /\ m + Cardinality(Unanswered(s)') <= Cardinality(Approvals(s)')
  <2>1. IsFiniteSet(Unanswered(s))
    BY OwedAreFinite
  <2>2. CASE b /\ Site[k[2]] = s
    <3>1. Unanswered(s)' = Unanswered(s) \cup {j} /\ j \notin Unanswered(s)
      BY <1>1, <1>2, <1>4, <2>2 DEF Unanswered
    <3>2. <<k, n>> \notin Approvals(s)
      BY <1>2, <1>3, <2>2, ApprovalsOf
    <3>3. \A x : x \in Approvals(s)' <=> x \in Approvals(s) \/ x = <<k, n>>
      BY <1>1, <1>2, <2>2, ApprovalsOf, ApprovalsAfter DEF AuditActions
    <3>4. Approvals(s)' = Approvals(s) \cup {<<k, n>>}
      BY <3>3
    <3>5. /\ IsFiniteSet(Approvals(s) \cup {<<k, n>>})
          /\ Cardinality(Approvals(s) \cup {<<k, n>>}) =
               Cardinality(Approvals(s)) + 1
          /\ Cardinality(Approvals(s)) \in Nat
      BY <1>7, <3>2, OneMore
    <3>6. /\ Cardinality(Unanswered(s) \cup {j}) =
               Cardinality(Unanswered(s)) + 1
          /\ Cardinality(Unanswered(s)) \in Nat
      BY <2>1, <3>1, OneMore
    <3> QED
      BY <1>7, <3>1, <3>4, <3>5, <3>6
  <2>3. CASE ~(b /\ Site[k[2]] = s)
    <3>1. Unanswered(s)' = Unanswered(s)
      BY <1>1, <1>2, <1>4, <2>3 DEF Unanswered
    <3>2. \A x : x \in Approvals(s)' <=> x \in Approvals(s)
      BY <1>1, <1>2, <2>3, ApprovalsOf, ApprovalsAfter DEF AuditActions
    <3>3. Approvals(s)' = Approvals(s)
      BY <3>2
    <3> QED
      BY <1>7, <3>1, <3>3
  <2> QED
    BY <2>2, <2>3
<1>8. AuthorsAreOwed'
  BY <1>6 DEF AuthorsAreOwed
<1>9. SubscribersAreOwed'
  BY <1>7 DEF SubscribersAreOwed, NInv, NoticesTypeOK
<1> QED
  BY <1>8, <1>9

(* Without a decision nobody is owed more, and who is told is owed less. *)
NothingDecided ==
  /\ UNCHANGED audit
  /\ \A i \in Jobs : job'[i].op = "decided" => job'[i] = job[i]

LEMMA Fewer ==
  ASSUME NEW S, IsFiniteSet(S), NEW T \in SUBSET S
  PROVE  /\ Cardinality(T) <= Cardinality(S)
         /\ Cardinality(T) \in Nat /\ Cardinality(S) \in Nat
BY FS_Subset, FS_CardinalityType

LEMMA SameJournal ==
  ASSUME UNCHANGED audit
  PROVE  /\ \A k, a : Entries(k, a)' = Entries(k, a)
         /\ \A s : Approvals(s)' = Approvals(s)
BY DEF Entries, Approvals

LEMMA EntriesAreCounted ==
  ASSUME NInv
  PROVE  /\ \A k \in Keys, a \in AuditActions :
              Cardinality(Entries(k, a)) \in Nat /\ told[k][a] \in Nat
         /\ \A p \in Places :
              Cardinality(Approvals(p[2])) \in Nat /\ news[p] \in Nat
BY FS_CardinalityType
   DEF NInv, AuthorsAreOwed, SubscribersAreOwed, NoticesTypeOK

LEMMA QuietOwes ==
  ASSUME NInv, NothingDecided,
         announced' = {i \in announced : job'[i].op = "decided"},
         UNCHANGED <<told, news>>
  PROVE  AuthorsAreOwed' /\ SubscribersAreOwed'
<1>1. ASSUME NEW k \in Keys, NEW a \in AuditActions
      PROVE  /\ IsFiniteSet(Entries(k, a)')
             /\ told'[k][a] + Cardinality(Untold(k, a)') <=
                  Cardinality(Entries(k, a)')
  <2>1. Untold(k, a)' \subseteq Untold(k, a)
    BY DEF Untold, NothingDecided
  <2>2. /\ Cardinality(Untold(k, a)') <= Cardinality(Untold(k, a))
        /\ Cardinality(Untold(k, a)') \in Nat
        /\ Cardinality(Untold(k, a)) \in Nat
    BY <2>1, OwedAreFinite, Fewer
  <2>3. Entries(k, a)' = Entries(k, a)
    BY SameJournal DEF NothingDecided
  <2>4. /\ IsFiniteSet(Entries(k, a))
        /\ told[k][a] + Cardinality(Untold(k, a)) <= Cardinality(Entries(k, a))
    BY DEF NInv, AuthorsAreOwed
  <2> QED
    BY <2>2, <2>3, <2>4, EntriesAreCounted
<1>2. ASSUME NEW p \in Places
      PROVE  /\ IsFiniteSet(Approvals(p[2])')
             /\ news'[p] + Cardinality(Unanswered(p[2])') <=
                  Cardinality(Approvals(p[2])')
  <2>1. Unanswered(p[2])' \subseteq Unanswered(p[2])
    BY DEF Unanswered, NothingDecided
  <2>2. /\ Cardinality(Unanswered(p[2])') <= Cardinality(Unanswered(p[2]))
        /\ Cardinality(Unanswered(p[2])') \in Nat
        /\ Cardinality(Unanswered(p[2])) \in Nat
    BY <2>1, OwedAreFinite, Fewer
  <2>3. Approvals(p[2])' = Approvals(p[2])
    BY SameJournal DEF NothingDecided
  <2>4. /\ IsFiniteSet(Approvals(p[2]))
        /\ news[p] + Cardinality(Unanswered(p[2])) <=
             Cardinality(Approvals(p[2]))
    BY DEF NInv, SubscribersAreOwed
  <2> QED
    BY <2>2, <2>3, <2>4, EntriesAreCounted
<1> QED
  BY <1>1, <1>2 DEF AuthorsAreOwed, SubscribersAreOwed

LEMMA AuthorOwes ==
  ASSUME NInv, NEW j \in Jobs, TellAuthor(j)
  PROVE  AuthorsAreOwed' /\ SubscribersAreOwed'
<1>1. PICK k \in Keys : k = job[j].key
  BY JobTypes DEF TellAuthor, DecidedJob, NInv, NoticesTypeOK
<1>2. PICK v \in AuditActions : v = Verdict(job[j])
  BY DEF Verdict, AuditActions
<1>3. /\ told' = [told EXCEPT ![k][v] = @ + 1]
      /\ announced' = announced \cup {j}
      /\ job[j].op = "decided" /\ j \notin announced
      /\ UNCHANGED <<job, audit, news>>
  BY <1>1, <1>2 DEF TellAuthor, Verdict, vars, rvars, journal
<1>4. ASSUME NEW q \in Keys, NEW a \in AuditActions
      PROVE  /\ IsFiniteSet(Entries(q, a)')
             /\ told'[q][a] + Cardinality(Untold(q, a)') <=
                  Cardinality(Entries(q, a)')
  <2>1. /\ IsFiniteSet(Entries(q, a)) /\ IsFiniteSet(Untold(q, a))
        /\ told[q][a] + Cardinality(Untold(q, a)) <= Cardinality(Entries(q, a))
        /\ Entries(q, a)' = Entries(q, a)
        /\ told[q][a] \in Nat /\ Cardinality(Entries(q, a)) \in Nat
    BY <1>3, OwedAreFinite, SameJournal, EntriesAreCounted
       DEF NInv, AuthorsAreOwed
  <2>2. CASE q = k /\ a = v
    <3>1. told'[q][a] = told[q][a] + 1
      BY <1>3, <2>2 DEF NInv, NoticesTypeOK
    <3>2. Untold(q, a)' = Untold(q, a) \ {j} /\ j \in Untold(q, a)
      BY <1>1, <1>2, <1>3, <2>2 DEF Untold, Verdict
    <3>3. /\ Cardinality(Untold(q, a) \ {j}) = Cardinality(Untold(q, a)) - 1
          /\ Cardinality(Untold(q, a)) \in Nat
      BY <2>1, <3>2, OneLess
    <3> QED
      BY <2>1, <3>1, <3>2, <3>3
  <2>3. CASE q # k \/ a # v
    <3>1. told'[q][a] = told[q][a]
      BY <1>3, <2>3 DEF NInv, NoticesTypeOK
    <3>2. Untold(q, a)' = Untold(q, a)
      BY <1>1, <1>2, <1>3, <2>3 DEF Untold, Verdict
    <3> QED
      BY <2>1, <3>1, <3>2
  <2> QED
    BY <2>2, <2>3
<1>5. /\ \A s : Approvals(s)' = Approvals(s)
      /\ \A s : Unanswered(s)' = Unanswered(s)
  BY <1>3, SameJournal DEF Unanswered
<1> QED
  BY <1>3, <1>4, <1>5 DEF AuthorsAreOwed, SubscribersAreOwed, NInv

LEMMA SubscribersOwe ==
  ASSUME NInv, NEW j \in Jobs, TellSubscribers(j)
  PROVE  AuthorsAreOwed' /\ SubscribersAreOwed'
<1>1. /\ j \in announced /\ job[j].op = "decided"
      /\ announced' = announced \ {j}
      /\ job'[j] = Free /\ (\A i \in Jobs : i # j => job'[i] = job[i])
      /\ UNCHANGED <<audit, told>>
  BY DEF TellSubscribers, Answered, EndJob, Committed, NInv, NoticesTypeOK,
         ReportsTypeOK, journal
<1>2. \A k, a : Untold(k, a)' = Untold(k, a)
  BY <1>1 DEF Untold, Free
<1>3. AuthorsAreOwed'
  BY <1>1, <1>2, SameJournal DEF AuthorsAreOwed, NInv
<1>4. ASSUME NEW p \in Places
      PROVE  /\ IsFiniteSet(Approvals(p[2])')
             /\ news'[p] + Cardinality(Unanswered(p[2])') <=
                  Cardinality(Approvals(p[2])')
  <2>1. /\ IsFiniteSet(Approvals(p[2])) /\ IsFiniteSet(Unanswered(p[2]))
        /\ news[p] + Cardinality(Unanswered(p[2])) <=
             Cardinality(Approvals(p[2]))
        /\ Approvals(p[2])' = Approvals(p[2])
        /\ news[p] \in Nat /\ Cardinality(Approvals(p[2])) \in Nat
    BY <1>1, OwedAreFinite, SameJournal, EntriesAreCounted
       DEF NInv, SubscribersAreOwed
  <2>2. CASE job[j].approved /\ Site[job[j].key[2]] = p[2]
    <3>1. news'[p] = news[p] + 1 \/ news'[p] = news[p]
      BY DEF TellSubscribers
    <3>2. /\ Unanswered(p[2])' = Unanswered(p[2]) \ {j}
          /\ j \in Unanswered(p[2])
      BY <1>1, <2>2 DEF Unanswered, Free
    <3>3. /\ Cardinality(Unanswered(p[2]) \ {j}) =
               Cardinality(Unanswered(p[2])) - 1
          /\ Cardinality(Unanswered(p[2])) \in Nat
      BY <2>1, <3>2, OneLess
    <3> QED
      BY <2>1, <3>1, <3>2, <3>3
  <2>3. CASE ~(job[j].approved /\ Site[job[j].key[2]] = p[2])
    <3>1. news'[p] = news[p]
      BY <2>3 DEF TellSubscribers
    <3>2. Unanswered(p[2])' = Unanswered(p[2])
      BY <1>1, <2>3 DEF Unanswered, Free
    <3> QED
      BY <2>1, <3>1, <3>2
  <2> QED
    BY <2>2, <2>3
<1> QED
  BY <1>3, <1>4 DEF SubscribersAreOwed

-----------------------------------------------------------------------------
(* Any other step of the reports. *)
LEMMA NothingElseDecides ==
  ASSUME NoticesTypeOK, NEW j \in Jobs, ReportStep(j),
         ~Approve(j), ~Reject(j)
  PROVE  NothingDecided
<1>1. ASSUME NEW t, t.op # "decided", job' = [job EXCEPT ![j] = t]
      PROVE  \A i \in Jobs : job'[i].op = "decided" => job'[i] = job[i]
  BY <1>1 DEF NoticesTypeOK, ReportsTypeOK
<1>2. EndJob(j) => \A i \in Jobs : job'[i].op = "decided" => job'[i] = job[i]
  BY DEF EndJob, Committed, Free, NoticesTypeOK, ReportsTypeOK
<1>3. ASSUME NEW u \in Users, NEW f \in Photos, UploadBegin(j, u, f)
      PROVE  NothingDecided
  BY <1>3, <1>1 DEF UploadBegin, NothingDecided, journal
<1>4. ASSUME NEW k \in Keys, NEW f \in Photos, CreateBegin(j, k, f)
      PROVE  NothingDecided
  BY <1>4, <1>1 DEF CreateBegin, NothingDecided, journal
<1>5. ASSUME NEW k \in Keys, NEW a, NEW s, UpdateBegin(j, k, a, s)
      PROVE  NothingDecided
  BY <1>5, <1>1 DEF UpdateBegin, NothingDecided, journal
<1>6. ASSUME NEW k \in Keys, DecideBegin(j, k) PROVE NothingDecided
  BY <1>6, <1>1 DEF DecideBegin, NothingDecided, journal
<1>7. CASE \/ UploadCommit(j) \/ CreateCommit(j) \/ UpdateCommit(j)
           \/ AbortJob(j)
  BY <1>7, <1>2
     DEF UploadCommit, CreateCommit, UpdateCommit, AbortJob, NothingDecided,
         journal
<1> QED
  BY <1>3, <1>4, <1>5, <1>6, <1>7 DEF ReportStep

LEMMA NInvNext == NInv /\ [NoticesNext]_allvars => NInv'
<1> SUFFICES ASSUME NInv, [NoticesNext]_allvars
             PROVE  AuthorsAreOwed' /\ SubscribersAreOwed'
  BY NoticesTypeNext DEF NInv
<1>1. ASSUME UNCHANGED <<job, audit, told, news, announced>>
      PROVE  AuthorsAreOwed' /\ SubscribersAreOwed'
  <2>1. NothingDecided /\ announced' = {i \in announced : job'[i].op = "decided"}
    BY <1>1 DEF NothingDecided, NInv, NoticesTypeOK
  <2> QED
    BY <1>1, <2>1, QuietOwes
<1>2. ASSUME NEW j \in Jobs, ReportStep(j),
             announced' = {i \in announced : job'[i].op = "decided"},
             UNCHANGED <<told, news>>
      PROVE  AuthorsAreOwed' /\ SubscribersAreOwed'
  <2>1. CASE Approve(j) \/ Reject(j)
    BY <1>2, <2>1, DecisionOwes DEF Approve, Reject
  <2>2. CASE ~Approve(j) /\ ~Reject(j)
    BY <1>2, <2>2, NothingElseDecides, QuietOwes DEF NInv
  <2> QED
    BY <2>1, <2>2
<1>3. ASSUME UNCHANGED rvars,
             announced' = {i \in announced : job'[i].op = "decided"},
             UNCHANGED <<told, news>>
      PROVE  AuthorsAreOwed' /\ SubscribersAreOwed'
  <2>1. NothingDecided
    BY <1>3 DEF NothingDecided, rvars, journal
  <2> QED
    BY <1>3, <2>1, QuietOwes
<1>4. ASSUME NEW p \in Places, Subscribe(p) \/ Unsubscribe(p)
      PROVE  UNCHANGED <<job, audit, told, news, announced>>
  BY <1>4 DEF Subscribe, Unsubscribe, vars, rvars, journal
<1>5. CASE UNCHANGED allvars
  BY <1>1, <1>5 DEF allvars, nvars, vars, rvars, journal
<1> QED
  BY <1>1, <1>2, <1>3, <1>4, <1>5, AuthorOwes, SubscribersOwe
     DEF NoticesNext

(* Nobody is told of a decision that the journal does not hold, nor twice. *)
THEOREM NoticesTellTheTruth == NoticesSpec => []NoticesAreTrue
<1>1. NInv => NoticesAreTrue
  <2> SUFFICES ASSUME NInv PROVE NoticesAreTrue
    OBVIOUS
  <2>1. \A k \in Keys, a \in AuditActions :
          told[k][a] <= Cardinality(Entries(k, a))
    BY OwedAreFinite, EntriesAreCounted DEF NInv, AuthorsAreOwed
  <2>2. \A p \in Places : news[p] <= Cardinality(Approvals(p[2]))
    BY OwedAreFinite, EntriesAreCounted DEF NInv, SubscribersAreOwed
  <2> QED
    BY <2>1, <2>2 DEF NoticesAreTrue
<1> QED
  BY <1>1, NInvInit, NInvNext, PTL DEF NoticesSpec
=============================================================================
