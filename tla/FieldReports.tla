----------------------------- MODULE FieldReports -----------------------------
(***************************************************************************)
(* Field reports, from the volunteer's draft to the inspector's decision:  *)
(* backend/app/api/v1/reports.py with the photos it keeps, and             *)
(* decide_report of moderation.py, on top of the enrolment they depend on. *)
(***************************************************************************)
EXTENDS Enrollment, Sequences, FiniteSetsExt

CONSTANTS Segments,
          Site,         \* the segment of an event
          Photos,       \* photos, each uploaded at most once
          Jobs,         \* slots for report requests in flight
          MaxSubmits    \* bound: submissions of all reports

ASSUME ReportsAssumption ==
  /\ Site \in [Events -> Segments]
  /\ MaxSubmits \in Nat
  /\ NoOne \notin Photos \cup Jobs \cup Users

VARIABLES files,       \* photos written to MEDIA_ROOT
          media,       \* table media: by photo, its owner, or NoOne
          report,      \* table field_reports, by <<user, event>>
          hours,       \* User.volunteer_hours
          segment,     \* status, and how often apply_cleanup lowered factors
          rowLock,     \* by report, the request that holds its row
          job,         \* by slot, the request in flight and what it loaded
          submits,     \* history: submissions of each report
          audit        \* table audit_log: the decisions on each report

photos == <<files, media>>
journal == <<submits, audit>>
rvars == <<photos, report, hours, segment, rowLock, job, journal>>
vars == <<evars, rvars>>

HoursPerReport == 4   \* VOLUNTEER_HOURS_PER_REPORT

ReportStatus == {"absent", "draft", "pending", "approved", "rejected"}
Report == [status: ReportStatus, before: Photos \cup {NoOne},
           after: Photos \cup {NoOne}]
NoReport == [status |-> "absent", before |-> NoOne, after |-> NoOne]
SegmentRow == [status: {"work", "clean"}, lowered: Nat]

Free == [op |-> "free"]
UploadJob == [op: {"upload"}, owner: Users, photo: Photos]
CreateJob == [op: {"create"}, key: Keys, before: Photos]
UpdateJob == [op: {"update"}, key: Keys, row: Report,
              after: Photos \cup {NoOne}, submit: BOOLEAN]
DecideJob == [op: {"decide"}, key: Keys, hours: Nat, segment: SegmentRow]
DecidedJob == [op: {"decided"}, key: Keys, approved: BOOLEAN]
AuditActions == {"approved", "rejected"}

ReportsTypeOK ==
  /\ TypeOK
  /\ files \subseteq Photos
  /\ media \in [Photos -> Users \cup {NoOne}]
  /\ report \in [Keys -> Report]
  /\ hours \in [Users -> Nat]
  /\ segment \in [Segments -> SegmentRow]
  /\ rowLock \in [Keys -> Jobs \cup {NoOne}]
  /\ job \in [Jobs -> {Free} \cup UploadJob \cup CreateJob \cup UpdateJob
                          \cup DecideJob \cup DecidedJob]
  /\ submits \in [Keys -> Nat]
  /\ audit \in [Keys -> Seq(AuditActions)]

ReportsInit ==
  /\ Init
  /\ files = {}
  /\ media = [f \in Photos |-> NoOne]
  /\ report = [k \in Keys |-> NoReport]
  /\ hours = [u \in Users |-> 0]
  /\ segment = [s \in Segments |-> [status |-> "work", lowered |-> 0]]
  /\ rowLock = [k \in Keys |-> NoOne]
  /\ job = [j \in Jobs |-> Free]
  /\ submits = [k \in Keys |-> 0]
  /\ audit = [k \in Keys |-> <<>>]

-----------------------------------------------------------------------------
(* The commit frees the row lock; the handler goes on as "rest". *)
Committed(j, rest) ==
  /\ job' = [job EXCEPT ![j] = rest]
  /\ rowLock' = [k \in Keys |-> IF rowLock[k] = j THEN NoOne ELSE rowLock[k]]
EndJob(j) == Committed(j, Free)

(* A failure: what was not committed is rolled back, but a file stays.     *)
AbortJob(j) ==
  /\ job[j] # Free
  /\ EndJob(j)
  /\ UNCHANGED <<evars, photos, report, hours, segment, journal>>

-----------------------------------------------------------------------------
(* POST /media/upload: the file is on the disk before its row is inserted. *)
UploadBegin(j, u, f) ==
  /\ job[j] = Free
  /\ f \notin files
  /\ files' = files \cup {f}
  /\ job' = [job EXCEPT ![j] = [op |-> "upload", owner |-> u, photo |-> f]]
  /\ UNCHANGED <<evars, media, report, hours, segment, rowLock, journal>>

UploadCommit(j) ==
  /\ job[j].op = "upload"
  /\ media' = [media EXCEPT ![job[j].photo] = job[j].owner]
  /\ EndJob(j)
  /\ UNCHANGED <<evars, files, report, hours, segment, journal>>

PhotosOf(u) == {f \in Photos : media[f] = u}

-----------------------------------------------------------------------------
(* The report of the volunteer. *)

(* Mutant: enrolled, but perhaps not admitted. *)
CreateUnadmitted(j, k, before) ==
  /\ job[j] = Free
  /\ k[1] \notin student
  /\ enrollment[k].status # "absent"
  /\ before \in PhotosOf(k[1])
  /\ job' = [job EXCEPT ![j] = [op |-> "create", key |-> k, before |-> before]]
  /\ UNCHANGED <<evars, photos, report, hours, segment, rowLock, journal>>

(* POST /reports: enrolled, admitted by the facts of this moment, with a   *)
(* photo of one's own.                                                     *)
CreateBegin(j, k, before) ==
  /\ job[j] = Free
  /\ k[1] \notin student
  /\ enrollment[k].status # "absent"
  /\ IsAdmitted(k[1], enrollment[k], consent[k])
  /\ before \in PhotosOf(k[1])
  /\ job' = [job EXCEPT ![j] = [op |-> "create", key |-> k, before |-> before]]
  /\ UNCHANGED <<evars, photos, report, hours, segment, rowLock, journal>>

(* The unique key one_report_per_event answers a second draft with 409. *)
CreateCommit(j) ==
  LET k == job[j].key
  IN /\ job[j].op = "create"
     /\ report' = IF report[k].status = "absent"
                  THEN [report EXCEPT ![k].status = "draft",
                                      ![k].before = job[j].before]
                  ELSE report
     /\ EndJob(j)
     /\ UNCHANGED <<evars, photos, hours, segment, journal>>

(* Mutant: a report may be submitted without its photo. *)
UpdateIncomplete(j, k, after, submit) ==
  /\ job[j] = Free
  /\ k[1] \notin student
  /\ report[k].status \in {"draft", "rejected"}
  /\ after \in PhotosOf(k[1]) \cup {NoOne}
  /\ job' = [job EXCEPT ![j] = [op |-> "update", key |-> k, row |-> report[k],
                                after |-> after, submit |-> submit]]
  /\ UNCHANGED <<evars, photos, report, hours, segment, rowLock, journal>>

(* PATCH /reports/{id}: "after" is NoOne when the payload has no photo. *)
UpdateBegin(j, k, after, submit) ==
  /\ job[j] = Free
  /\ k[1] \notin student
  /\ report[k].status \in {"draft", "rejected"}
  /\ after \in PhotosOf(k[1]) \cup {NoOne}
  /\ submit => after # NoOne \/ report[k].after # NoOne
  /\ job' = [job EXCEPT ![j] = [op |-> "update", key |-> k, row |-> report[k],
                                after |-> after, submit |-> submit]]
  /\ UNCHANGED <<evars, photos, report, hours, segment, rowLock, journal>>

(* A submission also marks the author as having attended the trip.  The    *)
(* enrolment is loaded in the same breath: whatever was loaded, both       *)
(* columns change.                                                         *)
UpdateCommit(j) ==
  LET t == job[j]
      k == t.key
      after == IF t.after = NoOne THEN t.row.after ELSE t.after
      status == IF t.submit THEN "pending" ELSE t.row.status
  IN /\ t.op = "update"
     /\ rowLock[k] = NoOne
     /\ t.submit => MapThenSumSet(LAMBDA q : submits[q], Keys) < MaxSubmits
     /\ report' = [report EXCEPT
          ![k].after = Column(@, t.row.after, after),
          ![k].status = Column(@, t.row.status, status)]
     /\ enrollment' =
          IF t.submit /\ ~enrollment[k].attended
          THEN [enrollment EXCEPT ![k].attended = TRUE,
                                  ![k].status = "attended"]
          ELSE enrollment
     /\ submits' = IF t.submit THEN [submits EXCEPT ![k] = @ + 1] ELSE submits
     /\ EndJob(j)
     /\ UNCHANGED <<people, consent, links, lastToken, lock, txn>>
     /\ UNCHANGED <<photos, hours, segment, audit>>

(* Mutant: the report is read without FOR UPDATE. *)
DecideUnlocked(j, k) ==
  /\ job[j] = Free
  /\ rowLock[k] = NoOne
  /\ report[k].status = "pending"
  /\ job' = [job EXCEPT ![j] = [op |-> "decide", key |-> k, hours |-> hours[k[1]],
                                segment |-> segment[Site[k[2]]]]]
  /\ UNCHANGED <<evars, photos, report, hours, segment, rowLock, journal>>

(* POST /moderation/reports/{id}: the report's row is locked, then its     *)
(* author and its segment are loaded without a lock.                       *)
DecideBegin(j, k) ==
  /\ job[j] = Free
  /\ rowLock[k] = NoOne
  /\ report[k].status = "pending"
  /\ rowLock' = IF RowLocks THEN [rowLock EXCEPT ![k] = j] ELSE rowLock
  /\ job' = [job EXCEPT ![j] = [op |-> "decide", key |-> k, hours |-> hours[k[1]],
                                segment |-> segment[Site[k[2]]]]]
  /\ UNCHANGED <<evars, photos, report, hours, segment, journal>>

(* Mutant: every approved report lowers the factors. *)
CleanedAgain(current, loaded) ==
  [status |-> "clean", lowered |-> loaded.lowered + 1]

(* Only the report that finds the segment unclean lowers its factors. *)
Cleaned(current, loaded) ==
  IF loaded.status # "clean"
  THEN [status |-> "clean", lowered |-> loaded.lowered + 1]
  ELSE current

(* The decision, its entry in the journal and all it changes are committed *)
(* together; the notices follow.                                           *)
Decided(j, approved) ==
  LET k == job[j].key
  IN /\ job[j].op = "decide"
     /\ report' = [report EXCEPT ![k].status =
          IF approved THEN "approved" ELSE "rejected"]
     /\ audit' = [audit EXCEPT ![k] =
          Append(@, IF approved THEN "approved" ELSE "rejected")]
     /\ Committed(j, [op |-> "decided", key |-> k, approved |-> approved])
     /\ UNCHANGED <<evars, photos, submits>>

Approve(j) ==
  LET t == job[j]
      k == t.key
  IN /\ Decided(j, TRUE)
     /\ segment' = [segment EXCEPT ![Site[k[2]]] = Cleaned(@, t.segment)]
     /\ hours' = [hours EXCEPT ![k[1]] = t.hours + HoursPerReport]

(* Mutant: a value that is not one of ReportStatus. *)
SendBack(j) ==
  /\ job[j].op = "decide"
  /\ report' = [report EXCEPT ![job[j].key].status = "returned"]
  /\ EndJob(j)
  /\ UNCHANGED <<evars, photos, hours, segment, journal>>

Reject(j) == Decided(j, FALSE) /\ UNCHANGED <<hours, segment>>

(* The handler has nothing left to do but to answer. *)
Answered(j) ==
  /\ job[j].op = "decided"
  /\ EndJob(j)
  /\ UNCHANGED <<evars, photos, report, hours, segment, journal>>

-----------------------------------------------------------------------------
ReportStep(j) ==
  \/ \E u \in Users, f \in Photos : UploadBegin(j, u, f)
  \/ \E k \in Keys, f \in Photos : CreateBegin(j, k, f)
  \/ \E k \in Keys, a \in Photos \cup {NoOne}, s \in BOOLEAN :
       UpdateBegin(j, k, a, s)
  \/ \E k \in Keys : DecideBegin(j, k)
  \/ UploadCommit(j) \/ CreateCommit(j) \/ UpdateCommit(j)
  \/ Approve(j) \/ Reject(j) \/ AbortJob(j)

ReportsNext == \/ Next /\ UNCHANGED rvars
               \/ \E j \in Jobs : ReportStep(j) \/ Answered(j)

ReportsSpec == ReportsInit /\ [][ReportsNext]_vars

-----------------------------------------------------------------------------
(* Properties *)

(* No report is ever accepted from somebody who was not admitted to the    *)
(* territory, and only from a volunteer who took a seat (reports.py:128).  *)
ReportsAreFromAdmitted ==
  \A k \in Keys : report[k].status # "absent" =>
    /\ enrollment[k].status # "absent"
    /\ IsAdmitted(k[1], enrollment[k], consent[k])

(* Two inspectors never decide one submission twice: that would give the   *)
(* hours twice (moderation.py:441-444).                                    *)
OneDecisionPerSubmission == \A k \in Keys : Len(audit[k]) <= submits[k]

(* What the inspector decides on is complete and its author was there: a   *)
(* submitted report has both photos, each of its author and on the disk,   *)
(* and marked the attendance, in whatever order uploads, edits,            *)
(* submissions and admissions commit or fail (reports.py:82, 201-203).     *)
SubmittedIsComplete ==
  \A k \in Keys : report[k].status \in {"pending", "approved", "rejected"} =>
    /\ {report[k].before, report[k].after} \subseteq PhotosOf(k[1]) \cap files
    /\ enrollment[k].attended

(* Approvals of several reports on one segment lower its factors once, not *)
(* once per report (moderation.py:473-475), also when they overlap.        *)
FactorsLoweredOnce ==
  \A s \in Segments :
    segment[s].lowered = IF segment[s].status = "clean" THEN 1 ELSE 0

(* models/report.py:133-138: one report per participant and trip, so that  *)
(* no trip gives its hours twice.                                          *)
Trips(u) == {e \in Events : report[<<u, e>>].status # "absent"}
HoursOncePerReport ==
  \A u \in Users : hours[u] <= HoursPerReport * Cardinality(Trips(u))
=============================================================================
