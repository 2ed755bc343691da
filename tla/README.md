# A verified model of the shore-monitoring backend

The program (`src/backend/app`, FastAPI and SQLAlchemy over PostgreSQL, or SQLite
for development) lets volunteers look at satellite scenes of protected shores,
mark rubbish, and clean it up. This directory holds TLA+ models of the parts in
which its logic lives, TLC runs on small instances, and TLAPS proofs for every
size. `PROJECT.json` maps every definition to the source lines it stands for and
lists the runs, mutants, hazards, findings and theorems.

## 1. Inventory

Each HTTP handler is one transaction of one session (`db/session.py`): it loads
rows, decides, writes the columns it changed, and commits. Handlers run
concurrently (an event loop, possibly several processes) and meet only in the
database.

| Component | State | Operations | Meets | What is hard | What makes it correct |
|---|---|---|---|---|---|
| Enrolment, admission (`events.py`, `services/enrollment.py`) | enrollments, consents, row lock of the event | enrol, request consent, sign, briefing | course (role), reports | race for the last seat; status computed from stale rows; lost mails, old links | no overbooking; "ready" is true; no fact is lost |
| Field reports (`reports.py`, `moderation.decide_report`) | field_reports, hours, attendance, audit_log | draft, edit, submit, approve, reject | enrolment, segments, photos | edits overlapping decisions; two inspectors; two reports on one segment | only the admitted report; one decision per submission; one credit per trip |
| Attention index (`services/attention.py`) | four factors and the index of a segment | recalculate, apply_cleanup | everything that touches a segment | denormalised value; clamping; rounding | the index is the formula of the factors |
| Consensus, calibration (`services/consensus.py`, `calibration.py`) | reputation, control counters, weights | evaluate, adjust, blend | annotations, decisions | control answers next to votes; weight fixed at submission | votes are those of counted annotations |
| Annotations and moderation (`annotations.py`, `moderation.py`) | annotations, segments, users | annotate, control answer, open queue, decide, batch | duels, scenes, reports | overlapping evaluations; removed accounts; repeated decisions | queue = agreement; a decided segment is closed; one rating per decision |
| Scenes, growth (`segments.ingest_scene`, `services/growth.py`) | scenes, factor S, growth rate | ingest | attention | scenes late or unmeasured; boosts that accumulate | the rate is that of the latest two measurements; the boost is limited |
| Duels (`games.py`, `services/games.py`) | duels, duel_entries | join, move | annotations | a move is an annotation too; late moves | status tells progress; agreement outweighs speed |
| Course (`course.py`, `services/course.py`) | course_progress, role, certificate | answer | admission | overlapping answers; limited attempts | admission is earned and stays |
| Rate limiter (`core/ratelimit.py`) | windows by address, in memory | check, prune | login, registration, signing | boundaries of the window; sweep | at most N in a period; honest waiting time |
| Imagery requests (`imagery.py`) | imagery_requests | create, list | segments | two requests at once | one active request per segment (not kept by overlapping requests) |
| Photos (`reports.upload_media`) | files on the disk, media | upload | reports | a file without its row | a report has both its photos, its author's own |
| Audit log (`services/audit.py`) | audit_log | record | every decision | batches, failures, repeated decisions | it tells what is in force |
| Inspector for a day (`games.inspector_answer`) | inspector_rounds | answer | segments with decisions | stale truth | what a player is told comes from a decision that was made |
| Statistics, leaderboard (`games.py`) | none | two queries | duel_entries | they count different entries | they give the same points |
| Subscriptions, notifications (`segments.py`, `services/notifications.py`) | subscriptions; notices leave the system | subscribe, unsubscribe, notify | decisions on reports | notices follow the commit and may be lost | nobody is told what was not decided |
| Public pages, digest, export, map, accounts | rows of their own | read, log in | - | little that a state machine shows | - |

The hazards, each at its line, are in `PROJECT.json`.

## 2. Modules

```
Trip  <--implemented by--  Enrollment <--extended by-- FieldReports <--extended by-- Notices
                               ^                                                       ^
                        EnrollmentProofs <-----------extended by------------ FieldReportsProofs

SegmentLife  <--implemented by--  Segments  <--extended by--  Duels, Inspector
Attention, Consensus <--extended by--/  ^                        ^
                                        |                        |
                                 SegmentsProofs <--extended by-- DuelsProofs, InspectorProofs

Attention <-- Growth <--extended by--  Scenes  (implements Segments)
                                        ^
                                   ScenesProofs

Course <-- CourseProofs            RateLimiter <-- RateLimiterProofs
```

`MCx` extends `x` for TLC: it names the model values, gives the functions that are
constants, and states the symmetry.

**How a handler becomes actions.** A handler is a *Begin* step (all its loads and
guards) and a *Commit* step (all its writes), kept apart by a slot of `Requests`
(or `Jobs`) that remembers what was loaded. Between the two, other requests may
commit: that is READ COMMITTED. Where a handler reads again after a flush
(`create_annotation`, `make_move`, `answer_module`) or counts after taking a lock
(`enroll`) there is a step in between. Adjacent loads of one handler are one step:
the rows they read are either keyed to one another (an enrolment and its consent,
loaded by one `selectinload`) or never change in a way a guard can tell. The
commit writes **only the columns the handler changed with respect to what it had
loaded**, as SQLAlchemy's unit of work does (`Column`, `FlushRow`, `Flush`,
`Written`); it is this rule that decides which overlaps lose something. A guard
that fails before anything is written is an error response and no step. `Abort`
is a rollback at any time: a lost connection, an exception, a restart, a violated
unique key. `FOR UPDATE` is a lock variable, dropped by every end of a transaction;
`RowLocks = FALSE` is SQLite, which ignores it.

* **Trip**: seats of a trip are taken one by one while there is room; a seated
  volunteer is cleared; neither is taken back.
* **Enrollment**: `enrollment` and `consent` are the tables by (user, event), with
  the row "absent" until inserted; `links` are the signing links that reached a
  parent, `lastToken` numbers the tokens (they are random in the code: all that
  matters is that they are new). The environment lets trips start, birthdays pass,
  the course promote and links expire at any time. All trips are PLANNED since no
  code sets another `EventStatus`. Parents' addresses and the wording of mails are
  left out.
* **FieldReports** extends it with photos, drafts, edits, submissions, decisions,
  hours, and the effect of an approval on the segment, reduced to "how often were its
  factors lowered" (`Segments.CleanupBegin/CleanupCommit` is the same handler seen
  from the segment). A photo is written to `files` in the Begin step and to the
  table `media` in the Commit step, so that a failure leaves a file without a row;
  names of files are random, hence each photo is uploaded at most once. `audit` is
  the part of the audit log about reports; `submits` is a history variable. After
  the commit of a decision its slot stays occupied ("decided") until the notices
  are out.
* **Notices** extends FieldReports with the table of subscriptions and the notices
  of a decision: one to the author, then, after an approval, one to each subscriber
  of that moment. `told` and `news` count what was handed to the notification
  service. A failure after the commit (`AbortJob` of a decided job) loses the rest.
* **Attention**, **Consensus**: the pure services. Factors, weights and reputations
  are integer hundredths; `Round100` is Python's rounding to even. Divisions are
  truncated where the code keeps a float; no property compares digits that this
  could change. `PrevailingVerdicts` is the set of verdicts that tie, since the
  code takes the first one the database returns.
* **Segments**: the life of a segment. `annotations` is the table; `since` is the
  number of days since the last cleanup, or since the segment was created. Time
  advances between requests, never within one. A scene is reduced to its signal
  and to the boost that growth gives it. Every segment has the two scenes that an
  annotation task shows. Any staff member may decide: territory and role are
  conditions on who may send a request. `audit` is the part of the audit log about
  segments, appended to in the step that commits the decision. A removed account
  takes its annotations along and leaves the aggregates; its row in `user` is reset,
  because nothing reads it any more.
* **SegmentLife** is what Segments promises without saying how: annotators raise a
  suspicion, only an inspector leads a segment into work, each decision is signed,
  and a shore is clean only after an inspector once sent people to it.
  `Segments.ImplementsLife` is the refinement.
* **Inspector** extends Segments with the rounds of "Inspector for a day": a player
  answers for any segment with a known truth, and is told the decision this truth
  stands for. A batch decision does not renew the truth, so a player may be told an
  older decision; and an approval of a segment whose prevailing verdict is "none" is
  told as a rejection.
* **Duels** extends it: joining, moving, scoring. A move is an annotation, inserted
  in the same transaction. Duels are numbered in the order of `created_at`. The two
  queries of `GET /games/stats` and `GET /games/leaderboard` are `Score` and `Won`
  over `Submitted` and `Entered`. A removed account takes its entries along
  (`Remaining`).
* **Growth**, **Scenes**: the table of scenes of a segment, from which the rate of
  growth and the boost of S are computed, and the requests for new scenes. `Segments`
  only knows that a scene brings a signal, or none, and some boost up to the limit;
  `ImplementsSegments` (`INSTANCE Segments WITH ...`) shows that this is what happens,
  the index included. Scenes arrive in any order of their dates; two of one day have
  no order among the stored ones, which is a choice in `ComputeGrowth`. Rate and boost
  are whole hundredths, rounded down, which moves no rate across the threshold. The
  operator of the satellites, who answers requests, is external. `signal` is a history
  variable.
* **Course**, **RateLimiter**: one module each. The limiter's `check` has no await,
  so it is one step; a tick is a fraction `1/Second` of a second, since
  `time.monotonic()` is finer than the seconds `retry_after` is given in.

## 3. Runs

All runs say `CHECK_DEADLOCK FALSE`: the system really may stop, when every trip
has begun, every attempt is used up, or a bound is reached.

| Run | Instance and bounds | Shows |
|---|---|---|
| MCEnrollment | 3 users (a minor who is a student at first, two adults), 1 trip with 2 seats, 2 requests in flight, 2 links; starts from `MCInit` | `NoOverbooking`, `ReadyIsAdmitted`, `ConsentStatusIsTrue`, `FactsAreKept`, refinement `ImplementsTrip`, liveness `LocksAreReleased` |
| MCReports | 1 adult observer, 2 trips with 2 seats to one segment, 1 photo, 2 report requests and 1 other in flight, 2 submissions in all | `ReportsAreFromAdmitted`, `OneDecisionPerSubmission`, `SubmittedIsComplete`, `FactorsLoweredOnce`, `NoticesAreTrue` |
| MCSegments | 2 users, 2 segments, 1 handler at a time, 1 vote required, 2 decisions, 2 annotations, 2 rounds, 1 account removed, no days passing | `IndexIsFormula`, `QueuedIffAgreed`, `TalliesAreReal`, `AuditTellsVerified`, `RoundsTellDecisions`, `VerifiedIsClosed`, `RatedOnce`, refinement `ImplementsLife` |
| MCDuels | 3 users, 1 segment, 1 duel, 1 handler at a time, 1 vote required, 1 decision, 2 annotations besides the moves that come last, moves of 799, 800 and 300000 ms, years passing, no scenes | `MoveIsAnnotation`, `VotesAreCounted`, `StatusTellsProgress`, `AgreementOutweighsSpeed`, `StatisticsAgree`, and `IndexIsFormula` with moves among the annotations |
| MCCourse | 2 users (one of them staff), 2 modules, 2 answers in flight, 3 attempts | `EarnedByCourse`, `NothingIsTakenBack` |
| MCRateLimiter | 2 clients, limit 2, period of 2 s in half seconds, sweep above 1 key, 5 s | `WindowIsBounded`, `RefusalIsDeserved`, `RetryIsHonest`, `TableIsBounded` |
| MCScenes | 1 segment, 1 handler at a time, 3 scenes on 2 days with 4 areas or none, one signal or none, 2 requests | `RateIsOfLatest`, refinement `ImplementsSegments` |

Each checks one type invariant besides. The instances are small, yet large enough for
the cases that matter: two requests overlap, the last seat is contended, a link is
replaced, a report is submitted again after a rejection while the notice of the
rejection is still to come, a batch holds two segments of one annotator, a control
task follows a decision, one segment is decided twice, a third player waits beside a
full duel, a duel reaches every score, a move comes to a segment that has been decided and
has a control answer. A mutant per property (`PROJECT.json`), each a plausible slip in the
code, is caught under the run's own bounds.

`MCSegments`, `MCDuels` and `MCScenes` run one handler at a time on purpose: they ask
whether the *logic* of the handlers is right. With two slots the handlers overlap without
any lock on the row of a segment or a duel, and much of it fails (`MCSegmentsLost`, and the
list below). `MoveIsAnnotation` and `StatisticsAgree` do not: that they survive any overlap
is a theorem, not a run. In `MCReports` minors and the course are switched off (`MCInit`):
they are the subject of `MCEnrollment`, whose facts the reports only read. The days stand
still in `MCSegments` (`Period = 0`), where decisions and cleanups are many, and pass in
`MCDuels`, by a year at once; accounts are removed in `MCSegments` only. Scenes bring no
growth in either: `MCScenes` has it.

Bounds that are not in the code: `MaxToken`, `MaxSubmits` (all reports together),
`MaxDecisions` (entries of the audit log), `MaxAnnotations` (a move of a duel may exceed
it), `MaxRounds`, `MaxRemoved`, `MaxDuels`, `MaxScenes`, `MaxImagery`, `MaxTime`, the
number of `Photos`, and `Period`, the step by which days pass. A batch names each
segment once. The thresholds of the configuration (three votes, five control tasks, five
attempts) are constants, smaller in the runs.

**Fairness.** Only Enrollment assumes any (`FairSpec`, and `MCSpec` of its MC
module, the same from one initial state): weak fairness of `Continue(r)`,
that is, the server carries on a request it has begun. Clients, failures, the clock and
parents are never fair. A commit that has run into the bound `MaxToken` may not happen,
but the steps of an enrolment, which are the ones that hold a lock, are not bounded.

### Disagreements found

Five runs check something the repository says and are expected to fail; the quoted
lines are in `PROJECT.json`.

| Run | What is said | What happens |
|---|---|---|
| MCEnrollmentStatus | the status is brought in line with the facts after any change | signature and briefing overlap; the status stays "pending" |
| MCReportsTwice | one report per trip, so that its hours are given once | an overlapping second submission reopens an approved report |
| MCSegmentsLost | enough confirmations put a segment into the queue | two overlapping confirmations miss each other |
| MCSegmentsWatch | a rejected segment returns to observation | later annotations of it are control answers, which cast no vote |
| MCScenesBoost | the boost of S by growth is limited | a scene without area and signal boosts S again for the old growth |

More that the models do, as the code does:

* a verified segment can be decided a second time, since the handlers look at
  `queued_at` alone;
* the modules of the course can be answered in any order, although
  `services/course.py:41` says that they are passed one after the other;
* the right answers to the last two modules, overlapping, finish the course without a
  promotion; overlapping answers lose increments of the counter of attempts, so that an
  exhausted module may open again (`config.py:67-70` wants the attempts limited);
* opening the queue takes a segment out only if no annotation of it is left
  (`moderation.py:103`): an answer "no problem" beside a removed account's vote keeps it
  queued with no vote, which `moderation.py:97-98` means to prevent;
* two handlers that overlap on one segment each write an index computed from their own
  copy of the factors, so that index and factors disagree (`attention.py:10-11`);
* an approval of a segment on which "none" prevails is told to players as a rejection,
  against the comment at `games.py:390-391`; `RoundsTellDecisions` says when this may be;
* the move of a duel does not look at `verified` or at the control pool. It changes the
  votes of a segment confirmed meanwhile (an ordinary annotation would be refused), and it
  puts a rejected one back into the queue, where `moderation.py:92` counts the control
  answers among the votes, against `annotations.py:141-142`; so `QueuedIffAgreed`,
  `TalliesAreReal` and `VerifiedIsClosed` are properties of segments without duels;
* the overlapping moves of both players leave a duel active for ever, since each sees the
  other's move as missing;
* two overlapping scenes each miss the other, and their rate of growth is not stored; two
  overlapping requests for a scene of one segment are both queued, although
  `imagery.py:67-68` says that the second is refused;
* a move counts neither in the player's `annotations_count` nor in the segment's
  `incident_type`;
* two overlapping approvals of reports by one author lose the hours of one of them;
* a subscriber is told of a "new scene" when a report is approved, and of a scene that
  really arrives nobody is told: `ingest_scene` sends nothing, although
  `segments.py:219` and `models/user.py:167-168` promise it. The notices are in the
  model where the code sends them; that a notice is never sent has no step to check.

## 4. Proofs

Checked by TLAPS for every value of the constants that satisfies the assumptions
named in the modules. Every property that a passing run checks has a theorem, but
for the one that is liveness. What the theorems assume:

* finitely many users (`EnrollmentAssumption`, `DuelsAssumption`) and slots of report
  requests (`NoticesAssumption`), positive capacities and a positive limit, at least
  one segment; the value for "no one" is no user, photo or slot;
* `RowLocks` for `NeverOverbooked`, `EnrollmentImplementsTrip` and `DecidedOnce`:
  PostgreSQL, as opposed to SQLite, which ignores `FOR UPDATE`;
* `OneAtATime` (one slot, requests one after the other) for the theorems named below.
  It is necessary: with two slots TLC finds a counterexample to every property that is
  proved under it (on instances like that of `MCSegmentsLost`),
  because no handler locks the row of a segment or a duel. The theorems say that the
  *logic* of the handlers is right, so that what goes wrong in the properties they state
  goes wrong by overlap.

**EnrollmentProofs.** `TypeCorrect`. Then the inductive invariant
`IInv == TypeOK /\ TablesAreSound /\ LoadedAreSound`. `ReadyIsAdmitted` and
`ConsentStatusIsTrue` alone are not inductive: a commit writes what was computed
from rows loaded long ago. `LoadedAreSound` says what such rows still know: every
*fact* they hold (a briefing, a signature, "not a student any more") still holds,
because facts are only ever added. With it, a status "ready" computed from stale
rows is true, and a stale "requested" is only written where the consent was not
signed when loaded and the flush leaves alone what did not change. From `IInv`
follow `ReadyMeansAdmitted`, `ConsentStatusAgrees` and the action property
`FactsStay`.

`NeverOverbooked` needs `RowLocks`: its invariant `SeatsAreGuarded` says that
whoever is between the count and the insert holds the row of the trip, that the
seat counted as free is still free, and that no trip is overbooked. Only an insert
takes a seat (`SeatsStep`), and it gives up the lock with it. From both invariants
`EnrollmentImplementsTrip`: an insert is `TakeSeat`, a commit that makes a row
"ready" is `Clear`, everything else stutters.

**CourseProofs.** `IInv == CourseTypeOK /\ AttemptsLeft /\ DoneIsTrue /\ EarnedByCourse`:
an answer in flight was begun with attempts left, so the number it writes is within
the limit; and what a flushed answer believes finished is finished, since nothing
is ever unfinished. Hence `CourseTypes`, `AdmissionIsEarned`, `AdmissionStays`.

**ScenesProofs.** `ScenesTypes` rests on lemmas about the formulas (`IndexIsFactor`,
`BoostIsSmall`, `GrowthTypes`): whatever overlaps, a flush of a loaded row is a row.
`RatesAreCurrent` assumes `OneAtATime` (one slot) and is false without. It is not
inductive: the row and the scenes that an ingest in flight has loaded must still be
those stored (`StillFresh`), which turns the merge of a flush into a plain write
(`FlushedFresh`), so that the rate is what `GrowthIsOfLatest` says `compute_growth`
finds. `ScenesImplementSegments` needs no such assumption: columns are merged alike in
both modules (`FlushedSegment`), a recalculation is the same (`RecalculatedSegment`),
and the boost is within what `Segments` is given; requests for scenes stutter.

**FieldReportsProofs** extends the proofs of Enrollment, about Notices. The invariant
of Enrollment does not carry over: a submission writes "attended" over whatever status
the enrolment has by then. What reports rest on is weaker and does carry over
(`LoadedAreKept`): no step takes an enrolment, a briefing, an attendance or a signature
back (`FactsStayWithReports`). Its invariant `RInv` adds that each table rests on what
the requests in flight carry (`ReportsAreFounded`, `JobsAreFounded`): a commit writes
what was checked when the request began, and what it checked cannot become false.
Hence `OnlyAdmittedReport`, `WhatIsDecidedIsComplete` and `CleanedOnce` (a decision
lowers the factors only of a segment it loaded as not clean, and a flush of the same
new value is the same value), with or without locks. `DecidedOnce` needs the lock:
who is about to decide holds the row of the report and found it pending, nobody else
leaves "pending", and a pending submission is one more than the decisions so far
(`LocksAreHeld`, `SubmissionsAreCounted`). `NoticesImplementReports`: every behaviour
of Notices is one of FieldReports, so all of this holds while notices are sent
(`ReportsWithNotices`). `NoticesTellTheTruth` counts debts: what an author was told and
what the decided slots still owe is at most the entries of the journal, and likewise for
subscribers (`AuthorsAreOwed`, `SubscribersAreOwed`); a lost notice only cancels a debt.

**SegmentsProofs.** `SegmentsTypeCorrect` holds with any number of overlapping
requests; behind it are the formulas: the share of confirming weight is between 0 and
100 (`ShareIsBounded`, `FactorCIsFactor`), so are a recalculated index
(`IndexIsFactor`), a clamped factor and a flushed row. These need what a fold over a
finite set adds up to. The function that the fold computes is shown to exist by
well-founded induction over the subsets of a finite set (`SubsetInduction`,
`TotalUnfolds`), and then: a sum is natural, does not depend on the order
(`TotalWithout`), and grows with the set (`TotalOfPart`).
The other theorems assume `OneAtATime`. What a request loaded is then still stored
when it commits (`Fresh`), the flush is a plain write, and each commit has one of a
few *effects*: a vote, a control answer, a repair of the queue, a decision, work on
the shore (`Effects`). The invariant `SInv` is preserved by each effect:
`IndexIsFormula`, `QueuedIffAgreed`, `TalliesAreReal` and `AuditTellsVerified` support one
another, and need two more parts. `PoolsAreSettled`: a segment in the control pool has
its known answer and is not queued, and only there are control answers; so the repair
of the queue, which does not tell them from votes, meets only votes. `TripsAreFounded`:
a trip goes only to a segment that was once confirmed, which is what `SegmentLife`
asks of cleaning. Theorems `IndexIsCurrent`, `QueueIsAgreement`, `TalliesCount`,
`AuditIsTrue`, the action properties `ConfirmedIsClosed` and `DecisionRatesOnce`, and
the refinement `SegmentsImplementLife`, in which each effect is a step of the life or
a stutter.

**InspectorProofs.** `PlayersAreToldDecisions` holds with any number of overlapping
requests: the invariant speaks of the answers in flight as of the rounds stored. The
truth of a segment comes from a decision in its log, the log only grows, and as long as
it has one entry the truth is the one loaded. "Rejected" needs more: a confirmation whose
prevailing verdict is "none" must have been made on a segment with such an answer
(`Doubted`). A segment comes into the queue only with an answer that counts
(`QueueingEnds`, `QueueIsVoiced`), answers go only with their account (`DoubtStays`), and
so every decision in flight, single or batch, has loaded one (`DecideSlots`); unless an
account was removed, in which case nobody may be left and the verdict is "none" as well.
`GameKeepsSegments` and
`GameKeepsPromises` carry the theorems of Segments over to the game, which is what
`MCSegments` runs.

**DuelsProofs.** With any number of overlapping requests: `MovesAreOneAnnotation`
(the unique key and the flushed inserts leave no room for a second one, and the moves
a request has seen are not taken back) and `PointsAreMoved` (only entries with a move
are scored, although points are computed from a duel loaded long ago), both from `DInv`.
With one request at a time: `StatusIsProgress`, `AgreementWins` and `MovesKeepIndex`, from
`OneInv`, which adds the stage a duel is in (`Stage`) and the fairness of its points
(`Fair`: a winner has agreed, and has needed a plausible time). A removed account ends
stages but not fairness. `VotesCount` adds what a move in flight has read (`Heard`): the
counted annotations and itself, still when it commits.

**RateLimiterProofs.** The key is `KeyState`: the window of a key is the end of the
history of its accepted requests, what the window lacks is more than a period old, the
history is ordered, and any two entries `Limit` apart in it are more than a period
apart. Popping, sweeping and forgetting take only old hits off (`LateHitsLeave`,
`LateKeysLeave`), so a request is accepted only when the entry `Limit` before it is old
(`HitIsAdded`): `LimitIsKept`. A refusal names a time in whole seconds beyond the expiry
of the oldest hit by at most a second (`RoundedUp`, `PromiseIsMade`), and that hit is the
same as long as nothing is accepted: `PromisesAreKept`. `RefusalsAreDeserved` is about
steps. `SweepsBound` relates the table to the whole history: a sweep leaves keys that are
live at the hit that causes it, whose time is the newest in any history, and between two
hits the table only shrinks. That the number of popped hits exists is the least-number
principle (`Least`), from the well-foundedness of the natural numbers.

**Only model-checked.** `LocksAreReleased` (liveness under fairness is out of the
prover's reach). That the properties of "Disagreements found" are violated is shown
by TLC's counterexamples. The theorems are about the specifications of the modules; the
runs check instances of those, some from a given initial state (`MCInit`).

## 5. Not modelled

Accounts and authorisation (hashing, tokens), the map, public pages, digest and
export (they only read), seed data and migrations, the prototype client. Of the audit
log, the entries of created events, consents, promotions and requested scenes. Of
notifications, their delivery, which the code does not implement yet. Within modelled
handlers: response bodies, marks, comments, volumes, the contents of photos, dates
other than those named above.

## 6. Plan

Done, in this order because admission is what the project itself calls its most
responsible logic, and the segment's life is its core: Trip, Enrollment and their
proofs; FieldReports; Attention, Consensus, Segments; Duels; Growth, Scenes and their
proofs; Course and its proofs; RateLimiter; SegmentLife, Inspector; Notices; the proofs
of FieldReports, Notices, Segments, Inspector, Duels and RateLimiter.

Next:

1. What overlapping requests still guarantee for segments: which of the parts of `SInv`
   survive with a lock on the segment's row, stated as a constant like `RowLocks`, or in
   weaker form without one (a verified segment has an approval in its log; a trip goes
   only to a confirmed segment).
2. Lemmas about the formulas that stand for themselves: `factor_c` grows with confirming
   weight, the boost never exceeds its limit for a single scene, `blend` moves a reputation
   towards the measured accuracy.
3. The abstract promise of reports (drafted, submitted, decided, credited) as a module
   that FieldReports implements.
