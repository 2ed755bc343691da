--------------------------------- MODULE Course ---------------------------------
(***************************************************************************)
(* The course that makes a student an observer: answer_module of           *)
(* backend/app/api/v1/course.py and backend/app/services/course.py.        *)
(*                                                                         *)
(* An answer loads the learner's row for the module (Begin); a right one   *)
(* is flushed and the finished modules are read (Judge); the commit writes *)
(* the columns that changed.  Other answers may come in between.           *)
(***************************************************************************)
EXTENDS Integers, FiniteSets

CONSTANTS Users, Requests,
          Modules,      \* numbered in the order of the course
          Staff,        \* users whose role is above OBSERVER from the start
          MaxAttempts   \* MAX_MODULE_ATTEMPTS

ASSUME CourseAssumption ==
  /\ Staff \subseteq Users
  /\ Modules \subseteq Nat
  /\ MaxAttempts \in Nat

VARIABLES progress,   \* table course_progress, by <<user, module>>
          student,    \* users whose role is STUDENT
          certified,  \* users with a certificate
          txn         \* by slot, the answer in flight and the row it loaded

cvars == <<progress, student, certified, txn>>

Keys == Users \X Modules
Progress == [exists: BOOLEAN, attempts: 0 .. MaxAttempts, completed: BOOLEAN]
NoProgress == [exists |-> FALSE, attempts |-> 0, completed |-> FALSE]
Idle == [op |-> "idle"]
Answer == [op: {"wrong", "right"}, key: Keys, row: Progress]
Flushed == [op: {"flushed"}, key: Keys, row: Progress,
            done: SUBSET Modules]

CourseTypeOK ==
  /\ progress \in [Keys -> Progress]
  /\ student \subseteq Users
  /\ certified \subseteq Users
  /\ txn \in [Requests -> {Idle} \cup Answer \cup Flushed]

Init ==
  /\ progress = [k \in Keys |-> NoProgress]
  /\ student = Users \ Staff
  /\ certified = {}
  /\ txn = [r \in Requests |-> Idle]

Done(u) == {m \in Modules : progress[<<u, m>>].completed}
IsCourseComplete(done) == Modules \subseteq done

(* Mutant: the loaded row decides what is finished. *)
WrittenAsLoaded(current, loaded, right) ==
  [exists |-> TRUE, attempts |-> loaded.attempts + 1,
   completed |-> loaded.completed \/ right]

(* The flush of the ORM: the counter is written as a number, computed from *)
(* the loaded one; the date of completion only if there was none.          *)
Written(current, loaded, right) ==
  [exists    |-> TRUE,
   attempts  |-> loaded.attempts + 1,
   completed |-> current.completed \/ right]

(* The unique key (user, module): two first answers cannot both be stored. *)
Duplicate(t) == ~t.row.exists /\ progress[t.key].exists

Finish(r) == txn' = [txn EXCEPT ![r] = Idle]

(* Rolled back: a failure, or Duplicate. *)
Abort(r) ==
  /\ txn[r] # Idle
  /\ Finish(r)
  /\ UNCHANGED <<progress, student, certified>>

(* Mutant: one attempt too many. *)
BeginOnceMore(r, k, answer) ==
  /\ txn[r] = Idle
  /\ progress[k].attempts <= MaxAttempts
  /\ txn' = [txn EXCEPT ![r] = [op |-> answer, key |-> k,
                                row |-> progress[k]]]
  /\ UNCHANGED <<progress, student, certified>>

Begin(r, k, answer) ==
  /\ txn[r] = Idle
  /\ progress[k].attempts < MaxAttempts
  /\ txn' = [txn EXCEPT ![r] = [op |-> answer, key |-> k,
                                row |-> progress[k]]]
  /\ UNCHANGED <<progress, student, certified>>

(* A flushed row stays locked until the transaction ends. *)
Locked(k) == \E q \in Requests : txn[q].op = "flushed" /\ txn[q].key = k

WrongCommit(r) ==
  LET t == txn[r]
  IN /\ t.op = "wrong"
     /\ ~Locked(t.key) /\ ~Duplicate(t)
     /\ progress' = [progress EXCEPT ![t.key] = Written(@, t.row, FALSE)]
     /\ Finish(r)
     /\ UNCHANGED <<student, certified>>

(* Mutant: a module that was only attempted counts as finished. *)
JudgeAttempted(r) ==
  LET t == txn[r]
      u == t.key[1]
  IN /\ t.op = "right"
     /\ ~Locked(t.key) /\ ~Duplicate(t)
     /\ txn' = [txn EXCEPT ![r] =
          [op |-> "flushed", key |-> t.key, row |-> t.row,
           done |-> {m \in Modules : progress[<<u, m>>].exists}
                      \cup {t.key[2]}]]
     /\ UNCHANGED <<progress, student, certified>>

(* The right answer is flushed; the finished modules are those other       *)
(* requests have committed, and this one.                                  *)
Judge(r) ==
  LET t == txn[r]
      u == t.key[1]
  IN /\ t.op = "right"
     /\ ~Locked(t.key) /\ ~Duplicate(t)
     /\ txn' = [txn EXCEPT ![r] =
          [op |-> "flushed", key |-> t.key, row |-> t.row,
           done |-> Done(u) \cup {t.key[2]}]]
     /\ UNCHANGED <<progress, student, certified>>

(* promote_on_completion raises a student only; a certificate is kept. *)
RightCommit(r) ==
  LET t == txn[r]
      u == t.key[1]
  IN /\ t.op = "flushed"
     /\ progress' = [progress EXCEPT ![t.key] = Written(@, t.row, TRUE)]
     /\ IF IsCourseComplete(t.done)
        THEN /\ student' = student \ {u}
             /\ certified' = certified \cup {u}
        ELSE UNCHANGED <<student, certified>>
     /\ Finish(r)

Next ==
  \E r \in Requests :
    \/ \E k \in Keys, a \in {"wrong", "right"} : Begin(r, k, a)
    \/ WrongCommit(r) \/ Judge(r) \/ RightCommit(r) \/ Abort(r)

Spec == Init /\ [][Next]_cvars

-----------------------------------------------------------------------------
(* Properties *)

(* services/course.py:64-70: whoever stopped being a student, or holds a   *)
(* certificate, has finished every module, however answers overlap.        *)
EarnedByCourse ==
  \A u \in Users :
    u \in certified \/ u \notin student \cup Staff =>
      IsCourseComplete(Done(u))

(* course.py:142: a later answer, right or wrong, read from a stale row or *)
(* not, takes neither a finished module nor the admission away.            *)
NothingIsTakenBack ==
  [][\A u \in Users :
       /\ Done(u) \subseteq Done(u)'
       /\ u \notin student => u \notin student'
       /\ u \in certified => u \in certified']_cvars
=============================================================================
