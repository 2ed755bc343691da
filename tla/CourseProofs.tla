----------------------------- MODULE CourseProofs -----------------------------
(***************************************************************************)
(* Proofs about Course, for any number of learners, modules, attempts and  *)
(* answers in flight: the admission is earned by the whole course and is   *)
(* never taken back.                                                       *)
(***************************************************************************)
EXTENDS Course, TLAPS

(* An answer in flight was begun while there were attempts left, so that   *)
(* the counter it will write stays within the limit.                       *)
AttemptsLeft ==
  \A r \in Requests : txn[r] # Idle => txn[r].row.attempts < MaxAttempts

(* The modules a flushed answer believes finished are finished, but for    *)
(* the one it finishes itself: nothing is ever unfinished meanwhile.       *)
DoneIsTrue ==
  \A r \in Requests : txn[r].op = "flushed" =>
    txn[r].done \subseteq Done(txn[r].key[1]) \cup {txn[r].key[2]}

IInv == CourseTypeOK /\ AttemptsLeft /\ DoneIsTrue /\ EarnedByCourse

-----------------------------------------------------------------------------
LEMMA TxnTypes ==
  ASSUME CourseTypeOK, NEW r \in Requests
  PROVE  /\ txn[r].op \in {"wrong", "right"} => txn[r] \in Answer
         /\ txn[r].op = "flushed" => txn[r] \in Flushed
         /\ txn[r] # Idle => /\ txn[r].key \in Keys
                             /\ txn[r].row \in Progress
BY DEF CourseTypeOK, Idle, Answer, Flushed

LEMMA WrittenTypes ==
  ASSUME NEW now \in Progress, NEW row \in Progress, NEW right \in BOOLEAN,
         row.attempts < MaxAttempts
  PROVE  /\ Written(now, row, right) \in Progress
         /\ now.completed \/ right => Written(now, row, right).completed
<1>1. row.attempts + 1 \in 0 .. MaxAttempts
  BY CourseAssumption DEF Progress
<1>2. now.completed \/ right \in BOOLEAN
  BY DEF Progress
<1> QED
  BY <1>1, <1>2 DEF Written, Progress

LEMMA InitHolds == Init => IInv
<1> SUFFICES ASSUME Init PROVE IInv
  OBVIOUS
<1>1. NoProgress \in Progress
  BY CourseAssumption DEF NoProgress, Progress
<1>2. CourseTypeOK
  BY <1>1, CourseAssumption DEF Init, CourseTypeOK
<1>3. AttemptsLeft /\ DoneIsTrue
  BY DEF Init, AttemptsLeft, DoneIsTrue, Idle
<1>4. EarnedByCourse
  BY DEF Init, EarnedByCourse
<1> QED
  BY <1>2, <1>3, <1>4 DEF IInv

-----------------------------------------------------------------------------
LEMMA FinishTypes ==
  ASSUME CourseTypeOK, NEW r \in Requests, Finish(r)
  PROVE  txn' \in [Requests -> {Idle} \cup Answer \cup Flushed]
BY DEF CourseTypeOK, Finish

LEMMA TypeStep == IInv /\ [Next]_cvars => CourseTypeOK' /\ AttemptsLeft'
<1> SUFFICES ASSUME IInv, [Next]_cvars PROVE CourseTypeOK' /\ AttemptsLeft'
  OBVIOUS
<1> USE DEF IInv
<1>1. CASE UNCHANGED cvars
  BY <1>1 DEF CourseTypeOK, AttemptsLeft, cvars
<1>2. ASSUME NEW r \in Requests, NEW k \in Keys, NEW a \in {"wrong", "right"},
             Begin(r, k, a)
      PROVE  CourseTypeOK' /\ AttemptsLeft'
  <2>1. [op |-> a, key |-> k, row |-> progress[k]] \in Answer
    BY DEF Answer, CourseTypeOK
  <2>2. CourseTypeOK'
    BY <1>2, <2>1 DEF Begin, CourseTypeOK
  <2>3. AttemptsLeft'
    BY <1>2 DEF Begin, CourseTypeOK, AttemptsLeft
  <2> QED
    BY <2>2, <2>3
<1>3. ASSUME NEW r \in Requests, Finish(r) PROVE AttemptsLeft'
  BY <1>3 DEF Finish, CourseTypeOK, AttemptsLeft
<1>4. ASSUME NEW r \in Requests, WrongCommit(r) PROVE CourseTypeOK' /\ AttemptsLeft'
  <2>1. txn[r].key \in Keys /\ txn[r].row \in Progress
        /\ txn[r].row.attempts < MaxAttempts
    BY <1>4, TxnTypes DEF WrongCommit, AttemptsLeft, Idle
  <2>2. Written(progress[txn[r].key], txn[r].row, FALSE) \in Progress
    BY <2>1, WrittenTypes DEF CourseTypeOK
  <2> QED
    BY <1>3, <1>4, <2>1, <2>2, FinishTypes DEF WrongCommit, CourseTypeOK
<1>5. ASSUME NEW r \in Requests, Judge(r) PROVE CourseTypeOK' /\ AttemptsLeft'
  <2> DEFINE t == txn[r]
             flushed == [op |-> "flushed", key |-> t.key, row |-> t.row,
                         done |-> Done(t.key[1]) \cup {t.key[2]}]
  <2>1. t.key \in Keys /\ t.row \in Progress /\ t.row.attempts < MaxAttempts
    BY <1>5, TxnTypes DEF Judge, AttemptsLeft, Idle
  <2>2. flushed \in Flushed
    BY <2>1 DEF Flushed, Keys, Done
  <2>3. txn' = [txn EXCEPT ![r] = flushed]
    BY <1>5 DEF Judge
  <2>4. flushed.row.attempts < MaxAttempts
    BY <2>1
  <2> HIDE DEF flushed
  <2>5. CourseTypeOK'
    BY <1>5, <2>2, <2>3 DEF Judge, CourseTypeOK
  <2>6. AttemptsLeft'
    BY <2>3, <2>4 DEF CourseTypeOK, AttemptsLeft
  <2> QED
    BY <2>5, <2>6
<1>6. ASSUME NEW r \in Requests, RightCommit(r) PROVE CourseTypeOK' /\ AttemptsLeft'
  <2>1. txn[r].key \in Keys /\ txn[r].row \in Progress
        /\ txn[r].row.attempts < MaxAttempts
    BY <1>6, TxnTypes DEF RightCommit, AttemptsLeft, Idle
  <2>2. Written(progress[txn[r].key], txn[r].row, TRUE) \in Progress
    BY <2>1, WrittenTypes DEF CourseTypeOK
  <2>3. student' \subseteq Users /\ certified' \subseteq Users
    BY <1>6, <2>1 DEF RightCommit, CourseTypeOK, Keys
  <2> QED
    BY <1>3, <1>6, <2>1, <2>2, <2>3, FinishTypes DEF RightCommit, CourseTypeOK
<1>7. ASSUME NEW r \in Requests, Abort(r) PROVE CourseTypeOK' /\ AttemptsLeft'
  BY <1>3, <1>7, FinishTypes DEF Abort, CourseTypeOK
<1> QED
  BY <1>1, <1>2, <1>4, <1>5, <1>6, <1>7 DEF Next

(* What a learner has finished stays finished. *)
LEMMA DoneGrows ==
  ASSUME IInv, [Next]_cvars, NEW u \in Users
  PROVE  Done(u) \subseteq Done(u)'
<1>1. ASSUME NEW r \in Requests, NEW right \in BOOLEAN, txn[r] # Idle,
             progress' = [progress EXCEPT ![txn[r].key] =
                            Written(@, txn[r].row, right)]
      PROVE  Done(u) \subseteq Done(u)'
  <2>1. txn[r].key \in Keys /\ txn[r].row \in Progress
        /\ txn[r].row.attempts < MaxAttempts
    BY <1>1, TxnTypes DEF IInv, AttemptsLeft
  <2>2. ASSUME NEW m \in Modules, progress[<<u, m>>].completed
        PROVE  progress'[<<u, m>>].completed
    <3>1. CASE txn[r].key = <<u, m>>
      <4>1. progress[<<u, m>>] \in Progress
        BY DEF IInv, CourseTypeOK, Keys
      <4>2. Written(progress[<<u, m>>], txn[r].row, right).completed
        BY <2>1, <2>2, <4>1, WrittenTypes
      <4> QED
        BY <1>1, <2>1, <3>1, <4>2 DEF IInv, CourseTypeOK
    <3>2. CASE txn[r].key # <<u, m>>
      BY <1>1, <2>1, <2>2, <3>2 DEF IInv, CourseTypeOK, Keys
    <3> QED
      BY <3>1, <3>2
  <2> QED
    BY <2>2 DEF Done
<1>2. CASE UNCHANGED progress
  BY <1>2 DEF Done
<1>3. ASSUME NEW r \in Requests, WrongCommit(r) PROVE Done(u) \subseteq Done(u)'
  <2>1. progress' = [progress EXCEPT ![txn[r].key] =
                       Written(@, txn[r].row, FALSE)]
    BY <1>3 DEF WrongCommit
  <2>2. txn[r] # Idle
    BY <1>3 DEF WrongCommit, Idle
  <2> QED
    BY <1>1, <2>1, <2>2
<1>4. ASSUME NEW r \in Requests, RightCommit(r) PROVE Done(u) \subseteq Done(u)'
  <2>1. progress' = [progress EXCEPT ![txn[r].key] =
                       Written(@, txn[r].row, TRUE)]
    BY <1>4 DEF RightCommit
  <2>2. txn[r] # Idle
    BY <1>4 DEF RightCommit, Idle
  <2> QED
    BY <1>1, <2>1, <2>2
<1> QED
  BY <1>2, <1>3, <1>4 DEF Next, Begin, Judge, Abort, cvars

LEMMA DoneIsTrueStep == IInv /\ [Next]_cvars => DoneIsTrue'
<1> SUFFICES ASSUME IInv, [Next]_cvars,
                    NEW r \in Requests, txn'[r].op = "flushed"
             PROVE  (txn[r].done \subseteq
                       Done(txn[r].key[1]) \cup {txn[r].key[2]})'
  BY DEF DoneIsTrue
<1>1. \/ txn'[r] = txn[r] /\ txn[r].key \in Keys
      \/ Judge(r)
  <2>1. CASE UNCHANGED txn
    BY <2>1, TxnTypes DEF IInv, Idle
  <2>2. ASSUME NEW q \in Requests, Finish(q) PROVE txn'[r] = txn[r] /\ r # q
    BY <2>2 DEF Finish, IInv, CourseTypeOK, Idle
  <2>3. ASSUME NEW q \in Requests, NEW k \in Keys, NEW a \in {"wrong", "right"},
               Begin(q, k, a)
        PROVE  txn'[r] = txn[r]
    BY <2>3 DEF Begin, IInv, CourseTypeOK
  <2>4. ASSUME NEW q \in Requests, Judge(q) PROVE q = r \/ txn'[r] = txn[r]
    BY <2>4 DEF Judge, IInv, CourseTypeOK
  <2>5. txn'[r] = txn[r] => txn[r].key \in Keys
    BY TxnTypes DEF IInv, Idle
  <2> QED
    BY <2>1, <2>2, <2>3, <2>4, <2>5
       DEF Next, WrongCommit, RightCommit, Abort, cvars
<1>2. CASE txn'[r] = txn[r] /\ txn[r].key \in Keys
  <2>1. PICK u \in Users : txn[r].key[1] = u
    BY <1>2 DEF Keys
  <2>2. txn[r].done \subseteq Done(u) \cup {txn[r].key[2]}
    BY <1>2, <2>1 DEF IInv, DoneIsTrue
  <2>3. txn[r].done \subseteq Done(u)' \cup {txn[r].key[2]}
    BY <2>2, DoneGrows
  <2> QED
    BY <1>2, <2>1, <2>3 DEF Done
<1>3. CASE Judge(r)
  <2>1. txn'[r].done = Done(txn[r].key[1]) \cup {txn[r].key[2]}
        /\ txn'[r].key = txn[r].key /\ UNCHANGED progress
    BY <1>3 DEF Judge, IInv, CourseTypeOK
  <2> QED
    BY <2>1 DEF Done
<1> QED
  BY <1>1, <1>2, <1>3

LEMMA EarnedStep == IInv /\ [Next]_cvars => EarnedByCourse'
<1> SUFFICES ASSUME IInv, [Next]_cvars, NEW u \in Users,
                    u \in certified' \/ u \notin student' \cup Staff
             PROVE  IsCourseComplete(Done(u))'
  BY DEF EarnedByCourse
<1>1. CASE u \in certified \/ u \notin student \cup Staff
  BY <1>1, DoneGrows DEF IInv, EarnedByCourse, IsCourseComplete
<1>2. CASE ~(u \in certified \/ u \notin student \cup Staff)
  <2>1. PICK r \in Requests : /\ RightCommit(r)
                              /\ IsCourseComplete(txn[r].done)
                              /\ txn[r].key[1] = u
    BY <1>2 DEF Next, Begin, WrongCommit, Judge, RightCommit, Abort, cvars
  <2> DEFINE k == txn[r].key
  <2>2. k \in Keys /\ txn[r].row \in Progress
        /\ txn[r].row.attempts < MaxAttempts
    BY <2>1, TxnTypes DEF IInv, AttemptsLeft, RightCommit, Idle
  <2>3. Written(progress[k], txn[r].row, TRUE).completed
    BY <2>2, WrittenTypes DEF IInv, CourseTypeOK
  <2>4. progress'[k].completed
    BY <2>1, <2>2, <2>3 DEF RightCommit, IInv, CourseTypeOK
  <2>5. k[2] \in Done(u)'
    BY <2>1, <2>2, <2>4 DEF Done, Keys
  <2>6. txn[r].done \subseteq Done(u) \cup {k[2]}
    BY <2>1 DEF IInv, DoneIsTrue, RightCommit
  <2> QED
    BY <2>1, <2>5, <2>6, DoneGrows DEF IsCourseComplete
<1> QED
  BY <1>1, <1>2

LEMMA Inductive == IInv /\ [Next]_cvars => IInv'
BY TypeStep, DoneIsTrueStep, EarnedStep DEF IInv

(* The tables, the attempt counters (never above the limit) and the        *)
(* answers in flight keep their types.                                     *)
THEOREM CourseTypes == Spec => []CourseTypeOK
BY InitHolds, Inductive, PTL DEF Spec, IInv

(* Whoever was admitted by the course has finished all of it, however many *)
(* answers were in flight at once.                                         *)
THEOREM AdmissionIsEarned == Spec => []EarnedByCourse
BY InitHolds, Inductive, PTL DEF Spec, IInv

(* No answer takes a finished module, an admission or a certificate away.  *)
THEOREM AdmissionStays == Spec => NothingIsTakenBack
<1>1. IInv /\ [Next]_cvars =>
        [\A u \in Users : /\ Done(u) \subseteq Done(u)'
                          /\ u \notin student => u \notin student'
                          /\ u \in certified => u \in certified']_cvars
  <2> SUFFICES ASSUME IInv, [Next]_cvars, NEW u \in Users
               PROVE  /\ Done(u) \subseteq Done(u)'
                      /\ u \notin student => u \notin student'
                      /\ u \in certified => u \in certified'
    OBVIOUS
  <2>1. u \notin student => u \notin student'
    BY DEF Next, Begin, WrongCommit, Judge, RightCommit, Abort, cvars
  <2>2. u \in certified => u \in certified'
    BY DEF Next, Begin, WrongCommit, Judge, RightCommit, Abort, cvars
  <2> QED
    BY <2>1, <2>2, DoneGrows
<1> QED
  BY <1>1, InitHolds, Inductive, PTL DEF Spec, NothingIsTakenBack
=============================================================================
