-------------------------------- MODULE Notices --------------------------------
(***************************************************************************)
(* Subscriptions to segments (api/v1/segments.py) and the notices that     *)
(* follow a decision on a report (the end of decide_report in              *)
(* moderation.py, services/notifications.py).  They are sent after the     *)
(* commit: a failure between the two loses them, and meanwhile other       *)
(* requests commit.                                                        *)
(***************************************************************************)
EXTENDS FieldReports

ASSUME NoticesAssumption == IsFiniteSet(Jobs)

VARIABLES subscribed,  \* table subscriptions
          told,        \* by report, how often its author got which notice
          news,        \* by user and segment, notices to a subscriber
          announced    \* jobs that have told the author

nvars == <<subscribed, told, news, announced>>
allvars == <<vars, nvars>>

Places == Users \X Segments

NoticesTypeOK ==
  /\ ReportsTypeOK
  /\ subscribed \subseteq Places
  /\ told \in [Keys -> [AuditActions -> Nat]]
  /\ news \in [Places -> Nat]
  /\ announced \subseteq {j \in Jobs : job[j].op = "decided"}

NoticesInit ==
  /\ ReportsInit
  /\ subscribed = {}
  /\ told = [k \in Keys |-> [a \in AuditActions |-> 0]]
  /\ news = [p \in Places |-> 0]
  /\ announced = {}

-----------------------------------------------------------------------------
(* PUT and DELETE /segments/{id}/subscription: one statement writes, and a *)
(* request that read a row or its absence too early fails without effect   *)
(* (the primary key is the pair), or writes nothing.                       *)
Subscribe(p) ==
  /\ p \notin subscribed
  /\ subscribed' = subscribed \cup {p}
  /\ UNCHANGED <<vars, told, news, announced>>

Unsubscribe(p) ==
  /\ p \in subscribed
  /\ subscribed' = subscribed \ {p}
  /\ UNCHANGED <<vars, told, news, announced>>

-----------------------------------------------------------------------------
(* Mutant: the author is told before the decision is committed. *)
TellBeforeCommit(j) ==
  /\ job[j].op = "decide"
  /\ \E a \in AuditActions : told' = [told EXCEPT ![job[j].key][a] = @ + 1]
  /\ UNCHANGED <<vars, subscribed, news, announced>>

TellAuthor(j) ==
  LET t == job[j]
  IN /\ t.op = "decided" /\ j \notin announced
     /\ told' = [told EXCEPT
          ![t.key][IF t.approved THEN "approved" ELSE "rejected"] = @ + 1]
     /\ announced' = announced \cup {j}
     /\ UNCHANGED <<vars, subscribed, news>>

(* The subscribers are those of the moment, not of the decision. *)
TellSubscribers(j) ==
  LET t == job[j]
      Follows(p) == p \in subscribed /\ p[2] = Site[t.key[2]]
  IN /\ j \in announced
     /\ Answered(j)
     /\ news' = [p \in Places |->
          IF t.approved /\ Follows(p) THEN news[p] + 1 ELSE news[p]]
     /\ announced' = announced \ {j}
     /\ UNCHANGED <<subscribed, told>>

NoticesNext ==
  \/ /\ \/ Next /\ UNCHANGED rvars
        \/ \E j \in Jobs : ReportStep(j)
     /\ announced' = {j \in announced : job'[j].op = "decided"}
     /\ UNCHANGED <<subscribed, told, news>>
  \/ \E j \in Jobs : TellAuthor(j) \/ TellSubscribers(j)
  \/ \E p \in Places : Subscribe(p) \/ Unsubscribe(p)

NoticesSpec == NoticesInit /\ [][NoticesNext]_allvars

-----------------------------------------------------------------------------
(* Properties *)

Entries(k, a) == {i \in DOMAIN audit[k] : audit[k][i] = a}
Approvals(s) == UNION {{k} \X Entries(k, "approved") :
                         k \in {k \in Keys : Site[k[2]] = s}}

(* moderation.py:507-508: notices go out only after the commit.  Nobody is *)
(* told what did not happen, nor twice: an author gets at most one notice  *)
(* for each decision in the journal, a subscriber at most one for each     *)
(* approval at the segment, whatever fails or overlaps.                    *)
NoticesAreTrue ==
  /\ \A k \in Keys, a \in AuditActions :
       told[k][a] <= Cardinality(Entries(k, a))
  /\ \A p \in Places : news[p] <= Cardinality(Approvals(p[2]))
=============================================================================
