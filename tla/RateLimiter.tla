------------------------------ MODULE RateLimiter ------------------------------
(***************************************************************************)
(* The sliding window that limits logins, registrations and signatures:    *)
(* SlidingWindowLimiter of backend/app/core/ratelimit.py, in one process.  *)
(* "check" runs without giving up the event loop, so it is one step.       *)
(***************************************************************************)
EXTENDS Integers, Sequences, SequencesExt

CONSTANTS Keys,      \* addresses of clients
          Limit,     \* requests allowed ...
          Period,    \* ... in so many ticks
          Second,    \* ticks per second: time.monotonic() is finer than that
          MaxKeys,   \* size of the dictionary above which it is pruned
          MaxTime    \* bound: the clock

ASSUME LimiterAssumption ==
  /\ Limit \in Nat \ {0} /\ Period \in Nat /\ Second \in Nat \ {0}
  /\ MaxKeys \in Nat /\ MaxTime \in Nat

VARIABLES now,       \* time.monotonic()
          hits,      \* _hits: by known key, its window of accepted requests
          accepted,  \* history: by key, the times of all accepted requests
          promised   \* history: by key, the time the last refusal named

lvars == <<now, hits, accepted, promised>>

TypeOK ==
  /\ now \in 0 .. MaxTime
  /\ DOMAIN hits \subseteq Keys
  /\ \A k \in DOMAIN hits : hits[k] \in Seq(0 .. now)
  /\ accepted \in [Keys -> Seq(0 .. now)]
  /\ promised \in [Keys -> Nat]

Init ==
  /\ now = 0
  /\ hits = [k \in {} |-> <<>>]
  /\ accepted = [k \in Keys |-> <<>>]
  /\ promised = [k \in Keys |-> 0]

Stale(hit) == now - hit > Period

(* Mutant: stale hits stay in the window. *)
WholeWindow(k) == IF k \in DOMAIN hits THEN hits[k] ELSE <<>>

(* Stale hits leave the window at its left, up to the first that is not. *)
Popped(window) == CHOOSE n \in 0 .. Len(window) :
                    /\ \A i \in 1 .. n : Stale(window[i])
                    /\ n < Len(window) => ~Stale(window[n + 1])

(* _hits[key] is a defaultdict. *)
Window(k) == IF k \in DOMAIN hits
             THEN SubSeq(hits[k], Popped(hits[k]) + 1, Len(hits[k])) ELSE <<>>

With(k, window) == [q \in DOMAIN hits \cup {k} |->
                      IF q = k THEN window ELSE hits[q]]

(* _prune: keys whose last hit is stale, or that have none, are forgotten. *)
(* Mutant: a key is forgotten when its first hit is stale. *)
LiveByFirst(window) == window # <<>> /\ ~Stale(Head(window))
Live(window) == window # <<>> /\ ~Stale(Last(window))
Pruned(table) == [q \in {p \in DOMAIN table : Live(table[p])} |-> table[q]]
(* Mutant: the table is never swept. *)
Unswept(table) == table
Swept(table) == IF Cardinality(DOMAIN table) > MaxKeys
                THEN Pruned(table) ELSE table

(* Mutant: the rounding is not made good. *)
RetryTooSoon(window) == (Period - (now - Head(window))) \div Second

(* int(period - (now - window[0])) + 1, in whole seconds *)
RetryAfter(window) == (Period - (now - Head(window))) \div Second + 1

Tick == /\ now < MaxTime
        /\ now' = now + 1
        /\ UNCHANGED <<hits, accepted, promised>>

(* Mutant: the time of expiry is stored instead of the time of the hit. *)
AcceptUntil(k) ==
  /\ Len(Window(k)) < Limit
  /\ hits' = Swept(With(k, Append(Window(k), now + Period)))
  /\ accepted' = [accepted EXCEPT ![k] = Append(@, now)]
  /\ promised' = [promised EXCEPT ![k] = 0]
  /\ UNCHANGED now

Accept(k) ==
  /\ Len(Window(k)) < Limit
  /\ hits' = Swept(With(k, Append(Window(k), now)))
  /\ accepted' = [accepted EXCEPT ![k] = Append(@, now)]
  /\ promised' = [promised EXCEPT ![k] = 0]
  /\ UNCHANGED now

Refuse(k) ==
  /\ Len(Window(k)) >= Limit
  /\ hits' = With(k, Window(k))
  /\ promised' = [promised EXCEPT
                    ![k] = now + Second * RetryAfter(Window(k))]
  /\ UNCHANGED <<now, accepted>>

Next == Tick \/ \E k \in Keys : Accept(k) \/ Refuse(k)

Spec == Init /\ [][Next]_lvars

-----------------------------------------------------------------------------
(* Properties *)

(* ratelimit.py:28: never more than Limit requests of a key within Period, *)
(* wherever the window is laid and whatever was pruned meanwhile.          *)
WindowIsBounded ==
  \A k \in Keys : \A i \in DOMAIN accepted[k] :
    LET j == i + Limit
    IN j \in DOMAIN accepted[k] => accepted[k][j] - accepted[k][i] > Period

(* The limit is not stricter than it says either: a refused client has     *)
(* really made Limit requests within the last Period.                      *)
RefusalIsDeserved ==
  [][\A k \in Keys : promised'[k] # 0 /\ promised'[k] # promised[k] =>
       /\ Len(accepted[k]) >= Limit
       /\ now - accepted[k][Len(accepted[k]) - Limit + 1] <= Period]_lvars

(* The retry_after_seconds of a refusal is honest: who waits that long     *)
(* (and made no other request) is let in, and nobody is told to wait more  *)
(* than a second too long.                                                 *)
RetryIsHonest ==
  \A k \in Keys : promised[k] # 0 =>
    /\ now >= promised[k] => Len(Window(k)) < Limit
    /\ now + Second < promised[k] => Len(Window(k)) = Limit

(* ratelimit.py:52-53: the dictionary does not grow without bound with     *)
(* each new address: it holds more than MaxKeys clients only while each of *)
(* them was let in within a Period of the newest request let in, whatever  *)
(* was popped, refused or forgotten since.                                 *)
TableIsBounded ==
  Cardinality(DOMAIN hits) > MaxKeys =>
    \A k \in DOMAIN hits, q \in Keys :
      /\ accepted[k] # <<>>
      /\ accepted[q] # <<>> => Last(accepted[q]) - Last(accepted[k]) <= Period
=============================================================================
