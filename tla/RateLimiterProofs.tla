--------------------------- MODULE RateLimiterProofs ---------------------------
(***************************************************************************)
(* Proofs about RateLimiter, for any clients, limit, period and clock.     *)
(*                                                                         *)
(* The window kept for a key is the end of the history of its accepted     *)
(* requests, and all that the window lacks is stale.  So the limit on the  *)
(* length of the window limits the history, though windows are popped,     *)
(* swept and forgotten at different times.                                 *)
(***************************************************************************)
EXTENDS RateLimiter, FiniteSetTheorems, NaturalsInduction, SequenceTheorems, TLAPS

(* The least of a set of natural numbers. *)
LEMMA Least ==
  ASSUME NEW N \in SUBSET Nat, N # {}
  PROVE  \E m \in N : \A n \in N : m <= n
<1> DEFINE less == {ss \in Nat \X Nat : ss[1] < ss[2]}
<1>1. OpToRel(<, Nat) = less
  BY DEF OpToRel
<1>2. IsWellFoundedOn(less, Nat)
  BY <1>1, NatLessThanWellFounded
<1>3. PICK m \in N : \A n \in N : <<n, m>> \notin less
  <2> HIDE DEF less
  <2> QED BY <1>2, WFMin
<1>4. \A n \in N : ~(n < m)
  BY <1>3
<1> QED BY <1>4

-----------------------------------------------------------------------------
(* A window w, the history a of accepted requests and the promise p of one *)
(* key at the time t.                                                      *)

Late(t, h) == t - h > Period

Ordered(t, a) ==
  /\ \A i \in 1 .. Len(a) : a[i] <= t
  /\ \A i, j \in 1 .. Len(a) : i <= j => a[i] <= a[j]

EndOf(w, a) ==
  /\ Len(w) <= Len(a)
  /\ \A i \in 1 .. Len(w) : w[i] = a[Len(a) - Len(w) + i]

Bounded(a) == \A i \in 1 .. Len(a) :
                i + Limit <= Len(a) => a[i + Limit] - a[i] > Period

Honest(a, p) ==
  p # 0 => /\ Len(a) >= Limit
           /\ LET h == a[Len(a) - Limit + 1]
              IN h + Period < p /\ p <= h + Period + Second

KeyState(t, w, a, p) ==
  /\ w \in Seq(Nat) /\ a \in Seq(Nat) /\ p \in Nat
  /\ Ordered(t, a) /\ EndOf(w, a) /\ Len(w) <= Limit
  /\ \A i \in 1 .. Len(a) - Len(w) : Late(t, a[i])
  /\ Bounded(a) /\ Honest(a, p)

LEMMA TimeKeeps ==
  ASSUME NEW t \in Nat, NEW w, NEW a, NEW p, KeyState(t, w, a, p)
  PROVE  KeyState(t + 1, w, a, p)
<1>1. \A i \in 1 .. Len(a) : a[i] \in Nat
  BY DEF KeyState
<1>2. Ordered(t + 1, a)
  BY <1>1 DEF KeyState, Ordered
<1>3. ASSUME NEW i \in 1 .. Len(a) - Len(w) PROVE Late(t + 1, a[i])
  <2>1. a[i] \in Nat /\ Late(t, a[i])
    BY <1>1, <1>3 DEF KeyState
  <2> QED BY <2>1, LimiterAssumption DEF Late
<1> QED BY <1>2, <1>3 DEF KeyState

(* A window may lose late hits, all of them if its last one is late. *)
LEMMA LateHitsLeave ==
  ASSUME NEW t \in Nat, NEW w, NEW a, NEW p, KeyState(t, w, a, p),
         NEW v \in Seq(Nat), EndOf(v, w),
         \A i \in 1 .. Len(w) - Len(v) : Late(t, w[i])
  PROVE  KeyState(t, v, a, p) /\ Len(v) <= Len(w)
<1>1. /\ Len(a) \in Nat /\ Len(w) \in Nat /\ Len(v) \in Nat
      /\ Len(v) <= Len(w) /\ Len(w) <= Len(a)
      /\ \A i \in 1 .. Len(w) : w[i] = a[Len(a) - Len(w) + i]
      /\ \A i \in 1 .. Len(v) : v[i] = w[Len(w) - Len(v) + i]
  BY DEF KeyState, EndOf
<1>2. EndOf(v, a)
  <2>1. ASSUME NEW i \in 1 .. Len(v) PROVE v[i] = a[Len(a) - Len(v) + i]
    <3>1. PICK j \in 1 .. Len(w) : j = Len(w) - Len(v) + i
      BY <1>1
    <3>2. v[i] = w[j] /\ w[j] = a[Len(a) - Len(w) + j]
      BY <1>1, <3>1
    <3>3. Len(a) - Len(w) + j = Len(a) - Len(v) + i
      BY <1>1, <3>1
    <3> QED BY <3>2, <3>3
  <2> QED BY <1>1, <2>1 DEF EndOf
<1>3. ASSUME NEW i \in 1 .. Len(a) - Len(v) PROVE Late(t, a[i])
  <2>1. CASE i <= Len(a) - Len(w)
    <3>1. i \in 1 .. Len(a) - Len(w)
      BY <1>1, <2>1
    <3> QED BY <3>1 DEF KeyState
  <2>2. CASE ~(i <= Len(a) - Len(w))
    <3> DEFINE j == i - (Len(a) - Len(w))
    <3>1. j \in 1 .. Len(w) - Len(v)
      <4>1. PICK x \in Int, y \in Int, z \in Int :
              x = Len(a) /\ y = Len(w) /\ z = Len(v)
        BY <1>1
      <4>2. i \in Int /\ 1 <= i /\ i <= x - z /\ ~(i <= x - y)
        BY <2>2, <4>1
      <4>3. i - (x - y) \in 1 .. y - z
        BY <4>2
      <4> QED BY <4>1, <4>3
    <3>2. j \in 1 .. Len(w) /\ Len(a) - Len(w) + j = i
      BY <1>1, <3>1
    <3>3. w[j] = a[i] /\ Late(t, w[j])
      BY <1>1, <3>2
    <3> QED BY <3>3
  <2> QED BY <2>1, <2>2
<1>4. Limit \in Nat /\ Len(v) <= Limit
  BY <1>1, LimiterAssumption DEF KeyState
<1> QED BY <1>1, <1>2, <1>3, <1>4 DEF KeyState

LEMMA LateKeysLeave ==
  ASSUME NEW t \in Nat, NEW w, NEW a, NEW p, KeyState(t, w, a, p),
         w = <<>> \/ Late(t, w[Len(w)])
  PROVE  KeyState(t, <<>>, a, p)
<1>1. /\ Len(a) \in Nat /\ Len(w) \in Nat /\ Len(w) <= Len(a)
      /\ \A i \in 1 .. Len(w) : w[i] = a[Len(a) - Len(w) + i] /\ w[i] \in Nat
      /\ \A i \in 1 .. Len(a) : a[i] \in Nat
      /\ \A i, j \in 1 .. Len(a) : i <= j => a[i] <= a[j]
  BY DEF KeyState, EndOf, Ordered
<1>2. ASSUME NEW i \in 1 .. Len(w) PROVE Late(t, w[i])
  <2>1. Late(t, w[Len(w)]) /\ Len(w) \in 1 .. Len(w)
    BY <1>1, <1>2
  <2>2. PICK j \in 1 .. Len(a) : j = Len(a) - Len(w) + i
    BY <1>1, <1>2
  <2>3. Len(a) \in 1 .. Len(a) /\ j <= Len(a) /\ Len(a) - Len(w) + Len(w) = Len(a)
    BY <1>1, <2>2
  <2>4. w[i] = a[j] /\ w[Len(w)] = a[Len(a)]
    BY <1>1, <2>1, <2>2, <2>3
  <2>5. a[j] <= a[Len(a)] /\ a[j] \in Nat /\ a[Len(a)] \in Nat
    BY <1>1, <2>3
  <2> QED BY <2>1, <2>4, <2>5, LimiterAssumption DEF Late
<1>3. EndOf(<<>>, w) /\ Len(w) - Len(<<>>) = Len(w) /\ <<>> \in Seq(Nat)
  BY <1>1 DEF EndOf
<1>4. KeyState(t, <<>>, a, p)
  BY <1>2, <1>3, LateHitsLeave
<1> QED BY <1>4

-----------------------------------------------------------------------------
(* The window that check works on. *)

Known(k) == IF k \in DOMAIN hits THEN hits[k] ELSE <<>>

LEMMA PoppedAre ==
  ASSUME NEW w \in Seq(Nat)
  PROVE  /\ Popped(w) \in 0 .. Len(w)
         /\ \A i \in 1 .. Popped(w) : Stale(w[i])
         /\ Popped(w) < Len(w) => ~Stale(w[Popped(w) + 1])
<1> DEFINE N == {n \in 0 .. Len(w) : n = Len(w) \/ ~Stale(w[n + 1])}
           Fits(n) == /\ \A i \in 1 .. n : Stale(w[i])
                      /\ n < Len(w) => ~Stale(w[n + 1])
<1>1. Len(w) \in N /\ N \subseteq Nat
  OBVIOUS
<1>2. PICK m \in N : \A n \in N : m <= n
  <2> HIDE DEF N
  <2> QED BY <1>1, Least
<1>3. ASSUME NEW i \in 1 .. m PROVE Stale(w[i])
  <2>1. i - 1 \in 0 .. Len(w) /\ i - 1 # Len(w) /\ i - 1 < m /\ (i - 1) + 1 = i
    BY <1>2
  <2>2. i - 1 \notin N
    <3>1. m \in Nat /\ i - 1 < m /\ i - 1 \in Int
      BY <1>2, <2>1
    <3> HIDE DEF N
    <3>2. i - 1 \in N => m <= i - 1
      BY <1>2
    <3> QED BY <3>1, <3>2
  <2> QED BY <2>1, <2>2
<1>4. m \in 0 .. Len(w) /\ Fits(m)
  BY <1>2, <1>3
<1>5. Popped(w) = CHOOSE n \in 0 .. Len(w) : Fits(n)
  BY DEF Popped
<1>6. Popped(w) \in 0 .. Len(w) /\ Fits(Popped(w))
  <2> HIDE DEF Fits
  <2> QED BY <1>4, <1>5
<1> QED BY <1>6

(* It is the end of the window that is not stale. *)
LEMMA WindowIsLive ==
  ASSUME now \in Nat, NEW k, NEW a, NEW p, KeyState(now, Known(k), a, p)
  PROVE  /\ KeyState(now, Window(k), a, p)
         /\ Len(Window(k)) <= Len(Known(k))
         /\ \A i \in 1 .. Len(Window(k)) : ~Stale(Window(k)[i])
<1> DEFINE w == Known(k)
           n == Popped(w)
           v == SubSeq(w, n + 1, Len(w))
<1>1. CASE k \notin DOMAIN hits
  <2>1. Known(k) = <<>> /\ Window(k) = <<>>
    BY <1>1 DEF Known, Window
  <2> QED BY <2>1
<1>2. CASE k \in DOMAIN hits
  <2>1. Window(k) = v
    BY <1>2 DEF Window, Known
  <2>2. /\ w \in Seq(Nat) /\ Len(w) \in Nat /\ Len(a) \in Nat /\ Len(w) <= Len(a)
        /\ \A i \in 1 .. Len(w) : w[i] = a[Len(a) - Len(w) + i] /\ w[i] \in Nat
        /\ \A i, j \in 1 .. Len(a) : i <= j => a[i] <= a[j]
    BY DEF KeyState, EndOf, Ordered
  <2>3. /\ n \in 0 .. Len(w)
        /\ \A i \in 1 .. n : Stale(w[i])
        /\ n < Len(w) => ~Stale(w[n + 1])
    BY <2>2, PoppedAre
  <2> HIDE DEF n, w
  <2>4. /\ v \in Seq(Nat) /\ Len(v) = Len(w) - n
        /\ \A i \in 1 .. Len(v) : v[i] = w[n + i]
    <3>1. \A i \in n + 1 .. Len(w) : w[i] \in Nat
      BY <2>2, <2>3
    <3>2. n + 1 \in Int /\ Len(w) \in Int
      BY <2>2, <2>3
    <3>3. /\ v \in Seq(Nat)
          /\ Len(v) = IF n + 1 <= Len(w) THEN Len(w) - (n + 1) + 1 ELSE 0
          /\ \A i \in 1 .. Len(w) - (n + 1) + 1 : v[i] = w[n + 1 + i - 1]
      BY <3>1, <3>2, SubSeqProperties
    <3>4. Len(v) = Len(w) - n
      BY <2>2, <2>3, <3>3
    <3> HIDE DEF v
    <3>5. ASSUME NEW i \in 1 .. Len(v) PROVE v[i] = w[n + i]
      <4>1. i \in 1 .. Len(w) - (n + 1) + 1
        BY <2>2, <2>3, <3>4
      <4>2. n + 1 + i - 1 = n + i
        BY <2>3
      <4>3. v[i] = w[n + 1 + i - 1]
        BY <3>3, <4>1
      <4> QED BY <4>2, <4>3
    <3> QED BY <3>3, <3>4, <3>5
  <2> HIDE DEF v
  <2>5. EndOf(v, w) /\ Len(w) - Len(v) = n
    BY <2>2, <2>3, <2>4 DEF EndOf
  <2>6. \A i \in 1 .. Len(w) - Len(v) : Late(now, w[i])
    BY <2>3, <2>5 DEF Late, Stale
  <2>7. KeyState(now, v, a, p) /\ Len(v) <= Len(w)
    BY <2>4, <2>5, <2>6, LateHitsLeave DEF w
  <2>8. ASSUME NEW i \in 1 .. Len(v) PROVE ~Stale(v[i])
    <3>1. n < Len(w) /\ n + 1 \in 1 .. Len(w) /\ n + i \in 1 .. Len(w) /\ n + 1 <= n + i
      BY <2>2, <2>3, <2>4
    <3> DEFINE x == Len(a) - Len(w) + (n + 1)
               y == Len(a) - Len(w) + (n + i)
    <3>2. x \in 1 .. Len(a) /\ y \in 1 .. Len(a) /\ x <= y
      <4>1. n + 1 \in Int /\ n + i \in Int /\ 1 <= n + 1 /\ n + i <= Len(w)
            /\ n + 1 <= n + i
        BY <2>2, <2>3, <3>1
      <4> QED BY <2>2, <4>1
    <3>3. w[n + 1] = a[x] /\ w[n + i] = a[y]
      BY <2>2, <3>1
    <3> HIDE DEF x, y
    <3>4. w[n + 1] <= w[n + i] /\ w[n + 1] \in Nat /\ w[n + i] \in Nat
      BY <2>2, <3>1, <3>2, <3>3
    <3>5. ~(now - w[n + 1] > Period)
      BY <2>3, <3>1 DEF Stale
    <3> QED BY <2>4, <3>4, <3>5, LimiterAssumption DEF Stale
  <2> QED BY <2>1, <2>7, <2>8 DEF w
<1> QED BY <1>1, <1>2

-----------------------------------------------------------------------------
(* An accepted request. *)
LEMMA HitIsAdded ==
  ASSUME NEW t \in Nat, NEW v, NEW a, NEW p, KeyState(t, v, a, p),
         Len(v) < Limit
  PROVE  KeyState(t, Append(v, t), Append(a, t), 0)
<1> DEFINE w == Append(v, t)
           b == Append(a, t)
<1>1. /\ v \in Seq(Nat) /\ a \in Seq(Nat)
      /\ Len(v) \in Nat /\ Len(a) \in Nat /\ Len(v) <= Len(a)
      /\ \A i \in 1 .. Len(v) : v[i] = a[Len(a) - Len(v) + i]
      /\ \A i \in 1 .. Len(a) : a[i] \in Nat /\ a[i] <= t
      /\ \A i, j \in 1 .. Len(a) : i <= j => a[i] <= a[j]
      /\ \A i \in 1 .. Len(a) - Len(v) : t - a[i] > Period
      /\ Limit \in Nat \ {0} /\ Period \in Nat
  BY LimiterAssumption DEF KeyState, EndOf, Ordered, Late
<1>2. /\ w \in Seq(Nat) /\ b \in Seq(Nat)
      /\ Len(w) = Len(v) + 1 /\ Len(b) = Len(a) + 1
      /\ \A i \in 1 .. Len(v) : w[i] = v[i]
      /\ \A i \in 1 .. Len(a) : b[i] = a[i]
      /\ w[Len(w)] = t /\ b[Len(b)] = t
  BY <1>1
<1> HIDE DEF w, b
<1>0. Len(a) \in Nat /\ Len(b) = Len(a) + 1 /\ Limit \in Nat \ {0}
  BY <1>1, <1>2
<1>3. \A i \in 1 .. Len(b) : i \in 1 .. Len(a) \/ i = Len(b)
  BY <1>0
<1>4. Ordered(t, b)
  <2>1. ASSUME NEW i \in 1 .. Len(b) PROVE b[i] <= t
    <3>1. CASE i = Len(b)
      BY <1>2, <3>1
    <3>2. CASE i \in 1 .. Len(a)
      BY <1>1, <1>2, <3>2
    <3> QED BY <1>3, <3>1, <3>2
  <2>2. ASSUME NEW i \in 1 .. Len(b), NEW j \in 1 .. Len(b), i <= j
        PROVE  b[i] <= b[j]
    <3>1. CASE j = Len(b)
      BY <1>2, <2>1, <3>1
    <3>2. CASE j # Len(b)
      <4>1. i \in 1 .. Len(a) /\ j \in 1 .. Len(a)
        BY <1>0, <2>2, <3>2
      <4> QED BY <1>1, <1>2, <2>2, <4>1
    <3> QED BY <3>1, <3>2
  <2> QED BY <2>1, <2>2 DEF Ordered
<1>5. EndOf(w, b)
  <2>1. ASSUME NEW i \in 1 .. Len(w) PROVE w[i] = b[Len(b) - Len(w) + i]
    <3>1. CASE i = Len(w)
      BY <1>1, <1>2, <3>1
    <3>2. CASE i # Len(w)
      <4>1. i \in 1 .. Len(v) /\ Len(b) - Len(w) + i = Len(a) - Len(v) + i
        BY <1>1, <1>2, <3>2
      <4>2. Len(a) - Len(v) + i \in 1 .. Len(a)
        BY <1>1, <4>1
      <4> QED BY <1>1, <1>2, <4>1, <4>2
    <3> QED BY <3>1, <3>2
  <2> QED BY <1>1, <1>2, <2>1 DEF EndOf
<1>6. ASSUME NEW i \in 1 .. Len(b) - Len(w) PROVE Late(t, b[i])
  <2>1. i \in 1 .. Len(a) - Len(v) /\ i \in 1 .. Len(a)
    BY <1>1, <1>2
  <2> QED BY <1>1, <1>2, <2>1 DEF Late
<1>7. ASSUME NEW i \in 1 .. Len(b), i + Limit <= Len(b)
      PROVE  b[i + Limit] - b[i] > Period
  <2>1. CASE i + Limit = Len(b)
    <3>1. i \in 1 .. Len(a) - Len(v) /\ i \in 1 .. Len(a)
      BY <1>1, <1>2, <2>1
    <3> QED BY <1>1, <1>2, <2>1, <3>1
  <2>2. CASE i + Limit # Len(b)
    <3>1. i \in 1 .. Len(a) /\ i + Limit \in 1 .. Len(a) /\ i + Limit <= Len(a)
      BY <1>0, <1>7, <2>2
    <3>2. a[i + Limit] - a[i] > Period
      BY <3>1 DEF KeyState, Bounded
    <3> QED BY <1>2, <3>1, <3>2
  <2> QED BY <2>1, <2>2
<1>8. Len(w) <= Limit /\ Honest(b, 0)
  BY <1>1, <1>2 DEF Honest
<1> QED BY <1>2, <1>4, <1>5, <1>6, <1>7, <1>8 DEF KeyState, Bounded, w, b

LEMMA RoundedUp ==
  ASSUME NEW d \in Nat, NEW s \in Nat \ {0}
  PROVE  LET c == s * (d \div s + 1)
         IN c \in Nat /\ d < c /\ c <= d + s
<1>1. PICK q \in Nat : q = d \div s
  OBVIOUS
<1>2. s * q <= d /\ d < s * q + s
  BY <1>1
<1>3. s * (q + 1) = s * q + s /\ s * q \in Nat
  OBVIOUS
<1> QED BY <1>1, <1>2, <1>3

(* A refused one is told when its oldest hit will have left. *)
LEMMA PromiseIsMade ==
  ASSUME NEW t \in Nat, NEW v, NEW a, NEW p, KeyState(t, v, a, p),
         Len(v) >= Limit, \A i \in 1 .. Len(v) : ~Late(t, v[i])
  PROVE  /\ Len(v) = Limit /\ Len(a) >= Limit
         /\ ~Late(t, a[Len(a) - Limit + 1])
         /\ KeyState(t, v, a, t + Second * ((Period - (t - Head(v))) \div Second + 1))
<1> DEFINE h == a[Len(a) - Limit + 1]
           d == Period - (t - h)
           c == Second * (d \div Second + 1)
<1>1. /\ v \in Seq(Nat) /\ a \in Seq(Nat)
      /\ Len(v) \in Nat /\ Len(a) \in Nat /\ Len(v) <= Len(a) /\ Len(v) <= Limit
      /\ \A i \in 1 .. Len(v) : v[i] = a[Len(a) - Len(v) + i]
      /\ \A i \in 1 .. Len(a) : a[i] \in Nat /\ a[i] <= t
      /\ Limit \in Nat \ {0} /\ Period \in Nat /\ Second \in Nat \ {0}
  BY LimiterAssumption DEF KeyState, EndOf, Ordered
<1>2. Len(v) = Limit /\ 1 \in 1 .. Len(v) /\ Len(a) - Limit + 1 \in 1 .. Len(a)
  BY <1>1
<1>3. Head(v) = h /\ v[1] = h
  BY <1>1, <1>2
<1>4. h \in Nat /\ h <= t /\ ~Late(t, h)
  BY <1>1, <1>2, <1>3
<1> HIDE DEF h
<1>5. d \in Nat
  BY <1>1, <1>4 DEF Late
<1> HIDE DEF d
<1>6. c \in Nat /\ d < c /\ c <= d + Second
  BY <1>1, <1>5, RoundedUp
<1> HIDE DEF c
<1>7. h + Period < t + c /\ t + c <= h + Period + Second /\ t + c \in Nat
  BY <1>1, <1>4, <1>6 DEF d
<1>8. Honest(a, t + c)
  BY <1>1, <1>2, <1>7 DEF Honest, h
<1>9. KeyState(t, v, a, t + c)
  BY <1>7, <1>8 DEF KeyState
<1> QED BY <1>1, <1>2, <1>3, <1>4, <1>9 DEF h, c, d

-----------------------------------------------------------------------------
(* The inductive invariant. *)

LInv ==
  /\ now \in 0 .. MaxTime
  /\ DOMAIN hits \subseteq Keys /\ IsFiniteSet(DOMAIN hits)
  /\ accepted \in [Keys -> Seq(Nat)] /\ promised \in [Keys -> Nat]
  /\ \A k \in Keys : KeyState(now, Known(k), accepted[k], promised[k])

LEMMA WithIs ==
  ASSUME NEW k, NEW w
  PROVE  /\ DOMAIN With(k, w) = DOMAIN hits \cup {k} /\ With(k, w)[k] = w
         /\ \A q \in DOMAIN hits \ {k} : With(k, w)[q] = hits[q]
BY DEF With

(* Only keys that are no longer live are swept out. *)
LEMMA SweptIs ==
  ASSUME NEW table
  PROVE  /\ DOMAIN Swept(table) \subseteq DOMAIN table
         /\ \A q \in DOMAIN Swept(table) : Swept(table)[q] = table[q]
         /\ \A q \in DOMAIN table \ DOMAIN Swept(table) : ~Live(table[q])
BY DEF Swept, Pruned

LEMMA LimiterBegins == Init => LInv
<1> SUFFICES ASSUME Init PROVE LInv
  OBVIOUS
<1>1. DOMAIN hits = {} /\ IsFiniteSet({})
  BY FS_EmptySet DEF Init
<1>2. now \in 0 .. MaxTime /\ promised \in [Keys -> Nat]
  BY LimiterAssumption DEF Init
<1>3. accepted \in [Keys -> Seq(Nat)]
  BY DEF Init
<1>4. ASSUME NEW k \in Keys
      PROVE  KeyState(now, Known(k), accepted[k], promised[k])
  <2>1. Known(k) = <<>> /\ accepted[k] = <<>> /\ promised[k] = 0
    BY <1>1 DEF Init, Known
  <2>2. KeyState(now, <<>>, <<>>, 0)
    BY LimiterAssumption DEF KeyState, Ordered, EndOf, Bounded, Honest
  <2> QED BY <2>1, <2>2
<1> QED BY <1>1, <1>2, <1>3, <1>4 DEF LInv

LEMMA TickStep ==
  ASSUME LInv, Tick
  PROVE  LInv'
<1>1. now \in Nat /\ now' = now + 1 /\ now' \in 0 .. MaxTime
  BY LimiterAssumption DEF LInv, Tick
<1>2. UNCHANGED <<hits, accepted, promised>>
  BY DEF Tick
<1>3. ASSUME NEW k \in Keys
      PROVE  KeyState(now', Known(k)', accepted'[k], promised'[k])
  <2>1. PICK w, a, p : w = Known(k) /\ a = accepted[k] /\ p = promised[k]
    OBVIOUS
  <2>2. KeyState(now + 1, w, a, p)
    BY <1>1, <2>1, TimeKeeps DEF LInv
  <2> QED BY <1>1, <1>2, <2>1, <2>2 DEF Known
<1> QED BY <1>1, <1>2, <1>3 DEF LInv

LEMMA AcceptStep ==
  ASSUME LInv, NEW k \in Keys, Accept(k)
  PROVE  LInv'
<1> DEFINE w == Append(Window(k), now)
           table == With(k, w)
<1>1. /\ now \in Nat /\ UNCHANGED now /\ Len(Window(k)) < Limit
      /\ hits' = Swept(table)
      /\ accepted' = [accepted EXCEPT ![k] = Append(@, now)]
      /\ promised' = [promised EXCEPT ![k] = 0]
  BY DEF LInv, Accept
<1>2. KeyState(now, w, Append(accepted[k], now), 0)
  <2>1. PICK v, a, p : v = Window(k) /\ a = accepted[k] /\ p = promised[k]
    OBVIOUS
  <2>2. KeyState(now, v, a, p)
    BY <1>1, <2>1, WindowIsLive DEF LInv
  <2>3. KeyState(now, Append(v, now), Append(a, now), 0)
    BY <1>1, <2>1, <2>2, HitIsAdded
  <2> QED BY <2>1, <2>3
<1>3. Live(w)
  <2>1. Window(k) \in Seq(Nat)
    BY <1>1, WindowIsLive DEF LInv, KeyState
  <2>2. w # <<>> /\ Last(w) = now
    BY <1>1, <2>1 DEF Last
  <2> QED BY <1>1, <2>2, LimiterAssumption DEF Live, Stale
<1> HIDE DEF w
<1>4. /\ DOMAIN table = DOMAIN hits \cup {k} /\ table[k] = w
      /\ \A q \in DOMAIN hits \ {k} : table[q] = hits[q]
  BY WithIs
<1> HIDE DEF table
<1>5. /\ DOMAIN hits' \subseteq DOMAIN table
      /\ \A q \in DOMAIN hits' : hits'[q] = table[q]
      /\ \A q \in DOMAIN table \ DOMAIN hits' : ~Live(table[q])
  BY <1>1, SweptIs
<1>6. DOMAIN hits' \subseteq Keys /\ IsFiniteSet(DOMAIN hits')
  <2>1. IsFiniteSet(DOMAIN hits \cup {k})
    BY FS_AddElement DEF LInv
  <2> QED BY <1>4, <1>5, <2>1, FS_Subset DEF LInv
<1>7. Append(accepted[k], now) \in Seq(Nat)
  BY <1>1 DEF LInv
<1>8. accepted' \in [Keys -> Seq(Nat)] /\ promised' \in [Keys -> Nat]
  BY <1>1, <1>7 DEF LInv
<1>9. ASSUME NEW q \in Keys
      PROVE  KeyState(now, Known(q)', accepted'[q], promised'[q])
  <2>1. CASE q = k
    <3>1. k \in DOMAIN hits' /\ hits'[k] = w
      BY <1>3, <1>4, <1>5
    <3>2. Known(k)' = w
      BY <3>1 DEF Known
    <3>3. accepted'[k] = Append(accepted[k], now) /\ promised'[k] = 0
      BY <1>1 DEF LInv
    <3> QED BY <1>2, <2>1, <3>2, <3>3
  <2>2. CASE q # k
    <3>1. accepted'[q] = accepted[q] /\ promised'[q] = promised[q]
      BY <1>1, <2>2 DEF LInv
    <3>2. CASE q \in DOMAIN hits'
      <4>1. q \in DOMAIN hits /\ hits'[q] = hits[q]
        BY <1>4, <1>5, <2>2, <3>2
      <4>2. Known(q)' = Known(q)
        BY <3>2, <4>1 DEF Known
      <4> QED BY <3>1, <4>2 DEF LInv
    <3>3. CASE q \notin DOMAIN hits'
      <4>1. Known(q)' = <<>>
        BY <3>3 DEF Known
      <4>2. PICK x, a, p : x = Known(q) /\ a = accepted[q] /\ p = promised[q]
        OBVIOUS
      <4>3. KeyState(now, x, a, p)
        BY <4>2 DEF LInv
      <4>4. x = <<>> \/ Late(now, x[Len(x)])
        BY <1>4, <1>5, <2>2, <3>3, <4>2 DEF Known, Live, Stale, Late, Last
      <4>5. KeyState(now, <<>>, a, p)
        BY <1>1, <4>3, <4>4, LateKeysLeave
      <4> QED BY <3>1, <4>1, <4>2, <4>5
    <3> QED BY <3>2, <3>3
  <2> QED BY <2>1, <2>2
<1> QED BY <1>1, <1>6, <1>8, <1>9 DEF LInv

(* A refusal keeps the popped window and makes a promise. *)
LEMMA RefusalIs ==
  ASSUME LInv, NEW k \in Keys, Refuse(k)
  PROVE  /\ KeyState(now, Window(k), accepted[k], promised'[k])
         /\ Len(accepted[k]) >= Limit
         /\ ~Stale(accepted[k][Len(accepted[k]) - Limit + 1])
<1>1. PICK v, a, p : v = Window(k) /\ a = accepted[k] /\ p = promised[k]
  OBVIOUS
<1>2. now \in Nat /\ KeyState(now, Known(k), a, p)
  BY <1>1 DEF LInv
<1>3. /\ KeyState(now, v, a, p) /\ Len(v) >= Limit
      /\ \A i \in 1 .. Len(v) : ~Late(now, v[i])
  BY <1>1, <1>2, WindowIsLive DEF Stale, Late, Refuse
<1>4. promised'[k] = now + Second * ((Period - (now - Head(v))) \div Second + 1)
  BY <1>1 DEF LInv, Refuse, RetryAfter
<1>5. /\ Len(a) >= Limit /\ ~Late(now, a[Len(a) - Limit + 1])
      /\ KeyState(now, v, a, now + Second * ((Period - (now - Head(v))) \div Second + 1))
  BY <1>2, <1>3, PromiseIsMade
<1> QED BY <1>1, <1>4, <1>5 DEF Stale, Late

LEMMA RefuseStep ==
  ASSUME LInv, NEW k \in Keys, Refuse(k)
  PROVE  LInv'
<1>1. /\ UNCHANGED <<now, accepted>> /\ hits' = With(k, Window(k))
      /\ DOMAIN promised' = Keys
      /\ \A q \in Keys \ {k} : promised'[q] = promised[q]
      /\ promised' = [q \in Keys |-> promised'[q]]
  BY DEF LInv, Refuse
<1>2. KeyState(now, Window(k), accepted[k], promised'[k])
  BY RefusalIs
<1>3. /\ DOMAIN hits' = DOMAIN hits \cup {k} /\ hits'[k] = Window(k)
      /\ \A q \in DOMAIN hits \ {k} : hits'[q] = hits[q]
  <2>1. PICK w : w = Window(k)
    OBVIOUS
  <2>2. /\ DOMAIN With(k, w) = DOMAIN hits \cup {k} /\ With(k, w)[k] = w
        /\ \A q \in DOMAIN hits \ {k} : With(k, w)[q] = hits[q]
    BY WithIs
  <2>3. hits' = With(k, w)
    BY <1>1, <2>1
  <2> QED BY <2>1, <2>2, <2>3
<1>4. promised' \in [Keys -> Nat]
  <2>1. promised'[k] \in Nat
    BY <1>2 DEF KeyState
  <2>2. \A q \in Keys : promised'[q] \in Nat
    BY <1>1, <2>1 DEF LInv
  <2> QED BY <1>1, <2>2
<1>5. IsFiniteSet(DOMAIN hits') /\ DOMAIN hits' \subseteq Keys
  <2>1. IsFiniteSet(DOMAIN hits \cup {k}) /\ DOMAIN hits \subseteq Keys
    BY FS_AddElement DEF LInv
  <2> QED BY <1>3, <2>1
<1>6. ASSUME NEW q \in Keys
      PROVE  KeyState(now, Known(q)', accepted'[q], promised'[q])
  <2>1. CASE q = k
    BY <1>1, <1>2, <1>3, <2>1 DEF Known
  <2>2. CASE q # k
    <3>1. Known(q)' = Known(q)
      BY <1>3, <2>2 DEF Known
    <3> QED BY <1>1, <2>2, <3>1 DEF LInv
  <2> QED BY <2>1, <2>2
<1> QED BY <1>1, <1>4, <1>5, <1>6 DEF LInv

LEMMA LimiterAlways == Spec => []LInv
<1>1. ASSUME LInv, [Next]_lvars PROVE LInv'
  <2>1. CASE UNCHANGED lvars
    BY <1>1, <2>1 DEF lvars, LInv, Known
  <2> QED BY <1>1, <2>1, TickStep, AcceptStep, RefuseStep DEF Next
<1> QED BY <1>1, LimiterBegins, PTL DEF Spec

-----------------------------------------------------------------------------
(* The theorems. *)

(* The table and the histories hold times that have been. *)
THEOREM LimiterTypeCorrect == Spec => []TypeOK
<1>1. ASSUME LInv PROVE TypeOK
  <2>1. now \in Nat /\ DOMAIN hits \subseteq Keys
    BY <1>1, LimiterAssumption DEF LInv
  <2>2. ASSUME NEW k \in Keys, NEW w, NEW a, NEW p, KeyState(now, w, a, p)
        PROVE  w \in Seq(0 .. now) /\ a \in Seq(0 .. now)
    <3>1. /\ w \in Seq(Nat) /\ a \in Seq(Nat)
          /\ \A i \in 1 .. Len(a) : a[i] \in 0 .. now
      BY <2>1, <2>2 DEF KeyState, Ordered
    <3>2. ASSUME NEW i \in 1 .. Len(w) PROVE w[i] \in 0 .. now
      <4>1. /\ Len(w) \in Nat /\ Len(a) \in Nat /\ Len(w) <= Len(a)
            /\ w[i] = a[Len(a) - Len(w) + i]
        BY <2>2, <3>1 DEF KeyState, EndOf
      <4>2. Len(a) - Len(w) + i \in 1 .. Len(a)
        BY <4>1
      <4> QED BY <3>1, <4>1, <4>2
    <3>3. /\ w \in [1 .. Len(w) -> 0 .. now] /\ Len(w) \in Nat
          /\ a \in [1 .. Len(a) -> 0 .. now] /\ Len(a) \in Nat
      BY <3>1, <3>2
    <3> QED BY <3>3, SeqDef
  <2>3. ASSUME NEW k \in Keys
        PROVE  Known(k) \in Seq(0 .. now) /\ accepted[k] \in Seq(0 .. now)
    <3>1. KeyState(now, Known(k), accepted[k], promised[k])
      BY <1>1 DEF LInv
    <3> QED BY <2>2, <3>1
  <2>4. \A k \in DOMAIN hits : hits[k] \in Seq(0 .. now)
    BY <2>1, <2>3 DEF Known
  <2>5. accepted \in [Keys -> Seq(0 .. now)]
    BY <1>1, <2>3 DEF LInv
  <2> QED BY <1>1, <2>1, <2>4, <2>5 DEF LInv, TypeOK
<1> QED BY <1>1, LimiterAlways, PTL

(* Between a request that is accepted and the Limit-th one after it lies   *)
(* more than a Period, wherever in the history it is.                      *)
THEOREM LimitIsKept == Spec => []WindowIsBounded
<1>1. ASSUME LInv PROVE WindowIsBounded
  <2> SUFFICES ASSUME NEW k \in Keys, NEW i \in DOMAIN accepted[k],
                      i + Limit \in DOMAIN accepted[k]
               PROVE  accepted[k][i + Limit] - accepted[k][i] > Period
    BY DEF WindowIsBounded
  <2>1. accepted[k] \in Seq(Nat) /\ Bounded(accepted[k])
    BY <1>1 DEF LInv, KeyState
  <2>2. DOMAIN accepted[k] = 1 .. Len(accepted[k])
    BY <2>1
  <2> QED BY <2>1, <2>2 DEF Bounded
<1> QED BY <1>1, LimiterAlways, PTL

(* What a refusal promised holds as long as the client is not let in: when *)
(* the time has come there is room, and a second before it there was none. *)
THEOREM PromisesAreKept == Spec => []RetryIsHonest
<1>1. ASSUME LInv PROVE RetryIsHonest
  <2> SUFFICES ASSUME NEW k \in Keys, promised[k] # 0
               PROVE  /\ now >= promised[k] => Len(Window(k)) < Limit
                      /\ now + Second < promised[k] => Len(Window(k)) = Limit
    BY DEF RetryIsHonest
  <2>1. PICK v, a, p : v = Window(k) /\ a = accepted[k] /\ p = promised[k]
    OBVIOUS
  <2>2. now \in Nat /\ KeyState(now, Known(k), a, p)
    BY <1>1, <2>1, LimiterAssumption DEF LInv
  <2>3. KeyState(now, v, a, p) /\ \A i \in 1 .. Len(v) : ~Late(now, v[i])
    BY <2>1, <2>2, WindowIsLive DEF Stale, Late
  <2>4. /\ Len(v) \in Nat /\ Len(a) \in Nat /\ Len(v) <= Len(a)
        /\ Len(v) <= Limit /\ Len(a) >= Limit /\ p \in Nat
        /\ \A i \in 1 .. Len(v) : v[i] = a[Len(a) - Len(v) + i]
        /\ \A i \in 1 .. Len(a) : a[i] \in Nat
        /\ \A i \in 1 .. Len(a) - Len(v) : Late(now, a[i])
        /\ Limit \in Nat \ {0} /\ Period \in Nat /\ Second \in Nat \ {0}
    <3>1. v \in Seq(Nat) /\ a \in Seq(Nat) /\ p \in Nat
      BY <2>3 DEF KeyState
    <3>2. /\ Len(v) <= Len(a) /\ Len(v) <= Limit
          /\ \A i \in 1 .. Len(v) : v[i] = a[Len(a) - Len(v) + i]
          /\ \A i \in 1 .. Len(a) - Len(v) : Late(now, a[i])
      BY <2>3 DEF KeyState, EndOf
    <3>3. Len(a) >= Limit
      BY <2>1, <2>3 DEF KeyState, Honest
    <3>4. Limit \in Nat \ {0} /\ Period \in Nat /\ Second \in Nat \ {0}
      BY LimiterAssumption
    <3> QED BY <3>1, <3>2, <3>3, <3>4
  <2>5. PICK h : h = a[Len(a) - Limit + 1]
    OBVIOUS
  <2>6. Len(a) - Limit + 1 \in 1 .. Len(a) /\ h \in Nat
    BY <2>4, <2>5
  <2>7. h + Period < p /\ p <= h + Period + Second
    BY <2>1, <2>3, <2>5 DEF KeyState, Honest
  <2>8. ASSUME now >= p PROVE Len(v) < Limit
    <3> SUFFICES ASSUME Len(v) = Limit PROVE FALSE
      BY <2>4
    <3>1. v[1] = h /\ 1 \in 1 .. Len(v)
      BY <2>4, <2>5
    <3>2. ~Late(now, h)
      BY <2>3, <3>1
    <3> QED BY <2>2, <2>4, <2>6, <2>7, <2>8, <3>2 DEF Late
  <2>9. ASSUME now + Second < p PROVE Len(v) = Limit
    <3>1. ~Late(now, h)
      BY <2>2, <2>4, <2>6, <2>7, <2>9 DEF Late
    <3>2. ~(Len(a) - Limit + 1 \in 1 .. Len(a) - Len(v))
      BY <2>4, <2>5, <3>1
    <3> QED BY <2>4, <2>6, <3>2
  <2> QED BY <2>1, <2>8, <2>9
<1> QED BY <1>1, LimiterAlways, PTL

(* Only a client with Limit accepted requests in the last Period is        *)
(* refused, even one whose key was swept out and came back.                *)
THEOREM RefusalsAreDeserved == Spec => RefusalIsDeserved
<1> DEFINE Deserved == \A k \in Keys : promised'[k] # 0 /\ promised'[k] # promised[k] =>
                         /\ Len(accepted[k]) >= Limit
                         /\ now - accepted[k][Len(accepted[k]) - Limit + 1] <= Period
<1>1. ASSUME LInv, [Next]_lvars PROVE Deserved \/ UNCHANGED lvars
  <2> SUFFICES ASSUME Next, NEW k \in Keys, promised'[k] # 0, promised'[k] # promised[k]
               PROVE  /\ Len(accepted[k]) >= Limit
                      /\ now - accepted[k][Len(accepted[k]) - Limit + 1] <= Period
    BY <1>1
  <2>1. ~Tick /\ \A q \in Keys : ~Accept(q)
    BY <1>1 DEF LInv, Tick, Accept
  <2>2. PICK q \in Keys : Refuse(q)
    BY <2>1 DEF Next
  <2>3. q = k
    BY <1>1, <2>2 DEF LInv, Refuse
  <2>4. /\ Len(accepted[k]) >= Limit
        /\ ~Stale(accepted[k][Len(accepted[k]) - Limit + 1])
    BY <1>1, <2>2, <2>3, RefusalIs
  <2>5. now \in Nat /\ accepted[k] \in Seq(Nat) /\ Limit \in Nat \ {0} /\ Period \in Nat
    BY <1>1, LimiterAssumption DEF LInv
  <2>6. Len(accepted[k]) - Limit + 1 \in 1 .. Len(accepted[k])
    BY <2>4, <2>5
  <2>7. accepted[k][Len(accepted[k]) - Limit + 1] \in Nat
    BY <2>5, <2>6
  <2> QED BY <2>4, <2>5, <2>7 DEF Stale
<1> QED BY <1>1, LimiterAlways, PTL DEF Spec, RefusalIsDeserved

(* An entry that is live was let in within the last Period: the window is  *)
(* the end of the history, so both end with the same request.              *)
LEMMA LiveIsRecent ==
  ASSUME NEW t \in Nat, NEW w, NEW a, NEW p, KeyState(t, w, a, p),
         w # <<>>, ~Late(t, w[Len(w)])
  PROVE  a # <<>> /\ a[Len(a)] \in Nat /\ t - a[Len(a)] <= Period
<1>1. /\ Len(a) \in Nat /\ Len(w) \in Nat \ {0} /\ Len(w) <= Len(a)
      /\ \A i \in 1 .. Len(w) : w[i] = a[Len(a) - Len(w) + i]
      /\ \A i \in 1 .. Len(a) : a[i] \in Nat
  BY DEF KeyState, EndOf
<1>2. Len(w) \in 1 .. Len(w) /\ Len(a) - Len(w) + Len(w) = Len(a)
      /\ Len(a) \in 1 .. Len(a)
  BY <1>1
<1>3. w[Len(w)] = a[Len(a)] /\ a[Len(a)] \in Nat /\ a # <<>>
  BY <1>1, <1>2
<1> QED BY <1>3, LimiterAssumption DEF Late

(* A table of more than MaxKeys entries was pruned when its last entry was *)
(* made; a refusal neither adds one nor lets anybody in.                   *)
LEMMA TableStep ==
  ASSUME LInv, LInv', TableIsBounded, [Next]_lvars
  PROVE  TableIsBounded'
<1>1. CASE UNCHANGED <<hits, accepted>>
  BY <1>1 DEF TableIsBounded
<1>2. ASSUME NEW r \in Keys, Refuse(r) PROVE TableIsBounded'
  <2>1. r \in DOMAIN hits
    BY <1>2, LimiterAssumption DEF Refuse, Window
  <2>2. DOMAIN hits' = DOMAIN hits /\ UNCHANGED accepted
    BY <1>2, <2>1 DEF Refuse, With
  <2> QED BY <2>2 DEF TableIsBounded
<1>3. ASSUME NEW r \in Keys, Accept(r) PROVE TableIsBounded'
  <2> SUFFICES ASSUME Cardinality(DOMAIN hits') > MaxKeys,
                      NEW k \in DOMAIN hits', NEW q \in Keys
               PROVE  /\ accepted'[k] # <<>>
                      /\ accepted'[q] # <<>> =>
                           Last(accepted'[q]) - Last(accepted'[k]) <= Period
    BY DEF TableIsBounded
  <2>1. PICK table : table = With(r, Append(Window(r), now))
    OBVIOUS
  <2>2. hits' = Swept(table) /\ now' = now /\ now \in Nat
    BY <1>3, <2>1 DEF Accept, LInv
  <2>3. hits' = Pruned(table)
    BY <2>2 DEF Swept
  <2>4. Live(hits'[k])
    BY <2>3 DEF Pruned
  <2>5. PICK w, a, p, b, c : /\ w = hits'[k] /\ a = accepted'[k] /\ p = promised'[k]
                             /\ b = accepted'[q] /\ c = promised'[q]
    OBVIOUS
  <2>6. k \in Keys /\ KeyState(now, w, a, p)
    BY <2>2, <2>5 DEF LInv, Known
  <2>7. KeyState(now, hits'[q], b, c) \/ KeyState(now, <<>>, b, c)
    BY <2>2, <2>5 DEF LInv, Known
  <2>8. w # <<>> /\ ~Late(now, w[Len(w)])
    BY <2>4, <2>5 DEF Live, Stale, Late, Last
  <2>9. a # <<>> /\ a[Len(a)] \in Nat /\ now - a[Len(a)] <= Period
    BY <2>2, <2>6, <2>8, LiveIsRecent
  <2>10. b # <<>> => b[Len(b)] \in Nat /\ b[Len(b)] <= now
    BY <2>7 DEF KeyState, Ordered
  <2>11. b # <<>> => b[Len(b)] - a[Len(a)] <= Period
    BY <2>2, <2>9, <2>10, LimiterAssumption
  <2> QED BY <2>5, <2>9, <2>11 DEF Last
<1> QED BY <1>1, <1>2, <1>3 DEF Next, Tick, lvars

(* The table outgrows its size only with clients that were let in within a *)
(* period of one another, for any number of clients, limit and period.     *)
THEOREM SweepsBound == Spec => []TableIsBounded
<1>1. Init => TableIsBounded
  <2> SUFFICES ASSUME Init PROVE TableIsBounded
    OBVIOUS
  <2>1. DOMAIN hits = {}
    BY DEF Init
  <2> QED BY <2>1 DEF TableIsBounded
<1>2. LInv /\ LInv' /\ TableIsBounded /\ [Next]_lvars => TableIsBounded'
  BY TableStep
<1> QED BY <1>1, <1>2, LimiterAlways, PTL DEF Spec
=============================================================================
