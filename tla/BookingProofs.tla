---------------------------- MODULE BookingProofs ----------------------------
(***************************************************************************)
(* For any number of concurrent requests and any limits, Booking keeps     *)
(* BookIInv: every use of the promo is accounted for, its limit is         *)
(* exceeded only by the uses the counter lost, and the active rides stay   *)
(* within what the guard lets through.                                     *)
(***************************************************************************)
EXTENDS Booking, FiniteSetTheorems, SequenceTheorems, TLAPS

HoldsUse(q) == /\ q.code
               /\ q.pc \in {"create", "release"} \/ (q.pc = "expire" /\ MaxUses # 0)
IsRefused(q) == q.code /\ (q.pc = "refuse" \/ (q.pc = "expire" /\ MaxUses = 0))

LEMMA IdleIsTyped ==
  /\ Idle \in RequestState /\ RequestOK(Idle)
  /\ ~HoldsUse(Idle) /\ ~IsRefused(Idle) /\ ~Passed(Idle)
  /\ Idle.pc = "idle" /\ Idle.code = FALSE
BY DEF Idle, RequestState, RequestOK, HoldsUse, IsRefused, Passed

LEMMA SetsAreFinite ==
  ASSUME BookTypeOK
  PROVE  /\ IsFiniteSet(Claims) /\ IsFiniteSet(Refusals) /\ IsFiniteSet(InFlight)
         /\ IsFiniteSet(LiveRows)
         /\ Cardinality(Claims) \in Nat /\ Cardinality(Refusals) \in Nat
         /\ Cardinality(InFlight) \in Nat /\ Cardinality(LiveRows) \in Nat
         /\ Cardinality(Requests) \in Nat
         /\ Cardinality(InFlight) <= Cardinality(Requests)
<1>1. IsFiniteSet(Requests)
  BY BookingAssumption
<1>2. Claims \subseteq Requests /\ Refusals \subseteq Requests /\ InFlight \subseteq Requests
  BY DEF Claims, Refusals, InFlight
<1>3. IsFiniteSet(DOMAIN rows)
  <2>1. DOMAIN rows = 1..Len(rows) /\ Len(rows) \in Nat
    BY DEF BookTypeOK
  <2> QED BY <2>1, FS_Interval
<1>4. LiveRows \subseteq DOMAIN rows
  BY DEF LiveRows, ActiveRows
<1> QED BY <1>1, <1>2, <1>3, <1>4, FS_Subset, FS_CardinalityType

(* How one element more or less counts. *)
LEMMA OneMore ==
  ASSUME NEW S, IsFiniteSet(S), NEW r, NEW T
  PROVE  /\ T = S \cup {r} /\ r \notin S => Cardinality(T) = Cardinality(S) + 1
         /\ T = S \ {r} /\ r \in S => Cardinality(T) = Cardinality(S) - 1
BY FS_AddElement, FS_RemoveElement

(* One request moves from where it is to q: the three counts. *)
Counts(n, m, before, after) == /\ ~before /\ after => m = n + 1
                               /\ before /\ ~after => m = n - 1
                               /\ (before <=> after) => m = n

LEMMA RequestMoves ==
  ASSUME BookIInv, NEW r \in Requests, NEW q \in RequestState, RequestOK(q),
         request' = [request EXCEPT ![r] = q]
  PROVE  /\ request' \in [Requests -> RequestState]
         /\ \A s \in Requests : RequestOK(request'[s])
         /\ request'[r] = q /\ \A s \in Requests : s # r => request'[s] = request[s]
         /\ Counts(Cardinality(Claims), Cardinality(Claims'),
                   HoldsUse(request[r]), HoldsUse(q))
         /\ Counts(Cardinality(Refusals), Cardinality(Refusals'),
                   IsRefused(request[r]), IsRefused(q))
         /\ Counts(Cardinality(InFlight), Cardinality(InFlight'),
                   Passed(request[r]), Passed(q))
<1>1. /\ request' \in [Requests -> RequestState]
      /\ request'[r] = q /\ \A s \in Requests : s # r => request'[s] = request[s]
  BY DEF BookIInv, BookTypeOK
<1>2. \A s \in Requests : RequestOK(request'[s])
  BY <1>1 DEF BookIInv
<1>3. /\ Claims = {s \in Requests : HoldsUse(request[s])}
      /\ Claims' = {s \in Requests : HoldsUse(request'[s])}
  BY DEF Claims, HoldsUse
<1>4. /\ Refusals = {s \in Requests : IsRefused(request[s])}
      /\ Refusals' = {s \in Requests : IsRefused(request'[s])}
  BY <1>2 DEF Refusals, IsRefused, BookIInv, RequestOK
<1>5. /\ InFlight = {s \in Requests : Passed(request[s])}
      /\ InFlight' = {s \in Requests : Passed(request'[s])}
  BY DEF InFlight, Passed
<1>6. /\ IsFiniteSet(Claims) /\ IsFiniteSet(Refusals) /\ IsFiniteSet(InFlight)
  BY SetsAreFinite DEF BookIInv
<1>7. Claims' = (IF HoldsUse(q) THEN Claims \cup {r} ELSE Claims \ {r})
  BY <1>1, <1>3
<1>8. Refusals' = (IF IsRefused(q) THEN Refusals \cup {r} ELSE Refusals \ {r})
  BY <1>1, <1>4
<1>9. InFlight' = (IF Passed(q) THEN InFlight \cup {r} ELSE InFlight \ {r})
  BY <1>1, <1>5
<1>10. Counts(Cardinality(Claims), Cardinality(Claims'), HoldsUse(request[r]), HoldsUse(q))
  <2>1. r \in Claims <=> HoldsUse(request[r])
    BY <1>3
  <2>2. CASE HoldsUse(q)
    BY <1>6, <1>7, <2>1, <2>2, OneMore DEF Counts
  <2>3. CASE ~HoldsUse(q)
    <3>1. Claims' = Claims \ {r}
      BY <1>7, <2>3
    <3>2. r \notin Claims => Claims' = Claims
      BY <3>1
    <3> QED BY <1>6, <2>1, <2>3, <3>1, <3>2, OneMore DEF Counts
  <2> QED BY <2>2, <2>3
<1>11. Counts(Cardinality(Refusals), Cardinality(Refusals'), IsRefused(request[r]), IsRefused(q))
  <2>1. r \in Refusals <=> IsRefused(request[r])
    BY <1>4
  <2>2. CASE IsRefused(q)
    BY <1>6, <1>8, <2>1, <2>2, OneMore DEF Counts
  <2>3. CASE ~IsRefused(q)
    <3>1. Refusals' = Refusals \ {r}
      BY <1>8, <2>3
    <3>2. r \notin Refusals => Refusals' = Refusals
      BY <3>1
    <3> QED BY <1>6, <2>1, <2>3, <3>1, <3>2, OneMore DEF Counts
  <2> QED BY <2>2, <2>3
<1>12. Counts(Cardinality(InFlight), Cardinality(InFlight'), Passed(request[r]), Passed(q))
  <2>1. r \in InFlight <=> Passed(request[r])
    BY <1>5
  <2>2. CASE Passed(q)
    BY <1>6, <1>9, <2>1, <2>2, OneMore DEF Counts
  <2>3. CASE ~Passed(q)
    <3>1. InFlight' = InFlight \ {r}
      BY <1>9, <2>3
    <3>2. r \notin InFlight => InFlight' = InFlight
      BY <3>1
    <3> QED BY <1>6, <2>1, <2>3, <3>1, <3>2, OneMore DEF Counts
  <2> QED BY <2>2, <2>3
<1> QED BY <1>1, <1>2, <1>10, <1>11, <1>12

(* What a step does to the account of active rides and to that of uses. *)
PlacesMove(old, q) ==
  \/ LiveRows' = LiveRows /\ (Passed(q) => Passed(old)) /\ bookFaults' >= bookFaults
  \/ LiveRows' = LiveRows /\ Cardinality(LiveRows) <= MaxActive - 1 /\ bookFaults' = bookFaults
  \/ LiveRows' = LiveRows /\ bookFaults' = bookFaults + 1
  \/ /\ Cardinality(LiveRows') = Cardinality(LiveRows) + 1
     /\ Passed(old)
     /\ \/ ~Passed(q) /\ bookFaults' = bookFaults
        \/ bookFaults' = bookFaults + 1

SameUses(old, q) == /\ uses' = uses /\ used' = used
                    /\ HoldsUse(old) <=> HoldsUse(q)
                    /\ IsRefused(old) <=> IsRefused(q)
                    /\ bookFaults' \in {bookFaults, bookFaults + 1}
Gain(old, q) == /\ uses' = uses + 1 /\ used' = used
                /\ ~HoldsUse(old) /\ ~IsRefused(old)
                /\ HoldsUse(q) <=> ~IsRefused(q)
                /\ HoldsUse(q) => uses' <= MaxUses
GiveBack(old, q) == /\ uses' = uses - 1 /\ used' = used
                    /\ HoldsUse(old) <=> ~IsRefused(old)
                    /\ ~HoldsUse(q) /\ ~IsRefused(q)
Consume(old, q) == /\ uses' = uses /\ used' = used + 1
                   /\ HoldsUse(old) /\ ~IsRefused(old) /\ ~HoldsUse(q) /\ ~IsRefused(q)
Lose(old, q) == /\ uses' = uses /\ used' = used
                /\ HoldsUse(old) <=> ~IsRefused(old)
                /\ ~HoldsUse(q) /\ ~IsRefused(q)
Keep(old, q) == /\ uses' = uses /\ used' = used + 1 /\ uncounted' = uncounted + 1
                /\ HoldsUse(old) /\ ~IsRefused(old) /\ HoldsUse(q) /\ ~IsRefused(q)
UsesMove(old, q) ==
  \/ SameUses(old, q) /\ uncounted' = uncounted
  \/ /\ Gain(old, q) \/ GiveBack(old, q) \/ Consume(old, q)
     /\ bookFaults' = bookFaults /\ uncounted' = uncounted
  \/ Lose(old, q) /\ bookFaults' = bookFaults + 1 /\ uncounted' = uncounted
  \/ Keep(old, q) /\ bookFaults' = bookFaults + 1

LEMMA Slack ==
  ASSUME NEW x \in Nat, NEW y \in Nat, NEW s \in Nat, NEW b \in Nat, NEW b2 \in Nat,
         x <= y, y <= s + b, b <= b2
  PROVE  x <= s + b2
OBVIOUS

(* A claim is granted only below the limit; every other step only hands a  *)
(* use on, gives it back, or loses it.                                     *)
LEMMA UsesBalance ==
  ASSUME NEW old, NEW q, UsesMove(old, q), UsesAccountedFor, UsesAllowed,
         Counts(Cardinality(Claims), Cardinality(Claims'), HoldsUse(old), HoldsUse(q)),
         Counts(Cardinality(Refusals), Cardinality(Refusals'), IsRefused(old), IsRefused(q)),
         Cardinality(Claims) \in Nat, Cardinality(Claims') \in Nat,
         Cardinality(Refusals) \in Nat, Cardinality(Refusals') \in Nat,
         uses \in Int, uses' \in Int, used \in Nat, used' \in Nat,
         uncounted \in Nat, uncounted' \in Nat,
         bookFaults \in Nat, bookFaults' \in Nat
  PROVE  UsesAccountedFor' /\ UsesAllowed'
<1> DEFINE c == Cardinality(Claims)  c2 == Cardinality(Claims')
           d == Cardinality(Refusals)  d2 == Cardinality(Refusals')
<1>1. c \in Nat /\ c2 \in Nat /\ d \in Nat /\ d2 \in Nat /\ MaxUses \in Nat
  BY BookingAssumption
<1>2. /\ used + c + d - uncounted <= uses
      /\ uses <= used + c + d - uncounted + bookFaults
      /\ used + c <= MaxUses + uncounted
  BY DEF UsesAccountedFor, UsesAllowed
<1>3. /\ Counts(c, c2, HoldsUse(old), HoldsUse(q))
      /\ Counts(d, d2, IsRefused(old), IsRefused(q))
  OBVIOUS
<1>4. PICK u2 \in Int, s2 \in Nat, n2 \in Nat, b2 \in Nat :
        u2 = uses' /\ s2 = used' /\ n2 = uncounted' /\ b2 = bookFaults'
  OBVIOUS
<1>5. SUFFICES /\ s2 + c2 + d2 - n2 <= u2 /\ u2 <= s2 + c2 + d2 - n2 + b2
               /\ s2 + c2 <= MaxUses + n2
  BY <1>4 DEF UsesAccountedFor, UsesAllowed
<1> HIDE DEF c, c2, d, d2
<1>8. CASE SameUses(old, q) /\ uncounted' = uncounted
  <2>1. u2 = uses /\ s2 = used /\ n2 = uncounted /\ c2 = c /\ d2 = d
    BY <1>3, <1>4, <1>8 DEF SameUses, Counts
  <2>2. b2 >= bookFaults
    BY <1>4, <1>8 DEF SameUses
  <2> QED BY <1>1, <1>2, <2>1, <2>2
<1>9. CASE Gain(old, q) /\ bookFaults' = bookFaults /\ uncounted' = uncounted
  <2>1. /\ u2 = uses + 1 /\ s2 = used /\ b2 = bookFaults /\ n2 = uncounted
        /\ \/ c2 = c + 1 /\ d2 = d /\ u2 <= MaxUses
           \/ c2 = c /\ d2 = d + 1
    BY <1>3, <1>4, <1>9 DEF Gain, Counts
  <2> QED BY <1>1, <1>2, <2>1
<1>11. CASE GiveBack(old, q) /\ bookFaults' = bookFaults /\ uncounted' = uncounted
  <2>1. /\ u2 = uses - 1 /\ s2 = used /\ b2 = bookFaults /\ n2 = uncounted
        /\ \/ c2 = c - 1 /\ d2 = d
           \/ c2 = c /\ d2 = d - 1
    BY <1>3, <1>4, <1>11 DEF GiveBack, Counts
  <2> QED BY <1>1, <1>2, <2>1
<1>12. CASE Consume(old, q) /\ bookFaults' = bookFaults /\ uncounted' = uncounted
  <2>1. /\ u2 = uses /\ s2 = used + 1 /\ b2 = bookFaults /\ n2 = uncounted
        /\ c2 = c - 1 /\ d2 = d
    BY <1>3, <1>4, <1>12 DEF Consume, Counts
  <2> QED BY <1>1, <1>2, <2>1
<1>13. CASE Lose(old, q) /\ bookFaults' = bookFaults + 1 /\ uncounted' = uncounted
  <2>1. /\ u2 = uses /\ s2 = used /\ b2 = bookFaults + 1 /\ n2 = uncounted
        /\ \/ c2 = c - 1 /\ d2 = d
           \/ c2 = c /\ d2 = d - 1
    BY <1>3, <1>4, <1>13 DEF Lose, Counts
  <2> QED BY <1>1, <1>2, <2>1
<1>14. CASE Keep(old, q) /\ bookFaults' = bookFaults + 1
  <2>1. /\ u2 = uses /\ s2 = used + 1 /\ b2 = bookFaults + 1 /\ n2 = uncounted + 1
        /\ c2 = c /\ d2 = d
    BY <1>3, <1>4, <1>14 DEF Keep, Counts
  <2> QED BY <1>1, <1>2, <2>1
<1> QED BY <1>8, <1>9, <1>11, <1>12, <1>13, <1>14 DEF UsesMove

LEMMA PlacesBalance ==
  ASSUME NEW old, NEW q, PlacesMove(old, q), PlacesCounted,
         Counts(Cardinality(InFlight), Cardinality(InFlight'), Passed(old), Passed(q)),
         Cardinality(InFlight) \in Nat, Cardinality(InFlight') \in Nat,
         Cardinality(LiveRows) \in Nat, Cardinality(LiveRows') \in Nat,
         Cardinality(Requests) \in Nat,
         Cardinality(InFlight') <= Cardinality(Requests),
         bookFaults \in Nat, bookFaults' \in Nat
  PROVE  PlacesCounted'
<1> DEFINE l == Cardinality(LiveRows)  l2 == Cardinality(LiveRows')
           f == Cardinality(InFlight)  f2 == Cardinality(InFlight')
           k == Cardinality(Requests)  m == MaxActive - 1
<1>1. /\ l \in Nat /\ l2 \in Nat /\ f \in Nat /\ f2 \in Nat /\ k \in Nat /\ m \in Nat
      /\ f2 <= k
  BY BookingAssumption
<1>2. l + f <= m + k + bookFaults
  BY DEF PlacesCounted
<1>3. Counts(f, f2, Passed(old), Passed(q))
  OBVIOUS
<1>4. \/ l2 = l /\ (Passed(q) => Passed(old)) /\ bookFaults' >= bookFaults
      \/ l2 = l /\ l <= m /\ bookFaults' = bookFaults
      \/ l2 = l /\ bookFaults' = bookFaults + 1
      \/ l2 = l + 1 /\ Passed(old) /\ ~Passed(q) /\ bookFaults' = bookFaults
      \/ l2 = l + 1 /\ Passed(old) /\ bookFaults' = bookFaults + 1
  BY DEF PlacesMove
<1> SUFFICES l2 + f2 <= m + k + bookFaults'
  BY DEF PlacesCounted
<1> HIDE DEF l, l2, f, f2, k, m
<1>5. \/ l2 = l /\ (f2 = f \/ f2 = f - 1) /\ bookFaults' >= bookFaults
      \/ l2 = l /\ l <= m /\ bookFaults' = bookFaults
      \/ l2 = l /\ (f2 = f \/ f2 = f - 1 \/ f2 = f + 1) /\ bookFaults' = bookFaults + 1
      \/ l2 = l + 1 /\ f2 = f - 1 /\ bookFaults' = bookFaults
      \/ l2 = l + 1 /\ (f2 = f \/ f2 = f - 1) /\ bookFaults' = bookFaults + 1
  BY <1>3, <1>4 DEF Counts
<1>6. CASE l2 = l /\ (f2 = f \/ f2 = f - 1) /\ bookFaults' >= bookFaults
  <2>1. l2 + f2 <= l + f /\ l2 + f2 \in Nat /\ l + f \in Nat /\ m + k \in Nat
    BY <1>1, <1>6
  <2>2. bookFaults <= bookFaults'
    BY <1>6
  <2> QED BY <1>2, <2>1, <2>2, Slack
<1>7. CASE l2 = l /\ l <= m /\ bookFaults' = bookFaults
  BY <1>1, <1>7
<1>8. CASE l2 = l /\ (f2 = f \/ f2 = f - 1 \/ f2 = f + 1) /\ bookFaults' = bookFaults + 1
  <2>1. l2 + f2 <= l + f + 1 /\ l2 + f2 \in Nat /\ l + f + 1 \in Nat /\ m + k \in Nat
    BY <1>1, <1>8
  <2>2. l + f + 1 <= m + k + bookFaults'
    BY <1>1, <1>2, <1>8
  <2> QED BY <2>1, <2>2, Slack
<1>9. CASE l2 = l + 1 /\ f2 = f - 1 /\ bookFaults' = bookFaults
  <2>1. l2 + f2 = l + f
    BY <1>1, <1>9
  <2> QED BY <1>2, <1>9, <2>1
<1>10. CASE l2 = l + 1 /\ (f2 = f \/ f2 = f - 1) /\ bookFaults' = bookFaults + 1
  <2>1. l2 + f2 <= l + f + 1 /\ l2 + f2 \in Nat /\ l + f + 1 \in Nat /\ m + k \in Nat
    BY <1>1, <1>10
  <2>2. l + f + 1 <= m + k + bookFaults'
    BY <1>1, <1>2, <1>10
  <2> QED BY <2>1, <2>2, Slack
<1> QED BY <1>5, <1>6, <1>7, <1>8, <1>9, <1>10

(* A step that moves one request keeps the invariant if its own account of *)
(* places and uses balances, up to the faults it counts.                   *)
LEMMA AccountsBalance ==
  ASSUME BookIInv, NEW r \in Requests, NEW q \in RequestState, RequestOK(q),
         request' = [request EXCEPT ![r] = q],
         rows' \in Seq([active : BOOLEAN, from : Origins]), aged' \in 0..Len(rows'),
         repeats' \in Nat, uses' \in Int, ttl' \in Lives, used' \in Nat,
         uncounted' \in Nat, asked' \in 0..MaxAsked, bookFaults' \in 0..MaxBookFaults,
         PlacesMove(request[r], q), UsesMove(request[r], q)
  PROVE  BookIInv'
<1>1. /\ request' \in [Requests -> RequestState]
      /\ \A s \in Requests : RequestOK(request'[s])
  BY RequestMoves
<1>2. BookTypeOK'
  BY <1>1 DEF BookTypeOK
<1>3. /\ Cardinality(Claims) \in Nat /\ Cardinality(Refusals) \in Nat
      /\ Cardinality(InFlight) \in Nat /\ Cardinality(LiveRows) \in Nat
      /\ Cardinality(Requests) \in Nat
      /\ uses \in Int /\ used \in Nat /\ uncounted \in Nat
      /\ bookFaults \in Nat /\ bookFaults' \in Nat
  BY SetsAreFinite, BookingAssumption DEF BookIInv, BookTypeOK
<1>4. /\ Cardinality(Claims)' \in Nat /\ Cardinality(Refusals)' \in Nat
      /\ Cardinality(InFlight)' \in Nat /\ Cardinality(LiveRows)' \in Nat
      /\ Cardinality(InFlight)' <= Cardinality(Requests)
  <2>1. IsFiniteSet(Requests)
    BY BookingAssumption
  <2>2. Claims' \subseteq Requests /\ Refusals' \subseteq Requests /\ InFlight' \subseteq Requests
    BY DEF Claims, Refusals, InFlight
  <2>3. DOMAIN rows' = 1..Len(rows') /\ Len(rows') \in Nat
    OBVIOUS
  <2>4. IsFiniteSet(DOMAIN rows')
    BY <2>3, FS_Interval
  <2>5. LiveRows' \subseteq DOMAIN rows'
    BY DEF LiveRows, ActiveRows
  <2> QED BY <2>1, <2>2, <2>4, <2>5, FS_Subset, FS_CardinalityType
<1>6. UsesAccountedFor' /\ UsesAllowed'
  BY <1>3, <1>4, RequestMoves, UsesBalance DEF BookIInv
<1>7. PlacesCounted'
  BY <1>3, <1>4, RequestMoves, PlacesBalance DEF BookIInv
<1>8. \A s \in Requests : RequestOK(request[s])'
  BY <1>1 DEF RequestOK
<1> QED BY <1>2, <1>6, <1>7, <1>8 DEF BookIInv

-----------------------------------------------------------------------------
(* The guard holds no use; a request it lets through was checked or was    *)
(* let through by a fault.                                                 *)
LEMMA GuardMoves ==
  ASSUME BookIInv, NEW r \in Requests, NEW q \in RequestState, RequestOK(q),
         request' = [request EXCEPT ![r] = q],
         ~HoldsUse(q), ~IsRefused(q), ~HoldsUse(request[r]), ~IsRefused(request[r]),
         \/ Passed(q) => Passed(request[r])
         \/ Cardinality(LiveRows) <= MaxActive - 1
         \/ bookFaults' = bookFaults + 1,
         \/ UNCHANGED bookFaults
         \/ bookFaults' = bookFaults + 1 /\ bookFaults' \in 0..MaxBookFaults,
         UNCHANGED <<rows, aged, uses, ttl, used, uncounted>>,
         repeats' \in Nat, asked' \in 0..MaxAsked
  PROVE  BookIInv'
<1>1. BookTypeOK /\ Cardinality(LiveRows) \in Nat
  BY SetsAreFinite DEF BookIInv
<1>2. LiveRows' = LiveRows
  BY DEF LiveRows, ActiveRows
<1>4. /\ rows' \in Seq([active : BOOLEAN, from : Origins]) /\ aged' \in 0..Len(rows')
      /\ uses' \in Int /\ ttl' \in Lives /\ used' \in Nat /\ uncounted' \in Nat
      /\ bookFaults' \in 0..MaxBookFaults
  BY <1>1 DEF BookTypeOK
<1>5. UsesMove(request[r], q)
  BY DEF UsesMove, SameUses
<1>6. PlacesMove(request[r], q)
  <2>1. bookFaults \in Nat
    BY <1>1, BookingAssumption DEF BookTypeOK
  <2> QED BY <1>2, <2>1 DEF PlacesMove
<1> QED BY <1>4, <1>5, <1>6, AccountsBalance

LEMMA GuardHolds ==
  ASSUME BookIInv, NEW r \in Requests, request[r].pc = "guard" \/ request[r].todo # {}
  PROVE  /\ request[r] \in RequestState /\ request[r].pc = "guard"
         /\ ~HoldsUse(request[r]) /\ ~IsRefused(request[r])
BY DEF BookIInv, BookTypeOK, RequestOK, HoldsUse, IsRefused

LEMMA AfterGuardMoves ==
  ASSUME NEW p \in RequestState, p.pc = "guard"
  PROVE  /\ AfterGuard(p) \in RequestState /\ RequestOK(AfterGuard(p))
         /\ ~HoldsUse(AfterGuard(p)) /\ ~IsRefused(AfterGuard(p))
         /\ Passed(AfterGuard(p)) => "active" \notin p.todo /\ p.passed
<1>1. CASE p.todo # {}
  BY <1>1 DEF AfterGuard, RequestOK, HoldsUse, IsRefused, Passed
<1>2. CASE p.todo = {} /\ ~p.passed
  BY <1>2, IdleIsTyped DEF AfterGuard
<1>3. CASE p.todo = {} /\ p.passed /\ p.code
  <2>1. PICK q : q = [p EXCEPT !.pc = "incr", !.seen = 0]
    OBVIOUS
  <2>2. /\ q \in RequestState /\ q.pc = "incr" /\ q.code = p.code
        /\ q.todo = {} /\ q.passed = p.passed
    BY <1>3, <2>1 DEF RequestState
  <2>3. AfterGuard(p) = q
    BY <1>3, <2>1 DEF AfterGuard
  <2> QED BY <1>3, <2>2, <2>3 DEF RequestOK, HoldsUse, IsRefused
<1>4. CASE p.todo = {} /\ p.passed /\ ~p.code
  <2>1. PICK q : q = [p EXCEPT !.pc = "create", !.seen = 0]
    OBVIOUS
  <2>2. /\ q \in RequestState /\ q.pc = "create" /\ q.code = p.code
        /\ q.todo = {} /\ q.passed = p.passed
    BY <1>4, <2>1 DEF RequestState
  <2>3. AfterGuard(p) = q
    BY <1>4, <2>1 DEF AfterGuard
  <2> QED BY <1>4, <2>2, <2>3 DEF RequestOK, HoldsUse, IsRefused
<1> QED BY <1>1, <1>2, <1>3, <1>4

LEMMA CheckedMoves ==
  ASSUME BookIInv, NEW r \in Requests, NEW check \in Checks, NEW ok \in BOOLEAN,
         check \in request[r].todo, Checked(r, check, ok),
         check # "active" \/ (ok => Cardinality(LiveRows) <= MaxActive - 1),
         UNCHANGED <<rows, aged, uses, ttl, used, uncounted, asked, bookFaults>>, repeats' \in Nat
  PROVE  BookIInv'
<1>1. request[r] \in RequestState /\ request[r].pc = "guard"
      /\ ~HoldsUse(request[r]) /\ ~IsRefused(request[r])
  BY GuardHolds
<1>2. PICK p : p = [request[r] EXCEPT !.todo = request[r].todo \ {check},
                                      !.passed = request[r].passed /\ ok]
  OBVIOUS
<1>3. /\ p \in RequestState /\ p.pc = "guard"
      /\ p.todo = request[r].todo \ {check}
      /\ p.passed => request[r].passed /\ ok
  <2>1. PICK p1 : p1 = [request[r] EXCEPT !.todo = request[r].todo \ {check}]
    OBVIOUS
  <2>2. /\ p1 \in RequestState /\ p1.pc = "guard" /\ p1.passed = request[r].passed
        /\ p1.todo = request[r].todo \ {check}
    BY <1>1, <2>1 DEF RequestState
  <2>3. p = [p1 EXCEPT !.passed = request[r].passed /\ ok]
    BY <1>1, <1>2, <2>1 DEF RequestState
  <2>4. (request[r].passed /\ ok) \in BOOLEAN
    BY <1>1 DEF RequestState
  <2>5. p \in RequestState /\ p.pc = p1.pc /\ p.todo = p1.todo
    BY <2>2, <2>3, <2>4 DEF RequestState
  <2>6. p.passed = (request[r].passed /\ ok)
    BY <2>2, <2>3 DEF RequestState
  <2> QED BY <2>2, <2>5, <2>6
<1>4. PICK q : q = AfterGuard(p)
  OBVIOUS
<1>5. request' = [request EXCEPT ![r] = q]
  BY <1>2, <1>4 DEF Checked, BookIInv, BookTypeOK
<1>6. /\ q \in RequestState /\ RequestOK(q) /\ ~HoldsUse(q) /\ ~IsRefused(q)
      /\ Passed(q) => "active" \notin p.todo /\ p.passed
  BY <1>3, <1>4, AfterGuardMoves
<1>7. \/ Passed(q) => Passed(request[r])
      \/ Cardinality(LiveRows) <= MaxActive - 1
  BY <1>1, <1>3, <1>6 DEF Passed
<1>8. asked' \in 0..MaxAsked
  BY DEF BookIInv, BookTypeOK
<1> QED BY <1>1, <1>5, <1>6, <1>7, <1>8, GuardMoves

LEMMA AskKeeps ==
  ASSUME BookIInv, NEW r \in Requests, NEW withCode \in BOOLEAN, Ask(r, withCode)
  PROVE  BookIInv'
<1>1. PICK q : q = [Idle EXCEPT !.pc = "guard", !.code = withCode, !.todo = Checks]
  OBVIOUS
<1>2. /\ q \in RequestState /\ q.pc = "guard" /\ q.todo = Checks
  BY <1>1 DEF Idle, RequestState
<1>3. request' = [request EXCEPT ![r] = q]
  BY <1>1 DEF Ask
<1>4. RequestOK(q) /\ ~HoldsUse(q) /\ ~IsRefused(q) /\ ~Passed(q)
  BY <1>2 DEF RequestOK, HoldsUse, IsRefused, Passed, Checks
<1>5. ~HoldsUse(request[r]) /\ ~IsRefused(request[r])
  BY IdleIsTyped DEF Ask
<1>6. asked' \in 0..MaxAsked /\ repeats' \in Nat
  <2>1. asked \in 0..MaxAsked /\ asked < MaxAsked /\ MaxAsked \in Nat
    BY BookingAssumption DEF Ask, BookIInv, BookTypeOK
  <2>2. asked + 1 \in 0..MaxAsked
    BY <2>1
  <2> QED BY <2>2 DEF Ask, BookIInv, BookTypeOK
<1>7. UNCHANGED <<rows, aged, uses, ttl, used, uncounted>> /\ UNCHANGED bookFaults
  BY DEF Ask
<1> QED BY <1>2, <1>3, <1>4, <1>5, <1>6, <1>7, GuardMoves

LEMMA GuardVelocityKeeps ==
  ASSUME BookIInv, NEW r \in Requests, GuardVelocity(r)
  PROVE  BookIInv'
<1>1. PICK ok \in BOOLEAN : ok <=> (Len(rows) - aged < MaxPerHour)
  OBVIOUS
<1>2. "velocity" \in Checks /\ "velocity" # "active" /\ "velocity" \in request[r].todo
  BY DEF Checks, GuardVelocity
<1>3. ok = (Len(rows) - aged < MaxPerHour)
  BY <1>1
<1>4. Checked(r, "velocity", ok)
  BY <1>3 DEF GuardVelocity
<1>5. repeats' \in Nat /\ UNCHANGED <<rows, aged, uses, ttl, used, uncounted, asked, bookFaults>>
  BY DEF GuardVelocity, BookIInv, BookTypeOK
<1> QED BY <1>2, <1>4, <1>5, CheckedMoves

LEMMA GuardConcurrencyKeeps ==
  ASSUME BookIInv, NEW r \in Requests, GuardConcurrency(r)
  PROVE  BookIInv'
<1>1. PICK ok \in BOOLEAN : ok <=> Cardinality(ActiveRows) < MaxActive
  OBVIOUS
<1>2. "active" \in Checks /\ "active" \in request[r].todo
  BY DEF Checks, GuardConcurrency
<1>3. Checked(r, "active", ok)
  <2>1. ok = (Cardinality(ActiveRows) < MaxActive)
    BY <1>1
  <2> QED BY <2>1 DEF GuardConcurrency
<1>4. ok => Cardinality(LiveRows) <= MaxActive - 1
  <2>1. DOMAIN rows = 1..Len(rows) /\ Len(rows) \in Nat
    BY DEF BookIInv, BookTypeOK
  <2>2. IsFiniteSet(DOMAIN rows) /\ ActiveRows \subseteq DOMAIN rows
    BY <2>1, FS_Interval DEF ActiveRows
  <2>3. IsFiniteSet(ActiveRows)
    BY <2>2, FS_Subset
  <2>4. LiveRows \subseteq ActiveRows
    BY DEF LiveRows
  <2>5. /\ Cardinality(LiveRows) <= Cardinality(ActiveRows)
        /\ Cardinality(LiveRows) \in Nat /\ Cardinality(ActiveRows) \in Nat
    BY <2>3, <2>4, FS_Subset, FS_CardinalityType
  <2> QED BY <1>1, <2>5, BookingAssumption
<1>5. repeats' \in Nat /\ UNCHANGED <<rows, aged, uses, ttl, used, uncounted, asked, bookFaults>>
  BY DEF GuardConcurrency, BookIInv, BookTypeOK
<1> QED BY <1>2, <1>3, <1>4, <1>5, CheckedMoves

LEMMA GuardDuplicateReadKeeps ==
  ASSUME BookIInv, NEW r \in Requests, GuardDuplicateRead(r)
  PROVE  BookIInv'
<1>1. request[r] \in RequestState /\ request[r].pc = "guard"
      /\ ~HoldsUse(request[r]) /\ ~IsRefused(request[r])
  BY GuardHolds DEF GuardDuplicateRead
<1>2. PICK p : p = [request[r] EXCEPT !.todo = @ \ {"read"}]
  OBVIOUS
<1>3. /\ p \in RequestState /\ p.pc = "guard" /\ p.passed = request[r].passed
      /\ p.todo = request[r].todo \ {"read"}
  BY <1>1, <1>2 DEF RequestState
<1>4. PICK q : q = [p EXCEPT !.seen = repeats + 1]
  OBVIOUS
<1>5. /\ q \in RequestState /\ q.pc = "guard" /\ q.passed = request[r].passed
      /\ q.todo = request[r].todo \ {"read"}
  <2>1. repeats + 1 \in Nat
    BY DEF BookIInv, BookTypeOK
  <2> QED BY <1>3, <1>4, <2>1 DEF RequestState
<1>6. request' = [request EXCEPT ![r] = q]
  BY <1>1, <1>2, <1>4 DEF GuardDuplicateRead, BookIInv, BookTypeOK, RequestState
<1>7. RequestOK(q) /\ ~HoldsUse(q) /\ ~IsRefused(q) /\ (Passed(q) => Passed(request[r]))
  BY <1>1, <1>5 DEF RequestOK, HoldsUse, IsRefused, Passed
<1>8. /\ asked' \in 0..MaxAsked /\ repeats' \in Nat
      /\ UNCHANGED <<rows, aged, uses, ttl, used, uncounted>> /\ UNCHANGED bookFaults
  BY DEF GuardDuplicateRead, BookIInv, BookTypeOK
<1> QED BY <1>1, <1>5, <1>6, <1>7, <1>8, GuardMoves

LEMMA GuardDuplicateWriteKeeps ==
  ASSUME BookIInv, NEW r \in Requests, GuardDuplicateWrite(r)
  PROVE  BookIInv'
<1>1. PICK ok \in BOOLEAN : ok <=> request[r].seen <= MaxRepeats
  OBVIOUS
<1>2. "write" \in Checks /\ "write" # "active" /\ "write" \in request[r].todo
  BY DEF Checks, GuardDuplicateWrite
<1>3. Checked(r, "write", ok)
  <2>1. ok = (request[r].seen <= MaxRepeats)
    BY <1>1
  <2> QED BY <2>1 DEF GuardDuplicateWrite
<1>4. repeats' \in Nat /\ UNCHANGED <<rows, aged, uses, ttl, used, uncounted, asked, bookFaults>>
  BY <1>2, GuardHolds DEF GuardDuplicateWrite, RequestState
<1> QED BY <1>2, <1>3, <1>4, CheckedMoves

LEMMA GuardSkippedKeeps ==
  ASSUME BookIInv, NEW r \in Requests, GuardSkipped(r)
  PROVE  BookIInv'
<1>1. request[r] \in RequestState /\ request[r].pc = "guard"
      /\ ~HoldsUse(request[r]) /\ ~IsRefused(request[r])
  BY GuardHolds DEF GuardSkipped
<1>2. PICK p : p = [request[r] EXCEPT !.todo = {}]
  OBVIOUS
<1>3. p \in RequestState /\ p.pc = "guard"
  BY <1>1, <1>2 DEF RequestState
<1>4. PICK q : q = AfterGuard(p)
  OBVIOUS
<1>5. q \in RequestState /\ RequestOK(q) /\ ~HoldsUse(q) /\ ~IsRefused(q)
  BY <1>3, <1>4, AfterGuardMoves
<1>6. request' = [request EXCEPT ![r] = q]
  BY <1>2, <1>4 DEF GuardSkipped, BookIInv, BookTypeOK
<1>7. bookFaults' = bookFaults + 1 /\ bookFaults' \in 0..MaxBookFaults
  <2>1. bookFaults \in 0..MaxBookFaults /\ bookFaults < MaxBookFaults /\ MaxBookFaults \in Nat
    BY BookingAssumption DEF GuardSkipped, Fault, BookIInv, BookTypeOK
  <2>2. bookFaults + 1 \in 0..MaxBookFaults
    BY <2>1
  <2> QED BY <2>2 DEF GuardSkipped, Fault
<1>8. /\ asked' \in 0..MaxAsked /\ repeats' \in Nat
      /\ UNCHANGED <<rows, aged, uses, ttl, used, uncounted>>
  BY DEF GuardSkipped, BookIInv, BookTypeOK
<1> QED BY <1>1, <1>5, <1>6, <1>7, <1>8, GuardMoves

LEMMA NotFoundKeeps ==
  ASSUME BookIInv, NEW r \in Requests, NotFound(r)
  PROVE  BookIInv'
<1>1. PICK q \in RequestState :
        /\ request' = [request EXCEPT ![r] = q]
        /\ RequestOK(q) /\ ~HoldsUse(q) /\ ~IsRefused(q) /\ ~Passed(q)
  <2>1. CASE request[r].pc = "guard" /\ request' = [request EXCEPT ![r].passed = FALSE]
    <3>1. PICK q : q = [request[r] EXCEPT !.passed = FALSE]
      OBVIOUS
    <3>2. q \in RequestState /\ q.pc = "guard" /\ q.passed = FALSE
      BY <2>1, <3>1, GuardHolds DEF RequestState
    <3>3. request' = [request EXCEPT ![r] = q]
      BY <2>1, <3>1 DEF BookIInv, BookTypeOK
    <3>4. RequestOK(q) /\ ~HoldsUse(q) /\ ~IsRefused(q) /\ ~Passed(q)
      BY <3>2 DEF RequestOK, HoldsUse, IsRefused, Passed
    <3> QED BY <3>2, <3>3, <3>4
  <2>2. CASE Answer(r)
    BY <2>2, IdleIsTyped DEF Answer
  <2> QED BY <2>1, <2>2 DEF NotFound
<1>2. ~HoldsUse(request[r]) /\ ~IsRefused(request[r])
  BY DEF NotFound, HoldsUse, IsRefused
<1>3. /\ asked' \in 0..MaxAsked /\ repeats' \in Nat
      /\ UNCHANGED <<rows, aged, uses, ttl, used, uncounted>> /\ UNCHANGED bookFaults
  BY DEF NotFound, BookIInv, BookTypeOK
<1> QED BY <1>1, <1>2, <1>3, GuardMoves

-----------------------------------------------------------------------------
(* The steps after the guard. *)
LEMMA PastTheGuard ==
  ASSUME BookIInv, NEW r \in Requests, request[r].pc \notin {"idle", "guard"}
  PROVE  /\ request[r] \in RequestState /\ Passed(request[r])
         /\ request[r].pc # "create" => request[r].code
         /\ \/ request[r].pc \in {"incr", "create"}
            \/ HoldsUse(request[r]) <=> ~IsRefused(request[r])
BY DEF BookIInv, BookTypeOK, RequestOK, RequestState, Passed, HoldsUse, IsRefused

LEMMA GotoMoves ==
  ASSUME BookIInv, NEW r \in Requests, NEW pc \in {"expire", "refuse", "create", "release"},
         request[r].pc \notin {"idle", "guard"}, request[r].code, Goto(r, pc)
  PROVE  \E q \in RequestState :
           /\ request' = [request EXCEPT ![r] = q] /\ RequestOK(q)
           /\ q.pc = pc /\ q.code
<1>1. request[r] \in RequestState /\ request[r].todo = {} /\ request[r].passed
  BY DEF BookIInv, BookTypeOK, RequestOK
<1>2. PICK q : q = [request[r] EXCEPT !.pc = pc]
  OBVIOUS
<1>3. /\ q \in RequestState /\ q.pc = pc /\ q.code = request[r].code
      /\ q.todo = {} /\ q.passed = request[r].passed
  BY <1>1, <1>2 DEF RequestState
<1>4. request' = [request EXCEPT ![r] = q]
  BY <1>2 DEF Goto, BookIInv, BookTypeOK
<1> QED BY <1>1, <1>3, <1>4 DEF RequestOK

(* What a step past the guard has to show: rows, time and the checks of    *)
(* the guard stay, or a row is added.                                      *)
LEMMA PastGuardMoves ==
  ASSUME BookIInv, NEW r \in Requests, NEW q \in RequestState, RequestOK(q),
         request[r].pc \notin {"idle", "guard"}, request' = [request EXCEPT ![r] = q],
         uses' \in Int, ttl' \in Lives,
         UNCHANGED <<rows, aged, repeats, used, uncounted, asked>>,
         \/ UNCHANGED bookFaults
         \/ bookFaults' = bookFaults + 1 /\ bookFaults' \in 0..MaxBookFaults,
         UsesMove(request[r], q)
  PROVE  BookIInv'
<1>1. /\ rows' \in Seq([active : BOOLEAN, from : Origins]) /\ aged' \in 0..Len(rows')
      /\ repeats' \in Nat /\ used' \in Nat /\ uncounted' \in Nat /\ asked' \in 0..MaxAsked
      /\ bookFaults' \in 0..MaxBookFaults
  BY DEF BookIInv, BookTypeOK
<1>2. PlacesMove(request[r], q)
  <2>1. LiveRows' = LiveRows /\ Passed(request[r])
    BY PastTheGuard DEF LiveRows, ActiveRows
  <2>2. CASE UNCHANGED bookFaults
    <3>1. bookFaults' >= bookFaults
      BY <2>2, BookingAssumption DEF BookIInv, BookTypeOK
    <3> QED BY <2>1, <3>1 DEF PlacesMove
  <2>3. CASE bookFaults' = bookFaults + 1
    BY <2>1, <2>3 DEF PlacesMove
  <2> QED BY <2>2, <2>3
<1> QED BY <1>1, <1>2, AccountsBalance

LEMMA Touched ==
  ASSUME BookIInv, Touch
  PROVE  ttl' \in Lives
BY DEF Touch, Lives, BookIInv, BookTypeOK

LEMMA RedeemIncrKeeps ==
  ASSUME BookIInv, NEW r \in Requests, RedeemIncr(r)
  PROVE  BookIInv'
<1>1. /\ request[r].pc = "incr" /\ request[r].code
      /\ ~HoldsUse(request[r]) /\ ~IsRefused(request[r])
  BY PastTheGuard DEF RedeemIncr, HoldsUse, IsRefused
<1>2. PICK pc \in {"expire", "refuse", "create"} :
        /\ pc = IF uses = 0 THEN "expire" ELSE AfterIncr(uses + 1)
        /\ Goto(r, pc)
  BY DEF RedeemIncr, AfterIncr
<1>3. PICK q \in RequestState : /\ request' = [request EXCEPT ![r] = q] /\ RequestOK(q)
                               /\ q.pc = pc /\ q.code
  BY <1>1, <1>2, GotoMoves
<1>4. /\ HoldsUse(q) <=> ~IsRefused(q)
      /\ HoldsUse(q) => \/ pc = "create"
                        \/ pc = "expire" /\ MaxUses # 0
  BY <1>2, <1>3 DEF HoldsUse, IsRefused
<1>5. uses \in Int /\ uses' = uses + 1 /\ uses' \in Int /\ MaxUses \in Nat
  BY BookingAssumption DEF RedeemIncr, BookIInv, BookTypeOK
<1>6. HoldsUse(q) => uses' <= MaxUses
  <2>1. CASE pc = "create"
    BY <1>2, <1>5, <2>1 DEF AfterIncr
  <2>2. CASE pc = "expire" /\ MaxUses # 0
    BY <1>2, <1>5, <2>2 DEF AfterIncr
  <2> QED BY <1>4, <2>1, <2>2
<1>7. UsesMove(request[r], q)
  BY <1>1, <1>4, <1>5, <1>6 DEF RedeemIncr, UsesMove, Gain
<1>8. ttl' \in Lives /\ UNCHANGED bookFaults
      /\ UNCHANGED <<rows, aged, repeats, used, uncounted, asked>>
  BY Touched DEF RedeemIncr
<1> QED BY <1>1, <1>3, <1>5, <1>7, <1>8, PastGuardMoves

LEMMA RedeemExpireKeeps ==
  ASSUME BookIInv, NEW r \in Requests, RedeemExpire(r)
  PROVE  BookIInv'
<1>1. request[r].pc = "expire" /\ request[r].code /\ MaxUses \in Nat
  BY PastTheGuard, BookingAssumption DEF RedeemExpire
<1>2. PICK pc \in {"refuse", "create"} : pc = AfterIncr(1) /\ Goto(r, pc)
  BY DEF RedeemExpire, AfterIncr
<1>3. PICK q \in RequestState : /\ request' = [request EXCEPT ![r] = q] /\ RequestOK(q)
                               /\ q.pc = pc /\ q.code
  BY <1>1, <1>2, GotoMoves
<1>4. pc = "create" <=> MaxUses # 0
  BY <1>1, <1>2 DEF AfterIncr
<1>5. /\ HoldsUse(request[r]) <=> HoldsUse(q)
      /\ IsRefused(request[r]) <=> IsRefused(q)
  BY <1>1, <1>2, <1>3, <1>4 DEF HoldsUse, IsRefused
<1>6. UsesMove(request[r], q)
  BY <1>5 DEF RedeemExpire, UsesMove, SameUses
<1>7. /\ uses' \in Int /\ ttl' \in Lives /\ UNCHANGED bookFaults
      /\ UNCHANGED <<rows, aged, repeats, used, uncounted, asked>>
  BY DEF RedeemExpire, Lives, BookIInv, BookTypeOK
<1> QED BY <1>1, <1>3, <1>6, <1>7, PastGuardMoves

(* A refusal and a failed creation give a use back.                        *)
LEMMA GivesBackKeeps ==
  ASSUME BookIInv, NEW r \in Requests, RedeemDecr(r) \/ Release(r)
  PROVE  BookIInv'
<1>1. /\ request[r].pc \in {"refuse", "release"}
      /\ HoldsUse(request[r]) <=> ~IsRefused(request[r])
  BY PastTheGuard DEF RedeemDecr, Release
<1>2. request' = [request EXCEPT ![r] = Idle]
  BY DEF RedeemDecr, Release, Answer
<1>3. UsesMove(request[r], Idle)
  BY <1>1, IdleIsTyped DEF RedeemDecr, Release, UsesMove, GiveBack
<1>4. uses' \in Int
  BY DEF RedeemDecr, Release, BookIInv, BookTypeOK
<1>5. /\ ttl' \in Lives /\ UNCHANGED bookFaults
      /\ UNCHANGED <<rows, aged, repeats, used, uncounted, asked>>
  BY Touched DEF RedeemDecr, Release
<1> QED BY <1>1, <1>2, <1>3, <1>4, <1>5, IdleIsTyped, PastGuardMoves

LEMMA CreateFailsKeeps ==
  ASSUME BookIInv, NEW r \in Requests, CreateFails(r)
  PROVE  BookIInv'
<1>1. request[r].pc = "create" /\ ~IsRefused(request[r])
      /\ (HoldsUse(request[r]) <=> request[r].code)
  BY DEF CreateFails, HoldsUse, IsRefused
<1>2. PICK q \in RequestState :
        /\ request' = [request EXCEPT ![r] = q] /\ RequestOK(q)
        /\ ~IsRefused(q) /\ (HoldsUse(q) <=> request[r].code)
  <2>1. CASE request[r].code
    <3>1. Goto(r, "release")
      BY <2>1 DEF CreateFails
    <3>2. PICK q \in RequestState : /\ request' = [request EXCEPT ![r] = q] /\ RequestOK(q)
                                   /\ q.pc = "release" /\ q.code
      BY <1>1, <2>1, <3>1, GotoMoves
    <3> QED BY <2>1, <3>2 DEF HoldsUse, IsRefused
  <2>2. CASE ~request[r].code
    BY <2>2, IdleIsTyped DEF CreateFails, Answer
  <2> QED BY <2>1, <2>2
<1>3. UsesMove(request[r], q)
  BY <1>1, <1>2 DEF CreateFails, UsesMove, SameUses
<1>4. used' = used /\ used' \in Nat
  BY DEF CreateFails, BookIInv, BookTypeOK
<1>6. /\ uses' \in Int /\ ttl' \in Lives /\ UNCHANGED bookFaults
      /\ UNCHANGED <<rows, aged, repeats, used, uncounted, asked>>
  BY DEF CreateFails, BookIInv, BookTypeOK
<1> QED BY <1>1, <1>2, <1>3, <1>6, PastGuardMoves

LEMMA RequestLostKeeps ==
  ASSUME BookIInv, NEW r \in Requests, RequestLost(r)
  PROVE  BookIInv'
<1>1. /\ request[r].pc \notin {"idle", "guard"}
      /\ \/ ~HoldsUse(request[r]) /\ ~IsRefused(request[r])
         \/ HoldsUse(request[r]) <=> ~IsRefused(request[r])
  BY PastTheGuard DEF RequestLost, HoldsUse, IsRefused
<1>2. request' = [request EXCEPT ![r] = Idle] /\ used' = used /\ used' \in Nat
  BY DEF RequestLost, Answer, BookIInv, BookTypeOK
<1>3. bookFaults' = bookFaults + 1 /\ bookFaults' \in 0..MaxBookFaults
  <2>1. bookFaults \in 0..MaxBookFaults /\ bookFaults < MaxBookFaults /\ MaxBookFaults \in Nat
    BY BookingAssumption DEF RequestLost, Fault, BookIInv, BookTypeOK
  <2>2. bookFaults + 1 \in 0..MaxBookFaults
    BY <2>1
  <2> QED BY <2>2 DEF RequestLost, Fault
<1>4. UsesMove(request[r], Idle)
  BY <1>1, <1>3, IdleIsTyped DEF RequestLost, UsesMove, SameUses, Lose
<1>6. /\ uses' \in Int /\ ttl' \in Lives
      /\ UNCHANGED <<rows, aged, repeats, used, uncounted, asked>>
  BY DEF RequestLost, BookIInv, BookTypeOK
<1> QED BY <1>1, <1>2, <1>3, <1>4, <1>6, IdleIsTyped, PastGuardMoves

LEMMA LiveRowAdded ==
  ASSUME BookIInv, NewRide(Live), aged' = aged
  PROVE  /\ rows' \in Seq([active : BOOLEAN, from : Origins]) /\ aged' \in 0..Len(rows')
         /\ Cardinality(LiveRows') = Cardinality(LiveRows) + 1
<1>1. PICK row : row = [active |-> TRUE, from |-> Live]
  OBVIOUS
<1>2. /\ row \in [active : BOOLEAN, from : Origins] /\ row.active /\ row.from = Live
      /\ rows' = Append(rows, row)
  BY <1>1, BookingAssumption DEF NewRide
<1>3. /\ rows \in Seq([active : BOOLEAN, from : Origins]) /\ Len(rows) \in Nat
      /\ aged \in 0..Len(rows)
  BY DEF BookIInv, BookTypeOK
<1>4. /\ rows' \in Seq([active : BOOLEAN, from : Origins]) /\ Len(rows') = Len(rows) + 1
      /\ DOMAIN rows' = 1..(Len(rows) + 1) /\ DOMAIN rows = 1..Len(rows)
      /\ rows'[Len(rows) + 1] = row
      /\ \A n \in 1..Len(rows) : rows'[n] = rows[n]
  BY <1>2, <1>3
<1>5. aged' \in 0..Len(rows')
  <2>1. aged \in 0..(Len(rows) + 1)
    BY <1>3
  <2> QED BY <1>4, <2>1
<1>6. DOMAIN rows' = DOMAIN rows \cup {Len(rows) + 1} /\ Len(rows) + 1 \notin DOMAIN rows
  BY <1>3, <1>4
<1>7. LiveRows' = {n \in DOMAIN rows' : rows'[n].active /\ rows'[n].from = Live}
  BY DEF LiveRows, ActiveRows
<1>8. LiveRows = {n \in DOMAIN rows : rows[n].active /\ rows[n].from = Live}
  BY DEF LiveRows, ActiveRows
<1>9. \A n \in DOMAIN rows : rows'[n] = rows[n]
  BY <1>4
<1>10. LiveRows' = LiveRows \cup {Len(rows) + 1} /\ Len(rows) + 1 \notin LiveRows
  BY <1>2, <1>4, <1>6, <1>7, <1>8, <1>9
<1>11. IsFiniteSet(LiveRows)
  BY SetsAreFinite DEF BookIInv
<1> QED BY <1>4, <1>5, <1>10, <1>11, OneMore

LEMMA CreateRideKeeps ==
  ASSUME BookIInv, NEW r \in Requests, CreateRide(r)
  PROVE  BookIInv'
<1>1. /\ request[r].pc = "create" /\ Passed(request[r]) /\ ~IsRefused(request[r])
      /\ (HoldsUse(request[r]) <=> request[r].code)
  BY PastTheGuard DEF CreateRide, HoldsUse, IsRefused
<1>2. request' = [request EXCEPT ![r] = Idle]
  BY DEF CreateRide, Answer
<1>3. /\ rows' \in Seq([active : BOOLEAN, from : Origins]) /\ aged' \in 0..Len(rows')
      /\ Cardinality(LiveRows') = Cardinality(LiveRows) + 1
  BY LiveRowAdded DEF CreateRide
<1>4. UNCHANGED <<uses, uncounted, bookFaults>>
  BY DEF CreateRide
<1>5. PlacesMove(request[r], Idle)
  BY <1>1, <1>3, <1>4, IdleIsTyped DEF PlacesMove
<1>6. /\ used' \in Nat /\ uses' \in Int /\ uncounted' \in Nat
      /\ (used' = IF request[r].code THEN used + 1 ELSE used)
  <2>1. used \in Nat /\ used + 1 \in Nat /\ uses \in Int /\ uncounted \in Nat
    BY DEF BookIInv, BookTypeOK
  <2> QED BY <1>4, <2>1 DEF CreateRide
<1>7. UsesMove(request[r], Idle)
  BY <1>1, <1>4, <1>6, IdleIsTyped DEF UsesMove, SameUses, Consume
<1>8. /\ repeats' \in Nat /\ ttl' \in Lives /\ asked' \in 0..MaxAsked
      /\ bookFaults' \in 0..MaxBookFaults
  BY DEF CreateRide, BookIInv, BookTypeOK
<1> QED BY <1>2, <1>3, <1>5, <1>6, <1>7, <1>8, IdleIsTyped, AccountsBalance

(* The ride exists and its use is given back.                              *)
LEMMA CreateReplyLostKeeps ==
  ASSUME BookIInv, NEW r \in Requests, CreateReplyLost(r)
  PROVE  BookIInv'
<1>1. /\ request[r].pc = "create" /\ Passed(request[r]) /\ ~IsRefused(request[r])
      /\ (HoldsUse(request[r]) <=> request[r].code)
  BY PastTheGuard DEF CreateReplyLost, HoldsUse, IsRefused
<1>2. PICK q \in RequestState :
        /\ request' = [request EXCEPT ![r] = q] /\ RequestOK(q)
        /\ ~IsRefused(q) /\ (HoldsUse(q) <=> request[r].code)
  <2>1. CASE request[r].code
    <3>1. Goto(r, "release")
      BY <2>1 DEF CreateReplyLost
    <3>2. PICK q \in RequestState : /\ request' = [request EXCEPT ![r] = q] /\ RequestOK(q)
                                   /\ q.pc = "release" /\ q.code
      BY <1>1, <2>1, <3>1, GotoMoves
    <3> QED BY <2>1, <3>2 DEF HoldsUse, IsRefused
  <2>2. CASE ~request[r].code
    BY <2>2, IdleIsTyped DEF CreateReplyLost, Answer
  <2> QED BY <2>1, <2>2
<1>3. /\ rows' \in Seq([active : BOOLEAN, from : Origins]) /\ aged' \in 0..Len(rows')
      /\ Cardinality(LiveRows') = Cardinality(LiveRows) + 1
  BY LiveRowAdded DEF CreateReplyLost
<1>4. bookFaults' = bookFaults + 1 /\ bookFaults' \in 0..MaxBookFaults
  <2>1. bookFaults \in 0..MaxBookFaults /\ bookFaults < MaxBookFaults /\ MaxBookFaults \in Nat
    BY BookingAssumption DEF CreateReplyLost, Fault, BookIInv, BookTypeOK
  <2>2. bookFaults + 1 \in 0..MaxBookFaults
    BY <2>1
  <2> QED BY <2>2 DEF CreateReplyLost, Fault
<1>5. PlacesMove(request[r], q)
  BY <1>1, <1>3, <1>4 DEF PlacesMove
<1>6. /\ used \in Nat /\ uses \in Int /\ uncounted \in Nat
      /\ used + 1 \in Nat /\ uncounted + 1 \in Nat /\ uses' = uses
  BY DEF CreateReplyLost, BookIInv, BookTypeOK
<1>7. IF request[r].code THEN used' = used + 1 /\ uncounted' = uncounted + 1
      ELSE used' = used /\ uncounted' = uncounted
  BY DEF CreateReplyLost
<1>8. UsesMove(request[r], q)
  BY <1>1, <1>2, <1>4, <1>6, <1>7 DEF UsesMove, SameUses, Keep
<1>9. /\ repeats' \in Nat /\ ttl' \in Lives /\ asked' \in 0..MaxAsked
      /\ uses' \in Int /\ used' \in Nat /\ uncounted' \in Nat
  BY <1>6, <1>7 DEF CreateReplyLost, BookIInv, BookTypeOK
<1> QED BY <1>2, <1>3, <1>4, <1>5, <1>8, <1>9, AccountsBalance

-----------------------------------------------------------------------------
(* The steps of no request. *)
LEMMA SameRequests ==
  ASSUME UNCHANGED request
  PROVE  /\ Claims' = Claims /\ Refusals' = Refusals /\ InFlight' = InFlight
         /\ (\A r \in Requests : RequestOK(request[r]))
              => (\A r \in Requests : RequestOK(request[r]))'
BY DEF Claims, Refusals, InFlight, RequestOK, Passed

LEMMA RideEndsKeeps ==
  ASSUME BookIInv, NEW n \in DOMAIN rows, RideEnds(n)
  PROVE  BookIInv'
<1>1. rows \in Seq([active : BOOLEAN, from : Origins]) /\ DOMAIN rows = 1..Len(rows)
  BY DEF BookIInv, BookTypeOK
<1>2. PICK row : row = [rows[n] EXCEPT !.active = FALSE]
  OBVIOUS
<1>3. row \in [active : BOOLEAN, from : Origins] /\ row.active = FALSE
  <2>1. n \in 1..Len(rows)
    BY <1>1
  <2>2. rows[n] \in [active : BOOLEAN, from : Origins]
    BY <1>1, <2>1, ElementOfSeq
  <2> QED BY <1>2, <2>2
<1>4. rows' = [rows EXCEPT ![n] = row]
  BY <1>2 DEF RideEnds
<1>5. /\ rows' \in Seq([active : BOOLEAN, from : Origins]) /\ Len(rows') = Len(rows)
      /\ DOMAIN rows' = DOMAIN rows
      /\ rows'[n] = row /\ \A m \in DOMAIN rows : m # n => rows'[m] = rows[m]
  BY <1>1, <1>3, <1>4
<1>6. LiveRows' \subseteq LiveRows
  BY <1>3, <1>5 DEF LiveRows, ActiveRows
<1>7. /\ Cardinality(LiveRows') <= Cardinality(LiveRows)
      /\ Cardinality(LiveRows') \in Nat /\ Cardinality(LiveRows) \in Nat
      /\ Cardinality(InFlight) \in Nat /\ Cardinality(Requests) \in Nat
  <2>1. IsFiniteSet(LiveRows)
    BY SetsAreFinite DEF BookIInv
  <2>2. IsFiniteSet(LiveRows')
    BY <1>6, <2>1, FS_Subset
  <2> QED BY <1>6, <2>1, <2>2, FS_Subset, FS_CardinalityType, SetsAreFinite DEF BookIInv
<1>8. UNCHANGED <<aged, repeats, uses, ttl, used, uncounted, request, asked, bookFaults>>
  BY DEF RideEnds
<1>9. BookTypeOK'
  BY <1>5, <1>8 DEF BookIInv, BookTypeOK
<1>10. UsesAccountedFor' /\ UsesAllowed' /\ \A s \in Requests : RequestOK(request[s])'
  BY <1>8, SameRequests DEF BookIInv, UsesAccountedFor, UsesAllowed, RequestOK
<1>11. PlacesCounted'
  <2> DEFINE l == Cardinality(LiveRows)  l2 == Cardinality(LiveRows')
             f == Cardinality(InFlight)  k == Cardinality(Requests)  m == MaxActive - 1
  <2>1. /\ l \in Nat /\ l2 \in Nat /\ f \in Nat /\ k \in Nat /\ m \in Nat
        /\ bookFaults \in Nat /\ l2 <= l
    BY <1>7, BookingAssumption DEF BookIInv, BookTypeOK
  <2>2. l + f <= m + k + bookFaults
    BY DEF BookIInv, PlacesCounted
  <2>3. InFlight' = InFlight /\ bookFaults' = bookFaults
    BY <1>8, SameRequests
  <2> SUFFICES l2 + f <= m + k + bookFaults
    BY <2>3 DEF PlacesCounted
  <2> HIDE DEF l, l2, f, k, m
  <2> QED BY <2>1, <2>2
<1> QED BY <1>9, <1>10, <1>11 DEF BookIInv

LEMMA TimeKeeps ==
  ASSUME BookIInv, HourPasses \/ DuplicateWindowEnds \/ UNCHANGED bookVars
  PROVE  BookIInv'
<1>1. UNCHANGED <<rows, uses, ttl, used, uncounted, request, asked, bookFaults>>
  BY DEF HourPasses, DuplicateWindowEnds, bookVars
<1>2. LiveRows' = LiveRows
  BY <1>1 DEF LiveRows, ActiveRows
<1>3. BookTypeOK'
  <2>1. aged' \in 0..Len(rows)
    <3>1. CASE HourPasses
      <4>1. aged \in 0..Len(rows) /\ aged < Len(rows) /\ Len(rows) \in Nat
        BY <3>1 DEF HourPasses, BookIInv, BookTypeOK
      <4>2. aged + 1 \in 0..Len(rows)
        BY <4>1
      <4> QED BY <3>1, <4>2 DEF HourPasses
    <3>2. CASE ~HourPasses
      BY <3>2 DEF DuplicateWindowEnds, bookVars, BookIInv, BookTypeOK
    <3> QED BY <3>1, <3>2
  <2>2. repeats' \in Nat
    BY DEF HourPasses, DuplicateWindowEnds, bookVars, BookIInv, BookTypeOK
  <2> QED BY <1>1, <2>1, <2>2 DEF BookIInv, BookTypeOK
<1>4. PlacesCounted' /\ UsesAccountedFor' /\ UsesAllowed'
      /\ \A s \in Requests : RequestOK(request[s])'
  BY <1>1, <1>2, SameRequests
     DEF BookIInv, PlacesCounted, UsesAccountedFor, UsesAllowed, RequestOK
<1> QED BY <1>3, <1>4 DEF BookIInv

LEMMA UsageAgesKeeps ==
  ASSUME BookIInv, UsageAges
  PROVE  BookIInv'
<1>1. /\ UNCHANGED <<rows, aged, repeats, uses, used, uncounted, request, asked, bookFaults>>
      /\ ttl' \in Lives
  BY DEF UsageAges, Lives
<1>2. LiveRows' = LiveRows
  BY <1>1 DEF LiveRows, ActiveRows
<1>3. PlacesCounted' /\ UsesAccountedFor' /\ UsesAllowed'
      /\ \A s \in Requests : RequestOK(request[s])'
  BY <1>1, <1>2, SameRequests
     DEF BookIInv, PlacesCounted, UsesAccountedFor, UsesAllowed, RequestOK
<1> QED BY <1>1, <1>3 DEF BookIInv, BookTypeOK

(* The uses in flight when the key goes are the ones it does not count.    *)
LEMMA UsageExpiresKeeps ==
  ASSUME BookIInv, UsageExpires
  PROVE  BookIInv'
<1> DEFINE c == Cardinality(Claims)  d == Cardinality(Refusals)
<1>1. /\ UNCHANGED <<rows, aged, repeats, request, asked, bookFaults>>
      /\ uses' = 0 /\ ttl' \in Lives /\ used' = 0 /\ uncounted' = c + d
  BY DEF UsageExpires, Lives
<1>2. c \in Nat /\ d \in Nat /\ bookFaults \in Nat /\ MaxUses \in Nat
  BY SetsAreFinite, BookingAssumption DEF BookIInv, BookTypeOK
<1>3. Cardinality(Claims') = c /\ Cardinality(Refusals') = d
  BY <1>1, SameRequests
<1> HIDE DEF c, d
<1>4. /\ 0 + c + d - (c + d) <= 0 /\ 0 <= 0 + c + d - (c + d) + bookFaults
      /\ 0 + c <= MaxUses + (c + d) /\ c + d \in Nat
  BY <1>2
<1>5. UsesAccountedFor' /\ UsesAllowed'
  BY <1>1, <1>3, <1>4 DEF UsesAccountedFor, UsesAllowed
<1>6. LiveRows' = LiveRows
  BY <1>1 DEF LiveRows, ActiveRows
<1>7. PlacesCounted' /\ \A s \in Requests : RequestOK(request[s])'
  BY <1>1, <1>6, SameRequests DEF BookIInv, PlacesCounted, RequestOK
<1>8. BookTypeOK'
  BY <1>1, <1>4 DEF BookIInv, BookTypeOK
<1> QED BY <1>5, <1>7, <1>8 DEF BookIInv

-----------------------------------------------------------------------------
LEMMA InitHolds == BookInit => BookIInv
<1> SUFFICES ASSUME BookInit PROVE BookIInv
  OBVIOUS
<1>1. BookTypeOK
  <2>1. rows \in Seq([active : BOOLEAN, from : Origins]) /\ Len(rows) = 0
    BY DEF BookInit
  <2>2. aged \in 0..Len(rows) /\ asked \in 0..MaxAsked /\ bookFaults \in 0..MaxBookFaults
    BY <2>1, BookingAssumption DEF BookInit
  <2>3. request \in [Requests -> RequestState]
    BY IdleIsTyped DEF BookInit
  <2>4. repeats \in Nat /\ uses \in Int /\ ttl \in Lives /\ used \in Nat /\ uncounted \in Nat
    BY DEF BookInit, Lives
  <2> QED BY <2>1, <2>2, <2>3, <2>4 DEF BookTypeOK
<1>2. \A r \in Requests : request[r] = Idle
  BY DEF BookInit
<1>3. Claims = {} /\ Refusals = {} /\ InFlight = {} /\ LiveRows = {}
  BY <1>2, IdleIsTyped DEF BookInit, Claims, Refusals, InFlight, LiveRows, ActiveRows
<1>4. /\ Cardinality(Claims) = 0 /\ Cardinality(Refusals) = 0
      /\ Cardinality(InFlight) = 0 /\ Cardinality(LiveRows) = 0
  BY <1>3, FS_EmptySet
<1>5. Cardinality(Requests) \in Nat /\ MaxActive - 1 \in Nat /\ MaxUses \in Nat
  BY BookingAssumption, FS_CardinalityType
<1>6. UsesAccountedFor /\ UsesAllowed /\ PlacesCounted
  BY <1>4, <1>5 DEF BookInit, UsesAccountedFor, UsesAllowed, PlacesCounted
<1> QED BY <1>1, <1>2, <1>6, IdleIsTyped DEF BookIInv

LEMMA StepKeeps ==
  ASSUME BookIInv, [BookNext]_bookVars
  PROVE  BookIInv'
<1>1. CASE \E r \in Requests : RequestStep(r)
  <2> PICK r \in Requests : RequestStep(r)
    BY <1>1
  <2>1. CASE \E withCode \in BOOLEAN : Ask(r, withCode)
    BY <2>1, AskKeeps
  <2>2. CASE \/ GuardVelocity(r) \/ GuardConcurrency(r) \/ GuardDuplicateRead(r)
            \/ GuardDuplicateWrite(r) \/ GuardSkipped(r) \/ NotFound(r)
    BY <2>2, GuardVelocityKeeps, GuardConcurrencyKeeps, GuardDuplicateReadKeeps,
       GuardDuplicateWriteKeeps, GuardSkippedKeeps, NotFoundKeeps
  <2>3. CASE RedeemIncr(r) \/ RedeemExpire(r) \/ RedeemDecr(r)
    BY <2>3, RedeemIncrKeeps, RedeemExpireKeeps, GivesBackKeeps
  <2>4. CASE \/ CreateRide(r) \/ CreateFails(r) \/ CreateReplyLost(r)
            \/ Release(r) \/ RequestLost(r)
    BY <2>4, CreateRideKeeps, CreateFailsKeeps, CreateReplyLostKeeps, GivesBackKeeps,
       RequestLostKeeps
  <2> QED BY <2>1, <2>2, <2>3, <2>4 DEF RequestStep
<1>2. CASE \E n \in DOMAIN rows : RideEnds(n)
  BY <1>2, RideEndsKeeps
<1>3. CASE TimePasses
  BY <1>3, TimeKeeps, UsageAgesKeeps, UsageExpiresKeeps DEF TimePasses
<1>4. CASE UNCHANGED bookVars
  BY <1>4, TimeKeeps
<1> QED BY <1>1, <1>2, <1>3, <1>4 DEF BookNext

LEMMA Inductive == BookSpec => []BookIInv
BY InitHolds, StepKeeps, PTL DEF BookSpec

(* What the invariant says of the limits. *)
LEMMA LimitsFollow ==
  ASSUME BookIInv
  PROVE  PromoNeverOverused /\ UsesAccountedFor /\ ActiveRidesBounded
<1>1. PromoNeverOverused
  <2>1. /\ used \in Nat /\ uncounted \in Nat /\ Cardinality(Claims) \in Nat
        /\ MaxUses \in Nat
    BY SetsAreFinite, BookingAssumption DEF BookIInv, BookTypeOK
  <2> QED BY <2>1 DEF BookIInv, UsesAllowed, PromoNeverOverused
<1>2. ActiveRidesBounded
  <2> DEFINE l == Cardinality(LiveRows)  f == Cardinality(InFlight)
             k == Cardinality(Requests)  m == MaxActive - 1
  <2>1. l \in Nat /\ f \in Nat /\ k \in Nat /\ m \in Nat /\ bookFaults \in Nat
    BY SetsAreFinite, BookingAssumption DEF BookIInv, BookTypeOK
  <2>2. l + f <= m + k + bookFaults
    BY DEF BookIInv, PlacesCounted
  <2> SUFFICES l <= m + k + bookFaults
    BY DEF ActiveRidesBounded
  <2> HIDE DEF l, f, k, m
  <2> QED BY <2>1, <2>2
<1> QED BY <1>1, <1>2 DEF BookIInv

(* Every variable of the booking keeps its shape; the usage counter, which *)
(* refusals and compensations decrement, is an integer (redeem, release).  *)
THEOREM BookTypeCorrect == BookSpec => []BookTypeOK
<1>1. BookIInv => BookTypeOK
  BY DEF BookIInv
<1> QED BY <1>1, Inductive, PTL

(* However many requests of a rider race, the discounted rides of a key's  *)
(* life stay within the limit and the uses the counter lost: those held    *)
(* when it expired, and those given back for rides that exist (redeem      *)
(* 62-91, requestRide 130-154).                                            *)
THEOREM PromoLimit == BookSpec => []PromoNeverOverused
BY LimitsFollow, Inductive, PTL

(* Every counted use of a promo is a ride's, a request's, or was lost to   *)
(* an error (requestRide 147-154, redeem 87-90).                           *)
THEOREM UsesBalanced == BookSpec => []UsesAccountedFor
BY LimitsFollow, Inductive, PTL

(* The guard's check of active rides is overrun by at most the requests    *)
(* that run at once and the errors that open it (guardConcurrency 81-102). *)
THEOREM ActiveRidesLimit == BookSpec => []ActiveRidesBounded
BY LimitsFollow, Inductive, PTL
=============================================================================
