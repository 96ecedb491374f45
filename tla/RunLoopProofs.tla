---------------------------- MODULE RunLoopProofs ----------------------------
(***************************************************************************)
(* Over any number of routes, a claim that outlasts a pass for each route  *)
(* and each failed call lets every route have its turn and the heartbeat   *)
(* beat, for as long as the process keeps its instance lease, which it     *)
(* does as InstanceLeaseProofs shows.                                      *)
(***************************************************************************)
EXTENDS RunLoop, InstanceLeaseProofs, FiniteSetTheorems

(* What the loop does to its lease it does with a queue as well.           *)
LEMMA StepsAreLeaseSteps == [RunNext]_<<vars, queue>> => [Next]_vars
BY DEF RunNext, Next, Pass, RunTick, RequestRouted, vars

(* The loop with its queue implements the renewal of the lease.            *)
THEOREM RunsTheLease == RunSpec => Spec
<1>1. RunInit => Init
  BY DEF RunInit
<1> QED
  BY <1>1, StepsAreLeaseSteps, PTL DEF RunSpec, Spec

(* The lease is kept with poison in the queue as without.                  *)
THEOREM RunKeepsLease ==
    ASSUME MarginSuffices
    PROVE  RunSpec => []LeaseKeptInStep
<1>1. Spec => []LeaseKeptInStep
  BY LeaseKept
<1> QED
  BY <1>1, RunsTheLease, PTL

-----------------------------------------------------------------------------

(* Routes are counted.                                                     *)
LEMMA RoutesCounted ==
    ASSUME NEW n \in 0 .. RouteCount, NEW S \in SUBSET (1 .. n)
    PROVE  /\ IsFiniteSet(S) /\ Cardinality(S) \in Nat /\ Cardinality(S) <= n
           /\ \A t \in S : Cardinality(S \ {t}) = Cardinality(S) - 1
           /\ \A t \in (1 .. n) \ S : Cardinality(S \cup {t}) = Cardinality(S) + 1
           /\ S # 1 .. n => Cardinality(S) < n
<1>1. n \in Nat
  BY RunLoopAssumption
<1>2. IsFiniteSet(1 .. n) /\ Cardinality(1 .. n) = n
  BY <1>1, FS_Interval
<1>3. IsFiniteSet(S) /\ Cardinality(S) <= n /\ (Cardinality(S) = n => S = 1 .. n)
  BY <1>2, FS_Subset
<1>4. Cardinality(S) \in Nat
  BY <1>3, FS_CardinalityType
<1>5. \A t \in S : Cardinality(S \ {t}) = Cardinality(S) - 1
  BY <1>3, FS_RemoveElement
<1>6. \A t \in (1 .. n) \ S : Cardinality(S \cup {t}) = Cardinality(S) + 1
  BY <1>3, FS_AddElement
<1> QED
  BY <1>1, <1>3, <1>4, <1>5, <1>6

(* Seconds until the next pass are counted down, and start again with it.  *)
LEMMA PassWaitType == TypeOK => PassWait \in Nat
BY ConstantsAssumption DEF TypeOK, PassWait, Limit, Loop

LEMMA PassWaitTypeNext == (TypeOK => PassWait \in Nat)'
BY PassWaitType, PTL

(* Nothing but a second and a pass change the wait.                        *)
LEMMA PassWaitKept ==
    ASSUME TypeOK, RenewLeaseIfDue \/ RenewLease \/ Wake
    PROVE  PassWait' = PassWait
BY ConstantsAssumption
   DEF PassWait, RenewLeaseIfDue, RenewLease, Renewed, Rejected, RequestLost, AnswerLost, Wake,
       At, Goto, TypeOK, Limit

LEMMA PassWaitTicks ==
    ASSUME TypeOK, Tick
    PROVE  PassWait' = PassWait - 1
BY ConstantsAssumption DEF PassWait, Tick, TypeOK, Limit, Loop

LEMMA PassWaitIsARound ==
    ASSUME TypeOK
    PROVE  PassWait <= Round
BY ConstantsAssumption DEF PassWait, TypeOK, Limit, Round

LEMMA PassWaitStarts ==
    ASSUME WorkOnce
    PROVE  PassWait' = Round
BY ConstantsAssumption DEF PassWait, WorkOnce, Round

(* A route that is held over n passes is held over one less after the      *)
(* next.                                                                   *)
LEMMA HeldOverPass ==
    ASSUME TypeOK, QueueTypeOK, NEW q \in Route, NEW n \in Nat \ {0}, HeldOver(q, n),
           NEW m \in Nat, m < n
    PROVE  held[q] > Round + m * Round
<1>1. held[q] > n * Round
  <2>1. n * Round \in Nat /\ held[q] \in Nat
    BY RoundType DEF QueueTypeOK
  <2> QED
    BY <2>1, PassWaitType DEF HeldOver
<1>2. \A r \in Nat : m * r \in Nat /\ r + m * r <= n * r
  <2> TAKE r \in Nat
  <2>1. n = (m + 1) + (n - m - 1) /\ n - m - 1 \in Nat
    OBVIOUS
  <2>2. \A d \in Nat : r + m * r <= ((m + 1) + d) * r
    BY SMT
  <2> QED
    BY <2>1, <2>2, SMT
<1> QED
  BY <1>1, <1>2, RoundType DEF QueueTypeOK

(* A fresh claim is held over all that may come before the next time.      *)
LEMMA ClaimHeldOver ==
    ASSUME ClaimSuffices, NEW m \in Nat, m < RouteCount + MaxHiccups
    PROVE  CLAIM_LEASE_SECONDS > Round + m * Round
<1> DEFINE n == RouteCount + MaxHiccups
<1>1. n \in Nat
  BY RunLoopAssumption
<1>2. \A r \in Nat : r + m * r <= n * r
  <2> TAKE r \in Nat
  <2>1. n = (m + 1) + (n - m - 1) /\ n - m - 1 \in Nat
    BY <1>1
  <2>2. \A d \in Nat : r + m * r <= ((m + 1) + d) * r
    BY SMT
  <2> QED
    BY <2>1, <2>2, SMT
<1>3. CLAIM_LEASE_SECONDS > n * Round
  BY DEF ClaimSuffices
<1>4. n * Round \in Nat /\ m * Round \in Nat
  BY <1>1, RoundType
<1> HIDE DEF n
<1> QED
  BY <1>2, <1>3, <1>4, RoundType, RunLoopAssumption

(* Held over anything is held.                                             *)
LEMMA HeldOverIsHeld ==
    ASSUME TypeOK, NEW q, NEW n \in Nat, HeldOver(q, n)
    PROVE  held[q] # 0
<1>1. n * Round \in Nat
  BY RoundType
<1> QED
  BY <1>1, PassWaitType DEF HeldOver

-----------------------------------------------------------------------------

(* The parts of QueueIInv that hold of the queue alone.                    *)
TakenInOrder ==
    /\ \A r \in Route : taken[r] \subseteq 1 .. r - 1 /\ (r \notin Eligible => taken[r] = {})
    /\ \A r \in Route : \A q \in taken[r] : route[q] # "absent"

(* What may still come before a route is a number within the bounds.       *)
LEMMA BeforeBounded ==
    ASSUME QueueTypeOK, TakenInOrder, NEW r \in Route
    PROVE  Before(r) \in Nat /\ Before(r) < RouteCount + MaxHiccups
<1>1. r - 1 \in 0 .. RouteCount /\ r - 1 < RouteCount /\ RouteCount \in Nat /\ MaxHiccups \in Nat
  BY RunLoopAssumption DEF Route
<1>2. (1 .. r - 1) \ taken[r] \in SUBSET (1 .. r - 1)
  OBVIOUS
<1>3. /\ Cardinality((1 .. r - 1) \ taken[r]) \in Nat
      /\ Cardinality((1 .. r - 1) \ taken[r]) <= r - 1
  BY <1>1, <1>2, RoutesCounted
<1>4. hiccups \in 0 .. MaxHiccups
  BY DEF QueueTypeOK
<1> HIDE DEF Route
<1> QED
  BY <1>1, <1>3, <1>4 DEF Before, Route

LEMMA BeforeBoundedAll ==
    QueueTypeOK /\ TakenInOrder =>
        \A r \in Route : Before(r) \in Nat /\ Before(r) < RouteCount + MaxHiccups
BY BeforeBounded

LEMMA BeforeBoundedNext ==
    (QueueTypeOK /\ TakenInOrder =>
        \A r \in Route : Before(r) \in Nat /\ Before(r) < RouteCount + MaxHiccups)'
BY BeforeBoundedAll, PTL

(* So is what may come before the heartbeat beats.                         *)
LEMMA OthersBounded ==
    ASSUME QueueTypeOK, NEW S \in SUBSET Route
    PROVE  /\ Cardinality(S) \in Nat /\ Cardinality(Route \ S) \in Nat
           /\ Cardinality(Route \ S) + (MaxHiccups - hiccups) \in Nat
           /\ \A t \in Route \ S :
                /\ Cardinality(S \cup {t}) = Cardinality(S) + 1
                /\ Cardinality(Route \ (S \cup {t})) = Cardinality(Route \ S) - 1
                /\ Cardinality(Route \ (S \cup {t})) \in Nat
                /\ Cardinality(Route \ (S \cup {t})) < RouteCount
<1>1. RouteCount \in 0 .. RouteCount /\ Route = 1 .. RouteCount
  BY RunLoopAssumption DEF Route
<1>2. Cardinality(S) \in Nat /\ Cardinality(Route \ S) \in Nat
  BY <1>1, RoutesCounted
<1>3. ASSUME NEW t \in Route \ S
      PROVE  /\ Cardinality(S \cup {t}) = Cardinality(S) + 1
             /\ Cardinality(Route \ (S \cup {t})) = Cardinality(Route \ S) - 1
             /\ Cardinality(Route \ (S \cup {t})) \in Nat
             /\ Cardinality(Route \ (S \cup {t})) < RouteCount
  <2>1. Route \ (S \cup {t}) = (Route \ S) \ {t} /\ Route \ (S \cup {t}) # Route
    BY <1>3
  <2>2. /\ Cardinality((Route \ S) \ {t}) = Cardinality(Route \ S) - 1
        /\ Cardinality(S \cup {t}) = Cardinality(S) + 1
    BY <1>1, <1>3, RoutesCounted
  <2>3. /\ Cardinality(Route \ (S \cup {t})) \in Nat
        /\ Cardinality(Route \ (S \cup {t})) < RouteCount
    BY <1>1, <2>1, RoutesCounted
  <2> QED
    BY <2>1, <2>2, <2>3
<1>4. hiccups \in 0 .. MaxHiccups /\ MaxHiccups \in Nat
  BY RunLoopAssumption DEF QueueTypeOK
<1> QED
  BY <1>2, <1>3, <1>4

(* A success leaves no failures to explain.                                *)
LEMMA SuccessExplained ==
    ASSUME failures' = 0, hiccups' \in Nat
    PROVE  FailuresExplained'
<1>1. {} \in SUBSET Poison' /\ Cardinality({}) = 0
  BY FS_EmptySet
<1>2. failures' <= Cardinality({}) + hiccups'
  BY <1>1
<1> QED
  BY <1>1, <1>2 DEF FailuresExplained

(* The queue at first.                                                     *)
LEMMA InitQueue == RunInit => QueueIInv
<1> SUFFICES ASSUME RunInit PROVE QueueIInv
  OBVIOUS
<1>1. QueueTypeOK
  BY RunLoopAssumption DEF RunInit, QueueTypeOK
<1>2. TakenStaysAway
  BY DEF RunInit, TakenStaysAway, Eligible
<1>3. FailuresExplained
  <2>1. {} \in SUBSET Poison /\ Cardinality({}) = 0
    BY FS_EmptySet
  <2>2. failures <= Cardinality({}) + hiccups
    BY <2>1 DEF RunInit
  <2> QED
    BY <2>1, <2>2 DEF FailuresExplained
<1> QED
  BY <1>1, <1>2, <1>3 DEF RunInit, Init, QueueIInv

-----------------------------------------------------------------------------

(* A step that is no pass takes nobody and holds nobody: whoever is held   *)
(* over n passes stays so.                                                 *)
LEMMA BetweenPasses ==
    ASSUME QueueIInv, QueueTypeOK', TakenInOrder', (pc = "renew_lease" => instance_lease # None)',
           Owned' => Owned,
           UNCHANGED <<taken, failures, hiccups>>,
           \A r \in Eligible' : r \in Eligible \/ taken[r] = {},
           \A q \in Route : route[q] \in {"completed", "poison"} => route'[q] = route[q],
           \A q \in Route : \A n \in Nat : HeldOver(q, n) => HeldOver(q, n)'
    PROVE  QueueIInv'
<1>1. TakenInOrder /\ QueueTypeOK
  BY DEF QueueIInv, TakenInOrder
<1>2. TakenStaysAway'
  <2> SUFFICES ASSUME Owned', NEW r \in Eligible', NEW q \in taken[r], route'[q] # "completed"
               PROVE  HeldOver(q, Before(r))'
    BY DEF TakenStaysAway, Owned
  <2>1. r \in Route /\ r \in Eligible
    BY DEF Eligible
  <2>2. q \in Route
    BY <1>1, <2>1 DEF QueueTypeOK
  <2>3. HeldOver(q, Before(r))
    BY <2>1, <2>2 DEF QueueIInv, TakenStaysAway, Owned
  <2>4. Before(r)' = Before(r) /\ Before(r) \in Nat
    BY <1>1, <2>1, BeforeBounded DEF Before
  <2>5. \A n \in Nat : HeldOver(q, n) => HeldOver(q, n)'
    BY <2>2
  <2> QED
    BY <2>3, <2>4, <2>5 DEF HeldOver
<1>3. FailuresExplained'
  <2> SUFFICES ASSUME Owned' PROVE FailuresExplained'
    BY DEF FailuresExplained, Owned
  <2>1. PICK S \in SUBSET Poison :
          /\ failures <= Cardinality(S) + hiccups
          /\ \A q \in S : HeldOver(q, Cardinality(Route \ S) + (MaxHiccups - hiccups))
    BY DEF QueueIInv, FailuresExplained, Owned
  <2> DEFINE n == Cardinality(Route \ S) + (MaxHiccups - hiccups)
  <2>2. S \in SUBSET Poison' /\ S \in SUBSET Route
    BY DEF Poison
  <2>3. n \in Nat
    BY <1>1, <2>2, OthersBounded
  <2>4. \A q \in S : held'[q] > PassWait' + n * Round
    BY <2>1, <2>2, <2>3 DEF HeldOver
  <2>5. /\ failures' <= Cardinality(S) + hiccups'
        /\ \A q \in S : held'[q] > PassWait' + (Cardinality(Route \ S) + (MaxHiccups - hiccups')) * Round
    BY <2>1, <2>4
  <2> QED
    BY <2>2, <2>5 DEF FailuresExplained, HeldOver
<1> QED
  BY <1>2, <1>3 DEF QueueIInv, TakenInOrder

(* The parts of an iteration around the pass leave the queue alone.        *)
LEMMA QuietQueue ==
    ASSUME IInv, QueueIInv, RenewLeaseIfDue \/ RenewLease \/ Wake, UNCHANGED queue
    PROVE  QueueIInv'
<1>1. TypeOK /\ PassWait' = PassWait
  BY PassWaitKept DEF IInv
<1>2. Owned' => Owned
  BY DEF QueueIInv, Owned, RenewLeaseIfDue, RenewLease, Renewed, Rejected, RequestLost, AnswerLost,
         Wake, At
<1>3. (pc = "renew_lease" => instance_lease # None)'
  BY DEF RenewLeaseIfDue, RenewLease, Renewed, Rejected, RequestLost, AnswerLost, Wake, At, Goto
<1>4. QueueTypeOK' /\ TakenInOrder'
  BY DEF queue, QueueIInv, QueueTypeOK, TakenInOrder, Eligible
<1>5. \A q \in Route : \A n \in Nat : HeldOver(q, n) => HeldOver(q, n)'
  BY <1>1 DEF HeldOver, queue
<1>6. UNCHANGED <<taken, failures, hiccups>> /\ route' = route /\ Eligible' = Eligible
  BY DEF queue, Eligible
<1> QED
  BY <1>2, <1>3, <1>4, <1>5, <1>6, BetweenPasses

(* A second brings the next pass and the end of a claim as much closer.    *)
LEMMA TickQueue ==
    ASSUME IInv, QueueIInv, RunTick
    PROVE  QueueIInv'
<1>1. TypeOK /\ PassWait \in Nat /\ PassWait' = PassWait - 1 /\ PassWait' \in Nat
  <2>1. TypeOK /\ Tick /\ [Next]_vars
    BY DEF IInv, RunTick, Next
  <2>2. TypeOK'
    BY <2>1, TypeStep
  <2>3. PassWait' \in Nat
    BY <2>2, PassWaitTypeNext
  <2> QED
    BY <2>1, <2>3, PassWaitTicks, PassWaitType
<1>2. Owned' => Owned
  BY DEF Owned, RunTick, Tick, None, IInv, TypeOK
<1>3. (pc = "renew_lease" => instance_lease # None)'
  BY DEF QueueIInv, RunTick, Tick, None, IInv, TypeOK
<1>4. /\ UNCHANGED <<route, taken, failures, hiccups>>
      /\ held' = [r \in Route |-> IF held[r] > 0 THEN held[r] - 1 ELSE 0]
      /\ held \in [Route -> 0 .. CLAIM_LEASE_SECONDS]
  BY DEF RunTick, QueueIInv, QueueTypeOK
<1>5. QueueTypeOK'
  <2>1. held' \in [Route -> 0 .. CLAIM_LEASE_SECONDS]
    BY <1>4, RunLoopAssumption
  <2>2. heartbeat' \in Nat
    BY DEF RunTick, QueueIInv, QueueTypeOK
  <2>3. waited' \in [Route -> Nat]
    BY DEF RunTick, QueueIInv, QueueTypeOK
  <2> QED
    BY <1>4, <2>1, <2>2, <2>3 DEF QueueIInv, QueueTypeOK
<1>6. Eligible \subseteq Eligible' /\ Eligible' \subseteq Route
  BY <1>4 DEF Eligible
<1>7. TakenInOrder' /\ \A r \in Eligible' : r \in Eligible \/ taken[r] = {}
  BY <1>4, <1>6 DEF QueueIInv, TakenInOrder
<1>8. ASSUME NEW q \in Route, NEW n \in Nat, HeldOver(q, n) PROVE HeldOver(q, n)'
  <2>1. n * Round \in Nat
    BY RoundType
  <2>2. held[q] \in Nat /\ held[q] > PassWait + n * Round
    BY <1>4, <1>8 DEF HeldOver
  <2>3. held'[q] = held[q] - 1
    BY <1>1, <1>4, <2>1, <2>2
  <2> QED
    BY <1>1, <2>1, <2>2, <2>3 DEF HeldOver, Round
<1> QED
  BY <1>2, <1>3, <1>4, <1>5, <1>7, <1>8, BetweenPasses

(* A new route has not waited.                                             *)
LEMMA RoutedQueue ==
    ASSUME IInv, QueueIInv, RequestRouted
    PROVE  QueueIInv'
<1>1. PICK r \in Route, kind \in Kind :
        /\ \A q \in Route : (route[q] = "absent") <=> (q >= r)
        /\ route' = [route EXCEPT ![r] = kind]
  BY DEF RequestRouted
<1>2. /\ UNCHANGED <<vars, held, taken, waited, failures, heartbeat, hiccups>> /\ route[r] = "absent"
      /\ \A q \in Route \ {r} : route'[q] = route[q]
  BY <1>1 DEF RequestRouted, QueueIInv, QueueTypeOK, Route
<1>3. PassWait' = PassWait /\ (Owned' => Owned) /\ (pc = "renew_lease" => instance_lease # None)'
  BY <1>2 DEF vars, PassWait, Owned, QueueIInv
<1>4. QueueTypeOK'
  BY <1>1, <1>2 DEF QueueIInv, QueueTypeOK
<1>5. Eligible \subseteq Eligible' /\ Eligible' \subseteq Eligible \cup {r} /\ r \notin Eligible
  BY <1>1, <1>2 DEF Eligible, Kind
<1>6. TakenInOrder' /\ \A q \in Eligible' : q \in Eligible \/ taken[q] = {}
  <2>1. \A q \in Route : route[q] # "absent" => route'[q] # "absent"
    BY <1>2
  <2>2. \A q \in Route : \A t \in taken[q] : t \in Route
    BY DEF QueueIInv, QueueTypeOK
  <2> QED
    BY <1>2, <1>5, <2>1, <2>2 DEF QueueIInv, TakenInOrder
<1>7. \A q \in Route : \A n \in Nat : HeldOver(q, n) => HeldOver(q, n)'
  BY <1>2, <1>3 DEF HeldOver
<1>8. \A q \in Route : route[q] \in {"completed", "poison"} => route'[q] = route[q]
  BY <1>2
<1> QED
  BY <1>2, <1>3, <1>4, <1>6, <1>7, <1>8, BetweenPasses

-----------------------------------------------------------------------------
(* The pass.                                                               *)

(* The pass takes the oldest route t, which is then held or completed, and *)
(* may be a failed call.                                                   *)
Takes(t) ==
    /\ Oldest(t)
    /\ Take(t)
    /\ \/ held' = [held EXCEPT ![t] = CLAIM_LEASE_SECONDS] /\ UNCHANGED route
       \/ /\ route[t] = "performable" /\ route' = [route EXCEPT ![t] = "completed"]
          /\ UNCHANGED held
    /\ hiccups' \in hiccups .. MaxHiccups

(* Nobody that is held can be taken.                                       *)
LEMMA TakenIsNew ==
    ASSUME IInv, QueueIInv, Owned, NEW t \in Eligible
    PROVE  /\ \A r \in Eligible : t \notin taken[r]
           /\ \A S \in SUBSET Poison : \A n \in Nat :
                (\A q \in S : HeldOver(q, n)) => t \notin S
<1>1. TypeOK /\ QueueTypeOK /\ TakenInOrder /\ held[t] = 0 /\ route[t] \in Kind
  BY DEF IInv, QueueIInv, TakenInOrder, Eligible
<1>2. \A n \in Nat : ~ HeldOver(t, n)
  BY <1>1, HeldOverIsHeld
<1>3. ASSUME NEW r \in Eligible PROVE t \notin taken[r]
  <2>1. Before(r) \in Nat
    BY <1>1, BeforeBounded DEF Eligible
  <2> QED
    BY <1>1, <1>2, <2>1 DEF QueueIInv, TakenStaysAway, Owned, Kind
<1> QED
  BY <1>2, <1>3

LEMMA EligibleAreRoutes == Eligible \subseteq Route
BY DEF Eligible

LEMMA EarlierIsOlder ==
    ASSUME NEW r \in Route, NEW t \in Route, t <= r, r # t
    PROVE  t \in 1 .. r - 1
BY RunLoopAssumption DEF Route

(* What a pass takes comes before a route that waits, once.                *)
LEMMA TakesQueue ==
    ASSUME IInv, QueueIInv, ClaimSuffices, NEW t \in Route, Takes(t), WorkOnce
    PROVE  QueueTypeOK' => TakenInOrder' /\ TakenStaysAway'
<1> SUFFICES ASSUME QueueTypeOK' PROVE TakenInOrder' /\ TakenStaysAway'
  OBVIOUS
<1>1. TypeOK /\ QueueTypeOK /\ TakenInOrder
  BY DEF IInv, QueueIInv, TakenInOrder
<1>2. CLAIM_LEASE_SECONDS > 0 /\ CLAIM_LEASE_SECONDS \in Nat
  <2>1. (RouteCount + MaxHiccups) * Round \in Nat
    BY RoundType, RunLoopAssumption
  <2> QED
    BY <2>1, RunLoopAssumption DEF ClaimSuffices
<1>3. t \in Eligible /\ \A q \in Eligible : t <= q
  BY DEF Takes, Oldest
<1>4. /\ t \notin Eligible' /\ Eligible' = Eligible \ {t}
      /\ \A q \in Route \ {t} : held'[q] = held[q] /\ route'[q] = route[q]
      /\ route'[t] = "completed" \/ held'[t] = CLAIM_LEASE_SECONDS
      /\ route'[t] # "absent"
  BY <1>1, <1>2, <1>3 DEF Takes, Eligible, Kind, QueueTypeOK
<1>5. \A r \in Route : taken'[r] = IF r = t THEN {}
                                   ELSE IF r \in Eligible THEN taken[r] \cup {t} ELSE taken[r]
  BY DEF Takes, Take
<1>6. TakenInOrder'
  <2>1. ASSUME NEW r \in Route
        PROVE  taken'[r] \subseteq 1 .. r - 1 /\ (r \notin Eligible' => taken'[r] = {})
    <3>1. CASE r \in Eligible /\ r # t
      <4>1. t \in 1 .. r - 1
        BY <1>3, <3>1, <2>1, EarlierIsOlder
      <4>2. taken[r] \subseteq 1 .. r - 1 /\ taken'[r] = taken[r] \cup {t} /\ r \in Eligible'
        BY <1>1, <1>4, <1>5, <2>1, <3>1 DEF TakenInOrder
      <4> QED
        BY <4>1, <4>2
    <3>2. CASE r \notin Eligible \/ r = t
      BY <1>1, <1>4, <1>5, <2>1, <3>2 DEF TakenInOrder
    <3> QED
      BY <3>1, <3>2
  <2>2. ASSUME NEW r \in Route, NEW q \in taken'[r]
        PROVE  route'[q] # "absent"
    <3>1. q = t \/ (q \in taken[r] /\ q \in Route)
      BY <1>1, <1>5, <2>2 DEF QueueTypeOK
    <3> QED
      BY <1>1, <1>4, <2>2, <3>1 DEF TakenInOrder
  <2> QED
    BY <2>1, <2>2 DEF TakenInOrder
<1>7. TakenStaysAway'
  <2> SUFFICES ASSUME Owned', NEW r \in Eligible', NEW q \in taken'[r], route'[q] # "completed"
               PROVE  HeldOver(q, Before(r))'
    BY DEF TakenStaysAway, Owned
  <2>1. Owned /\ PassWait' = Round
    BY PassWaitStarts DEF Owned, WorkOnce
  <2>2. r \in Route /\ r \in Eligible /\ r # t /\ t \in 1 .. r - 1 /\ taken'[r] = taken[r] \cup {t}
    <3>1. r \in Eligible /\ r # t /\ r \in Route
      BY <1>4, EligibleAreRoutes
    <3> QED
      BY <1>3, <1>5, <3>1, EarlierIsOlder
  <2>3. t \notin taken[r]
    BY <1>3, <2>1, <2>2, TakenIsNew
  <2>4. /\ Before(r) \in Nat /\ Before(r)' \in Nat
        /\ Before(r)' < RouteCount + MaxHiccups
    <3>1. Before(r) \in Nat
      BY <1>1, <2>2, BeforeBounded
    <3> QED
      BY <1>6, <2>2, <3>1, BeforeBoundedNext
  <2>5. Before(r)' < Before(r)
    <3> DEFINE others == (1 .. r - 1) \ taken[r]
    <3>1. r - 1 \in 0 .. RouteCount /\ others \in SUBSET (1 .. r - 1) /\ t \in others
      BY <2>2, <2>3, RunLoopAssumption DEF Route
    <3>2. /\ (1 .. r - 1) \ taken'[r] = others \ {t}
          /\ Cardinality(others \ {t}) = Cardinality(others) - 1 /\ Cardinality(others) \in Nat
      <4>1. (1 .. r - 1) \ taken'[r] = others \ {t}
        BY <2>2
      <4> HIDE DEF others
      <4> QED
        BY <3>1, <4>1, RoutesCounted
    <3>3. Before(r) = Cardinality(others) + (MaxHiccups - hiccups)
      BY DEF Before
    <3>4. Before(r)' = Cardinality(others \ {t}) + (MaxHiccups - hiccups')
      BY <3>2 DEF Before
    <3> HIDE DEF others
    <3>5. hiccups \in Nat /\ hiccups' \in Nat /\ hiccups' >= hiccups /\ MaxHiccups \in Nat
      BY <1>1, RunLoopAssumption DEF Takes, QueueTypeOK
    <3> QED
      BY <3>2, <3>3, <3>4, <3>5
  <2>6. CASE q = t
    <3>1. held'[t] > Round + Before(r)' * Round
      BY <1>4, <2>4, <2>6, ClaimHeldOver
    <3> QED
      BY <2>1, <2>6, <3>1 DEF HeldOver, Round
  <2>7. CASE q # t
    <3>1. q \in taken[r] /\ q \in Route
      BY <1>1, <2>2, <2>7 DEF QueueTypeOK
    <3>2. HeldOver(q, Before(r)) /\ held'[q] = held[q]
      BY <1>4, <2>1, <2>2, <2>7, <3>1 DEF QueueIInv, TakenStaysAway, Owned
    <3>3. Before(r) \in Nat \ {0}
      BY <2>4, <2>5
    <3>4. held[q] > Round + Before(r)' * Round
      BY <1>1, <2>4, <2>5, <3>1, <3>2, <3>3, HeldOverPass
    <3> QED
      BY <2>1, <3>2, <3>4 DEF HeldOver, Round
  <2> QED
    BY <2>6, <2>7
<1> QED
  BY <1>6, <1>7

(* A call that fails is counted, and whoever was refused before is still   *)
(* held.                                                                   *)
LEMMA HiccupExplained ==
    ASSUME IInv, QueueIInv, WorkOnce, Hiccup
    PROVE  FailuresExplained'
<1> SUFFICES ASSUME Owned' PROVE FailuresExplained'
  BY DEF FailuresExplained, Owned
<1>1. TypeOK /\ QueueTypeOK /\ Owned /\ PassWait' = Round
  BY PassWaitStarts DEF IInv, QueueIInv, Owned, WorkOnce
<1>2. PICK S \in SUBSET Poison :
        /\ failures <= Cardinality(S) + hiccups
        /\ \A q \in S : HeldOver(q, Cardinality(Route \ S) + (MaxHiccups - hiccups))
  BY <1>1 DEF QueueIInv, FailuresExplained, Owned
<1> DEFINE n == Cardinality(Route \ S) + (MaxHiccups - hiccups)
           m == Cardinality(Route \ S) + (MaxHiccups - hiccups')
<1>3. /\ S \in SUBSET Route /\ n \in Nat /\ n = m + 1 /\ m \in Nat
      /\ failures' = failures + 1 /\ hiccups' = hiccups + 1
      /\ Cardinality(S) \in Nat /\ failures \in Nat /\ hiccups \in Nat
  <2>1. S \in SUBSET Route
    BY DEF Poison
  <2>2. /\ Cardinality(S) \in Nat /\ Cardinality(Route \ S) \in Nat /\ MaxHiccups \in Nat
        /\ hiccups \in Nat /\ failures \in Nat /\ hiccups < MaxHiccups
        /\ failures' = failures + 1 /\ hiccups' = hiccups + 1
    <3>1. Cardinality(S) \in Nat /\ Cardinality(Route \ S) \in Nat
      BY <1>1, <2>1, OthersBounded
    <3>2. hiccups < MaxHiccups /\ failures' = failures + 1 /\ hiccups' = hiccups + 1
      BY Zenon DEF Hiccup, NoSuccess
    <3>3. MaxHiccups \in Nat /\ hiccups \in Nat /\ failures \in Nat
      BY <1>1, RunLoopAssumption DEF QueueTypeOK
    <3> QED
      BY <3>1, <3>2, <3>3
  <2> QED
    BY <2>1, <2>2
<1>4. \A q \in S : held'[q] = held[q] /\ route'[q] = "poison"
  <2>1. \A t \in Eligible : t \notin S
    BY <1>1, <1>2, <1>3, TakenIsNew
  <2>2. \A q \in S : route[q] = "poison" /\ q \in Route
    BY DEF Poison
  <2> QED
    BY <1>1, <2>1, <2>2 DEF Hiccup, Claim, QueueTypeOK
<1>5. S \in SUBSET Poison'
  BY <1>3, <1>4 DEF Poison
<1>6. \A q \in S : held'[q] > Round + m * Round
  <2> TAKE q \in S
  <2>1. q \in Route /\ HeldOver(q, n) /\ n \in Nat \ {0} /\ m < n
    BY <1>2, <1>3
  <2> HIDE DEF n, m
  <2>2. held[q] > Round + m * Round
    BY <1>1, <1>3, <2>1, HeldOverPass
  <2> QED
    BY <1>4, <2>2
<1>7. failures' <= Cardinality(S) + hiccups'
  BY <1>2, <1>3
<1> QED
  BY <1>1, <1>5, <1>6, <1>7 DEF FailuresExplained, HeldOver, Round

(* A refused request is one more, and is held over all the others.         *)
LEMMA RefusedExplained ==
    ASSUME IInv, QueueIInv, ClaimSuffices, WorkOnce, NEW t \in Route, Refused(t)
    PROVE  FailuresExplained'
<1> SUFFICES ASSUME Owned' PROVE FailuresExplained'
  BY DEF FailuresExplained, Owned
<1>1. TypeOK /\ QueueTypeOK /\ Owned /\ PassWait' = Round
  BY PassWaitStarts DEF IInv, QueueIInv, Owned, WorkOnce
<1>2. PICK S \in SUBSET Poison :
        /\ failures <= Cardinality(S) + hiccups
        /\ \A q \in S : HeldOver(q, Cardinality(Route \ S) + (MaxHiccups - hiccups))
  BY <1>1 DEF QueueIInv, FailuresExplained, Owned
<1> DEFINE T == S \cup {t}
           n == Cardinality(Route \ S) + (MaxHiccups - hiccups)
           m == Cardinality(Route \ T) + (MaxHiccups - hiccups)
<1>3. S \in SUBSET Route /\ n \in Nat
  <2>1. S \in SUBSET Route
    BY DEF Poison
  <2> QED
    BY <1>1, <2>1, OthersBounded
<1>4. t \in Route \ S
  <2>1. t \in Eligible
    BY DEF Refused, Oldest
  <2> QED
    BY <1>1, <1>2, <1>3, <2>1, TakenIsNew
<1>5. /\ Cardinality(T) = Cardinality(S) + 1 /\ Cardinality(S) \in Nat
      /\ n = m + 1 /\ m \in Nat /\ m < RouteCount + MaxHiccups
  <2>1. /\ Cardinality(T) = Cardinality(S) + 1 /\ Cardinality(S) \in Nat
        /\ Cardinality(Route \ T) = Cardinality(Route \ S) - 1
        /\ Cardinality(Route \ T) \in Nat /\ Cardinality(Route \ S) \in Nat
        /\ Cardinality(Route \ T) < RouteCount
    BY <1>1, <1>3, <1>4, OthersBounded
  <2>2. hiccups \in 0 .. MaxHiccups /\ MaxHiccups \in Nat /\ RouteCount \in Nat
    BY <1>1, RunLoopAssumption DEF QueueTypeOK
  <2> QED
    BY <2>1, <2>2
<1>6. /\ failures' = failures + 1 /\ hiccups' = hiccups /\ route' = route /\ route[t] = "poison"
      /\ held' = [held EXCEPT ![t] = CLAIM_LEASE_SECONDS]
      /\ failures \in Nat /\ hiccups \in Nat /\ held \in [Route -> 0 .. CLAIM_LEASE_SECONDS]
  BY <1>1, RunLoopAssumption DEF Refused, Claim, NoSuccess, QueueTypeOK
<1>7. T \in SUBSET Poison' /\ failures' <= Cardinality(T) + hiccups'
  BY <1>2, <1>3, <1>4, <1>5, <1>6 DEF Poison
<1>8. ASSUME NEW q \in T PROVE held'[q] > Round + m * Round
  <2>1. CASE q = t
    <3> HIDE DEF m
    <3>1. CLAIM_LEASE_SECONDS > Round + m * Round
      BY <1>5, ClaimHeldOver
    <3> QED
      BY <1>4, <1>6, <2>1, <3>1
  <2>2. CASE q # t
    <3>1. q \in Route /\ q \in S /\ HeldOver(q, n) /\ n \in Nat \ {0} /\ m < n
      BY <1>2, <1>3, <1>5, <1>8, <2>2
    <3> HIDE DEF n, m
    <3>2. held[q] > Round + m * Round
      BY <1>1, <1>5, <3>1, HeldOverPass
    <3> QED
      BY <1>6, <2>2, <3>1, <3>2
  <2> QED
    BY <2>1, <2>2
<1>9. m = Cardinality(Route \ T) + (MaxHiccups - hiccups')
  BY <1>6
<1> HIDE DEF T, n, m
<1> QED
  BY <1>1, <1>7, <1>8, <1>9 DEF FailuresExplained, HeldOver, Round

(* Every outcome of a pass keeps the queue's invariant.                    *)
LEMMA PassQueue ==
    ASSUME IInv, QueueIInv, ClaimSuffices, Pass
    PROVE  QueueIInv'
<1>1. WorkOnce /\ TypeOK /\ QueueTypeOK /\ TakenInOrder
  BY DEF IInv, QueueIInv, TakenInOrder, Pass
<1>2. pc' = "sleep" /\ (Owned' => Owned) /\ (pc = "renew_lease" => instance_lease # None)'
  BY <1>1 DEF WorkOnce, Owned
<1>3. CASE expires_in = 0 /\ UNCHANGED queue
  <2>1. LeaseKeptInStep
    BY EnoughIsLeft
  <2>2. ~ Owned'
    BY <1>2, <1>3, <2>1 DEF LeaseKeptInStep, Owned
  <2>3. QueueTypeOK' /\ TakenInOrder'
    BY <1>1, <1>3 DEF queue, QueueTypeOK, TakenInOrder, Eligible
  <2> QED
    BY <1>2, <2>2, <2>3 DEF QueueIInv, TakenInOrder, TakenStaysAway, FailuresExplained, Owned
<1>4. CASE NothingEligible
  <2>1. QueueTypeOK' /\ TakenInOrder' /\ Eligible' = {} /\ failures' = 0 /\ hiccups' \in Nat
    BY <1>1, <1>4, RunLoopAssumption
    DEF NothingEligible, RecordSuccess, QueueTypeOK, TakenInOrder, Eligible
  <2>2. TakenStaysAway'
    BY <2>1 DEF TakenStaysAway
  <2>3. FailuresExplained'
    BY <2>1, SuccessExplained
  <2> QED
    BY <1>2, <2>1, <2>2, <2>3 DEF QueueIInv, TakenInOrder
<1>5. ASSUME NEW t \in Route, Performed(t) \/ Refused(t) \/ RequestUnavailable(t)
      PROVE  QueueIInv'
  <2>1. Takes(t)
    BY <1>1, <1>5, RunLoopAssumption
    DEF Takes, Performed, Refused, RequestUnavailable, Claim, QueueTypeOK
  <2>2. QueueTypeOK'
    <3>1. taken' \in [Route -> SUBSET Route] /\ waited' \in [Route -> Nat]
      BY <1>1, <2>1 DEF Takes, Take, QueueTypeOK
    <3> QED
      BY <1>1, <1>5, <3>1, RunLoopAssumption
      DEF Performed, Refused, RequestUnavailable, Claim, NoSuccess, RecordSuccess, QueueTypeOK
  <2>3. TakenInOrder' /\ TakenStaysAway'
    BY <1>1, <2>1, <2>2, TakesQueue
  <2>4. FailuresExplained'
    <3>1. CASE Refused(t)
      BY <1>1, <3>1, RefusedExplained
    <3>2. CASE Performed(t) \/ RequestUnavailable(t)
      <4>1. failures' = 0 /\ hiccups' \in Nat
        BY <1>1, <3>2, RunLoopAssumption
        DEF Performed, RequestUnavailable, RecordSuccess, QueueTypeOK
      <4> QED
        BY <4>1, SuccessExplained
    <3> QED
      BY <1>5, <3>1, <3>2
  <2> QED
    BY <1>2, <2>2, <2>3, <2>4 DEF QueueIInv, TakenInOrder
<1>6. CASE Hiccup
  <2>1. FailuresExplained'
    BY <1>1, <1>6, HiccupExplained
  <2>2. hiccups' \in hiccups .. MaxHiccups /\ hiccups' \in 0 .. MaxHiccups
        /\ failures' \in Nat /\ heartbeat' \in Nat /\ hiccups' = hiccups + 1 /\ hiccups \in Nat
    BY <1>1, <1>6, RunLoopAssumption DEF Hiccup, NoSuccess, QueueTypeOK
  <2>3. CASE UNCHANGED <<route, held, taken, waited>>
    <3>1. QueueTypeOK' /\ TakenInOrder' /\ Eligible' = Eligible
      BY <1>1, <2>2, <2>3 DEF QueueTypeOK, TakenInOrder, Eligible
    <3>2. TakenStaysAway'
      <4> SUFFICES ASSUME Owned', NEW r \in Eligible, NEW q \in taken[r], route[q] # "completed"
                   PROVE  HeldOver(q, Before(r))'
        BY <2>3, <3>1 DEF TakenStaysAway, Owned
      <4>1. PassWait' = Round /\ r \in Route /\ q \in Route
        BY <1>1, PassWaitStarts, EligibleAreRoutes DEF QueueTypeOK
      <4>2. HeldOver(q, Before(r))
        BY <1>2 DEF QueueIInv, TakenStaysAway, Owned
      <4>3. Before(r) \in Nat /\ Before(r)' \in Nat
        BY <1>1, <3>1, <4>1, BeforeBounded, BeforeBoundedNext
      <4>4. Before(r)' < Before(r)
        <5> DEFINE k == Cardinality((1 .. r - 1) \ taken[r])
        <5>1. k \in Nat
          <6>1. r - 1 \in 0 .. RouteCount /\ (1 .. r - 1) \ taken[r] \in SUBSET (1 .. r - 1)
            BY <4>1, RunLoopAssumption DEF Route
          <6> QED
            BY <6>1, RoutesCounted
        <5>2. Before(r) = k + (MaxHiccups - hiccups) /\ Before(r)' = k + (MaxHiccups - hiccups')
          BY <2>3 DEF Before
        <5> HIDE DEF k
        <5> QED
          BY <2>2, <5>1, <5>2, RunLoopAssumption
      <4>5. held[q] > Round + Before(r)' * Round
        BY <1>1, <4>1, <4>2, <4>3, <4>4, HeldOverPass
      <4> QED
        BY <2>3, <4>1, <4>5 DEF HeldOver, Round
    <3> QED
      BY <1>2, <2>1, <3>1, <3>2 DEF QueueIInv, TakenInOrder
  <2>4. ASSUME NEW t \in Eligible, Takes(t) PROVE QueueIInv'
    <3>1. t \in Route
      BY EligibleAreRoutes
    <3>2. QueueTypeOK'
      <4>1. taken' \in [Route -> SUBSET Route] /\ waited' \in [Route -> Nat]
        BY <1>1, <2>4, <3>1 DEF Takes, Take, QueueTypeOK
      <4> QED
        BY <1>1, <2>2, <2>4, <3>1, <4>1, RunLoopAssumption DEF Takes, QueueTypeOK
    <3>3. TakenInOrder' /\ TakenStaysAway'
      BY <1>1, <2>4, <3>1, <3>2, TakesQueue
    <3> QED
      BY <1>2, <2>1, <3>2, <3>3 DEF QueueIInv, TakenInOrder
  <2> QED
    BY <1>6, <2>2, <2>3, <2>4 DEF Hiccup, Takes, Claim
<1> QED
  BY <1>3, <1>4, <1>5, <1>6 DEF Pass, Outcome

-----------------------------------------------------------------------------

(* Every step keeps both inductive invariants.                             *)
LEMMA QueueStep ==
    ASSUME MarginSuffices, ClaimSuffices
    PROVE  IInv /\ QueueIInv /\ [RunNext]_<<vars, queue>> => IInv' /\ QueueIInv'
<1> SUFFICES ASSUME IInv, QueueIInv, [RunNext]_<<vars, queue>> PROVE IInv' /\ QueueIInv'
  OBVIOUS
<1>1. IInv'
  BY StepsAreLeaseSteps, TypeStep, EnoughStep DEF IInv
<1>2. CASE UNCHANGED <<vars, queue>>
  BY <1>1, <1>2
  DEF vars, queue, QueueIInv, QueueTypeOK, TakenStaysAway, FailuresExplained, Eligible, HeldOver,
      Before, Poison, PassWait, Owned
<1> QED
  BY <1>1, <1>2, QuietQueue, PassQueue, TickQueue, RoutedQueue DEF RunNext

(* The invariant of the loop with its queue.                               *)
LEMMA QueueInvariance ==
    ASSUME MarginSuffices, ClaimSuffices
    PROVE  RunSpec => [](IInv /\ QueueIInv)
<1>1. RunInit => IInv /\ QueueIInv
  BY InitQueue, InitType, InitEnough DEF RunInit, IInv
<1> QED
  BY <1>1, QueueStep, PTL DEF RunSpec

(* With any number of routes, an older route is taken once at most while a *)
(* younger one waits.                                                      *)
THEOREM OlderRoutesTakeOneTurnHolds ==
    ASSUME MarginSuffices, ClaimSuffices
    PROVE  RunSpec => []OlderRoutesTakeOneTurn
<1>1. IInv /\ QueueIInv => OlderRoutesTakeOneTurn
  <2> SUFFICES ASSUME IInv, QueueIInv, Owned, NEW r \in Eligible, NEW q \in taken[r] \cap Eligible
               PROVE  FALSE
    BY DEF OlderRoutesTakeOneTurn, Owned
  <2> QED
    BY TakenIsNew
<1> QED
  BY <1>1, QueueInvariance, PTL

-----------------------------------------------------------------------------

(* A process does not get its lease or its revision back.                  *)
LEMMA OwnedBefore ==
    ASSUME TypeOK, pc = "renew_lease" => instance_lease # None, [Next]_vars
    PROVE  Owned' => Owned
<1>1. CASE RenewLeaseIfDue \/ RenewLease \/ WorkOnce \/ Wake \/ UNCHANGED vars
  BY <1>1
  DEF Owned, RenewLeaseIfDue, RenewLease, Renewed, Rejected, RequestLost, AnswerLost, WorkOnce,
      Wake, At, vars
<1>2. CASE Tick
  BY <1>2 DEF Owned, Tick, None, TypeOK
<1> QED
  BY <1>1, <1>2 DEF Next

(* A round more.                                                           *)
LEMMA RoundsAdd ==
    \A n, m \in Nat : /\ n * Round \in Nat /\ (n + 1) * Round = n * Round + Round
                      /\ n <= m => n * Round <= m * Round
<1>1. \A n, m, r \in Nat : /\ n * r \in Nat /\ (n + 1) * r = n * r + r
                           /\ n <= m => n * r <= m * r
  <2>1. \A n, m, r \in Nat : /\ n * r \in Nat /\ (m + 1) * r = m * r + r
                             /\ n <= m => n * r <= m * r
    BY SMT
  <2> QED
    BY <2>1, Zenon
<1> QED
  BY <1>1, RoundType, Zenon

(* What was n rounds off, with the next pass among them, is one more off   *)
(* when that pass is over.                                                 *)
LEMMA RoundGoesBy ==
    ASSUME TypeOK, WorkOnce,
           NEW age \in Nat, NEW n \in Nat, NEW m \in Nat, n < m, age + PassWait <= (n + 1) * Round
    PROVE  age + PassWait' <= (m + 1) * Round
<1>1. PassWait \in Nat /\ PassWait' = Round /\ Round \in Nat
  BY PassWaitType, PassWaitStarts, RoundType
<1>2. n + 1 \in Nat /\ m \in Nat /\ n + 1 <= m
  OBVIOUS
<1>3. /\ (n + 1) * Round \in Nat /\ m * Round \in Nat /\ (m + 1) * Round = m * Round + Round
      /\ (n + 1) * Round <= m * Round
  BY <1>2, RoundsAdd, Zenon
<1> QED
  BY <1>1, <1>3

(* Where no pass ends, time is all that ages, and brings the next pass.    *)
LEMMA NoPassAges ==
    ASSUME TypeOK, NEW age \in Nat, NEW later, NEW most \in Nat, age + PassWait <= most,
           \/ later = age /\ UNCHANGED vars
           \/ later = age /\ (RenewLeaseIfDue \/ RenewLease \/ Wake)
           \/ later \in {age, age + 1} /\ Tick
    PROVE  later + PassWait' <= most
<1>1. PassWait \in Nat
  BY PassWaitType
<1>2. CASE later = age /\ UNCHANGED vars
  <2>1. PassWait' = PassWait
    BY <1>2 DEF PassWait, vars
  <2> QED
    BY <1>2, <2>1
<1>3. CASE later = age /\ (RenewLeaseIfDue \/ RenewLease \/ Wake)
  BY <1>3, PassWaitKept
<1>4. CASE later \in {age, age + 1} /\ Tick
  <2>1. PassWait' = PassWait - 1
    BY <1>4, PassWaitTicks
  <2> QED
    BY <1>1, <1>4, <2>1
<1> QED
  BY <1>2, <1>3, <1>4

(* A lease that is the process's is one for its passes.                    *)
LEMMA OwnedPass ==
    ASSUME IInv, Owned, Pass
    PROVE  Outcome
BY EnoughIsLeft DEF LeaseKeptInStep, Owned, Pass

(* Every second of the heartbeat's age belongs to a pass that failed or to *)
(* the round in progress.                                                  *)
LEMMA HeartbeatStep ==
    ASSUME IInv, QueueIInv, HeartbeatFollows, [RunNext]_<<vars, queue>>
    PROVE  HeartbeatFollows'
<1>1. TypeOK /\ QueueTypeOK /\ heartbeat \in Nat /\ failures \in Nat
  BY DEF IInv, QueueIInv, QueueTypeOK
<1>2. Owned' => Owned
  BY OwnedBefore, StepsAreLeaseSteps DEF IInv, QueueIInv
<1>3. SUFFICES ASSUME Owned'
               PROVE  heartbeat' + PassWait' <= (failures' + 1) * Round
  BY DEF HeartbeatFollows
<1>4. Owned /\ heartbeat + PassWait <= (failures + 1) * Round
  BY <1>2, <1>3 DEF HeartbeatFollows
<1>5. CASE Pass
  <2>1. WorkOnce /\ Outcome
    BY <1>4, <1>5, OwnedPass DEF Pass
  <2>2. CASE RecordSuccess
    <3>1. heartbeat' = 0 /\ failures' = 0 /\ PassWait' = Round
      BY <2>1, <2>2, PassWaitStarts DEF RecordSuccess
    <3>2. (0 + 1) * Round = 0 * Round + Round /\ 0 * Round \in Nat
      BY RoundsAdd
    <3> QED
      BY <3>1, <3>2, RoundType
  <2>3. CASE NoSuccess
    <3>1. heartbeat' = heartbeat /\ failures' = failures + 1
      BY <2>3 DEF NoSuccess
    <3>2. failures + 1 \in Nat /\ failures < failures + 1
      BY <1>1
    <3>3. heartbeat + PassWait' <= ((failures + 1) + 1) * Round
      BY <1>1, <1>4, <2>1, <3>2, RoundGoesBy
    <3> QED
      BY <3>1, <3>3
  <2> QED
    BY <2>1, <2>2, <2>3
    DEF Outcome, NothingEligible, Performed, Refused, RequestUnavailable, Hiccup
<1>6. CASE ~ Pass
  <2>1. /\ failures' = failures
        /\ \/ heartbeat' = heartbeat /\ UNCHANGED vars
           \/ heartbeat' = heartbeat /\ (RenewLeaseIfDue \/ RenewLease \/ Wake)
           \/ heartbeat' \in {heartbeat, heartbeat + 1} /\ Tick
    BY <1>6 DEF RunNext, RunTick, RequestRouted, queue
  <2>2. (failures + 1) * Round \in Nat
    <3>1. failures + 1 \in Nat
      BY <1>1
    <3> QED
      BY <3>1, RoundsAdd, Zenon
  <2>3. heartbeat' + PassWait' <= (failures + 1) * Round
    BY <1>1, <1>4, <2>1, <2>2, NoPassAges
  <2> QED
    BY <2>1, <2>3
<1> QED
  BY <1>5, <1>6

(* With any number of poison routes, the passes in a row that record no    *)
(* heartbeat are no more than the poison routes and the failed calls.      *)
LEMMA FailuresAreFew ==
    ASSUME QueueIInv, Owned
    PROVE  failures <= Cardinality(Poison) + hiccups /\ Cardinality(Poison) \in Nat
<1>1. PICK S \in SUBSET Poison : failures <= Cardinality(S) + hiccups
  BY DEF QueueIInv, FailuresExplained, Owned
<1>2. IsFiniteSet(Poison) /\ Cardinality(Poison) \in Nat
  <2>1. RouteCount \in 0 .. RouteCount /\ Poison \in SUBSET (1 .. RouteCount)
    BY RunLoopAssumption DEF Poison, Route
  <2> QED
    BY <2>1, RoutesCounted
<1>3. IsFiniteSet(S) /\ Cardinality(S) <= Cardinality(Poison) /\ Cardinality(S) \in Nat
  BY <1>2, FS_Subset, FS_CardinalityType
<1>4. failures \in Nat /\ hiccups \in Nat
  BY DEF QueueIInv, QueueTypeOK
<1> QED
  BY <1>1, <1>2, <1>3, <1>4

(* However many requests fail for ever, the heartbeat is never older than  *)
(* the rounds of their passes, of the failed calls and of one success.     *)
THEOREM HeartbeatKeepsBeatingHolds ==
    ASSUME MarginSuffices, ClaimSuffices
    PROVE  RunSpec => []HeartbeatKeepsBeating
<1>1. IInv /\ QueueIInv /\ HeartbeatFollows => HeartbeatKeepsBeating
  <2> SUFFICES ASSUME IInv, QueueIInv, HeartbeatFollows, Owned
               PROVE  heartbeat <= (Cardinality(Poison) + hiccups + 1) * Round
    BY DEF HeartbeatKeepsBeating
  <2> DEFINE most == Cardinality(Poison) + hiccups + 1
  <2>1. failures + 1 \in Nat /\ most \in Nat /\ failures + 1 <= most /\ heartbeat \in Nat
    BY FailuresAreFew DEF QueueIInv, QueueTypeOK
  <2> HIDE DEF most
  <2>2. /\ (failures + 1) * Round \in Nat /\ most * Round \in Nat
        /\ (failures + 1) * Round <= most * Round
    BY <2>1, RoundsAdd, Zenon
  <2>3. heartbeat + PassWait <= (failures + 1) * Round /\ PassWait \in Nat
    BY PassWaitType DEF HeartbeatFollows, IInv
  <2>4. heartbeat <= most * Round
    BY <2>1, <2>2, <2>3
  <2> QED
    BY <2>4 DEF most
<1>2. RunInit => IInv /\ QueueIInv /\ HeartbeatFollows
  <2>1. RunInit => HeartbeatFollows
    <3> SUFFICES ASSUME RunInit PROVE 0 + (MaxPass - 0) <= (0 + 1) * Round
      BY DEF RunInit, Init, HeartbeatFollows, PassWait
    <3>1. (0 + 1) * Round = Round
      BY RoundType
    <3> QED
      BY <3>1, ConstantsAssumption DEF Round
  <2> QED
    BY <2>1, InitQueue, InitType, InitEnough DEF RunInit, IInv
<1>3. IInv /\ QueueIInv /\ HeartbeatFollows /\ [RunNext]_<<vars, queue>>
        => IInv' /\ QueueIInv' /\ HeartbeatFollows'
  BY QueueStep, HeartbeatStep
<1> QED
  BY <1>1, <1>2, <1>3, PTL DEF RunSpec

-----------------------------------------------------------------------------
(* How long a route waits.                                                 *)

(* A pass with a lease finds nothing, takes one route, or fails early.     *)
LEMMA PassTakes ==
    ASSUME QueueTypeOK, Outcome
    PROVE  \/ NothingEligible
           \/ \E t \in Route : Takes(t)
           \/ UNCHANGED <<route, held, taken, waited>> /\ hiccups' = hiccups + 1
<1>1. ASSUME NEW t \in Route, Performed(t) \/ Refused(t) \/ RequestUnavailable(t)
      PROVE  Takes(t)
  BY <1>1, RunLoopAssumption
  DEF Takes, Performed, Refused, RequestUnavailable, Claim, QueueTypeOK
<1>2. CASE Hiccup
  <2>1. hiccups' = hiccups + 1 /\ hiccups' \in hiccups .. MaxHiccups
    BY <1>2, RunLoopAssumption DEF Hiccup, QueueTypeOK
  <2> QED
    BY <1>2, <2>1, EligibleAreRoutes DEF Hiccup, Takes, Claim
<1> QED
  BY <1>1, <1>2 DEF Outcome

(* A route has only waited if it is eligible.                              *)
LEMMA OnlyEligibleWait ==
    ASSUME QueueIInv, \A r \in Route \ Eligible : waited[r] = 0, [RunNext]_<<vars, queue>>
    PROVE  \A r \in Route \ Eligible' : waited'[r] = 0
<1>1. QueueTypeOK
  BY DEF QueueIInv
<1>2. ASSUME NEW t \in Route, Takes(t)
      PROVE  \A r \in Route \ Eligible' : waited'[r] = 0
  <2>1. waited'[t] = 0 /\ \A r \in Route \ {t} : waited'[r] = waited[r]
    BY <1>1, <1>2 DEF Takes, Take, QueueTypeOK
  <2>2. \A r \in Route \ {t} : r \in Eligible => r \in Eligible'
    BY <1>1, <1>2 DEF Takes, Eligible, QueueTypeOK
  <2> QED
    BY <2>1, <2>2
<1>3. ASSUME UNCHANGED waited, \A r \in Route : r \in Eligible => r \in Eligible'
      PROVE  \A r \in Route \ Eligible' : waited'[r] = 0
  BY <1>3
<1>4. CASE Pass
  <2>1. CASE Outcome
    <3>1. CASE NothingEligible \/ UNCHANGED <<route, held, taken, waited>>
      BY <1>3, <3>1 DEF NothingEligible, Eligible
    <3> QED
      BY <1>1, <1>2, <2>1, <3>1, PassTakes
  <2>2. CASE UNCHANGED queue
    BY <1>3, <2>2 DEF queue, Eligible
  <2> QED
    BY <1>4, <2>1, <2>2 DEF Pass
<1>5. CASE RunTick
  <2>1. \A r \in Route : r \in Eligible => r \in Eligible'
    BY <1>1, <1>5 DEF RunTick, Eligible, QueueTypeOK
  <2>2. \A r \in Route \ Eligible : waited'[r] = waited[r]
    BY <1>5 DEF RunTick
  <2> QED
    BY <2>1, <2>2
<1>6. CASE RequestRouted
  <2>1. UNCHANGED <<held, waited>>
        /\ \A r \in Route : route[r] # "absent" => route'[r] = route[r]
    BY <1>1, <1>6 DEF RequestRouted, QueueTypeOK, Route
  <2>2. \A r \in Route : r \in Eligible => r \in Eligible'
    BY <2>1 DEF Eligible, Kind
  <2> QED
    BY <1>3, <2>1, <2>2
<1>7. CASE UNCHANGED queue
  BY <1>3, <1>7 DEF queue, Eligible
<1> QED
  BY <1>4, <1>5, <1>6, <1>7 DEF RunNext, queue

(* Every round that a route waits has gone to another, for the only time,  *)
(* or to a call that failed.                                               *)
LEMMA WaitStep ==
    ASSUME IInv, QueueIInv, WaitFollows, [RunNext]_<<vars, queue>>
    PROVE  WaitFollows'
<1>1. TypeOK /\ QueueTypeOK /\ TakenInOrder /\ waited \in [Route -> Nat] /\ hiccups \in Nat
  BY RunLoopAssumption DEF IInv, QueueIInv, QueueTypeOK, TakenInOrder
<1>2. Owned' => Owned
  BY OwnedBefore, StepsAreLeaseSteps DEF IInv, QueueIInv
<1>3. \A r \in Route \ Eligible' : waited'[r] = 0
  BY OnlyEligibleWait DEF WaitFollows
<1>4. SUFFICES ASSUME Owned', NEW r \in Eligible'
               PROVE  waited'[r] + PassWait' <= (Cardinality(taken'[r]) + hiccups' + 1) * Round
  BY <1>3 DEF WaitFollows
<1>5. /\ Owned /\ r \in Route
      /\ r \notin Eligible => waited[r] = 0 /\ taken[r] = {}
      /\ r \in Eligible => waited[r] + PassWait <= (Cardinality(taken[r]) + hiccups + 1) * Round
  BY <1>1, <1>2, <1>4 DEF WaitFollows, Eligible, TakenInOrder
<1>6. \A S \in SUBSET (1 .. r - 1) : Cardinality(S) \in Nat
      /\ \A t \in (1 .. r - 1) \ S : Cardinality(S \cup {t}) = Cardinality(S) + 1
  <2>1. r - 1 \in 0 .. RouteCount
    BY <1>5, RunLoopAssumption DEF Route
  <2> QED
    BY <2>1, RoutesCounted
<1>7. Cardinality(taken[r]) \in Nat
  BY <1>1, <1>5, <1>6 DEF TakenInOrder
<1>8. waited[r] + PassWait <= (Cardinality(taken[r]) + hiccups + 1) * Round
  <2>1. CASE r \notin Eligible
    <3>1. waited[r] = 0 /\ PassWait \in Nat /\ PassWait <= Round
      BY <1>1, <1>5, <2>1, PassWaitType, PassWaitIsARound
    <3>2. 1 * Round <= (Cardinality(taken[r]) + hiccups + 1) * Round
      <4>1. Cardinality(taken[r]) + hiccups + 1 \in Nat /\ 1 <= Cardinality(taken[r]) + hiccups + 1
        BY <1>1, <1>7
      <4> QED
        BY <4>1, RoundsAdd, Zenon
    <3>3. 1 * Round = Round
      BY RoundType
    <3>4. \A x : Round <= x /\ x \in Int => PassWait <= x
      BY <3>1, RoundType
    <3>5. (Cardinality(taken[r]) + hiccups + 1) * Round \in Int
      <4>1. Cardinality(taken[r]) + hiccups + 1 \in Nat
        BY <1>1, <1>7
      <4> QED
        BY <4>1, RoundType
    <3> QED
      BY <3>1, <3>2, <3>3, <3>4, <3>5
  <2> QED
    BY <1>5, <2>1
<1> DEFINE n == Cardinality(taken[r]) + hiccups
<1>9. n \in Nat /\ waited[r] \in Nat /\ waited[r] + PassWait <= (n + 1) * Round
  BY <1>1, <1>5, <1>7, <1>8
<1>10. CASE Pass
  <2>1. WorkOnce /\ Outcome
    BY <1>5, <1>10, OwnedPass DEF Pass
  <2>2. CASE NothingEligible
    BY <1>4, <2>2 DEF NothingEligible, Eligible
  <2>3. CASE UNCHANGED <<route, held, taken, waited>> /\ hiccups' = hiccups + 1
    <3>1. n + 1 \in Nat /\ n < n + 1 /\ Cardinality(taken'[r]) + hiccups' = n + 1
      BY <1>1, <1>7, <2>3
    <3> HIDE DEF n
    <3>2. waited[r] + PassWait' <= ((n + 1) + 1) * Round
      BY <1>1, <1>9, <2>1, <3>1, RoundGoesBy
    <3> QED
      BY <2>3, <3>1, <3>2
  <2>4. ASSUME NEW t \in Route, Takes(t)
        PROVE  waited'[r] + PassWait' <= (Cardinality(taken'[r]) + hiccups' + 1) * Round
    <3>1. /\ t \in Eligible /\ \A q \in Eligible : t <= q
          /\ waited' = [waited EXCEPT ![t] = 0]
          /\ taken'[r] = IF r = t THEN {} ELSE IF r \in Eligible THEN taken[r] \cup {t} ELSE taken[r]
          /\ hiccups' \in Nat /\ hiccups' >= hiccups
      BY <1>1, <1>5, <2>4, RunLoopAssumption DEF Takes, Oldest, Take
    <3>2. CASE r = t
      <4>1. waited'[r] = 0 /\ Cardinality(taken'[r]) = 0 /\ PassWait' = Round
        BY <1>1, <1>5, <2>1, <3>1, <3>2, FS_EmptySet, PassWaitStarts
      <4>2. 1 * Round <= (0 + hiccups' + 1) * Round /\ 1 * Round = Round
        <5>1. \A h \in Nat : 0 + h + 1 \in Nat /\ 1 <= 0 + h + 1
          OBVIOUS
        <5>2. 1 * Round <= (0 + hiccups' + 1) * Round
          BY <3>1, <5>1, RoundsAdd, Zenon
        <5> QED
          BY <5>2, RoundType
      <4> QED
        BY <4>1, <4>2, RoundType
    <3>3. CASE r # t
      <4>1. r \in Eligible
        BY <1>4, <1>5, <2>4, <3>1, <3>3, <1>1 DEF Takes, Eligible, QueueTypeOK
      <4>2. t \in 1 .. r - 1 /\ t \notin taken[r] /\ taken[r] \subseteq 1 .. r - 1
        BY <1>1, <1>5, <3>1, <3>3, <4>1, EarlierIsOlder, TakenIsNew DEF TakenInOrder
      <4>3. Cardinality(taken'[r]) = Cardinality(taken[r]) + 1
        BY <1>6, <3>1, <3>3, <4>1, <4>2
      <4>4. waited'[r] = waited[r]
        BY <1>1, <1>5, <3>1, <3>3
      <4> DEFINE m == Cardinality(taken'[r]) + hiccups'
      <4>5. m \in Nat /\ n < m
        BY <1>1, <1>7, <3>1, <4>3
      <4> HIDE DEF n, m
      <4>6. waited[r] + PassWait' <= (m + 1) * Round
        BY <1>1, <1>9, <2>1, <4>5, RoundGoesBy
      <4> QED
        BY <4>4, <4>6 DEF m
    <3> QED
      BY <3>2, <3>3
  <2> QED
    BY <1>1, <2>1, <2>2, <2>3, <2>4, PassTakes
<1>11. CASE ~ Pass
  <2>1. /\ taken' = taken /\ hiccups' = hiccups
        /\ \/ waited'[r] = waited[r] /\ UNCHANGED vars
           \/ waited'[r] = waited[r] /\ (RenewLeaseIfDue \/ RenewLease \/ Wake)
           \/ waited'[r] \in {waited[r], waited[r] + 1} /\ Tick
    BY <1>5, <1>11 DEF RunNext, RunTick, RequestRouted, queue
  <2>2. (n + 1) * Round \in Nat
    <3>1. n + 1 \in Nat
      BY <1>9
    <3> HIDE DEF n
    <3> QED
      BY <3>1, RoundsAdd, Zenon
  <2>3. (Cardinality(taken'[r]) + hiccups' + 1) = n + 1
    BY <2>1
  <2> HIDE DEF n
  <2>4. waited'[r] + PassWait' <= (n + 1) * Round
    BY <1>1, <1>9, <2>1, <2>2, NoPassAges
  <2> QED
    BY <2>3, <2>4
<1> QED
  BY <1>10, <1>11

(* Whatever fails for ever in front of it and however often it comes back: *)
(* a route waits one round for each older route, each failed call and      *)
(* itself, for any number of routes.                                       *)
THEOREM TurnComesInTimeHolds ==
    ASSUME MarginSuffices, ClaimSuffices
    PROVE  RunSpec => []TurnComesInTime
<1>1. IInv /\ QueueIInv /\ WaitFollows => TurnComesInTime
  <2> SUFFICES ASSUME IInv, QueueIInv, WaitFollows, Owned, NEW r \in Eligible
               PROVE  waited[r] <= (r + hiccups) * Round
    BY DEF TurnComesInTime
  <2> DEFINE n == Cardinality(taken[r]) + hiccups + 1
             m == r + hiccups
  <2>1. r \in Route /\ waited[r] \in Nat /\ hiccups \in Nat /\ taken[r] \in SUBSET (1 .. r - 1)
    BY EligibleAreRoutes, RunLoopAssumption DEF QueueIInv, QueueTypeOK
  <2>2. r - 1 \in 0 .. RouteCount /\ r \in Nat
    BY <2>1, RunLoopAssumption DEF Route
  <2>3. Cardinality(taken[r]) \in Nat /\ Cardinality(taken[r]) <= r - 1
    BY <2>1, <2>2, RoutesCounted
  <2>4. n \in Nat /\ m \in Nat /\ n <= m
    BY <2>1, <2>2, <2>3
  <2>5. waited[r] + PassWait <= n * Round /\ PassWait \in Nat
    BY PassWaitType DEF WaitFollows, IInv
  <2> HIDE DEF n, m
  <2>6. n * Round \in Nat /\ m * Round \in Nat /\ n * Round <= m * Round
    BY <2>4, RoundsAdd, Zenon
  <2>7. waited[r] <= m * Round
    BY <2>1, <2>5, <2>6
  <2> QED
    BY <2>7 DEF m
<1>2. RunInit => IInv /\ QueueIInv /\ WaitFollows
  <2>1. RunInit => WaitFollows
    BY DEF RunInit, WaitFollows, Eligible, Kind
  <2> QED
    BY <2>1, InitQueue, InitType, InitEnough DEF RunInit, IInv
<1>3. IInv /\ QueueIInv /\ WaitFollows /\ [RunNext]_<<vars, queue>>
        => IInv' /\ QueueIInv' /\ WaitFollows'
  BY QueueStep, WaitStep
<1> QED
  BY <1>1, <1>2, <1>3, PTL DEF RunSpec

-----------------------------------------------------------------------------

(* The lease is renewed late with a queue as without.                      *)
THEOREM RunRenewsLate == RunSpec => RenewsLateInTheLease
<1>1. Spec => RenewsLateInTheLease
  BY RenewsLateInTheLeaseHolds
<1> QED
  BY <1>1, RunsTheLease, PTL

=============================================================================
