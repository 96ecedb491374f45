------------------------ MODULE InstanceLeaseProofs ------------------------
(***************************************************************************)
(* A margin that covers MaxLost lost renewal calls, the longest pass and   *)
(* the difference of the clocks keeps the lease for ever, whatever the     *)
(* seconds are, until an answer of a renewal that was applied is lost.     *)
(***************************************************************************)
EXTENDS InstanceLease, TLAPS

(* A round is a number of seconds.                                         *)
LEMMA RoundType == Round \in Nat
BY ConstantsAssumption DEF Round

(* One lost call costs one round of what may still be waited.              *)
LEMMA OneRoundLess ==
    ASSUME NEW k \in Nat, k < MaxLost
    PROVE  (MaxLost - k) * Round = (MaxLost - (k + 1)) * Round + Round
<1>1. \A a \in Int, r \in Nat : a * r = (a - 1) * r + r
  OBVIOUS
<1>2. MaxLost - k \in Int /\ MaxLost - (k + 1) = (MaxLost - k) - 1
  BY ConstantsAssumption
<1> QED
  BY <1>1, <1>2, RoundType

(* Nobody waits longer than with all the losses still to come.             *)
LEMMA WaitBounded ==
    ASSUME NEW k \in 0 .. MaxLost
    PROVE  /\ (MaxLost - k) * Round \in Nat
           /\ (MaxLost - k + 1) * Round = (MaxLost - k) * Round + Round
           /\ (MaxLost - k) * Round <= MaxLost * Round
           /\ (MaxLost + 1) * Round = MaxLost * Round + Round
<1> DEFINE a == MaxLost - k
<1>1. a \in Nat /\ MaxLost \in Nat /\ a <= MaxLost
  BY ConstantsAssumption
<1>2. \A x, y, r \in Nat : x <= y => x * r <= y * r
  BY SMT
<1>3. \A x, r \in Nat : x * r \in Nat /\ (x + 1) * r = x * r + r
  BY SMT
<1> QED
  BY <1>1, <1>2, <1>3, RoundType

-----------------------------------------------------------------------------

(* The type invariant holds at first.                                      *)
LEMMA InitType == Init => TypeOK
BY ConstantsAssumption DEF Init, TypeOK, Limit, Loop, None, ReadByProcess

(* Every step keeps the type invariant.                                    *)
LEMMA TypeStep == TypeOK /\ [Next]_vars => TypeOK'
<1> SUFFICES ASSUME TypeOK, [Next]_vars PROVE TypeOK'
  OBVIOUS
<1> USE ConstantsAssumption DEF TypeOK, Loop, Limit, None, At, Goto
<1>1. CASE RenewLeaseIfDue
  BY <1>1 DEF RenewLeaseIfDue
<1>2. CASE Renewed
  BY <1>2 DEF Renewed, ReadByProcess
<1>3. CASE Rejected
  BY <1>3 DEF Rejected
<1>4. CASE RequestLost
  BY <1>4 DEF RequestLost
<1>5. CASE AnswerLost
  <2>1. /\ pc = "renew_lease" /\ lost < MaxLost /\ lost' = lost + 1
        /\ expires_in' = LeaseSeconds /\ in_step' = FALSE
        /\ pc' = "work_once" /\ elapsed' = elapsed /\ instance_lease' = instance_lease
    BY <1>5, Zenon DEF AnswerLost
  <2>2. lost' \in 0 .. MaxLost /\ elapsed' \in 0 .. Limit' /\ expires_in' \in 0 .. LeaseSeconds
    BY <2>1
  <2> QED
    BY <2>1, <2>2, Zenon
<1>6. CASE WorkOnce
  BY <1>6 DEF WorkOnce
<1>7. CASE Wake
  BY <1>7 DEF Wake
<1>8. CASE Tick
  BY <1>8 DEF Tick
<1>9. CASE UNCHANGED vars
  BY <1>9 DEF vars
<1> QED
  BY <1>1, <1>2, <1>3, <1>4, <1>5, <1>6, <1>7, <1>8, <1>9 DEF Next, RenewLease

(* TypeOK is an invariant of the specification.                            *)
THEOREM TypeCorrect == Spec => []TypeOK
BY InitType, TypeStep, PTL DEF Spec

-----------------------------------------------------------------------------

(* Two readings of one lease are within the difference of the clocks.      *)
LEMMA ReadingsAgree ==
    ASSUME NEW s \in Int, NEW t \in ReadByProcess(s)
    PROVE  t \in Int /\ t >= s - MaxSkew /\ s >= t - MaxSkew
BY ConstantsAssumption DEF ReadByProcess

(* A fresh lease, or any that is above the margin, outlasts the wait for   *)
(* the next chance to renew it.                                            *)
LEMMA FreshLeaseSuffices ==
    ASSUME TypeOK, MarginSuffices
    PROVE  /\ RENEWAL_MARGIN_SECONDS >= MaxSkew + MaxPass + (MaxLost - lost + 1) * Round
           /\ LeaseSeconds - MaxSkew > MaxSkew + MaxPass + (MaxLost + 1) * Round
           /\ LeaseSeconds - MaxPass - MaxSkew > MaxSkew + (MaxLost + 1) * Round
<1>1. lost \in 0 .. MaxLost
  BY DEF TypeOK
<1>2. (MaxLost - lost + 1) * Round <= (MaxLost + 1) * Round
  BY <1>1, WaitBounded, RoundType, ConstantsAssumption
<1> QED
  BY <1>1, <1>2, WaitBounded, RoundType, ConstantsAssumption DEF MarginSuffices

(* The process starts with enough of its lease left.                       *)
LEMMA InitEnough == MarginSuffices /\ Init => EnoughLeft
<1> SUFFICES ASSUME MarginSuffices, Init, instance_lease # None PROVE EnoughLeft
  BY DEF EnoughLeft
<1>1. TypeOK
  BY InitType
<1>2. MaxLost - 0 = MaxLost /\ MaxLost * Round \in Nat
      /\ (MaxLost + 1) * Round = MaxLost * Round + Round
  BY WaitBounded, ConstantsAssumption
<1>3. LeaseSeconds > MaxSkew + MaxSkew + MaxPass + MaxPass + MaxLost * Round + Round
  BY <1>1, <1>2, FreshLeaseSuffices, RoundType, ConstantsAssumption DEF MarginSuffices
<1>4. instance_lease >= expires_in - MaxSkew /\ expires_in >= instance_lease - MaxSkew
      /\ expires_in >= LeaseSeconds - MaxPass
  BY ConstantsAssumption DEF Init, ReadByProcess
<1>5. LongestWait = MaxPass + MaxLost * Round
  BY <1>2, ConstantsAssumption DEF Init, LongestWait
<1> QED
  BY <1>1, <1>2, <1>3, <1>4, <1>5, RoundType, ConstantsAssumption DEF Init, EnoughLeft, TypeOK

(* Every step leaves enough of the lease.                                  *)
LEMMA EnoughStep ==
    MarginSuffices /\ IInv /\ [Next]_vars => EnoughLeft'
<1> SUFFICES ASSUME MarginSuffices, IInv, [Next]_vars PROVE EnoughLeft'
  OBVIOUS
<1>1. TypeOK /\ TypeOK' /\ EnoughLeft
  BY TypeStep DEF IInv
<1>2. CASE UNCHANGED vars
  BY <1>1, <1>2 DEF vars, EnoughLeft, LongestWait
<1>3. CASE instance_lease' = None \/ ~ in_step'
  BY <1>3 DEF EnoughLeft
<1> SUFFICES ASSUME Next, instance_lease' # None, in_step' PROVE EnoughLeft'
  BY <1>2, <1>3
<1> DEFINE Rest == (MaxLost - lost) * Round
<1>4. /\ Rest \in Nat /\ MaxLost * Round \in Nat
      /\ (MaxLost - lost + 1) * Round = Rest + Round
      /\ (MaxLost + 1) * Round = MaxLost * Round + Round
  BY <1>1, WaitBounded, ConstantsAssumption DEF TypeOK
<1>5. /\ RENEWAL_MARGIN_SECONDS >= MaxSkew + MaxPass + Rest + Round
      /\ LeaseSeconds - MaxSkew > MaxSkew + MaxPass + MaxLost * Round + Round
  <2>1. /\ RENEWAL_MARGIN_SECONDS >= MaxSkew + MaxPass + (MaxLost - lost + 1) * Round
        /\ LeaseSeconds - MaxSkew > MaxSkew + MaxPass + (MaxLost + 1) * Round
    BY <1>1, FreshLeaseSuffices, Zenon
  <2>2. /\ RENEWAL_MARGIN_SECONDS >= MaxSkew + MaxPass + (Rest + Round)
        /\ LeaseSeconds - MaxSkew > MaxSkew + MaxPass + (MaxLost * Round + Round)
    BY <1>4, <2>1, Zenon
  <2> HIDE DEF Rest
  <2> QED
    BY <1>4, <2>2, RoundType, ConstantsAssumption
<1>6. /\ Round = MaxPass + PollInterval /\ Round \in Nat
      /\ MaxPass \in Nat /\ PollInterval \in Nat /\ MaxSkew \in Nat /\ MaxLost \in Nat
      /\ LeaseSeconds \in Nat /\ RENEWAL_MARGIN_SECONDS \in Nat
  BY ConstantsAssumption, RoundType DEF Round
<1>7. /\ pc \in Loop /\ elapsed \in Nat /\ elapsed <= Limit
      /\ expires_in \in Nat /\ instance_lease \in Int
  BY <1>1, <1>6 DEF TypeOK, Limit, None
<1> HIDE DEF Rest
<1> USE <1>6, <1>7
<1>8. CASE RenewLeaseIfDue
  <2>1. /\ pc = "renew_lease_if_due" /\ instance_lease' = instance_lease
        /\ expires_in' = expires_in /\ in_step' = in_step /\ elapsed' = elapsed /\ lost' = lost
    BY <1>8 DEF RenewLeaseIfDue, At, Goto
  <2>2. /\ expires_in >= instance_lease - MaxSkew
        /\ instance_lease > MaxSkew + (MaxPass - elapsed + Rest)
    BY <1>1, <2>1 DEF EnoughLeft, LongestWait, Rest
  <2>3. CASE pc' = "renew_lease"
    BY <2>1, <2>2, <2>3 DEF EnoughLeft, LongestWait, Rest
  <2>4. CASE pc' = "work_once" /\ instance_lease > RENEWAL_MARGIN_SECONDS
    <3>1. LongestWait' = MaxPass - elapsed + Rest + Round
      BY <1>4, <2>1, <2>4 DEF LongestWait
    <3> QED
      BY <1>4, <1>5, <2>1, <2>2, <2>4, <3>1 DEF EnoughLeft
  <2> QED
    BY <1>8, <2>1, <2>3, <2>4 DEF RenewLeaseIfDue, Goto
<1>9. CASE Renewed
  <2>1. /\ lost' = 0 /\ pc' = "work_once" /\ elapsed' = elapsed /\ in_step' = in_step
        /\ expires_in' = LeaseSeconds /\ in_step
        /\ instance_lease' \in ReadByProcess(LeaseSeconds)
    BY <1>9, Zenon DEF Renewed, Goto, Acceptable
  <2>2. /\ instance_lease' >= LeaseSeconds - MaxSkew /\ instance_lease' \in Int
        /\ LeaseSeconds >= instance_lease' - MaxSkew
    BY <2>1, ReadingsAgree
  <2>3. LongestWait' = MaxPass - elapsed + (MaxLost * Round + Round)
    <3>1. MaxLost - 0 = MaxLost
      OBVIOUS
    <3> QED
      BY <1>4, <2>1, <3>1 DEF LongestWait
  <2> QED
    <3>1. instance_lease' > MaxSkew + LongestWait'
      BY <1>4, <1>5, <2>2, <2>3
    <3> QED
      BY <2>1, <2>2, <3>1, Zenon DEF EnoughLeft
<1>10. CASE Rejected
  <2>1. instance_lease' = instance_lease /\ expires_in' = expires_in /\ in_step' = in_step
    BY <1>10 DEF Rejected
  <2>2. ~ Acceptable /\ pc = "renew_lease"
    BY <1>10 DEF Rejected, At
  <2>3. /\ expires_in >= instance_lease - MaxSkew
        /\ instance_lease > MaxSkew + (MaxPass - elapsed + Rest)
    BY <1>1, <2>1, <2>2 DEF EnoughLeft, LongestWait, Rest
  <2>4. in_step
    BY <2>1, Zenon
  <2>5. expires_in = 0
    BY <2>2, <2>4 DEF Acceptable
  <2> QED
    BY <1>4, <2>2, <2>3, <2>5 DEF Limit
<1>11. CASE RequestLost
  <2>1. /\ pc = "renew_lease" /\ pc' = "work_once" /\ lost < MaxLost /\ lost' = lost + 1
        /\ instance_lease' = instance_lease /\ expires_in' = expires_in
        /\ in_step' = in_step /\ elapsed' = elapsed
    BY <1>11 DEF RequestLost, At, Goto
  <2>2. lost \in Nat /\ lost + 1 \in 0 .. MaxLost
    BY <1>1, <2>1 DEF TypeOK
  <2>3. Rest = (MaxLost - (lost + 1)) * Round + Round
    BY <2>1, <2>2, OneRoundLess DEF Rest
  <2>4. (MaxLost - (lost + 1) + 1) * Round = Rest
    BY <2>2, <2>3, WaitBounded
  <2>5. LongestWait' = MaxPass - elapsed + Rest
    BY <2>1, <2>4 DEF LongestWait
  <2>6. /\ expires_in >= instance_lease - MaxSkew
        /\ instance_lease > MaxSkew + (MaxPass - elapsed + Rest)
    BY <1>1, <2>1 DEF EnoughLeft, LongestWait, Rest
  <2> QED
    BY <2>1, <2>5, <2>6 DEF EnoughLeft
<1>12. CASE AnswerLost
  BY <1>12 DEF AnswerLost
<1>13. CASE WorkOnce
  <2>1. /\ pc = "work_once" /\ pc' = "sleep" /\ elapsed' = 0 /\ lost' = lost
        /\ instance_lease' = instance_lease /\ expires_in' = expires_in /\ in_step' = in_step
    BY <1>13 DEF WorkOnce, At
  <2>2. /\ expires_in >= instance_lease - MaxSkew
        /\ instance_lease > MaxSkew + (MaxPass - elapsed + Rest + Round)
    BY <1>1, <1>4, <2>1 DEF EnoughLeft, LongestWait
  <2>3. LongestWait' = PollInterval - 0 + MaxPass + Rest
    BY <2>1 DEF LongestWait, Rest
  <2>4. elapsed <= MaxPass
    BY <2>1 DEF Limit
  <2> QED
    BY <1>4, <2>1, <2>2, <2>3, <2>4 DEF EnoughLeft
<1>14. CASE Wake
  <2>1. /\ pc = "sleep" /\ pc' = "renew_lease_if_due" /\ elapsed' = 0 /\ lost' = lost
        /\ elapsed = PollInterval
        /\ instance_lease' = instance_lease /\ expires_in' = expires_in /\ in_step' = in_step
    BY <1>14 DEF Wake, At
  <2>2. /\ expires_in >= instance_lease - MaxSkew
        /\ instance_lease > MaxSkew + (PollInterval - elapsed + MaxPass + Rest)
    BY <1>1, <2>1 DEF EnoughLeft, LongestWait, Rest
  <2>3. LongestWait' = MaxPass - 0 + Rest
    BY <2>1 DEF LongestWait, Rest
  <2> QED
    BY <1>4, <2>1, <2>2, <2>3 DEF EnoughLeft
<1>15. CASE Tick
  <2>1. /\ pc' = pc /\ lost' = lost /\ elapsed' = elapsed + 1
        /\ elapsed < Limit
        /\ expires_in' >= expires_in - 1
    BY <1>15 DEF Tick
  <2>2. instance_lease # None /\ in_step
    <3>1. in_step' = in_step
      BY <1>15, Zenon DEF Tick
    <3> QED
      BY <1>15, <3>1 DEF Tick, None
  <2>3. /\ expires_in >= instance_lease - MaxSkew
        /\ instance_lease > MaxSkew + LongestWait
    BY <1>1, <2>2 DEF EnoughLeft
  <2>4. LongestWait \in Nat /\ LongestWait' = LongestWait - 1
    <3>1. /\ (MaxLost - lost) * Round = Rest /\ (MaxLost - lost') * Round = Rest
          /\ (MaxLost - lost + 1) * Round = Rest + Round
          /\ (MaxLost - lost' + 1) * Round = Rest + Round
      BY <1>4, <2>1, Zenon DEF Rest
    <3>2. CASE pc \in {"renew_lease_if_due", "renew_lease"}
      <4>1. LongestWait = MaxPass - elapsed + Rest
        BY <3>1, <3>2 DEF LongestWait
      <4>2. LongestWait' = MaxPass - (elapsed + 1) + Rest
        BY <2>1, <3>1, <3>2 DEF LongestWait
      <4> QED
        BY <1>4, <2>1, <3>2, <4>1, <4>2 DEF Limit
    <3>3. CASE pc = "work_once"
      <4>1. LongestWait = MaxPass - elapsed + (Rest + Round)
        BY <3>1, <3>3 DEF LongestWait
      <4>2. LongestWait' = MaxPass - (elapsed + 1) + (Rest + Round)
        BY <2>1, <3>1, <3>3 DEF LongestWait
      <4> QED
        BY <1>4, <2>1, <3>3, <4>1, <4>2 DEF Limit
    <3>4. CASE pc = "sleep"
      <4>1. LongestWait = PollInterval - elapsed + MaxPass + Rest
        BY <3>1, <3>4 DEF LongestWait
      <4>2. LongestWait' = PollInterval - (elapsed + 1) + MaxPass + Rest
        BY <2>1, <3>1, <3>4 DEF LongestWait
      <4> QED
        BY <1>4, <2>1, <3>4, <4>1, <4>2 DEF Limit
    <3> QED
      BY <3>2, <3>3, <3>4 DEF Loop
  <2>5. instance_lease > 0 /\ instance_lease' = instance_lease - 1 /\ expires_in' \in Int
    BY <1>15, <2>3, <2>4 DEF Tick
  <2> QED
    BY <2>1, <2>3, <2>4, <2>5 DEF EnoughLeft
<1> QED
  BY <1>8, <1>9, <1>10, <1>11, <1>12, <1>13, <1>14, <1>15 DEF Next, RenewLease

(* With enough of the lease left it is not over.                           *)
LEMMA EnoughIsLeft == IInv => LeaseKeptInStep
<1> SUFFICES ASSUME TypeOK, EnoughLeft, instance_lease # None, in_step PROVE expires_in > 0
  BY DEF IInv, LeaseKeptInStep
<1>1. (MaxLost - lost) * Round \in Nat /\ (MaxLost - lost + 1) * Round \in Nat
  BY WaitBounded, RoundType DEF TypeOK
<1>2. LongestWait \in Nat
  BY <1>1, ConstantsAssumption DEF TypeOK, LongestWait, Loop, Limit
<1> QED
  BY <1>2, ConstantsAssumption DEF EnoughLeft, TypeOK, None

(* A process that enrolled itself keeps its lease for as long as it knows  *)
(* its revision, for any lease, margin, poll interval, pass, skew and      *)
(* number of lost calls that satisfy MarginSuffices.                       *)
THEOREM LeaseKept ==
    ASSUME MarginSuffices
    PROVE  Spec => []LeaseKeptInStep
<1>1. Init => IInv
  BY InitType, InitEnough DEF IInv
<1>2. IInv /\ [Next]_vars => IInv'
  BY TypeStep, EnoughStep DEF IInv
<1> QED
  BY <1>1, <1>2, EnoughIsLeft, PTL DEF Spec

-----------------------------------------------------------------------------

LEMMA LateInit == Init => LateIInv
<1> SUFFICES ASSUME Init PROVE LateIInv
  OBVIOUS
<1>1. NotTooEarly
  BY ConstantsAssumption DEF Init, NotTooEarly, ReadByProcess, None
<1>2. RenewsWhenDue
  BY DEF Init, RenewsWhenDue
<1> QED
  BY <1>1, <1>2, InitType DEF LateIInv

(* Every step keeps the clocks together and the renewal late.              *)
LEMMA LateStep ==
    ASSUME LateIInv, [Next]_vars
    PROVE  LateIInv'
<1> USE ConstantsAssumption DEF NotTooEarly, RenewsWhenDue, None
<1>type. TypeOK /\ TypeOK'
  BY TypeStep DEF LateIInv
<1>inv. NotTooEarly /\ RenewsWhenDue
  BY DEF LateIInv
<1>1. CASE RenewLeaseIfDue
  BY <1>1, <1>type, <1>inv DEF RenewLeaseIfDue, Goto, LateIInv
<1>2. CASE Renewed
  <2>1. /\ expires_in' = LeaseSeconds /\ pc' = "work_once"
        /\ instance_lease' \in ReadByProcess(LeaseSeconds)
    BY <1>2 DEF Renewed, Goto
  <2>2. LeaseSeconds <= instance_lease' + MaxSkew
    <3>1. PICK t \in LeaseSeconds - MaxSkew .. LeaseSeconds + MaxSkew : instance_lease' = t
      BY <2>1 DEF ReadByProcess
    <3>2. LeaseSeconds <= t + MaxSkew
      BY <3>1
    <3> QED
      BY <3>1, <3>2
  <2> QED
    BY <2>1, <2>2, <1>type DEF LateIInv
<1>3. CASE Rejected \/ RequestLost \/ AnswerLost \/ WorkOnce \/ Wake
  BY <1>3, <1>type, <1>inv DEF Rejected, RequestLost, AnswerLost, WorkOnce, Wake, Goto, LateIInv
<1>4. CASE Tick
  <2>1. NotTooEarly'
    BY <1>4, <1>type, <1>inv DEF Tick, TypeOK
  <2>2. RenewsWhenDue'
    BY <1>4, <1>type, <1>inv DEF Tick, TypeOK
  <2> QED
    BY <2>1, <2>2, <1>type DEF LateIInv
<1>5. CASE UNCHANGED vars
  BY <1>5, <1>type, <1>inv DEF vars, LateIInv
<1> QED
  BY <1>1, <1>2, <1>3, <1>4, <1>5 DEF Next, RenewLease

(* A lease is renewed once per lease: whatever calls and answers are lost, *)
(* the kernel only ever extends one that is in its last stretch.           *)
THEOREM RenewsLateInTheLeaseHolds == Spec => RenewsLateInTheLease
<1>1. LateIInv /\ [Next]_vars =>
        [(expires_in' > expires_in) => expires_in <= RENEWAL_MARGIN_SECONDS + MaxSkew]_vars
  <2> SUFFICES ASSUME LateIInv, Next, expires_in' > expires_in
               PROVE  expires_in <= RENEWAL_MARGIN_SECONDS + MaxSkew
    OBVIOUS
  <2>1. expires_in \in Nat /\ expires_in' > expires_in
    BY DEF LateIInv, TypeOK
  <2>2. pc = "renew_lease" /\ in_step
    BY <2>1
    DEF Next, RenewLease, RenewLeaseIfDue, Renewed, Rejected, RequestLost, AnswerLost, WorkOnce,
        Wake, Tick, Acceptable, At
  <2>3. /\ instance_lease <= RENEWAL_MARGIN_SECONDS
        /\ expires_in <= instance_lease + MaxSkew
    BY <2>2 DEF LateIInv, NotTooEarly, RenewsWhenDue
  <2>4. instance_lease \in Int /\ MaxSkew \in Nat /\ RENEWAL_MARGIN_SECONDS \in Nat
    BY ConstantsAssumption DEF LateIInv, TypeOK, None
  <2> QED
    BY <2>1, <2>3, <2>4
<1>2. LateIInv /\ [Next]_vars => LateIInv'
  BY LateStep
<1> QED
  BY <1>1, <1>2, LateInit, PTL DEF Spec, RenewsLateInTheLease

=============================================================================
