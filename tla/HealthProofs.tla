---------------------------- MODULE HealthProofs ----------------------------
(***************************************************************************)
(* What Ready says about the loop, for all thresholds, periods, lease      *)
(* seconds and outages; and that outages as brief as the margin and the    *)
(* liveness threshold allow for cost no restart.                           *)
(***************************************************************************)
EXTENDS Health, TLAPS

LeaseStep == \/ Lease!RenewLeaseIfDue \/ Lease!Renewed \/ Lease!Rejected \/ Lease!RequestLost
             \/ Lease!AnswerLost \/ Lease!WorkOnce \/ Lease!Wake \/ Lease!Tick
             \/ UNCHANGED lease

(* The steps of the lease keep its types, with PoolTimeout for MaxPass.    *)
LEMMA LeaseTypeStep ==
    ASSUME Lease!TypeOK, LeaseStep
    PROVE  Lease!TypeOK'
<1> USE BoundsAssumption DEF Lease!TypeOK, Lease!Loop, Lease!Limit, Lease!None, Lease!At, Lease!Goto
<1>1. CASE Lease!RenewLeaseIfDue
  BY <1>1 DEF Lease!RenewLeaseIfDue
<1>2. CASE Lease!Renewed
  BY <1>2 DEF Lease!Renewed, Lease!ReadByProcess
<1>3. CASE Lease!Rejected
  BY <1>3 DEF Lease!Rejected
<1>4. CASE Lease!RequestLost
  BY <1>4 DEF Lease!RequestLost
<1>5. CASE Lease!AnswerLost
  <2>1. /\ pc = "renew_lease" /\ lost < MaxLost /\ lost' = lost + 1
        /\ expires_in' = LeaseSeconds /\ in_step' = FALSE
        /\ pc' = "work_once" /\ elapsed' = elapsed /\ instance_lease' = instance_lease
    BY <1>5, Zenon DEF Lease!AnswerLost
  <2>2. lost' \in 0 .. MaxLost /\ elapsed' \in 0 .. Lease!Limit' /\ expires_in' \in 0 .. LeaseSeconds
    BY <2>1
  <2> QED
    BY <2>1, <2>2, Zenon
<1>6. CASE Lease!WorkOnce \/ Lease!Wake
  BY <1>6 DEF Lease!WorkOnce, Lease!Wake
<1>7. CASE Lease!Tick
  BY <1>7 DEF Lease!Tick
<1>8. CASE UNCHANGED lease
  BY <1>8 DEF lease
<1> QED
  BY <1>1, <1>2, <1>3, <1>4, <1>5, <1>6, <1>7, <1>8 DEF LeaseStep

(* What the Pod keeps beside its lease.                                    *)
PodTypeOK ==
    /\ up \in BOOLEAN /\ waiting \in BOOLEAN
    /\ heartbeat \in Age
    /\ live_probe_in \in 0 .. LivenessPeriod
    /\ live_failures \in 0 .. FailureThreshold
    /\ ready_failures \in 0 .. FailureThreshold
    /\ ready_probe_due \in BOOLEAN /\ ready \in BOOLEAN /\ restarted \in BOOLEAN

WorldTypeOK ==
    /\ eligible \in 0 .. MaxRequests
    /\ kernel_down \in 0 .. KernelOutageLimit + 1
    /\ database_down \in 0 .. DatabaseOutageLimit + 1
    /\ requests \in 0 .. MaxRequests
    /\ kernel_outages \in 0 .. MaxKernelOutages
    /\ database_outages \in 0 .. MaxDatabaseOutages

LEMMA TypeParts == TypeOK <=> Lease!TypeOK /\ PodTypeOK /\ WorldTypeOK
BY DEF TypeOK, PodTypeOK, WorldTypeOK

-----------------------------------------------------------------------------

LEMMA InvInit == Init => IInv
<1> SUFFICES ASSUME Init PROVE IInv
  OBVIOUS
<1> USE BoundsAssumption DEF Init
<1>1. Lease!TypeOK
  BY DEF Lease!Init, Lease!TypeOK, Lease!Loop, Lease!Limit, Lease!None, Lease!ReadByProcess, None
<1>2. PodTypeOK
  <2>1. /\ heartbeat \in Age /\ live_probe_in \in 0 .. LivenessPeriod
        /\ live_failures \in 0 .. FailureThreshold
        /\ ready_failures \in 0 .. FailureThreshold
    BY DEF Age
  <2>2. /\ up \in BOOLEAN /\ waiting \in BOOLEAN
        /\ ready_probe_due \in BOOLEAN /\ ready \in BOOLEAN /\ restarted \in BOOLEAN
    BY Zenon
  <2> QED
    BY <2>1, <2>2, Zenon DEF PodTypeOK
<1>w. WorldTypeOK
  BY DEF WorldTypeOK
<1>3. ReadyCountsProbes /\ RoutesWereRouted
  BY DEF ReadyCountsProbes, RoutesWereRouted
<1> QED
  BY <1>1, <1>2, <1>w, <1>3, TypeParts DEF IInv

(* A step that leaves the probes alone and does not age the heartbeat.     *)
LEMMA PodQuiet ==
    ASSUME IInv, UNCHANGED <<up, kubelet>>, waiting' \in BOOLEAN,
           heartbeat' \in {heartbeat, 0}
    PROVE  PodTypeOK' /\ ReadyCountsProbes'
<1>1. heartbeat' \in Age
  BY BoundsAssumption, TypeParts DEF IInv, PodTypeOK, Age
<1>2. PodTypeOK'
  BY <1>1, TypeParts DEF IInv, PodTypeOK, kubelet
<1>3. ReadyCountsProbes'
  <2>1. READY_STALE_SECONDS + ready_failures + Due \in Nat /\ None # 0
    BY BoundsAssumption, TypeParts DEF IInv, PodTypeOK, Due, None, Lease!None
  <2>2. Due' = Due
    BY DEF Due, kubelet
  <2> QED
    BY <2>1, <2>2 DEF IInv, ReadyCountsProbes, kubelet
<1> QED
  BY <1>2, <1>3

(* Every step of the process, the kubelet and the world keeps IInv.        *)
LEMMA InvStep ==
    ASSUME IInv, [Next]_vars
    PROVE  IInv'
<1>type. Lease!TypeOK /\ PodTypeOK /\ WorldTypeOK
  BY TypeParts DEF IInv
<1>qed. Lease!TypeOK' /\ PodTypeOK' /\ WorldTypeOK' /\ ReadyCountsProbes' /\ RoutesWereRouted'
        => IInv'
  BY DEF IInv, TypeOK, PodTypeOK, WorldTypeOK
<1>world. ASSUME UNCHANGED world
          PROVE  WorldTypeOK' /\ RoutesWereRouted'
  BY <1>world, <1>type DEF world, WorldTypeOK, IInv, RoutesWereRouted
<1>lease. ASSUME UNCHANGED lease
          PROVE  Lease!TypeOK'
  BY <1>lease, <1>type, LeaseTypeStep DEF LeaseStep
<1>1. CASE FromEnv
  <2>1. Lease!TypeOK'
    BY <1>1, <1>type, BoundsAssumption
    DEF FromEnv, Lease!TypeOK, Lease!ReadByProcess, Lease!Loop, Lease!Limit, Lease!None
  <2>2. PodTypeOK' /\ ReadyCountsProbes'
    BY <1>1, <1>type DEF FromEnv, kubelet, PodTypeOK, ReadyCountsProbes, IInv, Due
  <2> QED
    BY <1>1, <2>1, <2>2, <1>world, <1>qed DEF FromEnv
<1>2. CASE RenewLeaseIfDue \/ RenewLease \/ Wake
  <2>1. LeaseStep /\ UNCHANGED <<process, kubelet, world>>
    BY <1>2 DEF RenewLeaseIfDue, RenewLease, Wake, LeaseStep
  <2>2. PodTypeOK' /\ ReadyCountsProbes'
    BY <2>1, <1>type, PodQuiet DEF process, PodTypeOK
  <2> QED
    BY <2>1, <2>2, <1>type, <1>world, <1>qed, LeaseTypeStep
<1>3. CASE NothingEligible \/ PassFails \/ PassSucceeds
  <2>1. LeaseStep /\ UNCHANGED <<up, kubelet, world>>
    BY <1>3 DEF NothingEligible, PassFails, PassSucceeds, LeaseStep
  <2>2. waiting' \in BOOLEAN /\ heartbeat' \in {heartbeat, 0}
    BY <1>3, <1>type
    DEF NothingEligible, PassFails, PassSucceeds, RecordSuccess, RecordNothing, PodTypeOK
  <2> QED
    BY <2>1, <2>2, <1>type, <1>world, <1>qed, LeaseTypeStep, PodQuiet
<1>4. CASE Claim
  <2>1. /\ UNCHANGED <<lease, up, heartbeat, kubelet>> /\ waiting' \in BOOLEAN
        /\ WorldTypeOK' /\ RoutesWereRouted'
    BY <1>4, <1>type, BoundsAssumption DEF Claim, WorldTypeOK, RoutesWereRouted, IInv
  <2> QED
    BY <2>1, <1>lease, <1>qed, PodQuiet
<1>5. CASE LivenessProbe
  <2>1. PodTypeOK'
    <3>1. /\ live_probe_in' \in 0 .. LivenessPeriod /\ UNCHANGED <<ready_failures, ready_probe_due>>
          /\ live_failures' \in 0 .. FailureThreshold
      BY <1>5, <1>type, BoundsAssumption DEF LivenessProbe, PodTypeOK
    <3>2. heartbeat' \in {heartbeat, None}
      BY <1>5 DEF LivenessProbe
    <3>3. heartbeat' \in Age
      BY <3>2, <1>type DEF PodTypeOK, Age
    <3>4. up' \in BOOLEAN /\ waiting' \in BOOLEAN /\ ready' \in BOOLEAN /\ restarted' \in BOOLEAN
      BY <1>5, <1>type, Zenon DEF LivenessProbe, PodTypeOK
    <3> QED
      BY <3>1, <3>3, <3>4, <1>type, Zenon DEF PodTypeOK
  <2>2. ReadyCountsProbes'
    BY <1>5, <1>type DEF LivenessProbe, ReadyCountsProbes, IInv, Due, PodTypeOK
  <2> QED
    BY <1>5, <2>1, <2>2, <1>lease, <1>world, <1>qed DEF LivenessProbe
<1>6. CASE ReadinessProbe
  <2>1. PodTypeOK'
    <3>1. /\ UNCHANGED <<up, heartbeat, waiting, live_probe_in, live_failures, restarted>>
          /\ ready_failures' \in 0 .. FailureThreshold
      BY <1>6, <1>type, BoundsAssumption DEF ReadinessProbe, PodTypeOK, process
    <3>2. ready' \in BOOLEAN /\ ready_probe_due' \in BOOLEAN
      BY <1>6, <1>type, Zenon DEF ReadinessProbe, PodTypeOK
    <3> QED
      BY <3>1, <3>2, <1>type, Zenon DEF PodTypeOK
  <2>2. ReadyCountsProbes'
    <3>1. CASE up /\ ReadyOk /\ ready' = TRUE /\ ready_failures' = 0
      BY <1>6, <3>1, BoundsAssumption
      DEF ReadinessProbe, ReadyCountsProbes, ReadyOk, Due, process
    <3>2. CASE /\ ready_failures + 1 < FailureThreshold
               /\ ready_failures' = ready_failures + 1
               /\ UNCHANGED ready
      <4>1. Due = 1 /\ Due' = 0 /\ UNCHANGED <<up, heartbeat>>
        BY <1>6 DEF ReadinessProbe, Due, process
      <4>2. ready_failures \in Nat /\ READY_STALE_SECONDS \in Nat
        BY <1>type, BoundsAssumption DEF PodTypeOK
      <4>3. READY_STALE_SECONDS + ready_failures' + Due' = READY_STALE_SECONDS + ready_failures + Due
        BY <3>2, <4>1, <4>2
      <4> QED
        BY <3>2, <4>1, <4>3 DEF ReadyCountsProbes, IInv
    <3>3. CASE ready' = FALSE /\ UNCHANGED ready_failures
      BY <3>3 DEF ReadyCountsProbes, IInv
    <3> QED
      BY <1>6, <3>1, <3>2, <3>3 DEF ReadinessProbe
  <2> QED
    BY <1>6, <2>1, <2>2, <1>lease, <1>world, <1>qed DEF ReadinessProbe
<1>7. CASE RequestRouted \/ KernelGoesDown \/ KernelComesUp \/ DatabaseGoesDown \/ DatabaseComesUp
  <2>1. /\ UNCHANGED <<lease, up, heartbeat, waiting, kubelet>>
        /\ WorldTypeOK' /\ RoutesWereRouted'
    BY <1>7, <1>type, BoundsAssumption
    DEF RequestRouted, KernelGoesDown, KernelComesUp, DatabaseGoesDown, DatabaseComesUp,
        process, WorldTypeOK, RoutesWereRouted, IInv, KernelUp, DatabaseUp
  <2> QED
    BY <2>1, <1>type, <1>lease, <1>qed, PodQuiet DEF PodTypeOK
<1>8. CASE Tick
  <2>1. LeaseStep
    BY <1>8 DEF Tick, LeaseStep
  <2>2. WorldTypeOK' /\ RoutesWereRouted'
    BY <1>8, <1>type, BoundsAssumption DEF Tick, WorldTypeOK, RoutesWereRouted, Longer, IInv
  <2>3. PodTypeOK'
    BY <1>8, <1>type, BoundsAssumption DEF Tick, PodTypeOK, Older, Age, None, Lease!None
  <2>4. ReadyCountsProbes'
    <3>1. /\ Due = 0 /\ Due' = 1 /\ UNCHANGED <<up, ready, ready_failures>>
          /\ heartbeat' = Older(heartbeat)
      BY <1>8 DEF Tick, Due
    <3>2. /\ ready_failures \in Nat /\ READY_STALE_SECONDS \in Nat
          /\ heartbeat # None => heartbeat \in Nat
      BY <1>type, BoundsAssumption DEF PodTypeOK, Age
    <3>3. heartbeat # None =>
            /\ Older(heartbeat) # None
            /\ Older(heartbeat) <= heartbeat + 1
      BY <3>2 DEF Older, None, Lease!None
    <3>4. /\ ready_failures' < FailureThreshold
          /\ heartbeat # None /\ heartbeat <= READY_STALE_SECONDS + ready_failures + Due =>
                /\ heartbeat' # None
                /\ heartbeat' <= READY_STALE_SECONDS + ready_failures' + Due'
      <4>1. ready_failures < FailureThreshold
        BY DEF IInv, ReadyCountsProbes
      <4>2. heartbeat # None => Older(heartbeat) \in Int
        BY <3>2 DEF Older
      <4> QED
        BY <3>1, <3>2, <3>3, <4>1, <4>2
    <3> QED
      BY <3>1, <3>4, Zenon DEF ReadyCountsProbes, IInv
  <2> QED
    BY <2>1, <2>2, <2>3, <2>4, <1>type, <1>qed, LeaseTypeStep
<1>9. CASE UNCHANGED vars
  <2>1. UNCHANGED <<lease, up, heartbeat, waiting, kubelet, world>>
    BY <1>9 DEF vars, process
  <2> QED
    BY <2>1, <1>type, <1>lease, <1>world, <1>qed, PodQuiet DEF PodTypeOK
<1> QED
  BY <1>1, <1>2, <1>3, <1>4, <1>5, <1>6, <1>7, <1>8, <1>9 DEF Next, Run

THEOREM Invariance == Spec => []IInv
<1>1. IInv /\ [Next]_vars => IInv'
  BY InvStep
<1> QED
  BY <1>1, InvInit, PTL DEF Spec

(* Process, kubelet and world have their types, the lease included.        *)
THEOREM TypeCorrect == Spec => []TypeOK
<1>1. IInv => TypeOK
  BY DEF IInv
<1> QED
  BY <1>1, Invariance, PTL

(* While the process lives, whatever it, the kubelet or the world does is  *)
(* a step of the lease as InstanceLease has it, or leaves the lease alone: *)
(* probes, outages and requests do not reach into it.                      *)
THEOREM LoopKeepsToItsLease == Spec => [][(up /\ up') => [Lease!Next]_lease]_vars
<1>1. ASSUME [Next]_vars, up, up'
      PROVE  [Lease!Next]_lease
  <2>1. LeaseStep
    BY <1>1
    DEF Next, Run, FromEnv, RenewLeaseIfDue, RenewLease, NothingEligible, Claim, PassFails,
        PassSucceeds, Wake, Tick, LivenessProbe, ReadinessProbe, RequestRouted, KernelGoesDown,
        KernelComesUp, DatabaseGoesDown, DatabaseComesUp, LeaseStep, vars
  <2>2. Lease!Next \/ UNCHANGED lease
    BY <2>1, Zenon DEF LeaseStep, Lease!Next, Lease!RenewLease
  <2> QED
    BY <2>2
<1>2. [Next]_vars => [(up /\ up') => [Lease!Next]_lease]_vars
  BY <1>1
<1> QED
  BY <1>2, PTL DEF Spec

(* A Ready Pod has completed a pass at most the stale threshold and the    *)
(* probes that must fail ago, whatever fails, restarts or is away.         *)
THEOREM ReadyMeansRecentPassHolds == Spec => []ReadyMeansRecentPass
<1>1. IInv => ReadyMeansRecentPass
  <2> SUFFICES ASSUME IInv, ready
               PROVE  /\ up /\ heartbeat # None
                      /\ heartbeat <= READY_STALE_SECONDS + FailureThreshold
    BY DEF ReadyMeansRecentPass
  <2>1. /\ up /\ heartbeat # None
        /\ heartbeat <= READY_STALE_SECONDS + ready_failures + Due
        /\ ready_failures < FailureThreshold
    BY DEF IInv, ReadyCountsProbes
  <2>2. /\ ready_failures \in Nat /\ Due \in {0, 1} /\ heartbeat \in Nat
        /\ READY_STALE_SECONDS \in Nat /\ FailureThreshold \in Nat
    BY <2>1, TypeParts, BoundsAssumption DEF IInv, PodTypeOK, Age, Due
  <2> QED
    BY <2>1, <2>2
<1> QED
  BY <1>1, Invariance, PTL

-----------------------------------------------------------------------------
(* A loop that gets nothing done is not kept.                              *)

(* A probe more is a period more, and fewer of them are fewer.             *)
LEMMA PeriodsAdd ==
    \A n, m, p \in Nat : /\ n * p \in Nat /\ (m + 1) * p = m * p + p
                         /\ n <= m => n * p <= m * p
BY SMT

(* The probes count every moment a heartbeat is over the threshold.        *)
LEMMA SilenceStep ==
    ASSUME IInv, SilenceIsCounted, [Next]_vars
    PROVE  SilenceIsCounted'
<1> DEFINE silence == LIVE_STALE_SECONDS + live_failures * LivenessPeriod
                        + (LivenessPeriod - live_probe_in)
<1>1. /\ live_failures \in Nat /\ live_probe_in \in 0 .. LivenessPeriod
      /\ LIVE_STALE_SECONDS \in Nat /\ LivenessPeriod \in Nat \ {0} /\ FailureThreshold \in Nat
      /\ heartbeat # None => heartbeat \in Nat
  BY TypeParts, BoundsAssumption DEF IInv, PodTypeOK, Age
<1>2. live_failures * LivenessPeriod \in Nat
  BY <1>1, PeriodsAdd, Zenon
<1>3. live_failures < FailureThreshold /\ (heartbeat # None => heartbeat <= silence)
  BY DEF SilenceIsCounted
<1>4. SUFFICES live_failures' < FailureThreshold /\ (heartbeat' # None => heartbeat' <= silence')
  BY DEF SilenceIsCounted
<1>5. ASSUME UNCHANGED <<live_failures, live_probe_in>>, heartbeat' \in {heartbeat, 0}
      PROVE  live_failures' < FailureThreshold /\ (heartbeat' # None => heartbeat' <= silence')
  <2>1. silence' = silence /\ silence >= 0
    BY <1>1, <1>2, <1>5
  <2> QED
    BY <1>3, <1>5, <2>1
<1>6. CASE Tick
  <2>1. /\ live_failures' = live_failures /\ live_probe_in' = live_probe_in - 1
        /\ heartbeat' = Older(heartbeat)
    BY <1>6 DEF Tick
  <2>2. silence' = silence + 1
    BY <1>1, <1>2, <2>1
  <2>3. heartbeat' # None => heartbeat # None /\ heartbeat' = heartbeat + 1
    BY <2>1 DEF Older
  <2> QED
    BY <1>1, <1>2, <1>3, <2>1, <2>2, <2>3
<1>7. CASE LivenessProbe
  <2>1. live_probe_in = 0 /\ live_probe_in' = LivenessPeriod
    BY <1>7 DEF LivenessProbe
  <2>2. CASE LiveOk /\ live_failures' = 0 /\ UNCHANGED heartbeat
    <3>1. silence' = LIVE_STALE_SECONDS + 0 * LivenessPeriod + (LivenessPeriod - LivenessPeriod)
      BY <2>1, <2>2
    <3>2. silence' = LIVE_STALE_SECONDS /\ 0 < FailureThreshold
      BY <1>1, <1>3, <3>1
    <3> QED
      BY <2>2, <3>2 DEF LiveOk
  <2>3. CASE /\ live_failures + 1 < FailureThreshold
             /\ live_failures' = live_failures + 1
             /\ UNCHANGED heartbeat
    <3>1. (live_failures + 1) * LivenessPeriod = live_failures * LivenessPeriod + LivenessPeriod
      BY <1>1, PeriodsAdd, Zenon
    <3>2. /\ silence = LIVE_STALE_SECONDS + live_failures * LivenessPeriod + LivenessPeriod
          /\ silence' = LIVE_STALE_SECONDS + (live_failures + 1) * LivenessPeriod
                            + (LivenessPeriod - LivenessPeriod)
      BY <1>1, <1>2, <2>1, <2>3
    <3>3. silence' = silence
      BY <1>1, <1>2, <3>1, <3>2
    <3> QED
      BY <1>3, <2>3, <3>3
  <2>4. CASE live_failures' = 0 /\ heartbeat' = None
    BY <1>1, <1>3, <2>4
  <2> QED
    BY <1>7, <2>2, <2>3, <2>4 DEF LivenessProbe
<1>8. CASE UNCHANGED vars
  BY <1>5, <1>8 DEF vars, process, kubelet
<1>9. CASE FromEnv \/ Run \/ ReadinessProbe \/ RequestRouted
             \/ KernelGoesDown \/ KernelComesUp \/ DatabaseGoesDown \/ DatabaseComesUp
  <2>1. UNCHANGED <<live_failures, live_probe_in>> /\ heartbeat' \in {heartbeat, 0}
    BY <1>9
    DEF FromEnv, Run, RenewLeaseIfDue, RenewLease, NothingEligible, Claim, PassFails, PassSucceeds,
        Wake, ReadinessProbe, RequestRouted, KernelGoesDown, KernelComesUp, DatabaseGoesDown,
        DatabaseComesUp, RecordSuccess, RecordNothing, process, kubelet
  <2> QED
    BY <1>5, <2>1
<1> QED
  BY <1>6, <1>7, <1>8, <1>9 DEF Next

(* A process whose passes fail, for whatever reason and however long, is   *)
(* replaced by the stale threshold and the probes in a row that must fail: *)
(* the part of LockoutEndsAfterFirstPass that has a deadline.              *)
THEOREM StuckLoopIsReplacedHolds == Spec => []StuckLoopIsReplaced
<1>1. Init => SilenceIsCounted
  BY BoundsAssumption DEF Init, SilenceIsCounted
<1>2. IInv /\ SilenceIsCounted => StuckLoopIsReplaced
  <2> SUFFICES ASSUME IInv, SilenceIsCounted, heartbeat # None
               PROVE  heartbeat <= LIVE_STALE_SECONDS + FailureThreshold * LivenessPeriod
    BY DEF StuckLoopIsReplaced
  <2>1. /\ live_failures \in Nat /\ live_probe_in \in 0 .. LivenessPeriod
        /\ LIVE_STALE_SECONDS \in Nat /\ LivenessPeriod \in Nat /\ FailureThreshold \in Nat
        /\ heartbeat \in Nat
    BY TypeParts, BoundsAssumption DEF IInv, PodTypeOK, Age
  <2>2. live_failures + 1 <= FailureThreshold
    BY <2>1 DEF SilenceIsCounted
  <2>3. /\ live_failures * LivenessPeriod \in Nat /\ FailureThreshold * LivenessPeriod \in Nat
        /\ live_failures * LivenessPeriod + LivenessPeriod <= FailureThreshold * LivenessPeriod
    <3>1. live_failures + 1 \in Nat
      BY <2>1
    <3>2. /\ live_failures * LivenessPeriod \in Nat /\ FailureThreshold * LivenessPeriod \in Nat
          /\ (live_failures + 1) * LivenessPeriod = live_failures * LivenessPeriod + LivenessPeriod
      BY <2>1, PeriodsAdd, Zenon
    <3>3. (live_failures + 1) * LivenessPeriod <= FailureThreshold * LivenessPeriod
      BY <2>1, <2>2, <3>1, PeriodsAdd, Zenon
    <3> QED
      BY <3>2, <3>3, Zenon
  <2>4. heartbeat <= LIVE_STALE_SECONDS + live_failures * LivenessPeriod
                        + (LivenessPeriod - live_probe_in)
    BY DEF SilenceIsCounted
  <2> QED
    BY <2>1, <2>3, <2>4
<1>3. IInv /\ SilenceIsCounted /\ [Next]_vars => IInv' /\ SilenceIsCounted'
  BY InvStep, SilenceStep
<1> QED
  BY <1>1, <1>2, <1>3, InvInit, PTL DEF Spec

-----------------------------------------------------------------------------
(* Brief outages cost no restart.                                          *)

(* n of m outages have begun and each costs c.                             *)
LEMMA OutageCosts ==
    ASSUME NEW m \in Nat, NEW n \in 0 .. m, NEW c \in Nat
    PROVE  /\ (m - n) * c \in Nat
           /\ (m - n) * c <= m * c
           /\ n > 0 => (m - n) * c <= m * c - c
           /\ n < m => (m - (n + 1)) * c = (m - n) * c - c
           /\ m * c \in Nat
<1> DEFINE k == m - n
<1>1. k \in Nat /\ n \in Nat /\ m = k + n
  OBVIOUS
<1>2. m * c = k * c + n * c
  BY <1>1
<1>3. k * c \in Nat /\ n * c \in Nat
  BY <1>1
<1>4. ASSUME n > 0
      PROVE  n * c >= c
  <2>1. (n - 1) * c \in Nat
    BY <1>1, <1>4
  <2>2. n * c = (n - 1) * c + c
    BY <1>1
  <2> QED
    BY <2>1, <2>2, <1>3
<1>5. (m - (n + 1)) * c = k * c - c
  BY <1>1
<1> QED
  BY <1>2, <1>3, <1>4, <1>5

(* What is left of an outage, and what the ones to come can cost.          *)
LEMMA OutageFacts ==
    ASSUME IInv
    PROVE  /\ KernelLeft \in 0 .. KernelOutageLimit
           /\ DatabaseLeft \in 0 .. DatabaseOutageLimit
           /\ \A cost \in Nat :
                /\ KernelOutagesToCome(cost) \in Nat /\ DatabaseOutagesToCome(cost) \in Nat
                /\ MaxKernelOutages * cost \in Nat /\ MaxDatabaseOutages * cost \in Nat
                /\ KernelOutagesToCome(cost) <= MaxKernelOutages * cost
                /\ DatabaseOutagesToCome(cost) <= MaxDatabaseOutages * cost
                /\ kernel_outages > 0 =>
                    KernelOutagesToCome(cost) <= MaxKernelOutages * cost - cost
                /\ database_outages > 0 =>
                    DatabaseOutagesToCome(cost) <= MaxDatabaseOutages * cost - cost
<1>1. /\ kernel_down \in 0 .. KernelOutageLimit + 1
      /\ database_down \in 0 .. DatabaseOutageLimit + 1
      /\ kernel_outages \in 0 .. MaxKernelOutages
      /\ database_outages \in 0 .. MaxDatabaseOutages
  BY DEF IInv, TypeOK
<1>2. /\ KernelLeft \in 0 .. KernelOutageLimit
      /\ DatabaseLeft \in 0 .. DatabaseOutageLimit
  BY <1>1, BoundsAssumption DEF KernelLeft, DatabaseLeft, KernelUp, DatabaseUp
<1>3. MaxKernelOutages \in Nat /\ MaxDatabaseOutages \in Nat
  BY BoundsAssumption
<1> QED
  BY <1>1, <1>2, <1>3, OutageCosts DEF KernelOutagesToCome, DatabaseOutagesToCome

(* The times that the two waits are measured in.                           *)
LEMMA WaitTypes ==
    ASSUME IInv
    PROVE  /\ UntilLook \in 0 .. PollInterval /\ UntilPass \in 0 .. PollInterval
           /\ Longest(KernelLeft, DatabaseLeft) \in Nat
           /\ UntilRenewed \in Nat /\ UntilSuccess \in Nat
<1>1. pc = "sleep" => elapsed \in 0 .. PollInterval
  BY DEF IInv, TypeOK, Lease!TypeOK, Lease!Limit
<1>2. UntilLook \in 0 .. PollInterval /\ UntilPass \in 0 .. PollInterval
  BY <1>1, BoundsAssumption DEF UntilLook, UntilPass
<1>3. KernelLeft \in Nat /\ DatabaseLeft \in Nat /\ Longest(KernelLeft, DatabaseLeft) \in Nat
  BY OutageFacts DEF Longest
<1>4. /\ KernelOutagesToCome(KernelOutageLimit + PollInterval) \in Nat
      /\ DatabaseOutagesToCome(DatabaseOutageLimit) \in Nat
      /\ DatabaseOutagesToCome(DatabaseOutageLimit + PollInterval) \in Nat
  BY OutageFacts, BoundsAssumption
<1> QED
  BY <1>2, <1>3, <1>4, BoundsAssumption DEF UntilRenewed, UntilSuccess, Until

(* At worst all outages are still to come, one after the other.            *)
LEMMA WaitsAreBounded ==
    ASSUME IInv, OutagesCounted
    PROVE  UntilRenewed <= LongestUntilRenewed /\ UntilSuccess <= LongestUntilSuccess
<1> DEFINE kc == KernelOutageLimit + PollInterval
           dc == DatabaseOutageLimit + PollInterval
           kn == MaxKernelOutages * kc
           dn == MaxDatabaseOutages * dc
           dr == MaxDatabaseOutages * DatabaseOutageLimit
           kt == KernelOutagesToCome(kc)
           dt == DatabaseOutagesToCome(dc)
           rt == DatabaseOutagesToCome(DatabaseOutageLimit)
<1>1. /\ kc \in Nat /\ dc \in Nat /\ DatabaseOutageLimit \in Nat
      /\ KernelOutageLimit \in Nat /\ PollInterval \in Nat
  BY BoundsAssumption
<1>2. /\ kt \in Nat /\ kn \in Nat /\ kt <= kn
      /\ dt \in Nat /\ dn \in Nat /\ dt <= dn
      /\ rt \in Nat /\ dr \in Nat /\ rt <= dr
  BY <1>1, OutageFacts
<1>3. /\ ~ KernelUp => kt <= kn - kc
      /\ ~ DatabaseUp => dt <= dn - dc /\ rt <= dr - DatabaseOutageLimit
  BY <1>1, OutageFacts DEF OutagesCounted
<1>4. /\ KernelLeft \in 0 .. KernelOutageLimit /\ DatabaseLeft \in 0 .. DatabaseOutageLimit
      /\ KernelUp => KernelLeft = 0
      /\ DatabaseUp => DatabaseLeft = 0
  BY OutageFacts DEF KernelLeft, DatabaseLeft
<1>5. UntilLook \in 0 .. PollInterval /\ UntilPass \in 0 .. PollInterval
  BY WaitTypes
<1>6. Until(UntilLook, KernelLeft, ~ KernelUp) + DatabaseLeft + kt + rt <= PollInterval + kn + dr
  <2> HIDE DEF kn, dr, kt, rt
  <2> QED
    BY <1>1, <1>2, <1>3, <1>4, <1>5 DEF Until
<1>7. Until(UntilPass, Longest(KernelLeft, DatabaseLeft), ~ (KernelUp /\ DatabaseUp)) + kt + dt
        <= PollInterval + kn + dn
  <2> HIDE DEF kn, dn, kt, dt
  <2> QED
    BY <1>1, <1>2, <1>3, <1>4, <1>5 DEF Until, Longest
<1> QED
  BY <1>6, <1>7 DEF UntilRenewed, UntilSuccess, LongestUntilRenewed, LongestUntilSuccess

LEMMA LongestTypes == LongestUntilRenewed \in Nat /\ LongestUntilSuccess \in Nat
<1>1. /\ MaxKernelOutages * (KernelOutageLimit + PollInterval) \in Nat
      /\ MaxDatabaseOutages * DatabaseOutageLimit \in Nat
      /\ MaxDatabaseOutages * (DatabaseOutageLimit + PollInterval) \in Nat
  BY BoundsAssumption
<1> QED
  BY <1>1, BoundsAssumption DEF LongestUntilRenewed, LongestUntilSuccess

LEMMA WaitFacts ==
    IInv /\ OutagesCounted =>
        /\ UntilRenewed \in Nat /\ UntilRenewed <= LongestUntilRenewed
        /\ UntilSuccess \in Nat /\ UntilSuccess <= LongestUntilSuccess
BY WaitTypes, WaitsAreBounded, Zenon

LEMMA WaitFactsNext ==
    (IInv /\ OutagesCounted =>
        /\ UntilRenewed \in Nat /\ UntilRenewed <= LongestUntilRenewed
        /\ UntilSuccess \in Nat /\ UntilSuccess <= LongestUntilSuccess)'
BY WaitFacts, PTL

-----------------------------------------------------------------------------

(* An outage that begins was among those to come, and one that is over     *)
(* leaves less to wait for.                                                *)
LEMMA OutageWaits ==
    ASSUME IInv, UNCHANGED lease,
           KernelGoesDown \/ KernelComesUp \/ DatabaseGoesDown \/ DatabaseComesUp
    PROVE  UntilRenewed' <= UntilRenewed /\ UntilSuccess' <= UntilSuccess
<1> DEFINE kc == KernelOutageLimit + PollInterval
           dc == DatabaseOutageLimit + PollInterval
           kt == KernelOutagesToCome(kc)
           dt == DatabaseOutagesToCome(dc)
           rt == DatabaseOutagesToCome(DatabaseOutageLimit)
<1>1. /\ kc \in Nat /\ dc \in Nat /\ DatabaseOutageLimit \in Nat
      /\ KernelOutageLimit \in Nat /\ PollInterval \in Nat
      /\ MaxKernelOutages \in Nat /\ MaxDatabaseOutages \in Nat
  BY BoundsAssumption
<1>2. kt \in Nat /\ dt \in Nat /\ rt \in Nat
  BY <1>1, OutageFacts
<1>3. /\ kernel_outages \in 0 .. MaxKernelOutages
      /\ database_outages \in 0 .. MaxDatabaseOutages
  BY DEF IInv, TypeOK
<1>4. KernelLeft \in 0 .. KernelOutageLimit /\ DatabaseLeft \in 0 .. DatabaseOutageLimit
  BY OutageFacts
<1>5. /\ UntilLook \in 0 .. PollInterval /\ UntilPass \in 0 .. PollInterval
      /\ UNCHANGED <<UntilLook, UntilPass>>
  BY WaitTypes DEF lease, UntilLook, UntilPass
<1>6. /\ UntilRenewed = Until(UntilLook, KernelLeft, ~ KernelUp) + DatabaseLeft + kt + rt
      /\ UntilRenewed' = Until(UntilLook', KernelLeft', ~ KernelUp') + DatabaseLeft' + kt' + rt'
      /\ UntilSuccess = Until(UntilPass, Longest(KernelLeft, DatabaseLeft),
                              ~ (KernelUp /\ DatabaseUp)) + kt + dt
      /\ UntilSuccess' = Until(UntilPass', Longest(KernelLeft', DatabaseLeft'),
                               ~ (KernelUp' /\ DatabaseUp')) + kt' + dt'
  BY DEF UntilRenewed, UntilSuccess, Until
<1>7. CASE KernelGoesDown
  <2>1. /\ KernelUp /\ ~ KernelUp' /\ KernelLeft = 0 /\ KernelLeft' = KernelOutageLimit
        /\ UNCHANGED <<DatabaseUp, DatabaseLeft>>
        /\ DatabaseUp => DatabaseLeft = 0
    BY <1>1, <1>7 DEF KernelGoesDown, KernelUp, KernelLeft, DatabaseUp, DatabaseLeft
  <2>2. kt' = kt - kc /\ dt' = dt /\ rt' = rt
    BY <1>1, <1>3, <1>7, OutageCosts
    DEF KernelGoesDown, KernelOutagesToCome, DatabaseOutagesToCome
  <2> HIDE DEF kt, dt, rt
  <2>3. Until(UntilLook', KernelLeft', ~ KernelUp') + DatabaseLeft' + kt' + rt'
          <= Until(UntilLook, KernelLeft, ~ KernelUp) + DatabaseLeft + kt + rt
    BY <1>1, <1>2, <1>4, <1>5, <2>1, <2>2 DEF Until
  <2>4. Until(UntilPass', Longest(KernelLeft', DatabaseLeft'), ~ (KernelUp' /\ DatabaseUp')) + kt' + dt'
          <= Until(UntilPass, Longest(KernelLeft, DatabaseLeft), ~ (KernelUp /\ DatabaseUp)) + kt + dt
    BY <1>1, <1>2, <1>4, <1>5, <2>1, <2>2 DEF Until, Longest
  <2> QED
    BY <1>6, <2>3, <2>4
<1>8. CASE DatabaseGoesDown
  <2>1. /\ DatabaseUp /\ ~ DatabaseUp' /\ DatabaseLeft = 0 /\ DatabaseLeft' = DatabaseOutageLimit
        /\ UNCHANGED <<KernelUp, KernelLeft>>
        /\ KernelUp => KernelLeft = 0
    BY <1>1, <1>8 DEF DatabaseGoesDown, KernelUp, KernelLeft, DatabaseUp, DatabaseLeft
  <2>2. kt' = kt /\ dt' = dt - dc /\ rt' = rt - DatabaseOutageLimit
    BY <1>1, <1>3, <1>8, OutageCosts
    DEF DatabaseGoesDown, KernelOutagesToCome, DatabaseOutagesToCome
  <2> HIDE DEF kt, dt, rt
  <2>3. Until(UntilLook', KernelLeft', ~ KernelUp') + DatabaseLeft' + kt' + rt'
          <= Until(UntilLook, KernelLeft, ~ KernelUp) + DatabaseLeft + kt + rt
    BY <1>1, <1>2, <1>4, <1>5, <2>1, <2>2 DEF Until
  <2>4. Until(UntilPass', Longest(KernelLeft', DatabaseLeft'), ~ (KernelUp' /\ DatabaseUp')) + kt' + dt'
          <= Until(UntilPass, Longest(KernelLeft, DatabaseLeft), ~ (KernelUp /\ DatabaseUp)) + kt + dt
    BY <1>1, <1>2, <1>4, <1>5, <2>1, <2>2 DEF Until, Longest
  <2> QED
    BY <1>6, <2>3, <2>4
<1>9. CASE KernelComesUp
  <2>1. /\ ~ KernelUp /\ KernelUp' /\ KernelLeft' = 0
        /\ UNCHANGED <<DatabaseUp, DatabaseLeft>>
        /\ DatabaseUp => DatabaseLeft = 0
    BY <1>9 DEF KernelComesUp, KernelUp, KernelLeft, DatabaseUp, DatabaseLeft
  <2>2. kt' = kt /\ dt' = dt /\ rt' = rt
    BY <1>9 DEF KernelComesUp, KernelOutagesToCome, DatabaseOutagesToCome
  <2> HIDE DEF kt, dt, rt
  <2>3. Until(UntilLook', KernelLeft', ~ KernelUp') + DatabaseLeft' + kt' + rt'
          <= Until(UntilLook, KernelLeft, ~ KernelUp) + DatabaseLeft + kt + rt
    BY <1>1, <1>2, <1>4, <1>5, <2>1, <2>2 DEF Until
  <2>4. Until(UntilPass', Longest(KernelLeft', DatabaseLeft'), ~ (KernelUp' /\ DatabaseUp')) + kt' + dt'
          <= Until(UntilPass, Longest(KernelLeft, DatabaseLeft), ~ (KernelUp /\ DatabaseUp)) + kt + dt
    BY <1>1, <1>2, <1>4, <1>5, <2>1, <2>2 DEF Until, Longest
  <2> QED
    BY <1>6, <2>3, <2>4
<1>10. CASE DatabaseComesUp
  <2>1. /\ ~ DatabaseUp /\ DatabaseUp' /\ DatabaseLeft' = 0
        /\ UNCHANGED <<KernelUp, KernelLeft>>
        /\ KernelUp => KernelLeft = 0
    BY <1>10 DEF DatabaseComesUp, KernelUp, KernelLeft, DatabaseUp, DatabaseLeft
  <2>2. kt' = kt /\ dt' = dt /\ rt' = rt
    BY <1>10 DEF DatabaseComesUp, KernelOutagesToCome, DatabaseOutagesToCome
  <2> HIDE DEF kt, dt, rt
  <2>3. Until(UntilLook', KernelLeft', ~ KernelUp') + DatabaseLeft' + kt' + rt'
          <= Until(UntilLook, KernelLeft, ~ KernelUp) + DatabaseLeft + kt + rt
    BY <1>1, <1>2, <1>4, <1>5, <2>1, <2>2 DEF Until
  <2>4. Until(UntilPass', Longest(KernelLeft', DatabaseLeft'), ~ (KernelUp' /\ DatabaseUp')) + kt' + dt'
          <= Until(UntilPass, Longest(KernelLeft, DatabaseLeft), ~ (KernelUp /\ DatabaseUp)) + kt + dt
    BY <1>1, <1>2, <1>4, <1>5, <2>1, <2>2 DEF Until, Longest
  <2> QED
    BY <1>6, <2>3, <2>4
<1> QED
  BY <1>7, <1>8, <1>9, <1>10

(* A moment of sleep, or of a wait for the pool, is one less to wait.      *)
LEMMA TickWaits ==
    ASSUME IInv, Tick, up
    PROVE  UntilRenewed' <= UntilRenewed - 1 /\ UntilSuccess' <= UntilSuccess - 1
<1> DEFINE kt == KernelOutagesToCome(KernelOutageLimit + PollInterval)
           dt == DatabaseOutagesToCome(DatabaseOutageLimit + PollInterval)
           rt == DatabaseOutagesToCome(DatabaseOutageLimit)
<1>1. /\ KernelOutageLimit \in Nat /\ DatabaseOutageLimit \in Nat /\ PollInterval \in Nat
  BY BoundsAssumption
<1>2. /\ kt \in Nat /\ dt \in Nat /\ rt \in Nat
      /\ UNCHANGED <<kt, dt, rt>>
  <2>1. kt \in Nat /\ dt \in Nat /\ rt \in Nat
    BY <1>1, OutageFacts
  <2> QED
    BY <2>1 DEF Tick, KernelOutagesToCome, DatabaseOutagesToCome
<1>3. /\ KernelUp' = KernelUp /\ DatabaseUp' = DatabaseUp
      /\ KernelUp => KernelLeft = 0 /\ KernelLeft' = 0
      /\ DatabaseUp => DatabaseLeft = 0 /\ DatabaseLeft' = 0
      /\ ~ KernelUp => KernelLeft > 0 /\ KernelLeft' = KernelLeft - 1
      /\ ~ DatabaseUp => DatabaseLeft > 0 /\ DatabaseLeft' = DatabaseLeft - 1
      /\ KernelLeft \in Nat /\ DatabaseLeft \in Nat
  BY <1>1, TypeParts
  DEF Tick, Longer, KernelUp, KernelLeft, DatabaseUp, DatabaseLeft, IInv, WorldTypeOK
<1>4. /\ pc' = pc
      /\ pc = "sleep" => /\ elapsed \in Nat /\ elapsed < PollInterval /\ elapsed' = elapsed + 1
      /\ pc # "sleep" => ~ DatabaseUp
  <2>1. Lease!Tick /\ (pc = "sleep" \/ ~ DatabaseUp)
    BY DEF Tick
  <2> QED
    BY <2>1 DEF Lease!Tick, Lease!Limit, IInv, TypeOK, Lease!TypeOK
<1>5. UntilLook \in 0 .. PollInterval /\ UntilPass \in 0 .. PollInterval
  BY WaitTypes
<1>6. \/ /\ UntilLook' = UntilLook - 1 /\ UntilPass' = UntilPass - 1
         /\ UntilLook > 0 /\ UntilPass > 0
      \/ ~ DatabaseUp /\ UntilLook' = UntilLook /\ UntilPass = 0 /\ UntilPass' = 0
  BY <1>1, <1>4 DEF UntilLook, UntilPass
<1>7. /\ UntilRenewed = Until(UntilLook, KernelLeft, ~ KernelUp) + DatabaseLeft + kt + rt
      /\ UntilRenewed' = Until(UntilLook', KernelLeft', ~ KernelUp') + DatabaseLeft' + kt + rt
      /\ UntilSuccess = Until(UntilPass, Longest(KernelLeft, DatabaseLeft),
                              ~ (KernelUp /\ DatabaseUp)) + kt + dt
      /\ UntilSuccess' = Until(UntilPass', Longest(KernelLeft', DatabaseLeft'),
                               ~ (KernelUp' /\ DatabaseUp')) + kt + dt
  BY <1>2 DEF UntilRenewed, UntilSuccess, Until
<1> HIDE DEF kt, dt, rt
<1>8. Until(UntilLook', KernelLeft', ~ KernelUp') + DatabaseLeft'
        <= Until(UntilLook, KernelLeft, ~ KernelUp) + DatabaseLeft - 1
  BY <1>1, <1>3, <1>5, <1>6 DEF Until
<1>9. Until(UntilPass', Longest(KernelLeft', DatabaseLeft'), ~ (KernelUp' /\ DatabaseUp'))
        <= Until(UntilPass, Longest(KernelLeft, DatabaseLeft), ~ (KernelUp /\ DatabaseUp)) - 1
  BY <1>1, <1>3, <1>5, <1>6 DEF Until, Longest
<1>10. UntilRenewed \in Nat /\ UntilSuccess \in Nat
  BY WaitTypes
<1> QED
  BY <1>1, <1>2, <1>3, <1>5, <1>6, <1>7, <1>8, <1>9, <1>10 DEF Until, Longest

-----------------------------------------------------------------------------

(* The lease and the heartbeat in numbers.                                 *)
LEMMA LeaseNumbers ==
    IInv => /\ instance_lease \in Int /\ expires_in \in Nat /\ MaxSkew \in Nat
            /\ heartbeat # None => heartbeat \in Nat
BY TypeParts, BoundsAssumption DEF IInv, Lease!TypeOK, Lease!None, PodTypeOK, Age

LEMMA LeaseNumbersNext ==
    (IInv => /\ instance_lease \in Int /\ expires_in \in Nat /\ MaxSkew \in Nat
             /\ heartbeat # None => heartbeat \in Nat)'
BY LeaseNumbers, PTL

(* What outlasts a wait outlasts a shorter one.                            *)
LEMMA OutlastsShorter ==
    \A l \in Int, s, w, v \in Nat : l > s + w /\ v <= w => l > s + v
OBVIOUS

(* A lease that is not touched outlasts a wait that grows no longer.       *)
LEMMA LeaseUntouched ==
    ASSUME IInv, IInv', OutagesCounted', LeaseLasts,
           UNCHANGED <<expires_in, instance_lease>>, UntilRenewed' <= UntilRenewed
    PROVE  LeaseLasts'
<1>1. UntilRenewed \in Nat /\ UntilRenewed' \in Nat
  BY WaitTypes, WaitFactsNext, Zenon
<1>2. instance_lease \in Int /\ MaxSkew \in Nat
  BY LeaseNumbers
<1>3. instance_lease > MaxSkew + UntilRenewed'
  BY <1>1, <1>2, OutlastsShorter, Zenon DEF LeaseLasts
<1>4. /\ instance_lease' = instance_lease
      /\ expires_in' >= instance_lease' - MaxSkew
  BY DEF LeaseLasts
<1> QED
  BY <1>3, <1>4, Zenon DEF LeaseLasts

(* A lease with more than the margin left outlasts any wait.               *)
LEMMA LeaseBeyondMargin ==
    ASSUME HiccupsAreShort, IInv', OutagesCounted',
           expires_in' >= instance_lease' - MaxSkew, instance_lease' > RENEWAL_MARGIN_SECONDS
    PROVE  LeaseLasts'
<1>1. /\ UntilRenewed' \in Nat /\ UntilRenewed' <= LongestUntilRenewed
      /\ LongestUntilRenewed \in Nat
  BY WaitFactsNext, LongestTypes, Zenon
<1>2. /\ RENEWAL_MARGIN_SECONDS >= MaxSkew + LongestUntilRenewed
      /\ RENEWAL_MARGIN_SECONDS \in Nat /\ MaxSkew \in Nat
  BY BoundsAssumption DEF HiccupsAreShort
<1>3. instance_lease' \in Int
  BY LeaseNumbersNext
<1>4. instance_lease' > MaxSkew + LongestUntilRenewed
  BY <1>1, <1>2, <1>3
<1>5. instance_lease' > MaxSkew + UntilRenewed'
  BY <1>1, <1>2, <1>3, <1>4, OutlastsShorter, Zenon
<1> QED
  BY <1>5, Zenon DEF LeaseLasts

(* A try that fails in an outage was counted with it.                      *)
LEMMA UntilStays ==
    ASSUME NEW left \in Nat
    PROVE  Until(PollInterval, left, TRUE) <= Until(0, left, TRUE)
BY BoundsAssumption DEF Until

(* While no outage begins or ends, a wait only changes with the part of    *)
(* the iteration.                                                          *)
LEMMA WaitsFollowLoop ==
    ASSUME IInv, UNCHANGED <<kernel_down, database_down, kernel_outages, database_outages>>
    PROVE  /\ (UntilLook' = UntilLook \/ (~ KernelUp /\ UntilLook = 0 /\ UntilLook' = PollInterval))
                => UntilRenewed' <= UntilRenewed
           /\ (\/ UntilPass' = UntilPass
               \/ ~ (KernelUp /\ DatabaseUp) /\ UntilPass = 0 /\ UntilPass' = PollInterval)
                => UntilSuccess' <= UntilSuccess
<1> DEFINE kt == KernelOutagesToCome(KernelOutageLimit + PollInterval)
           dt == DatabaseOutagesToCome(DatabaseOutageLimit + PollInterval)
           rt == DatabaseOutagesToCome(DatabaseOutageLimit)
           left == Longest(KernelLeft, DatabaseLeft)
           allUp == KernelUp /\ DatabaseUp
<1>1. /\ kt \in Nat /\ dt \in Nat /\ rt \in Nat
      /\ KernelLeft \in Nat /\ DatabaseLeft \in Nat /\ left \in Nat
      /\ UntilLook \in 0 .. PollInterval /\ UntilPass \in 0 .. PollInterval
      /\ UntilRenewed \in Nat /\ UntilSuccess \in Nat
  BY OutageFacts, WaitTypes, BoundsAssumption
<1>2. UNCHANGED <<KernelUp, DatabaseUp, KernelLeft, DatabaseLeft, kt, dt, rt>>
  BY DEF KernelUp, DatabaseUp, KernelLeft, DatabaseLeft, KernelOutagesToCome, DatabaseOutagesToCome
<1>3. /\ UntilRenewed = Until(UntilLook, KernelLeft, ~ KernelUp) + DatabaseLeft + kt + rt
      /\ UntilRenewed' = Until(UntilLook', KernelLeft, ~ KernelUp) + DatabaseLeft + kt + rt
      /\ UntilSuccess = Until(UntilPass, left, ~ allUp) + kt + dt
      /\ UntilSuccess' = Until(UntilPass', left, ~ allUp) + kt + dt
  BY <1>2 DEF UntilRenewed, UntilSuccess, Until, Longest
<1> HIDE DEF kt, dt, rt, left
<1>4. ASSUME UntilLook' = UntilLook
      PROVE  UntilRenewed' <= UntilRenewed
  BY <1>1, <1>3, <1>4
<1>5. ASSUME UntilPass' = UntilPass
      PROVE  UntilSuccess' <= UntilSuccess
  BY <1>1, <1>3, <1>5
<1>6. ASSUME ~ KernelUp, UntilLook = 0, UntilLook' = PollInterval
      PROVE  UntilRenewed' <= UntilRenewed
  BY <1>1, <1>3, <1>6, UntilStays, BoundsAssumption DEF Until
<1>7. ASSUME ~ allUp, UntilPass = 0, UntilPass' = PollInterval
      PROVE  UntilSuccess' <= UntilSuccess
  BY <1>1, <1>3, <1>7, UntilStays, BoundsAssumption DEF Until
<1> QED
  BY <1>4, <1>5, <1>6, <1>7

-----------------------------------------------------------------------------
(* The steps, one by one.                                                  *)

Outages == KernelGoesDown \/ KernelComesUp \/ DatabaseGoesDown \/ DatabaseComesUp

OutagesUnchanged == UNCHANGED <<kernel_down, database_down, kernel_outages, database_outages>>

LEMMA OutagesCountedStep ==
    ASSUME IInv, OutagesCounted, [Next]_vars
    PROVE  OutagesCounted'
<1> USE DEF OutagesCounted, KernelUp, DatabaseUp
<1>1. kernel_outages \in Nat /\ database_outages \in Nat
  BY TypeParts, BoundsAssumption DEF IInv, WorldTypeOK
<1>2. CASE OutagesUnchanged
  BY <1>2 DEF OutagesUnchanged
<1>3. CASE Outages
  BY <1>1, <1>3 DEF Outages, KernelGoesDown, KernelComesUp, DatabaseGoesDown, DatabaseComesUp
<1>4. CASE Tick
  BY <1>4 DEF Tick, Longer
<1> QED
  BY <1>2, <1>3, <1>4
  DEF Next, Run, FromEnv, RenewLeaseIfDue, RenewLease, NothingEligible, Claim, PassFails,
      PassSucceeds, Wake, LivenessProbe, ReadinessProbe, RequestRouted, vars, world,
      OutagesUnchanged, Outages

(* The lease of a process that is up outlasts the outages.                 *)
LEMMA LeaseOutlastsStep ==
    ASSUME HiccupsAreShort, HiccupIInv, IInv', OutagesCounted', [Next]_vars
    PROVE  LeaseOutlasts'
<1> USE DEF HiccupIInv
<1>1. SUFFICES ASSUME up'
               PROVE  in_step' /\ LeaseLasts'
  BY DEF LeaseOutlasts
<1>2. up => in_step /\ LeaseLasts
  BY DEF LeaseOutlasts
<1>num. /\ instance_lease \in Int /\ expires_in \in Nat /\ instance_lease' \in Int
        /\ MaxSkew \in Nat /\ LeaseSeconds \in Nat /\ PollInterval \in Nat
  BY LeaseNumbers, LeaseNumbersNext, BoundsAssumption
<1>fresh. ASSUME expires_in' = LeaseSeconds, instance_lease' \in Lease!ReadByProcess(LeaseSeconds)
          PROVE  LeaseLasts'
  <2>1. LeaseSeconds > RENEWAL_MARGIN_SECONDS + MaxSkew /\ RENEWAL_MARGIN_SECONDS \in Nat
    BY BoundsAssumption DEF HiccupsAreShort
  <2>2. PICK t \in LeaseSeconds - MaxSkew .. LeaseSeconds + MaxSkew : instance_lease' = t
    BY <1>fresh DEF Lease!ReadByProcess
  <2>3. t > RENEWAL_MARGIN_SECONDS /\ LeaseSeconds >= t - MaxSkew
    BY <1>num, <2>1, <2>2
  <2> QED
    BY <1>fresh, <2>2, <2>3, LeaseBeyondMargin
<1>same. ASSUME up, UNCHANGED <<expires_in, instance_lease, in_step>>, OutagesUnchanged,
                UntilLook' = UntilLook \/ (~ KernelUp /\ UntilLook = 0 /\ UntilLook' = PollInterval)
         PROVE  in_step' /\ LeaseLasts'
  BY <1>same, <1>2, WaitsFollowLoop, LeaseUntouched, Zenon DEF OutagesUnchanged
<1>3. CASE FromEnv
  BY <1>3, <1>fresh DEF FromEnv
<1>4. CASE RenewLeaseIfDue
  <2>1. /\ up /\ UNCHANGED <<expires_in, instance_lease, in_step>> /\ OutagesUnchanged
        /\ pc = "renew_lease_if_due"
        /\ \/ instance_lease = Lease!None \/ instance_lease > RENEWAL_MARGIN_SECONDS
           \/ pc' = "renew_lease"
    BY <1>4
    DEF RenewLeaseIfDue, Lease!RenewLeaseIfDue, Lease!At, Lease!Goto, world, OutagesUnchanged
  <2>2. CASE pc' = "renew_lease"
    BY <2>1, <2>2, <1>same DEF UntilLook
  <2>3. CASE instance_lease > RENEWAL_MARGIN_SECONDS
    BY <2>1, <2>3, <1>2, <1>num, LeaseBeyondMargin DEF LeaseLasts
  <2>4. instance_lease # Lease!None
    <3>1. UntilRenewed \in Nat /\ instance_lease > MaxSkew + UntilRenewed
      BY <2>1, <1>2, WaitTypes DEF LeaseLasts
    <3> QED
      BY <3>1, <1>num DEF Lease!None
  <2> QED
    BY <2>1, <2>2, <2>3, <2>4
<1>5. CASE RenewLease
  <2>1. up /\ OutagesUnchanged
    BY <1>5 DEF RenewLease, world, OutagesUnchanged
  <2>2. CASE Lease!Renewed
    BY <2>1, <2>2, <1>2, <1>fresh DEF Lease!Renewed
  <2>3. CASE ~ KernelUp /\ Lease!RequestLost
    <3>1. UNCHANGED <<expires_in, instance_lease, in_step>> /\ pc = "renew_lease" /\ pc' = "work_once"
      BY <2>3 DEF Lease!RequestLost, Lease!At, Lease!Goto
    <3> QED
      BY <2>1, <2>3, <3>1, <1>same DEF UntilLook
  <2>4. ~ Lease!Rejected
    <3>1. UntilRenewed \in Nat /\ in_step
          /\ expires_in >= instance_lease - MaxSkew /\ instance_lease > MaxSkew + UntilRenewed
      BY <2>1, <1>2, WaitTypes DEF LeaseLasts
    <3>2. expires_in > 0
      BY <3>1, <1>num
    <3> QED
      BY <3>1, <3>2, Zenon DEF Lease!Rejected, Lease!Acceptable
  <2>5. ~ Lease!AnswerLost
    BY DEF Lease!AnswerLost, HiccupsAreShort
  <2> QED
    BY <1>5, <2>2, <2>3, <2>4, <2>5 DEF RenewLease
<1>6. CASE NothingEligible \/ PassFails \/ PassSucceeds
  <2>1. /\ up /\ UNCHANGED <<expires_in, instance_lease, in_step>> /\ OutagesUnchanged
        /\ pc = "work_once" /\ pc' = "sleep" /\ elapsed' = 0
    BY <1>6
    DEF NothingEligible, PassFails, PassSucceeds, Lease!WorkOnce, Lease!At, world, OutagesUnchanged
  <2>2. UntilLook' = UntilLook
    BY <2>1, <1>num DEF UntilLook
  <2> QED
    BY <2>1, <2>2, <1>same
<1>7. CASE Wake
  <2>1. /\ up /\ UNCHANGED <<expires_in, instance_lease, in_step>> /\ OutagesUnchanged
        /\ pc = "sleep" /\ elapsed = PollInterval /\ pc' = "renew_lease_if_due"
    BY <1>7 DEF Wake, Lease!Wake, Lease!At, world, OutagesUnchanged
  <2>2. UntilLook' = UntilLook
    BY <2>1, <1>num DEF UntilLook
  <2> QED
    BY <2>1, <2>2, <1>same
<1>8. CASE Claim \/ LivenessProbe \/ ReadinessProbe \/ RequestRouted \/ UNCHANGED vars
  <2>1. UNCHANGED lease /\ OutagesUnchanged /\ up
    BY <1>1, <1>8
    DEF Claim, LivenessProbe, ReadinessProbe, RequestRouted, vars, process, world, OutagesUnchanged
  <2>2. UntilLook' = UntilLook
    BY <2>1 DEF lease, UntilLook
  <2> QED
    BY <2>1, <2>2, <1>same DEF lease
<1>9. CASE Outages
  <2>1. UNCHANGED lease /\ up
    BY <1>1, <1>9
    DEF Outages, KernelGoesDown, KernelComesUp, DatabaseGoesDown, DatabaseComesUp, process
  <2>2. UntilRenewed' <= UntilRenewed
    BY <1>9, <2>1, OutageWaits DEF Outages
  <2> QED
    BY <2>1, <2>2, <1>2, LeaseUntouched DEF lease
<1>10. CASE Tick
  <2>1. up /\ Lease!Tick
    BY <1>1, <1>10 DEF Tick
  <2>2. UntilRenewed \in Nat /\ UntilRenewed' \in Nat /\ UntilRenewed' <= UntilRenewed - 1
    BY <1>10, <2>1, TickWaits, WaitTypes, WaitFactsNext, Zenon
  <2>3. instance_lease > MaxSkew + UntilRenewed /\ expires_in >= instance_lease - MaxSkew
    BY <2>1, <1>2 DEF LeaseLasts
  <2>4. UntilRenewed - 1 \in Nat
    BY <2>2
  <2>5. /\ instance_lease' > MaxSkew + (UntilRenewed - 1)
        /\ expires_in' >= instance_lease' - MaxSkew
    BY <2>1, <2>2, <2>3, <1>num DEF Lease!Tick
  <2>6. instance_lease' > MaxSkew + UntilRenewed'
    BY <2>2, <2>4, <2>5, <1>num, OutlastsShorter, Zenon
  <2>7. in_step'
    BY <2>1, <1>2 DEF Lease!Tick
  <2> QED
    BY <2>5, <2>6, <2>7, Zenon DEF LeaseLasts
<1> QED
  BY <1>3, <1>4, <1>5, <1>6, <1>7, <1>8, <1>9, <1>10 DEF Next, Run, Outages

(* So does its heartbeat, at every point of its passes.                    *)
LEMMA HeartbeatOutlastsStep ==
    ASSUME HiccupsAreShort, HiccupIInv, IInv', OutagesCounted', [Next]_vars
    PROVE  HeartbeatOutlasts'
<1> USE DEF HiccupIInv
<1>1. SUFFICES ASSUME heartbeat' # None
               PROVE  up' /\ heartbeat' + UntilSuccess' <= LIVE_STALE_SECONDS
  BY DEF HeartbeatOutlasts
<1>2. heartbeat # None => up /\ heartbeat + UntilSuccess <= LIVE_STALE_SECONDS
  BY DEF HeartbeatOutlasts
<1>num. /\ heartbeat # None => heartbeat \in Nat
        /\ UntilSuccess \in Nat /\ UntilSuccess' \in Nat
        /\ PollInterval \in Nat /\ LIVE_STALE_SECONDS \in Nat
  BY LeaseNumbers, WaitTypes, WaitFactsNext, BoundsAssumption, Zenon
<1>success. ASSUME heartbeat' = 0
            PROVE  heartbeat' + UntilSuccess' <= LIVE_STALE_SECONDS
  <2>1. LongestUntilSuccess <= LIVE_STALE_SECONDS
    BY LongestTypes, <1>num DEF HiccupsAreShort
  <2>2. UntilSuccess' <= LongestUntilSuccess
    BY WaitFactsNext, Zenon
  <2>3. UntilSuccess' <= LIVE_STALE_SECONDS
    BY <2>1, <2>2, <1>num, LongestTypes
  <2>4. \A u, m \in Nat : u <= m => 0 + u <= m
    OBVIOUS
  <2> QED
    BY <1>success, <2>3, <2>4, <1>num, Zenon
<1>same. ASSUME heartbeat' = heartbeat, UntilSuccess' <= UntilSuccess
         PROVE  heartbeat' + UntilSuccess' <= LIVE_STALE_SECONDS
  BY <1>1, <1>2, <1>num, <1>same
<1>loop. ASSUME OutagesUnchanged,
                \/ UntilPass' = UntilPass
                \/ ~ (KernelUp /\ DatabaseUp) /\ UntilPass = 0 /\ UntilPass' = PollInterval
         PROVE  UntilSuccess' <= UntilSuccess
  BY <1>loop, WaitsFollowLoop, Zenon DEF OutagesUnchanged
<1>3. CASE FromEnv
  BY <1>1, <1>2, <1>3 DEF FromEnv
<1>4. CASE RenewLeaseIfDue \/ RenewLease
  <2>1. UNCHANGED <<up, heartbeat>> /\ OutagesUnchanged
    BY <1>4 DEF RenewLeaseIfDue, RenewLease, process, world, OutagesUnchanged
  <2>2. pc # "sleep" /\ pc' # "sleep"
    BY <1>4
    DEF RenewLeaseIfDue, RenewLease, Lease!RenewLeaseIfDue, Lease!Renewed, Lease!Rejected,
        Lease!RequestLost, Lease!AnswerLost, Lease!At, Lease!Goto
  <2>3. UntilPass' = UntilPass
    BY <2>2 DEF UntilPass
  <2> QED
    BY <1>1, <1>2, <2>1, <2>3, <1>loop, <1>same
<1>5. CASE NothingEligible \/ PassSucceeds
  BY <1>5, <1>success DEF NothingEligible, PassSucceeds, RecordSuccess
<1>6. CASE PassFails
  <2>1. up /\ UNCHANGED <<up, heartbeat>> /\ OutagesUnchanged
    BY <1>6 DEF PassFails, RecordNothing, world, OutagesUnchanged
  <2>2. UntilPass = 0 /\ UntilPass' = PollInterval
    BY <1>6, <1>num DEF PassFails, Lease!WorkOnce, Lease!At, UntilPass
  <2>3. expires_in > 0
    <3>1. /\ expires_in >= instance_lease - MaxSkew /\ instance_lease > MaxSkew + UntilRenewed
          /\ UntilRenewed \in Nat
      BY <2>1, WaitTypes DEF LeaseOutlasts, LeaseLasts
    <3> QED
      BY <3>1, LeaseNumbers
  <2>4. ~ (KernelUp /\ DatabaseUp)
    BY <1>6, <2>3 DEF PassFails, Answered
  <2> QED
    BY <2>1, <2>2, <2>4, <1>loop, <1>same
<1>7. CASE Wake
  <2>1. up /\ UNCHANGED <<up, heartbeat>> /\ OutagesUnchanged
    BY <1>7 DEF Wake, process, world, OutagesUnchanged
  <2>2. UntilPass' = UntilPass
    BY <1>7, <1>num DEF Wake, Lease!Wake, Lease!At, UntilPass
  <2> QED
    BY <2>1, <2>2, <1>loop, <1>same
<1>8. CASE Claim \/ LivenessProbe \/ ReadinessProbe \/ RequestRouted \/ UNCHANGED vars
  <2>1. UNCHANGED <<lease, up, heartbeat>> /\ OutagesUnchanged
    BY <1>1, <1>8
    DEF Claim, LivenessProbe, ReadinessProbe, RequestRouted, vars, process, world, OutagesUnchanged
  <2>2. UntilPass' = UntilPass
    BY <2>1 DEF lease, UntilPass
  <2> QED
    BY <1>1, <1>2, <2>1, <2>2, <1>loop, <1>same
<1>9. CASE Outages
  <2>1. UNCHANGED <<lease, up, heartbeat>>
    BY <1>9
    DEF Outages, KernelGoesDown, KernelComesUp, DatabaseGoesDown, DatabaseComesUp, process
  <2> QED
    BY <1>1, <1>2, <1>9, <2>1, <1>same, OutageWaits DEF Outages
<1>10. CASE Tick
  <2>1. heartbeat' = Older(heartbeat) /\ up' = up
    BY <1>10 DEF Tick
  <2>2. heartbeat # None /\ up
    BY <1>1, <1>2, <2>1 DEF Older
  <2>3. UntilSuccess' <= UntilSuccess - 1
    BY <1>10, <2>2, TickWaits
  <2>4. heartbeat' \in Nat /\ heartbeat' <= heartbeat + 1
    BY <2>1, <2>2, <1>num DEF Older
  <2>5. \A h, g, u, v, m \in Nat : h + u <= m /\ g <= h + 1 /\ v <= u - 1 => g + v <= m
    OBVIOUS
  <2> QED
    BY <1>2, <1>num, <2>1, <2>2, <2>3, <2>4, <2>5, Zenon
<1> QED
  BY <1>3, <1>4, <1>5, <1>6, <1>7, <1>8, <1>9, <1>10 DEF Next, Run, Outages

LEMMA HiccupInit == Init => HiccupIInv
BY InvInit
DEF HiccupIInv, Init, LeaseOutlasts, HeartbeatOutlasts, OutagesCounted, KernelUp, DatabaseUp,
    HiccupsCostNoRestart

LEMMA HiccupStep ==
    ASSUME HiccupsAreShort, HiccupIInv, [Next]_vars
    PROVE  HiccupIInv'
<1>1. IInv'
  BY InvStep DEF HiccupIInv
<1>2. OutagesCounted'
  BY OutagesCountedStep DEF HiccupIInv
<1>3. LeaseOutlasts' /\ HeartbeatOutlasts'
  BY <1>1, <1>2, LeaseOutlastsStep, HeartbeatOutlastsStep
<1>4. up => LiveOk
  <2>1. UntilSuccess \in Nat /\ (heartbeat # None => heartbeat \in Nat)
    BY WaitTypes, LeaseNumbers DEF HiccupIInv
  <2> QED
    BY <2>1, BoundsAssumption DEF HiccupIInv, HeartbeatOutlasts, LiveOk
<1>5. HiccupsCostNoRestart'
  BY <1>4, Zenon
  DEF HiccupIInv, HiccupsCostNoRestart, Next, Run, FromEnv, RenewLeaseIfDue, RenewLease,
      NothingEligible, Claim, PassFails, PassSucceeds, Wake, Tick, LivenessProbe, ReadinessProbe,
      RequestRouted, KernelGoesDown, KernelComesUp, DatabaseGoesDown, DatabaseComesUp, vars, kubelet
<1> QED
  BY <1>1, <1>2, <1>3, <1>5 DEF HiccupIInv

(* While the outages are brief, the lease and the heartbeat outlast them.  *)
THEOREM HiccupInvariance ==
    ASSUME HiccupsAreShort
    PROVE  Spec => []HiccupIInv
<1>1. HiccupIInv /\ [Next]_vars => HiccupIInv'
  BY HiccupStep
<1> QED
  BY <1>1, HiccupInit, PTL DEF Spec

(* Outages that the margin and the liveness threshold cover cost no        *)
(* restart, however many there may be and whenever they come.              *)
THEOREM HiccupsCostNoRestartHolds ==
    ASSUME HiccupsAreShort
    PROVE  Spec => []HiccupsCostNoRestart
<1>1. HiccupIInv => HiccupsCostNoRestart
  BY DEF HiccupIInv
<1> QED
  BY <1>1, HiccupInvariance, PTL

=============================================================================
