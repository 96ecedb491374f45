------------------------------- MODULE Health -------------------------------
(***************************************************************************)
(* One Pod: startup (Config::from_env, src/main.rs), the loop of `run`     *)
(* with its instance lease, the heartbeat and the probes of src/health.rs, *)
(* and the kubelet that restarts the process (k8s/base/deployment.yaml).   *)
(*                                                                         *)
(* The module composes InstanceLease with what the passes depend on: the   *)
(* kernel, and the database once a route was claimed.  A pass that needs   *)
(* the database while it is away sits in the pool's `get` for PoolTimeout; *)
(* everything else a pass does takes no time here.  What happens at one    *)
(* moment happens in any order, and time goes on when all of it is done.   *)
(*                                                                         *)
(* Every expires_at, heartbeat and deadline is kept as its distance from   *)
(* now, in units of one poll interval.                                     *)
(***************************************************************************)
EXTENDS Integers

CONSTANTS
    LeaseSeconds, RENEWAL_MARGIN_SECONDS, PollInterval, MaxSkew, MaxLost, AnswersGetLost,
    PoolTimeout,         \* r2d2: how long `get` waits for a connection
    READY_STALE_SECONDS,
    LIVE_STALE_SECONDS,
    LivenessPeriod,      \* deployment: livenessProbe.periodSeconds
    FailureThreshold,    \* kubelet: probes in a row that must fail
    MaxRequests,         \* bound: requests that arrive
    MaxKernelOutages, MaxDatabaseOutages,      \* bounds: how often
    KernelOutageLimit, DatabaseOutageLimit     \* bounds: how long

VARIABLES
    expires_in, instance_lease, in_step, pc, elapsed, lost,  \* InstanceLease
    up,                 \* from_env succeeded, the health server answers
    heartbeat,          \* time since the last recorded success, or None
    waiting,            \* the pass has claimed a route and needs the database
    eligible,           \* kernel: number of eligible routes
    kernel_down,        \* 0, or 1 + the time it has been down
    database_down,      \* likewise
    live_probe_in,      \* kubelet: time to the next liveness probe
    ready_probe_due,    \* kubelet: the readiness probe of this moment
    live_failures,      \* kubelet: probes in a row that failed
    ready_failures,
    ready,              \* kubelet: the Pod is Ready
    restarted,          \* history: the liveness probe has cost a restart
    requests, kernel_outages, database_outages   \* how many there were

Lease == INSTANCE InstanceLease WITH MaxPass <- PoolTimeout

ASSUME BoundsAssumption ==
    /\ LeaseSeconds \in Nat \ {0} /\ RENEWAL_MARGIN_SECONDS \in Nat /\ PollInterval \in Nat
    /\ MaxSkew \in Nat /\ MaxLost \in Nat /\ AnswersGetLost \in BOOLEAN
    /\ PoolTimeout \in Nat /\ READY_STALE_SECONDS \in Nat /\ LIVE_STALE_SECONDS \in Nat
    /\ LivenessPeriod \in Nat \ {0} /\ FailureThreshold \in Nat \ {0}
    /\ MaxRequests \in Nat /\ MaxKernelOutages \in Nat /\ MaxDatabaseOutages \in Nat
    /\ KernelOutageLimit \in Nat /\ DatabaseOutageLimit \in Nat

None == Lease!None

lease == <<expires_in, instance_lease, in_step, pc, elapsed, lost>>
process == <<up, heartbeat, waiting>>
kubelet == <<live_probe_in, ready_probe_due, live_failures, ready_failures, ready, restarted>>
world == <<eligible, kernel_down, database_down, requests, kernel_outages, database_outages>>
vars == <<lease, process, kubelet, world>>

KernelUp == kernel_down = 0
DatabaseUp == database_down = 0

(* Heartbeat::age: the time since the last recorded success, if any.       *)
Age == {None} \cup Nat

TypeOK ==
    /\ Lease!TypeOK
    /\ up \in BOOLEAN /\ waiting \in BOOLEAN
    /\ heartbeat \in Age
    /\ eligible \in 0 .. MaxRequests
    /\ kernel_down \in 0 .. KernelOutageLimit + 1
    /\ database_down \in 0 .. DatabaseOutageLimit + 1
    /\ live_probe_in \in 0 .. LivenessPeriod
    /\ live_failures \in 0 .. FailureThreshold
    /\ ready_failures \in 0 .. FailureThreshold
    /\ ready_probe_due \in BOOLEAN /\ ready \in BOOLEAN /\ restarted \in BOOLEAN
    /\ requests \in 0 .. MaxRequests
    /\ kernel_outages \in 0 .. MaxKernelOutages
    /\ database_outages \in 0 .. MaxDatabaseOutages

Init ==
    /\ Lease!Init /\ expires_in = LeaseSeconds /\ instance_lease # None
    /\ up = FALSE
    /\ heartbeat = None
    /\ waiting = FALSE
    /\ eligible = 0
    /\ kernel_down = 0 /\ database_down = 0
    /\ live_probe_in = LivenessPeriod
    /\ ready_probe_due = TRUE
    /\ live_failures = 0 /\ ready_failures = 0
    /\ ready = FALSE
    /\ restarted = FALSE
    /\ requests = 0 /\ kernel_outages = 0 /\ database_outages = 0

-----------------------------------------------------------------------------
(* The process.                                                            *)

(* from_env enrolls, subscribes and connects; without the kernel or the    *)
(* database main exits, and is started again.                              *)
FromEnv ==
    /\ ~ up
    /\ KernelUp /\ DatabaseUp
    /\ up' = TRUE
    /\ expires_in' = LeaseSeconds /\ instance_lease' \in Lease!ReadByProcess(LeaseSeconds)
    /\ in_step' = TRUE
    /\ pc' = "renew_lease_if_due"
    /\ elapsed' = 0 /\ lost' = 0
    /\ UNCHANGED <<heartbeat, waiting, kubelet, world>>

RenewLeaseIfDue ==
    /\ up
    /\ Lease!RenewLeaseIfDue
    /\ UNCHANGED <<process, kubelet, world>>

RenewLease ==
    /\ up
    /\ \/ KernelUp /\ Lease!Renewed
       \/ KernelUp /\ Lease!AnswerLost
       \/ Lease!Rejected
       \/ ~ KernelUp /\ Lease!RequestLost
    /\ UNCHANGED <<process, kubelet, world>>

(* The kernel answers a signed call.                                       *)
Answered == KernelUp /\ expires_in > 0

RecordSuccess == heartbeat' = 0
RecordNothing == UNCHANGED heartbeat

(* A mistake to be caught: only a pass that completed something counts.    *)
NothingEligibleUnrecorded ==
    /\ up /\ ~ waiting
    /\ Answered /\ eligible = 0
    /\ Lease!WorkOnce
    /\ RecordNothing
    /\ UNCHANGED <<up, waiting, kubelet, world>>

(* Ok(NothingEligible).                                                    *)
NothingEligible ==
    /\ up /\ ~ waiting
    /\ Answered /\ eligible = 0
    /\ Lease!WorkOnce
    /\ RecordSuccess
    /\ UNCHANGED <<up, waiting, kubelet, world>>

(* A mistake to be caught: an empty list has a first route.                *)
ClaimWithoutLooking ==
    /\ up /\ ~ waiting /\ pc = "work_once"
    /\ Answered
    /\ waiting' = TRUE
    /\ eligible' = eligible - 1
    /\ UNCHANGED <<lease, up, heartbeat, kubelet, kernel_down, database_down, requests,
                   kernel_outages, database_outages>>

(* The pass has claimed the first route and asks for a connection.  If it  *)
(* fails, the route is eligible again when the claim runs out: that is as  *)
(* good as one more RequestRouted.                                         *)
Claim ==
    /\ up /\ ~ waiting /\ pc = "work_once"
    /\ Answered /\ eligible > 0
    /\ waiting' = TRUE
    /\ eligible' = eligible - 1
    /\ UNCHANGED <<lease, up, heartbeat, kubelet, kernel_down, database_down, requests,
                   kernel_outages, database_outages>>

(* A mistake to be caught: a failed pass counts as a sign of life.         *)
PassFailsRecorded ==
    /\ up
    /\ \/ ~ waiting /\ ~ Answered
       \/ waiting /\ DatabaseUp /\ ~ Answered
       \/ waiting /\ ~ DatabaseUp /\ elapsed = PoolTimeout
    /\ Lease!WorkOnce
    /\ RecordSuccess
    /\ waiting' = FALSE
    /\ UNCHANGED <<up, kubelet, world>>

(* Err: a call is rejected or gets no answer, before or after the work is  *)
(* done, or the pool gives up.                                             *)
PassFails ==
    /\ up
    /\ \/ ~ waiting /\ ~ Answered
       \/ waiting /\ DatabaseUp /\ ~ Answered
       \/ waiting /\ ~ DatabaseUp /\ elapsed = PoolTimeout
    /\ Lease!WorkOnce
    /\ RecordNothing
    /\ waiting' = FALSE
    /\ UNCHANGED <<up, kubelet, world>>

(* Any other Ok: the work is done and complete_claim was answered.         *)
PassSucceeds ==
    /\ up /\ waiting
    /\ DatabaseUp /\ Answered
    /\ Lease!WorkOnce
    /\ RecordSuccess
    /\ waiting' = FALSE
    /\ UNCHANGED <<up, kubelet, world>>

Wake ==
    /\ up
    /\ Lease!Wake
    /\ UNCHANGED <<process, kubelet, world>>

Run == \/ RenewLeaseIfDue \/ RenewLease \/ NothingEligible \/ Claim
       \/ PassFails \/ PassSucceeds \/ Wake

-----------------------------------------------------------------------------
(* The probes.                                                             *)

(* A mistake to be caught: who answers is alive, the loop is not asked.    *)
LiveOkServerOnly == up

(* evaluate("/health/live", ...) is 200 OK.                                *)
LiveOk == heartbeat = None \/ heartbeat <= LIVE_STALE_SECONDS

(* A mistake to be caught: only the database is asked, as it used to be.   *)
ReadyOkDatabaseOnly == DatabaseUp

(* evaluate("/health/ready", ...) is 200 OK.                               *)
ReadyOk == DatabaseUp /\ heartbeat # None /\ heartbeat <= READY_STALE_SECONDS

(* Kubelet: GET /health/live.  A process that is still in from_env does    *)
(* not listen; after FailureThreshold failures it is killed.               *)
LivenessProbe ==
    /\ live_probe_in = 0
    /\ live_probe_in' = LivenessPeriod
    /\ \/ /\ up /\ LiveOk
          /\ live_failures' = 0
          /\ UNCHANGED <<up, heartbeat, waiting, ready, restarted>>
       \/ /\ ~ (up /\ LiveOk)
          /\ live_failures + 1 < FailureThreshold
          /\ live_failures' = live_failures + 1
          /\ UNCHANGED <<up, heartbeat, waiting, ready, restarted>>
       \/ /\ ~ (up /\ LiveOk)
          /\ live_failures + 1 = FailureThreshold
          /\ live_failures' = 0
          /\ up' = FALSE /\ heartbeat' = None /\ waiting' = FALSE
          /\ ready' = FALSE
          /\ restarted' = (up \/ restarted)
    /\ UNCHANGED <<lease, ready_probe_due, ready_failures, world>>

(* Kubelet: GET /health/ready.                                             *)
ReadinessProbe ==
    /\ ready_probe_due
    /\ ready_probe_due' = FALSE
    /\ \/ /\ up /\ ReadyOk
          /\ ready' = TRUE
          /\ ready_failures' = 0
       \/ /\ ~ (up /\ ReadyOk)
          /\ ready_failures + 1 < FailureThreshold
          /\ ready_failures' = ready_failures + 1
          /\ UNCHANGED ready
       \/ /\ ~ (up /\ ReadyOk)
          /\ ready_failures + 1 >= FailureThreshold
          /\ ready' = FALSE
          /\ UNCHANGED ready_failures
    /\ UNCHANGED <<lease, process, live_probe_in, live_failures, restarted, world>>

-----------------------------------------------------------------------------
(* The world.                                                              *)

RequestRouted ==
    /\ requests < MaxRequests
    /\ requests' = requests + 1
    /\ eligible' = eligible + 1
    /\ UNCHANGED <<lease, process, kubelet, kernel_down, database_down,
                   kernel_outages, database_outages>>

KernelGoesDown ==
    /\ KernelUp /\ kernel_outages < MaxKernelOutages
    /\ kernel_down' = 1
    /\ kernel_outages' = kernel_outages + 1
    /\ UNCHANGED <<lease, process, kubelet, eligible, database_down, requests, database_outages>>

KernelComesUp ==
    /\ ~ KernelUp
    /\ kernel_down' = 0
    /\ UNCHANGED <<lease, process, kubelet, eligible, database_down, requests,
                   kernel_outages, database_outages>>

DatabaseGoesDown ==
    /\ DatabaseUp /\ database_outages < MaxDatabaseOutages
    /\ database_down' = 1
    /\ database_outages' = database_outages + 1
    /\ UNCHANGED <<lease, process, kubelet, eligible, kernel_down, requests, kernel_outages>>

DatabaseComesUp ==
    /\ ~ DatabaseUp
    /\ database_down' = 0
    /\ UNCHANGED <<lease, process, kubelet, eligible, kernel_down, requests,
                   kernel_outages, database_outages>>

Older(age) == IF age = None THEN None ELSE age + 1
Longer(outage) == IF outage = 0 THEN 0 ELSE outage + 1

(* Time goes on when the loop sleeps or waits for the pool, every probe    *)
(* that is due has been made and no outage is over its limit.              *)
Tick ==
    /\ \/ ~ up /\ UNCHANGED lease
       \/ up /\ (pc = "sleep" \/ (waiting /\ ~ DatabaseUp)) /\ Lease!Tick
    /\ live_probe_in > 0 /\ ~ ready_probe_due
    /\ kernel_down <= KernelOutageLimit /\ database_down <= DatabaseOutageLimit
    /\ heartbeat' = Older(heartbeat)
    /\ live_probe_in' = live_probe_in - 1
    /\ ready_probe_due' = TRUE
    /\ kernel_down' = Longer(kernel_down)
    /\ database_down' = Longer(database_down)
    /\ UNCHANGED <<up, waiting, live_failures, ready_failures, ready, restarted, eligible,
                   requests, kernel_outages, database_outages>>

Next ==
    \/ FromEnv \/ Run \/ Tick
    \/ LivenessProbe \/ ReadinessProbe
    \/ RequestRouted
    \/ KernelGoesDown \/ KernelComesUp \/ DatabaseGoesDown \/ DatabaseComesUp

Spec == Init /\ [][Next]_vars

(* The process runs, the kubelet probes and time goes on; at any moment    *)
(* there is only so much to do.  A container that exited is started again. *)
(* Outages end.                                                            *)
Fairness ==
    /\ WF_vars(Run \/ LivenessProbe \/ ReadinessProbe \/ Tick)
    /\ WF_vars(FromEnv)
    /\ WF_vars(KernelComesUp) /\ WF_vars(DatabaseComesUp)

FairSpec == Spec /\ Fairness

-----------------------------------------------------------------------------

(* "A restart throws away a working enrollment, so it must not be the      *)
(* response to a brief hiccup": outages of the kernel and of the database  *)
(* within the limits never cost a restart by way of the heartbeat, nor by  *)
(* way of a lease that could not be renewed meanwhile.                     *)
HiccupsCostNoRestart == ~ restarted

(* A Pod is only Ready while its loop gets through to the kernel: the last *)
(* success is at most the stale threshold and the probes that must fail    *)
(* ago, also when the lease has lapsed and every call is rejected.         *)
ReadyMeansRecentPass ==
    ready => /\ up
             /\ heartbeat # None
             /\ heartbeat <= READY_STALE_SECONDS + FailureThreshold

(* "The loop 401s forever while [...] Kubernetes reports a healthy         *)
(* container" does not happen to a process that ever completed a pass: by  *)
(* the stale threshold and the probes in a row that must fail, its next    *)
(* pass has succeeded or another process has taken its place, whatever the *)
(* reason (lease, kernel, database) and however long the outages.          *)
StuckLoopIsReplaced ==
    heartbeat # None =>
        heartbeat <= LIVE_STALE_SECONDS + FailureThreshold * LivenessPeriod

LockedOut == up /\ expires_in = 0
Enrolled == up /\ expires_in > 0

(* "Restarting repairs an expired lease": a process that ever completed a  *)
(* pass and then lost its lease is replaced by one that enrolls again.     *)
LockoutEndsAfterFirstPass == (LockedOut /\ heartbeat # None) ~> Enrolled

(* The same of every process that lost its lease.                          *)
LockoutEnds == LockedOut ~> Enrolled

(* "Liveness deliberately checks only the kernel heartbeat, never the      *)
(* database": while the kernel has never been away, nothing that happens   *)
(* to the database triggers a restart.                                     *)
DatabaseNeverTriggersRestart == restarted => kernel_outages > 0

-----------------------------------------------------------------------------
(* The inductive invariant.                                                *)

Due == IF ready_probe_due THEN 1 ELSE 0

(* A Ready Pod has heard from its loop, and its heartbeat has only aged    *)
(* over the threshold by probes that failed, one for each moment.          *)
ReadyCountsProbes ==
    /\ ready_failures < FailureThreshold
    /\ ready => /\ up
                /\ heartbeat # None
                /\ heartbeat <= READY_STALE_SECONDS + ready_failures + Due

(* The list the kernel gives has no route that was not routed.             *)
RoutesWereRouted == eligible <= requests

IInv == TypeOK /\ ReadyCountsProbes /\ RoutesWereRouted

(* A heartbeat over the threshold has aged by the probes that failed, a    *)
(* period for each, and by the time since the last of them.                *)
SilenceIsCounted ==
    /\ live_failures < FailureThreshold
    /\ heartbeat # None =>
        heartbeat <= LIVE_STALE_SECONDS + live_failures * LivenessPeriod
                        + (LivenessPeriod - live_probe_in)

-----------------------------------------------------------------------------
(* The inductive invariant of HiccupsCostNoRestart: how long the lease and *)
(* the heartbeat still have to last if every outage that may come does.    *)

KernelLeft == IF KernelUp THEN 0 ELSE KernelOutageLimit + 1 - kernel_down
DatabaseLeft == IF DatabaseUp THEN 0 ELSE DatabaseOutageLimit + 1 - database_down
Longest(left1, left2) == IF left1 >= left2 THEN left1 ELSE left2

(* Who tries in s and then once per poll interval gets through by then:    *)
(* the last try that fails is made before the outage is over.              *)
Until(s, left, down) == IF down /\ left >= s THEN left + PollInterval ELSE s

(* The outages that have not begun, when each one costs so much.           *)
KernelOutagesToCome(cost) == (MaxKernelOutages - kernel_outages) * cost
DatabaseOutagesToCome(cost) == (MaxDatabaseOutages - database_outages) * cost

(* To the next look at the lease, not counting a wait for the pool.        *)
UntilLook ==
    CASE pc = "sleep" -> PollInterval - elapsed
      [] pc = "work_once" -> PollInterval
      [] OTHER -> 0

UntilRenewed ==
    Until(UntilLook, KernelLeft, ~ KernelUp) + DatabaseLeft
        + KernelOutagesToCome(KernelOutageLimit + PollInterval)
        + DatabaseOutagesToCome(DatabaseOutageLimit)

UntilPass == IF pc = "sleep" THEN PollInterval - elapsed ELSE 0

UntilSuccess ==
    Until(UntilPass, Longest(KernelLeft, DatabaseLeft), ~ (KernelUp /\ DatabaseUp))
        + KernelOutagesToCome(KernelOutageLimit + PollInterval)
        + DatabaseOutagesToCome(DatabaseOutageLimit + PollInterval)

LeaseLasts ==
    /\ expires_in >= instance_lease - MaxSkew
    /\ instance_lease > MaxSkew + UntilRenewed

LeaseOutlasts == up => in_step /\ LeaseLasts

HeartbeatOutlasts ==
    heartbeat # None => up /\ heartbeat + UntilSuccess <= LIVE_STALE_SECONDS

OutagesCounted ==
    /\ ~ KernelUp => kernel_outages > 0
    /\ ~ DatabaseUp => database_outages > 0

HiccupIInv ==
    /\ IInv
    /\ LeaseOutlasts
    /\ HeartbeatOutlasts
    /\ OutagesCounted
    /\ HiccupsCostNoRestart

(* With every outage still to come, one after the other.                   *)
LongestUntilRenewed ==
    PollInterval + MaxKernelOutages * (KernelOutageLimit + PollInterval)
        + MaxDatabaseOutages * DatabaseOutageLimit

LongestUntilSuccess ==
    PollInterval + MaxKernelOutages * (KernelOutageLimit + PollInterval)
        + MaxDatabaseOutages * (DatabaseOutageLimit + PollInterval)

(* What the margin, the lease and the liveness threshold must cover: a     *)
(* pass that fails adds a poll interval to the outage it fell into.        *)
HiccupsAreShort ==
    /\ ~ AnswersGetLost
    /\ RENEWAL_MARGIN_SECONDS >= MaxSkew + LongestUntilRenewed
    /\ LeaseSeconds > RENEWAL_MARGIN_SECONDS + MaxSkew
    /\ LIVE_STALE_SECONDS >= LongestUntilSuccess

=============================================================================
