---------------------------- MODULE InstanceLease ----------------------------
(***************************************************************************)
(* The renewal of a process's own instance lease (renew_lease_if_due and   *)
(* the loop of `run` in src/lib.rs, src/instance_lease.rs).                *)
(*                                                                         *)
(* The kernel grants a lease of LeaseSeconds and rejects every signed call *)
(* once it is over, the renewal included: a lease that lapsed is gone for  *)
(* the life of the process.  The loop is single-threaded.  It looks at the *)
(* lease once per iteration, so everything else an iteration does (the     *)
(* renewal call, the pass, the sleep) eats into RENEWAL_MARGIN_SECONDS.    *)
(*                                                                         *)
(* Time is discrete and kept as what remains: an expires_at of the code is *)
(* here the number of seconds until it.  The kernel and the process read   *)
(* different clocks, so the two remainders of one lease may differ.        *)
(***************************************************************************)
EXTENDS Integers

CONSTANTS
    LeaseSeconds,    \* kernel: how long a granted lease lasts
    RENEWAL_MARGIN_SECONDS,
    PollInterval,    \* the sleep between two iterations
    MaxPass,         \* bound: what an iteration takes apart from the sleep
    MaxSkew,         \* bound: how far the two clocks are apart
    MaxLost,         \* bound: renewal calls in a row that get no answer
    AnswersGetLost   \* may a renewal be applied and its answer be lost?

VARIABLES
    expires_in,      \* kernel: seconds until the lease is over
    instance_lease,  \* process: its InstanceLease, or None
    in_step,         \* the process knows the kernel's lease_revision
    pc,              \* where the loop is
    elapsed,         \* seconds since the iteration, or the sleep, began
    lost             \* renewal calls without an answer since the last one

ASSUME ConstantsAssumption ==
    /\ LeaseSeconds \in Nat \ {0} /\ RENEWAL_MARGIN_SECONDS \in Nat
    /\ PollInterval \in Nat /\ MaxPass \in Nat
    /\ MaxSkew \in Nat /\ MaxLost \in Nat
    /\ AnswersGetLost \in BOOLEAN

vars == <<expires_in, instance_lease, in_step, pc, elapsed, lost>>

(* Config::instance_lease of a process that did not enroll itself.         *)
None == -1

Loop == {"renew_lease_if_due", "renew_lease", "work_once", "sleep"}

Limit == IF pc = "sleep" THEN PollInterval ELSE MaxPass

TypeOK ==
    /\ expires_in \in 0 .. LeaseSeconds
    /\ instance_lease \in {None} \cup 0 .. LeaseSeconds + MaxSkew
    /\ in_step \in BOOLEAN
    /\ pc \in Loop
    /\ elapsed \in 0 .. Limit
    /\ lost \in 0 .. MaxLost

(* What the process makes of a lease with s seconds left by the kernel's   *)
(* clock, when its own clock is some seconds ahead or behind.              *)
ReadByProcess(s) == {t \in s - MaxSkew .. s + MaxSkew : t >= 0}

(* The first iteration of `run`: from_env enrolled, or did not, and then   *)
(* spent up to MaxPass on subscriptions and the database.                  *)
Init ==
    /\ expires_in \in LeaseSeconds - MaxPass .. LeaseSeconds
    /\ expires_in >= 0
    /\ instance_lease \in {None} \cup ReadByProcess(expires_in)
    /\ in_step = TRUE
    /\ pc = "renew_lease_if_due"
    /\ elapsed = 0
    /\ lost = 0

-----------------------------------------------------------------------------

At(p) == pc = p

(* The next part of the same iteration.                                    *)
Goto(p) == pc' = p /\ UNCHANGED elapsed

(* Mistakes to be caught: renewal is left until the lease is over; the     *)
(* early return is missing and every iteration renews.                     *)
RenewWhenExpired ==
    /\ At("renew_lease_if_due")
    /\ Goto(IF instance_lease = 0 THEN "renew_lease" ELSE "work_once")
    /\ UNCHANGED <<expires_in, instance_lease, in_step, lost>>

RenewEveryIteration ==
    /\ At("renew_lease_if_due")
    /\ Goto(IF instance_lease # None THEN "renew_lease" ELSE "work_once")
    /\ UNCHANGED <<expires_in, instance_lease, in_step, lost>>

RenewLeaseIfDue ==
    /\ At("renew_lease_if_due")
    /\ \/ /\ instance_lease = None \/ instance_lease > RENEWAL_MARGIN_SECONDS
          /\ Goto("work_once")
       \/ /\ instance_lease # None /\ instance_lease <= RENEWAL_MARGIN_SECONDS
          /\ Goto("renew_lease")
    /\ UNCHANGED <<expires_in, instance_lease, in_step, lost>>

(* The kernel renews a lease that is not over, by compare-and-set on its   *)
(* revision, and moves the revision on.                                    *)
Acceptable == expires_in > 0 /\ in_step

(* A mistake to be caught: the grant is added to what was left.            *)
RenewedOnTop ==
    /\ At("renew_lease")
    /\ Acceptable
    /\ expires_in' = LeaseSeconds
    /\ instance_lease' = instance_lease + LeaseSeconds
    /\ lost' = 0
    /\ Goto("work_once")
    /\ UNCHANGED in_step

Renewed ==
    /\ At("renew_lease")
    /\ Acceptable
    /\ expires_in' = LeaseSeconds
    /\ instance_lease' \in ReadByProcess(LeaseSeconds)
    /\ lost' = 0
    /\ Goto("work_once")
    /\ UNCHANGED in_step

(* An Err is logged and instance_lease stays as it was.                    *)
Rejected ==
    /\ At("renew_lease")
    /\ ~ Acceptable
    /\ Goto("work_once")
    /\ UNCHANGED <<expires_in, instance_lease, in_step, lost>>

RequestLost ==
    /\ At("renew_lease")
    /\ lost < MaxLost
    /\ lost' = lost + 1
    /\ Goto("work_once")
    /\ UNCHANGED <<expires_in, instance_lease, in_step>>

AnswerLost ==
    /\ At("renew_lease")
    /\ AnswersGetLost
    /\ lost < MaxLost
    /\ lost' = lost + 1
    /\ Acceptable
    /\ expires_in' = LeaseSeconds
    /\ in_step' = FALSE
    /\ Goto("work_once")
    /\ UNCHANGED instance_lease

RenewLease == Renewed \/ Rejected \/ RequestLost \/ AnswerLost

(* The pass: whatever it does, it keeps the loop for up to MaxPass.        *)
WorkOnce ==
    /\ At("work_once")
    /\ pc' = "sleep"
    /\ elapsed' = 0
    /\ UNCHANGED <<expires_in, instance_lease, in_step, lost>>

Wake ==
    /\ At("sleep")
    /\ elapsed = PollInterval
    /\ pc' = "renew_lease_if_due"
    /\ elapsed' = 0
    /\ UNCHANGED <<expires_in, instance_lease, in_step, lost>>

(* One second less of everything.                                          *)
Tick ==
    /\ elapsed < Limit
    /\ elapsed' = elapsed + 1
    /\ expires_in' = IF expires_in > 0 THEN expires_in - 1 ELSE 0
    /\ instance_lease' = IF instance_lease > 0 THEN instance_lease - 1 ELSE instance_lease
    /\ UNCHANGED <<in_step, pc, lost>>

Next == RenewLeaseIfDue \/ RenewLease \/ WorkOnce \/ Wake \/ Tick

Spec == Init /\ [][Next]_vars

-----------------------------------------------------------------------------

(* "Renewing this early leaves several poll cycles' worth of retry room if *)
(* a renewal call transiently fails": a process that enrolled itself never *)
(* loses its lease, and with it every signed call, to slow passes, clocks  *)
(* that differ or renewals that are retried ...                            *)
LeaseNeverLapses == instance_lease # None => expires_in > 0

(* ... as far as the code goes: while the process has the revision that    *)
(* the next renewal needs.                                                 *)
LeaseKeptInStep == (instance_lease # None /\ in_step) => expires_in > 0

(* "Without renewing so aggressively that it adds meaningful volume": a    *)
(* lease is extended only in its last stretch, at most once per lease.     *)
RenewsLateInTheLease ==
    [][(expires_in' > expires_in) => expires_in <= RENEWAL_MARGIN_SECONDS + MaxSkew]_vars

-----------------------------------------------------------------------------
(* The inductive invariant of LeaseKeptInStep.                             *)

(* From one look at the lease to the next.                                 *)
Round == MaxPass + PollInterval

(* The time that may still go by before a renewal is answered, if every    *)
(* call that may be lost is.                                               *)
LongestWait ==
    CASE pc \in {"renew_lease_if_due", "renew_lease"} ->
            MaxPass - elapsed + (MaxLost - lost) * Round
      [] pc = "work_once" -> MaxPass - elapsed + (MaxLost - lost + 1) * Round
      [] pc = "sleep" -> PollInterval - elapsed + MaxPass + (MaxLost - lost) * Round

(* The kernel's remainder and the process's are within MaxSkew, and the    *)
(* process has not slept through its margin.                               *)
EnoughLeft ==
    (instance_lease # None /\ in_step) =>
        /\ expires_in >= instance_lease - MaxSkew
        /\ instance_lease > MaxSkew + LongestWait

IInv == TypeOK /\ EnoughLeft

(* What the margin must cover.                                             *)
MarginSuffices ==
    /\ RENEWAL_MARGIN_SECONDS >= MaxSkew + MaxPass + (MaxLost + 1) * Round
    /\ LeaseSeconds > RENEWAL_MARGIN_SECONDS + 2 * MaxSkew + MaxPass

-----------------------------------------------------------------------------
(* The inductive invariant of RenewsLateInTheLease.                        *)

(* While it knows the revision, the process does not believe in less of    *)
(* the lease than there is, but for the clocks.                            *)
NotTooEarly == (instance_lease # None /\ in_step) => expires_in <= instance_lease + MaxSkew

RenewsWhenDue ==
    pc = "renew_lease" => instance_lease # None /\ instance_lease <= RENEWAL_MARGIN_SECONDS

LateIInv == TypeOK /\ NotTooEarly /\ RenewsWhenDue

=============================================================================
