------------------------------- MODULE RunLoop -------------------------------
(***************************************************************************)
(* The loop of `run` (src/lib.rs) over time: the renewal of its instance   *)
(* lease (InstanceLease) together with what its passes do to the queue of  *)
(* routed requests and to the heartbeat.                                   *)
(*                                                                         *)
(* A pass takes the oldest eligible route and no other.  A request that    *)
(* can never be performed (poison: blank content, a scope or request_id    *)
(* that does not parse, a document that does not exist) fails its pass,    *)
(* keeps its claim until that is over and is then the oldest again.  It    *)
(* neither gives way nor ends, so what younger routes and the heartbeat    *)
(* live on is that a claim outlasts the passes over all the others.        *)
(*                                                                         *)
(* WorkLoop has the calls of a pass one by one; here a pass is one step,   *)
(* and the seconds count.                                                  *)
(***************************************************************************)
EXTENDS InstanceLease, FiniteSets

CONSTANTS
    RouteCount,             \* bound: routes, named by their age
    CLAIM_LEASE_SECONDS,
    MaxHiccups              \* bound: calls of passes that fail or are lost

VARIABLES
    route,       \* kernel: what each route asks for, or that it is completed
    held,        \* kernel: seconds until the claim on it is over
    taken,       \* history: routes taken by passes while this one was eligible
    waited,      \* history: seconds a route has been eligible for
    failures,    \* history: passes since the last that recorded a success
    heartbeat,   \* process: seconds since that, or since the loop began
    hiccups

ASSUME RunLoopAssumption ==
    /\ RouteCount \in Nat /\ MaxHiccups \in Nat /\ CLAIM_LEASE_SECONDS \in Nat

queue == <<route, held, taken, waited, failures, heartbeat, hiccups>>

Route == 1 .. RouteCount

(* What becomes of a request: it can be performed, never, or the kernel    *)
(* does not give it out.                                                   *)
Kind == {"performable", "poison", "unavailable"}

QueueTypeOK ==
    /\ route \in [Route -> Kind \cup {"absent", "completed"}]
    /\ held \in [Route -> 0 .. CLAIM_LEASE_SECONDS]
    /\ taken \in [Route -> SUBSET Route]
    /\ waited \in [Route -> Nat]
    /\ failures \in Nat /\ heartbeat \in Nat
    /\ hiccups \in 0 .. MaxHiccups

RunInit ==
    /\ Init
    /\ route = [r \in Route |-> "absent"]
    /\ held = [r \in Route |-> 0]
    /\ taken = [r \in Route |-> {}]
    /\ waited = [r \in Route |-> 0]
    /\ failures = 0 /\ heartbeat = 0
    /\ hiccups = 0

-----------------------------------------------------------------------------

Eligible == {r \in Route : route[r] \in Kind /\ held[r] = 0}

(* A mistake to be caught: the list is taken to begin with the youngest.   *)
Youngest(r) == r \in Eligible /\ \A q \in Eligible : r >= q

(* eligible_routes is ordered by age and the pass takes its first.         *)
Oldest(r) == r \in Eligible /\ \A q \in Eligible : r <= q

(* What the pass takes, the others that were eligible have waited for.     *)
Take(r) ==
    /\ taken' = [q \in Route |-> IF q = r THEN {}
                                 ELSE IF q \in Eligible THEN taken[q] \cup {r} ELSE taken[q]]
    /\ waited' = [waited EXCEPT ![r] = 0]

Claim(r) == held' = [held EXCEPT ![r] = CLAIM_LEASE_SECONDS]

RecordSuccess == failures' = 0 /\ heartbeat' = 0
NoSuccess == failures' = failures + 1 /\ UNCHANGED heartbeat

(* A mistake to be caught: an empty queue is no success.                   *)
NothingEligibleUnrecorded ==
    /\ Eligible = {}
    /\ NoSuccess
    /\ UNCHANGED <<route, held, taken, waited, hiccups>>

NothingEligible ==
    /\ Eligible = {}
    /\ RecordSuccess
    /\ UNCHANGED <<route, held, taken, waited, hiccups>>

(* Claimed, performed, completed.                                          *)
Performed(r) ==
    /\ Oldest(r)
    /\ route[r] = "performable"
    /\ route' = [route EXCEPT ![r] = "completed"]
    /\ Take(r)
    /\ RecordSuccess
    /\ UNCHANGED <<held, hiccups>>

(* A mistake to be caught: the claim of a request that failed is given up. *)
RefusedReleasing(r) ==
    /\ Oldest(r)
    /\ route[r] = "poison"
    /\ Take(r)
    /\ NoSuccess
    /\ UNCHANGED <<route, held, hiccups>>

(* Claimed; dispatch returns an error, and the claim stays.                *)
Refused(r) ==
    /\ Oldest(r)
    /\ route[r] = "poison"
    /\ Claim(r)
    /\ Take(r)
    /\ NoSuccess
    /\ UNCHANGED <<route, hiccups>>

(* Claimed; there is no such request, and the claim stays.                 *)
RequestUnavailable(r) ==
    /\ Oldest(r)
    /\ route[r] = "unavailable"
    /\ Claim(r)
    /\ Take(r)
    /\ RecordSuccess
    /\ UNCHANGED <<route, hiccups>>

(* A call of the pass fails: before there is a claim, after that, or after *)
(* the completion.                                                         *)
Hiccup ==
    /\ hiccups < MaxHiccups
    /\ hiccups' = hiccups + 1
    /\ NoSuccess
    /\ \/ UNCHANGED <<route, held, taken, waited>>
       \/ \E r \in Eligible :
            /\ Oldest(r)
            /\ Take(r)
            /\ \/ Claim(r) /\ UNCHANGED route
               \/ /\ route[r] = "performable"
                  /\ route' = [route EXCEPT ![r] = "completed"]
                  /\ UNCHANGED held

Outcome ==
    \/ NothingEligible
    \/ \E r \in Route : Performed(r) \/ Refused(r) \/ RequestUnavailable(r)
    \/ Hiccup

(* Without a lease every pass is rejected; Health has what follows.        *)
Pass ==
    /\ WorkOnce
    /\ \/ expires_in > 0 /\ Outcome
       \/ expires_in = 0 /\ UNCHANGED queue

(* The process has the lease and the revision that the next renewal needs. *)
Owned == instance_lease # None /\ in_step

(* One second less of every claim, too, an older heartbeat and more time   *)
(* to have waited.  Without its lease the loop gets nothing done any more: *)
(* these two are only counted until then.                                  *)
RunTick ==
    /\ Tick
    /\ held' = [r \in Route |-> IF held[r] > 0 THEN held[r] - 1 ELSE 0]
    /\ heartbeat' = IF Owned THEN heartbeat + 1 ELSE heartbeat
    /\ waited' = [r \in Route |-> IF r \in Eligible /\ Owned THEN waited[r] + 1
                                  ELSE waited[r]]
    /\ UNCHANGED <<route, taken, failures, hiccups>>

(* The kernel routes another request.                                      *)
RequestRouted ==
    /\ \E r \in Route : \E kind \in Kind :
         /\ \A q \in Route : (route[q] = "absent") <=> (q >= r)
         /\ route' = [route EXCEPT ![r] = kind]
    /\ UNCHANGED <<vars, held, taken, waited, failures, heartbeat, hiccups>>

RunNext ==
    \/ (RenewLeaseIfDue \/ RenewLease \/ Wake) /\ UNCHANGED queue
    \/ Pass
    \/ RunTick
    \/ RequestRouted

RunSpec == RunInit /\ [][RunNext]_<<vars, queue>>

-----------------------------------------------------------------------------

(* "The first element is the oldest eligible route", and it is all a pass  *)
(* looks at: still, while the process keeps its lease, no older route is   *)
(* taken twice before a younger one that was eligible all the time, so     *)
(* requests that fail for ever starve nobody.                              *)
OlderRoutesTakeOneTurn ==
    Owned => \A r \in Eligible : taken[r] \cap Eligible = {}

(* "Poll cycle" after poll cycle a route gets nearer to its own: it waits   *)
(* one round for each older route, each failed call and itself, however    *)
(* many of the older ones fail for ever and come back.                     *)
TurnComesInTime ==
    Owned => \A r \in Eligible : waited[r] <= (r + hiccups) * Round

Poison == {r \in Route : route[r] = "poison"}

(* "Only an error lets it go stale": poison fails its passes one after the *)
(* other, but the heartbeat then gets its turn.  Its age is never more     *)
(* than one round for each poison route and each failed call, and the      *)
(* round of the pass that succeeds.                                        *)
HeartbeatKeepsBeating ==
    Owned => heartbeat <= (Cardinality(Poison) + hiccups + 1) * Round

-----------------------------------------------------------------------------
(* The inductive invariants of the three.                                  *)

(* What CLAIM_LEASE_SECONDS must cover.                                    *)
ClaimSuffices == CLAIM_LEASE_SECONDS > (RouteCount + MaxHiccups) * Round

(* Seconds until the next pass has begun, at most.                         *)
PassWait ==
    IF pc = "sleep" THEN PollInterval - elapsed + MaxPass ELSE MaxPass - elapsed

(* Held over the next n passes and until the one after them.               *)
HeldOver(q, n) == held[q] > PassWait + n * Round

(* The older routes that may still go before r, and the calls that fail.   *)
Before(r) == Cardinality((1 .. r - 1) \ taken[r]) + (MaxHiccups - hiccups)

TakenStaysAway ==
    Owned =>
        \A r \in Eligible : \A q \in taken[r] :
            route[q] = "completed" \/ HeldOver(q, Before(r))

(* The poison refused since the last success.                              *)
FailuresExplained ==
    Owned =>
        \E S \in SUBSET Poison :
            /\ failures <= Cardinality(S) + hiccups
            /\ \A q \in S : HeldOver(q, Cardinality(Route \ S) + (MaxHiccups - hiccups))

QueueIInv ==
    /\ QueueTypeOK
    /\ pc = "renew_lease" => instance_lease # None
    /\ \A r \in Route : taken[r] \subseteq 1 .. r - 1 /\ (r \notin Eligible => taken[r] = {})
    /\ \A r \in Route : \A q \in taken[r] : route[q] # "absent"
    /\ TakenStaysAway
    /\ FailuresExplained

(* Every failed pass has cost a round, and so does the one that is next.   *)
HeartbeatFollows == Owned => heartbeat + PassWait <= (failures + 1) * Round

(* A pass that did not take r has taken another that was not taken since r *)
(* became eligible, or a call of it has failed.                            *)
WaitFollows ==
    /\ \A r \in Route \ Eligible : waited[r] = 0
    /\ Owned => \A r \in Eligible :
                    waited[r] + PassWait <= (Cardinality(taken[r]) + hiccups + 1) * Round

=============================================================================
