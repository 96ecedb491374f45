------------------------------- MODULE Startup -------------------------------
(***************************************************************************)
(* Config::from_env (src/lib.rs) from the enrollment to the migration, as  *)
(* the containers of one Deployment run it: each from its start, one call  *)
(* after the other, next to the others that start or already run.  Any Err *)
(* ends the process (src/main.rs) and the kubelet starts it again, with a  *)
(* new key and nothing remembered.                                         *)
(*                                                                         *)
(* What outlives a process is at the kernel (challenges that were used up, *)
(* the subscriptions of the one service all Pods share) and in PostgreSQL  *)
(* (the schema).  A call is applied and answered, applied and the answer   *)
(* lost, not applied, or, for the one call that is not idempotent, applied *)
(* when its sender is long gone.                                           *)
(*                                                                         *)
(* pc names the call or statement a process makes next.                    *)
(***************************************************************************)
EXTENDS Naturals, FiniteSets

CONSTANTS
    Pod,           \* the containers, each with one process at a time
    ActionCount,   \* dispatch::ACTIONS, by position
    MaxFaults      \* bound: lost calls, outages, crashes

VARIABLES
    pc,
    action,         \* process: position in ACTIONS
    challenge,      \* process: the challenge it holds, and has used or not
    enrollment,     \* deployment: where a process gets its challenge
    spent,          \* kernel: the injected challenge was used
    subscriptions,  \* kernel: active subscriptions per action
    late,           \* creates on their way whose sender no longer waits
    unanswered,     \* history: creates that were sent and never answered
    schema,         \* PostgreSQL: the migrations are committed
    faults

ASSUME ConstantsAssumption ==
    /\ IsFiniteSet(Pod)
    /\ ActionCount \in Nat \ {0} /\ MaxFaults \in Nat

kernel == <<spent, subscriptions, late, unanswered>>
process == <<pc, action, challenge>>
vars == <<pc, action, challenge, enrollment, spent, subscriptions, late, unanswered,
          schema, faults>>

Action == 1 .. ActionCount

(* ENROLLMENT_CHALLENGE unset, set, or no SERVICE_ENDPOINT and POD_UID.    *)
Enrollment == {"requested", "injected", "elsewhere"}

KernelCall == {"request_challenge", "enroll", "active_subscriptions", "create_subscription"}
Statement == {"check_connection", "create_tables", "tables_wait", "create_index", "alter_table"}

TypeOK ==
    /\ pc \in [Pod -> KernelCall \cup Statement \cup {"run"}]
    /\ action \in [Pod -> Action]
    /\ challenge \in [Pod -> {"none", "good", "used"}]
    /\ enrollment \in Enrollment
    /\ spent \in BOOLEAN
    /\ subscriptions \in [Action -> Nat]
    /\ late \in [Action -> Nat]
    /\ unanswered \in [Action -> Nat]
    /\ schema \in BOOLEAN
    /\ faults \in 0 .. MaxFaults

First == IF enrollment = "elsewhere" THEN "active_subscriptions" ELSE "request_challenge"

Init ==
    /\ enrollment \in Enrollment
    /\ pc = [p \in Pod |-> First]
    /\ action = [p \in Pod |-> 1]
    /\ challenge = [p \in Pod |-> "none"]
    /\ spent = FALSE
    /\ subscriptions = [a \in Action |-> 0]
    /\ late = [a \in Action |-> 0]
    /\ unanswered = [a \in Action |-> 0]
    /\ schema \in BOOLEAN
    /\ faults = 0

-----------------------------------------------------------------------------

At(p, c) == pc[p] = c
Goto(p, c) == pc' = [pc EXCEPT ![p] = c]

Fault == faults < MaxFaults /\ faults' = faults + 1
NoFault == UNCHANGED faults

(* A mistake to be caught: the challenge is kept over a restart.           *)
ExitKeepingChallenge(p) ==
    /\ Goto(p, IF challenge[p] = "none" THEN First ELSE "enroll")
    /\ action' = [action EXCEPT ![p] = 1]
    /\ UNCHANGED challenge

(* exit(1), or the process is killed, and the container is started again.  *)
Exit(p) ==
    /\ Goto(p, First)
    /\ action' = [action EXCEPT ![p] = 1]
    /\ challenge' = [challenge EXCEPT ![p] = "none"]

(* A call has no effect, or is answered with an error.                     *)
CallFails(p) == Exit(p) /\ Fault /\ UNCHANGED <<kernel, schema, enrollment>>

(* The kernel issues a new challenge; an injected one is taken as it is.   *)
RequestChallenge(p) ==
    /\ At(p, "request_challenge")
    /\ \/ /\ challenge' = [challenge EXCEPT ![p] = "good"]
          /\ Goto(p, "enroll")
          /\ NoFault
          /\ UNCHANGED <<action, kernel, schema, enrollment>>
       \/ enrollment = "requested" /\ CallFails(p)

(* A challenge enrolls one instance.  The answer may be lost; then it is   *)
(* used up, and enrolled a key that nobody has any more.                   *)
Good(p) == challenge[p] = "good" /\ ~ (enrollment = "injected" /\ spent)

Enroll(p) ==
    /\ At(p, "enroll")
    /\ \/ /\ Good(p)
          /\ spent' = (enrollment = "injected")
          /\ \/ /\ Goto(p, "active_subscriptions")
                /\ challenge' = [challenge EXCEPT ![p] = "used"]
                /\ NoFault
                /\ UNCHANGED action
             \/ Exit(p) /\ Fault
          /\ UNCHANGED <<subscriptions, late, unanswered, schema, enrollment>>
       \/ ~ Good(p) /\ Exit(p) /\ NoFault /\ UNCHANGED <<kernel, schema, enrollment>>
       \/ CallFails(p)

(* A mistake to be caught: the loop goes round once too often.             *)
NextActionPastEnd(p) ==
    /\ IF action[p] > ActionCount
       THEN Goto(p, "check_connection") /\ UNCHANGED action
       ELSE Goto(p, "active_subscriptions") /\ action' = [action EXCEPT ![p] = action[p] + 1]
    /\ UNCHANGED challenge

(* The next round of `for action in dispatch::ACTIONS`.                    *)
NextAction(p) ==
    /\ IF action[p] = ActionCount
       THEN Goto(p, "check_connection") /\ UNCHANGED action
       ELSE Goto(p, "active_subscriptions") /\ action' = [action EXCEPT ![p] = action[p] + 1]
    /\ UNCHANGED challenge

(* The list of active subscriptions has one for this action.               *)
Subscribed(a) == subscriptions[a] > 0

(* A mistake to be caught: any active subscription will do.                *)
AnySubscription(p) ==
    /\ At(p, "active_subscriptions")
    /\ IF \E a \in Action : Subscribed(a)
       THEN NextAction(p)
       ELSE Goto(p, "create_subscription") /\ UNCHANGED <<action, challenge>>
    /\ NoFault
    /\ UNCHANGED <<kernel, schema, enrollment>>

(* A mistake to be caught: the list is not looked at.                      *)
AlwaysCreate(p) ==
    /\ At(p, "active_subscriptions")
    /\ Goto(p, "create_subscription")
    /\ NoFault
    /\ UNCHANGED <<action, challenge, kernel, schema, enrollment>>

(* ensure_subscription: look first ...                                     *)
ActiveSubscriptions(p) ==
    /\ At(p, "active_subscriptions")
    /\ \/ /\ Subscribed(action[p])
          /\ NextAction(p)
          /\ NoFault
          /\ UNCHANGED <<kernel, schema, enrollment>>
       \/ /\ ~ Subscribed(action[p])
          /\ Goto(p, "create_subscription")
          /\ NoFault
          /\ UNCHANGED <<action, challenge, kernel, schema, enrollment>>
       \/ CallFails(p)

(* ... then create.  The kernel adds a subscription, also to one that is   *)
(* there; without an answer the process exits and knows nothing.           *)
CreateSubscription(p) ==
    LET a == action[p]
        add(f) == [f EXCEPT ![a] = f[a] + 1]
    IN  /\ At(p, "create_subscription")
        /\ \/ /\ subscriptions' = add(subscriptions)
              /\ NextAction(p)
              /\ NoFault
              /\ UNCHANGED <<spent, late, unanswered, schema, enrollment>>
           \/ /\ \/ subscriptions' = add(subscriptions) /\ UNCHANGED late
                 \/ late' = add(late) /\ UNCHANGED subscriptions
              /\ unanswered' = add(unanswered)
              /\ Exit(p) /\ Fault
              /\ UNCHANGED <<spent, schema, enrollment>>
           \/ CallFails(p)

EnsureSubscription(p) == ActiveSubscriptions(p) \/ CreateSubscription(p)

LateCreate(a) ==
    /\ late[a] > 0
    /\ late' = [late EXCEPT ![a] = late[a] - 1]
    /\ subscriptions' = [subscriptions EXCEPT ![a] = subscriptions[a] + 1]
    /\ UNCHANGED <<process, enrollment, spent, unanswered, schema, faults>>

-----------------------------------------------------------------------------
(* Database::connect_from_env: the pool, SELECT 1, and the migrations, all *)
(* in one batch and so in one transaction.                                 *)

Proceed(p, statement) ==
    Goto(p, statement) /\ NoFault /\ UNCHANGED <<action, challenge, kernel, schema, enrollment>>

CheckConnection(p) ==
    /\ At(p, "check_connection")
    /\ Proceed(p, "create_tables") \/ CallFails(p)

(* The process whose uncommitted transaction has made the tables.          *)
Creating == {p \in Pod : ~ schema /\ pc[p] \in {"create_index", "alter_table"}}

(* CREATE TABLE IF NOT EXISTS looks for a committed table; not finding one *)
(* it waits for whoever is creating it.                                    *)
CreateTables(p) ==
    /\ At(p, "create_tables")
    /\ \/ Creating = {} /\ Proceed(p, "create_index")
       \/ Creating # {} /\ Proceed(p, "tables_wait")
       \/ CallFails(p)

(* If the other one commits, the names are taken: a unique violation.      *)
TablesWait(p) ==
    /\ At(p, "tables_wait")
    /\ \/ schema /\ Exit(p) /\ NoFault /\ UNCHANGED <<kernel, schema, enrollment>>
       \/ ~ schema /\ Creating = {} /\ Proceed(p, "create_index")
       \/ CallFails(p)

(* CREATE INDEX IF NOT EXISTS locks document_versions, also if there is    *)
(* nothing to do.  Its lock admits another one of its kind.                *)
CreateIndex(p) ==
    /\ At(p, "create_index")
    /\ Proceed(p, "alter_table") \/ CallFails(p)

(* ALTER TABLE needs the table alone; nothing after it waits any more.     *)
AlterTable(p) ==
    /\ At(p, "alter_table")
    /\ \A q \in Pod \ {p} : ~ At(q, "alter_table")
    /\ schema' = TRUE
    /\ Goto(p, "run")
    /\ NoFault
    /\ UNCHANGED <<action, challenge, kernel, enrollment>>

(* Two that have both locked the table for their index wait for each       *)
(* other, and PostgreSQL ends one of them.                                 *)
MigrationFails(p) ==
    /\ At(p, "alter_table")
    /\ \/ /\ \E q \in Pod \ {p} : At(q, "alter_table")
          /\ Exit(p) /\ NoFault
          /\ UNCHANGED <<kernel, schema, enrollment>>
       \/ CallFails(p)

-----------------------------------------------------------------------------

(* A process that runs dies, for whatever reason, and starts again.        *)
Crash(p) == At(p, "run") /\ CallFails(p)

FromEnv(p) ==
    \/ RequestChallenge(p) \/ Enroll(p)
    \/ EnsureSubscription(p)
    \/ CheckConnection(p) \/ CreateTables(p) \/ TablesWait(p)
    \/ CreateIndex(p) \/ AlterTable(p) \/ MigrationFails(p)

Next == (\E p \in Pod : FromEnv(p) \/ Crash(p)) \/ (\E a \in Action : LateCreate(a))

Spec == Init /\ [][Next]_vars

(* A process goes on, and a container that exited is started again.        *)
(* PostgreSQL gives a lock to who waits for it as soon as it is free.      *)
FairSpec == Spec /\ \A p \in Pod : WF_vars(FromEnv(p)) /\ SF_vars(AlterTable(p))

-----------------------------------------------------------------------------

Running == {p \in Pod : At(p, "run")}

(* Whoever works can be reached and has its tables: while a process runs,  *)
(* each of ACTIONS has an active subscription and the migrations are       *)
(* committed, whatever failed, was lost, raced or was started over before. *)
StartedIsReady == Running # {} => schema /\ \A a \in Action : Subscribed(a)

(* "A restart never fails or duplicates one that already exists": however  *)
(* often processes start, an action has at most one subscription for each  *)
(* Pod that was starting when it had none, and one for each create whose   *)
(* sender was left without an answer.  The check and the create are two    *)
(* calls, so one in all is not what the code can promise.                  *)
DuplicatesAreBounded ==
    \A a \in Action : subscriptions[a] + late[a] <= Cardinality(Pod) + unanswered[a]

(* "A challenge is single-use, so an injected one survives only the first  *)
(* Pod of a Deployment revision": without one every process gets to run,   *)
(* over lost enrollments, half-made subscriptions and migrations that      *)
(* collide.                                                                *)
EveryPodStarts == \A p \in Pod : (enrollment # "injected" /\ ~ At(p, "run")) ~> At(p, "run")

-----------------------------------------------------------------------------
(* The inductive invariant of both safety properties.                      *)

(* What ensure_subscription has been through for an action is done.        *)
EnsuredSoFar ==
    \A p \in Pod : \A a \in Action :
        \/ pc[p] \in Statement \cup {"run"}
        \/ a < action[p]
        => Subscribed(a)

Creators(a) == {p \in Pod : At(p, "create_subscription") /\ action[p] = a}

(* Nobody sets out to create what is there: those who may still add to it  *)
(* set out before, or have been given up.                                  *)
CreatesAreFew ==
    \A a \in Action :
        /\ late[a] <= unanswered[a]
        /\ Subscribed(a) =>
            subscriptions[a] + late[a] + Cardinality(Creators(a))
                <= Cardinality(Pod) + unanswered[a]

IInv ==
    /\ TypeOK
    /\ EnsuredSoFar
    /\ CreatesAreFew
    /\ Running # {} => schema

=============================================================================
