---------------------------- MODULE StartupProofs ----------------------------
(***************************************************************************)
(* However many Pods start, race and are started over, whoever runs is     *)
(* ready, and the subscriptions of an action are no more than the Pods     *)
(* that looked for one too early and the creates nobody answered.          *)
(***************************************************************************)
EXTENDS Startup, FiniteSetTheorems, TLAPS

(* Pods are counted, and fewer of them are fewer.                          *)
LEMMA PodsCounted ==
    ASSUME NEW S \in SUBSET Pod
    PROVE  /\ Cardinality(S) \in Nat
           /\ Cardinality(S) <= Cardinality(Pod)
           /\ \A T \in SUBSET S : Cardinality(T) \in Nat /\ Cardinality(T) <= Cardinality(S)
           /\ \A p \in S : Cardinality(S \ {p}) = Cardinality(S) - 1
<1>1. IsFiniteSet(Pod)
  BY ConstantsAssumption
<1>2. IsFiniteSet(S) /\ Cardinality(S) <= Cardinality(Pod)
  BY <1>1, FS_Subset
<1>3. \A T \in SUBSET S : IsFiniteSet(T) /\ Cardinality(T) <= Cardinality(S)
  BY <1>2, FS_Subset
<1>4. \A p \in S : Cardinality(S \ {p}) = Cardinality(S) - 1
  BY <1>2, FS_RemoveElement
<1> QED
  BY <1>2, <1>3, <1>4, FS_CardinalityType

(* Creators are Pods, now and after a step.                                *)
LEMMA CreatorsArePods ==
    ASSUME NEW a
    PROVE  Creators(a) \in SUBSET Pod /\ Creators(a)' \in SUBSET Pod
BY DEF Creators

-----------------------------------------------------------------------------

(* The type invariant holds at first.                                      *)
LEMMA InitType == Init => TypeOK
<1> SUFFICES ASSUME Init PROVE TypeOK
  OBVIOUS
<1>1. First \in KernelCall
  BY DEF First, KernelCall
<1>2. 1 \in Action /\ 0 \in 0 .. MaxFaults /\ 0 \in Nat
  BY ConstantsAssumption DEF Action
<1> QED
  BY <1>1, <1>2 DEF Init, TypeOK

(* A process that exits is at its first call again, with its types.        *)
LEMMA ExitType ==
    ASSUME TypeOK, NEW p \in Pod, Exit(p)
    PROVE  /\ pc' \in [Pod -> KernelCall \cup Statement \cup {"run"}]
           /\ action' \in [Pod -> Action]
           /\ challenge' \in [Pod -> {"none", "good", "used"}]
BY ConstantsAssumption
   DEF TypeOK, Exit, Goto, First, KernelCall, Statement, Action, Enrollment

(* Faults are bounded.                                                     *)
LEMMA FaultType ==
    ASSUME TypeOK, Fault
    PROVE  faults' \in 0 .. MaxFaults
BY ConstantsAssumption DEF TypeOK, Fault

(* So is one whose call failed.                                            *)
LEMMA CallFailsType ==
    ASSUME TypeOK, NEW p \in Pod, CallFails(p)
    PROVE  TypeOK'
<1>1. Exit(p) /\ Fault
  BY DEF CallFails
<1> QED
  BY <1>1, ExitType, FaultType DEF CallFails, kernel, TypeOK

(* So is one that exits and leaves the rest alone.                         *)
LEMMA ExitsType ==
    ASSUME TypeOK, NEW p \in Pod, Exit(p), NoFault, UNCHANGED <<kernel, schema, enrollment>>
    PROVE  TypeOK'
BY ExitType DEF NoFault, kernel, TypeOK

(* The loop over ACTIONS stays within ACTIONS.                             *)
LEMMA NextActionType ==
    ASSUME TypeOK, NEW p \in Pod, NextAction(p)
    PROVE  /\ pc' \in [Pod -> KernelCall \cup Statement \cup {"run"}]
           /\ action' \in [Pod -> Action]
           /\ challenge' = challenge
<1>1. action[p] \in 1 .. ActionCount
  BY DEF TypeOK, Action
<1>2. action[p] # ActionCount => action[p] + 1 \in Action
  BY <1>1, ConstantsAssumption DEF Action
<1> QED
  BY <1>2 DEF TypeOK, NextAction, Goto, KernelCall, Statement

(* A statement that is answered leads to the next.                         *)
LEMMA ProceedType ==
    ASSUME TypeOK, NEW p \in Pod, NEW s \in Statement, Proceed(p, s)
    PROVE  TypeOK'
BY DEF TypeOK, Proceed, Goto, NoFault, kernel

(* Every step keeps the type invariant.                                    *)
LEMMA TypeStep == TypeOK /\ [Next]_vars => TypeOK'
<1> SUFFICES ASSUME TypeOK, [Next]_vars PROVE TypeOK'
  OBVIOUS
<1>1. ASSUME NEW p \in Pod, RequestChallenge(p) PROVE TypeOK'
  <2>1. CASE CallFails(p)
    BY <2>1, CallFailsType
  <2>2. CASE ~ CallFails(p)
    BY <1>1, <2>2 DEF RequestChallenge, TypeOK, Goto, NoFault, kernel, KernelCall
  <2> QED
    BY <2>1, <2>2
<1>2. ASSUME NEW p \in Pod, Enroll(p) PROVE TypeOK'
  <2>1. CASE CallFails(p)
    BY <2>1, CallFailsType
  <2>2. CASE Exit(p) /\ NoFault /\ UNCHANGED <<kernel, schema, enrollment>>
    BY <2>2, ExitsType
  <2>3. CASE /\ spent' = (enrollment = "injected")
             /\ UNCHANGED <<subscriptions, late, unanswered, schema, enrollment>>
             /\ Exit(p) /\ Fault
    BY <2>3, ExitType, FaultType DEF TypeOK
  <2>4. CASE /\ spent' = (enrollment = "injected")
             /\ UNCHANGED <<subscriptions, late, unanswered, schema, enrollment>>
             /\ Goto(p, "active_subscriptions")
             /\ challenge' = [challenge EXCEPT ![p] = "used"]
             /\ NoFault
             /\ UNCHANGED action
    BY <2>4 DEF TypeOK, Goto, NoFault, KernelCall
  <2> QED
    BY <1>2, <2>1, <2>2, <2>3, <2>4 DEF Enroll
<1>3. ASSUME NEW p \in Pod, ActiveSubscriptions(p) PROVE TypeOK'
  <2>1. CASE CallFails(p)
    BY <2>1, CallFailsType
  <2>2. CASE NextAction(p) /\ NoFault /\ UNCHANGED <<kernel, schema, enrollment>>
    BY <2>2, NextActionType DEF TypeOK, NoFault, kernel
  <2>3. CASE /\ Goto(p, "create_subscription") /\ NoFault
             /\ UNCHANGED <<action, challenge, kernel, schema, enrollment>>
    BY <2>3 DEF TypeOK, Goto, NoFault, kernel, KernelCall
  <2> QED
    BY <1>3, <2>1, <2>2, <2>3 DEF ActiveSubscriptions, Subscribed
<1>4. ASSUME NEW p \in Pod, CreateSubscription(p) PROVE TypeOK'
  <2> DEFINE a == action[p]
             Added(f) == [f EXCEPT ![a] = f[a] + 1]
  <2>1. a \in Action
    BY DEF TypeOK
  <2>2. \A f \in [Action -> Nat] : Added(f) \in [Action -> Nat]
    BY <2>1
  <2>3. CASE CallFails(p)
    BY <2>3, CallFailsType
  <2>4. CASE /\ subscriptions' = Added(subscriptions)
             /\ NextAction(p) /\ NoFault
             /\ UNCHANGED <<spent, late, unanswered, schema, enrollment>>
    BY <2>2, <2>4, NextActionType DEF TypeOK, NoFault
  <2>5. CASE /\ \/ subscriptions' = Added(subscriptions) /\ UNCHANGED late
                \/ late' = Added(late) /\ UNCHANGED subscriptions
             /\ unanswered' = Added(unanswered)
             /\ Exit(p) /\ Fault
             /\ UNCHANGED <<spent, schema, enrollment>>
    BY <2>2, <2>5, ExitType, FaultType DEF TypeOK
  <2> QED
    BY <1>4, <2>3, <2>4, <2>5 DEF CreateSubscription
<1>5. ASSUME NEW p \in Pod, CheckConnection(p) \/ CreateTables(p) \/ CreateIndex(p)
      PROVE  TypeOK'
  BY <1>5, CallFailsType, ProceedType DEF CheckConnection, CreateTables, CreateIndex, Statement
<1>6. ASSUME NEW p \in Pod, TablesWait(p) \/ MigrationFails(p) PROVE TypeOK'
  BY <1>6, CallFailsType, ProceedType, ExitsType DEF TablesWait, MigrationFails, Statement
<1>7. ASSUME NEW p \in Pod, AlterTable(p) PROVE TypeOK'
  BY <1>7 DEF TypeOK, AlterTable, Goto, NoFault, kernel
<1>8. ASSUME NEW p \in Pod, Crash(p) PROVE TypeOK'
  BY <1>8, CallFailsType DEF Crash
<1>9. ASSUME NEW a \in Action, LateCreate(a) PROVE TypeOK'
  BY <1>9 DEF TypeOK, LateCreate, process
<1>10. CASE UNCHANGED vars
  BY <1>10 DEF TypeOK, vars
<1> QED
  BY <1>1, <1>2, <1>3, <1>4, <1>5, <1>6, <1>7, <1>8, <1>9, <1>10 DEF Next, FromEnv, EnsureSubscription

(* TypeOK is an invariant of the specification.                            *)
THEOREM TypeCorrect == Spec => []TypeOK
BY InitType, TypeStep, PTL DEF Spec

-----------------------------------------------------------------------------

(* The inductive invariant holds at first.                                 *)
LEMMA InitIInv == Init => IInv
<1> SUFFICES ASSUME Init PROVE IInv
  OBVIOUS
<1>1. \A p \in Pod : pc[p] \in {"request_challenge", "active_subscriptions"} /\ action[p] = 1
  BY DEF Init, First
<1>2. EnsuredSoFar /\ (Running # {} => schema)
  BY <1>1 DEF EnsuredSoFar, Statement, Running, At, Action, Subscribed
<1>3. CreatesAreFew
  BY DEF Init, CreatesAreFew, Subscribed
<1> QED
  BY <1>2, <1>3, InitType DEF IInv

(* A process that exits has nothing behind it.                             *)
LEMMA ExitKeeps ==
    ASSUME IInv, TypeOK', NEW p \in Pod, Exit(p), UNCHANGED schema,
           \A a \in Action : subscriptions'[a] >= subscriptions[a]
    PROVE  /\ EnsuredSoFar' /\ (Running # {} => schema)'
           /\ \A a \in Action : Creators(a)' \subseteq Creators(a) \ {p}
<1>1. /\ pc'[p] \in {"request_challenge", "active_subscriptions"} /\ action'[p] = 1
      /\ \A q \in Pod \ {p} : pc'[q] = pc[q] /\ action'[q] = action[q]
  BY DEF IInv, TypeOK, Exit, Goto, First
<1>2. Running' \subseteq Running
  BY <1>1 DEF Running, At
<1>3. \A a \in Action : Creators(a)' \subseteq Creators(a) \ {p}
  BY <1>1 DEF Creators, At
<1>4. \A a \in Action : subscriptions[a] > 0 => subscriptions'[a] > 0
  BY DEF IInv, TypeOK
<1>5. \A a \in Action : ~ (a < action'[p])
  BY <1>1 DEF Action
<1>6. EnsuredSoFar'
  <2> SUFFICES ASSUME NEW q \in Pod, NEW a \in Action,
                      pc'[q] \in Statement \cup {"run"} \/ a < action'[q]
               PROVE  subscriptions'[a] > 0
    BY DEF EnsuredSoFar, Subscribed
  <2>1. q # p
    BY <1>1, <1>5 DEF Statement
  <2> QED
    BY <1>1, <1>4, <2>1 DEF IInv, EnsuredSoFar, Subscribed
<1> QED
  BY <1>2, <1>3, <1>6 DEF IInv

(* A process that goes on to the next action has the one behind it.        *)
LEMMA NextActionKeeps ==
    ASSUME IInv, TypeOK', NEW p \in Pod, NextAction(p), UNCHANGED schema,
           pc[p] \in KernelCall,
           \A a \in Action : subscriptions'[a] >= subscriptions[a],
           subscriptions'[action[p]] > 0
    PROVE  /\ EnsuredSoFar' /\ (Running # {} => schema)'
           /\ \A a \in Action : Creators(a)' \subseteq Creators(a) \ {p}
<1>0. action[p] \in Action /\ action'[p] \in Action
  BY DEF IInv, TypeOK
<1>1. /\ pc'[p] \in {"check_connection", "active_subscriptions"}
      /\ pc'[p] = "check_connection" => action[p] = ActionCount
      /\ action'[p] = action[p] \/ action'[p] = action[p] + 1
      /\ \A q \in Pod \ {p} : pc'[q] = pc[q] /\ action'[q] = action[q]
  BY DEF IInv, TypeOK, NextAction, Goto
<1>2. Running' \subseteq Running
  BY <1>1 DEF Running, At
<1>3. \A a \in Action : Creators(a)' \subseteq Creators(a) \ {p}
  BY <1>1 DEF Creators, At
<1>4. \A a \in Action : subscriptions[a] > 0 => subscriptions'[a] > 0
  BY DEF IInv, TypeOK
<1>5. EnsuredSoFar'
  <2> SUFFICES ASSUME NEW q \in Pod, NEW a \in Action,
                      pc'[q] \in Statement \cup {"run"} \/ a < action'[q]
               PROVE  subscriptions'[a] > 0
    BY DEF EnsuredSoFar, Subscribed
  <2>1. CASE q # p
    BY <1>1, <1>4, <2>1 DEF IInv, EnsuredSoFar, Subscribed
  <2>2. CASE q = p
    <3>1. a <= action[p]
      BY <1>0, <1>1, <2>2, ConstantsAssumption DEF Action, Statement
    <3>2. CASE a = action[p]
      BY <3>2
    <3>3. CASE a < action[p]
      BY <1>4, <3>3 DEF IInv, EnsuredSoFar, Subscribed
    <3> QED
      BY <1>0, <3>1, <3>2, <3>3 DEF Action
  <2> QED
    BY <2>1, <2>2
<1> QED
  BY <1>2, <1>3, <1>5 DEF IInv

(* With the kernel's numbers unchanged, nobody who sets out to create      *)
(* what is there means that creates stay few.                              *)
LEMMA CreatesStayFew ==
    ASSUME IInv, UNCHANGED <<subscriptions, late, unanswered>>,
           \A a \in Action : subscriptions[a] > 0 => Creators(a)' \subseteq Creators(a)
    PROVE  CreatesAreFew'
<1> SUFFICES ASSUME NEW a \in Action, subscriptions[a] > 0
             PROVE  subscriptions[a] + late[a] + Cardinality(Creators(a)')
                      <= Cardinality(Pod) + unanswered[a]
  BY DEF IInv, CreatesAreFew, Subscribed
<1>1. /\ Cardinality(Creators(a)) \in Nat /\ Cardinality(Creators(a)') \in Nat
      /\ Cardinality(Creators(a)') <= Cardinality(Creators(a))
  BY PodsCounted, CreatorsArePods
<1>2. Cardinality(Pod) \in Nat
  BY PodsCounted
<1> QED
  BY <1>1, <1>2 DEF IInv, TypeOK, CreatesAreFew, Subscribed

(* A call that failed.                                                     *)
LEMMA ExitsIInv ==
    ASSUME IInv, TypeOK', NEW p \in Pod, Exit(p),
           UNCHANGED <<subscriptions, late, unanswered, schema>>
    PROVE  IInv'
<1>1. \A a \in Action : subscriptions'[a] >= subscriptions[a]
  BY DEF IInv, TypeOK
<1>2. /\ EnsuredSoFar' /\ (Running # {} => schema)'
      /\ \A a \in Action : Creators(a)' \subseteq Creators(a) \ {p}
  BY <1>1, ExitKeeps
<1>3. CreatesAreFew'
  BY <1>2, CreatesStayFew
<1> QED
  BY <1>2, <1>3 DEF IInv

(* A process that goes on, but neither to the next action nor to create    *)
(* what is there.                                                          *)
LEMMA GotoIInv ==
    ASSUME IInv, TypeOK', NEW p \in Pod, NEW c, Goto(p, c), UNCHANGED action,
           UNCHANGED <<subscriptions, late, unanswered>>,
           c \in Statement \cup {"run"} => pc[p] \in Statement,
           c = "create_subscription" => subscriptions[action[p]] = 0,
           schema => schema', c = "run" => schema'
    PROVE  IInv'
<1>1. pc'[p] = c /\ \A q \in Pod \ {p} : pc'[q] = pc[q]
  BY DEF IInv, TypeOK, Goto
<1>2. EnsuredSoFar'
  <2> SUFFICES ASSUME NEW q \in Pod, NEW a \in Action,
                      pc'[q] \in Statement \cup {"run"} \/ a < action[q]
               PROVE  subscriptions[a] > 0
    BY DEF EnsuredSoFar, Subscribed
  <2> QED
    BY <1>1 DEF IInv, EnsuredSoFar, Subscribed
<1>3. (Running # {} => schema)'
  BY <1>1 DEF IInv, Running, At
<1>4. \A a \in Action : subscriptions[a] > 0 => Creators(a)' \subseteq Creators(a)
  BY <1>1 DEF IInv, TypeOK, Creators, At
<1>5. CreatesAreFew'
  BY <1>4, CreatesStayFew
<1> QED
  BY <1>2, <1>3, <1>5 DEF IInv

(* A statement that is answered.                                           *)
LEMMA ProceedIInv ==
    ASSUME IInv, TypeOK', NEW p \in Pod, NEW s \in Statement, Proceed(p, s),
           pc[p] \in Statement
    PROVE  IInv'
BY GotoIInv DEF Proceed, kernel, Statement

-----------------------------------------------------------------------------

(* Only the create that is made, or arrives late, adds to an action.       *)
LEMMA CreateIInv ==
    ASSUME IInv, TypeOK', NEW p \in Pod, CreateSubscription(p)
    PROVE  IInv'
<1> DEFINE a == action[p]
           Added(f) == [f EXCEPT ![a] = f[a] + 1]
<1>1. a \in Action /\ p \in Creators(a) /\ pc[p] \in KernelCall
  BY DEF IInv, TypeOK, CreateSubscription, Creators, KernelCall, At
<1>2. ASSUME \A b \in Action : Creators(b)' \subseteq Creators(b) \ {p}
      PROVE  \A b \in Action :
               /\ Cardinality(Creators(b)) \in Nat /\ Cardinality(Creators(b)') \in Nat
               /\ Cardinality(Creators(b)) <= Cardinality(Pod) /\ Cardinality(Pod) \in Nat
               /\ Cardinality(Creators(b)') <= Cardinality(Creators(b))
               /\ b = a => Cardinality(Creators(b)') + 1 <= Cardinality(Creators(b))
  <2> TAKE b \in Action
  <2>1. Creators(b)' \in SUBSET Creators(b)
    BY <1>2
  <2>2. /\ Cardinality(Creators(b)) \in Nat /\ Cardinality(Creators(b)') \in Nat
        /\ Cardinality(Creators(b)) <= Cardinality(Pod) /\ Cardinality(Pod) \in Nat
        /\ Cardinality(Creators(b)') <= Cardinality(Creators(b))
    BY <2>1, PodsCounted, CreatorsArePods
  <2>3. CASE b = a
    <3>1. Creators(b) \ {p} \in SUBSET Pod /\ Creators(b)' \in SUBSET (Creators(b) \ {p})
      BY <1>2, CreatorsArePods
    <3>2. Cardinality(Creators(b)') <= Cardinality(Creators(b) \ {p})
      BY <3>1, PodsCounted
    <3>3. Cardinality(Creators(b) \ {p}) = Cardinality(Creators(b)) - 1
      BY <1>1, <2>3, PodsCounted, CreatorsArePods
    <3> QED
      BY <2>2, <3>2, <3>3
  <2> QED
    BY <2>2, <2>3
<1>3. CASE CallFails(p)
  BY <1>3, ExitsIInv DEF CallFails, kernel
<1>4. CASE /\ subscriptions' = Added(subscriptions)
           /\ NextAction(p)
           /\ UNCHANGED <<late, unanswered, schema>>
  <2>1. subscriptions'[a] > 0 /\ \A b \in Action : subscriptions'[b] >= subscriptions[b]
    BY <1>1, <1>4 DEF IInv, TypeOK
  <2>2. /\ EnsuredSoFar' /\ (Running # {} => schema)'
        /\ \A b \in Action : Creators(b)' \subseteq Creators(b) \ {p}
    BY <1>1, <1>4, <2>1, NextActionKeeps
  <2>3. CreatesAreFew'
    BY <1>1, <1>2, <1>4, <2>2 DEF IInv, TypeOK, CreatesAreFew, Subscribed
  <2> QED
    BY <2>2, <2>3 DEF IInv
<1>5. CASE /\ \/ subscriptions' = Added(subscriptions) /\ UNCHANGED late
              \/ late' = Added(late) /\ UNCHANGED subscriptions
           /\ unanswered' = Added(unanswered)
           /\ Exit(p)
           /\ UNCHANGED schema
  <2>1. \A b \in Action : subscriptions'[b] >= subscriptions[b]
    BY <1>1, <1>5 DEF IInv, TypeOK
  <2>2. /\ EnsuredSoFar' /\ (Running # {} => schema)'
        /\ \A b \in Action : Creators(b)' \subseteq Creators(b) \ {p}
    BY <1>5, <2>1, ExitKeeps
  <2>3. CreatesAreFew'
    BY <1>1, <1>2, <1>5, <2>2 DEF IInv, TypeOK, CreatesAreFew, Subscribed
  <2> QED
    BY <2>2, <2>3 DEF IInv
<1> QED
  BY <1>3, <1>4, <1>5 DEF CreateSubscription

(* Every step keeps the inductive invariant.                               *)
LEMMA StepIInv == IInv /\ [Next]_vars => IInv'
<1> SUFFICES ASSUME IInv, [Next]_vars PROVE IInv'
  OBVIOUS
<1>0. TypeOK /\ TypeOK'
  BY TypeStep DEF IInv
<1>1. ASSUME NEW p \in Pod, CallFails(p) PROVE IInv'
  BY <1>0, <1>1, ExitsIInv DEF CallFails, kernel
<1>2. ASSUME NEW p \in Pod, Exit(p), UNCHANGED <<kernel, schema>> PROVE IInv'
  BY <1>0, <1>2, ExitsIInv DEF kernel
<1>3. ASSUME NEW p \in Pod, RequestChallenge(p) PROVE IInv'
  BY <1>0, <1>1, <1>3, GotoIInv DEF RequestChallenge, kernel, Statement
<1>4. ASSUME NEW p \in Pod, Enroll(p) PROVE IInv'
  <2>1. CASE Exit(p) /\ UNCHANGED <<subscriptions, late, unanswered, schema>>
    BY <1>0, <2>1, ExitsIInv
  <2>2. CASE /\ Goto(p, "active_subscriptions")
             /\ UNCHANGED <<action, subscriptions, late, unanswered, schema>>
    BY <1>0, <2>2, GotoIInv DEF Statement
  <2> QED
    BY <1>1, <1>4, <2>1, <2>2 DEF Enroll, kernel
<1>5. ASSUME NEW p \in Pod, ActiveSubscriptions(p) PROVE IInv'
  <2>1. CASE /\ subscriptions[action[p]] > 0
             /\ NextAction(p)
             /\ UNCHANGED <<kernel, schema>>
    <3>1. pc[p] \in KernelCall
      BY <1>5 DEF ActiveSubscriptions, At, KernelCall, Subscribed
    <3>2. \A a \in Action : subscriptions'[a] >= subscriptions[a]
      BY <1>0, <2>1 DEF TypeOK, kernel
    <3>3. /\ EnsuredSoFar' /\ (Running # {} => schema)'
          /\ \A a \in Action : Creators(a)' \subseteq Creators(a) \ {p}
      BY <1>0, <2>1, <3>1, <3>2, NextActionKeeps DEF kernel
    <3>4. CreatesAreFew'
      BY <2>1, <3>3, CreatesStayFew DEF kernel
    <3> QED
      BY <1>0, <3>3, <3>4 DEF IInv
  <2>2. CASE /\ ~ Subscribed(action[p])
             /\ Goto(p, "create_subscription")
             /\ UNCHANGED <<action, kernel, schema>>
    <3>1. subscriptions[action[p]] = 0
      BY <1>0, <2>2 DEF TypeOK, Subscribed
    <3> QED
      BY <1>0, <2>2, <3>1, GotoIInv DEF kernel, Statement
  <2> QED
    BY <1>1, <1>5, <2>1, <2>2 DEF ActiveSubscriptions, Subscribed
<1>6. ASSUME NEW p \in Pod, CheckConnection(p) \/ CreateTables(p) \/ CreateIndex(p)
      PROVE  IInv'
  BY <1>0, <1>1, <1>6, ProceedIInv
  DEF CheckConnection, CreateTables, CreateIndex, Statement, At
<1>7. ASSUME NEW p \in Pod, TablesWait(p) \/ MigrationFails(p) PROVE IInv'
  BY <1>0, <1>1, <1>2, <1>7, ProceedIInv DEF TablesWait, MigrationFails, Statement, At
<1>8. ASSUME NEW p \in Pod, AlterTable(p) PROVE IInv'
  BY <1>0, <1>8, GotoIInv DEF AlterTable, kernel, Statement, At
<1>9. ASSUME NEW a \in Action, LateCreate(a) PROVE IInv'
  <2>1. EnsuredSoFar' /\ (Running # {} => schema)'
    BY <1>0, <1>9 DEF IInv, TypeOK, LateCreate, process, EnsuredSoFar, Running, At, Subscribed
  <2>2. \A b \in Action : /\ Creators(b)' = Creators(b)
                          /\ Cardinality(Creators(b)) \in Nat /\ Cardinality(Pod) \in Nat
                          /\ Cardinality(Creators(b)) <= Cardinality(Pod)
    BY <1>9, PodsCounted, CreatorsArePods DEF LateCreate, process, Creators, At
  <2>3. CreatesAreFew'
    BY <1>0, <1>9, <2>2 DEF IInv, TypeOK, LateCreate, CreatesAreFew, Subscribed
  <2> QED
    BY <1>0, <2>1, <2>3 DEF IInv
<1>10. CASE UNCHANGED vars
  BY <1>0, <1>10 DEF IInv, vars, EnsuredSoFar, CreatesAreFew, Creators, Running, At, Subscribed
<1> QED
  BY <1>1, <1>3, <1>4, <1>5, <1>6, <1>7, <1>8, <1>9, <1>10, CreateIInv, <1>0
  DEF Next, FromEnv, EnsureSubscription, Crash

(* The inductive invariant of startup holds for any number of Pods and     *)
(* actions: what ensure_subscription has been through is subscribed to,    *)
(* and creates are few.                                                    *)
THEOREM Invariance == Spec => []IInv
BY InitIInv, StepIInv, PTL DEF Spec

(* A process that runs has every subscription and the committed schema.    *)
THEOREM StartedIsReadyHolds == Spec => []StartedIsReady
<1>1. IInv => StartedIsReady
  BY DEF IInv, EnsuredSoFar, StartedIsReady, Running, At, Subscribed
<1> QED
  BY <1>1, Invariance, PTL

(* The check-then-create of ensure_subscription makes at most one          *)
(* subscription per Pod and one per unanswered create.                     *)
THEOREM DuplicatesAreBoundedHolds == Spec => []DuplicatesAreBounded
<1>1. IInv => DuplicatesAreBounded
  <2> SUFFICES ASSUME IInv, NEW a \in Action
               PROVE  subscriptions[a] + late[a] <= Cardinality(Pod) + unanswered[a]
    BY DEF DuplicatesAreBounded
  <2>1. Cardinality(Creators(a)) \in Nat /\ Cardinality(Pod) \in Nat
    BY PodsCounted, CreatorsArePods
  <2> QED
    BY <2>1 DEF IInv, TypeOK, CreatesAreFew, Subscribed
<1> QED
  BY <1>1, Invariance, PTL

=============================================================================
