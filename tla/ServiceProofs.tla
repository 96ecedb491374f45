---------------------------- MODULE ServiceProofs ----------------------------
(* Proofs about Service, for any number of workers, routes, requests,      *)
(* documents, faults and claims.                                           *)
EXTENDS Service, WorkLoopProofs

(* What is proved of the repository, for the one of the service.           *)
Proved == INSTANCE PostgresDocumentRepositoryProofs
              WITH Caller <- Worker, ContentType <- Text, pc <- statement

(* What the repository assumes of its constants.                           *)
LEMMA RepositoryAssumption ==
    /\ Blank \notin Text \cup Text
    /\ None \notin RequestId \cup DocumentId \cup Text \cup Text \cup {Blank}
  BY ConstantsAssumption

(* The statements the service executes are the ones the proofs are about.  *)
LEMMA SameStatements ==
    ASSUME NEW w \in Worker
    PROVE  /\ Postgres!Statements(w) <=> Proved!Statements(w)
           /\ Postgres!Fail(w) <=> Proved!Fail(w)
<1> USE DEF Postgres!At, Proved!At, Postgres!Goto, Proved!Goto, Postgres!tables, Proved!tables,
        Postgres!Return, Proved!Return, Postgres!NoTxn, Proved!NoTxn,
        Postgres!NoCall, Proved!NoCall, Postgres!Promise!NoCall, Proved!Promise!NoCall,
        Postgres!Err, Proved!Err, Postgres!Promise!Err, Proved!Promise!Err,
        Postgres!Ok, Proved!Ok, Postgres!Promise!Ok, Proved!Promise!Ok
<1>1. Postgres!Validate(w) <=> Proved!Validate(w)
  BY DEF Postgres!Validate, Proved!Validate
<1>2. Postgres!FindPutOperation(w) <=> Proved!FindPutOperation(w)
  BY DEF Postgres!FindPutOperation, Proved!FindPutOperation
<1>3. Postgres!InsertDocument(w) <=> Proved!InsertDocument(w)
  BY DEF Postgres!InsertDocument, Proved!InsertDocument
<1>4. Postgres!LockDocument(w) <=> Proved!LockDocument(w)
  BY DEF Postgres!LockDocument, Proved!LockDocument, Postgres!HoldsRowLock, Proved!HoldsRowLock,
         Postgres!InTransaction, Proved!InTransaction
<1>5. Postgres!NextVersion(w) <=> Proved!NextVersion(w)
  BY DEF Postgres!NextVersion, Proved!NextVersion, Postgres!MaxVersion, Proved!MaxVersion,
         Postgres!CoalesceMax, Proved!CoalesceMax, Postgres!VersionsOf, Proved!VersionsOf,
         Postgres!Promise!VersionsOf, Proved!Promise!VersionsOf
<1>6. Postgres!InsertVersion(w) <=> Proved!InsertVersion(w)
  BY DEF Postgres!InsertVersion, Proved!InsertVersion, Postgres!KeyIsFree, Proved!KeyIsFree
<1>7. Postgres!InsertPutOperation(w) <=> Proved!InsertPutOperation(w)
  BY DEF Postgres!InsertPutOperation, Proved!InsertPutOperation
<1>8. Postgres!Rollback(w) <=> Proved!Rollback(w)
  BY DEF Postgres!Rollback, Proved!Rollback
<1>9. Postgres!FindWinner(w) <=> Proved!FindWinner(w)
  BY DEF Postgres!FindWinner, Proved!FindWinner
<1>10. Postgres!Commit(w) <=> Proved!Commit(w)
  BY DEF Postgres!Commit, Proved!Commit, Postgres!Row, Proved!Row,
         Postgres!Operation, Proved!Operation
<1>11. Postgres!Fail(w) <=> Proved!Fail(w)
  BY DEF Postgres!Fail, Proved!Fail
<1> HIDE DEF Postgres!At, Proved!At
<1> QED
  BY <1>1, <1>2, <1>3, <1>4, <1>5, <1>6, <1>7, <1>8, <1>9, <1>10, <1>11
  DEF Postgres!Statements, Proved!Statements

LEMMA SamePut ==
    ASSUME NEW w \in Worker, NEW arguments
    PROVE  Postgres!Put(w, arguments) <=> Proved!Put(w, arguments)
  BY DEF Postgres!Put, Proved!Put, Postgres!At, Proved!At, Postgres!Goto, Proved!Goto,
         Postgres!tables, Proved!tables, Postgres!Err, Proved!Err, Postgres!Promise!Err,
         Proved!Promise!Err

LEMMA SameInit == Postgres!Init <=> Proved!Init
  BY DEF Postgres!Init, Proved!Init, Postgres!NoCall, Proved!NoCall, Postgres!Promise!NoCall,
         Proved!Promise!NoCall, Postgres!Err, Proved!Err, Postgres!Promise!Err, Proved!Promise!Err,
         Postgres!NoTxn, Proved!NoTxn

(* The promise the repository keeps is the one that the loop uses.         *)
LEMMA SamePromise ==
    ASSUME NEW w \in Worker
    PROVE  /\ Proved!Ends(w) =>
                \/ \E d \in DocumentId : \E n \in {1} \cup {m + 1 : m \in Repository!VersionsOf(d)} :
                      Repository!Perform(w, d, n)
                \/ Repository!Recognize(w)
                \/ \E error \in Repository!DocumentError : Repository!Refuse(w, error)
           /\ UNCHANGED Proved!Promise!vars <=> UNCHANGED repository
<1> USE DEF Proved!Promise!Valid, Repository!Valid, Proved!Promise!Answer, Repository!Answer,
        Proved!Promise!NoCall, Repository!NoCall, Proved!Promise!Ok, Repository!Ok,
        Proved!Promise!Err, Repository!Err, Proved!Promise!VersionsOf, Repository!VersionsOf
<1>1. ASSUME NEW d, NEW n
      PROVE  Proved!Promise!Perform(w, d, n) <=> Repository!Perform(w, d, n)
  BY DEF Proved!Promise!Perform, Repository!Perform, Proved!Promise!Processed,
         Repository!Processed, Proved!Promise!NextVersionOf, Repository!NextVersionOf
<1>2. Proved!Promise!Recognize(w) <=> Repository!Recognize(w)
  BY DEF Proved!Promise!Recognize, Repository!Recognize
<1>3. ASSUME NEW error
      PROVE  Proved!Promise!Refuse(w, error) <=> Repository!Refuse(w, error)
  BY DEF Proved!Promise!Refuse, Repository!Refuse, Proved!Promise!Refusable, Repository!Refusable
<1>4. Proved!Promise!DocumentError = Repository!DocumentError
  BY DEF Proved!Promise!DocumentError, Repository!DocumentError
<1>5. UNCHANGED Proved!Promise!vars <=> UNCHANGED repository
  BY DEF Proved!Promise!vars, repository
<1> QED
  BY <1>1, <1>2, <1>3, <1>4, <1>5 DEF Proved!Ends

-----------------------------------------------------------------------------

(* A call that has not returned has no outcome yet.                        *)
NoAnswerYet == \A w \in Worker : call[w] # Repository!NoCall => outcome[w].result = "NotReturned"

(* The service has the invariant of its loops and that of its repository.  *)
ServiceIInv == IInv /\ Proved!IInv /\ NoAnswerYet

(* Who executes a statement has been called.                               *)
LEMMA CallInProgress ==
    ASSUME Proved!IInv, NEW w \in Worker, Proved!Statements(w) \/ Proved!Fail(w)
    PROVE  call[w] # Repository!NoCall
<1>1. statement[w] # "idle"
  BY DEF Proved!Statements, Proved!Validate, Proved!FindPutOperation, Proved!InsertDocument,
         Proved!LockDocument, Proved!NextVersion, Proved!InsertVersion, Proved!InsertPutOperation,
         Proved!Rollback, Proved!FindWinner, Proved!Commit, Proved!Fail, Proved!At
<1> QED
  BY <1>1 DEF Proved!IInv, Proved!CallState, Proved!At, Proved!NoCall, Proved!Promise!NoCall,
              Repository!NoCall

(* A statement is a step of the loops: their put, or none at all.          *)
LEMMA ExecuteDelivers ==
    ASSUME ServiceIInv, NEW w \in Worker, Execute(w) \/ StatementFails(w)
    PROVE  RepositoryPut(w) \/ UNCHANGED vars
<1>1. Proved!Statements(w) \/ Proved!Fail(w)
  BY SameStatements DEF Execute, StatementFails
<1>2. Proved!Ends(w) \/ UNCHANGED Proved!Promise!vars
  BY <1>1, Proved!StatementImplements, RepositoryAssumption
  DEF Proved!StatementImplements, ServiceIInv
<1>3. DatabaseFault(w) /\ UNCHANGED <<kernel, pass>>
  BY DEF Execute, StatementFails
<1>4. CASE Proved!Ends(w)
  BY <1>3, <1>4, SamePromise DEF RepositoryPut, DatabaseFault
<1>5. CASE UNCHANGED Proved!Promise!vars
  <2>1. UNCHANGED repository
    BY <1>5, SamePromise
  <2>2. call[w] # Repository!NoCall
    BY <1>1, CallInProgress DEF ServiceIInv
  <2> QED
    BY <1>3, <2>1, <2>2
    DEF ServiceIInv, NoAnswerYet, DatabaseFault, NoFault, kernel, pass, repository, vars
<1> QED
  BY <1>2, <1>4, <1>5

(* Every step of the service is one of the loops, or none of theirs.       *)
LEMMA StepLoops ==
    ASSUME ServiceIInv, [ServiceNext]_service
    PROVE  [Next]_vars
<1>1. ASSUME NEW w \in Worker, CallKernel(w)
      PROVE  Next
  BY <1>1 DEF CallKernel, Next, WorkOnce
<1>2. ASSUME NEW w \in Worker, DispatchToPostgres(w)
      PROVE  Next
  BY <1>2 DEF DispatchToPostgres, Next, WorkOnce
<1>3. ASSUME NEW w \in Worker, Execute(w) \/ StatementFails(w)
      PROVE  Next \/ UNCHANGED vars
  BY <1>3, ExecuteDelivers DEF Next
<1>4. CASE UNCHANGED service
  BY <1>4 DEF service
<1> QED
  BY <1>1, <1>2, <1>3, <1>4 DEF ServiceNext, Next

(* Every step of the service is one of its repository, or none of those:   *)
(* a put is called with arguments that it may be called with.              *)
LEMMA StepPostgres ==
    ASSUME ServiceIInv, [ServiceNext]_service
    PROVE  [Postgres!Next]_(Postgres!vars)
<1>1. ASSUME NEW w \in Worker, CallKernel(w)
      PROVE  UNCHANGED Postgres!vars
  BY <1>1 DEF CallKernel, EligibleRoutes, ProposeClaim, RoutedRequest, PutReturns, CompleteClaim,
              CompleteUnknownAction, Complete, repository, transactions, Postgres!vars
<1>2. ASSUME NEW w \in Worker, DispatchToPostgres(w)
      PROVE  Postgres!Next \/ UNCHANGED Postgres!vars
  <2>1. CASE accepted[route[w]].action = Put
    <3>1. accepted[route[w]] \in Request /\ accepted[route[w]].request_id # NotUuid
      <4>1. /\ Knows(w) /\ pc[w] = "dispatch"
            /\ accepted \in [Route -> Request \cup {None}]
        BY <1>2 DEF DispatchToPostgres, Dispatch, ServiceIInv, IInv, TypeOK, PassState, At
      <4> QED
        BY <4>1 DEF Knows, At
    <3>2. PutOf(accepted[route[w]]) \in Repository!PutArguments
      BY <2>1, <3>1, PutType
    <3>3. PutOf(accepted[route[w]]) \in Postgres!PutArguments
      BY <3>2 DEF Repository!PutArguments, Postgres!PutArguments, Postgres!Promise!PutArguments
    <3> QED
      BY <1>2, <2>1, <3>3 DEF DispatchToPostgres, Postgres!Next
  <2>2. CASE accepted[route[w]].action # Put
    BY <1>2, <2>2 DEF DispatchToPostgres, Dispatch, repository, transactions, Postgres!vars
  <2> QED
    BY <2>1, <2>2
<1>3. ASSUME NEW w \in Worker, Execute(w) \/ StatementFails(w)
      PROVE  Postgres!Next
  BY <1>3 DEF Execute, StatementFails, Postgres!Next
<1>4. CASE UNCHANGED <<repository, transactions>>
  BY <1>4 DEF repository, transactions, Postgres!vars
<1> QED
  BY <1>1, <1>2, <1>3, <1>4
  DEF ServiceNext, Accept, LeaseExpires, Crash, service, vars, repository

LEMMA NoAnswerStep ==
    ASSUME IInv, NoAnswerYet, [Next]_vars
    PROVE  NoAnswerYet'
<1> USE DEF NoAnswerYet, IInv, TypeOK, Repository!TypeOK
<1>1. ASSUME NEW w \in Worker, NEW o, Repository!Answer(w, o)
      PROVE  NoAnswerYet'
  BY <1>1 DEF Repository!Answer
<1>2. ASSUME NEW w \in Worker, NEW arguments, Repository!Invoke(w, arguments)
      PROVE  NoAnswerYet'
  BY <1>2 DEF Repository!Invoke, Repository!Err
<1>3. CASE UNCHANGED Repository!vars
  BY <1>3 DEF Repository!vars
<1>4. ASSUME NEW w \in Worker, NEW d, NEW n, Repository!Perform(w, d, n)
      PROVE  NoAnswerYet'
  BY <1>1, <1>4 DEF Repository!Perform
<1>5. ASSUME NEW w \in Worker, Repository!Recognize(w)
      PROVE  NoAnswerYet'
  BY <1>1, <1>5 DEF Repository!Recognize
<1>6. ASSUME NEW w \in Worker, NEW error, Repository!Refuse(w, error)
      PROVE  NoAnswerYet'
  BY <1>1, <1>6 DEF Repository!Refuse
<1>7. [Repository!Next]_(Repository!vars)
  BY StepUsesRepository
<1> QED
  BY <1>2, <1>3, <1>4, <1>5, <1>6, <1>7 DEF Repository!Next

(* Each half keeps its invariant in the steps of the other.                *)
LEMMA ServiceStep ==
    ASSUME ServiceIInv, [ServiceNext]_service
    PROVE  ServiceIInv'
<1>1. [Next]_vars /\ [Postgres!Next]_(Postgres!vars)
  BY StepLoops, StepPostgres
<1>2. IInv' /\ NoAnswerYet'
  BY <1>1, InvStep, NoAnswerStep DEF ServiceIInv
<1>3. [Proved!Next]_(Proved!vars)
  BY <1>1, SameStatements, SamePut
  DEF Postgres!Next, Proved!Next, Postgres!vars, Proved!vars, Postgres!PutArguments,
      Proved!PutArguments, Postgres!Promise!PutArguments, Proved!Promise!PutArguments
<1>4. Proved!IInv'
  BY <1>3, Proved!InvStep, RepositoryAssumption DEF Proved!InvStep, ServiceIInv
<1> QED
  BY <1>2, <1>4 DEF ServiceIInv

LEMMA ServiceInitially == ServiceInit => ServiceIInv
<1>1. ServiceInit => IInv
  BY InvInit DEF ServiceInit
<1>2. ServiceInit => Proved!IInv
  BY SameInit, Proved!InvInit, RepositoryAssumption DEF Proved!InvInit, ServiceInit
<1>3. ServiceInit => NoAnswerYet
  BY DEF ServiceInit, Init, Repository!Init, NoAnswerYet
<1> QED
  BY <1>1, <1>2, <1>3 DEF ServiceIInv

(* The inductive invariant holds in every reachable state.                 *)
THEOREM ServiceInvariance == ServiceSpec => []ServiceIInv
<1>1. ServiceIInv /\ [ServiceNext]_service => ServiceIInv'
  BY ServiceStep
<1> QED
  BY <1>1, ServiceInitially, PTL DEF ServiceSpec

-----------------------------------------------------------------------------

(* The loops over PostgreSQL do nothing that the loops over the promise of *)
(* the trait do not do.                                                    *)
THEOREM ImplementsWorkLoopHolds == ServiceSpec => ImplementsWorkLoop
<1>1. ServiceInit => Init
  BY DEF ServiceInit
<1>2. ServiceIInv /\ [ServiceNext]_service => [Next]_vars
  BY StepLoops
<1> QED
  BY <1>1, <1>2, ServiceInvariance, PTL DEF ServiceSpec, Spec, ImplementsWorkLoop

(* The loops call put as its callers may, so what is proved of the         *)
(* repository holds in the service.                                        *)
THEOREM RunsPostgres == ServiceSpec => Postgres!Spec
<1>1. ServiceInit => Postgres!Init
  BY DEF ServiceInit
<1>2. ServiceIInv /\ [ServiceNext]_service => [Postgres!Next]_(Postgres!vars)
  BY StepPostgres
<1> QED
  BY <1>1, <1>2, ServiceInvariance, PTL DEF ServiceSpec, Postgres!Spec

(* From the statements of every transaction to the promise to the kernel:  *)
(* whatever races, waits, fails, is lost, expires or dies on the way, an   *)
(* accepted request is performed at most once, and its route completed     *)
(* only after that.                                                        *)
THEOREM ServiceDelivers == ServiceSpec => ImplementsDelivery
<1>1. Spec => ImplementsDelivery
  BY ImplementsDeliveryHolds
<1> QED
  BY <1>1, ImplementsWorkLoopHolds, PTL DEF ImplementsWorkLoop

=============================================================================
