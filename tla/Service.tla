------------------------------- MODULE Service -------------------------------
(***************************************************************************)
(* The whole service: the work loops of WorkLoop over the repository that  *)
(* src/lib.rs gives them, PostgresDocumentRepository, instead of over the  *)
(* promise of its trait.  Between two statements of a put the other        *)
(* workers make their calls and execute their statements, leases expire,   *)
(* and requests arrive.                                                    *)
(*                                                                         *)
(* A worker is one process with one work loop, so it executes one put at a *)
(* time, and stands still at the call of dispatch until it returns.        *)
(***************************************************************************)
EXTENDS WorkLoop

VARIABLES
    documents,   \* PostgreSQL: see PostgresDocumentRepository, as all three
    statement,   \* repository: the statement each put executes next
    txn

Postgres == INSTANCE PostgresDocumentRepository
                WITH Caller <- Worker, ContentType <- Text, pc <- statement

transactions == <<documents, statement, txn>>
service == <<vars, transactions>>

ServiceInit == Init /\ Postgres!Init

-----------------------------------------------------------------------------

(* `repository.put(...)` is called with what dispatch makes of the request;*)
(* the other actions, and every other call of a pass, execute no statement *)
(* that writes.                                                            *)
DispatchToPostgres(w) ==
    /\ Dispatch(w)
    /\ IF accepted[route[w]].action = Put
       THEN Postgres!Put(w, PutOf(accepted[route[w]]))
       ELSE UNCHANGED transactions

(* What the put of w answers may be an error of the database.              *)
DatabaseFault(w) == IF outcome'[w].result = "Repository" THEN Fault ELSE NoFault

(* PostgreSQL executes the statement the put of w is at.                   *)
Execute(w) == Postgres!Statements(w) /\ DatabaseFault(w) /\ UNCHANGED <<kernel, pass>>

StatementFails(w) == Postgres!Fail(w) /\ DatabaseFault(w) /\ UNCHANGED <<kernel, pass>>

(* The calls to the kernel, and the return of the put.                     *)
CallKernel(w) ==
    /\ \/ EligibleRoutes(w)
       \/ ProposeClaim(w)
       \/ RoutedRequest(w)
       \/ PutReturns(w)
       \/ CompleteClaim(w)
       \/ CompleteUnknownAction(w)
    /\ UNCHANGED transactions

ServiceNext ==
    \/ \E r \in Route, q \in Request : Accept(r, q) /\ UNCHANGED transactions
    \/ \E w \in Worker : \/ CallKernel(w)
                         \/ DispatchToPostgres(w)
                         \/ Execute(w)
                         \/ StatementFails(w)
                         \/ Crash(w) /\ UNCHANGED transactions
    \/ \E r \in Route : LeaseExpires(r) /\ UNCHANGED transactions

ServiceSpec == ServiceInit /\ [][ServiceNext]_service

(* `run` loops for ever, statements end, leases run out, and PostgreSQL    *)
(* queues who waits for a request_id that is not committed.                *)
ServiceFairness ==
    /\ \A w \in Worker :
        /\ WF_service(CallKernel(w) \/ DispatchToPostgres(w))
        /\ WF_service(Execute(w))
        /\ SF_service(Postgres!InsertPutOperation(w) /\ Execute(w))
    /\ \A r \in Route : WF_service(LeaseExpires(r) /\ ~ Working(r) /\ UNCHANGED transactions)

FairServiceSpec == ServiceSpec /\ ServiceFairness

-----------------------------------------------------------------------------

(* The loops find in PostgreSQL what the trait promises them: with its     *)
(* statements in place of the promise they do nothing that WorkLoop does   *)
(* not do, so what holds of WorkLoop holds of the service.                 *)
ImplementsWorkLoop == Spec

(* A request that can be performed is performed and its route completed in *)
(* the end, whatever calls, answers, claims and processes were lost.       *)
Performable(q) == /\ q.request_id # NotUuid
                  /\ q.action = Put => q.scope # Blank
                  /\ q.action # Get

AcceptedWorkIsCompleted ==
    \A r \in Route : (accepted[r] # None /\ Performable(accepted[r])) ~> Completed(r)

=============================================================================
