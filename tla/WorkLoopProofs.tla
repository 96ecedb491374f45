--------------------------- MODULE WorkLoopProofs ---------------------------
(* Proofs about WorkLoop, for any number of workers, routes, requests,     *)
(* documents, faults and claims.                                           *)
EXTENDS WorkLoop, TLAPS

(* A pass that ends keeps its variables in their types.                    *)
LEMMA FinishType ==
    ASSUME TypeOK, NEW w \in Worker, NEW o \in WorkOutcome \cup {"Err", "Running"},
           NEW r \in Route \cup {None}, Finish(w, o, r)
    PROVE  /\ pc' \in [Worker -> Call]
           /\ route' \in [Worker -> Route \cup {None}]
           /\ fencing_token' \in [Worker -> Nat]
           /\ report' \in [Worker -> [outcome : WorkOutcome \cup {"Err", "Running"},
                                      route : Route \cup {None}]]
  BY DEF TypeOK, Finish, Goto, Report, Call, KernelCall

LEMMA FaultType ==
    ASSUME TypeOK, Fault \/ NoFault
    PROVE  faults' \in 0 .. MaxFaults
  BY ConstantsAssumption DEF TypeOK, Fault, NoFault

(* The repository's own steps keep its tables and calls in their types.    *)
LEMMA RepositoryType ==
    ASSUME TypeOK, NEW w \in Worker, RepositoryPut(w)
    PROVE  Repository!TypeOK'
<1> USE DEF TypeOK, Repository!TypeOK
<1>ans. ASSUME NEW o \in Repository!Outcome, Repository!Answer(w, o)
        PROVE  /\ call' \in [Worker -> Repository!PutArguments \cup {Repository!NoCall}]
               /\ outcome' \in [Worker -> Repository!Outcome]
  BY <1>ans DEF Repository!Answer
<1>ok. \A op \in Repository!OperationRow, b \in BOOLEAN : Repository!Ok(op, b) \in Repository!Outcome
  BY DEF Repository!Ok, Repository!Outcome, Repository!OperationRow
<1>err. \A e \in Repository!DocumentError : Repository!Err(e) \in Repository!Outcome
  BY DEF Repository!Err, Repository!Outcome
<1>1. ASSUME NEW d \in DocumentId, NEW n \in {1} \cup {m + 1 : m \in Repository!VersionsOf(d)},
             Repository!Perform(w, d, n)
      PROVE  Repository!TypeOK'
  <2>1. n \in Nat \ {0}
    BY DEF Repository!VersionsOf, Repository!VersionRow
  <2>2. call[w] \in Repository!PutArguments
    BY <1>1 DEF Repository!Perform, Repository!Answer
  <2>3. call[w].content \in Text /\ call[w].request_id \in RequestId
    BY <1>1, <2>2 DEF Repository!Perform, Repository!Valid, Repository!PutArguments
  <2>4. [request_id |-> call[w].request_id, document_id |-> d, version |-> n]
          \in Repository!OperationRow
    BY <2>1, <2>3 DEF Repository!OperationRow
  <2>5. [document_id |-> d, version |-> n, content |-> call[w].content] \in Repository!VersionRow
    BY <2>1, <2>3 DEF Repository!VersionRow
  <2>6. "Repository" \in Repository!DocumentError
    BY DEF Repository!DocumentError
  <2> QED
    BY <1>1, <1>ans, <1>ok, <1>err, <2>4, <2>5, <2>6 DEF Repository!Perform
<1>2. CASE Repository!Recognize(w)
  BY <1>2, <1>ans, <1>ok DEF Repository!Recognize
<1>3. ASSUME NEW e \in Repository!DocumentError, Repository!Refuse(w, e)
      PROVE  Repository!TypeOK'
  BY <1>3, <1>ans, <1>err DEF Repository!Refuse
<1> QED
  BY <1>1, <1>2, <1>3 DEF RepositoryPut

(* A put that dispatch makes has arguments of the repository's types.      *)
LEMMA PutType ==
    ASSUME NEW q \in Request, q.action = Put, q.request_id # NotUuid
    PROVE  PutOf(q) \in Repository!PutArguments
  BY ConstantsAssumption DEF PutOf, Repository!PutArguments, Put, Get

LEMMA TypeStep ==
    ASSUME TypeOK, PassState, [Next]_vars
    PROVE  TypeOK'
<1> USE DEF kernel, tables, repository, pass
<1>rep. ASSUME UNCHANGED repository
        PROVE  Repository!TypeOK'
  BY <1>rep DEF TypeOK, Repository!TypeOK
<1>fin. ASSUME NEW w \in Worker, NEW o \in WorkOutcome \cup {"Err", "Running"}, Finish(w, o, route[w])
        PROVE  /\ pc' \in [Worker -> Call]
               /\ route' \in [Worker -> Route \cup {None}]
               /\ fencing_token' \in [Worker -> Nat]
               /\ report' \in [Worker -> [outcome : WorkOutcome \cup {"Err", "Running"},
                                          route : Route \cup {None}]]
  BY <1>fin, FinishType DEF TypeOK
<1>fail. ASSUME NEW w \in Worker, NEW o \in WorkOutcome \cup {"Err", "Running"}, Finish(w, o, None)
         PROVE  /\ pc' \in [Worker -> Call]
                /\ route' \in [Worker -> Route \cup {None}]
                /\ fencing_token' \in [Worker -> Nat]
                /\ report' \in [Worker -> [outcome : WorkOutcome \cup {"Err", "Running"},
                                           route : Route \cup {None}]]
  BY <1>fail, FinishType
<1>1. ASSUME NEW r \in Route, NEW q \in Request, Accept(r, q)
      PROVE  TypeOK'
  BY <1>1, <1>rep DEF Accept, TypeOK
<1>2. ASSUME NEW w \in Worker, EligibleRoutes(w)
      PROVE  TypeOK'
  <2>1. CASE \E r \in Route : route' = [route EXCEPT ![w] = r] /\ Goto(w, "propose_claim")
                              /\ report' = [report EXCEPT ![w] = Report("Running", None)]
                              /\ UNCHANGED fencing_token
    BY <1>2, <2>1, <1>rep, FaultType
    DEF EligibleRoutes, TypeOK, Report, Goto, Call, KernelCall
  <2>2. CASE \E o \in {"NothingEligible", "Err"} : Finish(w, o, None)
    BY <1>2, <2>2, <1>rep, <1>fail, FaultType DEF EligibleRoutes, TypeOK, WorkOutcome
  <2> QED
    BY <1>2, <2>1, <2>2 DEF EligibleRoutes, FailPass, Eligible
<1>3. ASSUME NEW w \in Worker, ProposeClaim(w)
      PROVE  TypeOK'
  <2>1. route[w] \in Route
    BY <1>3 DEF ProposeClaim, PassState, Knows, At
  <2>2. claim[route[w]].fencing_token + 1 \in Nat
    BY <2>1 DEF TypeOK
  <2>3. claim' \in [Route -> [fencing_token : Nat, state : ClaimState]]
    BY <1>3, <2>1, <2>2 DEF ProposeClaim, TypeOK, ClaimState
  <2>4. /\ pc' \in [Worker -> Call]
        /\ route' \in [Worker -> Route \cup {None}]
        /\ fencing_token' \in [Worker -> Nat]
        /\ report' \in [Worker -> [outcome : WorkOutcome \cup {"Err", "Running"},
                                   route : Route \cup {None}]]
    <3>1. CASE FailPass(w) \/ Finish(w, "ClaimLost", route[w])
      BY <3>1, <1>fail, <1>fin DEF FailPass, WorkOutcome
    <3>2. CASE /\ fencing_token' =
                    [fencing_token EXCEPT ![w] = claim[route[w]].fencing_token + 1]
               /\ Goto(w, "routed_request")
               /\ UNCHANGED <<route, report>>
      BY <2>2, <3>2 DEF TypeOK, Goto, Call, KernelCall
    <3> QED
      BY <1>3, <3>1, <3>2 DEF ProposeClaim
  <2>5. UNCHANGED <<accepted, repository>> /\ (Fault \/ NoFault)
    BY <1>3 DEF ProposeClaim
  <2> QED
    BY <2>3, <2>4, <2>5, <1>rep, FaultType DEF TypeOK
<1>4. ASSUME NEW w \in Worker, RoutedRequest(w)
      PROVE  TypeOK'
  BY <1>4, <1>rep, <1>fail, <1>fin, FaultType
  DEF RoutedRequest, FailPass, TypeOK, Goto, Call, KernelCall, WorkOutcome
<1>5. ASSUME NEW w \in Worker, Dispatch(w)
      PROVE  TypeOK'
  <2>1. accepted[route[w]] \in Request /\ accepted[route[w]].request_id # NotUuid
    BY <1>5 DEF Dispatch, PassState, Knows, At, TypeOK
  <2>2. Repository!TypeOK'
    <3>1. CASE /\ accepted[route[w]].action = Put
               /\ Repository!Invoke(w, PutOf(accepted[route[w]]))
      <4>1. PutOf(accepted[route[w]]) \in Repository!PutArguments
        BY <2>1, <3>1, PutType
      <4>2. Repository!Err("NotReturned") \in Repository!Outcome
        BY DEF Repository!Err, Repository!Outcome
      <4> QED
        BY <3>1, <4>1, <4>2 DEF Repository!Invoke, Repository!TypeOK, TypeOK
    <3> QED
      BY <1>5, <3>1, <1>rep DEF Dispatch
  <2>3. /\ pc' \in [Worker -> Call]
        /\ route' \in [Worker -> Route \cup {None}]
        /\ fencing_token' \in [Worker -> Nat]
        /\ report' \in [Worker -> [outcome : WorkOutcome \cup {"Err", "Running"},
                                   route : Route \cup {None}]]
    <3>1. CASE FailPass(w)
      BY <3>1, <1>fail DEF FailPass
    <3>2. CASE /\ \E c \in {"put", "complete_claim", "complete_unknown_action"} : Goto(w, c)
               /\ UNCHANGED <<route, fencing_token, report>>
      BY <3>2 DEF TypeOK, Goto, Call, KernelCall
    <3> QED
      BY <1>5, <3>1, <3>2 DEF Dispatch
  <2>4. UNCHANGED kernel /\ (Fault \/ NoFault)
    BY <1>5 DEF Dispatch
  <2> QED
    BY <2>2, <2>3, <2>4, FaultType DEF TypeOK
<1>6. ASSUME NEW w \in Worker, PutReturns(w)
      PROVE  TypeOK'
  BY <1>6, <1>rep, <1>fail DEF PutReturns, FailPass, TypeOK, Goto, Call, KernelCall
<1>7. ASSUME NEW w \in Worker, CompleteClaim(w) \/ CompleteUnknownAction(w)
      PROVE  TypeOK'
  <2>1. route[w] \in Route
    BY <1>7 DEF CompleteClaim, CompleteUnknownAction, PassState, Knows, At
  <2>2. PICK o1, o2 \in WorkOutcome : Complete(w, o1, o2)
    BY <1>7 DEF CompleteClaim, CompleteUnknownAction, WorkOutcome
  <2> QED
    BY <2>1, <2>2, <1>rep, <1>fail, <1>fin, FaultType DEF Complete, FailPass, TypeOK, ClaimState
<1>8. ASSUME NEW w \in Worker, RepositoryPut(w)
      PROVE  TypeOK'
  BY <1>8, RepositoryType, FaultType DEF RepositoryPut, TypeOK
<1>9. ASSUME NEW w \in Worker, Crash(w)
      PROVE  TypeOK'
  BY <1>9, <1>rep, <1>fail, FaultType DEF Crash, TypeOK
<1>10. ASSUME NEW r \in Route, LeaseExpires(r)
       PROVE  TypeOK'
  BY <1>10, <1>rep, FaultType DEF LeaseExpires, TypeOK, ClaimState
<1>11. CASE UNCHANGED vars
  BY <1>11, <1>rep DEF vars, TypeOK
<1> QED
  BY <1>1, <1>2, <1>3, <1>4, <1>5, <1>6, <1>7, <1>8, <1>9, <1>10, <1>11 DEF Next, WorkOnce

-----------------------------------------------------------------------------

LEMMA InvInit == Init => IInv
<1> SUFFICES ASSUME Init PROVE IInv
  OBVIOUS
<1> USE DEF Init, Repository!Init
<1>1. TypeOK
  BY ConstantsAssumption
  DEF TypeOK, Repository!TypeOK, Repository!Err, Repository!Outcome, Report,
      ClaimState, Call, KernelCall
<1>2. PassState /\ ReportState /\ ReportsAreTrue
  BY DEF PassState, Knows, ReportState, ReportsAreTrue, At, Report
<1>3. CompletedOnlyAfterSuccess /\ DocumentsWereRequested
  BY DEF CompletedOnlyAfterSuccess, DocumentsWereRequested, Completed
<1> QED
  BY <1>1, <1>2, <1>3 DEF IInv

(* Tables only grow, so work that is done stays done.                      *)
LEMMA DoneStays ==
    ASSUME put_operations \subseteq put_operations',
           document_versions \subseteq document_versions',
           NEW q, Done(q)
    PROVE  Done(q)'
  BY DEF Done, Readable, Repository!Processed, Repository!VersionsOf

(* What a step of one worker, or of the repository on its behalf, leaves   *)
(* to the others: their passes, and every claim that was completed.        *)
LEMMA OthersKnow ==
    ASSUME PassState, NEW w \in Worker, accepted' = accepted,
           put_operations \subseteq put_operations',
           document_versions \subseteq document_versions',
           NEW x \in Worker, x # w,
           pc'[x] = pc[x], route'[x] = route[x], call'[x] = call[x], outcome'[x] = outcome[x]
    PROVE  Knows(x)'
<1>1. Knows(x)
  BY DEF PassState
<1>2. Done(accepted[route[x]]) => Done(accepted[route[x]])'
  <2>1. ASSUME NEW q, q = accepted[route[x]], Done(q)
        PROVE  Done(q)'
    BY <2>1, DoneStays
  <2>2. accepted'[route'[x]] = accepted[route[x]]
    OBVIOUS
  <2> QED
    BY <2>1, <2>2 DEF Done, Readable, Repository!Processed, Repository!VersionsOf
<1>3. \A r : Repository!Processed(r) => Repository!Processed(r)'
  BY DEF Repository!Processed
<1> QED
  BY <1>1, <1>2, <1>3 DEF Knows, At, Repository!Processed

(* A step of one pass.  It may complete a route whose work is done, and    *)
(* then says so in its report; what the tables hold it does not touch.     *)
LEMMA PassStep ==
    ASSUME IInv, TypeOK', NEW w \in Worker, accepted' = accepted, UNCHANGED tables,
           \A x \in Worker : x # w =>
               /\ pc'[x] = pc[x] /\ route'[x] = route[x] /\ report'[x] = report[x]
               /\ call'[x] = call[x] /\ outcome'[x] = outcome[x],
           Knows(w)',
           \A r \in Route : claim[r].state = "completed" => claim'[r].state = "completed",
           \A r \in Route : claim'[r].state = "completed" /\ claim[r].state # "completed" =>
               accepted[r] # None /\ Done(accepted[r]),
           report'[w].outcome \in {"Completed", "LostBeforeCompletion"} =>
               /\ report'[w].route \in Route
               /\ accepted[report'[w].route] # None,
           report'[w].outcome = "Completed" => claim'[report'[w].route].state = "completed",
           report'[w].outcome = "LostBeforeCompletion" => Done(accepted[report'[w].route])
    PROVE  IInv'
<1> USE DEF IInv, tables
<1>1. PassState'
  BY OthersKnow DEF PassState
<1>2. \A q : Done(q)' <=> Done(q)
  BY DEF Done, Readable, Repository!Processed, Repository!VersionsOf
<1>3. CompletedOnlyAfterSuccess'
  <2>1. ASSUME NEW r \in Route, claim'[r].state = "completed"
        PROVE  accepted'[r] # None /\ Done(accepted[r])
    BY <2>1 DEF CompletedOnlyAfterSuccess, Completed
  <2>2. ASSUME NEW r \in Route, NEW q, q = accepted[r], Done(q)
        PROVE  Done(accepted[r])'
    BY <2>2 DEF Done, Readable, Repository!Processed, Repository!VersionsOf
  <2> QED
    BY <2>1, <2>2 DEF CompletedOnlyAfterSuccess, Completed
<1>4. ReportState'
  BY DEF ReportState
<1>5. DocumentsWereRequested'
  BY DEF DocumentsWereRequested
<1>6. ReportsAreTrue'
  <2> SUFFICES ASSUME NEW x \in Worker
               PROVE  /\ report'[x].outcome = "Completed" => Completed(report[x].route)'
                      /\ report'[x].outcome = "LostBeforeCompletion" =>
                            Done(accepted[report[x].route])'
    BY DEF ReportsAreTrue
  <2>1. report'[x].outcome = "Completed" => claim'[report'[x].route].state = "completed"
    BY DEF ReportsAreTrue, ReportState, Completed
  <2>2. report'[x].outcome = "LostBeforeCompletion" => Done(accepted[report'[x].route])
    BY DEF ReportsAreTrue
  <2> QED
    BY <2>1, <2>2 DEF Completed, Done, Readable, Repository!Processed, Repository!VersionsOf
<1> QED
  BY <1>1, <1>3, <1>4, <1>5, <1>6

(* A pass that ends knows nothing any more.                                *)
LEMMA FinishKnows ==
    ASSUME TypeOK, NEW w \in Worker, NEW o, NEW r, Finish(w, o, r),
           call'[w] = Repository!NoCall
    PROVE  /\ Knows(w)'
           /\ report'[w] = Report(o, r)
           /\ \A x \in Worker : x # w =>
               pc'[x] = pc[x] /\ route'[x] = route[x] /\ report'[x] = report[x]
  BY DEF TypeOK, Finish, Goto, Knows, At

(* A pass that ends without having completed anything.                     *)
LEMMA EndStep ==
    ASSUME IInv, TypeOK', NEW w \in Worker, call[w] = Repository!NoCall,
           NEW o, NEW r, Finish(w, o, r),
           UNCHANGED <<kernel, repository>>,
           o # "Completed",
           o = "LostBeforeCompletion" =>
               r \in Route /\ accepted[r] # None /\ Done(accepted[r])
    PROVE  IInv'
<1>1. /\ Knows(w)'
      /\ report'[w] = Report(o, r)
      /\ \A x \in Worker : x # w =>
          pc'[x] = pc[x] /\ route'[x] = route[x] /\ report'[x] = report[x]
  BY FinishKnows DEF IInv, repository
<1> QED
  BY <1>1, PassStep DEF kernel, repository, tables, Report

(* A pass that goes on to its next call.                                   *)
LEMMA MoveStep ==
    ASSUME IInv, TypeOK', NEW w \in Worker, NEW c, Goto(w, c), UNCHANGED report,
           \A x \in Worker : x # w =>
               route'[x] = route[x] /\ call'[x] = call[x] /\ outcome'[x] = outcome[x],
           UNCHANGED <<accepted, tables>>, Knows(w)',
           \A r \in Route : claim[r].state = "completed" <=> claim'[r].state = "completed"
    PROVE  IInv'
<1>1. \A x \in Worker : x # w => pc'[x] = pc[x]
  BY DEF Goto, IInv, TypeOK
<1>2. /\ report[w].outcome \in {"Completed", "LostBeforeCompletion"} =>
            report[w].route \in Route /\ accepted[report[w].route] # None
      /\ report[w].outcome = "Completed" => claim'[report[w].route].state = "completed"
      /\ report[w].outcome = "LostBeforeCompletion" => Done(accepted[report[w].route])
  BY DEF IInv, ReportState, ReportsAreTrue, Completed
<1> QED
  BY <1>1, <1>2, PassStep

(* Completing: the route of the claim is the route whose work is done.     *)
LEMMA CompleteStep ==
    ASSUME IInv, TypeOK', NEW w \in Worker,
           pc[w] \in {"complete_claim", "complete_unknown_action"},
           NEW o1, NEW o2, Complete(w, o1, o2), o1 # "LostBeforeCompletion", o2 # "Completed"
    PROVE  IInv'
<1>1. /\ route[w] \in Route /\ accepted[route[w]] # None /\ Done(accepted[route[w]])
      /\ call[w] = Repository!NoCall
  BY DEF IInv, PassState, Knows, At
<1>2. UNCHANGED <<accepted, repository>>
  BY DEF Complete
<1>3. CASE /\ claim' = [claim EXCEPT ![route[w]].state = "completed"]
           /\ Finish(w, o1, route[w]) \/ FailPass(w)
  <2>1. \A r \in Route : /\ claim[r].state = "completed" => claim'[r].state = "completed"
                         /\ claim'[r].state = "completed" /\ claim[r].state # "completed" =>
                                r = route[w]
        /\ claim'[route[w]].state = "completed"
    BY <1>1, <1>3 DEF IInv, TypeOK
  <2>2. ASSUME NEW o, NEW r, Finish(w, o, r),
               o \in {"Completed", "LostBeforeCompletion"} => o = o1 /\ r = route[w]
        PROVE  IInv'
    <3>1. /\ Knows(w)' /\ report'[w] = Report(o, r)
          /\ \A x \in Worker : x # w =>
              pc'[x] = pc[x] /\ route'[x] = route[x] /\ report'[x] = report[x]
      BY <1>1, <1>2, <2>2, FinishKnows DEF IInv, repository
    <3> QED
      BY <1>1, <1>2, <2>1, <2>2, <3>1, PassStep DEF repository, tables, Report
  <2> QED
    BY <1>3, <2>2 DEF FailPass
<1>4. CASE UNCHANGED claim /\ (Finish(w, o2, route[w]) \/ FailPass(w))
  BY <1>1, <1>2, <1>4, EndStep DEF FailPass, kernel
<1> QED
  BY <1>3, <1>4 DEF Complete

(* The repository makes a put that dispatch asked for: version 1 of a new  *)
(* document, with the scope of the request, under its request_id.          *)
LEMMA PerformStep ==
    ASSUME IInv, NEW w \in Worker, NEW d \in DocumentId,
           NEW n \in {1} \cup {m + 1 : m \in Repository!VersionsOf(d)},
           Repository!Perform(w, d, n), UNCHANGED accepted
    PROVE  /\ DocumentsWereRequested'
           /\ \E op \in put_operations' : op.request_id = accepted[route[w]].request_id
<1> USE DEF IInv
<1>1. call[w] # Repository!NoCall
  BY DEF Repository!Perform, Repository!Answer
<1>2. /\ At(w, "put") /\ route[w] \in Route /\ accepted[route[w]] # None
      /\ accepted[route[w]].action = Put
      /\ call[w] = PutOf(accepted[route[w]])
  BY <1>1 DEF PassState, Knows, At
<1>3. PICK q : q = accepted[route[w]]
  OBVIOUS
<1>4. call[w].request_id = q.request_id /\ call[w].document_id = None /\ call[w].content = q.scope
  BY <1>2, <1>3 DEF PutOf
<1>5. n = 1
  BY <1>4, ConstantsAssumption DEF Repository!Perform, Repository!NextVersionOf
<1>6. Repository!VersionsOf(d) = {}
  BY <1>5 DEF Repository!Perform, Repository!NextVersionOf
<1>7. \A row \in document_versions : row.document_id # d
  BY <1>6 DEF Repository!VersionsOf
<1> DEFINE op == [request_id |-> q.request_id, document_id |-> d, version |-> 1]
           new == [document_id |-> d, version |-> 1, content |-> q.scope]
<1>8. /\ put_operations' = put_operations \cup {op}
      /\ document_versions' = document_versions \cup {new}
      /\ \A o \in put_operations : o.request_id # q.request_id
  BY <1>4, <1>5 DEF Repository!Perform, Repository!Processed
<1>9. \A o \in put_operations : o.document_id # d
  BY <1>7 DEF DocumentsWereRequested
<1>f. /\ op.request_id = q.request_id /\ op.document_id = d
      /\ new.document_id = d /\ new.version = 1 /\ new.content = q.scope
  OBVIOUS
<1> HIDE DEF op, new
<1>10. \A row \in document_versions' : row.version = 1 /\ \E o \in put_operations', r \in Route :
          /\ o.document_id = row.document_id
          /\ accepted'[r] # None
          /\ accepted'[r].action = Put
          /\ accepted'[r].request_id = o.request_id
          /\ accepted'[r].scope = row.content
  BY <1>2, <1>3, <1>8, <1>f DEF DocumentsWereRequested
<1>11. \A o \in put_operations' : \E row \in document_versions' : row.document_id = o.document_id
  BY <1>8, <1>f DEF DocumentsWereRequested
<1>12. \A row1, row2 \in document_versions' : row1.document_id = row2.document_id => row1 = row2
  BY <1>7, <1>8, <1>f DEF DocumentsWereRequested
<1>13. \A op1, op2 \in put_operations' :
          (op1.request_id = op2.request_id \/ op1.document_id = op2.document_id) => op1 = op2
  BY <1>8, <1>9, <1>f DEF DocumentsWereRequested
<1>14. \E o \in put_operations' : o.request_id = accepted[route[w]].request_id
  BY <1>3, <1>8, <1>f
<1> QED
  BY <1>10, <1>11, <1>12, <1>13, <1>14 DEF DocumentsWereRequested

LEMMA DocumentsQuiet ==
    ASSUME DocumentsWereRequested, UNCHANGED <<accepted, tables>>
    PROVE  DocumentsWereRequested'
  BY DEF DocumentsWereRequested, tables

(* A step of the repository: the tables grow by one requested document or  *)
(* stay; the put that was answered Ok is recorded.                         *)
LEMMA RepositoryStep ==
    ASSUME IInv, TypeOK', NEW w \in Worker, RepositoryPut(w)
    PROVE  IInv'
<1> USE DEF IInv, kernel, pass
<1>1. /\ call[w] # Repository!NoCall
      /\ call'[w] = Repository!NoCall
      /\ \A x \in Worker : x # w => call'[x] = call[x] /\ outcome'[x] = outcome[x]
  BY DEF RepositoryPut, Repository!Perform, Repository!Recognize, Repository!Refuse,
         Repository!Answer, TypeOK, Repository!TypeOK
<1>2. /\ At(w, "put") /\ route[w] \in Route /\ accepted[route[w]] # None
      /\ accepted[route[w]].action = Put /\ accepted[route[w]].request_id # NotUuid
      /\ call[w] = PutOf(accepted[route[w]])
      /\ call[w].request_id = accepted[route[w]].request_id
  BY <1>1 DEF PassState, Knows, At, PutOf
<1>3. /\ DocumentsWereRequested'
      /\ put_operations \subseteq put_operations'
      /\ document_versions \subseteq document_versions'
      /\ outcome'[w].result = "Ok" =>
            \E op \in put_operations' : op.request_id = accepted[route[w]].request_id
  <2>1. ASSUME NEW d \in DocumentId, NEW n \in {1} \cup {m + 1 : m \in Repository!VersionsOf(d)},
               Repository!Perform(w, d, n)
        PROVE  /\ DocumentsWereRequested'
               /\ put_operations \subseteq put_operations'
               /\ document_versions \subseteq document_versions'
               /\ \E op \in put_operations' : op.request_id = accepted[route[w]].request_id
    <3>1. UNCHANGED accepted
      BY DEF RepositoryPut
    <3> QED
      BY <2>1, <3>1, PerformStep DEF Repository!Perform
  <2>2. CASE Repository!Recognize(w)
    <3>1. UNCHANGED <<accepted, tables>>
      BY <2>2 DEF Repository!Recognize, RepositoryPut, tables
    <3>2. \E op \in put_operations' : op.request_id = accepted[route[w]].request_id
      BY <1>2, <2>2 DEF Repository!Recognize
    <3> QED
      BY <3>1, <3>2, DocumentsQuiet DEF tables
  <2>3. CASE \E e \in Repository!DocumentError : Repository!Refuse(w, e)
    <3>1. outcome'[w].result # "Ok"
      BY <2>3 DEF Repository!Refuse, Repository!Answer, Repository!Err, Repository!DocumentError,
                  TypeOK, Repository!TypeOK
    <3>2. UNCHANGED <<accepted, tables>>
      BY <2>3 DEF Repository!Refuse, RepositoryPut, tables
    <3> QED
      BY <3>1, <3>2, DocumentsQuiet DEF tables
  <2> QED
    BY <2>1, <2>2, <2>3 DEF RepositoryPut
<1>4. UNCHANGED <<kernel, pass>>
  BY DEF RepositoryPut
<1>5. PassState'
  <2>1. Knows(w)'
    BY <1>1, <1>2, <1>3, <1>4 DEF Knows, At, Repository!Processed
  <2> QED
    BY <1>1, <1>3, <1>4, <2>1, OthersKnow DEF PassState
<1>6. ASSUME NEW q, Done(q)
      PROVE  Done(q)'
  BY <1>3, <1>6, DoneStays
<1>7. CompletedOnlyAfterSuccess' /\ ReportsAreTrue' /\ ReportState'
  <2>1. \A q : Done(q) =>
          /\ q.request_id # NotUuid
          /\ q.action = Put => \E op \in put_operations' : op.request_id = q.request_id
          /\ q.action = Get => /\ q.scope # NotUuid
                               /\ {row.version : row \in {x \in document_versions' :
                                        x.document_id = q.scope}} # {}
    BY <1>6 DEF Done, Readable, Repository!Processed, Repository!VersionsOf
  <2> QED
    BY <1>4, <2>1 DEF CompletedOnlyAfterSuccess, ReportsAreTrue, ReportState, Completed,
        Done, Readable, Repository!Processed, Repository!VersionsOf
<1> QED
  BY <1>3, <1>5, <1>7

(* A new route changes nothing for the routes that exist.                  *)
LEMMA AcceptStep ==
    ASSUME IInv, TypeOK', NEW r \in Route, NEW q \in Request, Accept(r, q)
    PROVE  IInv'
<1> USE DEF IInv, repository, pass
<1>1. /\ accepted[r] = None /\ UNCHANGED <<claim, repository, pass>>
      /\ \A x \in Route : accepted[x] # None => accepted'[x] = accepted[x]
  BY DEF Accept, TypeOK
<1>2. \A x \in Worker : Knows(x)'
  <2> SUFFICES ASSUME NEW x \in Worker PROVE Knows(x)'
    OBVIOUS
  <2>1. Knows(x)
    BY DEF PassState
  <2>2. CASE At(x, "eligible_routes")
    BY <1>1, <2>1, <2>2 DEF Knows, At
  <2>3. CASE ~ At(x, "eligible_routes")
    <3>1. accepted'[route'[x]] = accepted[route[x]] /\ accepted[route[x]] # None
      BY <1>1, <2>1, <2>3 DEF Knows
    <3> QED
      BY <1>1, <2>1, <3>1
      DEF Knows, At, Done, Readable, Repository!Processed, Repository!VersionsOf
  <2> QED
    BY <2>2, <2>3
<1>3. CompletedOnlyAfterSuccess' /\ ReportState' /\ ReportsAreTrue'
  BY <1>1 DEF CompletedOnlyAfterSuccess, ReportState, ReportsAreTrue, Completed,
              Done, Readable, Repository!Processed, Repository!VersionsOf
<1>4. DocumentsWereRequested'
  BY <1>1 DEF DocumentsWereRequested
<1> QED
  BY <1>2, <1>3, <1>4 DEF PassState

(* A lease that expires takes no completion back and informs no worker.    *)
LEMMA QuietStep ==
    ASSUME IInv, TypeOK', UNCHANGED <<accepted, repository, pass>>,
           \A r \in Route : Completed(r)' <=> Completed(r)
    PROVE  IInv'
<1> USE DEF IInv, repository, pass
<1>1. PassState'
  BY DEF PassState, Knows, At, Done, Readable, Repository!Processed, Repository!VersionsOf
<1>2. DocumentsWereRequested' /\ ReportState'
  BY DEF DocumentsWereRequested, ReportState
<1>3. CompletedOnlyAfterSuccess'
  BY DEF CompletedOnlyAfterSuccess, Done, Readable, Repository!Processed, Repository!VersionsOf
<1>4. ReportsAreTrue'
  <2>1. ASSUME NEW w \in Worker, report[w].outcome = "Completed"
        PROVE  Completed(report[w].route)'
    <3>1. PICK r \in Route : r = report[w].route /\ Completed(r)
      BY <2>1 DEF ReportsAreTrue, ReportState
    <3>2. claim'[r].state = "completed"
      BY <3>1 DEF Completed
    <3> QED
      BY <3>1, <3>2 DEF Completed
  <2> QED
    BY <2>1 DEF ReportsAreTrue, Done, Readable, Repository!Processed, Repository!VersionsOf
<1> QED
  BY <1>1, <1>2, <1>3, <1>4

(* Every step preserves the inductive invariant.                           *)
LEMMA InvStep ==
    ASSUME IInv, [Next]_vars
    PROVE  IInv'
<1>t. TypeOK'
  BY TypeStep DEF IInv
<1> USE DEF kernel, repository, tables
<1>know. ASSUME NEW w \in Worker
         PROVE  /\ Knows(w) /\ TypeOK
                /\ ~ At(w, "put") => call[w] = Repository!NoCall
  BY DEF IInv, PassState, Knows
<1>end. ASSUME NEW w \in Worker, call[w] = Repository!NoCall, UNCHANGED <<kernel, repository>>,
               NEW o \in {"Err", "Running", "NothingEligible", "ClaimLost", "RequestUnavailable"},
               NEW r, Finish(w, o, r)
        PROVE  IInv'
  BY <1>end, <1>t, EndStep
<1>1. ASSUME NEW r \in Route, NEW q \in Request, Accept(r, q)
      PROVE  IInv'
  BY <1>1, <1>t, AcceptStep
<1>2. ASSUME NEW w \in Worker, EligibleRoutes(w)
      PROVE  IInv'
  <2>1. CASE \E o \in {"NothingEligible", "Err"} : Finish(w, o, None)
    BY <1>2, <2>1, <1>know, <1>end DEF EligibleRoutes, At
  <2>2. CASE /\ \E r \in Eligible : route' = [route EXCEPT ![w] = r]
             /\ report' = [report EXCEPT ![w] = Report("Running", None)]
             /\ Goto(w, "propose_claim")
    <3>1. Knows(w)'
      BY <1>2, <2>2, <1>know DEF EligibleRoutes, Eligible, Knows, At, Goto, TypeOK
    <3>2. /\ report'[w].outcome = "Running"
          /\ \A x \in Worker : x # w =>
              pc'[x] = pc[x] /\ route'[x] = route[x] /\ report'[x] = report[x]
      BY <2>2, <1>know DEF TypeOK, Goto, Report
    <3> QED
      BY <1>2, <1>t, <3>1, <3>2, PassStep DEF EligibleRoutes
  <2> QED
    BY <1>2, <2>1, <2>2 DEF EligibleRoutes, FailPass
<1>3. ASSUME NEW w \in Worker, ProposeClaim(w)
      PROVE  IInv'
  <2>1. /\ At(w, "propose_claim") /\ call[w] = Repository!NoCall /\ route[w] \in Route
        /\ UNCHANGED <<accepted, repository>>
    BY <1>3, <1>know DEF ProposeClaim, Knows, At
  <2>2. CASE UNCHANGED claim
    BY <1>3, <2>1, <2>2, <1>end DEF ProposeClaim, FailPass, IInv, TypeOK
  <2>3. CASE /\ claim[route[w]].state = "free"
             /\ claim' = [claim EXCEPT ![route[w]] =
                    [fencing_token |-> claim[route[w]].fencing_token + 1, state |-> "held"]]
    <3>1. \A r \in Route : claim[r].state = "completed" <=> claim'[r].state = "completed"
      BY <2>1, <2>3 DEF IInv, TypeOK
    <3>2. CASE FailPass(w)
      <4>1. /\ Knows(w)' /\ report'[w] = Report("Err", None)
            /\ \A x \in Worker : x # w =>
                pc'[x] = pc[x] /\ route'[x] = route[x] /\ report'[x] = report[x]
        BY <2>1, <3>2, <1>know, FinishKnows DEF FailPass
      <4> QED
        BY <2>1, <3>1, <4>1, <1>t, PassStep DEF Report
    <3>3. CASE Goto(w, "routed_request") /\ UNCHANGED <<route, report>>
      <4>1. Knows(w)'
        BY <2>1, <3>3, <1>know DEF Knows, At, Goto, TypeOK
      <4> QED
        BY <2>1, <3>1, <3>3, <4>1, <1>t, MoveStep
    <3> QED
      BY <1>3, <2>3, <3>2, <3>3 DEF ProposeClaim, Finish
  <2> QED
    BY <1>3, <2>2, <2>3 DEF ProposeClaim
<1>4. ASSUME NEW w \in Worker, RoutedRequest(w)
      PROVE  IInv'
  <2>1. CASE Goto(w, "dispatch") /\ UNCHANGED <<route, report>>
             /\ accepted[route[w]].request_id # NotUuid
    <3>1. Knows(w)'
      BY <1>4, <2>1, <1>know DEF RoutedRequest, Knows, At, Goto, TypeOK
    <3> QED
      BY <1>4, <2>1, <3>1, <1>t, MoveStep DEF RoutedRequest
  <2> QED
    BY <1>4, <2>1, <1>know, <1>end DEF RoutedRequest, FailPass, At
<1>5. ASSUME NEW w \in Worker, Dispatch(w)
      PROVE  IInv'
  <2>1. /\ At(w, "dispatch") /\ call[w] = Repository!NoCall
        /\ route[w] \in Route /\ accepted[route[w]] # None
        /\ accepted[route[w]].request_id # NotUuid
        /\ UNCHANGED <<kernel, tables>>
    BY <1>5, <1>know DEF Dispatch, Knows, At, Repository!Invoke
  <2>2. CASE FailPass(w) /\ UNCHANGED repository
    BY <2>1, <2>2, <1>end DEF FailPass
  <2>3. CASE /\ accepted[route[w]].action = Put
             /\ Repository!Invoke(w, PutOf(accepted[route[w]]))
             /\ Goto(w, "put") /\ UNCHANGED <<route, report>>
    <3>1. /\ pc'[w] = "put" /\ call'[w] = PutOf(accepted[route[w]])
          /\ outcome'[w].result # "Ok"
          /\ \A x \in Worker : x # w => call'[x] = call[x] /\ outcome'[x] = outcome[x]
      BY <2>3, <1>know DEF Goto, TypeOK, Repository!TypeOK, Repository!Invoke, Repository!Err
    <3>2. Knows(w)'
      BY <2>1, <2>3, <3>1 DEF Knows, At
    <3> QED
      BY <2>1, <2>3, <3>1, <3>2, <1>t, MoveStep
  <2>4. CASE /\ Done(accepted[route[w]])
             /\ \E c \in {"complete_claim", "complete_unknown_action"} : Goto(w, c)
             /\ UNCHANGED <<route, report, repository>>
    <3>1. Knows(w)'
      BY <2>1, <2>4, <1>know
      DEF Knows, At, Goto, TypeOK, Done, Readable, Repository!Processed, Repository!VersionsOf
    <3> QED
      BY <2>1, <2>4, <3>1, <1>t, MoveStep
  <2>5. ASSUME \/ /\ accepted[route[w]].action = Get
                  /\ accepted[route[w]].scope # NotUuid
                  /\ Readable(accepted[route[w]].scope)
               \/ accepted[route[w]].action = Search
               \/ accepted[route[w]].action \notin {Put, Get, Search}
        PROVE  Done(accepted[route[w]])
    BY <2>1, <2>5 DEF Done, Put, Get, Search
  <2> QED
    BY <1>5, <2>2, <2>3, <2>4, <2>5 DEF Dispatch
<1>6. ASSUME NEW w \in Worker, PutReturns(w)
      PROVE  IInv'
  <2>1. /\ At(w, "put") /\ call[w] = Repository!NoCall /\ UNCHANGED <<kernel, repository>>
    BY <1>6 DEF PutReturns
  <2>2. CASE FailPass(w)
    BY <2>1, <2>2, <1>end DEF FailPass
  <2>3. CASE /\ outcome[w].result = "Ok" /\ Goto(w, "complete_claim")
             /\ UNCHANGED <<route, report>>
    <3>1. Done(accepted[route[w]])
      BY <2>1, <2>3, <1>know DEF Knows, At, Done, Put, Get
    <3>2. Knows(w)'
      BY <2>1, <2>3, <3>1, <1>know
      DEF Knows, At, Goto, TypeOK, Done, Readable, Repository!Processed, Repository!VersionsOf
    <3> QED
      BY <2>1, <2>3, <3>2, <1>t, MoveStep
  <2> QED
    BY <1>6, <2>2, <2>3 DEF PutReturns
<1>7. ASSUME NEW w \in Worker, CompleteClaim(w) \/ CompleteUnknownAction(w)
      PROVE  IInv'
  BY <1>7, <1>t, CompleteStep DEF CompleteClaim, CompleteUnknownAction, At
<1>8. ASSUME NEW w \in Worker, RepositoryPut(w)
      PROVE  IInv'
  BY <1>8, <1>t, RepositoryStep
<1>9. ASSUME NEW w \in Worker, Crash(w)
      PROVE  IInv'
  BY <1>9, <1>end DEF Crash
<1>10. ASSUME NEW r \in Route, LeaseExpires(r)
       PROVE  IInv'
  <2>1. /\ UNCHANGED <<accepted, repository, pass>>
        /\ \A x \in Route : Completed(x)' <=> Completed(x)
    BY <1>10 DEF LeaseExpires, Completed, IInv, TypeOK
  <2> QED
    BY <2>1, <1>t, QuietStep
<1>11. CASE UNCHANGED vars
  BY <1>11, <1>t, QuietStep DEF vars, pass, Completed
<1> QED
  BY <1>1, <1>2, <1>3, <1>4, <1>5, <1>6, <1>7, <1>8, <1>9, <1>10, <1>11 DEF Next, WorkOnce

-----------------------------------------------------------------------------

(* The inductive invariant holds in every reachable state.                 *)
THEOREM Invariance == Spec => []IInv
<1>1. IInv /\ [Next]_vars => IInv'
  BY InvStep
<1> QED
  BY <1>1, InvInit, PTL DEF Spec

(* Every variable of the loop, the kernel and the repository has its type. *)
THEOREM TypeCorrect == Spec => []TypeOK
<1>1. IInv => TypeOK
  BY DEF IInv
<1> QED
  BY <1>1, Invariance, PTL

(* The claim is only ever completed if the domain operation succeeded, for *)
(* any number of workers and whatever is lost, crashes or expires.         *)
THEOREM CompletedOnlyAfterSuccessHolds == Spec => []CompletedOnlyAfterSuccess
<1>1. IInv => CompletedOnlyAfterSuccess
  BY DEF IInv
<1> QED
  BY <1>1, Invariance, PTL

(* One document per put request, made for that request and holding its     *)
(* scope: at-least-once delivery has an exactly-once effect.               *)
THEOREM DocumentsWereRequestedHolds == Spec => []DocumentsWereRequested
<1>1. IInv => DocumentsWereRequested
  BY DEF IInv
<1> QED
  BY <1>1, Invariance, PTL

(* Completed is reported of completed routes only, and a fenced completion *)
(* leaves the domain work in place.                                        *)
THEOREM ReportsAreTrueHolds == Spec => []ReportsAreTrue
<1>1. IInv => ReportsAreTrue
  BY DEF IInv
<1> QED
  BY <1>1, Invariance, PTL

(* A put whose route is completed is not made again: completion implies    *)
(* that it is recorded, and a recorded request_id is only recognized.      *)
THEOREM NoMutationAfterCompletionHolds == Spec => NoMutationAfterCompletion
<1> DEFINE Quiet == \A r \in Route : \A op \in put_operations' \ put_operations :
        (Completed(r) /\ accepted[r].action = Put) => op.request_id # accepted[r].request_id
<1>1. ASSUME IInv, [Next]_vars
      PROVE  Quiet
  <2> SUFFICES ASSUME NEW r \in Route, NEW op \in put_operations' \ put_operations,
                      Completed(r), accepted[r].action = Put
               PROVE  op.request_id # accepted[r].request_id
    OBVIOUS
  <2>1. Repository!Processed(accepted[r].request_id)
    BY <1>1 DEF IInv, CompletedOnlyAfterSuccess, Done
  <2>2. PICK w \in Worker : RepositoryPut(w)
    <3>1. put_operations' # put_operations
      OBVIOUS
    <3>2. ASSUME NEW w \in Worker, Dispatch(w)
          PROVE  FALSE
      BY <3>1, <3>2 DEF Dispatch, Repository!Invoke, repository
    <3>3. ASSUME UNCHANGED repository
          PROVE  FALSE
      BY <3>1, <3>3 DEF repository
    <3> QED
      BY <1>1, <3>1, <3>2, <3>3
      DEF Next, WorkOnce, Accept, EligibleRoutes, ProposeClaim, RoutedRequest, PutReturns,
          CompleteClaim, CompleteUnknownAction, Complete, LeaseExpires, Crash, vars
  <2>3. PICK d \in DocumentId : \E n : Repository!Perform(w, d, n)
    BY <2>2 DEF RepositoryPut, Repository!Recognize, Repository!Refuse
  <2>4. op.request_id = call[w].request_id /\ ~ Repository!Processed(call[w].request_id)
    BY <2>3 DEF Repository!Perform
  <2> QED
    BY <2>1, <2>4
<1>2. IInv /\ [Next]_vars => [Quiet]_vars
  BY <1>1
<1> QED
  BY <1>2, Invariance, PTL DEF Spec, NoMutationAfterCompletion

-----------------------------------------------------------------------------

(* A put that the repository performs is the abstract Perform, for the     *)
(* route its worker holds: the document is new, and so is the request_id.  *)
LEMMA PerformDelivers ==
    ASSUME IInv, NEW w \in Worker, NEW d \in DocumentId,
           NEW n \in {1} \cup {m + 1 : m \in Repository!VersionsOf(d)},
           Repository!Perform(w, d, n), UNCHANGED kernel
    PROVE  Delivery!Next
<1> USE DEF IInv
<1>1. call[w] # Repository!NoCall
  BY DEF Repository!Perform, Repository!Answer
<1>2. /\ At(w, "put") /\ route[w] \in Route /\ accepted[route[w]] # None
      /\ accepted[route[w]].action = Put /\ accepted[route[w]].request_id # NotUuid
      /\ call[w] = PutOf(accepted[route[w]])
  BY <1>1 DEF PassState, Knows, At
<1>3. PICK r \in Route : r = route[w]
  BY <1>2
<1> DEFINE q == accepted[r]
<1>4. /\ call[w].request_id = q.request_id /\ call[w].document_id = None
      /\ call[w].content = q.scope
  BY <1>2, <1>3 DEF PutOf
<1>5. n = 1 /\ Repository!VersionsOf(d) = {}
  <2>1. n = 1
    BY <1>4, ConstantsAssumption DEF Repository!Perform, Repository!NextVersionOf
  <2> QED
    BY <2>1 DEF Repository!Perform, Repository!NextVersionOf
<1>6. q.scope # Blank
  BY <1>4, ConstantsAssumption DEF Repository!Perform, Repository!Valid
<1>7. \A op \in put_operations : op.request_id # q.request_id
  BY <1>4 DEF Repository!Perform, Repository!Processed
<1>8. \A row \in document_versions : row.document_id # d
  BY <1>5 DEF Repository!VersionsOf
<1>9. /\ document_versions' = document_versions \cup
            {[document_id |-> d, version |-> 1, content |-> q.scope]}
      /\ put_operations' = put_operations \cup
            {[request_id |-> q.request_id, document_id |-> d, version |-> 1]}
  BY <1>4, <1>5 DEF Repository!Perform
<1> HIDE DEF q, IInv
<1>10. Delivery!Understood(q) /\ q.action = Put
  BY <1>2, <1>3 DEF Delivery!Understood, q
<1>11. ~ Delivery!Performed(q)
  BY <1>7 DEF Delivery!Performed
<1>12. ~ Delivery!Exists(d)
  BY <1>8 DEF Delivery!Exists
<1> DEFINE Docs(T) == {[document_id |-> row.document_id, content |-> row.content] : row \in T}
           Puts(T) == {[request_id |-> op.request_id, document_id |-> op.document_id] : op \in T}
<1>13. Docs(document_versions') =
         Docs(document_versions) \cup {[document_id |-> d, content |-> q.scope]}
  <2>1. \A T, row : Docs(T \cup {row}) =
          Docs(T) \cup {[document_id |-> row.document_id, content |-> row.content]}
    BY Zenon
  <2> HIDE DEF Docs
  <2> QED
    BY <1>9, <2>1
<1>14. Puts(put_operations') =
         Puts(put_operations) \cup {[request_id |-> q.request_id, document_id |-> d]}
  <2>1. \A T, op : Puts(T \cup {op}) =
          Puts(T) \cup {[request_id |-> op.request_id, document_id |-> op.document_id]}
    BY Zenon
  <2> HIDE DEF Puts
  <2> QED
    BY <1>9, <2>1
<1>15. accepted' = accepted /\ {x \in Route : Completed(x)}' = {x \in Route : Completed(x)}
  BY DEF kernel, Completed
<1>16. Delivery!Perform(r, d)
  BY <1>6, <1>10, <1>11, <1>12, <1>13, <1>14, <1>15
  DEF Delivery!Perform, Delivery!Put, Put, q
<1> QED
  BY <1>16 DEF Delivery!Next

(* Every call, answer, fault and expiry is a step of the promise, or none. *)
LEMMA StepDelivers ==
    ASSUME IInv, [Next]_vars
    PROVE  [Delivery!Next]_(Delivery!vars)
<1> USE DEF kernel, tables, repository, pass
<1>quiet. ASSUME UNCHANGED <<accepted, tables>>,
                 \A x \in Route : Completed(x)' <=> Completed(x)
          PROVE  UNCHANGED Delivery!vars
  <2>1. {x \in Route : Completed(x)}' = {x \in Route : Completed(x)}
    BY <1>quiet
  <2> QED
    BY <1>quiet, <2>1 DEF Delivery!vars
<1>same. ASSUME UNCHANGED <<accepted, claim, tables>>
         PROVE  UNCHANGED Delivery!vars
  BY <1>same, <1>quiet DEF Completed
<1>1. ASSUME NEW r \in Route, NEW q \in Request, Accept(r, q)
      PROVE  Delivery!Next
  <2>1. Delivery!Accept(r, q)
    BY <1>1 DEF Accept, Delivery!Accept, Completed
  <2> QED
    BY <2>1 DEF Delivery!Next
<1>2. ASSUME NEW w \in Worker, ProposeClaim(w)
      PROVE  UNCHANGED Delivery!vars
  <2>1. route[w] \in Route
    BY <1>2 DEF ProposeClaim, IInv, PassState, Knows, At
  <2>2. \A x \in Route : Completed(x)' <=> Completed(x)
    BY <1>2, <2>1 DEF ProposeClaim, Completed, IInv, TypeOK
  <2> QED
    BY <1>2, <2>2, <1>quiet DEF ProposeClaim
<1>3. ASSUME NEW w \in Worker,
             \/ EligibleRoutes(w) \/ RoutedRequest(w) \/ PutReturns(w) \/ Crash(w)
      PROVE  UNCHANGED Delivery!vars
  BY <1>3, <1>same DEF EligibleRoutes, RoutedRequest, PutReturns, Crash
<1>4. ASSUME NEW w \in Worker, Dispatch(w)
      PROVE  UNCHANGED Delivery!vars
  BY <1>4, <1>same DEF Dispatch, Repository!Invoke
<1>5. ASSUME NEW w \in Worker, CompleteClaim(w) \/ CompleteUnknownAction(w)
      PROVE  Delivery!Next \/ UNCHANGED Delivery!vars
  <2>1. /\ route[w] \in Route /\ accepted[route[w]] # None /\ Done(accepted[route[w]])
        /\ UNCHANGED <<accepted, tables>>
    BY <1>5 DEF CompleteClaim, CompleteUnknownAction, Complete, IInv, PassState, Knows, At
  <2>2. CASE claim' = claim
    BY <2>1, <2>2, <1>same
  <2>3. CASE Holds(w) /\ claim' = [claim EXCEPT ![route[w]].state = "completed"]
    <3>1. PICK r \in Route : r = route[w]
      BY <2>1
    <3>2. /\ ~ Completed(r)
          /\ {x \in Route : Completed(x)}' = {x \in Route : Completed(x)} \cup {r}
      BY <2>3, <3>1 DEF Holds, Completed, IInv, TypeOK
    <3>3. accepted[r].action = Get => Delivery!Exists(accepted[r].scope)
      <4> SUFFICES ASSUME accepted[r].action = Get
                   PROVE  Delivery!Exists(accepted[r].scope)
        OBVIOUS
      <4>1. PICK row \in document_versions : row.document_id = accepted[r].scope
        BY <2>1, <3>1 DEF Done, Readable, Repository!VersionsOf
      <4> DEFINE document == [document_id |-> row.document_id, content |-> row.content]
      <4>2. document.document_id = accepted[r].scope
        BY <4>1
      <4> QED
        BY <4>1, <4>2 DEF Delivery!Exists
    <3>4. accepted[r].action = Put => Delivery!Performed(accepted[r])
      <4> SUFFICES ASSUME accepted[r].action = Put
                   PROVE  Delivery!Performed(accepted[r])
        OBVIOUS
      <4>1. PICK op \in put_operations : op.request_id = accepted[r].request_id
        BY <2>1, <3>1 DEF Done, Repository!Processed
      <4> DEFINE put == [request_id |-> op.request_id, document_id |-> op.document_id]
      <4>2. put.request_id = accepted[r].request_id
        BY <4>1
      <4> QED
        BY <4>1, <4>2 DEF Delivery!Performed
    <3>5. Delivery!Understood(accepted[r])
      BY <2>1, <3>1 DEF Done, Delivery!Understood
    <3>6. Delivery!Complete(r)
      BY <2>1, <3>2, <3>3, <3>4, <3>5 DEF Delivery!Complete, Delivery!Put, Delivery!Get, Put, Get
    <3> QED
      BY <3>6 DEF Delivery!Next
  <2> QED
    BY <1>5, <2>2, <2>3 DEF CompleteClaim, CompleteUnknownAction, Complete
<1>6. ASSUME NEW w \in Worker, RepositoryPut(w)
      PROVE  Delivery!Next \/ UNCHANGED Delivery!vars
  <2>1. CASE \E d \in DocumentId : \E n \in {1} \cup {m + 1 : m \in Repository!VersionsOf(d)} :
               Repository!Perform(w, d, n)
    BY <1>6, <2>1, PerformDelivers DEF RepositoryPut
  <2>2. CASE Repository!Recognize(w) \/ \E e \in Repository!DocumentError : Repository!Refuse(w, e)
    BY <1>6, <2>2, <1>same DEF RepositoryPut, Repository!Recognize, Repository!Refuse
  <2> QED
    BY <1>6, <2>1, <2>2 DEF RepositoryPut
<1>7. ASSUME NEW r \in Route, LeaseExpires(r)
      PROVE  UNCHANGED Delivery!vars
  <2>1. \A x \in Route : Completed(x)' <=> Completed(x)
    BY <1>7 DEF LeaseExpires, Completed, IInv, TypeOK
  <2> QED
    BY <1>7, <2>1, <1>quiet DEF LeaseExpires
<1>8. CASE UNCHANGED vars
  BY <1>8, <1>same DEF vars
<1> QED
  BY <1>1, <1>2, <1>3, <1>4, <1>5, <1>6, <1>7, <1>8 DEF Next, WorkOnce

(* Whatever is lost, crashes, expires or is delivered twice: seen by the   *)
(* kernel and in the tables, each accepted request is performed at most    *)
(* once and completed only after that.                                     *)
THEOREM ImplementsDeliveryHolds == Spec => ImplementsDelivery
<1>1. Init => Delivery!Init
  BY DEF Init, Repository!Init, Delivery!Init, Completed
<1>2. IInv /\ [Next]_vars => [Delivery!Next]_(Delivery!vars)
  BY StepDelivers
<1> QED
  BY <1>1, <1>2, Invariance, PTL DEF Spec, ImplementsDelivery, Delivery!Spec

-----------------------------------------------------------------------------

(* The loop puts what the promise allows, one put per worker at a time,    *)
(* and a pass that fails, is fenced or dies leaves tables and calls alone. *)
LEMMA StepUsesRepository ==
    ASSUME IInv, [Next]_vars
    PROVE  [Repository!Next]_(Repository!vars)
<1> USE DEF repository, tables
<1>1. ASSUME NEW w \in Worker, Dispatch(w), ~ UNCHANGED repository
      PROVE  Repository!Next
  <2>1. PICK q : q = accepted[route[w]]
    OBVIOUS
  <2>2. q \in Request /\ q.request_id # NotUuid
    <3>1. /\ Knows(w) /\ pc[w] = "dispatch"
          /\ accepted \in [Route -> Request \cup {None}]
      BY <1>1 DEF Dispatch, IInv, TypeOK, PassState, At
    <3> QED
      BY <2>1, <3>1 DEF Knows, At
  <2>3. q.action = Put /\ Repository!Invoke(w, PutOf(q))
    BY <1>1, <2>1 DEF Dispatch
  <2> QED
    BY <2>2, <2>3, PutType DEF Repository!Next
<1>2. ASSUME NEW w \in Worker, RepositoryPut(w)
      PROVE  Repository!Next
  BY <1>2 DEF RepositoryPut, Repository!Next
<1>3. CASE UNCHANGED repository
  BY <1>3 DEF Repository!vars
<1> QED
  BY <1>1, <1>2, <1>3
  DEF Next, WorkOnce, Accept, EligibleRoutes, ProposeClaim, RoutedRequest, PutReturns,
      CompleteClaim, CompleteUnknownAction, Complete, LeaseExpires, Crash, vars

(* The loop uses the repository as its callers may and in no other way, so *)
(* it relies on nothing but the promise of the trait.                      *)
THEOREM UsesRepositoryAsPromised == Spec => Repository!Spec
<1>1. Init => Repository!Init
  BY DEF Init
<1>2. IInv /\ [Next]_vars => [Repository!Next]_(Repository!vars)
  BY StepUsesRepository
<1> QED
  BY <1>1, <1>2, Invariance, PTL DEF Spec, Repository!Spec

=============================================================================
