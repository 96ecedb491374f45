------------------------------ MODULE WorkLoop ------------------------------
(***************************************************************************)
(* The receive / dispatch / complete passes of src/lib.rs (work_once, run) *)
(* and src/dispatch.rs, between two authorities that share no transaction: *)
(* the kernel, which owns routes, claims and fencing tokens, and the       *)
(* document repository.                                                    *)
(*                                                                         *)
(* A worker is the loop of one process.  There are several: the Pods of a  *)
(* rolling update, or a process that is about to die next to the one that  *)
(* takes over (so a call that arrives late is a worker that is slow to     *)
(* send it).  pc names the call of work_once the worker makes next; a call *)
(* is one step with the answers it may get: applied and answered, applied  *)
(* and the answer lost, or not applied.  Between two calls anything may    *)
(* happen: leases expire, other workers claim, requests arrive.            *)
(*                                                                         *)
(* The kernel is modelled from what kernel_client.rs, claims.rs, routes.rs *)
(* and routed_request.rs make of its answers.  The repository is the       *)
(* promise of DocumentRepository, which PostgresDocumentRepository keeps.  *)
(***************************************************************************)
EXTENDS Naturals

CONSTANTS
    Worker,
    RouteCount,    \* bound: how many routes the kernel ever makes
    Request,       \* what may be accepted: [request_id, action, scope]
    RequestId, DocumentId, Text, Blank, None,
    TextPlain,     \* the content type dispatch gives every document
    NotUuid,       \* a request_id, or a get scope, that does not parse
    MaxFaults,     \* bound: lost calls, crashes, failures, early expiries
    MaxClaims      \* bound: how often one route is claimed

VARIABLES
    accepted,           \* kernel: the request each route delivers
    claim,              \* kernel: latest claim of each route
    document_versions,  \* repository: see DocumentRepository
    put_operations,
    call,
    outcome,
    pc,                 \* worker: the call it makes next
    route,              \* worker: the route it took from the list
    fencing_token,      \* worker: the token of the claim it was granted
    report,             \* worker: the Result<WorkOutcome> of its last pass
    faults              \* how many faults have struck so far

Repository == INSTANCE DocumentRepository WITH Caller <- Worker, ContentType <- Text

Route == 1 .. RouteCount     \* in the order of (created_at, route_id)

Put == "librarian.document.put"
Get == "librarian.document.get"
Search == "librarian.document.search"
Action == {Put, Get, Search, "another.action"}

ASSUME ConstantsAssumption ==
    /\ RouteCount \in Nat /\ MaxFaults \in Nat /\ MaxClaims \in Nat
    /\ TextPlain \in Text /\ Blank \notin Text
    /\ None \notin Request \cup RequestId \cup DocumentId \cup Text \cup {Blank} \cup Nat
    /\ NotUuid \notin RequestId \cup DocumentId
    /\ \A q \in Request :
        /\ q.request_id \in RequestId \cup {NotUuid}
        /\ q.action \in Action
        /\ q.scope \in IF q.action = Get THEN DocumentId \cup {NotUuid} ELSE Text \cup {Blank}
    /\ \A q1, q2 \in Request :
        q1.request_id = q2.request_id => q1 = q2 \/ q1.request_id = NotUuid

kernel == <<accepted, claim>>
tables == <<document_versions, put_operations>>
repository == <<document_versions, put_operations, call, outcome>>
pass == <<pc, route, fencing_token, report>>
vars == <<accepted, claim, document_versions, put_operations, call, outcome,
          pc, route, fencing_token, report, faults>>

ClaimState == {"free", "held", "completed"}
KernelCall == {"eligible_routes", "propose_claim", "routed_request", "complete_claim",
               "complete_unknown_action"}
Call == KernelCall \cup {"dispatch", "put"}
WorkOutcome == {"NothingEligible", "ClaimLost", "RequestUnavailable", "LostBeforeCompletion",
                "Completed", "UnknownAction"}

TypeOK ==
    /\ accepted \in [Route -> Request \cup {None}]
    /\ claim \in [Route -> [fencing_token : Nat, state : ClaimState]]
    /\ Repository!TypeOK
    /\ pc \in [Worker -> Call]
    /\ route \in [Worker -> Route \cup {None}]
    /\ fencing_token \in [Worker -> Nat]
    /\ report \in [Worker -> [outcome : WorkOutcome \cup {"Err", "Running"},
                              route : Route \cup {None}]]
    /\ faults \in 0 .. MaxFaults

Report(o, r) == [outcome |-> o, route |-> r]

Init ==
    /\ accepted = [r \in Route |-> None]
    /\ claim = [r \in Route |-> [fencing_token |-> 0, state |-> "free"]]
    /\ Repository!Init
    /\ pc = [w \in Worker |-> "eligible_routes"]
    /\ route = [w \in Worker |-> None]
    /\ fencing_token = [w \in Worker |-> 0]
    /\ report = [w \in Worker |-> Report("Running", None)]
    /\ faults = 0

-----------------------------------------------------------------------------

At(w, c) == pc[w] = c
Goto(w, c) == pc' = [pc EXCEPT ![w] = c]

Fault == faults < MaxFaults /\ faults' = faults + 1
NoFault == UNCHANGED faults

(* work_once returns: everything the pass knew is dropped, run sleeps and  *)
(* makes the next pass.                                                    *)
Finish(w, o, r) ==
    /\ Goto(w, "eligible_routes")
    /\ route' = [route EXCEPT ![w] = None]
    /\ fencing_token' = [fencing_token EXCEPT ![w] = 0]
    /\ report' = [report EXCEPT ![w] = Report(o, r)]

(* An Err ends the pass; run logs it and forgets the route.                *)
FailPass(w) == Finish(w, "Err", None)

(* Kernel: a request is accepted and routed; a Request that matches two    *)
(* subscriptions has two routes.                                           *)
Accept(r, q) ==
    /\ accepted[r] = None
    /\ \A earlier \in 1 .. r - 1 : accepted[earlier] # None
    /\ accepted' = [accepted EXCEPT ![r] = q]
    /\ UNCHANGED <<claim, repository, pass, faults>>

Eligible == {r \in Route : accepted[r] # None /\ claim[r].state = "free"}

(* The list is ordered by age and the pass takes its first route only.     *)
EligibleRoutes(w) ==
    /\ At(w, "eligible_routes")
    /\ \/ /\ Eligible = {}
          /\ Finish(w, "NothingEligible", None)
          /\ NoFault
       \/ /\ \E r \in Eligible :
            /\ \A other \in Eligible : r <= other
            /\ route' = [route EXCEPT ![w] = r]
          /\ report' = [report EXCEPT ![w] = Report("Running", None)]
          /\ Goto(w, "propose_claim")
          /\ UNCHANGED fencing_token
          /\ NoFault
       \/ FailPass(w) /\ Fault
    /\ UNCHANGED <<kernel, repository>>

(* 201 with a new fencing token, or 409 / 404 for a route that is claimed  *)
(* or gone; the route was read from a list that may be out of date.        *)
ProposeClaim(w) ==
    LET r == route[w]
        next == claim[r].fencing_token + 1
    IN  /\ At(w, "propose_claim")
        /\ \/ /\ claim[r].state = "free"
              /\ claim' = [claim EXCEPT ![r] = [fencing_token |-> next, state |-> "held"]]
              /\ \/ /\ fencing_token' = [fencing_token EXCEPT ![w] = next]
                    /\ Goto(w, "routed_request")
                    /\ UNCHANGED <<route, report>>
                    /\ NoFault
                 \/ FailPass(w) /\ Fault
           \/ /\ claim[r].state # "free"
              /\ Finish(w, "ClaimLost", r)
              /\ NoFault
              /\ UNCHANGED claim
           \/ FailPass(w) /\ Fault /\ UNCHANGED claim
        /\ UNCHANGED <<accepted, repository>>

(* A mistake to be caught: the request_id is taken as it comes.            *)
RoutedRequestUnparsed(w) ==
    /\ At(w, "routed_request")
    /\ Goto(w, "dispatch")
    /\ UNCHANGED <<route, fencing_token, report, faults, kernel, repository>>

(* The answer is the request itself; its request_id must be a UUID.        *)
RoutedRequest(w) ==
    /\ At(w, "routed_request")
    /\ \/ /\ accepted[route[w]].request_id # NotUuid
          /\ Goto(w, "dispatch")
          /\ UNCHANGED <<route, fencing_token, report>>
          /\ NoFault
       \/ accepted[route[w]].request_id = NotUuid /\ FailPass(w) /\ NoFault
       \/ Finish(w, "RequestUnavailable", route[w]) /\ Fault
       \/ FailPass(w) /\ Fault
    /\ UNCHANGED <<kernel, repository>>

(* A mistake to be caught: content and content type change places.         *)
PutOfSwapped(q) == [request_id |-> q.request_id, document_id |-> None,
                    content |-> TextPlain, content_type |-> q.scope]

PutOf(q) == [request_id |-> q.request_id, document_id |-> None,
             content |-> q.scope, content_type |-> TextPlain]

Readable(d) == Repository!VersionsOf(d) # {}

(* A mistake to be caught: the put is left running and the claim completed *)
(* at once.                                                                *)
DispatchWithoutWaiting(w) ==
    LET q == accepted[route[w]]
    IN  /\ At(w, "dispatch")
        /\ q.action = Put => Repository!Invoke(w, PutOf(q))
        /\ q.action # Put => UNCHANGED repository
        /\ Goto(w, "complete_claim")
        /\ UNCHANGED <<route, fencing_token, report, faults, kernel>>

(* dispatch::dispatch.  A get answers MalformedScope or UnknownDocument    *)
(* for a scope it cannot parse or find; get and search only read.          *)
Dispatch(w) ==
    LET q == accepted[route[w]]
    IN  /\ At(w, "dispatch")
        /\ \/ /\ q.action = Put
              /\ Repository!Invoke(w, PutOf(q))
              /\ Goto(w, "put")
              /\ UNCHANGED <<route, fencing_token, report>>
              /\ NoFault
           \/ /\ \/ q.action = Get /\ q.scope # NotUuid /\ Readable(q.scope)
                 \/ q.action = Search
              /\ Goto(w, "complete_claim")
              /\ UNCHANGED <<route, fencing_token, report, repository>>
              /\ NoFault
           \/ /\ q.action = Get
              /\ q.scope = NotUuid \/ ~ Readable(q.scope)
              /\ FailPass(w)
              /\ UNCHANGED repository
              /\ NoFault
           \/ /\ q.action \in {Get, Search}
              /\ FailPass(w)
              /\ UNCHANGED repository
              /\ Fault
           \/ /\ q.action \notin {Put, Get, Search}
              /\ Goto(w, "complete_unknown_action")
              /\ UNCHANGED <<route, fencing_token, report, repository>>
              /\ NoFault
        /\ UNCHANGED kernel

(* The repository executes the put of w, at some moment of its own.        *)
RepositoryPut(w) ==
    /\ \/ \E d \in DocumentId : \E n \in {1} \cup {m + 1 : m \in Repository!VersionsOf(d)} :
            Repository!Perform(w, d, n)
       \/ Repository!Recognize(w)
       \/ \E error \in Repository!DocumentError : Repository!Refuse(w, error)
    /\ IF outcome'[w].result = "Repository" THEN Fault ELSE NoFault
    /\ UNCHANGED <<kernel, pass>>

(* A mistake to be caught: the error of put is dropped.                    *)
PutReturnsUnchecked(w) ==
    /\ At(w, "put")
    /\ call[w] = Repository!NoCall
    /\ Goto(w, "complete_claim")
    /\ UNCHANGED <<route, fencing_token, report, kernel, repository, faults>>

(* A mistake to be caught: an error of put never gets back to the pass.    *)
PutReturnsOnlyOk(w) ==
    /\ At(w, "put")
    /\ call[w] = Repository!NoCall
    /\ outcome[w].result = "Ok"
    /\ Goto(w, "complete_claim")
    /\ UNCHANGED <<route, fencing_token, report, kernel, repository, faults>>

(* `repository.put(...)?` returns into dispatch.                           *)
PutReturns(w) ==
    /\ At(w, "put")
    /\ call[w] = Repository!NoCall
    /\ \/ /\ outcome[w].result = "Ok"
          /\ Goto(w, "complete_claim")
          /\ UNCHANGED <<route, fencing_token, report>>
       \/ outcome[w].result # "Ok" /\ FailPass(w)
    /\ UNCHANGED <<kernel, repository, faults>>

(* POST /v1/claims/{claim_id}/complete: the kernel accepts the token of    *)
(* the route's current claim and fences every other.                       *)
Holds(w) == claim[route[w]] = [fencing_token |-> fencing_token[w], state |-> "held"]

Complete(w, completed, lost) ==
    LET r == route[w]
    IN  /\ \/ /\ Holds(w)
              /\ claim' = [claim EXCEPT ![r].state = "completed"]
              /\ \/ Finish(w, completed, r) /\ NoFault
                 \/ FailPass(w) /\ Fault
           \/ ~ Holds(w) /\ Finish(w, lost, r) /\ NoFault /\ UNCHANGED claim
           \/ FailPass(w) /\ Fault /\ UNCHANGED claim
        /\ UNCHANGED <<accepted, repository>>

(* A mistake to be caught: the outcome of complete_claim is not looked at. *)
CompleteClaimUnchecked(w) ==
    /\ At(w, "complete_claim")
    /\ Complete(w, "Completed", "Completed")

CompleteClaim(w) ==
    /\ At(w, "complete_claim")
    /\ Complete(w, "Completed", "LostBeforeCompletion")

(* The Ok of complete_claim is dropped unread, whichever it was.           *)
CompleteUnknownAction(w) ==
    /\ At(w, "complete_unknown_action")
    /\ Complete(w, "UnknownAction", "UnknownAction")

(* Kernel: the lease of a claim runs out.  While its worker is still in    *)
(* the pass that is a fault: a pass takes far less than lease_seconds.     *)
Working(r) == \E w \in Worker : /\ route[w] = r
                                /\ pc[w] \notin {"eligible_routes", "propose_claim"}
                                /\ Holds(w)

LeaseExpires(r) ==
    /\ claim[r].state = "held"
    /\ claim[r].fencing_token < MaxClaims
    /\ claim' = [claim EXCEPT ![r].state = "free"]
    /\ IF Working(r) THEN Fault ELSE NoFault
    /\ UNCHANGED <<accepted, repository, pass>>

(* The process dies and is restarted.  A put that is already with the      *)
(* repository ends first: its caller never hears of it all the same.       *)
Crash(w) ==
    /\ ~ At(w, "eligible_routes")
    /\ call[w] = Repository!NoCall
    /\ Finish(w, "Running", None)
    /\ Fault
    /\ UNCHANGED <<kernel, repository>>

WorkOnce(w) ==
    \/ EligibleRoutes(w)
    \/ ProposeClaim(w)
    \/ RoutedRequest(w)
    \/ Dispatch(w)
    \/ PutReturns(w)
    \/ CompleteClaim(w)
    \/ CompleteUnknownAction(w)

Next ==
    \/ \E r \in Route, q \in Request : Accept(r, q)
    \/ \E w \in Worker : WorkOnce(w) \/ RepositoryPut(w) \/ Crash(w)
    \/ \E r \in Route : LeaseExpires(r)

Spec == Init /\ [][Next]_vars

-----------------------------------------------------------------------------

(* The domain work of request q has been done, as far as it leaves traces: *)
(* a put is recorded, what a get names can be read.                        *)
Done(q) ==
    /\ q.request_id # NotUuid
    /\ q.action = Put => Repository!Processed(q.request_id)
    /\ q.action = Get => q.scope # NotUuid /\ Readable(q.scope)

Completed(r) == claim[r].state = "completed"

(* "The claim is only ever completed if the domain operation succeeded":   *)
(* no route is completed whose put is not in the tables, whose document    *)
(* cannot be read or whose request could not be understood.                *)
CompletedOnlyAfterSuccess ==
    \A r \in Route : Completed(r) => accepted[r] # None /\ Done(accepted[r])

(* Once a route is completed its put is never made again, not by another   *)
(* route of the same Request, nor by a worker that was fenced meanwhile.   *)
NoMutationAfterCompletion ==
    [][\A r \in Route : \A op \in put_operations' \ put_operations :
        (Completed(r) /\ accepted[r].action = Put) => op.request_id # accepted[r].request_id]_vars

(* Every document comes from one accepted put, has its scope as its only   *)
(* version and is the only document of that request_id: crashes, lost      *)
(* answers, reclaims and duplicate routes leave no second copy behind.     *)
DocumentsWereRequested ==
    /\ \A row \in document_versions : row.version = 1 /\ \E op \in put_operations, r \in Route :
        /\ op.document_id = row.document_id
        /\ accepted[r] # None
        /\ accepted[r].action = Put
        /\ accepted[r].request_id = op.request_id
        /\ accepted[r].scope = row.content
    /\ \A op \in put_operations : \E row \in document_versions :
        row.document_id = op.document_id
    /\ \A row1, row2 \in document_versions : row1.document_id = row2.document_id => row1 = row2
    /\ \A op1, op2 \in put_operations :
        (op1.request_id = op2.request_id \/ op1.document_id = op2.document_id) => op1 = op2

(* The promise behind all of this: claims, leases, retries, crashes and    *)
(* lost calls together look like a service that performs an accepted       *)
(* request at most once and completes its routes after that.               *)
Delivery == INSTANCE GovernedDelivery WITH
    documents <- {[document_id |-> row.document_id, content |-> row.content] :
                    row \in document_versions},
    performed <- {[request_id |-> op.request_id, document_id |-> op.document_id] :
                    op \in put_operations},
    completed <- {r \in Route : Completed(r)}

ImplementsDelivery == Delivery!Spec

(* What a pass reports is so: Completed routes are completed at the        *)
(* kernel, and a completion that was fenced leaves the work in place.      *)
ReportsAreTrue ==
    \A w \in Worker :
        /\ report[w].outcome = "Completed" => Completed(report[w].route)
        /\ report[w].outcome = "LostBeforeCompletion" => Done(accepted[report[w].route])

(* The comments on WorkOutcome: "The claim is still completed" when the    *)
(* routed action is unknown.                                               *)
UnknownActionIsCompleted ==
    \A w \in Worker : report[w].outcome = "UnknownAction" => Completed(report[w].route)

-----------------------------------------------------------------------------
(* The inductive invariant: what a worker knows at each call of its pass.  *)

(* A worker only ever handles the request of the route it took, and that   *)
(* request stays what it was while leases, claims and tables change.       *)
Knows(w) ==
    LET q == accepted[route[w]]
    IN  /\ ~ At(w, "eligible_routes") => route[w] \in Route /\ q # None
        /\ pc[w] \notin {"eligible_routes", "propose_claim", "routed_request"} =>
            q.request_id # NotUuid
        /\ ~ At(w, "put") => call[w] = Repository!NoCall
        /\ At(w, "put") => /\ q.action = Put
                           /\ call[w] \in {Repository!NoCall, PutOf(q)}
                           /\ outcome[w].result = "Ok" => Repository!Processed(q.request_id)
        /\ pc[w] \in {"complete_claim", "complete_unknown_action"} => Done(q)

PassState == \A w \in Worker : Knows(w)

(* A report names the route it is about.                                   *)
ReportState ==
    \A w \in Worker :
        report[w].outcome \in {"Completed", "LostBeforeCompletion"} =>
            report[w].route \in Route /\ accepted[report[w].route] # None

IInv ==
    /\ TypeOK
    /\ PassState
    /\ ReportState
    /\ CompletedOnlyAfterSuccess
    /\ DocumentsWereRequested
    /\ ReportsAreTrue

=============================================================================
