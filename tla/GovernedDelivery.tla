-------------------------- MODULE GovernedDelivery --------------------------
(***************************************************************************)
(* What Librarian promises to the kernel that gives it work (src/lib.rs,   *)
(* work_once, and the documentation of PutOutcome in src/domain.rs), with  *)
(* no word of claims, leases, workers, retries or lost calls: an accepted  *)
(* request is performed at most once, and its route is completed only when *)
(* the work is done.  A Request may be delivered by several routes.        *)
(***************************************************************************)

CONSTANTS Route, Request, DocumentId, Blank, NotUuid, None

VARIABLES
    accepted,    \* the request each route delivers, or None
    documents,   \* the documents there are: [document_id, content]
    performed,   \* the puts that were done: [request_id, document_id]
    completed    \* the routes the kernel is told are done

vars == <<accepted, documents, performed, completed>>

Put == "librarian.document.put"
Get == "librarian.document.get"

Init ==
    /\ accepted = [r \in Route |-> None]
    /\ documents = {}
    /\ performed = {}
    /\ completed = {}

Understood(q) == q # None /\ q.request_id # NotUuid
Performed(q) == \E op \in performed : op.request_id = q.request_id
Exists(d) == \E document \in documents : document.document_id = d

Accept(r, q) ==
    /\ accepted[r] = None
    /\ accepted' = [accepted EXCEPT ![r] = q]
    /\ UNCHANGED <<documents, performed, completed>>

(* A put makes one new document, for whichever of its routes.              *)
Perform(r, d) ==
    LET q == accepted[r]
    IN  /\ Understood(q)
        /\ q.action = Put
        /\ q.scope # Blank
        /\ ~ Performed(q)
        /\ ~ Exists(d)
        /\ documents' = documents \cup {[document_id |-> d, content |-> q.scope]}
        /\ performed' = performed \cup {[request_id |-> q.request_id, document_id |-> d]}
        /\ UNCHANGED <<accepted, completed>>

(* Searches and actions that Librarian does not perform are completed as   *)
(* they are.                                                               *)
Complete(r) ==
    LET q == accepted[r]
    IN  /\ r \notin completed
        /\ Understood(q)
        /\ q.action = Put => Performed(q)
        /\ q.action = Get => Exists(q.scope)
        /\ completed' = completed \cup {r}
        /\ UNCHANGED <<accepted, documents, performed>>

Next ==
    \/ \E r \in Route, q \in Request : Accept(r, q)
    \/ \E r \in Route, d \in DocumentId : Perform(r, d)
    \/ \E r \in Route : Complete(r)

Spec == Init /\ [][Next]_vars

=============================================================================
