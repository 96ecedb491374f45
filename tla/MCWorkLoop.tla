----------------------------- MODULE MCWorkLoop -----------------------------
(* TLC instances of WorkLoop.                                              *)
EXTENDS WorkLoop, TLC

CONSTANTS r1, r2, r3, r4, r5, r6, t1, d1

PutRequest == [request_id |-> r1, action |-> Put, scope |-> t1]
BlankPut == [request_id |-> r2, action |-> Put, scope |-> Blank]
GetRequest == [request_id |-> r3, action |-> Get, scope |-> d1]
MalformedGet == [request_id |-> r4, action |-> Get, scope |-> NotUuid]
SearchRequest == [request_id |-> r5, action |-> Search, scope |-> t1]
UnknownRequest == [request_id |-> r6, action |-> "another.action", scope |-> t1]
UnparsableRequest == [request_id |-> NotUuid, action |-> Put, scope |-> t1]

(* One request of every kind that dispatch tells apart.                    *)
EveryRequest == {PutRequest, BlankPut, GetRequest, MalformedGet, SearchRequest,
                 UnknownRequest, UnparsableRequest}
(* Requests that can always be performed.                                  *)
PerformableRequests == {PutRequest, SearchRequest, UnknownRequest}

Symmetry == Permutations(Worker)

=============================================================================
