--------------------- MODULE PostgresDocumentRepository ---------------------
(***************************************************************************)
(* PostgresDocumentRepository::put (src/postgres_document_repository.rs),  *)
(* statement by statement, for any number of concurrent callers.           *)
(*                                                                         *)
(* A caller is one put call on one pooled connection: the work loops of    *)
(* several Pods, or the loop of a restarted process next to the            *)
(* transaction its predecessor left open.  PostgreSQL runs at its default  *)
(* isolation, READ COMMITTED: a statement sees the rows committed before   *)
(* it started, a row lock or an uncommitted row with the same primary key  *)
(* makes a statement wait, and nothing of a transaction is visible to      *)
(* others before COMMIT.  So a transaction's own rows live in `txn` and    *)
(* `call` until Commit moves them into the tables.                         *)
(*                                                                         *)
(* pc names the statement the caller executes next.                        *)
(***************************************************************************)
EXTENDS Naturals

CONSTANTS Caller, RequestId, DocumentId, Text, ContentType, Blank, None

VARIABLES
    documents,          \* committed rows of table documents (their ids)
    document_versions,  \* committed rows of table document_versions
    put_operations,     \* committed rows of table put_operations
    call,               \* arguments of the put in progress
    outcome,            \* what the latest put of each caller returned
    pc,                 \* the statement each caller executes next
    txn                 \* the local (document_id, version) of put

Promise == INSTANCE DocumentRepository

ASSUME ConstantsAssumption ==
    /\ Blank \notin Text \cup ContentType
    /\ None \notin RequestId \cup DocumentId \cup Text \cup ContentType \cup {Blank}

tables == <<documents, document_versions, put_operations>>
vars == <<documents, document_versions, put_operations, call, outcome, pc, txn>>

-----------------------------------------------------------------------------

VersionRow == Promise!VersionRow
OperationRow == Promise!OperationRow
PutArguments == Promise!PutArguments
NoCall == Promise!NoCall
Ok(op, already) == Promise!Ok(op, already)
Err(error) == Promise!Err(error)
VersionsOf(d) == Promise!VersionsOf(d)

NoTxn == [document_id |-> None, version |-> 0]

(* Statements executed inside the transaction while the row of an existing *)
(* document is locked (FOR UPDATE, kept until commit or rollback).         *)
InTransaction == {"next_version", "insert_version", "insert_put_operation", "commit", "rollback"}
Statement == {"idle", "validate", "find_put_operation", "insert_document", "lock_document",
              "find_winner"} \cup InTransaction

TypeOK ==
    /\ documents \subseteq DocumentId
    /\ document_versions \subseteq VersionRow
    /\ put_operations \subseteq OperationRow
    /\ call \in [Caller -> PutArguments \cup {NoCall}]
    /\ outcome \in [Caller -> Promise!Outcome]
    /\ pc \in [Caller -> Statement]
    /\ txn \in [Caller -> [document_id : DocumentId \cup {None}, version : Nat]]

Init ==
    /\ documents = {}
    /\ document_versions = {}
    /\ put_operations = {}
    /\ call = [c \in Caller |-> NoCall]
    /\ outcome = [c \in Caller |-> Err("NotReturned")]
    /\ pc = [c \in Caller |-> "idle"]
    /\ txn = [c \in Caller |-> NoTxn]

-----------------------------------------------------------------------------

At(c, statement) == pc[c] = statement
Goto(c, statement) == pc' = [pc EXCEPT ![c] = statement]

(* `return`: an open transaction is dropped, and with it its locks.        *)
Return(c, o) ==
    /\ Goto(c, "idle")
    /\ call' = [call EXCEPT ![c] = NoCall]
    /\ outcome' = [outcome EXCEPT ![c] = o]
    /\ txn' = [txn EXCEPT ![c] = NoTxn]

Put(c, arguments) ==
    /\ At(c, "idle")
    /\ call' = [call EXCEPT ![c] = arguments]
    /\ outcome' = [outcome EXCEPT ![c] = Err("NotReturned")]
    /\ Goto(c, "validate")
    /\ UNCHANGED <<tables, txn>>

(* A mistake to be caught: blank input is let through to the tables.       *)
ValidateNothing(c) ==
    /\ At(c, "validate")
    /\ Goto(c, "find_put_operation")
    /\ UNCHANGED <<tables, call, outcome, txn>>

Validate(c) ==
    /\ At(c, "validate")
    /\ \/ /\ call[c].content = Blank
          /\ Return(c, Err("EmptyContent"))
       \/ /\ call[c].content # Blank
          /\ call[c].content_type = Blank
          /\ Return(c, Err("EmptyContentType"))
       \/ /\ call[c].content # Blank
          /\ call[c].content_type # Blank
          /\ Goto(c, "find_put_operation")
          /\ UNCHANGED <<call, outcome, txn>>
    /\ UNCHANGED tables

(* FIND_PUT_OPERATION_SQL, outside any transaction.                        *)
FindPutOperation(c) ==
    /\ At(c, "find_put_operation")
    /\ \/ \E op \in put_operations :
            /\ op.request_id = call[c].request_id
            /\ Return(c, Ok(op, TRUE))
       \/ /\ \A op \in put_operations : op.request_id # call[c].request_id
          /\ Goto(c, IF call[c].document_id = None THEN "insert_document" ELSE "lock_document")
          /\ UNCHANGED <<call, outcome, txn>>
    /\ UNCHANGED tables

(* INSERT_DOCUMENT_SQL with Uuid::new_v4(), which is taken to be unique.   *)
InsertDocument(c) ==
    /\ At(c, "insert_document")
    /\ \E d \in DocumentId \ documents :
        /\ \A other \in Caller : txn[other].document_id # d
        /\ txn' = [txn EXCEPT ![c] = [document_id |-> d, version |-> 1]]
    /\ Goto(c, "insert_version")
    /\ UNCHANGED <<tables, call, outcome>>

HoldsRowLock(c, d) == pc[c] \in InTransaction /\ call[c].document_id = d

(* A mistake to be caught: a SELECT without FOR UPDATE, which never waits. *)
LockDocumentWithoutLock(c) ==
    /\ At(c, "lock_document")
    /\ call[c].document_id \in documents
    /\ Goto(c, "next_version")
    /\ UNCHANGED <<tables, call, outcome, txn>>

(* LOCK_DOCUMENT_SQL: FOR UPDATE waits for the transaction that holds the  *)
(* row; a document that is not committed is not found, and not waited for. *)
LockDocument(c) ==
    LET d == call[c].document_id
    IN  /\ At(c, "lock_document")
        /\ \A other \in Caller : ~ HoldsRowLock(other, d)
        /\ \/ /\ d \notin documents
              /\ Return(c, Err("UnknownDocument"))
           \/ /\ d \in documents
              /\ Goto(c, "next_version")
              /\ UNCHANGED <<call, outcome, txn>>
        /\ UNCHANGED tables

(* COALESCE(MAX(version), 0).                                              *)
CoalesceMax(S) == CHOOSE n \in S \cup {0} : \A m \in S : m <= n
MaxVersion(d) == CoalesceMax(VersionsOf(d))

NextVersion(c) ==
    /\ At(c, "next_version")
    /\ txn' = [txn EXCEPT ![c] = [document_id |-> call[c].document_id,
                                  version |-> MaxVersion(call[c].document_id) + 1]]
    /\ Goto(c, "insert_version")
    /\ UNCHANGED <<tables, call, outcome>>

(* The primary key of document_versions: an insert waits for a transaction *)
(* that has written the same key, and fails, as any statement may (see     *)
(* Fail), if the key is committed.                                         *)
KeyIsFree(c) ==
    /\ \A row \in document_versions :
        row.document_id # txn[c].document_id \/ row.version # txn[c].version
    /\ \A other \in Caller \ {c} :
        pc[other] \in {"insert_put_operation", "commit", "rollback"} => txn[other] # txn[c]

(* INSERT_VERSION_SQL: the row stays private to the transaction.           *)
InsertVersion(c) ==
    /\ At(c, "insert_version")
    /\ KeyIsFree(c)
    /\ Goto(c, "insert_put_operation")
    /\ UNCHANGED <<tables, call, outcome, txn>>

(* Mistakes to be caught: the row count of the insert is not looked at; a  *)
(* conflict is answered with the caller's own row instead of the winner's; *)
(* a conflict is waited for and not noticed.                               *)
InsertPutOperationUnchecked(c) ==
    /\ At(c, "insert_put_operation")
    /\ Goto(c, "commit")
    /\ UNCHANGED <<tables, call, outcome, txn>>

InsertPutOperationAnswered(c) ==
    LET own == [request_id |-> call[c].request_id,
                document_id |-> txn[c].document_id, version |-> txn[c].version]
    IN  /\ At(c, "insert_put_operation")
        /\ \A other \in Caller : ~ (At(other, "commit") /\ call[other].request_id = own.request_id)
        /\ IF \E op \in put_operations : op.request_id = own.request_id
           THEN Return(c, Ok(own, TRUE))
           ELSE Goto(c, "commit") /\ UNCHANGED <<call, outcome, txn>>
        /\ UNCHANGED tables

InsertPutOperationWaiting(c) ==
    /\ At(c, "insert_put_operation")
    /\ \A other \in Caller \ {c} : ~ At(other, "commit")
    /\ \A op \in put_operations : op.request_id # call[c].request_id
    /\ Goto(c, "commit")
    /\ UNCHANGED <<tables, call, outcome, txn>>

(* INSERT_PUT_OPERATION_SQL, ON CONFLICT DO NOTHING: waits while another   *)
(* transaction has inserted the same request_id and not ended, then counts *)
(* 0 rows if the request_id is committed and 1 row if it is not.           *)
InsertPutOperation(c) ==
    LET r == call[c].request_id
    IN  /\ At(c, "insert_put_operation")
        /\ \A other \in Caller : ~ (At(other, "commit") /\ call[other].request_id = r)
        /\ \/ /\ \E op \in put_operations : op.request_id = r
              /\ Goto(c, "rollback")
           \/ /\ \A op \in put_operations : op.request_id # r
              /\ Goto(c, "commit")
        /\ UNCHANGED <<tables, call, outcome, txn>>

(* A mistake to be caught: the document was inserted on the connection and *)
(* not on the transaction, so the rollback does not take it back.          *)
RollbackKeepsDocument(c) ==
    /\ At(c, "rollback")
    /\ documents' = documents \cup {txn[c].document_id}
    /\ txn' = [txn EXCEPT ![c] = NoTxn]
    /\ Goto(c, "find_winner")
    /\ UNCHANGED <<document_versions, put_operations, call, outcome>>

(* Lost the race: the transaction's own rows go, the winner's are read.    *)
Rollback(c) ==
    /\ At(c, "rollback")
    /\ txn' = [txn EXCEPT ![c] = NoTxn]
    /\ Goto(c, "find_winner")
    /\ UNCHANGED <<tables, call, outcome>>

(* A mistake to be caught: the loser claims the mutation for itself.       *)
FindWinnerUnmarked(c) ==
    /\ At(c, "find_winner")
    /\ \E op \in put_operations :
        /\ op.request_id = call[c].request_id
        /\ Return(c, Ok(op, FALSE))
    /\ UNCHANGED tables

FindWinner(c) ==
    /\ At(c, "find_winner")
    /\ \E op \in put_operations :
        /\ op.request_id = call[c].request_id
        /\ Return(c, Ok(op, TRUE))
    /\ UNCHANGED tables

Operation(c) == [request_id |-> call[c].request_id,
                 document_id |-> txn[c].document_id, version |-> txn[c].version]
Row(c) == [document_id |-> txn[c].document_id, version |-> txn[c].version,
           content |-> call[c].content]

(* A mistake to be caught: appending updates the row of the document.      *)
CommitOverwriting(c) ==
    /\ At(c, "commit")
    /\ documents' = documents \cup {txn[c].document_id}
    /\ document_versions' = {Row(c)} \cup
        {row \in document_versions : row.document_id # txn[c].document_id}
    /\ put_operations' = put_operations \cup {Operation(c)}
    /\ Return(c, Ok(Operation(c), FALSE))

(* COMMIT is durable.  If the connection, or the whole process, goes away  *)
(* with it the caller sees an error although the rows are there.           *)
Commit(c) ==
    /\ At(c, "commit")
    /\ documents' = documents \cup {txn[c].document_id}
    /\ document_versions' = document_versions \cup {Row(c)}
    /\ put_operations' = put_operations \cup {Operation(c)}
    /\ \/ Return(c, Ok(Operation(c), FALSE))
       \/ Return(c, Err("Repository"))

(* Any statement can fail, and getting a connection from the pool too.     *)
(* This is also how PostgreSQL ends what a crashed process left open.      *)
Fail(c) ==
    /\ pc[c] \notin {"idle", "validate"}
    /\ Return(c, Err("Repository"))
    /\ UNCHANGED tables

Statements(c) ==
    \/ Validate(c)
    \/ FindPutOperation(c)
    \/ InsertDocument(c)
    \/ LockDocument(c)
    \/ NextVersion(c)
    \/ InsertVersion(c)
    \/ InsertPutOperation(c)
    \/ Rollback(c)
    \/ FindWinner(c)
    \/ Commit(c)

Next ==
    \E c \in Caller :
        \/ \E arguments \in PutArguments : Put(c, arguments)
        \/ Statements(c)
        \/ Fail(c)

Spec == Init /\ [][Next]_vars

(* Statements terminate; PostgreSQL grants row and transaction locks in    *)
(* the order of its wait queue, so a waiter that is able to go on again    *)
(* and again does go on.  Nobody has to fail.                              *)
Fairness ==
    \A c \in Caller :
        /\ WF_vars(Statements(c))
        /\ SF_vars(LockDocument(c))
        /\ SF_vars(InsertPutOperation(c))

FairSpec == Spec /\ Fairness

-----------------------------------------------------------------------------

(* The versions of every document are 1, 2, ..., MAX(version) without a    *)
(* gap and with one row each, however many puts append to it at once, and  *)
(* there is no version without its document and no document without one.   *)
VersionHistory ==
    /\ \A d \in documents : /\ MaxVersion(d) \in Nat \ {0}
                            /\ VersionsOf(d) = 1 .. MaxVersion(d)
    /\ \A row \in document_versions : row.document_id \in documents
    /\ \A row1, row2 \in document_versions :
        (row1.document_id = row2.document_id /\ row1.version = row2.version) => row1 = row2

(* Appends that race for one document never collide on its next version:   *)
(* no insert meets the key, committed or not, of another one, so no put    *)
(* that races fails for that reason or waits for it.                       *)
AppendsNeverCollide == \A c \in Caller : At(c, "insert_version") => KeyIsFree(c)

(* put_operations and document_versions never diverge: each request_id     *)
(* that was processed names exactly one version, and each version was made *)
(* by exactly one request_id, over races, failures and lost commits.       *)
OneOperationPerVersion ==
    /\ \A op \in put_operations : \E row \in document_versions :
        row.document_id = op.document_id /\ row.version = op.version
    /\ \A row \in document_versions : \E op \in put_operations :
        row.document_id = op.document_id /\ row.version = op.version
    /\ \A op1, op2 \in put_operations :
        \/ op1.request_id = op2.request_id
        \/ op1.document_id = op2.document_id /\ op1.version = op2.version
        => op1 = op2

(* Whatever put answers Ok is the recorded result of that request_id, also *)
(* for the caller that lost the race and rolled its own rows back.         *)
OutcomeIsRecorded ==
    \A c \in Caller : outcome[c].result = "Ok" =>
        [request_id |-> outcome[c].request_id, document_id |-> outcome[c].document_id,
         version |-> outcome[c].version] \in put_operations

(* was_already_processed = false is only ever answered by the very step    *)
(* that recorded the request_id: two callers never both claim the mutation.*)
MutationClaimedOnce ==
    [][\A c \in Caller :
        (/\ call[c] # NoCall
         /\ call'[c] = NoCall
         /\ outcome'[c].result = "Ok"
         /\ ~ outcome'[c].was_already_processed)
        => /\ \A op \in put_operations : op.request_id # call[c].request_id
           /\ \E op \in put_operations' : op.request_id = call[c].request_id]_vars

(* Seen from outside, the statements of concurrent transactions are the    *)
(* atomic puts the trait documents.                                        *)
ImplementsPromise == Promise!Spec

(* No wait for a row lock or for another transaction's request_id lasts    *)
(* for ever: every call returns even if no statement ever fails.           *)
CallsReturn == \A c \in Caller : pc[c] # "idle" ~> pc[c] = "idle"

-----------------------------------------------------------------------------
(* The inductive invariant: what each statement may rely on.               *)

Wrote(c) == pc[c] \in {"insert_version", "insert_put_operation", "commit", "rollback"}

(* Where a call is in the code says which arguments it has and what it     *)
(* has read: past validation nothing is blank, a row that is locked is a   *)
(* committed document's, a lost race has a committed winner.               *)
CallState ==
    \A c \in Caller :
        /\ At(c, "idle") <=> call[c] = NoCall
        /\ ~ At(c, "idle") => call[c] \in PutArguments
        /\ pc[c] \notin {"idle", "validate"} => call[c].content \in Text
                                               /\ call[c].content_type \in ContentType
        /\ At(c, "insert_document") => call[c].document_id = None
        /\ At(c, "lock_document") => call[c].document_id # None
        /\ At(c, "next_version") => call[c].document_id \in documents
        /\ pc[c] \in {"rollback", "find_winner"} =>
            \E op \in put_operations : op.request_id = call[c].request_id

(* What a transaction has written and not committed: version 1 of a        *)
(* document nobody else knows, or the next version of the one it locked.   *)
TxnState ==
    \A c \in Caller :
        /\ ~ Wrote(c) => txn[c] = NoTxn
        /\ Wrote(c) /\ call[c].document_id = None =>
            /\ txn[c].document_id \in DocumentId \ documents
            /\ txn[c].version = 1
            /\ \A other \in Caller \ {c} : txn[other].document_id # txn[c].document_id
        /\ Wrote(c) /\ call[c].document_id # None =>
            /\ txn[c].document_id = call[c].document_id
            /\ call[c].document_id \in documents
            /\ txn[c].version = MaxVersion(call[c].document_id) + 1

(* One transaction at a time holds the row of a document.                  *)
RowLockExclusive ==
    \A c1, c2 \in Caller : \A d \in DocumentId :
        HoldsRowLock(c1, d) /\ HoldsRowLock(c2, d) => c1 = c2

(* One transaction at a time is about to commit a request_id, and only one *)
(* that nobody committed.                                                  *)
RequestIdExclusive ==
    \A c1 \in Caller : At(c1, "commit") =>
        /\ \A op \in put_operations : op.request_id # call[c1].request_id
        /\ \A c2 \in Caller :
            At(c2, "commit") /\ call[c2].request_id = call[c1].request_id => c1 = c2

(* Together these make the tables' invariants inductive: they are why two  *)
(* puts that race never commit the same version or the same request_id.    *)
IInv ==
    /\ TypeOK
    /\ CallState
    /\ TxnState
    /\ RowLockExclusive
    /\ RequestIdExclusive
    /\ VersionHistory
    /\ OneOperationPerVersion
    /\ OutcomeIsRecorded

=============================================================================
