------------------------- MODULE DocumentRepository -------------------------
(***************************************************************************)
(* What the trait `DocumentRepository` (src/domain.rs) promises its        *)
(* callers, with every put a single indivisible step.                      *)
(*                                                                         *)
(* A caller invokes put with a kernel request_id and a PutDocument and is  *)
(* then pending until the call returns.  The call ends in exactly one of   *)
(* three ways: it performs the mutation (and either learns so, or loses    *)
(* the answer), it recognises a request_id that was performed before, or   *)
(* it is refused and leaves both tables as they were.                      *)
(*                                                                         *)
(* PostgresDocumentRepository implements this specification statement by   *)
(* statement; WorkLoop uses it as the domain side of the service.          *)
(***************************************************************************)
EXTENDS Naturals

CONSTANTS
    Caller,       \* concurrent users of the repository
    RequestId,    \* the kernel's request ids
    DocumentId,   \* the UUIDs documents may be given
    Text,         \* contents that are not blank
    ContentType,  \* content types that are not blank
    Blank,        \* a content or content type that trims to ""
    None          \* Option::None, and "no call"

VARIABLES
    document_versions,  \* committed rows of table document_versions
    put_operations,     \* committed rows of table put_operations
    call,               \* the put each caller is executing, or NoCall
    outcome             \* what each caller's latest put returned, once it did

vars == <<document_versions, put_operations, call, outcome>>

-----------------------------------------------------------------------------

(* Rows, arguments and results.                                            *)
VersionRow == [document_id : DocumentId, version : Nat \ {0}, content : Text]
OperationRow == [request_id : RequestId, document_id : DocumentId, version : Nat \ {0}]

PutArguments == [request_id   : RequestId,
                 document_id  : DocumentId \cup {None},
                 content      : Text \cup {Blank},
                 content_type : ContentType \cup {Blank}]

NoCall == [request_id |-> None, document_id |-> None, content |-> None, content_type |-> None]

DocumentError == {"EmptyContent", "EmptyContentType", "UnknownDocument", "Repository"}

Ok(op, already) ==
    [result |-> "Ok", request_id |-> op.request_id, document_id |-> op.document_id,
     version |-> op.version, was_already_processed |-> already]

Err(error) ==
    [result |-> error, request_id |-> None, document_id |-> None,
     version |-> 0, was_already_processed |-> FALSE]

Outcome == [result : {"Ok", "NotReturned"} \cup DocumentError, request_id : RequestId \cup {None},
            document_id : DocumentId \cup {None}, version : Nat, was_already_processed : BOOLEAN]

-----------------------------------------------------------------------------

(* Queries over the tables.                                                *)
VersionsOf(d) == {row.version : row \in {x \in document_versions : x.document_id = d}}
Processed(r) == \E op \in put_operations : op.request_id = r

TypeOK ==
    /\ document_versions \subseteq VersionRow
    /\ put_operations \subseteq OperationRow
    /\ call \in [Caller -> PutArguments \cup {NoCall}]
    /\ outcome \in [Caller -> Outcome]

Init ==
    /\ document_versions = {}
    /\ put_operations = {}
    /\ call = [c \in Caller |-> NoCall]
    /\ outcome = [c \in Caller |-> Err("NotReturned")]

Invoke(c, arguments) ==
    /\ call[c] = NoCall
    /\ call' = [call EXCEPT ![c] = arguments]
    /\ outcome' = [outcome EXCEPT ![c] = Err("NotReturned")]
    /\ UNCHANGED <<document_versions, put_operations>>

(* The call of c ends and its caller receives o.                           *)
Answer(c, o) ==
    /\ call[c] # NoCall
    /\ call' = [call EXCEPT ![c] = NoCall]
    /\ outcome' = [outcome EXCEPT ![c] = o]

(* put validates its input before anything else (a retry too).             *)
Valid(arguments) == arguments.content \in Text /\ arguments.content_type \in ContentType

(* The version a put may create: the first one of a document nobody used   *)
(* yet, or the one after the last of a document that exists.               *)
NextVersionOf(arguments, d, n) ==
    /\ VersionsOf(d) = 1 .. n - 1
    /\ arguments.document_id = IF n = 1 THEN None ELSE d

(* Both rows appear together, or not at all, and only once per request_id. *)
(* The caller may lose the answer of a mutation that did happen.           *)
Perform(c, d, n) ==
    /\ Valid(call[c])
    /\ ~ Processed(call[c].request_id)
    /\ NextVersionOf(call[c], d, n)
    /\ LET op == [request_id |-> call[c].request_id, document_id |-> d, version |-> n]
           row == [document_id |-> d, version |-> n, content |-> call[c].content]
       IN  /\ document_versions' = document_versions \cup {row}
           /\ put_operations' = put_operations \cup {op}
           /\ Answer(c, Ok(op, FALSE)) \/ Answer(c, Err("Repository"))

(* A repeated request_id is given the first result, untouched.             *)
Recognize(c) ==
    /\ Valid(call[c])
    /\ \E op \in put_operations :
        /\ op.request_id = call[c].request_id
        /\ Answer(c, Ok(op, TRUE))
    /\ UNCHANGED <<document_versions, put_operations>>

(* The reasons a put may be refused for; a repository failure may strike   *)
(* any call that got past validation.                                      *)
Refusable(arguments, error) ==
    \/ error = "EmptyContent" /\ arguments.content = Blank
    \/ /\ error = "EmptyContentType"
       /\ arguments.content # Blank
       /\ arguments.content_type = Blank
    \/ /\ error = "UnknownDocument"
       /\ Valid(arguments)
       /\ arguments.document_id # None
       /\ VersionsOf(arguments.document_id) = {}
    \/ error = "Repository" /\ Valid(arguments)

Refuse(c, error) ==
    /\ Refusable(call[c], error)
    /\ Answer(c, Err(error))
    /\ UNCHANGED <<document_versions, put_operations>>

Next ==
    \E c \in Caller :
        \/ \E arguments \in PutArguments : Invoke(c, arguments)
        \/ \E d \in DocumentId : \E n \in {1} \cup {m + 1 : m \in VersionsOf(d)} : Perform(c, d, n)
        \/ Recognize(c)
        \/ \E error \in DocumentError : Refuse(c, error)

Spec == Init /\ [][Next]_vars

=============================================================================
