------------------ MODULE PostgresDocumentRepositoryProofs ------------------
(* Proofs about PostgresDocumentRepository, for any number of callers,     *)
(* requests, documents and texts.                                          *)
EXTENDS PostgresDocumentRepository, TLAPS

(* COALESCE(MAX(version), 0) over the versions 1 .. n is n.                *)
LEMMA CoalesceMaxOfInterval ==
    ASSUME NEW n \in Nat
    PROVE  CoalesceMax(1 .. n) = n
<1> DEFINE Bound(k) == \A m \in 1 .. n : m <= k
<1>1. n \in (1 .. n) \cup {0} /\ Bound(n)
  OBVIOUS
<1>2. \A k \in (1 .. n) \cup {0} : Bound(k) => k = n
  OBVIOUS
<1>3. CoalesceMax(1 .. n) \in (1 .. n) \cup {0} /\ Bound(CoalesceMax(1 .. n))
  BY <1>1 DEF CoalesceMax
<1> QED
  BY <1>2, <1>3

LEMMA IntervalExtended ==
    ASSUME NEW n \in Nat \ {0}
    PROVE  (1 .. n - 1) \cup {n} = 1 .. n
  OBVIOUS

(* VersionsOf, with the table as an argument.                              *)
VersionsIn(table, d) == {row.version : row \in {x \in table : x.document_id = d}}

(* Inserting one version adds it to its own document's and no other's.     *)
LEMMA VersionsAfterInsert ==
    ASSUME NEW table, NEW row
    PROVE  /\ VersionsIn(table \cup {row}, row.document_id) =
                VersionsIn(table, row.document_id) \cup {row.version}
           /\ \A e : e # row.document_id =>
                VersionsIn(table \cup {row}, e) = VersionsIn(table, e)
<1>1. \A T, e, m : m \in VersionsIn(T, e) <=>
                     \E x \in T : x.document_id = e /\ x.version = m
  BY DEF VersionsIn
<1>2. ASSUME NEW m
      PROVE  m \in VersionsIn(table \cup {row}, row.document_id) <=>
             m \in VersionsIn(table, row.document_id) \cup {row.version}
  BY <1>1
<1>3. \A e : e # row.document_id =>
        \A m : m \in VersionsIn(table \cup {row}, e) <=> m \in VersionsIn(table, e)
  BY <1>1
<1>4. VersionsIn(table \cup {row}, row.document_id) =
        VersionsIn(table, row.document_id) \cup {row.version}
  BY <1>2
<1>5. ASSUME NEW e, e # row.document_id
      PROVE  VersionsIn(table \cup {row}, e) = VersionsIn(table, e)
  <2>1. \A m : m \in VersionsIn(table \cup {row}, e) <=> m \in VersionsIn(table, e)
    BY <1>3, <1>5
  <2> QED
    BY <2>1
<1> QED
  BY <1>4, <1>5

(* Every variable keeps its type: a put is always at one of its own        *)
(* statements, and the tables only hold rows the schema admits.            *)
LEMMA TypeStep ==
    ASSUME TypeOK, CallState, TxnState, VersionHistory, [Next]_vars
    PROVE  TypeOK'
<1> USE DEF TypeOK, tables, Statement, InTransaction, At, Goto
<1>ok. \A op \in OperationRow, b \in BOOLEAN : Ok(op, b) \in Promise!Outcome
  BY DEF Ok, Promise!Ok, Promise!Outcome, OperationRow, Promise!OperationRow
<1>err. \A e \in {"NotReturned"} \cup Promise!DocumentError : Err(e) \in Promise!Outcome
  BY DEF Err, Promise!Err, Promise!Outcome
<1>txn. NoTxn \in [document_id : DocumentId \cup {None}, version : Nat]
  BY DEF NoTxn
<1>ret. ASSUME NEW c \in Caller, NEW o \in Promise!Outcome, Return(c, o)
        PROVE  /\ pc' \in [Caller -> Statement]
               /\ call' \in [Caller -> PutArguments \cup {NoCall}]
               /\ outcome' \in [Caller -> Promise!Outcome]
               /\ txn' \in [Caller -> [document_id : DocumentId \cup {None}, version : Nat]]
  BY <1>ret, <1>txn DEF Return
<1>1. ASSUME NEW c \in Caller, NEW arguments \in PutArguments, Put(c, arguments)
      PROVE  TypeOK'
  BY <1>1, <1>err DEF Put
<1>2. ASSUME NEW c \in Caller, Validate(c)
      PROVE  TypeOK'
  BY <1>2, <1>ret, <1>err DEF Validate, Promise!DocumentError
<1>3. ASSUME NEW c \in Caller, FindPutOperation(c)
      PROVE  TypeOK'
  BY <1>3, <1>ret, <1>ok DEF FindPutOperation
<1>4. ASSUME NEW c \in Caller, InsertDocument(c)
      PROVE  TypeOK'
  BY <1>4 DEF InsertDocument
<1>5. ASSUME NEW c \in Caller, LockDocument(c)
      PROVE  TypeOK'
  BY <1>5, <1>ret, <1>err DEF LockDocument, Promise!DocumentError
<1>6. ASSUME NEW c \in Caller, NextVersion(c)
      PROVE  TypeOK'
  <2>1. call[c].document_id \in documents
    BY <1>6 DEF NextVersion, CallState
  <2>2. MaxVersion(call[c].document_id) \in Nat
    BY <2>1 DEF VersionHistory
  <2> QED
    BY <1>6, <2>1, <2>2 DEF NextVersion
<1>7. ASSUME NEW c \in Caller, InsertVersion(c)
      PROVE  TypeOK'
  BY <1>7 DEF InsertVersion
<1>8. ASSUME NEW c \in Caller, InsertPutOperation(c)
      PROVE  TypeOK'
  BY <1>8 DEF InsertPutOperation
<1>9. ASSUME NEW c \in Caller, Rollback(c)
      PROVE  TypeOK'
  BY <1>9, <1>txn DEF Rollback
<1>10. ASSUME NEW c \in Caller, FindWinner(c)
       PROVE  TypeOK'
  BY <1>10, <1>ret, <1>ok DEF FindWinner
<1>11. ASSUME NEW c \in Caller, Commit(c)
       PROVE  TypeOK'
  <2>1. /\ txn[c].document_id \in DocumentId
        /\ txn[c].version \in Nat \ {0}
        /\ call[c].request_id \in RequestId
        /\ call[c].content \in Text
    <3>1. call[c] \in PutArguments /\ call[c].content \in Text
      BY <1>11 DEF Commit, CallState
    <3>2. call[c].request_id \in RequestId
      BY <3>1 DEF PutArguments, Promise!PutArguments
    <3>3. CASE call[c].document_id = None
      BY <1>11, <3>1, <3>2, <3>3 DEF Commit, TxnState, Wrote
    <3>4. CASE call[c].document_id # None
      <4>1. call[c].document_id \in documents /\ txn[c].document_id = call[c].document_id
        BY <1>11, <3>4 DEF Commit, TxnState, Wrote
      <4>2. txn[c].version = MaxVersion(call[c].document_id) + 1
        BY <1>11, <3>4 DEF Commit, TxnState, Wrote
      <4> QED
        BY <3>1, <3>2, <4>1, <4>2 DEF VersionHistory
    <3> QED
      BY <3>3, <3>4
  <2>2. Operation(c) \in OperationRow /\ Row(c) \in VersionRow
    BY <2>1 DEF Operation, Row, OperationRow, VersionRow,
                Promise!OperationRow, Promise!VersionRow
  <2> QED
    BY <1>11, <1>ret, <1>ok, <1>err, <2>1, <2>2 DEF Commit, Promise!DocumentError
<1>12. ASSUME NEW c \in Caller, Fail(c)
       PROVE  TypeOK'
  BY <1>12, <1>ret, <1>err DEF Fail, Promise!DocumentError
<1>13. CASE UNCHANGED vars
  BY <1>13 DEF vars
<1> QED
  BY <1>1, <1>2, <1>3, <1>4, <1>5, <1>6, <1>7, <1>8, <1>9, <1>10, <1>11, <1>12, <1>13
  DEF Next, Statements

-----------------------------------------------------------------------------

LEMMA InvInit == Init => IInv
<1> SUFFICES ASSUME Init PROVE IInv
  OBVIOUS
<1> USE DEF Init, At
<1>1. TypeOK
  BY DEF TypeOK, Err, Promise!Err, Promise!Outcome, Statement, NoTxn
<1>2. CallState /\ TxnState
  BY DEF CallState, TxnState, Wrote
<1>3. RowLockExclusive /\ RequestIdExclusive
  BY DEF RowLockExclusive, RequestIdExclusive, HoldsRowLock, InTransaction
<1>4. VersionHistory /\ OneOperationPerVersion
  BY DEF VersionHistory, OneOperationPerVersion
<1>5. OutcomeIsRecorded
  BY DEF OutcomeIsRecorded, Err, Promise!Err
<1> QED
  BY <1>1, <1>2, <1>3, <1>4, <1>5 DEF IInv

(* What a step that leaves the tables alone cannot disturb.                *)
LEMMA QuietTables ==
    ASSUME IInv, UNCHANGED tables
    PROVE  /\ VersionHistory'
           /\ OneOperationPerVersion'
           /\ \A d : MaxVersion(d)' = MaxVersion(d)
<1> USE DEF IInv, tables
<1>1. \A d : MaxVersion(d)' = MaxVersion(d) /\ VersionsOf(d)' = VersionsOf(d)
  BY DEF MaxVersion, VersionsOf, Promise!VersionsOf
<1>2. VersionHistory'
  BY <1>1 DEF VersionHistory
<1>3. OneOperationPerVersion'
  BY DEF OneOperationPerVersion
<1> QED
  BY <1>1, <1>2, <1>3

(* A return that changes no row: everything the other callers rely on      *)
(* stays, and the locks of this one are gone.                              *)
LEMMA ReturnStep ==
    ASSUME IInv, TypeOK', UNCHANGED tables,
           NEW c \in Caller, NEW o \in Promise!Outcome, Return(c, o),
           o.result = "Ok" =>
               [request_id |-> o.request_id, document_id |-> o.document_id,
                version |-> o.version] \in put_operations
    PROVE  IInv'
<1> USE DEF IInv, TypeOK, tables, Return, Goto, At
<1>1. CallState'
  BY DEF CallState, PutArguments, NoCall, Promise!PutArguments, Promise!NoCall
<1>2. TxnState'
  <2>1. \A x \in Caller : x # c =>
          pc'[x] = pc[x] /\ call'[x] = call[x] /\ txn'[x] = txn[x]
    OBVIOUS
  <2>2. pc'[c] = "idle" /\ txn'[c] = NoTxn
    OBVIOUS
  <2>3. \A x \in Caller : MaxVersion(call[x].document_id)' = MaxVersion(call'[x].document_id)
    BY DEF MaxVersion, VersionsOf, Promise!VersionsOf
  <2> QED
    BY <2>1, <2>2, <2>3, ConstantsAssumption DEF TxnState, Wrote, NoTxn
<1>3. RowLockExclusive'
  BY DEF RowLockExclusive, HoldsRowLock, InTransaction
<1>4. RequestIdExclusive'
  BY DEF RequestIdExclusive
<1>5. OutcomeIsRecorded'
  BY DEF OutcomeIsRecorded
<1> QED
  BY <1>1, <1>2, <1>3, <1>4, <1>5, QuietTables

(* A step that moves one caller to its next statement, without touching    *)
(* the tables or what any call was asked and has answered.  It may rewrite *)
(* the transaction's own (document_id, version).                           *)
LEMMA MoveStep ==
    ASSUME IInv, TypeOK', UNCHANGED <<tables, call, outcome>>,
           NEW c \in Caller, NEW s \in Statement, ~ At(c, "idle"), s # "idle", s # "validate",
           Goto(c, s),
           \A x \in Caller \ {c} : txn'[x] = txn[x],
           call[c].content \in Text /\ call[c].content_type \in ContentType,
           s = "insert_document" => call[c].document_id = None,
           s = "lock_document" => call[c].document_id # None,
           s = "next_version" => call[c].document_id \in documents,
           s \in {"rollback", "find_winner"} =>
               \E op \in put_operations : op.request_id = call[c].request_id,
           s \in InTransaction /\ call[c].document_id # None =>
               \A other \in Caller \ {c} : ~ HoldsRowLock(other, call[c].document_id),
           s = "commit" =>
               /\ \A op \in put_operations : op.request_id # call[c].request_id
               /\ \A other \in Caller \ {c} :
                   ~ (At(other, "commit") /\ call[other].request_id = call[c].request_id),
           TxnState'
    PROVE  IInv'
<1> USE DEF IInv, TypeOK, tables, Goto, At
<1>1. CallState'
  BY DEF CallState
<1>2. RowLockExclusive'
  BY ConstantsAssumption DEF RowLockExclusive, HoldsRowLock
<1>3. RequestIdExclusive'
  BY DEF RequestIdExclusive
<1>4. OutcomeIsRecorded'
  BY DEF OutcomeIsRecorded
<1> QED
  BY <1>1, <1>2, <1>3, <1>4, QuietTables

(* TxnState for a step that keeps every caller's transaction as it is.     *)
LEMMA TxnKept ==
    ASSUME IInv, UNCHANGED <<tables, call, txn>>,
           \A x \in Caller : Wrote(x)' = Wrote(x)
    PROVE  TxnState'
<1>1. \A x \in Caller : MaxVersion(call[x].document_id)' = MaxVersion(call[x].document_id)
  BY DEF MaxVersion, VersionsOf, Promise!VersionsOf, tables
<1>2. TxnState
  BY DEF IInv
<1> QED
  BY <1>1, <1>2 DEF TxnState, tables

(* COMMIT moves the transaction's rows into the tables: the next version   *)
(* of the document it locked, or version 1 of its own new one, under a     *)
(* request_id that nobody has recorded.                                    *)
LEMMA CommitStep ==
    ASSUME IInv, TypeOK', NEW c \in Caller, Commit(c)
    PROVE  IInv'
<1> USE DEF IInv, TypeOK
<1>c. At(c, "commit") /\ Wrote(c) /\ call[c] \in PutArguments /\ call[c].content \in Text
  BY DEF CallState, Commit, At, Wrote
<1>d. PICK d \in DocumentId, n \in Nat \ {0} :
        /\ d = txn[c].document_id
        /\ n = txn[c].version
        /\ VersionsOf(d) = 1 .. n - 1
        /\ call[c].document_id = None => d \notin documents /\ n = 1
        /\ call[c].document_id # None => d \in documents /\ call[c].document_id = d
  <2>1. CASE call[c].document_id = None
    <3>1. txn[c].document_id \in DocumentId \ documents /\ txn[c].version = 1
      BY <2>1, <1>c DEF TxnState
    <3>2. VersionsOf(txn[c].document_id) = {}
      BY <3>1 DEF VersionHistory, VersionsOf, Promise!VersionsOf
    <3>3. 1 .. txn[c].version - 1 = {}
      BY <3>1
    <3> USE <3>1
    <3> WITNESS txn[c].document_id \in DocumentId, txn[c].version \in Nat \ {0}
    <3> QED
      BY <2>1, <3>2, <3>3
  <2>2. CASE call[c].document_id # None
    <3>1. /\ txn[c].document_id \in documents
          /\ txn[c].document_id = call[c].document_id
          /\ txn[c].version = MaxVersion(txn[c].document_id) + 1
      BY <2>2, <1>c DEF TxnState
    <3>2. /\ MaxVersion(txn[c].document_id) \in Nat
          /\ VersionsOf(txn[c].document_id) = 1 .. MaxVersion(txn[c].document_id)
      BY <3>1 DEF VersionHistory
    <3>3. /\ txn[c].version \in Nat \ {0}
          /\ txn[c].version - 1 = MaxVersion(txn[c].document_id)
      BY <3>1, <3>2
    <3>4. VersionsOf(txn[c].document_id) = 1 .. txn[c].version - 1
      BY <3>2, <3>3
    <3>5. txn[c].document_id \in DocumentId
      BY <3>1
    <3> USE <3>3, <3>5
    <3> WITNESS txn[c].document_id \in DocumentId, txn[c].version \in Nat \ {0}
    <3> QED
      BY <2>2, <3>1, <3>4
  <2> QED
    BY <2>1, <2>2
<1>r. PICK r \in RequestId : r = call[c].request_id
  BY <1>c DEF PutArguments, Promise!PutArguments
<1>t. PICK t \in Text : t = call[c].content
  BY <1>c
<1> DEFINE op == [request_id |-> r, document_id |-> d, version |-> n]
           row == [document_id |-> d, version |-> n, content |-> t]
<1>s. /\ documents' = documents \cup {d}
      /\ document_versions' = document_versions \cup {row}
      /\ put_operations' = put_operations \cup {op}
      /\ outcome'[c].result = "Ok" => outcome'[c] = Ok(op, FALSE)
  <2>1. Row(c) = row /\ Operation(c) = op
    BY <1>d, <1>r, <1>t DEF Row, Operation
  <2>2. outcome'[c] \in {Ok(op, FALSE), Err("Repository")}
    BY <2>1 DEF Commit, Return
  <2>3. Err("Repository").result # "Ok"
    BY DEF Err, Promise!Err
  <2> QED
    BY <1>d, <2>1, <2>2, <2>3 DEF Commit
<1>e. /\ pc'[c] = "idle" /\ call'[c] = NoCall /\ txn'[c] = NoTxn
      /\ \A x \in Caller : x # c =>
          /\ pc'[x] = pc[x] /\ call'[x] = call[x]
          /\ txn'[x] = txn[x] /\ outcome'[x] = outcome[x]
  BY DEF Commit, Return, Goto
<1>new. VersionsOf(d)' = 1 .. n
  <2>1. VersionsIn(document_versions', d) = VersionsIn(document_versions, d) \cup {n}
    BY <1>s, VersionsAfterInsert
  <2>2. /\ VersionsIn(document_versions', d) = VersionsOf(d)'
        /\ VersionsIn(document_versions, d) = VersionsOf(d)
    BY DEF VersionsIn, VersionsOf, Promise!VersionsOf
  <2>3. (1 .. n - 1) \cup {n} = 1 .. n
    BY IntervalExtended
  <2> QED
    BY <2>1, <2>2, <2>3, <1>d
<1>max. MaxVersion(d)' = n
  <2>1. MaxVersion(d)' = CoalesceMax(VersionsOf(d)')
    BY DEF MaxVersion, CoalesceMax
  <2> QED
    BY <2>1, <1>new, CoalesceMaxOfInterval
<1>others. \A e : e # d =>
             VersionsIn(document_versions', e) = VersionsIn(document_versions, e)
  <2>1. \A e : e # row.document_id =>
          VersionsIn(document_versions \cup {row}, e) = VersionsIn(document_versions, e)
    BY VersionsAfterInsert
  <2>2. row.document_id = d
    OBVIOUS
  <2> HIDE DEF row
  <2> QED
    BY <2>1, <2>2, <1>s
<1>rest. ASSUME NEW e, e # d
         PROVE  VersionsOf(e)' = VersionsOf(e) /\ MaxVersion(e)' = MaxVersion(e)
  <2>1. VersionsOf(e)' = VersionsOf(e)
    BY <1>rest, <1>others DEF VersionsIn, VersionsOf, Promise!VersionsOf
  <2> QED
    BY <2>1 DEF MaxVersion, CoalesceMax
<1>1. CallState'
  BY <1>s, <1>e DEF CallState, At, PutArguments, NoCall, Promise!PutArguments, Promise!NoCall
<1>2. TxnState'
  <2>1. ASSUME NEW x \in Caller, x # c, Wrote(x)
        PROVE  /\ txn[x].document_id # d
               /\ call[x].document_id # d
    <3>1. CASE call[x].document_id = None
      BY <3>1, <2>1, <1>c, <1>d, ConstantsAssumption DEF TxnState
    <3>2. CASE call[x].document_id # None
      BY <3>2, <2>1, <1>c, <1>d
      DEF TxnState, RowLockExclusive, HoldsRowLock, InTransaction, Wrote, At
    <3> QED
      BY <3>1, <3>2
  <2>2. \A x \in Caller : Wrote(x)' => x # c /\ Wrote(x)
    BY <1>e DEF Wrote
  <2>3. ASSUME NEW x \in Caller, x # c, Wrote(x)
        PROVE  MaxVersion(call[x].document_id)' = MaxVersion(call[x].document_id)
    <3>1. VersionsIn(document_versions', call[x].document_id) =
            VersionsIn(document_versions, call[x].document_id)
      BY <2>1, <2>3, <1>others
    <3>2. /\ MaxVersion(call[x].document_id) =
                CoalesceMax(VersionsIn(document_versions, call[x].document_id))
          /\ MaxVersion(call[x].document_id)' =
                CoalesceMax(VersionsIn(document_versions', call'[x].document_id))
      BY DEF MaxVersion, VersionsOf, Promise!VersionsOf, VersionsIn
    <3> QED
      BY <3>1, <3>2, <2>3, <1>e
  <2>4. ASSUME NEW x \in Caller, Wrote(x)'
        PROVE  /\ call'[x].document_id = None =>
                    /\ txn'[x].document_id \in DocumentId \ documents'
                    /\ txn'[x].version = 1
                    /\ \A other \in Caller \ {x} :
                        txn'[other].document_id # txn'[x].document_id
               /\ call'[x].document_id # None =>
                    /\ txn'[x].document_id = call'[x].document_id
                    /\ call'[x].document_id \in documents'
                    /\ txn'[x].version = MaxVersion(call[x].document_id)' + 1
    <3>1. x # c /\ Wrote(x)
      BY <2>2, <2>4
    <3>2. txn'[c].document_id \notin DocumentId
      BY <1>e, ConstantsAssumption DEF NoTxn
    <3> QED
      BY <3>1, <3>2, <2>1, <2>3, <1>e, <1>s DEF TxnState
  <2>5. \A x \in Caller : ~ Wrote(x)' => txn'[x] = NoTxn
    BY <1>e DEF TxnState, Wrote
  <2> QED
    BY <2>4, <2>5 DEF TxnState
<1>3. RowLockExclusive'
  BY <1>e DEF RowLockExclusive, HoldsRowLock, InTransaction
<1>4. RequestIdExclusive'
  <2>1. \A x \in Caller \ {c} : At(x, "commit") => call[x].request_id # r
    BY <1>c, <1>r DEF RequestIdExclusive
  <2>2. \A x \in Caller : At(x, "commit")' =>
          x # c /\ At(x, "commit") /\ call'[x] = call[x]
    BY <1>e DEF At
  <2>3. op.request_id = r
    OBVIOUS
  <2>4. \A x \in Caller : At(x, "commit")' =>
          \A o \in put_operations' : o.request_id # call'[x].request_id
    BY <2>1, <2>2, <2>3, <1>s DEF RequestIdExclusive
  <2> QED
    BY <2>2, <2>4 DEF RequestIdExclusive
<1>5. VersionHistory'
  <2>1. \A e \in documents' : MaxVersion(e)' \in Nat \ {0} /\ VersionsOf(e)' = 1 .. MaxVersion(e)'
    BY <1>s, <1>new, <1>max, <1>rest DEF VersionHistory
  <2>2. \A x \in document_versions' : x.document_id \in documents'
    BY <1>s DEF VersionHistory
  <2>3. \A x \in document_versions : ~ (x.document_id = d /\ x.version = n)
    BY <1>d DEF VersionsOf, Promise!VersionsOf
  <2>4. \A x, y \in document_versions' :
          (x.document_id = y.document_id /\ x.version = y.version) => x = y
    BY <2>3, <1>s DEF VersionHistory
  <2> QED
    BY <2>1, <2>2, <2>4 DEF VersionHistory
<1>6. OneOperationPerVersion'
  <2>1. \A x \in document_versions : ~ (x.document_id = d /\ x.version = n)
    BY <1>d DEF VersionsOf, Promise!VersionsOf
  <2>2. \A x \in put_operations : ~ (x.document_id = d /\ x.version = n)
    BY <2>1 DEF OneOperationPerVersion
  <2>3. \A x \in put_operations : x.request_id # r
    BY <1>c, <1>r DEF RequestIdExclusive
  <2>4. /\ op.request_id = r /\ op.document_id = d /\ op.version = n
        /\ row.document_id = d /\ row.version = n
    OBVIOUS
  <2>5. \A o \in put_operations' : \E x \in document_versions' :
          x.document_id = o.document_id /\ x.version = o.version
    BY <2>4, <1>s DEF OneOperationPerVersion
  <2>6. \A x \in document_versions' : \E o \in put_operations' :
          x.document_id = o.document_id /\ x.version = o.version
    BY <2>4, <1>s DEF OneOperationPerVersion
  <2>7. \A o1, o2 \in put_operations' :
          \/ o1.request_id = o2.request_id
          \/ o1.document_id = o2.document_id /\ o1.version = o2.version
          => o1 = o2
    BY <2>2, <2>3, <2>4, <1>s DEF OneOperationPerVersion
  <2> QED
    BY <2>5, <2>6, <2>7 DEF OneOperationPerVersion
<1>7. OutcomeIsRecorded'
  BY <1>s, <1>e DEF OutcomeIsRecorded, Ok, Promise!Ok
<1> QED
  BY <1>1, <1>2, <1>3, <1>4, <1>5, <1>6, <1>7

-----------------------------------------------------------------------------

(* The row of the document a transaction works on is locked by it alone.   *)
LEMMA RowHeldAlone ==
    ASSUME IInv, NEW c \in Caller, pc[c] \in InTransaction, call[c].document_id # None
    PROVE  \A other \in Caller \ {c} : ~ HoldsRowLock(other, call[c].document_id)
<1>1. call[c].document_id \in DocumentId
  BY DEF IInv, CallState, InTransaction, At, PutArguments, Promise!PutArguments
<1> QED
  BY <1>1 DEF IInv, RowLockExclusive, HoldsRowLock

(* Every step preserves the inductive invariant.                           *)
LEMMA InvStep ==
    ASSUME IInv, [Next]_vars
    PROVE  IInv'
<1> USE DEF IInv
<1>t. TypeOK'
  BY TypeStep
<1>err. \A e \in {"NotReturned"} \cup Promise!DocumentError :
          Err(e) \in Promise!Outcome /\ Err(e).result = e
  BY DEF Err, Promise!Err, Promise!Outcome
<1>ok. \A op \in OperationRow :
         /\ Ok(op, TRUE) \in Promise!Outcome
         /\ [request_id |-> Ok(op, TRUE).request_id, document_id |-> Ok(op, TRUE).document_id,
             version |-> Ok(op, TRUE).version] = op
  BY DEF Ok, Promise!Ok, Promise!Outcome, OperationRow, Promise!OperationRow
<1>reg. ASSUME NEW c \in Caller, NEW e \in Promise!DocumentError,
               Return(c, Err(e)), UNCHANGED tables
        PROVE  IInv'
  <2>1. e # "Ok"
    BY DEF Promise!DocumentError
  <2> QED
    BY <1>reg, <1>t, <1>err, <2>1, ReturnStep
<1>win. ASSUME NEW c \in Caller, NEW op \in put_operations,
               Return(c, Ok(op, TRUE)), UNCHANGED tables
        PROVE  IInv'
  <2>1. op \in OperationRow
    BY DEF TypeOK
  <2> QED
    BY <1>win, <1>t, <1>ok, <2>1, ReturnStep
<1>call. ASSUME NEW c \in Caller, pc[c] \notin {"idle", "validate"}
         PROVE  /\ call[c] \in PutArguments
                /\ call[c].content \in Text /\ call[c].content_type \in ContentType
                /\ ~ At(c, "idle")
  BY <1>call DEF CallState, At
<1>1. ASSUME NEW c \in Caller, NEW arguments \in PutArguments, Put(c, arguments)
      PROVE  IInv'
  <2>1. /\ pc[c] = "idle" /\ pc'[c] = "validate" /\ call'[c] = arguments
        /\ outcome'[c] = Err("NotReturned")
        /\ \A x \in Caller : x # c =>
            pc'[x] = pc[x] /\ call'[x] = call[x] /\ outcome'[x] = outcome[x]
    BY <1>1 DEF Put, At, Goto, TypeOK
  <2>2. UNCHANGED tables /\ UNCHANGED txn
    BY <1>1 DEF Put
  <2>3. arguments # NoCall
    BY ConstantsAssumption DEF PutArguments, NoCall, Promise!PutArguments, Promise!NoCall
  <2>4. CallState'
    BY <2>1, <2>2, <2>3 DEF CallState, At, tables
  <2>5. TxnState'
    <3>1. \A x \in Caller : Wrote(x)' => Wrote(x) /\ call'[x] = call[x]
      BY <2>1 DEF Wrote
    <3>2. \A x \in Caller : ~ Wrote(x)' => ~ Wrote(x)
      BY <2>1 DEF Wrote
    <3>3. ASSUME NEW x \in Caller, Wrote(x)'
          PROVE  MaxVersion(call[x].document_id)' = MaxVersion(call[x].document_id)
      BY <3>1, <3>3, <2>2 DEF MaxVersion, VersionsOf, Promise!VersionsOf, tables
    <3> QED
      BY <3>1, <3>2, <3>3, <2>2 DEF TxnState, tables
  <2>6. RowLockExclusive' /\ RequestIdExclusive'
    BY <2>1, <2>2 DEF RowLockExclusive, RequestIdExclusive, HoldsRowLock, InTransaction, At, tables
  <2>7. OutcomeIsRecorded'
    BY <2>1, <2>2, <1>err DEF OutcomeIsRecorded, tables
  <2> QED
    BY <1>t, <2>2, <2>4, <2>5, <2>6, <2>7, QuietTables
<1>2. ASSUME NEW c \in Caller, Validate(c)
      PROVE  IInv'
  <2>1. CASE \E e \in {"EmptyContent", "EmptyContentType"} : Return(c, Err(e))
    BY <1>2, <2>1, <1>reg DEF Validate, Promise!DocumentError
  <2>2. CASE /\ call[c].content # Blank /\ call[c].content_type # Blank
             /\ Goto(c, "find_put_operation")
             /\ UNCHANGED <<call, outcome, txn>>
    <3>1. /\ At(c, "validate") /\ ~ At(c, "idle") /\ UNCHANGED tables
          /\ call[c].content \in Text /\ call[c].content_type \in ContentType
      BY <1>2, <2>2 DEF Validate, At, CallState, PutArguments, Promise!PutArguments
    <3>2. TxnState'
      BY <2>2, <3>1, TxnKept DEF Wrote, At, Goto, TypeOK
    <3> QED
      BY <2>2, <3>1, <3>2, <1>t, MoveStep DEF Statement, InTransaction
  <2> QED
    BY <1>2, <2>1, <2>2 DEF Validate
<1>3. ASSUME NEW c \in Caller, FindPutOperation(c)
      PROVE  IInv'
  <2>1. CASE \E op \in put_operations : Return(c, Ok(op, TRUE))
    BY <1>3, <2>1, <1>win DEF FindPutOperation
  <2>2. CASE /\ Goto(c, IF call[c].document_id = None THEN "insert_document" ELSE "lock_document")
             /\ UNCHANGED <<call, outcome, txn>>
    <3>1. At(c, "find_put_operation") /\ UNCHANGED tables
      BY <1>3 DEF FindPutOperation
    <3>2. TxnState'
      BY <2>2, <3>1, TxnKept DEF Wrote, At, Goto, TypeOK
    <3>3. call[c].content \in Text /\ call[c].content_type \in ContentType /\ ~ At(c, "idle")
      BY <3>1, <1>call DEF At
    <3> QED
      BY <2>2, <3>1, <3>2, <3>3, <1>t, MoveStep DEF Statement, InTransaction
  <2> QED
    BY <1>3, <2>1, <2>2 DEF FindPutOperation
<1>4. ASSUME NEW c \in Caller, InsertDocument(c)
      PROVE  IInv'
  <2>1. /\ At(c, "insert_document") /\ UNCHANGED <<tables, call, outcome>>
        /\ Goto(c, "insert_version")
    BY <1>4 DEF InsertDocument
  <2>2. PICK d \in DocumentId \ documents :
          /\ \A other \in Caller : txn[other].document_id # d
          /\ txn' = [txn EXCEPT ![c] = [document_id |-> d, version |-> 1]]
    BY <1>4 DEF InsertDocument
  <2>3. /\ txn'[c].document_id = d /\ txn'[c].version = 1
        /\ \A x \in Caller : x # c => txn'[x] = txn[x]
    BY <2>2 DEF TypeOK
  <2>4. /\ call[c].content \in Text /\ call[c].content_type \in ContentType /\ ~ At(c, "idle")
        /\ call[c].document_id = None
    BY <2>1, <1>call DEF At, CallState
  <2>5. TxnState'
    <3>1. \A x \in Caller : MaxVersion(call[x].document_id)' = MaxVersion(call[x].document_id)
      BY <2>1 DEF MaxVersion, VersionsOf, Promise!VersionsOf, tables
    <3>2. \A x \in Caller : x # c => (Wrote(x)' <=> Wrote(x))
      BY <2>1 DEF Wrote, Goto, TypeOK
    <3>3. Wrote(c)'
      BY <2>1 DEF Wrote, Goto, TypeOK
    <3> QED
      BY <2>1, <2>2, <2>3, <2>4, <3>1, <3>2, <3>3 DEF TxnState, tables
  <2> QED
    BY <2>1, <2>3, <2>4, <2>5, <1>t, MoveStep DEF Statement, InTransaction
<1>5. ASSUME NEW c \in Caller, LockDocument(c)
      PROVE  IInv'
  <2>1. CASE Return(c, Err("UnknownDocument"))
    BY <1>5, <2>1, <1>reg DEF LockDocument, Promise!DocumentError
  <2>2. CASE /\ call[c].document_id \in documents
             /\ Goto(c, "next_version")
             /\ UNCHANGED <<call, outcome, txn>>
    <3>1. /\ At(c, "lock_document") /\ UNCHANGED tables
          /\ \A other \in Caller : ~ HoldsRowLock(other, call[c].document_id)
      BY <1>5 DEF LockDocument
    <3>2. TxnState'
      BY <2>2, <3>1, TxnKept DEF Wrote, At, Goto, TypeOK
    <3>3. call[c].content \in Text /\ call[c].content_type \in ContentType /\ ~ At(c, "idle")
      BY <3>1, <1>call DEF At
    <3> QED
      BY <2>2, <3>1, <3>2, <3>3, <1>t, MoveStep DEF Statement, InTransaction
  <2> QED
    BY <1>5, <2>1, <2>2 DEF LockDocument
<1>6. ASSUME NEW c \in Caller, NextVersion(c)
      PROVE  IInv'
  <2>1. /\ At(c, "next_version") /\ UNCHANGED <<tables, call, outcome>>
        /\ Goto(c, "insert_version")
    BY <1>6 DEF NextVersion
  <2>2. /\ call[c].content \in Text /\ call[c].content_type \in ContentType /\ ~ At(c, "idle")
        /\ call[c].document_id \in documents
    BY <2>1, <1>call DEF At, CallState
  <2>3. /\ txn'[c].document_id = call[c].document_id
        /\ txn'[c].version = MaxVersion(call[c].document_id) + 1
        /\ \A x \in Caller : x # c => txn'[x] = txn[x]
    BY <1>6 DEF NextVersion, TypeOK
  <2>4. call[c].document_id # None
    BY <2>2, ConstantsAssumption DEF TypeOK
  <2>5. TxnState'
    <3>1. \A x \in Caller : MaxVersion(call[x].document_id)' = MaxVersion(call[x].document_id)
      BY <2>1 DEF MaxVersion, VersionsOf, Promise!VersionsOf, tables
    <3>2. \A x \in Caller : x # c => (Wrote(x)' <=> Wrote(x))
      BY <2>1 DEF Wrote, Goto, TypeOK
    <3>3. Wrote(c)'
      BY <2>1 DEF Wrote, Goto, TypeOK
    <3> QED
      BY <2>1, <2>2, <2>3, <2>4, <3>1, <3>2, <3>3 DEF TxnState, tables
  <2>6. \A other \in Caller \ {c} : ~ HoldsRowLock(other, call[c].document_id)
    BY <2>1, <2>2 DEF RowLockExclusive, HoldsRowLock, InTransaction, At, TypeOK
  <2> QED
    BY <2>1, <2>2, <2>3, <2>5, <2>6, <1>t, MoveStep DEF Statement, InTransaction
<1>7. ASSUME NEW c \in Caller, InsertVersion(c)
      PROVE  IInv'
  <2>1. /\ At(c, "insert_version") /\ UNCHANGED <<tables, call, outcome, txn>>
        /\ Goto(c, "insert_put_operation")
    BY <1>7 DEF InsertVersion
  <2>2. call[c].content \in Text /\ call[c].content_type \in ContentType /\ ~ At(c, "idle")
    BY <2>1, <1>call DEF At
  <2>3. TxnState'
    BY <2>1, TxnKept DEF Wrote, At, Goto, TypeOK
  <2>4. call[c].document_id # None =>
          \A other \in Caller \ {c} : ~ HoldsRowLock(other, call[c].document_id)
    BY <2>1, RowHeldAlone DEF InTransaction, At
  <2> QED
    BY <2>1, <2>2, <2>3, <2>4, <1>t, MoveStep DEF Statement, InTransaction
<1>8. ASSUME NEW c \in Caller, InsertPutOperation(c)
      PROVE  IInv'
  <2>1. /\ At(c, "insert_put_operation") /\ UNCHANGED <<tables, call, outcome, txn>>
        /\ \A other \in Caller :
            ~ (At(other, "commit") /\ call[other].request_id = call[c].request_id)
    BY <1>8 DEF InsertPutOperation
  <2>2. call[c].content \in Text /\ call[c].content_type \in ContentType /\ ~ At(c, "idle")
    BY <2>1, <1>call DEF At
  <2>3. call[c].document_id # None =>
          \A other \in Caller \ {c} : ~ HoldsRowLock(other, call[c].document_id)
    BY <2>1, RowHeldAlone DEF InTransaction, At
  <2>4. CASE /\ \E op \in put_operations : op.request_id = call[c].request_id
             /\ Goto(c, "rollback")
    <3>1. TxnState'
      BY <2>1, <2>4, TxnKept DEF Wrote, At, Goto, TypeOK
    <3> QED
      BY <2>1, <2>2, <2>3, <2>4, <3>1, <1>t, MoveStep DEF Statement, InTransaction
  <2>5. CASE /\ \A op \in put_operations : op.request_id # call[c].request_id
             /\ Goto(c, "commit")
    <3>1. TxnState'
      BY <2>1, <2>5, TxnKept DEF Wrote, At, Goto, TypeOK
    <3> QED
      BY <2>1, <2>2, <2>3, <2>5, <3>1, <1>t, MoveStep DEF Statement, InTransaction
  <2> QED
    BY <1>8, <2>4, <2>5 DEF InsertPutOperation
<1>9. ASSUME NEW c \in Caller, Rollback(c)
      PROVE  IInv'
  <2>1. /\ At(c, "rollback") /\ UNCHANGED <<tables, call, outcome>>
        /\ Goto(c, "find_winner")
        /\ txn'[c] = NoTxn
        /\ \A x \in Caller : x # c => txn'[x] = txn[x]
    BY <1>9 DEF Rollback, TypeOK
  <2>2. /\ call[c].content \in Text /\ call[c].content_type \in ContentType /\ ~ At(c, "idle")
        /\ \E op \in put_operations : op.request_id = call[c].request_id
    BY <2>1, <1>call DEF At, CallState
  <2>3. TxnState'
    <3>1. \A x \in Caller : MaxVersion(call[x].document_id)' = MaxVersion(call[x].document_id)
      BY <2>1 DEF MaxVersion, VersionsOf, Promise!VersionsOf, tables
    <3>2. \A x \in Caller : x # c => (Wrote(x)' <=> Wrote(x))
      BY <2>1 DEF Wrote, Goto, TypeOK
    <3>3. ~ Wrote(c)'
      BY <2>1 DEF Wrote, Goto, TypeOK
    <3> QED
      BY <2>1, <3>1, <3>2, <3>3, ConstantsAssumption DEF TxnState, tables, NoTxn
  <2> QED
    BY <2>1, <2>2, <2>3, <1>t, MoveStep DEF Statement, InTransaction
<1>10. ASSUME NEW c \in Caller, FindWinner(c)
       PROVE  IInv'
  BY <1>10, <1>win DEF FindWinner
<1>11. ASSUME NEW c \in Caller, Commit(c)
       PROVE  IInv'
  BY <1>11, <1>t, CommitStep
<1>12. ASSUME NEW c \in Caller, Fail(c)
       PROVE  IInv'
  BY <1>12, <1>reg DEF Fail, Promise!DocumentError
<1>13. CASE UNCHANGED vars
  <2>1. TxnState'
    BY <1>13, TxnKept DEF vars, tables, Wrote
  <2>2. CallState' /\ RowLockExclusive' /\ RequestIdExclusive' /\ OutcomeIsRecorded'
    BY <1>13 DEF vars, CallState, RowLockExclusive, RequestIdExclusive, OutcomeIsRecorded,
                 HoldsRowLock, At
  <2> QED
    BY <1>13, <1>t, <2>1, <2>2, QuietTables DEF vars, tables
<1> QED
  BY <1>1, <1>2, <1>3, <1>4, <1>5, <1>6, <1>7, <1>8, <1>9, <1>10, <1>11, <1>12, <1>13
  DEF Next, Statements

-----------------------------------------------------------------------------

(* The inductive invariant holds in every reachable state.                 *)
THEOREM Invariance == Spec => []IInv
<1>1. Init => IInv
  BY InvInit
<1>2. IInv /\ [Next]_vars => IInv'
  BY InvStep
<1> QED
  BY <1>1, <1>2, PTL DEF Spec

(* Every variable always has its type, MAX(version) + 1 included.          *)
THEOREM TypeCorrect == Spec => []TypeOK
<1>1. IInv => TypeOK
  BY DEF IInv
<1> QED
  BY <1>1, Invariance, PTL

(* Versions are gapless and unique however many puts append to a document  *)
(* at once: what LOCK_DOCUMENT_SQL ... FOR UPDATE is there for.            *)
THEOREM VersionHistoryHolds == Spec => []VersionHistory
<1>1. IInv => VersionHistory
  BY DEF IInv
<1> QED
  BY <1>1, Invariance, PTL

(* A version that is about to be inserted has a key of its own.            *)
LEMMA NextKeyIsFree == IInv => AppendsNeverCollide
<1> SUFFICES ASSUME IInv, NEW c \in Caller, At(c, "insert_version")
             PROVE  KeyIsFree(c)
  BY DEF AppendsNeverCollide
<1>1. pc[c] \in InTransaction /\ Wrote(c)
  BY DEF At, InTransaction, Wrote
<1>2. \A row \in document_versions :
        /\ row.document_id \in documents
        /\ row.version \in 1 .. MaxVersion(row.document_id)
  <2>1. ASSUME NEW row \in document_versions
        PROVE  row.document_id \in documents /\ row.version \in VersionsOf(row.document_id)
    BY DEF IInv, VersionHistory, VersionsOf, Promise!VersionsOf
  <2> QED
    BY <2>1 DEF IInv, VersionHistory
<1>3. CASE call[c].document_id = None
  BY <1>1, <1>2, <1>3 DEF IInv, TxnState, KeyIsFree
<1>4. CASE call[c].document_id # None
  <2>1. /\ txn[c].document_id = call[c].document_id
        /\ txn[c].document_id \in documents
        /\ txn[c].version = MaxVersion(txn[c].document_id) + 1
    BY <1>1, <1>4 DEF IInv, TxnState
  <2>2. ASSUME NEW row \in document_versions, row.document_id = txn[c].document_id
        PROVE  row.version # txn[c].version
    <3>1. MaxVersion(txn[c].document_id) \in Nat
      BY <2>1 DEF IInv, VersionHistory
    <3> QED
      BY <1>2, <2>1, <2>2, <3>1
  <2>3. ASSUME NEW other \in Caller \ {c},
               pc[other] \in {"insert_put_operation", "commit", "rollback"}
        PROVE  txn[other] # txn[c]
    <3>1. Wrote(other) /\ pc[other] \in InTransaction
      BY <2>3 DEF Wrote, InTransaction
    <3>2. call[other].document_id # call[c].document_id
      BY <1>1, <1>4, <3>1, RowHeldAlone DEF HoldsRowLock
    <3>3. txn[other].document_id # txn[c].document_id
      BY <2>1, <3>1, <3>2 DEF IInv, TxnState
    <3> QED
      BY <3>3
  <2> QED
    BY <2>2, <2>3 DEF KeyIsFree
<1> QED
  BY <1>3, <1>4

(* The primary key of document_versions never has to refuse an append:     *)
(* the row lock has settled every race before.                             *)
THEOREM AppendsNeverCollideHolds == Spec => []AppendsNeverCollide
BY NextKeyIsFree, Invariance, PTL

(* One version per processed request_id and one request_id per version:    *)
(* what the transaction around the three inserts is there for.             *)
THEOREM OneOperationPerVersionHolds == Spec => []OneOperationPerVersion
<1>1. IInv => OneOperationPerVersion
  BY DEF IInv
<1> QED
  BY <1>1, Invariance, PTL

(* An answer Ok is the recorded result, for winners, losers and retries.   *)
THEOREM OutcomeIsRecordedHolds == Spec => []OutcomeIsRecorded
<1>1. IInv => OutcomeIsRecorded
  BY DEF IInv
<1> QED
  BY <1>1, Invariance, PTL

(* `was_already_processed: false` is answered by the commit and by nothing *)
(* else.                                                                   *)
LEMMA OnlyCommitClaims ==
    ASSUME IInv, [Next]_vars, NEW c \in Caller,
           call[c] # NoCall, call'[c] = NoCall,
           outcome'[c].result = "Ok", ~ outcome'[c].was_already_processed
    PROVE  Commit(c)
<1> USE DEF IInv, TypeOK
<1>1. ASSUME NEW x \in Caller, Commit(x)
      PROVE  x = c
  BY <1>1 DEF Commit, Return
<1>2. ASSUME NEW x \in Caller, NEW o, Return(x, o),
             (x = c /\ o.result = "Ok") => o.was_already_processed
      PROVE  FALSE
  BY <1>2 DEF Return
<1>3. \A e \in {"NotReturned"} \cup Promise!DocumentError : Err(e).result # "Ok"
  BY DEF Err, Promise!Err, Promise!DocumentError
<1>4. \A op \in OperationRow : Ok(op, TRUE).was_already_processed
  BY DEF Ok, Promise!Ok
<1>5. ASSUME NEW x \in Caller, NEW e \in Promise!DocumentError, Return(x, Err(e))
      PROVE  FALSE
  BY <1>2, <1>3, <1>5
<1>6. ASSUME NEW x \in Caller, NEW op \in put_operations, Return(x, Ok(op, TRUE))
      PROVE  FALSE
  BY <1>2, <1>4, <1>6
<1>7. ASSUME call' = call
      PROVE  FALSE
  BY <1>7
<1>8. ASSUME NEW x \in Caller, NEW arguments \in PutArguments, Put(x, arguments)
      PROVE  FALSE
  <2>1. /\ outcome'[x].result # "Ok" /\ call'[x] = arguments
        /\ \A y \in Caller : y # x => call'[y] = call[y]
    BY <1>8, <1>3 DEF Put
  <2> QED
    BY <2>1
<1>9. ASSUME NEW x \in Caller, Validate(x) \/ FindPutOperation(x) \/ LockDocument(x)
                               \/ FindWinner(x) \/ Fail(x)
      PROVE  FALSE
  BY <1>5, <1>6, <1>7, <1>9
  DEF Validate, FindPutOperation, LockDocument, FindWinner, Fail, Promise!DocumentError
<1>10. ASSUME NEW x \in Caller, InsertDocument(x) \/ NextVersion(x) \/ InsertVersion(x)
                                \/ InsertPutOperation(x) \/ Rollback(x)
       PROVE  FALSE
  BY <1>7, <1>10 DEF InsertDocument, NextVersion, InsertVersion, InsertPutOperation, Rollback
<1>11. CASE UNCHANGED vars
  BY <1>7, <1>11 DEF vars
<1> QED
  BY <1>1, <1>8, <1>9, <1>10, <1>11 DEF Next, Statements

(* Only the put that records a request_id answers that it was not already  *)
(* processed: what ON CONFLICT DO NOTHING and the rollback are there for.  *)
THEOREM MutationClaimedOnceHolds == Spec => MutationClaimedOnce
<1> DEFINE Claims(c) == /\ call[c] # NoCall
                        /\ call'[c] = NoCall
                        /\ outcome'[c].result = "Ok"
                        /\ ~ outcome'[c].was_already_processed
           Recorded(c) == /\ \A op \in put_operations : op.request_id # call[c].request_id
                          /\ \E op \in put_operations' : op.request_id = call[c].request_id
<1>1. ASSUME IInv, [Next]_vars, NEW c \in Caller, Claims(c)
      PROVE  Recorded(c)
  <2>1. Commit(c)
    BY <1>1, OnlyCommitClaims
  <2>2. \A op \in put_operations : op.request_id # call[c].request_id
    BY <1>1, <2>1 DEF Commit, IInv, RequestIdExclusive
  <2> QED
    BY <2>1, <2>2 DEF Commit, Operation
<1>2. IInv /\ [Next]_vars => [\A c \in Caller : Claims(c) => Recorded(c)]_vars
  BY <1>1
<1> QED
  BY <1>2, Invariance, PTL DEF Spec, MutationClaimedOnce

-----------------------------------------------------------------------------

(* The promise ends a call: performed, recognised or refused.              *)
Ends(c) ==
    \/ \E d \in DocumentId : \E n \in {1} \cup {m + 1 : m \in Promise!VersionsOf(d)} :
          Promise!Perform(c, d, n)
    \/ Promise!Recognize(c)
    \/ \E error \in Promise!DocumentError : Promise!Refuse(c, error)

(* A commit is the abstract Perform: the version is the one after the last *)
(* version of the document, and the request_id had not been processed.     *)
LEMMA CommitPerforms ==
    ASSUME IInv, NEW c \in Caller, Commit(c)
    PROVE  Ends(c)
<1> USE DEF IInv
<1>1. /\ At(c, "commit") /\ Wrote(c) /\ call[c] \in PutArguments /\ call[c] # NoCall
      /\ call[c].content \in Text /\ call[c].content_type \in ContentType
  BY DEF CallState, Commit, At, Wrote
<1>2. \A op \in put_operations : op.request_id # call[c].request_id
  BY <1>1 DEF RequestIdExclusive
<1> DEFINE d == txn[c].document_id
           n == txn[c].version
<1>3. /\ d \in DocumentId /\ n \in Nat \ {0}
      /\ VersionsOf(d) = 1 .. n - 1
      /\ call[c].document_id = IF n = 1 THEN None ELSE d
  <2>1. CASE call[c].document_id = None
    <3>1. d \in DocumentId \ documents /\ n = 1
      BY <2>1, <1>1 DEF TxnState
    <3>2. VersionsOf(d) = {}
      BY <3>1 DEF VersionHistory, VersionsOf, Promise!VersionsOf
    <3> QED
      BY <2>1, <3>1, <3>2
  <2>2. CASE call[c].document_id # None
    <3>1. d \in documents /\ d = call[c].document_id /\ n = MaxVersion(d) + 1
      BY <2>2, <1>1 DEF TxnState
    <3>2. MaxVersion(d) \in Nat \ {0} /\ VersionsOf(d) = 1 .. MaxVersion(d)
      BY <3>1 DEF VersionHistory
    <3>3. d \in DocumentId
      BY <3>1 DEF TypeOK
    <3> HIDE DEF d, n, IInv
    <3>4. n \in Nat \ {0} /\ n - 1 = MaxVersion(d) /\ n # 1
      BY <3>1, <3>2
    <3> QED
      BY <3>1, <3>2, <3>3, <3>4
  <2> QED
    BY <2>1, <2>2
<1>4. n \in {1} \cup {m + 1 : m \in VersionsOf(d)}
  <2> HIDE DEF d, n
  <2>1. n = 1 \/ n - 1 \in VersionsOf(d)
    BY <1>3
  <2> QED
    BY <2>1, <1>3
<1>5. /\ document_versions' = document_versions \cup
            {[document_id |-> d, version |-> n, content |-> call[c].content]}
      /\ put_operations' = put_operations \cup
            {[request_id |-> call[c].request_id, document_id |-> d, version |-> n]}
      /\ call' = [call EXCEPT ![c] = NoCall]
      /\ \/ outcome' = [outcome EXCEPT
                ![c] = Ok([request_id |-> call[c].request_id, document_id |-> d, version |-> n], FALSE)]
         \/ outcome' = [outcome EXCEPT ![c] = Err("Repository")]
  BY DEF Commit, Return, Row, Operation
<1>6. Promise!Perform(c, d, n)
  <2> HIDE DEF d, n, IInv
  <2>1. Promise!Valid(call[c]) /\ ~ Promise!Processed(call[c].request_id)
    BY <1>1, <1>2 DEF Promise!Valid, Promise!Processed
  <2>2. Promise!NextVersionOf(call[c], d, n)
    BY <1>3 DEF Promise!NextVersionOf, VersionsOf
  <2> QED
    BY <1>1, <1>5, <2>1, <2>2 DEF Promise!Perform, Promise!Answer, Ok, Err, NoCall
<1> QED
  <2> HIDE DEF d, n, IInv
  <2>1. \E m \in {1} \cup {k + 1 : k \in Promise!VersionsOf(d)} : Promise!Perform(c, d, m)
    BY <1>4, <1>6 DEF VersionsOf
  <2> QED
    BY <1>3, <2>1 DEF Ends

(* Every statement of a put ends the call as the promise may, or is no     *)
(* step of it at all.                                                      *)
LEMMA StatementImplements ==
    ASSUME IInv, NEW c \in Caller, Statements(c) \/ Fail(c)
    PROVE  Ends(c) \/ UNCHANGED Promise!vars
<1> USE DEF IInv, tables
<1>args. ASSUME ~ At(c, "idle")
         PROVE  /\ call[c] \in PutArguments /\ call[c] # NoCall
                /\ ~ At(c, "validate") => Promise!Valid(call[c])
  BY <1>args DEF CallState, At, Promise!Valid
<1>ref. ASSUME ~ At(c, "idle"), NEW e \in Promise!DocumentError,
               Promise!Refusable(call[c], e), Return(c, Err(e)), UNCHANGED tables
        PROVE  Ends(c)
  <2>1. Promise!Refuse(c, e)
    BY <1>ref, <1>args DEF Promise!Refuse, Promise!Answer, Return, Err, NoCall
  <2> QED
    BY <2>1 DEF Ends
<1>rec. ASSUME ~ At(c, "idle"), ~ At(c, "validate"), UNCHANGED tables,
               NEW op \in put_operations, op.request_id = call[c].request_id,
               Return(c, Ok(op, TRUE))
        PROVE  Ends(c)
  <2>1. Promise!Recognize(c)
    BY <1>rec, <1>args DEF Promise!Recognize, Promise!Answer, Return, Ok, NoCall
  <2> QED
    BY <2>1 DEF Ends
<1>stut. ASSUME UNCHANGED <<tables, call, outcome>>
         PROVE  UNCHANGED Promise!vars
  BY <1>stut DEF Promise!vars
<1>1. CASE Validate(c)
  BY <1>1, <1>ref, <1>stut DEF Validate, At, Promise!Refusable, Promise!DocumentError
<1>2. CASE FindPutOperation(c)
  BY <1>2, <1>rec, <1>stut DEF FindPutOperation, At
<1>3. CASE LockDocument(c)
  <2>1. CASE Return(c, Err("UnknownDocument")) /\ call[c].document_id \notin documents
    <3>1. Promise!Valid(call[c]) /\ call[c].document_id # None /\ ~ At(c, "idle")
      BY <1>3, <1>args DEF LockDocument, CallState, At
    <3>2. Promise!VersionsOf(call[c].document_id) = {}
      BY <2>1 DEF VersionHistory, Promise!VersionsOf
    <3> QED
      BY <1>3, <2>1, <3>1, <3>2, <1>ref DEF LockDocument, Promise!Refusable, Promise!DocumentError
  <2> QED
    BY <1>3, <2>1, <1>stut DEF LockDocument
<1>4. CASE FindWinner(c)
  BY <1>4, <1>rec DEF FindWinner, At
<1>5. CASE Fail(c)
  <2>1. ~ At(c, "idle") /\ Promise!Valid(call[c])
    BY <1>5, <1>args DEF Fail, At
  <2>2. Promise!Refusable(call[c], "Repository") /\ "Repository" \in Promise!DocumentError
    BY <2>1 DEF Promise!Refusable, Promise!DocumentError
  <2> QED
    BY <1>5, <2>1, <2>2, <1>ref DEF Fail
<1>6. CASE \/ InsertDocument(c) \/ NextVersion(c) \/ InsertVersion(c)
           \/ InsertPutOperation(c) \/ Rollback(c)
  BY <1>6, <1>stut DEF InsertDocument, NextVersion, InsertVersion, InsertPutOperation, Rollback
<1> QED
  BY <1>1, <1>2, <1>3, <1>4, <1>5, <1>6, CommitPerforms DEF Statements

(* Every step is a step of the promise, or none at all.                    *)
LEMMA StepImplements ==
    ASSUME IInv, [Next]_vars
    PROVE  [Promise!Next]_(Promise!vars)
<1>1. ASSUME NEW c \in Caller, NEW arguments \in PutArguments, Put(c, arguments)
      PROVE  Promise!Next
  <2>1. Promise!Invoke(c, arguments)
    BY <1>1 DEF Put, Promise!Invoke, IInv, CallState, NoCall, Err, tables
  <2> QED
    BY <2>1 DEF Promise!Next, PutArguments
<1>2. ASSUME NEW c \in Caller, Statements(c) \/ Fail(c)
      PROVE  Promise!Next \/ UNCHANGED Promise!vars
  BY <1>2, StatementImplements DEF Ends, Promise!Next
<1>3. CASE UNCHANGED vars
  BY <1>3 DEF vars, tables, Promise!vars
<1> QED
  BY <1>1, <1>2, <1>3 DEF Next

(* The statements of concurrent transactions implement the trait's atomic  *)
(* put, whatever the number of callers: the refinement the runs check.     *)
THEOREM ImplementsPromiseHolds == Spec => ImplementsPromise
<1>1. Init => Promise!Init
  BY DEF Init, Promise!Init, NoCall, Err
<1>2. IInv /\ [Next]_vars => [Promise!Next]_(Promise!vars)
  BY StepImplements
<1> QED
  BY <1>1, <1>2, Invariance, PTL DEF Spec, ImplementsPromise, Promise!Spec

=============================================================================
