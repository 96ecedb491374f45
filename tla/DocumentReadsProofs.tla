------------------------ MODULE DocumentReadsProofs ------------------------
(* Proofs about the reads next to any number of concurrent puts.           *)
EXTENDS DocumentReads, PostgresDocumentRepositoryProofs

(* The statement that adds a row to document_versions is the commit, and   *)
(* the row is newer than every other row of its document.                  *)
LEMMA CommitAppends ==
    ASSUME IInv, NEW c \in Caller, Commit(c)
    PROVE  /\ document_versions' = document_versions \cup {Row(c)}
           /\ Row(c).version \in Nat
           /\ \A row \in document_versions :
                row.document_id = Row(c).document_id => row.version < Row(c).version
<1> USE DEF IInv
<1>1. At(c, "commit") /\ Wrote(c)
  BY DEF Commit, At, Wrote
<1>2. Row(c).document_id = txn[c].document_id /\ Row(c).version = txn[c].version
  BY DEF Row
<1>3. \A row \in document_versions :
        /\ row.document_id \in documents
        /\ row.version \in VersionsOf(row.document_id)
  BY DEF VersionHistory, VersionsOf, Promise!VersionsOf
<1>4. CASE call[c].document_id = None
  <2>1. txn[c].document_id \notin documents /\ txn[c].version = 1
    BY <1>1, <1>4 DEF TxnState
  <2> QED
    BY <1>2, <1>3, <2>1 DEF Commit
<1>5. CASE call[c].document_id # None
  <2> DEFINE d == txn[c].document_id
  <2>1. d \in documents /\ txn[c].version = MaxVersion(d) + 1
    BY <1>1, <1>5 DEF TxnState
  <2>2. MaxVersion(d) \in Nat /\ VersionsOf(d) = 1 .. MaxVersion(d)
    BY <2>1 DEF VersionHistory
  <2>3. ASSUME NEW row \in document_versions, row.document_id = d
        PROVE  row.version \in 1 .. MaxVersion(d)
    BY <2>3, <2>2, <1>3
  <2> HIDE DEF d
  <2>4. txn[c].version \in Nat
    BY <2>1, <2>2
  <2>5. ASSUME NEW row \in document_versions, row.document_id = d
        PROVE  row.version < txn[c].version
    BY <2>5, <2>1, <2>2, <2>3
  <2> QED
    BY <1>2, <2>4, <2>5 DEF Commit, d
<1> QED
  BY <1>4, <1>5

LEMMA OnlyCommitAppends ==
    ASSUME IInv, [Next]_vars
    PROVE  \/ document_versions' = document_versions
           \/ \E c \in Caller : Commit(c)
BY DEF Next, Statements, vars, tables, Put, Validate, FindPutOperation, InsertDocument,
       LockDocument, NextVersion, InsertVersion, InsertPutOperation, Rollback, FindWinner, Fail

(* A version that exists is found, and nothing else under its number.      *)
LEMMA VersionFound ==
    ASSUME IInv, NEW row \in document_versions
    PROVE  /\ row.version \in Nat
           /\ Get(row.document_id, row.version) = {row}
<1>1. row.version \in Nat
  BY DEF IInv, TypeOK, VersionRow, Promise!VersionRow
<1>2. row.version # None
  BY <1>1, VersionAssumption
<1>3. FindVersion(row.document_id, row.version) = {row}
  BY DEF FindVersion, IInv, VersionHistory
<1> QED
  BY <1>1, <1>2, <1>3 DEF Get

(* The newest of some rows, when nothing or a newer row is added to them.  *)
LEMMA NewestMovesForward ==
    ASSUME NEW S, NEW T, NEW r, T = S \/ T = S \cup {r},
           \A row \in T : row.version \in Nat,
           T # S => \A row \in S :
               row.document_id = r.document_id => row.version < r.version,
           NEW old \in Newest(S)
    PROVE  \E new \in Newest(T) : Supersedes(new, old)
<1>1. old \in S /\ \A other \in S :
        other.document_id = old.document_id => other.version <= old.version
  BY DEF Newest
<1>2. old.version \in Nat
  BY <1>1
<1>3. Supersedes(old, old)
  BY <1>2 DEF Supersedes
<1>4. CASE T = S
  BY <1>3, <1>4
<1>5. CASE T # S /\ r.document_id = old.document_id
  <2>1. r \in T /\ old.version < r.version /\ r.version \in Nat
    BY <1>1, <1>5
  <2>2. \A other \in T : other.document_id = r.document_id => other.version <= r.version
    BY <1>5, <2>1
  <2>3. r \in Newest(T)
    BY <2>1, <2>2 DEF Newest
  <2>4. Supersedes(r, old)
    BY <1>2, <1>5, <2>1 DEF Supersedes
  <2> QED
    BY <2>3, <2>4
<1>6. CASE T # S /\ r.document_id # old.document_id
  <2>1. old \in Newest(T)
    BY <1>1, <1>6 DEF Newest
  <2> QED
    BY <1>3, <2>1
<1> QED
  BY <1>4, <1>5, <1>6

(* What a reader has seen stays or is superseded, for any query and any    *)
(* number of writers: rows are only added, each newer than its document's. *)
THEOREM ReadsNeverGoBackHolds == Spec => ReadsNeverGoBack
<1> DEFINE Latest == \A row \in document_versions : \A old \in Get(row.document_id, None) :
                        \E new \in Get(row.document_id, None)' : Supersedes(new, old)
           Found == \A row \in document_versions :
                        Get(row.document_id, row.version)' = {row}
           Hits == \A matching \in SUBSET Text : \A old \in Search(matching) :
                        \E new \in Search(matching)' : Supersedes(new, old)
<1>1. ASSUME IInv, [Next]_vars
      PROVE  Found /\ Latest /\ Hits
  <2>1. IInv'
    BY <1>1, InvStep
  <2>2. PICK r : /\ document_versions' = document_versions
                    \/ document_versions' = document_versions \cup {r}
                 /\ document_versions' # document_versions =>
                        \A row \in document_versions :
                            row.document_id = r.document_id => row.version < r.version
    <3>1. CASE document_versions' = document_versions
      BY <3>1
    <3>2. CASE \E c \in Caller : Commit(c)
      BY <1>1, <3>2, CommitAppends
    <3> QED
      BY <1>1, <3>1, <3>2, OnlyCommitAppends
  <2>3. \A row \in document_versions' : row.version \in Nat
    BY <2>1 DEF IInv, TypeOK, VersionRow, Promise!VersionRow
  <2>4. Found
    <3>1. ASSUME NEW row \in document_versions'
          PROVE  Get(row.document_id, row.version)' = {row}
      <4>1. row.version # None
        BY <2>3, VersionAssumption
      <4> QED
        BY <2>1, <4>1 DEF Get, FindVersion, IInv, VersionHistory
    <3> QED
      BY <2>2, <3>1
  <2>5. ASSUME NEW d
        PROVE  \A old \in Get(d, None) : \E new \in Get(d, None)' : Supersedes(new, old)
    <3> DEFINE S == {row \in document_versions : row.document_id = d}
               T == {row \in document_versions' : row.document_id = d}
    <3>1. T = S \/ T = S \cup {r}
      BY <2>2
    <3>2. /\ \A row \in T : row.version \in Nat
          /\ T # S => \A row \in S :
                row.document_id = r.document_id => row.version < r.version
      BY <2>2, <2>3
    <3>3. Get(d, None) = Newest(S) /\ Get(d, None)' = Newest(T)
      BY DEF Get, FindLatestVersion, Newest
    <3> HIDE DEF S, T
    <3> QED
      BY <3>1, <3>2, <3>3, NewestMovesForward
  <2>6. ASSUME NEW matching
        PROVE  \A old \in Search(matching) :
                 \E new \in Search(matching)' : Supersedes(new, old)
    <3> DEFINE S == {row \in document_versions : row.content \in matching}
               T == {row \in document_versions' : row.content \in matching}
    <3>1. T = S \/ T = S \cup {r}
      BY <2>2
    <3>2. /\ \A row \in T : row.version \in Nat
          /\ T # S => \A row \in S :
                row.document_id = r.document_id => row.version < r.version
      BY <2>2, <2>3
    <3>3. Search(matching) = Newest(S) /\ Search(matching)' = Newest(T)
      BY DEF Search, Newest
    <3> HIDE DEF S, T
    <3> QED
      BY <3>1, <3>2, <3>3, NewestMovesForward
  <2> QED
    BY <2>4, <2>5, <2>6
<1>2. IInv /\ [Next]_vars => [Found /\ Latest /\ Hits]_vars
  BY <1>1
<1> QED
  BY <1>2, Invariance, PTL DEF Spec, ReadsNeverGoBack

(* An answer of put names a version that is there to be read, and a put    *)
(* that was not a repetition reads back what it wrote.                     *)
THEOREM PutIsReadableHolds == Spec => PutIsReadable
<1> DEFINE Answers(c) == call[c] # NoCall /\ call'[c] = NoCall /\ outcome'[c].result = "Ok"
           Readable(c) == \E row \in document_versions' :
                /\ Get(outcome[c].document_id, outcome[c].version)' = {row}
                /\ \/ outcome'[c].was_already_processed
                   \/ row.content = call[c].content
<1>1. ASSUME IInv, [Next]_vars, NEW c \in Caller, Answers(c)
      PROVE  Readable(c)
  <2>1. IInv'
    BY <1>1, InvStep
  <2>2. PICK row \in document_versions' :
          /\ row.document_id = outcome'[c].document_id
          /\ row.version = outcome'[c].version
    BY <1>1, <2>1 DEF IInv, OutcomeIsRecorded, OneOperationPerVersion
  <2>3. row.version # None
    BY <2>1, VersionAssumption DEF IInv, TypeOK, VersionRow, Promise!VersionRow
  <2>4. Get(outcome[c].document_id, outcome[c].version)' = {row}
    BY <2>1, <2>2, <2>3 DEF Get, FindVersion, IInv, VersionHistory
  <2>5. CASE outcome'[c].was_already_processed
    BY <2>4, <2>5
  <2>6. CASE ~ outcome'[c].was_already_processed
    <3>1. Commit(c)
      BY <1>1, <2>6, OnlyCommitClaims
    <3>2. /\ Row(c) \in document_versions'
          /\ Row(c).content = call[c].content
      BY <3>1 DEF Commit, Row
    <3>3. outcome'[c] = Ok(Operation(c), FALSE)
      <4>1. outcome \in [Caller -> Promise!Outcome]
        BY <1>1 DEF IInv, TypeOK
      <4>2. outcome'[c] \in {Ok(Operation(c), FALSE), Err("Repository")}
        BY <3>1, <4>1 DEF Commit, Return
      <4>3. Err("Repository").result # "Ok"
        BY DEF Err, Promise!Err
      <4> QED
        BY <1>1, <4>2, <4>3
    <3>4. /\ Row(c).document_id = outcome'[c].document_id
          /\ Row(c).version = outcome'[c].version
      BY <3>3 DEF Row, Operation, Ok, Promise!Ok
    <3>5. Row(c) = row
      BY <2>1, <2>2, <3>2, <3>4 DEF IInv, VersionHistory
    <3> QED
      BY <2>4, <3>2, <3>5
  <2> QED
    BY <2>5, <2>6
<1>2. IInv /\ [Next]_vars => [\A c \in Caller : Answers(c) => Readable(c)]_vars
  BY <1>1
<1> QED
  BY <1>2, Invariance, PTL DEF Spec, PutIsReadable

=============================================================================
