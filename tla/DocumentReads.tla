--------------------------- MODULE DocumentReads ---------------------------
(***************************************************************************)
(* get and search (src/postgres_document_repository.rs), next to the puts  *)
(* of PostgresDocumentRepository.  A read is one statement: it changes no  *)
(* state and sees the committed rows of one moment, so it is an operator   *)
(* on the tables.  The empty set is NotFound, or no hit.                   *)
(***************************************************************************)
EXTENDS PostgresDocumentRepository

(* Option::None is not a version number.                                   *)
ASSUME VersionAssumption == None \notin Nat

(* FIND_VERSION_SQL.                                                       *)
FindVersion(d, version) ==
    {row \in document_versions : row.document_id = d /\ row.version = version}

Newest(rows) ==
    {row \in rows : \A other \in rows :
        other.document_id = row.document_id => other.version <= row.version}

(* FIND_LATEST_VERSION_SQL: ORDER BY version DESC LIMIT 1.                 *)
FindLatestVersion(d) == Newest({row \in document_versions : row.document_id = d})

Get(d, version) ==
    IF version = None THEN FindLatestVersion(d) ELSE FindVersion(d, version)

(* SEARCH_SQL without its LIMIT, for a query that the contents in          *)
(* `matching` match: DISTINCT ON takes the newest row of a document among  *)
(* those that match, which need not be the document's latest version.      *)
Search(matching) == Newest({row \in document_versions : row.content \in matching})

-----------------------------------------------------------------------------

Supersedes(new, old) ==
    /\ new.document_id = old.document_id
    /\ new.version >= old.version
    /\ new.version = old.version => new = old

(* Reads never go back, whatever runs between two of them: a version that  *)
(* was found keeps its content (domain.rs calls it immutable), the latest  *)
(* version and the hit of a query in a document are only ever replaced by  *)
(* a higher version, and nothing that was found is NotFound later.         *)
ReadsNeverGoBack ==
    [][/\ \A row \in document_versions :
            Get(row.document_id, row.version)' = {row}
       /\ \A row \in document_versions : \A old \in Get(row.document_id, None) :
            \E new \in Get(row.document_id, None)' : Supersedes(new, old)
       /\ \A matching \in SUBSET Text : \A old \in Search(matching) :
            \E new \in Search(matching)' : Supersedes(new, old)]_vars

(* The document_id and version that put answers with can be read from the  *)
(* moment of the answer, and unless the request had been processed before  *)
(* what is read is what was put: also for the caller that lost a race.     *)
PutIsReadable ==
    [][\A c \in Caller :
        (call[c] # NoCall /\ call'[c] = NoCall /\ outcome'[c].result = "Ok") =>
            \E row \in document_versions' :
                /\ Get(outcome[c].document_id, outcome[c].version)' = {row}
                /\ \/ outcome'[c].was_already_processed
                   \/ row.content = call[c].content]_vars

=============================================================================
