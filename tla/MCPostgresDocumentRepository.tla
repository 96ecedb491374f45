--------------------- MODULE MCPostgresDocumentRepository ---------------------
(* Callers, request ids, documents and texts are interchangeable.            *)
EXTENDS DocumentReads, TLC

Symmetry == Permutations(Caller) \cup Permutations(RequestId)
            \cup Permutations(DocumentId) \cup Permutations(Text)

===============================================================================
