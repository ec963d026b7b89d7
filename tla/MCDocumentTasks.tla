-------------------------- MODULE MCDocumentTasks --------------------------
(* Task executors of a small RAGFlow deployment.                           *)
EXTENDS DocumentTasks

CONSTANTS e1, e2

(* Every page range yields one batch of chunks.                            *)
OneBatch == [p \in Pages |-> 1]
=============================================================================
