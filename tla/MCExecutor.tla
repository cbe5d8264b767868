----------------------------- MODULE MCExecutor -----------------------------
(***************************************************************************)
(* Executor on short batches, and the splitting of texts into batches.     *)
(***************************************************************************)
EXTENDS Executor, MCStatements

\* A batch is what its text says: a semicolon, a quote or a keyword inside a
\* literal, an identifier, a comment or a block never splits a statement of it,
\* whatever surrounds them, and a comment never becomes part of one.  The last
\* follows the code and the docstring of _split_sql_statements ("stripping
\* comments"); two of its tests still want a comment kept in the statement after
\* it, and fail.  The texts are those of as many lexemes as the batch has
\* statements.
SplitAgrees == SplitRight[Len(batch)]
=============================================================================
