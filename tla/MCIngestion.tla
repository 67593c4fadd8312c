---------------------------- MODULE MCIngestion ----------------------------
(***************************************************************************)
(* Small instances of Ingestion: a document d and a dataset t.             *)
(***************************************************************************)
EXTENDS Ingestion, TLC

CONSTANTS d, t, w1, w2, r1, r2, r3

Uploads == {"upload"}

(* Requests are alike, and so are workers; for the safety runs only. *)
Alike == Permutations(Requests) \cup Permutations(Workers)

=============================================================================
