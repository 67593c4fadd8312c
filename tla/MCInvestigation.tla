-------------------------- MODULE MCInvestigation --------------------------
(* Small instances of Investigation: the runbook and what the passes find.   *)
EXTENDS Investigation

Runbook == <<"diagnostics", "email">>
Report == <<"email">>

Finds(cause, evidence, sure, human) ==
  [cause |-> cause, evidence |-> evidence, sure |-> sure, human |-> human]

(* RAG: nothing, or a weak cause that asks for review. *)
RagFinds == {Finds(FALSE, 0, FALSE, FALSE), Finds(TRUE, 1, FALSE, TRUE)}
(* KPI: too little history, or a measured characterisation. *)
KpiFinds == {Finds(FALSE, 1, FALSE, FALSE), Finds(TRUE, 1, TRUE, FALSE)}
Nothing == {Finds(FALSE, 0, FALSE, FALSE)}

=============================================================================
