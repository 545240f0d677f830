------------------------ MODULE MCDiagnosticsWriter ------------------------
(***************************************************************************)
(* An instance of DiagnosticsWriter: one output.                            *)
(***************************************************************************)
EXTENDS DiagnosticsWriter

CONSTANT a

OneStem == [w \in {a} |-> <<"diag">>]
OneOrder == [w \in {a} |-> 1]

Sizes == <<1, 2, 1, 2, 1>>

=============================================================================
