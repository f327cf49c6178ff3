---------------------------- MODULE MCPaperEngine ----------------------------
(* Small instances of PaperEngine. *)
EXTENDS PaperEngine

TwoEngines == {1, 2}
WinOrLose  == {-2, 1}
=============================================================================
