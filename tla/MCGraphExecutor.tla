--------------------------- MODULE MCGraphExecutor ---------------------------
(* GraphExecutor with a database of one writer and a web component.         *)
EXTENDS GraphExecutor

DatabaseThenWeb == <<"database", "web">>
=============================================================================
