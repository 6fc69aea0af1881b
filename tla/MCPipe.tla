------------------------------- MODULE MCPipe -------------------------------
(* Instances of Pipe for TLC. *)
EXTENDS PipeInv, TLC

Ends == Permutations(Reader) \cup Permutations(Writer)
=============================================================================
