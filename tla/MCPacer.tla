------------------------------ MODULE MCPacer ------------------------------
(* Constants of the pacer for TLC. *)
EXTENDS Pacer

MCSizeOf == [s \in Seqs |-> IF s = 2 THEN 1 ELSE 3]
=============================================================================
