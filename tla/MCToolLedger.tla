---------------------------- MODULE MCToolLedger ----------------------------
(* Instances of the side-effect ledger for TLC. *)
EXTENDS ToolLedgerProps, TLC

\* Nodes that all run a sweeper are interchangeable.
Symmetry == Permutations(Node)
=============================================================================
