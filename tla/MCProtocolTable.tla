-------------------------- MODULE MCProtocolTable --------------------------
(* Two plugins with two hook slots each on a table of two commands and two departments. *)
EXTENDS ProtocolTable, TLC

\* the plugins of a run, and the hook slots of a plugin, are interchangeable
Symmetry == Permutations(Plugins) \union Permutations(Ks)
=============================================================================
