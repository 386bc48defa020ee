---------------------------- MODULE MCHookPoints ----------------------------
(* The tables: two plugins with two hook slots each, two commands and two departments. *)
(* The input: two keyboards with a controller and the login's Tab, or two mice with a  *)
(* controller.                                                                         *)
EXTENDS HookPoints, TLC

KeyboardsOrMice == {Kbs, Mice}

\* the devices of a kind, the plugins and the hook slots of a plugin are interchangeable; the keyboards and the plugins
\* of the two parts have the same names, and so have the mice and the slots, which keeps the permutations few
Symmetry == Permutations(Plugins) \union Permutations(Ks)
=============================================================================
