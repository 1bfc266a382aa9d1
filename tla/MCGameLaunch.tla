---------------------------- MODULE MCGameLaunch ----------------------------
(* Small instances of GameLaunch for TLC: game downloads, other tasks of    *)
(* which two share a record, account refreshes.                             *)
EXTENDS GameLaunch, TLC

CONSTANTS w1, w2, game1, game2, spinner1, spinner2, game, login

\* w1 and w2 run the same kind of task, under one key.
MCKeyOf == [w \in Workers |-> w1]

Symmetry == Permutations(Holders) \cup Permutations(Spinners)
=============================================================================
