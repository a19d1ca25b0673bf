-------------------------- MODULE MCShortestPaths --------------------------
(* An instance of ShortestPaths for TLC: the maps over four airports with  *)
(* some of seven airways, which form circles, detours and dead ends, at    *)
(* one of two prices each.                                                 *)
EXTENDS ShortestPaths

Pairs == {<<0, 1>>, <<1, 2>>, <<2, 0>>, <<2, 3>>, <<3, 1>>, <<0, 2>>, <<1, 3>>}
MCMaps == {{[from |-> c[1], to |-> c[2], cost |-> f[c]] : c \in DOMAIN f} :
             f \in UNION {[P -> {1, 3}] : P \in SUBSET Pairs}}
=============================================================================
