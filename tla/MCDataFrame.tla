---------------------------- MODULE MCDataFrame ----------------------------
(***************************************************************************)
(* Small frames for TLC: two rows under two columns, with and without a    *)
(* repeated key; one row; one column.                                      *)
(***************************************************************************)
EXTENDS DataFrame, TLC

(* No step depends on the last answer or tells threads apart. *)
AllButAnswer == <<frameVars, cacheVars, applyVars, undefined, changes>>
Symmetric == Permutations(Threads)

SmallSources ==
    { [names |-> <<"x", "y">>, rows |-> <<<<"a", "">>, <<"", "">>>>],
      [names |-> <<"x", "y">>, rows |-> <<<<"a", "">>>>],
      [names |-> <<"x">>, rows |-> <<<<"a">>>>] }
=============================================================================
