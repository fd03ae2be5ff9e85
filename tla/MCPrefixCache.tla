--------------------------- MODULE MCPrefixCache ---------------------------
(***************************************************************************)
(* PrefixCache with two tokens and models of one or two layers.            *)
(***************************************************************************)
EXTENDS PrefixCache

\* Keys and values only, with a sliding window, with a recurrent state.
MCModels == {<<"kv">>, <<"kv", "rotating">>, <<"recurrent", "kv">>}

\* A cell of the second layer takes room too.
MCMaxPagedOut == [m \in MCModels |-> IF Len(m) = 1 THEN 3 ELSE 4]

\* Tokens are alike, and no property is a liveness property.
TokenSymmetry == Permutations(Tokens)
=============================================================================
