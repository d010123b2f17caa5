----------------------------- MODULE MCQueryPath -----------------------------
(***************************************************************************)
(* Instance of QueryPath: the names "x.z" and "yz", and lists that deny    *)
(* the first and the second of them.  Handlers are interchangeable.        *)
(***************************************************************************)
EXTENDS QueryPath, TLC

CONSTANTS k1, k2

MCKey == {k1, k2}
MCName == k1 :> <<"x", ".", "z">> @@ k2 :> <<"y", "z">>

MCRules == {[allow |-> {<<"*">>}, deny |-> {<<"*", ".", "z", ".">>}],
            [allow |-> {<<".">>, <<"*", ".", "x", ".", "z">>}, deny |-> {}]}

Symmetry == Permutations(Handler)
=============================================================================
