---------------------------- MODULE MCRepository ----------------------------
(* Values for the constants of Repository.                                 *)
EXTENDS Repository

\* One client at the top of the working tree, one in sub.
Dirs == ("c1" :> <<>>) @@ ("c2" :> <<"sub">>)
Calls == ("c1" :> {"Init", "CheckoutBranch", "AmendAll"}) @@ ("c2" :> {"Init", "CommitFiles", "Amend", "AmendFiles"})
Symmetry == Permutations(Contents)
SomePaths == {<<"a">>, <<"sub", "a">>}

Spec1(magic, pat) == [magic |-> magic, abs |-> FALSE, pat |-> pat]
SomePathspecs == {Spec1({}, <<"a">>), Spec1({"top", "literal"}, <<"a">>),
                  Spec1({"glob"}, <<"..", "*">>)}
=============================================================================
