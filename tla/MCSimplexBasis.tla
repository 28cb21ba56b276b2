--------------------------- MODULE MCSimplexBasis ---------------------------
(* Small instances of SimplexBasis: two rows and one or two structurals. *)
EXTENDS SimplexBasis

\* An inequality and an equation over a boxed or a free column.
MCShapes == {<<"boxed", "lower", "fixed">>, <<"free", "lower", "fixed">>}

AsFunction(seq) == [v \in Named |-> seq[v + 1]]

MCBoundShapes == {AsFunction(seq) : seq \in MCShapes}

\* Two structurals, so that a singular basis can leave both rows unmatched.
MCTwoShapes == {AsFunction(<<"boxed", "free", "lower", "fixed">>),
                AsFunction(<<"lower", "boxed", "fixed", "lower">>)}

=============================================================================
