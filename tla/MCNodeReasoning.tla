--------------------------- MODULE MCNodeReasoning ---------------------------
(* Small models of three columns, each with a row one separator or propagator *)
(* is about; halves and quarters as in IntegerRows.                           *)
EXTENDS NodeReasoning

Row(a, type, b, sLo, sHi) == [a |-> a, type |-> type, rhs |-> b, sLo |-> sLo, sHi |-> sHi]
Le(a, b) == Row(a, "L", b, 0, Inf)
Ge(a, b) == Row(a, "G", b, -Inf, 0)
Eq(a, b) == Row(a, "E", b, 0, 0)
Ranged(a, b, width) == Row(a, "L", b, 0, width)

Model3(rows, integer, lo, hi) ==
    [rows |-> rows, integer |-> integer, lower |-> lo, upper |-> hi,
     objectives |-> {<<-2, -2, -1>>, <<-1, 0, 2>>}]

MCProblems == {
    \* x + 2y = 3: propagates.
    Model3(<<Eq(<<2, 4, 0>>, 12), Le(<<2, 2, 2>>, 14)>>, {1, 2}, <<0, 0, 0>>, <<4, 2, 1>>),
    \* x + y = 6 past the exact limit.
    Model3(<<Eq(<<2, 2, 0>>, 24)>>, {1, 2, 3}, <<0, 0, 0>>, <<10, 8, 1>>),
    \* 2x + 2y = 3 has no integer point; with a continuous y it has.
    Model3(<<Eq(<<4, 4, 0>>, 12)>>, {1, 2}, <<0, 0, 0>>, <<4, 4, 0>>),
    Model3(<<Eq(<<4, 4, 0>>, 12)>>, {1, 3}, <<0, 0, 0>>, <<4, 4, 0>>),
    \* 2x - 2y <= 1 with a free column; 2x - 2y >= 1; a ranged row.
    Model3(<<Le(<<4, -4, 0>>, 4), Le(<<2, 4, 2>>, 4)>>, {1, 2, 3}, <<0, 0, -Inf>>, <<4, 4, 2>>),
    Model3(<<Ge(<<4, -4, 0>>, 4), Ranged(<<4, 4, 4>>, 20, 14)>>, {1, 2, 3}, <<0, 0, 0>>, <<4, 4, 3>>),
    \* a knapsack of binaries, one with a general column that may be negative
    Model3(<<Le(<<6, 2, 2>>, 14), Le(<<2, 2, -2>>, 4)>>, {1, 2, 3}, <<0, 0, 0>>, <<2, 2, 2>>),
    Model3(<<Le(<<6, 4, 2>>, 16), Row(<<2, 2, 2>>, "G", 4, -Inf, 2)>>, {1, 2, 3}, <<0, 0, -4>>, <<2, 2, 2>>),
    \* a slack that starts at one half: 2x + 2y <= 4.5
    Model3(<<Row(<<4, 4, 0>>, "L", 20, 2, Inf)>>, {1, 2}, <<0, 0, 0>>, <<4, 4, 0>>),
    \* fractional coefficients: 1.5x + 2.5y <= 4, and with a negative bound
    Model3(<<Le(<<3, 5, 0>>, 16)>>, {1, 2}, <<0, 0, 0>>, <<6, 6, 0>>),
    Model3(<<Le(<<3, 2, 0>>, 2)>>, {1, 2}, <<-2, 0, 0>>, <<2, 4, 0>>)}

=============================================================================
