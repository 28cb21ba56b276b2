----------------------------- MODULE MCPresolve -----------------------------
(* Small instances of Presolve: two rows and two columns of every sign and *)
(* kind, a column and a row whose bounds cross from the start among them.  *)
EXTENDS Presolve

MCSample == -3 .. 3

\* The row kinds of a model: at most, at least, equal, ranged, free.
Slacks == {[lo |-> 0, hi |-> Infinity], [lo |-> Infinity, hi |-> 0], [lo |-> 0, hi |-> 0],
           [lo |-> 0, hi |-> 1], [lo |-> Infinity, hi |-> Infinity]}

\* Boxed, half open, and open columns.
Domains == {<<[lo |-> 0, hi |-> 1], [lo |-> -1, hi |-> 1]>>,
            <<[lo |-> 0, hi |-> Infinity], [lo |-> Infinity, hi |-> 1]>>,
            <<[lo |-> Infinity, hi |-> Infinity], [lo |-> 1, hi |-> 1]>>}

Model(a, b, r, s, t, d, c) ==
    [A |-> <<a, b>>, rhs |-> <<r, 1>>, slack |-> <<s, t>>, bound |-> d, obj |-> <<c, -1>>]

Crossed == [lo |-> 2, hi |-> 0]
Forgiven == [lo |-> 1, hi |-> 0]
Box == [lo |-> 0, hi |-> 1]

MCProblems ==
    {Model(a, b, r, s, t, d, c) :
        a \in {<<1, 1>>, <<1, -1>>}, b \in {<<1, -1>>, <<-1, 0>>}, r \in {0, 2},
        s \in Slacks, t \in Slacks, d \in Domains, c \in {0, 1}}
    \cup {Model(<<1, 1>>, <<1, 0>>, 1, Box, s, <<d, Box>>, 1) : s \in {Box, Crossed}, d \in {Box, Crossed}}
    \cup {Model(<<1, 1>>, <<1, 0>>, 1, Box, s, <<Forgiven, Box>>, c) : s \in Slacks, c \in {-1, 1}}
    \cup {Model(<<0, 0>>, <<1, 0>>, r, s, Box, <<Box, Box>>, 1) : r \in {0, 1}, s \in Slacks}
=============================================================================
