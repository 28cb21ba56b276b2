--------------------------- MODULE MCNativeSolve ---------------------------
EXTENDS NativeSolve
MCSpan == -9 .. 9
MCSample == -3 .. 3
Free == [lo |-> -Infinite, hi |-> Infinite]
AtLeast(v) == [lo |-> v, hi |-> Infinite]
AtMost(v) == [lo |-> -Infinite, hi |-> v]
Between(v, w) == [lo |-> v, hi |-> w]
Domains == {<<Between(1, 1), Between(-1, 1)>>, <<Between(0, 1), Between(-1, 1)>>, <<AtLeast(0), AtMost(1)>>, <<Free, Between(0, 2)>>}
Ranges == {AtLeast(1), AtMost(-1), AtMost(1), Between(1, 1), Between(-1, 1)}
Model(a, b, r, t, d, c, p) ==
    [A |-> <<a, b>>, row |-> <<r, t>>, col |-> d, c |-> c, presolve |-> p, limit |-> 12,
     disturbed |-> FALSE]
MCProblems ==
    {Model(a, b, r, t, d, c, TRUE) :
        a \in {<<1, 1>>, <<1, -1>>}, b \in {<<0, 1>>, <<-1, 0>>}, r \in Ranges, t \in Ranges,
        d \in Domains, c \in {<<1, 0>>, <<-1, 1>>}}
    \cup {Model(<<1, -1>>, <<-1, 1>>, r, t, d, <<-1, 1>>, FALSE) : r \in Ranges, t \in Ranges, d \in Domains}
    \cup {[Model(<<1, 1>>, <<-1, 0>>, r, t, d, <<-1, 1>>, FALSE) EXCEPT !.limit = l, !.disturbed = TRUE] :
             r \in {AtLeast(1), AtMost(1)}, t \in Ranges, d \in Domains, l \in {1, 12}}
Plain == CHOOSE q \in MCProblems : ~ q.disturbed /\ q.col[1].lo = 0 /\ q.row = <<AtLeast(1), Between(-1, 1)>>
Measured(p, d, c) == [primal |-> p, dual |-> d, comp |-> c]
MCCold == Measured(9, 0, 0)
MCMeasures == {Measured(0, 0, 0), Measured(2, 2, 2), Measured(3, 0, 0), Measured(0, 0, 5), MCCold}
Request(k, e) == [kind |-> k, engine |-> e, timed |-> TRUE, tested |-> TRUE, convex |-> TRUE,
                  form |-> "GENERAL", small |-> FALSE, medium |-> TRUE, polished |-> TRUE,
                  equalities |-> {1}, primal_tol |-> 1, dual_tol |-> 1]
Quadratic == Request("QP", "AUTO")
MildQuadratic == [Quadratic EXCEPT !.primal_tol = 2, !.dual_tol = 2]
MCCalls ==
    {[problem |-> q, request |-> Request("LP", "AUTO")] : q \in MCProblems}
    \cup {[problem |-> Plain, request |-> r] :
        r \in {Request("LP", "SIMPLEX"), Request("LP", "FIRST_ORDER"), Request("LP", "UNKNOWN"),
               Request("MIP", "AUTO"), Request("QP", "SIMPLEX"), Quadratic, MildQuadratic,
               [Quadratic EXCEPT !.convex = FALSE],
               [Quadratic EXCEPT !.tested = FALSE, !.convex = FALSE, !.medium = FALSE, !.polished = FALSE],
               [Quadratic EXCEPT !.form = "DIAGONAL", !.medium = FALSE],
               [MildQuadratic EXCEPT !.form = "EQUALITY", !.equalities = {1, 2}],
               [Quadratic EXCEPT !.small = TRUE, !.medium = FALSE]}}
=============================================================================
