---------------------------- MODULE MCLpPipeline ----------------------------
EXTENDS LpPipeline
MCLevels == {0, 2, 3, 4}
Request(m, p, l) == [method |-> m, use_presolve |-> p, large |-> l]
MCRequests == {Request("SIMPLEX", TRUE, FALSE), Request("FIRST_ORDER", FALSE, FALSE),
               Request("HYBRID", TRUE, FALSE), Request("HYBRID", TRUE, TRUE)}
=============================================================================
