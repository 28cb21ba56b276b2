---------------------------- MODULE NodeReasoning ----------------------------
(***************************************************************************)
(* Row reasoning along one path of either search tree: the root, its       *)
(* relaxation, its cuts, and the children branching makes.  The LP engine  *)
(* is external: it returns a point minimizing one of the model's           *)
(* objectives over the relaxation.                                         *)
(***************************************************************************)
EXTENDS RowReasoning, NativePropagation

NodeInit ==
    /\ problem \in Problems
    /\ solver \in {"solve_milp", "sk_milp_solve"}
    /\ stage = IF solver = "solve_milp" THEN "enter" ELSE "covers"
    /\ depth = 0
    /\ node = [lower |-> problem.lower, upper |-> problem.upper]
    /\ lower = node.lower /\ upper = node.upper
    /\ rhs = [i \in DOMAIN Rows |-> Rows[i].rhs]
    /\ cuts = {} /\ separated = FALSE
    /\ cursor = 1 /\ pass = 1 /\ changed = FALSE
    /\ acts = <<>>
    /\ x = [j \in Columns |-> 0]

Relax ==
    /\ stage = "relax" /\ Relaxed # {}
    /\ \E o \in problem.objectives :
           LET best == Min({Value(o, p) : p \in Relaxed})
           IN  x' \in {p \in Relaxed : Value(o, p) = best}
    /\ stage' = IF solver = "solve_milp" /\ depth = 0 /\ ~separated THEN "separate"
                ELSE "branch"
    /\ UNCHANGED <<problem, solver, depth, node, lower, upper, rhs, cuts, separated,
                   cursor, pass, changed, acts>>

\* The search goes on in either child, and the bounds start over from its box.
Branch ==
    /\ stage = "branch" /\ depth < MaxDepth
    /\ \E j \in Fractional : node' \in {Down(j), Up(j)}
    /\ depth' = depth + 1
    /\ stage' = "enter"
    /\ UNCHANGED <<problem, solver, lower, upper, rhs, cuts, separated, cursor, pass,
                   changed, acts, x>>

\* The path ends at a pruned node, an empty relaxation or an integral point.
PathEnds ==
    \/ stage = "pruned"
    \/ stage = "relax" /\ Relaxed = {}
    \/ stage = "branch" /\ (depth = MaxDepth \/ Fractional = {})
Finished == PathEnds /\ UNCHANGED vars

NodeNext == RowReasoningNext \/ NativePropagationNext \/ Relax \/ Branch \/ Finished

NodeSpec == NodeInit /\ [][NodeNext]_vars

=============================================================================
