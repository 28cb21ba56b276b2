---------------------------- MODULE IntegerBoxes ----------------------------
(***************************************************************************)
(* A mixed-integer model as branch-and-bound sees it: boxes of integer     *)
(* bounds over its integer columns, and the integral points inside them    *)
(* that satisfy the original rows.  Continuous columns are projected out:  *)
(* a point stands for the best way to complete it.                         *)
(***************************************************************************)
EXTENDS Integers, FiniteSets

CONSTANTS
    Columns,    \* the integer columns of the model
    RootLower,  \* the bounds of the root node, rounded inward
    RootUpper,
    Feasible,   \* integral points within the rows and bounds
    Objective   \* their objective, in minimization sense

ASSUME BoxAssumption ==
    /\ RootLower \in [Columns -> Int]
    /\ RootUpper \in [Columns -> Int]
    /\ Feasible \subseteq [Columns -> Int]
    /\ \A p \in Feasible : \A j \in Columns :
          RootLower[j] <= p[j] /\ p[j] <= RootUpper[j]
    /\ Objective \in [Feasible -> Int]

Box == [lower : [Columns -> Int], upper : [Columns -> Int]]

RootBox == [lower |-> RootLower, upper |-> RootUpper]

\* The feasible points inside the bounds of b, a box or a node.
Points(b) ==
    {p \in Feasible : \A j \in Columns : b.lower[j] <= p[j] /\ p[j] <= b.upper[j]}

Span == UNION {RootLower[j] .. RootUpper[j] : j \in Columns}

\* The boxes inside the bounds of b.
Shrunk(b) ==
    {c \in [lower : [Columns -> Span], upper : [Columns -> Span]] :
        \A j \in Columns : /\ b.lower[j] <= c.lower[j]
                           /\ c.lower[j] <= c.upper[j]
                           /\ c.upper[j] <= b.upper[j]}

\* Mutant: propagation may cut off points that should stay.
TightenedUnsound(b, keep) == Shrunk(b)

\* What rounding and propagation may make of a node's bounds: any smaller box
\* that loses none of the points to keep.
Tightened(b, keep) == {c \in Shrunk(b) : Points(b) \cap keep \subseteq Points(c)}

\* The bounds of a child: column j at most v, or at least v.
WithUpper(b, j, v) == [b.upper EXCEPT ![j] = v]
WithLower(b, j, v) == [b.lower EXCEPT ![j] = v]

=============================================================================
