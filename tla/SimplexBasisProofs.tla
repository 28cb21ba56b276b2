-------------------------- MODULE SimplexBasisProofs --------------------------
(***************************************************************************)
(* Proofs about SimplexBasis, for every number of rows and structurals.    *)
(*                                                                         *)
(* The bookkeeping of a basis survives a pivot, a repair, a warm start and *)
(* both cold starts, whatever the attempt before left behind. The lemmas   *)
(* say so of the operators, the invariant IInv of the solve.               *)
(***************************************************************************)
EXTENDS SimplexBasis, TLAPS

(* The column ranges: slacks and artificials are apart, and a row's own. *)
LEMMA ColumnRanges ==
  /\ \A i \in Rows : SlackOf(i) \in Named /\ SlackOf(i) \in Logicals /\ SlackOf(i) \in Vars
  /\ \A i \in Rows : ArtOf(i) \notin Named /\ ArtOf(i) \in Logicals /\ ArtOf(i) \in Vars
  /\ \A i, j \in Rows : /\ ArtOf(i) = ArtOf(j) => i = j
                        /\ SlackOf(i) = SlackOf(j) => i = j
                        /\ SlackOf(i) # ArtOf(j)
  /\ \A v \in Vars : v \notin Named => v - ArtOf(0) \in Rows /\ v = ArtOf(v - ArtOf(0))
  /\ \A v \in Named : v \notin Structs => v - SlackOf(0) \in Rows /\ v = SlackOf(v - SlackOf(0))
  /\ \A v \in Vars : v \in Logicals <=> v \notin Structs
  /\ Structs \subseteq Named /\ Named \subseteq Vars
  BY SizesAssumption DEF SlackOf, ArtOf, Named, Logicals, Vars, Rows, Structs

(* A repair reported for a consistent basis is never refused and leaves a  *)
(* consistent basis: the artificials it seats were not basic, and each row *)
(* is repaired once.                                                       *)
LEMMA RepairConsistent ==
  ASSUME NEW t \in Seats, Consistent(t), shape \in [Named -> Shape],
         NEW rep \in Singularities(t.basis)
  PROVE  /\ Repaired(t, rep) \in Seats
         /\ Consistent(Repaired(t, rep))
         /\ ~ Refuses(t, rep)
<1> DEFINE u == Repaired(t, rep)
<1>1. PICK P \in SUBSET Rows :
        /\ rep \in [P -> {r \in Rows : ~ InBasis(SlackOf(r), t.basis) /\ ~ InBasis(ArtOf(r), t.basis)}]
        /\ Injective(rep)
  BY DEF Singularities
<1>2. /\ DOMAIN rep = P
      /\ \A p \in P : rep[p] \in Rows /\ ~ InBasis(ArtOf(rep[p]), t.basis)
      /\ \A p, q \in P : rep[p] = rep[q] => p = q
  BY <1>1 DEF Injective
<1>3. /\ t.basis \in [Rows -> Vars] /\ t.rowOf \in [Vars -> Rows \cup {-1}]
      /\ t.status \in [Vars -> VarStatus]
      /\ \A i, j \in Rows : t.basis[i] = t.basis[j] => i = j
  BY DEF Seats, Consistent, Injective
<1>4. \A p \in P : /\ ArtOf(rep[p]) \in Vars
                   /\ ArtOf(rep[p]) \in Logicals
                   /\ \A i \in Rows : t.basis[i] # ArtOf(rep[p])
  BY <1>2, ColumnRanges DEF InBasis
<1>5. \A p, q \in P : ArtOf(rep[p]) = ArtOf(rep[q]) => p = q
  BY <1>2, ColumnRanges
<1> DEFINE displaced(v) == \E p \in P : t.basis[p] = v
           seated(v) == \E p \in P : ArtOf(rep[p]) = v
<1>6. /\ u.basis = [i \in Rows |-> IF i \in P THEN ArtOf(rep[i]) ELSE t.basis[i]]
      /\ u.rowOf = [v \in Vars |-> IF seated(v) THEN CHOOSE p \in P : ArtOf(rep[p]) = v
                                   ELSE IF displaced(v) THEN -1 ELSE t.rowOf[v]]
      /\ u.status = [v \in Vars |-> IF seated(v) THEN "BASIC"
                                    ELSE IF displaced(v) THEN Rest(v) ELSE t.status[v]]
      /\ DOMAIN u = {"basis", "rowOf", "status"}
  BY <1>2 DEF Repaired
<1>7. \A v \in Vars : Rest(v) \in VarStatus /\ Rest(v) # "BASIC"
  BY DEF Rest, VarStatus
<1>8. u \in Seats
  <2>1. u.basis \in [Rows -> Vars]
    BY <1>3, <1>4, <1>6
  <2>2. u.rowOf \in [Vars -> Rows \cup {-1}]
    <3>1. ASSUME NEW v \in Vars, seated(v)
          PROVE  (CHOOSE p \in P : ArtOf(rep[p]) = v) \in Rows \cup {-1}
      BY <3>1
    <3> QED BY <1>3, <1>6, <3>1
  <2>3. u.status \in [Vars -> VarStatus]
    BY <1>3, <1>6, <1>7 DEF VarStatus
  <2> QED BY <2>1, <2>2, <2>3, <1>6 DEF Seats, Repaired
<1>9. \A v \in Vars : InBasis(v, u.basis) <=> seated(v) \/ (InBasis(v, t.basis) /\ ~ displaced(v))
  BY <1>3, <1>4, <1>6 DEF InBasis
<1>10. Consistent(u)
  <2>1. Injective(u.basis)
    BY <1>3, <1>4, <1>5, <1>6 DEF Injective
  <2>2. ASSUME NEW v \in Vars
        PROVE  u.status[v] = "BASIC" <=> InBasis(v, u.basis)
    <3>1. t.status[v] = "BASIC" <=> InBasis(v, t.basis)
      BY DEF Consistent
    <3> QED BY <3>1, <1>6, <1>7, <1>9
  <2>3. ASSUME NEW i \in Rows
        PROVE  u.rowOf[u.basis[i]] = i
    <3>1. CASE i \in P
      <4>1. u.basis[i] = ArtOf(rep[i]) /\ u.basis[i] \in Vars
        BY <3>1, <1>4, <1>6
      <4>2. seated(u.basis[i])
        BY <3>1, <4>1
      <4>3. (CHOOSE p \in P : ArtOf(rep[p]) = u.basis[i]) = i
        BY <3>1, <4>1, <1>5
      <4> QED BY <4>1, <4>2, <4>3, <1>6
    <3>2. CASE i \notin P
      <4>1. u.basis[i] = t.basis[i] /\ t.basis[i] \in Vars
        BY <3>2, <1>3, <1>6
      <4>2. ~ seated(t.basis[i]) /\ ~ displaced(t.basis[i])
        BY <3>2, <1>3, <1>4
      <4>3. t.rowOf[t.basis[i]] = i
        BY DEF Consistent
      <4> QED BY <4>1, <4>2, <4>3, <1>6
    <3> QED BY <3>1, <3>2
  <2>4. ASSUME NEW v \in Logicals, u.status[v] # "BASIC"
        PROVE  u.rowOf[v] = -1
    <3>1. v \in Vars
      BY SizesAssumption DEF Logicals, Vars
    <3>2. ~ seated(v)
      BY <3>1, <2>4, <1>6
    <3>3. ~ displaced(v) => t.rowOf[v] = -1
      BY <3>1, <3>2, <2>4, <1>6 DEF Consistent
    <3> QED BY <3>1, <3>2, <3>3, <1>6
  <2> QED BY <2>1, <2>2, <2>3, <2>4 DEF Consistent
<1>11. ~ Refuses(t, rep)
  <2>1. ASSUME NEW p \in P PROVE t.rowOf[ArtOf(rep[p])] = -1
    BY <1>4 DEF Consistent, InBasis
  <2> QED BY <2>1, <1>2 DEF Refuses
<1> QED BY <1>8, <1>10, <1>11

(* Where a displaced column is put, it has that bound: a repair leaves     *)
(* every nonbasic column at a bound it has.                                *)
LEMMA RepairAtBounds ==
  ASSUME NEW t \in Seats, NEW open, AtBounds(t, open), shape \in [Named -> Shape],
         NEW rep \in Singularities(t.basis)
  PROVE  AtBounds(Repaired(t, rep), open)
<1>1. \A v \in Vars : Repaired(t, rep).status[v] \in {"BASIC", Rest(v), t.status[v]}
  BY DEF Repaired
<1>2. \A v \in Vars : /\ Rest(v) = "AT_LOWER" => HasLower(v)
                      /\ Rest(v) = "AT_UPPER" => HasUpper(v, open)
                      /\ Rest(v) = "AT_ZERO" => IsFree(v)
  BY DEF Rest, HasLower, HasUpper, IsFree, Shape
<1> QED BY <1>1, <1>2 DEF AtBounds

(* What refactorize() can leave, from a consistent basis.                  *)
LEMMA RefactorizeSound ==
  ASSUME NEW t \in Seats, Consistent(t), shape \in [Named -> Shape],
         NEW sign \in [Rows -> Sign],
         NEW o \in Refactorize(t, sign)
  PROVE  /\ o.seat \in Seats /\ Consistent(o.seat)
         /\ \A open : AtBounds(t, open) => AtBounds(o.seat, open)
         /\ o.thrown \in {"no", "singular"}
         /\ o.thrown = "no" => o.factored = Columns(o.seat.basis, sign)
         /\ o.factored \in {Unknown, Columns(o.seat.basis, sign)}
<1>1. NoRepair \in Singularities(t.basis)
  <2>1. NoRepair \in [{} -> {r \in Rows : ~ InBasis(SlackOf(r), t.basis) /\ ~ InBasis(ArtOf(r), t.basis)}]
    BY DEF NoRepair
  <2>2. Injective(NoRepair)
    BY DEF NoRepair, Injective
  <2>3. {} \in SUBSET Rows
    OBVIOUS
  <2> DEFINE Free == {r \in Rows : ~ InBasis(SlackOf(r), t.basis) /\ ~ InBasis(ArtOf(r), t.basis)}
  <2>4. NoRepair \in {rep \in [{} -> Free] : Injective(rep)}
    BY <2>1, <2>2
  <2>5. Singularities(t.basis) = UNION {{rep \in [P -> Free] : Injective(rep)} : P \in SUBSET Rows}
    BY DEF Singularities
  <2> HIDE DEF Free
  <2> QED BY <2>3, <2>4, <2>5
<1>2. PICK rep \in Singularities(t.basis) :
        \/ /\ ~ Refuses(t, rep)
           /\ \/ o = [seat |-> Repaired(t, rep),
                      factored |-> Columns(Repaired(t, rep).basis, sign), thrown |-> "no"]
              \/ o = [seat |-> Repaired(t, rep), factored |-> Unknown, thrown |-> "singular"]
        \/ Refuses(t, rep)
  BY <1>1 DEF Refactorize
<1>3. /\ Repaired(t, rep) \in Seats /\ Consistent(Repaired(t, rep))
      /\ ~ Refuses(t, rep)
  BY RepairConsistent
<1>4. \A open : AtBounds(t, open) => AtBounds(Repaired(t, rep), open)
  BY RepairAtBounds
<1> QED BY <1>2, <1>3, <1>4

(* The columns of a typed basis have the type of factored.                 *)
LEMMA ColumnsTyped ==
  ASSUME NEW basis \in [Rows -> Vars], NEW sign \in [Rows -> Sign]
  PROVE  Columns(basis, sign) \in [Rows -> (Vars \cup {-1}) \X {-1, 0, 1}]
<1>1. \A v \in Vars : Column(v, sign) \in (Vars \cup {-1}) \X {-1, 0, 1}
  BY ColumnRanges DEF Column, Sign
<1> QED BY <1>1 DEF Columns

(* A pivot exchanges a nonbasic column for the basic one of its row.       *)
LEMMA ExchangeConsistent ==
  ASSUME NEW v \in Vars, NEW r \in Rows, NEW at \in {"AT_LOWER", "AT_UPPER"},
         seat \in Seats, Consistent(seat), seat.status[v] # "BASIC"
  PROVE  Exchanged(v, r, at) \in Seats /\ Consistent(Exchanged(v, r, at))
<1> DEFINE u == Exchanged(v, r, at)
<1>1. /\ seat.basis \in [Rows -> Vars] /\ seat.rowOf \in [Vars -> Rows \cup {-1}]
      /\ seat.status \in [Vars -> VarStatus]
  BY DEF Seats
<1>2. /\ u.basis = [seat.basis EXCEPT ![r] = v]
      /\ u.rowOf = [seat.rowOf EXCEPT ![seat.basis[r]] = -1, ![v] = r]
      /\ u.status = [seat.status EXCEPT ![seat.basis[r]] = at, ![v] = "BASIC"]
  BY DEF Exchanged
<1>3. u \in Seats
  BY <1>1 DEF Exchanged, Seats, VarStatus
<1>4. ~ InBasis(v, seat.basis) /\ \A i, j \in Rows : seat.basis[i] = seat.basis[j] => i = j
  BY <1>1 DEF Consistent, Injective
<1>5. \A w \in Vars : InBasis(w, u.basis) <=> w = v \/ (InBasis(w, seat.basis) /\ w # seat.basis[r])
  BY <1>1, <1>2, <1>4 DEF InBasis
<1>6. Injective(u.basis)
  BY <1>1, <1>2, <1>4 DEF Injective, InBasis
<1>7. \A w \in Vars : u.status[w] = "BASIC" <=> InBasis(w, u.basis)
  BY <1>1, <1>2, <1>5 DEF Consistent
<1>8. \A i \in Rows : u.rowOf[u.basis[i]] = i
  BY <1>1, <1>2, <1>4 DEF Consistent, InBasis
<1>9. \A w \in Logicals : u.status[w] # "BASIC" => u.rowOf[w] = -1
  <2>1. Logicals \subseteq Vars
    BY SizesAssumption DEF Logicals, Vars
  <2> QED BY <2>1, <1>1, <1>2 DEF Consistent
<1> QED BY <1>3, <1>6, <1>7, <1>8, <1>9 DEF Consistent

(* seat_basis writes a parent's basis over anything; unless a column cannot *)
(* rest, the result is consistent and rests on bounds the child has.       *)
LEMMA SeatedSound ==
  ASSUME NEW p \in ParentBases, seat \in Seats, shape \in [Named -> Shape]
  PROVE  /\ Seated(p) \in Seats
         /\ p.basis \in [Rows -> Vars] /\ p.artSign \in [Rows -> Sign]
         /\ (\A v \in Vars : ~ CannotRest(p, v)) =>
               Consistent(Seated(p)) /\ AtBounds(Seated(p), {})
<1> DEFINE u == Seated(p)
<1>1. /\ p.basis \in [Rows -> Vars] /\ p.artSign \in [Rows -> Sign]
      /\ p.status \in [Vars -> VarStatus]
      /\ \A i, j \in Rows : p.basis[i] = p.basis[j] => i = j
      /\ \A v \in Vars : p.status[v] = "BASIC" <=> InBasis(v, p.basis)
  <2>1. PICK b \in [Rows -> Vars], rest \in ParentRests, sign \in [Rows -> Sign] :
          /\ Injective(b)
          /\ p = [basis |-> b, artSign |-> sign,
                  status |-> [v \in Vars |-> IF InBasis(v, b) THEN "BASIC" ELSE rest[v]]]
    BY DEF ParentBases
  <2>2. rest \in [Vars -> {"AT_LOWER", "AT_UPPER", "AT_ZERO"}]
    BY DEF ParentRests
  <2> QED BY <2>1, <2>2 DEF VarStatus, Injective
<1>2. \A v \in Vars : InBasis(v, p.basis) =>
        /\ (CHOOSE i \in Rows : p.basis[i] = v) \in Rows
        /\ p.basis[CHOOSE i \in Rows : p.basis[i] = v] = v
  BY DEF InBasis
<1>3. u \in Seats
  BY <1>1, <1>2 DEF Seated, Seats, VarStatus
<1>4. ASSUME \A v \in Vars : ~ CannotRest(p, v)
      PROVE  Consistent(u) /\ AtBounds(u, {})
  <2>1. \A v \in Vars : u.status[v] = p.status[v]
    <3>1. \A v \in Vars : 0 .. v \subseteq Vars
      BY SizesAssumption DEF Vars
    <3> QED BY <3>1, <1>1, <1>4 DEF Seated
  <2>2. \A i \in Rows : u.rowOf[u.basis[i]] = i
    BY <1>1, <1>2 DEF Seated, InBasis
  <2>3. \A v \in Logicals : u.status[v] # "BASIC" => u.rowOf[v] = -1
    <3>1. Logicals \subseteq Vars
      BY SizesAssumption DEF Logicals, Vars
    <3> QED BY <3>1, <2>1, <1>1 DEF Seated
  <2>4. u.basis = p.basis
    BY DEF Seated
  <2>5. Consistent(u)
    BY <2>1, <2>2, <2>3, <2>4, <1>1 DEF Consistent, Injective
  <2>6. AtBounds(u, {})
    BY <2>1, <1>1, <1>4 DEF AtBounds, CannotRest
  <2> QED BY <2>5, <2>6
<1> QED BY <1>1, <1>3, <1>4

(* The all-slack start is consistent once every structural found a bound   *)
(* its cost agrees with; it is typed also when it stopped halfway.         *)
LEMMA AllSlackSound ==
  ASSUME NEW c \in CostSigns, seat \in Seats, shape \in [Named -> Shape]
  PROVE  /\ AllSlack(c) \in Seats
         /\ (\A v \in Structs : ~ NoDualRest(c, v)) =>
               Consistent(AllSlack(c)) /\ AtBounds(AllSlack(c), {})
<1> DEFINE u == AllSlack(c)
<1>1. \A v \in Structs : DualRest(c, v) \in VarStatus \ {"BASIC"}
  BY DEF DualRest, CostSigns, Rest, VarStatus
<1>2. u \in Seats
  BY <1>1, ColumnRanges DEF AllSlack, Seats, VarStatus
<1>3. ASSUME \A v \in Structs : ~ NoDualRest(c, v)
      PROVE  Consistent(u) /\ AtBounds(u, {})
  <2>1. /\ u.basis = [i \in Rows |-> SlackOf(i)]
        /\ \A v \in Vars : v \notin Structs =>
             /\ u.status[v] = IF v \in Named THEN "BASIC" ELSE "AT_LOWER"
             /\ u.rowOf[v] = IF v \in Named THEN v - SlackOf(0) ELSE -1
        /\ \A v \in Structs : u.status[v] = DualRest(c, v)
    <3>1. \A v \in Structs : 0 .. v \subseteq Structs /\ v \in Vars
      BY SizesAssumption DEF Structs, Vars
    <3> QED BY <3>1, <1>3 DEF AllSlack
  <2>2. \A v \in Vars : InBasis(v, u.basis) <=> v \in Named /\ v \notin Structs
    BY <2>1, ColumnRanges, SizesAssumption DEF InBasis, SlackOf, Named, Structs, Rows, Vars
  <2>3. Injective(u.basis)
    BY <2>1, ColumnRanges DEF Injective
  <2>4. \A v \in Vars : u.status[v] = "BASIC" <=> InBasis(v, u.basis)
    BY <2>1, <2>2, <1>1
  <2>5. \A i \in Rows : u.rowOf[u.basis[i]] = i
    <3>1. \A i \in Rows : SlackOf(i) - SlackOf(0) = i /\ SlackOf(i) \notin Structs
      BY SizesAssumption DEF SlackOf, Rows, Structs
    <3> QED BY <3>1, <2>1, ColumnRanges
  <2>6. \A v \in Logicals : u.status[v] # "BASIC" => u.rowOf[v] = -1
    BY <2>1, SizesAssumption DEF Logicals, Vars, Structs
  <2>7. AtBounds(u, {})
    <3>1. ASSUME NEW v \in Structs
          PROVE  /\ u.status[v] = "AT_LOWER" => HasLower(v)
                 /\ u.status[v] = "AT_UPPER" => HasUpper(v, {})
                 /\ u.status[v] = "AT_ZERO" => IsFree(v)
      <4>1. v \in Named /\ shape[v] \in Shape
        BY ColumnRanges
      <4> QED BY <4>1, <2>1, <1>3 DEF NoDualRest, DualRest, CostSigns, Rest, HasLower, HasUpper, IsFree, Shape
    <3>2. ASSUME NEW v \in Vars, v \notin Named
          PROVE  HasLower(v) /\ u.status[v] = "AT_LOWER"
      BY <3>2, <2>1, ColumnRanges DEF HasLower
    <3>3. \A v \in Named : v \notin Structs => u.status[v] = "BASIC"
      BY <2>1, ColumnRanges
    <3> QED BY <3>1, <3>2, <3>3 DEF AtBounds
  <2> QED BY <2>3, <2>4, <2>5, <2>6, <2>7 DEF Consistent
<1> QED BY <1>2, <1>3

(* The crash basis is consistent whatever the attempts before left: the    *)
(* stale map entries of structurals are of columns it does not seat.       *)
LEMMA CrashSound ==
  ASSUME NEW C \in CrashRows, NEW park \in Parkings(C), seat \in Seats,
         shape \in [Named -> Shape]
  PROVE  /\ Crash(C, park) \in Seats
         /\ Consistent(Crash(C, park))
         /\ AtBounds(Crash(C, park), Rows \ C)
         /\ ResidualSigns(C, park) \in [Rows -> Sign]
<1> DEFINE u == Crash(C, park)
           row(v) == IF v \in Named THEN v - SlackOf(0) ELSE v - ArtOf(0)
           basic(v) == IF v \in Named THEN row(v) \in C ELSE row(v) \notin C
<1>1. /\ C \subseteq Rows /\ park \in [Rows \ C -> {"AT_LOWER", "AT_UPPER"}]
      /\ \A i \in Rows \ C : IF park[i] = "AT_LOWER" THEN HasLower(SlackOf(i))
                                                  ELSE HasUpper(SlackOf(i), {})
  BY DEF CrashRows, Parkings
<1>2. \A v \in Vars : v \notin Structs =>
        /\ row(v) \in Rows
        /\ v = IF v \in Named THEN SlackOf(row(v)) ELSE ArtOf(row(v))
  BY ColumnRanges
<1>3. \A i \in Rows : row(SlackOf(i)) = i /\ row(ArtOf(i)) = i
  BY ColumnRanges, SizesAssumption DEF SlackOf, ArtOf, Rows
<1>4. \A v \in Structs : Rest(v) \in VarStatus \ {"BASIC"}
  BY DEF Rest, VarStatus
<1>5. /\ u.basis = [i \in Rows |-> IF i \in C THEN SlackOf(i) ELSE ArtOf(i)]
      /\ u.rowOf = [v \in Vars |-> IF v \in Structs THEN seat.rowOf[v]
                                   ELSE IF basic(v) THEN row(v) ELSE -1]
      /\ u.status = [v \in Vars |-> IF v \in Structs THEN Rest(v)
                                    ELSE IF basic(v) THEN "BASIC"
                                    ELSE IF v \in Named THEN park[row(v)] ELSE "AT_LOWER"]
      /\ u = [basis |-> u.basis, rowOf |-> u.rowOf, status |-> u.status]
  BY DEF Crash
<1>6. u \in Seats
  <2>1. u.basis \in [Rows -> Vars]
    BY <1>5, ColumnRanges
  <2>2. u.rowOf \in [Vars -> Rows \cup {-1}]
    BY <1>2, <1>5 DEF Seats
  <2>3. u.status \in [Vars -> VarStatus]
    BY <1>1, <1>2, <1>4, <1>5 DEF VarStatus
  <2> QED BY <2>1, <2>2, <2>3, <1>5 DEF Seats
<1>7. \A v \in Vars : InBasis(v, u.basis) <=> v \notin Structs /\ basic(v)
  BY <1>2, <1>3, <1>5, ColumnRanges DEF InBasis
<1>8. Consistent(u)
  <2>1. Injective(u.basis)
    BY <1>5, ColumnRanges DEF Injective
  <2>2. \A v \in Vars : u.status[v] = "BASIC" <=> InBasis(v, u.basis)
    <3>1. \A v \in Vars : v \notin Structs /\ ~ basic(v) /\ v \in Named => park[row(v)] # "BASIC"
      BY <1>1, <1>2
    <3> QED BY <3>1, <1>4, <1>5, <1>7
  <2>3. \A i \in Rows : u.rowOf[u.basis[i]] = i
    BY <1>3, <1>5, ColumnRanges
  <2>4. \A v \in Logicals : u.status[v] # "BASIC" => u.rowOf[v] = -1
    <3>1. \A v \in Logicals : v \in Vars /\ v \notin Structs
      BY SizesAssumption DEF Logicals, Vars, Structs
    <3> QED BY <3>1, <1>5
  <2> QED BY <2>1, <2>2, <2>3, <2>4 DEF Consistent
<1>9. AtBounds(u, Rows \ C)
  <2>1. ASSUME NEW v \in Structs
        PROVE  /\ u.status[v] = "AT_LOWER" => HasLower(v)
               /\ u.status[v] = "AT_UPPER" => HasUpper(v, Rows \ C)
               /\ u.status[v] = "AT_ZERO" => IsFree(v)
    <3>1. v \in Named /\ v \in Vars /\ shape[v] \in Shape
      BY ColumnRanges
    <3> QED BY <3>1, <1>5 DEF Rest, HasLower, HasUpper, IsFree, Shape
  <2>2. ASSUME NEW v \in Named, v \notin Structs, u.status[v] # "BASIC"
        PROVE  /\ u.status[v] \in {"AT_LOWER", "AT_UPPER"}
               /\ u.status[v] = "AT_LOWER" => HasLower(v)
               /\ u.status[v] = "AT_UPPER" => HasUpper(v, Rows \ C)
    <3>1. v \in Vars /\ row(v) \in Rows /\ v = SlackOf(row(v))
      BY <2>2, <1>2, ColumnRanges
    <3>2. row(v) \in Rows \ C /\ u.status[v] = park[row(v)]
      BY <3>1, <2>2, <1>5
    <3> QED BY <3>1, <3>2, <1>1 DEF HasUpper
  <2>3. ASSUME NEW v \in Vars, v \notin Named
        PROVE  HasLower(v) /\ u.status[v] \in {"AT_LOWER", "BASIC"}
    BY <2>3, <1>5, ColumnRanges DEF HasLower
  <2> QED BY <2>1, <2>2, <2>3 DEF AtBounds
<1>10. ResidualSigns(C, park) \in [Rows -> Sign]
  BY DEF ResidualSigns, Sign
<1> QED BY <1>6, <1>8, <1>9, <1>10

(* A basis with every row's slack or artificial in it has no position a    *)
(* factorization could leave without a pivot: it never throws.             *)
LEMMA NothingToRepair ==
  ASSUME NEW t \in Seats, Consistent(t), shape \in [Named -> Shape],
         NEW sign \in [Rows -> Sign],
         \A r \in Rows : InBasis(SlackOf(r), t.basis) \/ InBasis(ArtOf(r), t.basis),
         NEW o \in Refactorize(t, sign)
  PROVE  o.thrown = "no"
<1>1. ASSUME NEW rep \in Singularities(t.basis) PROVE DOMAIN rep = {}
  <2>1. PICK P \in SUBSET Rows : rep \in [P -> {}]
    BY DEF Singularities
  <2> QED BY <2>1
<1>2. DOMAIN NoRepair = {}
  BY DEF NoRepair
<1>3. ASSUME NEW rep, DOMAIN rep = {} PROVE ~ Refuses(t, rep)
  BY <1>3 DEF Refuses
<1>4. \A rep \in (IF etas = 0 /\ factored = Columns(t.basis, sign) THEN {NoRepair}
                  ELSE Singularities(t.basis)) : DOMAIN rep = {} /\ ~ Refuses(t, rep)
  BY <1>1, <1>2, <1>3
<1> QED BY <1>4 DEF Refactorize

FactoredType == [Rows -> (Vars \cup {-1}) \X {-1, 0, 1}]

(* What a step that refactorizes leaves, whether or not it throws.         *)
LEMMA RederivedSound ==
  ASSUME NEW t \in Seats, Consistent(t), shape \in [Named -> Shape],
         NEW sign \in [Rows -> Sign], repairRefused \in BOOLEAN,
         NEW o \in Refactorize(t, sign), Rederived(o)
  PROVE  /\ seat' \in Seats /\ Consistent(seat')
         /\ \A open : AtBounds(t, open) => AtBounds(seat', open)
         /\ factored' \in FactoredType
         /\ o.thrown = "no" => factored' = Columns(seat'.basis, sign)
         /\ etas' = 0
         /\ derived' \in BOOLEAN /\ (o.thrown = "no" => derived' = TRUE)
         /\ repairRefused' = repairRefused
<1>1. /\ o.seat \in Seats /\ Consistent(o.seat)
      /\ \A open : AtBounds(t, open) => AtBounds(o.seat, open)
      /\ o.thrown \in {"no", "singular"}
      /\ o.thrown = "no" => o.factored = Columns(o.seat.basis, sign)
      /\ o.factored \in {Unknown, Columns(o.seat.basis, sign)}
  BY RefactorizeSound
<1>2. o.factored \in FactoredType
  <2>1. Unknown \in FactoredType
    BY DEF Unknown, FactoredType
  <2>2. o.seat.basis \in [Rows -> Vars]
    BY <1>1 DEF Seats
  <2>3. Columns(o.seat.basis, sign) \in FactoredType
    BY <2>2, ColumnsTyped DEF FactoredType
  <2> QED BY <1>1, <2>1, <2>3
<1>3. /\ seat' = o.seat /\ factored' = o.factored /\ etas' = 0
      /\ derived' = (o.thrown = "no")
      /\ repairRefused' = (repairRefused \/ o.thrown = "refused")
  BY DEF Rederived
<1>4. repairRefused' = repairRefused
  BY <1>1, <1>3
<1> QED BY <1>1, <1>2, <1>3, <1>4

(***************************************************************************)
(* The inductive invariant.                                                *)
(***************************************************************************)
\* The bookkeeping of whatever runs is whole, and the device follows it.
BookHolds ==
  /\ Settled => Consistent(seat) /\ AtBounds(seat, artOpen)
  /\ Solving => factored = Columns(seat.basis, artSign)
  /\ ~ repairRefused
  /\ pc \in {"phase1", "phase2"} => DeviceCurrent

\* Which attempt runs where, and what its flags say before there is an answer.
PathHolds ==
  /\ pc = "dual" => attempt \in {"warm", "dual"}
  /\ pc \in {"phase1", "phase2"} => attempt = "primal"
  /\ attempt = "warm" => result.warmAttempted
  /\ pc \notin {"finalize", "done"} => ~ result.usedDual /\ ~ result.usedWarm
  /\ pc = "finalize" => /\ attempt # "none"
                        /\ result.usedDual <=> attempt # "primal"
                        /\ result.usedWarm <=> attempt = "warm"
  /\ FlagsNameThePath

\* Which values and costs a conclusion is drawn from.
ValuesHold ==
  /\ pc = "dual" /\ valuesFresh => derived /\ etas = 0
  /\ pc \in {"dual", "phase2"} \/ (pc = "finalize" /\ verdict = "OPTIMAL") =>
       cost = "phase2" /\ artOpen = {}
  /\ DualConcludesOnFreshValues
  /\ OptimalIsVerified

IInv == TypeOK /\ BookHolds /\ PathHolds /\ ValuesHold

(* The constructor establishes the invariant.                              *)
LEMMA InvariantInit == Init => IInv
<1> SUFFICES ASSUME Init PROVE IInv
  OBVIOUS
<1>1. seat \in Seats
  <2>1. \A i \in Rows : 0 \in Vars
    BY SizesAssumption DEF Rows, Vars
  <2> QED BY <2>1 DEF Init, Seats, VarStatus
<1>2. Unknown \in FactoredType
  BY DEF Unknown, FactoredType
<1>3. PlusSigns \in [Rows -> Sign]
  BY DEF PlusSigns, Sign
<1>4. TypeOK
  <2>1. /\ pc \in Labels /\ attempt \in {"none", "warm", "dual", "primal"}
        /\ etas \in 0 .. RefactorizeEvery /\ iterations \in 0 .. MaxIterations
        /\ verdict \in LpStatus
    BY LimitsAssumption DEF Init, Labels, LpStatus
  <2>2. /\ device \in [cost : {"none", "phase1", "phase2"}, artOpen : SUBSET Rows,
                       artSign : [Rows -> Sign]]
        /\ result \in [status : LpStatus, usedDual : BOOLEAN, usedWarm : BOOLEAN,
                       warmAttempted : BOOLEAN, x : {"none", "warm", "dual", "primal"}]
    BY <1>3 DEF Init, LpStatus
  <2> QED BY <1>1, <1>2, <1>3, <2>1, <2>2 DEF Init, TypeOK, FactoredType
<1>5. BookHolds /\ PathHolds /\ ValuesHold
  BY DEF Init, BookHolds, PathHolds, ValuesHold, Settled, Solving, Loops, FlagsNameThePath,
         DualConcludesOnFreshValues, OptimalIsVerified
<1> QED BY <1>4, <1>5 DEF IInv

(* What the invariant says of the state a step starts from.                *)
LEMMA InvariantTypes ==
  ASSUME IInv
  PROVE  /\ seat \in Seats /\ shape \in [Named -> Shape] /\ artSign \in [Rows -> Sign]
         /\ artOpen \subseteq Rows /\ repairRefused \in BOOLEAN
         /\ Settled => Consistent(seat) /\ AtBounds(seat, artOpen)
         /\ Solving => Settled
  BY ShapesAssumption DEF IInv, TypeOK, BookHolds, Settled, Solving, Loops

(* The steps that leave the path to others: only labels and flags matter.  *)
LEMMA PathStep == IInv /\ [Next]_vars => PathHolds'
<1> SUFFICES ASSUME IInv, [Next]_vars PROVE PathHolds'
  OBVIOUS
<1> USE DEF IInv, PathHolds, FlagsNameThePath
<1>0. /\ result \in [status : LpStatus, usedDual : BOOLEAN, usedWarm : BOOLEAN,
                     warmAttempted : BOOLEAN, x : {"none", "warm", "dual", "primal"}]
      /\ attempt \in {"none", "warm", "dual", "primal"}
  BY DEF TypeOK
<1>1. CASE SkipWarmStart
  BY <1>0, <1>1 DEF SkipWarmStart, ColdStart
<1>2. CASE SeatBasisRefused
  BY <1>0, <1>2 DEF SeatBasisRefused, ColdStart
<1>3. CASE SeatBasis
  BY <1>0, <1>3 DEF SeatBasis, ColdStart
<1>4. CASE SetupDualFeasibleStart
  BY <1>0, <1>4 DEF SetupDualFeasibleStart
<1>5. CASE SetupPhase1
  BY <1>0, <1>5 DEF SetupPhase1
<1>6. CASE LoopLimit
  BY <1>0, <1>6 DEF LoopLimit, FallBack, Conclude, NextAttempt, ColdStart, Loops
<1>7. CASE PeriodicRefactorize
  BY <1>0, <1>7 DEF PeriodicRefactorize, Caught, Loops
<1>8. CASE DualConcludes
  BY <1>0, <1>8 DEF DualConcludes, Pass, Conclude
<1>9. CASE DualRederives
  BY <1>0, <1>9 DEF DualRederives, Pass, Caught
<1>10. CASE DualPivots
  BY <1>0, <1>10 DEF DualPivots, Pass, Pivot, Caught
<1>11. CASE BoundFlips
  BY <1>0, <1>11 DEF BoundFlips, Pass
<1>12. CASE PrimalPivots
  BY <1>0, <1>12 DEF PrimalPivots, Pass, Pivot, Caught
<1>13. CASE PrimalUnbounded
  BY <1>0, <1>13 DEF PrimalUnbounded, Pass, Conclude
<1>14. CASE PrimalLosesPivot
  BY <1>0, <1>14 DEF PrimalLosesPivot, Pass, Conclude
<1>15. CASE Phase1Infeasible
  BY <1>0, <1>15 DEF Phase1Infeasible, Pass, Conclude
<1>16. CASE EnterPhase2
  BY <1>0, <1>16 DEF EnterPhase2, Pass
<1>17. CASE Phase2Optimal
  BY <1>0, <1>17 DEF Phase2Optimal, Pass, Conclude
<1>18. CASE FinalizeUnverified
  BY <1>0, <1>18 DEF FinalizeUnverified, Report, NextAttempt, ColdStart
<1>19. CASE FinalizeOptimal
  BY <1>0, <1>19 DEF FinalizeOptimal, Report, NextAttempt, ColdStart
<1>20. CASE Returned \/ UNCHANGED vars
  BY <1>20 DEF Returned, vars
<1> QED
  BY <1>1, <1>2, <1>3, <1>4, <1>5, <1>6, <1>7, <1>8, <1>9, <1>10, <1>11, <1>12, <1>13, <1>14, <1>15, <1>16, <1>17, <1>18, <1>19, <1>20 DEF Next

(* A pivot keeps the bookkeeping, and the factorization follows it unless  *)
(* its refused update ends in an exception.                                *)
LEMMA PivotSound ==
  ASSUME IInv, pc \in Loops, etas < RefactorizeEvery, Pivot
  PROVE  /\ seat' \in Seats /\ Consistent(seat') /\ AtBounds(seat', artOpen)
         /\ factored' \in FactoredType /\ etas' \in 0 .. RefactorizeEvery
         /\ derived' \in BOOLEAN /\ repairRefused' = repairRefused
         /\ \/ /\ UNCHANGED <<pc, verdict, result>> /\ iterations' = iterations + 1
               /\ factored' = Columns(seat'.basis, artSign)
            \/ Caught /\ UNCHANGED iterations
<1> USE InvariantTypes DEF Solving
<1>1. PICK v \in Vars, r \in Rows, at \in {"AT_LOWER", "AT_UPPER"} :
        /\ seat.status[v] # "BASIC" /\ Leaves(r, at)
        /\ \/ /\ seat' = Exchanged(v, r, at)
              /\ factored' = [factored EXCEPT ![r] = Column(v, artSign)]
              /\ etas' = etas + 1
              /\ derived' = FALSE
              /\ iterations' = iterations + 1
              /\ UNCHANGED <<pc, verdict, result, repairRefused>>
           \/ \E o \in Refactorize(Exchanged(v, r, at), artSign) :
                /\ Rederived(o)
                /\ IF o.thrown = "no"
                   THEN iterations' = iterations + 1 /\ UNCHANGED <<pc, verdict, result>>
                   ELSE Caught /\ UNCHANGED iterations
  BY DEF Pivot, Enterable
<1>2. Exchanged(v, r, at) \in Seats /\ Consistent(Exchanged(v, r, at))
  BY <1>1, ExchangeConsistent
<1>3. AtBounds(Exchanged(v, r, at), artOpen)
  <2>1. seat.basis[r] \in Vars /\ seat.status \in [Vars -> VarStatus]
    BY DEF Seats
  <2> QED BY <1>1, <2>1 DEF AtBounds, Exchanged, Leaves
<1>4. CASE /\ seat' = Exchanged(v, r, at)
           /\ factored' = [factored EXCEPT ![r] = Column(v, artSign)]
           /\ etas' = etas + 1
           /\ derived' = FALSE
           /\ iterations' = iterations + 1
           /\ UNCHANGED <<pc, verdict, result, repairRefused>>
  <2>1. seat.basis \in [Rows -> Vars] /\ factored = Columns(seat.basis, artSign)
    BY DEF Seats, IInv, BookHolds
  <2>2. factored' = Columns(seat'.basis, artSign)
    BY <1>4, <2>1 DEF Columns, Exchanged
  <2>3. seat'.basis \in [Rows -> Vars]
    BY <1>2, <1>4 DEF Seats
  <2>4. factored' \in FactoredType
    BY <2>2, <2>3, ColumnsTyped DEF FactoredType
  <2>5. etas' \in 0 .. RefactorizeEvery
    BY <1>4, LimitsAssumption DEF IInv, TypeOK
  <2> QED BY <1>2, <1>3, <1>4, <2>2, <2>4, <2>5
<1>5. ASSUME NEW o \in Refactorize(Exchanged(v, r, at), artSign), Rederived(o),
             IF o.thrown = "no"
             THEN iterations' = iterations + 1 /\ UNCHANGED <<pc, verdict, result>>
             ELSE Caught /\ UNCHANGED iterations
      PROVE  /\ seat' \in Seats /\ Consistent(seat') /\ AtBounds(seat', artOpen)
             /\ factored' \in FactoredType /\ etas' \in 0 .. RefactorizeEvery
             /\ derived' \in BOOLEAN /\ repairRefused' = repairRefused
             /\ \/ /\ UNCHANGED <<pc, verdict, result>> /\ iterations' = iterations + 1
                   /\ factored' = Columns(seat'.basis, artSign)
                \/ Caught /\ UNCHANGED iterations
  <2>1. 0 \in 0 .. RefactorizeEvery
    BY LimitsAssumption
  <2> QED BY <1>2, <1>3, <1>5, <2>1, RederivedSound
<1> QED BY <1>1, <1>4, <1>5

(* The bookkeeping after a step.                                           *)
BookKept ==
  /\ seat' \in Seats /\ artOpen' \subseteq Rows /\ artSign' \in [Rows -> Sign]
  /\ factored' \in FactoredType /\ etas' \in 0 .. RefactorizeEvery
  /\ derived' \in BOOLEAN /\ repairRefused' = FALSE
  /\ Settled' => Consistent(seat') /\ AtBounds(seat', artOpen')
  /\ Solving' => factored' = Columns(seat'.basis, artSign')

LEMMA BookKeptStep == IInv /\ [Next]_vars => BookKept
<1> SUFFICES ASSUME IInv, [Next]_vars PROVE BookKept
  OBVIOUS
<1>0. /\ seat \in Seats /\ shape \in [Named -> Shape] /\ artSign \in [Rows -> Sign]
      /\ artOpen \subseteq Rows /\ repairRefused = FALSE
      /\ factored \in FactoredType /\ etas \in 0 .. RefactorizeEvery /\ derived \in BOOLEAN
      /\ Settled => Consistent(seat) /\ AtBounds(seat, artOpen)
      /\ Solving => factored = Columns(seat.basis, artSign)
      /\ 0 \in 0 .. RefactorizeEvery
  BY InvariantTypes, LimitsAssumption DEF IInv, TypeOK, FactoredType, BookHolds
\* The bookkeeping is not touched, and what was settled before is now.
<1>1. ASSUME UNCHANGED <<seat, artOpen, artSign, factored, etas, derived, repairRefused>>,
             Settled' => Settled, Solving' => Solving
      PROVE  BookKept
  BY <1>0, <1>1 DEF BookKept
\* The basis is refactorized where it is.
<1>2. ASSUME Solving, UNCHANGED <<artOpen, artSign>>,
             NEW o \in Refactorize(seat, artSign), Rederived(o),
             o.thrown # "no" => ~ Solving'
      PROVE  BookKept
  BY <1>0, <1>2, RederivedSound, InvariantTypes DEF BookKept
<1>3. CASE SkipWarmStart
  BY <1>1, <1>3 DEF SkipWarmStart, ColdStart, Settled, Solving, Loops, bounds
<1>4. CASE SeatBasisRefused
  BY <1>0, <1>4, SeatedSound DEF SeatBasisRefused, BookKept, ColdStart, Settled, Solving, Loops
<1>5. CASE SeatBasis
  <2>1. PICK p \in ParentBases :
          /\ \A v \in Vars : ~ CannotRest(p, v)
          /\ artSign' = p.artSign /\ artOpen' = {}
          /\ \E o \in Refactorize(Seated(p), p.artSign) :
               /\ Rederived(o)
               /\ IF o.thrown = "no" THEN pc' = "dual" /\ attempt' = "warm"
                                     ELSE pc' = ColdStart /\ UNCHANGED attempt
    BY <1>5 DEF SeatBasis
  <2>2. /\ Seated(p) \in Seats /\ p.artSign \in [Rows -> Sign]
        /\ Consistent(Seated(p)) /\ AtBounds(Seated(p), {})
    BY <2>1, <1>0, SeatedSound
  <2> QED BY <2>1, <2>2, <1>0, RederivedSound DEF BookKept, ColdStart, Solving, Loops
<1>6. CASE SetupDualFeasibleStart
  <2>1. PICK c \in CostSigns :
          IF \E v \in Structs : NoDualRest(c, v)
          THEN /\ seat' = AllSlack(c)
               /\ pc' = "primal"
               /\ UNCHANGED <<attempt, factored, etas, derived, repairRefused, iterations,
                              valuesFresh>>
          ELSE \E o \in Refactorize(AllSlack(c), PlusSigns) :
                 /\ Rederived(o)
                 /\ pc' = "dual" /\ attempt' = "dual"
                 /\ iterations' = 0 /\ valuesFresh' = FALSE
    BY <1>6 DEF SetupDualFeasibleStart
  <2>2. artOpen' = {} /\ artSign' = PlusSigns /\ PlusSigns \in [Rows -> Sign]
    BY <1>6 DEF SetupDualFeasibleStart, PlusSigns, Sign
  <2>3. AllSlack(c) \in Seats
    BY <1>0, AllSlackSound
  <2>4. CASE \E v \in Structs : NoDualRest(c, v)
    BY <2>1, <2>2, <2>3, <2>4, <1>0 DEF BookKept, Settled, Solving, Loops
  <2>5. CASE ~ \E v \in Structs : NoDualRest(c, v)
    <3>1. Consistent(AllSlack(c)) /\ AtBounds(AllSlack(c), {})
      BY <1>0, <2>5, AllSlackSound
    <3>2. \A r \in Rows : InBasis(SlackOf(r), AllSlack(c).basis)
      BY DEF InBasis, AllSlack
    <3>3. PICK o \in Refactorize(AllSlack(c), PlusSigns) : Rederived(o)
      BY <2>1, <2>5
    <3>4. o.thrown = "no"
      BY <1>0, <2>2, <2>3, <3>1, <3>2, NothingToRepair
    <3> QED BY <1>0, <2>2, <2>3, <3>1, <3>3, <3>4, RederivedSound DEF BookKept
  <2> QED BY <2>4, <2>5
<1>7. CASE SetupPhase1
  <2>0. PICK C \in CrashRows : \E park \in Parkings(C) :
          /\ artOpen' = Rows \ C
          /\ artSign' = ResidualSigns(C, park)
          /\ \E o \in Refactorize(Crash(C, park), ResidualSigns(C, park)) : Rederived(o)
    BY <1>7 DEF SetupPhase1
  <2>1. PICK park \in Parkings(C) :
          /\ artOpen' = Rows \ C
          /\ artSign' = ResidualSigns(C, park)
          /\ \E o \in Refactorize(Crash(C, park), ResidualSigns(C, park)) : Rederived(o)
    BY <2>0
  <2>2. /\ Crash(C, park) \in Seats /\ Consistent(Crash(C, park))
        /\ AtBounds(Crash(C, park), Rows \ C)
        /\ ResidualSigns(C, park) \in [Rows -> Sign]
    BY <1>0, CrashSound
  <2>3. \A r \in Rows : \/ InBasis(SlackOf(r), Crash(C, park).basis)
                        \/ InBasis(ArtOf(r), Crash(C, park).basis)
    BY DEF InBasis, Crash
  <2>4. PICK o \in Refactorize(Crash(C, park), ResidualSigns(C, park)) : Rederived(o)
    BY <2>1
  <2>5. o.thrown = "no"
    BY <1>0, <2>2, <2>3, NothingToRepair
  <2> QED BY <1>0, <2>1, <2>2, <2>4, <2>5, RederivedSound DEF BookKept
<1>8. CASE LoopLimit
  BY <1>1, <1>8 DEF LoopLimit, FallBack, Conclude, Settled, Solving, Loops, bounds
<1>9. CASE PeriodicRefactorize
  BY <1>2, <1>9 DEF PeriodicRefactorize, Caught, Solving, Loops, bounds
<1>10. CASE DualConcludes
  BY <1>1, <1>10 DEF DualConcludes, Pass, Conclude, Settled, Solving, Loops, bounds
<1>11. CASE DualRederives
  BY <1>2, <1>11 DEF DualRederives, Pass, Caught, Solving, Loops, bounds
<1>12. CASE DualPivots \/ PrimalPivots
  <2>1. pc \in Loops /\ etas < RefactorizeEvery /\ Pivot /\ UNCHANGED <<artOpen, artSign>>
    BY <1>12 DEF DualPivots, PrimalPivots, Pass, Loops, bounds
  <2> QED BY <2>1, <1>0, PivotSound DEF BookKept, Caught, Solving, Loops
<1>13. CASE BoundFlips
  <2>1. PICK v \in Named :
          /\ Enterable(v) /\ shape[v] = "boxed"
          /\ seat' = [seat EXCEPT !.status[v] = IF @ = "AT_LOWER" THEN "AT_UPPER"
                                                                  ELSE "AT_LOWER"]
    BY <1>13 DEF BoundFlips
  <2>2. /\ UNCHANGED <<pc, artOpen, artSign, factored, etas, repairRefused>>
        /\ derived' = FALSE /\ Settled
    BY <1>13 DEF BoundFlips, Pass, Settled, bounds
  <2>3. /\ seat.status \in [Vars -> VarStatus] /\ seat.status[v] # "BASIC" /\ v \in Vars
        /\ HasLower(v) /\ HasUpper(v, artOpen)
    BY <1>0, <2>1, ColumnRanges DEF Seats, Enterable, HasLower, HasUpper
  <2>4. /\ seat' \in Seats /\ seat'.basis = seat.basis /\ seat'.rowOf = seat.rowOf
        /\ \A w \in Vars : w # v => seat'.status[w] = seat.status[w]
        /\ seat'.status[v] \in {"AT_LOWER", "AT_UPPER"}
    BY <1>0, <2>1, <2>3 DEF Seats, VarStatus
  <2>5. Consistent(seat')
    <3>1. Logicals \subseteq Vars
      BY SizesAssumption DEF Logicals, Vars
    <3> QED BY <1>0, <2>2, <2>3, <2>4, <3>1 DEF Consistent
  <2>6. AtBounds(seat', artOpen)
    BY <1>0, <2>2, <2>3, <2>4 DEF AtBounds
  <2> QED BY <1>0, <2>2, <2>4, <2>5, <2>6 DEF BookKept, Solving, Settled
<1>14. CASE PrimalUnbounded \/ PrimalLosesPivot \/ Phase1Infeasible \/ Phase2Optimal
  BY <1>1, <1>14
  DEF PrimalUnbounded, PrimalLosesPivot, Phase1Infeasible, Phase2Optimal, Pass, Conclude,
      Settled, Solving, Loops, bounds
<1>15. CASE EnterPhase2
  <2>1. /\ Settled /\ Solving /\ artOpen' = {} /\ derived' \in BOOLEAN
        /\ UNCHANGED <<seat, artSign, factored, etas, repairRefused>>
    BY <1>0, <1>15 DEF EnterPhase2, Pass, Settled, Solving, Loops
  <2>2. AtBounds(seat, {})
    BY <1>0, <2>1 DEF AtBounds, HasUpper
  <2> QED BY <1>0, <2>1, <2>2 DEF BookKept
<1>16. CASE FinalizeUnverified
  BY <1>1, <1>16
  DEF FinalizeUnverified, Report, NextAttempt, ColdStart, Settled, Solving, Loops, bounds
<1>17. CASE FinalizeOptimal
  BY <1>2, <1>17
  DEF FinalizeOptimal, Report, NextAttempt, ColdStart, Solving, Loops, bounds
<1>18. CASE Returned \/ UNCHANGED vars
  BY <1>1, <1>18 DEF Returned, vars, Settled, Solving
<1> QED
  BY <1>3, <1>4, <1>5, <1>6, <1>7, <1>8, <1>9, <1>10, <1>11, <1>12, <1>13, <1>14, <1>15,
     <1>16, <1>17, <1>18
  DEF Next

(* What the primal loop prices by is what the host has.                    *)
LEMMA DeviceStep == IInv /\ [Next]_vars => DeviceCurrentInPrimal'
<1> SUFFICES ASSUME IInv, [Next]_vars, pc' \in {"phase1", "phase2"}
             PROVE  DeviceCurrent'
  BY DEF DeviceCurrentInPrimal
<1> USE DEF DeviceCurrent
<1>1. CASE SetupPhase1
  BY <1>1 DEF SetupPhase1
<1>2. CASE EnterPhase2
  BY <1>2, InvariantTypes DEF EnterPhase2
<1>3. CASE ~ SetupPhase1 /\ ~ EnterPhase2
  <2>1. pc \in {"phase1", "phase2"} /\ UNCHANGED <<artOpen, artSign, cost, device>>
    <3> USE <1>3 DEF bounds
    <3>1. CASE SkipWarmStart \/ SeatBasisRefused \/ SeatBasis \/ SetupDualFeasibleStart
      BY <3>1 DEF SkipWarmStart, SeatBasisRefused, SeatBasis, SetupDualFeasibleStart, ColdStart
    <3>2. CASE LoopLimit \/ PeriodicRefactorize
      BY <3>2 DEF LoopLimit, PeriodicRefactorize, FallBack, Conclude, Caught, NextAttempt,
                  ColdStart, Loops
    <3>3. CASE DualConcludes \/ DualRederives \/ DualPivots
      BY <3>3 DEF DualConcludes, DualRederives, DualPivots, Conclude, Caught, Pass, Pivot
    <3>4. CASE BoundFlips \/ PrimalPivots
      BY <3>4 DEF BoundFlips, PrimalPivots, Pass
    <3>5. CASE PrimalUnbounded \/ PrimalLosesPivot \/ Phase1Infeasible \/ Phase2Optimal
      BY <3>5 DEF PrimalUnbounded, PrimalLosesPivot, Phase1Infeasible, Phase2Optimal, Conclude
    <3>6. CASE FinalizeUnverified \/ FinalizeOptimal
      BY <3>6 DEF FinalizeUnverified, FinalizeOptimal, Report, NextAttempt, ColdStart
    <3>7. CASE Returned \/ UNCHANGED vars
      BY <3>7 DEF Returned, vars
    <3> QED BY <3>1, <3>2, <3>3, <3>4, <3>5, <3>6, <3>7 DEF Next
  <2> QED BY <2>1 DEF IInv, BookHolds
<1> QED BY <1>1, <1>2, <1>3

(* The bookkeeping part of the invariant is inductive.                     *)
LEMMA BookStep == IInv /\ [Next]_vars => BookHolds'
<1> SUFFICES ASSUME IInv, [Next]_vars PROVE BookHolds'
  OBVIOUS
<1>1. shape' = shape
  BY DEF Next, SkipWarmStart, SeatBasisRefused, SeatBasis, SetupDualFeasibleStart, SetupPhase1,
         LoopLimit, PeriodicRefactorize, DualConcludes, DualRederives, DualPivots, BoundFlips,
         PrimalPivots, PrimalUnbounded, PrimalLosesPivot, Phase1Infeasible, EnterPhase2,
         Phase2Optimal, FinalizeUnverified, FinalizeOptimal, Returned, vars, problem
<1>2. BookKept
  BY BookKeptStep
<1>3. AtBounds(seat, artOpen)' <=> AtBounds(seat', artOpen')
  BY <1>1 DEF AtBounds, HasLower, HasUpper, IsFree
<1>4. Consistent(seat)' <=> Consistent(seat')
  OBVIOUS
<1>5. DeviceCurrentInPrimal'
  BY DeviceStep
<1>6. (Solving => factored = Columns(seat.basis, artSign))'
  BY <1>2 DEF BookKept, Columns, Column
<1> QED BY <1>2, <1>3, <1>4, <1>5, <1>6 DEF BookHolds, BookKept, DeviceCurrentInPrimal

(* What a conclusion is drawn from.                                        *)
LEMMA ValuesStep == IInv /\ [Next]_vars => ValuesHold'
<1> SUFFICES ASSUME IInv, [Next]_vars PROVE ValuesHold'
  OBVIOUS
<1> USE DEF ValuesHold, DualConcludesOnFreshValues, OptimalIsVerified
<1>0. /\ ValuesHold
      /\ pc = "dual" => attempt \in {"warm", "dual"}
      /\ pc \in {"phase1", "phase2"} => attempt = "primal"
      /\ result \in [status : LpStatus, usedDual : BOOLEAN, usedWarm : BOOLEAN,
                     warmAttempted : BOOLEAN, x : {"none", "warm", "dual", "primal"}]
  BY DEF IInv, PathHolds, TypeOK
<1>1. CASE SkipWarmStart
  BY <1>0, <1>1 DEF SkipWarmStart, ColdStart, bounds
<1>2. CASE SeatBasisRefused
  BY <1>0, <1>2 DEF SeatBasisRefused, ColdStart, bounds
<1>3. CASE SeatBasis
  BY <1>0, <1>3 DEF SeatBasis, ColdStart, Rederived
<1>4. CASE SetupDualFeasibleStart
  BY <1>0, <1>4 DEF SetupDualFeasibleStart, Rederived
<1>5. CASE SetupPhase1
  BY <1>0, <1>5 DEF SetupPhase1
<1>6. CASE LoopLimit
  BY <1>0, <1>6 DEF LoopLimit, FallBack, Conclude, NextAttempt, ColdStart, Loops, bounds
<1>7. CASE PeriodicRefactorize
  BY <1>0, <1>7 DEF PeriodicRefactorize, Caught, Loops, Rederived, bounds
<1>8. CASE DualConcludes
  BY <1>0, <1>8 DEF DualConcludes, Pass, Conclude, bounds
<1>9. CASE DualRederives
  BY <1>0, <1>9 DEF DualRederives, Pass, Caught, Rederived, bounds
<1>10. CASE DualPivots
  BY <1>0, <1>10 DEF DualPivots, Pass, Pivot, Caught, bounds
<1>11. CASE BoundFlips
  BY <1>0, <1>11 DEF BoundFlips, Pass, bounds
<1>12. CASE PrimalPivots
  BY <1>0, <1>12 DEF PrimalPivots, Pass, Pivot, Caught, bounds
<1>13. CASE PrimalUnbounded
  BY <1>0, <1>13 DEF PrimalUnbounded, Pass, Conclude, bounds
<1>14. CASE PrimalLosesPivot
  BY <1>0, <1>14 DEF PrimalLosesPivot, Pass, Conclude, bounds
<1>15. CASE Phase1Infeasible
  BY <1>0, <1>15 DEF Phase1Infeasible, Pass, Conclude, bounds
<1>16. CASE EnterPhase2
  BY <1>0, <1>16 DEF EnterPhase2, Pass
<1>17. CASE Phase2Optimal
  BY <1>0, <1>17 DEF Phase2Optimal, Pass, Conclude, bounds
<1>18. CASE FinalizeUnverified
  BY <1>0, <1>18 DEF FinalizeUnverified, Report, NextAttempt, ColdStart, bounds
<1>19. CASE FinalizeOptimal
  BY <1>0, <1>19 DEF FinalizeOptimal, Report, Rederived, NextAttempt, ColdStart, bounds
<1>20. CASE Returned \/ UNCHANGED vars
  BY <1>0, <1>20 DEF Returned, vars
<1> QED
  BY <1>1, <1>2, <1>3, <1>4, <1>5, <1>6, <1>7, <1>8, <1>9, <1>10, <1>11, <1>12, <1>13, <1>14, <1>15, <1>16, <1>17, <1>18, <1>19, <1>20 DEF Next

(* What TypeOK says of the variables a refactorization does not write.     *)
ControlOK ==
  /\ pc \in Labels
  /\ attempt \in {"none", "warm", "dual", "primal"}
  /\ shape \in BoundShapes /\ algorithm \in Algorithms
  /\ cost \in {"none", "phase1", "phase2"}
  /\ valuesFresh \in BOOLEAN /\ expired \in BOOLEAN
  /\ iterations \in 0 .. MaxIterations
  /\ verdict \in LpStatus
  /\ result \in [status : LpStatus, usedDual : BOOLEAN, usedWarm : BOOLEAN,
                 warmAttempted : BOOLEAN, x : {"none", "warm", "dual", "primal"}]

(* Reporting writes a status, an origin of x and a label.                  *)
LEMMA ReportTyped ==
  ASSUME ControlOK, NEW status \in LpStatus, NEW x \in {"none", "warm", "dual", "primal"},
         Report(status, x)
  PROVE  /\ pc' \in {"cold", "primal", "done"}
         /\ result' \in [status : LpStatus, usedDual : BOOLEAN, usedWarm : BOOLEAN,
                        warmAttempted : BOOLEAN, x : {"none", "warm", "dual", "primal"}]
<1>1. NextAttempt \in {"cold", "primal"}
  BY DEF NextAttempt, ColdStart
<1>2. CASE status = "NUMERICAL_FAILURE" /\ attempt # "primal"
  BY <1>1, <1>2 DEF Report, ControlOK
<1>3. CASE ~ (status = "NUMERICAL_FAILURE" /\ attempt # "primal")
  BY <1>3 DEF Report, ControlOK
<1> QED BY <1>2, <1>3

(* What a pivot does to the control variables: nothing, one more            *)
(* iteration, or the report of a failed refactorization.                   *)
LEMMA PivotControl ==
  Pivot => /\ pc' \in {pc, "done"} /\ UNCHANGED verdict
           /\ iterations' \in {iterations, iterations + 1}
           /\ result' \in {result, [result EXCEPT !.status = "NUMERICAL_FAILURE"]}
  BY DEF Pivot, Caught

LEMMA ControlStep == IInv /\ [Next]_vars => ControlOK'
<1> SUFFICES ASSUME IInv, [Next]_vars PROVE ControlOK'
  OBVIOUS
<1> USE DEF ControlOK, Labels, LpStatus
<1>0. /\ ControlOK
      /\ 0 \in 0 .. MaxIterations
      /\ iterations < MaxIterations => iterations + 1 \in 0 .. MaxIterations
      /\ pc \in {"phase1", "phase2"} => attempt = "primal"
  BY LimitsAssumption DEF IInv, TypeOK, PathHolds
<1>21. ColdStart \in {"cold", "primal"} /\ NextAttempt \in {"cold", "primal"}
  BY DEF ColdStart, NextAttempt
<1>1. CASE SkipWarmStart
  BY <1>0, <1>21, <1>1 DEF SkipWarmStart, problem, bounds
<1>2. CASE SeatBasisRefused
  BY <1>0, <1>21, <1>2 DEF SeatBasisRefused, problem
<1>3. CASE SeatBasis
  <2>1. /\ result' = [result EXCEPT !.warmAttempted = TRUE]
        /\ cost' = "phase2" /\ UNCHANGED <<problem, valuesFresh, iterations, expired, verdict>>
        /\ pc' \in {"dual", ColdStart} /\ attempt' \in {"warm", attempt}
    BY <1>3 DEF SeatBasis
  <2>2. result' \in [status : LpStatus, usedDual : BOOLEAN, usedWarm : BOOLEAN,
                     warmAttempted : BOOLEAN, x : {"none", "warm", "dual", "primal"}]
    BY <1>0, <2>1
  <2>3. pc' \in Labels /\ attempt' \in {"none", "warm", "dual", "primal"}
    BY <1>0, <1>21, <2>1
  <2> QED BY <1>0, <2>1, <2>2, <2>3 DEF problem
<1>4. CASE SetupDualFeasibleStart
  <2>1. /\ cost' = "phase2" /\ UNCHANGED <<shape, algorithm, expired, verdict, result>>
        /\ pc' \in {"dual", "primal"} /\ attempt' \in {"dual", attempt}
        /\ iterations' \in {0, iterations} /\ valuesFresh' \in {FALSE, valuesFresh}
    BY <1>4 DEF SetupDualFeasibleStart, problem
  <2>2. valuesFresh' \in BOOLEAN
    BY <1>0, <2>1
  <2>3. pc' \in Labels /\ attempt' \in {"none", "warm", "dual", "primal"}
    BY <1>0, <2>1
  <2>4. iterations' \in 0 .. MaxIterations
    BY <1>0, <2>1
  <2> QED BY <1>0, <2>1, <2>2, <2>3, <2>4
<1>5. CASE SetupPhase1
  BY <1>0, <1>21, <1>5 DEF SetupPhase1, problem
<1>6. CASE LoopLimit
  BY <1>0, <1>21, <1>6 DEF LoopLimit, problem, FallBack, Conclude, Loops, bounds
<1>7. CASE PeriodicRefactorize
  BY <1>0, <1>21, <1>7 DEF PeriodicRefactorize, problem, Caught, Loops, bounds
<1>8. CASE DualConcludes
  BY <1>0, <1>21, <1>8 DEF DualConcludes, problem, Pass, Conclude, bounds
<1>9. CASE DualRederives
  BY <1>0, <1>21, <1>9 DEF DualRederives, problem, Pass, Caught, bounds
<1>10. CASE DualPivots
  <2>1. ControlOK /\ iterations' \in 0 .. MaxIterations
    BY <1>0, <1>10, PivotControl DEF DualPivots, Pass, InTime
  <2>2. result' \in [status : LpStatus, usedDual : BOOLEAN, usedWarm : BOOLEAN,
                     warmAttempted : BOOLEAN, x : {"none", "warm", "dual", "primal"}]
    BY <1>0, <1>10, PivotControl DEF DualPivots
  <2>3. pc' \in Labels /\ verdict' = verdict /\ UNCHANGED <<attempt, problem, cost, expired>>
    BY <1>0, <1>10, PivotControl DEF DualPivots, bounds
  <2>4. valuesFresh' \in BOOLEAN
    BY <1>0, <1>10 DEF DualPivots
  <2> HIDE DEF Labels, LpStatus
  <2> QED BY <2>1, <2>2, <2>3, <2>4 DEF problem
<1>11. CASE BoundFlips
  BY <1>0, <1>21, <1>11 DEF BoundFlips, problem, Pass, InTime, bounds
<1>12. CASE PrimalPivots
  <2>1. ControlOK /\ iterations' \in 0 .. MaxIterations
    BY <1>0, <1>12, PivotControl DEF PrimalPivots, Pass, InTime
  <2>2. result' \in [status : LpStatus, usedDual : BOOLEAN, usedWarm : BOOLEAN,
                     warmAttempted : BOOLEAN, x : {"none", "warm", "dual", "primal"}]
    BY <1>0, <1>12, PivotControl DEF PrimalPivots
  <2>3. pc' \in Labels /\ verdict' = verdict /\ UNCHANGED <<attempt, problem, cost, expired>>
    BY <1>0, <1>12, PivotControl DEF PrimalPivots, bounds
  <2>4. valuesFresh' \in BOOLEAN
    BY <1>0, <1>12 DEF PrimalPivots
  <2> HIDE DEF Labels, LpStatus
  <2> QED BY <2>1, <2>2, <2>3, <2>4 DEF problem
<1>13. CASE PrimalUnbounded
  BY <1>0, <1>21, <1>13 DEF PrimalUnbounded, problem, Pass, Conclude, bounds
<1>14. CASE PrimalLosesPivot
  BY <1>0, <1>21, <1>14 DEF PrimalLosesPivot, problem, Pass, Conclude, bounds
<1>15. CASE Phase1Infeasible
  BY <1>0, <1>21, <1>15 DEF Phase1Infeasible, problem, Pass, Conclude, bounds
<1>16. CASE EnterPhase2
  BY <1>0, <1>21, <1>16 DEF EnterPhase2, problem, Pass
<1>17. CASE Phase2Optimal
  BY <1>0, <1>21, <1>17 DEF Phase2Optimal, problem, Pass, Conclude, bounds
<1>18. CASE FinalizeUnverified
  BY <1>0, <1>18, ReportTyped DEF FinalizeUnverified, problem, bounds
<1>19. CASE FinalizeOptimal
  BY <1>0, <1>19, ReportTyped DEF FinalizeOptimal, problem, bounds
<1>20. CASE Returned \/ UNCHANGED vars
  BY <1>0, <1>20 DEF Returned, vars, problem, bounds
<1> QED
  BY <1>1, <1>2, <1>3, <1>4, <1>5, <1>6, <1>7, <1>8, <1>9, <1>10, <1>11, <1>12, <1>13, <1>14, <1>15, <1>16, <1>17, <1>18, <1>19, <1>20 DEF Next

(* The device's copy stays typed: it is only ever written from the host's. *)
LEMMA DeviceTyped ==
  IInv /\ [Next]_vars =>
    device' \in [cost : {"none", "phase1", "phase2"}, artOpen : SUBSET Rows,
                 artSign : [Rows -> Sign]]
<1> SUFFICES ASSUME IInv, [Next]_vars, device' # device
             PROVE  device' \in [cost : {"none", "phase1", "phase2"}, artOpen : SUBSET Rows,
                                 artSign : [Rows -> Sign]]
  BY DEF IInv, TypeOK
<1>1. artSign' \in [Rows -> Sign] /\ artOpen \subseteq Rows /\ artSign \in [Rows -> Sign]
      /\ artOpen' \subseteq Rows
  BY BookKeptStep, InvariantTypes DEF BookKept
<1>2. CASE SeatBasis
  BY <1>1, <1>2 DEF SeatBasis
<1>3. CASE SetupDualFeasibleStart
  BY <1>1, <1>3 DEF SetupDualFeasibleStart
<1>4. CASE SetupPhase1
  BY <1>1, <1>4 DEF SetupPhase1
<1>5. CASE EnterPhase2
  BY <1>1, <1>5 DEF EnterPhase2
<1> QED
  BY <1>2, <1>3, <1>4, <1>5
  DEF Next, SkipWarmStart, SeatBasisRefused, LoopLimit, PeriodicRefactorize, DualConcludes,
      DualRederives, DualPivots, BoundFlips, PrimalPivots, PrimalUnbounded, PrimalLosesPivot,
      Phase1Infeasible, Phase2Optimal, FinalizeUnverified, FinalizeOptimal, Returned, vars, bounds

(* The invariant is inductive.                                             *)
LEMMA InvariantStep == IInv /\ [Next]_vars => IInv'
<1> SUFFICES ASSUME IInv, [Next]_vars PROVE IInv'
  OBVIOUS
<1>1. TypeOK'
  <2>1. BookKept
    BY BookKeptStep
  <2>2. repairRefused' \in BOOLEAN
    BY <2>1 DEF BookKept
  <2> QED BY <2>1, <2>2, ControlStep, DeviceTyped DEF TypeOK, ControlOK, BookKept, FactoredType
<1> QED BY <1>1, BookStep, PathStep, ValuesStep DEF IInv

-----------------------------------------------------------------------------
(* The invariant of a solve: types, bookkeeping, path and values.          *)
THEOREM InvariantHolds == Spec => []IInv
<1>1. Init => IInv
  BY InvariantInit
<1>2. IInv /\ [Next]_vars => IInv'
  BY InvariantStep
<1> QED BY <1>1, <1>2, PTL DEF Spec

(* Every variable of a solve keeps its type; the counters keep their caps. *)
THEOREM TypeCorrect == Spec => []TypeOK
<1>1. IInv => TypeOK
  BY DEF IInv
<1> QED BY <1>1, InvariantHolds, PTL

(* Whatever a refused, failed or abandoned attempt left half-written, the  *)
(* basis, its statuses and its inverse map agree in every attempt that     *)
(* runs and in the one that answered.                                      *)
THEOREM BasisStaysConsistent == Spec => []BasisConsistent
<1>1. IInv => BasisConsistent
  BY DEF IInv, BookHolds, BasisConsistent
<1> QED BY <1>1, InvariantHolds, PTL

(* Every solve with the factorization is one with the present basis,       *)
(* across pivots, refused updates, repairs and changes of attempt.         *)
THEOREM FactorFollowsBasis == Spec => []FactorRepresentsBasis
<1>1. IInv => FactorRepresentsBasis
  BY DEF IInv, BookHolds, FactorRepresentsBasis
<1> QED BY <1>1, InvariantHolds, PTL

(* A repair finds the artificial it seats nonbasic, always: the exception  *)
(* for a logical marked basic already cannot be thrown.                    *)
THEOREM RepairsSucceed == Spec => []RepairNeverRefused
<1>1. IInv => RepairNeverRefused
  BY DEF IInv, BookHolds, RepairNeverRefused
<1> QED BY <1>1, InvariantHolds, PTL

(* Nonbasic columns rest on bounds they have, also after the artificials   *)
(* were frozen by one attempt and opened by the next.                      *)
THEOREM RestsAtBounds == Spec => []NonbasicAtABound
<1>1. IInv => NonbasicAtABound
  BY DEF IInv, BookHolds, NonbasicAtABound
<1> QED BY <1>1, InvariantHolds, PTL

(* The primal loop never prices by a stale device copy.                    *)
THEOREM DeviceFollowsHost == Spec => []DeviceCurrentInPrimal
<1>1. IInv => DeviceCurrentInPrimal
  BY DEF IInv, BookHolds, DeviceCurrentInPrimal
<1> QED BY <1>1, InvariantHolds, PTL

(* The dual path concludes nothing from values carried over a pivot.       *)
THEOREM DualConclusionsFresh == Spec => []DualConcludesOnFreshValues
<1>1. IInv => DualConcludesOnFreshValues
  BY DEF IInv, ValuesHold
<1> QED BY <1>1, InvariantHolds, PTL

(* An OPTIMAL answer was re-derived from its own basis, by the attempt     *)
(* that answers, under the real costs and with every artificial frozen.    *)
THEOREM OptimalAnswersVerified == Spec => []OptimalIsVerified
<1>1. IInv => OptimalIsVerified
  BY DEF IInv, ValuesHold
<1> QED BY <1>1, InvariantHolds, PTL

(* The flags of an answer name the attempt that gave it.                   *)
THEOREM FlagsAreRight == Spec => []FlagsNameThePath
<1>1. IInv => FlagsNameThePath
  BY DEF IInv, PathHolds
<1> QED BY <1>1, InvariantHolds, PTL

=============================================================================
