--------------------------- MODULE SlotAssignment ---------------------------
(***************************************************************************)
(* Which picture is shown in which slot of a video without a scene plan:   *)
(* orderAssetsForSlots and its variants, and the exact assignment that the *)
(* last of them computes (sceneAssignment.js).                             *)
(*                                                                         *)
(* The pictures are 1..n.  scores has a function for each slot, from the   *)
(* pictures that the ranker could score for it, to their scores; it is     *)
(* empty for a slot whose text cannot be ranked.                           *)
(***************************************************************************)
EXTENDS Integers, Sequences, FiniteSetsExt, SequencesExt

Lesser(a, b) == IF a < b THEN a ELSE b
Total(S, f(_)) == MapThenSumSet(f, S)

\* The first of the best, among the pictures of S that are scored.
Best(score, S) ==
  LET scored == DOMAIN score \cap S
      best == {j \in scored : \A k \in scored : score[j] >= score[k]}
  IN IF best = {} THEN 0 ELSE Min(best)

Remaining(n, order) == (1..n) \ ToSet(order)
WithTheRest(n, order) == order \o SetToSortSeq(Remaining(n, order), <)

-----------------------------------------------------------------------------
(* The picture that scores best of those left, slot by slot; the next in   *)
(* line if none of them is scored.                                         *)

Greedy(n, scores) ==
  LET Pick(order, i) ==
        LET left == Remaining(n, order)
            best == Best(scores[i], left)
        IN Append(order, IF best = 0 THEN Min(left) ELSE best)
  IN WithTheRest(n, FoldLeft(Pick, <<>>, [i \in 1..Lesser(n, Len(scores)) |-> i]))

\* Slots beyond the pictures are ranked too: not the picture just shown, nor one
\* shown often enough; if none is left, the pictures in turn.
GreedyWithReuse(n, scores) ==
  LET perm == Greedy(n, scores)
      often == (Len(scores) + n - 1) \div n
      uses(order, j) == Cardinality({k \in DOMAIN order : order[k] = j})
      turn(i) == perm[((i - 1) % n) + 1]
      Pick(order, i) ==
        LET best == Best(scores[i], {j \in 1..n : j # Last(order) /\ uses(order, j) < often})
        IN Append(order, IF best # 0 THEN best
                         ELSE IF turn(i) # Last(order) THEN turn(i) ELSE turn(i + 1))
  IN IF Len(scores) <= n THEN perm
     ELSE FoldLeft(Pick, perm, [k \in 1..Len(scores) - n |-> n + k])

-----------------------------------------------------------------------------
(* An exact assignment: rows to distinct columns with the greatest total   *)
(* (shortest augmenting paths with potentials, one row at a time).         *)

\* One column joins the tree of the search; it ends at a column without a row.
Grow(gain, cols, s) ==
  LET used == s.used \cup {s.at}
      row == s.row[s.at]
      free == cols \ used
      slack(j) == s.v[j] + s.u[row] + gain[row][j]
      cost == [j \in free |-> Lesser(s.cost[j], -slack(j))]
      delta == Min({cost[j] : j \in free})
      next == Min({j \in free : cost[j] = delta})
      raised == {s.row[j] : j \in used}
  IN [s EXCEPT !.used = used, !.at = next,
               !.way = [j \in cols |-> IF j \in free /\ -slack(j) < s.cost[j] THEN s.at ELSE @[j]],
               !.cost = [j \in cols |-> IF j \in free THEN cost[j] - delta ELSE @[j]],
               !.u = [i \in DOMAIN @ |-> IF i \in raised THEN @[i] + delta ELSE @[i]],
               !.v = [j \in DOMAIN @ |-> IF j \in used THEN @[j] - delta ELSE @[j]]]

\* The rows move along the path that was found: column 0 stands for the new row.
Augmented(s, cols) ==
  LET Back(p, _k) == IF p.at = 0 THEN p
                     ELSE [at |-> s.way[p.at], row |-> [p.row EXCEPT ![p.at] = p.row[s.way[p.at]]]]
  IN FoldLeft(Back, [at |-> s.at, row |-> s.row], [k \in 1..Cardinality(cols) + 1 |-> k]).row

MaximizeAssignment(gain, rows, n) ==
  LET cols == 1..n
      Infinity == 1 + 2 * Total((1..rows) \X cols, LAMBDA c : IF gain[c[1]][c[2]] < 0 THEN -gain[c[1]][c[2]]
                                                       ELSE gain[c[1]][c[2]])
      Match(m, i) ==
        LET start == [u |-> m.u, v |-> m.v, row |-> [m.row EXCEPT ![0] = i], at |-> 0, used |-> {},
                      way |-> [j \in cols |-> 0], cost |-> [j \in cols |-> Infinity]]
            Search(s, _k) == IF s.row[s.at] = 0 THEN s
                             ELSE CHOOSE t \in {Grow(gain, cols, s)} : TRUE
            found == FoldLeft(Search, start, [k \in 1..n |-> k])
        IN CHOOSE t \in {[u |-> f.u, v |-> f.v, row |-> Augmented(f, cols)] : f \in {found}} : TRUE
      matched == FoldLeft(Match, [u |-> [i \in 0..rows |-> 0], v |-> [j \in 0..n |-> 0],
                                  row |-> [j \in 0..n |-> 0]], [i \in 1..rows |-> i])
      of == {matched.row}
  IN CHOOSE assigned \in {[i \in 1..rows |-> CHOOSE j \in cols : row[j] = i] : row \in of} : TRUE

\* A picture that could not be scored counts as worse than any total of scores,
\* and a slot that is given one is taken as unscored.
GreatestTotal(n, scores) ==
  LET slots == Lesser(n, Len(scores))
      rated == SelectSeq([i \in 1..slots |-> i], LAMBDA i : DOMAIN scores[i] # {})
      size(x) == IF x < 0 THEN -x ELSE x
      span == Max({1} \cup UNION {{size(scores[i][j]) : j \in DOMAIN scores[i]} : i \in ToSet(rated)})
      penalty == -(span * (Len(rated) + 1) * 2 + 1)
      gain == [k \in DOMAIN rated |->
                 [j \in 1..n |-> IF j \in DOMAIN scores[rated[k]] THEN scores[rated[k]][j] ELSE penalty]]
      assigned == MaximizeAssignment(gain, Len(rated), n)
      given == {k \in DOMAIN rated : assigned[k] \in DOMAIN scores[rated[k]]}
      free == SetToSortSeq((1..n) \ {assigned[k] : k \in given}, <)
      chosen == {<<rated[k], assigned[k]>> : k \in given}
      open == SetToSortSeq((1..slots) \ {c[1] : c \in chosen}, <)
      shown(i) == IF \E c \in chosen : c[1] = i THEN (CHOOSE c \in chosen : c[1] = i)[2]
                  ELSE free[CHOOSE k \in DOMAIN open : open[k] = i]
  IN WithTheRest(n, [i \in 1..slots |-> shown(i)])
=============================================================================
