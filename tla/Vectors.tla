------------------------------ MODULE Vectors ------------------------------
(***************************************************************************)
(* Codebook entries as vectors, and what the training of a codebook        *)
(* computes of them: the weighted distance, the scan for the nearest       *)
(* entry, centroids and the scores of median cut.                          *)
(*                                                                         *)
(* A dimension is a number; the luma dimensions come before the chroma     *)
(* dimensions.  The code has four and two of them.  A metric is the pixel  *)
(* mode and the luma weight.  Slots of a book are counted from one.        *)
(***************************************************************************)
EXTENDS Integers, Sequences, FiniteSets, FiniteSetsExt

CONSTANTS
    LumaDims, ChromaDims, \* how many dimensions: 4 and 2
    LumaMax,              \* the largest u8: 255
    ChromaBound,          \* the i8 range is -ChromaBound .. ChromaBound - 1: 128
    Wide                  \* the entries from which on a scan exits early: 64

ASSUME VectorAssumption ==
    /\ {LumaDims, ChromaBound} \subseteq Nat \ {0}
    /\ {ChromaDims, LumaMax, Wide} \subseteq Nat

Luma == 1 .. LumaDims
Dims == 1 .. LumaDims + ChromaDims

Zero == [d \in Dims |-> 0]

\* f[1] + ... + f[n]
SumTo(n, f) ==
    LET sum[i \in 0 .. n] == IF i = 0 THEN 0 ELSE sum[i - 1] + f[i] IN sum[n]

Metrics == [mode : {"Yuv12", "Gray8"}, weight : Nat]

\* The dimensions that the pixel mode has.
CountOfDims(m) == IF m.mode = "Yuv12" THEN LumaDims + ChromaDims ELSE LumaDims

\* CodebookEntry: u8 luma and i8 chroma, which is zero in an entry of grays.
Component(d, m) ==
    IF d \in Luma THEN 0 .. LumaMax
    ELSE IF d <= CountOfDims(m) THEN -ChromaBound .. ChromaBound - 1 ELSE {0}
Entries(m) == {v \in [Dims -> Int] : \A d \in Dims : v[d] \in Component(d, m)}

\* luma_weight.max(1)
LumaWeight(m) == IF m.weight = 0 THEN 1 ELSE m.weight

DimWeight(d, m) == IF d \in Luma THEN LumaWeight(m) ELSE 1

Gap(a, b) == IF a > b THEN a - b ELSE b - a

\* The squared distance in the first n dimensions.
SquareTo(n, a, b, m) ==
    SumTo(n, [d \in 1 .. n |-> DimWeight(d, m) * (a[d] - b[d]) * (a[d] - b[d])])

\* entry_distance
Distance(a, b, m) == SquareTo(CountOfDims(m), a, b, m)

\* entry_l1_distance
Drift(a, b, m) ==
    SumTo(CountOfDims(m), [d \in Dims |-> DimWeight(d, m) * Gap(a[d], b[d])])

-----------------------------------------------------------------------------

\* The luma part alone is no better than the best so far.
Skippable(luma, best) == luma >= best

\* nearest: the slot and the error of the first of the nearest entries.  In a
\* wide book of colours an entry is left as soon as its luma part rules it out.
Nearest(v, book, m) ==
    LET scan[i \in 1 .. Len(book)] ==
          IF i = 1 THEN [slot |-> 1, err |-> Distance(v, book[1], m)]
          ELSE LET best == scan[i - 1]
                   err == Distance(v, book[i], m)
                   left == /\ m.mode = "Yuv12" /\ Len(book) >= Wide
                           /\ Skippable(SquareTo(LumaDims, v, book[i], m), best.err)
               IN  IF ~left /\ err < best.err THEN [slot |-> i, err |-> err] ELSE best
    IN  scan[Len(book)]

\* Division that truncates towards zero.
Quotient(a, n) == IF a >= 0 THEN a \div n ELSE -((-a) \div n)

\* centroid, centroid_from_sums: n vectors with the component sums s.
CentroidOf(s, n, m) ==
    [d \in Dims |-> IF d <= CountOfDims(m) THEN Quotient(s[d], n) ELSE 0]

Sum2(a, b) == [d \in Dims |-> a[d] + b[d]]

\* accumulate_slot: the sum of a sequence of vectors.
SumOf(c) ==
    LET sum[i \in 0 .. Len(c)] == IF i = 0 THEN Zero ELSE Sum2(sum[i - 1], c[i])
    IN  sum[Len(c)]

Centroid(c, m) == CentroidOf(SumOf(c), Len(c), m)

\* lbg_assign_scan: the slot of each vector, the population and the error of
\* each slot, and the total error.
Scan(vectors, book, m) ==
    LET none == [s \in DOMAIN book |-> 0]
        scan[i \in 0 .. Len(vectors)] ==
          IF i = 0 THEN [assign |-> <<>>, counts |-> none, sse |-> none, total |-> 0]
          ELSE LET old == scan[i - 1]
                   near == Nearest(vectors[i], book, m)
               IN  [assign |-> Append(old.assign, near.slot),
                    counts |-> [old.counts EXCEPT ![near.slot] = @ + 1],
                    sse |-> [old.sse EXCEPT ![near.slot] = @ + near.err],
                    total |-> old.total + near.err]
    IN  scan[Len(vectors)]

\* codebook_total_sse
TotalSse(book, vectors, m) ==
    SumTo(Len(vectors), [i \in DOMAIN vectors |-> Nearest(vectors[i], book, m).err])

\* One pass of Lloyd: slots that attract no vector keep their entry.
Recentred(vectors, book, m) ==
    LET scan == Scan(vectors, book, m)
        sum[i \in 0 .. Len(vectors)] ==
          IF i = 0 THEN [s \in DOMAIN book |-> Zero]
          ELSE [sum[i - 1] EXCEPT ![scan.assign[i]] = Sum2(@, vectors[i])]
        sums == sum[Len(vectors)]
    IN  [s \in DOMAIN book |->
            IF scan.counts[s] = 0 THEN book[s] ELSE CentroidOf(sums[s], scan.counts[s], m)]

\* perturb_dim
Perturbed(v, d, delta) ==
    LET low == IF d \in Luma THEN 0 ELSE -ChromaBound
        high == IF d \in Luma THEN LumaMax ELSE ChromaBound - 1
        x == v[d] + delta
    IN  [v EXCEPT ![d] = IF x < low THEN low ELSE IF x > high THEN high ELSE x]

\* The extent of a set of vectors along d.
Extent(S, d) == LET values == {v[d] : v \in S} IN Max(values) - Min(values)

\* cluster_split_score: the widest dimension, the luma weighted; score 0 if the
\* cluster cannot be split.
SplitScore(c, m) ==
    LET members == {c[i] : i \in DOMAIN c}
        score(d) == DimWeight(d, m) * Extent(members, d)
        best == Max({score(d) : d \in 1 .. CountOfDims(m)})
    IN  IF Len(c) < 2 \/ best = 0 THEN [score |-> 0, dim |-> 0]
        ELSE [score |-> best, dim |-> Min({d \in 1 .. CountOfDims(m) : score(d) = best})]

\* A stable sort by the values along d.
SortedBy(c, d) ==
    LET before(i, j) == c[i][d] < c[j][d] \/ (c[i][d] = c[j][d] /\ i < j)
        rank(i) == Cardinality({j \in DOMAIN c : before(j, i)}) + 1
    IN  [k \in DOMAIN c |-> c[CHOOSE i \in DOMAIN c : rank(i) = k]]

=============================================================================
