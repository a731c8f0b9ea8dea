------------------------------ MODULE Training ------------------------------
(***************************************************************************)
(* The codebooks and decisions of one strip.  Each of its two codebooks is *)
(* trained on the vectors of the macroblocks that are not skipped: from    *)
(* the codebook of the frame before by Lloyd's algorithm, or from nothing  *)
(* by median cut, with k-means++ against it.  Both are refined by          *)
(* splitting slots (LBG).  Then the macroblocks are decided on, and the    *)
(* books polished on what the decisions use.                               *)
(*                                                                         *)
(* The vectors sampled from the pixels and the skipped macroblocks are     *)
(* inputs.  What the generator of k-means++ yields is left open.           *)
(***************************************************************************)
EXTENDS Vectors, SequencesExt

CONSTANTS
    Strips,   \* [mbs, metric, sizes, seed]: macroblocks, v4_entries and
              \* v1_entries, the codebooks of the frame before or NoBook
    Tunings,  \* the EncoderOptions that matter here
    NoBook

Macroblocks(m) == [v4 : [Luma -> Entries(m)], v1 : Entries(m), skip : BOOLEAN]

ASSUME TrainingAssumption ==
    /\ \A s \in Strips :
         /\ s.metric \in Metrics /\ s.mbs \in Seq(Macroblocks(s.metric))
         /\ \A w \in {"V4", "V1"} :
              /\ s.sizes[w] \in Nat \ {0}
              /\ s.seed[w] # NoBook => s.seed[w] \in [1 .. s.sizes[w] -> Entries(s.metric)]
    /\ NoBook \notin Seq([Dims -> Int])
    /\ \A o \in Tunings :
         /\ o.kmeans \in BOOLEAN
         /\ {o.lloyd, o.kmeansLloyd, o.lbg, o.pcl, o.eps, o.allowance + 1} \subseteq Nat

VARIABLES
    strip,     \* the input
    opts,
    vectors,   \* v4_vectors, v1_vectors: of the macroblocks that are not skipped
    loop,      \* the one that runs
    which,     \* the codebook it runs for
    local,     \* its local variables
    cut,       \* mc_cb: the codebooks of median cut, or NoBook
    books,     \* v4_codebook, v1_codebook
    decisions  \* mbs

tVars == <<strip, opts, vectors, loop, which, local, cut, books, decisions>>

Both(x) == [V4 |-> x, V1 |-> x]

Sampled(s) ==
    LET after[i \in 0 .. Len(s.mbs)] ==
          IF i = 0 THEN Both(<<>>)
          ELSE IF s.mbs[i].skip THEN after[i - 1]
          ELSE [V4 |-> after[i - 1].V4 \o s.mbs[i].v4,
                V1 |-> Append(after[i - 1].V1, s.mbs[i].v1)]
    IN  after[Len(s.mbs)]

TrainInit ==
    /\ strip \in Strips /\ opts \in Tunings
    /\ vectors = Sampled(strip)
    /\ loop = "seeded" /\ which = "V4" /\ local = <<>>
    /\ cut = Both(NoBook) /\ books = Both(NoBook)
    /\ decisions = <<>>

Metric == strip.metric
Size == strip.sizes[which]
Book == books[which]

Population == vectors[which]

SetBook(b) == books' = [books EXCEPT ![which] = b]

\* The four calls in their order, and the classification after them.
GoOn(from) ==
    /\ local' = <<>>
    /\ which' = IF which = "V4" THEN "V1" ELSE "V4"
    /\ loop' = IF which = "V4" THEN from
               ELSE IF from = "seeded" THEN "refine" ELSE "classify"

-----------------------------------------------------------------------------
\* median_cut_seeded

Warm == opts.lloyd > 0 /\ strip.seed[which] # NoBook

StartWarm ==
    /\ loop = "seeded" /\ Warm
    /\ SetBook(strip.seed[which])
    /\ IF Population = <<>> THEN GoOn("seeded")
       ELSE /\ loop' = "lloyd" /\ local' = [left |-> opts.lloyd]
            /\ UNCHANGED which
    /\ UNCHANGED <<strip, opts, vectors, cut, decisions>>

StartCold ==
    /\ loop = "seeded" /\ ~Warm
    /\ IF Population = <<>>
       THEN SetBook([s \in 1 .. Size |-> Zero]) /\ GoOn("seeded")
       ELSE /\ loop' = "cut"
            /\ local' = [clusters |-> <<Population>>,
                         cache |-> <<SplitScore(Population, Metric)>>]
            /\ UNCHANGED <<which, books>>
    /\ UNCHANGED <<strip, opts, vectors, cut, decisions>>

\* split_cache after the split of cluster at.
Rescored(cache, at, left, right) ==
    Append([cache EXCEPT ![at] = SplitScore(left, Metric)], SplitScore(right, Metric))

Splittable == {i \in DOMAIN local.cache : local.cache[i].score > 0}

\* One bisection: the first cluster of the highest score is cut in the middle.
Cut ==
    /\ loop = "cut" /\ Len(local.clusters) < Size /\ Splittable # {}
    /\ LET best == Max({local.cache[i].score : i \in Splittable})
           at == Min({i \in Splittable : local.cache[i].score = best})
           sorted == SortedBy(local.clusters[at], local.cache[at].dim)
           left == SubSeq(sorted, 1, Len(sorted) \div 2)
           right == SubSeq(sorted, Len(sorted) \div 2 + 1, Len(sorted))
       IN  local' = [clusters |-> Append([local.clusters EXCEPT ![at] = left], right),
                     cache |-> Rescored(local.cache, at, left, right)]
    /\ UNCHANGED <<strip, opts, vectors, loop, which, cut, books, decisions>>

Centroids ==
    [s \in 1 .. Size |->
        IF s <= Len(local.clusters)
        THEN Centroid(local.clusters[s], Metric)
        ELSE Zero]

\* The squared distance of each vector to the nearest centroid so far.
Spread(d2) == [d2 |-> d2, sum |-> SumTo(Len(d2), d2)]

\* Without k-means++ the book is that of median cut.  With it, its first
\* centroid is one of the vectors.
EndCut ==
    /\ loop = "cut"
    /\ Len(local.clusters) >= Size \/ Splittable = {}
    /\ cut' = [cut EXCEPT ![which] = Centroids]
    /\ IF opts.kmeans /\ opts.lloyd > 0 /\ Size >= 2
       THEN \E i \in DOMAIN Population :
              LET first == Population[i] IN
              /\ SetBook(<<first>>)
              /\ local' = Spread([j \in DOMAIN Population |->
                                    Distance(Population[j], first, Metric)])
              /\ loop' = "spread"
              /\ UNCHANGED which
       ELSE SetBook(Centroids) /\ GoOn("seeded")
    /\ UNCHANGED <<strip, opts, vectors, decisions>>

\* Mutant of Drawn: the running sum has only to reach r.
DrawnAtReach(r) ==
    LET acc(i) == SumTo(i, local.d2)
    IN  Min({i \in DOMAIN Population : acc(i) >= r})

\* The vector that r falls to, each having a share of its squared distance.
Drawn(r) ==
    LET acc(i) == SumTo(i, local.d2)
    IN  Min({i \in DOMAIN Population : acc(i) > r})

\* One centroid of kmeans_pp_init_cold.
AddCentroid ==
    /\ loop = "spread" /\ Len(Book) < Size /\ local.sum > 0
    /\ \E r \in 0 .. local.sum - 1 :
         LET c == Population[Drawn(r)] IN
         /\ SetBook(Append(Book, c))
         /\ local' = Spread([i \in DOMAIN Population |->
                        Min({local.d2[i], Distance(Population[i], c, Metric)})])
    /\ UNCHANGED <<strip, opts, vectors, loop, which, cut, decisions>>

\* All centroids are chosen, or the rest of the slots are filled with the first.
EndSpread ==
    /\ loop = "spread" /\ (Len(Book) = Size \/ local.sum = 0)
    /\ SetBook([s \in 1 .. Size |-> IF s <= Len(Book) THEN Book[s] ELSE Book[1]])
    /\ loop' = "lloyd" /\ local' = [left |-> opts.kmeansLloyd]
    /\ UNCHANGED <<strip, opts, vectors, which, cut, decisions>>

\* A pass of Lloyd, from the seed or from the centroids of k-means++.
Lloyd ==
    /\ loop = "lloyd" /\ local.left > 0
    /\ LET next == Recentred(Population, Book, Metric)
           drift == Max({Drift(Book[s], next[s], Metric) : s \in 1 .. Size})
       IN  /\ SetBook(next)
           /\ local' = [left |-> IF drift <= opts.eps THEN 0 ELSE local.left - 1]
    /\ UNCHANGED <<strip, opts, vectors, loop, which, cut, decisions>>

\* Mutant of Hybrid: k-means++ is trusted.
HybridTrusting(kmeans, median) == kmeans

\* The codebook of k-means++ if it is better than that of median cut.
Hybrid(kmeans, median) ==
    IF TotalSse(kmeans, Population, Metric) < TotalSse(median, Population, Metric)
    THEN kmeans ELSE median

EndLloyd ==
    /\ loop = "lloyd" /\ local.left = 0
    /\ SetBook(IF Warm THEN Book ELSE Hybrid(Book, cut[which]))
    /\ GoOn("seeded")
    /\ UNCHANGED <<strip, opts, vectors, cut, decisions>>

-----------------------------------------------------------------------------
\* lbg_refine_codebook

StartRefine ==
    /\ loop = "refine"
    /\ IF opts.lbg = 0 \/ Size <= 1 \/ Population = <<>>
       THEN GoOn("refine")
       ELSE /\ loop' = "lbg"
            /\ local' = [left |-> opts.lbg, scan |-> Scan(Population, Book, Metric)]
            /\ UNCHANGED which
    /\ UNCHANGED <<strip, opts, vectors, cut, books, decisions>>

\* The slots with two vectors or more; of these the first of the highest error.
Populous == {s \in 1 .. Size : local.scan.counts[s] >= 2}
Splitter ==
    LET worst == Max({local.scan.sse[s] : s \in Populous})
    IN  Min({s \in Populous : local.scan.sse[s] = worst})

\* The other slot with the fewest vectors, then the least error, then the first.
Lesser(s, t) ==
    LET c == local.scan.counts  e == local.scan.sse
    IN  c[s] < c[t] \/ (c[s] = c[t] /\ (e[s] < e[t] \/ (e[s] = e[t] /\ s <= t)))
Donor ==
    LET others == 1 .. Size \ {Splitter}
    IN  CHOOSE s \in others : \A t \in others : Lesser(s, t)

Members ==
    LET s == Splitter
    IN  {Population[i] : i \in {j \in DOMAIN Population : local.scan.assign[j] = s}}
\* The first of its widest dimensions, without weights.
WidestDim ==
    LET all == Members
    IN  CHOOSE d \in 1 .. CountOfDims(Metric) :
          \A e \in 1 .. CountOfDims(Metric) :
            Extent(all, e) <= Extent(all, d) /\ (Extent(all, e) = Extent(all, d) => d <= e)

CanSplit ==
    /\ Populous # {}
    /\ local.scan.sse[Donor] < local.scan.sse[Splitter]
    /\ Extent(Members, WidestDim) > 0

\* Both slots get the entry of the splitter, moved apart.
Split(s, d) ==
    [Book EXCEPT ![s] = Perturbed(Book[s], WidestDim, -1),
                 ![d] = Perturbed(Book[s], WidestDim, 1)]

\* Mutant of Reverted: the donor stays overwritten.
RevertedSplitter(split, s, d) == [split EXCEPT ![s] = Book[s]]

Reverted(split, s, d) == [split EXCEPT ![s] = Book[s], ![d] = Book[d]]

\* One pass: split, rebalance, and keep it if the total error is less.
Refine ==
    /\ loop = "lbg" /\ local.left > 0 /\ CanSplit
    /\ LET s == Splitter  d == Donor
           split == Split(s, d)
           next == Recentred(Population, split, Metric)
           trial == Scan(Population, next, Metric)
       IN  IF trial.total < local.scan.total
           THEN SetBook(next) /\ local' = [left |-> local.left - 1, scan |-> trial]
           ELSE SetBook(Reverted(split, s, d)) /\ local' = [local EXCEPT !.left = 0]
    /\ UNCHANGED <<strip, opts, vectors, loop, which, cut, decisions>>

EndRefine ==
    /\ loop = "lbg" /\ (local.left = 0 \/ ~CanSplit)
    /\ GoOn("refine")
    /\ UNCHANGED <<strip, opts, vectors, cut, books, decisions>>

-----------------------------------------------------------------------------
\* classify_mbs and post_classification_polish

\* pick_v4 takes the metric of colours in either mode.
ColourMetric == [Metric EXCEPT !.mode = "Yuv12"]
PickV4(mb, bs) == [k \in DOMAIN mb.v4 |-> Nearest(mb.v4[k], bs["V4"], ColourMetric)]
PickV1(mb, bs) == Nearest(mb.v1, bs["V1"], Metric)

\* rdo_pixel_y_sse: the luma error of every pixel.  A V1 entry gives one luma
\* value to all pixels of a quadrant.
SquareGap(a, b) == (a - b) * (a - b)
PixelSse(mb, shown) ==
    SumTo(LumaDims, [k \in Luma |->
        SumTo(LumaDims, [p \in Luma |-> SquareGap(mb.v4[k][p], shown[k][p])])])

\* V1 unless V4 saves more error than the bits are worth; without a lambda (an
\* allowance of -1), whichever is nearer to its own vectors.
Decision(mb, bs) ==
    LET v4 == PickV4(mb, bs)
        v1 == PickV1(mb, bs)
        d4 == PixelSse(mb, [k \in Luma |-> bs["V4"][v4[k].slot]])
        d1 == PixelSse(mb, [k \in Luma |-> [p \in Luma |-> bs["V1"][v1.slot][k]]])
        cheap == IF opts.allowance >= 0
                 THEN d1 - d4 <= opts.allowance
                 ELSE v1.err <= SumTo(LumaDims, [k \in Luma |-> v4[k].err])
    IN  IF mb.skip THEN [kind |-> "Skip", slots |-> <<>>]
        ELSE IF cheap THEN [kind |-> "V1", slots |-> <<v1.slot>>]
        ELSE [kind |-> "V4", slots |-> [k \in DOMAIN v4 |-> v4[k].slot]]

Classified(bs) == [i \in DOMAIN strip.mbs |-> Decision(strip.mbs[i], bs)]

Classify ==
    /\ loop = "classify"
    /\ decisions' = Classified(books)
    /\ loop' = "polish" /\ local' = [left |-> opts.pcl]
    /\ UNCHANGED <<strip, opts, vectors, which, cut, books>>

\* The places where a slot of a codebook is used: a macroblock and a part of it.
Uses(w, s) ==
    {u \in (DOMAIN strip.mbs) \X Luma :
        LET d == decisions[u[1]] IN
        d.kind = w /\ u[2] \in DOMAIN d.slots /\ d.slots[u[2]] = s}

\* The slots in use become the centroids of what they are used for.
Polished(w) ==
    [s \in DOMAIN books[w] |->
        LET uses == SetToSeq(Uses(w, s))
            vector(u) == IF w = "V4" THEN strip.mbs[u[1]].v4[u[2]] ELSE strip.mbs[u[1]].v1
        IN  IF uses = <<>> THEN books[w][s]
            ELSE Centroid([j \in DOMAIN uses |-> vector(uses[j])], Metric)]

\* Mutant of Reclassified: not after the last pass.
ReclassifiedButLast(bs) == IF local.left = 1 THEN decisions ELSE Classified(bs)

Reclassified(bs) == Classified(bs)

Polish ==
    /\ loop = "polish" /\ local.left > 0
    /\ LET next == [V4 |-> Polished("V4"), V1 |-> Polished("V1")] IN
         IF next = books
         THEN local' = [left |-> 0] /\ UNCHANGED <<books, decisions>>
         ELSE /\ books' = next
              /\ decisions' = Reclassified(next)
              /\ local' = [left |-> local.left - 1]
    /\ UNCHANGED <<strip, opts, vectors, loop, which, cut>>

EndPolish ==
    /\ loop = "polish" /\ local.left = 0
    /\ loop' = "done" /\ local' = <<>>
    /\ UNCHANGED <<strip, opts, vectors, which, cut, books, decisions>>

TrainNext ==
    \/ StartWarm
    \/ StartCold
    \/ Cut
    \/ EndCut
    \/ AddCentroid
    \/ EndSpread
    \/ Lloyd
    \/ EndLloyd
    \/ StartRefine
    \/ Refine
    \/ EndRefine
    \/ Classify
    \/ Polish
    \/ EndPolish

TrainSpec == TrainInit /\ [][TrainNext]_tVars

-----------------------------------------------------------------------------

\* The state that the training loops carry from pass to pass instead of
\* computing it anew is what it would be anew: the scores of the clusters of
\* median cut, which partition the vectors; the distances of k-means++; the
\* assignment, populations and errors of LBG, also after a split was reverted
\* (median_cut, kmeans_pp_init_cold, lbg_refine_codebook).
CarriedIsFresh ==
    CASE loop = "cut" ->
           /\ local.cache = [i \in DOMAIN local.clusters |->
                                SplitScore(local.clusters[i], Metric)]
           /\ \A v \in Range(Population) :
                Cardinality({i \in DOMAIN Population : Population[i] = v}) =
                SumTo(Len(local.clusters), [c \in DOMAIN local.clusters |->
                    Cardinality({i \in DOMAIN local.clusters[c] : local.clusters[c][i] = v})])
      [] loop = "spread" ->
           /\ \A i \in DOMAIN Population :
                local.d2[i] = Min({Distance(Population[i], Book[s], Metric) : s \in DOMAIN Book})
           /\ local.sum = TotalSse(Book, Population, Metric)
      [] loop = "lbg" -> local.scan = Scan(Population, Book, Metric)
      [] OTHER -> TRUE

\* Until the polish, a codebook that was started cold codes its vectors no worse
\* than that of median cut alone, whatever k-means++ drew and the splits of LBG
\* did (median_cut_seeded, lbg_refine_codebook).
NeverWorseThanTheCut ==
    \A w \in {"V4", "V1"} :
        (cut[w] # NoBook /\ loop \in {"refine", "lbg", "classify"}) =>
            TotalSse(books[w], vectors[w], Metric) <= TotalSse(cut[w], vectors[w], Metric)

\* With k-means++ a cold codebook is exact when it has a slot for each vector
\* that occurs: no draw repeats a vector (kmeans_pp_init_cold).
FewVectorsAreExact ==
    \A w \in {"V4", "V1"} :
        (/\ cut[w] # NoBook /\ loop \in {"refine", "lbg", "classify"}
         /\ opts.kmeans /\ opts.lloyd > 0
         /\ strip.sizes[w] >= 2
         /\ Cardinality(Range(vectors[w])) <= strip.sizes[w])
        => TotalSse(books[w], vectors[w], Metric) = 0

\* The first of the nearest entries, by the full distance to each.
IsFirstNearest(s, v, book) ==
    \A t \in DOMAIN book :
        /\ Distance(v, book[s], Metric) <= Distance(v, book[t], Metric)
        /\ Distance(v, book[s], Metric) = Distance(v, book[t], Metric) => s <= t

\* The decisions that go into the strip are those of the books that go into it,
\* after any number of polishes: each vector has the first of its nearest
\* entries (build_codebooks_and_decisions, nearest).
DecisionsFitTheBooks ==
    loop = "done" =>
        \A i \in DOMAIN strip.mbs :
            LET mb == strip.mbs[i]  d == decisions[i] IN
            /\ d.kind = "V4" => \A k \in DOMAIN mb.v4 :
                                   IsFirstNearest(d.slots[k], mb.v4[k], books["V4"])
            /\ d.kind = "V1" => IsFirstNearest(d.slots[1], mb.v1, books["V1"])

=============================================================================
