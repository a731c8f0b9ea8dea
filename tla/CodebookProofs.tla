---------------------------- MODULE CodebookProofs ----------------------------
(***************************************************************************)
(* Theorems about how a codebook comes to be, for every value of the       *)
(* constants, in three parts.                                              *)
(*                                                                         *)
(* The keyframe scheduling and the recycling of codebook slots that goes   *)
(* with it (Staleness), for every set of intervals, frame sizes, entry     *)
(* counts and strip counts, and every threshold.                           *)
(*                                                                         *)
(* The scans, averages and scores of vectors (Vectors): lemmas, for any    *)
(* number of dimensions, any bounds of the components and books of any     *)
(* size.                                                                   *)
(*                                                                         *)
(* The training of the codebooks of a strip (Training), for every strip,   *)
(* seed and tuning: the inductive invariant TrainInv, one lemma per        *)
(* action, and the theorems at the end.                                    *)
(*                                                                         *)
(* The sums and scans are recursive functions.  What they compute is shown *)
(* from a closed form that satisfies the recursion, by induction over a    *)
(* prefix (RecursionLemmas).                                               *)
(***************************************************************************)
EXTENDS Staleness, Training, RecursionLemmas, FiniteSetTheorems, FunctionTheorems,
        SequenceTheorems

\* What the router's state says of its past: a position past zero is that of
\* the frame after the last routed one, it is past the keyframe by less than
\* the interval, and a promised keyframe is still asked for.
Schedule ==
    /\ gopPos # 0 => (interval # None /\ gopPos = routed + 1)
    /\ gopPos > 1 => gopPos < interval
    /\ due => (force \/ gopPos = 0)

\* The invariant that is inductive.
RouterInv == TypeOK /\ Schedule

-----------------------------------------------------------------------------

\* An inter frame is routed strictly inside a group of pictures: the position
\* is neither its start nor the interval (encode_frame_mode).
LEMMA InterIsInsideGop ==
    ASSUME RouterInv, RouteInter
    PROVE  /\ gopPos \in Nat \ {0}
           /\ interval \in Nat \ {0}
           /\ gopPos < interval
           /\ routed + 1 = gopPos
           /\ ~force
           /\ ~due
           /\ prev # None
<1>1. PICK m \in Modes : ~Intra(m) /\ prev' = [fmt |-> m, size |-> prev.size]
    BY DEF RouteInter
<1>2. ~force /\ gopPos # 0 /\ gopPos % interval # 0 /\ prev # None
    BY <1>1 DEF Intra
<1>3. interval \in Nat \ {0} /\ gopPos \in Nat
    BY DEF RouterInv, TypeOK, RouteInter
<1>4. gopPos = routed + 1 /\ ~due
    BY <1>2 DEF RouterInv, Schedule
<1>5. gopPos < interval
    <2>1. CASE gopPos > 1
        BY <2>1 DEF RouterInv, Schedule
    <2>2. CASE gopPos = 1
        <3>1. interval # 1
            BY <1>2, <1>3, <2>2
        <3> QED BY <3>1, <1>3, <2>2
    <2> QED BY <1>2, <1>3, <2>1, <2>2
<1> QED BY <1>2, <1>3, <1>4, <1>5

\* What the calls return is well typed.
LEMMA ResultsAreTyped ==
    /\ NoResult \in Results
    /\ \A kind \in {"none", "key", "inter", "err"}, by \in {"router", "caller"}, n \in Nat :
           Result(kind, by, n) \in Results
BY DEF NoResult, Result, Results

\* A new encoder satisfies the invariant of the router.
LEMMA InitEstablishesRouterInv == Init => RouterInv
<1> SUFFICES ASSUME Init PROVE RouterInv
    OBVIOUS
<1>1. last \in Results
    BY ResultsAreTyped DEF Init
<1>2. interval = None /\ gopPos = 0 /\ force = FALSE /\ prev = None /\ routed = 0 /\ due = TRUE
    BY DEF Init
<1>3. TypeOK
    <2>1. ~(gopPos > 1)
        BY <1>2
    <2>2. force \in BOOLEAN /\ due \in BOOLEAN
        BY <1>2
    <2>3. interval \in (Nat \ {0}) \cup {None} /\ prev \in FrameShape \cup {None}
        BY <1>2
    <2>4. gopPos \in Nat /\ routed \in Nat
        BY <1>2
    <2> QED BY <1>1, <2>1, <2>2, <2>3, <2>4 DEF TypeOK
<1>4. Schedule
    BY <1>2 DEF Schedule
<1> QED BY <1>3, <1>4 DEF RouterInv

\* Every step preserves it: one step of the proof per action.
LEMMA NextPreservesRouterInv == RouterInv /\ [Next]_vars => RouterInv'
<1> SUFFICES ASSUME RouterInv, [Next]_vars PROVE RouterInv'
    OBVIOUS
<1> USE DEF RouterInv, TypeOK, Schedule
<1>1. CASE RouteIntra
    <2>1. prev' \in FrameShape
        BY <1>1 DEF RouteIntra, FrameShape
    <2>2. last' \in Results
        BY <1>1, ResultsAreTyped DEF RouteIntra
    <2>3. force' \in BOOLEAN /\ due' \in BOOLEAN /\ ~due'
        BY <1>1 DEF RouteIntra
    <2>4. gopPos' = 1 /\ routed' = 0 /\ interval' = interval /\ interval # None
        BY <1>1 DEF RouteIntra
    <2> QED BY <2>1, <2>2, <2>3, <2>4
<1>2. CASE RouteInter
    <2>1. prev' \in FrameShape
        BY <1>2, InterIsInsideGop DEF RouteInter, FrameShape
    <2>2. last' \in Results
        BY <1>2, ResultsAreTyped DEF RouteInter, NumberInGop
    <2>3. gopPos' = (IF gopPos + 1 >= interval THEN 0 ELSE gopPos + 1)
        BY <1>2 DEF RouteInter, Advance
    <2>4. /\ gopPos' \in Nat
          /\ gopPos' > 1 => gopPos' < interval
          /\ gopPos' # 0 => gopPos' = routed + 2
        BY <1>2, <2>3, InterIsInsideGop
    <2>5. UNCHANGED <<interval, force, due>> /\ routed' = routed + 1
        BY <1>2 DEF RouteInter
    <2> QED BY <1>2, <2>1, <2>2, <2>4, <2>5, InterIsInsideGop
<1>3. CASE RouteFails
    BY <1>3, ResultsAreTyped DEF RouteFails, AfterError
<1>4. CASE DirectIntra
    BY <1>4, ResultsAreTyped DEF DirectIntra
<1>5. CASE DirectInter
    BY <1>5, ResultsAreTyped DEF DirectInter
<1>6. CASE SetKeyframeInterval
    BY <1>6, RouterAssumption DEF SetKeyframeInterval
<1>7. CASE ClearKeyframeInterval
    <2>1. force' \in BOOLEAN /\ due' \in BOOLEAN
        BY <1>7 DEF ClearKeyframeInterval
    <2>2. gopPos' = 0 /\ interval' = None /\ UNCHANGED <<prev, last, routed>>
        BY <1>7 DEF ClearKeyframeInterval
    <2> QED BY <2>1, <2>2
<1>8. CASE ForceNextKeyframe
    BY <1>8 DEF ForceNextKeyframe
<1>9. CASE Reset
    <2>1. force' \in BOOLEAN /\ due' \in BOOLEAN
        BY <1>9 DEF Reset
    <2>2. gopPos' = 0 /\ routed' = 0 /\ prev' = None /\ interval' = interval
        BY <1>9 DEF Reset
    <2>3. last' \in Results
        BY <1>9, ResultsAreTyped DEF Reset
    <2> QED BY <2>1, <2>2, <2>3
<1>10. CASE UNCHANGED vars
    BY <1>10 DEF vars
<1> QED BY <1>1, <1>2, <1>3, <1>4, <1>5, <1>6, <1>7, <1>8, <1>9, <1>10 DEF Next

\* The inductive invariant of the router holds in every reachable state.
THEOREM RouterInvariant == Spec => []RouterInv
BY InitEstablishesRouterInv, NextPreservesRouterInv, PTL DEF Spec

\* Type correctness of the router, for every set of intervals and sizes.
THEOREM RouterTypeCorrect == Spec => []TypeOK
<1>1. RouterInv => TypeOK
    BY DEF RouterInv
<1> QED BY <1>1, RouterInvariant, PTL

\* For every interval: between two routed keyframes lie fewer routed inter
\* frames than the interval says, whatever happens in between
\* (encode_frame_mode, set_keyframe_interval).
THEOREM RouterKeepsSeekInterval == Spec => SeekIntervalIsKept
<1>1. RouterInv /\ [Next]_vars => [RouteInter => routed' < interval]_vars
    <2> SUFFICES ASSUME RouterInv, RouteInter PROVE routed' < interval
        OBVIOUS
    <2> QED BY InterIsInsideGop DEF RouteInter
<1> QED BY <1>1, RouterInvariant, PTL DEF Spec, SeekIntervalIsKept

\* A promised keyframe comes before any routed inter frame, however often the
\* encode fails in between (force_next_keyframe, reset, set_keyframe_interval).
THEOREM RouterKeepsPromises == Spec => PromisedKeyframeComesFirst
<1>1. RouterInv /\ [Next]_vars => [due => ~RouteInter]_vars
    BY InterIsInsideGop
<1> QED BY <1>1, RouterInvariant, PTL DEF Spec, PromisedKeyframeComesFirst

\* The number a routed frame is returned with is its distance from the last
\* routed keyframe (EncodedFrame, frame_number_in_gop).
THEOREM RouterNumbersFrames == Spec => NumberIsDistance
<1>1. RouterInv /\ [Next]_vars => [RouteIntra \/ RouteInter => last'.number = routed']_vars
    <2> SUFFICES ASSUME RouterInv, RouteIntra \/ RouteInter PROVE last'.number = routed'
        OBVIOUS
    <2>1. CASE RouteIntra
        BY <2>1 DEF RouteIntra, Result
    <2>2. CASE RouteInter
        BY <2>2, InterIsInsideGop DEF RouteInter, Result, NumberInGop
    <2> QED BY <2>1, <2>2
<1> QED BY <1>1, RouterInvariant, PTL DEF Spec, NumberIsDistance

-----------------------------------------------------------------------------

\* The recursion over the strips is well defined, for any number of strips.
LEMMA StripsAreDefined ==
    ASSUME NEW n, NEW ks, NEW start, NEW m \in Nat
    PROVE  \E g : g = [i \in 0 .. m |->
                          IF i = 0 THEN start ELSE StripEffect(g[i - 1], n, ks[i])]
<1> DEFINE Defined(k) == \E g : g = [i \in 0 .. k |->
                          IF i = 0 THEN start ELSE StripEffect(g[i - 1], n, ks[i])]
<1> DEFINE T == {k \in Nat : ~Defined(k)}
<1>1. SUFFICES ASSUME T # {} PROVE FALSE
    OBVIOUS
<1>2. PICK k \in T : \A j \in T : k <= j
    <2> HIDE DEF T
    <2>1. T \subseteq Nat
        BY DEF T
    <2> QED BY <1>1, <2>1, LeastNatural
<1>3. k \in Nat /\ ~Defined(k)
    BY <1>2
<1>4. CASE k = 0
    <2> DEFINE g == [i \in 0 .. 0 |-> start]
    <2>1. g = [i \in 0 .. 0 |-> IF i = 0 THEN start ELSE StripEffect(g[i - 1], n, ks[i])]
        OBVIOUS
    <2> QED BY <1>3, <1>4, <2>1
<1>5. CASE k # 0
    <2>1. k - 1 \in Nat /\ k - 1 \notin T
        BY <1>2, <1>3, <1>5
    <2>2. PICK h : h = [i \in 0 .. k - 1 |->
                          IF i = 0 THEN start ELSE StripEffect(h[i - 1], n, ks[i])]
        BY <2>1
    <2> DEFINE g == [i \in 0 .. k |-> IF i = k THEN StripEffect(h[k - 1], n, ks[k]) ELSE h[i]]
    <2>3. ASSUME NEW i \in 0 .. k
          PROVE  g[i] = IF i = 0 THEN start ELSE StripEffect(g[i - 1], n, ks[i])
        <3>1. CASE i = k
            BY <1>3, <1>5, <3>1
        <3>2. CASE i # k
            <4>1. i \in 0 .. k - 1
                BY <1>3, <3>2
            <4>2. h[i] = IF i = 0 THEN start ELSE StripEffect(h[i - 1], n, ks[i])
                BY <2>2, <4>1
            <4>3. g[i] = h[i] /\ (i # 0 => g[i - 1] = h[i - 1])
                BY <1>3, <3>2, <4>1
            <4> QED BY <4>2, <4>3
        <3> QED BY <3>1, <3>2
    <2>4. g = [i \in 0 .. k |-> IF i = 0 THEN start ELSE StripEffect(g[i - 1], n, ks[i])]
        BY <2>3
    <2> HIDE DEF g
    <2>5. Defined(k)
        BY <2>4
    <2> QED BY <1>3, <2>5
<1> QED BY <1>4, <1>5

-----------------------------------------------------------------------------

Counters == [Slots -> 0 .. MaxStale]

\* A counter runs with the number of inter frames since its slot was referred to
\* or reclaimed, or behind it; without frames that the router knows nothing of
\* it is no further than the group of pictures.
CountersLag ==
    /\ \A s \in Slots : stale[s] <= idle[s]
    /\ ~stray => \A s \in Slots : stale[s] <= routed

StaleTypeOK ==
    /\ stale \in Counters
    /\ idle \in Counters
    /\ stray \in BOOLEAN

\* The invariant that is inductive.
StaleInv == RouterInv /\ StaleTypeOK /\ CountersLag

\* The slots whose counter is above the threshold at the start of a frame.
IdleSlots == {s \in Slots : stale[s] > Threshold}

\* What any number of strips does: some slots above the threshold are reclaimed,
\* their counters are reset and no other is touched
\* (encode_inter_strip_with_stats).
LEMMA StripsReclaimIdleSlots ==
    ASSUME StaleTypeOK, NEW n \in Counts, NEW m \in Nat, NEW ks
    PROVE  LET after == AfterStrips(n, ks, m)
           IN  /\ after.reclaimed \subseteq IdleSlots
               /\ after.stale = Reset0(stale, after.reclaimed)
<1> DEFINE start == [stale |-> stale, count |-> count, reclaimed |-> {}]
<1> DEFINE f == CHOOSE g : g = [i \in 0 .. m |->
                    IF i = 0 THEN start ELSE StripEffect(g[i - 1], n, ks[i])]
<1>1. f = [i \in 0 .. m |-> IF i = 0 THEN start ELSE StripEffect(f[i - 1], n, ks[i])]
    <2> HIDE DEF start
    <2> QED BY StripsAreDefined
<1>2. AfterStrips(n, ks, m) = f[m]
    BY DEF AfterStrips
<1> DEFINE Good(st) == /\ st.reclaimed \subseteq IdleSlots
                       /\ st.stale = Reset0(stale, st.reclaimed)
<1>3. Good(start)
    BY DEF StaleTypeOK, Counters, Reset0
<1>4. ASSUME NEW st, NEW k, Good(st)
      PROVE  Good(StripEffect(st, n, k))
    <2> DEFINE slots == Lowest(StaleSlots(st, n), k)
    <2>1. StripEffect(st, n, k).reclaimed = st.reclaimed \cup slots
          /\ StripEffect(st, n, k).stale = Reset0(st.stale, slots)
        BY DEF StripEffect
    <2>2. n \in Nat /\ NumSlots \in Nat /\ n <= NumSlots /\ Threshold \in Nat
        BY StalenessAssumption
    <2>3. slots \subseteq {s \in Slots : st.stale[s] > Threshold}
        BY <2>2 DEF Lowest, StaleSlots, Slots
    <2>4. \A s \in Slots : st.stale[s] = IF s \in st.reclaimed THEN 0 ELSE stale[s]
        BY <1>4 DEF Reset0
    <2>5. slots \subseteq IdleSlots
        BY <2>2, <2>3, <2>4 DEF IdleSlots
    <2>6. Reset0(st.stale, slots) = Reset0(stale, st.reclaimed \cup slots)
        BY <2>4 DEF Reset0
    <2> QED BY <1>4, <2>1, <2>5, <2>6
<1> DEFINE T == {i \in 0 .. m : Good(f[i])}
<1>5. \A i \in 0 .. m : i \in T
    <2> HIDE DEF f, start, Good
    <2>1. 0 \in T
        BY <1>1, <1>3
    <2>2. ASSUME NEW i \in 1 .. m, i - 1 \in T
          PROVE  i \in T
        <3>1. f[i] = StripEffect(f[i - 1], n, ks[i])
            BY <1>1
        <3> QED BY <1>4, <2>2, <3>1
    <2> HIDE DEF T
    <2> QED BY <2>1, <2>2, InductionUpTo
<1>6. Good(f[m])
    BY <1>5
<1> QED BY <1>2, <1>6

\* What a strip may reclaim is idle, and what lags still lags when the same slots
\* are reset on both sides.
LEMMA ResetKeepsLag ==
    ASSUME StaleInv, NEW S \in SUBSET IdleSlots
    PROVE  /\ Reset0(stale, S) \in Counters
           /\ Reset0(idle, S) \in Counters
           /\ \A s \in Slots : /\ Reset0(stale, S)[s] <= Reset0(idle, S)[s]
                              /\ Reset0(stale, S)[s] <= stale[s]
           /\ \A s \in S : idle[s] > Threshold
<1>1. MaxStale \in Nat /\ Threshold \in Nat
    BY StalenessAssumption
<1>2. \A s \in Slots : stale[s] \in 0 .. MaxStale /\ idle[s] \in 0 .. MaxStale
                       /\ stale[s] <= idle[s]
    BY DEF StaleInv, StaleTypeOK, CountersLag, Counters
<1> QED BY <1>1, <1>2 DEF Reset0, Counters, IdleSlots

\* An inter frame moves a counter up by one at most, and no further than the
\* history count (update_staleness).
LEMMA InterKeepsLag ==
    ASSUME StaleInv, EncodeInter
    PROVE  /\ stale' \in Counters /\ idle' \in Counters
           /\ \A s \in Slots : stale'[s] <= idle'[s] /\ stale'[s] <= stale[s] + 1
           /\ reclaimed' \subseteq IdleSlots
<1>1. PICK n \in Counts, m \in StripCounts :
        \E used \in SUBSET (0 .. n - 1), ks \in [1 .. m -> 0 .. n] :
          LET after == AfterStrips(n, ks, m)
          IN  /\ stale' = Counted(after.stale, n, used)
              /\ count' = n
              /\ reclaimed' = after.reclaimed
              /\ idle' = [s \in Slots |-> IF s \in used THEN 0
                                          ELSE IF s \in after.reclaimed THEN 1
                                          ELSE Bump(idle[s])]
    BY DEF EncodeInter
<1>2. PICK used \in SUBSET (0 .. n - 1), ks \in [1 .. m -> 0 .. n] :
          LET after == AfterStrips(n, ks, m)
          IN  /\ stale' = Counted(after.stale, n, used)
              /\ count' = n
              /\ reclaimed' = after.reclaimed
              /\ idle' = [s \in Slots |-> IF s \in used THEN 0
                                          ELSE IF s \in after.reclaimed THEN 1
                                          ELSE Bump(idle[s])]
    BY <1>1
<1> DEFINE R == AfterStrips(n, ks, m).reclaimed
<1>3. m \in Nat /\ n \in Nat /\ n <= NumSlots /\ MaxStale \in Nat /\ MaxStale > 0
      /\ NumSlots \in Nat
    BY StalenessAssumption
<1>4. R \subseteq IdleSlots /\ AfterStrips(n, ks, m).stale = Reset0(stale, R)
    BY <1>3, StripsReclaimIdleSlots DEF StaleInv
<1>5. \A s \in Slots : /\ stale[s] \in 0 .. MaxStale /\ idle[s] \in 0 .. MaxStale
                       /\ stale[s] <= idle[s]
    BY DEF StaleInv, StaleTypeOK, CountersLag, Counters
<1> HIDE DEF R
<1>6. \A s \in Slots : stale'[s] = IF s >= n THEN Reset0(stale, R)[s]
                                   ELSE IF s \in used THEN 0 ELSE Bump(Reset0(stale, R)[s])
    BY <1>2, <1>4 DEF Counted, R
<1>7. \A s \in Slots : idle'[s] = IF s \in used THEN 0 ELSE IF s \in R THEN 1
                                  ELSE Bump(idle[s])
    BY <1>2 DEF R
<1>8. \A s \in Slots : Reset0(stale, R)[s] = IF s \in R THEN 0 ELSE stale[s]
    BY DEF Reset0
<1>9. ASSUME NEW s \in Slots
      PROVE  /\ stale'[s] \in 0 .. MaxStale /\ idle'[s] \in 0 .. MaxStale
             /\ stale'[s] <= idle'[s] /\ stale'[s] <= stale[s] + 1
    <2>1. s \in Nat /\ (s \in used => s < n)
        BY <1>3 DEF Slots
    <2> QED BY SMTT(30), <1>3, <1>5, <1>6, <1>7, <1>8, <2>1 DEF Bump
<1>10. stale' \in Counters
    <2>1. stale' = [s \in Slots |-> stale'[s]]
        BY <1>2 DEF Counted
    <2> QED BY <1>9, <2>1 DEF Counters
<1>11. idle' \in Counters
    <2>1. idle' = [s \in Slots |-> idle'[s]]
        BY <1>2
    <2> QED BY <1>9, <2>1 DEF Counters
<1> QED BY <1>2, <1>4, <1>9, <1>10, <1>11 DEF R

\* An inter frame that fails in one of its strips moves no counter up.
LEMMA InterPartKeepsLag ==
    ASSUME StaleInv, EncodeInterPart
    PROVE  /\ stale' \in Counters /\ idle' \in Counters /\ stray' = stray
           /\ \A s \in Slots : stale'[s] <= idle'[s] /\ stale'[s] <= stale[s]
           /\ reclaimed' \subseteq IdleSlots
<1>1. PICK n \in Counts, m \in StripCounts : \E j \in 1 .. m : \E ks \in [1 .. j -> 0 .. n] :
          LET after == AfterStrips(n, ks, j)
          IN  /\ stale' = after.stale
              /\ count' = after.count
              /\ reclaimed' = after.reclaimed
              /\ idle' = Reset0(idle, after.reclaimed)
              /\ UNCHANGED stray
    BY DEF EncodeInterPart
<1>2. PICK j \in 1 .. m : \E ks \in [1 .. j -> 0 .. n] :
          LET after == AfterStrips(n, ks, j)
          IN  /\ stale' = after.stale
              /\ count' = after.count
              /\ reclaimed' = after.reclaimed
              /\ idle' = Reset0(idle, after.reclaimed)
              /\ UNCHANGED stray
    BY <1>1
<1>3. PICK ks \in [1 .. j -> 0 .. n] :
          LET after == AfterStrips(n, ks, j)
          IN  /\ stale' = after.stale
              /\ count' = after.count
              /\ reclaimed' = after.reclaimed
              /\ idle' = Reset0(idle, after.reclaimed)
              /\ UNCHANGED stray
    BY <1>2
<1>4. j \in Nat
    BY StalenessAssumption
<1>5. reclaimed' \subseteq IdleSlots /\ stale' = Reset0(stale, reclaimed')
    BY <1>3, <1>4, StripsReclaimIdleSlots DEF StaleInv
<1> QED BY <1>3, <1>5, ResetKeepsLag

\* A keyframe and a reset start all counters anew.
LEMMA FreshIsTyped == Fresh \in Counters /\ \A s \in Slots : Fresh[s] = 0
BY StalenessAssumption DEF Fresh, Counters

-----------------------------------------------------------------------------

\* Every step of the encoder with its counters is one of the router.
LEMMA StepsAreTheRouters == [StaleNext]_<<vars, staleVars>> => [Next]_vars
BY DEF StaleNext, RoutedIntra, CallersIntra, RoutedInter, CallersInter, Fails, Setup, Next

\* The router that drives the counters is the router (encode_frame_mode).
THEOREM StalenessImplementsRouter == StaleSpec => Spec
<1>1. StaleInit => Init
    BY DEF StaleInit
<1> QED BY <1>1, StepsAreTheRouters, PTL DEF StaleSpec, Spec

\* A new encoder satisfies the invariant.
LEMMA InitEstablishesStaleInv == StaleInit => StaleInv
<1> SUFFICES ASSUME StaleInit PROVE StaleInv
    OBVIOUS
<1>1. RouterInv
    BY InitEstablishesRouterInv DEF StaleInit
<1>2. StaleTypeOK
    <2>1. stray \in BOOLEAN
        BY DEF StaleInit
    <2> QED BY <2>1, FreshIsTyped DEF StaleInit, StaleTypeOK
<1>3. CountersLag
    BY FreshIsTyped DEF StaleInit, Init, CountersLag
<1> QED BY <1>1, <1>2, <1>3 DEF StaleInv

\* What a call does to the counters, told apart by what the router counts.
LEMMA CountersStep ==
    ASSUME StaleInv, StaleNext
    PROVE  \/ EncodeIntra
           \/ EncodeInter /\ stray' = TRUE
           \/ EncodeInter /\ stray' = stray /\ routed' = routed + 1
           \/ EncodeInterPart /\ routed' = routed
           \/ Untouched /\ routed' = routed
           \/ /\ stale' = Fresh /\ idle' = Fresh /\ reclaimed' = {} /\ stray' = FALSE
<1>1. CASE RoutedIntra \/ CallersIntra
    BY <1>1 DEF RoutedIntra, CallersIntra
<1>2. CASE RoutedInter
    BY <1>2 DEF RoutedInter, RouteInter
<1>3. CASE CallersInter
    BY <1>3 DEF CallersInter
<1>4. CASE Fails
    BY <1>4 DEF Fails, RouteFails
<1>5. CASE Setup
    BY <1>5 DEF Setup, SetKeyframeInterval, ClearKeyframeInterval, ForceNextKeyframe
<1> QED BY <1>1, <1>2, <1>3, <1>4, <1>5 DEF StaleNext

\* Every step preserves the invariant.
LEMMA NextPreservesStaleInv == StaleInv /\ [StaleNext]_<<vars, staleVars>> => StaleInv'
<1> SUFFICES ASSUME StaleInv, [StaleNext]_<<vars, staleVars>> PROVE StaleInv'
    OBVIOUS
<1>1. RouterInv'
    BY StepsAreTheRouters, NextPreservesRouterInv DEF StaleInv
<1>2. routed \in Nat /\ routed' \in Nat
    BY <1>1 DEF StaleInv, RouterInv, TypeOK
<1>3. /\ \A s \in Slots : stale[s] \in Nat
      /\ stale \in Counters /\ idle \in Counters /\ stray \in BOOLEAN
    BY StalenessAssumption DEF StaleInv, StaleTypeOK, Counters
<1>4. CASE UNCHANGED <<vars, staleVars>>
    BY <1>1, <1>4 DEF StaleInv, StaleTypeOK, CountersLag, vars, staleVars
<1>5. CASE StaleNext
    <2>1. CASE EncodeIntra \/ (stale' = Fresh /\ idle' = Fresh /\ reclaimed' = {} /\ stray' = FALSE)
        <3>1. stale' = Fresh /\ idle' = Fresh /\ stray' = FALSE
            BY <2>1 DEF EncodeIntra, FreshAtKey
        <3>2. StaleTypeOK'
            BY <3>1, FreshIsTyped DEF StaleTypeOK
        <3>3. CountersLag'
            BY <3>1, <1>2, FreshIsTyped DEF CountersLag
        <3> QED BY <1>1, <3>2, <3>3 DEF StaleInv
    <2>2. CASE EncodeInter /\ (stray' = TRUE \/ (stray' = stray /\ routed' = routed + 1))
        <3>1. /\ stale' \in Counters /\ idle' \in Counters
              /\ \A s \in Slots : stale'[s] <= idle'[s] /\ stale'[s] <= stale[s] + 1
            BY <2>2, InterKeepsLag
        <3>2. stray' \in BOOLEAN
            BY <1>3, <2>2
        <3>3. \A s \in Slots : stale'[s] \in Nat
            BY <3>1, StalenessAssumption DEF Counters
        <3>4. ~stray' => \A s \in Slots : stale'[s] <= routed'
            BY <1>2, <1>3, <2>2, <3>1, <3>3 DEF StaleInv, CountersLag
        <3> QED BY <1>1, <3>1, <3>2, <3>4 DEF StaleInv, StaleTypeOK, CountersLag
    <2>3. CASE EncodeInterPart /\ routed' = routed
        <3>1. /\ stale' \in Counters /\ idle' \in Counters /\ stray' = stray
              /\ \A s \in Slots : stale'[s] <= idle'[s] /\ stale'[s] <= stale[s]
            BY <2>3, InterPartKeepsLag
        <3>2. \A s \in Slots : stale'[s] \in Nat
            BY <3>1, StalenessAssumption DEF Counters
        <3>3. ~stray' => \A s \in Slots : stale'[s] <= routed'
            BY <1>2, <1>3, <2>3, <3>1, <3>2 DEF StaleInv, CountersLag
        <3> QED BY <1>1, <1>3, <3>1, <3>3 DEF StaleInv, StaleTypeOK, CountersLag
    <2>4. CASE Untouched /\ routed' = routed
        BY <1>1, <2>4 DEF Untouched, StaleInv, StaleTypeOK, CountersLag
    <2> QED BY <1>5, <2>1, <2>2, <2>3, <2>4, CountersStep
<1> QED BY <1>4, <1>5

\* The counters never lead the history counts, for every threshold, number of
\* slots and strips.
THEOREM StalenessInvariant == StaleSpec => []StaleInv
BY InitEstablishesStaleInv, NextPreservesStaleInv, PTL DEF StaleSpec

\* A slot is reclaimed only when more than the threshold of inter frames in a
\* row did not refer to it (reclaim_stale_slots_v4, update_staleness).
THEOREM EncoderReclaimsIdleSlots == StaleSpec => ReclaimsIdleSlots
<1>1. StaleInv /\ [StaleNext]_<<vars, staleVars>> =>
        [\A s \in reclaimed' : idle[s] > Threshold]_<<vars, staleVars>>
    <2> SUFFICES ASSUME StaleInv, StaleNext, NEW s \in reclaimed' PROVE idle[s] > Threshold
        OBVIOUS
    <2>1. reclaimed' \subseteq IdleSlots
        <3>1. CASE EncodeInter
            BY <3>1, InterKeepsLag
        <3>2. CASE EncodeInterPart
            BY <3>2, InterPartKeepsLag
        <3>3. CASE reclaimed' = {}
            BY <3>3
        <3> QED BY <3>1, <3>2, <3>3, CountersStep DEF EncodeIntra, Untouched
    <2>2. \A t \in IdleSlots : idle[t] > Threshold
        BY ResetKeepsLag
    <2> QED BY <2>1, <2>2
<1> QED BY <1>1, StalenessInvariant, PTL DEF StaleSpec, ReclaimsIdleSlots

\* A group of pictures shorter than the threshold and two more reclaims nothing
\* (stale_slot_threshold against keyframe_interval).
THEOREM ShortGroupsKeepTheirSlots == StaleSpec => ShortGroupsReclaimNothing
<1>1. StaleInv /\ [StaleNext]_<<vars, staleVars>> =>
        [(RouteInter /\ ~stray /\ interval <= Threshold + 2) => reclaimed' = {}]_<<vars, staleVars>>
    <2> SUFFICES ASSUME StaleInv, StaleNext, RouteInter, ~stray, interval <= Threshold + 2
                 PROVE  reclaimed' = {}
        OBVIOUS
    <2>1. /\ routed \in Nat /\ gopPos \in Nat /\ interval \in Nat
          /\ gopPos < interval /\ routed + 1 = gopPos
        BY InterIsInsideGop DEF StaleInv, RouterInv, TypeOK
    <2>2. routed <= Threshold /\ Threshold \in Nat
        BY <2>1, StalenessAssumption
    <2>3. \A s \in Slots : stale[s] \in Nat /\ stale[s] <= routed
        BY StalenessAssumption DEF StaleInv, StaleTypeOK, CountersLag, Counters
    <2>4. IdleSlots = {}
        BY <2>1, <2>2, <2>3 DEF IdleSlots
    <2>5. CASE EncodeInter
        BY <2>4, <2>5, InterKeepsLag
    <2>6. CASE EncodeInterPart
        BY <2>4, <2>6, InterPartKeepsLag
    <2> QED BY <2>5, <2>6, CountersStep DEF EncodeIntra, Untouched
<1> QED BY <1>1, StalenessInvariant, PTL DEF StaleSpec, ShortGroupsReclaimNothing

-----------------------------------------------------------------------------
\* Sums of the first terms of a function.

\* Two functions that start alike, and go on alike, are alike.
LEMMA SameRecursion ==
    ASSUME NEW n \in Nat, NEW f, NEW g, f[0] = g[0],
           \A i \in 1 .. n : f[i - 1] = g[i - 1] => f[i] = g[i]
    PROVE  \A i \in 0 .. n : f[i] = g[i]
<1> DEFINE T == {i \in 0 .. n : f[i] = g[i]}
<1>1. 0 \in T
    OBVIOUS
<1>2. \A i \in 1 .. n : i - 1 \in T => i \in T
    OBVIOUS
<1>3. \A i \in 0 .. n : i \in T
  <2> HIDE DEF T
  <2> QED
      BY <1>1, <1>2, InductionUpTo
<1> QED
    BY <1>3

\* The partial sums of numbers are defined by recursion.
LEMMA PartialSums ==
    ASSUME NEW n \in Nat, NEW f, \A i \in 1 .. n : f[i] \in Int
    PROVE  \E g : /\ g \in [0 .. n -> Int]
                  /\ g = [i \in 0 .. n |-> IF i = 0 THEN 0 ELSE g[i - 1] + f[i]]
<1> DEFINE step == [p \in Int \X (1 .. n) |-> p[1] + f[p[2]]]
<1>1. step \in [Int \X (1 .. n) -> Int]
    OBVIOUS
<1>2. PICK g \in Recursion(n, Int, 0, step) : TRUE
  <2> HIDE DEF step
  <2> QED
      BY <1>1, RecursionIsDefined
<1>3. g \in [0 .. n -> Int] /\ g[0] = 0
    BY DEF Recursion
<1>4. ASSUME NEW i \in 1 .. n
      PROVE  g[i] = g[i - 1] + f[i]
  <2>1. g[i] = step[<<g[i - 1], i>>]
      BY DEF Recursion
  <2>2. <<g[i - 1], i>> \in Int \X (1 .. n)
      BY <1>3
  <2> QED
      BY <2>1, <2>2
<1>5. g = [i \in 0 .. n |-> IF i = 0 THEN 0 ELSE g[i - 1] + f[i]]
    BY <1>3, <1>4
<1> QED
    BY <1>3, <1>5

\* A sum of numbers is a number, and grows by one term at a time.
LEMMA SumSteps ==
    ASSUME NEW n \in Nat, NEW f, \A i \in 1 .. n : f[i] \in Int
    PROVE  /\ SumTo(0, f) = 0
           /\ \A i \in 0 .. n : SumTo(i, f) \in Int
           /\ \A i \in 1 .. n : SumTo(i, f) = SumTo(i - 1, f) + f[i]
<1>1. PICK g : /\ g \in [0 .. n -> Int]
               /\ g = [i \in 0 .. n |-> IF i = 0 THEN 0 ELSE g[i - 1] + f[i]]
    BY PartialSums
<1>2. g[0] = 0 /\ \A i \in 1 .. n : g[i] = g[i - 1] + f[i]
    BY <1>1
<1>3. ASSUME NEW k \in 0 .. n
      PROVE  SumTo(k, f) = g[k]
  <2> DEFINE sum == CHOOSE h : h = [i \in 0 .. k |-> IF i = 0 THEN 0 ELSE h[i - 1] + f[i]]
  <2>1. k \in Nat
      OBVIOUS
  <2>2. \E h : h = [i \in 0 .. k |-> IF i = 0 THEN 0 ELSE h[i - 1] + f[i]]
    <3>1. \A i \in 1 .. k : f[i] \in Int
        OBVIOUS
    <3>2. \E h : /\ h \in [0 .. k -> Int]
                 /\ h = [i \in 0 .. k |-> IF i = 0 THEN 0 ELSE h[i - 1] + f[i]]
        BY <2>1, <3>1, PartialSums, Zenon
    <3> QED
        BY <3>2, Zenon
  <2>3. sum = [i \in 0 .. k |-> IF i = 0 THEN 0 ELSE sum[i - 1] + f[i]]
      BY <2>2
  <2>4. SumTo(k, f) = sum[k]
      BY DEF SumTo
  <2>5. PICK h : h = sum
      OBVIOUS
  <2> HIDE DEF sum
  <2>6. h = [i \in 0 .. k |-> IF i = 0 THEN 0 ELSE h[i - 1] + f[i]]
      BY <2>3, <2>5
  <2>7. h[0] = 0 /\ \A i \in 1 .. k : h[i] = h[i - 1] + f[i]
      BY <2>6
  <2>8. h[0] = g[0]
      BY <2>7, <1>2
  <2>9. \A i \in 1 .. k : h[i - 1] = g[i - 1] => h[i] = g[i]
      BY <2>7, <1>2
  <2>10. \A i \in 0 .. k : h[i] = g[i]
      BY <2>1, <2>8, <2>9, SameRecursion
  <2> QED
      BY <2>1, <2>4, <2>5, <2>10
<1>4. \A i \in 1 .. n : i - 1 \in 0 .. n /\ i \in 0 .. n
    OBVIOUS
<1>5. SumTo(0, f) = 0
    BY <1>2, <1>3
<1>6. \A i \in 0 .. n : SumTo(i, f) \in Int
    BY <1>1, <1>3
<1>7. \A i \in 1 .. n : SumTo(i, f) = SumTo(i - 1, f) + f[i]
    BY <1>2, <1>3, <1>4
<1> QED
    BY <1>5, <1>6, <1>7

\* Two sums whose terms are alike are alike.
LEMMA SumsAlike ==
    ASSUME NEW n \in Nat, NEW f, NEW g,
           \A i \in 1 .. n : f[i] \in Int /\ f[i] = g[i]
    PROVE  SumTo(n, f) = SumTo(n, g)
<1> DEFINE a == [i \in 0 .. n |-> SumTo(i, f)]
           b == [i \in 0 .. n |-> SumTo(i, g)]
<1>1. \A i \in 1 .. n : f[i] \in Int
    OBVIOUS
<1>2. \A i \in 1 .. n : g[i] \in Int
    OBVIOUS
<1>3. /\ SumTo(0, f) = 0
      /\ \A i \in 1 .. n : SumTo(i, f) = SumTo(i - 1, f) + f[i]
    BY <1>1, SumSteps
<1>4. /\ SumTo(0, g) = 0
      /\ \A i \in 1 .. n : SumTo(i, g) = SumTo(i - 1, g) + g[i]
    BY <1>2, SumSteps
<1>5. a[0] = b[0]
    BY <1>3, <1>4
<1>6. \A i \in 1 .. n : a[i - 1] = b[i - 1] => a[i] = b[i]
    BY <1>3, <1>4
<1>7. \A i \in 0 .. n : a[i] = b[i]
  <2> HIDE DEF a, b
  <2> QED
      BY <1>5, <1>6, SameRecursion
<1> QED
    BY <1>7

\* Term by term no greater, no greater in sum.
LEMMA SumsCompare ==
    ASSUME NEW n \in Nat, NEW f, NEW g,
           \A i \in 1 .. n : f[i] \in Int /\ g[i] \in Int /\ f[i] <= g[i]
    PROVE  SumTo(n, f) <= SumTo(n, g)
<1> DEFINE T == {i \in 0 .. n : SumTo(i, f) <= SumTo(i, g)}
<1>1. \A i \in 1 .. n : f[i] \in Int
    OBVIOUS
<1>2. \A i \in 1 .. n : g[i] \in Int
    OBVIOUS
<1>3. /\ SumTo(0, f) = 0 /\ \A i \in 0 .. n : SumTo(i, f) \in Int
      /\ \A i \in 1 .. n : SumTo(i, f) = SumTo(i - 1, f) + f[i]
    BY <1>1, SumSteps
<1>4. /\ SumTo(0, g) = 0 /\ \A i \in 0 .. n : SumTo(i, g) \in Int
      /\ \A i \in 1 .. n : SumTo(i, g) = SumTo(i - 1, g) + g[i]
    BY <1>2, SumSteps
<1>5. 0 \in T
    BY <1>3, <1>4
<1>6. ASSUME NEW i \in 1 .. n, i - 1 \in T
      PROVE  i \in T
  <2>1. /\ SumTo(i - 1, f) \in Int /\ SumTo(i - 1, g) \in Int
        /\ SumTo(i - 1, f) <= SumTo(i - 1, g)
      BY <1>3, <1>4, <1>6
  <2>2. f[i] \in Int /\ g[i] \in Int /\ f[i] <= g[i]
      OBVIOUS
  <2>3. SumTo(i, f) <= SumTo(i, g)
      BY <2>1, <2>2, <1>3, <1>4
  <2> QED
      BY <2>3
<1>7. \A i \in 0 .. n : i \in T
  <2> HIDE DEF T
  <2> QED
      BY <1>5, <1>6, InductionUpTo
<1> QED
    BY <1>7

\* A sum of naturals is one, and no less than its first terms or than any term.
LEMMA SumOfNaturals ==
    ASSUME NEW n \in Nat, NEW f, \A i \in 1 .. n : f[i] \in Nat
    PROVE  /\ SumTo(n, f) \in Nat
           /\ \A i \in 0 .. n : SumTo(i, f) \in Nat /\ SumTo(i, f) <= SumTo(n, f)
           /\ \A i \in 1 .. n : f[i] <= SumTo(n, f)
<1>1. /\ SumTo(0, f) = 0 /\ \A i \in 0 .. n : SumTo(i, f) \in Int
      /\ \A i \in 1 .. n : SumTo(i, f) = SumTo(i - 1, f) + f[i]
  <2>1. \A i \in 1 .. n : f[i] \in Int
      OBVIOUS
  <2> QED
      BY <2>1, SumSteps
<1> DEFINE T == {i \in 0 .. n : /\ SumTo(i, f) \in Nat
                                /\ \A k \in 0 .. i : SumTo(k, f) <= SumTo(i, f)}
<1>2. 0 \in T
    BY <1>1
<1>3. ASSUME NEW i \in 1 .. n, i - 1 \in T
      PROVE  i \in T
  <2>1. SumTo(i - 1, f) \in Nat /\ f[i] \in Nat /\ SumTo(i, f) = SumTo(i - 1, f) + f[i]
      BY <1>1, <1>3
  <2>2. SumTo(i, f) \in Nat /\ SumTo(i - 1, f) <= SumTo(i, f)
      BY <2>1
  <2>3. ASSUME NEW k \in 0 .. i PROVE SumTo(k, f) <= SumTo(i, f)
    <3>1. CASE k = i
        BY <3>1, <2>2
    <3>2. CASE k \in 0 .. i - 1
      <4>1. SumTo(k, f) <= SumTo(i - 1, f)
          BY <3>2, <1>3
      <4>2. SumTo(k, f) \in Int
          BY <1>1, <3>2
      <4> QED
          BY <4>1, <4>2, <2>1, <2>2
    <3> QED
        BY <3>1, <3>2
  <2> QED
      BY <2>2, <2>3
<1>4. \A i \in 0 .. n : i \in T
  <2> HIDE DEF T
  <2> QED
      BY <1>2, <1>3, InductionUpTo
<1>5. n \in T
    BY <1>4
<1>6. \A i \in 0 .. n : SumTo(i, f) \in Nat /\ SumTo(i, f) <= SumTo(n, f)
    BY <1>4, <1>5
<1>7. ASSUME NEW i \in 1 .. n PROVE f[i] <= SumTo(n, f)
  <2>1. SumTo(i - 1, f) \in Nat /\ SumTo(i, f) \in Nat /\ SumTo(i, f) <= SumTo(n, f)
      BY <1>6
  <2>2. SumTo(i, f) = SumTo(i - 1, f) + f[i] /\ f[i] \in Nat /\ SumTo(n, f) \in Nat
      BY <1>1, <1>6
  <2> QED
      BY <2>1, <2>2
<1> QED
    BY <1>6, <1>7

\* A sum of zeros is zero.
LEMMA SumOfZeros ==
    ASSUME NEW n \in Nat, NEW f, \A i \in 1 .. n : f[i] = 0
    PROVE  SumTo(n, f) = 0
<1> DEFINE a == [i \in 0 .. n |-> SumTo(i, f)]
           b == [i \in 0 .. n |-> 0]
<1>1. /\ SumTo(0, f) = 0
      /\ \A i \in 1 .. n : SumTo(i, f) = SumTo(i - 1, f) + f[i]
  <2>1. \A i \in 1 .. n : f[i] \in Int
      OBVIOUS
  <2> QED
      BY <2>1, SumSteps
<1>2. a[0] = b[0] /\ \A i \in 1 .. n : a[i - 1] = b[i - 1] => a[i] = b[i]
    BY <1>1
<1>3. \A i \in 0 .. n : a[i] = b[i]
  <2> HIDE DEF a, b
  <2> QED
      BY <1>2, SameRecursion
<1> QED
    BY <1>3

\* Zeros after the first terms add nothing.
LEMMA ZeroTail ==
    ASSUME NEW n \in Nat, NEW k \in 0 .. n, NEW f,
           \A i \in 1 .. n : f[i] \in Int, \A i \in k + 1 .. n : f[i] = 0
    PROVE  SumTo(n, f) = SumTo(k, f)
<1> DEFINE T == {i \in 0 .. n : i >= k => SumTo(i, f) = SumTo(k, f)}
<1>1. /\ SumTo(0, f) = 0 /\ \A i \in 0 .. n : SumTo(i, f) \in Int
      /\ \A i \in 1 .. n : SumTo(i, f) = SumTo(i - 1, f) + f[i]
    BY SumSteps
<1>2. 0 \in T
    OBVIOUS
<1>3. ASSUME NEW i \in 1 .. n, i - 1 \in T
      PROVE  i \in T
  <2>1. CASE i <= k
      BY <2>1
  <2>2. CASE i > k
    <3>1. SumTo(i - 1, f) = SumTo(k, f) /\ SumTo(k, f) \in Int
        BY <1>1, <1>3, <2>2
    <3>2. f[i] = 0
        BY <2>2
    <3>3. SumTo(i, f) = SumTo(k, f)
        BY <1>1, <3>1, <3>2
    <3> QED
        BY <3>3
  <2> QED
      BY <2>1, <2>2
<1>4. \A i \in 0 .. n : i \in T
  <2> HIDE DEF T
  <2> QED
      BY <1>2, <1>3, InductionUpTo
<1> QED
    BY <1>4

\* Sums add up term by term.
LEMMA SumsAdd ==
    ASSUME NEW n \in Nat, NEW f, NEW g, NEW h,
           \A i \in 1 .. n : f[i] \in Int /\ g[i] \in Int /\ h[i] = f[i] + g[i]
    PROVE  SumTo(n, h) = SumTo(n, f) + SumTo(n, g)
<1> DEFINE a == [i \in 0 .. n |-> SumTo(i, h)]
           b == [i \in 0 .. n |-> SumTo(i, f) + SumTo(i, g)]
<1>1. /\ SumTo(0, f) = 0 /\ \A i \in 0 .. n : SumTo(i, f) \in Int
      /\ \A i \in 1 .. n : SumTo(i, f) = SumTo(i - 1, f) + f[i]
  <2>1. \A i \in 1 .. n : f[i] \in Int
      OBVIOUS
  <2> QED
      BY <2>1, SumSteps
<1>2. /\ SumTo(0, g) = 0 /\ \A i \in 0 .. n : SumTo(i, g) \in Int
      /\ \A i \in 1 .. n : SumTo(i, g) = SumTo(i - 1, g) + g[i]
  <2>1. \A i \in 1 .. n : g[i] \in Int
      OBVIOUS
  <2> QED
      BY <2>1, SumSteps
<1>3. /\ SumTo(0, h) = 0 /\ \A i \in 0 .. n : SumTo(i, h) \in Int
      /\ \A i \in 1 .. n : SumTo(i, h) = SumTo(i - 1, h) + h[i]
  <2>1. \A i \in 1 .. n : h[i] \in Int
      OBVIOUS
  <2> QED
      BY <2>1, SumSteps
<1>4. a[0] = b[0]
    BY <1>1, <1>2, <1>3
<1>5. ASSUME NEW i \in 1 .. n, a[i - 1] = b[i - 1]
      PROVE  a[i] = b[i]
  <2>1. SumTo(i - 1, h) = SumTo(i - 1, f) + SumTo(i - 1, g)
      BY <1>5
  <2>2. SumTo(i - 1, f) \in Int /\ SumTo(i - 1, g) \in Int
      BY <1>1, <1>2
  <2>3. f[i] \in Int /\ g[i] \in Int /\ h[i] = f[i] + g[i]
      OBVIOUS
  <2>4. /\ SumTo(i, h) = SumTo(i - 1, h) + h[i] /\ SumTo(i, f) = SumTo(i - 1, f) + f[i]
        /\ SumTo(i, g) = SumTo(i - 1, g) + g[i]
      BY <1>1, <1>2, <1>3
  <2>5. SumTo(i, h) = SumTo(i, f) + SumTo(i, g)
      BY <2>1, <2>2, <2>3, <2>4
  <2> QED
      BY <2>5
<1>6. \A i \in 0 .. n : a[i] = b[i]
  <2> HIDE DEF a, b
  <2> QED
      BY <1>4, <1>5, SameRecursion
<1> QED
    BY <1>6

\* A factor of all terms is a factor of the sum.
LEMMA SumScales ==
    ASSUME NEW n \in Nat, NEW f, NEW h, NEW c \in Int,
           \A i \in 1 .. n : f[i] \in Int /\ h[i] = c * f[i]
    PROVE  SumTo(n, h) = c * SumTo(n, f)
<1> DEFINE a == [i \in 0 .. n |-> SumTo(i, h)]
           b == [i \in 0 .. n |-> c * SumTo(i, f)]
<1>1. /\ SumTo(0, f) = 0 /\ \A i \in 0 .. n : SumTo(i, f) \in Int
      /\ \A i \in 1 .. n : SumTo(i, f) = SumTo(i - 1, f) + f[i]
  <2>1. \A i \in 1 .. n : f[i] \in Int
      OBVIOUS
  <2> QED
      BY <2>1, SumSteps
<1>2. /\ SumTo(0, h) = 0
      /\ \A i \in 1 .. n : SumTo(i, h) = SumTo(i - 1, h) + h[i]
  <2>1. \A i \in 1 .. n : h[i] \in Int
      OBVIOUS
  <2> QED
      BY <2>1, SumSteps
<1>3. a[0] = b[0]
    BY <1>1, <1>2
<1>4. ASSUME NEW i \in 1 .. n, a[i - 1] = b[i - 1]
      PROVE  a[i] = b[i]
  <2>1. SumTo(i - 1, h) = c * SumTo(i - 1, f)
      BY <1>4
  <2>2. SumTo(i - 1, f) \in Int /\ f[i] \in Int /\ h[i] = c * f[i]
      BY <1>1
  <2>3. SumTo(i, h) = SumTo(i - 1, h) + h[i] /\ SumTo(i, f) = SumTo(i - 1, f) + f[i]
      BY <1>1, <1>2
  <2>4. \A x \in Int, y \in Int : c * x + c * y = c * (x + y)
      OBVIOUS
  <2>5. SumTo(i, h) = c * SumTo(i, f)
      BY <2>1, <2>2, <2>3, <2>4
  <2> QED
      BY <2>5
<1>5. \A i \in 0 .. n : a[i] = b[i]
  <2> HIDE DEF a, b
  <2> QED
      BY <1>3, <1>4, SameRecursion
<1> QED
    BY <1>5

\* The sums before and after one number is replaced.
Replaces(n, k, f, h) == SumTo(n, h) = SumTo(n, f) - f[k] + h[k]

\* Where one term is replaced, the sum changes by as much.
LEMMA SumReplaces ==
    ASSUME NEW n \in Nat, NEW k \in 1 .. n, NEW f, NEW h,
           \A i \in 1 .. n : f[i] \in Int /\ h[i] \in Int,
           \A i \in 1 .. n : i # k => h[i] = f[i]
    PROVE  Replaces(n, k, f, h)
<1> DEFINE e == h[k] - f[k]
           one == [i \in 1 .. n |-> IF i = k THEN e ELSE 0]
<1>1. f[k] \in Int /\ h[k] \in Int
    OBVIOUS
<1>2. e \in Int
    BY <1>1
<1>3. \A i \in 1 .. n : f[i] \in Int /\ one[i] \in Int /\ h[i] = f[i] + one[i]
  <2> SUFFICES ASSUME NEW i \in 1 .. n
               PROVE  one[i] \in Int /\ h[i] = f[i] + one[i]
      OBVIOUS
  <2>1. CASE i = k
      BY <2>1, <1>1
  <2>2. CASE i # k
      BY <2>2
  <2> QED
      BY <2>1, <2>2
<1>4. SumTo(n, h) = SumTo(n, f) + SumTo(n, one)
  <2> HIDE DEF one
  <2> QED
      BY <1>3, SumsAdd
<1>5. \A i \in 1 .. n : one[i] \in Int
    BY <1>3
<1>6. SumTo(n, one) = SumTo(k, one)
  <2>1. \A i \in k + 1 .. n : one[i] = 0
      OBVIOUS
  <2>2. k \in 0 .. n
      OBVIOUS
  <2> HIDE DEF one
  <2> QED
      BY <1>5, <2>1, <2>2, ZeroTail
<1>7. SumTo(k, one) = SumTo(k - 1, one) + one[k]
  <2> HIDE DEF one
  <2> QED
      BY <1>5, SumSteps
<1>8. SumTo(k - 1, one) = 0
  <2>1. \A i \in 1 .. k - 1 : one[i] = 0
      OBVIOUS
  <2>2. k - 1 \in Nat
      OBVIOUS
  <2> HIDE DEF one
  <2> QED
      BY <2>1, <2>2, SumOfZeros
<1>9. one[k] = e
    OBVIOUS
<1>10. SumTo(n, f) \in Int
    BY SumSteps
<1> QED
    BY <1>1, <1>2, <1>4, <1>6, <1>7, <1>8, <1>9, <1>10 DEF Replaces

-----------------------------------------------------------------------------
\* Extremes, distances, and the first of the nearest entries.

\* Of finitely many numbers there is a first highest.
LEMMA FirstHighest ==
    ASSUME NEW n \in Nat, n # 0, NEW f, \A i \in 1 .. n : f[i] \in Int
    PROVE  \E i \in 1 .. n : \A k \in 1 .. n : f[k] <= f[i] /\ (f[k] = f[i] => i <= k)
<1> DEFINE First(i, m) == \A k \in 1 .. m : f[k] <= f[i] /\ (f[k] = f[i] => i <= k)
           T == {m \in 0 .. n : m = 0 \/ \E i \in 1 .. m : First(i, m)}
<1>1. 0 \in T
    OBVIOUS
<1>2. ASSUME NEW m \in 1 .. n, m - 1 \in T
      PROVE  m \in T
  <2>1. m \in 1 .. m /\ f[m] \in Int
      OBVIOUS
  <2>2. CASE m = 1
    <3>1. First(m, m)
        BY <2>1, <2>2
    <3> QED
        BY <2>1, <3>1
  <2>3. CASE m # 1
    <3>1. PICK i \in 1 .. m - 1 : First(i, m - 1)
        BY <1>2, <2>3
    <3>2. i \in 1 .. m /\ f[i] \in Int
        OBVIOUS
    <3>3. CASE f[m] <= f[i]
      <4>1. First(i, m)
        <5> SUFFICES ASSUME NEW k \in 1 .. m
                     PROVE  f[k] <= f[i] /\ (f[k] = f[i] => i <= k)
            OBVIOUS
        <5>1. CASE k = m
            BY <5>1, <3>3, <3>2
        <5>2. CASE k \in 1 .. m - 1
            BY <5>2, <3>1
        <5> QED
            BY <5>1, <5>2
      <4> QED
          BY <4>1, <3>2
    <3>4. CASE f[m] > f[i]
      <4>1. First(m, m)
        <5> SUFFICES ASSUME NEW k \in 1 .. m
                     PROVE  f[k] <= f[m] /\ (f[k] = f[m] => m <= k)
            OBVIOUS
        <5>1. CASE k = m
            BY <5>1, <2>1
        <5>2. CASE k \in 1 .. m - 1
          <6>1. f[k] <= f[i] /\ f[k] \in Int
              BY <5>2, <3>1
          <6> QED
              BY <6>1, <3>4, <3>2, <2>1
        <5> QED
            BY <5>1, <5>2
      <4> QED
          BY <4>1, <2>1
    <3> QED
        BY <3>3, <3>4, <3>2, <2>1
  <2> QED
      BY <2>2, <2>3
<1>3. \A m \in 0 .. n : m \in T
  <2> HIDE DEF T
  <2> QED
      BY <1>1, <1>2, InductionUpTo
<1>4. n \in T
    BY <1>3
<1> QED
    BY <1>4

\* The first lowest of n numbers.
FirstLow(n, f, i) == i \in 1 .. n /\ \A k \in 1 .. n : f[i] <= f[k] /\ (f[i] = f[k] => i <= k)

\* Of finitely many numbers there is a first lowest.
LEMMA FirstLowest ==
    ASSUME NEW n \in Nat, n # 0, NEW f, \A i \in 1 .. n : f[i] \in Int
    PROVE  \E i \in 1 .. n : FirstLow(n, f, i)
<1> DEFINE g == [i \in 1 .. n |-> 0 - f[i]]
<1>1. \A i \in 1 .. n : g[i] \in Int
    OBVIOUS
<1>2. PICK i \in 1 .. n : \A k \in 1 .. n : g[k] <= g[i] /\ (g[k] = g[i] => i <= k)
  <2> HIDE DEF g
  <2> QED
      BY <1>1, FirstHighest
<1>3. ASSUME NEW k \in 1 .. n
      PROVE  f[i] <= f[k] /\ (f[i] = f[k] => i <= k)
  <2>1. g[k] = 0 - f[k] /\ g[i] = 0 - f[i] /\ f[k] \in Int /\ f[i] \in Int
      OBVIOUS
  <2>2. g[k] <= g[i] /\ (g[k] = g[i] => i <= k)
      BY <1>2
  <2> HIDE DEF g
  <2> QED
      BY <2>1, <2>2
<1> QED
    BY <1>3 DEF FirstLow

\* What is in a set of numbers and not below any of it is its maximum.
LEMMA MaxIs ==
    ASSUME NEW S, S \subseteq Int, NEW x \in S, \A y \in S : y <= x
    PROVE  Max(S) = x
<1>1. Max(S) \in S /\ \A y \in S : Max(S) >= y
  <2>1. \E z \in S : \A y \in S : z >= y
      OBVIOUS
  <2> QED
      BY <2>1, Zenon DEF Max
<1>2. Max(S) \in Int /\ x \in Int
    BY <1>1
<1>3. Max(S) >= x /\ x >= Max(S)
    BY <1>1, <1>2
<1> QED
    BY <1>2, <1>3

\* What is in a set of numbers and not above any of it is its minimum.
LEMMA MinIs ==
    ASSUME NEW S, S \subseteq Int, NEW x \in S, \A y \in S : x <= y
    PROVE  Min(S) = x
<1>1. Min(S) \in S /\ \A y \in S : Min(S) <= y
  <2>1. \E z \in S : \A y \in S : z <= y
      OBVIOUS
  <2> QED
      BY <2>1, Zenon DEF Min
<1>2. Min(S) \in Int /\ x \in Int
    BY <1>1
<1>3. Min(S) <= x /\ x <= Min(S)
    BY <1>1, <1>2
<1> QED
    BY <1>2, <1>3

\* The maximum of finitely many numbers is one of them.
LEMMA MaxOfMany ==
    ASSUME NEW n \in Nat, n # 0, NEW f, \A i \in 1 .. n : f[i] \in Int
    PROVE  /\ Max({f[i] : i \in 1 .. n}) \in {f[i] : i \in 1 .. n}
           /\ \A i \in 1 .. n : f[i] <= Max({f[i1] : i1 \in 1 .. n})
<1>1. PICK i \in 1 .. n : \A k \in 1 .. n : f[k] <= f[i] /\ (f[k] = f[i] => i <= k)
    BY FirstHighest
<1>2. \A y \in {f[k] : k \in 1 .. n} : y <= f[i]
    BY <1>1
<1>3. {f[k] : k \in 1 .. n} \subseteq Int /\ f[i] \in {f[k] : k \in 1 .. n}
    OBVIOUS
<1>4. Max({f[k] : k \in 1 .. n}) = f[i]
    BY <1>2, <1>3, MaxIs
<1> QED
    BY <1>1, <1>3, <1>4

\* The minimum of finitely many numbers is one of them.
LEMMA MinOfMany ==
    ASSUME NEW n \in Nat, n # 0, NEW f, \A i \in 1 .. n : f[i] \in Int
    PROVE  /\ Min({f[i] : i \in 1 .. n}) \in {f[i] : i \in 1 .. n}
           /\ \A i \in 1 .. n : Min({f[i1] : i1 \in 1 .. n}) <= f[i]
<1>1. PICK i \in 1 .. n : FirstLow(n, f, i)
    BY FirstLowest
<1>2. \A y \in {f[k] : k \in 1 .. n} : f[i] <= y
    BY <1>1 DEF FirstLow
<1>3. {f[k] : k \in 1 .. n} \subseteq Int /\ f[i] \in {f[k] : k \in 1 .. n}
    OBVIOUS
<1>4. Min({f[k] : k \in 1 .. n}) = f[i]
    BY <1>2, <1>3, MinIs
<1> QED
    BY <1>2, <1>3, <1>4

\* A set of naturals that is not empty has its minimum.
LEMMA MinOfNaturals ==
    ASSUME NEW T, T \subseteq Nat, T # {}
    PROVE  Min(T) \in T /\ \A k \in T : Min(T) <= k
<1>1. PICK n \in T : \A k \in T : n <= k
    BY LeastNatural
<1>2. T \subseteq Int
    OBVIOUS
<1>3. Min(T) = n
    BY <1>1, <1>2, MinIs
<1> QED
    BY <1>1, <1>3

-----------------------------------------------------------------------------

\* What a metric consists of.
LEMMA MetricParts ==
    ASSUME NEW m \in Metrics
    PROVE  /\ LumaDims \in Nat \ {0} /\ ChromaDims \in Nat
           /\ CountOfDims(m) \in Nat \ {0}
           /\ CountOfDims(m) <= LumaDims + ChromaDims /\ LumaDims <= CountOfDims(m)
           /\ 1 .. CountOfDims(m) \subseteq Dims /\ Luma \subseteq 1 .. CountOfDims(m)
           /\ Dims \subseteq Nat
           /\ \A d : DimWeight(d, m) \in Nat \ {0}
<1>1. LumaDims \in Nat \ {0} /\ ChromaDims \in Nat
    BY VectorAssumption
<1>2. CountOfDims(m) \in {LumaDims, LumaDims + ChromaDims}
    BY DEF CountOfDims
<1>3. m.weight \in Nat
    BY DEF Metrics
<1>4. \A d : DimWeight(d, m) \in Nat \ {0}
    BY <1>3 DEF DimWeight, LumaWeight
<1>5. /\ CountOfDims(m) \in Nat \ {0}
      /\ CountOfDims(m) <= LumaDims + ChromaDims /\ LumaDims <= CountOfDims(m)
    BY <1>1, <1>2
<1>6. 1 .. CountOfDims(m) \subseteq Dims /\ Luma \subseteq 1 .. CountOfDims(m) /\ Dims \subseteq Nat
    BY <1>1, <1>5 DEF Dims, Luma
<1> QED
    BY <1>1, <1>4, <1>5, <1>6

\* A weighted square is a natural, and zero only of zero.
LEMMA SquareIsNatural ==
    ASSUME NEW w \in Nat \ {0}, NEW x \in Int
    PROVE  w * x * x \in Nat /\ (w * x * x = 0 <=> x = 0)
<1>1. x * x \in Nat /\ (x * x = 0 <=> x = 0)
    OBVIOUS
<1>2. \A y \in Nat : w * y \in Nat /\ (w * y = 0 <=> y = 0)
    OBVIOUS
<1>3. w * x * x = w * (x * x)
    OBVIOUS
<1>4. w * (x * x) \in Nat /\ (w * (x * x) = 0 <=> x * x = 0)
    BY <1>1, <1>2, Zenon
<1> QED
    BY <1>1, <1>3, <1>4

\* The weighted squares of the gaps between two vectors.
Squares(a, b, m) == [d \in Dims |-> DimWeight(d, m) * (a[d] - b[d]) * (a[d] - b[d])]

\* They are naturals, zero where the vectors agree, and add up to the distance.
LEMMA SquaresType ==
    ASSUME NEW m \in Metrics, NEW a \in [Dims -> Int], NEW b \in [Dims -> Int]
    PROVE  /\ \A d \in Dims : Squares(a, b, m)[d] \in Nat
           /\ \A d \in Dims : Squares(a, b, m)[d] = 0 <=> a[d] = b[d]
           /\ \A n \in Nat : 1 .. n \subseteq Dims =>
                SquareTo(n, a, b, m) = SumTo(n, Squares(a, b, m))
<1>1. ASSUME NEW d \in Dims
      PROVE  Squares(a, b, m)[d] \in Nat /\ (Squares(a, b, m)[d] = 0 <=> a[d] = b[d])
  <2> DEFINE x == a[d] - b[d]
             w == DimWeight(d, m)
  <2>1. x \in Int /\ (x = 0 <=> a[d] = b[d])
      OBVIOUS
  <2>2. w \in Nat \ {0}
      BY MetricParts
  <2>3. Squares(a, b, m)[d] = w * x * x
      BY DEF Squares
  <2> HIDE DEF x, w
  <2>4. w * x * x \in Nat /\ (w * x * x = 0 <=> x = 0)
      BY <2>1, <2>2, SquareIsNatural
  <2> QED
      BY <2>1, <2>3, <2>4
<1>2. ASSUME NEW n \in Nat, 1 .. n \subseteq Dims
      PROVE  SquareTo(n, a, b, m) = SumTo(n, Squares(a, b, m))
  <2> DEFINE f == Squares(a, b, m)
             g == [d \in 1 .. n |-> DimWeight(d, m) * (a[d] - b[d]) * (a[d] - b[d])]
  <2>1. \A i \in 1 .. n : f[i] \in Int
      BY <1>1, <1>2
  <2>2. \A i \in 1 .. n : f[i] = g[i]
      BY <1>2 DEF Squares
  <2>3. SquareTo(n, a, b, m) = SumTo(n, g)
      BY DEF SquareTo
  <2> HIDE DEF f, g
  <2>4. SumTo(n, f) = SumTo(n, g)
      BY <2>1, <2>2, SumsAlike
  <2> QED
      BY <2>3, <2>4 DEF f
<1> QED
    BY <1>1, <1>2

\* The distance is a natural, no less than its luma part, and zero only of
\* vectors that are alike in the dimensions of the mode.
LEMMA DistanceIs ==
    ASSUME NEW m \in Metrics, NEW a \in [Dims -> Int], NEW b \in [Dims -> Int]
    PROVE  /\ Distance(a, b, m) \in Nat
           /\ SquareTo(LumaDims, a, b, m) \in Nat
           /\ SquareTo(LumaDims, a, b, m) <= Distance(a, b, m)
           /\ Distance(a, b, m) = 0 <=> \A d \in 1 .. CountOfDims(m) : a[d] = b[d]
<1> DEFINE n == CountOfDims(m)
           f == Squares(a, b, m)
<1>1. n \in Nat \ {0} /\ 1 .. n \subseteq Dims /\ LumaDims \in 0 .. n
      /\ LumaDims \in Nat /\ 1 .. LumaDims \subseteq Dims
    BY MetricParts DEF Luma
<1>2. /\ \A i \in 1 .. n : f[i] \in Nat
      /\ \A i \in 1 .. n : f[i] = 0 <=> a[i] = b[i]
    BY <1>1, SquaresType
<1>3. Distance(a, b, m) = SumTo(n, f) /\ SquareTo(LumaDims, a, b, m) = SumTo(LumaDims, f)
    BY <1>1, SquaresType DEF Distance
<1> HIDE DEF n, f
<1>4. /\ SumTo(n, f) \in Nat
      /\ \A i \in 0 .. n : SumTo(i, f) \in Nat /\ SumTo(i, f) <= SumTo(n, f)
      /\ \A i \in 1 .. n : f[i] <= SumTo(n, f)
    BY <1>1, <1>2, SumOfNaturals
<1>5. ASSUME SumTo(n, f) = 0
      PROVE  \A d \in 1 .. n : a[d] = b[d]
    BY <1>2, <1>4, <1>5
<1>6. ASSUME \A d \in 1 .. n : a[d] = b[d]
      PROVE  SumTo(n, f) = 0
  <2>1. \A i \in 1 .. n : f[i] = 0
      BY <1>2, <1>6
  <2> QED
      BY <1>1, <2>1, SumOfZeros
<1>7. Distance(a, b, m) \in Nat
    BY <1>3, <1>4
<1>8. SquareTo(LumaDims, a, b, m) \in Nat /\ SquareTo(LumaDims, a, b, m) <= Distance(a, b, m)
    BY <1>1, <1>3, <1>4
<1>9. Distance(a, b, m) = 0 <=> \A d \in 1 .. n : a[d] = b[d]
    BY <1>3, <1>5, <1>6
<1> QED
    BY <1>7, <1>8, <1>9 DEF n

-----------------------------------------------------------------------------

\* The first of the nearest entries of a book.
FirstNearest(s, v, book, m) ==
    /\ s \in DOMAIN book
    /\ \A t \in DOMAIN book :
         /\ Distance(v, book[s], m) <= Distance(v, book[t], m)
         /\ Distance(v, book[s], m) = Distance(v, book[t], m) => s <= t

\* Of the first i entries.
LeastOf(i, v, book, m) ==
    CHOOSE s \in 1 .. i : \A t \in 1 .. i :
        /\ Distance(v, book[s], m) <= Distance(v, book[t], m)
        /\ Distance(v, book[s], m) = Distance(v, book[t], m) => s <= t

\* There is one.
LEMMA LeastOfIs ==
    ASSUME NEW m \in Metrics, NEW v \in [Dims -> Int], NEW n \in Nat,
           NEW book \in [1 .. n -> [Dims -> Int]], NEW i \in 1 .. n
    PROVE  /\ LeastOf(i, v, book, m) \in 1 .. i
           /\ \A t \in 1 .. i :
                LET s == LeastOf(i, v, book, m) IN
                /\ Distance(v, book[s], m) <= Distance(v, book[t], m)
                /\ Distance(v, book[s], m) = Distance(v, book[t], m) => s <= t
<1> DEFINE f == [s \in 1 .. i |-> Distance(v, book[s], m)]
<1>1. \A s \in 1 .. n : book[s] \in [Dims -> Int]
    OBVIOUS
<1>2. \A s \in 1 .. i : f[s] \in Int
    BY <1>1, DistanceIs
<1>3. i \in Nat /\ i # 0
    OBVIOUS
<1>4. \E s \in 1 .. i : \A t \in 1 .. i : f[s] <= f[t] /\ (f[s] = f[t] => s <= t)
  <2> HIDE DEF f
  <2>1. PICK s \in 1 .. i : FirstLow(i, f, s)
      BY <1>2, <1>3, FirstLowest
  <2> QED
      BY <2>1 DEF FirstLow
<1>5. \E s \in 1 .. i : \A t \in 1 .. i :
        /\ Distance(v, book[s], m) <= Distance(v, book[t], m)
        /\ Distance(v, book[s], m) = Distance(v, book[t], m) => s <= t
    BY <1>4
<1> QED
    BY <1>5, Zenon DEF LeastOf

\* A scan finds the first of the nearest entries by the full distance: what it
\* leaves early has a luma part that is no better than the best so far.
LEMMA NearestIsFirst ==
    ASSUME NEW m \in Metrics, NEW v \in [Dims -> Int], NEW n \in Nat, n # 0,
           NEW book \in [1 .. n -> [Dims -> Int]]
    PROVE  /\ FirstNearest(Nearest(v, book, m).slot, v, book, m)
           /\ Nearest(v, book, m).err = Distance(v, book[Nearest(v, book, m).slot], m)
<1> DEFINE D(s) == Distance(v, book[s], m)
           L(i) == LeastOf(i, v, book, m)
           left(i, best) == /\ m.mode = "Yuv12" /\ n >= Wide
                            /\ Skippable(SquareTo(LumaDims, v, book[i], m), best.err)
           step(i, best) == IF ~left(i, best) /\ D(i) < best.err
                            THEN [slot |-> i, err |-> D(i)] ELSE best
           g == [i \in 1 .. n |-> [slot |-> L(i), err |-> D(L(i))]]
<1>1. n \in Nat /\ 1 \in 1 .. n /\ n \in 1 .. n /\ Len(book) = n
    OBVIOUS
<1>2. ASSUME NEW s \in 1 .. n
      PROVE  /\ D(s) \in Nat
             /\ SquareTo(LumaDims, v, book[s], m) \in Nat
             /\ SquareTo(LumaDims, v, book[s], m) <= D(s)
  <2>1. book[s] \in [Dims -> Int]
      OBVIOUS
  <2> QED
      BY <2>1, DistanceIs
<1>3. ASSUME NEW i \in 1 .. n
      PROVE  /\ L(i) \in 1 .. i
             /\ \A t \in 1 .. i : D(L(i)) <= D(t) /\ (D(L(i)) = D(t) => L(i) <= t)
    BY <1>1, LeastOfIs
<1>4. L(1) = 1
    BY <1>1, <1>3
<1>5. ASSUME NEW i \in 1 .. n, i # 1
      PROVE  g[i] = step(i, g[i - 1])
  <2>1. i - 1 \in 1 .. n
      BY <1>5
  <2>2. /\ L(i - 1) \in 1 .. i - 1
        /\ \A t \in 1 .. i - 1 : /\ D(L(i - 1)) <= D(t)
                                 /\ D(L(i - 1)) = D(t) => L(i - 1) <= t
      BY <2>1, <1>3
  <2>3. /\ L(i) \in 1 .. i
        /\ \A t \in 1 .. i : D(L(i)) <= D(t) /\ (D(L(i)) = D(t) => L(i) <= t)
      BY <1>3
  <2>4. g[i - 1] = [slot |-> L(i - 1), err |-> D(L(i - 1))]
      BY <2>1
  <2>5. /\ D(i) \in Nat /\ D(L(i - 1)) \in Nat /\ D(L(i)) \in Nat
        /\ SquareTo(LumaDims, v, book[i], m) \in Nat
        /\ SquareTo(LumaDims, v, book[i], m) <= D(i)
    <3>1. L(i - 1) \in 1 .. n /\ L(i) \in 1 .. n
        BY <2>1, <2>2, <2>3
    <3> QED
        BY <1>2, <3>1
  <2>6. left(i, g[i - 1]) => D(i) >= D(L(i - 1))
      BY <2>4, <2>5 DEF Skippable
  <2>7. g[i] = [slot |-> L(i), err |-> D(L(i))]
      OBVIOUS
  <2> HIDE DEF g, left, L, D
  <2>8. CASE D(i) < D(L(i - 1))
    <3>1. L(i) = i
      <4>1. ~ (L(i) \in 1 .. i - 1)
        <5> SUFFICES ASSUME L(i) \in 1 .. i - 1 PROVE FALSE
            OBVIOUS
        <5>1. D(L(i - 1)) <= D(L(i))
            BY <2>2
        <5>2. D(L(i)) <= D(i)
            BY <2>3
        <5> QED
            BY <5>1, <5>2, <2>5, <2>8
      <4> QED
          BY <4>1, <2>3
    <3>2. ~left(i, g[i - 1]) /\ D(i) < g[i - 1].err
        BY <2>4, <2>5, <2>6, <2>8
    <3> QED
        BY <2>7, <3>1, <3>2
  <2>9. CASE ~ (D(i) < D(L(i - 1)))
    <3>1. L(i) # i
      <4> SUFFICES ASSUME L(i) = i PROVE FALSE
          OBVIOUS
      <4>1. /\ D(L(i)) <= D(L(i - 1))
            /\ D(L(i)) = D(L(i - 1)) => L(i) <= L(i - 1)
        <5>1. L(i - 1) \in 1 .. i
            BY <2>2
        <5> QED
            BY <5>1, <2>3
      <4>2. i <= L(i - 1)
          BY <4>1, <2>5, <2>9
      <4> QED
          BY <4>2, <2>2
    <3>2. L(i) \in 1 .. i - 1
        BY <3>1, <2>3
    <3>3. D(L(i - 1)) <= D(L(i)) /\ (D(L(i - 1)) = D(L(i)) => L(i - 1) <= L(i))
        BY <3>2, <2>2
    <3>4. D(L(i)) <= D(L(i - 1)) /\ (D(L(i)) = D(L(i - 1)) => L(i) <= L(i - 1))
      <4>1. L(i - 1) \in 1 .. i
          BY <2>2
      <4> QED
          BY <4>1, <2>3
    <3>5. L(i) = L(i - 1)
        BY <3>2, <3>3, <3>4, <2>2, <2>5
    <3>6. g[i - 1].err = D(L(i - 1))
        BY <2>4
    <3>7. g[i] = g[i - 1]
        BY <2>4, <2>7, <3>5
    <3> QED
        BY <2>9, <3>6, <3>7
  <2> QED
      BY <2>8, <2>9
<1>6. g = [i \in 1 .. n |-> IF i = 1 THEN [slot |-> 1, err |-> D(1)] ELSE step(i, g[i - 1])]
  <2>1. g[1] = [slot |-> 1, err |-> D(1)]
      BY <1>1, <1>4
  <2>2. \A i \in 1 .. n : g[i] = IF i = 1 THEN [slot |-> 1, err |-> D(1)] ELSE step(i, g[i - 1])
    <3> HIDE DEF g, step, D
    <3> QED
        BY <1>5, <2>1
  <2> HIDE DEF step, D, L
  <2> QED
      BY <2>2
<1> DEFINE next(i, h) ==
             IF i = 1 THEN [slot |-> 1, err |-> Distance(v, book[1], m)]
                      ELSE LET best == h[i - 1]
                               err == Distance(v, book[i], m)
                               early == /\ m.mode = "Yuv12" /\ Len(book) >= Wide
                                        /\ Skippable(SquareTo(LumaDims, v, book[i], m), best.err)
                           IN  IF ~early /\ err < best.err THEN [slot |-> i, err |-> err] ELSE best
           scan == CHOOSE h : h = [i \in 1 .. Len(book) |-> next(i, h)]
<1>7. scan = [i \in 1 .. n |-> IF i = 1 THEN [slot |-> 1, err |-> D(1)] ELSE step(i, scan[i - 1])]
  <2>1. \A i, h : next(i, h) = IF i = 1 THEN [slot |-> 1, err |-> D(1)] ELSE step(i, h[i - 1])
      BY <1>1
  <2> HIDE DEF g, next, step, D
  <2>2. g = [i \in 1 .. Len(book) |-> next(i, g)]
      BY <1>1, <1>6, <2>1
  <2>3. scan = [i \in 1 .. Len(book) |-> next(i, scan)]
      BY <2>2, Zenon
  <2> HIDE DEF scan
  <2> QED
      BY <1>1, <2>1, <2>3
<1>8. Nearest(v, book, m) = scan[n]
  <2>1. Nearest(v, book, m) = scan[Len(book)]
      BY DEF Nearest
  <2> HIDE DEF scan
  <2> QED
      BY <1>1, <2>1
<1> HIDE DEF scan
<1>9. \A i \in 1 .. n : scan[i] = g[i]
  <2> HIDE DEF g, step, D
  <2> DEFINE T == {i \in 0 .. n : i = 0 \/ scan[i] = g[i]}
  <2>1. 0 \in T
      OBVIOUS
  <2>2. ASSUME NEW i \in 1 .. n, i - 1 \in T
        PROVE  i \in T
    <3>1. CASE i = 1
        BY <3>1, <1>6, <1>7
    <3>2. CASE i # 1
      <4>1. scan[i - 1] = g[i - 1]
          BY <2>2, <3>2
      <4>2. scan[i] = step(i, scan[i - 1]) /\ g[i] = step(i, g[i - 1])
          BY <3>2, <1>6, <1>7
      <4> QED
          BY <4>1, <4>2
    <3> QED
        BY <3>1, <3>2
  <2>3. \A i \in 0 .. n : i \in T
    <3> HIDE DEF T
    <3> QED
        BY <1>1, <2>1, <2>2, InductionUpTo
  <2> QED
      BY <2>3
<1>10. Nearest(v, book, m) = [slot |-> L(n), err |-> D(L(n))]
    BY <1>1, <1>8, <1>9
<1>11. L(n) \in 1 .. n
       /\ \A t \in 1 .. n : D(L(n)) <= D(t) /\ (D(L(n)) = D(t) => L(n) <= t)
    BY <1>1, <1>3
<1>12. Nearest(v, book, m).slot = L(n) /\ Nearest(v, book, m).err = D(L(n))
  <2> HIDE DEF L, D
  <2> QED
      BY <1>10
<1> QED
    BY <1>1, <1>11, <1>12 DEF FirstNearest

-----------------------------------------------------------------------------
\* A scan of a sequence of vectors in closed form.

\* The sum of the first i weights, slot by slot.
Tally(i, c, w, n) ==
    [s \in 1 .. n |-> SumTo(i, [j \in DOMAIN c |-> IF c[j] = s THEN w[j] ELSE 0])]

\* It starts at zero, and one more weight goes to one slot.
TallyGoesOn(N, n, c, w) ==
    /\ \A i \in 0 .. N : Tally(i, c, w, n) \in [1 .. n -> Int]
    /\ \A s \in 1 .. n : Tally(0, c, w, n)[s] = 0
    /\ \A i \in 1 .. N : \A s \in 1 .. n :
         /\ s = c[i] => Tally(i, c, w, n)[s] = Tally(i - 1, c, w, n)[s] + w[i]
         /\ s # c[i] => Tally(i, c, w, n)[s] = Tally(i - 1, c, w, n)[s]

\* The sums grow by one weight at a time.
LEMMA TallySteps ==
    ASSUME NEW N \in Nat, NEW n \in Nat, NEW c, c \in [1 .. N -> 1 .. n],
           NEW w, \A j \in 1 .. N : w[j] \in Int
    PROVE  TallyGoesOn(N, n, c, w)
<1> DEFINE f(s) == [j \in DOMAIN c |-> IF c[j] = s THEN w[j] ELSE 0]
<1>1. \A s : \A j \in 1 .. N : f(s)[j] = (IF c[j] = s THEN w[j] ELSE 0) /\ f(s)[j] \in Int
    OBVIOUS
<1>2. \A i : Tally(i, c, w, n) = [s \in 1 .. n |-> SumTo(i, f(s))]
    BY DEF Tally
<1> HIDE DEF f
<1>3. ASSUME NEW s
      PROVE  /\ SumTo(0, f(s)) = 0
             /\ \A i \in 0 .. N : SumTo(i, f(s)) \in Int
             /\ \A i \in 1 .. N : SumTo(i, f(s)) = SumTo(i - 1, f(s)) + f(s)[i]
  <2>1. \A j \in 1 .. N : f(s)[j] \in Int
      BY <1>1
  <2> QED
      BY <2>1, SumSteps
<1>4. \A s \in 1 .. n : Tally(0, c, w, n)[s] = 0
    BY <1>2, <1>3
<1>5. \A i \in 0 .. N : Tally(i, c, w, n) \in [1 .. n -> Int]
    BY <1>2, <1>3
<1>6. ASSUME NEW i \in 1 .. N, NEW s \in 1 .. n
      PROVE  /\ s = c[i] => Tally(i, c, w, n)[s] = Tally(i - 1, c, w, n)[s] + w[i]
             /\ s # c[i] => Tally(i, c, w, n)[s] = Tally(i - 1, c, w, n)[s]
  <2>1. i - 1 \in 0 .. N
      OBVIOUS
  <2>2. SumTo(i - 1, f(s)) \in Int /\ SumTo(i, f(s)) = SumTo(i - 1, f(s)) + f(s)[i]
      BY <2>1, <1>3
  <2>3. Tally(i, c, w, n)[s] = SumTo(i, f(s)) /\ Tally(i - 1, c, w, n)[s] = SumTo(i - 1, f(s))
      BY <1>2
  <2>4. f(s)[i] = IF c[i] = s THEN w[i] ELSE 0
      BY <1>1
  <2> QED
      BY <2>2, <2>3, <2>4
<1> QED
    BY <1>4, <1>5, <1>6 DEF TallyGoesOn

\* The slots that a scan assigns, and the errors.
SlotsOf(vs, book, m) == [i \in 1 .. Len(vs) |-> Nearest(vs[i], book, m).slot]
ErrsOf(vs, book, m) == [i \in 1 .. Len(vs) |-> Nearest(vs[i], book, m).err]
Ones(vs) == [i \in 1 .. Len(vs) |-> 1]

\* The slots are those of the first nearest entries, and the errors the distances
\* to them.
LEMMA SlotsType ==
    ASSUME NEW m \in Metrics, NEW vs \in Seq([Dims -> Int]), NEW n \in Nat, n # 0,
           NEW book \in [1 .. n -> [Dims -> Int]]
    PROVE  /\ SlotsOf(vs, book, m) \in [1 .. Len(vs) -> 1 .. n]
           /\ ErrsOf(vs, book, m) \in [1 .. Len(vs) -> Nat]
           /\ \A i \in 1 .. Len(vs) :
                /\ FirstNearest(SlotsOf(vs, book, m)[i], vs[i], book, m)
                /\ ErrsOf(vs, book, m)[i] =
                     Distance(vs[i], book[SlotsOf(vs, book, m)[i]], m)
<1>1. ASSUME NEW i \in 1 .. Len(vs)
      PROVE  LET near == Nearest(vs[i], book, m) IN
             /\ near.slot \in 1 .. n /\ near.err \in Nat
             /\ FirstNearest(near.slot, vs[i], book, m)
             /\ near.err = Distance(vs[i], book[near.slot], m)
  <2> DEFINE near == Nearest(vs[i], book, m)
  <2>1. vs[i] \in [Dims -> Int]
      OBVIOUS
  <2>2. /\ FirstNearest(near.slot, vs[i], book, m)
        /\ near.err = Distance(vs[i], book[near.slot], m)
      BY <2>1, NearestIsFirst
  <2> HIDE DEF near
  <2>3. near.slot \in 1 .. n
      BY <2>2 DEF FirstNearest
  <2>4. book[near.slot] \in [Dims -> Int]
      BY <2>3
  <2>5. near.err \in Nat
      BY <2>1, <2>2, <2>4, DistanceIs
  <2> QED
      BY <2>2, <2>3, <2>5 DEF near
<1> QED
    BY <1>1 DEF SlotsOf, ErrsOf

\* The total error is the sum of the errors, a natural.
LEMMA TotalIs ==
    ASSUME NEW m \in Metrics, NEW vs \in Seq([Dims -> Int]), NEW n \in Nat, n # 0,
           NEW book \in [1 .. n -> [Dims -> Int]]
    PROVE  /\ TotalSse(book, vs, m) = SumTo(Len(vs), ErrsOf(vs, book, m))
           /\ TotalSse(book, vs, m) \in Nat
<1>1. DOMAIN vs = 1 .. Len(vs) /\ Len(vs) \in Nat
    OBVIOUS
<1>2. TotalSse(book, vs, m) = SumTo(Len(vs), ErrsOf(vs, book, m))
    BY <1>1 DEF TotalSse, ErrsOf
<1>3. ErrsOf(vs, book, m) \in [1 .. Len(vs) -> Nat]
    BY SlotsType
<1>4. \A i \in 1 .. Len(vs) : ErrsOf(vs, book, m)[i] \in Nat
    BY <1>3
<1> QED
    BY <1>1, <1>2, <1>4, SumOfNaturals

\* What a scan of a sequence of vectors is, in closed form.
Scanned(i, vs, book, m) ==
    LET c == SlotsOf(vs, book, m)  e == ErrsOf(vs, book, m)  n == Len(book)
    IN  [assign |-> [j \in 1 .. i |-> c[j]],
         counts |-> Tally(i, c, Ones(vs), n),
         sse |-> Tally(i, c, e, n),
         total |-> SumTo(i, e)]

\* A scan is what its closed form says, by induction over the vectors.
LEMMA ScanIs ==
    ASSUME NEW m \in Metrics, NEW vs \in Seq([Dims -> Int]), NEW n \in Nat, n # 0,
           NEW book \in [1 .. n -> [Dims -> Int]]
    PROVE  Scan(vs, book, m) = Scanned(Len(vs), vs, book, m)
<1>0. PICK N \in Nat : N = Len(vs)
    OBVIOUS
<1> DEFINE c == SlotsOf(vs, book, m)
           e == ErrsOf(vs, book, m)
           ones == Ones(vs)
           none == [s \in DOMAIN book |-> 0]
           empty == [assign |-> <<>>, counts |-> none, sse |-> none, total |-> 0]
           g == [i \in 0 .. N |-> Scanned(i, vs, book, m)]
           add(old, near) ==
               [assign |-> Append(old.assign, near.slot),
                counts |-> [old.counts EXCEPT ![near.slot] = @ + 1],
                sse |-> [old.sse EXCEPT ![near.slot] = @ + near.err],
                total |-> old.total + near.err]
           next(i, h) ==
               IF i = 0 THEN [assign |-> <<>>, counts |-> none, sse |-> none, total |-> 0]
               ELSE LET old == h[i - 1]
                        near == Nearest(vs[i], book, m)
                    IN  [assign |-> Append(old.assign, near.slot),
                         counts |-> [old.counts EXCEPT ![near.slot] = @ + 1],
                         sse |-> [old.sse EXCEPT ![near.slot] = @ + near.err],
                         total |-> old.total + near.err]
           scan == CHOOSE h : h = [i \in 0 .. N |-> next(i, h)]
<1>1. N \in Nat /\ DOMAIN book = 1 .. n /\ Len(book) = n /\ n \in Nat
    OBVIOUS
<1>2. c \in [1 .. N -> 1 .. n] /\ e \in [1 .. N -> Nat]
    BY <1>0, SlotsType
<1>3. ones \in [1 .. N -> Int] /\ \A i \in 1 .. N : ones[i] = 1
    BY <1>0 DEF Ones
<1>4. \A i \in 1 .. N : e[i] \in Int /\ ones[i] \in Int
    BY <1>2, <1>3
<1>5. \A i \in 1 .. N : c[i] = Nearest(vs[i], book, m).slot
                        /\ e[i] = Nearest(vs[i], book, m).err
    BY <1>0 DEF SlotsOf, ErrsOf
<1>6. /\ \A h : next(0, h) = empty
      /\ \A i \in 1 .. N : \A h : next(i, h) = add(h[i - 1], Nearest(vs[i], book, m))
    OBVIOUS
<1>7. \A i : Scanned(i, vs, book, m) =
        [assign |-> [j \in 1 .. i |-> c[j]], counts |-> Tally(i, c, ones, n),
         sse |-> Tally(i, c, e, n), total |-> SumTo(i, e)]
    BY <1>1 DEF Scanned
<1>8. Scan(vs, book, m) = scan[N]
    BY <1>0 DEF Scan
<1> HIDE DEF c, e, ones, next, scan
<1>9. /\ \A i \in 0 .. N : Tally(i, c, ones, n) \in [1 .. n -> Int]
      /\ \A s \in 1 .. n : Tally(0, c, ones, n)[s] = 0
      /\ \A i \in 1 .. N : \A s \in 1 .. n :
           /\ s = c[i] => Tally(i, c, ones, n)[s] = Tally(i - 1, c, ones, n)[s] + ones[i]
           /\ s # c[i] => Tally(i, c, ones, n)[s] = Tally(i - 1, c, ones, n)[s]
  <2>1. \A i \in 1 .. N : ones[i] \in Int
      BY <1>4
  <2>2. c \in [1 .. N -> 1 .. n] /\ n \in Nat
      BY <1>1, <1>2
  <2>3. TallyGoesOn(N, n, c, ones)
      BY <2>1, <2>2, TallySteps
  <2> QED
      BY <2>3 DEF TallyGoesOn
<1>10. /\ \A i \in 0 .. N : Tally(i, c, e, n) \in [1 .. n -> Int]
       /\ \A s \in 1 .. n : Tally(0, c, e, n)[s] = 0
       /\ \A i \in 1 .. N : \A s \in 1 .. n :
            /\ s = c[i] => Tally(i, c, e, n)[s] = Tally(i - 1, c, e, n)[s] + e[i]
            /\ s # c[i] => Tally(i, c, e, n)[s] = Tally(i - 1, c, e, n)[s]
  <2>1. \A i \in 1 .. N : e[i] \in Int
      BY <1>4
  <2>2. c \in [1 .. N -> 1 .. n] /\ n \in Nat
      BY <1>1, <1>2
  <2>3. TallyGoesOn(N, n, c, e)
      BY <2>1, <2>2, TallySteps
  <2> QED
      BY <2>3 DEF TallyGoesOn
<1>11. SumTo(0, e) = 0 /\ \A i \in 1 .. N : SumTo(i, e) = SumTo(i - 1, e) + e[i]
  <2>1. \A i \in 1 .. N : e[i] \in Int
      BY <1>4
  <2> QED
      BY <1>1, <2>1, SumSteps
<1>12. g[0] = empty
  <2>1. [j \in 1 .. 0 |-> c[j]] = <<>>
      OBVIOUS
  <2>2. g[0] = Scanned(0, vs, book, m)
      BY <1>1
  <2>3. Scanned(0, vs, book, m) =
          [assign |-> [j \in 1 .. 0 |-> c[j]], counts |-> Tally(0, c, ones, n),
           sse |-> Tally(0, c, e, n), total |-> SumTo(0, e)]
      BY <1>7
  <2>4. none = [s \in 1 .. n |-> 0]
      BY <1>1
  <2> HIDE DEF none
  <2>5. Tally(0, c, ones, n) = none /\ Tally(0, c, e, n) = none /\ SumTo(0, e) = 0
    <3>1. PICK x, y : x = Tally(0, c, ones, n) /\ y = Tally(0, c, e, n)
        OBVIOUS
    <3>2. x \in [1 .. n -> Int] /\ y \in [1 .. n -> Int]
        BY <1>1, <1>9, <1>10, <3>1
    <3>3. \A s \in 1 .. n : x[s] = 0 /\ y[s] = 0
        BY <1>9, <1>10, <3>1
    <3> QED
        BY <1>11, <2>4, <3>1, <3>2, <3>3
  <2> QED
      BY <2>1, <2>2, <2>3, <2>5, Zenon
<1>13. ASSUME NEW i \in 1 .. N
       PROVE  g[i] = add(g[i - 1], Nearest(vs[i], book, m))
  <2> DEFINE near == Nearest(vs[i], book, m)
             old == g[i - 1]
  <2>1. near.slot = c[i] /\ near.err = e[i] /\ ones[i] = 1
      BY <1>3, <1>5
  <2>2. old = [assign |-> [j \in 1 .. i - 1 |-> c[j]], counts |-> Tally(i - 1, c, ones, n),
               sse |-> Tally(i - 1, c, e, n), total |-> SumTo(i - 1, e)]
    <3>1. i - 1 \in 0 .. N
        BY <1>1
    <3> QED
        BY <3>1, <1>7
  <2>3. g[i] = [assign |-> [j \in 1 .. i |-> c[j]], counts |-> Tally(i, c, ones, n),
                sse |-> Tally(i, c, e, n), total |-> SumTo(i, e)]
    <3>1. i \in 0 .. N
        BY <1>1
    <3> QED
        BY <3>1, <1>7
  <2> HIDE DEF near, old, g
  <2>9. /\ old.assign = [j \in 1 .. i - 1 |-> c[j]] /\ old.counts = Tally(i - 1, c, ones, n)
        /\ old.sse = Tally(i - 1, c, e, n) /\ old.total = SumTo(i - 1, e)
      BY <2>2
  <2>4. Append(old.assign, near.slot) = [j \in 1 .. i |-> c[j]]
    <3>2. i - 1 \in Nat /\ c \in [1 .. N -> 1 .. n]
        BY <1>1, <1>2
    <3>3. [j \in 1 .. i - 1 |-> c[j]] \in Seq(1 .. n) /\ Len([j \in 1 .. i - 1 |-> c[j]]) = i - 1
        BY <3>2, <1>1
    <3> QED
        BY <1>1, <2>1, <2>9, <3>2, <3>3
  <2>10. i - 1 \in 0 .. N /\ i \in 0 .. N
      BY <1>1
  <2>5. Tally(i, c, ones, n) = [old.counts EXCEPT ![near.slot] = @ + 1]
    <3>1. PICK x, y : x = Tally(i - 1, c, ones, n) /\ y = Tally(i, c, ones, n)
        OBVIOUS
    <3>2. x \in [1 .. n -> Int] /\ y \in [1 .. n -> Int]
        BY <1>9, <2>10, <3>1
    <3>3. \A s \in 1 .. n : y[s] = IF s = c[i] THEN x[s] + 1 ELSE x[s]
        BY <1>9, <2>1, <3>1
    <3>4. y = [x EXCEPT ![c[i]] = @ + 1]
        BY <3>2, <3>3
    <3> QED
        BY <2>1, <2>9, <3>1, <3>4
  <2>6. Tally(i, c, e, n) = [old.sse EXCEPT ![near.slot] = @ + near.err]
    <3>1. PICK x, y : x = Tally(i - 1, c, e, n) /\ y = Tally(i, c, e, n)
        OBVIOUS
    <3>2. x \in [1 .. n -> Int] /\ y \in [1 .. n -> Int]
        BY <1>10, <2>10, <3>1
    <3>3. \A s \in 1 .. n : y[s] = IF s = c[i] THEN x[s] + e[i] ELSE x[s]
        BY <1>10, <3>1
    <3>4. y = [x EXCEPT ![c[i]] = @ + e[i]]
        BY <3>2, <3>3
    <3> QED
        BY <2>1, <2>9, <3>1, <3>4
  <2>7. SumTo(i, e) = old.total + near.err
      BY <1>11, <2>1, <2>9
  <2>8. g[i] = add(old, near)
      BY <2>3, <2>4, <2>5, <2>6, <2>7
  <2> QED
      BY <2>8 DEF near, old
<1> HIDE DEF g, add, empty
<1>14. g = [i \in 0 .. N |-> next(i, g)]
  <2>1. \A i \in 0 .. N : g[i] = next(i, g)
    <3> SUFFICES ASSUME NEW i \in 0 .. N PROVE g[i] = next(i, g)
        OBVIOUS
    <3>1. CASE i = 0
        BY <3>1, <1>6, <1>12
    <3>2. CASE i \in 1 .. N
        BY <3>2, <1>6, <1>13, <1>1
    <3> QED
        BY <3>1, <3>2, <1>1
  <2> QED
      BY <2>1 DEF g
<1>15. scan = [i \in 0 .. N |-> next(i, scan)]
    BY <1>14, Zenon DEF scan
<1>16. \A i \in 0 .. N : scan[i] = g[i]
  <2>1. scan[0] = g[0]
      BY <1>1, <1>6, <1>12, <1>15
  <2>2. ASSUME NEW i \in 1 .. N, scan[i - 1] = g[i - 1]
        PROVE  scan[i] = g[i]
    <3>1. scan[i] = add(scan[i - 1], Nearest(vs[i], book, m))
      <4>1. i \in 0 .. N
          BY <1>1
      <4>2. \A k \in 0 .. N : scan[k] = next(k, scan)
          BY <1>15, Zenon
      <4>3. scan[i] = next(i, scan)
          BY <4>1, <4>2, Zenon
      <4> QED
          BY <4>3, <1>6
    <3> QED
        BY <2>2, <3>1, <1>13
  <2>3. \A i \in 1 .. N : scan[i - 1] = g[i - 1] => scan[i] = g[i]
      BY <2>2
  <2> DEFINE T == {i \in 0 .. N : scan[i] = g[i]}
  <2>4. 0 \in T
      BY <1>1, <2>1
  <2>5. \A i \in 1 .. N : i - 1 \in T => i \in T
      BY <1>1, <2>3
  <2>6. \A i \in 0 .. N : i \in T
    <3> HIDE DEF T
    <3> QED
        BY <1>1, <2>4, <2>5, InductionUpTo
  <2> QED
      BY <2>6
<1>17. scan[N] = g[N] /\ g[N] = Scanned(N, vs, book, m)
    BY <1>1, <1>16 DEF g
<1> QED
    BY <1>0, <1>8, <1>17

\* What the parts of a scan are.
LEMMA ScanParts ==
    ASSUME NEW m \in Metrics, NEW vs \in Seq([Dims -> Int]), NEW n \in Nat, n # 0,
           NEW book \in [1 .. n -> [Dims -> Int]]
    PROVE  /\ Scan(vs, book, m).assign = SlotsOf(vs, book, m)
           /\ Scan(vs, book, m).counts =
                Tally(Len(vs), SlotsOf(vs, book, m), Ones(vs), n)
           /\ Scan(vs, book, m).sse =
                Tally(Len(vs), SlotsOf(vs, book, m), ErrsOf(vs, book, m), n)
           /\ Scan(vs, book, m).total = TotalSse(book, vs, m)
<1> DEFINE c == SlotsOf(vs, book, m)
<1>1. Len(book) = n /\ c = [j \in 1 .. Len(vs) |-> c[j]]
    BY DEF SlotsOf
<1>2. Scan(vs, book, m) = Scanned(Len(vs), vs, book, m)
    BY ScanIs
<1>3. TotalSse(book, vs, m) = SumTo(Len(vs), ErrsOf(vs, book, m))
    BY TotalIs
<1> HIDE DEF c
<1> QED
    BY <1>1, <1>2, <1>3 DEF Scanned, c

-----------------------------------------------------------------------------
\* What a scan adds up for a slot lies between bounds.

\* Between multiples of the terms of a sum, the terms add up to between
\* multiples of that sum.
LEMMA SumBetween ==
    ASSUME NEW n \in Nat, NEW f, NEW g, NEW lo \in Int, NEW hi \in Int,
           \A i \in 1 .. n : /\ f[i] \in Int /\ g[i] \in Int
                             /\ lo * g[i] <= f[i] /\ f[i] <= hi * g[i]
    PROVE  /\ SumTo(n, f) \in Int /\ SumTo(n, g) \in Int
           /\ lo * SumTo(n, g) <= SumTo(n, f) /\ SumTo(n, f) <= hi * SumTo(n, g)
<1> DEFINE a == [i \in 1 .. n |-> lo * g[i]]
           b == [i \in 1 .. n |-> hi * g[i]]
<1>1. \A i \in 1 .. n : g[i] \in Int /\ a[i] = lo * g[i]
    OBVIOUS
<1>2. \A i \in 1 .. n : g[i] \in Int /\ b[i] = hi * g[i]
    OBVIOUS
<1>3. \A i \in 1 .. n : a[i] \in Int /\ f[i] \in Int /\ a[i] <= f[i]
    OBVIOUS
<1>4. \A i \in 1 .. n : f[i] \in Int /\ b[i] \in Int /\ f[i] <= b[i]
    OBVIOUS
<1>5. \A i \in 1 .. n : f[i] \in Int
    OBVIOUS
<1>6. \A i \in 1 .. n : g[i] \in Int
    OBVIOUS
<1> HIDE DEF a, b
<1>7. SumTo(n, a) = lo * SumTo(n, g)
    BY <1>1, SumScales
<1>8. SumTo(n, b) = hi * SumTo(n, g)
    BY <1>2, SumScales
<1>9. SumTo(n, a) <= SumTo(n, f)
    BY <1>3, SumsCompare
<1>10. SumTo(n, f) <= SumTo(n, b)
    BY <1>4, SumsCompare
<1>11. n \in 0 .. n
    OBVIOUS
<1>12. SumTo(n, f) \in Int
    BY <1>5, <1>11, SumSteps
<1>13. SumTo(n, g) \in Int
    BY <1>6, <1>11, SumSteps
<1> QED
    BY <1>7, <1>8, <1>9, <1>10, <1>12, <1>13

\* As many ones as terms.
LEMMA SumOfOnes ==
    ASSUME NEW n \in Nat, NEW f, \A i \in 1 .. n : f[i] = 1
    PROVE  SumTo(n, f) = n
<1> DEFINE T == {i \in 0 .. n : SumTo(i, f) = i}
<1>1. \A i \in 1 .. n : f[i] \in Int
    OBVIOUS
<1>2. /\ SumTo(0, f) = 0
      /\ \A i \in 1 .. n : SumTo(i, f) = SumTo(i - 1, f) + f[i]
    BY <1>1, SumSteps
<1>3. 0 \in T
    BY <1>2
<1>4. ASSUME NEW i \in 1 .. n, i - 1 \in T
      PROVE  i \in T
  <2>1. SumTo(i, f) = (i - 1) + 1
      BY <1>2, <1>4
  <2> QED
      BY <2>1
<1>5. \A i \in 0 .. n : i \in T
  <2> HIDE DEF T
  <2> QED
      BY <1>3, <1>4, InductionUpTo
<1> QED
    BY <1>5

\* What goes to a slot adds up to between multiples of how many go there.
LEMMA TallyBetween ==
    ASSUME NEW N \in Nat, NEW n \in Nat, NEW c, c \in [1 .. N -> 1 .. n],
           NEW w, \A j \in 1 .. N : w[j] \in Int,
           NEW u, \A j \in 1 .. N : u[j] = 1,
           NEW s \in 1 .. n, NEW lo \in Int, NEW hi \in Int,
           \A j \in 1 .. N : c[j] = s => lo <= w[j] /\ w[j] <= hi
    PROVE  /\ Tally(N, c, u, n)[s] \in Nat /\ Tally(N, c, w, n)[s] \in Int
           /\ lo * Tally(N, c, u, n)[s] <= Tally(N, c, w, n)[s]
           /\ Tally(N, c, w, n)[s] <= hi * Tally(N, c, u, n)[s]
<1> DEFINE f == [j \in DOMAIN c |-> IF c[j] = s THEN w[j] ELSE 0]
           g == [j \in DOMAIN c |-> IF c[j] = s THEN u[j] ELSE 0]
<1>1. \A j \in 1 .. N : /\ f[j] \in Int /\ g[j] \in Int
                        /\ lo * g[j] <= f[j] /\ f[j] <= hi * g[j]
  <2> SUFFICES ASSUME NEW j \in 1 .. N
               PROVE  /\ f[j] \in Int /\ g[j] \in Int
                      /\ lo * g[j] <= f[j] /\ f[j] <= hi * g[j]
      OBVIOUS
  <2>1. CASE c[j] = s
    <3>1. f[j] = w[j] /\ g[j] = 1
        BY <2>1
    <3>2. w[j] \in Int /\ lo <= w[j] /\ w[j] <= hi
        BY <2>1
    <3> HIDE DEF f, g
    <3> QED
        BY <3>1, <3>2
  <2>2. CASE c[j] # s
    <3>1. f[j] = 0 /\ g[j] = 0
        BY <2>2
    <3> HIDE DEF f, g
    <3> QED
        BY <3>1
  <2> QED
      BY <2>1, <2>2
<1>2. \A j \in 1 .. N : g[j] \in Nat
    OBVIOUS
<1>3. Tally(N, c, w, n)[s] = SumTo(N, f) /\ Tally(N, c, u, n)[s] = SumTo(N, g)
    BY DEF Tally
<1> HIDE DEF f, g
<1>4. SumTo(N, g) \in Nat
    BY <1>2, SumOfNaturals
<1>5. SumTo(N, f) \in Int
    BY <1>1, SumBetween
<1>6. lo * SumTo(N, g) <= SumTo(N, f)
    BY <1>1, SumBetween
<1>7. SumTo(N, f) <= hi * SumTo(N, g)
    BY <1>1, SumBetween
<1> QED
    BY <1>3, <1>4, <1>5, <1>6, <1>7

\* A slot that no vector goes to has none.
LEMMA NoOneIsThere ==
    ASSUME NEW N \in Nat, NEW n \in Nat, NEW c, c \in [1 .. N -> 1 .. n],
           NEW u, NEW s \in 1 .. n, \A j \in 1 .. N : c[j] # s
    PROVE  Tally(N, c, u, n)[s] = 0
<1> DEFINE g == [j \in DOMAIN c |-> IF c[j] = s THEN u[j] ELSE 0]
<1>1. \A j \in 1 .. N : g[j] = 0
    OBVIOUS
<1>2. Tally(N, c, u, n)[s] = SumTo(N, g)
    BY DEF Tally
<1> HIDE DEF g
<1>3. SumTo(N, g) = 0
    BY <1>1, SumOfZeros
<1> QED
    BY <1>2, <1>3

-----------------------------------------------------------------------------

\* A division between two bounds has its result between them.
LEMMA QuotientBetween ==
    ASSUME NEW a \in Int, NEW n \in Nat, n # 0, NEW lo \in Int, NEW hi \in Int,
           lo <= 0, 0 <= hi, lo * n <= a, a <= hi * n
    PROVE  Quotient(a, n) \in lo .. hi
<1>1. ASSUME NEW x \in Nat, NEW top \in Nat, x <= top * n
      PROVE  x \div n \in 0 .. top
  <2>1. x \div n \in Nat /\ n * (x \div n) <= x
      OBVIOUS
  <2>2. PICK q \in Nat : q = x \div n
      BY <2>1
  <2>3. n * q <= top * n
      BY <2>1, <2>2, <1>1
  <2>4. q <= top
    <3> SUFFICES ASSUME q > top PROVE FALSE
        OBVIOUS
    <3>1. q >= top + 1
        OBVIOUS
    <3>2. n * q >= n * (top + 1)
        BY <3>1
    <3>3. n * (top + 1) = top * n + n
        OBVIOUS
    <3> QED
        BY <2>3, <3>2, <3>3
  <2> QED
      BY <2>2, <2>4
<1>2. CASE a >= 0
  <2>1. Quotient(a, n) = a \div n
      BY <1>2 DEF Quotient
  <2>2. a \in Nat /\ hi \in Nat
      BY <1>2
  <2>3. a \div n \in 0 .. hi
      BY <1>1, <2>2
  <2> QED
      BY <2>1, <2>3
<1>3. CASE a < 0
  <2>1. Quotient(a, n) = -((-a) \div n)
      BY <1>3 DEF Quotient
  <2>2. -a \in Nat /\ -lo \in Nat
      BY <1>3
  <2>3. -a <= (-lo) * n
    <3>1. (-lo) * n = -(lo * n)
        OBVIOUS
    <3> QED
        BY <3>1
  <2>4. (-a) \div n \in 0 .. -lo
      BY <1>1, <2>2, <2>3
  <2>5. PICK q \in 0 .. -lo : q = (-a) \div n
      BY <2>4
  <2> QED
      BY <2>1, <2>5
<1> QED
    BY <1>2, <1>3

\* A multiple divided is what it is a multiple of.
LEMMA QuotientExact ==
    ASSUME NEW x \in Int, NEW n \in Nat, n # 0
    PROVE  Quotient(x * n, n) = x
<1>1. ASSUME NEW y \in Nat
      PROVE  (y * n) \div n = y
    OBVIOUS
<1>2. CASE x >= 0
  <2>1. x * n >= 0
      BY <1>2
  <2> QED
      BY <2>1, <1>1, <1>2 DEF Quotient
<1>3. CASE x < 0
  <2>1. (-x) * n = -(x * n) /\ (-x) * n > 0 /\ -x \in Nat
      BY <1>3
  <2>2. ((-x) * n) \div n = -x
      BY <1>1, <2>1
  <2>3. Quotient(x * n, n) = -((-(x * n)) \div n)
      BY <2>1 DEF Quotient
  <2> QED
      BY <2>1, <2>2, <2>3
<1> QED
    BY <1>2, <1>3

-----------------------------------------------------------------------------
\* Entries, and the averages of them.

\* The bounds of a component.
Low(d, m) == IF d \in Luma THEN 0 ELSE IF d <= CountOfDims(m) THEN -ChromaBound ELSE 0
High(d, m) == IF d \in Luma THEN LumaMax ELSE IF d <= CountOfDims(m) THEN ChromaBound - 1 ELSE 0

\* They are numbers around zero, and zero in the dimensions that the mode lacks.
LEMMA ComponentIs ==
    ASSUME NEW m \in Metrics, NEW d \in Dims
    PROVE  /\ Low(d, m) \in Int /\ High(d, m) \in Int
           /\ Low(d, m) <= 0 /\ 0 <= High(d, m)
           /\ Component(d, m) = Low(d, m) .. High(d, m)
           /\ d > CountOfDims(m) => Low(d, m) = 0 /\ High(d, m) = 0
<1>1. LumaMax \in Nat /\ ChromaBound \in Nat \ {0} /\ LumaDims \in Nat
    BY VectorAssumption
<1>2. d \in Nat /\ CountOfDims(m) \in Nat /\ Luma = 1 .. LumaDims /\ LumaDims <= CountOfDims(m)
    BY MetricParts DEF Luma
<1>3. CASE d \in Luma
    BY <1>1, <1>2, <1>3 DEF Low, High, Component
<1>4. CASE d \notin Luma /\ d <= CountOfDims(m)
  <2>1. Low(d, m) = -ChromaBound /\ High(d, m) = ChromaBound - 1
        /\ Component(d, m) = -ChromaBound .. ChromaBound - 1
      BY <1>4 DEF Low, High, Component
  <2> QED
      BY <1>1, <1>2, <1>4, <2>1
<1>5. CASE d \notin Luma /\ ~(d <= CountOfDims(m))
  <2>1. Low(d, m) = 0 /\ High(d, m) = 0 /\ Component(d, m) = {0}
      BY <1>5 DEF Low, High, Component
  <2> QED
      BY <2>1
<1> QED
    BY <1>3, <1>4, <1>5

\* The components of an entry.
LEMMA EntryParts ==
    ASSUME NEW m \in Metrics, NEW v \in Entries(m)
    PROVE  /\ v \in [Dims -> Int]
           /\ \A d \in Dims : Low(d, m) <= v[d] /\ v[d] <= High(d, m)
           /\ \A d \in Dims : d > CountOfDims(m) => v[d] = 0
<1>1. v \in [Dims -> Int] /\ \A d \in Dims : v[d] \in Component(d, m)
    BY DEF Entries
<1>2. ASSUME NEW d \in Dims
      PROVE  /\ Low(d, m) <= v[d] /\ v[d] <= High(d, m)
             /\ d > CountOfDims(m) => v[d] = 0
  <2>1. v[d] \in Low(d, m) .. High(d, m)
      BY <1>1, ComponentIs
  <2>2. Low(d, m) \in Int /\ High(d, m) \in Int /\ (d > CountOfDims(m) => Low(d, m) = 0 /\ High(d, m) = 0)
      BY ComponentIs
  <2> QED
      BY <2>1, <2>2
<1> QED
    BY <1>1, <1>2

\* Entries of a mode at no distance are the same.
LEMMA NoDistance ==
    ASSUME NEW m \in Metrics, NEW a \in Entries(m), NEW b \in Entries(m)
    PROVE  Distance(a, b, m) = 0 <=> a = b
<1>1. a \in [Dims -> Int] /\ b \in [Dims -> Int]
    BY EntryParts
<1>2. Distance(a, b, m) = 0 <=> \A d \in 1 .. CountOfDims(m) : a[d] = b[d]
    BY <1>1, DistanceIs
<1>3. 1 .. CountOfDims(m) \subseteq Dims /\ Dims \subseteq Nat /\ CountOfDims(m) \in Nat
    BY MetricParts
<1>4. ASSUME \A d \in 1 .. CountOfDims(m) : a[d] = b[d]
      PROVE  a = b
  <2>1. ASSUME NEW d \in Dims PROVE a[d] = b[d]
    <3>1. CASE d \in 1 .. CountOfDims(m)
        BY <1>4, <3>1
    <3>2. CASE d \notin 1 .. CountOfDims(m)
      <4>1. d > CountOfDims(m)
        <5>1. d \in Nat /\ d >= 1
            BY MetricParts DEF Dims
        <5> QED
            BY <5>1, <3>2, <1>3
      <4>2. a[d] = 0
          BY <4>1, EntryParts
      <4>3. b[d] = 0
          BY <4>1, EntryParts
      <4> QED
          BY <4>2, <4>3
    <3> QED
        BY <3>1, <3>2
  <2> QED
      BY <1>1, <2>1
<1> QED
    BY <1>2, <1>3, <1>4

\* Zero is an entry of either mode.
LEMMA ZeroIsEntry ==
    ASSUME NEW m \in Metrics
    PROVE  Zero \in Entries(m)
<1>1. \A d \in Dims : 0 \in Component(d, m)
    BY ComponentIs
<1> QED
    BY <1>1 DEF Zero, Entries

\* Sums that lie between multiples of the bounds make a centroid that is an
\* entry: its components fit a u8 and an i8.
LEMMA CentroidFits ==
    ASSUME NEW m \in Metrics, NEW n \in Nat, n # 0, NEW sums,
           \A d \in Dims : /\ sums[d] \in Int
                           /\ Low(d, m) * n <= sums[d] /\ sums[d] <= High(d, m) * n
    PROVE  CentroidOf(sums, n, m) \in Entries(m)
<1> DEFINE v == CentroidOf(sums, n, m)
<1>1. v = [d \in Dims |-> IF d <= CountOfDims(m) THEN Quotient(sums[d], n) ELSE 0]
    BY DEF CentroidOf
<1> HIDE DEF v
<1>2. ASSUME NEW d \in Dims
      PROVE  v[d] \in Low(d, m) .. High(d, m)
  <2>1. /\ Low(d, m) \in Int /\ High(d, m) \in Int
        /\ Low(d, m) <= 0 /\ 0 <= High(d, m)
      BY ComponentIs
  <2>2. CASE d <= CountOfDims(m)
    <3>1. Quotient(sums[d], n) \in Low(d, m) .. High(d, m)
        BY <2>1, QuotientBetween
    <3> QED
        BY <3>1, <2>2, <1>1
  <2>3. CASE ~(d <= CountOfDims(m))
      BY <2>1, <2>3, <1>1
  <2> QED
      BY <2>2, <2>3
<1>3. ASSUME NEW d \in Dims
      PROVE  v[d] \in Component(d, m) /\ v[d] \in Int
  <2>1. v[d] \in Low(d, m) .. High(d, m) /\ Component(d, m) = Low(d, m) .. High(d, m)
      BY <1>2, ComponentIs
  <2> QED
      BY <2>1
<1>4. v \in [Dims -> Int]
    BY <1>1, <1>3
<1> QED
    BY <1>3, <1>4 DEF v, Entries

\* A coordinate of all vectors.
Coord(vs, d) == [j \in 1 .. Len(vs) |-> vs[j][d]]

\* The sum of a sequence of vectors is that of each coordinate.
LEMMA SumOfIs ==
    ASSUME NEW c \in Seq([Dims -> Int])
    PROVE  SumOf(c) = [d \in Dims |-> SumTo(Len(c), Coord(c, d))]
<1>0. PICK n \in Nat : n = Len(c)
    OBVIOUS
<1> DEFINE g == [i \in 0 .. n |-> [d \in Dims |-> SumTo(i, Coord(c, d))]]
           next(i, h) == IF i = 0 THEN Zero ELSE Sum2(h[i - 1], c[i])
           sum == CHOOSE h : h = [i \in 0 .. Len(c) |-> next(i, h)]
<1>1. ASSUME NEW d \in Dims
      PROVE  /\ SumTo(0, Coord(c, d)) = 0
             /\ \A i \in 1 .. n : SumTo(i, Coord(c, d)) = SumTo(i - 1, Coord(c, d)) + c[i][d]
  <2> DEFINE f == Coord(c, d)
  <2>1. \A i \in 1 .. n : f[i] = c[i][d] /\ f[i] \in Int
      BY <1>0 DEF Coord
  <2> HIDE DEF f
  <2>2. /\ SumTo(0, f) = 0
        /\ \A i \in 1 .. n : SumTo(i, f) = SumTo(i - 1, f) + f[i]
      BY <2>1, SumSteps
  <2> QED
      BY <2>1, <2>2 DEF f
<1>2. g[0] = Zero
    BY <1>1 DEF Zero
<1>3. ASSUME NEW i \in 1 .. n
      PROVE  g[i] = Sum2(g[i - 1], c[i])
  <2>1. g[i] = [d \in Dims |-> SumTo(i, Coord(c, d))]
      OBVIOUS
  <2>2. g[i - 1] = [d \in Dims |-> SumTo(i - 1, Coord(c, d))]
      OBVIOUS
  <2> HIDE DEF g
  <2>3. \A d \in Dims : g[i][d] = g[i - 1][d] + c[i][d]
      BY <1>1, <2>1, <2>2
  <2> QED
      BY <2>1, <2>3 DEF Sum2
<1>4. g = [i \in 0 .. n |-> next(i, g)]
  <2>1. ASSUME NEW i \in 0 .. n PROVE g[i] = next(i, g)
    <3>1. CASE i = 0
        BY <3>1, <1>2
    <3>2. CASE i \in 1 .. n
      <4>1. g[i] = Sum2(g[i - 1], c[i])
          BY <1>3, <3>2
      <4> HIDE DEF g
      <4> QED
          BY <4>1, <3>2
    <3> QED
        BY <3>1, <3>2
  <2> HIDE DEF next
  <2> QED
      BY <2>1
<1>5. sum = [i \in 0 .. Len(c) |-> next(i, sum)]
  <2> HIDE DEF g, next
  <2> QED
      BY <1>0, <1>4, Zenon
<1>6. SumOf(c) = sum[n]
    BY <1>0 DEF SumOf
<1> HIDE DEF sum
<1>7. sum[0] = Zero /\ \A i \in 1 .. n : sum[i] = Sum2(sum[i - 1], c[i])
  <2> HIDE DEF g
  <2>1. \A i \in 0 .. n : sum[i] = next(i, sum)
    <3> HIDE DEF next
    <3> QED
        BY <1>0, <1>5, Zenon
  <2>2. 0 \in 0 .. n /\ \A i \in 1 .. n : i \in 0 .. n /\ i # 0
      BY <1>0
  <2>3. sum[0] = Zero
      BY <2>1, <2>2
  <2>4. ASSUME NEW i \in 1 .. n PROVE sum[i] = Sum2(sum[i - 1], c[i])
    <3>1. sum[i] = next(i, sum)
        BY <2>1, <2>2
    <3>2. i # 0
        BY <2>2
    <3> QED
        BY <3>1, <3>2
  <2> QED
      BY <2>3, <2>4
<1>8. \A i \in 0 .. n : sum[i] = g[i]
  <2> HIDE DEF g
  <2> DEFINE T == {i \in 0 .. n : sum[i] = g[i]}
  <2>1. 0 \in T
      BY <1>2, <1>7
  <2>2. \A i \in 1 .. n : i - 1 \in T => i \in T
      BY <1>3, <1>7
  <2>3. \A i \in 0 .. n : i \in T
    <3> HIDE DEF T
    <3> QED
        BY <2>1, <2>2, InductionUpTo
  <2> QED
      BY <2>3
<1>9. n \in 0 .. n
    BY <1>0
<1>10. sum[n] = g[n]
    BY <1>8, <1>9
<1>11. g[n] = [d \in Dims |-> SumTo(n, Coord(c, d))]
    BY <1>9
<1> HIDE DEF g
<1> QED
    BY <1>0, <1>6, <1>10, <1>11

\* The centroid of entries is one.
LEMMA CentroidIsEntry ==
    ASSUME NEW m \in Metrics, NEW c \in Seq(Entries(m)), c # <<>>
    PROVE  Centroid(c, m) \in Entries(m)
<1>0. PICK n \in Nat : n = Len(c) /\ n # 0
    OBVIOUS
<1>1. \A j \in 1 .. n : c[j] \in Entries(m)
    BY <1>0
<1>2. c \in Seq([Dims -> Int])
  <2>1. \A v \in Entries(m) : v \in [Dims -> Int]
      BY EntryParts
  <2> QED
      BY <2>1
<1>3. SumOf(c) = [d \in Dims |-> SumTo(n, Coord(c, d))]
    BY <1>0, <1>2, SumOfIs
<1>4. ASSUME NEW d \in Dims
      PROVE  /\ SumOf(c)[d] \in Int
             /\ Low(d, m) * n <= SumOf(c)[d] /\ SumOf(c)[d] <= High(d, m) * n
  <2> DEFINE f == Coord(c, d)
             g == [i \in 1 .. n |-> 1]
             lo == Low(d, m)
             hi == High(d, m)
  <2>1. lo \in Int /\ hi \in Int
      BY ComponentIs
  <2>2. \A i \in 1 .. n : f[i] = c[i][d] /\ g[i] = 1
      BY <1>0 DEF Coord
  <2>3. \A i \in 1 .. n : c[i][d] \in Int /\ lo <= c[i][d] /\ c[i][d] <= hi
      BY <1>1, EntryParts
  <2>4. SumOf(c)[d] = SumTo(n, f)
      BY <1>3
  <2> HIDE DEF f, g, lo, hi
  <2>5. \A i \in 1 .. n : /\ f[i] \in Int /\ g[i] \in Int
                          /\ lo * g[i] <= f[i] /\ f[i] <= hi * g[i]
      BY <2>1, <2>2, <2>3
  <2>6. SumTo(n, g) = n
      BY <2>2, SumOfOnes
  <2>7. SumTo(n, f) \in Int
      BY <2>1, <2>5, SumBetween
  <2>8. lo * SumTo(n, g) <= SumTo(n, f)
      BY <2>1, <2>5, SumBetween
  <2>9. SumTo(n, f) <= hi * SumTo(n, g)
      BY <2>1, <2>5, SumBetween
  <2> QED
      BY <2>4, <2>6, <2>7, <2>8, <2>9 DEF lo, hi
<1>5. CentroidOf(SumOf(c), n, m) \in Entries(m)
    BY <1>0, <1>4, CentroidFits
<1> QED
    BY <1>0, <1>5 DEF Centroid

-----------------------------------------------------------------------------
\* A pass of Lloyd, and exact books.

\* What a pass of Lloyd adds up for each slot, in closed form.
Summed(i, vs, book, m) ==
    [s \in 1 .. Len(book) |->
        [d \in Dims |-> Tally(i, SlotsOf(vs, book, m), Coord(vs, d), Len(book))[s]]]

\* Recentred in closed form.
Recentering(vs, book, m) ==
    LET counts == Tally(Len(vs), SlotsOf(vs, book, m), Ones(vs), Len(book))
        sums == Summed(Len(vs), vs, book, m)
    IN  [s \in 1 .. Len(book) |->
            IF counts[s] = 0 THEN book[s] ELSE CentroidOf(sums[s], counts[s], m)]

\* A pass of Lloyd is what its closed form says, by induction over the vectors.
LEMMA RecentredIs ==
    ASSUME NEW m \in Metrics, NEW vs \in Seq([Dims -> Int]), NEW n \in Nat, n # 0,
           NEW book \in [1 .. n -> [Dims -> Int]]
    PROVE  Recentred(vs, book, m) = Recentering(vs, book, m)
<1>0. PICK N \in Nat : N = Len(vs)
    OBVIOUS
<1> DEFINE c == SlotsOf(vs, book, m)
           g == [i \in 0 .. N |-> Summed(i, vs, book, m)]
           assign == Scan(vs, book, m).assign
           counts == Scan(vs, book, m).counts
           none == [s \in DOMAIN book |-> Zero]
           add(old, s, v) == [old EXCEPT ![s] = Sum2(@, v)]
           next(i, h) ==
               IF i = 0 THEN [s \in DOMAIN book |-> Zero]
               ELSE [h[i - 1] EXCEPT ![assign[i]] = Sum2(@, vs[i])]
           sum == CHOOSE h : h = [i \in 0 .. N |-> next(i, h)]
<1>1. DOMAIN book = 1 .. n /\ Len(book) = n
    OBVIOUS
<1>2. c \in [1 .. N -> 1 .. n]
    BY <1>0, SlotsType
<1>3. assign = c
    BY ScanParts
<1>4. \A i \in 1 .. N : vs[i] \in [Dims -> Int]
    BY <1>0
<1>5. /\ \A h : next(0, h) = none
      /\ \A i \in 1 .. N : \A h : next(i, h) = add(h[i - 1], assign[i], vs[i])
    OBVIOUS
<1>6. \A i : Summed(i, vs, book, m) =
               [s \in 1 .. n |-> [d \in Dims |-> Tally(i, c, Coord(vs, d), n)[s]]]
    BY <1>1 DEF Summed
<1>7. Recentred(vs, book, m) =
        [s \in DOMAIN book |->
            IF counts[s] = 0 THEN book[s] ELSE CentroidOf(sum[N][s], counts[s], m)]
    BY <1>0 DEF Recentred
<1> HIDE DEF c, next, sum, assign, counts, add
<1>8. ASSUME NEW d \in Dims
      PROVE  /\ TallyGoesOn(N, n, c, Coord(vs, d))
             /\ \A i \in 1 .. N : Coord(vs, d)[i] = vs[i][d]
  <2>0. PICK w : w = Coord(vs, d)
      OBVIOUS
  <2>1. \A i \in 1 .. N : w[i] = vs[i][d] /\ w[i] \in Int
      BY <1>0, <1>4, <2>0 DEF Coord
  <2>2. \A i \in 1 .. N : w[i] \in Int
      BY <2>1
  <2>3. TallyGoesOn(N, n, c, w)
      BY <1>2, <2>2, TallySteps
  <2> QED
      BY <2>0, <2>1, <2>3
<1>9. g[0] = none
  <2>1. g[0] = [s \in 1 .. n |-> [d \in Dims |-> Tally(0, c, Coord(vs, d), n)[s]]]
      BY <1>0, <1>6
  <2>2. ASSUME NEW s \in 1 .. n
        PROVE  [d \in Dims |-> Tally(0, c, Coord(vs, d), n)[s]] = Zero
    <3>1. ASSUME NEW d \in Dims
          PROVE  Tally(0, c, Coord(vs, d), n)[s] = 0
        BY <1>8 DEF TallyGoesOn
    <3> QED
        BY <3>1 DEF Zero
  <2> HIDE DEF g
  <2> QED
      BY <1>1, <2>1, <2>2
<1>10. ASSUME NEW i \in 1 .. N
       PROVE  g[i] = add(g[i - 1], assign[i], vs[i])
  <2>0. i \in 0 .. N /\ i - 1 \in 0 .. N
      BY <1>0
  <2>1. g[i] = [s \in 1 .. n |-> [d \in Dims |-> Tally(i, c, Coord(vs, d), n)[s]]]
      BY <2>0, <1>6
  <2>2. g[i - 1] = [s \in 1 .. n |-> [d \in Dims |-> Tally(i - 1, c, Coord(vs, d), n)[s]]]
      BY <2>0, <1>6
  <2> HIDE DEF g
  <2>3. PICK x, y : x = g[i - 1] /\ y = g[i]
      OBVIOUS
  <2>4. PICK t \in 1 .. n : t = c[i]
      BY <1>2
  <2>5. \A s \in 1 .. n : \A d \in Dims :
          /\ s = t => y[s][d] = x[s][d] + vs[i][d]
          /\ s # t => y[s][d] = x[s][d]
    <3> SUFFICES ASSUME NEW s \in 1 .. n, NEW d \in Dims
                 PROVE  /\ s = t => y[s][d] = x[s][d] + vs[i][d]
                        /\ s # t => y[s][d] = x[s][d]
        OBVIOUS
    <3>1. /\ y[s][d] = Tally(i, c, Coord(vs, d), n)[s]
          /\ x[s][d] = Tally(i - 1, c, Coord(vs, d), n)[s]
        BY <2>1, <2>2, <2>3
    <3>2. PICK w : w = Coord(vs, d)
        OBVIOUS
    <3>3. TallyGoesOn(N, n, c, w) /\ w[i] = vs[i][d]
        BY <1>8, <3>2
    <3>4. /\ s = t => Tally(i, c, w, n)[s] = Tally(i - 1, c, w, n)[s] + w[i]
          /\ s # t => Tally(i, c, w, n)[s] = Tally(i - 1, c, w, n)[s]
        BY <2>4, <3>3 DEF TallyGoesOn
    <3> QED
        BY <3>1, <3>2, <3>3, <3>4
  <2>6. /\ DOMAIN x = 1 .. n /\ x = [s \in 1 .. n |-> x[s]]
        /\ y = [s \in 1 .. n |-> y[s]]
        /\ \A s \in 1 .. n : x[s] = [d \in Dims |-> x[s][d]] /\ y[s] = [d \in Dims |-> y[s][d]]
      BY <2>1, <2>2, <2>3
  <2>7. \A s \in 1 .. n : s # t => y[s] = x[s]
    <3> SUFFICES ASSUME NEW s \in 1 .. n, s # t PROVE y[s] = x[s]
        OBVIOUS
    <3>1. \A d \in Dims : y[s][d] = x[s][d]
        BY <2>5
    <3>2. x[s] = [d \in Dims |-> x[s][d]] /\ y[s] = [d \in Dims |-> y[s][d]]
        BY <2>6
    <3> QED
        BY <3>1, <3>2
  <2>8. y[t] = Sum2(x[t], vs[i])
    <3>1. \A d \in Dims : y[t][d] = x[t][d] + vs[i][d]
        BY <2>5
    <3>2. y[t] = [d \in Dims |-> y[t][d]]
        BY <2>6
    <3> QED
        BY <3>1, <3>2 DEF Sum2
  <2>9. y = [x EXCEPT ![t] = Sum2(@, vs[i])]
      BY <2>6, <2>7, <2>8
  <2> QED
      BY <1>3, <2>3, <2>4, <2>9 DEF add
<1> HIDE DEF g, none
<1>11. g = [i \in 0 .. N |-> next(i, g)]
  <2>1. ASSUME NEW i \in 0 .. N PROVE g[i] = next(i, g)
    <3>1. CASE i = 0
        BY <3>1, <1>5, <1>9
    <3>2. CASE i \in 1 .. N
        BY <3>2, <1>5, <1>10
    <3> QED
        BY <1>0, <3>1, <3>2
  <2> QED
      BY <2>1 DEF g
<1>12. sum = [i \in 0 .. N |-> next(i, sum)]
    BY <1>11, Zenon DEF sum
<1>13. \A i \in 0 .. N : sum[i] = next(i, sum)
    BY <1>12, Zenon
<1>14. 0 \in 0 .. N /\ \A i \in 1 .. N : i \in 0 .. N
    BY <1>0
<1>15. sum[0] = g[0]
    BY <1>5, <1>9, <1>13, <1>14
<1>16. ASSUME NEW i \in 1 .. N, sum[i - 1] = g[i - 1]
       PROVE  sum[i] = g[i]
  <2>1. sum[i] = next(i, sum)
      BY <1>13, <1>14
  <2>2. sum[i] = add(sum[i - 1], assign[i], vs[i])
      BY <2>1, <1>5
  <2> QED
      BY <2>2, <1>10, <1>16
<1>17. sum[N] = g[N]
  <2> DEFINE T == {i \in 0 .. N : sum[i] = g[i]}
  <2>4. 0 \in T
      BY <1>14, <1>15
  <2>5. \A i \in 1 .. N : i - 1 \in T => i \in T
      BY <1>14, <1>16
  <2>6. \A i \in 0 .. N : i \in T
    <3> HIDE DEF T
    <3> QED
        BY <1>0, <2>4, <2>5, InductionUpTo
  <2>7. N \in 0 .. N
      BY <1>0
  <2> QED
      BY <2>6, <2>7
<1>18. g[N] = Summed(N, vs, book, m)
    BY <1>0 DEF g
<1>19. counts = Tally(N, c, Ones(vs), n)
    BY <1>0, ScanParts DEF counts, c
<1> QED
    BY <1>0, <1>1, <1>7, <1>17, <1>18, <1>19 DEF Recentering, c

\* How many vectors go to a slot, and what their sums lie between when all of
\* them lie between lo and hi along a dimension.
LEMMA SlotBetween ==
    ASSUME NEW m \in Metrics, NEW vs \in Seq([Dims -> Int]), NEW n \in Nat, n # 0,
           NEW book \in [1 .. n -> [Dims -> Int]], NEW s \in 1 .. n, NEW d \in Dims,
           NEW lo \in Int, NEW hi \in Int,
           \A j \in 1 .. Len(vs) :
              Nearest(vs[j], book, m).slot = s => lo <= vs[j][d] /\ vs[j][d] <= hi
    PROVE  LET many == Scan(vs, book, m).counts[s]
               sum == Summed(Len(vs), vs, book, m)[s][d]
           IN  /\ many \in Nat /\ sum \in Int
               /\ lo * many <= sum /\ sum <= hi * many
<1>0. PICK N \in Nat : N = Len(vs)
    OBVIOUS
<1> DEFINE c == SlotsOf(vs, book, m)
           w == Coord(vs, d)
           u == Ones(vs)
<1>1. c \in [1 .. N -> 1 .. n]
    BY <1>0, SlotsType
<1>2. \A j \in 1 .. N : w[j] = vs[j][d] /\ vs[j] \in [Dims -> Int]
    BY <1>0 DEF Coord
<1>3. \A j \in 1 .. N : w[j] \in Int
    BY <1>2
<1>4. \A j \in 1 .. N : u[j] = 1
    BY <1>0 DEF Ones
<1>5. \A j \in 1 .. N : c[j] = s => lo <= w[j] /\ w[j] <= hi
    BY <1>0, <1>2 DEF SlotsOf
<1>6. Scan(vs, book, m).counts = Tally(N, c, u, n)
    BY <1>0, ScanParts
<1>7. Summed(N, vs, book, m)[s][d] = Tally(N, c, w, n)[s]
  <2>1. Len(book) = n
      OBVIOUS
  <2> QED
      BY <2>1 DEF Summed
<1> HIDE DEF c, w, u
<1>8. Tally(N, c, u, n)[s] \in Nat /\ Tally(N, c, w, n)[s] \in Int
    BY <1>1, <1>3, <1>4, <1>5, TallyBetween
<1>9. lo * Tally(N, c, u, n)[s] <= Tally(N, c, w, n)[s]
    BY <1>1, <1>3, <1>4, <1>5, TallyBetween
<1>10. Tally(N, c, w, n)[s] <= hi * Tally(N, c, u, n)[s]
    BY <1>1, <1>3, <1>4, <1>5, TallyBetween
<1> QED
    BY <1>0, <1>6, <1>7, <1>8, <1>9, <1>10

\* What is written to a slot.
LEMMA RecentredSlot ==
    ASSUME NEW m \in Metrics, NEW vs \in Seq([Dims -> Int]), NEW n \in Nat, n # 0,
           NEW book \in [1 .. n -> [Dims -> Int]]
    PROVE  /\ Recentred(vs, book, m) = [s \in 1 .. n |-> Recentred(vs, book, m)[s]]
           /\ \A s \in 1 .. n :
                LET many == Scan(vs, book, m).counts[s] IN
                /\ many = 0 => Recentred(vs, book, m)[s] = book[s]
                /\ many # 0 => Recentred(vs, book, m)[s] =
                     CentroidOf(Summed(Len(vs), vs, book, m)[s], many, m)
<1>1. Recentred(vs, book, m) = Recentering(vs, book, m)
    BY RecentredIs
<1>2. Scan(vs, book, m).counts =
        Tally(Len(vs), SlotsOf(vs, book, m), Ones(vs), n)
    BY ScanParts
<1>3. Len(book) = n
    OBVIOUS
<1> QED
    BY <1>1, <1>2, <1>3 DEF Recentering

\* A pass of Lloyd over entries makes entries: no average leaves the range of a
\* u8 or an i8.
LEMMA RecentredFits ==
    ASSUME NEW m \in Metrics, NEW vs \in Seq(Entries(m)), NEW n \in Nat, n # 0,
           NEW book \in [1 .. n -> Entries(m)]
    PROVE  Recentred(vs, book, m) \in [1 .. n -> Entries(m)]
<1>1. vs \in Seq([Dims -> Int]) /\ book \in [1 .. n -> [Dims -> Int]]
    BY DEF Entries
<1>2. ASSUME NEW s \in 1 .. n
      PROVE  Recentred(vs, book, m)[s] \in Entries(m)
  <2>1. PICK many : many = Scan(vs, book, m).counts[s]
      OBVIOUS
  <2>2. PICK sums : sums = Summed(Len(vs), vs, book, m)[s]
      OBVIOUS
  <2>3. ASSUME NEW d \in Dims
        PROVE  /\ many \in Nat /\ sums[d] \in Int
               /\ Low(d, m) * many <= sums[d] /\ sums[d] <= High(d, m) * many
    <3>1. PICK lo \in Int, hi \in Int : lo = Low(d, m) /\ hi = High(d, m)
        BY ComponentIs
    <3>2. \A j \in 1 .. Len(vs) : vs[j] \in Entries(m)
        OBVIOUS
    <3>3. \A j \in 1 .. Len(vs) : lo <= vs[j][d] /\ vs[j][d] <= hi
        BY <3>1, <3>2, EntryParts
    <3>4. many \in Nat /\ sums[d] \in Int
        BY <1>1, <2>1, <2>2, <3>3, SlotBetween
    <3>5. lo * many <= sums[d] /\ sums[d] <= hi * many
        BY <1>1, <2>1, <2>2, <3>3, SlotBetween
    <3> QED
        BY <3>1, <3>4, <3>5
  <2>4. CASE many = 0
    <3>1. Recentred(vs, book, m)[s] = book[s]
      <4>1. Scan(vs, book, m).counts[s] = 0
          BY <2>1, <2>4
      <4> QED
          BY <1>1, <4>1, RecentredSlot
    <3> QED
        BY <3>1
  <2>5. CASE many # 0
    <3>1. Recentred(vs, book, m)[s] = CentroidOf(sums, many, m)
      <4>1. Scan(vs, book, m).counts[s] # 0
          BY <2>1, <2>5
      <4>2. Recentred(vs, book, m)[s] =
              CentroidOf(Summed(Len(vs), vs, book, m)[s],
                         Scan(vs, book, m).counts[s], m)
          BY <1>1, <4>1, RecentredSlot
      <4> QED
          BY <2>1, <2>2, <4>2
    <3>2. 1 \in Dims
        BY MetricParts DEF Dims
    <3>3. many \in Nat
        BY <2>3, <3>2
    <3>4. CentroidOf(sums, many, m) \in Entries(m)
        BY <2>3, <2>5, <3>3, CentroidFits
    <3> QED
        BY <3>1, <3>4
  <2> QED
      BY <2>4, <2>5
<1>3. Recentred(vs, book, m) = [s \in 1 .. n |-> Recentred(vs, book, m)[s]]
    BY <1>1, RecentredSlot
<1> QED
    BY <1>2, <1>3

\* No vector has an error in a total of zero.
LEMMA NoErrors ==
    ASSUME NEW m \in Metrics, NEW vs \in Seq([Dims -> Int]), NEW n \in Nat, n # 0,
           NEW book \in [1 .. n -> [Dims -> Int]]
    PROVE  TotalSse(book, vs, m) = 0
             <=> \A i \in 1 .. Len(vs) : Nearest(vs[i], book, m).err = 0
<1>0. PICK N \in Nat : N = Len(vs)
    OBVIOUS
<1>1. TotalSse(book, vs, m) = SumTo(N, ErrsOf(vs, book, m))
    BY <1>0, TotalIs
<1>2. PICK e : e = ErrsOf(vs, book, m)
    OBVIOUS
<1>3. \A i \in 1 .. N : e[i] \in Nat /\ e[i] = Nearest(vs[i], book, m).err
  <2>1. e \in [1 .. N -> Nat]
      BY <1>0, <1>2, SlotsType
  <2> QED
      BY <1>0, <1>2, <2>1 DEF ErrsOf
<1>4. ASSUME SumTo(N, e) = 0, NEW i \in 1 .. N
      PROVE  e[i] = 0
  <2>1. e[i] <= SumTo(N, e)
      BY <1>3, SumOfNaturals
  <2> QED
      BY <1>3, <1>4, <2>1
<1>5. ASSUME \A i \in 1 .. N : e[i] = 0
      PROVE  SumTo(N, e) = 0
    BY <1>5, SumOfZeros
<1> QED
    BY <1>0, <1>1, <1>2, <1>3, <1>4, <1>5

\* A book that is exact for the vectors has each of them as an entry.
LEMMA ExactHasAll ==
    ASSUME NEW m \in Metrics, NEW vs \in Seq(Entries(m)), NEW n \in Nat, n # 0,
           NEW book \in [1 .. n -> Entries(m)]
    PROVE  TotalSse(book, vs, m) = 0
             <=> \A i \in 1 .. Len(vs) : \E s \in 1 .. n : book[s] = vs[i]
<1>1. vs \in Seq([Dims -> Int]) /\ book \in [1 .. n -> [Dims -> Int]]
    BY DEF Entries
<1>2. TotalSse(book, vs, m) = 0
        <=> \A i \in 1 .. Len(vs) : Nearest(vs[i], book, m).err = 0
    BY <1>1, NoErrors
<1>3. ASSUME NEW i \in 1 .. Len(vs)
      PROVE  Nearest(vs[i], book, m).err = 0 <=> \E s \in 1 .. n : book[s] = vs[i]
  <2>1. PICK v : v = vs[i] /\ v \in Entries(m) /\ v \in [Dims -> Int]
      BY <1>1
  <2>2. PICK s : s = Nearest(v, book, m).slot
      OBVIOUS
  <2>3. FirstNearest(s, v, book, m) /\ Nearest(v, book, m).err = Distance(v, book[s], m)
      BY <1>1, <2>1, <2>2, NearestIsFirst
  <2>4. s \in 1 .. n /\ \A t \in 1 .. n : Distance(v, book[s], m) <= Distance(v, book[t], m)
      BY <2>3 DEF FirstNearest
  <2>5. \A t \in 1 .. n : /\ Distance(v, book[t], m) \in Nat
                          /\ Distance(v, book[t], m) = 0 <=> v = book[t]
    <3>1. \A t \in 1 .. n : book[t] \in Entries(m) /\ book[t] \in [Dims -> Int]
        BY <1>1
    <3>2. \A t \in 1 .. n : Distance(v, book[t], m) \in Nat
        BY <2>1, <3>1, DistanceIs
    <3>3. \A t \in 1 .. n : Distance(v, book[t], m) = 0 <=> v = book[t]
        BY <2>1, <3>1, NoDistance
    <3> QED
        BY <3>2, <3>3
  <2>6. s \in 1 .. n /\ book[s] \in Entries(m)
      BY <2>4
  <2>7. ASSUME Nearest(v, book, m).err = 0
        PROVE  book[s] = v
      BY <2>3, <2>5, <2>6, <2>7
  <2>8. ASSUME NEW t \in 1 .. n, book[t] = v
        PROVE  Nearest(v, book, m).err = 0
    <3>1. Distance(v, book[t], m) = 0 /\ Distance(v, book[s], m) \in Nat
        BY <2>5, <2>6, <2>8
    <3>2. Distance(v, book[s], m) <= Distance(v, book[t], m)
        BY <2>4
    <3> QED
        BY <2>3, <3>1, <3>2
  <2> QED
      BY <2>1, <2>6, <2>7, <2>8
<1> QED
    BY <1>2, <1>3

\* A book that is exact stays as it is under a pass of Lloyd.
LEMMA ExactStays ==
    ASSUME NEW m \in Metrics, NEW vs \in Seq(Entries(m)), NEW n \in Nat, n # 0,
           NEW book \in [1 .. n -> Entries(m)], TotalSse(book, vs, m) = 0
    PROVE  Recentred(vs, book, m) = book
<1>1. vs \in Seq([Dims -> Int]) /\ book \in [1 .. n -> [Dims -> Int]]
    BY DEF Entries
<1>2. ASSUME NEW s \in 1 .. n, NEW j \in 1 .. Len(vs),
             Nearest(vs[j], book, m).slot = s
      PROVE  vs[j] = book[s]
  <2>1. PICK v : v = vs[j] /\ v \in Entries(m) /\ v \in [Dims -> Int]
      BY <1>1
  <2>2. Nearest(v, book, m).err = 0
      BY <1>1, <2>1, NoErrors
  <2>3. Nearest(v, book, m).err = Distance(v, book[Nearest(v, book, m).slot], m)
      BY <1>1, <2>1, NearestIsFirst
  <2>4. Distance(v, book[s], m) = 0 /\ book[s] \in Entries(m)
      BY <1>2, <2>1, <2>2, <2>3
  <2> QED
      BY <2>1, <2>4, NoDistance
<1>3. ASSUME NEW s \in 1 .. n
      PROVE  Recentred(vs, book, m)[s] = book[s]
  <2>1. PICK many : many = Scan(vs, book, m).counts[s]
      OBVIOUS
  <2>2. PICK sums : sums = Summed(Len(vs), vs, book, m)[s]
      OBVIOUS
  <2>3. PICK b : b = book[s] /\ b \in Entries(m)
      OBVIOUS
  <2>4. ASSUME NEW d \in Dims
        PROVE  many \in Nat /\ sums[d] = b[d] * many /\ b[d] \in Int
    <3>1. PICK x \in Int : x = b[d]
        BY <2>3, EntryParts
    <3>2. \A j \in 1 .. Len(vs) :
            Nearest(vs[j], book, m).slot = s => x <= vs[j][d] /\ vs[j][d] <= x
        BY <1>2, <2>3, <3>1
    <3>4. many \in Nat /\ sums[d] \in Int
        BY <1>1, <2>1, <2>2, <3>2, SlotBetween
    <3>5. x * many <= sums[d]
        BY <1>1, <2>1, <2>2, <3>2, SlotBetween
    <3>6. sums[d] <= x * many
        BY <1>1, <2>1, <2>2, <3>2, SlotBetween
    <3>7. x * many \in Int
        BY <3>4
    <3> QED
        BY <3>1, <3>4, <3>5, <3>6, <3>7
  <2>5. CASE many = 0
    <3>1. Scan(vs, book, m).counts[s] = 0
        BY <2>1, <2>5
    <3> QED
        BY <1>1, <3>1, RecentredSlot
  <2>6. CASE many # 0
    <3>1. Scan(vs, book, m).counts[s] # 0
        BY <2>1, <2>6
    <3>2. Recentred(vs, book, m)[s] =
            CentroidOf(Summed(Len(vs), vs, book, m)[s],
                       Scan(vs, book, m).counts[s], m)
        BY <1>1, <3>1, RecentredSlot
    <3>3. Recentred(vs, book, m)[s] = CentroidOf(sums, many, m)
        BY <2>1, <2>2, <3>2
    <3>4. ASSUME NEW d \in Dims
          PROVE  (IF d <= CountOfDims(m) THEN Quotient(sums[d], many) ELSE 0) = b[d]
      <4>1. CASE d <= CountOfDims(m)
        <5>1. PICK x \in Int : x = b[d]
            BY <2>4
        <5>2. Quotient(x * many, many) = x
            BY <2>4, <2>6, QuotientExact
        <5> QED
            BY <2>4, <4>1, <5>1, <5>2
      <4>2. CASE ~(d <= CountOfDims(m))
        <5>1. d > CountOfDims(m)
          <6>1. d \in Nat /\ CountOfDims(m) \in Nat
              BY MetricParts
          <6> QED
              BY <4>2, <6>1
        <5> QED
            BY <2>3, <4>2, <5>1, EntryParts
      <4> QED
          BY <4>1, <4>2
    <3>5. CentroidOf(sums, many, m) = [d \in Dims |-> b[d]]
        BY <3>4 DEF CentroidOf
    <3>6. b = [d \in Dims |-> b[d]]
        BY <2>3 DEF Entries
    <3> QED
        BY <2>3, <3>3, <3>5, <3>6
  <2> QED
      BY <2>5, <2>6
<1>4. Recentred(vs, book, m) = [s \in 1 .. n |-> Recentred(vs, book, m)[s]]
    BY <1>1, RecentredSlot
<1> QED
    BY <1>3, <1>4

\* The error of a vector is its least distance to an entry.
LEMMA ErrIsLeast ==
    ASSUME NEW m \in Metrics, NEW v \in [Dims -> Int], NEW n \in Nat, n # 0,
           NEW book \in [1 .. n -> [Dims -> Int]]
    PROVE  /\ Nearest(v, book, m).err \in Nat
           /\ \A t \in 1 .. n : Nearest(v, book, m).err <= Distance(v, book[t], m)
           /\ \E t \in 1 .. n : Nearest(v, book, m).err = Distance(v, book[t], m)
           /\ Nearest(v, book, m).err = Min({Distance(v, book[t], m) : t \in 1 .. n})
<1>1. PICK s : s = Nearest(v, book, m).slot
    OBVIOUS
<1>2. PICK x : x = Nearest(v, book, m).err
    OBVIOUS
<1>3. FirstNearest(s, v, book, m) /\ x = Distance(v, book[s], m)
    BY <1>1, <1>2, NearestIsFirst
<1>4. \A t \in 1 .. n : Distance(v, book[t], m) \in Nat
  <2>1. \A t \in 1 .. n : book[t] \in [Dims -> Int]
      OBVIOUS
  <2> QED
      BY <2>1, DistanceIs
<1>5. s \in 1 .. n /\ \A t \in 1 .. n : x <= Distance(v, book[t], m)
    BY <1>3 DEF FirstNearest
<1>6. x \in Nat
    BY <1>3, <1>4, <1>5
<1>7. Min({Distance(v, book[t], m) : t \in 1 .. n}) = x
  <2>1. PICK S : S = {Distance(v, book[t], m) : t \in 1 .. n}
      OBVIOUS
  <2>2. S \subseteq Int /\ x \in S /\ \A y \in S : x <= y
      BY <1>3, <1>4, <1>5, <2>1
  <2>3. Min(S) = x
      BY <2>2, MinIs
  <2> QED
      BY <2>1, <2>3
<1> QED
    BY <1>2, <1>3, <1>5, <1>6, <1>7

\* A perturbed entry is one: it is held in the range of its component.
LEMMA PerturbedFits ==
    ASSUME NEW m \in Metrics, NEW v \in Entries(m), NEW d \in 1 .. CountOfDims(m),
           NEW delta \in Int
    PROVE  Perturbed(v, d, delta) \in Entries(m)
<1> DEFINE low == IF d \in Luma THEN 0 ELSE -ChromaBound
           high == IF d \in Luma THEN LumaMax ELSE ChromaBound - 1
           x == v[d] + delta
           held == IF x < low THEN low ELSE IF x > high THEN high ELSE x
<1>1. d \in Dims /\ v \in [Dims -> Int]
    BY MetricParts, EntryParts
<1>2. low = Low(d, m) /\ high = High(d, m)
  <2>1. d \in Nat /\ CountOfDims(m) \in Nat /\ d <= CountOfDims(m)
      BY MetricParts
  <2> QED
      BY <2>1 DEF Low, High
<1>3. Low(d, m) \in Int /\ High(d, m) \in Int /\ Low(d, m) <= 0 /\ 0 <= High(d, m)
    BY <1>1, ComponentIs
<1>4. x \in Int
    BY <1>1
<1> HIDE DEF x, low, high
<1>5. held \in Low(d, m) .. High(d, m)
    BY <1>2, <1>3, <1>4
<1>6. held \in Component(d, m) /\ held \in Int
  <2>1. Component(d, m) = Low(d, m) .. High(d, m)
      BY <1>1, ComponentIs
  <2> HIDE DEF held
  <2> QED
      BY <1>3, <1>5, <2>1
<1>7. Perturbed(v, d, delta) = [v EXCEPT ![d] = held]
    BY DEF Perturbed, x, low, high
<1> HIDE DEF held
<1>8. [v EXCEPT ![d] = held] \in [Dims -> Int]
    BY <1>1, <1>6
<1>9. \A e \in Dims : v[e] \in Component(e, m)
    BY DEF Entries
<1>10. \A e \in Dims : [v EXCEPT ![d] = held][e] \in Component(e, m)
    BY <1>1, <1>6, <1>9
<1> QED
    BY <1>7, <1>8, <1>10 DEF Entries

\* A set of integers between bounds has a greatest and a least element.
LEMMA BoundedHasMax ==
    ASSUME NEW lo \in Int, NEW hi \in Int, NEW T, T \subseteq lo .. hi, T # {}
    PROVE  Max(T) \in T /\ \A y \in T : y <= Max(T)
<1> DEFINE R == {hi - x : x \in T}
<1>1. R \subseteq Nat /\ R # {}
    OBVIOUS
<1>2. PICK r \in R : \A k \in R : r <= k
  <2> HIDE DEF R
  <2> QED
      BY <1>1, LeastNatural
<1>3. PICK x \in T : r = hi - x
    OBVIOUS
<1>4. \A y \in T : y <= x
  <2> SUFFICES ASSUME NEW y \in T PROVE y <= x
      OBVIOUS
  <2>1. hi - y \in R /\ y \in Int /\ x \in Int
      OBVIOUS
  <2>2. r <= hi - y
      BY <1>2, <2>1
  <2> QED
      BY <1>3, <2>1, <2>2
<1>5. Max(T) = x
  <2>1. T \subseteq Int
      OBVIOUS
  <2> HIDE DEF R
  <2> QED
      BY <1>4, <2>1, MaxIs
<1> QED
    BY <1>4, <1>5

\* The least element.
LEMMA BoundedHasMin ==
    ASSUME NEW lo \in Int, NEW hi \in Int, NEW T, T \subseteq lo .. hi, T # {}
    PROVE  Min(T) \in T /\ \A y \in T : Min(T) <= y
<1> DEFINE R == {x - lo : x \in T}
<1>1. R \subseteq Nat /\ R # {}
    OBVIOUS
<1>2. PICK r \in R : \A k \in R : r <= k
  <2> HIDE DEF R
  <2> QED
      BY <1>1, LeastNatural
<1>3. PICK x \in T : r = x - lo
    OBVIOUS
<1>4. \A y \in T : x <= y
  <2> SUFFICES ASSUME NEW y \in T PROVE x <= y
      OBVIOUS
  <2>1. y - lo \in R /\ y \in Int /\ x \in Int
      OBVIOUS
  <2>2. r <= y - lo
      BY <1>2, <2>1
  <2> QED
      BY <1>3, <2>1, <2>2
<1>5. Min(T) = x
  <2>1. T \subseteq Int
      OBVIOUS
  <2> HIDE DEF R
  <2> QED
      BY <1>4, <2>1, MinIs
<1> QED
    BY <1>4, <1>5

\* The extent of some entries along a dimension.
LEMMA ExtentIs ==
    ASSUME NEW m \in Metrics, NEW S, S \subseteq Entries(m), S # {}, NEW d \in Dims
    PROVE  Extent(S, d) \in Nat
<1> DEFINE values == {v[d] : v \in S}
<1>1. Low(d, m) \in Int /\ High(d, m) \in Int
    BY ComponentIs
<1>2. values \subseteq Low(d, m) .. High(d, m) /\ values # {}
  <2>1. \A v \in S : v[d] \in Int /\ Low(d, m) <= v[d] /\ v[d] <= High(d, m)
      BY EntryParts
  <2> QED
      BY <1>1, <2>1
<1>3. PICK lo \in Int, hi \in Int : lo = Low(d, m) /\ hi = High(d, m)
    BY <1>1
<1>4. Extent(S, d) = Max(values) - Min(values)
    BY DEF Extent
<1> HIDE DEF values
<1>5. values \subseteq lo .. hi
    BY <1>2, <1>3
<1>6. Max(values) \in values /\ \A y \in values : y <= Max(values)
    BY <1>2, <1>5, BoundedHasMax
<1>7. Min(values) \in values
    BY <1>2, <1>5, BoundedHasMin
<1>8. PICK x, y : x = Max(values) /\ y = Min(values)
    OBVIOUS
<1>9. x \in values /\ y \in values /\ y <= x
    BY <1>6, <1>7, <1>8
<1>10. x \in Int /\ y \in Int
    BY <1>5, <1>9
<1> QED
    BY <1>4, <1>8, <1>9, <1>10

\* A cluster that can be split has two vectors or more and a dimension to be
\* split along.
LEMMA SplitScoreIs ==
    ASSUME NEW m \in Metrics, NEW c \in Seq(Entries(m)), c # <<>>
    PROVE  /\ SplitScore(c, m).score \in Nat
           /\ SplitScore(c, m).score > 0 =>
                Len(c) >= 2 /\ SplitScore(c, m).dim \in Dims
<1> DEFINE members == {c[i] : i \in DOMAIN c}
           score(d) == DimWeight(d, m) * Extent(members, d)
           k == CountOfDims(m)
           best == Max({score(d) : d \in 1 .. k})
           first == Min({d \in 1 .. k : score(d) = best})
<1>1. k \in Nat \ {0} /\ 1 .. k \subseteq Dims /\ \A d : DimWeight(d, m) \in Nat
    BY MetricParts
<1>2. SplitScore(c, m) = IF Len(c) < 2 \/ best = 0 THEN [score |-> 0, dim |-> 0]
                         ELSE [score |-> best, dim |-> first]
    BY DEF SplitScore
<1>3. members \subseteq Entries(m) /\ members # {}
  <2>1. 1 \in DOMAIN c
      OBVIOUS
  <2>2. \A i \in DOMAIN c : c[i] \in Entries(m)
      OBVIOUS
  <2> QED
      BY <2>1, <2>2
<1> HIDE DEF members
<1>4. \A d \in 1 .. k : score(d) \in Nat
  <2> SUFFICES ASSUME NEW d \in 1 .. k PROVE score(d) \in Nat
      OBVIOUS
  <2>1. d \in Dims
      BY <1>1
  <2>2. Extent(members, d) \in Nat
      BY <1>3, <2>1, ExtentIs
  <2> QED
      BY <1>1, <2>2
<1> HIDE DEF score
<1>5. best \in {score(d) : d \in 1 .. k}
  <2> DEFINE f == [d \in 1 .. k |-> score(d)]
  <2>1. \A d \in 1 .. k : f[d] \in Int
      BY <1>4
  <2>2. {f[d] : d \in 1 .. k} = {score(d) : d \in 1 .. k}
      OBVIOUS
  <2>3. k \in Nat /\ k # 0
      BY <1>1
  <2> HIDE DEF f, k
  <2>4. Max({f[d] : d \in 1 .. k}) \in {f[d] : d \in 1 .. k}
      BY <2>1, <2>3, MaxOfMany
  <2> QED
      BY <2>2, <2>4
<1>6. first \in 1 .. k
  <2> DEFINE T == {d \in 1 .. k : score(d) = best}
  <2>1. T \subseteq Nat
      BY <1>1
  <2>3. T # {}
    <3>1. PICK d \in 1 .. k : best = score(d)
      <4> HIDE DEF best
      <4> QED
          BY <1>5
    <3>2. d \in T
      <4> HIDE DEF best
      <4> QED
          BY <3>1
    <3> QED
        BY <3>2
  <2>2. Min(T) \in T
    <3> HIDE DEF T
    <3> QED
        BY <2>1, <2>3, MinOfNaturals
  <2> QED
      BY <2>2
<1>7. best \in Nat /\ first \in Dims
    BY <1>1, <1>4, <1>5, <1>6
<1> HIDE DEF best, first
<1>8. CASE Len(c) < 2 \/ best = 0
    BY <1>2, <1>8
<1>9. CASE ~(Len(c) < 2 \/ best = 0)
    BY <1>2, <1>7, <1>9
<1> QED
    BY <1>8, <1>9

-----------------------------------------------------------------------------
\* The places of a vector in a cluster, and its two halves.

\* The places of a value in a sequence.
Places(c, v) == {i \in DOMAIN c : c[i] = v}

\* They can be counted.
LEMMA PlacesAreFinite ==
    ASSUME NEW n \in Nat, NEW c, DOMAIN c = 1 .. n, NEW v
    PROVE  IsFiniteSet(Places(c, v)) /\ Cardinality(Places(c, v)) \in Nat
<1>1. IsFiniteSet(1 .. n)
    BY FS_Interval
<1>2. Places(c, v) \in SUBSET (1 .. n)
    BY DEF Places
<1>3. IsFiniteSet(Places(c, v))
    BY <1>1, <1>2, FS_Subset
<1> QED
    BY <1>3, FS_CardinalityType

\* q is c in another order.
Permuted(p, n, c, q) ==
    p \in Bijection(1 .. n, 1 .. n) /\ q = [k \in 1 .. n |-> c[p[k]]]

\* The sort puts every vector to a place of its own.
LEMMA SortPermutes ==
    ASSUME NEW n \in Nat, NEW c, c \in [1 .. n -> [Dims -> Int]], NEW d \in Dims
    PROVE  \E p : Permuted(p, n, c, SortedBy(c, d))
<1> DEFINE before(i, j) == c[i][d] < c[j][d] \/ (c[i][d] = c[j][d] /\ i < j)
           ahead(i) == {j \in 1 .. n : before(j, i)}
           rank(i) == Cardinality(ahead(i)) + 1
           place == [i \in 1 .. n |-> rank(i)]
           p == [k \in 1 .. n |-> CHOOSE i \in 1 .. n : rank(i) = k]
<1>1. \A i \in 1 .. n : c[i][d] \in Int
    OBVIOUS
<1>2. IsFiniteSet(1 .. n) /\ Cardinality(1 .. n) = n
    BY FS_Interval
<1>3. SortedBy(c, d) = [k \in 1 .. n |-> c[p[k]]]
  <2>1. DOMAIN c = 1 .. n
      OBVIOUS
  <2>2. SortedBy(c, d) = [k \in 1 .. n |-> c[CHOOSE i \in 1 .. n : rank(i) = k]]
      BY <2>1 DEF SortedBy
  <2> HIDE DEF rank
  <2> QED
      BY <2>2
<1>4. \A i, j, k \in 1 .. n : /\ before(i, j) /\ before(j, k) => before(i, k)
                              /\ ~before(i, i)
                              /\ i # j => before(i, j) \/ before(j, i)
    BY <1>1
<1> HIDE DEF before
<1>5. ASSUME NEW i \in 1 .. n
      PROVE  /\ IsFiniteSet(ahead(i)) /\ Cardinality(ahead(i)) \in Nat
             /\ Cardinality(ahead(i)) < n
  <2>1. ahead(i) \in SUBSET (1 .. n)
      OBVIOUS
  <2>2. i \notin ahead(i)
      BY <1>4
  <2>3. PICK A : A = ahead(i)
      OBVIOUS
  <2>4. IsFiniteSet(A) /\ Cardinality(A) <= n
      BY <1>2, <2>1, <2>3, FS_Subset
  <2>5. Cardinality(A) # n
    <3>1. A # 1 .. n
        BY <2>2, <2>3
    <3> QED
        BY <1>2, <2>1, <2>3, <3>1, FS_Subset
  <2>6. Cardinality(A) \in Nat
      BY <2>4, FS_CardinalityType
  <2> QED
      BY <2>3, <2>4, <2>5, <2>6
<1>6. ASSUME NEW i \in 1 .. n, NEW j \in 1 .. n, before(i, j)
      PROVE  Cardinality(ahead(i)) < Cardinality(ahead(j))
  <2>1. ahead(i) \subseteq ahead(j)
    <3> SUFFICES ASSUME NEW k \in 1 .. n, before(k, i) PROVE before(k, j)
        OBVIOUS
    <3> QED
        BY <1>4, <1>6
  <2>2. i \in ahead(j) /\ i \notin ahead(i)
      BY <1>4, <1>6
  <2>3. PICK A, B : A = ahead(i) /\ B = ahead(j)
      OBVIOUS
  <2>4. IsFiniteSet(A) /\ IsFiniteSet(B) /\ Cardinality(A) \in Nat /\ Cardinality(B) \in Nat
      BY <1>5, <2>3
  <2>5. A \in SUBSET B /\ A # B
      BY <2>1, <2>2, <2>3
  <2>6. Cardinality(A) <= Cardinality(B)
      BY <2>4, <2>5, FS_Subset
  <2>7. Cardinality(B) # Cardinality(A)
      BY <2>4, <2>5, FS_Subset
  <2> QED
      BY <2>3, <2>4, <2>6, <2>7
<1>7. place \in Injection(1 .. n, 1 .. n)
  <2>1. ASSUME NEW i \in 1 .. n
        PROVE  rank(i) \in 1 .. n
    <3>1. PICK x \in Nat : x = Cardinality(ahead(i)) /\ x < n
        BY <1>5
    <3> QED
        BY <3>1
  <2>2. ASSUME NEW i \in 1 .. n, NEW j \in 1 .. n, i # j
        PROVE  rank(i) # rank(j)
    <3>1. PICK x \in Nat, y \in Nat : x = Cardinality(ahead(i)) /\ y = Cardinality(ahead(j))
        BY <1>5
    <3>2. x < y \/ y < x
        BY <1>4, <1>6, <2>2, <3>1
    <3> QED
        BY <3>1, <3>2
  <2> HIDE DEF rank
  <2>3. place \in [1 .. n -> 1 .. n]
      BY <2>1
  <2>4. \A i, j \in 1 .. n : place[i] = place[j] => i = j
      BY <2>2
  <2> QED
      BY <2>3, <2>4 DEF Injection, IsInjective
<1>8. place \in Surjection(1 .. n, 1 .. n)
  <2> HIDE DEF place
  <2> QED
      BY <1>2, <1>7, FS_Injection
<1>9. \A k \in 1 .. n : \E i \in 1 .. n : rank(i) = k
  <2> HIDE DEF rank
  <2> QED
      BY <1>8 DEF Surjection
<1>10. \A i, j \in 1 .. n : rank(i) = rank(j) => i = j
  <2> HIDE DEF rank
  <2> QED
      BY <1>7 DEF Injection, IsInjective
<1>11. \A i \in 1 .. n : rank(i) \in 1 .. n
  <2> HIDE DEF rank
  <2> QED
      BY <1>7 DEF Injection
<1> HIDE DEF rank
<1>12. \A k \in 1 .. n : p[k] \in 1 .. n /\ rank(p[k]) = k
  <2> SUFFICES ASSUME NEW k \in 1 .. n PROVE p[k] \in 1 .. n /\ rank(p[k]) = k
      OBVIOUS
  <2>1. p[k] = CHOOSE i \in 1 .. n : rank(i) = k
      OBVIOUS
  <2>2. \E i \in 1 .. n : rank(i) = k
      BY <1>9
  <2> HIDE DEF p
  <2> QED
      BY <2>1, <2>2, Zenon
<1>13. p = [k \in 1 .. n |-> p[k]]
    OBVIOUS
<1> HIDE DEF p
<1>14. p \in [1 .. n -> 1 .. n]
    BY <1>12, <1>13
<1>15. \A j, k \in 1 .. n : p[j] = p[k] => j = k
    BY <1>12
<1>16. \A i \in 1 .. n : \E k \in 1 .. n : p[k] = i
    BY <1>10, <1>11, <1>12
<1>17. p \in Bijection(1 .. n, 1 .. n)
    BY <1>14, <1>15, <1>16 DEF Bijection, Injection, IsInjective, Surjection
<1> QED
    BY <1>3, <1>17 DEF Permuted

\* The sort keeps the number of occurrences of each vector.
LEMMA SortKeepsCounts ==
    ASSUME NEW n \in Nat, NEW c, c \in [1 .. n -> [Dims -> Int]], NEW d \in Dims, NEW v
    PROVE  Cardinality(Places(SortedBy(c, d), v)) = Cardinality(Places(c, v))
<1>0. PICK p : Permuted(p, n, c, SortedBy(c, d))
    BY SortPermutes
<1>1. p \in Bijection(1 .. n, 1 .. n) /\ SortedBy(c, d) = [k \in 1 .. n |-> c[p[k]]]
    BY <1>0 DEF Permuted
<1>2. PICK q : q = SortedBy(c, d)
    OBVIOUS
<1> DEFINE A == Places(q, v)
           B == Places(c, v)
           f == [k \in A |-> p[k]]
<1>3. DOMAIN q = 1 .. n /\ \A k \in 1 .. n : q[k] = c[p[k]]
    BY <1>1, <1>2
<1>4. /\ \A k \in 1 .. n : p[k] \in 1 .. n
      /\ \A i, j \in 1 .. n : p[i] = p[j] => i = j
      /\ \A i \in 1 .. n : \E k \in 1 .. n : p[k] = i
    BY <1>1 DEF Bijection, Injection, IsInjective, Surjection
<1>5. A \subseteq 1 .. n /\ B \subseteq 1 .. n
    BY <1>3 DEF Places
<1>6. \A k \in 1 .. n : k \in A <=> p[k] \in B
    BY <1>3, <1>4 DEF Places
<1> HIDE DEF A, B
<1>7. f \in [A -> B]
    BY <1>5, <1>6
<1>8. \A i, j \in A : f[i] = f[j] => i = j
    BY <1>4, <1>5
<1>9. \A i \in B : \E k \in A : f[k] = i
  <2> SUFFICES ASSUME NEW i \in B PROVE \E k \in A : f[k] = i
      OBVIOUS
  <2>1. PICK k \in 1 .. n : p[k] = i
      BY <1>4, <1>5
  <2>2. k \in A
      BY <1>6, <2>1
  <2> QED
      BY <2>1, <2>2
<1>10. f \in Bijection(A, B)
  <2> HIDE DEF f
  <2> QED
      BY <1>7, <1>8, <1>9 DEF Bijection, Injection, IsInjective, Surjection
<1>11. ExistsBijection(A, B)
    BY <1>10 DEF ExistsBijection
<1>12. IsFiniteSet(A)
    BY <1>3, PlacesAreFinite DEF A
<1>13. Cardinality(B) = Cardinality(A)
    BY <1>11, <1>12, FS_Bijection
<1> QED
    BY <1>2, <1>13 DEF A, B

\* What is cut in two has each vector in one of the halves.
LEMMA HalvesAddUp ==
    ASSUME NEW S, NEW q \in Seq(S), NEW h \in 0 .. Len(q), NEW v
    PROVE  Cardinality(Places(q, v)) =
             Cardinality(Places(SubSeq(q, 1, h), v)) +
             Cardinality(Places(SubSeq(q, h + 1, Len(q)), v))
<1>1. PICK n \in Nat : n = Len(q) /\ h \in 0 .. n
    OBVIOUS
<1>2. PICK a, b : a = SubSeq(q, 1, h) /\ b = SubSeq(q, h + 1, n)
    OBVIOUS
<1>3. DOMAIN q = 1 .. n /\ DOMAIN a = 1 .. h /\ DOMAIN b = 1 .. n - h
    BY <1>1, <1>2
<1>4. \A i \in 1 .. h : a[i] = q[i]
    BY <1>1, <1>2
<1>5. \A i \in 1 .. n - h : b[i] = q[h + i]
    BY <1>1, <1>2
<1> DEFINE A == Places(a, v)
           B == Places(b, v)
           C == {i \in h + 1 .. n : q[i] = v}
           f == [i \in B |-> h + i]
<1>6. Places(q, v) = A \cup C /\ A \cap C = {}
    BY <1>1, <1>3, <1>4 DEF Places
<1>7. B \subseteq 1 .. n - h /\ \A i \in 1 .. n - h : i \in B <=> q[h + i] = v
    BY <1>3, <1>5 DEF Places
<1>8. IsFiniteSet(A) /\ Cardinality(A) \in Nat
  <2>1. h \in Nat
      BY <1>1
  <2> QED
      BY <1>3, <2>1, PlacesAreFinite
<1>9. IsFiniteSet(B) /\ Cardinality(B) \in Nat
  <2>1. n - h \in Nat
      BY <1>1
  <2> QED
      BY <1>3, <2>1, PlacesAreFinite
<1> HIDE DEF A, B
<1>10. f \in [B -> C]
    BY <1>1, <1>7
<1>11. \A i, j \in B : f[i] = f[j] => i = j
    BY <1>1, <1>7
<1>12. \A i \in C : \E k \in B : f[k] = i
  <2> SUFFICES ASSUME NEW i \in C PROVE \E k \in B : f[k] = i
      OBVIOUS
  <2>1. i - h \in 1 .. n - h /\ h + (i - h) = i /\ q[i] = v
      BY <1>1
  <2>2. i - h \in B
      BY <1>7, <2>1
  <2>3. f[i - h] = h + (i - h)
      BY <2>2
  <2> QED
      BY <2>1, <2>2, <2>3
<1>13. f \in Bijection(B, C)
  <2> HIDE DEF f, C
  <2> QED
      BY <1>10, <1>11, <1>12 DEF Bijection, Injection, IsInjective, Surjection
<1>14. ExistsBijection(B, C)
    BY <1>13 DEF ExistsBijection
<1> HIDE DEF C
<1>15. IsFiniteSet(C) /\ Cardinality(C) = Cardinality(B)
    BY <1>9, <1>14, FS_Bijection
<1>16. Cardinality(A \cup C) = Cardinality(A) + Cardinality(C) - Cardinality(A \cap C)
    BY <1>8, <1>15, FS_Union
<1>17. Cardinality(A \cap C) = 0
    BY <1>6, FS_EmptySet
<1> QED
    BY <1>1, <1>2, <1>6, <1>8, <1>9, <1>15, <1>16, <1>17 DEF A, B

-----------------------------------------------------------------------------
\* Draws, sequences of a set, and the two metrics.

\* A sequence as a function, with one more element.
LEMMA OneMore ==
    ASSUME NEW V, NEW n \in Nat, NEW b \in [1 .. n -> V], NEW c \in V
    PROVE  /\ Append(b, c) \in [1 .. n + 1 -> V] /\ Append(b, c)[n + 1] = c
           /\ \A t \in 1 .. n : Append(b, c)[t] = b[t]
<1>1. b \in Seq(V) /\ Len(b) = n
    OBVIOUS
<1>2. Append(b, c) \in Seq(V) /\ Len(Append(b, c)) = n + 1
    BY <1>1
<1>3. Append(b, c) \in [1 .. n + 1 -> V]
  <2>1. Append(b, c) \in [1 .. Len(Append(b, c)) -> V]
      BY <1>2, LenProperties
  <2> QED
      BY <1>2, <2>1, Zenon
<1>4. Append(b, c)[n + 1] = c
    BY <1>1
<1>5. \A t \in 1 .. n : Append(b, c)[t] = b[t]
    BY <1>1
<1> QED
    BY <1>3, <1>4, <1>5

\* A further entry can only bring a vector nearer.
ComesNearer(v, book, c, m) ==
    Nearest(v, Append(book, c), m).err = Min({Nearest(v, book, m).err, Distance(v, c, m)})

\* The scan of the longer book goes like that of the shorter one, and compares
\* once more.
LEMMA OneMoreEntry ==
    ASSUME NEW m \in Metrics, NEW v \in [Dims -> Int], NEW n \in Nat, n # 0,
           NEW book \in [1 .. n -> [Dims -> Int]], NEW c \in [Dims -> Int]
    PROVE  ComesNearer(v, book, c, m)
<1>1. PICK b : b = Append(book, c)
    OBVIOUS
<1>2. /\ b \in [1 .. n + 1 -> [Dims -> Int]] /\ b[n + 1] = c
      /\ \A t \in 1 .. n : b[t] = book[t]
  <2>1. PICK V : V = [Dims -> Int]
      OBVIOUS
  <2>2. book \in [1 .. n -> V] /\ c \in V
      BY <2>1
  <2>3. b \in [1 .. n + 1 -> V]
      BY <1>1, <2>2, OneMore
  <2>4. b[n + 1] = c
      BY <1>1, <2>2, OneMore
  <2>5. \A t \in 1 .. n : b[t] = book[t]
      BY <1>1, <2>2, OneMore
  <2> QED
      BY <2>1, <2>3, <2>4, <2>5
<1>3. PICK x : x = Nearest(v, b, m).err
    OBVIOUS
<1>4. PICK y : y = Nearest(v, book, m).err
    OBVIOUS
<1>5. PICK z : z = Distance(v, c, m)
    OBVIOUS
<1>6. /\ y \in Nat /\ \A t \in 1 .. n : y <= Distance(v, book[t], m)
      /\ \E t \in 1 .. n : y = Distance(v, book[t], m)
    BY <1>4, ErrIsLeast
<1>7. /\ x \in Nat /\ \A t \in 1 .. n + 1 : x <= Distance(v, b[t], m)
      /\ \E t \in 1 .. n + 1 : x = Distance(v, b[t], m)
  <2>1. n + 1 \in Nat /\ n + 1 # 0
      OBVIOUS
  <2> QED
      BY <1>2, <1>3, <2>1, ErrIsLeast
<1>8. z \in Nat
    BY <1>5, DistanceIs
<1>9. x <= y /\ x <= z
  <2>1. x <= z
    <3>1. n + 1 \in 1 .. n + 1
        OBVIOUS
    <3> QED
        BY <1>2, <1>5, <1>7, <3>1
  <2>2. PICK t \in 1 .. n : y = Distance(v, book[t], m)
      BY <1>6
  <2>3. t \in 1 .. n + 1 /\ b[t] = book[t]
      BY <1>2
  <2> QED
      BY <1>7, <2>1, <2>2, <2>3
<1>10. x = y \/ x = z
  <2>1. PICK t \in 1 .. n + 1 : x = Distance(v, b[t], m)
      BY <1>7
  <2>2. CASE t = n + 1
      BY <1>2, <1>5, <2>1, <2>2
  <2>3. CASE t # n + 1
    <3>1. t \in 1 .. n
        BY <2>3
    <3>2. y <= x
        BY <1>2, <1>6, <2>1, <3>1
    <3> QED
        BY <1>6, <1>7, <1>9, <3>2
  <2> QED
      BY <2>2, <2>3
<1>11. Min({y, z}) = x
  <2>1. PICK S : S = {y, z}
      OBVIOUS
  <2>2. S \subseteq Int /\ x \in S /\ \A k \in S : x <= k
      BY <1>6, <1>7, <1>8, <1>9, <1>10, <2>1
  <2>3. Min(S) = x
      BY <2>2, MinIs
  <2> QED
      BY <2>1, <2>3
<1> QED
    BY <1>1, <1>3, <1>4, <1>5, <1>11 DEF ComesNearer

\* What a draw falls to has a share.
LEMMA DrawHasShare ==
    ASSUME NEW N \in Nat, NEW d2, \A i \in 1 .. N : d2[i] \in Nat,
           NEW r \in Nat, r < SumTo(N, d2)
    PROVE  LET k == Min({i \in 1 .. N : SumTo(i, d2) > r}) IN k \in 1 .. N /\ d2[k] > 0
<1> DEFINE T == {i \in 1 .. N : SumTo(i, d2) > r}
<1>1. \A i \in 1 .. N : d2[i] \in Int
    OBVIOUS
<1>2. /\ SumTo(0, d2) = 0 /\ \A i \in 0 .. N : SumTo(i, d2) \in Int
      /\ \A i \in 1 .. N : SumTo(i, d2) = SumTo(i - 1, d2) + d2[i]
    BY <1>1, SumSteps
<1>3. N # 0
    BY <1>2
<1>4. N \in T
    BY <1>2, <1>3
<1>5. PICK k : k = Min(T)
    OBVIOUS
<1>6. k \in T /\ \A i \in T : k <= i
  <2>1. T \subseteq Nat /\ T # {}
      BY <1>4
  <2> HIDE DEF T
  <2> QED
      BY <1>5, <2>1, MinOfNaturals
<1>7. SumTo(k - 1, d2) <= r
  <2>1. CASE k = 1
      BY <1>2, <2>1
  <2>2. CASE k # 1
    <3>1. k - 1 \in 1 .. N /\ k - 1 \in 0 .. N /\ k - 1 \notin T
        BY <1>6, <2>2
    <3>2. SumTo(k - 1, d2) \in Int
        BY <1>2, <3>1
    <3> QED
        BY <3>1, <3>2
  <2> QED
      BY <2>1, <2>2
<1>8. k \in 1 .. N /\ SumTo(k, d2) > r /\ k - 1 \in 0 .. N /\ k \in 0 .. N
    BY <1>6
<1>9. SumTo(k, d2) = SumTo(k - 1, d2) + d2[k] /\ SumTo(k - 1, d2) \in Int /\ d2[k] \in Nat
    BY <1>2, <1>8
<1>10. d2[k] > 0
    BY <1>7, <1>8, <1>9
<1> QED
    BY <1>5, <1>8, <1>10

\* A book of different members of a set of at most its size has all of them.
LEMMA AllDrawn ==
    ASSUME NEW n \in Nat, NEW R, IsFiniteSet(R), Cardinality(R) <= n,
           NEW b \in [1 .. n -> R], \A s, t \in 1 .. n : b[s] = b[t] => s = t
    PROVE  \A x \in R : \E s \in 1 .. n : b[s] = x
<1>1. b \in Injection(1 .. n, R)
    BY DEF Injection, IsInjective
<1>2. Cardinality(1 .. n) = n /\ IsFiniteSet(1 .. n)
    BY FS_Interval
<1>3. Cardinality(R) \in Nat
    BY FS_CardinalityType
<1>4. Cardinality(1 .. n) <= Cardinality(R)
    BY <1>1, FS_Injection
<1>5. Cardinality(1 .. n) = Cardinality(R)
    BY <1>2, <1>3, <1>4
<1>6. b \in Surjection(1 .. n, R)
    BY <1>1, <1>5, FS_Injection
<1> QED
    BY <1>6 DEF Surjection

\* A finite set as a sequence.
LEMMA SetToSeqIs ==
    ASSUME NEW S, IsFiniteSet(S)
    PROVE  SetToSeq(S) \in Seq(S)
<1>1. Cardinality(S) \in Nat /\ ExistsBijection(1 .. Cardinality(S), S)
    BY FS_CardinalityType
<1>2. PICK f : f \in Bijection(1 .. Cardinality(S), S)
    BY <1>1 DEF ExistsBijection
<1>3. f \in [1 .. Cardinality(S) -> S] /\ IsInjective(f)
    BY <1>2 DEF Bijection, Injection
<1>4. SetToSeq(S) \in [1 .. Cardinality(S) -> S]
    BY <1>3, Zenon DEF SetToSeq
<1>5. PICK n \in Nat : n = Cardinality(S)
    BY <1>1
<1>6. SetToSeq(S) \in [1 .. n -> S]
    BY <1>4, <1>5
<1> QED
    BY <1>6

\* Among grays, what is nearest in colours is nearest.
LEMMA ColoursOfGrays ==
    ASSUME NEW m \in Metrics, NEW a \in Entries(m), NEW b \in Entries(m)
    PROVE  /\ [m EXCEPT !.mode = "Yuv12"] \in Metrics
           /\ Distance(a, b, [m EXCEPT !.mode = "Yuv12"]) = Distance(a, b, m)
<1>1. PICK c : c = [m EXCEPT !.mode = "Yuv12"]
    OBVIOUS
<1>2. c \in Metrics /\ c.mode = "Yuv12" /\ c.weight = m.weight
    BY <1>1 DEF Metrics
<1>3. PICK all \in Nat, k \in Nat : all = CountOfDims(c) /\ k = CountOfDims(m)
    BY <1>2, MetricParts
<1>4. all = LumaDims + ChromaDims /\ k <= all /\ Dims = 1 .. all
    BY <1>2, <1>3, MetricParts DEF CountOfDims, Dims
<1>5. a \in [Dims -> Int] /\ b \in [Dims -> Int]
    BY EntryParts
<1>6. PICK f : f = Squares(a, b, m)
    OBVIOUS
<1>7. Squares(a, b, c) = f
  <2>1. \A d : DimWeight(d, c) = DimWeight(d, m)
      BY <1>2 DEF DimWeight, LumaWeight
  <2> QED
      BY <1>6, <2>1 DEF Squares
<1>8. Distance(a, b, c) = SumTo(all, f)
  <2>1. 1 .. all \subseteq Dims
      BY <1>4
  <2>2. SquareTo(all, a, b, c) = SumTo(all, Squares(a, b, c))
      BY <1>2, <1>5, <2>1, SquaresType
  <2> QED
      BY <1>3, <1>7, <2>2 DEF Distance
<1>9. Distance(a, b, m) = SumTo(k, f)
  <2>1. 1 .. k \subseteq Dims
      BY <1>3, MetricParts
  <2>2. SquareTo(k, a, b, m) = SumTo(k, Squares(a, b, m))
      BY <1>5, <2>1, SquaresType
  <2> QED
      BY <1>3, <1>6, <2>2 DEF Distance
<1>10. \A d \in 1 .. all : f[d] \in Int
    BY <1>4, <1>5, <1>6, SquaresType
<1>11. \A d \in k + 1 .. all : f[d] = 0
  <2> SUFFICES ASSUME NEW d \in k + 1 .. all PROVE f[d] = 0
      OBVIOUS
  <2>1. d \in Dims /\ d > CountOfDims(m)
      BY <1>3, <1>4
  <2>2. a[d] = 0
      BY <2>1, EntryParts
  <2>3. b[d] = 0
      BY <2>1, EntryParts
  <2> QED
      BY <1>5, <1>6, <2>1, <2>2, <2>3, SquaresType
<1>12. k \in 0 .. all
    BY <1>3, <1>4
<1>13. SumTo(all, f) = SumTo(k, f)
    BY <1>3, <1>10, <1>11, <1>12, ZeroTail
<1> QED
    BY <1>1, <1>2, <1>8, <1>9, <1>13

-----------------------------------------------------------------------------
\* The input, and the invariant of the training.

Halves == {"V4", "V1"}

\* What the assumption says of an input.
LEMMA InputParts ==
    ASSUME NEW s \in Strips
    PROVE  /\ s.metric \in Metrics /\ s.mbs \in Seq(Macroblocks(s.metric))
           /\ \A w \in Halves :
                /\ s.sizes[w] \in Nat /\ s.sizes[w] # 0
                /\ s.seed[w] # NoBook =>
                     s.seed[w] \in [1 .. s.sizes[w] -> Entries(s.metric)]
BY TrainingAssumption DEF Halves

\* What it says of the options.
LEMMA TuningParts ==
    ASSUME NEW o \in Tunings
    PROVE  /\ o.kmeans \in BOOLEAN /\ o.lloyd \in Nat /\ o.kmeansLloyd \in Nat
           /\ o.lbg \in Nat /\ o.pcl \in Nat
BY TrainingAssumption

\* A book is not NoBook.
LEMMA BooksAreBooks ==
    ASSUME NEW m \in Metrics, NEW n \in Nat, NEW b \in [1 .. n -> Entries(m)]
    PROVE  b # NoBook
<1>1. b \in Seq([Dims -> Int])
  <2>1. PICK V : V = [Dims -> Int]
      OBVIOUS
  <2>2. b \in [1 .. n -> V]
      BY <2>1 DEF Entries
  <2>3. b \in Seq(V)
      BY <2>2
  <2> QED
      BY <2>1, <2>3
<1> QED
    BY <1>1, TrainingAssumption

\* The vectors of a strip are entries of its mode.
LEMMA SampledType ==
    ASSUME NEW s \in Strips
    PROVE  \A w \in Halves : Sampled(s)[w] \in Seq(Entries(s.metric))
<1>0. PICK N \in Nat : N = Len(s.mbs)
    BY InputParts
<1>1. PICK E : E = Entries(s.metric)
    OBVIOUS
<1> DEFINE V == [V4 : Seq(E), V1 : Seq(E)]
           step == [p \in V \X (1 .. N) |->
                      IF s.mbs[p[2]].skip THEN p[1]
                      ELSE [V4 |-> p[1].V4 \o s.mbs[p[2]].v4,
                            V1 |-> Append(p[1].V1, s.mbs[p[2]].v1)]]
           next(i, h) ==
              IF i = 0 THEN Both(<<>>)
              ELSE IF s.mbs[i].skip THEN h[i - 1]
              ELSE [V4 |-> h[i - 1].V4 \o s.mbs[i].v4,
                    V1 |-> Append(h[i - 1].V1, s.mbs[i].v1)]
           after == CHOOSE h : h = [i \in 0 .. N |-> next(i, h)]
<1>2. ASSUME NEW i \in 1 .. N
      PROVE  s.mbs[i].v4 \in Seq(E) /\ s.mbs[i].v1 \in E
  <2>1. s.mbs[i] \in Macroblocks(s.metric)
      BY <1>0, InputParts
  <2>2. s.mbs[i].v4 \in [1 .. LumaDims -> E] /\ s.mbs[i].v1 \in E
      BY <1>1, <2>1 DEF Macroblocks, Luma
  <2>3. LumaDims \in Nat
      BY VectorAssumption
  <2> QED
      BY <2>2, <2>3
<1>3. step \in [V \X (1 .. N) -> V]
  <2>1. ASSUME NEW r \in V, NEW i \in 1 .. N
        PROVE  [V4 |-> r.V4 \o s.mbs[i].v4, V1 |-> Append(r.V1, s.mbs[i].v1)] \in V
    <3>1. r.V4 \o s.mbs[i].v4 \in Seq(E)
        BY <1>2
    <3>2. Append(r.V1, s.mbs[i].v1) \in Seq(E)
        BY <1>2
    <3> QED
        BY <3>1, <3>2
  <2> HIDE DEF V
  <2> QED
      BY <2>1
<1>4. Both(<<>>) \in V
    BY DEF Both
<1>5. \A i \in 1 .. N : \A h : h[i - 1] \in V => next(i, h) = step[<<h[i - 1], i>>]
  <2> SUFFICES ASSUME NEW i \in 1 .. N, NEW h, h[i - 1] \in V
               PROVE  next(i, h) = step[<<h[i - 1], i>>]
      OBVIOUS
  <2> HIDE DEF V
  <2>1. PICK r \in V : r = h[i - 1]
      OBVIOUS
  <2>2. step[<<r, i>>] = IF s.mbs[i].skip THEN r
                         ELSE [V4 |-> r.V4 \o s.mbs[i].v4, V1 |-> Append(r.V1, s.mbs[i].v1)]
      OBVIOUS
  <2>3. next(i, h) = IF s.mbs[i].skip THEN r
                     ELSE [V4 |-> r.V4 \o s.mbs[i].v4, V1 |-> Append(r.V1, s.mbs[i].v1)]
      BY <2>1
  <2> QED
      BY <2>1, <2>2, <2>3
<1>6. \A h : next(0, h) = Both(<<>>)
    OBVIOUS
<1>7. Sampled(s) = after[N]
    BY <1>0 DEF Sampled
<1> HIDE DEF V, step, next, after
<1>8. PICK g \in Recursion(N, V, Both(<<>>), step) : TRUE
    BY <1>3, <1>4, RecursionIsDefined
<1>9. /\ g \in [0 .. N -> V] /\ g[0] = Both(<<>>)
      /\ \A i \in 1 .. N : g[i] = step[<<g[i - 1], i>>]
    BY <1>8 DEF Recursion
<1>10. g = [i \in 0 .. N |-> next(i, g)]
  <2>1. ASSUME NEW i \in 0 .. N PROVE g[i] = next(i, g)
    <3>1. CASE i = 0
        BY <1>6, <1>9, <3>1
    <3>2. CASE i \in 1 .. N
      <4>1. g[i - 1] \in V
          BY <1>9, <3>2
      <4> QED
          BY <1>5, <1>9, <3>2, <4>1
    <3> QED
        BY <3>1, <3>2
  <2> QED
      BY <1>9, <2>1
<1>11. after = [i \in 0 .. N |-> next(i, after)]
    BY <1>10, Zenon DEF after
<1>12. \A i \in 0 .. N : after[i] = next(i, after)
    BY <1>11, Zenon
<1>13. after[0] \in V
  <2>1. 0 \in 0 .. N
      OBVIOUS
  <2> QED
      BY <1>4, <1>6, <1>12, <2>1
<1>14. \A i \in 1 .. N : after[i - 1] \in V => after[i] = step[<<after[i - 1], i>>]
  <2>1. \A i \in 1 .. N : i \in 0 .. N
      OBVIOUS
  <2> QED
      BY <1>5, <1>12, <2>1
<1>15. \A i \in 0 .. N : after[i] \in V
    BY <1>3, <1>13, <1>14, RecursionStays
<1>16. after[N] \in V
    BY <1>15
<1> QED
    BY <1>1, <1>7, <1>16 DEF V, Halves

Loops == {"seeded", "cut", "spread", "lloyd", "refine", "lbg", "classify", "polish", "done"}

\* A book of a codebook: as many entries as it has slots, each of which fits a
\* u8 and an i8, and a gray one has no chroma.
IsBook(w, b) == b \in [1 .. strip.sizes[w] -> Entries(Metric)]

\* The codebooks that median_cut_seeded is done with.
Trained(w) ==
    \/ loop \in {"refine", "lbg", "classify", "polish", "done"}
    \/ w = "V4" /\ which = "V1"

\* The case in which k-means++ finds a slot for each vector.
Roomy(w) ==
    /\ opts.kmeans /\ opts.lloyd > 0
    /\ strip.sizes[w] >= 2
    /\ Cardinality(Range(vectors[w])) <= strip.sizes[w]

\* What a codebook started cold owes to that of median cut.
Good(w, b) ==
    cut[w] # NoBook =>
        /\ TotalSse(b, vectors[w], Metric) <= TotalSse(cut[w], vectors[w], Metric)
        /\ Roomy(w) => TotalSse(b, vectors[w], Metric) = 0

InputInv ==
    /\ strip \in Strips /\ opts \in Tunings /\ vectors = Sampled(strip)
    /\ which \in Halves /\ loop \in Loops

BooksFit ==
    /\ DOMAIN books = Halves
    /\ \A w \in Halves : Trained(w) \/ (w = which /\ loop = "lloyd") => IsBook(w, books[w])

CutsFit ==
    /\ DOMAIN cut = Halves
    /\ \A w \in Halves :
         /\ cut[w] # NoBook => IsBook(w, cut[w])
         /\ ~Trained(w) =>
              (cut[w] # NoBook <=> w = which /\ loop \in {"spread", "lloyd"} /\ ~Warm)

BooksAreGood ==
    loop \notin {"polish", "done"} => \A w \in Halves : Trained(w) => Good(w, books[w])

\* How often a vector occurs in the clusters.
CountIn(clusters, v) ==
    SumTo(Len(clusters), [c \in DOMAIN clusters |-> Cardinality(Places(clusters[c], v))])

CutLoop ==
    loop = "cut" =>
        /\ ~Warm
        /\ local.clusters \in Seq(Seq(Entries(Metric)) \ {<<>>})
        /\ local.cache = [i \in DOMAIN local.clusters |->
                             SplitScore(local.clusters[i], Metric)]
        /\ \A v \in Range(Population) :
             Cardinality(Places(Population, v)) = CountIn(local.clusters, v)

\* No draw repeats a vector.
Drawing(b) ==
    /\ b \in Seq(Range(Population)) /\ b # <<>> /\ Len(b) <= Size
    /\ \A s, t \in DOMAIN b : b[s] = b[t] => s = t

SpreadLoop ==
    loop = "spread" =>
        /\ ~Warm /\ Drawing(Book)
        /\ local.d2 = [i \in DOMAIN Population |-> Nearest(Population[i], Book, Metric).err]
        /\ local.sum = TotalSse(Book, Population, Metric)

LloydLoop ==
    loop = "lloyd" =>
        /\ local.left \in Nat
        /\ ~Warm /\ Roomy(which) => TotalSse(Book, Population, Metric) = 0

RefineLoop ==
    loop = "lbg" =>
        /\ local.left \in Nat
        /\ local = [left |-> local.left, scan |-> Scan(Population, Book, Metric)]

PolishLoop ==
    /\ loop \in {"polish", "done"} => decisions = Classified(books)
    /\ loop = "polish" => local.left \in Nat

TrainInv ==
    /\ InputInv /\ BooksFit /\ CutsFit /\ BooksAreGood
    /\ CutLoop /\ SpreadLoop /\ LloydLoop /\ RefineLoop /\ PolishLoop

\* What the invariant says of the input.
LEMMA TrainFacts ==
    ASSUME InputInv
    PROVE  /\ Metric \in Metrics
           /\ \A w \in Halves : /\ vectors[w] \in Seq(Entries(Metric))
                                /\ strip.sizes[w] \in Nat /\ strip.sizes[w] # 0
                                /\ strip.seed[w] # NoBook => IsBook(w, strip.seed[w])
           /\ Population \in Seq(Entries(Metric)) /\ Size \in Nat /\ Size # 0
<1>1. strip \in Strips /\ vectors = Sampled(strip) /\ which \in Halves
    BY DEF InputInv
<1>2. \A w \in Halves : vectors[w] \in Seq(Entries(strip.metric))
    BY <1>1, SampledType
<1> QED
    BY <1>1, <1>2, InputParts DEF Metric, IsBook, Population, Size

\* What depends on what stays stays.
LEMMA SameBook ==
    ASSUME NEW w, strip' = strip, books'[w] = books[w], cut'[w] = cut[w]
    PROVE  /\ IsBook(w, books[w]) => IsBook(w, books[w])'
           /\ IsBook(w, cut[w]) => IsBook(w, cut[w])'
BY DEF IsBook, Metric

\* Nor does how good a book is depend on anything else.
LEMMA SameGood ==
    ASSUME NEW w, UNCHANGED <<strip, opts, vectors>>, books'[w] = books[w], cut'[w] = cut[w],
           Good(w, books[w])
    PROVE  Good(w, books[w])'
BY DEF Good, Roomy, Metric

Seeding == {"seeded", "cut", "spread", "lloyd"}

\* From a codebook to the next one.
LEMMA SeedingGoesOn ==
    ASSUME InputInv, loop \in Seeding, GoOn("seeded")
    PROVE  /\ which' \in Halves /\ loop' \in {"seeded", "refine"}
           /\ ~Trained(which)
           /\ \A w \in Halves : Trained(w)' <=> Trained(w) \/ w = which
           /\ loop' = "seeded" => ~Trained(which)'
<1>1. which = "V4" \/ which = "V1"
    BY DEF InputInv, Halves
<1>2. CASE which = "V4"
    BY <1>2 DEF Seeding, GoOn, Trained, Halves
<1>3. CASE which = "V1"
    BY <1>3 DEF Seeding, GoOn, Trained, Halves
<1> QED
    BY <1>1, <1>2, <1>3

\* A codebook is trained: what is to be shown of it is that it is one, and good.
LEMMA SeedingEnds ==
    ASSUME TrainInv, loop \in Seeding, GoOn("seeded"),
           NEW w \in Halves, w = which,
           UNCHANGED <<strip, opts, vectors, decisions>>,
           DOMAIN books' = Halves, DOMAIN cut' = Halves,
           \A x \in Halves : x # w => books'[x] = books[x] /\ cut'[x] = cut[x],
           IsBook(w, books[w])', (cut[w] # NoBook => IsBook(w, cut[w]))',
           Good(w, books[w])'
    PROVE  TrainInv'
<1>1. InputInv /\ BooksFit /\ CutsFit /\ BooksAreGood
    BY DEF TrainInv
<1>2. /\ which' \in Halves /\ loop' \in {"seeded", "refine"}
      /\ ~Trained(w)
      /\ \A x \in Halves : Trained(x)' <=> Trained(x) \/ x = w
    BY <1>1, SeedingGoesOn
<1>3. InputInv'
    BY <1>1, <1>2 DEF InputInv, Loops
<1>4. BooksFit'
  <2>1. ASSUME NEW x \in Halves, Trained(x)'
        PROVE  IsBook(x, books[x])'
    <3>1. CASE x = w
        BY <3>1
    <3>2. CASE x # w
      <4>1. IsBook(x, books[x])
          BY <1>1, <1>2, <2>1, <3>2 DEF BooksFit
      <4> QED
          BY <3>2, <4>1, SameBook
    <3> QED
        BY <3>1, <3>2
  <2> QED
      BY <1>2, <2>1 DEF BooksFit
<1>5. CutsFit'
  <2>1. ASSUME NEW x \in Halves
        PROVE  (cut[x] # NoBook => IsBook(x, cut[x]))'
    <3>1. CASE x = w
        BY <3>1
    <3>2. CASE x # w
      <4>1. cut[x] # NoBook => IsBook(x, cut[x])
          BY <1>1 DEF CutsFit
      <4> QED
          BY <3>2, <4>1, SameBook
    <3> QED
        BY <3>1, <3>2
  <2>2. ASSUME NEW x \in Halves, ~(Trained(x)')
        PROVE  cut'[x] = NoBook
    <3>1. x # w /\ ~Trained(x)
        BY <1>2, <2>2
    <3>2. cut[x] = NoBook
        BY <1>1, <3>1 DEF CutsFit
    <3> QED
        BY <3>1, <3>2
  <2>3. ~(loop' \in {"spread", "lloyd"})
      BY <1>2
  <2> QED
      BY <2>1, <2>2, <2>3 DEF CutsFit
<1>6. BooksAreGood'
  <2>1. ASSUME NEW x \in Halves, Trained(x)'
        PROVE  Good(x, books[x])'
    <3>1. CASE x = w
        BY <3>1
    <3>2. CASE x # w
      <4>1. loop \notin {"polish", "done"} /\ Trained(x)
          BY <1>2, <2>1, <3>2 DEF Seeding
      <4>2. Good(x, books[x])
          BY <1>1, <4>1 DEF BooksAreGood
      <4> QED
          BY <3>2, <4>2, SameGood
    <3> QED
        BY <3>1, <3>2
  <2> QED
      BY <2>1 DEF BooksAreGood
<1>7. CutLoop' /\ SpreadLoop' /\ LloydLoop' /\ RefineLoop' /\ PolishLoop'
    BY <1>2 DEF CutLoop, SpreadLoop, LloydLoop, RefineLoop, PolishLoop
<1> QED
    BY <1>3, <1>4, <1>5, <1>6, <1>7 DEF TrainInv

\* A step within the training of a codebook: what is to be shown is what the
\* loop it goes to claims.
LEMMA SeedingStays ==
    ASSUME TrainInv, loop \in Seeding, loop' \in Seeding, which' = which,
           UNCHANGED <<strip, opts, vectors, decisions>>,
           DOMAIN books' = Halves, DOMAIN cut' = Halves,
           \A x \in Halves : x # which => books'[x] = books[x] /\ cut'[x] = cut[x],
           loop' = "lloyd" => IsBook(which, books[which])',
           (cut[which] # NoBook => IsBook(which, cut[which]))',
           (cut[which] # NoBook <=> loop \in {"spread", "lloyd"} /\ ~Warm)',
           CutLoop', SpreadLoop', LloydLoop'
    PROVE  TrainInv'
<1>1. InputInv /\ BooksFit /\ CutsFit /\ BooksAreGood /\ which \in Halves
    BY DEF TrainInv, InputInv
<1>2. /\ ~Trained(which)
      /\ \A x \in Halves : Trained(x)' <=> Trained(x)
    BY <1>1 DEF Trained, Seeding
<1>3. InputInv'
    BY <1>1 DEF InputInv, Loops, Seeding
<1>4. BooksFit'
  <2>1. ASSUME NEW x \in Halves, Trained(x)'
        PROVE  IsBook(x, books[x])'
    <3>1. x # which /\ Trained(x)
        BY <1>2, <2>1
    <3>2. IsBook(x, books[x])
        BY <1>1, <3>1 DEF BooksFit
    <3> QED
        BY <3>1, <3>2, SameBook
  <2> QED
      BY <2>1 DEF BooksFit
<1>5. CutsFit'
  <2>1. ASSUME NEW x \in Halves, x # which
        PROVE  /\ (cut[x] # NoBook => IsBook(x, cut[x]))'
               /\ ~(Trained(x)') => cut'[x] = NoBook
    <3>1. cut[x] # NoBook => IsBook(x, cut[x])
        BY <1>1 DEF CutsFit
    <3>2. ~Trained(x) => cut[x] = NoBook
        BY <1>1, <2>1 DEF CutsFit
    <3> QED
        BY <1>2, <2>1, <3>1, <3>2, SameBook
  <2> QED
      BY <2>1 DEF CutsFit
<1>6. BooksAreGood'
  <2>1. ASSUME NEW x \in Halves, Trained(x)'
        PROVE  Good(x, books[x])'
    <3>1. x # which /\ Trained(x) /\ loop \notin {"polish", "done"}
        BY <1>2, <2>1 DEF Seeding
    <3>2. Good(x, books[x])
        BY <1>1, <3>1 DEF BooksAreGood
    <3> QED
        BY <3>1, <3>2, SameGood
  <2> QED
      BY <2>1 DEF BooksAreGood
<1>7. RefineLoop' /\ PolishLoop'
    BY DEF RefineLoop, PolishLoop, Seeding
<1> QED
    BY <1>3, <1>4, <1>5, <1>6, <1>7 DEF TrainInv

-----------------------------------------------------------------------------
\* Median cut: a bisection loses no vector and makes none.

\* A cluster c of two vectors or more, sorted to q, and the parts that q is cut to.
CutFromSorted(m, c, q) ==
    LET left == SubSeq(q, 1, Len(q) \div 2)
        right == SubSeq(q, Len(q) \div 2 + 1, Len(q))
    IN  /\ left \in Seq(Entries(m)) \ {<<>>} /\ right \in Seq(Entries(m)) \ {<<>>}
        /\ \A v : Cardinality(Places(c, v)) =
                    Cardinality(Places(left, v)) + Cardinality(Places(right, v))

\* Neither part is empty, and each vector is in one of them.
LEMMA CutInTwo ==
    ASSUME NEW m \in Metrics, NEW c \in Seq(Entries(m)), Len(c) >= 2, NEW d \in Dims
    PROVE  CutFromSorted(m, c, SortedBy(c, d))
<1>0. PICK E : E = Entries(m)
    OBVIOUS
<1>1. PICK n \in Nat : n = Len(c) /\ n >= 2
    OBVIOUS
<1>2. PICK q : q = SortedBy(c, d)
    OBVIOUS
<1>3. c \in [1 .. n -> [Dims -> Int]]
  <2>1. c \in [1 .. n -> E]
      BY <1>0, <1>1
  <2>2. \A e \in E : e \in [Dims -> Int]
      BY <1>0, EntryParts
  <2> QED
      BY <2>1, <2>2
<1>4. PICK p : Permuted(p, n, c, q)
    BY <1>2, <1>3, SortPermutes
<1>5. q \in Seq(E) /\ Len(q) = n
  <2>1. p \in [1 .. n -> 1 .. n] /\ q = [k \in 1 .. n |-> c[p[k]]]
      BY <1>4 DEF Permuted, Bijection, Injection
  <2>2. \A k \in 1 .. n : c[p[k]] \in E
      BY <1>0, <1>1, <2>1
  <2>3. q \in [1 .. n -> E]
      BY <2>1, <2>2
  <2> QED
      BY <2>3
<1>6. PICK h \in Nat : h = n \div 2 /\ h >= 1 /\ h < n
  <2>1. n \div 2 \in Nat /\ n \div 2 >= 1 /\ n \div 2 < n
      BY <1>1
  <2> QED
      BY <2>1
<1>7. PICK left, right : left = SubSeq(q, 1, h) /\ right = SubSeq(q, h + 1, n)
    OBVIOUS
<1>8. left \in Seq(E) /\ left # <<>>
  <2>1. left \in Seq(E) /\ Len(left) = h
      BY <1>1, <1>5, <1>6, <1>7
  <2> QED
      BY <1>6, <2>1
<1>9. right \in Seq(E) /\ right # <<>>
  <2>1. \A i \in h + 1 .. n : q[i] \in E
      BY <1>5, <1>6
  <2>2. h + 1 \in Int /\ n \in Int /\ h + 1 <= n
      BY <1>6
  <2>3. SubSeq(q, h + 1, n) \in Seq(E)
      BY <2>1, <2>2, SubSeqProperties
  <2>4. Len(SubSeq(q, h + 1, n)) = IF h + 1 <= n THEN n - (h + 1) + 1 ELSE 0
      BY <2>1, <2>2, SubSeqProperties
  <2>5. Len(right) = n - (h + 1) + 1
      BY <1>7, <2>2, <2>4
  <2>6. Len(right) # 0
      BY <1>6, <2>5
  <2>7. right # <<>>
      BY <2>6
  <2>8. right \in Seq(E)
      BY <1>7, <2>3
  <2> QED
      BY <2>7, <2>8
<1>10. ASSUME NEW v
       PROVE  Cardinality(Places(c, v)) =
                Cardinality(Places(left, v)) + Cardinality(Places(right, v))
  <2>1. Cardinality(Places(q, v)) = Cardinality(Places(c, v))
      BY <1>2, <1>3, SortKeepsCounts
  <2>2. h \in 0 .. Len(q)
      BY <1>5, <1>6
  <2>3. Cardinality(Places(q, v)) =
          Cardinality(Places(SubSeq(q, 1, h), v)) + Cardinality(Places(SubSeq(q, h + 1, Len(q)), v))
      BY <1>5, <2>2, HalvesAddUp
  <2> QED
      BY <1>5, <1>7, <2>1, <2>3
<1>11. left = SubSeq(q, 1, Len(q) \div 2) /\ right = SubSeq(q, Len(q) \div 2 + 1, Len(q))
    BY <1>5, <1>6, <1>7
<1> QED
    BY <1>0, <1>2, <1>8, <1>9, <1>10, <1>11 DEF CutFromSorted

\* One of n clusters, k, is cut in two: one part stays in its place, the other
\* comes last.
OneIsCut(m, n, k, clusters, after, v) ==
    /\ clusters \in [1 .. n -> Seq(Entries(m)) \ {<<>>}]
    /\ after \in [1 .. n + 1 -> Seq(Entries(m)) \ {<<>>}]
    /\ \A i \in 1 .. n : i # k => after[i] = clusters[i]
    /\ Cardinality(Places(clusters[k], v)) =
         Cardinality(Places(after[k], v)) + Cardinality(Places(after[n + 1], v))

\* It loses no vector and makes none.
LEMMA CutCounts ==
    ASSUME NEW m, NEW n \in Nat, NEW k \in 1 .. n, NEW clusters, NEW after, NEW v,
           OneIsCut(m, n, k, clusters, after, v)
    PROVE  CountIn(after, v) = CountIn(clusters, v)
<1>1. PICK E : E = Seq(Entries(m)) \ {<<>>}
    OBVIOUS
<1>2. /\ clusters \in [1 .. n -> E] /\ after \in [1 .. n + 1 -> E]
      /\ \A i \in 1 .. n : i # k => after[i] = clusters[i]
      /\ Cardinality(Places(clusters[k], v)) =
           Cardinality(Places(after[k], v)) + Cardinality(Places(after[n + 1], v))
    BY <1>1 DEF OneIsCut
<1>3. Len(clusters) = n /\ Len(after) = n + 1 /\ k \in 1 .. n + 1 /\ n + 1 \in 1 .. n + 1
    BY <1>2
<1> DEFINE f == [c \in DOMAIN clusters |-> Cardinality(Places(clusters[c], v))]
           g == [c \in DOMAIN after |-> Cardinality(Places(after[c], v))]
<1>4. ASSUME NEW c \in E
      PROVE  Cardinality(Places(c, v)) \in Nat
  <2>1. PICK j \in Nat : j = Len(c) /\ DOMAIN c = 1 .. j
      BY <1>1
  <2> QED
      BY <2>1, PlacesAreFinite
<1>5. \A i \in 1 .. n : f[i] \in Int
    BY <1>4, <1>2
<1>6. \A i \in 1 .. n + 1 : g[i] \in Int
  <2> SUFFICES ASSUME NEW i \in 1 .. n + 1 PROVE g[i] \in Int
      OBVIOUS
  <2>1. i \in DOMAIN after /\ after[i] \in E
      BY <1>2
  <2>2. g[i] = Cardinality(Places(after[i], v))
      BY <2>1
  <2>3. Cardinality(Places(after[i], v)) \in Nat
      BY <1>4, <2>1
  <2> HIDE DEF g
  <2>4. PICK x \in Nat : x = Cardinality(Places(after[i], v))
      BY <2>3
  <2>5. g[i] = x
      BY <2>2, <2>4
  <2> QED
      BY <2>5
<1>7. \A i \in 1 .. n : i # k => g[i] = f[i]
    BY <1>3, <1>2
<1>8. f[k] = g[k] + g[n + 1]
    BY <1>3, <1>2
<1>9. CountIn(after, v) = SumTo(n + 1, g) /\ CountIn(clusters, v) = SumTo(n, f)
    BY <1>3 DEF CountIn
<1> HIDE DEF f, g
<1>10. \A i \in 1 .. n : f[i] \in Int /\ g[i] \in Int
    BY <1>5, <1>6
<1>11. SumTo(n, g) = SumTo(n, f) - f[k] + g[k]
  <2>1. Replaces(n, k, f, g)
      BY <1>7, <1>10, SumReplaces
  <2> QED
      BY <2>1 DEF Replaces
<1>12. n + 1 \in Nat /\ n + 1 \in 1 .. n + 1 /\ (n + 1) - 1 = n
    OBVIOUS
<1>13. SumTo(n + 1, g) = SumTo(n, g) + g[n + 1]
  <2>1. \A i \in 1 .. n + 1 : SumTo(i, g) = SumTo(i - 1, g) + g[i]
      BY <1>6, <1>12, SumSteps
  <2>2. SumTo(n + 1, g) = SumTo((n + 1) - 1, g) + g[n + 1]
      BY <1>12, <2>1
  <2> QED
      BY <1>12, <2>2
<1>14. SumTo(n, f) \in Int
  <2>1. n \in 0 .. n
      OBVIOUS
  <2> QED
      BY <1>5, <2>1, SumSteps
<1>15. f[k] \in Int /\ g[k] \in Int /\ g[n + 1] \in Int
    BY <1>3, <1>5, <1>6
<1> QED
    BY <1>8, <1>9, <1>11, <1>13, <1>14, <1>15

\* The counts of one cluster.
LEMMA OneCluster ==
    ASSUME NEW m \in Metrics, NEW c \in Seq(Entries(m)), NEW v
    PROVE  CountIn(<<c>>, v) = Cardinality(Places(c, v))
<1> DEFINE f == [i \in DOMAIN <<c>> |-> Cardinality(Places(<<c>>[i], v))]
<1>1. PICK k \in Nat : k = Len(c) /\ DOMAIN c = 1 .. k
    OBVIOUS
<1>2. Cardinality(Places(c, v)) \in Nat
    BY <1>1, PlacesAreFinite
<1>3. DOMAIN <<c>> = 1 .. 1 /\ <<c>>[1] = c /\ Len(<<c>>) = 1
    OBVIOUS
<1>4. f[1] = Cardinality(Places(c, v))
    BY <1>3
<1>5. CountIn(<<c>>, v) = SumTo(1, f)
    BY <1>3 DEF CountIn
<1> HIDE DEF f
<1>6. \A i \in 1 .. 1 : f[i] \in Int
    BY <1>2, <1>4
<1>7. SumTo(0, f) = 0 /\ \A i \in 1 .. 1 : SumTo(i, f) = SumTo(i - 1, f) + f[i]
    BY <1>6, SumSteps
<1>8. SumTo(1, f) = SumTo(0, f) + f[1]
    BY <1>7
<1> QED
    BY <1>2, <1>4, <1>5, <1>7, <1>8

-----------------------------------------------------------------------------
\* The steps that seed a codebook.

\* What the invariant says in the loops that train a codebook.
LEMMA InSeeding ==
    ASSUME TrainInv, loop \in Seeding
    PROVE  /\ DOMAIN books = Halves /\ DOMAIN cut = Halves /\ which \in Halves
           /\ cut[which] # NoBook <=> loop \in {"spread", "lloyd"} /\ ~Warm
           /\ cut[which] # NoBook => IsBook(which, cut[which])
<1>1. BooksFit /\ CutsFit /\ which \in Halves
    BY DEF TrainInv, InputInv
<1>2. ~Trained(which)
    BY <1>1 DEF Trained, Seeding, Halves
<1> QED
    BY <1>1, <1>2 DEF BooksFit, CutsFit

\* A warm codebook starts from that of the frame before.
LEMMA StartWarmKeeps ==
    ASSUME TrainInv, StartWarm
    PROVE  TrainInv'
<1>1. InputInv /\ loop \in Seeding
    BY DEF TrainInv, StartWarm, Seeding
<1>2. /\ DOMAIN books = Halves /\ DOMAIN cut = Halves /\ which \in Halves
      /\ cut[which] = NoBook
  <2>1. loop = "seeded"
      BY DEF StartWarm
  <2> QED
      BY <1>1, <2>1, InSeeding
<1>3. PICK w \in Halves : w = which
    BY <1>2
<1>4. IsBook(w, strip.seed[w])
    BY <1>1, <1>3, TrainFacts DEF StartWarm, Warm
<1>5. UNCHANGED <<strip, opts, vectors, cut, decisions>>
    BY DEF StartWarm
<1>6. /\ DOMAIN books' = Halves /\ books'[w] = strip.seed[w]
      /\ \A x \in Halves : x # w => books'[x] = books[x]
    BY <1>2, <1>3 DEF StartWarm, SetBook
<1>7. IsBook(w, books[w])'
    BY <1>4, <1>5, <1>6 DEF IsBook, Metric
<1>8. CASE Population = <<>>
  <2>1. GoOn("seeded")
      BY <1>8 DEF StartWarm
  <2>2. Good(w, books[w])'
      BY <1>2, <1>3, <1>5 DEF Good
  <2>3. (cut[w] # NoBook => IsBook(w, cut[w]))'
      BY <1>2, <1>3, <1>5
  <2> QED
      BY <1>1, <1>2, <1>3, <1>5, <1>6, <1>7, <2>1, <2>2, <2>3, SeedingEnds
<1>9. CASE Population # <<>>
  <2>1. loop' = "lloyd" /\ local' = [left |-> opts.lloyd] /\ which' = which
      BY <1>9 DEF StartWarm
  <2>2. Warm' /\ cut'[which'] = NoBook
      BY <1>2, <1>5, <2>1 DEF StartWarm, Warm
  <2>3. opts.lloyd \in Nat
      BY <1>1, TuningParts DEF InputInv
  <2>4. LloydLoop' /\ CutLoop' /\ SpreadLoop'
      BY <2>1, <2>2, <2>3 DEF LloydLoop, CutLoop, SpreadLoop
  <2>5. (loop' = "lloyd" => IsBook(which, books[which])')
      BY <1>3, <1>7, <2>1
  <2>6. (cut[which] # NoBook => IsBook(which, cut[which]))'
      BY <2>2
  <2>7. (cut[which] # NoBook <=> loop \in {"spread", "lloyd"} /\ ~Warm)'
      BY <2>2
  <2>8. loop' \in Seeding
      BY <2>1 DEF Seeding
  <2> QED
      BY <1>1, <1>2, <1>3, <1>5, <1>6, <2>1, <2>4, <2>5, <2>6, <2>7, <2>8, SeedingStays
<1> QED
    BY <1>8, <1>9

\* A cold one from a single cluster, or from zeros when there is no vector.
LEMMA StartColdKeeps ==
    ASSUME TrainInv, StartCold
    PROVE  TrainInv'
<1>1. InputInv /\ loop \in Seeding /\ loop = "seeded" /\ ~Warm
    BY DEF TrainInv, StartCold, Seeding
<1>2. /\ DOMAIN books = Halves /\ DOMAIN cut = Halves /\ which \in Halves
      /\ cut[which] = NoBook
    BY <1>1, InSeeding
<1>3. PICK w \in Halves : w = which
    BY <1>2
<1>4. /\ Metric \in Metrics /\ Population \in Seq(Entries(Metric))
      /\ strip.sizes[w] \in Nat /\ strip.sizes[w] # 0
    BY <1>1, TrainFacts
<1>5. UNCHANGED <<strip, opts, vectors, cut, decisions>>
    BY DEF StartCold
<1>6. CASE Population = <<>>
  <2>1. SetBook([s \in 1 .. Size |-> Zero]) /\ GoOn("seeded")
      BY <1>6 DEF StartCold
  <2>2. /\ DOMAIN books' = Halves /\ books'[w] = [s \in 1 .. strip.sizes[w] |-> Zero]
        /\ \A x \in Halves : x # w => books'[x] = books[x]
      BY <1>2, <1>3, <2>1 DEF SetBook, Size
  <2>3. Zero \in Entries(Metric)
      BY <1>4, ZeroIsEntry
  <2>4. IsBook(w, books'[w])
      BY <2>2, <2>3 DEF IsBook
  <2>5. IsBook(w, books[w])'
      BY <1>5, <2>4 DEF IsBook, Metric
  <2>6. Good(w, books[w])'
      BY <1>2, <1>3, <1>5 DEF Good
  <2>7. (cut[w] # NoBook => IsBook(w, cut[w]))'
      BY <1>2, <1>3, <1>5
  <2> QED
      BY <1>1, <1>2, <1>3, <1>5, <2>1, <2>2, <2>5, <2>6, <2>7, SeedingEnds
<1>7. CASE Population # <<>>
  <2>1. /\ loop' = "cut" /\ which' = which /\ books' = books
        /\ local' = [clusters |-> <<Population>>, cache |-> <<SplitScore(Population, Metric)>>]
      BY <1>7 DEF StartCold
  <2>2. ~(Warm') /\ cut'[which'] = NoBook /\ Metric' = Metric /\ Population' = Population
      BY <1>1, <1>2, <1>5, <2>1 DEF Warm, Metric, Population
  <2>3. <<Population>> \in Seq(Seq(Entries(Metric)) \ {<<>>})
      BY <1>4, <1>7
  <2>4. <<SplitScore(Population, Metric)>> =
          [i \in DOMAIN <<Population>> |-> SplitScore(<<Population>>[i], Metric)]
    <3>1. PICK x : x = SplitScore(Population, Metric)
        OBVIOUS
    <3>2. DOMAIN <<Population>> = 1 .. 1 /\ <<Population>>[1] = Population
        OBVIOUS
    <3>3. <<x>> = [i \in 1 .. 1 |-> x]
        OBVIOUS
    <3>4. \A i \in 1 .. 1 : SplitScore(<<Population>>[i], Metric) = x
      <4>1. \A i \in 1 .. 1 : i = 1
          OBVIOUS
      <4> QED
          BY <3>1, <3>2, <4>1
    <3> QED
        BY <3>1, <3>2, <3>3, <3>4
  <2>5. \A v \in Range(Population) :
          Cardinality(Places(Population, v)) = CountIn(<<Population>>, v)
      BY <1>4, OneCluster
  <2>6. CutLoop'
      BY <2>1, <2>2, <2>3, <2>4, <2>5 DEF CutLoop
  <2>7. LloydLoop' /\ SpreadLoop'
      BY <2>1 DEF LloydLoop, SpreadLoop
  <2>8. (loop' = "lloyd" => IsBook(which, books[which])')
      BY <2>1
  <2>9. (cut[which] # NoBook => IsBook(which, cut[which]))'
      BY <2>2
  <2>10. (cut[which] # NoBook <=> loop \in {"spread", "lloyd"} /\ ~Warm)'
      BY <2>1, <2>2
  <2>11. loop' \in Seeding
      BY <2>1 DEF Seeding
  <2> QED
      BY <1>1, <1>2, <1>5, <2>1, <2>6, <2>7, <2>8, <2>9, <2>10, <2>11, SeedingStays
<1> QED
    BY <1>6, <1>7

\* A bisection: the parts have the vectors of the cluster, and their scores.
LEMMA CutKeeps ==
    ASSUME TrainInv, Cut
    PROVE  TrainInv'
<1>1. InputInv /\ loop \in Seeding /\ loop = "cut" /\ CutLoop
    BY DEF TrainInv, Cut, Seeding
<1>2. /\ DOMAIN books = Halves /\ DOMAIN cut = Halves /\ which \in Halves
      /\ cut[which] = NoBook
    BY <1>1, InSeeding
<1>3. PICK m \in Metrics : m = Metric
    BY <1>1, TrainFacts
<1>4. UNCHANGED <<strip, opts, vectors, loop, which, cut, books, decisions>>
    BY DEF Cut
<1> DEFINE best == Max({local.cache[i].score : i \in Splittable})
           at == Min({i \in Splittable : local.cache[i].score = best})
           sorted == SortedBy(local.clusters[at], local.cache[at].dim)
           left == SubSeq(sorted, 1, Len(sorted) \div 2)
           right == SubSeq(sorted, Len(sorted) \div 2 + 1, Len(sorted))
           after == Append([local.clusters EXCEPT ![at] = left], right)
<1>5. local' = [clusters |-> after, cache |-> Rescored(local.cache, at, left, right)]
    BY DEF Cut
<1>6. PICK clusters, cache : clusters = local.clusters /\ cache = local.cache
    OBVIOUS
<1>7. PICK E : E = Seq(Entries(m)) \ {<<>>}
    OBVIOUS
<1>8. PICK n \in Nat : n = Len(clusters) /\ clusters \in [1 .. n -> E] /\ clusters \in Seq(E)
  <2>1. clusters \in Seq(E)
      BY <1>1, <1>3, <1>6, <1>7 DEF CutLoop
  <2> QED
      BY <2>1
<1>9. cache = [i \in 1 .. n |-> SplitScore(clusters[i], m)]
  <2>1. cache = [i \in DOMAIN clusters |-> SplitScore(clusters[i], m)]
      BY <1>1, <1>3, <1>6 DEF CutLoop
  <2>2. DOMAIN clusters = 1 .. n
      BY <1>8
  <2> QED
      BY <2>1, <2>2
<1>10. ASSUME NEW i \in 1 .. n
       PROVE  /\ cache[i].score \in Nat
              /\ cache[i].score > 0 => Len(clusters[i]) >= 2 /\ cache[i].dim \in Dims
  <2>1. clusters[i] \in Seq(Entries(m)) /\ clusters[i] # <<>>
      BY <1>7, <1>8
  <2> QED
      BY <1>9, <2>1, SplitScoreIs
<1>11. Splittable = {i \in 1 .. n : cache[i].score > 0}
    BY <1>6, <1>9 DEF Splittable
<1>12. at \in Splittable
  <2>1. PICK score : score = [i \in 1 .. n |-> cache[i].score]
      OBVIOUS
  <2>2. PICK S : S = {local.cache[i].score : i \in Splittable}
      OBVIOUS
  <2>3. S \subseteq Nat /\ S # {}
      BY <1>6, <1>10, <1>11, <2>2 DEF Cut
  <2>4. best \in S
    <3>1. n # 0
      <4>1. PICK j \in Splittable : TRUE
          BY DEF Cut
      <4>2. j \in 1 .. n
          BY <1>11, <4>1
      <4> QED
          BY <4>2
    <3>2. \A i \in 1 .. n : score[i] \in Int
        BY <1>10, <2>1
    <3>3. PICK k \in 1 .. n : \A i \in 1 .. n : score[i] <= score[k]
        BY <3>1, <3>2, FirstHighest
    <3>4. score[k] \in S /\ \A y \in S : y <= score[k]
      <4>1. PICK j \in Splittable : TRUE
          BY DEF Cut
      <4>2. score[j] > 0 /\ score[j] <= score[k]
          BY <1>11, <2>1, <3>3, <4>1
      <4>3. k \in Splittable
          BY <1>10, <1>11, <2>1, <3>2, <4>2
      <4> QED
          BY <1>6, <1>11, <2>1, <2>2, <3>3, <4>3
    <3>5. S \subseteq Int
        BY <2>3
    <3>6. Max(S) = score[k]
        BY <3>4, <3>5, MaxIs
    <3> QED
        BY <2>2, <3>4, <3>6
  <2>5. PICK T : T = {i \in Splittable : local.cache[i].score = best}
      OBVIOUS
  <2>6. T \subseteq Nat /\ T # {} /\ T \subseteq Splittable
    <3> HIDE DEF best
    <3> QED
        BY <1>11, <2>2, <2>4, <2>5
  <2>7. Min(T) \in T
      BY <2>6, MinOfNaturals
  <2> QED
      BY <2>5, <2>6, <2>7
<1> HIDE DEF at
<1>13. PICK k \in 1 .. n : k = at /\ cache[k].score > 0
    BY <1>11, <1>12
<1>14. PICK c : c = clusters[k] /\ c \in Seq(Entries(m)) /\ Len(c) >= 2
    BY <1>7, <1>8, <1>10, <1>13
<1>15. PICK d \in Dims : d = cache[k].dim
    BY <1>10, <1>13
<1>16. sorted = SortedBy(c, d)
    BY <1>6, <1>13, <1>14, <1>15
<1>17. /\ left \in Seq(Entries(m)) \ {<<>>} /\ right \in Seq(Entries(m)) \ {<<>>}
       /\ \A v : Cardinality(Places(c, v)) =
                   Cardinality(Places(left, v)) + Cardinality(Places(right, v))
  <2> HIDE DEF sorted
  <2>1. CutFromSorted(m, c, sorted)
      BY <1>14, <1>16, CutInTwo
  <2> QED
      BY <2>1 DEF CutFromSorted
<1> HIDE DEF sorted, left, right
<1>18. PICK l, r : l = left /\ r = right /\ l \in E /\ r \in E
    BY <1>7, <1>17
<1>19. PICK b : b = [clusters EXCEPT ![k] = l]
    OBVIOUS
<1>20. after = Append(b, r)
    BY <1>6, <1>13, <1>18, <1>19
<1>21. b \in [1 .. n -> E]
    BY <1>8, <1>18, <1>19
<1>22. /\ after \in [1 .. n + 1 -> E] /\ after[n + 1] = r
       /\ \A i \in 1 .. n : after[i] = b[i]
  <2>1. Append(b, r) \in [1 .. n + 1 -> E]
      BY <1>18, <1>21, OneMore
  <2>2. Append(b, r)[n + 1] = r
      BY <1>18, <1>21, OneMore
  <2>3. \A i \in 1 .. n : Append(b, r)[i] = b[i]
      BY <1>18, <1>21, OneMore
  <2> QED
      BY <1>20, <2>1, <2>2, <2>3
<1> HIDE DEF after
<1>23. Rescored(cache, k, l, r) = [i \in 1 .. n + 1 |-> SplitScore(after[i], m)]
  <2>1. PICK x, y : x = SplitScore(l, m) /\ y = SplitScore(r, m)
      OBVIOUS
  <2>2. PICK V : V = {SplitScore(e, m) : e \in E}
      OBVIOUS
  <2>3. PICK a : a = [cache EXCEPT ![k] = x]
      OBVIOUS
  <2>4. \A i \in 1 .. n : a[i] = SplitScore(b[i], m)
    <3>1. \A i \in 1 .. n : i # k => a[i] = SplitScore(clusters[i], m) /\ b[i] = clusters[i]
        BY <1>8, <1>9, <1>19, <2>3
    <3>2. a[k] = x /\ b[k] = l
        BY <1>8, <1>9, <1>19, <2>3
    <3> QED
        BY <2>1, <3>1, <3>2
  <2>5. a \in [1 .. n -> V] /\ y \in V
    <3>1. DOMAIN a = 1 .. n /\ a = [i \in 1 .. n |-> a[i]]
        BY <1>9, <2>3
    <3>2. \A i \in 1 .. n : b[i] \in E
        BY <1>21
    <3>3. \A i \in 1 .. n : a[i] \in V
        BY <2>2, <2>4, <3>2
    <3> QED
        BY <1>18, <2>1, <2>2, <3>1, <3>3
  <2>6. Append(a, y) \in [1 .. n + 1 -> V]
      BY <2>5, OneMore
  <2>7. Append(a, y)[n + 1] = y
      BY <2>5, OneMore
  <2>8. \A i \in 1 .. n : Append(a, y)[i] = a[i]
      BY <2>5, OneMore
  <2>9. \A i \in 1 .. n + 1 : Append(a, y)[i] = SplitScore(after[i], m)
    <3> SUFFICES ASSUME NEW i \in 1 .. n + 1 PROVE Append(a, y)[i] = SplitScore(after[i], m)
        OBVIOUS
    <3>1. CASE i = n + 1
        BY <1>22, <2>1, <2>7, <3>1
    <3>2. CASE i # n + 1
      <4>1. i \in 1 .. n
          BY <3>2
      <4> QED
          BY <1>22, <2>4, <2>8, <4>1
    <3> QED
        BY <3>1, <3>2
  <2>10. Rescored(cache, k, l, r) = Append(a, y)
      BY <1>3, <2>1, <2>3 DEF Rescored
  <2> QED
      BY <2>6, <2>9, <2>10
<1>24. ASSUME NEW v
       PROVE  CountIn(after, v) = CountIn(clusters, v)
  <2>1. \A i \in 1 .. n : i # k => after[i] = clusters[i]
      BY <1>8, <1>19, <1>22
  <2>2. after[k] = l /\ after[n + 1] = r
      BY <1>8, <1>19, <1>22
  <2>3. Cardinality(Places(clusters[k], v)) =
          Cardinality(Places(after[k], v)) + Cardinality(Places(after[n + 1], v))
      BY <1>14, <1>17, <1>18, <2>2
  <2>4. OneIsCut(m, n, k, clusters, after, v)
      BY <1>7, <1>8, <1>22, <2>1, <2>3 DEF OneIsCut
  <2> QED
      BY <2>4, CutCounts
<1>25. local'.clusters = after /\ local'.cache = [i \in DOMAIN after |-> SplitScore(after[i], m)]
  <2>1. local'.clusters = after
      BY <1>5
  <2>2. local'.cache = Rescored(cache, k, l, r)
      BY <1>5, <1>6, <1>13, <1>18
  <2>3. DOMAIN after = 1 .. n + 1
      BY <1>22
  <2> QED
      BY <1>23, <2>1, <2>2, <2>3
<1>26. after \in Seq(E)
    BY <1>22
<1>27. Metric' = m /\ Population' = Population /\ (Warm' <=> Warm)
    BY <1>3, <1>4 DEF Metric, Population, Warm
<1>28. \A v \in Range(Population) : Cardinality(Places(Population, v)) = CountIn(after, v)
    BY <1>1, <1>6, <1>24 DEF CutLoop
<1>29. CutLoop'
    BY <1>1, <1>7, <1>25, <1>26, <1>27, <1>28 DEF CutLoop
<1>30. LloydLoop' /\ SpreadLoop'
    BY <1>1, <1>4 DEF LloydLoop, SpreadLoop
<1>31. (loop' = "lloyd" => IsBook(which, books[which])')
    BY <1>1, <1>4
<1>32. (cut[which] # NoBook => IsBook(which, cut[which]))'
    BY <1>2, <1>4
<1>33. (cut[which] # NoBook <=> loop \in {"spread", "lloyd"} /\ ~Warm)'
    BY <1>1, <1>2, <1>4
<1>34. loop' \in Seeding
    BY <1>1, <1>4
<1> QED
    BY <1>1, <1>2, <1>4, <1>29, <1>30, <1>31, <1>32, <1>33, <1>34, SeedingStays

\* The codebook of median cut.
LEMMA CentroidsFit ==
    ASSUME InputInv, CutLoop, loop = "cut"
    PROVE  IsBook(which, Centroids)
<1>1. Metric \in Metrics /\ Size = strip.sizes[which]
    BY TrainFacts DEF Size
<1>2. PICK clusters : clusters = local.clusters
    OBVIOUS
<1>3. PICK n \in Nat : /\ n = Len(clusters)
                       /\ clusters \in [1 .. n -> Seq(Entries(Metric)) \ {<<>>}]
  <2>1. clusters \in Seq(Seq(Entries(Metric)) \ {<<>>})
      BY <1>2 DEF CutLoop
  <2> QED
      BY <2>1
<1>4. ASSUME NEW s \in 1 .. Size, s <= n
      PROVE  Centroid(clusters[s], Metric) \in Entries(Metric)
  <2>1. s \in 1 .. n
      BY <1>3, <1>4
  <2>2. clusters[s] \in Seq(Entries(Metric)) /\ clusters[s] # <<>>
      BY <1>3, <2>1
  <2> QED
      BY <1>1, <2>2, CentroidIsEntry
<1>5. Zero \in Entries(Metric)
    BY <1>1, ZeroIsEntry
<1>6. Centroids = [s \in 1 .. Size |-> IF s <= n THEN Centroid(clusters[s], Metric) ELSE Zero]
    BY <1>2, <1>3 DEF Centroids
<1>7. Centroids \in [1 .. Size -> Entries(Metric)]
    BY <1>4, <1>5, <1>6
<1> QED
    BY <1>1, <1>7 DEF IsBook

\* A book of one entry.
LEMMA OneEntry ==
    ASSUME NEW m \in Metrics, NEW v \in [Dims -> Int], NEW c \in [Dims -> Int]
    PROVE  Nearest(v, <<c>>, m).err = Distance(v, c, m)
<1>1. PICK b : b = <<c>>
    OBVIOUS
<1>2. b \in [1 .. 1 -> [Dims -> Int]] /\ b[1] = c
    BY <1>1
<1>3. 1 \in Nat /\ 1 # 0
    OBVIOUS
<1>4. \E t \in 1 .. 1 : Nearest(v, b, m).err = Distance(v, b[t], m)
    BY <1>2, <1>3, ErrIsLeast
<1>5. PICK t \in 1 .. 1 : Nearest(v, b, m).err = Distance(v, b[t], m)
    BY <1>4
<1>6. t = 1
    BY <1>5
<1> QED
    BY <1>1, <1>2, <1>5, <1>6

\* The total that goes with the distances of k-means++.
LEMMA SpreadTotal ==
    ASSUME NEW m, NEW vs \in Seq([Dims -> Int]), NEW book, NEW d2,
           d2 = [i \in DOMAIN vs |-> Nearest(vs[i], book, m).err]
    PROVE  Spread(d2) = [d2 |-> d2, sum |-> TotalSse(book, vs, m)]
<1>1. Len(d2) = Len(vs)
    OBVIOUS
<1>2. TotalSse(book, vs, m) = SumTo(Len(vs), d2)
    BY DEF TotalSse
<1> QED
    BY <1>1, <1>2 DEF Spread

\* The centroids of median cut are the book, or are kept for the comparison while
\* the first centroid of k-means++ is drawn.
LEMMA EndCutKeeps ==
    ASSUME TrainInv, EndCut
    PROVE  TrainInv'
<1>1. InputInv /\ loop \in Seeding /\ loop = "cut" /\ CutLoop /\ ~Warm
    BY DEF TrainInv, EndCut, Seeding, CutLoop
<1>2. DOMAIN books = Halves /\ DOMAIN cut = Halves /\ which \in Halves
    BY <1>1, InSeeding
<1>3. PICK w \in Halves : w = which
    BY <1>2
<1>4. PICK m \in Metrics : m = Metric
    BY <1>1, TrainFacts
<1>5. PICK n \in Nat : n = strip.sizes[w] /\ n = Size /\ n # 0
    BY <1>1, <1>3, TrainFacts DEF Size
<1>6. PICK b \in [1 .. n -> Entries(m)] : b = Centroids
    BY <1>1, <1>3, <1>4, <1>5, CentroidsFit DEF IsBook
<1>7. /\ UNCHANGED <<strip, opts, vectors, decisions>>
      /\ cut' = [cut EXCEPT ![w] = b]
    BY <1>3, <1>6 DEF EndCut
<1>8. /\ DOMAIN cut' = Halves /\ cut'[w] = b
      /\ \A x \in Halves : x # w => cut'[x] = cut[x]
    BY <1>2, <1>7
<1>9. b # NoBook
    BY <1>4, <1>5, <1>6, BooksAreBooks
<1>10. IsBook(w, cut[w])'
    BY <1>4, <1>5, <1>6, <1>7, <1>8 DEF IsBook, Metric
<1>11. Population \in Seq(Entries(m)) /\ Population = vectors[w]
    BY <1>1, <1>3, <1>4, TrainFacts DEF Population
<1>12. Population \in Seq([Dims -> Int]) /\ b \in [1 .. n -> [Dims -> Int]]
  <2>1. \A v \in Entries(m) : v \in [Dims -> Int]
      BY EntryParts
  <2> QED
      BY <1>11, <2>1
<1>13. CASE opts.kmeans /\ opts.lloyd > 0 /\ Size >= 2
  <2>1. PICK i \in DOMAIN Population :
          /\ SetBook(<<Population[i]>>)
          /\ local' = Spread([j \in DOMAIN Population |->
                                Distance(Population[j], Population[i], Metric)])
          /\ loop' = "spread" /\ which' = which
      BY <1>13 DEF EndCut
  <2>2. PICK c : c = Population[i] /\ c \in Entries(m) /\ c \in [Dims -> Int]
      BY <1>11, <1>12, <2>1
  <2>3. PICK d2 : d2 = [j \in DOMAIN Population |-> Distance(Population[j], c, m)]
      OBVIOUS
  <2>4. d2 = [j \in DOMAIN Population |-> Nearest(Population[j], <<c>>, m).err]
    <3>1. \A j \in DOMAIN Population : Population[j] \in [Dims -> Int]
        BY <1>12
    <3>2. \A j \in DOMAIN Population :
            Nearest(Population[j], <<c>>, m).err = Distance(Population[j], c, m)
        BY <2>2, <3>1, OneEntry
    <3> QED
        BY <2>3, <3>2
  <2>5. local' = [d2 |-> d2, sum |-> TotalSse(<<c>>, Population, m)]
    <3>1. local' = Spread(d2)
        BY <1>4, <2>1, <2>2, <2>3
    <3>2. Spread(d2) = [d2 |-> d2, sum |-> TotalSse(<<c>>, Population, m)]
        BY <1>12, <2>4, SpreadTotal
    <3> QED
        BY <3>1, <3>2
  <2>6. /\ DOMAIN books' = Halves /\ books'[w] = <<c>>
        /\ \A x \in Halves : x # w => books'[x] = books[x]
      BY <1>2, <1>3, <2>1, <2>2 DEF SetBook
  <2>7. /\ Metric' = m /\ Population' = Population /\ Book' = <<c>> /\ Size' = n
        /\ (Warm' <=> Warm)
      BY <1>3, <1>4, <1>5, <1>7, <2>1, <2>6 DEF Metric, Population, Book, Size, Warm
  <2>8. Drawing(Book)'
    <3>1. c \in Range(Population)
        BY <2>1, <2>2 DEF Range
    <3>2. <<c>> \in Seq(Range(Population)) /\ <<c>> # <<>> /\ Len(<<c>>) = 1
        BY <3>1
    <3>3. \A s, t \in DOMAIN <<c>> : s = t
        OBVIOUS
    <3>4. 1 <= n
        BY <1>5
    <3> QED
        BY <2>7, <3>2, <3>3, <3>4 DEF Drawing
  <2>9. SpreadLoop'
    <3>1. /\ local'.d2 = [j \in DOMAIN Population |-> Nearest(Population[j], <<c>>, m).err]
          /\ local'.sum = TotalSse(<<c>>, Population, m)
        BY <2>4, <2>5
    <3> QED
        BY <1>1, <2>7, <2>8, <3>1 DEF SpreadLoop
  <2>10. CutLoop' /\ LloydLoop'
      BY <2>1 DEF CutLoop, LloydLoop
  <2>11. (loop' = "lloyd" => IsBook(which, books[which])')
      BY <2>1
  <2>12. (cut[which] # NoBook => IsBook(which, cut[which]))'
      BY <1>3, <1>10, <2>1
  <2>13. (cut[which] # NoBook <=> loop \in {"spread", "lloyd"} /\ ~Warm)'
      BY <1>1, <1>3, <1>8, <1>9, <2>1, <2>7
  <2>14. loop' \in Seeding /\ which' = which
      BY <2>1 DEF Seeding
  <2> QED
      BY <1>1, <1>3, <1>7, <1>8, <2>6, <2>9, <2>10, <2>11, <2>12, <2>13, <2>14, SeedingStays
<1>14. CASE ~(opts.kmeans /\ opts.lloyd > 0 /\ Size >= 2)
  <2>1. SetBook(Centroids) /\ GoOn("seeded")
      BY <1>14 DEF EndCut
  <2>2. /\ DOMAIN books' = Halves /\ books'[w] = b
        /\ \A x \in Halves : x # w => books'[x] = books[x]
      BY <1>2, <1>3, <1>6, <2>1 DEF SetBook
  <2>3. IsBook(w, books[w])'
      BY <1>4, <1>5, <1>6, <1>7, <2>2 DEF IsBook, Metric
  <2>4. TotalSse(b, Population, m) \in Nat
      BY <1>5, <1>12, TotalIs
  <2>5. ~(Roomy(w)')
      BY <1>5, <1>7, <1>14 DEF Roomy
  <2>6. Good(w, books[w])'
    <3>1. Metric' = m /\ vectors'[w] = Population
        BY <1>4, <1>7, <1>11 DEF Metric
    <3>2. TotalSse(b, Population, m) <= TotalSse(b, Population, m)
        BY <2>4
    <3> QED
        BY <1>8, <2>2, <2>5, <3>1, <3>2 DEF Good
  <2>7. (cut[w] # NoBook => IsBook(w, cut[w]))'
      BY <1>10
  <2> QED
      BY <1>1, <1>3, <1>7, <1>8, <2>1, <2>2, <2>3, <2>6, <2>7, SeedingEnds
<1> QED
    BY <1>13, <1>14

\* The vectors and the centroids drawn from them so far.
LEMMA DrawingParts ==
    ASSUME NEW m \in Metrics, Population \in Seq(Entries(m)), NEW b, Drawing(b)
    PROVE  /\ \E k \in Nat : /\ k = Len(b) /\ k # 0 /\ k <= Size
                             /\ b \in [1 .. k -> Range(Population)]
                             /\ b \in [1 .. k -> Entries(m)]
                             /\ b \in [1 .. k -> [Dims -> Int]]
                             /\ \A s, t \in 1 .. k : b[s] = b[t] => s = t
           /\ Population \in Seq([Dims -> Int])
           /\ IsFiniteSet(Range(Population))
<1>1. PICK N \in Nat : N = Len(Population) /\ DOMAIN Population = 1 .. N
    OBVIOUS
<1>2. PICK R : R = Range(Population)
    OBVIOUS
<1>3. R = {Population[i] : i \in 1 .. N}
    BY <1>1, <1>2 DEF Range
<1>4. \A v \in Entries(m) : v \in [Dims -> Int]
    BY EntryParts
<1>5. R \subseteq Entries(m)
    BY <1>1, <1>3
<1>6. PICK k \in Nat : /\ k = Len(b) /\ k # 0 /\ k <= Size /\ b \in [1 .. k -> R]
                       /\ \A s, t \in 1 .. k : b[s] = b[t] => s = t
  <2>1. b \in Seq(R) /\ b # <<>> /\ Len(b) <= Size
        /\ \A s, t \in DOMAIN b : b[s] = b[t] => s = t
      BY <1>2 DEF Drawing
  <2>2. PICK k \in Nat : k = Len(b) /\ DOMAIN b = 1 .. k /\ b \in [1 .. k -> R]
      BY <2>1
  <2>3. k # 0
      BY <2>1, <2>2
  <2>4. \A s, t \in 1 .. k : b[s] = b[t] => s = t
      BY <2>1, <2>2
  <2>5. k <= Size
      BY <2>1, <2>2
  <2> QED
      BY <2>2, <2>3, <2>4, <2>5, Zenon
<1>7. b \in [1 .. k -> Entries(m)] /\ b \in [1 .. k -> [Dims -> Int]]
    BY <1>4, <1>5, <1>6
<1>8. Population \in Seq([Dims -> Int])
    BY <1>4
<1>9. IsFiniteSet(R)
  <2>1. Population \in [1 .. N -> R]
      BY <1>1, <1>3
  <2>2. \A x \in R : \E i \in 1 .. N : Population[i] = x
      BY <1>3
  <2>3. Population \in Surjection(1 .. N, R)
      BY <2>1, <2>2 DEF Surjection
  <2>4. IsFiniteSet(1 .. N)
      BY FS_Interval
  <2> QED
      BY <2>3, <2>4, FS_Surjection
<1> QED
    BY <1>2, <1>6, <1>7, <1>8, <1>9

\* A draw falls to a vector that is no centroid yet, and each distance becomes the
\* lesser of the old one and that to the new centroid.
LEMMA AddCentroidKeeps ==
    ASSUME TrainInv, AddCentroid
    PROVE  TrainInv'
<1>1. InputInv /\ loop \in Seeding /\ loop = "spread" /\ SpreadLoop /\ ~Warm
    BY DEF TrainInv, AddCentroid, Seeding, SpreadLoop
<1>2. /\ DOMAIN books = Halves /\ DOMAIN cut = Halves /\ which \in Halves
      /\ cut[which] # NoBook /\ IsBook(which, cut[which])
    BY <1>1, InSeeding
<1>3. PICK w \in Halves : w = which
    BY <1>2
<1>4. PICK m \in Metrics : m = Metric /\ Population \in Seq(Entries(m))
    BY <1>1, TrainFacts
<1>5. PICK b : b = Book /\ Drawing(b)
    BY <1>1 DEF SpreadLoop
<1>6. PICK k \in Nat : /\ k = Len(b) /\ k # 0 /\ k <= Size
                       /\ b \in [1 .. k -> Range(Population)]
                       /\ b \in [1 .. k -> Entries(m)]
                       /\ b \in [1 .. k -> [Dims -> Int]]
                       /\ \A s, t \in 1 .. k : b[s] = b[t] => s = t
    BY <1>4, <1>5, DrawingParts
<1>7. Population \in Seq([Dims -> Int])
    BY <1>4, <1>5, DrawingParts
<1>8. PICK N \in Nat : N = Len(Population) /\ DOMAIN Population = 1 .. N
    BY <1>4
<1>9. \A i \in 1 .. N : Population[i] \in Entries(m) /\ Population[i] \in [Dims -> Int]
    BY <1>4, <1>7, <1>8
<1>10. PICK d2 : /\ d2 = local.d2
                 /\ d2 = [i \in 1 .. N |-> Nearest(Population[i], b, m).err]
    BY <1>1, <1>4, <1>5, <1>8 DEF SpreadLoop
<1>11. \A i \in 1 .. N : d2[i] \in Nat
  <2> SUFFICES ASSUME NEW i \in 1 .. N PROVE d2[i] \in Nat
      OBVIOUS
  <2>1. PICK v : v = Population[i] /\ v \in [Dims -> Int]
      BY <1>9
  <2>2. Nearest(v, b, m).err \in Nat
      BY <1>6, <2>1, ErrIsLeast
  <2> QED
      BY <1>10, <2>1, <2>2
<1>12. local.sum = SumTo(N, d2)
  <2>1. TotalSse(b, Population, m) = SumTo(N, d2)
      BY <1>8, <1>10 DEF TotalSse
  <2> QED
      BY <1>1, <1>4, <1>5, <2>1 DEF SpreadLoop
<1>13. SumTo(N, d2) \in Nat
    BY <1>11, SumOfNaturals
<1>14. PICK r \in 0 .. SumTo(N, d2) - 1 :
          /\ SetBook(Append(Book, Population[Drawn(r)]))
          /\ local' = Spread([i \in DOMAIN Population |->
                 Min({local.d2[i], Distance(Population[i], Population[Drawn(r)], Metric)})])
    BY <1>12 DEF AddCentroid
<1>15. Len(Book) < Size /\ UNCHANGED <<strip, opts, vectors, loop, which, cut, decisions>>
    BY DEF AddCentroid
<1>16. PICK j : j = Drawn(r)
    OBVIOUS
<1>17. j \in 1 .. N /\ d2[j] > 0
  <2>1. r \in Nat /\ r < SumTo(N, d2)
      BY <1>13
  <2>2. Drawn(r) = Min({i \in 1 .. N : SumTo(i, d2) > r})
      BY <1>8, <1>10 DEF Drawn
  <2>3. LET i1 == Min({i \in 1 .. N : SumTo(i, d2) > r}) IN i1 \in 1 .. N /\ d2[i1] > 0
      BY <1>11, <2>1, DrawHasShare
  <2> QED
      BY <1>16, <2>2, <2>3
<1>18. PICK c : c = Population[j] /\ c \in Entries(m) /\ c \in [Dims -> Int]
    BY <1>9, <1>17
<1>19. c \in Range(Population)
    BY <1>8, <1>17, <1>18 DEF Range
<1>20. ASSUME NEW s \in 1 .. k
       PROVE  b[s] # c
  <2>1. b[s] \in Entries(m)
      BY <1>6
  <2>2. Distance(c, c, m) = 0
      BY <1>18, NoDistance
  <2>3. Nearest(c, b, m).err <= Distance(c, b[s], m)
      BY <1>6, <1>18, ErrIsLeast
  <2>4. d2[j] = Nearest(c, b, m).err /\ d2[j] \in Nat
      BY <1>10, <1>11, <1>17, <1>18
  <2> QED
      BY <1>17, <2>2, <2>3, <2>4
<1>21. PICK a : a = Append(b, c)
    OBVIOUS
<1>22. /\ a \in [1 .. k + 1 -> Range(Population)] /\ a[k + 1] = c
       /\ \A s \in 1 .. k : a[s] = b[s]
  <2>1. PICK R : R = Range(Population)
      OBVIOUS
  <2>2. b \in [1 .. k -> R] /\ c \in R
      BY <1>6, <1>19, <2>1
  <2>3. Append(b, c) \in [1 .. k + 1 -> R]
      BY <2>2, OneMore
  <2>4. Append(b, c)[k + 1] = c
      BY <2>2, OneMore
  <2>5. \A s \in 1 .. k : Append(b, c)[s] = b[s]
      BY <2>2, OneMore
  <2> QED
      BY <1>21, <2>1, <2>3, <2>4, <2>5
<1>23. /\ DOMAIN books' = Halves /\ books'[w] = a
       /\ \A x \in Halves : x # w => books'[x] = books[x]
    BY <1>2, <1>3, <1>5, <1>14, <1>16, <1>18, <1>21 DEF SetBook
<1>24. /\ Metric' = m /\ Population' = Population /\ Book' = a /\ Size' = Size
       /\ (Warm' <=> Warm)
    BY <1>3, <1>4, <1>15, <1>23 DEF Metric, Population, Book, Size, Warm
<1>25. Drawing(Book)'
  <2>1. a \in Seq(Range(Population)) /\ a # <<>> /\ Len(a) = k + 1 /\ DOMAIN a = 1 .. k + 1
    <3>1. PICK R : R = Range(Population)
        OBVIOUS
    <3>2. a \in [1 .. k + 1 -> R]
        BY <1>22, <3>1
    <3>3. a \in Seq(R) /\ Len(a) = k + 1 /\ DOMAIN a = 1 .. k + 1
        BY <3>2
    <3>4. a # <<>>
        BY <3>3
    <3> QED
        BY <3>1, <3>3, <3>4
  <2>2. k + 1 <= Size
    <3>1. Size \in Nat
        BY <1>1, TrainFacts
    <3> QED
        BY <1>5, <1>6, <1>15, <3>1
  <2>3. \A s, t \in 1 .. k + 1 : a[s] = a[t] => s = t
    <3> SUFFICES ASSUME NEW s \in 1 .. k + 1, NEW t \in 1 .. k + 1, a[s] = a[t]
                 PROVE  s = t
        OBVIOUS
    <3>1. CASE s \in 1 .. k /\ t \in 1 .. k
        BY <1>6, <1>22, <3>1
    <3>2. CASE s \in 1 .. k /\ t = k + 1
        BY <1>20, <1>22, <3>2
    <3>3. CASE s = k + 1 /\ t \in 1 .. k
        BY <1>20, <1>22, <3>3
    <3>4. CASE s = k + 1 /\ t = k + 1
        BY <3>4
    <3> QED
        BY <3>1, <3>2, <3>3, <3>4
  <2> QED
      BY <1>24, <2>1, <2>2, <2>3 DEF Drawing
<1>26. PICK e : e = [i \in DOMAIN Population |-> Nearest(Population[i], a, m).err]
    OBVIOUS
<1>27. [i \in DOMAIN Population |->
          Min({local.d2[i], Distance(Population[i], Population[Drawn(r)], Metric)})] = e
  <2>1. ASSUME NEW i \in 1 .. N
        PROVE  Nearest(Population[i], a, m).err = Min({d2[i], Distance(Population[i], c, m)})
    <3>1. PICK v : v = Population[i] /\ v \in [Dims -> Int]
        BY <1>9
    <3>2. ComesNearer(v, b, c, m)
        BY <1>6, <1>18, <3>1, OneMoreEntry
    <3>3. d2[i] = Nearest(v, b, m).err
        BY <1>10, <3>1
    <3> QED
        BY <1>21, <3>1, <3>2, <3>3 DEF ComesNearer
  <2> QED
      BY <1>4, <1>8, <1>10, <1>16, <1>18, <1>26, <2>1
<1>28. local' = [d2 |-> e, sum |-> TotalSse(a, Population, m)]
  <2>1. local' = Spread(e)
      BY <1>14, <1>27
  <2>2. Spread(e) = [d2 |-> e, sum |-> TotalSse(a, Population, m)]
      BY <1>7, <1>26, SpreadTotal
  <2> QED
      BY <2>1, <2>2
<1>29. SpreadLoop'
  <2>1. local'.d2 = e /\ local'.sum = TotalSse(a, Population, m)
      BY <1>28
  <2> QED
      BY <1>1, <1>24, <1>25, <1>26, <2>1 DEF SpreadLoop
<1>30. CutLoop' /\ LloydLoop'
    BY <1>1, <1>15 DEF CutLoop, LloydLoop
<1>31. (loop' = "lloyd" => IsBook(which, books[which])')
    BY <1>1, <1>15
<1>32. (cut[which] # NoBook => IsBook(which, cut[which]))'
    BY <1>2, <1>15 DEF IsBook, Metric
<1>33. (cut[which] # NoBook <=> loop \in {"spread", "lloyd"} /\ ~Warm)'
    BY <1>1, <1>2, <1>15, <1>24
<1>34. loop' \in Seeding
    BY <1>1, <1>15
<1> QED
    BY <1>1, <1>2, <1>3, <1>15, <1>23, <1>29, <1>30, <1>31, <1>32, <1>33, <1>34, SeedingStays

\* The centroids drawn, and the first of them for the slots that are left: with a
\* slot for each vector that occurs they are all of them.
LEMMA EndSpreadKeeps ==
    ASSUME TrainInv, EndSpread
    PROVE  TrainInv'
<1>1. InputInv /\ loop \in Seeding /\ loop = "spread" /\ SpreadLoop /\ ~Warm
    BY DEF TrainInv, EndSpread, Seeding, SpreadLoop
<1>2. /\ DOMAIN books = Halves /\ DOMAIN cut = Halves /\ which \in Halves
      /\ cut[which] # NoBook /\ IsBook(which, cut[which])
    BY <1>1, InSeeding
<1>3. PICK w \in Halves : w = which
    BY <1>2
<1>4. PICK m \in Metrics : m = Metric /\ Population \in Seq(Entries(m))
    BY <1>1, TrainFacts
<1>5. PICK n \in Nat : n = Size /\ n # 0 /\ n = strip.sizes[w]
    BY <1>1, <1>3, TrainFacts DEF Size
<1>6. PICK b : b = Book /\ Drawing(b)
    BY <1>1 DEF SpreadLoop
<1>0. PICK k \in Nat : /\ k = Len(b) /\ k # 0 /\ k <= Size
                       /\ b \in [1 .. k -> Range(Population)]
                       /\ b \in [1 .. k -> Entries(m)]
                       /\ b \in [1 .. k -> [Dims -> Int]]
                       /\ \A s, t \in 1 .. k : b[s] = b[t] => s = t
    BY <1>4, <1>6, DrawingParts
<1>7. /\ k = Len(b) /\ k # 0 /\ k <= n
      /\ b \in [1 .. k -> Range(Population)]
      /\ b \in [1 .. k -> Entries(m)]
      /\ \A s, t \in 1 .. k : b[s] = b[t] => s = t
    BY <1>0, <1>5
<1>8. IsFiniteSet(Range(Population))
    BY <1>4, <1>6, DrawingParts
<1>9. PICK a : a = [s \in 1 .. n |-> IF s <= k THEN b[s] ELSE b[1]]
    OBVIOUS
<1>10. a \in [1 .. n -> Entries(m)] /\ \A s \in 1 .. k : s \in 1 .. n /\ a[s] = b[s]
  <2>1. PICK E : E = Entries(m)
      OBVIOUS
  <2>2. b \in [1 .. k -> E] /\ 1 \in 1 .. k
      BY <1>7, <2>1
  <2>3. a \in [1 .. n -> E]
      BY <1>9, <2>2
  <2>4. \A s \in 1 .. k : s \in 1 .. n /\ a[s] = b[s]
      BY <1>7, <1>9
  <2> QED
      BY <2>1, <2>3, <2>4
<1>11. /\ SetBook(a) /\ loop' = "lloyd" /\ local' = [left |-> opts.kmeansLloyd]
       /\ UNCHANGED <<strip, opts, vectors, which, cut, decisions>>
    BY <1>5, <1>6, <1>7, <1>9 DEF EndSpread
<1>12. Len(b) = n \/ local.sum = 0
    BY <1>5, <1>6 DEF EndSpread
<1>13. /\ DOMAIN books' = Halves /\ books'[w] = a
       /\ \A x \in Halves : x # w => books'[x] = books[x]
    BY <1>2, <1>3, <1>11 DEF SetBook
<1>14. /\ Metric' = m /\ Population' = Population /\ Book' = a /\ Size' = n
       /\ (Warm' <=> Warm) /\ (Roomy(which)' <=> Roomy(which))
    BY <1>3, <1>4, <1>5, <1>11, <1>13 DEF Metric, Population, Book, Size, Warm, Roomy
<1>15. ASSUME Roomy(which)
       PROVE  TotalSse(a, Population, m) = 0
  <2>1. \A i \in 1 .. Len(Population) : \E s \in 1 .. k : b[s] = Population[i]
    <3>1. CASE local.sum = 0
      <4>1. TotalSse(b, Population, m) = 0
          BY <1>1, <1>4, <1>6, <3>1 DEF SpreadLoop
      <4>2. b \in [1 .. k -> Entries(m)] /\ k # 0
          BY <1>7
      <4> QED
          BY <1>4, <4>1, <4>2, ExactHasAll
    <3>2. CASE Len(b) = n
      <4>1. PICK R : R = Range(Population)
          OBVIOUS
      <4>2. Cardinality(R) <= n
          BY <1>3, <1>5, <1>15, <4>1 DEF Roomy, Population
      <4>3. k = n
          BY <1>7, <3>2
      <4>4. b \in [1 .. n -> R] /\ \A s, t \in 1 .. n : b[s] = b[t] => s = t
          BY <1>7, <4>1, <4>3
      <4>5. \A x \in R : \E s \in 1 .. n : b[s] = x
          BY <1>8, <4>1, <4>2, <4>4, AllDrawn
      <4>6. \A i \in 1 .. Len(Population) : Population[i] \in R
          BY <1>4, <4>1 DEF Range
      <4>7. \A i \in 1 .. Len(Population) : \E s \in 1 .. n : b[s] = Population[i]
          BY <4>5, <4>6, Zenon
      <4> QED
          BY <4>3, <4>7, Zenon
    <3> QED
        BY <1>12, <3>1, <3>2
  <2>2. \A i \in 1 .. Len(Population) : \E s \in 1 .. n : a[s] = Population[i]
    <3> SUFFICES ASSUME NEW i \in 1 .. Len(Population)
                 PROVE  \E s \in 1 .. n : a[s] = Population[i]
        OBVIOUS
    <3>1. PICK s \in 1 .. k : b[s] = Population[i]
        BY <2>1
    <3>2. s \in 1 .. n /\ a[s] = Population[i]
        BY <1>10, <3>1
    <3> QED
        BY <3>2
  <2> QED
      BY <1>4, <1>5, <1>10, <2>2, ExactHasAll
<1>16. LloydLoop'
  <2>1. opts.kmeansLloyd \in Nat
      BY <1>1, TuningParts DEF InputInv
  <2>2. local'.left \in Nat
      BY <1>11, <2>1
  <2> QED
      BY <1>14, <1>15, <2>2 DEF LloydLoop
<1>17. CutLoop' /\ SpreadLoop'
    BY <1>11 DEF CutLoop, SpreadLoop
<1>18. IsBook(which, books[which])'
    BY <1>3, <1>5, <1>10, <1>11, <1>13, <1>14 DEF IsBook
<1>19. (cut[which] # NoBook => IsBook(which, cut[which]))'
    BY <1>2, <1>11 DEF IsBook, Metric
<1>20. (cut[which] # NoBook <=> loop \in {"spread", "lloyd"} /\ ~Warm)'
    BY <1>1, <1>2, <1>11, <1>14
<1>21. loop' \in Seeding
    BY <1>11 DEF Seeding
<1> QED
    BY <1>1, <1>2, <1>3, <1>11, <1>13, <1>16, <1>17, <1>18, <1>19, <1>20, <1>21, SeedingStays

\* What the invariant says of the book of a pass of Lloyd.
LEMMA InLloyd ==
    ASSUME TrainInv, loop = "lloyd"
    PROVE  /\ Metric \in Metrics /\ Population \in Seq(Entries(Metric))
           /\ Size \in Nat /\ Size # 0 /\ Book \in [1 .. Size -> Entries(Metric)]
           /\ local.left \in Nat
           /\ ~Warm /\ Roomy(which) => TotalSse(Book, Population, Metric) = 0
<1>1. InputInv /\ BooksFit /\ LloydLoop
    BY DEF TrainInv
<1>2. which \in Halves
    BY <1>1 DEF InputInv
<1>3. IsBook(which, books[which])
    BY <1>1, <1>2 DEF BooksFit
<1>4. Book \in [1 .. Size -> Entries(Metric)]
    BY <1>3 DEF IsBook, Book, Size
<1> QED
    BY <1>1, <1>4, TrainFacts DEF LloydLoop

\* A pass of Lloyd makes entries of entries, and does not move an exact book.
LEMMA LloydKeeps ==
    ASSUME TrainInv, Lloyd
    PROVE  TrainInv'
<1>1. InputInv /\ loop \in Seeding /\ loop = "lloyd"
    BY DEF TrainInv, Lloyd, Seeding
<1>2. /\ DOMAIN books = Halves /\ DOMAIN cut = Halves /\ which \in Halves
      /\ cut[which] # NoBook <=> ~Warm
      /\ cut[which] # NoBook => IsBook(which, cut[which])
    BY <1>1, InSeeding
<1>3. PICK w \in Halves : w = which
    BY <1>2
<1>4. PICK m \in Metrics : m = Metric /\ Population \in Seq(Entries(m))
    BY <1>1, InLloyd
<1>5. PICK n \in Nat : n = Size /\ n # 0 /\ n = strip.sizes[w]
    BY <1>1, <1>3, InLloyd DEF Size
<1>6. PICK b \in [1 .. n -> Entries(m)] : b = Book
    BY <1>1, <1>4, <1>5, InLloyd
<1>7. PICK next : next = Recentred(Population, b, m)
    OBVIOUS
<1>8. next \in [1 .. n -> Entries(m)]
    BY <1>4, <1>5, <1>6, <1>7, RecentredFits
<1>9. /\ SetBook(next)
      /\ UNCHANGED <<strip, opts, vectors, loop, which, cut, decisions>>
    BY <1>4, <1>6, <1>7 DEF Lloyd
<1>10. local'.left \in Nat
  <2>1. local'.left = 0 \/ local'.left = local.left - 1
      BY DEF Lloyd
  <2>2. local.left \in Nat /\ local.left > 0
      BY <1>1, InLloyd DEF Lloyd
  <2>3. PICK l \in Nat : l = local.left /\ l > 0
      BY <2>2
  <2>4. l - 1 \in Nat
      BY <2>3
  <2> QED
      BY <2>1, <2>3, <2>4
<1>11. /\ DOMAIN books' = Halves /\ books'[w] = next
       /\ \A x \in Halves : x # w => books'[x] = books[x]
    BY <1>2, <1>3, <1>9 DEF SetBook
<1>12. /\ Metric' = m /\ Population' = Population /\ Book' = next /\ Size' = n
       /\ (Warm' <=> Warm) /\ (Roomy(which)' <=> Roomy(which))
    BY <1>3, <1>4, <1>5, <1>9, <1>11 DEF Metric, Population, Book, Size, Warm, Roomy
<1>13. LloydLoop'
  <2>1. ASSUME ~Warm, Roomy(which)
        PROVE  TotalSse(next, Population, m) = 0
    <3>1. TotalSse(b, Population, m) = 0
        BY <1>1, <1>4, <1>6, <2>1, InLloyd
    <3>2. next = b
        BY <1>4, <1>5, <1>6, <1>7, <3>1, ExactStays
    <3> QED
        BY <3>1, <3>2
  <2> QED
      BY <1>10, <1>12, <2>1 DEF LloydLoop
<1>14. CutLoop' /\ SpreadLoop'
    BY <1>1, <1>9 DEF CutLoop, SpreadLoop
<1>15. IsBook(which, books[which])'
    BY <1>3, <1>5, <1>8, <1>9, <1>11, <1>12 DEF IsBook
<1>16. (cut[which] # NoBook => IsBook(which, cut[which]))'
    BY <1>2, <1>9 DEF IsBook, Metric
<1>17. (cut[which] # NoBook <=> loop \in {"spread", "lloyd"} /\ ~Warm)'
    BY <1>1, <1>2, <1>9, <1>12
<1>18. loop' \in Seeding
    BY <1>1, <1>9
<1> QED
    BY <1>1, <1>2, <1>3, <1>9, <1>11, <1>13, <1>14, <1>15, <1>16, <1>17, <1>18, SeedingStays

\* The better of the two books is no worse than the second, and exact if the
\* first is.
LEMMA HybridIs ==
    ASSUME NEW m \in Metrics, m = Metric, Population \in Seq(Entries(m)),
           NEW n \in Nat, n # 0,
           NEW kmeans \in [1 .. n -> Entries(m)], NEW median \in [1 .. n -> Entries(m)]
    PROVE  /\ Hybrid(kmeans, median) \in [1 .. n -> Entries(m)]
           /\ TotalSse(Hybrid(kmeans, median), Population, m) <= TotalSse(median, Population, m)
           /\ TotalSse(kmeans, Population, m) = 0 =>
                TotalSse(Hybrid(kmeans, median), Population, m) = 0
<1>1. \A v \in Entries(m) : v \in [Dims -> Int]
    BY EntryParts
<1>2. /\ Population \in Seq([Dims -> Int])
      /\ kmeans \in [1 .. n -> [Dims -> Int]] /\ median \in [1 .. n -> [Dims -> Int]]
    BY <1>1
<1>3. PICK x \in Nat : x = TotalSse(kmeans, Population, m)
    BY <1>2, TotalIs
<1>4. PICK y \in Nat : y = TotalSse(median, Population, m)
    BY <1>2, TotalIs
<1>5. CASE x < y
  <2>1. Hybrid(kmeans, median) = kmeans
      BY <1>3, <1>4, <1>5 DEF Hybrid
  <2> QED
      BY <1>3, <1>4, <1>5, <2>1
<1>6. CASE ~(x < y)
  <2>1. Hybrid(kmeans, median) = median
      BY <1>3, <1>4, <1>6 DEF Hybrid
  <2>2. x = 0 => y = 0
      BY <1>6
  <2> QED
      BY <1>3, <1>4, <2>1, <2>2
<1> QED
    BY <1>5, <1>6

\* The codebook is trained.
LEMMA EndLloydKeeps ==
    ASSUME TrainInv, EndLloyd
    PROVE  TrainInv'
<1>1. InputInv /\ loop \in Seeding /\ loop = "lloyd"
    BY DEF TrainInv, EndLloyd, Seeding
<1>2. /\ DOMAIN books = Halves /\ DOMAIN cut = Halves /\ which \in Halves
      /\ cut[which] # NoBook <=> ~Warm
      /\ cut[which] # NoBook => IsBook(which, cut[which])
    BY <1>1, InSeeding
<1>3. PICK w \in Halves : w = which
    BY <1>2
<1>4. PICK m \in Metrics : m = Metric /\ Population \in Seq(Entries(m))
    BY <1>1, InLloyd
<1>5. PICK n \in Nat : n = Size /\ n # 0 /\ n = strip.sizes[w]
    BY <1>1, <1>3, InLloyd DEF Size
<1>6. PICK b \in [1 .. n -> Entries(m)] : b = Book
    BY <1>1, <1>4, <1>5, InLloyd
<1>7. PICK next : next = IF Warm THEN b ELSE Hybrid(b, cut[w])
    OBVIOUS
<1>8. /\ SetBook(next) /\ GoOn("seeded")
      /\ UNCHANGED <<strip, opts, vectors, cut, decisions>>
    BY <1>3, <1>6, <1>7 DEF EndLloyd
<1>9. /\ DOMAIN books' = Halves /\ books'[w] = next
      /\ \A x \in Halves : x # w => books'[x] = books[x]
    BY <1>2, <1>3, <1>8 DEF SetBook
<1>10. Metric' = m /\ vectors'[w] = Population /\ (Roomy(w)' <=> Roomy(w))
    BY <1>3, <1>4, <1>8 DEF Metric, Population, Roomy
<1>11. (cut[w] # NoBook => IsBook(w, cut[w]))'
    BY <1>2, <1>3, <1>8 DEF IsBook, Metric
<1>12. next \in [1 .. n -> Entries(m)] /\ Good(w, books[w])'
  <2>1. CASE Warm
    <3>1. next = b /\ cut'[w] = NoBook
        BY <1>2, <1>3, <1>7, <1>8, <2>1
    <3> QED
        BY <1>6, <3>1 DEF Good
  <2>2. CASE ~Warm
    <3>1. PICK c \in [1 .. n -> Entries(m)] : c = cut[w]
        BY <1>2, <1>3, <1>4, <1>5, <2>2 DEF IsBook
    <3>2. next = Hybrid(b, c)
        BY <1>7, <2>2, <3>1
    <3>3. /\ next \in [1 .. n -> Entries(m)]
          /\ TotalSse(next, Population, m) <= TotalSse(c, Population, m)
          /\ TotalSse(b, Population, m) = 0 => TotalSse(next, Population, m) = 0
        BY <1>4, <1>5, <1>6, <3>1, <3>2, HybridIs
    <3>4. Roomy(w) => TotalSse(b, Population, m) = 0
        BY <1>1, <1>3, <1>4, <1>6, <2>2, InLloyd
    <3> QED
        BY <1>8, <1>9, <1>10, <3>1, <3>3, <3>4 DEF Good
  <2> QED
      BY <2>1, <2>2
<1>13. IsBook(w, books[w])'
    BY <1>5, <1>8, <1>9, <1>10, <1>12 DEF IsBook
<1> QED
    BY <1>1, <1>2, <1>3, <1>8, <1>9, <1>11, <1>12, <1>13, SeedingEnds

-----------------------------------------------------------------------------
\* The steps that refine the codebooks.

AfterSeeding == {"refine", "lbg", "classify", "polish", "done"}

\* What the invariant says in the loops after the codebooks are seeded.
LEMMA InAfterSeeding ==
    ASSUME TrainInv, loop \in AfterSeeding
    PROVE  /\ DOMAIN books = Halves /\ DOMAIN cut = Halves /\ which \in Halves
           /\ \A w \in Halves : /\ IsBook(w, books[w])
                                /\ cut[w] # NoBook => IsBook(w, cut[w])
                                /\ loop \notin {"polish", "done"} => Good(w, books[w])
<1>1. InputInv /\ BooksFit /\ CutsFit /\ BooksAreGood
    BY DEF TrainInv
<1>2. \A w \in Halves : Trained(w)
    BY DEF Trained, AfterSeeding
<1> QED
    BY <1>1, <1>2 DEF InputInv, BooksFit, CutsFit, BooksAreGood

\* A step after that: what is to be shown is that the books are books, and good
\* until the polish, and what the loop it goes to claims.
LEMMA RefiningStays ==
    ASSUME TrainInv, loop \in AfterSeeding, loop' \in AfterSeeding, which' \in Halves,
           UNCHANGED <<strip, opts, vectors, cut>>,
           DOMAIN books' = Halves,
           \A w \in Halves : IsBook(w, books[w])',
           \A w \in Halves : (loop \notin {"polish", "done"} => Good(w, books[w]))',
           RefineLoop', PolishLoop'
    PROVE  TrainInv'
<1>1. InputInv /\ BooksFit /\ CutsFit /\ BooksAreGood
    BY DEF TrainInv
<1>2. InputInv'
    BY <1>1 DEF InputInv, AfterSeeding, Loops
<1>3. BooksFit'
    BY DEF BooksFit
<1>4. CutsFit'
  <2>1. \A w \in Halves : Trained(w)'
      BY DEF Trained, AfterSeeding
  <2>2. \A w \in Halves : (cut[w] # NoBook => IsBook(w, cut[w]))'
    <3> SUFFICES ASSUME NEW w \in Halves PROVE (cut[w] # NoBook => IsBook(w, cut[w]))'
        OBVIOUS
    <3>1. cut[w] # NoBook => IsBook(w, cut[w])
        BY InAfterSeeding
    <3> QED
        BY <3>1 DEF IsBook, Metric
  <2>3. DOMAIN cut' = Halves
      BY InAfterSeeding
  <2> QED
      BY <2>1, <2>2, <2>3 DEF CutsFit
<1>5. BooksAreGood'
    BY DEF BooksAreGood
<1>6. CutLoop' /\ SpreadLoop' /\ LloydLoop'
    BY DEF CutLoop, SpreadLoop, LloydLoop, AfterSeeding
<1> QED
    BY <1>2, <1>3, <1>4, <1>5, <1>6 DEF TrainInv

\* With the books as they are.
LEMMA SameBooks ==
    ASSUME TrainInv, loop \in AfterSeeding, loop' \in AfterSeeding, which' \in Halves,
           UNCHANGED <<strip, opts, vectors, cut, books>>,
           loop' \in {"polish", "done"} \/ loop \notin {"polish", "done"},
           RefineLoop', PolishLoop'
    PROVE  TrainInv'
<1>1. DOMAIN books' = Halves
    BY InAfterSeeding
<1>2. \A w \in Halves : IsBook(w, books[w])'
  <2> SUFFICES ASSUME NEW w \in Halves PROVE IsBook(w, books[w])'
      OBVIOUS
  <2>1. IsBook(w, books[w])
      BY InAfterSeeding
  <2> QED
      BY <2>1, SameBook
<1>3. \A w \in Halves : (loop \notin {"polish", "done"} => Good(w, books[w]))'
  <2> SUFFICES ASSUME NEW w \in Halves, loop' \notin {"polish", "done"}
               PROVE  Good(w, books[w])'
      OBVIOUS
  <2>1. Good(w, books[w])
      BY InAfterSeeding
  <2> QED
      BY <2>1, SameGood
<1> QED
    BY <1>1, <1>2, <1>3, RefiningStays

\* From one codebook to the next, or to the classification.
LEMMA RefiningGoesOn ==
    ASSUME TrainInv, loop \in {"refine", "lbg"}, GoOn("refine"),
           UNCHANGED <<strip, opts, vectors, cut, books, decisions>>
    PROVE  TrainInv'
<1>1. which' \in Halves /\ loop' \in {"refine", "classify"}
    BY DEF GoOn, Halves
<1>2. loop \in AfterSeeding /\ loop' \in AfterSeeding /\ loop \notin {"polish", "done"}
    BY <1>1 DEF AfterSeeding
<1>3. RefineLoop' /\ PolishLoop'
    BY <1>1 DEF RefineLoop, PolishLoop
<1> QED
    BY <1>1, <1>2, <1>3, SameBooks

\* LBG starts with a scan, or passes a codebook over.
LEMMA StartRefineKeeps ==
    ASSUME TrainInv, StartRefine
    PROVE  TrainInv'
<1>1. /\ loop \in {"refine", "lbg"} /\ loop \in AfterSeeding /\ loop \notin {"polish", "done"}
      /\ UNCHANGED <<strip, opts, vectors, cut, books, decisions>>
    BY DEF StartRefine, AfterSeeding
<1>2. CASE opts.lbg = 0 \/ Size <= 1 \/ Population = <<>>
  <2>1. GoOn("refine")
      BY <1>2 DEF StartRefine
  <2> QED
      BY <1>1, <2>1, RefiningGoesOn
<1>3. CASE ~(opts.lbg = 0 \/ Size <= 1 \/ Population = <<>>)
  <2>1. /\ loop' = "lbg" /\ which' = which
        /\ local' = [left |-> opts.lbg, scan |-> Scan(Population, Book, Metric)]
      BY <1>3 DEF StartRefine
  <2>2. opts.lbg \in Nat
      BY TuningParts DEF TrainInv, InputInv
  <2>3. /\ local'.left \in Nat
        /\ local' = [left |-> local'.left, scan |-> Scan(Population, Book, Metric)]
      BY <2>1, <2>2
  <2>4. Population' = Population /\ Book' = Book /\ Metric' = Metric
      BY <1>1, <2>1 DEF Population, Book, Metric
  <2>5. RefineLoop'
      BY <2>3, <2>4 DEF RefineLoop
  <2>6. PolishLoop'
      BY <2>1 DEF PolishLoop
  <2>7. which' \in Halves /\ loop' \in AfterSeeding
      BY <1>1, <2>1, InAfterSeeding DEF AfterSeeding
  <2> QED
      BY <1>1, <2>5, <2>6, <2>7, SameBooks
<1> QED
    BY <1>2, <1>3

\* It ends with the book as it is.
LEMMA EndRefineKeeps ==
    ASSUME TrainInv, EndRefine
    PROVE  TrainInv'
BY RefiningGoesOn DEF EndRefine

\* The slot that is split is one of the book, and it has a widest dimension.
LEMMA SplitterIs ==
    ASSUME NEW m \in Metrics, m = Metric, Population \in Seq(Entries(m)),
           NEW n \in Nat, n = Size, n # 0, Book \in [1 .. n -> Entries(m)],
           local.scan = Scan(Population, Book, Metric), Populous # {}
    PROVE  Splitter \in 1 .. n /\ WidestDim \in 1 .. CountOfDims(m)
<1>1. PICK N \in Nat : N = Len(Population) /\ DOMAIN Population = 1 .. N
    OBVIOUS
<1>2. \A v \in Entries(m) : v \in [Dims -> Int]
    BY EntryParts
<1>3. Population \in Seq([Dims -> Int]) /\ Book \in [1 .. n -> [Dims -> Int]]
    BY <1>2
<1>4. PICK c : c = SlotsOf(Population, Book, m) /\ c \in [1 .. N -> 1 .. n]
    BY <1>1, <1>3, SlotsType
<1>5. PICK e : e = ErrsOf(Population, Book, m) /\ e \in [1 .. N -> Nat]
    BY <1>1, <1>3, SlotsType
<1>6. PICK u : u = Ones(Population) /\ \A j \in 1 .. N : u[j] = 1
  <2>1. PICK u : u = Ones(Population)
      OBVIOUS
  <2>2. u = [j \in 1 .. N |-> 1]
      BY <1>1, <2>1 DEF Ones
  <2> QED
      BY <2>1, <2>2
<1>7. local.scan.assign = c
  <2>1. Scan(Population, Book, m).assign = SlotsOf(Population, Book, m)
      BY <1>3, ScanParts
  <2> QED
      BY <1>4, <2>1
<1>8. local.scan.counts = Tally(N, c, u, n)
  <2>1. Scan(Population, Book, m).counts =
          Tally(Len(Population), SlotsOf(Population, Book, m), Ones(Population), n)
      BY <1>3, ScanParts
  <2> QED
      BY <1>1, <1>4, <1>6, <2>1
<1>9. PICK sse : sse = local.scan.sse /\ \A s \in 1 .. n : sse[s] \in Int
  <2>1. Scan(Population, Book, m).sse =
          Tally(Len(Population), SlotsOf(Population, Book, m), ErrsOf(Population, Book, m), n)
      BY <1>3, ScanParts
  <2>2. local.scan.sse = Tally(N, c, e, n)
      BY <1>1, <1>4, <1>5, <2>1
  <2>3. \A j \in 1 .. N : e[j] \in Int
      BY <1>5
  <2>4. TallyGoesOn(N, n, c, e)
      BY <1>4, <2>3, TallySteps
  <2>5. Tally(N, c, e, n) \in [1 .. n -> Int]
      BY <2>4 DEF TallyGoesOn
  <2> QED
      BY <2>2, <2>5
<1>10. PICK P : P = Populous /\ P \subseteq 1 .. n /\ P # {}
    BY DEF Populous
<1>11. Splitter \in Populous
  <2>1. PICK S : S = {sse[s] : s \in P}
      OBVIOUS
  <2>2. PICK hi \in Int : \A s \in 1 .. n : sse[s] <= hi
    <3>1. PICK k \in 1 .. n : \A s \in 1 .. n : sse[s] <= sse[k]
        BY <1>9, FirstHighest
    <3> QED
        BY <1>9, <3>1
  <2>3. PICK lo \in Int : \A s \in 1 .. n : lo <= sse[s]
    <3>1. PICK k \in 1 .. n : FirstLow(n, sse, k)
        BY <1>9, FirstLowest
    <3>2. \A s \in 1 .. n : sse[k] <= sse[s]
        BY <3>1 DEF FirstLow
    <3> QED
        BY <1>9, <3>2
  <2>4. S \subseteq lo .. hi /\ S # {}
    <3>1. \A x \in S : x \in lo .. hi
      <4> SUFFICES ASSUME NEW x \in S PROVE x \in lo .. hi
          OBVIOUS
      <4>1. PICK s \in P : x = sse[s]
          BY <2>1
      <4>2. s \in 1 .. n
          BY <1>10
      <4>3. sse[s] \in Int /\ lo <= sse[s] /\ sse[s] <= hi
          BY <1>9, <2>2, <2>3, <4>2
      <4> QED
          BY <4>1, <4>3
    <3>2. S # {}
        BY <1>10, <2>1
    <3> QED
        BY <3>1, <3>2
  <2>5. Max(S) \in S
      BY <2>4, BoundedHasMax
  <2>6. PICK T : T = {s \in P : sse[s] = Max(S)}
      OBVIOUS
  <2>7. T \subseteq Nat /\ T # {} /\ T \subseteq P
    <3>1. T # {}
      <4>1. PICK s \in P : sse[s] = Max(S)
          BY <2>1, <2>5
      <4>2. s \in T
          BY <2>6, <4>1
      <4> QED
          BY <4>2
    <3>2. T \subseteq P
        BY <2>6
    <3>3. \A s \in P : s \in Nat
        BY <1>10
    <3> QED
        BY <3>1, <3>2, <3>3
  <2>8. Min(T) \in T
      BY <2>7, MinOfNaturals
  <2>9. Splitter = Min(T)
      BY <1>9, <1>10, <2>1, <2>6 DEF Splitter
  <2> QED
      BY <1>10, <2>7, <2>8, <2>9
<1>12. PICK s \in 1 .. n : s = Splitter
    BY <1>10, <1>11
<1>13. Members \subseteq Entries(m) /\ Members # {}
  <2>1. Tally(N, c, u, n)[s] # 0
      BY <1>8, <1>11, <1>12 DEF Populous
  <2>2. PICK j \in 1 .. N : c[j] = s
    <3>1. ASSUME \A j \in 1 .. N : c[j] # s PROVE FALSE
      <4>1. Tally(N, c, u, n)[s] = 0
          BY <1>4, <3>1, NoOneIsThere
      <4> QED
          BY <2>1, <4>1
    <3> QED
        BY <3>1
  <2>3. Members = {Population[i] : i \in {k \in 1 .. N : c[k] = s}}
      BY <1>1, <1>7, <1>12 DEF Members
  <2> QED
      BY <1>1, <2>2, <2>3
<1>14. PICK k \in Nat : k = CountOfDims(m) /\ k # 0 /\ 1 .. k \subseteq Dims
    BY MetricParts
<1>15. PICK f : f = [d \in 1 .. k |-> Extent(Members, d)]
    OBVIOUS
<1>16. \A d \in 1 .. k : f[d] \in Int /\ f[d] = Extent(Members, d)
  <2> SUFFICES ASSUME NEW d \in 1 .. k PROVE f[d] \in Int /\ f[d] = Extent(Members, d)
      OBVIOUS
  <2>1. PICK D \in Dims : D = d
      BY <1>14
  <2>2. Extent(Members, D) \in Nat
      BY <1>13, ExtentIs
  <2>3. PICK x \in Nat : x = Extent(Members, D)
      BY <2>2
  <2>4. f[d] = x
      BY <1>15, <2>1, <2>3
  <2> QED
      BY <2>1, <2>3, <2>4
<1>17. PICK d \in 1 .. k : \A i \in 1 .. k : f[i] <= f[d] /\ (f[i] = f[d] => d <= i)
  <2>1. k \in Nat /\ k # 0 /\ \A i \in 1 .. k : f[i] \in Int
      BY <1>14, <1>16
  <2> QED
      BY <2>1, FirstHighest, Zenon
<1>18. \E x \in 1 .. k : \A i \in 1 .. k :
          /\ Extent(Members, i) <= Extent(Members, x)
          /\ Extent(Members, i) = Extent(Members, x) => x <= i
    BY <1>16, <1>17
<1>19. WidestDim \in 1 .. k
    BY <1>14, <1>18 DEF WidestDim
<1> QED
    BY <1>12, <1>14, <1>19

\* The entry that is split makes two, and reverting it restores the book.
LEMMA SplitIs ==
    ASSUME NEW m \in Metrics, NEW n \in Nat, Book \in [1 .. n -> Entries(m)],
           NEW s \in 1 .. n, NEW d, WidestDim \in 1 .. CountOfDims(m)
    PROVE  /\ Split(s, d) \in [1 .. n -> Entries(m)]
           /\ Reverted(Split(s, d), s, d) = Book
<1>1. PICK E : E = Entries(m)
    OBVIOUS
<1>2. PICK b \in [1 .. n -> E] : b = Book
    BY <1>1
<1>3. PICK x \in E : x = Perturbed(Book[s], WidestDim, -1)
  <2>1. Book[s] \in Entries(m) /\ -1 \in Int
      OBVIOUS
  <2>2. Perturbed(Book[s], WidestDim, -1) \in Entries(m)
      BY <2>1, PerturbedFits
  <2> QED
      BY <1>1, <2>2
<1>4. PICK y \in E : y = Perturbed(Book[s], WidestDim, 1)
  <2>1. Book[s] \in Entries(m) /\ 1 \in Int
      OBVIOUS
  <2>2. Perturbed(Book[s], WidestDim, 1) \in Entries(m)
      BY <2>1, PerturbedFits
  <2> QED
      BY <1>1, <2>2
<1>5. PICK q : q = Split(s, d) /\ q = [b EXCEPT ![s] = x, ![d] = y]
    BY <1>2, <1>3, <1>4 DEF Split
<1>6. q \in [1 .. n -> E]
    BY <1>2, <1>5
<1>7. \A t \in 1 .. n : t # s /\ t # d => q[t] = b[t]
    BY <1>2, <1>5
<1>8. [q EXCEPT ![s] = b[s], ![d] = b[d]] = b
  <2>1. PICK r : r = [q EXCEPT ![s] = b[s], ![d] = b[d]]
      OBVIOUS
  <2>2. DOMAIN r = 1 .. n /\ r = [t \in 1 .. n |-> r[t]]
      BY <1>6, <2>1
  <2>3. \A t \in 1 .. n : r[t] = b[t]
      BY <1>6, <1>7, <2>1
  <2>4. b = [t \in 1 .. n |-> b[t]]
      BY <1>2
  <2> QED
      BY <2>1, <2>2, <2>3, <2>4
<1>9. Reverted(Split(s, d), s, d) = b
    BY <1>2, <1>5, <1>8 DEF Reverted
<1> QED
    BY <1>1, <1>2, <1>5, <1>6, <1>9

-----------------------------------------------------------------------------
\* The steps that polish them.

\* A pass of LBG is kept when the total error is less; otherwise the book is
\* what it was, and so is the scan that goes with it.
LEMMA RefineKeeps ==
    ASSUME TrainInv, Refine
    PROVE  TrainInv'
<1>1. /\ InputInv /\ RefineLoop /\ loop = "lbg" /\ loop \in AfterSeeding
      /\ loop \notin {"polish", "done"}
    BY DEF TrainInv, Refine, AfterSeeding
<1>2. /\ DOMAIN books = Halves /\ DOMAIN cut = Halves /\ which \in Halves
      /\ \A x \in Halves : /\ IsBook(x, books[x])
                           /\ cut[x] # NoBook => IsBook(x, cut[x])
                           /\ Good(x, books[x])
    BY <1>1, InAfterSeeding
<1>3. PICK w \in Halves : w = which
    BY <1>2
<1>4. PICK m \in Metrics : m = Metric /\ Population \in Seq(Entries(m))
    BY <1>1, TrainFacts
<1>5. PICK n \in Nat : n = Size /\ n # 0 /\ n = strip.sizes[w]
    BY <1>1, <1>3, TrainFacts DEF Size
<1>6. Book \in [1 .. n -> Entries(m)] /\ Book = books[w]
    BY <1>2, <1>3, <1>4, <1>5 DEF IsBook, Book
<1>7. PICK l \in Nat : local = [left |-> l, scan |-> Scan(Population, Book, m)]
    BY <1>1, <1>4 DEF RefineLoop
<1>8. local.left = l /\ l > 0 /\ local.scan = Scan(Population, Book, m)
    BY <1>7 DEF Refine
<1>9. \A v \in Entries(m) : v \in [Dims -> Int]
    BY EntryParts
<1>10. Population \in Seq([Dims -> Int]) /\ Book \in [1 .. n -> [Dims -> Int]]
    BY <1>4, <1>6, <1>9
<1>11. PICK t \in Nat : t = TotalSse(Book, Population, m) /\ t = local.scan.total
  <2>1. TotalSse(Book, Population, m) \in Nat
      BY <1>5, <1>10, TotalIs
  <2>2. Scan(Population, Book, m).total = TotalSse(Book, Population, m)
      BY <1>5, <1>10, ScanParts
  <2> QED
      BY <1>8, <2>1, <2>2
<1>12. PICK s : s = Splitter /\ s \in 1 .. n /\ WidestDim \in 1 .. CountOfDims(m)
  <2>1. Populous # {}
      BY DEF Refine, CanSplit
  <2> QED
      BY <1>4, <1>5, <1>6, <1>8, <2>1, SplitterIs
<1>13. PICK d : d = Donor
    OBVIOUS
<1>14. PICK split \in [1 .. n -> Entries(m)] :
          split = Split(s, d) /\ Reverted(split, s, d) = Book
  <2>1. s \in 1 .. n
      BY <1>12
  <2> QED
      BY <1>6, <1>12, <2>1, SplitIs
<1>15. PICK next \in [1 .. n -> Entries(m)] : next = Recentred(Population, split, m)
    BY <1>4, <1>5, <1>14, RecentredFits
<1>16. PICK trial : trial = Scan(Population, next, m)
    OBVIOUS
<1>17. next \in [1 .. n -> [Dims -> Int]]
    BY <1>9, <1>15
<1>18. PICK nt \in Nat : nt = TotalSse(next, Population, m) /\ nt = trial.total
  <2>1. TotalSse(next, Population, m) \in Nat
      BY <1>5, <1>10, <1>17, TotalIs
  <2>2. trial.total = TotalSse(next, Population, m)
      BY <1>5, <1>10, <1>16, <1>17, ScanParts
  <2> QED
      BY <2>1, <2>2
<1>19. /\ UNCHANGED <<strip, opts, vectors, loop, which, cut, decisions>>
       /\ IF nt < t
          THEN SetBook(next) /\ local' = [left |-> local.left - 1, scan |-> trial]
          ELSE SetBook(Reverted(split, s, d)) /\ local' = [local EXCEPT !.left = 0]
    BY <1>4, <1>11, <1>12, <1>13, <1>14, <1>15, <1>16, <1>18 DEF Refine
<1>20. PICK b \in [1 .. n -> Entries(m)] :
          /\ SetBook(b)
          /\ \/ b = Book
             \/ b = next /\ nt < t
          /\ local'.left \in Nat
          /\ local' = [left |-> local'.left, scan |-> Scan(Population, b, m)]
  <2>1. CASE nt < t
    <3>1. local' = [left |-> l - 1, scan |-> trial] /\ l - 1 \in Nat
        BY <1>8, <1>19, <2>1
    <3>2. local'.left = l - 1 /\ local'.scan = trial
        BY <3>1
    <3> QED
        BY <1>15, <1>16, <1>19, <2>1, <3>1, <3>2
  <2>2. CASE ~(nt < t)
    <3>1. local' = [left |-> 0, scan |-> Scan(Population, Book, m)]
        BY <1>7, <1>19, <2>2
    <3>2. local'.left = 0 /\ 0 \in Nat
        BY <3>1
    <3>3. SetBook(Book)
        BY <1>14, <1>19, <2>2
    <3> QED
        BY <1>6, <3>1, <3>2, <3>3
  <2> QED
      BY <2>1, <2>2
<1>21. /\ DOMAIN books' = Halves /\ books'[w] = b
       /\ \A x \in Halves : x # w => books'[x] = books[x]
    BY <1>2, <1>3, <1>20 DEF SetBook
<1>22. /\ Metric' = m /\ Population' = Population /\ Book' = b
       /\ vectors'[w] = Population /\ (Roomy(w)' <=> Roomy(w)) /\ cut'[w] = cut[w]
    BY <1>3, <1>4, <1>19, <1>21 DEF Metric, Population, Book, Roomy
<1>23. RefineLoop'
    BY <1>20, <1>22 DEF RefineLoop
<1>24. PolishLoop'
    BY <1>1, <1>19 DEF PolishLoop
<1>25. ASSUME NEW x \in Halves
       PROVE  IsBook(x, books[x])' /\ Good(x, books[x])'
  <2>1. CASE x = w
    <3>1. IsBook(x, books[x])'
        BY <1>5, <1>19, <1>20, <1>21, <1>22, <2>1 DEF IsBook
    <3>2. Good(w, Book)
        BY <1>2, <1>6
    <3>3. Good(x, books[x])'
      <4>1. CASE b = Book
          BY <1>4, <1>3, <1>21, <1>22, <2>1, <3>2, <4>1 DEF Good, Population
      <4>2. CASE b = next /\ nt < t
        <5> SUFFICES ASSUME cut[w] # NoBook
                     PROVE  /\ nt <= TotalSse(cut[w], Population, m)
                            /\ Roomy(w) => nt = 0
            BY <1>18, <1>21, <1>22, <2>1, <4>2 DEF Good
        <5>1. t <= TotalSse(cut[w], Population, m) /\ (Roomy(w) => t = 0)
            BY <1>3, <1>4, <1>11, <3>2 DEF Good, Population
        <5>2. cut[w] \in [1 .. n -> Entries(m)]
            BY <1>2, <1>4, <1>5 DEF IsBook
        <5>3. cut[w] \in [1 .. n -> [Dims -> Int]]
            BY <1>9, <5>2
        <5>4. PICK c \in Nat : c = TotalSse(cut[w], Population, m)
            BY <1>5, <1>10, <5>3, TotalIs
        <5>5. nt <= c
            BY <4>2, <5>1, <5>4
        <5> QED
            BY <4>2, <5>1, <5>4, <5>5
      <4> QED
          BY <1>20, <4>1, <4>2
    <3> QED
        BY <3>1, <3>3
  <2>2. CASE x # w
    <3>1. IsBook(x, books[x]) /\ Good(x, books[x]) /\ books'[x] = books[x]
        BY <1>2, <1>21, <2>2
    <3> QED
        BY <1>19, <3>1, SameBook, SameGood
  <2> QED
      BY <2>1, <2>2
<1>26. /\ loop \in AfterSeeding /\ loop' \in AfterSeeding /\ which' \in Halves
       /\ UNCHANGED <<strip, opts, vectors, cut>> /\ DOMAIN books' = Halves
    BY <1>1, <1>2, <1>19, <1>21
<1> QED
    BY <1>23, <1>24, <1>25, <1>26, RefiningStays

\* The decisions depend on the input and the books.
LEMMA SameDecisions ==
    ASSUME UNCHANGED <<strip, opts, books>>
    PROVE  Classified(books)' = Classified(books)
BY DEF Classified, Decision, PickV4, PickV1, ColourMetric, Metric

\* What they are does not depend on when the books come.
LEMMA NewDecisions ==
    ASSUME NEW bs, UNCHANGED <<strip, opts>>, books' = bs
    PROVE  Classified(books)' = Classified(bs)
BY DEF Classified, Decision, PickV4, PickV1, ColourMetric, Metric

\* The first decisions.
LEMMA ClassifyKeeps ==
    ASSUME TrainInv, Classify
    PROVE  TrainInv'
<1>1. /\ loop \in AfterSeeding /\ loop' = "polish" /\ loop' \in AfterSeeding
      /\ UNCHANGED <<strip, opts, vectors, which, cut, books>>
      /\ decisions' = Classified(books) /\ local' = [left |-> opts.pcl]
    BY DEF Classify, AfterSeeding
<1>2. opts.pcl \in Nat
    BY TuningParts DEF TrainInv, InputInv
<1>3. PolishLoop'
    BY <1>1, <1>2, SameDecisions DEF PolishLoop
<1>4. RefineLoop'
    BY <1>1 DEF RefineLoop
<1>5. which' \in Halves
    BY <1>1, InAfterSeeding
<1> QED
    BY <1>1, <1>3, <1>4, <1>5, SameBooks

\* The slots that are polished get the centroids of vectors of their use.
LEMMA PolishedFits ==
    ASSUME InputInv, NEW w \in Halves, IsBook(w, books[w])
    PROVE  IsBook(w, Polished(w))
<1>1. PICK m \in Metrics : m = Metric /\ m = strip.metric
    BY TrainFacts DEF Metric
<1>2. PICK n \in Nat : n = strip.sizes[w]
    BY TrainFacts
<1>3. PICK E : E = Entries(m)
    OBVIOUS
<1>4. PICK b \in [1 .. n -> E] : b = books[w]
    BY <1>1, <1>2, <1>3 DEF IsBook
<1>5. strip.mbs \in Seq(Macroblocks(m))
    BY <1>1, InputParts DEF InputInv
<1>6. PICK N \in Nat : N = Len(strip.mbs) /\ DOMAIN strip.mbs = 1 .. N
    BY <1>5
<1>7. \A i \in 1 .. N : strip.mbs[i] \in Macroblocks(m)
    BY <1>5, <1>6
<1>8. \A i \in 1 .. N, k \in Luma : strip.mbs[i].v1 \in E /\ strip.mbs[i].v4[k] \in E
    BY <1>3, <1>7 DEF Macroblocks
<1>9. IsFiniteSet((1 .. N) \X Luma)
  <2>1. IsFiniteSet(1 .. N) /\ IsFiniteSet(Luma)
    <3>1. LumaDims \in Int
        BY <1>1, MetricParts
    <3> QED
        BY <3>1, FS_Interval DEF Luma
  <2> QED
      BY <2>1, FS_Product
<1> DEFINE vector(u) == IF w = "V4" THEN strip.mbs[u[1]].v4[u[2]] ELSE strip.mbs[u[1]].v1
<1>10. \A u \in (1 .. N) \X Luma : vector(u) \in E
    BY <1>8
<1> DEFINE of(s) == IF SetToSeq(Uses(w, s)) = <<>> THEN b[s]
                    ELSE Centroid([j \in DOMAIN SetToSeq(Uses(w, s)) |->
                                      vector(SetToSeq(Uses(w, s))[j])], m)
<1>11. Polished(w) = [s \in 1 .. n |-> of(s)]
    BY <1>1, <1>4 DEF Polished
<1>12. ASSUME NEW s \in 1 .. n PROVE of(s) \in E
  <2>1. PICK S : S = Uses(w, s) /\ S \subseteq (1 .. N) \X Luma
      BY <1>6 DEF Uses
  <2>2. IsFiniteSet(S)
      BY <1>9, <2>1, FS_Subset
  <2>3. PICK q \in Seq(S) : q = SetToSeq(S)
      BY <2>2, SetToSeqIs
  <2>4. PICK k \in Nat : k = Len(q) /\ DOMAIN q = 1 .. k /\ \A j \in 1 .. k : q[j] \in S
      BY <2>3
  <2>5. CASE q = <<>>
      BY <1>4, <2>1, <2>3, <2>5
  <2>6. CASE q # <<>>
    <3>1. PICK c : c = [j \in 1 .. k |-> vector(q[j])]
        OBVIOUS
    <3>2. \A j \in 1 .. k : vector(q[j]) \in E
        BY <1>10, <2>1, <2>4
    <3> HIDE DEF vector
    <3>3. c \in [1 .. k -> E]
        BY <3>1, <3>2
    <3>4. c \in Seq(E) /\ Len(c) = k
        BY <3>3
    <3>5. k # 0
        BY <2>3, <2>4, <2>6
    <3>6. c # <<>>
        BY <3>4, <3>5
    <3>7. Centroid(c, m) \in E
        BY <1>3, <3>4, <3>6, CentroidIsEntry
    <3>8. of(s) = Centroid(c, m)
        BY <2>1, <2>3, <2>4, <2>6, <3>1
    <3> QED
        BY <3>7, <3>8
  <2> QED
      BY <2>5, <2>6
<1> HIDE DEF of
<1>13. Polished(w) \in [1 .. n -> E]
    BY <1>11, <1>12
<1> QED
    BY <1>1, <1>2, <1>3, <1>13 DEF IsBook

\* A polish that changes a book classifies anew with it.
LEMMA PolishKeeps ==
    ASSUME TrainInv, Polish
    PROVE  TrainInv'
<1>1. /\ loop = "polish" /\ loop \in AfterSeeding /\ loop' \in AfterSeeding
      /\ UNCHANGED <<strip, opts, vectors, loop, which, cut>>
      /\ InputInv /\ PolishLoop
    BY DEF Polish, AfterSeeding, TrainInv
<1>2. DOMAIN books = Halves /\ which \in Halves /\ \A w \in Halves : IsBook(w, books[w])
    BY <1>1, InAfterSeeding
<1>3. PICK next : next = [V4 |-> Polished("V4"), V1 |-> Polished("V1")]
    OBVIOUS
<1>4. RefineLoop'
    BY <1>1 DEF RefineLoop
<1>5. CASE next = books
  <2>1. books' = books /\ decisions' = decisions /\ local' = [left |-> 0]
      BY <1>3, <1>5 DEF Polish
  <2>2. local'.left \in Nat
      BY <2>1
  <2>3. PolishLoop'
      BY <1>1, <2>1, <2>2, SameDecisions DEF PolishLoop
  <2> QED
      BY <1>1, <1>2, <1>4, <2>1, <2>3, SameBooks
<1>6. CASE next # books
  <2>1. /\ books' = next /\ decisions' = Classified(next)
        /\ local' = [left |-> local.left - 1]
      BY <1>3, <1>6 DEF Polish, Reclassified
  <2>2. local'.left \in Nat
    <3>1. local.left \in Nat /\ local.left > 0
        BY <1>1 DEF PolishLoop, Polish
    <3>2. PICK l \in Nat : l = local.left /\ l > 0
        BY <3>1
    <3>3. l - 1 \in Nat /\ local'.left = l - 1
        BY <2>1, <3>2
    <3> QED
        BY <3>3
  <2>3. decisions' = Classified(books)'
    <3>1. Classified(books)' = Classified(next)
      <4>1. strip' = strip /\ opts' = opts /\ books' = next
          BY <1>1, <2>1
      <4> QED
          BY <4>1, NewDecisions
    <3> QED
        BY <2>1, <3>1
  <2>4. PolishLoop'
      BY <1>1, <2>2, <2>3 DEF PolishLoop
  <2>5. DOMAIN books' = Halves /\ books'["V4"] = Polished("V4") /\ books'["V1"] = Polished("V1")
      BY <1>3, <2>1 DEF Halves
  <2>6. \A w \in Halves : IsBook(w, books[w])'
    <3> SUFFICES ASSUME NEW w \in Halves PROVE IsBook(w, books[w])'
        OBVIOUS
    <3>1. IsBook(w, Polished(w))
        BY <1>1, <1>2, PolishedFits
    <3>2. books'[w] = Polished(w)
        BY <2>5 DEF Halves
    <3> QED
        BY <1>1, <3>1, <3>2 DEF IsBook, Metric
  <2> QED
      BY <1>1, <1>2, <1>4, <2>4, <2>5, <2>6, RefiningStays
<1> QED
    BY <1>5, <1>6

\* After the last one, the decisions are those of the books.
LEMMA EndPolishKeeps ==
    ASSUME TrainInv, EndPolish
    PROVE  TrainInv'
<1>1. /\ loop = "polish" /\ loop' = "done" /\ loop \in AfterSeeding /\ loop' \in AfterSeeding
      /\ UNCHANGED <<strip, opts, vectors, which, cut, books, decisions>>
    BY DEF EndPolish, AfterSeeding
<1>2. decisions = Classified(books)
    BY <1>1 DEF TrainInv, PolishLoop
<1>3. PolishLoop'
    BY <1>1, <1>2, SameDecisions DEF PolishLoop
<1>4. RefineLoop'
    BY <1>1 DEF RefineLoop
<1>5. which' \in Halves
    BY <1>1, InAfterSeeding
<1> QED
    BY <1>1, <1>3, <1>4, <1>5, SameBooks

-----------------------------------------------------------------------------
\* The theorems.

\* Nothing is trained at the start.
LEMMA InitIsTrained ==
    ASSUME TrainInit
    PROVE  TrainInv
<1>1. /\ strip \in Strips /\ opts \in Tunings /\ vectors = Sampled(strip)
      /\ loop = "seeded" /\ which = "V4" /\ cut = Both(NoBook) /\ books = Both(NoBook)
    BY DEF TrainInit
<1>2. InputInv
    BY <1>1 DEF InputInv, Halves, Loops
<1>3. \A w \in Halves : ~Trained(w)
    BY <1>1 DEF Trained
<1>4. DOMAIN books = Halves /\ DOMAIN cut = Halves /\ \A w \in Halves : cut[w] = NoBook
    BY <1>1 DEF Both, Halves
<1>5. BooksFit /\ CutsFit /\ BooksAreGood
    BY <1>1, <1>3, <1>4 DEF BooksFit, CutsFit, BooksAreGood
<1>6. CutLoop /\ SpreadLoop /\ LloydLoop /\ RefineLoop /\ PolishLoop
    BY <1>1 DEF CutLoop, SpreadLoop, LloydLoop, RefineLoop, PolishLoop
<1> QED
    BY <1>2, <1>5, <1>6 DEF TrainInv

\* The invariant depends on the variables only.
LEMMA TrainStutters ==
    ASSUME TrainInv, UNCHANGED tVars
    PROVE  TrainInv'
<1>1. /\ strip' = strip /\ opts' = opts /\ vectors' = vectors /\ loop' = loop
      /\ which' = which /\ local' = local /\ cut' = cut /\ books' = books
      /\ decisions' = decisions
    BY DEF tVars
<1>2. /\ InputInv /\ BooksFit /\ CutsFit /\ BooksAreGood
      /\ CutLoop /\ SpreadLoop /\ LloydLoop /\ RefineLoop /\ PolishLoop
    BY DEF TrainInv
<1>3. Metric' = Metric /\ Size' = Size /\ Book' = Book /\ Population' = Population
      /\ (Warm' <=> Warm)
    BY <1>1 DEF Metric, Size, Book, Population, Warm
<1>4. InputInv'
    BY <1>1, <1>2 DEF InputInv
<1>5. BooksFit'
    BY <1>1, <1>2 DEF BooksFit, IsBook, Trained, Metric
<1>6. CutsFit'
    BY <1>1, <1>2 DEF CutsFit, IsBook, Trained, Metric, Warm
<1>7. BooksAreGood'
    BY <1>1, <1>2 DEF BooksAreGood, Trained, Good, Roomy, Metric
<1>8. CutLoop'
    BY <1>1, <1>2, <1>3 DEF CutLoop
<1>9. SpreadLoop'
    BY <1>1, <1>2 DEF SpreadLoop, Drawing, Metric, Size, Book, Population, Warm
<1>10. LloydLoop'
    BY <1>1, <1>2 DEF LloydLoop, Roomy, Metric, Size, Book, Population, Warm
<1>11. RefineLoop'
    BY <1>1, <1>2, <1>3 DEF RefineLoop
<1>12. PolishLoop'
    BY <1>1, <1>2, SameDecisions DEF PolishLoop
<1> QED
    BY <1>4, <1>5, <1>6, <1>7, <1>8, <1>9, <1>10, <1>11, <1>12 DEF TrainInv

\* The books that are trained are entries throughout, the state of each loop is
\* what it would be anew, and no loop makes a book worse than that of median cut.
THEOREM TrainingKeepsItsBooks == TrainSpec => []TrainInv
<1>1. TrainInit => TrainInv
    BY InitIsTrained
<1>2. TrainInv /\ [TrainNext]_tVars => TrainInv'
  <2> SUFFICES ASSUME TrainInv, [TrainNext]_tVars PROVE TrainInv'
      OBVIOUS
  <2>1. CASE StartWarm
      BY <2>1, StartWarmKeeps
  <2>2. CASE StartCold
      BY <2>2, StartColdKeeps
  <2>3. CASE Cut
      BY <2>3, CutKeeps
  <2>4. CASE EndCut
      BY <2>4, EndCutKeeps
  <2>5. CASE AddCentroid
      BY <2>5, AddCentroidKeeps
  <2>6. CASE EndSpread
      BY <2>6, EndSpreadKeeps
  <2>7. CASE Lloyd
      BY <2>7, LloydKeeps
  <2>8. CASE EndLloyd
      BY <2>8, EndLloydKeeps
  <2>9. CASE StartRefine
      BY <2>9, StartRefineKeeps
  <2>10. CASE Refine
      BY <2>10, RefineKeeps
  <2>11. CASE EndRefine
      BY <2>11, EndRefineKeeps
  <2>12. CASE Classify
      BY <2>12, ClassifyKeeps
  <2>13. CASE Polish
      BY <2>13, PolishKeeps
  <2>14. CASE EndPolish
      BY <2>14, EndPolishKeeps
  <2>15. CASE UNCHANGED tVars
      BY <2>15, TrainStutters
  <2> QED
      BY <2>1, <2>2, <2>3, <2>4, <2>5, <2>6, <2>7, <2>8, <2>9, <2>10, <2>11, <2>12,
         <2>13, <2>14, <2>15 DEF TrainNext
<1> QED
    BY <1>1, <1>2, PTL DEF TrainSpec

\* What the loops carry is what it would be anew.
THEOREM WhatIsCarriedIsFresh == TrainSpec => []CarriedIsFresh
<1>1. TrainInv => CarriedIsFresh
  <2> SUFFICES ASSUME TrainInv PROVE CarriedIsFresh
      OBVIOUS
  <2>1. PICK m \in Metrics : m = Metric /\ Population \in Seq(Entries(m))
      BY TrainFacts DEF TrainInv
  <2>2. CASE loop = "cut"
    <3>1. /\ local.cache = [i \in DOMAIN local.clusters |->
                               SplitScore(local.clusters[i], Metric)]
          /\ \A v \in Range(Population) :
               Cardinality(Places(Population, v)) = CountIn(local.clusters, v)
        BY <2>2 DEF TrainInv, CutLoop
    <3> QED
        BY <2>2, <3>1 DEF CarriedIsFresh, Places, CountIn
  <2>3. CASE loop = "spread"
    <3>1. /\ Drawing(Book)
          /\ local.d2 = [i \in DOMAIN Population |-> Nearest(Population[i], Book, m).err]
          /\ local.sum = TotalSse(Book, Population, Metric)
        BY <2>1, <2>3 DEF TrainInv, SpreadLoop
    <3>2. PICK b : b = Book
        OBVIOUS
    <3>3. PICK k \in Nat : k # 0 /\ k = Len(b) /\ b \in [1 .. k -> [Dims -> Int]]
      <4>1. Drawing(b)
          BY <3>1, <3>2
      <4> QED
          BY <2>1, <4>1, DrawingParts
    <3>4. \A i \in DOMAIN Population : Population[i] \in [Dims -> Int]
      <4>1. Population \in Seq([Dims -> Int])
          BY <2>1, <3>1, DrawingParts
      <4> QED
          BY <4>1
    <3>5. ASSUME NEW i \in DOMAIN Population
          PROVE  local.d2[i] = Min({Distance(Population[i], Book[s], Metric) : s \in DOMAIN Book})
      <4>1. PICK v \in [Dims -> Int] : v = Population[i]
          BY <3>4
      <4>2. Nearest(v, b, m).err = Min({Distance(v, b[t], m) : t \in 1 .. k})
        <5>1. k # 0 /\ b \in [1 .. k -> [Dims -> Int]]
            BY <3>3
        <5> QED
            BY <5>1, ErrIsLeast, Zenon
      <4>3. local.d2[i] = Nearest(v, b, m).err
          BY <3>1, <3>2, <4>1
      <4>4. DOMAIN b = 1 .. k
          BY <3>3
      <4> QED
          BY <2>1, <3>2, <4>1, <4>2, <4>3, <4>4
    <3> QED
        BY <2>3, <3>1, <3>5 DEF CarriedIsFresh
  <2>4. CASE loop = "lbg"
    <3>1. local = [left |-> local.left, scan |-> Scan(Population, Book, Metric)]
        BY <2>4 DEF TrainInv, RefineLoop
    <3>2. local.scan = Scan(Population, Book, Metric)
        BY <3>1
    <3> QED
        BY <2>4, <3>2 DEF CarriedIsFresh
  <2> QED
      BY <2>2, <2>3, <2>4 DEF CarriedIsFresh
<1> QED
    BY <1>1, TrainingKeepsItsBooks, PTL

\* Neither k-means++ nor LBG makes a cold codebook worse than that of median cut.
THEOREM NeverWorse == TrainSpec => []NeverWorseThanTheCut
<1>1. TrainInv => NeverWorseThanTheCut
    BY InAfterSeeding DEF AfterSeeding, NeverWorseThanTheCut, Good, Halves
<1> QED
    BY <1>1, TrainingKeepsItsBooks, PTL

\* With k-means++ and a slot for each vector, a cold codebook is exact.
THEOREM FewVectorsStayExact == TrainSpec => []FewVectorsAreExact
<1>1. TrainInv => FewVectorsAreExact
    BY InAfterSeeding DEF AfterSeeding, FewVectorsAreExact, Good, Roomy, Halves
<1> QED
    BY <1>1, TrainingKeepsItsBooks, PTL

\* The books hold entries: no average that a loop takes leaves the range of a u8
\* or an i8, and no split entry does.
THEOREM BooksHoldEntries == TrainSpec => []BooksFit
<1>1. TrainInv => BooksFit
    BY DEF TrainInv
<1> QED
    BY <1>1, TrainingKeepsItsBooks, PTL

\* The metric of colours chooses as that of the mode does.
LEMMA PicksAreFirst ==
    ASSUME NEW m \in Metrics, NEW n \in Nat, n # 0, NEW v \in Entries(m),
           NEW book \in [1 .. n -> Entries(m)],
           NEW near, near = m \/ near = [m EXCEPT !.mode = "Yuv12"]
    PROVE  FirstNearest(Nearest(v, book, near).slot, v, book, m)
<1>1. near \in Metrics /\ \A e \in Entries(m) : Distance(v, e, near) = Distance(v, e, m)
    BY ColoursOfGrays
<1>2. v \in [Dims -> Int] /\ book \in [1 .. n -> [Dims -> Int]]
  <2>1. \A e \in Entries(m) : e \in [Dims -> Int]
      BY EntryParts
  <2> QED
      BY <2>1
<1>3. PICK s : s = Nearest(v, book, near).slot
    OBVIOUS
<1>4. FirstNearest(s, v, book, near)
    BY <1>1, <1>2, <1>3, NearestIsFirst
<1>5. \A t \in 1 .. n : Distance(v, book[t], near) = Distance(v, book[t], m)
    BY <1>1
<1>6. DOMAIN book = 1 .. n
    OBVIOUS
<1> QED
    BY <1>3, <1>4, <1>5, <1>6 DEF FirstNearest

\* The forms that a decision has.
Decided(d, v4, v1) ==
    \/ d = [kind |-> "Skip", slots |-> <<>>]
    \/ d = [kind |-> "V1", slots |-> <<v1.slot>>]
    \/ d = [kind |-> "V4", slots |-> [k \in DOMAIN v4 |-> v4[k].slot]]

\* A decision has one of them.
LEMMA DecisionIs ==
    ASSUME NEW mb, NEW bs
    PROVE  Decided(Decision(mb, bs), PickV4(mb, bs), PickV1(mb, bs))
BY Zenon DEF Decision, Decided

\* Each vector that is coded has the first of its nearest entries in the books
\* that go into the strip.
THEOREM DecisionsFit == TrainSpec => []DecisionsFitTheBooks
<1>1. TrainInv => DecisionsFitTheBooks
  <2> SUFFICES ASSUME TrainInv, loop = "done", NEW i \in DOMAIN strip.mbs
               PROVE  LET mb == strip.mbs[i]  d == decisions[i] IN
                      /\ d.kind = "V4" => \A k \in DOMAIN mb.v4 :
                            IsFirstNearest(d.slots[k], mb.v4[k], books["V4"])
                      /\ d.kind = "V1" => IsFirstNearest(d.slots[1], mb.v1, books["V1"])
      BY DEF DecisionsFitTheBooks
  <2>1. PICK m \in Metrics : m = Metric /\ m = strip.metric
      BY TrainFacts DEF TrainInv, Metric
  <2>2. PICK mb \in Macroblocks(m) : mb = strip.mbs[i]
    <3>1. strip.mbs \in Seq(Macroblocks(m))
        BY <2>1, InputParts DEF TrainInv, InputInv
    <3> QED
        BY <3>1
  <2>3. PICK d : d = decisions[i] /\ d = Decision(mb, books)
    <3>1. decisions = Classified(books)
        BY DEF TrainInv, PolishLoop
    <3> QED
        BY <2>2, <3>1 DEF Classified
  <2>4. \A w \in Halves : IsBook(w, books[w])
      BY InAfterSeeding DEF AfterSeeding
  <2>5. PICK n4 \in Nat : n4 # 0 /\ books["V4"] \in [1 .. n4 -> Entries(m)]
      BY <2>1, <2>4, TrainFacts DEF TrainInv, IsBook, Halves
  <2>6. PICK n1 \in Nat : n1 # 0 /\ books["V1"] \in [1 .. n1 -> Entries(m)]
      BY <2>1, <2>4, TrainFacts DEF TrainInv, IsBook, Halves
  <2>7. DOMAIN mb.v4 = Luma /\ mb.v1 \in Entries(m) /\ \A k \in Luma : mb.v4[k] \in Entries(m)
      BY DEF Macroblocks
  <2>10. PICK v4, v1 :
            /\ v4 = PickV4(mb, books) /\ v1 = PickV1(mb, books)
            /\ v4 = [x \in DOMAIN mb.v4 |-> Nearest(mb.v4[x], books["V4"], ColourMetric)]
      BY DEF PickV4
  <2>11. \/ d = [kind |-> "Skip", slots |-> <<>>]
         \/ d = [kind |-> "V1", slots |-> <<v1.slot>>]
         \/ d = [kind |-> "V4", slots |-> [k \in DOMAIN v4 |-> v4[k].slot]]
    <3>1. Decided(Decision(mb, books), PickV4(mb, books), PickV1(mb, books))
        BY DecisionIs
    <3>2. Decided(d, v4, v1)
        BY <2>3, <2>10, <3>1
    <3> QED
        BY <3>2 DEF Decided
  <2>8. ASSUME d.kind = "V4", NEW k \in Luma
        PROVE  IsFirstNearest(d.slots[k], mb.v4[k], books["V4"])
    <3>1. d.slots = [x \in DOMAIN v4 |-> v4[x].slot]
        BY <2>11, <2>8
    <3>2. PICK v \in Entries(m) : v = mb.v4[k]
        BY <2>7
    <3>3. PICK near : near = ColourMetric /\ near = [m EXCEPT !.mode = "Yuv12"]
        BY <2>1 DEF ColourMetric
    <3>4. d.slots[k] = Nearest(v, books["V4"], near).slot
        BY <2>7, <2>10, <3>1, <3>2, <3>3
    <3>5. FirstNearest(Nearest(v, books["V4"], near).slot, v, books["V4"], m)
        BY <2>5, <3>3, PicksAreFirst
    <3> QED
        BY <2>1, <3>2, <3>4, <3>5 DEF FirstNearest, IsFirstNearest
  <2>9. ASSUME d.kind = "V1"
        PROVE  IsFirstNearest(d.slots[1], mb.v1, books["V1"])
    <3>1. d.slots = <<v1.slot>>
        BY <2>11, <2>9
    <3>4. d.slots[1] = Nearest(mb.v1, books["V1"], m).slot
      <4>1. v1 = Nearest(mb.v1, books["V1"], m)
          BY <2>1, <2>10 DEF PickV1
      <4>2. d.slots[1] = v1.slot
          BY <3>1
      <4> QED
          BY <4>1, <4>2
    <3>2. PICK v \in Entries(m) : v = mb.v1
        BY <2>7
    <3>3. FirstNearest(Nearest(v, books["V1"], m).slot, v, books["V1"], m)
        BY <2>6, PicksAreFirst
    <3> QED
        BY <2>1, <3>2, <3>3, <3>4 DEF FirstNearest, IsFirstNearest
  <2> QED
      BY <2>2, <2>3, <2>7, <2>8, <2>9
<1> QED
    BY <1>1, TrainingKeepsItsBooks, PTL

=============================================================================
