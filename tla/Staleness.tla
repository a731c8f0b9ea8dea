----------------------------- MODULE Staleness -----------------------------
(***************************************************************************)
(* The recycling of codebook slots that no macroblock refers to any more.  *)
(* RollingCodebooks counts for every slot the inter frames since it was    *)
(* last referred to; a strip whose counter is above a threshold may give   *)
(* the slot a new centroid.  Keyframes, which the router schedules or the  *)
(* caller asks for, reset the counters.                                    *)
(*                                                                         *)
(* One codebook flavour; the other one is treated alike.  What the pixels  *)
(* decide, the slots that the macroblocks refer to and how many outliers   *)
(* there are to put into stale slots, is left open.                        *)
(***************************************************************************)
EXTENDS GopRouter, FiniteSets

CONSTANTS
    NumSlots,    \* the slots of the codebook: 256
    Counts,      \* the values of opts.v4_entries
    StripCounts, \* the strips of a frame
    Threshold,   \* opts.stale_slot_threshold
    MaxStale     \* the counters saturate here: u16::MAX

ASSUME StalenessAssumption ==
    /\ NumSlots \in Nat
    /\ Counts \subseteq 1 .. NumSlots
    /\ StripCounts \subseteq Nat \ {0}
    /\ Threshold \in Nat /\ MaxStale \in Nat
    /\ Threshold < MaxStale

Slots == 0 .. NumSlots - 1

VARIABLES
    stale,      \* self.rolling.v4_stale
    count,      \* self.rolling.v4: its entry count, or None
    reclaimed,  \* history: the slots that the last call reclaimed
    idle,       \* history: the inter frames since a slot was referred to or reclaimed
    stray       \* history: since the last keyframe, one of them was not routed

staleVars == <<stale, count, reclaimed, idle, stray>>

Fresh == [s \in Slots |-> 0]

StaleInit ==
    /\ Init
    /\ stale = Fresh /\ count = None /\ reclaimed = {}
    /\ idle = Fresh /\ stray = FALSE

Bump(n) == IF n < MaxStale THEN n + 1 ELSE n

-----------------------------------------------------------------------------

\* Mutant of StaleSlots: reclaimed at the threshold.
StaleSlotsAtThreshold(st, n) ==
    IF st.count = n THEN {s \in 0 .. n - 1 : st.stale[s] >= Threshold} ELSE {}

\* The slots that a strip may reclaim: there is a seed, which has the entry
\* count of the call.
StaleSlots(st, n) ==
    IF st.count = n THEN {s \in 0 .. n - 1 : st.stale[s] > Threshold} ELSE {}

\* The stale slots are filled from the lowest, as far as the outliers go.
Lowest(S, k) == {s \in S : Cardinality({t \in S : t < s}) < k}

Reset0(f, S) == [s \in Slots |-> IF s \in S THEN 0 ELSE f[s]]

\* encode_inter_strip_with_stats: k slots at most are reclaimed; whatever chunk
\* it emits, the strip leaves a codebook of n entries.
StripEffect(st, n, k) ==
    LET slots == Lowest(StaleSlots(st, n), k)
    IN  [stale |-> Reset0(st.stale, slots), count |-> n,
         reclaimed |-> st.reclaimed \cup slots]

\* The first m strips of a frame, which find ks[1], ks[2], ... outliers.
AfterStrips(n, ks, m) ==
    LET f[i \in 0 .. m] ==
            IF i = 0 THEN [stale |-> stale, count |-> count, reclaimed |-> {}]
            ELSE StripEffect(f[i - 1], n, ks[i])
    IN  f[m]

\* update_staleness.
Counted(f, n, used) ==
    [s \in Slots |-> IF s >= n THEN f[s] ELSE IF s \in used THEN 0 ELSE Bump(f[s])]

\* All strips of an inter frame, and then, once, the counters of the slots that
\* none or any of them refers to.
EncodeInter ==
    \E n \in Counts, m \in StripCounts :
      \E used \in SUBSET (0 .. n - 1), ks \in [1 .. m -> 0 .. n] :
        LET after == AfterStrips(n, ks, m)
        IN  /\ stale' = Counted(after.stale, n, used)
            /\ count' = n
            /\ reclaimed' = after.reclaimed
            /\ idle' = [s \in Slots |-> IF s \in used THEN 0
                                        ELSE IF s \in after.reclaimed THEN 1
                                        ELSE Bump(idle[s])]

\* Mutant of FreshAtKey: a keyframe keeps the counters.
FreshAtKeyNever == stale

FreshAtKey == Fresh

\* An intra frame starts from RollingCodebooks::default().
EncodeIntra ==
    /\ stale' = FreshAtKey
    /\ count' \in Counts
    /\ reclaimed' = {}
    /\ idle' = Fresh
    /\ stray' = FALSE

\* An inter frame that fails in its j-th strip: finalise_strip refuses it when
\* its reclaimed slots are reset; the counters are not updated.
EncodeInterPart ==
    \E n \in Counts, m \in StripCounts :
      \E j \in 1 .. m :
        \E ks \in [1 .. j -> 0 .. n] :
          LET after == AfterStrips(n, ks, j)
          IN  /\ stale' = after.stale
              /\ count' = after.count
              /\ reclaimed' = after.reclaimed
              /\ idle' = Reset0(idle, after.reclaimed)
              /\ UNCHANGED stray

-----------------------------------------------------------------------------

Untouched == reclaimed' = {} /\ UNCHANGED <<stale, count, idle, stray>>

RoutedIntra == RouteIntra /\ EncodeIntra

CallersIntra == DirectIntra /\ EncodeIntra

RoutedInter == RouteInter /\ EncodeInter /\ UNCHANGED stray

CallersInter == DirectInter /\ EncodeInter /\ stray' = TRUE

\* The call fails before the encoder gets to work, in a strip of a keyframe, in
\* a strip of an inter frame, or once all its strips are encoded.
Fails ==
    /\ RouteFails
    /\ \/ Untouched
       \/ interval # None /\ EncodeIntra
       \/ prev # None /\ interval # None /\ EncodeInterPart
       \/ prev # None /\ interval # None /\ EncodeInter /\ stray' = TRUE

\* The calls that do not encode; reset() drops the rolling codebooks.
Setup ==
    \/ (SetKeyframeInterval \/ ClearKeyframeInterval \/ ForceNextKeyframe)
       /\ Untouched
    \/ Reset /\ stale' = Fresh /\ count' = None /\ reclaimed' = {}
             /\ idle' = Fresh /\ stray' = FALSE

StaleNext == RoutedIntra \/ CallersIntra \/ RoutedInter \/ CallersInter \/ Fails \/ Setup

StaleSpec == StaleInit /\ [][StaleNext]_<<vars, staleVars>>

-----------------------------------------------------------------------------

\* A slot is reclaimed only when more than the threshold of inter frames in a
\* row did not refer to it, in any of their strips, however the entry counts
\* of the calls change, calls fail and keyframes come in between
\* (reclaim_stale_slots_v4, update_staleness, reset_staleness).
ReclaimsIdleSlots ==
    [][\A s \in reclaimed' : idle[s] > Threshold]_<<vars, staleVars>>

\* A group of pictures shorter than the threshold and two more reclaims
\* nothing: the default of 8 leaves groups of ten frames alone.
ShortGroupsReclaimNothing ==
    [][(RouteInter /\ ~stray /\ interval <= Threshold + 2) =>
         reclaimed' = {}]_<<vars, staleVars>>

=============================================================================
