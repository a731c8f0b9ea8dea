----------------------------- MODULE RateControl -----------------------------
(***************************************************************************)
(* The bitrate budget of the encoder.  In target-bitrate mode a call of    *)
(* encode_intra or encode_inter sweeps a grid of options: every candidate  *)
(* is encoded from a snapshot of the encoder's state, the best one that    *)
(* fits the budget is encoded again from the snapshot and returned.  Two   *)
(* byte accounts carry what a frame left or overspent to later frames.     *)
(*                                                                         *)
(* A candidate is named by its position in the grid, and 0 names the       *)
(* options of the caller.  What an encode yields, a length and a           *)
(* distortion or an error, is left open, but it is the same each time the  *)
(* same candidate is encoded from the same state.                          *)
(***************************************************************************)
EXTENDS Integers, Sequences

CONSTANTS
    Qualities,  \* the values of (rdo_lambda, luma_weight) taken together
    Axis,       \* for each the values to sweep, its own the first
    Requests,   \* the strip counts a caller may ask for
    Rows,       \* the rows of macroblocks of the frames
    Lens,       \* the lengths of encoded frames
    Sses,       \* the distortions of encoded frames
    Budgets,    \* the arguments of set_target_frame_bytes
    Caps,       \* the arguments of set_carry_over_cap_bytes
    MaxCount,   \* the largest u64 and usize
    None

ASSUME RateAssumption ==
    /\ Axis \in [Qualities -> Seq(Qualities) \ {<<>>}]
    /\ Requests \subseteq Nat \ {0}
    /\ Rows \in Nat \ {0}
    /\ MaxCount \in Nat
    /\ Lens \subseteq 1 .. MaxCount
    /\ Sses \subseteq Nat
    /\ Budgets \subseteq 0 .. MaxCount
    /\ Caps \subseteq 0 .. MaxCount
    /\ None \notin Nat

Options == [strips : Nat \ {0}, vintage : BOOLEAN, quality : Qualities]

\* The options that validate_opts lets through.
Valid == {o \in [strips : Requests, vintage : BOOLEAN, quality : Qualities] :
             o.vintage => o.strips <= 3}

Outcome == [len : Lens, sse : Sses]

\* What is recorded of a trial that succeeded: the state it started from, as
\* the encodes that led there, and its outcome.
Record == [from : Seq(Nat), got : Outcome]

\* The best fitting and the smallest candidate, with their positions.
Fit == [sse : Sses, len : Lens, at : Nat]

Small == [len : Lens, at : Nat]

Return == [at : Nat, opts : Options, got : Outcome]

ASSUME NoneAssumption ==
    None \notin Options \cup Outcome \cup Record \cup Fit \cup Small \cup Return

VARIABLES
    target,     \* self.target_frame_bytes
    cap,        \* self.carry_over_cap_bytes
    cumTarget,  \* self.cumulative_target_bytes
    cumActual,  \* self.cumulative_actual_bytes
    stats,      \* self.last_rate_stats, reduced to within_effective_budget
    carry,      \* the encodes that made self's carry-over state what it is,
                \* counted from the start of the running or last call
    base,       \* the options of the running call
    budget,     \* effective_budget of that call
    results,    \* the outcomes of the trials so far, in grid order, with the
                \* state each one started from
    bestFit,    \* best_fit
    smallest,   \* smallest
    returned    \* history: the candidate, options and outcome of the last call,
                \* if it returned a frame

config == <<target, cap>>
accounts == <<cumTarget, cumActual, stats>>
sweep == <<base, budget, results, bestFit, smallest>>
vars == <<config, accounts, carry, sweep, returned>>

Lesser(a, b) == IF a <= b THEN a ELSE b

\* u64::saturating_add.
SatAdd(a, b) == Lesser(a + b, MaxCount)

ClearSweep ==
    /\ base' = None
    /\ budget' = 0
    /\ results' = <<>>
    /\ bestFit' = None
    /\ smallest' = None

Init ==
    /\ target = None
    /\ cap = None
    /\ cumTarget = 0
    /\ cumActual = 0
    /\ stats = None
    /\ carry = <<>>
    /\ base = None
    /\ budget = 0
    /\ results = <<>>
    /\ bestFit = None
    /\ smallest = None
    /\ returned = None

Idle == base = None

-----------------------------------------------------------------------------
\* The configuration.

ClearAccounts ==
    /\ cumTarget' = 0
    /\ cumActual' = 0

\* set_target_frame_bytes and set_target_bitrate.
SetTarget ==
    /\ Idle
    /\ \E b \in Budgets :
         /\ target' = b
         /\ cap' = Lesser(8 * b, MaxCount)
    /\ ClearAccounts
    /\ UNCHANGED <<stats, carry, sweep, returned>>

ClearTarget ==
    /\ Idle
    /\ target' = None
    /\ cap' = None
    /\ stats' = None
    /\ ClearAccounts
    /\ UNCHANGED <<carry, sweep, returned>>

\* set_carry_over_cap_bytes and clear_carry_over_cap_bytes.
SetCap ==
    /\ Idle
    /\ cap' \in Caps \cup {None}
    /\ UNCHANGED <<target, accounts, carry, sweep, returned>>

ResetCarryOver ==
    /\ Idle
    /\ ClearAccounts
    /\ UNCHANGED <<config, stats, carry, sweep, returned>>

\* reset() keeps the target and the cap.
Reset ==
    /\ Idle
    /\ stats' = None
    /\ carry' = <<>>
    /\ returned' = None
    /\ ClearAccounts
    /\ UNCHANGED <<config, sweep>>

-----------------------------------------------------------------------------
\* One frame.

\* budget_grid_candidates: strip counts first, then the quality axis.
ForStrips(b, n) ==
    [i \in 1 .. Len(Axis[b.quality]) |->
        [strips |-> n, vintage |-> b.vintage, quality |-> Axis[b.quality][i]]]

Grid(b) == ForStrips(b, 1) \o ForStrips(b, 2) \o ForStrips(b, 4)

OptionsAt(b, i) == IF i = 0 THEN b ELSE Grid(b)[i]

\* Mutant of Surplus: the account is capped from below instead of above.
SurplusFromBelow ==
    LET left == cumTarget - cumActual IN
    IF left >= 0 THEN left ELSE IF cap # None THEN 0 - Lesser(0 - left, cap) ELSE left

\* What is carried over: capped when it is a surplus, in full when a deficit.
Surplus ==
    LET left == cumTarget - cumActual IN
    IF left >= 0 /\ cap # None THEN Lesser(left, cap) ELSE left

EffectiveBudget ==
    IF target = MaxCount THEN MaxCount
    ELSE IF target + Surplus <= 0 THEN 0
    ELSE Lesser(target + Surplus, MaxCount)

\* A frame without a target: one encode with the options of the caller, which
\* may fail and leave the state anywhere.
PlainFrame ==
    /\ Idle
    /\ target = None
    /\ carry' = <<0>>
    /\ \/ returned' = None
       \/ \E b \in Valid, r \in Outcome : returned' = [at |-> 0, opts |-> b, got |-> r]
    /\ UNCHANGED <<config, accounts, sweep>>

\* encode_budget_frame up to the sweep.
BeginFrame ==
    /\ Idle
    /\ target # None
    /\ base' \in Valid
    /\ budget' = EffectiveBudget
    /\ carry' = <<>>
    /\ returned' = None
    /\ UNCHANGED <<config, accounts, results, bestFit, smallest>>

\* Mutant of Restored: the trials go on from each other.
NotRestored == carry

\* restore_state: the state at the start of the call.
Restored == <<>>

Fits(len) == len <= budget

\* Mutant of Better: the last of the fitting candidates is taken.
BetterLatest(r) == TRUE

\* Lower distortion, and of equal distortion the shorter.
Better(r) ==
    \/ bestFit = None
    \/ r.sse < bestFit.sse
    \/ r.sse = bestFit.sse /\ r.len < bestFit.len

\* A trial: the next candidate is encoded from the snapshot.  One that fails
\* is skipped, having left the state anywhere.
Trial ==
    /\ ~Idle
    /\ Len(results) < Len(Grid(base))
    /\ LET i == Len(results) + 1 IN
         /\ carry' = Append(Restored, i)
         /\ \E r \in Outcome \cup {None} :
              /\ results' = Append(results,
                     IF r = None THEN None ELSE [from |-> Restored, got |-> r])
              /\ smallest' = IF r # None /\ (smallest = None \/ r.len < smallest.len)
                             THEN [len |-> r.len, at |-> i] ELSE smallest
              /\ bestFit' = IF r # None /\ Fits(r.len) /\ Better(r)
                            THEN [sse |-> r.sse, len |-> r.len, at |-> i] ELSE bestFit
    /\ UNCHANGED <<config, accounts, base, budget, returned>>

Winner == IF bestFit # None THEN bestFit.at ELSE smallest.at

\* The accounts credit the base budget, not the effective one.
Pay(len) ==
    /\ cumTarget' = SatAdd(cumTarget, target)
    /\ cumActual' = SatAdd(cumActual, len)

\* What an encode of candidate i yields: from the same state the same.
Replay(i) == IF results[i].from = Restored THEN {results[i].got} ELSE Outcome

\* The winner is encoded again from the snapshot and returned.
Commit ==
    /\ ~Idle
    /\ Len(results) = Len(Grid(base))
    /\ smallest # None
    /\ carry' = Append(Restored, Winner)
    /\ \E r \in Replay(Winner) :
         /\ returned' = [at |-> Winner, opts |-> OptionsAt(base, Winner), got |-> r]
         /\ Pay(r.len)
         /\ stats' = [within |-> r.len <= budget]
    /\ ClearSweep
    /\ UNCHANGED config

\* No candidate succeeded: the options of the caller are tried as they are.  A
\* frame that this yields is not put on the accounts.
Fallback ==
    /\ ~Idle
    /\ Len(results) = Len(Grid(base))
    /\ smallest = None
    /\ carry' = Append(Restored, 0)
    /\ \/ returned' = None
       \/ \E r \in Outcome : returned' = [at |-> 0, opts |-> base, got |-> r]
    /\ ClearSweep
    /\ UNCHANGED <<config, accounts>>

Next ==
    \/ SetTarget
    \/ ClearTarget
    \/ SetCap
    \/ ResetCarryOver
    \/ Reset
    \/ PlainFrame
    \/ BeginFrame
    \/ Trial
    \/ Commit
    \/ Fallback

Spec == Init /\ [][Next]_vars

-----------------------------------------------------------------------------

\* Every variable has its type; the byte accounts are u64 (struct
\* CinepakEncoder, the locals of encode_budget_frame).
TypeOK ==
    /\ target \in (0 .. MaxCount) \cup {None}
    /\ cap \in (0 .. MaxCount) \cup {None}
    /\ cumTarget \in 0 .. MaxCount
    /\ cumActual \in 0 .. MaxCount
    /\ stats \in [within : BOOLEAN] \cup {None}
    /\ carry \in Seq(Nat)
    /\ base \in Options \cup {None}
    /\ base # None => target # None
    /\ budget \in 0 .. MaxCount
    /\ results \in Seq(Record \cup {None})
    /\ bestFit \in Fit \cup {None}
    /\ smallest \in Small \cup {None}
    /\ returned \in Return \cup {None}

\* The carry-over state after a call that returned a frame is that frame's own:
\* exactly one encode away from the state before the call, whatever was tried
\* or failed in between (snapshot_state, restore_state).
ReturnedFrameIsCarried == returned # None => carry = <<returned.at>>

\* The trials that succeeded, and those that fit the budget.
Succeeded == {i \in 1 .. Len(results) : results[i] # None}

Fitting == {i \in Succeeded : results[i].got.len <= budget}

\* Of two outcomes the one with less distortion, or the shorter of equal ones.
NoWorse(r, other) == r.sse < other.sse \/ (r.sse = other.sse /\ r.len <= other.len)

\* The frame that the sweep returns is the best of its trials: one that fits,
\* no worse than any other that does, and if none fits the shortest.  It is
\* the frame of the second encode that is compared with the trials of the
\* first (encode_budget_frame).
BestThatFits ==
    [][Commit =>
        LET r == returned'.got IN
        IF Fitting # {}
        THEN r.len <= budget /\ \A i \in Fitting : NoWorse(r, results[i].got)
        ELSE \A i \in Succeeded : r.len <= results[i].got.len]_vars

\* The accounts converge: a frame that fits its effective budget leaves no
\* deficit, so that at whatever point such a frame is returned the sequence as
\* a whole is within the target, also after frames that overshot and with
\* accounts that have saturated (cumulative_target_bytes).
FittingFrameLeavesNoDeficit ==
    [][(Commit /\ stats'.within) => cumActual' <= cumTarget']_vars

\* "Strip count <= 3 ... enforced when true", says vintage_compat of frames:
\* so is every frame that is returned for such options.
VintageFramesHaveThreeStrips ==
    (returned # None /\ returned.opts.vintage) => Lesser(returned.opts.strips, Rows) <= 3

=============================================================================
