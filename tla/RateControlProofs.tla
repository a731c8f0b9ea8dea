-------------------------- MODULE RateControlProofs --------------------------
(***************************************************************************)
(* Proofs about RateControl.  The invariant adds to the types what the     *)
(* sweep knows of the trials so far, the loop invariant of                 *)
(* encode_budget_frame: `smallest' is a shortest success, `bestFit' a best *)
(* fitting one, and all trials started from the snapshot.                  *)
(***************************************************************************)
EXTENDS RateControl, TLAPS

\* Between calls the locals of the sweep are clear; during one the budget is
\* that of the accounts, which the trials do not touch.
SweepScope ==
    /\ base = None => results = <<>> /\ bestFit = None /\ smallest = None
    /\ base # None => /\ Len(results) <= Len(Grid(base))
                      /\ returned = None
                      /\ budget = EffectiveBudget

SmallestIsShortest ==
    /\ smallest = None <=> Succeeded = {}
    /\ smallest # None =>
           /\ smallest.at \in Succeeded
           /\ smallest.len = results[smallest.at].got.len
           /\ \A i \in Succeeded : smallest.len <= results[i].got.len

BestFitIsBest ==
    /\ bestFit = None <=> Fitting = {}
    /\ bestFit # None =>
           /\ bestFit.at \in Fitting
           /\ bestFit.len = results[bestFit.at].got.len
           /\ bestFit.sse = results[bestFit.at].got.sse
           /\ \A i \in Fitting : NoWorse(bestFit, results[i].got)

TrialsStartAlike == \A i \in Succeeded : results[i].from = <<>>

RateInv ==
    /\ TypeOK
    /\ SweepScope
    /\ SmallestIsShortest
    /\ BestFitIsBest
    /\ TrialsStartAlike
    /\ ReturnedFrameIsCarried

-----------------------------------------------------------------------------

\* A valid choice of the caller is a choice of options.
LEMMA ValidOptions == Valid \subseteq Options
  BY RateAssumption DEF Valid, Options

\* The candidates of one strip count, at least one of them.
LEMMA ForStripsType ==
    ASSUME NEW b \in Options, NEW n \in Nat \ {0}
    PROVE  ForStrips(b, n) \in Seq(Options) /\ Len(ForStrips(b, n)) \in Nat \ {0}
<1> DEFINE A == Axis[b.quality]
<1>1. A \in Seq(Qualities) /\ A # <<>>
    BY RateAssumption DEF Options
<1>2. Len(A) \in Nat \ {0}
    BY <1>1
<1>3. \A i \in 1 .. Len(A) : [strips |-> n, vintage |-> b.vintage, quality |-> A[i]] \in Options
    BY <1>1 DEF Options
<1>4. ForStrips(b, n) = [i \in 1 .. Len(A) |-> [strips |-> n, vintage |-> b.vintage, quality |-> A[i]]]
    BY DEF ForStrips
<1> HIDE DEF A
<1>5. ForStrips(b, n) \in [1 .. Len(A) -> Options]
    BY <1>3, <1>4
<1> QED
    BY <1>2, <1>5

\* The grid is a sequence of options, at least one of them.
LEMMA GridType ==
    ASSUME NEW b \in Options
    PROVE  Grid(b) \in Seq(Options) /\ Len(Grid(b)) \in Nat \ {0}
<1> DEFINE F(n) == ForStrips(b, n)
<1>1. \A n \in {1, 2, 4} : F(n) \in Seq(Options) /\ Len(F(n)) \in Nat \ {0}
    BY ForStripsType
<1>2. Grid(b) = F(1) \o F(2) \o F(4)
    BY DEF Grid
<1> HIDE DEF F
<1> QED
    BY <1>1, <1>2

\* Adding to an account stays within the width of the account.
LEMMA SatAddType ==
    ASSUME NEW a \in Nat, NEW b \in Nat
    PROVE  SatAdd(a, b) \in 0 .. MaxCount
  BY RateAssumption DEF SatAdd, Lesser

\* The effective budget is a usize.
LEMMA EffectiveBudgetType ==
    ASSUME TypeOK, target # None
    PROVE  EffectiveBudget \in 0 .. MaxCount
<1>1. target \in 0 .. MaxCount /\ cumTarget \in Nat /\ cumActual \in Nat
    BY DEF TypeOK
<1>2. cap # None => cap \in Nat
    BY DEF TypeOK
<1>3. Surplus \in Int
    BY <1>1, <1>2 DEF Surplus, Lesser
<1> QED
    BY <1>1, <1>3, RateAssumption DEF EffectiveBudget, Lesser

\* A new encoder satisfies the invariant.
LEMMA InitRateInv == Init => RateInv
<1> SUFFICES ASSUME Init PROVE RateInv
    OBVIOUS
<1>1. TypeOK
    BY RateAssumption DEF Init, TypeOK
<1>2. Succeeded = {} /\ Fitting = {}
    BY DEF Init, Succeeded, Fitting
<1> QED
    BY <1>1, <1>2 DEF Init, RateInv, SweepScope, SmallestIsShortest, BestFitIsBest,
                      TrialsStartAlike, ReturnedFrameIsCarried

\* Between calls: no trials, whatever the configuration becomes.
LEMMA QuietPreserves ==
    ASSUME RateInv, Idle, TypeOK', UNCHANGED sweep, ReturnedFrameIsCarried'
    PROVE  RateInv'
<1>1. SweepScope' /\ TrialsStartAlike' /\ BestFitIsBest' /\ SmallestIsShortest'
    BY DEF RateInv, Idle, sweep, SweepScope, SmallestIsShortest, BestFitIsBest,
           TrialsStartAlike, Succeeded, Fitting, NoWorse
<1> QED
    BY <1>1 DEF RateInv

\* The calls that configure the budget or reset the accounts.
LEMMA ConfigurePreserves ==
    ASSUME RateInv,
           SetTarget \/ ClearTarget \/ SetCap \/ ResetCarryOver \/ Reset \/ PlainFrame
    PROVE  RateInv'
<1>0. Idle /\ UNCHANGED sweep
    BY DEF SetTarget, ClearTarget, SetCap, ResetCarryOver, Reset, PlainFrame
<1>1. ReturnedFrameIsCarried'
    BY DEF RateInv, ReturnedFrameIsCarried, SetTarget, ClearTarget, SetCap,
           ResetCarryOver, Reset, PlainFrame
<1>2. TypeOK'
  <2>1. CASE SetTarget
    <3>1. PICK b \in Budgets : target' = b /\ cap' = Lesser(8 * b, MaxCount)
        BY <2>1 DEF SetTarget
    <3>2. target' \in 0 .. MaxCount /\ cap' \in 0 .. MaxCount
        BY <3>1, RateAssumption DEF Lesser
    <3> QED
        BY <2>1, <3>2, RateAssumption
        DEF SetTarget, ClearAccounts, RateInv, TypeOK, sweep
  <2>2. CASE ClearTarget
    BY <2>2, RateAssumption
    DEF ClearTarget, ClearAccounts, RateInv, TypeOK, sweep, Idle
  <2>3. CASE SetCap
    BY <2>3, RateAssumption DEF SetCap, RateInv, TypeOK, accounts, sweep
  <2>4. CASE ResetCarryOver
    BY <2>4, RateAssumption
    DEF ResetCarryOver, ClearAccounts, RateInv, TypeOK, config, sweep
  <2>5. CASE Reset
    BY <2>5, RateAssumption DEF Reset, ClearAccounts, RateInv, TypeOK, config, sweep
  <2>6. CASE PlainFrame
    <3>1. returned' \in Return \cup {None}
        BY <2>6, ValidOptions DEF PlainFrame, Return
    <3>2. carry' \in Seq(Nat)
        BY <2>6 DEF PlainFrame
    <3> QED
        BY <2>6, <3>1, <3>2 DEF PlainFrame, RateInv, TypeOK, config, accounts, sweep
  <2> QED
    BY <2>1, <2>2, <2>3, <2>4, <2>5, <2>6
<1> QED
    BY <1>0, <1>1, <1>2, QuietPreserves

\* A sweep begins with no trial and the budget of the accounts.
LEMMA BeginFramePreserves ==
    ASSUME RateInv, BeginFrame
    PROVE  RateInv'
<1>1. base' \in Options /\ target # None /\ UNCHANGED <<target, cap, cumTarget, cumActual>>
    BY ValidOptions DEF BeginFrame, config, accounts
<1>2. budget' = EffectiveBudget /\ EffectiveBudget' = EffectiveBudget
    BY <1>1 DEF BeginFrame, EffectiveBudget, Surplus
<1>3. budget' \in 0 .. MaxCount
    BY <1>1, <1>2, EffectiveBudgetType DEF RateInv
<1>4. results' = <<>> /\ bestFit' = None /\ smallest' = None /\ returned' = None
    BY DEF BeginFrame, RateInv, SweepScope, Idle
<1>5. TypeOK'
    BY <1>1, <1>3, <1>4 DEF BeginFrame, RateInv, TypeOK, config, accounts
<1>6. Succeeded' = {} /\ Fitting' = {}
    BY <1>4 DEF Succeeded, Fitting
<1>7. Len(results') <= Len(Grid(base'))
    BY <1>1, <1>4, GridType
<1> QED
    BY <1>2, <1>4, <1>5, <1>6, <1>7
    DEF RateInv, SweepScope, SmallestIsShortest, BestFitIsBest, TrialsStartAlike,
        ReturnedFrameIsCarried

\* A trial keeps the loop invariant of the sweep.
LEMMA TrialPreserves ==
    ASSUME RateInv, Trial
    PROVE  RateInv'
<1> DEFINE n == Len(results)
           i == n + 1
<1>1. PICK r \in Outcome \cup {None} :
        /\ results' = Append(results,
               IF r = None THEN None ELSE [from |-> Restored, got |-> r])
        /\ smallest' = IF r # None /\ (smallest = None \/ r.len < smallest.len)
                       THEN [len |-> r.len, at |-> i] ELSE smallest
        /\ bestFit' = IF r # None /\ Fits(r.len) /\ Better(r)
                      THEN [sse |-> r.sse, len |-> r.len, at |-> i] ELSE bestFit
    BY DEF Trial
<1>2. /\ carry' = <<i>>
      /\ UNCHANGED <<target, cap, cumTarget, cumActual, stats, base, budget, returned>>
      /\ base # None
      /\ n < Len(Grid(base))
    BY DEF Trial, Restored, config, accounts, Idle
<1> DEFINE e == IF r = None THEN None ELSE [from |-> <<>>, got |-> r]
<1>3. results \in Seq(Record \cup {None}) /\ n \in Nat /\ budget \in Nat
    BY DEF RateInv, TypeOK
<1>4. e \in Record \cup {None} /\ (e = None <=> r = None)
  <2>1. CASE r = None
    BY <2>1
  <2>2. CASE r # None
    <3>1. [from |-> <<>>, got |-> r] \in Record
        BY <2>2, <1>1 DEF Record
    <3> QED
        BY <2>2, <3>1, NoneAssumption
  <2> QED
    BY <2>1, <2>2
<1>5. results' = Append(results, e)
    BY <1>1 DEF Restored
<1>6. results' \in Seq(Record \cup {None}) /\ Len(results') = i
    BY <1>3, <1>4, <1>5
<1>7. \A j \in 1 .. n : results'[j] = results[j]
    BY <1>3, <1>4, <1>5
<1>8. results'[i] = e
    BY <1>3, <1>4, <1>5
<1>9. Succeeded' = (IF r = None THEN Succeeded ELSE Succeeded \cup {i})
    BY <1>3, <1>4, <1>6, <1>7, <1>8 DEF Succeeded
<1>10. Succeeded \subseteq 1 .. n /\ Fitting \subseteq Succeeded
    BY DEF Succeeded, Fitting
<1>11. r # None => r \in Outcome /\ e.got = r /\ e.from = <<>>
    BY <1>1
<1> HIDE DEF e
<1>12. Fitting' = (IF r # None /\ r.len <= budget THEN Fitting \cup {i} ELSE Fitting)
    BY <1>2, <1>3, <1>7, <1>8, <1>9, <1>10, <1>11 DEF Fitting
<1>a. /\ \A j \in Succeeded : results[j].got.len \in Nat /\ results[j].got.sse \in Nat
      /\ r # None => r.len \in Nat /\ r.sse \in Nat
  <2>1. \A o \in Outcome : o.len \in Nat /\ o.sse \in Nat
    <3>1. Lens \subseteq Nat /\ Sses \subseteq Nat
        BY RateAssumption
    <3> QED
        BY <3>1 DEF Outcome
  <2>2. \A j \in Succeeded : results[j] \in Record
    BY <1>3 DEF Succeeded
  <2>3. \A j \in Succeeded : results[j].got \in Outcome
    BY <2>2 DEF Record
  <2> QED
    BY <2>1, <2>3, <1>11
<1>13. SmallestIsShortest'
  <2>1. CASE r = None
    BY <2>1, <1>1, <1>7, <1>9, <1>10 DEF RateInv, SmallestIsShortest
  <2>2. CASE r # None
    <3>1. r.len \in Nat /\ \A j \in Succeeded : results[j].got.len \in Nat
        BY <2>2, <1>a
    <3>2. [len |-> r.len, at |-> i] # None
        BY <2>2, <1>3, <1>11, NoneAssumption DEF Outcome, Small
    <3>3. CASE smallest = None \/ r.len < smallest.len
      <4>1. smallest' = [len |-> r.len, at |-> i]
        BY <2>2, <3>3, <1>1
      <4>2. smallest' # None /\ smallest'.at = i /\ smallest'.len = r.len
        BY <4>1, <3>2
      <4>3. i \in Succeeded' /\ results'[i].got = r
        BY <2>2, <1>8, <1>9, <1>11
      <4>4. \A j \in Succeeded : r.len <= results'[j].got.len
        <5> SUFFICES ASSUME NEW j \in Succeeded PROVE r.len <= results[j].got.len
            BY <1>7, <1>10
        <5>1. smallest # None /\ r.len < smallest.len
            BY <3>3 DEF RateInv, SmallestIsShortest
        <5>2. smallest.len \in Nat /\ smallest.len <= results[j].got.len
            BY <5>1, <1>a DEF RateInv, SmallestIsShortest
        <5> QED
            BY <5>1, <5>2, <3>1
      <4>5. Succeeded' = Succeeded \cup {i}
        BY <2>2, <1>9
      <4>6. \A j \in Succeeded' : smallest'.len <= results'[j].got.len
        BY <4>2, <4>3, <4>4, <4>5, <3>1
      <4>7. smallest'.at \in Succeeded' /\ smallest'.len = results'[smallest'.at].got.len
        BY <4>2, <4>3
      <4>8. Succeeded' # {} /\ smallest' # None
        BY <4>2, <4>3
      <4> QED
        BY <4>6, <4>7, <4>8 DEF SmallestIsShortest
    <3>4. CASE ~(smallest = None \/ r.len < smallest.len)
      <4>1. smallest' = smallest /\ smallest # None
        BY <3>4, <1>1
      <4>2. smallest.at \in Succeeded /\ smallest.len = results'[smallest.at].got.len
        BY <4>1, <1>7, <1>10 DEF RateInv, SmallestIsShortest
      <4>3. \A j \in Succeeded : smallest.len <= results'[j].got.len
        BY <4>1, <1>7, <1>10 DEF RateInv, SmallestIsShortest
      <4>4. smallest.len \in Nat
        BY <4>1, <3>1 DEF RateInv, SmallestIsShortest
      <4>5. smallest.len <= results'[i].got.len
        BY <4>4, <3>1, <3>4, <2>2, <1>8, <1>11
      <4>6. Succeeded' = Succeeded \cup {i}
        BY <2>2, <1>9
      <4>7. \A j \in Succeeded' : smallest.len <= results'[j].got.len
        BY <4>3, <4>5, <4>6
      <4> QED
        BY <4>1, <4>2, <4>6, <4>7 DEF SmallestIsShortest
    <3> QED
        BY <3>3, <3>4
  <2> QED
    BY <2>1, <2>2
<1>14. BestFitIsBest'
  <2>1. CASE ~(r # None /\ r.len <= budget)
    BY <2>1, <1>1, <1>7, <1>10, <1>12 DEF RateInv, BestFitIsBest, NoWorse, Fits
  <2>2. CASE r # None /\ r.len <= budget
    <3>1. /\ r.len \in Nat /\ r.sse \in Nat
          /\ \A j \in Succeeded : results[j].got.len \in Nat /\ results[j].got.sse \in Nat
        BY <2>2, <1>a
    <3>2. [sse |-> r.sse, len |-> r.len, at |-> i] # None
        BY <2>2, <1>3, <1>11, NoneAssumption DEF Outcome, Fit
    <3>3. Fitting' = Fitting \cup {i} /\ Fits(r.len)
        BY <2>2, <1>12 DEF Fits
    <3>4. CASE Better(r)
      <4>1. bestFit' = [sse |-> r.sse, len |-> r.len, at |-> i]
        BY <2>2, <3>3, <3>4, <1>1
      <4>2. bestFit' # None /\ bestFit'.at = i /\ bestFit'.len = r.len /\ bestFit'.sse = r.sse
        BY <4>1, <3>2
      <4>3. i \in Fitting' /\ results'[i].got = r
        BY <2>2, <3>3, <1>8, <1>11
      <4>4. \A j \in Fitting : NoWorse(bestFit', results'[j].got)
        <5> SUFFICES ASSUME NEW j \in Fitting PROVE NoWorse(r, results[j].got)
            BY <4>2, <1>7, <1>10 DEF NoWorse
        <5>1. bestFit # None /\ NoWorse(bestFit, results[j].got)
            BY DEF RateInv, BestFitIsBest
        <5>2. bestFit.len \in Nat /\ bestFit.sse \in Nat
            BY <5>1, <1>10, <1>a DEF RateInv, BestFitIsBest
        <5>3. r.sse < bestFit.sse \/ (r.sse = bestFit.sse /\ r.len < bestFit.len)
            BY <5>1, <3>4 DEF Better
        <5>4. results[j].got.len \in Nat /\ results[j].got.sse \in Nat
            BY <1>10, <1>a
        <5> QED
            BY <5>1, <5>2, <5>3, <5>4, <3>1 DEF NoWorse
      <4>5. NoWorse(bestFit', results'[i].got)
        BY <4>2, <4>3, <3>1 DEF NoWorse
      <4> QED
        BY <4>2, <4>3, <4>4, <4>5, <3>3 DEF BestFitIsBest
    <3>5. CASE ~Better(r)
      <4>1. bestFit' = bestFit /\ bestFit # None
        BY <3>5, <1>1 DEF Better
      <4>2. bestFit.at \in Fitting /\ results'[bestFit.at] = results[bestFit.at]
        BY <4>1, <1>7, <1>10 DEF RateInv, BestFitIsBest
      <4>3. bestFit.len \in Nat /\ bestFit.sse \in Nat
        BY <4>1, <4>2, <1>10, <1>a DEF RateInv, BestFitIsBest
      <4>4. \A j \in Fitting : NoWorse(bestFit, results'[j].got)
        BY <4>1, <1>7, <1>10 DEF RateInv, BestFitIsBest
      <4>5. NoWorse(bestFit, r)
        BY <3>1, <3>5, <4>3 DEF Better, NoWorse
      <4>6. NoWorse(bestFit, results'[i].got)
        BY <4>5, <2>2, <1>8, <1>11
      <4> QED
        BY <4>1, <4>2, <4>4, <4>6, <3>3 DEF RateInv, BestFitIsBest
    <3> QED
        BY <3>4, <3>5
  <2> QED
    BY <2>1, <2>2
<1>15. TrialsStartAlike'
    BY <1>7, <1>8, <1>9, <1>10, <1>11 DEF RateInv, TrialsStartAlike
<1>16. TypeOK'
  <2>1. smallest' \in Small \cup {None}
    BY <1>1, <1>3, RateAssumption DEF RateInv, TypeOK, Small, Outcome
  <2>2. bestFit' \in Fit \cup {None}
    BY <1>1, <1>3, RateAssumption DEF RateInv, TypeOK, Fit, Outcome
  <2>3. carry' \in Seq(Nat)
    BY <1>2, <1>3
  <2> QED
    BY <2>1, <2>2, <2>3, <1>2, <1>6 DEF RateInv, TypeOK
<1>17. SweepScope' /\ ReturnedFrameIsCarried'
  <2>1. returned' = None /\ budget' = EffectiveBudget'
    BY <1>2 DEF RateInv, SweepScope, EffectiveBudget, Surplus
  <2>2. Len(results') <= Len(Grid(base'))
    BY <1>2, <1>3, <1>6, GridType DEF RateInv, TypeOK
  <2> QED
    BY <2>1, <2>2, <1>2 DEF SweepScope, ReturnedFrameIsCarried
<1> QED
    BY <1>13, <1>14, <1>15, <1>16, <1>17 DEF RateInv

-----------------------------------------------------------------------------

\* What the sweep returns is one of its successful trials.
LEMMA WinnerSucceeded ==
    ASSUME RateInv, smallest # None
    PROVE  /\ Winner \in Succeeded
           /\ Winner \in 1 .. Len(results)
           /\ results[Winner] \in Record
           /\ Replay(Winner) = {results[Winner].got}
<1>1. Winner \in Succeeded
    BY DEF RateInv, SmallestIsShortest, BestFitIsBest, Fitting, Winner
<1>2. Winner \in 1 .. Len(results) /\ results[Winner] # None
    BY <1>1 DEF Succeeded
<1>3. results[Winner] \in Record
    BY <1>2 DEF RateInv, TypeOK
<1>4. results[Winner].from = <<>>
    BY <1>1 DEF RateInv, TrialsStartAlike
<1> QED
    BY <1>1, <1>2, <1>3, <1>4 DEF Replay, Restored

\* The frame that the sweep returns is the best of its trials.
LEMMA CommitReturnsBest ==
    ASSUME RateInv, Commit
    PROVE  LET r == returned'.got IN
           IF Fitting # {}
           THEN r.len <= budget /\ \A i \in Fitting : NoWorse(r, results[i].got)
           ELSE \A i \in Succeeded : r.len <= results[i].got.len
<1>1. smallest # None
    BY DEF Commit
<1>2. returned'.got = results[Winner].got
    BY <1>1, WinnerSucceeded DEF Commit
<1>3. CASE Fitting # {}
  <2>1. bestFit # None /\ Winner = bestFit.at
    BY <1>3 DEF RateInv, BestFitIsBest, Winner
  <2>2. /\ Winner \in Fitting
        /\ results[Winner].got.len = bestFit.len
        /\ results[Winner].got.sse = bestFit.sse
        /\ \A i \in Fitting : NoWorse(bestFit, results[i].got)
    BY <2>1 DEF RateInv, BestFitIsBest
  <2> QED
    BY <1>2, <1>3, <2>2 DEF Fitting, NoWorse
<1>4. CASE Fitting = {}
  <2>1. Winner = smallest.at
    BY <1>4 DEF RateInv, BestFitIsBest, Winner
  <2> QED
    BY <1>1, <1>2, <1>4, <2>1 DEF RateInv, SmallestIsShortest
<1> QED
    BY <1>3, <1>4

\* A frame within its effective budget leaves no deficit on the accounts.
LEMMA FittingPays ==
    ASSUME RateInv, Commit, stats'.within
    PROVE  cumActual' <= cumTarget'
<1>1. smallest # None /\ base # None
    BY DEF Commit, Idle
<1>2. PICK r \in Replay(Winner) :
        /\ cumTarget' = SatAdd(cumTarget, target)
        /\ cumActual' = SatAdd(cumActual, r.len)
        /\ stats' = [within |-> r.len <= budget]
    BY DEF Commit, Pay
<1>3. r \in Outcome
    BY <1>1, <1>2, WinnerSucceeded DEF Record
<1>4. Lens \subseteq 1 .. MaxCount /\ MaxCount \in Nat
    BY RateAssumption
<1>5. r.len \in 1 .. MaxCount /\ r.len <= budget
    BY <1>2, <1>3, <1>4 DEF Outcome
<1>6. /\ target \in 0 .. MaxCount /\ cumTarget \in 0 .. MaxCount
      /\ cumActual \in 0 .. MaxCount /\ (cap # None => cap \in 0 .. MaxCount)
      /\ budget = EffectiveBudget /\ budget \in 0 .. MaxCount
    BY <1>1 DEF RateInv, TypeOK, SweepScope
<1>7. CASE target = MaxCount
    BY <1>2, <1>4, <1>5, <1>6, <1>7 DEF SatAdd, Lesser
<1>8. CASE target # MaxCount
  <2>1. Surplus \in Int /\ Surplus <= cumTarget - cumActual
    <3>1. CASE cap = None
        BY <3>1, <1>4, <1>6 DEF Surplus
    <3>2. CASE cap # None
      <4> DEFINE left == cumTarget - cumActual
      <4>1. left \in Int /\ cap \in Int
          BY <3>2, <1>4, <1>6
      <4>2. Lesser(left, cap) \in Int /\ Lesser(left, cap) <= left
          BY <4>1 DEF Lesser
      <4>3. Surplus \in {left, Lesser(left, cap)}
          BY <4>1, <3>2 DEF Surplus
      <4> QED
          BY <4>1, <4>2, <4>3
    <3> QED
        BY <3>1, <3>2
  <2>2. budget <= 0 \/ budget <= target + Surplus
    BY <1>4, <1>6, <1>8, <2>1 DEF EffectiveBudget, Lesser
  <2>3. cumActual + r.len <= cumTarget + target
    BY <1>4, <1>5, <1>6, <2>1, <2>2
  <2> QED
    BY <1>2, <1>4, <1>5, <1>6, <2>3 DEF SatAdd, Lesser
<1> QED
    BY <1>7, <1>8

\* The end of a sweep, with a winner or without one.
LEMMA EndPreserves ==
    ASSUME RateInv, Commit \/ Fallback
    PROVE  RateInv'
<1>0. base # None /\ base \in Options /\ target \in 0 .. MaxCount
    BY DEF Commit, Fallback, Idle, RateInv, TypeOK
<1>1. base' = None /\ results' = <<>> /\ bestFit' = None /\ smallest' = None /\ budget' = 0
    BY DEF Commit, Fallback, ClearSweep
<1>2. Succeeded' = {} /\ Fitting' = {}
    BY <1>1 DEF Succeeded, Fitting
<1>3. Grid(base) \in Seq(Options)
    BY <1>0, GridType
<1>4. CASE Commit
  <2>1. smallest # None /\ Len(results) = Len(Grid(base))
    BY <1>4 DEF Commit
  <2>2. PICK r \in Replay(Winner) :
          /\ returned' = [at |-> Winner, opts |-> OptionsAt(base, Winner), got |-> r]
          /\ Pay(r.len)
          /\ stats' = [within |-> r.len <= budget]
    BY <1>4 DEF Commit
  <2>3. Winner \in 1 .. Len(Grid(base)) /\ r \in Outcome
    BY <2>1, <2>2, WinnerSucceeded DEF Record
  <2>4. Winner \in Nat /\ OptionsAt(base, Winner) \in Options
    BY <1>3, <2>3 DEF OptionsAt
  <2>5. r.len \in Nat
    <3>1. Lens \subseteq Nat
        BY RateAssumption
    <3> QED
        BY <2>3, <3>1 DEF Outcome
  <2>6. carry' = <<Winner>> /\ UNCHANGED <<target, cap>>
    BY <1>4 DEF Commit, Restored, config
  <2>7. returned' \in Return
    BY <2>2, <2>3, <2>4 DEF Return
  <2>8. cumTarget' \in 0 .. MaxCount /\ cumActual' \in 0 .. MaxCount
    <3>1. target \in Nat /\ cumTarget \in Nat /\ cumActual \in Nat
        BY <1>0, RateAssumption DEF RateInv, TypeOK
    <3> QED
        BY <3>1, <2>2, <2>5, SatAddType DEF Pay
  <2>9. stats' \in [within : BOOLEAN]
    BY <2>2
  <2>10. TypeOK'
    BY <1>1, <2>4, <2>6, <2>7, <2>8, <2>9, RateAssumption DEF RateInv, TypeOK
  <2>11. ReturnedFrameIsCarried'
    BY <2>2, <2>6 DEF ReturnedFrameIsCarried
  <2> QED
    BY <1>1, <1>2, <2>10, <2>11
    DEF RateInv, SweepScope, SmallestIsShortest, BestFitIsBest, TrialsStartAlike
<1>5. CASE Fallback
  <2>1. carry' = <<0>> /\ UNCHANGED <<target, cap, cumTarget, cumActual, stats>>
    BY <1>5 DEF Fallback, Restored, config, accounts
  <2>2. returned' \in Return \cup {None} /\ (returned' # None => returned'.at = 0)
    <3>1. CASE returned' = None
        BY <3>1
    <3>2. CASE \E r \in Outcome : returned' = [at |-> 0, opts |-> base, got |-> r]
        BY <1>0, <3>2 DEF Return
    <3> QED
        BY <1>5, <3>1, <3>2 DEF Fallback
  <2>3. TypeOK'
    BY <1>1, <2>1, <2>2, RateAssumption DEF RateInv, TypeOK
  <2>4. ReturnedFrameIsCarried'
    BY <2>1, <2>2 DEF ReturnedFrameIsCarried
  <2> QED
    BY <1>1, <1>2, <2>3, <2>4
    DEF RateInv, SweepScope, SmallestIsShortest, BestFitIsBest, TrialsStartAlike
<1> QED
    BY <1>4, <1>5

\* A step that changes nothing.
LEMMA StutterPreserves ==
    ASSUME RateInv, UNCHANGED vars
    PROVE  RateInv'
  BY DEF RateInv, TypeOK, SweepScope, SmallestIsShortest, BestFitIsBest, TrialsStartAlike,
         ReturnedFrameIsCarried, Succeeded, Fitting, NoWorse, EffectiveBudget, Surplus,
         vars, config, accounts, sweep

\* Every step preserves the invariant: one step of the proof per action.
LEMMA StepRateInv == RateInv /\ [Next]_vars => RateInv'
  BY ConfigurePreserves, BeginFramePreserves, TrialPreserves, EndPreserves, StutterPreserves
  DEF Next

\* The inductive invariant holds in every reachable state.
THEOREM RateInvariant == Spec => []RateInv
  BY InitRateInv, StepRateInv, PTL DEF Spec

\* Type correctness, among it that the byte accounts stay within their width
\* (saturating_add in encode_budget_frame).
THEOREM RateTypeCorrect == Spec => []TypeOK
<1>1. RateInv => TypeOK
    BY DEF RateInv
<1> QED
    BY <1>1, RateInvariant, PTL

\* After any call that returned a frame the carry-over state is that frame's
\* own (snapshot_state, restore_state).
THEOREM RateCarriesReturnedFrame == Spec => []ReturnedFrameIsCarried
<1>1. RateInv => ReturnedFrameIsCarried
    BY DEF RateInv
<1> QED
    BY <1>1, RateInvariant, PTL

\* The sweep returns the best candidate, for every grid and every outcome of
\* its trials (encode_budget_frame).
THEOREM RateReturnsBest == Spec => BestThatFits
<1>1. RateInv /\ [Next]_vars =>
        [Commit =>
            LET r == returned'.got IN
            IF Fitting # {}
            THEN r.len <= budget /\ \A i \in Fitting : NoWorse(r, results[i].got)
            ELSE \A i \in Succeeded : r.len <= results[i].got.len]_vars
    BY CommitReturnsBest
<1> QED
    BY <1>1, RateInvariant, PTL DEF Spec, BestThatFits

\* A frame that fits its effective budget leaves no deficit, for every budget,
\* cap and width of the accounts (cumulative_target_bytes).
THEOREM RateConverges == Spec => FittingFrameLeavesNoDeficit
<1>1. RateInv /\ [Next]_vars =>
        [(Commit /\ stats'.within) => cumActual' <= cumTarget']_vars
    BY FittingPays
<1> QED
    BY <1>1, RateInvariant, PTL DEF Spec, FittingFrameLeavesNoDeficit

=============================================================================
