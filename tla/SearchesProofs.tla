--------------------------- MODULE SearchesProofs ----------------------------
(***************************************************************************)
(* Proofs about the searches of the encoder: the second pass, for every    *)
(* range of qualities, grid, window and length of the sequence, and the    *)
(* pickers, for every list of options and whatever they make of a strip.   *)
(***************************************************************************)
EXTENDS TwoPass, Pickers, RecursionLemmas

\* What the best trial so far is: an encode of this frame after the frames
\* chosen, and one that fits if any does.
BestIsATrial ==
    best # None =>
        /\ best.from = qs
        /\ Fits(curve[0]) => Fits(best.len)

\* A search has a curve, and only a search has a best trial.
SearchScope ==
    /\ phase \in {"decide", "bisect"} => curve \in Curves
    /\ phase \in {"idle", "frames"} => best = None

QualitiesTold == qs = [i \in 1 .. Len(out) |-> out[i].quality]

TwoPassInv ==
    /\ TypeOK
    /\ FramesFollowEachOther
    /\ QualitiesTold
    /\ SearchScope
    /\ BestIsATrial

\* Every encode of a search is one, after the frames chosen so far.
LEMMA EncodeType ==
    ASSUME TwoPassInv, phase \in {"decide", "bisect"}, NEW q \in Qs
    PROVE  /\ Encode(q) \in Enc
           /\ Encode(q).q = q /\ Encode(q).from = qs /\ Encode(q).len = curve[q]
<1>1. curve \in [Qs -> Nat]
    BY TwoPassAssumption DEF TwoPassInv, SearchScope
<1>2. qs \in Seq(Qs)
    BY DEF TwoPassInv, TypeOK
<1> QED
    BY <1>1, <1>2 DEF Encode, Enc

\* The middle of what is left of a bisection is a quality.
LEMMA MidType ==
    ASSUME TwoPassInv, lo <= hi
    PROVE  Mid \in Qs /\ lo <= Mid /\ Mid <= hi
<1>1. lo \in 0 .. QMax + 1 /\ hi \in 0 .. QMax /\ QMax \in Nat
    BY TwoPassAssumption DEF TwoPassInv, TypeOK, Qs
<1> QED
    BY <1>1 DEF Mid, Qs

\* The lowest quality is one.
LEMMA LowestIsQuality == 0 \in Qs
    BY TwoPassAssumption DEF Qs

\* A frame that is delivered with an encode of its own goes on from the frames
\* before it.
LEMMA DeliverPreserves ==
    ASSUME TwoPassInv, NEW q \in Qs, NEW e \in Enc, e.q = q, e.from = qs, Deliver(q, e)
    PROVE  TwoPassInv'
<1> DEFINE frame == [quality |-> q, enc |-> e]
<1>1. /\ qs \in Seq(Qs) /\ sizes \in Seq(Nat)
      /\ out \in Seq([quality : Qs, enc : Enc])
      /\ Len(qs) = Len(out) /\ Len(sizes) = Len(out)
    BY DEF TwoPassInv, TypeOK
<1>2. /\ qs' = Append(qs, q) /\ sizes' = Append(sizes, e.len) /\ out' = Append(out, frame)
      /\ phase' = "frames" /\ curve' = None
      /\ lo' = 0 /\ hi' = QMax /\ tries' = 0 /\ best' = None
      /\ UNCHANGED call
    BY DEF Deliver, ClearSearch
<1>3. frame \in [quality : Qs, enc : Enc] /\ e.len \in Nat
    BY DEF Enc
<1>4. TypeOK'
  <2>1. QMax \in Nat
      BY TwoPassAssumption
  <2>2. /\ qs' \in Seq(Qs) /\ sizes' \in Seq(Nat)
        /\ out' \in Seq([quality : Qs, enc : Enc])
        /\ Len(qs') = Len(out') /\ Len(sizes') = Len(out')
      BY <1>1, <1>2, <1>3
  <2> QED
      BY <1>2, <2>1, <2>2 DEF TypeOK, TwoPassInv, call, Qs
<1>5. Len(out') = Len(out) + 1 /\ \A i \in 1 .. Len(out) : out'[i] = out[i]
    BY <1>1, <1>2, <1>3
<1>6. out'[Len(out) + 1] = frame
    BY <1>1, <1>2, <1>3
<1>7. qs = [i \in 1 .. Len(out) |-> out[i].quality]
    BY DEF TwoPassInv, QualitiesTold
<1>8. FramesFollowEachOther'
  <2> SUFFICES ASSUME NEW i \in 1 .. Len(out) + 1
               PROVE  /\ out'[i].enc.q = out'[i].quality
                      /\ out'[i].enc.from = [j \in 1 .. i - 1 |-> out'[j].quality]
      BY <1>5 DEF FramesFollowEachOther
  <2>1. CASE i = Len(out) + 1
    <3>1. [j \in 1 .. i - 1 |-> out'[j].quality] = [j \in 1 .. Len(out) |-> out[j].quality]
        BY <2>1, <1>1, <1>5
    <3> QED
        BY <2>1, <3>1, <1>6, <1>7
  <2>2. CASE i \in 1 .. Len(out)
    <3>1. [j \in 1 .. i - 1 |-> out'[j].quality] = [j \in 1 .. i - 1 |-> out[j].quality]
        BY <2>2, <1>1, <1>5
    <3> QED
        BY <2>2, <3>1, <1>5 DEF TwoPassInv, FramesFollowEachOther
  <2> QED
      BY <2>1, <2>2, <1>1
<1>9. QualitiesTold'
  <2>1. \A i \in 1 .. Len(out) + 1 : qs'[i] = out'[i].quality
      BY <1>1, <1>2, <1>3, <1>5, <1>6, <1>7
  <2>2. Len(qs') = Len(out) + 1
      BY <1>1, <1>2
  <2>3. qs' \in Seq(Qs)
      BY <1>1, <1>2
  <2>4. qs' \in [1 .. Len(qs') -> Qs]
      BY <2>3
  <2>5. qs' = [i \in 1 .. Len(qs') |-> qs'[i]]
      BY ONLY <2>4, Zenon
  <2> QED
      BY <2>1, <2>2, <2>5, <1>5 DEF QualitiesTold
<1> QED
    BY <1>2, <1>4, <1>8, <1>9 DEF TwoPassInv, SearchScope, BestIsATrial

\* The budget of a frame does not change while its quality is searched.
LEMMA SameCap ==
    ASSUME UNCHANGED <<call, done>>
    PROVE  Cap' = Cap
    BY DEF call, done, Cap, WindowSum, InWindow, SatSub

\* The invariant of the second pass: types, the frames delivered, and what the
\* best trial so far is an encode of.
THEOREM TwoPassInvariant == Spec => []TwoPassInv
<1>1. Init => TwoPassInv
  <2> SUFFICES ASSUME Init PROVE TwoPassInv
      OBVIOUS
  <2>1. QMax \in Nat
      BY TwoPassAssumption
  <2>2. TypeOK
      BY <2>1 DEF Init, TypeOK, Modes, Qs
  <2> QED
      BY <2>2 DEF Init, TwoPassInv, FramesFollowEachOther, QualitiesTold, SearchScope, BestIsATrial
<1>2. TwoPassInv /\ [Next]_vars => TwoPassInv'
  <2> SUFFICES ASSUME TwoPassInv, [Next]_vars PROVE TwoPassInv'
      OBVIOUS
  <2>1. CASE Call
    <3>1. phase = "idle" /\ phase' = "frames" /\ out' = <<>> /\ qs' = <<>> /\ sizes' = <<>>
          /\ UNCHANGED <<curve, search>>
        BY <2>1 DEF Call
    <3>2. mode' \in Modes /\ target' \in Nat /\ window' \in Nat \ {0} /\ tol' \in Nat \X Nat
        BY <2>1, TwoPassAssumption DEF Call
    <3>3. TypeOK'
        BY <3>1, <3>2 DEF TwoPassInv, TypeOK, search
    <3> QED
        BY <3>1, <3>3 DEF TwoPassInv, FramesFollowEachOther, QualitiesTold, SearchScope,
                          BestIsATrial, search
  <2>2. CASE BeginFrame
    <3>1. phase' = "decide" /\ curve' \in Curves /\ best' = None /\ UNCHANGED <<call, done, search>>
        BY <2>2 DEF BeginFrame, TwoPassInv, SearchScope, search
    <3>2. TypeOK'
        BY <3>1 DEF TwoPassInv, TypeOK, call, done, search
    <3> QED
        BY <3>1, <3>2 DEF TwoPassInv, FramesFollowEachOther, QualitiesTold, SearchScope,
                          BestIsATrial, done
  <2>3. CASE Hold
    <3>1. qs[Len(qs)] \in Qs
        BY <2>3 DEF Hold, TwoPassInv, TypeOK
    <3> QED
        BY <2>3, <3>1, EncodeType, DeliverPreserves DEF Hold
  <2>4. CASE Bisect
    <3>1. phase = "decide" /\ phase' = "bisect" /\ UNCHANGED <<call, done, curve, search>>
        BY <2>4 DEF Bisect
    <3>2. TypeOK'
        BY <3>1 DEF TwoPassInv, TypeOK, call, done, search
    <3>3. BestIsATrial'
        BY <3>1, SameCap DEF TwoPassInv, BestIsATrial, Fits, done, search
    <3> QED
        BY <3>1, <3>2, <3>3 DEF TwoPassInv, FramesFollowEachOther, QualitiesTold, SearchScope, done
  <2>5. CASE TryMid
    <3>1. phase = "bisect" /\ UNCHANGED <<phase, call, done, curve>> /\ tries' = tries + 1
        BY <2>5 DEF TryMid
    <3>2. lo \in 0 .. QMax + 1 /\ hi \in 0 .. QMax /\ QMax \in Nat /\ tries \in Nat
        BY TwoPassAssumption DEF TwoPassInv, TypeOK, Qs
    <3>3. lo <= hi
        BY <2>5, <3>2 DEF TryMid, Stopped
    <3>4. Mid \in 0 .. QMax
        BY <3>3, MidType DEF Qs
    <3>5. lo' \in 0 .. QMax + 1 /\ hi' \in 0 .. QMax
      <4>1. CASE lo' = Mid + 1 /\ UNCHANGED hi
          BY <4>1, <3>2, <3>4
      <4>2. CASE lo' = hi + 1 /\ UNCHANGED hi
          BY <4>2, <3>2
      <4>3. CASE ~AtFloor(Mid) /\ hi' = Mid - 1 /\ UNCHANGED lo
          BY <4>3, <3>2, <3>4 DEF AtFloor
      <4> QED
          BY <2>5, <4>1, <4>2, <4>3 DEF TryMid
    <3>6. /\ Encode(Mid) \in Enc /\ Encode(Mid).q = Mid /\ Encode(Mid).from = qs
          /\ Encode(Mid).len = curve[Mid]
        BY <3>1, <3>4, EncodeType DEF Qs
    <3>7. best' = Kept(Encode(Mid))
        BY <2>5 DEF TryMid
    <3>8. best' \in Enc \cup {None}
        BY <3>6, <3>7 DEF Kept, TwoPassInv, TypeOK
    <3>9. TypeOK'
        BY <3>1, <3>2, <3>5, <3>8 DEF TwoPassInv, TypeOK, call, done, Qs
    <3>10. BestIsATrial'
      <4>1. CASE best' = Encode(Mid) /\ Fits(Encode(Mid).len)
          BY <4>1, <3>1, <3>6, SameCap DEF BestIsATrial, Fits, done
      <4>2. CASE best' = Encode(Mid) /\ AtFloor(Encode(Mid).q)
          BY <4>2, <3>1, <3>6, SameCap DEF BestIsATrial, Fits, AtFloor, done
      <4>3. CASE best' = best
          BY <4>3, <3>1, SameCap DEF TwoPassInv, BestIsATrial, Fits, done
      <4> QED
          BY <3>7, <4>1, <4>2, <4>3 DEF Kept
    <3> QED
        BY <3>1, <3>9, <3>10 DEF TwoPassInv, FramesFollowEachOther, QualitiesTold, SearchScope, done
  <2>6. CASE TryGrid
    <3>1. phase = "decide" /\ UNCHANGED <<phase, call, done, curve, lo, hi>> /\ tries' = tries + 1
        BY <2>6 DEF TryGrid
    <3>2. tries \in Nat /\ tries < Len(Grid)
        BY <2>6 DEF TryGrid, TwoPassInv, TypeOK
    <3>3. Grid[tries + 1] \in Qs
        BY <3>2, TwoPassAssumption
    <3> DEFINE e == Encode(Grid[tries + 1])
    <3>4. e \in Enc /\ e.from = qs
        BY <3>1, <3>3, EncodeType
    <3>5. best' = best \/ (best' = e /\ Fits(e.len))
        BY <2>6 DEF TryGrid
    <3>6. TypeOK'
        BY <3>1, <3>2, <3>4, <3>5 DEF TwoPassInv, TypeOK, call, done
    <3>7. BestIsATrial'
      <4>1. CASE best' = best
          BY <4>1, <3>1, SameCap DEF TwoPassInv, BestIsATrial, Fits, done
      <4>2. CASE best' = e /\ Fits(e.len)
          BY <4>2, <3>1, <3>4, SameCap DEF BestIsATrial, Fits, done
      <4> QED
          BY <3>5, <4>1, <4>2
    <3> QED
        BY <3>1, <3>6, <3>7 DEF TwoPassInv, FramesFollowEachOther, QualitiesTold, SearchScope, done
  <2>7. CASE Choose
    <3> DEFINE e == IF best = None THEN Encode(0) ELSE best
    <3>1. phase \in {"decide", "bisect"} /\ Deliver(e.q, e)
        BY <2>7 DEF Choose
    <3>2. e \in Enc /\ e.from = qs
        BY <3>1, LowestIsQuality, EncodeType DEF TwoPassInv, TypeOK, BestIsATrial
    <3>3. e.q \in Qs
        BY <3>2 DEF Enc
    <3> HIDE DEF e
    <3> QED
        BY <3>1, <3>2, <3>3, DeliverPreserves
  <2>8. CASE Fail
    <3>1. /\ phase' = "idle" /\ out' = <<>> /\ qs' = <<>> /\ sizes' = <<>> /\ curve' = None
          /\ lo' = 0 /\ hi' = QMax /\ tries' = 0 /\ best' = None /\ UNCHANGED call
        BY <2>8 DEF Fail, ClearSearch
    <3>2. TypeOK'
        BY <3>1, TwoPassAssumption DEF TwoPassInv, TypeOK, call, Qs
    <3> QED
        BY <3>1, <3>2 DEF TwoPassInv, FramesFollowEachOther, QualitiesTold, SearchScope, BestIsATrial
  <2>9. CASE Return
    <3>1. phase = "frames" /\ phase' = "idle" /\ UNCHANGED <<call, done, curve, search>>
        BY <2>9 DEF Return
    <3>2. TypeOK'
        BY <3>1 DEF TwoPassInv, TypeOK, call, done, search
    <3> QED
        BY <3>1, <3>2 DEF TwoPassInv, FramesFollowEachOther, QualitiesTold, SearchScope,
                          BestIsATrial, done, search
  <2>10. CASE UNCHANGED vars
    <3>1. UNCHANGED <<phase, call, done, curve, search>>
        BY <2>10 DEF vars
    <3>2. TypeOK'
        BY <3>1 DEF TwoPassInv, TypeOK, call, done, search
    <3>3. BestIsATrial'
        BY <3>1, SameCap DEF TwoPassInv, BestIsATrial, Fits, done, search
    <3> QED
        BY <3>1, <3>2, <3>3 DEF TwoPassInv, FramesFollowEachOther, QualitiesTold, SearchScope,
                                done, search
  <2> QED
      BY <2>1, <2>2, <2>3, <2>4, <2>5, <2>6, <2>7, <2>8, <2>9, <2>10 DEF Next
<1> QED
    BY <1>1, <1>2, PTL DEF Spec

\* The locals of the three methods keep their types; the bounds of a bisection,
\* which are u8, neither go below zero nor above one more than the highest
\* quality.
THEOREM TwoPassTypeCorrect == Spec => []TypeOK
    BY TwoPassInvariant, PTL DEF TwoPassInv

\* The frames of a call are one decodable sequence: each was encoded after
\* exactly the frames returned before it.
THEOREM TwoPassSequence == Spec => []FramesFollowEachOther
    BY TwoPassInvariant, PTL DEF TwoPassInv

\* A search ends with a frame that fits whenever the lowest quality does,
\* whatever the lengths are.
THEOREM TwoPassFits == Spec => FitsIfLowestFits
<1>1. TwoPassInv /\ [Next]_vars =>
          [(Choose /\ Fits(curve[0])) => Fits(sizes'[Len(sizes')])]_vars
  <2> SUFFICES ASSUME TwoPassInv, Choose, Fits(curve[0])
               PROVE  Fits(sizes'[Len(sizes')])
      OBVIOUS
  <2> DEFINE e == IF best = None THEN Encode(0) ELSE best
  <2>1. phase \in {"decide", "bisect"} /\ sizes' = Append(sizes, e.len)
      BY DEF Choose, Deliver
  <2>2. e \in Enc /\ Fits(e.len)
      BY <2>1, LowestIsQuality, EncodeType DEF TwoPassInv, TypeOK, BestIsATrial
  <2>3. e.len \in Nat /\ sizes \in Seq(Nat)
      BY <2>2 DEF Enc, TwoPassInv, TypeOK
  <2> HIDE DEF e
  <2>4. sizes'[Len(sizes')] = e.len
      BY <2>1, <2>3
  <2> QED
      BY <2>2, <2>4
<1> QED
    BY <1>1, TwoPassInvariant, PTL DEF Spec, FitsIfLowestFits

-----------------------------------------------------------------------------

\* A trial leaves at most half of what was undecided.
LEMMA TrialsHalve ==
    /\ \A n \in 0 .. Trials : Undecided[n] \in Nat
    /\ Undecided[0] = QMax + 1
    /\ \A n \in 1 .. Trials : Undecided[n] = Undecided[n - 1] \div 2
<1> DEFINE step == [p \in Nat \X (1 .. Trials) |-> p[1] \div 2]
<1>1. Trials \in Nat /\ QMax + 1 \in Nat /\ step \in [Nat \X (1 .. Trials) -> Nat]
    BY TwoPassAssumption
<1>2. \E g : g = [n \in 0 .. Trials |-> IF n = 0 THEN QMax + 1 ELSE g[n - 1] \div 2]
  <2>1. PICK g \in Recursion(Trials, Nat, QMax + 1, step) : TRUE
    <3> HIDE DEF step
    <3> QED
        BY <1>1, RecursionIsDefined
  <2>2. g \in [0 .. Trials -> Nat] /\ g[0] = QMax + 1
      BY DEF Recursion
  <2>3. ASSUME NEW n \in 1 .. Trials
        PROVE  g[n] = g[n - 1] \div 2
    <3>1. g[n] = step[<<g[n - 1], n>>]
        BY DEF Recursion
    <3>2. <<g[n - 1], n>> \in Nat \X (1 .. Trials)
        BY <1>1, <2>2
    <3> QED
        BY <3>1, <3>2
  <2>4. g = [n \in 0 .. Trials |-> IF n = 0 THEN QMax + 1 ELSE g[n - 1] \div 2]
      BY <2>2, <2>3
  <2> QED
      BY <2>4
<1>3. Undecided = [n \in 0 .. Trials |-> IF n = 0 THEN QMax + 1 ELSE Undecided[n - 1] \div 2]
    BY <1>2 DEF Undecided
<1>4. \A n \in 1 .. Trials : Undecided[n - 1] \in Nat => Undecided[n] = step[<<Undecided[n - 1], n>>]
    BY <1>1, <1>3
<1>5. Undecided[0] \in Nat
    BY <1>1, <1>3
<1>6. \A n \in 0 .. Trials : Undecided[n] \in Nat
  <2> HIDE DEF step
  <2> QED
      BY <1>1, <1>4, <1>5, RecursionStays
<1>7. \A n \in 1 .. Trials : Undecided[n] = Undecided[n - 1] \div 2
    BY <1>1, <1>3
<1>8. Undecided[0] = QMax + 1
    BY <1>1, <1>3
<1> QED
    BY <1>6, <1>7, <1>8

\* The bytes of a window are a number.
LEMMA WindowSumType == TwoPassInv => WindowSum \in Nat
<1> SUFFICES ASSUME TwoPassInv PROVE WindowSum \in Nat
    OBVIOUS
<1> DEFINE n == InWindow
<1> DEFINE step == [p \in Nat \X (1 .. n) |-> p[1] + sizes[Len(sizes) - n + p[2]]]
<1> DEFINE sum == CHOOSE g : g = [i \in 0 .. n |->
                      IF i = 0 THEN 0 ELSE g[i - 1] + sizes[Len(sizes) - n + i]]
<1>1. sizes \in Seq(Nat) /\ n \in Nat /\ n <= Len(sizes)
    BY DEF TwoPassInv, TypeOK, InWindow
<1> HIDE DEF n
<1>2. \A i \in 1 .. n : sizes[Len(sizes) - n + i] \in Nat
    BY <1>1
<1>3. step \in [Nat \X (1 .. n) -> Nat]
    BY <1>2
<1>4. \E g : g = [i \in 0 .. n |-> IF i = 0 THEN 0 ELSE g[i - 1] + sizes[Len(sizes) - n + i]]
  <2>1. PICK g \in Recursion(n, Nat, 0, step) : TRUE
    <3> HIDE DEF step
    <3> QED
        BY <1>1, <1>3, RecursionIsDefined
  <2>2. g \in [0 .. n -> Nat] /\ g[0] = 0
      BY DEF Recursion
  <2>3. ASSUME NEW i \in 1 .. n
        PROVE  g[i] = g[i - 1] + sizes[Len(sizes) - n + i]
    <3>1. g[i] = step[<<g[i - 1], i>>]
        BY DEF Recursion
    <3>2. <<g[i - 1], i>> \in Nat \X (1 .. n)
        BY <1>1, <2>2
    <3> QED
        BY <3>1, <3>2
  <2>4. g = [i \in 0 .. n |-> IF i = 0 THEN 0 ELSE g[i - 1] + sizes[Len(sizes) - n + i]]
      BY <2>2, <2>3
  <2> QED
      BY <2>4
<1>5. sum = [i \in 0 .. n |-> IF i = 0 THEN 0 ELSE sum[i - 1] + sizes[Len(sizes) - n + i]]
    BY <1>4
<1>6. WindowSum = sum[n]
    BY DEF WindowSum, n
<1> HIDE DEF sum
<1>7. sum[0] = 0 /\ \A i \in 1 .. n : sum[i] = sum[i - 1] + sizes[Len(sizes) - n + i]
    BY <1>1, <1>5
<1>8. sum[0] \in Nat /\ \A i \in 1 .. n : sum[i - 1] \in Nat => sum[i] = step[<<sum[i - 1], i>>]
    BY <1>7
<1>9. \A i \in 0 .. n : sum[i] \in Nat
  <2> HIDE DEF step
  <2> QED
      BY <1>1, <1>3, <1>8, RecursionStays
<1> QED
    BY <1>1, <1>6, <1>9

\* What a frame may cost is a number, so that what is shorter than a frame that
\* fits does fit.
LEMMA ShorterFits ==
    ASSUME TwoPassInv, NEW a \in Nat, NEW b \in Nat, a <= b, Fits(b)
    PROVE  Fits(a)
<1>1. WindowSum \in Nat /\ target \in Nat
    BY WindowSumType DEF TwoPassInv, TypeOK
<1>2. Cap \in Nat
    BY <1>1 DEF Cap, SatSub
<1> QED
    BY <1>2 DEF Fits

-----------------------------------------------------------------------------

(***************************************************************************)
(* What a search has found out: of a grid, the highest quality that fits   *)
(* among those tried; of a bisection, that everything above hi is too long *)
(* and that the best trial is the quality just below lo, or that not even  *)
(* the lowest quality fits.  The trials suffice, as each leaves at most    *)
(* half of what was undecided.                                             *)
(***************************************************************************)
Tried == {Grid[i] : i \in 1 .. tries}

FreshSearch ==
    (phase \in {"idle", "frames"} \/ (phase = "decide" /\ mode # "grid")) =>
        lo = 0 /\ hi = QMax /\ tries = 0 /\ best = None

GridIsScanned ==
    (phase = "decide" /\ mode = "grid") =>
        /\ tries <= Len(Grid)
        /\ best # None => best.q \in Tried /\ Fits(curve[best.q])
        /\ \A q \in Tried : Fits(curve[q]) => best # None /\ q <= best.q

HalfIsDecided ==
    phase = "bisect" =>
        /\ mode # "grid"
        /\ tries <= Trials
        /\ lo <= hi => hi - lo + 1 <= Undecided[tries]

NothingFits == best # None /\ best.q = 0 /\ ~Fits(curve[0]) /\ lo > hi

BestIsBelow ==
    /\ lo <= hi + 1
    /\ lo = 0 => best = None
    /\ lo # 0 => best # None /\ best.q = lo - 1 /\ Fits(curve[lo - 1])
    /\ \A r \in Qs : r > hi => ~Fits(curve[r])

BisectionIsOrdered == (phase = "bisect" /\ Monotone) => NothingFits \/ BestIsBelow

SearchInv == FreshSearch /\ GridIsScanned /\ HalfIsDecided /\ BisectionIsOrdered

\* Between two searches there is nothing to know.
LEMMA NoSearch ==
    ASSUME phase' \in {"idle", "frames"},
           lo' = 0 /\ hi' = QMax /\ tries' = 0 /\ best' = None
    PROVE  SearchInv'
BY DEF SearchInv, FreshSearch, GridIsScanned, HalfIsDecided, BisectionIsOrdered

\* One more quality of the grid.
LEMMA TryGridPreserves ==
    ASSUME TwoPassInv, SearchInv, TryGrid
    PROVE  SearchInv'
<1> DEFINE q == Grid[tries + 1]
<1> DEFINE e == Encode(q)
<1>1. /\ phase = "decide" /\ mode = "grid" /\ tries < Len(Grid) /\ tries' = tries + 1
      /\ UNCHANGED <<phase, call, done, curve>>
      /\ best' = IF Fits(e.len) /\ (best = None \/ e.q > best.q) THEN e ELSE best
    BY DEF TryGrid
<1>2. tries \in Nat /\ QMax \in Nat /\ Len(Grid) \in Nat
    BY TwoPassAssumption DEF TwoPassInv, TypeOK
<1>3. q \in Qs
    BY <1>1, <1>2, TwoPassAssumption
<1>4. e \in Enc /\ e.q = q /\ e.len = curve[q]
    BY <1>1, <1>3, EncodeType
<1>5. e # None
    BY <1>4, NoneAssumption
<1>6. Tried' = Tried \cup {q}
    BY <1>1, <1>2 DEF Tried
<1>7. Cap' = Cap
    BY <1>1, SameCap
<1>8. best # None => best.q \in Tried /\ Fits(curve[best.q]) /\ best.q \in Qs
    BY <1>1 DEF SearchInv, GridIsScanned, TwoPassInv, TypeOK, Enc
<1>9. \A r \in Tried : Fits(curve[r]) => best # None /\ r <= best.q
    BY <1>1 DEF SearchInv, GridIsScanned
<1> HIDE DEF e, q
<1>10. best' # None => best'.q \in Tried' /\ Fits(curve[best'.q])
    BY <1>1, <1>4, <1>6, <1>8
<1>11. ASSUME NEW r \in Tried', Fits(curve[r])
       PROVE  best' # None /\ r <= best'.q
  <2>1. r \in Qs /\ q \in Nat /\ (best # None => best.q \in Nat)
    <3>1. Tried \subseteq Qs
        BY <1>1, <1>2, TwoPassAssumption DEF Tried
    <3> QED
        BY <1>3, <1>6, <1>8, <3>1, <1>2 DEF Qs
  <2>2. CASE r = q
      BY <1>1, <1>4, <1>5, <1>11, <2>1, <2>2
  <2>3. CASE r \in Tried
      BY <1>1, <1>4, <1>5, <1>9, <1>11, <2>1, <2>3 DEF Qs
  <2> QED
      BY <1>6, <2>2, <2>3
<1>12. GridIsScanned'
    BY <1>1, <1>2, <1>7, <1>10, <1>11 DEF GridIsScanned, Fits
<1> QED
    BY <1>1, <1>12 DEF SearchInv, FreshSearch, HalfIsDecided, BisectionIsOrdered, call

\* Both parts that a middle leaves of d + 1 numbers are at most one half.
LEMMA HalfIsLeft ==
    ASSUME NEW d \in Nat, NEW u \in Nat, d + 1 <= u
    PROVE  d - d \div 2 <= u \div 2 /\ d \div 2 <= u \div 2
OBVIOUS

\* One turn of the bisection.
LEMMA TryMidPreserves ==
    ASSUME TwoPassInv, SearchInv, TryMid
    PROVE  SearchInv'
<1> DEFINE m == Mid
<1> DEFINE e == Encode(m)
<1>1. /\ phase = "bisect" /\ tries' = tries + 1 /\ ~Stopped
      /\ UNCHANGED <<phase, call, done, curve>>
      /\ best' = Kept(e)
      /\ \/ /\ Fits(curve[m])
            /\ lo' = m + 1
            /\ UNCHANGED hi
         \/ /\ ~Fits(curve[m]) /\ AtFloor(m)
            /\ lo' = hi + 1
            /\ UNCHANGED hi
         \/ /\ ~Fits(curve[m]) /\ ~AtFloor(m)
            /\ hi' = m - 1
            /\ UNCHANGED lo
    BY DEF TryMid
<1>2. lo \in Nat /\ hi \in Nat /\ hi <= QMax /\ QMax \in Nat /\ tries \in Nat /\ Trials \in Nat
    BY TwoPassAssumption DEF TwoPassInv, TypeOK, Qs
<1>3. lo <= hi /\ tries # Trials
    BY <1>1, <1>2 DEF Stopped
<1>4. m \in Qs /\ lo <= m /\ m <= hi /\ m = lo + (hi - lo) \div 2
    BY <1>3, MidType DEF Mid
<1>5. e \in Enc /\ e.q = m /\ e.len = curve[m]
    BY <1>1, <1>4, EncodeType
<1>6. e # None
    BY <1>5, NoneAssumption
<1>7. Cap' = Cap
    BY <1>1, SameCap
<1>8. mode # "grid" /\ tries <= Trials /\ hi - lo + 1 <= Undecided[tries]
    BY <1>1, <1>3 DEF SearchInv, HalfIsDecided
<1>9. m \in Nat
    BY <1>4, <1>2 DEF Qs
<1> HIDE DEF m, e
<1>10. HalfIsDecided'
  <2>1. /\ Undecided[tries] \in Nat
        /\ Undecided[tries'] = Undecided[tries] \div 2
    <3>1. tries \in 0 .. Trials /\ tries + 1 \in 1 .. Trials /\ (tries + 1) - 1 = tries
        BY <1>2, <1>3, <1>8
    <3>2. Undecided[tries + 1] = Undecided[(tries + 1) - 1] \div 2
        BY <3>1, TrialsHalve
    <3> QED
        BY <1>1, <3>1, <3>2, TrialsHalve
  <2> DEFINE d == hi - lo
  <2>2. d \in Nat /\ d + 1 <= Undecided[tries]
      BY <1>2, <1>3, <1>8
  <2>3. d - d \div 2 <= Undecided[tries'] /\ d \div 2 <= Undecided[tries']
      BY <2>1, <2>2, HalfIsLeft
  <2>4. lo' <= hi' => hi' - lo' + 1 <= Undecided[tries']
    <3>1. CASE lo' = m + 1 /\ hi' = hi
      <4>1. hi' - lo' + 1 = d - d \div 2
          BY <1>2, <1>4, <1>9, <3>1
      <4> QED
          BY <2>3, <4>1
    <3>2. CASE lo' = hi + 1 /\ hi' = hi
        BY <1>2, <3>2
    <3>3. CASE hi' = m - 1 /\ lo' = lo
      <4>1. hi' - lo' + 1 = d \div 2
          BY <1>2, <1>4, <1>9, <3>3
      <4> QED
          BY <2>3, <4>1
    <3> QED
        BY <1>1, <3>1, <3>2, <3>3
  <2> QED
      BY <1>1, <1>2, <1>3, <1>8, <2>4 DEF HalfIsDecided, call
<1>11. BisectionIsOrdered'
  <2> SUFFICES ASSUME Monotone PROVE NothingFits' \/ BestIsBelow'
      BY <1>1 DEF BisectionIsOrdered, Monotone
  <2>1. BestIsBelow
      BY <1>1, <1>2, <1>3 DEF SearchInv, BisectionIsOrdered, NothingFits
  <2>2. curve' = curve
      BY <1>1
  <2>3. CASE Fits(curve[m]) /\ lo' = m + 1 /\ UNCHANGED hi
    <3>1. best' = e
        BY <1>1, <1>5, <2>3 DEF Kept
    <3>2. lo' # 0 /\ lo' - 1 = m /\ lo' <= hi' + 1
        BY <1>2, <1>4, <1>9, <2>3
    <3>3. \A r \in Qs : r > hi' => ~Fits(curve[r])
        BY <2>1, <2>3 DEF BestIsBelow
    <3> QED
        BY <1>5, <1>6, <1>7, <2>2, <2>3, <3>1, <3>2, <3>3 DEF BestIsBelow, Fits
  <2>4. CASE ~Fits(curve[m]) /\ AtFloor(m) /\ lo' = hi + 1 /\ UNCHANGED hi
    <3>1. m = 0 /\ lo = 0
        BY <1>2, <1>4, <2>4 DEF AtFloor
    <3>2. best = None
        BY <2>1, <3>1 DEF BestIsBelow
    <3>3. best' = e
        BY <1>1, <1>5, <3>1, <3>2 DEF Kept, AtFloor
    <3>4. lo' > hi'
        BY <1>2, <2>4
    <3> QED
        BY <1>5, <1>6, <1>7, <2>2, <2>4, <3>1, <3>3, <3>4 DEF NothingFits, Fits
  <2>5. CASE ~Fits(curve[m]) /\ ~AtFloor(m) /\ hi' = m - 1 /\ UNCHANGED lo
    <3>1. best' = best
        BY <1>1, <1>5, <2>5 DEF Kept
    <3>2. lo' <= hi' + 1
        BY <1>2, <1>4, <1>9, <2>5
    <3>3. ASSUME NEW r \in Qs, r > hi'
          PROVE  ~Fits(curve[r])
      <4>1. m <= r
          BY <1>2, <1>9, <2>5, <3>3 DEF Qs
      <4>2. curve[m] <= curve[r]
          BY <1>4, <4>1 DEF Monotone
      <4>3. curve[m] \in Nat /\ curve[r] \in Nat
          BY <1>1, <1>4, TwoPassAssumption DEF TwoPassInv, SearchScope
      <4> QED
          BY <2>5, <4>2, <4>3, ShorterFits
    <3> QED
        BY <1>7, <2>1, <2>2, <2>5, <3>1, <3>2, <3>3 DEF BestIsBelow, Fits
  <2> QED
      BY <1>1, <2>3, <2>4, <2>5
<1> QED
    BY <1>1, <1>10, <1>11 DEF SearchInv, FreshSearch, GridIsScanned

\* A new encoder is not searching.
LEMMA InitSearchInv == Init => SearchInv
BY DEF Init, SearchInv, FreshSearch, GridIsScanned, HalfIsDecided, BisectionIsOrdered

\* Every step of the second pass keeps what a search has found out true.
LEMMA StepSearchInv == TwoPassInv /\ SearchInv /\ [Next]_vars => SearchInv'
<1> SUFFICES ASSUME TwoPassInv, SearchInv, [Next]_vars PROVE SearchInv'
    OBVIOUS
<1>1. CASE Call \/ Return
  <2>1. phase \in {"idle", "frames"} /\ phase' \in {"idle", "frames"} /\ UNCHANGED search
      BY <1>1 DEF Call, Return
  <2> QED
      BY <2>1, NoSearch DEF SearchInv, FreshSearch, search
<1>2. CASE Hold \/ Choose \/ Fail
    BY <1>2, NoSearch DEF Hold, Choose, Fail, Deliver, ClearSearch
<1>3. CASE BeginFrame
  <2>1. /\ phase = "frames" /\ phase' = "decide" /\ UNCHANGED search
        /\ lo = 0 /\ hi = QMax /\ tries = 0 /\ best = None
      BY <1>3 DEF BeginFrame, SearchInv, FreshSearch
  <2>2. Tried' = {} /\ 0 <= Len(Grid)
      BY <2>1, TwoPassAssumption DEF Tried, search
  <2> QED
      BY <2>1, <2>2 DEF SearchInv, FreshSearch, GridIsScanned, HalfIsDecided, BisectionIsOrdered,
                        search
<1>4. CASE Bisect
  <2>1. /\ phase = "decide" /\ mode # "grid" /\ phase' = "bisect"
        /\ UNCHANGED <<call, done, curve, search>>
      BY <1>4 DEF Bisect
  <2>2. lo' = 0 /\ hi' = QMax /\ tries' = 0 /\ best' = None /\ mode' = mode
      BY <2>1 DEF SearchInv, FreshSearch, call, search
  <2>3. QMax \in Nat /\ Trials \in Nat
      BY TwoPassAssumption
  <2>4. HalfIsDecided'
      BY <2>1, <2>2, <2>3, TrialsHalve DEF HalfIsDecided
  <2>5. BestIsBelow'
      BY <2>2, <2>3 DEF BestIsBelow, Qs
  <2> QED
      BY <2>1, <2>4, <2>5 DEF SearchInv, FreshSearch, GridIsScanned, BisectionIsOrdered
<1>5. CASE TryMid \/ TryGrid
    BY <1>5, TryMidPreserves, TryGridPreserves
<1>6. CASE UNCHANGED vars
  <2>1. UNCHANGED <<phase, call, done, curve, search>>
      BY <1>6 DEF vars
  <2>2. Cap' = Cap
      BY <2>1, SameCap
  <2>3. FreshSearch' /\ HalfIsDecided'
      BY <2>1 DEF call, search, SearchInv, FreshSearch, HalfIsDecided
  <2>4. GridIsScanned'
      BY <2>1, <2>2 DEF call, search, SearchInv, GridIsScanned, Tried, Fits
  <2>5. BisectionIsOrdered'
      BY <2>1, <2>2 DEF search, SearchInv, BisectionIsOrdered, NothingFits, BestIsBelow,
                        Monotone, Fits
  <2> QED
      BY <2>3, <2>4, <2>5 DEF SearchInv
<1> QED
    BY <1>1, <1>2, <1>3, <1>4, <1>5, <1>6 DEF Next

\* What a search has found out at each of its trials, in both kinds of search.
THEOREM SearchInvariant == Spec => [](TwoPassInv /\ SearchInv)
<1>1. TwoPassInv /\ SearchInv /\ [Next]_vars => SearchInv'
    BY StepSearchInv
<1> QED
    BY <1>1, InitSearchInv, TwoPassInvariant, PTL DEF Spec

\* A search ends with the highest quality that fits, and with the lowest if
\* none does; of a bisection that holds for frames that get no shorter with
\* quality (encode_at_target_bytes, bisect_q_for_window).
THEOREM TwoPassFindsHighest == Spec => HighestThatFits
<1> DEFINE Highest ==
        LET q == qs'[Len(qs')]
            fitting == {r \in Offered : Fits(curve[r])}
        IN  IF fitting = {} THEN q = 0
            ELSE q \in fitting /\ \A r \in fitting : r <= q
<1>1. ASSUME TwoPassInv, SearchInv, Choose, mode = "grid" \/ Monotone
      PROVE  Highest
  <2> DEFINE e == IF best = None THEN Encode(0) ELSE best
             fitting == {r \in Offered : Fits(curve[r])}
  <2>1. phase \in {"decide", "bisect"} /\ qs' = Append(qs, e.q)
      BY <1>1 DEF Choose, Deliver
  <2>2. e \in Enc /\ (best = None => e.q = 0) /\ (best # None => e = best)
      BY <1>1, <2>1, LowestIsQuality, EncodeType DEF TwoPassInv, TypeOK
  <2> HIDE DEF e
  <2>3. qs \in Seq(Qs) /\ e.q \in Qs /\ QMax \in Nat
      BY <1>1, <2>2, TwoPassAssumption DEF TwoPassInv, TypeOK, Enc
  <2>4. qs'[Len(qs')] = e.q
      BY <2>1, <2>3
  <2>5. IF fitting = {} THEN e.q = 0 ELSE e.q \in fitting /\ \A r \in fitting : r <= e.q
    <3>1. CASE phase = "decide"
      <4>1. mode = "grid" /\ tries = Len(Grid)
          BY <1>1, <3>1 DEF Choose
      <4>2. Offered = Tried
          BY <4>1 DEF Offered, Tried
      <4>3. /\ best # None => best.q \in fitting
            /\ \A r \in fitting : best # None /\ r <= best.q
          BY <1>1, <3>1, <4>1, <4>2 DEF SearchInv, GridIsScanned
      <4> QED
          BY <2>2, <4>3
    <3>2. CASE phase = "bisect"
      <4>1. /\ mode # "grid" /\ Stopped /\ tries <= Trials
            /\ lo <= hi => hi - lo + 1 <= Undecided[tries]
          BY <1>1, <3>2 DEF Choose, SearchInv, HalfIsDecided
      <4>2. lo \in Nat /\ hi \in Qs
          BY <1>1, <2>3 DEF TwoPassInv, TypeOK
      <4>3. lo > hi
          BY <2>3, <4>1, <4>2, TwoPassAssumption DEF Stopped, Qs
      <4>4. Offered = Qs /\ Monotone
          BY <1>1, <4>1 DEF Offered
      <4>5. CASE NothingFits
        <5>1. ASSUME NEW r \in Qs, Fits(curve[r])
              PROVE  FALSE
          <6>1. curve[0] <= curve[r]
              BY <2>3, <4>4 DEF Monotone, Qs
          <6>2. curve[0] \in Nat /\ curve[r] \in Nat
              BY <1>1, <3>2, LowestIsQuality, TwoPassAssumption DEF TwoPassInv, SearchScope
          <6> QED
              BY <1>1, <4>5, <5>1, <6>1, <6>2, ShorterFits DEF NothingFits
        <5> QED
            BY <2>2, <4>4, <4>5, <5>1 DEF NothingFits
      <4>6. CASE BestIsBelow
        <5>1. lo = hi + 1 /\ lo # 0 /\ lo - 1 = hi
            BY <2>3, <4>2, <4>3, <4>6 DEF BestIsBelow, Qs
        <5>2. e.q = hi /\ Fits(curve[hi])
            BY <2>2, <4>6, <5>1 DEF BestIsBelow
        <5>3. \A r \in fitting : r <= hi
            BY <2>3, <4>2, <4>4, <4>6 DEF BestIsBelow, Qs
        <5> QED
            BY <4>2, <4>4, <5>2, <5>3
      <4> QED
          BY <1>1, <3>2, <4>4, <4>5, <4>6 DEF SearchInv, BisectionIsOrdered
    <3> QED
        BY <2>1, <3>1, <3>2
  <2> QED
      BY <2>4, <2>5
<1>2. TwoPassInv /\ SearchInv /\ [Next]_vars
        => [Choose /\ (mode = "grid" \/ Monotone) => Highest]_vars
    BY <1>1
<1> QED
    BY <1>2, SearchInvariant, PTL DEF Spec, HighestThatFits

-----------------------------------------------------------------------------
\* Sums of sequences.

\* A sum is the last of the sums of the first terms.
LEMMA TotalIsLast ==
    ASSUME NEW m \in Nat, NEW s \in [1 .. m -> Nat]
    PROVE  \E g \in [0 .. m -> Nat] :
              /\ g[0] = 0
              /\ \A i \in 1 .. m : g[i] = g[i - 1] + s[i]
              /\ Total(s) = g[m]
<1> DEFINE step == [p \in Nat \X (1 .. m) |-> p[1] + s[p[2]]]
<1> DEFINE sum == CHOOSE g : g = [i \in 0 .. m |-> IF i = 0 THEN 0 ELSE g[i - 1] + s[i]]
<1>1. step \in [Nat \X (1 .. m) -> Nat]
    OBVIOUS
<1>2. PICK g \in Recursion(m, Nat, 0, step) : TRUE
  <2> HIDE DEF step
  <2>1. Recursion(m, Nat, 0, step) # {}
      BY <1>1, RecursionIsDefined
  <2> QED
      BY <2>1
<1>3. g \in [0 .. m -> Nat] /\ g[0] = 0
    BY DEF Recursion
<1>4. ASSUME NEW i \in 1 .. m PROVE g[i] = g[i - 1] + s[i]
  <2>1. g[i] = step[<<g[i - 1], i>>]
      BY DEF Recursion
  <2>2. <<g[i - 1], i>> \in Nat \X (1 .. m)
      BY <1>3
  <2> QED
      BY <2>1, <2>2
<1>5. g = [i \in 0 .. m |-> IF i = 0 THEN 0 ELSE g[i - 1] + s[i]]
    BY <1>3, <1>4
<1>6. sum = [i \in 0 .. m |-> IF i = 0 THEN 0 ELSE sum[i - 1] + s[i]]
    BY <1>5
<1>7. Len(s) = m
    OBVIOUS
<1>8. Total(s) = sum[m]
    BY <1>7 DEF Total
<1> HIDE DEF sum
<1>9. sum[0] = 0 /\ \A i \in 1 .. m : sum[i] = sum[i - 1] + s[i]
    BY <1>6
<1>10. sum[0] \in Nat /\ \A i \in 1 .. m : sum[i - 1] \in Nat => sum[i] = step[<<sum[i - 1], i>>]
    BY <1>9
<1>11. \A i \in 0 .. m : sum[i] \in Nat
  <2> HIDE DEF step
  <2> QED
      BY <1>1, <1>10, RecursionStays
<1>12. sum \in [0 .. m -> Nat]
  <2>1. sum = [i \in 0 .. m |-> sum[i]]
      BY <1>6
  <2> QED
      BY <1>11, <2>1
<1> QED
    BY <1>8, <1>9, <1>12

\* A sum is a number.
LEMMA TotalType ==
    ASSUME NEW m \in Nat, NEW s \in [1 .. m -> Nat]
    PROVE  Total(s) \in Nat
    BY TotalIsLast

\* A sum of one term more.
LEMMA TotalOfOneMore ==
    ASSUME NEW m \in Nat, NEW s \in [1 .. m -> Nat], NEW t \in [1 .. m + 1 -> Nat],
           \A i \in 1 .. m : t[i] = s[i]
    PROVE  Total(t) = Total(s) + t[m + 1]
<1>1. PICK g \in [0 .. m -> Nat] :
         g[0] = 0 /\ (\A i \in 1 .. m : g[i] = g[i - 1] + s[i]) /\ Total(s) = g[m]
    BY TotalIsLast
<1>2. m + 1 \in Nat
    OBVIOUS
<1>3. PICK h \in [0 .. m + 1 -> Nat] :
         h[0] = 0 /\ (\A i \in 1 .. m + 1 : h[i] = h[i - 1] + t[i]) /\ Total(t) = h[m + 1]
    BY <1>2, TotalIsLast
<1> DEFINE T == {i \in 0 .. m : g[i] = h[i]}
<1>4. 0 \in T /\ \A i \in 1 .. m : i - 1 \in T => i \in T
    BY <1>1, <1>3
<1>5. \A i \in 0 .. m : i \in T
  <2> HIDE DEF T
  <2> QED
      BY <1>4, InductionUpTo
<1>6. h[m] = g[m] /\ h[m + 1] = h[m] + t[m + 1]
    BY <1>3, <1>5
<1> QED
    BY <1>1, <1>3, <1>6

\* The sum of nothing.
LEMMA TotalOfNone == Total(<<>>) = 0
<1>1. <<>> \in [1 .. 0 -> Nat]
    OBVIOUS
<1>2. PICK g \in [0 .. 0 -> Nat] : g[0] = 0 /\ Total(<<>>) = g[0]
    BY <1>1, TotalIsLast
<1> QED
    BY <1>2

\* A product.
LEMMA TimesType ==
    ASSUME NEW w \in Nat, NEW x \in Nat
    PROVE  w * x \in Nat
    OBVIOUS

\* A multiple of a sum of two.
LEMMA TimesSum ==
    ASSUME NEW w \in Nat, NEW x \in Nat, NEW y \in Nat
    PROVE  w * (x + y) = w * x + w * y /\ w * x \in Nat
    OBVIOUS

\* D + lambda R of a part, or of a frame without its header.
Rated(w, d, l) == d + w * l

LEMMA RatedType ==
    ASSUME NEW w \in Nat, NEW d \in Nat, NEW l \in Nat
    PROVE  Rated(w, d, l) \in Nat
BY TimesType DEF Rated

\* Two parts that are rated no higher are together rated no higher.
LEMMA RatedSums ==
    ASSUME NEW w \in Nat,
           NEW d1 \in Nat, NEW l1 \in Nat, NEW e1 \in Nat, NEW r1 \in Nat,
           NEW d2 \in Nat, NEW l2 \in Nat, NEW e2 \in Nat, NEW r2 \in Nat,
           Rated(w, d1, l1) <= Rated(w, e1, r1), Rated(w, d2, l2) <= Rated(w, e2, r2)
    PROVE  Rated(w, d1 + d2, l1 + l2) <= Rated(w, e1 + e2, r1 + r2)
<1>1. w * (l1 + l2) = w * l1 + w * l2 /\ w * (r1 + r2) = w * r1 + w * r2
    BY TimesSum
<1>2. w * l1 \in Nat /\ w * l2 \in Nat /\ w * r1 \in Nat /\ w * r2 \in Nat
    BY TimesType
<1> DEFINE x1 == w * l1
           x2 == w * l2
           y1 == w * r1
           y2 == w * r2
<1>3. d1 + x1 <= e1 + y1 /\ d2 + x2 <= e2 + y2
    BY DEF Rated
<1>4. /\ Rated(w, d1 + d2, l1 + l2) = d1 + d2 + (x1 + x2)
      /\ Rated(w, e1 + e2, r1 + r2) = e1 + e2 + (y1 + y2)
    BY <1>1 DEF Rated
<1>5. x1 \in Nat /\ x2 \in Nat /\ y1 \in Nat /\ y2 \in Nat
    BY <1>2
<1> HIDE DEF x1, x2, y1, y2
<1> QED
    BY <1>3, <1>4, <1>5

\* A header more or less on both sides changes nothing.
LEMMA RatedHeader ==
    ASSUME NEW w \in Nat, NEW h \in Nat,
           NEW d \in Nat, NEW l \in Nat, NEW e \in Nat, NEW r \in Nat
    PROVE  d + w * (h + l) <= e + w * (h + r) <=> Rated(w, d, l) <= Rated(w, e, r)
<1>1. w * (h + l) = w * h + w * l /\ w * (h + r) = w * h + w * r
    BY TimesSum
<1>2. w * h \in Nat /\ w * l \in Nat /\ w * r \in Nat
    BY TimesType
<1> DEFINE x == w * h
           y == w * l
           z == w * r
<1>3. d + (x + y) <= e + (x + z) <=> d + y <= e + z
  <2>1. x \in Nat /\ y \in Nat /\ z \in Nat
      BY <1>2
  <2> HIDE DEF x, y, z
  <2> QED
      BY <2>1
<1> QED
    BY <1>1, <1>3 DEF Rated

\* What is rated no higher term by term is rated no higher.
LEMMA TotalsCompare ==
    ASSUME NEW m \in Nat, NEW w \in Nat,
           NEW a \in [1 .. m -> Nat], NEW b \in [1 .. m -> Nat],
           NEW c \in [1 .. m -> Nat], NEW d \in [1 .. m -> Nat],
           \A i \in 1 .. m : Rated(w, a[i], b[i]) <= Rated(w, c[i], d[i])
    PROVE  Rated(w, Total(a), Total(b)) <= Rated(w, Total(c), Total(d))
<1>1. PICK ga \in [0 .. m -> Nat] :
         ga[0] = 0 /\ (\A i \in 1 .. m : ga[i] = ga[i - 1] + a[i]) /\ Total(a) = ga[m]
    BY TotalIsLast
<1>2. PICK gb \in [0 .. m -> Nat] :
         gb[0] = 0 /\ (\A i \in 1 .. m : gb[i] = gb[i - 1] + b[i]) /\ Total(b) = gb[m]
    BY TotalIsLast
<1>3. PICK gc \in [0 .. m -> Nat] :
         gc[0] = 0 /\ (\A i \in 1 .. m : gc[i] = gc[i - 1] + c[i]) /\ Total(c) = gc[m]
    BY TotalIsLast
<1>4. PICK gd \in [0 .. m -> Nat] :
         gd[0] = 0 /\ (\A i \in 1 .. m : gd[i] = gd[i - 1] + d[i]) /\ Total(d) = gd[m]
    BY TotalIsLast
<1> DEFINE T == {i \in 0 .. m : Rated(w, ga[i], gb[i]) <= Rated(w, gc[i], gd[i])}
<1>5. 0 \in T
  <2>1. 0 \in 0 .. m /\ 0 \in Nat
      OBVIOUS
  <2>2. Rated(w, ga[0], gb[0]) = Rated(w, 0, 0) /\ Rated(w, gc[0], gd[0]) = Rated(w, 0, 0)
      BY <1>1, <1>2, <1>3, <1>4
  <2>3. Rated(w, 0, 0) \in Nat
      BY <2>1, RatedType, Zenon
  <2>4. Rated(w, ga[0], gb[0]) <= Rated(w, gc[0], gd[0])
    <3> DEFINE none == Rated(w, 0, 0)
    <3>1. none \in Nat
        BY <2>3
    <3> HIDE DEF none
    <3>2. none <= none
        BY <3>1
    <3> QED
        BY <2>2, <3>2 DEF none
  <2> QED
      BY <2>1, <2>4
<1>6. ASSUME NEW i \in 1 .. m, i - 1 \in T PROVE i \in T
  <2>1. /\ ga[i - 1] \in Nat /\ gb[i - 1] \in Nat /\ gc[i - 1] \in Nat /\ gd[i - 1] \in Nat
        /\ a[i] \in Nat /\ b[i] \in Nat /\ c[i] \in Nat /\ d[i] \in Nat
      OBVIOUS
  <2>2. /\ ga[i] = ga[i - 1] + a[i] /\ gb[i] = gb[i - 1] + b[i]
        /\ gc[i] = gc[i - 1] + c[i] /\ gd[i] = gd[i - 1] + d[i]
      BY <1>1, <1>2, <1>3, <1>4
  <2>3. /\ Rated(w, ga[i - 1], gb[i - 1]) <= Rated(w, gc[i - 1], gd[i - 1])
        /\ Rated(w, a[i], b[i]) <= Rated(w, c[i], d[i])
      BY <1>6
  <2> DEFINE p == ga[i - 1]
             q == gb[i - 1]
             u == gc[i - 1]
             v == gd[i - 1]
  <2>4. Rated(w, p + a[i], q + b[i]) <= Rated(w, u + c[i], v + d[i])
    <3>1. p \in Nat /\ q \in Nat /\ u \in Nat /\ v \in Nat
        BY <2>1
    <3>2. Rated(w, p, q) <= Rated(w, u, v)
        BY <2>3
    <3> HIDE DEF p, q, u, v
    <3> QED
        BY <2>1, <2>3, <3>1, <3>2, RatedSums, Zenon
  <2>5. i \in 0 .. m
      OBVIOUS
  <2> QED
      BY <2>2, <2>4, <2>5
<1>7. \A i \in 0 .. m : i \in T
  <2> HIDE DEF T
  <2> QED
      BY <1>5, <1>6, InductionUpTo
<1>8. m \in T
    BY <1>7
<1> QED
    BY <1>1, <1>2, <1>3, <1>4, <1>8

-----------------------------------------------------------------------------
\* The pickers.

PickTypeOK ==
    /\ method \in {"uniform", "perStrip", "round8"}
    /\ list \in Lists /\ weight \in Weights
    /\ encode \in [Parts -> [Options -> Outcomes \cup {NoFrame}]]
    /\ pc \in {"strips", "whole", "done"}
    /\ nth \in 1 .. Len(Counts) + 1 /\ kth \in 1 .. Len(list)
    /\ chosen \in Seq(Options) /\ measured \in Nat
    /\ {bestStrips, bestWhole} \subseteq [frame : Seq(Options), cost : Nat] \cup {NoFrame}
    /\ method = "uniform" => pc # "strips" /\ ~fellBack
    /\ method = "perStrip" => pc # "whole"
    /\ pc = "whole" /\ method = "round8" => bestStrips # NoFrame
    /\ pc = "strips" => kth = 1

\* A frame of one of the counts, in which no strip fails.
Sound(f) ==
    /\ f \in Seq(Options) /\ Len(f) \in Range(Counts)
    /\ ~Fails(f)

FramesAreSound ==
    /\ bestStrips # NoFrame => Sound(bestStrips.frame)
    /\ bestWhole # NoFrame =>
         Sound(bestWhole.frame) /\ bestWhole.cost = CostOf(bestWhole.frame)

\* What the strip i of c adds to the cost of a frame.
PartCost(c, i, o) == Rated(weight, encode[<<c, i>>][o].sse, encode[<<c, i>>][o].len)

\* No option of the list is cheaper there.
Cheapest(c, i, o) ==
    \A x \in Range(list) :
        encode[<<c, i>>][x] # NoFrame => PartCost(c, i, o) <= PartCost(c, i, x)

\* The strips chosen so far can be encoded, and unless one fell back each is the
\* cheapest, and what was measured is their distortion.
ChosenSoFar ==
    pc = "strips" =>
        /\ chosen # <<>> => nth <= Len(Counts) /\ Len(chosen) <= Counts[nth]
        /\ \A i \in DOMAIN chosen : encode[<<Counts[nth], i>>][chosen[i]] # NoFrame
        /\ ~fellBack =>
             /\ \A i \in DOMAIN chosen : Cheapest(Counts[nth], i, chosen[i])
             /\ measured = Total([i \in DOMAIN chosen |->
                                     encode[<<Counts[nth], i>>][chosen[i]].sse])

\* Where a strip fell back no uniform frame can be encoded.
FallbackFails ==
    fellBack => \E m \in 1 .. Len(Counts) : \A o \in Range(list) : Fails(Uniform(Counts[m], o))

\* A frame that is kept is ranked no higher than any uniform frame of c strips.
Beats(kept, c) ==
    \A o \in Range(list) : LET f == Uniform(c, o) IN
        ~Fails(f) => kept # NoFrame /\ kept.cost <= CostOf(f)

StripsBeat ==
    (method # "uniform" /\ ~fellBack) =>
        \A m \in 1 .. Len(Counts) : (pc # "strips" \/ m < nth) => Beats(bestStrips, Counts[m])

\* So is the best of the uniform frames tried so far, none of which failed.
WholeBeats ==
    pc = "whole" =>
        \A m \in 1 .. Len(Counts), j \in 1 .. Len(list) :
            (m < nth \/ (m = nth /\ j < kth)) =>
                LET f == Uniform(Counts[m], list[j]) IN
                /\ ~Fails(f)
                /\ bestWhole # NoFrame /\ bestWhole.cost <= CostOf(f)

ResultIsCheapest ==
    (method # "perStrip" /\ pc = "done" /\ result # NoFrame) =>
        ~fellBack /\ \A f \in UniformFrames : CostOf(result) <= CostOf(f)

PickInv ==
    /\ PickTypeOK
    /\ FramesAreSound
    /\ ChosenSoFar
    /\ FallbackFails
    /\ RankedByItsOwnCost
    /\ StripsBeat
    /\ WholeBeats
    /\ ResultIsCheapest

\* What an encode of a strip yields.
LEMMA PartType ==
    ASSUME PickTypeOK, NEW c \in Range(Counts), NEW i \in 1 .. c, NEW o \in Options
    PROVE  /\ encode[<<c, i>>][o] \in Outcomes \cup {NoFrame}
           /\ encode[<<c, i>>][o] # NoFrame =>
                encode[<<c, i>>][o].sse \in Nat /\ encode[<<c, i>>][o].len \in Nat
<1>1. <<c, i>> \in Parts
    BY DEF Parts
<1>2. encode \in [Parts -> [Options -> Outcomes \cup {NoFrame}]]
    BY DEF PickTypeOK
<1>3. encode[<<c, i>>][o] \in Outcomes \cup {NoFrame}
    BY <1>1, <1>2
<1> QED
    BY <1>3, PickerAssumption

\* The inputs of a call do not change, nor what is computed from them.
LEMMA InputKept ==
    ASSUME UNCHANGED input
    PROVE  /\ UNCHANGED <<method, list, weight, vintage, encode>>
           /\ \A f : /\ Fails(f)' <=> Fails(f)
                     /\ Sound(f)' <=> Sound(f)
                     /\ CostOf(f)' = CostOf(f)
           /\ UniformFrames' = UniformFrames
BY DEF input, Fails, Sound, CostOf, Length, Distortion, Part, UniformFrames, Invalid

\* The inputs and the counts.
LEMMA PickTypes ==
    ASSUME PickTypeOK
    PROVE  /\ Range(list) \subseteq Options /\ Range(Counts) \subseteq Nat \ {0}
           /\ list \in Seq(Options) /\ Len(list) \in Nat \ {0}
           /\ Counts \in Seq(Nat \ {0}) /\ Len(Counts) \in Nat \ {0}
           /\ weight \in Nat /\ HeaderSize \in Nat
           /\ \A m \in 1 .. Len(Counts) : Counts[m] \in Range(Counts)
           /\ \A j \in 1 .. Len(list) : list[j] \in Range(list)
BY PickerAssumption DEF PickTypeOK, Range

\* A frame that can be encoded has a distortion and a length for each strip.
LEMMA SoundFrame ==
    ASSUME PickTypeOK, NEW f, Sound(f)
    PROVE  /\ Len(f) \in Nat \ {0} /\ DOMAIN f = 1 .. Len(f)
           /\ f \in [1 .. Len(f) -> Options]
           /\ \A i \in 1 .. Len(f) :
                Part(f, i) # NoFrame /\ Part(f, i).sse \in Nat /\ Part(f, i).len \in Nat
           /\ [i \in DOMAIN f |-> Part(f, i).sse] \in [1 .. Len(f) -> Nat]
           /\ [i \in DOMAIN f |-> Part(f, i).len] \in [1 .. Len(f) -> Nat]
           /\ Distortion(f) \in Nat /\ Length(f) \in Nat /\ CostOf(f) \in Nat
<1>1. f \in Seq(Options) /\ Len(f) \in Range(Counts) /\ ~Fails(f)
    BY DEF Sound
<1>2. Len(f) \in Nat \ {0} /\ DOMAIN f = 1 .. Len(f) /\ f \in [1 .. Len(f) -> Options]
    BY <1>1, PickTypes
<1>3. ASSUME NEW i \in 1 .. Len(f)
      PROVE  Part(f, i) # NoFrame /\ Part(f, i).sse \in Nat /\ Part(f, i).len \in Nat
  <2>1. Part(f, i) # NoFrame
      BY <1>1, <1>2 DEF Fails
  <2>2. f[i] \in Options
      BY <1>2
  <2> QED
      BY <1>1, <2>1, <2>2, PartType DEF Part
<1>4. /\ [i \in DOMAIN f |-> Part(f, i).sse] \in [1 .. Len(f) -> Nat]
      /\ [i \in DOMAIN f |-> Part(f, i).len] \in [1 .. Len(f) -> Nat]
    BY <1>2, <1>3
<1>5. /\ Distortion(f) \in Nat
      /\ Total([i \in DOMAIN f |-> Part(f, i).len]) \in Nat
    BY <1>2, <1>4, TotalType DEF Distortion
<1>6. Length(f) \in Nat
    BY <1>5, PickTypes DEF Length
<1>7. weight * Length(f) \in Nat
    BY <1>6, PickTypes, TimesSum
<1> QED
    BY <1>2, <1>3, <1>4, <1>5, <1>6, <1>7 DEF CostOf

\* A frame with one option throughout.
LEMMA UniformFrame ==
    ASSUME PickTypeOK, NEW c \in Range(Counts), NEW o \in Range(list)
    PROVE  /\ Uniform(c, o) \in Seq(Options) /\ Len(Uniform(c, o)) = c
           /\ DOMAIN Uniform(c, o) = 1 .. c
           /\ \A i \in 1 .. c : Part(Uniform(c, o), i) = encode[<<c, i>>][o]
           /\ ~Fails(Uniform(c, o)) => Sound(Uniform(c, o))
<1>1. c \in Nat \ {0} /\ o \in Options
    BY PickTypes
<1>2. /\ Uniform(c, o) \in Seq(Options) /\ Len(Uniform(c, o)) = c
      /\ DOMAIN Uniform(c, o) = 1 .. c
      /\ \A i \in 1 .. c : Uniform(c, o)[i] = o
    BY <1>1 DEF Uniform
<1> QED
    BY <1>2 DEF Part, Sound

\* A frame none of whose strips costs more costs no more.
LEMMA FramesCompare ==
    ASSUME PickTypeOK, NEW f, NEW g, Sound(f), Sound(g), Len(f) = Len(g),
           \A i \in 1 .. Len(f) : PartCost(Len(f), i, f[i]) <= PartCost(Len(f), i, g[i])
    PROVE  CostOf(f) <= CostOf(g)
<1> DEFINE n == Len(f)
           df == [i \in DOMAIN f |-> Part(f, i).sse]
           dg == [i \in DOMAIN g |-> Part(g, i).sse]
           lf == [i \in DOMAIN f |-> Part(f, i).len]
           lg == [i \in DOMAIN g |-> Part(g, i).len]
<1>1. /\ n \in Nat /\ DOMAIN f = 1 .. n /\ DOMAIN g = 1 .. n
      /\ df \in [1 .. n -> Nat] /\ dg \in [1 .. n -> Nat]
      /\ lf \in [1 .. n -> Nat] /\ lg \in [1 .. n -> Nat]
    BY SoundFrame
<1>2. weight \in Nat /\ HeaderSize \in Nat
    BY PickTypes
<1>3. \A i \in 1 .. n : Rated(weight, df[i], lf[i]) <= Rated(weight, dg[i], lg[i])
    BY <1>1 DEF PartCost, Part
<1>4. Rated(weight, Total(df), Total(lf)) <= Rated(weight, Total(dg), Total(lg))
  <2> HIDE DEF df, dg, lf, lg, n
  <2> QED
      BY <1>1, <1>2, <1>3, TotalsCompare
<1>5. CostOf(f) = Total(df) + weight * (HeaderSize + Total(lf))
    BY DEF CostOf, Distortion, Length
<1>6. CostOf(g) = Total(dg) + weight * (HeaderSize + Total(lg))
    BY DEF CostOf, Distortion, Length
<1>7. Total(df) \in Nat /\ Total(lf) \in Nat /\ Total(dg) \in Nat /\ Total(lg) \in Nat
  <2> HIDE DEF df, dg, lf, lg, n
  <2> QED
      BY <1>1, TotalType
<1> HIDE DEF df, dg, lf, lg
<1>8. Total(df) + weight * (HeaderSize + Total(lf))
        <= Total(dg) + weight * (HeaderSize + Total(lg))
    BY <1>2, <1>4, <1>7, RatedHeader
<1> QED
    BY <1>5, <1>6, <1>8, Zenon

\* The trials of a strip have a cheapest one.
LEMMA CheapestFirstWorks ==
    ASSUME PickTypeOK, Strip \in Parts, Works # {}
    PROVE  /\ CheapestFirst \in Works
           /\ \A i \in Works : StripCost(list[CheapestFirst]) <= StripCost(list[i])
<1>1. \A i \in Works : StripCost(list[i]) \in Nat /\ i \in Nat
  <2> TAKE i \in Works
  <2>1. i \in 1 .. Len(list) /\ list[i] \in Options /\ encode[Strip][list[i]] # NoFrame
      BY PickTypes DEF Works
  <2>2. encode[Strip][list[i]] \in Outcomes
      BY <2>1 DEF PickTypeOK
  <2>3. encode[Strip][list[i]].sse \in Nat /\ encode[Strip][list[i]].len \in Nat
      BY <2>2, PickerAssumption
  <2>4. HeaderSize + encode[Strip][list[i]].len \in Nat /\ weight \in Nat
      BY SMTT(30), <2>3, PickTypes
  <2>5. weight * (HeaderSize + encode[Strip][list[i]].len) \in Nat
      BY <2>4, TimesType
  <2>6. encode[Strip][list[i]].sse + weight * (HeaderSize + encode[Strip][list[i]].len) \in Nat
      BY <2>3, <2>5
  <2> QED
      BY <2>1, <2>6 DEF StripCost
<1> DEFINE Costs == {StripCost(list[i]) : i \in Works}
<1>2. PICK least \in Costs : \A k \in Costs : least <= k
  <2>1. Costs \subseteq Nat /\ Costs # {}
      BY <1>1
  <2> HIDE DEF Costs
  <2> QED
      BY <2>1, LeastNatural
<1> DEFINE Cheap == {i \in Works : StripCost(list[i]) = least}
<1>3. PICK j \in Cheap : \A k \in Cheap : j <= k
  <2>1. Cheap \subseteq Nat /\ Cheap # {}
      BY <1>1, <1>2
  <2> HIDE DEF Cheap
  <2> QED
      BY <2>1, LeastNatural
<1>4. j \in Works /\ \A i \in Works :
         /\ StripCost(list[j]) <= StripCost(list[i])
         /\ StripCost(list[j]) = StripCost(list[i]) => j <= i
    BY <1>2, <1>3
<1> QED
    BY <1>4 DEF CheapestFirst

\* Of two frames the one that is kept is ranked no higher than either.
LEMMA KeepsTheBetter ==
    ASSUME NEW new, NEW old, new # NoFrame, new.cost \in Nat,
           old # NoFrame => old.cost \in Nat
    PROVE  /\ Keep(new, old) \in {new, old} /\ Keep(new, old) # NoFrame
           /\ Keep(new, old).cost <= new.cost
           /\ old # NoFrame => Keep(new, old).cost <= old.cost
BY DEF Keep, Better

\* A frame behind a cost is one.
LEMMA RankedFrame ==
    ASSUME NEW f \in Seq(Options), NEW cost \in Nat
    PROVE  /\ Ranked(f, cost) \in [frame : Seq(Options), cost : Nat]
           /\ Ranked(f, cost) # NoFrame
           /\ Ranked(f, cost).frame = f /\ Ranked(f, cost).cost = cost
BY PickerAssumption DEF Ranked

\* A uniform frame is one of a count and an option, each at its place.
LEMMA UniformFramesAre ==
    ASSUME NEW f \in UniformFrames
    PROVE  \E m \in 1 .. Len(Counts), j \in DOMAIN list :
              f = Uniform(Counts[m], list[j]) /\ ~Fails(f)
BY PickerAssumption DEF UniformFrames, Invalid, Range

\* A new call has tried nothing.
LEMMA PickStarts == PickInit => PickInv
<1> SUFFICES ASSUME PickInit PROVE PickInv
    OBVIOUS
<1> USE DEF PickInit
<1>1. Len(Counts) \in Nat \ {0} /\ list \in Seq(Options) /\ Len(list) \in Nat \ {0}
    BY PickerAssumption
<1>2. PickTypeOK
    BY <1>1 DEF PickTypeOK
<1>3. FramesAreSound /\ FallbackFails /\ RankedByItsOwnCost /\ WholeBeats /\ ResultIsCheapest
    BY <1>1 DEF FramesAreSound, FallbackFails, RankedByItsOwnCost, WholeBeats, ResultIsCheapest
<1>4. ChosenSoFar
  <2>1. DOMAIN chosen = {}
      OBVIOUS
  <2>2. [i \in DOMAIN chosen |-> encode[<<Counts[nth], i>>][chosen[i]].sse] = <<>>
      BY <2>1
  <2> QED
      BY <2>1, <2>2, TotalOfNone DEF ChosenSoFar
<1>5. StripsBeat
    BY <1>1 DEF StripsBeat
<1> QED
    BY <1>2, <1>3, <1>4, <1>5 DEF PickInv

\* A trial of a whole frame.
LEMMA TryWholeKeeps == PickInv /\ TryWhole => PickInv'
<1> SUFFICES ASSUME PickInv, TryWhole PROVE PickInv'
    OBVIOUS
<1> DEFINE f == Uniform(Counts[nth], list[kth])
<1>1. /\ PickTypeOK /\ FramesAreSound /\ FallbackFails /\ RankedByItsOwnCost
      /\ StripsBeat /\ WholeBeats
    BY DEF PickInv
<1>2. pc = "whole" /\ nth \in 1 .. Len(Counts) /\ kth \in 1 .. Len(list)
    BY <1>1 DEF TryWhole, PickTypeOK
<1>3. UNCHANGED input /\ UNCHANGED <<chosen, measured, bestStrips, fellBack>>
    BY DEF TryWhole
<1>4. /\ UNCHANGED <<method, list, weight, vintage, encode>>
      /\ \A g : (Fails(g)' <=> Fails(g)) /\ (Sound(g)' <=> Sound(g)) /\ CostOf(g)' = CostOf(g)
    BY <1>3, InputKept
<1>5. pc' \in {"whole", "done"}
    BY <1>2 DEF TryWhole
<1>6. Len(Counts) \in Nat /\ Len(list) \in Nat
    BY <1>1, PickTypes
<1>7. ChosenSoFar' /\ FallbackFails' /\ RankedByItsOwnCost' /\ StripsBeat'
    BY <1>1, <1>2, <1>3, <1>4, <1>5
       DEF ChosenSoFar, FallbackFails, RankedByItsOwnCost, StripsBeat, Beats
<1>8. CASE Invalid(f)
  <2>1. result' = NoFrame /\ pc' = "done" /\ UNCHANGED <<nth, kth, bestWhole>>
      BY <1>8 DEF TryWhole
  <2>2. PickTypeOK'
      BY <1>1, <1>2, <1>3, <1>4, <2>1 DEF PickTypeOK
  <2>3. FramesAreSound' /\ WholeBeats' /\ ResultIsCheapest'
      BY <1>1, <1>3, <1>4, <2>1 DEF FramesAreSound, WholeBeats, ResultIsCheapest
  <2> QED
      BY <1>7, <2>2, <2>3 DEF PickInv
<1>9. CASE ~Invalid(f)
  <2> DEFINE new == Ranked(f, CostOf(f))
  <2>1. /\ bestWhole' = Keep(new, bestWhole)
        /\ nth' = IF kth < Len(list) THEN nth ELSE nth + 1
        /\ kth' = IF kth < Len(list) THEN kth + 1 ELSE 1
        /\ UNCHANGED <<result, pc>>
      BY <1>9 DEF TryWhole
  <2>2. Counts[nth] \in Range(Counts) /\ list[kth] \in Range(list)
      BY <1>1, <1>2, PickTypes
  <2>3. ~Fails(f) /\ Sound(f)
      BY <1>1, <1>9, <2>2, UniformFrame DEF Invalid
  <2>4. f \in Seq(Options) /\ CostOf(f) \in Nat
      BY <1>1, <2>3, SoundFrame DEF Sound
  <2>5. /\ new \in [frame : Seq(Options), cost : Nat] /\ new # NoFrame
        /\ new.frame = f /\ new.cost = CostOf(f)
      BY <2>4, RankedFrame
  <2>6. bestWhole # NoFrame => bestWhole.cost \in Nat
      BY <1>1 DEF PickTypeOK
  <2>7. /\ bestWhole' \in {new, bestWhole} /\ bestWhole' # NoFrame
        /\ bestWhole'.cost <= CostOf(f)
        /\ bestWhole # NoFrame => bestWhole'.cost <= bestWhole.cost
    <3> HIDE DEF new
    <3> QED
        BY <2>1, <2>5, <2>6, KeepsTheBetter
  <2> HIDE DEF new
  <2>8. PickTypeOK'
    <3>1. bestWhole' \in [frame : Seq(Options), cost : Nat] \cup {NoFrame}
        BY <1>1, <2>5, <2>7 DEF PickTypeOK
    <3>2. nth' \in 1 .. Len(Counts) + 1 /\ kth' \in 1 .. Len(list)
        BY <1>2, <1>6, <2>1
    <3> QED
        BY <1>1, <1>2, <1>3, <1>4, <2>1, <3>1, <3>2 DEF PickTypeOK
  <2>9. FramesAreSound'
    <3>1. Sound(bestWhole'.frame) /\ bestWhole'.cost = CostOf(bestWhole'.frame)
        BY <1>1, <2>3, <2>5, <2>7 DEF FramesAreSound
    <3> QED
        BY <1>1, <1>3, <1>4, <3>1 DEF FramesAreSound
  <2>10. WholeBeats'
    <3> SUFFICES ASSUME NEW m \in 1 .. Len(Counts), NEW j \in 1 .. Len(list),
                        m < nth' \/ (m = nth' /\ j < kth')
                 PROVE  /\ ~Fails(Uniform(Counts[m], list[j]))
                        /\ bestWhole'.cost <= CostOf(Uniform(Counts[m], list[j]))
        BY <1>4, <2>7 DEF WholeBeats
    <3>1. CASE m = nth /\ j = kth
        BY <2>3, <2>7, <3>1
    <3>2. CASE m < nth \/ (m = nth /\ j < kth)
      <4>1. /\ ~Fails(Uniform(Counts[m], list[j])) /\ bestWhole # NoFrame
            /\ bestWhole.cost <= CostOf(Uniform(Counts[m], list[j]))
          BY <1>1, <1>2, <3>2 DEF WholeBeats
      <4>2. bestWhole'.cost \in Nat /\ bestWhole.cost \in Nat
          BY <2>4, <2>5, <2>6, <2>7, <4>1
      <4>3. CostOf(Uniform(Counts[m], list[j])) \in Nat
          BY <1>1, <4>1, PickTypes, UniformFrame, SoundFrame
      <4> QED
          BY <2>7, <4>1, <4>2, <4>3
    <3>3. (m = nth /\ j = kth) \/ (m < nth \/ (m = nth /\ j < kth))
        BY <1>2, <1>6, <2>1
    <3> QED
        BY <3>1, <3>2, <3>3
  <2>11. ResultIsCheapest'
      BY <1>2, <2>1 DEF ResultIsCheapest
  <2> QED
      BY <1>7, <2>8, <2>9, <2>10, <2>11 DEF PickInv
<1> QED
    BY <1>8, <1>9

\* The better of the whole frames, and of the frame of the strips, is returned.
LEMMA ReturnWholeKeeps == PickInv /\ ReturnWhole => PickInv'
<1> SUFFICES ASSUME PickInv, ReturnWhole PROVE PickInv'
    OBVIOUS
<1>1. /\ PickTypeOK /\ FramesAreSound /\ FallbackFails /\ RankedByItsOwnCost
      /\ StripsBeat /\ WholeBeats
    BY DEF PickInv
<1>2. pc = "whole" /\ nth > Len(Counts) /\ pc' = "done"
    BY DEF ReturnWhole
<1>3. UNCHANGED input /\ UNCHANGED <<nth, kth, chosen, measured, bestStrips, bestWhole, fellBack>>
    BY DEF ReturnWhole
<1>4. /\ UNCHANGED <<method, list, weight, vintage, encode>>
      /\ \A g : (Fails(g)' <=> Fails(g)) /\ (Sound(g)' <=> Sound(g)) /\ CostOf(g)' = CostOf(g)
      /\ UniformFrames' = UniformFrames
    BY <1>3, InputKept
<1>5. /\ PickTypeOK' /\ FramesAreSound' /\ ChosenSoFar' /\ FallbackFails'
      /\ RankedByItsOwnCost' /\ StripsBeat' /\ WholeBeats'
    BY <1>1, <1>2, <1>3, <1>4
       DEF PickTypeOK, FramesAreSound, ChosenSoFar, FallbackFails, RankedByItsOwnCost,
           StripsBeat, WholeBeats, Beats
<1>6. \A m \in 1 .. Len(Counts), j \in 1 .. Len(list) :
         LET f == Uniform(Counts[m], list[j])
         IN  ~Fails(f) /\ bestWhole # NoFrame /\ bestWhole.cost <= CostOf(f)
    BY <1>1, <1>2, PickTypes DEF WholeBeats, PickTypeOK
<1>7. ~fellBack
  <2>1. list[1] \in Range(list) /\ 1 \in 1 .. Len(list)
      BY <1>1, PickTypes
  <2> QED
      BY <1>1, <1>6, <2>1 DEF FallbackFails
<1>8. Sound(bestWhole.frame) /\ bestWhole.cost = CostOf(bestWhole.frame)
  <2>1. 1 \in 1 .. Len(Counts) /\ 1 \in 1 .. Len(list)
      BY <1>1, PickTypes
  <2> QED
      BY <1>1, <1>6, <2>1 DEF FramesAreSound
<1>9. CostOf(result') <= CostOf(bestWhole.frame)
  <2>1. CostOf(bestWhole.frame) \in Nat
      BY <1>1, <1>8, SoundFrame
  <2>2. CASE method = "round8"
    <3>1. Sound(bestStrips.frame)
        BY <1>1, <1>2, <2>2 DEF PickTypeOK, FramesAreSound
    <3>2. CostOf(bestStrips.frame) \in Nat
        BY <1>1, <3>1, SoundFrame
    <3>3. result' = Preferred(bestStrips.frame, bestWhole.frame)
        BY <2>2 DEF ReturnWhole
    <3> QED
        BY <2>1, <3>2, <3>3 DEF Preferred
  <2>3. CASE method # "round8"
      BY <2>1, <2>3 DEF ReturnWhole
  <2> QED
      BY <2>2, <2>3
<1>10. CostOf(result') \in Nat
  <2>1. result' = bestWhole.frame \/ (method = "round8" /\ result' = bestStrips.frame)
      BY DEF ReturnWhole, Preferred
  <2>2. Sound(result')
      BY <1>1, <1>2, <1>8, <2>1 DEF PickTypeOK, FramesAreSound
  <2> QED
      BY <1>1, <2>2, SoundFrame
<1>11. ASSUME NEW f \in UniformFrames PROVE CostOf(result') <= CostOf(f)
  <2>1. PICK m \in 1 .. Len(Counts), j \in DOMAIN list :
           f = Uniform(Counts[m], list[j]) /\ ~Fails(f)
      BY UniformFramesAre
  <2>2. j \in 1 .. Len(list)
      BY <1>1, PickTypes
  <2>3. bestWhole.cost <= CostOf(f)
      BY <1>6, <2>1, <2>2
  <2>4. CostOf(f) \in Nat /\ bestWhole.cost \in Nat
      BY <1>1, <1>8, <2>1, <2>2, PickTypes, UniformFrame, SoundFrame
  <2> QED
      BY <1>8, <1>9, <1>10, <2>3, <2>4
<1>12. ResultIsCheapest'
  <2>1. \A f \in UniformFrames : CostOf(result)' <= CostOf(f)'
      BY <1>4, <1>11
  <2> QED
      BY <1>3, <1>4, <1>7, <2>1 DEF ResultIsCheapest
<1> QED
    BY <1>5, <1>12 DEF PickInv

\* The strip that is next is one of the count that is tried.
LEMMA NextStrip ==
    ASSUME PickTypeOK, pc = "strips", nth <= Len(Counts), Len(chosen) < Counts[nth]
    PROVE  /\ nth \in 1 .. Len(Counts) /\ Counts[nth] \in Range(Counts)
           /\ chosen \in Seq(Options) /\ Len(chosen) \in Nat
           /\ Len(chosen) + 1 \in 1 .. Counts[nth] /\ Strip \in Parts
           /\ method # "uniform" /\ kth = 1
<1>1. nth \in 1 .. Len(Counts) /\ Counts[nth] \in Range(Counts)
    BY PickTypes DEF PickTypeOK
<1>2. chosen \in Seq(Options) /\ Len(chosen) \in Nat /\ method # "uniform" /\ kth = 1
    BY DEF PickTypeOK
<1>3. Counts[nth] \in Nat \ {0}
    BY <1>1, PickTypes
<1>4. Len(chosen) + 1 \in 1 .. Counts[nth]
    BY <1>2, <1>3
<1> QED
    BY <1>1, <1>2, <1>4 DEF Strip, Parts

\* Where no option works no uniform frame of that count can be encoded.
LEMMA NothingWorks ==
    ASSUME PickTypeOK, pc = "strips", nth <= Len(Counts), Len(chosen) < Counts[nth],
           Works = {}
    PROVE  \A o \in Range(list) : Fails(Uniform(Counts[nth], o))
<1> TAKE o \in Range(list)
<1>1. PICK j \in 1 .. Len(list) : o = list[j]
    BY PickTypes DEF Range
<1>2. encode[Strip][o] = NoFrame
    BY <1>1 DEF Works
<1> DEFINE i == Len(chosen) + 1
<1>3. Counts[nth] \in Range(Counts) /\ i \in 1 .. Counts[nth] /\ Strip = <<Counts[nth], i>>
    BY NextStrip DEF Strip
<1>4. /\ i \in DOMAIN Uniform(Counts[nth], o)
      /\ Part(Uniform(Counts[nth], o), i) = NoFrame
    BY <1>2, <1>3, UniformFrame
<1> QED
    BY <1>4 DEF Fails

\* Nothing is measured where nothing is chosen.
LEMMA NothingChosen ==
    ASSUME NEW c
    PROVE  [i \in DOMAIN <<>> |-> encode[<<c, i>>][<<>>[i]].sse] = <<>>
<1>1. DOMAIN <<>> = {}
    OBVIOUS
<1> QED
    BY <1>1

\* The cheapest trial of a strip adds the least to the cost of a frame, for the
\* headers of the trials are of one length.
LEMMA CheapestTrial ==
    ASSUME PickTypeOK, pc = "strips", nth <= Len(Counts), Len(chosen) < Counts[nth],
           Works # {}
    PROVE  /\ list[CheapestFirst] \in Options
           /\ encode[Strip][list[CheapestFirst]] # NoFrame
           /\ Cheapest(Counts[nth], Len(chosen) + 1, list[CheapestFirst])
<1>1. Strip \in Parts /\ Strip = <<Counts[nth], Len(chosen) + 1>>
    BY NextStrip DEF Strip
<1>2. /\ CheapestFirst \in Works
      /\ \A i \in Works : StripCost(list[CheapestFirst]) <= StripCost(list[i])
    BY <1>1, CheapestFirstWorks
<1> DEFINE o == list[CheapestFirst]
<1>3. o \in Options /\ encode[Strip][o] # NoFrame
    BY <1>2, PickTypes DEF Works
<1> DEFINE RatedAs(x) == Rated(weight, encode[Strip][x].sse, encode[Strip][x].len)
<1>4. ASSUME NEW x \in Range(list), encode[Strip][x] # NoFrame
      PROVE  RatedAs(o) <= RatedAs(x)
  <2>1. PICK i \in 1 .. Len(list) : x = list[i]
      BY PickTypes DEF Range
  <2>2. i \in Works
      BY <1>4, <2>1 DEF Works
  <2>3. StripCost(o) <= StripCost(x)
      BY <1>2, <2>1, <2>2
  <2>4. x \in Options
      BY PickTypes
  <2>5. /\ encode[Strip][o] \in Outcomes /\ encode[Strip][x] \in Outcomes
      BY <1>1, <1>3, <1>4, <2>4 DEF PickTypeOK
  <2>6. /\ encode[Strip][o].sse \in Nat /\ encode[Strip][o].len \in Nat
        /\ encode[Strip][x].sse \in Nat /\ encode[Strip][x].len \in Nat
        /\ weight \in Nat /\ HeaderSize \in Nat
      BY <2>5, PickerAssumption, PickTypes
  <2> HIDE DEF o
  <2> QED
      BY <2>3, <2>6, RatedHeader DEF StripCost
<1> QED
    BY <1>1, <1>3, <1>4 DEF Cheapest, PartCost

\* A strip takes the option that is cheapest for it.
LEMMA PickStripKeeps == PickInv /\ PickStrip => PickInv'
<1> SUFFICES ASSUME PickInv, PickStrip PROVE PickInv'
    OBVIOUS
<1> DEFINE o == list[CheapestFirst]
           c == Counts[nth]
           n == Len(chosen)
<1>1. /\ PickTypeOK /\ FramesAreSound /\ FallbackFails /\ RankedByItsOwnCost
      /\ StripsBeat /\ WholeBeats /\ ChosenSoFar
    BY DEF PickInv
<1>2. /\ pc = "strips" /\ nth <= Len(Counts) /\ n < c /\ Works # {}
      /\ chosen' = Append(chosen, o)
      /\ measured' = measured + encode[Strip][o].sse
    BY DEF PickStrip, Winner
<1>3. UNCHANGED input /\ UNCHANGED <<pc, nth, kth, bestStrips, bestWhole, result, fellBack>>
    BY DEF PickStrip
<1>4. /\ UNCHANGED <<method, list, weight, vintage, encode>>
      /\ \A g : (Fails(g)' <=> Fails(g)) /\ (Sound(g)' <=> Sound(g)) /\ CostOf(g)' = CostOf(g)
    BY <1>3, InputKept
<1>5. /\ c \in Range(Counts) /\ chosen \in Seq(Options) /\ n \in Nat
      /\ n + 1 \in 1 .. c /\ Strip = <<c, n + 1>> /\ c \in Nat
    BY <1>1, <1>2, NextStrip, PickTypes DEF Strip
<1>6. o \in Options /\ encode[Strip][o] # NoFrame /\ Cheapest(c, n + 1, o)
    BY <1>1, <1>2, CheapestTrial
<1>7. /\ chosen' \in Seq(Options) /\ Len(chosen') = n + 1
      /\ DOMAIN chosen = 1 .. n /\ DOMAIN chosen' = 1 .. n + 1
      /\ chosen'[n + 1] = o /\ \A i \in 1 .. n : chosen'[i] = chosen[i]
      /\ \A i \in 1 .. n + 1 : chosen'[i] \in Options
  <2> HIDE DEF o
  <2> QED
      BY <1>2, <1>5, <1>6
<1>8. \A i \in 1 .. n : encode[<<c, i>>][chosen[i]] # NoFrame
    BY <1>1, <1>2, <1>7 DEF ChosenSoFar
<1>9. \A i \in 1 .. n + 1 : encode[<<c, i>>][chosen'[i]] # NoFrame
  <2> TAKE i \in 1 .. n + 1
  <2>1. CASE i = n + 1
      BY <1>5, <1>6, <1>7, <2>1
  <2>2. CASE i \in 1 .. n
      BY <1>7, <1>8, <2>2
  <2> QED
      BY <1>5, <2>1, <2>2
<1>10. \A i \in 1 .. n + 1 : encode[<<c, i>>][chosen'[i]].sse \in Nat
  <2> TAKE i \in 1 .. n + 1
  <2>1. i \in 1 .. c
      BY <1>5
  <2> QED
      BY <1>1, <1>5, <1>7, <1>9, <2>1, PartType
<1>11. encode[Strip][o].sse \in Nat
  <2>1. n + 1 \in 1 .. n + 1
      BY <1>5
  <2>2. encode[<<c, n + 1>>][chosen'[n + 1]].sse \in Nat
      BY <1>10, <2>1
  <2> QED
      BY <1>5, <1>7, <2>2
<1>12. PickTypeOK'
  <2> DEFINE more == encode[Strip][o].sse
  <2>1. measured' \in Nat
    <3>1. measured \in Nat
        BY <1>1 DEF PickTypeOK
    <3>2. measured' = measured + more /\ more \in Nat
        BY <1>2, <1>11
    <3> HIDE DEF more
    <3> QED
        BY <3>1, <3>2
  <2> QED
      BY <1>1, <1>3, <1>4, <1>7, <2>1 DEF PickTypeOK
<1>13. ChosenSoFar'
  <2>1. ASSUME ~fellBack, NEW i \in 1 .. n + 1 PROVE Cheapest(Counts[nth], i, chosen[i])'
    <3>1. Cheapest(c, i, chosen'[i])
      <4>1. CASE i = n + 1
          BY <1>6, <1>7, <4>1
      <4>2. CASE i \in 1 .. n
          BY <1>1, <1>2, <1>7, <2>1, <4>2 DEF ChosenSoFar
      <4> QED
          BY <1>5, <4>1, <4>2
    <3> QED
        BY <1>3, <1>4, <3>1 DEF Cheapest, PartCost
  <2>2. ASSUME ~fellBack
        PROVE  measured' = Total([i \in DOMAIN chosen' |-> encode[<<c, i>>][chosen'[i]].sse])
    <3> DEFINE s == [i \in DOMAIN chosen |-> encode[<<c, i>>][chosen[i]].sse]
               t == [i \in DOMAIN chosen' |-> encode[<<c, i>>][chosen'[i]].sse]
    <3>1. measured = Total(s)
        BY <1>1, <1>2, <2>2 DEF ChosenSoFar
    <3>2. t \in [1 .. n + 1 -> Nat]
        BY <1>7, <1>10
    <3>3. \A i \in 1 .. n : i \in 1 .. n + 1 /\ s[i] = t[i]
        BY <1>5, <1>7
    <3>4. s \in [1 .. n -> Nat]
        BY <1>7, <3>2, <3>3
    <3>5. t[n + 1] = encode[Strip][o].sse
        BY <1>5, <1>7
    <3> HIDE DEF s, t, n, o
    <3>6. Total(t) = Total(s) + t[n + 1]
        BY <1>5, <3>2, <3>3, <3>4, TotalOfOneMore
    <3> QED
        BY <1>2, <3>1, <3>5, <3>6 DEF t
  <2>3. Len(chosen') <= c
      BY <1>5, <1>7
  <2> QED
      BY <1>2, <1>3, <1>4, <1>7, <1>9, <2>1, <2>2, <2>3 DEF ChosenSoFar
<1>14. /\ FramesAreSound' /\ FallbackFails' /\ RankedByItsOwnCost'
       /\ StripsBeat' /\ WholeBeats' /\ ResultIsCheapest'
    BY <1>1, <1>2, <1>3, <1>4
       DEF FramesAreSound, FallbackFails, RankedByItsOwnCost, StripsBeat, WholeBeats,
           Beats, ResultIsCheapest
<1> QED
    BY <1>12, <1>13, <1>14 DEF PickInv

\* A strip falls back where no uniform frame of the count can be encoded.
LEMMA FallBackKeeps == PickInv /\ FallBack => PickInv'
<1> SUFFICES ASSUME PickInv, FallBack PROVE PickInv'
    OBVIOUS
<1> DEFINE c == Counts[nth]
           n == Len(chosen)
<1>1. PickTypeOK /\ FramesAreSound /\ WholeBeats /\ ChosenSoFar
    BY DEF PickInv
<1>2. /\ pc = "strips" /\ nth <= Len(Counts) /\ n < c /\ Works = {}
      /\ encode[Strip][Default] # NoFrame
      /\ chosen' = Append(chosen, Default) /\ fellBack' = TRUE
    BY DEF FallBack
<1>3. UNCHANGED input /\ UNCHANGED <<pc, nth, kth, measured, bestStrips, bestWhole, result>>
    BY DEF FallBack
<1>4. /\ UNCHANGED <<method, list, weight, vintage, encode>>
      /\ \A g : (Fails(g)' <=> Fails(g)) /\ (Sound(g)' <=> Sound(g)) /\ CostOf(g)' = CostOf(g)
    BY <1>3, InputKept
<1>5. /\ nth \in 1 .. Len(Counts) /\ c \in Range(Counts)
      /\ chosen \in Seq(Options) /\ n \in Nat
      /\ n + 1 \in 1 .. c /\ Strip = <<c, n + 1>> /\ c \in Nat /\ method # "uniform"
    BY <1>1, <1>2, NextStrip, PickTypes DEF Strip
<1>6. /\ chosen' \in Seq(Options) /\ Len(chosen') = n + 1
      /\ DOMAIN chosen = 1 .. n /\ DOMAIN chosen' = 1 .. n + 1
      /\ chosen'[n + 1] = Default /\ \A i \in 1 .. n : chosen'[i] = chosen[i]
    BY <1>2, <1>5, PickerAssumption
<1>7. \A i \in 1 .. n + 1 : encode[<<c, i>>][chosen'[i]] # NoFrame
  <2> TAKE i \in 1 .. n + 1
  <2>1. CASE i = n + 1
      BY <1>2, <1>5, <1>6, <2>1
  <2>2. CASE i \in 1 .. n
      BY <1>1, <1>2, <1>6, <2>2 DEF ChosenSoFar
  <2> QED
      BY <1>5, <2>1, <2>2
<1>8. PickTypeOK'
    BY <1>1, <1>3, <1>4, <1>5, <1>6, <1>2 DEF PickTypeOK
<1>9. ChosenSoFar'
  <2>1. Len(chosen') <= c
      BY <1>5, <1>6
  <2> QED
      BY <1>2, <1>3, <1>4, <1>6, <1>7, <2>1 DEF ChosenSoFar
<1>10. FallbackFails'
  <2>1. \A o \in Range(list) : Fails(Uniform(Counts[nth], o))
      BY <1>1, <1>2, NothingWorks
  <2> QED
      BY <1>4, <1>5, <2>1 DEF FallbackFails
<1>11. /\ FramesAreSound' /\ RankedByItsOwnCost' /\ StripsBeat' /\ WholeBeats'
       /\ ResultIsCheapest'
    BY <1>1, <1>2, <1>3, <1>4
       DEF FramesAreSound, RankedByItsOwnCost, StripsBeat, WholeBeats, ResultIsCheapest
<1> QED
    BY <1>8, <1>9, <1>10, <1>11 DEF PickInv

\* With the next count nothing is chosen.
LEMMA NextCountChoosesNothing ==
    ASSUME NextCount, UNCHANGED <<encode, fellBack>>
    PROVE  ChosenSoFar'
<1>1. chosen' = <<>> /\ measured' = 0
    BY DEF NextCount
<1>2. DOMAIN chosen' = {}
    BY <1>1
<1>3. [i \in DOMAIN chosen' |-> encode'[<<Counts[nth'], i>>][chosen'[i]].sse] = <<>>
    BY <1>2
<1> QED
    BY <1>1, <1>2, <1>3, TotalOfNone DEF ChosenSoFar

\* A count is given up where no uniform frame of it can be encoded either.
LEMMA AbandonCountKeeps == PickInv /\ AbandonCount => PickInv'
<1> SUFFICES ASSUME PickInv, AbandonCount PROVE PickInv'
    OBVIOUS
<1>1. /\ PickTypeOK /\ FramesAreSound /\ FallbackFails /\ RankedByItsOwnCost
      /\ StripsBeat /\ WholeBeats
    BY DEF PickInv
<1>2. /\ pc = "strips" /\ nth <= Len(Counts) /\ Len(chosen) < Counts[nth] /\ Works = {}
      /\ NextCount
    BY DEF AbandonCount
<1>3. UNCHANGED input /\ UNCHANGED <<pc, kth, bestStrips, bestWhole, result, fellBack>>
    BY DEF AbandonCount
<1>4. /\ UNCHANGED <<method, list, weight, vintage, encode>>
      /\ \A g : (Fails(g)' <=> Fails(g)) /\ (Sound(g)' <=> Sound(g)) /\ CostOf(g)' = CostOf(g)
    BY <1>3, InputKept
<1>5. nth \in 1 .. Len(Counts) /\ nth' = nth + 1 /\ chosen' = <<>> /\ measured' = 0
    BY <1>1, <1>2, NextStrip DEF NextCount
<1>6. PickTypeOK'
    BY <1>1, <1>3, <1>4, <1>5, PickTypes DEF PickTypeOK
<1>7. StripsBeat'
  <2> SUFFICES ASSUME method # "uniform", ~fellBack,
                      NEW m \in 1 .. Len(Counts), m < nth'
               PROVE  Beats(bestStrips, Counts[m])'
      BY <1>2, <1>3, <1>4 DEF StripsBeat
  <2>1. Beats(bestStrips, Counts[m])
    <3>1. CASE m < nth
        BY <1>1, <3>1 DEF StripsBeat
    <3>2. CASE m = nth
        BY <1>1, <1>2, <3>2, NothingWorks DEF Beats
    <3> QED
        BY <1>5, <3>1, <3>2
  <2> QED
      BY <1>3, <1>4, <2>1 DEF Beats
<1>8. ChosenSoFar'
    BY <1>2, <1>3, <1>4, NextCountChoosesNothing
<1>9. /\ FramesAreSound' /\ FallbackFails' /\ RankedByItsOwnCost' /\ WholeBeats'
      /\ ResultIsCheapest'
    BY <1>1, <1>2, <1>3, <1>4
       DEF FramesAreSound, FallbackFails, RankedByItsOwnCost, WholeBeats, ResultIsCheapest
<1> QED
    BY <1>6, <1>7, <1>8, <1>9 DEF PickInv

\* The frame of the strips, each the cheapest, costs no more than any uniform
\* frame of the count.
LEMMA AssembleFrameKeeps == PickInv /\ AssembleFrame => PickInv'
<1> SUFFICES ASSUME PickInv, AssembleFrame PROVE PickInv'
    OBVIOUS
<1> DEFINE c == Counts[nth]
           cost == measured + weight * Length(chosen)
           new == Ranked(chosen, cost)
<1>1. /\ PickTypeOK /\ FramesAreSound /\ FallbackFails /\ RankedByItsOwnCost
      /\ StripsBeat /\ WholeBeats /\ ChosenSoFar
    BY DEF PickInv
<1>2. /\ pc = "strips" /\ nth <= Len(Counts) /\ Len(chosen) = c
      /\ bestStrips' = Keep(new, bestStrips)
      /\ NextCount
    BY DEF AssembleFrame
<1>3. UNCHANGED input /\ UNCHANGED <<pc, kth, bestWhole, result, fellBack>>
    BY DEF AssembleFrame
<1>4. /\ UNCHANGED <<method, list, weight, vintage, encode>>
      /\ \A g : (Fails(g)' <=> Fails(g)) /\ (Sound(g)' <=> Sound(g)) /\ CostOf(g)' = CostOf(g)
    BY <1>3, InputKept
<1>5. /\ nth \in 1 .. Len(Counts) /\ nth' = nth + 1 /\ chosen' = <<>> /\ measured' = 0
      /\ c \in Range(Counts)
  <2>1. nth \in 1 .. Len(Counts)
      BY <1>1, <1>2, PickTypes DEF PickTypeOK
  <2> QED
      BY <1>1, <1>2, <2>1, PickTypes DEF NextCount
<1>6. chosen \in Seq(Options) /\ DOMAIN chosen = 1 .. c /\ c \in Nat \ {0}
    BY <1>1, <1>2, <1>5, PickTypes DEF PickTypeOK
<1>7. Sound(chosen)
    BY <1>1, <1>2, <1>5, <1>6 DEF Sound, Fails, Part, ChosenSoFar
<1>8. CostOf(chosen) \in Nat /\ cost \in Nat
  <2>1. Length(chosen) \in Nat /\ CostOf(chosen) \in Nat
      BY <1>1, <1>7, SoundFrame
  <2>2. weight * Length(chosen) \in Nat
      BY <1>1, <2>1, PickTypes, TimesType
  <2>3. measured \in Nat
      BY <1>1 DEF PickTypeOK
  <2> QED
      BY <2>1, <2>2, <2>3
<1>9. ~fellBack => cost = CostOf(chosen)
    BY <1>1, <1>2 DEF ChosenSoFar, CostOf, Distortion, Part
<1> HIDE DEF cost
<1>10. /\ new \in [frame : Seq(Options), cost : Nat] /\ new # NoFrame
       /\ new.frame = chosen /\ new.cost = cost
    BY <1>6, <1>8, RankedFrame
<1> HIDE DEF new
<1>11. bestStrips # NoFrame => bestStrips.cost \in Nat
    BY <1>1 DEF PickTypeOK
<1>12. /\ bestStrips' \in {new, bestStrips} /\ bestStrips' # NoFrame
       /\ bestStrips'.cost <= cost
       /\ bestStrips # NoFrame => bestStrips'.cost <= bestStrips.cost
    BY <1>2, <1>8, <1>10, <1>11, KeepsTheBetter
<1>13. PickTypeOK'
  <2>1. bestStrips' \in [frame : Seq(Options), cost : Nat] \cup {NoFrame}
      BY <1>1, <1>10, <1>12 DEF PickTypeOK
  <2> QED
      BY <1>1, <1>2, <1>3, <1>4, <1>5, <1>12, <2>1, PickTypes DEF PickTypeOK
<1>14. FramesAreSound'
  <2>1. Sound(bestStrips'.frame)
      BY <1>1, <1>7, <1>10, <1>12 DEF FramesAreSound
  <2> QED
      BY <1>1, <1>3, <1>4, <2>1 DEF FramesAreSound
<1>15. RankedByItsOwnCost'
  <2>1. ~fellBack => bestStrips'.cost = CostOf(bestStrips'.frame)
      BY <1>1, <1>9, <1>10, <1>12 DEF RankedByItsOwnCost
  <2> QED
      BY <1>3, <1>4, <2>1 DEF RankedByItsOwnCost
<1>16. StripsBeat'
  <2> SUFFICES ASSUME method # "uniform", ~fellBack,
                      NEW m \in 1 .. Len(Counts), m < nth'
               PROVE  Beats(bestStrips, Counts[m])'
      BY <1>2, <1>3, <1>4 DEF StripsBeat
  <2>1. ASSUME NEW o \in Range(list), ~Fails(Uniform(Counts[m], o))
        PROVE  bestStrips'.cost <= CostOf(Uniform(Counts[m], o))
    <3> DEFINE f == Uniform(Counts[m], o)
    <3>1. Counts[m] \in Range(Counts)
        BY <1>1, PickTypes
    <3>2. Sound(f) /\ Len(f) = Counts[m] /\ CostOf(f) \in Nat
        BY <1>1, <2>1, <3>1, UniformFrame, SoundFrame
    <3>3. bestStrips'.cost \in Nat
        BY <1>8, <1>10, <1>11, <1>12
    <3>4. CASE m < nth
      <4>1. bestStrips # NoFrame /\ bestStrips.cost <= CostOf(f)
          BY <1>1, <2>1, <3>4 DEF StripsBeat, Beats
      <4> QED
          BY <1>11, <1>12, <3>2, <3>3, <4>1
    <3>5. CASE m = nth
      <4>1. ASSUME NEW i \in 1 .. c PROVE PartCost(c, i, chosen[i]) <= PartCost(c, i, f[i])
        <5>1. Cheapest(c, i, chosen[i])
            BY <1>1, <1>2, <1>6 DEF ChosenSoFar
        <5>2. f[i] = o /\ Part(f, i) # NoFrame /\ Part(f, i) = encode[<<c, i>>][o]
          <6>1. c = Counts[m] /\ Len(f) = c /\ i \in 1 .. Len(f)
              BY <1>1, <3>2, <3>5
          <6>2. f[i] = o
              BY <6>1 DEF Uniform
          <6>3. Part(f, i) = encode[<<c, i>>][o]
              BY <1>1, <3>1, <6>1, UniformFrame
          <6>4. Part(f, i) # NoFrame
            <7> HIDE DEF f
            <7> QED
                BY <1>1, <3>2, <6>1, SoundFrame
          <6> QED
              BY <6>2, <6>3, <6>4
        <5> QED
            BY <5>1, <5>2 DEF Cheapest
      <4>2. CostOf(chosen) <= CostOf(f)
          BY <1>1, <1>2, <1>7, <3>2, <3>5, <4>1, FramesCompare
      <4> QED
          BY <1>8, <1>9, <1>12, <3>2, <3>3, <4>2
    <3> QED
        BY <1>5, <3>4, <3>5
  <2> QED
      BY <1>4, <1>12, <2>1 DEF Beats
<1>17. ChosenSoFar'
    BY <1>2, <1>3, <1>4, NextCountChoosesNothing
<1>18. FallbackFails' /\ WholeBeats' /\ ResultIsCheapest'
    BY <1>1, <1>2, <1>3, <1>4 DEF FallbackFails, WholeBeats, ResultIsCheapest
<1> QED
    BY <1>13, <1>14, <1>15, <1>16, <1>17, <1>18 DEF PickInv

\* After the last count the best frame of the strips is returned, or the whole
\* frames are tried.
LEMMA ReturnStripsKeeps == PickInv /\ ReturnStrips => PickInv'
<1> SUFFICES ASSUME PickInv, ReturnStrips PROVE PickInv'
    OBVIOUS
<1>1. /\ PickTypeOK /\ FramesAreSound /\ FallbackFails /\ RankedByItsOwnCost
      /\ StripsBeat /\ WholeBeats
    BY DEF PickInv
<1>2. pc = "strips" /\ nth > Len(Counts)
    BY DEF ReturnStrips
<1>3. /\ UNCHANGED input
      /\ UNCHANGED <<kth, chosen, measured, bestStrips, bestWhole, fellBack>>
    BY DEF ReturnStrips
<1>4. /\ UNCHANGED <<method, list, weight, vintage, encode>>
      /\ \A g : (Fails(g)' <=> Fails(g)) /\ (Sound(g)' <=> Sound(g)) /\ CostOf(g)' = CostOf(g)
    BY <1>3, InputKept
<1>5. pc' \in {"whole", "done"} /\ nth' \in 1 .. Len(Counts) + 1
    BY <1>1, <1>2, PickTypes DEF ReturnStrips, PickTypeOK
<1>6. PickTypeOK'
  <2>1. pc' = "whole" => method = "round8" /\ bestStrips # NoFrame
      BY DEF ReturnStrips
  <2> QED
      BY <1>1, <1>2, <1>3, <1>4, <1>5, <2>1 DEF PickTypeOK
<1>7. StripsBeat'
  <2> SUFFICES ASSUME method # "uniform", ~fellBack, NEW m \in 1 .. Len(Counts)
               PROVE  Beats(bestStrips, Counts[m])'
      BY <1>3, <1>4 DEF StripsBeat
  <2>1. m < nth
      BY <1>1, <1>2, PickTypes DEF PickTypeOK
  <2>2. Beats(bestStrips, Counts[m])
      BY <1>1, <2>1 DEF StripsBeat
  <2> QED
      BY <1>3, <1>4, <2>2 DEF Beats
<1>8. WholeBeats'
  <2> SUFFICES ASSUME pc' = "whole", NEW m \in 1 .. Len(Counts), NEW j \in 1 .. Len(list),
                      m < nth' \/ (m = nth' /\ j < kth')
               PROVE  FALSE
      BY <1>4 DEF WholeBeats
  <2>1. nth' = 1 /\ kth' = 1
      BY <1>1, <1>2, <1>3 DEF ReturnStrips, PickTypeOK
  <2> QED
      BY <2>1
<1>9. ResultIsCheapest'
  <2>1. method # "perStrip" /\ pc' = "done" => result' = NoFrame
      BY <1>1, <1>2 DEF ReturnStrips, PickTypeOK
  <2> QED
      BY <1>4, <2>1 DEF ResultIsCheapest
<1>10. FramesAreSound' /\ ChosenSoFar' /\ FallbackFails' /\ RankedByItsOwnCost'
    BY <1>1, <1>3, <1>4, <1>5
       DEF FramesAreSound, ChosenSoFar, FallbackFails, RankedByItsOwnCost
<1> QED
    BY <1>6, <1>7, <1>8, <1>9, <1>10 DEF PickInv

\* The invariant of the pickers.
THEOREM PickersInvariant == PickSpec => []PickInv
<1>1. PickInit => PickInv
    BY PickStarts
<1>2. PickInv /\ [PickNext]_pickVars => PickInv'
  <2> SUFFICES ASSUME PickInv, [PickNext]_pickVars PROVE PickInv'
      OBVIOUS
  <2>1. CASE TryWhole
      BY <2>1, TryWholeKeeps
  <2>2. CASE ReturnWhole
      BY <2>2, ReturnWholeKeeps
  <2>3. CASE PickStrip
      BY <2>3, PickStripKeeps
  <2>4. CASE FallBack
      BY <2>4, FallBackKeeps
  <2>5. CASE AbandonCount
      BY <2>5, AbandonCountKeeps
  <2>6. CASE AssembleFrame
      BY <2>6, AssembleFrameKeeps
  <2>7. CASE ReturnStrips
      BY <2>7, ReturnStripsKeeps
  <2>8. CASE UNCHANGED pickVars
    <3>1. /\ UNCHANGED input
          /\ UNCHANGED <<pc, nth, kth, chosen, measured, bestStrips, bestWhole, result, fellBack>>
        BY <2>8 DEF pickVars
    <3>2. /\ UNCHANGED <<method, list, weight, vintage, encode>>
          /\ \A g : /\ Fails(g)' <=> Fails(g)
                    /\ Sound(g)' <=> Sound(g)
                    /\ CostOf(g)' = CostOf(g)
          /\ UniformFrames' = UniformFrames
        BY <3>1, InputKept
    <3> QED
        BY SMTT(30), <3>1, <3>2
           DEF PickInv, PickTypeOK, FramesAreSound, ChosenSoFar, FallbackFails,
               RankedByItsOwnCost, StripsBeat, Beats, WholeBeats, ResultIsCheapest,
               Cheapest, PartCost
  <2> QED
      BY <2>1, <2>2, <2>3, <2>4, <2>5, <2>6, <2>7, <2>8 DEF PickNext
<1> QED
    BY <1>1, <1>2, PTL DEF PickSpec

\* The frame built strip by strip is ranked by the cost it has, unless a strip
\* fell back (encode_rgb24_per_strip_rd, find_winning_opts).
THEOREM StripFramesRankedByTheirCost == PickSpec => []RankedByItsOwnCost
<1>1. PickInv => RankedByItsOwnCost
    BY DEF PickInv
<1> QED
    BY <1>1, PickersInvariant, PTL

\* What a picker returns, or keeps of the frames built strip by strip, costs no
\* more than any frame with one option throughout (encode_rgb24_per_strip_rd,
\* encode_rgb24_best_rd_grid_3axis, encode_rgb24_round8).
THEOREM PickersBeatUniformFrames == PickSpec => []NoWorseThanUniform
<1>1. PickInv => NoWorseThanUniform
  <2> SUFFICES ASSUME PickInv PROVE NoWorseThanUniform
      OBVIOUS
  <2>1. PickTypeOK /\ StripsBeat /\ RankedByItsOwnCost /\ ResultIsCheapest
      BY DEF PickInv
  <2>2. ASSUME method # "uniform", pc \in {"whole", "done"}, ~fellBack,
               NEW f \in UniformFrames
        PROVE  bestStrips # NoFrame /\ CostOf(bestStrips.frame) <= CostOf(f)
    <3>1. PICK m \in 1 .. Len(Counts), j \in DOMAIN list :
             f = Uniform(Counts[m], list[j]) /\ ~Fails(f)
        BY UniformFramesAre
    <3>2. list[j] \in Range(list)
        BY <2>1, PickTypes
    <3>3. Beats(bestStrips, Counts[m])
        BY <2>1, <2>2 DEF StripsBeat
    <3>4. bestStrips # NoFrame /\ bestStrips.cost <= CostOf(f)
        BY <3>1, <3>2, <3>3 DEF Beats
    <3> QED
        BY <2>1, <2>2, <3>4 DEF RankedByItsOwnCost
  <2> QED
      BY <2>1, <2>2 DEF NoWorseThanUniform, ResultIsCheapest
<1> QED
    BY <1>1, PickersInvariant, PTL

=============================================================================
