------------------------ MODULE VectorPayloadProofs -------------------------
(***************************************************************************)
(* Proofs about the payload of a vector chunk, for flag words and blocks   *)
(* of any size and any number of blocks: what encode_inter_payload and     *)
(* encode_mixed_intra_payload write, decode_inter and decode_mixed_intra   *)
(* read.                                                                   *)
(*                                                                         *)
(* The argument is a layout: for each number of blocks, where in the       *)
(* payload the flag word is that is open after them, how many of its bits  *)
(* are used, and where the next index goes.  The encoder writes along the  *)
(* layout, and the decoder reads along it.                                 *)
(*                                                                         *)
(* A payload from elsewhere has no layout.  For it the argument is a trail:*)
(* the stops that the decoder makes between two groups.  The walkers, the  *)
(* iterators InterMacroblocks and MixedIntraMacroblocks, pass the same     *)
(* stops and fail at the same one.                                         *)
(***************************************************************************)
EXTENDS VectorPayload, RecursionLemmas, SequenceTheorems, TLAPS

\* The flag word that is open, the bits used of it, and the place of the next
\* index of its group.
Places ==
    {a \in [bit : 0 .. WordBits - 1, base : Nat \ {0}, ptr : Nat \ {0}] :
        a.base < a.ptr /\ (a.bit = 0 => a.ptr = a.base + 1)}

Start == [bit |-> 0, base |-> 1, ptr |-> 2]

\* The bits used after one more block.
Reach(a, kind) == a.bit + Len(Code(kind))

\* A block more: in the open word, up to its end, or cut by it.
After(a, kind) ==
    IF Reach(a, kind) < WordBits
    THEN [bit |-> Reach(a, kind), base |-> a.base, ptr |-> a.ptr + Cost(kind)]
    ELSE IF Reach(a, kind) = WordBits
    THEN [bit |-> 0, base |-> a.ptr + Cost(kind), ptr |-> a.ptr + Cost(kind) + 1]
    ELSE [bit |-> Reach(a, kind) - WordBits, base |-> a.ptr, ptr |-> a.ptr + 1 + Cost(kind)]

\* The flag word that the indices of a block go with, and where they start.
Home(a, kind) == IF Reach(a, kind) <= WordBits THEN a.base ELSE a.ptr
Index(a, kind) == IF Reach(a, kind) <= WordBits THEN a.ptr ELSE a.ptr + 1

\* The word and the place in it of the k-th bit of a code.
WordOf(a, k) == IF a.bit + k <= WordBits THEN a.base ELSE a.ptr
BitOf(a, k) == IF a.bit + k <= WordBits THEN a.bit + k ELSE a.bit + k - WordBits

\* The end of what is written: a word without a bit is not.
End(a) == IF a.bit = 0 THEN a.base ELSE a.ptr

Layouts(blocks) ==
    {at \in [0 .. Len(blocks) -> Places] :
        /\ at[0] = Start
        /\ \A i \in 1 .. Len(blocks) : at[i] = After(at[i - 1], blocks[i].kind)}

\* Words that hold the code and the indices of a block at its places.
Encodes(words, a, b) ==
    /\ \A k \in 1 .. Len(Code(b.kind)) :
          /\ WordOf(a, k) \in 1 .. Len(words)
          /\ BitOf(a, k) \in 1 .. Len(words[WordOf(a, k)])
          /\ words[WordOf(a, k)][BitOf(a, k)] = Code(b.kind)[k]
    /\ \A k \in 1 .. Cost(b.kind) :
          /\ Index(a, b.kind) + k - 1 \in 1 .. Len(words)
          /\ words[Index(a, b.kind) + k - 1] = b.idx[k]

\* They hold all of them, and none reaches beyond the end.
Holds(blocks, words, at) ==
    \A i \in 1 .. Len(blocks) :
        Encodes(words, at[i - 1], blocks[i]) /\ End(at[i]) <= End(at[Len(blocks)])

\* What is written so far, the open word and its group included.
Words(pay, some, grp) == pay \o <<some>> \o grp
Image == Words(payload, bits, group)

\* So much is written that the next code goes to a.
OpenAt(pay, some, grp, a) ==
    /\ pay \in Seq(Word) /\ some \in Seq({0, 1}) /\ grp \in Seq(Word)
    /\ Len(some) = a.bit
    /\ a.base = Len(pay) + 1
    /\ a.ptr = a.base + Len(grp) + 1

MeantOK ==
    /\ form \in Forms
    /\ meant \in Seq(Block)
    /\ form = "MixedIntra" => \A i \in 1 .. Len(meant) : meant[i].kind # "Skip"

Writing(at) ==
    /\ OpenAt(payload, bits, group, at[Len(meant)])
    /\ Holds(meant, Image, at)
    /\ phase = "group" /\ ~pending /\ p = 1 /\ out = <<>> /\ next = 1

Written(at) ==
    /\ payload \in Seq(Word)
    /\ count = Len(meant)
    /\ Len(payload) = End(at[count]) - 1
    /\ Holds(meant, payload, at)

\* The code of block i is cut by the end of the word that is open before it.
IsCut(at, i) ==
    /\ i \in 1 .. count
    /\ form = "Inter" /\ meant[i].kind # "Skip"
    /\ at[i - 1].bit = WordBits - 1

\* Of the blocks so far those before next are complete, the others are not.
OutSoFar ==
    /\ Len(out) \in 0 .. count /\ next \in 1 .. Len(out) + 1
    /\ out = [j \in 1 .. Len(out) |-> IF j < next THEN meant[j] ELSE Blank(meant[j].kind)]

BetweenGroups(at) ==
    phase = "group" =>
        /\ next = Len(out) + 1
        /\ Len(out) = count => ~pending /\ p = Len(payload) + 1
        /\ Len(out) < count =>
             IF pending THEN IsCut(at, Len(out) + 1) /\ p = at[Len(out)].ptr
             ELSE at[Len(out)].bit = 0 /\ p = at[Len(out)].base

\* In the group of the flag word at w.
InGroup(at, w) ==
    LET m == Len(out) IN
    /\ w \in 1 .. Len(payload) /\ flag = payload[w]
    /\ bit \in Nat \ {0}
    /\ \A j \in next .. m : Home(at[j - 1], meant[j].kind) = w
    /\ next <= m => p = Index(at[next - 1], meant[next].kind)
    /\ CodesLeft =>
         /\ ~pending
         /\ at[m].bit = bit - 1 /\ at[m].base = w
         /\ next = m + 1 => bit = 1 /\ p = w + 1
    /\ ~CodesLeft =>
         /\ next = m + 1 => m > 0 /\ p = End(at[m])
         /\ m = count => ~pending
         /\ m < count => IF pending THEN IsCut(at, m + 1) ELSE at[m].bit = 0

Reading(at) ==
    /\ phase \in {"group", "codes", "done"}
    /\ OutSoFar
    /\ BetweenGroups(at)
    /\ phase = "codes" => \E w \in 1 .. Len(payload) : InGroup(at, w)
    /\ phase = "done" => ok /\ out = meant /\ p = Len(payload) + 1

PayloadInv ==
    ~foreign =>
        /\ MeantOK
        /\ stage \in {"encode", "decode", "walk"}
        /\ \E at \in Layouts(meant) :
              /\ stage = "encode" => Writing(at)
              /\ stage # "encode" => Written(at) /\ Reading(at)
        /\ stage = "decode" => phase # "done"
        /\ stage = "walk" => phase = "done"

-----------------------------------------------------------------------------
\* Codes, blocks and places.

\* A code has one bit or two.
LEMMA CodeFacts ==
    ASSUME form \in Forms, NEW kind \in Kinds
    PROVE  /\ Code(kind) \in Seq({0, 1}) /\ Len(Code(kind)) \in {1, 2}
           /\ form = "MixedIntra" =>
                Len(Code(kind)) = 1 /\ Code(kind)[1] = (IF kind = "V4" THEN 1 ELSE 0)
           /\ form = "Inter" =>
                /\ kind = "Skip" => Len(Code(kind)) = 1 /\ Code(kind)[1] = 0
                /\ kind # "Skip" => Len(Code(kind)) = 2 /\ Code(kind)[1] = 1
                /\ kind = "V1" => Code(kind)[2] = 0
                /\ kind = "V4" => Code(kind)[2] = 1
<1>1. <<0>> \in Seq({0, 1}) /\ <<1>> \in Seq({0, 1})
    OBVIOUS
<1>2. <<1, 0>> \in Seq({0, 1}) /\ <<1, 1>> \in Seq({0, 1})
    OBVIOUS
<1> QED
    BY <1>1, <1>2 DEF Code, Kinds, Forms

\* The number of index words is a natural number.
LEMMA CostFacts ==
    ASSUME NEW kind \in Kinds
    PROVE  Cost(kind) \in Nat
BY VectorAssumption DEF Cost, Kinds

\* A block is its kind and as many index words as the kind costs.
LEMMA BlockFacts ==
    ASSUME NEW b \in Block
    PROVE  /\ b.kind \in Kinds /\ b.idx \in [1 .. Cost(b.kind) -> Word]
           /\ b.idx \in Seq(Word) /\ Len(b.idx) = Cost(b.kind)
           /\ b = [kind |-> b.kind, idx |-> b.idx]
<1>1. PICK k \in Kinds : b \in [kind : {k}, idx : [1 .. Cost(k) -> Word]]
    BY DEF Block
<1>2. b.kind \in Kinds /\ b.idx \in [1 .. Cost(b.kind) -> Word]
    BY <1>1
<1>3. Cost(b.kind) \in Nat
    BY <1>2, CostFacts
<1> QED
    BY <1>1, <1>2, <1>3

\* What is computed along a layout depends on the form alone.
LEMMA FormKept ==
    ASSUME UNCHANGED form
    PROVE  /\ \A k : Code(k)' = Code(k)
           /\ \A words, a, b : Encodes(words, a, b)' <=> Encodes(words, a, b)
           /\ \A a, k : After(a, k)' = After(a, k)
           /\ \A a, k : Home(a, k)' = Home(a, k) /\ Index(a, k)' = Index(a, k)
BY DEF Code, After, Reach, Home, Index, Encodes, WordOf, BitOf

\* A block more leads to the next place; its indices end where the writing
\* ends, which only grows.
LEMMA AfterFacts ==
    ASSUME form \in Forms, NEW a \in Places, NEW kind \in Kinds
    PROVE  /\ After(a, kind) \in Places
           /\ Reach(a, kind) \in 1 .. WordBits + 1
           /\ Index(a, kind) \in Nat \ {0} /\ Home(a, kind) \in Nat \ {0}
           /\ End(After(a, kind)) = Index(a, kind) + Cost(kind)
           /\ Home(a, kind) < Index(a, kind)
           /\ End(a) \in Nat \ {0}
           /\ End(a) <= End(After(a, kind))
           /\ \A k \in 1 .. Len(Code(kind)) :
                WordOf(a, k) \in Nat \ {0} /\ BitOf(a, k) \in 1 .. WordBits
<1> DEFINE l == Len(Code(kind))
           c == Cost(kind)
           r == Reach(a, kind)
           next1 == After(a, kind)
<1>1. WordBits \in Nat /\ WordBits >= 2
    BY VectorAssumption
<1>2. /\ a.bit \in 0 .. WordBits - 1 /\ a.base \in Nat \ {0} /\ a.ptr \in Nat \ {0}
      /\ a.base < a.ptr /\ (a.bit = 0 => a.ptr = a.base + 1)
    BY DEF Places
<1>3. (l = 1 \/ l = 2) /\ c \in Nat
    BY CodeFacts, CostFacts
<1>4. r = a.bit + l
    BY DEF Reach
<1> HIDE DEF l, c, r
<1>5. r \in 1 .. WordBits + 1
    BY <1>1, <1>2, <1>3, <1>4
<1>6. \A k \in 1 .. l : WordOf(a, k) \in Nat \ {0} /\ BitOf(a, k) \in 1 .. WordBits
    BY <1>1, <1>2, <1>3 DEF WordOf, BitOf
<1>7. End(a) \in Nat \ {0} /\ (End(a) = a.base \/ End(a) = a.ptr)
    BY <1>2 DEF End
<1>8. CASE r < WordBits
  <2>1. next1 = [bit |-> r, base |-> a.base, ptr |-> a.ptr + c]
      BY <1>8 DEF After, r, c
  <2>2. Index(a, kind) = a.ptr /\ Home(a, kind) = a.base
      BY <1>1, <1>5, <1>8 DEF Index, Home, r
  <2>3. next1.bit = r /\ next1.base = a.base /\ next1.ptr = a.ptr + c
      BY <2>1
  <2> HIDE DEF next1
  <2>4. next1 \in Places
      BY <1>1, <1>2, <1>3, <1>5, <1>8, <2>1 DEF Places
  <2>5. End(next1) = a.ptr + c
      BY <1>1, <1>5, <1>8, <2>3 DEF End
  <2>6. End(a) <= a.ptr + c
      BY <1>2, <1>3, <1>7
  <2> QED
      BY <1>2, <1>5, <1>6, <1>7, <2>2, <2>4, <2>5, <2>6 DEF next1, c, r, l
<1>9. CASE r = WordBits
  <2>1. next1 = [bit |-> 0, base |-> a.ptr + c, ptr |-> a.ptr + c + 1]
      BY <1>1, <1>9 DEF After, r, c
  <2>2. Index(a, kind) = a.ptr /\ Home(a, kind) = a.base
      BY <1>1, <1>5, <1>9 DEF Index, Home, r
  <2>3. next1.bit = 0 /\ next1.base = a.ptr + c /\ next1.ptr = a.ptr + c + 1
      BY <2>1
  <2> HIDE DEF next1
  <2>4. next1 \in Places
      BY <1>1, <1>2, <1>3, <2>1 DEF Places
  <2>5. End(next1) = a.ptr + c
      BY <2>3 DEF End
  <2>6. End(a) <= a.ptr + c
      BY <1>2, <1>3, <1>7
  <2> QED
      BY <1>2, <1>5, <1>6, <1>7, <2>2, <2>4, <2>5, <2>6 DEF next1, c, r, l
<1>10. CASE r > WordBits
  <2>1. next1 = [bit |-> r - WordBits, base |-> a.ptr, ptr |-> a.ptr + 1 + c]
      BY <1>1, <1>5, <1>10 DEF After, r, c
  <2>2. Index(a, kind) = a.ptr + 1 /\ Home(a, kind) = a.ptr
      BY <1>1, <1>5, <1>10 DEF Index, Home, r
  <2>3. next1.bit = 1 /\ next1.base = a.ptr /\ next1.ptr = a.ptr + 1 + c
      BY <1>1, <1>5, <1>10, <2>1
  <2> HIDE DEF next1
  <2>4. next1 \in Places
      BY <1>1, <1>2, <1>3, <1>5, <1>10, <2>1, <2>3 DEF Places
  <2>5. End(next1) = a.ptr + 1 + c
      BY <2>3 DEF End
  <2>6. End(a) <= a.ptr + 1 + c
      BY <1>2, <1>3, <1>7
  <2> QED
      BY <1>2, <1>5, <1>6, <1>7, <2>2, <2>4, <2>5, <2>6 DEF next1, c, r, l
<1> QED
    BY <1>1, <1>5, <1>8, <1>9, <1>10

\* The word at q, which is open, has grown, or is left out while it is empty.
Grows(old, new, q) ==
    /\ Len(old) \in Nat /\ Len(new) \in Nat
    /\ Len(old[q]) \in Nat /\ Len(old[q]) < WordBits
    /\ \A x \in 1 .. Len(old) : x # q => x \in 1 .. Len(new) /\ new[x] = old[x]
    /\ \A k \in 1 .. Len(old[q]) :
          q \in 1 .. Len(new) /\ k \in 1 .. Len(new[q]) /\ new[q][k] = old[q][k]

\* What holds of a block holds of it after that: an index is a whole word, so
\* that it is not the open one.
LEMMA EncodesKept ==
    ASSUME form \in Forms, NEW a \in Places, NEW b \in Block,
           NEW old, NEW new, NEW q, Encodes(old, a, b), Grows(old, new, q)
    PROVE  Encodes(new, a, b)
<1>1. b.kind \in Kinds /\ \A k \in 1 .. Cost(b.kind) : b.idx[k] \in Word
    BY BlockFacts
<1>2. ASSUME NEW k \in 1 .. Len(Code(b.kind))
      PROVE  /\ WordOf(a, k) \in 1 .. Len(new)
             /\ BitOf(a, k) \in 1 .. Len(new[WordOf(a, k)])
             /\ new[WordOf(a, k)][BitOf(a, k)] = Code(b.kind)[k]
  <2> DEFINE x == WordOf(a, k)
             y == BitOf(a, k)
  <2>1. x \in 1 .. Len(old) /\ y \in 1 .. Len(old[x]) /\ old[x][y] = Code(b.kind)[k]
      BY DEF Encodes
  <2> HIDE DEF x, y
  <2>2. x \in 1 .. Len(new) /\ y \in 1 .. Len(new[x]) /\ new[x][y] = Code(b.kind)[k]
    <3>1. CASE x = q
        BY <2>1, <3>1 DEF Grows
    <3>2. CASE x # q
        BY <2>1, <3>2 DEF Grows
    <3> QED
        BY <3>1, <3>2
  <2> QED
      BY <2>2 DEF x, y
<1>3. ASSUME NEW k \in 1 .. Cost(b.kind)
      PROVE  /\ Index(a, b.kind) + k - 1 \in 1 .. Len(new)
             /\ new[Index(a, b.kind) + k - 1] = b.idx[k]
  <2> DEFINE x == Index(a, b.kind) + k - 1
  <2>1. x \in 1 .. Len(old) /\ old[x] = b.idx[k]
      BY DEF Encodes
  <2> HIDE DEF x
  <2>2. Len(b.idx[k]) = WordBits
    <3>1. b.idx[k] \in [1 .. WordBits -> {0, 1}]
        BY <1>1 DEF Word
    <3>2. WordBits \in Nat
        BY VectorAssumption
    <3> QED
        BY <3>1, <3>2
  <2>3. x # q
    <3>1. ~(WordBits < WordBits)
        BY VectorAssumption
    <3> QED
        BY <2>1, <2>2, <3>1 DEF Grows
  <2>4. x \in 1 .. Len(new) /\ new[x] = b.idx[k]
      BY <2>1, <2>3 DEF Grows
  <2> QED
      BY <2>4 DEF x
<1> QED
    BY <1>2, <1>3 DEF Encodes

\* A place for every number of blocks.
LEMMA LayoutFacts ==
    ASSUME form \in Forms, NEW blocks \in Seq(Block), NEW at \in Layouts(blocks)
    PROVE  /\ Len(blocks) \in Nat
           /\ at[0] = Start /\ \A i \in 0 .. Len(blocks) : at[i] \in Places
           /\ \A i \in 1 .. Len(blocks) :
                /\ blocks[i] \in Block /\ blocks[i].kind \in Kinds
                /\ at[i - 1] \in Places /\ at[i] \in Places
                /\ at[i] = After(at[i - 1], blocks[i].kind)
<1>1. Len(blocks) \in Nat /\ \A i \in 1 .. Len(blocks) : blocks[i] \in Block
    OBVIOUS
<1>2. at \in [0 .. Len(blocks) -> Places]
    BY DEF Layouts
<1>3. \A i \in 1 .. Len(blocks) : i \in 0 .. Len(blocks) /\ i - 1 \in 0 .. Len(blocks)
    BY <1>1
<1> QED
    BY <1>1, <1>2, <1>3, BlockFacts DEF Layouts

\* The layout of one more block.
LEMMA LayoutGrows ==
    ASSUME form \in Forms, NEW blocks \in Seq(Block), NEW at \in Layouts(blocks),
           NEW b \in Block
    PROVE  LET n == Len(blocks)
               new == [i \in 0 .. n + 1 |-> IF i = n + 1 THEN After(at[n], b.kind) ELSE at[i]]
           IN  /\ new \in Layouts(Append(blocks, b))
               /\ new[n + 1] = After(at[n], b.kind)
               /\ \A i \in 0 .. n : new[i] = at[i]
<1> DEFINE n == Len(blocks)
           more == Append(blocks, b)
           new == [i \in 0 .. n + 1 |-> IF i = n + 1 THEN After(at[n], b.kind) ELSE at[i]]
<1>1. /\ n \in Nat /\ Len(more) = n + 1 /\ more[n + 1] = b
      /\ \A i \in 1 .. n : more[i] = blocks[i]
    OBVIOUS
<1>2. at[0] = Start /\ \A i \in 0 .. n : at[i] \in Places
    BY LayoutFacts
<1>3. After(at[n], b.kind) \in Places
  <2>1. n \in 0 .. n
      BY <1>1
  <2> QED
      BY <1>2, <2>1, BlockFacts, AfterFacts
<1>4. new[n + 1] = After(at[n], b.kind) /\ \A i \in 0 .. n : new[i] = at[i]
    BY <1>1
<1>5. new \in [0 .. n + 1 -> Places]
    BY <1>1, <1>2, <1>3
<1>6. ASSUME NEW i \in 1 .. n + 1 PROVE new[i] = After(new[i - 1], more[i].kind)
  <2>1. CASE i = n + 1
    <3>1. n \in 0 .. n /\ i - 1 = n
        BY <1>1, <2>1
    <3> HIDE DEF new, more
    <3> QED
        BY <1>1, <1>4, <2>1, <3>1
  <2>2. CASE i \in 1 .. n
    <3>1. i \in 0 .. n /\ i - 1 \in 0 .. n
        BY <1>1, <2>2
    <3>2. at[i] = After(at[i - 1], blocks[i].kind)
        BY <2>2, LayoutFacts
    <3> HIDE DEF new, more
    <3> QED
        BY <1>1, <1>4, <2>2, <3>1, <3>2
  <2> QED
      BY <1>1, <2>1, <2>2
<1>7. new[0] = Start
    BY <1>1, <1>2
<1>8. new \in Layouts(more)
  <2> HIDE DEF new, more
  <2> QED
      BY <1>1, <1>5, <1>6, <1>7 DEF Layouts
<1> QED
    BY <1>4, <1>8

\* The end of what is written is a place.
LEMMA EndType ==
    ASSUME NEW a \in Places
    PROVE  End(a) \in Nat \ {0}
BY DEF End, Places

-----------------------------------------------------------------------------
\* Words in a row.

\* The words s, then x at q, then t, and perhaps more.
Begins(w, q, s, x, t) ==
    /\ Len(w) \in Nat /\ q + Len(t) <= Len(w)
    /\ \A y \in 1 .. q - 1 : w[y] = s[y]
    /\ w[q] = x
    /\ \A y \in 1 .. Len(t) : w[q + y] = t[y]

\* The words of two sequences in a row.
LEMMA Concatenated ==
    ASSUME NEW S, NEW s \in Seq(S), NEW t \in Seq(S)
    PROVE  /\ s \o t \in Seq(S) /\ Len(s \o t) = Len(s) + Len(t)
           /\ \A k \in 1 .. Len(s) : (s \o t)[k] = s[k]
           /\ \A k \in 1 .. Len(t) : (s \o t)[Len(s) + k] = t[k]
OBVIOUS

\* The words of a sequence, one more, and those of another.
LEMMA ThreeParts ==
    ASSUME NEW S, NEW s \in Seq(S), NEW x \in S, NEW t \in Seq(S)
    PROVE  /\ s \o <<x>> \o t \in Seq(S)
           /\ Len(s \o <<x>> \o t) = Len(s) + 1 + Len(t)
           /\ \A k \in 1 .. Len(s) : (s \o <<x>> \o t)[k] = s[k]
           /\ (s \o <<x>> \o t)[Len(s) + 1] = x
           /\ \A k \in 1 .. Len(t) : (s \o <<x>> \o t)[Len(s) + 1 + k] = t[k]
OBVIOUS

\* A flag word and its group, put at the end.
LEMMA BeginsIt ==
    ASSUME NEW S, NEW s \in Seq(S), NEW x \in S, NEW t \in Seq(S),
           NEW q \in Nat, q = Len(s) + 1
    PROVE  /\ s \o <<x>> \o t \in Seq(S) /\ Len(s \o <<x>> \o t) = q + Len(t)
           /\ Begins(s \o <<x>> \o t, q, s, x, t)
<1> DEFINE w == s \o <<x>> \o t
<1>1. w \in Seq(S) /\ Len(w) = Len(s) + 1 + Len(t)
    BY ThreeParts
<1>2. \A k \in 1 .. Len(s) : w[k] = s[k]
    BY ThreeParts
<1>3. w[Len(s) + 1] = x /\ \A k \in 1 .. Len(t) : w[Len(s) + 1 + k] = t[k]
    BY ThreeParts
<1> HIDE DEF w
<1>4. Len(w) = q + Len(t) /\ w[q] = x /\ \A k \in 1 .. Len(t) : w[q + k] = t[k]
    BY <1>1, <1>3
<1>5. Len(w) \in Nat /\ q + Len(t) <= Len(w)
    BY <1>4
<1>6. \A k \in 1 .. q - 1 : w[k] = s[k]
    BY <1>2
<1> QED
    BY <1>1, <1>4, <1>5, <1>6 DEF Begins, w

\* What follows leaves the beginning alone.
LEMMA BeginsOn ==
    ASSUME NEW S, NEW w \in Seq(S), NEW v \in Seq(S), NEW q \in Nat \ {0},
           NEW s, NEW x, NEW t, Len(t) \in Nat, Begins(w, q, s, x, t)
    PROVE  Begins(w \o v, q, s, x, t)
<1>1. /\ Len(w \o v) = Len(w) + Len(v) /\ Len(w) \in Nat /\ Len(v) \in Nat
      /\ \A k \in 1 .. Len(w) : (w \o v)[k] = w[k]
    BY Concatenated
<1>2. q + Len(t) <= Len(w)
    BY DEF Begins
<1>3. /\ \A k \in 1 .. q - 1 : k \in 1 .. Len(w)
      /\ q \in 1 .. Len(w)
      /\ \A k \in 1 .. Len(t) : q + k \in 1 .. Len(w)
    BY <1>1, <1>2
<1>4. q + Len(t) <= Len(w) + Len(v) /\ Len(w) + Len(v) \in Nat
    BY <1>1, <1>2
<1> QED
    BY <1>1, <1>3, <1>4 DEF Begins

\* The open word has grown, and its group.
LEMMA GrowsBy ==
    ASSUME NEW old, NEW new, NEW q \in Nat \ {0},
           NEW s, NEW x, NEW t, NEW y, NEW u,
           Len(x) \in Nat, Len(y) \in Nat, Len(t) \in Nat, Len(u) \in Nat,
           Len(x) < WordBits, Len(x) <= Len(y), Len(t) <= Len(u),
           \A k \in 1 .. Len(x) : y[k] = x[k], \A k \in 1 .. Len(t) : u[k] = t[k],
           Len(old) = q + Len(t), Begins(old, q, s, x, t), Begins(new, q, s, y, u)
    PROVE  Grows(old, new, q)
<1>1. /\ Len(old) \in Nat /\ old[q] = x
      /\ \A k \in 1 .. q - 1 : old[k] = s[k] 
      /\ \A k \in 1 .. Len(t) : old[q + k] = t[k]
    BY DEF Begins
<1>2. /\ Len(new) \in Nat /\ q + Len(u) <= Len(new) /\ new[q] = y
      /\ \A k \in 1 .. q - 1 : new[k] = s[k]
      /\ \A k \in 1 .. Len(u) : new[q + k] = u[k]
    BY DEF Begins
<1>3. ASSUME NEW k \in 1 .. Len(old), k # q PROVE k \in 1 .. Len(new) /\ new[k] = old[k]
  <2>1. k \in 1 .. Len(new)
      BY <1>2
  <2>2. CASE k < q
    <3>1. k \in 1 .. q - 1
        BY <2>2
    <3> QED
        BY <1>1, <1>2, <2>1, <3>1
  <2>3. CASE k > q
    <3> DEFINE z == k - q
    <3>1. z \in 1 .. Len(t) /\ z \in 1 .. Len(u) /\ k = q + z
        BY <2>3
    <3> HIDE DEF z
    <3> QED
        BY <1>1, <1>2, <2>1, <3>1
  <2> QED
      BY <1>3, <2>2, <2>3
<1>4. ASSUME NEW k \in 1 .. Len(x)
      PROVE  q \in 1 .. Len(new) /\ k \in 1 .. Len(y) /\ y[k] = x[k]
    BY <1>2
<1> QED
    BY <1>1, <1>2, <1>3, <1>4 DEF Grows

-----------------------------------------------------------------------------
\* The words that a block is written into.

\* The k-th index after a group of g.
LEMMA Shifted ==
    ASSUME NEW g \in Nat, NEW z \in Nat, NEW q \in Nat, NEW k \in Nat, z = q + g + 1
    PROVE  z + k - 1 = q + (g + k)
OBVIOUS

\* A block whose code ends in the open word.
LEMMA EncodesOpen ==
    ASSUME form \in Forms, NEW a \in Places, NEW b \in Block, Reach(a, b.kind) <= WordBits,
           NEW new, NEW s, NEW all, NEW t, NEW g \in Nat, a.ptr = a.base + g + 1,
           Begins(new, a.base, s, all, t),
           Len(all) = Reach(a, b.kind), Len(t) = g + Cost(b.kind),
           \A k \in 1 .. Len(Code(b.kind)) : all[a.bit + k] = Code(b.kind)[k],
           \A k \in 1 .. Cost(b.kind) : t[g + k] = b.idx[k]
    PROVE  Encodes(new, a, b)
<1>1. /\ a.bit \in Nat /\ a.base \in Nat \ {0} /\ a.ptr \in Nat \ {0}
      /\ WordBits \in Nat
    BY VectorAssumption DEF Places
<1>2. /\ Cost(b.kind) \in Nat /\ Len(Code(b.kind)) \in Nat
      /\ Reach(a, b.kind) = a.bit + Len(Code(b.kind))
    BY BlockFacts, CostFacts, CodeFacts DEF Reach
<1>3. /\ Len(new) \in Nat /\ a.base + Len(t) <= Len(new) /\ new[a.base] = all
      /\ \A k \in 1 .. Len(t) : new[a.base + k] = t[k]
    BY DEF Begins
<1>4. ASSUME NEW k \in 1 .. Len(Code(b.kind))
      PROVE  /\ WordOf(a, k) = a.base /\ BitOf(a, k) = a.bit + k
             /\ a.base \in 1 .. Len(new) /\ a.bit + k \in 1 .. Len(all)
  <2> DEFINE m == a.bit
             q == a.base
             l == Len(Code(b.kind))
             n == Len(new)
  <2>1. m \in Nat /\ l \in Nat /\ WordBits \in Nat /\ m + l <= WordBits /\ k \in 1 .. l
      BY <1>1, <1>2
  <2>2. q \in Nat \ {0} /\ n \in Nat /\ Len(t) \in Nat /\ q + Len(t) <= n
      BY <1>1, <1>2, <1>3
  <2> HIDE DEF m, q, l, n
  <2>3. m + k <= WordBits /\ m + k \in 1 .. m + l
      BY <2>1
  <2>4. q \in 1 .. n
      BY <2>2
  <2> QED
      BY <1>2, <2>3, <2>4 DEF WordOf, BitOf, m, q, l, n
<1>5. ASSUME NEW k \in 1 .. Cost(b.kind)
      PROVE  /\ Index(a, b.kind) + k - 1 \in 1 .. Len(new)
             /\ new[Index(a, b.kind) + k - 1] = b.idx[k]
  <2>1. Index(a, b.kind) = a.ptr
      BY <1>1, <1>2 DEF Index
  <2>2. a.ptr + k - 1 = a.base + (g + k) /\ g + k \in 1 .. Len(t)
        /\ a.base + (g + k) \in 1 .. Len(new)
    <3> DEFINE q == a.base
               z == a.ptr
               c == Cost(b.kind)
               n == Len(new)
               m == Len(t)
    <3>1. /\ q \in Nat \ {0} /\ z \in Nat \ {0} /\ c \in Nat /\ n \in Nat /\ m \in Nat
          /\ z = q + g + 1 /\ m = g + c /\ k \in 1 .. c /\ q + m <= n
        BY <1>1, <1>2, <1>3
    <3> HIDE DEF q, z, c, n, m
    <3>2. k \in Nat \ {0} /\ k <= c /\ z \in Nat /\ q \in Nat /\ z = q + g + 1
        BY <3>1
    <3>3. z + k - 1 = q + (g + k)
        BY <3>2, Shifted
    <3>4. g + k \in Nat \ {0} /\ g + k <= m
        BY <3>1, <3>2
    <3>5. g + k \in 1 .. m /\ q + (g + k) \in 1 .. n
      <4> DEFINE y == g + k
      <4>1. y \in Nat \ {0} /\ y <= m
          BY <3>4
      <4> HIDE DEF y
      <4>2. y \in 1 .. m /\ q + y \in 1 .. n
          BY <3>1, <4>1
      <4> QED
          BY <4>2 DEF y
    <3> QED
        BY <3>3, <3>5 DEF q, z, c, n, m
  <2>3. new[a.base + (g + k)] = t[g + k]
      BY <1>3, <2>2
  <2> QED
      BY <2>1, <2>2, <2>3
<1> QED
    BY <1>3, <1>4, <1>5 DEF Encodes

\* A block whose code is cut.
LEMMA EncodesCut ==
    ASSUME form \in Forms, NEW a \in Places, NEW b \in Block, Reach(a, b.kind) > WordBits,
           NEW new, NEW s, NEW all, NEW t, NEW r, NEW rest,
           Begins(new, a.base, s, all, t), Len(t) \in Nat,
           Begins(new, a.ptr, r, rest, b.idx),
           Len(all) = WordBits, all[WordBits] = Code(b.kind)[1],
           Len(rest) = 1, rest[1] = Code(b.kind)[2]
    PROVE  Encodes(new, a, b)
<1>1. /\ a.bit \in 0 .. WordBits - 1 /\ a.base \in Nat \ {0} /\ a.ptr \in Nat \ {0}
      /\ WordBits \in Nat /\ WordBits >= 2
    BY VectorAssumption DEF Places
<1>2. /\ Cost(b.kind) \in Nat /\ Len(b.idx) = Cost(b.kind)
      /\ Len(Code(b.kind)) \in {1, 2}
      /\ Reach(a, b.kind) = a.bit + Len(Code(b.kind))
    BY BlockFacts, CostFacts, CodeFacts DEF Reach
<1>3. Len(Code(b.kind)) = 2 /\ a.bit = WordBits - 1
  <2> DEFINE m == a.bit
             l == Len(Code(b.kind))
  <2>1. m \in 0 .. WordBits - 1 /\ l \in {1, 2} /\ m + l > WordBits /\ WordBits \in Nat
      BY <1>1, <1>2
  <2> HIDE DEF m, l
  <2>2. l = 2 /\ m = WordBits - 1
      BY <2>1
  <2> QED
      BY <2>2 DEF m, l
<1>4. /\ Len(new) \in Nat /\ a.base + Len(t) <= Len(new) /\ new[a.base] = all
      /\ a.ptr + Len(b.idx) <= Len(new) /\ new[a.ptr] = rest
      /\ \A k \in 1 .. Len(b.idx) : new[a.ptr + k] = b.idx[k]
    BY DEF Begins
<1>5. /\ a.base \in 1 .. Len(new) /\ a.ptr \in 1 .. Len(new)
      /\ \A k \in 1 .. Cost(b.kind) : a.ptr + 1 + k - 1 = a.ptr + k /\ a.ptr + k \in 1 .. Len(new)
  <2> DEFINE q == a.base
             z == a.ptr
             c == Cost(b.kind)
             n == Len(new)
             m == Len(t)
  <2>1. /\ q \in Nat \ {0} /\ z \in Nat \ {0} /\ c \in Nat /\ n \in Nat /\ m \in Nat
        /\ q + m <= n /\ z + c <= n
      BY <1>1, <1>2, <1>4
  <2> HIDE DEF q, z, c, n, m
  <2>2. /\ q \in 1 .. n /\ z \in 1 .. n
        /\ \A k \in 1 .. c : z + 1 + k - 1 = z + k /\ z + k \in 1 .. n
      BY <2>1
  <2> QED
      BY <2>2 DEF q, z, c, n, m
<1>6. ASSUME NEW k \in 1 .. Len(Code(b.kind))
      PROVE  /\ WordOf(a, k) \in 1 .. Len(new)
             /\ BitOf(a, k) \in 1 .. Len(new[WordOf(a, k)])
             /\ new[WordOf(a, k)][BitOf(a, k)] = Code(b.kind)[k]
  <2>1. k = 1 \/ k = 2
      BY <1>3
  <2>2. CASE k = 1
    <3>1. WordOf(a, k) = a.base /\ BitOf(a, k) = WordBits
        BY <1>1, <1>3, <2>2 DEF WordOf, BitOf
    <3>2. WordBits \in 1 .. Len(all)
        BY <1>1
    <3>3. new[WordOf(a, k)] = all /\ all[BitOf(a, k)] = Code(b.kind)[k]
        BY <1>4, <2>2, <3>1
    <3>4. WordOf(a, k) \in 1 .. Len(new)
        BY <1>5, <3>1
    <3>5. BitOf(a, k) \in 1 .. Len(new[WordOf(a, k)])
        BY <3>1, <3>2, <3>3
    <3> QED
        BY <3>3, <3>4, <3>5
  <2>3. CASE k = 2
    <3>1. WordOf(a, k) = a.ptr /\ BitOf(a, k) = 1
        BY <1>1, <1>3, <2>3 DEF WordOf, BitOf
    <3>2. new[WordOf(a, k)] = rest /\ rest[BitOf(a, k)] = Code(b.kind)[k]
        BY <1>4, <2>3, <3>1
    <3>3. WordOf(a, k) \in 1 .. Len(new)
        BY <1>5, <3>1
    <3>4. BitOf(a, k) \in 1 .. Len(new[WordOf(a, k)])
      <4>1. 1 \in 1 .. Len(rest)
          OBVIOUS
      <4> QED
          BY <3>1, <3>2, <4>1
    <3> QED
        BY <3>2, <3>3, <3>4
  <2> QED
      BY <2>1, <2>2, <2>3
<1>7. ASSUME NEW k \in 1 .. Cost(b.kind)
      PROVE  /\ Index(a, b.kind) + k - 1 \in 1 .. Len(new)
             /\ new[Index(a, b.kind) + k - 1] = b.idx[k]
  <2>1. Index(a, b.kind) = a.ptr + 1
      BY <1>1, <1>2 DEF Index
  <2>2. a.ptr + 1 + k - 1 = a.ptr + k /\ a.ptr + k \in 1 .. Len(new)
      BY <1>5
  <2> QED
      BY <1>2, <1>4, <2>1, <2>2
<1> QED
    BY <1>6, <1>7 DEF Encodes

\* Words are bits, all of them.
LEMMA WordsAreBits ==
    /\ Word \subseteq Seq({0, 1})
    /\ \A s \in Seq(Word) : s \in Seq(Seq({0, 1}))
    /\ \A w \in Word : Len(w) = WordBits
<1>1. WordBits \in Nat
    BY VectorAssumption
<1>2. \A w \in Word : w \in Seq({0, 1}) /\ Len(w) = WordBits
    BY <1>1 DEF Word
<1>3. \A s \in Seq(Word) : s \in Seq(Seq({0, 1}))
  <2> HIDE DEF Word
  <2> QED
      BY <1>2
<1> QED
    BY <1>2, <1>3

\* The words written so far begin as they should.
LEMMA WordsBegin ==
    ASSUME NEW a, NEW pay, NEW some, NEW grp, OpenAt(pay, some, grp, a)
    PROVE  /\ Words(pay, some, grp) \in Seq(Seq({0, 1}))
           /\ Len(Words(pay, some, grp)) = a.base + Len(grp)
           /\ Begins(Words(pay, some, grp), a.base, pay, some, grp)
<1> DEFINE S == Seq({0, 1})
<1>1. pay \in Seq(S) /\ some \in S /\ grp \in Seq(S)
    BY WordsAreBits DEF OpenAt
<1>2. a.base = Len(pay) + 1
    BY DEF OpenAt
<1> HIDE DEF S
<1>3. a.base \in Nat
    BY <1>1, <1>2
<1>4. /\ Words(pay, some, grp) \in Seq(S)
      /\ Len(Words(pay, some, grp)) = a.base + Len(grp)
      /\ Begins(Words(pay, some, grp), a.base, pay, some, grp)
    BY <1>1, <1>2, <1>3, BeginsIt DEF Words
<1> QED
    BY <1>4 DEF S

\* The bits with a code appended.
LEMMA CodeAppended ==
    ASSUME form \in Forms, NEW a \in Places, NEW b \in Block,
           NEW some \in Seq({0, 1}), Len(some) = a.bit
    PROVE  LET all == some \o Code(b.kind)
           IN  /\ all \in Seq({0, 1}) /\ Len(all) = Reach(a, b.kind)
               /\ Len(all) \in Nat
               /\ \A k \in 1 .. Len(some) : all[k] = some[k]
               /\ \A k \in 1 .. Len(Code(b.kind)) : all[a.bit + k] = Code(b.kind)[k]
<1> DEFINE code == Code(b.kind)
<1>1. code \in Seq({0, 1}) /\ Reach(a, b.kind) = a.bit + Len(code)
    BY BlockFacts, CodeFacts DEF Reach
<1> HIDE DEF code
<1>2. some \o code \in Seq({0, 1}) /\ Len(some \o code) = Len(some) + Len(code)
    BY <1>1, Concatenated
<1>3. \A k \in 1 .. Len(some) : (some \o code)[k] = some[k]
    BY <1>1, Concatenated
<1>4. \A k \in 1 .. Len(code) : (some \o code)[Len(some) + k] = code[k]
    BY <1>1, Concatenated
<1> QED
    BY <1>1, <1>2, <1>3, <1>4 DEF code

\* A block is written into the open word, which has room for more.
LEMMA WrittenInside ==
    ASSUME form \in Forms, NEW a \in Places, NEW b \in Block, Reach(a, b.kind) < WordBits,
           NEW pay, NEW some, NEW grp, OpenAt(pay, some, grp, a)
    PROVE  LET all == some \o Code(b.kind)
               more == grp \o b.idx
           IN  /\ OpenAt(pay, all, more, After(a, b.kind))
               /\ Grows(Words(pay, some, grp), Words(pay, all, more), a.base)
               /\ Encodes(Words(pay, all, more), a, b)
<1> DEFINE all == some \o Code(b.kind)
           more == grp \o b.idx
           old == Words(pay, some, grp)
           new == Words(pay, all, more)
           g == Len(grp)
<1>1. /\ a.bit \in Nat /\ a.bit < WordBits /\ a.base \in Nat \ {0} /\ a.ptr \in Nat \ {0}
    BY VectorAssumption DEF Places
<1>2. /\ b.kind \in Kinds /\ b.idx \in Seq(Word) /\ Len(b.idx) = Cost(b.kind)
      /\ Cost(b.kind) \in Nat
    BY BlockFacts, CostFacts
<1>3. /\ pay \in Seq(Word) /\ some \in Seq({0, 1}) /\ grp \in Seq(Word)
      /\ Len(some) = a.bit /\ a.base = Len(pay) + 1 /\ a.ptr = a.base + g + 1
    BY DEF OpenAt
<1>4. /\ all \in Seq({0, 1}) /\ Len(all) = Reach(a, b.kind) /\ Len(all) \in Nat
      /\ \A k \in 1 .. Len(some) : all[k] = some[k]
      /\ \A k \in 1 .. Len(Code(b.kind)) : all[a.bit + k] = Code(b.kind)[k]
    BY <1>3, CodeAppended
<1>5. /\ more \in Seq(Word) /\ Len(more) = g + Cost(b.kind) /\ g \in Nat
      /\ \A k \in 1 .. g : more[k] = grp[k]
      /\ \A k \in 1 .. Cost(b.kind) : more[g + k] = b.idx[k]
  <2> DEFINE idx == b.idx
  <2>1. idx \in Seq(Word) /\ Len(idx) = Cost(b.kind)
      BY <1>2
  <2> HIDE DEF idx
  <2>2. grp \o idx \in Seq(Word) /\ Len(grp \o idx) = Len(grp) + Len(idx)
      BY <1>3, <2>1, Concatenated
  <2>3. \A k \in 1 .. Len(grp) : (grp \o idx)[k] = grp[k]
      BY <1>3, <2>1, Concatenated
  <2>4. \A k \in 1 .. Len(idx) : (grp \o idx)[Len(grp) + k] = idx[k]
      BY <1>3, <2>1, Concatenated
  <2>5. Len(grp) \in Nat
      BY <1>3
  <2> QED
      BY <2>1, <2>2, <2>3, <2>4, <2>5 DEF idx
<1> HIDE DEF all, more, g
<1>6. /\ After(a, b.kind).bit = Reach(a, b.kind)
      /\ After(a, b.kind).base = a.base /\ After(a, b.kind).ptr = a.ptr + Cost(b.kind)
    BY DEF After
<1>7. OpenAt(pay, all, more, After(a, b.kind))
  <2>1. a.ptr + Cost(b.kind) = a.base + Len(more) + 1
      BY <1>1, <1>2, <1>3, <1>5
  <2> QED
      BY <1>3, <1>4, <1>5, <1>6, <2>1 DEF OpenAt
<1>8. Len(old) = a.base + g /\ Begins(old, a.base, pay, some, grp)
    BY WordsBegin DEF g
<1>9. Begins(new, a.base, pay, all, more)
    BY <1>6, <1>7, WordsBegin
<1> HIDE DEF old, new
<1>10. Grows(old, new, a.base)
  <2>1. /\ Len(some) \in Nat /\ Len(some) < WordBits /\ Len(some) <= Len(all)
        /\ Len(more) \in Nat /\ g <= Len(more)
    <3>1. Len(some) <= Reach(a, b.kind)
        BY <1>1, <1>2, <1>3, CodeFacts DEF Reach
    <3> QED
        BY <1>1, <1>2, <1>3, <1>4, <1>5, <3>1
  <2> QED
      BY <1>1, <1>4, <1>5, <1>8, <1>9, <2>1, GrowsBy DEF g
<1>11. Encodes(new, a, b)
  <2>1. Reach(a, b.kind) <= WordBits
      BY <1>4, VectorAssumption
  <2> QED
      BY <1>3, <1>4, <1>5, <1>9, <2>1, EncodesOpen
<1> QED
    BY <1>7, <1>10, <1>11 DEF old, new, all, more

\* A word that is full, and what is left of the code.
LEMMA FlagWord ==
    ASSUME NEW all \in Seq({0, 1}), Len(all) \in {WordBits, WordBits + 1}
    PROVE  /\ SubSeq(all, 1, WordBits) \in Word
           /\ \A k \in 1 .. WordBits : SubSeq(all, 1, WordBits)[k] = all[k]
           /\ SubSeq(all, WordBits + 1, Len(all)) \in Seq({0, 1})
           /\ Len(SubSeq(all, WordBits + 1, Len(all))) = Len(all) - WordBits
           /\ Len(all) = WordBits + 1 =>
                SubSeq(all, WordBits + 1, Len(all))[1] = all[WordBits + 1]
<1>1. WordBits \in Nat /\ WordBits >= 2
    BY VectorAssumption
<1>2. SubSeq(all, 1, WordBits) \in Word
  <2> DEFINE w == SubSeq(all, 1, WordBits)
  <2>1. w \in Seq({0, 1}) /\ Len(w) = WordBits
      BY <1>1
  <2> HIDE DEF w
  <2>2. w \in [1 .. WordBits -> {0, 1}]
      BY <2>1, LenProperties
  <2> QED
      BY <2>2 DEF w, Word
<1>3. \A k \in 1 .. WordBits : SubSeq(all, 1, WordBits)[k] = all[k]
    BY <1>1
<1>4. SubSeq(all, WordBits + 1, Len(all)) \in Seq({0, 1})
    BY <1>1
<1>5. Len(SubSeq(all, WordBits + 1, Len(all))) = Len(all) - WordBits
    BY <1>1
<1>6. Len(all) = WordBits + 1 => SubSeq(all, WordBits + 1, Len(all))[1] = all[WordBits + 1]
    BY <1>1
<1> QED
    BY <1>2, <1>3, <1>4, <1>5, <1>6

\* The full word is flushed with its group, and perhaps with the indices of the
\* last block.
LEMMA Flushed ==
    ASSUME NEW a, NEW pay, NEW some, NEW grp, OpenAt(pay, some, grp, a),
           NEW w \in Word, NEW more \in Seq(Word)
    PROVE  LET full == pay \o <<w>> \o grp \o more
           IN  /\ full \in Seq(Word) /\ Len(full) + 1 = a.ptr + Len(more)
               /\ Begins(full, a.base, pay, w, grp \o more)
               /\ a.base \in Nat \ {0} /\ Len(grp \o more) \in Nat
<1> DEFINE full == pay \o <<w>> \o grp \o more
           u == grp \o more
           start == pay \o <<w>>
           q == a.base
           z == a.ptr
<1>0. pay \in Seq(Word) /\ grp \in Seq(Word)
    BY DEF OpenAt
<1>1. q = Len(pay) + 1 /\ z = q + Len(grp) + 1
    BY DEF OpenAt
<1> HIDE DEF q, z
<1>2. full = pay \o <<w>> \o u
  <2>1. start \in Seq(Word)
      BY <1>0
  <2> HIDE DEF start
  <2>2. (start \o grp) \o more = start \o (grp \o more)
      BY <1>0, <2>1, ConcatAssociative, SMTT(30)
  <2> QED
      BY <2>2 DEF start
<1>3. q \in Nat \ {0} /\ Len(grp) \in Nat /\ Len(more) \in Nat
  <2>1. Len(pay) \in Nat /\ Len(grp) \in Nat
      BY <1>0
  <2> QED
      BY <1>1, <2>1
<1>4. u \in Seq(Word) /\ Len(u) = Len(grp) + Len(more)
    BY <1>0, Concatenated
<1>5. Len(u) \in Nat
    BY <1>3, <1>4
<1> HIDE DEF u, full
<1>6. full \in Seq(Word)
    BY <1>0, <1>2, <1>4, ThreeParts
<1>7. Len(full) = q + Len(u)
  <2>1. Len(full) = Len(pay) + 1 + Len(u)
      BY <1>0, <1>4, ThreeParts DEF full
  <2> QED
      BY <1>1, <2>1
<1>8. Begins(full, q, pay, w, u)
    BY <1>0, <1>1, <1>2, <1>3, <1>4, BeginsIt
<1>9. Len(full) + 1 = z + Len(more)
  <2>1. Len(full) = q + (Len(grp) + Len(more))
      BY <1>4, <1>7
  <2> QED
      BY <1>1, <1>3, <2>1
<1> QED
    BY <1>3, <1>5, <1>6, <1>8, <1>9 DEF full, u, q, z

\* What follows changes nothing of that.
LEMMA BeginsInWords ==
    ASSUME NEW full \in Seq(Word), NEW rest \in Seq({0, 1}), NEW last \in Seq(Word),
           NEW q \in Nat \ {0}, NEW s, NEW w, NEW t, Len(t) \in Nat, Begins(full, q, s, w, t)
    PROVE  Begins(Words(full, rest, last), q, s, w, t)
<1> DEFINE S == Seq({0, 1})
<1>1. full \in Seq(S) /\ last \in Seq(S) /\ rest \in S
    BY WordsAreBits
<1> HIDE DEF S
<1>2. <<rest>> \in Seq(S)
    BY <1>1
<1>3. Begins(full \o <<rest>>, q, s, w, t)
    BY <1>1, <1>2, BeginsOn
<1>4. full \o <<rest>> \in Seq(S)
    BY <1>1, <1>2, Concatenated
<1>5. Begins(full \o <<rest>> \o last, q, s, w, t)
    BY <1>1, <1>3, <1>4, BeginsOn
<1> QED
    BY <1>5 DEF Words

\* A block fills the word.
LEMMA WrittenFull ==
    ASSUME form \in Forms, NEW a \in Places, NEW b \in Block, Reach(a, b.kind) = WordBits,
           NEW pay, NEW some, NEW grp, OpenAt(pay, some, grp, a)
    PROVE  LET all == some \o Code(b.kind)
               full == pay \o <<SubSeq(all, 1, WordBits)>> \o grp \o b.idx
               rest == SubSeq(all, WordBits + 1, Len(all))
           IN  /\ OpenAt(full, rest, <<>>, After(a, b.kind))
               /\ Grows(Words(pay, some, grp), Words(full, rest, <<>>), a.base)
               /\ Encodes(Words(full, rest, <<>>), a, b)
<1> DEFINE all == some \o Code(b.kind)
           w == SubSeq(all, 1, WordBits)
           rest == SubSeq(all, WordBits + 1, Len(all))
           more == grp \o b.idx
           full == pay \o <<w>> \o grp \o b.idx
           old == Words(pay, some, grp)
           new == Words(full, rest, <<>>)
           g == Len(grp)
<1>1. /\ a.bit \in Nat /\ a.bit < WordBits /\ a.base \in Nat \ {0} /\ a.ptr \in Nat \ {0}
      /\ WordBits \in Nat
    BY VectorAssumption DEF Places
<1>2. /\ b.kind \in Kinds /\ b.idx \in Seq(Word) /\ Len(b.idx) = Cost(b.kind)
      /\ Cost(b.kind) \in Nat
    BY BlockFacts, CostFacts
<1>3. /\ pay \in Seq(Word) /\ some \in Seq({0, 1}) /\ grp \in Seq(Word)
      /\ Len(some) = a.bit /\ a.base = Len(pay) + 1 /\ a.ptr = a.base + g + 1
    BY DEF OpenAt
<1>4. /\ all \in Seq({0, 1}) /\ Len(all) = WordBits
      /\ \A k \in 1 .. Len(some) : all[k] = some[k]
      /\ \A k \in 1 .. Len(Code(b.kind)) : all[a.bit + k] = Code(b.kind)[k]
    BY <1>3, CodeAppended
<1> HIDE DEF all
<1>5. /\ w \in Word /\ Len(w) = WordBits /\ \A k \in 1 .. WordBits : w[k] = all[k]
      /\ rest \in Seq({0, 1}) /\ Len(rest) = 0
  <2>1. w \in Word /\ rest \in Seq({0, 1}) /\ \A k \in 1 .. WordBits : w[k] = all[k]
      BY <1>4, FlagWord
  <2>2. Len(rest) = Len(all) - WordBits
      BY <1>4, FlagWord
  <2> QED
      BY <1>1, <1>4, <2>1, <2>2, WordsAreBits
<1>6. /\ more \in Seq(Word) /\ Len(more) = g + Cost(b.kind) /\ g \in Nat
      /\ \A k \in 1 .. g : more[k] = grp[k]
      /\ \A k \in 1 .. Cost(b.kind) : more[g + k] = b.idx[k]
  <2> DEFINE idx == b.idx
  <2>1. idx \in Seq(Word) /\ Len(idx) = Cost(b.kind)
      BY <1>2
  <2> HIDE DEF idx
  <2>2. grp \o idx \in Seq(Word) /\ Len(grp \o idx) = Len(grp) + Len(idx)
      BY <1>3, <2>1, Concatenated
  <2>3. \A k \in 1 .. Len(grp) : (grp \o idx)[k] = grp[k]
      BY <1>3, <2>1, Concatenated
  <2>4. \A k \in 1 .. Len(idx) : (grp \o idx)[Len(grp) + k] = idx[k]
      BY <1>3, <2>1, Concatenated
  <2>5. Len(grp) \in Nat
      BY <1>3
  <2> QED
      BY <2>1, <2>2, <2>3, <2>4, <2>5 DEF idx
<1> HIDE DEF w, rest
<1>7. /\ full \in Seq(Word) /\ Len(full) + 1 = a.ptr + Cost(b.kind)
      /\ Begins(new, a.base, pay, w, more)
  <2> DEFINE idx == b.idx
  <2>1. idx \in Seq(Word) /\ Len(idx) = Cost(b.kind)
      BY <1>2
  <2> HIDE DEF idx
  <2> DEFINE u == pay \o <<w>> \o grp \o idx
  <2>2. u \in Seq(Word) /\ Len(u) + 1 = a.ptr + Len(idx)
    <3>1. u \in Seq(Word)
        BY <1>5, <2>1, Flushed
    <3>2. Len(u) + 1 = a.ptr + Len(idx)
      <4>1. w \in Word /\ pay \in Seq(Word) /\ grp \in Seq(Word)
          BY <1>3, <1>5
      <4>2. Len(u) = Len(pay) + 1 + Len(grp) + Len(idx)
          BY <2>1, <4>1
      <4>3. a.ptr = Len(pay) + 1 + Len(grp) + 1
          BY <1>3, <4>1 DEF g
      <4> QED
          BY <2>1, <4>1, <4>2, <4>3
    <3> QED
        BY <3>1, <3>2
  <2>3. Begins(u, a.base, pay, w, grp \o idx)
      BY <1>5, <2>1, Flushed
  <2>4. <<>> \in Seq(Word)
      OBVIOUS
  <2>5. Len(grp \o idx) \in Nat
      BY <1>5, <2>1, Flushed
  <2> HIDE DEF u
  <2>6. Begins(Words(u, rest, <<>>), a.base, pay, w, grp \o idx)
      BY <1>1, <1>5, <2>2, <2>3, <2>4, <2>5, BeginsInWords
  <2> QED
      BY <2>1, <2>2, <2>6 DEF u, idx
<1>8. /\ After(a, b.kind).bit = 0
      /\ After(a, b.kind).base = a.ptr + Cost(b.kind)
      /\ After(a, b.kind).ptr = a.ptr + Cost(b.kind) + 1
    BY <1>1 DEF After
<1> HIDE DEF full, more, g
<1>9. OpenAt(full, rest, <<>>, After(a, b.kind))
  <2>1. <<>> \in Seq(Word) /\ Len(<<>>) = 0
      OBVIOUS
  <2>2. a.ptr + Cost(b.kind) + 1 = a.ptr + Cost(b.kind) + 0 + 1
      BY <1>1, <1>2
  <2> QED
      BY <1>5, <1>7, <1>8, <2>1, <2>2 DEF OpenAt
<1>10. Len(old) = a.base + g /\ Begins(old, a.base, pay, some, grp)
    BY WordsBegin DEF g
<1> HIDE DEF old, new
<1>11. Grows(old, new, a.base)
  <2>1. \A k \in 1 .. Len(some) : w[k] = some[k]
      BY <1>1, <1>3, <1>4, <1>5
  <2>2. /\ Len(some) \in Nat /\ Len(w) \in Nat /\ Len(some) < WordBits /\ Len(some) <= Len(w)
        /\ Len(more) \in Nat /\ g <= Len(more)
      BY <1>1, <1>2, <1>3, <1>5, <1>6, SMTT(30)
  <2> QED
      BY <1>1, <1>6, <1>7, <1>10, <2>1, <2>2, GrowsBy DEF g
<1>12. Encodes(new, a, b)
  <2>1. \A k \in 1 .. Len(Code(b.kind)) : w[a.bit + k] = Code(b.kind)[k]
    <3>1. b.kind \in Kinds /\ Len(Code(b.kind)) \in Nat /\ a.bit + Len(Code(b.kind)) = WordBits
        BY <1>2, CodeFacts DEF Reach
    <3>2. \A k \in 1 .. Len(Code(b.kind)) : a.bit + k \in 1 .. WordBits
        BY <1>1, <3>1
    <3> QED
        BY <1>4, <1>5, <3>2
  <2>2. Reach(a, b.kind) <= WordBits
      BY <1>1
  <2> QED
      BY <1>3, <1>5, <1>6, <1>7, <2>1, <2>2, EncodesOpen
<1> QED
    BY <1>9, <1>11, <1>12 DEF old, new, full, rest, w, all

\* A block is cut: the word is flushed with the group that it has, and the
\* indices go with the next word.
LEMMA WrittenCut ==
    ASSUME form \in Forms, NEW a \in Places, NEW b \in Block, Reach(a, b.kind) > WordBits,
           NEW pay, NEW some, NEW grp, OpenAt(pay, some, grp, a)
    PROVE  LET all == some \o Code(b.kind)
               full == pay \o <<SubSeq(all, 1, WordBits)>> \o grp \o <<>>
               rest == SubSeq(all, WordBits + 1, Len(all))
           IN  /\ OpenAt(full, rest, b.idx, After(a, b.kind))
               /\ Grows(Words(pay, some, grp), Words(full, rest, b.idx), a.base)
               /\ Encodes(Words(full, rest, b.idx), a, b)
<1> DEFINE all == some \o Code(b.kind)
           w == SubSeq(all, 1, WordBits)
           rest == SubSeq(all, WordBits + 1, Len(all))
           more == grp \o <<>>
           full == pay \o <<w>> \o grp \o <<>>
           old == Words(pay, some, grp)
           new == Words(full, rest, b.idx)
           g == Len(grp)
<1>1. /\ a.bit \in Nat /\ a.bit < WordBits /\ a.base \in Nat \ {0} /\ a.ptr \in Nat \ {0}
      /\ WordBits \in Nat
    BY VectorAssumption DEF Places
<1>2. /\ b.kind \in Kinds /\ b.idx \in Seq(Word) /\ Len(b.idx) = Cost(b.kind)
      /\ Cost(b.kind) \in Nat
    BY BlockFacts, CostFacts
<1>3. /\ pay \in Seq(Word) /\ some \in Seq({0, 1}) /\ grp \in Seq(Word)
      /\ Len(some) = a.bit /\ a.base = Len(pay) + 1 /\ a.ptr = a.base + g + 1
    BY DEF OpenAt
<1>4. Reach(a, b.kind) = WordBits + 1 /\ Len(Code(b.kind)) = 2 /\ a.bit = WordBits - 1
  <2> DEFINE m == a.bit
             l == Len(Code(b.kind))
             r == Reach(a, b.kind)
  <2>1. /\ m \in 0 .. WordBits - 1 /\ l \in {1, 2} /\ r = m + l /\ r > WordBits
        /\ WordBits \in Nat
      BY <1>1, <1>2, CodeFacts DEF Reach
  <2> HIDE DEF m, l, r
  <2>2. r = WordBits + 1 /\ l = 2 /\ m = WordBits - 1
      BY <2>1
  <2> QED
      BY <2>2 DEF m, l, r
<1>5. /\ all \in Seq({0, 1}) /\ Len(all) = WordBits + 1
      /\ \A k \in 1 .. Len(some) : all[k] = some[k]
      /\ \A k \in 1 .. Len(Code(b.kind)) : all[a.bit + k] = Code(b.kind)[k]
    BY <1>3, <1>4, CodeAppended
<1> HIDE DEF all
<1>6. /\ w \in Word /\ Len(w) = WordBits /\ \A k \in 1 .. WordBits : w[k] = all[k]
      /\ rest \in Seq({0, 1}) /\ Len(rest) = 1 /\ rest[1] = all[WordBits + 1]
  <2>1. w \in Word /\ rest \in Seq({0, 1}) /\ \A k \in 1 .. WordBits : w[k] = all[k]
      BY <1>5, FlagWord
  <2>2. Len(rest) = Len(all) - WordBits
      BY <1>5, FlagWord
  <2>3. rest[1] = all[WordBits + 1]
      BY <1>5, FlagWord
  <2> QED
      BY <1>1, <1>5, <2>1, <2>2, <2>3, WordsAreBits
<1>7. more = grp /\ full = pay \o <<w>> \o grp
  <2>1. grp \o <<>> = grp
      BY <1>3
  <2>2. pay \o <<w>> \o grp \in Seq(Word)
      BY <1>3, <1>6
  <2> DEFINE u == pay \o <<w>> \o grp
  <2> HIDE DEF u
  <2>3. u \o <<>> = u
      BY <2>2 DEF u
  <2> QED
      BY <2>1, <2>3 DEF u
<1>8. g \in Nat
    BY <1>3
<1> HIDE DEF w, rest
<1>9. full \in Seq(Word) /\ Len(full) + 1 = a.ptr
  <2>1. pay \o <<w>> \o grp \in Seq(Word)
      BY <1>3, <1>6
  <2>2. Len(pay \o <<w>> \o grp) = Len(pay) + 1 + Len(grp)
      BY <1>3, <1>6
  <2>3. Len(pay) \in Nat
      BY <1>3
  <2> QED
      BY <1>3, <1>7, <1>8, <2>1, <2>2, <2>3
<1>10. Begins(full, a.base, pay, w, grp)
    BY <1>1, <1>3, <1>6, <1>7, BeginsIt
<1> HIDE DEF full, more, g
<1>11. /\ After(a, b.kind).bit = 1
       /\ After(a, b.kind).base = a.ptr
       /\ After(a, b.kind).ptr = a.ptr + 1 + Cost(b.kind)
    BY <1>1, <1>4 DEF After
<1>12. OpenAt(full, rest, b.idx, After(a, b.kind))
  <2>1. a.ptr + 1 + Cost(b.kind) = a.ptr + Cost(b.kind) + 1
      BY <1>1, <1>2
  <2> QED
      BY <1>2, <1>6, <1>9, <1>11, <2>1 DEF OpenAt
<1>13. Begins(new, a.base, pay, w, grp)
    BY <1>1, <1>2, <1>6, <1>8, <1>9, <1>10, BeginsInWords DEF g
<1>14. Begins(new, a.ptr, full, rest, b.idx)
    BY <1>11, <1>12, WordsBegin
<1>15. Len(old) = a.base + Len(grp) /\ Begins(old, a.base, pay, some, grp)
    BY WordsBegin
<1> HIDE DEF old, new
<1>16. Grows(old, new, a.base)
  <2>1. \A k \in 1 .. Len(some) : w[k] = some[k]
      BY <1>1, <1>3, <1>5, <1>6
  <2>2. /\ Len(some) \in Nat /\ Len(w) \in Nat /\ Len(some) < WordBits /\ Len(some) <= Len(w)
        /\ Len(grp) \in Nat /\ Len(grp) <= Len(grp)
      BY <1>1, <1>3, <1>6, <1>8 DEF g
  <2> QED
      BY <1>1, <1>13, <1>15, <2>1, <2>2, GrowsBy
<1>17. Encodes(new, a, b)
  <2>1. w[WordBits] = Code(b.kind)[1]
    <3>1. a.bit + 1 = WordBits /\ 1 \in 1 .. Len(Code(b.kind))
        BY <1>1, <1>4
    <3>2. WordBits \in 1 .. WordBits
        BY <1>1
    <3> QED
        BY <1>5, <1>6, <3>1, <3>2
  <2>2. rest[1] = Code(b.kind)[2]
    <3>1. a.bit + 2 = WordBits + 1 /\ 2 \in 1 .. Len(Code(b.kind))
        BY <1>1, <1>4
    <3> QED
        BY <1>5, <1>6, <3>1
  <2>3. Len(grp) \in Nat
      BY <1>8 DEF g
  <2> QED
      BY <1>6, <1>13, <1>14, <2>1, <2>2, <2>3, EncodesCut
<1> QED
    BY <1>12, <1>16, <1>17 DEF old, new, full, rest, w, all

\* What holds of all blocks keeps holding.
LEMMA HoldsKept ==
    ASSUME form \in Forms, NEW blocks \in Seq(Block), NEW at \in Layouts(blocks),
           NEW old, NEW new, NEW q, Holds(blocks, old, at), Grows(old, new, q)
    PROVE  Holds(blocks, new, at)
<1>1. ASSUME NEW i \in 1 .. Len(blocks)
      PROVE  Encodes(new, at[i - 1], blocks[i]) /\ End(at[i]) <= End(at[Len(blocks)])
  <2>1. at[i - 1] \in Places /\ blocks[i] \in Block
      BY LayoutFacts
  <2>2. Encodes(old, at[i - 1], blocks[i]) /\ End(at[i]) <= End(at[Len(blocks)])
      BY DEF Holds
  <2> QED
      BY <2>1, <2>2, EncodesKept
<1> QED
    BY <1>1 DEF Holds

\* A block more.
LEMMA HoldsMore ==
    ASSUME form \in Forms, NEW blocks \in Seq(Block), NEW at \in Layouts(blocks),
           NEW old, NEW new, NEW q, Holds(blocks, old, at), Grows(old, new, q),
           NEW b \in Block, Encodes(new, at[Len(blocks)], b),
           NEW more \in Seq(Block), more = Append(blocks, b),
           NEW next1, \A i \in 0 .. Len(blocks) : next1[i] = at[i],
           next1[Len(blocks) + 1] = After(at[Len(blocks)], b.kind)
    PROVE  Holds(more, new, next1)
<1> DEFINE n == Len(blocks)
<1>1. n \in Nat /\ Len(more) = n + 1 /\ more[n + 1] = b /\ \A i \in 1 .. n : more[i] = blocks[i]
    OBVIOUS
<1>2. \A i \in 0 .. n : at[i] \in Places
    BY LayoutFacts
<1>3. \A i \in 1 .. n : Encodes(new, at[i - 1], blocks[i]) /\ End(at[i]) <= End(at[n])
    BY HoldsKept DEF Holds
<1>4. at[n] \in Places /\ b.kind \in Kinds
  <2>1. n \in 0 .. n
      BY <1>1
  <2> QED
      BY <1>2, <2>1, BlockFacts
<1>5. /\ End(at[n]) <= End(next1[n + 1])
      /\ End(at[n]) \in Nat /\ End(next1[n + 1]) \in Nat
    BY <1>4, AfterFacts
<1> HIDE DEF n
<1>6. ASSUME NEW i \in 1 .. n + 1
      PROVE  Encodes(new, next1[i - 1], more[i]) /\ End(next1[i]) <= End(next1[n + 1])
  <2>1. CASE i = n + 1
    <3>1. i - 1 = n /\ n \in 0 .. n
        BY <1>1, <2>1
    <3>2. next1[n] = at[n]
        BY <3>1 DEF n
    <3>3. End(next1[n + 1]) <= End(next1[n + 1])
      <4> DEFINE e == End(next1[n + 1])
      <4>1. e \in Nat
          BY <1>5
      <4> HIDE DEF e
      <4>2. e <= e
          BY <4>1
      <4> QED
          BY <4>2 DEF e
    <3> QED
        BY <1>1, <2>1, <3>1, <3>2, <3>3 DEF n
  <2>2. CASE i \in 1 .. n
    <3>1. i \in 0 .. n /\ i - 1 \in 0 .. n
        BY <1>1, <2>2
    <3>2. next1[i] = at[i] /\ next1[i - 1] = at[i - 1] /\ more[i] = blocks[i]
        BY <1>1, <2>2, <3>1 DEF n
    <3>3. End(at[i]) <= End(next1[n + 1])
      <4> DEFINE x == End(at[i])
                 y == End(at[n])
                 z == End(next1[n + 1])
      <4>1. x <= y /\ y <= z /\ y \in Nat /\ z \in Nat
          BY <1>3, <1>5, <2>2
      <4>2. x \in Nat
          BY <1>2, <3>1, EndType
      <4> HIDE DEF x, y, z
      <4>3. x <= z
          BY <4>1, <4>2
      <4> QED
          BY <4>3 DEF x, z
    <3> QED
        BY <1>3, <2>2, <3>2, <3>3
  <2> QED
      BY <1>1, <2>1, <2>2
<1> QED
    BY <1>1, <1>6 DEF Holds

-----------------------------------------------------------------------------
\* The steps.

\* Layouts and what they hold depend on the form, the blocks and the words.
LEMMA PrimedLayouts ==
    ASSUME UNCHANGED form, NEW blocks, blocks = meant', NEW words, NEW at
    PROVE  /\ at \in Layouts(blocks) <=> (at \in Layouts(meant))'
           /\ words = payload' => (Holds(blocks, words, at) <=> Holds(meant, payload, at)')
           /\ words = Image' => (Holds(blocks, words, at) <=> Holds(meant, Image, at)')
<1>1. at \in Layouts(blocks) <=> (at \in Layouts(meant))'
    BY DEF Layouts, After, Reach, Code
<1>2. words = payload' => (Holds(blocks, words, at) <=> Holds(meant, payload, at)')
    BY DEF Holds, Encodes, WordOf, BitOf, Index, Reach, Code
<1>3. words = Image' => (Holds(blocks, words, at) <=> Holds(meant, Image, at)')
    BY DEF Holds, Encodes, WordOf, BitOf, Index, Reach, Code
<1> QED
    BY <1>1, <1>2, <1>3

\* Nothing is written yet, or the payload is foreign.
LEMMA PayloadStarts == Init => PayloadInv
<1> SUFFICES ASSUME Init, ~foreign PROVE PayloadInv
    BY DEF PayloadInv
<1> USE DEF Init
<1> DEFINE at == [i \in 0 .. 0 |-> Start]
<1>1. /\ form \in Forms /\ stage = "encode" /\ payload = <<>> /\ meant = <<>>
      /\ bits = <<>> /\ group = <<>> /\ phase = "group" /\ ~pending /\ p = 1
      /\ out = <<>> /\ next = 1
    OBVIOUS
<1>2. Start \in Places
    BY VectorAssumption DEF Start, Places
<1>3. Len(meant) = 0 /\ meant \in Seq(Block)
    BY <1>1
<1>4. at \in Layouts(meant) /\ at[0] = Start
    BY <1>2, <1>3 DEF Layouts
<1>5. OpenAt(payload, bits, group, Start)
    BY <1>1 DEF OpenAt, Start
<1>6. Holds(meant, Image, at)
    BY <1>3 DEF Holds
<1>7. Writing(at)
    BY <1>1, <1>3, <1>4, <1>5, <1>6 DEF Writing
<1>8. MeantOK
    BY <1>1, <1>3 DEF MeantOK
<1> HIDE DEF at
<1> QED
    BY <1>1, <1>4, <1>7, <1>8 DEF PayloadInv

\* encode_inter_payload and encode_mixed_intra_payload take a block.
LEMMA PutKeeps ==
    ASSUME PayloadInv, NEW b \in Blocks, Put(b)
    PROVE  PayloadInv'
<1> SUFFICES ASSUME ~foreign PROVE PayloadInv'
    BY DEF PayloadInv, Put
<1> DEFINE n == Len(meant)
           all == bits \o Code(b.kind)
           more == Append(meant, b)
<1>1. /\ stage = "encode" /\ meant' = more
      /\ b.kind = "Skip" => form = "Inter"
      /\ UNCHANGED <<stage, form, foreign, count, decoder, walker>>
    BY DEF Put
<1>2. PICK at \in Layouts(meant) : Writing(at)
    BY <1>1 DEF PayloadInv
<1>3. /\ form \in Forms /\ meant \in Seq(Block) /\ b \in Block
      /\ form = "MixedIntra" => \A i \in 1 .. n : meant[i].kind # "Skip"
    BY VectorAssumption DEF PayloadInv, MeantOK
<1>4. /\ OpenAt(payload, bits, group, at[n]) /\ Holds(meant, Image, at)
      /\ phase = "group" /\ ~pending /\ p = 1 /\ out = <<>> /\ next = 1
    BY <1>2 DEF Writing
<1> DEFINE a == at[n]
<1>5. n \in Nat /\ n \in 0 .. n /\ a \in Places
  <2>1. n \in Nat /\ n \in 0 .. n
      BY <1>3
  <2> QED
      BY <1>2, <1>3, <2>1, LayoutFacts
<1>6. bits \in Seq({0, 1}) /\ Len(bits) = a.bit
    BY <1>4 DEF OpenAt
<1>7. Len(all) = Reach(a, b.kind) /\ Reach(a, b.kind) \in Nat /\ WordBits \in Nat
    BY <1>3, <1>5, <1>6, CodeAppended, VectorAssumption
<1>75. /\ ~(Len(all) >= WordBits) =>
            bits' = all /\ group' = group \o b.idx /\ payload' = payload
       /\ Len(all) >= WordBits =>
            /\ bits' = SubSeq(all, WordBits + 1, Len(all))
            /\ group' = IF Len(all) > WordBits THEN b.idx ELSE <<>>
            /\ payload' = payload \o <<SubSeq(all, 1, WordBits)>> \o group
                          \o IF Len(all) > WordBits THEN <<>> ELSE b.idx
    BY DEF Put, Full, Straddles
<1> DEFINE r == Reach(a, b.kind)
           w == SubSeq(all, 1, WordBits)
           rest == SubSeq(all, WordBits + 1, Len(all))
<1> HIDE DEF a
<1>8. /\ OpenAt(payload', bits', group', After(a, b.kind))
      /\ Grows(Image, Words(payload', bits', group'), a.base)
      /\ Encodes(Words(payload', bits', group'), a, b)
  <2>1. CASE Reach(a, b.kind) < WordBits
    <3>1. bits' = all /\ group' = group \o b.idx /\ payload' = payload
      <4>1. ~(Len(all) >= WordBits)
        <5> HIDE DEF all, r
        <5> QED
            BY <1>7, <2>1 DEF r
      <4> QED
          BY <1>75, <4>1
    <3> QED
        BY <1>3, <1>4, <1>5, <2>1, <3>1, WrittenInside DEF a, Image
  <2>2. CASE Reach(a, b.kind) = WordBits
    <3>1. /\ bits' = SubSeq(all, WordBits + 1, Len(all)) /\ group' = <<>>
          /\ payload' = payload \o <<SubSeq(all, 1, WordBits)>> \o group \o b.idx
      <4>1. Len(all) >= WordBits /\ ~(Len(all) > WordBits)
        <5> HIDE DEF all, r
        <5> QED
            BY <1>7, <2>2 DEF r
      <4> HIDE DEF all
      <4> QED
          BY <1>75, <4>1
    <3> QED
        BY <1>3, <1>4, <1>5, <2>2, <3>1, WrittenFull DEF a, Image
  <2>3. CASE Reach(a, b.kind) > WordBits
    <3>1. /\ bits' = SubSeq(all, WordBits + 1, Len(all)) /\ group' = b.idx
          /\ payload' = payload \o <<SubSeq(all, 1, WordBits)>> \o group \o <<>>
      <4>1. Len(all) >= WordBits /\ Len(all) > WordBits
        <5> HIDE DEF all, r
        <5> QED
            BY <1>7, <2>3 DEF r
      <4> HIDE DEF all
      <4> QED
          BY <1>75, <4>1
    <3> QED
        BY <1>3, <1>4, <1>5, <2>3, <3>1, WrittenCut DEF a, Image
  <2> QED
      BY <1>7, <2>1, <2>2, <2>3
<1>9. PICK at2 \in Layouts(more) :
        at2[n + 1] = After(a, b.kind) /\ \A i \in 0 .. n : at2[i] = at[i]
  <2> DEFINE new == [i \in 0 .. n + 1 |-> IF i = n + 1 THEN After(at[n], b.kind) ELSE at[i]]
  <2>1. /\ new \in Layouts(more) /\ new[n + 1] = After(a, b.kind)
        /\ \A i \in 0 .. n : new[i] = at[i]
      BY <1>2, <1>3, LayoutGrows DEF a
  <2> HIDE DEF new
  <2> QED
      BY <2>1
<1>10. more \in Seq(Block) /\ Len(more) = n + 1
    BY <1>3
<1>11. Holds(more, Words(payload', bits', group'), at2)
  <2> DEFINE words == Words(payload', bits', group')
             old == Image
             q == a.base
  <2>1. /\ Holds(meant, old, at) /\ Grows(old, words, q)
        /\ Encodes(words, at[Len(meant)], b)
      BY <1>4, <1>8 DEF a
  <2>2. /\ \A i \in 0 .. Len(meant) : at2[i] = at[i]
        /\ at2[Len(meant) + 1] = After(at[Len(meant)], b.kind)
      BY <1>9 DEF a
  <2>3. more \in Seq(Block) /\ more = Append(meant, b)
      BY <1>10
  <2> HIDE DEF words, old, q, more
  <2>4. Holds(more, words, at2)
      BY <1>2, <1>3, <2>1, <2>2, <2>3, HoldsMore, ZenonT(30)
  <2> QED
      BY <2>4 DEF words
<1>12. (at2 \in Layouts(meant))' /\ Holds(meant, Image, at2)'
  <2>1. Words(payload', bits', group') = Image'
      BY DEF Image, Words
  <2>2. UNCHANGED form /\ more = meant'
      BY <1>1
  <2> HIDE DEF more
  <2>3. (at2 \in Layouts(meant))'
      BY <1>9, <2>2, PrimedLayouts
  <2>4. Holds(meant, Image, at2)'
      BY <1>11, <2>1, <2>2, PrimedLayouts
  <2> QED
      BY <2>3, <2>4
<1>13. Writing(at2)'
  <2>1. OpenAt(payload', bits', group', at2[n + 1])
      BY <1>8, <1>9
  <2>2. OpenAt(payload, bits, group, at2[Len(meant)])'
    <3>1. Len(meant') = n + 1
        BY <1>1, <1>10
    <3> HIDE DEF n
    <3> QED
        BY <2>1, <3>1 DEF OpenAt
  <2>3. (phase = "group" /\ ~pending /\ p = 1 /\ out = <<>> /\ next = 1)'
      BY <1>1, <1>4 DEF decoder
  <2> QED
      BY <1>12, <2>2, <2>3 DEF Writing
<1>14. MeantOK'
  <2>1. form = "MixedIntra" => b.kind # "Skip"
      BY <1>1
  <2>2. form = "MixedIntra" => \A i \in 1 .. n + 1 : more[i].kind # "Skip"
    <3>1. more[n + 1] = b /\ \A i \in 1 .. n : more[i] = meant[i]
        BY <1>3
    <3>2. \A i \in 1 .. n + 1 : i = n + 1 \/ i \in 1 .. n
        BY <1>5
    <3> HIDE DEF more
    <3> QED
        BY <1>3, <2>1, <3>1, <3>2
  <2> QED
      BY <1>1, <1>3, <1>10, <2>2 DEF MeantOK
<1> QED
    BY <1>1, <1>12, <1>13, <1>14 DEF PayloadInv

\* Zeros complete a word.
LEMMA PaddedFacts ==
    ASSUME NEW some \in Seq({0, 1}), Len(some) < WordBits
    PROVE  /\ Padded(some) \in Word
           /\ \A k \in 1 .. Len(some) : Padded(some)[k] = some[k]
<1> DEFINE zeros == [i \in 1 .. WordBits - Len(some) |-> 0]
<1>1. WordBits \in Nat /\ Len(some) \in Nat /\ WordBits - Len(some) \in Nat
    BY VectorAssumption
<1>2. zeros \in Seq({0, 1}) /\ Len(zeros) = WordBits - Len(some)
  <2> DEFINE m == WordBits - Len(some)
  <2>1. m \in Nat
      BY <1>1
  <2> HIDE DEF m
  <2>2. /\ [i \in 1 .. m |-> 0] \in Seq({0, 1})
        /\ Len([i \in 1 .. m |-> 0]) = m
      BY <2>1
  <2> QED
      BY <2>2 DEF m
<1> HIDE DEF zeros
<1>3. some \o zeros \in Seq({0, 1})
    BY <1>2, Concatenated
<1>4. Len(some \o zeros) = Len(some) + Len(zeros)
    BY <1>2, Concatenated
<1>5. \A k \in 1 .. Len(some) : (some \o zeros)[k] = some[k]
    BY <1>2, Concatenated
<1>6. Len(some \o zeros) = WordBits
    BY <1>1, <1>2, <1>4
<1>7. some \o zeros \in [1 .. WordBits -> {0, 1}]
    BY <1>3, <1>6, LenProperties
<1> QED
    BY <1>5, <1>7 DEF Padded, zeros, Word

\* The last word and its group are flushed.
LEMMA CloseKeeps ==
    ASSUME PayloadInv, Close
    PROVE  PayloadInv'
<1> SUFFICES ASSUME ~foreign PROVE PayloadInv'
    BY DEF PayloadInv, Close
<1> DEFINE n == Len(meant)
<1>1. /\ stage = "encode" /\ stage' = "decode" /\ count' = n
      /\ UNCHANGED <<form, foreign, meant, decoder>>
    BY DEF Close, encoder
<1>2. PICK at \in Layouts(meant) : Writing(at)
    BY <1>1 DEF PayloadInv
<1>3. MeantOK /\ form \in Forms /\ meant \in Seq(Block)
    BY DEF PayloadInv, MeantOK
<1>4. /\ OpenAt(payload, bits, group, at[n]) /\ Holds(meant, Image, at)
      /\ phase = "group" /\ ~pending /\ p = 1 /\ out = <<>> /\ next = 1
    BY <1>2 DEF Writing
<1> DEFINE a == at[n]
           q == a.base
<1>5. n \in Nat /\ n \in 0 .. n /\ a \in Places
  <2>1. n \in Nat /\ n \in 0 .. n
      BY <1>3
  <2> QED
      BY <1>2, <1>3, <2>1, LayoutFacts
<1>6. /\ payload \in Seq(Word) /\ bits \in Seq({0, 1}) /\ group \in Seq(Word)
      /\ Len(bits) = a.bit /\ q = Len(payload) + 1 /\ a.ptr = q + Len(group) + 1
    BY <1>4 DEF OpenAt
<1>7. /\ a.bit \in Nat /\ a.bit < WordBits /\ q \in Nat \ {0} /\ a.ptr \in Nat \ {0}
      /\ WordBits \in Nat /\ (a.bit = 0 => a.ptr = q + 1)
    BY <1>5, VectorAssumption DEF Places
<1>8. Len(Image) = q + Len(group) /\ Begins(Image, q, payload, bits, group)
    BY <1>4, WordsBegin DEF Image
<1>9. Len(group) \in Nat /\ Len(payload) \in Nat
    BY <1>6
<1> HIDE DEF a, q, n
<1>10. /\ payload' \in Seq(Word) /\ Len(payload') + 1 = End(a)
       /\ Grows(Image, payload', q)
  <2>1. CASE a.bit = 0
    <3>1. Len(group) = 0
        BY <1>6, <1>7, <1>9, <2>1
    <3>2. bits = <<>> /\ group = <<>>
        BY <1>6, <2>1, <3>1, EmptySeq
    <3>3. payload' = payload
        BY <3>2 DEF Close
    <3>4. End(a) = q
        BY <2>1 DEF End, q
    <3>5. Grows(Image, payload, q)
      <4>1. Len(Image) = q /\ Image[q] = bits /\ \A y \in 1 .. q - 1 : Image[y] = payload[y]
          BY <1>7, <1>8, <3>1 DEF Begins
      <4>2. \A x \in 1 .. q : x # q => x \in 1 .. q - 1 /\ x \in 1 .. Len(payload)
          BY <1>6, <1>7, <1>9
      <4>3. Len(bits) = 0
          BY <1>6, <2>1
      <4> QED
          BY <1>7, <1>9, <2>1, <4>1, <4>2, <4>3 DEF Grows
    <3> QED
        BY <1>6, <3>3, <3>4, <3>5
  <2>2. CASE a.bit # 0
    <3> DEFINE w == Padded(bits)
    <3>1. bits # <<>>
        BY <1>6, <2>2
    <3>2. payload' = payload \o <<w>> \o group
        BY <3>1 DEF Close
    <3>3. w \in Word /\ Len(w) = WordBits /\ \A k \in 1 .. Len(bits) : w[k] = bits[k]
        BY <1>6, <1>7, PaddedFacts, WordsAreBits
    <3> HIDE DEF w
    <3>4. payload' \in Seq(Word) /\ Begins(payload', q, payload, w, group)
        BY <1>6, <1>7, <3>2, <3>3, BeginsIt
    <3>5. Len(payload') = Len(payload) + 1 + Len(group)
        BY <1>6, <3>2, <3>3
    <3>6. End(a) = a.ptr
        BY <2>2 DEF End
    <3>7. Len(payload') + 1 = End(a)
        BY <1>6, <1>7, <1>9, <3>5, <3>6
    <3>8. Grows(Image, payload', q)
      <4>1. /\ Len(bits) \in Nat /\ Len(bits) < WordBits /\ Len(bits) <= Len(w)
            /\ Len(w) \in Nat /\ Len(group) <= Len(group)
          BY <1>6, <1>7, <1>9, <3>3
      <4> QED
          BY <1>7, <1>8, <1>9, <3>3, <3>4, <4>1, GrowsBy
    <3> QED
        BY <3>4, <3>7, <3>8
  <2> QED
      BY <2>1, <2>2
<1>11. Holds(meant, payload', at)
    BY <1>2, <1>3, <1>4, <1>10, HoldsKept
<1>12. (at \in Layouts(meant))' /\ Holds(meant, payload, at)'
  <2>1. UNCHANGED form /\ meant = meant'
      BY <1>1
  <2>2. (at \in Layouts(meant))'
      BY <1>2, <2>1, PrimedLayouts
  <2>3. Holds(meant, payload, at)'
      BY <1>11, <2>1, PrimedLayouts
  <2> QED
      BY <2>2, <2>3
<1>13. Written(at)'
  <2>1. Len(payload') = End(at[count']) - 1
    <3>1. Len(payload') \in Nat /\ End(a) = End(at[count'])
        BY <1>1, <1>10 DEF a
    <3> QED
        BY <1>10, <3>1
  <2>2. (count = Len(meant))'
      BY <1>1 DEF n
  <2> QED
      BY <1>10, <1>12, <2>1, <2>2 DEF Written, End
<1>14. Reading(at)'
  <2>1. /\ phase' = "group" /\ ~pending' /\ p' = 1 /\ out' = <<>> /\ next' = 1
        /\ Len(out') = 0 /\ count' = n
      BY <1>1, <1>4 DEF decoder
  <2>2. at[0] = Start
      BY <1>2 DEF Layouts
  <2>3. OutSoFar'
      BY <1>5, <2>1 DEF OutSoFar
  <2>4. n = 0 => Len(payload') + 1 = 1
      BY <1>10, <2>2 DEF a, End, Start
  <2>5. n = 0 => 1 = Len(payload') + 1
      BY <2>4
  <2>6. at[0].bit = 0 /\ at[0].base = 1
      BY <2>2 DEF Start
  <2>7. BetweenGroups(at)'
      BY <2>1, <2>5, <2>6 DEF BetweenGroups
  <2> QED
      BY <2>1, <2>3, <2>7 DEF Reading
<1>15. MeantOK'
    BY <1>1, <1>3 DEF MeantOK
<1>16. phase' = "group"
    BY <1>1, <1>4 DEF decoder
<1> QED
    BY <1>1, <1>12, <1>13, <1>14, <1>15, <1>16 DEF PayloadInv

-----------------------------------------------------------------------------
\* What the decoder finds at the places of a layout.

\* The codes and the indices of a block.
LEMMA BlockAt ==
    ASSUME MeantOK, NEW at \in Layouts(meant), Written(at), NEW m \in Nat, m < count
    PROVE  LET a == at[m]
               b == meant[m + 1]
               k == b.kind
           IN  /\ a \in Places /\ b \in Block /\ k \in Kinds
               /\ at[m + 1] = After(a, k) /\ at[m + 1] \in Places
               /\ k = "Skip" => form = "Inter"
               /\ Encodes(payload, a, b)
               /\ End(at[m + 1]) = Index(a, k) + Cost(k)
               /\ End(at[m + 1]) <= Len(payload) + 1
<1> DEFINE n == Len(meant)
           a == at[m]
           b == meant[m + 1]
           k == b.kind
<1>1. form \in Forms /\ meant \in Seq(Block) /\ count = n /\ n \in Nat
    BY DEF MeantOK, Written
<1>2. m + 1 \in 1 .. n /\ m + 1 - 1 = m
    BY <1>1
<1>3. /\ a \in Places /\ b \in Block /\ k \in Kinds
      /\ at[m + 1] = After(a, k) /\ at[m + 1] \in Places
  <2> DEFINE i == m + 1
  <2>1. i \in 1 .. n /\ i - 1 = m
      BY <1>2
  <2> HIDE DEF i
  <2>2. /\ at[i - 1] \in Places /\ meant[i] \in Block /\ meant[i].kind \in Kinds
        /\ at[i] = After(at[i - 1], meant[i].kind) /\ at[i] \in Places
      BY <1>1, <2>1, LayoutFacts
  <2> QED
      BY <2>1, <2>2 DEF i
<1>4. Encodes(payload, a, b) /\ End(at[m + 1]) <= End(at[n])
    BY <1>2 DEF Holds, Written
<1>5. k = "Skip" => form = "Inter"
    BY <1>1, <1>2 DEF MeantOK, Forms
<1>6. End(at[m + 1]) = Index(a, k) + Cost(k)
    BY <1>1, <1>3, AfterFacts
<1>7. End(at[m + 1]) <= Len(payload) + 1
  <2> DEFINE e == End(at[n])
  <2>1. n \in 0 .. n
      BY <1>1
  <2>2. at[n] \in Places
      BY <1>1, <2>1, LayoutFacts
  <2>3. e \in Nat
      BY <2>2, EndType
  <2>4. Len(payload) = e - 1
      BY <1>1 DEF Written
  <2> HIDE DEF e
  <2>5. Len(payload) + 1 = e
      BY <2>3, <2>4
  <2> QED
      BY <1>4, <2>5 DEF e
<1> QED
    BY <1>3, <1>4, <1>5, <1>6, <1>7

\* The indices of a block.
LEMMA IndicesAt ==
    ASSUME form \in Forms, payload \in Seq(Word), NEW a \in Places, NEW b \in Block,
           Encodes(payload, a, b),
           NEW i \in Nat, i = Index(a, b.kind), NEW e \in Nat, e = i + Cost(b.kind),
           e <= Len(payload) + 1
    PROVE  SubSeq(payload, i, e - 1) = b.idx
<1> DEFINE s == SubSeq(payload, i, e - 1)
           c == Cost(b.kind)
<1>1. /\ b.kind \in Kinds /\ b.idx \in Seq(Word) /\ Len(b.idx) = c /\ c \in Nat
    BY BlockFacts, CostFacts
<1>2. \A k \in 1 .. c : payload[i + k - 1] = b.idx[k]
    BY DEF Encodes
<1>3. i \in Nat \ {0}
    BY <1>1, AfterFacts
<1>4. Len(payload) \in Nat
    OBVIOUS
<1> HIDE DEF c
<1>5. e - 1 - i + 1 = c /\ e - 1 \in Nat /\ e - 1 <= Len(payload)
    BY <1>1, <1>3, <1>4, SMTT(30) DEF c
<1>6. s \in Seq(Word) /\ Len(s) = c /\ \A k \in 1 .. c : s[k] = payload[i + k - 1]
  <2> DEFINE l == e - 1
  <2>1. l \in Nat /\ l <= Len(payload) /\ l - i + 1 = c
      BY <1>5
  <2> HIDE DEF l
  <2>2. SubSeq(payload, i, l) \in Seq(Word)
      BY <1>1, <1>3, <1>4, <2>1
  <2>3. Len(SubSeq(payload, i, l)) = c
      BY <1>1, <1>3, <1>4, <2>1
  <2>4. \A k \in 1 .. c : SubSeq(payload, i, l)[k] = payload[i + k - 1]
      BY <1>1, <1>3, <1>4, <2>1, SMTT(30)
  <2> QED
      BY <2>2, <2>3, <2>4 DEF l
<1> DEFINE t == b.idx
<1>7. /\ t \in Seq(Word) /\ Len(t) = c
      /\ \A k \in 1 .. c : s[k] = t[k]
    BY <1>1, <1>2, <1>6
<1> HIDE DEF s, t
<1>8. Len(s) = Len(t) /\ \A k \in 1 .. Len(s) : s[k] = t[k]
    BY <1>6, <1>7
<1>9. s = t
    BY <1>6, <1>7, <1>8, SeqEqual
<1> QED
    BY <1>9 DEF s, t

\* The code of a block, in one word or cut.
LEMMA CodeRead ==
    ASSUME form \in Forms, NEW a \in Places, NEW b \in Block, b.kind = "Skip" => form = "Inter",
           NEW words, Len(words) \in Nat, Encodes(words, a, b)
    PROVE  LET w == words[a.base]
               x == a.bit + 1
               k == b.kind
           IN  /\ a.base \in 1 .. Len(words)
               /\ Cut(w, x) <=> Reach(a, k) > WordBits
               /\ ~Cut(w, x) => CodeAt(w, x).kind = k /\ CodeAt(w, x).len = Len(Code(k))
               /\ Reach(a, k) > WordBits =>
                    /\ form = "Inter" /\ k # "Skip" /\ a.bit = WordBits - 1
                    /\ a.ptr \in 1 .. Len(words) /\ Coded(words[a.ptr][1]) = k
<1> DEFINE m == a.bit
           k == b.kind
           code == Code(k)
           l == Len(code)
           w == words[a.base]
<1>1. m \in Nat /\ m < WordBits /\ WordBits \in Nat /\ WordBits >= 2
    BY VectorAssumption DEF Places
<1>2. k \in Kinds /\ (k = "Skip" => form = "Inter") /\ Reach(a, k) = m + l /\ l \in {1, 2}
    BY BlockFacts, CodeFacts DEF Reach
<1>3. /\ form = "MixedIntra" => l = 1 /\ code[1] = (IF k = "V4" THEN 1 ELSE 0)
      /\ form = "Inter" =>
           /\ k = "Skip" => l = 1 /\ code[1] = 0
           /\ k # "Skip" => l = 2 /\ code[1] = 1
           /\ k = "V1" => code[2] = 0
           /\ k = "V4" => code[2] = 1
    BY <1>2, CodeFacts
<1>4. \A j \in 1 .. l : /\ WordOf(a, j) \in 1 .. Len(words)
                        /\ words[WordOf(a, j)][BitOf(a, j)] = code[j]
    BY DEF Encodes
<1> HIDE DEF m, code, l
<1>5. a.base \in 1 .. Len(words) /\ w[m + 1] = code[1]
  <2>1. 1 \in 1 .. l /\ m + 1 <= WordBits
      BY <1>1, <1>2
  <2>2. WordOf(a, 1) = a.base /\ BitOf(a, 1) = m + 1
      BY <2>1 DEF WordOf, BitOf, m
  <2> QED
      BY <1>4, <2>1, <2>2
<1>6. l = 2 /\ m + 2 <= WordBits => w[m + 2] = code[2]
  <2> SUFFICES ASSUME l = 2, m + 2 <= WordBits PROVE w[m + 2] = code[2]
      OBVIOUS
  <2>1. 2 \in 1 .. l
      OBVIOUS
  <2>2. WordOf(a, 2) = a.base /\ BitOf(a, 2) = m + 2
      BY DEF WordOf, BitOf, m
  <2> QED
      BY <1>4, <2>1, <2>2
<1>7. l = 2 /\ ~(m + 2 <= WordBits) => a.ptr \in 1 .. Len(words) /\ words[a.ptr][1] = code[2]
  <2> SUFFICES ASSUME l = 2, ~(m + 2 <= WordBits)
               PROVE  a.ptr \in 1 .. Len(words) /\ words[a.ptr][1] = code[2]
      OBVIOUS
  <2>1. 2 \in 1 .. l /\ m + 2 - WordBits = 1
      BY <1>1
  <2>2. WordOf(a, 2) = a.ptr /\ BitOf(a, 2) = 1
      BY <2>1 DEF WordOf, BitOf, m
  <2> QED
      BY <1>4, <2>1, <2>2
<1>8. m + l > WordBits <=> l = 2 /\ m + 1 = WordBits
    BY <1>1, <1>2
<1> HIDE DEF w, k
<1>9. Cut(w, m + 1) <=> m + l > WordBits
    BY <1>2, <1>3, <1>5, <1>8 DEF Cut, Forms
<1>10. ASSUME ~Cut(w, m + 1)
       PROVE  CodeAt(w, m + 1).kind = k /\ CodeAt(w, m + 1).len = l
  <2>1. CASE form = "MixedIntra"
    <3>1. CodeAt(w, m + 1) = [kind |-> Coded(code[1]), len |-> 1]
        BY <1>5, <2>1 DEF CodeAt
    <3>2. Coded(code[1]) = k
        BY <1>2, <1>3, <2>1 DEF Coded, Kinds
    <3> QED
        BY <1>3, <2>1, <3>1, <3>2
  <2>2. CASE form = "Inter" /\ k = "Skip"
    <3>1. CodeAt(w, m + 1) = [kind |-> "Skip", len |-> 1]
        BY <1>3, <1>5, <2>2 DEF CodeAt
    <3> QED
        BY <1>3, <2>2, <3>1
  <2>3. CASE form = "Inter" /\ k # "Skip"
    <3>1. m + 1 < WordBits /\ m + 2 <= WordBits /\ l = 2
        BY <1>1, <1>3, <1>8, <1>9, <1>10, <2>3
    <3>2. m + 1 + 1 = m + 2 /\ w[m + 2] = code[2]
        BY <1>1, <1>6, <3>1
    <3>3. w[m + 1] = 1
        BY <1>3, <1>5, <2>3
    <3>4. CodeAt(w, m + 1) = [kind |-> Coded(code[2]), len |-> 2]
        BY <2>3, <3>1, <3>2, <3>3 DEF CodeAt
    <3>5. Coded(code[2]) = k
        BY <1>2, <1>3, <2>3 DEF Coded, Kinds
    <3> QED
        BY <3>1, <3>4, <3>5
  <2> QED
      BY <2>1, <2>2, <2>3 DEF Forms
<1>11. ASSUME m + l > WordBits
       PROVE  /\ form = "Inter" /\ k # "Skip" /\ m = WordBits - 1
              /\ a.ptr \in 1 .. Len(words) /\ Coded(words[a.ptr][1]) = k
  <2>1. l = 2 /\ m + 1 = WordBits /\ ~(m + 2 <= WordBits) /\ m = WordBits - 1
      BY <1>1, <1>8, <1>11
  <2>2. form = "Inter" /\ k # "Skip"
      BY <1>3, <2>1 DEF Forms
  <2>3. a.ptr \in 1 .. Len(words) /\ words[a.ptr][1] = code[2]
      BY <1>7, <2>1
  <2>4. Coded(code[2]) = k
      BY <1>2, <1>3, <2>2 DEF Coded, Kinds
  <2> QED
      BY <2>1, <2>2, <2>3, <2>4
<1> QED
    BY <1>2, <1>5, <1>9, <1>10, <1>11 DEF m, l, code, w, k

\* The indices of two blocks in a row that go with the same word follow each
\* other.
LEMMA IndicesFollow ==
    ASSUME form \in Forms, NEW a \in Places, NEW k1 \in Kinds, NEW k2 \in Kinds,
           Home(After(a, k1), k2) = Home(a, k1)
    PROVE  Index(After(a, k1), k2) = End(After(a, k1))
<1> DEFINE e == After(a, k1)
           c == Cost(k1)
           r == Reach(a, k1)
           s == Reach(e, k2)
<1>1. /\ a.base \in Nat \ {0} /\ a.ptr \in Nat \ {0} /\ a.base < a.ptr
      /\ WordBits \in Nat /\ c \in Nat
    BY VectorAssumption, CostFacts DEF Places
<1>2. r \in 1 .. WordBits + 1 /\ e \in Places
    BY AfterFacts
<1>3. s \in 1 .. WordBits + 1
    BY <1>2, AfterFacts
<1>4. /\ r < WordBits => e.bit = r /\ e.base = a.base /\ e.ptr = a.ptr + c
      /\ r = WordBits => e.bit = 0 /\ e.base = a.ptr + c /\ e.ptr = a.ptr + c + 1
      /\ r > WordBits => e.bit = r - WordBits /\ e.base = a.ptr /\ e.ptr = a.ptr + 1 + c
    BY <1>1, <1>2 DEF After
<1>5. Home(a, k1) = (IF r <= WordBits THEN a.base ELSE a.ptr)
    BY DEF Home
<1>6. /\ Home(e, k2) = (IF s <= WordBits THEN e.base ELSE e.ptr)
      /\ Index(e, k2) = (IF s <= WordBits THEN e.ptr ELSE e.ptr + 1)
    BY DEF Home, Index
<1>7. End(e) = (IF e.bit = 0 THEN e.base ELSE e.ptr)
    BY DEF End
<1>8. Home(e, k2) = Home(a, k1)
    OBVIOUS
<1> DEFINE ab == a.base
           ap == a.ptr
           et == e.bit
           eb == e.base
           ep == e.ptr
<1> HIDE DEF ab, ap, et, eb, ep, c, r, s, e
<1>9. /\ ab \in Nat \ {0} /\ ap \in Nat \ {0} /\ ab < ap /\ WordBits \in Nat /\ c \in Nat
      /\ r \in 1 .. WordBits + 1 /\ s \in 1 .. WordBits + 1
    BY <1>1, <1>2, <1>3 DEF ab, ap
<1>10. /\ r < WordBits => et = r /\ eb = ab /\ ep = ap + c
       /\ r = WordBits => et = 0 /\ eb = ap + c /\ ep = ap + c + 1
       /\ r > WordBits => et = r - WordBits /\ eb = ap /\ ep = ap + 1 + c
    BY <1>4 DEF ab, ap, et, eb, ep
<1>11. (IF s <= WordBits THEN eb ELSE ep) = (IF r <= WordBits THEN ab ELSE ap)
    BY <1>5, <1>6, <1>8 DEF ab, ap, eb, ep
<1>12. (IF s <= WordBits THEN ep ELSE ep + 1) = (IF et = 0 THEN eb ELSE ep)
    BY <1>9, <1>10, <1>11
<1> QED
    BY <1>6, <1>7, <1>12 DEF et, eb, ep, e

-----------------------------------------------------------------------------
\* The steps of the decoder.

\* The decoder leaves the chunk and the layout alone.
LEMMA StepDone ==
    ASSUME MeantOK, ~foreign, NEW at \in Layouts(meant), Written(at),
           UNCHANGED <<meant, chunk>>, Reading(at)',
           \/ stage' = "decode" /\ phase' # "done"
           \/ stage' = "walk" /\ phase' = "done"
    PROVE  PayloadInv'
<1>1. UNCHANGED <<form, foreign, payload, count, meant>>
    BY DEF chunk
<1>2. MeantOK'
    BY <1>1 DEF MeantOK
<1>3. (at \in Layouts(meant))' /\ Holds(meant, payload, at)'
  <2>1. UNCHANGED form /\ meant = meant' /\ payload = payload' /\ Holds(meant, payload, at)
      BY <1>1 DEF Written
  <2>2. (at \in Layouts(meant))'
      BY <2>1, PrimedLayouts
  <2>3. Holds(meant, payload, at)'
      BY <2>1, PrimedLayouts
  <2> QED
      BY <2>2, <2>3
<1>4. Written(at)'
    BY <1>1, <1>3 DEF Written, End
<1> QED
    BY <1>1, <1>2, <1>3, <1>4 DEF PayloadInv

\* The invariant of a group after a step, in the terms before it.
LEMMA InGroupNext ==
    ASSUME UNCHANGED <<meant, chunk>>, NEW at, NEW w \in 1 .. Len(payload),
           NEW m, m = Len(out'),
           flag' = payload[w], bit' \in Nat \ {0},
           \A j \in next' .. m : Home(at[j - 1], meant[j].kind) = w,
           next' <= m => p' = Index(at[next' - 1], meant[next'].kind),
           m < count /\ bit' <= WordBits =>
             /\ ~pending'
             /\ at[m].bit = bit' - 1 /\ at[m].base = w
             /\ next' = m + 1 => bit' = 1 /\ p' = w + 1,
           ~(m < count /\ bit' <= WordBits) =>
             /\ next' = m + 1 => m > 0 /\ p' = End(at[m])
             /\ m = count => ~pending'
             /\ m < count => IF pending' THEN IsCut(at, m + 1) ELSE at[m].bit = 0
    PROVE  InGroup(at, w)'
<1>1. UNCHANGED <<form, payload, count, meant>>
    BY DEF chunk
<1>2. CodesLeft' <=> m < count /\ bit' <= WordBits
    BY <1>1 DEF CodesLeft
<1>3. \A j \in next' .. m : (Home(at[j - 1], meant[j].kind) = w)'
    BY <1>1, FormKept
<1>4. (next <= Len(out) => p = Index(at[next - 1], meant[next].kind))'
    BY <1>1, FormKept
<1>5. \A i : IsCut(at, i)' <=> IsCut(at, i)
    BY <1>1 DEF IsCut
<1>6. End(at[m])' = End(at[m])
    BY DEF End
<1>7. (w \in 1 .. Len(payload) /\ flag = payload[w] /\ bit \in Nat \ {0})'
    BY <1>1
<1>8. CodesLeft' => (/\ ~pending
                     /\ at[Len(out)].bit = bit - 1 /\ at[Len(out)].base = w
                     /\ next = Len(out) + 1 => bit = 1 /\ p = w + 1)'
    BY <1>2
<1>9. ~CodesLeft' =>
         (/\ next = Len(out) + 1 => Len(out) > 0 /\ p = End(at[Len(out)])
          /\ Len(out) = count => ~pending
          /\ Len(out) < count => IF pending THEN IsCut(at, Len(out) + 1) ELSE at[Len(out)].bit = 0)'
    BY <1>1, <1>2, <1>5, <1>6
<1> QED
    BY <1>3, <1>4, <1>7, <1>8, <1>9 DEF InGroup

\* The blocks so far.
LEMMA OutFacts ==
    ASSUME MeantOK, count = Len(meant), OutSoFar
    PROVE  /\ Len(out) \in Nat /\ Len(out) <= count /\ count \in Nat
           /\ next \in Nat \ {0} /\ next <= Len(out) + 1
           /\ out \in Seq(Block \cup Blanks)
           /\ \A j \in 1 .. Len(out) :
                out[j] = IF j < next THEN meant[j] ELSE Blank(meant[j].kind)
<1> DEFINE m == Len(out)
           f(j) == IF j < next THEN meant[j] ELSE Blank(meant[j].kind)
<1>1. count \in Nat /\ \A j \in 1 .. count : meant[j] \in Block
    BY DEF MeantOK
<1>2. m \in Nat /\ m <= count /\ next \in Nat \ {0} /\ next <= m + 1
    BY <1>1 DEF OutSoFar
<1>3. out = [j \in 1 .. m |-> f(j)]
    BY DEF OutSoFar
<1>4. \A j \in 1 .. m : f(j) \in Block \cup Blanks
  <2> TAKE j \in 1 .. m
  <2>1. meant[j] \in Block
      BY <1>1, <1>2
  <2> QED
      BY <2>1, BlockFacts DEF Blanks
<1> HIDE DEF m, f
<1>5. out \in [1 .. m -> Block \cup Blanks]
    BY <1>3, <1>4
<1>6. out \in Seq(Block \cup Blanks)
    BY <1>2, <1>5
<1>7. \A j \in 1 .. m : out[j] = f(j)
    BY <1>3
<1> QED
    BY <1>1, <1>2, <1>6, <1>7 DEF m, f

\* A block more, without its indices.
LEMMA OutGrows ==
    ASSUME MeantOK, count = Len(meant), OutSoFar, NEW m, m = Len(out), m < count,
           NEW k, k = meant[m + 1].kind, UNCHANGED <<meant, count, next>>,
           out' = Append(out, Blank(k))
    PROVE  OutSoFar' /\ Len(out') = m + 1
<1>1. /\ m \in Nat /\ count \in Nat /\ next \in Nat \ {0} /\ next <= m + 1
      /\ out \in Seq(Block \cup Blanks)
      /\ \A j \in 1 .. m : out[j] = IF j < next THEN meant[j] ELSE Blank(meant[j].kind)
    BY OutFacts
<1> DEFINE x == Blank(k)
           new == Append(out, x)
<1>2. x \in Block \cup Blanks
  <2>1. meant[m + 1] \in Block
      BY <1>1 DEF MeantOK
  <2> QED
      BY <2>1, BlockFacts DEF Blanks
<1> HIDE DEF x
<1>3. /\ Len(new) = m + 1 /\ new[m + 1] = x /\ \A j \in 1 .. m : new[j] = out[j]
      /\ DOMAIN new = 1 .. m + 1
    BY <1>1, <1>2
<1>4. new = [j \in 1 .. m + 1 |-> new[j]]
  <2>1. new \in Seq(Block \cup Blanks)
      BY <1>1, <1>2
  <2> HIDE DEF new
  <2>2. new \in [1 .. Len(new) -> Block \cup Blanks]
      BY <2>1
  <2> QED
      BY <1>3, <2>2
<1> HIDE DEF new
<1>5. \A j \in 1 .. m + 1 : new[j] = IF j < next THEN meant[j] ELSE Blank(meant[j].kind)
  <2> TAKE j \in 1 .. m + 1
  <2>1. CASE j = m + 1
    <3>1. ~(j < next)
        BY <1>1, <2>1
    <3> QED
        BY <1>3, <2>1, <3>1 DEF x
  <2>2. CASE j \in 1 .. m
      BY <1>1, <1>3, <2>2
  <2> QED
      BY <1>1, <2>1, <2>2
<1>6. new = [j \in 1 .. m + 1 |-> IF j < next THEN meant[j] ELSE Blank(meant[j].kind)]
    BY <1>4, <1>5
<1>7. out' = new
    BY DEF new, x
<1> QED
    BY <1>1, <1>3, <1>6, <1>7 DEF OutSoFar

\* The decoder is at a layout that the writing went along.
LEMMA AtLayout ==
    ASSUME PayloadInv, ~foreign, stage = "decode"
    PROVE  /\ MeantOK /\ form \in Forms /\ phase # "done"
           /\ \E at \in Layouts(meant) :
                /\ Written(at) /\ Reading(at)
                /\ payload \in Seq(Word) /\ count = Len(meant)
                /\ OutSoFar
BY DEF PayloadInv, MeantOK, Written, Reading

\* A flag word, with the selector that is pending or without.
LEMMA ReadWordKeeps ==
    ASSUME PayloadInv, ReadWord
    PROVE  PayloadInv'
<1> SUFFICES ASSUME ~foreign PROVE PayloadInv'
    BY DEF PayloadInv, ReadWord, chunk
<1>1. stage = "decode" /\ phase = "group" /\ Len(out) < count /\ p <= Len(payload)
    BY DEF ReadWord
<1>2. PICK at \in Layouts(meant) :
         Written(at) /\ Reading(at) /\ payload \in Seq(Word) /\ count = Len(meant) /\ OutSoFar
    BY <1>1, AtLayout
<1>3. MeantOK /\ form \in Forms
    BY <1>1, AtLayout
<1>4. PICK m : m = Len(out)
    OBVIOUS
<1>5. m \in Nat /\ count \in Nat /\ m < count
    BY <1>1, <1>2, <1>3, <1>4, OutFacts
<1>6. /\ next = m + 1
      /\ IF pending THEN IsCut(at, m + 1) /\ p = at[m].ptr
         ELSE at[m].bit = 0 /\ p = at[m].base
    BY <1>1, <1>2, <1>4, <1>5 DEF Reading, BetweenGroups
<1>7. PICK a, b, k : a = at[m] /\ b = meant[m + 1] /\ k = b.kind
    OBVIOUS
<1>8. /\ a \in Places /\ b \in Block /\ k \in Kinds /\ at[m + 1] = After(a, k)
      /\ (k = "Skip" => form = "Inter") /\ Encodes(payload, a, b)
    BY <1>2, <1>3, <1>5, <1>7, BlockAt
<1>9. WordBits \in Nat /\ WordBits >= 2 /\ Len(payload) \in Nat
    BY <1>2, VectorAssumption
<1>10. /\ a.base \in 1 .. Len(payload)
       /\ Reach(a, k) > WordBits => a.ptr \in 1 .. Len(payload) /\ Coded(payload[a.ptr][1]) = k
    BY <1>3, <1>7, <1>8, <1>9, CodeRead
<1>11. /\ flag' = payload[p] /\ p' = p + 1 /\ next' = m + 1 /\ ~pending' /\ phase' = "codes"
       /\ stage' = "decode" /\ UNCHANGED <<meant, chunk>>
    BY <1>1, <1>4 DEF ReadWord, encoder
<1>12. UNCHANGED <<meant, count, next>>
    BY <1>6, <1>11 DEF chunk
<1>13. PICK w : w = p
    OBVIOUS
<1>14. CASE pending
  <2>1. IsCut(at, m + 1) /\ w = a.ptr
      BY <1>6, <1>7, <1>13, <1>14
  <2>2. form = "Inter" /\ k # "Skip" /\ a.bit = WordBits - 1
      BY <1>5, <1>7, <2>1 DEF IsCut
  <2>3. Len(Code(k)) = 2
      BY <1>3, <1>8, <2>2, CodeFacts
  <2>4. Reach(a, k) = WordBits + 1
      BY <1>9, <2>2, <2>3 DEF Reach
  <2>5. Reach(a, k) > WordBits /\ ~(Reach(a, k) <= WordBits)
      BY <1>9, <2>4
  <2>6. w \in 1 .. Len(payload) /\ Coded(payload[w][1]) = k
      BY <1>10, <2>1, <2>5
  <2>7. at[m + 1].bit = 1 /\ at[m + 1].base = w /\ Home(a, k) = w /\ Index(a, k) = w + 1
      BY <1>8, <1>9, <2>1, <2>4, <2>5 DEF After, Home, Index
  <2>8. out' = Append(out, Blank(k)) /\ bit' = 2
      BY <1>13, <1>14, <2>6 DEF ReadWord
  <2>9. OutSoFar' /\ Len(out') = m + 1
    <3>1. k = meant[m + 1].kind
        BY <1>7
    <3> QED
        BY <1>2, <1>3, <1>4, <1>5, <1>12, <2>8, <3>1, OutGrows
  <2>10. InGroup(at, w)'
    <3>1. \A j \in next' .. m + 1 : Home(at[j - 1], meant[j].kind) = w
      <4>1. \A j \in next' .. m + 1 : j = m + 1 /\ j - 1 = m
          BY <1>5, <1>11
      <4> QED
          BY <1>7, <2>7, <4>1
    <3>2. p' = Index(at[next' - 1], meant[next'].kind)
      <4>1. next' - 1 = m /\ p' = w + 1
          BY <1>5, <1>11, <1>13
      <4> QED
          BY <1>7, <1>11, <2>7, <4>1
    <3>3. bit' - 1 = 1 /\ bit' \in Nat \ {0} /\ bit' <= WordBits
        BY <1>9, <2>8
    <3>4. next' # m + 1 + 1
        BY <1>5, <1>11
    <3>5. flag' = payload[w]
        BY <1>11, <1>13
    <3> QED
        BY <1>5, <1>11, <2>6, <2>7, <2>9, <3>1, <3>2, <3>3, <3>4, <3>5, InGroupNext
  <2>11. Reading(at)'
    <3>1. w \in 1 .. Len(payload)'
        BY <1>11, <2>6 DEF chunk
    <3> QED
        BY <1>11, <2>9, <2>10, <3>1 DEF Reading, BetweenGroups
  <2> QED
      BY <1>2, <1>3, <1>11, <2>11, StepDone
<1>15. CASE ~pending
  <2>1. a.bit = 0 /\ w = a.base
      BY <1>6, <1>7, <1>13, <1>15
  <2>2. out' = out /\ bit' = 1
      BY <1>15 DEF ReadWord
  <2>3. OutSoFar' /\ Len(out') = m
      BY <1>2, <1>4, <1>11, <1>12, <2>2 DEF OutSoFar
  <2>4. InGroup(at, w)'
    <3>1. ~(next' <= m) /\ \A j \in next' .. m : FALSE
        BY <1>5, <1>11
    <3>2. bit' - 1 = 0 /\ bit' \in Nat \ {0} /\ bit' <= WordBits /\ p' = w + 1
        BY <1>9, <1>11, <1>13, <2>2
    <3>3. flag' = payload[w] /\ w \in 1 .. Len(payload)
        BY <1>10, <1>11, <1>13, <2>1
    <3>4. at[m].bit = bit' - 1 /\ at[m].base = w
        BY <1>7, <2>1, <3>2
    <3> QED
        BY <1>5, <1>11, <2>2, <2>3, <3>1, <3>2, <3>3, <3>4, InGroupNext
  <2>5. Reading(at)'
    <3>1. w \in 1 .. Len(payload)'
        BY <1>10, <1>11, <2>1 DEF chunk
    <3> QED
        BY <1>11, <2>3, <2>4, <3>1 DEF Reading, BetweenGroups
  <2> QED
      BY <1>2, <1>3, <1>11, <2>5, StepDone
<1> QED
    BY <1>14, <1>15

\* The code of the next block, or the first bit of one that is cut.
LEMMA ReadCodeKeeps ==
    ASSUME PayloadInv, ReadCode
    PROVE  PayloadInv'
<1> SUFFICES ASSUME ~foreign PROVE PayloadInv'
    BY DEF PayloadInv, ReadCode, chunk
<1>1. stage = "decode" /\ phase = "codes" /\ CodesLeft
    BY DEF ReadCode
<1>2. PICK at \in Layouts(meant) :
         Written(at) /\ Reading(at) /\ payload \in Seq(Word) /\ count = Len(meant) /\ OutSoFar
    BY <1>1, AtLayout
<1>3. MeantOK /\ form \in Forms
    BY <1>1, AtLayout
<1>4. PICK m, x, nx : m = Len(out) /\ x = bit /\ nx = next
    OBVIOUS
<1>5. /\ m \in Nat /\ count \in Nat /\ m < count /\ x <= WordBits
      /\ nx \in Nat \ {0} /\ nx <= m + 1
    BY <1>1, <1>2, <1>3, <1>4, OutFacts DEF CodesLeft
<1>6. PICK w \in 1 .. Len(payload) : InGroup(at, w)
    BY <1>1, <1>2 DEF Reading
<1>7. /\ flag = payload[w] /\ x \in Nat \ {0}
      /\ \A j \in nx .. m : Home(at[j - 1], meant[j].kind) = w
      /\ nx <= m => p = Index(at[nx - 1], meant[nx].kind)
      /\ ~pending /\ at[m].bit = x - 1 /\ at[m].base = w
      /\ nx = m + 1 => x = 1 /\ p = w + 1
    BY <1>1, <1>4, <1>6 DEF InGroup
<1>8. PICK a, b, k : a = at[m] /\ b = meant[m + 1] /\ k = b.kind
    OBVIOUS
<1>9. /\ a \in Places /\ b \in Block /\ k \in Kinds /\ at[m + 1] = After(a, k)
      /\ (k = "Skip" => form = "Inter") /\ Encodes(payload, a, b)
    BY <1>2, <1>3, <1>5, <1>8, BlockAt
<1>10. WordBits \in Nat /\ WordBits >= 2 /\ Len(payload) \in Nat
    BY <1>2, VectorAssumption
<1>11. /\ a.bit = x - 1 /\ a.bit + 1 = x /\ a.base = w /\ a.ptr \in Nat
       /\ (a.bit = 0 => a.ptr = a.base + 1)
    BY <1>5, <1>7, <1>8, <1>9 DEF Places
<1>12. /\ Cut(flag, x) <=> Reach(a, k) > WordBits
       /\ ~Cut(flag, x) => CodeAt(flag, x).kind = k /\ CodeAt(flag, x).len = Len(Code(k))
       /\ Reach(a, k) > WordBits => form = "Inter" /\ k # "Skip" /\ a.bit = WordBits - 1
    BY <1>3, <1>7, <1>8, <1>9, <1>10, <1>11, CodeRead, SMTT(30)
<1>13. /\ phase' = "codes" /\ stage' = "decode" /\ UNCHANGED <<p, flag, next>>
       /\ UNCHANGED <<meant, chunk>> /\ UNCHANGED <<meant, count, next>>
    BY <1>1 DEF ReadCode, encoder, chunk
<1>14. w \in 1 .. Len(payload)' /\ flag' = payload[w]
    BY <1>7, <1>13 DEF chunk
<1>15. CASE Cut(flag, x)
  <2>1. pending' = TRUE /\ bit' = x + 1 /\ out' = out
      BY <1>4, <1>15 DEF ReadCode
  <2>2. OutSoFar' /\ Len(out') = m
      BY <1>2, <1>4, <1>13, <2>1 DEF OutSoFar
  <2>3. form = "Inter" /\ k # "Skip" /\ a.bit = WordBits - 1
      BY <1>12, <1>15
  <2>4. IsCut(at, m + 1)
    <3> DEFINE i == m + 1
    <3>1. i \in 1 .. count /\ i - 1 = m /\ meant[i].kind = k
        BY <1>5, <1>8
    <3> HIDE DEF i
    <3>2. at[i - 1].bit = WordBits - 1
        BY <1>8, <2>3, <3>1
    <3>3. IsCut(at, i)
        BY <2>3, <3>1, <3>2 DEF IsCut
    <3> QED
        BY <3>3 DEF i
  <2>5. x = WordBits /\ bit' \in Nat \ {0} /\ ~(bit' <= WordBits) /\ nx # m + 1 /\ m # count
      BY <1>5, <1>7, <1>10, <1>11, <2>1, <2>3
  <2>6. InGroup(at, w)'
    <3>1. next' = nx /\ p' = p
        BY <1>4, <1>13
    <3> QED
        BY <1>5, <1>7, <1>13, <1>14, <2>1, <2>2, <2>4, <2>5, <3>1, InGroupNext
  <2>7. Reading(at)'
      BY <1>13, <1>14, <2>2, <2>6 DEF Reading, BetweenGroups
  <2> QED
      BY <1>2, <1>3, <1>13, <2>7, StepDone
<1>16. CASE ~Cut(flag, x)
  <2> DEFINE l == Len(Code(k))
  <2>1. out' = Append(out, Blank(k)) /\ bit' = x + l /\ ~pending'
      BY <1>4, <1>7, <1>12, <1>16 DEF ReadCode
  <2>2. OutSoFar' /\ Len(out') = m + 1
    <3>1. k = meant[m + 1].kind
        BY <1>8
    <3> QED
        BY <1>2, <1>3, <1>4, <1>5, <1>13, <2>1, <3>1, OutGrows
  <2>3. Reach(a, k) = a.bit + l /\ l \in {1, 2}
      BY <1>3, <1>9, CodeFacts DEF Reach
  <2>4. ~(Reach(a, k) > WordBits)
      BY <1>12, <1>16
  <2> HIDE DEF l
  <2> DEFINE r == Reach(a, k)
             ab == a.bit
             ap == a.ptr
  <2>5. r = ab + l /\ ~(r > WordBits) /\ ab = x - 1 /\ ab + 1 = x
      BY <1>11, <2>3, <2>4
  <2> HIDE DEF r, ab
  <2>6. /\ r \in Nat \ {0} /\ r <= WordBits /\ bit' = r + 1 /\ bit' \in Nat \ {0}
        /\ bit' - 1 = r
      BY <1>5, <1>7, <1>10, <2>1, <2>3, <2>5
  <2>7. Home(a, k) = w /\ Index(a, k) = ap
      BY <1>11, <2>6 DEF Home, Index, r
  <2>8. bit' <= WordBits => at[m + 1].bit = bit' - 1 /\ at[m + 1].base = w
    <3> SUFFICES ASSUME bit' <= WordBits PROVE at[m + 1].bit = bit' - 1 /\ at[m + 1].base = w
        OBVIOUS
    <3>1. r < WordBits
        BY <1>10, <2>6
    <3> QED
        BY <1>9, <1>11, <2>6, <3>1 DEF After, r
  <2>9. ~(bit' <= WordBits) => at[m + 1].bit = 0
    <3> SUFFICES ASSUME ~(bit' <= WordBits) PROVE at[m + 1].bit = 0
        OBVIOUS
    <3>1. r = WordBits /\ ~(r < WordBits)
        BY <1>10, <2>6
    <3> QED
        BY <1>9, <3>1 DEF After, r
  <2>10. InGroup(at, w)'
    <3>1. next' = nx /\ p' = p
        BY <1>4, <1>13
    <3>2. \A j \in nx .. m + 1 : Home(at[j - 1], meant[j].kind) = w
      <4> TAKE j \in nx .. m + 1
      <4>1. CASE j = m + 1
        <5>1. j - 1 = m
            BY <1>5, <4>1
        <5> QED
            BY <1>8, <2>7, <4>1, <5>1
      <4>2. CASE j # m + 1
        <5>1. j \in nx .. m
            BY <1>5, <4>2
        <5> QED
            BY <1>7, <5>1
      <4> QED
          BY <4>1, <4>2
    <3>3. p = Index(at[nx - 1], meant[nx].kind)
      <4>1. CASE nx = m + 1
        <5>1. nx - 1 = m /\ x = 1 /\ p = w + 1
            BY <1>5, <1>7, <4>1
        <5>2. a.bit = 0
            BY <1>11, <5>1
        <5>3. ap = w + 1
            BY <1>11, <5>2
        <5> QED
            BY <1>8, <2>7, <4>1, <5>1, <5>3
      <4>2. CASE nx # m + 1
        <5>1. nx <= m
            BY <1>5, <4>2
        <5> QED
            BY <1>7, <5>1
      <4> QED
          BY <4>1, <4>2
    <3>4. nx # m + 1 + 1
        BY <1>5
    <3> QED
        BY <1>13, <1>14, <2>1, <2>2, <2>6, <2>8, <2>9, <3>1, <3>2, <3>3, <3>4, InGroupNext
  <2>11. Reading(at)'
      BY <1>13, <1>14, <2>2, <2>10 DEF Reading, BetweenGroups
  <2> QED
      BY <1>2, <1>3, <1>13, <2>11, StepDone
<1> QED
    BY <1>15, <1>16

\* The indices of the next block.
LEMMA OutFills ==
    ASSUME MeantOK, count = Len(meant), OutSoFar, NEW i, i = next, i <= Len(out),
           UNCHANGED <<meant, count>>, next' = i + 1,
           out' = [out EXCEPT ![i].idx = meant[i].idx]
    PROVE  OutSoFar' /\ Len(out') = Len(out)
<1> DEFINE m == Len(out)
           S == Block \cup Blanks
           new == [out EXCEPT ![i].idx = meant[i].idx]
<1>1. /\ m \in Nat /\ m <= count /\ count \in Nat /\ i \in Nat \ {0} /\ i \in 1 .. m
      /\ out \in Seq(S)
      /\ \A j \in 1 .. m : out[j] = IF j < i THEN meant[j] ELSE Blank(meant[j].kind)
    BY OutFacts
<1>2. meant[i] \in Block
    BY <1>1 DEF MeantOK
<1>3. meant[i] = [kind |-> meant[i].kind, idx |-> meant[i].idx]
    BY <1>2, BlockFacts
<1>4. out[i] = [kind |-> meant[i].kind, idx |-> <<>>]
    BY <1>1 DEF Blank
<1>5. [out[i] EXCEPT !.idx = meant[i].idx] = meant[i]
  <2> DEFINE x == meant[i].idx
             k == meant[i].kind
  <2>1. out[i] = [kind |-> k, idx |-> <<>>] /\ meant[i] = [kind |-> k, idx |-> x]
      BY <1>3, <1>4
  <2> HIDE DEF x, k
  <2> QED
      BY <2>1 DEF x
<1>6. new = [out EXCEPT ![i] = meant[i]]
    BY <1>5
<1> HIDE DEF new
<1>7. out \in [1 .. m -> S]
    BY <1>1
<1>8. new = [j \in 1 .. m |-> IF j = i THEN meant[i] ELSE out[j]]
    BY <1>6, <1>7
<1>9. \A j \in 1 .. m :
         (IF j = i THEN meant[i] ELSE out[j])
            = (IF j < i + 1 THEN meant[j] ELSE Blank(meant[j].kind))
  <2> TAKE j \in 1 .. m
  <2>1. CASE j = i
      BY <1>1, <2>1
  <2>2. CASE j < i
      BY <1>1, <2>2
  <2>3. CASE j > i
      BY <1>1, <2>3
  <2> QED
      BY <1>1, <2>1, <2>2, <2>3
<1>10. new = [j \in 1 .. m |-> IF j < i + 1 THEN meant[j] ELSE Blank(meant[j].kind)]
    BY <1>8, <1>9
<1>11. Len(new) = m
    BY <1>1, <1>8
<1>12. out' = new
    BY DEF new
<1> HIDE DEF m
<1>13. m \in 0 .. count /\ i + 1 \in 1 .. m + 1
    BY <1>1
<1>14. Len(out') = m /\ Len(out') \in 0 .. count' /\ next' \in 1 .. Len(out') + 1
    BY <1>11, <1>12, <1>13
<1>15. out' = [j \in 1 .. Len(out') |-> IF j < next' THEN meant'[j] ELSE Blank(meant'[j].kind)]
    BY <1>10, <1>12, <1>14
<1>16. OutSoFar'
    BY <1>14, <1>15 DEF OutSoFar, Blank
<1> QED
    BY <1>14, <1>16 DEF m

\* The indices of a block are where the layout says.
LEMMA ReadIndexKeeps ==
    ASSUME PayloadInv, ReadIndex
    PROVE  PayloadInv'
<1> SUFFICES ASSUME ~foreign PROVE PayloadInv'
    BY DEF PayloadInv, ReadIndex, chunk
<1>1. stage = "decode" /\ phase = "codes" /\ ~CodesLeft /\ next <= Len(out)
    BY DEF ReadIndex
<1>2. PICK at \in Layouts(meant) :
         Written(at) /\ Reading(at) /\ payload \in Seq(Word) /\ count = Len(meant) /\ OutSoFar
    BY <1>1, AtLayout
<1>3. MeantOK /\ form \in Forms
    BY <1>1, AtLayout
<1>4. PICK m, i, j : m = Len(out) /\ i = next /\ j = i - 1
    OBVIOUS
<1>5. /\ m \in Nat /\ count \in Nat /\ m <= count /\ i \in Nat \ {0} /\ i <= m
      /\ j \in Nat /\ i = j + 1 /\ j < count
      /\ out[i] = Blank(meant[i].kind)
    BY <1>1, <1>2, <1>3, <1>4, OutFacts
<1>6. PICK w \in 1 .. Len(payload) : InGroup(at, w)
    BY <1>1, <1>2 DEF Reading
<1>7. /\ flag = payload[w] /\ bit \in Nat \ {0}
      /\ \A y \in i .. m : Home(at[y - 1], meant[y].kind) = w
      /\ p = Index(at[j], meant[i].kind)
      /\ m = count => ~pending
      /\ m < count => IF pending THEN IsCut(at, m + 1) ELSE at[m].bit = 0
    BY <1>1, <1>4, <1>6 DEF InGroup
<1>8. PICK a, b, k, e : a = at[j] /\ b = meant[i] /\ k = b.kind /\ e = End(at[i])
    OBVIOUS
<1>9. /\ a \in Places /\ b \in Block /\ k \in Kinds /\ at[i] = After(a, k)
      /\ Encodes(payload, a, b)
      /\ e = Index(a, k) + Cost(k) /\ e <= Len(payload) + 1
    BY <1>2, <1>3, <1>5, <1>8, BlockAt
<1>10. p = Index(a, k) /\ p \in Nat /\ e = p + Cost(k) /\ e \in Nat
  <2>1. p = Index(a, k) /\ e = p + Cost(k)
      BY <1>7, <1>8, <1>9
  <2>2. p \in Nat
      BY <1>3, <1>9, <2>1, AfterFacts
  <2>3. Cost(k) \in Nat
      BY <1>9, CostFacts
  <2> QED
      BY <2>1, <2>2, <2>3
<1>11. SubSeq(payload, p, e - 1) = b.idx
  <2>1. p = Index(a, b.kind) /\ e = p + Cost(b.kind)
      BY <1>8, <1>10
  <2> QED
      BY <1>2, <1>3, <1>9, <1>10, <2>1, IndicesAt, Zenon
<1>12. out' = [out EXCEPT ![i].idx = meant[i].idx] /\ p' = e
  <2>1. out[next].kind = k
      BY <1>4, <1>5, <1>8 DEF Blank
  <2>2. p' = e /\ out' = [out EXCEPT ![next].idx = SubSeq(payload, p, e - 1)]
      BY <1>10, <2>1 DEF ReadIndex
  <2> QED
      BY <1>4, <1>8, <1>11, <2>2
<1>13. /\ phase' = "codes" /\ stage' = "decode" /\ next' = i + 1
       /\ UNCHANGED <<flag, bit, pending>> /\ UNCHANGED <<meant, chunk>>
       /\ UNCHANGED <<meant, count>>
    BY <1>1, <1>4 DEF ReadIndex, encoder, chunk
<1>14. OutSoFar' /\ Len(out') = m
    BY <1>2, <1>3, <1>4, <1>5, <1>12, <1>13, OutFills
<1>15. i + 1 <= m => e = Index(at[i], meant[i + 1].kind)
  <2> SUFFICES ASSUME i + 1 <= m PROVE e = Index(at[i], meant[i + 1].kind)
      OBVIOUS
  <2> DEFINE k2 == meant[i + 1].kind
  <2>1. i \in i .. m /\ i + 1 \in i .. m /\ i + 1 - 1 = i /\ i - 1 = j /\ i < count
      BY <1>5
  <2>2. Home(at[i], k2) = w /\ Home(a, k) = w
      BY <1>7, <1>8, <2>1
  <2>3. k2 \in Kinds
      BY <1>2, <1>3, <1>5, <2>1, BlockAt
  <2> HIDE DEF k2
  <2>4. Index(After(a, k), k2) = End(After(a, k))
      BY <1>3, <1>9, <2>2, <2>3, IndicesFollow
  <2> QED
      BY <1>8, <1>9, <2>4 DEF k2
<1>16. InGroup(at, w)'
  <2>1. ~(m < count /\ bit' <= WordBits)
      BY <1>1, <1>4, <1>13 DEF CodesLeft
  <2>2. \A y \in i + 1 .. m : Home(at[y - 1], meant[y].kind) = w
    <3>1. \A y \in i + 1 .. m : y \in i .. m
        BY <1>5
    <3> QED
        BY <1>7, <3>1
  <2>3. next' <= m => p' = Index(at[next' - 1], meant[next'].kind)
    <3> SUFFICES ASSUME next' <= m PROVE p' = Index(at[next' - 1], meant[next'].kind)
        OBVIOUS
    <3>1. next' - 1 = i /\ i + 1 <= m
        BY <1>5, <1>13
    <3>2. e = Index(at[i], meant[i + 1].kind)
        BY <1>15, <3>1
    <3> QED
        BY <1>12, <1>13, <3>1, <3>2
  <2>4. next' = m + 1 => m > 0 /\ p' = End(at[m])
    <3>1. i + 1 = m + 1 => i = m /\ m > 0
        BY <1>5
    <3> QED
        BY <1>8, <1>12, <1>13, <3>1
  <2> QED
      BY <1>5, <1>7, <1>13, <1>14, <2>1, <2>2, <2>3, <2>4, InGroupNext
<1>17. Reading(at)'
  <2>1. w \in 1 .. Len(payload)'
      BY <1>13 DEF chunk
  <2> QED
      BY <1>13, <1>14, <1>16, <2>1 DEF Reading, BetweenGroups
<1> QED
    BY <1>2, <1>3, <1>13, <1>17, StepDone

\* The group is complete.
LEMMA EndGroupKeeps ==
    ASSUME PayloadInv, EndGroup
    PROVE  PayloadInv'
<1> SUFFICES ASSUME ~foreign PROVE PayloadInv'
    BY DEF PayloadInv, EndGroup, chunk
<1>1. stage = "decode" /\ phase = "codes" /\ ~CodesLeft /\ next > Len(out)
    BY DEF EndGroup
<1>2. PICK at \in Layouts(meant) :
         Written(at) /\ Reading(at) /\ payload \in Seq(Word) /\ count = Len(meant) /\ OutSoFar
    BY <1>1, AtLayout
<1>3. MeantOK /\ form \in Forms
    BY <1>1, AtLayout
<1>4. PICK m : m = Len(out)
    OBVIOUS
<1>5. m \in Nat /\ count \in Nat /\ m <= count /\ next = m + 1
    BY <1>1, <1>2, <1>3, <1>4, OutFacts
<1>6. PICK w \in 1 .. Len(payload) : InGroup(at, w)
    BY <1>1, <1>2 DEF Reading
<1>7. /\ m > 0 /\ p = End(at[m])
      /\ m = count => ~pending
      /\ m < count => IF pending THEN IsCut(at, m + 1) ELSE at[m].bit = 0
    BY <1>1, <1>4, <1>5, <1>6 DEF InGroup
<1>8. /\ phase' = "group" /\ stage' = "decode" /\ UNCHANGED <<meant, chunk>>
      /\ UNCHANGED <<p, pending, next, out>> /\ UNCHANGED <<form, meant, count, payload>>
    BY <1>1 DEF EndGroup, encoder, chunk
<1>9. OutSoFar' /\ Len(out') = m
    BY <1>2, <1>4, <1>8 DEF OutSoFar
<1>10. m = count => p = Len(payload) + 1
  <2> SUFFICES ASSUME m = count PROVE p = Len(payload) + 1
      OBVIOUS
  <2> DEFINE e == End(at[m])
  <2>1. m \in 0 .. Len(meant) /\ meant \in Seq(Block)
      BY <1>2, <1>3, <1>5 DEF MeantOK
  <2>2. at[m] \in Places
      BY <1>2, <1>3, <2>1, LayoutFacts
  <2>3. e \in Nat
      BY <2>2, EndType
  <2>4. Len(payload) = e - 1
      BY <1>2 DEF Written
  <2> HIDE DEF e
  <2>5. Len(payload) + 1 = e
      BY <2>3, <2>4
  <2> QED
      BY <1>7, <2>5 DEF e
<1>11. m < count =>
         IF pending THEN IsCut(at, m + 1) /\ p = at[m].ptr ELSE at[m].bit = 0 /\ p = at[m].base
  <2> SUFFICES ASSUME m < count
               PROVE  IF pending THEN IsCut(at, m + 1) /\ p = at[m].ptr
                      ELSE at[m].bit = 0 /\ p = at[m].base
      OBVIOUS
  <2>1. CASE pending
    <3> DEFINE i == m + 1
    <3>1. IsCut(at, i) /\ i - 1 = m
        BY <1>5, <1>7, <2>1
    <3> HIDE DEF i
    <3>2. at[m].bit = WordBits - 1
        BY <3>1 DEF IsCut
    <3>3. at[m].bit # 0
        BY <3>2, VectorAssumption
    <3> QED
        BY <1>7, <2>1, <3>1, <3>3 DEF End, i
  <2>2. CASE ~pending
      BY <1>7, <2>2 DEF End
  <2> QED
      BY <2>1, <2>2
<1>12. \A i : IsCut(at, i)' <=> IsCut(at, i)
    BY <1>8 DEF IsCut
<1>13. BetweenGroups(at)'
    BY <1>5, <1>7, <1>8, <1>9, <1>10, <1>11, <1>12 DEF BetweenGroups
<1>14. Reading(at)'
    BY <1>8, <1>9, <1>13 DEF Reading
<1> QED
    BY <1>2, <1>3, <1>8, <1>14, StepDone

\* The decoder never runs out of what was written.
LEMMA NotTruncated ==
    ASSUME PayloadInv, Truncated
    PROVE  foreign
<1> SUFFICES ASSUME ~foreign PROVE FALSE
    OBVIOUS
<1>1. stage = "decode"
    BY DEF Truncated
<1>2. PICK at \in Layouts(meant) :
         Written(at) /\ Reading(at) /\ payload \in Seq(Word) /\ count = Len(meant) /\ OutSoFar
    BY <1>1, AtLayout
<1>3. MeantOK /\ form \in Forms
    BY <1>1, AtLayout
<1>4. PICK m, i, j : m = Len(out) /\ i = next /\ j = i - 1
    OBVIOUS
<1>5. /\ m \in Nat /\ count \in Nat /\ m <= count /\ i \in Nat \ {0} /\ j \in Nat /\ i = j + 1
      /\ Len(payload) \in Nat
    BY <1>2, <1>3, <1>4, OutFacts, SMTT(30)
<1>6. CASE phase = "group" /\ Len(out) < count /\ p > Len(payload)
  <2>1. IF pending THEN IsCut(at, m + 1) /\ p = at[m].ptr
        ELSE at[m].bit = 0 /\ p = at[m].base
      BY <1>2, <1>4, <1>6 DEF Reading, BetweenGroups
  <2>2. PICK a, b, k : a = at[m] /\ b = meant[m + 1] /\ k = b.kind
      OBVIOUS
  <2>3. /\ a \in Places /\ b \in Block /\ k \in Kinds
        /\ (k = "Skip" => form = "Inter") /\ Encodes(payload, a, b)
      BY <1>2, <1>3, <1>4, <1>5, <1>6, <2>2, BlockAt
  <2>4. /\ a.base \in 1 .. Len(payload)
        /\ Reach(a, k) > WordBits => a.ptr \in 1 .. Len(payload)
      BY <1>3, <1>5, <2>2, <2>3, CodeRead
  <2>5. pending => Reach(a, k) > WordBits
    <3> SUFFICES ASSUME pending PROVE Reach(a, k) > WordBits
        OBVIOUS
    <3> DEFINE y == m + 1
    <3>1. IsCut(at, y) /\ y - 1 = m /\ k = meant[y].kind
        BY <1>5, <2>1, <2>2
    <3> HIDE DEF y
    <3>2. a.bit = WordBits - 1 /\ form = "Inter" /\ k # "Skip"
        BY <2>2, <3>1 DEF IsCut
    <3>3. Len(Code(k)) = 2
        BY <1>3, <2>3, <3>2, CodeFacts
    <3> QED
        BY <3>2, <3>3, VectorAssumption DEF Reach
  <2>6. p \in 1 .. Len(payload)
      BY <2>1, <2>2, <2>4, <2>5
  <2> QED
      BY <1>5, <1>6, <2>6
<1>7. CASE /\ phase = "codes" /\ ~CodesLeft /\ next <= Len(out)
           /\ p + Cost(out[next].kind) > Len(payload) + 1
  <2>1. PICK w \in 1 .. Len(payload) : InGroup(at, w)
      BY <1>2, <1>7 DEF Reading
  <2>2. p = Index(at[j], meant[i].kind)
      BY <1>4, <1>7, <2>1 DEF InGroup
  <2>3. out[i] = Blank(meant[i].kind) /\ j < count
      BY <1>2, <1>3, <1>4, <1>5, <1>7, OutFacts
  <2>4. PICK a, k, e : a = at[j] /\ k = meant[i].kind /\ e = End(at[i])
      OBVIOUS
  <2>5. e = Index(a, k) + Cost(k) /\ e <= Len(payload) + 1
      BY <1>2, <1>3, <1>5, <2>3, <2>4, BlockAt
  <2>6. p + Cost(k) = e /\ out[next].kind = k
      BY <1>4, <2>2, <2>3, <2>4, <2>5 DEF Blank
  <2>7. k \in Kinds /\ a \in Places /\ Cost(k) \in Nat /\ Index(a, k) \in Nat
    <3>1. k \in Kinds /\ a \in Places
        BY <1>2, <1>3, <1>5, <2>3, <2>4, BlockAt
    <3> QED
        BY <1>3, <3>1, CostFacts, AfterFacts
  <2>8. e \in Nat
      BY <2>5, <2>7
  <2> QED
      BY <1>5, <1>7, <2>5, <2>6, <2>8
<1> QED
    BY <1>6, <1>7 DEF Truncated

\* All blocks are there and nothing is left.
LEMMA ReturnKeeps ==
    ASSUME PayloadInv, Return
    PROVE  PayloadInv'
<1> SUFFICES ASSUME ~foreign PROVE PayloadInv'
    BY DEF PayloadInv, Return, chunk
<1>1. stage = "decode" /\ phase = "group" /\ Len(out) = count
    BY DEF Return
<1>2. PICK at \in Layouts(meant) :
         Written(at) /\ Reading(at) /\ payload \in Seq(Word) /\ count = Len(meant) /\ OutSoFar
    BY <1>1, AtLayout
<1>3. MeantOK /\ form \in Forms /\ meant \in Seq(Block)
    BY <1>1, AtLayout DEF MeantOK
<1>4. /\ next = Len(out) + 1 /\ ~pending /\ p = Len(payload) + 1
    BY <1>1, <1>2 DEF Reading, BetweenGroups
<1>5. /\ Len(out) \in Nat /\ out \in Seq(Block \cup Blanks)
      /\ \A j \in 1 .. Len(out) : out[j] = IF j < next THEN meant[j] ELSE Blank(meant[j].kind)
    BY <1>2, <1>3, OutFacts
<1>6. \A j \in 1 .. Len(out) : out[j] = meant[j]
    BY <1>4, <1>5
<1>7. meant \in Seq(Block \cup Blanks)
    BY <1>3
<1>8. out = meant
    BY <1>1, <1>2, <1>5, <1>6, <1>7, SeqEqual
<1>9. /\ phase' = "done" /\ stage' = "walk" /\ ok' = TRUE /\ UNCHANGED <<meant, chunk>>
      /\ UNCHANGED <<p, next, out, meant, count, payload>>
    BY <1>1, <1>4 DEF Return, encoder, chunk
<1>10. OutSoFar'
    BY <1>2, <1>9 DEF OutSoFar
<1>11. Reading(at)'
    BY <1>4, <1>8, <1>9, <1>10 DEF Reading, BetweenGroups
<1> QED
    BY <1>2, <1>3, <1>9, <1>11, StepDone

-----------------------------------------------------------------------------
\* The results.

\* What no step of the walkers touches.
LEMMA KeptOtherwise ==
    ASSUME PayloadInv, UNCHANGED <<stage, encoder, chunk, decoder>>
    PROVE  PayloadInv'
<1>1. UNCHANGED <<form, foreign, payload, count, stage, meant, bits, group, phase, ok, p, flag, bit,
                  pending, next, out>>
    BY DEF encoder, chunk, decoder
<1> SUFFICES ASSUME ~foreign PROVE PayloadInv'
    BY <1>1 DEF PayloadInv
<1>2. PICK at \in Layouts(meant) :
         /\ stage = "encode" => Writing(at)
         /\ stage # "encode" => Written(at) /\ Reading(at)
    BY DEF PayloadInv
<1>3. MeantOK'
    BY <1>1 DEF PayloadInv, MeantOK
<1>4. Image' = Image
    BY <1>1 DEF Image, Words
<1>5. /\ (at \in Layouts(meant))'
      /\ Holds(meant, payload, at) => Holds(meant, payload, at)'
      /\ Holds(meant, Image, at) => Holds(meant, Image, at)'
  <2>1. UNCHANGED form /\ meant = meant' /\ payload = payload' /\ Image = Image'
      BY <1>1, <1>4
  <2>2. (at \in Layouts(meant))'
      BY <1>2, <2>1, PrimedLayouts
  <2>3. Holds(meant, payload, at) => Holds(meant, payload, at)'
      BY <2>1, PrimedLayouts
  <2>4. Holds(meant, Image, at) => Holds(meant, Image, at)'
      BY <2>1, PrimedLayouts
  <2> QED
      BY <2>2, <2>3, <2>4
<1>6. Writing(at) => Writing(at)'
    BY <1>1, <1>5 DEF Writing, OpenAt
<1>7. Written(at) => Written(at)'
    BY <1>1, <1>5 DEF Written, End
<1>8. OutSoFar => OutSoFar'
    BY <1>1 DEF OutSoFar
<1>9. BetweenGroups(at) => BetweenGroups(at)'
    BY <1>1 DEF BetweenGroups, IsCut
<1>10. \A w : InGroup(at, w) => InGroup(at, w)'
    BY <1>1, FormKept DEF InGroup, IsCut, CodesLeft, End
<1>11. Reading(at) => Reading(at)'
    BY <1>1, <1>8, <1>9, <1>10 DEF Reading
<1> QED
    BY <1>1, <1>2, <1>3, <1>5, <1>6, <1>7, <1>11 DEF PayloadInv

\* Along the writing and the reading the payload is laid out as the blocks say
\* (encode_inter_payload, encode_mixed_intra_payload, decode_inter,
\* decode_mixed_intra).
THEOREM PayloadInvariant == Spec => []PayloadInv
<1>1. PayloadInv /\ [Next]_vars => PayloadInv'
  <2> SUFFICES ASSUME PayloadInv, [Next]_vars PROVE PayloadInv'
      OBVIOUS
  <2>1. ASSUME NEW b \in Blocks, Put(b) PROVE PayloadInv'
      BY <2>1, PutKeeps
  <2>2. CASE Close
      BY <2>2, CloseKeeps
  <2>3. CASE ReadWord
      BY <2>3, ReadWordKeeps
  <2>4. CASE ReadCode
      BY <2>4, ReadCodeKeeps
  <2>5. CASE ReadIndex
      BY <2>5, ReadIndexKeeps
  <2>6. CASE EndGroup
      BY <2>6, EndGroupKeeps
  <2>7. CASE Truncated
    <3>1. foreign /\ foreign' = foreign
        BY <2>7, NotTruncated DEF Truncated, chunk
    <3> QED
        BY <3>1 DEF PayloadInv
  <2>8. CASE Return
      BY <2>8, ReturnKeeps
  <2>9. CASE NoWord \/ NextInter \/ NextBuffered \/ NextMixed
    <3>1. UNCHANGED <<stage, encoder, chunk, decoder>>
        BY <2>9 DEF NoWord, NextInter, NextBuffered, NextMixed
    <3> QED
        BY <3>1, KeptOtherwise
  <2>10. CASE UNCHANGED vars
    <3>1. UNCHANGED <<stage, encoder, chunk, decoder>>
        BY <2>10 DEF vars
    <3> QED
        BY <3>1, KeptOtherwise
  <2> QED
      BY <2>1, <2>2, <2>3, <2>4, <2>5, <2>6, <2>7, <2>8, <2>9, <2>10 DEF Next
<1> QED
    BY <1>1, PayloadStarts, PTL DEF Spec

\* What the encoder writes, the decoder reads: every block with its indices,
\* and nothing is left of the payload (encode_inter_payload against
\* decode_inter, encode_mixed_intra_payload against decode_mixed_intra).
THEOREM ReadsWhatIsWritten == Spec => []ReadsWhatWasWritten
<1>1. PayloadInv => ReadsWhatWasWritten
  <2> SUFFICES ASSUME PayloadInv, phase = "done", ~foreign
               PROVE  ok /\ out = meant /\ p = Len(payload) + 1
      BY DEF ReadsWhatWasWritten
  <2>1. PICK at \in Layouts(meant) :
           /\ stage = "encode" => Writing(at)
           /\ stage # "encode" => Reading(at)
      BY DEF PayloadInv
  <2>2. stage # "encode"
      BY <2>1 DEF Writing
  <2> QED
      BY <2>1, <2>2 DEF Reading
<1> QED
    BY <1>1, PayloadInvariant, PTL

-----------------------------------------------------------------------------
\* The walkers against the decoder.

\* What load_next_group computes, with the chunk id fm as a parameter.
CutIn(fm, w, b) == fm = "Inter" /\ w[b] = 1 /\ b = WordBits

\* Its kind, and its bits.
CodeIn(fm, w, b) ==
    IF fm = "MixedIntra" THEN [kind |-> Coded(w[b]), len |-> 1]
    ELSE IF w[b] = 0 THEN [kind |-> "Skip", len |-> 1]
    ELSE [kind |-> Coded(w[IF b < WordBits THEN b + 1 ELSE b]), len |-> 2]

\* One code more of a group with room for so many blocks.
FurtherIn(fm, w, room, s) ==
    IF s.bit > WordBits \/ Len(s.blocks) >= room THEN s
    ELSE IF CutIn(fm, w, s.bit) THEN [s EXCEPT !.bit = @ + 1, !.cut = TRUE]
    ELSE [s EXCEPT !.blocks = Append(@, Blank(CodeIn(fm, w, s.bit).kind)),
                   !.bit = @ + CodeIn(fm, w, s.bit).len]

\* The states of the classification, code by code.
CodesIn(fm, w, s, room) ==
    LET f[i \in 0 .. room] == IF i = 0 THEN s ELSE FurtherIn(fm, w, room, f[i - 1])
    IN  f

\* Between two groups: the word that opens the next, the blocks before it, and
\* whether the code of the next block is cut.
Stops == [ptr : Nat \ {0}, n : Nat, cut : BOOLEAN]

\* Before the first word.
FirstStop == [ptr |-> 1, n |-> 0, cut |-> FALSE]

\* How far the codes of the group after stop a are read, after i of them.
Progress(fm, pay, cnt, a) ==
    CodesIn(fm, pay[a.ptr], Opening(pay[a.ptr], a.cut), cnt - a.n)

\* All states in which the codes of the group can be.
Steps(fm, pay, cnt, a) == {Progress(fm, pay, cnt, a)[i] : i \in 0 .. cnt - a.n}

\* The group after stop a: its blocks, and whether the last code is cut.
GroupIn(fm, pay, cnt, a) == Progress(fm, pay, cnt, a)[cnt - a.n]

\* Blocks after the word at q, with their indices.
Filled(pay, q, blocks) ==
    [i \in 1 .. Len(blocks) |->
        [blocks[i] EXCEPT !.idx = SubSeq(pay, Ends(q, blocks)[i - 1], Ends(q, blocks)[i] - 1)]]

\* A word follows, and a block is to come.
Opens(pay, cnt, a) == a.ptr <= Len(pay) /\ a.n < cnt

\* The blocks o have, after the n-th, the first m of those given.
HoldsBlocks(o, n, m, blocks) ==
    n + m <= Len(o) /\ \A j \in 1 .. m : o[n + j] = blocks[j]

\* From one stop to the next.
Follows(fm, pay, cnt, o, a, b) ==
    LET g == GroupIn(fm, pay, cnt, a).blocks IN
    /\ Opens(pay, cnt, a)
    /\ b = [ptr |-> Ends(a.ptr, g)[Len(g)], n |-> a.n + Len(g),
            cut |-> GroupIn(fm, pay, cnt, a).cut]
    /\ b.ptr <= Len(pay) + 1
    /\ HoldsBlocks(o, a.n, Len(g), Filled(pay, a.ptr, g))

\* The stops of a decoder that has decoded o.
Trails(fm, pay, cnt, o) ==
    {T \in Seq(Stops) :
        /\ T # <<>> /\ T[1] = FirstStop
        /\ \A k \in 1 .. Len(T) - 1 : Follows(fm, pay, cnt, o, T[k], T[k + 1])
        /\ \A k \in 1 .. Len(T) : T[k].n <= T[Len(T)].n}

\* The decoder at a stop or in the group after it.
AtStop(a) ==
    /\ a = [ptr |-> p, n |-> Len(out), cut |-> pending]
    /\ next = Len(out) + 1
    /\ Len(out) = count => ~pending

\* The codes are read as far as s, and the indices of the blocks before next.
CodesRead(a, s) ==
    /\ bit = s.bit /\ pending = s.cut /\ Len(out) = a.n + Len(s.blocks)
    /\ p = Ends(a.ptr, s.blocks)[next - 1 - a.n] /\ p <= Len(payload) + 1
    /\ \A j \in 1 .. Len(s.blocks) :
          out[a.n + j] = IF a.n + j < next THEN Filled(payload, a.ptr, s.blocks)[j]
                         ELSE s.blocks[j]

\* The decoder in the group after stop a.
InCodes(a) ==
    /\ Opens(payload, count, a)
    /\ flag = payload[a.ptr]
    /\ next \in a.n + 1 .. Len(out) + 1
    /\ CodesLeft => next = a.n + 1
    /\ \E s \in Steps(form, payload, count, a) : CodesRead(a, s)

\* The payload ends inside the indices of the group after stop a, when m
\* blocks of it are complete.
Short(pay, cnt, a, blocks, m) ==
    /\ Opens(pay, cnt, a)
    /\ m < Len(blocks)
    /\ Ends(a.ptr, blocks)[m] <= Len(pay) + 1
    /\ Ends(a.ptr, blocks)[m + 1] > Len(pay) + 1

\* The decoder has returned: with all blocks at stop a, or it fails at the word
\* there, or inside the group after it.
Returned(a) ==
    \/ ok /\ a = [ptr |-> p, n |-> count, cut |-> FALSE] /\ Len(out) = count
    \/ ~ok /\ a.ptr = p /\ p > Len(payload) /\ a.n = Len(out) /\ a.n < count
    \/ /\ ~ok
       /\ LET g == GroupIn(form, payload, count, a).blocks IN
          \E m \in 0 .. Len(g) :
              /\ Short(payload, count, a, g, m)
              /\ p = Ends(a.ptr, g)[m]
              /\ HoldsBlocks(out, a.n, m, Filled(payload, a.ptr, g))

\* The trail T leads to where the decoder is.
Decoding(T) ==
    LET a == T[Len(T)] IN
    /\ phase \in {"group", "codes", "done"}
    /\ phase = "group" => AtStop(a)
    /\ phase = "codes" => InCodes(a)
    /\ phase = "done" => Returned(a)

\* The walker at stop a.
OnStop(a) == cursor = a.ptr /\ cut = a.cut /\ Len(yielded \o buf) = a.n

\* The walker of mixed intra blocks has handed out m blocks of the group after
\* stop a.
InBlocks(a, m) ==
    LET g == GroupIn(form, payload, count, a).blocks IN
    /\ Opens(payload, count, a)
    /\ m < Len(g) /\ Len(yielded) = a.n + m
    /\ buf = SubSeq(g, m + 1, Len(g))
    /\ cursor = Ends(a.ptr, g)[m] /\ cursor <= Len(payload) + 1

\* The walker has handed out what the decoder decoded, and is on its trail or
\* failed where the decoder did.
Walking(T) ==
    /\ form = "MixedIntra" => ~cut
    /\ IsPrefixOf(yielded \o (IF form = "Inter" THEN buf ELSE <<>>), out)
    /\ fused => ~ok /\ cursor = p /\ errors = 1 /\ Len(yielded) < count
    /\ ~fused =>
         /\ errors = 0
         /\ \E k \in 1 .. Len(T) :
              \/ (form = "Inter" \/ buf = <<>>) /\ OnStop(T[k])
              \/ form = "MixedIntra" /\ \E m \in Nat \ {0} : InBlocks(T[k], m)

\* A decoder that has not begun.
DecoderAnew ==
    /\ phase = "group" /\ p = 1 /\ bit = 1
    /\ pending = FALSE /\ next = 1 /\ out = <<>>

\* A walker that has not begun.
WalkerAnew ==
    /\ cursor = 1 /\ buf = <<>> /\ cut = FALSE /\ fused = FALSE
    /\ yielded = <<>> /\ errors = 0

\* A block in the making: its indices can be missing.
WholeBlock == [kind : Kinds, idx : Seq(Word)]

\* The types of what both readers keep.
WalkerTypes ==
    /\ form \in Forms /\ stage \in {"encode", "decode", "walk"}
    /\ payload \in Seq(Word) /\ count \in Nat
    /\ out \in Seq(WholeBlock) /\ Len(out) <= count
    /\ p \in Nat \ {0} /\ bit \in Nat \ {0} /\ next \in Nat \ {0}
    /\ pending \in BOOLEAN /\ ok \in BOOLEAN
    /\ cursor \in Nat \ {0} /\ cut \in BOOLEAN /\ fused \in BOOLEAN
    /\ yielded \in Seq(WholeBlock) /\ buf \in Seq(WholeBlock)

\* Once the payload is there, one trail of stops leads to where the decoder is and
\* to where the walker is.
WalkerInv ==
    /\ ok \in BOOLEAN
    /\ foreign => stage # "encode"
    /\ stage = "encode" => DecoderAnew
    /\ stage # "walk" => WalkerAnew /\ ~ok
    /\ stage # "encode" =>
         /\ WalkerTypes
         /\ stage = "walk" <=> phase = "done"
         /\ \E T \in Trails(form, payload, count, out) :
              Decoding(T) /\ (stage = "walk" => Walking(T))

-----------------------------------------------------------------------------
\* Groups.

\* Codes read, the next bit, and whether the last code is cut.
States == [blocks : Seq(Blanks), bit : Nat \ {0}, cut : BOOLEAN]

\* A bit of a selector says V1 or V4.
LEMMA CodedKinds ==
    ASSUME NEW x
    PROVE  Coded(x) \in Kinds /\ Blank(Coded(x)) \in Blanks
BY DEF Coded, Kinds, Blanks

\* How a group begins.
LEMMA OpeningIs ==
    ASSUME NEW w, NEW c \in BOOLEAN
    PROVE  /\ Opening(w, c) \in States
           /\ Len(Opening(w, c).blocks) <= 1
           /\ Opening(w, c).bit <= 2 /\ ~Opening(w, c).cut
           /\ Len(Opening(w, c).blocks) = 0 => Opening(w, c).bit = 1
<1>1. Blank(Coded(w[1])) \in Blanks
    BY CodedKinds
<1> QED
    BY <1>1 DEF Opening, States

\* A code has one bit or two.
LEMMA CodeInIs ==
    ASSUME NEW fm, NEW w, NEW b
    PROVE  /\ CodeIn(fm, w, b).kind \in Kinds /\ Blank(CodeIn(fm, w, b).kind) \in Blanks
           /\ CodeIn(fm, w, b).len \in {1, 2}
<1>1. CodeIn(fm, w, b).kind \in Kinds /\ CodeIn(fm, w, b).len \in {1, 2}
    BY CodedKinds DEF CodeIn, Kinds
<1> QED
    BY <1>1 DEF Blanks

\* One code more: there is nothing to do, or the code is cut, or there is one
\* block more.
FurtherCases(fm, w, room, s, t) ==
    \/ (s.bit > WordBits \/ Len(s.blocks) >= room) /\ t = s
    \/ /\ s.bit <= WordBits /\ Len(s.blocks) < room /\ CutIn(fm, w, s.bit)
       /\ t.blocks = s.blocks /\ t.bit = s.bit + 1 /\ t.cut
    \/ /\ s.bit <= WordBits /\ Len(s.blocks) < room /\ ~CutIn(fm, w, s.bit)
       /\ t.blocks = Append(s.blocks, Blank(CodeIn(fm, w, s.bit).kind))
       /\ t.bit = s.bit + CodeIn(fm, w, s.bit).len /\ t.cut = s.cut

\* One code more leaves a state of the classification (load_next_group).
LEMMA FurtherIs ==
    ASSUME NEW fm, NEW w, NEW room \in Nat, NEW s \in States
    PROVE  /\ FurtherIn(fm, w, room, s) \in States
           /\ FurtherCases(fm, w, room, s, FurtherIn(fm, w, room, s))
<1>1. /\ Blank(CodeIn(fm, w, s.bit).kind) \in Blanks
      /\ CodeIn(fm, w, s.bit).len \in {1, 2}
    BY CodeInIs
<1>2. s = [blocks |-> s.blocks, bit |-> s.bit, cut |-> s.cut]
      /\ s.blocks \in Seq(Blanks) /\ s.bit \in Nat /\ s.bit > 0 /\ s.cut \in BOOLEAN
      /\ Len(s.blocks) \in Nat
    BY DEF States
<1>3. WordBits \in Nat
    BY VectorAssumption
<1>4. CASE s.bit > WordBits \/ Len(s.blocks) >= room
    BY <1>4 DEF FurtherIn, FurtherCases
<1>5. CASE s.bit <= WordBits /\ Len(s.blocks) < room /\ CutIn(fm, w, s.bit)
  <2>1. FurtherIn(fm, w, room, s) = [s EXCEPT !.bit = @ + 1, !.cut = TRUE]
      BY <1>2, <1>3, <1>5 DEF FurtherIn
  <2>2. FurtherIn(fm, w, room, s) =
            [blocks |-> s.blocks, bit |-> s.bit + 1, cut |-> TRUE]
      BY <1>2, <2>1
  <2> QED
      BY <1>2, <1>5, <2>2 DEF FurtherCases, States
<1>6. CASE s.bit <= WordBits /\ Len(s.blocks) < room /\ ~CutIn(fm, w, s.bit)
  <2>1. PICK b, n : b = Blank(CodeIn(fm, w, s.bit).kind) /\ n = CodeIn(fm, w, s.bit).len
      OBVIOUS
  <2>2. FurtherIn(fm, w, room, s) =
            [s EXCEPT !.blocks = Append(@, b), !.bit = @ + n]
      BY <1>2, <1>3, <1>6, <2>1 DEF FurtherIn
  <2>3. FurtherIn(fm, w, room, s) =
            [blocks |-> Append(s.blocks, b), bit |-> s.bit + n, cut |-> s.cut]
      BY <1>2, <2>2
  <2>4. Append(s.blocks, b) \in Seq(Blanks) /\ s.bit + n \in Nat \ {0}
      BY <1>1, <1>2, <2>1
  <2>5. FurtherIn(fm, w, room, s) \in States
      BY <1>2, <2>3, <2>4 DEF States
  <2> QED
      BY <1>6, <2>1, <2>3, <2>5 DEF FurtherCases
<1> QED
    BY <1>2, <1>3, <1>4, <1>5, <1>6

\* The classification of a group goes code by code.
CodesGoOn(fm, w, s, room) ==
    LET C == CodesIn(fm, w, s, room) IN
    /\ C[0] = s
    /\ \A i \in 0 .. room : C[i] \in States
    /\ \A i \in 1 .. room : C[i] = FurtherIn(fm, w, room, C[i - 1])

\* The states of a classification, from the opening of the group on.
LEMMA CodesStep ==
    ASSUME NEW fm, NEW w, NEW room \in Nat, NEW s \in States
    PROVE  CodesGoOn(fm, w, s, room)
<1> DEFINE step == [x \in States \X (1 .. room) |-> FurtherIn(fm, w, room, x[1])]
           next1(i, h) == IF i = 0 THEN s ELSE FurtherIn(fm, w, room, h[i - 1])
<1>1. step \in [States \X (1 .. room) -> States]
  <2>1. \A x \in States \X (1 .. room) : x[1] \in States
      OBVIOUS
  <2>2. \A t \in States : FurtherIn(fm, w, room, t) \in States
      BY FurtherIs
  <2> QED
      BY <2>1, <2>2
<1>2. PICK g \in Recursion(room, States, s, step) : TRUE
  <2> HIDE DEF step
  <2> QED
      BY <1>1, RecursionIsDefined
<1>3. /\ g \in [0 .. room -> States] /\ g[0] = s
      /\ \A i \in 1 .. room : g[i] = step[<<g[i - 1], i>>]
    BY <1>2 DEF Recursion
<1>4. ASSUME NEW i \in 1 .. room
      PROVE  g[i] = FurtherIn(fm, w, room, g[i - 1])
  <2>1. <<g[i - 1], i>> \in States \X (1 .. room)
      BY <1>3
  <2>2. step[<<g[i - 1], i>>] = FurtherIn(fm, w, room, g[i - 1])
      BY <2>1
  <2> HIDE DEF step
  <2> QED
      BY <1>3, <2>2
<1> HIDE DEF step
<1>5. g = [i \in 0 .. room |-> next1(i, g)]
  <2>1. ASSUME NEW i \in 0 .. room PROVE g[i] = next1(i, g)
      BY <1>3, <1>4
  <2> QED
      BY <1>3, <2>1
<1> DEFINE C == CHOOSE h : h = [i \in 0 .. room |-> next1(i, h)]
<1>6. CodesIn(fm, w, s, room) = C
    BY DEF CodesIn
<1> HIDE DEF next1
<1>7. C = [i \in 0 .. room |-> next1(i, C)]
    BY <1>5, Zenon
<1> HIDE DEF C
<1>8. \A i \in 0 .. room : C[i] = next1(i, C)
    BY <1>7, Zenon
<1>9. C[0] = s
    BY <1>8 DEF next1
<1>10. \A i \in 1 .. room : C[i] = FurtherIn(fm, w, room, C[i - 1])
    BY <1>8 DEF next1
<1>11. \A i \in 0 .. room : C[i] \in States
  <2> DEFINE T == {i \in 0 .. room : C[i] \in States}
  <2>1. 0 \in T
      BY <1>9
  <2>2. ASSUME NEW i \in 1 .. room, i - 1 \in T
        PROVE  i \in T
      BY <1>10, <2>2, FurtherIs
  <2>3. \A i \in 0 .. room : i \in T
    <3> HIDE DEF T
    <3> QED
        BY <2>1, <2>2, InductionUpTo
  <2> QED
      BY <2>3
<1> QED
    BY <1>6, <1>9, <1>10, <1>11 DEF CodesGoOn

\* A classification that can go no further is at its end.
LEMMA CodesStop ==
    ASSUME NEW fm, NEW w, NEW room \in Nat, NEW s \in States,
           NEW i \in 0 .. room,
           \/ CodesIn(fm, w, s, room)[i].bit > WordBits
           \/ Len(CodesIn(fm, w, s, room)[i].blocks) >= room
    PROVE  CodesIn(fm, w, s, room)[room] = CodesIn(fm, w, s, room)[i]
<1>1. PICK C : C = CodesIn(fm, w, s, room)
    OBVIOUS
<1>2. CodesGoOn(fm, w, s, room)
    BY CodesStep
<1>3. /\ \A j \in 0 .. room : C[j] \in States
      /\ \A j \in 1 .. room : C[j] = FurtherIn(fm, w, room, C[j - 1])
    BY <1>1, <1>2 DEF CodesGoOn
<1> DEFINE T == {j \in 0 .. room : j >= i => C[j] = C[i]}
<1>4. 0 \in T
    OBVIOUS
<1>5. ASSUME NEW j \in 1 .. room, j - 1 \in T
      PROVE  j \in T
  <2>1. CASE j < i
      BY <2>1
  <2>2. CASE j = i
      BY <2>2
  <2>3. CASE j > i
    <3>1. C[j - 1] = C[i]
        BY <1>5, <2>3
    <3>2. FurtherIn(fm, w, room, C[i]) = C[i]
        BY <1>1, <1>3 DEF FurtherIn
    <3> QED
        BY <1>3, <3>1, <3>2
  <2> QED
      BY <2>1, <2>2, <2>3
<1>6. \A j \in 0 .. room : j \in T
  <2> HIDE DEF T
  <2> QED
      BY <1>4, <1>5, InductionUpTo
<1>7. room \in 0 .. room /\ room >= i
    OBVIOUS
<1>8. C[room] = C[i]
    BY <1>6, <1>7
<1> QED
    BY <1>1, <1>8

\* After i codes: at most room blocks, i of them as long as the word lasts; a
\* code can be cut at the end of the word only, and then there is room for its
\* block.
AfterCodes(fm, room, i, t) ==
    /\ Len(t.blocks) <= room
    /\ t.cut => t.bit > WordBits /\ Len(t.blocks) < room
    /\ t.bit <= WordBits => Len(t.blocks) >= i
    /\ fm # "Inter" => ~t.cut
    /\ Len(t.blocks) = 0 => i = 0

\* So it is in every group to which a block is to come.
LEMMA CodesFacts ==
    ASSUME NEW fm, NEW w, NEW c \in BOOLEAN, NEW room \in Nat, room # 0
    PROVE  \A i \in 0 .. room :
               AfterCodes(fm, room, i, CodesIn(fm, w, Opening(w, c), room)[i])
<1>1. PICK C : C = CodesIn(fm, w, Opening(w, c), room)
    OBVIOUS
<1>2. Opening(w, c) \in States
    BY OpeningIs
<1>3. /\ C[0] = Opening(w, c)
      /\ \A j \in 0 .. room : C[j] \in States
      /\ \A j \in 1 .. room : C[j] = FurtherIn(fm, w, room, C[j - 1])
  <2>1. CodesGoOn(fm, w, Opening(w, c), room)
      BY <1>2, CodesStep
  <2> QED
      BY <1>1, <2>1 DEF CodesGoOn
<1>4. WordBits \in Nat /\ WordBits > 1
    BY VectorAssumption
<1> DEFINE T == {j \in 0 .. room : AfterCodes(fm, room, j, C[j])}
<1>5. 0 \in T
  <2>1. Len(C[0].blocks) <= 1 /\ ~C[0].cut /\ Len(C[0].blocks) \in Nat
      BY <1>2, <1>3, OpeningIs DEF States
  <2> QED
      BY <2>1 DEF AfterCodes
<1>6. ASSUME NEW j \in 1 .. room, j - 1 \in T
      PROVE  j \in T
  <2>1. PICK a, b : a = C[j - 1] /\ b = C[j]
      OBVIOUS
  <2>2. a \in States /\ b \in States /\ AfterCodes(fm, room, j - 1, a)
      BY <1>3, <1>6, <2>1
  <2>3. FurtherCases(fm, w, room, a, b)
      BY <1>3, <2>1, <2>2, FurtherIs
  <2>4. /\ a.bit \in Nat /\ b.bit \in Nat /\ a.cut \in BOOLEAN /\ b.cut \in BOOLEAN
        /\ Len(a.blocks) \in Nat /\ Len(b.blocks) \in Nat
        /\ a.blocks \in Seq(Blanks)
      BY <2>2 DEF States
  <2>5. CodeIn(fm, w, a.bit).len \in {1, 2}
      BY CodeInIs
  <2>6. j = 1 => a.bit <= 2 /\ (Len(a.blocks) = 0 => a.bit = 1)
      BY <1>3, <2>1, OpeningIs
  <2>7. AfterCodes(fm, room, j, b)
    <3>1. CASE (a.bit > WordBits \/ Len(a.blocks) >= room) /\ b = a
        BY <1>4, <2>2, <2>4, <2>6, <3>1 DEF AfterCodes
    <3>2. CASE /\ a.bit <= WordBits /\ Len(a.blocks) < room /\ CutIn(fm, w, a.bit)
               /\ b.blocks = a.blocks /\ b.bit = a.bit + 1 /\ b.cut
      <4>1. a.bit = WordBits /\ fm = "Inter"
          BY <3>2 DEF CutIn
      <4> QED
          BY <1>4, <2>2, <2>4, <2>6, <3>2, <4>1 DEF AfterCodes
    <3>3. CASE /\ a.bit <= WordBits /\ Len(a.blocks) < room
               /\ b.blocks = Append(a.blocks, Blank(CodeIn(fm, w, a.bit).kind))
               /\ b.bit = a.bit + CodeIn(fm, w, a.bit).len /\ b.cut = a.cut
      <4>1. Len(b.blocks) = Len(a.blocks) + 1
          BY <2>4, <3>3
      <4> QED
          BY <1>4, <2>2, <2>4, <2>5, <3>3, <4>1 DEF AfterCodes
    <3> QED
        BY <2>3, <3>1, <3>2, <3>3 DEF FurtherCases
  <2> QED
      BY <2>1, <2>7
<1>7. \A j \in 0 .. room : j \in T
  <2> HIDE DEF T
  <2> QED
      BY <1>5, <1>6, InductionUpTo
<1> QED
    BY <1>1, <1>7

\* The indices of each block end after those of the block before it.
EndsGoOn(q, blocks) ==
    /\ Ends(q, blocks)[0] = q + 1
    /\ \A i \in 0 .. Len(blocks) : Ends(q, blocks)[i] \in Nat \ {0}
    /\ \A i \in 1 .. Len(blocks) :
         Ends(q, blocks)[i] = Ends(q, blocks)[i - 1] + Cost(blocks[i].kind)

\* They are defined along the blocks.
LEMMA EndsStep ==
    ASSUME NEW q \in Nat, NEW blocks \in Seq(Blanks)
    PROVE  EndsGoOn(q, blocks)
<1>1. PICK n \in Nat : n = Len(blocks)
    OBVIOUS
<1>2. \A i \in 1 .. n : Cost(blocks[i].kind) \in Nat
  <2>1. \A i \in 1 .. n : blocks[i].kind \in Kinds
      BY <1>1 DEF Blanks, Blank
  <2> QED
      BY <2>1, CostFacts
<1> DEFINE Ptrs == Nat \ {0}
           step == [x \in Ptrs \X (1 .. n) |-> x[1] + Cost(blocks[x[2]].kind)]
           next1(i, h) == IF i = 0 THEN q + 1 ELSE h[i - 1] + Cost(blocks[i].kind)
<1>3. step \in [Ptrs \X (1 .. n) -> Ptrs]
  <2>1. ASSUME NEW x \in Ptrs \X (1 .. n)
        PROVE  x[1] + Cost(blocks[x[2]].kind) \in Ptrs
    <3>1. x[1] \in Ptrs /\ x[2] \in 1 .. n
        OBVIOUS
    <3>2. Cost(blocks[x[2]].kind) \in Nat
        BY <1>2, <3>1
    <3> QED
        BY <3>1, <3>2
  <2> QED
      BY <2>1
<1>4. PICK g \in Recursion(n, Ptrs, q + 1, step) : TRUE
  <2>1. q + 1 \in Ptrs
      OBVIOUS
  <2> HIDE DEF step, Ptrs
  <2> QED
      BY <1>3, <2>1, RecursionIsDefined
<1>5. /\ g \in [0 .. n -> Ptrs] /\ g[0] = q + 1
      /\ \A i \in 1 .. n : g[i] = step[<<g[i - 1], i>>]
    BY <1>4 DEF Recursion
<1>6. ASSUME NEW i \in 1 .. n
      PROVE  g[i] = g[i - 1] + Cost(blocks[i].kind)
  <2>1. <<g[i - 1], i>> \in Ptrs \X (1 .. n)
      BY <1>5
  <2>2. step[<<g[i - 1], i>>] = g[i - 1] + Cost(blocks[i].kind)
      BY <2>1
  <2> HIDE DEF step
  <2> QED
      BY <1>5, <2>2
<1> HIDE DEF step
<1>7. g = [i \in 0 .. n |-> next1(i, g)]
  <2>1. ASSUME NEW i \in 0 .. n PROVE g[i] = next1(i, g)
    <3>1. CASE i = 0
        BY <1>5, <3>1
    <3>2. CASE i # 0
      <4>1. i \in 1 .. n
          BY <3>2
      <4> QED
          BY <1>6, <3>2, <4>1
    <3> QED
        BY <3>1, <3>2
  <2> QED
      BY <1>5, <2>1
<1> DEFINE E == CHOOSE h : h = [i \in 0 .. n |-> next1(i, h)]
<1>8. Ends(q, blocks) = E
    BY <1>1 DEF Ends
<1> HIDE DEF next1
<1>9. E = [i \in 0 .. n |-> next1(i, E)]
    BY <1>7, Zenon
<1> HIDE DEF E
<1>10. \A i \in 0 .. n : E[i] = next1(i, E)
    BY <1>9, Zenon
<1>11. E[0] = q + 1
    BY <1>10 DEF next1
<1>12. \A i \in 1 .. n : E[i] = E[i - 1] + Cost(blocks[i].kind)
    BY <1>10 DEF next1
<1>13. \A i \in 0 .. n : E[i] \in Ptrs
  <2> DEFINE T == {i \in 0 .. n : E[i] \in Ptrs}
  <2>1. 0 \in T
      BY <1>11
  <2>2. ASSUME NEW i \in 1 .. n, i - 1 \in T
        PROVE  i \in T
      BY <1>2, <1>12, <2>2
  <2>3. \A i \in 0 .. n : i \in T
    <3> HIDE DEF T
    <3> QED
        BY <2>1, <2>2, InductionUpTo
  <2> QED
      BY <2>3
<1> QED
    BY <1>1, <1>8, <1>11, <1>12, <1>13 DEF EndsGoOn

\* So they do not end beyond the indices of a later block.
LEMMA EndsRise ==
    ASSUME NEW q \in Nat, NEW blocks \in Seq(Blanks),
           NEW i \in 0 .. Len(blocks), NEW j \in 0 .. Len(blocks), i <= j
    PROVE  Ends(q, blocks)[i] <= Ends(q, blocks)[j]
<1>0. PICK n \in Nat : n = Len(blocks)
    OBVIOUS
<1>1. PICK E : n = Len(blocks) /\ E = Ends(q, blocks)
    BY <1>0
<1>2. EndsGoOn(q, blocks)
    BY EndsStep
<1>3. /\ \A k \in 0 .. n : E[k] \in Nat
      /\ \A k \in 1 .. n : E[k] = E[k - 1] + Cost(blocks[k].kind)
    BY <1>1, <1>2 DEF EndsGoOn
<1>4. \A k \in 1 .. n : Cost(blocks[k].kind) \in Nat
  <2>1. \A k \in 1 .. n : blocks[k].kind \in Kinds
      BY <1>1 DEF Blanks, Blank
  <2> QED
      BY <2>1, CostFacts
<1> DEFINE T == {k \in 0 .. n : k >= i => E[i] <= E[k]}
<1>5. 0 \in T
    BY <1>1, <1>3
<1>6. ASSUME NEW k \in 1 .. n, k - 1 \in T
      PROVE  k \in T
  <2>1. i \in 0 .. n
      BY <1>1
  <2>2. k >= i => E[i] <= E[k]
    <3>1. CASE k = i
        BY <1>3, <2>1, <3>1
    <3>2. CASE k > i
      <4>1. E[i] <= E[k - 1]
          BY <1>6, <2>1, <3>2
      <4>2. E[k] = E[k - 1] + Cost(blocks[k].kind) /\ Cost(blocks[k].kind) \in Nat
          BY <1>3, <1>4
      <4>3. E[i] \in Nat /\ E[k - 1] \in Nat
          BY <1>3, <2>1
      <4> QED
          BY <4>1, <4>2, <4>3
    <3> QED
        BY <2>1, <3>1, <3>2
  <2> QED
      BY <2>2
<1>7. \A k \in 0 .. n : k \in T
  <2> HIDE DEF T
  <2> QED
      BY <1>5, <1>6, InductionUpTo
<1> QED
    BY <1>1, <1>7

\* A group has a block at least, and no more than are to come.
GroupGoes(fm, pay, cnt, a) ==
    LET P == Progress(fm, pay, cnt, a)
        w == pay[a.ptr]
    IN  /\ P[0] = Opening(w, a.cut)
        /\ \A i \in 0 .. cnt - a.n : P[i] \in States /\ AfterCodes(fm, cnt - a.n, i, P[i])
        /\ \A i \in 1 .. cnt - a.n : P[i] = FurtherIn(fm, w, cnt - a.n, P[i - 1])

\* Every group goes so.
LEMMA GroupSteps ==
    ASSUME NEW fm, NEW pay, NEW cnt \in Nat, NEW a \in Stops, a.n < cnt
    PROVE  GroupGoes(fm, pay, cnt, a)
<1>0. PICK w : w = pay[a.ptr]
    OBVIOUS
<1>1. PICK room \in Nat, c \in BOOLEAN : room = cnt - a.n /\ c = a.cut
  <2>1. cnt - a.n \in Nat /\ a.cut \in BOOLEAN
      BY DEF Stops
  <2> QED
      BY <2>1
<1>2. room # 0
    BY <1>1 DEF Stops
<1>3. Opening(w, c) \in States
    BY OpeningIs
<1>4. CodesGoOn(fm, w, Opening(w, c), room)
    BY <1>3, CodesStep
<1>5. \A i \in 0 .. room : AfterCodes(fm, room, i, CodesIn(fm, w, Opening(w, c), room)[i])
    BY <1>2, CodesFacts
<1>6. Progress(fm, pay, cnt, a) = CodesIn(fm, w, Opening(w, c), room)
    BY <1>0, <1>1 DEF Progress
<1>7. PICK P : P = Progress(fm, pay, cnt, a)
    OBVIOUS
<1>8. /\ P[0] = Opening(w, c)
      /\ \A i \in 0 .. room : P[i] \in States
      /\ \A i \in 1 .. room : P[i] = FurtherIn(fm, w, room, P[i - 1])
    BY <1>4, <1>6, <1>7 DEF CodesGoOn
<1>9. \A i \in 0 .. room : AfterCodes(fm, room, i, P[i])
    BY <1>5, <1>6, <1>7
<1> QED
    BY <1>0, <1>1, <1>7, <1>8, <1>9 DEF GroupGoes

\* The group as a whole.
LEMMA GroupFacts ==
    ASSUME NEW fm, NEW pay, NEW cnt \in Nat, NEW a \in Stops, a.n < cnt
    PROVE  LET g == GroupIn(fm, pay, cnt, a) IN
           /\ g.blocks \in Seq(Blanks) /\ g.cut \in BOOLEAN
           /\ Len(g.blocks) \in 1 .. cnt - a.n
           /\ g.cut => a.n + Len(g.blocks) < cnt
           /\ fm # "Inter" => ~g.cut
<1>1. PICK room \in Nat : room = cnt - a.n /\ room # 0
  <2>1. cnt - a.n \in Nat /\ cnt - a.n # 0
      BY DEF Stops
  <2> QED
      BY <2>1
<1>2. PICK g : g = GroupIn(fm, pay, cnt, a)
    OBVIOUS
<1>3. g \in States /\ AfterCodes(fm, room, room, g)
  <2>1. GroupGoes(fm, pay, cnt, a)
      BY GroupSteps
  <2>2. room \in 0 .. room
      OBVIOUS
  <2> QED
      BY <1>1, <1>2, <2>1, <2>2 DEF GroupGoes, GroupIn
<1>4. g.blocks \in Seq(Blanks) /\ g.cut \in BOOLEAN /\ Len(g.blocks) \in Nat
    BY <1>3 DEF States
<1>5. a.n \in Nat
    BY DEF Stops
<1>6. /\ Len(g.blocks) <= room /\ Len(g.blocks) # 0
      /\ g.cut => Len(g.blocks) < room
      /\ fm # "Inter" => ~g.cut
    BY <1>1, <1>3 DEF AfterCodes
<1>7. Len(g.blocks) \in 1 .. cnt - a.n
    BY <1>1, <1>4, <1>5, <1>6
<1>8. g.cut => a.n + Len(g.blocks) < cnt
    BY <1>1, <1>4, <1>5, <1>6
<1> QED
    BY <1>2, <1>4, <1>6, <1>7, <1>8

\* The walker classifies the group so.
LEMMA WalkerGroup ==
    Group = GroupIn(form, payload, count, [ptr |-> cursor, n |-> Len(yielded), cut |-> cut])
<1>1. \A w, b : (Cut(w, b) <=> CutIn(form, w, b)) /\ CodeAt(w, b) = CodeIn(form, w, b)
    BY DEF Cut, CutIn, CodeAt, CodeIn
<1>2. PICK w, s, room : /\ w = payload[cursor] /\ s = Opening(payload[cursor], cut)
                        /\ room = count - Len(yielded)
    OBVIOUS
<1>3. Group = Classified(w, s, room)
    BY <1>2 DEF Group
<1>4. GroupIn(form, payload, count, [ptr |-> cursor, n |-> Len(yielded), cut |-> cut]) =
          CodesIn(form, w, s, room)[room]
    BY <1>2 DEF GroupIn, Progress
<1>5. Classified(w, s, room) = CodesIn(form, w, s, room)[room]
    BY DEF Classified, CodesIn, Further, FurtherIn, Cut, CutIn, CodeAt, CodeIn
<1> QED
    BY <1>3, <1>4, <1>5

\* A block has its kind, and its indices if the payload has them.
LEMMA FilledIs ==
    ASSUME NEW pay \in Seq(Word), NEW q \in Nat, NEW blocks \in Seq(Blanks),
           NEW j \in 1 .. Len(blocks)
    PROVE  /\ Len(Filled(pay, q, blocks)) = Len(blocks)
           /\ Filled(pay, q, blocks)[j] =
                [kind |-> blocks[j].kind,
                 idx |-> SubSeq(pay, Ends(q, blocks)[j - 1], Ends(q, blocks)[j] - 1)]
           /\ blocks[j] = [kind |-> blocks[j].kind, idx |-> <<>>]
           /\ blocks[j].kind \in Kinds
           /\ Ends(q, blocks)[j] <= Len(pay) + 1 => Filled(pay, q, blocks)[j] \in WholeBlock
<1>1. PICK n \in Nat : n = Len(blocks)
    OBVIOUS
<1>2. blocks[j] = [kind |-> blocks[j].kind, idx |-> <<>>] /\ blocks[j].kind \in Kinds
    BY DEF Blanks, Blank
<1>3. Filled(pay, q, blocks) =
        [i \in 1 .. n |-> [blocks[i] EXCEPT !.idx =
             SubSeq(pay, Ends(q, blocks)[i - 1], Ends(q, blocks)[i] - 1)]]
    BY <1>1 DEF Filled
<1>4. Len(Filled(pay, q, blocks)) = Len(blocks)
    BY <1>1, <1>3
<1>5. Filled(pay, q, blocks)[j] =
        [kind |-> blocks[j].kind,
         idx |-> SubSeq(pay, Ends(q, blocks)[j - 1], Ends(q, blocks)[j] - 1)]
  <2>1. PICK x : x = SubSeq(pay, Ends(q, blocks)[j - 1], Ends(q, blocks)[j] - 1)
      OBVIOUS
  <2>2. Filled(pay, q, blocks)[j] = [blocks[j] EXCEPT !.idx = x]
      BY <1>1, <1>3, <2>1
  <2> QED
      BY <1>2, <2>1, <2>2
<1>6. ASSUME Ends(q, blocks)[j] <= Len(pay) + 1
      PROVE  Filled(pay, q, blocks)[j] \in WholeBlock
  <2>1. EndsGoOn(q, blocks)
      BY EndsStep
  <2>2. PICK x \in Nat \ {0}, y \in Nat : x = Ends(q, blocks)[j - 1] /\ y = Ends(q, blocks)[j] - 1
    <3>1. Ends(q, blocks)[j - 1] \in Nat \ {0} /\ Ends(q, blocks)[j] \in Nat \ {0}
        BY <2>1 DEF EndsGoOn
    <3> QED
        BY <3>1
  <2>3. y <= Len(pay)
    <3>1. Ends(q, blocks)[j] \in Nat \ {0} /\ Len(pay) \in Nat
        BY <2>1 DEF EndsGoOn
    <3> QED
        BY <1>6, <2>2, <3>1
  <2>4. SubSeq(pay, x, y) \in Seq(Word)
      BY <2>3
  <2> QED
      BY <1>2, <1>5, <2>2, <2>4 DEF WholeBlock
<1> QED
    BY <1>2, <1>4, <1>5, <1>6

-----------------------------------------------------------------------------
\* Trails.

\* A trail starts at the first word.
LEMMA TrailStarts ==
    ASSUME NEW fm, NEW pay, NEW cnt, NEW o
    PROVE  <<FirstStop>> \in Trails(fm, pay, cnt, o)
<1>1. FirstStop \in Stops
    BY DEF FirstStop, Stops
<1>2. /\ <<FirstStop>> \in Seq(Stops) /\ <<FirstStop>> # <<>>
      /\ Len(<<FirstStop>>) = 1 /\ <<FirstStop>>[1] = FirstStop
    BY <1>1
<1> QED
    BY <1>1, <1>2 DEF Trails, Stops

\* It goes on.
LEMMA TrailGrows ==
    ASSUME NEW fm, NEW pay, NEW cnt, NEW o, NEW T \in Trails(fm, pay, cnt, o), NEW b \in Stops,
           Follows(fm, pay, cnt, o, T[Len(T)], b), T[Len(T)].n <= b.n
    PROVE  /\ Append(T, b) \in Trails(fm, pay, cnt, o)
           /\ Append(T, b)[Len(Append(T, b))] = b
<1>1. /\ T \in Seq(Stops) /\ T # <<>> /\ T[1] = FirstStop
      /\ \A k \in 1 .. Len(T) - 1 : Follows(fm, pay, cnt, o, T[k], T[k + 1])
      /\ \A k \in 1 .. Len(T) : T[k].n <= T[Len(T)].n
    BY DEF Trails
<1>0. PICK U : U = Append(T, b)
    OBVIOUS
<1>2. PICK n \in Nat : n = Len(T) /\ n # 0
    BY <1>1
<1>3. /\ U \in Seq(Stops) /\ U # <<>> /\ Len(U) = n + 1
      /\ U[n + 1] = b /\ \A k \in 1 .. n : U[k] = T[k]
    BY <1>0, <1>1, <1>2
<1>4. U[1] = FirstStop
    BY <1>1, <1>2, <1>3
<1>5. ASSUME NEW k \in 1 .. Len(U) - 1
      PROVE  Follows(fm, pay, cnt, o, U[k], U[k + 1])
  <2>1. CASE k = n
    <3>1. U[k] = T[n] /\ U[k + 1] = b
        BY <1>2, <1>3, <2>1
    <3> QED
        BY <1>2, <3>1
  <2>2. CASE k # n
    <3>1. k \in 1 .. n - 1 /\ k \in 1 .. n /\ k + 1 \in 1 .. n
        BY <1>3, <2>2
    <3>2. U[k] = T[k] /\ U[k + 1] = T[k + 1]
        BY <1>3, <3>1
    <3> QED
        BY <1>1, <1>2, <3>1, <3>2
  <2> QED
      BY <2>1, <2>2
<1>6. ASSUME NEW k \in 1 .. Len(U)
      PROVE  U[k].n <= U[Len(U)].n
  <2>1. CASE k = n + 1
      BY <1>3, <2>1 DEF Stops
  <2>2. CASE k \in 1 .. n
    <3>1. T[k].n <= T[n].n /\ T[n].n <= b.n /\ T[k] = U[k]
        BY <1>1, <1>2, <1>3, <2>2
    <3>2. T[k].n \in Nat /\ T[n].n \in Nat /\ b.n \in Nat
      <4>1. T[k] \in Stops /\ T[n] \in Stops
          BY <1>1, <1>2, <2>2
      <4> QED
          BY <4>1 DEF Stops
    <3> QED
        BY <1>3, <3>1, <3>2
  <2> QED
      BY <1>3, <2>1, <2>2
<1> QED
    BY <1>0, <1>3, <1>4, <1>5, <1>6 DEF Trails

\* What comes after its last stop does not matter to it.
LEMMA TrailKept ==
    ASSUME NEW fm, NEW pay, NEW cnt \in Nat, NEW o, NEW T \in Trails(fm, pay, cnt, o), NEW o2,
           T[Len(T)].n <= Len(o2), Len(o2) \in Nat,
           \A j \in 1 .. T[Len(T)].n : o2[j] = o[j]
    PROVE  T \in Trails(fm, pay, cnt, o2)
<1>1. /\ T \in Seq(Stops) /\ T # <<>> /\ T[1] = FirstStop
      /\ \A k \in 1 .. Len(T) - 1 : Follows(fm, pay, cnt, o, T[k], T[k + 1])
      /\ \A k \in 1 .. Len(T) : T[k].n <= T[Len(T)].n
    BY DEF Trails
<1>2. ASSUME NEW k \in 1 .. Len(T) - 1
      PROVE  Follows(fm, pay, cnt, o2, T[k], T[k + 1])
  <2>1. PICK a \in Stops, b \in Stops, z \in Nat :
            /\ a = T[k] /\ b = T[k + 1] /\ b.n <= z /\ z <= Len(o2)
            /\ \A j \in 1 .. z : o2[j] = o[j]
    <3>1. T[k] \in Stops /\ T[k + 1] \in Stops /\ T[Len(T)] \in Stops
        BY <1>1
    <3>2. T[Len(T)].n \in Nat
        BY <3>1 DEF Stops
    <3>3. T[k + 1].n <= T[Len(T)].n
        BY <1>1
    <3> QED
        BY <3>1, <3>2, <3>3
  <2>2. Follows(fm, pay, cnt, o, a, b)
      BY <1>1, <2>1
  <2>3. PICK g, f : g = GroupIn(fm, pay, cnt, a).blocks /\ f = Filled(pay, a.ptr, g)
      OBVIOUS
  <2>4. /\ Opens(pay, cnt, a)
        /\ b = [ptr |-> Ends(a.ptr, g)[Len(g)], n |-> a.n + Len(g),
                cut |-> GroupIn(fm, pay, cnt, a).cut]
        /\ b.ptr <= Len(pay) + 1
        /\ HoldsBlocks(o, a.n, Len(g), f)
      BY <2>2, <2>3 DEF Follows
  <2>5. a.n \in Nat /\ Len(g) \in Nat
    <3>1. a.n < cnt /\ a.n \in Nat
        BY <2>4 DEF Opens, Stops
    <3> QED
        BY <2>3, <3>1, GroupFacts
  <2>6. a.n + Len(g) <= z
      BY <2>1, <2>4
  <2>7. HoldsBlocks(o2, a.n, Len(g), f)
    <3>1. a.n + Len(g) <= Len(o2)
        BY <2>1, <2>5, <2>6
    <3>2. ASSUME NEW j \in 1 .. Len(g)
          PROVE  o2[a.n + j] = f[j]
      <4>1. a.n + j \in 1 .. z
          BY <2>1, <2>5, <2>6
      <4>2. o[a.n + j] = f[j]
          BY <2>4 DEF HoldsBlocks
      <4> QED
          BY <2>1, <4>1, <4>2
    <3> QED
        BY <3>1, <3>2 DEF HoldsBlocks
  <2>8. Follows(fm, pay, cnt, o2, a, b)
      BY <2>3, <2>4, <2>7 DEF Follows
  <2> QED
      BY <2>1, <2>8
<1> QED
    BY <1>1, <1>2 DEF Trails

-----------------------------------------------------------------------------
\* The decoder.

\* What the invariant says while the decoder runs.
LEMMA DecodingFacts ==
    ASSUME WalkerInv, stage = "decode"
    PROVE  /\ WalkerTypes /\ WalkerAnew /\ phase # "done" /\ ~ok
           /\ \E T \in Trails(form, payload, count, out) :
                 /\ Decoding(T) /\ Len(T) \in Nat \ {0} /\ T[Len(T)] \in Stops
<1>1. PICK T \in Trails(form, payload, count, out) : Decoding(T)
    BY DEF WalkerInv
<1>2. T \in Seq(Stops) /\ T # <<>>
    BY DEF Trails
<1>3. Len(T) \in Nat \ {0} /\ T[Len(T)] \in Stops
    BY <1>2
<1>4. WalkerTypes /\ WalkerAnew /\ phase # "done" /\ ~ok
    BY DEF WalkerInv
<1> QED
    BY <1>1, <1>3, <1>4

\* A step of the decoder keeps the invariant if its trail leads to its state.
LEMMA DecodingGoesOn ==
    ASSUME WalkerInv, stage # "walk", stage' # "encode", UNCHANGED walker, WalkerAnew,
           WalkerTypes', stage' # "walk" => ~ok', stage' = "walk" <=> phase' = "done",
           foreign' = foreign, NEW T, T \in Trails(form', payload', count', out'), Decoding(T)'
    PROVE  WalkerInv'
<1>1. UNCHANGED <<cursor, buf, cut, fused, yielded, errors>>
    BY DEF walker
<1>2. WalkerAnew'
    BY <1>1 DEF WalkerAnew
<1>3. /\ T \in Seq(Stops) /\ T # <<>> /\ T[1] = FirstStop
    BY DEF Trails
<1>4. Walking(T)'
  <2>1. 1 \in 1 .. Len(T)
      BY <1>3
  <2>2. /\ cursor' = 1 /\ buf' = <<>> /\ cut' = FALSE /\ fused' = FALSE
        /\ yielded' = <<>> /\ errors' = 0
      BY <1>2 DEF WalkerAnew
  <2>3. OnStop(T[1])'
    <3>1. Len(<<>> \o <<>>) = 0
        OBVIOUS
    <3>2. T[1].ptr = 1 /\ T[1].n = 0 /\ T[1].cut = FALSE
        BY <1>3 DEF FirstStop
    <3>3. Len(yielded' \o buf') = 0
        BY <2>2, <3>1
    <3> QED
        BY <2>2, <3>2, <3>3 DEF OnStop
  <2>4. IsPrefixOf(<<>>, out')
    <3>1. out' \in Seq(WholeBlock)
        BY DEF WalkerTypes
    <3>2. Len(<<>>) = 0 /\ SubSeq(out', 1, 0) = <<>> /\ Len(out') \in Nat
        BY <3>1
    <3> QED
        BY <3>2 DEF IsPrefixOf
  <2>5. (yielded \o (IF form = "Inter" THEN buf ELSE <<>>))' = <<>>
      BY <2>2
  <2> QED
      BY <2>1, <2>2, <2>3, <2>4, <2>5 DEF Walking
<1>5. ok' \in BOOLEAN
    BY DEF WalkerTypes
<1>6. \E U \in Trails(form', payload', count', out') :
          Decoding(U)' /\ (stage' = "walk" => Walking(U)')
    BY <1>4
<1> QED
    BY <1>2, <1>5, <1>6 DEF WalkerInv

\* A block without indices is a block.
LEMMA BlankIsBlock ==
    ASSUME NEW b \in Blanks
    PROVE  b \in WholeBlock
<1>1. PICK k \in Kinds : b = [kind |-> k, idx |-> <<>>]
    BY DEF Blanks, Blank
<1>2. <<>> \in Seq(Word)
    OBVIOUS
<1> QED
    BY <1>1, <1>2 DEF WholeBlock

\* The decoder reads the word that its last stop names.
LEMMA ReadWordGoes ==
    ASSUME WalkerInv, ReadWord
    PROVE  WalkerInv'
<1>1. /\ stage = "decode" /\ phase = "group" /\ Len(out) < count /\ p <= Len(payload)
      /\ flag' = payload[p] /\ p' = p + 1 /\ next' = Len(out) + 1
      /\ IF pending THEN out' = Append(out, Blank(Coded(payload[p][1]))) /\ bit' = 2
         ELSE bit' = 1 /\ UNCHANGED out
      /\ pending' = FALSE /\ phase' = "codes"
      /\ UNCHANGED <<stage, form, foreign, payload, count, ok>> /\ UNCHANGED walker
    BY DEF ReadWord, chunk
<1>2. /\ WalkerTypes /\ WalkerAnew /\ ~ok
      /\ \E T \in Trails(form, payload, count, out) :
             Decoding(T) /\ Len(T) \in Nat \ {0} /\ T[Len(T)] \in Stops
    BY <1>1, DecodingFacts
<1>3. PICK T \in Trails(form, payload, count, out) :
        Decoding(T) /\ Len(T) \in Nat \ {0} /\ T[Len(T)] \in Stops
    BY <1>2
<1>4. PICK a \in Stops : a = T[Len(T)]
    BY <1>3
<1>5. a = [ptr |-> p, n |-> Len(out), cut |-> pending]
    BY <1>1, <1>3, <1>4 DEF Decoding, AtStop
<1>6. /\ payload \in Seq(Word) /\ count \in Nat /\ out \in Seq(WholeBlock) /\ Len(out) \in Nat
      /\ p \in Nat \ {0} /\ pending \in BOOLEAN
    BY <1>2 DEF WalkerTypes
<1>7. PICK s : s = Opening(payload[p], pending)
    OBVIOUS
<1>8. /\ Progress(form, payload, count, a)[0] = s /\ s \in States
      /\ s.blocks \in Seq(Blanks) /\ 0 \in 0 .. count - a.n
  <2>1. GroupGoes(form, payload, count, a)
      BY <1>1, <1>5, <1>6, GroupSteps
  <2>2. s \in States
      BY <1>6, <1>7, OpeningIs
  <2>3. 0 \in 0 .. count - a.n
      BY <1>1, <1>5, <1>6
  <2> QED
      BY <1>5, <1>7, <2>1, <2>2, <2>3 DEF GroupGoes, States
<1>9. /\ out' \in Seq(WholeBlock) /\ Len(out') = Len(out) + Len(s.blocks)
      /\ \A j \in 1 .. Len(out) : out'[j] = out[j]
      /\ \A j \in 1 .. Len(s.blocks) : out'[Len(out) + j] = s.blocks[j]
      /\ Len(s.blocks) <= 1 /\ s.bit = bit' /\ s.cut = FALSE
  <2>1. CASE pending
    <3>1. PICK b \in Blanks : b = Blank(Coded(payload[p][1]))
        BY CodedKinds
    <3>2. s.blocks = <<b>> /\ s.bit = 2 /\ s.cut = FALSE
        BY <1>7, <2>1, <3>1 DEF Opening
    <3>3. b \in WholeBlock
        BY BlankIsBlock
    <3>4. out' = Append(out, b)
        BY <1>1, <2>1, <3>1
    <3> QED
        BY <1>1, <1>6, <2>1, <3>2, <3>3, <3>4
  <2>2. CASE ~pending
    <3>1. s.blocks = <<>> /\ s.bit = 1 /\ s.cut = FALSE
        BY <1>7, <2>2 DEF Opening
    <3> QED
        BY <1>1, <1>6, <2>2, <3>1
  <2> QED
      BY <2>1, <2>2
<1>10. CodesRead(a, s)'
  <2>1. Ends(a.ptr, s.blocks)[0] = p + 1
    <3>1. EndsGoOn(p, s.blocks)
        BY <1>6, <1>8, EndsStep
    <3> QED
        BY <1>5, <3>1 DEF EndsGoOn
  <2>2. Len(s.blocks) \in Nat
      BY <1>8
  <2>3. next' - 1 - a.n = 0
      BY <1>1, <1>5, <1>6
  <2>4. p' = Ends(a.ptr, s.blocks)[(next - 1 - a.n)'] /\ (p <= Len(payload) + 1)'
      BY <1>1, <1>6, <2>1, <2>3
  <2>5. ASSUME NEW j \in 1 .. Len(s.blocks)
        PROVE  ~(a.n + j < next') /\ out'[a.n + j] = s.blocks[j]
    <3>1. a.n = Len(out) /\ Len(s.blocks) \in Nat
        BY <1>5, <1>8
    <3> QED
        BY <1>1, <1>6, <1>9, <3>1
  <2> QED
      BY <1>1, <1>5, <1>9, <2>4, <2>5 DEF CodesRead
<1>11. InCodes(a)'
  <2>1. Opens(payload, count, a)
      BY <1>1, <1>5 DEF Opens
  <2>2. next' = a.n + 1 /\ next' \in a.n + 1 .. Len(out') + 1
      BY <1>1, <1>5, <1>6, <1>8, <1>9
  <2>3. s \in Steps(form', payload', count', a)
      BY <1>1, <1>8 DEF Steps
  <2> QED
      BY <1>1, <1>5, <1>10, <2>1, <2>2, <2>3 DEF InCodes
<1>12. Decoding(T)'
    BY <1>1, <1>4, <1>11 DEF Decoding
<1>13. T \in Trails(form', payload', count', out')
  <2>1. /\ T[Len(T)].n <= Len(out') /\ Len(out') \in Nat
        /\ \A j \in 1 .. T[Len(T)].n : out'[j] = out[j]
    <3>1. T[Len(T)].n = Len(out) /\ Len(s.blocks) \in Nat
        BY <1>4, <1>5, <1>8
    <3> QED
        BY <1>6, <1>9, <3>1
  <2>2. T \in Trails(form, payload, count, out')
      BY <1>6, <2>1, TrailKept
  <2> QED
      BY <1>1, <2>2
<1>14. WalkerTypes'
  <2>1. Len(out') <= count
      BY <1>1, <1>6, <1>8, <1>9
  <2>2. p' \in Nat \ {0} /\ next' \in Nat \ {0} /\ bit' \in Nat \ {0}
      BY <1>1, <1>6
  <2> QED
      BY <1>1, <1>2, <1>9, <2>1, <2>2 DEF WalkerTypes, walker
<1> QED
    BY <1>1, <1>2, <1>12, <1>13, <1>14, DecodingGoesOn

\* A sequence with one element more.
LEMMA OneMore ==
    ASSUME NEW S, NEW s \in Seq(S), NEW x \in S
    PROVE  /\ Append(s, x) \in Seq(S) /\ Len(Append(s, x)) = Len(s) + 1
           /\ \A j \in 1 .. Len(s) : Append(s, x)[j] = s[j]
           /\ Append(s, x)[Len(s) + 1] = x
OBVIOUS

\* In a group: how far its codes are read, and that what is read is the group
\* when no code is left.
LEMMA InCodesFacts ==
    ASSUME WalkerTypes, NEW a \in Stops, InCodes(a)
    PROVE  \E i \in 0 .. count - a.n : \E s \in States :
             /\ s = Progress(form, payload, count, a)[i]
             /\ CodesRead(a, s) /\ AfterCodes(form, count - a.n, i, s)
             /\ ~CodesLeft => s = GroupIn(form, payload, count, a)
<1>0. PICK i \in 0 .. count - a.n : CodesRead(a, Progress(form, payload, count, a)[i])
    BY DEF InCodes, Steps
<1>1. PICK s : s = Progress(form, payload, count, a)[i] /\ CodesRead(a, s)
    BY <1>0
<1>2. a.n < count /\ a.n \in Nat /\ count \in Nat
    BY DEF InCodes, Opens, Stops, WalkerTypes
<1>3. s \in States /\ AfterCodes(form, count - a.n, i, s)
  <2>1. GroupGoes(form, payload, count, a)
      BY <1>2, GroupSteps
  <2> QED
      BY <1>1, <2>1 DEF GroupGoes
<1>4. ASSUME ~CodesLeft PROVE s = GroupIn(form, payload, count, a)
  <2>0. PICK w : w = payload[a.ptr]
      OBVIOUS
  <2>1. PICK c \in BOOLEAN : c = a.cut
      BY DEF Stops
  <2>2. PICK room \in Nat : room = count - a.n
      BY <1>2
  <2>3. s = CodesIn(form, w, Opening(w, c), room)[i]
      BY <1>1, <2>0, <2>1, <2>2 DEF Progress
  <2>4. s.bit > WordBits \/ Len(s.blocks) >= room
    <3>1. bit = s.bit /\ Len(out) = a.n + Len(s.blocks)
        BY <1>1 DEF CodesRead
    <3>2. Len(s.blocks) \in Nat /\ s.bit \in Nat /\ WordBits \in Nat
        BY <1>3, VectorAssumption DEF States
    <3> QED
        BY <1>2, <1>4, <2>2, <3>1, <3>2 DEF CodesLeft
  <2>5. CodesIn(form, w, Opening(w, c), room)[room] = s
    <3>1. Opening(w, c) \in States /\ i \in 0 .. room
        BY <2>2, OpeningIs
    <3>2. \/ CodesIn(form, w, Opening(w, c), room)[i].bit > WordBits
          \/ Len(CodesIn(form, w, Opening(w, c), room)[i].blocks) >= room
        BY <2>3, <2>4
    <3>3. CodesIn(form, w, Opening(w, c), room)[room] =
              CodesIn(form, w, Opening(w, c), room)[i]
        BY <3>1, <3>2, CodesStop
    <3> QED
        BY <2>3, <3>3
  <2> QED
      BY <2>0, <2>1, <2>2, <2>5 DEF GroupIn, Progress
<1> QED
    BY <1>1, <1>3, <1>4

\* A code that the decoder reads is the next of the classification.
LEMMA ReadCodeGoes ==
    ASSUME WalkerInv, ReadCode
    PROVE  WalkerInv'
<1>1. /\ stage = "decode" /\ phase = "codes" /\ CodesLeft
      /\ IF Cut(flag, bit) THEN pending' = TRUE /\ bit' = bit + 1 /\ UNCHANGED out
         ELSE /\ out' = Append(out, Blank(CodeAt(flag, bit).kind))
              /\ bit' = bit + CodeAt(flag, bit).len /\ UNCHANGED pending
      /\ UNCHANGED <<stage, form, foreign, payload, count, phase, ok, p, flag, next>>
      /\ UNCHANGED walker
    BY DEF ReadCode, chunk
<1>2. /\ WalkerTypes /\ WalkerAnew /\ ~ok
      /\ \E T \in Trails(form, payload, count, out) :
             Decoding(T) /\ Len(T) \in Nat \ {0} /\ T[Len(T)] \in Stops
    BY <1>1, DecodingFacts
<1>3. PICK T \in Trails(form, payload, count, out) :
        Decoding(T) /\ Len(T) \in Nat \ {0} /\ T[Len(T)] \in Stops
    BY <1>2
<1>4. PICK a \in Stops : a = T[Len(T)]
    BY <1>3
<1>5. InCodes(a)
    BY <1>1, <1>3, <1>4 DEF Decoding
<1>6. /\ payload \in Seq(Word) /\ count \in Nat /\ out \in Seq(WholeBlock) /\ Len(out) \in Nat
      /\ p \in Nat \ {0} /\ pending \in BOOLEAN /\ bit \in Nat \ {0} /\ Len(out) <= count
      /\ a.n \in Nat /\ a.ptr \in Nat
    BY <1>2 DEF WalkerTypes, Stops
<1>7. PICK i \in 0 .. count - a.n, s \in States :
          /\ s = Progress(form, payload, count, a)[i]
          /\ CodesRead(a, s) /\ AfterCodes(form, count - a.n, i, s)
    BY <1>2, <1>5, InCodesFacts
<1>8. /\ Opens(payload, count, a) /\ flag = payload[a.ptr] /\ next = a.n + 1
      /\ next \in a.n + 1 .. Len(out) + 1
    BY <1>1, <1>5 DEF InCodes
<1>9. a.n < count
    BY <1>8 DEF Opens
<1>10. /\ bit = s.bit /\ pending = s.cut /\ Len(out) = a.n + Len(s.blocks)
       /\ s.blocks \in Seq(Blanks) /\ Len(s.blocks) \in Nat
    BY <1>7 DEF CodesRead, States
<1>11. i + 1 \in 1 .. count - a.n /\ i + 1 \in 0 .. count - a.n
  <2>1. Len(out) < count /\ bit <= WordBits
      BY <1>1 DEF CodesLeft
  <2>2. Len(s.blocks) >= i
      BY <1>7, <1>10, <2>1 DEF AfterCodes
  <2> QED
      BY <1>6, <1>10, <2>1, <2>2
<1>12. PICK t : t = Progress(form, payload, count, a)[i + 1]
    OBVIOUS
<1>13. t \in States /\ FurtherCases(form, flag, count - a.n, s, t)
  <2>1. GroupGoes(form, payload, count, a)
      BY <1>6, <1>9, GroupSteps
  <2>2. t = FurtherIn(form, flag, count - a.n, s)
    <3>1. (i + 1) - 1 = i
        OBVIOUS
    <3> QED
        BY <1>7, <1>8, <1>11, <1>12, <2>1, <3>1 DEF GroupGoes
  <2>3. count - a.n \in Nat
      BY <1>6, <1>9
  <2> QED
      BY <2>2, <2>3, FurtherIs
<1>14. /\ t.blocks \in Seq(Blanks) /\ Len(t.blocks) \in Nat /\ t.bit \in Nat \ {0}
       /\ t.cut \in BOOLEAN
    BY <1>13 DEF States
<1>15. /\ bit' = t.bit /\ pending' = t.cut /\ out' \in Seq(WholeBlock)
       /\ Len(out') = a.n + Len(t.blocks) /\ Len(out') \in Len(out) .. Len(out) + 1
       /\ \A j \in 1 .. Len(out) : out'[j] = out[j]
       /\ \A j \in 1 .. Len(s.blocks) : t.blocks[j] = s.blocks[j]
       /\ \A j \in 1 .. Len(t.blocks) : j > Len(s.blocks) => out'[a.n + j] = t.blocks[j]
  <2>1. s.bit <= WordBits /\ Len(s.blocks) < count - a.n
    <3>1. Len(out) < count /\ bit <= WordBits
        BY <1>1 DEF CodesLeft
    <3> QED
        BY <1>6, <1>10, <3>1
  <2>2. ~(s.bit > WordBits \/ Len(s.blocks) >= count - a.n)
      BY <1>6, <1>10, <2>1, VectorAssumption
  <2>3. Cut(flag, bit) <=> CutIn(form, flag, s.bit)
      BY <1>10 DEF Cut, CutIn
  <2>4. CodeAt(flag, bit) = CodeIn(form, flag, s.bit)
      BY <1>10 DEF CodeAt, CodeIn
  <2>5. CASE Cut(flag, bit)
    <3>1. t.blocks = s.blocks /\ t.bit = s.bit + 1 /\ t.cut
        BY <1>13, <2>2, <2>3, <2>5 DEF FurtherCases
    <3>2. pending' = TRUE /\ bit' = bit + 1 /\ out' = out
        BY <1>1, <2>5
    <3> QED
        BY <1>6, <1>10, <1>14, <3>1, <3>2
  <2>6. CASE ~Cut(flag, bit)
    <3>1. PICK b \in Blanks : b = Blank(CodeIn(form, flag, s.bit).kind)
        BY CodeInIs
    <3>2. /\ t.blocks = Append(s.blocks, b)
          /\ t.bit = s.bit + CodeIn(form, flag, s.bit).len /\ t.cut = s.cut
        BY <1>13, <2>2, <2>3, <2>6, <3>1 DEF FurtherCases
    <3>3. /\ out' = Append(out, b) /\ pending' = pending
          /\ bit' = bit + CodeIn(form, flag, s.bit).len
        BY <1>1, <2>4, <2>6, <3>1
    <3>4. b \in WholeBlock
        BY BlankIsBlock
    <3>5. bit' = t.bit /\ pending' = t.cut
        BY <1>10, <3>2, <3>3
    <3>6. /\ out' \in Seq(WholeBlock) /\ Len(out') = Len(out) + 1
          /\ Len(t.blocks) = Len(s.blocks) + 1
          /\ \A j \in 1 .. Len(out) : out'[j] = out[j]
          /\ \A j \in 1 .. Len(s.blocks) : t.blocks[j] = s.blocks[j]
          /\ out'[Len(out) + 1] = b /\ t.blocks[Len(s.blocks) + 1] = b
      <4>1. /\ out' \in Seq(WholeBlock) /\ Len(out') = Len(out) + 1
            /\ \A j \in 1 .. Len(out) : out'[j] = out[j]
            /\ out'[Len(out) + 1] = b
          BY <1>6, <3>3, <3>4, OneMore
      <4>2. /\ Len(t.blocks) = Len(s.blocks) + 1
            /\ \A j \in 1 .. Len(s.blocks) : t.blocks[j] = s.blocks[j]
            /\ t.blocks[Len(s.blocks) + 1] = b
          BY <1>10, <3>2, OneMore
      <4> QED
          BY <4>1, <4>2
    <3>7. ASSUME NEW j \in 1 .. Len(t.blocks), j > Len(s.blocks)
          PROVE  out'[a.n + j] = t.blocks[j]
      <4>1. j = Len(s.blocks) + 1
          BY <1>10, <3>6, <3>7
      <4>2. a.n + j = Len(out) + 1
        <5>1. PICK l \in Nat : l = Len(s.blocks)
            BY <1>10
        <5>2. j = l + 1 /\ Len(out) = a.n + l /\ a.n \in Nat
            BY <1>6, <1>10, <4>1, <5>1
        <5> QED
            BY <5>2
      <4> QED
          BY <3>6, <4>1, <4>2
    <3>8. Len(out') = a.n + Len(t.blocks) /\ Len(out') \in Len(out) .. Len(out) + 1
      <4>1. PICK l \in Nat, m \in Nat : l = Len(s.blocks) /\ m = Len(out)
          BY <1>6, <1>10
      <4>2. Len(t.blocks) = l + 1 /\ Len(out') = m + 1 /\ m = a.n + l /\ a.n \in Nat
          BY <1>6, <1>10, <3>6, <4>1
      <4> QED
          BY <4>1, <4>2
    <3> QED
        BY <3>5, <3>6, <3>7, <3>8
  <2> QED
      BY <2>5, <2>6
<1>16. CodesRead(a, t)'
  <2>1. Ends(a.ptr, t.blocks)[0] = a.ptr + 1 /\ Ends(a.ptr, s.blocks)[0] = a.ptr + 1
    <3>1. EndsGoOn(a.ptr, t.blocks) /\ EndsGoOn(a.ptr, s.blocks)
        BY <1>6, <1>10, <1>14, EndsStep
    <3> QED
        BY <3>1 DEF EndsGoOn
  <2>2. next - 1 - a.n = 0
      BY <1>6, <1>8
  <2>3. p = a.ptr + 1 /\ p <= Len(payload) + 1
      BY <1>7, <2>1, <2>2 DEF CodesRead
  <2>4. p' = Ends(a.ptr, t.blocks)[next' - 1 - a.n] /\ p' <= Len(payload') + 1
      BY <1>1, <2>1, <2>2, <2>3
  <2>5. ASSUME NEW j \in 1 .. Len(t.blocks)
        PROVE  ~(a.n + j < next') /\ out'[a.n + j] = t.blocks[j]
    <3>1. ~(a.n + j < next) /\ next' = next
        BY <1>1, <1>6, <1>8
    <3>2. CASE j > Len(s.blocks)
        BY <1>15, <3>1, <3>2
    <3>3. CASE j <= Len(s.blocks)
      <4>1. j \in 1 .. Len(s.blocks) /\ a.n + j \in 1 .. Len(out)
          BY <1>6, <1>10, <3>3
      <4>2. out[a.n + j] = s.blocks[j]
          BY <1>7, <3>1, <4>1 DEF CodesRead
      <4> QED
          BY <1>15, <3>1, <4>1, <4>2
    <3> QED
        BY <1>10, <3>2, <3>3
  <2> QED
      BY <1>1, <1>15, <2>4, <2>5 DEF CodesRead
<1>17. InCodes(a)'
  <2>1. t \in Steps(form', payload', count', a)
      BY <1>1, <1>11, <1>12 DEF Steps
  <2>2. next' \in a.n + 1 .. Len(out') + 1 /\ next' = a.n + 1
      BY <1>1, <1>6, <1>8, <1>14, <1>15
  <2> QED
      BY <1>1, <1>8, <1>16, <2>1, <2>2 DEF InCodes
<1>18. Decoding(T)'
    BY <1>1, <1>4, <1>17 DEF Decoding
<1>19. T \in Trails(form', payload', count', out')
  <2>1. /\ T[Len(T)].n <= Len(out') /\ Len(out') \in Nat
        /\ \A j \in 1 .. T[Len(T)].n : out'[j] = out[j]
    <3>1. T[Len(T)].n = a.n /\ a.n <= Len(out) /\ Len(out') \in Nat /\ Len(out) <= Len(out')
      <4>1. PICK l \in Nat, m \in Nat : l = Len(s.blocks) /\ m = Len(out)
          BY <1>6, <1>10
      <4>2. m = a.n + l /\ a.n \in Nat /\ Len(out') \in m .. m + 1
          BY <1>6, <1>10, <1>15, <4>1
      <4> QED
          BY <1>4, <4>1, <4>2
    <3> QED
        BY <1>6, <1>15, <3>1
  <2>2. T \in Trails(form, payload, count, out')
      BY <1>6, <2>1, TrailKept
  <2> QED
      BY <1>1, <2>2
<1>20. WalkerTypes'
  <2>1. Len(out') <= count
    <3>1. Len(out) < count
        BY <1>1 DEF CodesLeft
    <3> QED
        BY <1>6, <1>15, <3>1
  <2> QED
      BY <1>1, <1>2, <1>14, <1>15, <2>1 DEF WalkerTypes, walker
<1> QED
    BY <1>1, <1>2, <1>18, <1>19, <1>20, DecodingGoesOn

\* The facts of a decoder in a group, of which all codes are read.
LEMMA InGroupFacts ==
    ASSUME WalkerInv, stage = "decode", phase = "codes", ~CodesLeft
    PROVE  \E T \in Trails(form, payload, count, out) : \E a \in Stops : \E g \in States :
             /\ a = T[Len(T)] /\ Len(T) \in Nat \ {0}
             /\ InCodes(a) /\ CodesRead(a, g) /\ g = GroupIn(form, payload, count, a)
             /\ g.cut => a.n + Len(g.blocks) < count
<1>1. /\ WalkerTypes
      /\ \E T \in Trails(form, payload, count, out) :
             Decoding(T) /\ Len(T) \in Nat \ {0} /\ T[Len(T)] \in Stops
    BY DecodingFacts
<1>2. PICK T \in Trails(form, payload, count, out) :
        Decoding(T) /\ Len(T) \in Nat \ {0} /\ T[Len(T)] \in Stops
    BY <1>1
<1>3. PICK a \in Stops : a = T[Len(T)]
    BY <1>2
<1>4. InCodes(a)
    BY <1>2, <1>3 DEF Decoding
<1>5. PICK g \in States : CodesRead(a, g) /\ g = GroupIn(form, payload, count, a)
    BY <1>1, <1>4, InCodesFacts
<1>6. g.cut => a.n + Len(g.blocks) < count
  <2>1. a.n < count /\ count \in Nat
      BY <1>1, <1>4 DEF InCodes, Opens, WalkerTypes
  <2> QED
      BY <1>5, <2>1, GroupFacts
<1> QED
    BY <1>2, <1>3, <1>4, <1>5, <1>6

\* What is read of the indices: they end where those of the next block begin.
LEMMA IndexFacts ==
    ASSUME WalkerTypes, NEW a \in Stops, NEW g \in States, InCodes(a), CodesRead(a, g)
    PROVE  /\ a.n \in Nat /\ a.ptr \in Nat /\ Len(g.blocks) \in Nat /\ g.blocks \in Seq(Blanks)
           /\ Len(out) = a.n + Len(g.blocks) /\ Len(out) \in Nat
           /\ EndsGoOn(a.ptr, g.blocks)
           /\ next - 1 - a.n \in 0 .. Len(g.blocks)
           /\ p = Ends(a.ptr, g.blocks)[next - 1 - a.n]
           /\ next <= Len(out) =>
                /\ next - a.n \in 1 .. Len(g.blocks)
                /\ out[next] = g.blocks[next - a.n]
                /\ Ends(a.ptr, g.blocks)[next - a.n] = p + Cost(out[next].kind)
<1>1. /\ a.n \in Nat /\ a.ptr \in Nat /\ Len(g.blocks) \in Nat /\ g.blocks \in Seq(Blanks)
      /\ Len(out) = a.n + Len(g.blocks) /\ Len(out) \in Nat /\ next \in Nat
    BY DEF WalkerTypes, Stops, States, CodesRead
<1>2. EndsGoOn(a.ptr, g.blocks)
    BY <1>1, EndsStep
<1>3. next \in a.n + 1 .. Len(out) + 1
    BY DEF InCodes
<1>4. next - 1 - a.n \in 0 .. Len(g.blocks) /\ p = Ends(a.ptr, g.blocks)[next - 1 - a.n]
  <2>1. PICK l \in Nat : l = Len(g.blocks)
      BY <1>1
  <2>2. next - 1 - a.n \in 0 .. l
      BY <1>1, <1>3, <2>1
  <2> QED
      BY <2>1, <2>2 DEF CodesRead
<1>5. ASSUME next <= Len(out)
      PROVE  /\ next - a.n \in 1 .. Len(g.blocks)
             /\ out[next] = g.blocks[next - a.n]
             /\ Ends(a.ptr, g.blocks)[next - a.n] = p + Cost(out[next].kind)
  <2>1. PICK j \in Nat : j = next - a.n
      BY <1>1, <1>3
  <2>2. j \in 1 .. Len(g.blocks) /\ a.n + j = next /\ j - 1 = next - 1 - a.n
    <3>1. PICK l \in Nat : l = Len(g.blocks)
        BY <1>1
    <3>2. j \in 1 .. l /\ a.n + j = next /\ j - 1 = next - 1 - a.n
        BY <1>1, <1>3, <1>5, <2>1, <3>1
    <3> QED
        BY <3>1, <3>2
  <2>3. out[a.n + j] = g.blocks[j]
    <3>1. ~(a.n + j < next)
        BY <1>1, <2>2
    <3> QED
        BY <2>2, <3>1 DEF CodesRead
  <2>4. Ends(a.ptr, g.blocks)[j] = Ends(a.ptr, g.blocks)[j - 1] + Cost(g.blocks[j].kind)
      BY <1>2, <2>2 DEF EndsGoOn
  <2> QED
      BY <1>4, <2>1, <2>2, <2>3, <2>4
<1> QED
    BY <1>1, <1>2, <1>4, <1>5

\* A sequence with one element replaced.
LEMMA OneOther ==
    ASSUME NEW S, NEW s \in Seq(S), NEW i \in 1 .. Len(s), NEW x \in S,
           NEW t, t = [s EXCEPT ![i] = x]
    PROVE  /\ t \in Seq(S) /\ Len(t) = Len(s) /\ t[i] = x
           /\ \A j \in 1 .. Len(s) : j # i => t[j] = s[j]
<1>1. PICK n \in Nat : n = Len(s) /\ s \in [1 .. n -> S]
    OBVIOUS
<1>2. t \in [1 .. n -> S]
    BY <1>1
<1>3. t \in Seq(S) /\ Len(t) = n
    BY <1>2
<1> QED
    BY <1>1, <1>3

\* The indices of a block go where the group has them.
LEMMA ReadIndexGoes ==
    ASSUME WalkerInv, ReadIndex
    PROVE  WalkerInv'
<1>0. PICK end : end = p + Cost(out[next].kind)
    OBVIOUS
<1>1. /\ stage = "decode" /\ phase = "codes" /\ ~CodesLeft /\ next <= Len(out)
      /\ end <= Len(payload) + 1
      /\ out' = [out EXCEPT ![next].idx = SubSeq(payload, p, end - 1)]
      /\ p' = end /\ next' = next + 1
      /\ UNCHANGED <<stage, form, foreign, payload, count, phase, ok, flag, bit, pending>>
      /\ UNCHANGED walker
    BY <1>0 DEF ReadIndex, chunk
<1>2. WalkerTypes /\ WalkerAnew /\ ~ok
    BY <1>1, DecodingFacts
<1>3. PICK T \in Trails(form, payload, count, out), a \in Stops, g \in States :
          /\ a = T[Len(T)] /\ Len(T) \in Nat \ {0}
          /\ InCodes(a) /\ CodesRead(a, g) /\ g = GroupIn(form, payload, count, a)
    BY <1>1, InGroupFacts
<1>4. /\ payload \in Seq(Word) /\ count \in Nat /\ out \in Seq(WholeBlock) /\ Len(out) \in Nat
      /\ p \in Nat \ {0} /\ next \in Nat \ {0} /\ Len(payload) \in Nat
    BY <1>2 DEF WalkerTypes
<1>5. PICK j : j = next - a.n
    OBVIOUS
<1>6. /\ a.n \in Nat /\ a.ptr \in Nat /\ g.blocks \in Seq(Blanks)
      /\ Len(out) = a.n + Len(g.blocks)
      /\ EndsGoOn(a.ptr, g.blocks)
      /\ p = Ends(a.ptr, g.blocks)[next - 1 - a.n]
      /\ j \in 1 .. Len(g.blocks) /\ out[next] = g.blocks[j] /\ end = Ends(a.ptr, g.blocks)[j]
    BY <1>0, <1>1, <1>2, <1>3, <1>5, IndexFacts
<1>7. j - 1 = next - 1 - a.n /\ a.n + j = next /\ next' - 1 - a.n = j /\ j \in Nat \ {0}
  <2>1. PICK n \in Nat, x \in Nat, l \in Nat : n = a.n /\ x = next /\ l = Len(g.blocks)
    <3>1. a.n \in Nat /\ next \in Nat /\ Len(g.blocks) \in Nat
        BY <1>4, <1>6
    <3> QED
        BY <3>1
  <2>2. j = x - n /\ next' = x + 1 /\ j \in 1 .. l
      BY <1>1, <1>5, <1>6, <2>1
  <2>3. j - 1 = x - 1 - n /\ n + j = x /\ x + 1 - 1 - n = j /\ j \in Nat \ {0}
      BY <2>2
  <2> QED
      BY <2>1, <2>2, <2>3
<1>8. PICK b : b = Filled(payload, a.ptr, g.blocks)[j]
    OBVIOUS
<1>9. b = [kind |-> out[next].kind, idx |-> SubSeq(payload, p, end - 1)] /\ b \in WholeBlock
      /\ out[next] = [kind |-> out[next].kind, idx |-> <<>>]
  <2>1. /\ b = [kind |-> g.blocks[j].kind,
               idx |-> SubSeq(payload, Ends(a.ptr, g.blocks)[j - 1],
                                       Ends(a.ptr, g.blocks)[j] - 1)]
        /\ g.blocks[j] = [kind |-> g.blocks[j].kind, idx |-> <<>>]
        /\ Ends(a.ptr, g.blocks)[j] <= Len(payload) + 1 => b \in WholeBlock
    <3>1. PICK q : q = g.blocks
        OBVIOUS
    <3>2. q \in Seq(Blanks) /\ \E t \in Nat, i \in 1 .. Len(q) : t = a.ptr /\ i = j
        BY <1>6, <3>1
    <3>3. PICK t \in Nat, i \in 1 .. Len(q) : t = a.ptr /\ i = j
        BY <3>2
    <3>4. /\ Filled(payload, t, q)[i] =
                [kind |-> q[i].kind, idx |-> SubSeq(payload, Ends(t, q)[i - 1], Ends(t, q)[i] - 1)]
          /\ q[i] = [kind |-> q[i].kind, idx |-> <<>>]
          /\ Ends(t, q)[i] <= Len(payload) + 1 => Filled(payload, t, q)[i] \in WholeBlock
        BY <1>4, <3>2, FilledIs
    <3> QED
        BY <1>8, <3>1, <3>3, <3>4, Zenon
  <2>2. Ends(a.ptr, g.blocks)[j] = end /\ Ends(a.ptr, g.blocks)[j - 1] = p
      BY <1>6, <1>7
  <2> QED
      BY <1>1, <1>6, <2>1, <2>2
<1>10. out' = [out EXCEPT ![next] = b]
  <2>1. PICK x : x = SubSeq(payload, p, end - 1)
      OBVIOUS
  <2>2. out' = [out EXCEPT ![next] = [out[next] EXCEPT !.idx = x]]
      BY <1>1, <2>1
  <2>3. [out[next] EXCEPT !.idx = x] = b
    <3>1. PICK k : k = out[next].kind
        OBVIOUS
    <3>2. out[next] = [kind |-> k, idx |-> <<>>] /\ b = [kind |-> k, idx |-> x]
        BY <1>9, <2>1, <3>1
    <3> QED
        BY <3>2
  <2> QED
      BY <2>2, <2>3
<1>11. /\ out' \in Seq(WholeBlock) /\ Len(out') = Len(out) /\ out'[next] = b
       /\ \A i \in 1 .. Len(out) : i # next => out'[i] = out[i]
  <2>1. next \in 1 .. Len(out) /\ b \in WholeBlock
      BY <1>1, <1>4, <1>9
  <2> QED
      BY <1>4, <1>10, <2>1, OneOther
<1>12. CodesRead(a, g)'
  <2>1. ASSUME NEW i \in 1 .. Len(g.blocks)
        PROVE  out'[a.n + i] = IF a.n + i < next' THEN Filled(payload, a.ptr, g.blocks)[i]
                               ELSE g.blocks[i]
    <3>1. a.n + i \in 1 .. Len(out)
        BY <1>6
    <3>2. CASE i = j
        BY <1>1, <1>4, <1>7, <1>8, <1>11, <3>2
    <3>3. CASE i # j
      <4>1. a.n + i # next /\ (a.n + i < next' <=> a.n + i < next)
        <5>1. PICK n \in Nat, x \in Nat : n = a.n /\ x = next
            BY <1>4, <1>6
        <5>2. n + j = x /\ next' = x + 1 /\ j \in Nat
            BY <1>1, <1>7, <5>1
        <5>3. n + i # x /\ (n + i < x + 1 <=> n + i < x)
            BY <3>3, <5>2
        <5> QED
            BY <5>1, <5>2, <5>3
      <4>2. out'[a.n + i] = out[a.n + i]
          BY <1>11, <3>1, <4>1
      <4>3. out[a.n + i] = IF a.n + i < next THEN Filled(payload, a.ptr, g.blocks)[i]
                           ELSE g.blocks[i]
          BY <1>3 DEF CodesRead
      <4> QED
          BY <4>1, <4>2, <4>3
    <3> QED
        BY <3>2, <3>3
  <2>2. p' = Ends(a.ptr, g.blocks)[next' - 1 - a.n] /\ p' <= Len(payload') + 1
      BY <1>1, <1>6, <1>7
  <2>3. bit' = g.bit /\ pending' = g.cut /\ Len(out') = a.n + Len(g.blocks)
      BY <1>1, <1>3, <1>6, <1>11 DEF CodesRead
  <2> QED
      BY <1>1, <2>1, <2>2, <2>3 DEF CodesRead
<1>13. ~CodesLeft'
    BY <1>1, <1>11 DEF CodesLeft
<1>14. InCodes(a)'
  <2>1. g \in Steps(form', payload', count', a)
    <3>1. a.n < count
        BY <1>3 DEF InCodes, Opens
    <3>2. count - a.n \in 0 .. count - a.n
        BY <1>4, <1>6, <3>1
    <3> QED
        BY <1>1, <1>3, <3>2 DEF Steps, GroupIn
  <2>2. next' \in a.n + 1 .. Len(out') + 1
    <3>1. next \in a.n + 1 .. Len(out) + 1
        BY <1>3 DEF InCodes
    <3>2. PICK n \in Nat, x \in Nat, m \in Nat : n = a.n /\ x = next /\ m = Len(out)
        BY <1>4, <1>6
    <3>3. x \in n + 1 .. m + 1 /\ x <= m /\ next' = x + 1 /\ Len(out') = m
        BY <1>1, <1>11, <3>1, <3>2
    <3>4. x + 1 \in n + 1 .. m + 1
        BY <3>3
    <3> QED
        BY <3>2, <3>3, <3>4
  <2>3. Opens(payload, count, a) /\ flag = payload[a.ptr]
      BY <1>3 DEF InCodes
  <2> QED
      BY <1>1, <1>12, <1>13, <2>1, <2>2, <2>3 DEF InCodes
<1>15. Decoding(T)'
    BY <1>1, <1>3, <1>14 DEF Decoding
<1>16. T \in Trails(form', payload', count', out')
  <2>1. /\ T[Len(T)].n <= Len(out') /\ Len(out') \in Nat
        /\ \A i \in 1 .. T[Len(T)].n : out'[i] = out[i]
    <3>1. a.n <= Len(out) /\ \A i \in 1 .. a.n : i \in 1 .. Len(out) /\ i # next
        BY <1>4, <1>6, <1>7
    <3> QED
        BY <1>3, <1>4, <1>11, <3>1
  <2>2. T \in Trails(form, payload, count, out')
      BY <1>4, <2>1, TrailKept
  <2> QED
      BY <1>1, <2>2
<1>17. WalkerTypes'
  <2>1. end \in Nat \ {0}
    <3>1. Ends(a.ptr, g.blocks)[j] \in Nat \ {0}
        BY <1>6 DEF EndsGoOn
    <3> QED
        BY <1>6, <3>1
  <2>2. next' \in Nat \ {0}
      BY <1>1, <1>4
  <2> QED
      BY <1>1, <1>2, <1>11, <2>1, <2>2 DEF WalkerTypes, walker
<1> QED
    BY <1>1, <1>2, <1>15, <1>16, <1>17, DecodingGoesOn

\* After a group the trail has a stop more.
LEMMA EndGroupGoes ==
    ASSUME WalkerInv, EndGroup
    PROVE  WalkerInv'
<1>1. /\ stage = "decode" /\ phase = "codes" /\ ~CodesLeft /\ next > Len(out)
      /\ phase' = "group"
      /\ UNCHANGED <<stage, form, foreign, payload, count, ok, p, flag, bit, pending, next, out>>
      /\ UNCHANGED walker
    BY DEF EndGroup, chunk
<1>2. WalkerTypes /\ WalkerAnew /\ ~ok
    BY <1>1, DecodingFacts
<1>3. PICK T \in Trails(form, payload, count, out), a \in Stops, g \in States :
          /\ a = T[Len(T)] /\ Len(T) \in Nat \ {0}
          /\ InCodes(a) /\ CodesRead(a, g) /\ g = GroupIn(form, payload, count, a)
          /\ g.cut => a.n + Len(g.blocks) < count
    BY <1>1, InGroupFacts
<1>4. /\ payload \in Seq(Word) /\ count \in Nat /\ out \in Seq(WholeBlock) /\ Len(out) \in Nat
      /\ p \in Nat \ {0} /\ next \in Nat \ {0} /\ pending \in BOOLEAN
    BY <1>2 DEF WalkerTypes
<1>5. /\ a.n \in Nat /\ a.ptr \in Nat /\ g.blocks \in Seq(Blanks) /\ Len(g.blocks) \in Nat
      /\ Len(out) = a.n + Len(g.blocks)
      /\ next - 1 - a.n \in 0 .. Len(g.blocks)
      /\ p = Ends(a.ptr, g.blocks)[next - 1 - a.n]
    BY <1>2, <1>3, IndexFacts
<1>6. next = Len(out) + 1 /\ next - 1 - a.n = Len(g.blocks)
  <2>1. next \in a.n + 1 .. Len(out) + 1
      BY <1>3 DEF InCodes
  <2>2. PICK l \in Nat, m \in Nat : l = Len(g.blocks) /\ m = Len(out)
      BY <1>4, <1>5
  <2>3. next = m + 1 /\ next - 1 - a.n = l
      BY <1>1, <1>4, <1>5, <2>1, <2>2
  <2> QED
      BY <2>2, <2>3
<1>7. PICK b \in Stops : b = [ptr |-> p, n |-> Len(out), cut |-> pending]
    BY <1>4 DEF Stops
<1>8. HoldsBlocks(out, a.n, Len(g.blocks), Filled(payload, a.ptr, g.blocks))
  <2>1. ASSUME NEW j \in 1 .. Len(g.blocks)
        PROVE  out[a.n + j] = Filled(payload, a.ptr, g.blocks)[j]
    <3>1. a.n + j < next
      <4>1. PICK n \in Nat, l \in Nat, m \in Nat : n = a.n /\ l = Len(g.blocks) /\ m = Len(out)
          BY <1>4, <1>5
      <4>2. m = n + l /\ next = m + 1 /\ j \in 1 .. l
          BY <1>5, <1>6, <4>1
      <4>3. n + j < m + 1
          BY <4>2
      <4> QED
          BY <4>1, <4>2, <4>3
    <3> QED
        BY <1>3, <3>1 DEF CodesRead
  <2>2. a.n + Len(g.blocks) <= Len(out)
      BY <1>4, <1>5
  <2> QED
      BY <2>1, <2>2 DEF HoldsBlocks
<1>9. Follows(form, payload, count, out, a, b)
  <2>1. PICK q : q = g.blocks
      OBVIOUS
  <2>2. q = GroupIn(form, payload, count, a).blocks
      BY <1>3, <2>1
  <2>3. /\ b.ptr = Ends(a.ptr, q)[Len(q)] /\ b.n = a.n + Len(q)
        /\ b.cut = GroupIn(form, payload, count, a).cut
      BY <1>3, <1>5, <1>6, <1>7, <2>1 DEF CodesRead
  <2>4. b.ptr <= Len(payload) + 1
      BY <1>3, <1>7 DEF CodesRead
  <2>5. b = [ptr |-> Ends(a.ptr, q)[Len(q)], n |-> a.n + Len(q),
             cut |-> GroupIn(form, payload, count, a).cut]
      BY <1>7, <2>3
  <2>6. Opens(payload, count, a)
      BY <1>3 DEF InCodes
  <2> QED
      BY <1>8, <2>1, <2>2, <2>4, <2>5, <2>6 DEF Follows
<1>10. PICK U : U = Append(T, b)
    OBVIOUS
<1>11. U \in Trails(form, payload, count, out) /\ U[Len(U)] = b
  <2>1. T[Len(T)].n <= b.n
      BY <1>3, <1>4, <1>5, <1>7
  <2> QED
      BY <1>3, <1>9, <1>10, <2>1, TrailGrows
<1>12. AtStop(b)'
  <2>1. Len(out) = count => ~pending
    <3>1. pending = g.cut
        BY <1>3 DEF CodesRead
    <3> QED
        BY <1>3, <1>4, <1>5, <3>1
  <2> QED
      BY <1>1, <1>6, <1>7, <2>1 DEF AtStop
<1>13. Decoding(U)'
    BY <1>1, <1>11, <1>12 DEF Decoding
<1>14. WalkerTypes'
    BY <1>1, <1>2 DEF WalkerTypes, walker
<1> QED
    BY <1>1, <1>2, <1>11, <1>13, <1>14, DecodingGoesOn

\* The decoder gives up where the trail ends (the Truncated errors of
\* decode_vector_chunk).
LEMMA TruncatedGoes ==
    ASSUME WalkerInv, Truncated
    PROVE  WalkerInv'
<1>1. /\ stage = "decode" /\ phase' = "done" /\ stage' = "walk"
      /\ UNCHANGED <<form, foreign, payload, count, ok, p, flag, bit, pending, next, out>>
      /\ UNCHANGED walker
    BY DEF Truncated, chunk
<1>2. WalkerTypes /\ WalkerAnew /\ ~ok
    BY <1>1, DecodingFacts
<1>3. WalkerTypes'
    BY <1>1, <1>2 DEF WalkerTypes, walker
<1>4. /\ payload \in Seq(Word) /\ count \in Nat /\ out \in Seq(WholeBlock) /\ Len(out) \in Nat
      /\ p \in Nat \ {0} /\ next \in Nat \ {0} /\ Len(payload) \in Nat
    BY <1>2 DEF WalkerTypes
<1>5. CASE phase = "group" /\ Len(out) < count /\ p > Len(payload)
  <2>1. PICK T \in Trails(form, payload, count, out) :
          Decoding(T) /\ Len(T) \in Nat \ {0} /\ T[Len(T)] \in Stops
      BY <1>1, DecodingFacts
  <2>2. T[Len(T)] = [ptr |-> p, n |-> Len(out), cut |-> pending]
      BY <1>5, <2>1 DEF Decoding, AtStop
  <2>3. Returned(T[Len(T)])'
      BY <1>1, <1>2, <1>5, <2>2 DEF Returned
  <2>4. Decoding(T)'
      BY <1>1, <2>3 DEF Decoding
  <2> QED
      BY <1>1, <1>2, <1>3, <2>1, <2>4, DecodingGoesOn
<1>6. CASE /\ phase = "codes" /\ ~CodesLeft /\ next <= Len(out)
           /\ p + Cost(out[next].kind) > Len(payload) + 1
  <2>1. PICK T \in Trails(form, payload, count, out), a \in Stops, g \in States :
            /\ a = T[Len(T)] /\ Len(T) \in Nat \ {0}
            /\ InCodes(a) /\ CodesRead(a, g) /\ g = GroupIn(form, payload, count, a)
      BY <1>1, <1>6, InGroupFacts
  <2>2. /\ a.n \in Nat /\ a.ptr \in Nat /\ g.blocks \in Seq(Blanks) /\ Len(g.blocks) \in Nat
        /\ Len(out) = a.n + Len(g.blocks)
        /\ next - 1 - a.n \in 0 .. Len(g.blocks)
        /\ p = Ends(a.ptr, g.blocks)[next - 1 - a.n]
        /\ next - a.n \in 1 .. Len(g.blocks)
        /\ Ends(a.ptr, g.blocks)[next - a.n] = p + Cost(out[next].kind)
      BY <1>2, <1>6, <2>1, IndexFacts
  <2>3. PICK m \in Nat, n \in Nat, x \in Nat, l \in Nat :
            /\ m = next - 1 - a.n /\ n = a.n /\ x = next /\ l = Len(g.blocks)
    <3>1. next - 1 - a.n \in Nat
        BY <2>2
    <3> QED
        BY <1>4, <2>2, <3>1
  <2>4. m \in 0 .. l /\ m < l /\ m + 1 = next - a.n /\ x = n + m + 1
    <3>1. m = x - 1 - n /\ x - n \in 1 .. l
        BY <2>2, <2>3
    <3>2. m \in 0 .. l /\ m < l /\ m + 1 = x - n /\ x = n + m + 1
        BY <3>1
    <3> QED
        BY <2>3, <3>2
  <2>5. Short(payload, count, a, g.blocks, m)
    <3>1. Opens(payload, count, a)
        BY <2>1 DEF InCodes
    <3>2. Ends(a.ptr, g.blocks)[m] <= Len(payload) + 1
        BY <2>1, <2>2, <2>3 DEF CodesRead
    <3>3. Ends(a.ptr, g.blocks)[m + 1] > Len(payload) + 1
        BY <1>6, <2>2, <2>4
    <3> QED
        BY <2>3, <2>4, <3>1, <3>2, <3>3 DEF Short
  <2>6. HoldsBlocks(out, a.n, m, Filled(payload, a.ptr, g.blocks))
    <3>1. a.n + m <= Len(out)
        BY <2>2, <2>3, <2>4
    <3>2. ASSUME NEW j \in 1 .. m
          PROVE  out[a.n + j] = Filled(payload, a.ptr, g.blocks)[j]
      <4>1. j \in 1 .. Len(g.blocks) /\ a.n + j < next
        <5>1. j \in 1 .. l /\ n + j < x
            BY <2>4
        <5> QED
            BY <2>3, <5>1
      <4> QED
          BY <2>1, <4>1 DEF CodesRead
    <3> QED
        BY <3>1, <3>2 DEF HoldsBlocks
  <2>7. Returned(a)'
    <3>1. PICK q : q = g.blocks
        OBVIOUS
    <3>2. q = GroupIn(form, payload, count, a).blocks /\ m \in 0 .. Len(q)
        BY <2>1, <2>3, <2>4, <3>1
    <3>3. p = Ends(a.ptr, q)[m]
        BY <2>2, <2>3, <3>1
    <3> QED
        BY <1>1, <1>2, <2>5, <2>6, <3>1, <3>2, <3>3 DEF Returned
  <2>8. Decoding(T)'
      BY <1>1, <2>1, <2>7 DEF Decoding
  <2> QED
      BY <1>1, <1>2, <1>3, <2>1, <2>8, DecodingGoesOn
<1> QED
    BY <1>5, <1>6 DEF Truncated

\* It returns with all blocks at the last stop (the Ok of decode_vector_chunk).
LEMMA ReturnGoes ==
    ASSUME WalkerInv, Return
    PROVE  WalkerInv'
<1>1. /\ stage = "decode" /\ phase = "group" /\ Len(out) = count
      /\ phase' = "done" /\ stage' = "walk" /\ ok' = ~pending
      /\ UNCHANGED <<form, foreign, payload, count, p, flag, bit, pending, next, out>>
      /\ UNCHANGED walker
    BY DEF Return, chunk
<1>2. WalkerTypes /\ WalkerAnew
    BY <1>1, DecodingFacts
<1>3. PICK T \in Trails(form, payload, count, out) :
        Decoding(T) /\ Len(T) \in Nat \ {0} /\ T[Len(T)] \in Stops
    BY <1>1, DecodingFacts
<1>4. T[Len(T)] = [ptr |-> p, n |-> Len(out), cut |-> pending] /\ ~pending
    BY <1>1, <1>3 DEF Decoding, AtStop
<1>5. pending = FALSE /\ ok' = TRUE
    BY <1>1, <1>2, <1>4 DEF WalkerTypes
<1>6. WalkerTypes'
    BY <1>1, <1>2, <1>5 DEF WalkerTypes, walker
<1>7. Returned(T[Len(T)])'
    BY <1>1, <1>4, <1>5 DEF Returned
<1>8. Decoding(T)'
    BY <1>1, <1>7 DEF Decoding
<1> QED
    BY <1>1, <1>2, <1>3, <1>6, <1>8, DecodingGoesOn

\* The encoder leaves both readers alone.
LEMMA PutGoes ==
    ASSUME WalkerInv, NEW b, Put(b)
    PROVE  WalkerInv'
<1>1. /\ stage = "encode" /\ UNCHANGED <<stage, foreign>>
      /\ UNCHANGED <<phase, ok, p, bit, pending, next, out>>
      /\ UNCHANGED <<cursor, buf, cut, fused, yielded, errors>>
    BY DEF Put, decoder, walker
<1> QED
    BY <1>1 DEF WalkerInv, DecoderAnew, WalkerAnew

\* Readers that have not begun are at the first stop.
LEMMA AnewIsStop ==
    ASSUME DecoderAnew, count \in Nat
    PROVE  <<FirstStop>> \in Trails(form, payload, count, out) /\ Decoding(<<FirstStop>>)
<1>1. <<FirstStop>> \in Trails(form, payload, count, out)
    BY TrailStarts
<1>2. Len(<<FirstStop>>) = 1 /\ <<FirstStop>>[1] = FirstStop
    OBVIOUS
<1>3. /\ phase = "group" /\ p = 1 /\ pending = FALSE /\ next = 1 /\ out = <<>>
    BY DEF DecoderAnew
<1>4. Len(out) = 0 /\ next = Len(out) + 1
    BY <1>3
<1>5. AtStop(FirstStop)
    BY <1>3, <1>4 DEF AtStop, FirstStop
<1> QED
    BY <1>1, <1>2, <1>3, <1>5 DEF Decoding

\* The payload is there, and the decoder begins.
LEMMA CloseGoes ==
    ASSUME WalkerInv, PayloadInv, PayloadInv', Close
    PROVE  WalkerInv'
<1>1. /\ stage = "encode" /\ stage' = "decode" /\ UNCHANGED <<form, foreign>>
      /\ UNCHANGED <<phase, ok, p, bit, pending, next, out>>
      /\ UNCHANGED <<cursor, buf, cut, fused, yielded, errors>>
      /\ count' = Len(meant) /\ UNCHANGED <<meant, bits, group>>
    BY DEF Close, encoder, decoder, walker
<1>2. ~foreign /\ DecoderAnew /\ WalkerAnew /\ ~ok /\ ok \in BOOLEAN
    BY <1>1 DEF WalkerInv
<1>3. form \in Forms /\ Len(meant) \in Nat
  <2>1. form \in Forms /\ meant \in Seq(Block)
      BY <1>2 DEF PayloadInv, MeantOK
  <2> QED
      BY <2>1
<1>4. payload' \in Seq(Word) /\ count' \in Nat
  <2>1. ~foreign' /\ stage' # "encode"
      BY <1>1, <1>2
  <2>2. payload' \in Seq(Word)
      BY <2>1 DEF PayloadInv, Written
  <2> QED
      BY <1>1, <1>3, <2>2
<1>5. Len(<<FirstStop>>) = 1 /\ <<FirstStop>>[1] = FirstStop
    OBVIOUS
<1>6. /\ phase = "group" /\ p = 1 /\ pending = FALSE /\ next = 1 /\ bit = 1 /\ out = <<>>
      /\ cursor = 1 /\ buf = <<>> /\ cut = FALSE /\ fused = FALSE
      /\ yielded = <<>> /\ errors = 0
    BY <1>2 DEF DecoderAnew, WalkerAnew
<1>7. Len(out') = 0 /\ next' = Len(out') + 1 /\ out' \in Seq(WholeBlock)
    BY <1>1, <1>6
<1>8. Decoding(<<FirstStop>>)'
  <2>1. AtStop(FirstStop)'
      BY <1>1, <1>6, <1>7 DEF AtStop, FirstStop
  <2> QED
      BY <1>1, <1>5, <1>6, <2>1 DEF Decoding
<1>9. <<FirstStop>> \in Trails(form', payload', count', out')
    BY TrailStarts
<1>10. WalkerTypes'
  <2>1. yielded' \in Seq(WholeBlock) /\ buf' \in Seq(WholeBlock)
      BY <1>1, <1>6
  <2>2. Len(out') <= count'
      BY <1>4, <1>7
  <2>3. /\ p' \in Nat \ {0} /\ bit' \in Nat \ {0} /\ next' \in Nat \ {0}
        /\ cursor' \in Nat \ {0}
      BY <1>1, <1>6
  <2>4. pending' \in BOOLEAN /\ ok' \in BOOLEAN /\ cut' \in BOOLEAN /\ fused' \in BOOLEAN
      BY <1>1, <1>2, <1>6
  <2>5. form' \in Forms /\ stage' \in {"encode", "decode", "walk"}
      BY <1>1, <1>3
  <2> QED
      BY <1>4, <1>7, <2>1, <2>2, <2>3, <2>4, <2>5 DEF WalkerTypes
<1>11. WalkerAnew' /\ ~ok' /\ ok' \in BOOLEAN
    BY <1>1, <1>2, <1>6 DEF WalkerAnew
<1> QED
    BY <1>1, <1>2, <1>6, <1>8, <1>9, <1>10, <1>11 DEF WalkerInv

\* The readers have not begun.
LEMMA WalkerStarts ==
    ASSUME Init
    PROVE  WalkerInv
<1>1. /\ form \in Forms /\ DecoderAnew /\ WalkerAnew /\ ok = FALSE
    BY DEF Init, DecoderAnew, WalkerAnew
<1>2. CASE stage = "encode" /\ foreign = FALSE
    BY <1>1, <1>2 DEF WalkerInv
<1>3. CASE stage = "decode" /\ foreign = TRUE /\ payload \in Foreign /\ count \in 0 .. MaxBlocks
  <2>1. payload \in Seq(Word) /\ count \in Nat
      BY <1>3, VectorAssumption
  <2>2. <<FirstStop>> \in Trails(form, payload, count, out) /\ Decoding(<<FirstStop>>)
      BY <1>1, <2>1, AnewIsStop
  <2>3. WalkerTypes
    <3>0. /\ p = 1 /\ pending = FALSE /\ next = 1 /\ bit = 1 /\ out = <<>>
          /\ cursor = 1 /\ buf = <<>> /\ cut = FALSE /\ fused = FALSE /\ yielded = <<>>
        BY <1>1 DEF DecoderAnew, WalkerAnew
    <3>1. out \in Seq(WholeBlock) /\ yielded \in Seq(WholeBlock) /\ buf \in Seq(WholeBlock)
        BY <3>0
    <3>2. Len(out) <= count
        BY <2>1, <3>0
    <3>3. p \in Nat \ {0} /\ bit \in Nat \ {0} /\ next \in Nat \ {0} /\ cursor \in Nat \ {0}
        BY <3>0
    <3>4. pending \in BOOLEAN /\ ok \in BOOLEAN /\ cut \in BOOLEAN /\ fused \in BOOLEAN
        BY <1>1, <3>0
    <3> QED
        BY <1>1, <1>3, <2>1, <3>1, <3>2, <3>3, <3>4 DEF WalkerTypes
  <2> QED
      BY <1>1, <1>3, <2>2, <2>3 DEF WalkerInv, DecoderAnew
<1> QED
    BY <1>2, <1>3 DEF Init

-----------------------------------------------------------------------------
\* Prefixes.

\* A prefix goes on with what comes next.
LEMMA PrefixGrows ==
    ASSUME NEW S, NEW s \in Seq(S), NEW t \in Seq(S), NEW o \in Seq(S),
           IsPrefixOf(s, o), HoldsBlocks(o, Len(s), Len(t), t)
    PROVE  IsPrefixOf(s \o t, o)
<1>1. PICK n \in Nat, l \in Nat, z \in Nat : n = Len(s) /\ l = Len(t) /\ z = Len(o)
    OBVIOUS
<1>2. n <= z /\ s = SubSeq(o, 1, n) /\ n + l <= z /\ \A j \in 1 .. l : o[n + j] = t[j]
    BY <1>1 DEF IsPrefixOf, HoldsBlocks
<1>3. PICK u, v : u = s \o t /\ v = SubSeq(o, 1, n + l)
    OBVIOUS
<1>4. u \in Seq(S) /\ Len(u) = n + l /\ v \in Seq(S) /\ Len(v) = n + l
    BY <1>1, <1>2, <1>3
<1>5. ASSUME NEW j \in 1 .. n + l PROVE u[j] = v[j]
  <2>1. v[j] = o[j]
      BY <1>1, <1>2, <1>3
  <2>2. CASE j <= n
    <3>1. u[j] = s[j]
        BY <1>1, <1>3, <2>2
    <3>2. SubSeq(o, 1, n)[j] = o[j]
        BY <1>1, <1>2, <2>2
    <3> QED
        BY <1>2, <2>1, <3>1, <3>2
  <2>3. CASE j > n
    <3>1. PICK i \in 1 .. l : j = n + i
      <4>1. j - n \in 1 .. l /\ j = n + (j - n)
          BY <2>3
      <4> QED
          BY <4>1
    <3>2. u[j] = t[i]
        BY <1>1, <1>3, <3>1
    <3> QED
        BY <1>2, <2>1, <3>1, <3>2
  <2> QED
      BY <2>2, <2>3
<1>6. u = v
    BY <1>4, <1>5, SeqEqual
<1> QED
    BY <1>1, <1>2, <1>3, <1>4, <1>6 DEF IsPrefixOf

\* A part of a prefix is one.
LEMMA PrefixPart ==
    ASSUME NEW S, NEW s \in Seq(S), NEW t \in Seq(S), NEW o \in Seq(S),
           IsPrefixOf(s \o t, o)
    PROVE  IsPrefixOf(s, o) /\ Len(s) + Len(t) <= Len(o) /\ Len(s \o t) = Len(s) + Len(t)
<1>1. PICK n \in Nat, l \in Nat, z \in Nat : n = Len(s) /\ l = Len(t) /\ z = Len(o)
    OBVIOUS
<1>2. PICK u : u = s \o t
    OBVIOUS
<1>3. u \in Seq(S) /\ Len(u) = n + l /\ \A j \in 1 .. n : u[j] = s[j]
    BY <1>1, <1>2
<1>4. n + l <= z /\ u = SubSeq(o, 1, n + l)
    BY <1>1, <1>2, <1>3 DEF IsPrefixOf
<1>5. PICK v : v = SubSeq(o, 1, n)
    OBVIOUS
<1>6. v \in Seq(S) /\ Len(v) = n
    BY <1>1, <1>4, <1>5
<1>7. ASSUME NEW j \in 1 .. n PROVE s[j] = v[j]
  <2>1. v[j] = o[j]
      BY <1>1, <1>4, <1>5
  <2>2. SubSeq(o, 1, n + l)[j] = o[j]
      BY <1>1, <1>4
  <2> QED
      BY <1>3, <1>4, <2>1, <2>2
<1>8. s = v
    BY <1>1, <1>6, <1>7, SeqEqual
<1> QED
    BY <1>1, <1>2, <1>3, <1>4, <1>5, <1>8 DEF IsPrefixOf

\* To hand out the first of some blocks moves it over.
LEMMA HandOut ==
    ASSUME NEW S, NEW s \in Seq(S), NEW t \in Seq(S), t # <<>>
    PROVE  /\ Append(s, Head(t)) \in Seq(S) /\ Tail(t) \in Seq(S)
           /\ Append(s, Head(t)) \o Tail(t) = s \o t
<1>1. PICK n \in Nat, l \in Nat : n = Len(s) /\ l = Len(t) /\ l # 0
    OBVIOUS
<1>2. /\ Head(t) = t[1] /\ t[1] \in S /\ Tail(t) \in Seq(S) /\ Len(Tail(t)) = l - 1
      /\ \A j \in 1 .. l - 1 : Tail(t)[j] = t[j + 1]
    BY <1>1
<1>3. PICK h, r : h = Append(s, Head(t)) /\ r = Tail(t)
    OBVIOUS
<1>4. /\ h \in Seq(S) /\ Len(h) = n + 1 /\ h[n + 1] = t[1]
      /\ \A j \in 1 .. n : h[j] = s[j]
    BY <1>1, <1>2, <1>3
<1>5. PICK u, v : u = h \o r /\ v = s \o t
    OBVIOUS
<1>6. u \in Seq(S) /\ v \in Seq(S) /\ Len(u) = n + l /\ Len(v) = n + l
    BY <1>1, <1>2, <1>3, <1>4, <1>5
<1>7. ASSUME NEW j \in 1 .. n + l PROVE u[j] = v[j]
  <2>1. CASE j <= n
      BY <1>1, <1>2, <1>3, <1>4, <1>5, <2>1
  <2>2. CASE j = n + 1
    <3>1. u[j] = h[n + 1]
        BY <1>2, <1>3, <1>4, <1>5, <2>2
    <3>2. v[j] = t[1]
        BY <1>1, <1>5, <2>2
    <3> QED
        BY <1>4, <3>1, <3>2
  <2>3. CASE j > n + 1
    <3>1. PICK i \in 1 .. l - 1 : j = n + 1 + i
      <4>1. j - n - 1 \in 1 .. l - 1 /\ j = n + 1 + (j - n - 1)
          BY <2>3
      <4> QED
          BY <4>1
    <3>2. u[j] = r[i]
        BY <1>2, <1>3, <1>4, <1>5, <3>1
    <3>3. v[j] = t[i + 1]
      <4>1. j = n + (i + 1) /\ i + 1 \in 1 .. l
          BY <3>1
      <4> QED
          BY <1>1, <1>5, <4>1
    <3> QED
        BY <1>2, <1>3, <3>2, <3>3
  <2> QED
      BY <2>1, <2>2, <2>3
<1>8. u = v
    BY <1>6, <1>7, SeqEqual
<1> QED
    BY <1>2, <1>3, <1>4, <1>5, <1>8

-----------------------------------------------------------------------------
\* The walkers.

\* The first i blocks have their indices, and the payload ends inside those of
\* the next.
Fits(q, blocks, pay, i) ==
    /\ Ends(q, blocks)[i] <= Len(pay) + 1
    /\ i < Len(blocks) => Ends(q, blocks)[i + 1] > Len(pay) + 1

\* There is one such number.
LEMMA FitsOnce ==
    ASSUME NEW q \in Nat, NEW blocks \in Seq(Blanks), NEW pay \in Seq(Word),
           NEW i \in 0 .. Len(blocks), NEW j \in 0 .. Len(blocks),
           Fits(q, blocks, pay, i), Fits(q, blocks, pay, j)
    PROVE  i = j
<1>0. PICK n \in Nat, L \in Nat : n = Len(blocks) /\ L = Len(pay) + 1
    OBVIOUS
<1>1. PICK E : n = Len(blocks) /\ L = Len(pay) + 1 /\ E = Ends(q, blocks)
    BY <1>0
<1>2. EndsGoOn(q, blocks)
    BY EndsStep
<1>3. \A k \in 0 .. n : E[k] \in Nat
    BY <1>1, <1>2 DEF EndsGoOn
<1>4. ASSUME NEW k \in 0 .. n, NEW l \in 0 .. n, k < l, E[l] <= L, k < n => E[k + 1] > L
      PROVE  FALSE
  <2>1. k + 1 \in 0 .. n /\ k + 1 <= l /\ k < n
      BY <1>4
  <2>2. E[k + 1] <= E[l]
      BY <1>1, <2>1, EndsRise
  <2>3. E[k + 1] \in Nat /\ E[l] \in Nat /\ E[k + 1] > L
      BY <1>3, <1>4, <2>1
  <2> QED
      BY <1>4, <2>2, <2>3
<1>5. /\ E[i] <= L /\ (i < n => E[i + 1] > L)
      /\ E[j] <= L /\ (j < n => E[j + 1] > L)
    BY <1>1 DEF Fits
<1>6. i \in 0 .. n /\ j \in 0 .. n
    BY <1>1
<1>7. ~(i < j)
    BY <1>4, <1>5, <1>6
<1>8. ~(j < i)
    BY <1>4, <1>5, <1>6
<1> QED
    BY <1>6, <1>7, <1>8

\* What the invariant says while the walker runs.
LEMMA WalkingFacts ==
    ASSUME WalkerInv, stage = "walk"
    PROVE  /\ WalkerTypes /\ phase = "done"
           /\ \E T \in Trails(form, payload, count, out) :
                 /\ Decoding(T) /\ Returned(T[Len(T)]) /\ Walking(T) /\ Len(T) \in Nat \ {0}
                 /\ \A k \in 1 .. Len(T) : T[k] \in Stops
<1>1. WalkerTypes /\ phase = "done"
    BY DEF WalkerInv
<1>2. PICK T \in Trails(form, payload, count, out) : Decoding(T) /\ Walking(T)
    BY DEF WalkerInv
<1>3. T \in Seq(Stops) /\ T # <<>>
    BY DEF Trails
<1>4. Returned(T[Len(T)])
    BY <1>1, <1>2 DEF Decoding
<1>5. Len(T) \in Nat \ {0} /\ \A k \in 1 .. Len(T) : T[k] \in Stops
    BY <1>3
<1> QED
    BY <1>1, <1>2, <1>4, <1>5

\* A call of the walker keeps the invariant if it leads to where the trail is.
LEMMA WalkingGoesOn ==
    ASSUME WalkerInv, stage = "walk", UNCHANGED <<stage, encoder, chunk, decoder>>,
           cursor' \in Nat \ {0}, cut' \in BOOLEAN, fused' \in BOOLEAN,
           yielded' \in Seq(WholeBlock), buf' \in Seq(WholeBlock),
           NEW T \in Trails(form, payload, count, out), Returned(T[Len(T)]), Walking(T)'
    PROVE  WalkerInv'
<1>1. UNCHANGED <<stage, form, foreign, payload, count, phase, ok, p, flag, bit,
                  pending, next, out>>
    BY DEF chunk, decoder
<1>2. WalkerTypes /\ phase = "done" /\ ok \in BOOLEAN
    BY DEF WalkerInv
<1>3. WalkerTypes'
    BY <1>1, <1>2 DEF WalkerTypes
<1>4. Returned(T[Len(T)])'
    BY <1>1 DEF Returned
<1>5. Decoding(T)'
    BY <1>1, <1>2, <1>4 DEF Decoding
<1>6. T \in Trails(form', payload', count', out')
    BY <1>1
<1> QED
    BY <1>1, <1>2, <1>3, <1>5, <1>6 DEF WalkerInv

\* How far the decoder came in the group after the k-th stop: m blocks of it
\* are complete, and it went on to the next stop if that is all of them.
CameTo(T, k, m) ==
    LET a == T[k]
        g == GroupIn(form, payload, count, a)
    IN  /\ m \in 0 .. Len(g.blocks)
        /\ HoldsBlocks(out, a.n, m, Filled(payload, a.ptr, g.blocks))
        /\ Fits(a.ptr, g.blocks, payload, m)
        /\ m < Len(g.blocks) => ~ok /\ p = Ends(a.ptr, g.blocks)[m]
        /\ m = Len(g.blocks) =>
             /\ k + 1 \in 1 .. Len(T)
             /\ T[k + 1] = [ptr |-> Ends(a.ptr, g.blocks)[m], n |-> a.n + m, cut |-> g.cut]

\* In the group after a stop the decoder came to some block, or beyond it.
LEMMA DecoderCame ==
    ASSUME WalkerTypes, NEW T \in Trails(form, payload, count, out), Returned(T[Len(T)]),
           NEW k \in 1 .. Len(T), T[k] \in Stops, Len(T) \in Nat, Opens(payload, count, T[k])
    PROVE  \E m \in Nat : CameTo(T, k, m)
<1>1. PICK a \in Stops : a = T[k]
    OBVIOUS
<1>2. PICK g : g = GroupIn(form, payload, count, a)
    OBVIOUS
<1>3. /\ payload \in Seq(Word) /\ count \in Nat /\ Len(payload) \in Nat /\ p \in Nat
      /\ a.n \in Nat /\ a.ptr \in Nat /\ a.n < count /\ a.ptr <= Len(payload)
    BY <1>1 DEF WalkerTypes, Stops, Opens
<1>4. g.blocks \in Seq(Blanks) /\ Len(g.blocks) \in Nat
    BY <1>2, <1>3, GroupFacts
<1>5. CASE k < Len(T)
  <2>1. PICK b : b = T[k + 1]
      OBVIOUS
  <2>2. Follows(form, payload, count, out, a, b)
    <3>1. k \in 1 .. Len(T) - 1
        BY <1>5
    <3> QED
        BY <1>1, <2>1, <3>1 DEF Trails
  <2>3. /\ b = [ptr |-> Ends(a.ptr, g.blocks)[Len(g.blocks)], n |-> a.n + Len(g.blocks),
                cut |-> g.cut]
        /\ b.ptr <= Len(payload) + 1
        /\ HoldsBlocks(out, a.n, Len(g.blocks), Filled(payload, a.ptr, g.blocks))
      BY <1>2, <2>2 DEF Follows
  <2>4. PICK m \in Nat : m = Len(g.blocks)
      BY <1>4
  <2>5. k + 1 \in 1 .. Len(T) /\ m \in 0 .. Len(g.blocks) /\ ~(m < Len(g.blocks))
      BY <1>5, <2>4
  <2>6. Fits(a.ptr, g.blocks, payload, m)
      BY <2>3, <2>4, <2>5 DEF Fits
  <2>7. CameTo(T, k, m)
      BY <1>1, <1>2, <2>1, <2>3, <2>4, <2>5, <2>6 DEF CameTo
  <2> QED
      BY <2>7
<1>6. CASE k = Len(T)
  <2>1. ~(ok /\ a = [ptr |-> p, n |-> count, cut |-> FALSE])
      BY <1>3
  <2>2. ~(a.ptr = p /\ p > Len(payload))
      BY <1>3
  <2>3. PICK m \in 0 .. Len(g.blocks) :
            /\ ~ok /\ Short(payload, count, a, g.blocks, m)
            /\ p = Ends(a.ptr, g.blocks)[m]
            /\ HoldsBlocks(out, a.n, m, Filled(payload, a.ptr, g.blocks))
      BY <1>1, <1>2, <1>6, <2>1, <2>2 DEF Returned
  <2>4. m \in Nat /\ m < Len(g.blocks) /\ Fits(a.ptr, g.blocks, payload, m) /\ m # Len(g.blocks)
      BY <1>4, <2>3 DEF Short, Fits
  <2>5. CameTo(T, k, m)
      BY <1>1, <1>2, <2>3, <2>4 DEF CameTo
  <2> QED
      BY <2>4, <2>5
<1> QED
    BY <1>5, <1>6

\* Where a walker stands between two groups.
LEMMA AtBoundary ==
    ASSUME WalkerTypes, buf = <<>>, ~fused, NEW T, Walking(T),
           \A k \in 1 .. Len(T) : T[k] \in Stops
    PROVE  \E k \in 1 .. Len(T) : /\ cursor = T[k].ptr /\ cut = T[k].cut /\ Len(yielded) = T[k].n
<1>1. Len(yielded \o buf) = Len(yielded)
    BY DEF WalkerTypes
<1>2. PICK k \in 1 .. Len(T) :
          \/ OnStop(T[k])
          \/ \E m \in Nat \ {0} : InBlocks(T[k], m)
    BY DEF Walking
<1>3. ASSUME NEW m \in Nat \ {0}, InBlocks(T[k], m)
      PROVE  FALSE
  <2>1. PICK g : g = GroupIn(form, payload, count, T[k]).blocks
      OBVIOUS
  <2>2. m < Len(g) /\ SubSeq(g, m + 1, Len(g)) = <<>>
      BY <1>3, <2>1 DEF InBlocks
  <2>3. g \in Seq(Blanks)
    <3>1. T[k].n < count /\ count \in Nat /\ T[k] \in Stops
        BY <1>3 DEF InBlocks, Opens, WalkerTypes
    <3> QED
        BY <2>1, <3>1, GroupFacts
  <2>4. PICK l \in Nat : l = Len(g)
      BY <2>3
  <2>5. Len(SubSeq(g, m + 1, l)) = l - m /\ l - m # 0
      BY <2>2, <2>3, <2>4
  <2> QED
      BY <2>2, <2>4, <2>5
<1> QED
    BY <1>1, <1>2, <1>3 DEF OnStop

\* The payload is at its end before a word: the decoder failed there, too.
LEMMA NoWordGoes ==
    ASSUME WalkerInv, NoWord
    PROVE  WalkerInv'
<1>1. /\ stage = "walk" /\ ~fused /\ Len(yielded) < count
      /\ buf = <<>> /\ cursor > Len(payload)
      /\ fused' = TRUE /\ errors' = errors + 1
      /\ UNCHANGED <<stage, encoder, chunk, decoder>> /\ UNCHANGED <<cursor, buf, cut, yielded>>
      /\ UNCHANGED <<form, payload, count, ok, p, out>>
    BY DEF NoWord, WalkOn, Error, chunk, decoder
<1>2. WalkerTypes
    BY <1>1, WalkingFacts
<1>3. PICK T \in Trails(form, payload, count, out) :
          /\ Decoding(T) /\ Returned(T[Len(T)]) /\ Walking(T) /\ Len(T) \in Nat \ {0}
          /\ \A k \in 1 .. Len(T) : T[k] \in Stops
    BY <1>1, WalkingFacts
<1>4. PICK k \in 1 .. Len(T) : cursor = T[k].ptr /\ Len(yielded) = T[k].n
    BY <1>1, <1>2, <1>3, AtBoundary
<1>5. Len(payload) \in Nat /\ cursor \in Nat /\ count \in Nat /\ Len(yielded) \in Nat
    BY <1>2 DEF WalkerTypes
<1>6. ~Opens(payload, count, T[k])
    BY <1>1, <1>4, <1>5 DEF Opens
<1>7. k = Len(T)
  <2>1. CASE k < Len(T)
    <3>1. k \in 1 .. Len(T) - 1
        BY <1>3, <2>1
    <3> QED
        BY <1>6, <3>1 DEF Trails, Follows
  <2> QED
      BY <1>3, <2>1
<1>8. ~ok /\ cursor = p
    BY <1>1, <1>3, <1>4, <1>5, <1>6, <1>7 DEF Returned, Short
<1>9. errors = 0 /\ (form = "MixedIntra" => ~cut)
      /\ IsPrefixOf(yielded \o (IF form = "Inter" THEN buf ELSE <<>>), out)
    BY <1>1, <1>3 DEF Walking
<1>10. Walking(T)'
    BY <1>1, <1>8, <1>9 DEF Walking
<1> QED
    BY <1>1, <1>2, <1>3, <1>10, WalkingGoesOn DEF WalkerTypes

\* The blocks of a group one call after the other, to a frame with inter blocks.
LEMMA NextBufferedGoes ==
    ASSUME WalkerInv, NextBuffered
    PROVE  WalkerInv'
<1>1. /\ stage = "walk" /\ ~fused /\ form = "Inter" /\ buf # <<>>
      /\ yielded' = Append(yielded, Head(buf)) /\ buf' = Tail(buf)
      /\ UNCHANGED <<stage, encoder, chunk, decoder>> /\ UNCHANGED <<cursor, cut, fused, errors>>
      /\ UNCHANGED <<form, payload, count, ok, p, out>>
    BY DEF NextBuffered, WalkOn, chunk, decoder
<1>2. WalkerTypes
    BY <1>1, WalkingFacts
<1>3. PICK T \in Trails(form, payload, count, out) :
          /\ Decoding(T) /\ Returned(T[Len(T)]) /\ Walking(T) /\ Len(T) \in Nat \ {0}
          /\ \A k \in 1 .. Len(T) : T[k] \in Stops
    BY <1>1, WalkingFacts
<1>4. /\ yielded' \in Seq(WholeBlock) /\ buf' \in Seq(WholeBlock)
      /\ yielded' \o buf' = yielded \o buf
    BY <1>1, <1>2, HandOut DEF WalkerTypes
<1>5. IsPrefixOf(yielded \o buf, out)
    BY <1>1, <1>3 DEF Walking
<1>6. errors = 0 /\ \E k \in 1 .. Len(T) : OnStop(T[k])
    BY <1>1, <1>3 DEF Walking
<1>7. \E k \in 1 .. Len(T) : OnStop(T[k])'
    BY <1>1, <1>4, <1>6 DEF OnStop
<1>8. Walking(T)'
    BY <1>1, <1>4, <1>5, <1>6, <1>7 DEF Walking
<1> QED
    BY <1>1, <1>2, <1>3, <1>4, <1>8, WalkingGoesOn DEF WalkerTypes

\* A group at once, or nothing of it.
LEMMA NextInterGoes ==
    ASSUME WalkerInv, NextInter
    PROVE  WalkerInv'
<1> DEFINE blanks == Group.blocks
           ends == Ends(cursor, blanks)
           blocks == [i \in 1 .. Len(blanks) |->
                         [blanks[i] EXCEPT !.idx = SubSeq(payload, ends[i - 1], ends[i] - 1)]]
           read == CHOOSE i \in 0 .. Len(blanks) :
                         /\ ends[i] <= Len(payload) + 1
                         /\ i < Len(blanks) => ends[i + 1] > Len(payload) + 1
<1>1. /\ stage = "walk" /\ ~fused /\ Len(yielded) < count /\ form = "Inter"
      /\ buf = <<>> /\ cursor <= Len(payload)
      /\ cursor' = ends[read] /\ cut' = Group.cut
      /\ IF read = Len(blanks)
         THEN /\ yielded' = Append(yielded, Head(blocks)) /\ buf' = Tail(blocks)
              /\ UNCHANGED <<fused, errors>>
         ELSE fused' = TRUE /\ errors' = errors + 1 /\ UNCHANGED <<yielded, buf>>
      /\ UNCHANGED <<stage, encoder, chunk, decoder>>
      /\ UNCHANGED <<form, payload, count, ok, p, out>>
    BY DEF NextInter, WalkOn, Error, chunk, decoder
<1>2. WalkerTypes
    BY <1>1, WalkingFacts
<1>3. PICK T \in Trails(form, payload, count, out) :
          /\ Decoding(T) /\ Returned(T[Len(T)]) /\ Walking(T) /\ Len(T) \in Nat \ {0}
          /\ \A k \in 1 .. Len(T) : T[k] \in Stops
    BY <1>1, WalkingFacts
<1>4. PICK k \in 1 .. Len(T) :
          cursor = T[k].ptr /\ cut = T[k].cut /\ Len(yielded) = T[k].n
    BY <1>1, <1>2, <1>3, AtBoundary
<1>5. PICK a \in Stops : a = T[k] /\ a = [ptr |-> cursor, n |-> Len(yielded), cut |-> cut]
    BY <1>3, <1>4 DEF Stops
<1>6. PICK g : g = GroupIn(form, payload, count, a)
    OBVIOUS
<1>7. Group = g
    BY <1>5, <1>6, WalkerGroup
<1>8. /\ Len(payload) \in Nat /\ payload \in Seq(Word) /\ cursor \in Nat /\ count \in Nat
      /\ Len(yielded) \in Nat /\ yielded \in Seq(WholeBlock) /\ out \in Seq(WholeBlock)
    BY <1>2 DEF WalkerTypes
<1>9. a.ptr = cursor /\ a.n = Len(yielded) /\ a.cut = cut
    BY <1>5
<1>10. Opens(payload, count, a)
    BY <1>1, <1>9 DEF Opens
<1>11. /\ g.blocks \in Seq(Blanks) /\ g.cut \in BOOLEAN /\ Len(g.blocks) \in Nat
       /\ Len(g.blocks) # 0
  <2>1. a.n < count
      BY <1>10 DEF Opens
  <2> QED
      BY <1>6, <1>8, <2>1, GroupFacts
<1>12. PICK m \in Nat : CameTo(T, k, m)
    BY <1>2, <1>3, <1>5, <1>10, DecoderCame
<1>13. /\ m \in 0 .. Len(g.blocks)
       /\ HoldsBlocks(out, a.n, m, Filled(payload, a.ptr, g.blocks))
       /\ Fits(a.ptr, g.blocks, payload, m)
       /\ m < Len(g.blocks) => ~ok /\ p = Ends(a.ptr, g.blocks)[m]
       /\ m = Len(g.blocks) =>
            /\ k + 1 \in 1 .. Len(T)
            /\ T[k + 1] = [ptr |-> Ends(a.ptr, g.blocks)[m], n |-> a.n + m, cut |-> g.cut]
    BY <1>5, <1>6, <1>12 DEF CameTo
<1>14. /\ blanks = g.blocks /\ ends = Ends(a.ptr, g.blocks)
       /\ blocks = Filled(payload, a.ptr, g.blocks)
    BY <1>7, <1>9 DEF Filled
<1>15. read = m
  <2>1. read = CHOOSE i \in 0 .. Len(g.blocks) : Fits(a.ptr, g.blocks, payload, i)
      BY <1>14 DEF Fits
  <2>2. PICK i : i = CHOOSE j \in 0 .. Len(g.blocks) : Fits(a.ptr, g.blocks, payload, j)
      OBVIOUS
  <2>3. i \in 0 .. Len(g.blocks) /\ Fits(a.ptr, g.blocks, payload, i)
      BY <1>13, <2>2, Zenon
  <2>4. i = m
      BY <1>8, <1>9, <1>11, <1>13, <2>3, FitsOnce
  <2> QED
      BY <2>1, <2>2, <2>4
<1>16. PICK B, E : B = Filled(payload, a.ptr, g.blocks) /\ E = Ends(a.ptr, g.blocks)
    OBVIOUS
<1>17. /\ cursor' = E[m] /\ cut' = g.cut
       /\ IF m = Len(g.blocks)
          THEN /\ yielded' = Append(yielded, Head(B)) /\ buf' = Tail(B)
               /\ UNCHANGED <<fused, errors>>
          ELSE fused' = TRUE /\ errors' = errors + 1 /\ UNCHANGED <<yielded, buf>>
  <2>1. blanks = g.blocks /\ ends = E /\ blocks = B
      BY <1>14, <1>16
  <2>2. Group.cut = g.cut
      BY <1>7
  <2> HIDE DEF blanks, ends, blocks, read
  <2> QED
      BY <1>1, <1>15, <2>1, <2>2
<1> HIDE DEF blanks, ends, blocks, read
<1>18. E[m] \in Nat \ {0}
  <2>1. EndsGoOn(a.ptr, g.blocks)
      BY <1>8, <1>9, <1>11, EndsStep
  <2> QED
      BY <1>13, <1>16, <2>1 DEF EndsGoOn
<1>19. errors = 0 /\ IsPrefixOf(yielded \o buf, out) /\ yielded \o buf = yielded
  <2>1. errors = 0 /\ IsPrefixOf(yielded \o buf, out)
      BY <1>1, <1>3 DEF Walking
  <2> QED
      BY <1>1, <1>8, <2>1
<1>20. CASE m = Len(g.blocks)
  <2>1. yielded' = Append(yielded, Head(B)) /\ buf' = Tail(B) /\ UNCHANGED <<fused, errors>>
      BY <1>17, <1>20
  <2>2. B \in Seq(WholeBlock) /\ Len(B) = m
    <3>1. \A j \in 1 .. m : B[j] \in WholeBlock
      <4> SUFFICES ASSUME NEW j \in 1 .. m PROVE B[j] \in WholeBlock
          OBVIOUS
      <4>1. Ends(a.ptr, g.blocks)[j] <= Len(payload) + 1
        <5>1. j \in 0 .. Len(g.blocks) /\ m \in 0 .. Len(g.blocks) /\ j <= m
            BY <1>13
        <5>2. Ends(a.ptr, g.blocks)[j] <= E[m]
            BY <1>8, <1>9, <1>11, <1>16, <5>1, EndsRise
        <5>3. Ends(a.ptr, g.blocks)[j] \in Nat
          <6>1. EndsGoOn(a.ptr, g.blocks)
              BY <1>8, <1>9, <1>11, EndsStep
          <6> QED
              BY <5>1, <6>1 DEF EndsGoOn
        <5>4. E[m] <= Len(payload) + 1
            BY <1>13, <1>16 DEF Fits
        <5> QED
            BY <1>8, <1>18, <5>2, <5>3, <5>4
      <4>2. j \in 1 .. Len(g.blocks)
          BY <1>20
      <4> QED
          BY <1>8, <1>9, <1>11, <1>16, <4>1, <4>2, FilledIs
    <3>2. B = [j \in 1 .. m |-> B[j]]
        BY <1>16, <1>20 DEF Filled
    <3> QED
        BY <3>1, <3>2
  <2>3. B # <<>>
      BY <1>11, <1>20, <2>2
  <2>4. /\ yielded' \in Seq(WholeBlock) /\ buf' \in Seq(WholeBlock)
        /\ yielded' \o buf' = yielded \o B
    <3>1. yielded \in Seq(WholeBlock) /\ B \in Seq(WholeBlock) /\ B # <<>>
        BY <1>8, <2>2, <2>3
    <3>2. /\ Append(yielded, Head(B)) \in Seq(WholeBlock) /\ Tail(B) \in Seq(WholeBlock)
          /\ Append(yielded, Head(B)) \o Tail(B) = yielded \o B
        BY <3>1, HandOut, Zenon
    <3> QED
        BY <2>1, <3>2
  <2>5. IsPrefixOf(yielded \o B, out)
    <3>1. IsPrefixOf(yielded, out) /\ HoldsBlocks(out, Len(yielded), Len(B), B)
        BY <1>9, <1>13, <1>16, <1>19, <2>2
    <3> QED
        BY <1>8, <2>2, <3>1, PrefixGrows
  <2>6. PICK b : b = T[k + 1]
      OBVIOUS
  <2>7. k + 1 \in 1 .. Len(T) /\ b = [ptr |-> E[m], n |-> a.n + m, cut |-> g.cut]
      BY <1>13, <1>16, <1>20, <2>6
  <2>8. OnStop(T[k + 1])'
    <3>1. Len(yielded \o B) = a.n + m
      <4>1. Len(yielded \o B) = Len(yielded) + Len(B)
        <5>1. yielded \in Seq(WholeBlock) /\ B \in Seq(WholeBlock)
            BY <1>8, <2>2
        <5> QED
            BY <5>1
      <4> QED
          BY <1>9, <2>2, <4>1
    <3>2. b.ptr = E[m] /\ b.n = a.n + m /\ b.cut = g.cut
        BY <2>7
    <3> QED
        BY <1>17, <2>4, <2>6, <3>1, <3>2 DEF OnStop
  <2>9. Walking(T)'
      BY <1>1, <1>19, <2>1, <2>4, <2>5, <2>7, <2>8 DEF Walking
  <2>10. cursor' \in Nat \ {0} /\ cut' \in BOOLEAN /\ fused' \in BOOLEAN
      BY <1>2, <1>11, <1>17, <1>18, <2>1 DEF WalkerTypes
  <2> QED
      BY <1>1, <1>3, <2>4, <2>9, <2>10, WalkingGoesOn
<1>21. CASE m # Len(g.blocks)
  <2>1. fused' = TRUE /\ errors' = errors + 1 /\ UNCHANGED <<yielded, buf>>
      BY <1>17, <1>21
  <2>2. m < Len(g.blocks)
      BY <1>11, <1>13, <1>21
  <2>3. ~ok /\ cursor' = p
      BY <1>13, <1>16, <1>17, <2>2
  <2>4. Walking(T)'
      BY <1>1, <1>19, <2>1, <2>3 DEF Walking
  <2>5. cursor' \in Nat \ {0} /\ cut' \in BOOLEAN
      BY <1>11, <1>17, <1>18
  <2> QED
      BY <1>1, <1>2, <1>3, <2>1, <2>4, <2>5, WalkingGoesOn DEF WalkerTypes
<1> QED
    BY <1>20, <1>21

\* What the walker of mixed intra blocks has to hand out: the group after stop a
\* from its m-th block on, whose indices are at q.
Remains(a, m, blanks, q) ==
    LET g == GroupIn(form, payload, count, a).blocks IN
    /\ Opens(payload, count, a)
    /\ m < Len(g) /\ Len(yielded) = a.n + m
    /\ blanks = SubSeq(g, m + 1, Len(g))
    /\ q = Ends(a.ptr, g)[m] /\ q <= Len(payload) + 1

\* The walker of mixed intra blocks stands before a block of some group.
LEMMA MixedStands ==
    ASSUME WalkerTypes, form = "MixedIntra", ~fused, Len(yielded) < count,
           buf = <<>> => cursor <= Len(payload),
           NEW T, Walking(T), \A k \in 1 .. Len(T) : T[k] \in Stops
    PROVE  \E k \in 1 .. Len(T) : \E m \in Nat :
             Remains(T[k], m, IF buf = <<>> THEN Group.blocks ELSE buf,
                     IF buf = <<>> THEN cursor + 1 ELSE cursor)
<1>1. /\ payload \in Seq(Word) /\ count \in Nat /\ Len(payload) \in Nat
      /\ Len(yielded) \in Nat /\ cursor \in Nat \ {0}
    BY DEF WalkerTypes
<1>2. CASE buf = <<>>
  <2>1. PICK k \in 1 .. Len(T) :
            cursor = T[k].ptr /\ cut = T[k].cut /\ Len(yielded) = T[k].n
      BY <1>2, AtBoundary
  <2>2. PICK a \in Stops : a = T[k] /\ a = [ptr |-> cursor, n |-> Len(yielded), cut |-> cut]
      BY <2>1 DEF Stops
  <2>3. a.ptr = cursor /\ a.n = Len(yielded)
      BY <2>2
  <2>4. PICK g : g = GroupIn(form, payload, count, a).blocks
      OBVIOUS
  <2>5. Group.blocks = g
      BY <2>2, <2>4, WalkerGroup
  <2>6. g \in Seq(Blanks) /\ Len(g) \in Nat \ {0}
    <3>1. a.n < count
        BY <2>3
    <3>2. g \in Seq(Blanks) /\ Len(g) \in 1 .. count - a.n
        BY <1>1, <2>4, <3>1, GroupFacts
    <3> QED
        BY <3>2
  <2>7. Ends(a.ptr, g)[0] = cursor + 1
    <3>1. EndsGoOn(a.ptr, g)
        BY <1>1, <2>3, <2>6, EndsStep
    <3> QED
        BY <2>3, <3>1 DEF EndsGoOn
  <2>8. g = SubSeq(g, 0 + 1, Len(g))
    <3>1. PICK h : h = SubSeq(g, 1, Len(g))
        OBVIOUS
    <3>2. h \in Seq(Blanks) /\ Len(h) = Len(g) /\ \A j \in 1 .. Len(g) : h[j] = g[j]
        BY <2>6, <3>1
    <3> QED
        BY <2>6, <3>1, <3>2, SeqEqual
  <2>9. Opens(payload, count, a) /\ cursor + 1 <= Len(payload) + 1
      BY <1>1, <1>2, <2>3 DEF Opens
  <2>10. Len(yielded) = a.n + 0 /\ 0 < Len(g)
      BY <1>1, <2>3, <2>6
  <2>11. Remains(a, 0, g, cursor + 1)
      BY <2>4, <2>7, <2>8, <2>9, <2>10 DEF Remains
  <2> QED
      BY <1>2, <2>2, <2>5, <2>11
<1>3. CASE buf # <<>>
  <2>1. PICK k \in 1 .. Len(T), m \in Nat : InBlocks(T[k], m)
      BY <1>3 DEF Walking
  <2>2. Remains(T[k], m, buf, cursor)
      BY <2>1 DEF InBlocks, Remains
  <2> QED
      BY <1>3, <2>2
<1> QED
    BY <1>2, <1>3

\* A block of a mixed intra frame, whose indices are read only now.
LEMMA NextMixedGoes ==
    ASSUME WalkerInv, NextMixed
    PROVE  WalkerInv'
<1> DEFINE bl == IF buf = <<>> THEN Group.blocks ELSE buf
           at == IF buf = <<>> THEN cursor + 1 ELSE cursor
<1>0. PICK blanks, q, end :
         blanks = bl /\ q = at /\ end = at + Cost(Head(bl).kind)
    OBVIOUS
<1>1. /\ stage = "walk" /\ ~fused /\ Len(yielded) < count /\ form = "MixedIntra"
      /\ buf = <<>> => cursor <= Len(payload)
      /\ buf' = Tail(blanks)
      /\ IF end <= Len(payload) + 1
         THEN /\ yielded' = Append(yielded, [Head(blanks) EXCEPT !.idx =
                                SubSeq(payload, q, end - 1)])
              /\ cursor' = end /\ UNCHANGED <<fused, errors>>
         ELSE fused' = TRUE /\ errors' = errors + 1 /\ cursor' = q /\ UNCHANGED yielded
      /\ UNCHANGED <<stage, encoder, chunk, decoder>> /\ UNCHANGED cut
      /\ UNCHANGED <<form, payload, count, ok, p, out>>
  <2>1. /\ stage = "walk" /\ ~fused /\ Len(yielded) < count /\ form = "MixedIntra"
        /\ buf = <<>> => cursor <= Len(payload)
        /\ buf' = Tail(bl)
        /\ IF at + Cost(Head(bl).kind) <= Len(payload) + 1
           THEN /\ yielded' = Append(yielded, [Head(bl) EXCEPT !.idx =
                                  SubSeq(payload, at, (at + Cost(Head(bl).kind)) - 1)])
                /\ cursor' = at + Cost(Head(bl).kind) /\ UNCHANGED <<fused, errors>>
           ELSE fused' = TRUE /\ errors' = errors + 1 /\ cursor' = at /\ UNCHANGED yielded
        /\ UNCHANGED <<stage, encoder, chunk, decoder>> /\ UNCHANGED cut
      BY Zenon DEF NextMixed, WalkOn, Error
  <2>2. UNCHANGED <<form, payload, count, ok, p, out>>
      BY <2>1 DEF chunk, decoder
  <2> HIDE DEF bl, at
  <2> QED
      BY <1>0, <2>1, <2>2
<1>2. WalkerTypes
    BY <1>1, WalkingFacts
<1>3. PICK T \in Trails(form, payload, count, out) :
          /\ Decoding(T) /\ Returned(T[Len(T)]) /\ Walking(T) /\ Len(T) \in Nat \ {0}
          /\ \A k \in 1 .. Len(T) : T[k] \in Stops
    BY <1>1, WalkingFacts
<1>4. PICK k \in 1 .. Len(T), m \in Nat : Remains(T[k], m, blanks, q)
  <2>1. \E k \in 1 .. Len(T) : \E m \in Nat :
             Remains(T[k], m, IF buf = <<>> THEN Group.blocks ELSE buf,
                     IF buf = <<>> THEN cursor + 1 ELSE cursor)
      BY <1>1, <1>2, <1>3, MixedStands
  <2> QED
      BY <1>0, <2>1 DEF bl, at
<1> HIDE DEF bl, at
<1>5. PICK a \in Stops : a = T[k]
    BY <1>3
<1>6. PICK grp, g : grp = GroupIn(form, payload, count, a) /\ g = grp.blocks
    OBVIOUS
<1>7. /\ Opens(payload, count, a) /\ m < Len(g) /\ Len(yielded) = a.n + m
      /\ blanks = SubSeq(g, m + 1, Len(g)) /\ q = Ends(a.ptr, g)[m] /\ q <= Len(payload) + 1
    BY <1>4, <1>5, <1>6 DEF Remains
<1>8. /\ Len(payload) \in Nat /\ payload \in Seq(Word) /\ count \in Nat /\ a.n \in Nat
      /\ a.ptr \in Nat \ {0} /\ a.n < count
      /\ Len(yielded) \in Nat /\ yielded \in Seq(WholeBlock) /\ out \in Seq(WholeBlock)
    BY <1>2, <1>7 DEF WalkerTypes, Stops, Opens
<1>9. g \in Seq(Blanks) /\ grp.cut = FALSE
  <2>1. grp.blocks \in Seq(Blanks) /\ grp.cut \in BOOLEAN /\ (form # "Inter" => ~grp.cut)
      BY <1>6, <1>8, GroupFacts
  <2> QED
      BY <1>1, <1>6, <2>1
<1>10. PICK l \in Nat : l = Len(g)
    BY <1>9
<1>11. PICK E : E = Ends(a.ptr, g)
    OBVIOUS
<1>12. /\ \A i \in 0 .. l : E[i] \in Nat \ {0}
       /\ \A i \in 1 .. l : E[i] = E[i - 1] + Cost(g[i].kind)
  <2>1. EndsGoOn(a.ptr, g)
      BY <1>8, <1>9, EndsStep
  <2> QED
      BY <1>10, <1>11, <2>1 DEF EndsGoOn
<1>13. /\ m + 1 \in 1 .. l /\ m \in 0 .. l /\ m + 1 \in 0 .. l
       /\ Head(blanks) = g[m + 1] /\ Tail(blanks) = SubSeq(g, m + 2, l)
       /\ Tail(blanks) \in Seq(Blanks)
  <2>1. m + 1 \in 1 .. l /\ m \in 0 .. l /\ m + 1 \in 0 .. l
      BY <1>7, <1>10
  <2>2. blanks \in Seq(Blanks) /\ Len(blanks) = l - m /\ Len(blanks) # 0
        /\ \A i \in 1 .. l - m : blanks[i] = g[m + i]
      BY <1>7, <1>9, <1>10, <2>1
  <2>3. Head(blanks) = g[m + 1]
      BY <2>1, <2>2
  <2>4. PICK t, s : t = Tail(blanks) /\ s = SubSeq(g, m + 2, l)
      OBVIOUS
  <2>5. t \in Seq(Blanks) /\ Len(t) = l - m - 1 /\ \A i \in 1 .. l - m - 1 : t[i] = g[m + 1 + i]
    <3>1. t \in Seq(Blanks) /\ Len(t) = l - m - 1
        BY <2>2, <2>4
    <3>2. ASSUME NEW i \in 1 .. l - m - 1
          PROVE  t[i] = g[m + 1 + i]
      <4>1. t[i] = blanks[i + 1]
          BY <2>2, <2>4
      <4>2. i + 1 \in 1 .. l - m /\ m + (i + 1) = m + 1 + i
          OBVIOUS
      <4> QED
          BY <2>2, <4>1, <4>2
    <3> QED
        BY <3>1, <3>2
  <2>6. s \in Seq(Blanks) /\ Len(s) = l - m - 1 /\ \A i \in 1 .. l - m - 1 : s[i] = g[m + 1 + i]
    <3>1. s \in Seq(Blanks) /\ Len(s) = l - m - 1
        BY <1>9, <1>10, <2>1, <2>4
    <3>2. ASSUME NEW i \in 1 .. l - m - 1
          PROVE  s[i] = g[m + 1 + i]
      <4>1. PICK n \in Nat : n = m + 2 /\ n <= l + 1
          BY <2>1
      <4>2. SubSeq(g, n, l)[i] = g[n + i - 1]
          BY <1>9, <1>10, <4>1
      <4>3. n + i - 1 = m + 1 + i
          BY <4>1
      <4> QED
          BY <2>4, <4>1, <4>2, <4>3
    <3> QED
        BY <3>1, <3>2
  <2>7. t = s
      BY <2>5, <2>6, SeqEqual
  <2> QED
      BY <2>1, <2>3, <2>4, <2>5, <2>7
<1>14. end = q + Cost(Head(blanks).kind)
    BY <1>0
<1>15. end = E[m + 1] /\ q = E[m] /\ end \in Nat \ {0} /\ q \in Nat \ {0}
  <2>1. E[m + 1] = E[(m + 1) - 1] + Cost(g[m + 1].kind) /\ (m + 1) - 1 = m
      BY <1>12, <1>13
  <2> QED
      BY <1>7, <1>11, <1>12, <1>13, <1>14, <2>1
<1>16. PICK B : B = Filled(payload, a.ptr, g)[m + 1]
    OBVIOUS
<1>17. /\ B = [Head(blanks) EXCEPT !.idx = SubSeq(payload, q, end - 1)]
       /\ end <= Len(payload) + 1 => B \in WholeBlock
  <2>1. PICK x : x = SubSeq(payload, q, end - 1)
      OBVIOUS
  <2>2. PICK kind : kind = g[m + 1].kind
      OBVIOUS
  <2>3. m + 1 \in 1 .. Len(g) /\ (m + 1) - 1 = m
      BY <1>10, <1>13
  <2>4. /\ B = [kind |-> kind, idx |-> SubSeq(payload, Ends(a.ptr, g)[(m + 1) - 1],
                                                      Ends(a.ptr, g)[m + 1] - 1)]
        /\ g[m + 1] = [kind |-> kind, idx |-> <<>>]
        /\ Ends(a.ptr, g)[m + 1] <= Len(payload) + 1 => B \in WholeBlock
    <3>1. PICK j \in 1 .. Len(g), t \in Nat : j = m + 1 /\ t = a.ptr
        BY <1>8, <2>3
    <3>2. /\ Filled(payload, t, g)[j] =
                [kind |-> g[j].kind, idx |-> SubSeq(payload, Ends(t, g)[j - 1], Ends(t, g)[j] - 1)]
          /\ g[j] = [kind |-> g[j].kind, idx |-> <<>>]
          /\ Ends(t, g)[j] <= Len(payload) + 1 => Filled(payload, t, g)[j] \in WholeBlock
        BY <1>8, <1>9, FilledIs
    <3> QED
        BY <1>16, <2>2, <3>1, <3>2, Zenon
  <2>5. B = [kind |-> kind, idx |-> x]
      BY <1>11, <1>15, <2>1, <2>3, <2>4
  <2>6. PICK h : h = Head(blanks) /\ h = [kind |-> kind, idx |-> <<>>]
      BY <1>13, <2>4
  <2>7. [h EXCEPT !.idx = x] = B
      BY <2>5, <2>6
  <2>8. end <= Len(payload) + 1 => B \in WholeBlock
      BY <1>11, <1>15, <2>4
  <2> QED
      BY <2>1, <2>6, <2>7, <2>8
<1>18. /\ IF end <= Len(payload) + 1
          THEN /\ yielded' = Append(yielded, B) /\ cursor' = end /\ UNCHANGED <<fused, errors>>
          ELSE fused' = TRUE /\ errors' = errors + 1 /\ cursor' = q /\ UNCHANGED yielded
  <2>1. PICK d : d = [Head(blanks) EXCEPT !.idx = SubSeq(payload, q, end - 1)]
      OBVIOUS
  <2>2. B = d
      BY <1>17, <2>1
  <2> QED
      BY <1>1, <2>1, <2>2
<1>19. PICK c \in Nat : CameTo(T, k, c)
    BY <1>2, <1>3, <1>5, <1>7, DecoderCame
<1>20. /\ c \in 0 .. l
       /\ HoldsBlocks(out, a.n, c, Filled(payload, a.ptr, g))
       /\ E[c] <= Len(payload) + 1 /\ (c < l => E[c + 1] > Len(payload) + 1)
       /\ c < l => ~ok /\ p = E[c]
       /\ c = l =>
            /\ k + 1 \in 1 .. Len(T)
            /\ T[k + 1] = [ptr |-> E[c], n |-> a.n + c, cut |-> FALSE]
    BY <1>5, <1>6, <1>9, <1>10, <1>11, <1>19 DEF CameTo, Fits
<1>21. /\ errors = 0 /\ ~cut /\ cut \in BOOLEAN
       /\ IsPrefixOf(yielded \o <<>>, out) /\ yielded \o <<>> = yielded
    BY <1>1, <1>2, <1>3, <1>8 DEF Walking, WalkerTypes
<1>22. buf' \in Seq(WholeBlock)
  <2>1. PICK t : t = Tail(blanks)
      OBVIOUS
  <2>2. t \in Seq(Blanks)
      BY <1>13, <2>1
  <2>3. \A i \in 1 .. Len(t) : t[i] \in WholeBlock
    <3>1. \A i \in 1 .. Len(t) : t[i] \in Blanks
        BY <2>2
    <3> QED
        BY <3>1, BlankIsBlock
  <2>4. t \in Seq(WholeBlock)
      BY <2>2, <2>3
  <2> QED
      BY <1>1, <2>1, <2>4
<1>23. CASE end <= Len(payload) + 1
  <2>1. yielded' = Append(yielded, B) /\ cursor' = end /\ UNCHANGED <<fused, errors>>
      BY <1>18, <1>23
  <2>2. B \in WholeBlock
      BY <1>17, <1>23
  <2>3. m < c
    <3>1. ASSUME c <= m PROVE FALSE
      <4>1. c < l /\ c + 1 <= m + 1 /\ c + 1 \in 0 .. l /\ m + 1 \in 0 .. l
          BY <1>13, <1>20, <3>1
      <4>2. E[c + 1] <= E[m + 1]
          BY <1>8, <1>9, <1>10, <1>11, <4>1, EndsRise
      <4>3. E[c + 1] > Len(payload) + 1 /\ E[c + 1] \in Nat
          BY <1>12, <1>20, <4>1
      <4> QED
          BY <1>8, <1>15, <1>23, <4>2, <4>3
    <3> QED
        BY <3>1
  <2>4. yielded' \in Seq(WholeBlock) /\ Len(yielded') = a.n + (m + 1)
    <3>1. yielded' \in Seq(WholeBlock) /\ Len(yielded') = Len(yielded) + 1
        BY <1>8, <2>1, <2>2, OneMore
    <3>2. PICK n \in Nat, y \in Nat : n = a.n /\ y = Len(yielded) /\ y = n + m
        BY <1>7, <1>8
    <3>3. y + 1 = n + (m + 1)
      <4>1. y = n + m
          BY <3>2
      <4> QED
          BY <4>1
    <3> QED
        BY <3>1, <3>2, <3>3
  <2>5. IsPrefixOf(yielded', out)
    <3>1. PICK s : s = <<B>>
        OBVIOUS
    <3>2. s \in Seq(WholeBlock) /\ Len(s) = 1 /\ s[1] = B
        BY <2>2, <3>1
    <3>3. HoldsBlocks(out, Len(yielded), Len(s), s)
      <4>1. m + 1 \in 1 .. c /\ a.n + (m + 1) = Len(yielded) + 1
        <5>1. PICK n \in Nat, y \in Nat : n = a.n /\ y = Len(yielded) /\ y = n + m
            BY <1>7, <1>8
        <5>2. m + 1 \in 1 .. c /\ n + (m + 1) = y + 1
            BY <2>3, <5>1
        <5> QED
            BY <5>1, <5>2
      <4>2. out[a.n + (m + 1)] = B /\ a.n + c <= Len(out)
          BY <1>16, <1>20, <4>1 DEF HoldsBlocks
      <4>3. Len(yielded) + 1 <= Len(out)
        <5>1. PICK z \in Nat, y \in Nat : z = Len(out) /\ y = Len(yielded)
            BY <1>8
        <5>2. y = a.n + m /\ a.n + c <= z
            BY <1>7, <4>2, <5>1
        <5>3. PICK n \in Nat : n = a.n
            BY <1>8
        <5>4. y = n + m /\ n + c <= z /\ m < c
            BY <2>3, <5>2, <5>3
        <5>5. y + 1 <= z
            BY <5>4
        <5> QED
            BY <5>1, <5>5
      <4> QED
          BY <3>2, <4>1, <4>2, <4>3 DEF HoldsBlocks
    <3>4. IsPrefixOf(yielded \o s, out)
        BY <1>8, <1>21, <3>2, <3>3, PrefixGrows
    <3>5. yielded' = yielded \o s
        BY <1>8, <2>1, <2>2, <3>1
    <3> QED
        BY <3>4, <3>5
  <2>6. PICK u : u = yielded'
      OBVIOUS
  <2>7. u \o <<>> = u /\ Len(u \o <<>>) = Len(u)
      BY <2>4, <2>6
  <2>8. \E i \in 1 .. Len(T) :
            \/ (form' = "Inter" \/ buf' = <<>>) /\ OnStop(T[i])'
            \/ form' = "MixedIntra" /\ \E j \in Nat \ {0} : InBlocks(T[i], j)'
    <3>1. CASE m + 1 = l
      <4>1. c = l /\ c = m + 1
          BY <1>20, <2>3, <3>1
      <4>2. k + 1 \in 1 .. Len(T)
            /\ T[k + 1] = [ptr |-> E[c], n |-> a.n + c, cut |-> FALSE]
          BY <1>20, <4>1
      <4>3. buf' = <<>>
          BY <1>1, <1>9, <1>10, <1>13, <3>1
      <4>4. /\ cursor' = T[k + 1].ptr /\ cut' = T[k + 1].cut
        <5>1. PICK b : b = T[k + 1] /\ b.ptr = E[c] /\ b.cut = FALSE
            BY <4>2
        <5>2. cursor' = E[c] /\ cut' = FALSE
            BY <1>1, <1>15, <1>21, <2>1, <4>1
        <5> QED
            BY <5>1, <5>2
      <4>5. Len(yielded' \o buf') = T[k + 1].n
          BY <2>4, <2>6, <2>7, <4>1, <4>2, <4>3
      <4>6. OnStop(T[k + 1])'
          BY <4>4, <4>5 DEF OnStop
      <4> QED
          BY <4>2, <4>3, <4>6
    <3>2. CASE m + 1 # l
      <4>1. PICK j \in Nat \ {0} : j = m + 1 /\ j < l
          BY <1>13, <3>2
      <4>2. buf' = SubSeq(g, j + 1, l)
          BY <1>1, <1>13, <4>1
      <4>3. cursor' = Ends(a.ptr, g)[j] /\ cursor' <= Len(payload) + 1
          BY <1>11, <1>15, <1>23, <2>1, <4>1
      <4>4. g = GroupIn(form', payload', count', a) . blocks
          BY <1>1, <1>6
      <4>5. Opens(payload', count', a) /\ j < Len(g) /\ Len(yielded') = a.n + j
          BY <1>1, <1>7, <1>10, <2>4, <4>1
      <4>6. InBlocks(a, j)'
          BY <1>1, <1>10, <4>2, <4>3, <4>4, <4>5 DEF InBlocks
      <4> QED
          BY <1>1, <1>5, <4>6
    <3> QED
        BY <3>1, <3>2
  <2>9. Walking(T)'
      BY <1>1, <1>21, <2>1, <2>5, <2>6, <2>7, <2>8 DEF Walking
  <2> QED
      BY <1>1, <1>2, <1>3, <1>15, <1>21, <1>22, <2>1, <2>4, <2>9, WalkingGoesOn DEF WalkerTypes
<1>24. CASE ~(end <= Len(payload) + 1)
  <2>1. fused' = TRUE /\ errors' = errors + 1 /\ cursor' = q /\ UNCHANGED yielded
      BY <1>18, <1>24
  <2>2. Fits(a.ptr, g, payload, m) /\ Fits(a.ptr, g, payload, c)
    <3>1. E[m] <= Len(payload) + 1 /\ E[m + 1] > Len(payload) + 1
        BY <1>7, <1>8, <1>15, <1>24
    <3> QED
        BY <1>10, <1>11, <1>20, <3>1 DEF Fits
  <2>3. m = c
    <3>1. m \in 0 .. Len(g) /\ c \in 0 .. Len(g)
        BY <1>10, <1>13, <1>20
    <3> QED
        BY <1>8, <1>9, <2>2, <3>1, FitsOnce
  <2>4. ~ok /\ p = q
      BY <1>13, <1>15, <1>20, <2>3
  <2>5. Walking(T)'
      BY <1>1, <1>21, <2>1, <2>4 DEF Walking
  <2> QED
      BY <1>1, <1>3, <1>8, <1>15, <1>21, <1>22, <2>1, <2>5, WalkingGoesOn
<1> QED
    BY <1>23, <1>24

\* What is handed out, and where it ends when all is.
LEMMA WalkerDone ==
    ASSUME WalkerInv
    PROVE  WalkerAgrees
<1> SUFFICES ASSUME stage = "walk" PROVE WalkerAgrees
    BY DEF WalkerAgrees
<1>1. WalkerTypes
    BY WalkingFacts
<1>2. PICK T \in Trails(form, payload, count, out) :
          /\ Decoding(T) /\ Returned(T[Len(T)]) /\ Walking(T) /\ Len(T) \in Nat \ {0}
          /\ \A k \in 1 .. Len(T) : T[k] \in Stops
    BY WalkingFacts
<1>3. /\ yielded \in Seq(WholeBlock) /\ buf \in Seq(WholeBlock) /\ out \in Seq(WholeBlock)
      /\ count \in Nat /\ Len(yielded) \in Nat /\ Len(out) <= count /\ form \in Forms
      /\ Len(out) \in Nat /\ Len(buf) \in Nat /\ fused \in BOOLEAN
    BY <1>1 DEF WalkerTypes
<1>4. /\ IsPrefixOf(yielded \o (IF form = "Inter" THEN buf ELSE <<>>), out)
      /\ fused => ~ok /\ cursor = p /\ errors = 1 /\ Len(yielded) < count
      /\ ~fused => errors = 0
      /\ form = "MixedIntra" => ~cut
    BY <1>2 DEF Walking
<1>5. PICK rest : rest = IF form = "Inter" THEN buf ELSE <<>>
    OBVIOUS
<1>6. rest \in Seq(WholeBlock) /\ Len(rest) \in Nat
    BY <1>3, <1>5
<1>7. /\ IsPrefixOf(yielded, out) /\ Len(yielded) + Len(rest) <= Len(out)
      /\ Len(yielded \o rest) = Len(yielded) + Len(rest)
    BY <1>3, <1>4, <1>5, <1>6, PrefixPart
<1>8. ASSUME Len(yielded) = count
      PROVE  ok /\ cursor = p /\ ~cut
  <2>1. ~fused
      BY <1>3, <1>4, <1>8
  <2>2. PICK k \in 1 .. Len(T) :
            \/ (form = "Inter" \/ buf = <<>>) /\ OnStop(T[k])
            \/ form = "MixedIntra" /\ \E m \in Nat \ {0} : InBlocks(T[k], m)
      BY <1>2, <2>1 DEF Walking
  <2>3. PICK a \in Stops : a = T[k]
      BY <1>2
  <2>4. a.n \in Nat
      BY <2>3 DEF Stops
  <2>5. ASSUME NEW m \in Nat \ {0}, InBlocks(a, m)
        PROVE  FALSE
    <3>1. PICK g : g = GroupIn(form, payload, count, a).blocks
        OBVIOUS
    <3>2. a.n < count /\ m < Len(g) /\ Len(yielded) = a.n + m
        BY <2>5, <3>1 DEF InBlocks, Opens
    <3>3. Len(g) \in 1 .. count - a.n
        BY <1>3, <2>3, <3>1, <3>2, GroupFacts
    <3>4. PICK l \in Nat : l = Len(g)
        BY <3>3
    <3> QED
        BY <1>3, <1>8, <2>4, <3>2, <3>3, <3>4
  <2>6. (form = "Inter" \/ buf = <<>>) /\ cursor = a.ptr /\ cut = a.cut /\ Len(yielded \o buf) = a.n
      BY <2>2, <2>3, <2>5 DEF OnStop
  <2>7. a.n = count
    <3>1. CASE form = "Inter"
      <4>1. rest = buf
          BY <1>5, <3>1
      <4> QED
          BY <1>3, <1>6, <1>7, <1>8, <2>6, <4>1
    <3>2. CASE buf = <<>>
      <4>1. yielded \o buf = yielded
          BY <1>3, <3>2
      <4> QED
          BY <1>8, <2>6, <4>1
    <3> QED
        BY <2>6, <3>1, <3>2
  <2>8. ~Opens(payload, count, a)
      BY <1>3, <2>7 DEF Opens
  <2>9. k = Len(T)
    <3>1. CASE k < Len(T)
      <4>1. k \in 1 .. Len(T) - 1
          BY <1>2, <3>1
      <4> QED
          BY <2>3, <2>8, <4>1 DEF Trails, Follows
    <3> QED
        BY <1>2, <3>1
  <2>10. ok /\ a = [ptr |-> p, n |-> count, cut |-> FALSE]
      BY <1>2, <1>3, <2>3, <2>7, <2>8, <2>9 DEF Returned, Short
  <2>11. a.ptr = p /\ a.cut = FALSE
      BY <2>10
  <2> QED
      BY <2>6, <2>10, <2>11
<1> QED
    BY <1>4, <1>7, <1>8 DEF WalkerAgrees

\* The walker and the decoder pass the same stops: between two groups the same
\* word opens the next, after the same blocks, with the same code cut
\* (decode_inter, decode_mixed_intra, InterMacroblocks, MixedIntraMacroblocks).
THEOREM WalkerInvariant == Spec => []WalkerInv
<1>1. WalkerInv /\ PayloadInv /\ PayloadInv' /\ [Next]_vars => WalkerInv'
  <2> SUFFICES ASSUME WalkerInv, PayloadInv, PayloadInv', [Next]_vars PROVE WalkerInv'
      OBVIOUS
  <2>1. ASSUME NEW b \in Blocks, Put(b) PROVE WalkerInv'
      BY <2>1, PutGoes
  <2>2. CASE Close
      BY <2>2, CloseGoes
  <2>3. CASE ReadWord
      BY <2>3, ReadWordGoes
  <2>4. CASE ReadCode
      BY <2>4, ReadCodeGoes
  <2>5. CASE ReadIndex
      BY <2>5, ReadIndexGoes
  <2>6. CASE EndGroup
      BY <2>6, EndGroupGoes
  <2>7. CASE Truncated
      BY <2>7, TruncatedGoes
  <2>8. CASE Return
      BY <2>8, ReturnGoes
  <2>9. CASE NoWord
      BY <2>9, NoWordGoes
  <2>10. CASE NextInter
      BY <2>10, NextInterGoes
  <2>11. CASE NextBuffered
      BY <2>11, NextBufferedGoes
  <2>12. CASE NextMixed
      BY <2>12, NextMixedGoes
  <2>13. CASE UNCHANGED vars
    <3>1. UNCHANGED <<stage, form, foreign, payload, count, phase, ok, p, flag, bit, pending,
                      next, out, cursor, buf, cut, fused, yielded, errors>>
        BY <2>13 DEF vars, chunk, decoder, walker
    <3>2. WalkerAnew' = WalkerAnew /\ DecoderAnew' = DecoderAnew /\ WalkerTypes' = WalkerTypes
        BY <3>1 DEF WalkerAnew, DecoderAnew, WalkerTypes
    <3>3. \A a : AtStop(a)' = AtStop(a) /\ Returned(a)' = Returned(a) /\ OnStop(a)' = OnStop(a)
        BY <3>1 DEF AtStop, Returned, OnStop
    <3>4. \A a : InCodes(a)' = InCodes(a)
        BY <3>1 DEF InCodes, CodesRead, CodesLeft
    <3>5. \A a, m : InBlocks(a, m)' = InBlocks(a, m)
        BY <3>1 DEF InBlocks
    <3>6. \A T : Decoding(T)' = Decoding(T)
        BY <3>1, <3>3, <3>4 DEF Decoding
    <3>7. \A T : Walking(T)' = Walking(T)
        BY <3>1, <3>3, <3>5 DEF Walking
    <3> QED
        BY <3>1, <3>2, <3>6, <3>7 DEF WalkerInv
  <2> QED
      BY <2>1, <2>2, <2>3, <2>4, <2>5, <2>6, <2>7, <2>8, <2>9, <2>10, <2>11, <2>12, <2>13 DEF Next
<1> QED
    BY <1>1, WalkerStarts, PayloadInvariant, PTL DEF Spec

\* On every payload, written by the encoder or not, a walker hands out the
\* blocks that the decoder decodes, and stops where it stops (InterMacroblocks,
\* MixedIntraMacroblocks against decode_vector_chunk).
THEOREM WalkersReadAlike == Spec => []WalkerAgrees
BY WalkerInvariant, WalkerDone, PTL

=============================================================================
