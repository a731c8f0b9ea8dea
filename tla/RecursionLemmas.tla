--------------------------- MODULE RecursionLemmas ---------------------------
(***************************************************************************)
(* Induction over the naturals and definition by recursion, stated for     *)
(* sets and functions instead of operators: what is shown of every number  *)
(* up to n is a set of numbers, what a recursion does in one step is a     *)
(* function.  All of it follows from the well-foundedness of the naturals. *)
(***************************************************************************)
EXTENDS Integers, WellFoundedInduction, TLAPS

\* The less-than relation of the naturals, as a set of pairs.
LEMMA LessIsWellFounded == IsWellFoundedOn({p \in Nat \X Nat : p[1] < p[2]}, Nat)
BY NatLessThanWellFounded DEF OpToRel

\* A set of naturals that is not empty has a least element.
LEMMA LeastNatural ==
    ASSUME NEW T, T \subseteq Nat, T # {}
    PROVE  \E n \in T : \A k \in T : n <= k
<1> DEFINE R == {p \in Nat \X Nat : p[1] < p[2]}
<1>1. IsWellFoundedOn(R, Nat)
    BY LessIsWellFounded
<1>2. PICK n \in T : \A k \in T : <<k, n>> \notin R
    <2> HIDE DEF R
    <2> QED BY <1>1, WFMin
<1>3. \A k \in T : <<k, n>> \in Nat \X Nat /\ n \in Nat /\ k \in Nat
    OBVIOUS
<1>4. \A k \in T : ~(k < n)
    BY <1>2, <1>3
<1> QED BY <1>3, <1>4

\* A set of naturals up to n that is not empty has a greatest element.
LEMMA GreatestNatural ==
    ASSUME NEW n \in Nat, NEW T, T \subseteq 0 .. n, T # {}
    PROVE  \E top \in T : \A k \in T : k <= top
<1> DEFINE Rest == {n - k : k \in T}
<1>1. Rest \subseteq Nat /\ Rest # {}
    <2>1. \A k \in 0 .. n : n - k \in Nat
        OBVIOUS
    <2>2. \A k \in T : n - k \in Nat
        BY <2>1
    <2> QED BY <2>2
<1>2. PICK r \in Rest : \A x \in Rest : r <= x
    <2> HIDE DEF Rest
    <2> QED BY <1>1, LeastNatural
<1>3. PICK top \in T : r = n - top
    OBVIOUS
<1>4. ASSUME NEW k \in T PROVE k <= top
    <2>1. n - top <= n - k
        BY <1>2, <1>3
    <2>2. n \in Int /\ k \in Int /\ top \in Int
        OBVIOUS
    <2> QED BY <2>1, <2>2
<1> QED BY <1>4

\* A set that has zero, and after each number below n the next, has all of
\* them up to n.
LEMMA InductionUpTo ==
    ASSUME NEW n \in Nat, NEW T, 0 \in T,
           \A i \in 1 .. n : i - 1 \in T => i \in T
    PROVE  \A i \in 0 .. n : i \in T
<1> DEFINE Missing == {i \in 0 .. n : i \notin T}
<1>1. SUFFICES ASSUME Missing # {} PROVE FALSE
    OBVIOUS
<1>2. PICK i \in Missing : \A k \in Missing : i <= k
    <2>1. Missing \subseteq Nat
        OBVIOUS
    <2> HIDE DEF Missing
    <2> QED BY <1>1, <2>1, LeastNatural
<1>3. i \in 1 .. n /\ i \notin T
    BY <1>2
<1>4. i - 1 \in 0 .. n /\ i - 1 \notin Missing
    BY <1>2, <1>3
<1> QED BY <1>3, <1>4

\* The results of a recursion over 0 .. n, from c by a step that stays in V.
Recursion(n, V, c, step) ==
    {g \in [0 .. n -> V] : /\ g[0] = c
                           /\ \A i \in 1 .. n : g[i] = step[<<g[i - 1], i>>]}

\* There is one.
LEMMA RecursionIsDefined ==
    ASSUME NEW n \in Nat, NEW V, NEW c \in V, NEW step \in [V \X (1 .. n) -> V]
    PROVE  Recursion(n, V, c, step) # {}
<1> DEFINE Upto(m) == {g \in [0 .. m -> V] :
               g[0] = c /\ \A i \in 1 .. m : g[i] = step[<<g[i - 1], i>>]}
<1> DEFINE T == {m \in 0 .. n : Upto(m) # {}}
<1>1. 0 \in T
    <2> DEFINE g == [i \in 0 .. 0 |-> c]
    <2>1. g \in Upto(0)
        OBVIOUS
    <2> QED BY <2>1
<1>2. ASSUME NEW m \in 1 .. n, m - 1 \in T
      PROVE  m \in T
    <2>1. PICK h \in Upto(m - 1) : TRUE
        BY <1>2
    <2>2. /\ h \in [0 .. m - 1 -> V] /\ h[0] = c
          /\ \A i \in 1 .. m - 1 : h[i] = step[<<h[i - 1], i>>]
        BY <2>1
    <2> DEFINE next == step[<<h[m - 1], m>>]
    <2>3. next \in V
        BY <2>2
    <2> DEFINE g == [i \in 0 .. m |-> IF i = m THEN next ELSE h[i]]
    <2>4. g \in [0 .. m -> V]
        BY <2>2, <2>3
    <2>5. g[0] = c
        BY <2>2
    <2>6. ASSUME NEW i \in 1 .. m
          PROVE  g[i] = step[<<g[i - 1], i>>]
        <3>1. g[i - 1] = h[i - 1]
            OBVIOUS
        <3>2. CASE i = m
            BY SMTT(30), <3>1, <3>2
        <3>3. CASE i # m
            BY <2>2, <3>1, <3>3
        <3> QED BY <3>2, <3>3
    <2>7. g \in Upto(m)
        <3> HIDE DEF g
        <3> QED BY <2>4, <2>5, <2>6
    <2> HIDE DEF Upto
    <2> QED BY <2>7
<1>3. n \in T
    <2> HIDE DEF T
    <2> QED BY <1>1, <1>2, InductionUpTo
<1> QED BY <1>3 DEF Recursion

\* Whatever satisfies the equations of a recursion where its values are in the
\* set of the step has all its values there.
LEMMA RecursionStays ==
    ASSUME NEW n \in Nat, NEW V, NEW step \in [V \X (1 .. n) -> V], NEW g, g[0] \in V,
           \A i \in 1 .. n : g[i - 1] \in V => g[i] = step[<<g[i - 1], i>>]
    PROVE  \A i \in 0 .. n : g[i] \in V
<1> DEFINE T == {i \in 0 .. n : g[i] \in V}
<1>1. 0 \in T
    OBVIOUS
<1>2. ASSUME NEW i \in 1 .. n, i - 1 \in T
      PROVE  i \in T
    <2>1. g[i] = step[<<g[i - 1], i>>] /\ <<g[i - 1], i>> \in V \X (1 .. n)
        BY <1>2
    <2>2. g[i] \in V
        BY <2>1
    <2> QED BY <2>2
<1>3. \A i \in 0 .. n : i \in T
    <2> HIDE DEF T
    <2> QED BY <1>1, <1>2, InductionUpTo
<1> QED BY <1>3

=============================================================================
