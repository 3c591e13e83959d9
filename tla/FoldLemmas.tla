----------------------------- MODULE FoldLemmas -----------------------------
(***************************************************************************)
(* Induction and recursion over natural numbers, and what a fold over a    *)
(* sequence is, as facts about sets and functions: what is to be shown of  *)
(* every number is the set of the numbers of which it holds, and what is   *)
(* done at every step is a function.  The proofs about operators of the    *)
(* model that fold or recur rest on these.                                 *)
(***************************************************************************)
EXTENDS Integers, Sequences, SequencesExt, WellFoundedInduction, NaturalsInduction, TLAPS

\* A set of natural numbers that is not empty has a least element.
LEMMA LeastNumber ==
    ASSUME NEW T \in SUBSET Nat, T # {}
    PROVE  \E x \in T : \A y \in T : x <= y
<1> DEFINE R == OpToRel(<, Nat)
<1>1. IsWellFoundedOn(R, Nat)
    BY NatLessThanWellFounded
<1>2. \E x \in T : \A y \in T : ~(<<y, x>> \in R)
    BY <1>1, WFMin
<1>3. \A x, y \in Nat : y < x => <<y, x>> \in R
    BY Zenon DEF OpToRel
<1>4. PICK x \in T : \A y \in T : ~(<<y, x>> \in R)
    BY <1>2
<1>5. ASSUME NEW y \in T PROVE ~(y < x)
    BY <1>3, <1>4
<1>6. ASSUME NEW y \in T PROVE x <= y
    <2>1. ~(y < x) /\ x \in Nat /\ y \in Nat
        BY <1>5
    <2> HIDE DEF R
    <2> QED BY <2>1
<1> QED BY <1>6

\* Induction up to a bound.
LEMMA InductionUpTo ==
    ASSUME NEW N \in Nat, NEW T, 0 \in T, \A n \in 1..N : n - 1 \in T => n \in T
    PROVE  \A n \in 0..N : n \in T
<1> DEFINE Missing == (0..N) \ T
<1>1. SUFFICES ASSUME Missing # {} PROVE FALSE
    OBVIOUS
<1>2. PICK x \in Missing : \A y \in Missing : x <= y
    <2>1. Missing \in SUBSET Nat
        OBVIOUS
    <2> HIDE DEF Missing
    <2> QED BY <1>1, <2>1, LeastNumber
<1>3. x \in 1..N /\ x - 1 \in 0..N
    BY <1>2
<1>4. x - 1 \in T
    BY <1>2, <1>3
<1> QED BY <1>2, <1>3, <1>4

\* f[n] is what n steps make of `base`.
Iterates(f, base, step, N) ==
    f[0] = base /\ \A n \in 1..N : f[n] = step[n][f[n - 1]]

\* What begins with `base` and goes on with `step` exists, for any number of steps.
LEMMA RecursionExists ==
    ASSUME NEW D, NEW base \in D, NEW N \in Nat, NEW step \in [1..N -> [D -> D]]
    PROVE  \E f \in [0..N -> D] : Iterates(f, base, step, N)
<1> DEFINE Steps(k) == {f \in [0..k -> D] : Iterates(f, base, step, k)}
           T == {k \in 0..N : Steps(k) # {}}
<1>1. 0 \in T
    <2>1. [n \in 0..0 |-> base] \in Steps(0)
        BY DEF Iterates
    <2> QED BY <2>1
<1>2. ASSUME NEW k \in 1..N, k - 1 \in T PROVE k \in T
    <2>1. PICK f \in [0..k - 1 -> D] : Iterates(f, base, step, k - 1)
        BY <1>2
    <2>2. k - 1 \in 0..k - 1 /\ 0 \in 0..k - 1
        OBVIOUS
    <2>3. step[k][f[k - 1]] \in D
        BY <2>2
    <2> DEFINE g == [n \in 0..k |-> IF n = k THEN step[k][f[k - 1]] ELSE f[n]]
    <2>4. g \in [0..k -> D]
        BY <2>3
    <2>5. g[0] = base
        BY <2>1 DEF Iterates
    <2>6. ASSUME NEW n \in 1..k PROVE g[n] = step[n][g[n - 1]]
        <3>1. g[n - 1] = f[n - 1]
            OBVIOUS
        <3>2. CASE n = k
            BY <3>1, <3>2
        <3>3. CASE n # k
            <4>1. n \in 1..k - 1 /\ g[n] = f[n]
                BY <3>3
            <4>2. f[n] = step[n][f[n - 1]]
                BY <2>1, <4>1 DEF Iterates
            <4> QED BY <3>1, <4>1, <4>2
        <3> QED BY <3>2, <3>3
    <2> HIDE DEF g
    <2>7. g \in Steps(k)
        BY <2>4, <2>5, <2>6 DEF Iterates
    <2>8. Steps(k) # {} /\ k \in 0..N
        <3> HIDE DEF Steps
        <3> QED BY <2>7
    <2> QED BY <2>8
<1>3. \A k \in 0..N : k \in T
    <2> HIDE DEF T
    <2> QED BY <1>1, <1>2, InductionUpTo
<1>4. Steps(N) # {}
    BY <1>3
<1> QED BY <1>4

------------------------------------------------------------------------------
(* Folds                                                                   *)

\* The greatest element of a set of positions, and of the first n positions.
LEMMA GreatestPosition ==
    ASSUME NEW N \in Nat, NEW s \in SUBSET (1..N), s # {}
    PROVE  Max(s) \in s /\ \A i \in s : i <= Max(s)
<1> DEFINE Back == {N - i : i \in s}
<1>0. \A i \in s : i \in Nat /\ i <= N /\ N - i \in Nat
    <2>1. ASSUME NEW i \in s PROVE i \in 1..N
        OBVIOUS
    <2> QED BY <2>1
<1>1. Back \in SUBSET Nat /\ Back # {}
    BY <1>0
<1>2. PICK b \in Back : \A c \in Back : b <= c
    <2> HIDE DEF Back
    <2> QED BY <1>1, LeastNumber
<1>3. PICK m \in s : b = N - m
    BY <1>2
<1>4. ASSUME NEW i \in s PROVE m >= i
    <2>1. N - i \in Back
        OBVIOUS
    <2>2. N - m <= N - i /\ i \in Nat /\ m \in Nat
        BY <1>0, <1>2, <1>3, <2>1
    <2> QED BY <2>2
<1>5. \E x \in s : \A y \in s : x >= y
    BY <1>4
<1>6. Max(s) \in s /\ \A y \in s : Max(s) >= y
    BY <1>5 DEF Max
<1> QED BY <1>0, <1>6

LEMMA LeastPosition ==
    ASSUME NEW N \in Nat, NEW s \in SUBSET (1..N), s # {}
    PROVE  Min(s) \in s /\ \A i \in s : Min(s) <= i
<1>1. s \in SUBSET Nat
    OBVIOUS
<1>2. \E x \in s : \A y \in s : x =< y
    BY <1>1, LeastNumber
<1> QED BY <1>2 DEF Min

LEMMA FirstPositions ==
    ASSUME NEW N \in Nat, NEW n \in 1..N
    PROVE  /\ 1..n \in SUBSET (1..N) /\ 1..n # {}
           /\ Max(1..n) = n /\ (1..n) \ {n} = 1..(n - 1)
<1>1. 1..n \in SUBSET (1..N) /\ n \in 1..n
    OBVIOUS
<1>2. Max(1..n) \in 1..n /\ \A i \in 1..n : i <= Max(1..n)
    BY <1>1, GreatestPosition
<1> QED BY <1>1, <1>2

\* iter[s] is what is made of `base` when the steps at the positions s are taken,
\* the greatest one last.
FoldsBy(iter, base, step, N) ==
    /\ iter[{}] = base
    /\ \A s \in SUBSET (1..N) :
           s # {} => iter[s] = step[Max(s)][iter[s \ {Max(s)}]]

\* The function that a fold over positions is defined by exists.
LEMMA FoldExists ==
    ASSUME NEW D, NEW base \in D, NEW N \in Nat, NEW step \in [1..N -> [D -> D]]
    PROVE  \E iter \in [SUBSET (1..N) -> D] : FoldsBy(iter, base, step, N)
<1> DEFINE P == SUBSET (1..N)
           D2 == [P -> D]
           base2 == [s \in P |-> base]
           Next2(n, g) == [s \in P |-> IF n \in s THEN step[n][g[s \ {n}]] ELSE g[s]]
           step2 == [n \in 1..N |-> [g \in D2 |-> Next2(n, g)]]
<1>1. base2 \in D2
    OBVIOUS
<1>2. ASSUME NEW n \in 1..N, NEW g \in D2 PROVE Next2(n, g) \in D2
    <2>1. ASSUME NEW s \in P
          PROVE  g[s] \in D /\ step[n][g[s \ {n}]] \in D
        <3>1. s \ {n} \in P
            OBVIOUS
        <3>2. g[s] \in D /\ g[s \ {n}] \in D
            BY <3>1
        <3> QED BY <3>2
    <2> QED BY <2>1
<1>3. PICK f \in [0..N -> D2] : Iterates(f, base2, step2, N)
    <2>1. step2 \in [1..N -> [D2 -> D2]]
        <3> HIDE DEF D2, P, Next2
        <3> QED BY <1>2
    <2> HIDE DEF D2, P, base2, step2
    <2> QED BY <1>1, <2>1, RecursionExists
<1>4. ASSUME NEW n \in 1..N, NEW s \in P
      PROVE  f[n][s] = IF n \in s THEN step[n][f[n - 1][s \ {n}]] ELSE f[n - 1][s]
    <2>1. f[n - 1] \in D2 /\ f[n] = step2[n][f[n - 1]]
        <3> HIDE DEF D2, step2
        <3> QED BY <1>3 DEF Iterates
    <2>2. f[n] = Next2(n, f[n - 1])
        <3> HIDE DEF D2, P, Next2
        <3> QED BY <2>1
    <2> QED BY <2>2
<1>5. ASSUME NEW k \in 0..N, NEW s \in P, \A i \in s : i <= k
      PROVE  f[N][s] = f[k][s]
    <2> DEFINE T == {n \in 0..N : n >= k => f[n][s] = f[k][s]}
    <2>1. 0 \in T
        OBVIOUS
    <2>2. ASSUME NEW n \in 1..N, n - 1 \in T PROVE n \in T
        <3>1. CASE n <= k
            BY <3>1
        <3>2. CASE n > k
            <4>1. n \notin s /\ n - 1 >= k
                BY <1>5, <3>2
            <4>2. f[n][s] = f[n - 1][s]
                BY <1>4, <4>1
            <4> QED BY <2>2, <4>1, <4>2
        <3> QED BY <3>1, <3>2
    <2>3. \A n \in 0..N : n \in T
        <3> HIDE DEF T
        <3> QED BY <2>1, <2>2, InductionUpTo
    <2> QED BY <2>3
<1>6. f[N][{}] = base
    <2>1. f[0] = base2 /\ 0 \in 0..N /\ {} \in P
        <3> HIDE DEF base2, step2, P
        <3> QED BY <1>3 DEF Iterates, P
    <2>2. f[N][{}] = f[0][{}]
        BY <1>5, <2>1
    <2> QED BY <2>1, <2>2
<1>7. ASSUME NEW s \in P, s # {}
      PROVE  f[N][s] = step[Max(s)][f[N][s \ {Max(s)}]]
    <2>1. Max(s) \in s /\ \A i \in s : i <= Max(s)
        BY <1>7, GreatestPosition
    <2> DEFINE m == Max(s)
    <2>2. m \in 1..N /\ m - 1 \in 0..N /\ m \in 0..N
        <3>1. m \in 1..N
            BY <2>1
        <3> HIDE DEF m
        <3> QED BY <3>1
    <2>3. \A i \in s \ {m} : i <= m - 1
        <3>1. \A i \in s \ {m} : i \in Nat /\ i <= m /\ i # m
            BY <2>1
        <3> HIDE DEF m
        <3> QED BY <2>2, <3>1
    <2>4. s \ {m} \in P /\ m \in s /\ \A i \in s : i <= m
        BY <2>1
    <2> HIDE DEF m
    <2>5. f[N][s] = f[m][s] /\ f[N][s \ {m}] = f[m - 1][s \ {m}]
        BY <1>5, <2>2, <2>3, <2>4
    <2>6. f[m][s] = step[m][f[m - 1][s \ {m}]]
        BY <1>4, <2>2, <2>4
    <2>7. f[N][s] = step[m][f[N][s \ {m}]]
        BY <2>5, <2>6
    <2> QED BY <2>7 DEF m
<1>8. f[N] \in [P -> D]
    <2> HIDE DEF P
    <2> QED BY <1>3
<1> HIDE DEF step2
<1> QED BY <1>6, <1>7, <1>8 DEF FoldsBy

\* f is told by `base` at the numbers of `stop`, and at any other number by a
\* lower one.
Descends(f, stop, base, down) ==
    \A n \in Nat : f[n] = IF n \in stop THEN base[n] ELSE f[down[n]]

\* A function of the natural numbers that calls itself with a lower one exists.
LEMMA DescentExists ==
    ASSUME NEW D, NEW stop, NEW base \in [Nat -> D], NEW down \in [Nat -> Nat],
           \A n \in Nat : n \notin stop => down[n] < n
    PROVE  \E f \in [Nat -> D] : Descends(f, stop, base, down)
<1> DEFINE At(f, n) == IF n \in stop THEN base[n] ELSE f[down[n]]
           Prefix(k) == {f \in [Nat -> D] : \A n \in 0..k : f[n] = At(f, n)}
<1>1. ASSUME NEW N \in Nat PROVE Prefix(N) # {}
    <2> DEFINE T == {k \in 0..N : Prefix(k) # {}}
    <2>1. 0 \in T
        <3>1. 0 \in stop
            OBVIOUS
        <3>2. base \in Prefix(0)
            BY <3>1
        <3> QED BY <3>2
    <2>2. ASSUME NEW k \in 1..N, k - 1 \in T PROVE k \in T
        <3>1. PICK f \in [Nat -> D] : \A n \in 0..k - 1 : f[n] = At(f, n)
            BY <2>2
        <3> DEFINE g == [f EXCEPT ![k] = At(f, k)]
        <3>2. k \in Nat /\ At(f, k) \in D /\ g \in [Nat -> D]
            OBVIOUS
        <3>3. ASSUME NEW n \in 0..k PROVE g[n] = At(g, n)
            <4>1. n \notin stop => down[n] \in Nat /\ down[n] < n /\ down[n] # k
                OBVIOUS
            <4>2. CASE n = k
                BY <3>2, <4>1, <4>2
            <4>3. CASE n # k
                <5>1. n \in 0..k - 1 /\ g[n] = f[n]
                    BY <4>3
                <5> QED BY <3>1, <4>1, <5>1
            <4> QED BY <4>2, <4>3
        <3>4. g \in Prefix(k)
            BY <3>2, <3>3
        <3>5. k \in 0..N
            OBVIOUS
        <3> HIDE DEF Prefix
        <3> QED BY <3>4, <3>5
    <2>3. \A n \in 0..N : n \in T
        <3> HIDE DEF T
        <3> QED BY <2>1, <2>2, InductionUpTo
    <2> HIDE DEF Prefix
    <2> QED BY <2>3
<1>2. ASSUME NEW N \in Nat, NEW M \in Nat, NEW f \in Prefix(N), NEW g \in Prefix(M),
             NEW n \in Nat, n <= N, n <= M
      PROVE  f[n] = g[n]
    <2> DEFINE Differ == {i \in Nat : i <= N /\ i <= M /\ f[i] # g[i]}
    <2>1. SUFFICES ASSUME Differ # {} PROVE FALSE
        BY <1>2
    <2>2. PICK x \in Differ : \A y \in Differ : x <= y
        <3>1. Differ \in SUBSET Nat
            OBVIOUS
        <3> HIDE DEF Differ
        <3> QED BY <2>1, <3>1, LeastNumber
    <2>3. x \in 0..N /\ x \in 0..M /\ f[x] = At(f, x) /\ g[x] = At(g, x)
        BY <2>2
    <2>4. x \notin stop /\ down[x] \in Nat /\ down[x] < x
        BY <2>2, <2>3
    <2>5. down[x] \in Differ
        BY <2>2, <2>3, <2>4
    <2> QED BY <2>2, <2>4, <2>5
<1> DEFINE Some(n) == CHOOSE f \in Prefix(n) : TRUE
           F == [n \in Nat |-> Some(n)[n]]
<1>3. ASSUME NEW n \in Nat PROVE Some(n) \in Prefix(n)
    <2> HIDE DEF Prefix
    <2> QED BY <1>1
<1>4. ASSUME NEW n \in Nat PROVE F[n] \in D /\ F[n] = At(F, n)
    <2>1. Some(n) \in [Nat -> D] /\ Some(n)[n] = At(Some(n), n)
        <3>1. Some(n) \in Prefix(n)
            <4> HIDE DEF Prefix, Some
            <4> QED BY <1>3
        <3>2. n \in 0..n
            OBVIOUS
        <3> HIDE DEF Some
        <3> QED BY <3>1, <3>2
    <2>2. CASE n \in stop
        BY <2>1, <2>2
    <2>3. CASE n \notin stop
        <3>1. down[n] \in Nat /\ down[n] <= n
            BY <2>3
        <3>2. Some(n) \in Prefix(n) /\ Some(down[n]) \in Prefix(down[n])
            <4> HIDE DEF Prefix, Some
            <4> QED BY <1>3, <3>1
        <3>3. Some(n)[down[n]] = Some(down[n])[down[n]]
            <4> HIDE DEF Prefix, Some
            <4> QED BY <1>2, <3>1, <3>2
        <3> HIDE DEF Some
        <3> QED BY <2>1, <2>3, <3>1, <3>3
    <2> QED BY <2>2, <2>3
<1>5. F \in [Nat -> D]
    <2> HIDE DEF Some
    <2>1. \A n \in Nat : Some(n)[n] \in D
        BY <1>4
    <2> QED BY <2>1
<1>6. Descends(F, stop, base, down)
    <2> HIDE DEF F
    <2> QED BY <1>4 DEF Descends
<1> QED BY <1>5, <1>6
=============================================================================
