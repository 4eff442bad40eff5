-------------------------- MODULE Recursion_proofs --------------------------
(***************************************************************************)
(* Induction over the naturals, and what it gives about recursive          *)
(* functions, from one library theorem that takes no operator parameter:   *)
(* a well-founded relation has minimal elements (WFMin).  The sets 0 .. m  *)
(* ordered by strict inclusion are such a relation, so every nonempty set  *)
(* of naturals has a least member; a set that contains 0 and the successor *)
(* of each of its members therefore contains every natural.                *)
(***************************************************************************)
EXTENDS PartialSums, FiniteSets, FiniteSetTheorems, WellFoundedInduction, TLAPS

(* A nonempty set of naturals has a least member.                          *)
LEMMA LeastMember ==
  ASSUME NEW T, T \subseteq Nat, T # {}
  PROVE  \E x \in T : \A y \in T : x <= y
<1>1. PICK n \in T : TRUE  OBVIOUS
<1> DEFINE B == 0 .. n
           D == {0 .. m : m \in {k \in T : k <= n}}
<1>2. IsFiniteSet(B)  BY FS_Interval
<1>3. IsWellFoundedOn(StrictSubsetOrdering(B), SUBSET B)
  BY <1>2, FS_StrictSubsetOrderingWellFounded, FS_FiniteSubsetsOfFinite
<1>4. D \subseteq SUBSET B  OBVIOUS
<1>5. 0 .. n \in D  OBVIOUS
<1>6. PICK X \in D : \A Y \in D : ~ (<<Y, X>> \in StrictSubsetOrdering(B))
  <2> HIDE DEF D, B
  <2> QED  BY <1>3, <1>4, <1>5, WFMin
<1>7. PICK m \in T : m <= n /\ X = 0 .. m  OBVIOUS
<1>8. ASSUME NEW y \in T PROVE m <= y
  <2>1. SUFFICES ASSUME y < m PROVE FALSE  OBVIOUS
  <2>2. 0 .. y \in D  BY <2>1, <1>7
  <2>3. <<0 .. y, 0 .. m>> \notin StrictSubsetOrdering(B)  BY <1>6, <1>7, <2>2
  <2>4. m \in 0 .. m /\ m \notin 0 .. y  BY <2>1
  <2>5. 0 .. y \subseteq 0 .. m /\ 0 .. m \subseteq B  BY <2>1, <1>7
  <2>6. QED  BY <2>3, <2>4, <2>5 DEF StrictSubsetOrdering
<1>9. QED  BY <1>8

(* Induction from 0 to N.                                                  *)
LEMMA UpwardInduction ==
  ASSUME NEW N \in Nat, NEW T, 0 \in T,
         \A n \in 0 .. N - 1 : n \in T => n + 1 \in T
  PROVE  0 .. N \subseteq T
<1>1. SUFFICES ASSUME (0 .. N) \ T # {} PROVE FALSE  OBVIOUS
<1>2. (0 .. N) \ T \subseteq Nat  OBVIOUS
<1>3. PICK x \in (0 .. N) \ T : \A y \in (0 .. N) \ T : x <= y
  BY <1>1, <1>2, LeastMember
<1>4. x # 0  OBVIOUS
<1>5. x - 1 \in 0 .. N - 1 /\ ~ (x <= x - 1)  BY <1>4
<1>6. x - 1 \in T  BY <1>3, <1>5
<1>7. x - 1 + 1 \in T  BY <1>5, <1>6
<1>8. QED  BY <1>7

(* Induction from N down to 0.                                             *)
LEMMA DownwardInduction ==
  ASSUME NEW N \in Nat, NEW T, N \in T,
         \A n \in 0 .. N - 1 : n + 1 \in T => n \in T
  PROVE  0 .. N \subseteq T
<1> DEFINE U == {n \in 0 .. N : N - n \in T}
<1>1. 0 \in U  OBVIOUS
<1>2. \A n \in 0 .. N - 1 : n \in U => n + 1 \in U
  <2>1. SUFFICES ASSUME NEW n \in 0 .. N - 1, n \in U PROVE n + 1 \in U  OBVIOUS
  <2>2. N - (n + 1) \in 0 .. N - 1 /\ N - (n + 1) + 1 = N - n  OBVIOUS
  <2>3. N - (n + 1) \in T  BY <2>1, <2>2
  <2>4. QED  BY <2>3
<1>3. 0 .. N \subseteq U
  <2> HIDE DEF U
  <2> QED  BY <1>1, <1>2, UpwardInduction
<1>4. ASSUME NEW n \in 0 .. N PROVE n \in T
  <2>1. N - n \in 0 .. N  OBVIOUS
  <2>2. N - (N - n) \in T  BY <1>3, <2>1
  <2>3. N - (N - n) = n  OBVIOUS
  <2>4. QED  BY <2>2, <2>3
<1>5. QED  BY <1>4

(* The recursive function in PartialSums exists, so its equation holds:    *)
(* there are no more sums than terms, the first is zero, and each adds one *)
(* term to the one before.                                                 *)
LEMMA PartialSumsDef ==
  ASSUME NEW terms \in Seq(Int)
  PROVE  /\ PartialSums(terms) \in [0 .. Len(terms) -> Int]
         /\ PartialSums(terms)[0] = 0
         /\ \A n \in 1 .. Len(terms) :
              PartialSums(terms)[n] = PartialSums(terms)[n - 1] + terms[n]
<1> DEFINE N == Len(terms)
           Is(f) == f = [n \in 0 .. N |-> IF n = 0 THEN 0 ELSE f[n - 1] + terms[n]]
           Exists(m) == \E g \in [0 .. m -> Int] :
                          /\ g[0] = 0
                          /\ \A n \in 1 .. m : g[n] = g[n - 1] + terms[n]
           T == {m \in 0 .. N : Exists(m)}
<1>1. N \in Nat /\ \A n \in 1 .. N : terms[n] \in Int  OBVIOUS
<1>2. 0 \in T
  <2> DEFINE z == [n \in 0 .. 0 |-> 0]
  <2>1. z \in [0 .. 0 -> Int] /\ z[0] = 0 /\ 1 .. 0 = {}  OBVIOUS
  <2>2. Exists(0)
    <3> HIDE DEF z
    <3> QED  BY <2>1
  <2>3. QED  BY <1>1, <2>2
<1>3. \A m \in 0 .. N - 1 : m \in T => m + 1 \in T
  <2>1. SUFFICES ASSUME NEW m \in 0 .. N - 1, m \in T PROVE m + 1 \in T  OBVIOUS
  <2>2. PICK g \in [0 .. m -> Int] :
          g[0] = 0 /\ \A n \in 1 .. m : g[n] = g[n - 1] + terms[n]
    BY <2>1
  <2> DEFINE h == [n \in 0 .. m + 1 |-> IF n <= m THEN g[n] ELSE g[m] + terms[m + 1]]
  <2>3. h \in [0 .. m + 1 -> Int]  BY <1>1
  <2>4. h[0] = 0  BY <2>2
  <2>5. ASSUME NEW n \in 1 .. m + 1 PROVE h[n] = h[n - 1] + terms[n]
    <3>1. CASE n <= m  BY <2>2, <3>1
    <3>2. CASE n = m + 1  BY <3>2
    <3>3. QED  BY <3>1, <3>2
  <2>6. m + 1 \in 0 .. N  BY <1>1
  <2>7. Exists(m + 1)
    <3> HIDE DEF h
    <3> QED  BY <2>3, <2>4, <2>5
  <2>8. QED  BY <2>6, <2>7
<1>4. 0 .. N \subseteq T
  <2> HIDE DEF T, N, Exists
  <2> QED  BY <1>1, <1>2, <1>3, UpwardInduction
<1>5. PICK g \in [0 .. N -> Int] :
        g[0] = 0 /\ \A n \in 1 .. N : g[n] = g[n - 1] + terms[n]
  <2>1. N \in T
    <3> HIDE DEF N, T
    <3> QED  BY <1>1, <1>4
  <2>2. QED  BY <2>1
<1>6. Is(g)
  <2>1. g = [n \in 0 .. N |-> g[n]]  OBVIOUS
  <2>2. \A n \in 0 .. N : g[n] = IF n = 0 THEN 0 ELSE g[n - 1] + terms[n]  BY <1>1, <1>5
  <2>3. QED  BY <2>1, <2>2
<1>7. PartialSums(terms) = CHOOSE f : Is(f)  BY DEF PartialSums
<1>8. Is(CHOOSE f : Is(f))
  <2> HIDE DEF Is
  <2> QED  BY <1>6
<1>9. Is(PartialSums(terms))  BY <1>7, <1>8, Zenon
<1> DEFINE s == PartialSums(terms)
<1>10. s = [n \in 0 .. N |-> IF n = 0 THEN 0 ELSE s[n - 1] + terms[n]]
  BY <1>9
<1> HIDE DEF s, Is, T
<1>11. s[0] = 0 /\ \A n \in 1 .. N : s[n] = s[n - 1] + terms[n]
  BY <1>1, <1>10
<1> DEFINE V == {n \in 0 .. N : s[n] \in Int}
<1>12. 0 \in V  BY <1>1, <1>11
<1>13. \A n \in 0 .. N - 1 : n \in V => n + 1 \in V
  <2>1. SUFFICES ASSUME NEW n \in 0 .. N - 1, s[n] \in Int PROVE n + 1 \in V
    OBVIOUS
  <2>2. n + 1 \in 1 .. N /\ n + 1 \in 0 .. N /\ n + 1 - 1 = n  BY <1>1
  <2>3. s[n + 1] = s[n] + terms[n + 1]  BY <1>11, <2>2
  <2>4. terms[n + 1] \in Int  BY <1>1, <2>2
  <2>5. s[n + 1] \in Int  BY <2>1, <2>3, <2>4
  <2>6. QED  BY <2>2, <2>5
<1>14. 0 .. N \subseteq V
  <2> HIDE DEF V, N
  <2> QED  BY <1>1, <1>12, <1>13, UpwardInduction
<1>15. s \in [0 .. N -> Int]  BY <1>10, <1>14
<1>16. QED  BY <1>11, <1>15 DEF s
===============================================================================
