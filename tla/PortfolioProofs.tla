--------------------------- MODULE PortfolioProofs ---------------------------
(***************************************************************************)
(* Proofs about the money an order puts at risk: before the trade, for any *)
(* portfolio, settings, readings and order of the gates; in the books of a *)
(* backtest, for any bars, signals, costs and fills; in a large order that *)
(* is cut into slices; in the purchases a sale closes, and in the pauses   *)
(* of strategies that lost; about the regime the market is taken to be in; *)
(* and about the drift of a strategy that is worth an alert.               *)
(***************************************************************************)
EXTENDS PreTrade, Backtest, Slices, Regime, Performance, Drift, DecisionProofs

-----------------------------------------------------------------------------
(***************************************************************************)
(* Sums over finite sets.  A fold takes the elements in an order of its    *)
(* own: sets by CHOOSE, sequences from the last element, and it adds what  *)
(* it takes before or after the rest.  That the sum is always the same,    *)
(* and one more element adds its number, goes by a least counterexample.   *)
(***************************************************************************)
(* The element c[s] of a subset s is taken first, and added in front or not;  *)
(* one step of the sums over the subsets, and all of them.                    *)
NextSum(s, f, c, front, g) ==
  IF s = {} THEN 0
  ELSE IF front THEN f[c[s]] + g[s \ {c[s]}] ELSE g[s \ {c[s]}] + f[c[s]]
Sums(S, f, c, front) == CHOOSE g : g = [s \in SUBSET S |-> NextSum(s, f, c, front, g)]

Chooses(S, c) == \A s \in SUBSET S : s # {} => c[s] \in s
First(s) == CHOOSE x \in s : TRUE
Firsts(S) == [s \in SUBSET S |-> First(s)]

LEMMA FirstIsIn ==
  ASSUME NEW s, s # {}
  PROVE  First(s) \in s
  BY DEF First

LEMMA FirstsChoose ==
  ASSUME NEW S
  PROVE  Chooses(S, Firsts(S))
  BY FirstIsIn DEF Chooses, Firsts

LEMMA SumIsAFold ==
  ASSUME NEW S, NEW f
  PROVE  SumOver(S, f) = Sums(S, f, Firsts(S), TRUE)[S]
<1>1. PICK c : c = Firsts(S)
  OBVIOUS
<1>2. SumOver(S, f) = (CHOOSE g : g = [s \in SUBSET S |->
                         IF s = {} THEN 0 ELSE f[First(s)] + g[s \ {First(s)}]])[S]
  BY Zenon DEF SumOver, FoldFunctionOnSet, MapThenFoldSet, First
<1>3. \A g : [s \in SUBSET S |-> IF s = {} THEN 0 ELSE f[First(s)] + g[s \ {First(s)}]]
               = [s \in SUBSET S |-> NextSum(s, f, c, TRUE, g)]
  BY <1>1 DEF NextSum, Firsts
<1>4. (CHOOSE g : g = [s \in SUBSET S |->
         IF s = {} THEN 0 ELSE f[First(s)] + g[s \ {First(s)}]])
        = (CHOOSE g : g = [s \in SUBSET S |-> NextSum(s, f, c, TRUE, g)])
  BY <1>3
<1>5. Sums(S, f, c, TRUE) = (CHOOSE g : g = [s \in SUBSET S |-> NextSum(s, f, c, TRUE, g)])
  BY DEF Sums
<1>6. QED
  BY <1>1, <1>2, <1>4, <1>5

(* Sums over all subsets of at most n elements. *)
SumsUpTo(S, f, c, front, n, g) ==
  \A s \in SUBSET S : Cardinality(s) <= n => g[s] = NextSum(s, f, c, front, g)

LEMMA SumsGrow ==
  ASSUME NEW S, IsFiniteSet(S), NEW f, NEW c, Chooses(S, c), NEW front, NEW n \in Nat, NEW g,
         SumsUpTo(S, f, c, front, n, g)
  PROVE  \E h : /\ h = [s \in SUBSET S |-> NextSum(s, f, c, front, g)]
                /\ SumsUpTo(S, f, c, front, n + 1, h)
<1>1. PICK h : h = [s \in SUBSET S |-> NextSum(s, f, c, front, g)]
  BY Zenon
<1>2. SUFFICES ASSUME NEW s \in SUBSET S, Cardinality(s) <= n + 1
               PROVE  h[s] = NextSum(s, f, c, front, h)
  BY <1>1 DEF SumsUpTo
<1>3. h[s] = NextSum(s, f, c, front, g)
  BY <1>1
<1>4. CASE s = {}
  BY <1>3, <1>4 DEF NextSum
<1>5. CASE s # {}
  <2>1. PICK r \in SUBSET S : r = s \ {c[s]}
    OBVIOUS
  <2>2. IsFiniteSet(s) /\ c[s] \in s
    BY <1>5, FS_Subset DEF Chooses
  <2>3. Cardinality(r) = Cardinality(s) - 1 /\ Cardinality(s) \in Nat
    BY <2>1, <2>2, FS_RemoveElement, FS_CardinalityType
  <2>4. g[r] = NextSum(r, f, c, front, g)
    BY <1>2, <2>3 DEF SumsUpTo
  <2>5. h[r] = g[r]
    BY <1>1, <2>4
  <2>6. QED
    BY <1>3, <1>5, <2>1, <2>5 DEF NextSum
<1>6. QED
  BY <1>4, <1>5

LEMMA SumsExist ==
  ASSUME NEW S, IsFiniteSet(S), NEW f, NEW c, Chooses(S, c), NEW front
  PROVE  \A s \in SUBSET S : Sums(S, f, c, front)[s] = NextSum(s, f, c, front, Sums(S, f, c, front))
<1> DEFINE Failing == {n \in Nat : ~\E g : SumsUpTo(S, f, c, front, n, g)}
<1>1. Failing = {}
  <2>1. SUFFICES ASSUME Failing # {} PROVE FALSE
    OBVIOUS
  <2>2. PICK n \in Failing : \A m \in Failing : n <= m
    BY <2>1, LeastNatural
  <2>3. n # 0
    <3>1. PICK g : g = [s \in SUBSET S |-> 0]
      BY Zenon
    <3>2. ASSUME NEW s \in SUBSET S, Cardinality(s) <= 0 PROVE g[s] = NextSum(s, f, c, front, g)
      <4>1. IsFiniteSet(s) /\ Cardinality(s) \in Nat
        BY FS_Subset, FS_CardinalityType
      <4>2. s = {}
        BY <3>2, <4>1, FS_EmptySet
      <4>3. QED
        BY <3>1, <4>2 DEF NextSum
    <3>3. SumsUpTo(S, f, c, front, 0, g)
      BY <3>2 DEF SumsUpTo
    <3>4. QED
      BY <3>3
  <2>4. n - 1 \in Nat /\ n - 1 \notin Failing /\ (n - 1) + 1 = n
    BY <2>2, <2>3
  <2>5. PICK g : SumsUpTo(S, f, c, front, n - 1, g)
    BY <2>4
  <2>6. \E h : SumsUpTo(S, f, c, front, (n - 1) + 1, h)
    BY <2>4, <2>5, SumsGrow
  <2>7. QED
    BY <2>4, <2>6
<1>2. PICK n \in Nat : n = Cardinality(S)
  BY FS_CardinalityType
<1>3. PICK g : SumsUpTo(S, f, c, front, n, g)
  BY <1>1
<1>4. PICK h : /\ h = [s \in SUBSET S |-> NextSum(s, f, c, front, g)]
               /\ SumsUpTo(S, f, c, front, n + 1, h)
  BY <1>3, SumsGrow
<1>5. ASSUME NEW s \in SUBSET S PROVE h[s] = NextSum(s, f, c, front, h)
  <2>1. IsFiniteSet(s) /\ Cardinality(s) \in Nat /\ Cardinality(s) <= n
    BY <1>2, FS_Subset, FS_CardinalityType
  <2>2. Cardinality(s) <= n + 1
    BY <2>1
  <2>3. QED
    BY <1>4, <2>2 DEF SumsUpTo
<1>6. h = [s \in SUBSET S |-> NextSum(s, f, c, front, h)]
  BY <1>4, <1>5, Zenon
<1>7. Sums(S, f, c, front) = [s \in SUBSET S |-> NextSum(s, f, c, front, Sums(S, f, c, front))]
  BY <1>6, Zenon DEF Sums
<1>8. PICK k : k = Sums(S, f, c, front)
  OBVIOUS
<1>9. k = [s \in SUBSET S |-> NextSum(s, f, c, front, k)]
  BY <1>7, <1>8, Zenon
<1>10. QED
  BY <1>8, <1>9

(* A family of subsets of a finite set has one none of whose parts is in it. *)
LEMMA LeastSubset ==
  ASSUME NEW S, IsFiniteSet(S), NEW B, B \subseteq SUBSET S, B # {}
  PROVE  \E T \in B : \A U \in SUBSET T : U # T => U \notin B
<1> DEFINE N == {n \in Nat : \E T \in B : Cardinality(T) = n}
<1>1. \A T \in B : IsFiniteSet(T) /\ Cardinality(T) \in Nat
  BY FS_Subset, FS_CardinalityType
<1>2. N # {} /\ N \subseteq Nat
  BY <1>1
<1>3. PICK n \in N : \A m \in N : n <= m
  BY <1>2, LeastNatural
<1>4. PICK T \in B : Cardinality(T) = n
  BY <1>3
<1>5. ASSUME NEW U \in SUBSET T, U # T, U \in B PROVE FALSE
  <2>1. Cardinality(U) < Cardinality(T)
    <3>1. Cardinality(U) <= Cardinality(T) /\ (Cardinality(T) = Cardinality(U) => T = U)
      BY <1>1, FS_Subset
    <3>2. QED
      BY <1>1, <1>5, <3>1
  <2>2. Cardinality(U) \in N
    BY <1>1, <1>5
  <2>3. QED
    BY <1>1, <1>3, <1>4, <2>1, <2>2
<1>6. QED
  BY <1>4, <1>5

LEMMA SumsAgree ==
  ASSUME NEW S, IsFiniteSet(S), NEW f, NEW T \in SUBSET S
  PROVE  \A t \in SUBSET T : Sums(S, f, Firsts(S), TRUE)[t] = Sums(T, f, Firsts(T), TRUE)[t]
<1>1. PICK g : g = Sums(S, f, Firsts(S), TRUE)
  OBVIOUS
<1>2. PICK h : h = Sums(T, f, Firsts(T), TRUE)
  OBVIOUS
<1>3. IsFiniteSet(T)
  BY FS_Subset
<1>4. /\ \A t \in SUBSET S : g[t] = NextSum(t, f, Firsts(S), TRUE, g)
      /\ \A t \in SUBSET T : h[t] = NextSum(t, f, Firsts(T), TRUE, h)
  BY <1>1, <1>2, <1>3, FirstsChoose, SumsExist
<1>0. PICK B : B = {t \in SUBSET T : g[t] # h[t]}
  OBVIOUS
<1>5. B = {}
  <2>1. SUFFICES ASSUME B # {} PROVE FALSE
    OBVIOUS
  <2>2. PICK t \in B : \A u \in SUBSET t : u # t => u \notin B
    BY <1>0, <1>3, <2>1, LeastSubset
  <2>3. CASE t = {}
    BY <1>0, <1>4, <2>2, <2>3 DEF NextSum
  <2>4. CASE t # {}
    <3>1. PICK u : u = t \ {First(t)}
      OBVIOUS
    <3>2. u \in SUBSET t /\ u # t /\ u \in SUBSET T /\ t \in SUBSET S /\ t \in SUBSET T
      BY <1>0, <2>4, <3>1, FirstIsIn
    <3>3. g[u] = h[u]
      BY <1>0, <2>2, <3>2
    <3>4. Firsts(S)[t] = First(t) /\ Firsts(T)[t] = First(t)
      BY <3>2 DEF Firsts
    <3>5. g[t] = f[First(t)] + g[u] /\ h[t] = f[First(t)] + h[u]
      BY <1>4, <2>4, <3>1, <3>2, <3>4 DEF NextSum
    <3>6. QED
      BY <1>0, <2>2, <3>3, <3>5
  <2>5. QED
    BY <2>3, <2>4
<1>6. QED
  BY <1>0, <1>1, <1>2, <1>5

(* The sum over nothing is 0, the sum over more takes its first element.     *)
LEMMA SumStep ==
  ASSUME NEW S, IsFiniteSet(S), NEW f
  PROVE  SumOver(S, f) = IF S = {} THEN 0
                         ELSE f[First(S)] + SumOver(S \ {First(S)}, f)
<1>1. PICK g : g = Sums(S, f, Firsts(S), TRUE)
  OBVIOUS
<1>2. g[S] = NextSum(S, f, Firsts(S), TRUE, g)
  <2>1. S \in SUBSET S
    OBVIOUS
  <2>2. QED
    BY <1>1, <2>1, FirstsChoose, SumsExist
<1>3. SumOver(S, f) = g[S]
  BY <1>1, SumIsAFold
<1>4. CASE S = {}
  BY <1>2, <1>3, <1>4 DEF NextSum
<1>5. CASE S # {}
  <2>1. PICK T : T = S \ {First(S)}
    OBVIOUS
  <2>2. T \in SUBSET S /\ T \in SUBSET T
    BY <2>1
  <2>3. g[T] = Sums(T, f, Firsts(T), TRUE)[T]
    BY <1>1, <2>2, SumsAgree
  <2>4. g[T] = SumOver(T, f)
    BY <2>3, SumIsAFold
  <2>5. Firsts(S)[S] = First(S)
    BY DEF Firsts
  <2>6. QED
    BY <1>2, <1>3, <1>5, <2>1, <2>4, <2>5 DEF NextSum
<1>6. QED
  BY <1>4, <1>5

LEMMA SumOfNothing ==
  ASSUME NEW f
  PROVE  SumOver({}, f) = 0
  BY SumStep, FS_EmptySet

LEMMA SumIsANumber ==
  ASSUME NEW S, IsFiniteSet(S), NEW f, \A x \in S : f[x] \in Int
  PROVE  SumOver(S, f) \in Int
<1>0. PICK B : B = {T \in SUBSET S : SumOver(T, f) \notin Int}
  OBVIOUS
<1>1. SUFFICES ASSUME B # {} PROVE FALSE
  BY <1>0
<1>2. PICK T \in B : \A U \in SUBSET T : U # T => U \notin B
  <2>1. B \subseteq SUBSET S
    BY <1>0
  <2>2. QED
    BY <1>1, <2>1, LeastSubset
<1>3. T \in SUBSET S /\ IsFiniteSet(T)
  BY <1>0, FS_Subset
<1>4. T # {}
  <2>1. SUFFICES ASSUME T = {} PROVE FALSE
    OBVIOUS
  <2>2. SumOver(T, f) = 0
    BY <2>1, SumOfNothing
  <2>3. SumOver(T, f) \notin Int
    BY <1>0, <1>2
  <2>4. QED
    BY <2>2, <2>3
<1>5. PICK p : p = First(T)
  OBVIOUS
<1>6. PICK U : U = T \ {p}
  OBVIOUS
<1>7. p \in T /\ U \in SUBSET T /\ U # T /\ U \in SUBSET S
  BY <1>3, <1>4, <1>5, <1>6, FirstIsIn
<1>8. SumOver(U, f) \in Int
  BY <1>0, <1>2, <1>7
<1>9. SumOver(T, f) = f[p] + SumOver(U, f)
  BY <1>3, <1>4, <1>5, <1>6, SumStep
<1>10. QED
  BY <1>0, <1>2, <1>7, <1>8, <1>9

(* Sums of natural numbers are natural.                                      *)
LEMMA SumIsNatural ==
  ASSUME NEW S, IsFiniteSet(S), NEW f, \A x \in S : f[x] \in Nat
  PROVE  SumOver(S, f) \in Nat
<1>0. PICK B : B = {T \in SUBSET S : SumOver(T, f) \notin Nat}
  OBVIOUS
<1>1. SUFFICES ASSUME B # {} PROVE FALSE
  BY <1>0
<1>2. PICK T \in B : \A U \in SUBSET T : U # T => U \notin B
  <2>1. B \subseteq SUBSET S
    BY <1>0
  <2>2. QED
    BY <1>1, <2>1, LeastSubset
<1>3. T \in SUBSET S /\ IsFiniteSet(T)
  BY <1>0, FS_Subset
<1>4. T # {}
  <2>1. SUFFICES ASSUME T = {} PROVE FALSE
    OBVIOUS
  <2>2. SumOver(T, f) = 0
    BY <2>1, SumOfNothing
  <2>3. SumOver(T, f) \notin Nat
    BY <1>0, <1>2
  <2>4. QED
    BY <2>2, <2>3
<1>5. PICK p : p = First(T)
  OBVIOUS
<1>6. PICK U : U = T \ {p}
  OBVIOUS
<1>7. p \in T /\ U \in SUBSET T /\ U # T /\ U \in SUBSET S
  BY <1>3, <1>4, <1>5, <1>6, FirstIsIn
<1>8. SumOver(U, f) \in Nat
  BY <1>0, <1>2, <1>7
<1>9. SumOver(T, f) = f[p] + SumOver(U, f)
  BY <1>3, <1>4, <1>5, <1>6, SumStep
<1>10. QED
  BY <1>0, <1>2, <1>7, <1>8, <1>9

(* Any element may be taken first.                                           *)
LEMMA SumWithout ==
  ASSUME NEW S, IsFiniteSet(S), NEW f, \A x \in S : f[x] \in Int, NEW y \in S
  PROVE  SumOver(S, f) = f[y] + SumOver(S \ {y}, f)
<1>0. PICK B : B = {T \in SUBSET S : \E x \in T : SumOver(T, f) # f[x] + SumOver(T \ {x}, f)}
  OBVIOUS
<1>1. SUFFICES ASSUME B # {} PROVE FALSE
  BY <1>0
<1>2. PICK T \in B : \A U \in SUBSET T : U # T => U \notin B
  <2>1. B \subseteq SUBSET S
    BY <1>0
  <2>2. QED
    BY <1>1, <2>1, LeastSubset
<1>3. PICK x \in T : SumOver(T, f) # f[x] + SumOver(T \ {x}, f)
  BY <1>0, <1>2
<1>4. IsFiniteSet(T) /\ T # {} /\ T \in SUBSET S
  BY <1>0, <1>3, FS_Subset
<1>5. PICK p : p = First(T)
  OBVIOUS
<1>6. p \in T /\ SumOver(T, f) = f[p] + SumOver(T \ {p}, f)
  BY <1>4, <1>5, FirstIsIn, SumStep
<1>7. x # p
  BY <1>3, <1>6
<1>8. PICK U : U = T \ {p}
  OBVIOUS
<1>9. PICK V : V = T \ {x}
  OBVIOUS
<1>10. PICK W : W = U \ {x}
  OBVIOUS
<1>11. /\ U \in SUBSET T /\ U # T /\ V \in SUBSET T /\ V # T /\ x \in U /\ p \in V
       /\ U \in SUBSET S /\ V \in SUBSET S /\ W \in SUBSET S /\ V \ {p} = W
  BY <1>4, <1>6, <1>7, <1>8, <1>9, <1>10
<1>12. SumOver(U, f) = f[x] + SumOver(W, f)
  <2>1. U \notin B
    BY <1>2, <1>11
  <2>2. \A z \in U : SumOver(U, f) = f[z] + SumOver(U \ {z}, f)
    BY <1>0, <1>11, <2>1
  <2>3. QED
    BY <1>10, <1>11, <2>2
<1>13. SumOver(V, f) = f[p] + SumOver(W, f)
  <2>1. V \notin B
    BY <1>2, <1>11
  <2>2. \A z \in V : SumOver(V, f) = f[z] + SumOver(V \ {z}, f)
    BY <1>0, <1>11, <2>1
  <2>3. QED
    BY <1>11, <2>2
<1>14. SumOver(W, f) \in Int
  <2>1. IsFiniteSet(W) /\ \A z \in W : f[z] \in Int
    BY <1>11, FS_Subset
  <2>2. QED
    BY <2>1, SumIsANumber
<1>15. f[x] \in Int /\ f[p] \in Int
  BY <1>4, <1>6
<1>16. SumOver(T, f) = f[p] + (f[x] + SumOver(W, f))
  BY <1>6, <1>8, <1>12
<1>17. SumOver(T, f) # f[x] + (f[p] + SumOver(W, f))
  BY <1>3, <1>9, <1>13
<1>18. QED
  BY <1>14, <1>15, <1>16, <1>17

(* Whatever is taken first, and on which side it is added: the sum is one.    *)
LEMMA SumsAreTheSame ==
  ASSUME NEW S, IsFiniteSet(S), NEW f, \A x \in S : f[x] \in Int, NEW c, Chooses(S, c),
         NEW front \in BOOLEAN
  PROVE  Sums(S, f, c, front)[S] = SumOver(S, f)
<1>1. PICK g : g = Sums(S, f, c, front)
  OBVIOUS
<1>2. \A s \in SUBSET S : g[s] = NextSum(s, f, c, front, g)
  BY <1>1, SumsExist
<1>3. PICK B : B = {T \in SUBSET S : g[T] # SumOver(T, f)}
  OBVIOUS
<1>4. SUFFICES ASSUME B # {} PROVE FALSE
  BY <1>1, <1>3
<1>5. PICK T \in B : \A U \in SUBSET T : U # T => U \notin B
  <2>1. B \subseteq SUBSET S
    BY <1>3
  <2>2. QED
    BY <1>4, <2>1, LeastSubset
<1>6. T \in SUBSET S /\ IsFiniteSet(T) /\ g[T] # SumOver(T, f) /\ g[T] = NextSum(T, f, c, front, g)
  BY <1>2, <1>3, FS_Subset
<1>7. T # {}
  BY <1>6, SumOfNothing DEF NextSum
<1>8. PICK x, U : x = c[T] /\ U = T \ {x}
  OBVIOUS
<1>9. x \in T /\ U \in SUBSET T /\ U # T /\ U \in SUBSET S
  BY <1>6, <1>7, <1>8 DEF Chooses
<1>10. g[U] = SumOver(U, f)
  BY <1>3, <1>5, <1>9
<1>11. SumOver(U, f) \in Int /\ f[x] \in Int
  <2>1. x \in S /\ \A y \in U : y \in S
    BY <1>6, <1>9
  <2>2. IsFiniteSet(U) /\ (\A y \in U : f[y] \in Int) /\ f[x] \in Int
    BY <1>9, <2>1, FS_Subset
  <2>3. QED
    BY <2>2, SumIsANumber
<1>12. SumOver(T, f) = f[x] + SumOver(U, f)
  <2>1. \A y \in T : f[y] \in Int
    BY <1>6
  <2>2. SumOver(T, f) = f[x] + SumOver(T \ {x}, f)
    BY <1>6, <1>9, <2>1, SumWithout, Zenon
  <2>3. QED
    BY <1>8, <2>2
<1>13. CASE front
  <2>1. g[T] = f[x] + g[U]
    BY <1>6, <1>7, <1>8, <1>13 DEF NextSum
  <2>2. QED
    BY <1>6, <1>10, <1>12, <2>1
<1>14. CASE ~front
  <2>1. g[T] = g[U] + f[x]
    BY <1>6, <1>7, <1>8, <1>14 DEF NextSum
  <2>2. g[T] = f[x] + SumOver(U, f)
    BY <1>10, <1>11, <2>1
  <2>3. QED
    BY <1>6, <1>12, <2>2
<1>15. QED
  BY <1>13, <1>14

(* One more element adds its number.                                         *)
LEMMA SumWithOneMore ==
  ASSUME NEW S, IsFiniteSet(S), NEW f, NEW y, y \notin S, \A x \in S \cup {y} : f[x] \in Int
  PROVE  SumOver(S \cup {y}, f) = SumOver(S, f) + f[y]
<1>1. PICK T : T = S \cup {y}
  OBVIOUS
<1>2. IsFiniteSet(T) /\ y \in T /\ T \ {y} = S /\ f[y] \in Int
  BY <1>1, FS_AddElement
<1>3. SumOver(T, f) = f[y] + SumOver(T \ {y}, f)
  BY <1>1, <1>2, SumWithout
<1>4. SumOver(S, f) \in Int
  BY SumIsANumber
<1>5. SumOver(T, f) = f[y] + SumOver(S, f)
  BY <1>2, <1>3
<1>6. QED
  BY <1>1, <1>2, <1>4, <1>5

(* Greater numbers have no lesser sum, and equal ones the same.              *)
LEMMA SumIsMonotone ==
  ASSUME NEW S, IsFiniteSet(S), NEW f, NEW g,
         \A x \in S : f[x] \in Int /\ g[x] \in Int /\ f[x] <= g[x]
  PROVE  SumOver(S, f) <= SumOver(S, g)
<1>0. PICK B : B = {T \in SUBSET S : ~(SumOver(T, f) <= SumOver(T, g))}
  OBVIOUS
<1>1. SUFFICES ASSUME B # {} PROVE FALSE
  BY <1>0
<1>2. PICK T \in B : \A U \in SUBSET T : U # T => U \notin B
  <2>1. B \subseteq SUBSET S
    BY <1>0
  <2>2. QED
    BY <1>1, <2>1, LeastSubset
<1>3. T \in SUBSET S /\ IsFiniteSet(T)
  BY <1>0, FS_Subset
<1>4. T # {}
  <2>1. SUFFICES ASSUME T = {} PROVE FALSE
    OBVIOUS
  <2>2. SumOver(T, f) = 0 /\ SumOver(T, g) = 0
    BY <2>1, SumOfNothing
  <2>3. ~(SumOver(T, f) <= SumOver(T, g))
    BY <1>0, <1>2
  <2>4. QED
    BY <2>2, <2>3
<1>5. PICK p : p = First(T)
  OBVIOUS
<1>6. PICK U : U = T \ {p}
  OBVIOUS
<1>7. p \in T /\ U \in SUBSET T /\ U # T /\ U \in SUBSET S
  BY <1>3, <1>4, <1>5, <1>6, FirstIsIn
<1>8. SumOver(U, f) <= SumOver(U, g)
  BY <1>0, <1>2, <1>7
<1>9. SumOver(U, f) \in Int /\ SumOver(U, g) \in Int
  <2>1. IsFiniteSet(U) /\ \A z \in U : f[z] \in Int /\ g[z] \in Int
    BY <1>7, FS_Subset
  <2>2. QED
    BY <2>1, SumIsANumber
<1>10. SumOver(T, f) = f[p] + SumOver(U, f) /\ SumOver(T, g) = g[p] + SumOver(U, g)
  BY <1>3, <1>4, <1>5, <1>6, SumStep
<1>11. f[p] \in Int /\ g[p] \in Int /\ f[p] <= g[p]
  BY <1>3, <1>7
<1>12. QED
  BY <1>0, <1>2, <1>8, <1>9, <1>10, <1>11

LEMMA SumsOfEqualsAgree ==
  ASSUME NEW S, IsFiniteSet(S), NEW f, NEW g, \A x \in S : f[x] = g[x]
  PROVE  SumOver(S, f) = SumOver(S, g)
<1>0. PICK B : B = {T \in SUBSET S : SumOver(T, f) # SumOver(T, g)}
  OBVIOUS
<1>1. SUFFICES ASSUME B # {} PROVE FALSE
  BY <1>0
<1>2. PICK T \in B : \A U \in SUBSET T : U # T => U \notin B
  <2>1. B \subseteq SUBSET S
    BY <1>0
  <2>2. QED
    BY <1>1, <2>1, LeastSubset
<1>3. T \in SUBSET S /\ IsFiniteSet(T)
  BY <1>0, FS_Subset
<1>4. T # {}
  <2>1. SUFFICES ASSUME T = {} PROVE FALSE
    OBVIOUS
  <2>2. SumOver(T, f) = 0 /\ SumOver(T, g) = 0
    BY <2>1, SumOfNothing
  <2>3. SumOver(T, f) # SumOver(T, g)
    BY <1>0, <1>2
  <2>4. QED
    BY <2>2, <2>3
<1>5. PICK p : p = First(T)
  OBVIOUS
<1>6. PICK U : U = T \ {p}
  OBVIOUS
<1>7. p \in T /\ U \in SUBSET T /\ U # T /\ U \in SUBSET S
  BY <1>3, <1>4, <1>5, <1>6, FirstIsIn
<1>8. SumOver(U, f) = SumOver(U, g)
  BY <1>0, <1>2, <1>7
<1>9. SumOver(T, f) = f[p] + SumOver(U, f) /\ SumOver(T, g) = g[p] + SumOver(U, g)
  BY <1>3, <1>4, <1>5, <1>6, SumStep
<1>10. QED
  BY <1>0, <1>2, <1>7, <1>8, <1>9

(* What becomes of a sum when one element comes, goes or changes.            *)
LEMMA SumChanges ==
  ASSUME NEW S, NEW T, IsFiniteSet(S), IsFiniteSet(T), NEW y, S \ {y} = T \ {y}, NEW f, NEW g,
         \A x \in S : f[x] \in Int, \A x \in T : g[x] \in Int,
         \A x \in S \ {y} : f[x] = g[x]
  PROVE  /\ SumOver(S, f) \in Int /\ SumOver(T, g) \in Int
         /\ SumOver(T, g) = SumOver(S, f) + (IF y \in T THEN g[y] ELSE 0)
                                          - (IF y \in S THEN f[y] ELSE 0)
<1>1. PICK R : R = S \ {y} /\ R = T \ {y}
  OBVIOUS
<1>2. IsFiniteSet(R) /\ \A x \in R : f[x] \in Int /\ g[x] \in Int /\ f[x] = g[x]
  BY <1>1, FS_Subset
<1>3. PICK r \in Int : r = SumOver(R, f) /\ r = SumOver(R, g)
  BY <1>2, SumIsANumber, SumsOfEqualsAgree
<1>4. ASSUME y \in S PROVE SumOver(S, f) = f[y] + r /\ f[y] \in Int
  <2>1. SumOver(S, f) = f[y] + SumOver(S \ {y}, f)
    BY <1>4, SumWithout
  <2>2. QED
    BY <1>1, <1>3, <1>4, <2>1
<1>5. ASSUME y \in T PROVE SumOver(T, g) = g[y] + r /\ g[y] \in Int
  <2>1. SumOver(T, g) = g[y] + SumOver(T \ {y}, g)
    BY <1>5, SumWithout
  <2>2. QED
    BY <1>1, <1>3, <1>5, <2>1
<1>6. y \notin S => SumOver(S, f) = r
  BY <1>1, <1>3
<1>7. y \notin T => SumOver(T, g) = r
  BY <1>1, <1>3
<1>8. PICK a \in Int, b \in Int : a = SumOver(S, f) /\ b = SumOver(T, g)
  BY SumIsANumber
<1>9. PICK c \in Int : c = IF y \in S THEN f[y] ELSE 0
  BY <1>4
<1>10. PICK d \in Int : d = IF y \in T THEN g[y] ELSE 0
  BY <1>5
<1>11. a = c + r
  BY <1>4, <1>6, <1>8, <1>9
<1>12. b = d + r
  BY <1>5, <1>7, <1>8, <1>10
<1>13. QED
  BY <1>8, <1>9, <1>10, <1>11, <1>12

-----------------------------------------------------------------------------
(***************************************************************************)
(* Orders before the trade.                                                *)
(***************************************************************************)

LEMMA MinOfTwoNumbers ==
  ASSUME NEW x \in Int, NEW y \in Int, x <= y
  PROVE  Min({x, y}) = x
<1>1. x \in {x, y} /\ \A w \in {x, y} : x <= w
  OBVIOUS
<1>2. \A z \in {x, y} : (\A w \in {x, y} : z <= w) => z = x
  OBVIOUS
<1>3. QED
  BY <1>1, <1>2 DEF Min

(* A quotient is below a number where the dividend is below the product.     *)
LEMMA QuotientIsBelow ==
  ASSUME NEW n \in Int, NEW d \in Int, d > 0, NEW m \in Int
  PROVE  n \div d < m <=> n < d * m
<1>1. PICK k \in Int, r \in 0..(d - 1) : n \div d = k /\ n = d * k + r
  BY DivisionWithRest
<1>2. ASSUME k <= m - 1 PROVE n < d * m
  <2>1. d * k <= d * (m - 1)
    BY <1>2
  <2>2. d * (m - 1) = d * m - d
    OBVIOUS
  <2>3. QED
    BY <1>1, <2>1, <2>2
<1>3. ASSUME k >= m PROVE n >= d * m
  <2>1. d * k >= d * m
    BY <1>3
  <2>2. QED
    BY <1>1, <2>1
<1>4. QED
  BY <1>1, <1>2, <1>3

LEMMA QuotientIsWithin ==
  ASSUME NEW n \in Nat, NEW d \in Nat \ {0}
  PROVE  n \div d \in Nat /\ d * (n \div d) <= n
<1>1. PICK k \in Int, r \in 0..(d - 1) : n \div d = k /\ n = d * k + r
  BY DivisionWithRest
<1>2. k >= 0
  <2>1. SUFFICES ASSUME k <= -1 PROVE FALSE
    OBVIOUS
  <2>2. d * k <= d * (-1)
    BY <2>1
  <2>3. QED
    BY <1>1, <2>2
<1>3. QED
  BY <1>1, <1>2

LEMMA ProductIsMonotone ==
  ASSUME NEW x \in Nat, NEW y \in Nat, NEW d \in Nat, x <= y
  PROVE  x * d <= y * d
  OBVIOUS

-----------------------------------------------------------------------------
(* Sizes.                                                                    *)

LEMMA CapIsANumber == Cap \in Nat /\ 1000 * Cap <= Equity * PositionCap
<1>1. PICK n \in Nat : n = Equity * PositionCap
  BY PreTradeAssumption
<1>2. PICK d \in Nat \ {0} : d = 1000
  OBVIOUS
<1>3. n \div d \in Nat /\ d * (n \div d) <= n
  BY QuotientIsWithin
<1>4. Cap = n \div d
  BY <1>1, <1>2 DEF Cap
<1>5. QED
  BY <1>1, <1>2, <1>3, <1>4

(* No trade risks more than its share of the equity, nor exceeds its cap.    *)
LEMMA TradeIsLimited ==
  ASSUME NEW st \in Nat \ {0}
  PROVE  /\ FixedFractional(st) \in Nat /\ FixedFractional(st) <= Cap
         /\ FixedFractional(st) * st <= Equity * MaxTradeRisk
<1>1. PICK n \in Nat : n = Equity * MaxTradeRisk
  BY PreTradeAssumption
<1>2. PICK k \in Nat : k = n \div st /\ st * k <= n
  BY QuotientIsWithin
<1>3. PICK c \in Nat : c = Cap
  BY CapIsANumber
<1>4. FixedFractional(st) = Min({k, c})
  BY <1>1, <1>2, <1>3 DEF FixedFractional
<1>5. PICK m \in Nat : m = Min({k, c}) /\ m <= k /\ m <= c
  BY LesserOfTwo
<1>6. m * st <= k * st
  BY <1>5, ProductIsMonotone
<1>7. k * st = st * k
  OBVIOUS
<1>8. QED
  BY <1>1, <1>2, <1>3, <1>4, <1>5, <1>6, <1>7

(* The shares of a signal, in money, keep all limits of one trade.           *)
LEMMA SharesAreLimited ==
  ASSUME NEW st \in Nat \ {0}, NEW quote \in Nat \ {0}, Remaining \in Int
  PROVE  /\ Shares(st, quote) \in Nat
         /\ Shares(st, quote) * quote <= FixedFractional(st)
         /\ Remaining <= 0 => Shares(st, quote) = 0
         /\ Remaining > 0 => (Shares(st, quote) * quote) * st <= Remaining
<1>1. PICK f \in Nat : f = FixedFractional(st)
  BY TradeIsLimited
<1>2. CASE Remaining <= 0
  <2>1. Shares(st, quote) = 0
    BY <1>2 DEF Shares
  <2>2. QED
    BY <1>1, <1>2, <2>1
<1>3. CASE Remaining > 0
  <2>1. PICK r \in Nat : r = Remaining
    BY <1>3
  <2>2. PICK k \in Nat : k = r \div st /\ st * k <= r
    BY QuotientIsWithin
  <2>3. PICK m \in Nat : m = Min({f, k}) /\ m <= f /\ m <= k
    <3>1. Min({f, k}) \in Nat /\ Min({f, k}) <= f /\ Min({f, k}) <= k
      BY LesserOfTwo
    <3>2. QED
      BY <3>1, Zenon
  <2>4. PICK n \in Nat : n = m \div quote /\ quote * n <= m
    <3>1. m \div quote \in Nat /\ quote * (m \div quote) <= m
      BY QuotientIsWithin
    <3>2. QED
      BY <3>1, Zenon
  <2>5. Shares(st, quote) = n
    <3>1. ~(Remaining <= 0)
      BY <1>3
    <3>2. Shares(st, quote) = Min({FixedFractional(st), Remaining \div st}) \div quote
      BY <3>1, Zenon DEF Shares
    <3>3. QED
      BY <1>1, <2>1, <2>2, <2>3, <2>4, <3>2, Zenon
  <2>6. PICK v \in Nat : v = n * quote /\ v <= m
    BY <2>4
  <2>7. v * st <= k * st /\ k * st = st * k
    BY <2>3, <2>6, ProductIsMonotone
  <2>8. v <= f /\ v * st <= r
    BY <2>2, <2>3, <2>6, <2>7
  <2>9. QED
    BY <1>1, <1>3, <2>1, <2>5, <2>6, <2>8
<1>4. QED
  BY <1>2, <1>3

(* Half shares of an order no greater than the signal keep them as well.     *)
LEMMA OrderIsLimited ==
  ASSUME NEW st \in Nat \ {0}, NEW quote \in Nat \ {0}, Remaining \in Int,
         NEW qty \in Nat \ {0}, qty <= 2 * Shares(st, quote)
  PROVE  LET v == (qty * quote) \div 2
         IN /\ v \in Nat /\ v <= Cap /\ v * st <= Equity * MaxTradeRisk
            /\ v * st <= Remaining
<1>1. PICK n \in Nat : n = Shares(st, quote)
  BY SharesAreLimited
<1>2. PICK v \in Nat : v = (qty * quote) \div 2 /\ 2 * v <= qty * quote
  <2>1. qty * quote \in Nat
    OBVIOUS
  <2>2. QED
    BY <2>1, QuotientIsWithin
<1>3. PICK w \in Nat : w = n * quote
  OBVIOUS
<1>4. v <= w
  <2>1. qty * quote <= (2 * n) * quote
    BY <1>1, ProductIsMonotone
  <2>2. (2 * n) * quote = 2 * w
    BY <1>3
  <2>3. QED
    BY <1>2, <2>1, <2>2
<1>5. PICK f \in Nat : f = FixedFractional(st) /\ f <= Cap /\ f * st <= Equity * MaxTradeRisk
  BY TradeIsLimited
<1>6. Remaining > 0 /\ w <= f /\ w * st <= Remaining
  <2>1. n > 0
    BY <1>1
  <2>2. QED
    BY <1>1, <1>3, <1>5, <2>1, SharesAreLimited
<1>7. v * st <= w * st /\ w * st <= f * st /\ v * st \in Nat /\ w * st \in Nat /\ f * st \in Nat
  BY <1>4, <1>6, ProductIsMonotone
<1>8. Equity * MaxTradeRisk \in Nat
  BY PreTradeAssumption
<1>9. v <= Cap
  BY <1>4, <1>5, <1>6, CapIsANumber
<1>10. v * st <= Equity * MaxTradeRisk /\ v * st <= Remaining
  BY <1>5, <1>6, <1>7, <1>8
<1>11. QED
  BY <1>2, <1>9, <1>10

-----------------------------------------------------------------------------
(***************************************************************************)
(* The gateway.  Its quantity after each gate is a recursive function: it  *)
(* exists, and what it says of the last gate holds of every one before.    *)
(***************************************************************************)

(* One gate: what was rejected stays rejected. *)
Forwarded(g, q, r) == IF q = 0 \/ Rejects(g, q, r) THEN 0 ELSE Modified(g, q, r)
Follows(n, q, r, f) ==
  f = [i \in 0..n |-> IF i = 0 THEN q ELSE Forwarded(gateway[i], f[i - 1], r)]

LEMMA QuantitiesExist ==
  ASSUME NEW q, NEW r, NEW n \in Nat
  PROVE  \E f : Follows(n, q, r, f)
<1> DEFINE Failing == {m \in Nat : ~\E f : Follows(m, q, r, f)}
<1>1. SUFFICES ASSUME Failing # {} PROVE FALSE
  OBVIOUS
<1>2. PICK m \in Failing : \A k \in Failing : m <= k
  BY <1>1, LeastNatural
<1>3. m # 0
  <2>1. PICK f : f = [i \in 0..0 |-> q]
    BY Zenon
  <2>2. f = [i \in 0..0 |-> IF i = 0 THEN q ELSE Forwarded(gateway[i], f[i - 1], r)]
    BY <2>1
  <2>3. QED
    BY <2>2 DEF Follows
<1>4. m - 1 \in Nat /\ m - 1 \notin Failing /\ m \in Nat
  BY <1>2, <1>3
<1>5. PICK f : Follows(m - 1, q, r, f)
  BY <1>4
<1>6. PICK h : h = [i \in 0..m |-> IF i = 0 THEN q ELSE Forwarded(gateway[i], f[i - 1], r)]
  BY Zenon
<1>7. ASSUME NEW i \in 0..m, i # 0 PROVE h[i - 1] = f[i - 1]
  <2>1. i - 1 \in 0..(m - 1) /\ i - 1 \in 0..m
    BY <1>4, <1>7
  <2>2. \A j \in 0..(m - 1) : f[j] = IF j = 0 THEN q ELSE Forwarded(gateway[j], f[j - 1], r)
    BY <1>5 DEF Follows
  <2>3. \A j \in 0..m : h[j] = IF j = 0 THEN q ELSE Forwarded(gateway[j], f[j - 1], r)
    BY <1>6
  <2>4. QED
    BY <2>1, <2>2, <2>3, Zenon
<1>8. h = [i \in 0..m |-> IF i = 0 THEN q ELSE Forwarded(gateway[i], h[i - 1], r)]
  BY <1>6, <1>7
<1>9. QED
  BY <1>2, <1>8 DEF Follows

(* The gates that are known, and what they read of the market.               *)
Readable(r) == r.adv \in Nat

(* Less is not rejected where more is not, and no gate forwards more.        *)
LEMMA LessIsNotRejected ==
  ASSUME NEW g \in GateNames, NEW r, Readable(r), NEW p \in Nat, NEW q \in Nat, p <= q,
         ~Rejects(g, q, r)
  PROVE  ~Rejects(g, p, r)
<1>1. TooThin(p, r) => TooThin(q, r)
  <2>1. PICK v \in Nat : v = r.adv
    BY DEF Readable
  <2>2. v > 0 /\ 25 * p > v => v > 0 /\ 25 * q > v
    OBVIOUS
  <2>3. QED
    BY <2>1, <2>2 DEF TooThin
<1>2. QED
  BY <1>1, Zenon DEF Rejects, GateNames

LEMMA NoMoreIsForwarded ==
  ASSUME NEW g, NEW r, NEW q \in Nat
  PROVE  Forwarded(g, q, r) \in Nat /\ Forwarded(g, q, r) <= q
<1>1. q \div 2 \in Nat /\ q \div 2 <= q
  OBVIOUS
<1>2. Modified(g, q, r) \in {q, q \div 2}
  BY Zenon DEF Modified
<1>3. Forwarded(g, q, r) \in {0, q, q \div 2}
  BY <1>2, Zenon DEF Forwarded
<1>4. QED
  BY <1>1, <1>3

(* A quantity that is left after some gates was rejected by none of them.    *)
LEMMA QuantitiesPass ==
  ASSUME NEW n \in Nat, \A i \in 1..n : gateway[i] \in GateNames,
         NEW q \in Nat, NEW r, Readable(r), NEW f, Follows(n, q, r, f)
  PROVE  /\ f[n] \in Nat /\ f[n] <= q
         /\ f[n] > 0 => \A i \in 1..n : ~Rejects(gateway[i], f[n], r)
<1> DEFINE Good(m) == /\ f[m] \in Nat /\ f[m] <= q
                      /\ f[m] > 0 => \A i \in 1..m : ~Rejects(gateway[i], f[m], r)
           Failing == {m \in 0..n : ~Good(m)}
<1>0. \A m \in 0..n : f[m] = IF m = 0 THEN q ELSE Forwarded(gateway[m], f[m - 1], r)
  BY DEF Follows
<1>1. SUFFICES ASSUME Failing # {} PROVE FALSE
  <2>1. n \in 0..n
    OBVIOUS
  <2>2. QED
    BY <2>1, Zenon
<1>2. PICK m \in Failing : \A k \in Failing : m <= k
  <2>1. Failing \subseteq Nat
    OBVIOUS
  <2>2. QED
    BY <1>1, <2>1, LeastNatural
<1>3. m # 0
  <2>1. SUFFICES ASSUME m = 0 PROVE FALSE
    OBVIOUS
  <2>2. f[0] = q
    BY <1>0
  <2>3. Good(0)
    BY <2>2
  <2>4. QED
    BY <1>2, <2>1, <2>3
<1>4. m \in 1..n /\ m - 1 \in 0..n /\ m - 1 \notin Failing
  BY <1>2, <1>3
<1>5. Good(m - 1)
  BY <1>4
<1>6. f[m] = Forwarded(gateway[m], f[m - 1], r)
  BY <1>0, <1>2, <1>3
<1>7. f[m] \in Nat /\ f[m] <= f[m - 1] /\ f[m - 1] \in Nat /\ f[m - 1] <= q
  BY <1>5, <1>6, NoMoreIsForwarded
<1>8. ASSUME f[m] > 0, NEW i \in 1..m PROVE ~Rejects(gateway[i], f[m], r)
  <2>1. gateway[i] \in GateNames
    BY <1>4
  <2>2. f[m - 1] > 0
    BY <1>7, <1>8
  <2>3. ~Rejects(gateway[i], f[m - 1], r)
    <3>1. CASE i = m
      <4>1. f[m] # 0
        BY <1>8
      <4>2. QED
        BY <1>6, <3>1, <4>1, Zenon DEF Forwarded
    <3>2. CASE i # m
      <4>1. i \in 1..(m - 1)
        BY <1>4, <3>2
      <4>2. QED
        BY <1>5, <2>2, <4>1
    <3>3. QED
      BY <3>1, <3>2
  <2>4. QED
    BY <1>7, <2>1, <2>3, LessIsNotRejected
<1>9. Good(m)
  <2>1. f[m] <= q
    BY <1>7
  <2>2. QED
    BY <1>7, <1>8, <2>1
<1>10. QED
  BY <1>2, <1>9

LEMMA AdmittedPasses ==
  ASSUME gateway \in Seq(GateNames), NEW q \in Nat, NEW r, Readable(r)
  PROVE  /\ Admitted(q, r) \in Nat /\ Admitted(q, r) <= q
         /\ Admitted(q, r) > 0 =>
              \A i \in DOMAIN gateway : ~Rejects(gateway[i], Admitted(q, r), r)
<1>1. PICK n \in Nat : n = Len(gateway)
  OBVIOUS
<1>2. DOMAIN gateway = 1..n /\ \A i \in 1..n : gateway[i] \in GateNames
  BY <1>1
<1>3. PICK f : f = CHOOSE h : Follows(n, q, r, h)
  OBVIOUS
<1>4. Follows(n, q, r, f)
  BY <1>3, QuantitiesExist
<1>5. Admitted(q, r) = f[n]
  BY <1>1, <1>3, Zenon DEF Admitted, Follows, Forwarded
<1>6. QED
  BY <1>2, <1>4, <1>5, QuantitiesPass

-----------------------------------------------------------------------------
(***************************************************************************)
(* The orders of one scan.                                                 *)
(***************************************************************************)
Typed(o) == /\ o.qty \in Nat \ {0} /\ o.price \in Nat \ {0}
            /\ o.stop \in Nat \ {0} /\ o.stop >= HardFloor
Noted(o) == o.qty \in Nat /\ o.price \in Nat /\ o.stop \in Nat

PreInv ==
  /\ gateway \in {Gates, Phase1Gates} /\ blind \in Nat
  /\ order = [s \in Symbols |-> order[s]] /\ booked = [s \in Symbols |-> booked[s]]
  /\ held \subseteq Sent /\ held = {s \in Symbols : booked[s] # NoOrder}
  /\ \A s \in Sent : Typed(order[s])
  /\ \A s \in held : Noted(booked[s])
  /\ RiskStaysInBudget /\ ConcentrationIsLimited /\ SentOrdersPass

LEMMA ValuesAreNumbers ==
  ASSUME NEW o, Noted(o)
  PROVE  (o.qty * o.price) \div 2 \in Nat /\ ((o.qty * o.price) \div 2) * o.stop \in Nat
<1>1. PICK q \in Nat, p \in Nat, st \in Nat : q = o.qty /\ p = o.price /\ st = o.stop
  BY DEF Noted
<1>2. PICK n \in Nat : n = q * p
  OBVIOUS
<1>3. PICK v \in Nat : v = n \div 2
  OBVIOUS
<1>4. v * st \in Nat
  OBVIOUS
<1>5. QED
  BY <1>1, <1>2, <1>3, <1>4

(* The sum over a set that grows by one, of numbers that stay. *)
LEMMA GrownSum ==
  ASSUME NEW S, IsFiniteSet(S), NEW y, y \notin S, NEW T, T = S \cup {y},
         NEW f, NEW g, \A x \in S : f[x] = g[x] /\ g[x] \in Int, g[y] \in Int
  PROVE  SumOver(T, g) = SumOver(S, f) + g[y] /\ SumOver(S, f) \in Int
<1>1. SumOver(S, f) = SumOver(S, g)
  BY SumsOfEqualsAgree
<1>2. SumOver(S \cup {y}, g) = SumOver(S, g) + g[y]
  BY SumWithOneMore
<1>3. SumOver(S, g) \in Int
  BY SumIsANumber
<1>4. QED
  BY <1>1, <1>2, <1>3

LEMMA OrdersAreFinite ==
  ASSUME PreInv
  PROVE  /\ IsFiniteSet(Sent) /\ IsFiniteSet(held) /\ held \subseteq Sent
         /\ Cardinality(Sent) \in Nat /\ Cardinality(held) \in Nat
         /\ \A s \in Sent : Value(s) \in Nat /\ Risk(s) \in Nat
         /\ \A s \in held : BookValue(s) \in Nat /\ BookRisk(s) \in Nat
         /\ SentRisk \in Int /\ OpenRisk \in Int /\ Remaining \in Int
<1>1. IsFiniteSet(Sent) /\ IsFiniteSet(held) /\ held \subseteq Sent
  <2>1. Sent \subseteq Symbols /\ held \subseteq Sent
    BY DEF Sent, PreInv
  <2>2. QED
    BY <2>1, FS_Subset, PreTradeAssumption
<1>2. \A s \in Sent : Value(s) \in Nat /\ Risk(s) \in Nat
  BY ValuesAreNumbers DEF PreInv, Value, Risk, Typed, Noted
<1>3. \A s \in held : BookValue(s) \in Nat /\ BookRisk(s) \in Nat
  BY ValuesAreNumbers DEF PreInv, BookValue, BookRisk
<1>4. SentRisk \in Int
  <2>1. PICK f : f = [s \in Sent |-> Risk(s)]
    OBVIOUS
  <2>2. \A s \in Sent : f[s] \in Int
    BY <1>2, <2>1
  <2>3. SumOver(Sent, f) \in Int
    BY <1>1, <2>2, SumIsANumber
  <2>4. QED
    BY <2>1, <2>3, Zenon DEF SentRisk
<1>5. OpenRisk \in Int
  <2>1. PICK f : f = [s \in held |-> BookRisk(s)]
    OBVIOUS
  <2>2. \A s \in held : f[s] \in Int
    BY <1>3, <2>1
  <2>3. SumOver(held, f) \in Int
    BY <1>1, <2>2, SumIsANumber
  <2>4. QED
    BY <2>1, <2>3, Zenon DEF OpenRisk
<1>6. Remaining \in Int
  BY <1>5, PreTradeAssumption DEF Remaining
<1>7. QED
  BY <1>1, <1>2, <1>3, <1>4, <1>5, <1>6, FS_CardinalityType

(* What the portfolio's gate reads of the sector of a signal is its exposure.*)
LEMMA ReadingsAreReadable ==
  ASSUME NEW s, NEW r \in ReadingsOf(s)
  PROVE  Readable(r) /\ (gateway # Phase1Gates => r.sector = Exposure(SectorOf[s]))
<1>1. CASE gateway = Phase1Gates
  <2>1. r = And(Phase1Portfolio(s), And(Phase1Market, Phase1Metrics))
    BY <1>1 DEF ReadingsOf
  <2>2. r.adv = 500000
    BY <2>1 DEF And, Phase1Portfolio, Phase1Market, Phase1Metrics
  <2>3. QED
    BY <1>1, <2>2 DEF Readable
<1>2. CASE gateway # Phase1Gates
  <2>1. PICK m \in Readings :
          r = And([sector |-> Exposure(SectorOf[s]),
                   weight |-> Phase1Portfolio(s).weight], m)
    BY <1>2 DEF ReadingsOf
  <2>2. m \in MarketReadings
    BY PreTradeAssumption
  <2>3. DOMAIN m = {"gain", "spread", "slippage", "adv", "depth", "corr", "es", "var",
                    "avg_corr", "latency", "fill_rate"} /\ m.adv \in Nat
    BY <2>2 DEF MarketReadings
  <2>4. PICK e, w : e = Exposure(SectorOf[s]) /\ w = Phase1Portfolio(s).weight
    OBVIOUS
  <2>5. PICK p : p = [sector |-> e, weight |-> w]
    OBVIOUS
  <2>6. DOMAIN p = {"sector", "weight"} /\ p.sector = e
    BY <2>5
  <2>7. r = And(p, m)
    BY <2>1, <2>4, <2>5, Zenon
  <2>8. r.adv = m.adv /\ r.sector = e
    BY <2>3, <2>6, <2>7 DEF And
  <2>9. QED
    BY <2>3, <2>4, <2>8 DEF Readable
<1>3. QED
  BY <1>1, <1>2

-----------------------------------------------------------------------------
LEMMA GatesAreKnown ==
  ASSUME gateway \in {Gates, Phase1Gates}
  PROVE  /\ gateway \in Seq(GateNames)
         /\ gateway = Gates => gateway # Phase1Gates /\ "PortfolioRisk" \in Range(gateway)
<1>1. Phase1Gates \in Seq(GateNames)
  BY DEF Phase1Gates, GateNames
<1>2. "TailRisk" \in Range(Gates) /\ "PortfolioRisk" \in Range(Gates)
  BY PreTradeAssumption, Zenon DEF GateNames
<1>3. Gates # Phase1Gates
  <2>1. SUFFICES ASSUME Gates = Phase1Gates PROVE FALSE
    OBVIOUS
  <2>2. PICK i \in DOMAIN Gates : Gates[i] = "TailRisk"
    BY <1>2 DEF Range
  <2>3. i \in 1..3 /\ Phase1Gates[i] = "TailRisk"
    BY <2>1, <2>2 DEF Phase1Gates
  <2>4. QED
    BY <2>3 DEF Phase1Gates
<1>4. QED
  BY <1>1, <1>2, <1>3, PreTradeAssumption

LEMMA SectorsAreFinite ==
  ASSUME PreInv, NEW sector
  PROVE  /\ \A T : T = InSector(Sent, sector) =>
              IsFiniteSet(T) /\ T \subseteq Sent /\ \A s \in T : Value(s) \in Int
         /\ \A T : T = InSector(held, sector) =>
              IsFiniteSet(T) /\ T \subseteq held /\ \A s \in T : BookValue(s) \in Int
<1>1. InSector(Sent, sector) \subseteq Sent /\ InSector(held, sector) \subseteq held
  BY DEF InSector
<1>2. QED
  BY <1>1, OrdersAreFinite, FS_Subset

LEMMA ShareIsANumber ==
  ASSUME NEW m \in Int PROVE ShareOfEquity(m) \in Int
  BY PreTradeAssumption DEF ShareOfEquity

LEMMA ExposureIsANumber ==
  ASSUME PreInv, NEW sector
  PROVE  /\ SentExposure(sector) \in Int /\ Exposure(sector) \in Int
<1>1. SentExposure(sector) \in Int
  <2>1. PICK T : T = InSector(Sent, sector)
    OBVIOUS
  <2>2. PICK f : f = [s \in T |-> Value(s)]
    OBVIOUS
  <2>3. IsFiniteSet(T) /\ \A s \in T : f[s] \in Int
    BY <2>1, <2>2, SectorsAreFinite
  <2>4. ShareOfEquity(SumOver(T, f)) \in Int
    BY <2>3, SumIsANumber, ShareIsANumber
  <2>5. QED
    BY <2>1, <2>2, <2>4, Zenon DEF SentExposure
<1>2. Exposure(sector) \in Int
  <2>1. PICK T : T = InSector(held, sector)
    OBVIOUS
  <2>2. PICK f : f = [s \in T |-> BookValue(s)]
    OBVIOUS
  <2>3. IsFiniteSet(T) /\ \A s \in T : f[s] \in Int
    BY <2>1, <2>2, SectorsAreFinite
  <2>4. ShareOfEquity(SumOver(T, f)) \in Int
    BY <2>3, SumIsANumber, ShareIsANumber
  <2>5. QED
    BY <2>1, <2>2, <2>4, Zenon DEF Exposure
<1>3. QED
  BY <1>1, <1>2

(* More money is no lesser share.                                            *)
LEMMA ShareIsMonotone ==
  ASSUME NEW m \in Int, NEW n \in Int, m <= n
  PROVE  ShareOfEquity(m) <= ShareOfEquity(n)
<1>1. PICK e \in Nat \ {0}, k \in Nat : e = Equity /\ k = 1000
  BY PreTradeAssumption
<1>2. k * m \in Int /\ k * n \in Int /\ k * m <= k * n
  BY <1>1
<1>3. PICK x \in Int, y \in Int : x = (k * m) \div e /\ y = (k * n) \div e
  BY <1>1, <1>2
<1>4. SUFFICES ASSUME y < x PROVE FALSE
  BY <1>1, <1>3 DEF ShareOfEquity
<1>5. k * n < e * x
  BY <1>2, <1>3, <1>4, QuotientIsBelow
<1>6. k * m < e * x
  <2>1. e * x \in Int
    OBVIOUS
  <2>2. QED
    BY <1>2, <1>5, <2>1
<1>7. x < x
  BY <1>2, <1>3, <1>6, QuotientIsBelow
<1>8. QED
  BY <1>7

(* Where the positions show all that was sent, what is read is no less.      *)
LEMMA SeenIsEnough ==
  ASSUME PreInv, AllShown
  PROVE  /\ Sent = held /\ SentRisk <= OpenRisk
         /\ \A sector : SentExposure(sector) <= Exposure(sector)
<1>1. Sent = held /\ \A s \in held : Value(s) <= BookValue(s) /\ Risk(s) <= BookRisk(s)
  BY OrdersAreFinite DEF AllShown
<1>2. SentRisk <= OpenRisk
  <2>1. PICK f, g : f = [s \in held |-> Risk(s)] /\ g = [s \in held |-> BookRisk(s)]
    OBVIOUS
  <2>2. \A s \in held : f[s] \in Int /\ g[s] \in Int /\ f[s] <= g[s]
    BY <1>1, <2>1, OrdersAreFinite
  <2>3. SumOver(held, f) <= SumOver(held, g)
    BY <2>2, OrdersAreFinite, SumIsMonotone
  <2>4. QED
    BY <1>1, <2>1, <2>3 DEF SentRisk, OpenRisk
<1>3. ASSUME NEW sector PROVE SentExposure(sector) <= Exposure(sector)
  <2>1. PICK T : T = InSector(held, sector)
    OBVIOUS
  <2>2. T = InSector(Sent, sector) /\ T \subseteq held
    BY <1>1, <2>1 DEF InSector
  <2>3. PICK f, g : f = [s \in T |-> Value(s)] /\ g = [s \in T |-> BookValue(s)]
    OBVIOUS
  <2>4. IsFiniteSet(T) /\ \A s \in T : f[s] \in Int /\ g[s] \in Int /\ f[s] <= g[s]
    BY <1>1, <2>1, <2>2, <2>3, SectorsAreFinite
  <2>5. PICK m \in Int, n \in Int : m = SumOver(T, f) /\ n = SumOver(T, g) /\ m <= n
    BY <2>4, SumIsANumber, SumIsMonotone
  <2>6. SentExposure(sector) = ShareOfEquity(m)
    BY <2>2, <2>3, <2>5 DEF SentExposure
  <2>7. Exposure(sector) = ShareOfEquity(n)
    BY <2>1, <2>3, <2>5 DEF Exposure
  <2>8. QED
    BY <2>5, <2>6, <2>7, ShareIsMonotone
<1>4. QED
  BY <1>1, <1>2, <1>3

LEMMA StopsAreFloored ==
  ASSUME NEW x \in Nat
  PROVE  /\ StopOf(x) \in Nat \ {0} /\ StopOf(x) >= HardFloor
         /\ PipelineStop(x) \in Nat \ {0}
         /\ x # 0 => PipelineStop(x) = StopOf(x)
<1>1. PICK y \in Nat : y = IF x = 0 THEN StopFloor ELSE x
  BY PreTradeAssumption
<1>2. HardFloor \in Nat /\ HardFloor > 0
  BY DEF HardFloor
<1>3. Max({y, HardFloor}) = IF y >= HardFloor THEN y ELSE HardFloor
  BY <1>2, MaxOfTwoNumbers
<1>4. Max({x, HardFloor}) = IF x >= HardFloor THEN x ELSE HardFloor
  BY <1>2, MaxOfTwoNumbers
<1>5. QED
  BY <1>1, <1>2, <1>3, <1>4 DEF StopOf, PipelineStop

(* What one signal adds, and how little it is.                               *)
LEMMA NewOrder ==
  ASSUME PreInv, NEW s \in Symbols, Consider(s)
  PROVE  /\ s \notin Sent /\ Sent' = Sent \cup {s} /\ s \notin held
         /\ Cardinality(held) < MaxPositions
         /\ order' = [x \in Symbols |-> order'[x]] /\ \A x \in Sent : order'[x] = order[x]
         /\ Typed(order'[s]) /\ Value(s)' \in Nat /\ Value(s)' <= Cap
         /\ Risk(s)' \in Nat /\ Risk(s)' <= Equity * MaxTradeRisk /\ Risk(s)' <= Remaining
         /\ \A i \in DOMAIN gateway : ~Rejects(gateway[i], order'[s].qty, order'[s].on)
         /\ gateway = Gates => Exposure(SectorOf[s]) < MaxSector
<1>1. order[s] = NoOrder /\ s \notin held /\ Cardinality(held) < MaxPositions
  BY DEF Consider, CanOpen
<1>2. PICK quote \in Prices, stop \in Stops, r \in ReadingsOf(s) :
        LET st == StopOf(stop)
            q  == 2 * Shares(st, quote)
        IN /\ q > 0 /\ Admitted(q, r) > 0
           /\ order' = [order EXCEPT ![s] =
                [qty |-> Admitted(q, r), price |-> quote, stop |-> st, on |-> r]]
  BY Zenon DEF Consider
<1>3. PICK st \in Nat \ {0} : st = StopOf(stop) /\ st >= HardFloor
  BY StopsAreFloored, PreTradeAssumption
<1>4. quote \in Nat \ {0} /\ Remaining \in Int
  BY PreTradeAssumption, OrdersAreFinite
<1>5. PICK q \in Nat : q = 2 * Shares(st, quote)
  BY <1>3, <1>4, SharesAreLimited
<1>6. Readable(r) /\ gateway \in Seq(GateNames)
  BY ReadingsAreReadable, GatesAreKnown DEF PreInv
<1>7. PICK n \in Nat \ {0} :
        /\ n = Admitted(q, r) /\ n <= q
        /\ \A i \in DOMAIN gateway : ~Rejects(gateway[i], n, r)
  <2>1. Admitted(q, r) > 0
    BY <1>2, <1>3, <1>5
  <2>2. QED
    BY <1>6, <2>1, AdmittedPasses
<1>8. PICK o : o = [qty |-> n, price |-> quote, stop |-> st, on |-> r]
  OBVIOUS
<1>9. order' = [order EXCEPT ![s] = o]
  BY <1>2, <1>3, <1>5, <1>7, <1>8, Zenon
<1>10. o # NoOrder /\ o.qty = n /\ o.price = quote /\ o.stop = st /\ o.on = r
  BY <1>8 DEF NoOrder
<1>11. /\ order' = [x \in Symbols |-> order'[x]] /\ order'[s] = o
       /\ \A x \in Symbols : x # s => order'[x] = order[x]
  BY <1>9 DEF PreInv
<1>12. s \notin Sent /\ Sent' = Sent \cup {s} /\ \A x \in Sent : order'[x] = order[x]
  BY <1>1, <1>10, <1>11 DEF Sent
<1>13. Typed(o)
  BY <1>3, <1>4, <1>7, <1>10 DEF Typed
<1>14. PICK v \in Nat : /\ v = (n * quote) \div 2 /\ v <= Cap
                        /\ v * st <= Equity * MaxTradeRisk /\ v * st <= Remaining
  BY <1>3, <1>4, <1>5, <1>7, OrderIsLimited
<1>15. Value(s)' = v /\ Risk(s)' = v * st
  BY <1>10, <1>11, <1>14 DEF Value, Risk
<1>16. v * st \in Nat
  OBVIOUS
<1>17. ASSUME gateway = Gates PROVE Exposure(SectorOf[s]) < MaxSector
  <2>1. PICK i \in DOMAIN gateway : gateway[i] = "PortfolioRisk"
    BY <1>17, GatesAreKnown DEF Range, PreInv
  <2>2. ~TooConcentrated(r)
    BY <1>7, <2>1 DEF Rejects
  <2>3. r.sector = Exposure(SectorOf[s])
    BY <1>17, GatesAreKnown, ReadingsAreReadable DEF PreInv
  <2>4. ~(Exposure(SectorOf[s]) >= MaxSector)
    BY <2>2, <2>3, Zenon DEF TooConcentrated
  <2>5. Exposure(SectorOf[s]) \in Int
    BY ExposureIsANumber
  <2>6. QED
    BY <2>4, <2>5, PreTradeAssumption
<1>18. QED
  BY <1>1, <1>7, <1>10, <1>11, <1>12, <1>13, <1>14, <1>15, <1>16, <1>17

(* The order of a signal whose predecessors are all filled fits the budget; *)
(* any other risks no more than one trade may.                              *)
LEMMA RiskNext ==
  ASSUME PreInv, NEW s \in Symbols, Consider(s)
  PROVE  RiskStaysInBudget'
<1>1. PICK f : f = [x \in Sent |-> Risk(x)]
  OBVIOUS
<1>2. PICK g : g = [x \in Sent' |-> Risk(x)']
  OBVIOUS
<1>3. /\ s \notin Sent /\ Sent' = Sent \cup {s} /\ \A x \in Sent : order'[x] = order[x]
      /\ Risk(s)' \in Nat /\ Risk(s)' <= Equity * MaxTradeRisk /\ Risk(s)' <= Remaining
  BY NewOrder
<1>4. \A x \in Sent : Risk(x)' = Risk(x)
  BY <1>3 DEF Risk, Value
<1>5. \A x \in Sent : f[x] = g[x] /\ g[x] \in Int
  BY <1>1, <1>2, <1>3, <1>4, OrdersAreFinite
<1>6. g[s] = Risk(s)' /\ g[s] \in Int
  BY <1>2, <1>3
<1>7. PICK T : T = Sent'
  OBVIOUS
<1>8. IsFiniteSet(Sent) /\ T = Sent \cup {s} /\ s \notin Sent
  BY <1>3, <1>7, OrdersAreFinite
<1>9. SumOver(T, g) = SumOver(Sent, f) + g[s] /\ SumOver(Sent, f) \in Int
  BY <1>5, <1>6, <1>8, GrownSum
<1>10. SentRisk' = SumOver(T, g) /\ SentRisk = SumOver(Sent, f)
  BY <1>1, <1>2, <1>7, Zenon DEF SentRisk
<1>11. PICK b \in Nat, e \in Nat, m \in Nat, d \in Nat :
         b = blind /\ e = Equity /\ m = MaxOpenRisk /\ d = MaxTradeRisk
  BY PreTradeAssumption DEF PreInv
<1>12. PICK x \in Int, y \in Nat : x = SentRisk /\ y = Risk(s)'
  BY <1>3, OrdersAreFinite
<1>13. SentRisk' = x + y
  BY <1>6, <1>9, <1>10, <1>12
<1>14. CASE AllShown
  <2>1. blind' = b
    BY <1>11, <1>14 DEF Consider
  <2>2. PICK z \in Int : z = OpenRisk /\ x <= z
    BY <1>12, <1>14, OrdersAreFinite, SeenIsEnough
  <2>3. x + y <= e * m
    <3>1. Remaining = e * m - z
      BY <1>11, <2>2, Zenon DEF Remaining
    <3>2. e * m \in Int
      OBVIOUS
    <3>3. QED
      BY <1>3, <1>12, <2>2, <3>1, <3>2
  <2>4. e * m <= e * (m + b * d)
    <3>1. PICK n \in Nat : n = b * d
      OBVIOUS
    <3>2. e * n \in Nat /\ e * (m + n) = e * m + e * n /\ e * m \in Nat
      OBVIOUS
    <3>3. QED
      BY <3>1, <3>2
  <2>5. x + y <= e * (m + b * d)
    BY <2>3, <2>4
  <2>6. QED
    BY <1>11, <1>13, <2>1, <2>5, Zenon DEF RiskStaysInBudget
<1>15. CASE ~AllShown
  <2>1. blind' = b + 1
    BY <1>11, <1>15 DEF Consider
  <2>2. y <= e * d /\ x <= e * (m + b * d)
    BY <1>3, <1>11, <1>12, Zenon DEF PreInv, RiskStaysInBudget
  <2>3. e * (m + (b + 1) * d) = e * (m + b * d) + e * d
    <3>1. PICK n \in Nat : n = b * d
      OBVIOUS
    <3>2. (b + 1) * d = n + d
      BY <3>1
    <3>3. PICK k \in Nat : k = m + n
      OBVIOUS
    <3>4. m + (n + d) = k + d
      BY <3>3
    <3>5. e * (k + d) = e * k + e * d
      OBVIOUS
    <3>6. QED
      BY <3>1, <3>2, <3>3, <3>4, <3>5
  <2>4. e * (m + b * d) \in Int /\ e * d \in Int
    OBVIOUS
  <2>5. x + y <= e * (m + (b + 1) * d)
    BY <2>2, <2>3, <2>4
  <2>6. QED
    BY <1>11, <1>13, <2>1, <2>5, Zenon DEF RiskStaysInBudget
<1>16. QED
  BY <1>14, <1>15

(* What is below a limit passes it by less than what is added.               *)
LEMMA AddedExposure ==
  ASSUME NEW e \in Nat \ {0}, NEW m \in Int, NEW a \in Int, NEW limit \in Int, NEW p \in Nat,
         m \div e < limit, a <= e * p
  PROVE  (m + a) \div e < limit + p
<1>1. m < e * limit
  BY QuotientIsBelow
<1>2. e * (limit + p) = e * limit + e * p /\ e * limit \in Int /\ e * p \in Int
  OBVIOUS
<1>3. m + a \in Int /\ limit + p \in Int /\ m + a < e * (limit + p)
  BY <1>1, <1>2
<1>4. QED
  BY <1>3, QuotientIsBelow

(* A sector grows by less than a position, and other sectors not at all.     *)
LEMMA ExposureNext ==
  ASSUME PreInv, NEW s \in Symbols, Consider(s), NEW sector
  PROVE  /\ SentExposure(sector)' \in Int
         /\ sector # SectorOf[s] => SentExposure(sector)' = SentExposure(sector)
         /\ \A limit \in Int :
              SentExposure(sector) < limit => SentExposure(sector)' < limit + PositionCap
<1>1. PICK S, T : S = InSector(Sent, sector) /\ T = InSector(Sent, sector)'
  OBVIOUS
<1>2. PICK f : f = [x \in S |-> Value(x)]
  OBVIOUS
<1>3. PICK g : g = [x \in T |-> Value(x)']
  OBVIOUS
<1>4. /\ s \notin Sent /\ Sent' = Sent \cup {s} /\ \A x \in Sent : order'[x] = order[x]
      /\ Value(s)' \in Nat /\ Value(s)' <= Cap
  BY NewOrder
<1>5. S \subseteq Sent /\ S \subseteq T
  BY <1>1, <1>4 DEF InSector
<1>6. IsFiniteSet(S) /\ s \notin S
  BY <1>4, <1>5, OrdersAreFinite, FS_Subset
<1>7. \A x \in S : f[x] = g[x] /\ g[x] \in Int
  <2>1. \A x \in S : Value(x)' = Value(x) /\ Value(x) \in Int
    BY <1>4, <1>5, OrdersAreFinite DEF Value
  <2>2. QED
    BY <1>2, <1>3, <1>5, <2>1
<1>8. PICK e \in Nat \ {0}, k \in Nat, p \in Nat : e = Equity /\ k = 1000 /\ p = PositionCap
  BY PreTradeAssumption
<1>9. PICK m \in Int : m = SumOver(S, f)
  BY <1>6, <1>7, SumIsANumber
<1>10. /\ SentExposure(sector) = (k * m) \div e
       /\ SentExposure(sector)' = (k * SumOver(T, g)) \div e
  BY <1>1, <1>2, <1>3, <1>8, <1>9 DEF SentExposure, ShareOfEquity
<1>11. k * m \in Int /\ (k * m) \div e \in Int
  OBVIOUS
<1>12. CASE SectorOf[s] = sector
  <2>1. T = S \cup {s}
    BY <1>1, <1>4, <1>12 DEF InSector
  <2>2. PICK v \in Nat : v = Value(s)' /\ v <= Cap
    BY <1>4
  <2>3. g[s] = v
    BY <1>3, <2>1, <2>2
  <2>4. SumOver(T, g) = m + v
    <3>1. g[s] \in Int
      BY <2>3
    <3>2. SumOver(T, g) = SumOver(S, f) + g[s]
      BY <1>6, <1>7, <2>1, <3>1, GrownSum
    <3>3. QED
      BY <1>9, <2>3, <3>2
  <2>5. k * v <= e * p
    <3>1. PICK c \in Nat : c = Cap /\ k * c <= e * p
      BY <1>8, CapIsANumber
    <3>2. k * v <= k * c /\ k * v \in Nat /\ k * c \in Nat
      BY <2>2, <3>1
    <3>3. e * p \in Nat
      OBVIOUS
    <3>4. QED
      BY <3>1, <3>2, <3>3
  <2>6. k * (m + v) = k * m + k * v /\ k * v \in Int
    OBVIOUS
  <2>7. ASSUME NEW limit \in Int, (k * m) \div e < limit
        PROVE  (k * (m + v)) \div e < limit + p
    BY <1>11, <2>5, <2>6, <2>7, AddedExposure
  <2>8. (k * (m + v)) \div e \in Int
    BY <1>11, <2>6
  <2>9. QED
    BY <1>8, <1>10, <1>12, <2>4, <2>7, <2>8
<1>13. CASE SectorOf[s] # sector
  <2>1. T = S
    BY <1>1, <1>4, <1>13 DEF InSector
  <2>2. SumOver(T, g) = m
    BY <1>6, <1>7, <1>9, <2>1, SumsOfEqualsAgree
  <2>3. QED
    BY <1>8, <1>10, <1>11, <2>2
<1>14. QED
  BY <1>12, <1>13

LEMMA ConcentrationNext ==
  ASSUME PreInv, NEW s \in Symbols, Consider(s)
  PROVE  ConcentrationIsLimited'
<1>1. /\ gateway' = gateway /\ blind' = IF AllShown THEN blind ELSE blind + 1
      /\ Sent' = Sent \cup {s} /\ s \notin Sent /\ Cardinality(held) < MaxPositions
      /\ gateway = Gates => Exposure(SectorOf[s]) < MaxSector
  BY NewOrder DEF Consider
<1>2. PICK b \in Nat, c \in Nat, p \in Nat, m \in Nat :
        b = blind /\ c = blind' /\ p = PositionCap /\ m = MaxSector
  BY <1>1, PreTradeAssumption DEF PreInv
<1>3. c = (IF AllShown THEN b ELSE b + 1) /\ ConcentrationIsLimited
  BY <1>1, <1>2 DEF PreInv
<1>4. ASSUME gateway = Gates, NEW y \in Symbols
      PROVE  SentExposure(SectorOf[y])' < m + (1 + c) * p
  <2>1. PICK sector : sector = SectorOf[y]
    OBVIOUS
  <2>2. SentExposure(sector) \in Int
    BY ExposureIsANumber
  <2>3. SentExposure(sector) < m + (1 + b) * p
    BY <1>2, <1>3, <1>4, <2>1 DEF ConcentrationIsLimited
  <2>4. (1 + b) * p \in Nat /\ (1 + b) * p = p + b * p /\ b * p \in Nat
    OBVIOUS
  <2>5. CASE AllShown
    <3>1. ASSUME SectorOf[s] = sector PROVE SentExposure(sector)' < m + (1 + b) * p
      <4>1. SentExposure(sector) < m /\ m \in Int
        <5>1. Exposure(sector) < m
          BY <1>1, <1>2, <1>4, <3>1
        <5>2. SentExposure(sector) <= Exposure(sector) /\ Exposure(sector) \in Int
          BY <2>5, ExposureIsANumber, SeenIsEnough
        <5>3. QED
          BY <2>2, <5>1, <5>2
      <4>2. SentExposure(sector)' < m + p
        BY <1>2, <4>1, ExposureNext
      <4>3. SentExposure(sector)' \in Int
        BY ExposureNext
      <4>4. QED
        BY <2>4, <4>2, <4>3
    <3>2. ASSUME SectorOf[s] # sector PROVE SentExposure(sector)' < m + (1 + b) * p
      BY <2>3, <3>2, ExposureNext
    <3>3. c = b
      BY <1>3, <2>5
    <3>4. QED
      BY <2>1, <3>1, <3>2, <3>3
  <2>6. CASE ~AllShown
    <3>1. PICK limit \in Int : limit = m + (1 + b) * p
      BY <2>4
    <3>2. SentExposure(sector)' < limit + p
      BY <1>2, <2>3, <3>1, ExposureNext
    <3>3. limit + p = m + (1 + (b + 1)) * p
      <4>1. (1 + (b + 1)) * p = p + (1 + b) * p
        OBVIOUS
      <4>2. QED
        BY <2>4, <3>1, <4>1
    <3>4. c = b + 1
      BY <1>3, <2>6
    <3>5. QED
      BY <2>1, <3>2, <3>3, <3>4
  <2>7. QED
    BY <2>5, <2>6
<1>5. Cardinality(Sent') <= MaxPositions + c
  <2>1. IsFiniteSet(Sent) /\ Cardinality(Sent) \in Nat /\ Cardinality(held) \in Nat
    BY OrdersAreFinite
  <2>2. PICK n \in Nat : n = Cardinality(Sent)
    BY <2>1
  <2>3. Cardinality(Sent') = n + 1
    BY <1>1, <2>1, <2>2, FS_AddElement
  <2>4. n <= MaxPositions + b
    BY <1>2, <1>3, <2>2 DEF ConcentrationIsLimited
  <2>5. MaxPositions \in Nat
    BY PreTradeAssumption
  <2>6. CASE AllShown
    <3>1. n < MaxPositions
      BY <1>1, <2>2, <2>6, SeenIsEnough
    <3>2. QED
      BY <1>3, <2>3, <2>5, <2>6, <3>1
  <2>7. CASE ~AllShown
    BY <1>3, <2>3, <2>4, <2>5, <2>7
  <2>8. QED
    BY <2>6, <2>7
<1>6. QED
  BY <1>1, <1>2, <1>4, <1>5 DEF ConcentrationIsLimited

-----------------------------------------------------------------------------
LEMMA PreInvInit == PreInit => PreInv
<1> SUFFICES ASSUME PreInit PROVE PreInv
  OBVIOUS
<1>1. Sent = {} /\ held = {} /\ blind = 0 /\ gateway \in {Gates, Phase1Gates}
  BY DEF PreInit, Sent
<1>2. /\ order = [s \in Symbols |-> order[s]] /\ booked = [s \in Symbols |-> booked[s]]
      /\ held = {s \in Symbols : booked[s] # NoOrder}
  BY DEF PreInit
<1>3. PICK e \in Nat \ {0}, p \in Nat, m \in Nat \ {0} :
        e = Equity /\ p = PositionCap /\ m = MaxSector
  BY PreTradeAssumption
<1>4. RiskStaysInBudget
  <2>1. SentRisk = 0
    BY <1>1, SumOfNothing, Zenon DEF SentRisk
  <2>2. PICK n \in Nat, d \in Nat : n = MaxOpenRisk /\ d = MaxTradeRisk
    BY PreTradeAssumption
  <2>3. n + 0 * d \in Nat /\ e * (n + 0 * d) \in Nat
    OBVIOUS
  <2>4. 0 <= e * (n + 0 * d)
    BY <2>3
  <2>5. QED
    BY <1>1, <1>3, <2>1, <2>2, <2>4, Zenon DEF RiskStaysInBudget
<1>5. ConcentrationIsLimited
  <2>1. ASSUME NEW sector PROVE SentExposure(sector) = 0
    <3>1. PICK T : T = InSector(Sent, sector)
      OBVIOUS
    <3>2. T = {}
      BY <1>1, <3>1 DEF InSector
    <3>3. SumOver(T, [s \in T |-> Value(s)]) = 0
      BY <3>2, SumOfNothing
    <3>4. SentExposure(sector) = (1000 * 0) \div e
      BY <1>3, <3>1, <3>3 DEF SentExposure, ShareOfEquity
    <3>5. QED
      BY <3>4
  <2>2. m + (1 + 0) * p > 0
    OBVIOUS
  <2>3. Cardinality({}) = 0 /\ MaxPositions + 0 >= 0
    BY FS_EmptySet, PreTradeAssumption
  <2>4. QED
    BY <1>1, <1>3, <2>1, <2>2, <2>3 DEF ConcentrationIsLimited
<1>6. QED
  BY <1>1, <1>2, <1>4, <1>5 DEF PreInv, SentOrdersPass

(* What is filled changes no limit of what is sent.                          *)
LEMMA SameOrdersKeepLimits ==
  ASSUME PreInv, gateway' = gateway, order' = order, blind' = blind, held' \subseteq Sent,
         booked' = [s \in Symbols |-> booked'[s]],
         held' = {s \in Symbols : booked'[s] # NoOrder}, \A s \in held' : Noted(booked'[s])
  PROVE  PreInv'
<1>1. Sent' = Sent
  BY DEF Sent
<1>2. \A x : Value(x)' = Value(x) /\ Risk(x)' = Risk(x)
  BY Zenon DEF Value, Risk
<1>3. RiskStaysInBudget'
  <2>1. [x \in Sent' |-> Risk(x)'] = [x \in Sent |-> Risk(x)]
    BY <1>1, <1>2
  <2>2. SentRisk' = SentRisk
    BY <1>1, <2>1, Zenon DEF SentRisk
  <2>3. QED
    BY <2>2, Zenon DEF RiskStaysInBudget, PreInv
<1>4. ConcentrationIsLimited'
  <2>1. ASSUME NEW sector PROVE SentExposure(sector)' = SentExposure(sector)
    <3>1. PICK T, U : T = InSector(Sent, sector) /\ U = InSector(Sent, sector)'
      OBVIOUS
    <3>2. T = U
      BY <1>1, <3>1 DEF InSector
    <3>3. [x \in U |-> Value(x)'] = [x \in T |-> Value(x)]
      BY <1>2, <3>2
    <3>4. PICK m : m = SumOver(T, [x \in T |-> Value(x)])
      OBVIOUS
    <3>5. m = SumOver(U, [x \in U |-> Value(x)'])
      BY <3>2, <3>3, <3>4, Zenon
    <3>6. /\ SentExposure(sector) = (1000 * m) \div Equity
          /\ SentExposure(sector)' = (1000 * m) \div Equity
      BY <3>1, <3>4, <3>5 DEF SentExposure, ShareOfEquity
    <3>7. QED
      BY <3>6
  <2>2. QED
    BY <1>1, <2>1 DEF ConcentrationIsLimited, PreInv
<1>5. SentOrdersPass'
  BY <1>1 DEF SentOrdersPass, PreInv
<1>6. QED
  BY <1>1, <1>3, <1>4, <1>5 DEF PreInv, Typed, Noted

LEMMA PreInvNext == PreInv /\ [PreNext]_preVars => PreInv'
<1> SUFFICES ASSUME PreInv, [PreNext]_preVars PROVE PreInv'
  OBVIOUS
<1>1. ASSUME NEW s \in Symbols, Consider(s) PROVE PreInv'
  <2>1. RiskStaysInBudget' /\ ConcentrationIsLimited'
    BY <1>1, RiskNext, ConcentrationNext
  <2>2. /\ gateway' = gateway /\ held' = held /\ held \subseteq Sent /\ booked' = booked
        /\ gateway \in {Gates, Phase1Gates} /\ blind' \in Nat
    BY <1>1 DEF Consider, PreInv
  <2>3. /\ Sent' = Sent \cup {s} /\ order' = [x \in Symbols |-> order'[x]]
        /\ \A x \in Sent : order'[x] = order[x]
        /\ Typed(order'[s])
        /\ \A i \in DOMAIN gateway : ~Rejects(gateway[i], order'[s].qty, order'[s].on)
    BY <1>1, NewOrder
  <2>4. \A x \in Sent' : Typed(order'[x])
    BY <2>3, Zenon DEF PreInv
  <2>5. \A x \in Sent' : \A i \in DOMAIN gateway' :
          ~Rejects(gateway'[i], order'[x].qty, order'[x].on)
    BY <2>2, <2>3, Zenon DEF PreInv, SentOrdersPass
  <2>6. SentOrdersPass'
    BY <2>5 DEF SentOrdersPass
  <2>7. QED
    BY <2>1, <2>2, <2>3, <2>4, <2>6 DEF PreInv, Typed, Noted
<1>2. ASSUME NEW s \in Symbols, OrderFills(s) PROVE PreInv'
  <2>1. /\ gateway' = gateway /\ order' = order /\ blind' = blind /\ s \in Sent \ held
        /\ held' = held \cup {s} /\ held' \subseteq Sent
    BY <1>2 DEF OrderFills, PreInv
  <2>2. PICK quote \in Prices, stop \in {0, order[s].stop} :
          booked' = [booked EXCEPT ![s] =
            [qty |-> 2 * (order[s].qty \div 2), price |-> quote, stop |-> stop]]
    BY <1>2 DEF OrderFills
  <2>3. PICK o : o = [qty |-> 2 * (order[s].qty \div 2), price |-> quote, stop |-> stop]
    OBVIOUS
  <2>4. Noted(o) /\ o # NoOrder
    <3>1. PICK n \in Nat : n = order[s].qty
      BY <2>1 DEF PreInv, Typed
    <3>2. 2 * (n \div 2) \in Nat
      OBVIOUS
    <3>3. quote \in Nat /\ stop \in Nat
      <4>1. order[s].stop \in Nat
        BY <2>1 DEF PreInv, Typed
      <4>2. QED
        BY <4>1, PreTradeAssumption
    <3>4. QED
      BY <2>3, <3>1, <3>2, <3>3 DEF Noted, NoOrder
  <2>5. /\ booked' = [x \in Symbols |-> booked'[x]] /\ booked'[s] = o
        /\ \A x \in Symbols : x # s => booked'[x] = booked[x]
    BY <2>2, <2>3 DEF PreInv
  <2>6. held' = {x \in Symbols : booked'[x] # NoOrder}
    BY <2>1, <2>4, <2>5 DEF PreInv
  <2>7. \A x \in held' : Noted(booked'[x])
    BY <2>1, <2>4, <2>5, <2>6, Zenon DEF PreInv
  <2>8. QED
    BY <2>1, <2>5, <2>6, <2>7, SameOrdersKeepLimits
<1>3. CASE UNCHANGED preVars
  BY <1>3, SameOrdersKeepLimits DEF preVars, PreInv
<1>4. QED
  BY <1>1, <1>2, <1>3 DEF PreNext

(* The steps of the pipeline, whatever the volatility and the volume.        *)
LEMMA PipelineKeeps ==
  ASSUME Remaining \in Int, NEW st \in Nat \ {0}, NEW vol \in Nat, NEW adv \in Nat
  PROVE  LET size == PipelineSize(st, vol, adv)
         IN /\ size <= Cap /\ (adv > 0 => 20 * size <= adv)
            /\ size > 0 => size * st <= Remaining
<1>0. PICK f \in Nat, c \in Nat : f = FixedFractional(st) /\ c = Cap /\ f <= c
  BY TradeIsLimited, CapIsANumber
<1>1. PICK w \in Nat : w = VolScaled(f, vol)
  <2>1. CASE vol = 0
    BY <2>1 DEF VolScaled
  <2>2. CASE vol # 0
    <3>1. PICK k \in Nat : k = (100 * TargetVol) \div vol
      BY <2>2, QuotientIsWithin DEF TargetVol
    <3>2. PICK x \in Nat : x = Max({k, 50})
      BY MaxOfTwoNumbers
    <3>3. Min({x, 200}) \in {x, 200}
      BY LesserOfTwo
    <3>4. PICK n \in Nat : n = VolScale(vol)
      BY <3>1, <3>2, <3>3 DEF VolScale
    <3>5. (f * n) \div 100 \in Nat
      BY QuotientIsWithin
    <3>6. VolScaled(f, vol) = (f * n) \div 100
      BY <2>2, <3>4 DEF VolScaled
    <3>7. QED
      BY <3>5, <3>6
  <2>3. QED
    BY <2>1, <2>2
<1>2. PICK l \in Nat : l = LiquidityCapped(w, adv) /\ (adv > 0 => 20 * l <= adv)
  <2>1. CASE adv = 0
    BY <2>1 DEF LiquidityCapped
  <2>2. CASE adv # 0
    <3>1. PICK a \in Nat : a = adv \div 20 /\ 20 * a <= adv
      BY QuotientIsWithin
    <3>2. Min({w, a}) \in Nat /\ Min({w, a}) <= a
      BY LesserOfTwo
    <3>3. LiquidityCapped(w, adv) = Min({w, a})
      BY <2>2, <3>1 DEF LiquidityCapped
    <3>4. QED
      BY <3>1, <3>2, <3>3
  <2>3. QED
    BY <2>1, <2>2
<1>3. PICK g \in Nat : /\ g = Budgeted(l, st) /\ g <= l
                       /\ g > 0 => Remaining > 0 /\ g * st <= Remaining
  <2>1. CASE Remaining <= 0
    BY <2>1 DEF Budgeted
  <2>2. CASE ~(Remaining <= 0)
    <3>1. PICK r \in Nat, k \in Nat : r = Remaining /\ k = r \div st /\ st * k <= r
      BY <2>2, QuotientIsWithin
    <3>2. PICK m \in Nat : m = Min({l, k}) /\ m <= l /\ m <= k
      <4>1. Min({l, k}) \in Nat /\ Min({l, k}) <= l /\ Min({l, k}) <= k
        BY LesserOfTwo
      <4>2. QED
        BY <4>1, Zenon
    <3>3. Budgeted(l, st) = m
      <4>1. Budgeted(l, st) = Min({l, Remaining \div st})
        BY <2>2, Zenon DEF Budgeted
      <4>2. QED
        BY <3>1, <3>2, <4>1
    <3>4. m * st <= k * st /\ k * st = st * k
      BY <3>2, ProductIsMonotone
    <3>5. m * st \in Nat /\ m * st <= r
      BY <3>1, <3>4
    <3>6. QED
      BY <2>2, <3>1, <3>2, <3>3, <3>5
  <2>3. QED
    BY <2>1, <2>2
<1>4. PICK size \in Nat : size = Min({g, c}) /\ size <= g /\ size <= c
  <2>1. Min({g, c}) \in Nat /\ Min({g, c}) <= g /\ Min({g, c}) <= c
    BY LesserOfTwo
  <2>2. QED
    BY <2>1, Zenon
<1>5. PipelineSize(st, vol, adv) = size
  <2>1. PipelineSize(st, vol, adv)
          = Min({Budgeted(LiquidityCapped(VolScaled(FixedFractional(st), vol), adv), st), Cap})
    BY Zenon DEF PipelineSize
  <2>2. QED
    BY <1>0, <1>1, <1>2, <1>3, <1>4, <2>1
<1>6. adv > 0 => 20 * size <= adv
  BY <1>2, <1>3, <1>4
<1>7. ASSUME size > 0 PROVE size * st <= Remaining
  <2>1. size * st <= g * st /\ size * st \in Nat /\ g * st \in Nat /\ g > 0
    BY <1>4, <1>7, ProductIsMonotone
  <2>2. QED
    BY <1>3, <2>1
<1>8. QED
  BY <1>0, <1>4, <1>5, <1>6, <1>7

(* The pipeline caps in another order what calculate_position_size() caps.   *)
LEMMA PipelineIsLimited ==
  ASSUME Remaining \in Int, NEW st \in Nat \ {0}, NEW quote \in Nat \ {0}
  PROVE  PipelineSize(st, 0, 0) \div quote = Shares(st, quote)
<1>0. PICK f \in Nat, c \in Nat : f = FixedFractional(st) /\ c = Cap /\ f <= c
  BY TradeIsLimited, CapIsANumber
<1>1. LiquidityCapped(VolScaled(f, 0), 0) = f
  BY DEF LiquidityCapped, VolScaled
<1>2. PipelineSize(st, 0, 0) = Min({Budgeted(f, st), c})
  BY <1>0, <1>1, Zenon DEF PipelineSize
<1>3. CASE Remaining <= 0
  <2>1. Budgeted(f, st) = 0 /\ Shares(st, quote) = 0
    BY <1>3 DEF Budgeted, Shares
  <2>2. Min({0, c}) = 0
    BY MinOfTwoNumbers
  <2>3. 0 \div quote = 0
    OBVIOUS
  <2>4. QED
    BY <1>2, <2>1, <2>2, <2>3
<1>4. CASE ~(Remaining <= 0)
  <2>1. PICK r \in Nat, k \in Nat : r = Remaining /\ k = r \div st
    BY <1>4, QuotientIsWithin
  <2>2. PICK m \in Nat : m = Min({f, k}) /\ m <= f
    <3>1. Min({f, k}) \in Nat /\ Min({f, k}) <= f
      BY LesserOfTwo
    <3>2. QED
      BY <3>1, Zenon
  <2>3. Budgeted(f, st) = m /\ Shares(st, quote) = m \div quote
    BY <1>0, <1>4, <2>1, <2>2, Zenon DEF Budgeted, Shares
  <2>4. Min({m, c}) = m
    BY <1>0, <2>2, MinOfTwoNumbers
  <2>5. QED
    BY <1>2, <2>3, <2>4, Zenon
<1>5. QED
  BY <1>3, <1>4

(* Whatever the prices, stops, readings and order of the gates, and whenever *)
(* orders fill: risk, concentration, gates and sizes keep their limits.      *)
THEOREM EveryLimitIsKept == PreSpec => []LimitsAreKept
<1>1. PreInv => LimitsAreKept
  <2> SUFFICES ASSUME PreInv PROVE LimitsAreKept
    OBVIOUS
  <2>1. PreTypeOK
    BY DEF PreTypeOK, PreInv, Typed
  <2>2. Remaining \in Int
    BY OrdersAreFinite
  <2>3. ASSUME NEW x \in Stops, NEW quote \in Prices, NEW stop, stop = PipelineStop(x)
        PROVE  /\ x # 0 => PipelineSize(stop, 0, 0) \div quote = Shares(StopOf(x), quote)
               /\ \A vol \in {75, 150, 400}, adv \in {0, 2000} :
                    LET size == PipelineSize(stop, vol, adv)
                    IN /\ size <= Cap /\ (adv > 0 => 20 * size <= adv)
                       /\ size > 0 => size * stop <= Remaining
    <3>1. x \in Nat /\ quote \in Nat \ {0}
      BY PreTradeAssumption
    <3>2. stop \in Nat \ {0} /\ (x # 0 => StopOf(x) = stop)
      BY <2>3, <3>1, StopsAreFloored
    <3>3. ASSUME NEW vol \in {75, 150, 400}, NEW adv \in {0, 2000}
          PROVE  LET size == PipelineSize(stop, vol, adv)
                 IN /\ size <= Cap /\ (adv > 0 => 20 * size <= adv)
                    /\ size > 0 => size * stop <= Remaining
      <4>1. vol \in Nat /\ adv \in Nat
        OBVIOUS
      <4>2. QED
        BY <2>2, <3>2, <4>1, PipelineKeeps
    <3>4. QED
      BY <2>2, <3>1, <3>2, <3>3, PipelineIsLimited
  <2>5. PipelineKeepsTheCaps
    BY <2>3 DEF PipelineKeepsTheCaps
  <2>6. QED
    BY <2>1, <2>5 DEF LimitsAreKept, PreInv
<1>2. QED
  BY PreInvInit, PreInvNext, <1>1, PTL DEF PreSpec

-----------------------------------------------------------------------------
(***************************************************************************)
(* The books of a backtest.  Costs first: what a fill pays for in its      *)
(* price is never more than what it is charged once again as an amount.    *)
(***************************************************************************)

(* A number whose multiple is within another is within its quotient.         *)
LEMMA QuotientIsAtLeast ==
  ASSUME NEW n \in Nat, NEW d \in Nat \ {0}, NEW q \in Nat, d * q <= n
  PROVE  q <= n \div d
<1>1. SUFFICES ASSUME n \div d < q PROVE FALSE
  BY QuotientIsWithin
<1>2. n < d * q
  BY <1>1, QuotientIsBelow
<1>3. QED
  BY <1>2

LEMMA BpsIsANumber ==
  ASSUME NEW x \in Nat, NEW k \in Nat
  PROVE  Bps(x, k) \in Nat
<1>1. PICK u \in Nat : u = x \div 10000
  BY QuotientIsWithin
<1>2. u * k \in Nat
  OBVIOUS
<1>3. QED
  BY <1>1, <1>2 DEF Bps

(* Shares of many prices are no more than the share of their sum.            *)
LEMMA BpsOfMany ==
  ASSUME NEW x \in Nat, NEW y \in Nat, NEW n \in Nat, NEW m \in Nat, NEW k \in Nat,
         NEW l \in Nat, x <= y, n <= m, k <= l
  PROVE  n * Bps(x, k) <= Bps(m * y, l)
<1>1. PICK d \in Nat \ {0} : d = 10000
  OBVIOUS
<1>2. PICK u \in Nat : u = x \div d /\ d * u <= x
  BY QuotientIsWithin
<1>3. PICK w \in Nat : w = m * y
  OBVIOUS
<1>4. n * u <= w \div d
  <2>1. n * (d * u) <= n * y
    BY <1>2, ProductIsMonotone
  <2>2. n * y <= w
    BY <1>3, ProductIsMonotone
  <2>3. d * (n * u) = n * (d * u) /\ n * u \in Nat /\ n * (d * u) \in Nat /\ n * y \in Nat
    OBVIOUS
  <2>4. d * (n * u) <= w
    BY <2>1, <2>2, <2>3
  <2>5. QED
    BY <2>3, <2>4, QuotientIsAtLeast
<1>5. PICK a \in Nat, b \in Nat : a = n * u /\ b = w \div d /\ a <= b
  <2>1. w \div d \in Nat /\ n * u \in Nat
    BY QuotientIsWithin
  <2>2. QED
    BY <1>4, <2>1
<1>6. a * k <= b * k /\ b * k <= b * l /\ a * k \in Nat /\ b * k \in Nat /\ b * l \in Nat
  BY <1>5, ProductIsMonotone
<1>7. n * (u * k) = a * k
  BY <1>5
<1>8. Bps(x, k) = u * k /\ Bps(w, l) = b * l
  BY <1>1, <1>2, <1>5 DEF Bps
<1>9. QED
  BY <1>3, <1>6, <1>7, <1>8

(* The impact in basis points grows with the notional.                       *)
LEMMA ImpactGrows ==
  ASSUME NEW n \in Nat, NEW m \in Nat, n <= m
  PROVE  ImpactBps(n) \in Nat /\ ImpactBps(m) \in Nat /\ ImpactBps(n) <= ImpactBps(m)
<1>1. PICK d \in Nat \ {0} : d = Adv \div 200
  <2>1. Adv \in Nat /\ 200 * 1 <= Adv
    BY BacktestAssumption
  <2>2. Adv \div 200 \in Nat /\ 1 <= Adv \div 200
    BY <2>1, QuotientIsWithin, QuotientIsAtLeast
  <2>3. QED
    BY <2>2
<1>2. PICK x \in Nat, y \in Nat : x = n \div d /\ y = m \div d /\ x <= y
  BY QuotientIsWithin, DivisionIsMonotone
<1>3. /\ ImpactBps(n) = (CASE x = 0 -> 3 [] x = 1 -> 5 [] x \in {2, 3} -> 8 [] OTHER -> 13)
      /\ ImpactBps(m) = (CASE y = 0 -> 3 [] y = 1 -> 5 [] y \in {2, 3} -> 8 [] OTHER -> 13)
  BY <1>1, <1>2 DEF ImpactBps
<1>4. QED
  BY <1>2, <1>3

LEMMA FeesAreNumbers ==
  ASSUME NEW side, NEW n \in Nat, NEW q \in Nat
  PROVE  Fees(side, n, q) \in Nat
<1>1. PICK x \in Nat : x = ((n \div 10000) * 278) \div 1000
  <2>1. PICK u \in Nat : u = n \div 10000
    BY QuotientIsWithin
  <2>2. u * 278 \in Nat
    OBVIOUS
  <2>3. (u * 278) \div 1000 \in Nat
    BY <2>2, QuotientIsWithin
  <2>4. QED
    BY <2>1, <2>3
<1>2. PICK y \in Nat : y = (166 * q) \div 100
  BY QuotientIsWithin
<1>3. Min({y, 83000}) \in {y, 83000}
  BY LesserOfTwo
<1>4. PICK z \in Nat : z = Min({y, 83000})
  BY <1>3
<1>5. Fees(side, n, q) \in {0, x + z}
  BY <1>1, <1>2, <1>4 DEF Fees
<1>6. QED
  BY <1>5

LEMMA CostIsAtLeast ==
  ASSUME NEW side, NEW n \in Nat, NEW q \in Nat
  PROVE  /\ OneWayCost(side, n, q) \in Nat
         /\ OneWayCost(side, n, q) >= Bps(n, HalfSpread + ImpactBps(n))
<1>1. PICK k \in Nat : k = HalfSpread + ImpactBps(n)
  BY ImpactGrows, BacktestAssumption
<1>2. Bps(n, k) \in Nat /\ Fees(side, n, q) \in Nat
  BY BpsIsANumber, FeesAreNumbers
<1>3. OneWayCost(side, n, q) = Fees(side, n, q) + Bps(n, k)
  BY <1>1 DEF OneWayCost
<1>4. QED
  BY <1>1, <1>2, <1>3

(* A sale never brings in less than it costs, whatever part is filled.       *)
LEMMA SaleIsCovered ==
  ASSUME NEW nominal \in Nat, NEW qty \in Nat, NEW n \in Nat, n <= qty
  PROVE  LET at   == FillPrice("sell", nominal, nominal * qty)
             cost == OneWayCost("sell", nominal * qty, qty)
         IN at \in Int /\ cost \in Nat /\ n * at + cost >= 0
<1>1. PICK w \in Nat : w = nominal * qty
  OBVIOUS
<1>2. PICK k \in Nat : k = HalfSpread + ImpactBps(w)
  BY ImpactGrows, BacktestAssumption
<1>3. PICK b \in Nat : b = Bps(nominal, k)
  BY BpsIsANumber
<1>4. PICK c \in Nat : c = OneWayCost("sell", w, qty) /\ c >= Bps(w, k)
  BY <1>2, CostIsAtLeast
<1>5. PICK p \in Int : p = FillPrice("sell", nominal, w) /\ p = nominal - b
  BY <1>2, <1>3 DEF FillPrice
<1>6. n * b <= Bps(w, k)
  <2>1. n * Bps(nominal, k) <= Bps(qty * nominal, k)
    <3>1. nominal <= nominal /\ k <= k
      OBVIOUS
    <3>2. QED
      BY <3>1, BpsOfMany
  <2>2. qty * nominal = w
    BY <1>1
  <2>3. QED
    BY <1>3, <2>1, <2>2
<1>7. n * p = n * nominal - n * b /\ n * nominal \in Nat /\ n * b \in Nat
  BY <1>5
<1>8. Bps(w, k) \in Nat
  BY BpsIsANumber
<1>9. n * p + c >= 0
  BY <1>4, <1>6, <1>7, <1>8
<1>10. QED
  BY <1>1, <1>4, <1>5, <1>9

(* What an order may cost beyond the cash its notional fits in is its cost.  *)
LEMMA PurchaseIsCovered ==
  ASSUME NEW close \in Nat \ {0}, NEW qty \in Nat \ {0}, NEW n \in Nat, n <= qty,
         NEW purse \in Int, qty * close <= purse
  PROVE  LET at   == FillPrice("buy", close, qty * close)
             cost == OneWayCost("buy", n * at, n)
         IN at \in Nat \ {0} /\ cost \in Nat /\ n * at <= purse + cost
<1>1. PICK w \in Nat : w = qty * close
  OBVIOUS
<1>2. PICK k \in Nat : k = HalfSpread + ImpactBps(w)
  BY ImpactGrows, BacktestAssumption
<1>3. PICK b \in Nat : b = Bps(close, k)
  BY BpsIsANumber
<1>4. PICK p \in Nat \ {0} : p = FillPrice("buy", close, w) /\ p = close + b
  BY <1>2, <1>3 DEF FillPrice
<1>5. PICK v \in Nat : v = n * p
  OBVIOUS
<1>6. PICK l \in Nat : l = HalfSpread + ImpactBps(v)
  BY ImpactGrows, BacktestAssumption
<1>7. PICK c \in Nat : c = OneWayCost("buy", v, n) /\ c >= Bps(v, l)
  BY <1>6, CostIsAtLeast
<1>8. CASE v <= w
  BY <1>1, <1>4, <1>5, <1>7, <1>8
<1>9. CASE v > w
  <2>1. k <= l
    BY <1>2, <1>6, <1>9, ImpactGrows, BacktestAssumption
  <2>2. n * Bps(close, k) <= Bps(n * p, l)
    <3>1. close \in Nat /\ close <= p /\ n <= n
      BY <1>4
    <3>2. QED
      BY <2>1, <3>1, BpsOfMany
  <2>3. n * close <= w
    BY <1>1, ProductIsMonotone
  <2>4. v = n * close + n * b /\ n * close \in Nat /\ n * b \in Nat
    BY <1>4, <1>5
  <2>5. Bps(v, l) \in Nat
    BY BpsIsANumber
  <2>6. v <= w + c
    BY <1>3, <1>5, <1>7, <2>2, <2>3, <2>4, <2>5
  <2>7. QED
    BY <1>1, <1>4, <1>5, <1>7, <2>6
<1>10. QED
  BY <1>8, <1>9

(* A fill is part of the order.                                              *)
LEMMA FillsArePartial ==
  ASSUME NEW qty \in Nat \ {0}, NEW at \in Nat \ {0}, NEW n \in Fills(qty, at)
  PROVE  n \in Nat /\ n <= qty
<1>1. PICK x \in Nat : x = (Adv \div at) \div 50
  <2>1. PICK a \in Nat : a = Adv \div at
    <3>1. Adv \in Nat
      BY BacktestAssumption
    <3>2. Adv \div at \in Nat
      BY <3>1, QuotientIsWithin
    <3>3. QED
      BY <3>2
  <2>2. a \div 50 \in Nat
    BY QuotientIsWithin
  <2>3. QED
    BY <2>1, <2>2
<1>2. PICK y \in Nat : y = BarVolume \div 100
  BY QuotientIsWithin, BacktestAssumption
<1>3. PICK v \in Nat, w \in Nat : v = Max({1, x}) /\ w = Max({1, y}) /\ v >= 1 /\ w >= 1
  BY MaxOfTwoNumbers
<1>4. Min({v, w}) \in {v, w}
  BY LesserOfTwo
<1>5. PICK limit \in Nat : limit = Min({v, w}) /\ limit >= 1
  BY <1>3, <1>4
<1>6. Fills(qty, at) = {0} \cup (IF qty <= limit THEN {qty}
                                 ELSE {Max({1, f}) : f \in (limit \div 2)..limit})
  BY <1>1, <1>2, <1>3, <1>5 DEF Fills
<1>7. CASE qty <= limit
  BY <1>6, <1>7
<1>8. CASE qty > limit
  <2>1. n = 0 \/ \E f \in (limit \div 2)..limit : n = Max({1, f})
    BY <1>6, <1>8
  <2>2. ASSUME NEW f \in (limit \div 2)..limit, n = Max({1, f}) PROVE n \in Nat /\ n <= qty
    <3>1. limit \div 2 \in Nat
      BY QuotientIsWithin
    <3>2. f \in Nat /\ f <= limit
      BY <3>1
    <3>3. Max({1, f}) = IF 1 >= f THEN 1 ELSE f
      BY <3>2, MaxOfTwoNumbers
    <3>4. QED
      BY <1>5, <1>8, <2>2, <3>2, <3>3
  <2>3. n = 0 => n \in Nat /\ n <= qty
    OBVIOUS
  <2>4. QED
    BY <2>1, <2>2, <2>3
<1>9. QED
  BY <1>7, <1>8

-----------------------------------------------------------------------------
(* The inductive invariant of the engine.  Positions and trades are numbers; *)
(* what is still to be looked at is held when it is to leave and not held    *)
(* when it may enter; a day is counted once for each position; and while the *)
(* positions are closed, cash and what is still to come make up the last     *)
(* point of the equity curve, but for the costs already booked.              *)
Positions == [qty : Nat, entry : Nat, stop : Nat, target : Nat, held : Nat, cost : Nat]

Spent  == SumOver(Held, [s \in Held |-> open[s].qty * open[s].entry + open[s].cost])
Paid   == SumOver(Held, [s \in Held |-> open[s].cost])
ToCome == SumOver(todo, [s \in todo |-> open[s].qty * quotes[s].close])

BooksTyped ==
  /\ day \in 1..(Days + 1) /\ todo \subseteq Stocks
  /\ phase \in {"bars", "exits", "entries", "closing", "done"}
  /\ quotes \in [Stocks -> Bars \cup {NoBar}] /\ open \in [Stocks -> Positions]
  /\ cash \in Int /\ equity \in Int
  /\ trades \in [n : Nat, pnl : Int, cost : Nat]

DaysAreCountedOnce ==
  /\ phase \in {"bars", "exits", "entries"} => day <= Days
  /\ \A s \in Stocks : open[s].held <= day
  /\ phase \in {"bars", "closing", "done"} => \A s \in Stocks : open[s].held + 1 <= day
  /\ phase = "exits" => \A s \in todo : open[s].held + 1 <= day

TodoIsInTurn ==
  /\ phase \in {"exits", "closing"} => todo \subseteq Held
  /\ phase = "entries" => todo \cap Held = {}

CashBalances == cash = InitialCapital + trades.pnl - Spent
CreditIsCovered ==
  /\ Cardinality(Held) <= MaxOpenPositions
  /\ cash + 2 * (trades.cost + Paid) >= 0

ClosingEarnsTheEquity ==
  /\ phase = "closing" => cash + ToCome <= equity /\ equity <= cash + ToCome + trades.cost
  /\ phase = "done" => cash <= equity /\ equity <= cash + trades.cost

BacktestInv ==
  /\ BooksTyped /\ DaysAreCountedOnce /\ TodoIsInTurn
  /\ CashBalances /\ CreditIsCovered /\ ClosingEarnsTheEquity

-----------------------------------------------------------------------------
LEMMA SumsAreTotals ==
  /\ Total(Held, LAMBDA s : open[s].qty * open[s].entry + open[s].cost) = Spent
  /\ Total(Held, LAMBDA s : open[s].cost) = Paid
  /\ Worth = cash + SumOver(Held, [s \in Held |-> open[s].qty * quotes[s].close])
  BY Zenon DEF Total, SumOver, Spent, Paid, Worth

LEMMA StocksAreFinite ==
  ASSUME BooksTyped
  PROVE  /\ IsFiniteSet(Held) /\ IsFiniteSet(todo) /\ Cardinality(Held) \in Nat
         /\ \A s \in Stocks : /\ open[s] \in Positions /\ quotes[s].close \in Nat
                              /\ quotes[s] # NoBar => quotes[s] \in Bars
<1>1. IsFiniteSet(Stocks) /\ Held \subseteq Stocks /\ todo \subseteq Stocks
  BY BacktestAssumption DEF BooksTyped, Held
<1>2. IsFiniteSet(Held) /\ IsFiniteSet(todo) /\ Cardinality(Held) \in Nat
  BY <1>1, FS_Subset, FS_CardinalityType
<1>3. \A b \in Bars \cup {NoBar} : b.close \in Nat
  BY BacktestAssumption DEF NoBar
<1>4. QED
  BY <1>2, <1>3 DEF BooksTyped

LEMMA SumsAreNumbers ==
  ASSUME BooksTyped
  PROVE  Spent \in Int /\ Paid \in Nat /\ ToCome \in Int /\ Worth \in Int
<1>1. \A s \in Stocks : /\ open[s].qty * open[s].entry + open[s].cost \in Int
                        /\ open[s].cost \in Nat /\ open[s].qty * quotes[s].close \in Int
  <2>1. SUFFICES ASSUME NEW s \in Stocks
                 PROVE  /\ open[s].qty * open[s].entry + open[s].cost \in Int
                        /\ open[s].cost \in Nat /\ open[s].qty * quotes[s].close \in Int
    OBVIOUS
  <2>2. PICK q \in Nat, e \in Nat, c \in Nat, b \in Nat :
          q = open[s].qty /\ e = open[s].entry /\ c = open[s].cost /\ b = quotes[s].close
    BY StocksAreFinite DEF Positions
  <2>3. q * e + c \in Int /\ q * b \in Int
    OBVIOUS
  <2>4. QED
    BY <2>2, <2>3
<1>2. IsFiniteSet(Held) /\ IsFiniteSet(todo) /\ Held \subseteq Stocks /\ todo \subseteq Stocks
  BY StocksAreFinite DEF BooksTyped, Held
<1>3. Spent \in Int
  BY <1>1, <1>2, SumIsANumber DEF Spent
<1>4. Paid \in Nat
  BY <1>1, <1>2, SumIsNatural DEF Paid
<1>5. ToCome \in Int
  BY <1>1, <1>2, SumIsANumber DEF ToCome
<1>6. PICK m \in Int : m = SumOver(Held, [s \in Held |-> open[s].qty * quotes[s].close])
  BY <1>1, <1>2, SumIsANumber
<1>7. Worth \in Int
  <2>1. Worth = cash + m
    BY <1>6, SumsAreTotals
  <2>2. QED
    BY <2>1 DEF BooksTyped
<1>8. QED
  BY <1>3, <1>4, <1>5, <1>7

(* One position comes, goes or changes: so do the sums.                      *)
SpentOn(p) == IF p.qty > 0 THEN p.qty * p.entry + p.cost ELSE 0
PaidFor(p) == IF p.qty > 0 THEN p.cost ELSE 0

LEMMA PositionChanges ==
  ASSUME BooksTyped, NEW s \in Stocks, NEW p \in Positions, open' = [open EXCEPT ![s] = p]
  PROVE  /\ open' \in [Stocks -> Positions] /\ \A x \in Stocks \ {s} : open'[x] = open[x]
         /\ open'[s] = p
         /\ Held' = IF p.qty > 0 THEN Held \cup {s} ELSE Held \ {s}
         /\ Spent' = Spent + SpentOn(p) - SpentOn(open[s])
         /\ Paid' = Paid + PaidFor(p) - PaidFor(open[s])
<1>1. /\ open' \in [Stocks -> Positions] /\ open'[s] = p
      /\ \A x \in Stocks \ {s} : open'[x] = open[x]
  BY DEF BooksTyped
<1>2. Held' = IF p.qty > 0 THEN Held \cup {s} ELSE Held \ {s}
  BY <1>1 DEF Held
<1>3. PICK S, T : S = Held /\ T = Held'
  OBVIOUS
<1>4. /\ IsFiniteSet(S) /\ IsFiniteSet(T) /\ S \ {s} = T \ {s}
      /\ S \subseteq Stocks /\ T \subseteq Stocks
      /\ s \in S <=> open[s].qty > 0
      /\ s \in T <=> p.qty > 0
  <2>1. IsFiniteSet(Stocks)
    BY BacktestAssumption
  <2>2. S \subseteq Stocks /\ T \subseteq Stocks
    BY <1>3 DEF Held
  <2>3. IsFiniteSet(S) /\ IsFiniteSet(T)
    BY <2>1, <2>2, FS_Subset
  <2>4. s \in S <=> open[s].qty > 0
    BY <1>3 DEF Held
  <2>5. s \in T <=> p.qty > 0
    BY <1>2, <1>3
  <2>6. S \ {s} = T \ {s}
    BY <1>2, <1>3
  <2>7. QED
    BY <2>2, <2>3, <2>4, <2>5, <2>6
<1>5. ASSUME NEW x \in Stocks, NEW P \in [Stocks -> Positions]
      PROVE  P[x].qty * P[x].entry + P[x].cost \in Int /\ P[x].cost \in Int
  <2>1. PICK q \in Nat, e \in Nat, c \in Nat :
          q = P[x].qty /\ e = P[x].entry /\ c = P[x].cost
    BY DEF Positions
  <2>2. q * e + c \in Int
    OBVIOUS
  <2>3. QED
    BY <2>1, <2>2
<1>6. open \in [Stocks -> Positions]
  BY DEF BooksTyped
<1>7. Spent' = Spent + SpentOn(p) - SpentOn(open[s])
  <2>1. PICK f, g : /\ f = [x \in S |-> open[x].qty * open[x].entry + open[x].cost]
                    /\ g = [x \in T |-> open'[x].qty * open'[x].entry + open'[x].cost]
    OBVIOUS
  <2>2. \A x \in S : f[x] \in Int
    BY <1>4, <1>5, <1>6, <2>1
  <2>3. \A x \in T : g[x] \in Int
    BY <1>1, <1>4, <1>5, <2>1
  <2>4. \A x \in S \ {s} : f[x] = g[x]
    BY <1>1, <1>4, <2>1
  <2>5. SumOver(T, g) = SumOver(S, f) + (IF s \in T THEN g[s] ELSE 0)
                                      - (IF s \in S THEN f[s] ELSE 0)
    BY <1>4, <2>2, <2>3, <2>4, SumChanges
  <2>6. (IF s \in T THEN g[s] ELSE 0) = SpentOn(p)
    BY <1>1, <1>4, <2>1 DEF SpentOn
  <2>7. (IF s \in S THEN f[s] ELSE 0) = SpentOn(open[s])
    BY <1>4, <2>1 DEF SpentOn
  <2>8. Spent = SumOver(S, f) /\ Spent' = SumOver(T, g)
    BY <1>3, <2>1, Zenon DEF Spent
  <2>9. QED
    BY <2>5, <2>6, <2>7, <2>8
<1>8. Paid' = Paid + PaidFor(p) - PaidFor(open[s])
  <2>1. PICK f, g : f = [x \in S |-> open[x].cost] /\ g = [x \in T |-> open'[x].cost]
    OBVIOUS
  <2>2. \A x \in S : f[x] \in Int
    BY <1>4, <1>5, <1>6, <2>1
  <2>3. \A x \in T : g[x] \in Int
    BY <1>1, <1>4, <1>5, <2>1
  <2>4. \A x \in S \ {s} : f[x] = g[x]
    BY <1>1, <1>4, <2>1
  <2>5. SumOver(T, g) = SumOver(S, f) + (IF s \in T THEN g[s] ELSE 0)
                                      - (IF s \in S THEN f[s] ELSE 0)
    BY <1>4, <2>2, <2>3, <2>4, SumChanges
  <2>6. (IF s \in T THEN g[s] ELSE 0) = PaidFor(p)
    BY <1>1, <1>4, <2>1 DEF PaidFor
  <2>7. (IF s \in S THEN f[s] ELSE 0) = PaidFor(open[s])
    BY <1>4, <2>1 DEF PaidFor
  <2>8. Paid = SumOver(S, f) /\ Paid' = SumOver(T, g)
    BY <1>3, <2>1, Zenon DEF Paid
  <2>9. QED
    BY <2>5, <2>6, <2>7, <2>8
<1>9. QED
  BY <1>1, <1>2, <1>7, <1>8
-----------------------------------------------------------------------------
(* The steps of a run, each with what it does in numbers.                    *)

LEMMA BacktestInvInit == BacktestInit => BacktestInv
<1> SUFFICES ASSUME BacktestInit PROVE BacktestInv
  OBVIOUS
<1>1. NoPosition \in Positions /\ InitialCapital \in Nat /\ Days \in Nat \ {0}
      /\ MaxOpenPositions \in Nat
  BY BacktestAssumption DEF NoPosition, Positions
<1>2. BooksTyped
  BY <1>1 DEF BacktestInit, BooksTyped
<1>3. Held = {} /\ \A s \in Stocks : open[s].held = 0
  BY DEF BacktestInit, Held, NoPosition
<1>4. Spent = 0 /\ Paid = 0
  BY <1>3, SumOfNothing, Zenon DEF Spent, Paid
<1>5. Cardinality(Held) = 0
  BY <1>3, FS_EmptySet
<1>6. CashBalances /\ CreditIsCovered
  BY <1>1, <1>4, <1>5 DEF BacktestInit, CashBalances, CreditIsCovered
<1>7. DaysAreCountedOnce /\ TodoIsInTurn /\ ClosingEarnsTheEquity
  BY <1>1, <1>3 DEF BacktestInit, DaysAreCountedOnce, TodoIsInTurn, ClosingEarnsTheEquity
<1>8. QED
  BY <1>2, <1>6, <1>7 DEF BacktestInv

(* Steps that leave cash, positions and trades alone.                        *)
LEMMA SamePositionsBalance ==
  ASSUME BacktestInv, UNCHANGED <<cash, open, trades>>
  PROVE  /\ Held' = Held /\ Spent' = Spent /\ Paid' = Paid
         /\ CashBalances' /\ CreditIsCovered'
<1>1. Held' = Held
  BY DEF Held
<1>2. Spent' = Spent /\ Paid' = Paid
  BY <1>1, Zenon DEF Spent, Paid
<1>3. CashBalances'
  BY <1>2 DEF CashBalances, BacktestInv
<1>4. CreditIsCovered'
  BY <1>1, <1>2 DEF CreditIsCovered, BacktestInv
<1>5. QED
  BY <1>1, <1>2, <1>3, <1>4

LEMMA NextDayKeeps == BacktestInv /\ NextDay => BacktestInv'
<1> SUFFICES ASSUME BacktestInv, NextDay PROVE BacktestInv'
  OBVIOUS
<1>1. Held' = Held /\ CashBalances' /\ CreditIsCovered'
  BY SamePositionsBalance DEF NextDay
<1>2. BooksTyped'
  BY DEF NextDay, BooksTyped, BacktestInv, Held
<1>3. DaysAreCountedOnce'
  BY DEF NextDay, DaysAreCountedOnce, BacktestInv, Held
<1>4. TodoIsInTurn' /\ ClosingEarnsTheEquity'
  BY <1>1 DEF NextDay, TodoIsInTurn, ClosingEarnsTheEquity
<1>5. QED
  BY <1>1, <1>2, <1>3, <1>4 DEF BacktestInv

LEMMA EntriesBeginKeeps == BacktestInv /\ EntriesBegin => BacktestInv'
<1> SUFFICES ASSUME BacktestInv, EntriesBegin PROVE BacktestInv'
  OBVIOUS
<1>1. Held' = Held /\ CashBalances' /\ CreditIsCovered'
  BY SamePositionsBalance DEF EntriesBegin
<1>2. todo' \subseteq Stocks /\ todo' \cap Held = {}
  BY DEF EntriesBegin
<1>3. BooksTyped'
  BY <1>2 DEF EntriesBegin, BooksTyped, BacktestInv
<1>4. DaysAreCountedOnce'
  BY DEF EntriesBegin, DaysAreCountedOnce, BacktestInv
<1>5. TodoIsInTurn' /\ ClosingEarnsTheEquity'
  BY <1>1, <1>2 DEF EntriesBegin, TodoIsInTurn, ClosingEarnsTheEquity
<1>6. QED
  BY <1>1, <1>3, <1>4, <1>5 DEF BacktestInv

LEMMA DayEndsKeeps == BacktestInv /\ DayEnds => BacktestInv'
<1> SUFFICES ASSUME BacktestInv, DayEnds PROVE BacktestInv'
  OBVIOUS
<1>1. Held' = Held /\ CashBalances' /\ CreditIsCovered'
  BY SamePositionsBalance DEF DayEnds
<1>2. /\ day \in 1..Days /\ day' = day + 1 /\ day' \in 1..(Days + 1) /\ Days \in Nat
      /\ phase' \in {"bars", "closing"} /\ (phase' = "bars" => day' <= Days)
  BY BacktestAssumption DEF DayEnds, BooksTyped, BacktestInv, DaysAreCountedOnce
<1>3. BooksTyped'
  <2>1. Worth \in Int
    BY SumsAreNumbers DEF BacktestInv
  <2>2. todo' \subseteq Stocks
    BY DEF DayEnds, Held
  <2>3. QED
    BY <1>2, <2>1, <2>2 DEF DayEnds, BooksTyped, BacktestInv
<1>4. DaysAreCountedOnce'
  <2>1. \A s \in Stocks : open[s].held \in Nat /\ open[s].held <= day
    BY StocksAreFinite DEF BacktestInv, DaysAreCountedOnce, Positions
  <2>2. open' = open
    BY DEF DayEnds
  <2>3. \A s \in Stocks : open'[s].held <= day' /\ open'[s].held + 1 <= day'
    BY <1>2, <2>1, <2>2
  <2>4. QED
    BY <1>2, <2>3 DEF DaysAreCountedOnce
<1>5. TodoIsInTurn'
  BY <1>1, <1>2 DEF DayEnds, TodoIsInTurn
<1>6. ClosingEarnsTheEquity'
  <2>1. SUFFICES ASSUME phase' = "closing"
                 PROVE  cash' + ToCome' <= equity' /\ equity' <= cash' + ToCome' + trades'.cost
    BY <1>2 DEF ClosingEarnsTheEquity
  <2>2. todo' = Held /\ equity' = Worth /\ cash' = cash /\ trades' = trades
        /\ quotes' = quotes /\ open' = open
    BY <2>1 DEF DayEnds
  <2>3. ToCome' = SumOver(Held, [s \in Held |-> open[s].qty * quotes[s].close])
    BY <2>2, Zenon DEF ToCome
  <2>4. Worth = cash + ToCome'
    BY <2>3, SumsAreTotals
  <2>6. ToCome' \in Int
    <3>2. \A s \in Held : open[s].qty * quotes[s].close \in Int
      <4>1. SUFFICES ASSUME NEW s \in Held PROVE open[s].qty * quotes[s].close \in Int
        OBVIOUS
      <4>2. PICK q \in Nat, c \in Nat : q = open[s].qty /\ c = quotes[s].close
        BY StocksAreFinite DEF BacktestInv, Positions, Held
      <4>3. q * c \in Int
        OBVIOUS
      <4>4. QED
        BY <4>2, <4>3
    <3>3. IsFiniteSet(Held)
      BY StocksAreFinite DEF BacktestInv
    <3>4. QED
      BY <2>3, <3>2, <3>3, SumIsANumber
  <2>7. PICK m \in Int : m = ToCome'
    BY <2>6
  <2>8. PICK c \in Int, k \in Nat : c = cash /\ k = trades.cost
    BY DEF BacktestInv, BooksTyped
  <2>9. equity' = c + m /\ cash' = c /\ trades'.cost = k
    BY <2>2, <2>4, <2>7, <2>8
  <2>10. c + m <= c + m /\ c + m <= c + m + k
    OBVIOUS
  <2>11. QED
    BY <2>7, <2>9, <2>10
<1>7. QED
  BY <1>1, <1>3, <1>4, <1>5, <1>6 DEF BacktestInv

LEMMA ReportKeeps == BacktestInv /\ Report => BacktestInv'
<1> SUFFICES ASSUME BacktestInv, Report PROVE BacktestInv'
  OBVIOUS
<1>1. Held' = Held /\ CashBalances' /\ CreditIsCovered'
  BY SamePositionsBalance DEF Report
<1>2. ToCome = 0
  BY SumOfNothing, Zenon DEF Report, ToCome
<1>3. cash \in Int /\ equity \in Int /\ trades.cost \in Nat
  BY DEF BacktestInv, BooksTyped
<1>4. ClosingEarnsTheEquity'
  BY <1>2, <1>3 DEF Report, ClosingEarnsTheEquity, BacktestInv
<1>5. BooksTyped' /\ DaysAreCountedOnce' /\ TodoIsInTurn'
  BY <1>1 DEF Report, BooksTyped, BacktestInv, DaysAreCountedOnce, TodoIsInTurn
<1>6. QED
  BY <1>1, <1>4, <1>5 DEF BacktestInv

(* The sale of a position, of a part of it or of nothing, keeps the books.    *)
LEMMA SaleBalances ==
  ASSUME BacktestInv, NEW s \in Held, NEW gone \in Nat, NEW left \in Nat, NEW at \in Int,
         NEW c \in Nat, NEW age \in Nat, gone + left = open[s].qty, gone * at + c >= 0,
         cash' = cash + gone * at - c,
         trades' = Trade((at - open[s].entry) * gone - open[s].cost - c, open[s].cost + c),
         open' = [open EXCEPT ![s] = Rest(open[s], left, age)]
  PROVE  /\ open' \in [Stocks -> Positions] /\ cash' \in Int
         /\ trades' \in [n : Nat, pnl : Int, cost : Nat]
         /\ open'[s].held \in {0, age} /\ \A x \in Stocks \ {s} : open'[x] = open[x]
         /\ Held \ {s} \subseteq Held' /\ CashBalances' /\ CreditIsCovered'
<1>1. s \in Stocks /\ open[s] \in Positions /\ BooksTyped
  BY StocksAreFinite DEF Held, BacktestInv
<1>2. PICK e \in Nat, k \in Nat, q \in Nat :
        e = open[s].entry /\ k = open[s].cost /\ q = open[s].qty
  BY <1>1 DEF Positions
<1>3. PICK p \in Positions : /\ p = Rest(open[s], left, age)
                             /\ SpentOn(p) = left * e /\ PaidFor(p) = 0 /\ p.qty = left
                             /\ p.held \in {0, age}
  <2>1. CASE left = 0
    <3>0. NoPosition \in Positions /\ NoPosition.qty = 0 /\ NoPosition.held = 0
      BY DEF NoPosition, Positions
    <3>1. PICK p \in Positions : p = NoPosition /\ p.qty = 0 /\ p.held = 0
      BY <3>0, Zenon
    <3>2. SpentOn(p) = 0 /\ PaidFor(p) = 0
      BY <3>1 DEF SpentOn, PaidFor
    <3>3. 0 * e = 0
      OBVIOUS
    <3>4. QED
      BY <2>1, <3>1, <3>2, <3>3 DEF Rest
  <2>2. CASE left # 0
    <3>1. PICK p \in Positions : p = [open[s] EXCEPT !.qty = left, !.held = age, !.cost = 0]
      BY <1>1 DEF Positions
    <3>2. p.qty = left /\ p.cost = 0 /\ p.entry = e /\ p.held = age
      BY <1>1, <1>2, <3>1 DEF Positions
    <3>3. p = Rest(open[s], left, age)
      BY <2>2, <3>1 DEF Rest
    <3>4. left * e + 0 = left * e
      OBVIOUS
    <3>5. QED
      BY <2>2, <3>2, <3>3, <3>4 DEF SpentOn, PaidFor
  <2>3. QED
    BY <2>1, <2>2
<1>4. SpentOn(open[s]) = q * e + k /\ PaidFor(open[s]) = k
  BY <1>2 DEF Held, SpentOn, PaidFor
<1>5. /\ open' \in [Stocks -> Positions] /\ \A x \in Stocks \ {s} : open'[x] = open[x]
      /\ open'[s] = p /\ Held' = IF p.qty > 0 THEN Held \cup {s} ELSE Held \ {s}
      /\ Spent' = Spent + SpentOn(p) - SpentOn(open[s])
      /\ Paid' = Paid + PaidFor(p) - PaidFor(open[s])
  BY <1>1, <1>3, PositionChanges
<1>6. PICK a \in Int, z \in Int, g \in Nat, u \in Int, v \in Int, i \in Nat :
        /\ a = cash /\ z = trades.pnl /\ g = trades.cost /\ u = Spent /\ v = Paid
        /\ i = InitialCapital
  <2>1. Spent \in Int /\ Paid \in Int
    BY <1>1, SumsAreNumbers
  <2>2. QED
    BY <1>1, <2>1, BacktestAssumption DEF BooksTyped
<1>7. a = i + z - u /\ a + 2 * (g + v) >= 0
  BY <1>6 DEF BacktestInv, CashBalances, CreditIsCovered
<1>8. PICK y \in Int : y = gone * at
  OBVIOUS
<1>9. (at - e) * gone = y - e * gone /\ e * gone \in Nat
  BY <1>8
<1>10. cash' = a + y - c
  BY <1>6, <1>8
<1>11. /\ trades' \in [n : Nat, pnl : Int, cost : Nat]
       /\ trades'.pnl = z + ((y - e * gone) - k - c) /\ trades'.cost = g + (k + c)
  BY <1>1, <1>2, <1>6, <1>9 DEF Trade, BooksTyped
<1>12. q * e = left * e + e * gone /\ left * e \in Nat
  <2>1. q = left + gone
    BY <1>2
  <2>2. QED
    BY <2>1
<1>13. PICK w \in Nat, x \in Nat : w = left * e /\ x = e * gone
  BY <1>9, <1>12
<1>14. Spent' = u + w - (w + x + k) /\ Paid' = v + 0 - k
  BY <1>3, <1>4, <1>5, <1>6, <1>12, <1>13
<1>15. CashBalances'
  BY <1>6, <1>7, <1>10, <1>11, <1>13, <1>14 DEF CashBalances
<1>16. CreditIsCovered'
  <2>1. Cardinality(Held') <= Cardinality(Held) /\ Cardinality(Held') \in Nat
    <3>1. IsFiniteSet(Held) /\ Held' \subseteq Held
      BY <1>1, <1>5, StocksAreFinite
    <3>2. QED
      BY <3>1, FS_Subset, FS_CardinalityType
  <2>2. Cardinality(Held') <= MaxOpenPositions
    BY <1>1, <2>1, StocksAreFinite, BacktestAssumption DEF BacktestInv, CreditIsCovered
  <2>3. cash' + 2 * (trades'.cost + Paid') >= 0
    BY <1>7, <1>8, <1>10, <1>11, <1>14
  <2>4. QED
    BY <2>2, <2>3 DEF CreditIsCovered
<1>17. QED
  BY <1>1, <1>2, <1>3, <1>5, <1>6, <1>10, <1>11, <1>15, <1>16

LEMMA ExitPriceIsANumber ==
  ASSUME NEW p \in Positions, NEW b \in Bars, NEW age \in Nat
  PROVE  ExitPrice(p, b, age) \in Nat
<1>1. p.stop \in Nat /\ p.target \in Nat /\ b.close \in Nat
  BY BacktestAssumption DEF Positions
<1>2. QED
  BY <1>1 DEF ExitPrice

(* In the phase of exits: what is due for the types, the days and the turn.  *)
LEMMA ExitsKeepTime ==
  ASSUME BacktestInv, NEW s \in todo, phase = "exits", todo' = todo \ {s},
         UNCHANGED <<day, phase, quotes, equity>>, open' \in [Stocks -> Positions], cash' \in Int,
         trades' \in [n : Nat, pnl : Int, cost : Nat],
         \A x \in Stocks \ {s} : open'[x] = open[x],
         open'[s].held \in {0, open[s].held, open[s].held + 1},
         Held \ {s} \subseteq Held', CashBalances', CreditIsCovered'
  PROVE  BacktestInv'
<1>1. BooksTyped'
  BY DEF BooksTyped, BacktestInv
<1>2. DaysAreCountedOnce'
  <2>1. day \in Nat /\ day >= 1 /\ day <= Days /\ s \in Stocks
    BY BacktestAssumption DEF BacktestInv, BooksTyped, DaysAreCountedOnce
  <2>2. open[s].held \in Nat /\ open[s].held + 1 <= day
    BY <2>1, StocksAreFinite DEF BacktestInv, DaysAreCountedOnce, Positions
  <2>3. \A x \in Stocks : open[x].held <= day
    BY DEF BacktestInv, DaysAreCountedOnce
  <2>4. open'[s].held <= day
    BY <2>1, <2>2
  <2>5. \A x \in Stocks : open'[x].held <= day'
    BY <2>3, <2>4
  <2>6. \A x \in todo' : open'[x].held + 1 <= day'
    BY DEF BacktestInv, DaysAreCountedOnce, BooksTyped
  <2>7. QED
    BY <2>1, <2>5, <2>6 DEF DaysAreCountedOnce
<1>3. TodoIsInTurn' /\ ClosingEarnsTheEquity'
  BY DEF TodoIsInTurn, ClosingEarnsTheEquity, BacktestInv
<1>4. QED
  BY <1>1, <1>2, <1>3 DEF BacktestInv

LEMMA CheckExitKeeps ==
  ASSUME BacktestInv, NEW s \in Stocks, CheckExit(s)
  PROVE  BacktestInv'
<1>1. /\ phase = "exits" /\ s \in todo /\ todo' = todo \ {s}
      /\ UNCHANGED <<day, phase, quotes, equity>>
  BY DEF CheckExit
<1>2. /\ BooksTyped /\ s \in Held /\ open[s] \in Positions
      /\ open \in [Stocks -> Positions] /\ cash \in Int
      /\ trades \in [n : Nat, pnl : Int, cost : Nat]
  BY <1>1 DEF BacktestInv, TodoIsInTurn, BooksTyped
<1>3. PICK age \in Nat : age = open[s].held + 1
  BY <1>2 DEF Positions
<1>4. PICK nominal : nominal = ExitPrice(open[s], quotes[s], age)
  OBVIOUS
<1>5. CASE UNCHANGED <<cash, open, trades>>
  <2>1. Held' = Held /\ CashBalances' /\ CreditIsCovered'
    BY <1>5, SamePositionsBalance
  <2>2. QED
    BY <1>1, <1>2, <1>5, <2>1, ExitsKeepTime
<1>6. CASE open' = [open EXCEPT ![s].held = age] /\ UNCHANGED <<cash, trades>>
  <2>1. PICK p \in Positions : p = [open[s] EXCEPT !.held = age]
    BY <1>2 DEF Positions
  <2>2. p.qty = open[s].qty /\ p.entry = open[s].entry /\ p.cost = open[s].cost /\ p.held = age
    BY <1>2, <2>1 DEF Positions
  <2>3. open' = [open EXCEPT ![s] = p]
    BY <1>6, <2>1
  <2>4. /\ open' \in [Stocks -> Positions] /\ \A x \in Stocks \ {s} : open'[x] = open[x]
        /\ open'[s] = p /\ Held' = IF p.qty > 0 THEN Held \cup {s} ELSE Held \ {s}
        /\ Spent' = Spent + SpentOn(p) - SpentOn(open[s])
        /\ Paid' = Paid + PaidFor(p) - PaidFor(open[s])
    BY <1>2, <2>3, PositionChanges
  <2>5. Held' = Held
    BY <1>2, <2>2, <2>4 DEF Held
  <2>6. SpentOn(p) = SpentOn(open[s]) /\ PaidFor(p) = PaidFor(open[s])
    BY <2>2 DEF SpentOn, PaidFor
  <2>7. PICK x \in Int, y \in Int : x = SpentOn(open[s]) /\ y = PaidFor(open[s])
    <3>1. PICK q \in Nat, e \in Nat, k \in Nat :
            q = open[s].qty /\ e = open[s].entry /\ k = open[s].cost
      BY <1>2 DEF Positions
    <3>2. q * e + k \in Int
      OBVIOUS
    <3>3. QED
      BY <3>1, <3>2 DEF SpentOn, PaidFor
  <2>8. PICK u \in Int, v \in Int : u = Spent /\ v = Paid
    BY <1>2, SumsAreNumbers
  <2>9. Spent' = u + x - x /\ Paid' = v + y - y
    BY <2>4, <2>6, <2>7, <2>8
  <2>10. Spent' = Spent /\ Paid' = Paid
    BY <2>8, <2>9
  <2>11. CashBalances' /\ CreditIsCovered'
    BY <1>6, <2>5, <2>10 DEF CashBalances, CreditIsCovered, BacktestInv
  <2>12. open'[s].held = open[s].held + 1
    BY <1>3, <2>2, <2>4
  <2>13. QED
    BY <1>1, <1>2, <1>6, <2>4, <2>5, <2>11, <2>12, ExitsKeepTime
<1>7. CASE quotes[s] # NoBar /\ nominal # 0
  <2>1. nominal \in Nat \ {0}
    BY <1>2, <1>3, <1>4, <1>7, StocksAreFinite, ExitPriceIsANumber
  <2>2. PICK q \in Nat \ {0} : q = open[s].qty
    BY <1>2 DEF Held, Positions
  <2>3. PICK at \in Int, c \in Nat :
          /\ at = FillPrice("sell", nominal, nominal * q)
          /\ c = OneWayCost("sell", nominal * q, q)
          /\ \A n \in Nat : n <= q => n * at + c >= 0
    <3>1. q <= q /\ q \in Nat /\ nominal \in Nat
      BY <2>1, <2>2
    <3>2. /\ FillPrice("sell", nominal, nominal * q) \in Int
          /\ OneWayCost("sell", nominal * q, q) \in Nat
      BY <3>1, SaleIsCovered
    <3>3. \A n \in Nat : n <= q => n * FillPrice("sell", nominal, nominal * q)
                                     + OneWayCost("sell", nominal * q, q) >= 0
      BY <3>1, SaleIsCovered
    <3>4. QED
      BY <3>2, <3>3
  <2>4. PICK gone \in Fills(q, nominal) :
          /\ cash' = cash + gone * at - c
          /\ trades' = Trade((at - open[s].entry) * gone - open[s].cost - c, open[s].cost + c)
          /\ open' = [open EXCEPT ![s] = Rest(open[s], q - gone, age)]
    BY <1>3, <1>4, <1>7, <2>2, <2>3 DEF CheckExit
  <2>5. gone \in Nat /\ gone <= q
    BY <2>1, <2>2, FillsArePartial
  <2>6. PICK left \in Nat : left = q - gone /\ gone + left = q
    BY <2>2, <2>5
  <2>7. gone * at + c >= 0
    BY <2>3, <2>5
  <2>8. /\ open' \in [Stocks -> Positions] /\ cash' \in Int
        /\ trades' \in [n : Nat, pnl : Int, cost : Nat]
        /\ open'[s].held \in {0, age} /\ \A x \in Stocks \ {s} : open'[x] = open[x]
        /\ Held \ {s} \subseteq Held' /\ CashBalances' /\ CreditIsCovered'
    BY <1>2, <2>2, <2>4, <2>5, <2>6, <2>7, SaleBalances
  <2>9. open'[s].held \in {0, open[s].held, open[s].held + 1}
    BY <1>3, <2>8
  <2>10. QED
    BY <1>1, <2>8, <2>9, ExitsKeepTime
<1>8. QED
  BY <1>3, <1>4, <1>5, <1>6, <1>7 DEF CheckExit

LEMMA CloseOutKeeps ==
  ASSUME BacktestInv, NEW s \in Stocks, CloseOut(s)
  PROVE  BacktestInv'
<1>1. /\ phase = "closing" /\ s \in todo /\ todo' = todo \ {s}
      /\ UNCHANGED <<day, phase, quotes, equity>>
  BY DEF CloseOut
<1>2. /\ BooksTyped /\ s \in Held /\ open[s] \in Positions
      /\ cash + ToCome <= equity /\ equity <= cash + ToCome + trades.cost
  BY <1>1 DEF BacktestInv, TodoIsInTurn, ClosingEarnsTheEquity, BooksTyped
<1>3. PICK q \in Nat \ {0}, e \in Nat, k \in Nat, b \in Nat :
        q = open[s].qty /\ e = open[s].entry /\ k = open[s].cost /\ b = quotes[s].close
  BY <1>2, StocksAreFinite DEF Held, Positions
<1>4. PICK a \in Int, g \in Nat, z \in Int, m \in Int :
        a = cash /\ g = trades.cost /\ z = equity /\ m = ToCome
  BY <1>2, SumsAreNumbers DEF BooksTyped
<1>5. a + m <= z /\ z <= a + m + g
  BY <1>2, <1>4
<1>6. PICK w \in Nat : w = q * b
  OBVIOUS
<1>7. ASSUME \A x \in Stocks \ {s} : open'[x] = open[x]
      PROVE  ToCome' = m - w
  <2>1. PICK f, T : f = [x \in todo |-> open[x].qty * quotes[x].close] /\ T = todo \ {s}
    OBVIOUS
  <2>2. IsFiniteSet(todo) /\ todo \subseteq Stocks
    BY <1>2, StocksAreFinite DEF BooksTyped
  <2>3. \A x \in todo : f[x] \in Int
    <3>1. SUFFICES ASSUME NEW x \in todo PROVE f[x] \in Int
      OBVIOUS
    <3>2. PICK i \in Nat, j \in Nat : i = open[x].qty /\ j = quotes[x].close
      BY <1>2, <2>2, StocksAreFinite DEF Positions
    <3>3. i * j \in Int
      OBVIOUS
    <3>4. QED
      BY <2>1, <3>2, <3>3
  <2>4. SumOver(todo, f) = f[s] + SumOver(T, f)
    BY <1>1, <2>1, <2>2, <2>3, SumWithout
  <2>5. PICK g2 : g2 = [x \in T |-> open'[x].qty * quotes[x].close]
    OBVIOUS
  <2>6. \A x \in T : g2[x] = f[x]
    BY <1>7, <2>1, <2>2, <2>5
  <2>7. IsFiniteSet(T) /\ \A x \in T : f[x] \in Int
    BY <2>1, <2>2, <2>3, FS_Subset
  <2>8. PICK r \in Int : r = SumOver(T, f) /\ r = SumOver(T, g2)
    BY <2>6, <2>7, SumIsANumber, SumsOfEqualsAgree
  <2>9. f[s] = w
    BY <1>1, <1>3, <1>6, <2>1
  <2>10. m = w + r
    BY <1>4, <2>1, <2>4, <2>8, <2>9 DEF ToCome
  <2>11. ToCome' = r
    BY <1>1, <2>1, <2>5, <2>8 DEF ToCome
  <2>12. QED
    BY <2>8, <2>10, <2>11
<1>8. CASE quotes[s] = NoBar
  <2>1. UNCHANGED <<cash, open, trades>>
    BY <1>8 DEF CloseOut
  <2>2. Held' = Held /\ CashBalances' /\ CreditIsCovered'
    BY <2>1, SamePositionsBalance
  <2>3. b = 0 /\ q * 0 = 0
    BY <1>3, <1>8 DEF NoBar
  <2>4. ToCome' = m
    BY <1>4, <1>6, <1>7, <2>1, <2>3
  <2>5. ClosingEarnsTheEquity'
    BY <1>1, <1>4, <1>5, <2>1, <2>4 DEF ClosingEarnsTheEquity
  <2>6. DaysAreCountedOnce' /\ BooksTyped' /\ TodoIsInTurn'
    BY <1>1, <2>1, <2>2 DEF BacktestInv, DaysAreCountedOnce, BooksTyped, TodoIsInTurn
  <2>7. QED
    BY <2>2, <2>5, <2>6 DEF BacktestInv
<1>9. CASE quotes[s] # NoBar
  <2>1. b * q = w
    BY <1>6
  <2>2. PICK c \in Nat : c = OneWayCost("sell", w, q)
    BY <1>3, CostIsAtLeast
  <2>3. /\ cash' = a + w - c
        /\ trades' = Trade(w - e * q - k - c, k + c)
        /\ open' = [open EXCEPT ![s] = NoPosition]
    BY <1>3, <1>4, <1>9, <2>1, <2>2 DEF CloseOut
  <2>4. (b - e) * q = w - e * q /\ e * q \in Nat
    BY <2>1
  <2>5. (b - e) * q - k - c = w - e * q - k - c
    BY <2>4
  <2>6. /\ cash' = cash + q * b - c
        /\ trades' = Trade((b - open[s].entry) * q - open[s].cost - c, open[s].cost + c)
        /\ open' = [open EXCEPT ![s] = Rest(open[s], 0, 0)]
    BY <1>3, <1>4, <1>6, <2>3, <2>5 DEF Rest
  <2>7. PICK none \in Nat : none = 0
    OBVIOUS
  <2>8. /\ open' \in [Stocks -> Positions] /\ cash' \in Int
        /\ trades' \in [n : Nat, pnl : Int, cost : Nat]
        /\ open'[s].held \in {0, none} /\ \A x \in Stocks \ {s} : open'[x] = open[x]
        /\ Held \ {s} \subseteq Held' /\ CashBalances' /\ CreditIsCovered'
    <3>1. q + none = open[s].qty /\ q \in Nat /\ b \in Int
      BY <1>3, <2>7
    <3>2. q * b + c >= 0
      BY <1>6, <2>2
    <3>3. open' = [open EXCEPT ![s] = Rest(open[s], none, none)]
      BY <2>6, <2>7
    <3>4. /\ cash' = cash + q * b - c
          /\ trades' = Trade((b - open[s].entry) * q - open[s].cost - c, open[s].cost + c)
      BY <2>6
    <3>5. s \in Held /\ c \in Nat /\ none \in Nat
      BY <1>2
    <3>6. QED
      BY <3>1, <3>2, <3>3, <3>4, <3>5, SaleBalances, Zenon
  <2>9. ToCome' = m - w
    BY <1>7, <2>8
  <2>10. trades'.cost = g + k + c
    <3>1. trades'.cost = g + (k + c)
      BY <1>2, <1>4, <2>3 DEF Trade
    <3>2. QED
      BY <3>1
  <2>11. ClosingEarnsTheEquity'
    <3>1. (a + w - c) + (m - w) <= z /\ z <= (a + w - c) + (m - w) + (g + k + c)
      BY <1>5
    <3>2. QED
      BY <1>1, <1>4, <2>3, <2>9, <2>10, <3>1 DEF ClosingEarnsTheEquity
  <2>12. BooksTyped' /\ TodoIsInTurn'
    BY <1>1, <2>8 DEF BacktestInv, BooksTyped, TodoIsInTurn
  <2>13. DaysAreCountedOnce'
    <3>1. day \in Nat /\ day >= 1 /\ open'[s].held = 0
      BY <1>2, <2>7, <2>8 DEF BooksTyped
    <3>2. \A x \in Stocks : open[x].held <= day /\ open[x].held + 1 <= day
      BY <1>1 DEF BacktestInv, DaysAreCountedOnce
    <3>3. \A x \in Stocks : open'[x].held <= day /\ open'[x].held + 1 <= day
      BY <2>8, <3>1, <3>2
    <3>4. QED
      BY <1>1, <3>3 DEF DaysAreCountedOnce
  <2>14. QED
    BY <2>8, <2>11, <2>12, <2>13 DEF BacktestInv
<1>10. QED
  BY <1>8, <1>9

(* Whatever the account is worth, an order is for one share or more.         *)
LEMMA QuantityIsPositive ==
  ASSUME BooksTyped, NEW p \in Nat, NEW d \in Nat
  PROVE  Quantity(p, d) \in Nat \ {0}
<1>1. PICK w \in Int : w = Worth
  BY SumsAreNumbers
<1>2. PICK r \in Nat, o \in Nat \ {0}, dollar \in Nat \ {0} :
        r = RiskPerTrade /\ o = MaxOpenPositions /\ dollar = 10000
  BY BacktestAssumption
<1>3. PICK t \in Int, u \in Int : t = w \div 1000 /\ u = p \div 1000
  BY DivisionWithRest
<1>4. PICK x \in Int, y \in Int : x = t * r /\ y = u * d
  OBVIOUS
<1>5. PICK z \in Int : z = Max({y, dollar}) /\ z > 0
  BY MaxOfTwoNumbers
<1>6. PICK risked \in Int, part \in Int : risked = x \div z /\ part = w \div o
  BY <1>5, DivisionWithRest
<1>7. PICK n \in Int : n = Max({risked, 1}) /\ n >= 1
  BY MaxOfTwoNumbers
<1>8. PICK v \in Int : v = Max({p, dollar}) /\ v > 0
  BY MaxOfTwoNumbers
<1>9. PICK i \in Int : i = part \div v
  BY <1>8, DivisionWithRest
<1>10. PICK m \in Int : m = Max({i, 1}) /\ m >= 1
  BY MaxOfTwoNumbers
<1>11. Quantity(p, d) = IF n * p > part THEN m ELSE n
  <2>1. Max({(p \div 1000) * d, 10000}) = z /\ Max({p, 10000}) = v
    BY <1>2, <1>3, <1>4, <1>5, <1>8
  <2>2. (Worth \div 1000) * RiskPerTrade = x /\ Worth \div MaxOpenPositions = part
    BY <1>1, <1>2, <1>3, <1>4, <1>6
  <2>3. ((Worth \div 1000) * RiskPerTrade) \div Max({(p \div 1000) * d, 10000}) = risked
    BY <1>6, <2>1, <2>2
  <2>4. (Worth \div MaxOpenPositions) \div Max({p, 10000}) = i
    BY <1>9, <2>1, <2>2
  <2>5. Quantity(p, d) = IF Max({risked, 1}) * p > part THEN Max({i, 1}) ELSE Max({risked, 1})
    <3>1. PICK f, h, j : /\ f = ((Worth \div 1000) * RiskPerTrade)
                                   \div Max({(p \div 1000) * d, 10000})
                         /\ h = Worth \div MaxOpenPositions
                         /\ j = (Worth \div MaxOpenPositions) \div Max({p, 10000})
      OBVIOUS
    <3>2. Quantity(p, d) = IF Max({f, 1}) * p > h THEN Max({j, 1}) ELSE Max({f, 1})
      BY <3>1 DEF Quantity
    <3>3. f = risked /\ h = part /\ j = i
      BY <2>2, <2>3, <2>4, <3>1
    <3>4. QED
      BY <3>2, <3>3
  <2>6. QED
    BY <1>7, <1>10, <2>5
<1>12. QED
  BY <1>7, <1>10, <1>11

LEMMA NothingBoughtCostsNothing ==
  ASSUME NEW at \in Nat
  PROVE  OneWayCost("buy", 0 * at, 0) = 0
<1>1. PICK k \in Nat : k = HalfSpread + ImpactBps(0)
  BY ImpactGrows, BacktestAssumption
<1>2. 0 \div 10000 = 0 /\ 0 * k = 0 /\ 0 * at = 0
  OBVIOUS
<1>3. Bps(0, k) = 0
  BY <1>2 DEF Bps
<1>4. OneWayCost("buy", 0, 0) = 0 + Bps(0, k)
  BY <1>1 DEF OneWayCost, Fees
<1>5. QED
  BY <1>2, <1>3, <1>4

LEMMA StopsAreNumbers ==
  ASSUME NEW at \in Nat, NEW distance \in StopDistances
  PROVE  /\ at - (at \div 1000) * distance \in Nat
         /\ at + (at \div 1000) * 2 * distance \in Nat
<1>1. PICK t \in Nat : t = at \div 1000 /\ 1000 * t <= at
  BY QuotientIsWithin
<1>2. PICK d \in 1..999 : d = distance
  BY BacktestAssumption
<1>3. PICK x \in Nat : x = t * d
  OBVIOUS
<1>4. d * t <= 999 * t /\ d * t = x
  BY <1>3, ProductIsMonotone
<1>5. at - x \in Nat /\ at + 2 * x \in Nat /\ t * 2 * d = 2 * x
  BY <1>1, <1>3, <1>4
<1>6. QED
  BY <1>1, <1>2, <1>3, <1>5

LEMMA EnterKeeps ==
  ASSUME BacktestInv, NEW s \in Stocks, Enter(s)
  PROVE  BacktestInv'
<1>1. /\ phase = "entries" /\ s \in todo /\ todo' = todo \ {s}
      /\ UNCHANGED <<day, phase, quotes, trades, equity>>
  BY DEF Enter
<1>2. BooksTyped /\ s \notin Held /\ open \in [Stocks -> Positions] /\ open[s].qty = 0
  <2>1. BooksTyped /\ s \notin Held /\ open \in [Stocks -> Positions]
    BY <1>1 DEF BacktestInv, TodoIsInTurn, BooksTyped
  <2>2. open[s].qty \in Nat
    BY <2>1 DEF Positions
  <2>3. QED
    BY <2>1, <2>2 DEF Held
<1>3. ASSUME open' \in [Stocks -> Positions], cash' \in Int, CashBalances', CreditIsCovered',
             \A x \in Stocks \ {s} : open'[x] = open[x], Held' \subseteq Held \cup {s},
             open'[s].held \in {0, open[s].held}
      PROVE  BacktestInv'
  <2>1. BooksTyped'
    BY <1>1, <1>2, <1>3 DEF BooksTyped
  <2>2. DaysAreCountedOnce'
    <3>1. day \in Nat /\ \A x \in Stocks : open[x].held <= day
      BY DEF BacktestInv, DaysAreCountedOnce, BooksTyped
    <3>2. \A x \in Stocks : open'[x].held <= day
      BY <1>3, <3>1
    <3>3. QED
      BY <1>1, <3>2 DEF DaysAreCountedOnce, BacktestInv
  <2>3. TodoIsInTurn' /\ ClosingEarnsTheEquity'
    BY <1>1, <1>3 DEF TodoIsInTurn, ClosingEarnsTheEquity, BacktestInv
  <2>4. QED
    BY <1>3, <2>1, <2>2, <2>3 DEF BacktestInv
<1>4. CASE UNCHANGED <<cash, open>>
  <2>1. Held' = Held /\ CashBalances' /\ CreditIsCovered'
    BY <1>1, <1>4, SamePositionsBalance
  <2>2. QED
    BY <1>2, <1>3, <1>4, <2>1 DEF BooksTyped
<1>5. CASE ~UNCHANGED <<cash, open>>
  <2>1. PICK distance \in StopDistances, b \in Nat \ {0}, qty \in Nat \ {0},
            at \in Nat \ {0} :
          /\ b = quotes[s].close /\ qty = Quantity(b, distance)
          /\ at = FillPrice("buy", b, qty * b)
          /\ quotes[s] # NoBar /\ Cardinality(Held) < MaxOpenPositions /\ qty * b <= cash
          /\ \E got \in Fills(qty, at) :
               LET c == OneWayCost("buy", got * at, got)
               IN /\ cash' = cash - got * at - c
                  /\ open' = IF got = 0 THEN open ELSE [open EXCEPT ![s] =
                       [qty |-> got, entry |-> at, cost |-> c, held |-> 0,
                        stop |-> at - (at \div 1000) * distance,
                        target |-> at + (at \div 1000) * 2 * distance]]
    <3>1. PICK distance \in StopDistances :
            LET close == quotes[s].close
                qty   == Quantity(close, distance)
                at    == FillPrice("buy", close, qty * close)
            IN /\ ~(quotes[s] = NoBar \/ Cardinality(Held) >= MaxOpenPositions
                     \/ ~Affordable(qty * close))
               /\ \E got \in Fills(qty, at) :
                    LET c == OneWayCost("buy", got * at, got)
                    IN /\ cash' = cash - got * at - c
                       /\ open' = IF got = 0 THEN open ELSE [open EXCEPT ![s] =
                            [qty |-> got, entry |-> at, cost |-> c, held |-> 0,
                             stop |-> at - (at \div 1000) * distance,
                             target |-> at + (at \div 1000) * 2 * distance]]
      BY <1>5 DEF Enter
    <3>2. PICK b \in Nat \ {0} : b = quotes[s].close
      BY <1>2, <3>1, StocksAreFinite, BacktestAssumption
    <3>3. PICK qty \in Nat \ {0} : qty = Quantity(b, distance)
      <4>1. distance \in Nat /\ b \in Nat
        BY BacktestAssumption
      <4>2. Quantity(b, distance) \in Nat \ {0}
        BY <1>2, <4>1, QuantityIsPositive
      <4>3. QED
        BY <4>2
    <3>4. FillPrice("buy", b, qty * b) \in Nat \ {0}
      <4>1. PICK purse \in Int : purse = qty * b
        OBVIOUS
      <4>2. PICK n \in Nat : n = qty /\ n <= qty /\ qty * b <= purse
        BY <4>1
      <4>3. QED
        BY <4>2, PurchaseIsCovered
    <3>5. PICK at \in Nat \ {0} : at = FillPrice("buy", b, qty * b)
      BY <3>4
    <3>6. Cardinality(Held) < MaxOpenPositions /\ qty * b <= cash
      <4>1. MaxOpenPositions \in Nat /\ Cardinality(Held) \in Nat
        BY <1>2, StocksAreFinite, BacktestAssumption
      <4>2. QED
        BY <3>1, <3>2, <3>3, <4>1 DEF Affordable
    <3>7. QED
      BY <3>1, <3>2, <3>3, <3>5, <3>6
  <2>2. PICK got \in Fills(qty, at) :
          \E c : /\ c = OneWayCost("buy", got * at, got)
                /\ cash' = cash - got * at - c
                /\ open' = IF got = 0 THEN open ELSE [open EXCEPT ![s] =
                     [qty |-> got, entry |-> at, cost |-> c, held |-> 0,
                      stop |-> at - (at \div 1000) * distance,
                      target |-> at + (at \div 1000) * 2 * distance]]
    BY <2>1
  <2>3. PICK c : /\ c = OneWayCost("buy", got * at, got)
                 /\ cash' = cash - got * at - c
                 /\ open' = IF got = 0 THEN open ELSE [open EXCEPT ![s] =
                      [qty |-> got, entry |-> at, cost |-> c, held |-> 0,
                       stop |-> at - (at \div 1000) * distance,
                       target |-> at + (at \div 1000) * 2 * distance]]
    BY <2>2
  <2>4. got \in Nat /\ got <= qty
    BY FillsArePartial
  <2>5. cash \in Int /\ trades \in [n : Nat, pnl : Int, cost : Nat]
    BY <1>2 DEF BooksTyped
  <2>6. c \in Nat /\ got * at <= cash + c
    <3>1. /\ FillPrice("buy", b, qty * b) \in Nat \ {0}
          /\ OneWayCost("buy", got * FillPrice("buy", b, qty * b), got) \in Nat
          /\ got * FillPrice("buy", b, qty * b)
               <= cash + OneWayCost("buy", got * FillPrice("buy", b, qty * b), got)
      <4>1. PICK purse \in Int : purse = cash /\ qty * b <= purse
        BY <2>1, <2>5
      <4>2. got \in Nat /\ got <= qty
        BY <2>4
      <4>3. /\ FillPrice("buy", b, qty * b) \in Nat \ {0}
            /\ OneWayCost("buy", got * FillPrice("buy", b, qty * b), got) \in Nat
            /\ got * FillPrice("buy", b, qty * b)
                 <= purse + OneWayCost("buy", got * FillPrice("buy", b, qty * b), got)
        BY <4>1, <4>2, PurchaseIsCovered
      <4>4. QED
        BY <4>1, <4>3
    <3>2. QED
      BY <2>1, <2>3, <3>1
  <2>7. CASE got = 0
    <3>1. c = 0 /\ 0 * at = 0
      BY <2>3, <2>7, NothingBoughtCostsNothing
    <3>2. UNCHANGED <<cash, open>>
      BY <2>3, <2>5, <2>7, <3>1
    <3>3. QED
      BY <1>5, <3>2
  <2>8. CASE got # 0
    <3>1. PICK y \in Nat : y = got * at
      BY <2>4
    <3>2. PICK p \in Positions :
            /\ p = [qty |-> got, entry |-> at, cost |-> c, held |-> 0,
                    stop |-> at - (at \div 1000) * distance,
                    target |-> at + (at \div 1000) * 2 * distance]
            /\ p.qty = got /\ p.entry = at /\ p.cost = c /\ p.held = 0
      <4>1. PICK low \in Nat, high \in Nat : /\ low = at - (at \div 1000) * distance
                                            /\ high = at + (at \div 1000) * 2 * distance
        BY StopsAreNumbers
      <4>2. PICK p \in Positions : p = [qty |-> got, entry |-> at, cost |-> c, held |-> 0,
                                        stop |-> low, target |-> high]
        BY <2>4, <2>6 DEF Positions
      <4>3. QED
        BY <4>1, <4>2
    <3>3. open' = [open EXCEPT ![s] = p]
      BY <2>3, <2>8, <3>2
    <3>4. SpentOn(p) = y + c /\ PaidFor(p) = c
      BY <2>4, <2>8, <3>1, <3>2 DEF SpentOn, PaidFor
    <3>5. SpentOn(open[s]) = 0 /\ PaidFor(open[s]) = 0
      BY <1>2 DEF SpentOn, PaidFor
    <3>6. /\ open' \in [Stocks -> Positions] /\ \A x \in Stocks \ {s} : open'[x] = open[x]
          /\ open'[s] = p /\ Held' = IF p.qty > 0 THEN Held \cup {s} ELSE Held \ {s}
          /\ Spent' = Spent + SpentOn(p) - SpentOn(open[s])
          /\ Paid' = Paid + PaidFor(p) - PaidFor(open[s])
      BY <1>2, <3>3, PositionChanges
    <3>7. PICK a \in Int, z \in Int, g \in Nat, u \in Int, v \in Nat, i \in Nat :
            /\ a = cash /\ z = trades.pnl /\ g = trades.cost /\ u = Spent /\ v = Paid
            /\ i = InitialCapital
      BY <1>2, <2>5, SumsAreNumbers, BacktestAssumption
    <3>8. /\ a = i + z - u /\ a + 2 * (g + v) >= 0 /\ y <= a + c
          /\ cash' = a - y - c /\ trades' = trades /\ Spent' = u + (y + c) - 0
          /\ Paid' = v + c - 0
      BY <1>1, <2>3, <2>6, <3>1, <3>4, <3>5, <3>6, <3>7
         DEF BacktestInv, CashBalances, CreditIsCovered
    <3>9. CashBalances'
      BY <2>6, <3>7, <3>8 DEF CashBalances
    <3>10. Held' = Held \cup {s}
      BY <2>4, <2>8, <3>2, <3>6
    <3>11. CreditIsCovered'
      <4>1. Cardinality(Held') <= MaxOpenPositions
        <5>1. Cardinality(Held') = Cardinality(Held) + 1
          BY <1>2, <3>10, StocksAreFinite, FS_AddElement
        <5>2. Cardinality(Held) \in Nat /\ MaxOpenPositions \in Nat
          BY <1>2, StocksAreFinite, BacktestAssumption
        <5>3. QED
          BY <2>1, <5>1, <5>2
      <4>2. cash' + 2 * (trades'.cost + Paid') >= 0
        <5>1. (a - y - c) + 2 * (g + (v + c)) >= 0
          BY <2>6, <3>8
        <5>2. trades'.cost = g /\ Paid' = v + c
          BY <2>6, <3>7, <3>8
        <5>3. QED
          BY <3>8, <5>1, <5>2
      <4>3. QED
        BY <4>1, <4>2 DEF CreditIsCovered
    <3>12. cash' \in Int /\ Held' \subseteq Held \cup {s} /\ open'[s].held = 0
      BY <2>6, <3>2, <3>6, <3>8, <3>10
    <3>13. QED
      BY <1>3, <3>6, <3>9, <3>11, <3>12
  <2>9. QED
    BY <2>7, <2>8
<1>6. QED
  BY <1>4, <1>5

-----------------------------------------------------------------------------
LEMMA BacktestInvNext == BacktestInv /\ [BacktestNext]_backtestVars => BacktestInv'
<1> SUFFICES ASSUME BacktestInv, [BacktestNext]_backtestVars PROVE BacktestInv'
  OBVIOUS
<1>1. CASE UNCHANGED backtestVars
  <2>1. Held' = Held /\ CashBalances' /\ CreditIsCovered'
    BY <1>1, SamePositionsBalance DEF backtestVars
  <2>2. ToCome' = ToCome
    BY <1>1, Zenon DEF ToCome, backtestVars
  <2>3. BooksTyped' /\ DaysAreCountedOnce' /\ TodoIsInTurn' /\ ClosingEarnsTheEquity'
    BY <1>1, <2>1, <2>2 DEF BacktestInv, BooksTyped, DaysAreCountedOnce, TodoIsInTurn,
                            ClosingEarnsTheEquity, backtestVars
  <2>4. QED
    BY <2>1, <2>3 DEF BacktestInv
<1>2. ASSUME NEW s \in Stocks, CheckExit(s) \/ Enter(s) \/ CloseOut(s)
      PROVE  BacktestInv'
  BY <1>2, CheckExitKeeps, EnterKeeps, CloseOutKeeps
<1>3. QED
  BY <1>1, <1>2, NextDayKeeps, EntriesBeginKeeps, DayEndsKeeps, ReportKeeps DEF BacktestNext

(* Whatever the bars, the signals, the costs and the fills: the books        *)
(* balance, nothing is bought on credit but for costs, and the capital a     *)
(* backtest reports is what its equity curve and its trades say.             *)
THEOREM BacktestsAreHonest == BacktestSpec => []BooksAreHonest
<1>1. BacktestInv => BooksAreHonest
  <2> SUFFICES ASSUME BacktestInv PROVE BooksAreHonest
    OBVIOUS
  <2>1. BooksTyped /\ DaysAreCountedOnce /\ CashBalances /\ CreditIsCovered
        /\ ClosingEarnsTheEquity
    BY DEF BacktestInv
  <2>2. BooksBalance
    BY <2>1, SumsAreTotals, Zenon DEF BooksBalance, CashBalances
  <2>3. NothingOnCredit
    BY <2>1, SumsAreTotals, Zenon DEF NothingOnCredit, CreditIsCovered
  <2>4. BacktestTypeOK
    <3>1. day \in 1..(Days + 1) /\ Days \in Nat
      BY <2>1, BacktestAssumption DEF BooksTyped
    <3>2. \A s \in Stocks : open[s].qty \in Nat /\ open[s].cost \in Nat /\ open[s].held \in Nat
      BY <2>1, StocksAreFinite DEF Positions
    <3>3. \A s \in Stocks : open[s].held <= Days
      <4>1. CASE phase \in {"bars", "exits", "entries"}
        BY <2>1, <3>1, <3>2, <4>1 DEF DaysAreCountedOnce
      <4>2. CASE phase \in {"closing", "done"}
        BY <2>1, <3>1, <3>2, <4>2 DEF DaysAreCountedOnce
      <4>3. QED
        BY <2>1, <4>1, <4>2 DEF BooksTyped
    <3>4. \A s \in Stocks : open[s].held \in 0..Days
      BY <3>1, <3>2, <3>3
    <3>5. QED
      BY <2>1, <3>2, <3>4 DEF BacktestTypeOK, BooksTyped
  <2>5. ReportedIsEarned
    <3>2. phase = "done" => cash <= equity /\ equity <= cash + trades.cost
      BY <2>1 DEF ClosingEarnsTheEquity
    <3>3. PICK a \in Int, z \in Int, g \in Nat, i \in Nat, e \in Int :
            a = cash /\ z = trades.pnl /\ g = trades.cost /\ i = InitialCapital /\ e = equity
      BY <2>1, BacktestAssumption DEF BooksTyped
    <3>4. ASSUME Held = {} PROVE a - i = z
      <4>1. Spent = 0
        BY <3>4, SumOfNothing, Zenon DEF Spent
      <4>2. QED
        BY <2>1, <3>3, <4>1 DEF CashBalances
    <3>5. QED
      BY <3>2, <3>3, <3>4 DEF ReportedIsEarned
  <2>6. QED
    BY <2>2, <2>3, <2>4, <2>5 DEF BooksAreHonest
<1>2. QED
  BY BacktestInvInit, BacktestInvNext, <1>1, PTL DEF BacktestSpec

-----------------------------------------------------------------------------
(***************************************************************************)
(* Sums along a sequence.                                                  *)
(***************************************************************************)
Lasts(S) == [s \in SUBSET S |-> Max(s)]

LEMMA SequenceSumIsAFold ==
  ASSUME NEW f
  PROVE  Sum(f) = Sums(DOMAIN f, f, Lasts(DOMAIN f), FALSE)[DOMAIN f]
<1>1. PICK S : S = DOMAIN f
  OBVIOUS
<1>2. PICK c : c = Lasts(S)
  OBVIOUS
<1>3. Sum(f) = (CHOOSE g : g = [s \in SUBSET S |->
                  IF s = {} THEN 0 ELSE g[s \ {Max(s)}] + f[Max(s)]])[S]
  BY <1>1, Zenon DEF Sum, FoldLeft, MapThenFoldSet
<1>4. \A g : [s \in SUBSET S |-> IF s = {} THEN 0 ELSE g[s \ {Max(s)}] + f[Max(s)]]
               = [s \in SUBSET S |-> NextSum(s, f, c, FALSE, g)]
  BY <1>2 DEF NextSum, Lasts
<1>5. (CHOOSE g : g = [s \in SUBSET S |->
         IF s = {} THEN 0 ELSE g[s \ {Max(s)}] + f[Max(s)]])
        = (CHOOSE g : g = [s \in SUBSET S |-> NextSum(s, f, c, FALSE, g)])
  BY <1>4
<1>6. Sums(S, f, c, FALSE) = (CHOOSE g : g = [s \in SUBSET S |-> NextSum(s, f, c, FALSE, g)])
  BY DEF Sums
<1>7. QED
  BY <1>1, <1>2, <1>3, <1>5, <1>6

LEMMA SumOfASequence ==
  ASSUME NEW n \in Nat, NEW f, DOMAIN f = 1..n, \A i \in 1..n : f[i] \in Int
  PROVE  Sum(f) = SumOver(1..n, f)
<1>1. PICK S : S = 1..n
  OBVIOUS
<1>2. IsFiniteSet(S)
  BY <1>1, FS_Interval
<1>3. PICK c : c = Lasts(S)
  OBVIOUS
<1>4. Chooses(S, c)
  <2>1. ASSUME NEW s \in SUBSET S, s # {} PROVE Max(s) \in s
    <3>1. s \subseteq 1..n
      BY <1>1
    <3>2. PICK T : T = {m \in Nat : n - m \in s}
      OBVIOUS
    <3>3. T # {}
      <4>1. PICK x \in s : x \in 1..n
        BY <2>1, <3>1
      <4>2. n - x \in Nat /\ n - (n - x) = x
        BY <4>1
      <4>3. QED
        BY <3>2, <4>1, <4>2
    <3>4. PICK m \in T : \A k \in T : m <= k
      BY <3>2, <3>3, LeastNatural
    <3>5. PICK x \in s : x = n - m /\ m \in Nat
      BY <3>2, <3>4
    <3>6. ASSUME NEW y \in s PROVE x >= y
      <4>1. y \in 1..n
        BY <3>1
      <4>2. n - y \in Nat /\ n - (n - y) = y
        BY <4>1
      <4>3. n - y \in T
        BY <3>2, <4>2
      <4>4. m <= n - y
        BY <3>4, <4>3
      <4>5. QED
        BY <3>5, <4>1, <4>4
    <3>7. s \subseteq Int
      BY <3>1
    <3>8. Max(s) = x
      BY <3>6, <3>7, GreatestOfASet
    <3>9. QED
      BY <3>8
  <2>2. QED
    BY <1>3, <2>1 DEF Chooses, Lasts
<1>5. Sums(S, f, c, FALSE)[S] = SumOver(S, f)
  BY <1>1, <1>2, <1>4, SumsAreTheSame
<1>6. QED
  BY <1>1, <1>3, <1>5, SequenceSumIsAFold

(* The sum up to one more. *)
LEMMA SumUpToNext ==
  ASSUME NEW n \in Nat, NEW k \in Nat, k = n + 1, NEW f, \A i \in 1..k : f[i] \in Int
  PROVE  SumOver(1..k, f) = SumOver(1..n, f) + f[k]
<1>1. PICK S : S = 1..n
  OBVIOUS
<1>2. IsFiniteSet(S)
  <2>1. 1 \in Int /\ n \in Int
    OBVIOUS
  <2>2. QED
    BY <1>1, <2>1, FS_Interval
<1>3. k \notin S
  BY <1>1
<1>4. S \cup {k} = 1..k
  BY <1>1
<1>5. \A y \in S \cup {k} : f[y] \in Int
  BY <1>4
<1>6. SumOver(S \cup {k}, f) = SumOver(S, f) + f[k]
  BY <1>2, <1>3, <1>5, SumWithOneMore
<1>7. QED
  BY <1>1, <1>4, <1>6

(* The sums h[0], h[1], ... along f.                                          *)
LEMMA SumAlong ==
  ASSUME NEW n \in Nat, NEW f, \A i \in 1..n : f[i] \in Int,
         NEW h, h[0] = 0, \A j \in Nat : j < n => h[j + 1] = h[j] + f[j + 1]
  PROVE  SumOver(1..n, f) = h[n]
<1> DEFINE Failing == {k \in Nat : k <= n /\ SumOver(1..k, f) # h[k]}
<1>1. SUFFICES ASSUME Failing # {} PROVE FALSE
  OBVIOUS
<1>2. PICK k \in Failing : \A m \in Failing : k <= m
  BY <1>1, LeastNatural
<1>3. k # 0
  <2>1. 1..0 = {}
    OBVIOUS
  <2>2. SumOver(1..0, f) = h[0]
    BY <2>1, SumOfNothing
  <2>3. QED
    BY <2>2
<1>4. PICK j \in Nat : k = j + 1 /\ j < n /\ j \notin Failing
  <2>1. k - 1 \in Nat /\ k = (k - 1) + 1 /\ k - 1 < n /\ k - 1 \notin Failing
    BY <1>2, <1>3
  <2>2. QED
    BY <2>1
<1>5. SumOver(1..j, f) = h[j] /\ h[k] = h[j] + f[k]
  BY <1>4
<1>6. SumOver(1..k, f) = SumOver(1..j, f) + f[k]
  <2>1. \A i \in 1..k : f[i] \in Int
    BY <1>4
  <2>2. QED
    BY <1>4, <2>1, SumUpToNext
<1>7. QED
  BY <1>2, <1>5, <1>6

LEMMA SumOfEqualParts ==
  ASSUME NEW n \in Nat, NEW q \in Int, NEW f, DOMAIN f = 1..n, \A i \in 1..n : f[i] = q
  PROVE  Sum(f) = n * q
<1>1. PICK h : h = [j \in Nat |-> j * q]
  OBVIOUS
<1>2. \A j \in Nat : j < n => h[j + 1] = h[j] + f[j + 1]
  <2>1. SUFFICES ASSUME NEW j \in Nat, j < n PROVE h[j + 1] = h[j] + f[j + 1]
    OBVIOUS
  <2>2. j + 1 \in 1..n /\ (j + 1) * q = j * q + q
    BY <2>1
  <2>3. QED
    BY <1>1, <2>2
<1>3. h[0] = 0 /\ h[n] = n * q
  <2>1. 0 * q = 0
    OBVIOUS
  <2>2. QED
    BY <1>1, <2>1
<1>4. SumOver(1..n, f) = h[n]
  <2>1. \A i \in 1..n : f[i] \in Int
    OBVIOUS
  <2>2. QED
    BY <1>2, <1>3, <2>1, SumAlong
<1>5. QED
  <2>1. \A i \in 1..n : f[i] \in Int
    OBVIOUS
  <2>2. Sum(f) = SumOver(1..n, f)
    BY <2>1, SumOfASequence
  <2>3. QED
    BY <1>3, <1>4, <2>2

(* Parts of q until the total is reached: all but the last are whole.        *)
LEMMA SumOfParts ==
  ASSUME NEW n \in Nat, NEW q \in Nat, NEW total \in Nat, n > 0 => (n - 1) * q <= total,
         NEW f, DOMAIN f = 1..n, \A i \in 1..n : f[i] = Least(q, total - (i - 1) * q)
  PROVE  Sum(f) = Least(n * q, total)
<1>1. PICK h : h = [j \in Nat |-> Least(j * q, total)]
  OBVIOUS
<1>2. \A i \in 1..n : f[i] \in Int
  <2>1. SUFFICES ASSUME NEW i \in 1..n PROVE f[i] \in Int
    OBVIOUS
  <2>2. (i - 1) * q \in Int
    OBVIOUS
  <2>3. QED
    BY <2>2 DEF Least
<1>3. \A j \in Nat : j < n => h[j + 1] = h[j] + f[j + 1]
  <2>1. SUFFICES ASSUME NEW j \in Nat, j < n PROVE h[j + 1] = h[j] + f[j + 1]
    OBVIOUS
  <2>2. PICK x \in Nat : x = j * q
    OBVIOUS
  <2>3. (j + 1) * q = x + q /\ (j + 1) - 1 = j /\ j + 1 \in 1..n
    BY <2>1, <2>2
  <2>4. x <= total
    <3>1. j <= n - 1 /\ n - 1 \in Nat
      BY <2>1
    <3>2. j * q <= (n - 1) * q
      BY <3>1, ProductIsMonotone
    <3>3. (n - 1) * q \in Nat
      BY <3>1
    <3>4. QED
      BY <2>1, <2>2, <3>2, <3>3
  <2>5. f[j + 1] = Least(q, total - x)
    BY <2>2, <2>3
  <2>6. h[j] = Least(x, total) /\ h[j + 1] = Least(x + q, total)
    BY <1>1, <2>2, <2>3
  <2>7. QED
    BY <2>4, <2>5, <2>6 DEF Least
<1>4. h[0] = 0 /\ h[n] = Least(n * q, total)
  <2>1. 0 * q = 0
    OBVIOUS
  <2>2. QED
    BY <1>1, <2>1 DEF Least
<1>5. SumOver(1..n, f) = h[n]
  <2>1. PICK u : u = f
    OBVIOUS
  <2>2. \A i \in 1..n : u[i] \in Int
    BY <1>2, <2>1
  <2>3. \A j \in Nat : j < n => h[j + 1] = h[j] + u[j + 1]
    BY <1>3, <2>1
  <2>4. SumOver(1..n, u) = h[n]
    BY <1>4, <2>2, <2>3, SumAlong
  <2>5. QED
    BY <2>1, <2>4
<1>6. Sum(f) = SumOver(1..n, f)
  BY <1>2, SumOfASequence
<1>7. QED
  BY <1>4, <1>5, <1>6

(* The sum of what follows the first.                                        *)
LEMMA SumOfTail ==
  ASSUME NEW n \in Nat, NEW s, DOMAIN s = 1..(n + 1), \A i \in 1..(n + 1) : s[i] \in Int,
         NEW t, DOMAIN t = 1..n, \A i \in 1..n : t[i] = s[i + 1]
  PROVE  /\ Sum(t) = Sum(s) - s[1] /\ Sum(t) \in Int
<1>1. PICK g : g = [j \in Nat |-> SumOver(1..j, s)]
  OBVIOUS
<1>2. PICK h : h = [j \in Nat |-> g[j + 1] - s[1]]
  OBVIOUS
<1>3. ASSUME NEW j \in Nat, j <= n
      PROVE  /\ g[j] \in Int /\ g[j + 1] \in Int /\ s[j + 1] \in Int
             /\ g[j + 1] = g[j] + s[j + 1]
  <2>1. PICK k \in Nat : k = j + 1
    OBVIOUS
  <2>2. \A x \in 1..k : x \in 1..(n + 1) /\ s[x] \in Int
    BY <1>3, <2>1
  <2>3. SumOver(1..k, s) = SumOver(1..j, s) + s[k]
    BY <2>1, <2>2, SumUpToNext
  <2>4. \A m \in Nat : m <= k => SumOver(1..m, s) \in Int
    <3>1. SUFFICES ASSUME NEW m \in Nat, m <= k PROVE SumOver(1..m, s) \in Int
      OBVIOUS
    <3>2. PICK R : R = 1..m
      OBVIOUS
    <3>3. IsFiniteSet(R)
      <4>1. 1 \in Int /\ m \in Int
        OBVIOUS
      <4>2. QED
        BY <3>2, <4>1, FS_Interval
    <3>4. \A x \in R : s[x] \in Int
      BY <2>1, <2>2, <3>1, <3>2
    <3>5. SumOver(R, s) \in Int
      BY <3>3, <3>4, SumIsANumber
    <3>6. QED
      BY <3>2, <3>5
  <2>5. SumOver(1..j, s) \in Int /\ SumOver(1..k, s) \in Int
    BY <2>1, <2>4
  <2>6. g[j] = SumOver(1..j, s) /\ g[k] = SumOver(1..k, s)
    BY <1>1, <2>1
  <2>7. s[k] \in Int
    BY <2>1, <2>2
  <2>8. QED
    BY <2>1, <2>3, <2>5, <2>6, <2>7
<1>4. g[0] = 0
  <2>1. 1..0 = {}
    OBVIOUS
  <2>2. QED
    BY <1>1, <2>1, SumOfNothing
<1>5. h[0] = 0
  <2>1. g[1] = 0 + s[1] /\ s[1] \in Int
    <3>1. g[0 + 1] = g[0] + s[0 + 1] /\ s[0 + 1] \in Int
      BY <1>3
    <3>2. QED
      BY <1>4, <3>1
  <2>2. QED
    BY <1>2, <2>1
<1>6. \A j \in Nat : j < n => h[j + 1] = h[j] + t[j + 1]
  <2>1. SUFFICES ASSUME NEW j \in Nat, j < n PROVE h[j + 1] = h[j] + t[j + 1]
    OBVIOUS
  <2>2. PICK k \in Nat : k = j + 1 /\ k <= n /\ k \in 1..n
    BY <2>1
  <2>3. g[k] \in Int /\ s[k + 1] \in Int /\ g[k + 1] = g[k] + s[k + 1]
    BY <1>3, <2>2
  <2>4. h[j] = g[k] - s[1] /\ h[k] = g[k + 1] - s[1] /\ t[k] = s[k + 1]
    BY <1>2, <2>2
  <2>5. s[1] \in Int
    OBVIOUS
  <2>6. h[k] = h[j] + t[k]
    BY <2>3, <2>4, <2>5
  <2>7. QED
    BY <2>2, <2>6
<1>7. \A i \in 1..n : t[i] \in Int
  <2>1. SUFFICES ASSUME NEW i \in 1..n PROVE t[i] \in Int
    OBVIOUS
  <2>2. i + 1 \in 1..(n + 1)
    OBVIOUS
  <2>3. s[i + 1] \in Int
    BY <2>2
  <2>4. QED
    BY <2>3
<1>8. SumOver(1..n, t) = h[n]
  <2>1. PICK u : u = t
    OBVIOUS
  <2>2. /\ \A i \in 1..n : u[i] \in Int
        /\ \A j \in Nat : j < n => h[j + 1] = h[j] + u[j + 1]
    BY <1>6, <1>7, <2>1
  <2>3. SumOver(1..n, u) = h[n]
    BY <1>5, <2>2, SumAlong
  <2>4. QED
    BY <2>1, <2>3
<1>9. Sum(t) = SumOver(1..n, t)
  BY <1>7, SumOfASequence
<1>10. Sum(s) = g[n + 1]
  <2>1. n + 1 \in Nat
    OBVIOUS
  <2>2. Sum(s) = SumOver(1..(n + 1), s)
    BY <2>1, SumOfASequence
  <2>3. QED
    BY <1>1, <2>1, <2>2
<1>11. h[n] = g[n + 1] - s[1] /\ g[n + 1] \in Int /\ s[1] \in Int
  BY <1>2, <1>3
<1>12. QED
  BY <1>8, <1>9, <1>10, <1>11

(* The sum when the first changes by u.                                      *)
LEMMA SumOfChangedFirst ==
  ASSUME NEW n \in Nat, n > 0, NEW u \in Int,
         NEW s, DOMAIN s = 1..n, \A i \in 1..n : s[i] \in Int,
         NEW t, DOMAIN t = 1..n, t[1] = s[1] + u, \A i \in 1..n : i # 1 => t[i] = s[i]
  PROVE  Sum(t) = Sum(s) + u
<1>1. PICK S : S = 1..n
  OBVIOUS
<1>2. IsFiniteSet(S) /\ 1 \in S /\ s[1] \in Int /\ S \ {1} = S \ {1}
  BY <1>1, FS_Interval
<1>3. (\A x \in S : s[x] \in Int /\ t[x] \in Int) /\ \A x \in S \ {1} : s[x] = t[x]
  BY <1>1, <1>2
<1>4. /\ SumOver(S, s) \in Int
      /\ SumOver(S, t) = SumOver(S, s) + (IF 1 \in S THEN t[1] ELSE 0)
                                       - (IF 1 \in S THEN s[1] ELSE 0)
  BY <1>2, <1>3, SumChanges
<1>5. SumOver(S, t) = SumOver(S, s) + u
  BY <1>2, <1>4
<1>6. Sum(t) = SumOver(S, t) /\ Sum(s) = SumOver(S, s)
  BY <1>1, <1>3, SumOfASequence
<1>7. QED
  BY <1>5, <1>6

-----------------------------------------------------------------------------
(***************************************************************************)
(* Slices.                                                                 *)
(***************************************************************************)
LEMMA RoundIsNear ==
  ASSUME NEW n \in Nat, NEW d \in Nat, d > 0
  PROVE  /\ Round(n, d) \in Nat
         /\ 2 * (d * Round(n, d)) <= 2 * n + d
         /\ 2 * n <= 2 * (d * Round(n, d)) + d
<1>1. PICK low \in Int, m \in 0..(d - 1) : n \div d = low /\ n % d = m /\ n = d * low + m
  <2>1. n \div d \in Int /\ n % d \in 0..(d - 1) /\ n = d * (n \div d) + (n % d)
    OBVIOUS
  <2>2. QED
    BY <2>1
<1>2. low \in Nat
  BY <1>1
<1>3. PICK x \in Nat : x = d * low
  BY <1>2
<1>4. d * (low + 1) = x + d
  BY <1>2, <1>3
<1>5. \/ Round(n, d) = low + 1 /\ 2 * m >= d
      \/ Round(n, d) = low /\ 2 * m <= d
  BY <1>1 DEF Round
<1>6. QED
  BY <1>1, <1>2, <1>3, <1>4, <1>5

LEMMA LesserOrGreater ==
  ASSUME NEW x \in Int, NEW y \in Int
  PROVE  /\ Least(x, y) \in {x, y} /\ Least(x, y) <= x /\ Least(x, y) <= y
         /\ Most(x, y) \in {x, y} /\ Most(x, y) >= x /\ Most(x, y) >= y
BY DEF Least, Most

LEMMA SliceIsShares ==
  ASSUME NEW total \in Nat, NEW adv \in Nat
  PROVE  /\ TwapSlice(total, adv) \in Nat /\ TwapSlice(total, adv) >= 1
         /\ ~CapsTwap(total, adv) => 2 * total <= 2 * (NumSlices * TwapSlice(total, adv)) + NumSlices
<1>1. NumSlices \in Nat /\ NumSlices > 0
  BY SlicesAssumption
<1>2. PICK a \in Nat : a = Round(adv, 20)
  BY RoundIsNear
<1>3. PICK b \in Nat : b = Round(total, NumSlices) /\ 2 * total <= 2 * (NumSlices * b) + NumSlices
  BY <1>1, RoundIsNear
<1>4. PICK q : q = TwapSlice(total, adv)
  OBVIOUS
<1>5. q = Most(1, IF CapsTwap(total, adv) THEN a ELSE b)
  BY <1>2, <1>3, <1>4 DEF TwapSlice
<1>6. q \in Nat /\ q >= 1 /\ (~CapsTwap(total, adv) => b <= q)
  BY <1>5 DEF Most
<1>7. b <= q => NumSlices * b <= NumSlices * q
  BY <1>1, <1>6
<1>8. NumSlices * b \in Nat /\ NumSlices * q \in Nat
  BY <1>1, <1>6
<1>9. QED
  BY <1>1, <1>3, <1>4, <1>6, <1>7, <1>8

(* A TWAP plan is all of the order, or as much as its slices hold.           *)
LEMMA TwapPlanIsAccounted ==
  ASSUME NEW total \in Nat \ {0}, NEW adv \in Nat
  PROVE  /\ TwapPlan(total, adv) \in Seq(Nat) /\ Len(TwapPlan(total, adv)) <= NumSlices
         /\ Sum(TwapPlan(total, adv)) \in Nat /\ Sum(TwapPlan(total, adv)) <= total
         /\ ~CapsTwap(total, adv) => 2 * (total - Sum(TwapPlan(total, adv))) <= NumSlices
<1>1. NumSlices \in Nat /\ NumSlices > 0
  BY SlicesAssumption
<1>2. PICK q \in Nat : /\ q = TwapSlice(total, adv) /\ q >= 1
                       /\ ~CapsTwap(total, adv) => 2 * total <= 2 * (NumSlices * q) + NumSlices
  BY SliceIsShares
<1>3. PICK m \in Nat : m = (total + q - 1) \div q /\ q * m <= total + q - 1
  <2>1. total + q - 1 \in Nat /\ q \in Nat \ {0}
    BY <1>2
  <2>2. QED
    BY <2>1, QuotientIsWithin
<1>4. total <= q * m /\ m >= 1
  <2>1. PICK k \in Int, r \in 0..(q - 1) : (total + q - 1) \div q = k /\ total + q - 1 = q * k + r
    <3>1. total + q - 1 \in Int /\ q \in Int /\ q > 0
      BY <1>2
    <3>2. QED
      BY <3>1, DivisionWithRest
  <2>2. k = m /\ q * k \in Int
    BY <1>3, <2>1
  <2>3. total <= q * m
    BY <2>1, <2>2
  <2>4. m # 0
    <3>1. m = 0 => q * m = 0
      BY <1>2
    <3>2. QED
      BY <2>3, <3>1
  <2>5. QED
    BY <2>3, <2>4
<1>5. PICK n \in Nat : n = Least(NumSlices, m) /\ n <= NumSlices /\ n <= m /\ n >= 1 /\ (n = NumSlices \/ n = m)
  BY <1>1, <1>3, <1>4 DEF Least
<1>6. (n - 1) * q <= total
  <2>1. PICK x \in Nat : x = q * m
    BY <1>2, <1>3
  <2>2. (m - 1) * q = x - q /\ m - 1 \in Nat /\ n - 1 \in Nat
    BY <1>4, <1>5, <2>1
  <2>3. (n - 1) * q <= (m - 1) * q
    BY <1>5, <2>2, ProductIsMonotone
  <2>4. (n - 1) * q \in Nat
    BY <2>2
  <2>5. QED
    BY <1>2, <1>3, <2>1, <2>2, <2>3, <2>4
<1>7. PICK p : p = TwapPlan(total, adv)
  OBVIOUS
<1>8. p = [i \in 1..n |-> Least(q, total - (i - 1) * q)]
  BY <1>2, <1>3, <1>5, <1>7, Zenon DEF TwapPlan
<1>9. DOMAIN p = 1..n /\ \A i \in 1..n : p[i] = Least(q, total - (i - 1) * q)
  BY <1>8
<1>10. \A i \in 1..n : p[i] \in Nat
  <2>1. SUFFICES ASSUME NEW i \in 1..n PROVE p[i] \in Nat
    OBVIOUS
  <2>2. i - 1 \in Nat /\ n - 1 \in Nat /\ i - 1 <= n - 1
    BY <1>5
  <2>3. (i - 1) * q <= (n - 1) * q
    BY <2>2, ProductIsMonotone
  <2>4. PICK x \in Nat : x = (i - 1) * q
    BY <2>2
  <2>5. PICK y \in Nat : y = (n - 1) * q
    BY <2>2
  <2>6. total - x \in Nat
    BY <1>6, <2>3, <2>4, <2>5
  <2>7. p[i] = Least(q, total - x)
    BY <1>9, <2>4
  <2>8. QED
    BY <2>6, <2>7 DEF Least
<1>11. p \in Seq(Nat) /\ Len(p) = n
  BY <1>8, <1>9, <1>10
<1>12. Sum(p) = Least(n * q, total)
  <2>1. n > 0 => (n - 1) * q <= total
    BY <1>6
  <2>2. PICK t \in Nat : t = total
    OBVIOUS
  <2>3. DOMAIN p = 1..n
    BY <1>9
  <2>4. \A i \in 1..n : p[i] = Least(q, t - (i - 1) * q)
    BY <1>9, <2>2
  <2>5. n > 0 => (n - 1) * q <= t
    BY <2>1, <2>2
  <2>6. Sum(p) = Least(n * q, t)
    <3>1. \A f : DOMAIN f = 1..n /\ (\A i \in 1..n : f[i] = Least(q, t - (i - 1) * q))
                 => Sum(f) = Least(n * q, t)
      BY <2>5, SumOfParts
    <3>2. QED
      BY <2>3, <2>4, <3>1
  <2>7. QED
    BY <2>2, <2>6
<1>13. PICK w \in Nat : w = n * q
  BY <1>2, <1>5
<1>14. Sum(p) \in Nat /\ Sum(p) <= total /\ (Sum(p) = w \/ Sum(p) = total)
  BY <1>12, <1>13 DEF Least
<1>15. CASE n = m
  <2>1. w = q * m
    BY <1>2, <1>3, <1>13, <1>15
  <2>2. Sum(p) = total
    BY <1>4, <1>14, <2>1
  <2>3. QED
    BY <1>1, <1>5, <1>7, <1>11, <1>14, <2>2
<1>16. CASE n = NumSlices
  <2>1. ~CapsTwap(total, adv) => 2 * total <= 2 * w + NumSlices
    BY <1>2, <1>13, <1>16
  <2>2. QED
    BY <1>1, <1>5, <1>7, <1>11, <1>14, <2>1
<1>17. QED
  BY <1>5, <1>15, <1>16

(* A VWAP plan's slices are equal.                                           *)
LEMMA VwapPlanIsNear ==
  ASSUME NEW total \in Nat \ {0}, NEW adv \in Nat
  PROVE  /\ 2 * (Sum(VwapPlan(total, adv)) - total) <= NumSlices
         /\ ~CapsVwap(total, adv) => 2 * (total - Sum(VwapPlan(total, adv))) <= NumSlices
<1>1. NumSlices \in Nat /\ NumSlices > 0
  BY SlicesAssumption
<1>2. PICK a \in Nat : a = Round(adv, 5 * NumSlices) /\ 2 * ((5 * NumSlices) * a) <= 2 * adv + 5 * NumSlices
  <2>1. 5 * NumSlices \in Nat /\ 5 * NumSlices > 0
    BY <1>1
  <2>2. QED
    BY <2>1, RoundIsNear
<1>3. PICK b \in Nat : /\ b = Round(total, NumSlices)
                       /\ 2 * (NumSlices * b) <= 2 * total + NumSlices
                       /\ 2 * total <= 2 * (NumSlices * b) + NumSlices
  BY <1>1, RoundIsNear
<1>4. PICK q \in Nat : q = IF CapsVwap(total, adv) THEN a ELSE b
  OBVIOUS
<1>5. PICK p : p = VwapPlan(total, adv)
  OBVIOUS
<1>6. DOMAIN p = 1..NumSlices /\ \A i \in 1..NumSlices : p[i] = q
  BY <1>2, <1>3, <1>4, <1>5 DEF VwapPlan
<1>7. Sum(p) = NumSlices * q
  <2>1. PICK n \in Nat : n = NumSlices
    BY <1>1
  <2>2. Sum(p) = n * q
    BY <1>6, <2>1, SumOfEqualParts
  <2>3. QED
    BY <2>1, <2>2
<1>8. PICK w \in Nat : w = NumSlices * q
  BY <1>1
<1>9. CASE CapsVwap(total, adv)
  <2>1. adv < 5 * total
    BY <1>9 DEF CapsVwap
  <2>2. (5 * NumSlices) * a = 5 * w
    BY <1>1, <1>4, <1>8, <1>9
  <2>3. 2 * (5 * w) <= 2 * adv + 5 * NumSlices
    BY <1>2, <2>2
  <2>4. QED
    BY <1>1, <1>5, <1>7, <1>8, <1>9, <2>1, <2>3
<1>10. CASE ~CapsVwap(total, adv)
  BY <1>1, <1>3, <1>4, <1>5, <1>7, <1>8, <1>10
<1>11. QED
  BY <1>9, <1>10

(* What is filled, still to be sent and dropped is what was planned, until   *)
(* the end nothing is dropped, and orders are given up near the close only.  *)
NothingBeforeThePlan ==
  ordered = <<>> => plan = <<>> /\ filled = 0 /\ dropped = 0 /\ verdict = "keep"
SharesAddUp ==
  ordered # <<>> =>
    /\ ordered \in Totals \X Volumes
    /\ filled + Sum(plan) + dropped = Sum(TwapPlan(ordered[1], ordered[2]))
SlicesInv ==
  /\ SliceTypeOK
  /\ NothingBeforeThePlan
  /\ SharesAddUp
  /\ plan # <<>> => dropped = 0
  /\ verdict = "cancel" => minutes < 60

LEMMA NothingIsNothing == Sum(<<>>) = 0
<1>1. PICK f : f = <<>>
  OBVIOUS
<1>2. DOMAIN f = 1..0 /\ 1..0 = {}
  BY <1>1
<1>3. Sum(f) = SumOver(1..0, f)
  <2>1. 0 \in Nat /\ \A i \in 1..0 : f[i] \in Int
    OBVIOUS
  <2>2. QED
    BY <1>2, <2>1, SumOfASequence
<1>4. QED
  BY <1>1, <1>2, <1>3, SumOfNothing

(* What is carried is what the slice has left, or nothing after the last.    *)
LEMMA CarriedAddsUp ==
  ASSUME plan \in Seq(Nat), plan # <<>>, NEW u \in Nat
  PROVE  /\ Carried(u) \in Seq(Nat) /\ Len(Carried(u)) <= Len(plan) - 1
         /\ Sum(plan) \in Int /\ Head(plan) \in Nat
         /\ Len(plan) > 1 => Sum(Carried(u)) = Sum(plan) - Head(plan) + u /\ Carried(u) # <<>>
         /\ ~(Len(plan) > 1) => Carried(u) = <<>> /\ Sum(Carried(u)) = 0 /\ Sum(plan) = Head(plan)
<1>1. PICK s : s = plan
  OBVIOUS
<1>2. PICK n \in Nat : Len(s) = n + 1
  <2>1. Len(s) \in Nat /\ Len(s) # 0
    BY <1>1
  <2>2. Len(s) - 1 \in Nat /\ Len(s) = (Len(s) - 1) + 1
    BY <2>1
  <2>3. QED
    BY <2>2
<1>3. DOMAIN s = 1..(n + 1) /\ \A i \in 1..(n + 1) : s[i] \in Nat /\ s[i] \in Int
  BY <1>1, <1>2
<1>4. PICK t : t = Tail(s)
  OBVIOUS
<1>5. t \in Seq(Nat) /\ DOMAIN t = 1..n /\ Len(t) = n /\ \A i \in 1..n : t[i] = s[i + 1] /\ t[i] \in Nat
  BY <1>1, <1>2, <1>4
<1>6. Sum(t) = Sum(s) - s[1] /\ Sum(t) \in Int
  BY <1>3, <1>5, SumOfTail
<1>7. Head(plan) = s[1] /\ s[1] \in Nat
  BY <1>1, <1>3
<1>8. Sum(s) \in Int
  <2>1. PICK m \in Nat : m = n + 1
    OBVIOUS
  <2>2. DOMAIN s = 1..m /\ \A i \in 1..m : s[i] \in Int
    BY <1>3, <2>1
  <2>3. Sum(s) = SumOver(1..m, s)
    BY <2>2, SumOfASequence
  <2>4. PICK S : S = 1..m
    OBVIOUS
  <2>5. IsFiniteSet(S) /\ \A x \in S : s[x] \in Int
    <3>1. 1 \in Int /\ m \in Int
      OBVIOUS
    <3>2. IsFiniteSet(S)
      BY <2>4, <3>1, FS_Interval
    <3>3. QED
      BY <2>2, <2>4, <3>2
  <2>6. SumOver(S, s) \in Int
    BY <2>5, SumIsANumber
  <2>7. QED
    BY <2>3, <2>4, <2>6
<1>9. CASE n > 0
  <2>1. PICK c : c = [t EXCEPT ![1] = @ + u]
    OBVIOUS
  <2>2. Carried(u) = c
    <3>1. Len(plan) > 1
      BY <1>1, <1>2, <1>9
    <3>2. Carried(u) = [Tail(plan) EXCEPT ![1] = @ + u]
      BY <3>1, Zenon DEF Carried
    <3>3. QED
      BY <1>1, <1>4, <2>1, <3>2
  <2>3. /\ DOMAIN c = 1..n /\ c[1] = t[1] + u /\ \A i \in 1..n : i # 1 => c[i] = t[i]
        /\ \A i \in 1..n : t[i] \in Int
    BY <1>5, <1>9, <2>1
  <2>4. c \in Seq(Nat) /\ Len(c) = n /\ c # <<>>
    BY <1>5, <1>9, <2>1
  <2>5. Sum(c) = Sum(t) + u
    <3>1. PICK r : r = t
      OBVIOUS
    <3>2. DOMAIN r = 1..n /\ \A i \in 1..n : r[i] \in Int
      BY <1>5, <2>3, <3>1
    <3>3. DOMAIN c = 1..n /\ c[1] = r[1] + u /\ \A i \in 1..n : i # 1 => c[i] = r[i]
      BY <2>3, <3>1
    <3>4. n > 0 /\ u \in Int
      BY <1>9
    <3>5. Sum(c) = Sum(r) + u
      BY <3>2, <3>3, <3>4, SumOfChangedFirst
    <3>6. QED
      BY <3>1, <3>5
  <2>6. QED
    BY <1>1, <1>2, <1>6, <1>7, <1>8, <1>9, <2>2, <2>4, <2>5
<1>10. CASE n = 0
  <2>1. t = <<>> /\ Carried(u) = <<>>
    BY <1>1, <1>2, <1>5, <1>10 DEF Carried
  <2>2. Sum(s) = s[1]
    BY <1>6, <1>7, <1>8, <2>1, NothingIsNothing
  <2>3. QED
    BY <1>1, <1>2, <1>7, <1>8, <1>10, <2>1, <2>2, NothingIsNothing
<1>11. QED
  BY <1>9, <1>10

LEMMA SlicesInitially == SliceInit => SlicesInv
<1>1. 0 <= NumSlices
  BY SlicesAssumption
<1>2. QED
  BY <1>1 DEF SliceInit, SlicesInv, SliceTypeOK, NothingBeforeThePlan, SharesAddUp

LEMMA PlansAreSound == SlicesInv /\ BuildPlan => SlicesInv'
<1>1. SUFFICES ASSUME SlicesInv, BuildPlan PROVE SlicesInv'
  OBVIOUS
<1>2. PICK total \in Totals, adv \in Volumes :
        ordered' = <<total, adv>> /\ plan' = TwapPlan(total, adv)
  BY <1>1 DEF BuildPlan
<1>3. total \in Nat \ {0} /\ adv \in Nat /\ minutes' \in Nat
  BY <1>1, <1>2, SlicesAssumption DEF BuildPlan
<1>4. /\ TwapPlan(total, adv) \in Seq(Nat) /\ Len(TwapPlan(total, adv)) <= NumSlices
      /\ Sum(TwapPlan(total, adv)) \in Nat
  BY <1>3, TwapPlanIsAccounted
<1>5. filled' = 0 /\ dropped' = 0 /\ verdict' = "keep"
  BY <1>1 DEF SlicesInv, NothingBeforeThePlan, BuildPlan
<1>6. SliceTypeOK'
  BY <1>2, <1>3, <1>4, <1>5 DEF SliceTypeOK
<1>7. ordered' # <<>> /\ ordered' \in Totals \X Volumes /\ ordered'[1] = total /\ ordered'[2] = adv
  BY <1>2
<1>8. SharesAddUp'
  <2>1. filled' + Sum(plan') + dropped' = Sum(TwapPlan(total, adv))
    BY <1>2, <1>4, <1>5
  <2>2. QED
    BY <1>7, <2>1 DEF SharesAddUp
<1>9. QED
  BY <1>5, <1>6, <1>7, <1>8 DEF SlicesInv, NothingBeforeThePlan

LEMMA SlicesStaySound ==
  ASSUME SlicesInv, SliceEnds
  PROVE  /\ SlicesInv'
         /\ verdict' # verdict /\ verdict' = "keep" =>
              minutes' > 5 /\ filled' > filled /\ 2 * filled' >= ordered[1]
<1>1. plan \in Seq(Nat) /\ plan # <<>> /\ filled \in Nat /\ minutes \in Nat /\ dropped = 0
      /\ Len(plan) <= NumSlices /\ verdict \in {"keep", "cancel"} /\ Window \in Nat /\ NumSlices \in Nat
  BY SlicesAssumption DEF SlicesInv, SliceTypeOK, SliceEnds
<1>2. PICK got \in 0..Head(plan) :
       /\ filled' = filled + got
       /\ plan' = Carried(Head(plan) - got)
       /\ dropped' = (IF Len(plan) > 1 THEN dropped ELSE Head(plan) - got)
       /\ minutes' = Most(0, minutes - Window)
       /\ verdict' = (IF got = Head(plan) \/ got = 0 THEN verdict
                     ELSE Decide(ordered[1], filled', minutes'))
  BY DEF SliceEnds
<1>3. PICK head \in Nat : head = Head(plan)
  BY <1>1
<1>4. PICK u \in Nat : u = head - got
  BY <1>2, <1>3
<1>5. /\ plan' \in Seq(Nat) /\ Len(plan') <= Len(plan) - 1 /\ Sum(plan) \in Int
      /\ Len(plan) > 1 => Sum(plan') = Sum(plan) - head + u /\ plan' # <<>>
      /\ ~(Len(plan) > 1) => plan' = <<>> /\ Sum(plan') = 0 /\ Sum(plan) = head
  BY <1>1, <1>2, <1>3, <1>4, CarriedAddsUp
<1>6. got \in Nat /\ got <= head /\ filled' \in Nat
  BY <1>1, <1>2, <1>3
<1>7. minutes' \in Nat /\ minutes' <= minutes
  BY <1>1, <1>2 DEF Most
<1>8. dropped' \in Nat /\ (plan' # <<>> => dropped' = 0)
  BY <1>1, <1>2, <1>3, <1>4, <1>5
<1>9. ordered' = ordered /\ ordered # <<>> /\ ordered \in Totals \X Volumes
      /\ filled + Sum(plan) + dropped = Sum(TwapPlan(ordered[1], ordered[2]))
  BY <1>1 DEF SlicesInv, NothingBeforeThePlan, SharesAddUp, SliceEnds
<1>10. PICK total \in Nat : total = ordered[1]
  BY <1>9, SlicesAssumption
<1>11. filled' + Sum(plan') + dropped' = filled + Sum(plan) + dropped
  <2>1. PICK a, b : a = Sum(plan) /\ b = Sum(plan') /\ a \in Int
    BY <1>5
  <2>2. PICK d \in Nat : d = dropped' /\ dropped = 0
    BY <1>1, <1>8
  <2>3. PICK x \in Nat, y \in Nat : x = filled /\ y = filled' /\ y = x + got
    BY <1>1, <1>2, <1>6
  <2>4. CASE Len(plan) > 1
    <3>1. d = 0
      BY <1>1, <1>2, <2>4, <2>2
    <3>2. b = a - head + u
      BY <1>5, <2>1, <2>4
    <3>3. y + b + d = x + a + 0
      BY <1>4, <1>6, <2>1, <2>3, <3>1, <3>2
    <3>4. QED
      BY <2>1, <2>2, <2>3, <3>3
  <2>5. CASE ~(Len(plan) > 1)
    <3>1. d = u
      BY <1>2, <1>3, <1>4, <2>5, <2>2
    <3>2. b = 0 /\ a = head
      BY <1>5, <2>1, <2>5
    <3>3. y + b + d = x + a + 0
      BY <1>4, <1>6, <2>1, <2>3, <3>1, <3>2
    <3>4. QED
      BY <2>1, <2>2, <2>3, <3>3
  <2>6. QED
    BY <2>4, <2>5
<1>12. Decide(total, filled', minutes') =
         (IF minutes' <= 5 \/ (2 * (total - filled') > total /\ minutes' < 60) THEN "cancel" ELSE "keep")
  BY DEF Decide
<1>13. \/ verdict' = verdict
       \/ got > 0 /\ verdict' = Decide(total, filled', minutes')
  BY <1>2, <1>6, <1>10
<1>14. verdict' \in {"keep", "cancel"}
  BY <1>1, <1>12, <1>13
<1>15. verdict = "cancel" => minutes < 60
  BY DEF SlicesInv
<1>16. verdict' = "cancel" => minutes' < 60
  BY <1>1, <1>7, <1>12, <1>13, <1>15
<1>17. ASSUME verdict' # verdict, verdict' = "keep"
       PROVE  minutes' > 5 /\ filled' > filled /\ 2 * filled' >= total
  <2>1. verdict = "cancel" /\ got > 0 /\ Decide(total, filled', minutes') = "keep"
    BY <1>1, <1>13, <1>17
  <2>2. minutes' < 60
    BY <1>1, <1>7, <1>15, <2>1
  <2>3. minutes' > 5 /\ ~(2 * (total - filled') > total)
    BY <1>7, <1>12, <2>1, <2>2
  <2>4. QED
    BY <1>1, <1>2, <1>6, <2>1, <2>3
<1>18. SliceTypeOK'
  BY <1>1, <1>5, <1>6, <1>7, <1>8, <1>14 DEF SliceTypeOK
<1>19. SharesAddUp'
  BY <1>9, <1>11 DEF SharesAddUp
<1>20. QED
  BY <1>8, <1>9, <1>10, <1>16, <1>17, <1>18, <1>19 DEF SlicesInv, NothingBeforeThePlan

LEMMA SlicesOnlyWait == SlicesInv /\ UNCHANGED sliceVars => SlicesInv'
  BY DEF SlicesInv, SliceTypeOK, NothingBeforeThePlan, SharesAddUp, sliceVars

LEMMA SharesAndPlans ==
  SlicesInv => SliceTypeOK /\ SharesAreAccounted /\ VwapStaysNearTheOrder
<1>1. SUFFICES ASSUME SlicesInv PROVE SliceTypeOK /\ SharesAreAccounted /\ VwapStaysNearTheOrder
  OBVIOUS
<1>2. SliceTypeOK /\ (plan # <<>> => dropped = 0)
  BY <1>1 DEF SlicesInv
<1>3. CASE ordered = <<>>
  BY <1>2, <1>3 DEF SharesAreAccounted, VwapStaysNearTheOrder
<1>4. CASE ordered # <<>>
  <2>1. ordered \in Totals \X Volumes
        /\ filled + Sum(plan) + dropped = Sum(TwapPlan(ordered[1], ordered[2]))
    BY <1>1, <1>4 DEF SlicesInv, SharesAddUp
  <2>2. PICK total \in Nat \ {0}, adv \in Nat : total = ordered[1] /\ adv = ordered[2]
    BY <2>1, SlicesAssumption
  <2>3. PICK x \in Nat : /\ x = Sum(TwapPlan(total, adv)) /\ x <= total
                         /\ ~CapsTwap(total, adv) => 2 * (total - x) <= NumSlices
    BY TwapPlanIsAccounted
  <2>4. ordered[1] - (filled + Sum(plan) + dropped) = total - x
    BY <2>1, <2>2, <2>3
  <2>5. PICK z \in Nat : z = total - x
    BY <2>3
  <2>6. SharesAreAccounted
    <3>1. ~CapsTwap(ordered[1], ordered[2]) => 2 * z <= NumSlices
      BY <2>2, <2>3, <2>5
    <3>2. ordered[1] - (filled + Sum(plan) + dropped) = z /\ z >= 0
      BY <2>4, <2>5
    <3>3. QED
      BY <1>2, <3>1, <3>2 DEF SharesAreAccounted
  <2>7. VwapStaysNearTheOrder
    <3>1. /\ 2 * (Sum(VwapPlan(total, adv)) - total) <= NumSlices
          /\ ~CapsVwap(total, adv) => 2 * (total - Sum(VwapPlan(total, adv))) <= NumSlices
      BY VwapPlanIsNear
    <3>2. QED
      BY <2>2, <3>1, Zenon DEF VwapStaysNearTheOrder
  <2>8. QED
    BY <1>2, <2>6, <2>7
<1>5. QED
  BY <1>3, <1>4

(* Whatever the orders, volumes, windows and fills: every share of a sliced  *)
(* order is filled, to be sent, left over by the last slice or was never     *)
(* planned, both plans are off by at most half a share a slice, and the      *)
(* decision to give up the rest is taken back only by a fill that leaves at  *)
(* most half of the order (TwapSlicer, VwapSlicer, PartialFillHandler).      *)
THEOREM SlicesAddUp == SliceSpec => SlicingIsSound
<1>1. SliceInit => SlicesInv
  BY SlicesInitially
<1>2. SlicesInv /\ [SliceNext]_sliceVars => SlicesInv'
  BY PlansAreSound, SlicesStaySound, SlicesOnlyWait DEF SliceNext
<1>3. SlicesInv /\ [SliceNext]_sliceVars =>
        [verdict' # verdict /\ verdict' = "keep" =>
           minutes' > 5 /\ filled' > filled /\ 2 * filled' >= ordered[1]]_sliceVars
  <2>1. SlicesInv /\ BuildPlan => verdict' = verdict
    BY DEF BuildPlan
  <2>2. QED
    BY <2>1, SlicesStaySound DEF SliceNext
<1>4. SlicesInv => SliceTypeOK /\ SharesAreAccounted /\ VwapStaysNearTheOrder
  BY SharesAndPlans
<1>5. QED
  BY <1>1, <1>2, <1>3, <1>4, PTL DEF SliceSpec, SlicingIsSound, DecisionsHarden

-----------------------------------------------------------------------------
(***************************************************************************)
(* The market regime.  The composite of a day is a quotient of sums over   *)
(* the two to four scores that are known.                                  *)
(***************************************************************************)

(* Sums over two elements and up to two more. *)
Distinct(a, b, c, d) == a # b /\ a # c /\ a # d /\ b # c /\ b # d /\ c # d
AreNumbers(f, a, b, c, d) == f[a] \in Int /\ f[b] \in Int /\ f[c] \in Int /\ f[d] \in Int

LEMMA SumsOfUpToFour ==
  ASSUME NEW a, NEW b, NEW c, NEW d, Distinct(a, b, c, d), NEW f, AreNumbers(f, a, b, c, d)
  PROVE  /\ SumOver({a, b}, f) = f[a] + f[b]
         /\ SumOver({a, b, c}, f) = f[a] + f[b] + f[c]
         /\ SumOver({a, b, d}, f) = f[a] + f[b] + f[d]
         /\ SumOver({a, b, c, d}, f) = f[a] + f[b] + f[c] + f[d]
<1>0. /\ a # b /\ a # c /\ a # d /\ b # c /\ b # d /\ c # d
      /\ f[a] \in Int /\ f[b] \in Int /\ f[c] \in Int /\ f[d] \in Int
  BY DEF Distinct, AreNumbers
<1>1. PICK P : P = {a}
  OBVIOUS
<1>2. PICK Q : Q = {a, b} /\ Q = P \cup {b} /\ b \notin P
  BY <1>0, <1>1
<1>3. PICK R : R = {a, b, c} /\ R = Q \cup {c} /\ c \notin Q
  BY <1>0, <1>2
<1>4. IsFiniteSet({}) /\ IsFiniteSet(P) /\ IsFiniteSet(Q) /\ IsFiniteSet(R)
  <2>1. IsFiniteSet({}) /\ P = {} \cup {a}
    BY <1>1, FS_EmptySet
  <2>2. IsFiniteSet(P)
    BY <2>1, FS_AddElement
  <2>3. IsFiniteSet(Q)
    BY <1>2, <2>2, FS_AddElement
  <2>4. IsFiniteSet(R)
    BY <1>3, <2>3, FS_AddElement
  <2>5. QED
    BY <2>1, <2>2, <2>3, <2>4
<1>5. SumOver(P, f) = f[a]
  <2>1. PICK E : E = {} /\ a \notin E /\ P = E \cup {a} /\ IsFiniteSet(E)
    BY <1>1, <1>4
  <2>2. \A x \in E \cup {a} : f[x] \in Int
    BY <1>0, <2>1
  <2>3. SumOver(E \cup {a}, f) = SumOver(E, f) + f[a]
    BY <2>1, <2>2, SumWithOneMore
  <2>4. SumOver(E, f) = 0
    BY <2>1, SumOfNothing
  <2>5. QED
    BY <1>0, <2>1, <2>3, <2>4
<1>6. SumOver(Q, f) = f[a] + f[b]
  <2>1. \A x \in P \cup {b} : f[x] \in Int
    BY <1>0, <1>1
  <2>2. SumOver(P \cup {b}, f) = SumOver(P, f) + f[b]
    BY <1>2, <1>4, <2>1, SumWithOneMore
  <2>3. QED
    BY <1>2, <1>5, <2>2
<1>7. SumOver(R, f) = f[a] + f[b] + f[c]
  <2>1. \A x \in Q \cup {c} : f[x] \in Int
    BY <1>0, <1>2
  <2>2. SumOver(Q \cup {c}, f) = SumOver(Q, f) + f[c]
    BY <1>3, <1>4, <2>1, SumWithOneMore
  <2>3. QED
    BY <1>3, <1>6, <2>2
<1>8. SumOver(Q \cup {d}, f) = f[a] + f[b] + f[d]
  <2>1. d \notin Q /\ \A x \in Q \cup {d} : f[x] \in Int
    BY <1>0, <1>2
  <2>2. SumOver(Q \cup {d}, f) = SumOver(Q, f) + f[d]
    BY <1>4, <2>1, SumWithOneMore
  <2>3. QED
    BY <1>6, <2>2
<1>9. SumOver(R \cup {d}, f) = f[a] + f[b] + f[c] + f[d]
  <2>1. d \notin R /\ \A x \in R \cup {d} : f[x] \in Int
    BY <1>0, <1>3
  <2>2. SumOver(R \cup {d}, f) = SumOver(R, f) + f[d]
    BY <1>4, <2>1, SumWithOneMore
  <2>3. QED
    BY <1>7, <2>2
<1>10. Q \cup {d} = {a, b, d} /\ R \cup {d} = {a, b, c, d}
  BY <1>2, <1>3
<1>11. QED
  BY <1>2, <1>3, <1>6, <1>7, <1>8, <1>9, <1>10

(* A fold that adds a product, and one that adds the first component.        *)
LEMMA WeightsAreSums ==
  ASSUME NEW S, IsFiniteSet(S), \A w \in S : w[1] \in Int /\ w[1] * w[2] \in Int
  PROVE  /\ FoldSet(LAMBDA w, acc : acc + w[1] * w[2], 0, S) = SumOver(S, [w \in S |-> w[1] * w[2]])
         /\ FoldSet(LAMBDA w, acc : acc + w[1], 0, S) = SumOver(S, [w \in S |-> w[1]])
<1>1. PICK c : c = Firsts(S) /\ Chooses(S, c)
  BY FirstsChoose
<1>2. \A s \in SUBSET S : s # {} => First(s) \in S /\ c[s] = First(s)
  BY <1>1, FirstIsIn DEF Firsts
<1>3. FoldSet(LAMBDA w, acc : acc + w[1] * w[2], 0, S) = SumOver(S, [w \in S |-> w[1] * w[2]])
  <2>1. PICK f : f = [w \in S |-> w[1] * w[2]]
    OBVIOUS
  <2>2. FoldSet(LAMBDA w, acc : acc + w[1] * w[2], 0, S)
          = (CHOOSE g : g = [s \in SUBSET S |-> IF s = {} THEN 0
                               ELSE g[s \ {First(s)}] + First(s)[1] * First(s)[2]])[S]
    BY Zenon DEF FoldSet, MapThenFoldSet, First
  <2>3. \A g : [s \in SUBSET S |-> IF s = {} THEN 0
                               ELSE g[s \ {First(s)}] + First(s)[1] * First(s)[2]]
                 = [s \in SUBSET S |-> NextSum(s, f, c, FALSE, g)]
    BY <1>2, <2>1 DEF NextSum
  <2>4. (CHOOSE g : g = [s \in SUBSET S |-> IF s = {} THEN 0
                               ELSE g[s \ {First(s)}] + First(s)[1] * First(s)[2]])
          = (CHOOSE g : g = [s \in SUBSET S |-> NextSum(s, f, c, FALSE, g)])
    BY <2>3
  <2>5. Sums(S, f, c, FALSE) = (CHOOSE g : g = [s \in SUBSET S |-> NextSum(s, f, c, FALSE, g)])
    BY DEF Sums
  <2>6. \A x \in S : f[x] \in Int
    BY <2>1
  <2>7. Sums(S, f, c, FALSE)[S] = SumOver(S, f)
    BY <1>1, <2>6, SumsAreTheSame
  <2>8. QED
    BY <2>1, <2>2, <2>4, <2>5, <2>7
<1>4. FoldSet(LAMBDA w, acc : acc + w[1], 0, S) = SumOver(S, [w \in S |-> w[1]])
  <2>1. PICK f : f = [w \in S |-> w[1]]
    OBVIOUS
  <2>2. FoldSet(LAMBDA w, acc : acc + w[1], 0, S)
          = (CHOOSE g : g = [s \in SUBSET S |-> IF s = {} THEN 0
                               ELSE g[s \ {First(s)}] + First(s)[1]])[S]
    BY Zenon DEF FoldSet, MapThenFoldSet, First
  <2>3. \A g : [s \in SUBSET S |-> IF s = {} THEN 0 ELSE g[s \ {First(s)}] + First(s)[1]]
                 = [s \in SUBSET S |-> NextSum(s, f, c, FALSE, g)]
    BY <1>2, <2>1 DEF NextSum
  <2>4. (CHOOSE g : g = [s \in SUBSET S |-> IF s = {} THEN 0
                               ELSE g[s \ {First(s)}] + First(s)[1]])
          = (CHOOSE g : g = [s \in SUBSET S |-> NextSum(s, f, c, FALSE, g)])
    BY <2>3
  <2>5. Sums(S, f, c, FALSE) = (CHOOSE g : g = [s \in SUBSET S |-> NextSum(s, f, c, FALSE, g)])
    BY DEF Sums
  <2>6. \A x \in S : f[x] \in Int
    BY <2>1
  <2>7. Sums(S, f, c, FALSE)[S] = SumOver(S, f)
    BY <1>1, <2>6, SumsAreTheSame
  <2>8. QED
    BY <2>1, <2>2, <2>4, <2>5, <2>7
<1>5. QED
  BY <1>3, <1>4

LEMMA QuotientGrows ==
  ASSUME NEW n \in Int, NEW m \in Int, n <= m, NEW d \in Int, d > 0
  PROVE  n \div d <= m \div d
<1>1. PICK k \in Int, r \in 0..(d - 1) : n \div d = k /\ n = d * k + r
  BY DivisionWithRest
<1>2. PICK l \in Int, q \in 0..(d - 1) : m \div d = l /\ m = d * l + q
  BY DivisionWithRest
<1>3. SUFFICES ASSUME l <= k - 1 PROVE FALSE
  BY <1>1, <1>2
<1>4. d * l <= d * (k - 1) /\ d * (k - 1) = d * k - d
  BY <1>3
<1>5. PICK x \in Int, y \in Int : x = d * l /\ y = d * k
  OBVIOUS
<1>6. QED
  BY <1>1, <1>2, <1>4, <1>5

Scores == 0..1000

(* A mean of scores is a score. *)
LEMMA QuotientIsAScore ==
  ASSUME NEW d \in Nat, d > 0, NEW n \in Nat, n <= 1000 * d
  PROVE  n \div d \in Scores
<1>1. PICK k \in Int, r \in 0..(d - 1) : n \div d = k /\ n = d * k + r
  BY DivisionWithRest
<1>2. k >= 0
  <2>1. SUFFICES ASSUME k <= -1 PROVE FALSE
    OBVIOUS
  <2>2. d * k <= d * (-1)
    BY <2>1
  <2>3. QED
    BY <1>1, <2>2
<1>3. k <= 1000
  <2>1. SUFFICES ASSUME k >= 1001 PROVE FALSE
    OBVIOUS
  <2>2. d * k >= d * 1001
    BY <2>1
  <2>3. QED
    BY <1>1, <2>2
<1>4. QED
  BY <1>1, <1>2, <1>3 DEF Scores

LEMMA ClampIsWithin ==
  ASSUME NEW z \in Int
  PROVE  Clamp(z, 0, 1000) = (IF z <= 0 THEN 0 ELSE IF z <= 1000 THEN z ELSE 1000)
<1>1. PICK top \in Int : top = 1000
  OBVIOUS
<1>2. PICK m \in Int : m = Min({z, top}) /\ m = (IF z <= top THEN z ELSE top)
  <2>1. CASE z <= top
    BY <2>1, MinOfTwoNumbers
  <2>2. CASE top <= z
    <3>1. Min({top, z}) = top /\ {top, z} = {z, top}
      BY <2>2, MinOfTwoNumbers
    <3>2. QED
      BY <2>2, <3>1
  <2>3. QED
    BY <2>1, <2>2
<1>3. Max({0, m}) = (IF 0 >= m THEN 0 ELSE m)
  BY MaxOfTwoNumbers
<1>4. Clamp(z, 0, 1000) = Max({0, m})
  BY <1>1, <1>2 DEF Clamp
<1>5. QED
  BY <1>1, <1>2, <1>3, <1>4

LEMMA RampsAreScores ==
  ASSUME NEW x \in Int, NEW y \in Int, NEW lo \in Int, NEW hi \in Int, lo < hi
  PROVE  /\ Ramp(x, lo, hi) \in Scores /\ Ramp(y, lo, hi) \in Scores
         /\ x <= y => Ramp(x, lo, hi) <= Ramp(y, lo, hi)
<1>1. PICK n \in Int, m \in Int, d \in Int : n = 1000 * (x - lo) /\ m = 1000 * (y - lo) /\ d = hi - lo
  OBVIOUS
<1>2. d > 0 /\ (x <= y => n <= m)
  BY <1>1
<1>3. PICK z \in Int, w \in Int : z = n \div d /\ w = m \div d
  BY <1>2
<1>4. x <= y => z <= w
  BY <1>2, <1>3, QuotientGrows
<1>5. Ramp(x, lo, hi) = Clamp(z, 0, 1000) /\ Ramp(y, lo, hi) = Clamp(w, 0, 1000)
  BY <1>1, <1>3 DEF Ramp
<1>6. /\ Clamp(z, 0, 1000) = (IF z <= 0 THEN 0 ELSE IF z <= 1000 THEN z ELSE 1000)
      /\ Clamp(w, 0, 1000) = (IF w <= 0 THEN 0 ELSE IF w <= 1000 THEN w ELSE 1000)
  BY ClampIsWithin
<1>7. QED
  BY <1>4, <1>5, <1>6 DEF Scores

-----------------------------------------------------------------------------
(* Each score lies between 0 and 1000, and is no lower on a better day.      *)
LEMMA MarketsAreReadings ==
  ASSUME NEW m \in Markets
  PROVE  /\ m.bars \in Nat /\ m.gap \in Int /\ m.above \in 0..20 /\ m.vol \in Nat
         /\ m.total = -1 \/ m.total \in Nat
         /\ m.spread = -1 \/ m.spread \in Nat
         /\ m.rising \in Nat /\ m.wide \in Nat
  BY RegimeAssumption DEF Absent

LEMMA TrendIsAScore ==
  ASSUME NEW m \in Markets, NEW n \in Markets
  PROVE  /\ TrendScore(m) \in Scores
         /\ Better(m, n) => TrendScore(m) >= TrendScore(n)
<1>1. /\ m.gap \in Int /\ m.above \in 0..20 /\ n.gap \in Int /\ n.above \in 0..20
      /\ Better(m, n) => m.gap >= n.gap /\ m.above >= n.above
  BY MarketsAreReadings DEF Better
<1>2. /\ Ramp(m.gap, -100, 100) \in Scores /\ Ramp(n.gap, -100, 100) \in Scores
      /\ n.gap <= m.gap => Ramp(n.gap, -100, 100) <= Ramp(m.gap, -100, 100)
  <2>1. PICK lo \in Int, hi \in Int, x \in Int, y \in Int :
          lo = -100 /\ hi = 100 /\ x = m.gap /\ y = n.gap
    BY <1>1
  <2>2. lo < hi
    BY <2>1
  <2>3. /\ Ramp(y, lo, hi) \in Scores /\ Ramp(x, lo, hi) \in Scores
        /\ y <= x => Ramp(y, lo, hi) <= Ramp(x, lo, hi)
    BY <2>2, RampsAreScores
  <2>4. QED
    BY <2>1, <2>3
<1>2a. PICK r \in Scores, s \in Scores : r = Ramp(m.gap, -100, 100) /\ s = Ramp(n.gap, -100, 100)
  BY <1>2
<1>2b. n.gap <= m.gap => s <= r
  BY <1>2, <1>2a
<1>3. PICK x \in Nat, y \in Nat : x = 60 * r + 40 * 50 * m.above /\ y = 60 * s + 40 * 50 * n.above
  <2>1. r \in Nat /\ s \in Nat
    BY <1>2a DEF Scores
  <2>2. PICK i \in Nat, j \in Nat : i = m.above /\ j = n.above
    BY <1>1
  <2>3. 60 * r + 40 * 50 * i \in Nat /\ 60 * s + 40 * 50 * j \in Nat
    BY <2>1
  <2>4. QED
    BY <2>2, <2>3
<1>4. x <= 1000 * 100 /\ (Better(m, n) => y <= x)
  <2>1. PICK p \in 0..20, q \in 0..20 : p = m.above /\ q = n.above /\ (Better(m, n) => q <= p)
    BY <1>1
  <2>2. r \in 0..1000 /\ s \in 0..1000 /\ (Better(m, n) => s <= r)
    BY <1>1, <1>2a, <1>2b DEF Scores
  <2>3. PICK u \in Int, v \in Int : u = r /\ v = s /\ u <= 1000 /\ (Better(m, n) => v <= u)
    BY <2>2
  <2>4. x = 60 * u + 2000 * p /\ y = 60 * v + 2000 * q
    BY <1>3, <2>1, <2>3
  <2>5. x <= 1000 * 100
    BY <2>3, <2>4
  <2>6. QED
    BY <2>1, <2>3, <2>4, <2>5
<1>5. TrendScore(m) = x \div 100 /\ TrendScore(n) = y \div 100
  BY <1>2a, <1>3 DEF TrendScore
<1>6. x \div 100 \in Scores
  <2>1. 100 \in Nat /\ 100 > 0
    OBVIOUS
  <2>2. QED
    BY <1>4, <2>1, QuotientIsAScore
<1>7. y <= x => y \div 100 <= x \div 100
  <2>1. 100 \in Int /\ 100 > 0
    OBVIOUS
  <2>2. QED
    BY <2>1, QuotientGrows
<1>8. y \div 100 \in Int
  OBVIOUS
<1>9. QED
  BY <1>4, <1>5, <1>6, <1>7, <1>8

LEMMA VolatilityIsAScore ==
  ASSUME NEW m \in Markets, NEW n \in Markets
  PROVE  /\ VolatilityScore(m) \in Scores
         /\ Better(m, n) => VolatilityScore(m) >= VolatilityScore(n)
<1>1. m.vol \in Nat /\ n.vol \in Nat /\ (Better(m, n) => m.vol <= n.vol)
  BY MarketsAreReadings DEF Better
<1>2. PICK r \in Scores, s \in Scores :
        r = Ramp(m.vol, 160, 280) /\ s = Ramp(n.vol, 160, 280) /\ (m.vol <= n.vol => r <= s)
  <2>1. PICK lo \in Int, hi \in Int, x \in Int, y \in Int : lo = 160 /\ hi = 280 /\ x = m.vol /\ y = n.vol
    BY <1>1
  <2>2. lo < hi
    BY <2>1
  <2>3. /\ Ramp(x, lo, hi) \in Scores /\ Ramp(y, lo, hi) \in Scores
        /\ x <= y => Ramp(x, lo, hi) <= Ramp(y, lo, hi)
    BY <2>2, RampsAreScores
  <2>4. QED
    BY <2>1, <2>3
<1>3. QED
  BY <1>1, <1>2 DEF VolatilityScore, Scores

LEMMA BreadthIsAScore ==
  ASSUME NEW m \in Markets, NEW n \in Markets, m.total # Absent
  PROVE  /\ BreadthScore(m) \in Scores
         /\ Better(m, n) => BreadthScore(m) >= BreadthScore(n)
<1>1. /\ m.total \in Nat /\ m.rising \in Nat /\ n.rising \in Nat
      /\ Better(m, n) => n.total = m.total /\ n.rising <= m.rising
  BY MarketsAreReadings DEF Better, Absent
<1>2. CASE m.total = 0
  BY <1>1, <1>2 DEF BreadthScore, Scores
<1>3. CASE m.total # 0
  <2>1. PICK d \in Nat, x \in Nat, y \in Nat : d = m.total /\ x = 1000 * m.rising /\ y = 1000 * n.rising
    BY <1>1
  <2>2. d > 0 /\ (Better(m, n) => y <= x)
    BY <1>1, <1>3, <2>1
  <2>3. PICK p \in Int, q \in Int : p = x \div d /\ q = y \div d /\ (y <= x => q <= p)
    BY <2>2, QuotientGrows
  <2>4. PICK lo \in Int, hi \in Int : lo = 400 /\ hi = 650 /\ lo < hi
    OBVIOUS
  <2>5. /\ Ramp(q, lo, hi) \in Scores /\ Ramp(p, lo, hi) \in Scores
        /\ q <= p => Ramp(q, lo, hi) <= Ramp(p, lo, hi)
    BY <2>4, RampsAreScores
  <2>6. BreadthScore(m) = Ramp(p, lo, hi)
    BY <1>3, <2>1, <2>3, <2>4 DEF BreadthScore
  <2>7. Better(m, n) => BreadthScore(n) = Ramp(q, lo, hi)
    BY <1>1, <1>3, <2>1, <2>3, <2>4 DEF BreadthScore
  <2>8. QED
    BY <2>2, <2>3, <2>5, <2>6, <2>7 DEF Scores
<1>4. QED
  BY <1>2, <1>3

LEMMA LiquidityIsAScore ==
  ASSUME NEW m \in Markets, NEW n \in Markets, m.spread # Absent
  PROVE  /\ LiquidityScore(m) \in Scores
         /\ Better(m, n) => LiquidityScore(m) >= LiquidityScore(n)
<1>1. m.spread \in Nat /\ m.wide \in Nat /\ n.wide \in Nat /\ (n.spread = Absent \/ n.spread \in Nat)
  BY MarketsAreReadings DEF Absent
<1>2. Better(m, n) => n.spread # Absent /\ m.spread <= n.spread /\ m.wide <= n.wide
  BY DEF Better
<1>3. PICK r \in Scores, s \in Scores :
        /\ r = Ramp(m.spread, 8, 18) /\ (n.spread \in Nat => s = Ramp(n.spread, 8, 18))
        /\ n.spread \in Nat /\ m.spread <= n.spread => r <= s
  <2>1. PICK lo \in Int, hi \in Int, x \in Int : lo = 8 /\ hi = 18 /\ lo < hi /\ x = m.spread
    BY <1>1
  <2>2. CASE n.spread \in Nat
    <3>1. PICK y \in Int : y = n.spread
      BY <2>2
    <3>2. /\ Ramp(x, lo, hi) \in Scores /\ Ramp(y, lo, hi) \in Scores
          /\ x <= y => Ramp(x, lo, hi) <= Ramp(y, lo, hi)
      BY <2>1, RampsAreScores
    <3>3. QED
      BY <2>1, <3>1, <3>2
  <2>3. CASE n.spread \notin Nat
    <3>1. Ramp(x, lo, hi) \in Scores
      BY <2>1, RampsAreScores
    <3>2. QED
      BY <2>1, <2>3, <3>1
  <2>4. QED
    BY <2>2, <2>3
<1>4. PICK v \in Scores, w \in Scores :
        /\ v = Max({0, 1000 - 4 * m.wide}) /\ w = Max({0, 1000 - 4 * n.wide})
        /\ m.wide <= n.wide => w <= v
  <2>1. PICK x \in Int, y \in Int : x = 1000 - 4 * m.wide /\ y = 1000 - 4 * n.wide
    BY <1>1
  <2>2. Max({0, x}) = (IF 0 >= x THEN 0 ELSE x) /\ Max({0, y}) = (IF 0 >= y THEN 0 ELSE y)
    BY MaxOfTwoNumbers
  <2>3. PICK v \in Int, w \in Int : /\ v = Max({0, x}) /\ v = (IF 0 >= x THEN 0 ELSE x)
                                   /\ w = Max({0, y}) /\ w = (IF 0 >= y THEN 0 ELSE y)
    BY <2>2
  <2>4. v \in Scores /\ w \in Scores /\ (m.wide <= n.wide => w <= v)
    <3>1. PICK p \in Nat, q \in Nat : p = m.wide /\ q = n.wide
      BY <1>1
    <3>2. x = 1000 - 4 * p /\ y = 1000 - 4 * q
      BY <2>1, <3>1
    <3>3. v >= 0 /\ v <= 1000 /\ w >= 0 /\ w <= 1000 /\ (p <= q => w <= v)
      BY <2>3, <3>2
    <3>4. QED
      BY <3>1, <3>3 DEF Scores
  <2>5. v = Max({0, 1000 - 4 * m.wide}) /\ w = Max({0, 1000 - 4 * n.wide})
    BY <2>1, <2>3
  <2>6. QED
    BY <2>4, <2>5
<1>5. PICK x \in Nat, y \in Nat : x = 60 * (1000 - r) + 40 * v /\ y = 60 * (1000 - s) + 40 * w
  BY DEF Scores
<1>6. LiquidityScore(m) = x \div 100
  BY <1>3, <1>4, <1>5 DEF LiquidityScore
<1>7. n.spread \in Nat => LiquidityScore(n) = y \div 100
  BY <1>3, <1>4, <1>5 DEF LiquidityScore
<1>8. x <= 1000 * 100 /\ (Better(m, n) => n.spread \in Nat /\ y <= x)
  <2>1. x <= 1000 * 100
    BY <1>5 DEF Scores
  <2>2. ASSUME Better(m, n) PROVE n.spread \in Nat /\ y <= x
    <3>1. n.spread \in Nat /\ r <= s /\ w <= v
      BY <1>1, <1>2, <1>3, <1>4, <2>2
    <3>2. QED
      BY <1>5, <3>1 DEF Scores
  <2>3. QED
    BY <2>1, <2>2
<1>9. x \div 100 \in Scores
  <2>1. 100 \in Nat /\ 100 > 0
    OBVIOUS
  <2>2. QED
    BY <1>8, <2>1, QuotientIsAScore
<1>10. y <= x => y \div 100 <= x \div 100
  <2>1. 100 \in Int /\ 100 > 0
    OBVIOUS
  <2>2. QED
    BY <2>1, QuotientGrows
<1>11. QED
  BY <1>6, <1>7, <1>8, <1>9, <1>10

(* The composite: the scores that are known, by their weights.               *)
ScoreOf(m) ==
  350 * TrendScore(m) + 300 * VolatilityScore(m)
    + (IF m.total = Absent THEN 0 ELSE 250 * BreadthScore(m))
    + (IF m.spread = Absent THEN 0 ELSE 100 * LiquidityScore(m))
WeightOf(m) == 650 + (IF m.total = Absent THEN 0 ELSE 250) + (IF m.spread = Absent THEN 0 ELSE 100)

LEMMA CompositeIsAQuotient ==
  ASSUME NEW m \in Markets
  PROVE  Composite(m) = ScoreOf(m) \div WeightOf(m)
<1>1. PICK t \in Int, v \in Int : t = TrendScore(m) /\ v = VolatilityScore(m)
  <2>1. TrendScore(m) \in Scores /\ VolatilityScore(m) \in Scores
    BY TrendIsAScore, VolatilityIsAScore
  <2>2. TrendScore(m) \in Int /\ VolatilityScore(m) \in Int
    BY <2>1 DEF Scores
  <2>3. QED
    BY <2>2
<1>2. PICK x \in Int : m.total # Absent => x = BreadthScore(m)
  BY BreadthIsAScore DEF Scores
<1>3. PICK y \in Int : m.spread # Absent => y = LiquidityScore(m)
  BY LiquidityIsAScore DEF Scores
<1>4. PICK a, b, c, d : a = <<350, t>> /\ b = <<300, v>> /\ c = <<250, x>> /\ d = <<100, y>>
  OBVIOUS
<1>5. PICK F : F = {a, b, c, d}
  OBVIOUS
<1>6. PICK f, g : f = [w \in F |-> w[1] * w[2]] /\ g = [w \in F |-> w[1]]
  OBVIOUS
<1>7. /\ f[a] = 350 * t /\ f[b] = 300 * v /\ f[c] = 250 * x /\ f[d] = 100 * y
      /\ g[a] = 350 /\ g[b] = 300 /\ g[c] = 250 /\ g[d] = 100
  BY <1>4, <1>5, <1>6
<1>8. Distinct(a, b, c, d)
  BY <1>4 DEF Distinct
<1>9. AreNumbers(f, a, b, c, d) /\ AreNumbers(g, a, b, c, d)
  BY <1>7 DEF AreNumbers
<1>10. /\ SumOver({a, b}, f) = f[a] + f[b]
       /\ SumOver({a, b, c}, f) = f[a] + f[b] + f[c]
       /\ SumOver({a, b, d}, f) = f[a] + f[b] + f[d]
       /\ SumOver({a, b, c, d}, f) = f[a] + f[b] + f[c] + f[d]
  BY <1>8, <1>9, SumsOfUpToFour
<1>11. /\ SumOver({a, b}, g) = g[a] + g[b]
       /\ SumOver({a, b, c}, g) = g[a] + g[b] + g[c]
       /\ SumOver({a, b, d}, g) = g[a] + g[b] + g[d]
       /\ SumOver({a, b, c, d}, g) = g[a] + g[b] + g[c] + g[d]
  <2>1. PICK h : h = g
    OBVIOUS
  <2>2. AreNumbers(h, a, b, c, d)
    BY <1>9, <2>1
  <2>3. /\ SumOver({a, b}, h) = h[a] + h[b]
        /\ SumOver({a, b, c}, h) = h[a] + h[b] + h[c]
        /\ SumOver({a, b, d}, h) = h[a] + h[b] + h[d]
        /\ SumOver({a, b, c, d}, h) = h[a] + h[b] + h[c] + h[d]
    BY <1>8, <2>2, SumsOfUpToFour
  <2>4. QED
    BY <2>1, <2>3
<1>12. PICK W : W = Weighted(m)
  OBVIOUS
<1>13. W = {a, b} \cup (IF m.total = Absent THEN {} ELSE {c}) \cup (IF m.spread = Absent THEN {} ELSE {d})
  BY <1>1, <1>2, <1>3, <1>4, <1>12 DEF Weighted
<1>14. W \subseteq F /\ IsFiniteSet(W)
  <2>1. W \subseteq F
    BY <1>5, <1>13
  <2>2. IsFiniteSet({}) /\ {a} = {} \cup {a} /\ {a, b} = {a} \cup {b} /\ {a, b, c} = {a, b} \cup {c}
        /\ F = {a, b, c} \cup {d}
    BY <1>5, FS_EmptySet
  <2>3. IsFiniteSet({a})
    BY <2>2, FS_AddElement
  <2>4. IsFiniteSet({a, b})
    BY <2>2, <2>3, FS_AddElement
  <2>5. IsFiniteSet({a, b, c})
    BY <2>2, <2>4, FS_AddElement
  <2>6. IsFiniteSet(F)
    BY <2>2, <2>5, FS_AddElement
  <2>7. QED
    BY <2>1, <2>6, FS_Subset
<1>15. \A w \in W : f[w] = w[1] * w[2] /\ g[w] = w[1] /\ f[w] \in Int /\ g[w] \in Int
  BY <1>5, <1>6, <1>9, <1>14 DEF AreNumbers
<1>16. /\ FoldSet(LAMBDA w, acc : acc + w[1] * w[2], 0, W) = SumOver(W, [w \in W |-> w[1] * w[2]])
       /\ FoldSet(LAMBDA w, acc : acc + w[1], 0, W) = SumOver(W, [w \in W |-> w[1]])
  <2>1. \A w \in W : w[1] \in Int /\ w[1] * w[2] \in Int
    BY <1>15
  <2>2. QED
    BY <1>14, <2>1, WeightsAreSums
<1>17. SumOver(W, [w \in W |-> w[1] * w[2]]) = SumOver(W, f)
  <2>1. PICK h : h = [w \in W |-> w[1] * w[2]]
    OBVIOUS
  <2>2. \A w \in W : h[w] = f[w]
    BY <1>15, <2>1
  <2>3. SumOver(W, h) = SumOver(W, f)
    BY <1>14, <2>2, SumsOfEqualsAgree
  <2>4. QED
    BY <2>1, <2>3
<1>18. SumOver(W, [w \in W |-> w[1]]) = SumOver(W, g)
  <2>1. PICK h : h = [w \in W |-> w[1]]
    OBVIOUS
  <2>2. \A w \in W : h[w] = g[w]
    BY <1>15, <2>1
  <2>3. SumOver(W, h) = SumOver(W, g)
    BY <1>14, <2>2, SumsOfEqualsAgree
  <2>4. QED
    BY <2>1, <2>3
<1>19. Composite(m) = SumOver(W, f) \div SumOver(W, g)
  <2>1. Composite(m) = FoldSet(LAMBDA w, acc : acc + w[1] * w[2], 0, W)
                         \div FoldSet(LAMBDA w, acc : acc + w[1], 0, W)
    BY <1>12 DEF Composite
  <2>2. QED
    BY <1>16, <1>17, <1>18, <2>1
<1>20. SumOver(W, f) = ScoreOf(m) /\ SumOver(W, g) = WeightOf(m)
  <2>1. CASE m.total = Absent /\ m.spread = Absent
    <3>1. W = {a, b}
      BY <1>13, <2>1
    <3>2. ScoreOf(m) = 350 * t + 300 * v /\ WeightOf(m) = 650
      BY <1>1, <2>1 DEF ScoreOf, WeightOf
    <3>3. QED
      BY <1>7, <1>10, <1>11, <3>1, <3>2
  <2>2. CASE m.total # Absent /\ m.spread = Absent
    <3>1. W = {a, b, c}
      BY <1>13, <2>2
    <3>2. ScoreOf(m) = 350 * t + 300 * v + 250 * x /\ WeightOf(m) = 900
      BY <1>1, <1>2, <2>2 DEF ScoreOf, WeightOf
    <3>3. QED
      BY <1>7, <1>10, <1>11, <3>1, <3>2
  <2>3. CASE m.total = Absent /\ m.spread # Absent
    <3>1. W = {a, b, d}
      BY <1>13, <2>3
    <3>2. ScoreOf(m) = 350 * t + 300 * v + 100 * y /\ WeightOf(m) = 750
      BY <1>1, <1>3, <2>3 DEF ScoreOf, WeightOf
    <3>3. QED
      BY <1>7, <1>10, <1>11, <3>1, <3>2
  <2>4. CASE m.total # Absent /\ m.spread # Absent
    <3>1. W = {a, b, c, d}
      BY <1>13, <2>4
    <3>2. ScoreOf(m) = 350 * t + 300 * v + 250 * x + 100 * y /\ WeightOf(m) = 1000
      BY <1>1, <1>2, <1>3, <2>4 DEF ScoreOf, WeightOf
    <3>3. QED
      BY <1>7, <1>10, <1>11, <3>1, <3>2
  <2>5. QED
    BY <2>1, <2>2, <2>3, <2>4
<1>21. QED
  BY <1>19, <1>20

LEMMA ScoresAreNumbers == \A x \in Scores : x \in Int
  BY DEF Scores

LEMMA CompositeIsAScore ==
  ASSUME NEW m \in Markets
  PROVE  Composite(m) \in Scores
<1>1. PICK t \in Scores, v \in Scores : t = TrendScore(m) /\ v = VolatilityScore(m)
  BY TrendIsAScore, VolatilityIsAScore
<1>2. PICK x \in Scores : m.total # Absent => x = BreadthScore(m)
  BY <1>1, BreadthIsAScore
<1>3. PICK y \in Scores : m.spread # Absent => y = LiquidityScore(m)
  BY <1>1, LiquidityIsAScore
<1> t \in 0..1000 /\ v \in 0..1000 /\ x \in 0..1000 /\ y \in 0..1000
  BY DEF Scores
<1>4. PICK n \in Nat, d \in Nat : n = ScoreOf(m) /\ d = WeightOf(m) /\ d > 0 /\ n <= 1000 * d
  <2>1. PICK p \in Nat, e \in Nat : /\ p = (IF m.total = Absent THEN 0 ELSE 250 * BreadthScore(m))
                                   /\ e = (IF m.total = Absent THEN 0 ELSE 250) /\ p <= 1000 * e
    <3>1. CASE m.total = Absent
      BY <3>1
    <3>2. CASE m.total # Absent
      <4>1. PICK p \in Nat : p = 250 * x /\ p <= 1000 * 250
        OBVIOUS
      <4>2. p = (IF m.total = Absent THEN 0 ELSE 250 * BreadthScore(m)) /\ 250 \in Nat
        BY <1>2, <3>2, <4>1
      <4>3. QED
        BY <3>2, <4>1, <4>2
    <3>3. QED
      BY <3>1, <3>2
  <2>2. PICK q \in Nat, g \in Nat : /\ q = (IF m.spread = Absent THEN 0 ELSE 100 * LiquidityScore(m))
                                   /\ g = (IF m.spread = Absent THEN 0 ELSE 100) /\ q <= 1000 * g
    <3>1. CASE m.spread = Absent
      BY <3>1
    <3>2. CASE m.spread # Absent
      <4>1. PICK q \in Nat : q = 100 * y /\ q <= 1000 * 100
        OBVIOUS
      <4>2. q = (IF m.spread = Absent THEN 0 ELSE 100 * LiquidityScore(m)) /\ 100 \in Nat
        BY <1>3, <3>2, <4>1
      <4>3. QED
        BY <3>2, <4>1, <4>2
    <3>3. QED
      BY <3>1, <3>2
  <2>3. ScoreOf(m) = 350 * t + 300 * v + p + q /\ WeightOf(m) = 650 + e + g
    BY <1>1, <2>1, <2>2 DEF ScoreOf, WeightOf
  <2>4. PICK k \in Nat, d \in Nat : k = 350 * t + 300 * v + p + q /\ d = 650 + e + g
    OBVIOUS
  <2>5. k <= 1000 * d /\ d > 0
    <3>1. 350 * t + 300 * v <= 1000 * 650
      OBVIOUS
    <3>2. PICK j \in Int : j = 350 * t + 300 * v /\ j <= 1000 * 650
      BY <3>1
    <3>3. k = j + p + q
      BY <2>4, <3>2
    <3>4. QED
      BY <2>1, <2>2, <2>4, <3>2, <3>3
  <2>6. QED
    BY <2>3, <2>4, <2>5
<1>5. n \div d \in Scores
  BY <1>4, QuotientIsAScore
<1>6. QED
  BY <1>4, <1>5, CompositeIsAQuotient

(* A better day has no lower composite. *)
LEMMA CompositeGrows ==
  ASSUME NEW m \in Markets, NEW n \in Markets, Better(m, n)
  PROVE  Composite(m) >= Composite(n)
<1>1. /\ m.total = n.total /\ (m.spread = Absent <=> n.spread = Absent)
      /\ m.total = -1 \/ m.total \in Nat
  BY MarketsAreReadings DEF Better
<1>2. /\ TrendScore(m) >= TrendScore(n) /\ VolatilityScore(m) >= VolatilityScore(n)
      /\ TrendScore(m) \in Int /\ TrendScore(n) \in Int
      /\ VolatilityScore(m) \in Int /\ VolatilityScore(n) \in Int
  <2>1. /\ TrendScore(m) \in Scores /\ TrendScore(n) \in Scores
        /\ VolatilityScore(m) \in Scores /\ VolatilityScore(n) \in Scores
        /\ TrendScore(m) >= TrendScore(n) /\ VolatilityScore(m) >= VolatilityScore(n)
    <3>1. /\ TrendScore(m) \in Scores /\ TrendScore(n) \in Scores
          /\ TrendScore(m) >= TrendScore(n)
      BY TrendIsAScore
    <3>2. /\ VolatilityScore(m) \in Scores /\ VolatilityScore(n) \in Scores
          /\ VolatilityScore(m) >= VolatilityScore(n)
      BY VolatilityIsAScore
    <3>3. QED
      BY <3>1, <3>2
  <2>2. TrendScore(m) \in Int /\ TrendScore(n) \in Int
    BY <2>1, ScoresAreNumbers
  <2>3. VolatilityScore(m) \in Int /\ VolatilityScore(n) \in Int
    BY <2>1, ScoresAreNumbers
  <2>4. QED
    BY <2>1, <2>2, <2>3
<1>3. m.total # Absent =>
        BreadthScore(m) >= BreadthScore(n) /\ BreadthScore(m) \in Int /\ BreadthScore(n) \in Int
  <2>1. m.total # Absent => /\ BreadthScore(m) \in Scores /\ BreadthScore(n) \in Scores
                           /\ BreadthScore(m) >= BreadthScore(n)
    BY <1>1, BreadthIsAScore
  <2>2. QED
    BY <2>1 DEF Scores
<1>4. m.spread # Absent =>
        LiquidityScore(m) >= LiquidityScore(n) /\ LiquidityScore(m) \in Int /\ LiquidityScore(n) \in Int
  <2>1. m.spread # Absent => /\ LiquidityScore(m) \in Scores /\ LiquidityScore(n) \in Scores
                            /\ LiquidityScore(m) >= LiquidityScore(n)
    BY <1>1, LiquidityIsAScore
  <2>2. QED
    BY <2>1 DEF Scores
<1>5. PICK d \in Nat : d = WeightOf(m) /\ d = WeightOf(n) /\ d > 0
  <2>1. WeightOf(m) = WeightOf(n)
    BY <1>1 DEF WeightOf
  <2>2. WeightOf(m) \in Nat /\ WeightOf(m) > 0
    BY DEF WeightOf
  <2>3. QED
    BY <2>1, <2>2
<1>6. PICK p \in Int, q \in Int : p = ScoreOf(m) /\ q = ScoreOf(n) /\ q <= p
  <2>1. PICK t \in Int, v \in Int : t = TrendScore(m) /\ v = VolatilityScore(m)
    BY <1>2
  <2>2. PICK tt \in Int, vv \in Int : tt = TrendScore(n) /\ vv = VolatilityScore(n) /\ tt <= t /\ vv <= v
    BY <1>2, <2>1
  <2>3. PICK x \in Int, xx \in Int :
          /\ x = (IF m.total = Absent THEN 0 ELSE 250 * BreadthScore(m))
          /\ xx = (IF n.total = Absent THEN 0 ELSE 250 * BreadthScore(n)) /\ xx <= x
    <3>1. CASE m.total = Absent
      BY <1>1, <3>1
    <3>2. CASE m.total # Absent
      <4>1. PICK u \in Int, w \in Int : u = BreadthScore(m) /\ w = BreadthScore(n) /\ w <= u
        BY <1>3, <3>2
      <4>2. QED
        BY <1>1, <3>2, <4>1
    <3>3. QED
      BY <3>1, <3>2
  <2>4. PICK y \in Int, yy \in Int :
          /\ y = (IF m.spread = Absent THEN 0 ELSE 100 * LiquidityScore(m))
          /\ yy = (IF n.spread = Absent THEN 0 ELSE 100 * LiquidityScore(n)) /\ yy <= y
    <3>1. CASE m.spread = Absent
      BY <1>1, <3>1
    <3>2. CASE m.spread # Absent
      <4>1. PICK u \in Int, w \in Int : u = LiquidityScore(m) /\ w = LiquidityScore(n) /\ w <= u
        BY <1>4, <3>2
      <4>2. QED
        BY <1>1, <3>2, <4>1
    <3>3. QED
      BY <3>1, <3>2
  <2>5. ScoreOf(m) = 350 * t + 300 * v + x + y /\ ScoreOf(n) = 350 * tt + 300 * vv + xx + yy
    BY <2>1, <2>2, <2>3, <2>4 DEF ScoreOf
  <2>6. QED
    BY <2>2, <2>3, <2>4, <2>5
<1>7. q \div d <= p \div d
  BY <1>5, <1>6, QuotientGrows
<1>8. Composite(m) = p \div d /\ Composite(n) = q \div d
  BY <1>5, <1>6, CompositeIsAQuotient
<1>9. PICK k \in Int, l \in Int : k = p \div d /\ l = q \div d /\ l <= k
  BY <1>5, <1>7
<1>10. QED
  BY <1>8, <1>9

-----------------------------------------------------------------------------
(* Hysteresis.                                                               *)
LEMMA HysteresisIsARegime ==
  ASSUME NEW prev \in Regimes \cup {NoRegime}, NEW since, NEW c
  PROVE  Hysteresis(prev, since, c) \in Regimes
<1>1. Raw(c) \in Regimes
  BY DEF Raw, Regimes
<1>2. QED
  BY <1>1 DEF Hysteresis, NoRegime, Regimes

(* From one state a greater score leads no lower.                            *)
LEMMA HysteresisIsMonotone ==
  ASSUME NEW prev \in Regimes, NEW since, NEW c \in Int, NEW d \in Int, d <= c
  PROVE  Rank[Hysteresis(prev, since, d)] <= Rank[Hysteresis(prev, since, c)]
<1>1. HysteresisBuffer \in 0..100
  BY RegimeAssumption
<1>2. PICK b \in 0..100 : b = HysteresisBuffer
  BY <1>1
<1>3. prev # NoRegime
  BY DEF Regimes, NoRegime
<1>4. Rank["bear"] = 1 /\ Rank["sideways"] = 2 /\ Rank["bull"] = 3
  BY DEF Rank
<1>5. CASE ~(since < MinDays)
  <2>1. CASE prev = "bull"
    <3>1. \A x \in {c, d} : Hysteresis(prev, since, x) =
            IF x >= 600 - b THEN "bull" ELSE IF x <= 400 THEN "bear" ELSE "sideways"
      BY <1>2, <1>3, <1>5, <2>1 DEF Hysteresis, Raw, Stays
    <3>2. QED
      BY <1>4, <3>1
  <2>2. CASE prev = "bear"
    <3>1. \A x \in {c, d} : Hysteresis(prev, since, x) =
            IF x <= 400 + b THEN "bear" ELSE IF x >= 600 THEN "bull" ELSE "sideways"
      BY <1>2, <1>3, <1>5, <2>2 DEF Hysteresis, Raw, Stays
    <3>2. QED
      BY <1>4, <3>1
  <2>3. CASE prev = "sideways"
    <3>1. \A x \in {c, d} : Hysteresis(prev, since, x) =
            IF x >= 600 + b THEN "bull" ELSE IF x <= 400 - b THEN "bear" ELSE "sideways"
      BY <1>2, <1>3, <1>5, <2>3 DEF Hysteresis, Raw, Stays
    <3>2. QED
      BY <1>4, <3>1
  <2>4. QED
    BY <2>1, <2>2, <2>3 DEF Regimes
<1>6. CASE since < MinDays
  <2>1. Hysteresis(prev, since, c) = prev /\ Hysteresis(prev, since, d) = prev
    BY <1>3, <1>6 DEF Hysteresis
  <2>2. Rank[prev] \in Int
    BY <1>4 DEF Regimes
  <2>3. QED
    BY <2>1, <2>2
<1>7. QED
  BY <1>5, <1>6

(* The regime was reached at the score of its turn, which did not let the    *)
(* one before it stay.                                                       *)
RegimeInv ==
  /\ RegimeTypeOK
  /\ turn.from # NoRegime =>
       /\ regime = Raw(turn.at) /\ regime # turn.from
       /\ ~Stays(turn.from, turn.at)

LEMMA DistanceOfNumbers ==
  ASSUME NEW x \in Int, NEW y \in Int
  PROVE  Distance(x, y) \in Int /\ Distance(x, y) >= x - y /\ Distance(x, y) >= y - x
<1>1. PICK p \in Int, q \in Int : p = x - y /\ q = y - x
  OBVIOUS
<1>2. Max({p, q}) = IF p >= q THEN p ELSE q
  BY MaxOfTwoNumbers
<1>3. QED
  BY <1>1, <1>2 DEF Distance

(* Whoever goes back where it came from has crossed the buffer twice.        *)
LEMMA WayBackIsLong ==
  ASSUME HysteresisBuffer < 100, NEW p \in Regimes, NEW q \in Regimes, p # q,
         NEW c \in Int, q = Raw(c), ~Stays(p, c),
         NEW d \in Int, p = Raw(d), ~Stays(q, d)
  PROVE  c - d > 2 * HysteresisBuffer \/ d - c > 2 * HysteresisBuffer
<1>1. PICK b \in 0..99 : b = HysteresisBuffer
  BY RegimeAssumption
<1>2. CASE p = "bull" /\ q = "sideways"
  <2>1. c < 600 - b
    BY <1>1, <1>2 DEF Stays
  <2>2. d >= 600
    BY <1>2 DEF Raw
  <2>3. ~(400 - b < d /\ d < 600 + b)
    BY <1>1, <1>2 DEF Stays
  <2>4. QED
    BY <1>1, <2>1, <2>2, <2>3
<1>3. CASE p = "bull" /\ q = "bear"
  <2>1. c <= 400
    BY <1>3 DEF Raw
  <2>2. d >= 600
    BY <1>3 DEF Raw
  <2>3. QED
    BY <1>1, <2>1, <2>2
<1>4. CASE p = "sideways" /\ q = "bull"
  <2>1. ~(400 - b < c /\ c < 600 + b)
    BY <1>1, <1>4 DEF Stays
  <2>2. c >= 600
    BY <1>4 DEF Raw
  <2>3. d < 600 - b
    BY <1>1, <1>4 DEF Stays
  <2>4. QED
    BY <1>1, <2>1, <2>2, <2>3
<1>5. CASE p = "sideways" /\ q = "bear"
  <2>1. ~(400 - b < c /\ c < 600 + b)
    BY <1>1, <1>5 DEF Stays
  <2>2. c <= 400
    BY <1>5 DEF Raw
  <2>3. d > 400 + b
    BY <1>1, <1>5 DEF Stays
  <2>4. QED
    BY <1>1, <2>1, <2>2, <2>3
<1>6. CASE p = "bear" /\ q = "sideways"
  <2>1. c > 400 + b
    BY <1>1, <1>6 DEF Stays
  <2>2. d <= 400
    BY <1>6 DEF Raw
  <2>3. ~(400 - b < d /\ d < 600 + b)
    BY <1>1, <1>6 DEF Stays
  <2>4. QED
    BY <1>1, <2>1, <2>2, <2>3
<1>7. CASE p = "bear" /\ q = "bull"
  <2>1. c >= 600
    BY <1>7 DEF Raw
  <2>2. d <= 400
    BY <1>7 DEF Raw
  <2>3. QED
    BY <1>1, <2>1, <2>2
<1>8. QED
  BY <1>2, <1>3, <1>4, <1>5, <1>6, <1>7 DEF Regimes

(* A day with enough history.                                                *)
LEMMA DayOfEvidence ==
  ASSUME RegimeInv, NEW m \in Markets, Judge(m), ~(m.bars < 200)
  PROVE  /\ Composite(m) \in Scores /\ regime' \in Regimes
         /\ regime' = regime => turn' = turn
         /\ regime' # regime => turn' = [from |-> regime, at |-> Composite(m)]
         /\ regime' # regime /\ regime # NoRegime =>
              /\ regime' = Raw(Composite(m)) /\ ~Stays(regime, Composite(m))
              /\ ~(daysIn < MinDays)
<1>1. regime \in Regimes \cup {NoRegime}
  BY DEF RegimeInv, RegimeTypeOK
<1>2. PICK c : c = Composite(m)
  OBVIOUS
<1>3. regime' = Hysteresis(regime, daysIn, c)
  BY <1>2 DEF Judge, Detected
<1>4. regime' \in Regimes
  BY <1>1, <1>3, HysteresisIsARegime
<1>5. regime' # NoRegime
  BY <1>4 DEF Regimes, NoRegime
<1>6. c \in Scores
  BY <1>2, CompositeIsAScore
<1>7. turn' = (IF regime' \in {regime, NoRegime} THEN turn ELSE [from |-> regime, at |-> c])
  BY <1>2 DEF Judge
<1>8. ASSUME regime' # regime, regime # NoRegime
      PROVE  regime' = Raw(c) /\ ~Stays(regime, c) /\ ~(daysIn < MinDays)
  BY <1>3, <1>8 DEF Hysteresis
<1>9. QED
  BY <1>2, <1>4, <1>5, <1>6, <1>7, <1>8

LEMMA RegimeInvHolds == RegimeInit => RegimeInv
<1>1. 0 <= MinDays + 1 /\ 0 \in 0..(MinDays + 1) /\ 0 \in 0..1000
  BY RegimeAssumption
<1>2. QED
  BY <1>1 DEF RegimeInit, RegimeInv, RegimeTypeOK, NoTurn

LEMMA DaysAreCounted ==
  ASSUME RegimeInv, NEW m \in Markets, Judge(m)
  PROVE  daysIn' \in 0..(MinDays + 1)
<1>1. PICK d \in Int, n \in Nat : d = daysIn + 1 /\ d >= 0 /\ n = MinDays
  BY RegimeAssumption DEF RegimeInv, RegimeTypeOK
<1>2. Min({d, n}) \in {d, n} /\ Min({d, n}) <= n
  BY LesserOfTwo
<1>3. PICK k \in Int : k = Min({d, n}) /\ k >= 0 /\ k <= n
  BY <1>1, <1>2
<1>4. daysIn' = k \/ daysIn' = 1
  BY <1>1, <1>3 DEF Judge
<1>5. QED
  BY <1>1, <1>3, <1>4

LEMMA JudgeKeeps ==
  ASSUME RegimeInv, NEW m \in Markets, Judge(m)
  PROVE  RegimeInv'
<1>1. daysIn' \in 0..(MinDays + 1)
  BY DaysAreCounted
<1>2. CASE m.bars < 200
  <2>1. regime' = "sideways" /\ turn' = NoTurn
    BY <1>2 DEF Judge, Detected
  <2>2. turn'.from = NoRegime /\ turn'.at \in 0..1000 /\ regime' \in Regimes
    BY <2>1 DEF NoTurn, Regimes
  <2>3. QED
    BY <1>1, <2>2 DEF RegimeInv, RegimeTypeOK
<1>3. CASE ~(m.bars < 200)
  <2>1. PICK c \in Scores : c = Composite(m)
    BY <1>3, DayOfEvidence
  <2>2. /\ regime' \in Regimes
        /\ regime' = regime => turn' = turn
        /\ regime' # regime => turn' = [from |-> regime, at |-> c]
        /\ regime' # regime /\ regime # NoRegime => regime' = Raw(c) /\ ~Stays(regime, c)
    BY <1>3, <2>1, DayOfEvidence
  <2>3. CASE regime' = regime
    BY <1>1, <2>2, <2>3 DEF RegimeInv, RegimeTypeOK
  <2>4. CASE regime' # regime
    <3>1. turn'.from = regime /\ turn'.at = c /\ regime \in Regimes \cup {NoRegime}
      BY <2>2, <2>4 DEF RegimeInv, RegimeTypeOK
    <3>2. RegimeTypeOK'
      BY <1>1, <2>2, <3>1 DEF RegimeTypeOK, Scores
    <3>3. turn'.from # NoRegime =>
            regime' = Raw(turn'.at) /\ regime' # turn'.from /\ ~Stays(turn'.from, turn'.at)
      BY <2>2, <2>4, <3>1
    <3>4. QED
      BY <3>2, <3>3 DEF RegimeInv, Stays, Raw
  <2>5. QED
    BY <2>3, <2>4
<1>4. QED
  BY <1>2, <1>3

LEMMA JudgeDoesNotFlap ==
  ASSUME HysteresisBuffer < 100, RegimeInv, NEW m \in Markets, Judge(m),
         regime' # regime, regime' = turn.from, turn' # NoTurn
  PROVE  daysIn >= MinDays /\ Distance(turn.at, turn'.at) > 2 * HysteresisBuffer
<1>1. ~(m.bars < 200)
  BY DEF Judge
<1>2. PICK d \in Scores : d = Composite(m)
  BY <1>1, DayOfEvidence
<1>3. /\ regime' \in Regimes /\ turn' = [from |-> regime, at |-> d]
      /\ regime # NoRegime => regime' = Raw(d) /\ ~Stays(regime, d) /\ ~(daysIn < MinDays)
  BY <1>1, <1>2, DayOfEvidence
<1>4. turn.from \in Regimes /\ turn.from # NoRegime
  BY <1>3 DEF Regimes, NoRegime
<1>5. regime = Raw(turn.at) /\ regime # turn.from /\ ~Stays(turn.from, turn.at)
  BY <1>4 DEF RegimeInv
<1>6. regime \in Regimes /\ regime # NoRegime
  BY <1>5 DEF Raw, Regimes, NoRegime
<1>7. regime' = Raw(d) /\ ~Stays(regime, d) /\ ~(daysIn < MinDays)
  BY <1>3, <1>6
<1>8. PICK c \in Int : c = turn.at
  BY DEF RegimeInv, RegimeTypeOK
<1>9. PICK e \in Int : e = d
  BY ScoresAreNumbers
<1>10. PICK p \in Regimes, q \in Regimes :
         p = turn.from /\ q = regime /\ p # q /\ q = Raw(c) /\ ~Stays(p, c) /\ p = Raw(e) /\ ~Stays(q, e)
  BY <1>4, <1>5, <1>6, <1>7, <1>8, <1>9
<1>11. c - e > 2 * HysteresisBuffer \/ e - c > 2 * HysteresisBuffer
  BY <1>10, WayBackIsLong
<1>12. Distance(c, e) \in Int /\ Distance(c, e) >= c - e /\ Distance(c, e) >= e - c
  BY DistanceOfNumbers
<1>13. turn'.at = e
  BY <1>3, <1>9
<1>14. daysIn >= MinDays
  <2>1. daysIn \in Int /\ MinDays \in Int
    BY RegimeAssumption DEF RegimeInv, RegimeTypeOK
  <2>2. QED
    BY <1>7, <2>1
<1>15. Distance(c, e) > 2 * HysteresisBuffer
  <2>1. PICK b \in Int : b = 2 * HysteresisBuffer
    BY RegimeAssumption
  <2>2. PICK x \in Int : x = Distance(c, e)
    BY <1>12
  <2>3. QED
    BY <1>11, <1>12, <2>1, <2>2
<1>16. QED
  BY <1>8, <1>13, <1>14, <1>15

LEMMA BetterRanksHigher == RegimeInv => BetterMarketsRankHigher
<1>1. SUFFICES ASSUME RegimeInv, regime # NoRegime,
                      NEW m \in Markets, NEW n \in Markets, Better(m, n)
               PROVE  Rank[Detected(m, regime, daysIn)] >= Rank[Detected(n, regime, daysIn)]
  BY DEF BetterMarketsRankHigher
<1>2. regime \in Regimes
  BY <1>1 DEF RegimeInv, RegimeTypeOK
<1>3. ~(m.bars < 200) /\ ~(n.bars < 200)
  <2>1. m.bars \in Nat /\ n.bars \in Nat
    BY MarketsAreReadings
  <2>2. m.bars >= 200 /\ n.bars >= 200
    BY <1>1 DEF Better
  <2>3. QED
    BY <2>1, <2>2
<1>4. PICK c \in Int, d \in Int : c = Composite(m) /\ d = Composite(n) /\ d <= c
  <2>1. Composite(m) \in Int /\ Composite(n) \in Int
    BY CompositeIsAScore, ScoresAreNumbers
  <2>2. Composite(m) >= Composite(n)
    BY <1>1, CompositeGrows
  <2>3. QED
    BY <2>1, <2>2
<1>5. Detected(m, regime, daysIn) = Hysteresis(regime, daysIn, c)
      /\ Detected(n, regime, daysIn) = Hysteresis(regime, daysIn, d)
  BY <1>3, <1>4 DEF Detected
<1>6. PICK x, y : x = Hysteresis(regime, daysIn, c) /\ y = Hysteresis(regime, daysIn, d)
  OBVIOUS
<1>7. Rank[y] <= Rank[x]
  BY <1>2, <1>4, <1>6, HysteresisIsMonotone
<1>8. x \in Regimes /\ y \in Regimes
  BY <1>2, <1>6, HysteresisIsARegime
<1>9. Rank[x] \in Int /\ Rank[y] \in Int
  BY <1>8 DEF Rank, Regimes
<1>10. QED
  BY <1>5, <1>6, <1>7, <1>9

(* Whatever the markets and the days a regime must last: a better day never  *)
(* leads to a lower regime, and with a buffer less than half as wide as the  *)
(* sideways band a regime is gone back to only after these days and after    *)
(* the score has moved by more than twice the buffer (detect_regime_v2()).   *)
THEOREM RegimesAreSound ==
  ASSUME HysteresisBuffer < 100
  PROVE  RegimeSpec => RegimeIsSound
<1>1. RegimeInit => RegimeInv
  BY RegimeInvHolds
<1>2. RegimeInv /\ [RegimeNext]_regimeVars => RegimeInv'
  <2>1. RegimeInv /\ UNCHANGED regimeVars => RegimeInv'
    BY DEF RegimeInv, RegimeTypeOK, Stays, Raw, regimeVars
  <2>2. RegimeInv /\ RegimeNext => RegimeInv'
    BY JudgeKeeps DEF RegimeNext
  <2>3. QED
    BY <2>1, <2>2
<1>3. RegimeInv /\ [RegimeNext]_regimeVars =>
        [(regime' # regime /\ regime' = turn.from /\ turn' # NoTurn)
           => daysIn >= MinDays /\ Distance(turn.at, turn'.at) > 2 * HysteresisBuffer]_regimeVars
  BY JudgeDoesNotFlap DEF RegimeNext
<1>4. RegimeInv => RegimeTypeOK /\ BetterMarketsRankHigher
  BY BetterRanksHigher DEF RegimeInv
<1>5. QED
  BY <1>1, <1>2, <1>3, <1>4, PTL DEF RegimeSpec, RegimeIsSound, NoFlapping

-----------------------------------------------------------------------------
(***************************************************************************)
(* Matched purchases.                                                      *)
(***************************************************************************)
(* The sum of differences, and of numbers up to n when the first k are 0.    *)
LEMMA SumOfDifferences ==
  ASSUME NEW S, IsFiniteSet(S), NEW f, NEW g, NEW h,
         \A x \in S : f[x] \in Int /\ g[x] \in Int /\ h[x] = f[x] - g[x]
  PROVE  /\ SumOver(S, f) \in Int /\ SumOver(S, g) \in Int /\ SumOver(S, h) \in Int
         /\ SumOver(S, h) = SumOver(S, f) - SumOver(S, g)
<1>0. PICK B : B = {T \in SUBSET S : ~(SumOver(T, h) = SumOver(T, f) - SumOver(T, g))}
  OBVIOUS
<1>1. ASSUME B # {} PROVE FALSE
  <2>2. PICK T \in B : \A U \in SUBSET T : U # T => U \notin B
    <3>1. B \subseteq SUBSET S
      BY <1>0
    <3>2. QED
      BY <1>1, <3>1, LeastSubset
  <2>3. T \in SUBSET S /\ IsFiniteSet(T)
    BY <1>0, FS_Subset
  <2>4. T # {}
    <3>1. SUFFICES ASSUME T = {} PROVE FALSE
      OBVIOUS
    <3>2. SumOver(T, f) = 0 /\ SumOver(T, g) = 0 /\ SumOver(T, h) = 0
      BY <3>1, SumOfNothing
    <3>3. ~(SumOver(T, h) = SumOver(T, f) - SumOver(T, g))
      BY <1>0, <2>2
    <3>4. QED
      BY <3>2, <3>3
  <2>5. PICK p : p = First(T)
    OBVIOUS
  <2>6. PICK U : U = T \ {p}
    OBVIOUS
  <2>7. p \in T /\ U \in SUBSET T /\ U # T /\ U \in SUBSET S /\ IsFiniteSet(U)
    BY <2>3, <2>4, <2>5, <2>6, FirstIsIn, FS_Subset
  <2>8. SumOver(U, h) = SumOver(U, f) - SumOver(U, g)
    BY <1>0, <2>2, <2>7
  <2>9. SumOver(U, f) \in Int /\ SumOver(U, g) \in Int
    BY <2>7, SumIsANumber
  <2>10. /\ SumOver(T, f) = f[p] + SumOver(U, f) /\ SumOver(T, g) = g[p] + SumOver(U, g)
         /\ SumOver(T, h) = h[p] + SumOver(U, h)
    BY <2>3, <2>4, <2>5, <2>6, SumStep
  <2>11. f[p] \in Int /\ g[p] \in Int /\ h[p] = f[p] - g[p]
    BY <2>3, <2>7
  <2>12. SumOver(T, h) = SumOver(T, f) - SumOver(T, g)
    BY <2>8, <2>9, <2>10, <2>11
  <2>13. QED
    BY <1>0, <2>2, <2>12
<1>2. SumOver(S, f) \in Int /\ SumOver(S, g) \in Int
  BY SumIsANumber
<1>3. S \notin B
  BY <1>1
<1>4. QED
  BY <1>0, <1>2, <1>3

LEMMA SumOfNaughts ==
  ASSUME NEW n \in Nat, NEW f, \A i \in 1..n : f[i] = 0
  PROVE  SumOver(1..n, f) = 0
<1>1. PICK h : h = [j \in Nat |-> 0]
  OBVIOUS
<1>2. h[0] = 0 /\ h[n] = 0 /\ \A i \in 1..n : f[i] \in Int
  <2>1. 0 \in Nat
    OBVIOUS
  <2>2. QED
    BY <1>1, <2>1
<1>3. \A j \in Nat : j < n => h[j + 1] = h[j] + f[j + 1]
  <2>1. SUFFICES ASSUME NEW j \in Nat, j < n PROVE h[j + 1] = h[j] + f[j + 1]
    OBVIOUS
  <2>2. j + 1 \in 1..n /\ j + 1 \in Nat
    BY <2>1
  <2>3. h[j] = 0 /\ h[j + 1] = 0 /\ f[j + 1] = 0
    BY <1>1, <2>2
  <2>4. QED
    BY <2>3
<1>4. SumOver(1..n, f) = h[n]
  <2>1. PICK u : u = f
    OBVIOUS
  <2>2. \A i \in 1..n : u[i] \in Int
    BY <1>2, <2>1
  <2>3. \A j \in Nat : j < n => h[j + 1] = h[j] + u[j + 1]
    BY <1>3, <2>1
  <2>4. SumOver(1..n, u) = h[n]
    BY <1>2, <2>2, <2>3, SumAlong, SMTT(20)
  <2>5. QED
    BY <2>1, <2>4
<1>5. QED
  BY <1>2, <1>4

LEMMA SumUpToIsANumber ==
  ASSUME NEW n \in Nat, NEW f, \A i \in 1..n : f[i] \in Int,
         NEW j \in Nat, j <= n
  PROVE  SumOver(1..j, f) \in Int
<1>1. PICK S : S = 1..j
  OBVIOUS
<1>2. IsFiniteSet(S)
  BY <1>1, FS_Interval
<1>3. \A x \in S : f[x] \in Int
  BY <1>1
<1>4. QED
  BY <1>1, <1>2, <1>3, SumIsANumber

(* The m numbers of f behind the first k.                                    *)
Behind(f, g, k, m) == \A i \in 1..m : g[i] = f[k + i]

LEMMA SumOfTheRest ==
  ASSUME NEW n \in Nat, NEW k \in Nat, NEW m \in Nat, n = k + m, NEW f, NEW g,
         \A i \in 1..n : f[i] \in Int, \A i \in 1..k : f[i] = 0, Behind(f, g, k, m)
  PROVE  SumOver(1..m, g) = SumOver(1..n, f)
<1>1. PICK h : h = [j \in Nat |-> SumOver(1..(k + j), f)]
  OBVIOUS
<1>2. h[0] = 0 /\ h[m] = SumOver(1..n, f)
  <2>1. SumOver(1..k, f) = 0
    BY SumOfNaughts
  <2>2. k + 0 = k /\ k + m = n /\ 0 \in Nat
    OBVIOUS
  <2>3. QED
    BY <1>1, <2>1, <2>2
<1>3. \A j \in Nat : j < m => h[j + 1] = h[j] + g[j + 1]
  <2>1. SUFFICES ASSUME NEW j \in Nat, j < m PROVE h[j + 1] = h[j] + g[j + 1]
    OBVIOUS
  <2>2. PICK x \in Nat, y \in Nat : x = k + j /\ y = x + 1 /\ y = k + (j + 1)
    OBVIOUS
  <2>3. y <= n /\ j + 1 \in 1..m
    BY <2>1, <2>2
  <2>4. \A i \in 1..y : f[i] \in Int
    BY <2>3
  <2>5. SumOver(1..y, f) = SumOver(1..x, f) + f[y]
    BY <2>2, <2>4, SumUpToNext
  <2>6. g[j + 1] = f[y]
    BY <2>2, <2>3 DEF Behind
  <2>7. h[j] = SumOver(1..x, f) /\ h[j + 1] = SumOver(1..y, f)
    BY <1>1, <2>2
  <2>8. QED
    BY <2>5, <2>6, <2>7
<1>4. \A i \in 1..m : g[i] \in Int
  <2>1. SUFFICES ASSUME NEW i \in 1..m PROVE g[i] \in Int
    OBVIOUS
  <2>2. k + i \in 1..n /\ i \in 1..m
    OBVIOUS
  <2>3. QED
    BY <2>2 DEF Behind
<1>5. SumOver(1..m, g) = h[m]
  BY <1>2, <1>3, <1>4, SumAlong
<1>6. QED
  BY <1>2, <1>5

LEMMA AddUpIsASum ==
  ASSUME NEW S, NEW f
  PROVE  AddUp(S, f) = SumOver(S, f)
  BY DEF AddUp, SumOver

-----------------------------------------------------------------------------
Purchase == [qty : Nat \ {0}, price : Nat]

(* The shares bought with the first j purchases.                             *)
Upto(s, j) == SumOver(1..j, QtyOf(s))

(* The share of purchase i in a sale: it closes the shares above those bought *)
(* earlier, up to those bought with it.                                      *)
ClosesInTurn(s, qty, c, i) ==
  /\ Upto(s, i) \in Nat /\ Upto(s, i - 1) \in Nat /\ s[i].qty \in Nat \ {0}
  /\ Upto(s, i) = Upto(s, i - 1) + s[i].qty
  /\ c[i] \in Nat
  /\ qty <= Upto(s, i - 1) => c[i] = 0
  /\ Upto(s, i) <= qty => c[i] = s[i].qty
  /\ Upto(s, i - 1) <= qty /\ qty <= Upto(s, i) => c[i] = qty - Upto(s, i - 1)

LEMMA CutIsWithin ==
  ASSUME NEW x \in Nat, NEW y \in Int
  PROVE  Max({0, Min({x, y})}) = IF y <= 0 THEN 0 ELSE IF x <= y THEN x ELSE y
<1>1. Min({x, y}) = IF x <= y THEN x ELSE y
  <2>1. {x, y} = {y, x}
    OBVIOUS
  <2>2. CASE x <= y
    BY <2>2, MinOfTwoNumbers
  <2>3. CASE ~(x <= y)
    <3>1. y <= x
      BY <2>3
    <3>2. Min({y, x}) = y
      BY <3>1, MinOfTwoNumbers
    <3>3. QED
      BY <2>1, <2>3, <3>2
  <2>4. QED
    BY <2>2, <2>3
<1>2. PICK m \in Int : m = Min({x, y}) /\ m = IF x <= y THEN x ELSE y
  BY <1>1
<1>3. Max({0, m}) = IF 0 >= m THEN 0 ELSE m
  BY MaxOfTwoNumbers
<1>4. QED
  BY <1>2, <1>3

(* How much of each purchase a sale closes.                                  *)
LEMMA UptoIsANumber ==
  ASSUME NEW n \in Nat, NEW s, s \in [1..n -> Purchase], NEW j \in 0..n
  PROVE  Upto(s, j) \in Nat
<1>1. PICK q : q = QtyOf(s)
  OBVIOUS
<1>2. \A i \in 1..n : q[i] \in Nat
  BY <1>1 DEF QtyOf, Purchase
<1>3. PICK S : S = 1..j
  OBVIOUS
<1>4. IsFiniteSet(S)
  BY <1>3, FS_Interval
<1>5. \A x \in S : q[x] \in Nat
  BY <1>2, <1>3
<1>6. QED
  BY <1>1, <1>3, <1>4, <1>5, SumIsNatural DEF Upto

LEMMA ClosedInTurn ==
  ASSUME NEW n \in Nat, NEW s, s \in [1..n -> Purchase], NEW qty \in Nat, NEW i \in 1..n
  PROVE  ClosesInTurn(s, qty, Closed(s, qty), i)
<1>1. PICK q : q = QtyOf(s)
  OBVIOUS
<1>2. \A x \in 1..n : q[x] = s[x].qty /\ q[x] \in Nat \ {0}
  BY <1>1 DEF QtyOf, Purchase
<1>3. PICK j \in Nat : j = i - 1 /\ i = j + 1 /\ j \in 0..n /\ i \in 0..n
  OBVIOUS
<1>4. Upto(s, i) = Upto(s, j) + s[i].qty
  <2>1. \A x \in 1..i : q[x] \in Int
    BY <1>2
  <2>2. SumOver(1..i, q) = SumOver(1..j, q) + q[i]
    BY <1>3, <2>1, SumUpToNext
  <2>3. QED
    BY <1>1, <1>2, <2>2 DEF Upto
<1>5. PICK x \in Nat, u \in Nat, v \in Nat, y \in Int :
        x = s[i].qty /\ u = Upto(s, j) /\ v = Upto(s, i) /\ y = qty - u /\ x # 0
  <2>1. Upto(s, j) \in Nat /\ Upto(s, i) \in Nat
    BY <1>3, UptoIsANumber
  <2>2. QED
    BY <1>2, <2>1
<1>6. Closed(s, qty)[i] = Max({0, Min({x, y})})
  <2>1. AddUp(1..(i - 1), QtyOf(s)) = u
    BY <1>3, <1>5, AddUpIsASum DEF Upto
  <2>2. QED
    BY <1>5, <2>1 DEF Closed
<1>7. PICK z : z = Closed(s, qty)[i] /\ z = IF y <= 0 THEN 0 ELSE IF x <= y THEN x ELSE y
  BY <1>6, CutIsWithin
<1>8. /\ v = u + x /\ z \in Nat
      /\ (qty <= u => z = 0) /\ (v <= qty => z = x) /\ (u <= qty /\ qty <= v => z = qty - u)
  <2>1. v = u + x
    BY <1>4, <1>5
  <2>2. z \in Nat
    BY <1>5, <1>7
  <2>3. qty <= u => z = 0
    BY <1>5, <1>7
  <2>4. v <= qty => z = x
    BY <1>5, <1>7, <2>1
  <2>5. u <= qty /\ qty <= v => z = qty - u
    BY <1>5, <1>7, <2>1
  <2>6. QED
    BY <2>1, <2>2, <2>3, <2>4, <2>5
<1>9. QED
  BY <1>3, <1>5, <1>7, <1>8 DEF ClosesInTurn

(* A sale closes the quantity sold, or all there is.                         *)
LEMMA ClosedAddsUp ==
  ASSUME NEW n \in Nat, NEW s, s \in [1..n -> Purchase], NEW qty \in Nat
  PROVE  /\ SharesIn(s) = Upto(s, n)
         /\ SumOver(1..n, Closed(s, qty)) = Min({qty, SharesIn(s)})
<1>1. DOMAIN s = 1..n
  OBVIOUS
<1>2. SharesIn(s) = Upto(s, n)
  BY <1>1, AddUpIsASum DEF SharesIn, Upto
<1>3. PICK c : c = Closed(s, qty)
  OBVIOUS
<1>4. PICK h : h = [j \in Nat |-> IF qty <= Upto(s, j) THEN qty ELSE Upto(s, j)]
  OBVIOUS
<1>5. h[0] = 0
  <2>1. 1..0 = {}
    OBVIOUS
  <2>2. Upto(s, 0) = 0
    BY <2>1, SumOfNothing DEF Upto
  <2>3. QED
    BY <1>4, <2>2
<1>6. ASSUME NEW j \in Nat, j < n PROVE h[j + 1] = h[j] + c[j + 1]
  <2>1. PICK i \in 1..n : i = j + 1 /\ i - 1 = j /\ i \in Nat /\ j \in 0..n /\ i \in 0..n
    BY <1>6
  <2>2. ClosesInTurn(s, qty, c, i)
    BY <1>3, ClosedInTurn
  <2>3. PICK x \in Nat, u \in Nat, v \in Nat, z \in Nat :
          /\ u = Upto(s, j) /\ v = Upto(s, i) /\ z = c[i] /\ v = u + x
          /\ (qty <= u => z = 0) /\ (v <= qty => z = x) /\ (u <= qty /\ qty <= v => z = qty - u)
    BY <2>1, <2>2 DEF ClosesInTurn
  <2>4. /\ h[j] = IF qty <= Upto(s, j) THEN qty ELSE Upto(s, j)
        /\ h[i] = IF qty <= Upto(s, i) THEN qty ELSE Upto(s, i)
    BY <1>4, <2>1
  <2>5. h[i] = h[j] + c[i]
    <3>1. h[j] = (IF qty <= u THEN qty ELSE u)
      BY <2>3, <2>4
    <3>2. h[i] = (IF qty <= v THEN qty ELSE v)
      BY <2>3, <2>4
    <3>3. (IF qty <= v THEN qty ELSE v) = (IF qty <= u THEN qty ELSE u) + z
      BY <2>3
    <3>4. QED
      BY <2>3, <3>1, <3>2, <3>3
  <2>6. QED
    BY <2>1, <2>5
<1>7. \A i \in 1..n : c[i] \in Int
  <2>1. SUFFICES ASSUME NEW i \in 1..n PROVE c[i] \in Int
    OBVIOUS
  <2>2. ClosesInTurn(s, qty, c, i)
    BY <1>3, ClosedInTurn
  <2>3. QED
    BY <2>2 DEF ClosesInTurn
<1>8. SumOver(1..n, c) = h[n]
  BY <1>5, <1>6, <1>7, SumAlong
<1>9. h[n] = Min({qty, SharesIn(s)})
  <2>1. PICK u \in Nat : u = Upto(s, n)
    <3>1. n \in 0..n
      OBVIOUS
    <3>2. QED
      BY <3>1, UptoIsANumber
  <2>2. h[n] = IF qty <= u THEN qty ELSE u
    BY <1>4, <2>1
  <2>3. CASE qty <= u
    <3>1. Min({qty, u}) = qty
      BY <2>3, MinOfTwoNumbers
    <3>2. QED
      BY <1>2, <2>1, <2>2, <2>3, <3>1
  <2>4. CASE ~(qty <= u)
    <3>1. {qty, u} = {u, qty} /\ u <= qty
      BY <2>4
    <3>2. Min({u, qty}) = u
      BY <3>1, MinOfTwoNumbers
    <3>3. QED
      BY <1>2, <2>1, <2>2, <2>4, <3>1, <3>2
  <2>5. QED
    BY <2>3, <2>4
<1>10. QED
  BY <1>2, <1>3, <1>8, <1>9

(* The purchases closed entirely go, from the front, and no purchase but the *)
(* first of the others is closed in part.                                    *)
Cuts(n, s, c, k, rest) ==
  /\ rest \in [1..(n - k) -> Purchase]
  /\ \A i \in 1..k : c[i] = s[i].qty
  /\ \A i \in 1..(n - k) : /\ rest[i].qty = s[k + i].qty - c[k + i]
                           /\ rest[i].price = s[k + i].price
                           /\ i > 1 => rest[i] = s[k + i]

LEMMA NothingBehindIsClosed ==
  ASSUME NEW n \in Nat, NEW s, s \in [1..n -> Purchase], NEW qty \in Nat,
         NEW i \in 1..n, NEW j \in 1..n, i < j, Closed(s, qty)[i] < s[i].qty
  PROVE  Closed(s, qty)[j] = 0
<1>1. PICK c : c = Closed(s, qty)
  OBVIOUS
<1>2. ClosesInTurn(s, qty, c, i) /\ c[i] < s[i].qty
  BY <1>1, ClosedInTurn
<1>3. ClosesInTurn(s, qty, c, j)
  BY <1>1, ClosedInTurn
<1>4. Upto(s, i) \in Nat /\ Upto(s, j - 1) \in Nat
  BY <1>2, <1>3 DEF ClosesInTurn
<1>5. qty < Upto(s, i)
  BY <1>2 DEF ClosesInTurn
<1>6. Upto(s, i) <= Upto(s, j - 1)
  <2> DEFINE Failing == {x \in Nat : i <= x /\ x <= n /\ ~(Upto(s, i) <= Upto(s, x))}
  <2>1. SUFFICES ASSUME Failing # {} PROVE FALSE
    <3>1. j - 1 \in Nat /\ i <= j - 1 /\ j - 1 <= n
      OBVIOUS
    <3>2. QED
      BY <3>1
  <2>2. PICK x \in Failing : \A y \in Failing : x <= y
    BY <2>1, LeastNatural
  <2>3. x # i
    BY <1>4, <2>2
  <2>4. PICK y \in Nat : y = x - 1 /\ y \notin Failing /\ i <= y /\ y <= n
    <3>1. x - 1 \in Nat /\ x - 1 \notin Failing /\ i <= x - 1 /\ x - 1 <= n
      BY <2>2, <2>3
    <3>2. QED
      BY <3>1
  <2>5. Upto(s, i) <= Upto(s, y)
    BY <2>4
  <2>6. Upto(s, x) = Upto(s, y) + s[x].qty /\ s[x].qty \in Nat /\ Upto(s, y) \in Nat
    <3>1. x \in 1..n
      BY <2>2, <2>3, <2>4
    <3>2. ClosesInTurn(s, qty, c, x)
      BY <1>1, <3>1, ClosedInTurn
    <3>3. QED
      BY <2>4, <3>2 DEF ClosesInTurn
  <2>7. QED
    BY <1>4, <2>2, <2>5, <2>6
<1>7. qty <= Upto(s, j - 1)
  BY <1>4, <1>5, <1>6
<1>8. QED
  BY <1>1, <1>3, <1>7 DEF ClosesInTurn

LEMMA LeftIsTheNewest ==
  ASSUME NEW n \in Nat, NEW s, s \in [1..n -> Purchase], NEW qty \in Nat
  PROVE  \E k \in 0..n : Cuts(n, s, Closed(s, qty), k, Left(s, Closed(s, qty)))
<1>1. PICK c : c = Closed(s, qty)
  OBVIOUS
<1>2. \A i \in 1..n : /\ c[i] \in 0..s[i].qty /\ s[i].qty \in Nat \ {0} /\ s[i].price \in Nat
                      /\ s[i] = [qty |-> s[i].qty, price |-> s[i].price]
  <2>1. SUFFICES ASSUME NEW i \in 1..n
                 PROVE  /\ c[i] \in 0..s[i].qty /\ s[i].qty \in Nat \ {0} /\ s[i].price \in Nat
                        /\ s[i] = [qty |-> s[i].qty, price |-> s[i].price]
    OBVIOUS
  <2>2. ClosesInTurn(s, qty, c, i)
    BY <1>1, ClosedInTurn
  <2>3. c[i] \in 0..s[i].qty
    BY <2>2 DEF ClosesInTurn
  <2>4. s[i] \in Purchase
    OBVIOUS
  <2>5. QED
    BY <2>3, <2>4 DEF Purchase
<1>3. DOMAIN s = 1..n /\ s \in Seq(Purchase) /\ Len(s) = n
  OBVIOUS
<1>4. PICK unsold : unsold = {i \in 1..n : c[i] < s[i].qty}
  OBVIOUS
<1>5. PICK cut : cut = [i \in 1..n |-> [qty |-> s[i].qty - c[i], price |-> s[i].price]]
  OBVIOUS
<1>6. Left(s, c) = IF unsold = {} THEN <<>> ELSE SubSeq(cut, Min(unsold), n)
  BY <1>3, <1>4, <1>5 DEF Left
<1>7. CASE unsold = {}
  <2>1. n \in 0..n /\ 1..(n - n) = {}
    OBVIOUS
  <2>2. \A i \in 1..n : c[i] = s[i].qty
    BY <1>2, <1>4, <1>7
  <2>3. Left(s, c) = <<>>
    BY <1>6, <1>7
  <2>4. Left(s, c) \in [1..(n - n) -> Purchase]
    BY <2>1, <2>3
  <2>5. Cuts(n, s, c, n, Left(s, c))
    BY <2>1, <2>2, <2>4 DEF Cuts
  <2>6. QED
    BY <1>1, <2>1, <2>5
<1>8. CASE unsold # {}
  <2>1. unsold \subseteq Nat /\ unsold \subseteq Int
    BY <1>4
  <2>2. PICK m \in unsold : \A x \in unsold : m <= x
    BY <1>8, <2>1, LeastNatural
  <2>3. Min(unsold) = m
    BY <2>1, <2>2, LeastOfASet
  <2>4. m \in 1..n /\ c[m] < s[m].qty
    BY <1>4, <2>2
  <2>5. PICK k \in 0..n : m = k + 1 /\ k < n
    <3>1. m - 1 \in 0..n /\ m = (m - 1) + 1 /\ m - 1 < n
      BY <2>4
    <3>2. QED
      BY <3>1
  <2>6. Left(s, c) = SubSeq(cut, m, n)
    BY <1>6, <1>8, <2>3
  <2>7. PICK rest : rest = [i \in 1..(n - k) |-> cut[k + i]]
    OBVIOUS
  <2>8. Left(s, c) = rest
    <3>1. PICK R : R = [qty : Int, price : Nat]
      OBVIOUS
    <3>2. cut \in [1..n -> R]
      BY <1>2, <1>5, <3>1
    <3>3. cut \in Seq(R) /\ Len(cut) = n
      BY <3>2
    <3>4. SubSeq(cut, m, n) = [i \in 1..(n - m + 1) |-> cut[i + m - 1]]
      BY <2>4, <3>3
    <3>5. n - m + 1 = n - k /\ \A i \in 1..(n - k) : i + m - 1 = k + i
      BY <2>5
    <3>6. QED
      BY <2>6, <2>7, <3>4, <3>5
  <2>9. \A i \in 1..(n - k) : /\ k + i \in 1..n
                              /\ rest[i] = [qty |-> s[k + i].qty - c[k + i], price |-> s[k + i].price]
    BY <1>5, <2>5, <2>7
  <2>10. \A i \in 1..k : c[i] = s[i].qty
    <3>1. SUFFICES ASSUME NEW i \in 1..k PROVE c[i] = s[i].qty
      OBVIOUS
    <3>2. i \in 1..n /\ i < m
      BY <2>5
    <3>3. i \notin unsold
      BY <2>2, <2>4, <3>2
    <3>4. QED
      BY <1>2, <1>4, <3>2, <3>3
  <2>11. \A i \in 1..(n - k) : i > 1 => c[k + i] = 0
    <3>1. SUFFICES ASSUME NEW i \in 1..(n - k), i > 1 PROVE c[k + i] = 0
      OBVIOUS
    <3>2. PICK j \in 1..n : j = k + i /\ m < j
      BY <2>5, <2>9, <3>1
    <3>3. Closed(s, qty)[m] < s[m].qty
      BY <1>1, <2>4
    <3>4. Closed(s, qty)[j] = 0
      BY <2>4, <3>2, <3>3, NothingBehindIsClosed
    <3>5. QED
      BY <1>1, <3>2, <3>4
  <2>12. \A i \in 1..(n - k) : rest[i] \in Purchase /\ (i > 1 => rest[i] = s[k + i])
    <3>1. SUFFICES ASSUME NEW i \in 1..(n - k)
                   PROVE  rest[i] \in Purchase /\ (i > 1 => rest[i] = s[k + i])
      OBVIOUS
    <3>2. PICK j \in 1..n : /\ j = k + i
                            /\ rest[i] = [qty |-> s[j].qty - c[j], price |-> s[j].price]
      BY <2>9
    <3>3. c[j] < s[j].qty
      <4>1. CASE i > 1
        <5>1. c[j] = 0
          BY <2>11, <3>2, <4>1
        <5>2. QED
          BY <1>2, <5>1
      <4>2. CASE ~(i > 1)
        <5>1. j = m
          BY <2>5, <3>2, <4>2
        <5>2. QED
          BY <2>4, <5>1
      <4>3. QED
        BY <4>1, <4>2
    <3>4. PICK x \in Nat, y \in Nat, z \in Nat : /\ x = s[j].qty /\ y = c[j] /\ z = s[j].price
                                                 /\ s[j] = [qty |-> x, price |-> z] /\ y < x
      BY <1>2, <3>3
    <3>5. rest[i] = [qty |-> x - y, price |-> z] /\ x - y \in Nat \ {0}
      BY <3>2, <3>4
    <3>6. i > 1 => y = 0
      BY <2>11, <3>2, <3>4
    <3>7. QED
      BY <3>2, <3>4, <3>5, <3>6 DEF Purchase
  <2>13. rest \in [1..(n - k) -> Purchase]
    BY <2>7, <2>12
  <2>14. Cuts(n, s, c, k, rest)
    <3>1. \A i \in 1..(n - k) : /\ rest[i].qty = s[k + i].qty - c[k + i]
                                /\ rest[i].price = s[k + i].price
      <4>1. SUFFICES ASSUME NEW i \in 1..(n - k)
                     PROVE  /\ rest[i].qty = s[k + i].qty - c[k + i]
                            /\ rest[i].price = s[k + i].price
        OBVIOUS
      <4>2. PICK x, y : x = s[k + i].qty - c[k + i] /\ y = s[k + i].price
        OBVIOUS
      <4>3. rest[i] = [qty |-> x, price |-> y]
        BY <2>9, <4>2
      <4>4. QED
        BY <4>2, <4>3
    <3>2. QED
      BY <2>10, <2>12, <2>13, <3>1 DEF Cuts
  <2>15. QED
    BY <1>1, <2>8, <2>14
<1>9. QED
  BY <1>7, <1>8

(* Shares and costs of purchases, as sums up to their number.                *)
LEMMA PurchasesAddUp ==
  ASSUME NEW n \in Nat, NEW s, s \in [1..n -> Purchase]
  PROVE  /\ SharesIn(s) = SumOver(1..n, QtyOf(s)) /\ SharesIn(s) \in Nat
         /\ Cost(s) = SumOver(1..n, [i \in 1..n |-> s[i].qty * s[i].price]) /\ Cost(s) \in Int
<1>1. DOMAIN s = 1..n
  OBVIOUS
<1>2. SharesIn(s) = SumOver(1..n, QtyOf(s))
  BY <1>1, AddUpIsASum DEF SharesIn
<1>3. SharesIn(s) \in Nat
  <2>1. n \in 0..n
    OBVIOUS
  <2>2. QED
    BY <1>2, <2>1, UptoIsANumber DEF Upto
<1>4. PICK f : f = [i \in 1..n |-> s[i].qty * s[i].price]
  OBVIOUS
<1>5. Cost(s) = SumOver(1..n, f)
  BY <1>1, <1>4, AddUpIsASum DEF Cost
<1>6. \A i \in 1..n : f[i] \in Int
  <2>1. SUFFICES ASSUME NEW i \in 1..n PROVE f[i] \in Int
    OBVIOUS
  <2>2. PICK x \in Nat, y \in Nat : x = s[i].qty /\ y = s[i].price
    BY DEF Purchase
  <2>3. x * y \in Int
    OBVIOUS
  <2>4. QED
    BY <1>4, <2>2, <2>3
<1>7. SumOver(1..n, f) \in Int
  BY <1>6, SumUpToIsANumber
<1>8. QED
  BY <1>2, <1>3, <1>4, <1>5, <1>7

(* What the shares sold were bought for.                                     *)
CostOfSold(n, s, c) == SumOver(1..n, [i \in 1..n |-> c[i] * s[i].price])

(* What is left costs what is not sold, and holds the shares not sold.       *)
LEMMA RestAddsUp ==
  ASSUME NEW n \in Nat, NEW s, s \in [1..n -> Purchase],
         NEW c, \A i \in 1..n : c[i] \in Nat,
         NEW k \in 0..n, NEW rest, Cuts(n, s, c, k, rest)
  PROVE  /\ SumOver(1..n, c) \in Int
         /\ SharesIn(rest) = SharesIn(s) - SumOver(1..n, c)
         /\ CostOfSold(n, s, c) \in Int
         /\ Cost(rest) = Cost(s) - CostOfSold(n, s, c)
<1>1. PICK m \in Nat : m = n - k
  OBVIOUS
<1>2. /\ rest \in [1..m -> Purchase] /\ \A i \in 1..k : c[i] = s[i].qty
      /\ \A i \in 1..m : rest[i].qty = s[k + i].qty - c[k + i] /\ rest[i].price = s[k + i].price
  BY <1>1 DEF Cuts
<1>3. PICK N : N = 1..n
  OBVIOUS
<1>4. IsFiniteSet(N) /\ k \in Nat /\ n = k + m
  BY <1>1, <1>3, FS_Interval
<1>5. \A i \in 1..n : s[i].qty \in Nat /\ s[i].price \in Nat
  BY DEF Purchase
<1>6. SharesIn(rest) = SharesIn(s) - SumOver(1..n, c) /\ SumOver(1..n, c) \in Int
  <2>1. PICK f : f = [i \in 1..n |-> s[i].qty - c[i]]
    OBVIOUS
  <2>2. PICK q : q = [i \in 1..n |-> s[i].qty] /\ q = QtyOf(s)
    <3>1. QtyOf(s) = [i \in 1..n |-> s[i].qty]
      <4>1. DOMAIN s = 1..n
        OBVIOUS
      <4>2. QED
        BY <4>1 DEF QtyOf
    <3>2. QED
      BY <3>1
  <2>3. \A x \in N : q[x] \in Int /\ c[x] \in Int /\ f[x] = q[x] - c[x]
    BY <1>3, <1>5, <2>1, <2>2
  <2>4. SumOver(N, c) \in Int /\ SumOver(N, f) = SumOver(N, q) - SumOver(N, c)
    BY <1>4, <2>3, SumOfDifferences
  <2>5. PICK g : g = [i \in 1..m |-> rest[i].qty] /\ g = QtyOf(rest)
    <3>1. QtyOf(rest) = [i \in 1..m |-> rest[i].qty]
      <4>1. DOMAIN rest = 1..m
        BY <1>2
      <4>2. QED
        BY <4>1 DEF QtyOf
    <3>2. QED
      BY <3>1
  <2>6. Behind(f, g, k, m)
    <3>1. SUFFICES ASSUME NEW i \in 1..m PROVE g[i] = f[k + i]
      BY DEF Behind
    <3>2. k + i \in 1..n
      BY <1>1, <1>4
    <3>3. QED
      BY <1>2, <2>1, <2>5, <3>2
  <2>7. (\A i \in 1..n : f[i] \in Int) /\ \A i \in 1..k : f[i] = 0
    <3>1. \A i \in 1..n : f[i] \in Int
      BY <1>5, <2>1
    <3>2. \A i \in 1..k : f[i] = 0
      <4>1. SUFFICES ASSUME NEW i \in 1..k PROVE f[i] = 0
        OBVIOUS
      <4>2. i \in 1..n
        BY <1>4
      <4>3. f[i] = s[i].qty - c[i] /\ c[i] = s[i].qty /\ c[i] \in Nat
        BY <1>2, <2>1, <4>2
      <4>4. QED
        BY <4>3
    <3>3. QED
      BY <3>1, <3>2
  <2>8. SumOver(1..m, g) = SumOver(1..n, f)
    <3>1. k \in Nat /\ n = k + m
      BY <1>4
    <3>2. \A i \in 1..n : f[i] \in Int
      BY <2>7
    <3>3. \A i \in 1..k : f[i] = 0
      BY <2>7
    <3>4. QED
      BY <2>6, <3>1, <3>2, <3>3, SumOfTheRest
  <2>9. SharesIn(rest) = SumOver(1..m, g)
    <3>1. SharesIn(rest) = SumOver(1..m, QtyOf(rest))
      BY <1>2, PurchasesAddUp
    <3>2. QED
      BY <2>5, <3>1
  <2>10. SharesIn(s) = SumOver(1..n, q)
    <3>1. SharesIn(s) = SumOver(1..n, QtyOf(s))
      BY PurchasesAddUp
    <3>2. QED
      BY <2>2, <3>1
  <2>11. QED
    BY <1>1, <1>3, <2>4, <2>8, <2>9, <2>10
<1>7. PICK d : d = [i \in 1..n |-> c[i] * s[i].price]
  OBVIOUS
<1>8. Cost(rest) = Cost(s) - SumOver(1..n, d) /\ SumOver(1..n, d) \in Int
  <2>1. PICK q : q = [i \in 1..n |-> s[i].qty * s[i].price]
    OBVIOUS
  <2>2. PICK f : f = [i \in 1..n |-> (s[i].qty - c[i]) * s[i].price]
    OBVIOUS
  <2>3. \A i \in 1..n : q[i] \in Int /\ d[i] \in Int /\ f[i] \in Int /\ f[i] = q[i] - d[i]
    <3>1. SUFFICES ASSUME NEW i \in 1..n
                   PROVE  q[i] \in Int /\ d[i] \in Int /\ f[i] \in Int /\ f[i] = q[i] - d[i]
      OBVIOUS
    <3>2. PICK x \in Nat, y \in Nat, z \in Nat : x = s[i].qty /\ y = c[i] /\ z = s[i].price
      BY <1>5
    <3>3. /\ x * z \in Int /\ y * z \in Int /\ (x - y) * z \in Int
          /\ (x - y) * z = x * z - y * z
      OBVIOUS
    <3>4. q[i] = x * z /\ d[i] = y * z /\ f[i] = (x - y) * z
      BY <1>7, <2>1, <2>2, <3>2
    <3>5. QED
      BY <3>3, <3>4
  <2>4. SumOver(N, d) \in Int /\ SumOver(N, f) = SumOver(N, q) - SumOver(N, d)
    <3>1. \A x \in N : q[x] \in Int /\ d[x] \in Int /\ f[x] = q[x] - d[x]
      BY <1>3, <2>3
    <3>2. QED
      BY <1>4, <3>1, SumOfDifferences
  <2>5. PICK g : g = [i \in 1..m |-> rest[i].qty * rest[i].price]
    OBVIOUS
  <2>6. Behind(f, g, k, m)
    <3>1. SUFFICES ASSUME NEW i \in 1..m PROVE g[i] = f[k + i]
      BY DEF Behind
    <3>2. k + i \in 1..n
      BY <1>1, <1>4
    <3>3. PICK x, y : x = s[k + i].qty - c[k + i] /\ y = s[k + i].price
      OBVIOUS
    <3>4. rest[i].qty = x /\ rest[i].price = y
      BY <1>2, <3>2, <3>3
    <3>5. g[i] = x * y /\ f[k + i] = x * y
      BY <2>2, <2>5, <3>2, <3>3, <3>4
    <3>6. QED
      BY <3>5
  <2>7. \A i \in 1..k : f[i] = 0
    <3>1. SUFFICES ASSUME NEW i \in 1..k PROVE f[i] = 0
      OBVIOUS
    <3>2. i \in 1..n
      BY <1>4
    <3>3. PICK x \in Nat, z \in Nat : x = s[i].qty /\ x = c[i] /\ z = s[i].price
      BY <1>2, <1>5, <3>2
    <3>4. f[i] = (x - x) * z
      BY <2>2, <3>2, <3>3
    <3>5. (x - x) * z = 0
      OBVIOUS
    <3>6. QED
      BY <3>4, <3>5
  <2>8. SumOver(1..m, g) = SumOver(1..n, f)
    <3>1. k \in Nat /\ n = k + m
      BY <1>4
    <3>2. \A i \in 1..n : f[i] \in Int
      BY <2>3
    <3>3. QED
      BY <2>6, <2>7, <3>1, <3>2, SumOfTheRest
  <2>9. Cost(rest) = SumOver(1..m, g)
    BY <1>2, <2>5, PurchasesAddUp
  <2>10. Cost(s) = SumOver(1..n, q)
    BY <2>1, PurchasesAddUp
  <2>11. QED
    BY <1>1, <1>3, <2>4, <2>8, <2>9, <2>10
<1>9. QED
  BY <1>6, <1>7, <1>8 DEF CostOfSold

LEMMA SumOfMultiples ==
  ASSUME NEW n \in Nat, NEW p \in Int, NEW c, \A i \in 1..n : c[i] \in Int,
         NEW f, \A i \in 1..n : f[i] = c[i] * p
  PROVE  SumOver(1..n, f) = SumOver(1..n, c) * p
<1>1. PICK h : h = [j \in Nat |-> SumOver(1..j, c) * p]
  OBVIOUS
<1>2. h[0] = 0 /\ h[n] = SumOver(1..n, c) * p
  <2>1. 1..0 = {} /\ 0 * p = 0 /\ 0 \in Nat
    OBVIOUS
  <2>2. SumOver(1..0, c) = 0
    BY <2>1, SumOfNothing
  <2>3. QED
    BY <1>1, <2>1, <2>2
<1>3. \A j \in Nat : j < n => h[j + 1] = h[j] + f[j + 1]
  <2>1. SUFFICES ASSUME NEW j \in Nat, j < n PROVE h[j + 1] = h[j] + f[j + 1]
    OBVIOUS
  <2>2. PICK k \in Nat : k = j + 1 /\ k \in 1..n
    BY <2>1
  <2>3. SumOver(1..k, c) = SumOver(1..j, c) + c[k]
    <3>1. \A i \in 1..k : c[i] \in Int
      BY <2>2
    <3>2. QED
      BY <2>2, <3>1, SumUpToNext
  <2>4. PICK x \in Int, y \in Int : x = SumOver(1..j, c) /\ y = c[k]
    <3>1. SumOver(1..j, c) \in Int
      BY <2>1, SumUpToIsANumber
    <3>2. c[k] \in Int
      BY <2>2
    <3>3. QED
      BY <3>1, <3>2
  <2>5. (x + y) * p = x * p + y * p
    OBVIOUS
  <2>6. h[k] = (x + y) * p /\ h[j] = x * p /\ f[k] = y * p
    BY <1>1, <2>2, <2>3, <2>4
  <2>7. QED
    BY <2>2, <2>5, <2>6
<1>4. \A i \in 1..n : f[i] \in Int
  <2>1. SUFFICES ASSUME NEW i \in 1..n PROVE f[i] \in Int
    OBVIOUS
  <2>2. PICK x \in Int : x = c[i]
    OBVIOUS
  <2>3. QED
    BY <2>2
<1>5. SumOver(1..n, f) = h[n]
  <2>1. PICK u : u = f
    OBVIOUS
  <2>2. (\A i \in 1..n : u[i] \in Int) /\ \A j \in Nat : j < n => h[j + 1] = h[j] + u[j + 1]
    BY <1>3, <1>4, <2>1
  <2>3. SumOver(1..n, u) = h[n]
    BY <1>2, <2>2, SumAlong
  <2>4. QED
    BY <2>1, <2>3
<1>6. QED
  BY <1>2, <1>5

LEMMA EarnedIsMatched ==
  ASSUME NEW n \in Nat, NEW s, s \in [1..n -> Purchase], NEW unit \in Nat,
         NEW c, \A i \in 1..n : c[i] \in Nat, NEW shares \in Int, shares = SumOver(1..n, c)
  PROVE  Earned(s, c, unit) = shares * unit - CostOfSold(n, s, c)
<1>1. PICK N : N = 1..n
  OBVIOUS
<1>2. IsFiniteSet(N) /\ DOMAIN s = N
  BY <1>1, FS_Interval
<1>3. PICK f : f = [i \in N |-> c[i] * unit]
  OBVIOUS
<1>4. PICK g : g = [i \in N |-> c[i] * s[i].price]
  OBVIOUS
<1>5. PICK h : h = [i \in N |-> c[i] * (unit - s[i].price)]
  OBVIOUS
<1>6. \A x \in N : f[x] \in Int /\ g[x] \in Int /\ h[x] = f[x] - g[x]
  <2>1. SUFFICES ASSUME NEW x \in N PROVE f[x] \in Int /\ g[x] \in Int /\ h[x] = f[x] - g[x]
    OBVIOUS
  <2>2. PICK y \in Nat, z \in Nat : y = c[x] /\ z = s[x].price
    BY <1>1 DEF Purchase
  <2>3. y * unit \in Int /\ y * z \in Int /\ y * (unit - z) = y * unit - y * z
    OBVIOUS
  <2>4. f[x] = y * unit /\ g[x] = y * z /\ h[x] = y * (unit - z)
    BY <1>3, <1>4, <1>5, <2>2
  <2>5. QED
    BY <2>3, <2>4
<1>7. SumOver(N, h) = SumOver(N, f) - SumOver(N, g)
  BY <1>2, <1>6, SumOfDifferences
<1>8. SumOver(N, f) = shares * unit
  <2>1. (\A i \in 1..n : c[i] \in Int) /\ \A i \in 1..n : f[i] = c[i] * unit
    BY <1>1, <1>3
  <2>2. SumOver(1..n, f) = SumOver(1..n, c) * unit
    <3>1. unit \in Int
      OBVIOUS
    <3>2. QED
      BY <2>1, <3>1, SumOfMultiples
  <2>3. QED
    BY <1>1, <2>2
<1>9. Earned(s, c, unit) = SumOver(N, h)
  BY <1>2, <1>5, AddUpIsASum DEF Earned
<1>10. QED
  BY <1>1, <1>4, <1>7, <1>8, <1>9 DEF CostOfSold

-----------------------------------------------------------------------------
(* Of the purchases b of a symbol l are open, and q shares are sold.         *)
OpenIsNewest(l, b, q) ==
  /\ l \in Seq(Purchase) /\ b \in Seq(Purchase) /\ q \in Int /\ Len(l) <= Len(b)
  /\ SharesIn(l) = SharesIn(b) - q
  /\ \A i \in DOMAIN l : i > 1 => l[i] = b[Len(b) - Len(l) + i]

LEMMA PurchasesOfASequence ==
  ASSUME NEW s, s \in Seq(Purchase)
  PROVE  /\ Len(s) \in Nat /\ s \in [1..Len(s) -> Purchase] /\ DOMAIN s = 1..Len(s)
         /\ SharesIn(s) \in Nat /\ Cost(s) \in Int
<1>1. PICK n \in Nat : n = Len(s) /\ s \in [1..n -> Purchase] /\ DOMAIN s = 1..n
  OBVIOUS
<1>2. SharesIn(s) \in Nat /\ Cost(s) \in Int
  BY <1>1, PurchasesAddUp
<1>3. QED
  BY <1>1, <1>2

LEMMA OnePurchaseMore ==
  ASSUME NEW s, s \in Seq(Purchase), NEW p \in Purchase
  PROVE  /\ Append(s, p) \in Seq(Purchase)
         /\ SharesIn(Append(s, p)) = SharesIn(s) + p.qty
         /\ Cost(Append(s, p)) = Cost(s) + p.qty * p.price
<1>1. PICK n \in Nat : n = Len(s) /\ s \in [1..n -> Purchase]
  OBVIOUS
<1>2. PICK k \in Nat : k = n + 1
  OBVIOUS
<1>3. PICK t : t = Append(s, p)
  OBVIOUS
<1>4. /\ t \in Seq(Purchase) /\ t \in [1..k -> Purchase]
      /\ \A i \in 1..n : t[i] = s[i]
      /\ t[k] = p
  <2>1. t \in Seq(Purchase) /\ Len(t) = k
    BY <1>1, <1>2, <1>3
  <2>2. \A i \in 1..n : t[i] = s[i]
    BY <1>1, <1>3
  <2>3. t[k] = p
    BY <1>1, <1>2, <1>3
  <2>4. t \in [1..k -> Purchase]
    BY <2>1
  <2>5. QED
    BY <2>1, <2>2, <2>3, <2>4
<1>5. PICK S : S = 1..n
  OBVIOUS
<1>6. IsFiniteSet(S)
  BY <1>5, FS_Interval
<1>7. SharesIn(t) = SharesIn(s) + p.qty
  <2>1. PICK f : f = [i \in 1..n |-> s[i].qty]
    OBVIOUS
  <2>2. PICK g : g = [i \in 1..k |-> t[i].qty]
    OBVIOUS
  <2>3. f = QtyOf(s) /\ g = QtyOf(t)
    <3>1. DOMAIN s = 1..n /\ DOMAIN t = 1..k
      BY <1>1, <1>4
    <3>2. QED
      BY <2>1, <2>2, <3>1 DEF QtyOf
  <2>4. SharesIn(s) = SumOver(1..n, f) /\ SharesIn(t) = SumOver(1..k, g)
    BY <1>1, <1>4, <2>3, PurchasesAddUp
  <2>5. \A i \in 1..k : g[i] \in Int
    BY <1>4, <2>2 DEF Purchase
  <2>6. SumOver(1..k, g) = SumOver(1..n, g) + g[k]
    BY <1>2, <2>5, SumUpToNext
  <2>7. SumOver(S, g) = SumOver(S, f)
    <3>1. \A x \in S : g[x] = f[x]
      BY <1>2, <1>4, <1>5, <2>1, <2>2
    <3>2. QED
      BY <1>6, <3>1, SumsOfEqualsAgree
  <2>8. g[k] = p.qty
    BY <1>2, <1>4, <2>2
  <2>9. QED
    BY <1>5, <2>4, <2>6, <2>7, <2>8
<1>8. Cost(t) = Cost(s) + p.qty * p.price
  <2>1. PICK f : f = [i \in 1..n |-> s[i].qty * s[i].price]
    OBVIOUS
  <2>2. PICK g : g = [i \in 1..k |-> t[i].qty * t[i].price]
    OBVIOUS
  <2>3. Cost(s) = SumOver(1..n, f) /\ Cost(t) = SumOver(1..k, g)
    BY <1>1, <1>4, <2>1, <2>2, PurchasesAddUp
  <2>4. \A i \in 1..k : g[i] \in Int
    <3>1. SUFFICES ASSUME NEW i \in 1..k PROVE g[i] \in Int
      OBVIOUS
    <3>2. PICK x \in Nat, y \in Nat : x = t[i].qty /\ y = t[i].price
      BY <1>4 DEF Purchase
    <3>3. x * y \in Int
      OBVIOUS
    <3>4. QED
      BY <2>2, <3>2, <3>3
  <2>5. SumOver(1..k, g) = SumOver(1..n, g) + g[k]
    BY <1>2, <2>4, SumUpToNext
  <2>6. SumOver(S, g) = SumOver(S, f)
    <3>1. \A x \in S : g[x] = f[x]
      BY <1>2, <1>4, <1>5, <2>1, <2>2
    <3>2. QED
      BY <1>6, <3>1, SumsOfEqualsAgree
  <2>7. g[k] = p.qty * p.price
    BY <1>2, <1>4, <2>2
  <2>8. QED
    BY <1>5, <2>3, <2>5, <2>6, <2>7
<1>9. QED
  BY <1>3, <1>4, <1>7, <1>8

LEMMA BuyingKeepsTheNewest ==
  ASSUME NEW l, NEW b, NEW q, OpenIsNewest(l, b, q), NEW p \in Purchase
  PROVE  OpenIsNewest(Append(l, p), Append(b, p), q)
<1>1. /\ l \in Seq(Purchase) /\ b \in Seq(Purchase) /\ q \in Int /\ Len(l) <= Len(b)
      /\ SharesIn(l) = SharesIn(b) - q
      /\ \A i \in DOMAIN l : i > 1 => l[i] = b[Len(b) - Len(l) + i]
  BY DEF OpenIsNewest
<1>2. PICK m \in Nat, n \in Nat : m = Len(l) /\ n = Len(b) /\ m <= n
  BY <1>1
<1>3. PICK x, y : x = Append(l, p) /\ y = Append(b, p)
  OBVIOUS
<1>4. /\ x \in Seq(Purchase) /\ y \in Seq(Purchase)
      /\ Len(x) = m + 1 /\ Len(y) = n + 1 /\ DOMAIN x = 1..(m + 1) /\ DOMAIN l = 1..m
      /\ \A i \in 1..m : x[i] = l[i]
      /\ \A i \in 1..n : y[i] = b[i]
      /\ x[m + 1] = p /\ y[n + 1] = p
  BY <1>1, <1>2, <1>3
<1>5. SharesIn(x) = SharesIn(y) - q
  <2>1. SharesIn(x) = SharesIn(l) + p.qty /\ SharesIn(y) = SharesIn(b) + p.qty
    BY <1>1, <1>3, OnePurchaseMore
  <2>2. SharesIn(b) \in Nat /\ p.qty \in Nat
    BY <1>1, PurchasesOfASequence DEF Purchase
  <2>3. QED
    BY <1>1, <2>1, <2>2
<1>6. \A i \in 1..(m + 1) : i > 1 => x[i] = y[n + 1 - (m + 1) + i]
  <2>1. SUFFICES ASSUME NEW i \in 1..(m + 1), i > 1 PROVE x[i] = y[n + 1 - (m + 1) + i]
    OBVIOUS
  <2>2. PICK j \in Nat : j = n - m + i /\ j = n + 1 - (m + 1) + i
    BY <1>2
  <2>3. CASE i = m + 1
    <3>1. j = n + 1
      BY <2>2, <2>3
    <3>2. QED
      BY <1>4, <2>2, <2>3, <3>1
  <2>4. CASE i # m + 1
    <3>1. i \in 1..m /\ j \in 1..n
      BY <1>2, <2>2, <2>4
    <3>2. l[i] = b[j]
      BY <1>1, <1>2, <1>4, <2>1, <2>2, <3>1
    <3>3. QED
      BY <1>4, <2>2, <3>1, <3>2
  <2>5. QED
    BY <2>3, <2>4
<1>7. OpenIsNewest(x, y, q)
  BY <1>1, <1>2, <1>4, <1>5, <1>6 DEF OpenIsNewest
<1>8. QED
  BY <1>3, <1>7

LEMMA SellingKeepsTheNewest ==
  ASSUME NEW l, NEW b, NEW q, OpenIsNewest(l, b, q), NEW qty \in Nat, NEW unit \in Nat
  PROVE  /\ Min({qty, SharesIn(l)}) \in Int
         /\ OpenIsNewest(Left(l, Closed(l, qty)), b, q + Min({qty, SharesIn(l)}))
         /\ Earned(l, Closed(l, qty), unit) =
              Min({qty, SharesIn(l)}) * unit - Cost(l) + Cost(Left(l, Closed(l, qty)))
<1>0. PICK c, m : c = Closed(l, qty) /\ m = Min({qty, SharesIn(l)})
  OBVIOUS
<1>1. /\ l \in Seq(Purchase) /\ b \in Seq(Purchase) /\ q \in Int /\ Len(l) <= Len(b)
      /\ SharesIn(l) = SharesIn(b) - q
      /\ \A i \in DOMAIN l : i > 1 => l[i] = b[Len(b) - Len(l) + i]
  BY DEF OpenIsNewest
<1>2. PICK n \in Nat, z \in Nat : n = Len(l) /\ z = Len(b) /\ n <= z
  BY <1>1
<1>3. l \in [1..n -> Purchase] /\ DOMAIN l = 1..n
  BY <1>1, <1>2
<1>4. PICK rest : rest = Left(l, c)
  OBVIOUS
<1>5. PICK k \in 0..n : Cuts(n, l, c, k, rest)
  BY <1>0, <1>3, <1>4, LeftIsTheNewest
<1>6. \A i \in 1..n : c[i] \in Nat
  BY <1>0, <1>3, ClosedInTurn DEF ClosesInTurn
<1>7. SumOver(1..n, c) = m
  BY <1>0, <1>3, ClosedAddsUp
<1>8. PICK cost : cost = CostOfSold(n, l, c)
  OBVIOUS
<1>9. /\ m \in Int /\ SharesIn(rest) = SharesIn(l) - m
      /\ cost \in Int /\ Cost(rest) = Cost(l) - cost
  <2>1. /\ SumOver(1..n, c) \in Int
        /\ SharesIn(rest) = SharesIn(l) - SumOver(1..n, c)
        /\ CostOfSold(n, l, c) \in Int
        /\ Cost(rest) = Cost(l) - CostOfSold(n, l, c)
    BY <1>3, <1>5, <1>6, RestAddsUp
  <2>2. QED
    BY <1>7, <1>8, <2>1
<1>10. Earned(l, c, unit) = m * unit - Cost(l) + Cost(rest)
  <2>1. Earned(l, c, unit) = m * unit - cost
    <3>1. m \in Int /\ m = SumOver(1..n, c)
      BY <1>7, <1>9
    <3>2. QED
      BY <1>0, <1>3, <1>6, <1>8, <3>1, EarnedIsMatched
  <2>2. PICK x \in Int, y \in Int : x = m * unit /\ y = Cost(l)
    BY <1>1, <1>9, PurchasesOfASequence
  <2>3. QED
    BY <1>9, <2>1, <2>2
<1>11. OpenIsNewest(rest, b, q + m)
  <2>1. PICK u \in Nat : u = n - k /\ rest \in [1..u -> Purchase] /\ k + u = n /\ k \in Nat
    BY <1>5 DEF Cuts
  <2>2. rest \in Seq(Purchase) /\ Len(rest) = u /\ DOMAIN rest = 1..u
    BY <2>1
  <2>3. SharesIn(rest) = SharesIn(b) - (q + m)
    <3>1. SharesIn(b) \in Nat
      BY <1>1, PurchasesOfASequence
    <3>2. QED
      BY <1>1, <1>9, <3>1
  <2>4. \A i \in 1..u : i > 1 => rest[i] = b[z - u + i]
    <3>1. SUFFICES ASSUME NEW i \in 1..u, i > 1 PROVE rest[i] = b[z - u + i]
      OBVIOUS
    <3>2. PICK j \in 1..n : j = k + i /\ j > 1 /\ z - n + j = z - u + i
      BY <1>2, <2>1, <3>1
    <3>3. rest[i] = l[j]
      BY <1>5, <2>1, <3>1, <3>2 DEF Cuts
    <3>4. l[j] = b[z - n + j]
      BY <1>1, <1>2, <1>3, <3>2
    <3>5. QED
      BY <3>2, <3>3, <3>4
  <2>5. u <= z
    BY <1>2, <2>1
  <2>6. \A i \in DOMAIN rest : i > 1 => rest[i] = b[Len(b) - Len(rest) + i]
    BY <1>2, <2>2, <2>4
  <2>7. Len(rest) <= Len(b) /\ q + m \in Int
    BY <1>1, <1>2, <1>9, <2>2, <2>5
  <2>8. QED
    BY <1>1, <2>2, <2>3, <2>6, <2>7 DEF OpenIsNewest
<1>12. QED
  BY <1>0, <1>4, <1>9, <1>10, <1>11

-----------------------------------------------------------------------------
(* The inductive invariant: what the properties say, and that the numbers    *)
(* are numbers and no more is open than was bought.                          *)
Balances == [s \in Names |-> sold[s].money - Cost(bought[s]) + Cost(lots[s])]
MarksAreHigh ==
  /\ paused \subseteq Strategies /\ DOMAIN hwm \subseteq Strategies
  /\ \A k \in DOMAIN hwm : hwm[k] \in Int /\ hwm[k] >= pnl[k]
PerformanceInv ==
  /\ lots \in [Names -> Seq(Purchase)] /\ bought \in [Names -> Seq(Purchase)]
  /\ sold \in [Names -> [qty : Int, money : Int]] /\ pnl \in [Strategies -> Int]
  /\ \A s \in Names : OpenIsNewest(lots[s], bought[s], sold[s].qty)
  /\ SumOver(Strategies, pnl) = SumOver(Names, Balances)
  /\ MarksAreHigh /\ FarBelowIsPaused

LEMMA SumOfZeros ==
  ASSUME NEW S, IsFiniteSet(S), NEW f, \A x \in S : f[x] = 0
  PROVE  SumOver(S, f) = 0
<1>1. \A x \in S : f[x] \in Int /\ f[x] \in Int /\ f[x] = f[x] - f[x]
  OBVIOUS
<1>2. SumOver(S, f) \in Int /\ SumOver(S, f) = SumOver(S, f) - SumOver(S, f)
  BY <1>1, SumOfDifferences
<1>3. QED
  BY <1>2

LEMMA SumOfOneChange ==
  ASSUME NEW S, IsFiniteSet(S), NEW y \in S, NEW f, NEW g, NEW d \in Int,
         \A x \in S : f[x] \in Int, \A x \in S : g[x] = IF x = y THEN f[x] + d ELSE f[x]
  PROVE  SumOver(S, g) = SumOver(S, f) + d /\ SumOver(S, f) \in Int
<1>1. f[y] \in Int /\ g[y] = f[y] + d
  OBVIOUS
<1>2. \A x \in S : g[x] \in Int
  OBVIOUS
<1>3. \A x \in S \ {y} : f[x] = g[x]
  OBVIOUS
<1>4. /\ SumOver(S, f) \in Int
      /\ SumOver(S, g) = SumOver(S, f) + (IF y \in S THEN g[y] ELSE 0)
                                       - (IF y \in S THEN f[y] ELSE 0)
  BY <1>2, <1>3, SumChanges
<1>5. QED
  BY <1>1, <1>4

LEMMA BalancesAreNumbers ==
  ASSUME lots \in [Names -> Seq(Purchase)], bought \in [Names -> Seq(Purchase)],
         sold \in [Names -> [qty : Int, money : Int]]
  PROVE  \A s \in Names : /\ Balances[s] = sold[s].money - Cost(bought[s]) + Cost(lots[s])
                          /\ Balances[s] \in Int
                          /\ Cost(bought[s]) \in Int /\ Cost(lots[s]) \in Int
<1>1. SUFFICES ASSUME NEW s \in Names
               PROVE  /\ Balances[s] = sold[s].money - Cost(bought[s]) + Cost(lots[s])
                      /\ Balances[s] \in Int
                      /\ Cost(bought[s]) \in Int /\ Cost(lots[s]) \in Int
  OBVIOUS
<1>2. lots[s] \in Seq(Purchase) /\ bought[s] \in Seq(Purchase) /\ sold[s].money \in Int
  OBVIOUS
<1>3. Cost(bought[s]) \in Int /\ Cost(lots[s]) \in Int
  BY <1>2, PurchasesOfASequence
<1>4. Balances[s] = sold[s].money - Cost(bought[s]) + Cost(lots[s])
  BY DEF Balances
<1>5. QED
  BY <1>2, <1>3, <1>4

LEMMA PerformanceInvInit == PerformanceInit => PerformanceInv
<1>1. SUFFICES ASSUME PerformanceInit PROVE PerformanceInv
  OBVIOUS
<1>2. /\ lots = [s \in Names |-> <<>>] /\ bought = [s \in Names |-> <<>>]
      /\ sold = [s \in Names |-> [qty |-> 0, money |-> 0]] /\ pnl = [k \in Strategies |-> 0]
      /\ hwm = <<>> /\ paused = {}
  BY <1>1 DEF PerformanceInit
<1>3. PICK none : none = <<>> /\ none \in Seq(Purchase) /\ Len(none) = 0 /\ DOMAIN none = {}
  <2>1. <<>> \in Seq(Purchase) /\ Len(<<>>) = 0
    OBVIOUS
  <2>2. DOMAIN <<>> = {}
    OBVIOUS
  <2>3. QED
    BY <2>1, <2>2
<1>4. /\ lots \in [Names -> Seq(Purchase)] /\ bought \in [Names -> Seq(Purchase)]
      /\ sold \in [Names -> [qty : Int, money : Int]] /\ pnl \in [Strategies -> Int]
  BY <1>2
<1>5. SharesIn(none) \in Nat /\ Cost(none) \in Int
  BY <1>3, PurchasesOfASequence
<1>6. \A s \in Names : OpenIsNewest(lots[s], bought[s], sold[s].qty)
  <2>1. SUFFICES ASSUME NEW s \in Names PROVE OpenIsNewest(lots[s], bought[s], sold[s].qty)
    OBVIOUS
  <2>2. lots[s] = none /\ bought[s] = none /\ sold[s].qty = 0
    BY <1>2, <1>3
  <2>3. OpenIsNewest(none, none, 0)
    BY <1>3, <1>5 DEF OpenIsNewest
  <2>4. QED
    BY <2>2, <2>3
<1>7. SumOver(Strategies, pnl) = SumOver(Names, Balances)
  <2>1. IsFiniteSet(Strategies) /\ IsFiniteSet(Names)
    BY PerformanceAssumption
  <2>2. PICK f, g : f = pnl /\ g = Balances
    OBVIOUS
  <2>3. (\A x \in Strategies : f[x] = 0) /\ \A x \in Names : g[x] = 0
    <3>1. \A x \in Strategies : f[x] = 0
      BY <1>2, <2>2
    <3>2. SUFFICES ASSUME NEW x \in Names PROVE g[x] = 0
      BY <3>1
    <3>3. Balances[x] = sold[x].money - Cost(bought[x]) + Cost(lots[x])
      BY <1>4, BalancesAreNumbers
    <3>4. lots[x] = none /\ bought[x] = none /\ sold[x].money = 0
      BY <1>2, <1>3
    <3>5. QED
      BY <1>5, <2>2, <3>3, <3>4
  <2>4. SumOver(Strategies, f) = 0 /\ SumOver(Names, g) = 0
    BY <2>1, <2>3, SumOfZeros
  <2>5. QED
    BY <2>2, <2>4
<1>8. DOMAIN hwm = {}
  BY <1>2
<1>9. QED
  BY <1>2, <1>4, <1>6, <1>7, <1>8 DEF PerformanceInv, MarksAreHigh, FarBelowIsPaused

LEMMA BuyKeeps ==
  ASSUME PerformanceInv, NEW s \in Names, NEW qty \in Quantities, NEW unit \in FillPrices,
         Buy(s, qty, unit)
  PROVE  PerformanceInv' /\ UNCHANGED <<hwm, paused, pnl, resumed>>
<1>1. PICK p : p = [qty |-> qty, price |-> unit]
  OBVIOUS
<1>2. p \in Purchase /\ p.qty = qty /\ p.price = unit /\ qty \in Nat /\ unit \in Nat
  BY <1>1, PerformanceAssumption DEF Purchase
<1>3. /\ lots \in [Names -> Seq(Purchase)] /\ bought \in [Names -> Seq(Purchase)]
      /\ sold \in [Names -> [qty : Int, money : Int]] /\ pnl \in [Strategies -> Int]
      /\ \A x \in Names : OpenIsNewest(lots[x], bought[x], sold[x].qty)
      /\ SumOver(Strategies, pnl) = SumOver(Names, Balances)
      /\ MarksAreHigh /\ FarBelowIsPaused
  BY DEF PerformanceInv
<1>4. /\ lots' = [lots EXCEPT ![s] = Append(@, p)]
      /\ bought' = [bought EXCEPT ![s] = Append(@, p)]
      /\ UNCHANGED <<pnl, hwm, paused, sold, resumed>>
  BY <1>1 DEF Buy
<1>5. PICK l, b : l = Append(lots[s], p) /\ b = Append(bought[s], p)
  OBVIOUS
<1>6. /\ l \in Seq(Purchase) /\ b \in Seq(Purchase)
      /\ Cost(l) = Cost(lots[s]) + qty * unit /\ Cost(b) = Cost(bought[s]) + qty * unit
  BY <1>2, <1>3, <1>5, OnePurchaseMore
<1>7. /\ lots' \in [Names -> Seq(Purchase)] /\ lots'[s] = l
      /\ bought' \in [Names -> Seq(Purchase)] /\ bought'[s] = b
      /\ \A x \in Names : x # s => lots'[x] = lots[x] /\ bought'[x] = bought[x]
  BY <1>3, <1>4, <1>5, <1>6
<1>8. \A x \in Names : OpenIsNewest(lots'[x], bought'[x], sold'[x].qty)
  <2>1. SUFFICES ASSUME NEW x \in Names PROVE OpenIsNewest(lots'[x], bought'[x], sold[x].qty)
    BY <1>4
  <2>2. CASE x = s
    <3>1. OpenIsNewest(l, b, sold[s].qty)
      BY <1>2, <1>3, <1>5, BuyingKeepsTheNewest
    <3>2. QED
      BY <1>7, <2>2, <3>1
  <2>3. CASE x # s
    BY <1>3, <1>7, <2>3
  <2>4. QED
    BY <2>2, <2>3
<1>9. SumOver(Names, Balances') = SumOver(Names, Balances)
  <2>1. PICK f, g : f = Balances /\ g = Balances'
    OBVIOUS
  <2>2. \A x \in Names : f[x] = g[x]
    <3>1. SUFFICES ASSUME NEW x \in Names PROVE f[x] = g[x]
      OBVIOUS
    <3>2. /\ f[x] = sold[x].money - Cost(bought[x]) + Cost(lots[x])
          /\ g[x] = sold[x].money - Cost(bought'[x]) + Cost(lots'[x])
      BY <1>4, <2>1 DEF Balances
    <3>3. CASE x = s
      <4>1. PICK u \in Int, v \in Int, w \in Int, z \in Int :
              u = sold[s].money /\ v = Cost(bought[s]) /\ w = Cost(lots[s]) /\ z = qty * unit
        <5>1. qty * unit \in Int
          BY <1>2
        <5>2. sold[s].money \in Int
          BY <1>3
        <5>3. Cost(bought[s]) \in Int /\ Cost(lots[s]) \in Int
          BY <1>3, BalancesAreNumbers
        <5>4. QED
          BY <5>1, <5>2, <5>3
      <4>2. f[x] = u - v + w /\ g[x] = u - (v + z) + (w + z)
        BY <1>6, <1>7, <3>2, <3>3, <4>1
      <4>3. QED
        BY <4>2
    <3>4. CASE x # s
      BY <1>7, <3>2, <3>4
    <3>5. QED
      BY <3>3, <3>4
  <2>3. IsFiniteSet(Names)
    BY PerformanceAssumption
  <2>4. SumOver(Names, f) = SumOver(Names, g)
    BY <2>2, <2>3, SumsOfEqualsAgree
  <2>5. QED
    BY <2>1, <2>4
<1>10. SumOver(Strategies, pnl') = SumOver(Names, Balances')
  BY <1>3, <1>4, <1>9
<1>11. MarksAreHigh' /\ FarBelowIsPaused'
  BY <1>3, <1>4 DEF MarksAreHigh, FarBelowIsPaused
<1>12. PerformanceInv'
  BY <1>3, <1>4, <1>7, <1>8, <1>10, <1>11 DEF PerformanceInv
<1>13. QED
  BY <1>4, <1>12

(* What an update does to the marks and the pauses.                          *)
LEMMA UpdateKeepsMarks ==
  ASSUME MarksAreHigh, FarBelowIsPaused, pnl \in [Strategies -> Int], NEW k \in Strategies,
         NEW profit \in Int, pnl' = [pnl EXCEPT ![k] = profit], Update(k, profit)
  PROVE  /\ MarksAreHigh' /\ FarBelowIsPaused'
         /\ \A j \in DOMAIN hwm : j \in DOMAIN hwm' /\ hwm'[j] >= hwm[j]
         /\ paused \subseteq paused'
<1>1. PICK peak : peak = PeakOf(k, profit)
  OBVIOUS
<1>2. /\ paused \subseteq Strategies /\ DOMAIN hwm \subseteq Strategies
      /\ \A j \in DOMAIN hwm : hwm[j] \in Int /\ hwm[j] >= pnl[j]
      /\ \A j \in DOMAIN hwm : hwm[j] - pnl[j] >= Limit /\ j \notin resumed => j \in paused
  BY DEF MarksAreHigh, FarBelowIsPaused
<1>3. peak \in Int /\ peak >= profit /\ (k \in DOMAIN hwm => peak >= hwm[k])
  <2>1. CASE k \in DOMAIN hwm
    <3>1. PICK u \in Int : u = hwm[k]
      BY <1>2, <2>1
    <3>2. Max({u, profit}) = IF u >= profit THEN u ELSE profit
      BY MaxOfTwoNumbers
    <3>3. peak = Max({u, profit})
      BY <1>1, <2>1, <3>1 DEF PeakOf
    <3>4. QED
      BY <3>1, <3>2, <3>3
  <2>2. CASE k \notin DOMAIN hwm
    BY <1>1, <2>2 DEF PeakOf
  <2>3. QED
    BY <2>1, <2>2
<1>4. /\ hwm' = [j \in DOMAIN hwm \cup {k} |-> IF j = k THEN peak ELSE hwm[j]]
      /\ paused' = IF peak - profit >= Limit THEN paused \cup {k} ELSE paused
      /\ resumed' = resumed \ {k}
  BY <1>1 DEF Update, Marked
<1>5. DOMAIN hwm' = DOMAIN hwm \cup {k} /\ hwm'[k] = peak
  BY <1>4
<1>6. \A j \in DOMAIN hwm : j # k => hwm'[j] = hwm[j]
  BY <1>4
<1>7. pnl'[k] = profit /\ \A j \in Strategies : j # k => pnl'[j] = pnl[j]
  OBVIOUS
<1>8. paused \subseteq paused' /\ paused' \subseteq Strategies
  BY <1>2, <1>4
<1>9. \A j \in DOMAIN hwm : j \in DOMAIN hwm' /\ hwm'[j] >= hwm[j]
  <2>1. SUFFICES ASSUME NEW j \in DOMAIN hwm PROVE hwm'[j] >= hwm[j]
    BY <1>5
  <2>2. CASE j = k
    BY <1>3, <1>5, <2>1, <2>2
  <2>3. CASE j # k
    BY <1>2, <1>6, <2>1, <2>3
  <2>4. QED
    BY <2>2, <2>3
<1>10. MarksAreHigh'
  <2>1. \A j \in DOMAIN hwm' : hwm'[j] \in Int /\ hwm'[j] >= pnl'[j]
    <3>1. SUFFICES ASSUME NEW j \in DOMAIN hwm' PROVE hwm'[j] \in Int /\ hwm'[j] >= pnl'[j]
      OBVIOUS
    <3>2. CASE j = k
      BY <1>3, <1>5, <1>7, <3>2
    <3>3. CASE j # k
      <4>1. j \in DOMAIN hwm /\ j \in Strategies
        BY <1>2, <1>5, <3>1, <3>3
      <4>2. hwm'[j] = hwm[j] /\ pnl'[j] = pnl[j]
        BY <1>6, <1>7, <3>3, <4>1
      <4>3. QED
        BY <1>2, <4>1, <4>2
    <3>4. QED
      BY <3>2, <3>3
  <2>2. DOMAIN hwm' \subseteq Strategies
    BY <1>2, <1>5
  <2>3. QED
    BY <1>8, <2>1, <2>2 DEF MarksAreHigh
<1>11. FarBelowIsPaused'
  <2>1. SUFFICES ASSUME NEW j \in DOMAIN hwm', hwm'[j] - pnl'[j] >= Limit, j \notin resumed'
                 PROVE  j \in paused'
    BY DEF FarBelowIsPaused
  <2>2. CASE j = k
    <3>1. peak - profit >= Limit
      BY <1>5, <1>7, <2>1, <2>2
    <3>2. QED
      BY <1>4, <2>2, <3>1
  <2>3. CASE j # k
    <3>1. j \in DOMAIN hwm /\ j \in Strategies /\ j \notin resumed
      BY <1>2, <1>4, <1>5, <2>1, <2>3
    <3>2. hwm'[j] = hwm[j] /\ pnl'[j] = pnl[j]
      BY <1>6, <1>7, <2>3, <3>1
    <3>3. j \in paused
      BY <1>2, <2>1, <3>1, <3>2
    <3>4. QED
      BY <1>8, <3>3
  <2>4. QED
    BY <2>2, <2>3
<1>12. QED
  BY <1>8, <1>9, <1>10, <1>11

LEMMA SellKeeps ==
  ASSUME PerformanceInv, NEW k \in Strategies, NEW s \in Names,
         NEW qty \in Quantities, NEW unit \in FillPrices, Sell(k, s, qty, unit)
  PROVE  /\ PerformanceInv'
         /\ \A j \in DOMAIN hwm : j \in DOMAIN hwm' /\ hwm'[j] >= hwm[j]
         /\ paused \subseteq paused'
<1>1. qty \in Nat /\ unit \in Nat
  BY PerformanceAssumption
<1>2. /\ lots \in [Names -> Seq(Purchase)] /\ bought \in [Names -> Seq(Purchase)]
      /\ sold \in [Names -> [qty : Int, money : Int]] /\ pnl \in [Strategies -> Int]
      /\ \A x \in Names : OpenIsNewest(lots[x], bought[x], sold[x].qty)
      /\ SumOver(Strategies, pnl) = SumOver(Names, Balances)
      /\ MarksAreHigh /\ FarBelowIsPaused
  BY DEF PerformanceInv
<1>3. PICK c : c = Closed(lots[s], qty)
  OBVIOUS
<1>4. PICK m : m = Min({qty, SharesIn(lots[s])})
  OBVIOUS
<1>5. PICK rest : rest = Left(lots[s], c)
  OBVIOUS
<1>6. PICK profit : profit = Earned(lots[s], c, unit)
  OBVIOUS
<1>7. /\ m \in Int /\ OpenIsNewest(rest, bought[s], sold[s].qty + m)
      /\ profit = m * unit - Cost(lots[s]) + Cost(rest)
  <2>1. PICK l, b, q : l = lots[s] /\ b = bought[s] /\ q = sold[s].qty /\ OpenIsNewest(l, b, q)
    BY <1>2
  <2>2. c = Closed(l, qty) /\ m = Min({qty, SharesIn(l)})
    BY <1>3, <1>4, <2>1
  <2>3. /\ Min({qty, SharesIn(l)}) \in Int
        /\ OpenIsNewest(Left(l, Closed(l, qty)), b, q + Min({qty, SharesIn(l)}))
        /\ Earned(l, Closed(l, qty), unit) =
             Min({qty, SharesIn(l)}) * unit - Cost(l) + Cost(Left(l, Closed(l, qty)))
    BY <1>1, <2>1, SellingKeepsTheNewest
  <2>4. QED
    BY <1>5, <1>6, <2>1, <2>2, <2>3
<1>8. rest \in Seq(Purchase) /\ Cost(rest) \in Int /\ Cost(lots[s]) \in Int /\ m * unit \in Int
  <2>1. rest \in Seq(Purchase)
    BY <1>7 DEF OpenIsNewest
  <2>2. lots[s] \in Seq(Purchase)
    BY <1>2
  <2>3. QED
    BY <1>1, <1>7, <2>1, <2>2, PurchasesOfASequence
<1>9. profit \in Int /\ pnl[k] \in Int /\ sold[s].qty \in Int /\ sold[s].money \in Int
  BY <1>2, <1>7, <1>8
<1>10. /\ lots' = [lots EXCEPT ![s] = rest]
       /\ pnl' = [pnl EXCEPT ![k] = @ + profit]
       /\ sold' = [sold EXCEPT ![s] = [qty |-> @.qty + m, money |-> @.money + m * unit]]
       /\ Update(k, pnl'[k]) /\ bought' = bought
  BY <1>3, <1>4, <1>5, <1>6 DEF Sell
<1>11. PICK total \in Int : total = pnl[k] + profit
  BY <1>9
<1>12. pnl' = [pnl EXCEPT ![k] = total] /\ pnl'[k] = total /\ pnl' \in [Strategies -> Int]
  BY <1>2, <1>10, <1>11
<1>13. /\ MarksAreHigh' /\ FarBelowIsPaused'
       /\ \A j \in DOMAIN hwm : j \in DOMAIN hwm' /\ hwm'[j] >= hwm[j]
       /\ paused \subseteq paused'
  BY <1>2, <1>10, <1>12, UpdateKeepsMarks
<1>14. PICK deal : deal = [qty |-> sold[s].qty + m, money |-> sold[s].money + m * unit]
  OBVIOUS
<1>15. deal \in [qty : Int, money : Int] /\ deal.qty = sold[s].qty + m
       /\ deal.money = sold[s].money + m * unit
  <2>1. PICK x \in Int, y \in Int : x = sold[s].qty + m /\ y = sold[s].money + m * unit
    <3>1. PICK w \in Int : w = m * unit
      BY <1>8
    <3>2. QED
      BY <1>7, <1>9, <3>1
  <2>2. deal = [qty |-> x, money |-> y]
    BY <1>14, <2>1
  <2>3. QED
    BY <2>1, <2>2
<1>16. sold' = [sold EXCEPT ![s] = deal]
  BY <1>10, <1>14
<1>17. /\ lots' \in [Names -> Seq(Purchase)] /\ lots'[s] = rest
       /\ sold' \in [Names -> [qty : Int, money : Int]] /\ sold'[s] = deal
       /\ bought' \in [Names -> Seq(Purchase)]
       /\ \A x \in Names : x # s => lots'[x] = lots[x] /\ sold'[x] = sold[x]
  BY <1>2, <1>8, <1>10, <1>15, <1>16
<1>18. \A x \in Names : OpenIsNewest(lots'[x], bought'[x], sold'[x].qty)
  <2>1. SUFFICES ASSUME NEW x \in Names PROVE OpenIsNewest(lots'[x], bought[x], sold'[x].qty)
    BY <1>10
  <2>2. CASE x = s
    BY <1>7, <1>15, <1>17, <2>2
  <2>3. CASE x # s
    BY <1>2, <1>17, <2>3
  <2>4. QED
    BY <2>2, <2>3
<1>19. SumOver(Names, Balances') = SumOver(Names, Balances) + profit
  <2>1. PICK f, g : f = Balances /\ g = Balances'
    OBVIOUS
  <2>2. \A x \in Names : f[x] \in Int
    BY <1>2, <2>1, BalancesAreNumbers
  <2>3. \A x \in Names : g[x] = IF x = s THEN f[x] + profit ELSE f[x]
    <3>1. SUFFICES ASSUME NEW x \in Names PROVE g[x] = IF x = s THEN f[x] + profit ELSE f[x]
      OBVIOUS
    <3>2. /\ f[x] = sold[x].money - Cost(bought[x]) + Cost(lots[x])
          /\ g[x] = sold'[x].money - Cost(bought[x]) + Cost(lots'[x])
      BY <1>10, <2>1 DEF Balances
    <3>3. CASE x = s
      <4>1. PICK t \in Int, u \in Int, v \in Int, w \in Int, z \in Int :
              /\ t = sold[s].money /\ u = Cost(bought[s]) /\ v = Cost(lots[s])
              /\ w = m * unit /\ z = Cost(rest)
        <5>1. Cost(bought[s]) \in Int
          BY <1>2, BalancesAreNumbers
        <5>2. QED
          BY <1>8, <1>9, <5>1
      <4>2. f[x] = t - u + v /\ g[x] = t + w - u + z /\ profit = w - v + z
        <5>1. f[x] = t - u + v
          BY <3>2, <3>3, <4>1
        <5>2. sold'[x].money = t + w /\ Cost(lots'[x]) = z
          BY <1>15, <1>17, <3>3, <4>1
        <5>3. g[x] = t + w - u + z
          BY <3>2, <3>3, <4>1, <5>2
        <5>4. profit = w - v + z
          BY <1>7, <4>1
        <5>5. QED
          BY <5>1, <5>3, <5>4
      <4>3. g[x] = f[x] + profit
        BY <4>2
      <4>4. QED
        BY <3>3, <4>3
    <3>4. CASE x # s
      BY <1>17, <3>2, <3>4
    <3>5. QED
      BY <3>3, <3>4
  <2>4. IsFiniteSet(Names)
    BY PerformanceAssumption
  <2>5. SumOver(Names, g) = SumOver(Names, f) + profit
    BY <1>9, <2>2, <2>3, <2>4, SumOfOneChange
  <2>6. QED
    BY <2>1, <2>5
<1>20. SumOver(Strategies, pnl') = SumOver(Strategies, pnl) + profit
  <2>1. PICK f, g : f = pnl /\ g = pnl'
    OBVIOUS
  <2>2. (\A x \in Strategies : f[x] \in Int)
        /\ \A x \in Strategies : g[x] = IF x = k THEN f[x] + profit ELSE f[x]
    BY <1>2, <1>10, <2>1
  <2>3. IsFiniteSet(Strategies)
    BY PerformanceAssumption
  <2>4. SumOver(Strategies, g) = SumOver(Strategies, f) + profit
    BY <1>9, <2>2, <2>3, SumOfOneChange
  <2>5. QED
    BY <2>1, <2>4
<1>21. PerformanceInv'
  BY <1>2, <1>12, <1>13, <1>17, <1>18, <1>19, <1>20 DEF PerformanceInv
<1>22. QED
  BY <1>13, <1>21

LEMMA ResumeKeeps ==
  ASSUME PerformanceInv, NEW k \in Strategies, Resume(k)
  PROVE  PerformanceInv' /\ UNCHANGED hwm /\ resumes' = resumes + 1
<1>1. /\ paused' = paused \ {k} /\ resumed' = resumed \cup {k} /\ resumes' = resumes + 1
      /\ UNCHANGED <<lots, pnl, hwm, bought, sold>>
  BY DEF Resume
<1>2. Balances' = Balances
  BY <1>1 DEF Balances
<1>3. MarksAreHigh' /\ FarBelowIsPaused'
  BY <1>1 DEF PerformanceInv, MarksAreHigh, FarBelowIsPaused
<1>4. \A s \in Names : OpenIsNewest(lots'[s], bought'[s], sold'[s].qty)
  BY <1>1 DEF PerformanceInv
<1>5. QED
  BY <1>1, <1>2, <1>3, <1>4 DEF PerformanceInv

LEMMA PerformanceInvNext ==
  ASSUME PerformanceInv, [PerformanceNext]_performanceVars
  PROVE  /\ PerformanceInv'
         /\ [/\ \A k \in DOMAIN hwm : k \in DOMAIN hwm' /\ hwm'[k] >= hwm[k]
             /\ \A k \in paused \ paused' : resumes' = resumes + 1]_performanceVars
<1>1. \A k \in DOMAIN hwm : hwm[k] >= hwm[k]
  BY DEF PerformanceInv, MarksAreHigh
<1>2. ASSUME NEW s \in Names, NEW qty \in Quantities, NEW unit \in FillPrices, Buy(s, qty, unit)
      PROVE  /\ PerformanceInv'
             /\ \A k \in DOMAIN hwm : k \in DOMAIN hwm' /\ hwm'[k] >= hwm[k]
             /\ \A k \in paused \ paused' : resumes' = resumes + 1
  <2>1. PerformanceInv' /\ UNCHANGED <<hwm, paused>>
    BY <1>2, BuyKeeps
  <2>2. QED
    BY <1>1, <2>1
<1>3. ASSUME NEW k \in Strategies, NEW s \in Names, NEW qty \in Quantities,
             NEW unit \in FillPrices, Sell(k, s, qty, unit)
      PROVE  /\ PerformanceInv'
             /\ \A j \in DOMAIN hwm : j \in DOMAIN hwm' /\ hwm'[j] >= hwm[j]
             /\ \A j \in paused \ paused' : resumes' = resumes + 1
  <2>1. /\ PerformanceInv' /\ paused \subseteq paused'
        /\ \A j \in DOMAIN hwm : j \in DOMAIN hwm' /\ hwm'[j] >= hwm[j]
    BY <1>3, SellKeeps
  <2>2. QED
    BY <2>1
<1>4. ASSUME NEW k \in Strategies, Resume(k)
      PROVE  /\ PerformanceInv'
             /\ \A j \in DOMAIN hwm : j \in DOMAIN hwm' /\ hwm'[j] >= hwm[j]
             /\ \A j \in paused \ paused' : resumes' = resumes + 1
  <2>1. PerformanceInv' /\ UNCHANGED hwm /\ resumes' = resumes + 1
    BY <1>4, ResumeKeeps
  <2>2. QED
    BY <1>1, <2>1
<1>5. ASSUME UNCHANGED performanceVars PROVE PerformanceInv'
  <2>1. UNCHANGED <<lots, pnl, hwm, paused, bought, sold, resumed>>
    BY <1>5 DEF performanceVars
  <2>2. Balances' = Balances
    BY <2>1 DEF Balances
  <2>3. MarksAreHigh' /\ FarBelowIsPaused'
    BY <2>1 DEF PerformanceInv, MarksAreHigh, FarBelowIsPaused
  <2>4. \A s \in Names : OpenIsNewest(lots'[s], bought'[s], sold'[s].qty)
    BY <2>1 DEF PerformanceInv
  <2>5. QED
    BY <2>1, <2>2, <2>3, <2>4 DEF PerformanceInv
<1>6. CASE PerformanceNext
  BY <1>2, <1>3, <1>4, <1>6 DEF PerformanceNext
<1>7. QED
  BY <1>5, <1>6

LEMMA PerformanceIsSound ==
  PerformanceInv => PerformanceTypeOK /\ ProfitIsMatchedOnce /\ FarBelowIsPaused
<1>1. SUFFICES ASSUME PerformanceInv
               PROVE  PerformanceTypeOK /\ ProfitIsMatchedOnce /\ FarBelowIsPaused
  OBVIOUS
<1>2. /\ lots \in [Names -> Seq(Purchase)]
      /\ \A s \in Names : OpenIsNewest(lots[s], bought[s], sold[s].qty)
      /\ SumOver(Strategies, pnl) = SumOver(Names, Balances)
      /\ MarksAreHigh /\ FarBelowIsPaused
  BY <1>1 DEF PerformanceInv
<1>3. \A s \in Names : \A i \in DOMAIN lots[s] : lots[s][i].qty > 0
  <2>1. SUFFICES ASSUME NEW s \in Names, NEW i \in DOMAIN lots[s] PROVE lots[s][i].qty > 0
    OBVIOUS
  <2>2. PICK l : l = lots[s] /\ l \in Seq(Purchase)
    BY <1>2
  <2>3. l[i] \in Purchase
    BY <2>1, <2>2
  <2>4. QED
    BY <2>2, <2>3 DEF Purchase
<1>4. PerformanceTypeOK
  BY <1>2, <1>3 DEF PerformanceTypeOK, MarksAreHigh
<1>5. ProfitIsMatchedOnce
  <2>1. AddUp(Strategies, pnl) = SumOver(Strategies, pnl) /\ AddUp(Names, Balances) = SumOver(Names, Balances)
    BY AddUpIsASum
  <2>2. AddUp(Strategies, pnl)
          = AddUp(Names, [s \in Names |-> sold[s].money - Cost(bought[s]) + Cost(lots[s])])
    BY <1>2, <2>1 DEF Balances
  <2>3. \A s \in Names :
          /\ SharesIn(lots[s]) = SharesIn(bought[s]) - sold[s].qty
          /\ \A i \in DOMAIN lots[s] :
               i > 1 => lots[s][i] = bought[s][Len(bought[s]) - Len(lots[s]) + i]
    BY <1>2 DEF OpenIsNewest
  <2>4. QED
    BY <2>2, <2>3 DEF ProfitIsMatchedOnce
<1>6. QED
  BY <1>2, <1>4, <1>5

(* All profit is matched to purchases once, oldest first, and a strategy far *)
(* below its best is paused until it is resumed, for every number of         *)
(* strategies, symbols and fills: PerformanceTracker and the tracker of      *)
(* drawdowns that is told what it counts.                                    *)
THEOREM LosersArePausedForGood == PerformanceSpec => LosersStayPaused
<1>1. PerformanceSpec => []PerformanceInv
  <2>1. PerformanceInv /\ [PerformanceNext]_performanceVars => PerformanceInv'
    BY PerformanceInvNext
  <2>2. QED
    BY PerformanceInvInit, <2>1, PTL DEF PerformanceSpec
<1>2. PerformanceSpec => [](PerformanceTypeOK /\ ProfitIsMatchedOnce /\ FarBelowIsPaused)
  BY <1>1, PerformanceIsSound, PTL
<1>3. PerformanceSpec => OnlyResumeEndsAPause
  <2>1. PerformanceInv /\ [PerformanceNext]_performanceVars
          => [/\ \A k \in DOMAIN hwm : k \in DOMAIN hwm' /\ hwm'[k] >= hwm[k]
              /\ \A k \in paused \ paused' : resumes' = resumes + 1]_performanceVars
    BY PerformanceInvNext
  <2>2. QED
    BY <1>1, <2>1, PTL DEF PerformanceSpec, OnlyResumeEndsAPause
<1>4. QED
  BY <1>2, <1>3 DEF LosersStayPaused

-----------------------------------------------------------------------------
(***************************************************************************)
(* Drift: sums of squares.                                                 *)
(***************************************************************************)
(* The square of a sum is at most the number of terms times the sum of their *)
(* squares: one more term.                                                   *)
LEMMA OneMoreSquare ==
  ASSUME NEW k \in Nat, NEW s \in Int, NEW q \in Nat, NEW y \in Int, s * s <= k * q
  PROVE  (s + y) * (s + y) <= (k + 1) * (q + y * y)
<1>1. PICK a \in Int, b \in Int, c \in Int, d \in Int, e \in Int :
        a = s * s /\ b = s * y /\ c = y * y /\ d = k * q /\ e = k * (y * y)
  OBVIOUS
<1>2. (s + y) * (s + y) = a + 2 * b + c
  BY <1>1
<1>3. (k + 1) * (q + y * y) = d + q + e + c
  BY <1>1
<1>4. c >= 0 /\ a >= 0
  BY <1>1
<1>5. 2 * b <= q + e
  <2>1. CASE k = 0
    <3>1. a = 0 /\ e = 0
      BY <1>1, <1>4, <2>1
    <3>2. s = 0
      BY <1>1, <3>1
    <3>3. b = 0
      BY <1>1, <3>2
    <3>4. QED
      BY <3>1, <3>3
  <2>2. CASE k > 0
    <3>1. PICK t \in Int : t = q + e - 2 * b
      OBVIOUS
    <3>2. k * t = d + k * e - 2 * (k * b)
      BY <1>1, <3>1
    <3>3. (s - k * y) * (s - k * y) = a - 2 * (k * b) + k * e
      BY <1>1
    <3>4. (s - k * y) * (s - k * y) >= 0
      <4>1. PICK w \in Int : w = s - k * y
        OBVIOUS
      <4>2. w * w >= 0
        OBVIOUS
      <4>3. QED
        BY <4>1, <4>2
    <3>5. PICK x \in Int, z \in Int : x = k * e /\ z = k * b
      BY <1>1
    <3>6. k * t >= 0
      BY <1>1, <3>2, <3>3, <3>4, <3>5
    <3>7. t >= 0
      BY <2>2, <3>6
    <3>8. QED
      BY <3>1, <3>7
  <2>3. QED
    BY <2>1, <2>2
<1>6. a <= d
  BY <1>1
<1>7. QED
  BY <1>1, <1>2, <1>3, <1>5, <1>6

LEMMA SquareOfASum ==
  ASSUME NEW S, IsFiniteSet(S), NEW f, NEW g,
         \A x \in S : f[x] \in Int /\ g[x] = f[x] * f[x]
  PROVE  /\ SumOver(S, f) \in Int /\ SumOver(S, g) \in Nat /\ Cardinality(S) \in Nat
         /\ SumOver(S, f) * SumOver(S, f) <= Cardinality(S) * SumOver(S, g)
<1>0. \A x \in S : f[x] \in Int /\ g[x] \in Nat
  <2>1. SUFFICES ASSUME NEW x \in S PROVE g[x] \in Nat
    OBVIOUS
  <2>2. PICK u \in Int : u = f[x]
    OBVIOUS
  <2>3. u * u \in Nat
    OBVIOUS
  <2>4. QED
    BY <2>2, <2>3
<1>1. PICK B : B = {T \in SUBSET S :
               ~(SumOver(T, f) * SumOver(T, f) <= Cardinality(T) * SumOver(T, g))}
  OBVIOUS
<1>2. ASSUME B # {} PROVE FALSE
  <2>2. PICK T \in B : \A U \in SUBSET T : U # T => U \notin B
    <3>1. B \subseteq SUBSET S
      BY <1>1
    <3>2. QED
      BY <1>2, <3>1, LeastSubset
  <2>3. T \in SUBSET S /\ IsFiniteSet(T)
    BY <1>1, FS_Subset
  <2>4. T # {}
    <3>1. SUFFICES ASSUME T = {} PROVE FALSE
      OBVIOUS
    <3>2. SumOver(T, f) = 0 /\ SumOver(T, g) = 0 /\ Cardinality(T) = 0
      BY <3>1, SumOfNothing, FS_EmptySet
    <3>3. ~(SumOver(T, f) * SumOver(T, f) <= Cardinality(T) * SumOver(T, g))
      BY <1>1, <2>2
    <3>4. QED
      BY <3>2, <3>3
  <2>5. PICK p : p = First(T)
    OBVIOUS
  <2>6. PICK U : U = T \ {p}
    OBVIOUS
  <2>7. p \in T /\ U \in SUBSET T /\ U # T /\ U \in SUBSET S /\ IsFiniteSet(U)
    BY <2>3, <2>4, <2>5, <2>6, FirstIsIn, FS_Subset
  <2>8. SumOver(U, f) * SumOver(U, f) <= Cardinality(U) * SumOver(U, g)
    BY <1>1, <2>2, <2>7
  <2>9. PICK s \in Int, q \in Nat, k \in Nat :
          s = SumOver(U, f) /\ q = SumOver(U, g) /\ k = Cardinality(U)
    <3>1. SumOver(U, f) \in Int
      BY <1>0, <2>7, SumIsANumber
    <3>2. SumOver(U, g) \in Nat
      BY <1>0, <2>7, SumIsNatural
    <3>3. QED
      BY <2>7, <3>1, <3>2, FS_CardinalityType
  <2>10. SumOver(T, f) = f[p] + s /\ SumOver(T, g) = g[p] + q
    BY <2>3, <2>4, <2>5, <2>6, <2>9, SumStep
  <2>11. Cardinality(T) = k + 1
    <3>1. Cardinality(U) = Cardinality(T) - 1 /\ Cardinality(T) \in Nat
      BY <2>3, <2>6, <2>7, FS_RemoveElement, FS_CardinalityType
    <3>2. QED
      BY <2>9, <3>1
  <2>12. PICK y \in Int : y = f[p] /\ g[p] = y * y
    BY <2>3, <2>7
  <2>13. (s + y) * (s + y) <= (k + 1) * (q + y * y)
    BY <2>8, <2>9, OneMoreSquare
  <2>14. SumOver(T, f) = s + y /\ SumOver(T, g) = q + y * y
    <3>1. PICK z \in Int : z = y * y
      OBVIOUS
    <3>2. QED
      BY <2>10, <2>12, <3>1
  <2>15. SumOver(T, f) * SumOver(T, f) <= Cardinality(T) * SumOver(T, g)
    BY <2>11, <2>13, <2>14
  <2>16. QED
    BY <1>1, <2>2, <2>15
<1>3. SumOver(S, f) \in Int
  BY SumIsANumber
<1>4. SumOver(S, g) \in Nat
  BY <1>0, SumIsNatural
<1>5. S \notin B
  BY <1>2
<1>6. QED
  BY <1>1, <1>3, <1>4, <1>5, FS_CardinalityType

(* One of n numbers with the sum s and the sum of squares q is near the mean: *)
(* n times its distance from it, squared, is at most n - 1 times the spread.  *)
LEMMA NearTheMean ==
  ASSUME NEW n \in Nat, n > 0, NEW s \in Int, NEW q \in Int, NEW y \in Int,
         (s - y) * (s - y) <= (n - 1) * (q - y * y)
  PROVE  (n * y - s) * (n * y - s) <= (n - 1) * (n * q - s * s)
<1>1. PICK a \in Int, b \in Int, c \in Int, e \in Int, g \in Int :
        a = s * s /\ b = s * y /\ c = y * y /\ e = n * q /\ g = n * c
  OBVIOUS
<1>2. (s - y) * (s - y) = a - 2 * b + c
  BY <1>1
<1>3. (n - 1) * (q - y * y) = e - g - q + c
  BY <1>1
<1>4. PICK t \in Int : t = a - 2 * b + g - e + q /\ t <= 0
  BY <1>1, <1>2, <1>3
<1>5. n * t <= 0
  BY <1>4
<1>6. PICK u \in Int, w \in Int, x \in Int, z \in Int, r \in Int :
        u = n * a /\ w = n * b /\ x = n * g /\ z = n * e /\ r = n * q
  BY <1>1
<1>7. n * t = u - 2 * w + x - z + r
  BY <1>4, <1>6
<1>8. (n * y - s) * (n * y - s) = x - 2 * w + a
  BY <1>1, <1>6
<1>9. (n - 1) * (n * q - s * s) = z - u - r + a
  BY <1>1, <1>6
<1>10. QED
  BY <1>5, <1>7, <1>8, <1>9, <1>1, <1>6

(* With at most eight numbers nothing so near is five halves of a deviation   *)
(* away.                                                                     *)
LEMMA NearIsNotFar ==
  ASSUME NEW n \in 1..8, NEW d \in Int, d # 0, NEW spread \in Int, NEW z \in Nat, z >= 5,
         d * d <= (n - 1) * spread
  PROVE  ~(4 * d * d * (n - 1) >= z * z * n * spread)
<1>1. PICK dd \in Int : dd = d * d /\ dd > 0
  OBVIOUS
<1>2. PICK w \in Int : w = z * z /\ w >= 25
  <2>1. z * z >= 5 * 5
    <3>1. z * z >= 5 * z
      OBVIOUS
    <3>2. QED
      BY <3>1
  <2>2. QED
    BY <2>1
<1>3. spread > 0 /\ n > 1
  BY <1>1
<1>4. 4 * d * d * (n - 1) = 4 * (n - 1) * dd
  BY <1>1
<1>5. PICK m \in Int : m = n * spread /\ m > 0
  BY <1>3
<1>6. z * z * n * spread = w * m
  BY <1>2, <1>5
<1>7. w * m >= 25 * m
  BY <1>2, <1>5
<1>8. 4 * (n - 1) * dd < 25 * (n * spread)
  <2>1. CASE n = 2
    BY <1>1, <1>3, <2>1
  <2>2. CASE n = 3
    BY <1>1, <1>3, <2>2
  <2>3. CASE n = 4
    BY <1>1, <1>3, <2>3
  <2>4. CASE n = 5
    BY <1>1, <1>3, <2>4
  <2>5. CASE n = 6
    BY <1>1, <1>3, <2>5
  <2>6. CASE n = 7
    BY <1>1, <1>3, <2>6
  <2>7. CASE n = 8
    BY <1>1, <1>3, <2>7
  <2>8. QED
    BY <1>3, <2>1, <2>2, <2>3, <2>4, <2>5, <2>6, <2>7
<1>9. QED
  BY <1>4, <1>5, <1>6, <1>7, <1>8

(* The numbers a score is made of.                                           *)
Squares(v) == [k \in 1..Len(v) |-> v[k] * v[k]]
Deviation(x, v) == Len(v) * x - SumOf(v)
Spread(v) == Len(v) * SumOf(Squares(v)) - SumOf(v) * SumOf(v)

LEMMA FarIsAScore ==
  ASSUME NEW x, NEW v, NEW z
  PROVE  Far(x, v, z) <=>
           /\ Deviation(x, v) # 0
           /\ 4 * Deviation(x, v) * Deviation(x, v) * (Len(v) - 1)
                >= z * z * Len(v) * Spread(v)
  BY DEF Far, Deviation, Spread, Squares

LEMMA Moments ==
  ASSUME NEW n \in Nat, NEW v, v \in [1..n -> Int]
  PROVE  /\ Len(v) = n /\ SumOf(v) = SumOver(1..n, v) /\ SumOf(v) \in Int
         /\ Squares(v) \in [1..n -> Nat] /\ \A i \in 1..n : Squares(v)[i] = v[i] * v[i]
         /\ SumOf(Squares(v)) = SumOver(1..n, Squares(v)) /\ SumOf(Squares(v)) \in Nat
<1>1. Len(v) = n /\ DOMAIN v = 1..n /\ \A i \in 1..n : v[i] \in Int
  OBVIOUS
<1>2. PICK N : N = 1..n /\ IsFiniteSet(N)
  BY FS_Interval
<1>3. PICK g : g = Squares(v)
  OBVIOUS
<1>4. g = [k \in 1..n |-> v[k] * v[k]]
  BY <1>1, <1>3 DEF Squares
<1>5. \A i \in 1..n : g[i] = v[i] * v[i] /\ g[i] \in Nat
  <2>1. SUFFICES ASSUME NEW i \in 1..n PROVE g[i] = v[i] * v[i] /\ g[i] \in Nat
    OBVIOUS
  <2>2. PICK u \in Int : u = v[i]
    BY <1>1
  <2>3. u * u \in Nat
    OBVIOUS
  <2>4. QED
    BY <1>4, <2>2, <2>3
<1>6. DOMAIN g = 1..n /\ g \in [1..n -> Nat]
  BY <1>4, <1>5
<1>7. Sum(v) = SumOver(1..n, v)
  BY <1>1, SumOfASequence
<1>8. Sum(g) = SumOver(1..n, g)
  <2>1. \A i \in 1..n : g[i] \in Int
    BY <1>5
  <2>2. QED
    BY <1>6, <2>1, SumOfASequence
<1>9. SumOf(v) = Sum(v) /\ SumOf(g) = Sum(g)
  BY DEF SumOf, Sum
<1>10. SumOver(N, v) \in Int
  BY <1>1, <1>2, SumIsANumber
<1>11. SumOver(N, g) \in Nat
  BY <1>2, <1>5, SumIsNatural
<1>12. QED
  BY <1>1, <1>2, <1>3, <1>5, <1>6, <1>7, <1>8, <1>9, <1>10, <1>11

LEMMA EachIsNearTheMean ==
  ASSUME NEW n \in Nat, NEW v, v \in [1..n -> Int], NEW j \in 1..n
  PROVE  /\ Spread(v) \in Int /\ Deviation(v[j], v) \in Int
         /\ Deviation(v[j], v) * Deviation(v[j], v) <= (n - 1) * Spread(v)
<1>1. PICK N, f, g : N = 1..n /\ f = v /\ g = Squares(v)
  OBVIOUS
<1>2. PICK s \in Int, q \in Int, y \in Int :
        s = SumOf(v) /\ q = SumOf(Squares(v)) /\ y = v[j]
  BY Moments
<1>3. /\ Len(v) = n /\ SumOver(N, f) = s /\ SumOver(N, g) = q
      /\ \A i \in N : f[i] \in Int /\ g[i] = f[i] * f[i] /\ g[i] \in Int
  <2>1. \A i \in 1..n : Squares(v)[i] \in Nat /\ v[i] \in Int
    BY Moments
  <2>2. QED
    BY <1>1, <1>2, <2>1, Moments
<1>4. IsFiniteSet(N) /\ Cardinality(N) = n /\ j \in N
  BY <1>1, FS_Interval
<1>5. PICK T : T = N \ {j}
  OBVIOUS
<1>6. IsFiniteSet(T) /\ Cardinality(T) = n - 1
  BY <1>4, <1>5, FS_RemoveElement
<1>7. s = y + SumOver(T, f) /\ q = y * y + SumOver(T, g)
  <2>1. SumOver(N, f) = f[j] + SumOver(N \ {j}, f)
    BY <1>3, <1>4, SumWithout
  <2>2. SumOver(N, g) = g[j] + SumOver(N \ {j}, g)
    BY <1>3, <1>4, SumWithout
  <2>3. f[j] = y /\ g[j] = y * y
    BY <1>1, <1>2, <1>3, <1>4
  <2>4. QED
    BY <1>3, <1>5, <2>1, <2>2, <2>3
<1>8. \A x \in T : f[x] \in Int /\ g[x] = f[x] * f[x]
  BY <1>3, <1>5
<1>9. PICK a \in Int, b \in Int : /\ a = SumOver(T, f) /\ b = SumOver(T, g)
                                  /\ a * a <= (n - 1) * b
  <2>1. /\ SumOver(T, f) \in Int /\ SumOver(T, g) \in Nat
        /\ SumOver(T, f) * SumOver(T, f) <= Cardinality(T) * SumOver(T, g)
    BY <1>6, <1>8, SquareOfASum
  <2>2. QED
    BY <1>6, <2>1
<1>10. s - y = a /\ q - y * y = b
  <2>1. PICK w \in Int : w = y * y
    OBVIOUS
  <2>2. QED
    BY <1>7, <1>9, <2>1
<1>11. (n * y - s) * (n * y - s) <= (n - 1) * (n * q - s * s)
  BY <1>9, <1>10, NearTheMean
<1>12. Deviation(v[j], v) = n * y - s /\ Spread(v) = n * q - s * s
  BY <1>2, <1>3 DEF Deviation, Spread
<1>13. n * y - s \in Int /\ n * q - s * s \in Int
  OBVIOUS
<1>14. QED
  BY <1>11, <1>12, <1>13

(* A reading between two others is not far from them, if they are few.       *)
LEMMA InsideIsNotFar ==
  ASSUME NEW n \in 1..8, NEW v, v \in [1..n -> Int], NEW x \in Int, NEW z \in Nat, z >= 5,
         NEW j \in 1..n,
         \/ Deviation(x, v) > 0 /\ v[j] >= x
         \/ Deviation(x, v) < 0 /\ v[j] <= x
  PROVE  ~Far(x, v, z)
<1>0. n \in Nat /\ n > 0
  OBVIOUS
<1>1. PICK d \in Int, e \in Int, p \in Int :
        /\ d = Deviation(x, v) /\ e = Deviation(v[j], v) /\ p = Spread(v)
        /\ e * e <= (n - 1) * p /\ Len(v) = n
        /\ d # 0 /\ ((d > 0 /\ e >= d) \/ (d < 0 /\ e <= d))
  <2>1. /\ Spread(v) \in Int /\ Deviation(v[j], v) \in Int
        /\ Deviation(v[j], v) * Deviation(v[j], v) <= (n - 1) * Spread(v)
    BY <1>0, EachIsNearTheMean
  <2>2. PICK s \in Int, y \in Int : s = SumOf(v) /\ y = v[j] /\ Len(v) = n
    BY <1>0, Moments
  <2>3. PICK a \in Int, b \in Int : a = n * x /\ b = n * y /\ (y >= x => b >= a) /\ (y <= x => b <= a)
    OBVIOUS
  <2>4. Deviation(x, v) = a - s /\ Deviation(v[j], v) = b - s
    BY <2>2, <2>3 DEF Deviation
  <2>5. QED
    <3>1. PICK d \in Int, e \in Int, p \in Int :
            d = a - s /\ e = b - s /\ p = Spread(v)
      BY <2>1
    <3>2. e * e <= (n - 1) * p
      BY <2>1, <2>4, <3>1
    <3>3. d # 0 /\ ((d > 0 /\ e >= d) \/ (d < 0 /\ e <= d))
      <4>1. CASE Deviation(x, v) > 0 /\ v[j] >= x
        <5>1. y >= x
          BY <2>2, <4>1
        <5>2. b >= a
          BY <2>3, <5>1
        <5>3. d > 0
          BY <2>4, <3>1, <4>1
        <5>4. QED
          BY <3>1, <5>2, <5>3
      <4>2. CASE Deviation(x, v) < 0 /\ v[j] <= x
        <5>1. y <= x
          BY <2>2, <4>2
        <5>2. b <= a
          BY <2>3, <5>1
        <5>3. d < 0
          BY <2>4, <3>1, <4>2
        <5>4. QED
          BY <3>1, <5>2, <5>3
      <4>3. QED
        BY <4>1, <4>2
    <3>4. QED
      BY <2>2, <2>4, <3>1, <3>2, <3>3
<1>2. d * d <= (n - 1) * p
  <2>1. e * e >= d * d
    <3>1. CASE d > 0 /\ e >= d
      BY <3>1
    <3>2. CASE d < 0 /\ e <= d
      BY <3>2
    <3>3. QED
      BY <1>1, <3>1, <3>2
  <2>2. PICK u \in Int, w \in Int, r \in Int : u = d * d /\ w = e * e /\ r = (n - 1) * p
    OBVIOUS
  <2>3. QED
    BY <1>1, <2>1, <2>2
<1>3. ~(4 * d * d * (n - 1) >= z * z * n * p)
  BY <1>1, <1>2, NearIsNotFar
<1>4. QED
  BY <1>1, <1>3, FarIsAScore

-----------------------------------------------------------------------------
(***************************************************************************)
(* Readings of what may be judged are numbers, and a baseline is a         *)
(* sequence of readings.                                                   *)
(***************************************************************************)
Returns == {-1, 1}
Judgeable(r) == \E n \in 2..LiveWindow : r \in [1..n -> Returns]

LEMMA CountUpTo ==
  ASSUME NEW n \in Nat, NEW T, T \subseteq 1..n
  PROVE  Cardinality(T) \in 0..n
<1>1. PICK N : N = 1..n /\ IsFiniteSet(N) /\ Cardinality(N) = n
  BY FS_Interval
<1>2. Cardinality(T) <= Cardinality(N) /\ Cardinality(T) \in Nat
  BY <1>1, FS_Subset, FS_CardinalityType
<1>3. QED
  BY <1>1, <1>2

LEMMA GreatestExists ==
  ASSUME NEW b \in Int, NEW S, S \subseteq Int, \A y \in S : y <= b, S # {}
  PROVE  Max(S) \in S /\ \A y \in S : Max(S) >= y
<1>1. PICK D : D = {m \in Nat : b - m \in S}
  OBVIOUS
<1>2. D # {}
  <2>1. PICK y \in S : y \in Int /\ y <= b
    OBVIOUS
  <2>2. PICK m \in Nat : m = b - y /\ b - m = y
    BY <2>1
  <2>3. QED
    BY <1>1, <2>1, <2>2
<1>3. PICK m \in D : \A k \in D : m <= k
  BY <1>1, <1>2, LeastNatural
<1>4. PICK x \in S : x = b - m /\ x \in Int /\ m \in Nat
  BY <1>1, <1>3
<1>5. ASSUME NEW y \in S PROVE x >= y
  <2>1. PICK k \in Nat : k = b - y /\ b - k = y
    OBVIOUS
  <2>2. m <= k
    BY <1>1, <1>3, <2>1
  <2>3. QED
    BY <1>4, <2>1, <2>2
<1>6. Max(S) = x
  BY <1>5, GreatestOfASet
<1>7. QED
  BY <1>5, <1>6

LEMMA DriftSizes ==
  /\ LiveWindow \in Nat /\ LiveWindow >= 2 /\ Stride \in Nat /\ Stride > 0
  /\ MinLive \in Nat /\ MinLive >= 10
<1>1. LiveWindow \in Nat /\ LiveWindow >= 2
  BY DriftAssumption
<1>2. PICK a \in Nat : a = LiveWindow \div 5
  BY <1>1
<1>3. Max({a, 1}) = IF a >= 1 THEN a ELSE 1
  BY MaxOfTwoNumbers
<1>4. Max({10, a}) = IF 10 >= a THEN 10 ELSE a
  BY MaxOfTwoNumbers
<1>5. Stride \in Nat /\ Stride > 0
  BY <1>2, <1>3 DEF Stride
<1>6. MinLive \in Nat /\ MinLive >= 10
  BY <1>2, <1>4 DEF MinLive
<1> QED
  BY <1>1, <1>5, <1>6

LEMMA WinsAreCounted ==
  ASSUME NEW r, Judgeable(r)
  PROVE  /\ Len(r) \in 2..LiveWindow /\ Wins(r) \in 0..Len(r) /\ DOMAIN r = 1..Len(r)
<1>1. PICK n \in 2..LiveWindow : r \in [1..n -> Returns]
  BY DEF Judgeable
<1>2. n \in Nat /\ DOMAIN r = 1..n
  BY <1>1, DriftSizes
<1>3. r \in Seq(Returns) /\ Len(r) = n
  BY <1>1, <1>2
<1>4. {k \in DOMAIN r : r[k] > 0} \subseteq 1..n
  BY <1>2
<1> QED
  BY <1>2, <1>3, <1>4, CountUpTo DEF Wins

(* A drawdown of k halvings, which are as many as the returns at most.       *)
Sunk(k) == 1024 - 1024 \div 2^k

LEMMA SunkIsANumber ==
  ASSUME NEW k \in 0..LiveWindow
  PROVE  Sunk(k) \in Int
<1>1. PICK p \in Nat : p = 2^k /\ p > 0
  BY PowersAreNumbers
<1>2. 1024 \div p \in Int
  BY <1>1
<1> QED
  BY <1>1, <1>2 DEF Sunk

LEMMA DrawdownIsANumber ==
  ASSUME NEW r, Judgeable(r)
  PROVE  MaxDrawdown(r) \in Int
<1>1. PICK n \in Nat : n = Len(r) /\ n >= 2 /\ n <= LiveWindow
  BY WinsAreCounted, DriftSizes
<1>2. PICK S : S = {Halvings(r, x[1], x[2]) : x \in (1..n) \X (0..n)}
  OBVIOUS
<1>3. \A i \in 1..n, j \in 0..n : Halvings(r, i, j) \in Int /\ Halvings(r, i, j) <= n
  <2>1. SUFFICES ASSUME NEW i \in 1..n, NEW j \in 0..n
                 PROVE  Halvings(r, i, j) \in Int /\ Halvings(r, i, j) <= n
    OBVIOUS
  <2>2. n \in Nat /\ i..j \subseteq 1..n
    OBVIOUS
  <2>3. Cardinality({k \in i..j : r[k] < 0}) \in 0..n
    BY <2>2, CountUpTo
  <2>4. Cardinality({k \in i..j : r[k] > 0}) \in 0..n
    BY <2>2, CountUpTo
  <2>5. QED
    BY <2>3, <2>4 DEF Halvings
<1>4. S \subseteq Int /\ \A y \in S : y <= n
  <2>1. SUFFICES ASSUME NEW y \in S PROVE y \in Int /\ y <= n
    OBVIOUS
  <2>2. PICK i \in 1..n, j \in 0..n : y = Halvings(r, i, j)
    BY <1>2
  <2>3. QED
    BY <1>3, <2>2
<1>5. 0 \in S
  <2>1. 1..0 = {}
    OBVIOUS
  <2>2. {k \in 1..0 : r[k] < 0} = {} /\ {k \in 1..0 : r[k] > 0} = {}
    BY <2>1
  <2>3. Halvings(r, 1, 0) = 0
    BY <2>2, FS_EmptySet DEF Halvings
  <2>4. <<1, 0>> \in (1..n) \X (0..n)
    BY <1>1
  <2>5. QED
    BY <1>2, <2>3, <2>4
<1>6. PICK fall : fall = Max(S)
  OBVIOUS
<1>7. fall \in 0..LiveWindow
  <2>1. Max(S) \in S /\ \A y \in S : Max(S) >= y
    <3>1. n \in Int /\ S # {}
      BY <1>1, <1>5
    <3>2. QED
      BY <1>4, <3>1, GreatestExists
  <2>2. fall \in Int /\ fall <= n /\ fall >= 0
    BY <1>4, <1>5, <1>6, <2>1
  <2>3. QED
    BY <1>1, <2>2, DriftSizes
<1>8. MaxDrawdown(r) = Sunk(fall)
  BY <1>1, <1>2, <1>6 DEF MaxDrawdown, Sunk
<1>9. QED
  BY <1>7, <1>8, SunkIsANumber

(* The root of a number, and the bound of a variance of n ones and others.   *)
LEMMA RootExists ==
  ASSUME NEW b \in Nat, NEW q \in Nat, q < (b + 1) * (b + 1)
  PROVE  \E x \in 0..b : x * x <= q /\ q < (x + 1) * (x + 1)
<1>1. PICK T : T = {x \in Nat : q < (x + 1) * (x + 1)}
  OBVIOUS
<1>2. b \in T
  BY <1>1
<1>3. PICK x \in T : \A y \in T : x <= y
  BY <1>1, <1>2, LeastNatural
<1>4. x \in 0..b /\ q < (x + 1) * (x + 1)
  BY <1>1, <1>2, <1>3
<1>5. x * x <= q
  <2>1. CASE x = 0
    BY <2>1
  <2>2. CASE x > 0
    <3>1. PICK y \in Nat : y = x - 1 /\ y + 1 = x
      BY <1>4, <2>2
    <3>2. y \notin T
      BY <1>3, <1>4, <3>1
    <3>3. ~(q < x * x)
      BY <1>1, <3>1, <3>2
    <3>4. PICK w \in Int : w = x * x
      BY <1>4
    <3>5. QED
      BY <3>3, <3>4
  <2>3. QED
    BY <1>4, <2>1, <2>2
<1>6. QED
  BY <1>4, <1>5

LEMMA VarianceIsBounded ==
  ASSUME NEW c \in Nat, NEW n \in Nat, n >= 2, NEW w \in 0..n
  PROVE  /\ (c * w * (n - w)) \div (n * (n - 1)) \in Nat
         /\ (c * w * (n - w)) \div (n * (n - 1)) <= c
<1>1. PICK m \in Int : m = n * (n - 1) /\ m >= 2
  <2>1. n * (n - 1) >= 2
    <3>1. n * (n - 1) >= 2 * (n - 1)
      OBVIOUS
    <3>2. QED
      BY <3>1
  <2>2. QED
    BY <2>1
<1>2. PICK p \in Nat : p = w * (n - w) /\ p <= m
  <2>1. w * (n - w) >= 0
    OBVIOUS
  <2>2. w * (n - w) <= n * (n - 1)
    <3>1. CASE w = 0 \/ w = n
      BY <1>1, <3>1
    <3>2. CASE w \in 1..(n - 1)
      <4>1. w * (n - w) <= w * (n - 1)
        BY <3>2
      <4>2. w * (n - 1) <= n * (n - 1)
        BY <3>2
      <4>3. QED
        BY <4>1, <4>2
    <3>3. QED
      BY <3>1, <3>2
  <2>3. QED
    BY <1>1, <2>1, <2>2
<1>3. PICK a \in Nat : a = c * w * (n - w) /\ a = c * p /\ a <= c * m
  <2>1. c * w * (n - w) = c * (w * (n - w))
    OBVIOUS
  <2>2. QED
    BY <1>2, <2>1
<1>4. PICK q \in Nat : q = a \div m /\ m * q <= a
  BY <1>1, <1>3
<1>5. q <= c
  <2>1. SUFFICES ASSUME q > c PROVE FALSE
    OBVIOUS
  <2>2. m * q >= m * (c + 1)
    BY <1>1, <2>1
  <2>3. QED
    BY <1>1, <1>3, <1>4, <2>2
<1>6. QED
  BY <1>1, <1>3, <1>4, <1>5

LEMMA RootIsANumber ==
  ASSUME NEW b \in Nat, NEW q \in Nat, q < (b + 1) * (b + 1)
  PROVE  Root(q, b) \in Int
<1>1. \E x \in 0..b : x * x <= q /\ q < (x + 1) * (x + 1)
  BY RootExists
<1>2. Root(q, b) \in 0..b
  BY <1>1, Zenon DEF Root
<1>3. QED
  BY <1>2

LEMMA VarianceIsANumber ==
  ASSUME NEW n \in Nat, n >= 2, NEW w \in 0..n
  PROVE  VarianceOf(n, w) \in Nat /\ VarianceOf(n, w) < (1500 + 1) * (1500 + 1)
<1>1. PICK c \in Nat : c = 2250000 /\ c < (1500 + 1) * (1500 + 1)
  BY SMT
<1>2. VarianceOf(n, w) = (c * w * (n - w)) \div (n * (n - 1))
  BY <1>1, SMT DEF VarianceOf
<1>3. (c * w * (n - w)) \div (n * (n - 1)) \in Nat /\ (c * w * (n - w)) \div (n * (n - 1)) <= c
  BY VarianceIsBounded
<1>4. PICK q \in Nat : q = (c * w * (n - w)) \div (n * (n - 1)) /\ q <= c
  BY <1>3
<1> QED
  BY <1>1, <1>2, <1>4, SMT

LEMMA StdevIsANumber ==
  ASSUME NEW n \in 2..LiveWindow, NEW w \in 0..n
  PROVE  Stdev[n][w] \in Int
<1>1. PICK b \in Nat : b = 1500
  BY SMT
<1>2. Stdev[n][w] = Root(VarianceOf(n, w), b)
  BY <1>1, SMT DEF Stdev
<1>3. n \in Nat /\ n >= 2
  BY DriftSizes
<1>4. VarianceOf(n, w) \in Nat /\ VarianceOf(n, w) < (b + 1) * (b + 1)
  BY <1>1, <1>3, VarianceIsANumber, SMT
<1> QED
  BY <1>2, <1>4, RootIsANumber

LEMMA ReadingIsANumber ==
  ASSUME NEW m \in Metrics, NEW r, Judgeable(r)
  PROVE  Reading(m, r) \in Int
<1>1. PICK n \in 2..LiveWindow : n = Len(r)
  BY WinsAreCounted
<1>2. PICK w \in 0..n : w = Wins(r)
  BY <1>1, WinsAreCounted
<1>3. m \in {"win_rate", "drawdown", "variance"} /\ n \in Nat /\ n >= 2
  BY DriftSizes DEF Metrics
<1>4. CASE m = "win_rate"
  <2>1. Max({n, 1}) = n
    <3>1. n \in Int /\ Max({n, 1}) = IF n >= 1 THEN n ELSE 1
      BY <1>3, MaxOfTwoNumbers
    <3>2. QED
      BY <1>3, <3>1
  <2>2. Reading(m, r) = (1000 * w) \div n
    BY <1>1, <1>2, <1>4, <2>1, SMT DEF Reading
  <2>3. (1000 * w) \div n \in Int
    BY <1>3, SMT
  <2>4. QED
    BY <2>2, <2>3, SMT
<1>5. CASE m = "drawdown"
  <2>1. Reading(m, r) = MaxDrawdown(r)
    BY <1>5, SMT DEF Reading
  <2>2. QED
    BY <2>1, DrawdownIsANumber
<1>6. CASE m = "variance"
  <2>1. Reading(m, r) = Stdev[n][w]
    BY <1>1, <1>2, <1>3, <1>6, SMT DEF Reading
  <2>2. QED
    BY <2>1, StdevIsANumber
<1>7. QED
  BY <1>3, <1>4, <1>5, <1>6

LEMMA PartOfAHistory ==
  ASSUME NEW h \in Seq(Returns), NEW a \in Nat, a + LiveWindow <= Len(h)
  PROVE  Judgeable(SubSeq(h, a + 1, a + LiveWindow))
<1>1. PICK n \in Nat : n = LiveWindow /\ n >= 2
  BY DriftSizes
<1>2. PICK l \in Nat : l = Len(h) /\ h \in [1..l -> Returns] /\ a + n <= l
  BY <1>1
<1>3. PICK b \in Nat, c \in Nat : b = a + 1 /\ c = a + n /\ b >= 1 /\ c <= l /\ c - b + 1 = n
  BY <1>2
<1>4. PICK g : g = SubSeq(h, b, c) /\ g = [i \in 1..n |-> h[i + b - 1]]
  <2>1. SubSeq(h, b, c) = [i \in 1..(c - b + 1) |-> h[i + b - 1]]
    BY <1>2, <1>3
  <2>2. PICK N : N = 1..n /\ N = 1..(c - b + 1)
    BY <1>3
  <2>3. SubSeq(h, b, c) = [i \in N |-> h[i + b - 1]]
    BY <2>1, <2>2, Zenon
  <2>4. QED
    BY <2>2, <2>3, Zenon
<1>5. \A i \in 1..n : h[i + b - 1] \in Returns
  <2>1. SUFFICES ASSUME NEW i \in 1..n PROVE h[i + b - 1] \in Returns
    OBVIOUS
  <2>2. i + b - 1 \in 1..l
    BY <1>3
  <2>3. QED
    BY <1>2, <2>2
<1>6. g \in [1..n -> Returns]
  BY <1>4, <1>5
<1>7. n \in 2..LiveWindow /\ SubSeq(h, a + 1, a + LiveWindow) = g
  BY <1>1, <1>3, <1>4
<1>8. QED
  BY <1>6, <1>7 DEF Judgeable

(* The windows of a history that is long enough: one at least.               *)
LEMMA BaselineIsRead ==
  ASSUME NEW h \in Histories, Len(h) >= LiveWindow, NEW m \in Metrics
  PROVE  \E n \in Nat : n > 0 /\ Baselines[h][m] \in [1..n -> Int]
<1>1. PICK w \in Nat, d \in Nat : w = LiveWindow /\ w >= 2 /\ d = Stride /\ d > 0
  BY DriftSizes
<1>2. PICK l \in Nat : l = Len(h) /\ h \in Seq(Returns) /\ w <= l
  <2>1. h \in Seq(Returns)
    BY DriftAssumption DEF Returns
  <2>2. Len(h) \in Nat
    BY <2>1
  <2>3. PICK l \in Nat : l = Len(h)
    BY <2>2
  <2>4. w <= l
    BY <1>1, <2>3
  <2>5. QED
    BY <2>1, <2>3, <2>4
<1>3. PICK q \in Nat : q = (l - w) \div d /\ q * d <= l - w
  <2>1. PICK u \in Nat : u = l - w
    <3>1. w <= l
      BY <1>2
    <3>2. l - w \in Nat
      BY ONLY <3>1
    <3>3. QED
      BY <3>2
  <2>2. PICK q \in Nat : q = u \div d /\ d * q <= u
    BY <1>1, <2>1
  <2>3. QED
    BY <2>1, <2>2
<1>4. PICK n \in Nat : n = q + 1 /\ n > 0
  OBVIOUS
<1>5. Baselines[h][m] = Windowed(m, h)
  BY <1>1, <1>2 DEF Baselines
<1>6. Windowed(m, h) = [k \in 1..n |->
        Reading(m, SubSeq(h, (k - 1) * d + 1, (k - 1) * d + w))]
  BY <1>1, <1>2, <1>3, <1>4, SMT DEF Windowed
<1>7. ASSUME NEW k \in 1..n
      PROVE  Reading(m, SubSeq(h, (k - 1) * d + 1, (k - 1) * d + w)) \in Int
  <2>1. PICK a \in Nat : a = (k - 1) * d /\ a <= q * d
    <3>1. PICK j \in Nat : j = k - 1 /\ j <= q
      BY <1>4
    <3>2. j * d <= q * d /\ j * d \in Nat
      BY <3>1
    <3>3. QED
      BY <3>1, <3>2
  <2>2. a + LiveWindow <= Len(h)
    BY <1>1, <1>2, <1>3, <2>1
  <2>3. Judgeable(SubSeq(h, a + 1, a + w))
    BY <1>1, <1>2, <2>2, PartOfAHistory
  <2>4. Reading(m, SubSeq(h, a + 1, a + w)) \in Int
    BY <2>3, ReadingIsANumber
  <2>5. QED
    BY <2>1, <2>4
<1>8. PICK v : v = [k \in 1..n |-> Reading(m, SubSeq(h, (k - 1) * d + 1, (k - 1) * d + w))]
  OBVIOUS
<1>9. v \in [1..n -> Int]
  BY <1>7, <1>8
<1>10. QED
  BY <1>4, <1>5, <1>6, <1>8, <1>9

-----------------------------------------------------------------------------
(***************************************************************************)
(* Alerts are news.                                                        *)
(***************************************************************************)
(* With few values, a reading far from them is outside of them.              *)
LEMMA FewAreLeftBehind ==
  ASSUME NEW n \in 1..8, NEW v, v \in [1..n -> Int], NEW x \in Int, NEW z \in Nat, z >= 5,
         Far(x, v, z)
  PROVE  \/ Len(v) * x > SumOf(v) /\ \A y \in ToSet(v) : x > y
         \/ ~(Len(v) * x > SumOf(v)) /\ \A y \in ToSet(v) : x < y
<1>1. PICK d \in Int, a \in Int, s \in Int :
        a = Len(v) * x /\ s = SumOf(v) /\ d = a - s /\ Deviation(x, v) = d
  <2>1. n \in Nat
    OBVIOUS
  <2>2. PICK s \in Int : s = SumOf(v) /\ Len(v) = n
    BY <2>1, Moments
  <2>3. PICK a \in Int : a = n * x
    OBVIOUS
  <2>4. QED
    BY <2>2, <2>3 DEF Deviation
<1>2. d # 0
  BY <1>1, FarIsAScore
<1>3. DOMAIN v = 1..n /\ \A y \in ToSet(v) : \E j \in 1..n : y = v[j] /\ y \in Int
  BY DEF ToSet
<1>4. CASE d > 0
  <2>1. ASSUME NEW y \in ToSet(v) PROVE x > y
    <3>1. PICK j \in 1..n : y = v[j] /\ y \in Int
      BY <1>3
    <3>2. ~(y >= x)
      BY <1>1, <1>4, <3>1, InsideIsNotFar
    <3>3. QED
      BY <3>1, <3>2
  <2>2. a > s
    BY <1>1, <1>4
  <2>3. QED
    BY <1>1, <2>1, <2>2
<1>5. CASE d < 0
  <2>1. ASSUME NEW y \in ToSet(v) PROVE x < y
    <3>1. PICK j \in 1..n : y = v[j] /\ y \in Int
      BY <1>3
    <3>2. ~(y <= x)
      BY <1>1, <1>5, <3>1, InsideIsNotFar
    <3>3. QED
      BY <3>1, <3>2
  <2>2. ~(a > s)
    BY <1>1, <1>5
  <2>3. QED
    BY <1>1, <2>1, <2>2
<1>6. QED
  BY <1>2, <1>4, <1>5

LEMMA AlertsAreOfMetrics ==
  ASSUME NEW r, NEW h
  PROVE  /\ \A x, y \in DriftAlerts(r, h) : x.metric = y.metric => x = y
         /\ \A y \in DriftAlerts(r, h) :
              y.metric \in Metrics /\ Exceeds(y.metric, Reading(y.metric, r), h, AlertZ)
<1>1. PICK a : a = DriftAlerts(r, h)
  OBVIOUS
<1>2. PICK M : M = {x \in Metrics : Exceeds(x, Reading(x, r), h, AlertZ)}
  OBVIOUS
<1>3. PICK f : f = [m \in M |-> [metric |-> m, critical |-> Exceeds(m, Reading(m, r), h, CriticalZ)]]
  OBVIOUS
<1>4. a = {f[m] : m \in M}
  BY <1>1, <1>2, <1>3, Zenon DEF DriftAlerts
<1>5. \A m \in M : f[m].metric = m
  BY <1>3
<1>6. \A x, y \in a : x.metric = y.metric => x = y
  BY <1>4, <1>5
<1>7. \A y \in a : y.metric \in M
  BY <1>4, <1>5
<1> QED
  BY <1>1, <1>2, <1>6, <1>7

(* What AlertsAreNews says of a metric m of which something is told.         *)
News(r, h, m) ==
  LET base == Baselines[h][m]
      x == Reading(m, r)
  IN Len(base) <= 8 => \/ \A y \in ToSet(base) : x > y
                       \/ m # "drawdown" /\ \A y \in ToSet(base) : x < y

LEMMA AlertsTellNews ==
  ASSUME AlertZ >= 5, NEW h \in Histories, Len(h) >= LiveWindow, NEW r, Judgeable(r),
         NEW m \in Metrics, Exceeds(m, Reading(m, r), h, AlertZ)
  PROVE  News(r, h, m)
<1>0. PICK v : v = Baselines[h][m]
  OBVIOUS
<1>1. PICK n \in Nat : n > 0 /\ v = Baselines[h][m] /\ v \in [1..n -> Int]
  BY <1>0, BaselineIsRead
<1>2. PICK x \in Int : x = Reading(m, r)
  BY ReadingIsANumber
<1>3. AlertZ \in Nat
  BY DriftAssumption
<1>4. Far(x, v, AlertZ) /\ (m = "drawdown" => Len(v) * x > SumOf(v))
  BY <1>1, <1>2 DEF Exceeds
<1>5. Len(v) = n
  BY <1>1, Moments
<1>6. ASSUME n <= 8
      PROVE  (\A y \in ToSet(v) : x > y) \/ (m # "drawdown" /\ \A y \in ToSet(v) : x < y)
  <2>1. n \in 1..8
    BY <1>1, <1>6
  <2>2. \/ Len(v) * x > SumOf(v) /\ \A y \in ToSet(v) : x > y
        \/ ~(Len(v) * x > SumOf(v)) /\ \A y \in ToSet(v) : x < y
    BY <1>1, <1>3, <1>4, <2>1, FewAreLeftBehind
  <2> QED
    BY <1>4, <2>2
<1> QED
  BY <1>1, <1>2, <1>5, <1>6 DEF News

(* The inductive invariant: what was told is what the window judged last has *)
(* to tell against the baseline that still stands.                           *)
DriftInv ==
  /\ live \in Seq(Returns) /\ Len(live) <= LiveWindow
  /\ history \in Histories \cup {<<>>}
  /\ judged = <<>> => alerts = {}
  /\ judged # <<>> => Judgeable(judged) /\ history \in Histories
                      /\ alerts = DriftAlerts(judged, history)

LEMMA DriftBegins == DriftInit => DriftInv
<1>1. SUFFICES ASSUME DriftInit PROVE DriftInv
  OBVIOUS
<1>2. live \in Seq(Returns) /\ Len(live) = 0
  BY <1>1 DEF DriftInit
<1>3. QED
  BY <1>1, <1>2, DriftSizes DEF DriftInit, DriftInv

LEMMA LongEnough ==
  ASSUME NEW r \in Seq(Returns), Len(r) \in 2..LiveWindow
  PROVE  Judgeable(r)
  BY DEF Judgeable

LEMMA FeedKeeps ==
  ASSUME DriftInv, NEW r \in Returns, FeedReturn(r)
  PROVE  DriftInv'
<1>1. PICK w \in Nat : w = LiveWindow /\ w >= 2
  BY DriftSizes
<1>2. PICK queue : queue = Append(IF Len(live) = LiveWindow THEN Tail(live) ELSE live, r)
  OBVIOUS
<1>3. live \in Seq(Returns) /\ Len(live) \in Nat /\ Len(live) <= w /\ history \in Histories \cup {<<>>}
  BY <1>1 DEF DriftInv
<1>4. queue \in Seq(Returns) /\ Len(queue) <= w
  <2>1. CASE Len(live) = LiveWindow
    <3>1. live # <<>> /\ Tail(live) \in Seq(Returns) /\ Len(Tail(live)) = Len(live) - 1
      BY <1>1, <1>3, <2>1
    <3>2. queue = Append(Tail(live), r)
      BY <1>2, <2>1
    <3>3. queue \in Seq(Returns) /\ Len(queue) = Len(Tail(live)) + 1
      BY <3>1, <3>2
    <3>4. QED
      BY <1>3, <3>1, <3>3
  <2>2. CASE Len(live) # LiveWindow
    <3>1. queue = Append(live, r)
      BY <1>2, <2>2
    <3>2. queue \in Seq(Returns) /\ Len(queue) = Len(live) + 1
      BY <1>3, <3>1
    <3>3. QED
      BY <1>1, <1>3, <2>2, <3>2
  <2>3. QED
    BY <2>1, <2>2
<1>5. live' = queue /\ history' = history
  BY <1>2 DEF FeedReturn
<1>6. CASE history = <<>> \/ Len(queue) < MinLive
  <2>1. judged' = <<>> /\ alerts' = {}
    BY <1>2, <1>6 DEF FeedReturn
  <2>2. QED
    BY <1>1, <1>3, <1>4, <1>5, <2>1 DEF DriftInv
<1>7. CASE history # <<>> /\ Len(queue) >= MinLive
  <2>1. Len(queue) \in 2..LiveWindow /\ Len(queue) \in Nat
    BY <1>1, <1>4, <1>7, DriftSizes
  <2>2. judged' = queue /\ alerts' = DriftAlerts(queue, history)
    <3>1. ~(history = <<>> \/ Len(queue) < MinLive)
      BY <1>7, <2>1, DriftSizes
    <3>2. QED
      BY <1>2, <3>1 DEF FeedReturn
  <2>3. Judgeable(queue)
    BY <1>4, <2>1, LongEnough
  <2>4. queue # <<>>
    BY <1>1, <2>1
  <2>5. DriftAlerts(queue, history)' = DriftAlerts(queue', history')
    OBVIOUS
  <2>6. Judgeable(judged') /\ judged' # <<>> /\ history' \in Histories
        /\ alerts' = DriftAlerts(judged', history')
    BY <1>3, <1>5, <1>7, <2>2, <2>3, <2>4
  <2>7. QED
    BY <1>1, <1>4, <1>5, <1>7, <2>6 DEF DriftInv
<1>8. QED
  BY <1>4, <1>6, <1>7, DriftSizes

LEMMA AnalyseKeeps ==
  ASSUME DriftInv, NEW h \in Histories, NEW r \in Histories, Len(r) \in 2..LiveWindow, Analyse(h, r)
  PROVE  DriftInv'
<1>1. r \in Seq(Returns) /\ LiveWindow \in Nat /\ LiveWindow >= 2
  BY DriftAssumption, DriftSizes DEF Returns
<1>2. Judgeable(r) /\ r # <<>>
  BY <1>1, LongEnough
<1>3. live' = live /\ history' = h /\ judged' = r /\ alerts' = DriftAlerts(r, h)
  BY DEF Analyse
<1>4. live' \in Seq(Returns) /\ Len(live') <= LiveWindow
  BY <1>3 DEF DriftInv
<1>5. Judgeable(judged') /\ judged' # <<>> /\ history' \in Histories
      /\ alerts' = DriftAlerts(judged', history')
  BY <1>2, <1>3
<1>6. QED
  BY <1>4, <1>5 DEF DriftInv

LEMMA DriftStays == DriftInv /\ [DriftNext]_driftVars => DriftInv'
<1>1. SUFFICES ASSUME DriftInv, [DriftNext]_driftVars PROVE DriftInv'
  OBVIOUS
<1>2. ASSUME NEW h \in Histories, SetBaseline(h) PROVE DriftInv'
  <2>1. live' = live /\ history' = h /\ judged' = <<>> /\ alerts' = {}
    BY <1>2 DEF SetBaseline
  <2>2. QED
    BY <1>1, <2>1 DEF DriftInv
<1>3. ASSUME NEW r \in {-1, 1}, FeedReturn(r) PROVE DriftInv'
  BY <1>1, <1>3, FeedKeeps DEF Returns
<1>4. ASSUME NEW h \in Histories, NEW k \in Histories, Len(k) \in 2..LiveWindow, Analyse(h, k)
      PROVE  DriftInv'
  BY <1>1, <1>4, AnalyseKeeps
<1>5. CASE UNCHANGED driftVars
  <2>1. live' = live /\ history' = history /\ judged' = judged /\ alerts' = alerts
    BY <1>5 DEF driftVars
  <2>2. QED
    BY <1>1, <2>1 DEF DriftInv
<1>6. QED
  BY <1>1, <1>2, <1>3, <1>4, <1>5 DEF DriftNext

LEMMA DriftInvIsNews ==
  ASSUME AlertZ >= 5, DriftInv
  PROVE  AlertsAreNews
<1>1. \A x, y \in alerts : x.metric = y.metric => x = y
  <2>1. CASE judged = <<>>
    BY <2>1 DEF DriftInv
  <2>2. CASE judged # <<>>
    BY <2>2, AlertsAreOfMetrics DEF DriftInv
  <2>3. QED
    BY <2>1, <2>2
<1>2. DriftTypeOK
  BY <1>1 DEF DriftInv, DriftTypeOK
<1>3. ASSUME judged # <<>>, Len(history) >= LiveWindow, NEW y \in alerts
      PROVE  News(judged, history, y.metric)
  <2>1. /\ Judgeable(judged) /\ history \in Histories
        /\ y.metric \in Metrics /\ Exceeds(y.metric, Reading(y.metric, judged), history, AlertZ)
    BY <1>3, AlertsAreOfMetrics DEF DriftInv
  <2> QED
    BY <1>3, <2>1, AlertsTellNews
<1>4. QED
  BY <1>2, <1>3 DEF AlertsAreNews, News

(* The judgement of drift in DriftDetector: whatever is fed, judged and taken *)
(* as a baseline, with an alert no earlier than at 2.5 deviations (the        *)
(* default) an alert is about something new.                                  *)
THEOREM DriftIsNews ==
  ASSUME AlertZ >= 5
  PROVE  DriftSpec => []AlertsAreNews
<1>1. DriftInv => AlertsAreNews
  BY DriftInvIsNews
<1>2. QED
  BY <1>1, DriftBegins, DriftStays, PTL DEF DriftSpec
=============================================================================
