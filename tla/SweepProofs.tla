----------------------------- MODULE SweepProofs -----------------------------
(***************************************************************************)
(* Theorems of Sweep, for every value of its constants.                    *)
(***************************************************************************)
EXTENDS Sweep, FiniteSetTheorems, WellFoundedInduction, TLAPS

-----------------------------------------------------------------------------
(* Finite sets                                                             *)

(* A set of numbers has a least one.                                       *)
LEMMA LeastExists ==
    ASSUME NEW T \in SUBSET Nat, T # {}
    PROVE  \E n \in T : \A m \in T : n <= m
<1>1. PICK n \in T : \A m \in T : <<m, n>> \notin OpToRel(<, Nat)
  BY WFMin, NatLessThanWellFounded, Zenon
<1>2. \A m, k \in Nat : m < k => <<m, k>> \in OpToRel(<, Nat)
  BY Zenon DEF OpToRel
<1>3. ASSUME NEW m \in T
      PROVE  n <= m
  <2>1. ~ (m < n)
    BY <1>1, <1>2, Zenon
  <2>. QED
    BY <2>1
<1>. QED
  BY <1>3

(* What holds of the empty set, and of a set as soon as it holds of those  *)
(* with an element less, holds of every subset of a finite set.            *)
LEMMA SubsetInduction ==
    ASSUME NEW S, IsFiniteSet(S), NEW G, {} \in G,
           \A s \in SUBSET S : s # {} /\ (\A x \in s : s \ {x} \in G) => s \in G
    PROVE  SUBSET S \subseteq G
<1>. DEFINE T == {Cardinality(s) : s \in (SUBSET S) \ G}
<1>1. SUFFICES ASSUME T # {}
               PROVE  FALSE
  OBVIOUS
<1>2. T \subseteq Nat
  BY FS_Subset, FS_CardinalityType
<1>3. PICK n \in T : \A m \in T : n <= m
  BY <1>1, <1>2, LeastExists
<1>4. PICK s \in (SUBSET S) \ G : Cardinality(s) = n
  OBVIOUS
<1>5. IsFiniteSet(s) /\ n \in Nat
  BY <1>2, FS_Subset
<1>6. ASSUME NEW x \in s
      PROVE  s \ {x} \in G
  <2>1. Cardinality(s \ {x}) = n - 1
    BY <1>4, <1>5, FS_RemoveElement
  <2>2. s \ {x} \notin G => n - 1 \in T
    BY <2>1
  <2>3. ~ (n <= n - 1)
    BY <1>5
  <2>. QED
    BY <1>3, <2>2, <2>3
<1>7. s # {}
  OBVIOUS
<1>. QED
  BY <1>4, <1>6, <1>7

(* A strict order that is total on a finite set has a greatest element in  *)
(* each of its subsets but the empty one.                                  *)
LEMMA GreatestExists ==
    ASSUME NEW S, IsFiniteSet(S), NEW R,
           \A x, y \in S : x # y => <<x, y>> \in R \/ <<y, x>> \in R,
           \A x, y, z \in S : <<x, y>> \in R /\ <<y, z>> \in R => <<x, z>> \in R
    PROVE  \A s \in SUBSET S : s # {} => \E x \in s : \A y \in s \ {x} : <<y, x>> \in R
<1>. DEFINE Top(s) == \E x \in s : \A y \in s \ {x} : <<y, x>> \in R
            G      == {s \in SUBSET S : s = {} \/ Top(s)}
<1>1. {} \in G
  OBVIOUS
<1>2. ASSUME NEW s \in SUBSET S, s # {}, \A x \in s : s \ {x} \in G
      PROVE  s \in G
  <2>1. PICK x \in s : TRUE
    BY <1>2
  <2>2. CASE s \ {x} = {}
    BY <2>2
  <2>3. CASE s \ {x} # {}
    <3>1. PICK y \in s \ {x} : \A z \in (s \ {x}) \ {y} : <<z, y>> \in R
      BY <1>2, <2>3
    <3>2. CASE <<x, y>> \in R
      <4>1. \A z \in s \ {y} : <<z, y>> \in R
        BY <3>1, <3>2
      <4>. QED
        BY <4>1
    <3>3. CASE <<y, x>> \in R
      <4>1. \A z \in s \ {x} : <<z, x>> \in R
        BY <3>1, <3>3
      <4>. QED
        BY <4>1
    <3>. QED
      BY <3>1, <3>2, <3>3
  <2>. QED
    BY <2>2, <2>3
<1>3. SUBSET S \subseteq G
  <2>. HIDE DEF G
  <2>. QED
    BY <1>1, <1>2, SubsetInduction
<1>. QED
  BY <1>3

-----------------------------------------------------------------------------
(* Folds                                                                   *)

(* f folds g over the subsets of S, in the order that last gives.          *)
IsFold(f, S, base, g, last_) ==
    f = [s \in SUBSET S |-> IF s = {} THEN base
                            ELSE g[<<last_[s], f[s \ {last_[s]}]>>]]

(* Two such functions agree where both are defined.                        *)
LEMMA FoldsAgree ==
    ASSUME NEW A, NEW B, IsFiniteSet(A), NEW base, NEW g, NEW l, NEW f, NEW h,
           IsFold(f, A, base, g, l), IsFold(h, B, base, g, l),
           \A s \in SUBSET A : s # {} => l[s] \in s
    PROVE  \A s \in SUBSET (A \cap B) : f[s] = h[s]
<1>. DEFINE S == A \cap B
            G == {s \in SUBSET S : f[s] = h[s]}
<1>1. IsFiniteSet(S)
  BY FS_Subset
<1>2. {} \in G
  BY DEF IsFold
<1>3. ASSUME NEW s \in SUBSET S, s # {}, \A x \in s : s \ {x} \in G
      PROVE  s \in G
  <2>. DEFINE x == l[s]
  <2>1. x \in s /\ f[s \ {x}] = h[s \ {x}]
    BY <1>3
  <2>2. f[s] = g[<<x, f[s \ {x}]>>]
    BY <1>3 DEF IsFold
  <2>3. h[s] = g[<<x, h[s \ {x}]>>]
    BY <1>3 DEF IsFold
  <2>. QED
    BY <2>1, <2>2, <2>3
<1>4. SUBSET S \subseteq G
  <2>. HIDE DEF G, S
  <2>. QED
    BY <1>1, <1>2, <1>3, SubsetInduction
<1>. QED
  BY <1>4

(* There is such a function.                                               *)
LEMMA FoldExists ==
    ASSUME NEW S, IsFiniteSet(S), NEW base, NEW g, NEW l,
           \A s \in SUBSET S : s # {} => l[s] \in s
    PROVE  \E f : IsFold(f, S, base, g, l)
<1>. DEFINE Has(t) == \E f : IsFold(f, t, base, g, l)
            G      == {t \in SUBSET S : Has(t)}
<1>0. ASSUME NEW A, NEW B, IsFiniteSet(A), \A s \in SUBSET A : s # {} => l[s] \in s,
             NEW p, NEW q, IsFold(p, A, base, g, l), IsFold(q, B, base, g, l)
      PROVE  \A v \in SUBSET (A \cap B) : p[v] = q[v]
  BY <1>0, FoldsAgree
<1>1. {} \in G
  <2>. DEFINE f == [s \in SUBSET {} |-> base]
  <2>1. IsFold(f, {}, base, g, l)
    BY DEF IsFold
  <2>. QED
    BY <2>1
<1>2. ASSUME NEW t \in SUBSET S, t # {}, \A x \in t : t \ {x} \in G
      PROVE  t \in G
  <2>. DEFINE F == [x \in t |-> CHOOSE f : IsFold(f, t \ {x}, base, g, l)]
              f == [s \in SUBSET t |-> IF s = {} THEN base
                                       ELSE g[<<l[s], F[l[s]][s \ {l[s]}]>>]]
  <2>1. \A x \in t : IsFold(F[x], t \ {x}, base, g, l)
    BY <1>2
  <2>. HIDE DEF F
  <2>2. ASSUME NEW s \in SUBSET t, s # {}
        PROVE  f[s \ {l[s]}] = F[l[s]][s \ {l[s]}]
    <3>. DEFINE x == l[s]
                r == s \ {x}
    <3>1. x \in s /\ x \in t /\ IsFold(F[x], t \ {x}, base, g, l)
      BY <2>1, <2>2
    <3>2. r \in SUBSET t /\ r \in SUBSET (t \ {x})
      OBVIOUS
    <3>3. CASE r = {}
      <4>1. F[x][r] = base
        BY <3>1, <3>2, <3>3 DEF IsFold
      <4>2. f[r] = base
        BY <3>2, <3>3
      <4>. QED
        BY <4>1, <4>2
    <3>4. CASE r # {}
      <4>. DEFINE y == l[r]
      <4>1. y \in r /\ y \in t /\ IsFold(F[y], t \ {y}, base, g, l)
        BY <2>1, <3>2, <3>4
      <4>2. F[x][r] = g[<<y, F[x][r \ {y}]>>]
        BY <3>1, <3>2, <3>4 DEF IsFold
      <4>3. f[r] = g[<<y, F[y][r \ {y}]>>]
        BY <3>2, <3>4
      <4>4. r \ {y} \in SUBSET ((t \ {x}) \cap (t \ {y}))
        OBVIOUS
      <4>5. IsFiniteSet(t \ {x}) /\ \A u \in SUBSET (t \ {x}) : u # {} => l[u] \in u
        BY FS_Subset
      <4>6. F[x][r \ {y}] = F[y][r \ {y}]
        <5>. DEFINE A == t \ {x}
                    B == t \ {y}
                    u == r \ {y}
        <5>1. u \in SUBSET (A \cap B)
          BY <4>4
        <5>0. /\ IsFold(F[x], A, base, g, l) /\ IsFold(F[y], B, base, g, l)
              /\ IsFiniteSet(A) /\ \A v \in SUBSET A : v # {} => l[v] \in v
          BY <3>1, <4>1, <4>5
        <5>. HIDE DEF f, x, y, r, A, B, u
        <5>2. \A v \in SUBSET (A \cap B) : F[x][v] = F[y][v]
          <6>. DEFINE p == F[x]
                      q == F[y]
          <6>1. IsFold(p, A, base, g, l) /\ IsFold(q, B, base, g, l)
            BY <5>0
          <6>. HIDE DEF p, q
          <6>2. \A v \in SUBSET (A \cap B) : p[v] = q[v]
            BY ONLY <1>0, <5>0, <6>1
          <6>. QED
            BY <6>2 DEF p, q
        <5>3. F[x][u] = F[y][u]
          BY <5>1, <5>2
        <5>. QED
          BY <5>3 DEF u
      <4>. QED
        BY <4>2, <4>3, <4>6
    <3>. QED
      BY <3>3, <3>4
  <2>3. IsFold(f, t, base, g, l)
    <3>1. ASSUME NEW s \in SUBSET t
          PROVE  f[s] = IF s = {} THEN base ELSE g[<<l[s], f[s \ {l[s]}]>>]
      BY <2>2
    <3>2. f = [s \in SUBSET t |-> f[s]]
      OBVIOUS
    <3>. HIDE DEF f
    <3>. QED
      BY <3>1, <3>2 DEF IsFold
  <2>. QED
    BY <2>3
<1>3. SUBSET S \subseteq G
  <2>. HIDE DEF G
  <2>. QED
    BY <1>1, <1>2, SubsetInduction
<1>. QED
  BY <1>3

(* Its values are of the kind of base and of what g gives.                 *)
LEMMA FoldType ==
    ASSUME NEW S, IsFiniteSet(S), NEW base, NEW g, NEW l, NEW f, NEW V,
           \A s \in SUBSET S : s # {} => l[s] \in s,
           IsFold(f, S, base, g, l), base \in V,
           \A x \in S, v \in V : g[<<x, v>>] \in V
    PROVE  \A s \in SUBSET S : f[s] \in V
<1>. DEFINE G == {s \in SUBSET S : f[s] \in V}
<1>1. {} \in G
  BY DEF IsFold
<1>2. ASSUME NEW s \in SUBSET S, s # {}, \A x \in s : s \ {x} \in G
      PROVE  s \in G
  <2>. DEFINE x == l[s]
  <2>1. x \in s /\ x \in S /\ f[s \ {x}] \in V
    BY <1>2
  <2>2. f[s] = g[<<x, f[s \ {x}]>>]
    BY <1>2 DEF IsFold
  <2>. QED
    BY <2>1, <2>2
<1>3. SUBSET S \subseteq G
  <2>. HIDE DEF G
  <2>. QED
    BY <1>1, <1>2, SubsetInduction
<1>. QED
  BY <1>3

-----------------------------------------------------------------------------
(* Sums                                                                    *)

(* f sums the weights w over the subsets of S, as MapThenSumSet does.      *)
IsSum(f, w, S) ==
    f = [s \in SUBSET S |-> IF s = {} THEN 0
                            ELSE w[CHOOSE x \in s : TRUE] + f[s \ {CHOOSE x \in s : TRUE}]]

Total(w, S) == (CHOOSE f : IsSum(f, w, S))[S]

(* A choice from a set that is not empty. *)
LEMMA AnyIsIn ==
    ASSUME NEW s, s # {}
    PROVE  (CHOOSE x \in s : TRUE) \in s
  OBVIOUS

LEMMA SumExists ==
    ASSUME NEW S, IsFiniteSet(S), NEW w, \A x \in S : w[x] \in Nat
    PROVE  \E f : IsSum(f, w, S) /\ \A s \in SUBSET S : f[s] \in Nat
<1>. DEFINE g == [p \in S \X Nat |-> w[p[1]] + p[2]]
            l == [s \in SUBSET S |-> CHOOSE x \in s : TRUE]
<1>1. \A s \in SUBSET S : s # {} => l[s] \in s
  BY AnyIsIn
<1>2. \A x \in S, n \in Nat : g[<<x, n>>] = w[x] + n /\ g[<<x, n>>] \in Nat
  OBVIOUS
<1>3. \A s \in SUBSET S : l[s] = CHOOSE x \in s : TRUE
  OBVIOUS
<1>. HIDE DEF g, l
<1>4. PICK f : IsFold(f, S, 0, g, l)
  BY <1>1, FoldExists
<1>5. \A s \in SUBSET S : f[s] \in Nat
  BY <1>1, <1>2, <1>4, FoldType
<1>6. f = [s \in SUBSET S |-> f[s]]
  BY <1>4 DEF IsFold
<1>7. ASSUME NEW s \in SUBSET S
      PROVE  f[s] = IF s = {} THEN 0
                    ELSE w[CHOOSE x \in s : TRUE] + f[s \ {CHOOSE x \in s : TRUE}]
  <2>. DEFINE c == CHOOSE x \in s : TRUE
  <2>1. CASE s = {}
    BY <1>4, <2>1 DEF IsFold
  <2>2. CASE s # {}
    <3>1. c = l[s] /\ c \in s
      BY <1>1, <1>3, <2>2
    <3>. HIDE DEF c
    <3>2. f[s] = g[<<c, f[s \ {c}]>>]
      BY <1>4, <2>2, <3>1 DEF IsFold
    <3>3. f[s \ {c}] \in Nat
      BY <1>5
    <3>4. f[s] = w[c] + f[s \ {c}]
      BY <1>2, <3>1, <3>2, <3>3
    <3>. QED
      BY <2>2, <3>4 DEF c
  <2>. QED
    BY <2>1, <2>2
<1>8. IsSum(f, w, S)
  BY <1>6, <1>7, Zenon DEF IsSum
<1>. QED
  BY <1>5, <1>8

LEMMA SumAt ==
    ASSUME NEW S, NEW w, NEW f, IsSum(f, w, S)
    PROVE  /\ f[{}] = 0
           /\ \A s \in SUBSET S : s # {} =>
                 \E x \in s : f[s] = w[x] + f[s \ {x}] /\ x = CHOOSE y \in s : TRUE
<1>1. f[{}] = 0
  BY DEF IsSum
<1>2. ASSUME NEW s \in SUBSET S, s # {}
      PROVE  \E x \in s : f[s] = w[x] + f[s \ {x}] /\ x = CHOOSE y \in s : TRUE
  <2>. DEFINE c == CHOOSE y \in s : TRUE
  <2>1. c \in s
    BY <1>2
  <2>2. f[s] = w[c] + f[s \ {c}]
    BY <1>2 DEF IsSum
  <2>. QED
    BY <2>1, <2>2, Zenon
<1>. QED
  BY <1>1, <1>2

(* Sums of the same weights agree.                                         *)
LEMMA SumsAgree ==
    ASSUME NEW A, NEW B, IsFiniteSet(A), NEW w, NEW v, NEW f, NEW h,
           IsSum(f, w, A), IsSum(h, v, B), \A x \in A \cap B : w[x] = v[x]
    PROVE  \A s \in SUBSET (A \cap B) : f[s] = h[s]
<1>. DEFINE S == A \cap B
            G == {s \in SUBSET S : f[s] = h[s]}
<1>1. IsFiniteSet(S)
  BY FS_Subset
<1>2. {} \in G
  BY SumAt
<1>3. ASSUME NEW s \in SUBSET S, s # {}, \A x \in s : s \ {x} \in G
      PROVE  s \in G
  <2>1. PICK x \in s : f[s] = w[x] + f[s \ {x}] /\ x = CHOOSE y \in s : TRUE
    BY <1>3, SumAt
  <2>2. PICK z \in s : h[s] = v[z] + h[s \ {z}] /\ z = CHOOSE y \in s : TRUE
    BY <1>3, SumAt
  <2>3. x = z
    BY <2>1, <2>2, Zenon
  <2>4. f[s \ {x}] = h[s \ {x}] /\ w[x] = v[x]
    BY <1>3
  <2>. QED
    BY <2>1, <2>2, <2>3, <2>4
<1>4. SUBSET S \subseteq G
  <2>. HIDE DEF G, S
  <2>. QED
    BY <1>1, <1>2, <1>3, SubsetInduction
<1>. QED
  BY <1>4

(* Whatever sums the weights of a set gives their total.                   *)
LEMMA SumIsTotal ==
    ASSUME NEW S, IsFiniteSet(S), NEW w, \A x \in S : w[x] \in Nat,
           NEW f, IsSum(f, w, S), NEW s \in SUBSET S
    PROVE  f[s] = Total(w, s)
<1>. DEFINE h == CHOOSE e : IsSum(e, w, s)
<1>1. IsFiniteSet(s) /\ s \cap S = s
  BY FS_Subset
<1>2. IsSum(h, w, s)
  BY <1>1, SumExists
<1>. HIDE DEF h
<1>3. \A u \in SUBSET (s \cap S) : h[u] = f[u]
  <2>1. IsFiniteSet(s) /\ IsSum(h, w, s) /\ IsSum(f, w, S) /\ \A x \in s \cap S : w[x] = w[x]
    BY <1>1, <1>2
  <2>. QED
    BY ONLY <2>1, SumsAgree
<1>4. h[s] = f[s]
  BY <1>1, <1>3
<1>. QED
  BY <1>4 DEF Total, h

LEMMA TotalOfNone == ASSUME NEW w PROVE Total(w, {}) = 0
<1>1. \E f : IsSum(f, w, {}) /\ \A s \in SUBSET {} : f[s] \in Nat
  BY SumExists, FS_EmptySet
<1>2. IsSum(CHOOSE f : IsSum(f, w, {}), w, {})
  BY <1>1
<1>. QED
  BY <1>2, SumAt DEF Total

(* One element may be taken out of a total, and a total is a number.       *)
LEMMA TotalAdds ==
    ASSUME NEW S, IsFiniteSet(S), NEW w, \A x \in S : w[x] \in Nat
    PROVE  /\ Total(w, S) \in Nat
           /\ \A x \in S : Total(w, S) = w[x] + Total(w, S \ {x})
<1>. DEFINE T(s) == Total(w, s)
            G    == {s \in SUBSET S : T(s) \in Nat /\ \A x \in s : T(s) = w[x] + T(s \ {x})}
<1>1. {} \in G
  BY TotalOfNone
<1>2. PICK f : IsSum(f, w, S) /\ \A s \in SUBSET S : f[s] \in Nat
  BY SumExists
<1>3. \A s \in SUBSET S : f[s] = T(s)
  BY <1>2, SumIsTotal
<1>. HIDE DEF T
<1>4. ASSUME NEW s \in SUBSET S, s # {}, \A x \in s : s \ {x} \in G
      PROVE  s \in G
  <2>1. T(s) \in Nat
    BY <1>2, <1>3
  <2>2. PICK c \in s : f[s] = w[c] + f[s \ {c}]
    BY <1>2, <1>4, SumAt
  <2>3. T(s) = w[c] + T(s \ {c})
    BY <1>3, <2>2
  <2>4. ASSUME NEW x \in s, x # c
        PROVE  T(s) = w[x] + T(s \ {x})
    <3>1. (s \ {c}) \ {x} = (s \ {x}) \ {c}
      OBVIOUS
    <3>2. T(s \ {c}) = w[x] + T((s \ {c}) \ {x})
      BY <1>4, <2>4
    <3>3. T(s \ {x}) = w[c] + T((s \ {c}) \ {x})
      BY <1>4, <2>4, <3>1
    <3>4. T((s \ {c}) \ {x}) \in Nat /\ w[c] \in Nat /\ w[x] \in Nat
      <4>1. (s \ {c}) \ {x} \in SUBSET S
        OBVIOUS
      <4>. QED
        BY <1>2, <1>3, <4>1
    <3>. QED
      BY <2>3, <3>2, <3>3, <3>4
  <2>. QED
    BY <2>1, <2>3, <2>4
<1>5. SUBSET S \subseteq G
  <2>. HIDE DEF G
  <2>. QED
    BY <1>1, <1>4, SubsetInduction
<1>. QED
  BY <1>5 DEF T

(* The same weights have the same total.                                   *)
LEMMA TotalSame ==
    ASSUME NEW S, IsFiniteSet(S), NEW w, NEW v,
           \A x \in S : w[x] \in Nat /\ w[x] = v[x]
    PROVE  Total(w, S) = Total(v, S)
<1>1. PICK f : IsSum(f, v, S)
  BY SumExists
<1>2. \A s \in SUBSET S : s # {} => w[CHOOSE x \in s : TRUE] = v[CHOOSE x \in s : TRUE]
  BY AnyIsIn
<1>3. IsSum(f, w, S)
  BY <1>1, <1>2 DEF IsSum
<1>4. f[S] = Total(w, S)
  BY <1>3, SumIsTotal
<1>5. f[S] = Total(v, S)
  BY <1>1, SumIsTotal
<1>. QED
  BY <1>4, <1>5

(* The total of two sets that share nothing.                               *)
LEMMA TotalOfBoth ==
    ASSUME NEW A, NEW B, IsFiniteSet(A), IsFiniteSet(B), A \cap B = {},
           NEW w, \A x \in A \cup B : w[x] \in Nat
    PROVE  Total(w, A \cup B) = Total(w, A) + Total(w, B)
<1>. DEFINE G == {s \in SUBSET A : Total(w, s \cup B) = Total(w, s) + Total(w, B)}
<1>0. \A s \in SUBSET A : IsFiniteSet(s) /\ IsFiniteSet(s \cup B)
  BY FS_Subset, FS_Union
<1>1. {} \in G
  <2>1. {} \cup B = B /\ Total(w, B) \in Nat
    BY TotalAdds
  <2>. QED
    BY <2>1, TotalOfNone
<1>2. ASSUME NEW s \in SUBSET A, s # {}, \A x \in s : s \ {x} \in G
      PROVE  s \in G
  <2>1. PICK x \in s : TRUE
    BY <1>2
  <2>. DEFINE r == s \ {x}
  <2>2. (s \cup B) \ {x} = r \cup B /\ x \in s \cup B /\ w[x] \in Nat
    OBVIOUS
  <2>3. IsFiniteSet(s) /\ IsFiniteSet(s \cup B)
    BY <1>0
  <2>4. Total(w, s \cup B) = w[x] + Total(w, r \cup B)
    BY <2>2, <2>3, TotalAdds
  <2>5. Total(w, s) = w[x] + Total(w, r)
    BY <2>3, TotalAdds
  <2>6. Total(w, r \cup B) = Total(w, r) + Total(w, B)
    BY <1>2
  <2>7. Total(w, r) \in Nat /\ Total(w, B) \in Nat
    <3>1. IsFiniteSet(r) /\ \A y \in r : w[y] \in Nat
      BY <2>3, FS_Subset
    <3>. QED
      BY <3>1, TotalAdds
  <2>. QED
    BY <2>2, <2>4, <2>5, <2>6, <2>7
<1>3. SUBSET A \subseteq G
  <2>. HIDE DEF G
  <2>. QED
    BY <1>1, <1>2, SubsetInduction
<1>. QED
  BY <1>3

(* No part of a total is greater than the whole.                           *)
LEMMA PartOfTotal ==
    ASSUME NEW S, IsFiniteSet(S), NEW w, \A x \in S : w[x] \in Nat, NEW x \in S
    PROVE  w[x] <= Total(w, S)
<1>1. IsFiniteSet(S \ {x}) /\ \A y \in S \ {x} : w[y] \in Nat
  BY FS_RemoveElement
<1>2. Total(w, S \ {x}) \in Nat /\ Total(w, S) = w[x] + Total(w, S \ {x})
  BY <1>1, TotalAdds
<1>. QED
  BY <1>2

(* How often the claims of a table were heard, of those in ids. *)
Obs(c) == [k \in DOMAIN c |-> c[k].obs]

-----------------------------------------------------------------------------
(* Salience                                                                *)

LEMMA SalienceBounds ==
    /\ SalienceFloor \in Nat /\ 1 <= SalienceFloor /\ MaxSalience \in Nat
    /\ SalienceFloor <= NewSalience /\ NewSalience <= MaxSalience /\ NewSalience \in Nat
    /\ MassedBump \in Nat /\ Bump \in Nat /\ MassedBump <= Bump
    /\ MaxTime \in Nat /\ MaxClaims \in Nat
  BY SweepAssumption

(* A strength never fades below the floor, nor grows with age.             *)
LEMMA CurveIs ==
    ASSUME NEW b \in 0 .. MaxSalience, NEW n \in Time
    PROVE  /\ Curve(b, n) \in SalienceFloor .. MaxSalience
           /\ b >= SalienceFloor => Curve(b, n) <= b
           /\ \A m \in Time : m <= n => Curve(b, n) <= Curve(b, m)
<1>1. Fade[b][n] \in 0 .. MaxSalience
  BY SweepAssumption
<1>2. \A m \in Time : m <= n => Fade[b][n] <= Fade[b][m] /\ Fade[b][m] \in 0 .. MaxSalience
  BY SweepAssumption
<1>3. Fade[b][n] <= b
  <2>1. 0 \in Time /\ 0 <= n /\ Fade[b][0] = b
    BY SweepAssumption, SalienceBounds DEF Time
  <2>. QED
    BY <1>2, <2>1
<1>. QED
  BY <1>1, <1>2, <1>3, SalienceBounds DEF Curve, Larger

LEMMA AgeIs ==
    ASSUME NEW r \in Row, NEW m \in Time, NEW n \in Time, m <= n
    PROVE  Age(r, n) \in Time /\ Age(r, m) \in Time /\ Age(r, m) <= Age(r, n)
<1>1. r.seen \in Time
  BY DEF Row
<1>. QED
  BY <1>1, SalienceBounds DEF Age, Time

(* A claim whose salience and strength are no less than the floor.         *)
Sound(r) == r.sal >= SalienceFloor /\ Strength(r) >= SalienceFloor

LEMMA StrengthIs ==
    ASSUME NEW r \in Row
    PROVE  Strength(r) \in 0 .. MaxSalience /\ r.sal \in 0 .. MaxSalience
  BY DEF Row, Strength

LEMMA ReinforcedIs ==
    ASSUME NEW r \in Row, Sound(r)
    PROVE  Reinforced(r) \in SalienceFloor .. MaxSalience /\ Strength(r) <= Reinforced(r)
<1>. DEFINE st == Strength(r)
            faded == st - Smaller(r.sal, st)
<1>1. st \in Nat /\ r.sal \in Nat /\ 1 <= st /\ SalienceFloor <= st /\ st <= MaxSalience
  BY StrengthIs, SalienceBounds DEF Sound
<1>2. faded \in Nat
  BY <1>1 DEF Smaller
<1>3. (Bump - MassedBump) * faded \in Nat
  BY <1>2, SalienceBounds
<1>4. ((Bump - MassedBump) * faded) \div st \in Nat
  <2>. DEFINE a == (Bump - MassedBump) * faded
  <2>1. a \in Nat
    BY <1>3
  <2>. HIDE DEF a, st
  <2>2. a \div st \in Nat
    BY <1>1, <2>1
  <2>. QED
    BY <2>2 DEF a
<1>5. Gain(r) \in Nat
  <2>. HIDE DEF st, faded
  <2>1. Gain(r) = MassedBump + (((Bump - MassedBump) * faded) \div st)
    BY DEF Gain, st, faded
  <2>. QED
    BY <1>4, <2>1, SalienceBounds
<1>. QED
  BY <1>1, <1>5, SalienceBounds DEF Reinforced, Smaller

(* What a pass may make of a claim it has read: the claim keeps what it    *)
(* learned and lies on its curve, or it is retired in favour of another.   *)
Becomes(r, m, at) ==
    /\ r.inv = Open /\ r.by = Nobody
    /\ m \in Row /\ Sound(m)
    /\ m.slot = r.slot /\ m.to = r.to /\ m.rec = r.rec /\ m.seen = r.seen /\ m.phrase = r.phrase
    /\ r.kind = "semantic" => m.kind = "semantic"
    /\ m.inv = Open =>
          /\ m.by = Nobody /\ Strength(m) >= Strength(r)
          /\ \/ m.sal = r.sal /\ m.base = r.base
             \/ m.sal >= Curve(Strength(m), Age(m, at))
    /\ m.inv # Open => m.by # Nobody /\ m.inv <= at

LEMMA BecomesItself ==
    ASSUME NEW r \in Row, Sound(r), r.inv = Open, r.by = Nobody, NEW at
    PROVE  Becomes(r, r, at)
  BY StrengthIs DEF Becomes

LEMMA BecomesInTwo ==
    ASSUME NEW r \in Row, NEW m, NEW l, NEW at, Becomes(r, m, at), Becomes(m, l, at)
    PROVE  Becomes(r, l, at)
<1>1. m \in Row /\ l \in Row
  BY DEF Becomes
<1>2. Strength(r) \in Nat /\ Strength(m) \in Nat /\ Strength(l) \in Nat
  BY <1>1, StrengthIs
<1>3. l.sal = m.sal /\ l.base = m.base /\ l.seen = m.seen =>
        Strength(l) = Strength(m) /\ Age(l, at) = Age(m, at)
  BY DEF Strength, Age
<1>. QED
  BY <1>1, <1>2, <1>3 DEF Becomes

(* Later, it still may.                                                    *)
LEMMA BecomesLater ==
    ASSUME NEW r, NEW m, NEW at \in Time, NEW n \in Time, at <= n, Becomes(r, m, at)
    PROVE  Becomes(r, m, n)
<1>1. m \in Row
  BY DEF Becomes
<1>2. Strength(m) \in 0 .. MaxSalience /\ m.sal \in 0 .. MaxSalience
  BY <1>1, StrengthIs
<1>3. Age(m, n) \in Time /\ Age(m, at) \in Time /\ Age(m, at) <= Age(m, n)
  BY <1>1, AgeIs
<1>4. /\ Curve(Strength(m), Age(m, n)) <= Curve(Strength(m), Age(m, at))
      /\ Curve(Strength(m), Age(m, n)) \in Nat /\ Curve(Strength(m), Age(m, at)) \in Nat
  BY <1>2, <1>3, CurveIs, SalienceBounds
<1>5. m.inv \in Nat /\ at \in Nat /\ n \in Nat
  BY <1>1, SalienceBounds DEF Row, Time, Open
<1>. QED
  BY <1>2, <1>4, <1>5 DEF Becomes

(* decayed_salience: on the curve, and settled there.                      *)
LEMMA DecayedIs ==
    ASSUME NEW r \in Row, NEW at \in Time, r.sal >= SalienceFloor
    PROVE  LET d == Decayed(r, at) IN
           /\ d \in Row /\ Sound(d)
           /\ d = [r EXCEPT !.base = d.base, !.sal = d.sal]
           /\ d.base >= d.sal /\ d.base # 0 /\ d.base >= Strength(r)
           /\ d.sal = Curve(Strength(d), Age(d, at)) /\ Strength(d) = d.base
<1>. DEFINE d == Decayed(r, at)
            b == Larger(Strength(r), r.sal)
            v == Curve(b, Age(r, at))
<1>1. b \in 0 .. MaxSalience /\ SalienceFloor <= b /\ Strength(r) <= b
  BY StrengthIs, SalienceBounds DEF Larger
<1>2. Age(r, at) \in Time
  BY AgeIs DEF Time
<1>. HIDE DEF b
<1>3. v \in SalienceFloor .. MaxSalience /\ v <= b
  BY <1>1, <1>2, CurveIs
<1>. HIDE DEF v
<1>4. d = [r EXCEPT !.base = b, !.sal = v]
  BY DEF Decayed, b, v
<1>. HIDE DEF d
<1>5. d \in Row /\ d.base = b /\ d.sal = v /\ d.seen = r.seen
  <2>1. b \in 0 .. MaxSalience /\ v \in 0 .. MaxSalience
    BY <1>1, <1>3, SalienceBounds
  <2>. QED
    BY <1>4, <2>1 DEF Row
<1>6. Strength(d) = b
  BY <1>1, <1>5, SalienceBounds DEF Strength
<1>7. Age(d, at) = Age(r, at)
  BY <1>5 DEF Age
<1>8. d.sal = Curve(Strength(d), Age(d, at))
  BY <1>5, <1>6, <1>7 DEF v
<1>9. Sound(d)
  BY <1>1, <1>3, <1>5, <1>6, SalienceBounds DEF Sound
<1>10. d = [r EXCEPT !.base = d.base, !.sal = d.sal]
  BY <1>4, <1>5
<1>11. d.base >= d.sal /\ d.base # 0 /\ d.base >= Strength(r)
  BY <1>1, <1>3, <1>5, StrengthIs, SalienceBounds
<1>. QED
  BY <1>5, <1>6, <1>8, <1>9, <1>10, <1>11 DEF d

(* A claim that lies on its curve. *)
Settled(r, at) == r.base # 0 /\ r.base >= r.sal /\ r.sal = Curve(r.base, Age(r, at))

LEMMA DecayedSettles ==
    ASSUME NEW r \in Row, NEW at \in Time, r.sal >= SalienceFloor, NEW d, d = Decayed(r, at)
    PROVE  Settled(d, at) /\ d \in Row
<1>. DEFINE e == Decayed(r, at)
<1>1. /\ e \in Row /\ e.base >= e.sal /\ e.base # 0
      /\ e.sal = Curve(Strength(e), Age(e, at)) /\ Strength(e) = e.base
  BY DecayedIs
<1>2. d = e
  OBVIOUS
<1>. HIDE DEF e
<1>. QED
  BY <1>1, <1>2 DEF Settled

LEMMA SettledStays ==
    ASSUME NEW r \in Row, NEW at, Settled(r, at)
    PROVE  Decayed(r, at) = r
<1>1. r.base \in Nat /\ r.sal \in Nat /\ Strength(r) = r.base
  BY StrengthIs, SalienceBounds DEF Row, Settled, Strength
<1>2. Larger(Strength(r), r.sal) = r.base
  BY <1>1 DEF Larger, Settled
<1>3. Decayed(r, at) = [r EXCEPT !.base = r.base, !.sal = r.sal]
  BY <1>2 DEF Decayed, Settled
<1>. QED
  BY <1>3 DEF Row

-----------------------------------------------------------------------------
(* The order of a merge                                                    *)

Table(c) == DOMAIN c \subseteq Ids /\ c \in [DOMAIN c -> Row]

LEMMA TableIsFinite ==
    ASSUME NEW c, Table(c)
    PROVE  /\ IsFiniteSet(DOMAIN c)
           /\ \A s \in SUBSET DOMAIN c : IsFiniteSet(s)
           /\ \A k \in DOMAIN c : k \in Nat /\ c[k] \in Row
<1>1. IsFiniteSet(Ids) /\ Ids \subseteq Nat
  BY FS_Interval, SalienceBounds DEF Ids
<1>. QED
  BY <1>1, FS_Subset DEF Table

LEMMA RowIs ==
    ASSUME NEW c, Table(c), NEW k \in DOMAIN c
    PROVE  c[k].obs \in Nat /\ c[k].phrase \in Nat /\ k \in Nat /\ k # Nobody
<1>1. c[k] \in Row /\ k \in Ids
  BY DEF Table
<1>2. Ids \subseteq Nat \ {0}
  BY SalienceBounds DEF Ids
<1>3. Phrases \subseteq Nat
  BY SweepAssumption
<1>. QED
  BY <1>1, <1>2, <1>3 DEF Row, Nobody

(* Of a set of claims one outranks all others. *)
LEMMA BestIs ==
    ASSUME NEW c, Table(c), NEW s \in SUBSET DOMAIN c, s # {}
    PROVE  Best(c, s) \in s /\ \A j \in s \ {Best(c, s)} : Outranks(c, Best(c, s), j)
<1>. DEFINE D == DOMAIN c
            R == {p \in D \X D : Outranks(c, p[2], p[1])}
<1>1. \A j, k \in D : <<j, k>> \in R <=> Outranks(c, k, j)
  OBVIOUS
<1>2. \A j, k \in D : j # k => Outranks(c, j, k) \/ Outranks(c, k, j)
  BY RowIs DEF Outranks
<1>3. \A j, k, l \in D : Outranks(c, k, j) /\ Outranks(c, l, k) => Outranks(c, l, j)
  BY RowIs DEF Outranks
<1>. HIDE DEF R
<1>4. \A j, k \in D : j # k => <<j, k>> \in R \/ <<k, j>> \in R
  BY <1>1, <1>2
<1>5. \A j, k, l \in D : <<j, k>> \in R /\ <<k, l>> \in R => <<j, l>> \in R
  BY <1>1, <1>3
<1>6. \E k \in s : \A j \in s \ {k} : <<j, k>> \in R
  <2>1. IsFiniteSet(D)
    BY TableIsFinite
  <2>2. \A t \in SUBSET D : t # {} => \E k \in t : \A j \in t \ {k} : <<j, k>> \in R
    BY <1>4, <1>5, <2>1, GreatestExists
  <2>. QED
    BY <2>2
<1>7. \E k \in s : \A j \in s \ {k} : Outranks(c, k, j)
  BY <1>1, <1>6
<1>. QED
  BY <1>7 DEF Best

(* Of two claims one precedes the other.                                   *)
LEMMA PrecedesIs ==
    ASSUME NEW c, Table(c)
    PROVE  /\ \A j, k \in DOMAIN c : j # k => Precedes(c, j, k) \/ Precedes(c, k, j)
           /\ \A j, k \in DOMAIN c : Precedes(c, j, k) => j # k /\ ~ Precedes(c, k, j)
           /\ \A j, k, l \in DOMAIN c :
                 Precedes(c, j, k) /\ Precedes(c, k, l) => Precedes(c, j, l)
  BY RowIs DEF Precedes, Outranks

LEMMA LastIs ==
    ASSUME NEW c, Table(c), NEW s \in SUBSET DOMAIN c, s # {}
    PROVE  LastOf(c, s) \in s /\ \A j \in s \ {LastOf(c, s)} : Precedes(c, j, LastOf(c, s))
<1>. DEFINE D == DOMAIN c
            R == {p \in D \X D : Precedes(c, p[1], p[2])}
<1>1. \A j, k \in D : <<j, k>> \in R <=> Precedes(c, j, k)
  OBVIOUS
<1>. HIDE DEF R
<1>2. \A j, k \in D : j # k => <<j, k>> \in R \/ <<k, j>> \in R
  BY <1>1, PrecedesIs
<1>3. \A j, k, l \in D : <<j, k>> \in R /\ <<k, l>> \in R => <<j, l>> \in R
  BY <1>1, PrecedesIs
<1>4. \E k \in s : \A j \in s \ {k} : <<j, k>> \in R
  <2>1. IsFiniteSet(D)
    BY TableIsFinite
  <2>2. \A t \in SUBSET D : t # {} => \E k \in t : \A j \in t \ {k} : <<j, k>> \in R
    BY <1>2, <1>3, <2>1, GreatestExists
  <2>. QED
    BY <2>2
<1>5. \E k \in s : \A j \in s \ {k} : Precedes(c, j, k)
  BY <1>1, <1>4
<1>. QED
  BY <1>5 DEF LastOf

-----------------------------------------------------------------------------
(* One cluster                                                             *)

Strengths(c) == [k \in DOMAIN c |-> Strength(c[k])]

(* The two sums of Pooled are totals.                                      *)
LEMMA ObsIsTotal ==
    ASSUME NEW c, Table(c), NEW S \in SUBSET DOMAIN c
    PROVE  MapThenSumSet(LAMBDA k : c[k].obs, S) = Total(Obs(c), S)
<1>. DEFINE w == Obs(c)
            Is(h) == h = [t \in SUBSET S |-> IF t = {} THEN 0
                     ELSE c[CHOOSE x \in t : TRUE].obs + h[t \ {CHOOSE x \in t : TRUE}]]
            f == CHOOSE h : Is(h)
<1>1. MapThenSumSet(LAMBDA k : c[k].obs, S) = f[S]
  BY DEF MapThenSumSet, MapThenFoldSet
<1>2. IsFiniteSet(S) /\ \A x \in S : w[x] \in Nat
  BY TableIsFinite, RowIs DEF Obs
<1>3. ASSUME NEW h
      PROVE  IsSum(h, w, S) <=> Is(h)
  <2>1. \A t \in SUBSET S : t # {} => w[CHOOSE x \in t : TRUE] = c[CHOOSE x \in t : TRUE].obs
    BY AnyIsIn DEF Obs
  <2>. QED
    BY <2>1 DEF IsSum
<1>4. IsSum(f, w, S)
  <2>1. \E h : IsSum(h, w, S)
    BY <1>2, SumExists
  <2>2. \E h : Is(h)
    <3>. HIDE DEF Is
    <3>. QED
      BY <1>3, <2>1
  <2>3. Is(f)
    <3>. HIDE DEF Is
    <3>. QED
      BY <2>2, Zenon
  <2>. QED
    BY <1>3, <2>3
<1>. QED
  BY <1>1, <1>2, <1>4, SumIsTotal

LEMMA StrengthIsTotal ==
    ASSUME NEW c, Table(c), NEW S \in SUBSET DOMAIN c
    PROVE  MapThenSumSet(LAMBDA k : Strength(c[k]), S) = Total(Strengths(c), S)
<1>. DEFINE w == Strengths(c)
            Is(h) == h = [t \in SUBSET S |-> IF t = {} THEN 0
                     ELSE Strength(c[CHOOSE x \in t : TRUE]) + h[t \ {CHOOSE x \in t : TRUE}]]
            f == CHOOSE h : Is(h)
<1>1. MapThenSumSet(LAMBDA k : Strength(c[k]), S) = f[S]
  BY DEF MapThenSumSet, MapThenFoldSet
<1>2. IsFiniteSet(S) /\ \A x \in S : w[x] \in Nat
  BY TableIsFinite, StrengthIs DEF Strengths
<1>3. ASSUME NEW h
      PROVE  IsSum(h, w, S) <=> Is(h)
  <2>1. \A t \in SUBSET S :
            t # {} => w[CHOOSE x \in t : TRUE] = Strength(c[CHOOSE x \in t : TRUE])
    BY AnyIsIn DEF Strengths
  <2>. QED
    BY <2>1 DEF IsSum
<1>4. IsSum(f, w, S)
  <2>1. \E h : IsSum(h, w, S)
    BY <1>2, SumExists
  <2>2. \E h : Is(h)
    <3>. HIDE DEF Is
    <3>. QED
      BY <1>3, <2>1
  <2>3. Is(f)
    <3>. HIDE DEF Is
    <3>. QED
      BY <2>2, Zenon
  <2>. QED
    BY <1>3, <2>3
<1>. QED
  BY <1>1, <1>2, <1>4, SumIsTotal

(* The claims of a slot, and those of them that are still believed. *)
InSlot(c, s)  == {k \in DOMAIN c : c[k].slot = s}
OpenIn(c, s)  == {k \in DOMAIN c : c[k].slot = s /\ c[k].inv = Open}

LEMMA PooledIs ==
    ASSUME NEW c, Table(c), NEW k \in DOMAIN c, NEW L \in SUBSET DOMAIN c
    PROVE  /\ Pooled(c, k, L) = [c[k] EXCEPT
                  !.obs  = Total(Obs(c), L \cup {k}),
                  !.base = Smaller(MaxSalience, Total(Strengths(c), L \cup {k}))]
           /\ Total(Obs(c), L \cup {k}) \in Nat
           /\ Pooled(c, k, L) \in Row
           /\ Strength(Pooled(c, k, L)) >= Strength(c[k])
<1>. DEFINE all == L \cup {k}
            o   == Total(Obs(c), all)
            st  == Total(Strengths(c), all)
            b   == Smaller(MaxSalience, st)
<1>1. all \in SUBSET DOMAIN c /\ IsFiniteSet(all) /\ k \in all
  BY TableIsFinite
<1>2. Pooled(c, k, L) = [c[k] EXCEPT !.obs = o, !.base = b]
  <2>1. Pooled(c, k, L) = [c[k] EXCEPT
            !.obs  = MapThenSumSet(LAMBDA j : c[j].obs, all),
            !.base = Smaller(MaxSalience, MapThenSumSet(LAMBDA j : Strength(c[j]), all))]
    BY DEF Pooled
  <2>2. MapThenSumSet(LAMBDA j : c[j].obs, all) = o
    BY <1>1, ObsIsTotal
  <2>3. MapThenSumSet(LAMBDA j : Strength(c[j]), all) = st
    BY <1>1, StrengthIsTotal
  <2>. QED
    BY <2>1, <2>2, <2>3
<1>3. o \in Nat
  <2>1. \A x \in all : Obs(c)[x] \in Nat
    BY <1>1, RowIs DEF Obs
  <2>. QED
    BY <1>1, <2>1, TotalAdds
<1>4. st \in Nat /\ Strength(c[k]) <= st
  <2>1. \A x \in all : Strengths(c)[x] \in Nat /\ Strengths(c)[x] = Strength(c[x])
    BY <1>1, TableIsFinite, StrengthIs DEF Strengths
  <2>. QED
    BY <1>1, <2>1, TotalAdds, PartOfTotal
<1>. HIDE DEF all, o, st
<1>5. c[k] \in Row /\ Strength(c[k]) \in 0 .. MaxSalience
  BY TableIsFinite, StrengthIs
<1>6. b \in 0 .. MaxSalience /\ Strength(c[k]) <= b
  BY <1>4, <1>5, SalienceBounds DEF Smaller
<1>. HIDE DEF b
<1>7. Pooled(c, k, L) \in Row
  BY <1>2, <1>3, <1>5, <1>6 DEF Row
<1>8. Strength(Pooled(c, k, L)) >= Strength(c[k])
  BY <1>2, <1>5, <1>6 DEF Strength, Row
<1>. QED
  BY <1>2, <1>3, <1>7, <1>8 DEF all, o, st, b

(* What a cluster of believed claims of one slot becomes.                  *)
LEMMA AbsorbedIs ==
    ASSUME NEW c, Table(c), NEW at \in Time, NEW K \in SUBSET DOMAIN c, NEW keeper \in K,
           \A k \in K : Sound(c[k]) /\ c[k].inv = Open /\ c[k].by = Nobody,
           NEW a, a = Absorbed(c, keeper, K \ {keeper}, at)
    PROVE  /\ DOMAIN a = DOMAIN c /\ Table(a)
           /\ \A k \in DOMAIN c : k \notin K => a[k] = c[k]
           /\ \A k \in K : Becomes(c[k], a[k], at)
           /\ \A k \in K \ {keeper} : a[k].inv # Open
           /\ a[keeper].inv = Open
           /\ a[keeper].obs = Total(Obs(c), K)
           /\ Settled(a[keeper], at)
<1>. DEFINE L == K \ {keeper}
            p == Pooled(c, keeper, L)
            d == Decayed(p, at)
            o == Total(Obs(c), L \cup {keeper})
<1>0. L \cup {keeper} = K /\ L \in SUBSET DOMAIN c /\ keeper \in DOMAIN c /\ keeper \notin L
  OBVIOUS
<1>. HIDE DEF L
<1>1. /\ c[keeper] \in Row /\ Sound(c[keeper]) /\ c[keeper].inv = Open /\ c[keeper].by = Nobody
      /\ p \in Row /\ Strength(p) >= Strength(c[keeper])
      /\ o \in Nat
  BY <1>0, TableIsFinite, PooledIs
<1>2. /\ p.sal = c[keeper].sal /\ p.obs = o /\ p.slot = c[keeper].slot /\ p.to = c[keeper].to
      /\ p.rec = c[keeper].rec /\ p.seen = c[keeper].seen /\ p.phrase = c[keeper].phrase
      /\ p.kind = c[keeper].kind /\ p.inv = Open /\ p.by = Nobody
  <2>. DEFINE b == Smaller(MaxSalience, Total(Strengths(c), L \cup {keeper}))
  <2>1. p = [c[keeper] EXCEPT !.obs = o, !.base = b]
    BY <1>0, PooledIs
  <2>. HIDE DEF p, b
  <2>. QED
    BY <1>1, <2>1 DEF Row
<1>. HIDE DEF p, o
<1>3. p.sal >= SalienceFloor
  BY <1>1, <1>2 DEF Sound
<1>4. /\ d \in Row /\ Sound(d) /\ d = [p EXCEPT !.base = d.base, !.sal = d.sal]
      /\ d.base >= Strength(p) /\ Strength(d) = d.base /\ d.sal = Curve(Strength(d), Age(d, at))
  BY <1>1, <1>3, DecayedIs
<1>5. Becomes(c[keeper], d, at) /\ d.inv = Open /\ d.obs = o
  <2>. HIDE DEF d
  <2>1. /\ d.obs = p.obs /\ d.slot = p.slot /\ d.to = p.to
        /\ d.rec = p.rec /\ d.seen = p.seen /\ d.phrase = p.phrase
        /\ d.kind = p.kind /\ d.inv = p.inv /\ d.by = p.by
    BY <1>1, <1>4 DEF Row
  <2>2. Strength(c[keeper]) \in Nat /\ Strength(p) \in Nat /\ Strength(d) \in Nat /\ d.sal \in Nat
    BY <1>1, <1>4, StrengthIs
  <2>3. d.sal >= Curve(Strength(d), Age(d, at)) /\ Strength(d) >= Strength(c[keeper])
    BY <1>1, <1>4, <2>2
  <2>. QED
    BY <1>1, <1>2, <1>4, <2>1, <2>3 DEF Becomes
<1>6. a = [k \in DOMAIN c |-> CASE k = keeper -> d
                               [] k \in L -> [c[k] EXCEPT !.inv = at, !.by = keeper]
                               [] OTHER -> c[k]]
  BY DEF Absorbed, InFavourOf, p, L
<1>. HIDE DEF d
<1>7. a[keeper] = d
  BY <1>0, <1>6
<1>8. ASSUME NEW k \in L
      PROVE  Becomes(c[k], a[k], at) /\ a[k].inv # Open
  <2>1. a[k] = [c[k] EXCEPT !.inv = at, !.by = keeper]
    BY <1>0, <1>6
  <2>2. c[k] \in Row /\ Sound(c[k]) /\ c[k].inv = Open /\ c[k].by = Nobody
    BY <1>0, TableIsFinite
  <2>3. keeper \in Ids /\ keeper # Nobody /\ at # Open /\ at <= at
    BY RowIs, SalienceBounds DEF Table, Time, Open
  <2>4. /\ a[k] \in Row /\ a[k].inv = at /\ a[k].by = keeper
        /\ a[k].slot = c[k].slot /\ a[k].to = c[k].to
        /\ a[k].rec = c[k].rec /\ a[k].seen = c[k].seen /\ a[k].phrase = c[k].phrase
        /\ a[k].kind = c[k].kind /\ a[k].sal = c[k].sal /\ a[k].base = c[k].base
    BY <2>1, <2>2, <2>3 DEF Row
  <2>5. Sound(a[k])
    BY <2>2, <2>4 DEF Sound, Strength
  <2>. QED
    BY <2>2, <2>3, <2>4, <2>5 DEF Becomes
<1>9. \A k \in DOMAIN c : k \notin L \cup {keeper} => a[k] = c[k]
  BY <1>0, <1>6
<1>10. DOMAIN a = DOMAIN c /\ Table(a)
  <2>1. \A k \in DOMAIN c : a[k] \in Row
    <3>. TAKE k \in DOMAIN c
    <3>1. CASE k = keeper
      BY <1>4, <1>7, <3>1
    <3>2. CASE k \in L
      BY <1>8, <3>2 DEF Becomes
    <3>3. CASE k \notin L \cup {keeper}
      BY <1>9, <3>3, TableIsFinite
    <3>. QED
      BY <3>1, <3>2, <3>3
  <2>. QED
    BY <1>6, <2>1 DEF Table
<1>. QED
  <2>1. /\ \A k \in DOMAIN c : k \notin K => a[k] = c[k]
        /\ \A k \in K : Becomes(c[k], a[k], at)
        /\ \A k \in K \ {keeper} : a[k].inv # Open
    BY <1>0, <1>5, <1>7, <1>8, <1>9 DEF L
  <2>2. a[keeper].inv = Open /\ a[keeper].obs = Total(Obs(c), K)
    BY <1>0, <1>5, <1>7 DEF o
  <2>3. Settled(a[keeper], at)
    BY <1>1, <1>3, <1>7, DecayedSettles DEF d
  <2>. QED
    BY <1>10, <2>1, <2>2, <2>3

-----------------------------------------------------------------------------
(* A merge                                                                 *)

(* Claims as a pass has them in hand before it merges. *)
InHand(c) ==
    Table(c) /\ \A k \in DOMAIN c : Sound(c[k]) /\ c[k].inv = Open /\ c[k].by = Nobody

(* What a merge may have made of them: what the slot was heard is held by  *)
(* the claims that are left.                                               *)
Good(c, acc, at) ==
    /\ DOMAIN acc = DOMAIN c /\ Table(acc)
    /\ \A k \in DOMAIN c : Becomes(c[k], acc[k], at)
    /\ \A s \in Slots : Total(Obs(acc), OpenIn(acc, s)) = Total(Obs(c), InSlot(c, s))

LEMMA GoodAtFirst ==
    ASSUME NEW c, InHand(c), NEW at
    PROVE  Good(c, c, at)
<1>1. \A k \in DOMAIN c : Becomes(c[k], c[k], at)
  BY TableIsFinite, BecomesItself DEF InHand
<1>2. \A s : OpenIn(c, s) = InSlot(c, s)
  BY DEF OpenIn, InSlot, InHand
<1>. QED
  BY <1>1, <1>2 DEF Good, InHand

LEMMA ClusterIs ==
    ASSUME NEW c, InHand(c), NEW at, NEW acc, Good(c, acc, at), NEW i \in DOMAIN c,
           acc[i].inv = Open
    PROVE  /\ i \in Cluster(c, i, acc) /\ Cluster(c, i, acc) \subseteq OpenIn(acc, c[i].slot)
           /\ Best(c, Cluster(c, i, acc)) \in Cluster(c, i, acc)
<1>1. i \in Cluster(c, i, acc)
  BY DEF Cluster
<1>2. Cluster(c, i, acc) \subseteq OpenIn(acc, c[i].slot)
  BY DEF Cluster, Following, OpenIn, Good, Becomes
<1>3. Cluster(c, i, acc) \subseteq DOMAIN c
  BY <1>2 DEF OpenIn, Good
<1>. QED
  BY <1>1, <1>2, <1>3, BestIs DEF InHand

LEMMA MergedAtIsGood ==
    ASSUME NEW c, InHand(c), NEW at \in Time, NEW acc, Good(c, acc, at), NEW i \in DOMAIN c
    PROVE  Good(c, MergedAt(c, at, i, acc), at)
<1>. DEFINE K      == Cluster(c, i, acc)
            keeper == Best(c, K)
            L      == K \ {keeper}
            a      == Absorbed(acc, keeper, L, at)
            sl     == c[i].slot
<1>1. CASE acc[i].inv # Open \/ K = {i}
  BY <1>1 DEF MergedAt
<1>2. CASE acc[i].inv = Open /\ K # {i}
  <2>0. MergedAt(c, at, i, acc) = a
    BY <1>2 DEF MergedAt
  <2>1. /\ i \in K /\ K \subseteq OpenIn(acc, sl) /\ keeper \in K
        /\ Table(acc) /\ DOMAIN acc = DOMAIN c
    BY <1>2, ClusterIs DEF Good
  <2>. HIDE DEF K, keeper
  <2>2. /\ keeper \in DOMAIN acc /\ L \in SUBSET DOMAIN acc /\ keeper \notin L
        /\ L \cup {keeper} = K
    BY <2>1 DEF OpenIn
  <2>3. \A k \in K : /\ k \in DOMAIN c /\ acc[k].inv = Open /\ acc[k].slot = sl
                     /\ Becomes(c[k], acc[k], at)
    BY <2>1 DEF OpenIn, Good
  <2>4. \A k \in K : Sound(acc[k]) /\ acc[k].inv = Open /\ acc[k].by = Nobody
    BY <2>2, <2>3 DEF Becomes
  <2>5. /\ DOMAIN a = DOMAIN acc /\ Table(a)
        /\ \A k \in DOMAIN acc : k \notin K => a[k] = acc[k]
        /\ \A k \in K : Becomes(acc[k], a[k], at)
        /\ \A k \in L : a[k].inv # Open
        /\ a[keeper].inv = Open
        /\ a[keeper].obs = Total(Obs(acc), K)
    <3>0. a = Absorbed(acc, keeper, K \ {keeper}, at)
      OBVIOUS
    <3>. HIDE DEF L, a
    <3>1. Table(acc) /\ K \in SUBSET DOMAIN acc /\ keeper \in K
      BY <2>1 DEF OpenIn
    <3>2. /\ DOMAIN a = DOMAIN acc /\ Table(a)
          /\ \A k \in DOMAIN acc : k \notin K => a[k] = acc[k]
          /\ \A k \in K : Becomes(acc[k], a[k], at)
          /\ \A k \in K \ {keeper} : a[k].inv # Open
          /\ a[keeper].inv = Open
          /\ a[keeper].obs = Total(Obs(acc), K)
      BY ONLY <2>4, <3>0, <3>1, at \in Time, AbsorbedIs
    <3>. QED
      BY <3>2 DEF L
  <2>. HIDE DEF L, a
  <2>6. \A k \in DOMAIN c : Becomes(c[k], a[k], at)
    <3>. TAKE k \in DOMAIN c
    <3>1. CASE k \notin K
      BY <2>1, <2>5, <3>1 DEF Good
    <3>2. CASE k \in K
      <4>1. c[k] \in Row
        BY TableIsFinite DEF InHand
      <4>. QED
        BY <2>3, <2>5, <3>2, <4>1, BecomesInTwo
    <3>. QED
      BY <3>1, <3>2
  <2>7. \A k \in DOMAIN c : a[k].slot = acc[k].slot
    BY <2>1, <2>6 DEF Good, Becomes
  <2>8. \A k \in DOMAIN c : k \notin K => Obs(a)[k] = Obs(acc)[k]
    BY <2>1, <2>5 DEF Obs
  <2>9. \A k \in DOMAIN c : Obs(a)[k] \in Nat /\ Obs(acc)[k] \in Nat
    BY <2>1, <2>5, RowIs DEF Obs
  <2>10. ASSUME NEW s \in Slots
         PROVE  Total(Obs(a), OpenIn(a, s)) = Total(Obs(acc), OpenIn(acc, s))
    <3>0. \A T \in SUBSET DOMAIN c : IsFiniteSet(T)
      BY TableIsFinite DEF InHand
    <3>1. CASE s # sl
      <4>1. \A k \in DOMAIN c : acc[k].slot = s => k \notin K
        BY <2>3, <3>1
      <4>2. OpenIn(a, s) = OpenIn(acc, s) /\ OpenIn(a, s) \in SUBSET DOMAIN c
        BY <2>1, <2>5, <2>7, <4>1 DEF OpenIn
      <4>3. \A k \in OpenIn(a, s) : Obs(a)[k] \in Nat /\ Obs(a)[k] = Obs(acc)[k]
        BY <2>7, <2>8, <2>9, <4>1, <4>2 DEF OpenIn
      <4>4. IsFiniteSet(OpenIn(a, s))
        BY <3>0, <4>2
      <4>5. Total(Obs(a), OpenIn(a, s)) = Total(Obs(acc), OpenIn(a, s))
        BY <4>3, <4>4, TotalSame
      <4>. QED
        BY <4>2, <4>5
    <3>2. CASE s = sl
      <4>. DEFINE R == OpenIn(acc, sl) \ K
      <4>1. /\ R \in SUBSET DOMAIN c /\ R \cup {keeper} \in SUBSET DOMAIN c
            /\ K \in SUBSET DOMAIN c /\ OpenIn(acc, sl) = K \cup R /\ K \cap R = {}
        BY <2>1, <2>2 DEF OpenIn
      <4>2. OpenIn(a, sl) = R \cup {keeper} /\ keeper \notin R
        <5>1. OpenIn(a, sl) \subseteq R \cup {keeper}
          BY <2>1, <2>2, <2>5, <2>7 DEF OpenIn
        <5>2. R \cup {keeper} \subseteq OpenIn(a, sl) /\ keeper \notin R
          BY <2>1, <2>2, <2>3, <2>5, <2>7 DEF OpenIn
        <5>. QED
          BY <5>1, <5>2
      <4>. HIDE DEF R
      <4>3. (R \cup {keeper}) \ {keeper} = R /\ \A k \in R : Obs(a)[k] = Obs(acc)[k]
        BY <2>8, <4>1, <4>2
      <4>4. IsFiniteSet(R) /\ IsFiniteSet(K) /\ IsFiniteSet(R \cup {keeper})
        BY <3>0, <4>1
      <4>5. Total(Obs(a), R \cup {keeper}) = Obs(a)[keeper] + Total(Obs(a), R)
        <5>1. /\ \A k \in R \cup {keeper} : Obs(a)[k] \in Nat
              /\ keeper \in R \cup {keeper}
          BY <2>9, <4>1
        <5>2. Total(Obs(a), R \cup {keeper}) = Obs(a)[keeper] + Total(Obs(a), (R \cup {keeper}) \ {keeper})
          BY <4>4, <5>1, TotalAdds
        <5>. QED
          BY <4>3, <5>2
      <4>6. Total(Obs(a), R) = Total(Obs(acc), R)
        BY <2>9, <4>1, <4>3, <4>4, TotalSame
      <4>7. Total(Obs(acc), K \cup R) = Total(Obs(acc), K) + Total(Obs(acc), R)
        BY <2>9, <4>1, <4>4, TotalOfBoth
      <4>8. Obs(a)[keeper] = Total(Obs(acc), K)
        BY <2>2, <2>5 DEF Obs
      <4>. QED
        BY <3>2, <4>1, <4>2, <4>5, <4>6, <4>7, <4>8
    <3>. QED
      BY <3>1, <3>2
  <2>. QED
    BY <2>0, <2>1, <2>5, <2>6, <2>10 DEF Good
<1>. QED
  BY <1>1, <1>2

(* A merge goes through the claims in the order of their text: what is     *)
(* left after those in s is what the last of s makes of the rest.          *)
LEMMA MergeSteps ==
    ASSUME NEW c, InHand(c), NEW at \in Time
    PROVE  \E f : /\ Merged(c, at) = f[DOMAIN c] /\ f[{}] = c
                  /\ \A s \in SUBSET DOMAIN c :
                        /\ Good(c, f[s], at)
                        /\ s # {} => f[s] = MergedAt(c, at, LastOf(c, s), f[s \ {LastOf(c, s)}])
<1>. DEFINE D == DOMAIN c
            V == {acc \in [D -> Row] : Good(c, acc, at)}
            g == [p \in D \X V |-> MergedAt(c, at, p[1], p[2])]
            l == [s \in SUBSET D |-> LastOf(c, s)]
            Is(h) == h = [s \in SUBSET D |-> IF s = {} THEN c
                              ELSE MergedAt(c, at, LastOf(c, s), h[s \ {LastOf(c, s)}])]
            f == CHOOSE h : Is(h)
<1>1. Merged(c, at) = f[D]
  BY DEF Merged, MapThenFoldSet
<1>2. \A acc : acc \in V <=> Good(c, acc, at)
  BY DEF Good, Table
<1>3. \A s \in SUBSET D : s # {} => LastOf(c, s) \in s /\ l[s] = LastOf(c, s)
  BY LastIs DEF InHand
<1>4. \A i \in D, acc \in V : /\ g[<<i, acc>>] = MergedAt(c, at, i, acc)
                              /\ MergedAt(c, at, i, acc) \in V
  <2>1. \A i \in D, acc \in V : g[<<i, acc>>] = MergedAt(c, at, i, acc)
    OBVIOUS
  <2>2. \A i \in D, acc \in V : MergedAt(c, at, i, acc) \in V
    <3>. HIDE DEF V
    <3>. QED
      BY <1>2, MergedAtIsGood
  <2>. QED
    BY <2>1, <2>2
<1>5. c \in V /\ IsFiniteSet(D)
  BY <1>2, GoodAtFirst, TableIsFinite DEF InHand
<1>. HIDE DEF V, g, l
<1>6. PICK h : IsFold(h, D, c, g, l)
  <2>1. \A s \in SUBSET D : s # {} => l[s] \in s
    BY <1>3
  <2>. QED
    BY <1>5, <2>1, FoldExists
<1>7. \A s \in SUBSET D : h[s] \in V
  <2>1. \A s \in SUBSET D : s # {} => l[s] \in s
    BY <1>3
  <2>2. \A i \in D, acc \in V : g[<<i, acc>>] \in V
    BY <1>4
  <2>. QED
    BY <1>5, <1>6, <2>1, <2>2, FoldType
<1>8. Is(h)
  <2>1. h = [s \in SUBSET D |-> h[s]]
    BY <1>6 DEF IsFold
  <2>2. ASSUME NEW s \in SUBSET D
        PROVE  h[s] = IF s = {} THEN c
                      ELSE MergedAt(c, at, LastOf(c, s), h[s \ {LastOf(c, s)}])
    <3>1. CASE s = {}
      BY <1>6, <3>1 DEF IsFold
    <3>2. CASE s # {}
      <4>. DEFINE x == LastOf(c, s)
      <4>1. x \in s /\ l[s] = x
        BY <1>3, <3>2
      <4>. HIDE DEF x
      <4>2. h[s] = g[<<x, h[s \ {x}]>>]
        BY <1>6, <3>2, <4>1 DEF IsFold
      <4>3. h[s \ {x}] \in V /\ x \in D
        BY <1>7, <4>1
      <4>4. h[s] = MergedAt(c, at, x, h[s \ {x}])
        BY <1>4, <4>2, <4>3
      <4>. QED
        BY <3>2, <4>4 DEF x
    <3>. QED
      BY <3>1, <3>2
  <2>. QED
    BY <2>1, <2>2, Zenon
<1>9. Is(f)
  <2>. HIDE DEF Is
  <2>. QED
    BY <1>8, Zenon
<1>10. /\ f[{}] = c
       /\ \A s \in SUBSET D : s # {} =>
             f[s] = MergedAt(c, at, LastOf(c, s), f[s \ {LastOf(c, s)}])
  <2>. HIDE DEF f
  <2>. QED
    BY <1>9
<1>. HIDE DEF f
<1>11. \A s \in SUBSET D : f[s] \in V
  <2>. DEFINE G == {s \in SUBSET D : f[s] \in V}
  <2>1. {} \in G
    BY <1>5, <1>10
  <2>2. ASSUME NEW s \in SUBSET D, s # {}, \A x \in s : s \ {x} \in G
        PROVE  s \in G
    <3>. DEFINE x == LastOf(c, s)
    <3>1. x \in s /\ f[s] = MergedAt(c, at, x, f[s \ {x}])
      BY <1>3, <1>10, <2>2
    <3>. HIDE DEF x
    <3>2. f[s \ {x}] \in V /\ x \in D
      BY <2>2, <3>1
    <3>. QED
      BY <1>4, <3>1, <3>2
  <2>3. SUBSET D \subseteq G
    <3>. HIDE DEF G, D
    <3>. QED
      BY <1>5, <2>1, <2>2, SubsetInduction
  <2>. QED
    BY <2>3
<1>. QED
  BY <1>1, <1>2, <1>10, <1>11

LEMMA MergedIsGood ==
    ASSUME NEW c, InHand(c), NEW at \in Time
    PROVE  Good(c, Merged(c, at), at)
<1>1. PICK f : /\ Merged(c, at) = f[DOMAIN c]
               /\ \A s \in SUBSET DOMAIN c : Good(c, f[s], at)
  BY MergeSteps
<1>2. Good(c, f[DOMAIN c], at)
  BY <1>1
<1>. QED
  BY <1>1, <1>2

-----------------------------------------------------------------------------
(* The stages of a pass                                                    *)

(* Two tables that hold what claims were heard alike.                      *)
LEMMA SameObs ==
    ASSUME NEW c, Table(c), NEW d, Table(d), DOMAIN d = DOMAIN c,
           NEW S \in SUBSET DOMAIN c, \A k \in S : d[k].obs = c[k].obs
    PROVE  Total(Obs(d), S) = Total(Obs(c), S)
<1>1. IsFiniteSet(S) /\ \A k \in S : k \in DOMAIN c
  BY TableIsFinite
<1>2. \A k \in S : Obs(d)[k] \in Nat /\ Obs(d)[k] = Obs(c)[k]
  BY <1>1, RowIs DEF Obs
<1>. QED
  BY <1>1, <1>2, TotalSame

LEMMA FadedIs ==
    ASSUME NEW c, InHand(c), NEW at \in Time, NEW d, d = Faded(c, at)
    PROVE  /\ DOMAIN d = DOMAIN c /\ InHand(d)
           /\ \A k \in DOMAIN c : Becomes(c[k], d[k], at)
           /\ \A s \in Slots : Total(Obs(d), InSlot(d, s)) = Total(Obs(c), InSlot(c, s))
<1>1. DOMAIN d = DOMAIN c /\ \A k \in DOMAIN c : d[k] = Decayed(c[k], at)
  BY DEF Faded
<1>2. ASSUME NEW k \in DOMAIN c
      PROVE  /\ Becomes(c[k], d[k], at) /\ d[k] \in Row /\ Sound(d[k])
             /\ d[k].inv = Open /\ d[k].by = Nobody
             /\ d[k].obs = c[k].obs /\ d[k].slot = c[k].slot
  <2>1. c[k] \in Row /\ Sound(c[k]) /\ c[k].inv = Open /\ c[k].by = Nobody
    BY TableIsFinite DEF InHand
  <2>2. c[k].sal >= SalienceFloor
    BY <2>1 DEF Sound
  <2>3. /\ d[k] \in Row /\ Sound(d[k]) /\ d[k] = [c[k] EXCEPT !.base = d[k].base, !.sal = d[k].sal]
        /\ d[k].base >= Strength(c[k]) /\ Strength(d[k]) = d[k].base
        /\ d[k].sal = Curve(Strength(d[k]), Age(d[k], at))
    <3>. DEFINE r == c[k]
                e == Decayed(r, at)
    <3>1. d[k] = e
      BY <1>1
    <3>2. r \in Row /\ r.sal >= SalienceFloor
      BY <2>1, <2>2
    <3>. HIDE DEF r
    <3>3. /\ e \in Row /\ Sound(e) /\ e = [r EXCEPT !.base = e.base, !.sal = e.sal]
          /\ e.base >= Strength(r) /\ Strength(e) = e.base
          /\ e.sal = Curve(Strength(e), Age(e, at))
      BY <3>2, DecayedIs
    <3>. HIDE DEF e
    <3>. QED
      BY <3>1, <3>3 DEF r
  <2>4. /\ d[k].obs = c[k].obs /\ d[k].slot = c[k].slot /\ d[k].to = c[k].to
        /\ d[k].rec = c[k].rec /\ d[k].seen = c[k].seen /\ d[k].phrase = c[k].phrase
        /\ d[k].kind = c[k].kind /\ d[k].inv = c[k].inv /\ d[k].by = c[k].by
    BY <2>1, <2>3 DEF Row
  <2>5. d[k].sal \in Nat
    BY <2>3, StrengthIs
  <2>6. d[k].sal >= Curve(Strength(d[k]), Age(d[k], at)) /\ Strength(d[k]) >= Strength(c[k])
    BY <2>3, <2>5
  <2>. QED
    BY <2>1, <2>3, <2>4, <2>6 DEF Becomes
<1>3. Table(d)
  <2>1. d = [k \in DOMAIN c |-> d[k]]
    BY DEF Faded
  <2>. QED
    BY <1>1, <1>2, <2>1 DEF InHand, Table
<1>4. InHand(d)
  BY <1>1, <1>2, <1>3 DEF InHand
<1>5. ASSUME NEW s \in Slots
      PROVE  Total(Obs(d), InSlot(d, s)) = Total(Obs(c), InSlot(c, s))
  <2>1. InSlot(d, s) = InSlot(c, s)
    BY <1>1, <1>2 DEF InSlot
  <2>2. InSlot(c, s) \in SUBSET DOMAIN c /\ \A k \in InSlot(c, s) : d[k].obs = c[k].obs
    BY <1>2 DEF InSlot
  <2>3. Total(Obs(d), InSlot(c, s)) = Total(Obs(c), InSlot(c, s))
    BY <1>1, <1>3, <2>2, SameObs DEF InHand
  <2>. QED
    BY <2>1, <2>3
<1>. QED
  BY <1>1, <1>2, <1>4, <1>5

LEMMA PromotedIs ==
    ASSUME NEW c, InHand(c), NEW at \in Time, NEW acc, Good(c, acc, at),
           NEW d, d = Promoted(acc, at)
    PROVE  Good(c, d, at)
<1>1. /\ DOMAIN d = DOMAIN c /\ DOMAIN acc = DOMAIN c /\ Table(acc)
      /\ \A k \in DOMAIN c : d[k] = acc[k] \/ d[k] = [acc[k] EXCEPT !.kind = "semantic"]
  BY DEF Promoted, Good
<1>2. ASSUME NEW k \in DOMAIN c
      PROVE  /\ d[k] \in Row /\ d[k].obs = acc[k].obs /\ d[k].base = acc[k].base
             /\ d[k].sal = acc[k].sal /\ d[k].slot = acc[k].slot /\ d[k].to = acc[k].to
             /\ d[k].rec = acc[k].rec /\ d[k].seen = acc[k].seen /\ d[k].phrase = acc[k].phrase
             /\ d[k].inv = acc[k].inv /\ d[k].by = acc[k].by
             /\ acc[k].kind = "semantic" => d[k].kind = "semantic"
  <2>1. acc[k] \in Row
    BY <1>1, TableIsFinite
  <2>. QED
    BY <1>1, <2>1 DEF Row
<1>3. \A k \in DOMAIN c : Becomes(c[k], d[k], at)
  <2>. TAKE k \in DOMAIN c
  <2>1. Strength(d[k]) = Strength(acc[k]) /\ Age(d[k], at) = Age(acc[k], at)
    BY <1>2 DEF Strength, Age
  <2>2. Sound(d[k]) <=> Sound(acc[k])
    BY <1>2, <2>1 DEF Sound
  <2>3. Becomes(c[k], acc[k], at)
    BY DEF Good
  <2>. QED
    BY <1>2, <2>1, <2>2, <2>3 DEF Becomes
<1>4. Table(d)
  <2>1. d = [k \in DOMAIN c |-> d[k]]
    BY <1>1 DEF Promoted
  <2>. QED
    BY <1>1, <1>2, <2>1 DEF InHand, Table
<1>5. ASSUME NEW s \in Slots
      PROVE  Total(Obs(d), OpenIn(d, s)) = Total(Obs(c), InSlot(c, s))
  <2>1. OpenIn(d, s) = OpenIn(acc, s)
    BY <1>1, <1>2 DEF OpenIn
  <2>2. OpenIn(acc, s) \in SUBSET DOMAIN acc /\ \A k \in OpenIn(acc, s) : d[k].obs = acc[k].obs
    BY <1>1, <1>2 DEF OpenIn
  <2>3. Total(Obs(d), OpenIn(acc, s)) = Total(Obs(acc), OpenIn(acc, s))
    BY <1>1, <1>4, <2>2, SameObs
  <2>. QED
    BY <2>1, <2>3 DEF Good
<1>. QED
  BY <1>1, <1>3, <1>4, <1>5 DEF Good

(* What a pass makes of the claims it read.                                *)
LEMMA MadeIsGood ==
    ASSUME NEW c, InHand(c), NEW at \in Time, NEW stages
    PROVE  Good(c, Made(c, at, stages), at)
<1>. DEFINE faded  == IF "decay" \in stages THEN Faded(c, at) ELSE c
            merged == IF "merge" \in stages THEN Merged(faded, at) ELSE faded
<1>1. /\ InHand(faded) /\ DOMAIN faded = DOMAIN c
      /\ \A k \in DOMAIN c : Becomes(c[k], faded[k], at)
      /\ \A s \in Slots : Total(Obs(faded), InSlot(faded, s)) = Total(Obs(c), InSlot(c, s))
  <2>1. CASE "decay" \in stages
    BY <2>1, FadedIs
  <2>2. CASE "decay" \notin stages
    BY <2>2, TableIsFinite, BecomesItself DEF InHand
  <2>. QED
    BY <2>1, <2>2
<1>2. Good(faded, merged, at)
  <2>. HIDE DEF faded
  <2>1. CASE "merge" \in stages
    BY <1>1, <2>1, MergedIsGood
  <2>2. CASE "merge" \notin stages
    BY <1>1, <2>2, GoodAtFirst
  <2>. QED
    BY <2>1, <2>2
<1>3. Made(c, at, stages) = IF "promote" \in stages THEN Promoted(merged, at) ELSE merged
  BY DEF Made
<1>. HIDE DEF faded, merged
<1>4. Good(c, merged, at)
  <2>1. \A k \in DOMAIN c : Becomes(c[k], merged[k], at)
    <3>. TAKE k \in DOMAIN c
    <3>1. c[k] \in Row /\ Becomes(c[k], faded[k], at) /\ Becomes(faded[k], merged[k], at)
      BY <1>1, <1>2, TableIsFinite DEF Good, InHand
    <3>. QED
      BY <3>1, BecomesInTwo
  <2>. QED
    BY <1>1, <1>2, <2>1 DEF Good
<1>5. Good(c, Promoted(merged, at), at)
  BY <1>4, PromotedIs
<1>. QED
  BY <1>3, <1>4, <1>5

-----------------------------------------------------------------------------
(* What is written together                                                *)

(* What a merge made of the claims of a slot is in one unit, and its       *)
(* claims hold what they were heard before and no more.                    *)
Whole(read, made, units, s) ==
    LET merged == MergedIn(read, made, s)
    IN  /\ \A u \in units : merged \cap u = {} \/ merged \subseteq u
        /\ Total(Obs(read), merged) = Total(Obs(made), {k \in merged : made[k].inv = Open})

Decision(units, read, made, at) ==
    /\ Table(read) /\ Table(made) /\ DOMAIN made = DOMAIN read
    /\ UNION units \subseteq DOMAIN read
    /\ \A k \in DOMAIN read : Becomes(read[k], made[k], at)
    /\ \A s \in Slots : Whole(read, made, units, s)

(* The claims of one slot that a merge left alone were heard as before, so *)
(* those it changed were, too.                                             *)
LEMMA MergedInIsEven ==
    ASSUME NEW c, InHand(c), NEW at, NEW made, Good(c, made, at), NEW s \in Slots,
           NEW M, M = MergedIn(c, made, s)
    PROVE  Total(Obs(c), M) = Total(Obs(made), {k \in M : made[k].inv = Open})
<1>. DEFINE S == InSlot(c, s)
            R == S \ M
            O == {k \in M : made[k].inv = Open}
<1>0. /\ Table(c) /\ Table(made) /\ DOMAIN made = DOMAIN c
      /\ Total(Obs(made), OpenIn(made, s)) = Total(Obs(c), S)
      /\ \A k \in DOMAIN c : made[k].slot = c[k].slot /\ c[k].inv = Open
  BY DEF Good, InHand, Becomes
<1>1. S \in SUBSET DOMAIN c /\ M \subseteq S /\ S = R \cup M /\ R \cap M = {} /\ O \subseteq M
  BY DEF InSlot, MergedIn
<1>2. OpenIn(made, s) = R \cup O /\ R \cap O = {}
  BY <1>0 DEF InSlot, MergedIn, OpenIn
<1>3. \A k \in R : made[k].obs = c[k].obs
  BY <1>0 DEF InSlot, MergedIn
<1>. HIDE DEF S, R, O
<1>4. IsFiniteSet(R) /\ IsFiniteSet(M) /\ IsFiniteSet(O) /\ R \in SUBSET DOMAIN c
  <2>1. R \in SUBSET DOMAIN c /\ M \in SUBSET DOMAIN c /\ O \in SUBSET DOMAIN c
    BY <1>1
  <2>. QED
    BY <1>0, <2>1, TableIsFinite
<1>5. (\A k \in DOMAIN c : Obs(c)[k] \in Nat) /\ (\A k \in DOMAIN c : Obs(made)[k] \in Nat)
  BY <1>0, RowIs DEF Obs
<1>6. Total(Obs(made), R) = Total(Obs(c), R)
  BY <1>0, <1>3, <1>4, SameObs
<1>7. Total(Obs(c), S) = Total(Obs(c), R) + Total(Obs(c), M)
  <2>1. \A k \in R \cup M : Obs(c)[k] \in Nat
    BY <1>1, <1>5
  <2>. QED
    BY <1>1, <1>4, <2>1, TotalOfBoth
<1>8. Total(Obs(made), OpenIn(made, s)) = Total(Obs(made), R) + Total(Obs(made), O)
  <2>1. \A k \in R \cup O : Obs(made)[k] \in Nat
    BY <1>1, <1>5
  <2>. QED
    BY <1>2, <1>4, <2>1, TotalOfBoth
<1>9. Total(Obs(c), R) \in Nat /\ Total(Obs(c), M) \in Nat /\ Total(Obs(made), O) \in Nat
  <2>1. \A k \in R : Obs(c)[k] \in Nat
    BY <1>1, <1>5
  <2>2. \A k \in M : Obs(c)[k] \in Nat
    BY <1>1, <1>5
  <2>3. \A k \in O : Obs(made)[k] \in Nat
    BY <1>1, <1>5
  <2>. QED
    BY <1>4, <2>1, <2>2, <2>3, TotalAdds
<1>10. Total(Obs(c), M) = Total(Obs(made), O)
  BY <1>0, <1>6, <1>7, <1>8, <1>9
<1>. QED
  BY <1>10 DEF O

LEMMA RestrictIs ==
    ASSUME NEW c, Table(c), NEW S \in SUBSET DOMAIN c, NEW r, r = Restrict(c, S)
    PROVE  Table(r) /\ DOMAIN r = S /\ \A k \in S : r[k] = c[k]
<1>1. r = [k \in S |-> c[k]]
  BY DEF Restrict
<1>2. \A k \in S : k \in Ids /\ c[k] \in Row
  BY DEF Table
<1>. QED
  BY <1>1, <1>2 DEF Table

LEMMA DecidedIs ==
    ASSUME NEW c, InHand(c), NEW at \in Time, NEW stages,
           NEW d, d = Decided(c, at, stages), d # Idle
    PROVE  \E units, read, made :
              /\ d = [doing |-> "writing", units |-> units, read |-> read, made |-> made]
              /\ DOMAIN read \subseteq DOMAIN c
              /\ Decision(units, read, made, at)
<1>. DEFINE made  == Made(c, at, stages)
            units == Units(c, made)
            U     == UNION units
            rd    == Restrict(c, U)
            md    == Restrict(made, U)
            M(s)  == MergedIn(c, made, s)
            together == {M(s) : s \in Slots} \ {{}}
            alone == Touched(c, made) \ UNION together
<1>1. d = [doing |-> "writing", units |-> units, read |-> rd, made |-> md]
  BY DEF Decided
<1>2. Good(c, made, at)
  BY MadeIsGood
<1>3. units = together \cup {{k} : k \in alone}
  BY DEF Units
<1>. HIDE DEF made, units
<1>4. /\ Table(c) /\ Table(made) /\ DOMAIN made = DOMAIN c
      /\ \A k \in DOMAIN c : Becomes(c[k], made[k], at)
  BY <1>2 DEF InHand, Good
<1>5. U \subseteq DOMAIN c
  BY <1>3 DEF MergedIn, Touched
<1>. HIDE DEF U
<1>6. Table(rd) /\ DOMAIN rd = U /\ \A k \in U : rd[k] = c[k]
  BY <1>4, <1>5, RestrictIs
<1>7. Table(md) /\ DOMAIN md = U /\ \A k \in U : md[k] = made[k]
  BY <1>4, <1>5, RestrictIs
<1>. HIDE DEF rd, md
<1>8. ASSUME NEW s \in Slots
      PROVE  Whole(rd, md, units, s)
  <2>1. M(s) \subseteq U
    BY <1>3 DEF U
  <2>2. MergedIn(rd, md, s) = M(s)
    BY <1>5, <1>6, <1>7, <2>1 DEF MergedIn
  <2>3. \A u \in units : M(s) \cap u = {} \/ M(s) \subseteq u
    <3>1. ASSUME NEW u \in units, NEW k \in M(s) \cap u
          PROVE  M(s) \subseteq u
      <4>1. CASE u \in together
        <5>1. PICK t \in Slots : u = M(t)
          BY <4>1
        <5>2. t = s
          BY <3>1, <5>1 DEF MergedIn
        <5>. QED
          BY <5>1, <5>2
      <4>2. CASE u \in {{j} : j \in alone}
        <5>1. k \in alone /\ M(s) \in together
          BY <3>1, <4>2
        <5>. QED
          BY <3>1, <5>1
      <4>. QED
        BY <1>3, <4>1, <4>2
    <3>. QED
      BY <3>1
  <2>. DEFINE m == M(s)
  <2>4. m \in SUBSET DOMAIN c /\ IsFiniteSet(m)
    <3>1. m \in SUBSET DOMAIN c
      BY DEF MergedIn
    <3>. QED
      BY <1>4, <3>1, TableIsFinite
  <2>5. Total(Obs(c), m) = Total(Obs(made), {k \in m : made[k].inv = Open})
    BY <1>2, MergedInIsEven
  <2>. HIDE DEF m
  <2>6. Total(Obs(rd), m) = Total(Obs(c), m)
    <3>1. \A k \in m : Obs(rd)[k] \in Nat /\ Obs(rd)[k] = Obs(c)[k]
      BY <1>4, <1>6, <2>1, <2>4, RowIs DEF Obs, m
    <3>. QED
      BY <2>4, <3>1, TotalSame
  <2>7. Total(Obs(md), {k \in m : md[k].inv = Open})
          = Total(Obs(made), {k \in m : made[k].inv = Open})
    <3>. DEFINE o == {k \in m : made[k].inv = Open}
    <3>1. {k \in m : md[k].inv = Open} = o
      BY <1>7, <2>1 DEF m
    <3>2. \A k \in o : Obs(md)[k] \in Nat /\ Obs(md)[k] = Obs(made)[k]
      BY <1>4, <1>7, <2>1, <2>4, RowIs DEF Obs, m
    <3>3. IsFiniteSet(o)
      BY <2>4, FS_Subset
    <3>. HIDE DEF o
    <3>4. Total(Obs(md), o) = Total(Obs(made), o)
      BY <3>2, <3>3, TotalSame
    <3>. QED
      BY <3>1, <3>4 DEF o
  <2>8. MergedIn(rd, md, s) = m /\ \A u \in units : m \cap u = {} \/ m \subseteq u
    BY <2>2, <2>3 DEF m
  <2>. QED
    BY <2>5, <2>6, <2>7, <2>8 DEF Whole
<1>9. Decision(units, rd, md, at)
  BY <1>4, <1>5, <1>6, <1>7, <1>8 DEF Decision, U
<1>10. DOMAIN rd \subseteq DOMAIN c
  BY <1>5, <1>6
<1>. QED
  BY <1>1, <1>9, <1>10

(* d is what c becomes when units that are still as they were read are     *)
(* written, with the claims in keep.                                       *)
Rewritten(c, d, units, read, made, keep) ==
    /\ Table(c) /\ Table(d) /\ DOMAIN d = DOMAIN c
    /\ \E kept \in SUBSET units : keep = UNION kept
    /\ \A k \in keep : k \in DOMAIN c /\ c[k] = read[k]
    /\ \A k \in DOMAIN c : d[k] = IF k \in keep THEN made[k] ELSE c[k]

(* Only the claims in keep change, and what each slot's believed claims    *)
(* were heard is what it was.                                              *)
Rewrites(c, d, keep, at) ==
    /\ \A k \in keep : k \in DOMAIN c /\ Becomes(c[k], d[k], at)
    /\ \A k \in DOMAIN c : k \notin keep => d[k] = c[k]
    /\ \A s \in Slots : Total(Obs(d), OpenIn(d, s)) = Total(Obs(c), OpenIn(c, s))

LEMMA WrittenIs ==
    ASSUME NEW c, NEW d, NEW units, NEW read, NEW made, NEW at, NEW keep,
           Decision(units, read, made, at), Rewritten(c, d, units, read, made, keep)
    PROVE  Rewrites(c, d, keep, at)
<1>0. PICK kept \in SUBSET units : keep = UNION kept
  BY DEF Rewritten
<1>1. \A k \in keep : k \in DOMAIN c /\ c[k] = read[k] /\ k \in DOMAIN read
  BY <1>0 DEF Decision, Rewritten
<1>2. DOMAIN d = DOMAIN c /\ \A k \in DOMAIN c : d[k] = IF k \in keep THEN made[k] ELSE c[k]
  BY DEF Rewritten
<1>3. /\ Table(read) /\ Table(made) /\ DOMAIN made = DOMAIN read
      /\ \A k \in DOMAIN read : Becomes(read[k], made[k], at)
      /\ \A s \in Slots : Whole(read, made, units, s)
  BY DEF Decision
<1>4. \A k \in keep : k \in DOMAIN c /\ Becomes(c[k], d[k], at)
  <2>. TAKE k \in keep
  <2>1. k \in DOMAIN c /\ c[k] = read[k] /\ d[k] = made[k] /\ k \in DOMAIN read
    BY <1>1, <1>2
  <2>. QED
    BY <1>3, <2>1
<1>5. Table(c) /\ Table(d)
  BY DEF Rewritten
<1>6. Table(c) /\ Table(d) /\ DOMAIN d = DOMAIN c
  BY <1>2, <1>5
<1>7. \A S \in SUBSET DOMAIN c :
          (\A k \in S : d[k].obs = c[k].obs) => Total(Obs(d), S) = Total(Obs(c), S)
  <2>. TAKE S \in SUBSET DOMAIN c
  <2>. SUFFICES ASSUME \A k \in S : d[k].obs = c[k].obs
                PROVE  Total(Obs(d), S) = Total(Obs(c), S)
    OBVIOUS
  <2>1. \A k \in S : d[k].obs = c[k].obs
    OBVIOUS
  <2>. QED
    BY ONLY <1>6, <2>1, S \in SUBSET DOMAIN c, SameObs
<1>8. ASSUME NEW s \in Slots
      PROVE  Total(Obs(d), OpenIn(d, s)) = Total(Obs(c), OpenIn(c, s))
  <2>. DEFINE M == MergedIn(read, made, s)
              O == {k \in M : made[k].inv = Open}
              A == OpenIn(c, s)
              R == A \ M
  <2>1. (M \cap keep = {} \/ M \subseteq keep) /\ Total(Obs(read), M) = Total(Obs(made), O)
    <3>1. /\ \A u \in units : M \cap u = {} \/ M \subseteq u
          /\ Total(Obs(read), M) = Total(Obs(made), O)
      BY <1>3 DEF Whole
    <3>. HIDE DEF M
    <3>. QED
      BY <1>0, <3>1
  <2>2. \A k \in DOMAIN read : /\ made[k].slot = read[k].slot /\ read[k].inv = Open
                               /\ k \notin M /\ read[k].slot = s =>
                                    made[k].obs = read[k].obs /\ made[k].inv = read[k].inv
    BY <1>3 DEF MergedIn, Becomes
  <2>3. \A k \in DOMAIN c : k \notin M /\ c[k].slot = s =>
            d[k].obs = c[k].obs /\ d[k].inv = c[k].inv
    BY <1>1, <1>2, <2>2
  <2>4. \A k \in DOMAIN c : d[k].slot = c[k].slot
    BY <1>1, <1>2, <2>2
  <2>5. CASE M \cap keep = {}
    <3>1. \A k \in DOMAIN c : c[k].slot = s => d[k].obs = c[k].obs /\ d[k].inv = c[k].inv
      <4>. TAKE k \in DOMAIN c
      <4>1. CASE k \in keep
        BY <2>3, <2>5, <4>1
      <4>2. CASE k \notin keep
        BY <1>2, <4>2
      <4>. QED
        BY <4>1, <4>2
    <3>2. OpenIn(d, s) = A
      BY <1>2, <2>4, <3>1 DEF OpenIn
    <3>3. A \in SUBSET DOMAIN c /\ \A k \in A : d[k].obs = c[k].obs
      BY <3>1 DEF OpenIn
    <3>. HIDE DEF A
    <3>4. Total(Obs(d), A) = Total(Obs(c), A)
      BY <1>7, <3>3
    <3>. QED
      BY <3>2, <3>4 DEF A
  <2>6. CASE M \subseteq keep
    <3>1. \A k \in M : /\ k \in DOMAIN c /\ c[k] = read[k] /\ d[k] = made[k]
                       /\ c[k].slot = s /\ c[k].inv = Open
      BY <1>1, <1>2, <2>2, <2>6 DEF MergedIn
    <3>2. /\ A = R \cup M /\ R \cap M = {} /\ R \subseteq A /\ A \in SUBSET DOMAIN c
          /\ O \subseteq M /\ R \cap O = {}
      BY <3>1 DEF OpenIn
    <3>3. OpenIn(d, s) = R \cup O
      BY <1>2, <2>3, <2>4, <3>1 DEF OpenIn
    <3>4. \A k \in R : d[k].obs = c[k].obs
      BY <2>3 DEF OpenIn
    <3>. HIDE DEF A, R, O, M
    <3>5. /\ IsFiniteSet(R) /\ IsFiniteSet(M) /\ IsFiniteSet(O)
          /\ R \in SUBSET DOMAIN c /\ M \in SUBSET DOMAIN c /\ O \in SUBSET DOMAIN c
      <4>1. R \in SUBSET DOMAIN c /\ M \in SUBSET DOMAIN c /\ O \in SUBSET DOMAIN c
        BY <3>2
      <4>. QED
        BY <1>5, <4>1, TableIsFinite
    <3>6. \A k \in DOMAIN c : Obs(c)[k] \in Nat /\ Obs(d)[k] \in Nat
      BY <1>2, <1>5, RowIs DEF Obs
    <3>7. Total(Obs(d), R) = Total(Obs(c), R)
      BY <1>7, <3>4, <3>5
    <3>8. Total(Obs(c), A) = Total(Obs(c), R) + Total(Obs(c), M)
      <4>1. \A k \in R \cup M : Obs(c)[k] \in Nat
        BY <3>5, <3>6
      <4>. QED
        BY <3>2, <3>5, <4>1, TotalOfBoth
    <3>9. Total(Obs(d), R \cup O) = Total(Obs(d), R) + Total(Obs(d), O)
      <4>1. \A k \in R \cup O : Obs(d)[k] \in Nat
        BY <3>5, <3>6
      <4>. QED
        BY <3>2, <3>5, <4>1, TotalOfBoth
    <3>10. Total(Obs(c), M) = Total(Obs(read), M)
      <4>1. \A k \in M : Obs(c)[k] \in Nat /\ Obs(c)[k] = Obs(read)[k]
        BY <1>1, <2>6, <3>1, <3>6 DEF Obs
      <4>. QED
        BY <3>5, <4>1, TotalSame
    <3>11. Total(Obs(d), O) = Total(Obs(made), O)
      <4>1. \A k \in O : Obs(d)[k] \in Nat /\ Obs(d)[k] = Obs(made)[k]
        BY <1>1, <1>2, <1>3, <2>6, <3>1, <3>2, <3>5, <3>6 DEF Obs
      <4>. QED
        BY <3>5, <4>1, TotalSame
    <3>12. Total(Obs(c), A) = Total(Obs(d), R \cup O)
      BY <2>1, <3>7, <3>8, <3>9, <3>10, <3>11 DEF O
    <3>. QED
      BY <3>3, <3>12 DEF A
  <2>. QED
    BY <2>1, <2>5, <2>6
<1>. QED
  BY <1>2, <1>4, <1>8 DEF Rewrites

-----------------------------------------------------------------------------
(* The inductive invariant: every claim is sound and lies on or above its  *)
(* curve, and what a pass has in hand, or has decided, is what claims it   *)
(* read may become.                                                        *)

RowOK(r, n) ==
    /\ Sound(r)
    /\ r.inv = Open => r.by = Nobody /\ r.sal >= Curve(Strength(r), Age(r, n))
    /\ r.inv # Open => r.inv <= n

Reads(q, n) ==
    /\ DOMAIN q = {"doing", "stages", "at", "next", "end", "read"} /\ q.doing = "reading"
    /\ q.at \in 0 .. n /\ InHand(q.read)

Writes(q, n) ==
    \E units, read, made :
        /\ q = [doing |-> "writing", units |-> units, read |-> read, made |-> made]
        /\ Decision(units, read, made, n)

PassOK(q, n) == q = Idle \/ Reads(q, n) \/ Writes(q, n)

RowsInv ==
    /\ now \in Time /\ last \in 0 .. MaxClaims
    /\ DOMAIN rows \subseteq 1 .. last /\ Table(rows)
    /\ \A k \in DOMAIN rows : RowOK(rows[k], now)

IInv ==
    /\ RowsInv
    /\ pass = [p \in Passes |-> pass[p]]
    /\ \A p \in Passes : PassOK(pass[p], now)

LEMMA InvImpliesType == IInv => TypeOK
<1>. SUFFICES ASSUME IInv PROVE TypeOK
  OBVIOUS
<1>1. ASSUME NEW p \in Passes
      PROVE  \/ pass[p] = Idle
             \/ /\ pass[p].doing = "reading"
                /\ pass[p].at \in 0 .. now
                /\ pass[p].read \in [DOMAIN pass[p].read -> Row]
             \/ /\ pass[p].doing = "writing"
                /\ UNION pass[p].units \subseteq DOMAIN pass[p].read
                /\ pass[p].made \in [DOMAIN pass[p].read -> Row]
  <2>1. CASE Reads(pass[p], now)
    BY <2>1 DEF Reads, InHand, Table
  <2>2. CASE Writes(pass[p], now)
    BY <2>2 DEF Writes, Decision, Table
  <2>. QED
    BY <2>1, <2>2 DEF IInv, PassOK
<1>. QED
  BY <1>1 DEF IInv, RowsInv, Table, TypeOK

LEMMA NothingInHand == InHand([k \in {} |-> {}])
  BY DEF InHand, Table

LEMMA InitInv == Init => IInv
<1>. SUFFICES ASSUME Init PROVE IInv
  OBVIOUS
<1>1. rows = [k \in {} |-> {}] /\ DOMAIN rows = {}
  BY DEF Init
<1>2. Table(rows)
  BY <1>1, NothingInHand DEF InHand
<1>3. RowsInv
  BY <1>1, <1>2, SalienceBounds DEF Init, RowsInv, Time
<1>. QED
  BY <1>3 DEF Init, IInv, PassOK

(* Only the state of a pass changes. *)
LEMMA PassMoves ==
    ASSUME IInv, NEW p \in Passes, NEW q, pass' = [pass EXCEPT ![p] = q], PassOK(q, now),
           UNCHANGED now, RowsInv'
    PROVE  IInv'
<1>1. pass' = [r \in Passes |-> pass'[r]]
  BY DEF IInv
<1>2. \A r \in Passes : pass'[r] = IF r = p THEN q ELSE pass[r]
  BY DEF IInv
<1>3. \A r \in Passes : PassOK(pass'[r], now)
  <2>. HIDE DEF PassOK
  <2>. QED
    BY <1>2 DEF IInv
<1>. QED
  BY <1>1, <1>3 DEF IInv

LEMMA RowsStay ==
    ASSUME RowsInv, UNCHANGED <<rows, last, now>>
    PROVE  RowsInv'
  BY DEF RowsInv

LEMMA PassesStay ==
    ASSUME IInv, UNCHANGED <<now, pass>>, RowsInv'
    PROVE  IInv'
  BY DEF IInv

LEMMA BeginInv ==
    ASSUME IInv, NEW p \in Passes, NEW stages, Begin(p, stages)
    PROVE  IInv'
<1>1. RowsInv'
  BY RowsStay DEF Begin, IInv
<1>. DEFINE q == [doing |-> "reading", stages |-> stages, at |-> now, next |-> 1, end |-> last,
                  read |-> [k \in {} |-> {}]]
<1>2. now \in 0 .. now
  BY SalienceBounds DEF IInv, RowsInv, Time
<1>3. Reads(q, now)
  BY <1>2, NothingInHand DEF Reads
<1>4. pass' = [pass EXCEPT ![p] = q] /\ UNCHANGED now
  BY DEF Begin
<1>. HIDE DEF q
<1>. QED
  BY <1>1, <1>3, <1>4, PassMoves DEF PassOK

LEMMA LeaveInv ==
    ASSUME IInv, NEW p \in Passes, Leave(p)
    PROVE  IInv'
<1>1. RowsInv'
  BY RowsStay DEF Leave, IInv
<1>2. PassOK(Idle, now)
  BY DEF PassOK
<1>3. pass' = [pass EXCEPT ![p] = Idle] /\ UNCHANGED now
  BY DEF Leave
<1>. QED
  BY <1>1, <1>2, <1>3, PassMoves

LEMMA DecisionLater ==
    ASSUME NEW at \in Time, NEW n \in Time, at <= n, NEW units, NEW read, NEW made,
           Decision(units, read, made, at)
    PROVE  Decision(units, read, made, n)
<1>1. \A k \in DOMAIN read : Becomes(read[k], made[k], n)
  BY BecomesLater DEF Decision
<1>. QED
  BY <1>1 DEF Decision

LEMMA ReadInv ==
    ASSUME IInv, NEW p \in Passes, Read(p)
    PROVE  IInv'
<1>. DEFINE q    == pass[p]
            held == {k \in DOMAIN rows \cap (q.next .. q.end) : rows[k].inv = Open}
            page == {k \in held : Cardinality({j \in held : j < k}) < Page}
            next == IF page = {} THEN q.next + Page ELSE 1 + Max(page)
            live == {k \in page : IsLive(rows[k], q.at)}
            read == [k \in DOMAIN q.read \cup live |-> IF k \in live THEN rows[k] ELSE q.read[k]]
            more == [q EXCEPT !.next = next, !.read = read]
            then == IF next <= q.end THEN more ELSE Decided(read, q.at, q.stages)
<1>1. q.doing = "reading" /\ pass' = [pass EXCEPT ![p] = then] /\ UNCHANGED <<rows, last, now>>
  BY DEF Read
<1>2. RowsInv'
  BY <1>1, RowsStay DEF IInv
<1>3. Reads(q, now)
  BY <1>1 DEF IInv, PassOK, Writes, Idle
<1>4. live \in SUBSET DOMAIN rows /\ \A k \in live : rows[k].inv = Open
  OBVIOUS
<1>. HIDE DEF live, next, then
<1>. DEFINE at == q.at
            rd == q.read
<1>5. at \in 0 .. now /\ InHand(rd)
  BY <1>3 DEF Reads
<1>6. q.at = at /\ q.read = rd
  OBVIOUS
<1>7. at \in Time /\ now \in Time /\ at <= now
  BY <1>5, SalienceBounds DEF IInv, RowsInv, Time
<1>. HIDE DEF q
<1>8. InHand(read)
  <2>1. DOMAIN read = DOMAIN rd \cup live
    BY <1>6
  <2>2. \A k \in DOMAIN read : /\ k \in Ids /\ read[k] \in Row /\ Sound(read[k])
                               /\ read[k].inv = Open /\ read[k].by = Nobody
    <3>. TAKE k \in DOMAIN read
    <3>1. CASE k \in live
      <4>1. k \in DOMAIN rows /\ read[k] = rows[k] /\ rows[k].inv = Open
        BY <1>4, <2>1, <3>1
      <4>. QED
        BY <4>1 DEF IInv, RowsInv, RowOK, Table
    <3>2. CASE k \notin live
      <4>1. k \in DOMAIN rd /\ read[k] = rd[k]
        BY <1>6, <2>1, <3>2
      <4>. QED
        BY <1>5, <4>1 DEF InHand, Table
    <3>. QED
      BY <3>1, <3>2
  <2>3. read = [k \in DOMAIN read |-> read[k]]
    OBVIOUS
  <2>. HIDE DEF read
  <2>. QED
    BY <2>2, <2>3 DEF InHand, Table
<1>. HIDE DEF read
<1>9. PassOK(then, now)
  <2>1. CASE next <= q.end
    <3>1. then = [q EXCEPT !.next = next, !.read = read]
      BY <2>1 DEF then
    <3>2. /\ DOMAIN then = DOMAIN q /\ then.doing = q.doing /\ then.at = q.at
          /\ then.read = read
      BY <1>3, <3>1 DEF Reads
    <3>3. Reads(then, now)
      BY <1>3, <1>8, <3>2 DEF Reads
    <3>. QED
      BY <3>3 DEF PassOK
  <2>2. CASE ~ (next <= q.end)
    <3>1. then = Decided(read, at, q.stages)
      BY <2>2 DEF then
    <3>2. CASE then = Idle
      BY <3>2 DEF PassOK
    <3>3. CASE then # Idle
      <4>1. PICK units, rd2, made :
               /\ then = [doing |-> "writing", units |-> units, read |-> rd2, made |-> made]
               /\ Decision(units, rd2, made, at)
        BY <1>7, <1>8, <3>1, <3>3, DecidedIs
      <4>2. Decision(units, rd2, made, now)
        BY <1>7, <4>1, DecisionLater
      <4>. QED
        BY <4>1, <4>2 DEF PassOK, Writes
    <3>. QED
      BY <3>2, <3>3
  <2>. QED
    BY <2>1, <2>2
<1>. QED
  BY <1>1, <1>2, <1>9, PassMoves

(* What a window writes, and what is left of the pass.                     *)
LEMMA WriteIs ==
    ASSUME IInv, NEW p \in Passes, pass[p].doing = "writing",
           NEW w \in Windows(pass[p].units), Write(p, w)
    PROVE  \E keep :
              /\ DOMAIN rows' = DOMAIN rows /\ Table(rows')
              /\ \A k \in keep : k \in DOMAIN rows /\ Becomes(rows[k], rows'[k], now)
              /\ \A k \in DOMAIN rows : k \notin keep => rows'[k] = rows[k]
              /\ \A s \in Slots : Total(Obs(rows'), OpenIn(rows', s)) = Total(Obs(rows), OpenIn(rows, s))
              /\ PassOK(pass'[p], now)
              /\ pass' = [pass EXCEPT ![p] = pass'[p]]
              /\ UNCHANGED <<last, now>>
<1>. DEFINE q    == pass[p]
            keep == UNION {u \in w : \A k \in u : AsRead(q, k)}
<1>1. Writes(q, now)
  BY DEF IInv, PassOK, Reads, Idle
<1>2. PICK units, read, made :
         /\ q = [doing |-> "writing", units |-> units, read |-> read, made |-> made]
         /\ Decision(units, read, made, now)
  BY <1>1 DEF Writes
<1>3. /\ rows' = [k \in DOMAIN rows \cup keep |-> IF k \in keep THEN q.made[k] ELSE rows[k]]
      /\ pass' = [pass EXCEPT ![p] = IF w = q.units THEN Idle ELSE [q EXCEPT !.units = @ \ w]]
      /\ UNCHANGED <<last, now>>
  BY DEF Write
<1>4. w \in SUBSET units
  BY <1>2 DEF Windows
<1>5. keep = UNION {u \in w : \A k \in u : k \in DOMAIN rows /\ rows[k] = read[k]}
  BY <1>2 DEF AsRead
<1>6. rows' = [k \in DOMAIN rows \cup keep |-> IF k \in keep THEN made[k] ELSE rows[k]]
  BY <1>2, <1>3
<1>7. pass'[p] = IF w = units THEN Idle
                 ELSE [doing |-> "writing", units |-> units \ w, read |-> read, made |-> made]
  <2>1. [q EXCEPT !.units = @ \ w]
          = [doing |-> "writing", units |-> units \ w, read |-> read, made |-> made]
    BY <1>2
  <2>2. pass'[p] = IF w = q.units THEN Idle ELSE [q EXCEPT !.units = @ \ w]
    BY <1>3 DEF IInv
  <2>. QED
    BY <1>2, <2>1, <2>2
<1>8. pass' = [pass EXCEPT ![p] = pass'[p]]
  BY <1>3 DEF IInv
<1>9. PassOK(pass'[p], now)
  <2>1. CASE w = units
    BY <1>7, <2>1 DEF PassOK
  <2>2. CASE w # units
    <3>1. \A s \in Slots : Whole(read, made, units \ w, s)
      BY <1>2 DEF Decision, Whole
    <3>2. Decision(units \ w, read, made, now)
      BY <1>2, <3>1 DEF Decision
    <3>. QED
      BY <1>7, <2>2, <3>2 DEF PassOK, Writes
  <2>. QED
    BY <2>1, <2>2
<1>10. Table(rows)
  BY DEF IInv, RowsInv
<1>. DEFINE d == rows'
<1>. HIDE DEF keep
<1>11. /\ DOMAIN d = DOMAIN rows /\ Table(d)
       /\ \A k \in keep : k \in DOMAIN rows /\ Becomes(rows[k], d[k], now)
       /\ \A k \in DOMAIN rows : k \notin keep => d[k] = rows[k]
       /\ \A s \in Slots : Total(Obs(d), OpenIn(d, s)) = Total(Obs(rows), OpenIn(rows, s))
  <2>. DEFINE kept == {u \in w : \A k \in u : k \in DOMAIN rows /\ rows[k] = read[k]}
  <2>1. kept \in SUBSET units /\ keep = UNION kept
    BY <1>4, <1>5
  <2>2. \A k \in keep : k \in DOMAIN rows /\ rows[k] = read[k]
    BY <1>5
  <2>3. /\ DOMAIN d = DOMAIN rows
        /\ \A k \in DOMAIN rows : d[k] = IF k \in keep THEN made[k] ELSE rows[k]
    BY <1>6, <2>2
  <2>4. Decision(units, read, made, now)
    BY <1>2
  <2>5. Table(d)
    <3>1. \A k \in keep : k \in DOMAIN read
      BY <2>1, <2>4 DEF Decision
    <3>2. \A k \in DOMAIN rows : d[k] \in Row
      BY <1>10, <2>3, <2>4, <3>1, TableIsFinite DEF Decision, Becomes
    <3>3. d = [k \in DOMAIN rows |-> d[k]]
      BY <1>6, <2>2
    <3>. HIDE DEF d
    <3>. QED
      BY <1>10, <2>3, <3>2, <3>3 DEF Table
  <2>. HIDE DEF d, kept
  <2>. QED
    <3>1. Rewritten(rows, d, units, read, made, keep)
      BY <1>10, <2>1, <2>2, <2>3, <2>5 DEF Rewritten
    <3>2. Rewrites(rows, d, keep, now)
      BY ONLY <2>4, <3>1, WrittenIs
    <3>. QED
      BY <2>3, <2>5, <3>2 DEF Rewrites
<1>. QED
  BY <1>3, <1>8, <1>9, <1>11

LEMMA WriteInv ==
    ASSUME IInv, NEW p \in Passes, pass[p].doing = "writing",
           NEW w \in Windows(pass[p].units), Write(p, w)
    PROVE  IInv'
<1>1. PICK keep :
         /\ DOMAIN rows' = DOMAIN rows /\ Table(rows')
         /\ \A k \in keep : k \in DOMAIN rows /\ Becomes(rows[k], rows'[k], now)
         /\ \A k \in DOMAIN rows : k \notin keep => rows'[k] = rows[k]
         /\ PassOK(pass'[p], now)
         /\ pass' = [pass EXCEPT ![p] = pass'[p]]
         /\ UNCHANGED <<last, now>>
  BY WriteIs
<1>2. \A k \in DOMAIN rows : RowOK(rows'[k], now)
  <2>. TAKE k \in DOMAIN rows
  <2>0. RowOK(rows[k], now)
    BY DEF IInv, RowsInv
  <2>1. CASE k \notin keep
    BY <1>1, <2>0, <2>1
  <2>2. CASE k \in keep
    <3>. DEFINE r == rows[k]
                m == rows'[k]
    <3>1. Becomes(r, m, now) /\ RowOK(r, now)
      BY <1>1, <2>0, <2>2
    <3>2. m.sal = r.sal /\ m.base = r.base /\ m.seen = r.seen =>
             Strength(m) = Strength(r) /\ Age(m, now) = Age(r, now)
      BY DEF Strength, Age
    <3>. HIDE DEF r, m
    <3>3. RowOK(m, now)
      BY <3>1, <3>2 DEF RowOK, Becomes
    <3>. QED
      BY <3>3 DEF m
  <2>. QED
    BY <2>1, <2>2
<1>3. RowsInv'
  BY <1>1, <1>2 DEF IInv, RowsInv
<1>4. UNCHANGED now
  BY <1>1
<1>. QED
  BY ONLY IInv, p \in Passes, <1>1, <1>3, <1>4, PassMoves

(* One claim changes, or comes, or goes. *)
LEMMA OneRowInv ==
    ASSUME RowsInv, UNCHANGED now, last' \in last .. MaxClaims, NEW k \in 1 .. last',
           DOMAIN rows' \subseteq DOMAIN rows \cup {k},
           rows' = [j \in DOMAIN rows' |-> rows'[j]],
           \A j \in DOMAIN rows' : j # k => rows'[j] = rows[j],
           k \in DOMAIN rows' => rows'[k] \in Row /\ RowOK(rows'[k], now)
    PROVE  RowsInv'
<1>1. last \in Nat /\ last' \in 0 .. MaxClaims /\ DOMAIN rows \subseteq 1 .. last
  BY SalienceBounds DEF RowsInv
<1>2. DOMAIN rows' \subseteq 1 .. last' /\ 1 .. last' \subseteq Ids
  BY <1>1, SalienceBounds DEF Ids
<1>3. \A j \in DOMAIN rows' : rows'[j] \in Row /\ RowOK(rows'[j], now)
  BY DEF RowsInv, Table
<1>. QED
  BY <1>1, <1>2, <1>3 DEF RowsInv, Table

LEMMA SayIs ==
    ASSUME RowsInv, NEW s \in Slots, NEW f \in Phrases, Say(s, f)
    PROVE  /\ last' = last + 1 /\ last' \in Ids /\ last' \notin DOMAIN rows
           /\ DOMAIN rows' = DOMAIN rows \cup {last'}
           /\ \A j \in DOMAIN rows : rows'[j] = rows[j]
           /\ rows'[last'] \in Row /\ RowOK(rows'[last'], now)
           /\ rows'[last'].slot = s /\ rows'[last'].obs = 1
           /\ rows'[last'].to = Open /\ rows'[last'].inv = Open
           /\ rows' = [j \in DOMAIN rows' |-> rows'[j]]
           /\ UNCHANGED <<now, pass>>
<1>. DEFINE r == [slot |-> s, phrase |-> f, kind |-> "episodic", obs |-> 1,
                  base |-> 0, sal |-> NewSalience, seen |-> now, rec |-> now,
                  to |-> Open, inv |-> Open, by |-> Nobody]
<1>1. /\ last' = last + 1 /\ UNCHANGED <<now, pass>> /\ last < MaxClaims
      /\ rows' = [j \in DOMAIN rows \cup {last'} |-> IF j = last' THEN r ELSE rows[j]]
  BY DEF Say
<1>2. /\ last \in Nat /\ DOMAIN rows \subseteq 1 .. last /\ now \in Time
  BY SalienceBounds DEF RowsInv
<1>3. last' \in Ids /\ last' \notin DOMAIN rows
  BY <1>1, <1>2, SalienceBounds DEF Ids
<1>4. r \in Row /\ Strength(r) = NewSalience
  BY <1>2, SalienceBounds DEF Row, Strength, Nobody
<1>5. r.inv = Open /\ r.by = Nobody /\ r.sal = NewSalience /\ r.slot = s /\ r.obs = 1 /\ r.to = Open
  OBVIOUS
<1>. HIDE DEF r
<1>6. RowOK(r, now)
  <2>1. Age(r, now) \in Time
    BY <1>2, <1>4, AgeIs, SalienceBounds DEF Time
  <2>2. Curve(NewSalience, Age(r, now)) \in Nat /\ Curve(NewSalience, Age(r, now)) <= NewSalience
    BY <2>1, CurveIs, SalienceBounds
  <2>. QED
    BY <1>4, <1>5, <2>2, SalienceBounds DEF RowOK, Sound
<1>. QED
  BY <1>1, <1>3, <1>4, <1>5, <1>6

LEMMA SayInv ==
    ASSUME IInv, NEW s \in Slots, NEW f \in Phrases, Say(s, f)
    PROVE  IInv'
<1>1. RowsInv
  BY DEF IInv
<1>2. /\ last' = last + 1 /\ last' \in Ids
      /\ DOMAIN rows' = DOMAIN rows \cup {last'}
      /\ \A j \in DOMAIN rows : rows'[j] = rows[j]
      /\ rows'[last'] \in Row /\ RowOK(rows'[last'], now)
      /\ rows' = [j \in DOMAIN rows' |-> rows'[j]]
      /\ UNCHANGED <<now, pass>>
  BY <1>1, SayIs
<1>3. last' \in last .. MaxClaims /\ last' \in 1 .. last'
  BY <1>1, <1>2, SalienceBounds DEF RowsInv, Ids
<1>4. RowsInv'
  BY <1>1, <1>2, <1>3, OneRowInv
<1>. QED
  BY <1>2, <1>4, PassesStay

(* The claim k becomes m, and no other changes. *)
Changed(k, m) ==
    /\ DOMAIN rows' = DOMAIN rows /\ rows' = [j \in DOMAIN rows' |-> rows'[j]]
    /\ rows'[k] = m /\ \A j \in DOMAIN rows : j # k => rows'[j] = rows[j]
    /\ UNCHANGED <<last, now, pass>>

LEMMA ChangedInv ==
    ASSUME IInv, NEW k \in DOMAIN rows, NEW m, Changed(k, m), m \in Row, RowOK(m, now)
    PROVE  IInv'
<1>1. last' \in last .. MaxClaims /\ k \in 1 .. last'
  BY SalienceBounds DEF IInv, RowsInv, Changed
<1>2. RowsInv'
  BY <1>1, OneRowInv DEF Changed, IInv
<1>. QED
  BY <1>2, PassesStay DEF Changed

(* A claim that is live is believed. *)
LEMMA LiveIs ==
    ASSUME RowsInv, NEW k \in DOMAIN rows
    PROVE  /\ rows[k] \in Row /\ RowOK(rows[k], now) /\ k \in Ids
           /\ IsLive(rows[k], now) => rows[k].inv = Open
<1>1. rows[k] \in Row /\ RowOK(rows[k], now) /\ k \in Ids
  BY DEF RowsInv, Table
<1>2. rows[k].inv \in Nat /\ now \in Nat
  BY <1>1, SalienceBounds DEF RowsInv, Row, Time, Open
<1>. QED
  BY <1>1, <1>2 DEF RowOK, IsLive

LEMMA RestateIs ==
    ASSUME IInv, NEW k \in DOMAIN rows, NEW at \in 0 .. now, Restate(k, at)
    PROVE  \E m \in Row :
              /\ Changed(k, m) /\ RowOK(m, now)
              /\ m.obs = rows[k].obs + 1 /\ m.slot = rows[k].slot
              /\ m.inv = Open /\ rows[k].inv = Open
              /\ m.by = rows[k].by /\ m.to = rows[k].to
              /\ Strength(m) >= Strength(rows[k]) /\ m.seen >= rows[k].seen
              /\ m.kind = rows[k].kind
<1>. DEFINE r == rows[k]
            b == Reinforced(r)
            v == Larger(r.seen, at)
            o == r.obs + 1
            m == [r EXCEPT !.obs = o, !.base = b, !.sal = b, !.seen = v]
<1>1. /\ rows' = [rows EXCEPT ![k] = m] /\ UNCHANGED <<last, now, pass>> /\ IsLive(r, now)
  <2>1. rows' = [rows EXCEPT ![k] = m]
    BY Zenon DEF Restate
  <2>. QED
    BY <2>1 DEF Restate
<1>2. r \in Row /\ RowOK(r, now) /\ r.inv = Open /\ r.by = Nobody
  <2>1. r \in Row /\ RowOK(r, now) /\ r.inv = Open
    BY <1>1, LiveIs DEF IInv
  <2>. QED
    BY <2>1 DEF RowOK
<1>3. Changed(k, m)
  <2>. HIDE DEF m
  <2>1. rows = [j \in DOMAIN rows |-> rows[j]]
    BY DEF IInv, RowsInv, Table
  <2>. QED
    BY <1>1, <2>1 DEF Changed
<1>. HIDE DEF r
<1>4. b \in SalienceFloor .. MaxSalience /\ Strength(r) <= b
  BY <1>2, ReinforcedIs DEF RowOK
<1>5. v \in Time /\ v >= r.seen
  BY <1>2, SalienceBounds DEF IInv, RowsInv, Row, Time, Larger
<1>. HIDE DEF b, v, o
<1>6. /\ m \in Row /\ m.obs = o /\ m.base = b /\ m.sal = b /\ m.seen = v
      /\ m.slot = r.slot /\ m.inv = r.inv /\ m.by = r.by /\ m.to = r.to /\ m.kind = r.kind
  <2>1. b \in 0 .. MaxSalience
    BY <1>4, SalienceBounds
  <2>2. o \in Nat
    BY <1>2 DEF o, Row
  <2>. QED
    BY <1>2, <1>5, <2>1, <2>2 DEF Row
<1>. HIDE DEF m
<1>7. Strength(m) = b
  BY <1>6 DEF Strength
<1>8. RowOK(m, now)
  <2>1. now \in Time /\ now <= now
    BY SalienceBounds DEF IInv, RowsInv, Time
  <2>2. Age(m, now) \in Time
    BY <1>6, <2>1, AgeIs
  <2>3. b \in 0 .. MaxSalience /\ b >= SalienceFloor
    BY <1>4, SalienceBounds
  <2>4. Curve(b, Age(m, now)) \in Nat /\ Curve(b, Age(m, now)) <= b
    BY <2>2, <2>3, CurveIs, SalienceBounds
  <2>. QED
    BY <1>2, <1>6, <1>7, <2>3, <2>4 DEF RowOK, Sound
<1>9. Strength(r) \in Nat /\ b \in Nat
  BY <1>2, <1>4, StrengthIs, SalienceBounds
<1>. QED
  BY <1>2, <1>3, <1>4, <1>5, <1>6, <1>7, <1>8, <1>9 DEF r, o

LEMMA EndIs ==
    ASSUME IInv, NEW k \in DOMAIN rows, End(k)
    PROVE  \E m \in Row :
              /\ Changed(k, m) /\ RowOK(m, now)
              /\ m = [rows[k] EXCEPT !.to = now] /\ m.to = now
              /\ m.obs = rows[k].obs /\ m.slot = rows[k].slot
              /\ m.inv = Open /\ rows[k].inv = Open /\ m.by = rows[k].by
              /\ Strength(m) = Strength(rows[k]) /\ m.seen = rows[k].seen /\ m.kind = rows[k].kind
<1>. DEFINE r == rows[k]
            m == [r EXCEPT !.to = now]
<1>1. rows' = [rows EXCEPT ![k] = m] /\ UNCHANGED <<last, now, pass>> /\ r.inv = Open
  BY DEF End
<1>2. r \in Row /\ RowOK(r, now) /\ now \in Time
  BY LiveIs DEF IInv, RowsInv
<1>3. Changed(k, m)
  <2>. HIDE DEF m
  <2>1. rows = [j \in DOMAIN rows |-> rows[j]]
    BY DEF IInv, RowsInv, Table
  <2>. QED
    BY <1>1, <2>1 DEF Changed
<1>. HIDE DEF r
<1>4. /\ m \in Row /\ m.obs = r.obs /\ m.base = r.base /\ m.sal = r.sal /\ m.seen = r.seen
      /\ m.slot = r.slot /\ m.inv = r.inv /\ m.by = r.by /\ m.to = now /\ m.kind = r.kind
  BY <1>2 DEF Row
<1>5. m = [r EXCEPT !.to = now]
  OBVIOUS
<1>. HIDE DEF m
<1>6. Strength(m) = Strength(r) /\ Age(m, now) = Age(r, now)
  BY <1>4 DEF Strength, Age
<1>7. RowOK(m, now)
  BY <1>2, <1>4, <1>6 DEF RowOK, Sound
<1>. QED
  BY <1>1, <1>3, <1>4, <1>5, <1>6, <1>7 DEF r

LEMMA RetireIs ==
    ASSUME IInv, NEW k \in DOMAIN rows, Retire(k)
    PROVE  \E m \in Row :
              /\ Changed(k, m) /\ RowOK(m, now)
              /\ m.obs = rows[k].obs /\ m.slot = rows[k].slot
              /\ m.inv # Open /\ rows[k].inv = Open /\ m.by = Nobody
<1>. DEFINE r == rows[k]
            m == [r EXCEPT !.inv = now]
<1>1. rows' = [rows EXCEPT ![k] = m] /\ UNCHANGED <<last, now, pass>> /\ r.inv = Open
  BY DEF Retire
<1>2. r \in Row /\ RowOK(r, now) /\ now \in Time /\ now \in Nat /\ now # Open
  BY LiveIs, SalienceBounds DEF IInv, RowsInv, Time, Open
<1>3. Changed(k, m)
  <2>. HIDE DEF m
  <2>1. rows = [j \in DOMAIN rows |-> rows[j]]
    BY DEF IInv, RowsInv, Table
  <2>. QED
    BY <1>1, <2>1 DEF Changed
<1>. HIDE DEF r
<1>4. /\ m \in Row /\ m.obs = r.obs /\ m.base = r.base /\ m.sal = r.sal
      /\ m.slot = r.slot /\ m.inv = now /\ m.by = r.by
  BY <1>2 DEF Row
<1>. HIDE DEF m
<1>5. RowOK(m, now)
  BY <1>2, <1>4 DEF RowOK, Sound, Strength
<1>6. r.by = Nobody
  BY <1>1, <1>2 DEF RowOK, r
<1>. QED
  BY <1>1, <1>2, <1>3, <1>4, <1>5, <1>6 DEF r

LEMMA EraseInv ==
    ASSUME IInv, NEW k \in DOMAIN rows, Erase(k)
    PROVE  IInv'
<1>1. rows' = [j \in DOMAIN rows \ {k} |-> rows[j]] /\ UNCHANGED <<last, now, pass>>
  BY DEF Erase
<1>2. last' \in last .. MaxClaims /\ k \in 1 .. last'
  BY <1>1, SalienceBounds DEF IInv, RowsInv
<1>3. /\ DOMAIN rows' \subseteq DOMAIN rows \cup {k} /\ k \notin DOMAIN rows'
      /\ \A j \in DOMAIN rows' : j # k => rows'[j] = rows[j]
      /\ rows' = [j \in DOMAIN rows' |-> rows'[j]]
  BY <1>1
<1>4. RowsInv'
  BY <1>1, <1>2, <1>3, OneRowInv DEF IInv
<1>. QED
  BY <1>1, <1>4, PassesStay

LEMMA TickInv ==
    ASSUME IInv, Tick
    PROVE  IInv'
<1>1. now' = now + 1 /\ UNCHANGED <<rows, last, pass>>
  BY DEF Tick
<1>2. now \in Time /\ now' \in Time /\ now <= now' /\ now \in Nat /\ now' \in Nat
  BY SalienceBounds DEF Tick, IInv, RowsInv, Time
<1>3. \A k \in DOMAIN rows : RowOK(rows[k], now')
  <2>. TAKE k \in DOMAIN rows
  <2>. DEFINE r == rows[k]
  <2>1. r \in Row /\ RowOK(r, now)
    BY LiveIs DEF IInv
  <2>. HIDE DEF r
  <2>2. Age(r, now') \in Time /\ Age(r, now) \in Time /\ Age(r, now) <= Age(r, now')
    BY <1>2, <2>1, AgeIs
  <2>3. Strength(r) \in 0 .. MaxSalience /\ r.sal \in Nat
    BY <2>1, StrengthIs
  <2>4. /\ Curve(Strength(r), Age(r, now')) <= Curve(Strength(r), Age(r, now))
        /\ Curve(Strength(r), Age(r, now')) \in Nat /\ Curve(Strength(r), Age(r, now)) \in Nat
    BY <2>2, <2>3, CurveIs, SalienceBounds
  <2>5. r.inv \in Nat
    BY <2>1, SalienceBounds DEF Row, Time, Open
  <2>6. RowOK(r, now')
    BY <1>2, <2>1, <2>3, <2>4, <2>5 DEF RowOK
  <2>. QED
    BY <2>6 DEF r
<1>4. RowsInv'
  BY <1>1, <1>2, <1>3 DEF IInv, RowsInv
<1>5. ASSUME NEW p \in Passes
      PROVE  PassOK(pass[p], now')
  <2>1. CASE Reads(pass[p], now)
    BY <1>2, <2>1 DEF Reads, PassOK
  <2>2. CASE Writes(pass[p], now)
    BY <1>2, <2>2, DecisionLater DEF Writes, PassOK
  <2>. QED
    BY <2>1, <2>2 DEF IInv, PassOK
<1>. QED
  BY <1>1, <1>4, <1>5 DEF IInv

LEMMA NextInv ==
    ASSUME IInv, [Next]_vars
    PROVE  IInv'
<1>1. ASSUME NEW p \in Passes, NEW stages \in Kinds, Begin(p, stages) PROVE IInv'
  BY <1>1, BeginInv
<1>2. ASSUME NEW p \in Passes, Read(p) PROVE IInv'
  BY <1>2, ReadInv
<1>3. ASSUME NEW p \in Passes, Leave(p) PROVE IInv'
  BY <1>3, LeaveInv
<1>4. ASSUME NEW p \in Passes, pass[p].doing = "writing",
             NEW w \in Windows(pass[p].units), Write(p, w)
      PROVE  IInv'
  BY <1>4, WriteInv
<1>5. ASSUME NEW s \in Slots, NEW f \in Phrases, Say(s, f) PROVE IInv'
  BY <1>5, SayInv
<1>6. ASSUME NEW k \in DOMAIN rows, NEW at \in 0 .. now, Restate(k, at) PROVE IInv'
  BY <1>6, RestateIs, ChangedInv
<1>7. ASSUME NEW k \in DOMAIN rows, End(k) PROVE IInv'
  BY <1>7, EndIs, ChangedInv
<1>8. ASSUME NEW k \in DOMAIN rows, Retire(k) PROVE IInv'
  BY <1>8, RetireIs, ChangedInv
<1>9. ASSUME NEW k \in DOMAIN rows, Erase(k) PROVE IInv'
  BY <1>9, EraseInv
<1>10. ASSUME Tick PROVE IInv'
  BY <1>10, TickInv
<1>11. ASSUME UNCHANGED vars PROVE IInv'
  <2>1. RowsInv'
    BY <1>11, RowsStay DEF vars, IInv
  <2>. QED
    BY <1>11, <2>1, PassesStay DEF vars
<1>. QED
  BY <1>1, <1>2, <1>3, <1>4, <1>5, <1>6, <1>7, <1>8, <1>9, <1>10, <1>11 DEF Next

LEMMA SweepInvariant == Spec => []IInv
<1>1. Init => IInv
  BY InitInv
<1>2. IInv /\ [Next]_vars => IInv'
  BY NextInv
<1>. QED
  BY <1>1, <1>2, PTL DEF Spec

(* The table holds claims under the ids that were given, and a pass that   *)
(* reads or writes has rows of its own for what it read and would write.   *)
THEOREM SweepTypeCorrect == Spec => []TypeOK
  BY SweepInvariant, InvImpliesType, PTL

(* A believed claim is never weaker than its strength decayed once, however *)
(* many passes wrote it and whoever restated it between their pages and    *)
(* their windows.                                                          *)
THEOREM SweepFadesNoFaster == Spec => []FadesNoFaster
<1>1. IInv => FadesNoFaster
  BY DEF IInv, RowsInv, RowOK, FadesNoFaster
<1>. QED
  BY <1>1, SweepInvariant, PTL

-----------------------------------------------------------------------------
(* What a claim has learned                                                *)

Learned(r, m) ==
    m.inv = Open => /\ Strength(m) >= Strength(r)
                    /\ m.seen >= r.seen
                    /\ r.kind = "semantic" => m.kind = "semantic"

LEMMA LearnedItself ==
    ASSUME NEW r \in Row
    PROVE  Learned(r, r)
<1>1. Strength(r) \in Nat /\ r.seen \in Nat
  BY StrengthIs, SalienceBounds DEF Row, Time
<1>. QED
  BY <1>1 DEF Learned

LEMMA StepLearns ==
    ASSUME IInv, Next
    PROVE  \A k \in DOMAIN rows \cap DOMAIN rows' : Learned(rows[k], rows'[k])
<1>. DEFINE Goal == \A k \in DOMAIN rows \cap DOMAIN rows' : Learned(rows[k], rows'[k])
<1>0. \A k \in DOMAIN rows : rows[k] \in Row /\ Learned(rows[k], rows[k])
  BY LiveIs, LearnedItself DEF IInv
<1>1. ASSUME UNCHANGED rows PROVE Goal
  BY <1>0, <1>1
<1>2. ASSUME NEW p \in Passes, pass[p].doing = "writing",
             NEW w \in Windows(pass[p].units), Write(p, w)
      PROVE  Goal
  <2>1. PICK keep :
           /\ \A k \in keep : k \in DOMAIN rows /\ Becomes(rows[k], rows'[k], now)
           /\ \A k \in DOMAIN rows : k \notin keep => rows'[k] = rows[k]
    BY <1>2, WriteIs
  <2>2. \A k \in keep : Learned(rows[k], rows'[k])
    <3>. TAKE k \in keep
    <3>1. rows[k].seen \in Nat
      BY <1>0, <2>1, SalienceBounds DEF Row, Time
    <3>. QED
      BY <2>1, <3>1 DEF Becomes, Learned
  <2>. QED
    BY <1>0, <2>1, <2>2
<1>3. ASSUME NEW s \in Slots, NEW f \in Phrases, Say(s, f) PROVE Goal
  BY <1>0, <1>3, SayIs DEF IInv
<1>4. ASSUME NEW k \in DOMAIN rows, NEW m, Changed(k, m), Learned(rows[k], m) PROVE Goal
  BY <1>0, <1>4 DEF Changed
<1>5. ASSUME NEW k \in DOMAIN rows, NEW at \in 0 .. now, Restate(k, at) PROVE Goal
  <2>1. PICK m : /\ Changed(k, m)
                 /\ Strength(m) >= Strength(rows[k]) /\ m.seen >= rows[k].seen
                 /\ m.kind = rows[k].kind
    BY <1>5, RestateIs
  <2>2. Learned(rows[k], m)
    BY <2>1 DEF Learned
  <2>. QED
    BY <1>4, <2>1, <2>2
<1>6. ASSUME NEW k \in DOMAIN rows, End(k) PROVE Goal
  <2>1. PICK m : /\ Changed(k, m)
                 /\ Strength(m) = Strength(rows[k]) /\ m.seen = rows[k].seen
                 /\ m.kind = rows[k].kind /\ rows[k].inv = Open
    BY <1>6, EndIs
  <2>2. Learned(rows[k], m)
    BY <1>0, <2>1 DEF Learned
  <2>. QED
    BY <1>4, <2>1, <2>2
<1>7. ASSUME NEW k \in DOMAIN rows, Retire(k) PROVE Goal
  <2>1. PICK m : Changed(k, m) /\ m.inv # Open
    BY <1>7, RetireIs
  <2>2. Learned(rows[k], m)
    BY <2>1 DEF Learned
  <2>. QED
    BY <1>4, <2>1, <2>2
<1>8. ASSUME NEW k \in DOMAIN rows, Erase(k) PROVE Goal
  <2>1. \A j \in DOMAIN rows' : j \in DOMAIN rows /\ rows'[j] = rows[j]
    BY <1>8 DEF Erase
  <2>. QED
    BY <1>0, <2>1
<1>9. ASSUME NEW p \in Passes, NEW stages \in Kinds, Begin(p, stages) PROVE Goal
  <2>1. UNCHANGED rows
    BY <1>9 DEF Begin
  <2>. QED
    BY <1>1, <2>1
<1>10. ASSUME NEW p \in Passes, Read(p) PROVE Goal
  <2>1. UNCHANGED rows
    BY <1>10 DEF Read
  <2>. QED
    BY <1>1, <2>1
<1>11. ASSUME NEW p \in Passes, Leave(p) PROVE Goal
  <2>1. UNCHANGED rows
    BY <1>11 DEF Leave
  <2>. QED
    BY <1>1, <2>1
<1>12. ASSUME Tick PROVE Goal
  <2>1. UNCHANGED rows
    BY <1>12 DEF Tick
  <2>. QED
    BY <1>1, <2>1
<1>. HIDE DEF Goal
<1>13. Goal
  BY <1>2, <1>3, <1>5, <1>6, <1>7, <1>8, <1>9, <1>10, <1>11, <1>12 DEF Next
<1>. QED
  BY <1>13 DEF Goal

(* Passes and callers that overlap only add to what a claim has learned:   *)
(* while it is believed it grows no weaker, no older, and not episodic     *)
(* again.                                                                  *)
THEOREM SweepLearningKept == Spec => LearningKept
<1>. DEFINE Step == \A k \in DOMAIN rows \cap DOMAIN rows' :
                       rows'[k].inv = Open =>
                           /\ Strength(rows'[k]) >= Strength(rows[k])
                           /\ rows'[k].seen >= rows[k].seen
                           /\ rows[k].kind = "semantic" => rows'[k].kind = "semantic"
<1>1. IInv /\ [Next]_vars => [Step]_vars
  <2>. SUFFICES ASSUME IInv, Next PROVE Step
    OBVIOUS
  <2>. QED
    BY StepLearns DEF Learned
<1>. QED
  BY <1>1, SweepInvariant, PTL DEF Spec, LearningKept

-----------------------------------------------------------------------------
(* Evidence                                                                *)

(* What the claim k adds to what the believed claims of s were heard. *)
Share(c, k, s) ==
    IF k \in DOMAIN c /\ c[k].slot = s /\ c[k].inv = Open THEN c[k].obs ELSE 0

LEMMA ShareIs ==
    ASSUME NEW c, Table(c), NEW k, NEW s
    PROVE  /\ Total(Obs(c), OpenIn(c, s) \ {k}) \in Nat /\ Share(c, k, s) \in Nat
           /\ Total(Obs(c), OpenIn(c, s)) = Share(c, k, s) + Total(Obs(c), OpenIn(c, s) \ {k})
<1>. DEFINE A == OpenIn(c, s)
            B == A \ {k}
<1>1. A \in SUBSET DOMAIN c /\ B \in SUBSET DOMAIN c
  BY DEF OpenIn
<1>2. k \in A <=> k \in DOMAIN c /\ c[k].slot = s /\ c[k].inv = Open
  BY DEF OpenIn
<1>3. k \notin A => B = A
  OBVIOUS
<1>. HIDE DEF A
<1>4. IsFiniteSet(A) /\ IsFiniteSet(B) /\ \A j \in DOMAIN c : Obs(c)[j] \in Nat /\ Obs(c)[j] = c[j].obs
  BY <1>1, TableIsFinite, RowIs DEF Obs
<1>5. Total(Obs(c), B) \in Nat
  <2>1. \A j \in B : Obs(c)[j] \in Nat
    BY <1>1, <1>4
  <2>. HIDE DEF B
  <2>. QED
    BY <1>4, <2>1, TotalAdds
<1>6. CASE k \in A
  <2>1. \A j \in A : Obs(c)[j] \in Nat
    BY <1>1, <1>4
  <2>2. Total(Obs(c), A) = Obs(c)[k] + Total(Obs(c), B)
    BY <1>4, <1>6, <2>1, TotalAdds
  <2>3. Share(c, k, s) = Obs(c)[k] /\ Share(c, k, s) \in Nat
    BY <1>1, <1>2, <1>4, <1>6 DEF Share
  <2>. HIDE DEF B
  <2>. QED
    BY <1>5, <2>2, <2>3 DEF A, B
<1>7. CASE k \notin A
  <2>1. B = A /\ Share(c, k, s) = 0
    BY <1>2, <1>3, <1>7 DEF Share
  <2>. HIDE DEF B
  <2>. QED
    BY <1>5, <2>1 DEF A, B
<1>. QED
  BY <1>6, <1>7

(* Where two tables differ in the claim k only, what a slot was heard      *)
(* differs by what k adds.                                                 *)
DiffersIn(c, d, k) ==
    /\ Table(c) /\ Table(d) /\ DOMAIN c \ {k} = DOMAIN d \ {k}
    /\ \A j \in DOMAIN c : j # k => d[j] = c[j]

LEMMA OneRowMoves ==
    ASSUME NEW c, NEW d, NEW k, DiffersIn(c, d, k), NEW s
    PROVE  \E rest \in Nat : /\ Total(Obs(c), OpenIn(c, s)) = Share(c, k, s) + rest
                             /\ Total(Obs(d), OpenIn(d, s)) = Share(d, k, s) + rest
<1>. DEFINE B == OpenIn(c, s) \ {k}
<1>0. Table(c) /\ Table(d)
  BY DEF DiffersIn
<1>1. B = OpenIn(d, s) \ {k} /\ B \in SUBSET DOMAIN c
  BY DEF OpenIn, DiffersIn
<1>2. \A j \in B : j \in DOMAIN c /\ j \in DOMAIN d /\ d[j] = c[j]
  BY DEF OpenIn, DiffersIn
<1>3. /\ Total(Obs(c), B) \in Nat /\ Total(Obs(c), OpenIn(c, s)) = Share(c, k, s) + Total(Obs(c), B)
      /\ Total(Obs(d), OpenIn(d, s)) = Share(d, k, s) + Total(Obs(d), B)
  <2>1. /\ Total(Obs(c), B) \in Nat
        /\ Total(Obs(c), OpenIn(c, s)) = Share(c, k, s) + Total(Obs(c), B)
    BY ONLY <1>0, ShareIs
  <2>2. Total(Obs(d), OpenIn(d, s))
           = Share(d, k, s) + Total(Obs(d), OpenIn(d, s) \ {k})
    BY ONLY <1>0, ShareIs
  <2>3. OpenIn(d, s) \ {k} = B
    BY <1>1
  <2>. HIDE DEF B
  <2>. QED
    BY <2>1, <2>2, <2>3
<1>4. IsFiniteSet(B)
  BY <1>0, <1>1, TableIsFinite
<1>. HIDE DEF B
<1>5. \A j \in B : Obs(c)[j] \in Nat /\ Obs(c)[j] = Obs(d)[j]
  BY <1>0, <1>2, RowIs DEF Obs
<1>6. Total(Obs(c), B) = Total(Obs(d), B)
  BY <1>4, <1>5, TotalSame
<1>. QED
  BY <1>3, <1>6

LEMMA HeardIs ==
    ASSUME Table(rows), NEW s
    PROVE  Heard(s) = Total(Obs(rows), OpenIn(rows, s))
<1>. DEFINE A == OpenIn(rows, s)
<1>1. A \in SUBSET DOMAIN rows
  BY DEF OpenIn
<1>2. Heard(s) = MapThenSumSet(LAMBDA k : rows[k].obs, A)
  BY DEF Heard, OpenIn
<1>. HIDE DEF A
<1>3. MapThenSumSet(LAMBDA k : rows[k].obs, A) = Total(Obs(rows), A)
  BY <1>1, ObsIsTotal
<1>. QED
  BY <1>2, <1>3 DEF A

HeardIsTotal(s) == Table(rows) => Heard(s) = Total(Obs(rows), OpenIn(rows, s))

LEMMA HeardThenAndNow ==
    ASSUME NEW s
    PROVE  HeardIsTotal(s)'
<1>1. HeardIsTotal(s)
  BY HeardIs DEF HeardIsTotal
<1>. QED
  BY <1>1, PTL

LEMMA HeardNextIs ==
    ASSUME Table(rows'), NEW s
    PROVE  Heard(s)' = Total(Obs(rows'), OpenIn(rows', s))
  BY HeardThenAndNow DEF HeardIsTotal

(* What callers have done with a claim, as the abstract specification sees *)
(* it.                                                                     *)
Fate(k) == IF TakenBack(k) THEN "withdrawn"
           ELSE IF k \in DOMAIN rows /\ rows[k].to # Open THEN "ended"
           ELSE "standing"

Same(s) == Heard(s)' = Heard(s)

LEMMA FateIs ==
    ASSUME NEW k
    PROVE  /\ TakenBack(k) => Fate(k) = "withdrawn"
           /\ ~ TakenBack(k) /\ k \in DOMAIN rows /\ rows[k].to # Open => Fate(k) = "ended"
           /\ ~ TakenBack(k) /\ ~ (k \in DOMAIN rows /\ rows[k].to # Open) => Fate(k) = "standing"
  BY DEF Fate

FateIsNow(k) ==
    /\ TakenBack(k) => Fate(k) = "withdrawn"
    /\ ~ TakenBack(k) /\ k \in DOMAIN rows /\ rows[k].to # Open => Fate(k) = "ended"
    /\ ~ TakenBack(k) /\ ~ (k \in DOMAIN rows /\ rows[k].to # Open) => Fate(k) = "standing"

LEMMA FateNextIs ==
    ASSUME NEW k
    PROVE  FateIsNow(k)'
<1>1. FateIsNow(k)
  BY FateIs DEF FateIsNow
<1>. QED
  BY <1>1, PTL

(* What callers can tell of a claim is in whether it is there, when it     *)
(* ended and whether it was retired in favour of none.                     *)
LEMMA FateStays ==
    ASSUME NEW k \in Ids, k <= last' <=> k <= last, k \in DOMAIN rows' <=> k \in DOMAIN rows,
           k \in DOMAIN rows =>
              /\ rows'[k].to = rows[k].to
              /\ rows'[k].inv # Open /\ rows'[k].by = Nobody
                    <=> rows[k].inv # Open /\ rows[k].by = Nobody
    PROVE  Fate(k)' = Fate(k)
<1>1. TakenBack(k)' <=> TakenBack(k)
  BY DEF TakenBack
<1>2. (k \in DOMAIN rows /\ rows[k].to # Open)' <=> (k \in DOMAIN rows /\ rows[k].to # Open)
  OBVIOUS
<1>. QED
  BY <1>1, <1>2, FateIs, FateNextIs DEF FateIsNow

LEMMA KeptHear ==
    ASSUME NEW s \in Slots, Heard(s)' = Heard(s) + 1,
           \A t \in Slots : t # s => Same(t), \A k \in Ids : Fate(k)' = Fate(k)
    PROVE  Kept!Hear(s)
<1>1. [t \in Slots |-> Heard(t)]' = [[t \in Slots |-> Heard(t)] EXCEPT ![s] = @ + 1]
  BY DEF Same
<1>2. [k \in Ids |-> Fate(k)]' = [k \in Ids |-> Fate(k)]
  OBVIOUS
<1>. QED
  BY <1>1, <1>2 DEF Kept!Hear, Fate

LEMMA KeptEnd ==
    ASSUME NEW k \in Ids, Fate(k) = "standing", Fate(k)' = "ended",
           \A t \in Slots : Same(t), \A j \in Ids : j # k => Fate(j)' = Fate(j)
    PROVE  Kept!End(k)
<1>1. [t \in Slots |-> Heard(t)]' = [t \in Slots |-> Heard(t)]
  BY DEF Same
<1>2. [j \in Ids |-> Fate(j)]' = [[j \in Ids |-> Fate(j)] EXCEPT ![k] = "ended"]
  OBVIOUS
<1>3. [j \in Ids |-> Fate(j)][k] = "standing"
  OBVIOUS
<1>. QED
  BY <1>1, <1>2, <1>3 DEF Kept!End, Fate

LEMMA KeptWithdraw ==
    ASSUME NEW k \in Ids, Fate(k) # "withdrawn", Fate(k)' = "withdrawn",
           NEW s \in Slots, NEW n \in 0 .. Heard(s), Heard(s)' = Heard(s) - n,
           \A t \in Slots : t # s => Same(t), \A j \in Ids : j # k => Fate(j)' = Fate(j)
    PROVE  Kept!Next
<1>1. [t \in Slots |-> Heard(t)]' = [[t \in Slots |-> Heard(t)] EXCEPT ![s] = @ - n]
  BY DEF Same
<1>2. [j \in Ids |-> Fate(j)]' = [[j \in Ids |-> Fate(j)] EXCEPT ![k] = "withdrawn"]
  OBVIOUS
<1>3. [j \in Ids |-> Fate(j)][k] # "withdrawn"
  OBVIOUS
<1>4. Kept!Withdraw(k, s, n)
  BY <1>1, <1>2, <1>3 DEF Kept!Withdraw, Fate
<1>5. n \in 0 .. [t \in Slots |-> Heard(t)][s]
  OBVIOUS
<1>. QED
  BY <1>4, <1>5 DEF Kept!Next

LEMMA KeptStutter ==
    ASSUME \A t \in Slots : Same(t), \A j \in Ids : Fate(j)' = Fate(j)
    PROVE  UNCHANGED <<[t \in Slots |-> Heard(t)], [j \in Ids |-> Fate(j)]>>
  BY DEF Same

(* A claim changes, and the evidence of its slot by what it adds.          *)
LEMMA ChangedMoves ==
    ASSUME IInv, IInv', NEW k \in DOMAIN rows, NEW m, Changed(k, m), m.slot = rows[k].slot,
           NEW s \in Slots
    PROVE  /\ s # m.slot => Same(s)
           /\ s = m.slot => \E rest \in Nat :
                 /\ Heard(s) = (IF rows[k].inv = Open THEN rows[k].obs ELSE 0) + rest
                 /\ Heard(s)' = (IF m.inv = Open THEN m.obs ELSE 0) + rest
<1>1. Table(rows) /\ Table(rows')
  BY DEF IInv, RowsInv
<1>2. /\ DOMAIN rows' = DOMAIN rows /\ rows'[k] = m /\ k \in DOMAIN rows'
      /\ \A j \in DOMAIN rows : j # k => rows'[j] = rows[j]
  BY DEF Changed
<1>. DEFINE c == rows
            d == rows'
<1>3. DiffersIn(c, d, k)
  BY <1>1, <1>2 DEF DiffersIn
<1>4. Heard(s) = Total(Obs(c), OpenIn(c, s)) /\ Heard(s)' = Total(Obs(d), OpenIn(d, s))
  BY <1>1, HeardIs, HeardNextIs
<1>5. /\ Share(c, k, s) = IF rows[k].slot = s /\ rows[k].inv = Open THEN rows[k].obs ELSE 0
      /\ Share(d, k, s) = IF m.slot = s /\ m.inv = Open THEN m.obs ELSE 0
  BY <1>2 DEF Share
<1>. HIDE DEF c, d
<1>6. PICK rest \in Nat : /\ Heard(s) = Share(c, k, s) + rest
                          /\ Heard(s)' = Share(d, k, s) + rest
  <2>1. PICK rest \in Nat : /\ Total(Obs(c), OpenIn(c, s)) = Share(c, k, s) + rest
                            /\ Total(Obs(d), OpenIn(d, s)) = Share(d, k, s) + rest
    BY ONLY <1>3, OneRowMoves
  <2>. QED
    BY <1>4, <2>1
<1>. QED
  BY <1>5, <1>6 DEF Same

LEMMA ChangedFates ==
    ASSUME IInv, IInv', NEW k \in DOMAIN rows, NEW m, Changed(k, m), NEW j \in Ids, j # k
    PROVE  Fate(j)' = Fate(j)
  BY FateStays DEF Changed

(* What a pass does to the claims callers do not see.                      *)
LEMMA WriteKept ==
    ASSUME IInv, IInv', NEW p \in Passes, pass[p].doing = "writing",
           NEW w \in Windows(pass[p].units), Write(p, w)
    PROVE  (\A t \in Slots : Same(t)) /\ (\A j \in Ids : Fate(j)' = Fate(j))
<1>1. PICK keep :
         /\ DOMAIN rows' = DOMAIN rows
         /\ \A k \in keep : k \in DOMAIN rows /\ Becomes(rows[k], rows'[k], now)
         /\ \A k \in DOMAIN rows : k \notin keep => rows'[k] = rows[k]
         /\ \A s \in Slots : Total(Obs(rows'), OpenIn(rows', s)) = Total(Obs(rows), OpenIn(rows, s))
         /\ UNCHANGED last
  BY WriteIs
<1>2. Table(rows) /\ Table(rows')
  BY DEF IInv, RowsInv
<1>3. \A t \in Slots : Same(t)
  <2>. TAKE t \in Slots
  <2>1. Heard(t) = Total(Obs(rows), OpenIn(rows, t)) /\ Heard(t)' = Total(Obs(rows'), OpenIn(rows', t))
    BY <1>2, HeardIs, HeardNextIs
  <2>. QED
    BY <1>1, <2>1 DEF Same
<1>4. \A j \in Ids : Fate(j)' = Fate(j)
  <2>. TAKE j \in Ids
  <2>1. j \in DOMAIN rows =>
              /\ rows'[j].to = rows[j].to
              /\ rows'[j].inv # Open /\ rows'[j].by = Nobody
                    <=> rows[j].inv # Open /\ rows[j].by = Nobody
    BY <1>1 DEF Becomes
  <2>. QED
    BY <1>1, <2>1, FateStays
<1>. QED
  BY <1>3, <1>4

LEMMA SayKept ==
    ASSUME IInv, IInv', NEW s \in Slots, NEW f \in Phrases, Say(s, f)
    PROVE  Kept!Next
<1>. DEFINE k == last'
            c == rows
            d == rows'
<1>1. RowsInv
  BY DEF IInv
<1>2. /\ last' = last + 1 /\ k \in Ids /\ k \notin DOMAIN rows
      /\ DOMAIN rows' = DOMAIN rows \cup {k}
      /\ \A j \in DOMAIN rows : rows'[j] = rows[j]
      /\ rows'[k].slot = s /\ rows'[k].obs = 1
      /\ rows'[k].to = Open /\ rows'[k].inv = Open
  BY <1>1, SayIs
<1>3. Table(c) /\ Table(d) /\ last \in Nat
  BY SalienceBounds DEF IInv, RowsInv
<1>4. DiffersIn(c, d, k)
  BY <1>2, <1>3 DEF DiffersIn
<1>5. \A t : Share(c, k, t) = 0 /\ Share(d, k, t) = IF t = s THEN 1 ELSE 0
  BY <1>2 DEF Share
<1>6. \A t : Heard(t) = Total(Obs(c), OpenIn(c, t)) /\ Heard(t)' = Total(Obs(d), OpenIn(d, t))
  BY <1>3, HeardIs, HeardNextIs
<1>7. \A j \in Ids : Fate(j)' = Fate(j)
  <2>. TAKE j \in Ids
  <2>1. CASE j # k
    <3>1. j <= last' <=> j <= last
      BY <1>2, <1>3, <2>1, SalienceBounds DEF Ids
    <3>. QED
      BY <1>2, <2>1, <3>1, FateStays
  <2>2. CASE j = k
    <3>1. ~ (j <= last) /\ j \notin DOMAIN rows
      BY <1>2, <1>3, <2>2
    <3>2. ~ TakenBack(j)
      BY <3>1 DEF TakenBack
    <3>3. Fate(j) = "standing"
      BY <3>1, <3>2, FateIs
    <3>4. ~ TakenBack(j)' /\ ~ (j \in DOMAIN rows' /\ rows'[j].to # Open)
      BY <1>2, <2>2 DEF TakenBack
    <3>5. Fate(j)' = "standing"
      BY <3>4, FateNextIs DEF FateIsNow
    <3>. QED
      BY <3>3, <3>5
  <2>. QED
    BY <2>1, <2>2
<1>. HIDE DEF c, d, k
<1>8. \A t : \E rest \in Nat : /\ Heard(t) = Share(c, k, t) + rest
                               /\ Heard(t)' = Share(d, k, t) + rest
  <2>. TAKE t
  <2>1. PICK rest \in Nat : /\ Total(Obs(c), OpenIn(c, t)) = Share(c, k, t) + rest
                            /\ Total(Obs(d), OpenIn(d, t)) = Share(d, k, t) + rest
    BY ONLY <1>4, OneRowMoves
  <2>. QED
    BY <1>6, <2>1
<1>9. Heard(s)' = Heard(s) + 1 /\ \A t \in Slots : t # s => Same(t)
  BY <1>5, <1>8 DEF Same
<1>10. Kept!Hear(s)
  BY <1>7, <1>9, KeptHear
<1>. QED
  BY <1>10 DEF Kept!Next

LEMMA RestateKept ==
    ASSUME IInv, IInv', NEW k \in DOMAIN rows, NEW at \in 0 .. now, Restate(k, at)
    PROVE  Kept!Next
<1>1. PICK m \in Row : /\ Changed(k, m)
                       /\ m.obs = rows[k].obs + 1 /\ m.slot = rows[k].slot
                       /\ m.inv = Open /\ rows[k].inv = Open
                       /\ m.by = rows[k].by /\ m.to = rows[k].to
  BY RestateIs
<1>2. rows[k] \in Row /\ rows[k].obs \in Nat /\ m.slot \in Slots /\ k \in Ids
  BY LiveIs DEF IInv, Row
<1>3. \A t \in Slots : t # m.slot => Same(t)
  BY <1>1, ChangedMoves
<1>4. Heard(m.slot)' = Heard(m.slot) + 1
  <2>1. PICK rest \in Nat :
            /\ Heard(m.slot) = (IF rows[k].inv = Open THEN rows[k].obs ELSE 0) + rest
            /\ Heard(m.slot)' = (IF m.inv = Open THEN m.obs ELSE 0) + rest
    BY <1>1, <1>2, ChangedMoves
  <2>. QED
    BY <1>1, <1>2, <2>1
<1>5. \A j \in Ids : Fate(j)' = Fate(j)
  <2>1. Fate(k)' = Fate(k)
    BY <1>1, <1>2, FateStays DEF Changed
  <2>. QED
    BY <1>1, <2>1, ChangedFates
<1>6. Kept!Hear(m.slot)
  BY <1>2, <1>3, <1>4, <1>5, KeptHear
<1>. QED
  BY <1>2, <1>6 DEF Kept!Next

LEMMA EndKept ==
    ASSUME IInv, IInv', NEW k \in DOMAIN rows, End(k)
    PROVE  Kept!Next
<1>1. PICK m \in Row : /\ Changed(k, m)
                       /\ m.to = now /\ m.obs = rows[k].obs /\ m.slot = rows[k].slot
                       /\ m.inv = Open /\ rows[k].inv = Open
  BY EndIs
<1>2. rows[k].to = Open /\ now # Open /\ k \in Ids /\ m.slot \in Slots
  BY SalienceBounds DEF End, IInv, RowsInv, Time, Open, Table, Row
<1>3. \A t \in Slots : Same(t)
  <2>. TAKE t \in Slots
  <2>1. CASE t # m.slot
    BY <1>1, <2>1, ChangedMoves
  <2>2. CASE t = m.slot
    <3>1. PICK rest \in Nat :
            /\ Heard(t) = (IF rows[k].inv = Open THEN rows[k].obs ELSE 0) + rest
            /\ Heard(t)' = (IF m.inv = Open THEN m.obs ELSE 0) + rest
      BY <1>1, <2>2, ChangedMoves
    <3>. QED
      BY <1>1, <3>1 DEF Same
  <2>. QED
    BY <2>1, <2>2
<1>4. Fate(k) = "standing"
  <2>1. ~ TakenBack(k)
    BY <1>1 DEF TakenBack
  <2>. QED
    BY <1>2, <2>1, FateIs
<1>5. Fate(k)' = "ended"
  <2>1. k \in DOMAIN rows' /\ rows'[k] = m
    BY <1>1 DEF Changed
  <2>2. ~ TakenBack(k)'
    BY <1>1, <2>1 DEF TakenBack
  <2>3. (k \in DOMAIN rows /\ rows[k].to # Open)'
    BY <1>1, <1>2, <2>1
  <2>. QED
    BY <2>2, <2>3, FateNextIs DEF FateIsNow
<1>6. \A j \in Ids : j # k => Fate(j)' = Fate(j)
  BY <1>1, ChangedFates
<1>7. Kept!End(k)
  BY <1>2, <1>3, <1>4, <1>5, <1>6, KeptEnd
<1>. QED
  BY <1>2, <1>7 DEF Kept!Next

LEMMA RetireKept ==
    ASSUME IInv, IInv', NEW k \in DOMAIN rows, Retire(k)
    PROVE  Kept!Next
<1>1. PICK m \in Row : /\ Changed(k, m)
                       /\ m.obs = rows[k].obs /\ m.slot = rows[k].slot
                       /\ m.inv # Open /\ rows[k].inv = Open /\ m.by = Nobody
  BY RetireIs
<1>. DEFINE n == rows[k].obs
<1>2. n \in Nat /\ m.slot \in Slots /\ k \in Ids /\ k <= last
  BY LiveIs DEF IInv, RowsInv, Row
<1>3. \A t \in Slots : t # m.slot => Same(t)
  BY <1>1, ChangedMoves
<1>4. n \in 0 .. Heard(m.slot) /\ Heard(m.slot)' = Heard(m.slot) - n
  <2>1. PICK rest \in Nat :
            /\ Heard(m.slot) = (IF rows[k].inv = Open THEN rows[k].obs ELSE 0) + rest
            /\ Heard(m.slot)' = (IF m.inv = Open THEN m.obs ELSE 0) + rest
    BY <1>1, <1>2, ChangedMoves
  <2>. QED
    BY <1>1, <1>2, <2>1
<1>5. Fate(k) # "withdrawn"
  <2>1. ~ TakenBack(k)
    BY <1>1 DEF TakenBack
  <2>. QED
    BY <2>1, FateIs
<1>6. Fate(k)' = "withdrawn"
  <2>1. k \in DOMAIN rows' /\ rows'[k] = m /\ k <= last'
    BY <1>1, <1>2 DEF Changed
  <2>2. TakenBack(k)'
    BY <1>1, <2>1 DEF TakenBack
  <2>. QED
    BY <2>2, FateNextIs DEF FateIsNow
<1>7. \A j \in Ids : j # k => Fate(j)' = Fate(j)
  BY <1>1, ChangedFates
<1>. HIDE DEF n
<1>. QED
  BY <1>2, <1>3, <1>4, <1>5, <1>6, <1>7, KeptWithdraw

(* A claim that was taken back before is erased without a trace.           *)
LEMMA EraseKept ==
    ASSUME IInv, IInv', NEW k \in DOMAIN rows, Erase(k)
    PROVE  Kept!Next \/ ((\A t \in Slots : Same(t)) /\ (\A j \in Ids : Fate(j)' = Fate(j)))
<1>. DEFINE c == rows
            d == rows'
<1>0. PICK s, n : s = rows[k].slot /\ n = IF rows[k].inv = Open THEN rows[k].obs ELSE 0
  OBVIOUS
<1>1. rows' = [j \in DOMAIN rows \ {k} |-> rows[j]] /\ UNCHANGED <<last, now, pass>>
  BY DEF Erase
<1>2. /\ DOMAIN rows' = DOMAIN rows \ {k} /\ k \notin DOMAIN rows'
      /\ \A j \in DOMAIN rows : j # k => j \in DOMAIN rows' /\ rows'[j] = rows[j]
  BY <1>1
<1>3. Table(c) /\ Table(d) /\ k \in Ids /\ k <= last /\ s \in Slots /\ n \in Nat
  BY <1>0, LiveIs DEF IInv, RowsInv, Row
<1>4. DiffersIn(c, d, k)
  BY <1>2, <1>3 DEF DiffersIn
<1>5. \A t : Share(d, k, t) = 0 /\ Share(c, k, t) = IF t = s THEN n ELSE 0
  BY <1>0, <1>2 DEF Share
<1>6. \A t : Heard(t) = Total(Obs(c), OpenIn(c, t)) /\ Heard(t)' = Total(Obs(d), OpenIn(d, t))
  BY <1>3, HeardIs, HeardNextIs
<1>7. \A j \in Ids : j # k => Fate(j)' = Fate(j)
  <2>. TAKE j \in Ids
  <2>. SUFFICES ASSUME j # k PROVE Fate(j)' = Fate(j)
    OBVIOUS
  <2>. QED
    BY <1>1, <1>2, FateStays
<1>8. Fate(k)' = "withdrawn"
  <2>1. TakenBack(k)'
    BY <1>1, <1>2, <1>3 DEF TakenBack
  <2>. QED
    BY <2>1, FateNextIs DEF FateIsNow
<1>9. ~ TakenBack(k) => Fate(k) # "withdrawn"
  BY FateIs
<1>10. TakenBack(k) => Fate(k) = "withdrawn" /\ n = 0
  BY <1>0, FateIs DEF TakenBack
<1>. HIDE DEF c, d
<1>11. \A t : \E rest \in Nat : /\ Heard(t) = Share(c, k, t) + rest
                                /\ Heard(t)' = Share(d, k, t) + rest
  <2>. TAKE t
  <2>1. PICK rest \in Nat : /\ Total(Obs(c), OpenIn(c, t)) = Share(c, k, t) + rest
                            /\ Total(Obs(d), OpenIn(d, t)) = Share(d, k, t) + rest
    BY ONLY <1>4, OneRowMoves
  <2>. QED
    BY <1>6, <2>1
<1>12. /\ n \in 0 .. Heard(s) /\ Heard(s)' = Heard(s) - n
       /\ \A t \in Slots : t # s => Same(t)
       /\ n = 0 => Same(s)
  <2>1. \A t \in Slots : t # s => Same(t)
    <3>. TAKE t \in Slots
    <3>. SUFFICES ASSUME t # s PROVE Same(t)
      OBVIOUS
    <3>1. Share(c, k, t) = 0 /\ Share(d, k, t) = 0
      BY <1>5
    <3>2. PICK rest \in Nat : Heard(t) = Share(c, k, t) + rest /\ Heard(t)' = Share(d, k, t) + rest
      BY <1>11
    <3>. QED
      BY <3>1, <3>2 DEF Same
  <2>2. Share(c, k, s) = n /\ Share(d, k, s) = 0
    BY <1>5
  <2>3. PICK rest \in Nat : Heard(s) = Share(c, k, s) + rest /\ Heard(s)' = Share(d, k, s) + rest
    BY <1>11
  <2>4. Heard(s) = n + rest /\ Heard(s)' = rest
    BY <2>2, <2>3
  <2>. QED
    BY <1>3, <2>1, <2>4 DEF Same
<1>13. CASE TakenBack(k)
  <2>1. \A t \in Slots : Same(t)
    BY <1>10, <1>12, <1>13
  <2>2. \A j \in Ids : Fate(j)' = Fate(j)
    BY <1>7, <1>8, <1>10, <1>13
  <2>. QED
    BY <2>1, <2>2
<1>14. CASE ~ TakenBack(k)
  <2>1. k \in Ids /\ Fate(k) # "withdrawn" /\ s \in Slots
    BY <1>3, <1>9, <1>14
  <2>2. /\ n \in 0 .. Heard(s) /\ Heard(s)' = Heard(s) - n
        /\ \A t \in Slots : t # s => Same(t)
    BY <1>12
  <2>3. Kept!Next
    BY ONLY <1>7, <1>8, <2>1, <2>2, KeptWithdraw
  <2>. QED
    BY <2>3
<1>. QED
  BY <1>13, <1>14

LEMMA UnseenKept ==
    ASSUME Table(rows), UNCHANGED <<rows, last>>
    PROVE  (\A t \in Slots : Same(t)) /\ (\A j \in Ids : Fate(j)' = Fate(j))
<1>1. \A t : /\ Heard(t) = Total(Obs(rows), OpenIn(rows, t))
             /\ Heard(t)' = Total(Obs(rows'), OpenIn(rows', t))
  BY HeardIs, HeardNextIs
<1>2. \A j \in Ids : Fate(j)' = Fate(j)
  BY FateStays
<1>. QED
  BY <1>1, <1>2 DEF Same

Unseen == (\A t \in Slots : Same(t)) /\ (\A j \in Ids : Fate(j)' = Fate(j))

LEMMA StepKept ==
    ASSUME IInv, IInv', [Next]_vars
    PROVE  Kept!Next \/ Unseen
<1>1. ASSUME UNCHANGED <<rows, last>> PROVE Unseen
  BY <1>1, UnseenKept DEF Unseen, IInv, RowsInv
<1>2. ASSUME NEW p \in Passes, NEW stages \in Kinds, Begin(p, stages) PROVE Unseen
  <2>1. UNCHANGED <<rows, last>>
    BY <1>2 DEF Begin
  <2>. QED
    BY <1>1, <2>1
<1>3. ASSUME NEW p \in Passes, Read(p) PROVE Unseen
  <2>1. UNCHANGED <<rows, last>>
    BY <1>3 DEF Read
  <2>. QED
    BY <1>1, <2>1
<1>4. ASSUME NEW p \in Passes, Leave(p) PROVE Unseen
  <2>1. UNCHANGED <<rows, last>>
    BY <1>4 DEF Leave
  <2>. QED
    BY <1>1, <2>1
<1>5. ASSUME NEW p \in Passes, pass[p].doing = "writing",
             NEW w \in Windows(pass[p].units), Write(p, w)
      PROVE  Unseen
  BY <1>5, WriteKept DEF Unseen
<1>6. ASSUME NEW s \in Slots, NEW f \in Phrases, Say(s, f) PROVE Kept!Next
  BY <1>6, SayKept
<1>7. ASSUME NEW k \in DOMAIN rows, NEW at \in 0 .. now, Restate(k, at) PROVE Kept!Next
  BY <1>7, RestateKept
<1>8. ASSUME NEW k \in DOMAIN rows, End(k) PROVE Kept!Next
  BY <1>8, EndKept
<1>9. ASSUME NEW k \in DOMAIN rows, Retire(k) PROVE Kept!Next
  BY <1>9, RetireKept
<1>10. ASSUME NEW k \in DOMAIN rows, Erase(k) PROVE Kept!Next \/ Unseen
  BY <1>10, EraseKept DEF Unseen
<1>11. ASSUME Tick \/ UNCHANGED vars PROVE Unseen
  <2>1. UNCHANGED <<rows, last>>
    BY <1>11 DEF Tick, vars
  <2>. QED
    BY <1>1, <2>1
<1>. QED
  BY <1>2, <1>3, <1>4, <1>5, <1>6, <1>7, <1>8, <1>9, <1>10, <1>11 DEF Next

LEMMA InitKept == Init => Kept!Init
<1>. SUFFICES ASSUME Init PROVE Kept!Init
  OBVIOUS
<1>1. Table(rows) /\ \A s : OpenIn(rows, s) = {}
  BY InitInv DEF Init, IInv, RowsInv, OpenIn
<1>2. \A s \in Slots : Heard(s) = 0
  BY <1>1, HeardIs, TotalOfNone
<1>3. \A k \in Ids : Fate(k) = "standing"
  <2>1. \A k \in Ids : ~ TakenBack(k) /\ k \notin DOMAIN rows
    BY SalienceBounds DEF Init, TakenBack, Ids
  <2>. QED
    BY <2>1, FateIs
<1>. QED
  BY <1>2, <1>3 DEF Kept!Init, Fate

(* What passes do is not seen in what callers said and did: a slot's       *)
(* believed claims hold what was said of it, less what callers took back,  *)
(* and what callers did to a claim stays done, whatever the passes had     *)
(* read before and wrote after.                                            *)
THEOREM SweepKeepsEvidence == Spec => EvidenceKept
<1>1. Init => Kept!Init
  BY InitKept
<1>2. IInv /\ IInv' /\ [Next]_vars
         => [Kept!Next]_<<[s \in Slots |-> Heard(s)], [k \in Ids |-> Fate(k)]>>
  <2>. SUFFICES ASSUME IInv, IInv', [Next]_vars
                PROVE  [Kept!Next]_<<[s \in Slots |-> Heard(s)], [k \in Ids |-> Fate(k)]>>
    OBVIOUS
  <2>. QED
    BY StepKept, KeptStutter DEF Unseen
<1>3. IInv /\ IInv' /\ [Next]_vars
         => [Kept!Next]_<<[s \in Slots |-> Heard(s)],
                          [k \in Ids |-> IF TakenBack(k) THEN "withdrawn"
                              ELSE IF k \in DOMAIN rows /\ rows[k].to # Open THEN "ended"
                              ELSE "standing"]>>
  BY <1>2 DEF Fate
<1>. QED
  BY <1>1, <1>3, SweepInvariant, PTL DEF Spec, EvidenceKept, Kept!Spec

-----------------------------------------------------------------------------
(* A second pass                                                           *)

(* What one step of a merge leaves of the claims that are believed.        *)
LEMMA MergedAtSettles ==
    ASSUME NEW c, InHand(c), NEW at \in Time, NEW acc, Good(c, acc, at), NEW i \in DOMAIN c,
           \A k \in DOMAIN c : acc[k].inv = Open => Settled(acc[k], at),
           NEW a, a = MergedAt(c, at, i, acc)
    PROVE  /\ \A k \in DOMAIN c : a[k].inv = Open => acc[k].inv = Open /\ Settled(a[k], at)
           /\ \A j \in Following(c, i) : <<c[i].phrase, c[j].phrase>> \in Alike
                                           => a[i].inv # Open \/ a[j].inv # Open
<1>. DEFINE K      == Cluster(c, i, acc)
            keeper == Best(c, K)
            F      == Following(c, i)
<1>0. \A j \in F : j # i /\ j \in DOMAIN c
  BY PrecedesIs DEF Following, InHand
<1>1. CASE acc[i].inv # Open
  <2>1. a = acc
    BY <1>1 DEF MergedAt
  <2>. QED
    BY <1>1, <2>1
<1>2. CASE acc[i].inv = Open /\ K = {i}
  <2>1. a = acc
    BY <1>2 DEF MergedAt
  <2>2. \A j \in F : <<c[i].phrase, c[j].phrase>> \in Alike => acc[j].inv # Open
    <3>. TAKE j \in F
    <3>. SUFFICES ASSUME <<c[i].phrase, c[j].phrase>> \in Alike, acc[j].inv = Open
                  PROVE  FALSE
      OBVIOUS
    <3>1. j \in K
      BY DEF Cluster
    <3>. QED
      BY <1>0, <1>2, <3>1
  <2>. QED
    BY <2>1, <2>2
<1>3. CASE acc[i].inv = Open /\ K # {i}
  <2>0. a = Absorbed(acc, keeper, K \ {keeper}, at)
    BY <1>3 DEF MergedAt
  <2>1. /\ i \in K /\ K \subseteq OpenIn(acc, c[i].slot) /\ keeper \in K
        /\ Table(acc) /\ DOMAIN acc = DOMAIN c
    BY <1>3, ClusterIs DEF Good
  <2>2. \A j \in F : <<c[i].phrase, c[j].phrase>> \in Alike /\ acc[j].inv = Open => j \in K
    BY DEF Cluster
  <2>. HIDE DEF K, keeper, F
  <2>3. \A k \in K : k \in DOMAIN c /\ acc[k].inv = Open /\ Becomes(c[k], acc[k], at)
    BY <2>1 DEF OpenIn, Good
  <2>4. \A k \in K : Sound(acc[k]) /\ acc[k].inv = Open /\ acc[k].by = Nobody
    BY <2>3 DEF Becomes
  <2>5. /\ \A k \in DOMAIN acc : k \notin K => a[k] = acc[k]
        /\ \A k \in K \ {keeper} : a[k].inv # Open
        /\ Settled(a[keeper], at)
    <3>1. Table(acc) /\ K \in SUBSET DOMAIN acc /\ keeper \in K
      BY <2>1 DEF OpenIn
    <3>2. /\ DOMAIN a = DOMAIN acc /\ Table(a)
          /\ \A k \in DOMAIN acc : k \notin K => a[k] = acc[k]
          /\ \A k \in K : Becomes(acc[k], a[k], at)
          /\ \A k \in K \ {keeper} : a[k].inv # Open
          /\ a[keeper].inv = Open
          /\ a[keeper].obs = Total(Obs(acc), K)
          /\ Settled(a[keeper], at)
      BY ONLY <2>0, <2>4, <3>1, at \in Time, AbsorbedIs
    <3>. QED
      BY <3>2
  <2>6. Settled(a[keeper], at)
    BY <2>5
  <2>7. \A k \in DOMAIN c : a[k].inv = Open => acc[k].inv = Open /\ Settled(a[k], at)
    <3>. TAKE k \in DOMAIN c
    <3>1. CASE k \notin K
      BY <2>1, <2>5, <3>1
    <3>2. CASE k = keeper
      BY <2>1, <2>4, <2>6, <3>2
    <3>3. CASE k \in K \ {keeper}
      BY <2>5, <3>3
    <3>. QED
      BY <3>1, <3>2, <3>3
  <2>8. \A j \in F : <<c[i].phrase, c[j].phrase>> \in Alike => a[i].inv # Open \/ a[j].inv # Open
    <3>. TAKE j \in F
    <3>. SUFFICES ASSUME <<c[i].phrase, c[j].phrase>> \in Alike,
                         a[i].inv = Open, a[j].inv = Open
                  PROVE  FALSE
      OBVIOUS
    <3>1. j # i /\ j \in DOMAIN c /\ acc[j].inv = Open
      BY <1>0, <2>7
    <3>2. j \in K /\ i \in K
      BY <2>1, <2>2, <3>1
    <3>. QED
      BY <2>5, <3>1, <3>2
  <2>. QED
    BY <2>7, <2>8 DEF F
<1>. QED
  BY <1>1, <1>2, <1>3

(* After a merge of settled claims no two that are believed are alike and  *)
(* near enough to have been compared.                                      *)
LEMMA MergedIsApart ==
    ASSUME NEW c, InHand(c), NEW at \in Time, \A k \in DOMAIN c : Settled(c[k], at),
           NEW g, g = Merged(c, at)
    PROVE  /\ \A k \in DOMAIN c : g[k].inv = Open => Settled(g[k], at)
           /\ \A i \in DOMAIN c : \A j \in Following(c, i) :
                 <<c[i].phrase, c[j].phrase>> \in Alike => g[i].inv # Open \/ g[j].inv # Open
<1>. DEFINE D == DOMAIN c
<1>1. PICK f : /\ Merged(c, at) = f[D] /\ f[{}] = c
               /\ \A s \in SUBSET D :
                     /\ Good(c, f[s], at)
                     /\ s # {} => f[s] = MergedAt(c, at, LastOf(c, s), f[s \ {LastOf(c, s)}])
  BY MergeSteps
<1>. DEFINE Even(s) == \A k \in D : f[s][k].inv = Open => Settled(f[s][k], at)
            Apart(s) == \A i \in s : \A j \in Following(c, i) :
                           <<c[i].phrase, c[j].phrase>> \in Alike
                              => f[s][i].inv # Open \/ f[s][j].inv # Open
            G == {s \in SUBSET D : Even(s) /\ Apart(s)}
<1>2. {} \in G
  BY <1>1
<1>3. ASSUME NEW s \in SUBSET D, s # {}, \A x \in s : s \ {x} \in G
      PROVE  s \in G
  <2>. DEFINE x == LastOf(c, s)
              r == s \ {x}
              acc == f[r]
              a == f[s]
  <2>1. x \in s /\ a = MergedAt(c, at, x, acc)
    BY <1>1, <1>3, LastIs DEF InHand
  <2>. HIDE DEF x
  <2>2. r \in G /\ r \in SUBSET D /\ x \in D
    BY <1>3, <2>1
  <2>3. Even(r) /\ Apart(r)
    BY <2>2
  <2>4. Good(c, acc, at)
    BY <1>1, <2>2
  <2>. HIDE DEF a, acc, r
  <2>5. \A k \in DOMAIN c : acc[k].inv = Open => Settled(acc[k], at)
    BY <2>3 DEF acc
  <2>6. /\ \A k \in DOMAIN c : a[k].inv = Open => acc[k].inv = Open /\ Settled(a[k], at)
        /\ \A j \in Following(c, x) : <<c[x].phrase, c[j].phrase>> \in Alike
                                        => a[x].inv # Open \/ a[j].inv # Open
    BY ONLY <2>1, <2>2, <2>4, <2>5, InHand(c), at \in Time, MergedAtSettles
  <2>7. Even(s)
    BY <2>6 DEF a
  <2>8. Apart(s)
    <3>. TAKE i \in s
    <3>. TAKE j \in Following(c, i)
    <3>. SUFFICES ASSUME <<c[i].phrase, c[j].phrase>> \in Alike
                  PROVE  a[i].inv # Open \/ a[j].inv # Open
      BY DEF a
    <3>1. CASE i = x
      BY <2>6, <3>1
    <3>2. CASE i # x
      <4>1. i \in r /\ i \in D /\ j \in D
        BY <3>2 DEF r, Following
      <4>2. acc[i].inv # Open \/ acc[j].inv # Open
        BY <2>3, <4>1 DEF acc
      <4>. QED
        BY <2>6, <4>1, <4>2
    <3>. QED
      BY <3>1, <3>2
  <2>. QED
    BY <2>7, <2>8
<1>4. SUBSET D \subseteq G
  <2>1. IsFiniteSet(D)
    BY TableIsFinite DEF InHand
  <2>. HIDE DEF G, D
  <2>. QED
    BY <1>2, <1>3, <2>1, SubsetInduction
<1>5. Even(D) /\ Apart(D)
  BY <1>4
<1>6. g = f[D]
  BY <1>1
<1>. QED
  BY <1>5, <1>6

(* In a slot of no more claims than are compared, a claim is compared with *)
(* all that follow it.                                                     *)
LEMMA AllFollow ==
    ASSUME NEW c, Table(c), NEW i \in DOMAIN c, NEW j \in DOMAIN c, c[j].slot = c[i].slot,
           Precedes(c, i, j), Cardinality(InSlot(c, c[i].slot)) <= Neighbourhood
    PROVE  j \in Following(c, i)
<1>. DEFINE S == InSlot(c, c[i].slot)
            B == {m \in S : Precedes(c, i, m) /\ Precedes(c, m, j)}
            R == (S \ {i}) \ {j}
<1>1. i \in S /\ j \in S /\ i # j
  BY PrecedesIs DEF InSlot
<1>2. IsFiniteSet(S)
  <2>1. S \in SUBSET DOMAIN c
    BY DEF InSlot
  <2>. QED
    BY <2>1, TableIsFinite
<1>3. B \subseteq R
  <2>1. \A m \in S : m \in DOMAIN c
    BY DEF InSlot
  <2>. QED
    BY <2>1, PrecedesIs
<1>4. j \in Following(c, i) <=> Cardinality(B) + 1 < Neighbourhood
  BY <1>1 DEF Following, InSlot
<1>. HIDE DEF S
<1>5. /\ IsFiniteSet(S \ {i}) /\ IsFiniteSet(R) /\ Cardinality(S) \in Nat
      /\ Cardinality(R) = Cardinality(S) - 2
  <2>1. IsFiniteSet(S \ {i}) /\ Cardinality(S \ {i}) = Cardinality(S) - 1
    BY <1>1, <1>2, FS_RemoveElement
  <2>2. IsFiniteSet(R) /\ Cardinality(R) = Cardinality(S \ {i}) - 1
    BY <1>1, <2>1, FS_RemoveElement
  <2>3. Cardinality(S) \in Nat
    BY <1>2, FS_CardinalityType
  <2>. QED
    BY <2>1, <2>2, <2>3
<1>. HIDE DEF R, B
<1>6. Cardinality(B) <= Cardinality(R) /\ Cardinality(B) \in Nat /\ Cardinality(R) \in Nat
  BY <1>3, <1>5, FS_Subset, FS_CardinalityType
<1>7. Neighbourhood \in Nat /\ Cardinality(S) <= Neighbourhood
  BY SweepAssumption DEF S
<1>. QED
  BY <1>4, <1>5, <1>6, <1>7

(* Claims of which no two in a slot are alike are left as they are.        *)
LEMMA MergedAlone ==
    ASSUME NEW c, InHand(c), NEW at \in Time,
           \A i, j \in DOMAIN c : i # j /\ c[j].slot = c[i].slot
                                    => <<c[i].phrase, c[j].phrase>> \notin Alike
    PROVE  Merged(c, at) = c
<1>. DEFINE D == DOMAIN c
<1>1. PICK f : /\ Merged(c, at) = f[D] /\ f[{}] = c
               /\ \A s \in SUBSET D : s # {} =>
                     f[s] = MergedAt(c, at, LastOf(c, s), f[s \ {LastOf(c, s)}])
  BY MergeSteps
<1>2. ASSUME NEW i \in D
      PROVE  MergedAt(c, at, i, c) = c
  <2>1. Cluster(c, i, c) = {i}
    BY PrecedesIs DEF Cluster, Following, InHand
  <2>. QED
    BY <2>1 DEF MergedAt
<1>. DEFINE G == {s \in SUBSET D : f[s] = c}
<1>3. {} \in G
  BY <1>1
<1>4. ASSUME NEW s \in SUBSET D, s # {}, \A x \in s : s \ {x} \in G
      PROVE  s \in G
  <2>. DEFINE x == LastOf(c, s)
  <2>1. x \in s /\ f[s] = MergedAt(c, at, x, f[s \ {x}])
    BY <1>1, <1>4, LastIs DEF InHand
  <2>. HIDE DEF x
  <2>. QED
    BY <1>2, <1>4, <2>1
<1>5. SUBSET D \subseteq G
  <2>1. IsFiniteSet(D)
    BY TableIsFinite DEF InHand
  <2>. HIDE DEF G, D
  <2>. QED
    BY <1>3, <1>4, <2>1, SubsetInduction
<1>. QED
  BY <1>1, <1>5

(* Claims a pass has nothing to do to: all lie on their curve, no two of   *)
(* a slot are alike, and none is due to be promoted.                       *)
LEMMA MadeAlone ==
    ASSUME NEW c, InHand(c), NEW at \in Time, \A k \in DOMAIN c : Settled(c[k], at),
           \A i, j \in DOMAIN c : i # j /\ c[j].slot = c[i].slot
                                    => <<c[i].phrase, c[j].phrase>> \notin Alike,
           \A k \in DOMAIN c : c[k].kind # "episodic" \/ ~ (c[k].obs >= MinObservations)
    PROVE  Made(c, at, Stages) = c
<1>1. c = [k \in DOMAIN c |-> c[k]]
  BY DEF InHand, Table
<1>2. Faded(c, at) = c
  <2>1. \A k \in DOMAIN c : Decayed(c[k], at) = c[k]
    BY TableIsFinite, SettledStays DEF InHand
  <2>. QED
    BY <1>1, <2>1 DEF Faded
<1>3. Merged(c, at) = c
  BY MergedAlone
<1>4. Promoted(c, at) = c
  BY <1>1 DEF Promoted
<1>. QED
  BY <1>2, <1>3, <1>4 DEF Made, Stages

(* What a pass leaves believed of live claims, where no slot has more of   *)
(* them than are compared: nothing another pass at that instant would      *)
(* touch.                                                                  *)
LEMMA OnceIsEnough ==
    ASSUME NEW c, InHand(c), NEW at \in Time, \A k \in DOMAIN c : IsLive(c[k], at),
           \A k \in DOMAIN c : Cardinality(InSlot(c, c[k].slot)) <= Neighbourhood,
           NEW once, once = Made(c, at, Stages),
           NEW left, left = Restrict(once, {k \in DOMAIN c : once[k].inv = Open})
    PROVE  Made(left, at, Stages) = left
<1>. DEFINE f == Faded(c, at)
            g == Merged(f, at)
            L == {k \in DOMAIN c : once[k].inv = Open}
<1>1. once = Promoted(g, at)
  BY DEF Made, Stages
<1>2. DOMAIN f = DOMAIN c /\ InHand(f) /\ \A k \in DOMAIN c : Becomes(c[k], f[k], at)
  BY FadedIs
<1>3. \A k \in DOMAIN f : Settled(f[k], at)
  <2>. TAKE k \in DOMAIN f
  <2>1. f[k] = Decayed(c[k], at)
    BY <1>2 DEF Faded
  <2>2. c[k] \in Row /\ c[k].sal >= SalienceFloor
    BY <1>2, TableIsFinite DEF InHand, Sound
  <2>. QED
    BY <2>1, <2>2, DecayedSettles
<1>. HIDE DEF f
<1>4. Good(f, g, at)
  BY <1>2, MergedIsGood
<1>5. /\ \A k \in DOMAIN f : g[k].inv = Open => Settled(g[k], at)
      /\ \A i \in DOMAIN f : \A j \in Following(f, i) :
            <<f[i].phrase, f[j].phrase>> \in Alike => g[i].inv # Open \/ g[j].inv # Open
  BY <1>2, <1>3, MergedIsApart
<1>. HIDE DEF g
<1>6. /\ DOMAIN g = DOMAIN c /\ Table(g)
      /\ \A k \in DOMAIN c : Becomes(f[k], g[k], at)
  BY <1>2, <1>4 DEF Good
<1>7. /\ DOMAIN once = DOMAIN c
      /\ \A k \in DOMAIN c :
            once[k] = IF g[k].kind = "episodic" /\ g[k].obs >= MinObservations /\ IsLive(g[k], at)
                      THEN [g[k] EXCEPT !.kind = "semantic"] ELSE g[k]
  BY <1>1, <1>6 DEF Promoted
<1>8. ASSUME NEW k \in DOMAIN c
      PROVE  /\ once[k].inv = g[k].inv /\ once[k].phrase = f[k].phrase /\ once[k].slot = f[k].slot
             /\ g[k].inv = Open /\ Settled(g[k], at) => Settled(once[k], at)
             /\ once[k].inv = Open =>
                   once[k].kind # "episodic" \/ ~ (once[k].obs >= MinObservations)
  <2>1. g[k] \in Row /\ g[k].phrase = f[k].phrase /\ g[k].slot = f[k].slot
    BY <1>6, TableIsFinite DEF Becomes
  <2>2. /\ once[k].inv = g[k].inv /\ once[k].phrase = g[k].phrase /\ once[k].slot = g[k].slot
        /\ once[k].base = g[k].base /\ once[k].sal = g[k].sal /\ once[k].seen = g[k].seen
        /\ once[k].obs = g[k].obs
    BY <1>7, <2>1 DEF Row
  <2>3. g[k].inv = Open => IsLive(g[k], at)
    <3>1. g[k].rec = c[k].rec /\ g[k].to = c[k].to
      BY <1>2, <1>6 DEF Becomes
    <3>2. at < Open
      BY SalienceBounds DEF Time, Open
    <3>. QED
      BY <3>1, <3>2 DEF IsLive
  <2>4. once[k].inv = Open => once[k].kind # "episodic" \/ ~ (once[k].obs >= MinObservations)
    <3>1. CASE g[k].kind = "episodic" /\ g[k].obs >= MinObservations /\ IsLive(g[k], at)
      <4>1. once[k].kind = "semantic"
        BY <1>7, <2>1, <3>1 DEF Row
      <4>. QED
        BY <4>1
    <3>2. CASE ~ (g[k].kind = "episodic" /\ g[k].obs >= MinObservations /\ IsLive(g[k], at))
      BY <1>7, <2>2, <2>3, <3>2
    <3>. QED
      BY <3>1, <3>2
  <2>. QED
    BY <2>1, <2>2, <2>4 DEF Settled, Age
<1>9. Good(c, once, at)
  BY MadeIsGood
<1>. HIDE DEF L
<1>10. L \subseteq DOMAIN once /\ DOMAIN left = L /\ Table(left) /\ \A k \in L : left[k] = once[k]
  <2>1. L \in SUBSET DOMAIN once /\ Table(once)
    BY <1>7, <1>9 DEF L, Good
  <2>2. left = Restrict(once, L)
    BY DEF L
  <2>. QED
    BY <2>1, <2>2, RestrictIs
<1>11. InHand(left)
  <2>1. \A k \in L : Sound(left[k]) /\ left[k].inv = Open /\ left[k].by = Nobody
    BY <1>7, <1>9, <1>10 DEF L, Good, Becomes
  <2>. QED
    BY <1>10, <2>1 DEF InHand
<1>12. \A k \in DOMAIN left : Settled(left[k], at)
  BY <1>2, <1>5, <1>7, <1>8, <1>10 DEF L
<1>13. ASSUME NEW i \in DOMAIN left, NEW j \in DOMAIN left, i # j, left[j].slot = left[i].slot,
              <<left[i].phrase, left[j].phrase>> \in Alike
       PROVE  FALSE
  <2>1. /\ i \in DOMAIN f /\ j \in DOMAIN f /\ g[i].inv = Open /\ g[j].inv = Open
        /\ f[j].slot = f[i].slot /\ <<f[i].phrase, f[j].phrase>> \in Alike
    <3>1. /\ i \in L /\ j \in L /\ left[i] = once[i] /\ left[j] = once[j]
          /\ \A k \in L : k \in DOMAIN c /\ once[k].inv = Open
      BY <1>10, <1>13 DEF L
    <3>2. /\ i \in DOMAIN f /\ j \in DOMAIN f /\ once[i].inv = Open /\ once[j].inv = Open
          /\ i \in DOMAIN c /\ j \in DOMAIN c
      BY <1>2, <3>1
    <3>3. /\ g[i].inv = Open /\ g[j].inv = Open
          /\ once[i].phrase = f[i].phrase /\ once[i].slot = f[i].slot
          /\ once[j].phrase = f[j].phrase /\ once[j].slot = f[j].slot
      BY <1>8, <3>2
    <3>. QED
      BY <1>13, <3>1, <3>2, <3>3
  <2>2. <<f[j].phrase, f[i].phrase>> \in Alike
    BY <2>1, SweepAssumption
  <2>3. Cardinality(InSlot(f, f[i].slot)) <= Neighbourhood
    <3>1. InSlot(f, f[i].slot) = InSlot(c, c[i].slot)
      BY <1>2, <2>1 DEF InSlot, Becomes
    <3>. QED
      BY <1>2, <2>1, <3>1
  <2>4. Table(f)
    BY <1>2 DEF InHand
  <2>5. j \in Following(f, i) \/ i \in Following(f, j)
    BY <1>13, <2>1, <2>3, <2>4, PrecedesIs, AllFollow
  <2>. QED
    BY <1>5, <2>1, <2>2, <2>5
<1>14. \A k \in DOMAIN left : left[k].kind # "episodic" \/ ~ (left[k].obs >= MinObservations)
  BY <1>7, <1>8, <1>10 DEF L
<1>. QED
  BY <1>11, <1>12, <1>13, <1>14, MadeAlone

LEMMA InvImpliesIdempotent == IInv => PassIsIdempotent
<1>. SUFFICES ASSUME IInv PROVE PassIsIdempotent
  OBVIOUS
<1>. DEFINE live == {k \in DOMAIN rows : IsLive(rows[k], now)}
            read == Restrict(rows, live)
            once == Made(read, now, Stages)
            left == Restrict(once, {k \in live : once[k].inv = Open})
<1>. SUFFICES ASSUME \A k \in live :
                        Cardinality({j \in live : rows[j].slot = rows[k].slot}) <= Neighbourhood
              PROVE  Made(left, now, Stages) = left
  BY DEF PassIsIdempotent
<1>1. Table(rows) /\ now \in Time
  BY DEF IInv, RowsInv
<1>2. Table(read) /\ DOMAIN read = live /\ \A k \in live : read[k] = rows[k]
  BY <1>1, RestrictIs
<1>3. InHand(read) /\ \A k \in DOMAIN read : IsLive(read[k], now)
  <2>1. \A k \in live : /\ Sound(rows[k]) /\ rows[k].inv = Open /\ rows[k].by = Nobody
                        /\ IsLive(rows[k], now)
    BY LiveIs DEF IInv, RowOK
  <2>. HIDE DEF live, read
  <2>. QED
    BY <1>2, <2>1 DEF InHand
<1>4. \A k \in DOMAIN read : Cardinality(InSlot(read, read[k].slot)) <= Neighbourhood
  <2>. TAKE k \in DOMAIN read
  <2>1. InSlot(read, read[k].slot) = {j \in live : rows[j].slot = rows[k].slot}
    BY <1>2 DEF InSlot
  <2>. QED
    BY <1>2, <2>1
<1>5. left = Restrict(once, {k \in DOMAIN read : once[k].inv = Open})
  BY <1>2
<1>. HIDE DEF read, once, live
<1>6. once = Made(read, now, Stages)
  BY DEF once
<1>. HIDE DEF left
<1>. QED
  BY ONLY <1>1, <1>3, <1>4, <1>5, <1>6, OnceIsEnough

(* A pass leaves nothing a second at the same instant would write: each    *)
(* claim lies on its curve, its cluster is one claim, and what was due is  *)
(* promoted, whatever passes and callers left in the table.                *)
THEOREM SweepPassIsIdempotent == Spec => []PassIsIdempotent
  BY SweepInvariant, InvImpliesIdempotent, PTL

=============================================================================
