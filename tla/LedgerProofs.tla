---------------------------- MODULE LedgerProofs ----------------------------
(***************************************************************************)
(* Sums over finite sets, and what the lines of a journal come to.  A sum  *)
(* is a fold that chooses the next element: that it is a number, that any  *)
(* element can be taken out first, that it splits, adds and does not care  *)
(* what its elements are called is proved here from that definition.  Then *)
(* the lines: what they come to on some accounts, when they are joined,    *)
(* turned round, or the empty ones are left out (Lines).                   *)
(***************************************************************************)
EXTENDS BooksProofs

-----------------------------------------------------------------------------
(* Sums over finite sets *)

LEMMA LeastMember ==
  ASSUME NEW T \in SUBSET Nat, T # {}
  PROVE  \E n \in T : \A m \in Nat : m < n => m \notin T
<1>1. PICK n \in T : \A m \in T : ~ <<m, n>> \in OpToRel(<, Nat)
  BY NatLessThanWellFounded, WFMin
<1> QED BY <1>1 DEF OpToRel

\* What holds of zero, and of a number's successor, holds of every number.
LEMMA NaturalsCovered ==
  ASSUME NEW Good, 0 \in Good, \A n \in Nat : n \in Good => n + 1 \in Good
  PROVE  Nat \subseteq Good
<1> DEFINE Bad == {n \in Nat : n \notin Good}
<1>1. ASSUME Bad # {} PROVE FALSE
  <2>1. Bad \in SUBSET Nat
    OBVIOUS
  <2>2. PICK n \in Bad : \A m \in Nat : m < n => m \notin Bad
    <3> HIDE DEF Bad
    <3> QED BY <1>1, <2>1, LeastMember
  <2>3. n \in Nat /\ n # 0 /\ n - 1 \in Nat /\ n - 1 < n /\ n - 1 + 1 = n
    OBVIOUS
  <2>4. n - 1 \in Good
    BY <2>2, <2>3
  <2> QED BY <2>3, <2>4
<1> QED BY <1>1

LEMMA SmallerSet ==
  ASSUME NEW S, IsFiniteSet(S), NEW x \in S
  PROVE  /\ IsFiniteSet(S \ {x})
         /\ Cardinality(S) \in Nat /\ Cardinality(S) # 0
         /\ Cardinality(S \ {x}) = Cardinality(S) - 1
<1>1. Cardinality(S) \in Nat
  BY FS_CardinalityType
<1>2. IsFiniteSet(S \ {x}) /\ Cardinality(S \ {x}) = Cardinality(S) - 1
  BY FS_RemoveElement
<1>3. Cardinality(S \ {x}) \in Nat
  BY <1>2, FS_CardinalityType
<1> QED BY <1>1, <1>2, <1>3

\* A finite set is good when the empty set is, and any set is that is good
\* without one of its elements, whichever is left out.
LEMMA SubsetsCovered ==
  ASSUME NEW S, IsFiniteSet(S), NEW Good, {} \in Good,
         \A s \in SUBSET S : s # {} /\ (\A x \in s : s \ {x} \in Good) => s \in Good
  PROVE  SUBSET S \subseteq Good
<1> DEFINE Fine == {n \in Nat : \A s \in SUBSET S : Cardinality(s) = n => s \in Good}
<1>1. \A s \in SUBSET S : IsFiniteSet(s) /\ Cardinality(s) \in Nat
  BY FS_Subset, FS_CardinalityType
<1>2. 0 \in Fine
  <2>1. \A s \in SUBSET S : Cardinality(s) = 0 => s = {}
    BY <1>1, FS_EmptySet
  <2> QED BY <2>1
<1>3. ASSUME NEW n \in Nat, n \in Fine PROVE n + 1 \in Fine
  <2>1. ASSUME NEW s \in SUBSET S, Cardinality(s) = n + 1 PROVE s \in Good
    <3>1. s # {}
      <4>1. Cardinality({}) = 0 /\ Cardinality(s) # 0
        BY <2>1, FS_EmptySet
      <4> QED BY <4>1
    <3>2. ASSUME NEW x \in s PROVE s \ {x} \in Good
      <4>1. Cardinality(s \ {x}) = n
        BY <1>1, <2>1, SmallerSet
      <4> QED BY <1>3, <4>1
    <3> QED BY <3>1, <3>2
  <2> QED BY <2>1
<1>4. Nat \subseteq Fine
  <2> HIDE DEF Fine
  <2> QED BY <1>2, <1>3, NaturalsCovered
<1> QED BY <1>1, <1>4

\* The sums of the parts of a finite set, taking out one chosen element at a time.
Follows(h, f, S) ==
  h = [s \in SUBSET S |-> IF s = {} THEN 0
                          ELSE f[CHOOSE x \in s : TRUE] + h[s \ {CHOOSE x \in s : TRUE}]]

Small(S, n) == {s \in SUBSET S : Cardinality(s) <= n}

LEMMA SumsExist ==
  ASSUME NEW S, IsFiniteSet(S), NEW f \in [S -> Int]
  PROVE  \E h \in [SUBSET S -> Int] : Follows(h, f, S)
<1> DEFINE Upto(n) == \E h \in [Small(S, n) -> Int] : \A s \in Small(S, n) :
              h[s] = IF s = {} THEN 0
                     ELSE f[CHOOSE x \in s : TRUE] + h[s \ {CHOOSE x \in s : TRUE}]
           Good == {n \in Nat : Upto(n)}
<1>0. \A s \in SUBSET S : IsFiniteSet(s) /\ Cardinality(s) \in Nat
  BY FS_Subset, FS_CardinalityType
<1>1. 0 \in Good
  <2>1. \A s \in Small(S, 0) : s = {}
    BY <1>0, FS_EmptySet DEF Small
  <2> DEFINE h == [s \in Small(S, 0) |-> 0]
  <2>2. h \in [Small(S, 0) -> Int] /\ \A s \in Small(S, 0) : h[s] = 0
    OBVIOUS
  <2> HIDE DEF h
  <2> QED BY <2>1, <2>2
<1>2. ASSUME NEW n \in Nat, n \in Good PROVE n + 1 \in Good
  <2>1. PICK g \in [Small(S, n) -> Int] : \A s \in Small(S, n) :
              g[s] = IF s = {} THEN 0
                     ELSE f[CHOOSE x \in s : TRUE] + g[s \ {CHOOSE x \in s : TRUE}]
    BY <1>2
  <2>2. ASSUME NEW s \in Small(S, n + 1), s # {}
        PROVE  s \ {CHOOSE x \in s : TRUE} \in Small(S, n) /\ (CHOOSE x \in s : TRUE) \in S
    <3>1. s \in SUBSET S /\ IsFiniteSet(s) /\ Cardinality(s) \in Nat /\ Cardinality(s) <= n + 1
      BY <1>0 DEF Small
    <3>2. PICK y \in s : y = CHOOSE x \in s : TRUE
      BY <2>2
    <3>3. Cardinality(s \ {y}) = Cardinality(s) - 1
      BY <3>1, SmallerSet
    <3> QED BY <3>1, <3>2, <3>3 DEF Small
  <2>3. Small(S, n) \subseteq Small(S, n + 1)
    BY <1>0 DEF Small
  <2> DEFINE h == [s \in Small(S, n + 1) |->
                     IF s = {} THEN 0
                     ELSE f[CHOOSE x \in s : TRUE] + g[s \ {CHOOSE x \in s : TRUE}]]
  <2>4. h \in [Small(S, n + 1) -> Int]
    BY <2>2
  <2>5. \A s \in Small(S, n) : h[s] = g[s]
    BY <2>1, <2>3
  <2>6. \A s \in Small(S, n + 1) :
          h[s] = IF s = {} THEN 0
                 ELSE f[CHOOSE x \in s : TRUE] + h[s \ {CHOOSE x \in s : TRUE}]
    <3>1. \A s \in Small(S, n + 1) :
            h[s] = IF s = {} THEN 0
                   ELSE f[CHOOSE x \in s : TRUE] + g[s \ {CHOOSE x \in s : TRUE}]
      OBVIOUS
    <3> HIDE DEF h
    <3> QED BY <2>2, <2>5, <3>1
  <2> HIDE DEF h
  <2>7. Upto(n + 1)
    BY <2>4, <2>6
  <2> HIDE DEF Upto
  <2> QED BY <2>7
<1>3. Upto(Cardinality(S))
  <2>1. Nat \subseteq Good
    <3> HIDE DEF Good
    <3> QED BY <1>1, <1>2, NaturalsCovered
  <2> QED BY <1>0, <2>1
<1>4. Small(S, Cardinality(S)) = SUBSET S
  BY FS_Subset DEF Small
<1>5. PICK h \in [SUBSET S -> Int] : \A s \in SUBSET S :
         h[s] = IF s = {} THEN 0
                ELSE f[CHOOSE x \in s : TRUE] + h[s \ {CHOOSE x \in s : TRUE}]
  BY <1>3, <1>4
<1>6. Follows(h, f, S)
  BY <1>5 DEF Follows
<1> QED BY <1>6

LEMMA SumFollows ==
  ASSUME NEW S, IsFiniteSet(S), NEW f \in [S -> Int]
  PROVE  \E h \in [SUBSET S -> Int] : Follows(h, f, S) /\ SumFunction(f) = h[S]
<1> DEFINE h == CHOOSE h : Follows(h, f, S)
<1>1. Follows(h, f, S)
  BY SumsExist
<1>2. SumFunction(f) = h[S]
  BY DEF SumFunction, SumFunctionOnSet, FoldFunctionOnSet, MapThenFoldSet, Follows
<1> HIDE DEF h
<1> DEFINE T == {s \in SUBSET S : h[s] \in Int}
<1>3. {} \in T
  BY <1>1 DEF Follows
<1>4. ASSUME NEW s \in SUBSET S, s # {}, \A x \in s : s \ {x} \in T
      PROVE  s \in T
  <2>1. PICK y \in s : y = CHOOSE x \in s : TRUE
    BY <1>4
  <2>2. h[s] = f[y] + h[s \ {y}]
    BY <1>1, <1>4, <2>1 DEF Follows
  <2>3. f[y] \in Int /\ h[s \ {y}] \in Int
    BY <1>4
  <2> QED BY <2>2, <2>3
<1>5. SUBSET S \subseteq T
  <2> HIDE DEF T
  <2> QED BY <1>3, <1>4, SubsetsCovered
<1>6. h = [s \in SUBSET S |-> h[s]]
  <2>1. h = [s \in SUBSET S |-> IF s = {} THEN 0
                          ELSE f[CHOOSE x \in s : TRUE] + h[s \ {CHOOSE x \in s : TRUE}]]
    BY <1>1 DEF Follows
  <2> QED BY <2>1
<1>7. h \in [SUBSET S -> Int]
  BY <1>5, <1>6
<1> QED BY <1>1, <1>2, <1>7

\* The sums of every part of a finite set, as one function.
PartSums(h, f, S) ==
  /\ h[{}] = 0
  /\ \A s \in SUBSET S : \A x \in s : h[s] = f[x] + h[s \ {x}]
  /\ \A s \in SUBSET S : SumFunction([x \in s |-> f[x]]) = h[s]

LEMMA SumsOfParts ==
  ASSUME NEW S, IsFiniteSet(S), NEW f \in [S -> Int]
  PROVE  \E h \in [SUBSET S -> Int] : PartSums(h, f, S)
<1>1. PICK h \in [SUBSET S -> Int] : Follows(h, f, S)
  BY SumsExist
<1>2. h[{}] = 0
  BY <1>1 DEF Follows
<1>3. \A s \in SUBSET S : s # {} => h[s] = f[CHOOSE x \in s : TRUE] + h[s \ {CHOOSE x \in s : TRUE}]
  BY <1>1 DEF Follows
<1>4. \A s \in SUBSET S : \A x \in s : h[s] = f[x] + h[s \ {x}]
  <2> DEFINE T == {s \in SUBSET S : \A x \in s : h[s] = f[x] + h[s \ {x}]}
  <2>1. {} \in T
    OBVIOUS
  <2>2. ASSUME NEW s \in SUBSET S, s # {}, \A x \in s : s \ {x} \in T
        PROVE  s \in T
    <3>0. PICK y \in s : y = CHOOSE x \in s : TRUE
      BY <2>2
    <3>1. h[s] = f[y] + h[s \ {y}]
      BY <1>3, <2>2, <3>0
    <3>2. ASSUME NEW x \in s, x # y PROVE h[s] = f[x] + h[s \ {x}]
      <4>1. h[s \ {y}] = f[x] + h[(s \ {y}) \ {x}] /\ h[s \ {x}] = f[y] + h[(s \ {x}) \ {y}]
        BY <2>2, <3>2
      <4>2. (s \ {y}) \ {x} = (s \ {x}) \ {y} /\ (s \ {y}) \ {x} \in SUBSET S
        OBVIOUS
      <4>3. f[x] \in Int /\ f[y] \in Int
        OBVIOUS
      <4>4. h[(s \ {y}) \ {x}] \in Int
        BY <4>2
      <4>5. h[s] = f[y] + (f[x] + h[(s \ {y}) \ {x}]) /\ h[s \ {x}] = f[y] + h[(s \ {y}) \ {x}]
        BY <3>1, <4>1, <4>2
      <4> QED BY <4>3, <4>4, <4>5
    <3> QED BY <2>2, <3>1, <3>2
  <2>3. SUBSET S \subseteq T
    <3> HIDE DEF T
    <3> QED BY <2>1, <2>2, SubsetsCovered
  <2> QED BY <2>3
<1>5. ASSUME NEW s \in SUBSET S PROVE SumFunction([x \in s |-> f[x]]) = h[s]
  <2> DEFINE g == [x \in s |-> f[x]]
  <2>0. g \in [s -> Int] /\ IsFiniteSet(s) /\ \A x \in s : g[x] = f[x]
    BY FS_Subset
  <2> HIDE DEF g
  <2>1. PICK k \in [SUBSET s -> Int] : Follows(k, g, s) /\ SumFunction(g) = k[s]
    BY <2>0, SumFollows
  <2> DEFINE T == {t \in SUBSET s : k[t] = h[t]}
  <2>2. {} \in T
    BY <1>2, <2>1 DEF Follows
  <2>3. ASSUME NEW t \in SUBSET s, t # {}, \A x \in t : t \ {x} \in T
        PROVE  t \in T
    <3>1. PICK y \in t : y = CHOOSE x \in t : TRUE
      BY <2>3
    <3>2. k[t] = g[y] + k[t \ {y}]
      BY <2>1, <2>3, <3>1 DEF Follows
    <3>3. h[t] = f[y] + h[t \ {y}]
      BY <1>4
    <3> QED BY <2>0, <2>3, <3>2, <3>3
  <2>4. SUBSET s \subseteq T
    <3> HIDE DEF T
    <3>1. IsFiniteSet(s)
      BY <2>0
    <3> QED BY <3>1, <2>2, <2>3, SubsetsCovered
  <2>5. SumFunction(g) = h[s]
    BY <2>1, <2>4
  <2> QED BY <2>5 DEF g
<1>6. PartSums(h, f, S)
  BY <1>2, <1>4, <1>5 DEF PartSums
<1> QED BY <1>6

LEMMA SumNone ==
  ASSUME NEW V, NEW f \in [{} -> V]
  PROVE  SumFunction(f) = 0
<1>1. f \in [{} -> Int] /\ IsFiniteSet({})
  BY FS_EmptySet
<1>2. PICK h \in [SUBSET {} -> Int] : Follows(h, f, {}) /\ SumFunction(f) = h[{}]
  BY <1>1, SumFollows
<1>3. h[{}] = 0
  BY <1>2 DEF Follows
<1> QED BY <1>2, <1>3

\* A sum is a number, and any element can be taken out first.
LEMMA SumInt ==
  ASSUME NEW S, IsFiniteSet(S), NEW f \in [S -> Int]
  PROVE  SumFunction(f) \in Int
<1>1. PICK h \in [SUBSET S -> Int] : SumFunction(f) = h[S]
  BY SumFollows
<1> QED BY <1>1

LEMMA SumTake ==
  ASSUME NEW S, IsFiniteSet(S), NEW f \in [S -> Int], NEW e \in S
  PROVE  SumFunction(f) = f[e] + SumFunction([x \in S \ {e} |-> f[x]])
<1>1. PICK h \in [SUBSET S -> Int] :
PartSums(h, f, S)
  BY SumsOfParts
<1>2. f = [x \in S |-> f[x]]
  OBVIOUS
<1>3. h[S] = f[e] + h[S \ {e}]
  BY <1>1 DEF PartSums
<1>4. SumFunction([x \in S \ {e} |-> f[x]]) = h[S \ {e}]
  BY <1>1 DEF PartSums
<1>5. SumFunction([x \in S |-> f[x]]) = h[S]
  BY <1>1 DEF PartSums
<1> QED BY <1>2, <1>3, <1>4, <1>5

-----------------------------------------------------------------------------
(* Sums of integers over a finite set *)

Summable(f, S) == IsFiniteSet(S) /\ f \in [S -> Int]

Alike(f, g, S) == \A x \in S : f[x] = g[x]

\* A bijection, and a function that is another one after it.
Renames(p, S, R) ==
  /\ p \in [S -> R]
  /\ \A x, y \in S : p[x] = p[y] => x = y
  /\ \A y \in R : \E x \in S : p[x] = y

After(g, f, p, S) == \A x \in S : g[x] = f[p[x]]

LEMMA SumZero ==
  ASSUME NEW S, IsFiniteSet(S), NEW f \in [S -> Int], \A x \in S : f[x] = 0
  PROVE  SumFunction(f) = 0
<1>1. PICK h \in [SUBSET S -> Int] : PartSums(h, f, S)
  BY SumsOfParts
<1> DEFINE T == {s \in SUBSET S : h[s] = 0}
<1>2. {} \in T
  BY <1>1 DEF PartSums
<1>3. ASSUME NEW s \in SUBSET S, s # {}, \A x \in s : s \ {x} \in T PROVE s \in T
  <2>1. PICK x \in s : TRUE
    BY <1>3
  <2>2. h[s] = f[x] + h[s \ {x}]
    BY <1>1 DEF PartSums
  <2> QED BY <1>3, <2>2
<1>4. SUBSET S \subseteq T
  <2> HIDE DEF T
  <2> QED BY <1>2, <1>3, SubsetsCovered
<1>5. h[S] = 0 /\ SumFunction([x \in S |-> f[x]]) = h[S]
  BY <1>1, <1>4 DEF PartSums
<1>6. f = [x \in S |-> f[x]]
  OBVIOUS
<1> QED BY <1>5, <1>6

LEMMA SumAdd ==
  ASSUME NEW S, IsFiniteSet(S), NEW f \in [S -> Int], NEW g \in [S -> Int],
         NEW h \in [S -> Int], \A x \in S : h[x] = f[x] + g[x]
  PROVE  SumFunction(h) = SumFunction(f) + SumFunction(g)
<1>1. PICK a \in [SUBSET S -> Int] : PartSums(a, f, S)
  BY SumsOfParts
<1>2. PICK b \in [SUBSET S -> Int] : PartSums(b, g, S)
  BY SumsOfParts
<1>3. PICK c \in [SUBSET S -> Int] : PartSums(c, h, S)
  BY SumsOfParts
<1> DEFINE T == {s \in SUBSET S : c[s] = a[s] + b[s]}
<1>4. {} \in T
  BY <1>1, <1>2, <1>3 DEF PartSums
<1>5. ASSUME NEW s \in SUBSET S, s # {}, \A x \in s : s \ {x} \in T PROVE s \in T
  <2>1. PICK x \in s : TRUE
    BY <1>5
  <2>2. /\ a[s] = f[x] + a[s \ {x}] /\ b[s] = g[x] + b[s \ {x}] /\ c[s] = h[x] + c[s \ {x}]
        /\ c[s \ {x}] = a[s \ {x}] + b[s \ {x}]
    BY <1>1, <1>2, <1>3, <1>5 DEF PartSums
  <2>3. /\ f[x] \in Int /\ g[x] \in Int /\ h[x] = f[x] + g[x]
        /\ a[s \ {x}] \in Int /\ b[s \ {x}] \in Int
    OBVIOUS
  <2>4. c[s] = a[s] + b[s]
    BY <2>2, <2>3
  <2> QED BY <2>4
<1>6. SUBSET S \subseteq T
  <2> HIDE DEF T
  <2> QED BY <1>4, <1>5, SubsetsCovered
<1>7. c[S] = a[S] + b[S]
  BY <1>6
<1>8. f = [x \in S |-> f[x]] /\ g = [x \in S |-> g[x]] /\ h = [x \in S |-> h[x]]
  OBVIOUS
<1>9. /\ SumFunction([x \in S |-> f[x]]) = a[S]
      /\ SumFunction([x \in S |-> g[x]]) = b[S]
      /\ SumFunction([x \in S |-> h[x]]) = c[S]
  BY <1>1, <1>2, <1>3 DEF PartSums
<1> QED BY <1>7, <1>8, <1>9

LEMMA SumOpposite ==
  ASSUME NEW S, IsFiniteSet(S), NEW f \in [S -> Int], NEW g \in [S -> Int],
         \A x \in S : g[x] = -f[x]
  PROVE  SumFunction(g) = -SumFunction(f)
<1> DEFINE zero == [x \in S |-> 0]
<1>1. zero \in [S -> Int] /\ \A x \in S : zero[x] = 0 /\ zero[x] = f[x] + g[x]
  OBVIOUS
<1> HIDE DEF zero
<1>2. SumFunction(zero) = 0
  BY <1>1, SumZero
<1>3. SumFunction(f) \in Int /\ SumFunction(g) \in Int
  BY SumInt
<1>4. SumFunction(zero) = SumFunction(f) + SumFunction(g)
  <2>1. zero \in [S -> Int]
    BY <1>1
  <2>2. \A x \in S : zero[x] = f[x] + g[x]
    BY <1>1
  <2> QED BY <2>1, <2>2, SumAdd, SMTT(30)
<1> QED BY <1>2, <1>3, <1>4

\* A sum over two disjoint sets.
LEMMA SumSplit ==
  ASSUME NEW A, NEW B, NEW S, A \cap B = {}, S = A \cup B, NEW f, NEW g, NEW h,
         Summable(f, S), Summable(g, A), Summable(h, B), Alike(f, g, A), Alike(f, h, B)
  PROVE  SumFunction(f) = SumFunction(g) + SumFunction(h)
<1>0. /\ f \in [S -> Int] /\ g \in [A -> Int] /\ h \in [B -> Int] /\ IsFiniteSet(A) /\ IsFiniteSet(B)
      /\ (\A x \in A : f[x] = g[x]) /\ (\A x \in B : f[x] = h[x]) /\ IsFiniteSet(S)
  BY DEF Summable, Alike
<1>2. PICK c \in [SUBSET S -> Int] : PartSums(c, f, S)
  BY <1>0, SumsOfParts
<1> DEFINE T == {s \in SUBSET B : c[A \cup s] = c[A] + c[s]}
<1>3. {} \in T
  <2>1. A \cup {} = A /\ c[{}] = 0 /\ c[A] \in Int
    BY <1>2 DEF PartSums
  <2> QED BY <2>1
<1>4. ASSUME NEW s \in SUBSET B, s # {}, \A x \in s : s \ {x} \in T PROVE s \in T
  <2>1. PICK x \in s : TRUE
    BY <1>4
  <2>2. (A \cup s) \ {x} = A \cup (s \ {x}) /\ A \cup s \in SUBSET S /\ s \in SUBSET S
    OBVIOUS
  <2>3. c[A \cup s] = f[x] + c[(A \cup s) \ {x}] /\ c[s] = f[x] + c[s \ {x}]
    BY <1>2, <2>2 DEF PartSums
  <2>4. c[A \cup (s \ {x})] = c[A] + c[s \ {x}]
    BY <1>4
  <2>5. f[x] \in Int /\ c[A] \in Int /\ c[s \ {x}] \in Int
    BY <1>0
  <2>6. c[A \cup s] = f[x] + (c[A] + c[s \ {x}])
    BY <2>2, <2>3, <2>4
  <2>7. c[A \cup s] = c[A] + c[s]
    BY <2>3, <2>5, <2>6
  <2> QED BY <2>7
<1>5. SUBSET B \subseteq T
  <2> HIDE DEF T
  <2> QED BY <1>0, <1>3, <1>4, SubsetsCovered
<1>6. c[S] = c[A] + c[B]
  BY <1>5
<1>7. f = [x \in S |-> f[x]] /\ g = [x \in A |-> f[x]] /\ h = [x \in B |-> f[x]]
  BY <1>0
<1>8. /\ SumFunction([x \in S |-> f[x]]) = c[S]
      /\ SumFunction([x \in A |-> f[x]]) = c[A]
      /\ SumFunction([x \in B |-> f[x]]) = c[B]
  BY <1>2 DEF PartSums
<1> QED BY <1>6, <1>7, <1>8

\* Only the elements that count.
LEMMA SumWithin ==
  ASSUME NEW S, NEW A \in SUBSET S, NEW f, NEW g, Summable(f, S), Alike(f, g, A),
         g \in [A -> Int], \A x \in S \ A : f[x] = 0
  PROVE  SumFunction(f) = SumFunction(g)
<1>1. PICK B : B = S \ A
  OBVIOUS
<1>2. PICK h : h = [x \in B |-> f[x]]
  OBVIOUS
<1>3. IsFiniteSet(A) /\ IsFiniteSet(B)
  BY <1>1, FS_Subset DEF Summable
<1>4. A \cap B = {} /\ S = A \cup B
  BY <1>1
<1>5. Summable(h, B) /\ Alike(f, h, B) /\ Summable(g, A) /\ h \in [B -> Int] /\ (\A x \in B : h[x] = 0)
  BY <1>1, <1>2, <1>3 DEF Summable, Alike
<1>6. SumFunction(h) = 0 /\ SumFunction(g) \in Int
  BY <1>3, <1>5, SumZero, SumInt
<1>7. SumFunction(f) = SumFunction(g) + SumFunction(h)
  BY <1>4, <1>5, SumSplit
<1> QED BY <1>6, <1>7

LEMMA SumOnly ==
  ASSUME NEW S, IsFiniteSet(S), NEW f \in [S -> Int], NEW e \in S,
         \A x \in S \ {e} : f[x] = 0
  PROVE  SumFunction(f) = f[e]
<1> DEFINE g == [x \in S \ {e} |-> f[x]]
<1>1. g \in [S \ {e} -> Int] /\ IsFiniteSet(S \ {e}) /\ \A x \in S \ {e} : g[x] = 0
  BY FS_Subset
<1>2. SumFunction(f) = f[e] + SumFunction(g)
  BY SumTake
<1> HIDE DEF g
<1>3. SumFunction(g) = 0
  BY <1>1, SumZero
<1> QED BY <1>2, <1>3

\* A sum does not depend on what the elements are called.
LEMMA SumRenamed ==
  ASSUME NEW S, NEW R, NEW p, NEW f, NEW g, Renames(p, S, R), After(g, f, p, S),
         Summable(f, R), Summable(g, S)
  PROVE  SumFunction(g) = SumFunction(f)
<1>0. /\ p \in [S -> R] /\ (\A x, y \in S : p[x] = p[y] => x = y)
      /\ (\A y \in R : \E x \in S : p[x] = y) /\ (\A x \in S : g[x] = f[p[x]])
      /\ IsFiniteSet(R) /\ IsFiniteSet(S) /\ f \in [R -> Int] /\ g \in [S -> Int]
  BY DEF Renames, After, Summable
<1>1. PICK a \in [SUBSET R -> Int] : PartSums(a, f, R)
  BY <1>0, SumsOfParts
<1>2. PICK b \in [SUBSET S -> Int] : PartSums(b, g, S)
  BY <1>0, SumsOfParts
<1> DEFINE Image(s) == {p[x] : x \in s}
           T == {s \in SUBSET S : b[s] = a[Image(s)]}
<1>3. {} \in T
  <2>1. Image({}) = {}
    OBVIOUS
  <2> QED BY <1>1, <1>2, <2>1 DEF PartSums
<1>4. ASSUME NEW s \in SUBSET S, s # {}, \A x \in s : s \ {x} \in T PROVE s \in T
  <2>1. PICK x \in s : TRUE
    BY <1>4
  <2>2. Image(s \ {x}) = Image(s) \ {p[x]} /\ p[x] \in Image(s) /\ Image(s) \in SUBSET R
    BY <1>0
  <2>3. b[s] = g[x] + b[s \ {x}] /\ b[s \ {x}] = a[Image(s \ {x})]
    BY <1>2, <1>4 DEF PartSums
  <2> HIDE DEF Image
  <2>4. a[Image(s)] = f[p[x]] + a[Image(s) \ {p[x]}]
    BY <1>1, <2>2 DEF PartSums
  <2> QED BY <1>0, <2>2, <2>3, <2>4
<1>5. SUBSET S \subseteq T
  <2> HIDE DEF T, Image
  <2>1. \A s \in SUBSET S : s # {} /\ (\A x \in s : s \ {x} \in T) => s \in T
    BY <1>4
  <2> QED BY <1>0, <1>3, <2>1, SubsetsCovered
<1>6. b[S] = a[R]
  <2>1. Image(S) = R
    BY <1>0
  <2> HIDE DEF Image
  <2> QED BY <1>5, <2>1
<1>7. f = [x \in R |-> f[x]] /\ g = [x \in S |-> g[x]]
  BY <1>0
<1>8. SumFunction([x \in R |-> f[x]]) = a[R] /\ SumFunction([x \in S |-> g[x]]) = b[S]
  BY <1>1, <1>2 DEF PartSums
<1> QED BY <1>6, <1>7, <1>8

LEMMA SumAtMost ==
  ASSUME NEW S, IsFiniteSet(S), NEW f \in [S -> Int], NEW g \in [S -> Int],
         \A x \in S : f[x] <= g[x]
  PROVE  SumFunction(f) <= SumFunction(g)
<1>1. PICK a \in [SUBSET S -> Int] : PartSums(a, f, S)
  BY SumsOfParts
<1>2. PICK b \in [SUBSET S -> Int] : PartSums(b, g, S)
  BY SumsOfParts
<1> DEFINE T == {s \in SUBSET S : a[s] <= b[s]}
<1>3. {} \in T
  BY <1>1, <1>2 DEF PartSums
<1>4. ASSUME NEW s \in SUBSET S, s # {}, \A x \in s : s \ {x} \in T PROVE s \in T
  <2>1. PICK x \in s : TRUE
    BY <1>4
  <2>2. a[s] = f[x] + a[s \ {x}] /\ b[s] = g[x] + b[s \ {x}] /\ a[s \ {x}] <= b[s \ {x}]
    BY <1>1, <1>2, <1>4 DEF PartSums
  <2>3. f[x] \in Int /\ g[x] \in Int /\ f[x] <= g[x] /\ a[s \ {x}] \in Int /\ b[s \ {x}] \in Int
    OBVIOUS
  <2>4. a[s] <= b[s]
    BY <2>2, <2>3
  <2> QED BY <2>4
<1>5. SUBSET S \subseteq T
  <2> HIDE DEF T
  <2> QED BY <1>3, <1>4, SubsetsCovered
<1>6. a[S] <= b[S]
  BY <1>5
<1>7. f = [x \in S |-> f[x]] /\ g = [x \in S |-> g[x]]
  OBVIOUS
<1>8. SumFunction([x \in S |-> f[x]]) = a[S] /\ SumFunction([x \in S |-> g[x]]) = b[S]
  BY <1>1, <1>2 DEF PartSums
<1> QED BY <1>6, <1>7, <1>8

-----------------------------------------------------------------------------
(* Sums of sequences *)

LEMMA IntervalFinite ==
  ASSUME NEW m \in Int, NEW n \in Int PROVE IsFiniteSet(m .. n)
BY FS_Interval

Integers(f, n) == f \in [1 .. n -> Int]

Joined(h, f, n, g, m) ==
  (\A i \in 1 .. n : h[i] = f[i]) /\ (\A i \in 1 .. m : h[n + i] = g[i])

LEMMA SumJoined ==
  ASSUME NEW n \in Nat, NEW m \in Nat, NEW f, NEW g, NEW h,
         Integers(f, n), Integers(g, m), Integers(h, n + m), Joined(h, f, n, g, m)
  PROVE  SumFunction(h) = SumFunction(f) + SumFunction(g)
<1>1. PICK A : A = 1 .. n
  OBVIOUS
<1>2. PICK B : B = n + 1 .. n + m
  OBVIOUS
<1>3. PICK C : C = 1 .. m
  OBVIOUS
<1>4. PICK D : D = 1 .. n + m
  OBVIOUS
<1>5. PICK p : p = [x \in C |-> n + x]
  OBVIOUS
<1>6. PICK k : k = [x \in B |-> h[x]]
  OBVIOUS
<1>7. A \cap B = {} /\ D = A \cup B
  BY <1>1, <1>2, <1>3, <1>4
<1>8. IsFiniteSet(A) /\ IsFiniteSet(B) /\ IsFiniteSet(C) /\ IsFiniteSet(D)
  BY <1>1, <1>2, <1>3, <1>4, IntervalFinite
<1>9. Summable(f, A) /\ Summable(g, C) /\ Summable(h, D) /\ Summable(k, B)
  BY <1>1, <1>2, <1>3, <1>4, <1>6, <1>8 DEF Summable, Integers
<1>10. Alike(h, f, A) /\ Alike(h, k, B)
  BY <1>1, <1>6 DEF Alike, Joined
<1>11. Renames(p, C, B)
  <2>1. p \in [C -> B] /\ \A x, y \in C : p[x] = p[y] => x = y
    BY <1>2, <1>3, <1>5
  <2>2. ASSUME NEW y \in B PROVE y - n \in C /\ p[y - n] = y
    BY <1>2, <1>3, <1>5
  <2> QED BY <2>1, <2>2 DEF Renames
<1>12. After(g, k, p, C)
  BY <1>2, <1>3, <1>5, <1>6 DEF After, Joined
<1>13. SumFunction(g) = SumFunction(k)
  BY <1>9, <1>11, <1>12, SumRenamed
<1>14. SumFunction(h) = SumFunction(f) + SumFunction(k)
  BY <1>7, <1>9, <1>10, SumSplit
<1> QED BY <1>13, <1>14

LEMMA SumLast ==
  ASSUME NEW n \in Nat, NEW f, NEW g, Integers(f, n + 1), g = [i \in 1 .. n |-> f[i]]
  PROVE  SumFunction(f) = SumFunction(g) + f[n + 1] /\ Integers(g, n)
<1>1. PICK S : S = 1 .. n + 1
  OBVIOUS
<1>2. PICK e : e = n + 1
  OBVIOUS
<1>3. IsFiniteSet(S) /\ e \in S /\ f \in [S -> Int]
  BY <1>1, <1>2, IntervalFinite DEF Integers
<1>4. g = [x \in S \ {e} |-> f[x]] /\ S \ {e} = 1 .. n
  BY <1>1, <1>2
<1>5. SumFunction(f) = f[e] + SumFunction([x \in S \ {e} |-> f[x]])
  BY <1>3, SumTake, ZenonT(60)
<1>6. Integers(g, n) /\ g \in [1 .. n -> Int] /\ IsFiniteSet(1 .. n) /\ f[e] \in Int
  BY <1>3, <1>4, IntervalFinite DEF Integers
<1>7. SumFunction(g) \in Int
  BY <1>6, SumInt
<1>8. SumFunction(f) = f[e] + SumFunction(g)
  BY <1>4, <1>5
<1> QED BY <1>2, <1>6, <1>7, <1>8

LEMMA SumOfFew ==
  /\ \A f : Integers(f, 0) => SumFunction(f) = 0
  /\ \A f : Integers(f, 1) => SumFunction(f) = f[1]
  /\ \A f : Integers(f, 2) => SumFunction(f) = f[1] + f[2]
  /\ \A f : Integers(f, 3) => SumFunction(f) = f[1] + f[2] + f[3]
<1>0. ASSUME NEW n \in Nat, NEW k, k = n + 1, NEW f, Integers(f, k)
      PROVE  \E g : /\ Integers(g, n) /\ \A i \in 1 .. n : f[i] = g[i]
                    /\ SumFunction(f) = SumFunction(g) + f[k]
  <2> DEFINE g == [i \in 1 .. n |-> f[i]]
  <2>1. SumFunction(f) = SumFunction(g) + f[k] /\ Integers(g, n)
    BY <1>0, SumLast
  <2>2. \A i \in 1 .. n : f[i] = g[i]
    OBVIOUS
  <2> HIDE DEF g
  <2> QED BY <2>1, <2>2
<1>1. ASSUME NEW f, Integers(f, 0) PROVE SumFunction(f) = 0
  <2>1. f \in [{} -> Int]
    <3>1. 1 .. 0 = {}
      OBVIOUS
    <3> QED BY <1>1, <3>1 DEF Integers
  <2> QED BY <2>1, SumNone
<1>2. ASSUME NEW f, Integers(f, 1) PROVE SumFunction(f) = f[1]
  <2>1. PICK g : Integers(g, 0) /\ SumFunction(f) = SumFunction(g) + f[1]
    BY <1>0, <1>2
  <2>2. f[1] \in Int
    BY <1>2 DEF Integers
  <2> QED BY <1>1, <2>1, <2>2
<1>3. ASSUME NEW f, Integers(f, 2) PROVE SumFunction(f) = f[1] + f[2]
  <2>1. PICK g : Integers(g, 1) /\ f[1] = g[1] /\ SumFunction(f) = SumFunction(g) + f[2]
    BY <1>0, <1>3
  <2> QED BY <1>2, <2>1
<1>4. ASSUME NEW f, Integers(f, 3) PROVE SumFunction(f) = f[1] + f[2] + f[3]
  <2>1. PICK g : Integers(g, 2) /\ f[1] = g[1] /\ f[2] = g[2] /\ SumFunction(f) = SumFunction(g) + f[3]
    BY <1>0, <1>4
  <2> QED BY <1>3, <2>1
<1> QED BY <1>1, <1>2, <1>3, <1>4

-----------------------------------------------------------------------------
(* Sequences of lines *)

IsLine(l) == l = Line(l.account, l.party, l.amount) /\ l.amount \in Int

LineSeq(s) == IsSeq(s) /\ \A k \in DOMAIN s : IsLine(s[k])

\* A line of one of some accounts and, where any are named, of one of some parties.
Concerns(l, A, P) == l.account \in A /\ (P = {} \/ l.party \in P)

WorthOf(s, A, P) == [k \in 1 .. Len(s) |-> IF Concerns(s[k], A, P) THEN s[k].amount ELSE 0]

\* What the lines of some accounts and parties come to.
NetOf(s, A, P) == SumFunction(WorthOf(s, A, P))

\* What the lines of some accounts come to, whoever they are about.
Worth(s, A) == WorthOf(s, A, {})

Net(s, A) == NetOf(s, A, {})

LEMMA WorthOfFact ==
  ASSUME NEW s, NEW A, NEW P, LineSeq(s)
  PROVE  /\ Len(s) \in Nat /\ DOMAIN s = 1 .. Len(s) /\ Integers(WorthOf(s, A, P), Len(s))
         /\ \A k \in 1 .. Len(s) : IsLine(s[k])
         /\ \A k \in 1 .. Len(s) : WorthOf(s, A, P)[k] = IF Concerns(s[k], A, P) THEN s[k].amount ELSE 0
<1>1. Len(s) \in Nat /\ DOMAIN s = 1 .. Len(s)
  BY SeqFact DEF LineSeq
<1> QED BY <1>1 DEF LineSeq, IsLine, WorthOf, Concerns, Integers

LEMMA IntegersFact ==
  ASSUME NEW n \in Nat, NEW f, Integers(f, n)
  PROVE  Summable(f, 1 .. n) /\ SumFunction(f) \in Int
<1>1. Summable(f, 1 .. n)
  BY IntervalFinite DEF Summable, Integers
<1> QED BY <1>1, SumInt DEF Summable

LEMMA NetOfInt ==
  ASSUME NEW s, NEW A, NEW P, LineSeq(s) PROVE NetOf(s, A, P) \in Int
BY WorthOfFact, IntegersFact DEF NetOf

LEMMA NetOfIs ==
  ASSUME NEW s, NEW A, NEW P, LineSeq(s)
  PROVE  LineTotal(s, {k \in On(s, A) : P = {} \/ s[k].party \in P}) = NetOf(s, A, P)
<1> DEFINE f == WorthOf(s, A, P)
           S == 1 .. Len(s)
           K == {k \in On(s, A) : P = {} \/ s[k].party \in P}
           g == [k \in K |-> s[k].amount]
<1>1. /\ Len(s) \in Nat /\ DOMAIN s = S /\ Integers(f, Len(s)) /\ \A k \in S : IsLine(s[k])
      /\ \A k \in S : f[k] = IF Concerns(s[k], A, P) THEN s[k].amount ELSE 0
  BY WorthOfFact
<1> HIDE DEF f
<1>2. Summable(f, S)
  BY <1>1, IntegersFact
<1>3. K \in SUBSET S /\ \A k \in S \ K : f[k] = 0
  BY <1>1 DEF On, Concerns
<1>4. g \in [K -> Int] /\ Alike(f, g, K)
  BY <1>1, <1>3 DEF On, Concerns, IsLine, Alike
<1> HIDE DEF S, K, g
<1>5. SumFunction(f) = SumFunction(g)
  BY <1>2, <1>3, <1>4, SumWithin
<1> QED BY <1>5 DEF LineTotal, NetOf, f, g, K

LEMMA NetOfNone ==
  ASSUME NEW A, NEW P PROVE LineSeq(<<>>) /\ NetOf(<<>>, A, P) = 0
<1>1. IsSeq(<<>>) /\ Len(<<>>) = 0 /\ DOMAIN <<>> = {}
  <2>1. IsSeq(<<>>) /\ Len(<<>>) = 0
    BY OneFact
  <2>2. DOMAIN <<>> = 1 .. 0 /\ 1 .. 0 = {}
    BY <2>1, SeqFact
  <2> QED BY <2>1, <2>2
<1>2. LineSeq(<<>>)
  BY <1>1 DEF LineSeq
<1>3. Integers(WorthOf(<<>>, A, P), 0)
  BY <1>1, <1>2, WorthOfFact
<1> QED BY <1>2, <1>3, SumOfFew DEF NetOf

LEMMA NetOfOne ==
  ASSUME NEW A, NEW P, NEW l, IsLine(l)
  PROVE  LineSeq(<<l>>) /\ NetOf(<<l>>, A, P) = IF Concerns(l, A, P) THEN l.amount ELSE 0
<1>1. IsSeq(<<l>>) /\ Len(<<l>>) = 1 /\ DOMAIN <<l>> = 1 .. 1 /\ <<l>>[1] = l
  BY OneFact, SeqFact
<1>2. LineSeq(<<l>>)
  BY <1>1 DEF LineSeq
<1>3. Integers(WorthOf(<<l>>, A, P), 1) /\ WorthOf(<<l>>, A, P)[1] = IF Concerns(l, A, P) THEN l.amount ELSE 0
  BY <1>1, <1>2, WorthOfFact
<1> QED BY <1>2, <1>3, SumOfFew DEF NetOf

LEMMA NetOfJoined ==
  ASSUME NEW s, NEW t, NEW A, NEW P, LineSeq(s), LineSeq(t)
  PROVE  LineSeq(s \o t) /\ NetOf(s \o t, A, P) = NetOf(s, A, P) + NetOf(t, A, P)
<1>1. /\ IsSeq(s \o t) /\ Len(s \o t) = Len(s) + Len(t) /\ DOMAIN (s \o t) = 1 .. Len(s) + Len(t)
      /\ \A i \in 1 .. Len(s) : (s \o t)[i] = s[i]
      /\ \A i \in 1 .. Len(t) : (s \o t)[Len(s) + i] = t[i]
  BY ConcatFact DEF LineSeq
<1>2. /\ Len(s) \in Nat /\ Len(t) \in Nat /\ Integers(WorthOf(s, A, P), Len(s)) /\ Integers(WorthOf(t, A, P), Len(t))
      /\ (\A k \in 1 .. Len(s) : IsLine(s[k])) /\ (\A k \in 1 .. Len(t) : IsLine(t[k]))
  BY WorthOfFact
<1>3. LineSeq(s \o t)
  <2>1. ASSUME NEW k \in 1 .. Len(s) + Len(t) PROVE IsLine((s \o t)[k])
    <3>1. CASE k <= Len(s)
      BY <1>1, <1>2, <3>1
    <3>2. CASE ~ k <= Len(s)
      <4>1. k - Len(s) \in 1 .. Len(t) /\ Len(s) + (k - Len(s)) = k
        BY <1>2, <3>2
      <4> QED BY <1>1, <1>2, <4>1
    <3> QED BY <3>1, <3>2
  <2> QED BY <1>1, <2>1 DEF LineSeq
<1>4. Integers(WorthOf(s \o t, A, P), Len(s) + Len(t))
  <2>1. Integers(WorthOf(s \o t, A, P), Len(s \o t))
    BY <1>3, WorthOfFact
  <2> QED BY <1>1, <2>1
<1>5. Joined(WorthOf(s \o t, A, P), WorthOf(s, A, P), Len(s), WorthOf(t, A, P), Len(t))
  <2>1. \A i \in 1 .. Len(s) : i \in 1 .. Len(s \o t) /\ WorthOf(s \o t, A, P)[i] = WorthOf(s, A, P)[i]
    BY <1>1, <1>2 DEF WorthOf, Concerns
  <2>2. \A i \in 1 .. Len(t) : WorthOf(s \o t, A, P)[Len(s) + i] = WorthOf(t, A, P)[i]
    <3>1. \A i \in 1 .. Len(t) : Len(s) + i \in 1 .. Len(s \o t)
      BY <1>1, <1>2
    <3> QED BY <1>1, <3>1 DEF WorthOf, Concerns
  <2> QED BY <2>1, <2>2 DEF Joined
<1> QED BY <1>2, <1>3, <1>4, <1>5, SumJoined DEF NetOf

LEMMA NetOfAppend ==
  ASSUME NEW s, NEW l, NEW A, NEW P, LineSeq(s), IsLine(l)
  PROVE  /\ LineSeq(Append(s, l))
         /\ NetOf(Append(s, l), A, P) = NetOf(s, A, P) + IF Concerns(l, A, P) THEN l.amount ELSE 0
<1>1. Append(s, l) = s \o <<l>>
  BY DEF LineSeq, IsSeq
<1> QED BY <1>1, NetOfOne, NetOfJoined

LEMMA NetOfOpposite ==
  ASSUME NEW s, NEW A, NEW P, LineSeq(s)
  PROVE  LineSeq(Opposite(s)) /\ NetOf(Opposite(s), A, P) = -NetOf(s, A, P)
<1> DEFINE o == Opposite(s)
<1>1. Len(s) \in Nat /\ DOMAIN s = 1 .. Len(s) /\ \A k \in 1 .. Len(s) : IsLine(s[k])
  BY WorthOfFact
<1>2. \A k \in 1 .. Len(s) : /\ o[k] = Line(s[k].account, s[k].party, -s[k].amount)
                             /\ o[k].account = s[k].account /\ o[k].party = s[k].party
                             /\ o[k].amount = -s[k].amount /\ IsLine(o[k])
  BY <1>1 DEF Opposite, IsLine, Line
<1>3. o = [k \in 1 .. Len(s) |-> o[k]]
  BY <1>1 DEF Opposite
<1> HIDE DEF o
<1>4. IsSeq(o) /\ Len(o) = Len(s) /\ DOMAIN o = 1 .. Len(s)
  <2>1. o \in [1 .. Len(s) -> Range(o)]
    BY <1>3 DEF Range
  <2>2. o \in Seq(Range(o))
    BY <1>1, <2>1, SeqDef
  <2> QED BY <1>1, <1>3, <2>2, LenProperties DEF IsSeq
<1>5. LineSeq(o)
  BY <1>2, <1>4 DEF LineSeq
<1>6. /\ Integers(WorthOf(o, A, P), Len(s)) /\ Integers(WorthOf(s, A, P), Len(s))
      /\ \A k \in 1 .. Len(s) : WorthOf(o, A, P)[k] = -WorthOf(s, A, P)[k]
  <2>1. Integers(WorthOf(o, A, P), Len(s)) /\ Integers(WorthOf(s, A, P), Len(s))
    BY <1>4, <1>5, WorthOfFact
  <2>2. \A k \in 1 .. Len(s) : s[k].amount \in Int
    BY <1>1 DEF IsLine
  <2>3. \A k \in 1 .. Len(s) : WorthOf(o, A, P)[k] = -WorthOf(s, A, P)[k]
    BY <1>2, <1>4, <2>2 DEF WorthOf, Concerns
  <2> QED BY <2>1, <2>3
<1>7. SumFunction(WorthOf(o, A, P)) = -SumFunction(WorthOf(s, A, P))
  <2> DEFINE f == WorthOf(s, A, P)
             g == WorthOf(o, A, P)
             S == 1 .. Len(s)
  <2>1. IsFiniteSet(S) /\ f \in [S -> Int] /\ g \in [S -> Int] /\ \A x \in S : g[x] = -f[x]
    BY <1>1, <1>6, IntervalFinite DEF Integers
  <2> HIDE DEF f, g, S
  <2>2. SumFunction(g) = -SumFunction(f)
    BY <2>1, SumOpposite
  <2> QED BY <2>2 DEF f, g
<1> QED BY <1>5, <1>7 DEF NetOf, o

\* Accounts are counted apart.
LEMMA NetOfApart ==
  ASSUME NEW s, LineSeq(s), NEW A, NEW P, NEW a, a \notin A
  PROVE  NetOf(s, A \cup {a}, P) = NetOf(s, A, P) + NetOf(s, {a}, P)
<1> DEFINE S == 1 .. Len(s)
           f == WorthOf(s, A, P)
           g == WorthOf(s, {a}, P)
           h == WorthOf(s, A \cup {a}, P)
<1>1. /\ Len(s) \in Nat /\ Integers(f, Len(s)) /\ Integers(g, Len(s)) /\ Integers(h, Len(s))
      /\ \A k \in S : IsLine(s[k])
  BY WorthOfFact
<1>2. IsFiniteSet(S) /\ f \in [S -> Int] /\ g \in [S -> Int] /\ h \in [S -> Int]
  <2>1. IsFiniteSet(S)
    BY <1>1, IntervalFinite
  <2> QED BY <1>1, <2>1 DEF Integers
<1>3. \A k \in S : s[k].amount \in Int
  BY <1>1 DEF IsLine
<1>4. \A k \in S : h[k] = f[k] + g[k]
  BY <1>3 DEF WorthOf, Concerns
<1> HIDE DEF S, f, g, h
<1>5. SumFunction(h) = SumFunction(f) + SumFunction(g)
  BY <1>2, <1>4, SumAdd
<1> QED BY <1>5 DEF NetOf, f, g, h

-----------------------------------------------------------------------------
(* The lines of no amount are left out *)

Keeps(h, s) ==
  h = [n \in 0 .. Len(s) |-> CASE n = 0 -> <<>>
                               [] n > 0 /\ s[n].amount # 0 -> Append(h[n - 1], s[n])
                               [] OTHER -> h[n - 1]]

First(s, n) == [k \in 1 .. n |-> s[k]]

KeptOf(s, n, t) ==
  /\ LineSeq(t)
  /\ \A k \in DOMAIN t : t[k].amount # 0 /\ \E i \in 1 .. n : t[k] = s[i]
  /\ \A A, P : NetOf(t, A, P) = NetOf(First(s, n), A, P)

LEMMA FirstFact ==
  ASSUME NEW s, LineSeq(s), NEW n \in Nat, n + 1 <= Len(s)
  PROVE  /\ LineSeq(First(s, n)) /\ IsLine(s[n + 1])
         /\ First(s, n + 1) = Append(First(s, n), s[n + 1])
<1>1. Len(s) \in Nat /\ DOMAIN s = 1 .. Len(s) /\ \A k \in 1 .. Len(s) : IsLine(s[k])
  BY WorthOfFact
<1>2. \A m \in 0 .. Len(s) : IsSeq(First(s, m)) /\ Len(First(s, m)) = m /\ DOMAIN First(s, m) = 1 .. m
  <2> SUFFICES ASSUME NEW m \in 0 .. Len(s)
               PROVE  IsSeq(First(s, m)) /\ Len(First(s, m)) = m /\ DOMAIN First(s, m) = 1 .. m
    OBVIOUS
  <2>1. First(s, m) \in [1 .. m -> Range(First(s, m))]
    BY DEF First, Range
  <2>2. First(s, m) \in Seq(Range(First(s, m)))
    BY <1>1, <2>1, SeqDef
  <2>3. DOMAIN First(s, m) = 1 .. m
    BY DEF First
  <2>4. Len(First(s, m)) = m
    BY <1>1, <2>2, <2>3, LenProperties
  <2> QED BY <2>2, <2>3, <2>4 DEF IsSeq
<1>3. LineSeq(First(s, n)) /\ IsLine(s[n + 1])
  <2>1. \A k \in 1 .. n : First(s, n)[k] = s[k] /\ k \in 1 .. Len(s)
    BY <1>1 DEF First
  <2>2. n \in 0 .. Len(s) /\ n + 1 \in 1 .. Len(s)
    BY <1>1
  <2> QED BY <1>1, <1>2, <2>1, <2>2 DEF LineSeq
<1>4. First(s, n + 1) = Append(First(s, n), s[n + 1])
  <2> DEFINE t == First(s, n)
             u == First(s, n + 1)
             v == Append(t, s[n + 1])
  <2>1. IsSeq(t) /\ Len(t) = n /\ IsSeq(u) /\ Len(u) = n + 1 /\ DOMAIN u = 1 .. n + 1
    BY <1>1, <1>2
  <2>2. /\ IsSeq(v) /\ Len(v) = n + 1 /\ DOMAIN v = 1 .. n + 1
        /\ (\A i \in 1 .. n : v[i] = t[i]) /\ v[n + 1] = s[n + 1]
    <3> HIDE DEF t
    <3> QED BY <2>1, AppendFact
  <2>3. \A i \in 1 .. n + 1 : u[i] = v[i]
    <3>1. \A i \in 1 .. n : u[i] = t[i]
      BY DEF First
    <3>2. u[n + 1] = s[n + 1]
      BY DEF First
    <3> HIDE DEF u, v, t
    <3> QED BY <2>2, <3>1, <3>2
  <2>4. u = [i \in 1 .. n + 1 |-> u[i]]
    BY DEF First
  <2>5. v = [i \in 1 .. n + 1 |-> v[i]]
    <3> HIDE DEF v
    <3>1. v \in Seq(Range(v))
      BY <2>2 DEF IsSeq
    <3> QED BY <2>2, <3>1, LenProperties
  <2> HIDE DEF u, v
  <2>6. u = v
    BY <2>3, <2>4, <2>5
  <2> QED BY <2>6 DEF u, v
<1> QED BY <1>3, <1>4

LEMMA KeptStep ==
  ASSUME NEW s, LineSeq(s), NEW n \in Nat, n + 1 <= Len(s), NEW t, KeptOf(s, n, t),
         NEW u, u = IF s[n + 1].amount # 0 THEN Append(t, s[n + 1]) ELSE t
  PROVE  KeptOf(s, n + 1, u)
<1> DEFINE l == s[n + 1]
<1>1. LineSeq(First(s, n)) /\ IsLine(l) /\ First(s, n + 1) = Append(First(s, n), l)
  BY FirstFact
<1>2. \A A, P : NetOf(First(s, n + 1), A, P) = NetOf(First(s, n), A, P) + IF Concerns(l, A, P) THEN l.amount ELSE 0
  <2> DEFINE f == First(s, n)
  <2>1. LineSeq(f) /\ IsLine(l) /\ First(s, n + 1) = Append(f, l)
    BY <1>1
  <2> HIDE DEF f, l
  <2>2. \A A, P : NetOf(Append(f, l), A, P) = NetOf(f, A, P) + IF Concerns(l, A, P) THEN l.amount ELSE 0
    BY <2>1, NetOfAppend
  <2> QED BY <2>1, <2>2 DEF f
<1>3. LineSeq(t) /\ \A A, P : NetOf(t, A, P) = NetOf(First(s, n), A, P) /\ NetOf(t, A, P) \in Int
  BY NetOfInt DEF KeptOf
<1>4. CASE l.amount # 0
  <2>1. u = Append(t, l) /\ LineSeq(u)
    BY <1>1, <1>3, <1>4, NetOfAppend
  <2>2. \A A, P : NetOf(u, A, P) = NetOf(t, A, P) + IF Concerns(l, A, P) THEN l.amount ELSE 0
    BY <1>1, <1>3, <2>1, NetOfAppend
  <2>3. \A k \in DOMAIN u : u[k].amount # 0 /\ \E i \in 1 .. n + 1 : u[k] = s[i]
    <3>1. /\ Len(t) \in Nat /\ DOMAIN t = 1 .. Len(t) /\ DOMAIN u = 1 .. Len(t) + 1
          /\ (\A i \in 1 .. Len(t) : u[i] = t[i]) /\ u[Len(t) + 1] = l
      BY <1>3, <2>1, AppendFact, SeqFact DEF LineSeq
    <3>2. ASSUME NEW k \in DOMAIN u PROVE u[k].amount # 0 /\ \E i \in 1 .. n + 1 : u[k] = s[i]
      <4>1. CASE k \in DOMAIN t
        <5>1. u[k] = t[k] /\ t[k].amount # 0 /\ \E i \in 1 .. n : t[k] = s[i]
          BY <3>1, <4>1 DEF KeptOf
        <5> QED BY <5>1
      <4>2. CASE k = Len(t) + 1
        BY <1>4, <3>1, <4>2
      <4> QED BY <3>1, <4>1, <4>2
    <3> QED BY <3>2
  <2> HIDE DEF l
  <2> QED BY <1>2, <1>3, <2>1, <2>2, <2>3 DEF KeptOf
<1>5. CASE l.amount = 0
  <2>1. u = t
    BY <1>5
  <2>2. \A A, P : NetOf(First(s, n + 1), A, P) = NetOf(t, A, P)
    BY <1>2, <1>3, <1>5
  <2>3. \A k \in DOMAIN t : t[k].amount # 0 /\ \E i \in 1 .. n + 1 : t[k] = s[i]
    BY DEF KeptOf
  <2> QED BY <1>3, <2>1, <2>2, <2>3 DEF KeptOf
<1> QED BY <1>4, <1>5
LEMMA KeptExists ==
  ASSUME NEW s, LineSeq(s) PROVE \E h : Keeps(h, s)
<1> DEFINE V == Seq(Range(s))
           Upto(n) == \E h \in [0 .. n -> V] : \A m \in 0 .. n :
             h[m] = CASE m = 0 -> <<>>
                      [] m > 0 /\ s[m].amount # 0 -> Append(h[m - 1], s[m])
                      [] OTHER -> h[m - 1]
           Good == {n \in Nat : n <= Len(s) => Upto(n)}
<1>0. Len(s) \in Nat /\ DOMAIN s = 1 .. Len(s) /\ \A k \in 1 .. Len(s) : s[k] \in Range(s)
  BY SeqFact DEF LineSeq, Range
<1>1. 0 \in Good
  <2> DEFINE h == [m \in 0 .. 0 |-> <<>>]
  <2>1. h \in [0 .. 0 -> V] /\ \A m \in 0 .. 0 : m = 0 /\ h[m] = <<>>
    OBVIOUS
  <2>2. Upto(0)
    <3> HIDE DEF h, V
    <3> QED BY <2>1
  <2> QED BY <2>2
<1>2. ASSUME NEW n \in Nat, n \in Good PROVE n + 1 \in Good
  <2> SUFFICES ASSUME n + 1 <= Len(s) PROVE Upto(n + 1)
    OBVIOUS
  <2>1. PICK g \in [0 .. n -> V] : \A m \in 0 .. n :
             g[m] = CASE m = 0 -> <<>>
                      [] m > 0 /\ s[m].amount # 0 -> Append(g[m - 1], s[m])
                      [] OTHER -> g[m - 1]
    BY <1>0, <1>2
  <2>2. PICK e : e = IF s[n + 1].amount # 0 THEN Append(g[n], s[n + 1]) ELSE g[n]
    OBVIOUS
  <2>3. e \in V
    <3>1. g[n] \in V /\ s[n + 1] \in Range(s)
      BY <1>0
    <3>2. Append(g[n], s[n + 1]) \in V
      BY <3>1
    <3> HIDE DEF V
    <3> QED BY <2>2, <3>1, <3>2
  <2> DEFINE h == [m \in 0 .. n + 1 |-> IF m = n + 1 THEN e ELSE g[m]]
  <2>4. h \in [0 .. n + 1 -> V]
    <3> HIDE DEF V
    <3> QED BY <2>3
  <2>5. h[n + 1] = e /\ \A m \in 0 .. n : h[m] = g[m]
    OBVIOUS
  <2> HIDE DEF h, V
  <2>6. ASSUME NEW m \in 0 .. n + 1
        PROVE  h[m] = CASE m = 0 -> <<>>
                        [] m > 0 /\ s[m].amount # 0 -> Append(h[m - 1], s[m])
                        [] OTHER -> h[m - 1]
    <3>1. CASE m = 0
      BY <2>1, <2>5, <3>1
    <3>2. CASE m \in 1 .. n
      <4>1. m - 1 \in 0 .. n /\ m \in 0 .. n /\ m # 0 /\ m > 0
        BY <3>2
      <4>2. h[m] = g[m] /\ h[m - 1] = g[m - 1]
        BY <2>5, <4>1
      <4> QED BY <2>1, <4>1, <4>2
    <3>3. CASE m = n + 1
      <4>1. h[n] = g[n] /\ m - 1 = n /\ m # 0 /\ m > 0
        BY <2>5, <3>3
      <4> QED BY <2>2, <2>5, <3>3, <4>1
    <3> QED BY <3>1, <3>2, <3>3
  <2> QED BY <2>4, <2>6
<1>3. Upto(Len(s))
  <2>1. Nat \subseteq Good
    <3> HIDE DEF Good
    <3> QED BY <1>1, <1>2, NaturalsCovered
  <2> HIDE DEF Upto
  <2> QED BY <1>0, <2>1
<1>4. PICK h \in [0 .. Len(s) -> V] : \A m \in 0 .. Len(s) :
             h[m] = CASE m = 0 -> <<>>
                      [] m > 0 /\ s[m].amount # 0 -> Append(h[m - 1], s[m])
                      [] OTHER -> h[m - 1]
  BY <1>3
<1> HIDE DEF V
<1>5. Keeps(h, s)
  BY <1>4 DEF Keeps
<1> QED BY <1>5

\* The lines of an amount are those of the sequence, and come to the same.
LEMMA LinesFact ==
  ASSUME NEW s, LineSeq(s) PROVE KeptOf(s, Len(s), Lines(s)) /\ First(s, Len(s)) = s
<1> DEFINE h == CHOOSE h : Keeps(h, s)
<1>1. Keeps(h, s)
  BY KeptExists
<1>2. Lines(s) = h[Len(s)]
  BY DEF Lines, Keeps
<1> HIDE DEF h
<1> DEFINE Good == {n \in Nat : n <= Len(s) => KeptOf(s, n, h[n])}
<1>0. Len(s) \in Nat /\ DOMAIN s = 1 .. Len(s)
  BY SeqFact DEF LineSeq
<1>3. 0 \in Good
  <2>1. h[0] = <<>>
    BY <1>0, <1>1 DEF Keeps
  <2>2. First(s, 0) = <<>>
    BY DEF First
  <2>3. DOMAIN <<>> = {}
    OBVIOUS
  <2>4. KeptOf(s, 0, h[0])
    BY <2>1, <2>2, <2>3, NetOfNone DEF KeptOf
  <2> QED BY <2>4
<1>4. ASSUME NEW n \in Nat, n \in Good PROVE n + 1 \in Good
  <2> SUFFICES ASSUME n + 1 <= Len(s) PROVE KeptOf(s, n + 1, h[n + 1])
    OBVIOUS
  <2>1. KeptOf(s, n, h[n])
    BY <1>0, <1>4
  <2>2. n + 1 \in 0 .. Len(s) /\ n + 1 # 0 /\ n + 1 > 0 /\ n + 1 - 1 = n
    BY <1>0
  <2>3. h[n + 1] = IF s[n + 1].amount # 0 THEN Append(h[n], s[n + 1]) ELSE h[n]
    <3>1. \A m \in 0 .. Len(s) : m # 0 /\ m > 0 =>
            h[m] = IF s[m].amount # 0 THEN Append(h[m - 1], s[m]) ELSE h[m - 1]
      BY <1>1 DEF Keeps
    <3> QED BY <2>2, <3>1
  <2> QED BY <2>1, <2>3, KeptStep
<1>5. KeptOf(s, Len(s), h[Len(s)])
  <2>1. Nat \subseteq Good
    <3> HIDE DEF Good
    <3> QED BY <1>3, <1>4, NaturalsCovered
  <2> QED BY <1>0, <2>1
<1>6. First(s, Len(s)) = s
  <2>1. s \in Seq(Range(s))
    BY DEF LineSeq, IsSeq
  <2> QED BY <2>1, <1>0, LenProperties DEF First
<1> QED BY <1>2, <1>5, <1>6

LEMMA NetOfLines ==
  ASSUME NEW s, LineSeq(s)
  PROVE  /\ LineSeq(Lines(s)) /\ \A A, P : NetOf(Lines(s), A, P) = NetOf(s, A, P)
         /\ \A k \in DOMAIN Lines(s) :
              Lines(s)[k].amount # 0 /\ \E i \in DOMAIN s : Lines(s)[k] = s[i]
<1>1. DOMAIN s = 1 .. Len(s)
  BY SeqFact DEF LineSeq
<1> QED BY <1>1, LinesFact DEF KeptOf

-----------------------------------------------------------------------------
(* The same of the lines of some accounts, whoever they are about *)

LEMMA WorthFact ==
  ASSUME NEW s, NEW A, LineSeq(s)
  PROVE  /\ Len(s) \in Nat /\ DOMAIN s = 1 .. Len(s) /\ Integers(Worth(s, A), Len(s))
         /\ \A k \in 1 .. Len(s) : IsLine(s[k])
         /\ \A k \in 1 .. Len(s) : Worth(s, A)[k] = IF s[k].account \in A THEN s[k].amount ELSE 0
<1>1. \A l : Concerns(l, A, {}) <=> l.account \in A
  BY DEF Concerns
<1>2. /\ Len(s) \in Nat /\ DOMAIN s = 1 .. Len(s) /\ Integers(WorthOf(s, A, {}), Len(s))
      /\ \A k \in 1 .. Len(s) : IsLine(s[k])
      /\ \A k \in 1 .. Len(s) : WorthOf(s, A, {})[k] = IF Concerns(s[k], A, {}) THEN s[k].amount ELSE 0
  BY WorthOfFact
<1> QED BY <1>1, <1>2 DEF Worth

LEMMA NetInt ==
  ASSUME NEW s, NEW A, LineSeq(s) PROVE Net(s, A) \in Int
BY NetOfInt DEF Net

LEMMA NetIs ==
  ASSUME NEW s, NEW A, LineSeq(s) PROVE LineTotal(s, On(s, A)) = Net(s, A)
<1>1. On(s, A) = {k \in On(s, A) : {} = {} \/ s[k].party \in {}}
  OBVIOUS
<1>2. LineTotal(s, {k \in On(s, A) : {} = {} \/ s[k].party \in {}}) = NetOf(s, A, {})
  BY NetOfIs
<1> QED BY <1>1, <1>2 DEF Net

LEMMA NetNone ==
  ASSUME NEW A PROVE LineSeq(<<>>) /\ Net(<<>>, A) = 0
BY NetOfNone DEF Net

LEMMA NetOne ==
  ASSUME NEW A, NEW l, IsLine(l)
  PROVE  LineSeq(<<l>>) /\ Net(<<l>>, A) = IF l.account \in A THEN l.amount ELSE 0
<1>1. Concerns(l, A, {}) <=> l.account \in A
  BY DEF Concerns
<1> QED BY <1>1, NetOfOne DEF Net

LEMMA NetJoined ==
  ASSUME NEW s, NEW t, NEW A, LineSeq(s), LineSeq(t)
  PROVE  LineSeq(s \o t) /\ Net(s \o t, A) = Net(s, A) + Net(t, A)
BY NetOfJoined DEF Net

LEMMA NetOpposite ==
  ASSUME NEW s, NEW A, LineSeq(s)
  PROVE  LineSeq(Opposite(s)) /\ Net(Opposite(s), A) = -Net(s, A)
BY NetOfOpposite DEF Net

LEMMA NetBalanced ==
  ASSUME NEW s, LineSeq(s), \A k \in DOMAIN s : s[k].account \in Accounts
  PROVE  Balanced(s) <=> Net(s, Accounts) = 0
<1>1. On(s, Accounts) = DOMAIN s
  BY DEF On
<1> QED BY <1>1, NetIs DEF Balanced

LEMMA NetApart ==
  ASSUME NEW s, LineSeq(s), NEW A, NEW a, a \notin A
  PROVE  Net(s, A \cup {a}) = Net(s, A) + Net(s, {a})
BY NetOfApart DEF Net

LEMMA NetLines ==
  ASSUME NEW s, LineSeq(s)
  PROVE  /\ LineSeq(Lines(s)) /\ \A A : Net(Lines(s), A) = Net(s, A)
         /\ \A k \in DOMAIN Lines(s) :
              Lines(s)[k].amount # 0 /\ \E i \in DOMAIN s : Lines(s)[k] = s[i]
BY NetOfLines DEF Net
=============================================================================
