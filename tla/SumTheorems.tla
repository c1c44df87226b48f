---------------------------- MODULE SumTheorems ----------------------------
(***************************************************************************)
(* What SumOver computes on a finite set of rows.  The community module    *)
(* folds the set in an order of its own choosing; the lemmas say that the  *)
(* order does not matter, so that a proof may take out the one row that a  *)
(* step has changed (SumRemove, SumChange).                                *)
(*                                                                         *)
(* Induction is by a smallest counterexample: a nonempty set of subsets of *)
(* a finite set has a member none of whose proper subsets belongs to it.   *)
(***************************************************************************)
EXTENDS Sums, FiniteSetTheorems, TLAPS

Pick(s) == CHOOSE x \in s : TRUE

\* g gives every subset of T its sum, an element at a time.
Adds(f, T, g) ==
    g = [s \in SUBSET T |->
            IF s = {} THEN 0 ELSE f[Pick(s)] + g[s \ {Pick(s)}]]

Table(f, T) == CHOOSE g : Adds(f, T, g)

LEMMA Smallest ==
    ASSUME NEW S, IsFiniteSet(S), NEW Bad \in SUBSET (SUBSET S), Bad # {}
    PROVE  \E T \in Bad : \A U \in SUBSET T : U # T => U \notin Bad
<1>1. IsWellFoundedOn(StrictSubsetOrdering(S), SUBSET S)
  BY FS_StrictSubsetOrderingWellFounded, FS_FiniteSubsetsOfFinite
<1>2. PICK T \in Bad : \A U \in Bad : ~ (<<U, T>> \in StrictSubsetOrdering(S))
  BY <1>1, WFMin
<1>3. ASSUME NEW U \in SUBSET T, U # T, U \in Bad PROVE FALSE
  <2>1. <<U, T>> \in (SUBSET S) \X (SUBSET S)
    BY <1>3
  <2> QED
    BY <1>2, <1>3, <2>1 DEF StrictSubsetOrdering
<1> QED
  BY <1>3

LEMMA SumIsTable ==
    ASSUME NEW f, NEW S
    PROVE  SumOver(f, S) = Table(f, S)[S]
BY DEF SumOver, MapThenSumSet, MapThenFoldSet, Table, Adds, Pick

LEMMA PickIn == ASSUME NEW s, s # {} PROVE Pick(s) \in s
BY DEF Pick

LEMMA AddsStep ==
    ASSUME NEW f, NEW T, NEW g, Adds(f, T, g), NEW U \in SUBSET T
    PROVE  g[U] = IF U = {} THEN 0 ELSE f[Pick(U)] + g[U \ {Pick(U)}]
BY DEF Adds

LEMMA TablesAgree ==
    ASSUME NEW f, NEW T, IsFiniteSet(T), NEW g, NEW h, NEW V,
           Adds(f, T, g), Adds(f, V, h)
    PROVE  \A U \in SUBSET T : U \subseteq V => g[U] = h[U]
<1> DEFINE Bad == {U \in SUBSET T : U \subseteq V /\ g[U] # h[U]}
<1> SUFFICES ASSUME NEW U0 \in SUBSET T, U0 \subseteq V, g[U0] # h[U0] PROVE FALSE
  OBVIOUS
<1>0. Bad \in SUBSET (SUBSET T) /\ U0 \in Bad
  OBVIOUS
<1>1. PICK U \in Bad : \A W \in SUBSET U : W # U => W \notin Bad
  <2> HIDE DEF Bad
  <2> QED
    BY <1>0, Smallest
<1>2. /\ g[U] = IF U = {} THEN 0 ELSE f[Pick(U)] + g[U \ {Pick(U)}]
      /\ h[U] = IF U = {} THEN 0 ELSE f[Pick(U)] + h[U \ {Pick(U)}]
  <2>1. U \in SUBSET T /\ U \in SUBSET V
    OBVIOUS
  <2> HIDE DEF Bad
  <2>2. g[U] = IF U = {} THEN 0 ELSE f[Pick(U)] + g[U \ {Pick(U)}]
    BY <2>1 DEF Adds
  <2>3. h[U] = IF U = {} THEN 0 ELSE f[Pick(U)] + h[U \ {Pick(U)}]
    BY <2>1 DEF Adds
  <2> QED
    BY <2>2, <2>3
<1>3. CASE U = {}
  BY <1>2, <1>3
<1>4. CASE U # {}
  <2>1. U \ {Pick(U)} \in SUBSET U /\ U \ {Pick(U)} # U
    BY <1>4, PickIn
  <2>2. g[U \ {Pick(U)}] = h[U \ {Pick(U)}]
    BY <1>1, <2>1
  <2> QED
    BY <1>2, <1>4, <2>2
<1> QED
  BY <1>3, <1>4

LEMMA TableExists ==
    ASSUME NEW f, NEW S, IsFiniteSet(S)
    PROVE  \A T \in SUBSET S : Adds(f, T, Table(f, T))
<1> DEFINE Bad == {T \in SUBSET S : ~ Adds(f, T, Table(f, T))}
<1> SUFFICES ASSUME NEW T0 \in SUBSET S, ~ Adds(f, T0, Table(f, T0)) PROVE FALSE
  OBVIOUS
<1>0. Bad \in SUBSET (SUBSET S) /\ T0 \in Bad
  OBVIOUS
<1>1. PICK T \in Bad : \A U \in SUBSET T : U # T => U \notin Bad
  <2> HIDE DEF Bad
  <2> QED
    BY <1>0, Smallest
<1>2. ASSUME NEW U \in SUBSET T, U # T PROVE Adds(f, U, Table(f, U))
  BY <1>1, <1>2
<1> DEFINE Val(U) == Table(f, U)[U]
           g == [U \in SUBSET T |->
                    IF U = {} THEN 0 ELSE f[Pick(U)] + Val(U \ {Pick(U)})]
<1>3. ASSUME NEW U \in SUBSET T, U # T PROVE g[U] = Val(U)
  <2>1. Adds(f, U, Table(f, U))
    BY <1>2, <1>3
  <2>2. CASE U = {}
    BY <2>1, <2>2, AddsStep
  <2>3. CASE U # {}
    <3> DEFINE W == U \ {Pick(U)}
    <3>1. W \in SUBSET T /\ W # T /\ W \in SUBSET U
      BY <2>3, PickIn, <1>3
    <3>2. Adds(f, W, Table(f, W))
      BY <1>2, <3>1
    <3>3. IsFiniteSet(U)
      BY FS_Subset, U \in SUBSET S
    <3>4. Table(f, U)[W] = Table(f, W)[W]
      BY <2>1, <3>1, <3>2, <3>3, TablesAgree
    <3>5. Val(U) = f[Pick(U)] + Table(f, U)[W]
      BY <2>1, <2>3, AddsStep
    <3> QED
      BY <2>3, <3>4, <3>5
  <2> QED
    BY <2>2, <2>3
<1>4. Adds(f, T, g)
  <2>1. ASSUME NEW U \in SUBSET T, U # {}
        PROVE  g[U \ {Pick(U)}] = Val(U \ {Pick(U)})
    <3>1. U \ {Pick(U)} \in SUBSET T /\ U \ {Pick(U)} # T
      BY <2>1, PickIn
    <3> QED
      BY <1>3, <3>1
  <2>2. g = [U \in SUBSET T |->
                IF U = {} THEN 0 ELSE f[Pick(U)] + g[U \ {Pick(U)}]]
    BY <2>1
  <2> HIDE DEF g
  <2> QED
    BY <2>2 DEF Adds
<1>5. Adds(f, T, Table(f, T))
  BY <1>4 DEF Table
<1> QED
  BY <1>1, <1>5

-----------------------------------------------------------------------------

\* Nothing adds up to nothing.
LEMMA SumEmpty == ASSUME NEW f PROVE SumOver(f, {}) = 0
<1>1. Adds(f, {}, Table(f, {}))
  BY TableExists, FS_EmptySet
<1> QED
  BY <1>1, AddsStep, SumIsTable

\* A sum is the amount of the row the fold takes first and the sum of the rest.
LEMMA SumPick ==
    ASSUME NEW f, NEW S, IsFiniteSet(S), S # {}
    PROVE  SumOver(f, S) = f[Pick(S)] + SumOver(f, S \ {Pick(S)})
<1> DEFINE R == S \ {Pick(S)}
<1>1. Adds(f, S, Table(f, S)) /\ Adds(f, R, Table(f, R))
  BY TableExists
<1>2. Table(f, S)[R] = Table(f, R)[R]
  BY <1>1, TablesAgree
<1>3. Table(f, S)[S] = f[Pick(S)] + Table(f, S)[R]
  BY <1>1, AddsStep
<1> QED
  BY <1>2, <1>3, SumIsTable

\* Integers add up to an integer.
LEMMA SumInt ==
    ASSUME NEW f, NEW S, IsFiniteSet(S), \A x \in S : f[x] \in Int
    PROVE  SumOver(f, S) \in Int
<1> DEFINE Bad == {T \in SUBSET S : SumOver(f, T) \notin Int}
<1> SUFFICES ASSUME SumOver(f, S) \notin Int PROVE FALSE
  OBVIOUS
<1>0. Bad \in SUBSET (SUBSET S) /\ S \in Bad
  OBVIOUS
<1>1. PICK T \in Bad : \A U \in SUBSET T : U # T => U \notin Bad
  <2> HIDE DEF Bad
  <2> QED
    BY <1>0, Smallest
<1>2. IsFiniteSet(T)
  BY FS_Subset
<1>3. CASE T = {}
  BY <1>3, SumEmpty
<1>4. CASE T # {}
  <2>1. Pick(T) \in T /\ f[Pick(T)] \in Int
    BY <1>4, PickIn
  <2>2. SumOver(f, T \ {Pick(T)}) \in Int
    BY <1>1, <2>1
  <2> QED
    BY <1>2, <1>4, <2>1, <2>2, SumPick
<1> QED
  BY <1>3, <1>4

\* Any row may be taken out first.
LEMMA SumRemove ==
    ASSUME NEW f, NEW S, IsFiniteSet(S), \A x \in S : f[x] \in Int, NEW y \in S
    PROVE  SumOver(f, S) = f[y] + SumOver(f, S \ {y})
<1> DEFINE Bad == {T \in SUBSET S :
                      \E x \in T : SumOver(f, T) # f[x] + SumOver(f, T \ {x})}
<1> SUFFICES ASSUME SumOver(f, S) # f[y] + SumOver(f, S \ {y}) PROVE FALSE
  OBVIOUS
<1>0. Bad \in SUBSET (SUBSET S) /\ S \in Bad
  OBVIOUS
<1>1. PICK T \in Bad : \A U \in SUBSET T : U # T => U \notin Bad
  <2> HIDE DEF Bad
  <2> QED
    BY <1>0, Smallest
<1>2. PICK x \in T : SumOver(f, T) # f[x] + SumOver(f, T \ {x})
  OBVIOUS
<1> DEFINE p == Pick(T)
<1>3. /\ IsFiniteSet(T)
      /\ p \in T
      /\ SumOver(f, T) = f[p] + SumOver(f, T \ {p})
  BY FS_Subset, PickIn, SumPick
<1> HIDE DEF p
<1>4. p # x
  BY <1>2, <1>3
<1>5. SumOver(f, T \ {p}) = f[x] + SumOver(f, (T \ {p}) \ {x})
  <2>1. T \ {p} \in SUBSET T /\ T \ {p} # T /\ x \in T \ {p}
    BY <1>3, <1>4
  <2> QED
    BY <1>1, <2>1
<1>6. SumOver(f, T \ {x}) = f[p] + SumOver(f, (T \ {x}) \ {p})
  <2>1. T \ {x} \in SUBSET T /\ T \ {x} # T /\ p \in T \ {x}
    BY <1>3, <1>4
  <2> QED
    BY <1>1, <2>1
<1>7. SumOver(f, (T \ {p}) \ {x}) = SumOver(f, (T \ {x}) \ {p})
  <2>1. (T \ {p}) \ {x} = (T \ {x}) \ {p}
    OBVIOUS
  <2> QED
    BY <2>1
<1>8. /\ f[p] \in Int /\ f[x] \in Int
      /\ SumOver(f, (T \ {x}) \ {p}) \in Int
  <2>1. IsFiniteSet((T \ {x}) \ {p})
    BY <1>3, FS_Subset
  <2> QED
    BY <1>3, <2>1, SumInt
<1> QED
  BY <1>2, <1>3, <1>5, <1>6, <1>7, <1>8

\* Equal amounts add up to the same.
LEMMA SumSame ==
    ASSUME NEW f, NEW g, NEW S, IsFiniteSet(S), \A x \in S : f[x] = g[x]
    PROVE  SumOver(f, S) = SumOver(g, S)
<1> DEFINE Bad == {T \in SUBSET S : SumOver(f, T) # SumOver(g, T)}
<1> SUFFICES ASSUME SumOver(f, S) # SumOver(g, S) PROVE FALSE
  OBVIOUS
<1>0. Bad \in SUBSET (SUBSET S) /\ S \in Bad
  OBVIOUS
<1>1. PICK T \in Bad : \A U \in SUBSET T : U # T => U \notin Bad
  <2> HIDE DEF Bad
  <2> QED
    BY <1>0, Smallest
<1>2. IsFiniteSet(T)
  BY FS_Subset
<1>3. CASE T = {}
  BY <1>3, SumEmpty
<1>4. CASE T # {}
  <2>1. Pick(T) \in T /\ f[Pick(T)] = g[Pick(T)]
    BY <1>4, PickIn
  <2>2. SumOver(f, T \ {Pick(T)}) = SumOver(g, T \ {Pick(T)})
    BY <1>1, <2>1
  <2>3. /\ SumOver(f, T) = f[Pick(T)] + SumOver(f, T \ {Pick(T)})
        /\ SumOver(g, T) = g[Pick(T)] + SumOver(g, T \ {Pick(T)})
    BY <1>2, <1>4, SumPick
  <2> QED
    BY <2>1, <2>2, <2>3
<1> QED
  BY <1>3, <1>4

\* A step that changes one row changes the sum by as much.
LEMMA SumChange ==
    ASSUME NEW f, NEW g, NEW S, IsFiniteSet(S), NEW y \in S,
           \A x \in S : f[x] \in Int /\ g[x] \in Int,
           \A x \in S : x # y => f[x] = g[x]
    PROVE  SumOver(g, S) = SumOver(f, S) + g[y] - f[y]
<1>1. IsFiniteSet(S \ {y})
  BY FS_Subset
<1>2. SumOver(f, S \ {y}) = SumOver(g, S \ {y})
  BY <1>1, SumSame
<1>3. /\ SumOver(f, S) = f[y] + SumOver(f, S \ {y})
      /\ SumOver(g, S) = g[y] + SumOver(g, S \ {y})
  BY SumRemove
<1>4. /\ f[y] \in Int /\ g[y] \in Int
      /\ SumOver(f, S \ {y}) \in Int
  BY <1>1, SumInt
<1> QED
  BY <1>2, <1>3, <1>4

\* Amounts that are all zero add up to zero.
LEMMA SumZero ==
    ASSUME NEW f, NEW S, IsFiniteSet(S), \A x \in S : f[x] = 0
    PROVE  SumOver(f, S) = 0
<1> DEFINE Bad == {T \in SUBSET S : SumOver(f, T) # 0}
<1> SUFFICES ASSUME SumOver(f, S) # 0 PROVE FALSE
  OBVIOUS
<1>0. Bad \in SUBSET (SUBSET S) /\ S \in Bad
  OBVIOUS
<1>1. PICK T \in Bad : \A U \in SUBSET T : U # T => U \notin Bad
  <2> HIDE DEF Bad
  <2> QED
    BY <1>0, Smallest
<1>2. IsFiniteSet(T)
  BY FS_Subset
<1>3. CASE T = {}
  BY <1>3, SumEmpty
<1>4. CASE T # {}
  <2>1. Pick(T) \in T /\ f[Pick(T)] = 0
    BY <1>4, PickIn
  <2>2. SumOver(f, T \ {Pick(T)}) = 0
    BY <1>1, <2>1
  <2> QED
    BY <1>2, <1>4, <2>1, <2>2, SumPick
<1> QED
  BY <1>3, <1>4

\* Amounts none of which is below another's add up to no less.
LEMMA SumMono ==
    ASSUME NEW f, NEW g, NEW S, IsFiniteSet(S),
           \A x \in S : f[x] \in Int /\ g[x] \in Int /\ f[x] <= g[x]
    PROVE  SumOver(f, S) <= SumOver(g, S)
<1> DEFINE Bad == {T \in SUBSET S : ~ (SumOver(f, T) <= SumOver(g, T))}
<1> SUFFICES ASSUME ~ (SumOver(f, S) <= SumOver(g, S)) PROVE FALSE
  OBVIOUS
<1>0. Bad \in SUBSET (SUBSET S) /\ S \in Bad
  OBVIOUS
<1>1. PICK T \in Bad : \A U \in SUBSET T : U # T => U \notin Bad
  <2> HIDE DEF Bad
  <2> QED
    BY <1>0, Smallest
<1>2. IsFiniteSet(T)
  BY FS_Subset
<1>3. CASE T = {}
  BY <1>3, SumEmpty
<1>4. CASE T # {}
  <2> DEFINE p == Pick(T)
  <2>1. p \in T /\ f[p] \in Int /\ g[p] \in Int /\ f[p] <= g[p]
    BY <1>4, PickIn
  <2> HIDE DEF p
  <2>2. SumOver(f, T \ {p}) <= SumOver(g, T \ {p})
    BY <1>1, <2>1
  <2>3. /\ SumOver(f, T) = f[p] + SumOver(f, T \ {p})
        /\ SumOver(g, T) = g[p] + SumOver(g, T \ {p})
    BY <1>2, <1>4, SumPick DEF p
  <2>4. SumOver(f, T \ {p}) \in Int /\ SumOver(g, T \ {p}) \in Int
    BY <1>2, SumInt, FS_Subset
  <2> QED
    BY <2>1, <2>2, <2>3, <2>4
<1> QED
  BY <1>3, <1>4

\* Amounts none of which is negative add up to a natural number.
LEMMA SumNat ==
    ASSUME NEW f, NEW S, IsFiniteSet(S), \A x \in S : f[x] \in Nat
    PROVE  SumOver(f, S) \in Nat
<1> DEFINE z == [x \in S |-> 0]
<1>1. SumOver(z, S) = 0
  BY SumZero
<1>2. SumOver(z, S) <= SumOver(f, S)
  BY SumMono
<1>3. SumOver(f, S) \in Int
  BY SumInt
<1> QED
  BY <1>1, <1>2, <1>3

\* The rows outside T count nothing: the sum is that of the rows in T.
LEMMA SumPart ==
    ASSUME NEW f, NEW g, NEW S, IsFiniteSet(S), NEW T \in SUBSET S,
           \A x \in S : f[x] \in Int /\ g[x] = IF x \in T THEN f[x] ELSE 0
    PROVE  SumOver(f, T) = SumOver(g, S)
<1> DEFINE Bad == {U \in SUBSET S : SumOver(f, U \cap T) # SumOver(g, U)}
<1> SUFFICES ASSUME SumOver(f, S \cap T) # SumOver(g, S) PROVE FALSE
  <2>1. S \cap T = T
    OBVIOUS
  <2> QED
    BY <2>1
<1>0. Bad \in SUBSET (SUBSET S) /\ S \in Bad
  OBVIOUS
<1>1. PICK U \in Bad : \A V \in SUBSET U : V # U => V \notin Bad
  <2> HIDE DEF Bad
  <2> QED
    BY <1>0, Smallest
<1>2. IsFiniteSet(U) /\ IsFiniteSet(U \cap T)
  BY FS_Subset
<1>3. CASE U = {}
  <2>1. U \cap T = {}
    BY <1>3
  <2> QED
    BY <1>3, <2>1, SumEmpty
<1>4. CASE U # {}
  <2> DEFINE p == Pick(U)
  <2>1. p \in U /\ SumOver(g, U) = g[p] + SumOver(g, U \ {p})
    BY <1>2, <1>4, PickIn, SumPick
  <2> HIDE DEF p
  <2>2. SumOver(f, (U \ {p}) \cap T) = SumOver(g, U \ {p})
    BY <1>1, <2>1
  <2>3. CASE p \in T
    <3>1. p \in U \cap T /\ \A x \in U \cap T : f[x] \in Int
      BY <2>1, <2>3
    <3>2. SumOver(f, U \cap T) = f[p] + SumOver(f, (U \cap T) \ {p})
      BY <1>2, <3>1, SumRemove
    <3>3. (U \cap T) \ {p} = (U \ {p}) \cap T
      OBVIOUS
    <3>4. SumOver(f, U \cap T) = f[p] + SumOver(f, (U \ {p}) \cap T)
      BY <3>2, <3>3
    <3>5. g[p] = f[p]
      BY <2>1, <2>3
    <3> QED
      BY <2>1, <2>2, <3>4, <3>5
  <2>4. CASE p \notin T
    <3>1. (U \ {p}) \cap T = U \cap T
      BY <2>4
    <3>2. g[p] = 0
      BY <2>1, <2>4
    <3>3. SumOver(f, U \cap T) \in Int
      BY <1>2, SumInt
    <3>4. SumOver(g, U) = 0 + SumOver(f, U \cap T)
      BY <2>1, <2>2, <3>1, <3>2
    <3> QED
      BY <3>3, <3>4
  <2> QED
    BY <2>3, <2>4
<1> QED
  BY <1>3, <1>4

\* Amounts that are the sums of two parts add up to the sums of the parts.
LEMMA SumParts ==
    ASSUME NEW f, NEW g, NEW h, NEW S, IsFiniteSet(S),
           \A x \in S : g[x] \in Int /\ h[x] \in Int /\ f[x] = g[x] + h[x]
    PROVE  SumOver(f, S) = SumOver(g, S) + SumOver(h, S)
<1> DEFINE Bad == {T \in SUBSET S : SumOver(f, T) # SumOver(g, T) + SumOver(h, T)}
<1> SUFFICES ASSUME SumOver(f, S) # SumOver(g, S) + SumOver(h, S) PROVE FALSE
  OBVIOUS
<1>0. Bad \in SUBSET (SUBSET S) /\ S \in Bad
  OBVIOUS
<1>1. PICK T \in Bad : \A U \in SUBSET T : U # T => U \notin Bad
  <2> HIDE DEF Bad
  <2> QED
    BY <1>0, Smallest
<1>2. IsFiniteSet(T)
  BY FS_Subset
<1>3. CASE T = {}
  BY <1>3, SumEmpty
<1>4. CASE T # {}
  <2> DEFINE p == Pick(T)
  <2>1. p \in T /\ g[p] \in Int /\ h[p] \in Int /\ f[p] = g[p] + h[p]
    BY <1>4, PickIn
  <2> HIDE DEF p
  <2>2. SumOver(f, T \ {p}) = SumOver(g, T \ {p}) + SumOver(h, T \ {p})
    BY <1>1, <2>1
  <2>3. /\ SumOver(f, T) = f[p] + SumOver(f, T \ {p})
        /\ SumOver(g, T) = g[p] + SumOver(g, T \ {p})
        /\ SumOver(h, T) = h[p] + SumOver(h, T \ {p})
    BY <1>2, <1>4, SumPick DEF p
  <2>4. SumOver(g, T \ {p}) \in Int /\ SumOver(h, T \ {p}) \in Int
    BY <1>2, SumInt, FS_Subset
  <2> QED
    BY <2>1, <2>2, <2>3, <2>4
<1> QED
  BY <1>3, <1>4
\* Equal amounts add up to as many times the amount as there are rows.
LEMMA SumConst ==
    ASSUME NEW f, NEW S, IsFiniteSet(S), NEW c \in Int, \A x \in S : f[x] = c
    PROVE  SumOver(f, S) = c * Cardinality(S)
<1> DEFINE Bad == {T \in SUBSET S : SumOver(f, T) # c * Cardinality(T)}
<1> SUFFICES ASSUME S \in Bad PROVE FALSE
  OBVIOUS
<1>0. Bad \in SUBSET (SUBSET S)
  OBVIOUS
<1>1. PICK T \in Bad : \A U \in SUBSET T : U # T => U \notin Bad
  <2> HIDE DEF Bad
  <2> QED
    BY <1>0, Smallest
<1>2. T \in SUBSET S /\ IsFiniteSet(T)
  BY FS_Subset
<1>3. CASE T = {}
  BY <1>3, SumEmpty, FS_EmptySet
<1>4. CASE T # {}
  <2> DEFINE p == Pick(T)
             U == T \ {p}
  <2>1. p \in T
    BY <1>4, PickIn
  <2>2. U \in SUBSET T /\ U # T
    BY <2>1
  <2>3. SumOver(f, U) = c * Cardinality(U)
    BY <1>1, <2>2
  <2>4. SumOver(f, T) = f[p] + SumOver(f, U)
    BY <1>2, <1>4, SumPick
  <2>5. /\ Cardinality(U) = Cardinality(T) - 1
        /\ Cardinality(T) \in Nat
    BY <1>2, <2>1, FS_RemoveElement, FS_CardinalityType
  <2>6. f[p] = c
    BY <1>2, <2>1
  <2>7. SumOver(f, T) # c * Cardinality(T)
    BY <1>1
  <2> DEFINE k == Cardinality(T)
  <2> HIDE DEF p, U, k
  <2>8. SumOver(f, T) = c + c * (k - 1) /\ k \in Int
    BY <2>3, <2>4, <2>5, <2>6 DEF k
  <2>9. c + c * (k - 1) = c * k
    BY <2>8
  <2> QED
    BY <2>7, <2>8, <2>9 DEF k
<1> QED
  BY <1>3, <1>4

\* Amounts none of which is negative add up to nothing only if each is zero.
LEMMA SumNothing ==
    ASSUME NEW f, NEW S, IsFiniteSet(S), \A x \in S : f[x] \in Nat,
           SumOver(f, S) = 0, NEW y \in S
    PROVE  f[y] = 0
<1>1. SumOver(f, S) = f[y] + SumOver(f, S \ {y})
  BY SumRemove
<1>2. SumOver(f, S \ {y}) \in Nat
  BY FS_Subset, SumNat
<1> QED
  BY <1>1, <1>2
=============================================================================
