-------------------------- MODULE MarketIndexProofs --------------------------
(***************************************************************************)
(* Theorems about the market, its index and the risk engine, for any       *)
(* finite set of accounts, any amounts, prices, decimals and policies and  *)
(* any width of the arithmetic.                                            *)
(***************************************************************************)
EXTENDS MarketIndex, FiniteSetTheorems, WellFoundedInduction, TLAPS

(***************************************************************************)
(* Sums                                                                    *)
(*                                                                         *)
(* FoldFunction adds the values of a function by recursion over the        *)
(* subsets of its domain.  That the recursion has a value for a finite     *)
(* domain, and what it is, is shown by minimal counterexamples.            *)
(***************************************************************************)

Less == {p \in Nat \X Nat : p[1] < p[2]}

LEMMA SmallestInSet ==
    ASSUME NEW T \in SUBSET Nat, T # {}
    PROVE  \E n \in T : \A m \in T : n <= m
  <1>1. IsWellFoundedOn(Less, Nat)
    BY NatLessThanWellFounded DEF OpToRel, Less
  <1>2. \E x \in T : \A y \in T : ~(<<y, x>> \in Less)
    BY <1>1, WFMin
  <1>3. \A x, y \in Nat : y < x => <<y, x>> \in Less
    BY DEF Less
  <1>4. PICK x \in T : \A y \in T : ~(<<y, x>> \in Less)
    BY <1>2
  <1>5. ASSUME NEW y \in T PROVE x <= y
    <2>1. x \in Nat /\ y \in Nat /\ ~(y < x)
      BY <1>3, <1>4
    <2> QED  BY <2>1
  <1> QED  BY <1>5

\* g sums up f over each subset of S, and h over the subsets of at most n elements.
Sums(g, f, S) ==
    g = [s \in SUBSET S |-> IF s = {} THEN 0
                            ELSE LET x == CHOOSE x \in s : TRUE IN f[x] + g[s \ {x}]]

SumsUpTo(h, n, f, S) ==
    h = [s \in {s \in SUBSET S : Cardinality(s) <= n} |->
            IF s = {} THEN 0 ELSE LET x == CHOOSE x \in s : TRUE IN f[x] + h[s \ {x}]]

LEMMA FoldIsSum ==
    ASSUME NEW f
    PROVE  FoldFunction(+, 0, f) = (CHOOSE g : Sums(g, f, DOMAIN f))[DOMAIN f]
  BY DEF FoldFunction, FoldFunctionOnSet, MapThenFoldSet, Sums

LEMMA SubsetLess ==
    ASSUME NEW S, IsFiniteSet(S), NEW s \in SUBSET S, NEW x \in s
    PROVE  /\ IsFiniteSet(s) /\ Cardinality(s) \in Nat
           /\ Cardinality(s \ {x}) \in Nat /\ Cardinality(s \ {x}) < Cardinality(s)
  BY FS_Subset, FS_RemoveElement, FS_CardinalityType

LEMMA SumsExist ==
    ASSUME NEW S, IsFiniteSet(S), NEW f
    PROVE  \E g : Sums(g, f, S)
  <1> DEFINE T == {n \in Nat : ~\E h : SumsUpTo(h, n, f, S)}
  <1>1. T = {}
    <2> SUFFICES ASSUME T # {} PROVE FALSE
      OBVIOUS
    <2>1. PICK n \in T : \A m \in T : n <= m
      BY SmallestInSet
    <2>2. \E h : SumsUpTo(h, n, f, S)
      <3>1. CASE n = 0
        <4> DEFINE h == [s \in {s \in SUBSET S : Cardinality(s) <= n} |-> 0]
        <4>1. \A s \in SUBSET S : Cardinality(s) <= n => s = {}
          BY <3>1, FS_Subset, FS_EmptySet, FS_CardinalityType
        <4>2. h = [s \in {s \in SUBSET S : Cardinality(s) <= n} |->
                      IF s = {} THEN 0 ELSE LET x == CHOOSE x \in s : TRUE IN f[x] + h[s \ {x}]]
          BY <4>1
        <4> QED  BY <4>2 DEF SumsUpTo
      <3>2. CASE n > 0
        <4>1. n - 1 \in Nat /\ n - 1 \notin T
          BY <2>1, <3>2
        <4>2. PICK h : SumsUpTo(h, n - 1, f, S)
          BY <4>1
        <4> DEFINE D(k) == {s \in SUBSET S : Cardinality(s) <= k}
                   k == [s \in D(n) |-> IF s = {} THEN 0
                                        ELSE LET x == CHOOSE x \in s : TRUE IN f[x] + h[s \ {x}]]
        <4>3. \A s \in D(n - 1) : k[s] = h[s]
          <5> SUFFICES ASSUME NEW s \in D(n - 1) PROVE k[s] = h[s]
            OBVIOUS
          <5>1. s \in D(n)
            BY <3>2, FS_Subset, FS_CardinalityType
          <5> QED  BY <4>2, <5>1 DEF SumsUpTo
        <4>4. ASSUME NEW s \in D(n), s # {}, NEW x \in s
              PROVE  s \ {x} \in D(n - 1)
          BY <4>4, <2>1, <3>2, SubsetLess
        <4>5. ASSUME NEW s \in D(n)
              PROVE  k[s] = IF s = {} THEN 0
                            ELSE LET x == CHOOSE x \in s : TRUE IN f[x] + k[s \ {x}]
          <5>1. CASE s = {}
            BY <5>1
          <5>2. CASE s # {}
            <6> PICK x : x = CHOOSE y \in s : TRUE
              OBVIOUS
            <6>1. x \in s
              BY <5>2
            <6>2. k[s] = f[x] + h[s \ {x}]
              BY <5>2
            <6>3. h[s \ {x}] = k[s \ {x}]
              BY <4>3, <4>4, <5>2, <6>1
            <6> QED  BY <5>2, <6>2, <6>3
          <5> QED  BY <5>1, <5>2
        <4>6. k = [s \in D(n) |-> IF s = {} THEN 0
                                  ELSE LET x == CHOOSE x \in s : TRUE IN f[x] + k[s \ {x}]]
          BY <4>5
        <4> QED  BY <4>6 DEF SumsUpTo
      <3> QED  BY <2>1, <3>1, <3>2
    <2> QED  BY <2>1, <2>2
  <1>2. Cardinality(S) \in Nat
    BY FS_CardinalityType
  <1>3. PICK h : SumsUpTo(h, Cardinality(S), f, S)
    BY <1>1, <1>2
  <1>4. {s \in SUBSET S : Cardinality(s) <= Cardinality(S)} = SUBSET S
    BY FS_Subset
  <1> QED  BY <1>3, <1>4 DEF SumsUpTo, Sums

\* The sum of f over a subset of its domain.
Total(f, s) == (CHOOSE g : Sums(g, f, DOMAIN f))[s]

LEMMA TotalStep ==
    ASSUME NEW S, IsFiniteSet(S), NEW f, DOMAIN f = S, NEW s \in SUBSET S
    PROVE  /\ s = {} => Total(f, s) = 0
           /\ s # {} => \E x \in s : /\ x = CHOOSE y \in s : TRUE
                                     /\ Total(f, s) = f[x] + Total(f, s \ {x})
  <1> DEFINE g == CHOOSE g : Sums(g, f, S)
  <1>1. Sums(g, f, S)
    BY SumsExist
  <1>2. \A u \in SUBSET S : Total(f, u) = g[u]
    BY DEF Total
  <1> HIDE DEF g
  <1>3. g[s] = IF s = {} THEN 0 ELSE LET x == CHOOSE x \in s : TRUE IN f[x] + g[s \ {x}]
    BY <1>1 DEF Sums
  <1>4. CASE s # {}
    <2> PICK x : x = CHOOSE y \in s : TRUE
      OBVIOUS
    <2>1. x \in s
      BY <1>4
    <2>2. g[s] = f[x] + g[s \ {x}]
      BY <1>3, <1>4
    <2> QED  BY <1>2, <1>4, <2>1, <2>2
  <1> QED  BY <1>2, <1>3, <1>4

LEMMA TotalInNat ==
    ASSUME NEW S, IsFiniteSet(S), NEW f \in [S -> Nat]
    PROVE  \A s \in SUBSET S : Total(f, s) \in Nat
  <1> DEFINE T == {Cardinality(s) : s \in {s \in SUBSET S : Total(f, s) \notin Nat}}
  <1> SUFFICES ASSUME T # {} PROVE FALSE
    OBVIOUS
  <1>1. T \subseteq Nat
    BY FS_Subset, FS_CardinalityType
  <1>2. PICK n \in T : \A m \in T : n <= m
    BY <1>1, SmallestInSet
  <1>3. PICK s \in SUBSET S : Total(f, s) \notin Nat /\ Cardinality(s) = n
    BY <1>2
  <1>4. PICK x \in s : Total(f, s) = f[x] + Total(f, s \ {x})
    BY <1>3, TotalStep
  <1>5. Cardinality(s \ {x}) \in Nat /\ Cardinality(s \ {x}) < n
    BY <1>3, SubsetLess
  <1>6. Cardinality(s \ {x}) \notin T
    <2> HIDE DEF T
    <2> QED  BY <1>1, <1>2, <1>5
  <1>7. Total(f, s \ {x}) \in Nat /\ f[x] \in Nat
    BY <1>6
  <1> QED  BY <1>3, <1>4, <1>7

\* In whatever order: a value may be taken first.
LEMMA TotalTakeOut ==
    ASSUME NEW S, IsFiniteSet(S), NEW f \in [S -> Nat]
    PROVE  \A s \in SUBSET S : \A x \in s : Total(f, s) = f[x] + Total(f, s \ {x})
  <1> DEFINE Bad(s) == ~\A x \in s : Total(f, s) = f[x] + Total(f, s \ {x})
             T == {Cardinality(s) : s \in {s \in SUBSET S : Bad(s)}}
  <1> SUFFICES ASSUME T # {} PROVE FALSE
    OBVIOUS
  <1>1. T \subseteq Nat
    BY FS_Subset, FS_CardinalityType
  <1>2. PICK n \in T : \A m \in T : n <= m
    BY <1>1, SmallestInSet
  <1>3. PICK s \in SUBSET S : Bad(s) /\ Cardinality(s) = n
    BY <1>2
  <1>4. PICK x \in s : Total(f, s) # f[x] + Total(f, s \ {x})
    BY <1>3
  <1>5. PICK c \in s : Total(f, s) = f[c] + Total(f, s \ {c})
    BY <1>4, TotalStep
  <1>6. x # c
    BY <1>4, <1>5
  <1>7. ASSUME NEW y \in s
        PROVE  ~Bad(s \ {y})
    <2>1. Cardinality(s \ {y}) \in Nat /\ Cardinality(s \ {y}) < n
      BY <1>3, SubsetLess
    <2>2. Cardinality(s \ {y}) \notin T
      <3> HIDE DEF T
      <3> QED  BY <1>1, <1>2, <2>1
    <2> QED  BY <2>2
  <1>8. Total(f, s \ {c}) = f[x] + Total(f, (s \ {c}) \ {x})
    BY <1>6, <1>7
  <1>9. Total(f, s \ {x}) = f[c] + Total(f, (s \ {x}) \ {c})
    BY <1>6, <1>7
  <1>10. (s \ {c}) \ {x} = (s \ {x}) \ {c}
    OBVIOUS
  <1>11. f[x] \in Nat /\ f[c] \in Nat /\ Total(f, (s \ {x}) \ {c}) \in Nat
    BY TotalInNat
  <1> DEFINE rest == Total(f, (s \ {x}) \ {c})
             u == f[x]
             v == f[c]
  <1>12. u \in Nat /\ v \in Nat /\ rest \in Nat
    BY <1>11
  <1>13. Total(f, s) = v + (u + rest) /\ u + Total(f, s \ {x}) = u + (v + rest)
    BY <1>5, <1>8, <1>9, <1>10
  <1> HIDE DEF u, v, rest
  <1>14. v + (u + rest) = u + (v + rest)
    BY <1>12
  <1>15. Total(f, s) = u + Total(f, s \ {x})
    BY <1>13, <1>14
  <1> QED  BY <1>4, <1>15 DEF u

LEMMA TotalOfEquals ==
    ASSUME NEW S, IsFiniteSet(S), NEW f \in [S -> Nat], NEW h \in [S -> Nat]
    PROVE  \A s \in SUBSET S : (\A x \in s : f[x] = h[x]) => Total(f, s) = Total(h, s)
  <1> DEFINE Bad(s) == (\A x \in s : f[x] = h[x]) /\ Total(f, s) # Total(h, s)
             T == {Cardinality(s) : s \in {s \in SUBSET S : Bad(s)}}
  <1> SUFFICES ASSUME T # {} PROVE FALSE
    OBVIOUS
  <1>1. T \subseteq Nat
    BY FS_Subset, FS_CardinalityType
  <1>2. PICK n \in T : \A m \in T : n <= m
    BY <1>1, SmallestInSet
  <1>3. PICK s \in SUBSET S : Bad(s) /\ Cardinality(s) = n
    BY <1>2
  <1>4. s # {}
    BY <1>3, TotalStep
  <1>5. PICK x \in s : Total(f, s) = f[x] + Total(f, s \ {x})
    BY <1>4, TotalStep
  <1>6. Total(h, s) = h[x] + Total(h, s \ {x})
    BY TotalTakeOut
  <1>7. Cardinality(s \ {x}) \in Nat /\ Cardinality(s \ {x}) < n
    BY <1>3, SubsetLess
  <1>8. ~Bad(s \ {x})
    BY <1>1, <1>2, <1>7
  <1> QED  BY <1>3, <1>5, <1>6, <1>8

LEMMA TotalOfZeros ==
    ASSUME NEW S, IsFiniteSet(S), NEW f \in [S -> Nat]
    PROVE  \A s \in SUBSET S : (\A x \in s : f[x] = 0) => Total(f, s) = 0
  <1> DEFINE Bad(s) == (\A x \in s : f[x] = 0) /\ Total(f, s) # 0
             T == {Cardinality(s) : s \in {s \in SUBSET S : Bad(s)}}
  <1> SUFFICES ASSUME T # {} PROVE FALSE
    OBVIOUS
  <1>1. T \subseteq Nat
    BY FS_Subset, FS_CardinalityType
  <1>2. PICK n \in T : \A m \in T : n <= m
    BY <1>1, SmallestInSet
  <1>3. PICK s \in SUBSET S : Bad(s) /\ Cardinality(s) = n
    BY <1>2
  <1>4. s # {}
    BY <1>3, TotalStep
  <1>5. PICK x \in s : Total(f, s) = f[x] + Total(f, s \ {x})
    BY <1>4, TotalStep
  <1>7. Cardinality(s \ {x}) \in Nat /\ Cardinality(s \ {x}) < n
    BY <1>3, SubsetLess
  <1>8. ~Bad(s \ {x})
    BY <1>1, <1>2, <1>7
  <1> QED  BY <1>3, <1>5, <1>8

LEMMA SupplyIsTotal ==
    ASSUME NEW f
    PROVE  Supply(f) = Total(f, DOMAIN f)
  BY FoldIsSum, Zenon DEF Supply, Total

\* A sum is at least each of its parts, and follows a change of one of them.
LEMMA SumOfParts ==
    ASSUME NEW S, IsFiniteSet(S), NEW f \in [S -> Nat], NEW x \in S
    PROVE  Supply(f) \in Nat /\ f[x] \in Nat /\ f[x] <= Supply(f)
  <1>1. Supply(f) = f[x] + Total(f, S \ {x})
    BY TotalTakeOut, SupplyIsTotal
  <1>2. Total(f, S \ {x}) \in Nat /\ f[x] \in Nat
    BY TotalInNat
  <1> QED  BY <1>1, <1>2

LEMMA SumOfChange ==
    ASSUME NEW S, IsFiniteSet(S), NEW f \in [S -> Nat], NEW h \in [S -> Nat], NEW x \in S,
           \A y \in S \ {x} : h[y] = f[y]
    PROVE  Supply(h) = Supply(f) - f[x] + h[x]
  <1>1. Supply(f) = f[x] + Total(f, S \ {x}) /\ Supply(h) = h[x] + Total(h, S \ {x})
    BY TotalTakeOut, SupplyIsTotal
  <1>2. Total(h, S \ {x}) = Total(f, S \ {x})
    BY TotalOfEquals
  <1>3. Total(f, S \ {x}) \in Nat /\ f[x] \in Nat /\ h[x] \in Nat
    BY TotalInNat
  <1> QED  BY <1>1, <1>2, <1>3

LEMMA SumOfZeros ==
    ASSUME NEW S, IsFiniteSet(S), NEW f \in [S -> Nat], NEW x \in S,
           \A y \in S \ {x} : f[y] = 0
    PROVE  Supply(f) = f[x]
  <1>1. Supply(f) = f[x] + Total(f, S \ {x})
    BY TotalTakeOut, SupplyIsTotal
  <1>2. Total(f, S \ {x}) = 0 /\ f[x] \in Nat
    BY TotalOfZeros
  <1> QED  BY <1>1, <1>2

(***************************************************************************)
(* The market                                                              *)
(***************************************************************************)

CollateralAmounts == [a \in Addresses |-> positions[a].collateralAmount]
DebtAmounts == [a \in Addresses |-> positions[a].debtAmount]
SumOfCollateral == Supply(CollateralAmounts)
SumOfDebt == Supply(DebtAmounts)

\* With the supplies bounded, which makes the balances fit, the invariant is inductive.
IInv ==
    /\ TypeOK
    /\ totalCollateral = SumOfCollateral /\ totalDebt = SumOfDebt
    /\ collateralToken[Self] >= totalCollateral
    /\ Supply(collateralToken) <= MaxSupply /\ Supply(debtToken) <= MaxSupply

Finite == IsFiniteSet(Accounts)

LEMMA AddressesFinite ==
    ASSUME Finite
    PROVE  IsFiniteSet(Addresses)
  BY FS_Singleton, FS_Union DEF Finite, Addresses

\* Balances whose sum fits, fit.
LEMMA SupplyBounds ==
    ASSUME Finite, NEW b \in [Addresses -> Nat], Supply(b) <= MaxSupply
    PROVE  b \in [Addresses -> Uint]
  <1> SUFFICES ASSUME NEW a \in Addresses PROVE b[a] \in Uint
    OBVIOUS
  <1>1. Supply(b) \in Nat /\ b[a] \in Nat /\ b[a] <= Supply(b)
    BY AddressesFinite, SumOfParts
  <1> QED  BY <1>1, MarketAssumption DEF Uint

LEMMA TransferShape ==
    ASSUME Finite, NEW b \in [Addresses -> Uint], NEW from \in Addresses, NEW to \in Addresses,
           NEW n \in Nat, b[from] >= n, Supply(b) <= MaxSupply
    PROVE  /\ Transfer(b, from, to, n) \in [Addresses -> Uint]
           /\ Supply(Transfer(b, from, to, n)) <= MaxSupply
           /\ Transfer(b, from, to, n)[Self]
                 = b[Self] + (IF to = Self THEN n ELSE 0) - (IF from = Self THEN n ELSE 0)
  <1> DEFINE d == [b EXCEPT ![from] = @ - n]
             c == [d EXCEPT ![to] = @ + n]
  <1>1. b \in [Addresses -> Nat] /\ IsFiniteSet(Addresses)
    BY MarketAssumption, AddressesFinite DEF Uint
  <1>2. d \in [Addresses -> Nat] /\ d[from] = b[from] - n /\ \A y \in Addresses \ {from} : d[y] = b[y]
    BY <1>1
  <1>3. c[Self] = b[Self] + (IF to = Self THEN n ELSE 0) - (IF from = Self THEN n ELSE 0)
    BY <1>1 DEF Addresses
  <1>4. Transfer(b, from, to, n) = c
    BY <1>1 DEF Transfer
  <1> HIDE DEF d
  <1>5. c \in [Addresses -> Nat] /\ c[to] = d[to] + n /\ \A y \in Addresses \ {to} : c[y] = d[y]
    BY <1>2
  <1> HIDE DEF c
  <1>6. Supply(d) = Supply(b) - b[from] + d[from]
    BY <1>1, <1>2, SumOfChange
  <1>7. Supply(c) = Supply(d) - d[to] + c[to]
    BY <1>1, <1>2, <1>5, SumOfChange
  <1>8. Supply(b) \in Nat /\ b[from] \in Nat /\ d[to] \in Nat
    BY <1>1, <1>2, SumOfParts
  <1>9. Supply(c) <= MaxSupply
    BY <1>2, <1>5, <1>6, <1>7, <1>8, MarketAssumption
  <1>10. c \in [Addresses -> Uint]
    BY <1>5, <1>9, SupplyBounds
  <1> QED  BY <1>3, <1>4, <1>9, <1>10

\* No position exceeds the sum, and the sums follow a change of one position.
LEMMA PositionInSum ==
    ASSUME Finite, positions \in [Addresses -> Positions], NEW a \in Addresses
    PROVE  /\ SumOfCollateral \in Nat /\ SumOfDebt \in Nat
           /\ positions[a].collateralAmount \in Nat /\ positions[a].debtAmount \in Nat
           /\ positions[a].collateralAmount <= SumOfCollateral
           /\ positions[a].debtAmount <= SumOfDebt
  <1>1. CollateralAmounts \in [Addresses -> Nat] /\ DebtAmounts \in [Addresses -> Nat]
    BY MarketAssumption DEF Positions, Uint, CollateralAmounts, DebtAmounts
  <1>2. /\ CollateralAmounts[a] = positions[a].collateralAmount
        /\ DebtAmounts[a] = positions[a].debtAmount
    BY DEF CollateralAmounts, DebtAmounts
  <1> QED  BY <1>1, <1>2, AddressesFinite, SumOfParts DEF SumOfCollateral, SumOfDebt

LEMMA PositionChange ==
    ASSUME Finite, positions \in [Addresses -> Positions], NEW a \in Addresses, NEW p,
           p \in [collateralAmount: Nat, debtAmount: Nat],
           positions' = [positions EXCEPT ![a] = p]
    PROVE  /\ SumOfCollateral' = SumOfCollateral - positions[a].collateralAmount + p.collateralAmount
           /\ SumOfDebt' = SumOfDebt - positions[a].debtAmount + p.debtAmount
  <1>1. CollateralAmounts \in [Addresses -> Nat] /\ DebtAmounts \in [Addresses -> Nat]
    BY MarketAssumption DEF Positions, Uint, CollateralAmounts, DebtAmounts
  <1>2. /\ CollateralAmounts[a] = positions[a].collateralAmount
        /\ DebtAmounts[a] = positions[a].debtAmount
    BY DEF CollateralAmounts, DebtAmounts
  <1>3. positions'[a] = p /\ \A x \in Addresses \ {a} : positions'[x] = positions[x]
    OBVIOUS
  <1>4. /\ CollateralAmounts'[a] = p.collateralAmount /\ DebtAmounts'[a] = p.debtAmount
        /\ \A x \in Addresses \ {a} : /\ CollateralAmounts'[x] = CollateralAmounts[x]
                                      /\ DebtAmounts'[x] = DebtAmounts[x]
    BY <1>3 DEF CollateralAmounts, DebtAmounts
  <1>5. CollateralAmounts' \in [Addresses -> Nat] /\ DebtAmounts' \in [Addresses -> Nat]
    <2>1. \A x \in Addresses : CollateralAmounts'[x] \in Nat /\ DebtAmounts'[x] \in Nat
      BY <1>1, <1>4
    <2> QED  BY <2>1 DEF CollateralAmounts, DebtAmounts
  <1>6. Supply(CollateralAmounts') = Supply(CollateralAmounts) - CollateralAmounts[a] + CollateralAmounts'[a]
    <2> PICK f : f = CollateralAmounts
      OBVIOUS
    <2> PICK h : h = CollateralAmounts'
      OBVIOUS
    <2>1. f \in [Addresses -> Nat] /\ h \in [Addresses -> Nat]
      BY <1>1, <1>5
    <2>2. \A x \in Addresses \ {a} : h[x] = f[x]
      BY <1>4
    <2>3. Supply(h) = Supply(f) - f[a] + h[a]
      BY <2>1, <2>2, AddressesFinite, SumOfChange
    <2> QED  BY <2>3
  <1>7. Supply(DebtAmounts') = Supply(DebtAmounts) - DebtAmounts[a] + DebtAmounts'[a]
    <2> PICK f : f = DebtAmounts
      OBVIOUS
    <2> PICK h : h = DebtAmounts'
      OBVIOUS
    <2>1. f \in [Addresses -> Nat] /\ h \in [Addresses -> Nat]
      BY <1>1, <1>5
    <2>2. \A x \in Addresses \ {a} : h[x] = f[x]
      BY <1>4
    <2>3. Supply(h) = Supply(f) - f[a] + h[a]
      BY <2>1, <2>2, AddressesFinite, SumOfChange
    <2> QED  BY <2>3
  <1> QED  BY <1>2, <1>4, <1>6, <1>7 DEF SumOfCollateral, SumOfDebt

\* A step that moves one position and both totals with it.
LEMMA PositionStep ==
    ASSUME Finite, IInv, NEW a \in Addresses, NEW p,
           p \in [collateralAmount: Nat, debtAmount: Nat],
           positions' = [positions EXCEPT ![a] = p],
           totalCollateral' = totalCollateral - positions[a].collateralAmount + p.collateralAmount,
           totalDebt' = totalDebt - positions[a].debtAmount + p.debtAmount,
           totalCollateral' <= MaxUint, totalDebt' <= MaxUint
    PROVE  /\ totalCollateral' = SumOfCollateral' /\ totalDebt' = SumOfDebt'
           /\ totalCollateral' \in Uint /\ totalDebt' \in Uint
           /\ positions' \in [Addresses -> Positions]
  <1>1. positions \in [Addresses -> Positions]
    BY DEF IInv, TypeOK
  <1>2. /\ SumOfCollateral \in Nat /\ SumOfDebt \in Nat
        /\ positions[a].collateralAmount \in Nat /\ positions[a].debtAmount \in Nat
        /\ positions[a].collateralAmount <= SumOfCollateral
        /\ positions[a].debtAmount <= SumOfDebt
    BY <1>1, PositionInSum
  <1>3. /\ SumOfCollateral' = SumOfCollateral - positions[a].collateralAmount + p.collateralAmount
        /\ SumOfDebt' = SumOfDebt - positions[a].debtAmount + p.debtAmount
    BY <1>1, PositionChange
  <1>4. totalCollateral = SumOfCollateral /\ totalDebt = SumOfDebt
    BY DEF IInv
  <1>5. p.collateralAmount \in Nat /\ p.debtAmount \in Nat
    OBVIOUS
  <1>6. totalCollateral' \in Uint /\ totalDebt' \in Uint
    BY <1>2, <1>3, <1>4, <1>5, MarketAssumption DEF Uint
  <1>7. p.collateralAmount \in Uint /\ p.debtAmount \in Uint
    BY <1>2, <1>3, <1>4, <1>5, MarketAssumption DEF Uint
  <1>8. p \in Positions
    BY <1>7 DEF Positions
  <1> QED  BY <1>1, <1>3, <1>4, <1>6, <1>8

LEMMA PositionParts ==
    ASSUME IInv, NEW a \in Addresses
    PROVE  /\ positions[a] \in [collateralAmount: Nat, debtAmount: Nat]
           /\ positions[a].collateralAmount \in Nat /\ positions[a].debtAmount \in Nat
  BY MarketAssumption DEF IInv, TypeOK, Positions, Uint

\* No position exceeds the total, so no subtraction wraps.
LEMMA PositionInTotal ==
    ASSUME Finite, IInv, NEW a \in Addresses
    PROVE  /\ totalCollateral \in Nat /\ totalDebt \in Nat
           /\ totalCollateral <= MaxUint /\ totalDebt <= MaxUint
           /\ positions[a].collateralAmount <= totalCollateral
           /\ positions[a].debtAmount <= totalDebt
  BY PositionInSum, MarketAssumption DEF IInv, TypeOK, Uint

LEMMA NoWrap ==
    ASSUME NEW n \in Nat, n <= MaxUint
    PROVE  Wrap(n) = n
  BY MarketAssumption DEF Wrap

LEMMA Ranges ==
    ASSUME IInv
    PROVE  /\ \A a \in Amounts : a \in Nat
           /\ \A a \in Accounts : a \in Addresses /\ a # Self
           /\ Self \in Addresses
           /\ collateralToken \in [Addresses -> Uint] /\ debtToken \in [Addresses -> Uint]
           /\ collateralToken[Self] \in Nat /\ collateralToken[Self] <= MaxUint
           /\ debtToken[Self] \in Nat
           /\ Supply(collateralToken) <= MaxSupply /\ Supply(debtToken) <= MaxSupply
           /\ collateralToken[Self] >= totalCollateral
           /\ stateVersion \in 1..MaxVersion
  BY MarketAssumption DEF Addresses, IInv, TypeOK, Uint

LEMMA VersionStep ==
    ASSUME IInv, AdvanceStateVersion
    PROVE  stateVersion' \in 1..MaxVersion
  BY MarketAssumption DEF IInv, TypeOK, AdvanceStateVersion

\* What the parts of the invariant that a step leaves alone still say.
LEMMA QuietAccounting ==
    ASSUME IInv, UNCHANGED accounting
    PROVE  /\ totalCollateral' = SumOfCollateral' /\ totalDebt' = SumOfDebt'
           /\ totalCollateral' \in Uint /\ totalDebt' \in Uint
           /\ positions' \in [Addresses -> Positions]
  <1>1. totalCollateral' = totalCollateral /\ totalDebt' = totalDebt /\ positions' = positions
    BY DEF accounting
  <1>2. CollateralAmounts' = CollateralAmounts /\ DebtAmounts' = DebtAmounts
    BY <1>1 DEF CollateralAmounts, DebtAmounts
  <1> QED  BY <1>1, <1>2 DEF IInv, TypeOK, SumOfCollateral, SumOfDebt

LEMMA DepositKeeps ==
    ASSUME Finite, IInv, NEW sender \in Accounts, NEW amount \in Amounts,
           DepositCollateral(sender, amount)
    PROVE  IInv'
  <1> DEFINE p == [positions[sender] EXCEPT !.collateralAmount = @ + amount]
  <1>1. /\ amount \in Nat /\ sender \in Addresses /\ sender # Self /\ Self \in Addresses
        /\ collateralToken \in [Addresses -> Uint] /\ collateralToken[Self] \in Nat
        /\ Supply(collateralToken) <= MaxSupply
        /\ collateralToken[Self] >= totalCollateral
    BY Ranges
  <1>2. /\ collateralToken[sender] >= amount /\ totalCollateral + amount <= MaxUint
        /\ collateralToken' = Transfer(collateralToken, sender, Self, amount)
        /\ totalCollateral' = totalCollateral + amount /\ totalDebt' = totalDebt
        /\ positions' = [positions EXCEPT ![sender] = p]
        /\ AdvanceStateVersion
        /\ UNCHANGED <<parameters, debtToken>>
    BY DEF DepositCollateral, SetPosition
  <1>3. /\ p \in [collateralAmount: Nat, debtAmount: Nat]
        /\ p.collateralAmount = positions[sender].collateralAmount + amount
        /\ p.debtAmount = positions[sender].debtAmount
    BY <1>1, PositionParts
  <1>4. /\ totalCollateral \in Nat /\ totalDebt \in Nat /\ totalDebt <= MaxUint
        /\ positions[sender].collateralAmount \in Nat /\ positions[sender].debtAmount \in Nat
    BY <1>1, PositionInTotal, PositionParts
  <1> HIDE DEF p
  <1>5. /\ totalCollateral' = totalCollateral - positions[sender].collateralAmount + p.collateralAmount
        /\ totalDebt' = totalDebt - positions[sender].debtAmount + p.debtAmount
        /\ totalCollateral' <= MaxUint /\ totalDebt' <= MaxUint
    BY <1>1, <1>2, <1>3, <1>4
  <1>6. /\ totalCollateral' = SumOfCollateral' /\ totalDebt' = SumOfDebt'
        /\ totalCollateral' \in Uint /\ totalDebt' \in Uint
        /\ positions' \in [Addresses -> Positions]
    BY <1>1, <1>2, <1>3, <1>5, PositionStep
  <1>7. /\ collateralToken' \in [Addresses -> Uint] /\ Supply(collateralToken') <= MaxSupply
        /\ collateralToken'[Self] = collateralToken[Self] + amount
    <2> PICK b : b = collateralToken
      OBVIOUS
    <2>1. b \in [Addresses -> Uint] /\ b[sender] >= amount /\ Supply(b) <= MaxSupply
      BY <1>1, <1>2
    <2>2. /\ Transfer(b, sender, Self, amount) \in [Addresses -> Uint]
          /\ Supply(Transfer(b, sender, Self, amount)) <= MaxSupply
          /\ Transfer(b, sender, Self, amount)[Self]
                = b[Self] + (IF Self = Self THEN amount ELSE 0) - (IF sender = Self THEN amount ELSE 0)
      BY <1>1, <2>1, TransferShape
    <2> QED  BY <1>1, <1>2, <2>2
  <1>8. collateralToken'[Self] >= totalCollateral'
    BY <1>1, <1>2, <1>4, <1>7
  <1>9. stateVersion' \in 1..MaxVersion
    BY <1>2, VersionStep
  <1> QED  BY <1>2, <1>6, <1>7, <1>8, <1>9 DEF IInv, TypeOK, parameters

LEMMA BorrowKeeps ==
    ASSUME Finite, IInv, NEW sender \in Accounts, NEW amount \in Amounts,
           Borrow(sender, amount)
    PROVE  IInv' /\ debtToken'[Self] + totalDebt' >= debtToken[Self] + totalDebt
  <1> DEFINE p == [positions[sender] EXCEPT !.debtAmount = @ + amount]
  <1>1. /\ amount \in Nat /\ sender \in Addresses /\ sender # Self /\ Self \in Addresses
        /\ debtToken \in [Addresses -> Uint] /\ debtToken[Self] \in Nat
        /\ Supply(debtToken) <= MaxSupply
    BY Ranges
  <1>2. /\ debtToken[Self] >= amount /\ totalDebt + amount <= MaxUint
        /\ debtToken' = Transfer(debtToken, Self, sender, amount)
        /\ totalDebt' = totalDebt + amount /\ totalCollateral' = totalCollateral
        /\ positions' = [positions EXCEPT ![sender] = p]
        /\ AdvanceStateVersion
        /\ UNCHANGED <<parameters, collateralToken>>
    BY DEF Borrow, SetPosition
  <1>3. /\ p \in [collateralAmount: Nat, debtAmount: Nat]
        /\ p.collateralAmount = positions[sender].collateralAmount
        /\ p.debtAmount = positions[sender].debtAmount + amount
    BY <1>1, PositionParts
  <1>4. /\ totalCollateral \in Nat /\ totalDebt \in Nat /\ totalCollateral <= MaxUint
        /\ positions[sender].collateralAmount \in Nat /\ positions[sender].debtAmount \in Nat
    BY <1>1, PositionInTotal, PositionParts
  <1> HIDE DEF p
  <1>5. /\ totalCollateral' = totalCollateral - positions[sender].collateralAmount + p.collateralAmount
        /\ totalDebt' = totalDebt - positions[sender].debtAmount + p.debtAmount
        /\ totalCollateral' <= MaxUint /\ totalDebt' <= MaxUint
    BY <1>1, <1>2, <1>3, <1>4
  <1>6. /\ totalCollateral' = SumOfCollateral' /\ totalDebt' = SumOfDebt'
        /\ totalCollateral' \in Uint /\ totalDebt' \in Uint
        /\ positions' \in [Addresses -> Positions]
    BY <1>1, <1>2, <1>3, <1>5, PositionStep
  <1>7. /\ debtToken' \in [Addresses -> Uint] /\ Supply(debtToken') <= MaxSupply
        /\ debtToken'[Self] = debtToken[Self] - amount
    BY <1>1, <1>2, TransferShape
  <1>8. debtToken'[Self] + totalDebt' >= debtToken[Self] + totalDebt
    BY <1>1, <1>2, <1>4, <1>7
  <1>9. stateVersion' \in 1..MaxVersion
    BY <1>2, VersionStep
  <1> QED  BY <1>2, <1>6, <1>7, <1>8, <1>9 DEF IInv, TypeOK, parameters

LEMMA RepayKeeps ==
    ASSUME Finite, IInv, NEW sender \in Accounts, NEW amount \in Amounts,
           Repay(sender, amount)
    PROVE  /\ IInv' /\ debtToken'[Self] + totalDebt' >= debtToken[Self] + totalDebt
           /\ positions'[sender].debtAmount = positions[sender].debtAmount - amount
  <1> DEFINE p == [positions[sender] EXCEPT !.debtAmount = Wrap(@ - amount)]
  <1>1. /\ amount \in Nat /\ sender \in Addresses /\ sender # Self /\ Self \in Addresses
        /\ debtToken \in [Addresses -> Uint] /\ debtToken[Self] \in Nat
        /\ Supply(debtToken) <= MaxSupply
    BY Ranges
  <1>2. /\ amount <= positions[sender].debtAmount /\ debtToken[sender] >= amount
        /\ debtToken' = Transfer(debtToken, sender, Self, amount)
        /\ totalDebt' = Wrap(totalDebt - amount) /\ totalCollateral' = totalCollateral
        /\ positions' = [positions EXCEPT ![sender] = p]
        /\ AdvanceStateVersion
        /\ UNCHANGED <<parameters, collateralToken>>
    BY DEF Repay, SetPosition
  <1>3. /\ totalCollateral \in Nat /\ totalDebt \in Nat /\ totalCollateral <= MaxUint
        /\ totalDebt <= MaxUint /\ positions[sender].debtAmount <= totalDebt
        /\ positions[sender].collateralAmount \in Nat /\ positions[sender].debtAmount \in Nat
    BY <1>1, PositionInTotal, PositionParts
  <1>4. /\ Wrap(totalDebt - amount) = totalDebt - amount
        /\ Wrap(positions[sender].debtAmount - amount) = positions[sender].debtAmount - amount
    BY <1>1, <1>2, <1>3, NoWrap, MarketAssumption
  <1>5. /\ p \in [collateralAmount: Nat, debtAmount: Nat]
        /\ p.collateralAmount = positions[sender].collateralAmount
        /\ p.debtAmount = positions[sender].debtAmount - amount
    BY <1>1, <1>2, <1>3, <1>4, PositionParts
  <1> HIDE DEF p
  <1>6. /\ totalCollateral' = totalCollateral - positions[sender].collateralAmount + p.collateralAmount
        /\ totalDebt' = totalDebt - positions[sender].debtAmount + p.debtAmount
        /\ totalCollateral' <= MaxUint /\ totalDebt' <= MaxUint
    BY <1>1, <1>2, <1>3, <1>4, <1>5, MarketAssumption
  <1>7. /\ totalCollateral' = SumOfCollateral' /\ totalDebt' = SumOfDebt'
        /\ totalCollateral' \in Uint /\ totalDebt' \in Uint
        /\ positions' \in [Addresses -> Positions]
    BY <1>1, <1>2, <1>5, <1>6, PositionStep
  <1>8. /\ debtToken' \in [Addresses -> Uint] /\ Supply(debtToken') <= MaxSupply
        /\ debtToken'[Self] = debtToken[Self] + amount
    <2> PICK b : b = debtToken
      OBVIOUS
    <2>1. b \in [Addresses -> Uint] /\ b[sender] >= amount /\ Supply(b) <= MaxSupply
      BY <1>1, <1>2
    <2>2. /\ Transfer(b, sender, Self, amount) \in [Addresses -> Uint]
          /\ Supply(Transfer(b, sender, Self, amount)) <= MaxSupply
          /\ Transfer(b, sender, Self, amount)[Self]
                = b[Self] + (IF Self = Self THEN amount ELSE 0) - (IF sender = Self THEN amount ELSE 0)
      BY <1>1, <2>1, TransferShape
    <2> QED  BY <1>1, <1>2, <2>2
  <1>9. debtToken'[Self] + totalDebt' >= debtToken[Self] + totalDebt
    BY <1>1, <1>2, <1>3, <1>4, <1>8
  <1>10. stateVersion' \in 1..MaxVersion
    BY <1>2, VersionStep
  <1>11. positions'[sender].debtAmount = positions[sender].debtAmount - amount
    BY <1>1, <1>2, <1>5 DEF IInv, TypeOK
  <1> QED  BY <1>2, <1>7, <1>8, <1>9, <1>10, <1>11 DEF IInv, TypeOK, parameters

LEMMA WithdrawKeeps ==
    ASSUME Finite, IInv, NEW sender \in Accounts, NEW amount \in Amounts,
           WithdrawCollateral(sender, amount)
    PROVE  IInv'
  <1> DEFINE p == [positions[sender] EXCEPT !.collateralAmount = Wrap(@ - amount)]
  <1>1. /\ amount \in Nat /\ sender \in Addresses /\ sender # Self /\ Self \in Addresses
        /\ collateralToken \in [Addresses -> Uint] /\ collateralToken[Self] \in Nat
        /\ Supply(collateralToken) <= MaxSupply
        /\ collateralToken[Self] >= totalCollateral
    BY Ranges
  <1>2. /\ amount <= positions[sender].collateralAmount /\ collateralToken[Self] >= amount
        /\ collateralToken' = Transfer(collateralToken, Self, sender, amount)
        /\ totalCollateral' = Wrap(totalCollateral - amount) /\ totalDebt' = totalDebt
        /\ positions' = [positions EXCEPT ![sender] = p]
        /\ AdvanceStateVersion
        /\ UNCHANGED <<parameters, debtToken>>
    BY DEF WithdrawCollateral, SetPosition
  <1>3. /\ totalCollateral \in Nat /\ totalDebt \in Nat /\ totalCollateral <= MaxUint
        /\ totalDebt <= MaxUint /\ positions[sender].collateralAmount <= totalCollateral
        /\ positions[sender].collateralAmount \in Nat /\ positions[sender].debtAmount \in Nat
    BY <1>1, PositionInTotal, PositionParts
  <1>4. /\ Wrap(totalCollateral - amount) = totalCollateral - amount
        /\ Wrap(positions[sender].collateralAmount - amount)
              = positions[sender].collateralAmount - amount
    BY <1>1, <1>2, <1>3, NoWrap, MarketAssumption
  <1>5. /\ p \in [collateralAmount: Nat, debtAmount: Nat]
        /\ p.collateralAmount = positions[sender].collateralAmount - amount
        /\ p.debtAmount = positions[sender].debtAmount
    BY <1>1, <1>2, <1>3, <1>4, PositionParts
  <1> HIDE DEF p
  <1>6. /\ totalCollateral' = totalCollateral - positions[sender].collateralAmount + p.collateralAmount
        /\ totalDebt' = totalDebt - positions[sender].debtAmount + p.debtAmount
        /\ totalCollateral' <= MaxUint /\ totalDebt' <= MaxUint
    BY <1>1, <1>2, <1>3, <1>4, <1>5, MarketAssumption
  <1>7. /\ totalCollateral' = SumOfCollateral' /\ totalDebt' = SumOfDebt'
        /\ totalCollateral' \in Uint /\ totalDebt' \in Uint
        /\ positions' \in [Addresses -> Positions]
    BY <1>1, <1>2, <1>5, <1>6, PositionStep
  <1>8. /\ collateralToken' \in [Addresses -> Uint] /\ Supply(collateralToken') <= MaxSupply
        /\ collateralToken'[Self] = collateralToken[Self] - amount
    <2> PICK b : b = collateralToken
      OBVIOUS
    <2>1. b \in [Addresses -> Uint] /\ b[Self] >= amount /\ Supply(b) <= MaxSupply
      BY <1>1, <1>2
    <2>2. /\ Transfer(b, Self, sender, amount) \in [Addresses -> Uint]
          /\ Supply(Transfer(b, Self, sender, amount)) <= MaxSupply
          /\ Transfer(b, Self, sender, amount)[Self]
                = b[Self] + (IF sender = Self THEN amount ELSE 0) - (IF Self = Self THEN amount ELSE 0)
      BY <1>1, <2>1, TransferShape
    <2> QED  BY <1>1, <1>2, <2>2
  <1>9. collateralToken'[Self] >= totalCollateral'
    BY <1>1, <1>2, <1>3, <1>4, <1>8
  <1>10. stateVersion' \in 1..MaxVersion
    BY <1>2, VersionStep
  <1> QED  BY <1>2, <1>7, <1>8, <1>9, <1>10 DEF IInv, TypeOK, parameters

LEMMA SeedKeeps ==
    ASSUME Finite, IInv, NEW sender \in Accounts, NEW account \in Addresses,
           NEW collateral \in Amounts, NEW debt \in Amounts,
           SeedPosition(sender, account, collateral, debt)
    PROVE  IInv' /\ debtToken'[Self] + totalDebt' >= debtToken[Self] + totalDebt
  <1> DEFINE p == [collateralAmount |-> collateral, debtAmount |-> debt]
  <1>1. /\ collateral \in Nat /\ debt \in Nat /\ Self \in Addresses
        /\ collateralToken \in [Addresses -> Uint] /\ collateralToken[Self] \in Nat
        /\ collateralToken[Self] <= MaxUint
        /\ debtToken \in [Addresses -> Uint] /\ debtToken[Self] \in Nat
        /\ Supply(debtToken) <= MaxSupply
    BY Ranges
  <1>2. /\ positions[account] = NoPosition
        /\ collateralToken[Self] >= totalCollateral + collateral
        /\ debtToken[Self] >= debt /\ totalDebt + debt <= MaxUint
        /\ totalCollateral' = totalCollateral + collateral /\ totalDebt' = totalDebt + debt
        /\ debtToken' = Transfer(debtToken, Self, account, debt)
        /\ positions' = [positions EXCEPT ![account] = p]
        /\ AdvanceStateVersion
        /\ UNCHANGED <<parameters, collateralToken>>
    BY DEF SeedPosition, SetPosition
  <1>3. /\ totalCollateral \in Nat /\ totalDebt \in Nat
        /\ positions[account].collateralAmount = 0 /\ positions[account].debtAmount = 0
    BY <1>2, PositionInTotal DEF NoPosition
  <1>4. /\ p \in [collateralAmount: Nat, debtAmount: Nat]
        /\ p.collateralAmount = collateral /\ p.debtAmount = debt
    BY <1>1
  <1> HIDE DEF p
  <1>5. /\ totalCollateral' = totalCollateral - positions[account].collateralAmount + p.collateralAmount
        /\ totalDebt' = totalDebt - positions[account].debtAmount + p.debtAmount
        /\ totalCollateral' <= MaxUint /\ totalDebt' <= MaxUint
    BY <1>1, <1>2, <1>3, <1>4, MarketAssumption
  <1>6. /\ totalCollateral' = SumOfCollateral' /\ totalDebt' = SumOfDebt'
        /\ totalCollateral' \in Uint /\ totalDebt' \in Uint
        /\ positions' \in [Addresses -> Positions]
    BY <1>2, <1>4, <1>5, PositionStep
  <1>7. /\ debtToken' \in [Addresses -> Uint] /\ Supply(debtToken') <= MaxSupply
        /\ debtToken'[Self] = debtToken[Self] + (IF account = Self THEN debt ELSE 0) - debt
    BY <1>1, <1>2, TransferShape
  <1>8. debtToken'[Self] + totalDebt' >= debtToken[Self] + totalDebt
    BY <1>1, <1>2, <1>3, <1>7
  <1>9. stateVersion' \in 1..MaxVersion
    BY <1>2, VersionStep
  <1>10. collateralToken'[Self] >= totalCollateral'
    BY <1>2
  <1> QED  BY <1>2, <1>6, <1>7, <1>8, <1>9, <1>10 DEF IInv, TypeOK, parameters

LEMMA SettersKeep ==
    ASSUME IInv, NEW sender \in Accounts,
           \/ \E t \in Thresholds : SetLiquidationThresholdBps(sender, t)
           \/ \E p \in Prices : SetCollateralPriceUsdE18(sender, p)
           \/ \E a \in Addresses : TransferOwnership(sender, a)
    PROVE  IInv' /\ UNCHANGED <<positions, totalDebt, debtToken>>
  <1>1. UNCHANGED <<accounting, tokens>> /\ AdvanceStateVersion
    BY DEF SetLiquidationThresholdBps, SetCollateralPriceUsdE18, TransferOwnership
  <1>2. /\ owner' \in Addresses /\ liquidationThresholdBps' \in Thresholds
        /\ collateralPriceUsdE18' \in Prices
    BY DEF SetLiquidationThresholdBps, SetCollateralPriceUsdE18, TransferOwnership, IInv, TypeOK
  <1>3. /\ totalCollateral' = SumOfCollateral' /\ totalDebt' = SumOfDebt'
        /\ totalCollateral' \in Uint /\ totalDebt' \in Uint
        /\ positions' \in [Addresses -> Positions]
    BY <1>1, QuietAccounting
  <1>4. stateVersion' \in 1..MaxVersion
    BY <1>1, VersionStep
  <1> QED  BY <1>1, <1>2, <1>3, <1>4 DEF IInv, TypeOK, accounting, tokens

\* Moving or minting tokens never takes any from the market.
LEMMA TokensKeep ==
    ASSUME Finite, IInv,
           \/ \E sender \in Accounts, to \in Addresses, amount \in Amounts :
                 TokenTransfer(sender, to, amount)
           \/ \E to \in Addresses, amount \in Amounts : Mint(to, amount)
    PROVE  /\ IInv' /\ debtToken'[Self] + totalDebt' >= debtToken[Self] + totalDebt
           /\ UNCHANGED <<parameters, accounting, stateVersion>>
  <1> DEFINE Gains(b, c) == /\ c \in [Addresses -> Uint] /\ Supply(c) <= MaxSupply
                            /\ c[Self] >= b[Self]
  <1>1. /\ collateralToken \in [Addresses -> Uint] /\ debtToken \in [Addresses -> Uint]
        /\ Supply(collateralToken) <= MaxSupply /\ Supply(debtToken) <= MaxSupply
        /\ Self \in Addresses /\ totalDebt \in Nat
        /\ collateralToken[Self] \in Nat /\ debtToken[Self] \in Nat
        /\ collateralToken[Self] >= totalCollateral /\ totalCollateral \in Nat
    BY Ranges, PositionInTotal
  <1>2. /\ \A c : c = collateralToken => Gains(collateralToken, c)
        /\ \A c : c = debtToken => Gains(debtToken, c)
    BY <1>1
  <1>3. ASSUME NEW b \in [Addresses -> Uint], Supply(b) <= MaxSupply,
               NEW sender \in Accounts, NEW to \in Addresses, NEW amount \in Amounts,
               b[sender] >= amount
        PROVE  Gains(b, Transfer(b, sender, to, amount))
    <2>1. sender \in Addresses /\ sender # Self /\ amount \in Nat /\ b[Self] \in Nat
      BY Ranges, MarketAssumption DEF Uint
    <2>2. /\ Transfer(b, sender, to, amount) \in [Addresses -> Uint]
          /\ Supply(Transfer(b, sender, to, amount)) <= MaxSupply
          /\ Transfer(b, sender, to, amount)[Self] = b[Self] + (IF to = Self THEN amount ELSE 0)
                                                       - (IF sender = Self THEN amount ELSE 0)
      BY <1>3, <2>1, TransferShape
    <2> QED  BY <2>1, <2>2
  <1>4. ASSUME NEW b \in [Addresses -> Uint], NEW to \in Addresses, NEW amount \in Amounts,
               Supply(b) + amount <= MaxSupply
        PROVE  Gains(b, [b EXCEPT ![to] = @ + amount])
    <2> DEFINE c == [b EXCEPT ![to] = @ + amount]
    <2>1. amount \in Nat /\ b \in [Addresses -> Nat]
      BY Ranges, MarketAssumption DEF Uint
    <2>2. /\ c \in [Addresses -> Nat] /\ c[to] = b[to] + amount /\ b[to] \in Nat
          /\ \A y \in Addresses \ {to} : c[y] = b[y]
      BY <2>1
    <2>3. c[Self] >= b[Self]
      BY <1>1, <2>1
    <2> HIDE DEF c
    <2>4. Supply(c) = Supply(b) - b[to] + c[to] /\ Supply(b) \in Nat
      BY <2>1, <2>2, AddressesFinite, SumOfChange, SumOfParts
    <2>5. Supply(c) <= MaxSupply
      BY <1>4, <2>1, <2>2, <2>4
    <2>6. c \in [Addresses -> Uint]
      BY <2>2, <2>5, SupplyBounds
    <2> QED  BY <2>3, <2>5, <2>6 DEF c
  <1> HIDE DEF Gains
  <1>5. /\ Gains(collateralToken, collateralToken') /\ Gains(debtToken, debtToken')
        /\ UNCHANGED <<parameters, accounting, stateVersion>>
    BY <1>1, <1>2, <1>3, <1>4 DEF TokenTransfer, Mint
  <1>6. /\ totalCollateral' = SumOfCollateral' /\ totalDebt' = SumOfDebt'
        /\ totalCollateral' \in Uint /\ totalDebt' \in Uint
        /\ positions' \in [Addresses -> Positions]
    BY <1>5, QuietAccounting
  <1>7. /\ collateralToken' \in [Addresses -> Uint] /\ Supply(collateralToken') <= MaxSupply
        /\ debtToken' \in [Addresses -> Uint] /\ Supply(debtToken') <= MaxSupply
        /\ collateralToken'[Self] >= collateralToken[Self] /\ debtToken'[Self] >= debtToken[Self]
    BY <1>5 DEF Gains
  <1>8. collateralToken'[Self] \in Nat /\ debtToken'[Self] \in Nat
    BY <1>1, <1>7, MarketAssumption DEF Uint
  <1>9. /\ collateralToken'[Self] >= totalCollateral'
        /\ debtToken'[Self] + totalDebt' >= debtToken[Self] + totalDebt
    BY <1>1, <1>5, <1>7, <1>8 DEF accounting
  <1> QED  BY <1>5, <1>6, <1>7, <1>9 DEF IInv, TypeOK, parameters

(***************************************************************************)
(* Health                                                                  *)
(***************************************************************************)

LEMMA Quotients ==
    ASSUME NEW a \in Nat, NEW b \in Nat, NEW k \in Nat, a <= b, k > 0
    PROVE  a \div k <= b \div k /\ a \div k \in Nat /\ b \div k \in Nat
  OBVIOUS

LEMMA Divisors ==
    ASSUME NEW a \in Nat, NEW j \in Nat, NEW k \in Nat, j > 0, j <= k
    PROVE  a \div k <= a \div j
  OBVIOUS

LEMMA Products ==
    ASSUME NEW a \in Nat, NEW b \in Nat, NEW k \in Nat, a <= b
    PROVE  a * k <= b * k /\ a * k \in Nat /\ b * k \in Nat
  OBVIOUS

LEMMA AtLeastOne ==
    ASSUME NEW a \in Nat, NEW k \in Nat, k > 0, k <= a
    PROVE  a \div k >= 1
  OBVIOUS

LEMMA ZeroQuotient ==
    ASSUME NEW k \in Nat, k > 0
    PROVE  0 \div k = 0
  OBVIOUS

\* A debt is worth something: debt tokens have at most 18 decimals.
LEMMA DebtHasValue ==
    ASSUME NEW p \in [collateralAmount: Nat, debtAmount: Nat], p.debtAmount > 0
    PROVE  DebtValue(p) \in Nat /\ DebtValue(p) >= 1
  <1>1. /\ WAD \in Nat /\ DebtScale \in Nat /\ DebtScale > 0 /\ DebtScale <= WAD
        /\ p.debtAmount \in Nat
    BY MarketAssumption
  <1>2. 1 * WAD <= p.debtAmount * WAD /\ p.debtAmount * WAD \in Nat
    BY <1>1, Products
  <1>3. DebtScale <= p.debtAmount * WAD
    BY <1>1, <1>2
  <1> QED  BY <1>1, <1>2, <1>3, AtLeastOne, Quotients DEF DebtValue

\* More collateral and less debt never make a healthy position unhealthy, whatever the
\* three divisions round away.
LEMMA HealthGrows ==
    ASSUME NEW p \in [collateralAmount: Nat, debtAmount: Nat],
           NEW q \in [collateralAmount: Nat, debtAmount: Nat],
           NEW threshold \in Nat, NEW price \in Nat,
           p.collateralAmount <= q.collateralAmount, q.debtAmount <= p.debtAmount,
           HealthFits(p, threshold, price), HealthFactor(p, threshold, price) >= WAD
    PROVE  HealthFactor(q, threshold, price) >= WAD
  <1>1. /\ WAD \in Nat /\ WAD > 0 /\ BPS \in Nat /\ BPS > 0 /\ MaxUint \in Nat
        /\ CollateralScale \in Nat /\ CollateralScale > 0 /\ DebtScale \in Nat /\ DebtScale > 0
        /\ p.collateralAmount \in Nat /\ p.debtAmount \in Nat
        /\ q.collateralAmount \in Nat /\ q.debtAmount \in Nat
    BY MarketAssumption
  <1>2. /\ CollateralValue(p, price) \in Nat /\ CollateralValue(q, price) \in Nat
        /\ CollateralValue(p, price) <= CollateralValue(q, price)
    BY <1>1, Products, Quotients DEF CollateralValue
  <1>3. /\ Adjusted(p, threshold, price) \in Nat /\ Adjusted(q, threshold, price) \in Nat
        /\ Adjusted(p, threshold, price) <= Adjusted(q, threshold, price)
    BY <1>1, <1>2, Products, Quotients DEF Adjusted
  <1> DEFINE u == Adjusted(p, threshold, price) * WAD
             v == Adjusted(q, threshold, price) * WAD
  <1>4. u \in Nat /\ v \in Nat /\ u <= v
    BY <1>1, <1>3, Products
  <1>5. CASE p.debtAmount = 0
    BY <1>1, <1>5 DEF HealthFactor
  <1>6. CASE p.debtAmount > 0 /\ q.debtAmount = 0
    <2>1. u <= MaxUint
      BY <1>6 DEF HealthFits
    <2>2. DebtValue(p) \in Nat /\ DebtValue(p) >= 1 /\ u \div DebtValue(p) >= WAD
      BY <1>6, DebtHasValue DEF HealthFactor
    <2>3. u \div DebtValue(p) <= u
      <3> PICK d \in Nat : d = DebtValue(p)
        BY <2>2
      <3> HIDE DEF u
      <3>1. u \div d <= u \div 1
        BY <1>4, <2>2, Divisors
      <3>2. u \div 1 = u
        BY <1>4
      <3> QED  BY <3>1, <3>2
    <2>4. u \div DebtValue(p) \in Nat
      BY <1>4, <2>2, Quotients
    <2> HIDE DEF u
    <2>5. MaxUint >= WAD
      BY <1>1, <1>4, <2>1, <2>2, <2>3, <2>4
    <2> QED  BY <1>6, <2>5 DEF HealthFactor
  <1>7. CASE p.debtAmount > 0 /\ q.debtAmount > 0
    <2>1. /\ DebtValue(p) \in Nat /\ DebtValue(p) >= 1
          /\ DebtValue(q) \in Nat /\ DebtValue(q) >= 1
      BY <1>7, DebtHasValue
    <2>2. DebtValue(q) <= DebtValue(p)
      BY <1>1, Products, Quotients DEF DebtValue
    <2>3. u \div DebtValue(p) >= WAD
      BY <1>7 DEF HealthFactor
    <2> HIDE DEF u, v
    <2>4. u \div DebtValue(p) <= u \div DebtValue(q)
      BY <1>4, <2>1, <2>2, Divisors
    <2>5. u \div DebtValue(q) <= v \div DebtValue(q)
      BY <1>4, <2>1, Quotients
    <2>6. /\ u \div DebtValue(p) \in Nat /\ u \div DebtValue(q) \in Nat
          /\ v \div DebtValue(q) \in Nat
      BY <1>4, <2>1, Quotients
    <2>7. v \div DebtValue(q) >= WAD
      BY <1>1, <2>3, <2>4, <2>5, <2>6
    <2> QED  BY <1>1, <1>7, <2>7 DEF HealthFactor, v
  <1> QED  BY <1>1, <1>5, <1>6, <1>7

\* A step that leaves the parameters as they are and moves one position to one that
\* is healthy, or has no less collateral and no more debt.
LEMMA StaysHealthy ==
    ASSUME IInv, NEW x \in Addresses, NEW p,
           positions' = [positions EXCEPT ![x] = p],
           UNCHANGED <<liquidationThresholdBps, collateralPriceUsdE18>>,
           \/ Health(p) >= WAD
           \/ /\ p \in [collateralAmount: Nat, debtAmount: Nat]
              /\ positions[x].collateralAmount <= p.collateralAmount
              /\ p.debtAmount <= positions[x].debtAmount,
           NEW a \in Addresses, Fits(positions[a]), Health(positions[a]) >= WAD
    PROVE  (Health(positions[a]) >= WAD)'
  <1>1. positions \in [Addresses -> Positions]
    BY DEF IInv, TypeOK
  <1>2. /\ liquidationThresholdBps' = liquidationThresholdBps
        /\ collateralPriceUsdE18' = collateralPriceUsdE18
        /\ liquidationThresholdBps \in Nat /\ collateralPriceUsdE18 \in Nat
    BY MarketAssumption DEF IInv, TypeOK
  <1>3. Health(positions[a])'
           = HealthFactor(positions'[a], liquidationThresholdBps, collateralPriceUsdE18)
    BY <1>2 DEF Health
  <1>4. CASE a # x
    BY <1>1, <1>3, <1>4 DEF Health
  <1>5. CASE a = x
    <2>1. positions'[a] = p
      BY <1>1, <1>5
    <2>2. CASE Health(p) >= WAD
      BY <1>3, <2>1, <2>2 DEF Health
    <2>3. CASE /\ p \in [collateralAmount: Nat, debtAmount: Nat]
               /\ positions[x].collateralAmount <= p.collateralAmount
               /\ p.debtAmount <= positions[x].debtAmount
      <3>1. positions[a] \in [collateralAmount: Nat, debtAmount: Nat]
        BY PositionParts
      <3>2. HealthFactor(p, liquidationThresholdBps, collateralPriceUsdE18) >= WAD
        BY <1>2, <1>5, <2>3, <3>1, HealthGrows DEF Health, Fits
      <3> QED  BY <1>3, <2>1, <3>2
    <2> QED  BY <2>2, <2>3
  <1> QED  BY <1>4, <1>5

(***************************************************************************)
(* The theorems                                                            *)
(***************************************************************************)

LEMMA InitIInv ==
    ASSUME Finite, Init
    PROVE  IInv
  <1>1. IsFiniteSet(Addresses) /\ Self \in Addresses /\ 0 \in Uint
    BY AddressesFinite, MarketAssumption DEF Addresses, Uint
  <1>2. positions \in [Addresses -> Positions] /\ \A a \in Addresses : positions[a] = NoPosition
    BY <1>1 DEF Init, Positions, NoPosition
  <1>3. /\ CollateralAmounts \in [Addresses -> Nat] /\ DebtAmounts \in [Addresses -> Nat]
        /\ \A a \in Addresses : CollateralAmounts[a] = 0 /\ DebtAmounts[a] = 0
    BY <1>2 DEF CollateralAmounts, DebtAmounts, NoPosition
  <1>4. Supply(CollateralAmounts) = CollateralAmounts[Self] /\ Supply(DebtAmounts) = DebtAmounts[Self]
    BY <1>1, <1>3, SumOfZeros
  <1>5. /\ collateralToken \in [Addresses -> Nat] /\ debtToken \in [Addresses -> Nat]
        /\ collateralToken[Self] \in 0..MaxSupply /\ debtToken[Self] \in 0..MaxSupply
        /\ \A a \in Addresses \ {Self} : collateralToken[a] = 0 /\ debtToken[a] = 0
    BY <1>1, MarketAssumption DEF Init, Addresses
  <1>6. Supply(collateralToken) = collateralToken[Self] /\ Supply(debtToken) = debtToken[Self]
    BY <1>1, <1>5, SumOfZeros
  <1>7. collateralToken \in [Addresses -> Uint] /\ debtToken \in [Addresses -> Uint]
    BY <1>5, <1>6, SupplyBounds
  <1>8. /\ owner \in Addresses /\ liquidationThresholdBps \in Thresholds
        /\ collateralPriceUsdE18 \in Prices /\ stateVersion \in 1..MaxVersion
        /\ totalCollateral = 0 /\ totalDebt = 0
    BY MarketAssumption DEF Init, Addresses
  <1> QED  BY <1>1, <1>2, <1>3, <1>4, <1>5, <1>6, <1>7, <1>8
           DEF IInv, TypeOK, SumOfCollateral, SumOfDebt

\* One step of Next, by what it does.
LEMMA Steps ==
    ASSUME Next
    PROVE  \/ \E sender \in Accounts, amount \in Amounts :
                 \/ DepositCollateral(sender, amount) \/ Borrow(sender, amount)
                 \/ Repay(sender, amount) \/ WithdrawCollateral(sender, amount)
           \/ \E sender \in Accounts, account \in Addresses, collateral, debt \in Amounts :
                 SeedPosition(sender, account, collateral, debt)
           \/ \E sender \in Accounts :
                 \/ \E t \in Thresholds : SetLiquidationThresholdBps(sender, t)
                 \/ \E p \in Prices : SetCollateralPriceUsdE18(sender, p)
                 \/ \E a \in Addresses : TransferOwnership(sender, a)
           \/ \/ \E sender \in Accounts, to \in Addresses, amount \in Amounts :
                    TokenTransfer(sender, to, amount)
              \/ \E to \in Addresses, amount \in Amounts : Mint(to, amount)
  BY DEF Next, UserStep, OwnerStep

LEMMA NextKeeps ==
    ASSUME Finite, IInv, Next
    PROVE  IInv' /\ debtToken'[Self] + totalDebt' >= debtToken[Self] + totalDebt
  <1>1. debtToken[Self] \in Nat /\ totalDebt \in Nat
    BY Ranges, PositionInTotal
  <1>2. ASSUME NEW sender \in Accounts, NEW amount \in Amounts,
               DepositCollateral(sender, amount) \/ WithdrawCollateral(sender, amount)
        PROVE  IInv' /\ debtToken'[Self] + totalDebt' >= debtToken[Self] + totalDebt
    <2>1. UNCHANGED <<totalDebt, debtToken>>
      BY <1>2 DEF DepositCollateral, WithdrawCollateral
    <2> QED  BY <1>1, <1>2, <2>1, DepositKeeps, WithdrawKeeps
  <1>3. ASSUME NEW sender \in Accounts,
               \/ \E t \in Thresholds : SetLiquidationThresholdBps(sender, t)
               \/ \E p \in Prices : SetCollateralPriceUsdE18(sender, p)
               \/ \E a \in Addresses : TransferOwnership(sender, a)
        PROVE  IInv' /\ debtToken'[Self] + totalDebt' >= debtToken[Self] + totalDebt
    BY <1>1, <1>3, SettersKeep
  <1> QED  BY <1>2, <1>3, Steps, BorrowKeeps, RepayKeeps, SeedKeeps, TokensKeep

LEMMA StutterKeeps ==
    ASSUME IInv, UNCHANGED vars
    PROVE  IInv'
  <1>1. UNCHANGED accounting /\ UNCHANGED <<parameters, tokens, stateVersion>>
    BY DEF vars
  <1>2. /\ totalCollateral' = SumOfCollateral' /\ totalDebt' = SumOfDebt'
        /\ totalCollateral' \in Uint /\ totalDebt' \in Uint
        /\ positions' \in [Addresses -> Positions]
    BY <1>1, QuietAccounting
  <1> QED  BY <1>1, <1>2 DEF IInv, TypeOK, accounting, parameters, tokens

\* Every reachable state of the market satisfies the invariant.
THEOREM Invariance ==
    ASSUME Finite
    PROVE  Spec => []IInv
  <1>1. Init => IInv
    BY InitIInv
  <1>2. IInv /\ [Next]_vars => IInv'
    BY NextKeeps, StutterKeeps
  <1> QED  BY <1>1, <1>2, PTL DEF Spec

\* Every amount of market and tokens stays in its width, none wraps.
THEOREM TypeCorrect ==
    ASSUME Finite
    PROVE  Spec => []TypeOK
  <1>1. IInv => TypeOK
    BY DEF IInv
  <1> QED  BY <1>1, Invariance, PTL

\* Whatever is transferred, seeded, borrowed or withdrawn, by whom and in whatever
\* order, the totals are the sums of the positions and the collateral is there.
THEOREM CollateralBacked ==
    ASSUME Finite
    PROVE  Spec => []CollateralIsBacked
  <1>1. IInv => CollateralIsBacked
    <2> SUFFICES ASSUME IInv PROVE CollateralIsBacked
      OBVIOUS
    <2>1. totalCollateral = SumOfCollateral /\ totalDebt = SumOfDebt
      BY DEF IInv
    <2>2. TotalsAreSums
      BY <2>1, Zenon DEF TotalsAreSums, SumOfCollateral, SumOfDebt, Supply,
                         CollateralAmounts, DebtAmounts
    <2> QED  BY <2>2 DEF CollateralIsBacked, IInv
  <1> QED  BY <1>1, Invariance, PTL

\* No step takes debt tokens out of the market without recording a debt, and none
\* deletes a debt unpaid.
THEOREM LentStaysOwed ==
    ASSUME Finite
    PROVE  Spec => LentIsOwed
  <1>1. IInv /\ [Next]_vars => [debtToken'[Self] + totalDebt' >= debtToken[Self] + totalDebt]_vars
    BY NextKeeps
  <1> QED  BY <1>1, Invariance, PTL DEF Spec, LentIsOwed

HurtOnlyByParameters ==
    \A a \in Addresses :
        /\ Fits(positions[a]) /\ Health(positions[a]) >= WAD
        /\ ~(Health(positions[a]) >= WAD)'
        => \/ collateralPriceUsdE18' # collateralPriceUsdE18
           \/ liquidationThresholdBps' # liquidationThresholdBps

LEMMA StepHurtsNobody ==
    ASSUME Finite, IInv, Next
    PROVE  HurtOnlyByParameters
  <1> SUFFICES ASSUME NEW a \in Addresses, Fits(positions[a]), Health(positions[a]) >= WAD,
                      UNCHANGED <<liquidationThresholdBps, collateralPriceUsdE18>>
               PROVE  (Health(positions[a]) >= WAD)'
    BY DEF HurtOnlyByParameters
  <1>1. ASSUME NEW sender \in Accounts, NEW amount \in Amounts, DepositCollateral(sender, amount)
        PROVE  (Health(positions[a]) >= WAD)'
    <2> DEFINE p == [positions[sender] EXCEPT !.collateralAmount = @ + amount]
    <2>1. positions' = [positions EXCEPT ![sender] = p]
      BY <1>1 DEF DepositCollateral, SetPosition
    <2>2. amount \in Nat /\ sender \in Addresses
      BY Ranges
    <2>3. /\ p \in [collateralAmount: Nat, debtAmount: Nat]
          /\ positions[sender].collateralAmount <= p.collateralAmount
          /\ p.debtAmount <= positions[sender].debtAmount
      BY <2>2, PositionParts
    <2> HIDE DEF p
    <2> QED  BY <2>1, <2>2, <2>3, StaysHealthy
  <1>2. ASSUME NEW sender \in Accounts, NEW amount \in Amounts, Borrow(sender, amount)
        PROVE  (Health(positions[a]) >= WAD)'
    <2> DEFINE p == [positions[sender] EXCEPT !.debtAmount = @ + amount]
    <2>1. positions' = [positions EXCEPT ![sender] = p] /\ Health(p) >= WAD
      BY <1>2 DEF Borrow, SetPosition, Healthy
    <2> HIDE DEF p
    <2> QED  BY <2>1, Ranges, StaysHealthy
  <1>3. ASSUME NEW sender \in Accounts, NEW amount \in Amounts, Repay(sender, amount)
        PROVE  (Health(positions[a]) >= WAD)'
    <2> DEFINE p == [positions[sender] EXCEPT !.debtAmount = Wrap(@ - amount)]
    <2>1. positions' = [positions EXCEPT ![sender] = p] /\ amount <= positions[sender].debtAmount
      BY <1>3 DEF Repay, SetPosition
    <2>2. amount \in Nat /\ sender \in Addresses
      BY Ranges
    <2>3. /\ positions[sender] \in [collateralAmount: Nat, debtAmount: Nat]
          /\ positions[sender].debtAmount \in Nat /\ positions[sender].debtAmount <= MaxUint
          /\ positions[sender].collateralAmount \in Nat
      BY <2>2, PositionParts, MarketAssumption DEF IInv, TypeOK, Positions, Uint
    <2>4. Wrap(positions[sender].debtAmount - amount) = positions[sender].debtAmount - amount
      BY <2>1, <2>2, <2>3, NoWrap, MarketAssumption
    <2>5. /\ p \in [collateralAmount: Nat, debtAmount: Nat]
          /\ positions[sender].collateralAmount <= p.collateralAmount
          /\ p.debtAmount <= positions[sender].debtAmount
      BY <2>1, <2>2, <2>3, <2>4
    <2> HIDE DEF p
    <2> QED  BY <2>1, <2>2, <2>5, StaysHealthy
  <1>4. ASSUME NEW sender \in Accounts, NEW amount \in Amounts, WithdrawCollateral(sender, amount)
        PROVE  (Health(positions[a]) >= WAD)'
    <2> DEFINE p == [positions[sender] EXCEPT !.collateralAmount = Wrap(@ - amount)]
    <2>1. positions' = [positions EXCEPT ![sender] = p] /\ Health(p) >= WAD
      BY <1>4 DEF WithdrawCollateral, SetPosition, Healthy
    <2> HIDE DEF p
    <2> QED  BY <2>1, Ranges, StaysHealthy
  <1>5. ASSUME NEW sender \in Accounts, NEW account \in Addresses,
               NEW collateral \in Amounts, NEW debt \in Amounts,
               SeedPosition(sender, account, collateral, debt)
        PROVE  (Health(positions[a]) >= WAD)'
    <2> DEFINE p == [collateralAmount |-> collateral, debtAmount |-> debt]
    <2>1. positions' = [positions EXCEPT ![account] = p] /\ Health(p) >= WAD
      BY <1>5 DEF SeedPosition, SetPosition, Healthy
    <2> HIDE DEF p
    <2> QED  BY <2>1, StaysHealthy
  <1>6. ASSUME UNCHANGED positions
        PROVE  (Health(positions[a]) >= WAD)'
    BY <1>6 DEF Health
  <1>7. ASSUME NEW sender \in Accounts,
               \/ \E t \in Thresholds : SetLiquidationThresholdBps(sender, t)
               \/ \E p \in Prices : SetCollateralPriceUsdE18(sender, p)
               \/ \E x \in Addresses : TransferOwnership(sender, x)
        PROVE  UNCHANGED positions
    BY <1>7, SettersKeep
  <1>8. ASSUME \/ \E sender \in Accounts, to \in Addresses, amount \in Amounts :
                     TokenTransfer(sender, to, amount)
               \/ \E to \in Addresses, amount \in Amounts : Mint(to, amount)
        PROVE  UNCHANGED positions
    BY <1>8, TokensKeep DEF accounting
  <1> QED  BY <1>1, <1>2, <1>3, <1>4, <1>5, <1>6, <1>7, <1>8, Steps

\* A healthy position becomes unhealthy only by the owner's price or threshold.
THEOREM HurtByParametersOnly ==
    ASSUME Finite
    PROVE  Spec => OnlyParametersHurt
  <1>1. IInv /\ [Next]_vars => [HurtOnlyByParameters]_vars
    BY StepHurtsNobody
  <1>2. [HurtOnlyByParameters]_vars
        <=> [\A a \in Addresses :
                /\ Fits(positions[a]) /\ Health(positions[a]) >= WAD
                /\ ~(Health(positions[a]) >= WAD)'
                => \/ collateralPriceUsdE18' # collateralPriceUsdE18
                   \/ liquidationThresholdBps' # liquidationThresholdBps]_vars
    BY DEF HurtOnlyByParameters
  <1> QED  BY <1>1, <1>2, Invariance, PTL DEF Spec, OnlyParametersHurt

\* Every change of what the market records takes the next version.
THEOREM ChangesAreVersioned == Spec => EveryChangeIsVersioned
  <1>1. Next => (<<parameters, accounting>>' # <<parameters, accounting>>
                 => stateVersion' = stateVersion + 1)
    BY DEF Next, UserStep, OwnerStep, DepositCollateral, Borrow, Repay, WithdrawCollateral,
           TokenTransfer, SeedPosition, SetLiquidationThresholdBps, SetCollateralPriceUsdE18,
           TransferOwnership, Mint, AdvanceStateVersion, accounting, parameters
  <1> QED  BY <1>1, PTL DEF Spec, EveryChangeIsVersioned

\* The market behind its index is the market.
THEOREM IndexedMarketIsMarket == IndexSpec => Spec
  <1>1. IndexInit => Init
    BY DEF IndexInit
  <1>2. [Transaction \/ FirstBlock]_allVars => [Next]_vars
    BY DEF Transaction, FirstBlock, allVars, vars
  <1> QED  BY <1>1, <1>2, PTL DEF IndexSpec, Spec

(***************************************************************************)
(* Indexing a block                                                        *)
(*                                                                         *)
(* IndexLogs folds the handlers over the logs; FoldLeft too is a recursion *)
(* over subsets, of the positions of a sequence.                           *)
(***************************************************************************)

LEMMA MaxOfSet ==
    ASSUME NEW n \in Nat, NEW s \in SUBSET (1..n), s # {}
    PROVE  Max(s) \in s /\ \A y \in s : y <= Max(s)
  <1> DEFINE T == {n - y : y \in s}
  <1>0. \A y \in s : y \in 1..n /\ n - y \in Nat
    OBVIOUS
  <1>1. T \in SUBSET Nat /\ T # {}
    <2>1. T \in SUBSET Nat
      BY <1>0
    <2>2. PICK y \in s : TRUE
      OBVIOUS
    <2>3. n - y \in T
      BY <2>2
    <2> QED  BY <2>1, <2>3
  <1>2. PICK m \in T : \A k \in T : m <= k
    BY <1>1, SmallestInSet
  <1>3. PICK x \in s : m = n - x
    BY <1>2
  <1>4. \A y \in s : x >= y
    <2> SUFFICES ASSUME NEW y \in s PROVE x >= y
      OBVIOUS
    <2>1. n - y \in T
      OBVIOUS
    <2>2. n - x <= n - y
      BY <1>2, <1>3, <2>1
    <2> QED  BY <2>2
  <1>5. Max(s) \in s /\ \A y \in s : Max(s) >= y
    BY <1>4 DEF Max
  <1> QED  BY <1>5

LEMMA MaxOfInterval ==
    ASSUME NEW k \in Nat, k > 0
    PROVE  Max(1..k) = k
  <1>1. 1..k \in SUBSET (1..k) /\ 1..k # {} /\ k \in 1..k
    OBVIOUS
  <1>2. PICK m : m = Max(1..k)
    OBVIOUS
  <1>3. m \in 1..k /\ k <= m
    BY <1>1, <1>2, MaxOfSet
  <1> QED  BY <1>2, <1>3

Indexes(g, i, block, final) ==
    g = [s \in SUBSET DOMAIN block |->
            IF s = {} THEN i
            ELSE LET x == Max(s) IN Handle(g[s \ {x}], block[x], final)]

IndexesUpTo(h, n, i, block, final) ==
    h = [s \in {s \in SUBSET DOMAIN block : Cardinality(s) <= n} |->
            IF s = {} THEN i
            ELSE LET x == Max(s) IN Handle(h[s \ {x}], block[x], final)]

LEMMA IndexLogsIsRecursion ==
    ASSUME NEW i, NEW block, NEW final
    PROVE  IndexLogs(i, block, final)
              = (CHOOSE g : Indexes(g, i, block, final))[DOMAIN block]
  BY DEF IndexLogs, FoldLeft, MapThenFoldSet, Indexes

LEMMA IndexesExist ==
    ASSUME NEW i, NEW n \in Nat, NEW block, DOMAIN block = 1..n, NEW final
    PROVE  \E g : Indexes(g, i, block, final)
  <1> DEFINE D(k) == {s \in SUBSET DOMAIN block : Cardinality(s) <= k}
             T == {k \in Nat : ~\E h : IndexesUpTo(h, k, i, block, final)}
  <1>1. /\ IsFiniteSet(1..n)
        /\ \A s \in SUBSET DOMAIN block :
              IsFiniteSet(s) /\ Cardinality(s) \in Nat /\ (Cardinality(s) = 0 => s = {})
    <2>1. IsFiniteSet(1..n)
      BY FS_Interval
    <2>2. ASSUME NEW s \in SUBSET DOMAIN block
          PROVE  IsFiniteSet(s) /\ Cardinality(s) \in Nat /\ (Cardinality(s) = 0 => s = {})
      <3>1. IsFiniteSet(s)
        BY <2>1, FS_Subset
      <3> QED  BY <3>1, FS_CardinalityType, FS_EmptySet
    <2> QED  BY <2>1, <2>2
  <1>2. T = {}
    <2> SUFFICES ASSUME T # {} PROVE FALSE
      OBVIOUS
    <2>1. PICK k \in T : \A m \in T : k <= m
      BY SmallestInSet
    <2>2. \E h : IndexesUpTo(h, k, i, block, final)
      <3>1. CASE k = 0
        <4> DEFINE h == [s \in D(k) |-> i]
        <4>1. \A s \in D(k) : s = {}
          BY <1>1, <3>1
        <4>2. h = [s \in D(k) |-> IF s = {} THEN i
                                  ELSE LET x == Max(s) IN Handle(h[s \ {x}], block[x], final)]
          BY <4>1
        <4> QED  BY <4>2 DEF IndexesUpTo
      <3>2. CASE k > 0
        <4>1. k - 1 \in Nat /\ k - 1 \notin T
          BY <2>1, <3>2
        <4>2. PICK h : IndexesUpTo(h, k - 1, i, block, final)
          BY <4>1
        <4> DEFINE j == [s \in D(k) |-> IF s = {} THEN i
                                        ELSE LET x == Max(s) IN Handle(h[s \ {x}], block[x], final)]
        <4>3. \A s \in D(k - 1) : j[s] = h[s]
          <5> SUFFICES ASSUME NEW s \in D(k - 1) PROVE j[s] = h[s]
            OBVIOUS
          <5>1. s \in D(k)
            BY <1>1, <2>1
          <5> QED  BY <4>2, <5>1 DEF IndexesUpTo
        <4>4. ASSUME NEW s \in D(k), s # {}
              PROVE  Max(s) \in s /\ s \ {Max(s)} \in D(k - 1)
          <5>1. Max(s) \in s
            BY <4>4, MaxOfSet
          <5>2. PICK x \in s : x = Max(s)
            BY <5>1
          <5>3. Cardinality(s \ {x}) \in Nat /\ Cardinality(s \ {x}) < Cardinality(s)
            BY <1>1, SubsetLess
          <5> QED  BY <1>1, <2>1, <3>2, <5>2, <5>3
        <4>5. ASSUME NEW s \in D(k)
              PROVE  j[s] = IF s = {} THEN i
                            ELSE LET x == Max(s) IN Handle(j[s \ {x}], block[x], final)
          <5>1. CASE s = {}
            BY <5>1
          <5>2. CASE s # {}
            <6>1. j[s] = Handle(h[s \ {Max(s)}], block[Max(s)], final)
              BY <5>2
            <6>2. h[s \ {Max(s)}] = j[s \ {Max(s)}]
              BY <4>3, <4>4, <5>2
            <6> HIDE DEF j
            <6> QED  BY <5>2, <6>1, <6>2
          <5> QED  BY <5>1, <5>2
        <4>6. j = [s \in D(k) |-> IF s = {} THEN i
                                  ELSE LET x == Max(s) IN Handle(j[s \ {x}], block[x], final)]
          BY <4>5
        <4> QED  BY <4>6 DEF IndexesUpTo
      <3> QED  BY <2>1, <3>1, <3>2
    <2> QED  BY <2>1, <2>2
  <1>3. Cardinality(DOMAIN block) \in Nat
    BY <1>1
  <1>4. PICK h : IndexesUpTo(h, Cardinality(DOMAIN block), i, block, final)
    BY <1>2, <1>3
  <1>5. D(Cardinality(DOMAIN block)) = SUBSET DOMAIN block
    BY <1>1, FS_Subset
  <1> QED  BY <1>4, <1>5 DEF IndexesUpTo, Indexes

\* The index after each of the logs of a block, in order.
IsRun(r, i, block, final) ==
    /\ DOMAIN r = 0..Len(block) /\ r[0] = i
    /\ \A k \in 1..Len(block) : r[k] = Handle(r[k - 1], block[k], final)

LEMMA RunExists ==
    ASSUME NEW S, NEW block \in Seq(S), NEW i, NEW final
    PROVE  \E r : IsRun(r, i, block, final) /\ IndexLogs(i, block, final) = r[Len(block)]
  <1> DEFINE n == Len(block)
             g == CHOOSE g : Indexes(g, i, block, final)
             r == [k \in 0..n |-> g[1..k]]
  <1>1. n \in Nat /\ DOMAIN block = 1..n
    OBVIOUS
  <1>2. Indexes(g, i, block, final)
    BY <1>1, IndexesExist
  <1>3. IndexLogs(i, block, final) = g[1..n]
    BY <1>1, IndexLogsIsRecursion
  <1> HIDE DEF g
  <1>4. r[0] = i
    <2>1. 1..0 = {} /\ {} \in SUBSET DOMAIN block
      OBVIOUS
    <2>2. g[{}] = i
      BY <1>2, <2>1 DEF Indexes
    <2> QED  BY <1>1, <2>1, <2>2
  <1>5. ASSUME NEW k \in 1..n
        PROVE  r[k] = Handle(r[k - 1], block[k], final)
    <2>1. 1..k \in SUBSET DOMAIN block /\ 1..k # {} /\ (1..k) \ {k} = 1..(k - 1)
      BY <1>1
    <2>2. Max(1..k) = k
      BY <1>1, MaxOfInterval
    <2>3. g[1..k] = LET x == Max(1..k) IN Handle(g[(1..k) \ {x}], block[x], final)
      BY <1>2, <2>1 DEF Indexes
    <2>4. g[1..k] = Handle(g[1..(k - 1)], block[k], final)
      BY <2>1, <2>2, <2>3
    <2> QED  BY <1>1, <2>4
  <1>6. r[n] = g[1..n]
    BY <1>1
  <1>7. DOMAIN r = 0..n
    OBVIOUS
  <1> HIDE DEF r
  <1> QED  BY <1>3, <1>4, <1>5, <1>6, <1>7 DEF IsRun

LEMMA RunsAgree ==
    ASSUME NEW S, NEW block \in Seq(S), NEW i, NEW final, NEW r, NEW q,
           IsRun(r, i, block, final), IsRun(q, i, block, final)
    PROVE  \A k \in 0..Len(block) : r[k] = q[k]
  <1> DEFINE T == {k \in 0..Len(block) : r[k] # q[k]}
  <1> SUFFICES ASSUME T # {} PROVE FALSE
    OBVIOUS
  <1>1. T \in SUBSET Nat
    OBVIOUS
  <1>2. PICK k \in T : \A m \in T : k <= m
    BY <1>1, SmallestInSet
  <1>3. k # 0
    BY <1>2 DEF IsRun
  <1>4. k - 1 \in 0..Len(block) /\ k - 1 \notin T /\ k \in 1..Len(block)
    BY <1>1, <1>2, <1>3
  <1>5. r[k - 1] = q[k - 1]
    BY <1>4
  <1> QED  BY <1>2, <1>4, <1>5 DEF IsRun

LEMMA IndexLogsIsRun ==
    ASSUME NEW S, NEW block \in Seq(S), NEW i, NEW final, NEW r, IsRun(r, i, block, final)
    PROVE  IndexLogs(i, block, final) = r[Len(block)]
  <1>1. PICK q : IsRun(q, i, block, final) /\ IndexLogs(i, block, final) = q[Len(block)]
    BY RunExists
  <1>2. Len(block) \in 0..Len(block)
    OBVIOUS
  <1> QED  BY <1>1, <1>2, RunsAgree

\* Nothing, one log, and one block after another.
LEMMA IndexNothing ==
    ASSUME NEW i, NEW final
    PROVE  IndexLogs(i, << >>, final) = i
  <1>1. << >> \in Seq({}) /\ Len(<< >>) = 0
    OBVIOUS
  <1>2. PICK r : IsRun(r, i, << >>, final) /\ IndexLogs(i, << >>, final) = r[Len(<< >>)]
    BY <1>1, RunExists
  <1> QED  BY <1>1, <1>2 DEF IsRun

LEMMA IndexOne ==
    ASSUME NEW i, NEW log, NEW final
    PROVE  IndexLogs(i, <<log>>, final) = Handle(i, log, final)
  <1>1. <<log>> \in Seq({log}) /\ Len(<<log>>) = 1 /\ <<log>>[1] = log
    OBVIOUS
  <1>2. PICK r : IsRun(r, i, <<log>>, final) /\ IndexLogs(i, <<log>>, final) = r[Len(<<log>>)]
    BY <1>1, RunExists
  <1>3. r[1] = Handle(r[1 - 1], <<log>>[1], final) /\ r[0] = i
    BY <1>1, <1>2 DEF IsRun
  <1> QED  BY <1>1, <1>2, <1>3

LEMMA IndexConcat ==
    ASSUME NEW S, NEW a \in Seq(S), NEW b \in Seq(S), NEW i, NEW final
    PROVE  IndexLogs(i, a \o b, final) = IndexLogs(IndexLogs(i, a, final), b, final)
  <1> DEFINE n == Len(a)
             m == Len(b)
  <1>1. PICK c : c = a \o b
    OBVIOUS
  <1>2. /\ n \in Nat /\ m \in Nat /\ c \in Seq(S) /\ Len(c) = n + m
        /\ \A k \in 1..n : c[k] = a[k]
        /\ \A k \in 1..m : c[n + k] = b[k]
    BY <1>1
  <1>3. PICK r : IsRun(r, i, c, final) /\ IndexLogs(i, c, final) = r[Len(c)]
    BY <1>2, RunExists
  <1> DEFINE q == [k \in 0..n |-> r[k]]
             s == [k \in 0..m |-> r[n + k]]
  <1>4. /\ r[0] = i
        /\ \A k \in 1..(n + m) : r[k] = Handle(r[k - 1], c[k], final)
    BY <1>2, <1>3 DEF IsRun
  <1>5. IsRun(q, i, a, final)
    <2>1. q[0] = i /\ DOMAIN q = 0..n
      BY <1>2, <1>4
    <2>2. ASSUME NEW k \in 1..n
          PROVE  q[k] = Handle(q[k - 1], a[k], final)
      <3>1. r[k] = Handle(r[k - 1], c[k], final)
        BY <1>2, <1>4
      <3>2. q[k] = r[k] /\ q[k - 1] = r[k - 1] /\ c[k] = a[k]
        BY <1>2
      <3> HIDE DEF q
      <3> QED  BY <3>1, <3>2
    <2> HIDE DEF q
    <2> QED  BY <2>1, <2>2 DEF IsRun
  <1>6. IndexLogs(i, a, final) = r[n]
    <2>1. q[n] = r[n]
      BY <1>2
    <2> HIDE DEF q
    <2> QED  BY <1>5, <2>1, IndexLogsIsRun
  <1>7. IsRun(s, r[n], b, final)
    <2>1. s[0] = r[n] /\ DOMAIN s = 0..m
      BY <1>2
    <2>2. ASSUME NEW k \in 1..m
          PROVE  s[k] = Handle(s[k - 1], b[k], final)
      <3>1. n + k \in 1..(n + m) /\ n + (k - 1) = (n + k) - 1 /\ k - 1 \in 0..m /\ k \in 0..m
        BY <1>2
      <3>2. r[n + k] = Handle(r[(n + k) - 1], c[n + k], final)
        BY <1>4, <3>1
      <3>3. s[k] = r[n + k] /\ s[k - 1] = r[n + (k - 1)] /\ c[n + k] = b[k]
        BY <1>2, <3>1
      <3> HIDE DEF s
      <3> QED  BY <3>1, <3>2, <3>3
    <2> HIDE DEF s
    <2> QED  BY <2>1, <2>2 DEF IsRun
  <1>8. IndexLogs(r[n], b, final) = r[n + m]
    <2>1. s[m] = r[n + m]
      BY <1>2
    <2> HIDE DEF s
    <2> QED  BY <1>7, <2>1, IndexLogsIsRun
  <1> QED  BY <1>1, <1>2, <1>3, <1>6, <1>8

\* The sequences of at most one element.
LEMMA ShortSequences ==
    SetToSeq({}) = << >> /\ \A e : SetToSeq({e}) = <<e>>
  <1>1. SetToSeq({}) = << >>
    <2>1. Cardinality({}) = 0 /\ 1..0 = {}
      BY FS_EmptySet
    <2>2. \A f \in [1..0 -> {}] : f = << >>
      OBVIOUS
    <2>3. << >> \in [1..0 -> {}] /\ IsInjective(<< >>)
      BY DEF IsInjective
    <2> QED  BY <2>1, <2>2, <2>3 DEF SetToSeq
  <1>2. ASSUME NEW e
        PROVE  SetToSeq({e}) = <<e>>
    <2>1. Cardinality({e}) = 1 /\ 1..1 = {1}
      BY FS_Singleton
    <2>2. \A f \in [1..1 -> {e}] : f = <<e>>
      BY <2>1
    <2>3. <<e>> \in [1..1 -> {e}] /\ IsInjective(<<e>>)
      BY DEF IsInjective
    <2> QED  BY <2>1, <2>2, <2>3 DEF SetToSeq
  <1> QED  BY <1>1, <1>2

(***************************************************************************)
(* The index and the market                                                *)
(***************************************************************************)

Parameters == {"owner", "stateVersion", "liquidationThresholdBps", "collateralPriceUsdE18"}
Fields == Parameters \cup {"totalCollateral", "totalDebt", "positionCount"}

Log == [field: Parameters, value: Addresses \cup Nat]
           \cup [field: {"position"}, account: Addresses, position: Positions]

IsIndex(i) ==
    /\ i = [market |-> i.market, entities |-> i.entities]
    /\ i.market = [f \in Fields |-> i.market[f]]

\* The positions and what is added up from them are those of the market.
TellsPositions(i) ==
    /\ IsIndex(i)
    /\ i.market.totalCollateral = totalCollateral /\ i.market.totalDebt = totalDebt
    /\ DOMAIN i.entities \subseteq Addresses
    /\ i.market.positionCount = Cardinality(DOMAIN i.entities)
    /\ \A a \in Addresses :
          positions[a] = IF a \in DOMAIN i.entities THEN i.entities[a] ELSE NoPosition

\* An index with the entity created from final tells what the market is, but
\* for parameters it already shows as they will be.
Tells(i, final) ==
    /\ TellsPositions(i)
    /\ \A f \in Parameters : i.market[f] = Chain[f] \/ i.market[f] = final[f]

FieldLog(name, old, new) == IF old = new THEN << >> ELSE <<[field |-> name, value |-> new]>>
Moved == {a \in Addresses : positions'[a] # positions[a]}
PositionLog(a) == [field |-> "position", account |-> a, position |-> positions'[a]]
MoveLogs == SetToSeq({PositionLog(a) : a \in Moved})

LEMMA LogsInPieces ==
    Logs = FieldLog("owner", owner, owner')
             \o FieldLog("liquidationThresholdBps", liquidationThresholdBps, liquidationThresholdBps')
             \o FieldLog("collateralPriceUsdE18", collateralPriceUsdE18, collateralPriceUsdE18')
             \o FieldLog("stateVersion", stateVersion, stateVersion')
             \o MoveLogs
  BY DEF Logs, FieldLog, Moved, PositionLog, MoveLogs

LEMMA Exists ==
    ASSUME NEW i, IsIndex(i), NEW final
    PROVE  MarketFor(i.market, final) = i.market
  <1>1. i.market # NoMarket
    BY DEF IsIndex, Fields, Parameters, NoMarket
  <1> QED  BY <1>1 DEF MarketFor

\* A parameter's handler writes its field only.
LEMMA TellField ==
    ASSUME NEW i, IsIndex(i), NEW name \in Parameters, NEW old, NEW new, NEW final
    PROVE  \E j : /\ j = IndexLogs(i, FieldLog(name, old, new), final)
                  /\ IsIndex(j) /\ j.entities = i.entities
                  /\ j.market[name] = IF old = new THEN i.market[name] ELSE new
                  /\ \A f \in Fields \ {name} : j.market[f] = i.market[f]
  <1>1. CASE old = new
    <2>1. IndexLogs(i, FieldLog(name, old, new), final) = i
      BY <1>1, IndexNothing DEF FieldLog
    <2> QED  BY <1>1, <2>1
  <1>2. CASE old # new
    <2>1. PICK log : log = [field |-> name, value |-> new]
      OBVIOUS
    <2>2. IndexLogs(i, FieldLog(name, old, new), final) = Handle(i, log, final)
      BY <1>2, <2>1, IndexOne DEF FieldLog
    <2>3. PICK m : m = [i.market EXCEPT ![name] = new]
      OBVIOUS
    <2>4. Handle(i, log, final) = [market |-> m, entities |-> i.entities]
      <3>1. log.field = name /\ log.value = new /\ name # "position"
        BY <2>1 DEF Parameters
      <3>2. Handle(i, log, final) = [i EXCEPT !.market = m]
        BY <2>3, <3>1, Exists DEF Handle
      <3> QED  BY <3>2 DEF IsIndex
    <2>5. m = [f \in Fields |-> m[f]] /\ m[name] = new /\ \A f \in Fields \ {name} : m[f] = i.market[f]
      BY <2>3 DEF IsIndex, Fields
    <2>6. PICK j : j = [market |-> m, entities |-> i.entities]
      OBVIOUS
    <2>7. j.market = m /\ j.entities = i.entities /\ IsIndex(j)
      BY <2>5, <2>6 DEF IsIndex
    <2> QED  BY <1>2, <2>2, <2>4, <2>5, <2>6, <2>7
  <1> QED  BY <1>1, <1>2

\* The position's handler writes its entity, and what that adds to the totals.
LEMMA TellPosition ==
    ASSUME NEW i, IsIndex(i), NEW log, log.field = "position", NEW final
    PROVE  LET new == log.account \notin DOMAIN i.entities
               old == IF new THEN NoPosition ELSE i.entities[log.account]
           IN  \E j : /\ j = IndexLogs(i, <<log>>, final)
                      /\ IsIndex(j)
                      /\ j.entities = Put(i.entities, log.account, log.position)
                      /\ \A f \in Parameters : j.market[f] = i.market[f]
                      /\ j.market.positionCount
                            = IF new THEN i.market.positionCount + 1 ELSE i.market.positionCount
                      /\ j.market.totalCollateral = i.market.totalCollateral
                            - old.collateralAmount + log.position.collateralAmount
                      /\ j.market.totalDebt = i.market.totalDebt
                            - old.debtAmount + log.position.debtAmount
  <1>1. PICK j : j = HandlePositionUpdated(i.market, i.entities, log)
    OBVIOUS
  <1>2. IndexLogs(i, <<log>>, final) = j
    <2>1. IndexLogs(i, <<log>>, final) = Handle(i, log, final)
      BY IndexOne
    <2>2. Handle(i, log, final) = HandlePositionUpdated(i.market, i.entities, log)
      BY Exists DEF Handle
    <2> QED  BY <1>1, <2>1, <2>2
  <1> DEFINE new == log.account \notin DOMAIN i.entities
             old == IF new THEN NoPosition ELSE i.entities[log.account]
             m == i.market
  <1>3. PICK n : n = [m EXCEPT !.positionCount = IF new THEN @ + 1 ELSE @,
                        !.totalCollateral = @ - old.collateralAmount + log.position.collateralAmount,
                        !.totalDebt = @ - old.debtAmount + log.position.debtAmount]
    OBVIOUS
  <1>4. j = [market |-> n, entities |-> Put(i.entities, log.account, log.position)]
    BY <1>1, <1>3, Zenon DEF HandlePositionUpdated
  <1>5. m = [f \in Fields |-> m[f]]
    BY DEF IsIndex
  <1>6. /\ n = [f \in Fields |-> n[f]] /\ \A f \in Parameters : n[f] = m[f]
        /\ n.positionCount = IF new THEN m.positionCount + 1 ELSE m.positionCount
        /\ n.totalCollateral = m.totalCollateral - old.collateralAmount + log.position.collateralAmount
        /\ n.totalDebt = m.totalDebt - old.debtAmount + log.position.debtAmount
    <2> HIDE DEF new, old, m
    <2> QED  BY <1>3, <1>5 DEF Fields, Parameters
  <1>7. j.market = n /\ j.entities = Put(i.entities, log.account, log.position) /\ IsIndex(j)
    BY <1>4, <1>6 DEF IsIndex
  <1> QED  BY <1>2, <1>6, <1>7

LEMMA OneMove ==
    ASSUME IInv, IInv', Next
    PROVE  \E a \in Addresses :
              \A b \in Addresses \ {a} : positions'[b] = positions[b]
  <1> USE DEF SetPosition
  <1>1. Self \in Addresses /\ DOMAIN positions = Addresses
    BY DEF Addresses, IInv, TypeOK
  <1>2. ASSUME NEW sender \in Accounts, NEW amount \in Amounts,
               \/ DepositCollateral(sender, amount) \/ Borrow(sender, amount)
               \/ Repay(sender, amount) \/ WithdrawCollateral(sender, amount)
        PROVE  sender \in Addresses /\ \E p : positions' = [positions EXCEPT ![sender] = p]
    BY <1>2 DEF DepositCollateral, Borrow, Repay, WithdrawCollateral, Addresses
  <1>3. ASSUME NEW sender \in Accounts, NEW account \in Addresses,
               NEW collateral \in Amounts, NEW debt \in Amounts,
               SeedPosition(sender, account, collateral, debt)
        PROVE  \E p : positions' = [positions EXCEPT ![account] = p]
    BY <1>3 DEF SeedPosition
  <1>4. ASSUME NEW a \in Addresses, \E p : positions' = [positions EXCEPT ![a] = p]
        PROVE  \A b \in Addresses \ {a} : positions'[b] = positions[b]
    BY <1>1, <1>4
  <1>5. CASE positions' = positions
    BY <1>1, <1>5
  <1>6. \/ positions' = positions
        \/ \E sender \in Accounts, amount \in Amounts :
              \/ DepositCollateral(sender, amount) \/ Borrow(sender, amount)
              \/ Repay(sender, amount) \/ WithdrawCollateral(sender, amount)
        \/ \E sender \in Accounts, account \in Addresses, collateral, debt \in Amounts :
              SeedPosition(sender, account, collateral, debt)
    BY Steps DEF SetLiquidationThresholdBps, SetCollateralPriceUsdE18, TransferOwnership,
                 TokenTransfer, Mint, accounting
  <1> QED  BY <1>2, <1>3, <1>4, <1>5, <1>6

\* What the position logs of a transaction are: at most one.
LEMMA PositionLogs ==
    ASSUME IInv, IInv', Next
    PROVE  \/ Moved = {} /\ MoveLogs = << >>
           \/ \E a \in Addresses :
                 Moved = {a} /\ MoveLogs = <<PositionLog(a)>>
  <1>1. PICK a \in Addresses : \A b \in Addresses \ {a} : positions'[b] = positions[b]
    BY OneMove
  <1>2. Moved = {} \/ Moved = {a}
    BY <1>1 DEF Moved
  <1>3. CASE Moved = {}
    <2>1. {PositionLog(x) : x \in Moved} = {}
      BY <1>3
    <2> QED  BY <1>3, <2>1, ShortSequences DEF MoveLogs
  <1>4. CASE Moved = {a}
    <2> PICK log : log = PositionLog(a)
      OBVIOUS
    <2>1. {PositionLog(x) : x \in Moved} = {log}
      BY <1>4
    <2> QED  BY <1>4, <2>1, ShortSequences DEF MoveLogs
  <1> QED  BY <1>2, <1>3, <1>4

LEMMA FieldLogTyped ==
    ASSUME NEW name \in Parameters, NEW old, NEW new \in Addresses \cup Nat
    PROVE  FieldLog(name, old, new) \in Seq(Log)
  <1>1. [field |-> name, value |-> new] \in Log
    BY DEF Log
  <1> QED  BY <1>1 DEF FieldLog

LEMMA ValuesTyped ==
    ASSUME IInv
    PROVE  {owner, liquidationThresholdBps, collateralPriceUsdE18, stateVersion} \subseteq Addresses \cup Nat
  BY MarketAssumption DEF IInv, TypeOK

LEMMA LogsTyped ==
    ASSUME IInv, IInv', Next
    PROVE  Logs \in Seq(Log) /\ MoveLogs \in Seq(Log)
  <1>1. MoveLogs \in Seq(Log)
    <2>1. ASSUME NEW a \in Addresses
          PROVE  PositionLog(a) \in Log
      <3>1. positions'[a] \in Positions
        BY DEF IInv, TypeOK
      <3> QED  BY <3>1 DEF PositionLog, Log
    <2>2. ASSUME NEW log \in Log
          PROVE  <<log>> \in Seq(Log)
      OBVIOUS
    <2>3. << >> \in Seq(Log)
      OBVIOUS
    <2> QED  BY <2>1, <2>2, <2>3, PositionLogs, Zenon
  <1>2. {owner', liquidationThresholdBps', collateralPriceUsdE18', stateVersion'} \subseteq Addresses \cup Nat
    BY ValuesTyped, MarketAssumption DEF IInv, TypeOK
  <1>3. /\ FieldLog("owner", owner, owner') \in Seq(Log)
        /\ FieldLog("liquidationThresholdBps", liquidationThresholdBps, liquidationThresholdBps') \in Seq(Log)
        /\ FieldLog("collateralPriceUsdE18", collateralPriceUsdE18, collateralPriceUsdE18') \in Seq(Log)
        /\ FieldLog("stateVersion", stateVersion, stateVersion') \in Seq(Log)
    BY <1>2, FieldLogTyped DEF Parameters
  <1> QED  BY <1>1, <1>3, LogsInPieces

\* The positions and totals of the index follow a transaction.
LEMMA TellMoved ==
    ASSUME Finite, IInv, IInv', Next, NEW final, NEW i, TellsPositions(i)
    PROVE  \E j : /\ j = IndexLogs(i, MoveLogs, final)
                  /\ TellsPositions(j)'
                  /\ \A f \in Parameters : j.market[f] = i.market[f]
  <1>1. /\ positions \in [Addresses -> Positions] /\ positions' \in [Addresses -> Positions]
        /\ totalCollateral = SumOfCollateral /\ totalDebt = SumOfDebt
        /\ totalCollateral' = SumOfCollateral' /\ totalDebt' = SumOfDebt'
    BY DEF IInv, TypeOK
  <1>2. CASE Moved = {}
    <2>1. \A a \in Addresses : positions'[a] = positions[a]
      BY <1>2 DEF Moved
    <2>2. positions' = positions
      BY <1>1, <2>1
    <2>3. totalCollateral' = totalCollateral /\ totalDebt' = totalDebt
      BY <1>1, <2>2 DEF SumOfCollateral, SumOfDebt, CollateralAmounts, DebtAmounts
    <2>4. MoveLogs = << >>
      BY <1>2, PositionLogs
    <2>5. IndexLogs(i, MoveLogs, final) = i
      BY <2>4, IndexNothing
    <2>6. TellsPositions(i)'
      BY <2>1, <2>3 DEF TellsPositions
    <2> QED  BY <2>5, <2>6
  <1>3. CASE Moved # {}
    <2>1. PICK a \in Addresses :
             Moved = {a} /\ MoveLogs = <<PositionLog(a)>>
      BY <1>3, PositionLogs
    <2>2. PICK p : p = positions'[a]
      OBVIOUS
    <2>3. \A b \in Addresses \ {a} : positions'[b] = positions[b]
      BY <2>1 DEF Moved
    <2>4. positions' = [positions EXCEPT ![a] = p] /\ p \in [collateralAmount: Nat, debtAmount: Nat]
      BY <1>1, <2>2, <2>3, MarketAssumption DEF Positions, Uint
    <2>5. /\ totalCollateral' = totalCollateral - positions[a].collateralAmount + p.collateralAmount
          /\ totalDebt' = totalDebt - positions[a].debtAmount + p.debtAmount
      BY <1>1, <2>4, PositionChange
    <2>6. PICK log : log = PositionLog(a)
      OBVIOUS
    <2>7. log.field = "position" /\ log.account = a /\ log.position = p
      BY <2>2, <2>6 DEF PositionLog
    <2> DEFINE new == a \notin DOMAIN i.entities
               old == IF new THEN NoPosition ELSE i.entities[a]
    <2>8. PICK j : /\ j = IndexLogs(i, <<log>>, final) /\ IsIndex(j)
                   /\ j.entities = Put(i.entities, a, p)
                   /\ \A f \in Parameters : j.market[f] = i.market[f]
                   /\ j.market.positionCount
                         = IF new THEN i.market.positionCount + 1 ELSE i.market.positionCount
                   /\ j.market.totalCollateral
                         = i.market.totalCollateral - old.collateralAmount + p.collateralAmount
                   /\ j.market.totalDebt = i.market.totalDebt - old.debtAmount + p.debtAmount
      BY <2>7, TellPosition DEF TellsPositions
    <2>9. old = positions[a]
      BY DEF TellsPositions
    <2>10. j.market.totalCollateral = totalCollateral' /\ j.market.totalDebt = totalDebt'
      BY <2>5, <2>8, <2>9 DEF TellsPositions
    <2>11. /\ DOMAIN j.entities = DOMAIN i.entities \cup {a}
           /\ \A b \in Addresses : positions'[b]
                 = IF b \in DOMAIN j.entities THEN j.entities[b] ELSE NoPosition
      BY <2>2, <2>3, <2>8 DEF Put, TellsPositions
    <2>12. j.market.positionCount = Cardinality(DOMAIN j.entities)
      <3>1. IsFiniteSet(DOMAIN i.entities)
        BY AddressesFinite, FS_Subset DEF TellsPositions
      <3>2. CASE new
        <4>1. Cardinality(DOMAIN i.entities \cup {a}) = Cardinality(DOMAIN i.entities) + 1
          BY <3>1, <3>2, FS_AddElement
        <4> QED  BY <2>8, <2>11, <3>2, <4>1 DEF TellsPositions
      <3>3. CASE ~new
        <4>1. DOMAIN i.entities \cup {a} = DOMAIN i.entities
          BY <3>3
        <4> QED  BY <2>8, <2>11, <3>3, <4>1 DEF TellsPositions
      <3> QED  BY <3>2, <3>3
    <2>13. j = IndexLogs(i, MoveLogs, final)
      BY <2>1, <2>6, <2>8
    <2>14. DOMAIN j.entities \subseteq Addresses
      BY <2>11 DEF TellsPositions
    <2> HIDE DEF old, new
    <2>15. TellsPositions(j)'
      BY <2>8, <2>10, <2>11, <2>12, <2>14 DEF TellsPositions
    <2> QED  BY <2>8, <2>13, <2>15
  <1> QED  BY <1>2, <1>3

LEMMA TellTransaction ==
    ASSUME Finite, IInv, IInv', Next, NEW final, NEW i, Tells(i, final),
           NEW k, k = IndexLogs(i, Logs, final)
    PROVE  Tells(k, final)'
  <1> DEFINE A == FieldLog("owner", owner, owner')
             B == FieldLog("liquidationThresholdBps", liquidationThresholdBps, liquidationThresholdBps')
             C == FieldLog("collateralPriceUsdE18", collateralPriceUsdE18, collateralPriceUsdE18')
             D == FieldLog("stateVersion", stateVersion, stateVersion')
  <1>1. /\ A \in Seq(Log) /\ B \in Seq(Log) /\ C \in Seq(Log) /\ D \in Seq(Log) /\ MoveLogs \in Seq(Log)
    <2>1. {owner', liquidationThresholdBps', collateralPriceUsdE18', stateVersion'} \subseteq Addresses \cup Nat
      BY ValuesTyped, MarketAssumption DEF IInv, TypeOK
    <2> QED  BY <2>1, FieldLogTyped, LogsTyped DEF Parameters
  <1>2. PICK j1 : /\ j1 = IndexLogs(i, A, final) /\ IsIndex(j1) /\ j1.entities = i.entities
                  /\ j1.market["owner"] = IF owner = owner' THEN i.market["owner"] ELSE owner'
                  /\ \A f \in Fields \ {"owner"} : j1.market[f] = i.market[f]
    BY TellField DEF Tells, TellsPositions, Parameters
  <1>3. PICK j2 : /\ j2 = IndexLogs(j1, B, final) /\ IsIndex(j2) /\ j2.entities = j1.entities
                  /\ j2.market["liquidationThresholdBps"]
                        = IF liquidationThresholdBps = liquidationThresholdBps'
                          THEN j1.market["liquidationThresholdBps"] ELSE liquidationThresholdBps'
                  /\ \A f \in Fields \ {"liquidationThresholdBps"} : j2.market[f] = j1.market[f]
    BY <1>2, TellField DEF Parameters
  <1>4. PICK j3 : /\ j3 = IndexLogs(j2, C, final) /\ IsIndex(j3) /\ j3.entities = j2.entities
                  /\ j3.market["collateralPriceUsdE18"]
                        = IF collateralPriceUsdE18 = collateralPriceUsdE18'
                          THEN j2.market["collateralPriceUsdE18"] ELSE collateralPriceUsdE18'
                  /\ \A f \in Fields \ {"collateralPriceUsdE18"} : j3.market[f] = j2.market[f]
    BY <1>3, TellField DEF Parameters
  <1>5. PICK j4 : /\ j4 = IndexLogs(j3, D, final) /\ IsIndex(j4) /\ j4.entities = j3.entities
                  /\ j4.market["stateVersion"]
                        = IF stateVersion = stateVersion' THEN j3.market["stateVersion"] ELSE stateVersion'
                  /\ \A f \in Fields \ {"stateVersion"} : j4.market[f] = j3.market[f]
    BY <1>4, TellField DEF Parameters
  <1>6. IndexLogs(i, Logs, final) = IndexLogs(j4, MoveLogs, final)
    <2>1. Logs = A \o B \o C \o D \o MoveLogs
      BY LogsInPieces
    <2> HIDE DEF A, B, C, D
    <2>2. PICK two : two = A \o B
      OBVIOUS
    <2>3. PICK three : three = two \o C
      OBVIOUS
    <2>4. PICK four : four = three \o D
      OBVIOUS
    <2>5. two \in Seq(Log) /\ three \in Seq(Log) /\ four \in Seq(Log)
      BY <1>1, <2>2, <2>3, <2>4
    <2>6. IndexLogs(i, two, final) = j2
      BY <1>1, <1>2, <1>3, <2>2, IndexConcat
    <2>7. IndexLogs(i, three, final) = j3
      BY <1>1, <1>4, <2>3, <2>5, <2>6, IndexConcat
    <2>8. IndexLogs(i, four, final) = j4
      BY <1>1, <1>5, <2>4, <2>5, <2>7, IndexConcat
    <2>9. IndexLogs(i, four \o MoveLogs, final) = IndexLogs(j4, MoveLogs, final)
      BY <1>1, <2>5, <2>8, IndexConcat
    <2>10. Logs = four \o MoveLogs
      BY <2>1, <2>2, <2>3, <2>4
    <2> QED  BY <2>9, <2>10
  <1>7. /\ j4.entities = i.entities /\ j4.market.totalCollateral = i.market.totalCollateral
        /\ j4.market.totalDebt = i.market.totalDebt /\ j4.market.positionCount = i.market.positionCount
    BY <1>2, <1>3, <1>4, <1>5 DEF Fields, Parameters
  <1>8. /\ j4.market["owner"] = IF owner = owner' THEN i.market["owner"] ELSE owner'
        /\ j4.market["liquidationThresholdBps"]
              = IF liquidationThresholdBps = liquidationThresholdBps'
                THEN i.market["liquidationThresholdBps"] ELSE liquidationThresholdBps'
        /\ j4.market["collateralPriceUsdE18"]
              = IF collateralPriceUsdE18 = collateralPriceUsdE18'
                THEN i.market["collateralPriceUsdE18"] ELSE collateralPriceUsdE18'
        /\ j4.market["stateVersion"]
              = IF stateVersion = stateVersion' THEN i.market["stateVersion"] ELSE stateVersion'
    BY <1>2, <1>3, <1>4, <1>5 DEF Fields, Parameters
  <1>9. \A f \in Parameters : j4.market[f] = Chain'[f] \/ j4.market[f] = final[f]
    <2>1. \A f \in Parameters : i.market[f] = Chain[f] \/ i.market[f] = final[f]
      BY DEF Tells, TellsPositions
    <2> QED  BY <1>8, <2>1 DEF Parameters, Chain
  <1>10. TellsPositions(j4)
    BY <1>5, <1>7 DEF Tells, TellsPositions
  <1>11. PICK j : /\ j = IndexLogs(j4, MoveLogs, final) /\ TellsPositions(j)'
                  /\ \A f \in Parameters : j.market[f] = j4.market[f]
    BY <1>10, TellMoved
  <1>12. k = j
    BY <1>6, <1>11
  <1>13. \A f \in Parameters : j.market[f] = Chain'[f] \/ j.market[f] = final[f]
    BY <1>9, <1>11
  <1>14. Tells(j, final)'
    BY <1>11, <1>13 DEF Tells
  <1> QED  BY <1>12, <1>14

\* The index once the first block ends in final, or the one there is.
NoIndex == [market |-> NoMarket, entities |-> << >>]
IndexIn(final) ==
    IF Indexed THEN [market |-> market, entities |-> entities]
    ELSE IndexLogs(NoIndex, logs, final)

\* Whatever the state at the end of the first block turns out to be.
IndexInv == IInv /\ logs \in Seq(Log) /\ \A final : Tells(IndexIn(final), final)

LEMMA FirstIndex ==
    ASSUME Finite, IndexInit
    PROVE  IndexInv
  <1>1. IInv
    BY InitIInv DEF IndexInit
  <1>2. /\ [field |-> "owner", value |-> owner] \in Log
        /\ [field |-> "stateVersion", value |-> 1] \in Log
    <2>1. owner \in Addresses
      BY <1>1 DEF IInv, TypeOK
    <2> QED  BY <2>1 DEF Log, Parameters
  <1>3. PICK a : a = [field |-> "owner", value |-> owner]
    OBVIOUS
  <1>4. PICK b : b = [field |-> "stateVersion", value |-> 1]
    OBVIOUS
  <1>5. a \in Log /\ b \in Log /\ logs = <<a, b>>
    BY <1>2, <1>3, <1>4 DEF IndexInit
  <1>6. logs \in Seq(Log) /\ <<a>> \in Seq(Log) /\ <<b>> \in Seq(Log) /\ <<a, b>> = <<a>> \o <<b>>
    BY <1>5
  <1>7. ~Indexed
    BY DEF IndexInit, Indexed
  <1>8. ASSUME NEW final
        PROVE  Tells(IndexIn(final), final)
    <2>1. PICK m : m = Entity(final, 0, 0, 0)
      OBVIOUS
    <2>2. PICK n : n = [m EXCEPT !["owner"] = owner]
      OBVIOUS
    <2>3. PICK i : i = [market |-> n, entities |-> << >>]
      OBVIOUS
    <2>4. Handle(NoIndex, a, final) = i
      <3>1. NoIndex.market = NoMarket /\ NoIndex.entities = << >>
        BY DEF NoIndex
      <3>2. MarketFor(NoIndex.market, final) = m
        BY <2>1, <3>1 DEF MarketFor
      <3>3. a.field = "owner" /\ a.value = owner
        BY <1>3
      <3>4. Handle(NoIndex, a, final) = [NoIndex EXCEPT !.market = n]
        BY <2>2, <3>2, <3>3 DEF Handle
      <3> QED  BY <2>3, <3>4 DEF NoIndex
    <2>5. /\ m = [f \in Fields |-> m[f]]
          /\ \A f \in Parameters : m[f] = final[f]
          /\ m.totalCollateral = 0 /\ m.totalDebt = 0 /\ m.positionCount = 0
      BY <2>1 DEF Entity, Fields, Parameters
    <2>6. /\ n = [f \in Fields |-> n[f]] /\ n["owner"] = owner
          /\ \A f \in Fields \ {"owner"} : n[f] = m[f]
      BY <2>2, <2>5 DEF Fields, Parameters
    <2>7. IsIndex(i) /\ i.market = n /\ i.entities = << >>
      BY <2>3, <2>6 DEF IsIndex
    <2>8. PICK j : /\ j = IndexLogs(i, FieldLog("stateVersion", 0, 1), final)
                   /\ IsIndex(j) /\ j.entities = i.entities
                   /\ j.market["stateVersion"] = IF 0 = 1 THEN i.market["stateVersion"] ELSE 1
                   /\ \A f \in Fields \ {"stateVersion"} : j.market[f] = i.market[f]
      BY <2>7, TellField DEF Parameters
    <2>9. FieldLog("stateVersion", 0, 1) = <<b>>
      BY <1>4 DEF FieldLog
    <2>10. IndexIn(final) = j
      <3>1. PICK s : s = <<a>>
        OBVIOUS
      <3>2. PICK t : t = <<b>>
        OBVIOUS
      <3>3. IndexLogs(NoIndex, s, final) = i
        BY <2>4, <3>1, IndexOne
      <3>4. s \in Seq(Log) /\ t \in Seq(Log) /\ logs = s \o t
        BY <1>5, <1>6, <3>1, <3>2
      <3>5. IndexLogs(NoIndex, logs, final) = IndexLogs(i, t, final)
        BY <3>3, <3>4, IndexConcat
      <3> QED  BY <1>7, <2>8, <2>9, <3>2, <3>5 DEF IndexIn
    <2>11. \A f \in Parameters : j.market[f] = Chain[f] \/ j.market[f] = final[f]
      <3>1. stateVersion = 1 /\ Chain["owner"] = owner /\ Chain["stateVersion"] = stateVersion
        BY DEF IndexInit, Init, Chain
      <3>2. j.market["owner"] = owner /\ j.market["stateVersion"] = 1
        <4>1. "owner" \in Fields \ {"stateVersion"}
          BY DEF Fields, Parameters
        <4>2. j.market["owner"] = i.market["owner"]
          BY <2>8, <4>1
        <4> QED  BY <2>6, <2>7, <2>8, <4>2
      <3>3. \A f \in Parameters \ {"owner", "stateVersion"} : j.market[f] = final[f]
        BY <2>5, <2>6, <2>7, <2>8 DEF Fields
      <3> QED  BY <3>1, <3>2, <3>3
    <2>12. j.market.totalCollateral = 0 /\ j.market.totalDebt = 0 /\ j.market.positionCount = 0
      BY <2>5, <2>6, <2>7, <2>8 DEF Fields, Parameters
    <2>13. /\ totalCollateral = 0 /\ totalDebt = 0
           /\ \A x \in Addresses : positions[x] = NoPosition
      BY DEF IndexInit, Init
    <2>14. DOMAIN j.entities = {} /\ Cardinality({}) = 0
      BY <2>7, <2>8, FS_EmptySet
    <2>15. Tells(j, final)
      BY <2>8, <2>11, <2>12, <2>13, <2>14 DEF Tells, TellsPositions
    <2> QED  BY <2>10, <2>15
  <1> QED  BY <1>1, <1>6, <1>8 DEF IndexInv

LEMMA TransactionKeepsIndex ==
    ASSUME Finite, IndexInv, Transaction
    PROVE  IndexInv'
  <1>1. IInv /\ Next /\ IInv'
    BY NextKeeps DEF IndexInv, Transaction
  <1>2. CASE Indexed
    <2>1. PICK i : i = [market |-> market, entities |-> entities]
      OBVIOUS
    <2>2. PICK final : final = Chain'
      OBVIOUS
    <2>3. PICK j : j = IndexLogs(i, Logs, final)
      OBVIOUS
    <2>4. market' = j.market /\ entities' = j.entities /\ logs' = logs
      BY <1>2, <2>1, <2>2, <2>3 DEF Transaction
    <2>5. Tells(i, final)
      BY <1>2, <2>1 DEF IndexInv, IndexIn
    <2>6. Tells(j, final)'
      BY <1>1, <2>3, <2>5, TellTransaction
    <2>7. IsIndex(j)
      BY <2>6 DEF Tells, TellsPositions
    <2>8. [market |-> market', entities |-> entities'] = j /\ market' # NoMarket
      BY <2>4, <2>7 DEF IsIndex, Fields, Parameters, NoMarket
    <2>9. Indexed'
      BY <2>8 DEF Indexed
    <2>10. ASSUME NEW other
           PROVE  Tells(j, other)'
      <3>1. \A f \in Parameters : j.market[f] = Chain'[f]
        BY <2>2, <2>6 DEF Tells, TellsPositions
      <3> QED  BY <2>6, <3>1 DEF Tells, TellsPositions
    <2>11. ASSUME NEW other
           PROVE  Tells(IndexIn(other), other)'
      <3>1. IndexIn(other)' = j
        BY <2>8, <2>9 DEF IndexIn
      <3> QED  BY <2>10, <3>1
    <2>12. Log' = Log
      OBVIOUS
    <2> QED  BY <1>1, <2>4, <2>11 DEF IndexInv
  <1>3. CASE ~Indexed
    <2>1. logs' = logs \o Logs /\ market' = market /\ entities' = entities
      BY <1>3 DEF Transaction
    <2>2. logs \in Seq(Log) /\ Logs \in Seq(Log) /\ logs' \in Seq(Log)
      BY <1>1, <2>1, LogsTyped DEF IndexInv
    <2>3. ~Indexed'
      BY <1>3, <2>1 DEF Indexed
    <2>4. ASSUME NEW final
          PROVE  Tells(IndexIn(final), final)'
      <3>1. PICK i : i = IndexLogs(NoIndex, logs, final)
        OBVIOUS
      <3>2. PICK j : j = IndexLogs(i, Logs, final)
        OBVIOUS
      <3>3. Tells(i, final)
        BY <1>3, <3>1 DEF IndexInv, IndexIn
      <3>4. Tells(j, final)'
        BY <1>1, <3>2, <3>3, TellTransaction
      <3>5. PICK block : block = logs \o Logs
        OBVIOUS
      <3>6. IndexLogs(NoIndex, block, final) = j
        BY <2>2, <3>1, <3>2, <3>5, IndexConcat
      <3>7. IndexIn(final)' = j
        BY <2>1, <2>3, <3>5, <3>6 DEF IndexIn
      <3> QED  BY <3>4, <3>7
    <2> QED  BY <1>1, <2>2, <2>4 DEF IndexInv
  <1> QED  BY <1>2, <1>3

LEMMA FirstBlockKeepsIndex ==
    ASSUME IndexInv, FirstBlock
    PROVE  IndexInv'
  <1>1. IInv'
    BY StutterKeeps DEF IndexInv, FirstBlock
  <1>2. PICK final : final = Chain
    OBVIOUS
  <1>3. PICK j : j = IndexLogs(NoIndex, logs, final)
    OBVIOUS
  <1>4. market' = j.market /\ entities' = j.entities /\ logs' = << >>
    BY <1>2, <1>3 DEF FirstBlock, NoIndex
  <1>5. Tells(j, final)
    BY <1>3 DEF FirstBlock, IndexInv, IndexIn
  <1>6. [market |-> market', entities |-> entities'] = j /\ market' # NoMarket
    BY <1>4, <1>5 DEF Tells, TellsPositions, IsIndex, Fields, Parameters, NoMarket
  <1>7. Indexed'
    BY <1>6 DEF Indexed
  <1>8. \A f \in Parameters : j.market[f] = Chain[f]
    BY <1>2, <1>5 DEF Tells, TellsPositions
  <1>9. /\ UNCHANGED <<totalCollateral, totalDebt, positions>>
        /\ UNCHANGED <<owner, stateVersion, liquidationThresholdBps, collateralPriceUsdE18>>
    BY DEF FirstBlock, vars, parameters, accounting
  <1>10. Chain' = Chain
    BY <1>9 DEF Chain
  <1>11. ASSUME NEW other
         PROVE  Tells(IndexIn(other), other)'
    <2>1. Tells(j, other)'
      BY <1>5, <1>8, <1>9, <1>10 DEF Tells, TellsPositions
    <2>2. IndexIn(other)' = j
      BY <1>6, <1>7 DEF IndexIn
    <2> QED  BY <2>1, <2>2
  <1>12. logs' \in Seq(Log)
    BY <1>4
  <1> QED  BY <1>1, <1>11, <1>12 DEF IndexInv

LEMMA StutterKeepsIndex ==
    ASSUME IndexInv, UNCHANGED allVars
    PROVE  IndexInv'
  <1>1. /\ UNCHANGED vars /\ UNCHANGED <<logs, market, entities>>
        /\ UNCHANGED <<totalCollateral, totalDebt, positions>>
        /\ UNCHANGED <<owner, stateVersion, liquidationThresholdBps, collateralPriceUsdE18>>
    BY DEF allVars, indexVars, vars, parameters, accounting
  <1>2. IInv'
    BY <1>1, StutterKeeps DEF IndexInv
  <1>3. ASSUME NEW final
        PROVE  Tells(IndexIn(final), final)'
    <2>1. PICK i : i = IndexIn(final)
      OBVIOUS
    <2>2. IndexIn(final)' = i
      BY <1>1, <2>1 DEF IndexIn, Indexed
    <2>3. Tells(i, final)
      BY <2>1 DEF IndexInv
    <2>4. Tells(i, final)'
      BY <1>1, <2>3 DEF Tells, TellsPositions, Chain
    <2> QED  BY <2>2, <2>4
  <1> QED  BY <1>1, <1>2, <1>3 DEF IndexInv

LEMMA IndexInvariance ==
    ASSUME Finite
    PROVE  IndexSpec => []IndexInv
  <1>1. IndexInit => IndexInv
    BY FirstIndex
  <1>2. IndexInv /\ [Transaction \/ FirstBlock]_allVars => IndexInv'
    BY TransactionKeepsIndex, FirstBlockKeepsIndex, StutterKeepsIndex
  <1> QED  BY <1>1, <1>2, PTL DEF IndexSpec

\* Wherever the first block ends, and after every transaction from then on, the
\* index shows the market: its totals too, which it adds up from the events.
THEOREM IndexFollows ==
    ASSUME Finite
    PROVE  IndexSpec => []IndexFollowsMarket
  <1>1. IndexInv => IndexFollowsMarket
    <2> SUFFICES ASSUME IndexInv, Indexed
                 PROVE  /\ market = Entity(Chain, totalCollateral, totalDebt, Cardinality(DOMAIN entities))
                        /\ \A a \in Addresses :
                              positions[a] = IF a \in DOMAIN entities THEN entities[a] ELSE NoPosition
      BY DEF IndexFollowsMarket
    <2>1. PICK i : i = [market |-> market, entities |-> entities]
      OBVIOUS
    <2>2. PICK final : final = Chain
      OBVIOUS
    <2>3. Tells(i, final)
      BY <2>1 DEF IndexInv, IndexIn
    <2>4. i.market = market /\ i.entities = entities
      BY <2>1
    <2>5. market = [f \in Fields |-> market[f]]
      BY <2>3, <2>4 DEF Tells, TellsPositions, IsIndex
    <2>6. \A f \in Parameters : market[f] = Chain[f]
      BY <2>2, <2>3, <2>4 DEF Tells, TellsPositions
    <2>7. /\ market.totalCollateral = totalCollateral /\ market.totalDebt = totalDebt
          /\ market.positionCount = Cardinality(DOMAIN entities)
      BY <2>3, <2>4 DEF Tells, TellsPositions
    <2>8. market = Entity(Chain, totalCollateral, totalDebt, Cardinality(DOMAIN entities))
      BY <2>5, <2>6, <2>7 DEF Fields, Parameters, Entity
    <2> QED  BY <2>3, <2>4, <2>8 DEF Tells, TellsPositions
  <1> QED  BY <1>1, IndexInvariance, PTL

(***************************************************************************)
(* The risk engine                                                         *)
(*                                                                         *)
(* A lower threshold makes no position healthier: everything a policy      *)
(* limits only grows as the candidate falls.  So what is admissible stays  *)
(* admissible above, and a search upwards from the proposed value finds    *)
(* the boundary.                                                           *)
(***************************************************************************)

\* Sums over a part of the domain.
SumOver(f, S) == FoldFunctionOnSet(+, 0, f, S)

LEMMA SumOverIsSum ==
    ASSUME NEW f, NEW S
    PROVE  SumOver(f, S) = (CHOOSE g : Sums(g, f, S))[S]
  BY DEF SumOver, FoldFunctionOnSet, MapThenFoldSet, Sums

LEMMA SumOverSame ==
    ASSUME NEW S, NEW f, NEW h, \A x \in S : f[x] = h[x]
    PROVE  SumOver(f, S) = SumOver(h, S)
  <1>1. ASSUME NEW g PROVE Sums(g, f, S) <=> Sums(g, h, S)
    <2>1. ASSUME NEW s \in SUBSET S
          PROVE  (IF s = {} THEN 0 ELSE LET x == CHOOSE x \in s : TRUE IN f[x] + g[s \ {x}])
               = (IF s = {} THEN 0 ELSE LET x == CHOOSE x \in s : TRUE IN h[x] + g[s \ {x}])
      <3> PICK x : x = CHOOSE y \in s : TRUE
        OBVIOUS
      <3>1. s # {} => x \in S
        OBVIOUS
      <3> QED  BY <3>1
    <2> QED  BY <2>1 DEF Sums
  <1>2. (CHOOSE g : Sums(g, f, S)) = (CHOOSE g : Sums(g, h, S))
    BY <1>1
  <1> QED  BY <1>2, SumOverIsSum

\* The recursion over the parts of a set agrees with the one over a larger set.
LEMMA SumsAgree ==
    ASSUME NEW S, IsFiniteSet(S), NEW T, S \subseteq T, NEW f, NEW g, NEW h,
           Sums(g, f, S), Sums(h, f, T)
    PROVE  g[S] = h[S]
  <1> DEFINE Bad(s) == g[s] # h[s]
             B == {Cardinality(s) : s \in {s \in SUBSET S : Bad(s)}}
  <1> SUFFICES ASSUME B # {} PROVE FALSE
    OBVIOUS
  <1>1. B \subseteq Nat
    BY FS_Subset, FS_CardinalityType
  <1>2. PICK n \in B : \A m \in B : n <= m
    BY <1>1, SmallestInSet
  <1>3. PICK s \in SUBSET S : Bad(s) /\ Cardinality(s) = n
    BY <1>2
  <1>4. s \in SUBSET T
    OBVIOUS
  <1>5. /\ g[s] = IF s = {} THEN 0 ELSE LET x == CHOOSE x \in s : TRUE IN f[x] + g[s \ {x}]
        /\ h[s] = IF s = {} THEN 0 ELSE LET x == CHOOSE x \in s : TRUE IN f[x] + h[s \ {x}]
    BY <1>4 DEF Sums
  <1>6. s # {}
    BY <1>3, <1>5
  <1>7. PICK x : x = CHOOSE y \in s : TRUE
    OBVIOUS
  <1>8. x \in s /\ g[s] = f[x] + g[s \ {x}] /\ h[s] = f[x] + h[s \ {x}]
    BY <1>5, <1>6, <1>7
  <1>9. Cardinality(s \ {x}) \in Nat /\ Cardinality(s \ {x}) < n
    BY <1>3, <1>8, SubsetLess
  <1>10. ~Bad(s \ {x})
    BY <1>1, <1>2, <1>9
  <1> QED  BY <1>3, <1>8, <1>10

LEMMA SumOverIsTotal ==
    ASSUME NEW D, IsFiniteSet(D), NEW f, DOMAIN f = D, NEW S \in SUBSET D
    PROVE  SumOver(f, S) = Total(f, S)
  <1> DEFINE g == CHOOSE g : Sums(g, f, S)
             h == CHOOSE h : Sums(h, f, D)
  <1>1. IsFiniteSet(S)
    BY FS_Subset
  <1>2. Sums(g, f, S) /\ Sums(h, f, D)
    BY <1>1, SumsExist
  <1>3. SumOver(f, S) = g[S] /\ Total(f, S) = h[S]
    BY SumOverIsSum DEF Total
  <1> HIDE DEF g, h
  <1> QED  BY <1>1, <1>2, <1>3, SumsAgree

LEMMA TotalGrows ==
    ASSUME NEW S, IsFiniteSet(S), NEW f \in [S -> Nat], NEW s \in SUBSET S
    PROVE  \A t \in SUBSET S : s \subseteq t => Total(f, s) <= Total(f, t)
  <1> DEFINE Bad(t) == s \subseteq t /\ ~(Total(f, s) <= Total(f, t))
             T == {Cardinality(t) : t \in {t \in SUBSET S : Bad(t)}}
  <1> SUFFICES ASSUME T # {} PROVE FALSE
    OBVIOUS
  <1>1. T \subseteq Nat
    BY FS_Subset, FS_CardinalityType
  <1>2. PICK n \in T : \A m \in T : n <= m
    BY <1>1, SmallestInSet
  <1>3. PICK t \in SUBSET S : Bad(t) /\ Cardinality(t) = n
    BY <1>2
  <1>4. Total(f, s) \in Nat /\ \A u \in SUBSET S : Total(f, u) \in Nat
    BY TotalInNat
  <1>5. t # s
    BY <1>3, <1>4
  <1>6. PICK x \in t : x \notin s
    BY <1>3, <1>5
  <1>7. Total(f, t) = f[x] + Total(f, t \ {x})
    BY TotalTakeOut
  <1>8. Cardinality(t \ {x}) \in Nat /\ Cardinality(t \ {x}) < n
    BY <1>3, SubsetLess
  <1>9. ~Bad(t \ {x})
    BY <1>1, <1>2, <1>8
  <1>10. Total(f, s) <= Total(f, t \ {x}) /\ f[x] \in Nat /\ Total(f, t \ {x}) \in Nat
    BY <1>3, <1>4, <1>6, <1>9
  <1> QED  BY <1>3, <1>4, <1>7, <1>10

\* Snapshots of a market with finitely many positions.
IsSnapshot(s) ==
    /\ IsFiniteSet(DOMAIN s.positions)
    /\ \A a \in DOMAIN s.positions : s.positions[a] \in [collateralAmount: Nat, debtAmount: Nat]
    /\ s.liquidationThresholdBps \in Nat /\ s.collateralPriceUsdE18 \in Nat /\ s.totalDebt \in Nat

LEMMA DebtValueInNat ==
    ASSUME NEW p \in [collateralAmount: Nat, debtAmount: Nat]
    PROVE  Engine!DebtValue(p) = DebtValue(p) /\ DebtValue(p) \in Nat
  <1>1. WAD \in Nat /\ DebtScale \in Nat /\ DebtScale > 0 /\ p.debtAmount \in Nat
    BY MarketAssumption
  <1>2. p.debtAmount * WAD \in Nat
    BY <1>1, Products
  <1> QED  BY <1>1, <1>2, Quotients DEF DebtValue, Engine!DebtValue

LEMMA LiquidatableShrinks ==
    ASSUME NEW s, IsSnapshot(s), NEW price \in Nat, NEW c \in Nat, NEW d \in Nat, c <= d
    PROVE  Engine!Liquidatable(s, d, price) \subseteq Engine!Liquidatable(s, c, price)
  <1> SUFFICES ASSUME NEW a \in Engine!Liquidatable(s, d, price)
               PROVE  a \in Engine!Liquidatable(s, c, price)
    OBVIOUS
  <1>1. PICK p : p = s.positions[a]
    OBVIOUS
  <1>2. /\ a \in DOMAIN s.positions /\ Engine!DebtValue(p) > 0
        /\ (Engine!Adjusted(p, d, price) * WAD) \div Engine!DebtValue(p) < WAD
    BY <1>1 DEF Engine!Liquidatable
  <1>3. p \in [collateralAmount: Nat, debtAmount: Nat]
    BY <1>1, <1>2 DEF IsSnapshot
  <1>4. PICK debt : debt = Engine!DebtValue(p)
    OBVIOUS
  <1>5. debt \in Nat /\ debt > 0
    BY <1>2, <1>3, <1>4, DebtValueInNat
  <1>6. PICK v : v = Engine!CollateralValue(p, price)
    OBVIOUS
  <1>7. /\ WAD \in Nat /\ BPS \in Nat /\ BPS > 0 /\ CollateralScale \in Nat /\ CollateralScale > 0
        /\ p.collateralAmount \in Nat
    BY <1>3, MarketAssumption
  <1>8. v \in Nat
    <2>1. p.collateralAmount * price \in Nat
      BY <1>7, Products
    <2> QED  BY <1>6, <1>7, <2>1, Quotients DEF Engine!CollateralValue
  <1>9. v * c <= v * d /\ v * c \in Nat /\ v * d \in Nat
    <2>1. c * v <= d * v /\ c * v \in Nat /\ d * v \in Nat
      BY <1>8, Products
    <2>2. c * v = v * c /\ d * v = v * d
      BY <1>8
    <2> QED  BY <2>1, <2>2
  <1>10. PICK low : low = Engine!Adjusted(p, c, price)
    OBVIOUS
  <1>11. PICK high : high = Engine!Adjusted(p, d, price)
    OBVIOUS
  <1>12. low \in Nat /\ high \in Nat /\ low <= high
    BY <1>6, <1>7, <1>9, <1>10, <1>11, Quotients DEF Engine!Adjusted
  <1>13. low * WAD <= high * WAD /\ low * WAD \in Nat /\ high * WAD \in Nat
    BY <1>7, <1>12, Products
  <1>14. /\ (low * WAD) \div debt <= (high * WAD) \div debt
         /\ (low * WAD) \div debt \in Nat /\ (high * WAD) \div debt \in Nat
    BY <1>5, <1>13, Quotients
  <1>15. (low * WAD) \div debt < WAD
    BY <1>2, <1>4, <1>7, <1>11, <1>14
  <1> QED  BY <1>1, <1>2, <1>4, <1>10, <1>15 DEF Engine!Liquidatable

LEMMA DebtOfPart ==
    ASSUME NEW s, IsSnapshot(s), NEW lt, NEW price
    PROVE  LET f == [a \in DOMAIN s.positions |-> Engine!DebtValue(s.positions[a])]
               S == Engine!Liquidatable(s, lt, price)
           IN  /\ Engine!LiquidatableDebt(s, lt, price) = Total(f, S)
               /\ f \in [DOMAIN s.positions -> Nat] /\ S \in SUBSET DOMAIN s.positions
               /\ Engine!LiquidatableDebt(s, lt, price) \in Nat
  <1> DEFINE f == [a \in DOMAIN s.positions |-> Engine!DebtValue(s.positions[a])]
             S == Engine!Liquidatable(s, lt, price)
  <1>1. \A a \in DOMAIN s.positions : Engine!DebtValue(s.positions[a]) \in Nat
    BY DebtValueInNat DEF IsSnapshot
  <1>2. f \in [DOMAIN s.positions -> Nat] /\ DOMAIN f = DOMAIN s.positions
    BY <1>1
  <1>3. S \in SUBSET DOMAIN s.positions
    BY DEF Engine!Liquidatable
  <1>4. Engine!LiquidatableDebt(s, lt, price) = SumOver(f, S)
    <2>1. Engine!LiquidatableDebt(s, lt, price) = (CHOOSE g : Sums(g, f, S))[S]
      BY DEF Engine!LiquidatableDebt, Engine!FoldFunctionOnSet, Engine!MapThenFoldSet, Sums
    <2> HIDE DEF f, S
    <2> QED  BY <2>1, SumOverIsSum
  <1> HIDE DEF f, S
  <1>5. SumOver(f, S) = Total(f, S)
    BY <1>2, <1>3, SumOverIsTotal DEF IsSnapshot
  <1>6. Total(f, S) \in Nat
    BY <1>2, <1>3, TotalInNat DEF IsSnapshot
  <1> QED  BY <1>2, <1>3, <1>4, <1>5, <1>6 DEF f, S

LEMMA DebtShrinks ==
    ASSUME NEW s, IsSnapshot(s), NEW price \in Nat, NEW c \in Nat, NEW d \in Nat, c <= d
    PROVE  /\ Engine!LiquidatableDebt(s, c, price) \in Nat
           /\ Engine!LiquidatableDebt(s, d, price) \in Nat
           /\ Engine!LiquidatableDebt(s, d, price) <= Engine!LiquidatableDebt(s, c, price)
  <1>1. PICK f : f = [a \in DOMAIN s.positions |-> Engine!DebtValue(s.positions[a])]
    OBVIOUS
  <1>2. PICK C : C = Engine!Liquidatable(s, c, price)
    OBVIOUS
  <1>3. PICK D : D = Engine!Liquidatable(s, d, price)
    OBVIOUS
  <1>4. /\ f \in [DOMAIN s.positions -> Nat]
        /\ C \in SUBSET DOMAIN s.positions /\ D \in SUBSET DOMAIN s.positions
        /\ Engine!LiquidatableDebt(s, c, price) = Total(f, C)
        /\ Engine!LiquidatableDebt(s, d, price) = Total(f, D)
        /\ Engine!LiquidatableDebt(s, c, price) \in Nat
        /\ Engine!LiquidatableDebt(s, d, price) \in Nat
    BY <1>1, <1>2, <1>3, DebtOfPart
  <1>5. D \subseteq C
    BY <1>2, <1>3, LiquidatableShrinks
  <1>6. Total(f, D) <= Total(f, C)
    BY <1>4, <1>5, TotalGrows DEF IsSnapshot
  <1> QED  BY <1>4, <1>6

(***************************************************************************)
(* The policy                                                              *)
(***************************************************************************)

Decrease(s, c) == s.liquidationThresholdBps - c
Newly(s, c) ==
    Engine!Liquidatable(s, c, s.collateralPriceUsdE18)
        \ Engine!Liquidatable(s, s.liquidationThresholdBps, s.collateralPriceUsdE18)
StressDebt(s, c, policy) == Engine!LiquidatableDebt(s, c, Engine!StressedPrice(s, policy.stressBps))
Additional(s, c, policy) ==
    LET delta == StressDebt(s, c, policy) - StressDebt(s, s.liquidationThresholdBps, policy)
    IN  IF delta > 0 THEN delta ELSE 0
Exposure(s, c, policy) ==
    IF policy.stressExposureMode = "incremental" THEN Additional(s, c, policy)
    ELSE StressDebt(s, c, policy)
Limit(s, policy) == ((s.totalDebt * WAD) \div DebtScale) * policy.maxStressExposureBps

\* The cardinalities of the engine's own FiniteSets are those of this module.
LEMMA SameCardinality ==
    ASSUME NEW S
    PROVE  Engine!Cardinality(S) = Cardinality(S)
  BY DEF Engine!Cardinality, Cardinality

\* What a policy asks, one limit after the other.
LEMMA AdmissibleMeans ==
    ASSUME NEW s, NEW c, NEW policy
    PROVE  Engine!Admissible(s, c, policy)
              <=> /\ ~(Decrease(s, c) > policy.maxDecreaseBps)
                  /\ ~(Cardinality(Newly(s, c)) > policy.maxNewNormalLiquidatable)
                  /\ ~(Exposure(s, c, policy) * BPS > Limit(s, policy))
  <1> DEFINE sim == Engine!Simulate(s, c, policy.stressBps)
  <1>1. /\ sim.decreaseBps = Decrease(s, c) /\ sim.newlyLiquidatable = Newly(s, c)
        /\ sim.totalDebt = (s.totalDebt * WAD) \div DebtScale
        /\ sim.additionalStressDebt = Additional(s, c, policy)
        /\ sim.proposedStressDebt = StressDebt(s, c, policy)
    BY DEF Engine!Simulate, Decrease, Newly, Additional, StressDebt
  <1> PICK x : x = sim
    OBVIOUS
  <1> HIDE DEF sim
  <1>2. Engine!Violations(x, policy) = {}
           <=> /\ ~(x.decreaseBps > policy.maxDecreaseBps)
               /\ ~(Engine!Cardinality(x.newlyLiquidatable) > policy.maxNewNormalLiquidatable)
               /\ ~((IF policy.stressExposureMode = "incremental"
                     THEN x.additionalStressDebt ELSE x.proposedStressDebt) * BPS
                        > x.totalDebt * policy.maxStressExposureBps)
    BY DEF Engine!Violations
  <1>3. Engine!Cardinality(x.newlyLiquidatable) = Cardinality(x.newlyLiquidatable)
    BY SameCardinality
  <1>4. Engine!Admissible(s, c, policy) <=> Engine!Violations(x, policy) = {}
    BY DEF Engine!Admissible, sim
  <1>5. /\ x.decreaseBps = Decrease(s, c) /\ x.newlyLiquidatable = Newly(s, c)
        /\ x.totalDebt * policy.maxStressExposureBps = Limit(s, policy)
        /\ (IF policy.stressExposureMode = "incremental"
            THEN x.additionalStressDebt ELSE x.proposedStressDebt) = Exposure(s, c, policy)
    BY <1>1 DEF Exposure, Limit
  <1> QED  BY <1>2, <1>3, <1>4, <1>5

LEMMA PolicyNumbers ==
    ASSUME NEW policy \in Policies
    PROVE  /\ policy.maxDecreaseBps \in Nat /\ policy.maxNewNormalLiquidatable \in Nat
           /\ policy.maxStressExposureBps \in Nat /\ policy.stressBps \in Nat
           /\ policy.stressBps <= BPS /\ BPS \in Nat /\ BPS > 0 /\ WAD \in Nat
           /\ DebtScale \in Nat /\ DebtScale > 0
           /\ policy.stressExposureMode \in {"incremental", "absolute"}
  BY MarketAssumption, PolicyAssumption

LEMMA StressedPriceInNat ==
    ASSUME NEW s, IsSnapshot(s), NEW policy \in Policies
    PROVE  Engine!StressedPrice(s, policy.stressBps) \in Nat
  <1>1. BPS - policy.stressBps \in Nat /\ s.collateralPriceUsdE18 \in Nat /\ BPS \in Nat /\ BPS > 0
    BY PolicyNumbers DEF IsSnapshot
  <1>2. s.collateralPriceUsdE18 * (BPS - policy.stressBps) \in Nat
    BY <1>1, Products
  <1> QED  BY <1>1, <1>2, Quotients DEF Engine!StressedPrice

LEMMA ExposureShrinks ==
    ASSUME NEW s, IsSnapshot(s), NEW policy \in Policies, NEW c \in Nat, NEW d \in Nat, c <= d
    PROVE  /\ Exposure(s, c, policy) \in Nat /\ Exposure(s, d, policy) \in Nat
           /\ Exposure(s, d, policy) <= Exposure(s, c, policy)
  <1>1. PICK base : base = StressDebt(s, s.liquidationThresholdBps, policy)
    OBVIOUS
  <1>2. PICK low : low = StressDebt(s, d, policy)
    OBVIOUS
  <1>3. PICK high : high = StressDebt(s, c, policy)
    OBVIOUS
  <1>4. base \in Nat /\ low \in Nat /\ high \in Nat /\ low <= high
    <2>1. s.liquidationThresholdBps \in Nat
      BY DEF IsSnapshot
    <2>2. PICK price : price = Engine!StressedPrice(s, policy.stressBps)
      OBVIOUS
    <2>3. price \in Nat
      BY <2>2, StressedPriceInNat
    <2>4. /\ base = Engine!LiquidatableDebt(s, s.liquidationThresholdBps, price)
          /\ low = Engine!LiquidatableDebt(s, d, price)
          /\ high = Engine!LiquidatableDebt(s, c, price)
      BY <1>1, <1>2, <1>3, <2>2 DEF StressDebt
    <2>5. base \in Nat
      BY <2>4, DebtOfPart
    <2> QED  BY <2>3, <2>4, <2>5, DebtShrinks
  <1>5. /\ (IF high - base > 0 THEN high - base ELSE 0) \in Nat
        /\ (IF low - base > 0 THEN low - base ELSE 0) \in Nat
        /\ (IF low - base > 0 THEN low - base ELSE 0) <= (IF high - base > 0 THEN high - base ELSE 0)
    BY <1>4
  <1>6. /\ Additional(s, c, policy) = IF high - base > 0 THEN high - base ELSE 0
        /\ Additional(s, d, policy) = IF low - base > 0 THEN low - base ELSE 0
    BY <1>1, <1>2, <1>3 DEF Additional
  <1> QED  BY <1>2, <1>3, <1>4, <1>5, <1>6 DEF Exposure

LEMMA LimitInNat ==
    ASSUME NEW s, IsSnapshot(s), NEW policy \in Policies
    PROVE  Limit(s, policy) \in Nat
  <1>1. s.totalDebt * WAD \in Nat /\ DebtScale \in Nat /\ DebtScale > 0
    BY PolicyNumbers, Products DEF IsSnapshot
  <1>2. (s.totalDebt * WAD) \div DebtScale \in Nat
    BY <1>1, Quotients
  <1> QED  BY <1>2, PolicyNumbers, Products DEF Limit

LEMMA NewlyFinite ==
    ASSUME NEW s, IsSnapshot(s), NEW c
    PROVE  IsFiniteSet(Newly(s, c)) /\ Cardinality(Newly(s, c)) \in Nat
  <1>1. Newly(s, c) \subseteq DOMAIN s.positions
    BY DEF Newly, Engine!Liquidatable
  <1>2. IsFiniteSet(Newly(s, c))
    BY <1>1, FS_Subset DEF IsSnapshot
  <1> QED  BY <1>2, FS_CardinalityType

\* What is admissible stays admissible above.
LEMMA AdmissibleAbove ==
    ASSUME NEW s, IsSnapshot(s), NEW policy \in Policies, NEW c \in Nat, NEW d \in Nat, c <= d,
           Engine!Admissible(s, c, policy)
    PROVE  Engine!Admissible(s, d, policy)
  <1>1. /\ s.liquidationThresholdBps \in Nat /\ s.collateralPriceUsdE18 \in Nat
        /\ IsFiniteSet(DOMAIN s.positions)
    BY DEF IsSnapshot
  <1>2. ~(Decrease(s, d) > policy.maxDecreaseBps)
    <2>1. ~(Decrease(s, c) > policy.maxDecreaseBps)
      BY AdmissibleMeans
    <2> QED  BY <1>1, <2>1, PolicyNumbers DEF Decrease
  <1>3. ~(Cardinality(Newly(s, d)) > policy.maxNewNormalLiquidatable)
    <2>1. Newly(s, d) \subseteq Newly(s, c)
      BY <1>1, LiquidatableShrinks DEF Newly
    <2>2. Cardinality(Newly(s, d)) <= Cardinality(Newly(s, c))
      BY <2>1, NewlyFinite, FS_Subset
    <2>3. Cardinality(Newly(s, d)) \in Nat /\ Cardinality(Newly(s, c)) \in Nat
      BY NewlyFinite
    <2>4. ~(Cardinality(Newly(s, c)) > policy.maxNewNormalLiquidatable)
      BY AdmissibleMeans
    <2> QED  BY <2>2, <2>3, <2>4, PolicyNumbers
  <1>4. ~(Exposure(s, d, policy) * BPS > Limit(s, policy))
    <2>1. PICK low : low = Exposure(s, d, policy)
      OBVIOUS
    <2>2. PICK high : high = Exposure(s, c, policy)
      OBVIOUS
    <2>3. low \in Nat /\ high \in Nat /\ low <= high /\ BPS \in Nat
      BY <2>1, <2>2, ExposureShrinks, PolicyNumbers
    <2>4. low * BPS <= high * BPS /\ low * BPS \in Nat /\ high * BPS \in Nat
      BY <2>3, Products
    <2>5. ~(high * BPS > Limit(s, policy))
      BY <2>2, AdmissibleMeans
    <2> QED  BY <2>1, <2>4, <2>5, LimitInNat
  <1> QED  BY <1>2, <1>3, <1>4, AdmissibleMeans

\* Leaving the threshold alone adds nothing to what a policy limits.
LEMMA NoChangeAdmissible ==
    ASSUME NEW s, IsSnapshot(s), NEW policy \in Policies, policy.stressExposureMode = "incremental"
    PROVE  Engine!Admissible(s, s.liquidationThresholdBps, policy)
  <1> DEFINE c == s.liquidationThresholdBps
  <1>1. Decrease(s, c) = 0
    BY DEF Decrease, IsSnapshot
  <1>2. Newly(s, c) = {} /\ Cardinality({}) = 0
    BY FS_EmptySet DEF Newly
  <1>3. Exposure(s, c, policy) = 0
    <2>1. StressDebt(s, c, policy) \in Nat
      BY DebtOfPart DEF StressDebt
    <2> QED  BY <2>1 DEF Exposure, Additional
  <1>4. Exposure(s, c, policy) * BPS = 0
    BY <1>3, PolicyNumbers
  <1> HIDE DEF c
  <1> QED  BY <1>1, <1>2, <1>4, PolicyNumbers, LimitInNat, AdmissibleMeans DEF c

LEMMA SearchFinds ==
    ASSUME NEW s, IsSnapshot(s), NEW policy \in Policies, NEW proposed \in Nat
    PROVE  LET value == Engine!Search(s, proposed, policy) IN
           \/ /\ value = -1
              /\ \A c \in (proposed + 1)..s.liquidationThresholdBps : ~Engine!Admissible(s, c, policy)
           \/ /\ value \in (proposed + 1)..s.liquidationThresholdBps
              /\ Engine!Admissible(s, value, policy)
              /\ \A c \in (proposed + 1)..s.liquidationThresholdBps :
                    Engine!Admissible(s, c, policy) => value <= c
  <1> DEFINE safe == {c \in (proposed + 1)..s.liquidationThresholdBps : Engine!Admissible(s, c, policy)}
  <1>1. safe \in SUBSET Nat
    BY DEF IsSnapshot
  <1>2. CASE safe = {}
    <2>1. Engine!Search(s, proposed, policy) = -1
      BY <1>2 DEF Engine!Search, Engine!NoValue
    <2> QED  BY <1>2, <2>1
  <1>3. CASE safe # {}
    <2>1. \E c \in safe : \A d \in safe : c <= d
      BY <1>1, <1>3, SmallestInSet
    <2>2. PICK value : value = CHOOSE c \in safe : \A d \in safe : c <= d
      OBVIOUS
    <2>3. value \in safe /\ \A d \in safe : value <= d
      BY <2>1, <2>2
    <2>4. Engine!Search(s, proposed, policy) = value
      BY <1>3, <2>2 DEF Engine!Search
    <2> QED  BY <2>3, <2>4
  <1> QED  BY <1>2, <1>3

\* The answer about any snapshot.
LEMMA AnswerIsBoundary ==
    ASSUME NEW s, IsSnapshot(s), NEW policy \in Policies, NEW proposed \in Nat,
           proposed < s.liquidationThresholdBps
    PROVE  LET answer == Engine!AssessAndRecommend(s, proposed, policy)
               boundary == CASE answer.status = "NOT_NEEDED"    -> proposed
                             [] answer.status = "NO_SAFE_VALUE" -> s.liquidationThresholdBps + 1
                             [] OTHER                           -> answer.value
           IN  /\ \A c \in proposed..s.liquidationThresholdBps :
                     Engine!Admissible(s, c, policy) <=> c >= boundary
               /\ answer.status = "NO_SAFE_VALUE" => policy.stressExposureMode = "absolute"
               /\ answer.status = "NO_CHANGE" => answer.value = s.liquidationThresholdBps
  <1>1. PICK lt : lt = s.liquidationThresholdBps
    OBVIOUS
  <1>2. lt \in Nat /\ proposed < lt
    BY <1>1 DEF IsSnapshot
  <1>3. PICK answer : answer = Engine!AssessAndRecommend(s, proposed, policy)
    OBVIOUS
  <1>4. CASE Engine!Admissible(s, proposed, policy)
    <2>1. answer.status = "NOT_NEEDED"
      BY <1>3, <1>4 DEF Engine!AssessAndRecommend
    <2>2. \A c \in proposed..lt : Engine!Admissible(s, c, policy) /\ c >= proposed
      BY <1>2, <1>4, AdmissibleAbove
    <2> QED  BY <1>1, <1>3, <2>1, <2>2
  <1>5. CASE ~Engine!Admissible(s, proposed, policy)
    <2>1. PICK value : value = Engine!Search(s, proposed, policy)
      OBVIOUS
    <2>2. answer.value = value /\ answer.status = CASE value = -1 -> "NO_SAFE_VALUE"
                                                    [] value = lt -> "NO_CHANGE"
                                                    [] OTHER -> "RECOMMENDED"
      BY <1>1, <1>3, <1>5, <2>1 DEF Engine!AssessAndRecommend, Engine!NoValue
    <2>3. \/ /\ value = -1
             /\ \A c \in (proposed + 1)..lt : ~Engine!Admissible(s, c, policy)
          \/ /\ value \in (proposed + 1)..lt
             /\ Engine!Admissible(s, value, policy)
             /\ \A c \in (proposed + 1)..lt : Engine!Admissible(s, c, policy) => value <= c
      BY <1>1, <2>1, SearchFinds
    <2>4. CASE value = -1
      <3>1. answer.status = "NO_SAFE_VALUE"
        BY <1>2, <2>2, <2>4
      <3>2. \A c \in proposed..lt : ~Engine!Admissible(s, c, policy) /\ ~(c >= lt + 1)
        <4> SUFFICES ASSUME NEW c \in proposed..lt
                     PROVE  ~Engine!Admissible(s, c, policy) /\ ~(c >= lt + 1)
          OBVIOUS
        <4>1. c = proposed \/ c \in (proposed + 1)..lt
          BY <1>2
        <4>2. \A d \in (proposed + 1)..lt : ~Engine!Admissible(s, d, policy)
          BY <2>3, <2>4
        <4> QED  BY <1>2, <1>5, <4>1, <4>2
      <3>3. policy.stressExposureMode = "absolute"
        <4>1. lt \in proposed..lt
          BY <1>2
        <4>2. ~Engine!Admissible(s, lt, policy)
          BY <3>2, <4>1
        <4> QED  BY <1>1, <4>2, NoChangeAdmissible, PolicyNumbers
      <3> QED  BY <1>1, <1>3, <3>1, <3>2, <3>3
    <2>5. CASE value # -1
      <3>1. value \in (proposed + 1)..lt /\ value \in Nat
        BY <1>2, <2>3, <2>5
      <3>2. /\ answer.status \in {"NO_CHANGE", "RECOMMENDED"}
            /\ answer.status = "NO_CHANGE" => answer.value = lt
        BY <2>2, <2>5
      <3>3. \A c \in proposed..lt : Engine!Admissible(s, c, policy) <=> c >= value
        <4> SUFFICES ASSUME NEW c \in proposed..lt
                     PROVE  Engine!Admissible(s, c, policy) <=> c >= value
          OBVIOUS
        <4>1. c \in Nat
          BY <1>2
        <4>2. c = proposed \/ c \in (proposed + 1)..lt
          BY <1>2
        <4>3. CASE c >= value
          <5>1. Engine!Admissible(s, value, policy)
            BY <2>3, <2>5
          <5> QED  BY <3>1, <4>1, <4>3, <5>1, AdmissibleAbove
        <4>4. CASE ~(c >= value)
          <5>1. \A d \in (proposed + 1)..lt : Engine!Admissible(s, d, policy) => value <= d
            BY <2>3, <2>5
          <5> QED  BY <1>5, <3>1, <4>1, <4>2, <4>4, <5>1
        <4> QED  BY <4>3, <4>4
      <3> QED  BY <1>1, <1>3, <2>2, <3>2, <3>3
    <2> QED  BY <2>4, <2>5
  <1> QED  BY <1>4, <1>5

\* The snapshot of an index that follows the market is a snapshot of it.
LEMMA SnapshotOfMarket ==
    ASSUME Finite, IndexInv, Indexed
    PROVE  /\ IsSnapshot(Snapshot)
           /\ Snapshot.liquidationThresholdBps = liquidationThresholdBps
           /\ Snapshot.collateralPriceUsdE18 = collateralPriceUsdE18
           /\ DOMAIN Snapshot.positions \subseteq Addresses
           /\ \A a \in Addresses : positions[a]
                 = IF a \in DOMAIN Snapshot.positions THEN Snapshot.positions[a] ELSE NoPosition
  <1>1. PICK i : i = [market |-> market, entities |-> entities]
    OBVIOUS
  <1>2. PICK final : final = Chain
    OBVIOUS
  <1>3. Tells(i, final)
    BY <1>1 DEF IndexInv, IndexIn
  <1>4. i.market = market /\ i.entities = entities
    BY <1>1
  <1>5. /\ \A f \in Parameters : market[f] = Chain[f]
        /\ DOMAIN entities \subseteq Addresses /\ market.totalDebt = totalDebt
        /\ \A a \in Addresses :
              positions[a] = IF a \in DOMAIN entities THEN entities[a] ELSE NoPosition
    BY <1>2, <1>3, <1>4 DEF Tells, TellsPositions
  <1>6. /\ market.liquidationThresholdBps = liquidationThresholdBps
        /\ market.collateralPriceUsdE18 = collateralPriceUsdE18
    BY <1>5 DEF Parameters, Chain
  <1>7. /\ Snapshot.positions = entities /\ Snapshot.totalDebt = totalDebt
        /\ Snapshot.liquidationThresholdBps = liquidationThresholdBps
        /\ Snapshot.collateralPriceUsdE18 = collateralPriceUsdE18
    BY <1>5, <1>6 DEF Snapshot
  <1>8. /\ liquidationThresholdBps \in Nat /\ collateralPriceUsdE18 \in Nat /\ totalDebt \in Nat
        /\ \A a \in Addresses : positions[a] \in [collateralAmount: Nat, debtAmount: Nat]
    BY PositionParts, PositionInTotal, MarketAssumption DEF IndexInv, IInv, TypeOK, Uint
  <1>9. IsFiniteSet(DOMAIN entities)
    BY <1>5, AddressesFinite, FS_Subset
  <1>10. \A a \in DOMAIN entities : entities[a] \in [collateralAmount: Nat, debtAmount: Nat]
    BY <1>5, <1>8
  <1> QED  BY <1>5, <1>7, <1>8, <1>9, <1>10 DEF IsSnapshot

\* For every policy the service accepts and every market, what the engine
\* recommends is the least admissible threshold above the proposed one.
THEOREM RecommendsBoundary ==
    ASSUME Finite
    PROVE  IndexSpec => []RecommendationIsBoundary
  <1>1. IndexInv => RecommendationIsBoundary
    <2> SUFFICES ASSUME IndexInv, Indexed, NEW policy \in Policies, NEW proposed \in Thresholds,
                        Engine!Accepted(Snapshot, proposed, policy)
                 PROVE  LET answer == Engine!AssessAndRecommend(Snapshot, proposed, policy)
                            boundary == CASE answer.status = "NOT_NEEDED"    -> proposed
                                          [] answer.status = "NO_SAFE_VALUE" -> liquidationThresholdBps + 1
                                          [] OTHER                           -> answer.value
                        IN  /\ \A c \in proposed..liquidationThresholdBps :
                                  Engine!Admissible(Snapshot, c, policy) <=> c >= boundary
                            /\ answer.status = "NO_SAFE_VALUE" => policy.stressExposureMode = "absolute"
                            /\ answer.status = "NO_CHANGE" => answer.value = liquidationThresholdBps
      BY DEF RecommendationIsBoundary
    <2>1. PICK s : s = Snapshot
      OBVIOUS
    <2>2. IsSnapshot(s) /\ s.liquidationThresholdBps = liquidationThresholdBps
      BY <2>1, SnapshotOfMarket
    <2>3. proposed \in Nat /\ proposed < s.liquidationThresholdBps
      BY <2>1, MarketAssumption DEF Engine!Accepted
    <2> QED  BY <2>1, <2>2, <2>3, AnswerIsBoundary
  <1> QED  BY <1>1, IndexInvariance, PTL

(***************************************************************************)
(* What the simulation says and what the chain does                        *)
(***************************************************************************)

UnhealthyAt(threshold, price) ==
    {a \in Addresses : /\ positions[a].debtAmount > 0
                       /\ HealthFactor(positions[a], threshold, price) < WAD}

LEMMA EngineSeesUnhealthy ==
    ASSUME Finite, IndexInv, Indexed, NEW s, s = Snapshot, NEW threshold, NEW price
    PROVE  /\ Engine!Liquidatable(s, threshold, price) = UnhealthyAt(threshold, price)
           /\ \A a \in DOMAIN s.positions : Engine!DebtValue(s.positions[a]) = DebtValue(positions[a])
  <1>1. /\ IsSnapshot(s) /\ DOMAIN s.positions \subseteq Addresses
        /\ \A a \in Addresses :
              positions[a] = IF a \in DOMAIN s.positions THEN s.positions[a] ELSE NoPosition
    BY SnapshotOfMarket
  <1>2. ASSUME NEW a \in Addresses
        PROVE  a \in Engine!Liquidatable(s, threshold, price) <=> a \in UnhealthyAt(threshold, price)
    <2>1. CASE a \in DOMAIN s.positions
      <3>1. PICK p : p = s.positions[a]
        OBVIOUS
      <3>2. p = positions[a] /\ p \in [collateralAmount: Nat, debtAmount: Nat]
        BY <1>1, <2>1, <3>1 DEF IsSnapshot
      <3>3. Engine!DebtValue(p) = DebtValue(p) /\ DebtValue(p) \in Nat
        BY <3>2, DebtValueInNat
      <3>4. DebtValue(p) > 0 <=> p.debtAmount > 0
        <4>1. p.debtAmount \in Nat /\ WAD \in Nat /\ DebtScale \in Nat /\ DebtScale > 0
          BY <3>2, MarketAssumption
        <4>2. CASE p.debtAmount > 0
          BY <3>2, <3>3, <4>2, DebtHasValue
        <4>3. CASE p.debtAmount = 0
          <5>1. p.debtAmount * WAD = 0
            BY <4>1, <4>3
          <5>2. DebtValue(p) = 0
            BY <4>1, <5>1, ZeroQuotient DEF DebtValue
          <5> QED  BY <4>3, <5>2
        <4> QED  BY <4>1, <4>2, <4>3
      <3>5. Engine!Adjusted(p, threshold, price) = Adjusted(p, threshold, price)
        BY DEF Engine!Adjusted, Engine!CollateralValue, Adjusted, CollateralValue
      <3>6. p.debtAmount > 0 =>
               HealthFactor(p, threshold, price)
                  = (Engine!Adjusted(p, threshold, price) * WAD) \div Engine!DebtValue(p)
        BY <3>3, <3>5 DEF HealthFactor
      <3>7. a \in Engine!Liquidatable(s, threshold, price)
               <=> /\ Engine!DebtValue(p) > 0
                   /\ (Engine!Adjusted(p, threshold, price) * WAD) \div Engine!DebtValue(p) < WAD
        BY <2>1, <3>1 DEF Engine!Liquidatable
      <3> QED  BY <3>2, <3>3, <3>4, <3>6, <3>7 DEF UnhealthyAt
    <2>2. CASE a \notin DOMAIN s.positions
      <3>1. positions[a].debtAmount = 0
        BY <1>1, <2>2 DEF NoPosition
      <3> QED  BY <2>2, <3>1 DEF Engine!Liquidatable, UnhealthyAt
    <2> QED  BY <2>1, <2>2
  <1>3. Engine!Liquidatable(s, threshold, price) \subseteq Addresses
    BY <1>1 DEF Engine!Liquidatable
  <1>4. Engine!Liquidatable(s, threshold, price) = UnhealthyAt(threshold, price)
    BY <1>2, <1>3 DEF UnhealthyAt
  <1>5. ASSUME NEW a \in DOMAIN s.positions
        PROVE  Engine!DebtValue(s.positions[a]) = DebtValue(positions[a])
    BY <1>1, DebtValueInNat DEF IsSnapshot
  <1> QED  BY <1>4, <1>5

\* Who is unhealthy once the parameters have changed.
LEMMA UnhealthyAfter ==
    ASSUME UNCHANGED positions
    PROVE  Unhealthy' = UnhealthyAt(liquidationThresholdBps', collateralPriceUsdE18')
  BY DEF Unhealthy, UnhealthyAt, Health

Debts == [a \in Addresses |-> DebtValue(positions[a])]

LEMMA UnhealthyDebtIsSum == UnhealthyDebt = SumOver(Debts, Unhealthy)
  BY Zenon DEF UnhealthyDebt, SumOver, Debts

LEMMA UnhealthyDebtIsSumAfter == UnhealthyDebt' = SumOver(Debts', Unhealthy')
  <1>1. UnhealthyDebt = SumOver(Debts, Unhealthy)
    BY UnhealthyDebtIsSum
  <1>2. (UnhealthyDebt = SumOver(Debts, Unhealthy))'
    BY <1>1, PTL
  <1> QED  BY <1>2

\* A parameter changes alone.
LEMMA ParameterSteps ==
    ASSUME Transaction \/ FirstBlock
    PROVE  /\ liquidationThresholdBps' # liquidationThresholdBps
                 => UNCHANGED <<positions, collateralPriceUsdE18>>
           /\ collateralPriceUsdE18' # collateralPriceUsdE18
                 => UNCHANGED <<positions, liquidationThresholdBps>>
  <1>1. CASE FirstBlock
    BY <1>1 DEF FirstBlock, vars, parameters, accounting
  <1>2. CASE Transaction
    <2>1. Next
      BY <1>2 DEF Transaction
    <2>2. \/ UNCHANGED <<liquidationThresholdBps, collateralPriceUsdE18>>
          \/ \E sender \in Accounts, t \in Thresholds : SetLiquidationThresholdBps(sender, t)
          \/ \E sender \in Accounts, p \in Prices : SetCollateralPriceUsdE18(sender, p)
      BY <2>1, Steps DEF DepositCollateral, Borrow, Repay, WithdrawCollateral, SeedPosition,
                         TransferOwnership, TokenTransfer, Mint, parameters
    <2> QED  BY <2>2 DEF SetLiquidationThresholdBps, SetCollateralPriceUsdE18, accounting
  <1> QED  BY <1>1, <1>2

\* What the property says of one step and one policy.
Foretells(policy) ==
    LET sim(lt) == Engine!Simulate(Snapshot, lt, policy.stressBps)
        fits(lt) == Engine!SimulationFits(Snapshot, lt, policy.stressBps)
    IN  /\ (liquidationThresholdBps' < liquidationThresholdBps /\ fits(liquidationThresholdBps'))
             => Unhealthy' \ Unhealthy = sim(liquidationThresholdBps').newlyLiquidatable
        /\ (/\ collateralPriceUsdE18' # collateralPriceUsdE18
            /\ collateralPriceUsdE18' = Engine!StressedPrice(Snapshot, policy.stressBps)
            /\ fits(liquidationThresholdBps))
             => UnhealthyDebt' = sim(liquidationThresholdBps).currentStressDebt

LEMMA StepForetold ==
    ASSUME Finite, IndexInv, Indexed, Transaction \/ FirstBlock, NEW policy \in Policies
    PROVE  Foretells(policy)
  <1>1. PICK s : s = Snapshot
    OBVIOUS
  <1>2. PICK lt : lt = liquidationThresholdBps
    OBVIOUS
  <1>3. PICK newLt : newLt = liquidationThresholdBps'
    OBVIOUS
  <1>4. PICK price : price = collateralPriceUsdE18
    OBVIOUS
  <1>5. PICK newPrice : newPrice = collateralPriceUsdE18'
    OBVIOUS
  <1>6. s.liquidationThresholdBps = lt /\ s.collateralPriceUsdE18 = price /\ lt \in Nat
    BY <1>1, <1>2, <1>4, SnapshotOfMarket DEF IsSnapshot
  <1>7. Unhealthy = UnhealthyAt(lt, price)
    BY <1>2, <1>4 DEF Unhealthy, UnhealthyAt, Health
  <1>8. ASSUME newLt < lt
        PROVE  Unhealthy' \ Unhealthy = Engine!Simulate(s, newLt, policy.stressBps).newlyLiquidatable
    <2>1. positions' = positions /\ newPrice = price
      BY <1>2, <1>3, <1>4, <1>5, <1>6, <1>8, ParameterSteps
    <2>2. Unhealthy' = UnhealthyAt(newLt, price)
      BY <1>3, <1>5, <2>1, UnhealthyAfter
    <2>3. /\ Engine!Liquidatable(s, newLt, price) = UnhealthyAt(newLt, price)
          /\ Engine!Liquidatable(s, lt, price) = UnhealthyAt(lt, price)
      BY <1>1, EngineSeesUnhealthy
    <2>4. Engine!Simulate(s, newLt, policy.stressBps).newlyLiquidatable
             = Engine!Liquidatable(s, newLt, price) \ Engine!Liquidatable(s, lt, price)
      BY <1>6 DEF Engine!Simulate
    <2> QED  BY <1>7, <2>2, <2>3, <2>4
  <1>9. ASSUME newPrice # price, newPrice = Engine!StressedPrice(s, policy.stressBps)
        PROVE  UnhealthyDebt' = Engine!Simulate(s, lt, policy.stressBps).currentStressDebt
    <2>1. positions' = positions /\ newLt = lt
      BY <1>2, <1>3, <1>4, <1>5, <1>9, ParameterSteps
    <2>2. PICK S : S = UnhealthyAt(lt, newPrice)
      OBVIOUS
    <2>3. Unhealthy' = S
      BY <1>3, <1>5, <2>1, <2>2, UnhealthyAfter
    <2>4. PICK f : f = [a \in Addresses |-> DebtValue(positions[a])]
      OBVIOUS
    <2>5. PICK h : h = [a \in DOMAIN s.positions |-> Engine!DebtValue(s.positions[a])]
      OBVIOUS
    <2>6. UnhealthyDebt' = SumOver(f, S)
      <3>1. f = Debts'
        BY <2>1, <2>4 DEF Debts
      <3> QED  BY <2>3, <3>1, UnhealthyDebtIsSumAfter
    <2>7. /\ Engine!Liquidatable(s, lt, newPrice) = S
          /\ \A a \in DOMAIN s.positions : Engine!DebtValue(s.positions[a]) = DebtValue(positions[a])
          /\ DOMAIN s.positions \subseteq Addresses
      BY <1>1, <2>2, EngineSeesUnhealthy, SnapshotOfMarket
    <2>8. \A a \in S : f[a] = h[a]
      <3>1. S \subseteq DOMAIN s.positions
        BY <2>7 DEF Engine!Liquidatable
      <3> QED  BY <2>4, <2>5, <2>7, <3>1
    <2>9. SumOver(f, S) = SumOver(h, S)
      BY <2>8, SumOverSame
    <2>10. Engine!LiquidatableDebt(s, lt, newPrice) = SumOver(h, S)
      <3>1. Engine!LiquidatableDebt(s, lt, newPrice) = Total(h, S)
        BY <1>1, <2>5, <2>7, DebtOfPart, SnapshotOfMarket
      <3>2. IsFiniteSet(DOMAIN h) /\ S \in SUBSET DOMAIN h
        BY <1>1, <2>5, <2>7, SnapshotOfMarket DEF IsSnapshot, Engine!Liquidatable
      <3>3. SumOver(h, S) = Total(h, S)
        BY <3>2, SumOverIsTotal
      <3> QED  BY <3>1, <3>3
    <2>11. Engine!Simulate(s, lt, policy.stressBps).currentStressDebt
              = Engine!LiquidatableDebt(s, lt, newPrice)
      BY <1>6, <1>9 DEF Engine!Simulate
    <2> QED  BY <2>6, <2>9, <2>10, <2>11
  <1> QED  BY <1>1, <1>2, <1>3, <1>4, <1>5, <1>8, <1>9 DEF Foretells

\* For every policy and market: the accounts a lower threshold makes liquidatable are
\* the simulated ones, and so is the debt a fall of the price to the stressed one puts
\* at risk.
THEOREM SimulationIsForetelling ==
    ASSUME Finite
    PROVE  IndexSpec => SimulationForetells
  <1>1. IndexInv /\ [Transaction \/ FirstBlock]_allVars
           => [Indexed => \A policy \in Policies : Foretells(policy)]_allVars
    BY StepForetold
  <1>2. (IndexSpec /\ []IndexInv) => [][Indexed => \A policy \in Policies : Foretells(policy)]_allVars
    BY <1>1, PTL DEF IndexSpec
  <1>3. (Indexed => \A policy \in Policies : Foretells(policy))
          <=> (Indexed => \A policy \in Policies :
                 LET sim(lt) == Engine!Simulate(Snapshot, lt, policy.stressBps)
                     fits(lt) == Engine!SimulationFits(Snapshot, lt, policy.stressBps)
                 IN  /\ (liquidationThresholdBps' < liquidationThresholdBps /\ fits(liquidationThresholdBps'))
                          => Unhealthy' \ Unhealthy = sim(liquidationThresholdBps').newlyLiquidatable
                     /\ (/\ collateralPriceUsdE18' # collateralPriceUsdE18
                         /\ collateralPriceUsdE18' = Engine!StressedPrice(Snapshot, policy.stressBps)
                         /\ fits(liquidationThresholdBps))
                          => UnhealthyDebt' = sim(liquidationThresholdBps).currentStressDebt)
    BY DEF Foretells
  <1> QED  BY <1>2, <1>3, IndexInvariance, PTL DEF SimulationForetells
=============================================================================
