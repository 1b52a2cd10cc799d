-------------------------- MODULE HwalLedger_proofs -------------------------
(***************************************************************************)
(* Theorems about the lamports and the statistics of the whole program,    *)
(* for all values of the constants.                                        *)
(*                                                                         *)
(* A total over accounts is a fold, that is a recursive function on sets.  *)
(* What it computes is proved by the smallest counterexample: the family   *)
(* of sets of accounts for which a claim fails, were it not empty, would   *)
(* have a smallest member (SmallestSubset), and taking one account out of  *)
(* it leads to a contradiction.                                            *)
(***************************************************************************)
EXTENDS HwalLedger, Hwal_proofs, FiniteSetTheorems

-----------------------------------------------------------------------------
(* Totals: the fold computes what its recursion says *)

\* Every nonempty family of subsets of a finite set has a smallest member:
\* the form in which induction over sets is used here.
LEMMA SmallestSubset ==
    ASSUME NEW S, IsFiniteSet(S), NEW F \in SUBSET (SUBSET S), F # {}
    PROVE  \E T \in F : \A U \in F : U \subseteq T => U = T
<1>1. IsWellFoundedOn(StrictSubsetOrdering(S), SUBSET S)
  BY FS_FiniteSubsetsOfFinite, FS_StrictSubsetOrderingWellFounded
<1>2. PICK T \in F : \A U \in F : <<U, T>> \notin StrictSubsetOrdering(S)
  BY <1>1, WFMin
<1> QED
  BY <1>2 DEF StrictSubsetOrdering

\* The partial sums a fold over S computes.
IsTable(f, S, h) ==
    h = [T \in SUBSET S |->
            IF T = {} THEN 0 ELSE LET a == CHOOSE a \in T : TRUE IN f[a] + h[T \ {a}]]

LEMMA TotalIsInTable ==
    ASSUME NEW f, NEW S, \E h : IsTable(f, S, h)
    PROVE  \E h : IsTable(f, S, h) /\ Total(f, S) = h[S]
BY DEF Total, MapThenSumSet, MapThenFoldSet, IsTable

\* The tables of two sets agree where both are defined.
LEMMA TablesAgree ==
    ASSUME NEW f, NEW S, IsFiniteSet(S), NEW R \in SUBSET S, NEW g, NEW h,
           IsTable(f, S, g), IsTable(f, R, h)
    PROVE  \A T \in SUBSET R : g[T] = h[T]
<1> DEFINE F == {T \in SUBSET R : g[T] # h[T]}
<1> SUFFICES ASSUME NEW D \in SUBSET R, g[D] # h[D]
             PROVE  FALSE
    OBVIOUS
<1>1. D \in F /\ F \in SUBSET (SUBSET R)
  OBVIOUS
<1>2. IsFiniteSet(R)
  BY FS_Subset
<1>3. PICK T \in SUBSET R : /\ g[T] # h[T]
                           /\ \A U \in SUBSET T : U # T => g[U] = h[U]
  <2> HIDE DEF F
  <2>1. PICK T \in F : \A U \in F : U \subseteq T => U = T
    BY <1>1, <1>2, SmallestSubset
  <2> QED
    BY <2>1 DEF F
<1> DEFINE a == CHOOSE a \in T : TRUE
<1>4. CASE T = {}
  BY <1>3, <1>4 DEF IsTable
<1>5. CASE T # {}
  <2>1. a \in T
    BY <1>5
  <2>2. g[T] = f[a] + g[T \ {a}] /\ h[T] = f[a] + h[T \ {a}]
    BY <1>3, <1>5 DEF IsTable
  <2>3. g[T \ {a}] = h[T \ {a}]
    BY <1>3, <2>1
  <2> QED
    BY <1>3, <2>2, <2>3
<1> QED
  BY <1>4, <1>5

\* The total over a finite set is defined by recursion: there is a table.
LEMMA TableExists ==
    ASSUME NEW f, NEW S, IsFiniteSet(S)
    PROVE  \E h : IsTable(f, S, h)
<1> DEFINE F == {T \in SUBSET S : ~ \E h : IsTable(f, T, h)}
<1> SUFFICES ASSUME ~ \E h : IsTable(f, S, h)
             PROVE  FALSE
    OBVIOUS
<1>1. S \in F /\ F \in SUBSET (SUBSET S)
  OBVIOUS
<1>2. PICK T \in SUBSET S :
          /\ ~ \E h : IsTable(f, T, h)
          /\ \A U \in SUBSET T : U # T => \E h : IsTable(f, U, h)
  <2> HIDE DEF F
  <2>1. PICK T \in F : \A U \in F : U \subseteq T => U = T
    BY <1>1, SmallestSubset
  <2> QED
    BY <2>1 DEF F
<1> DEFINE first(U) == CHOOSE a \in U : TRUE
           t == [U \in SUBSET T |->
                    IF U = {} THEN 0 ELSE f[first(U)] + Total(f, U \ {first(U)})]
<1>3. ASSUME NEW U \in SUBSET T, U # T
      PROVE  Total(f, U) = t[U]
  <2>1. IsFiniteSet(U) /\ \E g : IsTable(f, U, g)
    BY <1>2, <1>3, FS_Subset
  <2>2. PICK g : IsTable(f, U, g) /\ Total(f, U) = g[U]
    BY <2>1, TotalIsInTable
  <2>3. CASE U = {}
    BY <2>2, <2>3 DEF IsTable
  <2>4. CASE U # {}
    <3> DEFINE V == U \ {first(U)}
    <3>1. first(U) \in U
      BY <2>4
    <3>2. V \in SUBSET U /\ \E h : IsTable(f, V, h)
      BY <1>2, <1>3, <3>1
    <3>3. PICK h : IsTable(f, V, h) /\ Total(f, V) = h[V]
      BY <3>2, TotalIsInTable
    <3> HIDE DEF V
    <3>4. g[V] = h[V]
      BY <2>1, <2>2, <3>2, <3>3, TablesAgree
    <3>5. g[U] = f[first(U)] + g[V]
      BY <2>2, <2>4 DEF IsTable, V
    <3> QED
      BY <2>2, <2>4, <3>3, <3>4, <3>5 DEF V
  <2> QED
    BY <2>3, <2>4
<1>4. IsTable(f, T, t)
  <2>1. ASSUME NEW U \in SUBSET T, U # {}
        PROVE  t[U] = f[first(U)] + t[U \ {first(U)}]
    <3>1. first(U) \in U
      BY <2>1
    <3>2. U \ {first(U)} # T /\ U \ {first(U)} \in SUBSET T
      BY <3>1
    <3>3. Total(f, U \ {first(U)}) = t[U \ {first(U)}]
      BY <1>3, <3>2
    <3>4. t[U] = f[first(U)] + Total(f, U \ {first(U)})
      BY <2>1
    <3> QED
      BY <3>3, <3>4
  <2>2. t = [U \in SUBSET T |-> IF U = {} THEN 0
                ELSE LET a == CHOOSE a \in U : TRUE IN f[a] + t[U \ {a}]]
    BY <2>1
  <2> HIDE DEF t
  <2> QED
    BY <2>2 DEF IsTable
<1> QED
  BY <1>2, <1>4

\* The total over a finite set, one account at a time.
LEMMA TotalByAccount ==
    ASSUME NEW f, NEW S, IsFiniteSet(S)
    PROVE  /\ Total(f, {}) = 0
           /\ \A T \in SUBSET S : T # {} =>
                \E a \in T : Total(f, T) = f[a] + Total(f, T \ {a})
<1>1. PICK g : IsTable(f, S, g)
  BY TableExists
<1>2. ASSUME NEW T \in SUBSET S
      PROVE  Total(f, T) = g[T]
  <2>1. IsFiniteSet(T)
    BY FS_Subset
  <2>2. PICK h : IsTable(f, T, h) /\ Total(f, T) = h[T]
    BY <2>1, TableExists, TotalIsInTable
  <2> QED
    BY <1>1, <2>2, TablesAgree
<1>3. Total(f, {}) = 0
  BY <1>1, <1>2 DEF IsTable
<1>4. ASSUME NEW T \in SUBSET S, T # {}
      PROVE  \E a \in T : Total(f, T) = f[a] + Total(f, T \ {a})
  <2> DEFINE a == CHOOSE a \in T : TRUE
  <2>1. a \in T
    BY <1>4
  <2>2. g[T] = f[a] + g[T \ {a}]
    BY <1>1, <1>4 DEF IsTable
  <2>3. Total(f, T) = g[T] /\ Total(f, T \ {a}) = g[T \ {a}]
    BY <1>2
  <2> QED
    BY <2>1, <2>2, <2>3
<1> QED
  BY <1>3, <1>4
-----------------------------------------------------------------------------
(* Facts about totals *)

LEMMA TotalType ==
    ASSUME NEW f, NEW S, IsFiniteSet(S), \A a \in S : f[a] \in Int
    PROVE  Total(f, S) \in Int
<1> DEFINE F == {T \in SUBSET S : Total(f, T) \notin Int}
<1> SUFFICES ASSUME S \in F
             PROVE  FALSE
    OBVIOUS
<1>1. F \in SUBSET (SUBSET S)
  OBVIOUS
<1>2. PICK T \in SUBSET S : /\ Total(f, T) \notin Int
                            /\ \A U \in SUBSET T : U # T => Total(f, U) \in Int
  <2> HIDE DEF F
  <2>1. PICK T \in F : \A U \in F : U \subseteq T => U = T
    BY <1>1, SmallestSubset
  <2> QED
    BY <2>1 DEF F
<1>3. T # {}
  <2>1. Total(f, {}) \in Int
    BY TotalByAccount
  <2> QED
    BY <1>2, <2>1
<1>4. PICK a \in T : Total(f, T) = f[a] + Total(f, T \ {a})
  BY <1>3, TotalByAccount
<1>5. Total(f, T \ {a}) \in Int
  BY <1>2, <1>4
<1> QED
  BY <1>2, <1>4, <1>5

\* Any account may be taken out of a total.
LEMMA TotalWithout ==
    ASSUME NEW f, NEW S, IsFiniteSet(S), \A a \in S : f[a] \in Int, NEW x \in S
    PROVE  Total(f, S) = f[x] + Total(f, S \ {x})
<1> DEFINE Good(T) == \A y \in T : Total(f, T) = f[y] + Total(f, T \ {y})
           F == {T \in SUBSET S : ~Good(T)}
<1> SUFFICES ASSUME S \in F
             PROVE  FALSE
    OBVIOUS
<1>1. F \in SUBSET (SUBSET S)
  OBVIOUS
<1>2. PICK T \in SUBSET S : /\ ~Good(T)
                            /\ \A U \in SUBSET T : U # T => Good(U)
  <2> HIDE DEF F, Good
  <2>1. PICK T \in F : \A U \in F : U \subseteq T => U = T
    BY <1>1, SmallestSubset
  <2> QED
    BY <2>1 DEF F
<1>3. PICK y \in T : Total(f, T) # f[y] + Total(f, T \ {y})
  BY <1>2
<1>4. PICK a \in T : Total(f, T) = f[a] + Total(f, T \ {a})
  BY <1>3, TotalByAccount
<1> DEFINE V == (T \ {a}) \ {y}
<1>5. a # y /\ V = (T \ {y}) \ {a}
  BY <1>3, <1>4
<1>6. Total(f, T \ {a}) = f[y] + Total(f, V)
  <2>1. Good(T \ {a}) /\ y \in T \ {a}
    BY <1>2, <1>5
  <2> QED
    BY <2>1
<1>7. Total(f, T \ {y}) = f[a] + Total(f, V)
  <2>1. Good(T \ {y}) /\ a \in T \ {y}
    BY <1>2, <1>5
  <2> QED
    BY <1>5, <2>1
<1>8. Total(f, V) \in Int
  <2>1. V \in SUBSET S
    OBVIOUS
  <2>2. IsFiniteSet(V) /\ \A b \in V : f[b] \in Int
    BY <2>1, FS_Subset
  <2> QED
    BY <2>2, TotalType
<1>9. f[a] \in Int /\ f[y] \in Int
  OBVIOUS
<1> HIDE DEF V
<1> QED
  BY <1>3, <1>4, <1>6, <1>7, <1>8, <1>9

\* Only the balances of the accounts in the set count.
LEMMA TotalSame ==
    ASSUME NEW f, NEW g, NEW S, IsFiniteSet(S),
           \A a \in S : f[a] \in Int /\ f[a] = g[a]
    PROVE  Total(f, S) = Total(g, S)
<1> DEFINE Good(T) == Total(f, T) = Total(g, T)
           F == {T \in SUBSET S : ~Good(T)}
<1> SUFFICES ASSUME S \in F
             PROVE  FALSE
    OBVIOUS
<1>1. F \in SUBSET (SUBSET S)
  OBVIOUS
<1>2. PICK T \in SUBSET S : /\ ~Good(T)
                            /\ \A U \in SUBSET T : U # T => Good(U)
  <2> HIDE DEF F, Good
  <2>1. PICK T \in F : \A U \in F : U \subseteq T => U = T
    BY <1>1, SmallestSubset
  <2> QED
    BY <2>1 DEF F
<1>3. IsFiniteSet(T)
  BY FS_Subset
<1>4. T # {}
  BY <1>2, TotalByAccount
<1>5. PICK a \in T : Total(f, T) = f[a] + Total(f, T \ {a})
  BY <1>4, TotalByAccount
<1>6. Total(g, T) = g[a] + Total(g, T \ {a})
  <2>1. \A b \in T : g[b] \in Int
    OBVIOUS
  <2> QED
    BY <1>3, <2>1, TotalWithout
<1>7. Total(f, T \ {a}) = Total(g, T \ {a})
  <2>1. Good(T \ {a})
    BY <1>2
  <2> QED
    BY <2>1
<1> QED
  BY <1>2, <1>5, <1>6, <1>7

\* A change of one balance changes the total by as much.
LEMMA TotalChange ==
    ASSUME NEW f, NEW g, NEW S, IsFiniteSet(S), NEW x \in S,
           \A a \in S : f[a] \in Int /\ g[a] \in Int,
           \A a \in S : a # x => g[a] = f[a]
    PROVE  Total(g, S) = Total(f, S) + (g[x] - f[x])
<1>1. /\ Total(f, S) = f[x] + Total(f, S \ {x})
      /\ Total(g, S) = g[x] + Total(g, S \ {x})
  BY TotalWithout
<1>2. IsFiniteSet(S \ {x})
  BY FS_RemoveElement
<1>3. Total(f, S \ {x}) = Total(g, S \ {x}) /\ Total(f, S \ {x}) \in Int
  BY <1>2, TotalSame, TotalType
<1> QED
  BY <1>1, <1>3

\* The total of natural numbers over part of a set is at most that over all.
LEMMA TotalOfPart ==
    ASSUME NEW f, NEW S, IsFiniteSet(S), \A a \in S : f[a] \in Nat, NEW R \in SUBSET S
    PROVE  Total(f, R) \in Nat /\ Total(f, R) <= Total(f, S)
<1> DEFINE Good(T) == /\ Total(f, R \cap T) \in Nat
                      /\ Total(f, R \cap T) <= Total(f, T)
           F == {T \in SUBSET S : ~Good(T)}
<1>1. F \in SUBSET (SUBSET S) /\ R \cap S = R
  OBVIOUS
<1> SUFFICES ASSUME S \in F
             PROVE  FALSE
    BY <1>1
<1>2. PICK T \in SUBSET S : /\ ~Good(T)
                            /\ \A U \in SUBSET T : U # T => Good(U)
  <2> HIDE DEF F, Good
  <2>1. PICK T \in F : \A U \in F : U \subseteq T => U = T
    BY <1>1, SmallestSubset
  <2> QED
    BY <2>1 DEF F
<1>3. T # {}
  <2>1. Good({})
    <3>1. R \cap {} = {} /\ Total(f, {}) = 0
      BY TotalByAccount
    <3> QED
      BY <3>1
  <2> HIDE DEF Good
  <2> QED
    BY <1>2, <2>1
<1>4. PICK a \in T : Total(f, T) = f[a] + Total(f, T \ {a})
  BY <1>3, TotalByAccount
<1>5. Good(T \ {a}) /\ f[a] \in Nat
  BY <1>2
<1>6. Total(f, T \ {a}) \in Int
  <2>1. IsFiniteSet(T \ {a})
    BY FS_Subset
  <2>2. \A b \in T \ {a} : f[b] \in Int
    OBVIOUS
  <2> QED
    BY <2>1, <2>2, TotalType
<1>7. CASE a \in R
  <2>1. a \in R \cap T /\ IsFiniteSet(R \cap T) /\ \A b \in R \cap T : f[b] \in Int
    BY <1>7, FS_Subset
  <2>2. (R \cap T) \ {a} = R \cap (T \ {a})
    OBVIOUS
  <2>3. Total(f, R \cap T) = f[a] + Total(f, R \cap (T \ {a}))
    BY <2>1, <2>2, TotalWithout
  <2> QED
    BY <1>2, <1>4, <1>5, <1>6, <2>3
<1>8. CASE a \notin R
  <2>1. R \cap T = R \cap (T \ {a})
    BY <1>8
  <2> QED
    BY <1>2, <1>4, <1>5, <1>6, <2>1
<1> QED
  BY <1>7, <1>8

LEMMA TotalOfZeros ==
    ASSUME NEW f, NEW S, IsFiniteSet(S), \A a \in S : f[a] = 0
    PROVE  Total(f, S) = 0
<1> DEFINE F == {T \in SUBSET S : Total(f, T) # 0}
<1> SUFFICES ASSUME S \in F
             PROVE  FALSE
    OBVIOUS
<1>1. F \in SUBSET (SUBSET S)
  OBVIOUS
<1>2. PICK T \in SUBSET S : /\ Total(f, T) # 0
                            /\ \A U \in SUBSET T : U # T => Total(f, U) = 0
  <2> HIDE DEF F
  <2>1. PICK T \in F : \A U \in F : U \subseteq T => U = T
    BY <1>1, SmallestSubset
  <2> QED
    BY <2>1 DEF F
<1>3. Total(f, {}) = 0
  BY TotalByAccount
<1>4. PICK a \in T : Total(f, T) = f[a] + Total(f, T \ {a})
  BY <1>2, <1>3, TotalByAccount
<1>5. Total(f, T \ {a}) = 0 /\ f[a] = 0
  BY <1>2, <1>4
<1> QED
  BY <1>2, <1>4, <1>5

\* No balance is above the total.
LEMMA BalanceWithinTotal ==
    ASSUME NEW f, NEW S, IsFiniteSet(S), \A a \in S : f[a] \in Nat, NEW x \in S
    PROVE  f[x] <= Total(f, S)
<1>1. Total(f, S) = f[x] + Total(f, S \ {x})
  BY TotalWithout
<1>2. Total(f, S \ {x}) \in Nat
  BY TotalOfPart
<1> QED
  BY <1>1, <1>2

-----------------------------------------------------------------------------
(* What the instructions do to the totals *)

LEMMA KeysAreFinite ==
    /\ IsFiniteSet(PositionKey)
    /\ \A S \in SUBSET Wallets : IsFiniteSet(S)
<1>1. IsFiniteSet(Traders)
  BY HwalAssumption, FinitenessAssumption, FS_Subset
<1>2. \A S \in SUBSET Wallets : IsFiniteSet(S)
  BY FinitenessAssumption, FS_Subset
<1> QED
  BY <1>1, <1>2, FinitenessAssumption, FS_Product DEF PositionKey

\* A credit raises the total of exactly the groups its payee belongs to.
LEMMA CreditTotal ==
    ASSUME NEW b \in [Wallets -> Int], NEW w \in Wallets, NEW x \in Int,
           NEW S \in SUBSET Wallets
    PROVE  /\ Credit(b, w, x) \in [Wallets -> Int]
           /\ Total(Credit(b, w, x), S) = Total(b, S) + (IF w \in S THEN x ELSE 0)
<1> DEFINE c == Credit(b, w, x)
<1>1. c \in [Wallets -> Int] /\ c[w] = b[w] + x
      /\ \A a \in Wallets : a # w => c[a] = b[a]
  BY DEF Credit
<1> HIDE DEF c
<1>2. IsFiniteSet(S) /\ \A a \in S : b[a] \in Int /\ c[a] \in Int
  BY <1>1, KeysAreFinite
<1>3. b[w] \in Int /\ Total(b, S) \in Int
  BY <1>2, TotalType
<1>4. CASE w \in S
  <2>1. Total(c, S) = Total(b, S) + (c[w] - b[w])
    BY <1>1, <1>2, <1>4, TotalChange
  <2> QED
    BY <1>1, <1>3, <1>4, <2>1 DEF c
<1>5. CASE w \notin S
  <2>1. Total(c, S) = Total(b, S)
    BY <1>1, <1>2, <1>5, TotalSame
  <2> QED
    BY <1>1, <1>3, <1>5, <2>1 DEF c
<1> QED
  BY <1>4, <1>5

\* What goes in or out of one position's account shows in the total.
LEMMA VaultTotal ==
    ASSUME Inv, NEW k \in PositionKey, NEW x \in Int,
           vault' = [vault EXCEPT ![k] = vault[k] + x],
           vault' \in [PositionKey -> U64]
    PROVE  Total(vault', PositionKey) = Total(vault, PositionKey) + x
<1>1. /\ vault'[k] = vault[k] + x
      /\ \A j \in PositionKey : j # k => vault'[j] = vault[j]
      /\ \A j \in PositionKey : vault[j] \in Int /\ vault'[j] \in Int
  BY LimitsAssumption DEF Inv, PositionInv, U64
<1>2. Total(vault', PositionKey) = Total(vault, PositionKey) + (vault'[k] - vault[k])
  BY <1>1, KeysAreFinite, TotalChange
<1> QED
  BY <1>1, <1>2, KeysAreFinite, TotalType

\* The balances are naturals, and so are their totals.
LEMMA BalancesTyped ==
    ASSUME Inv
    PROVE  /\ lamports \in [Wallets -> Nat] /\ lamports \in [Wallets -> Int]
           /\ vault \in [PositionKey -> Nat]
           /\ Total(vault, PositionKey) \in Nat
           /\ \A S \in SUBSET Wallets : Total(lamports, S) \in Nat
<1>1. /\ lamports \in [Wallets -> Nat] /\ lamports \in [Wallets -> Int]
      /\ vault \in [PositionKey -> Nat]
  BY LimitsAssumption DEF Inv, PositionInv, U64
<1> QED
  BY <1>1, KeysAreFinite, TotalOfPart

\* The shares of a settlement are amounts and add up to the collateral.
LEMMA PayoutTotal ==
    ASSUME Inv, config # None, NEW keeper \in Wallets, NEW k \in PositionKey,
           NEW amount \in U64, NEW S \in SUBSET Wallets
    PROVE  Total(Payout(keeper, k, amount), S)
             = Total(lamports, S)
                 + (IF config.fee_receiver \in S THEN Fee(amount) ELSE 0)
                 + (IF keeper \in S THEN KeeperReward(amount) ELSE 0)
                 + (IF Owner(k) \in S THEN NetToOwner(amount) ELSE 0)
<1> DEFINE b1 == Credit(lamports, config.fee_receiver, Fee(amount))
           b2 == Credit(b1, keeper, KeeperReward(amount))
<1>1. lamports \in [Wallets -> Int]
  BY BalancesTyped
<1>2. config \in ConfigRecord
  BY DEF Inv, ConfigTypeOK
<1>3. /\ Fee(amount) \in Int /\ KeeperReward(amount) \in Int /\ NetToOwner(amount) \in Int
      /\ config.fee_receiver \in Wallets /\ Owner(k) \in Wallets
  BY <1>2, NetFloor, HwalAssumption DEF ConfigRecord, PositionKey, Owner
<1>4. /\ b1 \in [Wallets -> Int]
      /\ Total(b1, S) = Total(lamports, S)
                          + (IF config.fee_receiver \in S THEN Fee(amount) ELSE 0)
  BY <1>1, <1>3, CreditTotal
<1> HIDE DEF b1
<1>5. /\ b2 \in [Wallets -> Int]
      /\ Total(b2, S) = Total(b1, S) + (IF keeper \in S THEN KeeperReward(amount) ELSE 0)
  BY <1>3, <1>4, CreditTotal
<1> HIDE DEF b2
<1>6. Total(Credit(b2, Owner(k), NetToOwner(amount)), S)
        = Total(b2, S) + (IF Owner(k) \in S THEN NetToOwner(amount) ELSE 0)
  BY <1>3, <1>5, CreditTotal
<1>7. Payout(keeper, k, amount) = Credit(b2, Owner(k), NetToOwner(amount))
  BY DEF Payout, b1, b2
<1> QED
  BY <1>4, <1>5, <1>6, <1>7

-----------------------------------------------------------------------------
(* Conservation *)

\* The four instructions that move lamports, for any group of wallets.
LEMMA OpenMoves ==
    ASSUME Inv, NEW k \in PositionKey, Opens(k)
    PROVE  \E paid \in Int :
               /\ lamports' = Credit(lamports, Owner(k), -paid)
               /\ vault' = [vault EXCEPT ![k] = vault[k] + paid]
<1>1. PICK s \in Symbols, side \in 0..2, collateral \in Collaterals,
           stop \in Levels, takeProfit \in Levels, offset \in Levels :
             OpenPosition(k, s, side, collateral, stop, takeProfit, offset)
  BY DEF Opens
<1> DEFINE paid == RentDue(k) + collateral
<1>2. Deposit(k, paid) /\ paid \in Int
  BY <1>1, OpenEffect
<1> HIDE DEF paid
<1>3. Owner(k) \in Wallets /\ lamports[Owner(k)] \in Int
  BY BalancesTyped, HwalAssumption DEF PositionKey, Owner
<1>4. lamports[Owner(k)] - paid = lamports[Owner(k)] + (-paid)
  BY <1>2, <1>3
<1> QED
  BY <1>2, <1>4 DEF Deposit, Credit

LEMMA GiftMoves ==
    ASSUME Inv, NEW k \in PositionKey, NEW w \in Traders, NEW amount \in Gifts,
           GiftToPosition(w, k, amount)
    PROVE  /\ amount \in Int
           /\ lamports' = Credit(lamports, w, -amount)
           /\ vault' = [vault EXCEPT ![k] = vault[k] + amount]
<1>1. amount \in Int /\ lamports[w] \in Int
  BY BalancesTyped, HwalAssumption DEF U64
<1>2. lamports[w] - amount = lamports[w] + (-amount)
  BY <1>1
<1> QED
  BY <1>1, <1>2 DEF GiftToPosition, Credit

LEMMA CancelMoves ==
    ASSUME Inv, NEW k \in PositionKey, NEW signer \in Traders, CancelPosition(signer, k)
    PROVE  /\ position[k].collateral \in U64
           /\ lamports' = Credit(lamports, Owner(k), position[k].collateral)
           /\ vault' = [vault EXCEPT ![k] = vault[k] + (-position[k].collateral)]
<1>1. IsOpen(k) /\ lamports' = Credit(lamports, Owner(k), position[k].collateral)
  BY CancelEffect
<1>2. position[k].collateral \in U64 /\ vault[k] \in U64
  BY <1>1 DEF Inv, PositionInv, IsOpen, PositionRecord
<1>3. vault[k] - position[k].collateral = vault[k] + (-position[k].collateral)
  BY <1>2 DEF U64
<1> QED
  BY <1>1, <1>2, <1>3 DEF CancelPosition

LEMMA FireMoves ==
    ASSUME Inv, NEW k \in PositionKey, NEW keeper \in Keepers, TickFire(keeper, k)
    PROVE  /\ config # None /\ position[k].collateral \in U64
           /\ lamports' = Payout(keeper, k, position[k].collateral)
           /\ vault' = [vault EXCEPT ![k] = vault[k] + (-position[k].collateral)]
           /\ config' = Booked(position[k].collateral)
<1>1. /\ IsOpen(k) /\ config # None
      /\ lamports' = Payout(keeper, k, position[k].collateral)
  BY FireEffect
<1>2. position[k].collateral \in U64 /\ vault[k] \in U64
  BY <1>1 DEF Inv, PositionInv, IsOpen, PositionRecord
<1>3. vault[k] - position[k].collateral = vault[k] + (-position[k].collateral)
  BY <1>2 DEF U64
<1> QED
  BY <1>1, <1>2, <1>3 DEF TickFire

LEMMA ConservedInit == Init => LamportsConserved
<1> SUFFICES ASSUME Init
             PROVE  LamportsConserved
    OBVIOUS
<1>1. lamports = Funds /\ \A k \in PositionKey : vault[k] = 0
  BY DEF Init
<1>2. Total(vault, PositionKey) = 0
  BY <1>1, KeysAreFinite, TotalOfZeros
<1>3. Total(Funds, Wallets) \in Int
  BY SupplyAssumption DEF U64
<1> QED
  BY <1>1, <1>2, <1>3 DEF LamportsConserved

\* A credit to a wallet and a like debit of an account, or the other way round.
LEMMA TransferConserves ==
    ASSUME Inv, Inv', LamportsConserved,
           NEW k \in PositionKey, NEW w \in Wallets, NEW x \in Int,
           lamports' = Credit(lamports, w, x),
           vault' = [vault EXCEPT ![k] = vault[k] + (-x)]
    PROVE  LamportsConserved'
<1>1. vault' \in [PositionKey -> U64]
  BY DEF Inv, PositionInv
<1>2. Total(vault', PositionKey) = Total(vault, PositionKey) + (-x)
  <2>1. -x \in Int
    OBVIOUS
  <2> DEFINE y == -x
  <2> HIDE DEF y
  <2>2. y \in Int /\ vault' = [vault EXCEPT ![k] = vault[k] + y]
    BY <2>1 DEF y
  <2>3. Total(vault', PositionKey) = Total(vault, PositionKey) + y
    BY <1>1, <2>2, VaultTotal
  <2> QED
    BY <2>3 DEF y
<1>3. Total(lamports', Wallets) = Total(lamports, Wallets) + x
  <2>1. lamports \in [Wallets -> Int] /\ Wallets \in SUBSET Wallets
    BY BalancesTyped
  <2>2. Total(Credit(lamports, w, x), Wallets)
          = Total(lamports, Wallets) + (IF w \in Wallets THEN x ELSE 0)
    BY <2>1, CreditTotal
  <2> QED
    BY <2>2
<1>4. Total(vault, PositionKey) \in Int /\ Total(lamports, Wallets) \in Int
  BY BalancesTyped
<1> QED
  BY <1>2, <1>3, <1>4 DEF LamportsConserved

LEMMA ConservedStep ==
    ASSUME Inv, Inv', LamportsConserved, [Next]_vars
    PROVE  LamportsConserved'
<1>1. ASSUME UNCHANGED <<vault, lamports>>
      PROVE  LamportsConserved'
  BY <1>1 DEF LamportsConserved
<1>2. CASE AdminOps \/ UNCHANGED vars
  BY <1>1, <1>2, AdminOpsAreFeedSteps DEF vars, positionVars
<1>3. ASSUME NEW k \in PositionKey, PositionOps(k)
      PROVE  LamportsConserved'
  <2>1. Owner(k) \in Wallets
    BY HwalAssumption DEF PositionKey, Owner
  <2>2. CASE Opens(k)
    <3>1. PICK paid \in Int :
              /\ lamports' = Credit(lamports, Owner(k), -paid)
              /\ vault' = [vault EXCEPT ![k] = vault[k] + paid]
      BY <2>2, OpenMoves
    <3>2. -paid \in Int /\ paid = -(-paid)
      OBVIOUS
    <3> QED
      BY <2>1, <3>1, <3>2, TransferConserves
  <2>3. ASSUME NEW keeper \in Keepers, TickFire(keeper, k)
        PROVE  LamportsConserved'
    <3> DEFINE amount == position[k].collateral
    <3>1. /\ config # None /\ amount \in U64
          /\ lamports' = Payout(keeper, k, amount)
          /\ vault' = [vault EXCEPT ![k] = vault[k] + (-amount)]
      BY <2>3, FireMoves
    <3> HIDE DEF amount
    <3>2. config \in ConfigRecord /\ amount \in Int
      BY <3>1, LimitsAssumption DEF Inv, ConfigTypeOK, U64
    <3>3. /\ Fee(amount) \in Int /\ KeeperReward(amount) \in Int
          /\ config.fee_receiver \in Wallets /\ keeper \in Wallets
      BY <3>1, <3>2, NetFloor, HwalAssumption DEF ConfigRecord
    <3>4. Total(lamports', Wallets)
            = Total(lamports, Wallets) + Fee(amount) + KeeperReward(amount) + NetToOwner(amount)
      BY <2>1, <3>1, <3>3, PayoutTotal
    <3>5. Total(vault', PositionKey) = Total(vault, PositionKey) + (-amount)
      <4>1. vault' \in [PositionKey -> U64] /\ -amount \in Int
        BY <3>2 DEF Inv, PositionInv
      <4> QED
        BY <3>1, <4>1, VaultTotal
    <3>6. NetToOwner(amount) = amount - Fee(amount) - KeeperReward(amount)
      BY DEF NetToOwner
    <3>7. Total(vault, PositionKey) \in Int /\ Total(lamports, Wallets) \in Int
      BY BalancesTyped
    <3>8. Total(lamports', Wallets) + Total(vault', PositionKey)
            = Total(lamports, Wallets) + Total(vault, PositionKey)
      BY <3>2, <3>3, <3>4, <3>5, <3>6, <3>7
    <3> QED
      BY <3>8 DEF LamportsConserved
  <2>4. ASSUME NEW signer \in Traders, CancelPosition(signer, k)
        PROVE  LamportsConserved'
    <3>1. position[k].collateral \in Int
      BY <2>4, CancelMoves, LimitsAssumption DEF U64
    <3> QED
      BY <2>1, <2>4, <3>1, CancelMoves, TransferConserves
  <2>5. ASSUME NEW w \in Traders, NEW amount \in Gifts, GiftToPosition(w, k, amount)
        PROVE  LamportsConserved'
    <3>1. /\ amount \in Int /\ w \in Wallets
          /\ lamports' = Credit(lamports, w, -amount)
          /\ vault' = [vault EXCEPT ![k] = vault[k] + amount]
      BY <2>5, GiftMoves, HwalAssumption
    <3>2. -amount \in Int /\ amount = -(-amount)
      BY <3>1
    <3> QED
      BY <3>1, <3>2, TransferConserves
  <2>6. CASE Quiet(k)
    BY <1>1, <2>6, QuietEffect
  <2> QED
    BY <1>3, <2>2, <2>3, <2>4, <2>5, <2>6, PositionOpsSplit
<1> QED
  BY <1>2, <1>3 DEF Next

\* No instruction creates or loses a lamport: whoever the payees are, what
\* leaves the wallets is in the accounts and what leaves an account, in three
\* rounded shares or whole, is in the wallets.
THEOREM ConservedAlways == Spec => []LamportsConserved
BY InvInit, InvStep, ConservedInit, ConservedStep, PTL DEF Spec

-----------------------------------------------------------------------------
(* Settlement cannot fail *)

\* Three credits together raise a balance by at most their sum.
LEMMA PayoutBounded ==
    ASSUME NEW b \in [Wallets -> Nat],
           NEW f \in Wallets, NEW x \in Nat, NEW r \in Wallets, NEW y \in Nat,
           NEW o \in Wallets, NEW z \in Nat, NEW w \in Wallets
    PROVE  /\ Credit(Credit(Credit(b, f, x), r, y), o, z)[w] \in Nat
           /\ Credit(Credit(Credit(b, f, x), r, y), o, z)[w] <= b[w] + (x + y + z)
<1> DEFINE b1 == Credit(b, f, x)
           b2 == Credit(b1, r, y)
           b3 == Credit(b2, o, z)
<1>1. b1 \in [Wallets -> Nat] /\ b1[w] <= b[w] + x
  BY DEF Credit
<1> HIDE DEF b1
<1>2. b2 \in [Wallets -> Nat] /\ b2[w] <= b1[w] + y
  BY <1>1 DEF Credit
<1> HIDE DEF b2
<1>3. b3 \in [Wallets -> Nat] /\ b3[w] <= b2[w] + z
  BY <1>2 DEF Credit
<1> HIDE DEF b3
<1>4. b[w] \in Nat /\ b1[w] \in Nat /\ b2[w] \in Nat /\ b3[w] \in Nat
  BY <1>1, <1>2, <1>3
<1>5. b3[w] <= b[w] + (x + y + z)
  BY <1>1, <1>2, <1>3, <1>4
<1> QED
  BY <1>4, <1>5 DEF b1, b2, b3

\* A wallet together with what an account holds is within the supply.
LEMMA RoomInWallets ==
    ASSUME Inv, LamportsConserved, NEW w \in Wallets, NEW k \in PositionKey
    PROVE  lamports[w] + vault[k] <= U64_MAX
<1>1. lamports[w] \in Nat /\ vault[k] \in Nat
  BY BalancesTyped
<1>2. lamports[w] <= Total(lamports, Wallets)
  BY BalancesTyped, KeysAreFinite, BalanceWithinTotal
<1>3. vault[k] <= Total(vault, PositionKey)
  BY BalancesTyped, KeysAreFinite, BalanceWithinTotal
<1>4. /\ Total(lamports, Wallets) \in Nat /\ Total(vault, PositionKey) \in Nat
      /\ Total(lamports, Wallets) + Total(vault, PositionKey) <= U64_MAX
  BY BalancesTyped, SupplyAssumption DEF LamportsConserved, U64
<1> QED
  BY <1>1, <1>2, <1>3, <1>4, LimitsAssumption

LEMMA SettlementAlwaysFits ==
    ASSUME Inv, LamportsConserved, config # None, NEW k \in PositionKey, IsOpen(k)
    PROVE  /\ \A keeper \in Keepers : SettlementFits(keeper, k, position[k].collateral)
           /\ vault[k] >= position[k].collateral
           /\ lamports[Owner(k)] + position[k].collateral \in U64
<1> DEFINE amount == position[k].collateral
<1>1. /\ config \in ConfigRecord /\ amount \in U64 /\ amount \in Nat
      /\ vault[k] \in Nat /\ vault[k] >= amount + RENT
      /\ Owner(k) \in Wallets
  BY LimitsAssumption, HwalAssumption
     DEF Inv, ConfigTypeOK, PositionInv, IsOpen, PositionRecord, Solvent, U64, PositionKey, Owner
<1> HIDE DEF amount
<1>2. vault[k] >= amount /\ amount <= U64_MAX
  BY <1>1, HwalAssumption DEF U64
<1>3. \A w \in Wallets : lamports[w] \in Nat /\ lamports[w] + amount <= U64_MAX
  <2> TAKE w \in Wallets
  <2>1. lamports[w] \in Nat /\ lamports[w] + vault[k] <= U64_MAX
    BY BalancesTyped, RoomInWallets
  <2> QED
    BY <1>1, <1>2, <2>1, LimitsAssumption
<1>4. /\ Fee(amount) \in Nat /\ KeeperReward(amount) \in Nat /\ NetToOwner(amount) \in Nat
      /\ Fee(amount) + KeeperReward(amount) + NetToOwner(amount) = amount
  <2>1. Fee(amount) \in Nat /\ KeeperReward(amount) \in Nat /\ NetToOwner(amount) \in Nat
    BY <1>1, NetFloor
  <2>2. NetToOwner(amount) = amount - Fee(amount) - KeeperReward(amount)
    BY DEF NetToOwner
  <2> QED
    BY <1>1, <2>1, <2>2
<1>5. Fee(amount) <= amount /\ KeeperReward(amount) <= amount
  BY <1>1, <1>4
<1>6. ASSUME NEW keeper \in Keepers
      PROVE  SettlementFits(keeper, k, amount)
  <2>1. ASSUME NEW w \in Wallets
        PROVE  Payout(keeper, k, amount)[w] \in U64
    <3>1. config.fee_receiver \in Wallets /\ keeper \in Wallets
      BY <1>1, HwalAssumption DEF ConfigRecord
    <3>2. /\ Payout(keeper, k, amount)[w] \in Nat
          /\ Payout(keeper, k, amount)[w] <=
               lamports[w] + (Fee(amount) + KeeperReward(amount) + NetToOwner(amount))
      BY <1>1, <1>4, <3>1, BalancesTyped, PayoutBounded DEF Payout
    <3> QED
      BY <1>1, <1>3, <1>4, <3>2, LimitsAssumption DEF U64
  <2>2. Fee(amount) \in U64 /\ KeeperReward(amount) \in U64 /\ NetToOwner(amount) >= 0
    BY <1>1, <1>2, <1>4, <1>5, LimitsAssumption DEF U64
  <2> QED
    BY <1>2, <2>1, <2>2 DEF SettlementFits
<1>7. lamports[Owner(k)] + amount \in U64
  BY <1>1, <1>3, LimitsAssumption DEF U64
<1> QED
  BY <1>2, <1>6, <1>7 DEF amount

\* A position that is open can always be paid out: neither the arithmetic nor
\* the transfers of a fired tick or of a cancel can fail.
THEOREM SettlementNeverStuck == Spec => []NeverStuck
<1>1. Inv /\ LamportsConserved => NeverStuck
  BY SettlementAlwaysFits DEF NeverStuck
<1> QED
  BY <1>1, Invariance, ConservedAlways, PTL

-----------------------------------------------------------------------------
(* The statistics of Config: counters *)

Capped(S) == IF Cardinality(S) > COUNTER_MAX THEN COUNTER_MAX ELSE Cardinality(S)

Opened == {k \in PositionKey : position[k] # None}

Having(code) == {k \in PositionKey : position[k] # None /\ position[k].status = code}

CountsMatch ==
    /\ config.total_positions_opened = Capped(Opened)
    /\ config.total_positions_triggered = Capped(Having(STATUS_TRIGGERED))
    /\ config.total_positions_cancelled = Capped(Having(STATUS_CANCELLED))

\* CountersAgree is inductive together with the fact that no position is
\* older than Config.
NothingBeforeConfig == config = None => Opened = {}

CountersInv == NothingBeforeConfig /\ (config # None => CountsMatch)

LEMMA CountersInvImplies == CountersInv => CountersAgree
<1>1. ASSUME NEW code
      PROVE  {k \in Opened : position[k].status = code} = Having(code)
  BY DEF Opened, Having
<1> QED
  BY <1>1 DEF CountersInv, CountsMatch, CountersAgree, Capped, Opened

\* The saturating counter of a set keeps up when the set gains an element.
LEMMA CappedGains ==
    ASSUME NEW S \in SUBSET PositionKey, NEW k \in PositionKey, k \notin S
    PROVE  Capped(S \cup {k}) = Bump(Capped(S))
<1>1. Cardinality(S) \in Nat /\ Cardinality(S \cup {k}) = Cardinality(S) + 1
  <2>1. IsFiniteSet(S)
    BY KeysAreFinite, FS_Subset
  <2> QED
    BY <2>1, FS_CardinalityType, FS_AddElement
<1> DEFINE n == Cardinality(S)
           m == Cardinality(S \cup {k})
<1>2. n \in Nat /\ m = n + 1 /\ COUNTER_MAX \in Nat
  BY <1>1, LimitsAssumption
<1> HIDE DEF n, m
<1>3. (IF m > COUNTER_MAX THEN COUNTER_MAX ELSE m)
        = Bump(IF n > COUNTER_MAX THEN COUNTER_MAX ELSE n)
  BY <1>2 DEF Bump, SaturatingAdd
<1> QED
  BY <1>3 DEF n, m, Capped

LEMMA CappedEmpty == Capped({}) = 0
BY FS_EmptySet, LimitsAssumption DEF Capped

\* A set to which one key was added, or none.
LEMMA SetsAfter ==
    ASSUME Inv, NEW k \in PositionKey, position'[k] \in PositionRecord,
           \A j \in PositionKey : j # k => position'[j] = position[j]
    PROVE  /\ position[k] = None => Opened' = Opened \cup {k} /\ k \notin Opened
           /\ position[k] # None => Opened' = Opened
           /\ \A code : position'[k].status = code /\ (IsOpen(k) \/ position[k] = None)
                           /\ code # STATUS_OPEN =>
                 Having(code)' = Having(code) \cup {k} /\ k \notin Having(code)
           /\ \A code : position'[k].status # code /\ (IsOpen(k) \/ position[k] = None)
                           /\ code # STATUS_OPEN =>
                 Having(code)' = Having(code)
<1>1. position'[k] # None
  BY NoneAssumption
<1>2. position[k] = None => Opened' = Opened \cup {k} /\ k \notin Opened
  BY <1>1 DEF Opened
<1>3. position[k] # None => Opened' = Opened
  BY <1>1 DEF Opened
<1>4. ASSUME NEW code, position'[k].status = code, code # STATUS_OPEN,
             IsOpen(k) \/ position[k] = None
      PROVE  Having(code)' = Having(code) \cup {k} /\ k \notin Having(code)
  BY <1>1, <1>4 DEF Having, IsOpen
<1>5. ASSUME NEW code, position'[k].status # code, code # STATUS_OPEN,
             IsOpen(k) \/ position[k] = None
      PROVE  Having(code)' = Having(code)
  BY <1>1, <1>5 DEF Having, IsOpen
<1> QED
  BY <1>2, <1>3, <1>4, <1>5

\* What a fired trigger writes to Config.
LEMMA BookedRecord ==
    ASSUME config \in ConfigRecord, NEW amount,
           Fee(amount) \in U64, KeeperReward(amount) \in U64
    PROVE  /\ Booked(amount) \in ConfigRecord
           /\ Booked(amount).fee_receiver = config.fee_receiver
           /\ Booked(amount).total_positions_opened = config.total_positions_opened
           /\ Booked(amount).total_positions_triggered
                = Bump(config.total_positions_triggered)
           /\ Booked(amount).total_positions_cancelled = config.total_positions_cancelled
           /\ Booked(amount).total_fees_collected
                = SaturatingAdd(config.total_fees_collected, Fee(amount), U64_MAX)
           /\ Booked(amount).total_keeper_rewards_paid
                = SaturatingAdd(config.total_keeper_rewards_paid, KeeperReward(amount), U64_MAX)
<1>1. Bump(config.total_positions_triggered) \in Counter
  BY BumpIsCounter DEF ConfigRecord
<1>2. \A a, b \in U64 : SaturatingAdd(a, b, U64_MAX) \in U64
  BY LimitsAssumption DEF SaturatingAdd, U64
<1>3. /\ SaturatingAdd(config.total_fees_collected, Fee(amount), U64_MAX) \in U64
      /\ SaturatingAdd(config.total_keeper_rewards_paid, KeeperReward(amount), U64_MAX) \in U64
  BY <1>2 DEF ConfigRecord
<1> QED
  BY <1>1, <1>3 DEF Booked, ConfigRecord

\* What each instruction does to the counters and to the record at its key.
LEMMA OpenCounts ==
    ASSUME Inv, CountersInv, NEW k \in PositionKey, Opens(k)
    PROVE  CountersInv'
<1>1. PICK s \in Symbols, side \in 0..2, collateral \in Collaterals,
           stop \in Levels, takeProfit \in Levels, offset \in Levels :
             OpenPosition(k, s, side, collateral, stop, takeProfit, offset)
  BY DEF Opens
<1> DEFINE r == NewPosition(s, side, collateral, stop, takeProfit, offset)
<1>2. /\ r \in PositionRecord /\ r.status = STATUS_OPEN
      /\ position' = [position EXCEPT ![k] = r]
  BY <1>1, OpenEffect
<1> HIDE DEF r
<1>3. /\ position'[k] \in PositionRecord /\ position'[k].status = STATUS_OPEN
      /\ \A j \in PositionKey : j # k => position'[j] = position[j]
  BY <1>2 DEF Inv, PositionInv
<1>4. /\ config # None /\ position[k] = None
      /\ config' = [config EXCEPT !.total_positions_opened =
                                     Bump(config.total_positions_opened)]
  BY <1>1 DEF OpenPosition
<1>5. config \in ConfigRecord
  BY <1>4 DEF Inv, ConfigTypeOK
<1>6. /\ config'.total_positions_opened = Bump(config.total_positions_opened)
      /\ config'.total_positions_triggered = config.total_positions_triggered
      /\ config'.total_positions_cancelled = config.total_positions_cancelled
      /\ config' \in ConfigRecord
  <2>1. Bump(config.total_positions_opened) \in Counter
    BY <1>5, BumpIsCounter DEF ConfigRecord
  <2> QED
    BY <1>4, <1>5, <2>1 DEF ConfigRecord
<1>7. /\ Opened' = Opened \cup {k} /\ k \notin Opened
      /\ Having(STATUS_TRIGGERED)' = Having(STATUS_TRIGGERED)
      /\ Having(STATUS_CANCELLED)' = Having(STATUS_CANCELLED)
  BY <1>3, <1>4, StatusCodes, SetsAfter
<1>8. Capped(Opened \cup {k}) = Bump(Capped(Opened))
  BY <1>7, CappedGains DEF Opened
<1>9. CountsMatch'
  BY <1>4, <1>6, <1>7, <1>8 DEF CountersInv, CountsMatch
<1> QED
  BY <1>6, <1>9, NoneAssumption DEF CountersInv, NothingBeforeConfig

LEMMA FireCounts ==
    ASSUME Inv, CountersInv, NEW k \in PositionKey, NEW keeper \in Keepers,
           TickFire(keeper, k)
    PROVE  CountersInv'
<1> DEFINE amount == position[k].collateral
<1>1. /\ IsOpen(k) /\ config # None
      /\ position'[k] \in PositionRecord /\ position'[k].status = STATUS_TRIGGERED
      /\ \A j \in PositionKey : j # k => position'[j] = position[j]
      /\ config' = Booked(amount)
      /\ Fee(amount) \in U64 /\ KeeperReward(amount) \in U64
  BY FireEffect DEF TickFire, SettlementFits, Inv, PositionInv
<1>2. config \in ConfigRecord
  BY <1>1 DEF Inv, ConfigTypeOK
<1> HIDE DEF amount
<1>3. /\ config'.total_positions_opened = config.total_positions_opened
      /\ config'.total_positions_triggered = Bump(config.total_positions_triggered)
      /\ config'.total_positions_cancelled = config.total_positions_cancelled
      /\ config' \in ConfigRecord
  BY <1>1, <1>2, BookedRecord
<1>4. /\ Opened' = Opened
      /\ Having(STATUS_TRIGGERED)' = Having(STATUS_TRIGGERED) \cup {k}
      /\ k \notin Having(STATUS_TRIGGERED)
      /\ Having(STATUS_CANCELLED)' = Having(STATUS_CANCELLED)
  <2>1. STATUS_TRIGGERED # STATUS_CANCELLED
    BY DEF STATUS_TRIGGERED, STATUS_CANCELLED
  <2>2. position[k] # None
    BY <1>1 DEF IsOpen
  <2> QED
    BY <1>1, <2>1, <2>2, StatusCodes, SetsAfter
<1>5. Capped(Having(STATUS_TRIGGERED) \cup {k}) = Bump(Capped(Having(STATUS_TRIGGERED)))
  BY <1>4, CappedGains DEF Having
<1>6. CountsMatch'
  BY <1>1, <1>3, <1>4, <1>5 DEF CountersInv, CountsMatch
<1> QED
  BY <1>3, <1>6, NoneAssumption DEF CountersInv, NothingBeforeConfig

LEMMA CancelCounts ==
    ASSUME Inv, CountersInv, NEW k \in PositionKey, NEW signer \in Traders,
           CancelPosition(signer, k)
    PROVE  CountersInv'
<1>1. /\ IsOpen(k) /\ config # None
      /\ position'[k] \in PositionRecord /\ position'[k].status = STATUS_CANCELLED
      /\ \A j \in PositionKey : j # k => position'[j] = position[j]
      /\ config' = [config EXCEPT !.total_positions_cancelled =
                                     Bump(config.total_positions_cancelled)]
  BY CancelEffect DEF CancelPosition, Inv, PositionInv
<1>2. config \in ConfigRecord
  BY <1>1 DEF Inv, ConfigTypeOK
<1>3. /\ config'.total_positions_opened = config.total_positions_opened
      /\ config'.total_positions_triggered = config.total_positions_triggered
      /\ config'.total_positions_cancelled = Bump(config.total_positions_cancelled)
      /\ config' \in ConfigRecord
  <2>1. Bump(config.total_positions_cancelled) \in Counter
    BY <1>2, BumpIsCounter DEF ConfigRecord
  <2> QED
    BY <1>1, <1>2, <2>1 DEF ConfigRecord
<1>4. /\ Opened' = Opened
      /\ Having(STATUS_CANCELLED)' = Having(STATUS_CANCELLED) \cup {k}
      /\ k \notin Having(STATUS_CANCELLED)
      /\ Having(STATUS_TRIGGERED)' = Having(STATUS_TRIGGERED)
  <2>1. STATUS_TRIGGERED # STATUS_CANCELLED
    BY DEF STATUS_TRIGGERED, STATUS_CANCELLED
  <2>2. position[k] # None
    BY <1>1 DEF IsOpen
  <2> QED
    BY <1>1, <2>1, <2>2, StatusCodes, SetsAfter
<1>5. Capped(Having(STATUS_CANCELLED) \cup {k}) = Bump(Capped(Having(STATUS_CANCELLED)))
  BY <1>4, CappedGains DEF Having
<1>6. CountsMatch'
  BY <1>1, <1>3, <1>4, <1>5 DEF CountersInv, CountsMatch
<1> QED
  BY <1>3, <1>6, NoneAssumption DEF CountersInv, NothingBeforeConfig

LEMMA QuietCounts ==
    ASSUME Inv, CountersInv, NEW k \in PositionKey, Quiet(k)
    PROVE  CountersInv'
<1>1. config' = config /\ IsOpen(k)
  BY QuietEffect
<1>2. /\ position[k] # None
      /\ position'[k] \in PositionRecord /\ position'[k].status = STATUS_OPEN
      /\ \A j \in PositionKey : j # k => position'[j] = position[j]
  BY QuietEffect DEF IsOpen, Inv, PositionInv
<1>3. /\ Opened' = Opened
      /\ Having(STATUS_TRIGGERED)' = Having(STATUS_TRIGGERED)
      /\ Having(STATUS_CANCELLED)' = Having(STATUS_CANCELLED)
  BY <1>1, <1>2, StatusCodes, SetsAfter
<1> QED
  BY <1>1, <1>3 DEF CountersInv, NothingBeforeConfig, CountsMatch

\* The admin's instructions leave the statistics alone and appoint officials.
LEMMA AdminWritesConfig ==
    ASSUME Inv, AdminOps, config' # config
    PROVE  /\ config' \in ConfigRecord
           /\ config = None =>
                /\ config'.fee_receiver \in Officials
                /\ config'.total_positions_opened = 0
                /\ config'.total_positions_triggered = 0
                /\ config'.total_positions_cancelled = 0
                /\ config'.total_fees_collected = 0
                /\ config'.total_keeper_rewards_paid = 0
           /\ config # None =>
                /\ config'.fee_receiver \in Officials \cup {config.fee_receiver}
                /\ config'.total_positions_opened = config.total_positions_opened
                /\ config'.total_positions_triggered = config.total_positions_triggered
                /\ config'.total_positions_cancelled = config.total_positions_cancelled
                /\ config'.total_fees_collected = config.total_fees_collected
                /\ config'.total_keeper_rewards_paid = config.total_keeper_rewards_paid
<1>1. ConfigOps
  BY DEF AdminOps, FeedOps, LazerOps, InitializePriceFeed, UpdatePriceFeed, RegisterLazerFeed,
         UpdatePriceFeedFromLazer, WritePrice, AdvanceClock
<1>2. ASSUME NEW admin \in Officials, NEW receiver \in Officials,
             NEW fee \in BpsInputs, NEW reward \in BpsInputs,
             InitializeConfig(admin, receiver, fee, reward)
      PROVE  /\ config = None /\ config' \in ConfigRecord
             /\ config'.fee_receiver \in Officials
             /\ config'.total_positions_opened = 0
             /\ config'.total_positions_triggered = 0
             /\ config'.total_positions_cancelled = 0
             /\ config'.total_fees_collected = 0
             /\ config'.total_keeper_rewards_paid = 0
  BY <1>2, ConfigCreated, ConfigAssumption DEF InitializeConfig
<1>3. ASSUME NEW signer \in Officials,
             NEW admin \in Officials \cup {None}, NEW receiver \in Officials \cup {None},
             NEW fee \in BpsInputs \cup {None}, NEW reward \in BpsInputs \cup {None},
             UpdateConfig(signer, admin, receiver, fee, reward)
      PROVE  /\ config # None /\ config' \in ConfigRecord
             /\ config'.fee_receiver \in Officials \cup {config.fee_receiver}
             /\ config'.total_positions_opened = config.total_positions_opened
             /\ config'.total_positions_triggered = config.total_positions_triggered
             /\ config'.total_positions_cancelled = config.total_positions_cancelled
             /\ config'.total_fees_collected = config.total_fees_collected
             /\ config'.total_keeper_rewards_paid = config.total_keeper_rewards_paid
  <2>1. config # None /\ config \in ConfigRecord
    BY <1>3 DEF UpdateConfig, Inv, ConfigTypeOK
  <2>2. config' \in ConfigRecord
    BY <1>3, ConfigUpdated, ConfigAssumption DEF Inv
  <2> QED
    BY <1>3, <2>1, <2>2 DEF UpdateConfig, ConfigRecord, Given
<1>4. \/ \E admin, receiver \in Officials, fee, reward \in BpsInputs :
             InitializeConfig(admin, receiver, fee, reward)
      \/ \E signer \in Officials, admin, receiver \in Officials \cup {None},
            fee, reward \in BpsInputs \cup {None} :
             UpdateConfig(signer, admin, receiver, fee, reward)
  BY <1>1 DEF ConfigOps
<1> QED
  BY <1>2, <1>3, <1>4

LEMMA CountersSame ==
    ASSUME CountersInv, UNCHANGED <<config, position>>
    PROVE  CountersInv'
BY DEF CountersInv, NothingBeforeConfig, CountsMatch, Opened, Having

LEMMA AdminCounts ==
    ASSUME Inv, CountersInv, AdminOps
    PROVE  CountersInv'
<1>1. position' = position
  BY AdminOpsAreFeedSteps DEF positionVars
<1>2. /\ Opened' = Opened
      /\ Having(STATUS_TRIGGERED)' = Having(STATUS_TRIGGERED)
      /\ Having(STATUS_CANCELLED)' = Having(STATUS_CANCELLED)
  BY <1>1 DEF Opened, Having
<1>3. CASE config' = config
  BY <1>1, <1>3, CountersSame
<1>4. CASE config' # config /\ config = None
  <2>1. Opened = {} /\ Having(STATUS_TRIGGERED) = {} /\ Having(STATUS_CANCELLED) = {}
    BY <1>4 DEF CountersInv, NothingBeforeConfig, Opened, Having
  <2>2. CountsMatch'
    BY <1>2, <1>4, <2>1, CappedEmpty, AdminWritesConfig DEF CountsMatch
  <2> QED
    BY <1>2, <2>1, <2>2 DEF CountersInv, NothingBeforeConfig
<1>5. CASE config' # config /\ config # None
  <2>1. CountsMatch'
    BY <1>2, <1>5, AdminWritesConfig DEF CountersInv, CountsMatch
  <2>2. config' # None
    BY <1>5, AdminWritesConfig, NoneAssumption
  <2> QED
    BY <2>1, <2>2 DEF CountersInv, NothingBeforeConfig
<1> QED
  BY <1>3, <1>4, <1>5

LEMMA CountersStep ==
    ASSUME Inv, CountersInv, [Next]_vars
    PROVE  CountersInv'
<1>1. CASE AdminOps
  BY <1>1, AdminCounts
<1>2. CASE UNCHANGED vars
  BY <1>2, CountersSame DEF vars, positionVars
<1>3. ASSUME NEW k \in PositionKey, PositionOps(k)
      PROVE  CountersInv'
  <2>1. ASSUME NEW w \in Traders, NEW amount \in Gifts, GiftToPosition(w, k, amount)
        PROVE  CountersInv'
    BY <2>1, CountersSame DEF GiftToPosition
  <2> QED
    BY <1>3, <2>1, OpenCounts, FireCounts, CancelCounts, QuietCounts, PositionOpsSplit
<1> QED
  BY <1>1, <1>2, <1>3 DEF Next

\* The lifetime counters agree with the positions on record until they
\* saturate.
THEOREM CountersAlwaysAgree == Spec => []CountersAgree
<1>1. Init => CountersInv
  BY DEF Init, ConfigInit, CountersInv, NothingBeforeConfig, Opened
<1>2. Spec => []CountersInv
  BY <1>1, CountersStep, Invariance, InvInit, InvStep, PTL DEF Spec
<1> QED
  BY <1>2, CountersInvImplies, PTL

-----------------------------------------------------------------------------
(* The statistics of Config: amounts paid *)

SeparateRoles ==
    Apart(Officials, Traders) /\ Apart(Officials, Keepers) /\ Apart(Keepers, Traders)

FeesBooked == IF config = None THEN 0 ELSE config.total_fees_collected

RewardsBooked == IF config = None THEN 0 ELSE config.total_keeper_rewards_paid

\* BooksMatchWallets is inductive once it also speaks of the time before
\* Config, and with the fee receiver always one of the officials.
BooksInv ==
    /\ config # None => config.fee_receiver \in Officials
    /\ SeparateRoles =>
         /\ Total(lamports, Officials) = Total(Funds, Officials) + FeesBooked
         /\ Total(lamports, Keepers) = Total(Funds, Keepers) + RewardsBooked

LEMMA BooksInvImplies == BooksInv => BooksMatchWallets
BY DEF BooksInv, BooksMatchWallets, SeparateRoles, FeesBooked, RewardsBooked

LEMMA RolesAreWallets ==
    /\ Officials \in SUBSET Wallets /\ Keepers \in SUBSET Wallets
    /\ Total(Funds, Officials) \in Nat /\ Total(Funds, Keepers) \in Nat
<1>1. Officials \in SUBSET Wallets /\ Keepers \in SUBSET Wallets
  BY ConfigAssumption, HwalAssumption
<1>2. IsFiniteSet(Wallets) /\ \A w \in Wallets : Funds[w] \in Nat
  BY FinitenessAssumption, HwalAssumption, LimitsAssumption DEF U64
<1> QED
  BY <1>1, <1>2, TotalOfPart

\* Traders' transfers change neither books nor the balances they are about.
LEMMA TradersTransfer ==
    ASSUME Inv, BooksInv, NEW w \in Traders, NEW x \in Int,
           lamports' = Credit(lamports, w, x),
           config' # None <=> config # None,
           config # None =>
              /\ config'.fee_receiver = config.fee_receiver
              /\ config'.total_fees_collected = config.total_fees_collected
              /\ config'.total_keeper_rewards_paid = config.total_keeper_rewards_paid
    PROVE  BooksInv'
<1>1. FeesBooked' = FeesBooked /\ RewardsBooked' = RewardsBooked
  BY DEF FeesBooked, RewardsBooked
<1>2. ASSUME SeparateRoles
      PROVE  /\ Total(lamports', Officials) = Total(lamports, Officials)
             /\ Total(lamports', Keepers) = Total(lamports, Keepers)
  <2>1. w \in Wallets /\ w \notin Officials /\ w \notin Keepers
    BY <1>2, HwalAssumption DEF SeparateRoles, Apart
  <2>2. lamports \in [Wallets -> Int]
    BY BalancesTyped
  <2>3. ASSUME NEW S \in SUBSET Wallets, w \notin S
        PROVE  Total(lamports', S) = Total(lamports, S)
    <3>1. Total(lamports', S) = Total(lamports, S) + (IF w \in S THEN x ELSE 0)
      BY <2>1, <2>2, CreditTotal
    <3>2. Total(lamports, S) \in Nat
      BY BalancesTyped
    <3> QED
      BY <2>3, <3>1, <3>2
  <2> QED
    BY <2>1, <2>3, RolesAreWallets
<1> QED
  BY <1>1, <1>2 DEF BooksInv, SeparateRoles

\* A count leaves the rest of Config as it is.
LEMMA CounterWritten ==
    ASSUME Inv, config # None,
           \/ config' = [config EXCEPT !.total_positions_opened =
                                          Bump(config.total_positions_opened)]
           \/ config' = [config EXCEPT !.total_positions_cancelled =
                                          Bump(config.total_positions_cancelled)]
    PROVE  /\ config' # None
           /\ config'.fee_receiver = config.fee_receiver
           /\ config'.total_fees_collected = config.total_fees_collected
           /\ config'.total_keeper_rewards_paid = config.total_keeper_rewards_paid
<1>1. config \in ConfigRecord
  BY DEF Inv, ConfigTypeOK
<1>2. /\ Bump(config.total_positions_opened) \in Counter
      /\ Bump(config.total_positions_cancelled) \in Counter
  BY <1>1, BumpIsCounter DEF ConfigRecord
<1>3. config' \in ConfigRecord
  BY <1>1, <1>2 DEF ConfigRecord
<1> QED
  BY <1>1, <1>3, NoneAssumption DEF ConfigRecord

\* A sum that stays within the supply does not saturate.
LEMMA BooksDoNotSaturate ==
    ASSUME Inv', LamportsConserved', NEW S \in SUBSET Wallets,
           NEW a \in Nat, NEW b \in Nat, NEW c \in Nat,
           Total(lamports', S) = c + (a + b)
    PROVE  SaturatingAdd(a, b, U64_MAX) = a + b
<1>1. /\ lamports' \in [Wallets -> Nat] /\ vault' \in [PositionKey -> Nat]
  BY LimitsAssumption DEF Inv, PositionInv, U64
<1>2. /\ Total(lamports', S) <= Total(lamports', Wallets)
      /\ Total(lamports', S) \in Nat
      /\ Total(lamports', Wallets) \in Nat /\ Total(vault', PositionKey) \in Nat
  BY <1>1, KeysAreFinite, TotalOfPart, FinitenessAssumption
<1>3. Total(lamports', Wallets) + Total(vault', PositionKey) <= U64_MAX
  BY SupplyAssumption DEF LamportsConserved, U64
<1>4. a + b <= U64_MAX
  BY <1>2, <1>3, LimitsAssumption
<1> QED
  BY <1>4, LimitsAssumption DEF SaturatingAdd

LEMMA FireBooks ==
    ASSUME Inv, Inv', LamportsConserved', BooksInv, NEW k \in PositionKey,
           NEW keeper \in Keepers, TickFire(keeper, k)
    PROVE  BooksInv'
<1> DEFINE amount == position[k].collateral
<1>1. /\ config # None /\ amount \in U64 /\ amount \in Nat
      /\ lamports' = Payout(keeper, k, amount) /\ config' = Booked(amount)
      /\ Fee(amount) \in U64 /\ KeeperReward(amount) \in U64
  BY FireMoves, FireEffect, LimitsAssumption DEF SettlementFits, U64
<1> HIDE DEF amount
<1>2. config \in ConfigRecord
  BY <1>1 DEF Inv, ConfigTypeOK
<1>3. /\ config' \in ConfigRecord /\ config' # None
      /\ config'.fee_receiver = config.fee_receiver
      /\ config'.total_fees_collected
           = SaturatingAdd(config.total_fees_collected, Fee(amount), U64_MAX)
      /\ config'.total_keeper_rewards_paid
           = SaturatingAdd(config.total_keeper_rewards_paid, KeeperReward(amount), U64_MAX)
  BY <1>1, <1>2, BookedRecord, NoneAssumption
<1>4. /\ Fee(amount) \in Nat /\ KeeperReward(amount) \in Nat /\ NetToOwner(amount) \in Nat
      /\ config.total_fees_collected \in Nat /\ config.total_keeper_rewards_paid \in Nat
  BY <1>1, <1>2, NetFloor, LimitsAssumption DEF ConfigRecord, U64
<1>5. ASSUME SeparateRoles
      PROVE  /\ Total(lamports', Officials) = Total(Funds, Officials) + FeesBooked'
             /\ Total(lamports', Keepers) = Total(Funds, Keepers) + RewardsBooked'
  <2>1. /\ config.fee_receiver \in Officials /\ config.fee_receiver \notin Keepers
        /\ keeper \notin Officials /\ keeper \in Wallets
        /\ Owner(k) \notin Officials /\ Owner(k) \notin Keepers
    BY <1>1, <1>5, HwalAssumption DEF BooksInv, SeparateRoles, Apart, PositionKey, Owner
  <2>2. /\ Total(lamports', Officials) = Total(lamports, Officials) + Fee(amount) + 0 + 0
        /\ Total(lamports', Keepers) = Total(lamports, Keepers) + 0 + KeeperReward(amount) + 0
    BY <1>1, <2>1, RolesAreWallets, PayoutTotal
  <2>3. /\ Total(lamports, Officials) = Total(Funds, Officials) + config.total_fees_collected
        /\ Total(lamports, Keepers) = Total(Funds, Keepers) + config.total_keeper_rewards_paid
    BY <1>1, <1>5 DEF BooksInv, FeesBooked, RewardsBooked
  <2>4. /\ Total(lamports', Officials)
             = Total(Funds, Officials) + (config.total_fees_collected + Fee(amount))
        /\ Total(lamports', Keepers)
             = Total(Funds, Keepers) + (config.total_keeper_rewards_paid + KeeperReward(amount))
    BY <1>4, <2>2, <2>3, RolesAreWallets
  <2>5. /\ config'.total_fees_collected = config.total_fees_collected + Fee(amount)
        /\ config'.total_keeper_rewards_paid
             = config.total_keeper_rewards_paid + KeeperReward(amount)
    <3>1. SaturatingAdd(config.total_fees_collected, Fee(amount), U64_MAX)
            = config.total_fees_collected + Fee(amount)
      BY <1>4, <2>4, RolesAreWallets, BooksDoNotSaturate
    <3>2. SaturatingAdd(config.total_keeper_rewards_paid, KeeperReward(amount), U64_MAX)
            = config.total_keeper_rewards_paid + KeeperReward(amount)
      BY <1>4, <2>4, RolesAreWallets, BooksDoNotSaturate
    <3> QED
      BY <1>3, <3>1, <3>2
  <2> QED
    BY <1>3, <2>4, <2>5 DEF FeesBooked, RewardsBooked
<1> QED
  BY <1>1, <1>3, <1>5 DEF BooksInv, SeparateRoles

LEMMA BooksStep ==
    ASSUME Inv, Inv', LamportsConserved', BooksInv, [Next]_vars
    PROVE  BooksInv'
<1>1. ASSUME UNCHANGED <<config, lamports>>
      PROVE  BooksInv'
  BY <1>1 DEF BooksInv, SeparateRoles, FeesBooked, RewardsBooked
<1>2. CASE UNCHANGED vars
  BY <1>1, <1>2 DEF vars, positionVars
<1>3. CASE AdminOps
  <2>1. lamports' = lamports
    BY <1>3, AdminOpsAreFeedSteps DEF positionVars
  <2>2. CASE config' = config
    BY <1>1, <2>1, <2>2
  <2>3. CASE config' # config
    <3>1. config' \in ConfigRecord /\ config' # None
      BY <1>3, <2>3, AdminWritesConfig, NoneAssumption
    <3>2. config'.fee_receiver \in Officials
      BY <1>3, <2>3, AdminWritesConfig DEF BooksInv
    <3>3. FeesBooked' = FeesBooked /\ RewardsBooked' = RewardsBooked
      BY <1>3, <2>3, <3>1, AdminWritesConfig DEF FeesBooked, RewardsBooked
    <3> QED
      BY <2>1, <3>2, <3>3 DEF BooksInv, SeparateRoles
  <2> QED
    BY <2>2, <2>3
<1>4. ASSUME NEW k \in PositionKey, PositionOps(k)
      PROVE  BooksInv'
  <2>1. Owner(k) \in Traders
    BY DEF PositionKey, Owner
  <2>2. CASE Opens(k)
    <3>1. PICK paid \in Int : lamports' = Credit(lamports, Owner(k), -paid)
      BY <2>2, OpenMoves
    <3>2. PICK s \in Symbols, side \in 0..2, collateral \in Collaterals,
               stop \in Levels, takeProfit \in Levels, offset \in Levels :
                 OpenPosition(k, s, side, collateral, stop, takeProfit, offset)
      BY <2>2 DEF Opens
    <3>3. /\ config # None
          /\ config' = [config EXCEPT !.total_positions_opened =
                                         Bump(config.total_positions_opened)]
      BY <3>2 DEF OpenPosition
    <3>4. /\ config' # None
          /\ config'.fee_receiver = config.fee_receiver
          /\ config'.total_fees_collected = config.total_fees_collected
          /\ config'.total_keeper_rewards_paid = config.total_keeper_rewards_paid
      BY <3>3, CounterWritten
    <3>5. -paid \in Int
      OBVIOUS
    <3> QED
      BY <2>1, <3>1, <3>3, <3>4, <3>5, TradersTransfer
  <2>3. ASSUME NEW signer \in Traders, CancelPosition(signer, k)
        PROVE  BooksInv'
    <3>1. /\ lamports' = Credit(lamports, Owner(k), position[k].collateral)
          /\ position[k].collateral \in Int
      BY <2>3, CancelMoves, LimitsAssumption DEF U64
    <3>2. /\ config # None
          /\ config' = [config EXCEPT !.total_positions_cancelled =
                                         Bump(config.total_positions_cancelled)]
      BY <2>3 DEF CancelPosition
    <3>3. /\ config' # None
          /\ config'.fee_receiver = config.fee_receiver
          /\ config'.total_fees_collected = config.total_fees_collected
          /\ config'.total_keeper_rewards_paid = config.total_keeper_rewards_paid
      BY <3>2, CounterWritten
    <3> QED
      BY <2>1, <3>1, <3>2, <3>3, TradersTransfer
  <2>4. ASSUME NEW w \in Traders, NEW amount \in Gifts, GiftToPosition(w, k, amount)
        PROVE  BooksInv'
    <3>1. /\ amount \in Int /\ -amount \in Int
          /\ lamports' = Credit(lamports, w, -amount)
      BY <2>4, GiftMoves
    <3>2. config' = config
      BY <2>4 DEF GiftToPosition
    <3> QED
      BY <2>4, <3>1, <3>2, TradersTransfer
  <2> QED
    BY <1>1, <1>4, <2>2, <2>3, <2>4, FireBooks, QuietEffect, PositionOpsSplit
<1> QED
  BY <1>2, <1>3, <1>4 DEF Next

\* Where officials, keepers and traders are different wallets, what Config
\* says was paid to officials and keepers is what their wallets have gained.
THEOREM BooksAlwaysMatch == Spec => []BooksMatchWallets
<1>1. Init => BooksInv
  <2> SUFFICES ASSUME Init
               PROVE  BooksInv
      OBVIOUS
  <2>1. config = None /\ lamports = Funds
    BY DEF Init, ConfigInit
  <2> QED
    BY <2>1, RolesAreWallets DEF BooksInv, FeesBooked, RewardsBooked
<1>2. Spec => []BooksInv
  BY <1>1, BooksStep, InvInit, InvStep, ConservedInit, ConservedStep, PTL DEF Spec
<1> QED
  BY <1>2, BooksInvImplies, PTL
=============================================================================
