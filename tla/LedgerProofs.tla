---------------------------- MODULE LedgerProofs ----------------------------
(***************************************************************************)
(* The double-entry ledger balances, for every number of charges, clients, *)
(* drivers, amounts and commissions.                                       *)
(*                                                                         *)
(* The first half is about sums: what SumFunctionOnSet adds up does not    *)
(* depend on the order in which it picks the elements.  An induction over  *)
(* finite sets is written as the choice of a smallest counterexample.  The *)
(* second half is the invariant: a transaction that is open holds exactly  *)
(* the legs of its charge, and the charge is still in the state from which *)
(* it may be posted; so a commit moves the books and the invoice together. *)
(***************************************************************************)
EXTENDS Ledger, FiniteSetTheorems, WellFoundedInduction, TLAPS

(* Sums *)

\* A family of subsets of a finite set has a member that contains no other member.
LEMMA MinimalSubset ==
  ASSUME NEW S, IsFiniteSet(S), NEW B \in SUBSET SUBSET S, B # {}
  PROVE  \E T \in B : \A U \in B : U \subseteq T => U = T
<1>1. IsWellFoundedOn(StrictSubsetOrdering(S), SUBSET S)
  BY FS_StrictSubsetOrderingWellFounded, FS_FiniteSubsetsOfFinite
<1>2. \E x \in B : \A y \in B : ~ (<<y, x>> \in StrictSubsetOrdering(S))
  BY <1>1, WFMin
<1>3. QED
  BY <1>2 DEF StrictSubsetOrdering

\* The element the fold takes first, and the recursion it defines.
First(s) == CHOOSE x \in s : TRUE

Adds(g, f, S) ==
  g = [s \in SUBSET S |-> IF s = {} THEN 0 ELSE f[First(s)] + g[s \ {First(s)}]]

\* The library folds by a recursive function, which is a CHOOSE.
LEMMA AddsUnfold ==
  ASSUME NEW f, NEW S
  PROVE  SumFunctionOnSet(f, S) = (CHOOSE g : Adds(g, f, S))[S]
  BY DEF SumFunctionOnSet, FoldFunctionOnSet, MapThenFoldSet, Adds, First

LEMMA FirstIn == \A s : s # {} => First(s) \in s /\ s \ {First(s)} # s
  BY DEF First

\* Two solutions of the recursion agree where both are defined.
LEMMA AddsAgree ==
  ASSUME NEW f, NEW S, NEW T \in SUBSET S, IsFiniteSet(T), NEW g, NEW h,
         Adds(g, f, S), Adds(h, f, T)
  PROVE  \A u \in SUBSET T : g[u] = h[u]
<1> DEFINE B == {u \in SUBSET T : g[u] # h[u]}
<1> SUFFICES ASSUME B # {} PROVE FALSE
  OBVIOUS
<1>1. \E u \in B : \A v \in B : v \subseteq u => v = u
  <2>1. B \in SUBSET SUBSET T
    OBVIOUS
  <2> HIDE DEF B
  <2> QED
    BY <2>1, MinimalSubset
<1> PICK u \in B : \A v \in B : v \subseteq u => v = u
  BY <1>1
<1>2. g[u] = IF u = {} THEN 0 ELSE f[First(u)] + g[u \ {First(u)}]
  BY <1>1 DEF Adds
<1>3. h[u] = IF u = {} THEN 0 ELSE f[First(u)] + h[u \ {First(u)}]
  BY <1>1 DEF Adds
<1>4. u # {} => g[u \ {First(u)}] = h[u \ {First(u)}]
  BY <1>1, FirstIn
<1> QED
  BY <1>1, <1>2, <1>3, <1>4

\* On a finite set the recursion has a solution.
LEMMA AddsExists ==
  ASSUME NEW f, NEW S, IsFiniteSet(S), \A x \in S : f[x] \in Int
  PROVE  \E g \in [SUBSET S -> Int] : Adds(g, f, S)
<1> DEFINE Good(T) == \E g \in [SUBSET T -> Int] : Adds(g, f, T)
           B == {T \in SUBSET S : ~Good(T)}
<1> SUFFICES ASSUME B # {} PROVE FALSE
  OBVIOUS
<1>1. \E T \in B : \A v \in B : v \subseteq T => v = T
  <2>1. B \in SUBSET SUBSET S
    OBVIOUS
  <2> HIDE DEF B
  <2> QED
    BY <2>1, MinimalSubset
<1> PICK T \in B : \A v \in B : v \subseteq T => v = T
  BY <1>1
<1> DEFINE Proper == {U \in SUBSET T : U # T}
<1>2. \E G : \A U \in Proper : G[U] \in [SUBSET U -> Int] /\ Adds(G[U], f, U)
  <2>1. \A U \in Proper : \E g : g \in [SUBSET U -> Int] /\ Adds(g, f, U)
    OBVIOUS
  <2> HIDE DEF Proper
  <2> WITNESS [U \in Proper |-> CHOOSE g : g \in [SUBSET U -> Int] /\ Adds(g, f, U)]
  <2> QED
    BY <2>1
<1> PICK G : \A U \in Proper : G[U] \in [SUBSET U -> Int] /\ Adds(G[U], f, U)
  BY <1>2
<1> DEFINE h == [s \in SUBSET T |-> IF s = {} THEN 0
                                    ELSE f[First(s)] + G[s \ {First(s)}][s \ {First(s)}]]
<1>3. ASSUME NEW s \in SUBSET T, s # {}
      PROVE  s \ {First(s)} \in Proper /\ First(s) \in S
  BY <1>3, FirstIn
<1>4. h \in [SUBSET T -> Int]
  <2>1. ASSUME NEW s \in SUBSET T, s # {}
        PROVE  f[First(s)] + G[s \ {First(s)}][s \ {First(s)}] \in Int
    <3>1. PICK u \in Proper : u = s \ {First(s)}
      BY <1>3, <2>1
    <3>2. G[u] \in [SUBSET u -> Int]
      OBVIOUS
    <3>3. G[u][u] \in Int /\ f[First(s)] \in Int
      BY <3>2, <1>3, <2>1
    <3> QED
      BY <3>1, <3>3
  <2>2. ASSUME NEW s \in SUBSET T
        PROVE  (IF s = {} THEN 0 ELSE f[First(s)] + G[s \ {First(s)}][s \ {First(s)}]) \in Int
    BY <2>1
  <2> QED
    BY <2>2
<1>5. ASSUME NEW s \in SUBSET T, s # {}
      PROVE  h[s \ {First(s)}] = G[s \ {First(s)}][s \ {First(s)}]
  <2>1. PICK u \in Proper : u = s \ {First(s)}
    BY <1>3, <1>5
  <2>2. Adds(G[u], f, u)
    OBVIOUS
  <2>3. G[u][u] = IF u = {} THEN 0 ELSE f[First(u)] + G[u][u \ {First(u)}]
    BY <2>2 DEF Adds
  <2>4. ASSUME u # {} PROVE G[u][u \ {First(u)}] = G[u \ {First(u)}][u \ {First(u)}]
    <3>1. u \ {First(u)} \in Proper
      BY <1>3, <2>4
    <3>2. PICK v \in Proper : v = u \ {First(u)}
      BY <3>1
    <3>3. v \in SUBSET u /\ v \in SUBSET v /\ v \in SUBSET S
      BY <3>2
    <3>4. Adds(G[v], f, v) /\ IsFiniteSet(v)
      BY <3>3, FS_Subset
    <3>5. \A w \in SUBSET v : G[u][w] = G[v][w]
      <4>1. \A g, k : Adds(g, f, u) /\ Adds(k, f, v) => \A w \in SUBSET v : g[w] = k[w]
        BY <3>3, <3>4, AddsAgree
      <4> QED
        BY <2>2, <3>4, <4>1
    <3> QED
      BY <3>2, <3>3, <3>5
  <2>5. h[u] = IF u = {} THEN 0 ELSE f[First(u)] + G[u \ {First(u)}][u \ {First(u)}]
    OBVIOUS
  <2> QED
    BY <2>1, <2>3, <2>4, <2>5
<1>6. Adds(h, f, T)
  <2>1. \A s \in SUBSET T : s # {} => h[s \ {First(s)}] = G[s \ {First(s)}][s \ {First(s)}]
    BY <1>5
  <2>2. PICK k : k = h
    OBVIOUS
  <2>3. k = [s \in SUBSET T |-> IF s = {} THEN 0 ELSE f[First(s)] + k[s \ {First(s)}]]
    <3>1. DOMAIN k = SUBSET T
      BY <2>2
    <3>2. ASSUME NEW s \in SUBSET T
          PROVE  k[s] = IF s = {} THEN 0 ELSE f[First(s)] + k[s \ {First(s)}]
      BY <2>1, <2>2
    <3>3. k = [s \in SUBSET T |-> k[s]]
      BY <2>2
    <3> QED
      BY <3>2, <3>3
  <2> QED
    BY <2>2, <2>3 DEF Adds
<1> QED
  BY <1>4, <1>6

\* So the fold computes what its definition says.
LEMMA SumFacts ==
  ASSUME NEW f, NEW S, IsFiniteSet(S), \A x \in S : f[x] \in Int
  PROVE  /\ SumFunctionOnSet(f, S) \in Int
         /\ S = {} => SumFunctionOnSet(f, S) = 0
         /\ S # {} => SumFunctionOnSet(f, S) = f[First(S)] + SumFunctionOnSet(f, S \ {First(S)})
<1>1. ASSUME NEW U \in SUBSET S
      PROVE  \E g : /\ Adds(g, f, U) /\ IsFiniteSet(U)
                    /\ SumFunctionOnSet(f, U) = g[U]
                    /\ g[U] \in Int
  <2>1. IsFiniteSet(U)
    BY FS_Subset
  <2>2. PICK g \in [SUBSET U -> Int] : Adds(g, f, U)
    BY <2>1, AddsExists
  <2>3. PICK k : k = CHOOSE it : Adds(it, f, U)
    OBVIOUS
  <2>4. Adds(k, f, U)
    BY <2>2, <2>3
  <2>5. k[U] = g[U]
    BY <2>1, <2>2, <2>4, AddsAgree
  <2> QED
    BY <2>1, <2>2, <2>3, <2>4, <2>5, AddsUnfold
<1>2. PICK g : Adds(g, f, S) /\ SumFunctionOnSet(f, S) = g[S] /\ g[S] \in Int
  BY <1>1
<1>3. PICK R : R = S \ {First(S)} /\ R \in SUBSET S
  OBVIOUS
<1>4. PICK h : Adds(h, f, R) /\ IsFiniteSet(R) /\ SumFunctionOnSet(f, R) = h[R]
  BY <1>1, <1>3
<1>5. g[R] = h[R]
  BY <1>2, <1>3, <1>4, AddsAgree
<1>6. g[S] = IF S = {} THEN 0 ELSE f[First(S)] + g[R]
  BY <1>2, <1>3 DEF Adds
<1> QED
  BY <1>2, <1>3, <1>4, <1>5, <1>6

LEMMA SumEmpty == ASSUME NEW f PROVE SumFunctionOnSet(f, {}) = 0
  BY SumFacts, FS_EmptySet

\* Any element may be taken first.
LEMMA SumRemove ==
  ASSUME NEW f, NEW S, IsFiniteSet(S), \A x \in S : f[x] \in Int, NEW x \in S
  PROVE  SumFunctionOnSet(f, S) = f[x] + SumFunctionOnSet(f, S \ {x})
<1> DEFINE Bad(U) == \E z \in U : SumFunctionOnSet(f, U) # f[z] + SumFunctionOnSet(f, U \ {z})
           B == {U \in SUBSET S : Bad(U)}
<1> SUFFICES ASSUME B # {} PROVE FALSE
  OBVIOUS
<1>1. \E U \in B : \A V \in B : V \subseteq U => V = U
  <2>1. B \in SUBSET SUBSET S
    OBVIOUS
  <2> HIDE DEF B
  <2> QED
    BY <2>1, MinimalSubset
<1> PICK U \in B : \A V \in B : V \subseteq U => V = U
  BY <1>1
<1>2. PICK z \in U : SumFunctionOnSet(f, U) # f[z] + SumFunctionOnSet(f, U \ {z})
  OBVIOUS
<1>3. PICK y \in U : y = First(U)
  BY <1>2, FirstIn
<1>4. \A V \in SUBSET U : IsFiniteSet(V) /\ SumFunctionOnSet(f, V) \in Int
  <2> TAKE V \in SUBSET U
  <2>1. IsFiniteSet(V)
    BY FS_Subset
  <2> QED
    BY <2>1, SumFacts
<1>5. SumFunctionOnSet(f, U) = f[y] + SumFunctionOnSet(f, U \ {y})
  <2>1. IsFiniteSet(U) /\ U # {} /\ \A v \in U : f[v] \in Int
    BY <1>2, <1>4
  <2> QED
    BY <2>1, <1>3, SumFacts
<1>6. z # y
  BY <1>2, <1>5
<1>7. \A V \in SUBSET U : V # U => \A v \in V : SumFunctionOnSet(f, V) = f[v] + SumFunctionOnSet(f, V \ {v})
  OBVIOUS
<1>8. SumFunctionOnSet(f, U \ {y}) = f[z] + SumFunctionOnSet(f, (U \ {y}) \ {z})
  BY <1>6, <1>7
<1>9. SumFunctionOnSet(f, U \ {z}) = f[y] + SumFunctionOnSet(f, (U \ {z}) \ {y})
  BY <1>6, <1>7
<1>10. (U \ {z}) \ {y} = (U \ {y}) \ {z}
  OBVIOUS
<1>11. /\ f[z] \in Int /\ f[y] \in Int
       /\ SumFunctionOnSet(f, (U \ {y}) \ {z}) \in Int
  BY <1>4
<1>12. PICK c \in Int : c = SumFunctionOnSet(f, (U \ {y}) \ {z})
  BY <1>11
<1>13. SumFunctionOnSet(f, U) = f[y] + (f[z] + c)
  BY <1>5, <1>8, <1>12
<1>14. SumFunctionOnSet(f, U \ {z}) = f[y] + c
  BY <1>9, <1>10, <1>12
<1>15. f[y] + (f[z] + c) = f[z] + (f[y] + c)
  BY <1>11
<1> QED
  BY <1>2, <1>13, <1>14, <1>15

\* A sum depends only on the values on its set.
LEMMA SumAgree ==
  ASSUME NEW S, IsFiniteSet(S), NEW f, NEW g, \A x \in S : f[x] \in Int /\ g[x] = f[x]
  PROVE  SumFunctionOnSet(g, S) = SumFunctionOnSet(f, S)
<1> DEFINE B == {U \in SUBSET S : SumFunctionOnSet(g, U) # SumFunctionOnSet(f, U)}
<1> SUFFICES ASSUME B # {} PROVE FALSE
  OBVIOUS
<1>1. \E U \in B : \A V \in B : V \subseteq U => V = U
  <2>1. B \in SUBSET SUBSET S
    OBVIOUS
  <2> HIDE DEF B
  <2> QED
    BY <2>1, MinimalSubset
<1> PICK U \in B : \A V \in B : V \subseteq U => V = U
  BY <1>1
<1>2. U # {}
  BY SumEmpty
<1>3. PICK y \in U : y = First(U)
  BY <1>2, FirstIn
<1>4. IsFiniteSet(U) /\ \A x \in U : f[x] \in Int /\ g[x] \in Int
  BY FS_Subset
<1>5. /\ SumFunctionOnSet(f, U) = f[y] + SumFunctionOnSet(f, U \ {y})
      /\ SumFunctionOnSet(g, U) = g[y] + SumFunctionOnSet(g, U \ {y})
  BY <1>4, SumRemove
<1>6. U \ {y} \notin B /\ U \ {y} \in SUBSET S
  OBVIOUS
<1> QED
  BY <1>5, <1>6

LEMMA SumInsert ==
  ASSUME NEW f, NEW S, IsFiniteSet(S), NEW x, x \notin S, \A y \in S \cup {x} : f[y] \in Int
  PROVE  SumFunctionOnSet(f, S \cup {x}) = SumFunctionOnSet(f, S) + f[x]
<1>1. IsFiniteSet(S \cup {x}) /\ (S \cup {x}) \ {x} = S
  BY FS_AddElement
<1>2. SumFunctionOnSet(f, S \cup {x}) = f[x] + SumFunctionOnSet(f, (S \cup {x}) \ {x})
  BY <1>1, SumRemove
<1>3. PICK c \in Int : c = SumFunctionOnSet(f, S)
  BY SumFacts
<1>4. SumFunctionOnSet(f, S \cup {x}) = f[x] + c
  BY <1>1, <1>2, <1>3
<1>5. f[x] \in Int
  OBVIOUS
<1> QED
  BY <1>3, <1>4, <1>5

\* One value moves by d, and so does the sum.
LEMMA SumPost ==
  ASSUME NEW S, IsFiniteSet(S), NEW f, NEW g, NEW x \in S, NEW d \in Int,
         \A y \in S : f[y] \in Int, g[x] = f[x] + d, \A y \in S \ {x} : g[y] = f[y]
  PROVE  SumFunctionOnSet(g, S) = SumFunctionOnSet(f, S) + d
<1>1. IsFiniteSet(S \ {x}) /\ \A y \in S : g[y] \in Int
  BY FS_RemoveElement
<1>2. /\ SumFunctionOnSet(f, S) = f[x] + SumFunctionOnSet(f, S \ {x})
      /\ SumFunctionOnSet(g, S) = g[x] + SumFunctionOnSet(g, S \ {x})
  BY <1>1, SumRemove
<1>3. SumFunctionOnSet(g, S \ {x}) = SumFunctionOnSet(f, S \ {x})
  BY <1>1, SumAgree
<1>4. PICK c \in Int : c = SumFunctionOnSet(f, S \ {x})
  BY <1>1, SumFacts
<1> QED
  BY <1>2, <1>3, <1>4

LEMMA SumTwo ==
  ASSUME NEW f, DOMAIN f = 1..2, f[1] \in Int, f[2] \in Int
  PROVE  SumFunction(f) = f[1] + f[2]
<1>1. DOMAIN f = {} \cup {1} \cup {2}
  <2>1. 1..2 = {1, 2}
    OBVIOUS
  <2> QED
    BY <2>1
<1>2. IsFiniteSet({}) /\ IsFiniteSet({} \cup {1})
  BY FS_EmptySet, FS_AddElement
<1>3. SumFunctionOnSet(f, {} \cup {1}) = 0 + f[1]
  BY <1>2, SumInsert, SumEmpty
<1>4. 2 \notin {} \cup {1}
  OBVIOUS
<1>5. SumFunctionOnSet(f, {} \cup {1} \cup {2}) = SumFunctionOnSet(f, {} \cup {1}) + f[2]
  BY <1>2, <1>4, SumInsert
<1>6. SumFunction(f) = 0 + f[1] + f[2]
  BY <1>1, <1>3, <1>5 DEF SumFunction
<1> QED
  BY <1>6

LEMMA SumThree ==
  ASSUME NEW f, DOMAIN f = 1..3, f[1] \in Int, f[2] \in Int, f[3] \in Int
  PROVE  SumFunction(f) = f[1] + f[2] + f[3]
<1>1. DOMAIN f = {} \cup {1} \cup {2} \cup {3}
  <2>1. 1..3 = {1, 2, 3}
    OBVIOUS
  <2> QED
    BY <2>1
<1>2. IsFiniteSet({}) /\ IsFiniteSet({} \cup {1}) /\ IsFiniteSet({} \cup {1} \cup {2})
  BY FS_EmptySet, FS_AddElement
<1>3. SumFunctionOnSet(f, {} \cup {1}) = 0 + f[1]
  BY <1>2, SumInsert, SumEmpty
<1>4. 2 \notin {} \cup {1} /\ 3 \notin {} \cup {1} \cup {2}
  OBVIOUS
<1>5. SumFunctionOnSet(f, {} \cup {1} \cup {2}) = SumFunctionOnSet(f, {} \cup {1}) + f[2]
  BY <1>2, <1>4, SumInsert
<1>6. SumFunctionOnSet(f, {} \cup {1} \cup {2} \cup {3})
        = SumFunctionOnSet(f, {} \cup {1} \cup {2}) + f[3]
  BY <1>2, <1>4, SumInsert
<1>7. SumFunction(f) = 0 + f[1] + f[2] + f[3]
  BY <1>1, <1>3, <1>5, <1>6 DEF SumFunction
<1> QED
  BY <1>7

---------------------------------------------------------------------------
(* The invariant *)

LedgerTopics == {"completed", "cancelled"}
BillStates == {"none", "open", "paid", "uncollectible"}
LegRecord == [account : AllAccounts, signed : Int]
TxRecord == [for : Charges \cup {NoCharge}, kind : BillStates, legs : Seq(LegRecord), at : Nat \ {0},
             absent : BOOLEAN, created : SUBSET AllAccounts]

LedgerType ==
  /\ amount \in [Charges -> Nat]
  /\ offset \in [LedgerTopics -> Nat]
  /\ tx \in [LedgerPosters -> TxRecord]
  /\ bill \in [Charges -> BillStates]
  /\ books \in [AllAccounts -> Int]
  /\ opened \in [Charges -> Int]
  /\ told \in [Charges -> Int]
  /\ rate \in DOMAIN Rates

\* An open transaction posts the legs of one charge of its own topic, at the rate that is
\* still in force, and the row lock or the unique key keeps that invoice as it was.
TxOK(p) ==
  tx[p] # NoTx =>
    /\ tx[p].for \in Charges
    /\ p = "finalizer" =>
         /\ tx[p].kind \in {"paid", "uncollectible"}
         /\ bill[tx[p].for] = "open"
         /\ tx[p].legs = IF tx[p].kind = "paid" THEN T2Legs(tx[p].for) ELSE T3Legs(tx[p].for)
    /\ p \in LedgerTopics =>
         /\ tx[p].kind = "open"
         /\ bill[tx[p].for] = "none"
         /\ tx[p].for \in Elements(Queue(p))
         /\ tx[p].legs = BuildT1Legs(tx[p].for)

\* Until the first redeployment every share that was posted or told is today's.
SharesKept ==
  rate = 1 => \A ch \in Charges : /\ bill[ch] # "none" => opened[ch] = SplitOf(ch)
                                  /\ bill[ch] = "paid" => told[ch] = opened[ch]

LedgerInv ==
  /\ LedgerType
  /\ \A p \in LedgerPosters : TxOK(p)
  /\ SharesKept
  /\ LedgerBalances

LedgerSpec == LedgerInit /\ [][LedgerNext]_ledgerVars

---------------------------------------------------------------------------
(* Finiteness, accounts and legs *)

LEMMA ElementsFinite ==
  ASSUME NEW S, NEW seq \in Seq(S)
  PROVE  IsFiniteSet(Elements(seq))
<1>1. seq \in Surjection(1..Len(seq), Elements(seq))
  BY DEF Surjection, Elements
<1>2. IsFiniteSet(1..Len(seq))
  BY FS_Interval
<1> QED
  BY <1>1, <1>2, FS_Surjection

LEMMA ChargesFinite == IsFiniteSet(Charges)
  BY ElementsFinite, LedgerAssumption, FS_Union DEF Charges

LEMMA AccountsFinite == IsFiniteSet(AllAccounts)
<1> DEFINE R == {Receivable(PayerOf[ch]) : ch \in Charges}
           P == {Payable(DriverOf[ch]) : ch \in Charges}
<1>1. IsFiniteSet(R)
  <2>1. [ch \in Charges |-> Receivable(PayerOf[ch])] \in Surjection(Charges, R)
    BY DEF Surjection
  <2> QED
    BY <2>1, ChargesFinite, FS_Surjection
<1>2. IsFiniteSet(P)
  <2>1. [ch \in Charges |-> Payable(DriverOf[ch])] \in Surjection(Charges, P)
    BY DEF Surjection
  <2> QED
    BY <2>1, ChargesFinite, FS_Surjection
<1>3. IsFiniteSet({Revenue, Clearing, BadDebt})
  <2>1. IsFiniteSet({} \cup {Revenue} \cup {Clearing} \cup {BadDebt})
    BY FS_EmptySet, FS_AddElement
  <2>2. {Revenue, Clearing, BadDebt} = {} \cup {Revenue} \cup {Clearing} \cup {BadDebt}
    OBVIOUS
  <2> QED
    BY <2>1, <2>2
<1>4. AllAccounts = (R \cup P) \cup {Revenue, Clearing, BadDebt}
  BY DEF AllAccounts
<1> HIDE DEF R, P
<1> QED
  BY <1>1, <1>2, <1>3, <1>4, FS_Union

LEMMA AccountsDiffer ==
  /\ \A k, d : /\ Receivable(k) # Payable(d) /\ Receivable(k) # Revenue
               /\ Receivable(k) # Clearing /\ Receivable(k) # BadDebt
               /\ Payable(d) # Revenue /\ Payable(d) # Clearing /\ Payable(d) # BadDebt
  /\ Revenue # Clearing /\ Revenue # BadDebt /\ Clearing # BadDebt
  /\ \A k, l : /\ Receivable(k) = Receivable(l) <=> k = l
               /\ Payable(k) = Payable(l) <=> k = l
  /\ \A ch \in Charges : Receivable(PayerOf[ch]) \in AllAccounts /\ Payable(DriverOf[ch]) \in AllAccounts
  /\ Revenue \in AllAccounts /\ Clearing \in AllAccounts /\ BadDebt \in AllAccounts
  BY DEF Receivable, Payable, Revenue, Clearing, BadDebt, AllAccounts

LEMMA SplitTyped ==
  ASSUME LedgerType, NEW ch \in Charges
  PROVE  SplitOf(ch) \in Int /\ Fee(amount[ch]) \in Int /\ amount[ch] \in Nat
<1>1. amount[ch] \in Nat /\ Rates[rate] \in Nat
  BY LedgerAssumption DEF LedgerType
<1>2. \A m, n \in Nat : (m * n) \div 10000 \in Int
  OBVIOUS
<1> QED
  BY <1>1, <1>2 DEF SplitOf, Fee

\* What a transaction of two or three legs adds to an account.
LEMMA TotalOfTwo ==
  ASSUME NEW a, NEW b, NEW x \in Int, NEW y \in Int, NEW c
  PROVE  Total(<<Leg(a, x), Leg(b, y)>>, c)
           = (IF a = c THEN x ELSE 0) + (IF b = c THEN y ELSE 0)
<1> DEFINE legs == <<Leg(a, x), Leg(b, y)>>
           f == [i \in DOMAIN legs |-> IF legs[i].account = c THEN legs[i].signed ELSE 0]
<1>1. /\ DOMAIN legs = 1..2
      /\ legs[1].account = a /\ legs[1].signed = x
      /\ legs[2].account = b /\ legs[2].signed = y
  BY DEF Leg
<1>2. /\ DOMAIN f = 1..2
      /\ f[1] = IF a = c THEN x ELSE 0
      /\ f[2] = IF b = c THEN y ELSE 0
  BY <1>1
<1>3. Total(legs, c) = SumFunction(f)
  BY DEF Total
<1> HIDE DEF f, legs
<1>4. SumFunction(f) = f[1] + f[2]
  BY <1>2, SumTwo
<1> QED
  BY <1>2, <1>3, <1>4 DEF legs

LEMMA TotalOfThree ==
  ASSUME NEW a, NEW b, NEW d, NEW x \in Int, NEW y \in Int, NEW z \in Int, NEW c
  PROVE  Total(<<Leg(a, x), Leg(b, y), Leg(d, z)>>, c)
           = (IF a = c THEN x ELSE 0) + (IF b = c THEN y ELSE 0) + (IF d = c THEN z ELSE 0)
<1> DEFINE legs == <<Leg(a, x), Leg(b, y), Leg(d, z)>>
           f == [i \in DOMAIN legs |-> IF legs[i].account = c THEN legs[i].signed ELSE 0]
<1>1. /\ DOMAIN legs = 1..3
      /\ legs[1].account = a /\ legs[1].signed = x
      /\ legs[2].account = b /\ legs[2].signed = y
      /\ legs[3].account = d /\ legs[3].signed = z
  BY DEF Leg
<1>2. /\ DOMAIN f = 1..3
      /\ f[1] = IF a = c THEN x ELSE 0
      /\ f[2] = IF b = c THEN y ELSE 0
      /\ f[3] = IF d = c THEN z ELSE 0
  BY <1>1
<1>3. Total(legs, c) = SumFunction(f)
  BY DEF Total
<1> HIDE DEF f, legs
<1>4. SumFunction(f) = f[1] + f[2] + f[3]
  BY <1>2, SumThree
<1> QED
  BY <1>2, <1>3, <1>4 DEF legs

LEMMA OpenTotals ==
  ASSUME LedgerType, NEW ch \in Charges, NEW a
  PROVE  Total(BuildT1Legs(ch), a)
           = (IF Receivable(PayerOf[ch]) = a THEN -amount[ch] ELSE 0)
               + (IF Revenue = a THEN SplitOf(ch) ELSE 0)
               + (IF Payable(DriverOf[ch]) = a THEN amount[ch] - SplitOf(ch) ELSE 0)
<1>1. SplitOf(ch) \in Int /\ amount[ch] \in Int /\ -amount[ch] \in Int /\ amount[ch] - SplitOf(ch) \in Int
  BY SplitTyped
<1>2. CASE IsFare(ch)
  <2>1. BuildT1Legs(ch) = <<Leg(Receivable(PayerOf[ch]), -amount[ch]), Leg(Revenue, SplitOf(ch)),
                            Leg(Payable(DriverOf[ch]), amount[ch] - SplitOf(ch))>>
    BY <1>2 DEF BuildT1Legs, SplitOf
  <2>2. PICK r, v, q, m, n, o : /\ r = Receivable(PayerOf[ch]) /\ v = Revenue /\ q = Payable(DriverOf[ch])
                                /\ m = -amount[ch] /\ n = SplitOf(ch) /\ o = amount[ch] - SplitOf(ch)
    OBVIOUS
  <2>3. BuildT1Legs(ch) = <<Leg(r, m), Leg(v, n), Leg(q, o)>>
    BY <2>1, <2>2
  <2>4. Total(<<Leg(r, m), Leg(v, n), Leg(q, o)>>, a)
          = (IF r = a THEN m ELSE 0) + (IF v = a THEN n ELSE 0) + (IF q = a THEN o ELSE 0)
    BY <1>1, <2>2, TotalOfThree
  <2> QED
    BY <2>2, <2>3, <2>4
<1>3. CASE ~IsFare(ch)
  <2>1. /\ BuildT1Legs(ch) = <<Leg(Receivable(PayerOf[ch]), -amount[ch]), Leg(Revenue, SplitOf(ch))>>
        /\ amount[ch] - SplitOf(ch) = 0
    BY <1>3, <1>1 DEF BuildT1Legs, SplitOf
  <2>2. Total(BuildT1Legs(ch), a) = (IF Receivable(PayerOf[ch]) = a THEN -amount[ch] ELSE 0)
                                      + (IF Revenue = a THEN SplitOf(ch) ELSE 0)
    BY <1>1, <2>1, TotalOfTwo
  <2> QED
    BY <1>1, <2>1, <2>2
<1> QED
  BY <1>2, <1>3

LEMMA SettleTotals ==
  ASSUME LedgerType, NEW ch \in Charges, NEW a
  PROVE  /\ Total(T2Legs(ch), a) = (IF Clearing = a THEN -amount[ch] ELSE 0)
                                     + (IF Receivable(PayerOf[ch]) = a THEN amount[ch] ELSE 0)
         /\ Total(T3Legs(ch), a) = (IF BadDebt = a THEN -amount[ch] ELSE 0)
                                     + (IF Receivable(PayerOf[ch]) = a THEN amount[ch] ELSE 0)
<1>1. amount[ch] \in Int /\ -amount[ch] \in Int
  BY SplitTyped
<1>2. ASSUME NEW b
      PROVE  Total(<<Leg(b, -amount[ch]), Leg(Receivable(PayerOf[ch]), amount[ch])>>, a)
               = (IF b = a THEN -amount[ch] ELSE 0)
                   + (IF Receivable(PayerOf[ch]) = a THEN amount[ch] ELSE 0)
  BY <1>1, TotalOfTwo
<1> QED
  BY <1>2 DEF T2Legs, T3Legs

LEMMA LegsTyped ==
  ASSUME LedgerType, NEW ch \in Charges
  PROVE  /\ BuildT1Legs(ch) \in Seq(LegRecord)
         /\ T2Legs(ch) \in Seq(LegRecord) /\ T3Legs(ch) \in Seq(LegRecord)
<1>1. /\ SplitOf(ch) \in Int /\ Fee(amount[ch]) \in Int /\ amount[ch] \in Int /\ -amount[ch] \in Int
      /\ amount[ch] - Fee(amount[ch]) \in Int
  BY SplitTyped
<1>2. \A a \in AllAccounts, x \in Int : Leg(a, x) \in LegRecord
  BY DEF Leg, LegRecord
<1>3. /\ Leg(Receivable(PayerOf[ch]), -amount[ch]) \in LegRecord
      /\ Leg(Receivable(PayerOf[ch]), amount[ch]) \in LegRecord
      /\ Leg(Revenue, Fee(amount[ch])) \in LegRecord /\ Leg(Revenue, amount[ch]) \in LegRecord
      /\ Leg(Payable(DriverOf[ch]), amount[ch] - Fee(amount[ch])) \in LegRecord
      /\ Leg(Clearing, -amount[ch]) \in LegRecord /\ Leg(BadDebt, -amount[ch]) \in LegRecord
  BY <1>1, <1>2, AccountsDiffer
<1> QED
  BY <1>3 DEF BuildT1Legs, T2Legs, T3Legs

---------------------------------------------------------------------------
(* What a commit does to the books, as facts about functions.              *)

In(bl, st) == {ch \in Charges : bl[ch] = st}

\* The part of LedgerBalances that concerns the accounts.
Balanced(am, bl, bk, op) ==
  /\ SumFunction(bk) = 0
  /\ \A ch \in Charges :
       bk[Receivable(PayerOf[ch])]
         = -SumFunctionOnSet(am, {x \in In(bl, "open") : PayerOf[x] = PayerOf[ch]})
  /\ bk[Clearing] = -SumFunctionOnSet(am, In(bl, "paid"))
  /\ bk[BadDebt] = -SumFunctionOnSet(am, In(bl, "uncollectible"))
  /\ bk[Revenue] = SumFunctionOnSet(op, {ch \in Charges : bl[ch] # "none"})
  /\ \A ch \in Charges :
       bk[Payable(DriverOf[ch])]
         = SumFunctionOnSet([x \in Charges |-> am[x] - op[x]],
                            {x \in {y \in Charges : bl[y] # "none"} : DriverOf[x] = DriverOf[ch]})

LEMMA BalancedIs ==
  LedgerBalances <=> /\ Balanced(amount, bill, books, opened)
                     /\ \A x \in InState("paid") : rate = 1 => told[x] = opened[x]
  BY DEF LedgerBalances, Balanced, In, SumOf, InState, Invoiced

\* The books after three legs.
Posted(bk, a, x, b, y, c, z) ==
  [e \in AllAccounts |->
     bk[e] + ((IF a = e THEN x ELSE 0) + (IF b = e THEN y ELSE 0) + (IF c = e THEN z ELSE 0))]

\* The sum of the books moves by the sum of the legs.
LEMMA Moved ==
  ASSUME NEW bk \in [AllAccounts -> Int], NEW bk2 \in [AllAccounts -> Int],
         NEW a \in AllAccounts, NEW b \in AllAccounts, NEW c \in AllAccounts,
         a # b, a # c, b # c, NEW x \in Int, NEW y \in Int, NEW z \in Int,
         bk2 = Posted(bk, a, x, b, y, c, z)
  PROVE  SumFunction(bk2) = SumFunction(bk) + x + y + z
<1> DEFINE g == [bk EXCEPT ![a] = bk[a] + x]
           h == [g EXCEPT ![b] = g[b] + y]
<1>1. /\ g \in [AllAccounts -> Int] /\ g[a] = bk[a] + x
      /\ \A e \in AllAccounts \ {a} : g[e] = bk[e]
  OBVIOUS
<1>2. /\ h \in [AllAccounts -> Int] /\ h[b] = g[b] + y
      /\ \A e \in AllAccounts \ {b} : h[e] = g[e]
  BY <1>1
<1> HIDE DEF g, h
<1>3. bk2[c] = h[c] + z /\ \A e \in AllAccounts \ {c} : bk2[e] = h[e]
  BY <1>1, <1>2 DEF Posted
<1>4. SumFunctionOnSet(g, AllAccounts) = SumFunctionOnSet(bk, AllAccounts) + x
  BY <1>1, AccountsFinite, SumPost
<1>5. SumFunctionOnSet(h, AllAccounts) = SumFunctionOnSet(g, AllAccounts) + y
  BY <1>1, <1>2, AccountsFinite, SumPost
<1>6. SumFunctionOnSet(bk2, AllAccounts) = SumFunctionOnSet(h, AllAccounts) + z
  BY <1>2, <1>3, AccountsFinite, SumPost
<1>7. SumFunction(bk) = SumFunctionOnSet(bk, AllAccounts) /\ SumFunction(bk2) = SumFunctionOnSet(bk2, AllAccounts)
  BY DEF SumFunction
<1> QED
  BY <1>4, <1>5, <1>6, <1>7

\* A subset of the charges that gains one of them, or loses one.
LEMMA Gain ==
  ASSUME NEW f, \A x \in Charges : f[x] \in Int, NEW S \in SUBSET Charges, NEW ch \in Charges, ch \notin S
  PROVE  /\ SumFunctionOnSet(f, S) \in Int
         /\ SumFunctionOnSet(f, S \cup {ch}) = SumFunctionOnSet(f, S) + f[ch]
<1>1. IsFiniteSet(S)
  BY ChargesFinite, FS_Subset
<1> QED
  BY <1>1, SumInsert, SumFacts

LEMMA Lose ==
  ASSUME NEW f, \A x \in Charges : f[x] \in Int, NEW S \in SUBSET Charges, NEW ch \in S
  PROVE  /\ SumFunctionOnSet(f, S) \in Int
         /\ SumFunctionOnSet(f, S \ {ch}) = SumFunctionOnSet(f, S) - f[ch]
<1>1. IsFiniteSet(S) /\ IsFiniteSet(S \ {ch})
  BY ChargesFinite, FS_Subset
<1>2. SumFunctionOnSet(f, S) = f[ch] + SumFunctionOnSet(f, S \ {ch})
  BY <1>1, SumRemove
<1>3. PICK c \in Int : c = SumFunctionOnSet(f, S \ {ch})
  BY <1>1, SumFacts
<1>4. f[ch] \in Int
  OBVIOUS
<1> QED
  BY <1>2, <1>3, <1>4

SameOn(S, f, g) == \A x \in S : f[x] \in Int /\ g[x] = f[x]

LEMMA Unmoved ==
  ASSUME NEW f, NEW g, NEW S \in SUBSET Charges, SameOn(S, f, g)
  PROVE  SumFunctionOnSet(g, S) = SumFunctionOnSet(f, S)
  BY ChargesFinite, FS_Subset, SumAgree DEF SameOn

\* m to the payer of a charge, n to the platform, o to the driver.
SharePosted(bk, bk2, ch, m, n, o) ==
  bk2 = Posted(bk, Receivable(PayerOf[ch]), m, Revenue, n, Payable(DriverOf[ch]), o)

LEMMA SharesPosted ==
  ASSUME NEW bk \in [AllAccounts -> Int], NEW bk2 \in [AllAccounts -> Int], NEW ch \in Charges,
         NEW m \in Int, NEW n \in Int, NEW o \in Int,
         SharePosted(bk, bk2, ch, m, n, o)
  PROVE  SumFunction(bk2) = SumFunction(bk) + m + n + o
<1>1. PICK a \in AllAccounts, b \in AllAccounts, c \in AllAccounts :
        a = Receivable(PayerOf[ch]) /\ b = Revenue /\ c = Payable(DriverOf[ch])
  BY AccountsDiffer
<1>2. bk2 = Posted(bk, a, m, b, n, c, o) /\ a # b /\ a # c /\ b # c
  BY <1>1, AccountsDiffer DEF SharePosted
<1> QED
  BY <1>2, Moved

\* T1: the payer owes the amount, the platform and the driver share it.
LEMMA OpenBalances ==
  ASSUME NEW am \in [Charges -> Int], NEW bl, NEW bk \in [AllAccounts -> Int],
         NEW op \in [Charges -> Int], NEW ch \in Charges, bl \in [Charges -> BillStates],
         bl[ch] = "none", NEW n \in Int, Balanced(am, bl, bk, op),
         NEW bl2, bl2 = [bl EXCEPT ![ch] = "open"],
         NEW op2, op2 = [op EXCEPT ![ch] = n],
         NEW bk2 \in [AllAccounts -> Int],
         NEW m \in Int, m + am[ch] = 0, NEW o \in Int, n + o = am[ch],
         SharePosted(bk, bk2, ch, m, n, o)
  PROVE  Balanced(am, bl2, bk2, op2)
<1>0. \A a \in AllAccounts :
        bk2[a] = bk[a] + ((IF Receivable(PayerOf[ch]) = a THEN -am[ch] ELSE 0)
                           + (IF Revenue = a THEN n ELSE 0)
                           + (IF Payable(DriverOf[ch]) = a THEN am[ch] - n ELSE 0))
  BY DEF Posted, SharePosted
<1>1. SumFunction(bk2) = 0
  <2>1. SumFunction(bk2) = SumFunction(bk) + m + n + o
    BY SharesPosted
  <2>2. SumFunction(bk) = 0
    BY DEF Balanced
  <2> QED
    BY <2>1, <2>2
<1>2. ASSUME NEW k \in Charges
      PROVE  bk2[Receivable(PayerOf[k])]
               = -SumFunctionOnSet(am, {x \in In(bl2, "open") : PayerOf[x] = PayerOf[k]})
  <2> DEFINE S == {x \in In(bl, "open") : PayerOf[x] = PayerOf[k]}
             S2 == {x \in In(bl2, "open") : PayerOf[x] = PayerOf[k]}
  <2>1. bk[Receivable(PayerOf[k])] = -SumFunctionOnSet(am, S) /\ S \in SUBSET Charges /\ ch \notin S
    BY DEF Balanced, In
  <2>2. S2 = IF PayerOf[ch] = PayerOf[k] THEN S \cup {ch} ELSE S
    BY DEF In
  <2>3. /\ SumFunctionOnSet(am, S) \in Int
        /\ SumFunctionOnSet(am, S \cup {ch}) = SumFunctionOnSet(am, S) + am[ch]
    BY <2>1, Gain
  <2>4. bk2[Receivable(PayerOf[k])]
          = bk[Receivable(PayerOf[k])] + (IF PayerOf[ch] = PayerOf[k] THEN -am[ch] ELSE 0)
    <3>1. PICK a \in AllAccounts : a = Receivable(PayerOf[k])
      BY AccountsDiffer
    <3>2. a # Revenue /\ a # Payable(DriverOf[ch]) /\ (Receivable(PayerOf[ch]) = a <=> PayerOf[ch] = PayerOf[k])
      BY <3>1, AccountsDiffer
    <3>3. -am[ch] \in Int
      OBVIOUS
    <3> QED
      BY <1>0, <3>1, <3>2, <3>3
  <2> HIDE DEF S, S2
  <2>5. bk2[Receivable(PayerOf[k])] = -SumFunctionOnSet(am, S2)
    BY <2>1, <2>2, <2>3, <2>4
  <2> QED
    BY <2>5 DEF S2
<1>3. /\ bk2[Clearing] = -SumFunctionOnSet(am, In(bl2, "paid"))
      /\ bk2[BadDebt] = -SumFunctionOnSet(am, In(bl2, "uncollectible"))
  <2>1. In(bl2, "paid") = In(bl, "paid") /\ In(bl2, "uncollectible") = In(bl, "uncollectible")
    BY DEF In
  <2>2. bk2[Clearing] = bk[Clearing] /\ bk2[BadDebt] = bk[BadDebt]
    BY <1>0, AccountsDiffer
  <2> QED
    BY <2>1, <2>2 DEF Balanced
<1>4. bk2[Revenue] = SumFunctionOnSet(op2, {x \in Charges : bl2[x] # "none"})
  <2> DEFINE S == {x \in Charges : bl[x] # "none"}
  <2>1. bk[Revenue] = SumFunctionOnSet(op, S) /\ S \in SUBSET Charges /\ ch \notin S
    BY DEF Balanced
  <2>2. {x \in Charges : bl2[x] # "none"} = S \cup {ch}
    OBVIOUS
  <2>3. /\ SumFunctionOnSet(op2, S) \in Int
        /\ SumFunctionOnSet(op2, S \cup {ch}) = SumFunctionOnSet(op2, S) + n
    <3>1. op2[ch] = n /\ \A x \in Charges : op2[x] \in Int
      OBVIOUS
    <3> HIDE DEF S
    <3> QED
      BY <2>1, <3>1, Gain
  <2>4. SumFunctionOnSet(op2, S) = SumFunctionOnSet(op, S)
    <3>1. SameOn(S, op, op2)
      BY DEF SameOn
    <3> HIDE DEF S
    <3> QED
      BY <2>1, <3>1, Unmoved
  <2>5. bk2[Revenue] = bk[Revenue] + n
    BY <1>0, AccountsDiffer
  <2> HIDE DEF S
  <2> QED
    BY <2>1, <2>2, <2>3, <2>4, <2>5
<1>5. ASSUME NEW k \in Charges
      PROVE  bk2[Payable(DriverOf[k])]
               = SumFunctionOnSet([x \in Charges |-> am[x] - op2[x]],
                   {x \in {y \in Charges : bl2[y] # "none"} : DriverOf[x] = DriverOf[k]})
  <2> DEFINE f == [x \in Charges |-> am[x] - op[x]]
             f2 == [x \in Charges |-> am[x] - op2[x]]
             S == {x \in {y \in Charges : bl[y] # "none"} : DriverOf[x] = DriverOf[k]}
             S2 == {x \in {y \in Charges : bl2[y] # "none"} : DriverOf[x] = DriverOf[k]}
  <2>1. bk[Payable(DriverOf[k])] = SumFunctionOnSet(f, S) /\ S \in SUBSET Charges /\ ch \notin S
    BY DEF Balanced
  <2>2. S2 = IF DriverOf[ch] = DriverOf[k] THEN S \cup {ch} ELSE S
    OBVIOUS
  <2>3. f2[ch] = am[ch] - n /\ \A x \in Charges : f[x] \in Int /\ f2[x] \in Int
    OBVIOUS
  <2>4. \A x \in S : f2[x] = f[x]
    OBVIOUS
  <2>5. bk2[Payable(DriverOf[k])]
          = bk[Payable(DriverOf[k])] + (IF DriverOf[ch] = DriverOf[k] THEN am[ch] - n ELSE 0)
    <3>1. PICK a \in AllAccounts : a = Payable(DriverOf[k])
      BY AccountsDiffer
    <3>2. /\ a # Revenue /\ a # Receivable(PayerOf[ch])
          /\ Payable(DriverOf[ch]) = a <=> DriverOf[ch] = DriverOf[k]
      BY <3>1, AccountsDiffer
    <3>3. am[ch] - n \in Int /\ bk[a] \in Int
      OBVIOUS
    <3>4. bk2[a] = bk[a] + (0 + 0 + (IF DriverOf[ch] = DriverOf[k] THEN am[ch] - n ELSE 0))
      BY <1>0, <3>2
    <3>5. bk2[a] = bk[a] + (IF DriverOf[ch] = DriverOf[k] THEN am[ch] - n ELSE 0)
      BY <3>3, <3>4
    <3> QED
      BY <3>1, <3>5
  <2> HIDE DEF S, S2, f, f2
  <2>6. /\ SumFunctionOnSet(f2, S) \in Int
        /\ SumFunctionOnSet(f2, S \cup {ch}) = SumFunctionOnSet(f2, S) + f2[ch]
    BY <2>1, <2>3, Gain
  <2>7. SumFunctionOnSet(f2, S) = SumFunctionOnSet(f, S)
    <3>1. SameOn(S, f, f2)
      BY <2>1, <2>3, <2>4 DEF SameOn
    <3> QED
      BY <2>1, <3>1, Unmoved
  <2>8. bk2[Payable(DriverOf[k])] = SumFunctionOnSet(f2, S2)
    BY <2>1, <2>2, <2>3, <2>5, <2>6, <2>7
  <2> QED
    BY <2>8 DEF S2, f2
<1> QED
  BY <1>1, <1>2, <1>3, <1>4, <1>5 DEF Balanced

\* T2 and T3: the debt of the payer goes to clearing or to bad debt.
LEMMA SettleBalances ==
  ASSUME NEW am \in [Charges -> Int], NEW bl, NEW bk \in [AllAccounts -> Int],
         NEW op \in [Charges -> Int], NEW ch \in Charges, bl \in [Charges -> BillStates],
         bl[ch] = "open", Balanced(am, bl, bk, op),
         NEW kind \in {"paid", "uncollectible"}, NEW to,
         to = IF kind = "paid" THEN Clearing ELSE BadDebt,
         NEW bl2, bl2 = [bl EXCEPT ![ch] = kind],
         NEW bk2 \in [AllAccounts -> Int],
         bk2 = Posted(bk, to, -am[ch], Receivable(PayerOf[ch]), am[ch], Revenue, 0)
  PROVE  Balanced(am, bl2, bk2, op)
<1>0. \A a \in AllAccounts :
        bk2[a] = bk[a] + ((IF to = a THEN -am[ch] ELSE 0)
                           + (IF Receivable(PayerOf[ch]) = a THEN am[ch] ELSE 0))
  BY AccountsDiffer DEF Posted
<1>1. SumFunction(bk2) = 0
  <2>1. PICK a \in AllAccounts, b \in AllAccounts, c \in AllAccounts, x \in Int, y \in Int :
          a = to /\ b = Receivable(PayerOf[ch]) /\ c = Revenue /\ x = -am[ch] /\ y = am[ch]
    BY AccountsDiffer
  <2>2. a # b /\ a # c /\ b # c
    BY <2>1, AccountsDiffer
  <2>3. bk2 = Posted(bk, a, x, b, y, c, 0)
    BY <2>1
  <2>4. SumFunction(bk2) = SumFunction(bk) + x + y + 0
    BY <2>2, <2>3, Moved
  <2>5. SumFunction(bk) = 0
    BY DEF Balanced
  <2> QED
    BY <2>1, <2>4, <2>5
<1>2. ASSUME NEW k \in Charges
      PROVE  bk2[Receivable(PayerOf[k])]
               = -SumFunctionOnSet(am, {x \in In(bl2, "open") : PayerOf[x] = PayerOf[k]})
  <2> DEFINE S == {x \in In(bl, "open") : PayerOf[x] = PayerOf[k]}
             S2 == {x \in In(bl2, "open") : PayerOf[x] = PayerOf[k]}
  <2>1. bk[Receivable(PayerOf[k])] = -SumFunctionOnSet(am, S) /\ S \in SUBSET Charges
    BY DEF Balanced, In
  <2>2. /\ S2 = IF PayerOf[ch] = PayerOf[k] THEN S \ {ch} ELSE S
        /\ PayerOf[ch] = PayerOf[k] => ch \in S
    BY DEF In
  <2>3. bk2[Receivable(PayerOf[k])]
          = bk[Receivable(PayerOf[k])] + (IF PayerOf[ch] = PayerOf[k] THEN am[ch] ELSE 0)
    <3>1. PICK a \in AllAccounts : a = Receivable(PayerOf[k])
      BY AccountsDiffer
    <3>2. a # to /\ (Receivable(PayerOf[ch]) = a <=> PayerOf[ch] = PayerOf[k])
      BY <3>1, AccountsDiffer
    <3> QED
      BY <1>0, <3>1, <3>2
  <2>4. ASSUME ch \in S
        PROVE  /\ SumFunctionOnSet(am, S) \in Int
               /\ SumFunctionOnSet(am, S \ {ch}) = SumFunctionOnSet(am, S) - am[ch]
    BY <2>1, <2>4, Lose
  <2>5. bk[Receivable(PayerOf[k])] \in Int /\ am[ch] \in Int
    BY AccountsDiffer
  <2> HIDE DEF S, S2
  <2>6. bk2[Receivable(PayerOf[k])] = -SumFunctionOnSet(am, S2)
    BY <2>1, <2>2, <2>3, <2>4, <2>5
  <2> QED
    BY <2>6 DEF S2
<1>3. /\ bk2[Clearing] = -SumFunctionOnSet(am, In(bl2, "paid"))
      /\ bk2[BadDebt] = -SumFunctionOnSet(am, In(bl2, "uncollectible"))
  <2>1. ASSUME NEW st \in {"paid", "uncollectible"}, NEW c \in AllAccounts,
               c = IF st = "paid" THEN Clearing ELSE BadDebt
        PROVE  bk2[c] = -SumFunctionOnSet(am, In(bl2, st))
    <3>1. In(bl, st) \in SUBSET Charges /\ ch \notin In(bl, st)
      BY DEF In
    <3>2. In(bl2, st) = IF kind = st THEN In(bl, st) \cup {ch} ELSE In(bl, st)
      BY DEF In
    <3>3. /\ SumFunctionOnSet(am, In(bl, st)) \in Int
          /\ SumFunctionOnSet(am, In(bl, st) \cup {ch}) = SumFunctionOnSet(am, In(bl, st)) + am[ch]
      BY <3>1, Gain
    <3>4. bk[c] = -SumFunctionOnSet(am, In(bl, st))
      BY <2>1 DEF Balanced
    <3>5. bk2[c] = bk[c] + (IF kind = st THEN -am[ch] ELSE 0)
      BY <1>0, <2>1, AccountsDiffer
    <3>6. am[ch] \in Int
      OBVIOUS
    <3> QED
      BY <3>2, <3>3, <3>4, <3>5, <3>6
  <2>2. Clearing \in AllAccounts /\ BadDebt \in AllAccounts
    BY AccountsDiffer
  <2> QED
    BY <2>1, <2>2
<1>4. {x \in Charges : bl2[x] # "none"} = {x \in Charges : bl[x] # "none"}
  OBVIOUS
<1>5. bk2[Revenue] = bk[Revenue] /\ \A k \in Charges : bk2[Payable(DriverOf[k])] = bk[Payable(DriverOf[k])]
  BY <1>0, AccountsDiffer
<1> QED
  BY <1>1, <1>2, <1>3, <1>4, <1>5 DEF Balanced

---------------------------------------------------------------------------
(* Every step keeps the invariant *)

LEMMA SumZero ==
  ASSUME NEW S, IsFiniteSet(S), NEW f, \A x \in S : f[x] = 0
  PROVE  SumFunctionOnSet(f, S) = 0
<1> DEFINE B == {U \in SUBSET S : SumFunctionOnSet(f, U) # 0}
<1> SUFFICES ASSUME B # {} PROVE FALSE
  OBVIOUS
<1>1. \E U \in B : \A V \in B : V \subseteq U => V = U
  <2>1. B \in SUBSET SUBSET S
    OBVIOUS
  <2> HIDE DEF B
  <2> QED
    BY <2>1, MinimalSubset
<1> PICK U \in B : \A V \in B : V \subseteq U => V = U
  BY <1>1
<1>2. U # {}
  BY SumEmpty
<1>3. PICK y \in U : TRUE
  BY <1>2
<1>4. IsFiniteSet(U) /\ \A x \in U : f[x] \in Int
  BY FS_Subset
<1>5. SumFunctionOnSet(f, U) = f[y] + SumFunctionOnSet(f, U \ {y})
  BY <1>4, SumRemove
<1>6. SumFunctionOnSet(f, U \ {y}) = 0 /\ f[y] = 0
  OBVIOUS
<1> QED
  BY <1>5, <1>6

LEMMA NoTxTyped == NoTx \in TxRecord
  BY DEF NoTx, TxRecord, BillStates

NewTx(ch, kind, legs) == [NoTx EXCEPT !.for = ch, !.kind = kind, !.legs = legs]

LEMMA TxMade ==
  ASSUME NEW ch \in Charges, NEW kind \in BillStates, NEW legs \in Seq(LegRecord), NEW n,
         n = NewTx(ch, kind, legs)
  PROVE  n \in TxRecord /\ n.for = ch /\ n.kind = kind /\ n.legs = legs
<1>1. n = [for |-> ch, kind |-> kind, legs |-> legs, at |-> 1, absent |-> FALSE, created |-> {}]
  BY DEF NewTx, NoTx
<1>2. ch \in Charges \cup {NoCharge} /\ 1 \in Nat \ {0} /\ {} \in SUBSET AllAccounts
  OBVIOUS
<1>3. n.for = ch /\ n.kind = kind /\ n.legs = legs
  BY <1>1
<1>4. [for |-> ch, kind |-> kind, legs |-> legs, at |-> 1, absent |-> FALSE, created |-> {}] \in TxRecord
  BY <1>2, Zenon DEF TxRecord
<1> QED
  BY <1>1, <1>3, <1>4, Zenon

LEMMA LedgerInitially == LedgerInit => LedgerInv
<1> SUFFICES ASSUME LedgerInit PROVE LedgerInv
  OBVIOUS
<1>1. LedgerType
  <2>1. amount \in [Charges -> Nat]
    BY LedgerAssumption DEF LedgerInit
  <2>2. 1 \in DOMAIN Rates
    BY LedgerAssumption
  <2> QED
    BY <2>1, <2>2, NoTxTyped DEF LedgerInit, LedgerType, LedgerTopics, BillStates
<1>2. \A p \in LedgerPosters : TxOK(p)
  BY DEF LedgerInit, TxOK
<1>3. \A ch \in Charges : bill[ch] = "none"
  BY DEF LedgerInit
<1>4. SharesKept
  BY <1>3 DEF SharesKept
<1>5. /\ In(bill, "open") = {} /\ In(bill, "paid") = {} /\ In(bill, "uncollectible") = {}
      /\ {ch \in Charges : bill[ch] # "none"} = {}
  BY <1>3 DEF In
<1>6. \A a \in AllAccounts : books[a] = 0
  BY DEF LedgerInit
<1>7. SumFunction(books) = 0
  <2>1. DOMAIN books = AllAccounts
    BY DEF LedgerInit
  <2> QED
    BY <1>6, <2>1, AccountsFinite, SumZero DEF SumFunction
<1>8. Balanced(amount, bill, books, opened)
  <2>1. \A f : -SumFunctionOnSet(f, {}) = 0 /\ SumFunctionOnSet(f, {}) = 0
    BY SumEmpty
  <2>2. \A k : {x \in {} : PayerOf[x] = PayerOf[k]} = {} /\ {x \in {} : DriverOf[x] = DriverOf[k]} = {}
    OBVIOUS
  <2> QED
    BY <1>5, <1>6, <1>7, <2>1, <2>2, AccountsDiffer DEF Balanced
<1>9. LedgerBalances
  BY <1>3, <1>8, BalancedIs DEF InState
<1> QED
  BY <1>1, <1>2, <1>4, <1>9 DEF LedgerInv

\* The legs of a transaction do not change while the amounts and the rate stand.
LEMMA LegsStand ==
  ASSUME amount' = amount, rate' = rate, NEW ch
  PROVE  /\ BuildT1Legs(ch)' = BuildT1Legs(ch) /\ T2Legs(ch)' = T2Legs(ch)
         /\ T3Legs(ch)' = T3Legs(ch) /\ SplitOf(ch)' = SplitOf(ch)
  BY DEF BuildT1Legs, T2Legs, T3Legs, SplitOf, Fee

LEMMA TxKept ==
  ASSUME amount' = amount, rate' = rate, NEW q \in LedgerPosters, tx'[q] = tx[q], TxOK(q),
         tx[q] # NoTx => bill'[tx[q].for] = bill[tx[q].for]
  PROVE  TxOK(q)'
  BY LegsStand DEF TxOK

\* A step that commits nothing and changes the transaction of one poster.
LEMMA Uncommitted ==
  ASSUME LedgerInv, UNCHANGED <<amount, bill, books, opened, told, rate>>,
         NEW p \in LedgerPosters, NEW t \in TxRecord, tx' = [tx EXCEPT ![p] = t], TxOK(p)',
         offset' \in [LedgerTopics -> Nat]
  PROVE  LedgerInv'
<1>1. LedgerType'
  BY DEF LedgerInv, LedgerType
<1>2. ASSUME NEW q \in LedgerPosters PROVE TxOK(q)'
  <2>1. CASE q = p
    BY <2>1
  <2>2. CASE q # p
    <3>1. tx'[q] = tx[q]
      BY <2>2 DEF LedgerInv, LedgerType
    <3> QED
      BY <3>1, TxKept DEF LedgerInv
  <2> QED
    BY <2>1, <2>2
<1>3. SharesKept'
  BY LegsStand DEF LedgerInv, SharesKept
<1>4. LedgerBalances'
  BY DEF LedgerInv, LedgerBalances, SumOf, InState, Invoiced
<1> QED
  BY <1>1, <1>2, <1>3, <1>4 DEF LedgerInv

LEMMA Unposted ==
  ASSUME LedgerInv, UNCHANGED <<amount, bill, books, opened, told, rate, tx>>,
         offset' \in [LedgerTopics -> Nat]
  PROVE  LedgerInv'
<1>1. /\ "finalizer" \in LedgerPosters /\ tx["finalizer"] \in TxRecord
      /\ tx' = [tx EXCEPT !["finalizer"] = tx["finalizer"]]
  BY DEF LedgerInv, LedgerType, LedgerPosters
<1>2. TxOK("finalizer")'
  BY <1>1, TxKept DEF LedgerInv
<1> QED
  BY <1>1, <1>2, Uncommitted

LEMMA RolledBack ==
  ASSUME LedgerInv, UNCHANGED <<amount, offset, bill, books, opened, told, rate>>,
         NEW p \in LedgerPosters, Rollback(p)
  PROVE  LedgerInv'
<1>1. tx' = [tx EXCEPT ![p] = NoTx] /\ tx'[p] = NoTx
  BY DEF Rollback, LedgerInv, LedgerType
<1>2. TxOK(p)'
  BY <1>1 DEF TxOK, NoTx
<1> QED
  BY <1>1, <1>2, NoTxTyped, Uncommitted DEF LedgerInv, LedgerType

\* A statement of a transaction: it still posts the same legs of the same charge.
LEMMA Advanced ==
  ASSUME LedgerInv, UNCHANGED <<amount, offset, bill, books, opened, told, rate>>,
         NEW p \in LedgerPosters, tx[p] # NoTx, NEW t \in TxRecord, tx' = [tx EXCEPT ![p] = t],
         t.for = tx[p].for, t.kind = tx[p].kind, t.legs = tx[p].legs
  PROVE  LedgerInv'
<1>1. tx'[p] = t
  BY DEF LedgerInv, LedgerType
<1>2. TxOK(p)'
  BY <1>1, LegsStand DEF LedgerInv, TxOK
<1> QED
  BY <1>2, Uncommitted DEF LedgerInv, LedgerType

LEMMA InsertEntryKeeps ==
  ASSUME LedgerInv, UNCHANGED <<amount, offset, bill, books, opened, told, rate>>,
         NEW p \in LedgerPosters, tx[p] # NoTx, NEW created \in SUBSET AllAccounts,
         InsertEntry(p, created)
  PROVE  LedgerInv'
<1>1. CASE Rollback(p)
  BY <1>1, RolledBack
<1>2. CASE tx' = [tx EXCEPT ![p] = [tx[p] EXCEPT !.at = @ + 1, !.absent = FALSE, !.created = created]]
  <2>1. tx[p] \in TxRecord /\ tx[p].at + 1 \in Nat \ {0}
    BY DEF LedgerInv, LedgerType, TxRecord
  <2>2. PICK t : t = [tx[p] EXCEPT !.at = tx[p].at + 1, !.absent = FALSE, !.created = created]
    OBVIOUS
  <2>3. t \in TxRecord /\ t.for = tx[p].for /\ t.kind = tx[p].kind /\ t.legs = tx[p].legs
    BY <2>1, <2>2 DEF TxRecord
  <2>4. tx' = [tx EXCEPT ![p] = t]
    BY <1>2, <2>2
  <2> QED
    BY <2>3, <2>4, Advanced
<1> QED
  BY <1>1, <1>2 DEF InsertEntry

LEMMA PosterKeeps ==
  ASSUME LedgerInv, NEW p \in LedgerPosters, SelectAccount(p) \/ InsertAccount(p)
  PROVE  LedgerInv'
<1>1. /\ UNCHANGED <<amount, offset, bill, books, opened, told, rate>>
      /\ tx[p] # NoTx /\ tx[p].at <= Len(tx[p].legs)
  BY DEF SelectAccount, InsertAccount, InTx
<1>2. tx[p] \in TxRecord /\ tx[p].at \in Nat
  BY DEF LedgerInv, LedgerType, TxRecord
<1>3. tx[p].created \in SUBSET AllAccounts
  BY <1>2 DEF TxRecord
<1>4. CASE SelectAccount(p)
  <2>1. CASE InsertEntry(p, tx[p].created)
    BY <1>1, <1>3, <2>1, InsertEntryKeeps
  <2>2. CASE tx' = [tx EXCEPT ![p].absent = TRUE]
    <3>1. PICK t : t = [tx[p] EXCEPT !.absent = TRUE]
      OBVIOUS
    <3>2. t \in TxRecord /\ t.for = tx[p].for /\ t.kind = tx[p].kind /\ t.legs = tx[p].legs
      BY <1>2, <3>1 DEF TxRecord
    <3>3. tx' = [tx EXCEPT ![p] = t]
      BY <2>2, <3>1 DEF LedgerInv, LedgerType
    <3> QED
      BY <1>1, <3>2, <3>3, Advanced
  <2> QED
    BY <1>4, <2>1, <2>2 DEF SelectAccount
<1>5. CASE InsertAccount(p)
  <2>1. CASE Rollback(p)
    BY <1>1, <2>1, RolledBack
  <2>2. CASE InsertEntry(p, tx[p].created \cup {NextLeg(p).account})
    <3>1. tx[p] # NoTx /\ TxOK(p) /\ tx[p].at \in Nat
      BY <1>1, <1>2 DEF LedgerInv
    <3>2. NextLeg(p) \in LegRecord
      <4>1. tx[p].legs \in Seq(LegRecord) /\ tx[p].at \in Nat \ {0}
        BY <1>2 DEF TxRecord
      <4>2. tx[p].at \in 1..Len(tx[p].legs)
        BY <1>1, <4>1
      <4> QED
        BY <4>1, <4>2 DEF NextLeg
    <3> QED
      BY <1>1, <1>3, <2>2, <3>2, InsertEntryKeeps DEF LegRecord
  <2> QED
    BY <1>5, <2>1, <2>2 DEF InsertAccount
<1> QED
  BY <1>4, <1>5

LEMMA Next1Queued ==
  ASSUME LedgerInv, NEW t \in LedgerTopics, offset[t] < Len(Queue(t))
  PROVE  Next1(t) \in Elements(Queue(t)) /\ Next1(t) \in Charges
<1>1. Queue(t) \in Seq(Charges) /\ Elements(Queue(t)) \subseteq Charges
  BY LedgerAssumption DEF Queue, Charges
<1>2. offset[t] \in Nat
  BY DEF LedgerInv, LedgerType
<1>3. offset[t] + 1 \in DOMAIN Queue(t)
  BY <1>1, <1>2
<1> QED
  BY <1>1, <1>3 DEF Next1, Elements

LEMMA BeginInvoiceKeeps ==
  ASSUME LedgerInv, NEW t \in LedgerTopics, BeginInvoice(t)
  PROVE  LedgerInv'
<1>1. PICK ch : ch = Next1(t)
  OBVIOUS
<1>2. /\ UNCHANGED <<amount, offset, bill, books, opened, told, rate>>
      /\ tx' = [tx EXCEPT ![t] = NewTx(ch, "open", BuildT1Legs(ch))]
      /\ bill[ch] = "none" /\ offset[t] < Len(Queue(t))
  BY <1>1 DEF BeginInvoice, Fetched, NewTx
<1>3. ch \in Charges /\ ch \in Elements(Queue(t)) /\ t \in LedgerPosters /\ t # "finalizer"
  BY <1>1, <1>2, Next1Queued DEF LedgerTopics, LedgerPosters
<1>4. BuildT1Legs(ch) \in Seq(LegRecord)
  BY <1>3, LegsTyped DEF LedgerInv
<1>5. PICK n : n = NewTx(ch, "open", BuildT1Legs(ch))
  OBVIOUS
<1>6. n \in TxRecord /\ n.for = ch /\ n.kind = "open" /\ n.legs = BuildT1Legs(ch)
  <2>1. "open" \in BillStates
    BY DEF BillStates
  <2> QED
    BY <1>3, <1>4, <1>5, <2>1, TxMade
<1>7. tx' = [tx EXCEPT ![t] = n] /\ tx'[t] = n
  BY <1>2, <1>3, <1>5 DEF LedgerInv, LedgerType
<1>8. TxOK(t)'
  BY <1>2, <1>3, <1>6, <1>7, LegsStand DEF TxOK
<1> QED
  BY <1>2, <1>3, <1>6, <1>7, <1>8, Uncommitted DEF LedgerInv, LedgerType

LEMMA BeginSettleKeeps ==
  ASSUME LedgerInv, NEW ch \in Charges, NEW kind \in {"paid", "uncollectible"}, BeginSettle(ch, kind)
  PROVE  LedgerInv'
<1>1. PICK legs : legs = IF kind = "paid" THEN T2Legs(ch) ELSE T3Legs(ch)
  OBVIOUS
<1>2. /\ UNCHANGED <<amount, offset, bill, books, opened, told, rate>>
      /\ tx' = [tx EXCEPT !["finalizer"] = NewTx(ch, kind, legs)]
      /\ bill[ch] = "open"
  BY <1>1 DEF BeginSettle, NewTx
<1>3. "finalizer" \in LedgerPosters /\ "finalizer" \notin LedgerTopics
  BY DEF LedgerTopics, LedgerPosters
<1>4. legs \in Seq(LegRecord)
  BY <1>1, LegsTyped DEF LedgerInv
<1>5. PICK n : n = NewTx(ch, kind, legs)
  OBVIOUS
<1>6. n \in TxRecord /\ n.for = ch /\ n.kind = kind /\ n.legs = legs
  <2>1. kind \in BillStates
    BY DEF BillStates
  <2> QED
    BY <1>3, <1>4, <1>5, <2>1, TxMade
<1>7. tx' = [tx EXCEPT !["finalizer"] = n] /\ tx'["finalizer"] = n
  BY <1>2, <1>3, <1>5 DEF LedgerInv, LedgerType
<1>8. TxOK("finalizer")'
  BY <1>1, <1>2, <1>3, <1>6, <1>7, LegsStand DEF TxOK
<1> QED
  BY <1>2, <1>3, <1>6, <1>7, <1>8, Uncommitted DEF LedgerInv, LedgerType

\* COMMIT: the invoice, its books and its shares move together, and no other open
\* transaction is about this charge.
LEMMA CommitKeeps ==
  ASSUME LedgerInv, NEW p \in LedgerPosters, CommitTx(p)
  PROVE  LedgerInv'
<1>1. PICK ch, kind, legs : ch = tx[p].for /\ kind = tx[p].kind /\ legs = tx[p].legs
  OBVIOUS
<1>2. /\ UNCHANGED <<amount, offset, rate>>
      /\ tx[p] # NoTx /\ tx' = [tx EXCEPT ![p] = NoTx]
      /\ bill' = [bill EXCEPT ![ch] = kind]
      /\ opened' = IF kind = "open" THEN [opened EXCEPT ![ch] = Total(legs, Revenue)] ELSE opened
      /\ told' = IF kind = "paid" THEN [told EXCEPT ![ch] = SplitOf(ch)] ELSE told
      /\ books' = [a \in AllAccounts |-> books[a] + Total(legs, a)]
  BY <1>1 DEF CommitTx, Rollback
<1>3. LedgerType
  BY DEF LedgerInv
<1>4. /\ TxOK(p) /\ ch \in Charges /\ kind \in BillStates
      /\ p = "finalizer" => /\ kind \in {"paid", "uncollectible"} /\ bill[ch] = "open"
                            /\ legs = IF kind = "paid" THEN T2Legs(ch) ELSE T3Legs(ch)
      /\ p \in LedgerTopics => kind = "open" /\ bill[ch] = "none" /\ legs = BuildT1Legs(ch)
                                 /\ ch \in Elements(Queue(p))
  BY <1>1, <1>2 DEF LedgerInv, TxOK, BillStates, LedgerPosters, LedgerTopics
<1>5. amount[ch] \in Nat /\ SplitOf(ch) \in Int /\ amount \in [Charges -> Int]
  BY <1>3, <1>4, SplitTyped DEF LedgerType
<1>6. p = "finalizer" \/ p \in LedgerTopics
  BY DEF LedgerPosters, LedgerTopics
<1>7. ASSUME NEW a \in AllAccounts PROVE Total(legs, a) \in Int
  <2>1. /\ Total(BuildT1Legs(ch), a) \in Int
        /\ Total(T2Legs(ch), a) \in Int /\ Total(T3Legs(ch), a) \in Int
    BY <1>3, <1>4, <1>5, OpenTotals, SettleTotals
  <2> QED
    BY <1>4, <1>6, <2>1
<1>8. books' \in [AllAccounts -> Int] /\ books \in [AllAccounts -> Int]
  BY <1>2, <1>3, <1>7 DEF LedgerType
<1>9. LedgerType'
  <2>1. opened' \in [Charges -> Int] /\ told' \in [Charges -> Int] /\ bill' \in [Charges -> BillStates]
    BY <1>2, <1>3, <1>4, <1>5, <1>7, AccountsDiffer DEF LedgerType
  <2>2. tx' \in [LedgerPosters -> TxRecord]
    BY <1>2, <1>3, NoTxTyped DEF LedgerType
  <2> QED
    BY <1>2, <1>3, <1>8, <2>1, <2>2 DEF LedgerType
<1>10. ASSUME NEW q \in LedgerPosters PROVE TxOK(q)'
  <2>1. CASE q = p
    <3>1. tx'[q] = NoTx
      BY <1>2, <1>3, <2>1 DEF LedgerType
    <3> QED
      BY <3>1 DEF TxOK, NoTx
  <2>2. CASE q # p
    <3>1. tx'[q] = tx[q] /\ TxOK(q)
      BY <1>2, <1>3, <2>2 DEF LedgerType, LedgerInv
    <3>2. ASSUME tx[q] # NoTx PROVE tx[q].for # ch /\ tx[q].for \in Charges
      <4>1. q = "finalizer" \/ q \in LedgerTopics
        BY DEF LedgerPosters, LedgerTopics
      <4>2. Elements(Queue("completed")) \cap Elements(Queue("cancelled")) = {}
        BY LedgerAssumption DEF Queue
      <4> QED
        BY <1>4, <1>6, <2>2, <3>1, <3>2, <4>1, <4>2 DEF TxOK, LedgerTopics
    <3>3. tx[q] # NoTx => bill'[tx[q].for] = bill[tx[q].for]
      BY <1>2, <1>3, <3>2 DEF LedgerType
    <3> QED
      BY <1>2, <3>1, <3>3, TxKept
  <2> QED
    BY <2>1, <2>2
<1>11. CASE p \in LedgerTopics
  <2>1. kind = "open" /\ bill[ch] = "none" /\ legs = BuildT1Legs(ch)
    BY <1>4, <1>11
  <2>2. Total(legs, Revenue) = SplitOf(ch)
    BY <1>3, <1>4, <1>5, <2>1, OpenTotals, AccountsDiffer
  <2>3. /\ bill' = [bill EXCEPT ![ch] = "open"] /\ told' = told
        /\ opened' = [opened EXCEPT ![ch] = SplitOf(ch)]
    BY <1>2, <2>1, <2>2
  <2>4. Balanced(amount, bill, books, opened)
    BY BalancedIs DEF LedgerInv
  <2>5. ASSUME NEW a \in AllAccounts
        PROVE  books'[a] = books[a] + ((IF Receivable(PayerOf[ch]) = a THEN -amount[ch] ELSE 0)
                                         + (IF Revenue = a THEN SplitOf(ch) ELSE 0)
                                         + (IF Payable(DriverOf[ch]) = a THEN amount[ch] - SplitOf(ch) ELSE 0))
    BY <1>2, <1>3, <1>4, <2>1, OpenTotals
  <2>6. Balanced(amount, bill', books', opened')
    <3>1. bill \in [Charges -> BillStates] /\ opened \in [Charges -> Int]
      BY <1>3 DEF LedgerType
    <3>2. PICK n \in Int, bk2 \in [AllAccounts -> Int], bl2 \in {bill'}, op2 \in {opened'} :
            n = SplitOf(ch) /\ bk2 = books' /\ bl2 = bill' /\ op2 = opened'
      BY <1>5, <1>8
    <3>3. bl2 = [bill EXCEPT ![ch] = "open"] /\ op2 = [opened EXCEPT ![ch] = n]
      BY <2>3, <3>2
    <3>4. PICK m \in Int, o \in Int : m = -amount[ch] /\ o = amount[ch] - n
      BY <1>5
    <3>5. SharePosted(books, bk2, ch, m, n, o)
      BY <2>5, <3>2, <3>4 DEF Posted, SharePosted
    <3>6. m + amount[ch] = 0 /\ n + o = amount[ch]
      BY <1>5, <3>4
    <3>7. Balanced(amount, bl2, bk2, op2)
      BY <1>4, <1>5, <1>8, <2>1, <2>4, <3>1, <3>3, <3>5, <3>6, OpenBalances
    <3> QED
      BY <3>2, <3>7
  <2>7. SharesKept'
    BY <1>2, <1>3, <1>4, <2>1, <2>3, LegsStand DEF LedgerInv, SharesKept, LedgerType
  <2>8. LedgerBalances'
    <3>1. Balanced(amount, bill, books, opened)'
      <4>1. amount' = amount
        BY <1>2
      <4> QED
        BY <2>6, <4>1 DEF Balanced, In
    <3>2. (\A x \in InState("paid") : rate = 1 => told[x] = opened[x])'
      BY <2>7 DEF SharesKept, InState
    <3> QED
      BY <3>1, <3>2 DEF LedgerBalances, Balanced, In, SumOf, InState, Invoiced
  <2> QED
    BY <1>9, <1>10, <2>7, <2>8 DEF LedgerInv
<1>12. CASE p = "finalizer"
  <2>1. /\ kind \in {"paid", "uncollectible"} /\ bill[ch] = "open"
        /\ legs = IF kind = "paid" THEN T2Legs(ch) ELSE T3Legs(ch)
    BY <1>4, <1>12
  <2>2. opened' = opened /\ bill' = [bill EXCEPT ![ch] = kind]
    BY <1>2, <2>1
  <2>3. Balanced(amount, bill, books, opened)
    BY BalancedIs DEF LedgerInv
  <2>4. PICK to : to = IF kind = "paid" THEN Clearing ELSE BadDebt
    OBVIOUS
  <2>5. ASSUME NEW a \in AllAccounts
        PROVE  books'[a] = books[a] + ((IF to = a THEN -amount[ch] ELSE 0)
                                         + (IF Receivable(PayerOf[ch]) = a THEN amount[ch] ELSE 0))
    BY <1>2, <1>3, <1>4, <2>1, <2>4, SettleTotals
  <2>6. Balanced(amount, bill', books', opened)
    <3>1. bill \in [Charges -> BillStates] /\ opened \in [Charges -> Int]
      BY <1>3 DEF LedgerType
    <3>2. PICK bk2 \in [AllAccounts -> Int], bl2 \in {bill'} : bk2 = books' /\ bl2 = bill'
      BY <1>8
    <3>3. bl2 = [bill EXCEPT ![ch] = kind]
      BY <2>2, <3>2
    <3>4. bk2 = Posted(books, to, -amount[ch], Receivable(PayerOf[ch]), amount[ch], Revenue, 0)
      BY <1>5, <2>5, <3>2 DEF Posted
    <3>5. Balanced(amount, bl2, bk2, opened)
      BY <1>4, <1>5, <1>8, <2>1, <2>3, <2>4, <3>1, <3>3, <3>4, SettleBalances
    <3> QED
      BY <3>2, <3>5
  <2>7. SharesKept'
    BY <1>2, <1>3, <1>4, <2>1, <2>2, LegsStand DEF LedgerInv, SharesKept, LedgerType
  <2>8. LedgerBalances'
    <3>1. Balanced(amount, bill, books, opened)'
      <4>1. amount' = amount /\ opened' = opened
        BY <1>2, <2>2
      <4> QED
        BY <2>6, <4>1 DEF Balanced, In
    <3>2. (\A x \in InState("paid") : rate = 1 => told[x] = opened[x])'
      BY <2>7 DEF SharesKept, InState
    <3> QED
      BY <3>1, <3>2 DEF LedgerBalances, Balanced, In, SumOf, InState, Invoiced
  <2> QED
    BY <1>9, <1>10, <2>7, <2>8 DEF LedgerInv
<1> QED
  BY <1>6, <1>11, <1>12

\* A deployment waits for the transactions of the process it replaces, and ends the first rate.
LEMMA RedeployKeeps ==
  ASSUME LedgerInv, Redeploy
  PROVE  LedgerInv'
<1>1. /\ UNCHANGED <<amount, offset, tx, bill, books, opened, told>>
      /\ rate' = rate + 1 /\ rate < Len(Rates) /\ \A p \in LedgerPosters : tx[p] = NoTx
  BY DEF Redeploy
<1>2. rate' \in DOMAIN Rates /\ rate' # 1
  BY <1>1, LedgerAssumption DEF LedgerInv, LedgerType
<1>3. LedgerType'
  BY <1>1, <1>2 DEF LedgerInv, LedgerType
<1>4. \A p \in LedgerPosters : TxOK(p)'
  BY <1>1 DEF TxOK, NoTx
<1>5. SharesKept'
  BY <1>2 DEF SharesKept
<1>6. LedgerBalances'
  BY <1>1, <1>2 DEF LedgerInv, LedgerBalances, SumOf, InState, Invoiced
<1> QED
  BY <1>3, <1>4, <1>5, <1>6 DEF LedgerInv

LEMMA LedgerStep == LedgerInv /\ [LedgerNext]_ledgerVars => LedgerInv'
<1> SUFFICES ASSUME LedgerInv, [LedgerNext]_ledgerVars PROVE LedgerInv'
  OBVIOUS
<1>1. offset \in [LedgerTopics -> Nat]
  BY DEF LedgerInv, LedgerType
<1>2. CASE UNCHANGED ledgerVars
  BY <1>1, <1>2, Unposted DEF ledgerVars
<1>3. CASE SkipFree
  BY <1>1, <1>3, Unposted DEF SkipFree
<1>4. ASSUME NEW t \in LedgerTopics, ConsumerStep(t) \/ LoseOffset(t) PROVE LedgerInv'
  <2>1. CASE DuplicateInvoice(t)
    BY <1>1, <2>1, Unposted DEF DuplicateInvoice
  <2>2. CASE BeginInvoice(t)
    BY <2>2, BeginInvoiceKeeps
  <2>3. CASE CommitOffset(t)
    <3>1. offset' \in [LedgerTopics -> Nat]
      BY <1>1, <2>3 DEF CommitOffset
    <3> QED
      BY <3>1, <2>3, Unposted DEF CommitOffset
  <2>4. CASE LoseOffset(t)
    BY <1>1, <2>4, Unposted DEF LoseOffset
  <2> QED
    BY <1>4, <2>1, <2>2, <2>3, <2>4 DEF ConsumerStep
<1>5. ASSUME NEW ch \in Charges, NEW kind \in {"paid", "uncollectible"}, BeginSettle(ch, kind)
      PROVE  LedgerInv'
  BY <1>5, BeginSettleKeeps
<1>6. ASSUME NEW p \in LedgerPosters, PosterStep(p) PROVE LedgerInv'
  BY <1>6, PosterKeeps, CommitKeeps DEF PosterStep
<1>7. ASSUME NEW ch \in Charges, RideSummaryReadyConsumer(ch) PROVE LedgerInv'
  BY <1>1, <1>7, Unposted DEF RideSummaryReadyConsumer
<1>8. CASE Redeploy
  BY <1>8, RedeployKeeps
<1> QED
  BY <1>2, <1>3, <1>4, <1>5, <1>6, <1>7, <1>8 DEF LedgerNext, LedgerTopics

\* Whatever interleaving of the two consumers and the finalizer, whatever race for an account,
\* redelivery or change of the commission: the books balance and agree with the invoices, for
\* every set of charges, payers, drivers, amounts and rates.
THEOREM LedgerBalancesAlways == LedgerSpec => []LedgerBalances
<1>1. LedgerInv => LedgerBalances
  BY DEF LedgerInv
<1> QED
  BY <1>1, LedgerInitially, LedgerStep, PTL DEF LedgerSpec

=============================================================================
