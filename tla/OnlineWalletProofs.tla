--------------------------- MODULE OnlineWalletProofs ---------------------------
(***************************************************************************)
(* Two results, for any number of sales, payouts and refunds.  The balances*)
(* of the wallet head are what the lots hold, payouts hold their amounts   *)
(* and the bank covers them: every step moves equal sums, which takes the  *)
(* laws of sums over finite sets that come first.  And a chargeback keeps  *)
(* the disputed money back from every payout that has not gone to the bank *)
(* (the last part): the payouts are locked before the wallet is, so the    *)
(* invariant has to say what holds in between: what still holds money of   *)
(* the sale has been locked, or has been requested since.                  *)
(***************************************************************************)
EXTENDS OnlineWallet, FiniteSetTheorems, WellFoundedInduction, TLAPS

(***************************************************************************)
(* Sums.                                                                   *)
(***************************************************************************)
\* Induction over the subsets of a finite set, as a statement about the set G of
\* those that have the property.
LEMMA SubsetInduction ==
  ASSUME NEW D, IsFiniteSet(D), NEW G,
         ASSUME NEW s \in SUBSET D, \A t \in SUBSET s : t # s => t \in G PROVE s \in G
  PROVE  \A s \in SUBSET D : s \in G
<1> SUFFICES ASSUME NEW s0 \in SUBSET D, s0 \notin G PROVE FALSE
  OBVIOUS
<1> DEFINE Bad == {s \in SUBSET D : s \notin G}
<1>1. IsWellFoundedOn(StrictSubsetOrdering(D), SUBSET D)
  <2>1. FiniteSubsetsOf(D) = SUBSET D
    BY FS_FiniteSubsetsOfFinite
  <2>2. IsWellFoundedOn(StrictSubsetOrdering(D), FiniteSubsetsOf(D))
    BY FS_StrictSubsetOrderingWellFounded
  <2> QED BY <2>1, <2>2
<1>2. Bad \subseteq SUBSET D /\ Bad # {}
  OBVIOUS
<1> HIDE DEF Bad
<1>3. PICK s \in Bad : \A t \in Bad : ~(<<t, s>> \in StrictSubsetOrdering(D))
  BY <1>1, <1>2, WFMin
<1>4. s \in SUBSET D /\ s \notin G
  BY DEF Bad
<1>5. ASSUME NEW t \in SUBSET s, t # s PROVE t \in G
  <2>1. t \in SUBSET D
    BY <1>4
  <2>2. <<t, s>> \in StrictSubsetOrdering(D)
    BY <1>4, <1>5, <2>1 DEF StrictSubsetOrdering
  <2> QED BY <1>3, <2>1, <2>2 DEF Bad
<1>6. s \in G
  BY <1>4, <1>5
<1> QED BY <1>4, <1>6

Pick(s) == CHOOSE x \in s : TRUE

\* The partial sums of f over the subsets of its domain, in the order of Pick.
PartialSums(f, D, it) ==
  /\ it \in [SUBSET D -> Int]
  /\ \A s \in SUBSET D : it[s] = IF s = {} THEN 0 ELSE f[Pick(s)] + it[s \ {Pick(s)}]

LEMMA Picked ==
  ASSUME NEW D, NEW s \in SUBSET D, s # {}
  PROVE  /\ Pick(s) \in s /\ Pick(s) \in D
         /\ s \ {Pick(s)} \in SUBSET s /\ s \ {Pick(s)} # s /\ s \ {Pick(s)} \in SUBSET D
<1>1. Pick(s) \in s
  BY DEF Pick
<1> QED BY <1>1

LEMMA PartialSumsUnique ==
  ASSUME NEW D, IsFiniteSet(D), NEW f, NEW it1, NEW it2, NEW E \in SUBSET D,
         PartialSums(f, D, it1), PartialSums(f, E, it2)
  PROVE  \A s \in SUBSET E : it1[s] = it2[s]
<1> DEFINE G == {s \in SUBSET E : it1[s] = it2[s]}
<1>1. IsFiniteSet(E)
  BY FS_Subset
<1>2. ASSUME NEW s \in SUBSET E, \A t \in SUBSET s : t # s => t \in G PROVE s \in G
  <2>1. /\ it1[s] = IF s = {} THEN 0 ELSE f[Pick(s)] + it1[s \ {Pick(s)}]
        /\ it2[s] = IF s = {} THEN 0 ELSE f[Pick(s)] + it2[s \ {Pick(s)}]
    BY DEF PartialSums
  <2>2. s # {} => s \ {Pick(s)} \in G
    BY <1>2, Picked
  <2> QED BY <2>1, <2>2
<1> HIDE DEF G
<1>3. \A s \in SUBSET E : s \in G
  BY <1>1, <1>2, SubsetInduction
<1> QED BY <1>3 DEF G

LEMMA PartialSumsExist ==
  ASSUME NEW D, IsFiniteSet(D), NEW f \in [D -> Int]
  PROVE  \E it : PartialSums(f, D, it)
<1> DEFINE G == {E \in SUBSET D : \E it : PartialSums(f, E, it)}
<1>1. ASSUME NEW E \in SUBSET D, \A t \in SUBSET E : t # E => t \in G PROVE E \in G
  <2>1. CASE E = {}
    <3> DEFINE it == [s \in SUBSET E |-> 0]
    <3>1. PartialSums(f, E, it)
      BY <2>1 DEF PartialSums
    <3> QED BY <3>1
  <2>2. CASE E # {}
    <3> DEFINE Sum(t) == CHOOSE v : \E it : PartialSums(f, t, it) /\ v = it[t]
    <3>1. ASSUME NEW t \in SUBSET E, NEW it, PartialSums(f, t, it) PROVE Sum(t) = it[t]
      <4>1. ASSUME NEW it2, PartialSums(f, t, it2) PROVE it2[t] = it[t]
        <5>1. IsFiniteSet(t) /\ t \in SUBSET t
          BY FS_Subset
        <5> QED BY <3>1, <4>1, <5>1, PartialSumsUnique
      <4>2. \E it2 : PartialSums(f, t, it2) /\ Sum(t) = it2[t]
        BY <3>1
      <4> QED BY <4>1, <4>2
    <3> HIDE DEF Sum
    <3>2. ASSUME NEW t \in SUBSET E, t # E
          PROVE  Sum(t) \in Int /\ Sum(t) = IF t = {} THEN 0 ELSE f[Pick(t)] + Sum(t \ {Pick(t)})
      <4>1. PICK it : PartialSums(f, t, it)
        BY <1>1, <3>2
      <4>2. Sum(t) = it[t] /\ Sum(t) \in Int
        <5>1. Sum(t) = it[t]
          BY <3>1, <4>1
        <5>2. t \in SUBSET t /\ it \in [SUBSET t -> Int]
          BY <4>1 DEF PartialSums
        <5> QED BY <5>1, <5>2
      <4>3. CASE t = {}
        BY <4>1, <4>2, <4>3 DEF PartialSums
      <4>4. CASE t # {}
        <5> DEFINE u == t \ {Pick(t)}
        <5>1. u \in SUBSET t /\ u # t
          BY <4>4, Picked
        <5>2. u \in SUBSET E /\ u # E
          BY <5>1
        <5>3. it[t] = f[Pick(t)] + it[u]
          BY <4>1, <4>4 DEF PartialSums
        <5> HIDE DEF u
        <5>4. PICK it2 : PartialSums(f, u, it2)
          BY <1>1, <5>2
        <5>5. IsFiniteSet(t)
          BY FS_Subset
        <5>6. it[u] = it2[u] /\ Sum(u) = it2[u]
          BY <3>1, <4>1, <5>1, <5>2, <5>4, <5>5, PartialSumsUnique
        <5> QED BY <4>2, <4>4, <5>3, <5>6 DEF u
      <4> QED BY <4>3, <4>4
    <3> DEFINE e == Pick(E)
               it == [t \in SUBSET E |-> IF t = E THEN f[e] + Sum(E \ {e}) ELSE Sum(t)]
    <3>3. e \in E /\ e \in D /\ E \ {e} \in SUBSET E /\ E \ {e} # E
      BY <2>2, Picked
    <3>4. f[e] \in Int /\ Sum(E \ {e}) \in Int
      <4> DEFINE u == E \ {e}
      <4>1. u \in SUBSET E /\ u # E
        BY <3>3
      <4> HIDE DEF u, e
      <4>2. Sum(u) \in Int
        BY <3>2, <4>1
      <4> QED BY <3>3, <4>2 DEF u
    <3>5. it \in [SUBSET E -> Int]
      <4> DEFINE last == f[e] + Sum(E \ {e})
      <4>1. last \in Int
        BY <3>4
      <4> HIDE DEF last, e
      <4> QED BY <3>2, <4>1 DEF last
    <3>6. ASSUME NEW t \in SUBSET E PROVE it[t] = IF t = {} THEN 0 ELSE f[Pick(t)] + it[t \ {Pick(t)}]
      <4>1. CASE t = E
        BY <2>2, <3>3, <4>1
      <4>2. CASE t # E
        <5>1. t # {} => t \ {Pick(t)} \in SUBSET E /\ t \ {Pick(t)} # E
          BY <4>2, Picked
        <5> HIDE DEF e
        <5> QED BY <3>2, <4>2, <5>1
      <4> QED BY <4>1, <4>2
    <3> HIDE DEF it
    <3>7. PartialSums(f, E, it)
      BY <3>5, <3>6 DEF PartialSums
    <3> QED BY <3>7
  <2> QED BY <2>1, <2>2
<1> HIDE DEF G
<1>2. D \in G
  BY <1>1, SubsetInduction
<1> QED BY <1>2 DEF G

LEMMA TotalUnfolds ==
  ASSUME NEW f
  PROVE  Total(f) = LET iter == CHOOSE it : it = [s \in SUBSET DOMAIN f |->
                          IF s = {} THEN 0 ELSE f[Pick(s)] + it[s \ {Pick(s)}]]
                    IN  iter[DOMAIN f]
  BY DEF Total, MapThenSumSet, MapThenFoldSet, Pick

\* A total is the last of the partial sums.
LEMMA TotalIsASum ==
  ASSUME NEW D, IsFiniteSet(D), NEW f \in [D -> Int]
  PROVE  \E it : PartialSums(f, D, it) /\ Total(f) = it[D]
<1> DEFINE Rec(it) == it = [s \in SUBSET D |-> IF s = {} THEN 0 ELSE f[Pick(s)] + it[s \ {Pick(s)}]]
           iter == CHOOSE it : Rec(it)
<1>1. DOMAIN f = D
  OBVIOUS
<1>2. Total(f) = iter[D]
  BY <1>1, TotalUnfolds
<1>3. PICK it0 : PartialSums(f, D, it0)
  BY PartialSumsExist
<1>4. Rec(it0)
  BY <1>3 DEF PartialSums
<1>5. Rec(iter)
  BY <1>4
<1> HIDE DEF iter
<1> DEFINE G == {s \in SUBSET D : iter[s] \in Int}
<1>6. \A s \in SUBSET D : iter[s] = IF s = {} THEN 0 ELSE f[Pick(s)] + iter[s \ {Pick(s)}]
  BY <1>5
<1>7. ASSUME NEW s \in SUBSET D, \A t \in SUBSET s : t # s => t \in G PROVE s \in G
  <2> DEFINE u == s \ {Pick(s)}
  <2>1. s # {} => Pick(s) \in D /\ u \in SUBSET s /\ u # s
    BY Picked
  <2>2. iter[s] = IF s = {} THEN 0 ELSE f[Pick(s)] + iter[u]
    BY <1>6
  <2> HIDE DEF u
  <2>3. s # {} => f[Pick(s)] \in Int /\ iter[u] \in Int
    BY <1>7, <2>1
  <2>4. iter[s] \in Int
    BY <2>2, <2>3
  <2> QED BY <2>4
<1> HIDE DEF G
<1>8. \A s \in SUBSET D : s \in G
  BY <1>7, SubsetInduction
<1>9. iter \in [SUBSET D -> Int]
  <2>1. \A s \in SUBSET D : iter[s] \in Int
    BY <1>8 DEF G
  <2>2. iter = [s \in SUBSET D |-> iter[s]]
    BY <1>5
  <2> QED BY <2>1, <2>2
<1>10. PartialSums(f, D, iter)
  BY <1>6, <1>9 DEF PartialSums
<1> QED BY <1>2, <1>10

LEMMA TotalTypes ==
  ASSUME NEW D, IsFiniteSet(D), NEW f \in [D -> Int]
  PROVE  Total(f) \in Int
<1>1. PICK it : PartialSums(f, D, it) /\ Total(f) = it[D]
  BY TotalIsASum
<1>2. it \in [SUBSET D -> Int] /\ D \in SUBSET D
  BY <1>1 DEF PartialSums
<1> QED BY <1>1, <1>2

LEMMA TotalAdds ==
  ASSUME NEW D, IsFiniteSet(D), NEW f \in [D -> Int], NEW g \in [D -> Int], NEW h \in [D -> Int],
         \A x \in D : h[x] = f[x] + g[x]
  PROVE  Total(h) = Total(f) + Total(g)
<1>1. PICK F : PartialSums(f, D, F) /\ Total(f) = F[D]
  BY TotalIsASum
<1>2. PICK E : PartialSums(g, D, E) /\ Total(g) = E[D]
  BY TotalIsASum
<1>3. PICK H : PartialSums(h, D, H) /\ Total(h) = H[D]
  BY TotalIsASum
<1> DEFINE G == {s \in SUBSET D : H[s] = F[s] + E[s]}
<1>4. ASSUME NEW s \in SUBSET D, \A t \in SUBSET s : t # s => t \in G PROVE s \in G
  <2> DEFINE x == Pick(s)
             u == s \ {x}
  <2>1. CASE s = {}
    <3>1. F[s] = 0 /\ E[s] = 0 /\ H[s] = 0
      BY <1>1, <1>2, <1>3, <2>1 DEF PartialSums
    <3> QED BY <3>1
  <2>2. CASE s # {}
    <3>1. x \in D /\ u \in SUBSET s /\ u # s /\ u \in SUBSET D
      BY <2>2, Picked
    <3>2. F[s] = f[x] + F[u] /\ E[s] = g[x] + E[u] /\ H[s] = h[x] + H[u]
      BY <1>1, <1>2, <1>3, <2>2 DEF PartialSums
    <3> HIDE DEF x, u
    <3>3. H[u] = F[u] + E[u]
      BY <1>4, <3>1
    <3>4. F[u] \in Int /\ E[u] \in Int /\ f[x] \in Int /\ g[x] \in Int /\ h[x] = f[x] + g[x]
      BY <1>1, <1>2, <3>1 DEF PartialSums
    <3>5. H[s] = F[s] + E[s]
      BY <3>2, <3>3, <3>4
    <3> QED BY <3>5
  <2> QED BY <2>1, <2>2
<1> HIDE DEF G
<1>5. D \in G
  BY <1>4, SubsetInduction
<1> QED BY <1>1, <1>2, <1>3, <1>5 DEF G

LEMMA TotalNat ==
  ASSUME NEW D, IsFiniteSet(D), NEW f \in [D -> Nat]
  PROVE  Total(f) \in Nat
<1>1. f \in [D -> Int]
  OBVIOUS
<1>2. PICK F : PartialSums(f, D, F) /\ Total(f) = F[D]
  BY <1>1, TotalIsASum
<1> DEFINE G == {s \in SUBSET D : F[s] \in Nat}
<1>3. ASSUME NEW s \in SUBSET D, \A t \in SUBSET s : t # s => t \in G PROVE s \in G
  <2> DEFINE x == Pick(s)
             u == s \ {x}
  <2>1. CASE s = {}
    <3>1. F[s] = 0
      BY <1>2, <2>1 DEF PartialSums
    <3> QED BY <3>1
  <2>2. CASE s # {}
    <3>1. x \in D /\ u \in SUBSET s /\ u # s
      BY <2>2, Picked
    <3>2. F[s] = f[x] + F[u]
      BY <1>2, <2>2 DEF PartialSums
    <3> HIDE DEF x, u
    <3>3. F[u] \in Nat /\ f[x] \in Nat
      BY <1>3, <3>1
    <3>4. F[s] \in Nat
      BY <3>2, <3>3
    <3> QED BY <3>4
  <2> QED BY <2>1, <2>2
<1> HIDE DEF G
<1>4. D \in G
  BY <1>3, SubsetInduction
<1> QED BY <1>2, <1>4 DEF G

LEMMA TotalZero ==
  ASSUME NEW D, IsFiniteSet(D), NEW f \in [D -> Int], \A x \in D : f[x] = 0
  PROVE  Total(f) = 0
<1>1. Total(f) = Total(f) + Total(f)
  <2>1. \A x \in D : f[x] = f[x] + f[x]
    OBVIOUS
  <2> QED BY <2>1, TotalAdds
<1>2. Total(f) \in Int
  BY TotalTypes
<1> DEFINE v == Total(f)
<1>3. v = v + v /\ v \in Int
  BY <1>1, <1>2
<1> HIDE DEF v
<1>4. v = 0
  BY <1>3
<1> QED BY <1>4 DEF v

\* Nothing but x counts.
LEMMA TotalPoint ==
  ASSUME NEW D, IsFiniteSet(D), NEW f \in [D -> Int], NEW x \in D, \A y \in D : y # x => f[y] = 0
  PROVE  Total(f) = f[x]
<1>1. PICK F : PartialSums(f, D, F) /\ Total(f) = F[D]
  BY TotalIsASum
<1> DEFINE G == {s \in SUBSET D : F[s] = IF x \in s THEN f[x] ELSE 0}
<1>2. ASSUME NEW s \in SUBSET D, \A t \in SUBSET s : t # s => t \in G PROVE s \in G
  <2> DEFINE p == Pick(s)
             u == s \ {p}
  <2>1. CASE s = {}
    BY <1>1, <2>1 DEF PartialSums
  <2>2. CASE s # {}
    <3>1. p \in D /\ p \in s /\ u \in SUBSET s /\ u # s /\ (x \in u <=> x \in s /\ x # p)
      BY <2>2, Picked
    <3>2. F[s] = f[p] + F[u]
      BY <1>1, <2>2 DEF PartialSums
    <3> HIDE DEF p, u
    <3>3. F[u] = IF x \in u THEN f[x] ELSE 0
      BY <1>2, <3>1
    <3>4. f[p] \in Int /\ f[x] \in Int /\ (p # x => f[p] = 0)
      BY <3>1
    <3>5. F[s] = IF x \in s THEN f[x] ELSE 0
      BY <3>1, <3>2, <3>3, <3>4
    <3> QED BY <3>5
  <2> QED BY <2>1, <2>2
<1> HIDE DEF G
<1>3. D \in G
  BY <1>2, SubsetInduction
<1> QED BY <1>1, <1>3 DEF G

\* f and g differ in x only.
LEMMA TotalUpdate ==
  ASSUME NEW D, IsFiniteSet(D), NEW f \in [D -> Int], NEW g \in [D -> Int], NEW x \in D,
         \A y \in D : y # x => g[y] = f[y]
  PROVE  Total(g) = Total(f) - f[x] + g[x] /\ Total(f) \in Int
<1> DEFINE d == [y \in D |-> g[y] - f[y]]
<1>1. /\ d \in [D -> Int] /\ d[x] = g[x] - f[x]
      /\ \A y \in D : g[y] = f[y] + d[y]
      /\ \A y \in D : y # x => d[y] = 0
  OBVIOUS
<1> HIDE DEF d
<1>2. Total(g) = Total(f) + Total(d)
  <2>1. d \in [D -> Int] /\ \A y \in D : g[y] = f[y] + d[y]
    BY <1>1
  <2> QED BY <2>1, TotalAdds, SMTT(60)
<1>3. Total(d) = d[x]
  BY <1>1, TotalPoint
<1>4. Total(f) \in Int /\ f[x] \in Int /\ g[x] \in Int
  BY TotalTypes
<1> QED BY <1>1, <1>2, <1>3, <1>4

\* A part is at most the whole.
LEMMA TotalBounds ==
  ASSUME NEW D, IsFiniteSet(D), NEW f \in [D -> Nat], NEW x \in D
  PROVE  f[x] <= Total(f)
<1> DEFINE g == [y \in D |-> IF y = x THEN 0 ELSE f[y]]
<1>1. g \in [D -> Nat] /\ g[x] = 0 /\ \A y \in D : y # x => g[y] = f[y]
  OBVIOUS
<1> HIDE DEF g
<1>2. f \in [D -> Int] /\ g \in [D -> Int]
  BY <1>1
<1>3. Total(g) = Total(f) - f[x] + g[x] /\ Total(f) \in Int
  BY <1>1, <1>2, TotalUpdate
<1>4. Total(g) \in Nat
  BY <1>1, TotalNat
<1> QED BY <1>1, <1>3, <1>4

\* Zeros may be left out: g is f on S and zero elsewhere.
LEMMA TotalExtends ==
  ASSUME NEW D, IsFiniteSet(D), NEW S \in SUBSET D, NEW f \in [S -> Int], NEW g \in [D -> Int],
         \A x \in D : g[x] = IF x \in S THEN f[x] ELSE 0
  PROVE  Total(g) = Total(f)
<1>1. IsFiniteSet(S)
  BY FS_Subset
<1> DEFINE fs(s) == [x \in S |-> IF x \in s THEN f[x] ELSE 0]
           gs(s) == [x \in D |-> IF x \in s THEN g[x] ELSE 0]
           G == {s \in SUBSET S : Total(fs(s)) = Total(gs(s))}
<1>2. ASSUME NEW s \in SUBSET S, \A t \in SUBSET s : t # s => t \in G PROVE s \in G
  <2>0. fs(s) \in [S -> Int] /\ gs(s) \in [D -> Int]
    OBVIOUS
  <2>1. CASE s = {}
    <3>1. \A x \in S : fs(s)[x] = 0
      BY <2>1
    <3>2. \A x \in D : gs(s)[x] = 0
      BY <2>1
    <3> HIDE DEF fs, gs
    <3>3. Total(fs(s)) = 0 /\ Total(gs(s)) = 0
      BY <1>1, <2>0, <3>1, <3>2, TotalZero
    <3> QED BY <3>3
  <2>2. CASE s # {}
    <3> DEFINE x == Pick(s)
               u == s \ {x}
    <3>1. x \in S /\ x \in D /\ x \in s /\ x \notin u /\ u \in SUBSET s /\ u # s
      BY <2>2, Picked
    <3>2. fs(u) \in [S -> Int] /\ gs(u) \in [D -> Int]
      OBVIOUS
    <3>3. /\ \A y \in S : y # x => fs(s)[y] = fs(u)[y]
          /\ \A y \in D : y # x => gs(s)[y] = gs(u)[y]
          /\ fs(u)[x] = 0 /\ gs(u)[x] = 0 /\ fs(s)[x] = f[x] /\ gs(s)[x] = f[x] /\ f[x] \in Int
      <4> HIDE DEF x
      <4> QED BY <3>1
    <3>4. u \in G
      BY <1>2, <3>1
    <3>5. Total(fs(u)) = Total(gs(u))
      BY <3>4
    <3> HIDE DEF x, u, fs, gs
    <3>6. Total(fs(s)) = Total(fs(u)) - fs(u)[x] + fs(s)[x] /\ Total(fs(u)) \in Int
      BY <1>1, <2>0, <3>1, <3>2, <3>3, TotalUpdate
    <3>7. Total(gs(s)) = Total(gs(u)) - gs(u)[x] + gs(s)[x] /\ Total(gs(u)) \in Int
      BY <2>0, <3>1, <3>2, <3>3, TotalUpdate
    <3>8. Total(fs(s)) = Total(gs(s))
      BY <3>3, <3>5, <3>6, <3>7
    <3> QED BY <3>8
  <2> QED BY <2>1, <2>2
<1> HIDE DEF G
<1>3. \A s \in SUBSET S : s \in G
  BY <1>1, <1>2, SubsetInduction
<1>4. Total(fs(S)) = Total(gs(S))
  BY <1>3 DEF G
<1>5. fs(S) = f /\ gs(S) = g
  OBVIOUS
<1> QED BY <1>4, <1>5

\* Rows and columns may be summed up in either order.
LEMMA TotalExchange ==
  ASSUME NEW D, IsFiniteSet(D), NEW E, IsFiniteSet(E),
         NEW m \in [D -> [E -> Int]]
  PROVE  Total([x \in D |-> Total(m[x])]) = Total([y \in E |-> Total([x \in D |-> m[x][y]])])
<1> DEFINE row(x) == Total(m[x])
           rows(s) == [x \in D |-> IF x \in s THEN row(x) ELSE 0]
           col(s, y) == [x \in D |-> IF x \in s THEN m[x][y] ELSE 0]
           cols(s) == [y \in E |-> Total(col(s, y))]
           G == {s \in SUBSET D : Total(rows(s)) = Total(cols(s))}
<1>1. ASSUME NEW x \in D PROVE row(x) \in Int
  <2>1. m[x] \in [E -> Int]
    OBVIOUS
  <2> QED BY <2>1, TotalTypes
<1>2. ASSUME NEW s, NEW y \in E PROVE col(s, y) \in [D -> Int] /\ Total(col(s, y)) \in Int
  <2>1. col(s, y) \in [D -> Int]
    OBVIOUS
  <2> HIDE DEF col
  <2> QED BY <2>1, TotalTypes
<1>3. ASSUME NEW s PROVE rows(s) \in [D -> Int] /\ cols(s) \in [E -> Int]
  <2>1. rows(s) \in [D -> Int]
    <3> HIDE DEF row
    <3> QED BY <1>1
  <2>2. cols(s) \in [E -> Int]
    <3> HIDE DEF col
    <3> QED BY <1>2
  <2> QED BY <2>1, <2>2
<1>4. ASSUME NEW s \in SUBSET D, \A t \in SUBSET s : t # s => t \in G PROVE s \in G
  <2>1. CASE s = {}
    <3>1. \A x \in D : rows(s)[x] = 0
      BY <2>1
    <3>2. \A y \in E : cols(s)[y] = 0
      <4>1. ASSUME NEW y \in E PROVE Total(col(s, y)) = 0
        <5>1. \A x \in D : col(s, y)[x] = 0
          BY <2>1
        <5> HIDE DEF col
        <5> QED BY <1>2, <5>1, TotalZero
      <4> HIDE DEF col
      <4> QED BY <4>1
    <3> HIDE DEF rows, cols
    <3>3. Total(rows(s)) = 0
      BY <1>3, <3>1, TotalZero
    <3>4. Total(cols(s)) = 0
      BY <1>3, <3>2, TotalZero
    <3> QED BY <3>3, <3>4
  <2>2. CASE s # {}
    <3> DEFINE a == Pick(s)
               u == s \ {a}
               r == m[a]
    <3>1. a \in D /\ a \in s /\ a \notin u /\ u \in SUBSET s /\ u # s
      BY <2>2, Picked
    <3>2. Total(rows(u)) = Total(cols(u))
      BY <1>4, <3>1
    <3> HIDE DEF a
    <3>3. /\ \A x \in D : x # a => rows(s)[x] = rows(u)[x]
          /\ rows(u)[a] = 0 /\ rows(s)[a] = row(a)
      BY <3>1
    <3>4. Total(rows(s)) = Total(rows(u)) + row(a) /\ Total(rows(u)) \in Int
      <4> HIDE DEF rows, row, u
      <4>1. Total(rows(s)) = Total(rows(u)) - rows(u)[a] + rows(s)[a] /\ Total(rows(u)) \in Int
        <5>1. rows(s) \in [D -> Int] /\ rows(u) \in [D -> Int]
          BY <1>3
        <5> HIDE DEF a
        <5> QED BY <3>1, <3>3, <5>1, TotalUpdate, SMTT(60)
      <4>2. row(a) \in Int
        BY <1>1, <3>1
      <4> QED BY <3>3, <4>1, <4>2
    <3>5. r \in [E -> Int] /\ Total(r) = row(a)
      BY <3>1
    <3>6. ASSUME NEW y \in E PROVE cols(s)[y] = cols(u)[y] + r[y]
      <4>1. /\ \A x \in D : x # a => col(s, y)[x] = col(u, y)[x]
            /\ col(u, y)[a] = 0 /\ col(s, y)[a] = r[y]
        BY <3>1
      <4>2. cols(s)[y] = Total(col(s, y)) /\ cols(u)[y] = Total(col(u, y))
        OBVIOUS
      <4>3. r[y] \in Int
        BY <3>5
      <4> HIDE DEF col, cols, r, u
      <4>4. Total(col(s, y)) = Total(col(u, y)) - col(u, y)[a] + col(s, y)[a] /\ Total(col(u, y)) \in Int
        <5>1. col(s, y) \in [D -> Int] /\ col(u, y) \in [D -> Int]
          BY <1>2
        <5> QED BY <3>1, <4>1, <5>1, TotalUpdate, SMTT(60)
      <4> QED BY <4>1, <4>2, <4>3, <4>4
    <3> HIDE DEF rows, cols, row, u, r
    <3>7. Total(cols(s)) = Total(cols(u)) + Total(r)
      <4>1. cols(s) \in [E -> Int] /\ cols(u) \in [E -> Int]
        BY <1>3
      <4> QED BY <3>5, <3>6, <4>1, TotalAdds, SMTT(60)
    <3>8. Total(rows(s)) = Total(cols(s))
      BY <3>2, <3>4, <3>5, <3>7
    <3> QED BY <3>8
  <2> QED BY <2>1, <2>2
<1> HIDE DEF G
<1>5. D \in G
  BY <1>4, SubsetInduction
<1>6. Total(rows(D)) = Total(cols(D))
  BY <1>5 DEF G
<1>7. rows(D) = [x \in D |-> Total(m[x])]
  <2> HIDE DEF row
  <2>1. rows(D) = [x \in D |-> row(x)]
    OBVIOUS
  <2> QED BY <2>1 DEF row
<1>8. cols(D) = [y \in E |-> Total([x \in D |-> m[x][y]])]
  <2>1. \A y \in E : col(D, y) = [x \in D |-> m[x][y]]
    OBVIOUS
  <2> HIDE DEF col
  <2>2. cols(D) = [y \in E |-> Total(col(D, y))]
    OBVIOUS
  <2> QED BY <2>1, <2>2
<1> QED BY <1>6, <1>7, <1>8

-------------------------------------------------------------------------------
(***************************************************************************)
(* The invariant.                                                          *)
(***************************************************************************)
Rows ==
  /\ stage \in [Lot -> {"none", "captured", "due"}]
  /\ money \in [Lot -> [Place -> Nat]]
  /\ head \in [Balance -> Int] /\ liquidity \in Int
  /\ candidates \subseteq Lot
  /\ payout \in [Payout -> [status : Holding \cup {"none", "paid", "withdrawn"}, amount : Nat]]
  /\ exposure \in [Payout -> {"none", "committed", "initiated_unreflected", "paid_unreflected"}]
  /\ refund \in [Refund -> [status : {"none", "approved", "succeeded"}, lot : Lot \cup {"none"}]]
  /\ dispute \in [Lot -> {"none", "locking", "provisional_loss"}]
  /\ victims \subseteq Payout /\ overlap \in [Lot -> SUBSET Payout]
  /\ verdict \in [Lot -> {"none", "won", "lost"}]

PayoutsHold == Total([p \in Payout |-> Held(p)])
RefundsHold == Total([r \in Refund |-> Held(r)])

HeadMatches ==
  /\ head["pending"] = Held("root") + Held("pending")
  /\ head["available"] = Held("available") /\ head["reserved"] = Held("reserved")
  /\ head["payout_pending"] = PayoutsHold
  /\ head["refund_pending"] = RefundsHold

\* A root is taken as a whole.
LotsAreWhole ==
  \A l \in Lot : /\ Total(money[l]) = IF stage[l] = "none" THEN 0 ELSE Payable[l]
                 /\ money[l]["root"] \in {0, Payable[l]}

CoveredByLots ==
  \A p \in Payout : Held(p) = IF payout[p].status \in Holding THEN payout[p].amount ELSE 0

\* The status of a payout tells its exposure until it is withdrawn.
ExposureFollows ==
  \A p \in Payout :
    /\ payout[p].status \in {"none", "requested", "under_review"} => exposure[p] = "none"
    /\ payout[p].status = "approved" => exposure[p] = "committed"
    /\ payout[p].status = "processing_manual" => exposure[p] = "initiated_unreflected"
    /\ payout[p].status = "paid" <=> exposure[p] = "paid_unreflected"

Exposed == Total([p \in Payout |-> IF exposure[p] = "none" THEN 0 ELSE payout[p].amount])

BankCovers == Exposed = Liquidity - liquidity /\ liquidity >= 0

\* Nothing is disputed that has not been sold, and nothing lost that still has money.
LostIsSpent ==
  \A l \in Lot : /\ dispute[l] # "none" => stage[l] # "none"
                 /\ verdict[l] # "none" => dispute[l] = "provisional_loss"
                 /\ verdict[l] = "lost" => Unspent(l) = {}

\* What a chargeback has locked can still be withdrawn, what a refund is about exists.
ClaimsStand ==
  /\ \A p \in victims : payout[p].status \in PreBank
  /\ \A r \in Refund : refund[r].status = "approved" => refund[r].lot \in Lot

MoneyInv == /\ Rows /\ HeadMatches /\ LotsAreWhole /\ CoveredByLots /\ ExposureFollows
            /\ BankCovers /\ LostIsSpent /\ ClaimsStand

-------------------------------------------------------------------------------
(***************************************************************************)
(* Places and sums of the wallet.                                          *)
(***************************************************************************)
LEMMA PlaceFacts ==
  /\ IsFiniteSet(Place) /\ IsFiniteSet(Lot) /\ IsFiniteSet(Payout) /\ IsFiniteSet(Refund)
  /\ {"root", "pending", "available", "reserved", "paid", "refunded"} \subseteq Place
  /\ Payout \subseteq Place /\ Refund \subseteq Place
  /\ \A p \in Payout \cup Refund : p \notin {"root", "pending", "available", "reserved", "paid", "refunded"}
  /\ \A p \in Payout : p \notin Refund
  /\ Payable \in [Lot -> Nat] /\ Reserve \in [Lot -> Nat] /\ Liquidity \in Nat
  /\ \A l \in Lot : Reserve[l] <= Payable[l]
<1>1. IsFiniteSet({"root", "pending", "available", "reserved"}) /\ IsFiniteSet({"paid", "refunded"})
  <2>1. \A a, b, c, d : IsFiniteSet({a, b, c, d})
    <3> SUFFICES ASSUME NEW a, NEW b, NEW c, NEW d PROVE IsFiniteSet({a, b, c, d})
      OBVIOUS
    <3>1. IsFiniteSet({a}) /\ IsFiniteSet({b}) /\ IsFiniteSet({c}) /\ IsFiniteSet({d})
      BY FS_Singleton
    <3>2. IsFiniteSet({a} \cup {b}) /\ IsFiniteSet({c} \cup {d})
      BY <3>1, FS_Union
    <3>3. IsFiniteSet(({a} \cup {b}) \cup ({c} \cup {d}))
      BY <3>2, FS_Union
    <3>4. {a, b, c, d} = ({a} \cup {b}) \cup ({c} \cup {d})
      OBVIOUS
    <3> QED BY <3>3, <3>4
  <2>2. {"paid", "refunded"} = {"paid", "refunded", "paid", "refunded"}
    OBVIOUS
  <2> QED BY <2>1, <2>2
<1>2. IsFiniteSet(Owed \cup Gone)
  BY <1>1, FS_Union DEF Owed, Gone
<1>3. IsFiniteSet(Payout) /\ IsFiniteSet(Refund) /\ IsFiniteSet(Lot)
  BY WalletAssumption
<1>4. IsFiniteSet((Owed \cup Gone) \cup Payout)
  BY <1>2, <1>3, FS_Union
<1>5. IsFiniteSet(Place)
  BY <1>3, <1>4, FS_Union DEF Place
<1> QED BY <1>3, <1>5, WalletAssumption DEF Place, Owed, Gone

LEMMA ColumnTypes ==
  ASSUME NEW m \in [Lot -> [Place -> Nat]], NEW q \in Place
  PROVE  /\ Total([l \in Lot |-> m[l][q]]) \in Nat
         /\ \A l \in Lot : m[l][q] \in Nat /\ m[l][q] <= Total([k \in Lot |-> m[k][q]])
<1> DEFINE f == [l \in Lot |-> m[l][q]]
<1>1. f \in [Lot -> Nat] /\ \A l \in Lot : f[l] = m[l][q] /\ m[l][q] \in Nat
  OBVIOUS
<1> HIDE DEF f
<1>2. Total(f) \in Nat
  BY <1>1, PlaceFacts, TotalNat
<1>3. \A l \in Lot : f[l] <= Total(f)
  BY <1>1, PlaceFacts, TotalBounds
<1> QED BY <1>1, <1>2, <1>3 DEF f

LEMMA HeldTypes ==
  ASSUME Rows, NEW q \in Place
  PROVE  /\ Held(q) \in Nat /\ Held(q) \in Int
         /\ \A l \in Lot : money[l][q] \in Nat /\ money[l][q] <= Held(q)
  BY ColumnTypes DEF Rows, Held

LEMMA HeldTypesNext ==
  ASSUME money' \in [Lot -> [Place -> Nat]], NEW q \in Place
  PROVE  Held(q)' \in Nat /\ Held(q)' \in Int
<1> DEFINE m == money'
<1>1. m \in [Lot -> [Place -> Nat]] /\ Held(q)' = Total([l \in Lot |-> m[l][q]])
  BY DEF Held
<1> HIDE DEF m
<1>2. Total([l \in Lot |-> m[l][q]]) \in Nat
  BY <1>1, ColumnTypes
<1> QED BY <1>1, <1>2

LEMMA HeldSums ==
  ASSUME Rows
  PROVE  PayoutsHold \in Nat /\ RefundsHold \in Nat
<1>1. /\ [p \in Payout |-> Held(p)] \in [Payout -> Nat]
      /\ [r \in Refund |-> Held(r)] \in [Refund -> Nat]
  BY HeldTypes, PlaceFacts
<1> QED BY <1>1, PlaceFacts, TotalNat DEF PayoutsHold, RefundsHold

\* The money of lot l moves, the money of the others stays.
LEMMA OneLotMoves ==
  ASSUME Rows, NEW l \in Lot, NEW w \in [Place -> Nat], money' = [money EXCEPT ![l] = w]
  PROVE  /\ money' \in [Lot -> [Place -> Nat]]
         /\ money'[l] = w /\ \A k \in Lot : k # l => money'[k] = money[k]
         /\ \A q \in Place : Held(q)' = Held(q) - money[l][q] + w[q]
<1>1. /\ money' \in [Lot -> [Place -> Nat]]
      /\ money'[l] = w /\ \A k \in Lot : k # l => money'[k] = money[k]
  BY DEF Rows
<1>2. ASSUME NEW q \in Place PROVE Held(q)' = Held(q) - money[l][q] + w[q]
  <2> DEFINE f == [k \in Lot |-> money[k][q]]
             g == [k \in Lot |-> money'[k][q]]
  <2>1. /\ f \in [Lot -> Int] /\ g \in [Lot -> Int] /\ f[l] = money[l][q] /\ g[l] = w[q]
        /\ \A k \in Lot : k # l => g[k] = f[k]
    BY <1>1 DEF Rows
  <2>2. Held(q) = Total(f) /\ Held(q)' = Total(g)
    BY DEF Held
  <2> HIDE DEF f, g
  <2>3. Total(g) = Total(f) - f[l] + g[l]
    BY <2>1, PlaceFacts, TotalUpdate
  <2> QED BY <2>1, <2>2, <2>3
<1> QED BY <1>1, <1>2

\* At one place, lot l gains d[l].
LEMMA PlaceGains ==
  ASSUME Rows, money' \in [Lot -> [Place -> Nat]], NEW q \in Place, NEW d \in [Lot -> Int],
         \A l \in Lot : money'[l][q] = money[l][q] + d[l]
  PROVE  Held(q)' = Held(q) + Total(d)
<1> DEFINE f == [k \in Lot |-> money[k][q]]
           g == [k \in Lot |-> money'[k][q]]
<1>1. f \in [Lot -> Int] /\ g \in [Lot -> Int] /\ \A l \in Lot : g[l] = f[l] + d[l]
  BY DEF Rows
<1>2. Held(q) = Total(f) /\ Held(q)' = Total(g)
  BY DEF Held
<1> HIDE DEF f, g
<1>3. Total(g) = Total(f) + Total(d)
  <2>1. f \in [Lot -> Int] /\ g \in [Lot -> Int] /\ IsFiniteSet(Lot)
    BY <1>1, PlaceFacts
  <2>2. \A l \in Lot : g[l] = f[l] + d[l]
    BY <1>1
  <2> QED BY <2>1, <2>2, TotalAdds, SMTT(60)
<1> QED BY <1>2, <1>3

LEMMA PlaceStays ==
  ASSUME NEW q, \A l \in Lot : money'[l][q] = money[l][q]
  PROVE  Held(q)' = Held(q)
  BY DEF Held

LEMMA PlaceEmpties ==
  ASSUME NEW q, \A l \in Lot : money'[l][q] = 0
  PROVE  Held(q)' = 0
<1> DEFINE g == [k \in Lot |-> money'[k][q]]
<1>1. g \in [Lot -> Int] /\ \A l \in Lot : g[l] = 0
  OBVIOUS
<1>2. Held(q)' = Total(g)
  BY DEF Held
<1> HIDE DEF g
<1> QED BY <1>1, <1>2, PlaceFacts, TotalZero

\* One entry of a sum over a set of holders changes.
LEMMA PayoutsHoldMore ==
  ASSUME Rows, money' \in [Lot -> [Place -> Nat]], NEW p \in Payout,
         \A x \in Payout : x # p => Held(x)' = Held(x)
  PROVE  PayoutsHold' = PayoutsHold - Held(p) + Held(p)'
<1> DEFINE f == [x \in Payout |-> Held(x)]
           g == [x \in Payout |-> Held(x)']
<1>1. \A x \in Payout : Held(x) \in Int /\ Held(x)' \in Int
  BY HeldTypes, HeldTypesNext, PlaceFacts
<1>2. /\ f \in [Payout -> Int] /\ g \in [Payout -> Int] /\ f[p] = Held(p) /\ g[p] = Held(p)'
      /\ \A x \in Payout : x # p => g[x] = f[x]
  BY <1>1
<1>3. PayoutsHold = Total(f) /\ PayoutsHold' = Total(g)
  BY DEF PayoutsHold
<1> HIDE DEF f, g
<1>4. Total(g) = Total(f) - f[p] + g[p]
  <2>1. IsFiniteSet(Payout)
    BY PlaceFacts
  <2> QED BY <1>2, <2>1, TotalUpdate
<1> QED BY <1>2, <1>3, <1>4

LEMMA RefundsHoldMore ==
  ASSUME Rows, money' \in [Lot -> [Place -> Nat]], NEW r \in Refund,
         \A x \in Refund : x # r => Held(x)' = Held(x)
  PROVE  RefundsHold' = RefundsHold - Held(r) + Held(r)'
<1> DEFINE f == [x \in Refund |-> Held(x)]
           g == [x \in Refund |-> Held(x)']
<1>1. \A x \in Refund : Held(x) \in Int /\ Held(x)' \in Int
  BY HeldTypes, HeldTypesNext, PlaceFacts
<1>2. /\ f \in [Refund -> Int] /\ g \in [Refund -> Int] /\ f[r] = Held(r) /\ g[r] = Held(r)'
      /\ \A x \in Refund : x # r => g[x] = f[x]
  BY <1>1
<1>3. RefundsHold = Total(f) /\ RefundsHold' = Total(g)
  BY DEF RefundsHold
<1> HIDE DEF f, g
<1>4. Total(g) = Total(f) - f[r] + g[r]
  BY <1>2, PlaceFacts, TotalUpdate
<1> QED BY <1>2, <1>3, <1>4

LEMMA HoldersStay ==
  /\ (\A p \in Payout : Held(p)' = Held(p)) => PayoutsHold' = PayoutsHold
  /\ (\A r \in Refund : Held(r)' = Held(r)) => RefundsHold' = RefundsHold
  BY DEF PayoutsHold, RefundsHold

(***************************************************************************)
(* Sums over the places of one lot.                                        *)
(***************************************************************************)
LEMMA TwoPlaces ==
  ASSUME NEW f \in [Place -> Int], NEW g \in [Place -> Int], NEW x \in Place, NEW y \in Place, x # y,
         \A q \in Place : q # x /\ q # y => g[q] = f[q]
  PROVE  Total(g) = Total(f) - f[x] - f[y] + g[x] + g[y] /\ Total(f) \in Int
<1> DEFINE h == [q \in Place |-> IF q = x THEN g[q] ELSE f[q]]
<1>1. /\ h \in [Place -> Int] /\ h[x] = g[x] /\ h[y] = f[y]
      /\ \A q \in Place : q # x => h[q] = f[q]
      /\ \A q \in Place : q # y => g[q] = h[q]
  OBVIOUS
<1> HIDE DEF h
<1>2. Total(h) = Total(f) - f[x] + h[x] /\ Total(f) \in Int
  BY <1>1, PlaceFacts, TotalUpdate
<1>3. Total(g) = Total(h) - h[y] + g[y]
  BY <1>1, PlaceFacts, TotalUpdate
<1> QED BY <1>1, <1>2, <1>3

\* What a refund or the release moves: all places but those of Owed and z stay.
LEMMA OwedPlaces ==
  ASSUME NEW f \in [Place -> Int], NEW g \in [Place -> Int], NEW z \in Place, z \notin Owed,
         \A q \in Place : q # z /\ q \notin Owed => g[q] = f[q]
  PROVE  /\ Total(g) = Total(f) - f["root"] - f["pending"] - f["available"] - f["reserved"] - f[z]
                       + g["root"] + g["pending"] + g["available"] + g["reserved"] + g[z]
         /\ Total(f) \in Int
<1> USE PlaceFacts
<1> DEFINE h1 == [q \in Place |-> IF q \in {"root", "pending"} THEN g[q] ELSE f[q]]
           h2 == [q \in Place |-> IF q \in Owed THEN g[q] ELSE f[q]]
<1>1. /\ h1 \in [Place -> Int] /\ h1["root"] = g["root"] /\ h1["pending"] = g["pending"]
      /\ h1["available"] = f["available"] /\ h1["reserved"] = f["reserved"]
      /\ \A q \in Place : q # "root" /\ q # "pending" => h1[q] = f[q]
  OBVIOUS
<1>2. /\ h2 \in [Place -> Int] /\ h2["available"] = g["available"] /\ h2["reserved"] = g["reserved"]
      /\ h2[z] = f[z]
      /\ \A q \in Place : q # "available" /\ q # "reserved" => h2[q] = h1[q]
      /\ \A q \in Place : q # z => g[q] = h2[q]
  BY DEF Owed
<1> HIDE DEF h1, h2
<1>3. Total(h1) = Total(f) - f["root"] - f["pending"] + h1["root"] + h1["pending"] /\ Total(f) \in Int
  BY <1>1, TwoPlaces
<1>4. Total(h2) = Total(h1) - h1["available"] - h1["reserved"] + h2["available"] + h2["reserved"]
  <2>1. /\ h1 \in [Place -> Int] /\ h2 \in [Place -> Int] /\ "available" \in Place /\ "reserved" \in Place
        /\ \A q \in Place : q # "available" /\ q # "reserved" => h2[q] = h1[q]
    BY <1>1, <1>2
  <2> QED BY <2>1, TwoPlaces, SMTT(60)
<1>5. Total(g) = Total(h2) - h2[z] + g[z]
  BY <1>2, TotalUpdate
<1>6. \A q \in Place : f[q] \in Int /\ g[q] \in Int
  OBVIOUS
<1> QED BY <1>1, <1>2, <1>3, <1>4, <1>5, <1>6

\* What a payout or a refund takes is the sum of what it takes from each place.
LEMMA TakeTotal ==
  ASSUME NEW take \in [Owed -> Nat]
  PROVE  Total(take) = take["root"] + take["pending"] + take["available"] + take["reserved"]
<1> USE PlaceFacts
<1> DEFINE f == [q \in Place |-> 0]
           g == [q \in Place |-> IF q \in Owed THEN take[q] ELSE 0]
<1>1. /\ f \in [Place -> Int] /\ g \in [Place -> Int] /\ \A q \in Place : f[q] = 0
      /\ \A q \in Place : g[q] = IF q \in Owed THEN take[q] ELSE 0
      /\ \A q \in Place : q \notin Owed => g[q] = f[q]
      /\ Owed \in SUBSET Place /\ take \in [Owed -> Int]
      /\ {"root", "pending", "available", "reserved"} = Owed
  BY DEF Owed
<1> HIDE DEF f, g
<1>2. Total(g) = Total(take)
  BY <1>1, TotalExtends
<1>3. Total(f) = 0
  BY <1>1, TotalZero
<1>4. "paid" \in Place /\ "paid" \notin Owed
  BY DEF Owed
<1>5. Total(g) = Total(f) - f["root"] - f["pending"] - f["available"] - f["reserved"] - f["paid"]
                  + g["root"] + g["pending"] + g["available"] + g["reserved"] + g["paid"]
  BY <1>1, <1>4, OwedPlaces
<1>6. /\ g["root"] = take["root"] /\ g["pending"] = take["pending"] /\ g["paid"] = 0
      /\ g["available"] = take["available"] /\ g["reserved"] = take["reserved"]
      /\ f["root"] = 0 /\ f["pending"] = 0 /\ f["available"] = 0 /\ f["reserved"] = 0 /\ f["paid"] = 0
      /\ take["root"] \in Nat /\ take["pending"] \in Nat /\ take["available"] \in Nat /\ take["reserved"] \in Nat
  BY <1>1, <1>4
<1> QED BY <1>2, <1>3, <1>5, <1>6

\* The places of a lot hold no more than the lot does.
LEMMA PlacesFit ==
  ASSUME NEW f \in [Place -> Nat], NEW q \in Place
  PROVE  f[q] \in Nat /\ f[q] <= Total(f) /\ Total(f) \in Nat
  BY PlaceFacts, TotalBounds, TotalNat

-------------------------------------------------------------------------------
(***************************************************************************)
(* What the steps leave alone.                                             *)
(***************************************************************************)
LEMMA MoneyStays ==
  ASSUME MoneyInv, UNCHANGED <<money, head, stage>>
  PROVE  HeadMatches' /\ LotsAreWhole' /\ \A q : Held(q)' = Held(q)
<1>1. \A q : Held(q)' = Held(q)
  BY DEF Held
<1>2. HeadMatches' /\ LotsAreWhole'
  BY <1>1, HoldersStay DEF MoneyInv, HeadMatches, LotsAreWhole
<1> QED BY <1>1, <1>2

\* No payout that the bank has been asked for changes its amount.
LEMMA BankStays ==
  ASSUME BankCovers, UNCHANGED <<exposure, liquidity>>,
         \A p \in Payout : exposure[p] # "none" => payout'[p].amount = payout[p].amount
  PROVE  BankCovers'
<1> DEFINE f == [p \in Payout |-> IF exposure[p] = "none" THEN 0 ELSE payout[p].amount]
           g == [p \in Payout |-> IF exposure'[p] = "none" THEN 0 ELSE payout'[p].amount]
<1>1. g = f
  OBVIOUS
<1>2. Exposed = Total(f) /\ Exposed' = Total(g)
  BY DEF Exposed
<1> HIDE DEF f, g
<1>3. Exposed' = Exposed
  BY <1>1, <1>2
<1> QED BY <1>3 DEF BankCovers

\* A payout changes its status; nothing else of it.
LEMMA StatusMoves ==
  ASSUME Rows, NEW p \in Payout, NEW s \in Holding \cup {"none", "paid", "withdrawn"}, To(p, s)
  PROVE  /\ payout' \in [Payout -> [status : Holding \cup {"none", "paid", "withdrawn"}, amount : Nat]]
         /\ \A x \in Payout : /\ payout'[x].amount = payout[x].amount
                              /\ payout'[x].status = IF x = p THEN s ELSE payout[x].status
<1>1. payout' = [payout EXCEPT ![p].status = s]
  BY DEF To
<1> QED BY <1>1 DEF Rows

\* The steps that move no money.
LEMMA IdleStepsKeepMoney ==
  ASSUME MoneyInv,
         \/ ReadCandidates \/ ReleaseStops
         \/ \E l \in Lot : HoldEnds(l) \/ ReceiveNotice(l) \/ AbortNotice(l) \/ ResolveChargeback(l)
         \/ UNCHANGED vars
  PROVE  MoneyInv'
<1> USE DEF payoutVars, disputeVars, vars
<1>1. UNCHANGED <<money, head, payout, exposure, liquidity, refund>>
  BY DEF ReadCandidates, ReleaseStops, HoldEnds, ReceiveNotice, AbortNotice, ResolveChargeback
<1>2. \A l \in Lot : stage'[l] = "none" <=> stage[l] = "none"
  BY DEF ReadCandidates, ReleaseStops, HoldEnds, ReceiveNotice, AbortNotice, ResolveChargeback, MoneyInv, Rows
<1>3. \A q : Held(q)' = Held(q)
  BY <1>1 DEF Held
<1>4. HeadMatches' /\ CoveredByLots' /\ ExposureFollows'
  BY <1>1, <1>3, HoldersStay DEF MoneyInv, HeadMatches, CoveredByLots, ExposureFollows
<1>5. LotsAreWhole'
  BY <1>1, <1>2 DEF MoneyInv, LotsAreWhole
<1>6. BankCovers'
  BY <1>1, BankStays DEF MoneyInv
<1>7. Rows'
  <2>1. stage' \in [Lot -> {"none", "captured", "due"}] /\ candidates' \subseteq Lot
    BY DEF ReadCandidates, ReleaseStops, HoldEnds, ReceiveNotice, AbortNotice, ResolveChargeback,
           MoneyInv, Rows, Releasable
  <2>2. /\ dispute' \in [Lot -> {"none", "locking", "provisional_loss"}]
        /\ victims' \subseteq Payout /\ overlap' \in [Lot -> SUBSET Payout]
    BY DEF ReadCandidates, ReleaseStops, HoldEnds, ReceiveNotice, AbortNotice, ResolveChargeback,
           MoneyInv, Rows, Affected
  <2>3. verdict' \in [Lot -> {"none", "won", "lost"}]
    BY DEF ReadCandidates, ReleaseStops, HoldEnds, ReceiveNotice, AbortNotice, ResolveChargeback,
           MoneyInv, Rows
  <2> QED BY <1>1, <2>1, <2>2, <2>3 DEF MoneyInv, Rows
<1>8. LostIsSpent'
  BY <1>1, <1>2 DEF ReadCandidates, ReleaseStops, HoldEnds, ReceiveNotice, AbortNotice, ResolveChargeback,
              MoneyInv, Rows, LostIsSpent, Unspent, MayLose
<1>9. ClaimsStand'
  BY <1>1 DEF ReadCandidates, ReleaseStops, HoldEnds, ReceiveNotice, AbortNotice, ResolveChargeback,
              MoneyInv, ClaimsStand, Affected
<1> QED BY <1>4, <1>5, <1>6, <1>7, <1>8, <1>9 DEF MoneyInv

\* Reviews, approvals and executions move no money of the wallet.
LEMMA ReviewsKeepMoney ==
  ASSUME MoneyInv, NEW p \in Payout, BeginReview(p) \/ ApprovePayout(p) \/ StartExecution(p)
  PROVE  MoneyInv'
<1> USE DEF payoutVars, disputeVars, MoneyInv
<1>1. PICK s \in Holding : To(p, s) /\ payout[p].status \in Holding
                           /\ (s = "under_review" => payout[p].status = "requested")
                           /\ s \in {"under_review", "approved", "processing_manual"}
  BY DEF BeginReview, ApprovePayout, StartExecution, Holding, PreBank
<1>2. /\ payout' \in [Payout -> [status : Holding \cup {"none", "paid", "withdrawn"}, amount : Nat]]
      /\ \A x \in Payout : /\ payout'[x].amount = payout[x].amount
                           /\ payout'[x].status = IF x = p THEN s ELSE payout[x].status
  BY <1>1, StatusMoves
<1>3. UNCHANGED <<money, head, stage, candidates, refund, dispute, victims, verdict, overlap>> /\ p \notin victims
  BY DEF BeginReview, ApprovePayout, StartExecution, Locked
<1>4. HeadMatches' /\ LotsAreWhole' /\ \A q : Held(q)' = Held(q)
  BY <1>3, MoneyStays
<1>5. CoveredByLots'
  BY <1>1, <1>2, <1>4 DEF CoveredByLots
<1>6. LostIsSpent' /\ ClaimsStand'
  BY <1>2, <1>3 DEF LostIsSpent, Unspent, ClaimsStand, Rows
<1>7. /\ exposure' \in [Payout -> {"none", "committed", "initiated_unreflected", "paid_unreflected"}]
      /\ ExposureFollows' /\ liquidity' \in Int
  <2>1. CASE BeginReview(p)
    BY <1>2, <2>1 DEF BeginReview, To, ExposureFollows, Rows
  <2>2. CASE ApprovePayout(p)
    <3>1. payout'[p].status = "approved" /\ payout[p].status = "under_review"
          /\ exposure' = [exposure EXCEPT ![p] = "committed"] /\ liquidity' = liquidity - payout[p].amount
      BY <2>2 DEF ApprovePayout, To, Rows
    <3> QED BY <1>2, <3>1 DEF ExposureFollows, Rows
  <2>3. CASE StartExecution(p)
    <3>1. payout'[p].status = "processing_manual" /\ exposure[p] = "committed"
          /\ exposure' = [exposure EXCEPT ![p] = "initiated_unreflected"] /\ UNCHANGED liquidity
      BY <2>3 DEF StartExecution, To, Rows
    <3> QED BY <1>2, <3>1 DEF ExposureFollows, Rows
  <2> QED BY <2>1, <2>2, <2>3
<1>8. BankCovers'
  <2> DEFINE f == [x \in Payout |-> IF exposure[x] = "none" THEN 0 ELSE payout[x].amount]
             g == [x \in Payout |-> IF exposure'[x] = "none" THEN 0 ELSE payout'[x].amount]
  <2>0. Exposed = Total(f) /\ Exposed' = Total(g)
    BY DEF Exposed
  <2>1. f \in [Payout -> Int] /\ g \in [Payout -> Int]
    BY <1>2 DEF Rows
  <2>2. CASE BeginReview(p)
    BY <1>2, <2>2, BankStays DEF BeginReview
  <2>3. CASE ApprovePayout(p)
    <3>1. /\ exposure[p] = "none" /\ exposure' = [exposure EXCEPT ![p] = "committed"]
          /\ liquidity' = liquidity - payout[p].amount /\ payout[p].amount <= liquidity
          /\ payout[p].amount \in Nat /\ liquidity \in Int
      BY <2>3 DEF ApprovePayout, Affordable, ExposureFollows, Rows
    <3>2. f[p] = 0 /\ g[p] = payout[p].amount /\ \A x \in Payout : x # p => g[x] = f[x]
      BY <1>2, <3>1 DEF Rows
    <3> HIDE DEF f, g
    <3>3. Total(g) = Total(f) - f[p] + g[p] /\ Total(f) \in Int
      <4>1. IsFiniteSet(Payout)
        BY PlaceFacts
      <4> QED BY <2>1, <3>2, <4>1, TotalUpdate
    <3>4. Liquidity \in Int
      BY PlaceFacts
    <3> QED BY <2>0, <3>1, <3>2, <3>3, <3>4 DEF BankCovers
  <2>4. CASE StartExecution(p)
    <3>1. exposure[p] = "committed" /\ exposure' = [exposure EXCEPT ![p] = "initiated_unreflected"]
          /\ UNCHANGED liquidity
      BY <2>4 DEF StartExecution
    <3>2. \A x \in Payout : g[x] = f[x]
      BY <1>2, <3>1 DEF Rows
    <3>3. g = f
      BY <3>2
    <3> HIDE DEF f, g
    <3> QED BY <2>0, <3>1, <3>3 DEF BankCovers
  <2> QED BY <2>2, <2>3, <2>4
<1>9. Rows'
  BY <1>2, <1>3, <1>7 DEF Rows
<1> QED BY <1>4, <1>5, <1>6, <1>7, <1>8, <1>9

-------------------------------------------------------------------------------
(***************************************************************************)
(* Sales.                                                                  *)
(***************************************************************************)
LEMMA CapturesKeepMoney ==
  ASSUME MoneyInv, NEW l \in Lot, Capture(l)
  PROVE  MoneyInv'
<1> USE DEF payoutVars, disputeVars, MoneyInv
<1>1. /\ stage[l] = "none" /\ stage' = [stage EXCEPT ![l] = "captured"]
      /\ money' = [money EXCEPT ![l]["root"] = Payable[l]]
      /\ head' = Moved(head, "", "pending", Payable[l])
      /\ UNCHANGED <<candidates, payout, exposure, liquidity, refund, dispute, victims, verdict, overlap>>
  BY DEF Capture
<1>2. Rows /\ money \in [Lot -> [Place -> Nat]] /\ money[l] \in [Place -> Nat] /\ Payable[l] \in Nat
  BY PlaceFacts DEF Rows
<1>3. \A q \in Place : money[l][q] = 0
  <2>1. Total(money[l]) = 0
    BY <1>1 DEF LotsAreWhole
  <2> QED BY <1>2, <2>1, PlacesFit
<1> DEFINE w == [money[l] EXCEPT !["root"] = Payable[l]]
<1>4. /\ w \in [Place -> Nat] /\ w["root"] = Payable[l] /\ \A q \in Place : q # "root" => w[q] = money[l][q]
      /\ money' = [money EXCEPT ![l] = w]
  BY <1>1, <1>2, PlaceFacts
<1> HIDE DEF w
<1>5. /\ money' \in [Lot -> [Place -> Nat]]
      /\ money'[l] = w /\ \A k \in Lot : k # l => money'[k] = money[k]
      /\ \A q \in Place : Held(q)' = Held(q) - money[l][q] + w[q]
  BY <1>2, <1>4, OneLotMoves
<1>6. /\ Held("root")' = Held("root") + Payable[l]
      /\ \A q \in Place : q # "root" => Held(q)' = Held(q)
      /\ \A q \in Place : Held(q) \in Int
  BY <1>2, <1>3, <1>4, <1>5, HeldTypes, PlaceFacts
<1>7. PayoutsHold' = PayoutsHold /\ RefundsHold' = RefundsHold
  BY <1>6, HoldersStay, PlaceFacts
<1>8. HeadMatches' /\ head' \in [Balance -> Int]
  <2>1. head \in [Balance -> Int]
    BY DEF Rows
  <2>2. /\ head' \in [Balance -> Int] /\ head'["pending"] = head["pending"] + Payable[l]
        /\ head'["available"] = head["available"] /\ head'["reserved"] = head["reserved"]
        /\ head'["payout_pending"] = head["payout_pending"] /\ head'["refund_pending"] = head["refund_pending"]
    BY <1>1, <1>2, <2>1 DEF Moved, Balance
  <2>3. /\ Held("pending")' = Held("pending") /\ Held("available")' = Held("available")
        /\ Held("reserved")' = Held("reserved") /\ Held("root") \in Int /\ Held("pending") \in Int
    BY <1>6, PlaceFacts
  <2> QED BY <1>2, <1>6, <1>7, <2>2, <2>3 DEF HeadMatches
<1>9. LotsAreWhole'
  <2>1. Total(w) = Payable[l]
    <3>1. money[l] \in [Place -> Int] /\ w \in [Place -> Int]
      BY <1>2, <1>4
    <3>2. Total(w) = Total(money[l]) - money[l]["root"] + w["root"]
      BY <1>4, <3>1, PlaceFacts, TotalUpdate
    <3>3. Total(money[l]) = 0 /\ money[l]["root"] = 0
      BY <1>1, <1>3, PlaceFacts DEF LotsAreWhole
    <3> QED BY <1>2, <1>4, <3>2, <3>3
  <2>2. \A k \in Lot : stage'[k] = IF k = l THEN "captured" ELSE stage[k]
    BY <1>1 DEF Rows
  <2> QED BY <1>4, <1>5, <2>1, <2>2 DEF LotsAreWhole
<1>10. CoveredByLots' /\ ExposureFollows' /\ ClaimsStand'
  BY <1>1, <1>6, PlaceFacts DEF CoveredByLots, ExposureFollows, ClaimsStand
<1>11. BankCovers'
  BY <1>1, BankStays
<1>12. LostIsSpent'
  BY <1>1, <1>5 DEF LostIsSpent, Unspent, Rows
<1>13. Rows'
  BY <1>1, <1>5, <1>8 DEF Rows
<1> QED BY <1>8, <1>9, <1>10, <1>11, <1>12, <1>13

LEMMA ReleasesKeepMoney ==
  ASSUME MoneyInv, NEW l \in Lot, ReleaseOneRoot(l)
  PROVE  MoneyInv'
<1> USE DEF payoutVars, disputeVars, MoneyInv
<1>1. /\ candidates' = candidates \ {l}
      /\ UNCHANGED <<stage, payout, exposure, liquidity, refund, dispute, victims, verdict, overlap>>
  BY DEF ReleaseOneRoot
<1>2. BankCovers' /\ ExposureFollows' /\ ClaimsStand'
  BY <1>1, BankStays DEF ExposureFollows, ClaimsStand
<1>3. CASE ~Eligible(l)
  <2>1. UNCHANGED <<money, head>>
    BY <1>3 DEF ReleaseOneRoot
  <2>2. HeadMatches' /\ LotsAreWhole' /\ \A q : Held(q)' = Held(q)
    BY <1>1, <2>1, MoneyStays
  <2>3. CoveredByLots' /\ LostIsSpent' /\ Rows'
    BY <1>1, <2>1, <2>2 DEF CoveredByLots, LostIsSpent, Unspent, Rows
  <2> QED BY <1>2, <2>2, <2>3
<1>4. CASE Eligible(l)
  <2> DEFINE free == Payable[l] - Reserve[l]
             w == [money[l] EXCEPT !["root"] = 0, !["available"] = @ + Payable[l] - Reserve[l],
                                   !["reserved"] = @ + Reserve[l]]
  <2>1. /\ money' = [money EXCEPT ![l]["root"] = 0, ![l]["available"] = @ + Payable[l] - Reserve[l],
                                  ![l]["reserved"] = @ + Reserve[l]]
        /\ head' = Moved(Moved(head, "pending", "available", free), "pending", "reserved", Reserve[l])
        /\ stage[l] = "due" /\ money[l]["root"] > 0
    BY <1>4 DEF ReleaseOneRoot, Eligible
  <2>2. /\ Rows /\ money \in [Lot -> [Place -> Nat]] /\ money[l] \in [Place -> Nat]
        /\ Payable[l] \in Nat /\ Reserve[l] \in Nat /\ Reserve[l] <= Payable[l] /\ free \in Nat
        /\ Payable[l] = free + Reserve[l]
    BY PlaceFacts DEF Rows
  <2>3. money[l]["root"] = Payable[l]
    BY <2>1, <2>2 DEF LotsAreWhole
  <2>4. money' = [money EXCEPT ![l] = w]
    BY <2>1, <2>2
  <2>5. /\ w \in [Place -> Nat] /\ w["root"] = 0 /\ w["pending"] = money[l]["pending"]
        /\ w["available"] = money[l]["available"] + free
        /\ w["reserved"] = money[l]["reserved"] + Reserve[l]
        /\ \A q \in Place : q \notin Owed => w[q] = money[l][q]
    BY <2>2, PlaceFacts DEF Owed
  <2> HIDE DEF w, free
  <2>6. /\ money' \in [Lot -> [Place -> Nat]]
        /\ money'[l] = w /\ \A k \in Lot : k # l => money'[k] = money[k]
        /\ \A q \in Place : Held(q)' = Held(q) - money[l][q] + w[q]
    BY <2>2, <2>4, <2>5, OneLotMoves
  <2>7. \A q \in Place : Held(q) \in Int /\ money[l][q] \in Nat
    BY <2>2, HeldTypes
  <2>8. /\ Held("root")' = Held("root") - Payable[l] /\ Held("pending")' = Held("pending")
        /\ Held("available")' = Held("available") + free
        /\ Held("reserved")' = Held("reserved") + Reserve[l]
        /\ \A q \in Payout \cup Refund : Held(q)' = Held(q)
    <3>1. \A q \in Payout \cup Refund : q \in Place /\ q \notin Owed
      BY PlaceFacts DEF Owed
    <3> QED BY <2>2, <2>3, <2>5, <2>6, <2>7, <3>1, PlaceFacts
  <2>9. PayoutsHold' = PayoutsHold /\ RefundsHold' = RefundsHold
    BY <2>8, HoldersStay
  <2>10. HeadMatches' /\ head' \in [Balance -> Int]
    <3>1. head \in [Balance -> Int]
      BY DEF Rows
    <3>2. /\ head' \in [Balance -> Int]
          /\ head'["pending"] = head["pending"] - free - Reserve[l]
          /\ head'["available"] = head["available"] + free /\ head'["reserved"] = head["reserved"] + Reserve[l]
          /\ head'["payout_pending"] = head["payout_pending"] /\ head'["refund_pending"] = head["refund_pending"]
      BY <2>1, <2>2, <3>1 DEF Moved, Balance
    <3>3. Held("root") \in Int /\ Held("pending") \in Int
      BY <2>7, PlaceFacts
    <3> QED BY <2>2, <2>8, <2>9, <3>2, <3>3 DEF HeadMatches
  <2>11. LotsAreWhole'
    <3>1. "paid" \in Place /\ "paid" \notin Owed /\ w["paid"] = money[l]["paid"]
          /\ money[l] \in [Place -> Int] /\ w \in [Place -> Int]
      BY <2>2, <2>5, PlaceFacts DEF Owed
    <3>2. /\ Total(w) = Total(money[l]) - money[l]["root"] - money[l]["pending"] - money[l]["available"]
                       - money[l]["reserved"] - money[l]["paid"]
                       + w["root"] + w["pending"] + w["available"] + w["reserved"] + w["paid"]
          /\ Total(money[l]) \in Int
      BY <2>5, <3>1, OwedPlaces
    <3>3. /\ money[l]["pending"] \in Int /\ money[l]["available"] \in Int
          /\ money[l]["reserved"] \in Int /\ money[l]["paid"] \in Int
      BY <2>7, PlaceFacts
    <3>4. Total(w) = Total(money[l])
      BY <2>2, <2>3, <2>5, <3>1, <3>2, <3>3
    <3> QED BY <1>1, <2>5, <2>6, <3>4 DEF LotsAreWhole
  <2>12. CoveredByLots'
    BY <1>1, <2>8 DEF CoveredByLots
  <2>13. LostIsSpent'
    <3>1. "root" \in Unspent(l)
      BY <2>1, PlaceFacts DEF Unspent, Gone
    <3> QED BY <1>1, <2>6, <3>1 DEF LostIsSpent, Unspent
  <2>14. Rows'
    BY <1>1, <2>6, <2>10 DEF Rows
  <2> QED BY <1>2, <2>10, <2>11, <2>12, <2>13, <2>14
<1> QED BY <1>3, <1>4

-------------------------------------------------------------------------------
(***************************************************************************)
(* Payouts.                                                                *)
(***************************************************************************)
LEMMA RequestsKeepMoney ==
  ASSUME MoneyInv, NEW p \in Payout, RequestPayout(p)
  PROVE  MoneyInv'
<1> USE DEF payoutVars, disputeVars, MoneyInv
<1>1. PICK take \in Shares([l \in Lot |-> MayTake(l)]) :
        /\ payout' = [payout EXCEPT ![p] = [status |-> "requested", amount |-> Total(take)]]
        /\ money' = [l \in Lot |-> [money[l] EXCEPT !["available"] = @ - take[l], ![p] = take[l]]]
        /\ head' = Moved(head, "available", "payout_pending", Total(take))
  BY DEF RequestPayout
<1>2. /\ payout[p].status = "none" /\ overlap' \in [Lot -> SUBSET Payout]
      /\ UNCHANGED <<stage, candidates, exposure, liquidity, refund, dispute, victims, verdict>>
  BY DEF RequestPayout, Rows
<1>3. /\ Rows /\ money \in [Lot -> [Place -> Nat]] /\ p \in Place /\ p \notin Owed
      /\ "available" \in Place /\ p # "available"
  BY PlaceFacts DEF Rows, Owed
<1>4. take \in [Lot -> Nat] /\ \A l \in Lot : take[l] <= money[l]["available"]
  <2> DEFINE limit == [l \in Lot |-> MayTake(l)]
  <2>1. take \in [Lot -> 0 .. Total(limit)] /\ \A l \in Lot : take[l] <= MayTake(l)
    BY DEF Shares
  <2> HIDE DEF limit
  <2>2. take \in [Lot -> Nat]
    BY <2>1
  <2>3. \A l \in Lot : MayTake(l) <= money[l]["available"]
    BY <1>3 DEF MayTake
  <2>4. \A l \in Lot : MayTake(l) \in Nat /\ money[l]["available"] \in Nat
    BY <1>3 DEF MayTake
  <2> QED BY <2>1, <2>2, <2>3, <2>4
<1>5. Total(take) \in Nat
  BY <1>4, PlaceFacts, TotalNat
<1>6. \A l \in Lot : money[l][p] = 0
  <2>1. Held(p) = 0
    BY <1>2 DEF CoveredByLots, Holding, PreBank
  <2>2. \A l \in Lot : money[l][p] \in Nat /\ money[l][p] <= Held(p)
    BY <1>3, HeldTypes
  <2> QED BY <2>1, <2>2
<1>7. ASSUME NEW l \in Lot
      PROVE  /\ money'[l] \in [Place -> Nat]
             /\ money'[l]["available"] = money[l]["available"] - take[l] /\ money'[l][p] = take[l]
             /\ \A q \in Place : q # p /\ q # "available" => money'[l][q] = money[l][q]
             /\ Total(money'[l]) = Total(money[l])
  <2>1. money'[l] = [money[l] EXCEPT !["available"] = @ - take[l], ![p] = take[l]]
    BY <1>1
  <2>2. money[l] \in [Place -> Nat] /\ take[l] \in Nat /\ money[l]["available"] - take[l] \in Nat
    BY <1>3, <1>4
  <2>3. /\ money'[l] \in [Place -> Nat]
        /\ money'[l]["available"] = money[l]["available"] - take[l] /\ money'[l][p] = take[l]
        /\ \A q \in Place : q # p /\ q # "available" => money'[l][q] = money[l][q]
    BY <1>3, <2>1, <2>2
  <2> DEFINE f == money[l]
             g == money'[l]
  <2>4. /\ f \in [Place -> Int] /\ g \in [Place -> Int] /\ f["available"] \in Nat /\ take[l] \in Nat
        /\ \A q \in Place : q # "available" /\ q # p => g[q] = f[q]
        /\ f[p] = 0 /\ g[p] = take[l] /\ g["available"] = f["available"] - take[l]
    BY <1>3, <1>6, <2>2, <2>3
  <2> HIDE DEF f, g
  <2>5. Total(g) = Total(f) - f["available"] - f[p] + g["available"] + g[p] /\ Total(f) \in Int
    <3>1. "available" \in Place /\ p \in Place /\ "available" # p
      BY <1>3
    <3> QED BY <2>4, <3>1, TwoPlaces, SMTT(60)
  <2>6. Total(g) = Total(f)
    BY <2>4, <2>5
  <2> QED BY <2>3, <2>6 DEF f, g
<1>8. money' \in [Lot -> [Place -> Nat]]
  BY <1>1, <1>7
<1>9. Held("available")' = Held("available") - Total(take)
  <2> DEFINE f == [l \in Lot |-> money[l]["available"]]
             g == [l \in Lot |-> money'[l]["available"]]
  <2>1. /\ f \in [Lot -> Int] /\ g \in [Lot -> Int] /\ take \in [Lot -> Int]
        /\ \A l \in Lot : f[l] = g[l] + take[l]
    BY <1>3, <1>4, <1>7
  <2>2. Held("available") = Total(f) /\ Held("available")' = Total(g)
    BY DEF Held
  <2> HIDE DEF f, g
  <2>3. Total(f) = Total(g) + Total(take)
    <3>1. IsFiniteSet(Lot) /\ \A l \in Lot : f[l] = g[l] + take[l]
      BY <2>1, PlaceFacts
    <3> QED BY <2>1, <3>1, TotalAdds, SMTT(60)
  <2>4. Total(g) \in Int
    BY <2>1, PlaceFacts, TotalTypes
  <2> QED BY <1>5, <2>2, <2>3, <2>4
<1>10. Held(p)' = Total(take) /\ Held(p) = 0
  <2>1. Held(p)' = Total([l \in Lot |-> money'[l][p]])
    BY DEF Held
  <2>2. [l \in Lot |-> money'[l][p]] = take
    BY <1>4, <1>7
  <2>3. Held(p) = 0
    BY <1>2 DEF CoveredByLots, Holding, PreBank
  <2> QED BY <2>1, <2>2, <2>3
<1>11. \A q \in Place : q # p /\ q # "available" => Held(q)' = Held(q)
  BY <1>7, PlaceStays
<1>12. PayoutsHold' = PayoutsHold + Total(take) /\ RefundsHold' = RefundsHold
  <2>1. \A x \in Payout : x # p => Held(x)' = Held(x)
    BY <1>11, PlaceFacts
  <2>2. PayoutsHold' = PayoutsHold - Held(p) + Held(p)'
    BY <1>3, <1>8, <2>1, PayoutsHoldMore
  <2>3. PayoutsHold \in Nat
    BY <1>3, HeldSums
  <2>4. RefundsHold' = RefundsHold
    BY <1>11, HoldersStay, PlaceFacts
  <2> QED BY <1>5, <1>10, <2>2, <2>3, <2>4
<1>13. HeadMatches' /\ head' \in [Balance -> Int]
  <2>1. head \in [Balance -> Int]
    BY DEF Rows
  <2>2. /\ head' \in [Balance -> Int] /\ head'["pending"] = head["pending"]
        /\ head'["available"] = head["available"] - Total(take) /\ head'["reserved"] = head["reserved"]
        /\ head'["payout_pending"] = head["payout_pending"] + Total(take)
        /\ head'["refund_pending"] = head["refund_pending"]
    BY <1>1, <1>5, <2>1 DEF Moved, Balance
  <2>3. /\ Held("root")' = Held("root") /\ Held("pending")' = Held("pending") /\ Held("reserved")' = Held("reserved")
    BY <1>3, <1>11, PlaceFacts
  <2> QED BY <1>9, <1>12, <2>2, <2>3 DEF HeadMatches
<1>14. LotsAreWhole'
  BY <1>2, <1>3, <1>7, PlaceFacts DEF LotsAreWhole
<1>15. /\ payout' \in [Payout -> [status : Holding \cup {"none", "paid", "withdrawn"}, amount : Nat]]
       /\ payout'[p].status = "requested" /\ payout'[p].amount = Total(take)
       /\ \A x \in Payout : x # p => payout'[x] = payout[x]
  <2> DEFINE n == Total(take)
  <2>1. n \in Nat /\ payout' = [payout EXCEPT ![p] = [status |-> "requested", amount |-> n]]
    BY <1>1, <1>5
  <2> HIDE DEF n
  <2> QED BY <2>1 DEF Rows, Holding, PreBank, n
<1>16. CoveredByLots'
  BY <1>10, <1>11, <1>15, PlaceFacts DEF CoveredByLots, Holding, PreBank
<1>17. ExposureFollows' /\ ClaimsStand'
  <2>1. exposure[p] = "none" /\ p \notin victims
    BY <1>2 DEF ExposureFollows, ClaimsStand, PreBank
  <2>2. ExposureFollows'
    BY <1>2, <1>15, <2>1 DEF ExposureFollows
  <2>3. ClaimsStand'
    BY <1>2, <1>15, <2>1 DEF ClaimsStand, Rows
  <2> QED BY <2>2, <2>3
<1>18. BankCovers'
  <2>1. exposure[p] = "none"
    BY <1>2 DEF ExposureFollows
  <2> QED BY <1>2, <1>15, <2>1, BankStays
<1>19. LostIsSpent'
  <2>1. ASSUME NEW l \in Lot, Unspent(l) = {} PROVE Unspent(l)' = {}
    <3>1. money[l]["available"] = 0 /\ "available" \in Place \ Gone
      <4>1. "available" \in Place \ Gone /\ money[l]["available"] \in Nat
        BY <1>3, PlaceFacts DEF Gone
      <4> QED BY <2>1, <4>1 DEF Unspent
    <3>2. take[l] = 0
      BY <1>4, <3>1
    <3>3. \A q \in Place : money'[l][q] = money[l][q]
      BY <1>6, <1>7, <3>1, <3>2
    <3> QED BY <2>1, <3>3 DEF Unspent
  <2> QED BY <1>2, <2>1 DEF LostIsSpent
<1>20. Rows'
  BY <1>2, <1>8, <1>13, <1>15 DEF Rows
<1> QED BY <1>13, <1>14, <1>16, <1>17, <1>18, <1>19, <1>20

LEMMA PaymentsKeepMoney ==
  ASSUME MoneyInv, NEW p \in Payout, ConfirmPaid(p)
  PROVE  MoneyInv'
<1> USE DEF payoutVars, disputeVars, MoneyInv
<1>1. /\ payout[p].status = "processing_manual" /\ exposure[p] = "initiated_unreflected" /\ p \notin victims
      /\ To(p, "paid") /\ exposure' = [exposure EXCEPT ![p] = "paid_unreflected"]
      /\ money' = [l \in Lot |-> [money[l] EXCEPT !["paid"] = @ + money[l][p], ![p] = 0]]
      /\ head' = Moved(head, "payout_pending", "", payout[p].amount)
      /\ UNCHANGED <<stage, candidates, liquidity, refund, dispute, victims, verdict, overlap>>
  BY DEF ConfirmPaid, Locked
<1>2. /\ Rows /\ money \in [Lot -> [Place -> Nat]] /\ p \in Place /\ p \notin Owed
      /\ "paid" \in Place /\ p # "paid" /\ "paid" \notin Owed /\ "paid" \notin Payout \cup Refund
  BY PlaceFacts DEF Rows, Owed
<1>3. ASSUME NEW l \in Lot
      PROVE  /\ money'[l] \in [Place -> Nat] /\ money'[l][p] = 0
             /\ \A q \in Place : q # p /\ q # "paid" => money'[l][q] = money[l][q]
             /\ Total(money'[l]) = Total(money[l])
  <2>1. money'[l] = [money[l] EXCEPT !["paid"] = @ + money[l][p], ![p] = 0]
    BY <1>1
  <2>2. money[l] \in [Place -> Nat] /\ money[l][p] \in Nat /\ money[l]["paid"] \in Nat
    BY <1>2
  <2>3. /\ money'[l] \in [Place -> Nat]
        /\ money'[l]["paid"] = money[l]["paid"] + money[l][p] /\ money'[l][p] = 0
        /\ \A q \in Place : q # p /\ q # "paid" => money'[l][q] = money[l][q]
    BY <1>2, <2>1, <2>2
  <2> DEFINE f == money[l]
             g == money'[l]
  <2>4. /\ f \in [Place -> Int] /\ g \in [Place -> Int] /\ f["paid"] \in Nat /\ f[p] \in Nat
        /\ \A q \in Place : q # "paid" /\ q # p => g[q] = f[q]
        /\ g[p] = 0 /\ g["paid"] = f["paid"] + f[p]
    BY <1>2, <2>2, <2>3
  <2> HIDE DEF f, g
  <2>5. Total(g) = Total(f) - f["paid"] - f[p] + g["paid"] + g[p] /\ Total(f) \in Int
    <3>1. "paid" \in Place /\ p \in Place /\ "paid" # p
      BY <1>2
    <3> QED BY <2>4, <3>1, TwoPlaces, SMTT(60)
  <2>6. Total(g) = Total(f)
    BY <2>4, <2>5
  <2> QED BY <2>3, <2>6 DEF f, g
<1>4. money' \in [Lot -> [Place -> Nat]]
  BY <1>1, <1>3
<1>5. /\ Held(p)' = 0 /\ Held(p) = payout[p].amount
      /\ \A q \in Place : q # p /\ q # "paid" => Held(q)' = Held(q)
  BY <1>1, <1>3, PlaceEmpties, PlaceStays DEF CoveredByLots, Holding
<1>6. PayoutsHold' = PayoutsHold - payout[p].amount /\ RefundsHold' = RefundsHold
  <2>1. \A x \in Payout : x # p => Held(x)' = Held(x)
    BY <1>2, <1>5, PlaceFacts
  <2>2. PayoutsHold' = PayoutsHold - Held(p) + Held(p)'
    BY <1>2, <1>4, <2>1, PayoutsHoldMore
  <2>3. PayoutsHold \in Nat /\ payout[p].amount \in Nat
    BY <1>2, HeldSums DEF Rows
  <2>4. RefundsHold' = RefundsHold
    BY <1>2, <1>5, HoldersStay, PlaceFacts
  <2> QED BY <1>5, <2>2, <2>3, <2>4
<1>7. HeadMatches' /\ head' \in [Balance -> Int]
  <2>1. head \in [Balance -> Int] /\ payout[p].amount \in Nat
    BY DEF Rows
  <2>2. /\ head' \in [Balance -> Int] /\ head'["pending"] = head["pending"]
        /\ head'["available"] = head["available"] /\ head'["reserved"] = head["reserved"]
        /\ head'["payout_pending"] = head["payout_pending"] - payout[p].amount
        /\ head'["refund_pending"] = head["refund_pending"]
    BY <1>1, <2>1 DEF Moved, Balance
  <2>3. /\ Held("root")' = Held("root") /\ Held("pending")' = Held("pending")
        /\ Held("available")' = Held("available") /\ Held("reserved")' = Held("reserved")
    BY <1>2, <1>5, PlaceFacts DEF Owed
  <2> QED BY <1>6, <2>2, <2>3 DEF HeadMatches
<1>8. LotsAreWhole'
  BY <1>1, <1>2, <1>3, PlaceFacts DEF LotsAreWhole
<1>9. /\ payout' \in [Payout -> [status : Holding \cup {"none", "paid", "withdrawn"}, amount : Nat]]
      /\ \A x \in Payout : /\ payout'[x].amount = payout[x].amount
                           /\ payout'[x].status = IF x = p THEN "paid" ELSE payout[x].status
  BY <1>1, <1>2, StatusMoves
<1>10. CoveredByLots'
  BY <1>2, <1>5, <1>9, PlaceFacts DEF CoveredByLots, Holding, PreBank
<1>11. ExposureFollows' /\ ClaimsStand'
  <2>1. ASSUME NEW x \in Payout, x # p
        PROVE  payout'[x].status = payout[x].status /\ exposure'[x] = exposure[x]
    BY <1>1, <1>9, <2>1 DEF Rows
  <2>2. payout'[p].status = "paid" /\ exposure'[p] = "paid_unreflected"
    BY <1>1, <1>9 DEF Rows
  <2>3. ExposureFollows'
    BY <2>1, <2>2 DEF ExposureFollows
  <2>4. ClaimsStand'
    BY <1>1, <2>1 DEF ClaimsStand, Rows
  <2> QED BY <2>3, <2>4
<1>12. BankCovers'
  <2> DEFINE f == [x \in Payout |-> IF exposure[x] = "none" THEN 0 ELSE payout[x].amount]
             g == [x \in Payout |-> IF exposure'[x] = "none" THEN 0 ELSE payout'[x].amount]
  <2>1. Exposed = Total(f) /\ Exposed' = Total(g)
    BY DEF Exposed
  <2>2. \A x \in Payout : g[x] = f[x]
    BY <1>1, <1>9 DEF Rows
  <2>3. g = f
    BY <2>2
  <2> HIDE DEF f, g
  <2> QED BY <1>1, <2>1, <2>3 DEF BankCovers
<1>13. LostIsSpent'
  <2>1. ASSUME NEW l \in Lot PROVE Unspent(l)' \subseteq Unspent(l)
    BY <1>2, <1>3 DEF Unspent, Gone
  <2> QED BY <1>1, <2>1 DEF LostIsSpent
<1>14. Rows'
  BY <1>1, <1>4, <1>7, <1>9 DEF Rows
<1> QED BY <1>7, <1>8, <1>10, <1>11, <1>12, <1>13, <1>14

-------------------------------------------------------------------------------
(***************************************************************************)
(* Withdrawals: the money of a set of payouts returns to its lots.         *)
(***************************************************************************)
LEMMA PlacesReturn ==
  ASSUME NEW ps \in SUBSET Payout, NEW f \in [Place -> Nat], NEW g \in [Place -> Nat],
         \A q \in ps : g[q] = 0,
         g["available"] = f["available"] + Total([q \in ps |-> f[q]]),
         \A q \in Place : q \notin ps /\ q # "available" => g[q] = f[q]
  PROVE  Total(g) = Total(f)
<1> DEFINE part == [q \in ps |-> f[q]]
           a == [q \in Place |-> IF q \in ps THEN f[q] ELSE 0]
           b == [q \in Place |-> IF q = "available" THEN Total(part) ELSE 0]
           h == [q \in Place |-> g[q] + a[q]]
<1>1. ps \in SUBSET Place /\ "available" \in Place /\ "available" \notin ps /\ IsFiniteSet(Place) /\ IsFiniteSet(ps)
  <2>1. IsFiniteSet(ps)
    BY PlaceFacts, FS_Subset
  <2> QED BY <2>1, PlaceFacts
<1>2. part \in [ps -> Nat] /\ part \in [ps -> Int] /\ \A q \in ps : part[q] = f[q]
  BY <1>1
<1>3. Total(part) \in Nat
  <2> HIDE DEF part
  <2> QED BY <1>1, <1>2, TotalNat
<1>4. /\ a \in [Place -> Int] /\ b \in [Place -> Int] /\ h \in [Place -> Int]
      /\ f \in [Place -> Int] /\ g \in [Place -> Int]
  <2> HIDE DEF part
  <2> QED BY <1>1, <1>3
<1>5. \A q \in Place : h[q] = g[q] + a[q]
  OBVIOUS
<1>6. \A q \in Place : h[q] = f[q] + b[q]
  <2>1. g["available"] = f["available"] + Total(part)
    OBVIOUS
  <2> HIDE DEF part
  <2> QED BY <1>1, <1>3, <2>1
<1>7. /\ \A q \in Place : a[q] = IF q \in ps THEN part[q] ELSE 0
      /\ b["available"] = Total(part) /\ \A q \in Place : q # "available" => b[q] = 0
  BY <1>1, <1>2
<1> HIDE DEF part, a, b, h
<1>8. Total(h) = Total(g) + Total(a)
  BY <1>1, <1>4, <1>5, TotalAdds, SMTT(60)
<1>9. Total(h) = Total(f) + Total(b)
  BY <1>1, <1>4, <1>6, TotalAdds, SMTT(60)
<1>10. Total(a) = Total(part)
  BY <1>1, <1>2, <1>4, <1>7, TotalExtends
<1>11. Total(b) = Total(part)
  BY <1>1, <1>4, <1>7, TotalPoint
<1>12. Total(f) \in Int /\ Total(g) \in Int
  BY <1>1, <1>4, TotalTypes
<1> QED BY <1>3, <1>8, <1>9, <1>10, <1>11, <1>12

LEMMA MoneyReturns ==
  ASSUME Rows, NEW ps \in SUBSET Payout, money' = Withdrawn(money, ps)
  PROVE  /\ money' \in [Lot -> [Place -> Nat]]
         /\ \A l \in Lot : Total(money'[l]) = Total(money[l])
         /\ \A q \in Place : q \notin ps /\ q # "available" =>
              Held(q)' = Held(q) /\ \A l \in Lot : money'[l][q] = money[l][q]
         /\ \A q \in ps : Held(q)' = 0 /\ \A l \in Lot : money'[l][q] = 0
         /\ Held("available")' = Held("available") + Total([p \in ps |-> Held(p)])
         /\ PayoutsHold = PayoutsHold' + Total([p \in ps |-> Held(p)])
         /\ Total([p \in ps |-> Held(p)]) \in Nat
         /\ \A l \in Lot : Unspent(l) = {} => Unspent(l)' = {}
<1> DEFINE Got(l) == Total([p \in ps |-> money[l][p]])
<1>1. /\ ps \in SUBSET Place /\ "available" \in Place /\ "available" \notin ps
      /\ IsFiniteSet(ps) /\ IsFiniteSet(Lot) /\ IsFiniteSet(Payout) /\ Payout \subseteq Place
  <2>1. IsFiniteSet(ps)
    BY PlaceFacts, FS_Subset
  <2> QED BY <2>1, PlaceFacts
<1>2. money \in [Lot -> [Place -> Nat]] /\ \A l \in Lot, q \in Place : money[l][q] \in Nat
  BY DEF Rows
<1>3. ASSUME NEW l \in Lot PROVE Got(l) \in Nat /\ \A p \in ps : money[l][p] <= Got(l)
  <2> DEFINE f == [p \in ps |-> money[l][p]]
  <2>1. f \in [ps -> Nat] /\ \A p \in ps : f[p] = money[l][p]
    BY <1>1, <1>2
  <2> HIDE DEF f
  <2>2. Total(f) \in Nat /\ \A p \in ps : f[p] <= Total(f)
    BY <1>1, <2>1, TotalNat, TotalBounds
  <2> QED BY <2>1, <2>2 DEF f
<1>4. money' = [l \in Lot |-> [q \in Place |-> IF q \in ps THEN 0
                   ELSE IF q = "available" THEN money[l][q] + Got(l) ELSE money[l][q]]]
  BY DEF Withdrawn
<1> HIDE DEF Got
<1>5. ASSUME NEW l \in Lot
      PROVE  /\ money'[l] \in [Place -> Nat]
             /\ \A q \in ps : money'[l][q] = 0
             /\ money'[l]["available"] = money[l]["available"] + Got(l)
             /\ \A q \in Place : q \notin ps /\ q # "available" => money'[l][q] = money[l][q]
  BY <1>1, <1>2, <1>3, <1>4
<1>6. money' \in [Lot -> [Place -> Nat]]
  BY <1>4, <1>5
<1>7. ASSUME NEW l \in Lot PROVE Total(money'[l]) = Total(money[l])
  <2> DEFINE f == money[l]
             g == money'[l]
  <2>1. /\ f \in [Place -> Nat] /\ g \in [Place -> Nat] /\ \A q \in ps : g[q] = 0
        /\ \A q \in Place : q \notin ps /\ q # "available" => g[q] = f[q]
    BY <1>2, <1>5
  <2>2. g["available"] = f["available"] + Total([q \in ps |-> f[q]])
    BY <1>5 DEF Got
  <2> HIDE DEF f, g
  <2>3. Total(g) = Total(f)
    BY <2>1, <2>2, PlacesReturn
  <2> QED BY <2>3 DEF f, g
<1>8. \A q \in Place : q \notin ps /\ q # "available" =>
        Held(q)' = Held(q) /\ \A l \in Lot : money'[l][q] = money[l][q]
  BY <1>5, PlaceStays
<1>9. \A q \in ps : Held(q)' = 0 /\ \A l \in Lot : money'[l][q] = 0
  BY <1>5, PlaceEmpties
<1>10. Held("available")' = Held("available") + Total([p \in ps |-> Held(p)])
  <2> DEFINE d == [l \in Lot |-> Got(l)]
  <2>1. d \in [Lot -> Int] /\ \A l \in Lot : money'[l]["available"] = money[l]["available"] + d[l]
    BY <1>3, <1>5
  <2>2. d = [l \in Lot |-> Total([p \in ps |-> money[l][p]])]
    BY DEF Got
  <2> HIDE DEF d
  <2>3. Held("available")' = Held("available") + Total(d)
    BY <1>1, <1>6, <2>1, PlaceGains
  <2>4. Total(d) = Total([p \in ps |-> Total([l \in Lot |-> money[l][p]])])
    <3> DEFINE m == [l \in Lot |-> [p \in ps |-> money[l][p]]]
    <3>1. m \in [Lot -> [ps -> Int]] /\ \A l \in Lot, p \in ps : m[l][p] = money[l][p]
      BY <1>1, <1>2
    <3>2. d = [l \in Lot |-> Total(m[l])]
      BY <2>2
    <3> HIDE DEF m
    <3>3. Total([l \in Lot |-> Total(m[l])]) = Total([p \in ps |-> Total([l \in Lot |-> m[l][p]])])
      BY <1>1, <3>1, TotalExchange
    <3>4. \A p \in ps : [l \in Lot |-> m[l][p]] = [l \in Lot |-> money[l][p]]
      BY <3>1
    <3>5. [p \in ps |-> Total([l \in Lot |-> m[l][p]])] = [p \in ps |-> Total([l \in Lot |-> money[l][p]])]
      BY <3>4
    <3> QED BY <3>2, <3>3, <3>5
  <2>5. [p \in ps |-> Total([l \in Lot |-> money[l][p]])] = [p \in ps |-> Held(p)]
    BY DEF Held
  <2> QED BY <2>3, <2>4, <2>5
<1> DEFINE part == [p \in ps |-> Held(p)]
<1>11. part \in [ps -> Nat] /\ part \in [ps -> Int] /\ \A p \in ps : part[p] = Held(p)
  BY <1>1, HeldTypes
<1>12. Total(part) \in Nat
  <2> HIDE DEF part
  <2> QED BY <1>1, <1>11, TotalNat
<1>13. PayoutsHold = PayoutsHold' + Total(part)
  <2> DEFINE f == [p \in Payout |-> Held(p)]
             g == [p \in Payout |-> Held(p)']
             a == [p \in Payout |-> IF p \in ps THEN Held(p) ELSE 0]
  <2>1. \A p \in Payout : Held(p) \in Int /\ Held(p)' \in Int
    BY <1>1, <1>6, HeldTypes, HeldTypesNext
  <2>2. /\ f \in [Payout -> Int] /\ g \in [Payout -> Int] /\ a \in [Payout -> Int]
        /\ \A p \in Payout : a[p] = IF p \in ps THEN part[p] ELSE 0
    BY <2>1
  <2>3. \A p \in Payout : f[p] = g[p] + a[p]
    <3>1. ASSUME NEW p \in Payout, p \in ps PROVE Held(p) = Held(p)' + Held(p)
      BY <1>9, <2>1, <3>1
    <3>2. ASSUME NEW p \in Payout, p \notin ps PROVE Held(p) = Held(p)' + 0
      BY <1>1, <1>8, <2>1, <3>2, PlaceFacts
    <3> QED BY <3>1, <3>2
  <2>4. PayoutsHold = Total(f) /\ PayoutsHold' = Total(g)
    BY DEF PayoutsHold
  <2> HIDE DEF f, g, a, part
  <2>5. Total(f) = Total(g) + Total(a)
    BY <1>1, <2>2, <2>3, TotalAdds, SMTT(60)
  <2>6. Total(a) = Total(part)
    BY <1>1, <1>11, <2>2, TotalExtends
  <2> QED BY <2>4, <2>5, <2>6
<1>14. ASSUME NEW l \in Lot, Unspent(l) = {} PROVE Unspent(l)' = {}
  <2>1. \A q \in Place : q \notin Gone => money[l][q] = 0
    BY <1>2, <1>14 DEF Unspent
  <2>2. Got(l) = 0
    <3> DEFINE f == [p \in ps |-> money[l][p]]
    <3>1. f \in [ps -> Int] /\ \A p \in ps : f[p] = 0
      BY <1>1, <2>1, PlaceFacts DEF Gone
    <3> HIDE DEF f
    <3>2. Total(f) = 0
      BY <1>1, <3>1, TotalZero
    <3> QED BY <3>2 DEF f, Got
  <2>3. \A q \in Place : q \notin Gone => money'[l][q] = 0
    BY <1>1, <1>5, <2>1, <2>2 DEF Gone
  <2> QED BY <2>3 DEF Unspent
<1> QED BY <1>6, <1>7, <1>8, <1>9, <1>10, <1>12, <1>13, <1>14

\* Both ways to withdraw: the payouts ps end, their amounts are available again.
LEMMA WithdrawalsKeepMoney ==
  ASSUME MoneyInv, NEW ps \in SUBSET Payout, \A p \in ps : payout[p].status \in Holding,
         money' = Withdrawn(money, ps),
         head' = Moved(head, "payout_pending", "available", Total([p \in ps |-> payout[p].amount])),
         payout' \in [Payout -> [status : Holding \cup {"none", "paid", "withdrawn"}, amount : Nat]],
         \A p \in Payout : /\ payout'[p].amount = payout[p].amount
                           /\ payout'[p].status = IF p \in ps THEN "withdrawn" ELSE payout[p].status,
         UNCHANGED <<stage, candidates, exposure, liquidity, refund, verdict, overlap>>,
         dispute' \in [Lot -> {"none", "locking", "provisional_loss"}],
         \A l \in Lot : /\ dispute'[l] # "none" => dispute[l] # "none"
                        /\ dispute[l] = "provisional_loss" => dispute'[l] = "provisional_loss",
         victims' \subseteq victims, victims' \cap ps = {}
  PROVE  MoneyInv'
<1> USE DEF MoneyInv
<1> DEFINE S == Total([p \in ps |-> Held(p)])
<1>1. /\ money' \in [Lot -> [Place -> Nat]]
      /\ \A l \in Lot : Total(money'[l]) = Total(money[l])
      /\ \A q \in Place : q \notin ps /\ q # "available" =>
           Held(q)' = Held(q) /\ \A l \in Lot : money'[l][q] = money[l][q]
      /\ \A q \in ps : Held(q)' = 0 /\ \A l \in Lot : money'[l][q] = 0
      /\ Held("available")' = Held("available") + S
      /\ PayoutsHold = PayoutsHold' + S
      /\ S \in Nat
      /\ \A l \in Lot : Unspent(l) = {} => Unspent(l)' = {}
  BY MoneyReturns
<1>2. S = Total([p \in ps |-> payout[p].amount])
  <2>1. \A p \in ps : Held(p) = payout[p].amount
    BY DEF CoveredByLots
  <2>2. [p \in ps |-> Held(p)] = [p \in ps |-> payout[p].amount]
    BY <2>1
  <2> QED BY <2>2
<1> HIDE DEF S
<1>3. /\ Rows /\ \A q \in Place : Held(q) \in Int
      /\ \A q \in {"root", "pending", "reserved"} : q \in Place /\ q \notin ps /\ q # "available"
      /\ \A r \in Refund : r \in Place /\ r \notin ps /\ r # "available"
      /\ \A p \in Payout : p \in Place /\ p # "available"
  BY HeldTypes, PlaceFacts
<1>4. RefundsHold' = RefundsHold
  BY <1>1, <1>3, HoldersStay
<1>5. HeadMatches' /\ head' \in [Balance -> Int]
  <2>1. head \in [Balance -> Int]
    BY DEF Rows
  <2>2. /\ head' \in [Balance -> Int] /\ head'["pending"] = head["pending"]
        /\ head'["available"] = head["available"] + S /\ head'["reserved"] = head["reserved"]
        /\ head'["payout_pending"] = head["payout_pending"] - S
        /\ head'["refund_pending"] = head["refund_pending"]
    BY <1>1, <1>2, <2>1 DEF Moved, Balance
  <2>3. /\ Held("root")' = Held("root") /\ Held("pending")' = Held("pending")
        /\ Held("reserved")' = Held("reserved")
    BY <1>1, <1>3
  <2>4. PayoutsHold' \in Int
    <3> DEFINE g == [p \in Payout |-> Held(p)']
    <3>1. g \in [Payout -> Int]
      BY <1>1, <1>3, HeldTypesNext
    <3>2. PayoutsHold' = Total(g)
      BY DEF PayoutsHold
    <3> HIDE DEF g
    <3> QED BY <3>1, <3>2, PlaceFacts, TotalTypes
  <2> QED BY <1>1, <1>4, <2>2, <2>3, <2>4 DEF HeadMatches
<1>6. LotsAreWhole'
  <2>1. \A l \in Lot : money'[l]["root"] = money[l]["root"]
    BY <1>1, <1>3
  <2> QED BY <1>1, <2>1 DEF LotsAreWhole
<1>7. CoveredByLots'
  <2>1. ASSUME NEW p \in Payout
        PROVE  Held(p)' = IF payout'[p].status \in Holding THEN payout'[p].amount ELSE 0
    <3>1. CASE p \in ps
      BY <1>1, <3>1 DEF Holding, PreBank
    <3>2. CASE p \notin ps
      BY <1>1, <1>3, <3>2 DEF CoveredByLots
    <3> QED BY <3>1, <3>2
  <2> QED BY <2>1 DEF CoveredByLots
<1>8. ExposureFollows'
  <2>1. ASSUME NEW p \in ps
        PROVE  exposure[p] # "paid_unreflected" /\ payout'[p].status = "withdrawn"
    BY DEF ExposureFollows, Holding, PreBank
  <2> QED BY <2>1 DEF ExposureFollows
<1>9. BankCovers'
  BY BankStays
<1>10. LostIsSpent'
  BY <1>1 DEF LostIsSpent, Rows
<1>11. ClaimsStand'
  BY DEF ClaimsStand, Rows
<1>12. Rows'
  BY <1>1, <1>5 DEF Rows
<1> QED BY <1>5, <1>6, <1>7, <1>8, <1>9, <1>10, <1>11, <1>12

LEMMA ReturnsKeepMoney ==
  ASSUME MoneyInv, NEW p \in Payout, WithdrawPayout(p)
  PROVE  MoneyInv'
<1> USE DEF payoutVars, disputeVars, MoneyInv
<1>1. /\ payout[p].status \in Holding /\ p \notin victims /\ To(p, "withdrawn")
      /\ money' = Withdrawn(money, {p})
      /\ head' = Moved(head, "payout_pending", "available", payout[p].amount)
      /\ UNCHANGED <<stage, candidates, exposure, liquidity, refund, dispute, victims, verdict, overlap>>
  BY DEF WithdrawPayout, Locked
<1> DEFINE ps == {p}
<1>2. ps \in SUBSET Payout /\ \A x \in ps : payout[x].status \in Holding
  BY <1>1
<1>3. /\ payout' \in [Payout -> [status : Holding \cup {"none", "paid", "withdrawn"}, amount : Nat]]
      /\ \A x \in Payout : /\ payout'[x].amount = payout[x].amount
                           /\ payout'[x].status = IF x = p THEN "withdrawn" ELSE payout[x].status
  BY <1>1, StatusMoves
<1>4. Total([x \in ps |-> payout[x].amount]) = payout[p].amount
  <2> DEFINE f == [x \in ps |-> payout[x].amount]
  <2>1. f \in [ps -> Int] /\ f[p] = payout[p].amount /\ p \in ps /\ \A y \in ps : y # p => f[y] = 0
    BY DEF Rows
  <2>2. IsFiniteSet(ps)
    BY FS_Singleton
  <2> HIDE DEF f, ps
  <2>3. Total(f) = f[p]
    BY <2>1, <2>2, TotalPoint
  <2> QED BY <2>1, <2>3 DEF f
<1>5. \A x \in Payout : payout'[x].status = IF x \in ps THEN "withdrawn" ELSE payout[x].status
  BY <1>3
<1>6. victims' \subseteq victims /\ victims' \cap ps = {}
      /\ dispute' \in [Lot -> {"none", "locking", "provisional_loss"}]
  BY <1>1 DEF Rows
<1>7. money' = Withdrawn(money, ps)
      /\ head' = Moved(head, "payout_pending", "available", Total([x \in ps |-> payout[x].amount]))
  BY <1>1, <1>4
<1> HIDE DEF ps, MoneyInv
<1> QED BY <1>1, <1>2, <1>3, <1>5, <1>6, <1>7, WithdrawalsKeepMoney

LEMMA NoticesKeepMoney ==
  ASSUME MoneyInv, NEW l \in Lot, CommitNotice(l)
  PROVE  MoneyInv'
<1> USE DEF payoutVars, disputeVars, MoneyInv
<1>1. /\ dispute[l] = "locking" /\ dispute' = [dispute EXCEPT ![l] = "provisional_loss"]
      /\ victims' = {}
      /\ payout' = [p \in Payout |-> IF p \in victims THEN [payout[p] EXCEPT !.status = "withdrawn"]
                                     ELSE payout[p]]
      /\ money' = Withdrawn(money, victims)
      /\ head' = Moved(head, "payout_pending", "available", Total([p \in victims |-> payout[p].amount]))
      /\ UNCHANGED <<stage, candidates, exposure, liquidity, refund, verdict, overlap>>
  BY DEF CommitNotice
<1>2. victims \in SUBSET Payout /\ \A p \in victims : payout[p].status \in Holding
  BY DEF Rows, ClaimsStand, Holding
<1>3. /\ payout' \in [Payout -> [status : Holding \cup {"none", "paid", "withdrawn"}, amount : Nat]]
      /\ \A p \in Payout : /\ payout'[p].amount = payout[p].amount
                           /\ payout'[p].status = IF p \in victims THEN "withdrawn" ELSE payout[p].status
  BY <1>1 DEF Rows
<1>4. /\ victims' \subseteq victims /\ victims' \cap victims = {}
      /\ dispute' \in [Lot -> {"none", "locking", "provisional_loss"}]
      /\ \A k \in Lot : /\ dispute'[k] # "none" => dispute[k] # "none"
                        /\ dispute[k] = "provisional_loss" => dispute'[k] = "provisional_loss"
  BY <1>1 DEF Rows
<1> HIDE DEF MoneyInv
<1> QED BY <1>1, <1>2, <1>3, <1>4, WithdrawalsKeepMoney

-------------------------------------------------------------------------------
(***************************************************************************)
(* Refunds.                                                                *)
(***************************************************************************)
\* A refund case changes; no claim of another one is touched.
LEMMA ApprovalsKeepMoney ==
  ASSUME MoneyInv, NEW r \in Refund, NEW l \in Lot, ApproveRefund(r, l)
  PROVE  MoneyInv'
<1> USE DEF payoutVars, disputeVars, MoneyInv
<1> DEFINE w(take) == [q \in Place |->
             CASE q = r -> Total(take)
               [] q = "root" -> IF take["root"] > 0 THEN 0 ELSE money[l]["root"]
               [] q = "pending" -> money[l]["pending"] - take["pending"]
                                   + (IF take["root"] > 0 THEN money[l]["root"] - take["root"] ELSE 0)
               [] q \in {"available", "reserved"} -> money[l][q] - take[q]
               [] OTHER -> money[l][q]]
<1>1. PICK take \in Shares([q \in Owed |-> money[l][q]]) :
        /\ money' = [money EXCEPT ![l] = w(take)]
        /\ head' = [b \in Balance |->
             CASE b = "pending" -> head[b] - take["root"] - take["pending"]
               [] b \in {"available", "reserved"} -> head[b] - take[b]
               [] b = "refund_pending" -> head[b] + Total(take)
               [] OTHER -> head[b]]
  BY DEF ApproveRefund, Rows
<1>2. /\ stage[l] # "none" /\ money[l][r] = 0 /\ refund[r].status = "none"
      /\ refund' = [refund EXCEPT ![r] = [status |-> "approved", lot |-> l]]
      /\ UNCHANGED <<stage, candidates, payout, exposure, liquidity, dispute, victims, verdict, overlap>>
  BY DEF ApproveRefund, Refundable
<1>3. /\ Rows /\ money[l] \in [Place -> Nat] /\ r \in Place /\ r \notin Owed /\ r \notin Gone
      /\ "root" \in Place /\ "pending" \in Place /\ "available" \in Place /\ "reserved" \in Place
      /\ r \notin {"root", "pending", "available", "reserved"}
      /\ Owed = {"root", "pending", "available", "reserved"}
      /\ Payable[l] \in Nat
  BY PlaceFacts DEF Rows, Owed, Gone
<1>4. take \in [Owed -> Nat] /\ (\A q \in Owed : take[q] <= money[l][q]) /\ Total(take) > 0
  <2> DEFINE limit == [q \in Owed |-> money[l][q]]
  <2>1. take \in [Owed -> 0 .. Total(limit)] /\ Total(take) > 0 /\ \A q \in Owed : take[q] <= money[l][q]
    BY DEF Shares
  <2> HIDE DEF limit
  <2> QED BY <2>1
<1> DEFINE t == take["root"]
           n == take["pending"]
           a == take["available"]
           v == take["reserved"]
           T == Total(take)
           W == w(take)
<1>5. T = t + n + a + v
  BY <1>4, TakeTotal
<1>6. /\ t \in Nat /\ n \in Nat /\ a \in Nat /\ v \in Nat /\ T \in Nat /\ T > 0
      /\ t <= money[l]["root"] /\ n <= money[l]["pending"]
      /\ a <= money[l]["available"] /\ v <= money[l]["reserved"]
  <2>1. t \in Nat /\ n \in Nat /\ a \in Nat /\ v \in Nat
    BY <1>3, <1>4
  <2>2. /\ t <= money[l]["root"] /\ n <= money[l]["pending"]
        /\ a <= money[l]["available"] /\ v <= money[l]["reserved"]
    BY <1>3, <1>4
  <2> HIDE DEF t, n, a, v
  <2>3. T \in Nat
    BY <1>5, <2>1
  <2> QED BY <1>4, <2>1, <2>2, <2>3
<1>7. /\ \A q \in Place : W[q] =
             CASE q = r -> T
               [] q = "root" -> IF t > 0 THEN 0 ELSE money[l]["root"]
               [] q = "pending" -> money[l]["pending"] - n + (IF t > 0 THEN money[l]["root"] - t ELSE 0)
               [] q \in {"available", "reserved"} -> money[l][q] - take[q]
               [] OTHER -> money[l][q]
      /\ W = [q \in Place |-> W[q]]
  OBVIOUS
<1>8. /\ head'["pending"] = head["pending"] - t - n /\ head'["available"] = head["available"] - a
      /\ head'["reserved"] = head["reserved"] - v /\ head'["refund_pending"] = head["refund_pending"] + T
      /\ head'["payout_pending"] = head["payout_pending"]
  BY <1>1 DEF Balance
<1>9. head' \in [Balance -> Int]
  <2>1. head \in [Balance -> Int] /\ take["available"] \in Int /\ take["reserved"] \in Int
        /\ Total(take) \in Int /\ take["root"] \in Int /\ take["pending"] \in Int
    BY <1>6 DEF Rows
  <2>2. head' = [b \in Balance |-> head'[b]]
    BY <1>1
  <2>3. ASSUME NEW b \in Balance PROVE head'[b] \in Int
    <3>1. head[b] \in Int
      BY <2>1
    <3>2. b \in {"pending", "available", "reserved", "payout_pending", "refund_pending"}
      BY DEF Balance
    <3>3. head["pending"] \in Int /\ head["available"] \in Int /\ head["reserved"] \in Int
          /\ head["payout_pending"] \in Int /\ head["refund_pending"] \in Int
      BY <2>1 DEF Balance
    <3> QED BY <1>6, <1>8, <3>2, <3>3
  <2> QED BY <2>2, <2>3
<1>10. money' = [money EXCEPT ![l] = W]
  BY <1>1
<1> HIDE DEF W, w, T
<1>11. /\ W[r] = T /\ W["root"] = (IF t > 0 THEN 0 ELSE money[l]["root"])
       /\ W["pending"] = money[l]["pending"] - n + (IF t > 0 THEN money[l]["root"] - t ELSE 0)
       /\ W["available"] = money[l]["available"] - a /\ W["reserved"] = money[l]["reserved"] - v
       /\ \A q \in Place : q # r /\ q \notin Owed => W[q] = money[l][q]
  <2>1. W["root"] = (IF t > 0 THEN 0 ELSE money[l]["root"])
    BY <1>3, <1>7
  <2>2. W["pending"] = money[l]["pending"] - n + (IF t > 0 THEN money[l]["root"] - t ELSE 0)
    BY <1>3, <1>7
  <2>3. W["available"] = money[l]["available"] - a /\ W["reserved"] = money[l]["reserved"] - v
    BY <1>3, <1>7
  <2>4. W[r] = T
    BY <1>3, <1>7
  <2>5. ASSUME NEW q \in Place, q # r, q \notin Owed PROVE W[q] = money[l][q]
    BY <1>3, <1>7, <2>5
  <2> QED BY <2>1, <2>2, <2>3, <2>4, <2>5
<1> HIDE DEF t, n, a, v
<1>12. /\ money[l]["root"] \in Nat /\ money[l]["pending"] \in Nat
       /\ money[l]["available"] \in Nat /\ money[l]["reserved"] \in Nat
  BY <1>3
<1>13. W \in [Place -> Nat]
  <2>1. /\ W["root"] \in Nat /\ W["pending"] \in Nat /\ W["available"] \in Nat /\ W["reserved"] \in Nat
        /\ W[r] \in Nat
    BY <1>6, <1>11, <1>12
  <2>2. ASSUME NEW q \in Place PROVE W[q] \in Nat
    BY <1>3, <1>11, <2>1
  <2> QED BY <1>7, <2>2
<1>14. /\ money' \in [Lot -> [Place -> Nat]]
       /\ money'[l] = W /\ \A k \in Lot : k # l => money'[k] = money[k]
       /\ \A q \in Place : Held(q)' = Held(q) - money[l][q] + W[q]
  BY <1>3, <1>10, <1>13, OneLotMoves
<1>15. \A q \in Place : Held(q) \in Int /\ money[l][q] \in Nat
  BY <1>3, HeldTypes
<1>16. /\ Held("root")' + Held("pending")' = Held("root") + Held("pending") - t - n
       /\ Held("available")' = Held("available") - a /\ Held("reserved")' = Held("reserved") - v
       /\ Held(r)' = Held(r) + T
       /\ \A q \in Place : q # r /\ q \notin Owed => Held(q)' = Held(q)
  <2>1. /\ Held("root")' = Held("root") - money[l]["root"] + W["root"]
        /\ Held("pending")' = Held("pending") - money[l]["pending"] + W["pending"]
        /\ Held("root") \in Int /\ Held("pending") \in Int
    BY <1>3, <1>14, <1>15
  <2>2. Held("root")' + Held("pending")' = Held("root") + Held("pending") - t - n
    BY <1>6, <1>11, <1>12, <2>1
  <2>3. Held("available")' = Held("available") - a /\ Held("reserved")' = Held("reserved") - v
    BY <1>3, <1>6, <1>11, <1>12, <1>14, <1>15
  <2>4. Held(r)' = Held(r) + T
    BY <1>2, <1>3, <1>6, <1>11, <1>14, <1>15
  <2>5. ASSUME NEW q \in Place, q # r, q \notin Owed PROVE Held(q)' = Held(q)
    BY <1>11, <1>14, <1>15, <2>5
  <2> QED BY <2>2, <2>3, <2>4, <2>5
<1>17. /\ RefundsHold' = RefundsHold + T /\ PayoutsHold' = PayoutsHold
       /\ \A p \in Payout : Held(p)' = Held(p) /\ p # r
  <2>1. \A x \in Refund : x # r => Held(x)' = Held(x)
    BY <1>16, PlaceFacts DEF Owed
  <2>2. RefundsHold' = RefundsHold - Held(r) + Held(r)'
    BY <1>3, <1>14, <2>1, RefundsHoldMore
  <2>3. RefundsHold \in Nat /\ Held(r) \in Int
    BY <1>3, <1>15, HeldSums
  <2>4. \A p \in Payout : Held(p)' = Held(p) /\ p # r
    BY <1>16, PlaceFacts DEF Owed
  <2> QED BY <1>6, <1>16, <2>2, <2>3, <2>4, HoldersStay
<1>18. HeadMatches'
  <2>1. /\ Held("root") \in Int /\ Held("pending") \in Int
    BY <1>3, <1>15
  <2> QED BY <1>6, <1>8, <1>16, <1>17, <2>1 DEF HeadMatches
<1>19. LotsAreWhole'
  <2>1. /\ Total(W) = Total(money[l]) - money[l]["root"] - money[l]["pending"] - money[l]["available"]
                      - money[l]["reserved"] - money[l][r]
                      + W["root"] + W["pending"] + W["available"] + W["reserved"] + W[r]
        /\ Total(money[l]) \in Int
    <3>1. money[l] \in [Place -> Int] /\ W \in [Place -> Int]
      BY <1>3, <1>13
    <3> QED BY <1>3, <1>11, <3>1, OwedPlaces
  <2>2. Total(W) = Total(money[l])
    BY <1>2, <1>5, <1>6, <1>11, <1>12, <2>1 DEF t, n, a, v, T
  <2>3. W["root"] \in {0, Payable[l]}
    BY <1>11 DEF LotsAreWhole
  <2> QED BY <1>2, <1>14, <2>2, <2>3 DEF LotsAreWhole
<1>20. CoveredByLots' /\ ExposureFollows'
  BY <1>2, <1>17 DEF CoveredByLots, ExposureFollows
<1>21. BankCovers'
  BY <1>2, BankStays
<1>22. LostIsSpent'
  <2>1. Unspent(l) # {}
    <3>1. \E q \in Owed : money[l][q] > 0
      BY <1>3, <1>5, <1>6, <1>12
    <3> QED BY <1>3, <3>1, PlaceFacts DEF Unspent, Gone
  <2> QED BY <1>2, <1>14, <2>1 DEF LostIsSpent, Unspent
<1>23. refund' \in [Refund -> [status : {"none", "approved", "succeeded"}, lot : Lot \cup {"none"}]] /\ ClaimsStand'
  BY <1>2 DEF Rows, ClaimsStand
<1>24. Rows'
  BY <1>2, <1>9, <1>14, <1>23 DEF Rows
<1> QED BY <1>18, <1>19, <1>20, <1>21, <1>22, <1>23, <1>24

LEMMA RefundsKeepMoney ==
  ASSUME MoneyInv, NEW r \in Refund, ConfirmRefund(r)
  PROVE  MoneyInv'
<1> USE DEF payoutVars, disputeVars, MoneyInv
<1> DEFINE l == refund[r].lot
           w == [money[l] EXCEPT !["refunded"] = @ + money[l][r], ![r] = 0]
<1>1. /\ refund[r].status = "approved" /\ refund' = [refund EXCEPT ![r].status = "succeeded"]
      /\ money' = [money EXCEPT ![l]["refunded"] = @ + money[l][r], ![l][r] = 0]
      /\ head' = Moved(head, "refund_pending", "", money[l][r])
      /\ UNCHANGED <<stage, candidates, payout, exposure, liquidity, dispute, victims, verdict, overlap>>
  BY DEF ConfirmRefund
<1>2. l \in Lot
  BY <1>1 DEF ClaimsStand
<1>3. refund' \in [Refund -> [status : {"none", "approved", "succeeded"}, lot : Lot \cup {"none"}]] /\ ClaimsStand'
  BY <1>1 DEF Rows, ClaimsStand
<1> HIDE DEF l
<1>4. /\ Rows /\ money[l] \in [Place -> Nat] /\ r \in Place /\ "refunded" \in Place /\ r # "refunded"
      /\ money[l][r] \in Nat /\ money[l]["refunded"] \in Nat
  BY <1>2, PlaceFacts DEF Rows
<1>5. money' = [money EXCEPT ![l] = w]
  BY <1>1, <1>2, <1>4 DEF Rows
<1>6. /\ w \in [Place -> Nat] /\ w[r] = 0 /\ w["refunded"] = money[l]["refunded"] + money[l][r]
      /\ \A q \in Place : q # r /\ q # "refunded" => w[q] = money[l][q]
  BY <1>4
<1> HIDE DEF w
<1>7. /\ money' \in [Lot -> [Place -> Nat]]
      /\ money'[l] = w /\ \A k \in Lot : k # l => money'[k] = money[k]
      /\ \A q \in Place : Held(q)' = Held(q) - money[l][q] + w[q]
  BY <1>2, <1>4, <1>5, <1>6, OneLotMoves
<1>8. \A q \in Place : Held(q) \in Int /\ money[l][q] \in Nat
  BY <1>2, <1>4, HeldTypes
<1>9. /\ Held(r)' = Held(r) - money[l][r]
      /\ \A q \in Place : q # r /\ q # "refunded" => Held(q)' = Held(q)
  BY <1>4, <1>6, <1>7, <1>8
<1>10. /\ RefundsHold' = RefundsHold - money[l][r] /\ PayoutsHold' = PayoutsHold
       /\ \A p \in Payout : Held(p)' = Held(p)
  <2>1. \A x \in Refund : x # r => Held(x)' = Held(x)
    BY <1>9, PlaceFacts
  <2>2. RefundsHold' = RefundsHold - Held(r) + Held(r)'
    BY <1>4, <1>7, <2>1, RefundsHoldMore
  <2>3. RefundsHold \in Nat /\ Held(r) \in Int
    BY <1>4, <1>8, HeldSums
  <2>4. \A p \in Payout : Held(p)' = Held(p)
    BY <1>9, PlaceFacts
  <2> QED BY <1>4, <1>9, <2>2, <2>3, <2>4, HoldersStay
<1>11. HeadMatches' /\ head' \in [Balance -> Int]
  <2>1. head \in [Balance -> Int]
    BY DEF Rows
  <2>2. /\ head' \in [Balance -> Int] /\ head'["pending"] = head["pending"]
        /\ head'["available"] = head["available"] /\ head'["reserved"] = head["reserved"]
        /\ head'["payout_pending"] = head["payout_pending"]
        /\ head'["refund_pending"] = head["refund_pending"] - money[l][r]
    BY <1>1, <1>4, <2>1 DEF Moved, Balance
  <2>3. /\ Held("root")' = Held("root") /\ Held("pending")' = Held("pending")
        /\ Held("available")' = Held("available") /\ Held("reserved")' = Held("reserved")
    BY <1>9, PlaceFacts
  <2> QED BY <1>10, <2>2, <2>3 DEF HeadMatches
<1>12. LotsAreWhole'
  <2>1. Total(w) = Total(money[l]) - money[l]["refunded"] - money[l][r] + w["refunded"] + w[r]
        /\ Total(money[l]) \in Int
    <3>1. money[l] \in [Place -> Int] /\ w \in [Place -> Int]
      BY <1>4, <1>6
    <3> QED BY <1>4, <1>6, <3>1, TwoPlaces
  <2>2. Total(w) = Total(money[l])
    BY <1>4, <1>6, <2>1
  <2>3. w["root"] = money[l]["root"]
    BY <1>6, PlaceFacts
  <2> QED BY <1>1, <1>2, <1>7, <2>2, <2>3 DEF LotsAreWhole
<1>13. CoveredByLots' /\ ExposureFollows'
  BY <1>1, <1>10 DEF CoveredByLots, ExposureFollows
<1>14. BankCovers'
  BY <1>1, BankStays
<1>15. LostIsSpent'
  <2>1. \A k \in Lot : Unspent(k) = {} => Unspent(k)' = {}
    BY <1>4, <1>6, <1>7 DEF Unspent, Gone
  <2> QED BY <1>1, <2>1 DEF LostIsSpent
<1>16. Rows'
  BY <1>1, <1>3, <1>7, <1>11 DEF Rows
<1> QED BY <1>3, <1>11, <1>12, <1>13, <1>14, <1>15, <1>16

-------------------------------------------------------------------------------
(***************************************************************************)
(* The wallet starts empty.                                                *)
(***************************************************************************)
LEMMA WalletStarts == Init => MoneyInv
<1> SUFFICES ASSUME Init PROVE MoneyInv
  OBVIOUS
<1> USE DEF Init, payoutVars, disputeVars
<1>1. /\ money \in [Lot -> [Place -> Nat]]
      /\ \A l \in Lot : money[l] \in [Place -> Int] /\ \A q \in Place : money[l][q] = 0
  BY DEF payoutVars
<1>2. Rows
  BY <1>1, PlaceFacts DEF Rows, Holding, PreBank
<1>3. ASSUME NEW q \in Place PROVE Held(q) = 0
  <2> DEFINE f == [l \in Lot |-> money[l][q]]
  <2>1. f \in [Lot -> Int] /\ \A l \in Lot : f[l] = 0
    BY <1>1
  <2> HIDE DEF f
  <2>2. Total(f) = 0
    BY <2>1, PlaceFacts, TotalZero
  <2> QED BY <2>2 DEF f, Held
<1>4. PayoutsHold = 0 /\ RefundsHold = 0
  <2> DEFINE f == [p \in Payout |-> Held(p)]
             g == [r \in Refund |-> Held(r)]
  <2>1. /\ f \in [Payout -> Int] /\ \A p \in Payout : f[p] = 0
        /\ g \in [Refund -> Int] /\ \A r \in Refund : g[r] = 0
    BY <1>3, PlaceFacts
  <2>2. PayoutsHold = Total(f) /\ RefundsHold = Total(g)
    BY DEF PayoutsHold, RefundsHold
  <2> HIDE DEF f, g
  <2>3. Total(f) = 0
    BY <2>1, PlaceFacts, TotalZero
  <2>4. Total(g) = 0
    BY <2>1, PlaceFacts, TotalZero
  <2> QED BY <2>2, <2>3, <2>4
<1>5. HeadMatches
  BY <1>3, <1>4, PlaceFacts DEF HeadMatches, Balance
<1>6. LotsAreWhole
  <2>1. \A l \in Lot : Total(money[l]) = 0 /\ money[l]["root"] = 0
    BY <1>1, PlaceFacts, TotalZero
  <2> QED BY <2>1 DEF LotsAreWhole
<1>7. CoveredByLots
  BY <1>3, PlaceFacts DEF CoveredByLots, Holding, PreBank
<1>8. ExposureFollows
  BY DEF ExposureFollows
<1>9. BankCovers
  <2> DEFINE f == [p \in Payout |-> IF exposure[p] = "none" THEN 0 ELSE payout[p].amount]
  <2>1. f \in [Payout -> Int] /\ \A p \in Payout : f[p] = 0
    OBVIOUS
  <2>2. Exposed = Total(f)
    BY DEF Exposed
  <2> HIDE DEF f
  <2>3. Total(f) = 0
    BY <2>1, PlaceFacts, TotalZero
  <2> QED BY <2>2, <2>3, PlaceFacts DEF BankCovers
<1>10. LostIsSpent /\ ClaimsStand
  BY DEF LostIsSpent, ClaimsStand
<1> QED BY <1>2, <1>5, <1>6, <1>7, <1>8, <1>9, <1>10 DEF MoneyInv

LEMMA StepsKeepMoney == MoneyInv /\ [Next]_vars => MoneyInv'
<1> SUFFICES ASSUME MoneyInv, [Next]_vars PROVE MoneyInv'
  OBVIOUS
<1>1. CASE UNCHANGED vars
  BY <1>1, IdleStepsKeepMoney
<1>2. CASE ReadCandidates \/ ReleaseStops
  BY <1>2, IdleStepsKeepMoney
<1>3. ASSUME NEW l \in Lot, Capture(l) \/ HoldEnds(l) \/ ReleaseOneRoot(l) PROVE MoneyInv'
  BY <1>3, IdleStepsKeepMoney, CapturesKeepMoney, ReleasesKeepMoney
<1>4. ASSUME NEW p \in Payout,
             \/ RequestPayout(p) \/ BeginReview(p) \/ ApprovePayout(p) \/ StartExecution(p)
             \/ ConfirmPaid(p) \/ WithdrawPayout(p)
      PROVE  MoneyInv'
  BY <1>4, RequestsKeepMoney, ReviewsKeepMoney, PaymentsKeepMoney, ReturnsKeepMoney
<1>5. ASSUME NEW r \in Refund, ConfirmRefund(r) \/ \E l \in Lot : ApproveRefund(r, l) PROVE MoneyInv'
  BY <1>5, RefundsKeepMoney, ApprovalsKeepMoney
<1>6. ASSUME NEW l \in Lot, ReceiveNotice(l) \/ CommitNotice(l) \/ AbortNotice(l) \/ ResolveChargeback(l)
      PROVE  MoneyInv'
  BY <1>6, IdleStepsKeepMoney, NoticesKeepMoney
<1> QED BY <1>1, <1>2, <1>3, <1>4, <1>5, <1>6 DEF Next

LEMMA MoneyIsKept == Spec => []MoneyInv
  BY WalletStarts, StepsKeepMoney, PTL DEF Spec

LEMMA MoneyBounds ==
  ASSUME MoneyInv
  PROVE  /\ \A l \in Lot : money[l] \in [Place -> 0 .. Payable[l]]
         /\ head \in [Balance -> Nat] /\ liquidity \in 0 .. Liquidity
<1> USE DEF MoneyInv
<1>1. ASSUME NEW l \in Lot PROVE money[l] \in [Place -> 0 .. Payable[l]]
  <2>1. money[l] \in [Place -> Nat] /\ Payable[l] \in Nat
    BY PlaceFacts DEF Rows
  <2>2. Total(money[l]) <= Payable[l]
    BY <2>1 DEF LotsAreWhole
  <2>3. ASSUME NEW q \in Place PROVE money[l][q] \in 0 .. Payable[l]
    <3>1. money[l][q] \in Nat /\ money[l][q] <= Total(money[l]) /\ Total(money[l]) \in Nat
      BY <2>1, PlacesFit
    <3> QED BY <2>1, <2>2, <3>1
  <2> QED BY <2>1, <2>3
<1>2. head \in [Balance -> Nat]
  <2>1. /\ Held("root") \in Nat /\ Held("pending") \in Nat /\ Held("available") \in Nat /\ Held("reserved") \in Nat
        /\ PayoutsHold \in Nat /\ RefundsHold \in Nat
    BY HeldTypes, HeldSums, PlaceFacts
  <2>2. /\ head["pending"] \in Nat /\ head["available"] \in Nat /\ head["reserved"] \in Nat
        /\ head["payout_pending"] \in Nat /\ head["refund_pending"] \in Nat
    BY <2>1 DEF HeadMatches
  <2>3. \A b \in Balance : head[b] \in Nat
    BY <2>2 DEF Balance
  <2> QED BY <2>3 DEF Rows
<1>3. liquidity \in 0 .. Liquidity
  <2> DEFINE f == [p \in Payout |-> IF exposure[p] = "none" THEN 0 ELSE payout[p].amount]
  <2>1. f \in [Payout -> Nat]
    BY DEF Rows
  <2>2. Exposed = Total(f)
    BY DEF Exposed
  <2> HIDE DEF f
  <2>3. Exposed \in Nat
    BY <2>1, <2>2, PlaceFacts, TotalNat
  <2> QED BY <2>3, PlaceFacts DEF BankCovers, Rows
<1> QED BY <1>1, <1>2, <1>3

\* The rows of the wallet always have their types: no balance and no lot is ever
\* negative, no lot holds more than its sale brought, and the bank's liquidity
\* stays between nothing and what the snapshot left.
THEOREM WalletTypes == Spec => []TypeOK
<1>1. MoneyInv => TypeOK
  BY MoneyBounds DEF MoneyInv, Rows, TypeOK
<1> QED BY <1>1, MoneyIsKept, PTL

\* For any number of sales, payouts and refunds and any amounts: the balances in
\* the wallet head are the sums over the lots, and what a captured sale brought is
\* all in one place or another.
THEOREM BalancesAreTheLots == Spec => []BalancesMatchLots
<1>1. MoneyInv => BalancesMatchLots
  BY DEF MoneyInv, HeadMatches, LotsAreWhole, LostIsSpent, BalancesMatchLots, PayoutsHold, RefundsHold
<1> QED BY <1>1, MoneyIsKept, PTL

\* For any number of payouts: each holds exactly its amount while it is on its
\* way, and the exposures of all that were ever approved fit what the bank had.
THEOREM PayoutsStayCovered == Spec => []PayoutsAreCovered
<1>1. MoneyInv => PayoutsAreCovered
  BY DEF MoneyInv, CoveredByLots, ExposureFollows, BankCovers, PayoutsAreCovered, Exposed
<1> QED BY <1>1, MoneyIsKept, PTL

-------------------------------------------------------------------------------
(***************************************************************************)
(* Disputed money.  Which amounts move is left open: only that nothing is  *)
(* taken from a disputed lot matters.                                      *)
(***************************************************************************)
RowsOK ==
  /\ money = [l \in Lot |-> money[l]]
  /\ \A l \in Lot : money[l] = [q \in Place |-> money[l][q]]
  /\ payout = [p \in Payout |-> payout[p]]
  /\ \A p \in Payout : payout[p] = [status |-> payout[p].status, amount |-> payout[p].amount]
  /\ dispute = [l \in Lot |-> dispute[l]]
  /\ overlap = [l \in Lot |-> overlap[l]]
  /\ victims \subseteq Payout

\* One chargeback at a time is being recorded ...
OneNotice == \A l, k \in Lot : dispute[l] = "locking" /\ dispute[k] = "locking" => l = k

\* ... and all that holds its money has been locked or has been requested since.
LockedOrLater ==
  \A l \in Lot : dispute[l] = "locking" => Affected(l) \subseteq victims \cup overlap[l]

\* Afterwards, what holds its money has been requested since.
Frozen == \A l \in Lot : dispute[l] = "provisional_loss" => Affected(l) \subseteq overlap[l]

IInv == RowsOK /\ OneNotice /\ LockedOrLater /\ Frozen

-------------------------------------------------------------------------------
LEMMA StartsFrozen == ASSUME Init PROVE IInv
  BY DEF Init, IInv, RowsOK, OneNotice, LockedOrLater, Frozen

LEMMA PlacesDiffer ==
  /\ \A p \in Payout : p \in Place /\ p \notin Owed /\ p \notin Gone /\ p \notin Refund
  /\ \A r \in Refund : r \in Place
  /\ Owed \subseteq Place /\ Gone \subseteq Place
  BY WalletAssumption DEF Place, Owed, Gone

\* No payout comes to hold money of any lot, and no chargeback moves on.
LEMMA NothingJoins ==
  ASSUME IInv, RowsOK', \A l \in Lot : Affected(l)' \subseteq Affected(l),
         UNCHANGED <<dispute, victims, overlap>>
  PROVE  IInv'
  BY DEF IInv, OneNotice, LockedOrLater, Frozen

\* Payouts keep their money, or have none of it, or are past withdrawal.
LEMMA PayoutsOnlyLose ==
  ASSUME \A p \in Payout : payout'[p].status \in PreBank => payout[p].status \in PreBank,
         \A l \in Lot, p \in Payout : money'[l][p] = money[l][p] \/ money'[l][p] = 0
  PROVE  \A l \in Lot : Affected(l)' \subseteq Affected(l)
  BY DEF Affected, PreBank

LEMMA StatusSet ==
  ASSUME RowsOK, NEW p \in Payout, NEW s, To(p, s)
  PROVE  /\ payout' = [q \in Payout |-> payout'[q]]
         /\ \A q \in Payout : /\ payout'[q] = [status |-> payout'[q].status, amount |-> payout'[q].amount]
                              /\ payout'[q].status = IF q = p THEN s ELSE payout[q].status
<1>1. payout' = [q \in Payout |-> IF q = p THEN [payout[q] EXCEPT !.status = s] ELSE payout[q]]
  BY DEF RowsOK, To
<1>2. [payout[p] EXCEPT !.status = s] = [status |-> s, amount |-> payout[p].amount]
  <2>1. PICK a, b : payout[p] = [status |-> a, amount |-> b]
    BY DEF RowsOK
  <2>2. payout[p].amount = b
    BY <2>1
  <2>3. [payout[p] EXCEPT !.status = s] = [status |-> s, amount |-> b]
    BY <2>1
  <2> QED BY <2>2, <2>3
<1> QED BY <1>1, <1>2 DEF RowsOK

LEMMA WithdrawalOnlyLoses ==
  ASSUME NEW ps \in SUBSET Payout, money' = Withdrawn(money, ps)
  PROVE  /\ money' = [l \in Lot |-> money'[l]]
         /\ \A l \in Lot : money'[l] = [q \in Place |-> money'[l][q]]
         /\ \A l \in Lot, p \in Payout : money'[l][p] = IF p \in ps THEN 0 ELSE money[l][p]
<1> DEFINE Got(l) == money[l]["available"] + Total([p \in ps |-> money[l][p]])
<1>1. money' = [l \in Lot |-> [q \in Place |-> IF q \in ps THEN 0
                               ELSE IF q = "available" THEN Got(l) ELSE money[l][q]]]
  BY DEF Withdrawn
<1> HIDE DEF Got
<1>2. "available" \notin Payout
  BY WalletAssumption
<1> QED BY <1>1, <1>2, PlacesDiffer

-------------------------------------------------------------------------------
LEMMA SalesKeepFrozen ==
  ASSUME IInv, NEW l \in Lot, Capture(l) \/ HoldEnds(l) \/ ReleaseOneRoot(l)
  PROVE  IInv'
<1> USE PlacesDiffer DEF Owed
<1>1. CASE Capture(l)
  <2>1. RowsOK' /\ \A k \in Lot, p \in Payout : money'[k][p] = money[k][p]
    BY <1>1 DEF Capture, IInv, RowsOK, payoutVars, disputeVars
  <2> QED BY <1>1, <2>1, NothingJoins, PayoutsOnlyLose DEF Capture, payoutVars, disputeVars
<1>2. CASE HoldEnds(l)
  BY <1>2 DEF HoldEnds, payoutVars, disputeVars, IInv, RowsOK, OneNotice, LockedOrLater,
              Frozen, Affected
<1>3. CASE ReleaseOneRoot(l)
  <2>1. RowsOK' /\ \A k \in Lot, p \in Payout : money'[k][p] = money[k][p]
    <3>1. CASE Eligible(l)
      <4> DEFINE moved == [money[l] EXCEPT !["root"] = 0,
                             !["available"] = @ + Payable[l] - Reserve[l], !["reserved"] = @ + Reserve[l]]
      <4>1. money' = [money EXCEPT ![l] = moved]
        BY <1>3, <3>1 DEF ReleaseOneRoot, IInv, RowsOK
      <4>2. moved = [q \in Place |-> moved[q]] /\ \A p \in Payout : moved[p] = money[l][p]
        BY DEF IInv, RowsOK
      <4> HIDE DEF moved
      <4> QED BY <1>3, <4>1, <4>2 DEF ReleaseOneRoot, IInv, RowsOK, payoutVars, disputeVars
    <3>2. CASE ~Eligible(l)
      BY <1>3, <3>2 DEF ReleaseOneRoot, IInv, RowsOK, payoutVars, disputeVars
    <3> QED BY <3>1, <3>2
  <2> QED BY <1>3, <2>1, NothingJoins, PayoutsOnlyLose DEF ReleaseOneRoot, payoutVars, disputeVars
<1> QED BY <1>1, <1>2, <1>3

LEMMA RequestsKeepFrozen ==
  ASSUME IInv, NEW p \in Payout, RequestPayout(p)
  PROVE  IInv'
<1>1. PICK take \in Shares([l \in Lot |-> MayTake(l)]) :
        /\ payout' = [payout EXCEPT ![p] = [status |-> "requested", amount |-> Total(take)]]
        /\ money' = [l \in Lot |-> [money[l] EXCEPT !["available"] = @ - take[l], ![p] = take[l]]]
  BY DEF RequestPayout
<1>2. \A l \in Lot : dispute[l] = "provisional_loss" => ~(take[l] > 0)
  <2> DEFINE limit == [l \in Lot |-> MayTake(l)]
  <2>1. \A l \in Lot : take[l] \in 0 .. Total(limit) /\ take[l] <= MayTake(l)
    BY DEF Shares
  <2> HIDE DEF limit
  <2> QED BY <2>1 DEF MayTake
<1>3. ASSUME NEW l \in Lot
      PROVE  /\ money'[l] = [q \in Place |-> money'[l][q]]
             /\ \A q \in Payout : money'[l][q] = IF q = p THEN take[l] ELSE money[l][q]
  <2>1. money'[l] = [money[l] EXCEPT !["available"] = @ - take[l], ![p] = take[l]]
    BY <1>1
  <2>2. money[l] = [q \in Place |-> money[l][q]]
    BY DEF IInv, RowsOK
  <2> QED BY <2>1, <2>2, PlacesDiffer DEF Owed
<1>4. RowsOK'
  <2>1. money' = [l \in Lot |-> money'[l]]
    BY <1>1
  <2>2. /\ payout' = [q \in Payout |-> payout'[q]]
        /\ \A q \in Payout : payout'[q] = [status |-> payout'[q].status, amount |-> payout'[q].amount]
    BY <1>1 DEF IInv, RowsOK
  <2>3. overlap' = [l \in Lot |-> overlap'[l]] /\ UNCHANGED <<dispute, victims>>
    BY DEF RequestPayout, disputeVars
  <2> QED BY <1>3, <2>1, <2>2, <2>3 DEF IInv, RowsOK
<1>5. \A l \in Lot, q \in Payout : q \in Affected(l)' /\ q # p => q \in Affected(l)
  <2>1. \A q \in Payout : q # p => payout'[q] = payout[q]
    BY <1>1 DEF IInv, RowsOK
  <2> QED BY <1>3, <2>1 DEF Affected
<1>6. \A l \in Lot : /\ p \in Affected(l)' => dispute[l] # "provisional_loss"
                     /\ overlap'[l] = IF dispute[l] = "locking" THEN overlap[l] \cup {p} ELSE overlap[l]
  BY <1>2, <1>3 DEF Affected, RequestPayout
<1>7. \A l \in Lot : Affected(l)' \subseteq Payout
  BY DEF Affected
<1>8. UNCHANGED <<dispute, victims>>
  BY DEF RequestPayout, disputeVars
<1> QED BY <1>4, <1>5, <1>6, <1>7, <1>8 DEF IInv, OneNotice, LockedOrLater, Frozen

LEMMA PayoutsKeepFrozen ==
  ASSUME IInv, NEW p \in Payout,
         BeginReview(p) \/ ApprovePayout(p) \/ StartExecution(p) \/ ConfirmPaid(p) \/ WithdrawPayout(p)
  PROVE  IInv'
<1> USE DEF IInv, disputeVars
<1>1. CASE BeginReview(p) \/ ApprovePayout(p)
  <2>1. PICK s \in PreBank : payout[p].status \in PreBank /\ To(p, s)
    BY <1>1 DEF BeginReview, ApprovePayout, PreBank
  <2>2. UNCHANGED <<money, dispute, victims, overlap>>
    BY <1>1 DEF BeginReview, ApprovePayout
  <2>3. RowsOK' /\ \A q \in Payout : payout'[q].status \in PreBank => payout[q].status \in PreBank
    <3>1. /\ payout' = [q \in Payout |-> payout'[q]]
          /\ \A q \in Payout : /\ payout'[q] = [status |-> payout'[q].status, amount |-> payout'[q].amount]
                               /\ payout'[q].status = IF q = p THEN s ELSE payout[q].status
      BY <2>1, StatusSet
    <3> QED BY <2>1, <2>2, <3>1 DEF RowsOK
  <2> QED BY <2>2, <2>3, NothingJoins, PayoutsOnlyLose
<1>2. CASE StartExecution(p) \/ ConfirmPaid(p) \/ WithdrawPayout(p)
  <2>1. PICK s : s \notin PreBank /\ To(p, s)
    BY <1>2 DEF StartExecution, ConfirmPaid, WithdrawPayout, PreBank
  <2>2. UNCHANGED <<dispute, victims, overlap>>
    BY <1>2 DEF StartExecution, ConfirmPaid, WithdrawPayout
  <2>3. /\ money' = [l \in Lot |-> money'[l]]
        /\ \A l \in Lot : money'[l] = [q \in Place |-> money'[l][q]]
        /\ \A l \in Lot, q \in Payout : money'[l][q] = money[l][q] \/ money'[l][q] = 0
    <3>1. CASE StartExecution(p)
      BY <3>1 DEF StartExecution, RowsOK
    <3>2. CASE ConfirmPaid(p)
      BY <3>2, PlacesDiffer DEF ConfirmPaid, RowsOK, Gone
    <3>3. CASE WithdrawPayout(p)
      BY <3>3, WithdrawalOnlyLoses DEF WithdrawPayout
    <3> QED BY <1>2, <3>1, <3>2, <3>3
  <2>4. RowsOK' /\ \A q \in Payout : payout'[q].status \in PreBank => payout[q].status \in PreBank
    <3>1. /\ payout' = [q \in Payout |-> payout'[q]]
          /\ \A q \in Payout : /\ payout'[q] = [status |-> payout'[q].status, amount |-> payout'[q].amount]
                               /\ payout'[q].status = IF q = p THEN s ELSE payout[q].status
      BY <2>1, StatusSet
    <3> QED BY <2>1, <2>2, <2>3, <3>1 DEF RowsOK
  <2> QED BY <2>2, <2>3, <2>4, NothingJoins, PayoutsOnlyLose
<1> QED BY <1>1, <1>2

LEMMA RefundsKeepFrozen ==
  ASSUME IInv, NEW r \in Refund, ConfirmRefund(r) \/ \E l \in Lot : ApproveRefund(r, l)
  PROVE  IInv'
<1> USE PlacesDiffer DEF payoutVars, disputeVars
<1>1. UNCHANGED <<payout, dispute, victims, overlap>>
  BY DEF ConfirmRefund, ApproveRefund
<1>2. /\ money' = [l \in Lot |-> money'[l]]
      /\ \A l \in Lot : money'[l] = [q \in Place |-> money'[l][q]]
      /\ \A l \in Lot, q \in Payout : money'[l][q] = money[l][q]
  <2>1. CASE ConfirmRefund(r)
    BY <2>1 DEF ConfirmRefund, IInv, RowsOK, Gone
  <2>2. ASSUME NEW l \in Lot, ApproveRefund(r, l)
        PROVE  <1>2!1 /\ <1>2!2 /\ <1>2!3
    <3>1. PICK take : money' = [money EXCEPT ![l] = [q \in Place |->
            CASE q = r -> Total(take)
              [] q = "root" -> IF take["root"] > 0 THEN 0 ELSE money[l]["root"]
              [] q = "pending" -> money[l]["pending"] - take["pending"]
                                  + (IF take["root"] > 0 THEN money[l]["root"] - take["root"] ELSE 0)
              [] q \in {"available", "reserved"} -> money[l][q] - take[q]
              [] OTHER -> money[l][q]]]
      BY <2>2 DEF ApproveRefund, IInv, RowsOK
    <3>2. PICK w : /\ w = [q \in Place |-> w[q]] /\ money' = [money EXCEPT ![l] = w]
                   /\ \A q \in Place \ ({r} \cup Owed) : w[q] = money[l][q]
      <4> DEFINE w == [q \in Place |->
            CASE q = r -> Total(take)
              [] q = "root" -> IF take["root"] > 0 THEN 0 ELSE money[l]["root"]
              [] q = "pending" -> money[l]["pending"] - take["pending"]
                                  + (IF take["root"] > 0 THEN money[l]["root"] - take["root"] ELSE 0)
              [] q \in {"available", "reserved"} -> money[l][q] - take[q]
              [] OTHER -> money[l][q]]
      <4>1. \A q \in Place \ ({r} \cup Owed) : w[q] = money[l][q]
        BY DEF Owed
      <4>2. w = [q \in Place |-> w[q]] /\ money' = [money EXCEPT ![l] = w]
        BY <3>1
      <4> QED BY <4>1, <4>2
    <3>3. \A q \in Payout : q \in Place \ ({r} \cup Owed)
      BY DEF Owed
    <3>4. money'[l] = w /\ \A k \in Lot : k # l => money'[k] = money[k]
      BY <3>2 DEF IInv, RowsOK
    <3>5. money' = [k \in Lot |-> money'[k]]
      BY <3>2 DEF IInv, RowsOK
    <3> QED BY <3>2, <3>3, <3>4, <3>5 DEF IInv, RowsOK
  <2> QED BY <2>1, <2>2
<1>3. RowsOK'
  BY <1>1, <1>2 DEF IInv, RowsOK
<1> QED BY <1>1, <1>2, <1>3, NothingJoins, PayoutsOnlyLose

-------------------------------------------------------------------------------
LEMMA NoticesKeepFrozen ==
  ASSUME IInv, NEW l \in Lot, ReceiveNotice(l) \/ CommitNotice(l) \/ AbortNotice(l) \/ ResolveChargeback(l)
  PROVE  IInv'
<1> USE DEF IInv, payoutVars, disputeVars
<1>1. CASE ReceiveNotice(l)
  BY <1>1 DEF ReceiveNotice, NoticeInProgress, RowsOK, OneNotice, LockedOrLater, Frozen, Affected
<1>2. CASE CommitNotice(l)
  <2>1. /\ money' = [k \in Lot |-> money'[k]]
        /\ \A k \in Lot : money'[k] = [q \in Place |-> money'[k][q]]
        /\ \A k \in Lot, p \in Payout : money'[k][p] = IF p \in victims THEN 0 ELSE money[k][p]
    <3>1. victims \in SUBSET Payout /\ money' = Withdrawn(money, victims)
      BY <1>2 DEF CommitNotice, RowsOK
    <3> QED BY <3>1, WithdrawalOnlyLoses
  <2>2. /\ payout' = [p \in Payout |-> payout'[p]]
        /\ \A p \in Payout : payout'[p] = IF p \in victims THEN [payout[p] EXCEPT !.status = "withdrawn"]
                                          ELSE payout[p]
    BY <1>2 DEF CommitNotice
  <2>3. ASSUME NEW p \in Payout
        PROVE  /\ payout'[p] = [status |-> payout'[p].status, amount |-> payout'[p].amount]
               /\ payout'[p].status = IF p \in victims THEN "withdrawn" ELSE payout[p].status
    <3>1. PICK a, b : payout[p] = [status |-> a, amount |-> b]
      BY DEF RowsOK
    <3>2. [payout[p] EXCEPT !.status = "withdrawn"] = [status |-> "withdrawn", amount |-> b]
      BY <3>1
    <3> QED BY <2>2, <3>1, <3>2
  <2>4. /\ victims' = {} /\ UNCHANGED overlap
        /\ dispute[l] = "locking" /\ dispute' = [dispute EXCEPT ![l] = "provisional_loss"]
    BY <1>2 DEF CommitNotice
  <2>5. RowsOK'
    BY <2>1, <2>2, <2>3, <2>4 DEF RowsOK
  <2>6. \A k \in Lot : Affected(k)' \subseteq Affected(k) \ victims
    BY <2>1, <2>3 DEF Affected, PreBank
  <2>7. \A k \in Lot : dispute'[k] = IF k = l THEN "provisional_loss" ELSE dispute[k]
    BY <2>4 DEF RowsOK
  <2>8. \A k \in Lot : k # l => dispute[k] # "locking"
    BY <2>4 DEF OneNotice
  <2> QED BY <2>4, <2>5, <2>6, <2>7, <2>8 DEF OneNotice, LockedOrLater, Frozen
<1>3. CASE AbortNotice(l)
  BY <1>3 DEF AbortNotice, RowsOK, OneNotice, LockedOrLater, Frozen, Affected
<1>4. CASE ResolveChargeback(l)
  BY <1>4 DEF ResolveChargeback, RowsOK, OneNotice, LockedOrLater, Frozen, Affected
<1> QED BY <1>1, <1>2, <1>3, <1>4

LEMMA StepsKeepFrozen == ASSUME IInv, [Next]_vars PROVE IInv'
<1>1. CASE \E l \in Lot : Capture(l) \/ HoldEnds(l) \/ ReleaseOneRoot(l)
  BY <1>1, SalesKeepFrozen
<1>2. CASE ReadCandidates \/ ReleaseStops \/ UNCHANGED vars
  <2>1. UNCHANGED <<money, payout, dispute, victims, overlap>>
    BY <1>2 DEF ReadCandidates, ReleaseStops, vars, payoutVars, disputeVars
  <2> QED BY <2>1 DEF IInv, RowsOK, OneNotice, LockedOrLater, Frozen, Affected
<1>3. CASE \E p \in Payout : RequestPayout(p)
  BY <1>3, RequestsKeepFrozen
<1>4. CASE \E p \in Payout : BeginReview(p) \/ ApprovePayout(p) \/ StartExecution(p) \/ ConfirmPaid(p)
                             \/ WithdrawPayout(p)
  BY <1>4, PayoutsKeepFrozen
<1>5. CASE \E r \in Refund : ConfirmRefund(r) \/ \E l \in Lot : ApproveRefund(r, l)
  BY <1>5, RefundsKeepFrozen
<1>6. CASE \E l \in Lot : ReceiveNotice(l) \/ CommitNotice(l) \/ AbortNotice(l) \/ ResolveChargeback(l)
  BY <1>6, NoticesKeepFrozen
<1> QED BY <1>1, <1>2, <1>3, <1>4, <1>5, <1>6 DEF Next

(***************************************************************************)
(* Once a chargeback is recorded, no payout that can still be withdrawn    *)
(* holds money of the disputed sale, except one that was requested between *)
(* the locking of the payouts and the lock of the wallet                   *)
(* (captured-payment-dispute-notice-operation.ts).                         *)
(***************************************************************************)
THEOREM ChargebacksFreezeTheMoney == Spec => []FrozenMoneyStaysBack
<1>1. IInv /\ [Next]_vars => IInv'
  BY StepsKeepFrozen
<1>2. Init => IInv
  BY StartsFrozen
<1>3. IInv => FrozenMoneyStaysBack
  BY DEF IInv, Frozen, FrozenMoneyStaysBack, Affected
<1> QED BY <1>1, <1>2, <1>3, PTL DEF Spec
===============================================================================
