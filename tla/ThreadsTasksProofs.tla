------------------------- MODULE ThreadsTasksProofs -------------------------
(* The threads tasks, for any number of threads, shops, customers and      *)
(* suppliers: unprotected threads gain no increment, and no interleaving   *)
(* of customers and suppliers loses goods or sells them twice.             *)
EXTENDS ThreadsTasks, FiniteSetTheorems, WellFoundedInduction, TLAPS

(* A thread that counts may have read what every thread that left added;   *)
(* main creates only threads that have not run.                            *)
Strengthened ==
    /\ TypeOK
    /\ NoneGained
    /\ \A t \in Threads : thread[t] = "counts" => local[t] <= Adds * Cardinality(Left)
    /\ main = "create" => \A t \in next..ThreadAmount : thread[t] = "none"

(* What n threads can have added, and one thread more.                     *)
LEMMA OneMore ==
    ASSUME NEW x \in Nat, NEW n \in Nat
    PROVE  /\ x * n \in Nat
           /\ x * (n + 1) = x * n + x
  OBVIOUS

(* The threads that left can be counted.                                   *)
LEMMA LeftIsFinite ==
    IsFiniteSet(Left) /\ Cardinality(Left) \in Nat
  <1>1. IsFiniteSet(Threads)
    BY FS_Interval, Amounts DEF Threads
  <1>2. IsFiniteSet(Left)
    BY <1>1, FS_Subset DEF Left
  <1> QED  BY <1>2, FS_CardinalityType

(* A thread that is created or begins to count changes nothing about who   *)
(* has left.                                                               *)
LEMMA LeftUnchanged ==
    ASSUME TypeOK, NEW t \in Threads, NEW place \in {"created", "counts"},
           thread[t] # "left", thread' = [thread EXCEPT ![t] = place]
    PROVE  Left' = Left
  BY DEF TypeOK, Left

LEMMA Invariance == Spec => []Strengthened
  <1>1. Init => Strengthened
    <2> SUFFICES ASSUME Init PROVE Strengthened
      OBVIOUS
    <2>1. Left = {}
      BY DEF Init, Left, Threads
    <2>2. Cardinality(Left) = 0
      BY <2>1, FS_EmptySet
    <2> QED  BY <2>1, <2>2, Amounts DEF Init, Strengthened, TypeOK, NoneGained, Threads
  <1>2. Strengthened /\ [Next]_vars => Strengthened'
    <2> SUFFICES ASSUME Strengthened, [Next]_vars PROVE Strengthened'
      OBVIOUS
    <2> DEFINE n == Cardinality(Left)
    <2>0. n \in Nat /\ Adds * n \in Nat /\ Adds * (n + 1) = Adds * n + Adds
      BY LeftIsFinite, OneMore, Amounts
    <2>1. CASE Create
      <3>1. CASE thread' = [thread EXCEPT ![next] = "created"]
        <4>1. thread[next] = "none"
          BY <2>1 DEF Create, Strengthened, TypeOK, Threads
        <4>2. Left' = Left
          BY <3>1, <4>1, LeftUnchanged DEF Strengthened, TypeOK
        <4>3. TypeOK' /\ (main' = "create" => \A t \in next'..ThreadAmount : thread'[t] = "none")
          BY <2>1, <3>1, <4>1, Amounts DEF Create, Strengthened, TypeOK, Threads
        <4> QED  BY <2>1, <3>1, <4>1, <4>2, <4>3 DEF Create, Strengthened, NoneGained, TypeOK
      <3>2. CASE UNCHANGED thread
        BY <2>1, <3>2 DEF Create, Strengthened, TypeOK, NoneGained, Left, Threads
      <3> QED  BY <2>1, <3>1, <3>2 DEF Create
    <2>2. CASE Join
      BY <2>2, Amounts DEF Join, Strengthened, TypeOK, NoneGained, Left, Threads
    <2>3. ASSUME NEW t \in Threads, Read(t) PROVE Strengthened'
      <3>1. Left' = Left
        BY <2>3, LeftUnchanged DEF Read, Strengthened
      <3>2. TypeOK' /\ (main' = "create" => \A u \in next'..ThreadAmount : thread'[u] = "none")
        BY <2>3, Amounts DEF Read, Strengthened, TypeOK, Threads
      <3>3. NoneGained'
        BY <2>3, <3>1 DEF Read, Strengthened, TypeOK, NoneGained, Left
      <3>4. \A u \in Threads : thread'[u] = "counts" => local'[u] <= Adds * n
        BY <2>3 DEF Read, Strengthened, TypeOK, NoneGained
      <3> QED  BY <3>1, <3>2, <3>3, <3>4 DEF Strengthened
    <2>4. ASSUME NEW t \in Threads, Write(t) PROVE Strengthened'
      <3>1. t \notin Left /\ Left' = Left \cup {t}
        BY <2>4 DEF Write, Strengthened, TypeOK, Left
      <3>2. Cardinality(Left') = n + 1
        BY <3>1, LeftIsFinite, FS_AddElement
      <3>3. TypeOK' /\ (main' = "create" => \A u \in next'..ThreadAmount : thread'[u] = "none")
        BY <2>4, Amounts DEF Write, Strengthened, TypeOK, Threads
      <3>4. a' = local[t] + Adds /\ local[t] \in Nat /\ local[t] <= Adds * n
        BY <2>4 DEF Write, Strengthened, TypeOK
      <3>5. a' <= Adds * (n + 1) /\ a' >= Adds
        BY <2>0, <3>4, Amounts
      <3>6. \A u \in Left' : local'[u] \in Adds .. Adds * (n + 1)
        <4> TAKE u \in Left'
        <4>1. CASE u = t
          BY <2>0, <2>4, <3>4, <3>5, <4>1, Amounts DEF Write, Strengthened, TypeOK
        <4>2. CASE u \in Left
          BY <2>0, <2>4, <3>1, <4>2, Amounts DEF Write, Strengthened, TypeOK, NoneGained, Left
        <4> QED  BY <3>1, <4>1, <4>2
      <3>7. \A u \in Threads : thread'[u] = "counts" => local'[u] <= Adds * (n + 1)
        <4> SUFFICES ASSUME NEW u \in Threads, thread'[u] = "counts"
                     PROVE  local'[u] <= Adds * (n + 1)
          OBVIOUS
        <4>1. u # t /\ thread[u] = "counts" /\ local'[u] = local[u]
          BY <2>4 DEF Write, Strengthened, TypeOK
        <4>2. local[u] \in Nat /\ local[u] <= Adds * n
          BY <4>1 DEF Strengthened, TypeOK
        <4> QED  BY <2>0, <4>1, <4>2, Amounts
      <3>8. NoneGained'
        BY <3>2, <3>5, <3>6 DEF NoneGained
      <3> QED  BY <3>2, <3>3, <3>7, <3>8 DEF Strengthened
    <2>5. CASE UNCHANGED vars
      BY <2>5 DEF vars, Strengthened, TypeOK, NoneGained, Left
    <2> QED  BY <2>1, <2>2, <2>3, <2>4, <2>5 DEF Next
  <1> QED  BY <1>1, <1>2, PTL DEF Spec

(* However many threads read and write back one variable unprotected, it   *)
(* never holds more than those that left added, nor, once one has left,    *)
(* less than one adds.                                                     *)
THEOREM NothingGained == Spec => []NoneGained
  <1>1. Strengthened => NoneGained
    BY DEF Strengthened
  <1> QED  BY <1>1, Invariance, PTL

-----------------------------------------------------------------------------
(* Sums.  Total folds a function over its domain, one chosen element at a  *)
(* time; Partial is the fold over every part of the domain.                *)
Chosen(s) == CHOOSE x \in s : TRUE
Folds(g, f, S) ==
    g = [s \in SUBSET S |-> IF s = {} THEN 0 ELSE f[Chosen(s)] + g[s \ {Chosen(s)}]]
Partial(f, S) == CHOOSE g : Folds(g, f, S)

LEMMA TotalIsPartial ==
    ASSUME NEW S, NEW f \in [S -> Int]
    PROVE  Shop!Total(f) = Partial(f, S)[S]
  <1>1. DOMAIN f = S
    OBVIOUS
  <1> QED
    BY <1>1, Zenon DEF Shop!Total, Shop!FoldFunction, Shop!FoldFunctionOnSet, Shop!MapThenFoldSet,
                Partial, Folds, Chosen

(* Every nonempty set of numbers has a least one.                          *)
Less == {p \in Nat \X Nat : p[1] < p[2]}

LEMMA LeastNumber ==
    ASSUME NEW T \in SUBSET Nat, T # {}
    PROVE  \E n \in T : \A m \in T : n <= m
  <1>1. IsWellFoundedOn(Less, Nat)
    <2>1. Less = OpToRel(<, Nat)
      BY DEF Less, OpToRel
    <2> QED
      BY <2>1, NatLessThanWellFounded
  <1>2. PICK n \in T : \A m \in T : <<m, n>> \notin Less
    BY <1>1, WFMin
  <1>3. ASSUME NEW m \in T PROVE n <= m
    <2>1. n \in Nat /\ m \in Nat /\ <<m, n>> \notin Less
      BY <1>2
    <2>2. ~(m < n)
      BY <2>1 DEF Less
    <2> QED
      BY <2>1, <2>2
  <1> QED
    BY <1>3

LEMMA ChosenIn ==
    ASSUME NEW s, s # {}
    PROVE  Chosen(s) \in s
  BY DEF Chosen

(* A collection of parts of a finite set that holds the empty part, and    *)
(* each part once it holds the part without its chosen element, holds all. *)
LEMMA PartByPart ==
    ASSUME NEW S, IsFiniteSet(S), NEW T, {} \in T,
           \A s \in SUBSET S : s # {} /\ s \ {Chosen(s)} \in T => s \in T
    PROVE  SUBSET S \subseteq T
  <1> SUFFICES ASSUME NEW s0 \in SUBSET S, s0 \notin T PROVE FALSE
    OBVIOUS
  <1> DEFINE bad == {s \in SUBSET S : s \notin T}
             sizes == {Cardinality(s) : s \in bad}
  <1>1. \A s \in SUBSET S : IsFiniteSet(s) /\ Cardinality(s) \in Nat
    BY FS_Subset, FS_CardinalityType
  <1>2. sizes \in SUBSET Nat /\ sizes # {}
    BY <1>1
  <1>3. PICK n \in sizes : \A m \in sizes : n <= m
    BY <1>2, LeastNumber
  <1>4. PICK s \in bad : Cardinality(s) = n
    BY <1>3
  <1>5. s # {} /\ Chosen(s) \in s
    BY <1>4, ChosenIn
  <1>6. s \ {Chosen(s)} \in SUBSET S /\ Cardinality(s \ {Chosen(s)}) = n - 1
    BY <1>1, <1>4, <1>5, FS_RemoveElement
  <1>7. s \ {Chosen(s)} \in bad
    BY <1>4, <1>5, <1>6
  <1>8. n - 1 \in sizes /\ n \in Nat
    BY <1>2, <1>6, <1>7
  <1> QED
    BY <1>3, <1>8

(* The fold exists, for the parts of each size in turn.                    *)
Small(S, n) == {s \in SUBSET S : Cardinality(s) <= n}
FoldsSmall(g, f, S, n) ==
    g = [s \in Small(S, n) |-> IF s = {} THEN 0 ELSE f[Chosen(s)] + g[s \ {Chosen(s)}]]

LEMMA SmallWithout ==
    ASSUME NEW S, IsFiniteSet(S), NEW n \in Nat, NEW s \in Small(S, n), s # {}
    PROVE  n > 0 /\ s \ {Chosen(s)} \in Small(S, n - 1)
  <1>1. IsFiniteSet(s) /\ Cardinality(s) \in Nat /\ Chosen(s) \in s
    BY FS_Subset, FS_CardinalityType, ChosenIn DEF Small
  <1>2. Cardinality(s \ {Chosen(s)}) = Cardinality(s) - 1 /\ Cardinality(s \ {Chosen(s)}) \in Nat
    BY <1>1, FS_RemoveElement, FS_CardinalityType
  <1> QED
    BY <1>1, <1>2 DEF Small

LEMMA FoldExists ==
    ASSUME NEW S, IsFiniteSet(S), NEW f \in [S -> Int]
    PROVE  Folds(Partial(f, S), f, S)
  <1> DEFINE none == {n \in Nat : ~ \E g : FoldsSmall(g, f, S, n)}
  <1>1. none = {}
    <2> SUFFICES ASSUME none # {} PROVE FALSE
      OBVIOUS
    <2>1. PICK n \in none : \A m \in none : n <= m
      BY LeastNumber
    <2>2. n \in Nat /\ ~ \E g : FoldsSmall(g, f, S, n)
      BY <2>1
    <2>3. CASE n = 0
      <3> DEFINE h == [s \in Small(S, n) |-> 0]
      <3>1. \A s \in Small(S, n) : s = {}
        <4> SUFFICES ASSUME NEW s \in Small(S, n), s # {} PROVE FALSE
          OBVIOUS
        <4>1. n > 0
          BY <2>2, SmallWithout
        <4> QED
          BY <2>3, <4>1
      <3>2. FoldsSmall(h, f, S, n)
        BY <3>1 DEF FoldsSmall
      <3> QED
        BY <2>2, <3>2
    <2>4. CASE n # 0
      <3>1. n - 1 \in Nat /\ n - 1 \notin none
        BY <2>1, <2>2, <2>4
      <3>2. PICK g : FoldsSmall(g, f, S, n - 1)
        BY <3>1
      <3> DEFINE h == [s \in Small(S, n) |->
                          IF s = {} THEN 0 ELSE f[Chosen(s)] + g[s \ {Chosen(s)}]]
      <3>3. Small(S, n - 1) \subseteq Small(S, n)
        <4>1. \A s \in SUBSET S : Cardinality(s) \in Nat
          BY FS_Subset, FS_CardinalityType
        <4> QED
          BY <2>2, <3>1, <4>1 DEF Small
      <3>4. \A s \in Small(S, n - 1) :
                g[s] = IF s = {} THEN 0 ELSE f[Chosen(s)] + g[s \ {Chosen(s)}]
        BY <3>2 DEF FoldsSmall
      <3>5. \A s \in Small(S, n - 1) : h[s] = g[s]
        BY <3>3, <3>4
      <3>6. \A s \in Small(S, n) : s # {} => h[s \ {Chosen(s)}] = g[s \ {Chosen(s)}]
        BY <2>2, <3>5, SmallWithout
      <3>7. h = [s \in Small(S, n) |-> IF s = {} THEN 0 ELSE f[Chosen(s)] + h[s \ {Chosen(s)}]]
        BY <3>6
      <3>8. FoldsSmall(h, f, S, n)
        BY <3>7 DEF FoldsSmall
      <3> QED
        BY <2>2, <3>8
    <2> QED
      BY <2>3, <2>4
  <1>2. Cardinality(S) \in Nat
    BY FS_CardinalityType
  <1>3. Small(S, Cardinality(S)) = SUBSET S
    BY FS_Subset DEF Small
  <1>4. PICK g : FoldsSmall(g, f, S, Cardinality(S))
    BY <1>1, <1>2
  <1>5. Folds(g, f, S)
    BY <1>3, <1>4 DEF FoldsSmall, Folds
  <1> QED
    BY <1>5, Zenon DEF Partial

LEMMA PartialStep ==
    ASSUME NEW S, IsFiniteSet(S), NEW f \in [S -> Int]
    PROVE  /\ Partial(f, S)[{}] = 0
           /\ \A s \in SUBSET S : s # {} =>
                 /\ Chosen(s) \in s
                 /\ s \ {Chosen(s)} \in SUBSET S
                 /\ Partial(f, S)[s] = f[Chosen(s)] + Partial(f, S)[s \ {Chosen(s)}]
  <1> DEFINE g == Partial(f, S)
  <1>1. g = [s \in SUBSET S |-> IF s = {} THEN 0 ELSE f[Chosen(s)] + g[s \ {Chosen(s)}]]
    BY FoldExists DEF Folds
  <1> HIDE DEF g
  <1>2. g[{}] = 0 /\ \A s \in SUBSET S : s # {} => g[s] = f[Chosen(s)] + g[s \ {Chosen(s)}]
    BY <1>1
  <1>3. \A s \in SUBSET S : s # {} => Chosen(s) \in s /\ s \ {Chosen(s)} \in SUBSET S
    BY ChosenIn
  <1> QED
    BY <1>2, <1>3 DEF g

(* A sum is a number, a sum of zeros is zero, and changing one term        *)
(* changes the sum by as much.                                             *)
LEMMA TotalIsInt ==
    ASSUME NEW S, IsFiniteSet(S), NEW f \in [S -> Int]
    PROVE  Shop!Total(f) \in Int
  <1> DEFINE T == {s \in SUBSET S : Partial(f, S)[s] \in Int}
  <1>1. {} \in T
    BY PartialStep
  <1>2. ASSUME NEW s \in SUBSET S, s # {}, s \ {Chosen(s)} \in T
        PROVE  s \in T
    <2>1. f[Chosen(s)] \in Int /\ Partial(f, S)[s \ {Chosen(s)}] \in Int
      BY <1>2, PartialStep
    <2>2. Partial(f, S)[s] = f[Chosen(s)] + Partial(f, S)[s \ {Chosen(s)}]
      BY <1>2, PartialStep
    <2> QED
      BY <2>1, <2>2
  <1> HIDE DEF T
  <1>3. SUBSET S \subseteq T
    BY <1>1, <1>2, PartByPart
  <1> QED
    BY <1>3, TotalIsPartial DEF T

LEMMA TotalOfZeros ==
    ASSUME NEW S, IsFiniteSet(S)
    PROVE  Shop!Total([x \in S |-> 0]) = 0
  <1> DEFINE f == [x \in S |-> 0]
             T == {s \in SUBSET S : Partial(f, S)[s] = 0}
  <1>0. f \in [S -> Int] /\ \A x \in S : f[x] = 0
    OBVIOUS
  <1> HIDE DEF f
  <1>1. {} \in T
    BY <1>0, PartialStep
  <1>2. ASSUME NEW s \in SUBSET S, s # {}, s \ {Chosen(s)} \in T
        PROVE  s \in T
    <2>1. f[Chosen(s)] = 0 /\ Partial(f, S)[s \ {Chosen(s)}] = 0
      BY <1>0, <1>2, PartialStep
    <2>2. Partial(f, S)[s] = f[Chosen(s)] + Partial(f, S)[s \ {Chosen(s)}]
      BY <1>0, <1>2, PartialStep
    <2> QED
      BY <2>1, <2>2
  <1> HIDE DEF T
  <1>3. SUBSET S \subseteq T
    BY <1>1, <1>2, PartByPart
  <1>4. Shop!Total(f) = 0
    BY <1>0, <1>3, TotalIsPartial DEF T
  <1> QED
    BY <1>4 DEF f

LEMMA TotalChanged ==
    ASSUME NEW S, IsFiniteSet(S), NEW f \in [S -> Int], NEW x \in S, NEW v \in Int
    PROVE  Shop!Total([f EXCEPT ![x] = v]) = Shop!Total(f) + (v - f[x])
  <1> DEFINE h == [f EXCEPT ![x] = v]
             T == {s \in SUBSET S :
                      /\ Partial(f, S)[s] \in Int
                      /\ Partial(h, S)[s] = Partial(f, S)[s] + (IF x \in s THEN v - f[x] ELSE 0)}
  <1>0. h \in [S -> Int] /\ h[x] = v /\ \A y \in S : y # x => h[y] = f[y]
    OBVIOUS
  <1> HIDE DEF h
  <1>1. {} \in T
    BY <1>0, PartialStep
  <1>2. ASSUME NEW s \in SUBSET S, s # {}, s \ {Chosen(s)} \in T
        PROVE  s \in T
    <2> DEFINE y == Chosen(s)
               r == s \ {y}
    <2>1. /\ y \in s /\ y \in S
          /\ Partial(f, S)[s] = f[y] + Partial(f, S)[r]
          /\ Partial(h, S)[s] = h[y] + Partial(h, S)[r]
      <3>1. y \in s /\ Partial(f, S)[s] = f[y] + Partial(f, S)[r]
        BY <1>2, PartialStep
      <3>2. Partial(h, S)[s] = h[y] + Partial(h, S)[r]
        BY <1>0, <1>2, PartialStep
      <3> QED
        BY <3>1, <3>2
    <2>2. /\ Partial(f, S)[r] \in Int
          /\ Partial(h, S)[r] = Partial(f, S)[r] + (IF x \in r THEN v - f[x] ELSE 0)
      BY <1>2
    <2>3. f[y] \in Int /\ f[x] \in Int
      BY <2>1
    <2>4. CASE y = x
      <3>1. x \notin r /\ x \in s /\ h[y] = v
        BY <1>0, <2>1, <2>4
      <3> QED
        BY <2>1, <2>2, <2>3, <2>4, <3>1
    <2>5. CASE y # x
      <3>1. (x \in r <=> x \in s) /\ h[y] = f[y]
        BY <1>0, <2>1, <2>5
      <3> QED
        BY <2>1, <2>2, <2>3, <3>1
    <2> QED
      BY <2>4, <2>5
  <1> HIDE DEF T
  <1>3. SUBSET S \subseteq T
    BY <1>1, <1>2, PartByPart
  <1>4. Shop!Total(h) = Shop!Total(f) + (v - f[x])
    BY <1>0, <1>3, TotalIsPartial DEF T
  <1> QED
    BY <1>4 DEF h

LEMMA TotalAfter ==
    ASSUME NEW S, IsFiniteSet(S), NEW f \in [S -> Int], NEW x \in S, NEW v \in Int,
           NEW h, h = [f EXCEPT ![x] = v]
    PROVE  Shop!Total(h) = Shop!Total(f) + (v - f[x])
  BY TotalChanged

-----------------------------------------------------------------------------
(* The shops: what every variable holds.                                   *)
ShopTypes ==
    /\ locked \in [Shop!Shops -> BOOLEAN]
    /\ shop_stocks \in [Shop!Shops -> Nat]
    /\ demands \in [Shop!Customers -> Int]
    /\ drawn \in [Shop!Customers -> Nat]
    /\ supplier_caps \in [Shop!Suppliers -> Nat]
    /\ cpc \in [Shop!Customers -> {"none", "loop", "lock", "buy", "clear", "unlock", "left"}]
    /\ shop \in [Shop!Customers -> Shop!Shops]
    /\ spc \in [Shop!Suppliers -> {"none", "id", "loop", "lock", "supply", "load", "unlock", "left"}]
    /\ id \in [Shop!Suppliers -> Shop!Suppliers]
    /\ visit \in [Shop!Suppliers -> Shop!Shops]
    /\ joined \in Nat /\ initial \in Int /\ supplied \in Int

(* The main thread creates and draws for one thread after the other, and   *)
(* whoever was given no demand has bought nothing.                         *)
DrawnInTurn ==
    /\ pc \in {"create", "demand"} => joined \in Shop!Customers
    /\ pc \in {"supplier", "cap"} => joined \in Shop!Suppliers
    /\ pc = "create" => cpc[joined] = "none"
    /\ pc = "demand" => /\ cpc[joined] \in {"loop", "left"}
                        /\ demands[joined] = 0 /\ drawn[joined] = 0
    /\ pc \in {"create", "demand"} =>
           \A c \in Shop!Customers : c > joined => cpc[c] = "none"
    /\ \A c \in Shop!Customers : cpc[c] = "none" => demands[c] = 0 /\ drawn[c] = 0

(* One customer or supplier at a time is in a shop.                        *)
Buys(c) == cpc[c] \in {"buy", "clear", "unlock"}
Supplies(s) == spc[s] \in {"supply", "load", "unlock"}
OneInEachShop ==
    /\ \A c \in Shop!Customers : Buys(c) => locked[shop[c]]
    /\ \A s \in Shop!Suppliers : Supplies(s) => locked[visit[s]]
    /\ \A c, d \in Shop!Customers : Buys(c) /\ Buys(d) /\ shop[c] = shop[d] => c = d
    /\ \A s, t \in Shop!Suppliers : Supplies(s) /\ Supplies(t) /\ visit[s] = visit[t] => s = t
    /\ \A c \in Shop!Customers, s \in Shop!Suppliers :
           Buys(c) /\ Supplies(s) => shop[c] # visit[s]

ShopInv == ShopTypes /\ DrawnInTurn /\ OneInEachShop

LEMMA ShopSets ==
    /\ IsFiniteSet(Shop!Shops) /\ IsFiniteSet(Shop!Customers)
    /\ 0 \in Shop!Shops /\ 0 \in Shop!Customers /\ 0 \in Shop!Suppliers
  BY FS_Interval, SomeOfEach DEF Shop!Shops, Shop!Customers, Shop!Suppliers

(* Every step of the main thread keeps the invariant.                      *)
LEMMA MainKeepsShop ==
    ASSUME ShopInv, Shop!MainStep
    PROVE  ShopInv'
  <1> USE DEF ShopInv, ShopTypes, DrawnInTurn, OneInEachShop, Buys, Supplies, Shop!Main,
              Shop!customers, Shop!suppliers
  <1>1. CASE Shop!CreateCustomer
    BY <1>1 DEF Shop!CreateCustomer
  <1>2. CASE Shop!DrawDemand
    <2>1. PICK n \in Demands : /\ demands' = [demands EXCEPT ![joined] = n]
                               /\ drawn' = [drawn EXCEPT ![joined] = n]
      BY <1>2 DEF Shop!DrawDemand
    <2>2. n \in Nat /\ n \in Int /\ pc = "demand" /\ joined \in Shop!Customers
      BY <1>2, AmountsNat DEF Shop!DrawDemand
    <2>3. UNCHANGED <<locked, shop_stocks, supplier_caps, cpc, shop, spc, id, visit, initial, supplied>>
      BY <1>2 DEF Shop!DrawDemand
    <2>4. CASE joined + 1 < CUSTOMER_NUMBER
      <3>1. pc' = "create" /\ joined' = joined + 1 /\ joined' \in Shop!Customers
        BY <1>2, <2>2, <2>4, SomeOfEach DEF Shop!DrawDemand, Shop!Customers
      <3>2. joined \in Nat /\ \A c \in Shop!Customers : c \in Int
        BY SomeOfEach DEF Shop!Customers
      <3> QED
        BY <2>1, <2>2, <2>3, <3>1, <3>2
    <2>5. CASE ~(joined + 1 < CUSTOMER_NUMBER)
      <3>1. pc' = "supplier" /\ joined' = 0 /\ joined' \in Shop!Suppliers
        BY <1>2, <2>5, ShopSets DEF Shop!DrawDemand
      <3> QED
        BY <2>1, <2>2, <2>3, <3>1
    <2> QED
      BY <2>4, <2>5
  <1>3. CASE Shop!CreateSupplier
    BY <1>3 DEF Shop!CreateSupplier
  <1>4. CASE Shop!DrawCap
    <2>1. pc = "cap" /\ (pc' = "supplier" => joined' \in Shop!Suppliers) /\ joined' \in Nat
          /\ pc' \in {"supplier", "join"}
      <3>1. joined \in Shop!Suppliers /\ joined \in Nat /\ pc = "cap"
        BY <1>4 DEF Shop!DrawCap
      <3>2. \/ joined + 1 < SUPPLIER_NUMBER /\ pc' = "supplier" /\ joined' = joined + 1
            \/ pc' = "join" /\ joined' = 0
        BY <1>4 DEF Shop!DrawCap
      <3>3. joined + 1 < SUPPLIER_NUMBER => joined + 1 \in Shop!Suppliers
        BY <3>1, SomeOfEach DEF Shop!Suppliers
      <3> QED
        BY <3>1, <3>2, <3>3
    <2>2. supplier_caps' \in [Shop!Suppliers -> Nat]
      BY <1>4, AmountsNat DEF Shop!DrawCap
    <2>3. UNCHANGED <<locked, shop_stocks, demands, cpc, shop, spc, id, visit, drawn, initial, supplied>>
      BY <1>4 DEF Shop!DrawCap
    <2> QED
      BY <2>1, <2>2, <2>3
  <1>5. CASE Shop!JoinCustomer
    BY <1>5 DEF Shop!JoinCustomer
  <1>6. CASE Shop!JoinSupplier
    BY <1>6 DEF Shop!JoinSupplier
  <1> QED
    BY <1>1, <1>2, <1>3, <1>4, <1>5, <1>6 DEF Shop!MainStep

LEMMA CustomerKeepsShop ==
    ASSUME ShopInv, NEW c \in Shop!Customers, Shop!CustomerStep(c)
    PROVE  ShopInv'
  <1> USE DEF ShopInv, ShopTypes, DrawnInTurn, OneInEachShop, Buys, Supplies,
              Shop!Customer, Shop!suppliers, Shop!main
  <1>1. CASE Shop!LookAtDemand(c)
    BY <1>1 DEF Shop!LookAtDemand, Shop!Lock, Shop!Unlock
  <1>2. CASE Shop!EnterShop(c)
    BY <1>2 DEF Shop!EnterShop, Shop!Lock, Shop!Unlock
  <1>3. CASE Shop!Buy(c)
    BY <1>3 DEF Shop!Buy, Shop!Lock, Shop!Unlock
  <1>4. CASE Shop!ClearStock(c)
    BY <1>4 DEF Shop!ClearStock, Shop!Lock, Shop!Unlock
  <1>5. CASE Shop!LeaveShop(c)
    BY <1>5 DEF Shop!LeaveShop, Shop!Lock, Shop!Unlock
  <1> QED
    BY <1>1, <1>2, <1>3, <1>4, <1>5 DEF Shop!CustomerStep

LEMMA SupplierKeepsShop ==
    ASSUME ShopInv, NEW s \in Shop!Suppliers, Shop!SupplierStep(s)
    PROVE  ShopInv'
  <1> USE DEF ShopInv, ShopTypes, DrawnInTurn, OneInEachShop, Buys, Supplies,
              Shop!Supplier, Shop!customers, Shop!main
  <1>1. CASE Shop!ReadId(s)
    BY <1>1, AmountsNat DEF Shop!ReadId, Shop!Lock, Shop!Unlock
  <1>2. CASE Shop!LookAtCustomers(s)
    BY <1>2, AmountsNat DEF Shop!LookAtCustomers, Shop!Lock, Shop!Unlock
  <1>3. CASE Shop!SupplierEnter(s)
    BY <1>3, AmountsNat DEF Shop!SupplierEnter, Shop!Lock, Shop!Unlock
  <1>4. CASE Shop!Supply(s)
    BY <1>4, AmountsNat DEF Shop!Supply, Shop!Lock, Shop!Unlock
  <1>5. CASE Shop!Load(s)
    BY <1>5, AmountsNat DEF Shop!Load, Shop!Lock, Shop!Unlock
  <1>6. CASE Shop!SupplierLeave(s)
    BY <1>6, AmountsNat DEF Shop!SupplierLeave, Shop!Lock, Shop!Unlock
  <1> QED
    BY <1>1, <1>2, <1>3, <1>4, <1>5, <1>6 DEF Shop!SupplierStep

LEMMA ShopInvariance == TasksSpec => []ShopInv
  <1>1. TasksInit => ShopInv
    <2> SUFFICES ASSUME TasksInit PROVE ShopInv
      OBVIOUS
    <2> USE DEF TasksInit, Shop!Init
    <2>1. shop_stocks \in [Shop!Shops -> Nat]
      BY AmountsNat
    <2>2. initial \in Int
      <3>1. shop_stocks \in [Shop!Shops -> Int]
        BY <2>1
      <3> QED
        BY <3>1, ShopSets, TotalIsInt
    <2>3. ShopTypes
      BY <2>1, <2>2, ShopSets DEF ShopTypes
    <2>4. DrawnInTurn /\ OneInEachShop
      BY ShopSets DEF DrawnInTurn, OneInEachShop, Buys, Supplies
    <2> QED
      BY <2>3, <2>4 DEF ShopInv
  <1>2. ShopInv /\ [TasksNext]_<<task, vars, shops>> => ShopInv'
    <2> SUFFICES ASSUME ShopInv, [TasksNext]_<<task, vars, shops>> PROVE ShopInv'
      OBVIOUS
    <2>1. CASE UNCHANGED shops
      BY <2>1 DEF shops, ShopInv, ShopTypes, DrawnInTurn, OneInEachShop, Buys, Supplies
    <2>2. CASE Shop!Next
      BY <2>2, MainKeepsShop, CustomerKeepsShop, SupplierKeepsShop DEF Shop!Next
    <2> QED
      BY <2>1, <2>2 DEF TasksNext, RunCounter, RunShop
  <1> QED
    BY <1>1, <1>2, PTL DEF TasksSpec

(* A customer leaves with a demand only before it is given the demand.     *)
THEOREM NobodyLeavesHalfServed == TasksSpec => []UnsatisfiedNeverBought
  <1> USE DEF UnsatisfiedNeverBought, Shop!UnsatisfiedNeverBought
  <1>1. TasksInit => UnsatisfiedNeverBought
    BY DEF TasksInit, Shop!Init
  <1>2. /\ ShopInv /\ UnsatisfiedNeverBought
        /\ [TasksNext]_<<task, vars, shops>>
        => UnsatisfiedNeverBought'
    <2> SUFFICES ASSUME ShopInv, UnsatisfiedNeverBought,
                        [TasksNext]_<<task, vars, shops>>
                 PROVE  UnsatisfiedNeverBought'
      OBVIOUS
    <2>1. CASE UNCHANGED shops
      BY <2>1 DEF shops
    <2>2. CASE Shop!MainStep
      BY <2>2 DEF Shop!MainStep, Shop!CreateCustomer, Shop!DrawDemand, Shop!CreateSupplier,
                  Shop!DrawCap, Shop!JoinCustomer, Shop!JoinSupplier, Shop!Main,
                  Shop!customers, ShopInv, ShopTypes, DrawnInTurn
    <2>3. ASSUME NEW c \in Shop!Customers, Shop!CustomerStep(c)
          PROVE  UnsatisfiedNeverBought'
      BY <2>3 DEF Shop!CustomerStep, Shop!LookAtDemand, Shop!EnterShop, Shop!Buy, Shop!ClearStock,
                  Shop!LeaveShop, Shop!Customer, Shop!main, ShopInv, ShopTypes
    <2>4. ASSUME NEW s \in Shop!Suppliers, Shop!SupplierStep(s)
          PROVE  UnsatisfiedNeverBought'
      BY <2>4 DEF Shop!SupplierStep, Shop!ReadId, Shop!LookAtCustomers, Shop!SupplierEnter,
                  Shop!Supply, Shop!Load, Shop!SupplierLeave, Shop!Supplier, Shop!main, Shop!customers
    <2> QED
      BY <2>1, <2>2, <2>3, <2>4 DEF TasksNext, RunCounter, RunShop, Shop!Next
  <1> QED
    BY <1>1, <1>2, ShopInvariance, PTL DEF TasksSpec

-----------------------------------------------------------------------------
(* What a customer has bought and taken from a shop.                       *)
Bought == [c \in Shop!Customers |-> drawn[c] - demands[c] - Shop!InHand(c)]

LEMMA GoodsTyped ==
    ASSUME ShopInv
    PROVE  /\ shop_stocks \in [Shop!Shops -> Int] /\ Bought \in [Shop!Customers -> Int]
           /\ Shop!Total(shop_stocks) \in Int /\ Shop!Total(Bought) \in Int
           /\ initial \in Int /\ supplied \in Int
  <1>1. shop_stocks \in [Shop!Shops -> Nat] /\ shop_stocks \in [Shop!Shops -> Int]
    BY DEF ShopInv, ShopTypes
  <1>2. \A c \in Shop!Customers : Shop!InHand(c) \in Int
    BY <1>1 DEF ShopInv, ShopTypes, Shop!InHand
  <1>3. Bought \in [Shop!Customers -> Int]
    BY <1>2 DEF ShopInv, ShopTypes, Bought
  <1> QED
    BY <1>1, <1>3, ShopSets, TotalIsInt DEF ShopInv, ShopTypes

(* A step that moves no goods.                                             *)
LEMMA GoodsStay ==
    ASSUME GoodsConserved, UNCHANGED <<shop_stocks, initial, supplied>>,
           \A c \in Shop!Customers : (drawn[c] - demands[c] - Shop!InHand(c))'
                                         = drawn[c] - demands[c] - Shop!InHand(c)
    PROVE  GoodsConserved'
  <1>1. Bought' = Bought
    BY DEF Bought
  <1> QED
    BY <1>1 DEF GoodsConserved, Shop!GoodsConserved, Bought

LEMMA MainMovesNoGoods ==
    ASSUME ShopInv, GoodsConserved, Shop!MainStep
    PROVE  GoodsConserved'
  <1> USE DEF Shop!Main, Shop!customers, Shop!suppliers, Shop!InHand
  <1>0. ShopTypes /\ DrawnInTurn
    BY DEF ShopInv
  <1>1. CASE Shop!CreateCustomer
    BY <1>0, <1>1, GoodsStay DEF Shop!CreateCustomer, ShopTypes, DrawnInTurn
  <1>2. CASE Shop!DrawDemand
    <2>1. PICK n \in Demands : /\ demands' = [demands EXCEPT ![joined] = n]
                               /\ drawn' = [drawn EXCEPT ![joined] = n]
      BY <1>2 DEF Shop!DrawDemand
    <2>2. /\ UNCHANGED <<shop_stocks, initial, supplied, cpc, shop>> /\ n \in Int
          /\ joined \in Shop!Customers /\ cpc[joined] \in {"loop", "left"}
          /\ demands[joined] = 0 /\ drawn[joined] = 0
      BY <1>0, <1>2, AmountsNat DEF Shop!DrawDemand, DrawnInTurn
    <2>3. \A c \in Shop!Customers : (drawn[c] - demands[c] - Shop!InHand(c))'
                                        = drawn[c] - demands[c] - Shop!InHand(c)
      BY <1>0, <2>1, <2>2 DEF ShopTypes
    <2> QED
      BY <2>2, <2>3, GoodsStay
  <1>3. CASE Shop!CreateSupplier
    BY <1>3, GoodsStay DEF Shop!CreateSupplier
  <1>4. CASE Shop!DrawCap
    BY <1>4, GoodsStay DEF Shop!DrawCap
  <1>5. CASE Shop!JoinCustomer
    BY <1>5, GoodsStay DEF Shop!JoinCustomer
  <1>6. CASE Shop!JoinSupplier
    BY <1>6, GoodsStay DEF Shop!JoinSupplier
  <1> QED
    BY <1>1, <1>2, <1>3, <1>4, <1>5, <1>6 DEF Shop!MainStep

(* Paying does not move goods yet: they are in the customer's hand.        *)
(* Clearing the shelf moves what was paid for from the shop to the         *)
(* customer, because nobody else is in the shop meanwhile.                 *)
LEMMA CustomerConserves ==
    ASSUME ShopInv, GoodsConserved, NEW c \in Shop!Customers, Shop!CustomerStep(c)
    PROVE  GoodsConserved'
  <1> USE DEF Shop!Customer, Shop!suppliers, Shop!main
  <1>0. ShopTypes /\ OneInEachShop
    BY DEF ShopInv
  <1>1. CASE Shop!LookAtDemand(c)
    BY <1>0, <1>1, GoodsStay DEF Shop!LookAtDemand, Shop!InHand, ShopTypes
  <1>2. CASE Shop!EnterShop(c)
    BY <1>0, <1>2, GoodsStay DEF Shop!EnterShop, Shop!InHand, ShopTypes
  <1>3. CASE Shop!Buy(c)
    BY <1>0, <1>3, GoodsStay DEF Shop!Buy, Shop!InHand, ShopTypes
  <1>4. CASE Shop!ClearStock(c)
    <2> DEFINE i == shop[c]
    <2>1. /\ cpc[c] = "clear" /\ cpc' = [cpc EXCEPT ![c] = "unlock"]
          /\ shop_stocks' = [shop_stocks EXCEPT ![i] = 0] /\ i \in Shop!Shops
          /\ UNCHANGED <<demands, drawn, shop, initial, supplied>>
      BY <1>0, <1>4 DEF Shop!ClearStock, ShopTypes
    <2>2. \A d \in Shop!Customers : d # c /\ cpc[d] = "clear" => shop[d] # i
      BY <1>0, <2>1 DEF OneInEachShop, Buys
    <2>3. Shop!InHand(c) = shop_stocks[i] /\ Shop!InHand(c)' = 0
      BY <1>0, <2>1 DEF Shop!InHand, ShopTypes
    <2>4. \A d \in Shop!Customers : d # c => Shop!InHand(d)' = Shop!InHand(d)
      BY <1>0, <2>1, <2>2 DEF Shop!InHand, ShopTypes
    <2>5. Bought' = [Bought EXCEPT ![c] = Bought[c] + shop_stocks[i]]
      <3>1. \A d \in Shop!Customers : shop_stocks[i] \in Int /\ drawn[d] \in Int /\ demands[d] \in Int
        BY <1>0, <2>1 DEF ShopTypes
      <3>2. drawn[c] - demands[c] - 0 = (drawn[c] - demands[c] - shop_stocks[i]) + shop_stocks[i]
        BY <3>1
      <3> QED
        BY <2>1, <2>3, <2>4, <3>2 DEF Bought
    <2>6. Shop!Total(Bought') = Shop!Total(Bought) + shop_stocks[i]
      <3>1. Bought[c] \in Int /\ Bought[c] + shop_stocks[i] \in Int /\ shop_stocks[i] \in Int
        BY <2>1, GoodsTyped
      <3>2. Shop!Total(Bought') = Shop!Total(Bought) + ((Bought[c] + shop_stocks[i]) - Bought[c])
        <4>1. IsFiniteSet(Shop!Customers) /\ Bought \in [Shop!Customers -> Int]
          BY GoodsTyped, ShopSets
        <4> QED
          BY <2>5, <3>1, <4>1, TotalAfter, Zenon
      <3> QED
        BY <3>1, <3>2, GoodsTyped
    <2>7. Shop!Total(shop_stocks') = Shop!Total(shop_stocks) + (0 - shop_stocks[i])
      <3>1. IsFiniteSet(Shop!Shops) /\ shop_stocks \in [Shop!Shops -> Int] /\ 0 \in Int
        BY GoodsTyped, ShopSets
      <3> HIDE DEF i
      <3> QED
        BY <2>1, <3>1, TotalAfter, Zenon
    <2>8. initial + supplied = Shop!Total(shop_stocks) + Shop!Total(Bought)
      BY DEF GoodsConserved, Shop!GoodsConserved, Bought
    <2>9. initial' + supplied' = Shop!Total(shop_stocks') + Shop!Total(Bought')
      <3>1. shop_stocks[i] \in Int
        BY <2>1, GoodsTyped
      <3> QED
        BY <2>1, <2>6, <2>7, <2>8, <3>1, GoodsTyped
    <2> QED
      BY <2>9 DEF GoodsConserved, Shop!GoodsConserved, Bought
  <1>5. CASE Shop!LeaveShop(c)
    BY <1>0, <1>5, GoodsStay DEF Shop!LeaveShop, Shop!InHand, ShopTypes
  <1> QED
    BY <1>1, <1>2, <1>3, <1>4, <1>5 DEF Shop!CustomerStep

(* Nobody has paid in a shop that is being supplied.                       *)
LEMMA SupplierConserves ==
    ASSUME ShopInv, GoodsConserved, NEW s \in Shop!Suppliers, Shop!SupplierStep(s)
    PROVE  GoodsConserved'
  <1> USE DEF Shop!Supplier, Shop!customers, Shop!main
  <1>0. ShopTypes /\ OneInEachShop
    BY DEF ShopInv
  <1>1. CASE Shop!ReadId(s)
    BY <1>1, GoodsStay DEF Shop!ReadId, Shop!InHand
  <1>2. CASE Shop!LookAtCustomers(s)
    BY <1>2, GoodsStay DEF Shop!LookAtCustomers, Shop!InHand
  <1>3. CASE Shop!SupplierEnter(s)
    BY <1>3, GoodsStay DEF Shop!SupplierEnter, Shop!InHand
  <1>4. CASE Shop!Supply(s)
    <2> DEFINE i == visit[s]
               n == supplier_caps[id[s]]
    <2>1. /\ spc[s] = "supply" /\ shop_stocks' = [shop_stocks EXCEPT ![i] = @ + n]
          /\ supplied' = supplied + n /\ i \in Shop!Shops /\ n \in Int /\ shop_stocks[i] \in Int
          /\ UNCHANGED <<demands, drawn, cpc, shop, initial>>
      BY <1>0, <1>4 DEF Shop!Supply, ShopTypes
    <2>2. \A c \in Shop!Customers : cpc[c] = "clear" => shop[c] # i
      BY <1>0, <2>1 DEF OneInEachShop, Buys, Supplies
    <2>3. \A c \in Shop!Customers : Shop!InHand(c)' = Shop!InHand(c)
      BY <1>0, <2>1, <2>2 DEF Shop!InHand, ShopTypes
    <2>4. Bought' = Bought
      BY <2>1, <2>3 DEF Bought
    <2>5. shop_stocks' = [shop_stocks EXCEPT ![i] = shop_stocks[i] + n]
      BY <2>1
    <2>6. Shop!Total(shop_stocks') = Shop!Total(shop_stocks) + ((shop_stocks[i] + n) - shop_stocks[i])
      <3>1. shop_stocks[i] + n \in Int
        BY <2>1
      <3>2. IsFiniteSet(Shop!Shops) /\ shop_stocks \in [Shop!Shops -> Int]
        BY GoodsTyped, ShopSets
      <3>3. i \in Shop!Shops
        BY <2>1
      <3> HIDE DEF i, n
      <3> QED
        BY <2>5, <3>1, <3>2, <3>3, TotalAfter, Zenon
    <2>7. initial + supplied = Shop!Total(shop_stocks) + Shop!Total(Bought)
      BY DEF GoodsConserved, Shop!GoodsConserved, Bought
    <2>8. initial' + supplied' = Shop!Total(shop_stocks') + Shop!Total(Bought')
      BY <2>1, <2>4, <2>6, <2>7, GoodsTyped
    <2> QED
      BY <2>8 DEF GoodsConserved, Shop!GoodsConserved, Bought
  <1>5. CASE Shop!Load(s)
    BY <1>5, GoodsStay DEF Shop!Load, Shop!InHand
  <1>6. CASE Shop!SupplierLeave(s)
    BY <1>6, GoodsStay DEF Shop!SupplierLeave, Shop!InHand
  <1> QED
    BY <1>1, <1>2, <1>3, <1>4, <1>5, <1>6 DEF Shop!SupplierStep

(* What the shops began with and were given is what they hold and what was *)
(* bought, in every interleaving of customers and suppliers.               *)
THEOREM NoGoodsLost == TasksSpec => []GoodsConserved
  <1>1. TasksInit => GoodsConserved
    <2> SUFFICES ASSUME TasksInit PROVE GoodsConserved
      OBVIOUS
    <2>1. /\ \A c \in Shop!Customers : drawn[c] - demands[c] - Shop!InHand(c) = 0
          /\ initial = Shop!Total(shop_stocks) /\ supplied = 0
          /\ shop_stocks \in [Shop!Shops -> Int]
      <3>1. \A c \in Shop!Customers : drawn[c] = 0 /\ demands[c] = 0 /\ cpc[c] = "none"
        BY DEF TasksInit, Shop!Init
      <3>2. shop_stocks \in [Shop!Shops -> Loads] /\ Loads \subseteq Int
        BY AmountsNat DEF TasksInit, Shop!Init
      <3>3. initial = Shop!Total(shop_stocks) /\ supplied = 0
        BY DEF TasksInit, Shop!Init
      <3>4. \A c \in Shop!Customers : Shop!InHand(c) = 0
        BY <3>1 DEF Shop!InHand
      <3>5. \A c \in Shop!Customers : drawn[c] - demands[c] - Shop!InHand(c) = 0
        BY <3>1, <3>4
      <3>6. shop_stocks \in [Shop!Shops -> Int]
        BY <3>2
      <3> QED
        BY <3>3, <3>5, <3>6
    <2>2. Bought = [c \in Shop!Customers |-> 0]
      BY <2>1 DEF Bought
    <2>3. Shop!Total(Bought) = 0 /\ Shop!Total(shop_stocks) \in Int
      BY <2>1, <2>2, ShopSets, TotalOfZeros, TotalIsInt
    <2> QED
      BY <2>1, <2>3 DEF GoodsConserved, Shop!GoodsConserved, Bought
  <1>2. ShopInv /\ GoodsConserved /\ [TasksNext]_<<task, vars, shops>>
        => GoodsConserved'
    <2> SUFFICES ASSUME ShopInv, GoodsConserved, [TasksNext]_<<task, vars, shops>>
                 PROVE  GoodsConserved'
      OBVIOUS
    <2>1. CASE UNCHANGED shops
      BY <2>1, GoodsStay DEF shops, Shop!InHand
    <2>2. CASE Shop!Next
      BY <2>2, MainMovesNoGoods, CustomerConserves, SupplierConserves DEF Shop!Next
    <2> QED
      BY <2>1, <2>2 DEF TasksNext, RunCounter, RunShop
  <1> QED
    BY <1>1, <1>2, ShopInvariance, PTL DEF TasksSpec

-----------------------------------------------------------------------------
(* Whoever waits in the shops waits for somebody who goes on.              *)
CustomerPlaces == {"none", "loop", "lock", "buy", "clear", "unlock", "left"}
SupplierPlaces == {"none", "id", "loop", "lock", "supply", "load", "unlock", "left"}
HeldFromInside ==
    \A i \in Shop!Shops : locked[i] =>
        \/ \E c \in Shop!Customers : shop[c] = i /\ Buys(c)
        \/ \E s \in Shop!Suppliers : visit[s] = i /\ Supplies(s)

(* The main thread creates one supplier after the other; it joins the      *)
(* customers first, and with the last of them tells the suppliers to stop. *)
SuppliersInTurn ==
    /\ pc \in {"create", "demand"} => \A s \in Shop!Suppliers : spc[s] = "none"
    /\ pc \in {"supplier", "cap"} => \A s \in Shop!Suppliers : s > joined => spc[s] = "none"
    /\ pc = "supplier" => spc[joined] = "none"
    /\ pc = "join" => /\ joined \in 0..(CUSTOMER_NUMBER + SUPPLIER_NUMBER - 1)
                      /\ joined >= CUSTOMER_NUMBER => customers_satisfied = 1

(* A step that moves no mutex and takes nobody out of a shop.              *)
LEMMA HeldStill ==
    ASSUME HeldFromInside, UNCHANGED locked,
           \A c \in Shop!Customers : Buys(c) => Buys(c)' /\ shop'[c] = shop[c],
           \A s \in Shop!Suppliers : Supplies(s) => Supplies(s)' /\ visit'[s] = visit[s]
    PROVE  HeldFromInside'
  <1> SUFFICES ASSUME NEW i \in Shop!Shops, locked[i]
               PROVE  \/ \E c \in Shop!Customers : shop'[c] = i /\ Buys(c)'
                      \/ \E s \in Shop!Suppliers : visit'[s] = i /\ Supplies(s)'
    BY DEF HeldFromInside
  <1>1. CASE \E c \in Shop!Customers : shop[c] = i /\ Buys(c)
    <2>1. PICK c \in Shop!Customers : shop[c] = i /\ Buys(c)
      BY <1>1
    <2> QED
      BY <2>1
  <1>2. CASE \E s \in Shop!Suppliers : visit[s] = i /\ Supplies(s)
    <2>1. PICK s \in Shop!Suppliers : visit[s] = i /\ Supplies(s)
      BY <1>2
    <2> QED
      BY <2>1
  <1> QED
    BY <1>1, <1>2 DEF HeldFromInside

LEMMA MainHolds ==
    ASSUME ShopInv, HeldFromInside, SuppliersInTurn, Shop!MainStep
    PROVE  HeldFromInside' /\ SuppliersInTurn'
  <1>1. HeldFromInside'
    <2>1. CASE Shop!CreateCustomer
      <3>1. /\ cpc' = [cpc EXCEPT ![joined] = "loop"] /\ cpc[joined] = "none"
            /\ UNCHANGED <<locked, shop, spc, visit>> /\ cpc \in [Shop!Customers -> CustomerPlaces]
        BY <2>1 DEF Shop!CreateCustomer, Shop!Main, Shop!suppliers, ShopInv, ShopTypes, DrawnInTurn,
                    CustomerPlaces
      <3>2. \A c \in Shop!Customers : Buys(c) => Buys(c)'
        BY <3>1 DEF Buys
      <3> QED
        BY <3>1, <3>2, HeldStill DEF Supplies
    <2>2. CASE Shop!CreateSupplier
      <3>1. /\ spc' = [spc EXCEPT ![joined] = "id"] /\ UNCHANGED <<locked, shop, cpc, visit>>
            /\ spc[joined] = "none" /\ spc \in [Shop!Suppliers -> SupplierPlaces]
        BY <2>2 DEF Shop!CreateSupplier, Shop!Main, Shop!customers, ShopInv, ShopTypes,
                    SuppliersInTurn, SupplierPlaces
      <3>2. \A s \in Shop!Suppliers : Supplies(s) => Supplies(s)'
        BY <3>1 DEF Supplies
      <3> QED
        BY <3>1, <3>2, HeldStill DEF Buys
    <2>3. CASE Shop!DrawDemand \/ Shop!DrawCap \/ Shop!JoinCustomer \/ Shop!JoinSupplier
      <3>1. UNCHANGED <<locked, shop, cpc, spc, visit>>
        BY <2>3 DEF Shop!DrawDemand, Shop!DrawCap, Shop!JoinCustomer, Shop!JoinSupplier,
                    Shop!customers, Shop!suppliers
      <3> QED
        BY <3>1, HeldStill DEF Buys, Supplies
    <2> QED
      BY <2>1, <2>2, <2>3 DEF Shop!MainStep
  <1>2. SuppliersInTurn'
    <2>1. /\ joined \in Nat /\ spc \in [Shop!Suppliers -> SupplierPlaces]
          /\ \A s \in Shop!Suppliers : s \in Nat
          /\ pc \in {"supplier", "cap"} => joined \in Shop!Suppliers
      BY SomeOfEach DEF ShopInv, ShopTypes, DrawnInTurn, SupplierPlaces, Shop!Suppliers
    <2>2. CASE Shop!CreateCustomer
      BY <2>2 DEF Shop!CreateCustomer, Shop!Main, Shop!suppliers, SuppliersInTurn
    <2>3. CASE Shop!DrawDemand
      <3>1. /\ pc = "demand" /\ UNCHANGED spc
            /\ \/ pc' = "create"
               \/ pc' = "supplier" /\ joined' = 0
        BY <2>3 DEF Shop!DrawDemand, Shop!suppliers
      <3>2. \A s \in Shop!Suppliers : spc'[s] = "none"
        BY <3>1 DEF SuppliersInTurn
      <3> QED
        BY <3>1, <3>2, ShopSets DEF SuppliersInTurn
    <2>4. CASE Shop!CreateSupplier
      <3>1. /\ pc = "supplier" /\ pc' = "cap" /\ joined' = joined
            /\ spc' = [spc EXCEPT ![joined] = "id"]
        BY <2>4 DEF Shop!CreateSupplier, Shop!Main
      <3>2. \A s \in Shop!Suppliers : s > joined => spc[s] = "none"
        BY <3>1 DEF SuppliersInTurn
      <3>3. \A s \in Shop!Suppliers : s > joined => spc'[s] = "none"
        BY <2>1, <3>1, <3>2
      <3> QED
        BY <3>1, <3>3 DEF SuppliersInTurn
    <2>5. CASE Shop!DrawCap
      <3>1. /\ pc = "cap" /\ UNCHANGED spc
            /\ \/ joined + 1 < SUPPLIER_NUMBER /\ pc' = "supplier" /\ joined' = joined + 1
               \/ pc' = "join" /\ joined' = 0
        BY <2>5 DEF Shop!DrawCap, Shop!suppliers
      <3>2. \A s \in Shop!Suppliers : s > joined => spc[s] = "none"
        BY <3>1 DEF SuppliersInTurn
      <3>3. CASE joined + 1 < SUPPLIER_NUMBER /\ pc' = "supplier" /\ joined' = joined + 1
        <4>1. joined + 1 \in Shop!Suppliers
          BY <2>1, <3>3, SomeOfEach DEF Shop!Suppliers
        <4> QED
          BY <2>1, <3>1, <3>2, <3>3, <4>1 DEF SuppliersInTurn
      <3>4. CASE pc' = "join" /\ joined' = 0
        BY <3>4, SomeOfEach DEF SuppliersInTurn
      <3> QED
        BY <3>1, <3>3, <3>4
    <2>6. CASE Shop!JoinCustomer
      <3>1. /\ pc = "join" /\ joined < CUSTOMER_NUMBER /\ joined' = joined + 1 /\ pc' = pc
            /\ joined = CUSTOMER_NUMBER - 1 => customers_satisfied' = 1
        BY <2>6 DEF Shop!JoinCustomer
      <3> QED
        BY <2>1, <3>1, SomeOfEach DEF SuppliersInTurn
    <2>7. CASE Shop!JoinSupplier
      <3>1. /\ pc = "join" /\ joined >= CUSTOMER_NUMBER /\ joined' = joined + 1
            /\ pc' \in {"join", "joined"}
            /\ pc' = "join" => joined' # CUSTOMER_NUMBER + SUPPLIER_NUMBER
            /\ UNCHANGED customers_satisfied
        BY <2>7 DEF Shop!JoinSupplier
      <3> QED
        BY <2>1, <3>1, SomeOfEach DEF SuppliersInTurn
    <2> QED
      BY <2>2, <2>3, <2>4, <2>5, <2>6, <2>7 DEF Shop!MainStep
  <1> QED
    BY <1>1, <1>2

LEMMA CustomerHolds ==
    ASSUME ShopInv, HeldFromInside, SuppliersInTurn,
           NEW c \in Shop!Customers, Shop!CustomerStep(c)
    PROVE  HeldFromInside' /\ SuppliersInTurn'
  <1>1. /\ UNCHANGED <<pc, joined, customers_satisfied, spc, visit>>
        /\ cpc \in [Shop!Customers -> CustomerPlaces] /\ shop \in [Shop!Customers -> Shop!Shops]
        /\ locked \in [Shop!Shops -> BOOLEAN]
    BY DEF Shop!CustomerStep, Shop!LookAtDemand, Shop!EnterShop, Shop!Buy, Shop!ClearStock,
           Shop!LeaveShop, Shop!main, Shop!suppliers, ShopInv, ShopTypes,
           CustomerPlaces, SupplierPlaces
  <1>2. SuppliersInTurn'
    BY <1>1 DEF SuppliersInTurn
  <1>3. CASE Shop!LookAtDemand(c)
    <2>1. /\ cpc[c] = "loop" /\ cpc'[c] \in {"lock", "left"} /\ UNCHANGED locked
          /\ \A d \in Shop!Customers : d # c => cpc'[d] = cpc[d] /\ shop'[d] = shop[d]
      BY <1>1, <1>3 DEF Shop!LookAtDemand, Shop!Customer
    <2> QED
      BY <1>1, <1>2, <2>1, HeldStill DEF Buys, Supplies
  <1>4. CASE Shop!EnterShop(c)
    <2>1. /\ cpc' = [cpc EXCEPT ![c] = "buy"] /\ cpc[c] = "lock"
          /\ locked' = [locked EXCEPT ![shop[c]] = TRUE] /\ UNCHANGED shop
      BY <1>4 DEF Shop!EnterShop, Shop!Customer, Shop!Lock
    <2>2. \A i \in Shop!Shops : i # shop[c] => locked'[i] = locked[i]
      BY <1>1, <2>1
    <2>3. \A d \in Shop!Customers : Buys(d) => Buys(d)'
      BY <1>1, <2>1 DEF Buys
    <2>4. Buys(c)' /\ shop'[c] = shop[c]
      BY <1>1, <2>1 DEF Buys
    <2>5. \A s \in Shop!Suppliers : Supplies(s)' <=> Supplies(s)
      BY <1>1 DEF Supplies
    <2> HIDE DEF Buys, Supplies
    <2> QED
      BY <1>1, <1>2, <2>1, <2>2, <2>3, <2>4, <2>5 DEF HeldFromInside
  <1>5. CASE Shop!Buy(c) \/ Shop!ClearStock(c)
    <2>1. /\ cpc'[c] \in {"clear", "unlock"} /\ UNCHANGED <<locked, shop>>
          /\ \A d \in Shop!Customers : d # c => cpc'[d] = cpc[d]
      BY <1>1, <1>5 DEF Shop!Buy, Shop!ClearStock, Shop!Customer
    <2> QED
      BY <1>1, <1>2, <2>1, HeldStill DEF Buys, Supplies
  <1>6. CASE Shop!LeaveShop(c)
    <2>1. /\ Buys(c) /\ locked' = [locked EXCEPT ![shop[c]] = FALSE] /\ UNCHANGED shop
          /\ \A d \in Shop!Customers : d # c => cpc'[d] = cpc[d]
      BY <1>1, <1>6 DEF Shop!LeaveShop, Shop!Customer, Shop!Unlock, Buys
    <2>2. \A i \in Shop!Shops : locked'[i] => locked[i] /\ i # shop[c]
      BY <1>1, <2>1
    <2>3. \A d \in Shop!Customers : d # c => (Buys(d)' <=> Buys(d))
      BY <2>1 DEF Buys
    <2>4. \A s \in Shop!Suppliers : Supplies(s)' <=> Supplies(s)
      BY <1>1 DEF Supplies
    <2> HIDE DEF Buys, Supplies
    <2> QED
      BY <1>1, <1>2, <2>1, <2>2, <2>3, <2>4 DEF HeldFromInside
  <1> QED
    BY <1>3, <1>4, <1>5, <1>6 DEF Shop!CustomerStep

LEMMA SupplierHolds ==
    ASSUME ShopInv, HeldFromInside, SuppliersInTurn,
           NEW s \in Shop!Suppliers, Shop!SupplierStep(s)
    PROVE  HeldFromInside' /\ SuppliersInTurn'
  <1>1. /\ UNCHANGED <<joined, customers_satisfied, cpc, shop>> /\ (pc' = pc \/ pc' = "crashed")
        /\ spc \in [Shop!Suppliers -> SupplierPlaces] /\ visit \in [Shop!Suppliers -> Shop!Shops]
        /\ locked \in [Shop!Shops -> BOOLEAN]
    BY DEF Shop!SupplierStep, Shop!ReadId, Shop!LookAtCustomers, Shop!SupplierEnter, Shop!Supply,
           Shop!Load, Shop!SupplierLeave, Shop!main, Shop!customers, ShopInv, ShopTypes,
           CustomerPlaces, SupplierPlaces
  <1>2. SuppliersInTurn'
    <2>1. spc[s] # "none" /\ \A t \in Shop!Suppliers : t # s => spc'[t] = spc[t]
      BY <1>1 DEF Shop!SupplierStep, Shop!ReadId, Shop!LookAtCustomers, Shop!SupplierEnter,
                  Shop!Supply, Shop!Load, Shop!SupplierLeave, Shop!Supplier
    <2>2. pc = "supplier" => joined \in Shop!Suppliers
      BY DEF ShopInv, DrawnInTurn
    <2> QED
      BY <1>1, <2>1, <2>2 DEF SuppliersInTurn
  <1>3. CASE Shop!ReadId(s)
    <2>1. /\ spc[s] = "id" /\ spc' = [spc EXCEPT ![s] = "loop"] /\ UNCHANGED <<locked, visit>>
      BY <1>3 DEF Shop!ReadId, Shop!Supplier
    <2> QED
      BY <1>1, <1>2, <2>1, HeldStill DEF Buys, Supplies
  <1>4. CASE Shop!LookAtCustomers(s)
    <2>1. /\ spc[s] = "loop" /\ spc'[s] \in {"lock", "left"} /\ UNCHANGED locked
          /\ \A t \in Shop!Suppliers : t # s => spc'[t] = spc[t] /\ visit'[t] = visit[t]
      BY <1>1, <1>4 DEF Shop!LookAtCustomers, Shop!Supplier
    <2> QED
      BY <1>1, <1>2, <2>1, HeldStill DEF Buys, Supplies
  <1>5. CASE Shop!SupplierEnter(s)
    <2>1. /\ spc' = [spc EXCEPT ![s] = "supply"] /\ spc[s] = "lock"
          /\ locked' = [locked EXCEPT ![visit[s]] = TRUE] /\ UNCHANGED visit
      BY <1>5 DEF Shop!SupplierEnter, Shop!Supplier, Shop!Lock
    <2>2. \A i \in Shop!Shops : i # visit[s] => locked'[i] = locked[i]
      BY <1>1, <2>1
    <2>3. \A t \in Shop!Suppliers : Supplies(t) => Supplies(t)'
      BY <1>1, <2>1 DEF Supplies
    <2>4. Supplies(s)' /\ visit'[s] = visit[s]
      BY <1>1, <2>1 DEF Supplies
    <2>5. \A c \in Shop!Customers : Buys(c)' <=> Buys(c)
      BY <1>1 DEF Buys
    <2> HIDE DEF Buys, Supplies
    <2> QED
      BY <1>1, <1>2, <2>1, <2>2, <2>3, <2>4, <2>5 DEF HeldFromInside
  <1>6. CASE Shop!Supply(s) \/ Shop!Load(s)
    <2>1. /\ spc'[s] \in {"load", "unlock"} /\ UNCHANGED <<locked, visit>>
          /\ \A t \in Shop!Suppliers : t # s => spc'[t] = spc[t]
      BY <1>1, <1>6 DEF Shop!Supply, Shop!Load, Shop!Supplier
    <2> QED
      BY <1>1, <1>2, <2>1, HeldStill DEF Buys, Supplies
  <1>7. CASE Shop!SupplierLeave(s)
    <2>1. /\ Supplies(s) /\ locked' = [locked EXCEPT ![visit[s]] = FALSE] /\ UNCHANGED visit
          /\ \A t \in Shop!Suppliers : t # s => spc'[t] = spc[t]
      BY <1>1, <1>7 DEF Shop!SupplierLeave, Shop!Supplier, Shop!Unlock, Supplies
    <2>2. \A i \in Shop!Shops : locked'[i] => locked[i] /\ i # visit[s]
      BY <1>1, <2>1
    <2>3. \A t \in Shop!Suppliers : t # s => (Supplies(t)' <=> Supplies(t))
      BY <2>1 DEF Supplies
    <2>4. \A c \in Shop!Customers : Buys(c)' <=> Buys(c)
      BY <1>1 DEF Buys
    <2> HIDE DEF Buys, Supplies
    <2> QED
      BY <1>1, <1>2, <2>1, <2>2, <2>3, <2>4 DEF HeldFromInside
  <1> QED
    BY <1>3, <1>4, <1>5, <1>6, <1>7 DEF Shop!SupplierStep

(* However many threads and shops there are, a mutex that is taken is in   *)
(* the hands of somebody inside the shop who holds no other and goes on,   *)
(* and the main thread waits for suppliers only once they were told to     *)
(* stop: the threads of the task cannot lock each other up.                *)
THEOREM NobodyLockedOut ==
    TasksSpec => [](Shop!JoinsSomebody /\ \A i \in Shop!Shops : Shop!LockedFromInside(i))
  <1>1. TasksInit => HeldFromInside /\ SuppliersInTurn
    BY ShopSets DEF TasksInit, Shop!Init, HeldFromInside, SuppliersInTurn
  <1>2. /\ ShopInv /\ HeldFromInside /\ SuppliersInTurn
        /\ [TasksNext]_<<task, vars, shops>>
        => HeldFromInside' /\ SuppliersInTurn'
    <2> SUFFICES ASSUME ShopInv, HeldFromInside, SuppliersInTurn,
                        [TasksNext]_<<task, vars, shops>>
                 PROVE  HeldFromInside' /\ SuppliersInTurn'
      OBVIOUS
    <2>1. CASE UNCHANGED shops
      BY <2>1 DEF shops, HeldFromInside, SuppliersInTurn, Buys, Supplies
    <2>2. CASE Shop!Next
      BY <2>2, MainHolds, CustomerHolds, SupplierHolds DEF Shop!Next
    <2> QED
      BY <2>1, <2>2 DEF TasksNext, RunCounter, RunShop
  <1>3. ShopInv /\ HeldFromInside /\ SuppliersInTurn
        => Shop!JoinsSomebody /\ \A i \in Shop!Shops : Shop!LockedFromInside(i)
    <2> SUFFICES ASSUME ShopInv, HeldFromInside, SuppliersInTurn
                 PROVE  Shop!JoinsSomebody /\ \A i \in Shop!Shops : Shop!LockedFromInside(i)
      OBVIOUS
    <2>1. Shop!JoinsSomebody
      BY SomeOfEach DEF SuppliersInTurn, Shop!JoinsSomebody
    <2> QED
      BY <2>1 DEF HeldFromInside, Buys, Supplies, Shop!LockedFromInside
  <1> QED
    BY <1>1, <1>2, <1>3, ShopInvariance, PTL DEF TasksSpec
=============================================================================
