-------------------------- MODULE RoutingTableProofs --------------------------
(***************************************************************************)
(* Proofs about one node's routing table, for any fabric and any sequence  *)
(* of add_neighbor, remove_neighbor and update_from_hello calls.           *)
(***************************************************************************)
EXTENDS RoutingTable, FiniteSetTheorems, TLAPS

-----------------------------------------------------------------------------
(* Picking elements by their places.                                         *)

\* The place of i among the members of I.
Place(i, I) == Cardinality({j \in I : j <= i})

LEMMA PlacesFinite ==
  ASSUME NEW n \in Nat, NEW I \in SUBSET (1 .. n)
  PROVE  IsFiniteSet(I) /\ Cardinality(I) \in Nat
<1> DEFINE N == 1 .. n
<1>1. IsFiniteSet(N)
  BY FS_Interval
<1>2. I \in SUBSET N
  OBVIOUS
<1> HIDE DEF N
<1> QED
  BY <1>1, <1>2, FS_Subset, FS_CardinalityType

LEMMA PlaceBounds ==
  ASSUME NEW n \in Nat, NEW I \in SUBSET (1 .. n), NEW i \in I
  PROVE  /\ IsFiniteSet(I) /\ Cardinality(I) \in Nat
         /\ IsFiniteSet({j \in I : j <= i}) /\ Place(i, I) \in 1 .. Cardinality(I)
<1> DEFINE P == {j \in I : j <= i}
<1>1. IsFiniteSet(I) /\ Cardinality(I) \in Nat
  BY PlacesFinite
<1>2. IsFiniteSet(P) /\ Cardinality(P) \in Nat /\ Cardinality(P) <= Cardinality(I)
  <2>1. P \in SUBSET I
    OBVIOUS
  <2> HIDE DEF P
  <2> QED
    BY <1>1, <2>1, FS_Subset, FS_CardinalityType
<1>3. P # {}
  <2>1. i \in P
    OBVIOUS
  <2> QED
    BY <2>1
<1>4. Cardinality(P) # 0
  BY <1>2, <1>3, FS_EmptySet
<1> HIDE DEF P
<1>5. Cardinality(P) \in 1 .. Cardinality(I)
  BY <1>1, <1>2, <1>4
<1> QED
  BY <1>1, <1>2, <1>5 DEF P, Place

LEMMA PlaceGrows ==
  ASSUME NEW n \in Nat, NEW I \in SUBSET (1 .. n), NEW a \in I, NEW b \in I, a < b
  PROVE  Place(a, I) < Place(b, I)
<1> DEFINE A == {j \in I : j <= a}  B == {j \in I : j <= b}
<1>1. IsFiniteSet(A) /\ IsFiniteSet(B) /\ Place(a, I) = Cardinality(A) /\ Place(b, I) = Cardinality(B)
  BY PlaceBounds DEF Place
<1>2. b \notin A /\ A \cup {b} \in SUBSET B
  <2>1. a \in Int /\ b \in Int /\ \A j \in I : j \in Int
    OBVIOUS
  <2>2. \A j \in I : j <= a => j <= b
    BY <2>1
  <2>3. ~(b <= a) /\ b <= b
    BY <2>1
  <2> QED
    BY <2>2, <2>3
<1> HIDE DEF A, B
<1>3. Cardinality(A \cup {b}) = Cardinality(A) + 1 /\ IsFiniteSet(A \cup {b})
  BY <1>1, <1>2, FS_AddElement
<1>4. Cardinality(A \cup {b}) <= Cardinality(B)
  BY <1>1, <1>2, FS_Subset
<1>5. Cardinality(A) \in Nat /\ Cardinality(B) \in Nat
  BY <1>1, FS_CardinalityType
<1> QED
  BY <1>1, <1>3, <1>4, <1>5

\* Every place is some member's, and only one's.
LEMMA PlaceTaken ==
  ASSUME NEW n \in Nat, NEW I \in SUBSET (1 .. n)
  PROVE  /\ IsFiniteSet(I) /\ Cardinality(I) \in Nat
         /\ \A a, b \in I : Place(a, I) = Place(b, I) => a = b
         /\ \A k \in 1 .. Cardinality(I) : \E i \in I : Place(i, I) = k
<1> DEFINE T == 1 .. Cardinality(I)
           R == [i \in I |-> Place(i, I)]
<1>1. IsFiniteSet(I) /\ Cardinality(I) \in Nat
  BY PlacesFinite
<1>2. \A a, b \in I : Place(a, I) = Place(b, I) => a = b
  <2> SUFFICES ASSUME NEW a \in I, NEW b \in I, a # b PROVE Place(a, I) # Place(b, I)
    OBVIOUS
  <2>1. a \in Nat /\ b \in Nat
    OBVIOUS
  <2>2. Place(a, I) \in Int /\ Place(b, I) \in Int
    <3>1. \A i \in I : Place(i, I) \in 1 .. Cardinality(I)
      BY PlaceBounds
    <3> QED
      BY <3>1
  <2>3. CASE a < b
    <3>1. Place(a, I) < Place(b, I)
      BY <2>3, PlaceGrows
    <3> QED
      BY <2>2, <3>1
  <2>4. CASE b < a
    <3>1. Place(b, I) < Place(a, I)
      BY <2>4, PlaceGrows
    <3> QED
      BY <2>2, <3>1
  <2> QED
    BY <2>1, <2>3, <2>4
<1>3. R \in [I -> T]
  BY PlaceBounds
<1>4. R \in Injection(I, T)
  BY <1>2, <1>3 DEF Injection, IsInjective
<1>5. IsFiniteSet(T) /\ Cardinality(T) = Cardinality(I)
  BY <1>1, FS_Interval
<1>6. R \in Surjection(I, T)
  <2> HIDE DEF R, T
  <2> QED
    BY <1>4, <1>5, FS_Injection
<1>7. \A k \in T : \E i \in I : R[i] = k
  <2> HIDE DEF R, T
  <2> QED
    BY <1>6 DEF Surjection
<1> QED
  BY <1>1, <1>2, <1>7

\* Pick holds exactly the elements at the places asked for, as a sequence, and
\* repeats none that those places do not repeat.
LEMMA PickFacts ==
  ASSUME NEW S, NEW s \in Seq(S), NEW I \in SUBSET (1 .. Len(s))
  PROVE  /\ Pick(s, I) \in Seq(S) /\ Len(Pick(s, I)) = Cardinality(I) /\ Cardinality(I) \in Nat
         /\ Range(Pick(s, I)) = {s[i] : i \in I}
         /\ (\A a, b \in I : s[a] = s[b] => a = b) => IsInjective(Pick(s, I))
<1> DEFINE c == Cardinality(I)
           At(k) == CHOOSE i \in I : Place(i, I) = k
           p == [k \in 1 .. c |-> s[At(k)]]
<1>1. Len(s) \in Nat /\ \A i \in 1 .. Len(s) : s[i] \in S
  OBVIOUS
<1>2. c \in Nat /\ \A a, b \in I : Place(a, I) = Place(b, I) => a = b
  BY <1>1, PlaceTaken
<1>3. \A k \in 1 .. c : At(k) \in I /\ Place(At(k), I) = k
  BY <1>1, PlaceTaken
<1>4. \A i \in I : Place(i, I) \in 1 .. c /\ At(Place(i, I)) = i
  <2> SUFFICES ASSUME NEW i \in I PROVE Place(i, I) \in 1 .. c /\ At(Place(i, I)) = i
    OBVIOUS
  <2>1. Place(i, I) \in 1 .. c
    BY <1>1, PlaceBounds
  <2>2. At(Place(i, I)) \in I /\ Place(At(Place(i, I)), I) = Place(i, I)
    BY <1>3, <2>1
  <2> QED
    BY <1>2, <2>1, <2>2
<1>5. Pick(s, I) = p
  BY DEF Pick, Place
<1> HIDE DEF c, At
<1>6. \A k \in 1 .. c : p[k] = s[At(k)] /\ p[k] \in S
  BY <1>1, <1>3
<1>7. p \in Seq(S) /\ Len(p) = c /\ DOMAIN p = 1 .. c
  <2>1. p \in [1 .. c -> S] /\ c \in Nat
    BY <1>2, <1>6
  <2> HIDE DEF p
  <2> QED
    BY <2>1
<1> HIDE DEF p
<1>8. Range(p) = {s[i] : i \in I}
  <2>1. ASSUME NEW k \in 1 .. c PROVE p[k] \in {s[i] : i \in I}
    BY <1>3, <1>6
  <2>2. ASSUME NEW i \in I PROVE s[i] \in Range(p)
    <3>1. Place(i, I) \in DOMAIN p /\ p[Place(i, I)] = s[i]
      BY <1>4, <1>6, <1>7
    <3> QED
      BY <3>1 DEF Range
  <2> QED
    BY <1>7, <2>1, <2>2 DEF Range
<1>9. ASSUME \A a, b \in I : s[a] = s[b] => a = b PROVE IsInjective(p)
  <2> SUFFICES ASSUME NEW k \in 1 .. c, NEW l \in 1 .. c, p[k] = p[l] PROVE k = l
    BY <1>7 DEF IsInjective
  <2>1. At(k) = At(l)
    BY <1>3, <1>6, <1>9
  <2> QED
    BY <1>3, <2>1
<1> QED
  BY <1>2, <1>5, <1>7, <1>8, <1>9 DEF c

-----------------------------------------------------------------------------
(* What the table's lists and dictionaries are.                              *)

Fabric == Others \cup {Me}
Dicts  == UNION {[D -> Ports] : D \in SUBSET Others}
Rings  == {r \in Seq(Fabric) : r # <<>> => Me \in Range(r)}
Table  == [neighbors : Dicts, ring : Rings, routes : Dicts]

LEMMA DictFacts ==
  ASSUME NEW d
  PROVE  d \in Dicts <=> /\ d = [k \in DOMAIN d |-> d[k]]
                         /\ DOMAIN d \subseteq Others /\ \A k \in DOMAIN d : d[k] \in Ports
BY DEF Dicts

LEMMA UpdateFacts ==
  ASSUME NEW d \in Dicts, NEW e \in Dicts
  PROVE  /\ Update(d, e) \in Dicts /\ DOMAIN Update(d, e) = DOMAIN d \cup DOMAIN e
         /\ \A k \in DOMAIN e : Update(d, e)[k] = e[k]
<1>1. DOMAIN Update(d, e) = DOMAIN d \cup DOMAIN e
  BY DEF Update
<1>2. \A k \in DOMAIN d \cup DOMAIN e : Update(d, e)[k] = IF k \in DOMAIN e THEN e[k] ELSE d[k]
  BY DEF Update
<1>3. Update(d, e) = [k \in DOMAIN Update(d, e) |-> Update(d, e)[k]]
  BY DEF Update
<1>4. DOMAIN Update(d, e) \subseteq Others /\ \A k \in DOMAIN Update(d, e) : Update(d, e)[k] \in Ports
  BY <1>1, <1>2, DictFacts
<1> QED
  BY <1>1, <1>2, <1>3, <1>4, DictFacts

LEMMA AssignFacts ==
  ASSUME NEW d \in Dicts, NEW n \in Others, NEW port \in Ports
  PROVE  Assign(d, n, port) \in Dicts /\ DOMAIN Assign(d, n, port) = DOMAIN d \cup {n}
<1> DEFINE e == [x \in {n} |-> port]
<1>1. e \in Dicts /\ DOMAIN e = {n}
  <2>1. DOMAIN e = {n} /\ \A k \in {n} : e[k] = port
    OBVIOUS
  <2>2. e = [k \in DOMAIN e |-> e[k]]
    OBVIOUS
  <2> HIDE DEF e
  <2> QED
    BY <2>1, <2>2, DictFacts
<1>2. Assign(d, n, port) = Update(d, e)
  BY DEF Assign
<1> HIDE DEF e
<1> QED
  BY <1>1, <1>2, UpdateFacts

LEMMA PopFacts ==
  ASSUME NEW d \in Dicts, NEW n
  PROVE  Pop(d, n) \in Dicts /\ DOMAIN Pop(d, n) = DOMAIN d \ {n}
<1>1. Pop(d, n) = [k \in DOMAIN d \ {n} |-> d[k]]
  BY DEF Pop, Restrict
<1>2. DOMAIN Pop(d, n) = DOMAIN d \ {n} /\ \A k \in DOMAIN d \ {n} : Pop(d, n)[k] = d[k]
  BY <1>1
<1>3. Pop(d, n) = [k \in DOMAIN Pop(d, n) |-> Pop(d, n)[k]]
  BY <1>1
<1>4. DOMAIN d \subseteq Others /\ \A k \in DOMAIN d : d[k] \in Ports
  BY DictFacts
<1> QED
  BY <1>2, <1>3, <1>4, DictFacts

\* Appending keeps a ring's members, and adds one once.
LEMMA AppendNewFacts ==
  ASSUME NEW r \in Seq(Fabric), NEW x \in Fabric
  PROVE  /\ AppendNew(r, x) \in Seq(Fabric) /\ Range(AppendNew(r, x)) = Range(r) \cup {x}
         /\ IsInjective(r) => IsInjective(AppendNew(r, x))
         /\ x \in Range(r) => AppendNew(r, x) = r
<1>1. CASE x \in Range(r)
  BY <1>1 DEF AppendNew
<1>2. CASE x \notin Range(r)
  <2> DEFINE a == Append(r, x)
  <2>1. /\ a \in Seq(Fabric) /\ Len(r) \in Nat /\ DOMAIN a = 1 .. Len(r) + 1
        /\ DOMAIN r = 1 .. Len(r)
        /\ \A i \in 1 .. Len(r) : a[i] = r[i]
        /\ a[Len(r) + 1] = x
    OBVIOUS
  <2>2. AppendNew(r, x) = a
    BY <1>2 DEF AppendNew
  <2> HIDE DEF a
  <2>3. \A i \in 1 .. Len(r) + 1 : i \in 1 .. Len(r) \/ i = Len(r) + 1
    BY <2>1
  <2>4. Range(a) = Range(r) \cup {x}
    BY <2>1, <2>3 DEF Range
  <2>5. ASSUME IsInjective(r), NEW i \in DOMAIN a, NEW j \in DOMAIN a, a[i] = a[j] PROVE i = j
    <3>1. \A k \in 1 .. Len(r) : r[k] # x
      BY <1>2, <2>1 DEF Range
    <3> QED
      BY <2>1, <2>3, <2>5, <3>1 DEF IsInjective
  <2> QED
    BY <1>2, <2>1, <2>2, <2>4, <2>5 DEF IsInjective
<1> QED
  BY <1>1, <1>2

\* The ring without n is the ring, but for n.
LEMMA WithoutFacts ==
  ASSUME NEW r \in Seq(Fabric), NEW n
  PROVE  LET w == Pick(r, {i \in DOMAIN r : r[i] # n})
         IN /\ w \in Seq(Fabric) /\ Range(w) = Range(r) \ {n}
            /\ IsInjective(r) => IsInjective(w)
<1> DEFINE I == {i \in DOMAIN r : r[i] # n}
<1>1. DOMAIN r = 1 .. Len(r) /\ I \in SUBSET (1 .. Len(r))
  OBVIOUS
<1>2. {r[i] : i \in I} = Range(r) \ {n}
  BY DEF Range
<1>3. IsInjective(r) => \A a, b \in I : r[a] = r[b] => a = b
  BY DEF IsInjective
<1> HIDE DEF I
<1>4. /\ Pick(r, I) \in Seq(Fabric) /\ Range(Pick(r, I)) = {r[i] : i \in I}
      /\ (\A a, b \in I : r[a] = r[b] => a = b) => IsInjective(Pick(r, I))
  BY <1>1, PickFacts
<1> QED
  BY <1>2, <1>3, <1>4 DEF I

LEMMA ConcatFacts ==
  ASSUME NEW r \in Seq(Fabric), NEW q \in Seq(Fabric)
  PROVE  /\ r \o q \in Seq(Fabric) /\ Range(r \o q) = Range(r) \cup Range(q)
         /\ IsInjective(r) /\ IsInjective(q) /\ Range(r) \cap Range(q) = {} => IsInjective(r \o q)
<1> DEFINE c == r \o q  m == Len(r)  n == Len(q)
<1>1. /\ c \in Seq(Fabric) /\ m \in Nat /\ n \in Nat /\ DOMAIN c = 1 .. m + n
      /\ DOMAIN r = 1 .. m /\ DOMAIN q = 1 .. n
      /\ \A i \in 1 .. m : c[i] = r[i]
      /\ \A i \in 1 .. n : c[m + i] = q[i]
  OBVIOUS
<1> HIDE DEF c, m, n
<1>2. ASSUME NEW i \in 1 .. m + n, i \notin 1 .. m
      PROVE  i - m \in 1 .. n /\ c[i] = q[i - m]
  <2>1. i - m \in 1 .. n /\ m + (i - m) = i
    BY <1>1, <1>2
  <2> QED
    BY <1>1, <2>1
<1>3. Range(c) = Range(r) \cup Range(q)
  <2>1. ASSUME NEW i \in DOMAIN c PROVE c[i] \in Range(r) \cup Range(q)
    BY <1>1, <1>2, <2>1 DEF Range
  <2>2. ASSUME NEW i \in DOMAIN r PROVE r[i] \in Range(c)
    <3>1. i \in DOMAIN c
      BY <1>1
    <3> QED
      BY <1>1, <3>1 DEF Range
  <2>3. ASSUME NEW i \in DOMAIN q PROVE q[i] \in Range(c)
    <3>1. m + i \in DOMAIN c /\ c[m + i] = q[i]
      BY <1>1
    <3> QED
      BY <3>1 DEF Range
  <2>4. Range(r) \subseteq Range(c) /\ Range(q) \subseteq Range(c)
    BY <2>2, <2>3 DEF Range
  <2>5. Range(c) \subseteq Range(r) \cup Range(q)
    BY <2>1 DEF Range
  <2> QED
    BY <2>4, <2>5
<1>4. ASSUME IsInjective(r), IsInjective(q), Range(r) \cap Range(q) = {},
             NEW i \in DOMAIN c, NEW j \in DOMAIN c, c[i] = c[j]
      PROVE  i = j
  <2>1. ASSUME NEW k \in 1 .. m, NEW l \in 1 .. n PROVE r[k] # q[l]
    BY <1>1, <1>4 DEF Range
  <2>2. CASE i \in 1 .. m /\ j \in 1 .. m
    BY <1>1, <1>4, <2>2 DEF IsInjective
  <2>3. CASE i \notin 1 .. m /\ j \notin 1 .. m
    <3>1. i - m \in DOMAIN q /\ j - m \in DOMAIN q /\ q[i - m] = q[j - m]
      BY <1>1, <1>2, <1>4, <2>3
    <3>2. i - m = j - m
      BY <1>4, <3>1 DEF IsInjective
    <3> QED
      BY <1>1, <3>2
  <2>4. CASE i \in 1 .. m /\ j \notin 1 .. m
    BY <1>1, <1>2, <1>4, <2>1, <2>4
  <2>5. CASE i \notin 1 .. m /\ j \in 1 .. m
    BY <1>1, <1>2, <1>4, <2>1, <2>5
  <2> QED
    BY <2>2, <2>3, <2>4, <2>5
<1> QED
  BY <1>1, <1>3, <1>4 DEF c, IsInjective

\* A partial HELLO adds only nodes it names, and none twice.
LEMMA MergeFacts ==
  ASSUME NEW r \in Seq(Fabric), NEW path \in Seq(Fabric)
  PROVE  LET h == r \o Pick(path, News(r, path))
         IN /\ h \in Seq(Fabric) /\ Range(r) \subseteq Range(h)
            /\ Range(h) \subseteq Range(r) \cup Range(path)
            /\ IsInjective(r) => IsInjective(h)
<1> DEFINE I == News(r, path)  q == Pick(path, I)
<1>1. I \in SUBSET (1 .. Len(path)) /\ DOMAIN path = 1 .. Len(path) /\ Len(path) \in Nat
  BY DEF News
<1>2. \A i \in I : path[i] \notin Range(r) /\ path[i] \in Range(path)
  BY DEF News, Range
<1>3. \A a, b \in I : path[a] = path[b] => a = b
  <2> SUFFICES ASSUME NEW a \in I, NEW b \in I, path[a] = path[b] PROVE a = b
    OBVIOUS
  <2>1. a \in 1 .. Len(path) /\ b \in 1 .. Len(path)
    BY <1>1
  <2>2. \A j \in 1 .. a - 1 : path[a] # path[j]
    BY DEF News
  <2>3. \A j \in 1 .. b - 1 : path[b] # path[j]
    BY DEF News
  <2> HIDE DEF I
  <2>4. ~(a < b)
    BY <2>1, <2>3, <1>1
  <2>5. ~(b < a)
    BY <2>1, <2>2, <1>1
  <2> QED
    BY <2>1, <2>4, <2>5
<1> HIDE DEF I
<1>4. q \in Seq(Fabric) /\ Range(q) = {path[i] : i \in I} /\ IsInjective(q)
  BY <1>1, <1>3, PickFacts
<1> HIDE DEF q
<1>5. Range(q) \subseteq Range(path) /\ Range(r) \cap Range(q) = {}
  BY <1>2, <1>4
<1>6. /\ r \o q \in Seq(Fabric) /\ Range(r \o q) = Range(r) \cup Range(q)
      /\ IsInjective(r) => IsInjective(r \o q)
  BY <1>4, <1>5, ConcatFacts
<1> QED
  BY <1>5, <1>6 DEF q, I

-----------------------------------------------------------------------------
(* What recompute() does.                                                    *)

\* Every member but the node itself is routed the shorter way from where the
\* node stands to where the member stands.
Routed(t) ==
  \A m, i \in DOMAIN t.ring :
    t.ring[m] = Me /\ i # m => /\ t.ring[i] \in DOMAIN t.routes
                               /\ t.routes[t.ring[i]] = ShorterWay(i, m, Len(t.ring))

LEMMA RingRoutesFacts ==
  ASSUME NEW r \in Seq(Fabric)
  PROVE  RingRoutes(r, Me) \in Dicts /\ DOMAIN RingRoutes(r, Me) = Range(r) \ {Me}
<1> DEFINE e == RingRoutes(r, Me)
<1>1. DOMAIN e = Range(r) \ {Me} /\ e = [k \in DOMAIN e |-> e[k]]
  BY DEF RingRoutes
<1>2. \A k \in DOMAIN e : e[k] \in Ports
  BY DEF RingRoutes, ShorterWay, Ports
<1>3. Range(r) \subseteq Fabric
  BY DEF Range
<1> HIDE DEF e
<1>4. e \in Dicts
  BY <1>1, <1>2, <1>3, DictFacts DEF Fabric
<1> QED
  BY <1>1, <1>4 DEF e

\* On a ring that lists no node twice, a place found is the only one.
LEMMA RingRoutesAgree ==
  ASSUME NEW r \in Seq(Fabric), IsInjective(r), NEW m \in DOMAIN r, r[m] = Me,
         NEW i \in DOMAIN r, i # m
  PROVE  /\ r[i] \in DOMAIN RingRoutes(r, Me)
         /\ RingRoutes(r, Me)[r[i]] = ShorterWay(i, m, Len(r))
<1> DEFINE x == r[i]
<1>1. DOMAIN r = 1 .. Len(r) /\ m \in Int /\ i \in Int
  OBVIOUS
<1>2. {k \in 1 .. Len(r) : r[k] = Me} = {m} /\ {k \in 1 .. Len(r) : r[k] = x} = {i}
  BY <1>1 DEF IsInjective
<1>3. x \in Range(r) \ {Me}
  BY DEF IsInjective, Range
<1> HIDE DEF x
<1>4. Min({m}) = m /\ Max({i}) = i
  BY <1>1 DEF Min, Max
<1>5. SelectInSeq(r, LAMBDA y : y = Me) = m
  BY <1>2, <1>4 DEF SelectInSeq
<1>6. SelectLastInSeq(r, LAMBDA y : y = x) = i
  BY <1>2, <1>4 DEF SelectLastInSeq
<1>7. x \in DOMAIN RingRoutes(r, Me) /\ RingRoutes(r, Me)[x] = ShorterWay(i, m, Len(r))
  BY <1>3, <1>5, <1>6 DEF RingRoutes
<1> QED
  BY <1>7 DEF x

\* recompute() leaves ring and neighbours alone, routes nobody it has not been
\* told of, and routes every member of a ring without repetitions.
Recomputed(u, t) ==
  /\ u \in Table /\ u.ring = t.ring /\ u.neighbors = t.neighbors
  /\ DOMAIN u.routes \subseteq DOMAIN t.routes \cup DOMAIN t.neighbors \cup Range(t.ring)
  /\ IsInjective(t.ring) => Routed(u)

LEMMA RecomputeFacts == ASSUME NEW t \in Table PROVE Recomputed(Recompute(t, Me), t)
<1> DEFINE u == Recompute(t, Me)  r == t.ring
<1>1. /\ t = [neighbors |-> t.neighbors, ring |-> r, routes |-> t.routes]
      /\ t.neighbors \in Dicts /\ t.routes \in Dicts /\ r \in Rings /\ r \in Seq(Fabric)
      /\ Len(r) \in Nat /\ DOMAIN r = 1 .. Len(r)
  BY DEF Table, Rings
<1>2. CASE Len(r) < 2
  <2>1. u = [neighbors |-> t.neighbors, ring |-> r, routes |-> t.neighbors]
    BY <1>1, <1>2 DEF Recompute
  <2>2. \A m, i \in DOMAIN r : i = m
    BY <1>1, <1>2
  <2> HIDE DEF u
  <2>3. u \in Table /\ u.ring = r /\ u.neighbors = t.neighbors /\ u.routes = t.neighbors
    BY <1>1, <2>1 DEF Table
  <2>4. Routed(u)
    BY <2>2, <2>3 DEF Routed
  <2> QED
    BY <2>3, <2>4 DEF Recomputed, u
<1>3. CASE ~(Len(r) < 2)
  <2> DEFINE e == RingRoutes(r, Me)
  <2>1. r # <<>>
    BY <1>1, <1>3
  <2>2. Me \in Range(r) /\ Me \in Fabric
    BY <1>1, <2>1 DEF Rings, Fabric
  <2>3. AppendNew(r, Me) = r
    BY <2>2 DEF AppendNew
  <2>4. u = [neighbors |-> t.neighbors, ring |-> r, routes |-> Update(t.routes, e)]
    BY <1>1, <1>3, <2>3 DEF Recompute
  <2>5. e \in Dicts /\ DOMAIN e = Range(r) \ {Me}
    BY <1>1, RingRoutesFacts
  <2> HIDE DEF e, u
  <2>6. /\ Update(t.routes, e) \in Dicts /\ DOMAIN Update(t.routes, e) = DOMAIN t.routes \cup DOMAIN e
        /\ \A k \in DOMAIN e : Update(t.routes, e)[k] = e[k]
    BY <1>1, <2>5, UpdateFacts
  <2>7. u \in Table /\ u.ring = r /\ u.neighbors = t.neighbors /\ u.routes = Update(t.routes, e)
    BY <1>1, <2>4, <2>6 DEF Table
  <2>8. ASSUME IsInjective(r), NEW m \in DOMAIN r, NEW i \in DOMAIN r, r[m] = Me, i # m
        PROVE  r[i] \in DOMAIN u.routes /\ u.routes[r[i]] = ShorterWay(i, m, Len(r))
    <3>1. r[i] \in DOMAIN e /\ e[r[i]] = ShorterWay(i, m, Len(r))
      BY <1>1, <2>8, RingRoutesAgree DEF e
    <3> QED
      BY <2>6, <2>7, <3>1
  <2>9. IsInjective(r) => Routed(u)
    BY <2>7, <2>8 DEF Routed
  <2> QED
    BY <2>5, <2>6, <2>7, <2>9 DEF Recomputed, u
<1> QED
  BY <1>2, <1>3

\* A ring that has the node in it, with what each method makes of it.
LEMMA AddFacts ==
  ASSUME NEW t \in Table, NEW n \in Others, NEW port \in Ports
  PROVE  LET u == AddNeighbor(t, Me, n, port)
         IN /\ u \in Table
            /\ Range(u.ring) \subseteq Range(t.ring) \cup {n, Me}
            /\ DOMAIN u.neighbors \subseteq DOMAIN t.neighbors \cup {n}
            /\ DOMAIN u.routes \subseteq DOMAIN t.routes \cup DOMAIN t.neighbors \cup Range(t.ring) \cup {n, Me}
            /\ IsInjective(t.ring) => IsInjective(u.ring) /\ Routed(u)
<1> DEFINE r == AppendNew(AppendNew(t.ring, n), Me)
           d == Assign(t.neighbors, n, port)
           e == Assign(t.routes, n, port)
           v == [neighbors |-> d, ring |-> r, routes |-> e]
<1>1. t.ring \in Seq(Fabric) /\ t.neighbors \in Dicts /\ t.routes \in Dicts /\ n \in Fabric /\ Me \in Fabric
  BY DEF Table, Rings, Fabric
<1>2. /\ r \in Seq(Fabric) /\ Range(r) = Range(t.ring) \cup {n} \cup {Me}
      /\ IsInjective(t.ring) => IsInjective(r)
  <2> DEFINE q == AppendNew(t.ring, n)
  <2>1. /\ q \in Seq(Fabric) /\ Range(q) = Range(t.ring) \cup {n}
        /\ IsInjective(t.ring) => IsInjective(q)
    BY <1>1, AppendNewFacts
  <2> HIDE DEF q
  <2>2. /\ AppendNew(q, Me) \in Seq(Fabric) /\ Range(AppendNew(q, Me)) = Range(q) \cup {Me}
        /\ IsInjective(q) => IsInjective(AppendNew(q, Me))
    BY <1>1, <2>1, AppendNewFacts
  <2> QED
    BY <2>1, <2>2 DEF q
<1>3. /\ d \in Dicts /\ DOMAIN d = DOMAIN t.neighbors \cup {n}
      /\ e \in Dicts /\ DOMAIN e = DOMAIN t.routes \cup {n}
  BY <1>1, AssignFacts
<1>4. AddNeighbor(t, Me, n, port) = Recompute(v, Me)
  BY DEF AddNeighbor
<1> HIDE DEF r, d, e
<1>5. v \in Table /\ v.ring = r /\ v.neighbors = d /\ v.routes = e
  BY <1>2, <1>3 DEF Table, Rings
<1> HIDE DEF v
<1>6. Recomputed(Recompute(v, Me), v)
  BY <1>5, RecomputeFacts
<1> QED
  BY <1>2, <1>3, <1>4, <1>5, <1>6 DEF Recomputed

LEMMA RemoveFacts ==
  ASSUME NEW t \in Table, NEW n \in Others
  PROVE  LET u == RemoveNeighbor(t, Me, n)
         IN /\ u \in Table
            /\ Range(u.ring) = Range(t.ring) \ {n}
            /\ DOMAIN u.neighbors = DOMAIN t.neighbors \ {n}
            /\ DOMAIN u.routes \subseteq (DOMAIN t.routes \cup DOMAIN t.neighbors \cup Range(t.ring)) \ {n}
            /\ IsInjective(t.ring) => IsInjective(u.ring) /\ Routed(u)
<1> DEFINE r == Pick(t.ring, {i \in DOMAIN t.ring : t.ring[i] # n})
           d == Pop(t.neighbors, n)
           e == Pop(t.routes, n)
           v == [neighbors |-> d, ring |-> r, routes |-> e]
<1>1. t.ring \in Seq(Fabric) /\ t.ring \in Rings /\ t.neighbors \in Dicts /\ t.routes \in Dicts /\ n # Me
  BY TableConstants DEF Table, Rings
<1>2. /\ r \in Seq(Fabric) /\ Range(r) = Range(t.ring) \ {n}
      /\ IsInjective(t.ring) => IsInjective(r)
  BY <1>1, WithoutFacts
<1>3. /\ d \in Dicts /\ DOMAIN d = DOMAIN t.neighbors \ {n}
      /\ e \in Dicts /\ DOMAIN e = DOMAIN t.routes \ {n}
  BY <1>1, PopFacts
<1>4. RemoveNeighbor(t, Me, n) = Recompute(v, Me)
  BY DEF RemoveNeighbor
<1> HIDE DEF r, d, e
<1>5. r \in Rings
  <2> SUFFICES ASSUME r # <<>> PROVE Me \in Range(r)
    BY <1>2 DEF Rings
  <2>1. PICK x : x \in Range(r)
    <3>1. 1 \in DOMAIN r
      BY <1>2
    <3> QED
      BY <3>1 DEF Range
  <2>2. t.ring # <<>>
    BY <1>2, <2>1 DEF Range
  <2> QED
    BY <1>1, <1>2, <2>2 DEF Rings
<1>6. v \in Table /\ v.ring = r /\ v.neighbors = d /\ v.routes = e
  BY <1>3, <1>5 DEF Table
<1> HIDE DEF v
<1>7. Recomputed(Recompute(v, Me), v)
  BY <1>6, RecomputeFacts
<1> QED
  BY <1>2, <1>3, <1>4, <1>6, <1>7 DEF Recomputed

LEMMA HelloFacts ==
  ASSUME NEW t \in Table, NEW path \in HelloPaths
  PROVE  LET u == UpdateFromHello(t, Me, path)
         IN /\ u \in Table
            /\ Range(u.ring) \subseteq Range(t.ring) \cup Range(path) \cup {Me}
            /\ u.neighbors = t.neighbors
            /\ DOMAIN u.routes \subseteq DOMAIN t.routes \cup DOMAIN t.neighbors \cup Range(t.ring) \cup Range(path) \cup {Me}
            /\ IsInjective(t.ring) /\ IsInjective(path) => IsInjective(u.ring) /\ Routed(u)
<1> DEFINE h == IF Len(path) >= Len(t.ring) THEN path ELSE t.ring \o Pick(path, News(t.ring, path))
           r == AppendNew(h, Me)
           v == [t EXCEPT !.ring = r]
<1>1. /\ t.ring \in Seq(Fabric) /\ t.neighbors \in Dicts /\ t.routes \in Dicts
      /\ path \in Seq(Fabric) /\ Me \in Fabric
      /\ t = [neighbors |-> t.neighbors, ring |-> t.ring, routes |-> t.routes]
  BY TableConstants DEF Table, Rings, Fabric
<1>2. /\ h \in Seq(Fabric) /\ Range(h) \subseteq Range(t.ring) \cup Range(path)
      /\ IsInjective(t.ring) /\ IsInjective(path) => IsInjective(h)
  BY <1>1, MergeFacts
<1>3. UpdateFromHello(t, Me, path) = Recompute(v, Me)
  BY DEF UpdateFromHello
<1> HIDE DEF h
<1>4. /\ r \in Seq(Fabric) /\ Range(r) = Range(h) \cup {Me}
      /\ IsInjective(h) => IsInjective(r)
  BY <1>1, <1>2, AppendNewFacts
<1> HIDE DEF r
<1>5. v = [neighbors |-> t.neighbors, ring |-> r, routes |-> t.routes]
  BY <1>1
<1> HIDE DEF v
<1>6. r \in Rings
  BY <1>4 DEF Rings
<1>7. v \in Table /\ v.ring = r /\ v.neighbors = t.neighbors /\ v.routes = t.routes
  BY <1>1, <1>5, <1>6 DEF Table
<1>8. Recomputed(Recompute(v, Me), v)
  BY <1>7, RecomputeFacts
<1> DEFINE u == Recompute(v, Me)
<1>9. /\ u \in Table /\ u.ring = r /\ u.neighbors = t.neighbors
      /\ DOMAIN u.routes \subseteq DOMAIN t.routes \cup DOMAIN t.neighbors \cup Range(r)
      /\ IsInjective(r) => Routed(u)
  BY <1>7, <1>8 DEF Recomputed
<1> HIDE DEF u
<1>10. Range(r) \subseteq Range(t.ring) \cup Range(path) \cup {Me}
  BY <1>2, <1>4
<1>11. IsInjective(t.ring) /\ IsInjective(path) => IsInjective(u.ring) /\ Routed(u)
  BY <1>2, <1>4, <1>9
<1> QED
  BY <1>3, <1>9, <1>10, <1>11 DEF u

-----------------------------------------------------------------------------
(* The types, and what becomes of the dead.                                  *)

TypeInv == table \in Table /\ gone \subseteq Others

\* remove_neighbor has to take a dead node out of all three: what is left in
\* one of them, the next recompute() would bring back.
GoneInv == \A n \in gone : /\ n \notin Range(table.ring)
                           /\ n \notin DOMAIN table.neighbors /\ n \notin DOMAIN table.routes

USE TableConstants

LEMMA InitTable == Init => TypeInv /\ GoneInv /\ IsInjective(table.ring) /\ Routed(table)
<1> SUFFICES ASSUME Init PROVE TypeInv /\ GoneInv /\ IsInjective(table.ring) /\ Routed(table)
  OBVIOUS
<1>1. /\ table = [neighbors |-> <<>>, ring |-> <<>>, routes |-> <<>>] /\ gone = {}
      /\ table.ring = <<>>
  BY DEF Init, EmptyTable
<1>2. <<>> \in Dicts
  <2> DEFINE e == <<>>
  <2>1. DOMAIN e = {} /\ e = [k \in DOMAIN e |-> e[k]]
    OBVIOUS
  <2> HIDE DEF e
  <2>2. e \in Dicts
    BY <2>1, DictFacts
  <2> QED
    BY <2>2 DEF e
<1>3. <<>> \in Rings
  BY DEF Rings
<1>4. TypeInv
  BY <1>1, <1>2, <1>3 DEF TypeInv, Table
<1>5. DOMAIN table.ring = {}
  BY <1>1
<1> QED
  BY <1>1, <1>4, <1>5 DEF GoneInv, IsInjective, Routed

LEMMA NextTypes == TypeInv /\ [Next]_vars => TypeInv'
<1> SUFFICES ASSUME TypeInv, [Next]_vars PROVE TypeInv'
  OBVIOUS
<1>1. ASSUME NEW n \in Others, NEW port \in Ports, Add(n, port) PROVE TypeInv'
  BY <1>1, AddFacts DEF TypeInv, Add
<1>2. ASSUME NEW n \in Others, RemoveDead(n) PROVE TypeInv'
  BY <1>2, RemoveFacts DEF TypeInv, RemoveDead
<1>3. ASSUME NEW path \in HelloPaths, Hello(path) PROVE TypeInv'
  BY <1>3, HelloFacts DEF TypeInv, Hello
<1>4. CASE UNCHANGED vars
  BY <1>4 DEF vars, TypeInv
<1> QED
  BY <1>1, <1>2, <1>3, <1>4 DEF Next

\* The table stays over the fabric's nodes, knows itself as soon as it knows
\* anyone, and never routes to itself, whatever calls are made in any order.
THEOREM TableTypes == Spec => []TypeOK
<1>1. TypeInv => TypeOK
  <2> SUFFICES ASSUME TypeInv PROVE TypeOK
    OBVIOUS
  <2>1. table.neighbors \in Dicts /\ table.routes \in Dicts /\ table.ring \in Rings
    BY DEF TypeInv, Table
  <2>2. \A d \in Dicts : DOMAIN d \subseteq Others /\ Range(d) \subseteq Ports
    BY DictFacts DEF Range
  <2>3. Range(table.ring) \subseteq Fabric
    BY <2>1 DEF Rings, Range
  <2>4. Members # {} => Me \in Range(table.ring)
    BY <2>1 DEF Members, Rings, Range
  <2> QED
    BY <2>1, <2>2, <2>3, <2>4 DEF TypeOK, Fabric
<1> QED
  BY <1>1, InitTable, NextTypes, PTL DEF Spec

LEMMA NextGone == TypeInv /\ GoneInv /\ [Next]_vars => GoneInv'
<1> SUFFICES ASSUME TypeInv, GoneInv, [Next]_vars PROVE GoneInv'
  OBVIOUS
<1>1. table \in Table /\ gone \subseteq Others /\ Me \notin Others
  BY DEF TypeInv
<1>2. ASSUME NEW n \in Others, NEW port \in Ports, Add(n, port) PROVE GoneInv'
  <2>1. table' = AddNeighbor(table, Me, n, port) /\ gone' = gone \ {n}
    BY <1>2 DEF Add
  <2>2. /\ Range(table'.ring) \subseteq Range(table.ring) \cup {n, Me}
        /\ DOMAIN table'.neighbors \subseteq DOMAIN table.neighbors \cup {n}
        /\ DOMAIN table'.routes \subseteq DOMAIN table.routes \cup DOMAIN table.neighbors \cup Range(table.ring) \cup {n, Me}
    BY <1>1, <2>1, AddFacts
  <2> QED
    BY <1>1, <2>1, <2>2 DEF GoneInv
<1>3. ASSUME NEW n \in Others, RemoveDead(n) PROVE GoneInv'
  <2>1. table' = RemoveNeighbor(table, Me, n) /\ gone' = gone \cup {n}
    BY <1>3 DEF RemoveDead
  <2>2. /\ Range(table'.ring) = Range(table.ring) \ {n}
        /\ DOMAIN table'.neighbors = DOMAIN table.neighbors \ {n}
        /\ DOMAIN table'.routes \subseteq (DOMAIN table.routes \cup DOMAIN table.neighbors \cup Range(table.ring)) \ {n}
    BY <1>1, <2>1, RemoveFacts
  <2> QED
    BY <1>1, <2>1, <2>2 DEF GoneInv
<1>4. ASSUME NEW path \in HelloPaths, Hello(path) PROVE GoneInv'
  <2>1. table' = UpdateFromHello(table, Me, path) /\ gone' = gone \ Range(path)
    BY <1>4 DEF Hello
  <2>2. /\ Range(table'.ring) \subseteq Range(table.ring) \cup Range(path) \cup {Me}
        /\ table'.neighbors = table.neighbors
        /\ DOMAIN table'.routes \subseteq DOMAIN table.routes \cup DOMAIN table.neighbors \cup Range(table.ring) \cup Range(path) \cup {Me}
    BY <1>1, <2>1, HelloFacts
  <2> QED
    BY <1>1, <2>1, <2>2 DEF GoneInv
<1>5. CASE UNCHANGED vars
  BY <1>5 DEF vars, GoneInv
<1> QED
  BY <1>2, <1>3, <1>4, <1>5 DEF Next

\* A node removed as dead stays out of ring and routes until it is named again,
\* whatever the other nodes' comings, goings and HELLOs make recompute() do.
THEOREM GoneStaysAway == Spec => []GoneIsUnreachable
<1>1. GoneInv => GoneIsUnreachable
  BY DEF GoneInv, GoneIsUnreachable, GetNextHop
<1> QED
  BY <1>1, InitTable, NextTypes, NextGone, PTL DEF Spec

-----------------------------------------------------------------------------
(* The ring's order and the routes, with HELLOs that name no node twice.     *)

HellosDistinct == \A path \in HelloPaths : IsInjective(path)

RouteInv == IsInjective(table.ring) /\ Routed(table)

LEMMA NextRouted == HellosDistinct /\ TypeInv /\ RouteInv /\ [Next]_vars => RouteInv'
<1> SUFFICES ASSUME HellosDistinct, TypeInv, RouteInv, [Next]_vars PROVE RouteInv'
  OBVIOUS
<1>1. table \in Table /\ IsInjective(table.ring)
  BY DEF TypeInv, RouteInv
<1>2. ASSUME NEW n \in Others, NEW port \in Ports, Add(n, port) PROVE RouteInv'
  <2>1. table' = AddNeighbor(table, Me, n, port)
    BY <1>2 DEF Add
  <2>2. IsInjective(table'.ring) /\ Routed(table')
    BY <1>1, <2>1, AddFacts
  <2> QED
    BY <2>2 DEF RouteInv
<1>3. ASSUME NEW n \in Others, RemoveDead(n) PROVE RouteInv'
  <2>1. table' = RemoveNeighbor(table, Me, n)
    BY <1>3 DEF RemoveDead
  <2>2. IsInjective(table'.ring) /\ Routed(table')
    BY <1>1, <2>1, RemoveFacts
  <2> QED
    BY <2>2 DEF RouteInv
<1>4. ASSUME NEW path \in HelloPaths, Hello(path) PROVE RouteInv'
  <2>1. table' = UpdateFromHello(table, Me, path) /\ IsInjective(path)
    BY <1>4 DEF Hello, HellosDistinct
  <2>2. IsInjective(table'.ring) /\ Routed(table')
    BY <1>1, <2>1, HelloFacts
  <2> QED
    BY <2>2 DEF RouteInv
<1>5. CASE UNCHANGED vars
  BY <1>5 DEF vars, RouteInv, Routed
<1> QED
  BY <1>2, <1>3, <1>4, <1>5 DEF Next

\* HELLOs that name no node twice never make a ring that does: a merge adds
\* each new node once, and adopting, joining and removing keep the places apart.
THEOREM RingKeepsPlaces ==
  ASSUME HellosDistinct
  PROVE  Spec => []RingHasNoDuplicates
<1>1. RouteInv => RingHasNoDuplicates
  BY DEF RouteInv, RingHasNoDuplicates
<1>2. Init => TypeInv /\ RouteInv
  BY InitTable DEF RouteInv
<1>3. TypeInv /\ RouteInv /\ [Next]_vars => TypeInv' /\ RouteInv'
  BY NextTypes, NextRouted
<1> QED
  BY <1>1, <1>2, <1>3, PTL DEF Spec

-----------------------------------------------------------------------------
(* Walking clockwise comes to a member in as many links as the code computes.*)

LEMMA ModSmall ==
  ASSUME NEW a \in Nat, NEW n \in Nat, n > 0, a < n
  PROVE  a % n = a
OBVIOUS

LEMMA ModOnce ==
  ASSUME NEW a \in Nat, NEW n \in Nat, n > 0, n <= a, a < 2 * n
  PROVE  a % n = a - n
OBVIOUS

LEMMA ModTwice ==
  ASSUME NEW n \in Nat, n > 0
  PROVE  (2 * n) % n = 0
OBVIOUS

LEMMA ModNegative ==
  ASSUME NEW a \in Int, NEW n \in Nat, n > 0, a < 0, -n <= a
  PROVE  a % n = a + n
OBVIOUS

\* The remainders that occur on a walk of at most one round.
Rest(a, n) == IF a < n THEN a ELSE IF a < 2 * n THEN a - n ELSE 0

LEMMA RestIsMod ==
  ASSUME NEW n \in Nat, n > 0, NEW a \in 0 .. 2 * n
  PROVE  a % n = Rest(a, n)
<1>1. a \in Nat /\ 2 * n \in Nat
  OBVIOUS
<1>2. CASE a < n
  <2>1. a % n = a
    BY <1>1, <1>2, ModSmall
  <2> QED
    BY <1>2, <2>1 DEF Rest
<1>3. CASE n <= a /\ a < 2 * n
  <2>1. a % n = a - n
    BY <1>1, <1>3, ModOnce
  <2> QED
    BY <1>1, <1>3, <2>1 DEF Rest
<1>4. CASE a = 2 * n
  <2>1. a % n = 0
    BY <1>4, ModTwice
  <2> QED
    BY <1>1, <1>4, <2>1 DEF Rest
<1> QED
  BY <1>1, <1>2, <1>3, <1>4

LEMMA DifferenceIsMod ==
  ASSUME NEW n \in Nat, n > 0, NEW i \in 1 .. n, NEW m \in 1 .. n, i # m
  PROVE  (i - m) % n = IF i > m THEN i - m ELSE i - m + n
<1>1. CASE i > m
  <2>1. i - m \in Nat /\ i - m < n
    BY <1>1
  <2>2. (i - m) % n = i - m
    BY <2>1, ModSmall
  <2> QED
    BY <1>1, <2>2
<1>2. CASE i < m
  <2>1. i - m \in Int /\ i - m < 0 /\ -n <= i - m
    BY <1>2
  <2>2. (i - m) % n = (i - m) + n
    BY <2>1, ModNegative
  <2> QED
    BY <1>2, <2>2
<1> QED
  BY <1>1, <1>2

\* The links from place m to place i of a ring of n, walking clockwise.
Links(i, m, n) == IF i > m THEN i - m ELSE i - m + n

LEMMA ClockwiseIsLinks ==
  ASSUME NEW n \in Nat, n > 0, NEW i \in 1 .. n, NEW m \in 1 .. n, i # m
  PROVE  (CHOOSE d \in 1 .. n : (m + d) % n = i % n) = Links(i, m, n)
<1>1. Links(i, m, n) \in 1 .. n
  BY DEF Links
<1>2. ASSUME NEW d \in 1 .. n PROVE (m + d) % n = i % n <=> d = Links(i, m, n)
  <2>1. m + d \in 0 .. 2 * n /\ i \in 0 .. 2 * n
    OBVIOUS
  <2>2. (m + d) % n = Rest(m + d, n) /\ i % n = Rest(i, n)
    BY <2>1, RestIsMod
  <2>3. Rest(m + d, n) = Rest(i, n) <=> d = Links(i, m, n)
    BY DEF Rest, Links
  <2> QED
    BY <2>2, <2>3
<1> QED
  BY <1>1, <1>2

LEMMA ShorterByLinks ==
  ASSUME NEW n \in Nat, n > 0, NEW i \in 1 .. n, NEW m \in 1 .. n, i # m
  PROVE  ShorterWay(i, m, n) = IF 2 * Links(i, m, n) <= n THEN "host" ELSE "gadget"
<1>1. (i - m) % n = Links(i, m, n)
  BY DifferenceIsMod DEF Links
<1>2. (m - i) % n = Links(m, i, n)
  BY DifferenceIsMod DEF Links
<1>3. Links(i, m, n) <= Links(m, i, n) <=> 2 * Links(i, m, n) <= n
  BY DEF Links
<1> QED
  BY <1>1, <1>2, <1>3 DEF ShorterWay

\* Every ring member is routed the way fewer links lead to it, clockwise on a
\* tie, for a ring of any size that any sequence of calls has made.
THEOREM RoutesAreShortest ==
  ASSUME HellosDistinct
  PROVE  Spec => []RoutesFollowRing
<1>1. TypeInv /\ RouteInv => RoutesFollowRing
  <2> DEFINE r == table.ring
             n == Len(r)
             At(x) == CHOOSE i \in 1 .. n : r[i] = x
             Clockwise(x) == CHOOSE d \in 1 .. n : (At(Me) + d) % n = At(x) % n
  <2> SUFFICES ASSUME TypeInv, RouteInv, NEW x \in Members
               PROVE  GetNextHop(table, x, Broadcast) = IF 2 * Clockwise(x) <= n THEN "host" ELSE "gadget"
    BY DEF RoutesFollowRing
  <2>1. r \in Rings /\ r \in Seq(Fabric) /\ n \in Nat /\ DOMAIN r = 1 .. n /\ IsInjective(r)
    BY DEF TypeInv, RouteInv, Table, Rings
  <2>2. x \in Range(r) /\ x # Me /\ x \in Fabric
    BY <2>1 DEF Members, Range
  <2>3. Me \in Range(r)
    BY <2>1, <2>2 DEF Rings, Range
  <2>4. At(Me) \in 1 .. n /\ r[At(Me)] = Me /\ At(x) \in 1 .. n /\ r[At(x)] = x
    BY <2>1, <2>2, <2>3 DEF Range
  <2> HIDE DEF n, At
  <2>5. At(x) # At(Me) /\ n > 0
    BY <2>1, <2>2, <2>4
  <2>6. x \in DOMAIN table.routes /\ table.routes[x] = ShorterWay(At(x), At(Me), n)
    BY <2>1, <2>4, <2>5 DEF RouteInv, Routed
  <2>7. GetNextHop(table, x, Broadcast) = table.routes[x]
    BY <2>2, <2>6 DEF GetNextHop, Fabric
  <2>8. Clockwise(x) = Links(At(x), At(Me), n)
    BY <2>1, <2>4, <2>5, ClockwiseIsLinks
  <2>9. ShorterWay(At(x), At(Me), n) = IF 2 * Links(At(x), At(Me), n) <= n THEN "host" ELSE "gadget"
    BY <2>1, <2>4, <2>5, ShorterByLinks
  <2> QED
    BY <2>6, <2>7, <2>8, <2>9
<1>2. Init => TypeInv /\ RouteInv
  BY InitTable DEF RouteInv
<1>3. TypeInv /\ RouteInv /\ [Next]_vars => TypeInv' /\ RouteInv'
  BY NextTypes, NextRouted
<1> QED
  BY <1>1, <1>2, <1>3, PTL DEF Spec
=============================================================================
