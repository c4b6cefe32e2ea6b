------------------------ MODULE ImpactAnalysis_proofs ------------------------
(***************************************************************************)
(* Proofs about ImpactAnalysis, for every graph, every way in which it     *)
(* grows, and every request.                                               *)
(***************************************************************************)
EXTENDS ImpactAnalysis, FiniteSetTheorems, FunctionTheorems, SequenceTheorems,
        WellFoundedInduction, TLAPS

-----------------------------------------------------------------------------
(***************************************************************************)
(* Numbers and finite sets.                                                *)
(***************************************************************************)
LEMMA SmallestExists ==
    ASSUME NEW T, T \subseteq Nat, T # {}
    PROVE  \E m \in T : \A n \in T : m <= n
<1>1. PICK m \in T : \A n \in T : ~(<<n, m>> \in OpToRel(<, Nat))
  BY NatLessThanWellFounded, WFMin
<1>2. \A n \in T : ~(n < m)
  BY <1>1 DEF OpToRel
<1>3. QED
  BY <1>2

LEMMA MinIsSmallest ==
    ASSUME NEW T, T \subseteq Nat, T # {}
    PROVE  Min(T) \in T /\ \A n \in T : Min(T) <= n
BY SmallestExists DEF Min

(* What is computed of each element of a finite set are finitely many.     *)
LEMMA ImageIsFinite ==
    ASSUME NEW X, IsFiniteSet(X), NEW f
    PROVE  IsFiniteSet({f[x] : x \in X})
<1> DEFINE Y == {f[x] : x \in X}
           g == [x \in X |-> f[x]]
<1>1. g \in Surjection(X, Y)
  BY DEF Surjection
<1>2. QED
  <2> HIDE DEF g, Y
  <2>1. IsFiniteSet(Y)
    BY <1>1, FS_Surjection
  <2>2. QED
    BY <2>1 DEF Y

LEMMA UnionIsFinite ==
    ASSUME NEW X, IsFiniteSet(X), NEW f, \A x \in X : IsFiniteSet(f[x])
    PROVE  IsFiniteSet(UNION {f[x] : x \in X})
<1>1. IsFiniteSet({f[x] : x \in X})
  BY ImageIsFinite
<1>2. QED
  BY <1>1, FS_UNION

LEMMA FiveAreFinite ==
    ASSUME NEW a, NEW b, NEW c, NEW d, NEW e
    PROVE  IsFiniteSet({a, b, c, d, e})
<1>1. IsFiniteSet({a}) /\ IsFiniteSet({b}) /\ IsFiniteSet({c}) /\ IsFiniteSet({d}) /\ IsFiniteSet({e})
  BY FS_Singleton
<1>2. IsFiniteSet({a} \cup {b}) /\ IsFiniteSet({c} \cup {d})
  BY <1>1, FS_Union
<1>3. IsFiniteSet(({a} \cup {b}) \cup ({c} \cup {d}))
  BY <1>2, FS_Union
<1>4. IsFiniteSet((({a} \cup {b}) \cup ({c} \cup {d})) \cup {e})
  BY <1>1, <1>3, FS_Union
<1>5. {a, b, c, d, e} = (({a} \cup {b}) \cup ({c} \cup {d})) \cup {e}
  OBVIOUS
<1>6. QED
  BY <1>4, <1>5

(* A finite set has subsets of every size up to its own.                   *)
LEMMA SubsetOfSize ==
    ASSUME NEW S, IsFiniteSet(S), NEW k \in Nat, k <= Cardinality(S)
    PROVE  \E T \in SUBSET S : Cardinality(T) = k
<1> DEFINE Bad == {n \in Nat : n <= k /\ ~\E T \in SUBSET S : Cardinality(T) = n}
<1>1. SUFFICES Bad = {}
  OBVIOUS
<1>2. SUFFICES ASSUME Bad # {}
               PROVE  FALSE
  OBVIOUS
<1>3. PICK n \in Bad : \A m \in Bad : n <= m
  <2> HIDE DEF Bad
  <2>1. Bad \subseteq Nat
    BY DEF Bad
  <2>2. QED
    BY <1>2, <2>1, SmallestExists
<1>4. n # 0
  BY <1>3, FS_EmptySet
<1>5. n - 1 \in Nat /\ n - 1 <= k /\ n - 1 \notin Bad
  BY <1>3, <1>4
<1>6. PICK T \in SUBSET S : Cardinality(T) = n - 1
  BY <1>5
<1>7. Cardinality(S) \in Nat /\ IsFiniteSet(T)
  BY FS_CardinalityType, FS_Subset
<1>8. T # S
  BY <1>3, <1>6, <1>7
<1>9. PICK x \in S : x \notin T
  BY <1>8
<1>10. Cardinality(T \cup {x}) = n
  <2>1. Cardinality(T \cup {x}) = Cardinality(T) + 1
    BY <1>7, <1>9, FS_AddElement
  <2>2. n \in Nat
    BY <1>3
  <2>3. QED
    BY <2>1, <2>2, <1>6
<1>11. T \cup {x} \in SUBSET S
  BY <1>9
<1>12. QED
  BY <1>3, <1>10, <1>11

(* At most "limit" of the paths are taken, and some if there are any.      *)
LEMMA AtMostTakes ==
    ASSUME NEW paths, IsFiniteSet(paths), NEW limit \in Nat
    PROVE  /\ AtMost(limit, paths) \subseteq paths
           /\ IsFiniteSet(AtMost(limit, paths))
           /\ Cardinality(AtMost(limit, paths)) <= limit
           /\ limit # 0 /\ paths # {} => AtMost(limit, paths) # {}
<1>1. Cardinality(paths) \in Nat
  BY FS_CardinalityType
<1>2. CASE Cardinality(paths) <= limit
  BY <1>2 DEF AtMost
<1>3. CASE ~(Cardinality(paths) <= limit)
  <2>1. \E T \in SUBSET paths : Cardinality(T) = limit
    BY <1>1, <1>3, SubsetOfSize
  <2>2. AtMost(limit, paths) \in SUBSET paths /\ Cardinality(AtMost(limit, paths)) = limit
    BY <1>3, <2>1 DEF AtMost
  <2>3. IsFiniteSet(AtMost(limit, paths))
    BY <2>2, FS_Subset
  <2>4. limit # 0 => AtMost(limit, paths) # {}
    BY <2>2, FS_EmptySet
  <2>5. QED
    BY <2>2, <2>3, <2>4
<1>4. QED
  BY <1>2, <1>3

-----------------------------------------------------------------------------
(***************************************************************************)
(* Paths of the graph, routes to a node, and offers of paths.              *)
(***************************************************************************)
Names == Code \cup DOMAIN Label \cup STRING
Relations == {"none", "CALLS", "CONTAINS", "EXPOSES", "PUBLISHES", "CONSUMES", "ACCESSES",
              "DEPENDS_ON", "VALIDATES", "NAMING_CONVENTION"}
Steps == Names \X Relations

IsPath(p) ==
    /\ p \in Seq(Steps) /\ p # <<>>
    /\ p[1] = Step(start, "none")
    /\ \A i \in 2 .. Len(p) : RealStep(p[i - 1][1], p[i][1], p[i][2])

LeadTo(paths, n) == IsFiniteSet(paths) /\ \A p \in paths : IsPath(p) /\ Terminal(p) = n

Routed(r) ==
    /\ IsFiniteSet(DOMAIN r) /\ DOMAIN r \subseteq Names
    /\ \A n \in DOMAIN r : LeadTo(r[n], n)

Offered(offers) ==
    /\ IsFiniteSet(offers)
    /\ \A o \in offers : o \in [category : Categories, path : Seq(Steps)] /\ IsPath(o.path)

LEMMA AppendedTo ==
    ASSUME NEW S, NEW p \in Seq(S), p # <<>>, NEW s \in S
    PROVE  /\ Append(p, s) \in Seq(S) /\ Append(p, s) # <<>>
           /\ Len(Append(p, s)) = Len(p) + 1 /\ Append(p, s)[Len(p) + 1] = s
           /\ \A i \in 1 .. Len(p) : Append(p, s)[i] = p[i]
           /\ Len(p) \in Nat /\ Len(p) >= 1
BY AppendProperties

LEMMA PathExtends ==
    ASSUME NEW p, IsPath(p), NEW n \in Names, NEW t \in Relations, RealStep(Terminal(p), n, t)
    PROVE  LET q == Append(p, Step(n, t))
           IN IsPath(q) /\ Terminal(q) = n /\ Length(q) = Length(p) + 1
<1> DEFINE q == Append(p, Step(n, t))
<1>1. p \in Seq(Steps) /\ p # <<>> /\ Step(n, t) \in Steps
  BY DEF IsPath, Step, Steps
<1>2. /\ q \in Seq(Steps) /\ q # <<>> /\ Len(q) = Len(p) + 1 /\ q[Len(p) + 1] = Step(n, t)
      /\ \A i \in 1 .. Len(p) : q[i] = p[i]
      /\ Len(p) \in Nat /\ Len(p) >= 1
  <2>1. PICK s \in Steps : s = Step(n, t)
    BY <1>1
  <2>2. q = Append(p, s)
    BY <2>1
  <2> HIDE DEF q
  <2>3. /\ Append(p, s) \in Seq(Steps) /\ Append(p, s) # <<>>
        /\ Len(Append(p, s)) = Len(p) + 1 /\ Append(p, s)[Len(p) + 1] = s
        /\ \A i \in 1 .. Len(p) : Append(p, s)[i] = p[i]
        /\ Len(p) \in Nat /\ Len(p) >= 1
    BY <1>1, AppendedTo
  <2>4. QED
    BY <2>1, <2>2, <2>3
<1> HIDE DEF q
<1>3. /\ q \in Seq(Steps) /\ Len(q) = Len(p) + 1 /\ q[Len(p) + 1] = Step(n, t)
      /\ \A i \in 1 .. Len(p) : q[i] = p[i]
  BY <1>2
<1>4. q # <<>> /\ q[1] = p[1]
  BY <1>2
<1>5. ASSUME NEW i \in 2 .. Len(q)
      PROVE  RealStep(q[i - 1][1], q[i][1], q[i][2])
  <2>1. CASE i = Len(p) + 1
    <3>1. q[i - 1][1] = Terminal(p)
      BY <1>2, <2>1 DEF Terminal
    <3>2. q[i][1] = n /\ q[i][2] = t
      BY <1>3, <2>1 DEF Step
    <3>3. QED
      BY <3>1, <3>2
  <2>2. CASE i # Len(p) + 1
    <3>1. i \in 2 .. Len(p) /\ i - 1 \in 1 .. Len(p) /\ i \in 1 .. Len(p)
      BY <1>2, <1>5, <2>2
    <3>2. q[i] = p[i] /\ q[i - 1] = p[i - 1]
      BY <1>3, <3>1
    <3>3. QED
      BY <3>1, <3>2 DEF IsPath
  <2>3. QED
    BY <2>1, <2>2
<1>6. IsPath(q)
  BY <1>3, <1>4, <1>5 DEF IsPath
<1>7. Terminal(q) = n
  BY <1>3 DEF Terminal, Step
<1>8. Length(q) = Length(p) + 1
  BY <1>2 DEF Length
<1>9. QED
  BY <1>6, <1>7, <1>8 DEF q

LEMMA ExtendLeads ==
    ASSUME NEW paths, NEW m, LeadTo(paths, m), NEW n \in Names, NEW t \in Relations, RealStep(m, n, t)
    PROVE  LeadTo(Extend(paths, n, t), n)
<1> DEFINE f == [p \in paths |-> Append(p, Step(n, t))]
<1>1. Extend(paths, n, t) = {f[p] : p \in paths}
  BY DEF Extend
<1>2. IsFiniteSet({f[p] : p \in paths})
  <2> HIDE DEF f
  <2>1. QED
    BY ImageIsFinite DEF LeadTo
<1>3. ASSUME NEW p \in paths
      PROVE  IsPath(Append(p, Step(n, t))) /\ Terminal(Append(p, Step(n, t))) = n
  BY <1>3, PathExtends DEF LeadTo
<1>4. QED
  BY <1>1, <1>2, <1>3 DEF LeadTo, Extend

LEMMA UnionLeads ==
    ASSUME NEW X, IsFiniteSet(X), NEW f, NEW n, \A x \in X : LeadTo(f[x], n)
    PROVE  LeadTo(UNION {f[x] : x \in X}, n)
<1>1. IsFiniteSet(UNION {f[x] : x \in X})
  BY UnionIsFinite DEF LeadTo
<1>2. QED
  BY <1>1 DEF LeadTo

LEMMA OfferFits ==
    ASSUME NEW paths, NEW n, LeadTo(paths, n), NEW c \in Categories
    PROVE  Offered(Offer(paths, c))
<1> DEFINE f == [p \in paths |-> [category |-> c, path |-> p]]
<1>1. Offer(paths, c) = {f[p] : p \in paths}
  BY DEF Offer
<1>2. IsFiniteSet({f[p] : p \in paths})
  <2> HIDE DEF f
  <2>1. QED
    BY ImageIsFinite DEF LeadTo
<1>3. QED
  BY <1>1, <1>2 DEF Offered, LeadTo, IsPath

LEMMA OffersUnite ==
    ASSUME NEW X, IsFiniteSet(X), NEW f, \A x \in X : Offered(f[x])
    PROVE  Offered(UNION {f[x] : x \in X})
<1>1. IsFiniteSet(UNION {f[x] : x \in X})
  BY UnionIsFinite DEF Offered
<1>2. QED
  BY <1>1 DEF Offered

LEMMA OffersAdd ==
    ASSUME NEW a, NEW b, Offered(a), Offered(b)
    PROVE  Offered(a \cup b)
BY FS_Union DEF Offered

LEMMA RoutesUpdate ==
    ASSUME NEW r, NEW q, Routed(r), Routed(q)
    PROVE  Routed(Updated(r, q))
<1>1. IsFiniteSet(DOMAIN r \cup DOMAIN q)
  BY FS_Union DEF Routed
<1>2. QED
  BY <1>1 DEF Routed, Updated

-----------------------------------------------------------------------------
(***************************************************************************)
(* The report: paths within the cap, and for each of their ends one item   *)
(* of at most their length.                                                *)
(***************************************************************************)
KeyOf(i) == <<i.category, i.id>>

ItemFits(i) ==
    /\ i \in [category : Categories, id : {i.id}, depth : Nat]
    /\ Under(kept, KeyOf(i)) # {}
    /\ \A k \in Under(kept, KeyOf(i)) : Length(k.path) >= i.depth

ReportFits ==
    /\ Offered(kept)
    /\ \A key : Cardinality(Under(kept, key)) <= request.maxPaths
    /\ \A i \in items : ItemFits(i)
    /\ \A i, j \in items : KeyOf(i) = KeyOf(j) => i = j
    /\ \A k \in kept : \E i \in items : KeyOf(i) = Key(k)

LEMMA LengthsAreNat ==
    ASSUME NEW p, IsPath(p)
    PROVE  Length(p) \in Nat
<1>1. p \in Seq(Steps) /\ p # <<>>
  BY DEF IsPath
<1>2. QED
  BY <1>1 DEF Length

(* The shortest of the paths offered for an item.                          *)
LEMMA ItemsAreShortest ==
    ASSUME NEW offers, Offered(offers), NEW i \in ItemsOf(offers)
    PROVE  /\ KeyOf(i) \in Keys(offers)
           /\ i \in [category : Categories, id : {i.id}, depth : Nat]
           /\ \A o \in Under(offers, KeyOf(i)) : i.depth <= Length(o.path)
           /\ \E o \in Under(offers, KeyOf(i)) : i.depth = Length(o.path)
<1>1. PICK key \in Keys(offers) :
          i = [category |-> key[1], id |-> key[2],
               depth |-> Shortest({o.path : o \in Under(offers, key)})]
  BY DEF ItemsOf
<1>2. PICK e \in offers : key = <<e.category, Terminal(e.path)>>
  BY DEF Keys, Key
<1>3. KeyOf(i) = key
  BY <1>1, <1>2 DEF KeyOf
<1> DEFINE lengths == {Length(p) : p \in {o.path : o \in Under(offers, key)}}
<1>4. lengths \subseteq Nat /\ lengths # {}
  BY <1>2, LengthsAreNat DEF Offered, Under, Key
<1>5. i.depth \in lengths /\ \A n \in lengths : i.depth <= n
  <2>1. i.depth = Min(lengths)
    BY <1>1 DEF Shortest
  <2> HIDE DEF lengths
  <2>2. QED
    BY <1>4, <2>1, MinIsSmallest
<1>6. i.depth \in Nat /\ i.category \in Categories
  BY <1>1, <1>2, <1>4, <1>5 DEF Offered
<1>7. i \in [category : Categories, id : {i.id}, depth : Nat]
  BY <1>1, <1>6
<1>8. /\ \A o \in Under(offers, KeyOf(i)) : i.depth <= Length(o.path)
      /\ \E o \in Under(offers, KeyOf(i)) : i.depth = Length(o.path)
  BY <1>3, <1>5
<1>9. QED
  BY <1>3, <1>7, <1>8

LEMMA ItemForEachKey ==
    ASSUME NEW offers, NEW key \in Keys(offers)
    PROVE  \E i \in ItemsOf(offers) : KeyOf(i) = key
<1>1. PICK e \in offers : key = <<e.category, Terminal(e.path)>>
  BY DEF Keys, Key
<1> DEFINE i == [category |-> key[1], id |-> key[2],
                 depth |-> Shortest({o.path : o \in Under(offers, key)})]
<1>2. i \in ItemsOf(offers)
  BY DEF ItemsOf
<1>3. KeyOf(i) = key
  BY <1>1 DEF KeyOf
<1>4. QED
  BY <1>2, <1>3

LEMMA PathsStand ==
    ASSUME edges \subseteq edges', start' = start, NEW p, IsPath(p)
    PROVE  IsPath(p)'
<1>1. \A s, x : x \in Within(s) => x \in Within(s)'
  BY DEF Within, Inside, From
<1>2. \A n, t, m : Holds(n, t, m) => Holds(n, t, m)'
  BY DEF Holds
<1>3. \A n, m, t : RealStep(n, m, t) => RealStep(n, m, t)'
  BY <1>1, <1>2 DEF RealStep
<1>4. QED
  BY <1>3 DEF IsPath

LEMMA OffersStand ==
    ASSUME edges \subseteq edges', start' = start, NEW o, Offered(o)
    PROVE  Offered(o)'
BY PathsStand DEF Offered

(* What is kept of the paths under one key.                                *)
LEMMA KeptUnderKey ==
    ASSUME ReportFits, NEW offers, Offered(offers), NEW cap \in Nat \ {0}, request.maxPaths = cap,
           NEW now, now = Add(kept, offers, cap), NEW key
    PROVE  /\ Cardinality(Under(now, key)) <= cap
           /\ Under(kept, key) \subseteq Under(now, key)
           /\ Under(now, key) \subseteq Under(kept, key) \cup Under(offers, key)
           /\ key \in Keys(offers) => Under(now, key) # {}
<1> DEFINE room(k) == cap - Cardinality(Under(kept, k))
           taken(k) == AtMost(room(k), Under(offers \ kept, k))
<1>1. \A k : IsFiniteSet(Under(kept, k)) /\ IsFiniteSet(Under(offers \ kept, k))
  <2>1. IsFiniteSet(kept) /\ IsFiniteSet(offers)
    BY DEF ReportFits, Offered
  <2>2. \A k : Under(kept, k) \in SUBSET kept /\ Under(offers \ kept, k) \in SUBSET offers
    BY DEF Under
  <2>3. QED
    BY <2>1, <2>2, FS_Subset
<1>2. \A k : Cardinality(Under(kept, k)) \in Nat /\ room(k) \in Nat
  <2>1. \A k : Cardinality(Under(kept, k)) \in Nat
    BY <1>1, FS_CardinalityType
  <2>2. \A k : Cardinality(Under(kept, k)) <= cap
    BY DEF ReportFits
  <2>3. QED
    BY <2>1, <2>2
<1>3. \A k : /\ taken(k) \subseteq Under(offers \ kept, k)
             /\ IsFiniteSet(taken(k)) /\ Cardinality(taken(k)) <= room(k)
             /\ room(k) # 0 /\ Under(offers \ kept, k) # {} => taken(k) # {}
  <2> TAKE k
  <2> HIDE DEF room
  <2>1. QED
    BY <1>1, <1>2, AtMostTakes
<1>4. now = kept \cup UNION {taken(k) : k \in Keys(offers)}
  BY DEF Add
<1> HIDE DEF taken
<1>5. Under(now, key) = Under(kept, key) \cup (IF key \in Keys(offers) THEN taken(key) ELSE {})
  <2>1. \A k : \A e \in taken(k) : e \in offers /\ Key(e) = k
    BY <1>3 DEF Under
  <2>2. \A e : e \in now <=> e \in kept \/ \E k \in Keys(offers) : e \in taken(k)
    BY <1>4
  <2>3. \A e : e \in Under(now, key) <=>
                  e \in Under(kept, key) \/ (key \in Keys(offers) /\ e \in taken(key))
    BY <2>1, <2>2 DEF Under
  <2>4. QED
    BY <2>3
<1>6. Cardinality(Under(now, key)) <= cap
  <2>1. CASE key \in Keys(offers)
    <3>1. Under(kept, key) \cap taken(key) = {}
      BY <1>3 DEF Under
    <3>2. Cardinality(Under(kept, key) \cup taken(key)) = Cardinality(Under(kept, key)) + Cardinality(taken(key)) - 0
      BY <1>1, <1>3, <3>1, FS_Union, FS_EmptySet
    <3>3. Cardinality(taken(key)) \in Nat
      BY <1>3, FS_CardinalityType
    <3>4. QED
      BY <1>2, <1>3, <1>5, <2>1, <3>2, <3>3
  <2>2. CASE key \notin Keys(offers)
    BY <1>2, <1>5, <2>2
  <2>3. QED
    BY <2>1, <2>2
<1>7. key \in Keys(offers) => Under(now, key) # {}
  <2> SUFFICES ASSUME key \in Keys(offers), Under(now, key) = {}
               PROVE  FALSE
    OBVIOUS
  <2>1. Under(kept, key) = {} /\ taken(key) = {}
    BY <1>5
  <2>2. room(key) = cap
    BY <2>1, FS_EmptySet
  <2>3. Under(offers, key) # {}
    BY DEF Under, Keys
  <2>4. Under(offers \ kept, key) = Under(offers, key)
    BY <2>1 DEF Under
  <2>5. QED
    BY <1>3, <2>1, <2>2, <2>3, <2>4
<1>8. Under(now, key) \subseteq Under(kept, key) \cup Under(offers, key)
  BY <1>3, <1>5 DEF Under
<1>9. QED
  BY <1>5, <1>6, <1>7, <1>8

(* Collecting offers of paths keeps the report what it is.                 *)
LEMMA CollectKeeps ==
    ASSUME ReportFits, NEW offers, Offered(offers), NEW cut, Collect(offers, cut),
           request.maxPaths \in Nat \ {0}, UNCHANGED <<edges, start, request>>
    PROVE  ReportFits'
<1> DEFINE all == items \cup ItemsOf(offers)
<1>1. /\ kept' = Add(kept, offers, request.maxPaths)
      /\ items' = {i \in all : \A j \in all : KeyOf(j) = KeyOf(i) => j.depth >= i.depth}
  BY DEF Collect, KeyOf
<1>2. \A key : /\ Cardinality(Under(kept', key)) <= request.maxPaths
               /\ Under(kept, key) \subseteq Under(kept', key)
               /\ Under(kept', key) \subseteq Under(kept, key) \cup Under(offers, key)
               /\ key \in Keys(offers) => Under(kept', key) # {}
  BY <1>1, KeptUnderKey
<1>3. \A k \in kept' : k \in kept \cup offers
  <2> SUFFICES ASSUME NEW k \in kept'
               PROVE  k \in kept \cup offers
    OBVIOUS
  <2>1. k \in Under(kept', Key(k))
    BY DEF Under
  <2>2. QED
    BY <1>2, <2>1 DEF Under
<1>4. Offered(kept')
  <2>1. IsFiniteSet(kept \cup offers)
    BY FS_Union DEF ReportFits, Offered
  <2>2. IsFiniteSet(kept')
    BY <1>3, <2>1, FS_Subset
  <2>3. QED
    BY <1>3, <2>2 DEF ReportFits, Offered
<1>5. Offered(kept)'
  BY <1>4, PathsStand DEF Offered
<1>6. \A i \in all : i \in [category : Categories, id : {i.id}, depth : Nat]
  BY ItemsAreShortest DEF ReportFits, ItemFits
<1>7. ASSUME NEW i \in items'
      PROVE  ItemFits(i)'
  <2>1. i \in all /\ \A j \in all : KeyOf(j) = KeyOf(i) => j.depth >= i.depth
    BY <1>1, <1>7
  <2>2. Under(kept', KeyOf(i)) # {}
    <3>1. CASE i \in items
      BY <1>2, <3>1 DEF ReportFits, ItemFits
    <3>2. CASE i \in ItemsOf(offers)
      BY <1>2, <3>2, ItemsAreShortest
    <3>3. QED
      BY <2>1, <3>1, <3>2
  <2>3. ASSUME NEW k \in Under(kept', KeyOf(i))
        PROVE  Length(k.path) >= i.depth
    <3>1. Key(k) = KeyOf(i) /\ Length(k.path) \in Nat
      BY <1>4, <2>3, LengthsAreNat DEF Offered, Under
    <3>2. CASE k \in kept
      <4>1. PICK j \in items : KeyOf(j) = Key(k)
        BY <3>2 DEF ReportFits
      <4>2. k \in Under(kept, KeyOf(j))
        BY <3>2, <4>1 DEF Under
      <4>3. Length(k.path) >= j.depth
        BY <4>1, <4>2 DEF ReportFits, ItemFits
      <4>4. j.depth >= i.depth
        BY <2>1, <3>1, <4>1
      <4>5. i.depth \in Nat /\ j.depth \in Nat
        BY <1>6, <2>1, <4>1
      <4>6. QED
        BY <3>1, <4>3, <4>4, <4>5
    <3>3. CASE k \in offers
      <4>1. Key(k) \in Keys(offers) /\ k \in Under(offers, Key(k))
        BY <3>3 DEF Keys, Under
      <4>2. PICK j \in ItemsOf(offers) : KeyOf(j) = Key(k)
        BY <4>1, ItemForEachKey
      <4>3. j.depth <= Length(k.path)
        BY <4>1, <4>2, ItemsAreShortest
      <4>4. j.depth >= i.depth
        BY <2>1, <3>1, <4>2
      <4>5. i.depth \in Nat /\ j.depth \in Nat
        BY <1>6, <2>1, <4>2
      <4>6. QED
        BY <3>1, <4>3, <4>4, <4>5
    <3>4. QED
      BY <1>3, <2>3, <3>2, <3>3 DEF Under
  <2>4. QED
    BY <1>6, <2>1, <2>2, <2>3 DEF ItemFits
<1>8. ASSUME NEW i \in items', NEW j \in items', KeyOf(i) = KeyOf(j)
      PROVE  i = j
  <2>1. i \in all /\ j \in all /\ i.depth <= j.depth /\ j.depth <= i.depth
    BY <1>1, <1>8
  <2>2. i \in [category : Categories, id : {i.id}, depth : Nat] /\ j \in [category : Categories, id : {j.id}, depth : Nat]
    BY <1>6, <2>1
  <2>3. i.depth = j.depth
    BY <2>1, <2>2
  <2>4. i.category = j.category /\ i.id = j.id
    BY <1>8 DEF KeyOf
  <2>5. QED
    BY <2>2, <2>3, <2>4
<1>9. ASSUME NEW k \in kept'
      PROVE  \E i \in items' : KeyOf(i) = Key(k)
  <2> DEFINE same == {i \in all : KeyOf(i) = Key(k)}
             depths == {i.depth : i \in same}
  <2>1. same # {}
    <3>1. CASE k \in kept
      BY <3>1 DEF ReportFits
    <3>2. CASE k \in offers
      <4>1. Key(k) \in Keys(offers)
        BY <3>2 DEF Keys
      <4>2. QED
        BY <4>1, ItemForEachKey
    <3>3. QED
      BY <1>3, <1>9, <3>1, <3>2
  <2>2. depths \subseteq Nat /\ depths # {}
    BY <1>6, <2>1
  <2>3. PICK d \in depths : \A n \in depths : d <= n
    <3> HIDE DEF depths
    <3>1. QED
      BY <2>2, SmallestExists
  <2>4. PICK i \in same : i.depth = d
    OBVIOUS
  <2>5. \A j \in all : KeyOf(j) = KeyOf(i) => j.depth >= i.depth
    <3> SUFFICES ASSUME NEW j \in all, KeyOf(j) = KeyOf(i)
                 PROVE  j.depth >= i.depth
      OBVIOUS
    <3>1. j \in same
      OBVIOUS
    <3>2. j.depth \in depths
      BY <3>1
    <3>3. d <= j.depth /\ d \in Nat /\ j.depth \in Nat
      BY <2>2, <2>3, <3>2
    <3>4. QED
      BY <2>4, <3>3
  <2>6. QED
    BY <1>1, <2>4, <2>5
<1>10. QED
  BY <1>2, <1>5, <1>7, <1>8, <1>9 DEF ReportFits

-----------------------------------------------------------------------------
(***************************************************************************)
(* The inductive invariant.                                                *)
(***************************************************************************)
EarlySteps == {"resolve", "begin", "traverse", "fetch"}
LateSteps == {"services", "owners", "tables", "downstream", "validating", "naming", "coverage",
              "more", "sites", "done"}

TypesFit ==
    /\ InitialEdges \subseteq edges /\ edges \subseteq InitialEdges \cup LaterEdges
    /\ request \in Requests
    /\ step \in EarlySteps \cup LateSteps \cup {"unresolved"}

(* A CALLS row leads from a caller one level nearer to the change.         *)
FoundFits ==
    /\ IsFiniteSet(found)
    /\ found # {} => start \in Code
    /\ \A f \in found :
          /\ f \in [edge : edges, depth : 1 .. request.maxDepth] /\ f.edge.type = "CALLS"
          /\ f.edge.start \in Code /\ f.edge.end \in DOMAIN Depth
          /\ Depth[f.edge.end] = f.depth - 1

(* The frontier is the callers first met at the last level.                *)
FrontierFits ==
    /\ step = "traverse" =>
          /\ start \in Code /\ level \in 1 .. request.maxDepth + 1
          /\ frontier \subseteq DOMAIN Depth
          /\ \A n \in frontier : Depth[n] = level - 1
          /\ \A f \in found : f.depth < level
    /\ step = "downstream" => frontier \subseteq DOMAIN down

StartFits ==
    /\ step \in {"resolve", "begin"} => found = {} /\ level = 1
    /\ step \in EarlySteps \cup {"unresolved"} =>
          routes = NoRoutes /\ stores = NoRoutes /\ down = NoRoutes /\ kept = {} /\ items = {}
    /\ step \in LateSteps => start \in Code

RoutesFit == Routed(routes) /\ Routed(stores) /\ Routed(down)

IInv == TypesFit /\ FoundFits /\ FrontierFits /\ StartFits /\ RoutesFit /\ ReportFits

LEMMA EdgeFacts ==
    ASSUME TypesFit
    PROVE  /\ IsFiniteSet(edges)
           /\ \A e \in edges :
                 /\ e \in [start : Code \cup DOMAIN Label, type : STRING, end : Code \cup DOMAIN Label]
                 /\ e.type = "CALLS" /\ e.end \in Code => e.start \in Code
<1>1. edges \in SUBSET (InitialEdges \cup LaterEdges)
  BY DEF TypesFit
<1>2. IsFiniteSet(InitialEdges \cup LaterEdges)
  BY GraphAssumption
<1>3. IsFiniteSet(edges)
  BY <1>1, <1>2, FS_Subset
<1>4. QED
  BY <1>1, <1>3, GraphAssumption

LEMMA LimitsAreNat ==
    ASSUME TypesFit
    PROVE  request.maxDepth \in Nat /\ request.maxDownstream \in Nat /\ request.maxPaths \in Nat \ {0}
BY RequestsAssumption DEF TypesFit

-----------------------------------------------------------------------------
(***************************************************************************)
(* The depth of a caller, and the chains that lead to it.                  *)
(***************************************************************************)
LEMMA DepthFacts ==
    ASSUME TypesFit, FoundFits
    PROVE  /\ DOMAIN Depth = {start} \cup {f.edge.start : f \in found}
           /\ IsFiniteSet(DOMAIN Depth) /\ DOMAIN Depth \subseteq {start} \cup Code
           /\ Depth[start] = 0
           /\ \A n \in DOMAIN Depth \ {start} :
                 /\ Depth[n] \in 1 .. request.maxDepth
                 /\ \E f \in found : f.edge.start = n /\ f.depth = Depth[n]
                 /\ \A f \in found : f.edge.start = n => Depth[n] <= f.depth
<1>1. DOMAIN Depth = {start} \cup {f.edge.start : f \in found} /\ Depth[start] = 0
  BY DEF Depth, DepthOf
<1>2. IsFiniteSet({f.edge.start : f \in found})
  <2> DEFINE callers == [f \in found |-> f.edge.start]
  <2>1. {f.edge.start : f \in found} = {callers[f] : f \in found}
    OBVIOUS
  <2>2. IsFiniteSet(found)
    BY DEF FoundFits
  <2> HIDE DEF callers
  <2>3. IsFiniteSet({callers[f] : f \in found})
    BY <2>2, ImageIsFinite
  <2>4. QED
    BY <2>1, <2>3
<1>3. IsFiniteSet(DOMAIN Depth)
  <2>1. IsFiniteSet({start})
    BY FS_Singleton
  <2>2. IsFiniteSet({start} \cup {f.edge.start : f \in found})
    BY <1>2, <2>1, FS_Union
  <2>3. QED
    BY <1>1, <2>2
<1>4. ASSUME NEW n \in DOMAIN Depth, n # start
      PROVE  /\ Depth[n] \in 1 .. request.maxDepth
             /\ \E f \in found : f.edge.start = n /\ f.depth = Depth[n]
             /\ \A f \in found : f.edge.start = n => Depth[n] <= f.depth
  <2> DEFINE levels == {f.depth : f \in {g \in found : g.edge.start = n}}
  <2>1. Depth[n] = Min(levels)
    BY <1>4 DEF Depth, DepthOf
  <2>2. levels # {}
    BY <1>1, <1>4
  <2>3. levels \subseteq 1 .. request.maxDepth /\ levels \subseteq Nat
    BY DEF FoundFits
  <2>4. Depth[n] \in levels /\ \A k \in levels : Depth[n] <= k
    <3> HIDE DEF levels
    <3>1. QED
      BY <2>1, <2>2, <2>3, MinIsSmallest
  <2>5. QED
    BY <2>3, <2>4
<1>5. DOMAIN Depth \subseteq {start} \cup Code
  BY <1>1 DEF FoundFits
<1>6. QED
  BY <1>1, <1>3, <1>4, <1>5

(* A predecessor is a caller's callee, one level nearer.                   *)
LEMMA PredecessorsFit ==
    ASSUME TypesFit, FoundFits, NEW n \in DOMAIN Depth, n # start
    PROVE  /\ Predecessors(Depth, found, n) # {} /\ IsFiniteSet(Predecessors(Depth, found, n))
           /\ \A p \in Predecessors(Depth, found, n) :
                 /\ p \in DOMAIN Depth /\ Depth[p] \in Nat /\ Depth[p] = Depth[n] - 1
                 /\ Holds(n, "CALLS", p) /\ n \in Code
<1> DEFINE rows == {g \in found : /\ g.edge.start = n
                                  /\ Depth[n] = g.depth
                                  /\ Depth[g.edge.end] = g.depth - 1}
           ends == [g \in rows |-> g.edge.end]
<1>1. Predecessors(Depth, found, n) = {ends[g] : g \in rows}
  BY DEF Predecessors
<1>2. PICK f \in found : f.edge.start = n /\ f.depth = Depth[n]
  BY DepthFacts
<1>3. f \in rows
  BY <1>2 DEF FoundFits
<1>4. IsFiniteSet({ends[g] : g \in rows})
  <2>1. IsFiniteSet(rows)
    <3>1. rows \in SUBSET found
      OBVIOUS
    <3> HIDE DEF rows
    <3>2. QED
      BY <3>1, FS_Subset DEF FoundFits
  <2> HIDE DEF rows, ends
  <2>2. QED
    BY <2>1, ImageIsFinite
<1>5. ASSUME NEW g \in rows
      PROVE  /\ g.edge.end \in DOMAIN Depth /\ Depth[g.edge.end] \in Nat
             /\ Depth[g.edge.end] = Depth[n] - 1
             /\ Holds(n, "CALLS", g.edge.end) /\ n \in Code
  <2>1. g \in found /\ g.edge \in edges /\ g.edge.type = "CALLS" /\ n \in Code /\ g.edge.end \in DOMAIN Depth
    BY DEF FoundFits
  <2>2. g.edge = [start |-> n, type |-> "CALLS", end |-> g.edge.end]
    BY <2>1, EdgeFacts
  <2>3. Depth[n] \in 1 .. request.maxDepth
    BY DepthFacts
  <2>4. QED
    BY <2>1, <2>2, <2>3, LimitsAreNat DEF Holds
<1>6. QED
  BY <1>1, <1>3, <1>4, <1>5

-----------------------------------------------------------------------------
(* What the chains of one node are made of.                                *)
ChainsAt(f, n) ==
    IF n = start THEN {<<Step(start, "none")>>}
    ELSE AtMost(request.maxPaths, {Append(c, Step(n, "CALLS")) :
                                      c \in UNION {f[p] : p \in Predecessors(Depth, found, n)}})

Nearer(k) == {n \in DOMAIN Depth : Depth[n] <= k}

(* The recursion of enumerate_chains ends: it only ever asks for the       *)
(* chains of nodes one level nearer.                                       *)
LEMMA ChainsExist ==
    ASSUME TypesFit, FoundFits
    PROVE  \A k \in Nat : \E f : f = [n \in Nearer(k) |-> ChainsAt(f, n)]
<1> DEFINE Good(k) == \E f : f = [n \in Nearer(k) |-> ChainsAt(f, n)]
           Bad == {k \in Nat : ~Good(k)}
<1>1. Bad = {} => \A k \in Nat : \E f : f = [n \in Nearer(k) |-> ChainsAt(f, n)]
  OBVIOUS
<1>2. SUFFICES ASSUME Bad # {}
               PROVE  FALSE
  BY <1>1
<1>3. PICK k \in Bad : \A j \in Bad : k <= j
  <2>1. Bad \subseteq Nat
    OBVIOUS
  <2> HIDE DEF Bad
  <2>2. QED
    BY <1>2, <2>1, SmallestExists
<1>4. k \in Nat /\ ~Good(k)
  OBVIOUS
<1>5. CASE k = 0
  <2> DEFINE f == [n \in Nearer(0) |-> {<<Step(start, "none")>>}]
  <2>1. \A n \in Nearer(0) : n = start
    BY DepthFacts DEF Nearer
  <2>2. \A n \in Nearer(0) : ChainsAt(f, n) = {<<Step(start, "none")>>}
    BY <2>1 DEF ChainsAt
  <2>3. f = [n \in Nearer(0) |-> ChainsAt(f, n)]
    BY <2>2
  <2> HIDE DEF f
  <2>4. QED
    BY <1>4, <1>5, <2>3
<1>6. CASE k # 0
  <2>1. k - 1 \in Nat
    BY <1>4, <1>6
  <2>2. k - 1 \notin Bad
    BY <1>3, <1>4, <2>1
  <2>3. PICK f : f = [n \in Nearer(k - 1) |-> ChainsAt(f, n)]
    BY <2>1, <2>2
  <2> DEFINE g == [n \in Nearer(k) |-> ChainsAt(f, n)]
  <2>4. ASSUME NEW n \in Nearer(k)
        PROVE  ChainsAt(g, n) = ChainsAt(f, n)
    <3>1. CASE n = start
      BY <3>1 DEF ChainsAt
    <3>2. CASE n # start
      <4>1. n \in DOMAIN Depth /\ Depth[n] <= k /\ Depth[n] \in Nat
        BY <3>2, DepthFacts, LimitsAreNat DEF Nearer
      <4>2. \A p \in Predecessors(Depth, found, n) : p \in Nearer(k) /\ p \in Nearer(k - 1)
        BY <1>4, <3>2, <4>1, PredecessorsFit DEF Nearer
      <4>3. \A p \in Predecessors(Depth, found, n) : g[p] = f[p]
        BY <2>3, <4>2
      <4>4. {g[p] : p \in Predecessors(Depth, found, n)} = {f[p] : p \in Predecessors(Depth, found, n)}
        BY <4>3
      <4> HIDE DEF g
      <4>5. QED
        BY <4>4 DEF ChainsAt
    <3>3. QED
      BY <3>1, <3>2
  <2>5. g = [n \in Nearer(k) |-> ChainsAt(g, n)]
    BY <2>4
  <2> HIDE DEF g
  <2>6. QED
    BY <1>4, <2>5
<1>7. QED
  BY <1>5, <1>6

LEMMA ChainsUnfold ==
    ASSUME TypesFit, FoundFits
    PROVE  CodeRoutes = [n \in DOMAIN Depth |-> ChainsAt(CodeRoutes, n)]
<1>1. \A n \in DOMAIN Depth : Depth[n] <= request.maxDepth
  BY DepthFacts, LimitsAreNat
<1>2. Nearer(request.maxDepth) = DOMAIN Depth
  BY <1>1 DEF Nearer
<1>3. \E f : f = [n \in DOMAIN Depth |-> ChainsAt(f, n)]
  BY <1>2, ChainsExist, LimitsAreNat
<1>4. CodeRoutes = CHOOSE f : f = [n \in DOMAIN Depth |-> ChainsAt(f, n)]
  BY DEF CodeRoutes, Chains, ChainsAt
<1>5. QED
  BY <1>3, <1>4

(* Every caller has a chain, and every chain leads along calls of the      *)
(* graph to the changed code, in as many steps as the caller is deep.      *)
Chained(paths, n) ==
    /\ LeadTo(paths, n) /\ paths # {}
    /\ \A c \in paths : Length(c) = Depth[n]

LEMMA ChainsFit ==
    ASSUME TypesFit, FoundFits, DOMAIN Depth \subseteq Code
    PROVE  DOMAIN CodeRoutes = DOMAIN Depth /\ \A n \in DOMAIN Depth : Chained(CodeRoutes[n], n)
<1> DEFINE Bad == {Depth[n] : n \in {m \in DOMAIN Depth : ~Chained(CodeRoutes[m], m)}}
<1>1. CodeRoutes = [n \in DOMAIN Depth |-> ChainsAt(CodeRoutes, n)]
  BY ChainsUnfold
<1>2. PICK chains : chains = CodeRoutes
  OBVIOUS
<1>3. DOMAIN chains = DOMAIN Depth /\ \A n \in DOMAIN Depth : chains[n] = ChainsAt(chains, n)
  BY <1>1, <1>2
<1>4. SUFFICES ASSUME Bad # {}
               PROVE  FALSE
  BY <1>2, <1>3
<1>5. PICK d \in Bad : \A j \in Bad : d <= j
  <2>1. Bad \subseteq Nat
    BY DepthFacts, LimitsAreNat
  <2> HIDE DEF Bad
  <2>2. QED
    BY <1>4, <2>1, SmallestExists
<1>6. PICK n \in DOMAIN Depth : ~Chained(chains[n], n) /\ Depth[n] = d
  BY <1>2, <1>5
<1>7. CASE n = start
  <2>1. chains[n] = {<<Step(start, "none")>>}
    BY <1>3, <1>7 DEF ChainsAt
  <2> DEFINE p == <<Step(start, "none")>>
  <2>2. Step(start, "none") \in Steps
    <3>1. start \in Names
      BY <1>6, <1>7 DEF Names
    <3>2. QED
      BY <3>1 DEF Step, Steps, Relations
  <2>3. IsPath(p) /\ Terminal(p) = start /\ Length(p) = 0
    BY <2>2 DEF IsPath, Terminal, Length, Step
  <2>4. IsFiniteSet({p})
    BY FS_Singleton
  <2>5. Depth[start] = 0
    BY DepthFacts
  <2>6. QED
    BY <1>6, <1>7, <2>1, <2>3, <2>4, <2>5 DEF LeadTo, Chained
<1>8. CASE n # start
  <2> DEFINE P == Predecessors(Depth, found, n)
             whole == UNION {chains[p] : p \in P}
             longer == {Append(c, Step(n, "CALLS")) : c \in whole}
  <2>1. chains[n] = AtMost(request.maxPaths, longer)
    BY <1>3, <1>8 DEF ChainsAt
  <2>2. IsFiniteSet(P) /\ \A p \in P : /\ p \in DOMAIN Depth /\ Depth[p] \in Nat /\ Depth[p] = Depth[n] - 1
                                       /\ Holds(n, "CALLS", p) /\ n \in Code
    BY <1>8, PredecessorsFit
  <2>3. P # {} /\ Depth[n] \in Nat
    BY <1>8, PredecessorsFit, DepthFacts, LimitsAreNat
  <2> HIDE DEF P
  <2>4. \A p \in P : Chained(chains[p], p)
    <3> SUFFICES ASSUME NEW p \in P, ~Chained(chains[p], p)
                 PROVE  FALSE
      OBVIOUS
    <3>1. Depth[p] \in Bad
      BY <1>2, <2>2
    <3>2. d <= Depth[p] /\ Depth[p] \in Nat /\ Depth[p] = d - 1 /\ d \in Int
      <4>1. Depth[n] \in Nat
        BY <1>8, DepthFacts, LimitsAreNat
      <4>2. QED
        BY <1>5, <1>6, <2>2, <3>1, <4>1
    <3>3. QED
      BY <3>2
  <2>5. IsFiniteSet(whole)
    <3>1. \A p \in P : IsFiniteSet(chains[p])
      BY <2>4 DEF LeadTo, Chained
    <3>2. QED
      BY <2>2, <3>1, UnionIsFinite
  <2>6. IsFiniteSet(longer)
    <3> DEFINE f == [c \in whole |-> Append(c, Step(n, "CALLS"))]
    <3>1. longer = {f[c] : c \in whole}
      OBVIOUS
    <3> HIDE DEF f, whole, longer
    <3>2. IsFiniteSet({f[c] : c \in whole})
      BY <2>5, ImageIsFinite
    <3>3. QED
      BY <3>1, <3>2
  <2>7. \A q \in longer : IsPath(q) /\ Terminal(q) = n /\ Length(q) = Depth[n]
    <3> SUFFICES ASSUME NEW p \in P, NEW c \in chains[p]
                 PROVE  LET q == Append(c, Step(n, "CALLS"))
                        IN IsPath(q) /\ Terminal(q) = n /\ Length(q) = Depth[n]
      OBVIOUS
    <3>1. IsPath(c) /\ Terminal(c) = p /\ Length(c) = Depth[n] - 1
      BY <2>2, <2>4 DEF LeadTo, Chained
    <3>2. RealStep(p, n, "CALLS")
      BY <2>2 DEF RealStep
    <3>3. n \in Names
      BY <2>2 DEF Names
    <3>4. "CALLS" \in Relations
      BY DEF Relations
    <3>5. QED
      BY <2>3, <3>1, <3>2, <3>3, <3>4, PathExtends
  <2>8. longer # {}
    <3>1. PICK p \in P : TRUE
      BY <2>3
    <3>2. PICK c \in chains[p] : TRUE
      BY <2>4, <3>1 DEF Chained
    <3>3. c \in whole
      BY <3>1, <3>2
    <3> HIDE DEF whole
    <3>4. QED
      BY <3>3
  <2> HIDE DEF longer
  <2>9. /\ AtMost(request.maxPaths, longer) \subseteq longer /\ IsFiniteSet(AtMost(request.maxPaths, longer))
        /\ AtMost(request.maxPaths, longer) # {}
    BY <2>6, <2>8, AtMostTakes, LimitsAreNat
  <2>10. QED
    BY <1>6, <2>1, <2>7, <2>9 DEF LeadTo, Chained
<1>9. QED
  BY <1>7, <1>8

-----------------------------------------------------------------------------
(***************************************************************************)
(* What stands as long as the graph only grows.                            *)
(***************************************************************************)
LEMMA FoundStands ==
    ASSUME FoundFits, edges \subseteq edges', UNCHANGED <<start, found, request>>
    PROVE  FoundFits'
BY DEF FoundFits, Depth

LEMMA RoutesStand ==
    ASSUME RoutesFit, edges \subseteq edges', UNCHANGED <<start, routes, stores, down>>
    PROVE  RoutesFit'
<1>1. \A p : IsPath(p) => IsPath(p)'
  BY PathsStand
<1>2. \A paths, n : LeadTo(paths, n) => LeadTo(paths, n)'
  BY <1>1 DEF LeadTo
<1>3. QED
  BY <1>2 DEF RoutesFit, Routed

LEMMA ReportStands ==
    ASSUME ReportFits, edges \subseteq edges', UNCHANGED <<start, request, kept, items>>
    PROVE  ReportFits'
<1>1. Offered(kept)'
  BY PathsStand DEF ReportFits, Offered
<1>2. \A i \in items : ItemFits(i)'
  BY DEF ReportFits, ItemFits
<1>3. QED
  BY <1>1, <1>2 DEF ReportFits

(* A new value of what maps nodes to routes.                               *)
LEMMA RoutedNow ==
    ASSUME NEW r, Routed(r), UNCHANGED <<edges, start>>
    PROVE  Routed(r)'
<1>1. \A p : IsPath(p) => IsPath(p)'
  BY PathsStand
<1>2. \A paths, n : LeadTo(paths, n) => LeadTo(paths, n)'
  BY <1>1 DEF LeadTo
<1>3. QED
  BY <1>2 DEF Routed

(* Of the relationships of the graph, what the rows of a query give.       *)
LEMMA RowsFit ==
    ASSUME TypesFit, NEW S, S \subseteq edges
    PROVE  /\ IsFiniteSet(S) /\ IsFiniteSet({e.end : e \in S})
           /\ \A e \in S : /\ e.start \in Code \cup DOMAIN Label /\ e.end \in Code \cup DOMAIN Label
                           /\ e.start \in Names /\ e.end \in Names
                           /\ Holds(e.start, e.type, e.end)
<1>1. S \in SUBSET edges
  OBVIOUS
<1>2. IsFiniteSet(S)
  BY <1>1, EdgeFacts, FS_Subset
<1>3. IsFiniteSet({e.end : e \in S})
  <2> DEFINE f == [e \in S |-> e.end]
  <2>1. {e.end : e \in S} = {f[e] : e \in S}
    OBVIOUS
  <2> HIDE DEF f
  <2>2. IsFiniteSet({f[e] : e \in S})
    BY <1>2, ImageIsFinite
  <2>3. QED
    BY <2>1, <2>2
<1>4. ASSUME NEW e \in S
      PROVE  /\ e.start \in Code \cup DOMAIN Label /\ e.end \in Code \cup DOMAIN Label
             /\ e.start \in Names /\ e.end \in Names
             /\ Holds(e.start, e.type, e.end)
  <2>1. e \in edges /\ e \in [start : Code \cup DOMAIN Label, type : STRING, end : Code \cup DOMAIN Label]
    BY EdgeFacts
  <2>2. e = [start |-> e.start, type |-> e.type, end |-> e.end]
    BY <2>1
  <2>3. QED
    BY <2>1, <2>2 DEF Names, Holds
<1>5. QED
  BY <1>2, <1>3, <1>4

-----------------------------------------------------------------------------
(***************************************************************************)
(* The traversal.                                                          *)
(***************************************************************************)
(* The rows of a further level add callers of that level and bring no      *)
(* caller nearer.                                                          *)
LEMMA DepthGrows ==
    ASSUME TypesFit, FoundFits, NEW more, level \in Nat, level >= 1, \A f \in found : f.depth < level,
           \A f \in more : f.depth = level, found' = found \cup more, start' = start
    PROVE  /\ DOMAIN Depth' = DOMAIN Depth \cup {f.edge.start : f \in more}
           /\ \A n \in DOMAIN Depth : Depth'[n] = Depth[n]
           /\ \A n \in {f.edge.start : f \in more} \ DOMAIN Depth : Depth'[n] = level
<1>1. DOMAIN Depth' = DOMAIN Depth \cup {f.edge.start : f \in more} /\ Depth'[start] = 0
  BY DEF Depth, DepthOf
<1>2. ASSUME NEW n, n # start, n \in DOMAIN Depth'
      PROVE  /\ \E f \in found \cup more : f.edge.start = n /\ Depth'[n] = f.depth
             /\ \A f \in found \cup more : f.edge.start = n => Depth'[n] <= f.depth
  <2> DEFINE levels == {f.depth : f \in {g \in found \cup more : g.edge.start = n}}
  <2>1. Depth'[n] = Min(levels)
    BY <1>2 DEF Depth, DepthOf
  <2>2. levels # {}
    BY <1>2 DEF Depth, DepthOf
  <2>3. levels \subseteq Nat
    BY LimitsAreNat DEF FoundFits
  <2>4. Depth'[n] \in levels /\ \A k \in levels : Depth'[n] <= k
    <3> HIDE DEF levels
    <3>1. QED
      BY <2>1, <2>2, <2>3, MinIsSmallest
  <2>5. QED
    BY <2>4
<1>3. ASSUME NEW n \in DOMAIN Depth, n # start
      PROVE  Depth'[n] = Depth[n]
  <2>1. PICK f \in found : f.edge.start = n /\ f.depth = Depth[n]
    BY <1>3, DepthFacts
  <2>2. PICK g \in found \cup more : g.edge.start = n /\ Depth'[n] = g.depth
    BY <1>1, <1>2, <1>3
  <2>3. Depth'[n] <= f.depth
    BY <1>1, <1>2, <1>3, <2>1
  <2>4. f.depth \in Nat /\ f.depth < level /\ g.depth \in Nat
    BY LimitsAreNat DEF FoundFits
  <2>5. g \in found
    BY <2>2, <2>3, <2>4
  <2>6. Depth[n] <= g.depth
    BY <1>3, <2>2, <2>5, DepthFacts
  <2>7. QED
    BY <2>1, <2>2, <2>3, <2>4, <2>6
<1>4. ASSUME NEW n \in {f.edge.start : f \in more} \ DOMAIN Depth
      PROVE  Depth'[n] = level
  <2>1. n # start /\ \A f \in found : f.edge.start # n
    BY <1>4, DepthFacts
  <2>2. QED
    BY <1>1, <1>2, <1>4, <2>1
<1>5. Depth'[start] = Depth[start]
  BY <1>1, DepthFacts
<1>6. QED
  BY <1>1, <1>3, <1>4, <1>5

LEMMA TraverseKeeps ==
    ASSUME IInv, Traverse
    PROVE  IInv'
<1> USE DEF IInv
<1>1. At("traverse") /\ UNCHANGED <<edges, request, seen, start, routes, stores, down, kept, items, notes>>
  BY DEF Traverse, Goto, report
<1>2. RoutesFit'
  BY <1>1, RoutesStand
<1>3. ReportFits'
  BY <1>1, ReportStands
<1>4. /\ start \in Code /\ level \in 1 .. request.maxDepth + 1 /\ frontier \subseteq DOMAIN Depth
      /\ \A n \in frontier : Depth[n] = level - 1
      /\ \A f \in found : f.depth < level
  BY <1>1 DEF FrontierFits, At
<1>5. StartFits /\ routes = NoRoutes /\ stores = NoRoutes /\ down = NoRoutes /\ kept = {} /\ items = {}
  BY <1>1 DEF StartFits, EarlySteps, At
<1>6. CASE ~(frontier # {} /\ level <= request.maxDepth)
  <2>1. step' = "fetch" /\ UNCHANGED <<found, frontier, level>>
    BY <1>6 DEF Traverse, Goto
  <2>2. FoundFits'
    BY <1>1, <2>1, FoundStands
  <2>3. TypesFit' /\ FrontierFits' /\ StartFits'
    BY <1>1, <1>4, <1>5, <2>1 DEF TypesFit, FrontierFits, StartFits, EarlySteps, LateSteps, NoRoutes
  <2>4. QED
    BY <1>2, <1>3, <2>2, <2>3
<1>7. CASE frontier # {} /\ level <= request.maxDepth
  <2> DEFINE more == CallersFound
  <2>1. /\ step' = "traverse" /\ found' = found \cup more /\ level' = level + 1
        /\ frontier' = NewCallers({f.edge : f \in more})
    BY <1>7 DEF Traverse, Goto
  <2>2. level \in Nat /\ level >= 1 /\ request.maxDepth \in Nat
    BY <1>4, LimitsAreNat
  <2>3. ASSUME NEW f \in more
        PROVE  /\ f = [edge |-> f.edge, depth |-> level] /\ f.depth = level
               /\ f.edge \in edges /\ f.edge.type = "CALLS" /\ f.edge.end \in frontier
               /\ f.edge.start \in Code
    <3>1. PICK e \in edges : f = [edge |-> e, depth |-> level] /\ e.type = "CALLS" /\ e.end \in frontier
      BY DEF CallersFound, Rows
    <3>2. e.end \in Code
      BY <1>4, <3>1, DepthFacts
    <3>3. e.start \in Code
      BY <3>1, <3>2, EdgeFacts
    <3>4. QED
      BY <3>1, <3>3
  <2>4. IsFiniteSet(more)
    <3> DEFINE rows == Rows({"CALLS"}, frontier)
               row == [e \in rows |-> [edge |-> e, depth |-> level]]
    <3>1. rows \subseteq edges
      BY DEF Rows
    <3>2. more = {row[e] : e \in rows}
      BY DEF CallersFound
    <3> HIDE DEF rows, row, more
    <3>3. IsFiniteSet({row[e] : e \in rows})
      BY <3>1, RowsFit, ImageIsFinite
    <3>4. QED
      BY <3>2, <3>3
  <2> HIDE DEF more
  <2>5. /\ DOMAIN Depth' = DOMAIN Depth \cup {f.edge.start : f \in more}
        /\ \A n \in DOMAIN Depth : Depth'[n] = Depth[n]
        /\ \A n \in {f.edge.start : f \in more} \ DOMAIN Depth : Depth'[n] = level
    BY <1>1, <1>4, <2>1, <2>2, <2>3, DepthGrows
  <2>6. FoundFits'
    <3>1. IsFiniteSet(found')
      BY <2>1, <2>4, FS_Union DEF FoundFits
    <3>2. ASSUME NEW f \in found
          PROVE  /\ f \in [edge : edges', depth : 1 .. request.maxDepth'] /\ f.edge.type = "CALLS"
                 /\ f.edge.start \in Code /\ f.edge.end \in DOMAIN Depth'
                 /\ Depth'[f.edge.end] = f.depth - 1
      BY <1>1, <2>5 DEF FoundFits
    <3>3. ASSUME NEW f \in more
          PROVE  /\ f \in [edge : edges', depth : 1 .. request.maxDepth'] /\ f.edge.type = "CALLS"
                 /\ f.edge.start \in Code /\ f.edge.end \in DOMAIN Depth'
                 /\ Depth'[f.edge.end] = f.depth - 1
      <4>1. level \in 1 .. request.maxDepth
        BY <1>7, <2>2
      <4>2. f \in [edge : edges, depth : 1 .. request.maxDepth]
        BY <2>3, <4>1
      <4>3. QED
        BY <1>1, <1>4, <2>3, <2>5, <4>2
    <3>4. QED
      BY <1>1, <1>4, <2>1, <3>1, <3>2, <3>3 DEF FoundFits
  <2>7. FrontierFits'
    <3>1. frontier' \subseteq {f.edge.start : f \in more} \ DOMAIN Depth
      BY <2>1, DepthFacts DEF NewCallers, Visited
    <3>2. \A f \in found' : f.depth < level'
      <4>1. \A f \in found : f.depth \in Nat
        BY <2>2 DEF FoundFits
      <4>2. QED
        BY <1>4, <2>1, <2>2, <2>3, <4>1
    <3>3. level' \in 1 .. request.maxDepth' + 1 /\ level' - 1 = level
      BY <1>1, <1>7, <2>1, <2>2
    <3>4. QED
      BY <1>1, <1>4, <2>1, <2>5, <3>1, <3>2, <3>3 DEF FrontierFits
  <2>8. TypesFit' /\ StartFits'
    BY <1>1, <1>5, <2>1 DEF TypesFit, StartFits, EarlySteps, LateSteps, NoRoutes
  <2>9. QED
    BY <1>2, <1>3, <2>6, <2>7, <2>8
<1>8. QED
  BY <1>6, <1>7

-----------------------------------------------------------------------------
(***************************************************************************)
(* The other steps, one by one.                                            *)
(***************************************************************************)
(* Giving up leaves nothing behind, since nothing was collected before.    *)
LEMMA GivingUpKeeps ==
    ASSUME IInv, step \in EarlySteps, NEW reason, GiveUp(reason)
    PROVE  IInv'
<1> USE DEF IInv
<1>1. /\ step' = "unresolved"
      /\ UNCHANGED <<edges, request, seen, start, found, frontier, level, routes, stores, down, kept, items>>
  BY DEF GiveUp, Goto, progress
<1>2. FoundFits' /\ RoutesFit' /\ ReportFits'
  BY <1>1, FoundStands, RoutesStand, ReportStands
<1>3. TypesFit' /\ FrontierFits' /\ StartFits'
  BY <1>1 DEF TypesFit, FrontierFits, StartFits, EarlySteps, LateSteps, NoRoutes
<1>4. QED
  BY <1>2, <1>3

LEMMA ResolveKeeps ==
    ASSUME IInv, Resolve
    PROVE  IInv'
<1> USE DEF IInv
<1>1. At("resolve")
  BY DEF Resolve
<1>2. step \in EarlySteps
  BY <1>1 DEF At, EarlySteps
<1>3. CASE GiveUp("not one node")
  BY <1>2, <1>3, GivingUpKeeps
<1>4. CASE /\ Goto(IF request.maxDepth < 1 THEN "fetch" ELSE "begin")
           /\ UNCHANGED <<found, frontier, level, routes, stores, down, report>>
  <2>1. /\ step' \in {"fetch", "begin"}
        /\ UNCHANGED <<edges, request, seen, found, frontier, level, routes, stores, down, kept, items, notes>>
    BY <1>4 DEF Goto, report
  <2>2. /\ found = {} /\ level = 1 /\ kept = {} /\ items = {}
        /\ routes = NoRoutes /\ stores = NoRoutes /\ down = NoRoutes
    BY <1>1 DEF StartFits, At, EarlySteps
  <2>3. FoundFits'
    BY <2>1, <2>2 DEF FoundFits
  <2>4. RoutesFit'
    BY <2>1, <2>2 DEF RoutesFit, Routed, NoRoutes
  <2>5. ReportFits'
    BY <2>1, <2>2 DEF ReportFits, Offered, Under
  <2>6. TypesFit' /\ FrontierFits' /\ StartFits'
    BY <2>1, <2>2 DEF TypesFit, FrontierFits, StartFits, EarlySteps, LateSteps, NoRoutes
  <2>7. QED
    BY <2>3, <2>4, <2>5, <2>6
<1>5. QED
  BY <1>3, <1>4 DEF Resolve

LEMMA BeginKeeps ==
    ASSUME IInv, Begin
    PROVE  IInv'
<1> USE DEF IInv
<1>1. At("begin")
  BY DEF Begin
<1>2. step \in EarlySteps
  BY <1>1 DEF At, EarlySteps
<1>3. CASE GiveUp("not in the graph")
  BY <1>2, <1>3, GivingUpKeeps
<1>4. CASE start \in Code
  <2>1. /\ step' = "traverse" /\ frontier' = {start}
        /\ UNCHANGED <<edges, request, seen, start, found, level, routes, stores, down, kept, items, notes>>
    BY <1>4 DEF Begin, Goto, report
  <2>2. FoundFits' /\ RoutesFit' /\ ReportFits'
    BY <2>1, FoundStands, RoutesStand, ReportStands
  <2>3. found = {} /\ level = 1
    BY <1>1 DEF StartFits, At
  <2>4. DOMAIN Depth' = DOMAIN Depth /\ Depth'[start] = Depth[start]
    BY <2>1 DEF Depth
  <2>5. FrontierFits'
    <3>1. level' \in 1 .. request.maxDepth' + 1
      BY <2>1, <2>3, LimitsAreNat
    <3>2. start \in DOMAIN Depth' /\ Depth'[start] = level' - 1
      BY <2>1, <2>3, <2>4, DepthFacts
    <3>3. QED
      BY <1>4, <2>1, <2>3, <3>1, <3>2 DEF FrontierFits
  <2>6. TypesFit' /\ StartFits'
    BY <1>2, <2>1 DEF TypesFit, StartFits, EarlySteps, LateSteps, NoRoutes
  <2>7. QED
    BY <2>2, <2>5, <2>6
<1>5. QED
  BY <1>3, <1>4 DEF Begin

(* What a query of the report adds.                                        *)
LEMMA QueryKeeps ==
    ASSUME IInv, step \in LateSteps, step' \in LateSteps, step' # "downstream",
           NEW offers, Offered(offers), NEW cut, Collect(offers, cut),
           UNCHANGED <<edges, request, seen, start, found>>, RoutesFit'
    PROVE  IInv'
<1> USE DEF IInv
<1>1. ReportFits'
  BY CollectKeeps, LimitsAreNat
<1>2. FoundFits'
  BY FoundStands
<1>3. TypesFit' /\ FrontierFits' /\ StartFits'
  BY DEF TypesFit, FrontierFits, StartFits, EarlySteps, LateSteps, NoRoutes
<1>4. QED
  BY <1>1, <1>2, <1>3

LEMMA NotesKeep ==
    ASSUME IInv, step \in LateSteps, NEW new, NEW next, next \in {"more", "sites", "done"}, AddNotes(new, next)
    PROVE  IInv'
<1> USE DEF IInv
<1>1. /\ step' \in {"more", "sites", "done"}
      /\ UNCHANGED <<edges, request, seen, start, found, frontier, level, routes, stores, down, kept, items>>
  BY DEF AddNotes, Goto, progress
<1>2. FoundFits' /\ RoutesFit' /\ ReportFits'
  BY <1>1, FoundStands, RoutesStand, ReportStands
<1>3. TypesFit' /\ FrontierFits' /\ StartFits'
  BY <1>1 DEF TypesFit, FrontierFits, StartFits, EarlySteps, LateSteps, NoRoutes
<1>4. QED
  BY <1>2, <1>3

LEMMA GrowKeeps ==
    ASSUME IInv, Grow
    PROVE  IInv'
<1> USE DEF IInv
<1>1. /\ edges \subseteq edges' /\ edges' \subseteq InitialEdges \cup LaterEdges /\ InitialEdges \subseteq edges'
      /\ UNCHANGED <<request, step, start, found, frontier, level, routes, stores, down, kept, items, notes>>
  BY DEF Grow, progress, report, TypesFit
<1>2. FoundFits' /\ RoutesFit' /\ ReportFits'
  BY <1>1, FoundStands, RoutesStand, ReportStands
<1>3. TypesFit' /\ FrontierFits' /\ StartFits'
  BY <1>1 DEF TypesFit, FrontierFits, StartFits, NoRoutes, Depth
<1>4. QED
  BY <1>2, <1>3

-----------------------------------------------------------------------------
(* The routes along classes and files.                                     *)
LEMMA CodeRoutesFit ==
    ASSUME TypesFit, FoundFits, start \in Code
    PROVE  /\ DOMAIN CodeRoutes = DOMAIN Depth /\ DOMAIN Depth \subseteq Code
           /\ IsFiniteSet(DOMAIN Depth)
           /\ \A n \in DOMAIN Depth : /\ Chained(CodeRoutes[n], n) /\ LeadTo(CodeRoutes[n], n)
                                  /\ CategoryOf(n) \in Categories
<1>1. DOMAIN Depth \subseteq Code /\ IsFiniteSet(DOMAIN Depth)
  BY DepthFacts
<1>2. \A n : CategoryOf(n) \in Categories
  BY DEF CategoryOf, Categories, Uncertain
<1>3. QED
  BY <1>1, <1>2, ChainsFit DEF Chained

LEMMA WithClassFits ==
    ASSUME TypesFit, FoundFits, start \in Code, NEW n \in Impacted
    PROVE  /\ n \in Methods => LeadTo(WithClass(n), Info[n].class)
           /\ n \notin Methods => LeadTo(WithClass(n), n)
           /\ Info[n].class \in Names /\ Info[n].file \in Names
<1>1. n \in Code /\ n \in DOMAIN Depth /\ LeadTo(CodeRoutes[n], n)
  BY CodeRoutesFit DEF Impacted
<1>2. Info[n].class \in Names /\ Info[n].file \in Names
  BY <1>1, CodeAssumption DEF Names
<1>3. "CONTAINS" \in Relations /\ RealStep(n, Info[n].class, "CONTAINS")
  BY <1>1 DEF Relations, RealStep
<1>4. LeadTo(Extend(CodeRoutes[n], Info[n].class, "CONTAINS"), Info[n].class)
  BY <1>1, <1>2, <1>3, ExtendLeads
<1>5. QED
  BY <1>1, <1>2, <1>4 DEF WithClass

LEMMA ClassRoutesFit ==
    ASSUME TypesFit, FoundFits, start \in Code
    PROVE  Routed(ClassRoutes)
<1>1. IsFiniteSet(Impacted) /\ IsFiniteSet(Methods) /\ Methods \subseteq Impacted
  <2>1. Impacted \in SUBSET DOMAIN Depth /\ Methods \in SUBSET Impacted
    BY DEF Impacted, Methods
  <2>2. QED
    BY <2>1, CodeRoutesFit, FS_Subset
<1> DEFINE classes == {Info[n].class : n \in Methods}
<1>2. IsFiniteSet(classes) /\ classes \subseteq Names
  <2> DEFINE f == [n \in Methods |-> Info[n].class]
  <2>1. classes = {f[n] : n \in Methods}
    OBVIOUS
  <2>2. classes \subseteq Names
    BY <1>1, WithClassFits
  <2> HIDE DEF f, classes
  <2>3. IsFiniteSet({f[n] : n \in Methods})
    BY <1>1, ImageIsFinite
  <2>4. QED
    BY <2>1, <2>2, <2>3
<1>3. ASSUME NEW c \in classes
      PROVE  LeadTo(UNION {WithClass(n) : n \in {m \in Methods : Info[m].class = c}}, c)
  <2> DEFINE these == {m \in Methods : Info[m].class = c}
             f == [n \in these |-> WithClass(n)]
  <2>1. these \in SUBSET Methods
    OBVIOUS
  <2>2. \A n \in these : LeadTo(f[n], c)
    BY <1>1, WithClassFits
  <2>3. {WithClass(n) : n \in these} = {f[n] : n \in these}
    OBVIOUS
  <2> HIDE DEF these, f
  <2>4. IsFiniteSet(these)
    BY <1>1, <2>1, FS_Subset
  <2>5. LeadTo(UNION {f[n] : n \in these}, c)
    BY <2>2, <2>4, UnionLeads
  <2>6. LeadTo(UNION {WithClass(n) : n \in these}, c)
    BY <2>3, <2>5
  <2>7. QED
    BY <2>6 DEF these
<1>4. QED
  BY <1>2, <1>3 DEF ClassRoutes, Routed

LEMMA FileRoutesFit ==
    ASSUME TypesFit, FoundFits, start \in Code
    PROVE  Routed(FileRoutes)
<1>1. IsFiniteSet(Impacted) /\ Impacted \subseteq Code
  <2>1. Impacted \in SUBSET DOMAIN Depth
    BY DEF Impacted
  <2>2. QED
    BY <2>1, CodeRoutesFit, FS_Subset
<1> DEFINE files == {Info[n].file : n \in Impacted}
<1>2. IsFiniteSet(files) /\ files \subseteq Names
  <2> DEFINE f == [n \in Impacted |-> Info[n].file]
  <2>1. files = {f[n] : n \in Impacted}
    OBVIOUS
  <2>2. files \subseteq Names
    BY WithClassFits
  <2> HIDE DEF f, files
  <2>3. IsFiniteSet({f[n] : n \in Impacted})
    BY <1>1, ImageIsFinite
  <2>4. QED
    BY <2>1, <2>2, <2>3
<1>3. ASSUME NEW n \in Impacted
      PROVE  LeadTo(Extend(WithClass(n), Info[n].file, "CONTAINS"), Info[n].file)
  <2>1. n \in Code /\ Info[n].file \in Names /\ "CONTAINS" \in Relations
    BY <1>1, WithClassFits DEF Relations
  <2>2. RealStep(n, Info[n].file, "CONTAINS") /\ RealStep(Info[n].class, Info[n].file, "CONTAINS")
    BY <2>1 DEF RealStep
  <2>3. QED
    BY <2>1, <2>2, WithClassFits, ExtendLeads
<1>4. ASSUME NEW c \in files
      PROVE  LeadTo(UNION {Extend(WithClass(n), c, "CONTAINS") : n \in {m \in Impacted : Info[m].file = c}}, c)
  <2> DEFINE these == {m \in Impacted : Info[m].file = c}
             f == [n \in these |-> Extend(WithClass(n), c, "CONTAINS")]
  <2>1. these \in SUBSET Impacted
    OBVIOUS
  <2>2. \A n \in these : LeadTo(f[n], c)
    BY <1>3
  <2>3. {Extend(WithClass(n), c, "CONTAINS") : n \in these} = {f[n] : n \in these}
    OBVIOUS
  <2> HIDE DEF these, f
  <2>4. IsFiniteSet(these)
    BY <1>1, <2>1, FS_Subset
  <2>5. LeadTo(UNION {f[n] : n \in these}, c)
    BY <2>2, <2>4, UnionLeads
  <2>6. LeadTo(UNION {Extend(WithClass(n), c, "CONTAINS") : n \in these}, c)
    BY <2>3, <2>5
  <2>7. QED
    BY <2>6 DEF these
<1>5. QED
  BY <1>2, <1>4 DEF FileRoutes, Routed

(* The routes to some of the nodes, offered as paths of a category.        *)
OffersOf(r, S, c) == UNION {Offer(r[n], c) : n \in S}

LEMMA RoutesOffered ==
    ASSUME NEW r, Routed(r), NEW S, S \subseteq DOMAIN r, NEW c \in Categories
    PROVE  Offered(OffersOf(r, S, c))
<1> DEFINE f == [n \in S |-> Offer(r[n], c)]
<1>1. IsFiniteSet(S)
  <2>1. S \in SUBSET DOMAIN r
    OBVIOUS
  <2>2. QED
    BY <2>1, FS_Subset DEF Routed
<1>2. \A n \in S : Offered(f[n])
  BY OfferFits DEF Routed
<1>3. {Offer(r[n], c) : n \in S} = {f[n] : n \in S}
  OBVIOUS
<1> HIDE DEF f
<1>4. Offered(UNION {f[n] : n \in S})
  BY <1>1, <1>2, OffersUnite
<1>5. QED
  BY <1>3, <1>4 DEF OffersOf

LEMMA CodeOffersFit ==
    ASSUME TypesFit, FoundFits, start \in Code
    PROVE  Offered(CodeOffers)
<1> DEFINE S == DOMAIN Depth \ {start}
           f == [n \in S |-> Offer(CodeRoutes[n], CategoryOf(n))]
           code == UNION {Offer(CodeRoutes[n], CategoryOf(n)) : n \in S}
           classes == OffersOf(ClassRoutes, DOMAIN ClassRoutes \ {Primary.class}, "CLASS")
           files == OffersOf(FileRoutes, DOMAIN FileRoutes \ {Primary.file}, "FILE")
<1>1. Offered(code)
  <2>1. S \in SUBSET DOMAIN Depth /\ \A n \in S : Offered(f[n])
    BY CodeRoutesFit, OfferFits
  <2>2. code = UNION {f[n] : n \in S}
    OBVIOUS
  <2> HIDE DEF S, f, code
  <2>3. IsFiniteSet(S)
    BY <2>1, CodeRoutesFit, FS_Subset
  <2>4. Offered(UNION {f[n] : n \in S})
    BY <2>1, <2>3, OffersUnite
  <2>5. QED
    BY <2>2, <2>4
<1>2. Offered(classes) /\ Offered(files)
  <2>1. "CLASS" \in Categories /\ "FILE" \in Categories
    BY DEF Categories
  <2>2. /\ DOMAIN ClassRoutes \ {Primary.class} \subseteq DOMAIN ClassRoutes
        /\ DOMAIN FileRoutes \ {Primary.file} \subseteq DOMAIN FileRoutes
    OBVIOUS
  <2>3. Offered(classes)
    BY <2>1, <2>2, ClassRoutesFit, RoutesOffered
  <2>4. Routed(FileRoutes)
    BY FileRoutesFit
  <2>5. Offered(files)
    BY <2>1, <2>2, <2>4, RoutesOffered
  <2>6. QED
    BY <2>3, <2>5
<1>3. CodeOffers = code \cup classes \cup files
  BY DEF CodeOffers, OffersOf
<1> HIDE DEF code, classes, files
<1>4. Offered(code \cup classes)
  BY <1>1, <1>2, OffersAdd
<1>5. QED
  BY <1>2, <1>3, <1>4, OffersAdd

LEMMA FetchKeeps ==
    ASSUME IInv, Fetch
    PROVE  IInv'
<1> USE DEF IInv
<1>1. At("fetch")
  BY DEF Fetch
<1>2. step \in EarlySteps
  BY <1>1 DEF At, EarlySteps
<1>3. CASE GiveUp("not in the graph")
  BY <1>2, <1>3, GivingUpKeeps
<1>4. CASE start \in Code
  <2>1. /\ step' = "services"
        /\ UNCHANGED <<edges, request, seen, start, found, frontier, level, stores, down>>
        /\ routes' = Updated(Updated([n \in Impacted |-> CodeRoutes[n]], ClassRoutes), FileRoutes)
        /\ Collect(CodeOffers, ChainsTruncated(start, Depth, found, request.maxPaths))
    BY <1>4 DEF Fetch, Goto
  <2>2. Routed([n \in Impacted |-> CodeRoutes[n]])
    <3>1. Impacted \in SUBSET DOMAIN Depth
      BY DEF Impacted
    <3>2. IsFiniteSet(Impacted)
      BY <1>4, <3>1, CodeRoutesFit, FS_Subset
    <3>3. QED
      BY <1>4, <3>1, <3>2, CodeRoutesFit DEF Routed, Names
  <2>3. Routed(routes')
    <3>1. Routed(Updated([n \in Impacted |-> CodeRoutes[n]], ClassRoutes))
      BY <1>4, <2>2, ClassRoutesFit, RoutesUpdate
    <3>2. Routed(Updated(Updated([n \in Impacted |-> CodeRoutes[n]], ClassRoutes), FileRoutes))
      BY <1>4, <3>1, FileRoutesFit, RoutesUpdate
    <3>3. QED
      BY <2>1, <3>2
  <2>4. RoutesFit'
    <3>1. \A r : Routed(r) => Routed(r)'
      BY <2>1, RoutedNow
    <3>2. QED
      BY <2>1, <2>3, <3>1 DEF RoutesFit, Routed
  <2>5. ReportFits'
    <3>1. Offered(CodeOffers)
      BY <1>4, CodeOffersFit
    <3>2. QED
      BY <2>1, <3>1, CollectKeeps, LimitsAreNat
  <2>6. FoundFits'
    BY <2>1, FoundStands
  <2>7. TypesFit' /\ FrontierFits' /\ StartFits'
    BY <1>4, <2>1 DEF TypesFit, FrontierFits, StartFits, EarlySteps, LateSteps
  <2>8. QED
    BY <2>4, <2>5, <2>6, <2>7
<1>5. QED
  BY <1>3, <1>4 DEF Fetch

(* From within a service to the service.                                   *)
LEMMA ServiceRoutesFit ==
    ASSUME IInv
    PROVE  Routed(ServiceRoutes)
<1> USE DEF IInv
<1>1. OwningServices \in SUBSET DOMAIN Label
  BY DEF OwningServices
<1>2. IsFiniteSet(OwningServices) /\ OwningServices \subseteq Names
  BY <1>1, GraphAssumption, FS_Subset DEF Names
<1>3. ASSUME NEW s \in OwningServices
      PROVE  LeadTo(UNION {Extend(routes[x], s, "CONTAINS") : x \in Within(s) \cap DOMAIN routes}, s)
  <2> DEFINE S == Within(s) \cap DOMAIN routes
             f == [x \in S |-> Extend(routes[x], s, "CONTAINS")]
  <2>1. IsFiniteSet(S)
    <3>1. S \in SUBSET DOMAIN routes /\ IsFiniteSet(DOMAIN routes)
      BY DEF RoutesFit, Routed
    <3> HIDE DEF S
    <3>2. QED
      BY <3>1, FS_Subset
  <2>2. \A x \in S : LeadTo(Extend(routes[x], s, "CONTAINS"), s)
    <3> SUFFICES ASSUME NEW x \in S
                 PROVE  LeadTo(Extend(routes[x], s, "CONTAINS"), s)
      OBVIOUS
    <3>1. LabelOf(s) = "Service" /\ x \in Within(s)
      BY DEF OwningServices, LabelOf
    <3>2. RealStep(x, s, "CONTAINS")
      BY <3>1 DEF RealStep
    <3>3. "CONTAINS" \in Relations /\ s \in Names /\ LeadTo(routes[x], x)
      BY <1>2, <1>3 DEF Relations, RoutesFit, Routed
    <3>4. QED
      BY <3>2, <3>3, ExtendLeads
  <2>3. {Extend(routes[x], s, "CONTAINS") : x \in S} = {f[x] : x \in S} /\ \A x \in S : LeadTo(f[x], s)
    BY <2>2
  <2> HIDE DEF S, f
  <2>4. LeadTo(UNION {f[x] : x \in S}, s)
    BY <2>1, <2>3, UnionLeads
  <2>5. LeadTo(UNION {Extend(routes[x], s, "CONTAINS") : x \in S}, s)
    BY <2>3, <2>4
  <2>6. QED
    BY <2>5 DEF S
<1>4. QED
  BY <1>2, <1>3 DEF ServiceRoutes, Routed

LEMMA ServiceOffersFit ==
    ASSUME IInv
    PROVE  Offered(ServiceOffers)
<1>1. OwningServices \subseteq DOMAIN ServiceRoutes /\ "SERVICE" \in Categories
  BY DEF ServiceRoutes, Categories, Uncertain
<1>2. ServiceOffers = OffersOf(ServiceRoutes, OwningServices, "SERVICE")
  BY DEF ServiceOffers, OffersOf
<1>3. Offered(OffersOf(ServiceRoutes, OwningServices, "SERVICE"))
  BY <1>1, ServiceRoutesFit, RoutesOffered
<1>4. QED
  BY <1>2, <1>3

LEMMA FindServicesKeeps ==
    ASSUME IInv, FindServices
    PROVE  IInv'
<1>1. /\ step = "services" /\ step' = "owners" /\ down' = ServiceRoutes /\ Collect(ServiceOffers, FALSE)
      /\ UNCHANGED <<edges, request, seen, start, found, routes, stores>>
  BY DEF FindServices, At, Goto
<1>2. Offered(ServiceOffers)
  BY ServiceOffersFit
<1>3. RoutesFit'
  <2>1. \A r : Routed(r) => Routed(r)'
    BY <1>1, RoutedNow
  <2>2. QED
    BY <1>1, <2>1, ServiceRoutesFit DEF RoutesFit, Routed, IInv
<1>4. step \in LateSteps /\ step' \in LateSteps /\ step' # "downstream"
  BY <1>1 DEF LateSteps
<1>5. QED
  BY <1>1, <1>2, <1>3, <1>4, QueryKeeps

(* Along the relationships of an owner to its targets.                     *)
LEMMA ByOwnerLeads ==
    ASSUME IInv, NEW way \in Ways, NEW target \in Names
    PROVE  LeadTo(ByOwner(way, target), target)
<1> USE DEF IInv
<1> DEFINE S == {d \in Rows({way[1]}, {target}) : d.start \in DOMAIN OwnerRoutes}
           f == [e \in S |-> Extend(OwnerRoutes[e.start], target, way[1])]
<1>1. S \subseteq edges /\ \A e \in S : e.type = way[1] /\ e.end = target /\ e.start \in DOMAIN OwnerRoutes
  BY DEF Rows
<1>2. Routed(OwnerRoutes)
  BY RoutesUpdate DEF OwnerRoutes, RoutesFit
<1>3. way[1] \in {"EXPOSES", "PUBLISHES", "CONSUMES", "ACCESSES"}
  BY DEF Ways
<1>4. way[1] \in Relations
  BY <1>3 DEF Relations
<1>5. ASSUME NEW e \in S
      PROVE  LeadTo(Extend(OwnerRoutes[e.start], target, way[1]), target)
  <2>1. Holds(e.start, way[1], target)
    BY <1>1, RowsFit
  <2>2. RealStep(e.start, target, way[1])
    BY <1>3, <2>1 DEF RealStep
  <2>3. LeadTo(OwnerRoutes[e.start], e.start)
    BY <1>1, <1>2 DEF Routed
  <2>4. QED
    BY <1>4, <2>2, <2>3, ExtendLeads
<1>6. IsFiniteSet(S)
  BY <1>1, RowsFit
<1>7. ByOwner(way, target) = UNION {f[e] : e \in S} /\ \A e \in S : LeadTo(f[e], target)
  BY <1>5 DEF ByOwner
<1> HIDE DEF S, f
<1>8. LeadTo(UNION {f[e] : e \in S}, target)
  BY <1>6, <1>7, UnionLeads
<1>9. QED
  BY <1>7, <1>8

LEMMA TargetsFit ==
    ASSUME IInv, NEW way \in Ways
    PROVE  IsFiniteSet(TargetsOf(way)) /\ TargetsOf(way) \subseteq Names
<1> DEFINE S == {d \in From(DOMAIN OwnerRoutes, {way[1]}) : LabelOf(d.end) = way[2]}
<1>1. S \subseteq edges /\ TargetsOf(way) = {e.end : e \in S}
  BY DEF From, TargetsOf
<1> HIDE DEF S
<1>2. IsFiniteSet({e.end : e \in S}) /\ \A e \in S : e.end \in Names
  BY <1>1, RowsFit DEF IInv
<1>3. QED
  BY <1>1, <1>2

LEMMA TargetOffersFit ==
    ASSUME IInv
    PROVE  Offered(TargetOffers)
<1>1. ASSUME NEW way \in Ways
      PROVE  Offered(OffersBy(way))
  <2> DEFINE S == TargetsOf(way)
             f == [t \in S |-> Offer(ByOwner(way, t), way[3])]
  <2>1. way[3] \in Categories
    BY DEF Ways, Categories, Uncertain
  <2>2. IsFiniteSet(S) /\ S \subseteq Names
    BY TargetsFit
  <2>3. \A t \in S : Offered(Offer(ByOwner(way, t), way[3]))
    BY <2>1, <2>2, ByOwnerLeads, OfferFits
  <2>4. OffersBy(way) = UNION {f[t] : t \in S} /\ \A t \in S : Offered(f[t])
    BY <2>3 DEF OffersBy
  <2> HIDE DEF S, f
  <2>5. Offered(UNION {f[t] : t \in S})
    BY <2>2, <2>4, OffersUnite
  <2>6. QED
    BY <2>4, <2>5
<1> DEFINE f == [way \in Ways |-> OffersBy(way)]
<1>2. IsFiniteSet(Ways)
  BY FiveAreFinite DEF Ways
<1>3. TargetOffers = UNION {f[way] : way \in Ways} /\ \A way \in Ways : Offered(f[way])
  BY <1>1 DEF TargetOffers
<1> HIDE DEF f
<1>4. Offered(UNION {f[way] : way \in Ways})
  BY <1>2, <1>3, OffersUnite
<1>5. QED
  BY <1>3, <1>4

LEMMA FindTargetsKeeps ==
    ASSUME IInv, FindTargets
    PROVE  IInv'
<1> DEFINE database == <<"ACCESSES", "Database", "DATABASE">>
<1>1. /\ step = "owners" /\ step' = "tables" /\ Collect(TargetOffers, FALSE)
      /\ stores' = [d \in TargetsOf(database) |-> ByOwner(database, d)]
      /\ UNCHANGED <<edges, request, seen, start, found, routes, down>>
  BY DEF FindTargets, At, Goto
<1>2. Offered(TargetOffers)
  BY TargetOffersFit
<1>3. Routed(stores')
  <2>1. PICK way \in Ways : way = database
    BY DEF Ways
  <2>2. IsFiniteSet(TargetsOf(way)) /\ TargetsOf(way) \subseteq Names
    BY TargetsFit
  <2>3. \A d \in TargetsOf(way) : LeadTo(ByOwner(way, d), d)
    BY <2>2, ByOwnerLeads
  <2>4. stores' = [d \in TargetsOf(way) |-> ByOwner(way, d)]
    BY <1>1, <2>1
  <2>5. QED
    BY <2>2, <2>3, <2>4 DEF Routed
<1>4. RoutesFit'
  <2>1. \A r : Routed(r) => Routed(r)'
    BY <1>1, RoutedNow
  <2>2. QED
    BY <1>1, <1>3, <2>1 DEF RoutesFit, Routed, IInv
<1>5. step \in LateSteps /\ step' \in LateSteps /\ step' # "downstream"
  BY <1>1 DEF LateSteps
<1>6. QED
  BY <1>1, <1>2, <1>4, <1>5, QueryKeeps

(* From a database to its tables.                                          *)
LEMMA TablesLead ==
    ASSUME IInv, NEW e \in TableRows
    PROVE  /\ e \in edges /\ e.start \in DOMAIN stores /\ LabelOf(e.end) = "Table"
           /\ LeadTo(Extend(stores[e.start], e.end, "CONTAINS"), e.end)
<1>1. TableRows \subseteq edges /\ e.type = "CONTAINS" /\ e.start \in DOMAIN stores /\ LabelOf(e.end) = "Table"
  BY DEF TableRows, From
<1>2. Holds(e.start, "CONTAINS", e.end) /\ e.end \in Names
  BY <1>1, RowsFit DEF IInv
<1>3. RealStep(e.start, e.end, "CONTAINS") /\ "CONTAINS" \in Relations
  BY <1>2 DEF RealStep, Relations
<1>4. LeadTo(stores[e.start], e.start)
  BY <1>1 DEF IInv, RoutesFit, Routed
<1>5. QED
  BY <1>1, <1>2, <1>3, <1>4, ExtendLeads

LEMMA TableOffersFit ==
    ASSUME IInv
    PROVE  Offered(TableOffers)
<1> DEFINE f == [e \in TableRows |-> Offer(Extend(stores[e.start], e.end, "CONTAINS"), "TABLE")]
<1>1. "TABLE" \in Categories
  BY DEF Categories, Uncertain
<1>2. \A e \in TableRows : Offered(Offer(Extend(stores[e.start], e.end, "CONTAINS"), "TABLE"))
  BY <1>1, TablesLead, OfferFits
<1>3. IsFiniteSet(TableRows)
  BY TablesLead, RowsFit DEF IInv
<1>4. TableOffers = UNION {f[e] : e \in TableRows} /\ \A e \in TableRows : Offered(f[e])
  BY <1>2 DEF TableOffers
<1> HIDE DEF f
<1>5. Offered(UNION {f[e] : e \in TableRows})
  BY <1>3, <1>4, OffersUnite
<1>6. QED
  BY <1>4, <1>5

LEMMA FindTablesKeeps ==
    ASSUME IInv, FindTables
    PROVE  IInv'
<1> USE DEF IInv
<1>1. /\ step = "tables" /\ step' = "downstream" /\ Collect(TableOffers, FALSE) /\ frontier' = DOMAIN down
      /\ UNCHANGED <<edges, request, seen, start, found, routes, stores, down>>
  BY DEF FindTables, At, Goto
<1>2. RoutesFit' /\ FoundFits'
  BY <1>1, RoutesStand, FoundStands
<1>3. ReportFits'
  <2>1. Offered(TableOffers)
    BY TableOffersFit
  <2>2. QED
    BY <1>1, <2>1, CollectKeeps, LimitsAreNat
<1>4. TypesFit' /\ FrontierFits' /\ StartFits'
  BY <1>1 DEF TypesFit, FrontierFits, StartFits, EarlySteps, LateSteps
<1>5. QED
  BY <1>2, <1>3, <1>4

(* Along dependencies and calls of services.                               *)
LEMMA LinksFit ==
    ASSUME IInv, step = "downstream"
    PROVE  /\ Links \subseteq edges
           /\ \A e \in Links : /\ e.type \in {"DEPENDS_ON", "CALLS"} /\ e.start \in DOMAIN down
                               /\ LabelOf(e.end) = "Service"
           /\ IsFiniteSet(Discovered) /\ Discovered \subseteq Names
           /\ \A s \in Discovered : \E e \in Links : e.end = s
<1>1. /\ Links \subseteq edges
      /\ \A e \in Links : /\ e.type \in {"DEPENDS_ON", "CALLS"} /\ e.start \in DOMAIN down
                          /\ LabelOf(e.end) = "Service"
  BY DEF Links, From, IInv, FrontierFits
<1>2. IsFiniteSet({e.end : e \in Links}) /\ {e.end : e \in Links} \subseteq Names
  BY <1>1, RowsFit DEF IInv
<1>3. Discovered \in SUBSET {e.end : e \in Links}
  BY DEF Discovered
<1>4. QED
  BY <1>1, <1>2, <1>3, FS_Subset

LEMMA LinkRoutesFit ==
    ASSUME IInv, step = "downstream"
    PROVE  Routed(LinkRoutes)
<1> USE DEF IInv
<1>1. ASSUME NEW s \in Discovered
      PROVE  LeadTo(UNION {Extend(down[e.start], s, e.type) : e \in {l \in Links : l.end = s}}, s)
  <2> DEFINE S == {l \in Links : l.end = s}
             f == [e \in S |-> Extend(down[e.start], s, e.type)]
  <2>1. S \subseteq edges
    BY LinksFit
  <2>2. ASSUME NEW e \in S
        PROVE  LeadTo(Extend(down[e.start], s, e.type), s)
    <3>1. Holds(e.start, e.type, s) /\ e.type \in {"DEPENDS_ON", "CALLS"} /\ LabelOf(s) = "Service"
      BY <2>1, LinksFit, RowsFit
    <3>2. s \notin Code
      BY <3>1, GraphAssumption DEF LabelOf
    <3>3. RealStep(e.start, s, e.type) /\ e.type \in Relations
      BY <3>1, <3>2 DEF RealStep, Relations
    <3>4. LeadTo(down[e.start], e.start) /\ s \in Names
      BY LinksFit DEF RoutesFit, Routed
    <3>5. QED
      BY <3>3, <3>4, ExtendLeads
  <2>3. IsFiniteSet(S)
    BY <2>1, RowsFit
  <2>4. {Extend(down[e.start], s, e.type) : e \in S} = {f[e] : e \in S} /\ \A e \in S : LeadTo(f[e], s)
    BY <2>2
  <2> HIDE DEF S, f
  <2>5. LeadTo(UNION {f[e] : e \in S}, s)
    BY <2>3, <2>4, UnionLeads
  <2>6. LeadTo(UNION {Extend(down[e.start], s, e.type) : e \in S}, s)
    BY <2>4, <2>5
  <2>7. QED
    BY <2>6 DEF S
<1>2. QED
  BY <1>1, LinksFit DEF Routed, LinkRoutes

LEMMA LinkOffersFit ==
    ASSUME IInv, step = "downstream"
    PROVE  Offered(LinkOffers)
<1>1. Discovered \subseteq DOMAIN LinkRoutes /\ "DOWNSTREAM_SERVICE" \in Categories
  BY DEF LinkRoutes, Categories, Uncertain
<1>2. LinkOffers = OffersOf(LinkRoutes, Discovered, "DOWNSTREAM_SERVICE")
  BY DEF LinkOffers, OffersOf
<1>3. Offered(OffersOf(LinkRoutes, Discovered, "DOWNSTREAM_SERVICE"))
  BY <1>1, LinkRoutesFit, RoutesOffered
<1>4. QED
  BY <1>2, <1>3

LEMMA FindDownstreamKeeps ==
    ASSUME IInv, FindDownstream
    PROVE  IInv'
<1> USE DEF IInv
<1>1. /\ step = "downstream"
      /\ UNCHANGED <<edges, request, seen, start, found, routes, stores>>
  BY DEF FindDownstream, At, Goto
<1>2. CASE ~(frontier # {} /\ level <= request.maxDownstream)
  <2>1. step' = "validating" /\ UNCHANGED <<frontier, level, down, kept, items, notes>>
    BY <1>2 DEF FindDownstream, Goto, report
  <2>2. RoutesFit' /\ FoundFits' /\ ReportFits'
    BY <1>1, <2>1, RoutesStand, FoundStands, ReportStands
  <2>3. TypesFit' /\ FrontierFits' /\ StartFits'
    BY <1>1, <2>1 DEF TypesFit, FrontierFits, StartFits, EarlySteps, LateSteps
  <2>4. QED
    BY <2>2, <2>3
<1>3. CASE frontier # {} /\ level <= request.maxDownstream
  <2>1. /\ step' = "downstream" /\ Collect(LinkOffers, FALSE)
        /\ down' = Updated(down, LinkRoutes) /\ frontier' = Discovered
    BY <1>3 DEF FindDownstream, Goto
  <2>2. Routed(LinkRoutes) /\ DOMAIN LinkRoutes = Discovered
    BY <1>1, LinkRoutesFit DEF LinkRoutes
  <2>3. RoutesFit'
    <3>1. Routed(Updated(down, LinkRoutes))
      BY <2>2, RoutesUpdate DEF RoutesFit
    <3>2. \A r : Routed(r) => Routed(r)'
      BY <1>1, RoutedNow
    <3>3. QED
      BY <1>1, <2>1, <3>1, <3>2 DEF RoutesFit, Routed
  <2>4. ReportFits'
    <3>1. Offered(LinkOffers)
      BY <1>1, LinkOffersFit
    <3>2. QED
      BY <1>1, <2>1, <3>1, CollectKeeps, LimitsAreNat
  <2>5. FoundFits'
    BY <1>1, FoundStands
  <2>6. FrontierFits'
    BY <2>1, <2>2 DEF FrontierFits, Updated
  <2>7. TypesFit' /\ StartFits'
    BY <1>1, <2>1 DEF TypesFit, StartFits, EarlySteps, LateSteps
  <2>8. QED
    BY <2>3, <2>4, <2>5, <2>6, <2>7
<1>4. QED
  BY <1>2, <1>3

-----------------------------------------------------------------------------
(* From an impacted element to the tests that validate it.                 *)
LEMMA TestsLead ==
    ASSUME IInv, NEW e \in TestRows
    PROVE  /\ e \in edges /\ e.end \in DOMAIN routes /\ e.type = "VALIDATES" /\ LabelOf(e.start) = "Test"
           /\ LeadTo(Extend(routes[e.end], e.start, "VALIDATES"), e.start)
<1>1. TestRows \subseteq edges /\ e.type = "VALIDATES" /\ e.end \in DOMAIN routes /\ LabelOf(e.start) = "Test"
  BY DEF TestRows, Rows
<1>2. Holds(e.start, "VALIDATES", e.end) /\ e.start \in Names
  BY <1>1, RowsFit DEF IInv
<1>3. RealStep(e.end, e.start, "VALIDATES") /\ "VALIDATES" \in Relations
  BY <1>2 DEF RealStep, Relations
<1>4. LeadTo(routes[e.end], e.end)
  BY <1>1 DEF IInv, RoutesFit, Routed
<1>5. QED
  BY <1>1, <1>2, <1>3, <1>4, ExtendLeads

LEMMA TestOffersFit ==
    ASSUME IInv
    PROVE  Offered(TestOffers)
<1> DEFINE f == [e \in TestRows |-> Offer(Extend(routes[e.end], e.start, "VALIDATES"), "TEST")]
<1>1. "TEST" \in Categories
  BY DEF Categories, Uncertain
<1>2. \A e \in TestRows : Offered(Offer(Extend(routes[e.end], e.start, "VALIDATES"), "TEST"))
  BY <1>1, TestsLead, OfferFits
<1>3. IsFiniteSet(TestRows)
  BY TestsLead, RowsFit DEF IInv
<1>4. TestOffers = UNION {f[e] : e \in TestRows} /\ \A e \in TestRows : Offered(f[e])
  BY <1>2 DEF TestOffers
<1> HIDE DEF f
<1>5. Offered(UNION {f[e] : e \in TestRows})
  BY <1>3, <1>4, OffersUnite
<1>6. QED
  BY <1>4, <1>5

LEMMA FindValidatingTestsKeeps ==
    ASSUME IInv, FindValidatingTests
    PROVE  IInv'
<1>1. /\ step = "validating" /\ step' = "naming" /\ Collect(TestOffers, FALSE)
      /\ UNCHANGED <<edges, request, seen, start, found, routes, stores, down>>
  BY DEF FindValidatingTests, At, Goto, progress
<1>2. RoutesFit'
  BY <1>1, RoutesStand DEF IInv
<1>3. step \in LateSteps /\ step' \in LateSteps /\ step' # "downstream"
  BY <1>1 DEF LateSteps
<1>4. QED
  BY <1>1, <1>2, <1>3, TestOffersFit, QueryKeeps

(* From the changed code to the tests that are named after it.             *)
LEMMA NamesLead ==
    ASSUME IInv, start \in Code, NEW n \in NamedTests
    PROVE  LeadTo(Extend(CodeRoutes[start], Info[n].key, "NAMING_CONVENTION"), Info[n].key)
<1>1. LeadTo(CodeRoutes[start], start)
  BY CodeRoutesFit, DepthFacts DEF IInv
<1>2. n \in Code
  BY DEF NamedTests
<1>3. Info[n].key \in Names
  BY <1>2, CodeAssumption DEF Names
<1>4. RealStep(start, Info[n].key, "NAMING_CONVENTION") /\ "NAMING_CONVENTION" \in Relations
  BY DEF RealStep, Relations
<1>5. QED
  BY <1>1, <1>3, <1>4, ExtendLeads

LEMMA NamedOffersFit ==
    ASSUME IInv, start \in Code
    PROVE  Offered(NamedOffers)
<1> DEFINE f == [n \in NamedTests |->
                    Offer(Extend(CodeRoutes[start], Info[n].key, "NAMING_CONVENTION"), "TEST")]
<1>1. "TEST" \in Categories
  BY DEF Categories, Uncertain
<1>2. IsFiniteSet(NamedTests)
  <2>1. NamedTests \in SUBSET Code
    BY DEF NamedTests
  <2>2. QED
    BY <2>1, GraphAssumption, FS_Subset
<1>3. \A n \in NamedTests :
          Offered(Offer(Extend(CodeRoutes[start], Info[n].key, "NAMING_CONVENTION"), "TEST"))
  BY <1>1, NamesLead, OfferFits
<1>4. NamedOffers = UNION {f[n] : n \in NamedTests} /\ \A n \in NamedTests : Offered(f[n])
  BY <1>3 DEF NamedOffers
<1> HIDE DEF f
<1>5. Offered(UNION {f[n] : n \in NamedTests})
  BY <1>2, <1>4, OffersUnite
<1>6. QED
  BY <1>4, <1>5

LEMMA FindNamedTestsKeeps ==
    ASSUME IInv, FindNamedTests
    PROVE  IInv'
<1>1. /\ step = "naming" /\ step' = "coverage" /\ Collect(NamedOffers, FALSE)
      /\ UNCHANGED <<edges, request, seen, start, found, routes, stores, down>>
  BY DEF FindNamedTests, At, Goto, progress
<1>2. step \in LateSteps /\ step' \in LateSteps /\ step' # "downstream"
  BY <1>1 DEF LateSteps
<1>3. start \in Code
  BY <1>2 DEF IInv, StartFits
<1>4. RoutesFit'
  BY <1>1, RoutesStand DEF IInv
<1>5. QED
  BY <1>1, <1>2, <1>3, <1>4, NamedOffersFit, QueryKeeps

LEMMA NotingKeeps ==
    ASSUME IInv, AssessCoverage \/ HasMoreCallers \/ FindUnresolvedSites
    PROVE  IInv'
<1>1. step \in LateSteps
  BY DEF AssessCoverage, HasMoreCallers, FindUnresolvedSites, At, LateSteps
<1>2. CASE AssessCoverage
  BY <1>1, <1>2, NotesKeep DEF AssessCoverage
<1>3. CASE HasMoreCallers
  BY <1>1, <1>3, NotesKeep DEF HasMoreCallers
<1>4. CASE FindUnresolvedSites
  BY <1>1, <1>4, NotesKeep DEF FindUnresolvedSites
<1>5. QED
  BY <1>2, <1>3, <1>4

-----------------------------------------------------------------------------
(***************************************************************************)
(* The theorems.                                                           *)
(***************************************************************************)
LEMMA InitFits ==
    ASSUME Init
    PROVE  IInv
<1>1. TypesFit /\ FrontierFits /\ StartFits
  BY DEF Init, TypesFit, FrontierFits, StartFits, EarlySteps, LateSteps
<1>2. FoundFits
  <2>1. IsFiniteSet(found)
    BY FS_EmptySet DEF Init
  <2>2. QED
    BY <2>1 DEF Init, FoundFits
<1>3. RoutesFit
  <2>1. Routed(NoRoutes)
    BY FS_EmptySet DEF Routed, NoRoutes
  <2>2. QED
    BY <2>1 DEF Init, RoutesFit
<1>4. ReportFits
  <2>1. kept = {} /\ items = {} /\ request.maxPaths \in Nat
    BY <1>1, LimitsAreNat DEF Init
  <2>2. Offered(kept)
    BY <2>1, FS_EmptySet DEF Offered
  <2>3. \A key : Under(kept, key) = {}
    BY <2>1 DEF Under
  <2>4. \A key : Cardinality(Under(kept, key)) <= request.maxPaths
    BY <2>1, <2>3, FS_EmptySet
  <2>5. QED
    BY <2>1, <2>2, <2>4 DEF ReportFits
<1>5. QED
  BY <1>1, <1>2, <1>3, <1>4 DEF IInv

LEMMA StepKeeps ==
    ASSUME IInv, [Next]_vars
    PROVE  IInv'
<1>1. CASE Next
  BY <1>1, GrowKeeps, ResolveKeeps, BeginKeeps, TraverseKeeps, FetchKeeps, FindServicesKeeps,
     FindTargetsKeeps, FindTablesKeeps, FindDownstreamKeeps, FindValidatingTestsKeeps,
     FindNamedTestsKeeps, NotingKeeps DEF Next, Analyse
<1>2. CASE UNCHANGED vars
  <2> USE DEF IInv
  <2>1. UNCHANGED <<edges, request, step, start, found, frontier, level, routes, stores, down, kept, items>>
    BY <1>2 DEF vars, progress, report
  <2>2. FoundFits' /\ RoutesFit' /\ ReportFits'
    BY <2>1, FoundStands, RoutesStand, ReportStands
  <2>3. TypesFit' /\ FrontierFits' /\ StartFits'
    BY <2>1 DEF TypesFit, FrontierFits, StartFits, NoRoutes, Depth
  <2>4. QED
    BY <2>2, <2>3
<1>3. QED
  BY <1>1, <1>2

(* Whatever ingestion adds between two queries, the state of the analysis  *)
(* stays one in which the traversal has each caller at its level, every    *)
(* route is a path of the graph to its node, and the report is what        *)
(* PathCollector and the items were given (analyzer.py, paths.py).         *)
THEOREM InvariantHolds == Spec => []IInv
<1>1. Init => IInv
  BY InitFits
<1>2. IInv /\ [Next]_vars => IInv'
  BY StepKeeps
<1>3. QED
  BY <1>1, <1>2, PTL DEF Spec

LEMMA TypeFromInvariant ==
    ASSUME IInv
    PROVE  TypeOK
<1> USE DEF IInv
<1>1. ASSUME NEW f \in found, NEW g \in found, f.edge.end = g.edge.end
      PROVE  f.depth = g.depth
  <2>1. f.depth \in Nat /\ g.depth \in Nat
    BY LimitsAreNat DEF FoundFits
  <2>2. Depth[f.edge.end] = f.depth - 1 /\ Depth[g.edge.end] = g.depth - 1
    BY DEF FoundFits
  <2>3. QED
    BY <1>1, <2>1, <2>2
<1>2. ASSUME NEW i \in items
      PROVE  i.category \in Categories /\ Cardinality(OneOf(i.category, i.id)) = 1
  <2>1. i.category \in Categories
    BY DEF ReportFits, ItemFits
  <2>2. OneOf(i.category, i.id) = {i}
    BY DEF OneOf, ReportFits, KeyOf
  <2>3. QED
    BY <2>1, <2>2, FS_Singleton
<1>3. \A key \in Keys(kept) : Cardinality(Under(kept, key)) <= request.maxPaths
  BY DEF ReportFits
<1>4. QED
  BY <1>1, <1>2, <1>3 DEF TypeOK, TypesFit, EarlySteps, LateSteps

(* The traversal expands no node twice, however many calls lead to it and  *)
(* whatever cycles they form; of what reaches the result each element is   *)
(* there once in its category, with at most maxPaths paths.                *)
THEOREM TypeCorrect == Spec => []TypeOK
<1>1. IInv => TypeOK
  BY TypeFromInvariant
<1>2. QED
  BY <1>1, InvariantHolds, PTL

(* Nothing is reported without evidence: each impacted element has a path  *)
(* that is kept, none shorter than the depth that is reported, and every   *)
(* kept path starts at the changed code and takes steps of the graph only  *)
(* -- though paths are cut at their cap, and found by queries between      *)
(* which the graph changes.                                                *)
THEOREM EvidenceAlwaysReal == Spec => []EvidenceIsReal
<1>1. IInv => EvidenceIsReal
  <2> SUFFICES ASSUME IInv
               PROVE  EvidenceIsReal
    OBVIOUS
  <2> USE DEF IInv
  <2>1. ASSUME NEW k \in kept
        PROVE  /\ k.path[1] = Step(start, "none")
               /\ \A i \in 2 .. Len(k.path) : RealStep(k.path[i - 1][1], k.path[i][1], k.path[i][2])
    BY DEF ReportFits, Offered, IsPath
  <2>2. ASSUME NEW i \in items
        PROVE  /\ Under(kept, <<i.category, i.id>>) # {}
               /\ \A k \in Under(kept, <<i.category, i.id>>) : Length(k.path) >= i.depth
    BY DEF ReportFits, ItemFits, KeyOf
  <2>3. QED
    BY <2>1, <2>2 DEF EvidenceIsReal
<1>2. QED
  BY <1>1, InvariantHolds, PTL

-----------------------------------------------------------------------------
(***************************************************************************)
(* What was traversed is all there is, and what was found is reported.     *)
(***************************************************************************)
(* The callers of a node whose depth is below k came with its level, as    *)
(* far as the graph had them when the analysis began.                      *)
ClosedBelow(k) ==
    \A e \in seen : e.type = "CALLS" /\ e.end \in DOMAIN Depth /\ Depth[e.end] < k =>
        [edge |-> e, depth |-> Depth[e.end] + 1] \in found

TraversedFits ==
    /\ seen \subseteq edges
    /\ step = "traverse" =>
          /\ frontier = {n \in DOMAIN Depth : Depth[n] = level - 1}
          /\ ClosedBelow(level - 1)
    /\ step \in {"fetch"} \cup LateSteps => ClosedBelow(request.maxDepth)

(* What is reported of code is the callers of the traversal, each in its   *)
(* category and at its depth.                                              *)
CallersFit ==
    step \in LateSteps =>
        /\ \A i \in items : i.id \in Code =>
              i.id \in DOMAIN Depth \ {start} /\ i.category = CategoryOf(i.id) /\ i.depth = Depth[i.id]
        /\ \A n \in DOMAIN Depth \ {start} : \E i \in items : i.id = n /\ i.category = CategoryOf(n)

MorePaths == Note("PRIMARY_CHANGE", "more paths")

(* Unless the result says otherwise, their routes are all kept.            *)
KeptFits ==
    step \in LateSteps /\ MorePaths \notin notes =>
        /\ ~ChainsTruncated(start, Depth, found, request.maxPaths)
        /\ \A n \in DOMAIN Depth \ {start} :
              {k.path : k \in Under(kept, <<CategoryOf(n), n>>)} = CodeRoutes[n]

Unknown(c) == Note(c, "not in the graph")

(* A category in which something was found is known.                       *)
KnownFits ==
    /\ \A i \in items : i.category \in Uncertain => Known(i.category)
    /\ \A s \in DOMAIN down : LabelOf(s) = "Service"
    /\ \A d \in DOMAIN stores : LabelOf(d) = "Database"
    /\ step \in EarlySteps => notes = {}
    /\ step \in LateSteps \ {"more", "sites", "done"} => notes \subseteq {MorePaths}
    /\ step \in LateSteps => \A i \in items : Unknown(i.category) \notin notes

Reported == {i.id : i \in items}
Places == Impacted \cup {Info[n].class : n \in Methods} \cup {Info[n].file : n \in Impacted}
Targets(way) ==
    {e.end : e \in {d \in From(Places \cup OwningServices, {way[1]}) : LabelOf(d.end) = way[2]}}
Validating == {e \in Rows({"VALIDATES"}, Places) : LabelOf(e.start) = "Test"}

(* What each query has reported by now, of a graph at rest.                *)
AllFits ==
    step \in LateSteps =>
        /\ DOMAIN routes = Places
        /\ \A n \in DOMAIN routes : routes[n] # {}
        /\ \A n \in DOMAIN down : down[n] # {}
        /\ seen = edges =>
              /\ step # "services" => OwningServices \subseteq DOMAIN down \cap Reported
              /\ step \notin {"services", "owners"} => \A way \in Ways : Targets(way) \subseteq Reported
              /\ step \in {"naming", "coverage", "more", "sites", "done"} =>
                    \A e \in Validating : e.start \in Reported
              /\ step \in {"sites", "done"} /\ notes = {} => Beyond = {}

CInv == TraversedFits /\ CallersFit /\ KeptFits /\ KnownFits /\ AllFits

LEMMA DepthStands ==
    ASSUME UNCHANGED <<start, found>>
    PROVE  Depth' = Depth
BY DEF Depth

(* After the traversal neither its rows nor the graph change by a query.   *)
LEMMA LaterSteps ==
    ASSUME IInv, Analyse, step \in {"fetch"} \cup LateSteps
    PROVE  /\ UNCHANGED <<edges, seen, request, start, found>>
           /\ step' \in LateSteps \cup {"unresolved"}
           /\ step \in LateSteps => step' \in LateSteps /\ step' # "services"
<1>1. \A reason : GiveUp(reason) => UNCHANGED <<edges, seen, request, start, found>> /\ step' = "unresolved"
  BY DEF GiveUp, Goto, progress
<1>2. \A new, next : AddNotes(new, next) => UNCHANGED <<edges, seen, request, start, found>> /\ step' = next
  BY DEF AddNotes, Goto, progress
<1>3. CASE Fetch
  BY <1>1, <1>3 DEF Fetch, At, Goto, LateSteps
<1>4. CASE FindServices \/ FindTargets \/ FindTables \/ FindDownstream
  BY <1>4 DEF FindServices, FindTargets, FindTables, FindDownstream, At, Goto, LateSteps
<1>5. CASE FindValidatingTests \/ FindNamedTests
  BY <1>5 DEF FindValidatingTests, FindNamedTests, At, Goto, progress, LateSteps
<1>6. CASE AssessCoverage \/ HasMoreCallers \/ FindUnresolvedSites
  <2>1. AssessCoverage => step' = "more" /\ UNCHANGED <<edges, seen, request, start, found>> /\ step = "coverage"
    BY <1>2 DEF AssessCoverage, At
  <2>2. HasMoreCallers => step' = "sites" /\ UNCHANGED <<edges, seen, request, start, found>> /\ step = "more"
    BY <1>2 DEF HasMoreCallers, At
  <2>3. FindUnresolvedSites => step' = "done" /\ UNCHANGED <<edges, seen, request, start, found>> /\ step = "sites"
    BY <1>2 DEF FindUnresolvedSites, At
  <2>4. QED
    BY <1>6, <2>1, <2>2, <2>3 DEF LateSteps
<1>7. CASE Resolve \/ Begin \/ Traverse
  BY <1>7 DEF Resolve, Begin, Traverse, At, LateSteps
<1>8. QED
  BY <1>3, <1>4, <1>5, <1>6, <1>7 DEF Analyse

LEMMA TraverseCloses ==
    ASSUME IInv, TraversedFits, Traverse
    PROVE  TraversedFits'
<1> USE DEF IInv
<1>1. At("traverse") /\ UNCHANGED <<edges, request, seen, start>>
  BY DEF Traverse, Goto
<1>2. /\ seen \subseteq edges
      /\ frontier = {n \in DOMAIN Depth : Depth[n] = level - 1}
      /\ ClosedBelow(level - 1)
  BY <1>1 DEF TraversedFits, At
<1>3. /\ start \in Code /\ level \in Nat /\ level >= 1 /\ level <= request.maxDepth + 1
      /\ request.maxDepth \in Nat
      /\ \A f \in found : f.depth < level
  BY <1>1, LimitsAreNat DEF FrontierFits, At
<1>4. \A n \in DOMAIN Depth : Depth[n] \in Nat /\ Depth[n] < level
  BY <1>3, DepthFacts, LimitsAreNat
<1>5. CASE ~(frontier # {} /\ level <= request.maxDepth)
  <2>1. step' = "fetch" /\ UNCHANGED found
    BY <1>5 DEF Traverse, Goto
  <2>2. Depth' = Depth
    BY <1>1, <2>1, DepthStands
  <2>3. ClosedBelow(request.maxDepth)
    <3>1. CASE frontier = {}
      <4>1. \A n \in DOMAIN Depth : Depth[n] < level - 1
        BY <1>2, <1>3, <1>4, <3>1
      <4>2. QED
        BY <1>2, <4>1 DEF ClosedBelow
    <3>2. CASE ~(level <= request.maxDepth)
      <4>1. level - 1 = request.maxDepth
        BY <1>3, <3>2
      <4>2. QED
        BY <1>2, <4>1
    <3>3. QED
      BY <1>5, <3>1, <3>2
  <2>4. ClosedBelow(request.maxDepth)'
    BY <1>1, <2>1, <2>2, <2>3 DEF ClosedBelow
  <2>5. QED
    BY <1>1, <1>2, <2>1, <2>4 DEF TraversedFits
<1>6. CASE frontier # {} /\ level <= request.maxDepth
  <2> DEFINE more == CallersFound
  <2>1. /\ step' = "traverse" /\ found' = found \cup more /\ level' = level + 1
        /\ frontier' = NewCallers({f.edge : f \in more})
    BY <1>6 DEF Traverse, Goto
  <2>2. \A f \in more : f.depth = level
    BY DEF CallersFound
  <2>3. \A e \in edges : e.type = "CALLS" /\ e.end \in frontier => [edge |-> e, depth |-> level] \in more
    BY DEF CallersFound, Rows
  <2> HIDE DEF more
  <2>4. /\ DOMAIN Depth' = DOMAIN Depth \cup {f.edge.start : f \in more}
        /\ \A n \in DOMAIN Depth : Depth'[n] = Depth[n]
        /\ \A n \in {f.edge.start : f \in more} \ DOMAIN Depth : Depth'[n] = level
    BY <1>1, <1>3, <2>1, <2>2, DepthGrows
  <2>5. level' - 1 = level
    BY <1>3, <2>1
  <2>6. frontier' = {n \in DOMAIN Depth' : Depth'[n] = level' - 1}
    <3>1. frontier' = {f.edge.start : f \in more} \ DOMAIN Depth
      BY <2>1, DepthFacts DEF NewCallers, Visited
    <3>2. \A n \in DOMAIN Depth : Depth'[n] # level
      BY <1>4, <2>4
    <3>3. QED
      BY <2>4, <2>5, <3>1, <3>2
  <2>7. ClosedBelow(level - 1)'
    <3> SUFFICES ASSUME NEW e \in seen, e.type = "CALLS", e.end \in DOMAIN Depth', Depth'[e.end] < level
                 PROVE  [edge |-> e, depth |-> Depth'[e.end] + 1] \in found'
      BY <1>1, <2>5 DEF ClosedBelow
    <3>1. e.end \in DOMAIN Depth /\ Depth'[e.end] = Depth[e.end]
      BY <1>3, <2>4
    <3>2. Depth[e.end] \in Nat /\ e \in edges
      BY <1>2, <1>4, <3>1
    <3>3. CASE Depth[e.end] = level - 1
      <4>1. [edge |-> e, depth |-> level] \in more
        BY <1>2, <2>3, <3>1, <3>2, <3>3
      <4>2. Depth'[e.end] + 1 = level
        BY <1>3, <3>1, <3>3
      <4>3. QED
        BY <2>1, <4>1, <4>2
    <3>4. CASE Depth[e.end] # level - 1
      <4>1. Depth[e.end] < level - 1
        BY <1>3, <3>1, <3>2, <3>4
      <4>2. QED
        BY <1>2, <2>1, <3>1, <4>1 DEF ClosedBelow
    <3>5. QED
      BY <3>3, <3>4
  <2>8. QED
    BY <1>1, <1>2, <2>1, <2>6, <2>7 DEF TraversedFits, LateSteps
<1>7. QED
  BY <1>5, <1>6

LEMMA TraversedKeeps ==
    ASSUME IInv, TraversedFits, Next
    PROVE  TraversedFits'
<1>1. seen \subseteq edges
  BY DEF TraversedFits
<1>2. \A reason : GiveUp(reason) => UNCHANGED <<edges, seen>> /\ step' = "unresolved"
  BY DEF GiveUp, Goto
<1>3. \A reason : GiveUp(reason) => TraversedFits'
  BY <1>1, <1>2 DEF TraversedFits, LateSteps
<1>4. CASE Grow
  <2>1. UNCHANGED <<request, step, start, found, frontier, level>> /\ edges \subseteq edges'
    BY <1>4 DEF Grow, progress
  <2>2. seen' \subseteq edges'
    BY <1>1, <1>4, <2>1 DEF Grow
  <2>3. CASE step = "resolve"
    BY <2>1, <2>2, <2>3 DEF TraversedFits, LateSteps
  <2>4. CASE step # "resolve"
    <3>1. seen' = seen /\ Depth' = Depth
      BY <1>4, <2>1, <2>4, DepthStands DEF Grow
    <3>2. \A k : ClosedBelow(k) => ClosedBelow(k)'
      BY <2>1, <3>1 DEF ClosedBelow
    <3>3. QED
      BY <2>1, <2>2, <3>1, <3>2 DEF TraversedFits
  <2>5. QED
    BY <2>3, <2>4
<1>5. CASE Resolve
  <2>1. CASE ~GiveUp("not one node")
    <3>1. /\ UNCHANGED <<edges, seen, request, found>> /\ step = "resolve"
          /\ step' = IF request.maxDepth < 1 THEN "fetch" ELSE "begin"
      BY <1>5, <2>1 DEF Resolve, Goto, At
    <3>2. CASE request.maxDepth < 1
      <4>1. found' = {} /\ request.maxDepth = 0
        BY <3>1, <3>2, LimitsAreNat DEF IInv, StartFits
      <4>2. DOMAIN Depth' = {start'} /\ Depth'[start'] = 0
        BY <4>1 DEF Depth, DepthOf
      <4>3. ClosedBelow(request.maxDepth)'
        BY <3>1, <4>1, <4>2 DEF ClosedBelow
      <4>4. QED
        BY <1>1, <3>1, <3>2, <4>3 DEF TraversedFits
    <3>3. CASE ~(request.maxDepth < 1)
      BY <1>1, <3>1, <3>3 DEF TraversedFits, LateSteps
    <3>4. QED
      BY <3>2, <3>3
  <2>2. QED
    BY <1>3, <2>1
<1>6. CASE Begin
  <2>1. CASE ~GiveUp("not in the graph")
    <3>1. /\ UNCHANGED <<edges, seen, request, start, found, level>>
          /\ step = "begin" /\ step' = "traverse" /\ frontier' = {start}
      BY <1>6, <2>1 DEF Begin, Goto, At
    <3>2. found = {} /\ level = 1
      BY <3>1 DEF IInv, StartFits
    <3>3. DOMAIN Depth' = {start} /\ Depth'[start] = 0
      BY <3>1, <3>2 DEF Depth, DepthOf
    <3>4. ClosedBelow(level - 1)' /\ level' - 1 = 0
      BY <3>1, <3>2, <3>3 DEF ClosedBelow
    <3>5. frontier' = {n \in DOMAIN Depth' : Depth'[n] = level' - 1}
      BY <3>1, <3>3, <3>4
    <3>6. QED
      BY <1>1, <3>1, <3>4, <3>5 DEF TraversedFits, LateSteps
  <2>2. QED
    BY <1>3, <2>1
<1>7. CASE Traverse
  BY <1>7, TraverseCloses
<1>8. CASE Analyse /\ step \in {"fetch"} \cup LateSteps
  <2>1. UNCHANGED <<edges, seen, request, start, found>> /\ step' \in LateSteps \cup {"unresolved"}
    BY <1>8, LaterSteps
  <2>2. Depth' = Depth
    BY <2>1, DepthStands
  <2>3. ClosedBelow(request.maxDepth)'
    BY <1>8, <2>1, <2>2 DEF TraversedFits, ClosedBelow
  <2>4. QED
    BY <1>1, <2>1, <2>3 DEF TraversedFits, LateSteps
<1>9. QED
  <2>1. Analyse /\ step \notin {"fetch"} \cup LateSteps => Resolve \/ Begin \/ Traverse
    BY DEF Analyse, Fetch, FindServices, FindTargets, FindTables, FindDownstream, FindValidatingTests,
           FindNamedTests, AssessCoverage, HasMoreCallers, FindUnresolvedSites, At, LateSteps
  <2>2. QED
    BY <1>4, <1>5, <1>6, <1>7, <1>8, <2>1 DEF Next

-----------------------------------------------------------------------------
(* What collecting offers adds to the report, and what it leaves alone.    *)
LEMMA CollectAdds ==
    ASSUME ReportFits, NEW offers, Offered(offers), NEW cut, Collect(offers, cut),
           request.maxPaths \in Nat \ {0}
    PROVE  /\ \A i \in items \cup ItemsOf(offers) : \E j \in items' : KeyOf(j) = KeyOf(i)
           /\ \A j \in items' : j \in items \/ (j \in ItemsOf(offers) /\ KeyOf(j) \in Keys(offers))
           /\ \A i \in items : KeyOf(i) \notin Keys(offers) => i \in items'
           /\ \A key : key \notin Keys(offers) => Under(kept', key) = Under(kept, key)
           /\ notes \subseteq notes' /\ notes' \subseteq notes \cup {MorePaths}
<1> DEFINE all == items \cup ItemsOf(offers)
<1>1. /\ kept' = Add(kept, offers, request.maxPaths)
      /\ items' = {i \in all : \A j \in all : KeyOf(j) = KeyOf(i) => j.depth >= i.depth}
      /\ notes \subseteq notes' /\ notes' \subseteq notes \cup {MorePaths}
  BY DEF Collect, KeyOf, MorePaths
<1>2. \A i \in all : i.depth \in Nat
  BY ItemsAreShortest DEF ReportFits, ItemFits
<1>3. ASSUME NEW i \in all
      PROVE  \E j \in items' : KeyOf(j) = KeyOf(i)
  <2> DEFINE same == {j \in all : KeyOf(j) = KeyOf(i)}
             depths == {j.depth : j \in same}
  <2>1. depths \subseteq Nat /\ depths # {}
    BY <1>2
  <2>2. PICK d \in depths : \A n \in depths : d <= n
    <3> HIDE DEF depths
    <3>1. QED
      BY <2>1, SmallestExists
  <2>3. PICK j \in same : j.depth = d
    OBVIOUS
  <2>4. \A k \in all : KeyOf(k) = KeyOf(j) => k.depth >= j.depth
    <3> SUFFICES ASSUME NEW k \in all, KeyOf(k) = KeyOf(j)
                 PROVE  k.depth >= j.depth
      OBVIOUS
    <3>1. k \in same
      OBVIOUS
    <3>2. k.depth \in depths
      BY <3>1
    <3>3. d <= k.depth /\ d \in Nat /\ k.depth \in Nat
      BY <2>1, <2>2, <3>2
    <3>4. QED
      BY <2>3, <3>3
  <2>5. QED
    BY <1>1, <2>3, <2>4
<1>4. \A j \in items' : j \in items \/ (j \in ItemsOf(offers) /\ KeyOf(j) \in Keys(offers))
  BY <1>1, ItemsAreShortest
<1>5. ASSUME NEW i \in items, KeyOf(i) \notin Keys(offers)
      PROVE  i \in items'
  <2>1. PICK j \in items' : KeyOf(j) = KeyOf(i)
    BY <1>3
  <2>2. j \in items
    BY <1>4, <1>5, <2>1
  <2>3. QED
    BY <2>1, <2>2 DEF ReportFits
<1>6. ASSUME NEW key, key \notin Keys(offers)
      PROVE  Under(kept', key) = Under(kept, key)
  <2>1. Under(offers, key) = {}
    BY <1>6 DEF Under, Keys
  <2>2. /\ Under(kept, key) \subseteq Under(kept', key)
        /\ Under(kept', key) \subseteq Under(kept, key) \cup Under(offers, key)
    BY <1>1, KeptUnderKey
  <2>3. QED
    BY <2>1, <2>2
<1>7. QED
  BY <1>1, <1>3, <1>4, <1>5, <1>6

(* An offer is an item of what it leads to.                                *)
LEMMA OfferedIsReported ==
    ASSUME ReportFits, NEW offers, Offered(offers), NEW cut, Collect(offers, cut),
           request.maxPaths \in Nat \ {0}, NEW o \in offers
    PROVE  \E j \in items' : j.id = Terminal(o.path) /\ j.category = o.category
<1>1. Key(o) \in Keys(offers)
  BY DEF Keys
<1>2. PICK i \in ItemsOf(offers) : KeyOf(i) = Key(o)
  BY <1>1, ItemForEachKey
<1>3. PICK j \in items' : KeyOf(j) = KeyOf(i)
  BY <1>2, CollectAdds
<1>4. QED
  BY <1>2, <1>3 DEF KeyOf, Key

LEMMA ReportedStays ==
    ASSUME ReportFits, NEW offers, Offered(offers), NEW cut, Collect(offers, cut),
           request.maxPaths \in Nat \ {0}
    PROVE  /\ Reported \subseteq Reported'
           /\ \A o \in offers : Terminal(o.path) \in Reported'
<1>1. ASSUME NEW i \in items
      PROVE  i.id \in Reported'
  <2>1. PICK j \in items' : KeyOf(j) = KeyOf(i)
    BY CollectAdds
  <2>2. QED
    BY <2>1 DEF KeyOf, Reported
<1>2. \A o \in offers : Terminal(o.path) \in Reported'
  BY OfferedIsReported DEF Reported
<1>3. QED
  BY <1>1, <1>2 DEF Reported

-----------------------------------------------------------------------------
(* What is offered after the callers is not code, and of a category about  *)
(* which the graph is known to tell.                                       *)
Further(offers) ==
    /\ Offered(offers)
    /\ \A o \in offers : Terminal(o.path) \notin Code /\ o.category \in Uncertain /\ Known(o.category)

(* All that the queries of the report leave alone.                         *)
Still == UNCHANGED <<edges, seen, request, start, found>>

LEMMA KnownStands ==
    ASSUME edges \subseteq edges', NEW c \in Uncertain, Known(c)
    PROVE  Known(c)'
<1>1. \A from, types, to : Some(from, types, to) => Some(from, types, to)'
  BY DEF Some
<1>2. QED
  BY <1>1 DEF Known, Uncertain

LEMMA ChainsStand ==
    ASSUME UNCHANGED <<start, found, request>>
    PROVE  /\ Depth' = Depth /\ CodeRoutes' = CodeRoutes
           /\ \A n : CategoryOf(n)' = CategoryOf(n)
           /\ ChainsTruncated(start, Depth, found, request.maxPaths)'
                <=> ChainsTruncated(start, Depth, found, request.maxPaths)
<1>1. Depth' = Depth
  BY DepthStands
<1>2. CodeRoutes' = CodeRoutes
  BY <1>1 DEF CodeRoutes
<1>3. \A n : CategoryOf(n)' = CategoryOf(n)
  BY <1>1 DEF CategoryOf, IsTest
<1>4. QED
  BY <1>1, <1>2, <1>3

LEMMA FurtherKeeps ==
    ASSUME IInv, CallersFit, KeptFits, KnownFits, step \in LateSteps, Still,
           NEW offers, Further(offers), Collect(offers, FALSE)
    PROVE  CallersFit' /\ KeptFits'
<1> USE DEF Still
<1>1. ReportFits /\ request.maxPaths \in Nat \ {0} /\ Offered(offers)
  BY LimitsAreNat DEF IInv, Further
<1>2. /\ \A i \in items \cup ItemsOf(offers) : \E j \in items' : KeyOf(j) = KeyOf(i)
      /\ \A j \in items' : j \in items \/ (j \in ItemsOf(offers) /\ KeyOf(j) \in Keys(offers))
      /\ \A key : key \notin Keys(offers) => Under(kept', key) = Under(kept, key)
      /\ notes \subseteq notes'
  BY <1>1, CollectAdds
<1>3. \A c, n : n \in Code => <<c, n>> \notin Keys(offers)
  BY DEF Further, Keys, Key
<1>4. /\ Depth' = Depth /\ CodeRoutes' = CodeRoutes
      /\ \A n : CategoryOf(n)' = CategoryOf(n)
      /\ ChainsTruncated(start, Depth, found, request.maxPaths)'
           <=> ChainsTruncated(start, Depth, found, request.maxPaths)
  BY ChainsStand
<1>5. DOMAIN Depth \ {start} \subseteq Code
  BY DepthFacts DEF IInv
<1>6. CallersFit'
  <2>1. ASSUME NEW i \in items', i.id \in Code
        PROVE  i.id \in DOMAIN Depth \ {start} /\ i.category = CategoryOf(i.id) /\ i.depth = Depth[i.id]
    BY <1>2, <1>3, <2>1 DEF KeyOf, CallersFit
  <2>2. ASSUME NEW n \in DOMAIN Depth \ {start}
        PROVE  \E i \in items' : i.id = n /\ i.category = CategoryOf(n)
    <3>1. PICK i \in items : i.id = n /\ i.category = CategoryOf(n)
      BY DEF CallersFit
    <3>2. PICK j \in items' : KeyOf(j) = KeyOf(i)
      BY <1>2
    <3>3. QED
      BY <3>1, <3>2 DEF KeyOf
  <2>3. QED
    BY <1>4, <2>1, <2>2 DEF CallersFit
<1>7. KeptFits'
  <2>1. \A n \in DOMAIN Depth \ {start} : Under(kept', <<CategoryOf(n), n>>) = Under(kept, <<CategoryOf(n), n>>)
    BY <1>2, <1>3, <1>5
  <2>2. SUFFICES ASSUME MorePaths \notin notes
                 PROVE  /\ ~ChainsTruncated(start, Depth, found, request.maxPaths)
                        /\ \A n \in DOMAIN Depth \ {start} :
                              {k.path : k \in Under(kept', <<CategoryOf(n), n>>)} = CodeRoutes[n]
    BY <1>2, <1>4 DEF KeptFits, MorePaths, Note
  <2>3. QED
    BY <2>1, <2>2 DEF KeptFits
<1>8. QED
  BY <1>6, <1>7

LEMMA FurtherIsKnown ==
    ASSUME IInv, KnownFits, step \in LateSteps \ {"more", "sites", "done"}, Still,
           step' \in LateSteps \ {"more", "sites", "done"},
           NEW offers, Further(offers), Collect(offers, FALSE),
           \A s \in DOMAIN down' : LabelOf(s) = "Service",
           \A d \in DOMAIN stores' : LabelOf(d) = "Database"
    PROVE  KnownFits'
<1> USE DEF Still
<1>1. ReportFits /\ request.maxPaths \in Nat \ {0} /\ Offered(offers)
  BY LimitsAreNat DEF IInv, Further
<1>2. /\ \A j \in items' : j \in items \/ (j \in ItemsOf(offers) /\ KeyOf(j) \in Keys(offers))
      /\ notes' \subseteq notes \cup {MorePaths}
  BY <1>1, CollectAdds
<1>3. ASSUME NEW i \in items', i.category \in Uncertain
      PROVE  Known(i.category)'
  <2>1. Known(i.category)
    <3>1. CASE i \in items
      BY <1>3, <3>1 DEF KnownFits
    <3>2. CASE KeyOf(i) \in Keys(offers)
      BY <3>2 DEF Keys, Key, KeyOf, Further
    <3>3. QED
      BY <1>2, <1>3, <3>1, <3>2
  <2>2. QED
    BY <1>3, <2>1, KnownStands
<1>4. notes' \subseteq {MorePaths}
  BY <1>2 DEF KnownFits
<1>5. \A c : Unknown(c) \notin notes'
  BY <1>4 DEF Unknown, MorePaths, Note
<1>6. QED
  BY <1>3, <1>4, <1>5 DEF KnownFits, EarlySteps, LateSteps, Unknown, MorePaths, LabelOf

(* What analyze_impact makes of the callers: they, their classes and their *)
(* files.                                                                  *)
LEMMA CodeOffersAre ==
    ASSUME TypesFit, FoundFits, start \in Code, NEW o \in CodeOffers
    PROVE  \/ \E n \in DOMAIN Depth \ {start} :
                  o.path \in CodeRoutes[n] /\ Terminal(o.path) = n /\ o.category = CategoryOf(n)
           \/ o.category \in {"CLASS", "FILE"} /\ Terminal(o.path) \notin Code
<1>1. CASE \E n \in DOMAIN Depth \ {start} : o \in Offer(CodeRoutes[n], CategoryOf(n))
  <2>1. PICK n \in DOMAIN Depth \ {start} : o \in Offer(CodeRoutes[n], CategoryOf(n))
    BY <1>1
  <2>2. o.path \in CodeRoutes[n] /\ o.category = CategoryOf(n)
    BY <2>1 DEF Offer
  <2>3. Terminal(o.path) = n
    BY <2>2, CodeRoutesFit DEF LeadTo
  <2>4. QED
    BY <2>2, <2>3
<1>2. CASE \E c \in DOMAIN ClassRoutes : o \in Offer(ClassRoutes[c], "CLASS")
  <2>1. PICK c \in DOMAIN ClassRoutes : o \in Offer(ClassRoutes[c], "CLASS")
    BY <1>2
  <2>2. o.path \in ClassRoutes[c] /\ o.category = "CLASS"
    BY <2>1 DEF Offer
  <2>3. Terminal(o.path) = c
    BY <2>2, ClassRoutesFit DEF Routed, LeadTo
  <2>4. PICK n \in Methods : c = Info[n].class
    BY DEF ClassRoutes
  <2>5. n \in Code
    BY CodeRoutesFit DEF Methods, Impacted
  <2>6. c \notin Code
    BY <2>4, <2>5, CodeAssumption
  <2>7. QED
    BY <2>2, <2>3, <2>6
<1>3. CASE \E c \in DOMAIN FileRoutes : o \in Offer(FileRoutes[c], "FILE")
  <2>1. PICK c \in DOMAIN FileRoutes : o \in Offer(FileRoutes[c], "FILE")
    BY <1>3
  <2>2. o.path \in FileRoutes[c] /\ o.category = "FILE"
    BY <2>1 DEF Offer
  <2>3. Terminal(o.path) = c
    BY <2>2, FileRoutesFit DEF Routed, LeadTo
  <2>4. PICK n \in Impacted : c = Info[n].file
    BY DEF FileRoutes
  <2>5. n \in Code
    BY CodeRoutesFit DEF Impacted
  <2>6. c \notin Code
    BY <2>4, <2>5, CodeAssumption
  <2>7. QED
    BY <2>2, <2>3, <2>6
<1>4. QED
  BY <1>1, <1>2, <1>3 DEF CodeOffers

LEMMA FetchReports ==
    ASSUME IInv, Fetch, start \in Code
    PROVE  CallersFit'
<1> USE DEF IInv
<1>1. /\ step = "fetch" /\ step' = "services" /\ UNCHANGED <<edges, request, seen, start, found>>
      /\ Collect(CodeOffers, ChainsTruncated(start, Depth, found, request.maxPaths))
  BY DEF Fetch, Goto, At
<1>2. items = {} /\ kept = {}
  BY <1>1 DEF StartFits, EarlySteps
<1>3. ReportFits /\ Offered(CodeOffers) /\ request.maxPaths \in Nat \ {0}
  BY CodeOffersFit, LimitsAreNat
<1>4. /\ \A i \in items \cup ItemsOf(CodeOffers) : \E j \in items' : KeyOf(j) = KeyOf(i)
      /\ \A j \in items' : j \in items \/ (j \in ItemsOf(CodeOffers) /\ KeyOf(j) \in Keys(CodeOffers))
  BY <1>1, <1>3, CollectAdds
<1>5. Depth' = Depth /\ \A n : CategoryOf(n)' = CategoryOf(n)
  BY <1>1, ChainsStand
<1>6. ASSUME NEW i \in items', i.id \in Code
      PROVE  i.id \in DOMAIN Depth \ {start} /\ i.category = CategoryOf(i.id) /\ i.depth = Depth[i.id]
  <2>1. i \in ItemsOf(CodeOffers)
    BY <1>2, <1>4
  <2>2. PICK o \in Under(CodeOffers, KeyOf(i)) : i.depth = Length(o.path)
    BY <1>3, <2>1, ItemsAreShortest
  <2>3. o \in CodeOffers /\ i.category = o.category /\ i.id = Terminal(o.path)
    BY <2>2 DEF Under, Key, KeyOf
  <2>4. PICK n \in DOMAIN Depth \ {start} :
            o.path \in CodeRoutes[n] /\ Terminal(o.path) = n /\ o.category = CategoryOf(n)
    BY <1>6, <2>3, CodeOffersAre
  <2>5. Length(o.path) = Depth[n]
    BY <2>4, CodeRoutesFit DEF Chained
  <2>6. QED
    BY <2>2, <2>3, <2>4, <2>5
<1>7. ASSUME NEW n \in DOMAIN Depth \ {start}
      PROVE  \E i \in items' : i.id = n /\ i.category = CategoryOf(n)
  <2>1. PICK c \in CodeRoutes[n] : Terminal(c) = n
    BY CodeRoutesFit DEF Chained, LeadTo
  <2> DEFINE o == [category |-> CategoryOf(n), path |-> c]
  <2>2. o \in CodeOffers
    <3>1. o \in Offer(CodeRoutes[n], CategoryOf(n))
      BY DEF Offer
    <3>2. QED
      BY <3>1 DEF CodeOffers
  <2>3. o.path = c /\ o.category = CategoryOf(n)
    OBVIOUS
  <2> HIDE DEF o
  <2>4. \E j \in items' : j.id = Terminal(o.path) /\ j.category = o.category
    BY <1>1, <1>3, <2>2, OfferedIsReported
  <2>5. QED
    BY <2>1, <2>3, <2>4
<1>8. QED
  BY <1>1, <1>5, <1>6, <1>7 DEF CallersFit

(* If nothing was cut, every route to a caller is kept.                    *)
LEMMA FetchKeepsRoutes ==
    ASSUME IInv, Fetch, start \in Code
    PROVE  KeptFits'
<1> USE DEF IInv
<1> DEFINE cut == ChainsTruncated(start, Depth, found, request.maxPaths)
<1>1. /\ step = "fetch" /\ step' = "services" /\ UNCHANGED <<edges, request, seen, start, found>>
      /\ Collect(CodeOffers, cut)
  BY DEF Fetch, Goto, At
<1>2. kept = {}
  BY <1>1 DEF StartFits, EarlySteps
<1>3. ReportFits /\ Offered(CodeOffers) /\ request.maxPaths \in Nat \ {0}
  BY CodeOffersFit, LimitsAreNat
<1>4. /\ Depth' = Depth /\ CodeRoutes' = CodeRoutes /\ \A n : CategoryOf(n)' = CategoryOf(n)
      /\ ChainsTruncated(start, Depth, found, request.maxPaths)' <=> cut
  BY <1>1, ChainsStand
<1>5. SUFFICES ASSUME MorePaths \notin notes'
               PROVE  /\ ~cut
                      /\ \A n \in DOMAIN Depth \ {start} :
                            {k.path : k \in Under(kept', <<CategoryOf(n), n>>)} = CodeRoutes[n]
  BY <1>1, <1>4 DEF KeptFits, MorePaths, Note
<1>6. ~cut /\ ~Caps(kept, CodeOffers, request.maxPaths) /\ kept' = Add(kept, CodeOffers, request.maxPaths)
  BY <1>1, <1>5 DEF Collect, MorePaths
<1>7. ASSUME NEW n \in DOMAIN Depth \ {start}
      PROVE  {k.path : k \in Under(kept', <<CategoryOf(n), n>>)} = CodeRoutes[n]
  <2> DEFINE key == <<CategoryOf(n), n>>
             own == Offer(CodeRoutes[n], CategoryOf(n))
  <2>1. n \in Code /\ Chained(CodeRoutes[n], n)
    BY CodeRoutesFit
  <2>2. \A o \in own : Terminal(o.path) = n /\ o.category = CategoryOf(n) /\ o \in CodeOffers
    <3>1. own \subseteq CodeOffers
      BY DEF CodeOffers
    <3>2. \A o \in own : o.path \in CodeRoutes[n] /\ o.category = CategoryOf(n)
      BY DEF Offer
    <3>3. QED
      BY <2>1, <3>1, <3>2 DEF Chained, LeadTo
  <2>3. \A o \in Under(CodeOffers, key) : o \in own
    <3> SUFFICES ASSUME NEW o \in CodeOffers, Key(o) = key
                 PROVE  o \in own
      BY DEF Under
    <3>1. Terminal(o.path) = n /\ o.category = CategoryOf(n)
      BY DEF Key
    <3>2. o.path \in CodeRoutes[n]
      BY <2>1, <3>1, CodeOffersAre
    <3>3. o = [category |-> o.category, path |-> o.path]
      BY <1>3 DEF Offered
    <3>4. QED
      BY <3>1, <3>2, <3>3 DEF Offer
  <2>4. Under(CodeOffers, key) = own
    BY <2>2, <2>3 DEF Under, Key
  <2>5. {k.path : k \in own} = CodeRoutes[n]
    <3>1. \A c \in CodeRoutes[n] : [category |-> CategoryOf(n), path |-> c] \in own
      BY DEF Offer
    <3>2. \A k \in own : k.path \in CodeRoutes[n]
      BY DEF Offer
    <3> HIDE DEF own
    <3>3. ASSUME NEW c \in CodeRoutes[n]
          PROVE  c \in {k.path : k \in own}
      <4>1. PICK k \in own : k = [category |-> CategoryOf(n), path |-> c]
        BY <3>1
      <4>2. k.path = c
        BY <4>1
      <4>3. QED
        BY <4>2
    <3>4. QED
      BY <3>2, <3>3
  <2>6. key \in Keys(CodeOffers)
    BY <2>1, <2>4, <2>5 DEF Chained, Under, Keys
  <2> HIDE DEF own, key
  <2>7. Under(kept', key) = own
    <3>1. Under(kept, key) = {} /\ kept \cup CodeOffers = CodeOffers /\ CodeOffers \ kept = CodeOffers
      BY <1>2 DEF Under
    <3>2. Cardinality(own) <= request.maxPaths
      <4>1. own \in SUBSET CodeOffers /\ IsFiniteSet(CodeOffers)
        BY <1>3, <2>4 DEF Under, Offered
      <4>2. Cardinality(own) \in Nat
        BY <4>1, FS_Subset, FS_CardinalityType
      <4>3. ~(Cardinality(own) > request.maxPaths)
        BY <1>6, <2>4, <2>6, <3>1 DEF Caps
      <4>4. QED
        BY <1>3, <4>2, <4>3
    <3>3. own \subseteq kept'
      <4>1. Cardinality(Under(kept, key)) = 0
        BY <3>1, FS_EmptySet
      <4>2. request.maxPaths - Cardinality(Under(kept, key)) = request.maxPaths
        BY <1>3, <4>1
      <4>3. AtMost(request.maxPaths - Cardinality(Under(kept, key)), Under(CodeOffers \ kept, key)) = own
        BY <2>4, <3>1, <3>2, <4>2 DEF AtMost
      <4>4. AtMost(request.maxPaths - Cardinality(Under(kept, key)), Under(CodeOffers \ kept, key)) \subseteq kept'
        BY <1>6, <2>6 DEF Add
      <4>5. QED
        BY <4>3, <4>4
    <3>4. Under(kept', key) \subseteq own
      <4>1. Under(kept', key) \subseteq Under(kept, key) \cup Under(CodeOffers, key)
        BY <1>3, <1>6, KeptUnderKey
      <4>2. QED
        BY <2>4, <3>1, <4>1
    <3>5. own \subseteq Under(kept', key)
      BY <2>4, <3>3 DEF Under
    <3>6. QED
      BY <3>4, <3>5
  <2>8. QED
    BY <2>5, <2>7 DEF key
<1>8. QED
  BY <1>6, <1>7

-----------------------------------------------------------------------------
(* Where the offers of each query lead, and what of the graph they show.   *)
LEMMA LabelledIsNotCode ==
    ASSUME NEW n, LabelOf(n) # "Code"
    PROVE  n \in DOMAIN Label /\ n \notin Code
BY GraphAssumption DEF LabelOf

LEMMA ServiceOffersLead ==
    ASSUME IInv
    PROVE  Further(ServiceOffers)
<1>1. ASSUME NEW o \in ServiceOffers
      PROVE  Terminal(o.path) \notin Code /\ o.category = "SERVICE" /\ Known("SERVICE")
  <2>1. PICK s \in OwningServices : o \in Offer(ServiceRoutes[s], "SERVICE")
    BY DEF ServiceOffers
  <2>2. o.path \in ServiceRoutes[s] /\ o.category = "SERVICE"
    BY <2>1 DEF Offer
  <2>3. LeadTo(ServiceRoutes[s], s)
    BY ServiceRoutesFit DEF Routed, ServiceRoutes
  <2>4. LabelOf(s) = "Service" /\ Within(s) # {}
    BY DEF OwningServices, LabelOf
  <2>5. Inside({s}) # {}
    <3>1. Inside({}) = {}
      BY DEF Inside, From
    <3>2. SUFFICES ASSUME Inside({s}) = {}
                   PROVE  Within(s) = {}
      BY <2>4
    <3>3. QED
      BY <3>1, <3>2 DEF Within
  <2>6. PICK e \in edges : e.type = "CONTAINS" /\ e.start = s
    BY <2>5 DEF Inside, From
  <2>7. Some("Service", {"CONTAINS"}, "any")
    BY <2>4, <2>6 DEF Some
  <2>8. Known("SERVICE")
    BY <2>7 DEF Known
  <2>9. s \notin Code
    BY <2>4, LabelledIsNotCode
  <2>10. QED
    BY <2>2, <2>3, <2>8, <2>9 DEF LeadTo
<1>2. QED
  BY <1>1, ServiceOffersFit DEF Further, Uncertain

LEMMA TargetOffersLead ==
    ASSUME IInv
    PROVE  Further(TargetOffers)
<1>1. ASSUME NEW o \in TargetOffers
      PROVE  Terminal(o.path) \notin Code /\ o.category \in Uncertain /\ Known(o.category)
  <2>1. PICK way \in Ways : o \in OffersBy(way)
    BY DEF TargetOffers
  <2>2. PICK t \in TargetsOf(way) : o \in Offer(ByOwner(way, t), way[3])
    BY <2>1 DEF OffersBy
  <2>3. o.path \in ByOwner(way, t) /\ o.category = way[3]
    BY <2>2 DEF Offer
  <2>4. Terminal(o.path) = t
    BY <2>3, TargetsFit, ByOwnerLeads DEF LeadTo
  <2>5. PICK e \in edges : e.type = way[1] /\ e.end = t /\ LabelOf(t) = way[2]
    BY DEF TargetsOf, From
  <2>6. way[2] # "Code" /\ way[3] \in Uncertain
    BY DEF Ways, Uncertain
  <2>7. \A types : way[1] \in types => Some("any", types, way[2])
    BY <2>5 DEF Some
  <2>8. Known(way[3])
    <3>1. CASE way = <<"EXPOSES", "API", "API">>
      BY <2>7, <3>1 DEF Known
    <3>2. CASE way = <<"PUBLISHES", "Event", "EVENT">>
      BY <2>7, <3>2 DEF Known
    <3>3. CASE way = <<"CONSUMES", "Event", "EVENT">>
      BY <2>7, <3>3 DEF Known
    <3>4. CASE way = <<"ACCESSES", "Database", "DATABASE">>
      BY <2>7, <3>4 DEF Known
    <3>5. CASE way = <<"ACCESSES", "Table", "TABLE">>
      BY <2>7, <3>5 DEF Known
    <3>6. QED
      BY <3>1, <3>2, <3>3, <3>4, <3>5 DEF Ways
  <2>9. t \notin Code
    BY <2>5, <2>6, LabelledIsNotCode
  <2>10. QED
    BY <2>3, <2>4, <2>6, <2>8, <2>9
<1>2. QED
  BY <1>1, TargetOffersFit DEF Further

LEMMA TableOffersLead ==
    ASSUME IInv, KnownFits
    PROVE  Further(TableOffers)
<1>1. ASSUME NEW o \in TableOffers
      PROVE  Terminal(o.path) \notin Code /\ o.category = "TABLE" /\ Known("TABLE")
  <2>1. PICK e \in TableRows : o \in Offer(Extend(stores[e.start], e.end, "CONTAINS"), "TABLE")
    BY DEF TableOffers
  <2>2. o.path \in Extend(stores[e.start], e.end, "CONTAINS") /\ o.category = "TABLE"
    BY <2>1 DEF Offer
  <2>3. Terminal(o.path) = e.end
    BY <2>2, TablesLead DEF LeadTo
  <2>4. e \in edges /\ LabelOf(e.start) = "Database" /\ LabelOf(e.end) = "Table" /\ e.type = "CONTAINS"
    BY TablesLead DEF KnownFits, TableRows, From
  <2>5. Some("Database", {"CONTAINS"}, "Table")
    BY <2>4 DEF Some
  <2>6. Known("TABLE")
    BY <2>5 DEF Known
  <2>7. e.end \notin Code
    BY <2>4, LabelledIsNotCode
  <2>8. QED
    BY <2>2, <2>3, <2>6, <2>7
<1>2. QED
  BY <1>1, TableOffersFit DEF Further, Uncertain

LEMMA LinkOffersLead ==
    ASSUME IInv, KnownFits, step = "downstream"
    PROVE  Further(LinkOffers)
<1>1. ASSUME NEW o \in LinkOffers
      PROVE  Terminal(o.path) \notin Code /\ o.category = "DOWNSTREAM_SERVICE" /\ Known("DOWNSTREAM_SERVICE")
  <2>1. PICK s \in Discovered : o \in Offer(LinkRoutes[s], "DOWNSTREAM_SERVICE")
    BY DEF LinkOffers
  <2>2. o.path \in LinkRoutes[s] /\ o.category = "DOWNSTREAM_SERVICE"
    BY <2>1 DEF Offer
  <2>3. Terminal(o.path) = s
    BY <2>2, LinkRoutesFit DEF Routed, LinkRoutes, LeadTo
  <2>4. PICK e \in Links : e.end = s
    BY LinksFit
  <2>5. /\ e \in edges /\ e.type \in {"DEPENDS_ON", "CALLS"}
        /\ LabelOf(e.start) = "Service" /\ LabelOf(e.end) = "Service"
    BY <2>4, LinksFit DEF KnownFits
  <2>6. Some("Service", {"DEPENDS_ON", "CALLS"}, "Service")
    BY <2>5 DEF Some
  <2>7. Known("DOWNSTREAM_SERVICE")
    BY <2>6 DEF Known
  <2>8. s \notin Code
    BY <2>4, <2>5, LabelledIsNotCode
  <2>9. QED
    BY <2>2, <2>3, <2>7, <2>8
<1>2. QED
  BY <1>1, LinkOffersFit DEF Further, Uncertain

LEMMA TestOffersLead ==
    ASSUME IInv
    PROVE  Further(TestOffers)
<1>1. ASSUME NEW o \in TestOffers
      PROVE  Terminal(o.path) \notin Code /\ o.category = "TEST" /\ Known("TEST")
  <2>1. PICK e \in TestRows : o \in Offer(Extend(routes[e.end], e.start, "VALIDATES"), "TEST")
    BY DEF TestOffers
  <2>2. o.path \in Extend(routes[e.end], e.start, "VALIDATES") /\ o.category = "TEST"
    BY <2>1 DEF Offer
  <2>3. Terminal(o.path) = e.start
    BY <2>2, TestsLead DEF LeadTo
  <2>4. e \in edges /\ LabelOf(e.start) = "Test" /\ e.type = "VALIDATES"
    BY TestsLead
  <2>5. Some("Test", {"VALIDATES"}, "any")
    BY <2>4 DEF Some
  <2>6. Known("TEST")
    BY <2>5 DEF Known
  <2>7. e.start \notin Code
    BY <2>4, LabelledIsNotCode
  <2>8. QED
    BY <2>2, <2>3, <2>6, <2>7
<1>2. QED
  BY <1>1, TestOffersFit DEF Further, Uncertain

LEMMA NamedOffersLead ==
    ASSUME IInv, start \in Code
    PROVE  Further(NamedOffers)
<1>1. ASSUME NEW o \in NamedOffers
      PROVE  Terminal(o.path) \notin Code /\ o.category = "TEST" /\ Known("TEST")
  <2>1. PICK n \in NamedTests :
            o \in Offer(Extend(CodeRoutes[start], Info[n].key, "NAMING_CONVENTION"), "TEST")
    BY DEF NamedOffers
  <2>2. o.path \in Extend(CodeRoutes[start], Info[n].key, "NAMING_CONVENTION") /\ o.category = "TEST"
    BY <2>1 DEF Offer
  <2>3. Terminal(o.path) = Info[n].key
    BY <2>2, NamesLead DEF LeadTo
  <2>4. n \in Code /\ TestFiles # {}
    BY DEF NamedTests, IsTest
  <2>5. Known("TEST") /\ Info[n].key \notin Code
    BY <2>4, CodeAssumption DEF Known
  <2>6. QED
    BY <2>2, <2>3, <2>5
<1>2. QED
  BY <1>1, NamedOffersFit DEF Further, Uncertain

-----------------------------------------------------------------------------
(* A category in which something was found is known.                       *)
LEMMA FetchIsKnown ==
    ASSUME IInv, KnownFits, Fetch, start \in Code
    PROVE  KnownFits'
<1> USE DEF IInv
<1>1. /\ step = "fetch" /\ step' = "services" /\ UNCHANGED <<edges, request, seen, start, found, down, stores>>
      /\ Collect(CodeOffers, ChainsTruncated(start, Depth, found, request.maxPaths))
  BY DEF Fetch, Goto, At
<1>2. items = {} /\ notes = {}
  BY <1>1 DEF StartFits, EarlySteps, KnownFits
<1>3. ReportFits /\ Offered(CodeOffers) /\ request.maxPaths \in Nat \ {0}
  BY CodeOffersFit, LimitsAreNat
<1>4. /\ \A j \in items' : j \in items \/ (j \in ItemsOf(CodeOffers) /\ KeyOf(j) \in Keys(CodeOffers))
      /\ notes' \subseteq notes \cup {MorePaths}
  BY <1>1, <1>3, CollectAdds
<1>5. ASSUME NEW i \in items', i.category \in Uncertain
      PROVE  Known(i.category)'
  <2>1. PICK o \in CodeOffers : i.category = o.category
    BY <1>2, <1>4 DEF Keys, Key, KeyOf
  <2>2. PICK n \in DOMAIN Depth \ {start} : o.category = CategoryOf(n)
    BY <1>5, <2>1, CodeOffersAre DEF Uncertain
  <2>3. i.category = "TEST" /\ IsTest(n)
    BY <1>5, <2>1, <2>2 DEF CategoryOf, Uncertain
  <2>4. TestFiles # {}
    BY <2>3 DEF IsTest
  <2>5. Known("TEST")'
    BY <2>4 DEF Known
  <2>6. QED
    BY <2>3, <2>5
<1>6. \A c : Unknown(c) \notin notes'
  BY <1>2, <1>4 DEF Unknown, MorePaths, Note
<1>7. /\ \A s \in DOMAIN down' : LabelOf(s) = "Service"
      /\ \A d \in DOMAIN stores' : LabelOf(d) = "Database"
  BY <1>1 DEF KnownFits
<1>8. step' \notin EarlySteps /\ notes' \subseteq {MorePaths}
  BY <1>1, <1>2, <1>4 DEF EarlySteps
<1>9. QED
  BY <1>5, <1>6, <1>7, <1>8 DEF KnownFits, LabelOf, Unknown, MorePaths

(* What is added about the graph is not said of a category of the report.  *)
LEMMA NotesAreKnown ==
    ASSUME IInv, KnownFits, step \in {"coverage", "more", "sites"},
           AssessCoverage \/ HasMoreCallers \/ FindUnresolvedSites
    PROVE  KnownFits'
<1>1. PICK new, next : next \in {"more", "sites", "done"} /\ AddNotes(new, next)
                       /\ \A i \in items : Unknown(i.category) \notin new
  <2>1. CASE AssessCoverage
    <3> DEFINE new == {Unknown(c) : c \in {d \in Uncertain : ~Known(d)}}
    <3>1. AddNotes(new, "more")
      BY <2>1 DEF AssessCoverage, Unknown
    <3>2. \A i \in items : Unknown(i.category) \notin new
      BY DEF KnownFits, Unknown, Note
    <3> HIDE DEF new
    <3>3. QED
      BY <3>1, <3>2
  <2>2. CASE HasMoreCallers
    <3> DEFINE new == IF Beyond # {} THEN {Note("INDIRECT_CALLER", "beyond max_depth")} ELSE {}
    <3>1. AddNotes(new, "sites")
      BY <2>2 DEF HasMoreCallers
    <3>2. \A c : Unknown(c) \notin new
      BY DEF Unknown, Note
    <3> HIDE DEF new
    <3>3. QED
      BY <3>1, <3>2
  <2>3. CASE FindUnresolvedSites
    <3> DEFINE new == {SiteNote(n) : n \in {m \in Code \ DOMAIN Depth : Primary.name \in Info[m].unresolved}}
    <3>1. AddNotes(new, "done")
      BY <2>3 DEF FindUnresolvedSites
    <3>2. \A c : Unknown(c) \notin new
      BY DEF Unknown, Note, SiteNote
    <3> HIDE DEF new
    <3>3. QED
      BY <3>1, <3>2
  <2>4. QED
    BY <2>1, <2>2, <2>3
<1>2. /\ UNCHANGED <<edges, items, down, stores>> /\ step' = next
      /\ notes' = notes \cup new
  BY <1>1 DEF AddNotes, Goto, progress
<1>3. step \in LateSteps /\ step' \in {"more", "sites", "done"}
  BY <1>1, <1>2 DEF LateSteps
<1>4. \A i \in items : Unknown(i.category) \notin notes'
  BY <1>1, <1>2, <1>3 DEF KnownFits
<1>5. \A i \in items : i.category \in Uncertain => Known(i.category)'
  BY <1>2, KnownStands DEF KnownFits
<1>6. QED
  BY <1>2, <1>3, <1>4, <1>5 DEF KnownFits, EarlySteps, LateSteps, LabelOf, Unknown

LEMMA GrownIsKnown ==
    ASSUME KnownFits, Grow
    PROVE  KnownFits'
<1>1. UNCHANGED <<items, down, stores, notes, step>> /\ edges \subseteq edges'
  BY DEF Grow, progress, report
<1>2. \A i \in items : i.category \in Uncertain => Known(i.category)'
  BY <1>1, KnownStands DEF KnownFits
<1>3. QED
  BY <1>1, <1>2 DEF KnownFits, LabelOf, Unknown, MorePaths

-----------------------------------------------------------------------------
(* What each query has reported stays reported.                            *)
Order == {<<"services", "owners">>, <<"owners", "tables">>, <<"tables", "downstream">>,
          <<"downstream", "downstream">>, <<"downstream", "validating">>, <<"validating", "naming">>,
          <<"naming", "coverage">>, <<"coverage", "more">>, <<"more", "sites">>, <<"sites", "done">>}

LEMMA PlacesStand ==
    ASSUME UNCHANGED <<start, found>>
    PROVE  Places' = Places
<1>1. Depth' = Depth
  BY DepthStands
<1>2. Impacted' = Impacted
  BY <1>1 DEF Impacted, CategoryOf, IsTest
<1>3. QED
  BY <1>2 DEF Places, Methods

LEMMA AllStands ==
    ASSUME AllFits, step \in LateSteps, Still, UNCHANGED routes, <<step, step'>> \in Order,
           Reported \subseteq Reported', notes \subseteq notes',
           step # "services" => DOMAIN down \subseteq DOMAIN down', \A n \in DOMAIN down' : down'[n] # {},
           step = "services" => OwningServices \subseteq DOMAIN down' \cap Reported',
           step = "owners" /\ seen = edges => \A way \in Ways : Targets(way) \subseteq Reported',
           step = "validating" => \A e \in Validating : e.start \in Reported',
           step = "more" /\ notes' = {} => Beyond = {}
    PROVE  AllFits'
<1> USE DEF Still
<1>1. Places' = Places /\ Depth' = Depth
  BY PlacesStand, DepthStands
<1>2. OwningServices' = OwningServices
  BY DEF OwningServices, Within, Inside, From
<1>3. \A way : Targets(way)' = Targets(way)
  BY <1>1, <1>2 DEF Targets, From, LabelOf
<1>4. Validating' = Validating /\ Beyond' = Beyond
  BY <1>1 DEF Validating, Rows, LabelOf, Beyond, Deepest
<1>5. DOMAIN routes' = Places' /\ \A n \in DOMAIN routes' : routes'[n] # {}
  BY <1>1 DEF AllFits
<1>6. ASSUME seen = edges
      PROVE  OwningServices \subseteq DOMAIN down' \cap Reported'
  BY <1>6 DEF AllFits
<1>7. ASSUME seen = edges, step' \notin {"services", "owners"}
      PROVE  \A way \in Ways : Targets(way) \subseteq Reported'
  <2>1. CASE step = "owners"
    BY <1>7, <2>1
  <2>2. CASE step # "owners"
    <3>1. step # "services"
      BY <1>7 DEF Order
    <3>2. QED
      BY <1>7, <2>2, <3>1 DEF AllFits
  <2>3. QED
    BY <2>1, <2>2
<1>8. ASSUME seen = edges, step' \in {"naming", "coverage", "more", "sites", "done"}
      PROVE  \A e \in Validating : e.start \in Reported'
  <2>1. CASE step = "validating"
    BY <2>1
  <2>2. CASE step # "validating"
    <3>1. step \in {"naming", "coverage", "more", "sites", "done"}
      BY <1>8, <2>2 DEF Order
    <3>2. QED
      BY <1>8, <3>1 DEF AllFits
  <2>3. QED
    BY <2>1, <2>2
<1>9. ASSUME seen = edges, step' \in {"sites", "done"}, notes' = {}
      PROVE  Beyond = {}
  <2>1. step \in {"more", "sites"} /\ notes = {}
    BY <1>9 DEF Order
  <2>2. QED
    BY <1>9, <2>1 DEF AllFits
<1>10. QED
  BY <1>1, <1>2, <1>3, <1>4, <1>5, <1>6, <1>7, <1>8, <1>9 DEF AllFits

(* A query of the report adds to it what it found, and nothing else.       *)
LEMMA QueryKeepsAll ==
    ASSUME IInv, CInv, step \in LateSteps \ {"more", "sites", "done"}, <<step, step'>> \in Order,
           step # "coverage", Still, UNCHANGED routes,
           NEW offers, Further(offers), Collect(offers, FALSE),
           \A s \in DOMAIN down' : LabelOf(s) = "Service" /\ down'[s] # {},
           \A d \in DOMAIN stores' : LabelOf(d) = "Database",
           step # "services" => DOMAIN down \subseteq DOMAIN down',
           step = "services" => OwningServices \subseteq DOMAIN down' \cap Reported',
           step = "owners" /\ seen = edges => \A way \in Ways : Targets(way) \subseteq Reported',
           step = "validating" => \A e \in Validating : e.start \in Reported'
    PROVE  CallersFit' /\ KeptFits' /\ KnownFits' /\ AllFits'
<1> USE DEF CInv
<1>1. CallersFit' /\ KeptFits'
  BY FurtherKeeps
<1>2. KnownFits'
  <2>1. step' \in LateSteps \ {"more", "sites", "done"}
    BY DEF Order, LateSteps
  <2>2. QED
    BY <2>1, FurtherIsKnown
<1>3. ReportFits /\ Offered(offers) /\ request.maxPaths \in Nat \ {0}
  BY LimitsAreNat DEF IInv, Further
<1>4. Reported \subseteq Reported'
  BY <1>3, ReportedStays
<1>5. notes \subseteq notes'
  BY <1>3, CollectAdds
<1>6. AllFits'
  BY <1>4, <1>5, AllStands
<1>7. QED
  BY <1>1, <1>2, <1>6

(* The reported callers and their routes are what they are.                *)
LEMMA ReportedStand ==
    ASSUME CallersFit, KeptFits, UNCHANGED <<start, found, request, kept, items>>, notes \subseteq notes',
           step' \in LateSteps => step \in LateSteps
    PROVE  CallersFit' /\ KeptFits'
<1>1. /\ Depth' = Depth /\ CodeRoutes' = CodeRoutes
      /\ \A n : CategoryOf(n)' = CategoryOf(n)
      /\ ChainsTruncated(start, Depth, found, request.maxPaths)'
           <=> ChainsTruncated(start, Depth, found, request.maxPaths)
  BY ChainsStand
<1>2. CallersFit'
  BY <1>1 DEF CallersFit
<1>3. KeptFits'
  BY <1>1 DEF KeptFits, MorePaths, Note
<1>4. QED
  BY <1>2, <1>3

(* What is offered as routes to a node is reported of it.                  *)
LEMMA RouteIsReported ==
    ASSUME ReportFits, NEW offers, Offered(offers), Collect(offers, FALSE),
           request.maxPaths \in Nat \ {0},
           NEW paths, NEW n, paths # {}, LeadTo(paths, n), NEW c, Offer(paths, c) \subseteq offers
    PROVE  n \in Reported'
<1>1. PICK p \in paths : Terminal(p) = n
  BY DEF LeadTo
<1>2. PICK o \in offers : o = [category |-> c, path |-> p]
  BY DEF Offer
<1>3. Terminal(o.path) = n
  BY <1>1, <1>2
<1>4. QED
  BY <1>3, ReportedStays

LEMMA ServicesAreReported ==
    ASSUME IInv, CInv, FindServices
    PROVE  CallersFit' /\ KeptFits' /\ KnownFits' /\ AllFits'
<1>1. /\ step = "services" /\ step' = "owners" /\ Still /\ UNCHANGED <<routes, stores>>
      /\ Collect(ServiceOffers, FALSE) /\ down' = ServiceRoutes
  BY DEF FindServices, At, Goto, Still
<1>2. /\ DOMAIN routes = Places /\ \A n \in DOMAIN routes : routes[n] # {}
  BY <1>1 DEF CInv, AllFits, LateSteps
<1>3. DOMAIN down' = OwningServices
  BY <1>1 DEF ServiceRoutes
<1>4. ASSUME NEW s \in OwningServices
      PROVE  ServiceRoutes[s] # {} /\ s \in Reported'
  <2>1. PICK x \in Within(s) \cap DOMAIN routes : TRUE
    BY DEF OwningServices
  <2>2. PICK p \in routes[x] : TRUE
    BY <1>2, <2>1
  <2>3. Append(p, Step(s, "CONTAINS")) \in ServiceRoutes[s]
    BY <2>1, <2>2 DEF ServiceRoutes, Extend
  <2>4. LeadTo(ServiceRoutes[s], s)
    BY ServiceRoutesFit DEF Routed, ServiceRoutes
  <2>5. Offer(ServiceRoutes[s], "SERVICE") \subseteq ServiceOffers
    BY DEF ServiceOffers
  <2>6. ServiceRoutes[s] # {}
    BY <2>3
  <2>7. ReportFits /\ request.maxPaths \in Nat \ {0} /\ Offered(ServiceOffers)
    BY LimitsAreNat, ServiceOffersFit DEF IInv
  <2>8. s \in Reported'
    BY <1>1, <2>4, <2>5, <2>6, <2>7, RouteIsReported
  <2>9. QED
    BY <2>6, <2>8
<1>5. \A s \in OwningServices : LabelOf(s) = "Service"
  BY DEF OwningServices, LabelOf
<1>6. \A d \in DOMAIN stores' : LabelOf(d) = "Database"
  BY <1>1 DEF CInv, KnownFits
<1>7. QED
  <2>1. Further(ServiceOffers)
    BY ServiceOffersLead
  <2>2. step \in LateSteps \ {"more", "sites", "done"} /\ <<step, step'>> \in Order /\ step # "coverage"
    BY <1>1 DEF LateSteps, Order
  <2>3. QED
    BY <1>1, <1>3, <1>4, <1>5, <1>6, <2>1, <2>2, QueryKeepsAll

LEMMA TargetsAreReported ==
    ASSUME IInv, CInv, FindTargets
    PROVE  CallersFit' /\ KeptFits' /\ KnownFits' /\ AllFits'
<1> USE DEF CInv
<1>1. /\ step = "owners" /\ step' = "tables" /\ Still /\ UNCHANGED <<routes, down>>
      /\ Collect(TargetOffers, FALSE)
      /\ stores' = LET way == <<"ACCESSES", "Database", "DATABASE">>
                   IN [d \in TargetsOf(way) |-> ByOwner(way, d)]
  BY DEF FindTargets, At, Goto, Still
<1>2. /\ DOMAIN routes = Places /\ \A n \in DOMAIN routes : routes[n] # {}
      /\ \A n \in DOMAIN down : down[n] # {}
      /\ seen = edges => OwningServices \subseteq DOMAIN down
  BY <1>1 DEF AllFits, LateSteps
<1>3. ReportFits /\ request.maxPaths \in Nat \ {0} /\ Offered(TargetOffers)
  BY LimitsAreNat, TargetOffersFit DEF IInv
<1>4. ASSUME seen = edges, NEW way \in Ways, NEW t \in Targets(way)
      PROVE  t \in Reported'
  <2>1. PICK e \in edges : /\ e.start \in Places \cup OwningServices /\ e.type = way[1]
                           /\ e.end = t /\ LabelOf(t) = way[2]
    BY DEF Targets, From
  <2>2. e.start \in DOMAIN OwnerRoutes /\ OwnerRoutes[e.start] # {}
    BY <1>2, <1>4, <2>1 DEF OwnerRoutes, Updated
  <2>3. t \in TargetsOf(way)
    BY <2>1, <2>2 DEF TargetsOf, From
  <2>4. PICK p \in OwnerRoutes[e.start] : TRUE
    BY <2>2
  <2>5. Append(p, Step(t, way[1])) \in ByOwner(way, t)
    BY <2>1, <2>2, <2>4 DEF ByOwner, Rows, Extend
  <2>6. LeadTo(ByOwner(way, t), t)
    BY <2>3, TargetsFit, ByOwnerLeads
  <2>7. Offer(ByOwner(way, t), way[3]) \subseteq TargetOffers
    BY <2>3 DEF TargetOffers, OffersBy
  <2>8. ByOwner(way, t) # {}
    BY <2>5
  <2>9. QED
    BY <1>1, <1>3, <2>6, <2>7, <2>8, RouteIsReported
<1>5. \A s \in DOMAIN down' : LabelOf(s) = "Service" /\ down'[s] # {}
  BY <1>1, <1>2 DEF KnownFits
<1>6. \A d \in DOMAIN stores' : LabelOf(d) = "Database"
  BY <1>1 DEF TargetsOf
<1>7. QED
  <2>1. Further(TargetOffers)
    BY TargetOffersLead
  <2>2. step \in LateSteps \ {"more", "sites", "done"} /\ <<step, step'>> \in Order /\ step # "coverage"
    BY <1>1 DEF LateSteps, Order
  <2>3. seen = edges => \A way \in Ways : Targets(way) \subseteq Reported'
    BY <1>4
  <2>4. QED
    BY <1>1, <1>5, <1>6, <2>1, <2>2, <2>3, QueryKeepsAll

LEMMA TablesAreReported ==
    ASSUME IInv, CInv, FindTables
    PROVE  CallersFit' /\ KeptFits' /\ KnownFits' /\ AllFits'
<1> USE DEF CInv
<1>1. /\ step = "tables" /\ step' = "downstream" /\ Still /\ UNCHANGED <<routes, stores, down>>
      /\ Collect(TableOffers, FALSE)
  BY DEF FindTables, At, Goto, Still
<1>2. /\ \A s \in DOMAIN down' : LabelOf(s) = "Service" /\ down'[s] # {}
      /\ \A d \in DOMAIN stores' : LabelOf(d) = "Database"
  BY <1>1 DEF AllFits, KnownFits, LateSteps
<1>3. step \in LateSteps \ {"more", "sites", "done"} /\ <<step, step'>> \in Order /\ step # "coverage"
  BY <1>1 DEF LateSteps, Order
<1>4. Further(TableOffers)
  BY TableOffersLead
<1>5. QED
  BY <1>1, <1>2, <1>3, <1>4, QueryKeepsAll

LEMMA LinksAreReported ==
    ASSUME IInv, CInv, FindDownstream
    PROVE  CallersFit' /\ KeptFits' /\ KnownFits' /\ AllFits'
<1> USE DEF CInv
<1>1. step = "downstream" /\ Still /\ UNCHANGED <<routes, stores>>
  BY DEF FindDownstream, At, Goto, Still
<1>2. /\ \A s \in DOMAIN down : LabelOf(s) = "Service" /\ down[s] # {}
      /\ \A d \in DOMAIN stores' : LabelOf(d) = "Database"
  BY <1>1 DEF AllFits, KnownFits, LateSteps
<1>3. step \in LateSteps \ {"more", "sites", "done"} /\ step # "coverage"
  BY <1>1 DEF LateSteps
<1>4. CASE /\ step' = "downstream" /\ Collect(LinkOffers, FALSE) /\ down' = Updated(down, LinkRoutes)
  <2>1. ASSUME NEW s \in Discovered
        PROVE  LinkRoutes[s] # {} /\ LabelOf(s) = "Service"
    <3>1. PICK e \in Links : e.end = s
      BY <1>1, LinksFit
    <3>2. e.start \in DOMAIN down /\ LabelOf(s) = "Service"
      BY <1>1, <3>1, LinksFit
    <3>3. PICK p \in down[e.start] : TRUE
      BY <1>2, <3>2
    <3>4. Append(p, Step(s, e.type)) \in LinkRoutes[s]
      BY <3>1, <3>3 DEF LinkRoutes, Extend
    <3>5. QED
      BY <3>2, <3>4
  <2>2. DOMAIN LinkRoutes = Discovered
    BY DEF LinkRoutes
  <2>3. /\ \A s \in DOMAIN down' : LabelOf(s) = "Service" /\ down'[s] # {}
        /\ DOMAIN down \subseteq DOMAIN down'
    BY <1>2, <1>4, <2>1, <2>2 DEF Updated
  <2>4. Further(LinkOffers) /\ <<step, step'>> \in Order
    BY <1>1, <1>4, LinkOffersLead DEF Order
  <2>5. QED
    BY <1>1, <1>2, <1>3, <1>4, <2>3, <2>4, QueryKeepsAll
<1>5. CASE step' = "validating" /\ UNCHANGED <<down, report>>
  <2>1. UNCHANGED <<down, kept, items, notes>>
    BY <1>5 DEF report
  <2>2. CallersFit' /\ KeptFits'
    BY <1>1, <2>1, ReportedStand DEF Still, LateSteps
  <2>3. KnownFits'
    BY <1>1, <1>5, <2>1, KnownStands DEF KnownFits, Still, EarlySteps, LateSteps, LabelOf, Unknown, MorePaths, Note
  <2>4. AllFits'
    <3>1. Reported' = Reported /\ <<step, step'>> \in Order
      BY <1>1, <1>5, <2>1 DEF Reported, Order
    <3>2. QED
      BY <1>1, <1>2, <1>3, <2>1, <3>1, AllStands
  <2>5. QED
    BY <2>2, <2>3, <2>4
<1>6. QED
  BY <1>4, <1>5 DEF FindDownstream, Goto

LEMMA TestsAreReported ==
    ASSUME IInv, CInv, FindValidatingTests
    PROVE  CallersFit' /\ KeptFits' /\ KnownFits' /\ AllFits'
<1> USE DEF CInv
<1>1. /\ step = "validating" /\ step' = "naming" /\ Still /\ UNCHANGED <<routes, stores, down>>
      /\ Collect(TestOffers, FALSE)
  BY DEF FindValidatingTests, At, Goto, Still, progress
<1>2. /\ DOMAIN routes = Places /\ \A n \in DOMAIN routes : routes[n] # {}
      /\ \A s \in DOMAIN down' : LabelOf(s) = "Service" /\ down'[s] # {}
      /\ \A d \in DOMAIN stores' : LabelOf(d) = "Database"
  BY <1>1 DEF AllFits, KnownFits, LateSteps
<1>3. ReportFits /\ request.maxPaths \in Nat \ {0} /\ Offered(TestOffers)
  BY LimitsAreNat, TestOffersFit DEF IInv
<1>4. ASSUME NEW e \in Validating
      PROVE  e.start \in Reported'
  <2>1. e \in TestRows /\ e.end \in DOMAIN routes
    BY <1>2 DEF Validating, TestRows, Rows
  <2>2. PICK p \in routes[e.end] : TRUE
    BY <1>2, <2>1
  <2> DEFINE paths == Extend(routes[e.end], e.start, "VALIDATES")
  <2>3. Append(p, Step(e.start, "VALIDATES")) \in paths
    BY <2>2 DEF Extend
  <2>4. LeadTo(paths, e.start)
    BY <2>1, TestsLead
  <2>5. Offer(paths, "TEST") \subseteq TestOffers
    BY <2>1 DEF TestOffers
  <2> HIDE DEF paths
  <2>6. paths # {}
    BY <2>3
  <2>7. QED
    BY <1>1, <1>3, <2>4, <2>5, <2>6, RouteIsReported
<1>5. step \in LateSteps \ {"more", "sites", "done"} /\ <<step, step'>> \in Order /\ step # "coverage"
  BY <1>1 DEF LateSteps, Order
<1>6. Further(TestOffers)
  BY TestOffersLead
<1>7. QED
  BY <1>1, <1>2, <1>4, <1>5, <1>6, QueryKeepsAll

LEMMA NamesAreReported ==
    ASSUME IInv, CInv, FindNamedTests
    PROVE  CallersFit' /\ KeptFits' /\ KnownFits' /\ AllFits'
<1> USE DEF CInv
<1>1. /\ step = "naming" /\ step' = "coverage" /\ Still /\ UNCHANGED <<routes, stores, down>>
      /\ Collect(NamedOffers, FALSE)
  BY DEF FindNamedTests, At, Goto, Still, progress
<1>2. /\ \A s \in DOMAIN down' : LabelOf(s) = "Service" /\ down'[s] # {}
      /\ \A d \in DOMAIN stores' : LabelOf(d) = "Database"
  BY <1>1 DEF AllFits, KnownFits, LateSteps
<1>3. step \in LateSteps \ {"more", "sites", "done"} /\ <<step, step'>> \in Order /\ step # "coverage"
  BY <1>1 DEF LateSteps, Order
<1>4. Further(NamedOffers)
  BY <1>1, NamedOffersLead DEF IInv, StartFits, LateSteps
<1>5. QED
  BY <1>1, <1>2, <1>3, <1>4, QueryKeepsAll

LEMMA NotesAreReported ==
    ASSUME IInv, CInv, AssessCoverage \/ HasMoreCallers \/ FindUnresolvedSites
    PROVE  CallersFit' /\ KeptFits' /\ KnownFits' /\ AllFits'
<1> USE DEF CInv
<1>1. /\ step \in {"coverage", "more", "sites"} /\ <<step, step'>> \in Order
      /\ Still /\ UNCHANGED <<routes, stores, down, kept, items>> /\ notes \subseteq notes'
  <2>1. ASSUME NEW new, NEW next, AddNotes(new, next)
        PROVE  /\ step' = next /\ Still /\ UNCHANGED <<routes, stores, down, kept, items>>
               /\ notes \subseteq notes'
    BY <2>1 DEF AddNotes, Goto, progress, Still
  <2>2. AssessCoverage => step = "coverage" /\ \E new : AddNotes(new, "more")
    BY DEF AssessCoverage, At
  <2>3. HasMoreCallers => step = "more" /\ \E new : AddNotes(new, "sites")
    BY DEF HasMoreCallers, At
  <2>4. FindUnresolvedSites => step = "sites" /\ \E new : AddNotes(new, "done")
    BY DEF FindUnresolvedSites, At
  <2>5. QED
    BY <2>1, <2>2, <2>3, <2>4 DEF Order
<1>2. step \in LateSteps /\ step \notin {"services", "owners", "validating"}
  BY <1>1 DEF LateSteps
<1>3. CallersFit' /\ KeptFits'
  BY <1>1, <1>2, ReportedStand DEF Still
<1>4. KnownFits'
  BY <1>1, NotesAreKnown
<1>5. step = "more" /\ notes' = {} => Beyond = {}
  <2>1. step = "more" => HasMoreCallers
    BY DEF AssessCoverage, FindUnresolvedSites, At
  <2>2. HasMoreCallers /\ notes' = {} => Beyond = {}
    BY DEF HasMoreCallers, AddNotes
  <2>3. QED
    BY <2>1, <2>2
<1>6. AllFits'
  <2>1. Reported' = Reported
    BY <1>1 DEF Reported
  <2>2. \A n \in DOMAIN down' : down'[n] # {}
    BY <1>1, <1>2 DEF AllFits
  <2>3. QED
    BY <1>1, <1>2, <1>5, <2>1, <2>2, AllStands
<1>7. QED
  BY <1>3, <1>4, <1>6

(* Every caller, and what contains those that are no tests, has routes.    *)
LEMMA PlacesAreRouted ==
    ASSUME IInv, Fetch, start \in Code
    PROVE  AllFits'
<1> USE DEF IInv
<1>1. /\ step = "fetch" /\ step' = "services" /\ UNCHANGED <<start, found, down>>
      /\ routes' = Updated(Updated([n \in Impacted |-> CodeRoutes[n]], ClassRoutes), FileRoutes)
  BY DEF Fetch, Goto, At
<1>2. Places' = Places
  BY <1>1, PlacesStand
<1>3. \A n \in Impacted : CodeRoutes[n] # {}
  BY CodeRoutesFit DEF Impacted, Chained
<1>4. \A n \in Impacted : WithClass(n) # {}
  <2>1. ASSUME NEW n \in Impacted
        PROVE  WithClass(n) # {}
    <3>1. PICK c \in CodeRoutes[n] : TRUE
      BY <1>3
    <3>2. Append(c, Step(Info[n].class, "CONTAINS")) \in Extend(CodeRoutes[n], Info[n].class, "CONTAINS")
      BY <3>1 DEF Extend
    <3>3. QED
      BY <3>1, <3>2 DEF WithClass
  <2>2. QED
    BY <2>1
<1>5. /\ DOMAIN ClassRoutes = {Info[n].class : n \in Methods}
      /\ \A c \in DOMAIN ClassRoutes : ClassRoutes[c] # {}
  <2>1. ASSUME NEW n \in Methods
        PROVE  ClassRoutes[Info[n].class] # {}
    <3>1. PICK p \in WithClass(n) : TRUE
      BY <1>4 DEF Methods
    <3>2. p \in ClassRoutes[Info[n].class]
      BY <3>1 DEF ClassRoutes
    <3>3. QED
      BY <3>2
  <2>2. QED
    BY <2>1 DEF ClassRoutes
<1>6. /\ DOMAIN FileRoutes = {Info[n].file : n \in Impacted}
      /\ \A f \in DOMAIN FileRoutes : FileRoutes[f] # {}
  <2>1. ASSUME NEW n \in Impacted
        PROVE  FileRoutes[Info[n].file] # {}
    <3>1. PICK p \in WithClass(n) : TRUE
      BY <1>4
    <3>2. Append(p, Step(Info[n].file, "CONTAINS")) \in Extend(WithClass(n), Info[n].file, "CONTAINS")
      BY <3>1 DEF Extend
    <3>3. Extend(WithClass(n), Info[n].file, "CONTAINS") \subseteq FileRoutes[Info[n].file]
      BY DEF FileRoutes
    <3>4. QED
      BY <3>2, <3>3
  <2>2. QED
    BY <2>1 DEF FileRoutes
<1>7. DOMAIN routes' = Places /\ \A n \in DOMAIN routes' : routes'[n] # {}
  BY <1>1, <1>3, <1>5, <1>6 DEF Updated, Places
<1>8. DOMAIN down' = {}
  BY <1>1 DEF StartFits, EarlySteps, NoRoutes
<1>9. QED
  <2>1. step' \notin {"naming", "coverage", "more", "sites", "done"}
    BY <1>1
  <2>2. QED
    BY <1>1, <1>2, <1>7, <1>8, <2>1 DEF AllFits

(* Giving up reports nothing.                                              *)
LEMMA GivingUpReports ==
    ASSUME IInv, KnownFits, step \in EarlySteps, NEW reason, GiveUp(reason)
    PROVE  CallersFit' /\ KeptFits' /\ KnownFits' /\ AllFits'
<1>1. step' = "unresolved" /\ UNCHANGED <<items, down, stores>> /\ items = {}
  BY DEF GiveUp, Goto, progress, IInv, StartFits
<1>2. step' \notin LateSteps \cup EarlySteps
  BY <1>1 DEF LateSteps, EarlySteps
<1>3. KnownFits'
  BY <1>1, <1>2 DEF KnownFits, LabelOf
<1>4. QED
  BY <1>2, <1>3 DEF CallersFit, KeptFits, AllFits

LEMMA EarlyStepsReport ==
    ASSUME IInv, KnownFits, Resolve \/ Begin \/ Traverse \/ Fetch
    PROVE  CallersFit' /\ KeptFits' /\ KnownFits' /\ AllFits'
<1>1. step \in EarlySteps
  BY DEF Resolve, Begin, Traverse, Fetch, At, EarlySteps
<1>2. CASE \E reason : GiveUp(reason)
  BY <1>1, <1>2, GivingUpReports
<1>3. CASE Fetch /\ start \in Code
  BY <1>3, FetchReports, FetchKeepsRoutes, FetchIsKnown, PlacesAreRouted
<1>4. CASE /\ step' \in EarlySteps
           /\ UNCHANGED <<items, notes, down, stores>>
  <2>1. step' \notin LateSteps /\ items = {} /\ notes = {}
    BY <1>1, <1>4 DEF LateSteps, EarlySteps, IInv, StartFits, KnownFits
  <2>2. KnownFits'
    BY <1>4, <2>1 DEF KnownFits, LabelOf
  <2>3. QED
    BY <2>1, <2>2 DEF CallersFit, KeptFits, AllFits
<1>5. QED
  <2>1. Resolve => GiveUp("not one node") \/ (step' \in EarlySteps /\ UNCHANGED <<items, notes, down, stores>>)
    BY DEF Resolve, Goto, report, EarlySteps
  <2>2. Begin => GiveUp("not in the graph") \/ (step' \in EarlySteps /\ UNCHANGED <<items, notes, down, stores>>)
    BY DEF Begin, Goto, report, EarlySteps
  <2>3. Traverse => step' \in EarlySteps /\ UNCHANGED <<items, notes, down, stores>>
    BY DEF Traverse, Goto, report, EarlySteps
  <2>4. Fetch => GiveUp("not in the graph") \/ start \in Code
    BY DEF Fetch
  <2>5. QED
    BY <1>2, <1>3, <1>4, <2>1, <2>2, <2>3, <2>4

(* A graph that has grown since the analysis began is not at rest.         *)
LEMMA GrowthReports ==
    ASSUME IInv, CInv, Grow
    PROVE  CallersFit' /\ KeptFits' /\ KnownFits' /\ AllFits'
<1> USE DEF CInv
<1>1. /\ UNCHANGED <<request, step, start, found, kept, items, notes, routes, stores, down>>
      /\ edges \subseteq edges' /\ edges' # edges
      /\ seen' = IF step = "resolve" THEN edges' ELSE seen
  BY DEF Grow, progress, report
<1>2. CallersFit' /\ KeptFits'
  BY <1>1, ReportedStand
<1>3. KnownFits'
  BY GrownIsKnown
<1>4. CASE step \in LateSteps
  <2>1. seen' # edges'
    BY <1>1, <1>4 DEF TraversedFits, LateSteps
  <2>2. Places' = Places
    BY <1>1, PlacesStand
  <2>3. QED
    BY <1>1, <1>2, <1>3, <1>4, <2>1, <2>2 DEF AllFits
<1>5. CASE step \notin LateSteps
  BY <1>1, <1>2, <1>3, <1>5 DEF AllFits
<1>6. QED
  BY <1>4, <1>5

-----------------------------------------------------------------------------
LEMMA ReportFollows ==
    ASSUME IInv, CInv, [Next]_vars
    PROVE  CInv'
<1>1. CASE Next
  <2>1. TraversedFits'
    BY <1>1, TraversedKeeps DEF CInv
  <2>2. CallersFit' /\ KeptFits' /\ KnownFits' /\ AllFits'
    BY <1>1, GrowthReports, EarlyStepsReport, ServicesAreReported, TargetsAreReported, TablesAreReported,
       LinksAreReported, TestsAreReported, NamesAreReported, NotesAreReported DEF CInv, Next, Analyse
  <2>3. QED
    BY <2>1, <2>2 DEF CInv
<1>2. CASE UNCHANGED vars
  <2>1. /\ UNCHANGED <<edges, request, step, start, found, frontier, level, routes, stores, down>>
        /\ UNCHANGED <<kept, items, notes, seen>>
    BY <1>2 DEF vars, progress, report
  <2>2. CallersFit' /\ KeptFits'
    BY <2>1, ReportedStand DEF CInv
  <2>3. Depth' = Depth /\ Places' = Places
    BY <2>1, DepthStands, PlacesStand
  <2>4. TraversedFits'
    BY <2>1, <2>3 DEF CInv, TraversedFits, ClosedBelow
  <2>5. KnownFits'
    BY <2>1, KnownStands DEF CInv, KnownFits, LabelOf, Unknown, MorePaths
  <2>6. AllFits'
    <3>1. OwningServices' = OwningServices
      BY <2>1 DEF OwningServices, Within, Inside, From
    <3>2. \A way : Targets(way)' = Targets(way)
      BY <2>1, <2>3, <3>1 DEF Targets, From, LabelOf
    <3>3. Validating' = Validating /\ Beyond' = Beyond /\ Reported' = Reported
      BY <2>1, <2>3 DEF Validating, Rows, LabelOf, Beyond, Deepest, Reported
    <3>4. QED
      BY <2>1, <2>3, <3>1, <3>2, <3>3 DEF CInv, AllFits
  <2>7. QED
    BY <2>2, <2>4, <2>5, <2>6 DEF CInv
<1>3. QED
  BY <1>1, <1>2

LEMMA ReportBegins ==
    ASSUME Init
    PROVE  CInv
<1>1. step = "resolve" /\ step \notin LateSteps /\ seen = edges /\ items = {} /\ notes = {}
      /\ down = NoRoutes /\ stores = NoRoutes
  BY DEF Init, LateSteps
<1>2. DOMAIN down = {} /\ DOMAIN stores = {}
  BY <1>1 DEF NoRoutes
<1>3. QED
  BY <1>1, <1>2 DEF CInv, TraversedFits, CallersFit, KeptFits, KnownFits, AllFits

(* However ingestion adds to the graph between the queries: the traversal  *)
(* misses no caller the graph had when the analysis began, the report has  *)
(* every caller at its depth and, if it does not say otherwise, with all   *)
(* its routes, and of a graph at rest what each query has to report        *)
(* (code_graph.py, architecture.py, tests_impact.py).                      *)
THEOREM ReportIsComplete == Spec => []CInv
<1>1. Init => CInv
  BY ReportBegins
<1>2. IInv /\ CInv /\ [Next]_vars => CInv'
  BY ReportFollows
<1>3. QED
  BY <1>1, <1>2, InvariantHolds, PTL DEF Spec

-----------------------------------------------------------------------------
(***************************************************************************)
(* How far a caller is in a graph, and how deep it is in the traversal.    *)
(***************************************************************************)
Joined(near, graph) ==
    near \cup {e.start : e \in {d \in graph : d.type = "CALLS" /\ d.end \in near}}
ReachAt(f, j, graph) == IF j = 0 THEN {start} ELSE Joined(f[j - 1], graph)

(* The recursion of CallersWithin ends, whatever its bound.                *)
LEMMA ReachExists ==
    ASSUME NEW graph
    PROVE  \A k \in Nat : \E f : f = [j \in 0 .. k |-> ReachAt(f, j, graph)]
<1> DEFINE Good(k) == \E f : f = [j \in 0 .. k |-> ReachAt(f, j, graph)]
           Bad == {k \in Nat : ~Good(k)}
<1>1. SUFFICES ASSUME Bad # {}
               PROVE  FALSE
  OBVIOUS
<1>2. PICK k \in Bad : \A j \in Bad : k <= j
  <2>1. Bad \subseteq Nat
    OBVIOUS
  <2> HIDE DEF Bad
  <2>2. QED
    BY <1>1, <2>1, SmallestExists
<1>3. k \in Nat /\ ~Good(k)
  OBVIOUS
<1>4. CASE k = 0
  <2> DEFINE f == [j \in 0 .. 0 |-> {start}]
  <2>1. \A j \in 0 .. 0 : ReachAt(f, j, graph) = {start}
    BY DEF ReachAt
  <2>2. f = [j \in 0 .. 0 |-> ReachAt(f, j, graph)]
    BY <2>1
  <2> HIDE DEF f
  <2>3. QED
    BY <1>3, <1>4, <2>2
<1>5. CASE k # 0
  <2>1. k - 1 \in Nat
    BY <1>3, <1>5
  <2>2. k - 1 \notin Bad
    BY <1>2, <1>3, <2>1
  <2>3. PICK f : f = [j \in 0 .. k - 1 |-> ReachAt(f, j, graph)]
    BY <2>1, <2>2
  <2> DEFINE g == [j \in 0 .. k |-> ReachAt(f, j, graph)]
  <2>4. ASSUME NEW j \in 0 .. k
        PROVE  ReachAt(g, j, graph) = ReachAt(f, j, graph)
    <3>1. CASE j = 0
      BY <3>1 DEF ReachAt
    <3>2. CASE j # 0
      <4>1. j - 1 \in 0 .. k /\ j - 1 \in 0 .. k - 1
        BY <1>3, <3>2
      <4>2. g[j - 1] = f[j - 1]
        BY <2>3, <4>1
      <4> HIDE DEF g
      <4>3. QED
        BY <3>2, <4>2 DEF ReachAt
    <3>3. QED
      BY <3>1, <3>2
  <2>5. g = [j \in 0 .. k |-> ReachAt(g, j, graph)]
    BY <2>4
  <2> HIDE DEF g
  <2>6. QED
    BY <1>3, <2>5
<1>6. QED
  BY <1>4, <1>5

LEMMA ReachIsOne ==
    ASSUME NEW graph, NEW k \in Nat, NEW f, \A j \in 0 .. k : f[j] = ReachAt(f, j, graph),
           NEW g, \A j \in 0 .. k : g[j] = ReachAt(g, j, graph)
    PROVE  \A j \in 0 .. k : f[j] = g[j]
<1> DEFINE Bad == {j \in 0 .. k : f[j] # g[j]}
<1>1. SUFFICES ASSUME Bad # {}
               PROVE  FALSE
  OBVIOUS
<1>2. PICK j \in Bad : \A m \in Bad : j <= m
  <2>1. Bad \subseteq Nat
    OBVIOUS
  <2> HIDE DEF Bad
  <2>2. QED
    BY <1>1, <2>1, SmallestExists
<1>3. j \in 0 .. k /\ f[j] # g[j]
  OBVIOUS
<1>4. f[j] = ReachAt(f, j, graph) /\ g[j] = ReachAt(g, j, graph)
  BY <1>3
<1>5. CASE j = 0
  BY <1>3, <1>4, <1>5 DEF ReachAt
<1>6. CASE j # 0
  <2>1. j - 1 \in 0 .. k /\ j - 1 \notin Bad
    BY <1>2, <1>3, <1>6
  <2>2. f[j - 1] = g[j - 1]
    BY <2>1
  <2>3. QED
    BY <1>3, <1>4, <1>6, <2>2 DEF ReachAt
<1>7. QED
  BY <1>5, <1>6

LEMMA WithinUnfolds ==
    ASSUME NEW graph
    PROVE  /\ CallersWithin(0, graph) = {start}
           /\ \A k \in Nat : CallersWithin(k + 1, graph) = Joined(CallersWithin(k, graph), graph)
<1> DEFINE Reach(k) == CHOOSE f : f = [j \in 0 .. k |-> ReachAt(f, j, graph)]
<1>1. \A k \in Nat : Reach(k) = [j \in 0 .. k |-> ReachAt(Reach(k), j, graph)]
  BY ReachExists
<1>2. \A k : CallersWithin(k, graph) = Reach(k)[k]
  BY DEF CallersWithin, ReachAt, Joined
<1> HIDE DEF Reach
<1>3. CallersWithin(0, graph) = {start}
  <2>1. PICK f : f = Reach(0)
    OBVIOUS
  <2>2. f = [j \in 0 .. 0 |-> ReachAt(f, j, graph)]
    BY <1>1, <2>1
  <2>3. f[0] = {start}
    BY <2>2 DEF ReachAt
  <2>4. QED
    BY <1>2, <2>1, <2>3
<1>4. ASSUME NEW k \in Nat
      PROVE  CallersWithin(k + 1, graph) = Joined(CallersWithin(k, graph), graph)
  <2>1. PICK f : f = Reach(k + 1)
    OBVIOUS
  <2>2. PICK g : g = Reach(k)
    OBVIOUS
  <2>3. f = [j \in 0 .. k + 1 |-> ReachAt(f, j, graph)] /\ g = [j \in 0 .. k |-> ReachAt(g, j, graph)]
    BY <1>1, <2>1, <2>2
  <2>4. f[k] = g[k]
    <3>1. \A j \in 0 .. k : f[j] = ReachAt(f, j, graph)
      BY <2>3
    <3>2. \A j \in 0 .. k : g[j] = ReachAt(g, j, graph)
      BY <2>3
    <3>3. \A j \in 0 .. k : f[j] = g[j]
      BY <3>1, <3>2, ReachIsOne
    <3>4. QED
      BY <3>3
  <2>5. f[k + 1] = Joined(f[k], graph)
    <3>1. k + 1 \in 0 .. k + 1 /\ k + 1 # 0 /\ (k + 1) - 1 = k
      OBVIOUS
    <3>2. f[k + 1] = ReachAt(f, k + 1, graph)
      BY <2>3, <3>1
    <3>3. QED
      BY <3>1, <3>2 DEF ReachAt
  <2>6. QED
    BY <1>2, <2>1, <2>2, <2>4, <2>5
<1>5. QED
  BY <1>3, <1>4

(* A caller is as many calls away as it is deep.                           *)
LEMMA DeepIsWithin ==
    ASSUME TypesFit, FoundFits
    PROVE  \A n \in DOMAIN Depth : n \in CallersWithin(Depth[n], edges)
<1> DEFINE Bad == {Depth[n] : n \in {m \in DOMAIN Depth : m \notin CallersWithin(Depth[m], edges)}}
<1>1. SUFFICES ASSUME Bad # {}
               PROVE  FALSE
  OBVIOUS
<1>2. PICK d \in Bad : \A j \in Bad : d <= j
  <2>1. Bad \subseteq Nat
    BY DepthFacts, LimitsAreNat
  <2> HIDE DEF Bad
  <2>2. QED
    BY <1>1, <2>1, SmallestExists
<1>3. PICK n \in DOMAIN Depth : n \notin CallersWithin(Depth[n], edges) /\ Depth[n] = d
  OBVIOUS
<1>4. n # start
  BY <1>3, WithinUnfolds, DepthFacts
<1>5. PICK f \in found : f.edge.start = n /\ f.depth = Depth[n]
  BY <1>3, <1>4, DepthFacts
<1>6. /\ f.edge \in edges /\ f.edge.type = "CALLS" /\ f.edge.end \in DOMAIN Depth
      /\ Depth[f.edge.end] = d - 1 /\ d - 1 \in Nat /\ d \in Nat
  BY <1>3, <1>5, LimitsAreNat DEF FoundFits
<1>7. d - 1 \notin Bad
  BY <1>2, <1>6
<1>8. f.edge.end \in CallersWithin(d - 1, edges)
  BY <1>6, <1>7
<1>9. n \in Joined(CallersWithin(d - 1, edges), edges)
  BY <1>5, <1>6, <1>8 DEF Joined
<1>10. CallersWithin((d - 1) + 1, edges) = Joined(CallersWithin(d - 1, edges), edges)
  BY <1>6, WithinUnfolds
<1>11. (d - 1) + 1 = d
  BY <1>6
<1>12. QED
  BY <1>3, <1>9, <1>10, <1>11

(* The rows of a node that was expanded have its callers one level deeper. *)
LEMMA ClosedReaches ==
    ASSUME TypesFit, FoundFits, ClosedBelow(request.maxDepth),
           NEW e \in seen, e.type = "CALLS", e.end \in DOMAIN Depth, Depth[e.end] < request.maxDepth
    PROVE  /\ [edge |-> e, depth |-> Depth[e.end] + 1] \in found
           /\ e.start \in DOMAIN Depth /\ Depth[e.end] \in Nat /\ Depth[e.start] \in Nat
           /\ Depth[e.start] <= Depth[e.end] + 1
<1>1. PICK f \in found : f = [edge |-> e, depth |-> Depth[e.end] + 1]
  BY DEF ClosedBelow
<1>2. f.edge.start = e.start /\ f.depth = Depth[e.end] + 1
  BY <1>1
<1>3. e.start \in DOMAIN Depth
  BY <1>2, DepthFacts
<1>4. Depth[e.end] \in Nat /\ Depth[e.start] \in Nat
  BY <1>3, DepthFacts, LimitsAreNat
<1>5. Depth[e.start] <= Depth[e.end] + 1
  BY <1>2, <1>3, <1>4, DepthFacts
<1>6. QED
  BY <1>1, <1>3, <1>4, <1>5

LEMMA WithinIsDeep ==
    ASSUME TypesFit, FoundFits, ClosedBelow(request.maxDepth)
    PROVE  \A d \in 0 .. request.maxDepth : \A n \in CallersWithin(d, seen) :
               n \in DOMAIN Depth /\ Depth[n] <= d
<1> DEFINE Good(d) == \A n \in CallersWithin(d, seen) : n \in DOMAIN Depth /\ Depth[n] <= d
           Bad == {d \in 0 .. request.maxDepth : ~Good(d)}
<1>1. SUFFICES ASSUME Bad # {}
               PROVE  FALSE
  OBVIOUS
<1>2. PICK d \in Bad : \A j \in Bad : d <= j
  <2>1. Bad \subseteq Nat
    BY LimitsAreNat
  <2> HIDE DEF Bad
  <2>2. QED
    BY <1>1, <2>1, SmallestExists
<1>3. d \in 0 .. request.maxDepth /\ d \in Nat /\ ~Good(d) /\ request.maxDepth \in Nat
  BY LimitsAreNat
<1>4. CASE d = 0
  BY <1>3, <1>4, WithinUnfolds, DepthFacts
<1>5. CASE d # 0
  <2>1. d - 1 \in 0 .. request.maxDepth /\ d - 1 \in Nat /\ (d - 1) + 1 = d
    BY <1>3, <1>5
  <2>2. Good(d - 1)
    BY <1>2, <1>3, <2>1
  <2>3. CallersWithin(d, seen) = Joined(CallersWithin(d - 1, seen), seen)
    BY <2>1, WithinUnfolds
  <2>4. ASSUME NEW n \in CallersWithin(d, seen)
        PROVE  n \in DOMAIN Depth /\ Depth[n] <= d
    <3>1. CASE n \in CallersWithin(d - 1, seen)
      <4>1. n \in DOMAIN Depth /\ Depth[n] <= d - 1
        BY <2>2, <3>1
      <4>2. Depth[n] \in Nat
        BY <4>1, DepthFacts, LimitsAreNat
      <4>3. QED
        BY <1>3, <4>1, <4>2
    <3>2. CASE n \notin CallersWithin(d - 1, seen)
      <4>1. PICK e \in seen : e.type = "CALLS" /\ e.end \in CallersWithin(d - 1, seen) /\ n = e.start
        BY <2>3, <2>4, <3>2 DEF Joined
      <4>2. e.end \in DOMAIN Depth /\ Depth[e.end] <= d - 1
        BY <2>2, <4>1
      <4>3. Depth[e.end] \in Nat
        BY <4>2, DepthFacts, LimitsAreNat
      <4>4. Depth[e.end] < request.maxDepth
        BY <1>3, <4>2, <4>3
      <4>5. n \in DOMAIN Depth /\ Depth[n] \in Nat /\ Depth[n] <= Depth[e.end] + 1
        BY <4>1, <4>2, <4>4, ClosedReaches
      <4>6. QED
        BY <1>3, <4>2, <4>3, <4>5
    <3>3. QED
      BY <3>1, <3>2
  <2>5. QED
    BY <1>3, <2>4
<1>6. QED
  BY <1>4, <1>5

(* If nobody calls the deepest, the callers are all there are.             *)
LEMMA AllIsDeep ==
    ASSUME TypesFit, FoundFits, ClosedBelow(request.maxDepth), Beyond = {}, seen = edges
    PROVE  \A k \in Nat : CallersWithin(k, edges) \subseteq DOMAIN Depth
<1> DEFINE Bad == {k \in Nat : ~(CallersWithin(k, edges) \subseteq DOMAIN Depth)}
<1>1. SUFFICES ASSUME Bad # {}
               PROVE  FALSE
  OBVIOUS
<1>2. PICK k \in Bad : \A j \in Bad : k <= j
  <2>1. Bad \subseteq Nat
    OBVIOUS
  <2> HIDE DEF Bad
  <2>2. QED
    BY <1>1, <2>1, SmallestExists
<1>3. k \in Nat /\ ~(CallersWithin(k, edges) \subseteq DOMAIN Depth)
  OBVIOUS
<1>4. CASE k = 0
  BY <1>3, <1>4, WithinUnfolds, DepthFacts
<1>5. CASE k # 0
  <2>1. k - 1 \in Nat /\ (k - 1) + 1 = k
    BY <1>3, <1>5
  <2>2. CallersWithin(k - 1, edges) \subseteq DOMAIN Depth
    BY <1>2, <1>3, <2>1
  <2>3. CallersWithin(k, edges) = Joined(CallersWithin(k - 1, edges), edges)
    BY <2>1, WithinUnfolds
  <2>4. ASSUME NEW e \in edges, e.type = "CALLS", e.end \in DOMAIN Depth
        PROVE  e.start \in DOMAIN Depth
    <3>1. Depth[e.end] \in Nat /\ Depth[e.end] <= request.maxDepth /\ request.maxDepth \in Nat
      BY <2>4, DepthFacts, LimitsAreNat
    <3>2. CASE Depth[e.end] = request.maxDepth
      BY <2>4, <3>2 DEF Beyond, Deepest, Rows
    <3>3. CASE Depth[e.end] # request.maxDepth
      <4>1. Depth[e.end] < request.maxDepth
        BY <3>1, <3>3
      <4>2. QED
        BY <2>4, <4>1, ClosedReaches
    <3>4. QED
      BY <3>2, <3>3
  <2>5. QED
    BY <1>3, <2>2, <2>3, <2>4 DEF Joined
<1>6. QED
  BY <1>4, <1>5

LEMMA CallersFromInvariant ==
    ASSUME IInv, CInv
    PROVE  CallersAreInBounds
<1> USE DEF IInv, CInv
<1> DEFINE callers == {i \in items : /\ i.category \in {"DIRECT_CALLER", "INDIRECT_CALLER", "TEST"}
                                     /\ i.id \in Code}
<1>1. SUFFICES ASSUME step \in {"services", "done"}
               PROVE  /\ \A i \in callers :
                            /\ i.depth <= request.maxDepth /\ i.id # start
                            /\ i.id \in CallersWithin(i.depth, edges)
                            /\ i.category # "TEST" => (i.category = "DIRECT_CALLER" <=> i.depth = 1)
                      /\ \A d \in 1 .. request.maxDepth : \A n \in CallersWithin(d, seen) \ {start} :
                            \E i \in callers : i.id = n /\ i.depth <= d
  BY DEF CallersAreInBounds
<1>2. step \in LateSteps /\ request.maxDepth \in Nat
  BY <1>1, LimitsAreNat DEF LateSteps
<1>3. ASSUME NEW i \in callers
      PROVE  /\ i.depth <= request.maxDepth /\ i.id # start
             /\ i.id \in CallersWithin(i.depth, edges)
             /\ i.category # "TEST" => (i.category = "DIRECT_CALLER" <=> i.depth = 1)
  <2>1. i.id \in DOMAIN Depth \ {start} /\ i.category = CategoryOf(i.id) /\ i.depth = Depth[i.id]
    BY <1>2 DEF CallersFit
  <2>2. i.depth <= request.maxDepth
    BY <1>2, <2>1, DepthFacts
  <2>3. i.id \in CallersWithin(i.depth, edges)
    BY <2>1, DeepIsWithin
  <2>4. i.category # "TEST" => (i.category = "DIRECT_CALLER" <=> i.depth = 1)
    BY <2>1 DEF CategoryOf
  <2>5. QED
    BY <2>1, <2>2, <2>3, <2>4
<1>4. ASSUME NEW d \in 1 .. request.maxDepth, NEW n \in CallersWithin(d, seen) \ {start}
      PROVE  \E i \in callers : i.id = n /\ i.depth <= d
  <2>1. d \in 0 .. request.maxDepth /\ ClosedBelow(request.maxDepth)
    BY <1>2 DEF TraversedFits
  <2>2. n \in DOMAIN Depth \ {start} /\ Depth[n] <= d
    BY <2>1, WithinIsDeep
  <2>3. n \in Code
    BY <1>2, <2>2, DepthFacts DEF StartFits
  <2>4. PICK i \in items : i.id = n /\ i.category = CategoryOf(n)
    BY <1>2, <2>2 DEF CallersFit
  <2>5. i.category \in {"DIRECT_CALLER", "INDIRECT_CALLER", "TEST"}
    BY <2>2, <2>4 DEF CategoryOf
  <2>6. i.depth = Depth[n]
    BY <1>2, <2>3, <2>4 DEF CallersFit
  <2>7. QED
    BY <2>2, <2>3, <2>4, <2>5, <2>6
<1>5. QED
  BY <1>1, <1>3, <1>4

-----------------------------------------------------------------------------
LEMMA ResolvedFromInvariant ==
    ASSUME IInv, CInv
    PROVE  ResolvedMeansAll
<1> USE DEF IInv, CInv
<1> DEFINE all == CallersWithin(Cardinality(Code), edges)
           owners == {n \in all : n = start \/ ~IsTest(n)}
           places == owners \cup {Info[n].class : n \in owners} \cup {Info[n].file : n \in owners}
           services == {s \in DOMAIN Label : Label[s] = "Service" /\ Within(s) \cap places # {}}
<1>1. SUFFICES ASSUME step = "done", notes = {}, seen = edges
               PROVE  /\ all \subseteq Reported \cup {start}
                      /\ services \subseteq Reported
                      /\ \A way \in Ways :
                            {e.end : e \in {d \in From(places \cup services, {way[1]}) :
                                               LabelOf(d.end) = way[2]}} \subseteq Reported
                      /\ \A e \in edges : e.type = "VALIDATES" /\ e.end \in places /\ LabelOf(e.start) = "Test"
                                             => e.start \in Reported
  BY DEF ResolvedMeansAll, Status, At, Reported
<1>2. /\ step \in LateSteps /\ start \in Code /\ ClosedBelow(request.maxDepth) /\ Beyond = {}
      /\ OwningServices \subseteq Reported /\ DOMAIN routes = Places
      /\ \A way \in Ways : Targets(way) \subseteq Reported
      /\ \A e \in Validating : e.start \in Reported
  BY <1>1 DEF StartFits, TraversedFits, AllFits, LateSteps
<1>3. all \subseteq DOMAIN Depth
  <2>1. Cardinality(Code) \in Nat
    BY GraphAssumption, FS_CardinalityType
  <2>2. QED
    BY <1>1, <1>2, <2>1, AllIsDeep
<1> HIDE DEF all
<1>4. all \subseteq Reported \cup {start}
  BY <1>2, <1>3 DEF CallersFit, Reported
<1>5. owners \subseteq Impacted
  BY <1>3 DEF Impacted, CategoryOf
<1> HIDE DEF owners
<1>6. places \subseteq Places \cup {"none"}
  BY <1>5 DEF Places, Methods
<1>7. \A e \in edges : e.start # "none" /\ e.end # "none"
  BY EdgeFacts, CodeAssumption
<1>8. services \subseteq OwningServices
  <2>1. \A s : "none" \notin Within(s)
    BY <1>7 DEF Within, Inside, From
  <2>2. QED
    BY <1>2, <1>6, <2>1 DEF OwningServices
<1> HIDE DEF places, services
<1>9. ASSUME NEW way \in Ways
      PROVE  {e.end : e \in {d \in From(places \cup services, {way[1]}) : LabelOf(d.end) = way[2]}} \subseteq Reported
  <2>1. From(places \cup services, {way[1]}) \subseteq From(Places \cup OwningServices, {way[1]})
    BY <1>6, <1>7, <1>8 DEF From
  <2>2. {e.end : e \in {d \in From(places \cup services, {way[1]}) : LabelOf(d.end) = way[2]}} \subseteq Targets(way)
    BY <2>1 DEF Targets
  <2>3. QED
    BY <1>2, <2>2
<1>10. ASSUME NEW e \in edges, e.type = "VALIDATES", e.end \in places, LabelOf(e.start) = "Test"
       PROVE  e.start \in Reported
  <2>1. e \in Validating
    BY <1>6, <1>7, <1>10 DEF Validating, Rows
  <2>2. QED
    BY <1>2, <2>1
<1>11. QED
  BY <1>1, <1>2, <1>4, <1>8, <1>9, <1>10

(* What the result says of itself is so: RESOLVED is said of a graph at    *)
(* rest only if every transitive caller and all that every impacted owner  *)
(* has is reported, and no category is called unknown in which something   *)
(* was found (_has_more_callers, assess_coverage).                         *)
THEOREM CoverageAlwaysHonest == Spec => []CoverageIsHonest
<1>1. IInv /\ CInv => CoverageIsHonest
  <2> SUFFICES ASSUME IInv, CInv
               PROVE  CoverageIsHonest
    OBVIOUS
  <2>1. ResolvedMeansAll
    BY ResolvedFromInvariant
  <2>2. KnownWhereFound
    BY DEF CInv, KnownFits, KnownWhereFound, At, LateSteps, Unknown
  <2>3. QED
    BY <2>1, <2>2 DEF CoverageIsHonest
<1>2. QED
  BY <1>1, InvariantHolds, ReportIsComplete, PTL

-----------------------------------------------------------------------------
(***************************************************************************)
(* The shortest chains of calls of a graph, and the routes that are kept.  *)
(***************************************************************************)
CallsAt(f, k) ==
    IF k = 0 THEN {<<start>>}
    ELSE UNION {{Append(c, e.start) : e \in Rows({"CALLS"}, {c[k]})} : c \in f[k - 1]}

LEMMA CallsExist ==
    \A k \in Nat : \E f : f = [j \in 0 .. k |-> CallsAt(f, j)]
<1> DEFINE Good(k) == \E f : f = [j \in 0 .. k |-> CallsAt(f, j)]
           Bad == {k \in Nat : ~Good(k)}
<1>1. SUFFICES ASSUME Bad # {}
               PROVE  FALSE
  OBVIOUS
<1>2. PICK k \in Bad : \A j \in Bad : k <= j
  <2>1. Bad \subseteq Nat
    OBVIOUS
  <2> HIDE DEF Bad
  <2>2. QED
    BY <1>1, <2>1, SmallestExists
<1>3. k \in Nat /\ ~Good(k)
  OBVIOUS
<1>4. CASE k = 0
  <2> DEFINE f == [j \in 0 .. 0 |-> {<<start>>}]
  <2>1. \A j \in 0 .. 0 : CallsAt(f, j) = {<<start>>}
    BY DEF CallsAt
  <2>2. f = [j \in 0 .. 0 |-> CallsAt(f, j)]
    BY <2>1
  <2> HIDE DEF f
  <2>3. QED
    BY <1>3, <1>4, <2>2
<1>5. CASE k # 0
  <2>1. k - 1 \in Nat
    BY <1>3, <1>5
  <2>2. k - 1 \notin Bad
    BY <1>2, <1>3, <2>1
  <2>3. PICK f : f = [j \in 0 .. k - 1 |-> CallsAt(f, j)]
    BY <2>1, <2>2
  <2> DEFINE g == [j \in 0 .. k |-> CallsAt(f, j)]
  <2>4. ASSUME NEW j \in 0 .. k
        PROVE  CallsAt(g, j) = CallsAt(f, j)
    <3>1. CASE j = 0
      BY <3>1 DEF CallsAt
    <3>2. CASE j # 0
      <4>1. j - 1 \in 0 .. k /\ j - 1 \in 0 .. k - 1
        BY <1>3, <3>2
      <4>2. g[j - 1] = f[j - 1]
        BY <2>3, <4>1
      <4> HIDE DEF g
      <4>3. QED
        BY <3>2, <4>2 DEF CallsAt
    <3>3. QED
      BY <3>1, <3>2
  <2>5. g = [j \in 0 .. k |-> CallsAt(g, j)]
    BY <2>4
  <2> HIDE DEF g
  <2>6. QED
    BY <1>3, <2>5
<1>6. QED
  BY <1>4, <1>5

LEMMA OneMoreCall ==
    ASSUME NEW f, NEW k \in Nat, k # 0, NEW c
    PROVE  c \in CallsAt(f, k) <=>
               \E b \in f[k - 1] : \E e \in edges : e.type = "CALLS" /\ e.end = b[k] /\ c = Append(b, e.start)
<1> DEFINE Longer(b) == {Append(b, e.start) : e \in Rows({"CALLS"}, {b[k]})}
<1>1. CallsAt(f, k) = UNION {Longer(b) : b \in f[k - 1]}
  BY DEF CallsAt
<1>2. ASSUME NEW b
      PROVE  c \in Longer(b) <=> \E e \in edges : e.type = "CALLS" /\ e.end = b[k] /\ c = Append(b, e.start)
  BY DEF Rows
<1> HIDE DEF Longer
<1>3. c \in UNION {Longer(b) : b \in f[k - 1]} <=> \E b \in f[k - 1] : c \in Longer(b)
  OBVIOUS
<1>4. QED
  BY <1>1, <1>2, <1>3

(* A chain of k calls leads to a caller at most k deep.                    *)
LEMMA CallsLead ==
    ASSUME TypesFit, FoundFits, ClosedBelow(request.maxDepth), seen = edges,
           NEW m \in 0 .. request.maxDepth, NEW f, \A j \in 0 .. m : f[j] = CallsAt(f, j)
    PROVE  \A k \in 0 .. m : \A c \in f[k] :
               c \in Seq(DOMAIN Depth) /\ Len(c) = k + 1 /\ Depth[c[k + 1]] <= k
<1> DEFINE WithinDepth(k, c) == c \in Seq(DOMAIN Depth) /\ Len(c) = k + 1 /\ Depth[c[k + 1]] <= k
           Bad == {k \in 0 .. m : ~\A c \in f[k] : WithinDepth(k, c)}
<1>1. SUFFICES ASSUME Bad # {}
               PROVE  FALSE
  OBVIOUS
<1>2. PICK k \in Bad : \A j \in Bad : k <= j
  <2>1. Bad \subseteq Nat
    OBVIOUS
  <2> HIDE DEF Bad
  <2>2. QED
    BY <1>1, <2>1, SmallestExists
<1>3. /\ k \in 0 .. m /\ k \in Nat /\ m <= request.maxDepth /\ request.maxDepth \in Nat
      /\ ~\A c \in f[k] : WithinDepth(k, c)
  BY LimitsAreNat
<1>4. f[k] = CallsAt(f, k)
  BY <1>3
<1>5. CASE k = 0
  <2>1. f[k] = {<<start>>}
    BY <1>4, <1>5 DEF CallsAt
  <2>2. <<start>> \in Seq(DOMAIN Depth) /\ Len(<<start>>) = 1 /\ <<start>>[1] = start /\ Depth[start] = 0
    BY DepthFacts
  <2>3. QED
    BY <1>3, <1>5, <2>1, <2>2
<1>6. CASE k # 0
  <2>1. k - 1 \in 0 .. m /\ (k - 1) + 1 = k /\ k - 1 \notin Bad
    BY <1>2, <1>3, <1>6
  <2>2. \A b \in f[k - 1] : b \in Seq(DOMAIN Depth) /\ Len(b) = k /\ Depth[b[k]] <= k - 1
    BY <2>1
  <2>3. ASSUME NEW c \in f[k]
        PROVE  WithinDepth(k, c)
    <3>1. PICK b \in f[k - 1] : \E e \in edges : e.type = "CALLS" /\ e.end = b[k] /\ c = Append(b, e.start)
      BY <1>3, <1>4, <1>6, <2>3, OneMoreCall
    <3>2. PICK e \in seen : e.type = "CALLS" /\ e.end = b[k] /\ c = Append(b, e.start)
      BY <3>1
    <3>3. b \in Seq(DOMAIN Depth) /\ Len(b) = k /\ Depth[b[k]] <= k - 1
      BY <2>2, <3>1
    <3>4. b[k] \in DOMAIN Depth
      <4>1. k \in 1 .. Len(b)
        BY <1>3, <1>6, <3>3
      <4>2. QED
        BY <3>3, <4>1, ElementOfSeq
    <3>5. Depth[b[k]] \in Nat
      BY <3>4, DepthFacts, LimitsAreNat
    <3>6. Depth[e.end] < request.maxDepth
      BY <1>3, <3>2, <3>3, <3>5
    <3>7. e.start \in DOMAIN Depth /\ Depth[e.start] \in Nat /\ Depth[e.start] <= Depth[e.end] + 1
      BY <3>2, <3>4, <3>6, ClosedReaches
    <3>8. Depth[e.start] <= k
      BY <1>3, <3>2, <3>3, <3>5, <3>7
    <3>9. c \in Seq(DOMAIN Depth) /\ Len(c) = k + 1 /\ c[k + 1] = e.start
      BY <3>2, <3>3, <3>7, AppendProperties
    <3>10. QED
      BY <3>8, <3>9
  <2>4. QED
    BY <1>3, <2>3
<1>7. QED
  BY <1>5, <1>6

(* The nodes of a path.                                                    *)
NodesOf(p) == [j \in 1 .. Len(p) |-> p[j][1]]

LEMMA NodesExtend ==
    ASSUME NEW p \in Seq(Steps), p # <<>>, NEW n \in Names, NEW t \in Relations
    PROVE  NodesOf(Append(p, Step(n, t))) = Append(NodesOf(p), n)
<1>1. PICK q : q = Append(p, Step(n, t))
  OBVIOUS
<1>2. Step(n, t) \in Steps /\ Step(n, t)[1] = n
  BY DEF Step, Steps
<1>3. /\ Len(q) = Len(p) + 1 /\ q[Len(p) + 1] = Step(n, t)
      /\ \A i \in 1 .. Len(p) : q[i] = p[i]
      /\ Len(p) \in Nat
  BY <1>1, <1>2, AppendedTo
<1>4. \A i \in 1 .. Len(p) : p[i][1] \in Names
  BY ElementOfSeq DEF Steps
<1>5. NodesOf(p) \in Seq(Names) /\ Len(NodesOf(p)) = Len(p)
  BY <1>3, <1>4, SeqDef DEF NodesOf
<1>6. /\ Append(NodesOf(p), n) \in Seq(Names) /\ Len(Append(NodesOf(p), n)) = Len(p) + 1
      /\ Append(NodesOf(p), n)[Len(p) + 1] = n
      /\ \A i \in 1 .. Len(p) : Append(NodesOf(p), n)[i] = p[i][1]
  <2>1. \A i \in 1 .. Len(p) : NodesOf(p)[i] = p[i][1]
    BY DEF NodesOf
  <2>2. QED
    BY <1>5, <2>1, AppendProperties
<1>7. \A i \in 1 .. Len(p) + 1 : q[i][1] = Append(NodesOf(p), n)[i]
  <2>1. ASSUME NEW i \in 1 .. Len(p) + 1
        PROVE  q[i][1] = Append(NodesOf(p), n)[i]
    <3>1. CASE i = Len(p) + 1
      BY <1>2, <1>3, <1>6, <3>1
    <3>2. CASE i # Len(p) + 1
      <4>1. i \in 1 .. Len(p)
        BY <1>3, <3>2
      <4>2. QED
        BY <1>3, <1>6, <4>1
    <3>3. QED
      BY <3>1, <3>2
  <2>2. QED
    BY <2>1
<1>8. NodesOf(q) = Append(NodesOf(p), n)
  <2>1. NodesOf(q) = [i \in 1 .. Len(p) + 1 |-> q[i][1]]
    BY <1>3 DEF NodesOf
  <2>2. Append(NodesOf(p), n) = [i \in 1 .. Len(p) + 1 |-> Append(NodesOf(p), n)[i]]
    BY <1>6, LenProperties
  <2>3. QED
    BY <1>7, <2>1, <2>2
<1>9. QED
  BY <1>1, <1>8

(* Where no limit was reached, the chains of a node are all the chains of  *)
(* its predecessors, with one more call.                                   *)
LEMMA WholeRoutes ==
    ASSUME TypesFit, FoundFits, start \in Code, ~ChainsTruncated(start, Depth, found, request.maxPaths),
           NEW n \in DOMAIN Depth, n # start
    PROVE  CodeRoutes[n] = {Append(c, Step(n, "CALLS")) :
                               c \in UNION {CodeRoutes[p] : p \in Predecessors(Depth, found, n)}}
<1> DEFINE P == Predecessors(Depth, found, n)
           whole == UNION {CodeRoutes[p] : p \in P}
           longer == {Append(c, Step(n, "CALLS")) : c \in whole}
<1>1. CodeRoutes[n] = AtMost(request.maxPaths, longer)
  <2>1. CodeRoutes = [m \in DOMAIN Depth |-> ChainsAt(CodeRoutes, m)]
    BY ChainsUnfold
  <2>2. PICK chains : chains = CodeRoutes
    OBVIOUS
  <2>3. chains[n] = ChainsAt(chains, n)
    BY <2>1, <2>2
  <2>4. QED
    BY <2>2, <2>3 DEF ChainsAt
<1>2. ~(Cardinality(whole) > request.maxPaths)
  BY DEF ChainsTruncated, CodeRoutes
<1>3. IsFiniteSet(whole)
  <2>1. IsFiniteSet(P) /\ \A p \in P : p \in DOMAIN Depth
    BY PredecessorsFit
  <2> HIDE DEF P
  <2>2. \A p \in P : IsFiniteSet(CodeRoutes[p])
    BY <2>1, CodeRoutesFit DEF Chained, LeadTo
  <2>3. QED
    BY <2>1, <2>2, UnionIsFinite
<1> HIDE DEF whole
<1>4. IsFiniteSet(longer) /\ Cardinality(longer) <= Cardinality(whole)
  <2> DEFINE f == [c \in whole |-> Append(c, Step(n, "CALLS"))]
  <2>1. f \in Surjection(whole, longer)
    BY DEF Surjection
  <2> HIDE DEF f, longer
  <2>2. QED
    BY <1>3, <2>1, FS_Surjection
<1> HIDE DEF longer
<1>5. Cardinality(longer) <= request.maxPaths
  <2>1. Cardinality(longer) \in Nat /\ Cardinality(whole) \in Nat /\ request.maxPaths \in Nat
    BY <1>3, <1>4, FS_CardinalityType, LimitsAreNat
  <2>2. QED
    BY <1>2, <1>4, <2>1
<1>6. CodeRoutes[n] = longer
  BY <1>1, <1>5 DEF AtMost
<1>7. QED
  BY <1>6 DEF longer, whole

(* Of a graph at rest, the routes to a caller are its shortest chains.     *)
LEMMA RoutesAreChains ==
    ASSUME TypesFit, FoundFits, start \in Code, ClosedBelow(request.maxDepth), seen = edges,
           ~ChainsTruncated(start, Depth, found, request.maxPaths),
           NEW m \in 0 .. request.maxDepth, NEW f, \A j \in 0 .. m : f[j] = CallsAt(f, j)
    PROVE  \A k \in 0 .. m : \A n \in DOMAIN Depth :
               Depth[n] = k => {NodesOf(p) : p \in CodeRoutes[n]} = {c \in f[k] : c[k + 1] = n}
<1> DEFINE Same(k, n) == {NodesOf(p) : p \in CodeRoutes[n]} = {c \in f[k] : c[k + 1] = n}
           Bad == {k \in 0 .. m : \E n \in DOMAIN Depth : Depth[n] = k /\ ~Same(k, n)}
<1>1. SUFFICES ASSUME Bad # {}
               PROVE  FALSE
  OBVIOUS
<1>2. PICK k \in Bad : \A j \in Bad : k <= j
  <2>1. Bad \subseteq Nat
    OBVIOUS
  <2> HIDE DEF Bad
  <2>2. QED
    BY <1>1, <2>1, SmallestExists
<1>3. k \in 0 .. m /\ k \in Nat /\ m <= request.maxDepth /\ request.maxDepth \in Nat
  BY LimitsAreNat
<1>4. PICK n \in DOMAIN Depth : Depth[n] = k /\ ~Same(k, n)
  OBVIOUS
<1>5. /\ f[k] = CallsAt(f, k)
      /\ \A j \in 0 .. m : \A c \in f[j] : c \in Seq(DOMAIN Depth) /\ Len(c) = j + 1 /\ Depth[c[j + 1]] <= j
  BY <1>3, CallsLead
<1>6. CASE n = start
  <2>1. k = 0
    BY <1>4, <1>6, DepthFacts
  <2>2. f[k] = {<<start>>}
    BY <1>5, <2>1 DEF CallsAt
  <2>3. CodeRoutes[n] = {<<Step(start, "none")>>}
    <3>1. CodeRoutes = [i \in DOMAIN Depth |-> ChainsAt(CodeRoutes, i)]
      BY ChainsUnfold
    <3>2. PICK chains : chains = CodeRoutes
      OBVIOUS
    <3>3. chains[n] = ChainsAt(chains, n)
      BY <3>1, <3>2
    <3>4. QED
      BY <1>6, <3>2, <3>3 DEF ChainsAt
  <2>4. NodesOf(<<Step(start, "none")>>) = <<start>>
    BY DEF NodesOf, Step
  <2>5. Same(k, n)
    <3>1. {NodesOf(p) : p \in CodeRoutes[n]} = {<<start>>}
      BY <2>3, <2>4
    <3>2. <<start>>[k + 1] = n
      BY <1>6, <2>1
    <3>3. QED
      BY <2>2, <3>1, <3>2
  <2>6. QED
    BY <1>4, <2>5
<1>7. CASE n # start
  <2> DEFINE P == Predecessors(Depth, found, n)
  <2>1. k # 0 /\ k - 1 \in 0 .. m /\ (k - 1) + 1 = k /\ k - 1 \notin Bad
    BY <1>2, <1>3, <1>4, <1>7, DepthFacts
  <2>2. \A i \in DOMAIN Depth : Depth[i] = k - 1 => Same(k - 1, i)
    BY <2>1
  <2>3. \A c : c \in f[k] <=> \E b \in f[k - 1] : \E e \in edges :
                                  e.type = "CALLS" /\ e.end = b[k] /\ c = Append(b, e.start)
    <3>1. ASSUME NEW c
          PROVE  c \in f[k] <=> \E b \in f[k - 1] : \E e \in edges :
                                    e.type = "CALLS" /\ e.end = b[k] /\ c = Append(b, e.start)
      BY <1>3, <1>5, <2>1, OneMoreCall
    <3>2. QED
      BY <3>1
  <2>4. CodeRoutes[n] = {Append(q, Step(n, "CALLS")) : q \in UNION {CodeRoutes[i] : i \in P}}
    BY <1>7, WholeRoutes
  <2>5. \A i \in P : i \in DOMAIN Depth /\ Depth[i] = k - 1 /\ Holds(n, "CALLS", i)
    BY <1>4, <1>7, PredecessorsFit
  <2>6. n \in Names /\ "CALLS" \in Relations
    BY CodeRoutesFit DEF Names, Relations
  <2> HIDE DEF P
  <2>7. ASSUME NEW i \in P, NEW q \in CodeRoutes[i]
        PROVE  NodesOf(Append(q, Step(n, "CALLS"))) = Append(NodesOf(q), n)
    <3>1. q \in Seq(Steps) /\ q # <<>>
      BY <2>5, CodeRoutesFit DEF Chained, LeadTo, IsPath
    <3>2. QED
      BY <2>6, <3>1, NodesExtend
  <2>8. ASSUME NEW i \in P
        PROVE  {NodesOf(q) : q \in CodeRoutes[i]} = {b \in f[k - 1] : b[k] = i}
    BY <2>1, <2>2, <2>5
  <2>9. ASSUME NEW p \in CodeRoutes[n]
        PROVE  NodesOf(p) \in f[k] /\ NodesOf(p)[k + 1] = n
    <3>1. PICK i \in P : \E q \in CodeRoutes[i] : p = Append(q, Step(n, "CALLS"))
      BY <2>4, <2>9
    <3>2. PICK q \in CodeRoutes[i] : p = Append(q, Step(n, "CALLS"))
      BY <3>1
    <3>3. NodesOf(q) \in f[k - 1] /\ NodesOf(q)[k] = i
      BY <2>8
    <3>4. PICK e \in edges : e = [start |-> n, type |-> "CALLS", end |-> i]
      BY <2>5 DEF Holds
    <3>5. Append(NodesOf(q), n) \in f[k]
      BY <2>3, <3>3, <3>4
    <3>6. NodesOf(p) = Append(NodesOf(q), n)
      BY <2>7, <3>2
    <3>7. NodesOf(q) \in Seq(DOMAIN Depth) /\ Len(NodesOf(q)) = k
      BY <1>5, <2>1, <3>3
    <3>8. Append(NodesOf(q), n)[k + 1] = n
      BY <3>7, AppendProperties
    <3>9. QED
      BY <3>5, <3>6, <3>8
  <2>10. ASSUME NEW c \in f[k], c[k + 1] = n
         PROVE  c \in {NodesOf(p) : p \in CodeRoutes[n]}
    <3>1. PICK b \in f[k - 1] : \E e \in edges : e.type = "CALLS" /\ e.end = b[k] /\ c = Append(b, e.start)
      BY <2>3, <2>10
    <3>2. PICK e \in seen : e.type = "CALLS" /\ e.end = b[k] /\ c = Append(b, e.start)
      BY <3>1
    <3>3. b \in Seq(DOMAIN Depth) /\ Len(b) = k /\ Depth[b[k]] <= k - 1
      BY <1>5, <2>1, <3>1
    <3>4. b[k] \in DOMAIN Depth
      <4>1. k \in 1 .. Len(b)
        BY <1>3, <2>1, <3>3
      <4>2. QED
        BY <3>3, <4>1, ElementOfSeq
    <3>5. Depth[b[k]] \in Nat
      BY <3>4, DepthFacts, LimitsAreNat
    <3>6. /\ [edge |-> e, depth |-> Depth[b[k]] + 1] \in found
          /\ e.start \in DOMAIN Depth /\ Depth[e.start] <= Depth[b[k]] + 1
      <4>1. Depth[e.end] < request.maxDepth
        BY <1>3, <3>2, <3>3, <3>5
      <4>2. QED
        BY <3>2, <3>4, <4>1, ClosedReaches
    <3>7. e.start = n
      BY <2>10, <3>2, <3>3, <3>6, AppendProperties
    <3>8. Depth[b[k]] = k - 1
      BY <1>3, <1>4, <3>3, <3>5, <3>6, <3>7
    <3>9. b[k] \in P
      <4>1. PICK row \in found : row = [edge |-> e, depth |-> k]
        BY <1>3, <3>6, <3>8
      <4>2. row.edge.start = n /\ row.depth = Depth[n] /\ row.edge.end = b[k] /\ Depth[b[k]] = row.depth - 1
        BY <1>4, <3>2, <3>7, <3>8, <4>1
      <4>3. QED
        BY <4>2 DEF P, Predecessors
    <3>10. b \in {NodesOf(q) : q \in CodeRoutes[b[k]]}
      BY <2>8, <3>1, <3>9
    <3>11. PICK q \in CodeRoutes[b[k]] : b = NodesOf(q)
      BY <3>10
    <3>12. Append(q, Step(n, "CALLS")) \in CodeRoutes[n]
      BY <2>4, <3>9, <3>11
    <3>13. NodesOf(Append(q, Step(n, "CALLS"))) = c
      BY <2>7, <3>2, <3>7, <3>9, <3>11
    <3>14. QED
      BY <3>12, <3>13
  <2>11. Same(k, n)
    BY <2>9, <2>10
  <2>12. QED
    BY <1>4, <2>11
<1>8. QED
  BY <1>6, <1>7

LEMMA RoutesFromInvariant ==
    ASSUME IInv, CInv
    PROVE  AllRoutesAreKept
<1> USE DEF IInv, CInv
<1> DEFINE Calls(m) == CHOOSE f : f = [k \in 0 .. m |-> CallsAt(f, k)]
<1>1. \A m \in Nat : Calls(m) = [k \in 0 .. m |-> CallsAt(Calls(m), k)]
  BY CallsExist
<1>2. SUFFICES ASSUME step = "done", seen = edges, MorePaths \notin notes, NEW i \in items, i.id \in Code
               PROVE  {NodesOf(k.path) : k \in Under(kept, <<i.category, i.id>>)}
                          = {c \in Calls(i.depth)[i.depth] : c[i.depth + 1] = i.id}
  BY DEF AllRoutesAreKept, At, MorePaths, NodesOf, CallsAt
<1> HIDE DEF Calls
<1>3. step \in LateSteps /\ start \in Code /\ ClosedBelow(request.maxDepth)
  BY <1>2 DEF StartFits, TraversedFits, LateSteps
<1>4. PICK n \in DOMAIN Depth \ {start} : i.id = n /\ i.category = CategoryOf(n) /\ i.depth = Depth[n]
  BY <1>2, <1>3 DEF CallersFit
<1>5. /\ ~ChainsTruncated(start, Depth, found, request.maxPaths)
      /\ {k.path : k \in Under(kept, <<i.category, i.id>>)} = CodeRoutes[n]
  BY <1>2, <1>3, <1>4 DEF KeptFits
<1>6. {NodesOf(k.path) : k \in Under(kept, <<i.category, i.id>>)} = {NodesOf(p) : p \in CodeRoutes[n]}
  BY <1>5
<1>7. Depth[n] \in 0 .. request.maxDepth /\ Depth[n] \in Nat
  BY DepthFacts, LimitsAreNat
<1>8. PICK f : f = Calls(Depth[n])
  OBVIOUS
<1>9. f = [k \in 0 .. Depth[n] |-> CallsAt(f, k)]
  BY <1>1, <1>7, <1>8
<1>10. {NodesOf(p) : p \in CodeRoutes[n]} = {c \in f[Depth[n]] : c[Depth[n] + 1] = n}
  <2>1. \A j \in 0 .. Depth[n] : f[j] = CallsAt(f, j)
    BY <1>9
  <2>2. Depth[n] \in 0 .. Depth[n]
    BY <1>7
  <2>3. \A k \in 0 .. Depth[n] : \A m \in DOMAIN Depth :
            Depth[m] = k => {NodesOf(p) : p \in CodeRoutes[m]} = {c \in f[k] : c[k + 1] = m}
    BY <1>2, <1>3, <1>5, <1>7, <2>1, RoutesAreChains
  <2>4. QED
    BY <2>2, <2>3
<1>11. QED
  BY <1>4, <1>6, <1>8, <1>10

(* The callers are those of the graph: however it grows while it is        *)
(* traversed level by level, each is reported at a depth between its       *)
(* distance now and its distance when the analysis began, none is missed   *)
(* and none made up; and of a graph at rest all their shortest chains of   *)
(* calls are kept, unless the result says that some are not (_traverse,    *)
(* enumerate_chains, PathCollector).                                       *)
THEOREM CallersAlwaysTrue == Spec => []CallersAreTrue
<1>1. IInv /\ CInv => CallersAreTrue
  BY CallersFromInvariant, RoutesFromInvariant DEF CallersAreTrue
<1>2. QED
  BY <1>1, InvariantHolds, ReportIsComplete, PTL
===============================================================================
