----------------------- MODULE ArchitectureChanges_proofs -----------------------
(***************************************************************************)
(* Proofs about the comparison of two revisions, for any number of files,  *)
(* facts and revisions and any number of comparisons that share the store. *)
(***************************************************************************)
EXTENDS ArchitectureChanges, TLAPS

-----------------------------------------------------------------------------
(***************************************************************************)
(* The diff the other way around.                                          *)
(***************************************************************************)
Swapped(p) == <<p[2], p[1]>>

LEMMA PairsSwap ==
    ASSUME NEW prev, NEW cur
    PROVE  /\ \A p \in PairedApis(prev, cur) : Swapped(p) \in PairedApis(cur, prev)
           /\ \A p \in PairedApis(cur, prev) : Swapped(p) \in PairedApis(prev, cur)
<1>1. ASSUME NEW a, NEW b, NEW p \in PairedApis(a, b)
      PROVE  Swapped(p) \in PairedApis(b, a)
  <2> DEFINE gone == Apis(Facts(a.entities) \ Facts(b.entities))
             come == Apis(Facts(b.entities) \ Facts(a.entities))
             handler == HandlerOf(a, p[1])
  <2>1. /\ p \in gone \X come /\ handler # "none"
        /\ {x \in gone : HandlerOf(a, x) = handler} = {p[1]}
        /\ {x \in come : HandlerOf(b, x) = handler} = {p[2]}
        /\ p[1].method = p[2].method <=> p[1].name # p[2].name
    BY <1>1 DEF PairedApis
  <2>2. HandlerOf(b, p[2]) = handler
    BY <2>1
  <2>3. Swapped(p) \in come \X gone /\ Swapped(p)[1] = p[2] /\ Swapped(p)[2] = p[1]
    BY <2>1 DEF Swapped
  <2> QED
    BY <2>1, <2>2, <2>3 DEF PairedApis
<1>2. QED
  BY <1>1

LEMMA SwappedSides ==
    ASSUME NEW prev, NEW cur
    PROVE  {p[2] : p \in PairedApis(prev, cur)} = {p[1] : p \in PairedApis(cur, prev)}
<1>1. \A p : Swapped(p)[1] = p[2] /\ Swapped(p)[2] = p[1]
  BY DEF Swapped
<1>2. ASSUME NEW p \in PairedApis(prev, cur)
      PROVE  p[2] \in {q[1] : q \in PairedApis(cur, prev)}
  <2>1. Swapped(p) \in PairedApis(cur, prev)
    BY PairsSwap
  <2> QED
    BY <1>1, <2>1
<1>3. ASSUME NEW p \in PairedApis(cur, prev)
      PROVE  p[1] \in {q[2] : q \in PairedApis(prev, cur)}
  <2>1. Swapped(p) \in PairedApis(prev, cur)
    BY PairsSwap
  <2> QED
    BY <1>1, <2>1
<1>4. QED
  BY <1>2, <1>3

LEMMA OppositeTwice ==
    ASSUME NEW kind \in {"ADDED", "REMOVED", "MODIFIED", "CHANGED"}
    PROVE  Opposite(kind) \in {"ADDED", "REMOVED", "MODIFIED", "CHANGED"} /\ Opposite(Opposite(kind)) = kind
BY DEF Opposite

LEMMA Disjoint ==
    ASSUME NEW type, NEW name, NEW method, NEW rel, NEW source, NEW target
    PROVE  [type |-> type, name |-> name, method |-> method] # Edge(rel, source, target)
BY DEF Edge

(* All that differs, and one change told backwards.                        *)
AllChanges(prev, cur) ==
    PairedChanges(prev, cur) \cup EntityChanges(prev, cur) \cup EdgeChanges(prev, cur)

Mirror(c) ==
    Change(Opposite(c.change), c.about, c.was, <<c.category[1], Opposite(c.category[2])>>, c.files)

LEMMA EdgeCategoryMirrors ==
    ASSUME NEW edge, NEW kind \in {"ADDED", "REMOVED"}
    PROVE  \E what, how :
               /\ EdgeCategory(edge, kind) = <<what, how>>
               /\ how \in {"ADDED", "REMOVED", "CHANGED"}
               /\ EdgeCategory(edge, Opposite(kind)) = <<what, Opposite(how)>>
<1>1. /\ Opposite(kind) \in {"ADDED", "REMOVED"} /\ Opposite("CHANGED") = "CHANGED"
  BY DEF Opposite
<1>2. \/ \E what : EdgeCategory(edge, kind) = <<what, "CHANGED">> /\ EdgeCategory(edge, Opposite(kind)) = <<what, "CHANGED">>
      \/ \E what : EdgeCategory(edge, kind) = <<what, kind>> /\ EdgeCategory(edge, Opposite(kind)) = <<what, Opposite(kind)>>
  BY DEF EdgeCategory
<1>3. QED
  BY <1>1, <1>2

LEMMA ChangeMirrors ==
    ASSUME NEW prev, NEW cur, NEW c \in AllChanges(prev, cur)
    PROVE  /\ Mirror(c) \in AllChanges(cur, prev)
           /\ Mirror(Mirror(c)) = c
           /\ Unknown(Mirror(c), cur, prev) = Unknown(c, prev, cur)
<1>1. {p[2] : p \in PairedApis(prev, cur)} = {p[1] : p \in PairedApis(cur, prev)}
  BY SwappedSides
<1>2. {p[1] : p \in PairedApis(prev, cur)} = {p[2] : p \in PairedApis(cur, prev)}
  BY SwappedSides
<1>3. ASSUME NEW kind \in {"ADDED", "REMOVED", "MODIFIED"}, NEW was, NEW about, NEW what,
             NEW how \in {"ADDED", "REMOVED", "MODIFIED", "CHANGED"}, NEW files,
             c = Change(kind, was, about, <<what, how>>, files),
             Change(Opposite(kind), about, was, <<what, Opposite(how)>>, files)
                 \in AllChanges(cur, prev)
      PROVE  /\ Mirror(c) \in AllChanges(cur, prev)
             /\ Mirror(Mirror(c)) = c
             /\ Unknown(Mirror(c), cur, prev) = Unknown(c, prev, cur)
  <2>1. Mirror(c) = Change(Opposite(kind), about, was, <<what, Opposite(how)>>, files)
    BY <1>3 DEF Mirror, Change
  <2>2. Mirror(Mirror(c)) = c
    <3>1. Mirror(Mirror(c)) = Change(Opposite(Opposite(kind)), was, about,
                                     <<what, Opposite(Opposite(how))>>, files)
      BY <2>1 DEF Mirror, Change
    <3> QED
      BY <1>3, <3>1, OppositeTwice
  <2>3. Mirror(c).files = c.files /\ Mirror(c).change = Opposite(c.change) /\ c.change = kind
    BY <1>3, <2>1 DEF Change
  <2>4. Unknown(Mirror(c), cur, prev) = Unknown(c, prev, cur)
    BY <2>3 DEF Unknown, Opposite
  <2> QED
    BY <1>3, <2>1, <2>2, <2>4
<1>4. CASE c \in PairedChanges(prev, cur)
  <2>1. PICK p \in PairedApis(prev, cur) :
            c = Change("MODIFIED", p[1], p[2],
                       IF p[1].method = p[2].method THEN <<"API_PATH", "CHANGED">>
                       ELSE <<"API_METHOD", "CHANGED">>,
                       Files(prev.entities, p[1]) \cup Files(cur.entities, p[2]))
    BY <1>4 DEF PairedChanges
  <2> DEFINE what == IF p[1].method = p[2].method THEN "API_PATH" ELSE "API_METHOD"
             files == Files(prev.entities, p[1]) \cup Files(cur.entities, p[2])
  <2>2. c = Change("MODIFIED", p[1], p[2], <<what, "CHANGED">>, files)
    BY <2>1
  <2>3. Swapped(p) \in PairedApis(cur, prev) /\ Swapped(p)[1] = p[2] /\ Swapped(p)[2] = p[1]
    BY PairsSwap DEF Swapped
  <2>4. Change("MODIFIED", p[2], p[1], <<what, "CHANGED">>, files) \in PairedChanges(cur, prev)
    <3>1. files = Files(cur.entities, p[2]) \cup Files(prev.entities, p[1])
      OBVIOUS
    <3>2. <<what, "CHANGED">> = IF p[2].method = p[1].method THEN <<"API_PATH", "CHANGED">>
                                ELSE <<"API_METHOD", "CHANGED">>
      OBVIOUS
    <3> HIDE DEF files, what
    <3> QED
      BY <2>3, <3>1, <3>2 DEF PairedChanges
  <2>5. Opposite("MODIFIED") = "MODIFIED" /\ Opposite("CHANGED") = "CHANGED"
    BY DEF Opposite
  <2> HIDE DEF files, what
  <2> QED
    BY <1>3, <2>2, <2>4, <2>5 DEF AllChanges
<1>5. CASE c \in EntityChanges(prev, cur)
  <2> DEFINE before == Reported(Facts(prev.entities))
             after == Reported(Facts(cur.entities))
  <2>1. ASSUME NEW e \in (after \ before) \ {p[2] : p \in PairedApis(prev, cur)},
               c = Change("ADDED", e, e, <<e.type, "ADDED">>, Files(cur.entities, e))
        PROVE  /\ Opposite("ADDED") = "REMOVED"
               /\ Change("REMOVED", e, e, <<e.type, "REMOVED">>, Files(cur.entities, e))
                      \in AllChanges(cur, prev)
    BY <1>1, <2>1 DEF EntityChanges, AllChanges, Opposite
  <2>2. ASSUME NEW e \in (before \ after) \ {p[1] : p \in PairedApis(prev, cur)},
               c = Change("REMOVED", e, e, <<e.type, "REMOVED">>, Files(prev.entities, e))
        PROVE  /\ Opposite("REMOVED") = "ADDED"
               /\ Change("ADDED", e, e, <<e.type, "ADDED">>, Files(prev.entities, e))
                      \in AllChanges(cur, prev)
    BY <1>2, <2>2 DEF EntityChanges, AllChanges, Opposite
  <2>3. ASSUME NEW e \in before \cap after, Values(prev.entities, e) # Values(cur.entities, e),
               c = Change("MODIFIED", e, e, <<"ENTITY", "MODIFIED">>,
                          Files(prev.entities, e) \cup Files(cur.entities, e))
        PROVE  /\ Opposite("MODIFIED") = "MODIFIED"
               /\ Change("MODIFIED", e, e, <<"ENTITY", "MODIFIED">>,
                         Files(prev.entities, e) \cup Files(cur.entities, e))
                      \in AllChanges(cur, prev)
    <3>1. Files(prev.entities, e) \cup Files(cur.entities, e)
              = Files(cur.entities, e) \cup Files(prev.entities, e)
      OBVIOUS
    <3> QED
      BY <2>3, <3>1 DEF EntityChanges, AllChanges, Opposite
  <2>4. \/ \E e \in (after \ before) \ {p[2] : p \in PairedApis(prev, cur)} :
               c = Change("ADDED", e, e, <<e.type, "ADDED">>, Files(cur.entities, e))
        \/ \E e \in (before \ after) \ {p[1] : p \in PairedApis(prev, cur)} :
               c = Change("REMOVED", e, e, <<e.type, "REMOVED">>, Files(prev.entities, e))
        \/ \E e \in before \cap after :
               /\ Values(prev.entities, e) # Values(cur.entities, e)
               /\ c = Change("MODIFIED", e, e, <<"ENTITY", "MODIFIED">>,
                             Files(prev.entities, e) \cup Files(cur.entities, e))
    BY <1>5 DEF EntityChanges
  <2> HIDE DEF before, after
  <2> QED
    BY <1>3, <2>1, <2>2, <2>3, <2>4
<1>6. CASE c \in EdgeChanges(prev, cur)
  <2> DEFINE before == Facts(prev.edges)
             after == Facts(cur.edges)
  <2>1. \A f : Implied(f, prev, cur) = Implied(f, cur, prev)
    BY DEF Implied
  <2>2. ASSUME NEW f \in after \ before, ~Implied(f, prev, cur),
               c = Change("ADDED", f, f, EdgeCategory(f, "ADDED"), Files(cur.edges, f))
        PROVE  Change("REMOVED", f, f, EdgeCategory(f, "REMOVED"), Files(cur.edges, f))
                   \in AllChanges(cur, prev)
    BY <2>1, <2>2 DEF EdgeChanges, AllChanges
  <2>3. ASSUME NEW f \in before \ after, ~Implied(f, prev, cur),
               c = Change("REMOVED", f, f, EdgeCategory(f, "REMOVED"), Files(prev.edges, f))
        PROVE  Change("ADDED", f, f, EdgeCategory(f, "ADDED"), Files(prev.edges, f))
                   \in AllChanges(cur, prev)
    BY <2>1, <2>3 DEF EdgeChanges, AllChanges
  <2>4. ASSUME NEW f \in before \cap after, Values(prev.edges, f) # Values(cur.edges, f),
               NEW category \in {<<"DEPENDENCY_VERSION", "CHANGED">>, <<"RELATIONSHIP", "MODIFIED">>},
               category = IF f.rel = "DEPENDS_ON" /\ f.target.type = "DEPENDENCY"
                          THEN <<"DEPENDENCY_VERSION", "CHANGED">>
                          ELSE <<"RELATIONSHIP", "MODIFIED">>
        PROVE  Change("MODIFIED", f, f, category, Files(prev.edges, f) \cup Files(cur.edges, f))
                   \in AllChanges(cur, prev)
    <3>1. Files(prev.edges, f) \cup Files(cur.edges, f) = Files(cur.edges, f) \cup Files(prev.edges, f)
      OBVIOUS
    <3>2. Change("MODIFIED", f, f, category, Files(cur.edges, f) \cup Files(prev.edges, f))
              \in EdgeChanges(cur, prev)
      BY <2>4 DEF EdgeChanges
    <3> QED
      BY <3>1, <3>2 DEF AllChanges
  <2>5. \/ \E f \in after \ before : /\ ~Implied(f, prev, cur)
              /\ c = Change("ADDED", f, f, EdgeCategory(f, "ADDED"), Files(cur.edges, f))
        \/ \E f \in before \ after : /\ ~Implied(f, prev, cur)
              /\ c = Change("REMOVED", f, f, EdgeCategory(f, "REMOVED"), Files(prev.edges, f))
        \/ \E f \in before \cap after, category \in {<<"DEPENDENCY_VERSION", "CHANGED">>, <<"RELATIONSHIP", "MODIFIED">>} :
              /\ Values(prev.edges, f) # Values(cur.edges, f)
              /\ category = IF f.rel = "DEPENDS_ON" /\ f.target.type = "DEPENDENCY"
                            THEN <<"DEPENDENCY_VERSION", "CHANGED">>
                            ELSE <<"RELATIONSHIP", "MODIFIED">>
              /\ c = Change("MODIFIED", f, f, category, Files(prev.edges, f) \cup Files(cur.edges, f))
    BY <1>6 DEF EdgeChanges
  <2> HIDE DEF before, after
  <2>6. Opposite("ADDED") = "REMOVED" /\ Opposite("REMOVED") = "ADDED"
        /\ Opposite("MODIFIED") = "MODIFIED" /\ Opposite("CHANGED") = "CHANGED"
    BY DEF Opposite
  <2>7. ASSUME NEW f \in after \ before, ~Implied(f, prev, cur),
               c = Change("ADDED", f, f, EdgeCategory(f, "ADDED"), Files(cur.edges, f))
        PROVE  /\ Mirror(c) \in AllChanges(cur, prev)
               /\ Mirror(Mirror(c)) = c
               /\ Unknown(Mirror(c), cur, prev) = Unknown(c, prev, cur)
    <3>1. PICK what, how : /\ EdgeCategory(f, "ADDED") = <<what, how>>
                           /\ how \in {"ADDED", "REMOVED", "CHANGED"}
                           /\ EdgeCategory(f, "REMOVED") = <<what, Opposite(how)>>
      BY <2>6, EdgeCategoryMirrors
    <3> QED
      BY <1>3, <2>2, <2>6, <2>7, <3>1
  <2>8. ASSUME NEW f \in before \ after, ~Implied(f, prev, cur),
               c = Change("REMOVED", f, f, EdgeCategory(f, "REMOVED"), Files(prev.edges, f))
        PROVE  /\ Mirror(c) \in AllChanges(cur, prev)
               /\ Mirror(Mirror(c)) = c
               /\ Unknown(Mirror(c), cur, prev) = Unknown(c, prev, cur)
    <3>1. PICK what, how : /\ EdgeCategory(f, "REMOVED") = <<what, how>>
                           /\ how \in {"ADDED", "REMOVED", "CHANGED"}
                           /\ EdgeCategory(f, "ADDED") = <<what, Opposite(how)>>
      BY <2>6, EdgeCategoryMirrors
    <3> QED
      BY <1>3, <2>3, <2>6, <2>8, <3>1
  <2>9. CASE \E f \in before \cap after, category \in {<<"DEPENDENCY_VERSION", "CHANGED">>, <<"RELATIONSHIP", "MODIFIED">>} :
              /\ Values(prev.edges, f) # Values(cur.edges, f)
              /\ category = IF f.rel = "DEPENDS_ON" /\ f.target.type = "DEPENDENCY"
                            THEN <<"DEPENDENCY_VERSION", "CHANGED">>
                            ELSE <<"RELATIONSHIP", "MODIFIED">>
              /\ c = Change("MODIFIED", f, f, category, Files(prev.edges, f) \cup Files(cur.edges, f))
    BY <1>3, <2>4, <2>6, <2>9
  <2> QED
    BY <2>5, <2>7, <2>8, <2>9
<1>7. QED
  BY <1>4, <1>5, <1>6 DEF AllChanges

LEMMA DiffMirrors ==
    ASSUME NEW prev, NEW cur
    PROVE  /\ Diff(cur, prev).changes = Mirrored(Diff(prev, cur).changes)
           /\ Diff(cur, prev).unknown = Mirrored(Diff(prev, cur).unknown)
<1>1. ASSUME NEW a, NEW b
      PROVE  /\ Diff(a, b).changes = {c \in AllChanges(a, b) : ~Unknown(c, a, b)}
             /\ Diff(a, b).unknown = {c \in AllChanges(a, b) : Unknown(c, a, b)}
  BY DEF Diff, AllChanges
<1>2. ASSUME NEW changes
      PROVE  Mirrored(changes) = {Mirror(c) : c \in changes}
  BY DEF Mirrored, Mirror
<1>3. ASSUME NEW c \in AllChanges(cur, prev)
      PROVE  /\ ~Unknown(c, cur, prev) => c \in Mirrored(Diff(prev, cur).changes)
             /\ Unknown(c, cur, prev) => c \in Mirrored(Diff(prev, cur).unknown)
  <2>1. /\ Mirror(c) \in AllChanges(prev, cur) /\ Mirror(Mirror(c)) = c
        /\ Unknown(Mirror(c), prev, cur) = Unknown(c, cur, prev)
    BY ChangeMirrors
  <2> QED
    BY <1>1, <1>2, <2>1
<1>4. ASSUME NEW c \in AllChanges(prev, cur)
      PROVE  /\ ~Unknown(c, prev, cur) => Mirror(c) \in Diff(cur, prev).changes
             /\ Unknown(c, prev, cur) => Mirror(c) \in Diff(cur, prev).unknown
  <2>1. /\ Mirror(c) \in AllChanges(cur, prev)
        /\ Unknown(Mirror(c), cur, prev) = Unknown(c, prev, cur)
    BY ChangeMirrors
  <2> QED
    BY <1>1, <2>1
<1>5. Diff(cur, prev).changes \subseteq Mirrored(Diff(prev, cur).changes)
      /\ Diff(cur, prev).unknown \subseteq Mirrored(Diff(prev, cur).unknown)
  BY <1>1, <1>3
<1>6. Mirrored(Diff(prev, cur).changes) \subseteq Diff(cur, prev).changes
      /\ Mirrored(Diff(prev, cur).unknown) \subseteq Diff(cur, prev).unknown
  BY <1>1, <1>2, <1>4
<1>7. QED
  BY <1>5, <1>6
-----------------------------------------------------------------------------
(***************************************************************************)
(* The invariant.                                                          *)
(***************************************************************************)
(* An entity is no relationship; only an API is exposed, by the service.   *)
Shaped(s) ==
    /\ \A e \in Facts(s.entities) : DOMAIN e = {"type", "name", "method"}
    /\ \A f \in Facts(s.edges) :
          /\ DOMAIN f = {"rel", "source", "target"}
          /\ f.rel = "EXPOSES" => f = Edge("EXPOSES", Service(s.service), f.target) /\ f.target.type = "API"

(* When all of it is there, the service itself is, an API is exposed and a *)
(* library is there because something depends on it.                       *)
Full(s) ==
    /\ Service(s.service) \in Facts(s.entities)
    /\ \A e \in Facts(s.entities) :
          /\ e.type = "API" => Edge("EXPOSES", Service(s.service), e) \in Facts(s.edges)
          /\ e.type = "DEPENDENCY" => \E f \in Facts(s.edges) : f.target = e

(* Whatever was seen was seen in a file, and a value is stated there,      *)
(* whichever services are known.                                           *)
FromFiles(s, files) ==
    \A x \in s.entities \cup s.edges :
        \/ x = Sighting(Service(s.service), "none", NoFile)
        \/ \E n \in DOMAIN files :
              /\ x.file = files[n].path
              /\ x.value # "none" => x \in SeenIn(files[n], {}, s.service).entities
                                           \cup SeenIn(files[n], {}, s.service).edges

(* Files of these kinds have been extracted, or could not be read.         *)
Covers(s, files, kinds) ==
    \A n \in DOMAIN files : files[n].kind \in kinds =>
        IF files[n].readable
        THEN /\ SeenIn(files[n], {}, s.service).entities \subseteq s.entities
             /\ SeenIn(files[n], {}, s.service).edges \subseteq s.edges
        ELSE files[n].path \in s.blocked

SnapshotOf(s, files, kinds) ==
    WellFormed(s) /\ Shaped(s) /\ Full(s) /\ FromFiles(s, files) /\ Covers(s, files, kinds)

(* The first n writes of a snapshot that was built.                        *)
PartOf(s, files, n) ==
    \E whole : SnapshotOf(whole, files, Elements(Extractors)) /\ s = Written(whole, n)

Before(n) == {Extractors[i] : i \in 1 .. n - 1}

TypesFit ==
    /\ tree \in [Revisions -> Trees] /\ DOMAIN store = Revisions
    /\ writes \in [Revisions -> 0 .. Whole]
    /\ next \in 1 .. Len(Extractors) + 1 /\ calls \in 0 .. MaxCalls
    /\ done \in Seq({store[r] : r \in Revisions}) /\ Len(done) <= 2
    /\ result # None => result.status \in {"NO_CHANGES", "CHANGES_DETECTED", "UNRESOLVED"}

(* The snapshots a comparison has are what is stored of its revisions.     *)
Got(revisions) ==
    \A i \in 1 .. Len(done) : /\ revisions[i] \in Revisions
                             /\ done[i] = store[revisions[i]] /\ writes[revisions[i]] >= Header

CallFits ==
    call # None =>
        /\ result = None /\ {call.revisions[1], call.revisions[2]} \subseteq Revisions
        /\ Got(call.revisions)

DraftFits ==
    draft # None =>
        /\ call # None /\ Len(done) < 2
        /\ writes[Awaited] < Whole /\ \A i \in 1 .. Len(done) : call.revisions[i] # Awaited
        /\ SnapshotOf(draft, tree[Awaited], Before(next)) /\ draft = Written(draft, Whole)
        /\ next <= 3 => draft.handlers = {}

StoreFits ==
    \A r \in Revisions :
        IF writes[r] < Header THEN store[r] = None ELSE PartOf(store[r], tree[r], writes[r])

AnswerFits ==
    Answered => /\ Len(done) = 2 /\ Got(result.of.revisions)
                /\ result.changes = Diff(done[1], done[2]).changes
                /\ result.unknown = Diff(done[1], done[2]).unknown

IInv == TypesFit /\ CallFits /\ DraftFits /\ StoreFits /\ AnswerFits

-----------------------------------------------------------------------------
(***************************************************************************)
(* What the extractors find in one file.                                   *)
(***************************************************************************)
(* What is found is a part of a graph: an end of a relationship is there,  *)
(* or it is this service.                                                  *)
Partial(entities, edges, service) ==
    /\ \A x \in entities :
          /\ DOMAIN x.fact = {"type", "name", "method"}
          /\ x.fact.type = "API" => \E y \in edges : y.fact = Edge("EXPOSES", Service(service), x.fact)
          /\ x.fact.type = "DEPENDENCY" => \E y \in edges : y.fact.target = x.fact
    /\ \A y \in edges :
          /\ DOMAIN y.fact = {"rel", "source", "target"}
          /\ \E x \in entities : x.fact = y.fact.target
          /\ y.fact.source = Service(service) \/ \E x \in entities : x.fact = y.fact.source
          /\ y.fact.rel = "EXPOSES" =>
                y.fact = Edge("EXPOSES", Service(service), y.fact.target) /\ y.fact.target.type = "API"

SeenAt(entities, edges, path) == \A x \in entities \cup edges : x.file = path

(* One entity of this service, and an API if and only if it is exposed.    *)
Kept(f, path, service) ==
    \E rel, type, name, method, value :
        /\ f = Related(service, rel, [type |-> type, name |-> name, method |-> method], value, path)
        /\ rel = "EXPOSES" <=> type = "API"

LEMMA RelatedIsPartial ==
    ASSUME NEW found, NEW path, NEW service, \A f \in found : Kept(f, path, service)
    PROVE  Partial(Entities(found), Edges(found), service) /\ SeenAt(Entities(found), Edges(found), path)
<1>1. ASSUME NEW x \in Entities(found)
      PROVE  /\ DOMAIN x.fact = {"type", "name", "method"}
             /\ x.file = path
             /\ \E y \in Edges(found) :
                   /\ y.fact.target = x.fact
                   /\ x.fact.type = "API" => y.fact = Edge("EXPOSES", Service(service), x.fact)
  <2>1. PICK f \in found : x \in f.entities
    BY DEF Entities
  <2>2. PICK rel, type, name, method, value :
            /\ f = Related(service, rel, [type |-> type, name |-> name, method |-> method], value, path)
            /\ rel = "EXPOSES" <=> type = "API"
    BY <2>1 DEF Kept
  <2> DEFINE entity == [type |-> type, name |-> name, method |-> method]
             y == Sighting(Edge(rel, Service(service), entity), value, path)
  <2>3. x = Sighting(entity, "none", path) /\ y \in f.edges
    BY <2>1, <2>2 DEF Related
  <2>4. y \in Edges(found)
    BY <2>1, <2>3 DEF Edges
  <2>5. x.fact = entity /\ x.file = path /\ y.fact = Edge(rel, Service(service), entity)
    BY <2>3 DEF Sighting
  <2>6. y.fact.target = entity
    BY <2>5 DEF Edge
  <2> HIDE DEF y
  <2>7. QED
    BY <2>2, <2>4, <2>5, <2>6
<1>2. ASSUME NEW y \in Edges(found)
      PROVE  /\ DOMAIN y.fact = {"rel", "source", "target"}
             /\ y.file = path
             /\ \E x \in Entities(found) : x.fact = y.fact.target
             /\ y.fact.source = Service(service)
             /\ y.fact.rel = "EXPOSES" =>
                   y.fact = Edge("EXPOSES", Service(service), y.fact.target) /\ y.fact.target.type = "API"
  <2>1. PICK f \in found : y \in f.edges
    BY DEF Edges
  <2>2. PICK rel, type, name, method, value :
            /\ f = Related(service, rel, [type |-> type, name |-> name, method |-> method], value, path)
            /\ rel = "EXPOSES" <=> type = "API"
    BY <2>1 DEF Kept
  <2> DEFINE entity == [type |-> type, name |-> name, method |-> method]
             x == Sighting(entity, "none", path)
  <2>3. y = Sighting(Edge(rel, Service(service), entity), value, path) /\ x \in f.entities
    BY <2>1, <2>2 DEF Related
  <2>4. x \in Entities(found)
    BY <2>1, <2>3 DEF Entities
  <2>5. y.fact = Edge(rel, Service(service), entity) /\ y.file = path /\ x.fact = entity
    BY <2>3 DEF Sighting
  <2>6. /\ y.fact.target = entity /\ y.fact.source = Service(service) /\ y.fact.rel = rel
        /\ DOMAIN y.fact = {"rel", "source", "target"} /\ entity.type = type
    BY <2>5 DEF Edge
  <2> HIDE DEF x, entity
  <2>7. QED
    BY <2>2, <2>4, <2>5, <2>6
<1>3. QED
  BY <1>1, <1>2 DEF Partial, SeenAt

LEMMA EntityKept ==
    ASSUME NEW rel, NEW type, NEW name, NEW value, NEW path, NEW service, rel # "EXPOSES", type # "API"
    PROVE  Kept(Related(service, rel, Entity(type, name), value, path), path, service)
BY DEF Kept, Entity

LEMMA ComposeIsPartial ==
    ASSUME NEW file, NEW service
    PROVE  /\ Partial(Compose(file).entities, Compose(file).edges, service)
           /\ SeenAt(Compose(file).entities, Compose(file).edges, file.path)
<1> DEFINE entities == {Sighting(ComposeEntity(i), i.engine, file.path) : i \in Items(file, "service")}
<1>1. Compose(file).entities = entities /\ Compose(file).edges = ComposeEdges(file)
  BY DEF Compose
<1>2. ASSUME NEW x \in entities
      PROVE  /\ DOMAIN x.fact = {"type", "name", "method"} /\ x.file = file.path
             /\ x.fact.type \in {"SERVICE", "DATABASE"}
  BY DEF ComposeEntity, Service, Entity, Sighting
<1>3. ASSUME NEW y \in ComposeEdges(file)
      PROVE  /\ DOMAIN y.fact = {"rel", "source", "target"} /\ y.file = file.path
             /\ y.fact.rel # "EXPOSES"
             /\ \E x \in entities : x.fact = y.fact.target
             /\ \E x \in entities : x.fact = y.fact.source
  <2>1. PICK i \in Items(file, "service"), j \in Items(file, "service") :
            y = Sighting(Edge("DEPENDS_ON", ComposeEntity(i), ComposeEntity(j)), "none", file.path)
    BY DEF ComposeEdges
  <2>2. /\ y.fact = Edge("DEPENDS_ON", ComposeEntity(i), ComposeEntity(j)) /\ y.file = file.path
        /\ Sighting(ComposeEntity(i), i.engine, file.path) \in entities
        /\ Sighting(ComposeEntity(j), j.engine, file.path) \in entities
    BY <2>1 DEF Sighting
  <2>3. /\ y.fact.source = ComposeEntity(i) /\ y.fact.target = ComposeEntity(j)
        /\ y.fact.rel = "DEPENDS_ON" /\ DOMAIN y.fact = {"rel", "source", "target"}
    BY <2>2 DEF Edge
  <2>4. /\ Sighting(ComposeEntity(i), i.engine, file.path).fact = ComposeEntity(i)
        /\ Sighting(ComposeEntity(j), j.engine, file.path).fact = ComposeEntity(j)
    BY DEF Sighting
  <2> HIDE DEF entities
  <2> QED
    BY <2>2, <2>3, <2>4
<1> HIDE DEF entities
<1>4. QED
  BY <1>1, <1>2, <1>3 DEF Partial, SeenAt

LEMMA SeenIsPartial ==
    ASSUME NEW file, NEW known, NEW service, file.kind \in Elements(Extractors),
           \A i \in Items(file, "declares") : <<i.rel, i.type>> \in Declarable
    PROVE  LET s == SeenIn(file, known, service) IN
           Partial(s.entities, s.edges, service) /\ SeenAt(s.entities, s.edges, file.path)
<1>1. file.kind \in {"compose", "manifest", "code", "declared"}
  BY DEF Elements, Extractors
<1>2. CASE file.kind = "compose"
  BY <1>2, ComposeIsPartial DEF SeenIn
<1>3. CASE file.kind = "manifest"
  <2> DEFINE found == {Related(service, "DEPENDS_ON", Entity("DEPENDENCY", i.name), i.version, file.path) :
                          i \in Items(file, "library")}
  <2>1. \A f \in found : Kept(f, file.path, service)
    BY EntityKept
  <2>2. SeenIn(file, known, service) = [entities |-> Entities(found), edges |-> Edges(found)]
    BY <1>3 DEF SeenIn, Manifest
  <2> HIDE DEF found
  <2> QED
    BY <2>1, <2>2, RelatedIsPartial
<1>4. CASE file.kind = "code"
  <2> DEFINE routes == {Related(service, "EXPOSES", Api(i.method, i.path), "none", file.path) :
                           i \in Items(file, "route")}
             hosts == {Related(service, "CALLS", Service(i.host), "none", file.path) :
                          i \in {j \in Items(file, "call") : j.host \in known}}
             tables == {Related(service, "ACCESSES", Entity("TABLE", i.name), "none", file.path) :
                           i \in Items(file, "table")}
             found == routes \cup hosts \cup tables
  <2>1. \A f \in routes : Kept(f, file.path, service)
    BY DEF Kept, Api
  <2>2. \A f \in hosts : Kept(f, file.path, service)
    BY EntityKept DEF Service
  <2>3. \A f \in tables : Kept(f, file.path, service)
    BY EntityKept
  <2>4. SeenIn(file, known, service) = [entities |-> Entities(found), edges |-> Edges(found)]
    BY <1>4 DEF SeenIn, Code
  <2> HIDE DEF routes, hosts, tables
  <2>5. \A f \in found : Kept(f, file.path, service)
    BY <2>1, <2>2, <2>3
  <2> HIDE DEF found
  <2> QED
    BY <2>4, <2>5, RelatedIsPartial
<1>5. CASE file.kind = "declared"
  <2> DEFINE names == {Related(service, i.rel, Entity(i.type, i.name), "none", file.path) :
                          i \in {j \in Items(file, "declares") : j.type # "SERVICE" \/ j.name # service}}
             apis == {Related(service, "EXPOSES", Api(i.method, i.path), "none", file.path) :
                         i \in Items(file, "api")}
             found == names \cup apis
  <2>1. ASSUME NEW f \in names
        PROVE  Kept(f, file.path, service)
    <3>1. PICK i \in Items(file, "declares") :
              f = Related(service, i.rel, Entity(i.type, i.name), "none", file.path)
      BY <2>1
    <3>2. i.rel # "EXPOSES" /\ i.type # "API"
      BY DEF Declarable
    <3> QED
      BY <3>1, <3>2, EntityKept
  <2>2. \A f \in apis : Kept(f, file.path, service)
    BY DEF Kept, Api
  <2>3. SeenIn(file, known, service) = [entities |-> Entities(found), edges |-> Edges(found)]
    BY <1>5 DEF SeenIn, Declared
  <2> HIDE DEF names, apis
  <2>4. \A f \in found : Kept(f, file.path, service)
    BY <2>1, <2>2
  <2> HIDE DEF found
  <2> QED
    BY <2>3, <2>4, RelatedIsPartial
<1>6. QED
  BY <1>1, <1>2, <1>3, <1>4, <1>5

(* Which services are known matters for calls only, and these have no value. *)
LEMMA SeenWhateverIsKnown ==
    ASSUME NEW file, NEW known, NEW service, file.kind \in Elements(Extractors)
    PROVE  LET s == SeenIn(file, known, service)
               free == SeenIn(file, {}, service)
           IN /\ free.entities \subseteq s.entities /\ free.edges \subseteq s.edges
              /\ \A x \in s.entities \cup s.edges :
                    x.value # "none" => x \in free.entities \cup free.edges
<1>1. file.kind \in {"compose", "manifest", "code", "declared"}
  BY DEF Elements, Extractors
<1>2. CASE file.kind # "code"
  BY <1>1, <1>2 DEF SeenIn
<1>3. CASE file.kind = "code"
  <2> DEFINE found(services) ==
          {Related(service, "EXPOSES", Api(i.method, i.path), "none", file.path) : i \in Items(file, "route")}
          \cup {Related(service, "CALLS", Service(i.host), "none", file.path) :
                   i \in {j \in Items(file, "call") : j.host \in services}}
          \cup {Related(service, "ACCESSES", Entity("TABLE", i.name), "none", file.path) :
                   i \in Items(file, "table")}
  <2>1. ASSUME NEW services
        PROVE  SeenIn(file, services, service) = [entities |-> Entities(found(services)),
                                         edges |-> Edges(found(services))]
    BY <1>3 DEF SeenIn, Code
  <2>2. found({}) \subseteq found(known)
    OBVIOUS
  <2>3. ASSUME NEW f \in found(known)
        PROVE  \A x \in f.entities \cup f.edges : x.value = "none"
    <3>1. \E rel, entity : f = Related(service, rel, entity, "none", file.path)
      OBVIOUS
    <3> QED
      BY <3>1 DEF Related, Sighting
  <2> HIDE DEF found
  <2>4. /\ Entities(found({})) \subseteq Entities(found(known))
        /\ Edges(found({})) \subseteq Edges(found(known))
    BY <2>2 DEF Entities, Edges
  <2>5. \A x \in Entities(found(known)) \cup Edges(found(known)) : x.value = "none"
    BY <2>3 DEF Entities, Edges
  <2> QED
    BY <2>1, <2>4, <2>5
<1>4. QED
  BY <1>2, <1>3

-----------------------------------------------------------------------------
(***************************************************************************)
(* The snapshot that the extractors build, one after the other.            *)
(***************************************************************************)
LEMMA EmptyIsASnapshot ==
    ASSUME NEW files, NEW service
    PROVE  LET s == EmptySnapshot(service) IN
           SnapshotOf(s, files, Before(1)) /\ s = Written(s, Whole) /\ s.handlers = {}
<1> DEFINE s == EmptySnapshot(service)
           self == Sighting(Service(service), "none", NoFile)
<1>1. /\ s.entities = {self} /\ s.edges = {}
      /\ s.handlers = {} /\ s.service = service /\ s = Written(s, Whole) /\ self.fact = Service(service)
  BY DEF EmptySnapshot, Sighting, Written, EntitiesToo, Whole
<1>2. /\ Facts(s.entities) = {Service(service)} /\ Facts(s.edges) = {}
      /\ DOMAIN Service(service) = {"type", "name", "method"} /\ Service(service).type = "SERVICE"
  BY <1>1 DEF Facts, Service, Entity
<1>3. Before(1) = {}
  BY DEF Before
<1>4. QED
  BY <1>1, <1>2, <1>3 DEF SnapshotOf, WellFormed, Shaped, Full, FromFiles, Covers

LEMMA FileFits ==
    ASSUME NEW files \in Trees, NEW n \in DOMAIN files
    PROVE  /\ files[n].kind \in Elements(Extractors) /\ files[n].path # NoFile
           /\ files[n].kind # "code" => Items(files[n], "route") = {}
           /\ \A i \in Items(files[n], "declares") : <<i.rel, i.type>> \in Declarable
<1>1. files[n] \in Elements(files)
  BY DEF Elements
<1>2. QED
  BY <1>1, TreesAssumption

(* An extractor adds parts of a graph to a snapshot.                       *)
Adds(e, s, found) ==
    e.service = s.service /\ e.entities = s.entities \cup Entities(found) /\ e.edges = s.edges \cup Edges(found)

Joined(s) == \A g \in Facts(s.edges) : {g.source, g.target} \subseteq Facts(s.entities)

LEMMA UnionIsShaped ==
    ASSUME NEW s, NEW e, NEW found, Shaped(s), Full(s), Joined(s),
           \A f \in found : Partial(f.entities, f.edges, s.service), Adds(e, s, found)
    PROVE  Shaped(e) /\ Full(e) /\ Joined(e) /\ Facts(s.entities) \subseteq Facts(e.entities)
<1>0. e.service = s.service /\ e.entities = s.entities \cup Entities(found) /\ e.edges = s.edges \cup Edges(found)
  BY DEF Adds
<1>1. Facts(s.entities) \subseteq Facts(e.entities) /\ Facts(s.edges) \subseteq Facts(e.edges)
  BY <1>0 DEF Facts
<1>2. ASSUME NEW f \in found
      PROVE  Facts(f.entities) \subseteq Facts(e.entities) /\ Facts(f.edges) \subseteq Facts(e.edges)
  BY <1>0 DEF Facts, Entities, Edges
<1>3. ASSUME NEW x \in e.entities
      PROVE  /\ DOMAIN x.fact = {"type", "name", "method"}
             /\ x.fact.type = "API" => Edge("EXPOSES", Service(s.service), x.fact) \in Facts(e.edges)
             /\ x.fact.type = "DEPENDENCY" => \E g \in Facts(e.edges) : g.target = x.fact
  <2>1. CASE x \in s.entities
    <3>1. x.fact \in Facts(s.entities)
      BY <2>1 DEF Facts
    <3> QED
      BY <1>1, <3>1 DEF Shaped, Full, Joined
  <2>2. CASE x \in Entities(found)
    <3>1. PICK f \in found : x \in f.entities
      BY <2>2 DEF Entities
    <3>2. Partial(f.entities, f.edges, s.service)
      BY <3>1
    <3>3. \A y \in f.edges : y.fact \in Facts(e.edges)
      BY <1>2 DEF Facts
    <3>4. /\ DOMAIN x.fact = {"type", "name", "method"}
          /\ x.fact.type = "API" => \E y \in f.edges : y.fact = Edge("EXPOSES", Service(s.service), x.fact)
          /\ x.fact.type = "DEPENDENCY" => \E y \in f.edges : y.fact.target = x.fact
      BY <3>1, <3>2 DEF Partial
    <3> QED
      BY <3>3, <3>4
  <2> QED
    BY <1>0, <1>3, <2>1, <2>2
<1>4. ASSUME NEW y \in e.edges
      PROVE  /\ DOMAIN y.fact = {"rel", "source", "target"}
             /\ {y.fact.source, y.fact.target} \subseteq Facts(e.entities)
             /\ y.fact.rel = "EXPOSES" =>
                   y.fact = Edge("EXPOSES", Service(s.service), y.fact.target) /\ y.fact.target.type = "API"
  <2>1. CASE y \in s.edges
    <3>1. y.fact \in Facts(s.edges)
      BY <2>1 DEF Facts
    <3> QED
      BY <1>1, <3>1 DEF Shaped, Full, Joined
  <2>2. CASE y \in Edges(found)
    <3>1. PICK f \in found : y \in f.edges
      BY <2>2 DEF Edges
    <3>2. Partial(f.entities, f.edges, s.service)
      BY <3>1
    <3>3. \A x \in f.entities : x.fact \in Facts(e.entities)
      BY <1>2 DEF Facts
    <3>4. Service(s.service) \in Facts(e.entities)
      BY <1>1 DEF Full
    <3>5. /\ DOMAIN y.fact = {"rel", "source", "target"}
          /\ \E x \in f.entities : x.fact = y.fact.target
          /\ y.fact.source = Service(s.service) \/ \E x \in f.entities : x.fact = y.fact.source
          /\ y.fact.rel = "EXPOSES" =>
                y.fact = Edge("EXPOSES", Service(s.service), y.fact.target) /\ y.fact.target.type = "API"
      BY <3>1, <3>2 DEF Partial
    <3>6. y.fact.target \in Facts(e.entities)
      BY <3>3, <3>5
    <3>7. y.fact.source \in Facts(e.entities)
      BY <3>3, <3>4, <3>5
    <3> QED
      BY <3>5, <3>6, <3>7
  <2> QED
    BY <1>0, <1>4, <2>1, <2>2
<1>5. \A h \in Facts(e.entities) :
          /\ DOMAIN h = {"type", "name", "method"}
          /\ h.type = "API" => Edge("EXPOSES", Service(s.service), h) \in Facts(e.edges)
          /\ h.type = "DEPENDENCY" => \E g \in Facts(e.edges) : g.target = h
  <2>1. \A h \in Facts(e.entities) : \E x \in e.entities : x.fact = h
    BY DEF Facts
  <2> QED
    BY <1>3, <2>1
<1>6. \A g \in Facts(e.edges) :
          /\ DOMAIN g = {"rel", "source", "target"}
          /\ {g.source, g.target} \subseteq Facts(e.entities)
          /\ g.rel = "EXPOSES" => g = Edge("EXPOSES", Service(s.service), g.target) /\ g.target.type = "API"
  <2>1. \A g \in Facts(e.edges) : \E y \in e.edges : y.fact = g
    BY DEF Facts
  <2> SUFFICES ASSUME NEW g \in Facts(e.edges)
               PROVE  /\ DOMAIN g = {"rel", "source", "target"}
                      /\ {g.source, g.target} \subseteq Facts(e.entities)
                      /\ g.rel = "EXPOSES" =>
                            g = Edge("EXPOSES", Service(s.service), g.target) /\ g.target.type = "API"
    OBVIOUS
  <2>2. PICK y \in e.edges : y.fact = g
    BY <2>1
  <2> QED
    BY <1>4, <2>2
<1>7. Service(s.service) \in Facts(e.entities)
  BY <1>1 DEF Full
<1>8. QED
  BY <1>0, <1>1, <1>5, <1>6, <1>7 DEF Shaped, Full, Joined

LEMMA HandlersAreOne ==
    ASSUME NEW files, NEW among
    PROVE  /\ \A g, h \in HandlersIn(files, among) : g.api = h.api => g = h
           /\ \A h \in HandlersIn(files, among) :
                 h.api \in {Api(i.method, i.path) : i \in RoutedIn(files, among)}
<1> DEFINE Handler(api) ==
               LET file == files[First({n \in among : RoutesTo(files[n], api) # {}})]
               IN file.items[First(RoutesTo(file, api))].handler
           apis == {Api(i.method, i.path) : i \in RoutedIn(files, among)}
<1>1. HandlersIn(files, among) = {[api |-> a, handler |-> Handler(a)] : a \in apis}
  BY DEF HandlersIn
<1> HIDE DEF Handler, apis
<1>2. \A h \in HandlersIn(files, among) : h.api \in apis /\ h = [api |-> h.api, handler |-> Handler(h.api)]
  BY <1>1
<1>3. QED
  BY <1>2 DEF apis

LEMMA ExtractBuilds ==
    ASSUME NEW files \in Trees, NEW s, NEW services, NEW k \in 1 .. 4,
           SnapshotOf(s, files, Before(k)), s = Written(s, Whole), k <= 3 => s.handlers = {},
           NEW e, e = Extract(s, files, Extractors[k], services)
    PROVE  SnapshotOf(e, files, Before(k + 1)) /\ e = Written(e, Whole) /\ (k + 1 <= 3 => e.handlers = {})
<1> DEFINE kind == Extractors[k]
           taken == {n \in DOMAIN files : files[n].kind = kind}
           readable == {n \in taken : files[n].readable}
           known == Known(s, services)
           found == {SeenIn(files[n], known, s.service) : n \in readable}
<1>1. /\ e.service = s.service /\ e = Written(e, Whole)
      /\ e.entities = s.entities \cup Entities(found) /\ e.edges = s.edges \cup Edges(found)
      /\ e.handlers = s.handlers \cup HandlersIn(files, readable)
      /\ e.blocked = s.blocked \cup {files[n].path : n \in {m \in taken : Unresolved(files[m])}}
  BY DEF Extract, Written, EntitiesToo, Whole
<1> HIDE DEF known
<1>2. ASSUME NEW n \in readable
      PROVE  /\ Partial(SeenIn(files[n], known, s.service).entities, SeenIn(files[n], known, s.service).edges, s.service)
             /\ SeenAt(SeenIn(files[n], known, s.service).entities, SeenIn(files[n], known, s.service).edges, files[n].path)
  BY FileFits, SeenIsPartial
<1>3. /\ Shaped(e) /\ Full(e) /\ Facts(s.entities) \subseteq Facts(e.entities)
      /\ \A g \in Facts(e.edges) : {g.source, g.target} \subseteq Facts(e.entities)
  <2>1. \A f \in found : Partial(f.entities, f.edges, s.service)
    BY <1>2
  <2>2. Shaped(s) /\ Full(s) /\ Joined(s)
    BY DEF SnapshotOf, WellFormed, Joined
  <2>3. Adds(e, s, found)
    BY <1>1 DEF Adds
  <2> HIDE DEF found
  <2> QED
    BY <2>1, <2>2, <2>3, UnionIsShaped DEF Joined
<1>4. FromFiles(e, files)
  <2>1. ASSUME NEW x \in Entities(found) \cup Edges(found)
        PROVE  \E n \in DOMAIN files :
                  /\ x.file = files[n].path
                  /\ x.value # "none" => x \in SeenIn(files[n], {}, s.service).entities \cup SeenIn(files[n], {}, s.service).edges
    <3>1. PICK n \in readable : x \in SeenIn(files[n], known, s.service).entities \cup SeenIn(files[n], known, s.service).edges
      BY <2>1 DEF Entities, Edges
    <3>2. x.file = files[n].path
      BY <1>2, <3>1 DEF SeenAt
    <3>3. x.value # "none" => x \in SeenIn(files[n], {}, s.service).entities \cup SeenIn(files[n], {}, s.service).edges
      BY <3>1, FileFits, SeenWhateverIsKnown
    <3> QED
      BY <3>2, <3>3
  <2> HIDE DEF found
  <2> QED
    BY <1>1, <2>1 DEF SnapshotOf, FromFiles
<1>5. Covers(e, files, Before(k + 1))
  <2>1. Before(k + 1) = Before(k) \cup {kind}
    BY DEF Before, Extractors
  <2>2. ASSUME NEW n \in DOMAIN files, files[n].kind = kind, files[n].readable
        PROVE  /\ SeenIn(files[n], {}, s.service).entities \subseteq Entities(found)
               /\ SeenIn(files[n], {}, s.service).edges \subseteq Edges(found)
    <3>1. SeenIn(files[n], known, s.service) \in found
      BY <2>2
    <3>2. /\ SeenIn(files[n], {}, s.service).entities \subseteq SeenIn(files[n], known, s.service).entities
          /\ SeenIn(files[n], {}, s.service).edges \subseteq SeenIn(files[n], known, s.service).edges
      BY <2>2, FileFits, SeenWhateverIsKnown
    <3> HIDE DEF found
    <3> QED
      BY <3>1, <3>2 DEF Entities, Edges
  <2>3. ASSUME NEW n \in DOMAIN files, files[n].kind = kind, ~files[n].readable
        PROVE  files[n].path \in e.blocked
    BY <1>1, <2>3 DEF Unresolved
  <2>4. s.entities \subseteq e.entities /\ s.edges \subseteq e.edges /\ s.blocked \subseteq e.blocked
    BY <1>1
  <2> HIDE DEF found, kind
  <2> QED
    BY <1>1, <2>1, <2>2, <2>3, <2>4 DEF SnapshotOf, Covers
<1>6. CASE kind # "code"
  <2>1. RoutedIn(files, readable) = {}
    BY <1>6, FileFits DEF RoutedIn
  <2>2. HandlersIn(files, readable) = {}
    BY <2>1 DEF HandlersIn
  <2>3. e.handlers = s.handlers
    BY <1>1, <2>2
  <2>4. \A h \in e.handlers : h.api \in Facts(e.entities)
    BY <1>3, <2>3 DEF SnapshotOf, WellFormed
  <2>5. SnapshotOf(e, files, Before(k + 1)) /\ (k + 1 <= 3 => e.handlers = {})
    BY <1>3, <1>4, <1>5, <2>3, <2>4 DEF SnapshotOf, WellFormed
  <2>6. e = Written(e, Whole)
    BY <1>1
  <2> QED
    BY <2>5, <2>6
<1>7. CASE kind = "code"
  <2>1. k = 3
    BY <1>7 DEF Extractors
  <2>2. e.handlers = HandlersIn(files, readable)
    BY <1>1, <2>1
  <2>3. \A g, h \in e.handlers : g.api = h.api => g = h
    BY <2>2, HandlersAreOne
  <2>4. ASSUME NEW h \in e.handlers
        PROVE  h.api \in Facts(e.entities)
    <3>0. PICK n \in readable : \E i \in Items(files[n], "route") : h.api = Api(i.method, i.path)
      <4>1. h \in HandlersIn(files, readable)
        BY <2>2, <2>4
      <4>2. h.api \in {Api(i.method, i.path) : i \in RoutedIn(files, readable)}
        BY <4>1, HandlersAreOne
      <4> QED
        BY <4>2 DEF RoutedIn
    <3>1. PICK i \in Items(files[n], "route") : h.api = Api(i.method, i.path)
      BY <3>0
    <3> DEFINE r == Related(s.service, "EXPOSES", Api(i.method, i.path), "none", files[n].path)
               x == Sighting(Api(i.method, i.path), "none", files[n].path)
    <3>2. x \in r.entities /\ x.fact = h.api
      BY <3>1 DEF Related, Sighting
    <3>3. SeenIn(files[n], known, s.service) = Code(files[n], known, s.service)
      BY <1>7 DEF SeenIn
    <3>4. x \in Code(files[n], known, s.service).entities
      BY <3>1, <3>2 DEF Code, Entities
    <3>5. x \in Entities(found)
      BY <3>3, <3>4 DEF Entities
    <3> QED
      BY <1>1, <3>2, <3>5 DEF Facts
  <2>5. SnapshotOf(e, files, Before(k + 1)) /\ (k + 1 <= 3 => e.handlers = {})
    BY <1>3, <1>4, <1>5, <2>1, <2>3, <2>4 DEF SnapshotOf, WellFormed
  <2>6. e = Written(e, Whole)
    BY <1>1
  <2> QED
    BY <2>5, <2>6
<1>8. QED
  BY <1>6, <1>7

(* What the first writes of a snapshot leave of it.                        *)
LEMMA PartFits ==
    ASSUME NEW files, NEW s, NEW n \in Nat, PartOf(s, files, n)
    PROVE  /\ WellFormed(s) /\ Shaped(s) /\ FromFiles(s, files) /\ (n >= Whole => Full(s))
           /\ n < EntitiesToo => s.entities = {}
           /\ n < Whole => s.edges = {}
           /\ \A m \in DOMAIN files : files[m].kind \in Elements(Extractors) =>
                 IF files[m].readable
                 THEN /\ n >= EntitiesToo => SeenIn(files[m], {}, s.service).entities \subseteq s.entities
                      /\ n >= Whole => SeenIn(files[m], {}, s.service).edges \subseteq s.edges
                 ELSE files[m].path \in s.blocked
<1>1. PICK whole : SnapshotOf(whole, files, Elements(Extractors)) /\ s = Written(whole, n)
  BY DEF PartOf
<1>2. /\ s.service = whole.service /\ s.blocked = whole.blocked
      /\ s.entities = IF n >= EntitiesToo THEN whole.entities ELSE {}
      /\ s.handlers = IF n >= EntitiesToo THEN whole.handlers ELSE {}
      /\ s.edges = IF n >= Whole THEN whole.edges ELSE {}
  BY <1>1 DEF Written
<1>3. /\ n >= Whole => n >= EntitiesToo
      /\ n < Whole <=> ~(n >= Whole)
      /\ n < EntitiesToo <=> ~(n >= EntitiesToo)
  BY DEF Whole, EntitiesToo
<1>4. /\ Facts(s.entities) = IF n >= EntitiesToo THEN Facts(whole.entities) ELSE {}
      /\ Facts(s.edges) = IF n >= Whole THEN Facts(whole.edges) ELSE {}
  BY <1>2 DEF Facts
<1>5. WellFormed(s)
  BY <1>1, <1>2, <1>3, <1>4 DEF SnapshotOf, WellFormed
<1>6. Shaped(s) /\ (n >= Whole => Full(s))
  BY <1>1, <1>2, <1>3, <1>4 DEF SnapshotOf, Shaped, Full
<1>7. FromFiles(s, files)
  BY <1>1, <1>2 DEF SnapshotOf, FromFiles
<1>8. \A m \in DOMAIN files : files[m].kind \in Elements(Extractors) =>
         IF files[m].readable
         THEN /\ n >= EntitiesToo => SeenIn(files[m], {}, s.service).entities \subseteq s.entities
              /\ n >= Whole => SeenIn(files[m], {}, s.service).edges \subseteq s.edges
         ELSE files[m].path \in s.blocked
  BY <1>1, <1>2 DEF SnapshotOf, Covers
<1>9. QED
  BY <1>2, <1>3, <1>5, <1>6, <1>7, <1>8

-----------------------------------------------------------------------------
(***************************************************************************)
(* The invariant holds initially, and every action keeps it.               *)
(***************************************************************************)
LEMMA ThereAreFour ==
    /\ Len(Extractors) = 4 /\ Before(5) = Elements(Extractors)
    /\ \A n \in 1 .. 5 : n <= Len(Extractors) => n \in 1 .. 4
<1>1. Len(Extractors) = 4 /\ DOMAIN Extractors = 1 .. 4
  BY DEF Extractors
<1>2. QED
  BY <1>1 DEF Before, Elements

(* What is awaited is a revision of the repository.                        *)
LEMMA AwaitedIsThere ==
    ASSUME IInv, call # None, Len(done) < 2
    PROVE  /\ Len(done) \in {0, 1} /\ Awaited \in Revisions
           /\ tree[Awaited] \in Trees /\ Awaited = call.revisions[Len(done) + 1]
<1>1. Len(done) \in {0, 1}
  <2>1. done \in Seq({store[r] : r \in Revisions})
    BY DEF IInv, TypesFit
  <2> DEFINE n == Len(done)
  <2>2. n \in Nat /\ n < 2
    BY <2>1
  <2> HIDE DEF n
  <2>3. n \in {0, 1}
    BY <2>2
  <2> QED
    BY <2>3 DEF n
<1>2. {call.revisions[1], call.revisions[2]} \subseteq Revisions
  BY DEF IInv, CallFits
<1>3. Awaited \in Revisions
  BY <1>1, <1>2 DEF Awaited
<1>4. QED
  BY <1>1, <1>3 DEF Awaited, IInv, TypesFit

LEMMA StartsFit ==
    Init => IInv
<1> SUFFICES ASSUME Init
             PROVE  IInv
  OBVIOUS
<1>1. TypesFit
  BY ThereAreFour, CallsAssumption DEF Init, TypesFit, Whole
<1>2. QED
  BY <1>1 DEF Init, IInv, CallFits, DraftFits, StoreFits, AnswerFits, Answered, Header

LEMMA DetectFits ==
    ASSUME IInv, NEW previous, NEW current, NEW context, Detect(previous, current, context)
    PROVE  IInv'
<1>1. draft = None /\ draft' = None
  BY DEF Detect, IInv, DraftFits
<1>2. calls' \in 0 .. MaxCalls
  BY CallsAssumption DEF Detect, IInv, TypesFit
<1>3. /\ done' = <<>> /\ Len(done') = 0 /\ done' \in Seq({store[r] : r \in Revisions})
      /\ UNCHANGED <<tree, store, writes, draft, next>>
  BY DEF Detect
<1>4. \/ /\ {previous, current} \subseteq Revisions
         /\ call' = [revisions |-> <<previous, current>>, context |-> context] /\ result' = None
      \/ call' = None /\ result'.status = "UNRESOLVED"
  BY DEF Detect
<1>5. TypesFit'
  BY <1>2, <1>3, <1>4 DEF IInv, TypesFit
<1>6. CallFits'
  BY <1>3, <1>4 DEF CallFits, Got
<1>7. AnswerFits'
  BY <1>4 DEF AnswerFits, Answered
<1>8. QED
  BY <1>1, <1>3, <1>5, <1>6, <1>7 DEF IInv, DraftFits, StoreFits

(* The snapshots a call has stay what is stored, and one more may come.    *)
LEMMA GotStays ==
    ASSUME IInv, call # None, call' = call, done' = done,
           DOMAIN store' = Revisions,
           \A i \in 1 .. Len(done) : /\ store'[call.revisions[i]] = store[call.revisions[i]]
                                     /\ writes'[call.revisions[i]] = writes[call.revisions[i]]
    PROVE  done' \in Seq({store'[r] : r \in Revisions}) /\ Got(call.revisions)'
<1>1. /\ done \in Seq({store[r] : r \in Revisions}) /\ Got(call.revisions)
  BY DEF IInv, TypesFit, CallFits
<1>2. \A i \in 1 .. Len(done) : /\ call.revisions[i] \in Revisions
                                /\ done[i] = store'[call.revisions[i]]
                                /\ writes'[call.revisions[i]] >= Header
  BY <1>1 DEF Got
<1>3. done \in Seq({store'[r] : r \in Revisions})
  BY <1>1, <1>2
<1>4. QED
  BY <1>2, <1>3 DEF Got

LEMMA GotOneMore ==
    ASSUME IInv, call # None, Len(done) < 2, call' = call,
           NEW snapshot, done' = Append(done, snapshot),
           DOMAIN store' = Revisions, store'[Awaited] = snapshot, writes'[Awaited] >= Header,
           \A i \in 1 .. Len(done) : /\ store'[call.revisions[i]] = store[call.revisions[i]]
                                     /\ writes'[call.revisions[i]] = writes[call.revisions[i]]
    PROVE  /\ done' \in Seq({store'[r] : r \in Revisions}) /\ Len(done') <= 2
           /\ Got(call.revisions)'
<1>1. /\ Len(done) \in {0, 1} /\ Awaited \in Revisions /\ Awaited = call.revisions[Len(done) + 1]
  BY AwaitedIsThere
<1>2. /\ done \in Seq({store[r] : r \in Revisions}) /\ Got(call.revisions)
  BY DEF IInv, TypesFit, CallFits
<1>3. ASSUME NEW i \in 1 .. Len(done)
      PROVE  /\ call.revisions[i] \in Revisions /\ writes'[call.revisions[i]] >= Header
             /\ done[i] = store'[call.revisions[i]]
  BY <1>2 DEF Got
<1>4. done \in Seq({store'[r] : r \in Revisions})
  BY <1>2, <1>3
<1>5. /\ Len(done') = Len(done) + 1 /\ done'[Len(done) + 1] = snapshot
      /\ \A i \in 1 .. Len(done) : done'[i] = done[i]
  BY <1>2
<1>6. done' \in Seq({store'[r] : r \in Revisions})
  BY <1>1, <1>4
<1>7. ASSUME NEW i \in 1 .. Len(done')
      PROVE  /\ call.revisions[i] \in Revisions /\ writes'[call.revisions[i]] >= Header
             /\ done'[i] = store'[call.revisions[i]]
  <2>1. i \in 1 .. Len(done) \/ i = Len(done) + 1
    BY <1>1, <1>5
  <2> QED
    BY <1>1, <1>3, <1>5, <2>1
<1>8. QED
  BY <1>1, <1>5, <1>6, <1>7 DEF Got

LEMMA UseStoredFits ==
    ASSUME IInv, UseStored
    PROVE  IInv'
<1>1. /\ call # None /\ Len(done) < 2 /\ draft = None /\ writes[Awaited] >= Header
      /\ done' = Append(done, store[Awaited])
      /\ UNCHANGED <<tree, store, writes, call, draft, next, result, calls>>
  BY DEF UseStored, SnapshotIsDue
<1>2. DOMAIN store' = Revisions
  BY <1>1 DEF IInv, TypesFit
<1>3. done' \in Seq({store'[r] : r \in Revisions}) /\ Len(done') <= 2 /\ Got(call.revisions)'
  BY <1>1, <1>2, GotOneMore
<1>4. TypesFit'
  BY <1>1, <1>3 DEF IInv, TypesFit
<1>5. CallFits'
  BY <1>1, <1>3 DEF IInv, CallFits, Got
<1>6. AnswerFits'
  BY <1>1 DEF AnswerFits, Answered
<1>7. QED
  BY <1>1, <1>4, <1>5, <1>6 DEF IInv, DraftFits, StoreFits

LEMMA StartSnapshotFits ==
    ASSUME IInv, StartSnapshot
    PROVE  IInv'
<1>1. /\ call # None /\ Len(done) < 2 /\ writes[Awaited] < Header
      /\ draft' = EmptySnapshot(call.context.service) /\ next' = 1
      /\ UNCHANGED <<tree, store, writes, call, done, result, calls>>
  BY DEF StartSnapshot, SnapshotIsDue
<1>2. Awaited' = Awaited /\ Awaited \in Revisions
  BY <1>1, AwaitedIsThere DEF Awaited
<1>3. TypesFit'
  BY <1>1, ThereAreFour DEF IInv, TypesFit
<1>4. DraftFits'
  <2>1. writes[Awaited] \in Nat /\ writes[Awaited] < Whole
    BY <1>1, <1>2 DEF IInv, TypesFit, Header, Whole
  <2>2. \A i \in 1 .. Len(done) : call.revisions[i] # Awaited
    BY <1>1, <2>1 DEF IInv, CallFits, Got, Header
  <2>3. /\ SnapshotOf(draft', tree[Awaited], Before(next')) /\ draft' = Written(draft', Whole)
        /\ draft'.handlers = {}
    BY <1>1, EmptyIsASnapshot
  <2> QED
    BY <1>1, <1>2, <2>1, <2>2, <2>3 DEF DraftFits
<1>5. AnswerFits'
  BY <1>1 DEF AnswerFits, Answered
<1>6. QED
  BY <1>1, <1>3, <1>4, <1>5 DEF IInv, CallFits, StoreFits, Got

LEMMA RunExtractorFits ==
    ASSUME IInv, RunExtractor
    PROVE  IInv'
<1>1. /\ draft # None /\ next <= Len(Extractors)
      /\ draft' = Extract(draft, tree[Awaited], Extractors[next], call.context.known)
      /\ next' = next + 1
      /\ UNCHANGED <<tree, store, writes, call, done, result, calls>>
  BY DEF RunExtractor
<1>2. /\ call # None /\ Len(done) < 2
      /\ writes[Awaited] < Whole /\ \A i \in 1 .. Len(done) : call.revisions[i] # Awaited
      /\ SnapshotOf(draft, tree[Awaited], Before(next)) /\ draft = Written(draft, Whole)
  BY <1>1 DEF IInv, DraftFits
<1>3. /\ next \in 1 .. 4 /\ next' \in 1 .. Len(Extractors) + 1
  BY <1>1, ThereAreFour DEF IInv, TypesFit
<1>4. tree[Awaited] \in Trees /\ Awaited' = Awaited
  BY <1>1, <1>2, AwaitedIsThere DEF Awaited
<1>5. /\ SnapshotOf(draft', tree[Awaited], Before(next')) /\ draft' = Written(draft', Whole)
      /\ next' <= 3 => draft'.handlers = {}
  <2>1. next <= 3 => draft.handlers = {}
    BY <1>1 DEF IInv, DraftFits
  <2> QED
    BY <1>1, <1>2, <1>3, <1>4, <2>1, ExtractBuilds
<1>6. TypesFit'
  BY <1>1, <1>3 DEF IInv, TypesFit
<1>7. DraftFits'
  BY <1>1, <1>2, <1>4, <1>5 DEF DraftFits
<1>8. AnswerFits'
  BY <1>1, <1>2 DEF AnswerFits, Answered
<1>9. QED
  BY <1>1, <1>6, <1>7, <1>8 DEF IInv, CallFits, StoreFits, Got

LEMMA SaveNextPartFits ==
    ASSUME IInv, SaveNextPart
    PROVE  IInv'
<1> DEFINE n == AfterWrite(writes[Awaited])
<1>1. /\ draft # None /\ next > Len(Extractors)
      /\ writes' = [writes EXCEPT ![Awaited] = AfterWrite(@)]
      /\ store' = [store EXCEPT ![Awaited] = Written(draft, writes'[Awaited])]
      /\ UNCHANGED <<tree, call, result, calls>>
      /\ IF writes'[Awaited] < Whole
         THEN UNCHANGED <<done, draft, next>>
         ELSE done' = Append(done, draft) /\ draft' = None /\ next' = 1
  BY DEF SaveNextPart
<1>2. /\ call # None /\ Len(done) < 2
      /\ writes[Awaited] < Whole /\ \A i \in 1 .. Len(done) : call.revisions[i] # Awaited
      /\ SnapshotOf(draft, tree[Awaited], Before(next)) /\ draft = Written(draft, Whole)
      /\ next <= 3 => draft.handlers = {}
  BY <1>1 DEF IInv, DraftFits
<1>3. SnapshotOf(draft, tree[Awaited], Elements(Extractors))
  BY <1>1, <1>2, ThereAreFour DEF IInv, TypesFit
<1>4. /\ Awaited \in Revisions /\ DOMAIN store = Revisions
      /\ writes \in [Revisions -> 0 .. Whole] /\ n \in 1 .. Whole
  BY <1>2, AwaitedIsThere DEF IInv, TypesFit, AfterWrite, Header, Whole
<1>5. /\ DOMAIN store' = Revisions /\ store'[Awaited] = Written(draft, n)
      /\ writes'[Awaited] = n /\ writes' \in [Revisions -> 0 .. Whole]
      /\ \A r \in Revisions : r # Awaited => store'[r] = store[r] /\ writes'[r] = writes[r]
  <2>1. /\ writes'[Awaited] = n
        /\ \A r \in Revisions : r # Awaited => writes'[r] = writes[r]
    BY <1>1, <1>4
  <2>2. writes' \in [Revisions -> 0 .. Whole]
    BY <1>1, <1>4 DEF Whole
  <2> QED
    BY <1>1, <1>4, <2>1, <2>2
<1> HIDE DEF n
<1>6. \A i \in 1 .. Len(done) : /\ store'[call.revisions[i]] = store[call.revisions[i]]
                                /\ writes'[call.revisions[i]] = writes[call.revisions[i]]
  BY <1>2, <1>5 DEF IInv, CallFits, Got
<1>7. StoreFits'
  <2>1. PartOf(store'[Awaited], tree[Awaited], n)
    BY <1>3, <1>5 DEF PartOf
  <2>2. ~(n < Header)
    BY <1>4 DEF Header
  <2> QED
    BY <1>1, <1>5, <2>1, <2>2 DEF IInv, StoreFits
<1>8. AnswerFits'
  BY <1>1, <1>2 DEF AnswerFits, Answered
<1>9. CASE n < Whole
  <2>1. UNCHANGED <<done, draft, next>> /\ Awaited' = Awaited
    BY <1>1, <1>5, <1>9 DEF Awaited
  <2>2. done' \in Seq({store'[r] : r \in Revisions}) /\ Got(call.revisions)'
    BY <1>1, <1>2, <1>5, <1>6, <2>1, GotStays
  <2>3. TypesFit'
    BY <1>1, <1>2, <1>5, <2>1, <2>2 DEF IInv, TypesFit
  <2>4. CallFits'
    BY <1>1, <2>1, <2>2 DEF IInv, CallFits, Got
  <2>5. DraftFits'
    BY <1>1, <1>2, <1>5, <1>9, <2>1 DEF DraftFits
  <2> QED
    BY <1>7, <1>8, <2>3, <2>4, <2>5 DEF IInv
<1>10. CASE ~(n < Whole)
  <2>1. n = Whole /\ done' = Append(done, draft) /\ draft' = None /\ next' = 1
    BY <1>1, <1>4, <1>5, <1>10 DEF Whole
  <2>2. store'[Awaited] = draft /\ writes'[Awaited] >= Header
    BY <1>2, <1>5, <2>1 DEF Header, Whole
  <2>3. done' \in Seq({store'[r] : r \in Revisions}) /\ Len(done') <= 2 /\ Got(call.revisions)'
    BY <1>1, <1>2, <1>5, <1>6, <2>1, <2>2, GotOneMore
  <2>4. TypesFit'
    BY <1>1, <1>5, <2>1, <2>3, ThereAreFour DEF IInv, TypesFit
  <2>5. CallFits'
    BY <1>1, <2>3 DEF IInv, CallFits, Got
  <2> QED
    BY <1>7, <1>8, <2>1, <2>4, <2>5 DEF IInv, DraftFits
<1>11. QED
  BY <1>9, <1>10

LEMMA FailFits ==
    ASSUME IInv, Fail
    PROVE  IInv'
<1>1. /\ call # None /\ call' = None /\ done' = <<>> /\ draft' = None /\ next' = 1
      /\ UNCHANGED <<tree, store, writes, result, calls>>
  BY DEF Fail
<1>2. result' = None
  BY <1>1 DEF IInv, CallFits
<1>3. done' \in Seq({store'[r] : r \in Revisions}) /\ Len(done') <= 2
  BY <1>1
<1>4. TypesFit'
  BY <1>1, <1>3, ThereAreFour DEF IInv, TypesFit
<1>5. QED
  BY <1>1, <1>2, <1>4 DEF IInv, CallFits, DraftFits, StoreFits, AnswerFits, Answered

LEMMA CompareFits ==
    ASSUME IInv, Compare
    PROVE  IInv'
<1>1. /\ call # None /\ Len(done) = 2 /\ call' = None
      /\ result'.of = call
      /\ result'.status \in {"NO_CHANGES", "CHANGES_DETECTED"}
      /\ result'.changes = Diff(done[1], done[2]).changes
      /\ result'.unknown = Diff(done[1], done[2]).unknown
      /\ UNCHANGED <<tree, store, writes, done, draft, next, calls>>
  BY DEF Compare
<1>2. draft = None
  BY <1>1 DEF IInv, DraftFits
<1>3. Got(call.revisions)
  BY <1>1 DEF IInv, CallFits
<1>4. TypesFit'
  BY <1>1 DEF IInv, TypesFit
<1>5. AnswerFits'
  BY <1>1, <1>3 DEF AnswerFits, Got
<1>6. QED
  BY <1>1, <1>2, <1>4, <1>5 DEF IInv, CallFits, DraftFits, StoreFits

LEMMA StutterFits ==
    ASSUME IInv, UNCHANGED vars
    PROVE  IInv'
BY DEF vars, IInv, TypesFit, CallFits, DraftFits, StoreFits, AnswerFits, Answered, Got, Awaited

(* What is stored of a revision is the first writes of a snapshot of it,   *)
(* whichever call built it and for whom; the snapshots compared are what   *)
(* is stored, and the last answer is the difference between them.          *)
THEOREM InvariantHolds == Spec => []IInv
<1>1. ASSUME IInv, [Next]_vars
      PROVE  IInv'
  BY <1>1, DetectFits, UseStoredFits, StartSnapshotFits, RunExtractorFits, SaveNextPartFits,
     FailFits, CompareFits, StutterFits DEF Next
<1>2. QED
  BY StartsFit, <1>1, PTL DEF Spec

(* Types; and every snapshot, finished or not and stored wholly or not, is *)
(* a graph whose relationships have their ends and whose APIs have one     *)
(* handler.                                                                *)
THEOREM TypeCorrect == Spec => []TypeOK
<1>1. ASSUME IInv
      PROVE  TypeOK
  <2>1. ASSUME NEW s \in ({store[r] : r \in Revisions} \cup Elements(done) \cup {draft}) \ {None}
        PROVE  WellFormed(s)
    <3>1. CASE s = draft
      BY <1>1, <2>1, <3>1 DEF IInv, DraftFits, SnapshotOf
    <3>2. CASE s \in {store[r] : r \in Revisions}
      <4>1. PICK r \in Revisions : s = store[r]
        BY <3>2
      <4>2. PartOf(s, tree[r], writes[r]) /\ writes[r] \in Nat
        BY <1>1, <2>1, <4>1 DEF IInv, StoreFits, TypesFit, Whole
      <4> QED
        BY <4>2, PartFits
    <3>3. Elements(done) \subseteq {store[r] : r \in Revisions}
      BY <1>1 DEF Elements, IInv, TypesFit
    <3> QED
      BY <2>1, <3>1, <3>2, <3>3
  <2> QED
    BY <1>1, <2>1 DEF TypeOK, IInv, TypesFit
<1>2. QED
  BY <1>1, InvariantHolds, PTL

(* Comparing two snapshots the other way around gives the same changes,    *)
(* told backwards, and holds back the same ones.                           *)
THEOREM ReversalsMirror == Spec => []ReversalMirrors
<1>1. ASSUME IInv
      PROVE  ReversalMirrors
  BY <1>1, DiffMirrors DEF IInv, AnswerFits, ReversalMirrors
<1>2. QED
  BY <1>1, InvariantHolds, PTL

-----------------------------------------------------------------------------
(***************************************************************************)
(* What a change says of the two snapshots, and nothing is invented.       *)
(***************************************************************************)
LEMMA KindsDiffer ==
    ASSUME NEW s, NEW t, Shaped(s), Shaped(t)
    PROVE  Facts(s.entities) \cap Facts(t.edges) = {}
<1>1. /\ \A e \in Facts(s.entities) : DOMAIN e = {"type", "name", "method"}
      /\ \A f \in Facts(t.edges) : DOMAIN f = {"rel", "source", "target"}
  BY DEF Shaped
<1>2. {"type", "name", "method"} # {"rel", "source", "target"}
  OBVIOUS
<1>3. QED
  BY <1>1, <1>2

(* An entity that came, went or has another value; or a relationship.      *)
EntityStory(c, prev, cur) ==
    LET before == Facts(prev.entities)
        after == Facts(cur.entities)
        pairs == PairedApis(prev, cur)
    IN /\ c.was = c.about /\ c.about.type # "DEPENDENCY"
       /\ \/ /\ c.change = "ADDED" /\ c.about \in after \ before
             /\ c.about \notin {p[2] : p \in pairs}
          \/ /\ c.change = "REMOVED" /\ c.about \in before \ after
             /\ c.about \notin {p[1] : p \in pairs}
          \/ /\ c.change = "MODIFIED" /\ c.about \in before \cap after
             /\ Values(prev.entities, c.about) # Values(cur.entities, c.about)
             /\ c.files = Files(prev.entities, c.about) \cup Files(cur.entities, c.about)

EdgeStory(c, prev, cur) ==
    LET before == Facts(prev.edges)
        after == Facts(cur.edges)
    IN /\ c.was = c.about
       /\ \/ c.change = "ADDED" /\ c.about \in after \ before /\ ~Implied(c.about, prev, cur)
          \/ c.change = "REMOVED" /\ c.about \in before \ after /\ ~Implied(c.about, prev, cur)
          \/ /\ c.change = "MODIFIED" /\ c.about \in before \cap after
             /\ Values(prev.edges, c.about) # Values(cur.edges, c.about)
             /\ c.files = Files(prev.edges, c.about) \cup Files(cur.edges, c.about)

PairStory(c, prev, cur) ==
    c.change = "MODIFIED" /\ <<c.was, c.about>> \in PairedApis(prev, cur)

LEMMA EveryChangeHasAStory ==
    ASSUME NEW prev, NEW cur, NEW c \in AllChanges(prev, cur)
    PROVE  \/ c \in PairedChanges(prev, cur) /\ PairStory(c, prev, cur)
           \/ c \in EntityChanges(prev, cur) /\ EntityStory(c, prev, cur)
           \/ c \in EdgeChanges(prev, cur) /\ EdgeStory(c, prev, cur)
<1>1. ASSUME c \in PairedChanges(prev, cur)
      PROVE  PairStory(c, prev, cur)
  <2>1. PICK p \in PairedApis(prev, cur) : c.change = "MODIFIED" /\ c.was = p[1] /\ c.about = p[2]
    BY <1>1 DEF PairedChanges, Change
  <2>2. p = <<p[1], p[2]>>
    BY DEF PairedApis
  <2> QED
    BY <2>1, <2>2 DEF PairStory
<1>2. ASSUME c \in EntityChanges(prev, cur)
      PROVE  EntityStory(c, prev, cur)
  BY <1>2 DEF EntityChanges, EntityStory, Change, Reported
<1>3. ASSUME c \in EdgeChanges(prev, cur)
      PROVE  EdgeStory(c, prev, cur)
  BY <1>3 DEF EdgeChanges, EdgeStory, Change
<1>4. QED
  BY <1>1, <1>2, <1>3 DEF AllChanges

LEMMA PairsAreApis ==
    ASSUME NEW prev, NEW cur, NEW p \in PairedApis(prev, cur)
    PROVE  /\ p[1] \in Facts(prev.entities) \ Facts(cur.entities) /\ p[1].type = "API"
           /\ p[2] \in Facts(cur.entities) \ Facts(prev.entities) /\ p[2].type = "API"
           /\ p = <<p[1], p[2]>> /\ p[1] # p[2]
BY DEF PairedApis, Apis

LEMMA PairsAreGoneAndCome ==
    ASSUME NEW prev, NEW cur, NEW c, PairStory(c, prev, cur)
    PROVE  /\ c.was \in Facts(prev.entities) \ Facts(cur.entities) /\ c.was.type = "API"
           /\ c.about \in Facts(cur.entities) \ Facts(prev.entities) /\ c.about.type = "API"
           /\ c.was # c.about
<1> DEFINE p == <<c.was, c.about>>
<1>1. p \in PairedApis(prev, cur) /\ p[1] = c.was /\ p[2] = c.about
  BY DEF PairStory
<1> HIDE DEF p
<1>2. QED
  BY <1>1, PairsAreApis

Everything(s) == Facts(s.entities) \cup Facts(s.edges)

(* A change is one of three.                                               *)
LEMMA ChangesTellTheDifference ==
    ASSUME NEW prev, NEW cur, Shaped(prev), Shaped(cur), NEW c \in AllChanges(prev, cur)
    PROVE  /\ c.change \in {"ADDED", "REMOVED", "MODIFIED"}
           /\ c.change \in {"ADDED", "REMOVED"} => c.was = c.about
           /\ c.change = "ADDED" \/ c.was # c.about => c.about \in Everything(cur) \ Everything(prev)
           /\ c.change = "REMOVED" \/ c.was # c.about => c.was \in Everything(prev) \ Everything(cur)
           /\ c.was # c.about => c.change = "MODIFIED"
<1>1. /\ Facts(prev.entities) \cap Facts(cur.edges) = {}
      /\ Facts(cur.entities) \cap Facts(prev.edges) = {}
      /\ Facts(prev.entities) \cap Facts(prev.edges) = {}
      /\ Facts(cur.entities) \cap Facts(cur.edges) = {}
  BY KindsDiffer
<1>2. CASE PairStory(c, prev, cur)
  BY <1>1, <1>2, PairsAreGoneAndCome DEF PairStory, Everything
<1>3. CASE EntityStory(c, prev, cur)
  BY <1>1, <1>3 DEF EntityStory, Everything
<1>4. CASE EdgeStory(c, prev, cur)
  BY <1>1, <1>4 DEF EdgeStory, Everything
<1>5. QED
  BY <1>2, <1>3, <1>4, EveryChangeHasAStory

(* What files state is in the snapshot, unless one could not be read or    *)
(* the write it is part of was not made.                                   *)
LEMMA StatedIsSeen ==
    ASSUME NEW files \in Trees, NEW s, NEW n \in Nat, PartOf(s, files, n),
           NEW paths, paths \cap s.blocked = {}, NEW x \in Stated(files, paths, s.service),
           n >= WriteOf(x.fact)
    PROVE  x \in s.entities \cup s.edges
<1>1. PICK f \in Elements(files) :
          /\ f.path \in paths
          /\ x \in SeenIn(f, {}, s.service).entities \cup SeenIn(f, {}, s.service).edges
  BY DEF Stated, Entities, Edges
<1>2. PICK m \in DOMAIN files : f = files[m]
  BY DEF Elements
<1>3. files[m].kind \in Elements(Extractors)
  BY FileFits
<1>4. IF files[m].readable
      THEN /\ n >= EntitiesToo => SeenIn(files[m], {}, s.service).entities \subseteq s.entities
           /\ n >= Whole => SeenIn(files[m], {}, s.service).edges \subseteq s.edges
      ELSE files[m].path \in s.blocked
  BY <1>3, PartFits
<1>5. Partial(SeenIn(f, {}, s.service).entities, SeenIn(f, {}, s.service).edges, s.service)
  BY <1>2, FileFits, SeenIsPartial
<1>6. /\ x \in SeenIn(f, {}, s.service).entities => n >= EntitiesToo
      /\ x \in SeenIn(f, {}, s.service).edges => n >= Whole
  <2>1. n >= EntitiesToo
    BY DEF WriteOf, EntitiesToo, Whole
  <2>2. ASSUME x \in SeenIn(f, {}, s.service).edges
        PROVE  n >= Whole
    <3>1. DOMAIN x.fact = {"rel", "source", "target"}
      BY <1>5, <2>2 DEF Partial
    <3> QED
      BY <3>1 DEF WriteOf
  <2> QED
    BY <2>1, <2>2
<1>7. QED
  BY <1>1, <1>2, <1>4, <1>6

(* A fact is seen among these sightings of a snapshot, not the others.     *)
SeenAmong(f, s, sightings, others) ==
    (\A x \in others : x.fact # f) /\ sightings \cup others = s.entities \cup s.edges

(* The files a fact was seen in state its values.                          *)
LEMMA StatedValues ==
    ASSUME NEW files \in Trees, NEW s, NEW n \in Nat, PartOf(s, files, n),
           NEW paths, paths \cap s.blocked = {},
           NEW sightings, NEW others, NEW f, SeenAmong(f, s, sightings, others),
           Files(sightings, f) \subseteq paths, n >= WriteOf(f)
    PROVE  Values(Stated(files, paths, s.service), f) = Values(sightings, f)
<1>1. ASSUME NEW x \in Stated(files, paths, s.service), x.fact = f
      PROVE  x \in sightings
  <2>1. x \in s.entities \cup s.edges
    BY <1>1, StatedIsSeen
  <2> QED
    BY <1>1, <2>1 DEF SeenAmong
<1>2. ASSUME NEW x \in sightings, x.fact = f, x.value # "none"
      PROVE  x \in Stated(files, paths, s.service)
  <2>1. x # Sighting(Service(s.service), "none", NoFile)
    BY <1>2 DEF Sighting
  <2>2. PICK m \in DOMAIN files :
            /\ x.file = files[m].path
            /\ x \in SeenIn(files[m], {}, s.service).entities \cup SeenIn(files[m], {}, s.service).edges
    <3>1. FromFiles(s, files)
      BY PartFits
    <3> QED
      BY <1>2, <2>1, <3>1 DEF FromFiles, SeenAmong
  <2>3. files[m].path # NoFile
    BY FileFits
  <2>4. x.file \in Files(sightings, f)
    BY <1>2, <2>2, <2>3 DEF Files
  <2>5. files[m] \in {g \in Elements(files) : g.path \in paths}
    BY <2>2, <2>4 DEF Elements
  <2> QED
    BY <2>2, <2>5 DEF Stated, Entities, Edges
<1>3. QED
  BY <1>1, <1>2 DEF Values

LEMMA NothingIsInvented ==
    ASSUME NEW before \in Trees, NEW after \in Trees, NEW prev, NEW cur,
           NEW m \in Nat, PartOf(prev, before, m), NEW n \in Nat, PartOf(cur, after, n),
           NEW c \in AllChanges(prev, cur), ~Unknown(c, prev, cur)
    PROVE  /\ c.was # c.about \/ (c.change = "ADDED" /\ m >= WriteOf(c.about))
                 => c.about \notin Facts(Stated(before, c.files, prev.service))
           /\ c.was # c.about \/ (c.change = "REMOVED" /\ n >= WriteOf(c.was))
                 => c.was \notin Facts(Stated(after, c.files, cur.service))
           /\ c.change = "MODIFIED" /\ c.was = c.about =>
                 Values(Stated(before, c.files, prev.service), c.was) # Values(Stated(after, c.files, cur.service), c.about)
<1>1. Shaped(prev) /\ Shaped(cur)
  BY PartFits
<1>w. /\ Facts(prev.entities) # {} => m >= EntitiesToo
      /\ Facts(cur.entities) # {} => n >= EntitiesToo
      /\ Facts(prev.edges) # {} => m >= Whole /\ m >= EntitiesToo
      /\ Facts(cur.edges) # {} => n >= Whole /\ n >= EntitiesToo
  <2>1. /\ m < EntitiesToo => prev.entities = {}
        /\ n < EntitiesToo => cur.entities = {}
        /\ m < Whole => prev.edges = {}
        /\ n < Whole => cur.edges = {}
    BY PartFits
  <2>2. /\ m < EntitiesToo => Facts(prev.entities) = {}
        /\ n < EntitiesToo => Facts(cur.entities) = {}
        /\ m < Whole => Facts(prev.edges) = {}
        /\ n < Whole => Facts(cur.edges) = {}
    BY <2>1 DEF Facts
  <2> QED
    BY <2>2 DEF EntitiesToo, Whole
(* An API that moved is in both snapshots' entities, so these were written. *)
<1>m. ASSUME c.was # c.about
      PROVE  m >= WriteOf(c.about) /\ n >= WriteOf(c.was)
  <2>1. PairStory(c, prev, cur)
    BY <1>m, EveryChangeHasAStory DEF EntityStory, EdgeStory
  <2>2. c.was \in Facts(prev.entities) /\ c.about \in Facts(cur.entities)
    BY <2>1, PairsAreGoneAndCome
  <2>3. DOMAIN c.was = {"type", "name", "method"} /\ DOMAIN c.about = {"type", "name", "method"}
    BY <1>1, <2>2 DEF Shaped
  <2>4. m >= EntitiesToo /\ n >= EntitiesToo
    BY <1>w, <2>2
  <2> QED
    BY <2>3, <2>4 DEF WriteOf
<1>2. /\ c.change \in {"ADDED", "MODIFIED"} => c.files \cap prev.blocked = {}
      /\ c.change \in {"REMOVED", "MODIFIED"} => c.files \cap cur.blocked = {}
  BY DEF Unknown
<1>3. ASSUME c.was # c.about \/ (c.change = "ADDED" /\ m >= WriteOf(c.about))
      PROVE  c.about \notin Facts(Stated(before, c.files, prev.service))
  <2>1. c.about \notin Everything(prev) /\ c.files \cap prev.blocked = {}
    BY <1>1, <1>2, <1>3, ChangesTellTheDifference
  <2>2. \A x \in Stated(before, c.files, prev.service) :
           x.fact = c.about => x \in prev.entities \cup prev.edges
    BY <1>3, <1>m, <2>1, StatedIsSeen
  <2> QED
    BY <2>1, <2>2 DEF Facts, Everything
<1>4. ASSUME c.was # c.about \/ (c.change = "REMOVED" /\ n >= WriteOf(c.was))
      PROVE  c.was \notin Facts(Stated(after, c.files, cur.service))
  <2>1. c.was \notin Everything(cur) /\ c.files \cap cur.blocked = {}
    BY <1>1, <1>2, <1>4, ChangesTellTheDifference
  <2>2. \A x \in Stated(after, c.files, cur.service) :
           x.fact = c.was => x \in cur.entities \cup cur.edges
    BY <1>4, <1>m, <2>1, StatedIsSeen
  <2> QED
    BY <2>1, <2>2 DEF Facts, Everything
<1>5. ASSUME c.change = "MODIFIED", c.was = c.about
      PROVE  Values(Stated(before, c.files, prev.service), c.was) # Values(Stated(after, c.files, cur.service), c.about)
  <2> DEFINE f == c.about
  <2>1. c.files \cap prev.blocked = {} /\ c.files \cap cur.blocked = {}
    BY <1>2, <1>5
  <2>2. ~PairStory(c, prev, cur)
    BY <1>5, PairsAreGoneAndCome
  <2>3. CASE EntityStory(c, prev, cur)
    <3>1. /\ f \in Facts(prev.entities) \cap Facts(cur.entities)
          /\ Values(prev.entities, f) # Values(cur.entities, f)
          /\ Files(prev.entities, f) \subseteq c.files /\ Files(cur.entities, f) \subseteq c.files
      BY <1>5, <2>3 DEF EntityStory
    <3>2. f \notin Facts(prev.edges) /\ f \notin Facts(cur.edges)
      BY <1>1, <3>1, KindsDiffer
    <3>3. (\A x \in prev.edges : x.fact # f) /\ (\A x \in cur.edges : x.fact # f)
      BY <3>2 DEF Facts
    <3>6. /\ SeenAmong(f, prev, prev.entities, prev.edges)
          /\ SeenAmong(f, cur, cur.entities, cur.edges)
      BY <3>3 DEF SeenAmong
    <3>7. m >= WriteOf(f) /\ n >= WriteOf(f)
      <4>1. DOMAIN f = {"type", "name", "method"}
        BY <1>1, <3>1 DEF Shaped
      <4> HIDE DEF f
      <4>2. m >= EntitiesToo /\ n >= EntitiesToo
        BY <1>w, <3>1
      <4> QED
        BY <4>1, <4>2 DEF WriteOf
    <3> HIDE DEF f
    <3>4. Values(Stated(before, c.files, prev.service), f) = Values(prev.entities, f)
      BY <2>1, <3>1, <3>6, <3>7, StatedValues
    <3>5. Values(Stated(after, c.files, cur.service), f) = Values(cur.entities, f)
      BY <2>1, <3>1, <3>6, <3>7, StatedValues
    <3> QED
      BY <1>5, <3>1, <3>4, <3>5 DEF f
  <2>4. CASE EdgeStory(c, prev, cur)
    <3>1. /\ f \in Facts(prev.edges) \cap Facts(cur.edges)
          /\ Values(prev.edges, f) # Values(cur.edges, f)
          /\ Files(prev.edges, f) \subseteq c.files /\ Files(cur.edges, f) \subseteq c.files
      BY <1>5, <2>4 DEF EdgeStory
    <3>2. f \notin Facts(prev.entities) /\ f \notin Facts(cur.entities)
      BY <1>1, <3>1, KindsDiffer
    <3>3. (\A x \in prev.entities : x.fact # f) /\ (\A x \in cur.entities : x.fact # f)
      BY <3>2 DEF Facts
    <3>4. /\ SeenAmong(f, prev, prev.edges, prev.entities)
          /\ SeenAmong(f, cur, cur.edges, cur.entities)
      BY <3>3 DEF SeenAmong
    <3> HIDE DEF f
    <3>7. m >= WriteOf(f) /\ n >= WriteOf(f)
      <4>1. m >= Whole /\ n >= Whole /\ m >= EntitiesToo /\ n >= EntitiesToo
        BY <1>w, <3>1
      <4> QED
        BY <4>1 DEF WriteOf
    <3>5. Values(Stated(before, c.files, prev.service), f) = Values(prev.edges, f)
      BY <2>1, <3>1, <3>4, <3>7, StatedValues
    <3>6. Values(Stated(after, c.files, cur.service), f) = Values(cur.edges, f)
      BY <2>1, <3>1, <3>4, <3>7, StatedValues
    <3> QED
      BY <1>5, <3>1, <3>5, <3>6 DEF f
  <2> QED
    BY <2>2, <2>3, <2>4, EveryChangeHasAStory
<1>6. QED
  BY <1>3, <1>4, <1>5

(* The answer at hand compares two snapshots of the store.                 *)
LEMMA AnswerCompares ==
    ASSUME IInv, Answered
    PROVE  LET before == tree[result.of.revisions[1]]
               after == tree[result.of.revisions[2]]
               m == writes[result.of.revisions[1]]
               n == writes[result.of.revisions[2]]
           IN /\ before \in Trees /\ m \in Nat /\ PartOf(done[1], before, m)
              /\ after \in Trees /\ n \in Nat /\ PartOf(done[2], after, n)
              /\ result.changes = {c \in AllChanges(done[1], done[2]) : ~Unknown(c, done[1], done[2])}
              /\ result.unknown = {c \in AllChanges(done[1], done[2]) : Unknown(c, done[1], done[2])}
              /\ Told = AllChanges(done[1], done[2])
<1>1. /\ Len(done) = 2 /\ Got(result.of.revisions)
      /\ result.changes = Diff(done[1], done[2]).changes
      /\ result.unknown = Diff(done[1], done[2]).unknown
  BY DEF IInv, AnswerFits
<1>2. ASSUME NEW i \in {1, 2}
      PROVE  /\ tree[result.of.revisions[i]] \in Trees
             /\ writes[result.of.revisions[i]] \in Nat
             /\ PartOf(done[i], tree[result.of.revisions[i]], writes[result.of.revisions[i]])
  <2>1. i \in 1 .. Len(done)
    BY <1>1
  <2>2. /\ result.of.revisions[i] \in Revisions /\ writes[result.of.revisions[i]] >= Header
        /\ done[i] = store[result.of.revisions[i]]
    BY <1>1, <2>1 DEF Got
  <2> QED
    BY <2>2 DEF IInv, TypesFit, StoreFits, Whole, Header
<1>3. /\ result.changes = {c \in AllChanges(done[1], done[2]) : ~Unknown(c, done[1], done[2])}
      /\ result.unknown = {c \in AllChanges(done[1], done[2]) : Unknown(c, done[1], done[2])}
  BY <1>1 DEF Diff, AllChanges
<1>4. Told = AllChanges(done[1], done[2])
  BY <1>3 DEF Told
<1>5. QED
  BY <1>2, <1>3, <1>4

(* A change is not reported when the files of its evidence say that there  *)
(* is none: what is added was not stated before, what is removed is not    *)
(* stated now, unless the write that stores such facts was never made on   *)
(* the other side; an API that moved is gone and new, and what is modified *)
(* is stated differently, whatever was written.                            *)
THEOREM ChangesAreNotInvented == Spec => []NothingInvented
<1>1. ASSUME IInv, Answered, NEW c \in result.changes
      PROVE  LET revisions == result.of.revisions
                 then == Stated(tree[revisions[1]], c.files, done[1].service)
                 now == Stated(tree[revisions[2]], c.files, done[2].service)
             IN /\ c \in Moved \/ (c \in Of("ADDED") /\ WasWritten(revisions[1], c.about))
                      => c.about \notin Facts(then)
                /\ c \in Moved \/ (c \in Of("REMOVED") /\ WasWritten(revisions[2], c.was))
                      => c.was \notin Facts(now)
                /\ c \in Of("MODIFIED") \ Moved => Values(then, c.was) # Values(now, c.about)
  <2> DEFINE before == tree[result.of.revisions[1]]
             after == tree[result.of.revisions[2]]
             m == writes[result.of.revisions[1]]
             n == writes[result.of.revisions[2]]
  <2>1. /\ before \in Trees /\ m \in Nat /\ PartOf(done[1], before, m)
        /\ after \in Trees /\ n \in Nat /\ PartOf(done[2], after, n)
        /\ c \in AllChanges(done[1], done[2]) /\ ~Unknown(c, done[1], done[2])
    BY <1>1, AnswerCompares
  <2> HIDE DEF before, after, m, n
  <2>2. /\ c.was # c.about \/ (c.change = "ADDED" /\ m >= WriteOf(c.about))
              => c.about \notin Facts(Stated(before, c.files, done[1].service))
        /\ c.was # c.about \/ (c.change = "REMOVED" /\ n >= WriteOf(c.was))
              => c.was \notin Facts(Stated(after, c.files, done[2].service))
        /\ c.change = "MODIFIED" /\ c.was = c.about =>
              Values(Stated(before, c.files, done[1].service), c.was)
                  # Values(Stated(after, c.files, done[2].service), c.about)
    BY <2>1, NothingIsInvented
  <2>3. /\ c \in Of("ADDED") => c.change = "ADDED"
        /\ c \in Of("REMOVED") => c.change = "REMOVED"
        /\ c \in Of("MODIFIED") => c.change = "MODIFIED"
        /\ c \in Moved => c.was # c.about
        /\ c \in Of("MODIFIED") \ Moved => c.was = c.about
    BY DEF Of, Moved
  <2>4. \A fact : /\ WasWritten(result.of.revisions[1], fact) => m >= WriteOf(fact)
                  /\ WasWritten(result.of.revisions[2], fact) => n >= WriteOf(fact)
    BY DEF WasWritten, m, n
  <2> QED
    BY <2>2, <2>3, <2>4 DEF before, after
<1>2. ASSUME IInv
      PROVE  NothingInvented
  BY <1>1, <1>2 DEF NothingInvented
<1>3. QED
  BY <1>2, InvariantHolds, PTL

-----------------------------------------------------------------------------
(***************************************************************************)
(* The changes are all that lies between the two snapshots.                *)
(***************************************************************************)
(* One fact, one change.                                                   *)
EntityChangeOf(e, prev, cur) ==
    IF e \notin Facts(prev.entities)
    THEN Change("ADDED", e, e, <<e.type, "ADDED">>, Files(cur.entities, e))
    ELSE IF e \notin Facts(cur.entities)
    THEN Change("REMOVED", e, e, <<e.type, "REMOVED">>, Files(prev.entities, e))
    ELSE Change("MODIFIED", e, e, <<"ENTITY", "MODIFIED">>,
                Files(prev.entities, e) \cup Files(cur.entities, e))

EdgeChangeOf(e, prev, cur) ==
    IF e \notin Facts(prev.edges)
    THEN Change("ADDED", e, e, EdgeCategory(e, "ADDED"), Files(cur.edges, e))
    ELSE IF e \notin Facts(cur.edges)
    THEN Change("REMOVED", e, e, EdgeCategory(e, "REMOVED"), Files(prev.edges, e))
    ELSE Change("MODIFIED", e, e,
                IF e.rel = "DEPENDS_ON" /\ e.target.type = "DEPENDENCY"
                THEN <<"DEPENDENCY_VERSION", "CHANGED">> ELSE <<"RELATIONSHIP", "MODIFIED">>,
                Files(prev.edges, e) \cup Files(cur.edges, e))

PairChangeOf(was, about, prev, cur) ==
    Change("MODIFIED", was, about,
           IF was.method = about.method THEN <<"API_PATH", "CHANGED">> ELSE <<"API_METHOD", "CHANGED">>,
           Files(prev.entities, was) \cup Files(cur.entities, about))

LEMMA ChangeIsOfItsFact ==
    ASSUME NEW prev, NEW cur, NEW c
    PROVE  /\ c \in PairedChanges(prev, cur) => c = PairChangeOf(c.was, c.about, prev, cur)
           /\ c \in EntityChanges(prev, cur) => c = EntityChangeOf(c.about, prev, cur)
           /\ c \in EdgeChanges(prev, cur) => c = EdgeChangeOf(c.about, prev, cur)
<1>1. ASSUME NEW was, NEW about
      PROVE  /\ PairChangeOf(was, about, prev, cur).was = was
             /\ PairChangeOf(was, about, prev, cur).about = about
             /\ EntityChangeOf(about, prev, cur).about = about
             /\ EdgeChangeOf(about, prev, cur).about = about
  BY DEF Change, PairChangeOf, EntityChangeOf, EdgeChangeOf
<1>2. ASSUME c \in PairedChanges(prev, cur)
      PROVE  c = PairChangeOf(c.was, c.about, prev, cur)
  <2>1. \E p \in PairedApis(prev, cur) : c = PairChangeOf(p[1], p[2], prev, cur)
    BY <1>2 DEF PairedChanges, PairChangeOf
  <2> QED
    BY <1>1, <2>1
<1>3. ASSUME c \in EntityChanges(prev, cur)
      PROVE  c = EntityChangeOf(c.about, prev, cur)
  <2>1. \E e : c = EntityChangeOf(e, prev, cur)
    BY <1>3 DEF EntityChanges, EntityChangeOf, Reported
  <2> QED
    BY <1>1, <2>1
<1>4. ASSUME c \in EdgeChanges(prev, cur)
      PROVE  c = EdgeChangeOf(c.about, prev, cur)
  <2>1. \E e : c = EdgeChangeOf(e, prev, cur)
    BY <1>4 DEF EdgeChanges, EdgeChangeOf
  <2> QED
    BY <1>1, <2>1
<1>5. QED
  BY <1>2, <1>3, <1>4

(* An API has at most one counterpart.                                     *)
LEMMA PairsAreUnique ==
    ASSUME NEW prev, NEW cur, NEW p \in PairedApis(prev, cur), NEW q \in PairedApis(prev, cur),
           p[1] = q[1] \/ p[2] = q[2]
    PROVE  p[1] = q[1] /\ p[2] = q[2]
<1> DEFINE gone == Apis(Facts(prev.entities) \ Facts(cur.entities))
           come == Apis(Facts(cur.entities) \ Facts(prev.entities))
<1>1. \A r \in PairedApis(prev, cur) :
          /\ r[1] \in gone /\ r[2] \in come
          /\ {a \in gone : HandlerOf(prev, a) = HandlerOf(prev, r[1])} = {r[1]}
          /\ {a \in come : HandlerOf(cur, a) = HandlerOf(prev, r[1])} = {r[2]}
  BY DEF PairedApis
<1> HIDE DEF gone, come
<1>2. HandlerOf(cur, p[2]) = HandlerOf(prev, p[1]) /\ HandlerOf(cur, q[2]) = HandlerOf(prev, q[1])
  BY <1>1
<1>3. HandlerOf(prev, p[1]) = HandlerOf(prev, q[1])
  BY <1>2
<1>4. {p[1]} = {q[1]} /\ {p[2]} = {q[2]}
  BY <1>1, <1>3
<1>5. QED
  BY <1>4

LEMMA OneChangeOfAFact ==
    ASSUME NEW prev, NEW cur, Shaped(prev), Shaped(cur),
           NEW c \in AllChanges(prev, cur), NEW d \in AllChanges(prev, cur),
           {c.was, c.about} \cap {d.was, d.about} # {}
    PROVE  c = d
<1>1. ASSUME NEW x \in AllChanges(prev, cur)
      PROVE  \/ /\ PairStory(x, prev, cur) /\ x = PairChangeOf(x.was, x.about, prev, cur)
                /\ {x.was, x.about} \subseteq Facts(prev.entities) \cup Facts(cur.entities)
             \/ /\ EntityStory(x, prev, cur) /\ x = EntityChangeOf(x.about, prev, cur)
                /\ {x.was, x.about} \subseteq Facts(prev.entities) \cup Facts(cur.entities)
             \/ /\ EdgeStory(x, prev, cur) /\ x = EdgeChangeOf(x.about, prev, cur)
                /\ {x.was, x.about} \subseteq Facts(prev.edges) \cup Facts(cur.edges)
  <2>1. CASE x \in PairedChanges(prev, cur) /\ PairStory(x, prev, cur)
    BY <2>1, ChangeIsOfItsFact, PairsAreGoneAndCome
  <2>2. CASE x \in EntityChanges(prev, cur) /\ EntityStory(x, prev, cur)
    BY <2>2, ChangeIsOfItsFact DEF EntityStory
  <2>3. CASE x \in EdgeChanges(prev, cur) /\ EdgeStory(x, prev, cur)
    BY <2>3, ChangeIsOfItsFact DEF EdgeStory
  <2> QED
    BY <2>1, <2>2, <2>3, EveryChangeHasAStory
<1>2. (Facts(prev.entities) \cup Facts(cur.entities)) \cap (Facts(prev.edges) \cup Facts(cur.edges)) = {}
  BY KindsDiffer
<1>3. CASE PairStory(c, prev, cur) /\ PairStory(d, prev, cur)
  <2> DEFINE p == <<c.was, c.about>>
             q == <<d.was, d.about>>
  <2>1. /\ p \in PairedApis(prev, cur) /\ p[1] = c.was /\ p[2] = c.about
        /\ q \in PairedApis(prev, cur) /\ q[1] = d.was /\ q[2] = d.about
    BY <1>3 DEF PairStory
  <2> HIDE DEF p, q
  <2>2. p[1] = q[1] \/ p[2] = q[2]
    BY <1>3, <2>1, PairsAreGoneAndCome
  <2>3. c.was = d.was /\ c.about = d.about
    BY <2>1, <2>2, PairsAreUnique
  <2>4. /\ c = PairChangeOf(c.was, c.about, prev, cur) /\ d = PairChangeOf(d.was, d.about, prev, cur)
    <3>1. c.was # c.about /\ d.was # d.about
      BY <1>3, PairsAreGoneAndCome
    <3>2. ~EntityStory(c, prev, cur) /\ ~EdgeStory(c, prev, cur)
          /\ ~EntityStory(d, prev, cur) /\ ~EdgeStory(d, prev, cur)
      BY <3>1 DEF EntityStory, EdgeStory
    <3> QED
      BY <1>1, <3>2
  <2> QED
    BY <2>3, <2>4
<1>4. ASSUME NEW x \in AllChanges(prev, cur), NEW y \in AllChanges(prev, cur),
             PairStory(x, prev, cur), EntityStory(y, prev, cur)
      PROVE  {x.was, x.about} \cap {y.was, y.about} = {}
  <2>1. /\ x.was \in Facts(prev.entities) \ Facts(cur.entities)
        /\ x.about \in Facts(cur.entities) \ Facts(prev.entities)
    BY <1>4, PairsAreGoneAndCome
  <2>2. x.was \in {p[1] : p \in PairedApis(prev, cur)} /\ x.about \in {p[2] : p \in PairedApis(prev, cur)}
    <3> DEFINE p == <<x.was, x.about>>
    <3>1. p \in PairedApis(prev, cur) /\ p[1] = x.was /\ p[2] = x.about
      BY <1>4 DEF PairStory
    <3> HIDE DEF p
    <3> QED
      BY <3>1
  <2> QED
    BY <1>4, <2>1, <2>2 DEF EntityStory
<1>5. CASE c.about = d.about /\ c.was = c.about /\ d.was = d.about
  <2>1. ~PairStory(c, prev, cur) /\ ~PairStory(d, prev, cur)
    BY <1>5, PairsAreGoneAndCome
  <2> QED
    BY <1>1, <1>2, <1>5, <2>1
<1>6. QED
  <2>1. \A x : EntityStory(x, prev, cur) \/ EdgeStory(x, prev, cur) => x.was = x.about
    BY DEF EntityStory, EdgeStory
  <2> QED
    BY <1>1, <1>2, <1>3, <1>4, <1>5, <2>1

(* What the changes between two snapshots say is gone, and come.           *)
GoneOf(prev, cur) ==
    {c.was : c \in {d \in AllChanges(prev, cur) : d.change = "REMOVED" \/ d.was # d.about}}
ComeOf(prev, cur) ==
    {c.about : c \in {d \in AllChanges(prev, cur) : d.change = "ADDED" \/ d.was # d.about}}

LEMMA GoneAndCome ==
    ASSUME NEW prev, NEW cur, Shaped(prev), Shaped(cur)
    PROVE  /\ GoneOf(prev, cur) \subseteq Everything(prev) \ Everything(cur)
           /\ ComeOf(prev, cur) \subseteq Everything(cur) \ Everything(prev)
           /\ Reported(Facts(prev.entities)) \ Facts(cur.entities) \subseteq GoneOf(prev, cur)
           /\ Reported(Facts(cur.entities)) \ Facts(prev.entities) \subseteq ComeOf(prev, cur)
           /\ \A f \in Facts(prev.edges) \ Facts(cur.edges) : Implied(f, prev, cur) \/ f \in GoneOf(prev, cur)
           /\ \A f \in Facts(cur.edges) \ Facts(prev.edges) : Implied(f, prev, cur) \/ f \in ComeOf(prev, cur)
           /\ ComeOf(prev, cur) \subseteq Facts(cur.edges) \cup Reported(Facts(cur.entities))
<1>1. /\ GoneOf(prev, cur) \subseteq Everything(prev) \ Everything(cur)
      /\ ComeOf(prev, cur) \subseteq Everything(cur) \ Everything(prev)
  BY ChangesTellTheDifference DEF GoneOf, ComeOf
<1>2. ASSUME NEW p \in PairedApis(prev, cur)
      PROVE  p[1] \in GoneOf(prev, cur) /\ p[2] \in ComeOf(prev, cur)
  <2> DEFINE c == PairChangeOf(p[1], p[2], prev, cur)
  <2>1. c \in PairedChanges(prev, cur)
    BY DEF PairedChanges, PairChangeOf
  <2>2. c.was = p[1] /\ c.about = p[2]
    BY DEF PairChangeOf, Change
  <2> HIDE DEF c
  <2>3. c.was # c.about /\ c \in AllChanges(prev, cur)
    BY <2>1, <2>2, PairsAreApis DEF AllChanges
  <2> QED
    BY <2>2, <2>3 DEF GoneOf, ComeOf
<1>3. ASSUME NEW e \in Reported(Facts(prev.entities)) \ Facts(cur.entities)
      PROVE  e \in GoneOf(prev, cur)
  <2>1. CASE e \in {p[1] : p \in PairedApis(prev, cur)}
    BY <1>2, <2>1
  <2>2. CASE e \notin {p[1] : p \in PairedApis(prev, cur)}
    <3> DEFINE c == Change("REMOVED", e, e, <<e.type, "REMOVED">>, Files(prev.entities, e))
    <3>1. e \in (Reported(Facts(prev.entities)) \ Reported(Facts(cur.entities)))
                    \ {p[1] : p \in PairedApis(prev, cur)}
      BY <2>2 DEF Reported
    <3>2. c \in EntityChanges(prev, cur)
      BY <3>1 DEF EntityChanges
    <3>3. c.was = e /\ c.change = "REMOVED"
      BY DEF Change
    <3> HIDE DEF c
    <3> QED
      BY <3>2, <3>3 DEF AllChanges, GoneOf
  <2> QED
    BY <2>1, <2>2
<1>4. ASSUME NEW e \in Reported(Facts(cur.entities)) \ Facts(prev.entities)
      PROVE  e \in ComeOf(prev, cur)
  <2>1. CASE e \in {p[2] : p \in PairedApis(prev, cur)}
    BY <1>2, <2>1
  <2>2. CASE e \notin {p[2] : p \in PairedApis(prev, cur)}
    <3> DEFINE c == Change("ADDED", e, e, <<e.type, "ADDED">>, Files(cur.entities, e))
    <3>1. e \in (Reported(Facts(cur.entities)) \ Reported(Facts(prev.entities)))
                    \ {p[2] : p \in PairedApis(prev, cur)}
      BY <2>2 DEF Reported
    <3>2. c \in EntityChanges(prev, cur)
      BY <3>1 DEF EntityChanges
    <3>3. c.about = e /\ c.change = "ADDED"
      BY DEF Change
    <3> HIDE DEF c
    <3> QED
      BY <3>2, <3>3 DEF AllChanges, ComeOf
  <2> QED
    BY <2>1, <2>2
<1>5. ASSUME NEW f \in Facts(prev.edges) \ Facts(cur.edges), ~Implied(f, prev, cur)
      PROVE  f \in GoneOf(prev, cur)
  <2> DEFINE c == Change("REMOVED", f, f, EdgeCategory(f, "REMOVED"), Files(prev.edges, f))
  <2>1. c \in EdgeChanges(prev, cur)
    BY <1>5 DEF EdgeChanges
  <2>2. c.was = f /\ c.change = "REMOVED"
    BY DEF Change
  <2> HIDE DEF c
  <2> QED
    BY <2>1, <2>2 DEF AllChanges, GoneOf
<1>6. ASSUME NEW f \in Facts(cur.edges) \ Facts(prev.edges), ~Implied(f, prev, cur)
      PROVE  f \in ComeOf(prev, cur)
  <2> DEFINE c == Change("ADDED", f, f, EdgeCategory(f, "ADDED"), Files(cur.edges, f))
  <2>1. c \in EdgeChanges(prev, cur)
    BY <1>6 DEF EdgeChanges
  <2>2. c.about = f /\ c.change = "ADDED"
    BY DEF Change
  <2> HIDE DEF c
  <2> QED
    BY <2>1, <2>2 DEF AllChanges, ComeOf
<1>7. ASSUME NEW e \in ComeOf(prev, cur)
      PROVE  e \in Facts(cur.edges) \cup Reported(Facts(cur.entities))
  <2>1. PICK c \in AllChanges(prev, cur) : e = c.about /\ (c.change = "ADDED" \/ c.was # c.about)
    BY DEF ComeOf
  <2>2. CASE PairStory(c, prev, cur)
    BY <2>1, <2>2, PairsAreGoneAndCome DEF Reported
  <2>3. CASE EntityStory(c, prev, cur)
    BY <2>1, <2>3 DEF EntityStory, Reported
  <2>4. CASE EdgeStory(c, prev, cur)
    BY <2>1, <2>4 DEF EdgeStory
  <2> QED
    BY <2>2, <2>3, <2>4, EveryChangeHasAStory
<1>8. QED
  BY <1>1, <1>3, <1>4, <1>5, <1>6, <1>7

(* The exposures of APIs by the service of a snapshot.                     *)
ExposuresOf(s, facts) == {Edge("EXPOSES", Service(s.service), a) : a \in Apis(facts)}

LEMMA ExposureIsOfItsApi ==
    ASSUME NEW s, NEW facts, NEW f
    PROVE  /\ f \in ExposuresOf(s, facts) => f.rel = "EXPOSES" /\ f.target \in facts /\ f.target.type = "API"
           /\ \A a \in facts : a.type = "API" /\ f = Edge("EXPOSES", Service(s.service), a)
                 => f \in ExposuresOf(s, facts)
BY DEF ExposuresOf, Apis, Edge

LEMMA EntitiesReplay ==
    ASSUME NEW prev, NEW cur, Shaped(prev), Shaped(cur)
    PROVE  (Reported(Facts(prev.entities)) \ GoneOf(prev, cur)) \cup (ComeOf(prev, cur) \ Facts(cur.edges))
               = Reported(Facts(cur.entities))
<1>1. /\ GoneOf(prev, cur) \subseteq Everything(prev) \ Everything(cur)
      /\ Reported(Facts(prev.entities)) \ Facts(cur.entities) \subseteq GoneOf(prev, cur)
      /\ Reported(Facts(cur.entities)) \ Facts(prev.entities) \subseteq ComeOf(prev, cur)
      /\ ComeOf(prev, cur) \subseteq Facts(cur.edges) \cup Reported(Facts(cur.entities))
  BY GoneAndCome
<1>2. Facts(cur.entities) \cap Facts(cur.edges) = {}
  BY KindsDiffer
<1>3. QED
  BY <1>1, <1>2 DEF Reported, Everything

LEMMA EdgesReplay ==
    ASSUME NEW prev, NEW cur, Shaped(prev), Shaped(cur), WellFormed(prev), WellFormed(cur)
    PROVE  LET edges == (Facts(prev.edges)
                           \ (GoneOf(prev, cur) \cup ExposuresOf(prev, GoneOf(prev, cur) \ Facts(prev.edges))))
                        \cup (ComeOf(prev, cur) \ Facts(cur.entities))
               exposed == ExposuresOf(cur, ComeOf(prev, cur) \ Facts(cur.edges))
           IN /\ edges \ exposed = Facts(cur.edges) \ exposed
              /\ edges \subseteq Facts(cur.edges)
              /\ Full(cur) => exposed \subseteq Facts(cur.edges)
<1> DEFINE gone == GoneOf(prev, cur)
           come == ComeOf(prev, cur)
<1>1. /\ gone \subseteq Everything(prev) \ Everything(cur)
      /\ come \subseteq Everything(cur) \ Everything(prev)
      /\ Reported(Facts(prev.entities)) \ Facts(cur.entities) \subseteq gone
      /\ Reported(Facts(cur.entities)) \ Facts(prev.entities) \subseteq come
      /\ \A f \in Facts(prev.edges) \ Facts(cur.edges) : Implied(f, prev, cur) \/ f \in gone
      /\ \A f \in Facts(cur.edges) \ Facts(prev.edges) : Implied(f, prev, cur) \/ f \in come
  BY GoneAndCome
<1> HIDE DEF gone, come
<1>2. /\ Facts(cur.entities) \cap Facts(cur.edges) = {} /\ Facts(prev.entities) \cap Facts(prev.edges) = {}
  BY KindsDiffer
<1>3. ASSUME NEW f, Implied(f, prev, cur)
      PROVE  /\ f \in Facts(prev.edges) => /\ f.target \in Facts(prev.entities)
                                           /\ f = Edge("EXPOSES", Service(prev.service), f.target)
             /\ f \in Facts(cur.edges) => /\ f.target \in Facts(cur.entities)
                                          /\ f = Edge("EXPOSES", Service(cur.service), f.target)
             /\ f \in Facts(prev.edges) \cup Facts(cur.edges) => f.target.type = "API"
             /\ f.target \in Facts(prev.entities) <=> f.target \notin Facts(cur.entities)
  BY <1>3 DEF WellFormed, Shaped, Implied
<1>4. ASSUME NEW f \in Facts(prev.edges), f \notin gone, f \notin ExposuresOf(prev, gone \ Facts(prev.edges)),
             f \notin Facts(cur.edges)
      PROVE  FALSE
  <2>1. Implied(f, prev, cur)
    BY <1>1, <1>4
  <2>2. /\ f.target \in Facts(prev.entities) \ Facts(cur.entities)
        /\ f = Edge("EXPOSES", Service(prev.service), f.target) /\ f.target.type = "API"
    BY <1>3, <1>4, <2>1
  <2>3. f.target \in gone \ Facts(prev.edges)
    BY <1>1, <1>2, <2>2 DEF Reported
  <2> QED
    BY <1>4, <2>2, <2>3, ExposureIsOfItsApi
<1>5. ASSUME Full(cur), NEW f \in ExposuresOf(cur, come \ Facts(cur.edges))
      PROVE  f \in Facts(cur.edges)
  <2>1. PICK a \in come \ Facts(cur.edges) : a.type = "API" /\ f = Edge("EXPOSES", Service(cur.service), a)
    BY DEF ExposuresOf, Apis
  <2>2. a \in Facts(cur.entities)
    BY <1>1, <2>1 DEF Everything
  <2> QED
    BY <1>5, <2>1, <2>2 DEF Full
<1>6. ASSUME NEW f \in Facts(cur.edges), f \in Facts(prev.edges)
      PROVE  f \notin gone /\ f \notin ExposuresOf(prev, gone \ Facts(prev.edges))
  <2>1. f \notin gone
    BY <1>1, <1>6 DEF Everything
  <2>2. f.target \notin gone
    BY <1>1, <1>6 DEF Everything, WellFormed
  <2> QED
    BY <2>1, <2>2, ExposureIsOfItsApi
<1>7. ASSUME NEW f \in Facts(cur.edges), f \notin Facts(prev.edges), f \notin come \ Facts(cur.entities)
      PROVE  f \in ExposuresOf(cur, come \ Facts(cur.edges))
  <2>1. Implied(f, prev, cur)
    BY <1>1, <1>2, <1>7
  <2>2. /\ f.target \in Facts(cur.entities) \ Facts(prev.entities)
        /\ f = Edge("EXPOSES", Service(cur.service), f.target) /\ f.target.type = "API"
    BY <1>3, <1>7, <2>1
  <2>3. f.target \in come \ Facts(cur.edges)
    BY <1>1, <1>2, <2>2 DEF Reported
  <2> QED
    BY <2>2, <2>3, ExposureIsOfItsApi
<1>8. come \ Facts(cur.entities) \subseteq Facts(cur.edges)
  BY <1>1 DEF Everything
<1> DEFINE edges == (Facts(prev.edges) \ (gone \cup ExposuresOf(prev, gone \ Facts(prev.edges))))
                    \cup (come \ Facts(cur.entities))
           exposed == ExposuresOf(cur, come \ Facts(cur.edges))
<1>9. edges \subseteq Facts(cur.edges) /\ Facts(cur.edges) \ exposed \subseteq edges
  BY <1>4, <1>6, <1>7, <1>8
<1>10. Full(cur) => exposed \subseteq Facts(cur.edges)
  BY <1>5
<1>11. QED
  BY <1>9, <1>10 DEF gone, come

(* A fact of both snapshots whose values differ is told.                   *)
LEMMA ValuesAreTold ==
    ASSUME NEW prev, NEW cur, NEW f
    PROVE  /\ /\ f \in Reported(Facts(prev.entities)) \cap Facts(cur.entities)
              /\ Values(prev.entities, f) # Values(cur.entities, f)
              => \E c \in AllChanges(prev, cur) : c.change = "MODIFIED" /\ c.about = f
           /\ /\ f \in Facts(prev.edges) \cap Facts(cur.edges)
              /\ Values(prev.edges, f) # Values(cur.edges, f)
              => \E c \in AllChanges(prev, cur) : c.change = "MODIFIED" /\ c.about = f
<1>1. ASSUME f \in Reported(Facts(prev.entities)) \cap Facts(cur.entities),
             Values(prev.entities, f) # Values(cur.entities, f)
      PROVE  \E c \in AllChanges(prev, cur) : c.change = "MODIFIED" /\ c.about = f
  <2> DEFINE c == Change("MODIFIED", f, f, <<"ENTITY", "MODIFIED">>,
                         Files(prev.entities, f) \cup Files(cur.entities, f))
  <2>1. c \in EntityChanges(prev, cur)
    BY <1>1 DEF EntityChanges, Reported
  <2>2. c.change = "MODIFIED" /\ c.about = f
    BY DEF Change
  <2> HIDE DEF c
  <2> QED
    BY <2>1, <2>2 DEF AllChanges
<1>2. ASSUME f \in Facts(prev.edges) \cap Facts(cur.edges),
             Values(prev.edges, f) # Values(cur.edges, f)
      PROVE  \E c \in AllChanges(prev, cur) : c.change = "MODIFIED" /\ c.about = f
  <2> DEFINE category == IF f.rel = "DEPENDS_ON" /\ f.target.type = "DEPENDENCY"
                         THEN <<"DEPENDENCY_VERSION", "CHANGED">> ELSE <<"RELATIONSHIP", "MODIFIED">>
             c == Change("MODIFIED", f, f, category, Files(prev.edges, f) \cup Files(cur.edges, f))
  <2>1. c \in EdgeChanges(prev, cur)
    BY <1>2 DEF EdgeChanges
  <2>2. c.change = "MODIFIED" /\ c.about = f
    BY DEF Change
  <2> HIDE DEF c
  <2> QED
    BY <2>1, <2>2 DEF AllChanges
<1>3. QED
  BY <1>1, <1>2

(* A library is there because something depends on it, and nothing else is *)
(* left out of the entities that are told of.                              *)
LEMMA LibrariesAreTargets ==
    ASSUME NEW s, Full(s), WellFormed(s)
    PROVE  Facts(s.entities) \ Reported(Facts(s.entities))
               = {e.target : e \in Facts(s.edges)} \ Reported(Facts(s.entities))
BY DEF Full, WellFormed, Reported

(* The changes and what is held back are all that lies between the two     *)
(* snapshots as loaded or built: replayed on the previous one they give    *)
(* the current one, up to exposures when its last write is missing; a      *)
(* value that differs is told, and no fact is in two changes.              *)
THEOREM ReplayIsComplete == Spec => []ChangesReplay
<1>1. ASSUME IInv, Answered
      PROVE  LET prev == done[1]
                 cur == done[2]
                 Exposures(s, facts) == {Edge("EXPOSES", Service(s.service), a) : a \in Apis(facts)}
                 entities == (Reported(Facts(prev.entities)) \ Gone) \cup (Come \ Facts(cur.edges))
                 edges == (Facts(prev.edges) \ (Gone \cup Exposures(prev, Gone \ Facts(prev.edges))))
                          \cup (Come \ Facts(cur.entities))
                 exposed == Exposures(cur, Come \ Facts(cur.edges))
             IN /\ entities = Reported(Facts(cur.entities))
                /\ edges \ exposed = Facts(cur.edges) \ exposed
                /\ writes[result.of.revisions[2]] = Whole =>
                      /\ exposed \subseteq Facts(cur.edges)
                      /\ Facts(cur.entities) \ entities = {e.target : e \in Facts(cur.edges)} \ entities
                /\ \A f \in entities \cap Facts(prev.entities) :
                      Values(prev.entities, f) # Values(cur.entities, f) => \E c \in Of("MODIFIED") : c.about = f
                /\ \A f \in edges \cap Facts(prev.edges) :
                      Values(prev.edges, f) # Values(cur.edges, f) => \E c \in Of("MODIFIED") : c.about = f
                /\ result.changes \cap result.unknown = {}
                /\ \A c, d \in Told : {c.was, c.about} \cap {d.was, d.about} # {} => c = d
  <2> DEFINE prev == done[1]
             cur == done[2]
             entities == (Reported(Facts(prev.entities)) \ Gone) \cup (Come \ Facts(cur.edges))
             edges == (Facts(prev.edges) \ (Gone \cup ExposuresOf(prev, Gone \ Facts(prev.edges))))
                      \cup (Come \ Facts(cur.entities))
             exposed == ExposuresOf(cur, Come \ Facts(cur.edges))
  <2>1. /\ Shaped(prev) /\ WellFormed(prev) /\ Shaped(cur) /\ WellFormed(cur)
        /\ writes[result.of.revisions[2]] = Whole => Full(cur)
        /\ Told = AllChanges(prev, cur) /\ result.changes \cap result.unknown = {}
    <3> DEFINE m == writes[result.of.revisions[1]]
               n == writes[result.of.revisions[2]]
    <3>1. /\ m \in Nat /\ PartOf(prev, tree[result.of.revisions[1]], m)
          /\ n \in Nat /\ PartOf(cur, tree[result.of.revisions[2]], n)
          /\ Told = AllChanges(prev, cur) /\ result.changes \cap result.unknown = {}
      BY <1>1, AnswerCompares
    <3> HIDE DEF prev, cur, m, n
    <3>2. Shaped(prev) /\ WellFormed(prev) /\ Shaped(cur) /\ WellFormed(cur) /\ (n >= Whole => Full(cur))
      BY <3>1, PartFits
    <3>3. n = Whole => n >= Whole
      BY <3>1 DEF Whole
    <3> QED
      BY <3>1, <3>2, <3>3 DEF n
  <2> HIDE DEF prev, cur
  <2>2. Gone = GoneOf(prev, cur) /\ Come = ComeOf(prev, cur)
    <3>1. \A c \in Told : c.was # c.about => c.change = "MODIFIED"
      BY <2>1, ChangesTellTheDifference
    <3> QED
      BY <2>1, <3>1 DEF Gone, Come, GoneOf, ComeOf, Of, Moved
  <2>3. entities = Reported(Facts(cur.entities))
    BY <2>1, <2>2, EntitiesReplay
  <2>4. /\ edges \ exposed = Facts(cur.edges) \ exposed /\ edges \subseteq Facts(cur.edges)
        /\ Full(cur) => exposed \subseteq Facts(cur.edges)
    BY <2>1, <2>2, EdgesReplay
  <2> HIDE DEF entities, edges, exposed
  <2>5. Full(cur) => Facts(cur.entities) \ entities = {e.target : e \in Facts(cur.edges)} \ entities
    BY <2>1, <2>3, LibrariesAreTargets
  <2>6. ASSUME NEW f \in entities \cap Facts(prev.entities),
               Values(prev.entities, f) # Values(cur.entities, f)
        PROVE  \E c \in Of("MODIFIED") : c.about = f
    <3>1. f \in Reported(Facts(prev.entities)) \cap Facts(cur.entities)
      BY <2>3, <2>6 DEF Reported
    <3>2. \E c \in AllChanges(prev, cur) : c.change = "MODIFIED" /\ c.about = f
      BY <2>6, <3>1, ValuesAreTold
    <3> QED
      BY <2>1, <3>2 DEF Of
  <2>7. ASSUME NEW f \in edges \cap Facts(prev.edges),
               Values(prev.edges, f) # Values(cur.edges, f)
        PROVE  \E c \in Of("MODIFIED") : c.about = f
    <3>1. f \in Facts(prev.edges) \cap Facts(cur.edges)
      BY <2>4, <2>7
    <3>2. \E c \in AllChanges(prev, cur) : c.change = "MODIFIED" /\ c.about = f
      BY <2>7, <3>1, ValuesAreTold
    <3> QED
      BY <2>1, <3>2 DEF Of
  <2>8. \A c, d \in Told : {c.was, c.about} \cap {d.was, d.about} # {} => c = d
    BY <2>1, OneChangeOfAFact
  <2> QED
    BY <2>1, <2>3, <2>4, <2>5, <2>6, <2>7, <2>8 DEF prev, cur, entities, edges, exposed, ExposuresOf
<1>2. ASSUME IInv
      PROVE  ChangesReplay
  BY <1>1, <1>2 DEF ChangesReplay
<1>3. QED
  BY <1>2, InvariantHolds, PTL
===============================================================================
