-------------------------- MODULE ArchitectureFacts --------------------------
(***************************************************************************)
(* The extractors (architecture/extractors) and the builder: from the      *)
(* files of one revision to the facts of a snapshot.                       *)
(*                                                                         *)
(* A file is [path, kind, readable, items]: kind names the extractor that  *)
(* takes it, items is the sequence of what it says, each [is, ...].  An    *)
(* entity is [type, name, method] (method for an API only), a relationship *)
(* [rel, source, target].  A snapshot holds sightings of both, [fact,      *)
(* value, file]: the builder merges those of one fact into one, with all   *)
(* their values and all their files.  It is made for a service, the one    *)
(* that its caller says this repository is.                                *)
(***************************************************************************)
EXTENDS Integers, Sequences, FiniteSets

Elements(s) == {s[i] : i \in DOMAIN s}
Items(file, what) == {i \in Elements(file.items) : i.is = what}

Entity(type, name) == [type |-> type, name |-> name, method |-> "none"]
Api(method, path) == [type |-> "API", name |-> path, method |-> method]
Service(name) == Entity("SERVICE", name)
Edge(rel, source, target) == [rel |-> rel, source |-> source, target |-> target]
Sighting(fact, value, file) == [fact |-> fact, value |-> value, file |-> file]

(* The start of a snapshot: the repository itself is a service.            *)
NoFile == "no file"
EmptySnapshot(service) ==
    [service |-> service, entities |-> {Sighting(Service(service), "none", NoFile)},
     edges |-> {}, handlers |-> {}, blocked |-> {}]

-----------------------------------------------------------------------------
(* Merged facts: their keys, the values conflicting declarations gave, the *)
(* files they were seen in.                                                *)
Facts(sightings) == {s.fact : s \in sightings}
Values(sightings, fact) == {s.value : s \in {t \in sightings : t.fact = fact}} \ {"none"}
Files(sightings, fact) == {s.file : s \in {t \in sightings : t.fact = fact}} \ {NoFile}

(* Every extractor sees an entity together with its relationship.          *)
Related(service, rel, entity, edgeValue, file) ==
    [entities |-> {Sighting(entity, "none", file)},
     edges |-> {Sighting(Edge(rel, Service(service), entity), edgeValue, file)}]
Entities(found) == UNION {f.entities : f \in found}
Edges(found) == UNION {f.edges : f \in found}

-----------------------------------------------------------------------------
(* extract_compose: databases by their image, other services, depends_on   *)
(* between entries of one file.                                            *)
ComposeEntity(item) ==
    IF item.engine = "none" THEN Service(item.name) ELSE Entity("DATABASE", item.name)

ComposeEdges(file) ==
    {Sighting(Edge("DEPENDS_ON", ComposeEntity(p[1]), ComposeEntity(p[2])), "none", file.path) :
        p \in {q \in Items(file, "service") \X Items(file, "service") :
                  q[1].engine = "none" /\ q[2].name \in q[1].depends}}

(* An entry that depends on one that is not there is unresolved.           *)
Dangling(file) ==
    \E i \in Items(file, "service") :
        i.engine = "none" /\ i.depends \ {j.name : j \in Items(file, "service")} # {}

Compose(file) ==
    [entities |-> {Sighting(ComposeEntity(i), i.engine, file.path) : i \in Items(file, "service")},
     edges |-> ComposeEdges(file)]

(* extract_manifests: a library with its version.                          *)
Manifest(file, service) ==
    LET found == {Related(service, "DEPENDS_ON", Entity("DEPENDENCY", i.name), i.version, file.path) :
                     i \in Items(file, "library")}
    IN [entities |-> Entities(found), edges |-> Edges(found)]

(* extract_code: routes, calls of services that are known by now (by the    *)
(* caller, or from what was extracted before), tables.                     *)
Known(snapshot, services) ==
    (services \cup {e.name : e \in {f \in Facts(snapshot.entities) : f.type = "SERVICE"}})
        \ {snapshot.service}

Code(file, known, service) ==
    LET found == {Related(service, "EXPOSES", Api(i.method, i.path), "none", file.path) :
                     i \in Items(file, "route")}
                 \cup {Related(service, "CALLS", Service(i.host), "none", file.path) :
                     i \in {j \in Items(file, "call") : j.host \in known}}
                 \cup {Related(service, "ACCESSES", Entity("TABLE", i.name), "none", file.path) :
                     i \in Items(file, "table")}
    IN [entities |-> Entities(found), edges |-> Edges(found)]

(* extract_declared: what may be declared, and as what.                    *)
Declarable == {<<"PUBLISHES", "EVENT">>, <<"CONSUMES", "EVENT">>, <<"CALLS", "SERVICE">>,
               <<"ACCESSES", "DATABASE">>, <<"ACCESSES", "TABLE">>}

Declared(file, service) ==
    LET found == {Related(service, i.rel, Entity(i.type, i.name), "none", file.path) :
                     i \in {j \in Items(file, "declares") : j.type # "SERVICE" \/ j.name # service}}
                 \cup {Related(service, "EXPOSES", Api(i.method, i.path), "none", file.path) :
                     i \in Items(file, "api")}
    IN [entities |-> Entities(found), edges |-> Edges(found)]

SeenIn(file, known, service) ==
    CASE file.kind = "compose" -> Compose(file)
      [] file.kind = "manifest" -> Manifest(file, service)
      [] file.kind = "code" -> Code(file, known, service)
      [] file.kind = "declared" -> Declared(file, service)

(* What could not be read, parsed or understood makes its file unresolved. *)
Unresolved(file) ==
    \/ ~file.readable
    \/ Items(file, "malformed") # {}
    \/ file.kind = "compose" /\ Dangling(file)

(* The handler an API is first seen with stays: files come in the order of *)
(* their paths, and a declared API has no handler.                         *)
First(places) == CHOOSE n \in places : \A m \in places : n <= m

RoutesTo(file, api) ==
    {n \in DOMAIN file.items : LET i == file.items[n] IN
        i.is = "route" /\ Api(i.method, i.path) = api}

RoutedIn(tree, among) == UNION {Items(tree[n], "route") : n \in among}

(* Variant: every handler of an API is kept.                               *)
AllHandlersIn(tree, among) ==
    {[api |-> Api(i.method, i.path), handler |-> i.handler] : i \in RoutedIn(tree, among)}

HandlersIn(tree, among) ==
    LET Handler(api) ==
            LET file == tree[First({n \in among : RoutesTo(tree[n], api) # {}})]
            IN file.items[First(RoutesTo(file, api))].handler
    IN {[api |-> a, handler |-> Handler(a)] :
           a \in {Api(i.method, i.path) : i \in RoutedIn(tree, among)}}

(* One extractor, over all its files: where they are in the tree.          *)
Extract(snapshot, tree, kind, services) ==
    LET taken == {n \in DOMAIN tree : tree[n].kind = kind}
        readable == {n \in taken : tree[n].readable}
        found == {SeenIn(tree[n], Known(snapshot, services), snapshot.service) : n \in readable}
    IN [service |-> snapshot.service,
        entities |-> snapshot.entities \cup Entities(found),
        edges |-> snapshot.edges \cup Edges(found),
        handlers |-> snapshot.handlers \cup HandlersIn(tree, readable),
        blocked |-> snapshot.blocked \cup {tree[n].path : n \in {m \in taken : Unresolved(tree[m])}}]

(* DEFAULT_EXTRACTORS, in their order.                                     *)
Extractors == <<"compose", "manifest", "code", "declared">>
=============================================================================
