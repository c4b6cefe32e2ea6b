---------------------------- MODULE ImpactAnalysis ----------------------------
(***************************************************************************)
(* analyze_impact (impact_analysis/analyzer.py): from a changed method or  *)
(* function to everything that relationships of the graph lead to.         *)
(*                                                                         *)
(* Each execute_read is a transaction of its own, and ingestion may add    *)
(* relationships to the graph between two of them: one action per query,   *)
(* with what the code computes from its rows.  Nodes with the properties   *)
(* the queries read (name, class_id, file_id, unresolved_calls) are        *)
(* constants.  The order of rows, sorting and wording are left out.        *)
(***************************************************************************)
EXTENDS ImpactRules

CONSTANTS
    Code,        \* the Method and Function nodes
    Info,        \* of each of them: name, class ("none" for a function), file, unresolved
    Label,       \* the labels of the other nodes
    TestInfo,    \* name and file of each Test node
    TestFiles,   \* the files that is_test_path accepts
    Contains,    \* the substring relation of find_related_tests: <<name, part>>
    InitialEdges, LaterEdges,   \* the relationships at first, and those ingestion may add
    Requests     \* the changes and limits asked for

(* The id of a node tells its kind, and a test function's key is no id.    *)
ASSUME CodeAssumption ==
    /\ Info \in [Code -> [name : STRING, class : STRING, file : STRING,
                          key : STRING, unresolved : SUBSET STRING]]
    /\ \A n \in Code : {Info[n].class, Info[n].file, Info[n].key} \cap Code = {}
    /\ "none" \notin Code \cup DOMAIN Label
(* A node has one label; what calls a method or a function is one, too.    *)
ASSUME GraphAssumption ==
    LET graph == InitialEdges \cup LaterEdges
        nodes == Code \cup DOMAIN Label
    IN /\ IsFiniteSet(Code) /\ IsFiniteSet(DOMAIN Label) /\ IsFiniteSet(graph)
       /\ Code \cap DOMAIN Label = {}
       /\ graph \subseteq [start : nodes, type : STRING, end : nodes]
       /\ \A e \in graph : e.type = "CALLS" /\ e.end \in Code => e.start \in Code
ASSUME RequestsAssumption ==
    \A r \in Requests : r.maxDepth \in Nat /\ r.maxDownstream \in Nat /\ r.maxPaths \in Nat \ {0}

VARIABLES
    edges,      \* the relationships of the graph
    request,    \* what was asked
    step,       \* the next query of the analysis
    start,      \* the changed node
    found,      \* the CALLS rows of the traversal, with the level they came at
    frontier,   \* the nodes to expand next (of callers, then of services)
    level,
    routes,     \* the routes to the elements architecture can hang off
    stores,     \* the routes to the databases
    down,       \* the routes to the services of the downstream traversal
    kept,       \* the collected paths
    items,      \* the impacted elements
    notes,      \* what is reported as unresolved
    seen        \* history: the graph when the analysis began

progress == <<start, found, frontier, level, routes, stores, down>>
report == <<kept, items, notes>>
vars == <<edges, request, step, progress, report, seen>>

Rows(type, ends) == {e \in edges : e.type \in type /\ e.end \in ends}
From(starts, type) == {e \in edges : e.start \in starts /\ e.type \in type}
LabelOf(n) == IF n \in DOMAIN Label THEN Label[n] ELSE "Code"
NoRoutes == [n \in {} |-> {}]

Depth == DepthOf(start, found)
Primary == Info[start]
IsTest(n) == Info[n].file \in TestFiles

Init ==
    /\ edges = InitialEdges /\ seen = InitialEdges
    /\ request \in Requests
    /\ step = "resolve" /\ start = "none"
    /\ found = {} /\ frontier = {} /\ level = 1
    /\ routes = NoRoutes /\ stores = NoRoutes /\ down = NoRoutes
    /\ kept = {} /\ items = {} /\ notes = {}

Note(category, about) == [category |-> category, about |-> about]
SiteNote(n) == [category |-> "DIRECT_CALLER", about |-> "an unresolved call", node |-> n]
At(s) == step = s
Goto(s) == step' = s /\ UNCHANGED <<edges, request, seen>>

(* UNRESOLVED: the result carries nothing but the reason.                  *)
GiveUp(reason) ==
    /\ Goto("unresolved")
    /\ notes' = {Note("PRIMARY_CHANGE", reason)}
    /\ UNCHANGED <<progress, kept, items>>

-----------------------------------------------------------------------------
(* resolve_changed_node: a location, or names that fit exactly one node.   *)
Fits(n, names) ==
    /\ Info[n].name = names.method
    /\ names.file \in {"any", Info[n].file}
    /\ names.class \in {"any", Info[n].class}

Candidates(change) ==
    IF change.kind = "names" THEN {n \in Code : Fits(n, change)}
    ELSE IF change.resolved /\ change.label \in {"Method", "Function"} THEN {change.node}
    ELSE {}

Resolve ==
    /\ At("resolve")
    /\ IF Cardinality(Candidates(request.change)) = 1
       THEN /\ Goto(IF request.maxDepth < 1 THEN "fetch" ELSE "begin")
            /\ start' \in Candidates(request.change)
            /\ UNCHANGED <<found, frontier, level, routes, stores, down, report>>
       ELSE GiveUp("not one node")

-----------------------------------------------------------------------------
(* _traverse *)
Begin ==
    /\ At("begin")
    /\ IF start \in Code
       THEN /\ Goto("traverse")
            /\ frontier' = {start}
            /\ UNCHANGED <<start, found, level, routes, stores, down, report>>
       ELSE GiveUp("not in the graph")

Visited == {start} \cup {f.edge.start : f \in found}

(* Variant: whoever calls is expanded, seen before or not.                 *)
AllCallers(rows) == {e.start : e \in rows}
NewCallers(rows) == {e.start : e \in rows} \ Visited

(* Variant: the traversal goes along the calls, not against them.          *)
CalleesFound == {[edge |-> [start |-> e.end, type |-> "CALLS", end |-> e.start], depth |-> level] :
                    e \in From(frontier, {"CALLS"})}
CallersFound == {[edge |-> e, depth |-> level] : e \in Rows({"CALLS"}, frontier)}

Traverse ==
    /\ At("traverse")
    /\ IF frontier # {} /\ level <= request.maxDepth
       THEN /\ Goto("traverse")
            /\ found' = found \cup CallersFound
            /\ frontier' = NewCallers({f.edge : f \in CallersFound})
            /\ level' = level + 1
       ELSE /\ Goto("fetch")
            /\ UNCHANGED <<found, frontier, level>>
    /\ UNCHANGED <<start, routes, stores, down, report>>

-----------------------------------------------------------------------------
(* fetch_code_nodes, and all that analyze_impact makes of callers alone:   *)
(* classification, routes, containing classes and files.                   *)
CategoryOf(n) ==
    IF n = start THEN "PRIMARY_CHANGE"
    ELSE IF IsTest(n) THEN "TEST"
    ELSE IF Depth[n] = 1 THEN "DIRECT_CALLER" ELSE "INDIRECT_CALLER"

CodeRoutes == Chains(start, Depth, found, request.maxPaths)
Impacted == {n \in DOMAIN Depth : CategoryOf(n) # "TEST"}
Methods == {n \in Impacted : Info[n].class # "none"}

WithClass(n) ==
    IF n \in Methods THEN Extend(CodeRoutes[n], Info[n].class, "CONTAINS") ELSE CodeRoutes[n]
ClassRoutes == [c \in {Info[n].class : n \in Methods} |->
                   UNION {WithClass(n) : n \in {m \in Methods : Info[m].class = c}}]
FileRoutes == [f \in {Info[n].file : n \in Impacted} |->
                  UNION {Extend(WithClass(n), f, "CONTAINS") : n \in {m \in Impacted : Info[m].file = f}}]

CodeOffers ==
    (UNION {Offer(CodeRoutes[n], CategoryOf(n)) : n \in DOMAIN Depth \ {start}})
    \cup (UNION {Offer(ClassRoutes[c], "CLASS") : c \in DOMAIN ClassRoutes \ {Primary.class}})
    \cup (UNION {Offer(FileRoutes[f], "FILE") : f \in DOMAIN FileRoutes \ {Primary.file}})

(* New items and their paths; of two sightings the shallower one stays.    *)
Collect(offers, cut) ==
    LET all == items \cup ItemsOf(offers)
    IN /\ kept' = Add(kept, offers, request.maxPaths)
       /\ items' = {i \in all : \A j \in all :
                       <<j.category, j.id>> = <<i.category, i.id>> => j.depth >= i.depth}
       /\ notes' = notes \cup IF cut \/ Caps(kept, offers, request.maxPaths)
                              THEN {Note("PRIMARY_CHANGE", "more paths")} ELSE {}

Fetch ==
    /\ At("fetch")
    /\ IF start \in Code
       THEN /\ Goto("services")
            /\ Collect(CodeOffers, ChainsTruncated(start, Depth, found, request.maxPaths))
            /\ routes' = Updated(Updated([n \in Impacted |-> CodeRoutes[n]], ClassRoutes), FileRoutes)
            /\ UNCHANGED <<start, found, frontier, level, stores, down>>
       ELSE GiveUp("not in the graph")

-----------------------------------------------------------------------------
(* trace_architecture.  Service -[CONTAINS*1..4]-> code.                   *)
Inside(owners) == {e.end : e \in From(owners, {"CONTAINS"})}
Within(s) ==
    LET one == Inside({s})
        two == Inside(one)
        three == Inside(two)
    IN one \cup two \cup three \cup Inside(three)

OwningServices == {s \in DOMAIN Label : Label[s] = "Service" /\ Within(s) \cap DOMAIN routes # {}}
ServiceRoutes == [s \in OwningServices |->
                     UNION {Extend(routes[x], s, "CONTAINS") : x \in Within(s) \cap DOMAIN routes}]

ServiceOffers == UNION {Offer(ServiceRoutes[s], "SERVICE") : s \in OwningServices}

FindServices ==
    /\ At("services")
    /\ Goto("owners")
    /\ Collect(ServiceOffers, FALSE)
    /\ down' = ServiceRoutes
    /\ UNCHANGED <<start, found, frontier, level, routes, stores>>

(* owner -[EXPOSES | PUBLISHES | CONSUMES | ACCESSES]-> target, of the     *)
(* labels the schema has for them.                                         *)
Ways == {<<"EXPOSES", "API", "API">>, <<"PUBLISHES", "Event", "EVENT">>,
         <<"CONSUMES", "Event", "EVENT">>, <<"ACCESSES", "Database", "DATABASE">>,
         <<"ACCESSES", "Table", "TABLE">>}

OwnerRoutes == Updated(routes, down)
ByOwner(way, target) ==
    UNION {Extend(OwnerRoutes[e.start], target, way[1]) :
              e \in {d \in Rows({way[1]}, {target}) : d.start \in DOMAIN OwnerRoutes}}
TargetsOf(way) ==
    {e.end : e \in {d \in From(DOMAIN OwnerRoutes, {way[1]}) : LabelOf(d.end) = way[2]}}

OffersBy(way) == UNION {Offer(ByOwner(way, t), way[3]) : t \in TargetsOf(way)}
TargetOffers == UNION {OffersBy(way) : way \in Ways}

FindTargets ==
    /\ At("owners")
    /\ Goto("tables")
    /\ Collect(TargetOffers, FALSE)
    /\ stores' = LET way == <<"ACCESSES", "Database", "DATABASE">>
                 IN [d \in TargetsOf(way) |-> ByOwner(way, d)]
    /\ UNCHANGED <<start, found, frontier, level, routes, down>>

(* Database -[CONTAINS]-> Table.                                           *)
TableRows == {e \in From(DOMAIN stores, {"CONTAINS"}) : LabelOf(e.end) = "Table"}
TableOffers ==
    UNION {Offer(Extend(stores[e.start], e.end, "CONTAINS"), "TABLE") : e \in TableRows}

FindTables ==
    /\ At("tables")
    /\ Goto("downstream")
    /\ Collect(TableOffers, FALSE)
    /\ frontier' = DOMAIN down /\ level' = 1
    /\ UNCHANGED <<start, found, routes, stores, down>>

(* Service -[DEPENDS_ON | CALLS]-> Service, level by level; a service that *)
(* has routes already gets no more.                                        *)
Links == {e \in From(frontier, {"DEPENDS_ON", "CALLS"}) : LabelOf(e.end) = "Service"}

Discovered == {e.end : e \in Links} \ DOMAIN down
LinkRoutes == [s \in Discovered |->
                  UNION {Extend(down[e.start], s, e.type) : e \in {l \in Links : l.end = s}}]
LinkOffers == UNION {Offer(LinkRoutes[s], "DOWNSTREAM_SERVICE") : s \in Discovered}

FindDownstream ==
    /\ At("downstream")
    /\ IF frontier # {} /\ level <= request.maxDownstream
       THEN /\ Goto("downstream")
            /\ Collect(LinkOffers, FALSE)
            /\ down' = Updated(down, LinkRoutes)
            /\ frontier' = Discovered
            /\ level' = level + 1
       ELSE /\ Goto("validating")
            /\ UNCHANGED <<frontier, level, down, report>>
    /\ UNCHANGED <<start, found, routes, stores>>

-----------------------------------------------------------------------------
(* trace_validating_tests                                                  *)
TestRows == {e \in Rows({"VALIDATES"}, DOMAIN routes) : LabelOf(e.start) = "Test"}
TestOffers == UNION {Offer(Extend(routes[e.end], e.start, "VALIDATES"), "TEST") : e \in TestRows}

FindValidatingTests ==
    /\ At("validating")
    /\ Goto("naming")
    /\ Collect(TestOffers, FALSE)
    /\ UNCHANGED progress

(* trace_naming_convention_tests: (file, name) of an item found by a       *)
(* relationship, which for a method is the name qualified by its class.    *)
Qualified(n) == <<Info[n].class, Info[n].name>>
FoundTest(id) ==
    IF id \in Code THEN <<Info[id].file, Qualified(id)>>
    ELSE <<TestInfo[id].file, <<"none", TestInfo[id].name>>>>

AlreadyFound(n) ==
    <<Info[n].file, <<"none", Info[n].name>>>> \in
        {FoundTest(i.id) : i \in {j \in items : j.category = "TEST"}}

NamedTests ==
    {n \in Code : IsTest(n) /\ <<Info[n].name, Primary.name>> \in Contains /\ ~AlreadyFound(n)}

NamedOffers ==
    UNION {Offer(Extend(CodeRoutes[start], Info[n].key, "NAMING_CONVENTION"), "TEST") : n \in NamedTests}

FindNamedTests ==
    /\ At("naming")
    /\ Goto("coverage")
    /\ Collect(NamedOffers, FALSE)
    /\ UNCHANGED progress

-----------------------------------------------------------------------------
(* assess_coverage: whether the graph has relationships of a kind at all.  *)
Some(from, types, to) ==
    \E e \in edges : /\ e.type \in types
                     /\ from \in {"any", LabelOf(e.start)} /\ to \in {"any", LabelOf(e.end)}

Known(category) ==
    CASE category = "SERVICE" -> Some("Service", {"CONTAINS"}, "any")
      [] category = "API" -> Some("any", {"EXPOSES"}, "API")
      [] category = "EVENT" -> Some("any", {"PUBLISHES", "CONSUMES"}, "Event")
      [] category = "DATABASE" -> \/ Some("any", {"ACCESSES"}, "Database")
                                  \/ Some("any", {"ACCESSES"}, "Table")
      [] category = "TABLE" -> \/ Some("Database", {"CONTAINS"}, "Table")
                               \/ Some("any", {"ACCESSES"}, "Table")
      [] category = "DOWNSTREAM_SERVICE" -> Some("Service", {"DEPENDS_ON", "CALLS"}, "Service")
      [] category = "TEST" -> Some("Test", {"VALIDATES"}, "any") \/ TestFiles # {}

Uncertain ==
    {"SERVICE", "API", "EVENT", "DATABASE", "TABLE", "DOWNSTREAM_SERVICE", "TEST"}

AddNotes(new, next) ==
    /\ Goto(next)
    /\ notes' = notes \cup new
    /\ UNCHANGED <<progress, kept, items>>

AssessCoverage ==
    /\ At("coverage")
    /\ AddNotes({Note(c, "not in the graph") : c \in {d \in Uncertain : ~Known(d)}}, "more")

(* has_more_callers: callers of the deepest level that were not reached.   *)
Deepest == {n \in DOMAIN Depth : Depth[n] = request.maxDepth}

(* Variant: callers of the last level that was expanded.                   *)
LastExpanded == {e.start : e \in Rows({"CALLS"}, {n \in DOMAIN Depth : Depth[n] + 1 = request.maxDepth})}
                    \ DOMAIN Depth
Beyond == {e.start : e \in Rows({"CALLS"}, Deepest)} \ DOMAIN Depth

HasMoreCallers ==
    /\ At("more")
    /\ AddNotes(IF Beyond # {} THEN {Note("INDIRECT_CALLER", "beyond max_depth")} ELSE {}, "sites")

(* find_unresolved_call_sites, by the last name of an unresolved call.     *)
FindUnresolvedSites ==
    /\ At("sites")
    /\ AddNotes({SiteNote(n) : n \in {m \in Code \ DOMAIN Depth : Primary.name \in Info[m].unresolved}},
                "done")

-----------------------------------------------------------------------------
(* Ingestion adds a relationship.                                          *)
Grow ==
    /\ \E e \in LaterEdges \ edges : edges' = edges \cup {e}
    /\ seen' = IF step = "resolve" THEN edges' ELSE seen
    /\ UNCHANGED <<request, step, progress, report>>

Analyse ==
    \/ Resolve \/ Begin \/ Traverse \/ Fetch \/ FindServices \/ FindTargets \/ FindTables
    \/ FindDownstream \/ FindValidatingTests \/ FindNamedTests
    \/ AssessCoverage \/ HasMoreCallers \/ FindUnresolvedSites

Next == Grow \/ Analyse

Spec == Init /\ [][Next]_vars

(* resolution_status *)
Status ==
    IF step = "unresolved" THEN "UNRESOLVED"
    ELSE IF notes # {} THEN "PARTIALLY_RESOLVED" ELSE "RESOLVED"

-----------------------------------------------------------------------------
Categories == Uncertain \cup {"PRIMARY_CHANGE", "DIRECT_CALLER", "INDIRECT_CALLER", "CLASS", "FILE"}
OneOf(category, id) == {i \in items : i.category = category /\ i.id = id}

(* Also: a node is never expanded twice, however many paths reach it, an   *)
(* element is reported once in its category, and its paths are capped.     *)
TypeOK ==
    /\ InitialEdges \subseteq edges /\ edges \subseteq InitialEdges \cup LaterEdges
    /\ request \in Requests
    /\ step \in {"resolve", "begin", "traverse", "fetch", "services", "owners", "tables",
                 "downstream", "validating", "naming", "coverage", "more", "sites", "done",
                 "unresolved"}
    /\ \A f, g \in found : f.edge.end = g.edge.end => f.depth = g.depth
    /\ \A i \in items : i.category \in Categories /\ Cardinality(OneOf(i.category, i.id)) = 1
    /\ \A key \in Keys(kept) : Cardinality(Under(kept, key)) <= request.maxPaths

(* A step of a path is a relationship of the graph, or one of the links    *)
(* the nodes' properties give.                                             *)
Holds(n, type, m) == [start |-> n, type |-> type, end |-> m] \in edges

RealStep(n, m, type) ==
    CASE type = "CALLS" -> IF m \in Code THEN Holds(m, type, n) ELSE Holds(n, type, m)
      [] type = "CONTAINS" -> \/ n \in Code /\ m \in {Info[n].class, Info[n].file}
                              \/ \E c \in Code : Info[c].class = n /\ Info[c].file = m
                              \/ LabelOf(m) = "Service" /\ n \in Within(m)
                              \/ Holds(n, type, m)
      [] type = "VALIDATES" -> Holds(m, type, n)
      [] type = "NAMING_CONVENTION" -> n = start
      [] OTHER -> Holds(n, type, m)

(* "An element appears in the result only because a graph relationship put *)
(* it there, and the path that did so is kept": every item has a path, of  *)
(* its depth unless paths were cut, and every path is one of the graph.    *)
EvidenceIsReal ==
    /\ \A k \in kept :
          /\ k.path[1] = Step(start, "none")
          /\ \A i \in 2 .. Len(k.path) : RealStep(k.path[i - 1][1], k.path[i][1], k.path[i][2])
    /\ \A i \in items :
          /\ Under(kept, <<i.category, i.id>>) # {}
          /\ \A k \in Under(kept, <<i.category, i.id>>) : Length(k.path) >= i.depth

(* The nodes from which at most k calls lead to the changed code.          *)
CallersWithin(k, graph) ==
    LET reach[j \in 0 .. k] ==
            IF j = 0 THEN {start}
            ELSE LET near == reach[j - 1] IN
                 near \cup {e.start : e \in {d \in graph : d.type = "CALLS" /\ d.end \in near}}
    IN reach[k]

(* However the graph grows while it is traversed level by level, a caller  *)
(* is reported at a depth between its distance in the graph as it is now   *)
(* and its distance in the graph the analysis began with; none of those is *)
(* missed and none is made up.  In a graph that rests this is exact.       *)
CallersAreInBounds ==
    step \in {"services", "done"} =>
        LET caller(i) == i.category \in {"DIRECT_CALLER", "INDIRECT_CALLER", "TEST"} /\ i.id \in Code
            callers == {i \in items : caller(i)}
        IN /\ \A i \in callers :
                 /\ i.depth <= request.maxDepth /\ i.id # start
                 /\ i.id \in CallersWithin(i.depth, edges)
                 /\ i.category # "TEST" => (i.category = "DIRECT_CALLER" <=> i.depth = 1)
           /\ \A d \in 1 .. request.maxDepth : \A n \in CallersWithin(d, seen) \ {start} :
                 \E i \in callers : i.id = n /\ i.depth <= d

(* RESOLVED says that nothing was left out: of a graph at rest, every      *)
(* transitive caller, and every API, event, database and table of every    *)
(* owner that is impacted, is reported.                                    *)
ResolvedMeansAll ==
    At("done") /\ Status = "RESOLVED" /\ seen = edges =>
        LET all == CallersWithin(Cardinality(Code), edges)
            owners == {n \in all : n = start \/ ~IsTest(n)}
            places == owners \cup {Info[n].class : n \in owners} \cup {Info[n].file : n \in owners}
            services == {s \in DOMAIN Label : Label[s] = "Service" /\ Within(s) \cap places # {}}
            ids == {i.id : i \in items}
        IN /\ all \subseteq ids \cup {start}
           /\ services \subseteq ids
           /\ \A way \in Ways : {e.end : e \in {d \in From(places \cup services, {way[1]}) :
                                                  LabelOf(d.end) = way[2]}} \subseteq ids
           /\ \A e \in edges : e.type = "VALIDATES" /\ e.end \in places /\ LabelOf(e.start) = "Test"
                                  => e.start \in ids

(* Two routes to one caller do not collapse into one: of a graph at rest,  *)
(* all shortest chains of calls are kept unless the result says some are   *)
(* not.                                                                    *)
AllRoutesAreKept ==
    At("done") /\ seen = edges /\ Note("PRIMARY_CHANGE", "more paths") \notin notes =>
        \A i \in {j \in items : j.id \in Code} :
            LET chains[k \in 0 .. i.depth] ==
                    IF k = 0 THEN {<<start>>}
                    ELSE UNION {{Append(c, e.start) : e \in Rows({"CALLS"}, {c[k]})} : c \in chains[k - 1]}
            IN {[j \in 1 .. Len(k.path) |-> k.path[j][1]] : k \in Under(kept, <<i.category, i.id>>)}
                   = {c \in chains[i.depth] : c[i.depth + 1] = i.id}

(* The coverage is asked for last, of a graph that only grows: what was    *)
(* found is of a category the result knows about.                          *)
KnownWhereFound ==
    At("done") => \A i \in items : Note(i.category, "not in the graph") \notin notes

(* The callers, with how far and along which routes they are, are those of *)
(* the graph, within the limits that were asked for.                       *)
CallersAreTrue == CallersAreInBounds /\ AllRoutesAreKept

(* What the result says of itself is so: that it is RESOLVED, and of which *)
(* categories it knows nothing.                                            *)
CoverageIsHonest == ResolvedMeansAll /\ KnownWhereFound

-----------------------------------------------------------------------------
(* tests_impact.py: the naming rule "skips tests already found via real    *)
(* edges".  A test method is compared by its qualified name and is not.    *)
TestsAreReportedOnce ==
    At("done") => \A n \in Code : {n, Info[n].key} \subseteq {i.id : i \in items} => n = Info[n].key
===============================================================================
