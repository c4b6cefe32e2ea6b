----------------------------- MODULE GraphIngest -----------------------------
(***************************************************************************)
(* Ingestion of a repository into the graph: build_repository_facts        *)
(* (repository.py) and ingest_repository (graph/ingestion.py), by several  *)
(* clients at once, of a working tree that may change while it is read.    *)
(*                                                                         *)
(* Every MERGE query is a transaction of its own; a client can fail before *)
(* and after each of them and begin again.  The uniqueness constraints     *)
(* that ensure_constraints puts in place first make a MERGE atomic.        *)
(***************************************************************************)
EXTENDS CodeFacts

CONSTANTS
    Clients,
    Versions,   \* the states the working tree can be in
    Tree,       \* what the tree holds in each of them
    NoVersion,
    MaxEdits    \* bound: how often the working tree changes

ASSUME VersionsAssumption ==
    DOMAIN Tree = Versions /\ NoVersion \notin Versions /\ MaxEdits \in Nat

(* A file is found once, and its facts are lists; the dots of an import    *)
(* are counted, and "import a.b" has none.                                 *)
IsList(s) == s \in Seq(Elements(s))
IsFile(file) ==
    /\ IsList(file.path) /\ file.path # <<>>
    /\ IsList(file.functions) /\ IsList(file.classes) /\ IsList(file.imports)
    /\ \A c \in Elements(file.classes) : IsList(c.methods)
    /\ \A i \in Elements(file.imports) :
          /\ IsList(i.module) /\ i.level \in Nat
          /\ ~i.from => i.level = 0 /\ i.module # <<>>

ASSUME TreesAssumption ==
    \A v \in Versions :
        /\ IsList(Tree[v].files)
        /\ \A f \in Elements(Tree[v].files) : IsFile(f)
        /\ \A f, g \in Elements(Tree[v].files) : f.path = g.path => f = g

VARIABLES
    tree,       \* the version the working tree is in
    edits,      \* how often it has changed
    client,     \* what each client does: its step, the versions it read, its queries
    nodes,      \* the nodes of the graph
    edges       \* the relationships of the graph

graph == <<nodes, edges>>
vars == <<tree, edits, client, nodes, edges>>

Ids(records) == {n.id : n \in records}

(* Which version each of the four readings of the tree found.              *)
NoRead == [scanned |-> NoVersion, facts |-> NoVersion, bodies |-> NoVersion, history |-> NoVersion]
Empty == [nodes |-> {}, edges |-> {}]
Idle == [step |-> "idle", read |-> NoRead, batch |-> Empty, queue |-> {}]

(* map_repository_to_graph, for each reading. *)
Found(read) == [field \in DOMAIN read |-> Tree[read[field]]]
BatchOf(read) == [nodes |-> NodesOf(Found(read)), edges |-> EdgesOf(Found(read))]
Batch(c) == client[c].batch

Init ==
    /\ tree \in Versions /\ edits = 0
    /\ client = [c \in Clients |-> Idle]
    /\ nodes = {} /\ edges = {}

-----------------------------------------------------------------------------
(* build_repository_facts *)
At(c, step) == client[c].step = step

Reads(c, next, what) ==
    client' = [client EXCEPT ![c].step = next, ![c].read[what] = tree]

Start(c) ==
    /\ client[c].step \in {"idle", "done", "failed"}
    /\ client' = [client EXCEPT ![c] = [Idle EXCEPT !.step = "scan"]]
    /\ UNCHANGED <<tree, edits, graph>>

ScanSourceFiles(c) ==
    /\ At(c, "scan")
    /\ Reads(c, "parse", "scanned")
    /\ UNCHANGED <<tree, edits, graph>>

(* A file that is not UTF-8 raises; one that is not Python is recorded.    *)
ParseRepository(c) ==
    /\ At(c, "parse")
    /\ \A f \in Elements(Tree[tree].files) : f.state # "undecodable"
    /\ Reads(c, "relate", "facts")
    /\ UNCHANGED <<tree, edits, graph>>

(* Each parsed file is read and parsed once more, and must still be there. *)
ExtractRelationships(c) ==
    /\ At(c, "relate")
    /\ \A f \in Parsed(Tree[client[c].read.facts].files) :
          \E g \in Elements(Tree[tree].files) : g.path = f.path /\ g.state = "ok"
    /\ Reads(c, "history", "bodies")
    /\ UNCHANGED <<tree, edits, graph>>

GetCommits(c) ==
    /\ At(c, "history")
    /\ Reads(c, "map", "history")
    /\ UNCHANGED <<tree, edits, graph>>

-----------------------------------------------------------------------------
(* The queries of a batch: one per label, then one per kind of             *)
(* relationship.  (The code has each kind in the order in which its first  *)
(* record comes; here it is the one below.)                                *)
Labels ==
    <<<<"Repository">>, <<"File">>, <<"Class">>, <<"Method">>, <<"Function">>, <<"Commit">>>>
Shape(e) == <<Label(e.start), e.type, Label(e.end)>>
Shapes ==
    <<<<"Repository", "CONTAINS", "File">>, <<"File", "CONTAINS", "Class">>,
      <<"Class", "CONTAINS", "Method">>, <<"File", "CONTAINS", "Function">>,
      <<"Method", "CALLS", "Method">>, <<"Method", "CALLS", "Function">>,
      <<"Method", "CALLS", "Class">>, <<"Function", "CALLS", "Method">>,
      <<"Function", "CALLS", "Function">>, <<"Function", "CALLS", "Class">>,
      <<"Class", "CALLS", "Method">>, <<"Class", "CALLS", "Function">>,
      <<"Class", "CALLS", "Class">>,
      <<"File", "IMPORTS", "File">>, <<"Commit", "MODIFIES", "File">>>>

NodeQueries(batch) == {<<Label(n.id)>> : n \in batch.nodes}
EdgeQueries(batch) == {Shape(e) : e \in batch.edges}
Queries(batch) == NodeQueries(batch) \cup EdgeQueries(batch)

IsNodes(query) == query \in Elements(Labels)
Position(query) ==
    LET kind == IF IsNodes(query) THEN Labels ELSE Shapes
    IN CHOOSE i \in DOMAIN kind : kind[i] = query

(* Variant: relationships first.                                           *)
EdgesFirst(query, other) ==
    \/ ~IsNodes(query) /\ IsNodes(other)
    \/ (IsNodes(query) <=> IsNodes(other)) /\ Position(query) <= Position(other)

(* Nodes are merged before relationships.                                  *)
Precedes(query, other) ==
    \/ IsNodes(query) /\ ~IsNodes(other)
    \/ (IsNodes(query) <=> IsNodes(other)) /\ Position(query) <= Position(other)

MapToGraph(c) ==
    /\ At(c, "map")
    /\ LET batch == BatchOf(client[c].read)
       IN client' = [client EXCEPT ![c].step = "merge", ![c].batch = batch,
                                   ![c].queue = Queries(batch)]
    /\ UNCHANGED <<tree, edits, graph>>

(* Variant: a repository found again is rebuilt from its latest batch.     *)
MergeNodesAfresh(rows) ==
    /\ nodes' = {n \in nodes : Label(n.id) \notin {Label(m.id) : m \in rows}} \cup rows
    /\ UNCHANGED edges

(* Variant: CREATE instead of MERGE.                                       *)
CreateNodes(rows) ==
    /\ nodes' = nodes \cup rows
    /\ UNCHANGED edges

(* MERGE by id, SET n += row.properties.                                   *)
MergeNodes(rows) ==
    /\ nodes' = {n \in nodes : n.id \notin Ids(rows)} \cup rows
    /\ UNCHANGED edges

(* MATCH both ends, then MERGE: a row without its ends does nothing.       *)
MergeEdges(rows) ==
    /\ edges' = edges \cup {e \in rows : {e.start, e.end} \subseteq Ids(nodes)}
    /\ UNCHANGED nodes

Merge(c) ==
    /\ At(c, "merge")
    /\ \E query \in client[c].queue :
          /\ \A other \in client[c].queue : Precedes(query, other)
          /\ IF IsNodes(query)
             THEN MergeNodes({n \in Batch(c).nodes : <<Label(n.id)>> = query})
             ELSE MergeEdges({e \in Batch(c).edges : Shape(e) = query})
          /\ client' = [client EXCEPT ![c].queue = @ \ {query}]
    /\ UNCHANGED <<tree, edits>>

(* The IngestionSummary: every record of the batch counts as merged.       *)
ReturnSummary(c) ==
    /\ At(c, "merge") /\ client[c].queue = {}
    /\ client' = [client EXCEPT ![c].step = "done"]
    /\ UNCHANGED <<tree, edits, graph>>

(* An exception, or the end of the process, at any point.                  *)
Fail(c) ==
    /\ client[c].step \notin {"idle", "done", "failed"}
    /\ client' = [client EXCEPT ![c] = [Idle EXCEPT !.step = "failed"]]
    /\ UNCHANGED <<tree, edits, graph>>

EditTree ==
    /\ edits < MaxEdits
    /\ edits' = edits + 1
    /\ tree' \in Versions \ {tree}
    /\ UNCHANGED <<client, graph>>

Step(c) ==
    \/ ScanSourceFiles(c) \/ ParseRepository(c) \/ ExtractRelationships(c) \/ GetCommits(c)
    \/ MapToGraph(c) \/ Merge(c) \/ ReturnSummary(c)

Next == EditTree \/ \E c \in Clients : Start(c) \/ Step(c) \/ Fail(c)

Spec == Init /\ [][Next]_vars

-----------------------------------------------------------------------------
TypeOK ==
    /\ tree \in Versions /\ edits \in 0 .. MaxEdits
    /\ \A c \in Clients :
          /\ client[c].step \in {"idle", "scan", "parse", "relate", "history", "map", "merge",
                                 "done", "failed"}
          /\ client[c].queue \subseteq Elements(Labels) \cup Elements(Shapes)
    /\ \A n, m \in nodes : n.id = m.id => n = m

(* When ingest_repository has returned its summary, every node and every   *)
(* relationship it counts is in the graph, whatever failed before and      *)
(* whatever other clients do.                                              *)
SummaryIsTrue ==
    \A c \in Clients : At(c, "done") =>
        /\ Ids(Batch(c).nodes) \subseteq Ids(nodes)
        /\ Batch(c).edges \subseteq edges

(* The definitions a call may reach by Python's rules: whatever its name   *)
(* can be bound to in the file, by definition or by import.                *)
Package(path) == IF Final(path) = "__init__" THEN ModuleName(path) ELSE ButLast(path)

PythonModule(path, imp) ==
    IF imp.level = 0 THEN imp.module
    ELSE IF imp.level - 1 > Len(Package(path)) THEN None
    ELSE SubSeq(Package(path), 1, Len(Package(path)) - (imp.level - 1)) \o imp.module

Named(file, name) == {d.id : d \in {e \in Definitions(file) : e.name = name}}
DefinedIn(files, module, name) ==
    UNION {Named(f, <<name>>) : f \in {g \in files : ModuleName(g.path) = module}}

Reaches(files, file, call) ==
    LET expr == call.expr
        imports(from, local) == {i \in Elements(file.imports) : i.from = from /\ i.local = local}
    IN IF expr.kind = "name"
       THEN Named(file, <<expr.name>>)
            \cup (UNION {DefinedIn(files, PythonModule(file.path, i), i.name) :
                             i \in imports(TRUE, expr.name)})
       ELSE IF expr.kind = "attribute"
       THEN Named(file, <<IF expr.base = "self" THEN ClassOf(call.caller) ELSE expr.base, expr.attr>>)
            \cup (UNION {DefinedIn(files, i.module, expr.attr) : i \in imports(FALSE, expr.base)})
       ELSE {}

(* Three forms the code resolves in a way of its own: a relative import in *)
(* an __init__.py, an attribute of a package imported as "import a.b", and *)
(* a name out of a module whose own name is that of a class of the file.   *)
Unusual(file) ==
    \/ Final(file.path) = "__init__" /\ \E i \in Elements(file.imports) : i.level > 0
    \/ \E i \in Elements(file.imports) : ~i.from /\ Len(i.module) > 1 /\ i.local = i.module[1]
    \/ \E i \in Elements(file.imports), c \in Elements(file.classes) :
          /\ PythonModule(file.path, i) = <<c.name>>
          /\ i.from => i.name \in NamesIn(c.methods)

(* A batch just mapped, from readings of the tree that no edit disturbed.  *)
OneTree(c) ==
    /\ At(c, "merge") /\ client[c].queue = Queries(Batch(c))
    /\ \A field \in DOMAIN NoRead : client[c].read[field] = client[c].read.scanned
FilesRead(c) == Tree[client[c].read.facts].files
FilesOf(c) == Parsed(FilesRead(c))
CallsOf(c, file) == {e \in Batch(c).edges : e.type = "CALLS" /\ e.start[2] = file.path}

(* Every CALLS edge that ingestion draws joins the definition that makes a *)
(* call to one that this call can reach in Python.                         *)
CallsReachTheirTargets ==
    \A c \in Clients : OneTree(c) =>
        \A f \in {g \in FilesOf(c) : ~Unusual(g)} : \A e \in CallsOf(c, f) :
            \E call \in Elements(f.calls) :
                /\ e.start = LocalNode(f, call.caller)
                /\ e.end \in Reaches(FilesOf(c), f, call)

(* "One leading dot means the package containing this module": a relative  *)
(* import leads to the file that Python imports, if it is in the tree.     *)
RelativeImportsAreOrdinary ==
    \A c \in Clients : OneTree(c) =>
        \A f \in FilesOf(c), i \in UNION {Elements(g.imports) : g \in FilesOf(c)} :
            i \in Elements(f.imports) /\ i.level > 0 /\ IsModule(FilesRead(c), PythonModule(f.path, i)) =>
                LET target == FileOf(FilesRead(c), PythonModule(f.path, i)).path
                IN target = f.path
                   \/ Edge(FileId(f.path), "IMPORTS", FileId(target)) \in Batch(c).edges

(* The table of the mapper for other files "mirrors exactly how            *)
(* src.parser.relationships resolves imports": a call of a name that an    *)
(* import binds to a definition of another file gets an edge that leads to *)
(* a definition there.                                                     *)
ImportedCallsLeaveTheFile ==
    \A c \in Clients : OneTree(c) =>
        \A f \in FilesOf(c) : \A call \in Elements(f.calls), i \in Elements(f.imports) :
            LET module == ImportedModule(f.path, i.level, i.module)
            IN /\ call.expr.kind = "name" /\ call.expr.name \notin NamesIn(f.functions)
               /\ i = BoundBy(f, TRUE, call.expr.name) /\ module # None
               /\ HasSymbol(FilesRead(c), module, i.name) /\ LocalNode(f, call.caller) # None
               => \E e \in CallsOf(c, f) : /\ e.start = LocalNode(f, call.caller)
                                           /\ e.end \in DefinedIn(FilesOf(c), module, i.name)

-----------------------------------------------------------------------------
(* Ingestion is a graph that only grows, whose answers are true.           *)
Contract == INSTANCE GrowOnlyGraph
    WITH nodes <- Ids(nodes),
         work <- [c \in Clients |-> [nodes |-> Ids(Batch(c).nodes), edges |-> Batch(c).edges]],
         told <- {c \in Clients : At(c, "done")}

(* Nothing ever leaves the graph, no relationship loses an end, and what a *)
(* client was told is in stays in, whoever fails and whoever else merges.  *)
ImplementsContract == Contract!Spec
=============================================================================
