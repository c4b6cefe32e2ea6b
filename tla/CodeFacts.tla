------------------------------ MODULE CodeFacts ------------------------------
(***************************************************************************)
(* From a working tree to the records that go into the graph:              *)
(* parser/relationships.py (imports and calls resolved to definitions) and *)
(* graph/mapper.py with graph/identity.py (nodes and relationships).       *)
(*                                                                         *)
(* A path is the sequence of its parts without ".py", a dotted name the    *)
(* sequence of its parts.  A tree is [files, commits]; a file is           *)
(*   [path, state, functions, classes, imports, calls]                     *)
(* where state is "ok", "bad syntax" or "undecodable", functions and the   *)
(* methods of classes are sequences of [name, line], an import is          *)
(* [from, level, module, name, local] and a call [caller, expr].  A caller *)
(* is <<function>> or <<class, method>>; an expr is a name, an attribute   *)
(* of a name, or anything else.  An id is the tuple identity.py hashes.    *)
(***************************************************************************)
EXTENDS Integers, Sequences, FiniteSets

Elements(s) == {s[i] : i \in DOMAIN s}
NamesIn(s) == {d.name : d \in Elements(s)}
OfName(s, name) == {d \in Elements(s) : d.name = name}
ButLast(s) == SubSeq(s, 1, Len(s) - 1)
Final(s) == s[Len(s)]

(* The entry a dictionary filled with some of s, in their order, ends up   *)
(* with; and the one a search for any of them finds.                       *)
LastOf(s, some) == s[CHOOSE i \in DOMAIN s : s[i] \in some /\ \A j \in i + 1 .. Len(s) : s[j] \notin some]
FirstOf(s, some) == s[CHOOSE i \in DOMAIN s : s[i] \in some /\ \A j \in 1 .. i - 1 : s[j] \notin some]

None == <<>>

-----------------------------------------------------------------------------
(* module_name_for_path.                                                   *)
ModuleName(path) == IF Final(path) = "__init__" THEN ButLast(path) ELSE path

(* Variant: one dot goes up one level.                                     *)
OneDotTooFar(path, level, module) ==
    LET package == ButLast(ModuleName(path))
    IN IF level = 0 THEN module
       ELSE IF level > Len(package) THEN None
       ELSE SubSeq(package, 1, Len(package) - level) \o module

(* _resolve_relative_import_module; level counts the leading dots.         *)
ImportedModule(path, level, module) ==
    LET package == ButLast(ModuleName(path))
    IN IF level = 0 THEN module
       ELSE IF level - 1 > Len(package) THEN None
       ELSE SubSeq(package, 1, Len(package) - (level - 1)) \o module

(* RepoIndex: of two files with one module name the last one is kept.      *)
Parsed(files) == {f \in Elements(files) : f.state = "ok"}
IsModule(files, module) == \E f \in Parsed(files) : ModuleName(f.path) = module
FileOf(files, module) == LastOf(files, {f \in Parsed(files) : ModuleName(f.path) = module})

Symbols(file) == NamesIn(file.functions) \cup NamesIn(file.classes)
HasSymbol(files, module, name) == IsModule(files, module) /\ name \in Symbols(FileOf(files, module))

(* _import_lookup: the import a local name is bound by, from-imports and   *)
(* plain ones apart.                                                       *)
BoundBy(file, from, local) ==
    LET binding == {imp \in Elements(file.imports) : imp.from = from /\ imp.local = local}
    IN IF binding # {} THEN LastOf(file.imports, binding) ELSE None

HasMethod(file, class, method) ==
    /\ class \in NamesIn(file.classes)
    /\ method \in NamesIn(FirstOf(file.classes, OfName(file.classes, class)).methods)

(* _resolve_call: the dotted target, or None when it stays unresolved.     *)
ResolveName(files, file, name) ==
    LET imp == BoundBy(file, TRUE, name)
        module == ImportedModule(file.path, imp.level, imp.module)
    IN IF name \in NamesIn(file.functions) THEN <<name>>
       ELSE IF imp # None /\ module # None /\ HasSymbol(files, module, imp.name)
            THEN Append(module, imp.name)
       ELSE None

ResolveAttribute(files, file, class, base, attr) ==
    LET imp == BoundBy(file, FALSE, base)
    IN IF base = "self" /\ class # "none"
       THEN IF HasMethod(file, class, attr) THEN <<class, attr>> ELSE None
       ELSE IF imp # None /\ HasSymbol(files, imp.module, attr) THEN Append(imp.module, attr)
       ELSE None

ClassOf(caller) == IF Len(caller) = 2 THEN caller[1] ELSE "none"

Resolve(files, file, call) ==
    IF call.expr.kind = "name" THEN ResolveName(files, file, call.expr.name)
    ELSE IF call.expr.kind = "attribute"
         THEN ResolveAttribute(files, file, ClassOf(call.caller), call.expr.base, call.expr.attr)
    ELSE None

(* extract_import_relationships: the files a file imports from.            *)
ImportedFiles(files, file) ==
    {FileOf(files, m).path :
        m \in {n \in {ImportedModule(file.path, imp.level, imp.module) :
                         imp \in Elements(file.imports)} :
                  n # None /\ IsModule(files, n)}} \ {file.path}

-----------------------------------------------------------------------------
(* identity.py *)
RepositoryId == <<"Repository">>
FileId(path) == <<"File", path>>
ClassId(path, class) == <<"Class", path, class>>
MethodId(path, class, method) == <<"Method", path, class, method>>
FunctionId(path, function, line) == <<"Function", path, function, line>>
CommitId(hash) == <<"Commit", hash>>

Label(id) == id[1]
Edge(start, type, end) == [start |-> start, type |-> type, end |-> end]

(* map_repository_to_graph.  The tree is read four times, by               *)
(* scan_source_files, parse_repository, the relationship extraction and    *)
(* get_commits; "read" has the tree each of them found.                    *)
Known(read) == {f.path : f \in Elements(read.scanned.files)}
KnownFiles(read) == {f \in Parsed(read.facts.files) : f.path \in Known(read)}

(* The two lookups of the mapper.  Of two definitions of one name the last *)
(* one is found, and a function hides a class.                             *)
TopLevel(file, name) ==
    IF name \in NamesIn(file.functions)
    THEN FunctionId(file.path, name, LastOf(file.functions, OfName(file.functions, name)).line)
    ELSE IF name \in NamesIn(file.classes) THEN ClassId(file.path, name)
    ELSE None

LocalNode(file, name) ==
    IF Len(name) = 1 THEN TopLevel(file, name[1])
    ELSE IF /\ Len(name) = 2
            /\ \E c \in Elements(file.classes) : c.name = name[1] /\ name[2] \in NamesIn(c.methods)
         THEN MethodId(file.path, name[1], name[2])
    ELSE None

ModuleNode(read, name) ==
    LET defining == {f \in KnownFiles(read) :
                        ModuleName(f.path) = ButLast(name) /\ Final(name) \in Symbols(f)}
    IN IF Len(name) > 1 /\ defining # {}
       THEN TopLevel(LastOf(read.facts.files, defining), Final(name))
       ELSE None

TargetNode(read, file, name) ==
    IF LocalNode(file, name) # None THEN LocalNode(file, name) ELSE ModuleNode(read, name)

(* The definitions of a file.  A class or method defined twice is one node *)
(* with the line of the last definition, a function defined twice is two.  *)
MethodLine(file, class, method) ==
    LET last == LastOf(file.classes, {c \in OfName(file.classes, class) : method \in NamesIn(c.methods)})
    IN LastOf(last.methods, OfName(last.methods, method)).line

Definitions(file) ==
    {[id |-> FunctionId(file.path, f.name, f.line), line |-> f.line, name |-> <<f.name>>] :
        f \in Elements(file.functions)}
    \cup {[id |-> ClassId(file.path, n), name |-> <<n>>,
            line |-> LastOf(file.classes, OfName(file.classes, n)).line] :
               n \in NamesIn(file.classes)}
    \cup {[id |-> MethodId(file.path, n[1], n[2]), name |-> n, line |-> MethodLine(file, n[1], n[2])] :
               n \in UNION {{<<c.name, m>> : m \in NamesIn(c.methods)} :
                                c \in Elements(file.classes)}}

(* What the second reading of a file says about its calls.                 *)
CallsIn(tree, path) ==
    UNION {Elements(f.calls) : f \in {g \in Elements(tree.files) : g.path = path}}

Unresolved(files, file, calls, name) ==
    {c.expr : c \in {d \in calls : d.caller = name /\ Resolve(files, file, d) = None}}

Node(id, line, unresolved) == [id |-> id, line |-> line, unresolved |-> unresolved]

DefinitionNode(read, file, d) ==
    Node(d.id, d.line,
         IF Label(d.id) = "Class" THEN {}
         ELSE Unresolved(read.facts.files, file, CallsIn(read.bodies, file.path), d.name))

NodesOf(read) ==
    {Node(RepositoryId, 0, {})}
    \cup {Node(FileId(p), 0, {}) : p \in Known(read)}
    \cup {Node(CommitId(c.hash), 0, {}) : c \in Elements(read.history.commits)}
    \cup (UNION {{DefinitionNode(read, f, d) : d \in Definitions(f)} : f \in KnownFiles(read)})

(* _add_call_relationship *)
CallEdge(read, file, call) ==
    Edge(LocalNode(file, call.caller), "CALLS",
         TargetNode(read, file, Resolve(read.facts.files, file, call)))

CallEdges(read, file) ==
    {CallEdge(read, file, c) :
        c \in {d \in CallsIn(read.bodies, file.path) :
                  /\ Resolve(read.facts.files, file, d) # None
                  /\ LocalNode(file, d.caller) # None
                  /\ TargetNode(read, file, Resolve(read.facts.files, file, d)) # None}}

ContainsEdges(file) ==
    {Edge(IF Label(d.id) = "Method" THEN ClassId(file.path, d.name[1]) ELSE FileId(file.path),
          "CONTAINS", d.id) : d \in Definitions(file)}

(* _add_import_relationship *)
ImportEdges(read, file) ==
    {Edge(FileId(file.path), "IMPORTS", FileId(p)) :
        p \in ImportedFiles(read.facts.files, file) \cap Known(read)}

EdgesOf(read) ==
    {Edge(RepositoryId, "CONTAINS", FileId(p)) : p \in Known(read)}
    \cup (UNION {ContainsEdges(f) \cup CallEdges(read, f) \cup ImportEdges(read, f) :
                    f \in KnownFiles(read)})
    \cup (UNION {{Edge(CommitId(c.hash), "MODIFIES", FileId(p)) : p \in c.changed \cap Known(read)} :
                    c \in Elements(read.history.commits)})
=============================================================================
