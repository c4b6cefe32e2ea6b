-------------------------- MODULE GraphIngest_proofs --------------------------
(***************************************************************************)
(* Proofs about GraphIngest, for every set of clients, every working tree  *)
(* and every number of edits.                                              *)
(***************************************************************************)
EXTENDS GraphIngest, WellFoundedInduction, SequenceTheorems, TLAPS

-----------------------------------------------------------------------------
(***************************************************************************)
(* The last and the first of some entries of a list exist.                 *)
(***************************************************************************)
LEMMA SmallestExists ==
    ASSUME NEW T, T \subseteq Nat, T # {}
    PROVE  \E m \in T : \A n \in T : m <= n
<1>1. PICK m \in T : \A n \in T : ~(<<n, m>> \in OpToRel(<, Nat))
  BY NatLessThanWellFounded, WFMin
<1>2. \A n \in T : ~(n < m)
  BY <1>1 DEF OpToRel
<1>3. QED
  BY <1>2

LEMMA LastExists ==
    ASSUME NEW s, IsList(s), NEW some, some \subseteq Elements(s), some # {}
    PROVE  LastOf(s, some) \in some
<1> DEFINE Places == {i \in DOMAIN s : s[i] \in some}
           FromTheEnd == {Len(s) - i : i \in Places}
<1>1. DOMAIN s = 1 .. Len(s) /\ Len(s) \in Nat
  BY DEF IsList
<1>2. FromTheEnd \subseteq Nat /\ FromTheEnd # {}
  BY <1>1 DEF Elements
<1>3. PICK m \in FromTheEnd : \A n \in FromTheEnd : m <= n
  <2> HIDE DEF FromTheEnd
  <2>1. QED
    BY <1>2, SmallestExists
<1>4. PICK i \in Places : m = Len(s) - i
  OBVIOUS
<1>5. i \in 1 .. Len(s) /\ s[i] \in some
  BY <1>1, <1>4
<1>6. ASSUME NEW j \in i + 1 .. Len(s), s[j] \in some
      PROVE  FALSE
  <2>1. j \in Places /\ j \in Nat /\ j > i
    BY <1>1, <1>5, <1>6
  <2>2. Len(s) - i <= Len(s) - j
    BY <1>3, <1>4, <2>1
  <2>3. QED
    BY <1>1, <1>5, <2>1, <2>2
<1>7. QED
  BY <1>1, <1>5, <1>6 DEF LastOf

LEMMA FirstExists ==
    ASSUME NEW s, IsList(s), NEW some, some \subseteq Elements(s), some # {}
    PROVE  FirstOf(s, some) \in some
<1> DEFINE Places == {i \in DOMAIN s : s[i] \in some}
<1>1. DOMAIN s = 1 .. Len(s) /\ Len(s) \in Nat
  BY DEF IsList
<1>2. Places \subseteq Nat /\ Places # {}
  BY <1>1 DEF Elements
<1>3. PICK i \in Places : \A j \in Places : i <= j
  <2> HIDE DEF Places
  <2>1. QED
    BY <1>2, SmallestExists
<1>4. /\ i \in DOMAIN s /\ s[i] \in some
      /\ \A j \in 1 .. i - 1 : s[j] \notin some
  BY <1>1, <1>3
<1>5. QED
  BY <1>4 DEF FirstOf

LEMMA OfNameFits ==
    ASSUME NEW s, NEW name
    PROVE  /\ OfName(s, name) \subseteq Elements(s)
           /\ name \in NamesIn(s) => OfName(s, name) # {}
           /\ \A d \in OfName(s, name) : d.name = name
BY DEF OfName, NamesIn

-----------------------------------------------------------------------------
(***************************************************************************)
(* Ids: their parts, and the definitions of a file that have them.         *)
(***************************************************************************)
LEMMA IdParts ==
    /\ RepositoryId[1] = "Repository"
    /\ \A p : FileId(p)[1] = "File" /\ FileId(p)[2] = p
    /\ \A p, n : ClassId(p, n)[1] = "Class" /\ ClassId(p, n)[2] = p /\ ClassId(p, n)[3] = n
    /\ \A p, c, m : /\ MethodId(p, c, m)[1] = "Method" /\ MethodId(p, c, m)[2] = p
                    /\ MethodId(p, c, m)[3] = c /\ MethodId(p, c, m)[4] = m
    /\ \A p, n, l : /\ FunctionId(p, n, l)[1] = "Function" /\ FunctionId(p, n, l)[2] = p
                    /\ FunctionId(p, n, l)[3] = n /\ FunctionId(p, n, l)[4] = l
    /\ \A h : CommitId(h)[1] = "Commit" /\ CommitId(h)[2] = h
BY DEF RepositoryId, FileId, ClassId, MethodId, FunctionId, CommitId

IsFunction(file, d) ==
    \E g \in Elements(file.functions) :
        d = [id |-> FunctionId(file.path, g.name, g.line), line |-> g.line, name |-> <<g.name>>]
IsClass(file, d) ==
    \E n \in NamesIn(file.classes) :
        d = [id |-> ClassId(file.path, n), name |-> <<n>>,
             line |-> LastOf(file.classes, OfName(file.classes, n)).line]
IsMethod(file, d) ==
    \E c \in Elements(file.classes) : \E m \in NamesIn(c.methods) :
        d = [id |-> MethodId(file.path, c.name, m), name |-> <<c.name, m>>,
             line |-> MethodLine(file, c.name, m)]

LEMMA DefinitionKinds ==
    ASSUME NEW file, NEW d
    PROVE  d \in Definitions(file) <=> IsFunction(file, d) \/ IsClass(file, d) \/ IsMethod(file, d)
<1>1. ASSUME d \in Definitions(file), ~IsFunction(file, d), ~IsClass(file, d)
      PROVE  IsMethod(file, d)
  <2>1. PICK n \in UNION {{<<c.name, m>> : m \in NamesIn(c.methods)} : c \in Elements(file.classes)} :
           d = [id |-> MethodId(file.path, n[1], n[2]), name |-> n, line |-> MethodLine(file, n[1], n[2])]
    BY <1>1 DEF Definitions, IsFunction, IsClass
  <2>2. PICK c \in Elements(file.classes) : \E m \in NamesIn(c.methods) : n = <<c.name, m>>
    OBVIOUS
  <2>3. PICK m \in NamesIn(c.methods) : n = <<c.name, m>>
    BY <2>2
  <2>4. QED
    BY <2>1, <2>3 DEF IsMethod
<1>2. ASSUME IsMethod(file, d)
      PROVE  d \in Definitions(file)
  <2>1. PICK c \in Elements(file.classes) : \E m \in NamesIn(c.methods) :
           d = [id |-> MethodId(file.path, c.name, m), name |-> <<c.name, m>>,
                line |-> MethodLine(file, c.name, m)]
    BY <1>2 DEF IsMethod
  <2>2. PICK m \in NamesIn(c.methods) :
           d = [id |-> MethodId(file.path, c.name, m), name |-> <<c.name, m>>,
                line |-> MethodLine(file, c.name, m)]
    BY <2>1
  <2> DEFINE n == <<c.name, m>>
  <2>3. n \in UNION {{<<k.name, o>> : o \in NamesIn(k.methods)} : k \in Elements(file.classes)}
    OBVIOUS
  <2>4. d = [id |-> MethodId(file.path, n[1], n[2]), name |-> n, line |-> MethodLine(file, n[1], n[2])]
    BY <2>2
  <2> HIDE DEF n
  <2>5. QED
    BY <2>3, <2>4 DEF Definitions
<1>3. IsFunction(file, d) \/ IsClass(file, d) => d \in Definitions(file)
  BY DEF Definitions, IsFunction, IsClass
<1>4. QED
  BY <1>1, <1>2, <1>3

LEMMA DefinitionIds ==
    ASSUME NEW file, NEW d \in Definitions(file)
    PROVE  /\ Label(d.id) \in {"Class", "Method", "Function"}
           /\ d.id[2] = file.path
           /\ IsFunction(file, d) => Label(d.id) = "Function"
           /\ IsClass(file, d) => Label(d.id) = "Class"
           /\ IsMethod(file, d) => Label(d.id) = "Method"
BY DefinitionKinds, IdParts DEF IsFunction, IsClass, IsMethod, Label

(* Two definitions with one id are one definition of one file.             *)
LEMMA DefinitionsAreTold ==
    ASSUME NEW file, NEW d \in Definitions(file), NEW e \in Definitions(file), d.id = e.id
    PROVE  d = e
<1>1. CASE IsFunction(file, d)
  <2>1. IsFunction(file, e)
    BY <1>1, DefinitionKinds, DefinitionIds
  <2>2. PICK g \in Elements(file.functions) :
           d = [id |-> FunctionId(file.path, g.name, g.line), line |-> g.line, name |-> <<g.name>>]
    BY <1>1 DEF IsFunction
  <2>3. PICK h \in Elements(file.functions) :
           e = [id |-> FunctionId(file.path, h.name, h.line), line |-> h.line, name |-> <<h.name>>]
    BY <2>1 DEF IsFunction
  <2>4. g.name = h.name /\ g.line = h.line
    BY <2>2, <2>3, IdParts
  <2>5. QED
    BY <2>2, <2>3, <2>4
<1>2. CASE IsClass(file, d)
  <2>1. IsClass(file, e)
    BY <1>2, DefinitionKinds, DefinitionIds
  <2>2. PICK n \in NamesIn(file.classes) :
           d = [id |-> ClassId(file.path, n), name |-> <<n>>,
                line |-> LastOf(file.classes, OfName(file.classes, n)).line]
    BY <1>2 DEF IsClass
  <2>3. PICK k \in NamesIn(file.classes) :
           e = [id |-> ClassId(file.path, k), name |-> <<k>>,
                line |-> LastOf(file.classes, OfName(file.classes, k)).line]
    BY <2>1 DEF IsClass
  <2>4. n = k
    BY <2>2, <2>3, IdParts
  <2>5. QED
    BY <2>2, <2>3, <2>4
<1>3. CASE IsMethod(file, d)
  <2>1. IsMethod(file, e)
    BY <1>3, DefinitionKinds, DefinitionIds
  <2>2. PICK c \in Elements(file.classes) : \E m \in NamesIn(c.methods) :
           d = [id |-> MethodId(file.path, c.name, m), name |-> <<c.name, m>>,
                line |-> MethodLine(file, c.name, m)]
    BY <1>3 DEF IsMethod
  <2>3. PICK m \in NamesIn(c.methods) :
           d = [id |-> MethodId(file.path, c.name, m), name |-> <<c.name, m>>,
                line |-> MethodLine(file, c.name, m)]
    BY <2>2
  <2>4. PICK k \in Elements(file.classes) : \E o \in NamesIn(k.methods) :
           e = [id |-> MethodId(file.path, k.name, o), name |-> <<k.name, o>>,
                line |-> MethodLine(file, k.name, o)]
    BY <2>1 DEF IsMethod
  <2>5. PICK o \in NamesIn(k.methods) :
           e = [id |-> MethodId(file.path, k.name, o), name |-> <<k.name, o>>,
                line |-> MethodLine(file, k.name, o)]
    BY <2>4
  <2>6. c.name = k.name /\ m = o
    BY <2>3, <2>5, IdParts
  <2>7. QED
    BY <2>3, <2>5, <2>6
<1>4. QED
  BY <1>1, <1>2, <1>3, DefinitionKinds

(* A name that a file defines at its top, or in a class, is the name of    *)
(* one of its definitions.                                                 *)
LEMMA TopLevelIsDefined ==
    ASSUME NEW file, IsFile(file), NEW name, TopLevel(file, name) # None
    PROVE  \E d \in Definitions(file) :
              /\ d.id = TopLevel(file, name) /\ d.name = <<name>>
              /\ Label(d.id) \in {"Class", "Function"}
<1>1. CASE name \in NamesIn(file.functions)
  <2> DEFINE g == LastOf(file.functions, OfName(file.functions, name))
             d == [id |-> FunctionId(file.path, g.name, g.line), line |-> g.line, name |-> <<g.name>>]
  <2>1. g \in OfName(file.functions, name)
    BY <1>1, OfNameFits, LastExists DEF IsFile
  <2>2. g \in Elements(file.functions) /\ g.name = name
    BY <2>1, OfNameFits
  <2>3. TopLevel(file, name) = d.id /\ d.name = <<name>>
    BY <1>1, <2>2 DEF TopLevel
  <2>4. IsFunction(file, d)
    BY <2>2 DEF IsFunction
  <2> HIDE DEF d
  <2>5. QED
    BY <2>3, <2>4, DefinitionKinds, DefinitionIds
<1>2. CASE name \notin NamesIn(file.functions)
  <2> DEFINE d == [id |-> ClassId(file.path, name), name |-> <<name>>,
                   line |-> LastOf(file.classes, OfName(file.classes, name)).line]
  <2>1. name \in NamesIn(file.classes) /\ TopLevel(file, name) = d.id
    BY <1>2 DEF TopLevel
  <2>2. IsClass(file, d) /\ d.name = <<name>>
    BY <2>1 DEF IsClass
  <2> HIDE DEF d
  <2>3. QED
    BY <2>1, <2>2, DefinitionKinds, DefinitionIds
<1>3. QED
  BY <1>1, <1>2

LEMMA LocalNodeIsDefined ==
    ASSUME NEW file, IsFile(file), NEW name, LocalNode(file, name) # None
    PROVE  \E d \in Definitions(file) :
              /\ d.id = LocalNode(file, name)
              /\ \/ Len(name) = 1 /\ d.name = <<name[1]>> /\ Label(d.id) \in {"Class", "Function"}
                 \/ Len(name) = 2 /\ d.name = <<name[1], name[2]>> /\ Label(d.id) = "Method"
<1>1. CASE Len(name) = 1
  BY <1>1, TopLevelIsDefined DEF LocalNode
<1>2. CASE Len(name) # 1
  <2>1. /\ Len(name) = 2 /\ LocalNode(file, name) = MethodId(file.path, name[1], name[2])
        /\ \E c \in Elements(file.classes) : c.name = name[1] /\ name[2] \in NamesIn(c.methods)
    BY <1>2 DEF LocalNode
  <2>2. PICK c \in Elements(file.classes) : c.name = name[1] /\ name[2] \in NamesIn(c.methods)
    BY <2>1
  <2> DEFINE d == [id |-> MethodId(file.path, c.name, name[2]), name |-> <<c.name, name[2]>>,
                   line |-> MethodLine(file, c.name, name[2])]
  <2>3. IsMethod(file, d) /\ d.id = LocalNode(file, name) /\ d.name = <<name[1], name[2]>>
    BY <2>1, <2>2 DEF IsMethod
  <2> HIDE DEF d
  <2>4. QED
    BY <2>1, <2>3, DefinitionKinds, DefinitionIds
<1>3. QED
  BY <1>1, <1>2

-----------------------------------------------------------------------------
(***************************************************************************)
(* The batch mapped from one reading of each kind: its labels, one node    *)
(* for an id, no relationship without its ends.                            *)
(***************************************************************************)
IsTree(t) ==
    /\ IsList(t.files)
    /\ \A f \in Elements(t.files) : IsFile(f)
    /\ \A f, g \in Elements(t.files) : f.path = g.path => f = g

NodeLabels == {"Repository", "File", "Class", "Method", "Function", "Commit"}

IsDefinitionNode(read, n) ==
    \E f \in KnownFiles(read) : \E d \in Definitions(f) : n = DefinitionNode(read, f, d)

LEMMA NodeKinds ==
    ASSUME NEW read, NEW n \in NodesOf(read)
    PROVE  \/ n = Node(RepositoryId, 0, {})
           \/ \E p \in Known(read) : n = Node(FileId(p), 0, {})
           \/ IsDefinitionNode(read, n)
           \/ \E c \in Elements(read.history.commits) : n = Node(CommitId(c.hash), 0, {})
<1> DEFINE Definers == UNION {{DefinitionNode(read, f, d) : d \in Definitions(f)} : f \in KnownFiles(read)}
           Commits == {Node(CommitId(c.hash), 0, {}) : c \in Elements(read.history.commits)}
           Sources == {Node(FileId(p), 0, {}) : p \in Known(read)}
<1>1. n \in {Node(RepositoryId, 0, {})} \cup Sources \cup Definers \cup Commits
  BY DEF NodesOf
<1>2. n \in Definers => IsDefinitionNode(read, n)
  BY DEF IsDefinitionNode
<1>3. n \in Sources => \E p \in Known(read) : n = Node(FileId(p), 0, {})
  OBVIOUS
<1>4. n \in Commits => \E c \in Elements(read.history.commits) : n = Node(CommitId(c.hash), 0, {})
  OBVIOUS
<1> HIDE DEF Definers, Commits, Sources
<1>5. QED
  BY <1>1, <1>2, <1>3, <1>4

LEMMA DefinitionNodeId ==
    ASSUME NEW read, NEW f, NEW d
    PROVE  DefinitionNode(read, f, d).id = d.id
BY DEF DefinitionNode, Node

LEMMA NodeLabelsKnown ==
    ASSUME NEW read, NEW n \in NodesOf(read)
    PROVE  /\ Label(n.id) \in NodeLabels
           /\ Label(n.id) \in {"Class", "Method", "Function"} <=> IsDefinitionNode(read, n)
<1>1. CASE n = Node(RepositoryId, 0, {})
  <2>1. Label(n.id) = "Repository"
    BY <1>1, IdParts DEF Node, Label
  <2>2. ~IsDefinitionNode(read, n)
    BY <2>1, DefinitionIds, DefinitionNodeId DEF IsDefinitionNode
  <2>3. QED
    BY <2>1, <2>2 DEF NodeLabels
<1>2. CASE \E p \in Known(read) : n = Node(FileId(p), 0, {})
  <2>1. Label(n.id) = "File"
    BY <1>2, IdParts DEF Node, Label
  <2>2. ~IsDefinitionNode(read, n)
    BY <2>1, DefinitionIds, DefinitionNodeId DEF IsDefinitionNode
  <2>3. QED
    BY <2>1, <2>2 DEF NodeLabels
<1>3. CASE IsDefinitionNode(read, n)
  BY <1>3, DefinitionIds, DefinitionNodeId DEF IsDefinitionNode, NodeLabels
<1>4. CASE \E c \in Elements(read.history.commits) : n = Node(CommitId(c.hash), 0, {})
  <2>1. Label(n.id) = "Commit"
    BY <1>4, IdParts DEF Node, Label
  <2>2. ~IsDefinitionNode(read, n)
    BY <2>1, DefinitionIds, DefinitionNodeId DEF IsDefinitionNode
  <2>3. QED
    BY <2>1, <2>2 DEF NodeLabels
<1>5. QED
  BY <1>1, <1>2, <1>3, <1>4, NodeKinds

LEMMA OneNodePerId ==
    ASSUME NEW read, IsTree(read.facts), NEW n \in NodesOf(read), NEW m \in NodesOf(read), n.id = m.id
    PROVE  n = m
<1>1. CASE IsDefinitionNode(read, n)
  <2>1. IsDefinitionNode(read, m)
    BY <1>1, NodeLabelsKnown
  <2>2. PICK f \in KnownFiles(read) : \E d \in Definitions(f) : n = DefinitionNode(read, f, d)
    BY <1>1 DEF IsDefinitionNode
  <2>3. PICK d \in Definitions(f) : n = DefinitionNode(read, f, d)
    BY <2>2
  <2>4. PICK g \in KnownFiles(read) : \E e \in Definitions(g) : m = DefinitionNode(read, g, e)
    BY <2>1 DEF IsDefinitionNode
  <2>5. PICK e \in Definitions(g) : m = DefinitionNode(read, g, e)
    BY <2>4
  <2>6. d.id = e.id
    BY <2>3, <2>5, DefinitionNodeId
  <2>7. f.path = g.path
    BY <2>6, DefinitionIds
  <2>8. f = g
    BY <2>7 DEF KnownFiles, Parsed, IsTree
  <2>9. QED
    BY <2>3, <2>5, <2>6, <2>8, DefinitionsAreTold
<1>2. CASE ~IsDefinitionNode(read, n)
  <2>1. ~IsDefinitionNode(read, m)
    BY <1>2, NodeLabelsKnown
  <2>2. n = Node(n.id, 0, {}) /\ m = Node(m.id, 0, {})
    BY <1>2, <2>1, NodeKinds DEF Node
  <2>3. QED
    BY <2>2
<1>3. QED
  BY <1>1, <1>2

LEMMA BatchIds ==
    ASSUME NEW read
    PROVE  /\ RepositoryId \in Ids(NodesOf(read))
           /\ \A p \in Known(read) : FileId(p) \in Ids(NodesOf(read))
           /\ \A c \in Elements(read.history.commits) : CommitId(c.hash) \in Ids(NodesOf(read))
           /\ \A f \in KnownFiles(read) : \A d \in Definitions(f) : d.id \in Ids(NodesOf(read))
<1>1. Node(RepositoryId, 0, {}) \in NodesOf(read)
  BY DEF NodesOf
<1>2. \A p \in Known(read) : Node(FileId(p), 0, {}) \in NodesOf(read)
  BY DEF NodesOf
<1>3. \A c \in Elements(read.history.commits) : Node(CommitId(c.hash), 0, {}) \in NodesOf(read)
  BY DEF NodesOf
<1>4. ASSUME NEW f \in KnownFiles(read), NEW d \in Definitions(f)
      PROVE  DefinitionNode(read, f, d) \in NodesOf(read)
  <2>1. DefinitionNode(read, f, d)
           \in UNION {{DefinitionNode(read, g, e) : e \in Definitions(g)} : g \in KnownFiles(read)}
    OBVIOUS
  <2>2. QED
    BY <2>1 DEF NodesOf
<1>5. ASSUME NEW f \in KnownFiles(read), NEW d \in Definitions(f)
      PROVE  d.id \in Ids(NodesOf(read))
  BY <1>4, DefinitionNodeId DEF Ids
<1>6. ASSUME NEW id, Node(id, 0, {}) \in NodesOf(read)
      PROVE  id \in Ids(NodesOf(read))
  BY <1>6 DEF Ids, Node
<1>7. QED
  BY <1>1, <1>2, <1>3, <1>5, <1>6

(* The relationships of a batch, kind by kind.                             *)
ContainsDefinition(read, e) ==
    \E f \in KnownFiles(read) : \E d \in Definitions(f) :
        e = Edge(IF Label(d.id) = "Method" THEN ClassId(f.path, d.name[1]) ELSE FileId(f.path),
                 "CONTAINS", d.id)
IsCall(read, f, call, e) ==
    /\ call \in CallsIn(read.bodies, f.path)
    /\ Resolve(read.facts.files, f, call) # None
    /\ LocalNode(f, call.caller) # None
    /\ TargetNode(read, f, Resolve(read.facts.files, f, call)) # None
    /\ e = CallEdge(read, f, call)
DrawsCall(read, e) == \E f \in KnownFiles(read) : \E call : IsCall(read, f, call, e)
DrawsImport(read, e) ==
    \E f \in KnownFiles(read) : \E p \in Known(read) : e = Edge(FileId(f.path), "IMPORTS", FileId(p))
DrawsChange(read, e) ==
    \E c \in Elements(read.history.commits) : \E p \in Known(read) :
        e = Edge(CommitId(c.hash), "MODIFIES", FileId(p))

LEMMA EdgeKinds ==
    ASSUME NEW read, NEW e \in EdgesOf(read)
    PROVE  \/ \E p \in Known(read) : e = Edge(RepositoryId, "CONTAINS", FileId(p))
           \/ ContainsDefinition(read, e) \/ DrawsCall(read, e)
           \/ DrawsImport(read, e) \/ DrawsChange(read, e)
<1> DEFINE Sources == {Edge(RepositoryId, "CONTAINS", FileId(p)) : p \in Known(read)}
           Parts == UNION {ContainsEdges(f) \cup CallEdges(read, f) \cup ImportEdges(read, f) :
                              f \in KnownFiles(read)}
           Changes == UNION {{Edge(CommitId(c.hash), "MODIFIES", FileId(p)) :
                                 p \in c.changed \cap Known(read)} :
                                    c \in Elements(read.history.commits)}
<1>1. e \in Sources \cup Parts \cup Changes
  BY DEF EdgesOf
<1>2. e \in Sources => \E p \in Known(read) : e = Edge(RepositoryId, "CONTAINS", FileId(p))
  OBVIOUS
<1>3. e \in Changes => DrawsChange(read, e)
  <2> SUFFICES ASSUME e \in Changes
               PROVE  DrawsChange(read, e)
    OBVIOUS
  <2>1. PICK c \in Elements(read.history.commits) :
           e \in {Edge(CommitId(c.hash), "MODIFIES", FileId(p)) : p \in c.changed \cap Known(read)}
    OBVIOUS
  <2>2. QED
    BY <2>1 DEF DrawsChange
<1>4. ASSUME e \in Parts
      PROVE  ContainsDefinition(read, e) \/ DrawsCall(read, e) \/ DrawsImport(read, e)
  <2>1. PICK f \in KnownFiles(read) :
           e \in ContainsEdges(f) \/ e \in CallEdges(read, f) \/ e \in ImportEdges(read, f)
    BY <1>4
  <2>2. e \in ContainsEdges(f) => ContainsDefinition(read, e)
    BY DEF ContainsEdges, ContainsDefinition
  <2>3. e \in CallEdges(read, f) => DrawsCall(read, e)
    <3>1. e \in CallEdges(read, f) => \E call : IsCall(read, f, call, e)
      BY DEF CallEdges, IsCall
    <3>2. QED
      BY <3>1 DEF DrawsCall
  <2>4. e \in ImportEdges(read, f) => DrawsImport(read, e)
    BY DEF ImportEdges, DrawsImport
  <2>5. QED
    BY <2>1, <2>2, <2>3, <2>4
<1> HIDE DEF Sources, Parts, Changes
<1>5. QED
  BY <1>1, <1>2, <1>3, <1>4

LEMMA KnownFileFits ==
    ASSUME NEW read, IsTree(read.facts), NEW f \in KnownFiles(read)
    PROVE  IsFile(f) /\ f.path \in Known(read) /\ f \in Elements(read.facts.files)
BY DEF KnownFiles, Parsed, IsTree

(* The target of a call is a definition of a file that is known.           *)
LEMMA TargetIsDefined ==
    ASSUME NEW read, IsTree(read.facts), NEW f \in KnownFiles(read), NEW name,
           TargetNode(read, f, name) # None
    PROVE  \E g \in KnownFiles(read) : \E d \in Definitions(g) : d.id = TargetNode(read, f, name)
<1>1. CASE LocalNode(f, name) # None
  BY <1>1, LocalNodeIsDefined, KnownFileFits DEF TargetNode
<1>2. CASE LocalNode(f, name) = None
  <2> DEFINE defining == {g \in KnownFiles(read) :
                             ModuleName(g.path) = ButLast(name) /\ Final(name) \in Symbols(g)}
             g == LastOf(read.facts.files, defining)
  <2>1. TargetNode(read, f, name) = ModuleNode(read, name)
    BY <1>2 DEF TargetNode
  <2>2. defining # {} /\ ModuleNode(read, name) = TopLevel(g, Final(name))
    BY <2>1 DEF ModuleNode
  <2>3. defining \subseteq Elements(read.facts.files) /\ IsList(read.facts.files)
    BY KnownFileFits DEF IsTree
  <2>4. g \in defining
    <3> HIDE DEF defining
    <3>1. QED
      BY <2>2, <2>3, LastExists
  <2>5. g \in KnownFiles(read) /\ IsFile(g)
    BY <2>4, KnownFileFits
  <2>6. TopLevel(g, Final(name)) # None
    BY <2>1, <2>2
  <2> HIDE DEF g
  <2>7. QED
    BY <2>1, <2>2, <2>5, <2>6, TopLevelIsDefined
<1>3. QED
  BY <1>1, <1>2

LEMMA EdgeParts ==
    ASSUME NEW start, NEW type, NEW end
    PROVE  /\ Edge(start, type, end).start = start
           /\ Edge(start, type, end).type = type
           /\ Edge(start, type, end).end = end
BY DEF Edge

LEMMA EdgesHaveEnds ==
    ASSUME NEW read, IsTree(read.facts), NEW e \in EdgesOf(read)
    PROVE  e.start \in Ids(NodesOf(read)) /\ e.end \in Ids(NodesOf(read))
<1>1. CASE \E p \in Known(read) : e = Edge(RepositoryId, "CONTAINS", FileId(p))
  BY <1>1, BatchIds, EdgeParts
<1>2. CASE ContainsDefinition(read, e)
  <2>1. PICK f \in KnownFiles(read) : \E d \in Definitions(f) :
           e = Edge(IF Label(d.id) = "Method" THEN ClassId(f.path, d.name[1]) ELSE FileId(f.path),
                    "CONTAINS", d.id)
    BY <1>2 DEF ContainsDefinition
  <2>2. PICK d \in Definitions(f) :
           e = Edge(IF Label(d.id) = "Method" THEN ClassId(f.path, d.name[1]) ELSE FileId(f.path),
                    "CONTAINS", d.id)
    BY <2>1
  <2>3. CASE Label(d.id) = "Method"
    <3>1. IsMethod(f, d)
      BY <2>3, DefinitionKinds, DefinitionIds
    <3>2. PICK c \in Elements(f.classes) : d.name[1] = c.name
      BY <3>1 DEF IsMethod
    <3> DEFINE k == [id |-> ClassId(f.path, c.name), name |-> <<c.name>>,
                     line |-> LastOf(f.classes, OfName(f.classes, c.name)).line]
    <3>3. IsClass(f, k) /\ k.id = ClassId(f.path, d.name[1])
      BY <3>2 DEF IsClass, NamesIn
    <3> HIDE DEF k
    <3>4. k \in Definitions(f)
      BY <3>3, DefinitionKinds
    <3>5. QED
      BY <2>2, <2>3, <3>3, <3>4, BatchIds, EdgeParts
  <2>4. CASE Label(d.id) # "Method"
    BY <2>2, <2>4, BatchIds, EdgeParts, KnownFileFits
  <2>5. QED
    BY <2>3, <2>4
<1>3. CASE DrawsCall(read, e)
  <2>1. PICK f \in KnownFiles(read) : \E call : IsCall(read, f, call, e)
    BY <1>3 DEF DrawsCall
  <2>2. PICK call : IsCall(read, f, call, e)
    BY <2>1
  <2>3. /\ e.start = LocalNode(f, call.caller) /\ e.start # None
        /\ e.end = TargetNode(read, f, Resolve(read.facts.files, f, call)) /\ e.end # None
    BY <2>2, EdgeParts DEF IsCall, CallEdge
  <2>4. \E d \in Definitions(f) : d.id = e.start
    BY <2>3, LocalNodeIsDefined, KnownFileFits
  <2>5. \E g \in KnownFiles(read) : \E d \in Definitions(g) : d.id = e.end
    BY <2>3, TargetIsDefined
  <2>6. QED
    BY <2>4, <2>5, BatchIds
<1>4. CASE DrawsImport(read, e)
  BY <1>4, BatchIds, EdgeParts, KnownFileFits DEF DrawsImport
<1>5. CASE DrawsChange(read, e)
  BY <1>5, BatchIds, EdgeParts DEF DrawsChange
<1>6. QED
  BY <1>1, <1>2, <1>3, <1>4, <1>5, EdgeKinds

CodeLabels == {"Class", "Method", "Function"}

LEMMA ShapesHold ==
    /\ <<"Repository", "CONTAINS", "File">> \in Elements(Shapes)
    /\ <<"File", "CONTAINS", "Class">> \in Elements(Shapes)
    /\ <<"Class", "CONTAINS", "Method">> \in Elements(Shapes)
    /\ <<"File", "CONTAINS", "Function">> \in Elements(Shapes)
    /\ <<"File", "IMPORTS", "File">> \in Elements(Shapes)
    /\ <<"Commit", "MODIFIES", "File">> \in Elements(Shapes)
    /\ \A l, m \in CodeLabels : <<l, "CALLS", m>> \in Elements(Shapes)
<1>1. DOMAIN Shapes = 1 .. 15
  BY DEF Shapes
<1>2. \A i \in 1 .. 15 : Shapes[i] \in Elements(Shapes)
  BY <1>1 DEF Elements
<1>3. /\ Shapes[1] = <<"Repository", "CONTAINS", "File">>
      /\ Shapes[2] = <<"File", "CONTAINS", "Class">>
      /\ Shapes[3] = <<"Class", "CONTAINS", "Method">>
      /\ Shapes[4] = <<"File", "CONTAINS", "Function">>
      /\ Shapes[14] = <<"File", "IMPORTS", "File">>
      /\ Shapes[15] = <<"Commit", "MODIFIES", "File">>
  BY DEF Shapes
<1>4. /\ Shapes[5] = <<"Method", "CALLS", "Method">>
      /\ Shapes[6] = <<"Method", "CALLS", "Function">>
      /\ Shapes[7] = <<"Method", "CALLS", "Class">>
      /\ Shapes[8] = <<"Function", "CALLS", "Method">>
      /\ Shapes[9] = <<"Function", "CALLS", "Function">>
      /\ Shapes[10] = <<"Function", "CALLS", "Class">>
      /\ Shapes[11] = <<"Class", "CALLS", "Method">>
      /\ Shapes[12] = <<"Class", "CALLS", "Function">>
      /\ Shapes[13] = <<"Class", "CALLS", "Class">>
  BY DEF Shapes
<1>5. \A l, m \in CodeLabels : \E i \in 1 .. 15 : Shapes[i] = <<l, "CALLS", m>>
  BY <1>4 DEF CodeLabels
<1>6. QED
  BY <1>2, <1>3, <1>5

LEMMA ShapesKnown ==
    ASSUME NEW read, IsTree(read.facts), NEW e \in EdgesOf(read)
    PROVE  Shape(e) \in Elements(Shapes)
<1>0. /\ Label(RepositoryId) = "Repository"
      /\ \A p : Label(FileId(p)) = "File"
      /\ \A p, n : Label(ClassId(p, n)) = "Class"
      /\ \A h : Label(CommitId(h)) = "Commit"
  BY IdParts DEF Label
<1>1. CASE \E p \in Known(read) : e = Edge(RepositoryId, "CONTAINS", FileId(p))
  BY <1>0, <1>1, EdgeParts, ShapesHold DEF Shape
<1>2. CASE ContainsDefinition(read, e)
  <2>1. PICK f \in KnownFiles(read) : \E d \in Definitions(f) :
           e = Edge(IF Label(d.id) = "Method" THEN ClassId(f.path, d.name[1]) ELSE FileId(f.path),
                    "CONTAINS", d.id)
    BY <1>2 DEF ContainsDefinition
  <2>2. PICK d \in Definitions(f) :
           e = Edge(IF Label(d.id) = "Method" THEN ClassId(f.path, d.name[1]) ELSE FileId(f.path),
                    "CONTAINS", d.id)
    BY <2>1
  <2>3. Label(d.id) \in {"Class", "Method", "Function"}
    BY DefinitionIds
  <2>4. CASE Label(d.id) = "Method"
    BY <1>0, <2>2, <2>4, EdgeParts, ShapesHold DEF Shape
  <2>5. CASE Label(d.id) \in {"Class", "Function"}
    BY <1>0, <2>2, <2>5, EdgeParts, ShapesHold DEF Shape
  <2>6. QED
    BY <2>3, <2>4, <2>5
<1>3. CASE DrawsCall(read, e)
  <2>1. PICK f \in KnownFiles(read) : \E call : IsCall(read, f, call, e)
    BY <1>3 DEF DrawsCall
  <2>2. PICK call : IsCall(read, f, call, e)
    BY <2>1
  <2>3. /\ e.start = LocalNode(f, call.caller) /\ e.start # None /\ e.type = "CALLS"
        /\ e.end = TargetNode(read, f, Resolve(read.facts.files, f, call)) /\ e.end # None
    BY <2>2, EdgeParts DEF IsCall, CallEdge
  <2>4. \E d \in Definitions(f) : d.id = e.start
    BY <2>3, LocalNodeIsDefined, KnownFileFits
  <2>5. \E g \in KnownFiles(read) : \E d \in Definitions(g) : d.id = e.end
    BY <2>3, TargetIsDefined
  <2>6. Label(e.start) \in CodeLabels /\ Label(e.end) \in CodeLabels
    BY <2>4, <2>5, DefinitionIds DEF CodeLabels
  <2>7. QED
    BY <2>3, <2>6, ShapesHold DEF Shape
<1>4. CASE DrawsImport(read, e)
  BY <1>0, <1>4, EdgeParts, ShapesHold DEF DrawsImport, Shape
<1>5. CASE DrawsChange(read, e)
  BY <1>0, <1>5, EdgeParts, ShapesHold DEF DrawsChange, Shape
<1>6. QED
  BY <1>1, <1>2, <1>3, <1>4, <1>5, EdgeKinds

(* A query is about nodes or about relationships.                          *)
LEMMA QueriesApart ==
    /\ \A l \in NodeLabels : <<l>> \in Elements(Labels)
    /\ \A s \in Elements(Shapes) : s \notin Elements(Labels)
<1>1. DOMAIN Labels = 1 .. 6 /\ DOMAIN Shapes = 1 .. 15
  BY DEF Labels, Shapes
<1>2. /\ Labels[1] = <<"Repository">> /\ Labels[2] = <<"File">> /\ Labels[3] = <<"Class">>
      /\ Labels[4] = <<"Method">> /\ Labels[5] = <<"Function">> /\ Labels[6] = <<"Commit">>
  BY DEF Labels
<1>3. \A l \in NodeLabels : \E i \in 1 .. 6 : Labels[i] = <<l>>
  BY <1>2 DEF NodeLabels
<1>4. \A i \in 1 .. 6 : Len(Labels[i]) = 1
  BY <1>2
<1>5. \A i \in 1 .. 15 : Len(Shapes[i]) = 3
  BY DEF Shapes
<1>6. \A s \in Elements(Shapes) : Len(s) = 3
  BY <1>1, <1>5 DEF Elements
<1>7. \A l \in Elements(Labels) : Len(l) = 1
  BY <1>1, <1>4 DEF Elements
<1>8. QED
  BY <1>1, <1>3, <1>6, <1>7 DEF Elements

BatchFits(batch) ==
    /\ \A n, m \in batch.nodes : n.id = m.id => n = m
    /\ \A n \in batch.nodes : Label(n.id) \in NodeLabels
    /\ \A e \in batch.edges : {e.start, e.end} \subseteq Ids(batch.nodes)
    /\ \A e \in batch.edges : Shape(e) \in Elements(Shapes)

Readings ==
    [scanned : Versions \cup {NoVersion}, facts : Versions \cup {NoVersion},
     bodies : Versions \cup {NoVersion}, history : Versions \cup {NoVersion}]

LEMMA ReadingsFind ==
    ASSUME NEW read \in Readings
    PROVE  /\ Found(read).scanned = Tree[read.scanned] /\ Found(read).facts = Tree[read.facts]
           /\ Found(read).bodies = Tree[read.bodies] /\ Found(read).history = Tree[read.history]
BY DEF Readings, Found

LEMMA BatchOfFits ==
    ASSUME NEW read \in Readings, read.facts \in Versions
    PROVE  BatchFits(BatchOf(read))
<1> DEFINE found == Found(read)
<1>1. IsTree(found.facts)
  BY ReadingsFind, TreesAssumption DEF IsTree
<1>2. BatchOf(read).nodes = NodesOf(found) /\ BatchOf(read).edges = EdgesOf(found)
  BY DEF BatchOf
<1> HIDE DEF found
<1>3. \A e \in EdgesOf(found) : {e.start, e.end} \subseteq Ids(NodesOf(found))
  BY <1>1, EdgesHaveEnds
<1>4. QED
  BY <1>1, <1>2, <1>3, OneNodePerId, NodeLabelsKnown, ShapesKnown DEF BatchFits

-----------------------------------------------------------------------------
(***************************************************************************)
(* The inductive invariant.  A client that merges has the batch of its own *)
(* readings; of that batch everything is in the graph whose query is not   *)
(* left; and what the graph has of one id is one node.                     *)
(***************************************************************************)
Steps == {"idle", "scan", "parse", "relate", "history", "map", "merge", "done", "failed"}
Writing == {"merge", "done"}

HasRead(r) ==
    /\ r.step \in {"parse", "relate", "history", "map", "merge", "done"} => r.read.scanned \in Versions
    /\ r.step \in {"relate", "history", "map", "merge", "done"} => r.read.facts \in Versions
    /\ r.step \in {"history", "map", "merge", "done"} => r.read.bodies \in Versions
    /\ r.step \in {"map", "merge", "done"} => r.read.history \in Versions

ClientFits(r) ==
    /\ r \in [step : Steps, read : Readings, batch : {r.batch}, queue : {r.queue}]
    /\ HasRead(r)
    /\ r.step \in Writing => r.batch = BatchOf(r.read)
    /\ r.step \notin Writing => r.batch = Empty
    /\ r.queue \subseteq Queries(r.batch)
    /\ r.step = "done" => r.queue = {}

IsMerged(r) ==
    /\ \A n \in r.batch.nodes : <<Label(n.id)>> \in r.queue \/ n.id \in Ids(nodes)
    /\ \A e \in r.batch.edges : Shape(e) \in r.queue \/ e \in edges

IInv ==
    /\ tree \in Versions /\ edits \in 0 .. MaxEdits
    /\ client = [c \in Clients |-> client[c]]
    /\ \A c \in Clients : ClientFits(client[c]) /\ IsMerged(client[c])
    /\ \A n, m \in nodes : n.id = m.id => n = m

LEMMA BatchAlwaysFits ==
    ASSUME NEW r, ClientFits(r)
    PROVE  BatchFits(r.batch)
<1>1. CASE r.step \in Writing
  BY <1>1, BatchOfFits DEF ClientFits, HasRead, Writing
<1>2. CASE r.step \notin Writing
  BY <1>2 DEF ClientFits, BatchFits, Empty
<1>3. QED
  BY <1>1, <1>2

LEMMA InitIInv == Init => IInv
<1> SUFFICES ASSUME Init
             PROVE  IInv
  OBVIOUS
<1>1. ClientFits(Idle)
  BY DEF ClientFits, Idle, NoRead, Readings, HasRead, Steps, Writing, Empty
<1>2. IsMerged(Idle)
  BY DEF IsMerged, Idle, Empty
<1>3. QED
  BY <1>1, <1>2, VersionsAssumption DEF Init, IInv

(* What a client has merged stays merged, and so does what the others have.*)
GraphGrows == Ids(nodes) \subseteq Ids(nodes') /\ edges \subseteq edges'

LEMMA OneClientMoves ==
    ASSUME IInv, NEW c \in Clients, NEW r, client' = [client EXCEPT ![c] = r],
           UNCHANGED <<tree, edits>>, ClientFits(r), IsMerged(r)', GraphGrows,
           \A n, m \in nodes' : n.id = m.id => n = m
    PROVE  IInv'
<1>1. client' = [d \in Clients |-> client'[d]] /\ client'[c] = r
  BY DEF IInv
<1>2. ASSUME NEW d \in Clients, d # c
      PROVE  client'[d] = client[d]
  BY <1>2 DEF IInv
<1>3. \A d \in Clients : ClientFits(client'[d])
  BY <1>1, <1>2 DEF IInv
<1>4. \A s : IsMerged(s) => IsMerged(s)'
  BY DEF IsMerged, GraphGrows
<1>5. ASSUME NEW d \in Clients
      PROVE  IsMerged(client[d])'
  <2>1. CASE d = c
    BY <1>1, <2>1 DEF IsMerged
  <2>2. CASE d # c
    BY <1>2, <1>4, <2>2 DEF IInv, IsMerged
  <2>3. QED
    BY <2>1, <2>2
<1>6. QED
  BY <1>1, <1>3, <1>5 DEF IInv

-----------------------------------------------------------------------------
(***************************************************************************)
(* What each kind of step does to the client that takes it.                *)
(***************************************************************************)
ReadingSteps ==
    {<<"scan", "parse", "scanned">>, <<"parse", "relate", "facts">>,
     <<"relate", "history", "bodies">>, <<"history", "map", "history">>}

Reading(c) ==
    /\ \E s \in ReadingSteps :
          /\ client[c].step = s[1]
          /\ client' = [client EXCEPT ![c].step = s[2], ![c].read[s[3]] = tree]
    /\ UNCHANGED <<tree, edits, graph>>

LEMMA ReadingsRead ==
    ASSUME NEW c,
           ScanSourceFiles(c) \/ ParseRepository(c) \/ ExtractRelationships(c) \/ GetCommits(c)
    PROVE  Reading(c)
<1>1. CASE ScanSourceFiles(c)
  <2> DEFINE s == <<"scan", "parse", "scanned">>
  <2>1. s \in ReadingSteps
    BY DEF ReadingSteps
  <2>2. client[c].step = s[1] /\ client' = [client EXCEPT ![c].step = s[2], ![c].read[s[3]] = tree]
    BY <1>1 DEF ScanSourceFiles, Reads, At
  <2>3. QED
    BY <1>1, <2>1, <2>2 DEF Reading, ScanSourceFiles
<1>2. CASE ParseRepository(c)
  <2> DEFINE s == <<"parse", "relate", "facts">>
  <2>1. s \in ReadingSteps
    BY DEF ReadingSteps
  <2>2. client[c].step = s[1] /\ client' = [client EXCEPT ![c].step = s[2], ![c].read[s[3]] = tree]
    BY <1>2 DEF ParseRepository, Reads, At
  <2>3. QED
    BY <1>2, <2>1, <2>2 DEF Reading, ParseRepository
<1>3. CASE ExtractRelationships(c)
  <2> DEFINE s == <<"relate", "history", "bodies">>
  <2>1. s \in ReadingSteps
    BY DEF ReadingSteps
  <2>2. client[c].step = s[1] /\ client' = [client EXCEPT ![c].step = s[2], ![c].read[s[3]] = tree]
    BY <1>3 DEF ExtractRelationships, Reads, At
  <2>3. QED
    BY <1>3, <2>1, <2>2 DEF Reading, ExtractRelationships
<1>4. CASE GetCommits(c)
  <2> DEFINE s == <<"history", "map", "history">>
  <2>1. s \in ReadingSteps
    BY DEF ReadingSteps
  <2>2. client[c].step = s[1] /\ client' = [client EXCEPT ![c].step = s[2], ![c].read[s[3]] = tree]
    BY <1>4 DEF GetCommits, Reads, At
  <2>3. QED
    BY <1>4, <2>1, <2>2 DEF Reading, GetCommits
<1>5. QED
  BY <1>1, <1>2, <1>3, <1>4

(* A reading makes no promise: the batch is empty before it and after.     *)
LEMMA ReadingMoves ==
    ASSUME IInv, NEW c \in Clients, Reading(c)
    PROVE  \E r : /\ client' = [client EXCEPT ![c] = r]
                  /\ ClientFits(r) /\ r.batch = Empty /\ r.step \notin Writing
<1>1. PICK s \in ReadingSteps :
         /\ client[c].step = s[1]
         /\ client' = [client EXCEPT ![c].step = s[2], ![c].read[s[3]] = tree]
  BY DEF Reading
<1> DEFINE was == client[c]
           r == [was EXCEPT !.step = s[2], !.read = [was.read EXCEPT ![s[3]] = tree]]
<1>2. ClientFits(was) /\ tree \in Versions /\ was.step = s[1]
  BY <1>1 DEF IInv
<1>3. client' = [client EXCEPT ![c] = r]
  BY <1>1 DEF IInv
<1>4. was \in [step : Steps, read : Readings, batch : {was.batch}, queue : {was.queue}]
  BY <1>2 DEF ClientFits
<1>5. /\ r.step = s[2] /\ r.read = [was.read EXCEPT ![s[3]] = tree]
      /\ r.batch = was.batch /\ r.queue = was.queue
  BY <1>4
<1>6. s[2] \in Steps /\ s[2] \notin Writing /\ was.step \notin Writing
  BY <1>2 DEF ReadingSteps, Steps, Writing
<1>7. r.read \in Readings
  BY <1>2, <1>4, <1>5 DEF ReadingSteps, Readings
<1>8. HasRead(r)
  BY <1>2, <1>4, <1>5 DEF ReadingSteps, Readings, ClientFits, HasRead
<1>9. r \in [step : Steps, read : Readings, batch : {r.batch}, queue : {r.queue}]
  BY <1>4, <1>5, <1>6, <1>7
<1>10. r.batch = Empty /\ r.queue \subseteq Queries(r.batch)
  BY <1>2, <1>5, <1>6 DEF ClientFits
<1> HIDE DEF r
<1>11. ClientFits(r)
  BY <1>5, <1>6, <1>8, <1>9, <1>10 DEF ClientFits, Writing
<1>12. QED
  BY <1>3, <1>5, <1>6, <1>10, <1>11

LEMMA ResetMoves ==
    ASSUME IInv, NEW c \in Clients, Start(c) \/ Fail(c)
    PROVE  \E r : /\ client' = [client EXCEPT ![c] = r]
                  /\ ClientFits(r) /\ r.batch = Empty /\ r.step \notin Writing
<1>1. PICK step \in {"scan", "failed"} : client' = [client EXCEPT ![c] = [Idle EXCEPT !.step = step]]
  BY DEF Start, Fail
<1> DEFINE r == [Idle EXCEPT !.step = step]
<1>2. /\ r.step = step /\ r.read = NoRead /\ r.batch = Empty /\ r.queue = {}
      /\ r \in [step : Steps, read : Readings, batch : {Empty}, queue : {{}}]
  BY DEF Idle, Steps, Readings, NoRead
<1>3. step \notin Writing /\ HasRead(r)
  BY <1>2 DEF HasRead, Writing
<1> HIDE DEF r
<1>4. ClientFits(r)
  BY <1>2, <1>3 DEF ClientFits, Writing
<1>5. QED
  BY <1>1, <1>2, <1>3, <1>4 DEF r

LEMMA MapToGraphMoves ==
    ASSUME IInv, NEW c \in Clients, MapToGraph(c)
    PROVE  \E r : /\ client' = [client EXCEPT ![c] = r]
                  /\ ClientFits(r) /\ r.step = "merge" /\ r.queue = Queries(r.batch)
<1> DEFINE was == client[c]
           batch == BatchOf(was.read)
           r == [was EXCEPT !.step = "merge", !.batch = batch, !.queue = Queries(batch)]
<1>1. client' = [client EXCEPT ![c] = r] /\ was.step = "map" /\ ClientFits(was)
  BY DEF MapToGraph, At, IInv
<1>2. was \in [step : Steps, read : Readings, batch : {was.batch}, queue : {was.queue}]
  BY <1>1 DEF ClientFits
<1>3. r.step = "merge" /\ r.read = was.read /\ r.batch = batch /\ r.queue = Queries(batch)
  BY <1>2
<1>4. r \in [step : Steps, read : Readings, batch : {r.batch}, queue : {r.queue}]
  BY <1>2, <1>3 DEF Steps
<1>5. HasRead(r)
  BY <1>1, <1>3 DEF ClientFits, HasRead
<1> HIDE DEF r
<1>6. ClientFits(r)
  BY <1>3, <1>4, <1>5 DEF ClientFits, Writing
<1>7. QED
  BY <1>1, <1>3, <1>6

LEMMA ReturnSummaryMoves ==
    ASSUME IInv, NEW c \in Clients, ReturnSummary(c)
    PROVE  \E r : /\ client' = [client EXCEPT ![c] = r]
                  /\ ClientFits(r) /\ r.step = "done"
                  /\ r.batch = client[c].batch /\ r.queue = client[c].queue
<1> DEFINE was == client[c]
           r == [was EXCEPT !.step = "done"]
<1>1. client' = [client EXCEPT ![c] = r] /\ was.step = "merge" /\ was.queue = {} /\ ClientFits(was)
  BY DEF ReturnSummary, At, IInv
<1>2. was \in [step : Steps, read : Readings, batch : {was.batch}, queue : {was.queue}]
  BY <1>1 DEF ClientFits
<1>3. r.step = "done" /\ r.read = was.read /\ r.batch = was.batch /\ r.queue = was.queue
  BY <1>2
<1>4. r \in [step : Steps, read : Readings, batch : {r.batch}, queue : {r.queue}]
  BY <1>2, <1>3 DEF Steps
<1>5. HasRead(r)
  BY <1>1, <1>3 DEF ClientFits, HasRead
<1> HIDE DEF r
<1>6. ClientFits(r)
  BY <1>1, <1>3, <1>4, <1>5 DEF ClientFits, Writing
<1>7. QED
  BY <1>1, <1>3, <1>6

(* A query of nodes puts all its rows in; and so does one of relationships:*)
(* no query of nodes is left by then, and both ends are there.             *)
LEMMA MergeMoves ==
    ASSUME IInv, NEW c \in Clients, Merge(c)
    PROVE  \E r : /\ client' = [client EXCEPT ![c] = r]
                  /\ ClientFits(r) /\ r.step = "merge" /\ r.batch = client[c].batch
                  /\ IsMerged(r)' /\ GraphGrows
                  /\ Ids(nodes') \subseteq Ids(nodes) \cup Ids(r.batch.nodes)
                  /\ edges' \subseteq edges \cup r.batch.edges
                  /\ \A e \in edges' \ edges : {e.start, e.end} \subseteq Ids(nodes')
                  /\ \A n, m \in nodes' : n.id = m.id => n = m
<1> DEFINE was == client[c]
<1>1. PICK query \in was.queue :
         /\ \A other \in was.queue : Precedes(query, other)
         /\ IF IsNodes(query)
            THEN MergeNodes({n \in was.batch.nodes : <<Label(n.id)>> = query})
            ELSE MergeEdges({e \in was.batch.edges : Shape(e) = query})
         /\ client' = [client EXCEPT ![c].queue = @ \ {query}]
  BY DEF Merge, Batch
<1>0. PICK r : r = [was EXCEPT !.queue = was.queue \ {query}]
  OBVIOUS
<1>2. client' = [client EXCEPT ![c] = r] /\ was.step = "merge" /\ ClientFits(was) /\ IsMerged(was)
  BY <1>0, <1>1 DEF Merge, At, IInv
<1>3. was \in [step : Steps, read : Readings, batch : {was.batch}, queue : {was.queue}]
  BY <1>2 DEF ClientFits
<1>4. /\ r.step = "merge" /\ r.read = was.read /\ r.batch = was.batch
      /\ r.queue = was.queue \ {query}
  BY <1>0, <1>2, <1>3
<1>5. r \in [step : Steps, read : Readings, batch : {r.batch}, queue : {r.queue}]
  BY <1>0, <1>3, <1>4
<1>6. HasRead(r)
  BY <1>2, <1>4 DEF ClientFits, HasRead
<1>7. BatchFits(was.batch)
  BY <1>2, BatchAlwaysFits
<1>8. ClientFits(r)
  BY <1>2, <1>4, <1>5, <1>6 DEF ClientFits, Writing
<1>9. CASE IsNodes(query)
  <2> DEFINE rows == {n \in was.batch.nodes : <<Label(n.id)>> = query}
  <2>1. nodes' = {n \in nodes : n.id \notin Ids(rows)} \cup rows /\ edges' = edges
    BY <1>1, <1>9 DEF MergeNodes
  <2>2. Ids(nodes') = Ids(nodes) \cup Ids(rows) /\ Ids(rows) \subseteq Ids(was.batch.nodes)
    BY <2>1 DEF Ids
  <2>3. \A n, m \in nodes' : n.id = m.id => n = m
    BY <1>7, <2>1 DEF BatchFits, Ids, IInv
  <2>4. \A n \in was.batch.nodes : <<Label(n.id)>> = query => n.id \in Ids(rows)
    BY DEF Ids
  <2>5. \A e \in was.batch.edges : Shape(e) # query
    BY <1>7, <1>9, QueriesApart DEF BatchFits, IsNodes
  <2> HIDE DEF rows
  <2>6. IsMerged(r)'
    BY <1>2, <1>4, <2>1, <2>2, <2>4, <2>5 DEF IsMerged
  <2>7. QED
    BY <1>2, <1>4, <1>8, <2>1, <2>2, <2>3, <2>6 DEF GraphGrows
<1>10. CASE ~IsNodes(query)
  <2> DEFINE rows == {e \in was.batch.edges : Shape(e) = query}
  <2>1. /\ edges' = edges \cup {e \in rows : {e.start, e.end} \subseteq Ids(nodes)}
        /\ nodes' = nodes
    BY <1>1, <1>10 DEF MergeEdges
  <2>2. \A other \in was.queue : ~IsNodes(other)
    BY <1>1, <1>10 DEF Precedes
  <2>3. \A n \in was.batch.nodes : IsNodes(<<Label(n.id)>>)
    BY <1>7, QueriesApart DEF BatchFits, IsNodes
  <2>4. Ids(was.batch.nodes) \subseteq Ids(nodes)
    BY <1>2, <2>2, <2>3 DEF IsMerged, Ids
  <2>5. \A e \in rows : {e.start, e.end} \subseteq Ids(nodes)
    BY <1>7, <2>4 DEF BatchFits
  <2>6. edges' = edges \cup rows
    BY <2>1, <2>5
  <2>7. \A n \in was.batch.nodes : <<Label(n.id)>> # query
    BY <1>10, <2>3
  <2>8. IsMerged(r)'
    BY <1>2, <1>4, <2>1, <2>6, <2>7 DEF IsMerged
  <2>9. QED
    BY <1>2, <1>4, <1>8, <2>1, <2>5, <2>6, <2>8 DEF GraphGrows, IInv
<1>11. QED
  BY <1>9, <1>10

LEMMA EmptyIsMerged ==
    ASSUME NEW r, r.batch = Empty
    PROVE  IsMerged(r)'
BY DEF IsMerged, Empty

LEMMA UnqueriedIsMerged ==
    ASSUME NEW r, r.queue = Queries(r.batch)
    PROVE  IsMerged(r)'
BY DEF IsMerged, Queries, NodeQueries, EdgeQueries

LEMMA NextIInv == IInv /\ [Next]_vars => IInv'
<1> SUFFICES ASSUME IInv, [Next]_vars
             PROVE  IInv'
  OBVIOUS
<1>1. UNCHANGED graph => GraphGrows /\ \A n, m \in nodes' : n.id = m.id => n = m
  BY DEF IInv, GraphGrows, graph
<1>2. ASSUME NEW c \in Clients, Start(c) \/ Fail(c) \/ Reading(c)
      PROVE  IInv'
  <2>1. PICK r : client' = [client EXCEPT ![c] = r] /\ ClientFits(r) /\ r.batch = Empty
    BY <1>2, ResetMoves, ReadingMoves
  <2>2. UNCHANGED <<tree, edits, graph>>
    BY <1>2 DEF Start, Fail, Reading
  <2>3. QED
    BY <1>1, <2>1, <2>2, EmptyIsMerged, OneClientMoves
<1>3. ASSUME NEW c \in Clients, MapToGraph(c)
      PROVE  IInv'
  <2>1. PICK r : client' = [client EXCEPT ![c] = r] /\ ClientFits(r) /\ r.queue = Queries(r.batch)
    BY <1>3, MapToGraphMoves
  <2>2. UNCHANGED <<tree, edits, graph>>
    BY <1>3 DEF MapToGraph
  <2>3. QED
    BY <1>1, <2>1, <2>2, UnqueriedIsMerged, OneClientMoves
<1>4. ASSUME NEW c \in Clients, Merge(c)
      PROVE  IInv'
  <2>1. UNCHANGED <<tree, edits>>
    BY <1>4 DEF Merge
  <2>2. QED
    BY <1>4, <2>1, MergeMoves, OneClientMoves
<1>5. ASSUME NEW c \in Clients, ReturnSummary(c)
      PROVE  IInv'
  <2>1. PICK r : /\ client' = [client EXCEPT ![c] = r] /\ ClientFits(r)
                 /\ r.batch = client[c].batch /\ r.queue = client[c].queue
    BY <1>5, ReturnSummaryMoves
  <2>2. UNCHANGED <<tree, edits, graph>>
    BY <1>5 DEF ReturnSummary
  <2>3. IsMerged(client[c])
    BY DEF IInv
  <2>4. IsMerged(r)'
    BY <2>1, <2>2, <2>3 DEF IsMerged, graph
  <2>5. QED
    BY <1>1, <2>1, <2>2, <2>4, OneClientMoves
<1>6. CASE EditTree
  <2>1. tree' \in Versions /\ edits' \in 0 .. MaxEdits /\ UNCHANGED <<client, nodes, edges>>
    BY <1>6, VersionsAssumption DEF EditTree, IInv, graph
  <2>2. QED
    BY <2>1 DEF IInv, IsMerged
<1>7. CASE UNCHANGED vars
  <2>1. UNCHANGED <<tree, edits, client, nodes, edges>>
    BY <1>7 DEF vars
  <2>2. QED
    BY <2>1 DEF IInv, IsMerged
<1>8. QED
  BY <1>2, <1>3, <1>4, <1>5, <1>6, <1>7, ReadingsRead DEF Next, Step

(* The graph has one node for an id, and everything of a client's batch    *)
(* whose query has been answered.                                          *)
THEOREM InvariantHolds == Spec => []IInv
BY InitIInv, NextIInv, PTL DEF Spec

-----------------------------------------------------------------------------
LEMMA QueriesKnown ==
    ASSUME NEW batch, BatchFits(batch)
    PROVE  Queries(batch) \subseteq Elements(Labels) \cup Elements(Shapes)
BY QueriesApart DEF BatchFits, Queries, NodeQueries, EdgeQueries

(* A client is at one of the steps of an ingestion with queries that the   *)
(* code sends, and no id has two nodes (MERGE by id, under the uniqueness  *)
(* constraints).                                                           *)
THEOREM TypeCorrect == Spec => []TypeOK
<1>1. IInv => TypeOK
  <2> SUFFICES ASSUME IInv, NEW c \in Clients
               PROVE  /\ client[c].step \in Steps
                      /\ client[c].queue \subseteq Elements(Labels) \cup Elements(Shapes)
    BY DEF IInv, TypeOK, Steps
  <2>1. ClientFits(client[c])
    BY DEF IInv
  <2>2. QED
    BY <2>1, BatchAlwaysFits, QueriesKnown DEF ClientFits
<1>2. QED
  BY <1>1, InvariantHolds, PTL

(* A summary that was returned is true and stays true: each node and each  *)
(* relationship it counts is in the graph.                                 *)
THEOREM SummariesAreTrue == Spec => []SummaryIsTrue
<1>1. IInv => SummaryIsTrue
  <2> SUFFICES ASSUME IInv, NEW c \in Clients, client[c].step = "done"
               PROVE  /\ Ids(client[c].batch.nodes) \subseteq Ids(nodes)
                      /\ client[c].batch.edges \subseteq edges
    BY DEF SummaryIsTrue, At, Batch
  <2>1. ClientFits(client[c]) /\ IsMerged(client[c])
    BY DEF IInv
  <2>2. QED
    BY <2>1 DEF ClientFits, IsMerged, Ids
<1>2. QED
  BY <1>1, InvariantHolds, PTL

-----------------------------------------------------------------------------
(***************************************************************************)
(* The contract of GrowOnlyGraph.  A client takes up a batch when it maps  *)
(* its readings, gives it up when it begins again or fails, and adds to    *)
(* the graph with every query.                                             *)
(***************************************************************************)
BatchIdsOf(batch) == [nodes |-> Ids(batch.nodes), edges |-> batch.edges]
Work == [c \in Clients |-> BatchIdsOf(client[c].batch)]
Told == {c \in Clients : client[c].step = "done"}
contract == <<Ids(nodes), edges, Work, Told>>

LEMMA WorkAndTold ==
    /\ Work = [c \in Clients |-> [nodes |-> Ids(Batch(c).nodes), edges |-> Batch(c).edges]]
    /\ Work' = [c \in Clients |-> [nodes |-> Ids(Batch(c).nodes), edges |-> Batch(c).edges]]'
    /\ Told = {c \in Clients : At(c, "done")}
    /\ Told' = {c \in Clients : At(c, "done")}'
BY DEF Work, BatchIdsOf, Told, Batch, At

LEMMA WorkMoves ==
    ASSUME IInv, NEW c \in Clients, NEW r, client' = [client EXCEPT ![c] = r]
    PROVE  /\ Work' = [Work EXCEPT ![c] = BatchIdsOf(r.batch)]
           /\ Work'[c] = BatchIdsOf(r.batch) /\ Work[c] = BatchIdsOf(client[c].batch)
           /\ r.step = "done" => Told' = Told \cup {c}
           /\ r.step # "done" => Told' = Told \ {c}
<1>1. client = [d \in Clients |-> client[d]]
  BY DEF IInv
<1>2. client'[c] = r /\ \A d \in Clients : d # c => client'[d] = client[d]
  BY <1>1
<1>3. Work'[c] = BatchIdsOf(r.batch) /\ \A d \in Clients : d # c => Work'[d] = Work[d]
  BY <1>2 DEF Work, BatchIdsOf
<1>4. /\ Work = [d \in Clients |-> Work[d]] /\ Work' = [d \in Clients |-> Work'[d]]
      /\ Work[c] = BatchIdsOf(client[c].batch)
  BY DEF Work
<1>5. Work' = [Work EXCEPT ![c] = BatchIdsOf(r.batch)]
  BY <1>3, <1>4
<1>6. \A d \in Clients : d \in Told' <=> IF d = c THEN r.step = "done" ELSE d \in Told
  BY <1>2 DEF Told
<1>7. Told \subseteq Clients /\ Told' \subseteq Clients
  BY DEF Told
<1>8. QED
  BY <1>3, <1>4, <1>5, <1>6, <1>7

LEMMA InitContract == Init => Contract!Init
<1>1. Ids({}) = {}
  BY DEF Ids
<1>2. Init => \A c \in Clients : client[c] = Idle
  BY DEF Init
<1>3. Init => \A c \in Clients : Batch(c) = Empty /\ ~At(c, "done")
  BY <1>2 DEF Batch, At, Idle
<1>4. QED
  BY <1>1, <1>3 DEF Init, Contract!Init, Empty

(* A client that takes up a batch, or none.                                *)
LEMMA TakesABatch ==
    ASSUME IInv, NEW c \in Clients, NEW r, client' = [client EXCEPT ![c] = r],
           ClientFits(r), r.step # "done", UNCHANGED graph
    PROVE  Contract!Take(c)
<1>1. BatchFits(r.batch)
  BY BatchAlwaysFits
<1>2. Contract!Closed(BatchIdsOf(r.batch))
  BY <1>1 DEF Contract!Closed, BatchIdsOf, BatchFits
<1>3. /\ Work' = [Work EXCEPT ![c] = Work'[c]] /\ Work'[c] = BatchIdsOf(r.batch)
      /\ Told' = Told \ {c}
  BY WorkMoves
<1>4. UNCHANGED <<Ids(nodes), edges>>
  BY DEF graph, Ids
<1>5. QED
  BY <1>2, <1>3, <1>4, WorkAndTold DEF Contract!Take

LEMMA NextContract == IInv /\ [Next]_vars => [Contract!Next]_contract
<1> SUFFICES ASSUME IInv, [Next]_vars
             PROVE  Contract!Next \/ UNCHANGED contract
  BY DEF contract
<1>1. ASSUME NEW c \in Clients, Start(c) \/ Fail(c)
      PROVE  Contract!Next
  <2>1. PICK r : client' = [client EXCEPT ![c] = r] /\ ClientFits(r) /\ r.step \notin Writing
    BY <1>1, ResetMoves
  <2>2. UNCHANGED graph
    BY <1>1 DEF Start, Fail
  <2>3. QED
    BY <2>1, <2>2, TakesABatch DEF Contract!Next, Writing
<1>2. ASSUME NEW c \in Clients, Reading(c)
      PROVE  Contract!Next
  <2>1. PICK r : client' = [client EXCEPT ![c] = r] /\ ClientFits(r) /\ r.step \notin Writing
    BY <1>2, ReadingMoves
  <2>2. UNCHANGED graph
    BY <1>2 DEF Reading
  <2>3. QED
    BY <2>1, <2>2, TakesABatch DEF Contract!Next, Writing
<1>3. ASSUME NEW c \in Clients, MapToGraph(c)
      PROVE  Contract!Next
  <2>1. PICK r : client' = [client EXCEPT ![c] = r] /\ ClientFits(r) /\ r.step = "merge"
    BY <1>3, MapToGraphMoves
  <2>2. UNCHANGED graph
    BY <1>3 DEF MapToGraph
  <2>3. QED
    BY <2>1, <2>2, TakesABatch DEF Contract!Next
<1>4. ASSUME NEW c \in Clients, Merge(c)
      PROVE  Contract!Next
  <2>1. PICK r : /\ client' = [client EXCEPT ![c] = r]
                 /\ r.step = "merge" /\ r.batch = client[c].batch /\ GraphGrows
                 /\ Ids(nodes') \subseteq Ids(nodes) \cup Ids(r.batch.nodes)
                 /\ edges' \subseteq edges \cup r.batch.edges
                 /\ \A e \in edges' \ edges : {e.start, e.end} \subseteq Ids(nodes')
    BY <1>4, MergeMoves
  <2>2. client[c].step = "merge"
    BY <1>4 DEF Merge, At
  <2>3. c \notin Told /\ Told' = Told
    BY <2>1, <2>2, WorkMoves DEF Told
  <2>4. Work' = Work /\ Work[c] = BatchIdsOf(client[c].batch)
    BY <2>1, WorkMoves DEF Work
  <2>5. Work[c].nodes = Ids(r.batch.nodes) /\ Work[c].edges = r.batch.edges
    BY <2>1, <2>4 DEF BatchIdsOf
  <2>6. Ids(nodes)' = Ids(nodes')
    BY DEF Ids
  <2>7. Contract!Add(c)
    BY <2>1, <2>3, <2>4, <2>5, <2>6, WorkAndTold DEF Contract!Add, GraphGrows
  <2>8. QED
    BY <2>7 DEF Contract!Next
<1>5. ASSUME NEW c \in Clients, ReturnSummary(c)
      PROVE  Contract!Next
  <2>1. PICK r : /\ client' = [client EXCEPT ![c] = r] /\ r.step = "done"
                 /\ r.batch = client[c].batch
    BY <1>5, ReturnSummaryMoves
  <2>2. client[c].queue = {} /\ IsMerged(client[c]) /\ UNCHANGED graph
    BY <1>5 DEF ReturnSummary, IInv
  <2>3. Ids(client[c].batch.nodes) \subseteq Ids(nodes) /\ client[c].batch.edges \subseteq edges
    BY <2>2 DEF IsMerged, Ids
  <2>4. Work' = Work /\ Told' = Told \cup {c} /\ Work[c] = BatchIdsOf(client[c].batch)
    <3>1. Told' = Told \cup {c}
      BY <2>1, WorkMoves
    <3>2. Work' = Work /\ Work[c] = BatchIdsOf(client[c].batch)
      BY <2>1, WorkMoves DEF Work
    <3>3. QED
      BY <3>1, <3>2
  <2>5. Work[c].nodes \subseteq Ids(nodes) /\ Work[c].edges \subseteq edges
    BY <2>3, <2>4 DEF BatchIdsOf
  <2>6. UNCHANGED <<Ids(nodes), edges>>
    BY <2>2 DEF graph, Ids
  <2>7. Contract!Tell(c)
    BY <2>4, <2>5, <2>6, WorkAndTold DEF Contract!Tell
  <2>8. QED
    BY <2>7 DEF Contract!Next
<1>6. CASE EditTree \/ UNCHANGED vars
  BY <1>6 DEF EditTree, vars, graph, contract, Work, Told, Ids
<1>7. QED
  BY <1>1, <1>2, <1>3, <1>4, <1>5, <1>6, ReadingsRead DEF Next, Step

(* Ingestion implements the graph that only grows: whoever fails, begins   *)
(* again or merges at the same time, nothing leaves the graph, no          *)
(* relationship is there without its ends, and what a summary counts stays.*)
THEOREM IngestionImplementsContract == Spec => ImplementsContract
<1>1. Init => Contract!Init
  BY InitContract
<1>2. IInv /\ [Next]_vars =>
         [Contract!Next]_<<Ids(nodes), edges,
            [c \in Clients |-> [nodes |-> Ids(Batch(c).nodes), edges |-> Batch(c).edges]],
            {c \in Clients : At(c, "done")}>>
  BY NextContract, WorkAndTold DEF contract
<1>3. QED
  BY <1>1, <1>2, InvariantHolds, PTL DEF Spec, ImplementsContract, Contract!Spec

-----------------------------------------------------------------------------
(***************************************************************************)
(* Calls.  A name that an import brings in is a dotted name that ends in   *)
(* it; the definition it leads to is one of the module before it.          *)
(***************************************************************************)
LEMMA DottedName ==
    ASSUME NEW S, NEW module \in Seq(S), module # <<>>, NEW name
    PROVE  /\ Len(Append(module, name)) = Len(module) + 1 /\ Len(module) \in Nat \ {0}
           /\ ButLast(Append(module, name)) = module /\ Final(Append(module, name)) = name
           /\ \A i \in 1 .. Len(module) : Append(module, name)[i] = module[i]
<1> DEFINE T == S \cup {name}
<1>1. module \in Seq(T) /\ name \in T
  OBVIOUS
<1> HIDE DEF T
<1>2. /\ Append(module, name) \in Seq(T) /\ Len(Append(module, name)) = Len(module) + 1
      /\ \A i \in 1 .. Len(module) : Append(module, name)[i] = module[i]
      /\ Append(module, name)[Len(module) + 1] = name
  BY <1>1, AppendProperties
<1>3. Len(module) \in Nat \ {0}
  BY <1>1, EmptySeq
<1>4. ButLast(Append(module, name)) = module
  BY <1>1, <1>2, <1>3 DEF ButLast
<1>5. QED
  BY <1>2, <1>3, <1>4 DEF Final

LEMMA TopLevelIsNamed ==
    ASSUME NEW file, IsFile(file), NEW name, TopLevel(file, name) # None
    PROVE  TopLevel(file, name) \in Named(file, <<name>>)
BY TopLevelIsDefined DEF Named

(* A definition of another file that a call leads to by its dotted name.   *)
LEMMA ModuleNodeIsDefined ==
    ASSUME NEW read, IsTree(read.facts), NEW S, NEW module \in Seq(S), module # <<>>, NEW name,
           ModuleNode(read, Append(module, name)) # None
    PROVE  ModuleNode(read, Append(module, name)) \in DefinedIn(Parsed(read.facts.files), module, name)
<1> DEFINE dotted == Append(module, name)
           defining == {g \in KnownFiles(read) :
                           ModuleName(g.path) = ButLast(dotted) /\ Final(dotted) \in Symbols(g)}
           g == LastOf(read.facts.files, defining)
<1>1. ButLast(dotted) = module /\ Final(dotted) = name
  BY DottedName
<1>2. defining # {} /\ ModuleNode(read, dotted) = TopLevel(g, Final(dotted))
  BY DEF ModuleNode
<1>3. defining \subseteq Elements(read.facts.files) /\ IsList(read.facts.files)
  BY KnownFileFits DEF IsTree
<1>4. g \in defining
  <2> HIDE DEF defining
  <2>1. QED
    BY <1>2, <1>3, LastExists
<1>5. g \in Parsed(read.facts.files) /\ IsFile(g) /\ ModuleName(g.path) = module
  BY <1>1, <1>4, KnownFileFits DEF KnownFiles
<1> HIDE DEF g
<1>6. TopLevel(g, name) \in Named(g, <<name>>)
  BY <1>1, <1>2, <1>5, TopLevelIsNamed
<1>7. QED
  BY <1>1, <1>2, <1>5, <1>6 DEF DefinedIn

(* No class of the file bears the module's name and has such a method.     *)
Shadowed(file, module, name) ==
    \E k \in Elements(file.classes) : module = <<k.name>> /\ name \in NamesIn(k.methods)

LEMMA ImportedTargetIsDefined ==
    ASSUME NEW read, IsTree(read.facts), NEW file, NEW S, NEW module \in Seq(S), module # <<>>,
           NEW name, ~Shadowed(file, module, name),
           TargetNode(read, file, Append(module, name)) # None
    PROVE  TargetNode(read, file, Append(module, name))
              \in DefinedIn(Parsed(read.facts.files), module, name)
<1>1. LocalNode(file, Append(module, name)) = None
  <2> SUFFICES ASSUME LocalNode(file, Append(module, name)) # None
               PROVE  FALSE
    OBVIOUS
  <2>0. PICK dotted : dotted = Append(module, name)
    OBVIOUS
  <2>1. Len(dotted) = 2 /\ Len(module) = 1
    <3>1. Len(dotted) = Len(module) + 1 /\ Len(module) \in Nat \ {0}
      BY <2>0, DottedName
    <3>2. Len(dotted) = 1 \/ Len(dotted) = 2
      BY <2>0 DEF LocalNode
    <3>3. \A n \in Nat \ {0} : n + 1 = 1 \/ n + 1 = 2 => n = 1
      OBVIOUS
    <3>4. Len(module) + 1 = 1 \/ Len(module) + 1 = 2
      BY <3>1, <3>2
    <3>5. Len(module) = 1
      BY <3>1, <3>3, <3>4
    <3>6. QED
      BY <3>1, <3>2, <3>5
  <2>2. module = <<module[1]>> /\ dotted[1] = module[1] /\ dotted[2] = name
    BY <2>0, <2>1, DottedName DEF Final
  <2>3. \E k \in Elements(file.classes) : k.name = module[1] /\ name \in NamesIn(k.methods)
    BY <2>0, <2>1, <2>2 DEF LocalNode
  <2>4. QED
    BY <2>2, <2>3 DEF Shadowed
<1>2. QED
  BY <1>1, ModuleNodeIsDefined DEF TargetNode

(* Where a file is no __init__.py, the module an import is resolved to is  *)
(* the one Python imports.                                                 *)
LEMMA ImportedModuleIsPython ==
    ASSUME NEW file, IsFile(file), NEW imp \in Elements(file.imports),
           Final(file.path) # "__init__" \/ imp.level = 0
    PROVE  /\ PythonModule(file.path, imp) = ImportedModule(file.path, imp.level, imp.module)
           /\ \E S : ImportedModule(file.path, imp.level, imp.module) \in Seq(S)
<1>1. imp.level \in Nat /\ imp.module \in Seq(Elements(imp.module))
  BY DEF IsFile, IsList
<1>2. CASE imp.level = 0
  BY <1>1, <1>2 DEF PythonModule, ImportedModule
<1>3. CASE imp.level # 0
  <2> DEFINE package == ButLast(file.path)
             kept == SubSeq(package, 1, Len(package) - (imp.level - 1))
             S == Elements(file.path) \cup Elements(imp.module)
  <2>1. ButLast(ModuleName(file.path)) = package /\ Package(file.path) = package
    BY <1>3 DEF ModuleName, Package
  <2>2. PythonModule(file.path, imp) = ImportedModule(file.path, imp.level, imp.module)
    BY <1>3, <2>1 DEF PythonModule, ImportedModule
  <2>3. file.path \in Seq(S) /\ imp.module \in Seq(S)
    BY <1>1 DEF IsFile, IsList
  <2>4. package \in Seq(S)
    <3> HIDE DEF S
    <3>1. Len(file.path) \in Nat /\ \A i \in 1 .. Len(file.path) - 1 : file.path[i] \in S
      BY <2>3
    <3>2. QED
      BY <3>1, SubSeqProperties DEF ButLast
  <2>5. imp.level - 1 <= Len(package) => kept \in Seq(S)
    <3> HIDE DEF S, package
    <3>1. /\ Len(package) \in Nat
          /\ \A i \in 1 .. Len(package) - (imp.level - 1) : package[i] \in S
      BY <1>1, <1>3, <2>4
    <3>2. Len(package) - (imp.level - 1) \in Int
      BY <1>1, <3>1
    <3>3. QED
      BY <3>1, <3>2, SubSeqProperties
  <2>6. ImportedModule(file.path, imp.level, imp.module)
           = IF imp.level - 1 > Len(package) THEN <<>> ELSE kept \o imp.module
    BY <1>3, <2>1 DEF ImportedModule, None
  <2>7. ImportedModule(file.path, imp.level, imp.module) \in Seq(S)
    <3> HIDE DEF S, package, kept
    <3>1. CASE imp.level - 1 > Len(package)
      BY <2>6, <3>1
    <3>2. CASE ~(imp.level - 1 > Len(package))
      <4>1. imp.level - 1 <= Len(package)
        BY <1>1, <2>4, <3>2
      <4>2. kept \o imp.module \in Seq(S)
        BY <2>3, <2>5, <4>1, ConcatProperties
      <4>3. QED
        BY <2>6, <3>2, <4>2
    <3>3. QED
      BY <3>1, <3>2
  <2>8. QED
    BY <2>2, <2>7
<1>4. QED
  BY <1>2, <1>3

LEMMA BoundByFinds ==
    ASSUME NEW file, IsFile(file), NEW from, NEW local, BoundBy(file, from, local) # None
    PROVE  /\ BoundBy(file, from, local) \in Elements(file.imports)
           /\ BoundBy(file, from, local).from = from
           /\ BoundBy(file, from, local).local = local
<1> DEFINE binding == {imp \in Elements(file.imports) : imp.from = from /\ imp.local = local}
<1>1. binding # {} /\ BoundBy(file, from, local) = LastOf(file.imports, binding)
  BY DEF BoundBy
<1>2. binding \subseteq Elements(file.imports) /\ IsList(file.imports)
  BY DEF IsFile
<1>3. LastOf(file.imports, binding) \in binding
  <2> HIDE DEF binding
  <2>1. QED
    BY <1>1, <1>2, LastExists
<1>4. QED
  BY <1>1, <1>3

(* An import that Python reads as the code does, and whose name leads out  *)
(* of the file.                                                            *)
LEMMA ImportLeadsOut ==
    ASSUME NEW read, IsTree(read.facts), NEW file, IsFile(file), ~Unusual(file),
           NEW imp \in Elements(file.imports), NEW name, imp.from => name = imp.name,
           NEW module, module = ImportedModule(file.path, imp.level, imp.module), module # None,
           TargetNode(read, file, Append(module, name)) # None
    PROVE  TargetNode(read, file, Append(module, name))
              \in DefinedIn(Parsed(read.facts.files), PythonModule(file.path, imp), name)
<1>1. imp.level \in Nat
  BY DEF IsFile
<1>2. Final(file.path) # "__init__" \/ imp.level = 0
  BY <1>1 DEF Unusual
<1>3. PythonModule(file.path, imp) = module /\ \E S : module \in Seq(S)
  BY <1>2, ImportedModuleIsPython
<1>4. ~Shadowed(file, module, name)
  BY <1>3 DEF Unusual, Shadowed
<1>5. PICK S : module \in Seq(S)
  BY <1>3
<1>6. module # <<>>
  BY DEF None
<1>7. QED
  BY <1>3, <1>4, <1>5, <1>6, ImportedTargetIsDefined

LEMMA NameReaches ==
    ASSUME NEW read, IsTree(read.facts), NEW file, IsFile(file), ~Unusual(file),
           NEW call, call.expr.kind = "name",
           NEW target, target = Resolve(read.facts.files, file, call), target # None,
           TargetNode(read, file, target) # None
    PROVE  TargetNode(read, file, target) \in Reaches(Parsed(read.facts.files), file, call)
<1> DEFINE name == call.expr.name
           imp == BoundBy(file, TRUE, name)
           module == ImportedModule(file.path, imp.level, imp.module)
           files == Parsed(read.facts.files)
<1>1. target = ResolveName(read.facts.files, file, name)
  BY DEF Resolve
<1>2. Reaches(files, file, call)
        = Named(file, <<name>>)
          \cup (UNION {DefinedIn(files, PythonModule(file.path, i), i.name) :
                         i \in {k \in Elements(file.imports) : k.from = TRUE /\ k.local = name}})
  BY DEF Reaches
<1>3. CASE name \in NamesIn(file.functions)
  <2>1. target = <<name>>
    BY <1>1, <1>3 DEF ResolveName
  <2>2. LocalNode(file, target) = TopLevel(file, name)
    BY <2>1 DEF LocalNode
  <2>3. TopLevel(file, name) # None
    BY <1>3 DEF TopLevel, FunctionId, None
  <2>4. TargetNode(read, file, target) = TopLevel(file, name)
    BY <2>2, <2>3 DEF TargetNode
  <2>5. QED
    BY <1>2, <2>3, <2>4, TopLevelIsNamed
<1>4. CASE name \notin NamesIn(file.functions)
  <2>1. imp # None /\ module # None /\ target = Append(module, imp.name)
    BY <1>1, <1>4 DEF ResolveName
  <2>2. imp \in Elements(file.imports) /\ imp.from = TRUE /\ imp.local = name
    <3>1. PICK from : from = TRUE
      OBVIOUS
    <3>2. BoundBy(file, from, name) # None
      BY <2>1, <3>1
    <3>3. /\ BoundBy(file, from, name) \in Elements(file.imports)
          /\ BoundBy(file, from, name).from = from /\ BoundBy(file, from, name).local = name
      BY <3>2, BoundByFinds
    <3>4. QED
      BY <3>1, <3>3, Zenon
  <2>3. PICK i \in Elements(file.imports) :
           /\ i = imp /\ i.from = TRUE /\ i.local = name
           /\ target = Append(ImportedModule(file.path, i.level, i.module), i.name)
           /\ ImportedModule(file.path, i.level, i.module) # None
    BY <2>1, <2>2
  <2>4. TargetNode(read, file, target) \in DefinedIn(files, PythonModule(file.path, i), i.name)
    BY <2>3, ImportLeadsOut
  <2>5. i \in {k \in Elements(file.imports) : k.from = TRUE /\ k.local = name}
    BY <2>3
  <2>6. QED
    BY <1>2, <2>4, <2>5
<1>5. QED
  BY <1>3, <1>4

LEMMA AttributeReaches ==
    ASSUME NEW read, IsTree(read.facts), NEW file, IsFile(file), ~Unusual(file),
           NEW call, call.expr.kind = "attribute",
           NEW target, target = Resolve(read.facts.files, file, call), target # None,
           TargetNode(read, file, target) # None
    PROVE  TargetNode(read, file, target) \in Reaches(Parsed(read.facts.files), file, call)
<1> DEFINE base == call.expr.base
           attr == call.expr.attr
           class == ClassOf(call.caller)
           imp == BoundBy(file, FALSE, base)
           files == Parsed(read.facts.files)
<1>1. target = ResolveAttribute(read.facts.files, file, class, base, attr)
  BY DEF Resolve
<1>2. Reaches(files, file, call)
        = Named(file, <<IF base = "self" THEN class ELSE base, attr>>)
          \cup (UNION {DefinedIn(files, i.module, attr) :
                         i \in {k \in Elements(file.imports) : k.from = FALSE /\ k.local = base}})
  BY DEF Reaches
<1>3. CASE base = "self" /\ class # "none"
  <2>1. HasMethod(file, class, attr) /\ target = <<class, attr>>
    BY <1>1, <1>3 DEF ResolveAttribute
  <2>2. FirstOf(file.classes, OfName(file.classes, class)) \in OfName(file.classes, class)
    BY <2>1, OfNameFits, FirstExists DEF HasMethod, IsFile
  <2>3. \E k \in Elements(file.classes) : k.name = class /\ attr \in NamesIn(k.methods)
    BY <2>1, <2>2, OfNameFits DEF HasMethod
  <2>4. Len(target) = 2 /\ target[1] = class /\ target[2] = attr
    BY <2>1
  <2>5. LocalNode(file, target) = MethodId(file.path, class, attr)
    BY <2>3, <2>4 DEF LocalNode
  <2>6. LocalNode(file, target) # None
    BY <2>5 DEF MethodId, None
  <2>7. LocalNode(file, target) \in Named(file, <<class, attr>>)
    BY <2>4, <2>6, LocalNodeIsDefined DEF Named
  <2>8. QED
    BY <1>2, <1>3, <2>6, <2>7 DEF TargetNode
<1>4. CASE ~(base = "self" /\ class # "none")
  <2>1. imp # None /\ target = Append(imp.module, attr)
    BY <1>1, <1>4 DEF ResolveAttribute
  <2>2. imp \in Elements(file.imports) /\ imp.from = FALSE /\ imp.local = base
    <3>1. PICK from : from = FALSE
      OBVIOUS
    <3>2. BoundBy(file, from, base) # None
      BY <2>1, <3>1
    <3>3. /\ BoundBy(file, from, base) \in Elements(file.imports)
          /\ BoundBy(file, from, base).from = from /\ BoundBy(file, from, base).local = base
      BY <3>2, BoundByFinds
    <3>4. QED
      BY <3>1, <3>3, Zenon
  <2>3. PICK i \in Elements(file.imports) :
           i.from = FALSE /\ i.local = base /\ target = Append(i.module, attr)
    BY <2>1, <2>2
  <2>4. i.level = 0 /\ i.module # None
    BY <2>3 DEF IsFile, None
  <2>5. /\ i.module = ImportedModule(file.path, i.level, i.module)
        /\ i.module = PythonModule(file.path, i)
    BY <2>4 DEF ImportedModule, PythonModule
  <2>6. TargetNode(read, file, target) \in DefinedIn(files, i.module, attr)
    BY <2>3, <2>4, <2>5, ImportLeadsOut
  <2>7. i \in {k \in Elements(file.imports) : k.from = FALSE /\ k.local = base}
    BY <2>3
  <2>8. QED
    BY <1>2, <2>6, <2>7
<1>5. QED
  BY <1>3, <1>4

LEMMA CallReaches ==
    ASSUME NEW read, IsTree(read.facts), NEW file, IsFile(file), ~Unusual(file), NEW call,
           Resolve(read.facts.files, file, call) # None,
           TargetNode(read, file, Resolve(read.facts.files, file, call)) # None
    PROVE  TargetNode(read, file, Resolve(read.facts.files, file, call))
              \in Reaches(Parsed(read.facts.files), file, call)
<1>1. call.expr.kind \in {"name", "attribute"}
  BY DEF Resolve
<1>2. QED
  BY <1>1, NameReaches, AttributeReaches

(* A relationship of the batch that is a call of this file.                *)
LEMMA CallEdgesReach ==
    ASSUME NEW read, IsTree(read.facts), read.bodies = read.facts,
           NEW file \in Parsed(read.facts.files), ~Unusual(file),
           NEW e \in EdgesOf(read), e.type = "CALLS", e.start[2] = file.path
    PROVE  \E call \in Elements(file.calls) :
              /\ e.start = LocalNode(file, call.caller)
              /\ e.end \in Reaches(Parsed(read.facts.files), file, call)
<1>1. DrawsCall(read, e)
  <2>1. ~(\E p \in Known(read) : e = Edge(RepositoryId, "CONTAINS", FileId(p)))
    BY EdgeParts
  <2>2. ~ContainsDefinition(read, e) /\ ~DrawsImport(read, e) /\ ~DrawsChange(read, e)
    BY EdgeParts DEF ContainsDefinition, DrawsImport, DrawsChange
  <2>3. QED
    BY <2>1, <2>2, EdgeKinds
<1>2. PICK g \in KnownFiles(read) : \E call : IsCall(read, g, call, e)
  BY <1>1 DEF DrawsCall
<1>3. PICK call : IsCall(read, g, call, e)
  BY <1>2
<1>4. /\ e.start = LocalNode(g, call.caller) /\ e.start # None
      /\ e.end = TargetNode(read, g, Resolve(read.facts.files, g, call)) /\ e.end # None
      /\ Resolve(read.facts.files, g, call) # None
      /\ call \in CallsIn(read.bodies, g.path)
  BY <1>3, EdgeParts DEF IsCall, CallEdge
<1>5. e.start[2] = g.path
  BY <1>4, KnownFileFits, LocalNodeIsDefined, DefinitionIds
<1>6. g = file
  BY <1>5, KnownFileFits DEF Parsed, IsTree
<1>7. call \in Elements(file.calls)
  BY <1>4, <1>6 DEF CallsIn, Parsed, IsTree
<1>8. IsFile(file)
  BY DEF Parsed, IsTree
<1>9. e.end \in Reaches(Parsed(read.facts.files), file, call)
  BY <1>4, <1>6, <1>8, CallReaches
<1>10. QED
  BY <1>4, <1>6, <1>7, <1>9

(* Every CALLS relationship that is about to be drawn, of a file of the    *)
(* usual forms, joins the definition that makes a call to one that this    *)
(* call can reach in Python, whatever the working tree holds               *)
(* (_resolve_call and _add_call_relationship).                             *)
THEOREM CallsAlwaysReach == Spec => []CallsReachTheirTargets
<1>1. IInv => CallsReachTheirTargets
  <2> SUFFICES ASSUME IInv, NEW c \in Clients, OneTree(c),
                      NEW f \in {g \in FilesOf(c) : ~Unusual(g)}, NEW e \in CallsOf(c, f)
               PROVE  \E call \in Elements(f.calls) :
                         /\ e.start = LocalNode(f, call.caller)
                         /\ e.end \in Reaches(FilesOf(c), f, call)
    BY DEF CallsReachTheirTargets
  <2> DEFINE read == client[c].read
             found == Found(read)
  <2>1. ClientFits(client[c]) /\ client[c].step = "merge"
    BY DEF OneTree, At, IInv
  <2>2. read \in Readings /\ read.facts \in Versions /\ client[c].batch = BatchOf(read)
    BY <2>1 DEF ClientFits, HasRead, Writing
  <2>3. read.bodies = read.facts
    BY <2>2 DEF OneTree, NoRead, Readings
  <2>4. found.facts = Tree[read.facts] /\ found.bodies = found.facts
    BY <2>2, <2>3, ReadingsFind
  <2>5. IsTree(found.facts)
    BY <2>2, <2>4, TreesAssumption DEF IsTree
  <2>6. FilesOf(c) = Parsed(found.facts.files)
    BY <2>4 DEF FilesOf, FilesRead
  <2>7. e \in EdgesOf(found) /\ e.type = "CALLS" /\ e.start[2] = f.path
    BY <2>2 DEF CallsOf, Batch, BatchOf
  <2>8. f \in Parsed(found.facts.files) /\ ~Unusual(f)
    BY <2>6
  <2> HIDE DEF found
  <2>9. QED
    BY <2>4, <2>5, <2>6, <2>7, <2>8, CallEdgesReach
<1>2. QED
  BY <1>1, InvariantHolds, PTL
===============================================================================
