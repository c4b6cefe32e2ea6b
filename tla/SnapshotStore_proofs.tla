------------------------- MODULE SnapshotStore_proofs -------------------------
(***************************************************************************)
(* Proofs about the snapshot store, for any number of clients, any         *)
(* revisions and any contents, with or without faults: its type, the       *)
(* uniqueness of what is stored, the truth of a True from save(), that     *)
(* loads never mix, and that it implements the write-once register.        *)
(***************************************************************************)
EXTENDS SnapshotStore, SequenceTheorems, TLAPS

(* The client is where its next call assumes it to be: the constraint      *)
(* exists before a header is created, the header of this client before its *)
(* entities, the entities before the relationships; what load() has read   *)
(* so far is of the header it found.                                       *)
InOrder(c) ==
    /\ ready[c] => unique
    /\ pc[c] \in {"check", "header"} => unique
    /\ pc[c] = "entities" => Node(c) \in headers
    /\ pc[c] = "edges" => Node(c) \in headers /\ Node(c) \in entities
    /\ pc[c] \in {"loadEntities", "loadEdges"} =>
          /\ \E h \in Under(headers, Revision(c)) : FactsOf(h) = reading[c].facts
          /\ reading[c].entities \subseteq Under(entities, Revision(c))
          /\ reading[c].edges = {}

IInv ==
    /\ TypeOK
    /\ OneSnapshotPerRevision
    /\ \A c \in Clients : InOrder(c)
    /\ SavedIsComplete
    /\ LoadsAreFromOneSave

-----------------------------------------------------------------------------
(***************************************************************************)
(* Types.                                                                  *)
(***************************************************************************)

(* A job has revisions, and a client at work is at one of them. *)
LEMMA JobFacts ==
    ASSUME NEW j \in Jobs
    PROVE  /\ j.revisions \in Seq(Revisions)
           /\ Len(j.revisions) \in Nat /\ Len(j.revisions) >= 1
           /\ \A i \in 1 .. Len(j.revisions) : j.revisions[i] \in Revisions
           /\ j.loads \in BOOLEAN
BY JobsAssumption

(* A client at work has a revision, a node of its own and contents for it. *)
LEMMA AtWork ==
    ASSUME TypeOK, NEW c \in Clients, pc[c] # "idle"
    PROVE  /\ job[c] \in Jobs /\ at[c] \in 1 .. Len(job[c].revisions)
           /\ Len(job[c].revisions) \in Nat
           /\ Revision(c) \in Revisions
           /\ Node(c) \in Nodes
           /\ Own(c) \in Facts
<1>1. job[c] \in Jobs /\ at[c] \in 1 .. Len(job[c].revisions)
  BY JobFacts DEF TypeOK
<1>2. Revision(c) \in Revisions
  BY <1>1, JobFacts DEF Revision
<1>3. Node(c) \in Nodes
  BY <1>2 DEF Node, Nodes
<1>4. Own(c) \in Facts
  BY <1>2, FactsAssumption DEF Own, FactsOf, Node
<1>5. QED
  BY <1>1, <1>2, <1>3, <1>4, JobFacts

(* Nodes have contents. *)
LEMMA NodeFacts ==
    ASSUME NEW n \in Nodes
    PROVE  FactsOf(n) \in Facts /\ n.by \in Clients /\ n.revision \in Revisions
BY FactsAssumption DEF Nodes, FactsOf

(* What changes when a client goes on to its next revision, or ends. *)
Position ==
    /\ pc \in [Clients -> Steps]
    /\ at \in [Clients -> Nat \ {0}]
    /\ got \in [Clients -> Seq(Snapshots)]
    /\ \A c \in Clients : pc[c] # "idle" => /\ job[c] \in Jobs
                                           /\ at[c] <= Len(job[c].revisions)
                                           /\ Len(got[c]) = at[c] - 1

(* A call that stays at its revision keeps the position. *)
LEMMA GotoPosition ==
    ASSUME TypeOK, NEW c \in Clients, NEW label \in Steps,
           pc[c] # "idle" \/ label = "idle",
           Goto(c, label), UNCHANGED <<at, got, job>>
    PROVE  Position'
<1>1. /\ pc' \in [Clients -> Steps] /\ at' \in [Clients -> Nat \ {0}]
      /\ got' \in [Clients -> Seq(Snapshots)]
  BY DEF TypeOK, Goto
<1>2. ASSUME NEW d \in Clients, pc'[d] # "idle"
      PROVE  job'[d] \in Jobs /\ at'[d] <= Len(job'[d].revisions) /\ Len(got'[d]) = at'[d] - 1
  BY <1>2 DEF TypeOK, Goto
<1>3. QED
  BY <1>1, <1>2 DEF Position

(* So does the end of a revision: the next one, or no more of them. *)
LEMMA ObtainedPosition ==
    ASSUME TypeOK, NEW c \in Clients, pc[c] # "idle", NEW snapshot \in Snapshots,
           Obtained(c, snapshot), UNCHANGED job
    PROVE  /\ Position'
           /\ got' = [got EXCEPT ![c] = Append(got[c], snapshot)]
           /\ pc'[c] \in {"idle", "loadHeader", "schema", "check"}
           /\ pc'[c] = "check" => ready[c]
           /\ \A d \in Clients \ {c} : pc'[d] = pc[d] /\ at'[d] = at[d] /\ got'[d] = got[d]
<1>1. got' = [got EXCEPT ![c] = Append(got[c], snapshot)]
  BY DEF Obtained
<1>2. PICK label \in {"idle", "loadHeader", "schema", "check"} :
          pc' = [pc EXCEPT ![c] = label] /\ (label = "check" => ready[c])
  BY DEF Obtained, Goto, BeginSave
<1>3. at' = IF LastRevision(c) THEN at ELSE [at EXCEPT ![c] = at[c] + 1]
  BY DEF Obtained
<1>4. LastRevision(c) => label = "idle"
  BY <1>2 DEF Obtained, Goto, TypeOK
<1>5. pc' \in [Clients -> Steps] /\ at' \in [Clients -> Nat \ {0}]
  BY <1>2, <1>3 DEF TypeOK, Steps
<1>6. got' \in [Clients -> Seq(Snapshots)]
  BY <1>1 DEF TypeOK
<1>7. ASSUME NEW d \in Clients, pc'[d] # "idle"
      PROVE  job'[d] \in Jobs /\ at'[d] <= Len(job'[d].revisions) /\ Len(got'[d]) = at'[d] - 1
  <2>1. CASE d = c
    <3>1. ~LastRevision(c)
      BY <1>2, <1>4, <1>7, <2>1 DEF TypeOK
    <3>2. at[c] < Len(job[c].revisions) /\ at[c] \in Nat
      BY <3>1, AtWork DEF LastRevision
    <3>3. Len(Append(got[c], snapshot)) = Len(got[c]) + 1 /\ Len(got[c]) = at[c] - 1
      BY DEF TypeOK
    <3>4. QED
      BY <1>1, <1>3, <2>1, <3>1, <3>2, <3>3, AtWork DEF TypeOK
  <2>2. CASE d # c
    BY <1>1, <1>2, <1>3, <1>7, <2>2 DEF TypeOK
  <2>3. QED
    BY <2>1, <2>2
<1>8. \A d \in Clients \ {c} : pc'[d] = pc[d] /\ at'[d] = at[d] /\ got'[d] = got[d]
  BY <1>1, <1>2, <1>3 DEF TypeOK
<1>9. pc'[c] = label
  BY <1>2 DEF TypeOK
<1>10. QED
  BY <1>1, <1>2, <1>5, <1>6, <1>7, <1>8, <1>9 DEF Position

(* A snapshot that save() kept in memory, and the answer it gave. *)
LEMMA SavedType ==
    ASSUME TypeOK, NEW c \in Clients, pc[c] # "idle", NEW answer \in Answers,
           Saved(c, answer), UNCHANGED job
    PROVE  /\ Position' /\ reply' \in [Clients -> ReplyType \cup {NoReply}]
           /\ LET own == Snapshot(Own(c), {Node(c)},
                                  IF HasRelationships(c) THEN {Node(c)} ELSE {})
              IN  Obtained(c, own) /\ own \in Snapshots
<1> DEFINE own == Snapshot(Own(c), {Node(c)}, IF HasRelationships(c) THEN {Node(c)} ELSE {})
<1>1. own \in Snapshots
  BY AtWork DEF Snapshot, Snapshots
<1>2. Obtained(c, own)
  BY DEF Saved
<1>3. Position'
  BY <1>1, <1>2, ObtainedPosition
<1>4. reply' \in [Clients -> ReplyType \cup {NoReply}]
  BY AtWork DEF Saved, Reply, TypeOK, ReplyType
<1>5. QED
  BY <1>1, <1>2, <1>3, <1>4

(* Every step keeps the types. *)
LEMMA TypeStep ==
    ASSUME TypeOK, [Next]_vars
    PROVE  TypeOK'
<1> DEFINE Rest == /\ unique' \in BOOLEAN
                   /\ headers' \subseteq Nodes /\ entities' \subseteq Nodes
                   /\ edges' \subseteq Nodes
                   /\ job' \in [Clients -> Jobs \cup {NoJob}]
                   /\ ready' \in [Clients -> BOOLEAN]
                   /\ reading' \in [Clients -> Snapshots]
                   /\ reply' \in [Clients -> ReplyType \cup {NoReply}]
<1>0. Position' /\ Rest => TypeOK'
  BY DEF Position, TypeOK
<1>1. ASSUME NEW c \in Clients, Begin(c) PROVE Position' /\ Rest
  <2>1. PICK j \in Jobs : job' = [job EXCEPT ![c] = j]
                          /\ IF j.loads THEN Goto(c, "loadHeader") ELSE BeginSave(c)
    BY <1>1 DEF Begin
  <2>2. PICK label \in Steps : pc' = [pc EXCEPT ![c] = label]
    BY <2>1 DEF Goto, BeginSave, Steps
  <2>3. /\ at' = [at EXCEPT ![c] = 1] /\ got' = [got EXCEPT ![c] = <<>>]
        /\ reply' = [reply EXCEPT ![c] = NoReply]
        /\ UNCHANGED <<database, ready, reading>>
    BY <1>1 DEF Begin
  <2>4. Rest
    BY <2>1, <2>3 DEF TypeOK, database
  <2>5. ASSUME NEW d \in Clients, pc'[d] # "idle"
        PROVE  job'[d] \in Jobs /\ at'[d] <= Len(job'[d].revisions) /\ Len(got'[d]) = at'[d] - 1
    <3>1. CASE d = c
      <4>1. job'[c] = j /\ at'[c] = 1
        BY <2>1, <2>3 DEF TypeOK
      <4>2. got'[c] = <<>>
        BY <2>3 DEF TypeOK
      <4>3. j.revisions \in Seq(Revisions) /\ Len(j.revisions) >= 1
        BY JobFacts
      <4>4. QED
        BY <3>1, <4>1, <4>2, <4>3
    <3>2. CASE d # c
      <4>1. job'[d] = job[d] /\ pc'[d] = pc[d] /\ at'[d] = at[d] /\ got'[d] = got[d]
        BY <2>1, <2>2, <2>3, <3>2 DEF TypeOK
      <4>2. QED
        BY <2>5, <4>1 DEF TypeOK
    <3>3. QED
      BY <3>1, <3>2
  <2>6. pc' \in [Clients -> Steps] /\ at' \in [Clients -> Nat \ {0}]
        /\ got' \in [Clients -> Seq(Snapshots)]
    BY <2>2, <2>3 DEF TypeOK
  <2>7. QED
    BY <2>4, <2>5, <2>6 DEF Position
<1>2. ASSUME NEW c \in Clients, LoadHeader(c) PROVE Position' /\ Rest
  <2>1. pc[c] # "idle" /\ UNCHANGED <<database, job, at, ready, got>>
    BY <1>2 DEF LoadHeader
  <2>2. \E label \in Steps : Goto(c, label)
    BY <1>2 DEF LoadHeader, BeginSave, Steps
  <2>3. reading' \in [Clients -> Snapshots]
    <3>1. CASE UNCHANGED reading
      BY <3>1 DEF TypeOK
    <3>2. CASE \E h \in Under(headers, Revision(c)) :
                   reading' = [reading EXCEPT ![c] = Snapshot(FactsOf(h), {}, {})]
      <4>1. PICK h \in Nodes : reading' = [reading EXCEPT ![c] = Snapshot(FactsOf(h), {}, {})]
        BY <3>2 DEF Under, TypeOK
      <4>2. Snapshot(FactsOf(h), {}, {}) \in Snapshots
        BY NodeFacts DEF Snapshot, Snapshots
      <4>3. QED
        BY <4>1, <4>2 DEF TypeOK
    <3>3. QED
      BY <1>2, <3>1, <3>2 DEF LoadHeader
  <2>4. reply' \in [Clients -> ReplyType \cup {NoReply}]
    <3>1. CASE UNCHANGED reply
      BY <3>1 DEF TypeOK
    <3>2. CASE Reply(c, "absent", NoFacts)
      BY <2>1, <3>2, AtWork DEF TypeOK, Reply, ReplyType, Answers
    <3>3. QED
      BY <1>2, <3>1, <3>2 DEF LoadHeader
  <2>5. QED
    BY <2>1, <2>2, <2>3, <2>4, GotoPosition DEF TypeOK, database
<1>3. ASSUME NEW c \in Clients, LoadEntities(c) PROVE Position' /\ Rest
  <2>1. pc[c] # "idle" /\ UNCHANGED <<database, job, at, ready, got, reply>>
    BY <1>3 DEF LoadEntities
  <2>2. Goto(c, "loadEdges") /\ "loadEdges" \in Steps
    BY <1>3 DEF LoadEntities, Steps
  <2>3. reading' \in [Clients -> Snapshots]
    BY <1>3 DEF LoadEntities, TypeOK, Snapshots, Under
  <2>4. QED
    BY <2>1, <2>2, <2>3, GotoPosition DEF TypeOK, database
<1>4. ASSUME NEW c \in Clients, LoadEdges(c) PROVE Position' /\ Rest
  <2> DEFINE loaded == [reading[c] EXCEPT !.edges = Under(edges, Revision(c))]
  <2>1. pc[c] # "idle" /\ UNCHANGED <<database, job, ready>>
    BY <1>4 DEF LoadEdges
  <2>2. loaded \in Snapshots /\ loaded.facts = reading[c].facts
    BY DEF TypeOK, Snapshots, Under
  <2>3. Obtained(c, loaded) /\ Reply(c, "loaded", loaded.facts)
    BY <1>4 DEF LoadEdges
  <2>4. reading' \in [Clients -> Snapshots]
    BY <1>4 DEF LoadEdges, TypeOK, NoSnapshot, Snapshot, Snapshots
  <2>5. loaded.facts \in Facts \cup {NoFacts}
    BY <2>2 DEF Snapshots
  <2>6. reply' \in [Clients -> ReplyType \cup {NoReply}]
    BY <2>1, <2>3, <2>5, AtWork DEF Reply, TypeOK, ReplyType, Answers
  <2>7. Position'
    BY <2>1, <2>2, <2>3, ObtainedPosition
  <2>8. QED
    BY <2>1, <2>4, <2>6, <2>7 DEF TypeOK, database
<1>5. ASSUME NEW c \in Clients, EnsureSchema(c) PROVE Position' /\ Rest
  <2>1. /\ pc[c] # "idle" /\ Goto(c, "check") /\ "check" \in Steps
        /\ UNCHANGED <<headers, entities, edges, job, at, reading, got, reply>>
        /\ unique' = TRUE /\ ready' = [ready EXCEPT ![c] = TRUE]
    BY <1>5 DEF EnsureSchema, Steps
  <2>2. Position'
    BY <2>1, GotoPosition
  <2>3. QED
    BY <2>1, <2>2 DEF TypeOK
<1>6. ASSUME NEW c \in Clients, CheckStored(c) PROVE Position' /\ Rest
  <2>1. pc[c] # "idle" /\ UNCHANGED <<database, job, ready, reading>>
    BY <1>6 DEF CheckStored
  <2>2. CASE Goto(c, "header") /\ UNCHANGED <<at, got, reply>>
    BY <2>1, <2>2, GotoPosition DEF TypeOK, database, Steps
  <2>3. CASE Saved(c, "identical")
    BY <2>1, <2>3, SavedType DEF TypeOK, database, Answers
  <2>4. CASE Reply(c, "conflict", Own(c)) /\ Raise(c)
    <3>1. reply' \in [Clients -> ReplyType \cup {NoReply}]
      BY <2>1, <2>4, AtWork DEF Reply, TypeOK, ReplyType, Answers
    <3>2. Position'
      BY <2>1, <2>4, GotoPosition DEF Raise, Steps
    <3>3. QED
      BY <2>1, <3>1, <3>2 DEF TypeOK, database
  <2>5. QED
    BY <1>6, <2>2, <2>3, <2>4 DEF CheckStored
<1>7. ASSUME NEW c \in Clients, CreateHeader(c) PROVE Position' /\ Rest
  <2>1. pc[c] # "idle" /\ UNCHANGED <<unique, entities, edges, job, ready, reading>>
    BY <1>7 DEF CreateHeader
  <2>2. headers' \subseteq Nodes
    BY <1>7, <2>1, AtWork DEF CreateHeader, TypeOK
  <2>3. CASE Reply(c, "taken", Own(c)) /\ Raise(c)
    <3>1. reply' \in [Clients -> ReplyType \cup {NoReply}]
      BY <2>1, <2>3, AtWork DEF Reply, TypeOK, ReplyType, Answers
    <3>2. Position'
      BY <2>1, <2>3, GotoPosition DEF Raise, Steps
    <3>3. QED
      BY <2>1, <2>2, <3>1, <3>2 DEF TypeOK
  <2>4. CASE Goto(c, "entities") /\ UNCHANGED <<at, got, reply>>
    BY <2>1, <2>2, <2>4, GotoPosition DEF TypeOK, Steps
  <2>5. QED
    BY <1>7, <2>3, <2>4 DEF CreateHeader
<1>8. ASSUME NEW c \in Clients, CreateEntities(c) PROVE Position' /\ Rest
  <2>1. pc[c] # "idle" /\ UNCHANGED <<unique, headers, edges, job, ready, reading>>
    BY <1>8 DEF CreateEntities
  <2>2. entities' \subseteq Nodes
    BY <1>8, <2>1, AtWork DEF CreateEntities, TypeOK
  <2>3. CASE Goto(c, "edges") /\ UNCHANGED <<at, got, reply>>
    BY <2>1, <2>2, <2>3, GotoPosition DEF TypeOK, Steps
  <2>4. CASE Saved(c, "stored")
    BY <2>1, <2>2, <2>4, SavedType DEF TypeOK, Answers
  <2>5. QED
    BY <1>8, <2>3, <2>4 DEF CreateEntities
<1>9. ASSUME NEW c \in Clients, CreateEdges(c) PROVE Position' /\ Rest
  <2>1. pc[c] # "idle" /\ UNCHANGED <<unique, headers, entities, job, ready, reading>>
    BY <1>9 DEF CreateEdges
  <2>2. edges' \subseteq Nodes
    BY <1>9, <2>1, AtWork DEF CreateEdges, TypeOK
  <2>3. Saved(c, "stored")
    BY <1>9 DEF CreateEdges
  <2>4. QED
    BY <2>1, <2>2, <2>3, SavedType DEF TypeOK, Answers
<1>10. ASSUME NEW c \in Clients, Fail(c) PROVE Position' /\ Rest
  <2>1. Goto(c, "idle") /\ UNCHANGED <<at, got, database, job>>
    BY <1>10 DEF Fail, Raise
  <2>2. ready' \in [Clients -> BOOLEAN]
    BY <1>10 DEF Fail, TypeOK
  <2>3. reading' \in [Clients -> Snapshots]
    BY <1>10 DEF Fail, TypeOK, NoSnapshot, Snapshot, Snapshots
  <2>4. reply' \in [Clients -> ReplyType \cup {NoReply}]
    BY <1>10 DEF Fail, TypeOK
  <2>5. Position'
    BY <2>1, GotoPosition DEF Steps
  <2>6. QED
    BY <2>1, <2>2, <2>3, <2>4, <2>5 DEF TypeOK, database
<1>11. CASE UNCHANGED vars
  BY <1>11 DEF TypeOK, vars, database
<1>12. QED
  BY <1>0, <1>1, <1>2, <1>3, <1>4, <1>5, <1>6, <1>7, <1>8, <1>9, <1>10, <1>11 DEF Next, Call

-----------------------------------------------------------------------------
(***************************************************************************)
(* What every step leaves alone.                                           *)
(***************************************************************************)

(* Nothing is ever deleted, and the constraint stays. *)
LEMMA Monotone ==
    ASSUME [Next]_vars
    PROVE  /\ unique => unique'
           /\ headers \subseteq headers' /\ entities \subseteq entities' /\ edges \subseteq edges'
<1>1. ASSUME NEW c \in Clients, Begin(c) \/ LoadHeader(c) \/ LoadEntities(c) \/ LoadEdges(c)
             \/ CheckStored(c) \/ Fail(c)
      PROVE  UNCHANGED database
  BY <1>1 DEF Begin, LoadHeader, LoadEntities, LoadEdges, CheckStored, Fail
<1>2. ASSUME NEW c \in Clients, EnsureSchema(c) \/ CreateHeader(c)
             \/ CreateEntities(c) \/ CreateEdges(c)
      PROVE  /\ unique => unique'
             /\ headers \subseteq headers' /\ entities \subseteq entities'
             /\ edges \subseteq edges'
  BY <1>2 DEF EnsureSchema, CreateHeader, CreateEntities, CreateEdges
<1>3. QED
  BY <1>1, <1>2 DEF Next, Call, vars, database

(* What a step of c may change of another client: nothing. *)
Same(d) == /\ pc'[d] = pc[d] /\ job'[d] = job[d] /\ at'[d] = at[d] /\ ready'[d] = ready[d]
           /\ reading'[d] = reading[d] /\ got'[d] = got[d] /\ reply'[d] = reply[d]

LEMMA OwnState ==
    ASSUME TypeOK, NEW c \in Clients, Begin(c) \/ Call(c) \/ Fail(c)
    PROVE  \A d \in Clients \ {c} : Same(d)
<1>1. ASSUME NEW snapshot, Obtained(c, snapshot), NEW d \in Clients \ {c}
      PROVE  pc'[d] = pc[d] /\ at'[d] = at[d] /\ got'[d] = got[d]
  BY <1>1 DEF Obtained, Goto, BeginSave, TypeOK
<1>2. ASSUME NEW answer, Saved(c, answer), NEW d \in Clients \ {c}
      PROVE  pc'[d] = pc[d] /\ at'[d] = at[d] /\ got'[d] = got[d] /\ reply'[d] = reply[d]
  BY <1>1, <1>2 DEF Saved, Reply, TypeOK
<1>3. TAKE d \in Clients \ {c}
<1>4. CASE Begin(c)
  BY <1>4 DEF Begin, Goto, BeginSave, TypeOK, Same
<1>5. CASE LoadHeader(c)
  BY <1>5 DEF LoadHeader, Goto, BeginSave, Reply, TypeOK, Same
<1>6. CASE LoadEntities(c)
  BY <1>6 DEF LoadEntities, Goto, TypeOK, Same
<1>7. CASE LoadEdges(c)
  BY <1>1, <1>7 DEF LoadEdges, Reply, TypeOK, Same
<1>8. CASE EnsureSchema(c)
  BY <1>8 DEF EnsureSchema, Goto, TypeOK, Same
<1>9. CASE CheckStored(c)
  BY <1>2, <1>9 DEF CheckStored, Goto, Reply, Raise, TypeOK, Same
<1>10. CASE CreateHeader(c)
  BY <1>10 DEF CreateHeader, Goto, Reply, Raise, TypeOK, Same
<1>11. CASE CreateEntities(c)
  BY <1>2, <1>11 DEF CreateEntities, Goto, TypeOK, Same
<1>12. CASE CreateEdges(c)
  BY <1>2, <1>12 DEF CreateEdges, TypeOK, Same
<1>13. CASE Fail(c)
  BY <1>13 DEF Fail, Goto, Raise, TypeOK, Same
<1>14. QED
  BY <1>4, <1>5, <1>6, <1>7, <1>8, <1>9, <1>10, <1>11, <1>12, <1>13 DEF Call

-----------------------------------------------------------------------------
(***************************************************************************)
(* The conjuncts of the invariant, one at a time.                          *)
(***************************************************************************)

(* Only the three writes touch what is stored, each at its place. *)
LEMMA OneSnapshotStep ==
    ASSUME IInv, [Next]_vars
    PROVE  OneSnapshotPerRevision'
<1> USE DEF IInv
<1>1. CASE UNCHANGED <<headers, entities, edges>>
  BY <1>1 DEF OneSnapshotPerRevision
<1>2. ASSUME NEW c \in Clients, CreateHeader(c) PROVE OneSnapshotPerRevision'
  <2>1. CASE UNCHANGED headers
    BY <1>2, <2>1 DEF CreateHeader, OneSnapshotPerRevision
  <2>2. CASE ~Refused(c) /\ headers' = headers \cup {Node(c)}
    <3>1. Under(headers, Revision(c)) = {}
      BY <1>2, <2>2 DEF CreateHeader, InOrder, Refused
    <3>2. Node(c).revision = Revision(c)
      BY DEF Node
    <3>3. \A h \in headers : h.revision # Node(c).revision
      BY <3>1, <3>2 DEF Under
    <3>4. UNCHANGED <<entities, edges>>
      BY <1>2 DEF CreateHeader
    <3>5. QED
      BY <2>2, <3>3, <3>4 DEF OneSnapshotPerRevision
  <2>3. QED
    BY <1>2, <2>1, <2>2 DEF CreateHeader
<1>3. ASSUME NEW c \in Clients, CreateEntities(c) PROVE OneSnapshotPerRevision'
  BY <1>3 DEF CreateEntities, OneSnapshotPerRevision, InOrder
<1>4. ASSUME NEW c \in Clients, CreateEdges(c) PROVE OneSnapshotPerRevision'
  BY <1>4 DEF CreateEdges, OneSnapshotPerRevision, InOrder
<1>5. ASSUME NEW c \in Clients, Begin(c) \/ LoadHeader(c) \/ LoadEntities(c) \/ LoadEdges(c)
             \/ EnsureSchema(c) \/ CheckStored(c) \/ Fail(c)
      PROVE  UNCHANGED <<headers, entities, edges>>
  BY <1>5 DEF Begin, LoadHeader, LoadEntities, LoadEdges, EnsureSchema, CheckStored, Fail, database
<1>6. QED
  BY <1>1, <1>2, <1>3, <1>4, <1>5 DEF Next, Call, vars, database

(* A client whose next call assumes nothing is where it should be. *)
LEMMA AssumesNothing ==
    ASSUME NEW c \in Clients, ready'[c] => unique',
           pc'[c] \in {"idle", "loadHeader", "schema", "check"},
           pc'[c] = "check" => ready'[c]
    PROVE  InOrder(c)'
BY DEF InOrder

LEMMA InOrderStep ==
    ASSUME IInv, TypeOK', [Next]_vars, NEW d \in Clients
    PROVE  InOrder(d)'
<1> USE DEF IInv
<1>1. /\ unique => unique'
      /\ headers \subseteq headers' /\ entities \subseteq entities'
  BY Monotone
<1>2. CASE Same(d)
  <2>1. Revision(d)' = Revision(d) /\ Node(d)' = Node(d)
    BY <1>2 DEF Same, Revision, Node
  <2>2. /\ Under(headers, Revision(d)) \subseteq Under(headers', Revision(d))
        /\ Under(entities, Revision(d)) \subseteq Under(entities', Revision(d))
    BY <1>1 DEF Under
  <2>3. ASSUME pc[d] \in {"loadEntities", "loadEdges"}
        PROVE  /\ \E h \in Under(headers', Revision(d)) : FactsOf(h) = reading[d].facts
               /\ reading[d].entities \subseteq Under(entities', Revision(d))
               /\ reading[d].edges = {}
    BY <2>2, <2>3 DEF InOrder
  <2>4. /\ ready'[d] => unique'
        /\ pc'[d] \in {"check", "header"} => unique'
        /\ pc'[d] = "entities" => Node(d)' \in headers'
        /\ pc'[d] = "edges" => Node(d)' \in headers' /\ Node(d)' \in entities'
    BY <1>1, <1>2, <2>1 DEF Same, InOrder
  <2>5. QED
    BY <1>2, <2>1, <2>3, <2>4 DEF Same, InOrder, Under, FactsOf
<1>3. ASSUME Begin(d) PROVE InOrder(d)'
  BY <1>1, <1>3, AssumesNothing DEF Begin, Goto, BeginSave, TypeOK, InOrder
<1>4. ASSUME LoadHeader(d) PROVE InOrder(d)'
  <2>1. UNCHANGED <<database, job, at, ready, got>>
    BY <1>4 DEF LoadHeader
  <2>2. CASE BeginSave(d)
    BY <2>1, <2>2, AssumesNothing DEF Goto, BeginSave, TypeOK, InOrder, database
  <2>3. CASE Goto(d, "loadEntities") /\ \E h \in Under(headers, Revision(d)) :
                 reading' = [reading EXCEPT ![d] = Snapshot(FactsOf(h), {}, {})]
    <3>1. PICK h \in Under(headers, Revision(d)) :
              reading' = [reading EXCEPT ![d] = Snapshot(FactsOf(h), {}, {})]
      BY <2>3
    <3>2. reading'[d] = Snapshot(FactsOf(h), {}, {}) /\ pc'[d] = "loadEntities"
      BY <2>3, <3>1 DEF TypeOK, Goto
    <3>3. Under(headers, Revision(d))' = Under(headers, Revision(d))
      BY <2>1 DEF Under, Revision, database
    <3>4. /\ FactsOf(h) = reading'[d].facts /\ reading'[d].entities = {} /\ reading'[d].edges = {}
      BY <3>2 DEF Snapshot
    <3>5. ready'[d] => unique'
      BY <2>1 DEF InOrder, database
    <3>6. QED
      BY <3>2, <3>3, <3>4, <3>5 DEF InOrder, FactsOf
  <2>4. QED
    BY <1>4, <2>2, <2>3 DEF LoadHeader
<1>5. ASSUME LoadEntities(d) PROVE InOrder(d)'
  <2>1. UNCHANGED <<database, job, at, ready, got, reply>> /\ pc[d] = "loadEntities"
    BY <1>5 DEF LoadEntities
  <2>2. reading'[d] = [reading[d] EXCEPT !.entities = Under(entities, Revision(d))]
        /\ pc'[d] = "loadEdges"
    BY <1>5 DEF LoadEntities, TypeOK, Goto
  <2>3. /\ reading'[d].facts = reading[d].facts /\ reading'[d].edges = reading[d].edges
        /\ reading'[d].entities = Under(entities, Revision(d))
    BY <2>2 DEF TypeOK, Snapshots
  <2>4. /\ Under(headers, Revision(d))' = Under(headers, Revision(d))
        /\ Under(entities, Revision(d))' = Under(entities, Revision(d))
    BY <2>1 DEF Under, Revision, database
  <2>5. /\ \E h \in Under(headers, Revision(d)) : FactsOf(h) = reading[d].facts
        /\ reading[d].edges = {}
        /\ ready[d] => unique
    BY <2>1 DEF InOrder
  <2>6. QED
    BY <2>1, <2>2, <2>3, <2>4, <2>5 DEF InOrder, FactsOf, database
<1>6. ASSUME NEW snapshot, Obtained(d, snapshot), UNCHANGED <<unique, ready>> PROVE InOrder(d)'
  BY <1>6, AssumesNothing DEF Obtained, Goto, BeginSave, TypeOK, InOrder
<1>7. ASSUME LoadEdges(d) PROVE InOrder(d)'
  BY <1>6, <1>7 DEF LoadEdges, database
<1>8. ASSUME EnsureSchema(d) PROVE InOrder(d)'
  BY <1>8, AssumesNothing DEF EnsureSchema, Goto, TypeOK
<1>9. ASSUME Raise(d), UNCHANGED <<unique, ready>> PROVE InOrder(d)'
  BY <1>9, AssumesNothing DEF Raise, Goto, TypeOK, InOrder
<1>10. ASSUME CheckStored(d) PROVE InOrder(d)'
  <2>1. UNCHANGED <<database, job, ready, reading>> /\ unique
    BY <1>10 DEF CheckStored, InOrder
  <2>2. CASE Goto(d, "header")
    <3>1. pc'[d] = "header"
      BY <2>2 DEF Goto, TypeOK
    <3>2. QED
      BY <2>1, <3>1 DEF InOrder, database
  <2>3. CASE \E answer \in Answers : Saved(d, answer)
    BY <1>6, <2>1, <2>3 DEF Saved, database
  <2>4. CASE Raise(d)
    BY <1>9, <2>1, <2>4 DEF database
  <2>5. QED
    BY <1>10, <2>2, <2>3, <2>4 DEF CheckStored, Answers
<1>11. ASSUME CreateHeader(d) PROVE InOrder(d)'
  <2>1. UNCHANGED <<unique, entities, edges, job, ready, reading>>
    BY <1>11 DEF CreateHeader
  <2>2. CASE Raise(d)
    BY <1>9, <2>1, <2>2
  <2>3. CASE headers' = headers \cup {Node(d)} /\ Goto(d, "entities") /\ UNCHANGED at
    <3>1. pc'[d] = "entities"
      BY <2>3 DEF Goto, TypeOK
    <3>2. Node(d)' = Node(d)
      BY <2>1, <2>3 DEF Node, Revision
    <3>3. QED
      BY <2>1, <2>3, <3>1, <3>2 DEF InOrder
  <2>4. QED
    BY <1>11, <2>2, <2>3 DEF CreateHeader
<1>12. ASSUME CreateEntities(d) PROVE InOrder(d)'
  <2>1. UNCHANGED <<unique, headers, edges, job, ready, reading>> /\ Node(d) \in headers
    BY <1>12 DEF CreateEntities, InOrder
  <2>2. CASE Goto(d, "edges") /\ UNCHANGED at
    <3>1. pc'[d] = "edges"
      BY <2>2 DEF Goto, TypeOK
    <3>2. Node(d)' = Node(d)
      BY <2>1, <2>2 DEF Node, Revision
    <3>3. Node(d) \in Under(headers, Revision(d))
      BY <2>1 DEF Under, Node
    <3>4. Node(d) \in entities'
      BY <1>12, <3>3 DEF CreateEntities
    <3>5. QED
      BY <2>1, <3>1, <3>2, <3>4 DEF InOrder
  <2>3. CASE Saved(d, "stored")
    BY <1>6, <2>1, <2>3 DEF Saved
  <2>4. QED
    BY <1>12, <2>2, <2>3 DEF CreateEntities
<1>13. ASSUME CreateEdges(d) PROVE InOrder(d)'
  BY <1>6, <1>13 DEF CreateEdges, Saved
<1>14. ASSUME Fail(d) PROVE InOrder(d)'
  BY <1>14, AssumesNothing DEF Fail, Raise, Goto, TypeOK, InOrder, database
<1>15. CASE UNCHANGED vars
  BY <1>2, <1>15 DEF Same, vars
<1>16. ASSUME NEW c \in Clients \ {d}, Begin(c) \/ Call(c) \/ Fail(c) PROVE Same(d)
  BY <1>16, OwnState
<1>17. QED
  BY <1>2, <1>3, <1>4, <1>5, <1>7, <1>8, <1>10, <1>11, <1>12, <1>13, <1>14, <1>15, <1>16
     DEF Next, Call

(* A True of save() comes after the last of its writes. *)
LEMMA SavedStep ==
    ASSUME IInv, [Next]_vars
    PROVE  SavedIsComplete'
<1> USE DEF IInv
<1> SUFFICES ASSUME NEW d \in Clients, reply'[d].answer = "stored"
             PROVE  LET node == [by |-> d, revision |-> reply'[d].revision]
                    IN  /\ node \in headers' /\ node \in entities'
                        /\ FactsOf(node) \in HasEdges => node \in edges'
  BY DEF SavedIsComplete, Complete, FactsOf
<1> DEFINE node == [by |-> d, revision |-> reply'[d].revision]
           Done == /\ node \in headers' /\ node \in entities'
                   /\ FactsOf(node) \in HasEdges => node \in edges'
<1>1. CASE reply'[d] = reply[d]
  <2>1. Complete(node)
    BY <1>1 DEF SavedIsComplete
  <2>2. QED
    BY <2>1, Monotone DEF Complete
<1>2. ASSUME reply'[d] = NoReply PROVE FALSE
  BY <1>2 DEF NoReply
<1>3. ASSUME NEW answer, NEW facts, answer # "stored", Reply(d, answer, facts) PROVE FALSE
  BY <1>3 DEF Reply, TypeOK
<1>4. ASSUME CreateEntities(d) \/ CreateEdges(d), reply'[d] # reply[d]
      PROVE  Done
  <2>1. Saved(d, "stored")
    BY <1>4 DEF CreateEntities, CreateEdges
  <2>2. node = Node(d)
    BY <2>1 DEF Saved, Reply, TypeOK, Node
  <2>3. Node(d) \in Under(headers, Revision(d)) <=> Node(d) \in headers
    BY DEF Under, Node
  <2>4. Node(d) \in Under(entities, Revision(d)) <=> Node(d) \in entities
    BY DEF Under, Node
  <2>5. CASE CreateEntities(d)
    <3>1. Node(d) \in headers /\ headers' = headers
      BY <2>5 DEF CreateEntities, InOrder
    <3>2. Node(d) \in entities'
      BY <2>3, <2>5, <3>1 DEF CreateEntities
    <3>3. FactsOf(Node(d)) \notin HasEdges
      BY <1>4, <2>5 DEF CreateEntities, HasRelationships, Own
    <3>4. QED
      BY <2>2, <3>1, <3>2, <3>3
  <2>6. CASE CreateEdges(d)
    <3>1. /\ Node(d) \in headers /\ headers' = headers
          /\ Node(d) \in entities /\ entities' = entities
      BY <2>6 DEF CreateEdges, InOrder
    <3>2. Node(d) \in edges'
      BY <2>4, <2>6, <3>1 DEF CreateEdges
    <3>3. QED
      BY <2>2, <3>1, <3>2
  <2>7. QED
    BY <1>4, <2>5, <2>6
<1>5. ASSUME NEW c \in Clients \ {d}, Begin(c) \/ Call(c) \/ Fail(c) PROVE reply'[d] = reply[d]
  BY <1>5, OwnState DEF Same
<1>6. ASSUME Begin(d) \/ Fail(d) PROVE FALSE
  BY <1>2, <1>6 DEF Begin, Fail, TypeOK
<1>7. ASSUME LoadHeader(d) \/ LoadEntities(d) \/ LoadEdges(d) \/ EnsureSchema(d)
             \/ CheckStored(d) \/ CreateHeader(d)
      PROVE  reply'[d] = reply[d]
  <2>1. \/ UNCHANGED reply
        \/ \E answer \in {"absent", "loaded", "identical", "conflict", "taken"} :
              \E facts : Reply(d, answer, facts)
    BY <1>7 DEF LoadHeader, LoadEntities, LoadEdges, EnsureSchema, CheckStored, CreateHeader,
                Saved
  <2>2. QED
    BY <1>3, <2>1
<1>8. QED
  BY <1>1, <1>4, <1>5, <1>6, <1>7 DEF Next, Call, vars

(* What a client has at hand grows by one snapshot of one save, under the  *)
(* revision it was at.                                                     *)
LEMMA LoadsStep ==
    ASSUME IInv, [Next]_vars
    PROVE  LoadsAreFromOneSave'
<1> USE DEF IInv
<1> DEFINE Good(s, r) == \A n \in s.entities \cup s.edges : n.revision = r /\ FactsOf(n) = s.facts
<1> SUFFICES ASSUME NEW d \in Clients
             PROVE  \A i \in DOMAIN got'[d] : Good(got'[d][i], job'[d].revisions[i])
  BY DEF LoadsAreFromOneSave, FactsOf
<1>1. \A i \in DOMAIN got[d] : Good(got[d][i], job[d].revisions[i])
  BY DEF LoadsAreFromOneSave
<1>2. CASE got'[d] = got[d] /\ job'[d] = job[d]
  BY <1>1, <1>2
<1>3. CASE got'[d] = <<>>
  BY <1>3
<1>4. ASSUME NEW s \in Snapshots, pc[d] # "idle", Good(s, Revision(d)),
             Obtained(d, s), UNCHANGED job
      PROVE  \A i \in DOMAIN got'[d] : Good(got'[d][i], job'[d].revisions[i])
  <2>1. got'[d] = Append(got[d], s)
    BY <1>4 DEF Obtained, TypeOK
  <2>2. got[d] \in Seq(Snapshots) /\ Len(got[d]) + 1 = at[d]
    BY <1>4, AtWork DEF TypeOK
  <2>3. ASSUME NEW i \in DOMAIN got'[d]
        PROVE  \/ i \in DOMAIN got[d] /\ got'[d][i] = got[d][i]
               \/ i = at[d] /\ got'[d][i] = s
    BY <2>1, <2>2, <2>3
  <2>4. QED
    BY <1>1, <1>4, <2>3 DEF Revision
<1>5. ASSUME NEW answer \in Answers, pc[d] # "idle", Saved(d, answer), UNCHANGED job
      PROVE  \A i \in DOMAIN got'[d] : Good(got'[d][i], job'[d].revisions[i])
  <2> DEFINE own == Snapshot(Own(d), {Node(d)}, IF HasRelationships(d) THEN {Node(d)} ELSE {})
  <2>1. own.facts = Own(d) /\ own.entities \cup own.edges = {Node(d)}
    BY DEF Snapshot
  <2>2. Good(own, Revision(d))
    BY <2>1 DEF Node, Own
  <2>3. own \in Snapshots /\ Obtained(d, own)
    BY <1>5, SavedType
  <2>4. QED
    BY <1>4, <1>5, <2>2, <2>3
<1>6. ASSUME LoadEdges(d)
      PROVE  \A i \in DOMAIN got'[d] : Good(got'[d][i], job'[d].revisions[i])
  <2> DEFINE loaded == [reading[d] EXCEPT !.edges = Under(edges, Revision(d))]
  <2>1. pc[d] = "loadEdges" /\ Obtained(d, loaded) /\ UNCHANGED job
    BY <1>6 DEF LoadEdges
  <2>2. /\ loaded \in Snapshots /\ loaded.facts = reading[d].facts
        /\ loaded.entities = reading[d].entities /\ loaded.edges = Under(edges, Revision(d))
    BY DEF TypeOK, Snapshots, Under
  <2>3. PICK h \in Under(headers, Revision(d)) : FactsOf(h) = reading[d].facts
    BY <2>1 DEF InOrder
  <2>4. loaded.entities \cup loaded.edges \subseteq Under(headers, Revision(d))
    BY <2>1, <2>2 DEF InOrder, Under, OneSnapshotPerRevision
  <2>5. \A n \in Under(headers, Revision(d)) : n = h
    BY <2>3 DEF Under, OneSnapshotPerRevision
  <2>6. Good(loaded, Revision(d))
    BY <2>2, <2>3, <2>4, <2>5 DEF Under
  <2>7. QED
    BY <1>4, <2>1, <2>2, <2>6
<1>7. ASSUME NEW c \in Clients \ {d}, Begin(c) \/ Call(c) \/ Fail(c)
      PROVE  got'[d] = got[d] /\ job'[d] = job[d]
  BY <1>7, OwnState DEF Same
<1>8. ASSUME Begin(d) PROVE got'[d] = <<>>
  BY <1>8 DEF Begin, TypeOK
<1>9. ASSUME LoadHeader(d) \/ LoadEntities(d) \/ EnsureSchema(d) \/ CreateHeader(d) \/ Fail(d)
      PROVE  got'[d] = got[d] /\ job'[d] = job[d]
  BY <1>9 DEF LoadHeader, LoadEntities, EnsureSchema, CreateHeader, Fail, Raise
<1>10. ASSUME CheckStored(d) \/ CreateEntities(d) \/ CreateEdges(d)
       PROVE  /\ pc[d] # "idle" /\ UNCHANGED job
              /\ UNCHANGED got \/ \E answer \in Answers : Saved(d, answer)
  BY <1>10 DEF CheckStored, CreateEntities, CreateEdges, Raise, Answers
<1>11. QED
  BY <1>2, <1>3, <1>5, <1>6, <1>7, <1>8, <1>9, <1>10 DEF Next, Call, vars

-----------------------------------------------------------------------------
(***************************************************************************)
(* The inductive invariant, and what follows from it.                      *)
(***************************************************************************)

LEMMA InitIInv == Init => IInv
<1> SUFFICES ASSUME Init PROVE IInv
  OBVIOUS
<1>1. TypeOK
  <2>1. NoSnapshot \in Snapshots
    BY DEF NoSnapshot, Snapshot, Snapshots
  <2>2. /\ at \in [Clients -> Nat \ {0}] /\ got \in [Clients -> Seq(Snapshots)]
        /\ pc \in [Clients -> Steps] /\ ready \in [Clients -> BOOLEAN]
    BY DEF Init, Steps
  <2>3. /\ job \in [Clients -> Jobs \cup {NoJob}] /\ reading \in [Clients -> Snapshots]
        /\ reply \in [Clients -> ReplyType \cup {NoReply}]
    BY <2>1 DEF Init
  <2>4. QED
    BY <2>2, <2>3 DEF Init, TypeOK
<1>2. OneSnapshotPerRevision
  BY DEF Init, OneSnapshotPerRevision
<1>3. \A c \in Clients : InOrder(c)
  BY DEF Init, InOrder
<1>4. SavedIsComplete
  BY DEF Init, SavedIsComplete, NoReply
<1>5. LoadsAreFromOneSave
  BY DEF Init, LoadsAreFromOneSave
<1>6. QED
  BY <1>1, <1>2, <1>3, <1>4, <1>5 DEF IInv

LEMMA NextIInv == IInv /\ [Next]_vars => IInv'
<1> SUFFICES ASSUME IInv, [Next]_vars PROVE IInv'
  OBVIOUS
<1>1. TypeOK'
  BY TypeStep DEF IInv
<1>2. \A c \in Clients : InOrder(c)'
  BY <1>1, InOrderStep
<1>3. QED
  BY <1>1, <1>2, OneSnapshotStep, SavedStep, LoadsStep DEF IInv

LEMMA Invariance == Spec => []IInv
BY InitIInv, NextIInv, PTL DEF Spec

(* The types of the store's state and its clients', and that a client at   *)
(* work is at one of its revisions with the earlier ones at hand.          *)
THEOREM TypeCorrect == Spec => []TypeOK
<1>1. IInv => TypeOK
  BY DEF IInv
<1>2. QED
  BY <1>1, Invariance, PTL

(* However many clients save the same revision at once, and whichever of   *)
(* them die, one header wins and everything stored is its own.             *)
THEOREM OneSnapshot == Spec => []OneSnapshotPerRevision
<1>1. IInv => OneSnapshotPerRevision
  BY DEF IInv
<1>2. QED
  BY <1>1, Invariance, PTL

(* save() returning True means that all of the snapshot is stored.         *)
THEOREM SavedTrueIsComplete == Spec => []SavedIsComplete
<1>1. IInv => SavedIsComplete
  BY DEF IInv
<1>2. QED
  BY <1>1, Invariance, PTL

(* What load() returns, read in three transactions, is of one save of the  *)
(* revision that was asked for.                                            *)
THEOREM LoadsNeverMix == Spec => []LoadsAreFromOneSave
<1>1. IInv => LoadsAreFromOneSave
  BY DEF IInv
<1>2. QED
  BY <1>1, Invariance, PTL

-----------------------------------------------------------------------------
(***************************************************************************)
(* The refinement: creating a header publishes, an answer answers, and     *)
(* every other step is a stutter or forgets the last answer.               *)
(***************************************************************************)

(* The register's content is what the one header of a revision says. *)
LEMMA StoredIs ==
    ASSUME IInv, NEW r \in Revisions
    PROVE  /\ Under(headers, r) = {} => Stored[r] = NoFacts
           /\ \A h \in Under(headers, r) : Stored[r] = FactsOf(h) /\ FactsOf(h) \in Facts
<1>1. Under(headers, r) = {} => Stored[r] = NoFacts
  BY DEF Stored
<1>2. ASSUME NEW h \in Under(headers, r) PROVE Stored[r] = FactsOf(h) /\ FactsOf(h) \in Facts
  <2>1. h \in headers /\ h.revision = r
    BY DEF Under
  <2>2. (CHOOSE g \in headers : g.revision = r) = h
    BY <2>1 DEF IInv, OneSnapshotPerRevision
  <2>3. FactsOf(h) \in Facts
    BY <2>1, NodeFacts DEF IInv, TypeOK
  <2>4. QED
    BY <2>2, <2>3 DEF Stored
<1>3. QED
  BY <1>1, <1>2

LEMMA InitRegister == Init => Register!Init
BY DEF Init, Register!Init, Stored, Under, NoReply, Register!NoReply

(* An answer that holds is a step of the register. *)
LEMMA AnswerStep ==
    ASSUME IInv, NEW c \in Clients, pc[c] # "idle", NEW answer \in Answers,
           NEW facts \in Facts \cup {NoFacts}, Reply(c, answer, facts), UNCHANGED headers,
           Register!Holds(answer, Revision(c), facts)
    PROVE  Register!Next
<1> DEFINE a == [answer |-> answer, revision |-> Revision(c), facts |-> facts]
<1>1. a \in Register!Replies
  BY AtWork DEF IInv, Register!Replies, Register!Answers, Answers
<1>2. Register!Holds(a.answer, a.revision, a.facts)
  OBVIOUS
<1>3. reply' = [reply EXCEPT ![c] = a]
  BY DEF Reply
<1>4. Stored' = Stored
  BY DEF Stored, Under, FactsOf
<1>5. Register!Answer(c, a)
  BY <1>2, <1>3, <1>4 DEF Register!Answer
<1>6. QED
  BY <1>1, <1>5 DEF Register!Next

LEMMA NextRegister == IInv /\ [Next]_vars => [Register!Next]_<<Stored, reply>>
<1> SUFFICES ASSUME IInv, [Next]_vars PROVE Register!Next \/ UNCHANGED <<Stored, reply>>
  OBVIOUS
<1>1. headers' = headers => Stored' = Stored
  BY DEF Stored, Under, FactsOf
<1>2. CASE UNCHANGED <<headers, reply>>
  BY <1>1, <1>2
<1>3. ASSUME NEW c \in Clients, Begin(c) \/ Fail(c) PROVE Register!Next
  <2>1. reply' = [reply EXCEPT ![c] = NoReply] /\ headers' = headers
    BY <1>3 DEF Begin, Fail, database
  <2>2. Register!Forget(c)
    BY <1>1, <2>1 DEF Register!Forget, NoReply, Register!NoReply
  <2>3. QED
    BY <2>2 DEF Register!Next
<1>4. ASSUME NEW c \in Clients, LoadHeader(c), reply' # reply PROVE Register!Next
  <2>1. /\ pc[c] # "idle" /\ Under(headers, Revision(c)) = {} /\ Reply(c, "absent", NoFacts)
        /\ headers' = headers
    BY <1>4 DEF LoadHeader, database
  <2>2. Stored[Revision(c)] = NoFacts
    BY <2>1, AtWork, StoredIs DEF IInv
  <2>3. QED
    BY <2>1, <2>2, AnswerStep DEF Register!Holds, Answers
<1>5. ASSUME NEW c \in Clients, LoadEdges(c) PROVE Register!Next
  <2>1. pc[c] = "loadEdges" /\ headers' = headers /\ Reply(c, "loaded", reading[c].facts)
    BY <1>5 DEF LoadEdges, database, IInv, TypeOK, Snapshots
  <2>2. PICK h \in Under(headers, Revision(c)) : FactsOf(h) = reading[c].facts
    BY <2>1 DEF IInv, InOrder
  <2>3. Stored[Revision(c)] = reading[c].facts /\ reading[c].facts \in Facts
    BY <2>1, <2>2, AtWork, StoredIs DEF IInv
  <2>4. Register!Holds("loaded", Revision(c), reading[c].facts)
    BY <2>3, FactsAssumption DEF Register!Holds
  <2>5. QED
    BY <2>1, <2>3, <2>4, AnswerStep DEF Answers
<1>6. ASSUME NEW c \in Clients, CheckStored(c), reply' # reply PROVE Register!Next
  <2>1. pc[c] # "idle" /\ headers' = headers
    BY <1>6 DEF CheckStored, database
  <2>2. PICK h \in Under(headers, Revision(c)) :
            \/ SameContent(h, c) /\ Reply(c, "identical", Own(c))
            \/ ~SameContent(h, c) /\ Reply(c, "conflict", Own(c))
    BY <1>6 DEF CheckStored, Saved
  <2>3. /\ Stored[Revision(c)] = FactsOf(h) /\ FactsOf(h) \in Facts
        /\ Own(c) \in Facts /\ Revision(c) \in Revisions
    BY <2>1, <2>2, AtWork, StoredIs DEF IInv
  <2>4. CASE SameContent(h, c) /\ Reply(c, "identical", Own(c))
    <3>1. Register!Holds("identical", Revision(c), Own(c))
      BY <2>3, <2>4, FactsAssumption DEF Register!Holds, SameContent
    <3>2. QED
      BY <2>1, <2>3, <2>4, <3>1, AnswerStep DEF Answers
  <2>5. CASE ~SameContent(h, c) /\ Reply(c, "conflict", Own(c))
    <3>1. Register!Holds("conflict", Revision(c), Own(c))
      BY <2>3, <2>5, FactsAssumption DEF Register!Holds, SameContent
    <3>2. QED
      BY <2>1, <2>3, <2>5, <3>1, AnswerStep DEF Answers
  <2>6. QED
    BY <2>2, <2>4, <2>5
<1>7. ASSUME NEW c \in Clients, CreateHeader(c) PROVE Register!Next
  <2>1. pc[c] = "header"
    BY <1>7 DEF CreateHeader
  <2>2. Revision(c) \in Revisions /\ Own(c) \in Facts /\ Node(c).revision = Revision(c)
    BY <2>1, AtWork DEF IInv, Node
  <2>3. CASE Refused(c) /\ Reply(c, "taken", Own(c)) /\ UNCHANGED headers
    <3>1. Stored[Revision(c)] \in Facts
      BY <2>2, <2>3, StoredIs DEF Refused
    <3>2. Register!Holds("taken", Revision(c), Own(c))
      BY <3>1, FactsAssumption DEF Register!Holds
    <3>3. QED
      BY <2>1, <2>2, <2>3, <3>2, AnswerStep DEF Answers
  <2>4. CASE ~Refused(c) /\ headers' = headers \cup {Node(c)} /\ UNCHANGED reply
    <3>1. Under(headers, Revision(c)) = {}
      BY <2>1, <2>4 DEF IInv, InOrder, Refused
    <3>2. Stored[Revision(c)] = NoFacts
      BY <2>2, <3>1, StoredIs
    <3>3. \A r \in Revisions \ {Revision(c)} : Stored'[r] = Stored[r]
      <4>1. TAKE r \in Revisions \ {Revision(c)}
      <4>2. Under(headers', r) = Under(headers, r)
        BY <2>2, <2>4 DEF Under
      <4>3. (CHOOSE h \in headers' : h.revision = r) = (CHOOSE h \in headers : h.revision = r)
        BY <2>2, <2>4
      <4>4. Stored[r] = IF Under(headers, r) = {} THEN NoFacts
                        ELSE FactsOf(CHOOSE h \in headers : h.revision = r)
        BY DEF Stored
      <4>5. Stored'[r] = IF Under(headers', r) = {} THEN NoFacts
                         ELSE FactsOf(CHOOSE h \in headers' : h.revision = r)
        BY DEF Stored, Under, FactsOf
      <4>6. QED
        BY <4>2, <4>3, <4>4, <4>5
    <3>4. Stored'[Revision(c)] = Own(c)
      <4>1. Node(c) \in headers' /\ Node(c) \in Under(headers', Revision(c))
        BY <2>2, <2>4 DEF Under
      <4>2. \A h \in headers' : h.revision = Revision(c) => h = Node(c)
        BY <2>4, <3>1 DEF Under
      <4>3. (CHOOSE h \in headers' : h.revision = Revision(c)) = Node(c)
        BY <2>2, <4>1, <4>2
      <4>4. QED
        BY <2>2, <4>1, <4>3 DEF Stored, Own, FactsOf
    <3>5. Stored' = [Stored EXCEPT ![Revision(c)] = Own(c)]
      <4>1. Stored = [r \in Revisions |-> Stored[r]]
        BY DEF Stored
      <4>2. Stored' = [r \in Revisions |-> Stored'[r]]
        BY DEF Stored
      <4>3. QED
        BY <2>2, <3>3, <3>4, <4>1, <4>2
    <3>6. Register!Publish(c, Revision(c), Own(c))
      BY <2>4, <3>2, <3>5 DEF Register!Publish
    <3>7. QED
      BY <2>2, <3>6 DEF Register!Next
  <2>5. QED
    BY <1>7, <2>3, <2>4 DEF CreateHeader
<1>8. ASSUME NEW c \in Clients, CreateEntities(c) \/ CreateEdges(c), reply' # reply
      PROVE  Register!Next
  <2>1. /\ pc[c] # "idle" /\ headers' = headers /\ Reply(c, "stored", Own(c))
        /\ Node(c) \in headers
    BY <1>8 DEF CreateEntities, CreateEdges, Saved, IInv, InOrder
  <2>2. Node(c) \in Under(headers, Revision(c))
    BY <2>1 DEF Under, Node
  <2>3. Revision(c) \in Revisions /\ Own(c) \in Facts
    BY <2>1, AtWork DEF IInv
  <2>4. Stored[Revision(c)] = Own(c)
    BY <2>2, <2>3, StoredIs DEF Own
  <2>5. Register!Holds("stored", Revision(c), Own(c))
    BY <2>3, <2>4, FactsAssumption DEF Register!Holds
  <2>6. QED
    BY <2>1, <2>3, <2>5, AnswerStep DEF Answers
<1>9. ASSUME NEW c \in Clients, LoadEntities(c) \/ EnsureSchema(c)
      PROVE  UNCHANGED <<headers, reply>>
  BY <1>9 DEF LoadEntities, EnsureSchema, database
<1>10. ASSUME NEW c \in Clients, LoadHeader(c) \/ CheckStored(c) \/ CreateEntities(c)
              \/ CreateEdges(c)
       PROVE  headers' = headers
  BY <1>10 DEF LoadHeader, CheckStored, CreateEntities, CreateEdges, database
<1>11. QED
  BY <1>2, <1>3, <1>4, <1>5, <1>6, <1>7, <1>8, <1>9, <1>10 DEF Next, Call, vars, database

(* The store implements the write-once register for any number of clients: *)
(* facts never change once published, and every answer is true of the      *)
(* register at the moment it is given.                                     *)
THEOREM StoreImplementsRegister == Spec => ImplementsRegister
<1>1. Init => Register!Init
  BY InitRegister
<1>2. IInv /\ [Next]_vars => [Register!Next]_<<Stored, reply>>
  BY NextRegister
<1>3. QED
  BY <1>1, <1>2, Invariance, PTL DEF Spec, ImplementsRegister, Register!Spec
=============================================================================
