---------------------------- MODULE SnapshotStore ----------------------------
(***************************************************************************)
(* ArchitectureSnapshotStore (store.py) and the clients that use it:       *)
(* snapshot_of in detect_architecture_changes loads a revision and, when   *)
(* nothing is stored, builds and saves it; other callers save directly.    *)
(*                                                                         *)
(* save() is up to three writes and load() three reads, each a transaction *)
(* of its own (Neo4jConnection.execute_write, execute_read), so any step   *)
(* of another client, or the end of this one, may come in between.         *)
(***************************************************************************)
EXTENDS Naturals, Sequences, FiniteSets

CONSTANTS
    Clients,      \* processes with a store of their own, on one database
    Revisions,    \* snapshot ids: repository@commit
    Facts,        \* contents of a snapshot; equal hashes are equal contents
    NoFacts,      \* no snapshot: what load() returns when nothing is stored
    HasEdges,     \* the contents with at least one relationship
    Built,        \* what build_snapshot makes of a revision, per client: clients
                  \* may differ in service_name, known_services and extractors
    Jobs          \* what a client may set out to do

ASSUME FactsAssumption ==
    /\ NoFacts \notin Facts
    /\ HasEdges \subseteq Facts
    /\ Built \in [Clients -> [Revisions -> Facts]]

(* A job loads each of its revisions before it saves (snapshot_of), or     *)
(* only saves.  "faults" is not of the code: while a client is at this job *)
(* its calls to the database may fail and its process may die.             *)
ASSUME JobsAssumption ==
    /\ Jobs \subseteq [loads : BOOLEAN, revisions : Seq(Revisions), faults : BOOLEAN]
    /\ \A job \in Jobs : job.revisions # <<>>

VARIABLES
    unique,     \* the uniqueness constraint on ArchitectureSnapshot.id exists
    headers,    \* the ArchitectureSnapshot nodes
    entities,   \* the ArchitectureEntity nodes, those of one save as one
    edges,      \* the ARCHITECTURE_RELATIONSHIPs, those of one save as one
    pc,         \* the database call each client is about to make
    job,        \* what it set out to do
    at,         \* the position in job.revisions
    ready,      \* _schema_ready of its store
    reading,    \* the snapshot load() is putting together
    got,        \* the snapshots the job has so far, in the order of job.revisions
    reply       \* what save() or load() last returned or raised

database == <<unique, headers, entities, edges>>
vars == <<database, pc, job, at, ready, reading, got, reply>>

NoReply == [answer |-> "none"]
Answers == {"stored", "identical", "conflict", "taken", "loaded", "absent"}
ReplyType == [answer : Answers, revision : Revisions, facts : Facts \cup {NoFacts}]
NoJob == [loads |-> FALSE, revisions |-> <<>>, faults |-> FALSE]
Steps == {"idle", "loadHeader", "loadEntities", "loadEdges", "schema", "check", "header",
          "entities", "edges"}

(* What is in the database carries its snapshot_id and who saved it. *)
Nodes == [by : Clients, revision : Revisions]
FactsOf(node) == Built[node.by][node.revision]

(* Variant: a query without its filter on snapshot_id. *)
Everywhere(nodes, r) == nodes
Under(nodes, r) == {n \in nodes : n.revision = r}

(* A snapshot in memory: the facts its header or its builder stands for,   *)
(* and the entities and relationships that came with it.                   *)
Snapshot(facts, nodes, rels) == [facts |-> facts, entities |-> nodes, edges |-> rels]
Snapshots == [facts : Facts \cup {NoFacts}, entities : SUBSET Nodes, edges : SUBSET Nodes]
NoSnapshot == Snapshot(NoFacts, {}, {})

Revision(c) == job[c].revisions[at[c]]
Node(c) == [by |-> c, revision |-> Revision(c)]
Own(c) == FactsOf(Node(c))

Init ==
    /\ unique = FALSE
    /\ headers = {} /\ entities = {} /\ edges = {}
    /\ pc = [c \in Clients |-> "idle"]
    /\ job = [c \in Clients |-> NoJob]
    /\ at = [c \in Clients |-> 1]
    /\ ready = [c \in Clients |-> FALSE]
    /\ reading = [c \in Clients |-> NoSnapshot]
    /\ got = [c \in Clients |-> <<>>]
    /\ reply = [c \in Clients |-> NoReply]

-----------------------------------------------------------------------------
Goto(c, label) == pc' = [pc EXCEPT ![c] = label]

Reply(c, answer, facts) ==
    reply' = [reply EXCEPT ![c] = [answer |-> answer, revision |-> Revision(c), facts |-> facts]]

(* save() begins with ensure_schema, which does nothing the second time. *)
BeginSave(c) == Goto(c, IF ready[c] THEN "check" ELSE "schema")

(* Variant: the loop runs one revision too far. *)
PastLastRevision(c) == at[c] > Len(job[c].revisions)
LastRevision(c) == at[c] = Len(job[c].revisions)

(* The snapshot of this revision is at hand: on to the next, or the end. *)
Obtained(c, snapshot) ==
    /\ got' = [got EXCEPT ![c] = Append(@, snapshot)]
    /\ IF LastRevision(c)
       THEN Goto(c, "idle") /\ UNCHANGED at
       ELSE /\ at' = [at EXCEPT ![c] = @ + 1]
            /\ IF job[c].loads THEN Goto(c, "loadHeader") ELSE BeginSave(c)

(* Variant: relationships are never written. *)
NoRelationships(c) == FALSE
HasRelationships(c) == Own(c) \in HasEdges

(* save() returned: the caller goes on with the snapshot it built. *)
Saved(c, answer) ==
    /\ Reply(c, answer, Own(c))
    /\ Obtained(c, Snapshot(Own(c), {Node(c)}, IF HasRelationships(c) THEN {Node(c)} ELSE {}))

(* An exception ends the job. *)
Raise(c) == Goto(c, "idle") /\ UNCHANGED <<at, got>>

Begin(c) ==
    /\ pc[c] = "idle"
    /\ \E j \in Jobs :
          /\ job' = [job EXCEPT ![c] = j]
          /\ IF j.loads THEN Goto(c, "loadHeader") ELSE BeginSave(c)
    /\ at' = [at EXCEPT ![c] = 1]
    /\ got' = [got EXCEPT ![c] = <<>>]
    /\ reply' = [reply EXCEPT ![c] = NoReply]
    /\ UNCHANGED <<database, ready, reading>>

-----------------------------------------------------------------------------
(* load(): header, entities, relationships.  Without a header snapshot_of  *)
(* builds the revision, which reads Git only, and saves it.                *)
LoadHeader(c) ==
    /\ pc[c] = "loadHeader"
    /\ \/ /\ Under(headers, Revision(c)) = {}
          /\ BeginSave(c)
          /\ Reply(c, "absent", NoFacts)
          /\ UNCHANGED reading
       \/ /\ \E h \in Under(headers, Revision(c)) :
                reading' = [reading EXCEPT ![c] = Snapshot(FactsOf(h), {}, {})]
          /\ Goto(c, "loadEntities")
          /\ UNCHANGED reply
    /\ UNCHANGED <<database, job, at, ready, got>>

LoadEntities(c) ==
    /\ pc[c] = "loadEntities"
    /\ reading' = [reading EXCEPT ![c].entities = Under(entities, Revision(c))]
    /\ Goto(c, "loadEdges")
    /\ UNCHANGED <<database, job, at, ready, got, reply>>

LoadEdges(c) ==
    /\ pc[c] = "loadEdges"
    /\ LET snapshot == [reading[c] EXCEPT !.edges = Under(edges, Revision(c))] IN
          /\ Reply(c, "loaded", snapshot.facts)
          /\ Obtained(c, snapshot)
    /\ reading' = [reading EXCEPT ![c] = NoSnapshot]
    /\ UNCHANGED <<database, job, ready>>

-----------------------------------------------------------------------------
(* save().  CREATE CONSTRAINT ... IF NOT EXISTS. *)
EnsureSchema(c) ==
    /\ pc[c] = "schema"
    /\ unique' = TRUE
    /\ ready' = [ready EXCEPT ![c] = TRUE]
    /\ Goto(c, "check")
    /\ UNCHANGED <<headers, entities, edges, job, at, reading, got, reply>>

(* Variant: only the revision is compared. *)
SameRevision(node, c) == TRUE
SameContent(node, c) == FactsOf(node) = Own(c)

CheckStored(c) ==
    /\ pc[c] = "check"
    /\ \/ /\ Under(headers, Revision(c)) = {}
          /\ Goto(c, "header")
          /\ UNCHANGED <<at, got, reply>>
       \/ \E h \in Under(headers, Revision(c)) :
             \/ SameContent(h, c) /\ Saved(c, "identical")
             \/ ~SameContent(h, c) /\ Reply(c, "conflict", Own(c)) /\ Raise(c)
    /\ UNCHANGED <<database, job, ready, reading>>

(* Variant: nothing keeps a second header of a revision out. *)
NeverRefused(c) == FALSE
Refused(c) == unique /\ Under(headers, Revision(c)) # {}

CreateHeader(c) ==
    /\ pc[c] = "header"
    /\ \/ /\ Refused(c)
          /\ Reply(c, "taken", Own(c))
          /\ Raise(c)
          /\ UNCHANGED headers
       \/ /\ ~Refused(c)
          /\ headers' = headers \cup {Node(c)}
          /\ Goto(c, "entities")
          /\ UNCHANGED <<at, got, reply>>
    /\ UNCHANGED <<unique, entities, edges, job, ready, reading>>

(* MATCH the header, then CREATE: no header, no entities.  A snapshot      *)
(* always has an entity, its own service.                                  *)
CreateEntities(c) ==
    /\ pc[c] = "entities"
    /\ entities' = IF Under(headers, Revision(c)) = {} THEN entities ELSE entities \cup {Node(c)}
    /\ IF HasRelationships(c)
       THEN Goto(c, "edges") /\ UNCHANGED <<at, got, reply>>
       ELSE Saved(c, "stored")
    /\ UNCHANGED <<unique, headers, edges, job, ready, reading>>

(* MATCH both ends, then CREATE: no entities, no relationships. *)
CreateEdges(c) ==
    /\ pc[c] = "edges"
    /\ edges' = IF Under(entities, Revision(c)) = {} THEN edges ELSE edges \cup {Node(c)}
    /\ Saved(c, "stored")
    /\ UNCHANGED <<unique, headers, entities, job, ready, reading>>

-----------------------------------------------------------------------------
(* The call a client is about to make raises without having had its        *)
(* effect, or the process ends before it: what was written stays.  A call  *)
(* that raises after its effect leaves the database as the call followed   *)
(* by this does.                                                           *)
Fail(c) ==
    /\ pc[c] # "idle" /\ job[c].faults
    /\ Raise(c)
    /\ ready' \in {ready, [ready EXCEPT ![c] = FALSE]}
    /\ reading' = [reading EXCEPT ![c] = NoSnapshot]
    /\ reply' = [reply EXCEPT ![c] = NoReply]
    /\ UNCHANGED <<database, job>>

Call(c) == \/ LoadHeader(c) \/ LoadEntities(c) \/ LoadEdges(c)
           \/ EnsureSchema(c) \/ CheckStored(c)
           \/ CreateHeader(c) \/ CreateEntities(c) \/ CreateEdges(c)

Next == \E c \in Clients : Begin(c) \/ Call(c) \/ Fail(c)

Spec == Init /\ [][Next]_vars

(* A call to the database returns or raises; nobody has to begin a job. *)
FairSpec == Spec /\ \A c \in Clients : WF_vars(Call(c))

-----------------------------------------------------------------------------
(* The whole of a snapshot is in the database. *)
Complete(node) ==
    node \in headers /\ node \in entities /\ (FactsOf(node) \in HasEdges => node \in edges)

(* The database and the clients are of the types the code gives them, and  *)
(* a client at work is at one of its revisions, the earlier ones at hand.  *)
TypeOK ==
    /\ unique \in BOOLEAN
    /\ headers \subseteq Nodes /\ entities \subseteq Nodes /\ edges \subseteq Nodes
    /\ pc \in [Clients -> Steps]
    /\ job \in [Clients -> Jobs \cup {NoJob}]
    /\ at \in [Clients -> Nat \ {0}]
    /\ ready \in [Clients -> BOOLEAN]
    /\ reading \in [Clients -> Snapshots]
    /\ got \in [Clients -> Seq(Snapshots)]
    /\ reply \in [Clients -> ReplyType \cup {NoReply}]
    /\ \A c \in Clients : pc[c] # "idle" => /\ job[c] \in Jobs
                                           /\ at[c] <= Len(job[c].revisions)
                                           /\ Len(got[c]) = at[c] - 1

(* One snapshot per revision, whoever saves it: a second header is never   *)
(* created, and entities and relationships are those of the header, so     *)
(* that two savers, or two revisions, are never mixed.                     *)
OneSnapshotPerRevision ==
    /\ \A h1, h2 \in headers : h1.revision = h2.revision => h1 = h2
    /\ edges \subseteq entities /\ entities \subseteq headers

(* When save() has returned True, all of the snapshot is stored.           *)
SavedIsComplete ==
    \A c \in Clients :
        reply[c].answer = "stored" => Complete([by |-> c, revision |-> reply[c].revision])

(* What load() puts together from its three reads is never a mixture: all  *)
(* of it was saved together, under the revision that was asked for.        *)
LoadsAreFromOneSave ==
    \A c \in Clients : \A i \in DOMAIN got[c] :
        \A n \in got[c][i].entities \cup got[c][i].edges :
            n.revision = job[c].revisions[i] /\ FactsOf(n) = got[c][i].facts

(* What the header of a revision says is stored: the register's content. *)
Stored == [r \in Revisions |->
              IF Under(headers, r) = {} THEN NoFacts
              ELSE FactsOf(CHOOSE h \in headers : h.revision = r)]

Register == INSTANCE SnapshotRegister WITH stored <- Stored

(* The store implements the write-once register: three separate writes     *)
(* and checks made before them, and still a revision's facts never change  *)
(* and every answer of save() and load() is true when it is given.         *)
ImplementsRegister == Register!Spec

(* A snapshot whose header was written by a client that does not fail      *)
(* becomes complete, whatever the others do and however they end.          *)
Saving(n) == pc[n.by] \in {"entities", "edges"} /\ Node(n.by) = n /\ ~job[n.by].faults
SavesComplete == \A n \in Nodes : (n \in headers /\ Saving(n)) ~> Complete(n)

-----------------------------------------------------------------------------
(* What a docstring says and the code does not do.                         *)

(* store.py: save() returns False "when the identical snapshot was already *)
(* there".  Its header may be all there is of it.                          *)
IdenticalIsThere ==
    \A c \in Clients : reply[c].answer = "identical" =>
        \E n \in headers : /\ n.revision = reply[c].revision
                           /\ FactsOf(n) = reply[c].facts /\ Complete(n)
=============================================================================
