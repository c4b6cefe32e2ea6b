---------------------------- MODULE GrowOnlyGraph ----------------------------
(***************************************************************************)
(* What ingestion promises the readers of the graph: nodes and             *)
(* relationships are only ever added, each out of the batch of a client    *)
(* still at work; a relationship is never there without both its ends; and *)
(* a client that was told its batch is in finds all of it there, for ever. *)
(***************************************************************************)
CONSTANT Clients

VARIABLES
    nodes,   \* the ids in the graph
    edges,   \* the relationships in the graph
    work,    \* the batch each client is merging
    told     \* the clients whose batch is said to be in

Closed(batch) == \A e \in batch.edges : {e.start, e.end} \subseteq batch.nodes

Init ==
    /\ nodes = {} /\ edges = {} /\ told = {}
    /\ work = [c \in Clients |-> [nodes |-> {}, edges |-> {}]]

Take(c) ==
    /\ Closed(work'[c])
    /\ work' = [work EXCEPT ![c] = work'[c]]
    /\ told' = told \ {c}
    /\ UNCHANGED <<nodes, edges>>

Add(c) ==
    /\ c \notin told
    /\ nodes \subseteq nodes' /\ nodes' \subseteq nodes \cup work[c].nodes
    /\ edges \subseteq edges' /\ edges' \subseteq edges \cup work[c].edges
    /\ \A e \in edges' \ edges : {e.start, e.end} \subseteq nodes'
    /\ UNCHANGED <<work, told>>

Tell(c) ==
    /\ work[c].nodes \subseteq nodes /\ work[c].edges \subseteq edges
    /\ told' = told \cup {c}
    /\ UNCHANGED <<nodes, edges, work>>

Next == \E c \in Clients : Take(c) \/ Add(c) \/ Tell(c)

Spec == Init /\ [][Next]_<<nodes, edges, work, told>>
=============================================================================
