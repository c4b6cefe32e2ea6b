----------------------------- MODULE ImpactRules -----------------------------
(***************************************************************************)
(* What the impact analysis computes from what it has read of the graph:   *)
(* the result of rca/call_graph.py and impact_analysis/code_graph.py as a  *)
(* caller graph, the routes and the capped collection of paths of          *)
(* impact_analysis/paths.py.                                               *)
(*                                                                         *)
(* A relationship is [start, type, end].  A path is a sequence of steps    *)
(* <<node, relationship>>, the changed code first with no relationship.    *)
(* Which routes a limit keeps depends on the order of the rows of a query, *)
(* so a limit takes one order here, and no property depends on which.      *)
(***************************************************************************)
EXTENDS Integers, Sequences, FiniteSetsExt

Step(node, type) == <<node, type>>
Terminal(path) == path[Len(path)][1]
Length(path) == Len(path) - 1
Shortest(paths) == Min({Length(p) : p \in paths})

(* The first "limit" of paths, in whatever order they come.                *)
AtMost(limit, paths) ==
    IF Cardinality(paths) <= limit THEN paths
    ELSE CHOOSE first \in SUBSET paths : Cardinality(first) = limit

-----------------------------------------------------------------------------
(* The caller graph.  "found" are the CALLS rows in the order of the       *)
(* levels they came with: [edge, depth].                                   *)
(* CallerGraph.depth: the first sighting of a caller.                      *)
DepthOf(start, found) ==
    [n \in {start} \cup {f.edge.start : f \in found} |->
        IF n = start THEN 0 ELSE Min({f.depth : f \in {g \in found : g.edge.start = n}})]

(* Variant: one way to the change is enough.                               *)
OnePredecessor(depth, found, n) ==
    LET closer == {f.edge.end : f \in {g \in found : g.edge.start = n /\ depth[n] = g.depth}}
    IN IF closer = {} THEN {} ELSE {CHOOSE p \in closer : TRUE}

(* CallerGraph.predecessors: only one level closer to the changed code.    *)
Predecessors(depth, found, n) ==
    {f.edge.end : f \in {g \in found : /\ g.edge.start = n
                                       /\ depth[n] = g.depth
                                       /\ depth[g.edge.end] = g.depth - 1}}

(* enumerate_chains, with all the chains at their limit.                   *)
Chains(start, depth, found, limit) ==
    LET chains[n \in DOMAIN depth] ==
            IF n = start THEN {<<Step(start, "none")>>}
            ELSE AtMost(limit, {Append(c, Step(n, "CALLS")) :
                                   c \in UNION {chains[p] : p \in Predecessors(depth, found, n)}})
    IN chains

(* Its "truncated": some node on the way had more than the limit.          *)
ChainsTruncated(start, depth, found, limit) ==
    LET chains == Chains(start, depth, found, limit)
    IN \E n \in DOMAIN depth \ {start} :
           Cardinality(UNION {chains[p] : p \in Predecessors(depth, found, n)}) > limit

-----------------------------------------------------------------------------
(* PathCollector: of the offered [category, path] at most "cap" are kept   *)
(* of each terminal in a category.                                         *)
Key(entry) == <<entry.category, Terminal(entry.path)>>
Under(entries, key) == {e \in entries : Key(e) = key}
Keys(entries) == {Key(e) : e \in entries}

Add(kept, offers, cap) ==
    kept \cup UNION {AtMost(cap - Cardinality(Under(kept, key)), Under(offers \ kept, key)) :
                        key \in Keys(offers)}

(* capped_terminals: a new path came to a full bucket.                     *)
Caps(kept, offers, cap) == \E key \in Keys(offers) : Cardinality(Under(kept \cup offers, key)) > cap

(* The items for which paths were offered, at their shortest.              *)
ItemsOf(offers) ==
    {[category |-> key[1], id |-> key[2], depth |-> Shortest({o.path : o \in Under(offers, key)})] :
        key \in Keys(offers)}

(* dict.update, of routes by node.                                         *)
Updated(routes, new) ==
    [n \in DOMAIN routes \cup DOMAIN new |-> IF n \in DOMAIN new THEN new[n] ELSE routes[n]]

(* One more step for each of the routes, and routes offered as paths.      *)
Extend(paths, node, type) == {Append(p, Step(node, type)) : p \in paths}
Offer(paths, category) == {[category |-> category, path |-> p] : p \in paths}
=============================================================================
