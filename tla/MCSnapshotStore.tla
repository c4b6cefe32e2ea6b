--------------------------- MODULE MCSnapshotStore ---------------------------
(* Small instances of SnapshotStore for TLC.                               *)
EXTENDS SnapshotStore, TLC

CONSTANTS c1, c2, old, new

(* One client is configured differently for the newer revision.  The facts *)
(* of different revisions differ: the revision is part of the hash.        *)
Contents == {"old", "new", "newOther"}
WithEdges == {"old", "newOther"}
BuiltBy ==
    [c \in Clients |-> [r \in Revisions |->
        IF r = old THEN "old" ELSE IF c = c1 THEN "new" ELSE "newOther"]]

(* A comparison of two revisions, and a save of one, by clients that may   *)
(* fail; and a comparison by one that does not.                            *)
Comparison == [loads |-> TRUE, revisions |-> <<old, new>>, faults |-> TRUE]
DirectSave(r) == [loads |-> FALSE, revisions |-> <<r>>, faults |-> TRUE]
AllJobs == {Comparison, DirectSave(new), DirectSave(old), [Comparison EXCEPT !.faults = FALSE]}
=============================================================================
