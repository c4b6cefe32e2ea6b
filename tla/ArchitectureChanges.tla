------------------------- MODULE ArchitectureChanges -------------------------
(***************************************************************************)
(* detect_architecture_changes (architecture/analyzer.py): two revisions   *)
(* are resolved, a snapshot of each is taken from the store or built       *)
(* extractor by extractor and stored, and the two are compared by the diff *)
(* engine (architecture/diff.py).  Several comparisons share one store;    *)
(* each call says which service this repository is and which others it     *)
(* knows of, and the store is not told either.                             *)
(*                                                                         *)
(* A snapshot is stored by three writes.  A call that raises in between    *)
(* leaves the first of them, and a later call takes what is there for the  *)
(* snapshot.  Calls follow one another: SnapshotStore has them at once.    *)
(***************************************************************************)
EXTENDS ArchitectureFacts

CONSTANTS
    Revisions,       \* the commits of the repository
    Trees,           \* what they may hold: sequences of files, by path
    Contexts,        \* what a call may say: [service, known]
    Missing,         \* a revision the repository does not have
    None,            \* nothing built, stored or answered
    MaxCalls         \* bound: comparisons

(* A file is taken by one extractor, which finds in it what it looks for.  *)
ASSUME TreesAssumption ==
    \A files \in Trees : \A file \in Elements(files) :
        /\ file.kind \in Elements(Extractors)
        /\ file.path # NoFile
        /\ file.kind # "code" => Items(file, "route") = {}
        /\ \A i \in Items(file, "declares") : <<i.rel, i.type>> \in Declarable

ASSUME CallsAssumption == MaxCalls \in Nat

VARIABLES
    tree,       \* what each revision holds
    store,      \* what is kept of each revision's snapshot, or None
    writes,     \* how many of its writes were made
    call,       \* the comparison being made, or None
    done,       \* the snapshots it has got so far: previous first
    draft,      \* the snapshot being built, or None
    next,       \* the extractor that comes next
    result,     \* the last answer, or None
    calls       \* comparisons started

vars == <<tree, store, writes, call, done, draft, next, result, calls>>

-----------------------------------------------------------------------------
(* The diff.  A change is [change, was, about, category, files]; was and   *)
(* about are the fact before and after, the same one unless an API moved.  *)
HandlerOf(snapshot, api) ==
    IF \E h \in snapshot.handlers : h.api = api
    THEN (CHOOSE h \in snapshot.handlers : h.api = api).handler ELSE "none"

Apis(entities) == {e \in entities : e.type = "API"}
Reported(entities) == {e \in entities : e.type # "DEPENDENCY"}

(* Variant: two APIs of one handler are paired at a guess.                 *)
PairedByGuess(prev, cur) ==
    {p \in Apis(Facts(prev.entities) \ Facts(cur.entities))
           \X Apis(Facts(cur.entities) \ Facts(prev.entities)) :
        /\ HandlerOf(prev, p[1]) # "none"
        /\ HandlerOf(prev, p[1]) = HandlerOf(cur, p[2])
        /\ p[1].method = p[2].method <=> p[1].name # p[2].name}

(* _pair_apis: exactly one API gone and one come with the same handler, of *)
(* which only the method or only the path differs.                         *)
PairedApis(prev, cur) ==
    LET gone == Apis(Facts(prev.entities) \ Facts(cur.entities))
        come == Apis(Facts(cur.entities) \ Facts(prev.entities))
    IN {p \in gone \X come :
          LET handler == HandlerOf(prev, p[1]) IN
          /\ handler # "none"
          /\ {a \in gone : HandlerOf(prev, a) = handler} = {p[1]}
          /\ {a \in come : HandlerOf(cur, a) = handler} = {p[2]}
          /\ p[1].method = p[2].method <=> p[1].name # p[2].name}

Change(kind, was, about, category, files) ==
    [change |-> kind, was |-> was, about |-> about, category |-> category, files |-> files]

PairedChanges(prev, cur) ==
    {Change("MODIFIED", p[1], p[2],
            IF p[1].method = p[2].method THEN <<"API_PATH", "CHANGED">> ELSE <<"API_METHOD", "CHANGED">>,
            Files(prev.entities, p[1]) \cup Files(cur.entities, p[2])) : p \in PairedApis(prev, cur)}

(* A library is told of by its relationship, never alone.                  *)
EntityChanges(prev, cur) ==
    LET pairs == PairedApis(prev, cur)
        before == Reported(Facts(prev.entities))
        after == Reported(Facts(cur.entities))
    IN {Change("ADDED", e, e, <<e.type, "ADDED">>, Files(cur.entities, e)) :
            e \in (after \ before) \ {p[2] : p \in pairs}}
       \cup {Change("REMOVED", e, e, <<e.type, "REMOVED">>, Files(prev.entities, e)) :
            e \in (before \ after) \ {p[1] : p \in pairs}}
       \cup {Change("MODIFIED", e, e, <<"ENTITY", "MODIFIED">>, Files(prev.entities, e) \cup Files(cur.entities, e)) :
            e \in {f \in before \cap after : Values(prev.entities, f) # Values(cur.entities, f)}}

(* _classify.                                                              *)
EdgeCategory(edge, kind) ==
    CASE edge.rel = "EXPOSES" /\ edge.target.type = "API" -> <<"API_RELATIONSHIP", "CHANGED">>
      [] edge.rel = "PUBLISHES" -> <<"EVENT_PUBLISHER", "CHANGED">>
      [] edge.rel = "CONSUMES" -> <<"EVENT_CONSUMER", "CHANGED">>
      [] edge.rel = "ACCESSES" /\ edge.target.type \in {"DATABASE", "TABLE"} -> <<"DATABASE_ACCESS", kind>>
      [] edge.rel \in {"CALLS", "DEPENDS_ON"} /\ edge.target.type = "SERVICE" -> <<"SERVICE_RELATIONSHIP", kind>>
      [] edge.rel = "DEPENDS_ON" /\ edge.target.type = "DEPENDENCY" -> <<"DEPENDENCY", kind>>
      [] OTHER -> <<"RELATIONSHIP", kind>>

(* That an API is exposed goes without saying when the API comes or goes.  *)
Implied(edge, prev, cur) ==
    /\ edge.rel = "EXPOSES"
    /\ edge.target \in (Facts(prev.entities) \ Facts(cur.entities))
                       \cup (Facts(cur.entities) \ Facts(prev.entities))

EdgeChanges(prev, cur) ==
    LET before == Facts(prev.edges)
        after == Facts(cur.edges)
        ToLibrary(e) == e.rel = "DEPENDS_ON" /\ e.target.type = "DEPENDENCY"
    IN {Change("ADDED", e, e, EdgeCategory(e, "ADDED"), Files(cur.edges, e)) :
            e \in {f \in after \ before : ~Implied(f, prev, cur)}}
       \cup {Change("REMOVED", e, e, EdgeCategory(e, "REMOVED"), Files(prev.edges, e)) :
            e \in {f \in before \ after : ~Implied(f, prev, cur)}}
       \cup {Change("MODIFIED", e, e,
                    IF ToLibrary(e) THEN <<"DEPENDENCY_VERSION", "CHANGED">> ELSE <<"RELATIONSHIP", "MODIFIED">>,
                    Files(prev.edges, e) \cup Files(cur.edges, e)) :
            e \in {f \in before \cap after : Values(prev.edges, f) # Values(cur.edges, f)}}

(* Variant: the sides are mixed up.                                        *)
UnknownOnItsOwnSide(c, prev, cur) ==
    c.files \cap (CASE c.change = "ADDED" -> cur.blocked
                    [] c.change = "REMOVED" -> prev.blocked
                    [] c.change = "MODIFIED" -> prev.blocked \cup cur.blocked) # {}
(* Variant: a modified fact is only held back for the one side.            *)
UnknownBefore(c, prev, cur) ==
    c.files \cap (CASE c.change = "REMOVED" -> cur.blocked
                    [] OTHER -> prev.blocked) # {}

(* _unknown_because_unresolved: a file of its evidence was not understood  *)
(* on the side where the fact is missing, or on either.                    *)
Unknown(c, prev, cur) ==
    c.files \cap (CASE c.change = "ADDED" -> prev.blocked
                    [] c.change = "REMOVED" -> cur.blocked
                    [] c.change = "MODIFIED" -> prev.blocked \cup cur.blocked) # {}

Diff(prev, cur) ==
    LET all == PairedChanges(prev, cur) \cup EntityChanges(prev, cur) \cup EdgeChanges(prev, cur)
        unknown == {c \in all : Unknown(c, prev, cur)}
    IN [changes |-> all \ unknown, unknown |-> unknown]

-----------------------------------------------------------------------------
Init ==
    /\ tree \in [Revisions -> Trees]
    /\ store = [r \in Revisions |-> None]
    /\ writes = [r \in Revisions |-> 0]
    /\ call = None
    /\ done = <<>>
    /\ draft = None
    /\ next = 1
    /\ result = None
    /\ calls = 0

(* A call whose revisions do not both exist is unresolved at once.         *)
Detect(previous, current, context) ==
    /\ call = None
    /\ calls < MaxCalls
    /\ calls' = calls + 1
    /\ done' = <<>>
    /\ IF {previous, current} \subseteq Revisions
       THEN /\ call' = [revisions |-> <<previous, current>>, context |-> context]
            /\ result' = None
       ELSE /\ result' = [status |-> "UNRESOLVED", of |-> None, changes |-> {}, unknown |-> {}, blocked |-> {}]
            /\ UNCHANGED call
    /\ UNCHANGED <<tree, store, writes, draft, next>>

(* A snapshot of which only the first writes were made: the header with    *)
(* what is unresolved, the entities, the relationships.                    *)
Header == 1
EntitiesToo == 2
Whole == 3
Written(snapshot, n) ==
    [service |-> snapshot.service, blocked |-> snapshot.blocked,
     entities |-> IF n >= EntitiesToo THEN snapshot.entities ELSE {},
     handlers |-> IF n >= EntitiesToo THEN snapshot.handlers ELSE {},
     edges |-> IF n >= Whole THEN snapshot.edges ELSE {}]

Awaited == call.revisions[Len(done) + 1]
SnapshotIsDue == call # None /\ Len(done) < 2 /\ draft = None

(* snapshot_of: if there is a header, what is stored is used as it is,     *)
(* whole or not and whoever it was built for.                              *)
UseStored ==
    /\ SnapshotIsDue
    /\ writes[Awaited] >= Header
    /\ done' = Append(done, store[Awaited])
    /\ UNCHANGED <<tree, store, writes, call, draft, next, result, calls>>

StartSnapshot ==
    /\ SnapshotIsDue
    /\ writes[Awaited] < Header
    /\ draft' = EmptySnapshot(call.context.service)
    /\ next' = 1
    /\ UNCHANGED <<tree, store, writes, call, done, result, calls>>

RunExtractor ==
    /\ draft # None
    /\ next <= Len(Extractors)
    /\ draft' = Extract(draft, tree[Awaited], Extractors[next], call.context.known)
    /\ next' = next + 1
    /\ UNCHANGED <<tree, store, writes, call, done, result, calls>>

(* Without relationships there is no third write.                          *)
AfterWrite(n) == IF n = Header /\ draft.edges = {} THEN Whole ELSE n + 1

(* One write of save; after the last one the snapshot built is returned.   *)
SaveNextPart ==
    /\ draft # None
    /\ next > Len(Extractors)
    /\ writes' = [writes EXCEPT ![Awaited] = AfterWrite(@)]
    /\ store' = [store EXCEPT ![Awaited] = Written(draft, writes'[Awaited])]
    /\ IF writes'[Awaited] < Whole
       THEN UNCHANGED <<done, draft, next>>
       ELSE done' = Append(done, draft) /\ draft' = None /\ next' = 1
    /\ UNCHANGED <<tree, call, result, calls>>

(* The database, git or an extractor raises, and nobody catches it before  *)
(* the caller: what was written stays.                                     *)
Fail ==
    /\ call # None
    /\ call' = None
    /\ done' = <<>>
    /\ draft' = None
    /\ next' = 1
    /\ UNCHANGED <<tree, store, writes, result, calls>>

Compare ==
    /\ call # None
    /\ Len(done) = 2
    /\ LET diff == Diff(done[1], done[2]) IN
       result' = [status |-> IF diff.changes # {} THEN "CHANGES_DETECTED" ELSE "NO_CHANGES",
                  of |-> call, changes |-> diff.changes, unknown |-> diff.unknown,
                  blocked |-> done[1].blocked \cup done[2].blocked]
    /\ call' = None
    /\ UNCHANGED <<tree, store, writes, done, draft, next, calls>>

Next ==
    \/ \E previous, current \in Revisions \cup {Missing}, context \in Contexts :
          Detect(previous, current, context)
    \/ UseStored
    \/ StartSnapshot
    \/ RunExtractor
    \/ SaveNextPart
    \/ Fail
    \/ Compare

Spec == Init /\ [][Next]_vars

-----------------------------------------------------------------------------
(* Properties.                                                             *)

WellFormed(snapshot) ==
    /\ \A e \in Facts(snapshot.edges) : {e.source, e.target} \subseteq Facts(snapshot.entities)
    /\ \A g, h \in snapshot.handlers : g.api = h.api => g = h
    /\ \A h \in snapshot.handlers : h.api \in Facts(snapshot.entities)

(* Types; and every snapshot, finished or not and stored wholly or not, is *)
(* a graph: the ends of its relationships are there (add_relationship of   *)
(* the builder would raise KeyError) and an API is served by one handler.  *)
TypeOK ==
    /\ tree \in [Revisions -> Trees]
    /\ writes \in [Revisions -> 0 .. Whole]
    /\ next \in 1 .. Len(Extractors) + 1
    /\ calls \in 0 .. MaxCalls
    /\ \A s \in ({store[r] : r \in Revisions} \cup Elements(done) \cup {draft}) \ {None} : WellFormed(s)
    /\ result # None => result.status \in {"NO_CHANGES", "CHANGES_DETECTED", "UNRESOLVED"}

Answered == call = None /\ result # None /\ result.status # "UNRESOLVED"
Told == result.changes \cup result.unknown
Of(kind) == {c \in Told : c.change = kind}
Moved == {c \in Of("MODIFIED") : c.was # c.about}
Gone == {c.was : c \in Of("REMOVED") \cup Moved}
Come == {c.about : c \in Of("ADDED") \cup Moved}

(* The answer is complete: the changes, with those held back as unknown,   *)
(* are all that lies between the two snapshots as they were loaded or      *)
(* built.  Replayed on the facts of the previous one they give those of    *)
(* the current one; that an API is exposed goes without saying when it     *)
(* comes or goes, and of a snapshot whose last write is missing it is not  *)
(* so.  A library is told of by what depends on it.  A value that differs  *)
(* is told; no fact is in two changes.                                     *)
ChangesReplay ==
    Answered =>
        LET prev == done[1]
            cur == done[2]
            Exposures(s, facts) == {Edge("EXPOSES", Service(s.service), a) : a \in Apis(facts)}
            entities == (Reported(Facts(prev.entities)) \ Gone) \cup (Come \ Facts(cur.edges))
            edges == (Facts(prev.edges) \ (Gone \cup Exposures(prev, Gone \ Facts(prev.edges))))
                     \cup (Come \ Facts(cur.entities))
            exposed == Exposures(cur, Come \ Facts(cur.edges))
        IN /\ entities = Reported(Facts(cur.entities))
           /\ edges \ exposed = Facts(cur.edges) \ exposed
           /\ writes[result.of.revisions[2]] = Whole =>
                 /\ exposed \subseteq Facts(cur.edges)
                 /\ Facts(cur.entities) \ entities = {e.target : e \in Facts(cur.edges)} \ entities
           /\ \A f \in entities \cap Facts(prev.entities) :
                 Values(prev.entities, f) # Values(cur.entities, f) => \E c \in Of("MODIFIED") : c.about = f
           /\ \A f \in edges \cap Facts(prev.edges) :
                 Values(prev.edges, f) # Values(cur.edges, f) => \E c \in Of("MODIFIED") : c.about = f
           /\ result.changes \cap result.unknown = {}
           /\ \A c, d \in Told : {c.was, c.about} \cap {d.was, d.about} # {} => c = d

(* What some files of a revision state, whether or not they could be read  *)
(* then, to the service a snapshot was made for; calls of services are     *)
(* left out, they depend on what is known.                                 *)
Stated(files, paths, service) ==
    LET found == {SeenIn(f, {}, service) : f \in {g \in Elements(files) : g.path \in paths}}
    IN Entities(found) \cup Edges(found)

(* The write that a fact is part of; whether it was made.                  *)
WriteOf(fact) == IF "rel" \in DOMAIN fact THEN Whole ELSE EntitiesToo
WasWritten(revision, fact) == writes[revision] >= WriteOf(fact)

(* No noise (diff.py:14): a fact is not reported as added when a file it   *)
(* is now read from stated it before, nor as removed when one it was read  *)
(* from states it still, in spite of files that could not be read on one   *)
(* side and of snapshots that earlier calls stored for other services -    *)
(* unless the write that would have stored it on the side where it is      *)
(* missing was never made (analyzer.py:86-98).  Even then no fact is       *)
(* reported as modified when those files state the same values, and no API *)
(* as moved unless it is gone on the one side and new on the other.        *)
NothingInvented ==
    Answered =>
        LET revisions == result.of.revisions
        IN \A c \in result.changes :
              LET then == Stated(tree[revisions[1]], c.files, done[1].service)
                  now == Stated(tree[revisions[2]], c.files, done[2].service)
              IN /\ c \in Moved \/ (c \in Of("ADDED") /\ WasWritten(revisions[1], c.about))
                       => c.about \notin Facts(then)
                 /\ c \in Moved \/ (c \in Of("REMOVED") /\ WasWritten(revisions[2], c.was))
                       => c.was \notin Facts(now)
                 /\ c \in Of("MODIFIED") \ Moved => Values(then, c.was) # Values(now, c.about)

Opposite(kind) == CASE kind = "ADDED" -> "REMOVED" [] kind = "REMOVED" -> "ADDED" [] OTHER -> kind
Mirrored(changes) ==
    {Change(Opposite(c.change), c.about, c.was,
            <<c.category[1], Opposite(c.category[2])>>, c.files) : c \in changes}

(* Comparing the other way around tells the same story backwards: what was *)
(* added is removed, pairs stay pairs, and the same changes are held back. *)
ReversalMirrors ==
    Answered =>
        LET back == Diff(done[2], done[1])
        IN /\ back.changes = Mirrored(result.changes)
           /\ back.unknown = Mirrored(result.unknown)

(* What a revision would show were all of its files readable.              *)
Truth(files, context) ==
    LET clear == [n \in DOMAIN files |-> [files[n] EXCEPT !.readable = TRUE]]
        built[n \in 0 .. Len(Extractors)] ==
            IF n = 0 THEN EmptySnapshot(context.service)
            ELSE LET before == built[n - 1] IN Extract(before, clear, Extractors[n], context.known)
    IN Facts(built[Len(Extractors)].edges)

(* diff.py:14: what could not be analysed at one revision is unknown there *)
(* and not absent, so a call of another service is not reported as added   *)
(* when the previous revision has it, nor as removed when the current one  *)
(* has it, were all files readable.  It is not so: the file that says      *)
(* which services there are may be the one that cannot be read, and the    *)
(* evidence of the call names only the file of the call (code.py:99).      *)
UnreadableIsUnknown ==
    Answered =>
        \A c \in result.changes :
            c.category[1] = "SERVICE_RELATIONSHIP" /\ c.about.rel = "CALLS" =>
                /\ c.change = "ADDED" =>
                      c.about \notin Truth(tree[result.of.revisions[1]], result.of.context)
                /\ c.change = "REMOVED" =>
                      c.was \notin Truth(tree[result.of.revisions[2]], result.of.context)

=============================================================================
