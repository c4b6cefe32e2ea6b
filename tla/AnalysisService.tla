--------------------------- MODULE AnalysisService ---------------------------
(***************************************************************************)
(* The HTTP service (api/) and the analysis pipeline it runs               *)
(* (reasoning/orchestrator.py with its agents and engines).                *)
(*                                                                         *)
(* Endpoints and background jobs run in threads of one process.  They      *)
(* share, without a lock, the engines chosen by the first request and what *)
(* POST /index replaces one part after the other: the interim call graph,  *)
(* the location index, the repository path, the vector store and the graph *)
(* in Neo4j.  Only the job store has a lock.                               *)
(***************************************************************************)
EXTENDS Grounding

CONSTANTS
    Workers,      \* threads: each serves a request, and the job it created
    JobIds,       \* the jobs that may be created
    Repos,        \* repositories that may be indexed
    NoRepo,
    ChunksOf,     \* the locations of the functions in each repository
    Matches,      \* <<l, id>>: same name, and one file path ends with the other
    Facts,        \* the items that the engines may report
    Mode,         \* CAUSIX_ENGINES
    TopK,         \* hits that retrieval returns at most
    Outages,      \* TRUE: LLM, embedder and Neo4j calls may raise
    MaxIndexings  \* bound: index requests that may be made

ASSUME ServiceAssumption ==
    /\ ChunksOf \in [Repos -> SUBSET Locations]
    /\ NoRepo \notin Repos
    /\ Repos \cap JobIds = {}
    /\ Matches \subseteq Locations \X Locations
    /\ Facts \subseteq Items
    /\ Mode \in {"stub", "auto", "real"}
    /\ TopK \in Nat /\ MaxIndexings \in Nat
    /\ Outages \in BOOLEAN

VARIABLES
    engines,      \* _engines: "none", or the mode of the Engines chosen
    callGraph,    \* CodeCallGraph.chunks: the locations it holds
    locations,    \* LocationIndex._ids
    path,         \* RepoContext.path
    store,        \* InMemoryVectorStore._items: whose text is stored for a location
    graph,        \* per repository, what of it is in Neo4j
    jobs,         \* JobStore._jobs
    request,      \* what each worker is doing
    indexings     \* index requests made so far

index == <<callGraph, locations, path, store, graph>>
vars == <<engines, index, jobs, request, indexings>>

NoTask == "none"
Indexed == {l \in Locations : store[l] # NoRepo}

Fixes == [status : {"none", "skipped", "recommended"}, location : Locations \cup {NoLocation},
          source : Repos \cup {NoRepo}, diff : BOOLEAN, test : BOOLEAN]
NoFix == [status |-> "none", location |-> NoLocation, source |-> NoRepo,
          diff |-> FALSE, test |-> FALSE]

(* Where a failure may become a note of the result instead of its end. *)
Notes == {"evidence", "rca", "fix", "impact", "scenario", "execution", "architecture",
          "documentation"}

AnalysisResults ==
    [evidence : Seq(Items), rca : RootCauses, fix : Fixes,
     impact : {"none", "skipped", "explained"},
     scenario : {"none", "skipped", "generated"},
     execution : {"none", "not_run", "passed", "failed", "error"},
     architecture : {"none", "compared"},
     documentation : {"none", "skipped", "generated"},
     notes : SUBSET Notes]
NoWork == [evidence |-> <<>>, rca |-> NoRootCause, fix |-> NoFix, impact |-> "none",
           scenario |-> "none", execution |-> "none", architecture |-> "none",
           documentation |-> "none", notes |-> {}]

JobSteps == {"queued", "issue", "facts", "resolve", "search", "hits", "rca", "fix", "impact",
             "callers", "scenario", "execution", "architecture", "documentation", "complete"}
IndexSteps == {"graph", "locations", "path", "embed", "add", "ingest", "respond"}
RequestSteps == {"engines", "build", "return", "create"}

(* error is the step whose exception ended the job. *)
NoJob == [state |-> "absent", result |-> NoWork, error |-> "none"]
JobRecords == [state : {"absent", "queued", "running", "completed", "failed"},
               result : AnalysisResults, error : JobSteps \cup {"none"}]

(* task: the job to create, or the repository to index; chosen: the        *)
(* engines given to the request; todo: chunks still to add; size: of the   *)
(* dictionary being iterated over; work: the result so far; alone: no      *)
(* other index request has overlapped this one.                            *)
RequestRecords ==
    [pc : {"idle"} \cup RequestSteps \cup IndexSteps \cup JobSteps,
     task : JobIds \cup Repos \cup {NoTask}, chosen : {"none", "stub", "real"},
     todo : SUBSET Locations, size : Nat, work : AnalysisResults, alone : BOOLEAN]
Idle == [pc |-> "idle", task |-> NoTask, chosen |-> "none", todo |-> {}, size |-> 0,
         work |-> NoWork, alone |-> FALSE]

Init ==
    /\ engines = "none"
    /\ callGraph = {} /\ locations = {} /\ path = NoRepo
    /\ store = [l \in Locations |-> NoRepo]
    /\ graph = [r \in Repos |-> "absent"]
    /\ jobs = [j \in JobIds |-> NoJob]
    /\ request = [w \in Workers |-> Idle]
    /\ indexings = 0

-----------------------------------------------------------------------------
At(w, label) == request[w].pc = label
Task(w) == request[w].task
Chosen(w) == request[w].chosen
Work(w) == request[w].work

Goto(w, label) == request' = [request EXCEPT ![w].pc = label]

(* The request is over, answered or with an error. *)
Over(w) == request' = [request EXCEPT ![w] = Idle]

Indexing == {w \in Workers : request[w].pc \in IndexSteps}

(* POST /analyze, with a fresh uuid, or POST /index. *)
Begin(w) ==
    /\ At(w, "idle")
    /\ \/ /\ \E j \in JobIds :
                /\ jobs[j] = NoJob
                /\ \A v \in Workers : Task(v) # j
                /\ request' = [request EXCEPT ![w] = [Idle EXCEPT !.pc = "engines", !.task = j]]
          /\ UNCHANGED indexings
       \/ /\ indexings < MaxIndexings
          /\ \E r \in Repos :
                request' = [request EXCEPT ![w] = [Idle EXCEPT !.pc = "engines", !.task = r]]
          /\ indexings' = indexings + 1
    /\ UNCHANGED <<engines, index, jobs>>

(* get_engines, a dependency of every request: the check, the building and *)
(* the global that is returned in the end are three moments.               *)
CheckEngines(w) ==
    /\ At(w, "engines")
    /\ Goto(w, IF engines = "none" THEN "build" ELSE "return")
    /\ UNCHANGED <<engines, index, jobs, indexings>>

(* build_engines tries to reach Neo4j, unless told not to. *)
BuildEngines(w) ==
    /\ At(w, "build")
    /\ \/ /\ Mode \in {"auto", "real"}
          /\ engines' = "real"
          /\ Goto(w, "return")
       \/ /\ Mode \in {"stub", "auto"}
          /\ engines' = "stub"
          /\ Goto(w, "return")
       \/ /\ Mode = "real"      \* EngineConfigError
          /\ Over(w)
          /\ UNCHANGED engines
    /\ UNCHANGED <<index, jobs, indexings>>

ReturnEngines(w) ==
    /\ At(w, "return")
    /\ IF Task(w) \in JobIds
       THEN request' = [request EXCEPT ![w].chosen = engines, ![w].pc = "create"]
       ELSE request' = [v \in Workers |->
                IF v = w THEN [request[w] EXCEPT !.chosen = engines, !.pc = "graph",
                                 !.todo = ChunksOf[Task(w)], !.alone = (Indexing = {})]
                ELSE [request[v] EXCEPT !.alone = FALSE]]
    /\ UNCHANGED <<engines, index, jobs, indexings>>

-----------------------------------------------------------------------------
(* POST /index. *)
LeavesJobs == UNCHANGED <<engines, jobs, indexings>>

Did(w, l) == request' = [request EXCEPT ![w].todo = @ \ {l}]

(* The interim call graph, chunk by chunk; only when Neo4j is not used. *)
LoadGraph(w) ==
    /\ At(w, "graph")
    /\ \/ /\ Chosen(w) = "stub"
          /\ \E l \in request[w].todo : callGraph' = callGraph \cup {l} /\ Did(w, l)
       \/ /\ Chosen(w) = "real" \/ request[w].todo = {}
          /\ Goto(w, "locations")
          /\ UNCHANGED callGraph
    /\ UNCHANGED <<locations, path, store, graph>>
    /\ LeavesJobs

(* Variant: the location index is loaded for the interim graph only. *)
InterimOnly(w) == IF Chosen(w) = "stub" THEN ChunksOf[Task(w)] ELSE locations
LoadedLocations(w) == ChunksOf[Task(w)]

LoadLocations(w) ==
    /\ At(w, "locations")
    /\ locations' = LoadedLocations(w)
    /\ Goto(w, "path")
    /\ UNCHANGED <<callGraph, path, store, graph>>
    /\ LeavesJobs

SetPath(w) ==
    /\ At(w, "path")
    /\ path' = Task(w)
    /\ Goto(w, "embed")
    /\ UNCHANGED <<callGraph, locations, store, graph>>
    /\ LeavesJobs

(* retriever.index: embeddings of everything, then chunk by chunk. *)
Embed(w) ==
    /\ At(w, "embed")
    /\ \/ request' = [request EXCEPT ![w].pc = "add", ![w].todo = ChunksOf[Task(w)]]
       \/ Outages /\ Over(w)
    /\ UNCHANGED index
    /\ LeavesJobs

AddChunks(w) ==
    /\ At(w, "add")
    /\ \/ \E l \in request[w].todo : store' = [store EXCEPT ![l] = Task(w)] /\ Did(w, l)
       \/ /\ request[w].todo = {}
          /\ Goto(w, IF Chosen(w) = "real" THEN "ingest" ELSE "respond")
          /\ UNCHANGED store
    /\ UNCHANGED <<callGraph, locations, path, graph>>
    /\ LeavesJobs

(* A failure, half-way or not, is a 502; what was replaced stays replaced. *)
Ingest(w) ==
    /\ At(w, "ingest")
    /\ \/ /\ graph' = [graph EXCEPT ![Task(w)] = "ingested"]
          /\ Goto(w, "respond")
       \/ /\ Outages
          /\ \/ UNCHANGED graph
             \/ graph[Task(w)] = "absent" /\ graph' = [graph EXCEPT ![Task(w)] = "partial"]
          /\ Over(w)
    /\ UNCHANGED <<callGraph, locations, path, store>>
    /\ LeavesJobs

Respond(w) ==
    /\ At(w, "respond")
    /\ Over(w)
    /\ UNCHANGED index
    /\ LeavesJobs

-----------------------------------------------------------------------------
(* POST /analyze creates the job; its background task runs after the       *)
(* answer was sent.                                                        *)
LeavesIndex == UNCHANGED <<engines, index, indexings>>

CreateJob(w) ==
    /\ At(w, "create")
    /\ jobs' = [jobs EXCEPT ![Task(w)].state = "queued"]
    /\ Goto(w, "queued")
    /\ LeavesIndex

StartJob(w) ==
    /\ At(w, "queued")
    /\ jobs' = [jobs EXCEPT ![Task(w)].state = "running"]
    /\ Goto(w, "issue")
    /\ LeavesIndex

(* Variant: only an AgentError ends a job, anything else the thread. *)
LeftRunning(w) == Over(w) /\ UNCHANGED jobs

(* run_job catches what analyze() does not: nothing else is kept. *)
JobFails(w) ==
    /\ jobs' = [jobs EXCEPT ![Task(w)].state = "failed", ![Task(w)].error = request[w].pc]
    /\ Over(w)

(* A call of the pipeline returns: on with the result so far. *)
Gives(w, result, label) ==
    /\ request' = [request EXCEPT ![w].work = result, ![w].pc = label, ![w].size = 0]
    /\ UNCHANGED jobs

(* An iteration over a dictionary begins. *)
Iterates(w, n, label) ==
    /\ request' = [request EXCEPT ![w].size = n, ![w].pc = label]
    /\ UNCHANGED jobs

(* An LLM call, or an engine, is down: not an AgentError. *)
Outage(w) == Outages /\ JobFails(w)

Noted(w, note) == [Work(w) EXCEPT !.notes = @ \cup {note}]

(* Step 1: no AgentError is kept here, and nothing is lost yet. *)
UnderstandIssue(w) ==
    /\ At(w, "issue")
    /\ \/ Gives(w, Work(w), "facts")
       \/ JobFails(w)
    /\ LeavesIndex

(* Step 2: the engines look at the path that is set now; with stubs, or    *)
(* before anything was indexed, there are no facts.                        *)
CollectFacts(w) ==
    /\ At(w, "facts")
    /\ \/ Gives(w, Work(w), "search")
       \/ /\ Chosen(w) = "real" /\ path # NoRepo
          /\ \/ \E fact \in Facts :
                   Gives(w, [Work(w) EXCEPT !.evidence = <<fact>>], "resolve")
             \/ Outage(w)
    /\ LeavesIndex

(* LocationIndex.resolve: the one indexed location that matches. *)
Resolve(l) ==
    LET matches == {id \in locations : <<l, id>> \in Matches}
    IN  IF l \in locations \cup {NoLocation} \/ Cardinality(matches) # 1 THEN l
        ELSE CHOOSE id \in matches : TRUE

NormalizeFacts(w) ==
    /\ At(w, "resolve")
    /\ LET facts == Work(w).evidence
           resolved == [i \in DOMAIN facts |->
                           [facts[i] EXCEPT !.location = Resolve(facts[i].location)]]
       IN  Gives(w, [Work(w) EXCEPT !.evidence = resolved], "search")
    /\ LeavesIndex

(* Step 3: the store is a dictionary that search() iterates over, and that *)
(* a concurrent index request may grow meanwhile.                          *)
BeginSearch(w) ==
    /\ At(w, "search")
    /\ \/ Iterates(w, Cardinality(Indexed), "hits")
       \/ Outage(w)
    /\ LeavesIndex

(* Any of the stored chunks may score well enough, in any order.  Facts    *)
(* keep priority: a place they name is not repeated.                       *)
Hits(evidence) ==
    LET fresh == Indexed \ Known(evidence)
    IN  {s \in UNION {[1 .. n -> fresh] : n \in 0 .. TopK} :
            \A i, k \in DOMAIN s : s[i] = s[k] => i = k}

WithHits(evidence, hits) ==
    evidence \o [i \in DOMAIN hits |-> [source |-> "semantic", location |-> hits[i]]]

EndSearch(w) ==
    /\ At(w, "hits")
    /\ \/ /\ request[w].size # Cardinality(Indexed)   \* changed size during iteration
          /\ JobFails(w)
       \/ /\ request[w].size = Cardinality(Indexed)
          /\ \E hits \in Hits(Work(w).evidence) :
                LET evidence == WithHits(Work(w).evidence, hits)
                    note == IF evidence = <<>> THEN {"evidence"} ELSE {}
                IN  Gives(w, [Work(w) EXCEPT !.evidence = evidence, !.notes = @ \cup note], "rca")
    /\ LeavesIndex

(* Step 4: without evidence the model is not asked. *)
FindRootCause(w) ==
    /\ At(w, "rca")
    /\ LET evidence == Work(w).evidence IN
       \/ /\ evidence = <<>>
          /\ Gives(w, [Work(w) EXCEPT !.rca = Insufficient], "fix")
       \/ /\ evidence # <<>>
          /\ \/ \E answer \in Answers(Len(evidence) + 1) :
                   Gives(w, [Work(w) EXCEPT !.rca = Ground(answer, evidence)], "fix")
             \/ Gives(w, Noted(w, "rca"), "fix")
             \/ Outage(w)
    /\ LeavesIndex

(* Step 5: the fix agent's guards, and the code that is indexed now. *)
Fixable(w) ==
    /\ Work(w).rca.status = "established"
    /\ Work(w).rca.location # NoLocation
    /\ store[Work(w).rca.location] # NoRepo

RecommendFix(w) ==
    /\ At(w, "fix")
    /\ \/ /\ ~Fixable(w)
          /\ Gives(w, [Work(w) EXCEPT !.fix = [NoFix EXCEPT !.status = "skipped"]], "impact")
       \/ /\ Fixable(w)
          /\ \/ \E diff, test \in BOOLEAN :
                   LET fix == [status |-> "recommended", location |-> Work(w).rca.location,
                               source |-> store[Work(w).rca.location], diff |-> diff,
                               test |-> test]
                   IN  Gives(w, [Work(w) EXCEPT !.fix = fix], "impact")
             \/ Gives(w, Noted(w, "fix"), "impact")
             \/ Outage(w)
    /\ LeavesIndex

Recommended(w) == Work(w).fix.status = "recommended"

(* Step 6: Neo4j, or the interim graph, a dictionary again. *)
BeginImpact(w) ==
    /\ At(w, "impact")
    /\ \/ /\ ~Recommended(w)
          /\ Gives(w, [Work(w) EXCEPT !.impact = "skipped"], "scenario")
       \/ /\ Recommended(w)
          /\ Iterates(w, Cardinality(callGraph), "callers")
    /\ LeavesIndex

(* Variant: the failure leaves no note. *)
SilentImpact(w) == Work(w)
ImpactFailed(w) == Noted(w, "impact")

(* The interim graph is iterated over once per caller: a change in between *)
(* two iterations goes unnoticed.                                          *)
ExplainImpact(w) ==
    /\ At(w, "callers")
    /\ \/ Gives(w, [Work(w) EXCEPT !.impact = "explained"], "scenario")
       \/ Gives(w, ImpactFailed(w), "scenario")
       \/ /\ Chosen(w) = "stub" /\ request[w].size # Cardinality(callGraph)
          /\ JobFails(w)
       \/ Outage(w)
    /\ LeavesIndex

(* Step 7. *)
WriteScenario(w) ==
    /\ At(w, "scenario")
    /\ \/ /\ ~Recommended(w)
          /\ Gives(w, [Work(w) EXCEPT !.scenario = "skipped"], "architecture")
       \/ /\ Recommended(w)
          /\ \/ Gives(w, [Work(w) EXCEPT !.scenario = "generated"], "execution")
             \/ Gives(w, [Noted(w, "scenario") EXCEPT !.scenario = "skipped"], "architecture")
             \/ Outage(w)
    /\ LeavesIndex

(* Variant: a fix without a regression test is run all the same. *)
RunnableWithoutTest(w) == Chosen(w) = "real" /\ Work(w).fix.diff /\ path # NoRepo

(* The runner executes only a diff together with a regression test. *)
Runnable(w) ==
    Chosen(w) = "real" /\ Work(w).fix.diff /\ Work(w).fix.test /\ path # NoRepo

(* Variant: the job is marked as failed, and goes on. *)
SandboxFailsJob(w) ==
    /\ request' = [request EXCEPT ![w].pc = "architecture", ![w].work.execution = "error",
                                  ![w].work.notes = @ \cup {"execution"}]
    /\ jobs' = [jobs EXCEPT ![Task(w)].state = "failed", ![Task(w)].error = request[w].pc]

SandboxFails(w) ==
    Gives(w, [Noted(w, "execution") EXCEPT !.execution = "error"], "architecture")

(* The sandbox may also not be available: no git root, no Docker. *)
RunScenario(w) ==
    /\ At(w, "execution")
    /\ \/ Gives(w, [Work(w) EXCEPT !.execution = "not_run"], "architecture")
       \/ /\ Runnable(w)
          /\ \/ \E status \in {"passed", "failed", "error"} :
                   Gives(w, [Work(w) EXCEPT !.execution = status], "architecture")
             \/ SandboxFails(w)
    /\ LeavesIndex

(* Step 8, when two revisions were given: any failure becomes a note. *)
CompareArchitecture(w) ==
    /\ At(w, "architecture")
    /\ \/ Gives(w, Work(w), "documentation")
       \/ Gives(w, [Work(w) EXCEPT !.architecture = "compared"], "documentation")
       \/ Gives(w, Noted(w, "architecture"), "documentation")
    /\ LeavesIndex

(* Step 9. *)
WriteReport(w) ==
    /\ At(w, "documentation")
    /\ \/ /\ Work(w).rca.status # "established"
          /\ Gives(w, [Work(w) EXCEPT !.documentation = "skipped"], "complete")
       \/ /\ Work(w).rca.status = "established"
          /\ \/ Gives(w, [Work(w) EXCEPT !.documentation = "generated"], "complete")
             \/ Gives(w, [Noted(w, "documentation") EXCEPT !.documentation = "skipped"],
                      "complete")
             \/ Outage(w)
    /\ LeavesIndex

CompleteJob(w) ==
    /\ At(w, "complete")
    /\ jobs' = [jobs EXCEPT ![Task(w)].state = "completed", ![Task(w)].result = Work(w)]
    /\ Over(w)
    /\ LeavesIndex

-----------------------------------------------------------------------------
Request(w) == \/ CheckEngines(w) \/ BuildEngines(w) \/ ReturnEngines(w)
              \/ CreateJob(w) \/ Respond(w)
              \/ LoadGraph(w) \/ LoadLocations(w) \/ SetPath(w)
              \/ Embed(w) \/ AddChunks(w) \/ Ingest(w)

RunJob(w) == \/ StartJob(w) \/ UnderstandIssue(w) \/ CollectFacts(w) \/ NormalizeFacts(w)
             \/ BeginSearch(w) \/ EndSearch(w) \/ FindRootCause(w) \/ RecommendFix(w)
             \/ BeginImpact(w) \/ ExplainImpact(w) \/ WriteScenario(w) \/ RunScenario(w)
             \/ CompareArchitecture(w) \/ WriteReport(w) \/ CompleteJob(w)

Next == \E w \in Workers : Begin(w) \/ Request(w) \/ RunJob(w)

Spec == Init /\ [][Next]_vars

(* The threads run, and the calls they make return or raise. *)
FairSpec == Spec /\ \A w \in Workers : WF_vars(Request(w)) /\ WF_vars(RunJob(w))

-----------------------------------------------------------------------------
TypeOK ==
    /\ engines \in {"none", "stub", "real"}
    /\ callGraph \subseteq Locations /\ locations \subseteq Locations
    /\ path \in Repos \cup {NoRepo}
    /\ store \in [Locations -> Repos \cup {NoRepo}]
    /\ graph \in [Repos -> {"absent", "partial", "ingested"}]
    /\ jobs \in [JobIds -> JobRecords]
    /\ request \in [Workers -> RequestRecords]
    /\ indexings \in 0 .. MaxIndexings

Results == {Work(w) : w \in Workers} \cup {jobs[j].result : j \in JobIds}

(* A fix is only recommended for an established root cause, at a location  *)
(* that is in the evidence, and with code that was indexed there; a report *)
(* is only written of an established root cause.  No answer of a model,    *)
(* and nothing a concurrent index request does, gets around it.            *)
FixIsGrounded ==
    \A r \in Results :
        /\ Grounded(r.rca, r.evidence)
        /\ r.fix.status = "recommended" =>
               /\ r.rca.status = "established"
               /\ r.fix.location = r.rca.location
               /\ r.fix.location \in Known(r.evidence)
               /\ r.fix.source # NoRepo /\ r.fix.location \in ChunksOf[r.fix.source]
        /\ r.documentation = "generated" => r.rca.status = "established"

(* "PASS/FAIL comes only from the sandbox runner": a scenario that passed  *)
(* or failed had a fix with a diff and a regression test, and a repository *)
(* to run in.                                                              *)
ExecutionIsEarned ==
    \A r \in Results : r.execution \in {"passed", "failed"} =>
        /\ r.scenario = "generated"
        /\ r.fix.status = "recommended" /\ r.fix.diff /\ r.fix.test
        /\ path # NoRepo

(* What a completed analysis does not have is explained in its notes, or   *)
(* follows from another part it does not have; an analysis that did not    *)
(* complete has no result at all.                                          *)
NothingMissingSilently ==
    \A j \in JobIds :
        LET r == jobs[j].result IN
        IF jobs[j].state # "completed" THEN r = NoWork
        ELSE /\ r.evidence = <<>> <=> "evidence" \in r.notes
             /\ r.rca.status = "none" <=> "rca" \in r.notes
             /\ r.fix.status = "none" <=> "fix" \in r.notes
             /\ r.impact = "none" <=> "impact" \in r.notes
             /\ r.impact = "skipped" => r.fix.status # "recommended"
             /\ r.scenario = "skipped" => \/ r.fix.status # "recommended"
                                          \/ "scenario" \in r.notes
             /\ r.scenario = "generated" <=> r.execution # "none"
             /\ "execution" \in r.notes => r.execution = "error"
             /\ r.documentation = "skipped" => \/ r.rca.status # "established"
                                               \/ "documentation" \in r.notes
             /\ r.documentation # "none"

(* A job goes from queued to running to one end, which never changes.      *)
JobsOnlyMoveForward ==
    [][\A j \in JobIds : jobs'[j] # jobs[j] =>
           \/ jobs[j].state = "absent" /\ jobs'[j].state = "queued"
           \/ jobs[j].state = "queued" /\ jobs'[j].state = "running"
           \/ jobs[j].state = "running" /\ jobs'[j].state \in {"completed", "failed"}]_vars

(* An index request that no other overlapped has, when it answers,         *)
(* replaced every part, whatever failed before it and whichever analyses   *)
(* were running.                                                           *)
IndexIsWhole ==
    \A w \in Workers : request[w].alone /\ At(w, "respond") =>
        /\ path = Task(w) /\ locations = ChunksOf[Task(w)]
        /\ \A l \in ChunksOf[Task(w)] : store[l] = Task(w)
        /\ IF Chosen(w) = "real" THEN graph[Task(w)] = "ingested"
           ELSE ChunksOf[Task(w)] \subseteq callGraph

(* main.py: a "job must never be left stuck in running". *)
JobsEnd ==
    \A j \in JobIds : jobs[j].state = "queued" ~> jobs[j].state \in {"completed", "failed"}

-----------------------------------------------------------------------------
(* What a docstring says and the code does not do.                         *)

(* main.py: the engines are "chosen once".  Two requests that both find    *)
(* none build them twice, and the second choice replaces the first.        *)
EnginesChosenOnce == [][engines # "none" => engines' = engines]_vars
=============================================================================
