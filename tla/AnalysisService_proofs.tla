------------------------ MODULE AnalysisService_proofs ------------------------
(***************************************************************************)
(* Proofs about the service, for any number of threads, jobs, repositories *)
(* and index requests, with or without outages: what an analysis says is   *)
(* grounded and complete, a job only moves forward, and an index request   *)
(* that none overlapped has replaced every part.                           *)
(***************************************************************************)
EXTENDS AnalysisService, Grounding_proofs, FiniteSetTheorems, SequenceTheorems, TLAPS

(* The steps of the pipeline at which a part of the result is decided.     *)
EvidenceDecided == {"rca", "fix", "impact", "callers", "scenario", "execution", "architecture",
                    "documentation", "complete"}
RcaDecided == EvidenceDecided \ {"rca"}
FixDecided == RcaDecided \ {"fix"}
ImpactDecided == {"scenario", "execution", "architecture", "documentation", "complete"}
ScenarioDecided == {"execution", "architecture", "documentation", "complete"}
ExecutionDecided == {"architecture", "documentation", "complete"}

(* What a result r says when the pipeline is at a step and repo is the     *)
(* path: nothing yet of a part that is not decided, and of one that is     *)
(* the truth or a note.                                                    *)
EvidenceTold(r, step) ==
    IF step \in EvidenceDecided THEN r.evidence = <<>> <=> "evidence" \in r.notes
    ELSE "evidence" \notin r.notes

RcaTold(r, step) ==
    /\ Grounded(r.rca, r.evidence)
    /\ IF step \in RcaDecided THEN r.rca.status = "none" <=> "rca" \in r.notes
       ELSE r.rca = NoRootCause /\ "rca" \notin r.notes

FixTold(r, step) ==
    /\ r.fix.status = "recommended" =>
           /\ r.rca.status = "established"
           /\ r.fix.location = r.rca.location /\ r.rca.location # NoLocation
           /\ r.fix.source # NoRepo /\ r.fix.location \in ChunksOf[r.fix.source]
    /\ IF step \in FixDecided THEN r.fix.status = "none" <=> "fix" \in r.notes
       ELSE r.fix = NoFix /\ "fix" \notin r.notes

ImpactTold(r, step) ==
    IF step \in ImpactDecided
    THEN /\ r.impact = "none" <=> "impact" \in r.notes
         /\ r.impact = "skipped" => r.fix.status # "recommended"
    ELSE r.impact = "none" /\ "impact" \notin r.notes

ScenarioTold(r, step) ==
    IF step \in ScenarioDecided
    THEN /\ r.scenario # "none"
         /\ r.scenario = "skipped" => \/ r.fix.status # "recommended"
                                      \/ "scenario" \in r.notes
         /\ r.scenario = "generated" => r.fix.status = "recommended"
    ELSE r.scenario = "none" /\ "scenario" \notin r.notes

ExecutionTold(r, step, repo) ==
    IF step \in ExecutionDecided
    THEN /\ r.scenario = "generated" <=> r.execution # "none"
         /\ "execution" \in r.notes => r.execution = "error"
         /\ r.execution \in {"passed", "failed"} => r.fix.diff /\ r.fix.test /\ repo # NoRepo
    ELSE /\ r.execution = "none" /\ "execution" \notin r.notes
         /\ step = "execution" => r.scenario = "generated"

DocumentationTold(r, step) ==
    IF step = "complete"
    THEN /\ r.documentation # "none"
         /\ r.documentation = "skipped" => \/ r.rca.status # "established"
                                           \/ "documentation" \in r.notes
         /\ r.documentation = "generated" => r.rca.status = "established"
    ELSE r.documentation = "none" /\ "documentation" \notin r.notes

Told(r, step, repo) ==
    /\ step \notin JobSteps \/ step = "queued" => r = NoWork
    /\ EvidenceTold(r, step) /\ RcaTold(r, step) /\ FixTold(r, step) /\ ImpactTold(r, step)
    /\ ScenarioTold(r, step) /\ ExecutionTold(r, step, repo) /\ DocumentationTold(r, step)

-----------------------------------------------------------------------------
(* What a request is about, and that no two are about one job.             *)
TasksFit ==
    /\ \A w \in Workers :
          /\ request[w].pc \in {"create"} \cup JobSteps => Task(w) \in JobIds
          /\ request[w].pc \in IndexSteps => Task(w) \in Repos
          /\ request[w].pc # "idle" => Task(w) \in JobIds \cup Repos
    /\ \A v, w \in Workers :
          v # w /\ ~At(v, "idle") /\ ~At(w, "idle") /\ Task(v) \in JobIds => Task(v) # Task(w)

(* A job is as far as the thread that serves it.                           *)
StateAt(step) ==
    IF step \in RequestSteps THEN "absent" ELSE IF step = "queued" THEN "queued" ELSE "running"

JobsFit ==
    /\ \A w \in Workers : ~At(w, "idle") /\ Task(w) \in JobIds =>
          jobs[Task(w)].state = StateAt(request[w].pc)
    /\ \A j \in JobIds : IF jobs[j].state = "completed" THEN Told(jobs[j].result, "complete", path)
                         ELSE jobs[j].result = NoWork

WorkTold == \A w \in Workers : Told(Work(w), request[w].pc, path)

(* What is stored under a location is the code of a repository that has    *)
(* it, and the dictionaries are finite.                                    *)
StoreFits ==
    /\ \A l \in Locations : store[l] # NoRepo => l \in ChunksOf[store[l]]
    /\ \A w \in Workers : request[w].pc \in {"graph", "add"} =>
          request[w].todo \subseteq ChunksOf[Task(w)]
    /\ IsFiniteSet(Indexed) /\ IsFiniteSet(callGraph)

(* How far an index request is that no other overlapped.                   *)
IndexedSoFar(w) ==
    LET pc == request[w].pc
        chunks == ChunksOf[Task(w)]
    IN  /\ pc \in IndexSteps
        /\ Chosen(w) # "real" =>
              chunks \ (IF pc = "graph" THEN request[w].todo ELSE {}) \subseteq callGraph
        /\ pc \in {"path", "embed", "add", "ingest", "respond"} => locations = chunks
        /\ pc \in {"embed", "add", "ingest", "respond"} => path = Task(w)
        /\ pc \in {"add", "ingest", "respond"} =>
              \A l \in chunks \ (IF pc = "add" THEN request[w].todo ELSE {}) : store[l] = Task(w)
        /\ pc = "respond" /\ Chosen(w) = "real" => graph[Task(w)] = "ingested"

AloneFits ==
    \A w \in Workers : request[w].alone => IndexedSoFar(w) /\ \A v \in Indexing : v = w

IInv == TypeOK /\ TasksFit /\ JobsFit /\ WorkTold /\ StoreFits /\ AloneFits

-----------------------------------------------------------------------------
(***************************************************************************)
(* Steps in general: a thread w replaces its record by rec.                *)
(***************************************************************************)
Moves(w, rec) == rec \in RequestRecords /\ request' = [request EXCEPT ![w] = rec]

LEMMA MovesTo ==
    ASSUME TypeOK, NEW w \in Workers, NEW rec, Moves(w, rec)
    PROVE  /\ request' \in [Workers -> RequestRecords]
           /\ request'[w] = rec
           /\ \A v \in Workers \ {w} : request'[v] = request[v]
BY DEF TypeOK, Moves

(* What was told stays told when a repository is indexed for the first time. *)
LEMMA ToldStays ==
    ASSUME NEW r, NEW step, NEW repo, NEW other, Told(r, step, repo),
           repo # NoRepo => other # NoRepo
    PROVE  Told(r, step, other)
BY DEF Told, ExecutionTold

LEMMA TasksKept ==
    ASSUME TypeOK, TasksFit, NEW w \in Workers, NEW rec, Moves(w, rec), ~At(w, "idle"),
           \/ rec.pc = "idle"
           \/ /\ rec.task = Task(w)
              /\ rec.pc \in {"create"} \cup JobSteps => Task(w) \in JobIds
              /\ rec.pc \in IndexSteps => Task(w) \in Repos
    PROVE  TasksFit'
<1>1. /\ request'[w] = rec
      /\ \A v \in Workers \ {w} : request'[v] = request[v]
  BY MovesTo
<1>2. ASSUME NEW v \in Workers
      PROVE  /\ request'[v].pc \in {"create"} \cup JobSteps => request'[v].task \in JobIds
             /\ request'[v].pc \in IndexSteps => request'[v].task \in Repos
             /\ request'[v].pc # "idle" => request'[v].task \in JobIds \cup Repos
  <2>1. CASE v = w
    BY <1>1, <2>1 DEF TasksFit, At, Task, JobSteps, IndexSteps
  <2>2. CASE v # w
    BY <1>1, <2>2 DEF TasksFit, Task
  <2> QED
    BY <2>1, <2>2
<1>3. ASSUME NEW u \in Workers, NEW v \in Workers, u # v, request'[u].pc # "idle",
             request'[v].pc # "idle", request'[u].task \in JobIds
      PROVE  request'[u].task # request'[v].task
  <2>1. /\ request[u].pc # "idle" /\ request'[u].task = request[u].task
        /\ request[v].pc # "idle" /\ request'[v].task = request[v].task
    BY <1>1, <1>3 DEF At, Task
  <2> QED
    BY <1>3, <2>1 DEF TasksFit, At, Task
<1>4. QED
  BY <1>2, <1>3 DEF TasksFit, At, Task

LEMMA WorkKept ==
    ASSUME TypeOK, WorkTold, NEW w \in Workers, NEW rec, Moves(w, rec),
           path # NoRepo => path' # NoRepo, Told(rec.work, rec.pc, path)
    PROVE  WorkTold'
<1>1. /\ request'[w] = rec
      /\ \A v \in Workers \ {w} : request'[v] = request[v]
  BY MovesTo
<1>2. ASSUME NEW v \in Workers
      PROVE  Told(request'[v].work, request'[v].pc, path')
  <2>1. Told(request'[v].work, request'[v].pc, path)
    <3>1. CASE v = w
      BY <1>1, <3>1
    <3>2. CASE v # w
      BY <1>1, <3>2 DEF WorkTold, Work
    <3> QED
      BY <3>1, <3>2
  <2> QED
    BY <2>1, ToldStays
<1>3. QED
  BY <1>2 DEF WorkTold, Work

(* Steps that leave the jobs alone. *)
LEMMA JobsKept ==
    ASSUME TypeOK, JobsFit, NEW w \in Workers, NEW rec, Moves(w, rec), UNCHANGED jobs,
           path # NoRepo => path' # NoRepo,
           rec.pc # "idle" /\ rec.task \in JobIds => jobs[rec.task].state = StateAt(rec.pc)
    PROVE  JobsFit'
<1>1. /\ request'[w] = rec
      /\ \A v \in Workers \ {w} : request'[v] = request[v]
  BY MovesTo
<1>2. ASSUME NEW v \in Workers, request'[v].pc # "idle", request'[v].task \in JobIds
      PROVE  jobs'[request'[v].task].state = StateAt(request'[v].pc)
  BY <1>1, <1>2 DEF JobsFit, At, Task
<1>3. ASSUME NEW j \in JobIds, jobs'[j].state = "completed"
      PROVE  Told(jobs'[j].result, "complete", path')
  <2>1. Told(jobs[j].result, "complete", path)
    BY <1>3 DEF JobsFit
  <2> QED
    BY <2>1, ToldStays
<1>4. ASSUME NEW j \in JobIds, jobs'[j].state # "completed"
      PROVE  jobs'[j].result = NoWork
  BY <1>4 DEF JobsFit
<1>5. QED
  BY <1>2, <1>3, <1>4 DEF JobsFit, At, Task

(* Steps that change the job they serve. *)
LEMMA JobChanged ==
    ASSUME TypeOK, TasksFit, JobsFit, NEW w \in Workers, NEW rec, Moves(w, rec), UNCHANGED path,
           ~At(w, "idle"), Task(w) \in JobIds,
           NEW job, jobs' = [jobs EXCEPT ![Task(w)] = job],
           rec.pc # "idle" => rec.task = Task(w) /\ job.state = StateAt(rec.pc),
           IF job.state = "completed" THEN Told(job.result, "complete", path)
           ELSE job.result = NoWork
    PROVE  JobsFit'
<1>1. /\ request'[w] = rec
      /\ \A v \in Workers \ {w} : request'[v] = request[v]
  BY MovesTo
<1>2. jobs'[Task(w)] = job /\ \A j \in JobIds \ {Task(w)} : jobs'[j] = jobs[j]
  BY DEF TypeOK
<1>3. ASSUME NEW v \in Workers, request'[v].pc # "idle", request'[v].task \in JobIds
      PROVE  jobs'[request'[v].task].state = StateAt(request'[v].pc)
  <2>1. CASE v = w
    BY <1>1, <1>2, <1>3, <2>1
  <2>2. CASE v # w
    <3>1. request'[v] = request[v] /\ Task(v) # Task(w)
      BY <1>1, <1>3, <2>2 DEF TasksFit, At, Task
    <3> QED
      BY <1>2, <1>3, <3>1 DEF JobsFit, At, Task
  <2> QED
    BY <2>1, <2>2
<1>4. ASSUME NEW j \in JobIds
      PROVE  IF jobs'[j].state = "completed" THEN Told(jobs'[j].result, "complete", path')
             ELSE jobs'[j].result = NoWork
  <2>1. CASE j = Task(w)
    BY <1>2, <2>1
  <2>2. CASE j # Task(w)
    BY <1>2, <2>2 DEF JobsFit
  <2> QED
    BY <2>1, <2>2
<1>5. QED
  BY <1>3, <1>4 DEF JobsFit, At, Task

LEMMA StoreKept ==
    ASSUME TypeOK, StoreFits, NEW w \in Workers, NEW rec, Moves(w, rec),
           UNCHANGED <<store, callGraph>>,
           rec.pc \in {"graph", "add"} => rec.todo \subseteq ChunksOf[rec.task]
    PROVE  StoreFits'
<1>1. /\ request'[w] = rec
      /\ \A v \in Workers \ {w} : request'[v] = request[v]
  BY MovesTo
<1>2. ASSUME NEW v \in Workers, request'[v].pc \in {"graph", "add"}
      PROVE  request'[v].todo \subseteq ChunksOf[request'[v].task]
  BY <1>1, <1>2 DEF StoreFits, Task
<1>3. QED
  BY <1>2 DEF StoreFits, Task, Indexed

(* Steps of threads that are not at work on the index. *)
LEMMA AloneKept ==
    ASSUME TypeOK, AloneFits, NEW w \in Workers, NEW rec, Moves(w, rec), UNCHANGED index,
           rec.pc \notin IndexSteps, ~rec.alone
    PROVE  AloneFits'
<1>1. /\ request'[w] = rec
      /\ \A v \in Workers \ {w} : request'[v] = request[v]
  BY MovesTo
<1>2. Indexing' \subseteq Indexing
  BY <1>1 DEF Indexing
<1>3. ASSUME NEW v \in Workers, request'[v].alone
      PROVE  IndexedSoFar(v)' /\ \A u \in Indexing' : u = v
  <2>1. /\ v # w /\ request'[v] = request[v]
        /\ IndexedSoFar(v) /\ \A u \in Indexing : u = v
    BY <1>1, <1>3 DEF AloneFits
  <2> QED
    BY <1>2, <2>1 DEF IndexedSoFar, index, Chosen, Task
<1>4. QED
  BY <1>3 DEF AloneFits

-----------------------------------------------------------------------------
(***************************************************************************)
(* The pipeline: steps that go on with a result, and the end of a job.     *)
(***************************************************************************)
Piped == JobSteps \ {"queued"}

LEMMA TypeKept ==
    ASSUME TypeOK, NEW w \in Workers, NEW rec, Moves(w, rec), LeavesIndex, UNCHANGED jobs
    PROVE  TypeOK'
BY MovesTo DEF TypeOK, LeavesIndex, index

LEMMA PipelineKeeps ==
    ASSUME IInv, NEW w \in Workers, NEW rec, Moves(w, rec), LeavesIndex, UNCHANGED jobs,
           request[w].pc \in Piped, rec.pc \in Piped, rec.task = Task(w),
           rec.alone = request[w].alone, Told(rec.work, rec.pc, path)
    PROVE  IInv'
<1> USE DEF IInv
<1>1. ~At(w, "idle") /\ Task(w) \in JobIds /\ rec.pc # "idle"
  BY DEF TasksFit, Piped, JobSteps, At
<1>2. TypeOK'
  BY TypeKept
<1>3. TasksFit'
  BY <1>1, TasksKept DEF Piped, JobSteps, IndexSteps
<1>4. WorkTold'
  BY WorkKept DEF LeavesIndex, index
<1>5. jobs[Task(w)].state = StateAt(request[w].pc) /\ StateAt(request[w].pc) = StateAt(rec.pc)
  BY <1>1 DEF JobsFit, StateAt, Piped, JobSteps, RequestSteps
<1>6. JobsFit'
  BY <1>5, JobsKept DEF LeavesIndex, index
<1>7. StoreFits'
  BY StoreKept DEF LeavesIndex, index, Piped, JobSteps
<1>8. AloneFits'
  <2>1. rec.pc \notin IndexSteps /\ ~rec.alone
    BY DEF AloneFits, IndexedSoFar, Piped, JobSteps, IndexSteps
  <2> QED
    BY <2>1, AloneKept DEF LeavesIndex
<1>9. QED
  BY <1>2, <1>3, <1>4, <1>6, <1>7, <1>8

LEMMA GivesKeeps ==
    ASSUME IInv, NEW w \in Workers, NEW r \in AnalysisResults, NEW label \in Piped,
           request[w].pc \in Piped, Gives(w, r, label), LeavesIndex, Told(r, label, path)
    PROVE  IInv'
<1> DEFINE rec == [request[w] EXCEPT !.work = r, !.pc = label, !.size = 0]
<1>1. request[w] \in RequestRecords
  BY DEF IInv, TypeOK
<1>2. label \in JobSteps
  BY DEF Piped
<1>3. rec \in RequestRecords
  BY <1>1, <1>2 DEF RequestRecords
<1>4. /\ rec.pc = label /\ rec.task = Task(w) /\ rec.work = r
      /\ rec.alone = request[w].alone
  BY <1>1 DEF RequestRecords, Task
<1>5. request' = [request EXCEPT ![w] = rec] /\ UNCHANGED jobs
  BY DEF Gives
<1> HIDE DEF rec
<1>6. Moves(w, rec)
  BY <1>3, <1>5 DEF Moves
<1>7. QED
  BY <1>4, <1>5, <1>6, PipelineKeeps

LEMMA IteratesKeeps ==
    ASSUME IInv, NEW w \in Workers, NEW n \in Nat, NEW label \in Piped,
           request[w].pc \in Piped, Iterates(w, n, label), LeavesIndex,
           Told(Work(w), label, path)
    PROVE  IInv'
<1> DEFINE rec == [request[w] EXCEPT !.size = n, !.pc = label]
<1>1. request[w] \in RequestRecords
  BY DEF IInv, TypeOK
<1>2. label \in JobSteps
  BY DEF Piped
<1>3. rec \in RequestRecords
  BY <1>1, <1>2 DEF RequestRecords
<1>4. /\ rec.pc = label /\ rec.task = Task(w) /\ rec.work = Work(w)
      /\ rec.alone = request[w].alone
  BY <1>1 DEF RequestRecords, Task, Work
<1>5. request' = [request EXCEPT ![w] = rec] /\ UNCHANGED jobs
  BY DEF Iterates
<1> HIDE DEF rec
<1>6. Moves(w, rec)
  BY <1>3, <1>5 DEF Moves
<1>7. QED
  BY <1>4, <1>5, <1>6, PipelineKeeps

LEMMA NoWorkTyped == NoWork \in AnalysisResults
<1>1. <<>> \in Seq(Items)
  OBVIOUS
<1>2. NoRootCause \in RootCauses
  BY DEF NoRootCause, RootCauses
<1>3. NoFix \in Fixes
  BY DEF NoFix, Fixes
<1>4. QED
  BY <1>1, <1>2, <1>3 DEF NoWork, AnalysisResults

LEMMA IdleTyped == Idle \in RequestRecords
BY NoWorkTyped DEF Idle, RequestRecords

LEMMA NothingTold ==
    ASSUME NEW step, step \notin JobSteps \/ step = "queued", NEW repo
    PROVE  Told(NoWork, step, repo)
BY DEF Told, EvidenceTold, RcaTold, FixTold, ImpactTold, ScenarioTold, ExecutionTold,
       DocumentationTold, NoWork, NoRootCause, NoFix, Grounded, EvidenceDecided, RcaDecided,
       FixDecided, ImpactDecided, ScenarioDecided, ExecutionDecided, JobSteps

(* A step of a job that changes the record of the job: start, end.         *)
LEMMA JobStepKeeps ==
    ASSUME IInv, NEW w \in Workers, NEW rec, Moves(w, rec), LeavesIndex,
           NEW job \in JobRecords, jobs' = [jobs EXCEPT ![Task(w)] = job],
           request[w].pc \in {"create"} \cup JobSteps,
           rec.pc = "idle" \/ (rec.pc \in JobSteps /\ rec.task = Task(w)
                               /\ job.state = StateAt(rec.pc)),
           ~rec.alone, Told(rec.work, rec.pc, path),
           IF job.state = "completed" THEN Told(job.result, "complete", path)
           ELSE job.result = NoWork
    PROVE  IInv'
<1> USE DEF IInv
<1>1. ~At(w, "idle") /\ Task(w) \in JobIds /\ rec.pc \notin IndexSteps
  BY DEF TasksFit, JobSteps, IndexSteps, At
<1>2. TypeOK'
  <2>1. jobs' \in [JobIds -> JobRecords]
    BY DEF TypeOK
  <2>2. request' \in [Workers -> RequestRecords]
    BY MovesTo
  <2> QED
    BY <2>1, <2>2 DEF TypeOK, LeavesIndex, index
<1>3. TasksFit'
  BY <1>1, TasksKept DEF JobSteps
<1>4. WorkTold'
  BY WorkKept DEF LeavesIndex, index
<1>5. JobsFit'
  BY <1>1, JobChanged DEF LeavesIndex, index
<1>6. StoreFits'
  BY StoreKept DEF LeavesIndex, index, JobSteps
<1>7. AloneFits'
  BY <1>1, AloneKept DEF LeavesIndex
<1>8. QED
  BY <1>2, <1>3, <1>4, <1>5, <1>6, <1>7

LEMMA JobFailsKeeps ==
    ASSUME IInv, NEW w \in Workers, request[w].pc \in Piped, JobFails(w), LeavesIndex
    PROVE  IInv'
<1> DEFINE job == [jobs[Task(w)] EXCEPT !.state = "failed", !.error = request[w].pc]
<1>1. /\ Task(w) \in JobIds /\ jobs[Task(w)] \in JobRecords
      /\ request[w].pc \in JobSteps /\ request[w].pc # "idle"
  BY DEF IInv, TypeOK, TasksFit, Piped, JobSteps
<1>2. jobs[Task(w)].state = "running"
  BY <1>1 DEF IInv, JobsFit, StateAt, At, Piped, JobSteps, RequestSteps
<1>3. job \in JobRecords /\ job.state = "failed" /\ job.result = NoWork
  BY <1>1, <1>2 DEF JobRecords, IInv, JobsFit
<1>4. jobs' = [jobs EXCEPT ![Task(w)] = job]
  BY DEF JobFails
<1> HIDE DEF job
<1>5. Moves(w, Idle)
  BY IdleTyped DEF Moves, JobFails, Over
<1>6. Idle.pc = "idle" /\ ~Idle.alone /\ Told(Idle.work, Idle.pc, path)
  BY NothingTold DEF Idle, JobSteps
<1>7. QED
  BY <1>1, <1>3, <1>4, <1>5, <1>6, JobStepKeeps DEF Piped

-----------------------------------------------------------------------------
(***************************************************************************)
(* The steps of the pipeline.                                              *)
(***************************************************************************)
LEMMA AtStep ==
    ASSUME IInv, NEW w \in Workers, NEW label \in Piped, At(w, label)
    PROVE  /\ request[w].pc = label /\ request[w].pc \in Piped
           /\ Work(w) \in AnalysisResults
           /\ Told(Work(w), label, path)
BY DEF IInv, TypeOK, WorkTold, At, Work, RequestRecords

LEMMA UnderstandIssueKeeps ==
    ASSUME IInv, NEW w \in Workers, UnderstandIssue(w)
    PROVE  IInv'
<1>1. /\ request[w].pc \in Piped /\ Work(w) \in AnalysisResults
      /\ Told(Work(w), "issue", path)
  BY AtStep DEF UnderstandIssue, Piped, JobSteps
<1>2. CASE Gives(w, Work(w), "facts")
  <2>1. Told(Work(w), "facts", path)
    BY <1>1 DEF Told, EvidenceTold, RcaTold, FixTold, ImpactTold, ScenarioTold, ExecutionTold,
                DocumentationTold, EvidenceDecided, RcaDecided, FixDecided, ImpactDecided,
                ScenarioDecided, ExecutionDecided, JobSteps
  <2> QED
    BY <1>1, <1>2, <2>1, GivesKeeps DEF UnderstandIssue, Piped, JobSteps
<1>3. CASE JobFails(w)
  BY <1>1, <1>3, JobFailsKeeps DEF UnderstandIssue
<1>4. QED
  BY <1>2, <1>3 DEF UnderstandIssue

LEMMA CollectFactsKeeps ==
    ASSUME IInv, NEW w \in Workers, CollectFacts(w)
    PROVE  IInv'
<1> USE DEF CollectFacts
<1>1. /\ request[w].pc \in Piped /\ Work(w) \in AnalysisResults
      /\ Told(Work(w), "facts", path)
  BY AtStep DEF Piped, JobSteps
<1>2. CASE Gives(w, Work(w), "search")
  <2>1. Told(Work(w), "search", path)
    BY <1>1 DEF Told, EvidenceTold, RcaTold, FixTold, ImpactTold, ScenarioTold, ExecutionTold,
                DocumentationTold, EvidenceDecided, RcaDecided, FixDecided, ImpactDecided,
                ScenarioDecided, ExecutionDecided, JobSteps
  <2> QED
    BY <1>1, <1>2, <2>1, GivesKeeps DEF Piped, JobSteps
<1>3. ASSUME NEW fact \in Facts, Gives(w, [Work(w) EXCEPT !.evidence = <<fact>>], "resolve")
      PROVE  IInv'
  <2> DEFINE r == [Work(w) EXCEPT !.evidence = <<fact>>]
  <2>1. <<fact>> \in Seq(Items)
    BY ServiceAssumption
  <2>2. r \in AnalysisResults
    BY <1>1, <2>1 DEF AnalysisResults
  <2>3. Told(r, "resolve", path)
    BY <1>1 DEF Told, EvidenceTold, RcaTold, FixTold, ImpactTold, ScenarioTold, ExecutionTold,
                DocumentationTold, EvidenceDecided, RcaDecided, FixDecided, ImpactDecided,
                ScenarioDecided, ExecutionDecided, JobSteps, AnalysisResults, Grounded,
                NoRootCause
  <2> HIDE DEF r
  <2> QED
    BY <1>1, <1>3, <2>2, <2>3, GivesKeeps DEF Piped, JobSteps, r
<1>4. CASE Outage(w)
  BY <1>1, <1>4, JobFailsKeeps DEF Outage
<1>5. QED
  BY <1>2, <1>3, <1>4

(* What LocationIndex.resolve returns is a location, or none at all.       *)
LEMMA ResolveTyped ==
    ASSUME TypeOK, NEW l \in Locations \cup {NoLocation}
    PROVE  Resolve(l) \in Locations \cup {NoLocation}
<1> DEFINE matches == {id \in locations : <<l, id>> \in Matches}
<1>1. CASE l \in locations \cup {NoLocation} \/ Cardinality(matches) # 1
  BY <1>1 DEF Resolve
<1>2. CASE ~(l \in locations \cup {NoLocation} \/ Cardinality(matches) # 1)
  <2>1. matches # {}
    <3>1. Cardinality(matches) = 1
      BY <1>2
    <3> HIDE DEF matches
    <3> QED
      BY <3>1, FS_EmptySet
  <2>2. (CHOOSE id \in matches : TRUE) \in matches
    BY <2>1
  <2>3. Resolve(l) = CHOOSE id \in matches : TRUE
    BY <1>2 DEF Resolve
  <2> QED
    BY <2>2, <2>3 DEF TypeOK
<1>3. QED
  BY <1>1, <1>2

LEMMA NormalizeFactsKeeps ==
    ASSUME IInv, NEW w \in Workers, NormalizeFacts(w)
    PROVE  IInv'
<1> DEFINE facts == Work(w).evidence
           resolved == [i \in DOMAIN facts |->
                           [facts[i] EXCEPT !.location = Resolve(facts[i].location)]]
           r == [Work(w) EXCEPT !.evidence = resolved]
<1>1. /\ request[w].pc \in Piped /\ Work(w) \in AnalysisResults
      /\ Told(Work(w), "resolve", path)
  BY AtStep DEF NormalizeFacts, Piped, JobSteps
<1>2. resolved \in Seq(Items)
  <2>1. facts \in Seq(Items)
    BY <1>1 DEF AnalysisResults
  <2> HIDE DEF facts
  <2> DEFINE item(i) == [facts[i] EXCEPT !.location = Resolve(facts[i].location)]
  <2>2. Len(facts) \in Nat /\ DOMAIN facts = 1 .. Len(facts)
    BY <2>1
  <2>3. ASSUME NEW i \in 1 .. Len(facts) PROVE item(i) \in Items
    <3>1. facts[i] \in Items
      BY <2>1, ElementOfSeq
    <3>2. Resolve(facts[i].location) \in Locations \cup {NoLocation}
      BY <3>1, ResolveTyped DEF IInv, Items
    <3> QED
      BY <3>1, <3>2 DEF Items
  <2> HIDE DEF item
  <2>4. [i \in 1 .. Len(facts) |-> item(i)] \in Seq(Items)
    BY <2>2, <2>3, IsASeq
  <2> QED
    BY <2>2, <2>4 DEF item
<1> HIDE DEF resolved
<1>3. r \in AnalysisResults
  BY <1>1, <1>2 DEF AnalysisResults
<1>4. Told(r, "search", path)
  BY <1>1 DEF Told, EvidenceTold, RcaTold, FixTold, ImpactTold, ScenarioTold, ExecutionTold,
              DocumentationTold, EvidenceDecided, RcaDecided, FixDecided, ImpactDecided,
              ScenarioDecided, ExecutionDecided, JobSteps, AnalysisResults, Grounded, NoRootCause
<1>5. Gives(w, r, "search") /\ LeavesIndex
  BY DEF NormalizeFacts, resolved
<1> HIDE DEF r
<1>6. QED
  BY <1>1, <1>3, <1>4, <1>5, GivesKeeps DEF Piped, JobSteps

LEMMA BeginSearchKeeps ==
    ASSUME IInv, NEW w \in Workers, BeginSearch(w)
    PROVE  IInv'
<1> USE DEF BeginSearch
<1>1. /\ request[w].pc \in Piped /\ Work(w) \in AnalysisResults
      /\ Told(Work(w), "search", path)
  BY AtStep DEF Piped, JobSteps
<1>2. CASE Iterates(w, Cardinality(Indexed), "hits")
  <2>1. Told(Work(w), "hits", path)
    BY <1>1 DEF Told, EvidenceTold, RcaTold, FixTold, ImpactTold, ScenarioTold, ExecutionTold,
                DocumentationTold, EvidenceDecided, RcaDecided, FixDecided, ImpactDecided,
                ScenarioDecided, ExecutionDecided, JobSteps
  <2>2. Cardinality(Indexed) \in Nat
    BY FS_CardinalityType DEF IInv, StoreFits
  <2> QED
    BY <1>1, <1>2, <2>1, <2>2, IteratesKeeps DEF Piped, JobSteps
<1>3. CASE Outage(w)
  BY <1>1, <1>3, JobFailsKeeps DEF Outage
<1>4. QED
  BY <1>2, <1>3

(* The evidence with the hits of the search is evidence.                   *)
LEMMA WithHitsTyped ==
    ASSUME TypeOK, NEW evidence \in Seq(Items), NEW hits \in Hits(evidence)
    PROVE  WithHits(evidence, hits) \in Seq(Items)
<1>1. PICK n \in 0 .. TopK : hits \in [1 .. n -> Indexed \ Known(evidence)]
  BY DEF Hits
<1>2. n \in Nat
  BY <1>1, ServiceAssumption
<1> DEFINE item(i) == [source |-> "semantic", location |-> hits[i]]
<1>3. \A i \in 1 .. n : item(i) \in Items
  BY <1>1 DEF Items, Sources, Indexed
<1> HIDE DEF item
<1>4. [i \in 1 .. n |-> item(i)] \in Seq(Items)
  BY <1>2, <1>3, IsASeq
<1>5. WithHits(evidence, hits) = evidence \o [i \in 1 .. n |-> item(i)]
  BY <1>1 DEF WithHits, item
<1>6. QED
  BY <1>4, <1>5, ConcatProperties

LEMMA EndSearchKeeps ==
    ASSUME IInv, NEW w \in Workers, EndSearch(w)
    PROVE  IInv'
<1>1. /\ request[w].pc \in Piped /\ Work(w) \in AnalysisResults
      /\ Told(Work(w), "hits", path) /\ LeavesIndex
  BY AtStep DEF EndSearch, Piped, JobSteps
<1>2. CASE JobFails(w)
  BY <1>1, <1>2, JobFailsKeeps
<1>3. ASSUME NEW hits \in Hits(Work(w).evidence),
             NEW evidence, evidence = WithHits(Work(w).evidence, hits),
             NEW note, note = IF evidence = <<>> THEN {"evidence"} ELSE {},
             Gives(w, [Work(w) EXCEPT !.evidence = evidence, !.notes = @ \cup note], "rca")
      PROVE  IInv'
  <2> DEFINE r == [Work(w) EXCEPT !.evidence = evidence, !.notes = @ \cup note]
  <2>1. evidence \in Seq(Items)
    BY <1>1, <1>3, WithHitsTyped DEF AnalysisResults, IInv
  <2>2. r \in AnalysisResults
    BY <1>1, <1>3, <2>1 DEF AnalysisResults, Notes
  <2>3. Told(r, "rca", path)
    BY <1>1, <1>3 DEF Told, EvidenceTold, RcaTold, FixTold, ImpactTold, ScenarioTold, ExecutionTold,
                DocumentationTold, EvidenceDecided, RcaDecided, FixDecided, ImpactDecided,
                ScenarioDecided, ExecutionDecided, JobSteps, AnalysisResults, Grounded,
                NoRootCause
  <2>4. Gives(w, r, "rca")
    BY <1>3
  <2> HIDE DEF r
  <2> QED
    BY <1>1, <2>2, <2>3, <2>4, GivesKeeps DEF Piped, JobSteps
<1>4. QED
  BY <1>2, <1>3 DEF EndSearch

LEMMA FindRootCauseKeeps ==
    ASSUME IInv, NEW w \in Workers, FindRootCause(w)
    PROVE  IInv'
<1> DEFINE evidence == Work(w).evidence
<1>1. /\ request[w].pc \in Piped /\ Work(w) \in AnalysisResults
      /\ Told(Work(w), "rca", path) /\ LeavesIndex
  BY AtStep DEF FindRootCause, Piped, JobSteps
<1>2. evidence \in Seq(Items)
  BY <1>1 DEF AnalysisResults
<1>3. ASSUME NEW cause \in RootCauses, Grounded(cause, evidence), cause.status # "none",
             Gives(w, [Work(w) EXCEPT !.rca = cause], "fix")
      PROVE  IInv'
  <2> DEFINE r == [Work(w) EXCEPT !.rca = cause]
  <2>1. r \in AnalysisResults
    BY <1>1 DEF AnalysisResults
  <2>2. Told(r, "fix", path)
    BY <1>1, <1>3 DEF Told, EvidenceTold, RcaTold, FixTold, ImpactTold, ScenarioTold,
                ExecutionTold, DocumentationTold, EvidenceDecided, RcaDecided, FixDecided,
                ImpactDecided, ScenarioDecided, ExecutionDecided, JobSteps, AnalysisResults, NoFix
  <2>3. Gives(w, r, "fix")
    BY <1>3
  <2> HIDE DEF r
  <2> QED
    BY <1>1, <2>1, <2>2, <2>3, GivesKeeps DEF Piped, JobSteps
<1>4. CASE Gives(w, [Work(w) EXCEPT !.rca = Insufficient], "fix")
  <2>1. Insufficient \in RootCauses /\ Grounded(Insufficient, evidence)
        /\ Insufficient.status # "none"
    BY DEF Insufficient, RootCauses, Grounded
  <2> QED
    BY <1>3, <1>4, <2>1
<1>5. ASSUME NEW answer \in Answers(Len(evidence) + 1),
             Gives(w, [Work(w) EXCEPT !.rca = Ground(answer, evidence)], "fix")
      PROVE  IInv'
  <2>1. Known(evidence) \subseteq Locations
    <3>1. \A i \in DOMAIN evidence : evidence[i] \in Items
      BY <1>2
    <3> QED
      BY <3>1 DEF Known, Items
  <2>2. /\ ResolveLocation(answer, evidence) \in Locations \cup {NoLocation}
        /\ Grounded(Ground(answer, evidence), evidence)
    BY <2>1, ResolvedIsInEvidence, GroundedAlways
  <2>3. Ground(answer, evidence) \in RootCauses /\ Ground(answer, evidence).status # "none"
    BY <2>2 DEF Ground, RootCauses
  <2> QED
    BY <1>3, <1>5, <2>2, <2>3
<1>6. CASE Gives(w, Noted(w, "rca"), "fix")
  <2> DEFINE r == Noted(w, "rca")
  <2>1. r \in AnalysisResults
    BY <1>1 DEF AnalysisResults, Noted, Notes
  <2>2. Told(r, "fix", path)
    BY <1>1 DEF Told, EvidenceTold, RcaTold, FixTold, ImpactTold, ScenarioTold, ExecutionTold,
                DocumentationTold, EvidenceDecided, RcaDecided, FixDecided, ImpactDecided,
                ScenarioDecided, ExecutionDecided, JobSteps, AnalysisResults, Noted, NoFix,
                NoRootCause
  <2> HIDE DEF r
  <2> QED
    BY <1>1, <1>6, <2>1, <2>2, GivesKeeps DEF Piped, JobSteps, r
<1>7. CASE Outage(w)
  BY <1>1, <1>7, JobFailsKeeps DEF Outage
<1>8. QED
  BY <1>4, <1>5, <1>6, <1>7 DEF FindRootCause

LEMMA RecommendFixKeeps ==
    ASSUME IInv, NEW w \in Workers, RecommendFix(w)
    PROVE  IInv'
<1>1. /\ request[w].pc \in Piped /\ Work(w) \in AnalysisResults
      /\ Told(Work(w), "fix", path) /\ LeavesIndex
  BY AtStep DEF RecommendFix, Piped, JobSteps
<1>2. ASSUME NEW fix \in Fixes, fix.status # "none",
             fix.status = "recommended" =>
                 /\ Work(w).rca.status = "established"
                 /\ fix.location = Work(w).rca.location /\ Work(w).rca.location # NoLocation
                 /\ fix.source # NoRepo /\ fix.location \in ChunksOf[fix.source],
             Gives(w, [Work(w) EXCEPT !.fix = fix], "impact")
      PROVE  IInv'
  <2> DEFINE r == [Work(w) EXCEPT !.fix = fix]
  <2>1. r \in AnalysisResults
    BY <1>1 DEF AnalysisResults
  <2>2. Told(r, "impact", path)
    BY <1>1, <1>2 DEF Told, EvidenceTold, RcaTold, FixTold, ImpactTold, ScenarioTold,
                ExecutionTold, DocumentationTold, EvidenceDecided, RcaDecided, FixDecided,
                ImpactDecided, ScenarioDecided, ExecutionDecided, JobSteps, AnalysisResults
  <2>3. Gives(w, r, "impact")
    BY <1>2
  <2> HIDE DEF r
  <2> QED
    BY <1>1, <2>1, <2>2, <2>3, GivesKeeps DEF Piped, JobSteps
<1>3. CASE Gives(w, [Work(w) EXCEPT !.fix = [NoFix EXCEPT !.status = "skipped"]], "impact")
  <2>1. /\ [NoFix EXCEPT !.status = "skipped"] \in Fixes
        /\ [NoFix EXCEPT !.status = "skipped"].status = "skipped"
    BY DEF NoFix, Fixes
  <2> QED
    BY <1>2, <1>3, <2>1
<1>4. ASSUME Fixable(w), NEW diff \in BOOLEAN, NEW test \in BOOLEAN, NEW fix,
             fix = [status |-> "recommended", location |-> Work(w).rca.location,
                    source |-> store[Work(w).rca.location], diff |-> diff, test |-> test],
             Gives(w, [Work(w) EXCEPT !.fix = fix], "impact")
      PROVE  IInv'
  <2>1. Work(w).rca.location \in Locations
    BY <1>1, <1>4 DEF Fixable, AnalysisResults, RootCauses
  <2>2. /\ store[Work(w).rca.location] \in Repos
        /\ Work(w).rca.location \in ChunksOf[store[Work(w).rca.location]]
        /\ store[Work(w).rca.location] # NoRepo
    BY <1>4, <2>1 DEF Fixable, IInv, TypeOK, StoreFits
  <2>3. fix \in Fixes
    BY <1>4, <2>1, <2>2 DEF Fixes
  <2>4. Work(w).rca.status = "established" /\ Work(w).rca.location # NoLocation
    BY <1>4 DEF Fixable
  <2> QED
    BY <1>2, <1>4, <2>2, <2>3, <2>4
<1>5. CASE Gives(w, Noted(w, "fix"), "impact")
  <2> DEFINE r == Noted(w, "fix")
  <2>1. r \in AnalysisResults
    BY <1>1 DEF AnalysisResults, Noted, Notes
  <2>2. Told(r, "impact", path)
    BY <1>1 DEF Told, EvidenceTold, RcaTold, FixTold, ImpactTold, ScenarioTold, ExecutionTold,
                DocumentationTold, EvidenceDecided, RcaDecided, FixDecided, ImpactDecided,
                ScenarioDecided, ExecutionDecided, JobSteps, AnalysisResults, Noted, NoFix
  <2> HIDE DEF r
  <2> QED
    BY <1>1, <1>5, <2>1, <2>2, GivesKeeps DEF Piped, JobSteps, r
<1>6. CASE Outage(w)
  BY <1>1, <1>6, JobFailsKeeps DEF Outage
<1>7. QED
  BY <1>3, <1>4, <1>5, <1>6 DEF RecommendFix

LEMMA BeginImpactKeeps ==
    ASSUME IInv, NEW w \in Workers, BeginImpact(w)
    PROVE  IInv'
<1>1. /\ request[w].pc \in Piped /\ Work(w) \in AnalysisResults
      /\ Told(Work(w), "impact", path) /\ LeavesIndex
  BY AtStep DEF BeginImpact, Piped, JobSteps
<1>2. CASE ~Recommended(w) /\ Gives(w, [Work(w) EXCEPT !.impact = "skipped"], "scenario")
  <2> DEFINE r == [Work(w) EXCEPT !.impact = "skipped"]
  <2>1. r \in AnalysisResults
    BY <1>1 DEF AnalysisResults
  <2>2. Told(r, "scenario", path)
    BY <1>1, <1>2 DEF Told, EvidenceTold, RcaTold, FixTold, ImpactTold, ScenarioTold,
                ExecutionTold, DocumentationTold, EvidenceDecided, RcaDecided, FixDecided,
                ImpactDecided, ScenarioDecided, ExecutionDecided, JobSteps, AnalysisResults,
                Recommended
  <2>3. Gives(w, r, "scenario")
    BY <1>2
  <2> HIDE DEF r
  <2> QED
    BY <1>1, <2>1, <2>2, <2>3, GivesKeeps DEF Piped, JobSteps
<1>3. CASE Iterates(w, Cardinality(callGraph), "callers")
  <2>1. Told(Work(w), "callers", path)
    BY <1>1 DEF Told, EvidenceTold, RcaTold, FixTold, ImpactTold, ScenarioTold, ExecutionTold,
                DocumentationTold, EvidenceDecided, RcaDecided, FixDecided, ImpactDecided,
                ScenarioDecided, ExecutionDecided, JobSteps
  <2>2. Cardinality(callGraph) \in Nat
    BY FS_CardinalityType DEF IInv, StoreFits
  <2> QED
    BY <1>1, <1>3, <2>1, <2>2, IteratesKeeps DEF Piped, JobSteps
<1>4. QED
  BY <1>2, <1>3 DEF BeginImpact

LEMMA ExplainImpactKeeps ==
    ASSUME IInv, NEW w \in Workers, ExplainImpact(w)
    PROVE  IInv'
<1>1. /\ request[w].pc \in Piped /\ Work(w) \in AnalysisResults
      /\ Told(Work(w), "callers", path) /\ LeavesIndex
  BY AtStep DEF ExplainImpact, Piped, JobSteps
<1>2. ASSUME NEW r, r = [Work(w) EXCEPT !.impact = "explained"] \/ r = Noted(w, "impact"),
             Gives(w, r, "scenario")
      PROVE  IInv'
  <2>1. r \in AnalysisResults
    BY <1>1, <1>2 DEF AnalysisResults, Noted, Notes
  <2>2. Told(r, "scenario", path)
    BY <1>1, <1>2 DEF Told, EvidenceTold, RcaTold, FixTold, ImpactTold, ScenarioTold,
                ExecutionTold, DocumentationTold, EvidenceDecided, RcaDecided, FixDecided,
                ImpactDecided, ScenarioDecided, ExecutionDecided, JobSteps, AnalysisResults, Noted
  <2> QED
    BY <1>1, <1>2, <2>1, <2>2, GivesKeeps DEF Piped, JobSteps
<1>3. CASE JobFails(w)
  BY <1>1, <1>3, JobFailsKeeps
<1>4. QED
  BY <1>2, <1>3 DEF ExplainImpact, ImpactFailed, Outage

LEMMA WriteScenarioKeeps ==
    ASSUME IInv, NEW w \in Workers, WriteScenario(w)
    PROVE  IInv'
<1>1. /\ request[w].pc \in Piped /\ Work(w) \in AnalysisResults
      /\ Told(Work(w), "scenario", path) /\ LeavesIndex
  BY AtStep DEF WriteScenario, Piped, JobSteps
<1>2. CASE ~Recommended(w) /\ Gives(w, [Work(w) EXCEPT !.scenario = "skipped"], "architecture")
  <2> DEFINE r == [Work(w) EXCEPT !.scenario = "skipped"]
  <2>1. r \in AnalysisResults
    BY <1>1 DEF AnalysisResults, Noted, Notes
  <2>2. Told(r, "architecture", path)
    BY <1>1, <1>2 DEF Told, EvidenceTold, RcaTold, FixTold, ImpactTold, ScenarioTold,
                ExecutionTold, DocumentationTold, EvidenceDecided, RcaDecided, FixDecided,
                ImpactDecided, ScenarioDecided, ExecutionDecided, JobSteps, AnalysisResults,
                Recommended
  <2>3. Gives(w, r, "architecture")
    BY <1>2
  <2> HIDE DEF r
  <2> QED
    BY <1>1, <2>1, <2>2, <2>3, GivesKeeps DEF Piped, JobSteps
<1>3. CASE Recommended(w) /\ Gives(w, [Work(w) EXCEPT !.scenario = "generated"], "execution")
  <2> DEFINE r == [Work(w) EXCEPT !.scenario = "generated"]
  <2>1. r \in AnalysisResults
    BY <1>1 DEF AnalysisResults, Noted, Notes
  <2>2. Told(r, "execution", path)
    BY <1>1, <1>3 DEF Told, EvidenceTold, RcaTold, FixTold, ImpactTold, ScenarioTold,
                ExecutionTold, DocumentationTold, EvidenceDecided, RcaDecided, FixDecided,
                ImpactDecided, ScenarioDecided, ExecutionDecided, JobSteps, AnalysisResults,
                Recommended
  <2>3. Gives(w, r, "execution")
    BY <1>3
  <2> HIDE DEF r
  <2> QED
    BY <1>1, <2>1, <2>2, <2>3, GivesKeeps DEF Piped, JobSteps
<1>4. CASE Gives(w, [Noted(w, "scenario") EXCEPT !.scenario = "skipped"], "architecture")
  <2> DEFINE r == [Noted(w, "scenario") EXCEPT !.scenario = "skipped"]
  <2>1. r \in AnalysisResults
    BY <1>1 DEF AnalysisResults, Noted, Notes
  <2>2. Told(r, "architecture", path)
    BY <1>1, <1>4 DEF Told, EvidenceTold, RcaTold, FixTold, ImpactTold, ScenarioTold,
                ExecutionTold, DocumentationTold, EvidenceDecided, RcaDecided, FixDecided,
                ImpactDecided, ScenarioDecided, ExecutionDecided, JobSteps, AnalysisResults, Noted
  <2>3. Gives(w, r, "architecture")
    BY <1>4
  <2> HIDE DEF r
  <2> QED
    BY <1>1, <2>1, <2>2, <2>3, GivesKeeps DEF Piped, JobSteps
<1>5. CASE Outage(w)
  BY <1>1, <1>5, JobFailsKeeps DEF Outage
<1>6. QED
  BY <1>2, <1>3, <1>4, <1>5 DEF WriteScenario

LEMMA RunScenarioKeeps ==
    ASSUME IInv, NEW w \in Workers, RunScenario(w)
    PROVE  IInv'
<1>1. /\ request[w].pc \in Piped /\ Work(w) \in AnalysisResults
      /\ Told(Work(w), "execution", path) /\ LeavesIndex
  BY AtStep DEF RunScenario, Piped, JobSteps
<1>2. CASE Gives(w, [Work(w) EXCEPT !.execution = "not_run"], "architecture")
  <2> DEFINE r == [Work(w) EXCEPT !.execution = "not_run"]
  <2>1. r \in AnalysisResults
    BY <1>1 DEF AnalysisResults, Noted, Notes
  <2>2. Told(r, "architecture", path)
    BY <1>1, <1>2 DEF Told, EvidenceTold, RcaTold, FixTold, ImpactTold, ScenarioTold,
                ExecutionTold, DocumentationTold, EvidenceDecided, RcaDecided, FixDecided,
                ImpactDecided, ScenarioDecided, ExecutionDecided, JobSteps, AnalysisResults
  <2>3. Gives(w, r, "architecture")
    BY <1>2
  <2> HIDE DEF r
  <2> QED
    BY <1>1, <2>1, <2>2, <2>3, GivesKeeps DEF Piped, JobSteps
<1>3. ASSUME Runnable(w), NEW status \in {"passed", "failed", "error"},
             Gives(w, [Work(w) EXCEPT !.execution = status], "architecture")
      PROVE  IInv'
  <2> DEFINE r == [Work(w) EXCEPT !.execution = status]
  <2>1. r \in AnalysisResults
    BY <1>1, <1>3 DEF AnalysisResults
  <2>2. Told(r, "architecture", path)
    BY <1>1, <1>3 DEF Told, EvidenceTold, RcaTold, FixTold, ImpactTold, ScenarioTold,
                ExecutionTold, DocumentationTold, EvidenceDecided, RcaDecided, FixDecided,
                ImpactDecided, ScenarioDecided, ExecutionDecided, JobSteps, AnalysisResults,
                Runnable
  <2>3. Gives(w, r, "architecture")
    BY <1>3
  <2> HIDE DEF r
  <2> QED
    BY <1>1, <2>1, <2>2, <2>3, GivesKeeps DEF Piped, JobSteps
<1>4. CASE Gives(w, [Noted(w, "execution") EXCEPT !.execution = "error"], "architecture")
  <2> DEFINE r == [Noted(w, "execution") EXCEPT !.execution = "error"]
  <2>1. r \in AnalysisResults
    BY <1>1 DEF AnalysisResults, Noted, Notes
  <2>2. Told(r, "architecture", path)
    BY <1>1, <1>4 DEF Told, EvidenceTold, RcaTold, FixTold, ImpactTold, ScenarioTold,
                ExecutionTold, DocumentationTold, EvidenceDecided, RcaDecided, FixDecided,
                ImpactDecided, ScenarioDecided, ExecutionDecided, JobSteps, AnalysisResults, Noted
  <2>3. Gives(w, r, "architecture")
    BY <1>4
  <2> HIDE DEF r
  <2> QED
    BY <1>1, <2>1, <2>2, <2>3, GivesKeeps DEF Piped, JobSteps
<1>5. QED
  BY <1>2, <1>3, <1>4 DEF RunScenario, SandboxFails

LEMMA CompareArchitectureKeeps ==
    ASSUME IInv, NEW w \in Workers, CompareArchitecture(w)
    PROVE  IInv'
<1>1. /\ request[w].pc \in Piped /\ Work(w) \in AnalysisResults
      /\ Told(Work(w), "architecture", path) /\ LeavesIndex
  BY AtStep DEF CompareArchitecture, Piped, JobSteps
<1>2. ASSUME NEW r,
             \/ r = Work(w)
             \/ r = [Work(w) EXCEPT !.architecture = "compared"]
             \/ r = Noted(w, "architecture"),
             Gives(w, r, "documentation")
      PROVE  IInv'
  <2>1. r \in AnalysisResults
    BY <1>1, <1>2 DEF AnalysisResults, Noted, Notes
  <2>2. Told(r, "documentation", path)
    BY <1>1, <1>2 DEF Told, EvidenceTold, RcaTold, FixTold, ImpactTold, ScenarioTold,
                ExecutionTold, DocumentationTold, EvidenceDecided, RcaDecided, FixDecided,
                ImpactDecided, ScenarioDecided, ExecutionDecided, JobSteps, AnalysisResults, Noted
  <2> QED
    BY <1>1, <1>2, <2>1, <2>2, GivesKeeps DEF Piped, JobSteps
<1>3. QED
  BY <1>2 DEF CompareArchitecture

LEMMA WriteReportKeeps ==
    ASSUME IInv, NEW w \in Workers, WriteReport(w)
    PROVE  IInv'
<1>1. /\ request[w].pc \in Piped /\ Work(w) \in AnalysisResults
      /\ Told(Work(w), "documentation", path) /\ LeavesIndex
  BY AtStep DEF WriteReport, Piped, JobSteps
<1>2. CASE /\ Work(w).rca.status # "established"
           /\ Gives(w, [Work(w) EXCEPT !.documentation = "skipped"], "complete")
  <2> DEFINE r == [Work(w) EXCEPT !.documentation = "skipped"]
  <2>1. r \in AnalysisResults
    BY <1>1 DEF AnalysisResults, Noted, Notes
  <2>2. Told(r, "complete", path)
    BY <1>1, <1>2 DEF Told, EvidenceTold, RcaTold, FixTold, ImpactTold, ScenarioTold,
                ExecutionTold, DocumentationTold, EvidenceDecided, RcaDecided, FixDecided,
                ImpactDecided, ScenarioDecided, ExecutionDecided, JobSteps, AnalysisResults
  <2>3. Gives(w, r, "complete")
    BY <1>2
  <2> HIDE DEF r
  <2> QED
    BY <1>1, <2>1, <2>2, <2>3, GivesKeeps DEF Piped, JobSteps
<1>3. CASE /\ Work(w).rca.status = "established"
           /\ Gives(w, [Work(w) EXCEPT !.documentation = "generated"], "complete")
  <2> DEFINE r == [Work(w) EXCEPT !.documentation = "generated"]
  <2>1. r \in AnalysisResults
    BY <1>1 DEF AnalysisResults, Noted, Notes
  <2>2. Told(r, "complete", path)
    BY <1>1, <1>3 DEF Told, EvidenceTold, RcaTold, FixTold, ImpactTold, ScenarioTold,
                ExecutionTold, DocumentationTold, EvidenceDecided, RcaDecided, FixDecided,
                ImpactDecided, ScenarioDecided, ExecutionDecided, JobSteps, AnalysisResults
  <2>3. Gives(w, r, "complete")
    BY <1>3
  <2> HIDE DEF r
  <2> QED
    BY <1>1, <2>1, <2>2, <2>3, GivesKeeps DEF Piped, JobSteps
<1>4. CASE Gives(w, [Noted(w, "documentation") EXCEPT !.documentation = "skipped"], "complete")
  <2> DEFINE r == [Noted(w, "documentation") EXCEPT !.documentation = "skipped"]
  <2>1. r \in AnalysisResults
    BY <1>1 DEF AnalysisResults, Noted, Notes
  <2>2. Told(r, "complete", path)
    BY <1>1, <1>4 DEF Told, EvidenceTold, RcaTold, FixTold, ImpactTold, ScenarioTold,
                ExecutionTold, DocumentationTold, EvidenceDecided, RcaDecided, FixDecided,
                ImpactDecided, ScenarioDecided, ExecutionDecided, JobSteps, AnalysisResults, Noted
  <2>3. Gives(w, r, "complete")
    BY <1>4
  <2> HIDE DEF r
  <2> QED
    BY <1>1, <2>1, <2>2, <2>3, GivesKeeps DEF Piped, JobSteps
<1>5. CASE Outage(w)
  BY <1>1, <1>5, JobFailsKeeps DEF Outage
<1>6. QED
  BY <1>2, <1>3, <1>4, <1>5 DEF WriteReport

-----------------------------------------------------------------------------
(***************************************************************************)
(* The steps that change the record of a job.                              *)
(***************************************************************************)
LEMMA CompleteJobKeeps ==
    ASSUME IInv, NEW w \in Workers, CompleteJob(w)
    PROVE  IInv'
<1> DEFINE job == [jobs[Task(w)] EXCEPT !.state = "completed", !.result = Work(w)]
<1>1. /\ request[w].pc \in Piped /\ Work(w) \in AnalysisResults
      /\ Told(Work(w), "complete", path)
  BY AtStep DEF CompleteJob, Piped, JobSteps
<1>2. Task(w) \in JobIds /\ jobs[Task(w)] \in JobRecords
  BY <1>1 DEF IInv, TypeOK, TasksFit, Piped
<1>3. job \in JobRecords /\ job.state = "completed" /\ job.result = Work(w)
  BY <1>1, <1>2 DEF JobRecords
<1>4. jobs' = [jobs EXCEPT ![Task(w)] = job]
  BY DEF CompleteJob
<1> HIDE DEF job
<1>5. Moves(w, Idle) /\ LeavesIndex
  BY IdleTyped DEF Moves, CompleteJob, Over
<1>6. Idle.pc = "idle" /\ ~Idle.alone /\ Told(Idle.work, Idle.pc, path)
  BY NothingTold DEF Idle, JobSteps
<1>7. QED
  BY <1>1, <1>3, <1>4, <1>5, <1>6, JobStepKeeps DEF Piped

LEMMA CreateOrStart ==
    ASSUME IInv, NEW w \in Workers, NEW label, NEW state, LeavesIndex,
           \/ At(w, "create") /\ label = "queued" /\ state = "queued"
           \/ At(w, "queued") /\ label = "issue" /\ state = "running",
           jobs' = [jobs EXCEPT ![Task(w)].state = state], Goto(w, label)
    PROVE  IInv'
<1> DEFINE job == [jobs[Task(w)] EXCEPT !.state = state]
           rec == [request[w] EXCEPT !.pc = label]
<1>1. /\ request[w] \in RequestRecords /\ Task(w) \in JobIds
      /\ jobs[Task(w)] \in JobRecords
  BY DEF IInv, TypeOK, TasksFit, At, JobSteps
<1>2. jobs[Task(w)].state = StateAt(request[w].pc) /\ request[w].pc \in {"create", "queued"}
  BY <1>1 DEF IInv, JobsFit, At
<1>3. jobs[Task(w)].result = NoWork
  BY <1>1, <1>2 DEF IInv, JobsFit, StateAt, RequestSteps
<1>4. job \in JobRecords /\ job.state = state /\ job.result = NoWork
  BY <1>1, <1>3 DEF JobRecords
<1>5. /\ rec \in RequestRecords /\ rec.pc = label /\ rec.task = Task(w) /\ rec.work = Work(w)
      /\ rec.alone = request[w].alone
  BY <1>1 DEF RequestRecords, JobSteps, Task, Work
<1>6. ~rec.alone
  BY <1>2, <1>5 DEF IInv, AloneFits, IndexedSoFar, IndexSteps
<1>7. Work(w) = NoWork
  BY <1>2 DEF IInv, WorkTold, Told, JobSteps
<1>8. Told(rec.work, rec.pc, path)
  <2>1. Told(NoWork, "queued", path)
    BY NothingTold
  <2>2. Told(NoWork, label, path)
    BY <2>1 DEF Told, EvidenceTold, RcaTold, FixTold, ImpactTold, ScenarioTold,
                ExecutionTold, DocumentationTold, EvidenceDecided, RcaDecided, FixDecided,
                ImpactDecided, ScenarioDecided, ExecutionDecided, JobSteps
  <2> QED
    BY <1>5, <1>7, <2>2
<1>9. Moves(w, rec) /\ jobs' = [jobs EXCEPT ![Task(w)] = job]
  BY <1>5 DEF Moves, Goto
<1>10. state = StateAt(label) /\ state # "completed" /\ label \in JobSteps
  BY DEF StateAt, RequestSteps, JobSteps
<1> HIDE DEF job, rec
<1>11. /\ rec.pc \in JobSteps /\ rec.task = Task(w) /\ job.state = StateAt(rec.pc)
       /\ request[w].pc \in {"create"} \cup JobSteps
       /\ job.state # "completed"
  BY <1>2, <1>4, <1>5, <1>10 DEF JobSteps
<1>12. QED
  BY <1>4, <1>6, <1>8, <1>9, <1>11, JobStepKeeps

LEMMA CreateJobKeeps ==
    ASSUME IInv, NEW w \in Workers, CreateJob(w)
    PROVE  IInv'
BY CreateOrStart DEF CreateJob

LEMMA StartJobKeeps ==
    ASSUME IInv, NEW w \in Workers, StartJob(w)
    PROVE  IInv'
BY CreateOrStart DEF StartJob

-----------------------------------------------------------------------------
(***************************************************************************)
(* Steps of a request that is not yet, or never, a job.                    *)
(***************************************************************************)
LEMMA ServesKeeps ==
    ASSUME IInv, NEW w \in Workers, NEW rec, Moves(w, rec), UNCHANGED jobs,
           path # NoRepo => path' # NoRepo, request[w].pc \in RequestSteps \cup IndexSteps,
           rec.work = NoWork,
           \/ rec.pc = "idle"
           \/ /\ rec.task = Task(w) /\ rec.pc \in RequestSteps \cup IndexSteps
              /\ rec.pc = "create" => Task(w) \in JobIds
              /\ rec.pc \in IndexSteps => Task(w) \in Repos
    PROVE  TasksFit' /\ JobsFit' /\ WorkTold'
<1> USE DEF IInv
<1>1. ~At(w, "idle") /\ rec.pc \notin JobSteps
  BY DEF At, RequestSteps, IndexSteps, JobSteps
<1>2. TasksFit'
  BY <1>1, TasksKept
<1>3. ASSUME rec.pc # "idle", rec.task \in JobIds
      PROVE  jobs[rec.task].state = StateAt(rec.pc)
  <2>1. Task(w) \in JobIds /\ Task(w) \notin Repos /\ rec.task = Task(w)
    BY <1>3, ServiceAssumption
  <2>2. request[w].pc \in RequestSteps /\ rec.pc \in RequestSteps
    BY <1>3, <2>1 DEF TasksFit
  <2>3. jobs[Task(w)].state = "absent"
    BY <1>1, <2>1, <2>2 DEF JobsFit, StateAt
  <2> QED
    BY <2>1, <2>2, <2>3 DEF StateAt
<1>4. JobsFit'
  BY <1>3, JobsKept
<1>5. WorkTold'
  BY <1>1, NothingTold, WorkKept
<1>6. QED
  BY <1>2, <1>4, <1>5

(* Steps that leave the index alone: a request before it, or its end.      *)
LEMMA RequestStepKeeps ==
    ASSUME IInv, NEW w \in Workers, NEW rec, Moves(w, rec), UNCHANGED <<index, jobs, indexings>>,
           engines' \in {"none", "stub", "real"}, request[w].pc \in RequestSteps \cup IndexSteps,
           rec.work = NoWork, ~rec.alone,
           \/ rec.pc = "idle"
           \/ /\ rec.task = Task(w) /\ rec.pc \in RequestSteps
              /\ rec.pc = "create" => Task(w) \in JobIds
    PROVE  IInv'
<1>1. rec.pc \notin IndexSteps
  BY DEF RequestSteps, IndexSteps
<1>2. TypeOK'
  BY MovesTo DEF IInv, TypeOK, index
<1>3. TasksFit' /\ JobsFit' /\ WorkTold'
  BY <1>1, ServesKeeps DEF index
<1>4. StoreFits'
  BY <1>1, StoreKept DEF IInv, index, IndexSteps
<1>5. AloneFits'
  BY <1>1, AloneKept DEF IInv
<1>6. QED
  BY <1>2, <1>3, <1>4, <1>5 DEF IInv

(* Nothing is known yet of a request that is not a job.                    *)
LEMMA NoWorkYet ==
    ASSUME IInv, NEW w \in Workers, request[w].pc \in RequestSteps \cup IndexSteps
    PROVE  /\ request[w] \in RequestRecords /\ request[w].work = NoWork
           /\ request[w].pc \in RequestSteps => ~request[w].alone
           /\ request[w].pc \in IndexSteps => Task(w) \in Repos
           /\ request[w].pc = "create" => Task(w) \in JobIds
<1>1. request[w].pc \notin JobSteps
  BY DEF RequestSteps, IndexSteps, JobSteps
<1>2. request[w] \in RequestRecords /\ request[w].work = NoWork
  BY <1>1 DEF IInv, TypeOK, WorkTold, Told, Work
<1>3. request[w].pc \in RequestSteps => ~request[w].alone
  BY DEF IInv, AloneFits, IndexedSoFar, RequestSteps, IndexSteps
<1>4. QED
  BY <1>2, <1>3 DEF IInv, TasksFit

LEMMA OverKeeps ==
    ASSUME IInv, NEW w \in Workers, Over(w), UNCHANGED <<index, jobs, indexings>>,
           UNCHANGED engines, request[w].pc \in RequestSteps \cup IndexSteps
    PROVE  IInv'
<1>1. Moves(w, Idle)
  BY IdleTyped DEF Moves, Over
<1>2. Idle.pc = "idle" /\ Idle.work = NoWork /\ ~Idle.alone
  BY DEF Idle
<1>3. engines' \in {"none", "stub", "real"}
  BY DEF IInv, TypeOK
<1>4. QED
  BY <1>1, <1>2, <1>3, RequestStepKeeps

(* On to the next label before there is a task to serve.                   *)
LEMMA GoesOn ==
    ASSUME IInv, NEW w \in Workers, NEW label \in {"build", "return"}, Goto(w, label),
           UNCHANGED <<index, jobs, indexings>>, engines' \in {"none", "stub", "real"},
           request[w].pc \in RequestSteps
    PROVE  IInv'
<1> DEFINE rec == [request[w] EXCEPT !.pc = label]
<1>1. /\ request[w] \in RequestRecords /\ request[w].work = NoWork /\ ~request[w].alone
  BY NoWorkYet
<1>2. rec \in RequestRecords
  BY <1>1 DEF RequestRecords, RequestSteps
<1>3. /\ rec.work = NoWork /\ ~rec.alone /\ rec.task = Task(w) /\ rec.pc = label
  BY <1>1 DEF RequestRecords, Task
<1>4. request' = [request EXCEPT ![w] = rec]
  BY DEF Goto
<1> HIDE DEF rec
<1>5. Moves(w, rec) /\ rec.pc \in RequestSteps /\ rec.pc # "create"
  BY <1>2, <1>3, <1>4 DEF Moves, RequestSteps
<1>6. QED
  BY <1>3, <1>5, RequestStepKeeps

LEMMA CheckEnginesKeeps ==
    ASSUME IInv, NEW w \in Workers, CheckEngines(w)
    PROVE  IInv'
<1>1. request[w].pc \in RequestSteps /\ engines' \in {"none", "stub", "real"}
  BY DEF CheckEngines, At, RequestSteps, IInv, TypeOK
<1>2. CASE Goto(w, "build")
  BY <1>1, <1>2, GoesOn DEF CheckEngines
<1>3. CASE Goto(w, "return")
  BY <1>1, <1>3, GoesOn DEF CheckEngines
<1>4. QED
  BY <1>2, <1>3 DEF CheckEngines

LEMMA BuildEnginesKeeps ==
    ASSUME IInv, NEW w \in Workers, BuildEngines(w)
    PROVE  IInv'
<1>1. request[w].pc \in RequestSteps /\ UNCHANGED <<index, jobs, indexings>>
  BY DEF BuildEngines, At, RequestSteps
<1>2. CASE engines' \in {"stub", "real"} /\ Goto(w, "return")
  BY <1>1, <1>2, GoesOn
<1>3. CASE UNCHANGED engines /\ Over(w)
  BY <1>1, <1>3, OverKeeps
<1>4. QED
  BY <1>2, <1>3 DEF BuildEngines

LEMMA BeginKeeps ==
    ASSUME IInv, NEW w \in Workers, Begin(w)
    PROVE  IInv'
<1> USE DEF IInv
<1>1. PICK task \in JobIds \cup Repos :
          /\ request' = [request EXCEPT ![w] = [Idle EXCEPT !.pc = "engines", !.task = task]]
          /\ task \in JobIds => jobs[task] = NoJob /\ \A v \in Workers : Task(v) # task
  <2>1. CASE \E j \in JobIds :
                /\ jobs[j] = NoJob
                /\ \A v \in Workers : Task(v) # j
                /\ request' = [request EXCEPT ![w] = [Idle EXCEPT !.pc = "engines", !.task = j]]
    BY <2>1
  <2>2. CASE \E r \in Repos :
                request' = [request EXCEPT ![w] = [Idle EXCEPT !.pc = "engines", !.task = r]]
    BY <2>2, ServiceAssumption
  <2> QED
    BY <2>1, <2>2 DEF Begin
<1> DEFINE rec == [Idle EXCEPT !.pc = "engines", !.task = task]
<1>2. /\ rec \in RequestRecords /\ rec.pc = "engines" /\ rec.task = task /\ rec.work = NoWork
      /\ ~rec.alone
  BY IdleTyped DEF Idle, RequestRecords, RequestSteps
<1>3. request' = [request EXCEPT ![w] = rec]
  BY <1>1
<1> HIDE DEF rec
<1>4. Moves(w, rec) /\ UNCHANGED <<engines, index, jobs>>
  BY <1>2, <1>3 DEF Moves, Begin
<1>5. /\ request'[w] = rec
      /\ \A v \in Workers \ {w} : request'[v] = request[v]
      /\ request' \in [Workers -> RequestRecords]
  BY <1>4, MovesTo
<1>6. TypeOK'
  <2>1. indexings' \in 0 .. MaxIndexings
    <3>1. indexings \in 0 .. MaxIndexings /\ MaxIndexings \in Nat
      BY ServiceAssumption DEF TypeOK
    <3>2. \/ indexings' = indexings
          \/ indexings < MaxIndexings /\ indexings' = indexings + 1
      BY DEF Begin
    <3> HIDE DEF IInv
    <3> QED
      BY <3>1, <3>2
  <2> QED
    BY <1>4, <1>5, <2>1 DEF TypeOK, index
<1>7. TasksFit'
  <2>1. ASSUME NEW v \in Workers
        PROVE  /\ request'[v].pc \in {"create"} \cup JobSteps => request'[v].task \in JobIds
               /\ request'[v].pc \in IndexSteps => request'[v].task \in Repos
               /\ request'[v].pc # "idle" => request'[v].task \in JobIds \cup Repos
    <3>1. CASE v = w
      BY <1>1, <1>2, <1>5, <3>1 DEF JobSteps, IndexSteps
    <3>2. CASE v # w
      BY <1>5, <3>2 DEF TasksFit, Task
    <3> QED
      BY <3>1, <3>2
  <2>2. ASSUME NEW u \in Workers, NEW v \in Workers, u # v, request'[u].pc # "idle",
               request'[v].pc # "idle", request'[u].task \in JobIds
        PROVE  request'[u].task # request'[v].task
    <3>1. CASE u = w
      BY <1>1, <1>2, <1>5, <2>2, <3>1 DEF Task
    <3>2. CASE v = w
      BY <1>1, <1>2, <1>5, <2>2, <3>2 DEF Task
    <3>3. CASE u # w /\ v # w
      BY <1>5, <2>2, <3>3 DEF TasksFit, At, Task
    <3> QED
      BY <3>1, <3>2, <3>3
  <2> QED
    BY <2>1, <2>2 DEF TasksFit, At, Task
<1>8. JobsFit'
  BY <1>1, <1>2, <1>4, JobsKept DEF NoJob, StateAt, RequestSteps, index
<1>9. WorkTold'
  <2>1. Told(rec.work, rec.pc, path)
    BY <1>2, NothingTold DEF JobSteps
  <2> QED
    BY <1>4, <2>1, WorkKept DEF index
<1>10. StoreFits'
  BY <1>2, <1>4, StoreKept DEF index
<1>11. AloneFits'
  BY <1>2, <1>4, AloneKept DEF IndexSteps
<1>12. QED
  BY <1>6, <1>7, <1>8, <1>9, <1>10, <1>11

-----------------------------------------------------------------------------
(***************************************************************************)
(* The index requests.                                                     *)
(***************************************************************************)
(* A step of an index request w: others that are at work were overlapped   *)
(* by w, so that only w itself can be alone.                               *)
LEMMA IndexStepKeeps ==
    ASSUME IInv, NEW w \in Workers, NEW rec, Moves(w, rec), LeavesJobs,
           request[w].pc \in IndexSteps, path # NoRepo => path' # NoRepo,
           rec.pc \in IndexSteps, rec.task = Task(w), rec.work = NoWork,
           rec.alone = request[w].alone,
           callGraph' \subseteq Locations, locations' \subseteq Locations,
           path' \in Repos \cup {NoRepo}, store' \in [Locations -> Repos \cup {NoRepo}],
           graph' \in [Repos -> {"absent", "partial", "ingested"}],
           StoreFits', IndexedSoFar(w) => IndexedSoFar(w)'
    PROVE  IInv'
<1>1. /\ request'[w] = rec
      /\ \A v \in Workers \ {w} : request'[v] = request[v]
      /\ request' \in [Workers -> RequestRecords]
  BY MovesTo DEF IInv
<1>2. TypeOK'
  BY <1>1 DEF IInv, TypeOK, LeavesJobs
<1>3. TasksFit' /\ JobsFit' /\ WorkTold'
  <2>1. Task(w) \in Repos /\ rec.pc # "create"
    BY NoWorkYet DEF IndexSteps
  <2> QED
    BY <2>1, ServesKeeps DEF LeavesJobs
<1>4. Indexing' \subseteq Indexing /\ w \in Indexing
  BY <1>1 DEF Indexing
<1>5. ASSUME NEW v \in Workers, request'[v].alone
      PROVE  IndexedSoFar(v)' /\ \A u \in Indexing' : u = v
  <2>1. request[v].alone
    BY <1>1, <1>5
  <2>2. IndexedSoFar(v) /\ \A u \in Indexing : u = v
    BY <2>1 DEF IInv, AloneFits
  <2>3. v = w
    BY <1>4, <2>2
  <2> QED
    BY <1>4, <2>2, <2>3
<1>6. AloneFits'
  BY <1>5 DEF AloneFits
<1>7. QED
  BY <1>2, <1>3, <1>6 DEF IInv

LEMMA ReturnEnginesKeeps ==
    ASSUME IInv, NEW w \in Workers, ReturnEngines(w)
    PROVE  IInv'
<1>1. /\ request[w] \in RequestRecords /\ request[w].work = NoWork /\ ~request[w].alone
      /\ request[w].pc = "return" /\ request[w].pc \in RequestSteps
      /\ engines \in {"none", "stub", "real"} /\ UNCHANGED <<engines, index, jobs, indexings>>
      /\ Task(w) \in JobIds \cup Repos
  BY NoWorkYet DEF ReturnEngines, At, RequestSteps, IInv, TypeOK, TasksFit
<1>2. CASE Task(w) \in JobIds
  <2> DEFINE rec == [request[w] EXCEPT !.chosen = engines, !.pc = "create"]
  <2>1. rec \in RequestRecords
    BY <1>1 DEF RequestRecords, RequestSteps
  <2>2. /\ rec.work = NoWork /\ ~rec.alone /\ rec.task = Task(w) /\ rec.pc = "create"
    BY <1>1 DEF RequestRecords, Task
  <2>3. request' = [request EXCEPT ![w] = rec]
    BY <1>2 DEF ReturnEngines
  <2> HIDE DEF rec
  <2>4. Moves(w, rec) /\ rec.pc \in RequestSteps
    BY <2>1, <2>2, <2>3 DEF Moves, RequestSteps
  <2> QED
    BY <1>1, <1>2, <2>2, <2>4, RequestStepKeeps
<1>3. CASE Task(w) \notin JobIds
  <2> DEFINE rec == [request[w] EXCEPT !.chosen = engines, !.pc = "graph",
                         !.todo = ChunksOf[Task(w)], !.alone = (Indexing = {})]
  <2>1. Task(w) \in Repos /\ ChunksOf[Task(w)] \subseteq Locations
    BY <1>1, <1>3, ServiceAssumption
  <2>2. rec \in RequestRecords
    BY <1>1, <2>1 DEF RequestRecords, IndexSteps
  <2>3. /\ rec.work = NoWork /\ rec.task = Task(w) /\ rec.pc = "graph"
        /\ rec.todo = ChunksOf[Task(w)]
        /\ rec.alone => Indexing = {}
    BY <1>1 DEF RequestRecords, Task
  <2>4. \A v \in Workers : request[v] \in RequestRecords
    BY DEF IInv, TypeOK
  <2>5. request' = [v \in Workers |-> IF v = w THEN rec ELSE [request[v] EXCEPT !.alone = FALSE]]
    BY <1>3 DEF ReturnEngines
  <2> HIDE DEF rec
  <2>6. request'[w] = rec
    BY <2>5
  <2>7. ASSUME NEW v \in Workers \ {w}
        PROVE  /\ request'[v] \in RequestRecords /\ ~request'[v].alone
               /\ request'[v].pc = request[v].pc /\ request'[v].task = request[v].task
               /\ request'[v].work = request[v].work /\ request'[v].todo = request[v].todo
    BY <2>4, <2>5 DEF RequestRecords
  <2>8. TypeOK'
    <3>1. request' \in [Workers -> RequestRecords]
      BY <2>2, <2>5, <2>6, <2>7
    <3> QED
      BY <1>1, <3>1 DEF IInv, TypeOK, index
  <2>9. TasksFit'
    <3>1. ASSUME NEW v \in Workers
          PROVE  /\ request'[v].task = Task(v)
                 /\ request'[v].pc \in {"create"} \cup JobSteps => Task(v) \in JobIds
                 /\ request'[v].pc \in IndexSteps => Task(v) \in Repos
                 /\ request'[v].pc # "idle" => Task(v) \in JobIds \cup Repos
                 /\ request'[v].pc # "idle" => ~At(v, "idle")
      <4>1. CASE v = w
        BY <1>1, <2>1, <2>3, <2>6, <4>1 DEF Task, JobSteps, At
      <4>2. CASE v # w
        BY <2>7, <4>2 DEF IInv, TasksFit, Task, At
      <4> QED
        BY <4>1, <4>2
    <3> QED
      BY <3>1 DEF IInv, TasksFit, At, Task
  <2>10. JobsFit'
    <3>1. ASSUME NEW v \in Workers, request'[v].pc # "idle", request'[v].task \in JobIds
          PROVE  jobs[request'[v].task].state = StateAt(request'[v].pc)
      <4>1. v # w
        BY <1>3, <2>3, <2>6, <3>1
      <4> QED
        BY <2>7, <3>1, <4>1 DEF IInv, JobsFit, At, Task
    <3> QED
      BY <1>1, <3>1 DEF IInv, JobsFit, At, Task, index
  <2>11. WorkTold'
    <3>1. ASSUME NEW v \in Workers
          PROVE  Told(request'[v].work, request'[v].pc, path)
      <4>1. CASE v = w
        BY <2>3, <2>6, <4>1, NothingTold DEF JobSteps
      <4>2. CASE v # w
        BY <2>7, <4>2 DEF IInv, WorkTold, Work
      <4> QED
        BY <4>1, <4>2
    <3> QED
      BY <1>1, <3>1 DEF WorkTold, Work, index
  <2>12. StoreFits'
    <3>1. ASSUME NEW v \in Workers, request'[v].pc \in {"graph", "add"}
          PROVE  request'[v].todo \subseteq ChunksOf[request'[v].task]
      <4>1. CASE v = w
        BY <2>3, <2>6, <4>1
      <4>2. CASE v # w
        BY <2>7, <3>1, <4>2 DEF IInv, StoreFits, Task
      <4> QED
        BY <4>1, <4>2
    <3> QED
      BY <1>1, <3>1 DEF IInv, StoreFits, Task, Indexed, index
  <2>13. AloneFits'
    <3>1. ASSUME NEW v \in Workers, request'[v].alone
          PROVE  IndexedSoFar(v)' /\ \A u \in Indexing' : u = v
      <4>1. v = w /\ Indexing = {}
        BY <2>3, <2>6, <2>7, <3>1
      <4>2. \A u \in Indexing' : u = v
        BY <2>7, <4>1 DEF Indexing
      <4>3. IndexedSoFar(v)'
        BY <2>3, <2>6, <4>1 DEF IndexedSoFar, IndexSteps, Chosen, Task
      <4> QED
        BY <4>2, <4>3
    <3> QED
      BY <3>1 DEF AloneFits
  <2> QED
    BY <2>8, <2>9, <2>10, <2>11, <2>12, <2>13 DEF IInv
<1>4. QED
  BY <1>2, <1>3

LEMMA StoreGrows ==
    ASSUME IInv, NEW w \in Workers, NEW rec, Moves(w, rec),
           \A l \in Locations : store'[l] # NoRepo => l \in ChunksOf[store'[l]],
           IsFiniteSet(Indexed'), IsFiniteSet(callGraph'),
           rec.pc \in {"graph", "add"} => rec.todo \subseteq ChunksOf[rec.task]
    PROVE  StoreFits'
<1>1. /\ request'[w] = rec
      /\ \A v \in Workers \ {w} : request'[v] = request[v]
  BY MovesTo DEF IInv
<1>2. ASSUME NEW v \in Workers, request'[v].pc \in {"graph", "add"}
      PROVE  request'[v].todo \subseteq ChunksOf[request'[v].task]
  BY <1>1, <1>2 DEF IInv, StoreFits, Task
<1>3. QED
  BY <1>2 DEF StoreFits, Task

(* What is known of an index request at any of its steps.                  *)
LEMMA AtIndexStep ==
    ASSUME IInv, NEW w \in Workers, request[w].pc \in IndexSteps
    PROVE  /\ request[w] \in RequestRecords /\ request[w].work = NoWork
           /\ Task(w) \in Repos /\ Task(w) # NoRepo /\ ChunksOf[Task(w)] \subseteq Locations
           /\ callGraph \subseteq Locations /\ locations \subseteq Locations
           /\ path \in Repos \cup {NoRepo} /\ store \in [Locations -> Repos \cup {NoRepo}]
           /\ graph \in [Repos -> {"absent", "partial", "ingested"}]
           /\ engines \in {"none", "stub", "real"}
BY NoWorkYet, ServiceAssumption DEF IInv, TypeOK

LEMMA LoadGraphKeeps ==
    ASSUME IInv, NEW w \in Workers, LoadGraph(w)
    PROVE  IInv'
<1>1. /\ request[w].pc = "graph" /\ request[w].pc \in IndexSteps /\ LeavesJobs
      /\ UNCHANGED <<locations, path, store, graph>>
  BY DEF LoadGraph, At, IndexSteps
<1>2. /\ request[w] \in RequestRecords /\ request[w].work = NoWork
      /\ ChunksOf[Task(w)] \subseteq Locations /\ request[w].todo \subseteq ChunksOf[Task(w)]
  BY <1>1, AtIndexStep DEF IInv, StoreFits
<1>3. ASSUME NEW l \in request[w].todo, callGraph' = callGraph \cup {l}, Did(w, l)
      PROVE  IInv'
  <2> DEFINE rec == [request[w] EXCEPT !.todo = @ \ {l}]
  <2>1. /\ rec \in RequestRecords /\ rec.work = NoWork /\ rec.pc = "graph"
        /\ rec.task = Task(w) /\ rec.alone = request[w].alone /\ rec.chosen = Chosen(w)
        /\ rec.todo = request[w].todo \ {l}
    BY <1>1, <1>2 DEF RequestRecords, Task, Chosen
  <2>2. request' = [request EXCEPT ![w] = rec]
    BY <1>3 DEF Did
  <2> HIDE DEF rec
  <2>3. Moves(w, rec)
    BY <2>1, <2>2 DEF Moves
  <2>4. request'[w] = rec
    BY <2>3, MovesTo DEF IInv
  <2>5. IsFiniteSet(callGraph') /\ IsFiniteSet(Indexed')
    BY <1>1, <1>3, FS_AddElement DEF IInv, StoreFits, Indexed
  <2>6. StoreFits'
    BY <1>1, <1>2, <2>1, <2>3, <2>5, StoreGrows DEF IInv, StoreFits
  <2>7. IndexedSoFar(w) => IndexedSoFar(w)'
    BY <1>1, <1>3, <2>1, <2>4 DEF IndexedSoFar, Chosen, Task
  <2>8. callGraph' \subseteq Locations
    BY <1>1, <1>2, <1>3, AtIndexStep
  <2> QED
    BY <1>1, <2>1, <2>3, <2>6, <2>7, <2>8, AtIndexStep, IndexStepKeeps
<1>4. CASE /\ Chosen(w) = "real" \/ request[w].todo = {}
           /\ Goto(w, "locations") /\ UNCHANGED callGraph
  <2> DEFINE rec == [request[w] EXCEPT !.pc = "locations"]
  <2>1. /\ rec \in RequestRecords /\ rec.work = NoWork /\ rec.pc = "locations"
        /\ rec.task = Task(w) /\ rec.alone = request[w].alone /\ rec.chosen = Chosen(w)
        /\ rec.pc \in IndexSteps
    BY <1>2 DEF RequestRecords, Task, Chosen, IndexSteps
  <2>2. request' = [request EXCEPT ![w] = rec]
    BY <1>4 DEF Goto
  <2> HIDE DEF rec
  <2>3. Moves(w, rec)
    BY <2>1, <2>2 DEF Moves
  <2>4. request'[w] = rec
    BY <2>3, MovesTo DEF IInv
  <2>5. StoreFits'
    BY <1>1, <1>4, <2>1, <2>3, StoreKept DEF IInv
  <2>6. IndexedSoFar(w) => IndexedSoFar(w)'
    BY <1>1, <1>4, <2>1, <2>4 DEF IndexedSoFar, Chosen, Task
  <2> QED
    BY <1>1, <1>4, <2>1, <2>3, <2>5, <2>6, AtIndexStep, IndexStepKeeps
<1>5. QED
  BY <1>3, <1>4 DEF LoadGraph

LEMMA LoadLocationsKeeps ==
    ASSUME IInv, NEW w \in Workers, LoadLocations(w)
    PROVE  IInv'
<1> DEFINE rec == [request[w] EXCEPT !.pc = "path"]
<1>1. /\ request[w].pc = "locations" /\ request[w].pc \in IndexSteps /\ LeavesJobs
      /\ UNCHANGED <<callGraph, path, store, graph>> /\ locations' = ChunksOf[Task(w)]
  BY DEF LoadLocations, LoadedLocations, At, IndexSteps
<1>2. /\ request[w] \in RequestRecords /\ request[w].work = NoWork
      /\ ChunksOf[Task(w)] \subseteq Locations
  BY <1>1, AtIndexStep
<1>3. /\ rec \in RequestRecords /\ rec.work = NoWork /\ rec.pc = "path"
      /\ rec.task = Task(w) /\ rec.alone = request[w].alone /\ rec.chosen = Chosen(w)
      /\ rec.pc \in IndexSteps
  BY <1>2 DEF RequestRecords, Task, Chosen, IndexSteps
<1>4. request' = [request EXCEPT ![w] = rec]
  BY DEF LoadLocations, Goto
<1> HIDE DEF rec
<1>5. Moves(w, rec)
  BY <1>3, <1>4 DEF Moves
<1>6. request'[w] = rec
  BY <1>5, MovesTo DEF IInv
<1>7. StoreFits'
  BY <1>1, <1>3, <1>5, StoreKept DEF IInv
<1>8. IndexedSoFar(w) => IndexedSoFar(w)'
  BY <1>1, <1>3, <1>6 DEF IndexedSoFar, Chosen, Task
<1>9. QED
  BY <1>1, <1>2, <1>3, <1>5, <1>7, <1>8, AtIndexStep, IndexStepKeeps

LEMMA SetPathKeeps ==
    ASSUME IInv, NEW w \in Workers, SetPath(w)
    PROVE  IInv'
<1> DEFINE rec == [request[w] EXCEPT !.pc = "embed"]
<1>1. /\ request[w].pc = "path" /\ request[w].pc \in IndexSteps /\ LeavesJobs
      /\ UNCHANGED <<callGraph, locations, store, graph>> /\ path' = Task(w)
  BY DEF SetPath, At, IndexSteps
<1>2. /\ request[w] \in RequestRecords /\ request[w].work = NoWork
      /\ Task(w) \in Repos /\ Task(w) # NoRepo
  BY <1>1, AtIndexStep
<1>3. /\ rec \in RequestRecords /\ rec.work = NoWork /\ rec.pc = "embed"
      /\ rec.task = Task(w) /\ rec.alone = request[w].alone /\ rec.chosen = Chosen(w)
      /\ rec.pc \in IndexSteps
  BY <1>2 DEF RequestRecords, Task, Chosen, IndexSteps
<1>4. request' = [request EXCEPT ![w] = rec]
  BY DEF SetPath, Goto
<1> HIDE DEF rec
<1>5. Moves(w, rec)
  BY <1>3, <1>4 DEF Moves
<1>6. request'[w] = rec
  BY <1>5, MovesTo DEF IInv
<1>7. StoreFits'
  BY <1>1, <1>3, <1>5, StoreKept DEF IInv
<1>8. IndexedSoFar(w) => IndexedSoFar(w)'
  BY <1>1, <1>3, <1>6 DEF IndexedSoFar, Chosen, Task
<1>9. QED
  BY <1>1, <1>2, <1>3, <1>5, <1>7, <1>8, AtIndexStep, IndexStepKeeps

LEMMA EmbedKeeps ==
    ASSUME IInv, NEW w \in Workers, Embed(w)
    PROVE  IInv'
<1>1. /\ request[w].pc = "embed" /\ request[w].pc \in IndexSteps /\ LeavesJobs
      /\ UNCHANGED <<callGraph, locations, path, store, graph>>
  BY DEF Embed, At, IndexSteps, index
<1>2. /\ request[w] \in RequestRecords /\ request[w].work = NoWork
      /\ ChunksOf[Task(w)] \subseteq Locations
  BY <1>1, AtIndexStep
<1>3. CASE request' = [request EXCEPT ![w].pc = "add", ![w].todo = ChunksOf[Task(w)]]
  <2> DEFINE rec == [request[w] EXCEPT !.pc = "add", !.todo = ChunksOf[Task(w)]]
  <2>1. /\ rec \in RequestRecords /\ rec.work = NoWork /\ rec.pc = "add"
        /\ rec.task = Task(w) /\ rec.alone = request[w].alone /\ rec.chosen = Chosen(w)
        /\ rec.pc \in IndexSteps /\ rec.todo = ChunksOf[Task(w)]
    BY <1>2 DEF RequestRecords, Task, Chosen, IndexSteps
  <2>2. request' = [request EXCEPT ![w] = rec]
    BY <1>3
  <2> HIDE DEF rec
  <2>3. Moves(w, rec)
    BY <2>1, <2>2 DEF Moves
  <2>4. request'[w] = rec
    BY <2>3, MovesTo DEF IInv
  <2>5. StoreFits'
    BY <1>1, <2>1, <2>3, StoreKept DEF IInv
  <2>6. IndexedSoFar(w) => IndexedSoFar(w)'
    BY <1>1, <2>1, <2>4 DEF IndexedSoFar, Chosen, Task
  <2> QED
    BY <1>1, <2>1, <2>3, <2>5, <2>6, AtIndexStep, IndexStepKeeps
<1>4. CASE Over(w)
  BY <1>1, <1>4, OverKeeps DEF LeavesJobs, index
<1>5. QED
  BY <1>3, <1>4 DEF Embed

LEMMA AddChunksKeeps ==
    ASSUME IInv, NEW w \in Workers, AddChunks(w)
    PROVE  IInv'
<1>1. /\ request[w].pc = "add" /\ request[w].pc \in IndexSteps /\ LeavesJobs
      /\ UNCHANGED <<callGraph, locations, path, graph>>
  BY DEF AddChunks, At, IndexSteps
<1>2. /\ request[w] \in RequestRecords /\ request[w].work = NoWork
      /\ ChunksOf[Task(w)] \subseteq Locations /\ request[w].todo \subseteq ChunksOf[Task(w)]
      /\ Task(w) \in Repos /\ store \in [Locations -> Repos \cup {NoRepo}]
  BY <1>1, AtIndexStep DEF IInv, StoreFits
<1>3. ASSUME NEW l \in request[w].todo, store' = [store EXCEPT ![l] = Task(w)], Did(w, l)
      PROVE  IInv'
  <2> DEFINE rec == [request[w] EXCEPT !.todo = @ \ {l}]
  <2>1. /\ rec \in RequestRecords /\ rec.work = NoWork /\ rec.pc = "add"
        /\ rec.task = Task(w) /\ rec.alone = request[w].alone /\ rec.chosen = Chosen(w)
        /\ rec.todo = request[w].todo \ {l}
    BY <1>1, <1>2 DEF RequestRecords, Task, Chosen
  <2>2. request' = [request EXCEPT ![w] = rec]
    BY <1>3 DEF Did
  <2> HIDE DEF rec
  <2>3. Moves(w, rec)
    BY <2>1, <2>2 DEF Moves
  <2>4. request'[w] = rec
    BY <2>3, MovesTo DEF IInv
  <2>5. /\ l \in Locations /\ l \in ChunksOf[Task(w)] /\ store'[l] = Task(w)
        /\ \A k \in Locations \ {l} : store'[k] = store[k]
        /\ store' \in [Locations -> Repos \cup {NoRepo}]
    BY <1>2, <1>3
  <2>6. IsFiniteSet(Indexed')
    <3>1. Indexed' \subseteq Indexed \cup {l}
      BY <2>5 DEF Indexed
    <3>2. IsFiniteSet(Indexed \cup {l})
      BY FS_AddElement DEF IInv, StoreFits
    <3> QED
      BY <3>1, <3>2, FS_Subset
  <2>7. \A k \in Locations : store'[k] # NoRepo => k \in ChunksOf[store'[k]]
    BY <2>5 DEF IInv, StoreFits
  <2>8. StoreFits'
    BY <1>1, <1>2, <2>1, <2>3, <2>6, <2>7, StoreGrows DEF IInv, StoreFits
  <2>9. IndexedSoFar(w) => IndexedSoFar(w)'
    BY <1>1, <1>2, <2>1, <2>4, <2>5 DEF IndexedSoFar, Chosen, Task
  <2> QED
    BY <1>1, <2>1, <2>3, <2>5, <2>8, <2>9, AtIndexStep, IndexStepKeeps
<1>4. ASSUME NEW label \in {"ingest", "respond"}, label = "respond" => Chosen(w) # "real",
             request[w].todo = {}, Goto(w, label), UNCHANGED store
      PROVE  IInv'
  <2> DEFINE rec == [request[w] EXCEPT !.pc = label]
  <2>1. /\ rec \in RequestRecords /\ rec.work = NoWork /\ rec.pc = label
        /\ rec.task = Task(w) /\ rec.alone = request[w].alone /\ rec.chosen = Chosen(w)
        /\ rec.pc \in IndexSteps
    BY <1>2 DEF RequestRecords, Task, Chosen, IndexSteps
  <2>2. request' = [request EXCEPT ![w] = rec]
    BY <1>4 DEF Goto
  <2> HIDE DEF rec
  <2>3. Moves(w, rec)
    BY <2>1, <2>2 DEF Moves
  <2>4. request'[w] = rec
    BY <2>3, MovesTo DEF IInv
  <2>5. StoreFits'
    BY <1>1, <1>4, <2>1, <2>3, StoreKept DEF IInv
  <2>6. IndexedSoFar(w) => IndexedSoFar(w)'
    BY <1>1, <1>4, <2>1, <2>4 DEF IndexedSoFar, Chosen, Task
  <2> QED
    BY <1>1, <1>4, <2>1, <2>3, <2>5, <2>6, AtIndexStep, IndexStepKeeps
<1>5. QED
  BY <1>3, <1>4 DEF AddChunks

LEMMA IngestKeeps ==
    ASSUME IInv, NEW w \in Workers, Ingest(w)
    PROVE  IInv'
<1>1. /\ request[w].pc = "ingest" /\ request[w].pc \in IndexSteps /\ LeavesJobs
      /\ UNCHANGED <<callGraph, locations, path, store>>
  BY DEF Ingest, At, IndexSteps
<1>2. /\ request[w] \in RequestRecords /\ request[w].work = NoWork /\ Task(w) \in Repos
      /\ graph \in [Repos -> {"absent", "partial", "ingested"}]
  BY <1>1, AtIndexStep
<1>3. CASE graph' = [graph EXCEPT ![Task(w)] = "ingested"] /\ Goto(w, "respond")
  <2> DEFINE rec == [request[w] EXCEPT !.pc = "respond"]
  <2>1. /\ rec \in RequestRecords /\ rec.work = NoWork /\ rec.pc = "respond"
        /\ rec.task = Task(w) /\ rec.alone = request[w].alone /\ rec.chosen = Chosen(w)
        /\ rec.pc \in IndexSteps
    BY <1>2 DEF RequestRecords, Task, Chosen, IndexSteps
  <2>2. request' = [request EXCEPT ![w] = rec]
    BY <1>3 DEF Goto
  <2> HIDE DEF rec
  <2>3. Moves(w, rec)
    BY <2>1, <2>2 DEF Moves
  <2>4. request'[w] = rec
    BY <2>3, MovesTo DEF IInv
  <2>5. StoreFits'
    BY <1>1, <2>1, <2>3, StoreKept DEF IInv
  <2>6. /\ graph'[Task(w)] = "ingested"
        /\ graph' \in [Repos -> {"absent", "partial", "ingested"}]
    BY <1>2, <1>3
  <2>7. IndexedSoFar(w) => IndexedSoFar(w)'
    BY <1>1, <2>1, <2>4, <2>6 DEF IndexedSoFar, Chosen, Task
  <2> QED
    BY <1>1, <2>1, <2>3, <2>5, <2>6, <2>7, AtIndexStep, IndexStepKeeps
<1>4. ASSUME graph' \in [Repos -> {"absent", "partial", "ingested"}], Over(w)
      PROVE  IInv'
  <2>1. Moves(w, Idle) /\ Idle.pc = "idle" /\ Idle.work = NoWork /\ ~Idle.alone
    BY <1>4, IdleTyped DEF Moves, Over, Idle
  <2>2. /\ request'[w] = Idle
        /\ \A v \in Workers \ {w} : request'[v] = request[v]
        /\ request' \in [Workers -> RequestRecords]
    BY <2>1, MovesTo DEF IInv
  <2>3. TypeOK'
    BY <1>1, <1>4, <2>2 DEF IInv, TypeOK, LeavesJobs
  <2>4. TasksFit' /\ JobsFit' /\ WorkTold'
    BY <1>1, <2>1, ServesKeeps DEF LeavesJobs
  <2>5. StoreFits'
    BY <1>1, <2>1, StoreKept DEF IInv
  <2>6. ASSUME NEW v \in Workers PROVE ~request'[v].alone
    <3>1. CASE v = w
      BY <2>1, <2>2, <3>1
    <3>2. CASE v # w
      BY <1>1, <2>2, <3>2 DEF IInv, AloneFits, Indexing
    <3> QED
      BY <3>1, <3>2
  <2> QED
    BY <2>3, <2>4, <2>5, <2>6 DEF IInv, AloneFits
<1>5. CASE Over(w) /\ \/ UNCHANGED graph
                      \/ graph' = [graph EXCEPT ![Task(w)] = "partial"]
  BY <1>2, <1>4, <1>5
<1>6. QED
  BY <1>3, <1>5 DEF Ingest

LEMMA RespondKeeps ==
    ASSUME IInv, NEW w \in Workers, Respond(w)
    PROVE  IInv'
BY OverKeeps DEF Respond, LeavesJobs, At, IndexSteps

-----------------------------------------------------------------------------
(***************************************************************************)
(* The invariant.                                                          *)
(***************************************************************************)
LEMMA InitHolds == Init => IInv
<1> SUFFICES ASSUME Init PROVE IInv
  OBVIOUS
<1>1. \A w \in Workers : request[w] = Idle
  BY DEF Init
<1>2. TypeOK
  <2>1. NoJob \in JobRecords
    BY NoWorkTyped DEF NoJob, JobRecords
  <2>2. indexings \in 0 .. MaxIndexings
    BY ServiceAssumption DEF Init
  <2> QED
    BY <2>1, <2>2, IdleTyped DEF Init, TypeOK
<1>3. TasksFit
  BY <1>1 DEF TasksFit, At, Idle, JobSteps, IndexSteps
<1>4. JobsFit
  BY <1>1 DEF Init, JobsFit, At, Idle, NoJob
<1>5. WorkTold
  BY <1>1, NothingTold DEF WorkTold, Work, Idle, JobSteps
<1>6. StoreFits
  <2>1. Indexed = {} /\ callGraph = {}
    BY DEF Init, Indexed
  <2> QED
    BY <1>1, <2>1, FS_EmptySet DEF Init, StoreFits, Idle
<1>7. AloneFits
  BY <1>1 DEF AloneFits, Idle
<1>8. QED
  BY <1>2, <1>3, <1>4, <1>5, <1>6, <1>7 DEF IInv

LEMMA NextPreserves == IInv /\ [Next]_vars => IInv'
<1> SUFFICES ASSUME IInv, [Next]_vars PROVE IInv'
  OBVIOUS
<1>1. ASSUME NEW w \in Workers, Begin(w) PROVE IInv'
  BY <1>1, BeginKeeps
<1>2. ASSUME NEW w \in Workers, Request(w) PROVE IInv'
  BY <1>2, CheckEnginesKeeps, BuildEnginesKeeps, ReturnEnginesKeeps, CreateJobKeeps, RespondKeeps,
     LoadGraphKeeps, LoadLocationsKeeps, SetPathKeeps, EmbedKeeps, AddChunksKeeps, IngestKeeps
     DEF Request
<1>3. ASSUME NEW w \in Workers, RunJob(w) PROVE IInv'
  BY <1>3, StartJobKeeps, UnderstandIssueKeeps, CollectFactsKeeps, NormalizeFactsKeeps,
     BeginSearchKeeps, EndSearchKeeps, FindRootCauseKeeps, RecommendFixKeeps, BeginImpactKeeps,
     ExplainImpactKeeps, WriteScenarioKeeps, RunScenarioKeeps, CompareArchitectureKeeps,
     WriteReportKeeps, CompleteJobKeeps
     DEF RunJob
<1>4. CASE UNCHANGED vars
  <2>1. TypeOK' /\ TasksFit' /\ AloneFits'
    BY <1>4 DEF IInv, TypeOK, TasksFit, AloneFits, IndexedSoFar, Indexing, At, Task, Chosen, vars,
                index
  <2>2. WorkTold' /\ JobsFit'
    BY <1>4 DEF IInv, WorkTold, JobsFit, At, Task, Work, vars, index
  <2>3. StoreFits'
    BY <1>4 DEF IInv, StoreFits, Indexed, Task, vars, index
  <2> QED
    BY <2>1, <2>2, <2>3 DEF IInv
<1>5. QED
  BY <1>1, <1>2, <1>3, <1>4 DEF Next

THEOREM InvariantHolds == Spec => []IInv
BY InitHolds, NextPreserves, PTL DEF Spec

(* Every part of the service has its type in every reachable state: no     *)
(* step leaves a request, a job or a result half-formed.                   *)
THEOREM TypeCorrect == Spec => []TypeOK
<1>1. IInv => TypeOK
  BY DEF IInv
<1>2. QED
  BY <1>1, InvariantHolds, PTL

(* Every result, of a running analysis or of a finished job, has been told *)
(* up to some step of the pipeline.                                        *)
LEMMA ResultsTold ==
    ASSUME IInv, NEW r \in Results
    PROVE  \E step : Told(r, step, path)
<1>1. CASE \E w \in Workers : r = Work(w)
  BY <1>1 DEF IInv, WorkTold
<1>2. ASSUME NEW j \in JobIds, r = jobs[j].result
      PROVE  \E step : Told(r, step, path)
  BY <1>2, NothingTold DEF IInv, JobsFit
<1>3. QED
  BY <1>1, <1>2 DEF Results

(* Whatever the models answer and the index requests change meanwhile, a   *)
(* fix is recommended for an established root cause only, at a location of *)
(* the evidence, with code indexed there; and a report is written of an    *)
(* established root cause only.                                            *)
THEOREM FixesAreGrounded == Spec => []FixIsGrounded
<1>1. ASSUME IInv, NEW r \in Results
      PROVE  /\ Grounded(r.rca, r.evidence)
             /\ r.fix.status = "recommended" =>
                    /\ r.rca.status = "established"
                    /\ r.fix.location = r.rca.location
                    /\ r.fix.location \in Known(r.evidence)
                    /\ r.fix.source # NoRepo /\ r.fix.location \in ChunksOf[r.fix.source]
             /\ r.documentation = "generated" => r.rca.status = "established"
  <2>1. PICK step : Told(r, step, path)
    BY <1>1, ResultsTold
  <2>2. Grounded(r.rca, r.evidence)
    BY <2>1 DEF Told, RcaTold
  <2>3. r.documentation = "generated" => r.rca.status = "established"
    BY <2>1 DEF Told, DocumentationTold
  <2> QED
    BY <2>1, <2>2, <2>3 DEF Told, FixTold, Grounded
<1>2. IInv => FixIsGrounded
  BY <1>1 DEF FixIsGrounded
<1>3. QED
  BY <1>2, InvariantHolds, PTL

(* A scenario that passed or failed was generated, for a recommended fix   *)
(* with a diff and a regression test, and was run in a repository.         *)
THEOREM ExecutionsAreEarned == Spec => []ExecutionIsEarned
<1>1. ASSUME IInv, NEW r \in Results, r.execution \in {"passed", "failed"}
      PROVE  /\ r.scenario = "generated"
             /\ r.fix.status = "recommended" /\ r.fix.diff /\ r.fix.test
             /\ path # NoRepo
  <2>1. PICK step : Told(r, step, path)
    BY <1>1, ResultsTold
  <2>2. step \in ExecutionDecided
    BY <1>1, <2>1 DEF Told, ExecutionTold
  <2>3. /\ r.scenario = "generated"
        /\ r.fix.diff /\ r.fix.test /\ path # NoRepo
    BY <1>1, <2>1, <2>2 DEF Told, ExecutionTold
  <2>4. r.fix.status = "recommended"
    BY <2>1, <2>2, <2>3 DEF Told, ScenarioTold, ScenarioDecided, ExecutionDecided
  <2> QED
    BY <2>3, <2>4
<1>2. IInv => ExecutionIsEarned
  BY <1>1 DEF ExecutionIsEarned
<1>3. QED
  BY <1>2, InvariantHolds, PTL

(* What a completed job lacks is explained in its notes, or follows from   *)
(* another part it lacks; a job that did not complete has no result.       *)
THEOREM NothingIsMissingSilently == Spec => []NothingMissingSilently
<1>1. ASSUME IInv, NEW j \in JobIds, jobs[j].state = "completed", NEW r, r = jobs[j].result
      PROVE  /\ r.evidence = <<>> <=> "evidence" \in r.notes
             /\ r.rca.status = "none" <=> "rca" \in r.notes
             /\ r.fix.status = "none" <=> "fix" \in r.notes
             /\ r.impact = "none" <=> "impact" \in r.notes
             /\ r.impact = "skipped" => r.fix.status # "recommended"
             /\ r.scenario = "skipped" => \/ r.fix.status # "recommended"
                                          \/ "scenario" \in r.notes
             /\ r.scenario = "generated" <=> r.execution # "none"
             /\ "execution" \in r.notes => r.execution = "error"
             /\ r.documentation = "skipped" => \/ r.rca.status # "established"
                                               \/ "documentation" \in r.notes
             /\ r.documentation # "none"
  <2>1. Told(r, "complete", path)
    BY <1>1 DEF IInv, JobsFit
  <2> QED
    BY <2>1 DEF Told, EvidenceTold, RcaTold, FixTold, ImpactTold, ScenarioTold, ExecutionTold,
                DocumentationTold, EvidenceDecided, RcaDecided, FixDecided, ImpactDecided,
                ScenarioDecided, ExecutionDecided
<1>2. IInv => NothingMissingSilently
  BY <1>1 DEF NothingMissingSilently, IInv, JobsFit
<1>3. QED
  BY <1>2, InvariantHolds, PTL

(* An index request that no other overlapped has replaced every part of    *)
(* the index when it answers, whatever failed before it and whichever      *)
(* analyses ran meanwhile.                                                 *)
THEOREM IndexesAreWhole == Spec => []IndexIsWhole
<1>1. ASSUME IInv, NEW w \in Workers, request[w].alone, At(w, "respond")
      PROVE  /\ path = Task(w) /\ locations = ChunksOf[Task(w)]
             /\ \A l \in ChunksOf[Task(w)] : store[l] = Task(w)
             /\ IF Chosen(w) = "real" THEN graph[Task(w)] = "ingested"
                ELSE ChunksOf[Task(w)] \subseteq callGraph
  BY <1>1 DEF IInv, AloneFits, IndexedSoFar, At
<1>2. IInv => IndexIsWhole
  BY <1>1 DEF IndexIsWhole
<1>3. QED
  BY <1>2, InvariantHolds, PTL

(* How a step may change a job.                                            *)
Forward(j) ==
    \/ jobs[j].state = "absent" /\ jobs'[j].state = "queued"
    \/ jobs[j].state = "queued" /\ jobs'[j].state = "running"
    \/ jobs[j].state = "running" /\ jobs'[j].state \in {"completed", "failed"}

LEMMA ServedJobsState ==
    ASSUME IInv, NEW w \in Workers, request[w].pc \in {"create"} \cup JobSteps
    PROVE  /\ Task(w) \in JobIds /\ jobs \in [JobIds -> JobRecords]
           /\ jobs[Task(w)].state = StateAt(request[w].pc)
BY DEF IInv, TypeOK, TasksFit, JobsFit, At, JobSteps

LEMMA ServiceMovesForward ==
    ASSUME IInv, Next
    PROVE  \A j \in JobIds : jobs'[j] # jobs[j] => Forward(j)
<1>1. PICK w \in Workers : Begin(w) \/ Request(w) \/ RunJob(w)
  BY DEF Next
<1>2. CASE UNCHANGED jobs
  BY <1>2
<1>3. ASSUME NEW job, jobs' = [jobs EXCEPT ![Task(w)] = job],
             request[w].pc \in {"create"} \cup JobSteps,
             \/ StateAt(request[w].pc) = "absent" /\ job.state = "queued"
             \/ StateAt(request[w].pc) = "queued" /\ job.state = "running"
             \/ StateAt(request[w].pc) = "running" /\ job.state \in {"completed", "failed"}
      PROVE  \A j \in JobIds : jobs'[j] # jobs[j] => Forward(j)
  BY <1>3, ServedJobsState DEF Forward
<1>4. CASE CreateJob(w)
  <2>1. request[w].pc = "create" /\ jobs' = [jobs EXCEPT ![Task(w)].state = "queued"]
    BY <1>4 DEF CreateJob, At
  <2>2. jobs[Task(w)] \in JobRecords
    BY <2>1, ServedJobsState
  <2> QED
    BY <1>3, <2>1, <2>2 DEF StateAt, RequestSteps, JobRecords
<1>5. CASE StartJob(w)
  <2>1. request[w].pc = "queued" /\ jobs' = [jobs EXCEPT ![Task(w)].state = "running"]
    BY <1>5 DEF StartJob, At
  <2>2. jobs[Task(w)] \in JobRecords
    BY <2>1, ServedJobsState DEF JobSteps
  <2> QED
    BY <1>3, <2>1, <2>2 DEF StateAt, RequestSteps, JobRecords, JobSteps
<1>6. CASE JobFails(w) /\ request[w].pc \in Piped
  <2> DEFINE job == [jobs[Task(w)] EXCEPT !.state = "failed", !.error = request[w].pc]
  <2>1. jobs[Task(w)] \in JobRecords
    BY <1>6, ServedJobsState DEF Piped
  <2>2. jobs' = [jobs EXCEPT ![Task(w)] = job] /\ job.state = "failed"
    BY <1>6, <2>1 DEF JobFails, JobRecords
  <2>3. StateAt(request[w].pc) = "running" /\ request[w].pc \in JobSteps
    BY <1>6 DEF StateAt, RequestSteps, JobSteps, Piped
  <2> HIDE DEF job
  <2> QED
    BY <1>3, <2>2, <2>3
<1>7. CASE CompleteJob(w)
  <2> DEFINE job == [jobs[Task(w)] EXCEPT !.state = "completed", !.result = Work(w)]
  <2>1. request[w].pc \in JobSteps /\ StateAt(request[w].pc) = "running"
    BY <1>7 DEF CompleteJob, At, StateAt, RequestSteps, JobSteps
  <2>2. jobs[Task(w)] \in JobRecords
    BY <2>1, ServedJobsState
  <2>3. jobs' = [jobs EXCEPT ![Task(w)] = job] /\ job.state = "completed"
    BY <1>7, <2>2 DEF CompleteJob, JobRecords
  <2> HIDE DEF job
  <2> QED
    BY <1>3, <2>1, <2>3
<1>8. ASSUME Begin(w) \/ Request(w), ~CreateJob(w)
      PROVE  UNCHANGED jobs
  BY <1>8 DEF Begin, Request, CheckEngines, BuildEngines, ReturnEngines, Respond, LoadGraph,
              LoadLocations, SetPath, Embed, AddChunks, Ingest, LeavesJobs
<1>9. ASSUME RunJob(w), ~StartJob(w), ~CompleteJob(w)
      PROVE  UNCHANGED jobs \/ (JobFails(w) /\ request[w].pc \in Piped)
  <2>1. request[w].pc \in Piped
    BY <1>9 DEF RunJob, UnderstandIssue, CollectFacts, NormalizeFacts, BeginSearch, EndSearch,
                FindRootCause, RecommendFix, BeginImpact, ExplainImpact, WriteScenario,
                RunScenario, CompareArchitecture, WriteReport, At, Piped, JobSteps
  <2>2. UNCHANGED jobs \/ JobFails(w)
    BY <1>9 DEF RunJob, UnderstandIssue, CollectFacts, NormalizeFacts, BeginSearch, EndSearch,
                FindRootCause, RecommendFix, BeginImpact, ExplainImpact, WriteScenario,
                RunScenario, SandboxFails, CompareArchitecture, WriteReport, Gives, Iterates, Outage
  <2> QED
    BY <2>1, <2>2
<1>10. QED
  BY <1>1, <1>2, <1>4, <1>5, <1>6, <1>7, <1>8, <1>9

(* A job goes from queued to running to one end, and an end never changes, *)
(* with any number of threads and of exceptions in them.                   *)
THEOREM JobsMoveForward == Spec => JobsOnlyMoveForward
<1> DEFINE A == \A j \in JobIds : jobs'[j] # jobs[j] =>
                    \/ jobs[j].state = "absent" /\ jobs'[j].state = "queued"
                    \/ jobs[j].state = "queued" /\ jobs'[j].state = "running"
                    \/ jobs[j].state = "running" /\ jobs'[j].state \in {"completed", "failed"}
<1>1. IInv /\ [Next]_vars => [A]_vars
  BY ServiceMovesForward DEF Forward
<1>2. Spec => [][A]_vars
  BY <1>1, InvariantHolds, PTL DEF Spec
<1>3. QED
  BY <1>2 DEF JobsOnlyMoveForward
===============================================================================
