---------------------------- MODULE ValidationRun ----------------------------
(***************************************************************************)
(* One validation run: ValidationOrchestrator.validate with the calls it   *)
(* makes to the repository preparer, the dependency provider, the Docker   *)
(* or local environment, the application runner and the executors, up to   *)
(* the verdict of ResultEvaluator.                                         *)
(*                                                                         *)
(* The orchestrator is one sequential thread; "pc" names the call it is    *)
(* about to make.  The world it drives (checkout, network, containers,     *)
(* image, application) is the set "live".  Every call takes some time, may *)
(* fail in the ways its code distinguishes, and may be the last one: the   *)
(* process can be killed between any two calls.                            *)
(***************************************************************************)
EXTENDS ResultEvaluator, FiniteSets

CONSTANTS
    DepNames,     \* names a request may give its dependencies
    Requests,     \* the requests considered
    Overall,      \* Timeouts.overall: the budget, counted from time 0
    BuildT,       \* Timeouts.build
    StartupT,     \* Timeouts.startup
    TestT,        \* Timeouts.test
    ReadyT,       \* ready_timeout of the dependency provider
    ExecT,        \* bound of the docker commands that only look (exec, inspect, port)
    StartExecT,   \* bound of the docker exec that starts the application
    ProbeT,       \* bound of one probe of a port or a URL
    JoinT,        \* what the joins of the two pumps may add to any command
    Poll,         \* ReadinessSpec.poll_interval
    Settle,       \* ReadinessSpec.settle_seconds
    Grace,        \* what the container's sleep adds to the budget
    Slow          \* bound of the calls the code does not bound (git, testcontainers)

FaultKinds == {"orphan",    \* a creation call fails after the daemon created the thing
               "cleanup",   \* a destroy, stop or remove call fails by itself
               "kill"}      \* the process is killed

ReadinessKinds == {"HTTP", "TCP", "LOG", "PROCESS"}

(* ValidationRequest, the fields that decide control.  "start" is "none"   *)
(* or the readiness kind; "placeholder" says that an environment variable  *)
(* refers to a dependency the request does not list.  "faults" is not of   *)
(* the code: which extra faults the outside world may have in this run.    *)
RequestType ==
    [backend : {"DOCKER", "LOCAL"}, deps : Seq(DepNames), placeholder : BOOLEAN,
     dockerfile : BOOLEAN, build : BOOLEAN, start : ReadinessKinds \cup {"none"},
     tests : Nat \ {0}, faults : SUBSET FaultKinds]

Fixed == {"checkout", "network", "image", "container", "app"}
Resources == Fixed \cup DepNames

ASSUME RequestsAssumption ==
    /\ Requests \subseteq RequestType
    /\ \A r \in Requests : \A i, j \in DOMAIN r.deps : r.deps[i] = r.deps[j] => i = j
    /\ DepNames \cap Fixed = {}

ASSUME TimeoutsAssumption ==
    /\ Overall \in Nat \ {0} /\ BuildT \in Nat \ {0}
    /\ StartupT \in Nat \ {0} /\ TestT \in Nat \ {0}
    /\ ReadyT \in Nat /\ Poll \in Nat \ {0} /\ Settle \in Nat
    /\ ExecT \in Nat /\ StartExecT \in Nat /\ ProbeT \in Nat /\ JoinT \in Nat
    /\ Grace \in Nat /\ Slow \in Nat

VARIABLES
    request,         \* the request being validated
    pc,              \* the call the orchestrator is about to make
    now,             \* the monotonic clock, 0 when validate() was entered
    error,           \* data.infrastructure_error / data.unexpected_error
    overallTimeout,  \* data.overall_timeout
    build,           \* data.build_result
    startup,         \* data.startup_result
    tests,           \* data.test_results
    held,            \* which of run.prepared / env / deps / app (and the provider's
                     \* _network) are not None
    envStatus,       \* run.env_status
    depIndex,        \* the dependency being started
    registered,      \* TestcontainersDependencyProvider._containers
    timer,           \* the bound of the wait or of the environment setup in progress
    aliveSince,      \* alive_since in ApplicationRunner.start
    live,            \* what exists outside the process
    expires,         \* when the container's sleep ends
    reported,        \* resources named by a warning or an error of the result
    verdict          \* the evaluation, once made

data == <<error, overallTimeout, build, startup, tests>>
refs == <<held, envStatus, depIndex, registered>>
waits == <<timer, aliveSince>>
world == <<live, expires, reported>>
vars == <<request, pc, now, data, refs, waits, world, verdict>>

NoTime == -1
Deadline == Overall
Remaining == Deadline - now
(* Variants: the check left out; the check one unit too early. *)
NoBudgetCheck == FALSE
BudgetCheckTooEarly == Remaining <= 1
OutOfBudget == Remaining <= 0
(* Variant: the step's own timeout, not clipped by the budget. *)
OwnTimeoutOnly(a, b) == a
AtMost(a, b) == IF a <= b THEN a ELSE b

Docker == request.backend = "DOCKER"
Faults == request.faults
NoVerdict == [status |-> "none", exit |-> NoExit]

ExecuteSteps == {"preflight", "prepare", "network", "startDep", "awaitDep", "environment",
                 "image", "runContainer", "copySource", "placeholders", "build", "start",
                 "alive", "probe", "startLogs", "tests"}
CleanupSteps == {"stopApp", "destroy", "stopDeps", "removeCheckout", "evaluate"}
EndStates == {"done", "killed"}

(* A call that takes up to T.  A docker command is one of run_process: its  *)
(* timeout, then the joins; the local backend does the same at once.       *)
Takes(T) == \E d \in 0 .. T : now' = now + d
Cli(T) == T + JoinT
DockerTime(T) == IF Docker THEN Cli(T) ELSE 0

(* The next call; the "finally" of validate(); an exception on its way there. *)
Goto(label) == pc' = label /\ UNCHANGED error
Return == Goto("stopApp")
Raise(kind) == pc' = "stopApp" /\ error' = kind

(* What a failing creation call may leave behind. *)
MayLeave(resource) ==
    IF "orphan" \in Faults THEN {live, live \cup {resource}} ELSE {live}

-----------------------------------------------------------------------------
Init ==
    /\ request \in Requests
    /\ pc = "preflight"
    /\ now = 0
    /\ error = "none" /\ overallTimeout = FALSE
    /\ build = NoRun /\ startup = "none" /\ tests = <<>>
    /\ held = {} /\ envStatus = "NOT_CREATED" /\ depIndex = 1 /\ registered = {}
    /\ timer = 0 /\ aliveSince = NoTime
    /\ live = {} /\ expires = NoTime /\ reported = {}
    /\ verdict = NoVerdict

(* _preflight: the local backend has neither dependencies nor images. *)
Preflight ==
    /\ pc = "preflight"
    /\ \/ /\ ~Docker
          /\ request.deps # <<>> \/ request.dockerfile
          /\ Raise("infrastructure")
       \/ /\ Docker \/ (request.deps = <<>> /\ ~request.dockerfile)
          /\ Goto("prepare")
    /\ UNCHANGED <<request, now, overallTimeout, build, startup, tests, refs, waits, world,
                   verdict>>

(* prepare_repository: clone, check out, patch.  On any exception the     *)
(* temporary directory is removed with errors ignored.                    *)
Prepare ==
    /\ pc = "prepare"
    /\ Takes(Slow)
    /\ \/ /\ Goto("network")
          /\ held' = held \cup {"prepared"}
          /\ live' = live \cup {"checkout"}
       \/ /\ \E kind \in {"infrastructure", "unexpected"} : Raise(kind)
          /\ live' \in MayLeave("checkout")
          /\ UNCHANGED held
    /\ UNCHANGED <<request, overallTimeout, build, startup, tests, envStatus, depIndex,
                   registered, waits, expires, reported, verdict>>

-----------------------------------------------------------------------------
(* TestcontainersDependencyProvider.start: the network, then each container *)
(* started, registered and polled until healthy, one after the other.      *)
CreateNetwork ==
    /\ pc = "network"
    /\ \/ request.deps = <<>> /\ Goto("environment") /\ UNCHANGED <<held, live>>
       \/ /\ request.deps # <<>>
          /\ \/ /\ Goto("startDep")
                /\ held' = held \cup {"deps", "network"}
                /\ live' = live \cup {"network"}
             \/ /\ Raise("infrastructure")
                /\ held' = held \cup {"deps"}
                /\ live' \in MayLeave("network")
    /\ UNCHANGED <<request, now, overallTimeout, build, startup, tests, envStatus, depIndex,
                   registered, waits, expires, reported, verdict>>

StartDependency ==
    /\ pc = "startDep"
    /\ Takes(Slow)
    /\ \/ /\ Goto("awaitDep")
          /\ live' = live \cup {request.deps[depIndex]}
          /\ registered' = registered \cup {request.deps[depIndex]}
          /\ timer' = now' + ReadyT
       \/ /\ Raise("infrastructure")
          /\ live' \in MayLeave(request.deps[depIndex])
          /\ UNCHANGED <<registered, timer>>
    /\ UNCHANGED <<request, overallTimeout, build, startup, tests, held, envStatus, depIndex,
                   aliveSince, expires, reported, verdict>>

(* One turn of _wait_ready: the health command, then the clock, then sleep(1). *)
AwaitDependency ==
    /\ pc = "awaitDep"
    /\ \E d \in 0 .. Slow :
          \/ /\ now' = now + d
             /\ depIndex' = depIndex + 1
             /\ Goto(IF depIndex < Len(request.deps) THEN "startDep" ELSE "environment")
          \/ /\ now' = now + d
             /\ Raise("infrastructure")     \* exec_run raised, or not ready in time
             /\ UNCHANGED depIndex
          \/ /\ now + d < timer
             /\ now' = now + d + 1
             /\ UNCHANGED <<pc, error, depIndex>>
    /\ UNCHANGED <<request, overallTimeout, build, startup, tests, held, envStatus, registered,
                   waits, world, verdict>>

-----------------------------------------------------------------------------
(* The budget check before the environment, and the factory call: local    *)
(* environments exist at once, Docker ones are built in three calls that   *)
(* are each given the whole setup timeout.                                 *)
EnterEnvironment ==
    /\ pc = "environment"
    /\ \/ /\ OutOfBudget
          /\ overallTimeout' = TRUE
          /\ Return
          /\ UNCHANGED <<held, envStatus, timer>>
       \/ /\ ~OutOfBudget /\ Docker
          /\ timer' = AtMost(BuildT, Remaining)
          /\ Goto("image")
          /\ UNCHANGED <<overallTimeout, held, envStatus>>
       \/ /\ ~OutOfBudget /\ ~Docker
          /\ held' = held \cup {"env"}
          /\ envStatus' = "CREATED"
          /\ Goto("placeholders")
          /\ UNCHANGED <<overallTimeout, timer>>
    /\ UNCHANGED <<request, now, build, startup, tests, depIndex, registered, aliveSince, world,
                   verdict>>

CreateFails == Raise("infrastructure") /\ envStatus' = "CREATE_FAILED"

(* docker build of the request's dockerfile, or image inspect and pull. *)
MakeImage ==
    /\ pc = "image"
    /\ Takes(IF request.dockerfile THEN Cli(timer) ELSE Cli(ExecT) + Cli(timer))
    /\ \/ /\ Goto("runContainer")
          /\ live' = IF request.dockerfile THEN live \cup {"image"} ELSE live
          /\ UNCHANGED envStatus
       \/ /\ CreateFails
          /\ live' \in IF request.dockerfile THEN MayLeave("image") ELSE {live}
    /\ UNCHANGED <<request, overallTimeout, build, startup, tests, held, depIndex, registered,
                   waits, expires, reported, verdict>>

(* Variant: the sleep gets the budget without the grace. *)
LifetimeWithoutGrace == Overall

(* PID 1 of the container is a sleep of this length. *)
Lifetime == Overall + Grace

(* docker run -d --rm ... sleep Lifetime: the sleep begins at some time of  *)
(* the call.  When the client is killed at its timeout the daemon may have *)
(* started the container all the same.                                     *)
RunContainer ==
    /\ pc = "runContainer"
    /\ Takes(Cli(timer))
    /\ \/ /\ Goto("copySource")
          /\ live' = live \cup {"container"}
          /\ UNCHANGED envStatus
       \/ /\ CreateFails
          /\ live' \in MayLeave("container")
    /\ IF "container" \in live' THEN \E begun \in now .. now' : expires' = begun + Lifetime
                                 ELSE UNCHANGED expires
    /\ UNCHANGED <<request, overallTimeout, build, startup, tests, held, depIndex, registered,
                   waits, reported, verdict>>

(* The result's warnings and errors name what a call failed to release. *)
Report(things) == reported' = reported \cup things

(* DockerEnvironment.destroy: rm, then rmi of a built image; the errors of *)
(* both are collected into one exception.  The application goes with its   *)
(* container.                                                              *)
Destroy(failed) ==
    /\ "image" \in failed => request.dockerfile
    /\ failed # {} => "cleanup" \in Faults
    /\ \E left \in SUBSET (failed \cap live) :
          LET gone == {"container", "image"} \ left IN
          live' = live \ (IF "container" \in gone THEN gone \cup {"app"} ELSE gone)
    /\ Report(failed)

(* docker cp; on failure create() destroys the container and re-raises. *)
CopySource ==
    /\ pc = "copySource"
    /\ Takes(Cli(timer))
    /\ \/ /\ Goto("placeholders")
          /\ held' = held \cup {"env"}
          /\ envStatus' = "CREATED"
          /\ UNCHANGED <<live, reported>>
       \/ /\ \E failed \in SUBSET {"container", "image"} : Destroy(failed)
          /\ CreateFails
          /\ UNCHANGED held
    /\ UNCHANGED <<request, overallTimeout, build, startup, tests, depIndex, registered, waits,
                   expires, verdict>>

(* resolve_placeholders: an unknown dependency name is an error. *)
ResolvePlaceholders ==
    /\ pc = "placeholders"
    /\ IF request.placeholder THEN Raise("infrastructure") ELSE Goto("build")
    /\ UNCHANGED <<request, now, overallTimeout, build, startup, tests, refs, waits, world,
                   verdict>>

-----------------------------------------------------------------------------
(* run_process under a timeout: an exit code in time, the timeout, or no   *)
(* process at all.  However it ended, the pumps are joined before it       *)
(* returns.  What Popen rejects (a name of a variable, a NUL) is raised.   *)
RunResults == {CommandRun(exit, FALSE) : exit \in {0, 1, 127, NoExit}}
              \cup {CommandRun(NoExit, TRUE)}

Executes(result, limit) ==
    \E d \in 0 .. limit, join \in 0 .. JoinT :
        /\ now' = now + d + join
        /\ result.timedOut => d = limit

Build ==
    /\ pc = "build"
    /\ \/ /\ ~request.build
          /\ Goto("start")
          /\ UNCHANGED <<now, overallTimeout, build>>
       \/ /\ request.build /\ OutOfBudget
          /\ overallTimeout' = TRUE
          /\ Return
          /\ UNCHANGED <<now, build>>
       \/ /\ request.build /\ ~OutOfBudget
          /\ \E result \in RunResults :
                /\ Executes(result, AtMost(BuildT, Remaining))
                /\ build' = result
                /\ IF result.status = "PASSED" THEN Goto("start") ELSE Return
          /\ UNCHANGED overallTimeout
       \/ /\ request.build /\ ~OutOfBudget
          /\ Raise("unexpected")
          /\ UNCHANGED <<now, overallTimeout, build>>
    /\ UNCHANGED <<request, startup, tests, refs, waits, world, verdict>>

(* ApplicationRunner.start up to the polling loop: the startup deadline is *)
(* counted from before the process is started.                             *)
StartApplication ==
    /\ pc = "start"
    /\ \/ /\ request.start = "none"
          /\ startup' = "NOT_REQUIRED"
          /\ Goto("tests")
          /\ UNCHANGED <<now, overallTimeout, timer, live>>
       \/ /\ request.start # "none" /\ OutOfBudget
          /\ overallTimeout' = TRUE
          /\ Return
          /\ UNCHANGED <<now, startup, timer, live>>
       \/ /\ request.start # "none" /\ ~OutOfBudget
          /\ Takes(DockerTime(StartExecT))
          /\ \/ /\ Goto("alive")
                /\ timer' = now + AtMost(StartupT, Remaining)
                /\ live' = live \cup {"app"}
             \/ /\ Raise(IF Docker THEN "infrastructure" ELSE "unexpected")
                /\ live' \in IF Docker THEN MayLeave("app") ELSE {live}
                /\ UNCHANGED timer
          /\ UNCHANGED <<overallTimeout, startup>>
    /\ UNCHANGED <<request, build, tests, refs, aliveSince, expires, reported, verdict>>

(* The result and the handle go back to the orchestrator together. *)
StartupReturns(status) ==
    /\ startup' = status
    /\ held' = held \cup {"app"}
    /\ Goto("startLogs")

(* is_running: a docker exec that fails for any reason reads as "exited". *)
CheckAlive ==
    /\ pc = "alive"
    /\ Takes(DockerTime(ExecT))
    /\ \/ /\ StartupReturns("FAILED")
          /\ live' \in {live \ {"app"}} \cup IF Docker THEN {live} ELSE {}
          /\ UNCHANGED aliveSince
       \/ /\ Goto("probe")
          /\ aliveSince' = IF aliveSince = NoTime THEN now' ELSE aliveSince
          /\ UNCHANGED <<startup, held, live>>
    /\ UNCHANGED <<request, overallTimeout, build, tests, envStatus, depIndex, registered,
                   timer, expires, reported, verdict>>

(* _check: docker port and then the network, docker exec tail, or nothing  *)
(* but the clock.                                                          *)
CheckTime ==
    IF request.start = "PROCESS" THEN 0
    ELSE DockerTime(ExecT) + IF request.start = "LOG" THEN 0 ELSE ProbeT

(* app_address cannot resolve the published port; the probe fails in a way *)
(* it does not catch (not HTTP at all, a port that is no port number).     *)
CheckErrors ==
    IF request.start \notin {"HTTP", "TCP"} THEN {}
    ELSE {"unexpected"} \cup IF Docker THEN {"infrastructure"} ELSE {}

(* _check, then the clock, then the whole poll interval. *)
Probe ==
    /\ pc = "probe"
    /\ \E d \in 0 .. CheckTime :
          \/ /\ request.start = "PROCESS" => now - aliveSince >= Settle
             /\ now' = now + d
             /\ StartupReturns("READY")
          \/ /\ request.start = "PROCESS" => now - aliveSince < Settle
             /\ now + d >= timer
             /\ now' = now + d
             /\ StartupReturns("TIMEOUT")
          \/ /\ request.start = "PROCESS" => now - aliveSince < Settle
             /\ now + d < timer
             /\ now' = now + d + Poll
             /\ Goto("alive")
             /\ UNCHANGED <<startup, held>>
          \/ /\ now' = now + d
             /\ \E kind \in CheckErrors : Raise(kind)
             /\ UNCHANGED <<startup, held>>
    /\ UNCHANGED <<request, overallTimeout, build, tests, envStatus, depIndex, registered,
                   waits, world, verdict>>

(* Variant: startup.ready is not looked at. *)
TestsInAnyCase == "tests"

AfterStartup == IF startup = "READY" THEN "tests" ELSE "stopApp"

(* run.app.logs() right after the startup is not under _safely. *)
StartupLogs ==
    /\ pc = "startLogs"
    /\ Takes(DockerTime(ExecT))
    /\ Goto(AfterStartup) \/ Raise("unexpected")
    /\ UNCHANGED <<request, overallTimeout, build, startup, tests, refs, waits, world, verdict>>

(* Variant: the loop stops one command short. *)
AllButOneTestRun == Len(tests) >= request.tests - 1
AllTestsRun == Len(tests) = request.tests

RunTest ==
    /\ pc = "tests"
    /\ \/ /\ AllTestsRun
          /\ Return
          /\ UNCHANGED <<now, overallTimeout, tests>>
       \/ /\ ~AllTestsRun /\ OutOfBudget
          /\ overallTimeout' = TRUE
          /\ Return
          /\ UNCHANGED <<now, tests>>
       \/ /\ ~AllTestsRun /\ ~OutOfBudget
          /\ \E result \in RunResults :
                /\ Executes(result, AtMost(TestT, Remaining))
                /\ tests' = Append(tests, result)
                /\ IF result.timedOut THEN Return ELSE Goto("tests")
          /\ UNCHANGED overallTimeout
       \/ /\ ~AllTestsRun /\ ~OutOfBudget
          /\ Raise("unexpected")
          /\ UNCHANGED <<now, overallTimeout, tests>>
    /\ UNCHANGED <<request, build, startup, refs, waits, world, verdict>>

-----------------------------------------------------------------------------
(* Variant: a destroy retried until the image is gone.                     *)
DestroyUntilGone(step) ==
    IF step = "stopApp" \/ (step = "destroy" /\ "image" \in live) THEN "destroy"
    ELSE IF step = "destroy" THEN "stopDeps"
    ELSE IF step = "stopDeps" THEN "removeCheckout"
    ELSE "evaluate"

(* The order of _collect_and_cleanup: the network comes after everything   *)
(* that may be attached to it.                                             *)
AfterCleanup(step) ==
    IF step = "stopApp" THEN "destroy"
    ELSE IF step = "destroy" THEN "stopDeps"
    ELSE IF step = "stopDeps" THEN "removeCheckout"
    ELSE "evaluate"

(* _collect_and_cleanup.  Reading logs changes nothing that decides        *)
(* anything; a docker stop only signals, a local one waits and kills.      *)
StopApplication ==
    /\ pc = "stopApp"
    /\ Goto(AfterCleanup(pc))
    /\ live' \in IF "app" \notin held THEN {live}
                 ELSE {live \ {"app"}} \cup IF Docker THEN {live} ELSE {}
    /\ UNCHANGED <<request, now, overallTimeout, build, startup, tests, refs, waits, expires,
                   reported, verdict>>

(* Variant: the status is set whether destroy() raised or not. *)
AlwaysDestroyed(failed) == "DESTROYED"

DestroyStatus(failed) == IF failed = {} THEN "DESTROYED" ELSE "DESTROY_FAILED"

DestroyEnvironment ==
    /\ pc = "destroy"
    /\ Goto(AfterCleanup(pc))
    /\ \/ "env" \notin held /\ UNCHANGED <<envStatus, live, reported>>
       \/ /\ "env" \in held /\ Docker
          /\ \E failed \in SUBSET {"container", "image"} :
                /\ Destroy(failed)
                /\ envStatus' = DestroyStatus(failed)
       \/ /\ "env" \in held /\ ~Docker
          /\ live' = live \ {"app"}
          /\ envStatus' = "DESTROYED"
          /\ UNCHANGED reported
    /\ UNCHANGED <<request, now, overallTimeout, build, startup, tests, held, depIndex,
                   registered, waits, expires, verdict>>

(* The daemon refuses to remove a network containers are attached to. *)
Attached == live \cap ({"container"} \cup DepNames)

StopDependencies ==
    /\ pc = "stopDeps"
    /\ Goto(AfterCleanup(pc))
    /\ \E failed \in SUBSET registered, netFails \in BOOLEAN :
          /\ failed # {} => "cleanup" \in Faults
          /\ \E left \in SUBSET failed :
                LET stopped == registered \ left
                    blocked == Attached \ stopped # {}
                IN /\ netFails => "network" \in held /\ (blocked \/ "cleanup" \in Faults)
                   /\ "network" \in held /\ blocked => netFails
                   /\ live' = live \ (stopped \cup IF "network" \in held /\ ~netFails
                                                   THEN {"network"} ELSE {})
          /\ Report(failed \cup IF netFails THEN {"network"} ELSE {})
    /\ registered' = {}
    /\ held' = held \ {"network"}
    /\ UNCHANGED <<request, now, overallTimeout, build, startup, tests, envStatus, depIndex,
                   waits, expires, verdict>>

(* Variant: the removal is neither silent nor wrapped in _safely. *)
RemoveCheckoutRaises ==
    /\ pc = "removeCheckout"
    /\ pc' = "evaluate"
    /\ \/ live' = live \ {"checkout"} /\ UNCHANGED error
       \/ "prepared" \in held /\ error' = "unexpected" /\ UNCHANGED live
    /\ UNCHANGED <<request, now, overallTimeout, build, startup, tests, refs, waits, expires,
                   reported, verdict>>

(* shutil.rmtree(..., ignore_errors=True): a failure leaves no trace. *)
RemoveCheckout ==
    /\ pc = "removeCheckout"
    /\ Goto(AfterCleanup(pc))
    /\ live' \in (IF "prepared" \in held THEN {live \ {"checkout"}} ELSE {live})
                 \cup (IF "cleanup" \in Faults THEN {live} ELSE {})
    /\ UNCHANGED <<request, now, overallTimeout, build, startup, tests, refs, waits, expires,
                   reported, verdict>>

RecordedFacts ==
    [error |-> error, overallTimeout |-> overallTimeout, build |-> build,
     startup |-> startup, tests |-> tests]

EvaluateRun ==
    /\ pc = "evaluate"
    /\ Goto("done")
    /\ verdict' = Evaluate(RecordedFacts)
    /\ UNCHANGED <<request, now, overallTimeout, build, startup, tests, refs, waits, world>>

-----------------------------------------------------------------------------
(* The world: the process dies; the sleep of a container ends and --rm     *)
(* removes it.  Cleanup and the end of the run may last as long as that.   *)
Kill ==
    /\ "kill" \in Faults
    /\ pc \notin EndStates
    /\ pc' = "killed"
    /\ UNCHANGED <<request, now, data, refs, waits, world, verdict>>

(* Variant: a watchdog of the orchestrator instead of a sleep as PID 1. *)
WatchdogMayEnd == pc \in CleanupSteps \cup {"done"} \/ (pc \in ExecuteSteps /\ now >= expires)
SleepMayEnd == pc \in CleanupSteps \cup EndStates \/ now >= expires

ContainerExpires ==
    /\ "container" \in live
    /\ SleepMayEnd
    /\ live' = live \ {"container", "app"}
    /\ now' = IF now >= expires THEN now ELSE expires
    /\ UNCHANGED <<request, pc, data, refs, waits, expires, reported, verdict>>

(* The calls that have no timeout of their own: git, and testcontainers    *)
(* creating, starting, probing and removing what the request depends on.   *)
CallsUnbounded ==
    \/ pc = "prepare"
    \/ request.deps # <<>> /\ pc \in {"network", "startDep", "awaitDep", "stopDeps"}

Call == \/ Preflight \/ Prepare
        \/ CreateNetwork \/ StartDependency \/ AwaitDependency
        \/ EnterEnvironment \/ MakeImage \/ RunContainer \/ CopySource \/ ResolvePlaceholders
        \/ Build \/ StartApplication \/ CheckAlive \/ Probe \/ StartupLogs \/ RunTest
        \/ StopApplication \/ DestroyEnvironment \/ StopDependencies \/ RemoveCheckout
        \/ EvaluateRun

Next == Call \/ Kill \/ ContainerExpires

Spec == Init /\ [][Next]_vars

(* A call under a timeout returns; a sleep ends.  Nothing makes git or a   *)
(* testcontainers call return, and nothing makes the process be killed.    *)
FairSpec == Spec /\ WF_vars(Call /\ ~CallsUnbounded) /\ WF_vars(ContainerExpires)

-----------------------------------------------------------------------------
(* The state of the run is of the types the code declares.                 *)
TypeOK ==
    /\ request \in Requests
    /\ pc \in ExecuteSteps \cup CleanupSteps \cup EndStates
    /\ now \in Nat
    /\ error \in {"none", "infrastructure", "unexpected"}
    /\ overallTimeout \in BOOLEAN
    /\ build \in CommandRuns \cup {NoRun}
    /\ startup \in StartupStatuses \cup {"none"}
    /\ tests \in Seq(CommandRuns)
    /\ held \subseteq {"prepared", "deps", "network", "env", "app"}
    /\ envStatus \in {"NOT_CREATED", "CREATED", "CREATE_FAILED", "DESTROYED", "DESTROY_FAILED"}
    /\ depIndex \in 1 .. (Len(request.deps) + 1)
    /\ registered \subseteq DepNames
    /\ timer \in Nat
    /\ aliveSince \in Nat \cup {NoTime}
    /\ live \subseteq Resources
    /\ expires \in Nat \cup {NoTime}
    /\ reported \subseteq Resources
    /\ verdict.status \in ValidationStatuses \cup {NoVerdict.status}

(* A verdict PASSED means that everything the request asks for happened:   *)
(* every dependency became healthy, the build passed, the application was  *)
(* ready, and every test command ran and exited 0.  No early return of     *)
(* _execute, and no exception, can end in PASSED.                          *)
PassedIsEarned ==
    verdict.status = "PASSED" =>
        /\ depIndex = Len(request.deps) + 1
        /\ request.build => build.exit = 0 /\ ~build.timedOut
        /\ request.start # "none" => startup = "READY"
        /\ Len(tests) = request.tests
        /\ \A i \in DOMAIN tests : tests[i].exit = 0 /\ ~tests[i].timedOut

(* The order in which evaluate() tries its rules is not the order of the   *)
(* table in its docstring; on every run the orchestrator can record, the   *)
(* two give the same status.                                               *)
VerdictFollowsPrecedence ==
    pc = "done" => verdict.status = DocumentedStatus(RecordedFacts)

(* overall_timeout is only recorded when work was really left undone: the  *)
(* budget is gone and some requested command never ran.                    *)
TimeoutMeansUnfinished ==
    overallTimeout => /\ now >= Deadline
                      /\ Len(tests) < request.tests
                      /\ error = "none"

(* Whatever cleanup had a handle on is gone or named in the result, so a   *)
(* leak of it is visible; without creation calls that fail half-way, that  *)
(* is every container and network.  The application never outlives its     *)
(* environment.                                                            *)
NothingOwnedIsLost ==
    pc = "done" =>
        /\ "env" \in held => live \cap {"container", "image"} \subseteq reported
        /\ \A i \in 1 .. (depIndex - 1) :
               request.deps[i] \in live => request.deps[i] \in reported
        /\ "orphan" \notin Faults =>
               live \cap ({"container", "network"} \cup DepNames) \subseteq reported
        /\ "app" \in live => "container" \in live

(* With a daemon that does what it is told, cleanup is complete and silent *)
(* (its order leaves nothing attached to the network it removes), except   *)
(* for an image whose container could never be started.                    *)
OrderlyCleanup ==
    pc = "done" /\ Faults \cap {"orphan", "cleanup"} = {} =>
        /\ live \subseteq {"image"}
        /\ "image" \in live => envStatus = "CREATE_FAILED"
        /\ reported = {}

(* environment_status tells the truth about the outside world.             *)
EnvironmentStatusIsTrue ==
    pc = "done" =>
        /\ envStatus # "CREATED"
        /\ envStatus = "DESTROYED" => live \cap {"container", "image", "app"} = {}
        /\ envStatus = "DESTROY_FAILED" => reported \cap {"container", "image"} # {}
        /\ envStatus = "NOT_CREATED" => "env" \notin held /\ "container" \notin live

(* No leak goes unnoticed: what is left behind is known to the result, and *)
(* nothing is left behind or reported for want of order.                   *)
LeftoversAreKnown == NothingOwnedIsLost /\ OrderlyCleanup /\ EnvironmentStatusIsTrue

(* The container's sleep outlasts the budget by a grace that covers the    *)
(* docker commands the budget does not cut short: the check of the         *)
(* application that may follow the last poll, and the one a probe begins   *)
(* with.  Neither can find its container gone within its own timeout and   *)
(* mistake that for an application that exited or a port that is lost.     *)
ContainerOutlivesCommands ==
    Docker /\ "container" \in live =>
        /\ pc \in {"alive", "probe"} => now + ExecT <= expires
        /\ pc \in {"build", "start", "tests"} /\ ~OutOfBudget => now + Remaining <= expires

(* A build or test command is only started within the overall budget, and  *)
(* clipped by what is left of it: it overruns the deadline by no more than *)
(* the joins of its pumps.                                                 *)
CommandsEndWithinBudget ==
    [][build' # build \/ tests' # tests => now < Deadline /\ now' <= Deadline + JoinT]_vars

(* "Failures here become warnings; they never mask the result": once       *)
(* cleanup has begun the recorded facts are frozen and cleanup goes on to  *)
(* the evaluation.                                                         *)
CleanupNeverMasksTheResult ==
    [][(pc \in CleanupSteps) =>
           /\ UNCHANGED data
           /\ pc' \in CleanupSteps \cup EndStates]_vars

(* A run comes to its end, unless it is stuck in one of the calls that     *)
(* have no timeout: both polling loops, the test loop and every cleanup    *)
(* path terminate.                                                         *)
RunEnds == <>(pc \in EndStates) \/ <>[]CallsUnbounded

(* However the run ends, killed or with a failed destroy or with a         *)
(* container it never had a handle on, the container does not stay.        *)
ContainerEventuallyGone == <>[]("container" \notin live)

-----------------------------------------------------------------------------
(* What docstrings of the code say and the code does not do.               *)

(* orchestrator.py: every step is bounded "by what is left of the overall  *)
(* budget".  The readiness wait of a dependency is not.                    *)
StepsStayInBudget == pc \in ExecuteSteps => now <= Deadline

(* runner.py: "The handle is always returned so the caller can collect     *)
(* logs and stop the process."  Not when app_address raises.               *)
HandleAlwaysReturned ==
    pc \in CleanupSteps /\ aliveSince # NoTime => "app" \in held

(* models.py: test_result is "the decisive test run".  An earlier failing  *)
(* run hides the run evaluate() decided on.                                *)
TestResultIsDecisive ==
    pc = "done" /\ verdict.status \in {"FAILED", "ERROR"} /\ tests # <<>> /\ error = "none"
        => DecisiveTest(tests).exit = verdict.exit
=============================================================================
