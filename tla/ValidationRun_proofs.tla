------------------------ MODULE ValidationRun_proofs ------------------------
(***************************************************************************)
(* Proofs about ValidationRun, for every set of requests, every value of   *)
(* the timeouts and every choice of faults.                                *)
(***************************************************************************)
EXTENDS ValidationRun, SequenceTheorems, TLAPS

(* classify_exit returns one of its four statuses, so a recorded run has   *)
(* the type of CommandRun.                                                 *)
LEMMA CommandRunType ==
    ASSUME NEW exit \in ExitCodes, NEW timedOut \in BOOLEAN
    PROVE  CommandRun(exit, timedOut) \in CommandRuns
BY DEF CommandRun, CommandRuns, ClassifyExit, ExecutionStatuses

(* What run_process returns: exit code 0 and PASSED go together. *)
LEMMA RunResultType ==
    ASSUME NEW result \in RunResults
    PROVE  /\ result \in CommandRuns
           /\ result.timedOut <=> result.status = "TIMEOUT"
           /\ result.status = "PASSED" <=> result.exit = 0 /\ ~result.timedOut
<1>1. NoExit \in ExitCodes /\ NoExit # 0 /\ {0, 1, 127, NoExit} \subseteq ExitCodes
  BY NoExitAssumption DEF ExitCodes
<1>2. PICK exit \in {0, 1, 127, NoExit}, timedOut \in BOOLEAN :
          result = CommandRun(exit, timedOut) /\ (timedOut => exit = NoExit)
  BY DEF RunResults
<1>3. result \in CommandRuns
  BY <1>1, <1>2, CommandRunType
<1>4. QED
  BY <1>1, <1>2, <1>3 DEF CommandRun, ClassifyExit, CouldNotRun

(* Every verdict of evaluate is one of the seven statuses. *)
LEMMA EvaluateType ==
    ASSUME NEW facts \in EvaluationInputs
    PROVE  Evaluate(facts).status \in ValidationStatuses
BY DEF Evaluate, Evaluation, ValidationStatuses

-----------------------------------------------------------------------------
(***************************************************************************)
(* The inductive invariant.  What a verdict says is decided by how far     *)
(* _execute came, so the invariant ties pc to the facts recorded so far    *)
(* (Progress), and every way into cleanup to what was left undone          *)
(* (ReasonToStop).                                                         *)
(***************************************************************************)
BeforeDeps == {"preflight", "prepare", "network"}
DuringDeps == {"startDep", "awaitDep"}
BeforeBuild == {"environment", "image", "runContainer", "copySource", "placeholders", "build"}
AfterBuild == {"start", "alive", "probe", "startLogs", "tests"}

DepsReady == depIndex = Len(request.deps) + 1
BuildPassed == IF request.build THEN build.status = "PASSED" ELSE build = NoRun
AppReady == startup = IF request.start = "none" THEN "NOT_REQUIRED" ELSE "READY"
NoTestTimedOut == \A i \in DOMAIN tests : ~tests[i].timedOut

Progress ==
    /\ pc \in ExecuteSteps => error = "none" /\ ~overallTimeout
    /\ pc \in BeforeDeps => depIndex = 1
    /\ pc \in DuringDeps => depIndex <= Len(request.deps)
    /\ pc \in BeforeBuild \cup AfterBuild => DepsReady
    /\ pc \in BeforeDeps \cup DuringDeps \cup BeforeBuild => build = NoRun
    /\ pc \in AfterBuild => BuildPassed
    /\ pc \in {"alive", "probe", "startLogs"} => request.start # "none"
    /\ pc \in ExecuteSteps \ {"startLogs", "tests"} => startup = "none"
    /\ pc \in ExecuteSteps \ {"tests"} => tests = <<>>
    /\ pc = "startLogs" => startup \in {"READY", "FAILED", "TIMEOUT"}
    /\ pc = "tests" => AppReady /\ Len(tests) <= request.tests /\ NoTestTimedOut

(* Why _execute came to its end. *)
Raised == error # "none" /\ ~overallTimeout
RanOutOfBudget ==
    /\ overallTimeout /\ error = "none"
    /\ now >= Deadline
    /\ Len(tests) < request.tests /\ NoTestTimedOut
    /\ build # NoRun => build.status = "PASSED"
    /\ startup \notin {"FAILED", "TIMEOUT"}
BuildDidNotPass ==
    /\ error = "none" /\ ~overallTimeout
    /\ build # NoRun /\ build.status # "PASSED" /\ startup = "none" /\ tests = <<>>
AppDidNotStart ==
    /\ error = "none" /\ ~overallTimeout
    /\ BuildPassed /\ startup \in {"FAILED", "TIMEOUT"} /\ tests = <<>>
TestTimedOut ==
    /\ error = "none" /\ ~overallTimeout
    /\ BuildPassed /\ AppReady /\ ~NoTestTimedOut
RanEverything ==
    /\ error = "none" /\ ~overallTimeout
    /\ DepsReady /\ BuildPassed /\ AppReady
    /\ NoTestTimedOut /\ Len(tests) = request.tests

ReasonToStop ==
    \/ Raised \/ RanOutOfBudget \/ BuildDidNotPass
    \/ AppDidNotStart \/ TestTimedOut \/ RanEverything

FactsAreResults ==
    /\ build \in RunResults \cup {NoRun}
    /\ \A i \in DOMAIN tests : tests[i] \in RunResults

IInv ==
    /\ TypeOK
    /\ FactsAreResults
    /\ Progress
    /\ pc \in CleanupSteps \cup {"done"} => ReasonToStop
    /\ overallTimeout => RanOutOfBudget
    /\ pc = "done" => verdict = Evaluate(RecordedFacts)
    /\ pc # "done" => verdict = NoVerdict

-----------------------------------------------------------------------------
(* The bounds of the calls are natural numbers. *)
LEMMA TimeoutsAreNat ==
    /\ Overall \in Nat /\ BuildT \in Nat /\ StartupT \in Nat /\ TestT \in Nat
    /\ ReadyT \in Nat /\ Poll \in Nat /\ Settle \in Nat /\ ExecT \in Nat
    /\ StartExecT \in Nat /\ ProbeT \in Nat /\ JoinT \in Nat
    /\ Grace \in Nat /\ Slow \in Nat
BY TimeoutsAssumption

(* So are those of a docker command with the joins of its pumps.           *)
LEMMA DockerTimes ==
    ASSUME NEW T \in Nat
    PROVE  /\ Cli(T) \in Nat /\ Cli(T) = T + JoinT
           /\ DockerTime(T) \in Nat /\ DockerTime(T) <= Cli(T)
<1>1. Cli(T) \in Nat /\ Cli(T) = T + JoinT
  BY TimeoutsAreNat DEF Cli
<1>2. QED
  BY <1>1 DEF DockerTime

(* And the time of a readiness check.                                      *)
LEMMA CheckTimeIsNat == CheckTime \in Nat
<1>1. DockerTime(ExecT) \in Nat /\ ProbeT \in Nat
  BY DockerTimes, TimeoutsAreNat
<1>2. QED
  BY <1>1 DEF CheckTime

(* What the request under validation is known to be. *)
LEMMA RequestFacts ==
    ASSUME request \in Requests
    PROVE  /\ request.deps \in Seq(DepNames)
           /\ Len(request.deps) \in Nat
           /\ \A i \in 1 .. Len(request.deps) : request.deps[i] \in DepNames
           /\ request.tests \in Nat \ {0}
           /\ request.build \in BOOLEAN
           /\ request.deps = <<>> <=> Len(request.deps) = 0
BY RequestsAssumption DEF RequestType

(* A failed creation leaves at most the thing it was creating. *)
LEMMA MayLeaveType ==
    ASSUME NEW resource, NEW after \in MayLeave(resource)
    PROVE  after = live \/ after = live \cup {resource}
BY DEF MayLeave

(* A command run under a limit leaves the clock a natural number. *)
LEMMA ExecutesType ==
    ASSUME now \in Nat, NEW result, NEW limit \in Nat, Executes(result, limit)
    PROVE  now' \in Nat /\ now' >= now /\ now' <= now + limit + JoinT
BY TimeoutsAreNat DEF Executes

(* So does any call with a bound, and it never sets the clock back. *)
LEMMA TakesType ==
    ASSUME now \in Nat, NEW limit \in Nat, Takes(limit)
    PROVE  now' \in Nat /\ now <= now' /\ now' <= now + limit
BY DEF Takes

(* The steps of pc and the exceptions: wherever a call goes on to. *)
Steps == ExecuteSteps \cup CleanupSteps \cup EndStates
Errors == {"none", "infrastructure", "unexpected"}

(* Every call keeps the types. *)
LEMMA TypeStep ==
    ASSUME TypeOK, Progress, [Next]_vars
    PROVE  TypeOK'
<1> USE TimeoutsAreNat, RequestFacts DEF TypeOK, Steps, Errors
<1>1. CASE Preflight
  BY <1>1 DEF Preflight, Goto, Raise, refs, waits, world, ExecuteSteps, CleanupSteps, EndStates
<1>2. CASE Prepare
  <2>1. pc' \in Steps /\ error' \in Errors
    BY <1>2 DEF Prepare, Goto, Raise, ExecuteSteps, CleanupSteps, EndStates
  <2>2. now' \in Nat
    BY <1>2, TakesType DEF Prepare
  <2>3. live' \subseteq Resources
    BY <1>2, MayLeaveType DEF Prepare, Resources, Fixed
  <2>4. QED
    BY <1>2, <2>1, <2>2, <2>3 DEF Prepare, waits
<1>3. CASE CreateNetwork
  <2>1. pc' \in Steps /\ error' \in Errors
    BY <1>3 DEF CreateNetwork, Goto, Raise, ExecuteSteps, CleanupSteps, EndStates
  <2>2. live' \subseteq Resources
    BY <1>3, MayLeaveType DEF CreateNetwork, Resources, Fixed
  <2>3. QED
    BY <1>3, <2>1, <2>2 DEF CreateNetwork, waits
<1>4. CASE StartDependency
  <2>1. pc' \in Steps /\ error' \in Errors
    BY <1>4 DEF StartDependency, Goto, Raise, ExecuteSteps, CleanupSteps, EndStates
  <2>2. now' \in Nat
    BY <1>4, TakesType DEF StartDependency
  <2>3. request.deps[depIndex] \in DepNames
    BY <1>4 DEF StartDependency, Progress, DuringDeps
  <2>4. live' \subseteq Resources /\ registered' \subseteq DepNames
    BY <1>4, <2>3, MayLeaveType DEF StartDependency, Resources
  <2>5. timer' \in Nat
    BY <1>4, <2>2 DEF StartDependency
  <2>6. QED
    BY <1>4, <2>1, <2>2, <2>3, <2>4, <2>5 DEF StartDependency, waits
<1>5. CASE AwaitDependency
  <2>1. pc' \in Steps /\ error' \in Errors
    BY <1>5 DEF AwaitDependency, Goto, Raise, ExecuteSteps, CleanupSteps, EndStates
  <2>2. now' \in Nat
    BY <1>5 DEF AwaitDependency
  <2>3. depIndex' \in 1 .. (Len(request.deps) + 1)
    BY <1>5 DEF AwaitDependency, Progress, DuringDeps
  <2>4. QED
    BY <1>5, <2>1, <2>2, <2>3 DEF AwaitDependency, waits, world
<1>6. CASE EnterEnvironment
  <2>1. pc' \in Steps /\ error' \in Errors
    BY <1>6 DEF EnterEnvironment, Goto, Return, ExecuteSteps, CleanupSteps, EndStates
  <2>2. timer' \in Nat
    BY <1>6 DEF EnterEnvironment, AtMost, Remaining, OutOfBudget, Deadline
  <2>3. QED
    BY <1>6, <2>1, <2>2 DEF EnterEnvironment, world
<1>7. CASE MakeImage
  <2>1. pc' \in Steps /\ error' \in Errors
    BY <1>7 DEF MakeImage, Goto, Raise, CreateFails, ExecuteSteps, CleanupSteps, EndStates
  <2>2. now' \in Nat
    <3> DEFINE limit == IF request.dockerfile THEN Cli(timer) ELSE Cli(ExecT) + Cli(timer)
    <3>1. limit \in Nat
      <4>1. Cli(timer) \in Nat /\ Cli(ExecT) \in Nat
        BY DockerTimes
      <4>2. QED
        BY <4>1
    <3>2. Takes(limit)
      BY <1>7 DEF MakeImage
    <3>3. QED
      BY <3>1, <3>2, TakesType
  <2>3. live' \subseteq Resources
    BY <1>7, MayLeaveType DEF MakeImage, Resources, Fixed
  <2>4. QED
    BY <1>7, <2>1, <2>2, <2>3 DEF MakeImage, waits, CreateFails
<1>8. CASE RunContainer
  <2>1. pc' \in Steps /\ error' \in Errors
    BY <1>8 DEF RunContainer, Goto, Raise, CreateFails, ExecuteSteps, CleanupSteps, EndStates
  <2>2. now' \in Nat
    BY <1>8, TakesType, DockerTimes DEF RunContainer
  <2>3. live' \subseteq Resources
    BY <1>8, MayLeaveType DEF RunContainer, Resources, Fixed
  <2>4. expires' \in Nat \cup {NoTime}
    <3>1. CASE UNCHANGED expires
      BY <3>1
    <3>2. CASE \E begun \in now .. now' : expires' = begun + Lifetime
      BY <2>2, <3>2 DEF Lifetime
    <3>3. QED
      BY <1>8, <3>1, <3>2 DEF RunContainer
  <2>5. QED
    BY <1>8, <2>1, <2>2, <2>3, <2>4 DEF RunContainer, waits, CreateFails
<1>9. CASE CopySource
  <2>1. pc' \in Steps /\ error' \in Errors
    BY <1>9 DEF CopySource, Goto, Raise, CreateFails, ExecuteSteps, CleanupSteps, EndStates
  <2>2. now' \in Nat
    BY <1>9, TakesType, DockerTimes DEF CopySource
  <2>3. live' \subseteq Resources /\ reported' \subseteq Resources
    BY <1>9 DEF CopySource, Destroy, Report, Resources, Fixed
  <2>4. QED
    BY <1>9, <2>1, <2>2, <2>3 DEF CopySource, waits, CreateFails
<1>10. CASE ResolvePlaceholders
  BY <1>10
     DEF ResolvePlaceholders, Goto, Raise, refs, waits, world, ExecuteSteps, CleanupSteps,
         EndStates
<1>11. CASE Build
  <2>1. pc' \in Steps /\ error' \in Errors
    BY <1>11 DEF Build, Goto, Return, Raise, ExecuteSteps, CleanupSteps, EndStates
  <2>2. AtMost(BuildT, Remaining) \in Nat \/ OutOfBudget
    BY DEF AtMost, Remaining, OutOfBudget, Deadline
  <2>3. now' \in Nat
    BY <1>11, <2>2, ExecutesType DEF Build
  <2>4. build' \in CommandRuns \cup {NoRun}
    BY <1>11, RunResultType DEF Build
  <2>5. QED
    BY <1>11, <2>1, <2>2, <2>3, <2>4 DEF Build, refs, waits, world
<1>12. CASE StartApplication
  <2>1. pc' \in Steps /\ error' \in Errors
    BY <1>12 DEF StartApplication, Goto, Return, Raise, ExecuteSteps, CleanupSteps, EndStates
  <2>2. now' \in Nat
    BY <1>12, TakesType, DockerTimes DEF StartApplication
  <2>3. live' \subseteq Resources
    BY <1>12, MayLeaveType DEF StartApplication, Resources, Fixed
  <2>4. timer' \in Nat
    BY <1>12 DEF StartApplication, AtMost, Remaining, OutOfBudget, Deadline
  <2>5. QED
    BY <1>12, <2>1, <2>2, <2>3, <2>4 DEF StartApplication, refs, StartupStatuses
<1>13. CASE CheckAlive
  <2>1. pc' \in Steps /\ error' \in Errors
    BY <1>13 DEF CheckAlive, Goto, StartupReturns, ExecuteSteps, CleanupSteps, EndStates
  <2>2. now' \in Nat
    BY <1>13, TakesType, DockerTimes DEF CheckAlive
  <2>3. live' \subseteq Resources
    BY <1>13 DEF CheckAlive
  <2>4. QED
    BY <1>13, <2>1, <2>2, <2>3 DEF CheckAlive, StartupReturns, StartupStatuses
<1>14. CASE Probe
  <2>1. pc' \in Steps /\ error' \in Errors
    BY <1>14
       DEF Probe, CheckErrors, Goto, Raise, StartupReturns, ExecuteSteps, CleanupSteps, EndStates
  <2>2. now' \in Nat
    BY <1>14, CheckTimeIsNat DEF Probe
  <2>3. /\ startup' \in StartupStatuses \cup {"none"}
        /\ held' \subseteq {"prepared", "deps", "network", "env", "app"}
    BY <1>14 DEF Probe, StartupReturns, StartupStatuses
  <2>4. QED
    BY <1>14, <2>1, <2>2, <2>3 DEF Probe, waits, world
<1>15. CASE RunTest
  <2>1. pc' \in Steps /\ error' \in Errors
    BY <1>15 DEF RunTest, Goto, Return, Raise, ExecuteSteps, CleanupSteps, EndStates
  <2>2. AtMost(TestT, Remaining) \in Nat \/ OutOfBudget
    BY DEF AtMost, Remaining, OutOfBudget, Deadline
  <2>3. now' \in Nat
    BY <1>15, <2>2, ExecutesType DEF RunTest
  <2>4. tests' \in Seq(CommandRuns)
    <3>1. CASE \E result \in RunResults : tests' = Append(tests, result)
      <4>1. PICK result \in CommandRuns : tests' = Append(tests, result)
        BY <3>1, RunResultType
      <4>2. QED
        BY <4>1, tests \in Seq(CommandRuns)
    <3>2. CASE UNCHANGED tests
      BY <3>2
    <3>3. QED
      BY <1>15, <3>1, <3>2 DEF RunTest
  <2>5. QED
    BY <1>15, <2>1, <2>3, <2>4 DEF RunTest, refs, waits, world
<1>16. CASE StopApplication
  BY <1>16 DEF StopApplication, Goto, AfterCleanup, refs, waits, CleanupSteps
<1>17. CASE DestroyEnvironment
  <2>1. pc' \in Steps /\ error' \in Errors
    BY <1>17 DEF DestroyEnvironment, Goto, AfterCleanup, CleanupSteps
  <2>2. live' \subseteq Resources /\ reported' \subseteq Resources
    BY <1>17 DEF DestroyEnvironment, Destroy, Report, Resources, Fixed
  <2>3. envStatus' \in {"NOT_CREATED", "CREATED", "CREATE_FAILED", "DESTROYED", "DESTROY_FAILED"}
    BY <1>17 DEF DestroyEnvironment, DestroyStatus
  <2>4. QED
    BY <1>17, <2>1, <2>2, <2>3 DEF DestroyEnvironment, waits
<1>18. CASE StopDependencies
  <2>1. pc' \in Steps /\ error' \in Errors
    BY <1>18 DEF StopDependencies, Goto, AfterCleanup, CleanupSteps
  <2>2. live' \subseteq Resources /\ reported' \subseteq Resources
    BY <1>18 DEF StopDependencies, Report, Resources, Fixed
  <2>3. QED
    BY <1>18, <2>1, <2>2 DEF StopDependencies, waits
<1>19. CASE RemoveCheckout
  BY <1>19 DEF RemoveCheckout, Goto, AfterCleanup, refs, waits, CleanupSteps
<1>20. CASE EvaluateRun
  <2>1. pc' \in Steps /\ error' \in Errors
    BY <1>20 DEF EvaluateRun, Goto, ExecuteSteps, CleanupSteps, EndStates
  <2>2. RecordedFacts \in EvaluationInputs
    BY DEF RecordedFacts, EvaluationInputs
  <2>3. verdict'.status \in ValidationStatuses
    BY <1>20, <2>2, EvaluateType DEF EvaluateRun
  <2>4. QED
    BY <1>20, <2>1, <2>2, <2>3 DEF EvaluateRun, refs, waits, world
<1>21. CASE Kill
  BY <1>21 DEF Kill, data, refs, waits, world, ExecuteSteps, CleanupSteps, EndStates
<1>22. CASE ContainerExpires
  BY <1>22 DEF ContainerExpires, data, refs, waits, NoTime
<1>23. CASE UNCHANGED vars
  BY <1>23 DEF vars, data, refs, waits, world
<1>24. CASE StartupLogs
  <2>1. pc' \in Steps /\ error' \in Errors
    BY <1>24
       DEF StartupLogs, AfterStartup, Goto, Raise, ExecuteSteps, CleanupSteps, EndStates
  <2>2. now' \in Nat
    BY <1>24, TakesType, DockerTimes DEF StartupLogs
  <2>3. QED
    BY <1>24, <2>1, <2>2 DEF StartupLogs, refs, waits, world
<1>25. QED
  BY <1>1, <1>2, <1>3, <1>4, <1>5, <1>6, <1>7, <1>8, <1>9, <1>10, <1>11, <1>12, <1>13, <1>14,
     <1>15, <1>16, <1>17, <1>18, <1>19, <1>20, <1>21, <1>22, <1>23, <1>24 DEF Next, Call


(* Every recorded run is what run_process returned. *)
LEMMA FactsStep ==
    ASSUME TypeOK, FactsAreResults, [Next]_vars
    PROVE  FactsAreResults'
<1>1. CASE Build
  BY <1>1 DEF Build, FactsAreResults
<1>2. CASE RunTest
  <2>1. CASE UNCHANGED tests
    BY <1>2, <2>1 DEF RunTest, FactsAreResults
  <2>2. CASE \E result \in RunResults : tests' = Append(tests, result)
    BY <1>2, <2>2 DEF RunTest, FactsAreResults, TypeOK
  <2>3. QED
    BY <1>2, <2>1, <2>2 DEF RunTest
<1>3. CASE ~Build /\ ~RunTest
  <2>1. UNCHANGED <<build, tests>>
    BY <1>3 DEF Next, Call, vars, data, Preflight, Prepare, CreateNetwork, StartDependency,
       AwaitDependency, EnterEnvironment, MakeImage, RunContainer, CopySource,
       ResolvePlaceholders, StartApplication, CheckAlive, Probe, StartupLogs, StopApplication,
       DestroyEnvironment, StopDependencies, RemoveCheckout, EvaluateRun, Kill,
       ContainerExpires
  <2>2. QED
    BY <2>1 DEF FactsAreResults
<1>4. QED
  BY <1>1, <1>2, <1>3

(* How far _execute came decides what is recorded. *)
LEMMA ProgressStep ==
    ASSUME TypeOK, FactsAreResults, Progress, [Next]_vars
    PROVE  Progress'
<1> USE RequestFacts DEF Progress, ExecuteSteps, BeforeDeps, DuringDeps, BeforeBuild, AfterBuild,
        DepsReady, BuildPassed, AppReady, NoTestTimedOut
<1>1. CASE Preflight
  BY <1>1 DEF Preflight, TypeOK, Goto, Return, Raise, CreateFails, StartupReturns, refs
<1>2. CASE Prepare
  BY <1>2 DEF Prepare, TypeOK, Goto, Return, Raise, CreateFails, StartupReturns, refs
<1>3. CASE CreateNetwork
  BY <1>3 DEF CreateNetwork, TypeOK, Goto, Return, Raise, CreateFails, StartupReturns, refs
<1>4. CASE StartDependency
  BY <1>4 DEF StartDependency, TypeOK, Goto, Return, Raise, CreateFails, StartupReturns, refs
<1>5. CASE AwaitDependency
  BY <1>5 DEF AwaitDependency, TypeOK, Goto, Return, Raise, CreateFails, StartupReturns, refs
<1>6. CASE EnterEnvironment
  BY <1>6 DEF EnterEnvironment, TypeOK, Goto, Return, Raise, CreateFails, StartupReturns, refs
<1>7. CASE MakeImage
  BY <1>7 DEF MakeImage, TypeOK, Goto, Return, Raise, CreateFails, StartupReturns, refs
<1>8. CASE RunContainer
  BY <1>8 DEF RunContainer, TypeOK, Goto, Return, Raise, CreateFails, StartupReturns, refs
<1>9. CASE CopySource
  BY <1>9 DEF CopySource, TypeOK, Goto, Return, Raise, CreateFails, StartupReturns, refs
<1>10. CASE ResolvePlaceholders
  BY <1>10 DEF ResolvePlaceholders, TypeOK, Goto, Return, Raise, CreateFails, StartupReturns, refs
<1>11. CASE Build
  BY <1>11 DEF Build, TypeOK, Goto, Return, Raise, CreateFails, StartupReturns, refs
<1>12. CASE StartApplication
  BY <1>12 DEF StartApplication, TypeOK, Goto, Return, Raise, CreateFails, StartupReturns, refs
<1>13. CASE CheckAlive
  BY <1>13 DEF CheckAlive, TypeOK, Goto, Return, Raise, CreateFails, StartupReturns, refs
<1>14. CASE Probe
  <2>1. UNCHANGED <<request, overallTimeout, build, tests, depIndex>>
    BY <1>14 DEF Probe
  <2>2. /\ pc = "probe"
        /\ \/ startup' \in {"READY", "TIMEOUT"} /\ pc' = "startLogs" /\ error' = error
           \/ startup' = startup /\ pc' = "alive" /\ error' = error
           \/ pc' = "stopApp"
    BY <1>14 DEF Probe, StartupReturns, Goto, Raise
  <2>3. request.start # "none" /\ tests = <<>> /\ Len(tests) = 0
    BY <2>2 DEF Progress, ExecuteSteps
  <2>4. QED
    BY <2>1, <2>2, <2>3
       DEF TypeOK, Progress, ExecuteSteps, BeforeDeps, DuringDeps, BeforeBuild, AfterBuild,
       DepsReady, BuildPassed, AppReady, NoTestTimedOut
<1>15. CASE RunTest
  <2>1. /\ pc = "tests"
        /\ UNCHANGED <<request, build, startup, depIndex>>
        /\ \/ pc' = "stopApp"
           \/ /\ pc' = "tests" /\ UNCHANGED <<error, overallTimeout>>
              /\ Len(tests) < request.tests
              /\ \E result \in RunResults :
                    tests' = Append(tests, result) /\ ~result.timedOut
    BY <1>15, Len(tests) <= request.tests
       DEF RunTest, AllTestsRun, Goto, Return, Raise, refs, TypeOK
  <2>2. CASE pc' = "stopApp"
    BY <2>1, <2>2 DEF Progress, ExecuteSteps, BeforeDeps, DuringDeps, BeforeBuild, AfterBuild
  <2>3. CASE pc' = "tests"
    <3>1. PICK result \in RunResults : tests' = Append(tests, result) /\ ~result.timedOut
      BY <2>1, <2>3
    <3>2. Len(tests') <= request.tests /\ NoTestTimedOut'
      BY <2>1, <2>3, <3>1 DEF TypeOK, Progress, NoTestTimedOut
    <3>3. QED
      BY <2>1, <2>3, <3>2 DEF Progress, ExecuteSteps, BeforeDeps, DuringDeps, BeforeBuild,
         AfterBuild, DepsReady, BuildPassed, AppReady
  <2>4. QED
    BY <2>1, <2>2, <2>3
<1>16. CASE \/ StopApplication \/ DestroyEnvironment \/ StopDependencies \/ RemoveCheckout
            \/ EvaluateRun \/ Kill
  <2>1. pc' \in CleanupSteps \cup EndStates
    BY <1>16 DEF StopApplication, DestroyEnvironment, StopDependencies, RemoveCheckout,
       EvaluateRun, Kill, Goto, AfterCleanup, CleanupSteps, EndStates
  <2>2. QED
    BY <2>1 DEF Progress, ExecuteSteps, CleanupSteps, EndStates, BeforeDeps, DuringDeps,
       BeforeBuild, AfterBuild
<1>17. CASE ContainerExpires \/ UNCHANGED vars
  <2>1. UNCHANGED <<pc, request, error, overallTimeout, build, startup, tests, depIndex>>
    BY <1>17 DEF ContainerExpires, vars, data, refs
  <2>2. QED
    BY <2>1 DEF Progress, DepsReady, BuildPassed, AppReady, NoTestTimedOut
<1>18. CASE StartupLogs
  <2>1. /\ pc = "startLogs"
        /\ UNCHANGED <<request, overallTimeout, build, startup, tests, depIndex>>
        /\ \/ pc' = "tests" /\ startup = "READY" /\ error' = error
           \/ pc' = "stopApp"
    BY <1>18 DEF StartupLogs, AfterStartup, Goto, Raise, refs
  <2>2. request.start # "none" /\ tests = <<>> /\ Len(tests) = 0
    BY <2>1 DEF Progress, ExecuteSteps
  <2>3. 0 <= request.tests /\ NoTestTimedOut
    BY <2>2, RequestFacts DEF TypeOK, NoTestTimedOut
  <2>4. CASE pc' = "tests"
    BY <2>1, <2>2, <2>3, <2>4
       DEF Progress, ExecuteSteps, BeforeDeps, DuringDeps, BeforeBuild, AfterBuild,
       DepsReady, BuildPassed, AppReady, NoTestTimedOut
  <2>5. CASE pc' = "stopApp"
    BY <2>5 DEF Progress, ExecuteSteps, BeforeDeps, DuringDeps, BeforeBuild, AfterBuild
  <2>6. QED
    BY <2>1, <2>4, <2>5
<1>19. QED
  BY <1>1, <1>2, <1>3, <1>4, <1>5, <1>6, <1>7, <1>8, <1>9, <1>10, <1>11, <1>12, <1>13, <1>14,
     <1>15, <1>16, <1>17, <1>18 DEF Next, Call

(* Steps that record nothing keep the reason there was. *)
LEMMA QuietStep ==
    ASSUME TypeOK, now' \in Nat, now <= now',
           UNCHANGED <<request, error, overallTimeout, build, startup, tests, depIndex>>
    PROVE  /\ ReasonToStop => ReasonToStop'
           /\ RanOutOfBudget => RanOutOfBudget'
BY TimeoutsAreNat DEF TypeOK, ReasonToStop, Raised, RanOutOfBudget, BuildDidNotPass,
   AppDidNotStart, TestTimedOut, RanEverything, DepsReady, BuildPassed, AppReady,
   NoTestTimedOut, Deadline

(* An exception is a reason of its own. *)
LEMMA RaiseIsAReason ==
    ASSUME NEW kind \in {"infrastructure", "unexpected"}, Raise(kind),
           ~overallTimeout, UNCHANGED overallTimeout
    PROVE  ReasonToStop' /\ ~overallTimeout'
BY DEF Raise, ReasonToStop, Raised

(* So is an exhausted budget, while commands are left to run. *)
LEMMA BudgetIsAReason ==
    ASSUME TypeOK, Progress, FactsAreResults, pc \in ExecuteSteps \ {"startLogs"}, OutOfBudget,
           overallTimeout' = TRUE, Len(tests) < request.tests,
           UNCHANGED <<request, now, error, build, startup, tests>>
    PROVE  ReasonToStop' /\ RanOutOfBudget'
<1>1. now >= Deadline
  BY TimeoutsAreNat DEF OutOfBudget, Remaining, Deadline, TypeOK
<1>2. NoTestTimedOut
  BY DEF Progress, NoTestTimedOut
<1>3. startup \notin {"FAILED", "TIMEOUT"}
  BY DEF Progress, AppReady
<1>4. build # NoRun => build.status = "PASSED"
  BY DEF Progress, ExecuteSteps, BeforeDeps, DuringDeps, BeforeBuild, AfterBuild, BuildPassed
<1>5. error = "none"
  BY DEF Progress
<1>6. QED
  BY <1>1, <1>2, <1>3, <1>4, <1>5
     DEF ReasonToStop, RanOutOfBudget, NoTestTimedOut, Deadline

(* Every way out of _execute has its reason, and cleanup keeps it. *)
LEMMA ReasonStep ==
    ASSUME TypeOK, TypeOK', Progress, FactsAreResults, [Next]_vars,
           pc \in CleanupSteps \cup {"done"} => ReasonToStop,
           overallTimeout => RanOutOfBudget
    PROVE  /\ pc' \in CleanupSteps \cup {"done"} => ReasonToStop'
           /\ overallTimeout' => RanOutOfBudget'
<1> USE RequestFacts
<1>0. pc \in ExecuteSteps => /\ error = "none" /\ overallTimeout = FALSE
                             /\ pc # "tests" => tests = <<>> /\ Len(tests) < request.tests
  BY DEF Progress, TypeOK
<1>1. CASE Preflight \/ Prepare \/ CreateNetwork \/ StartDependency \/ AwaitDependency
           \/ MakeImage \/ RunContainer \/ CopySource \/ ResolvePlaceholders
  <2>1. pc \in ExecuteSteps /\ UNCHANGED overallTimeout
    BY <1>1 DEF Preflight, Prepare, CreateNetwork, StartDependency, AwaitDependency, MakeImage,
       RunContainer, CopySource, ResolvePlaceholders, ExecuteSteps
  <2>2. \/ pc' \in ExecuteSteps
        \/ \E kind \in {"infrastructure", "unexpected"} : Raise(kind)
    BY <1>1 DEF Preflight, Prepare, CreateNetwork, StartDependency, AwaitDependency, MakeImage,
       RunContainer, CopySource, ResolvePlaceholders, CreateFails, Goto, ExecuteSteps
  <2>3. QED
    BY <1>0, <2>1, <2>2, RaiseIsAReason DEF ExecuteSteps, CleanupSteps
<1>2. CASE EnterEnvironment
  <2>1. CASE OutOfBudget
    <3>1. UNCHANGED <<request, now, error, build, startup, tests>> /\ overallTimeout' = TRUE
      BY <1>2, <2>1 DEF EnterEnvironment, Return, Goto
    <3>2. QED
      BY <1>0, <1>2, <2>1, <3>1, BudgetIsAReason DEF EnterEnvironment, ExecuteSteps
  <2>2. CASE ~OutOfBudget
    BY <1>0, <1>2, <2>2 DEF EnterEnvironment, Goto, ExecuteSteps, CleanupSteps
  <2>3. QED
    BY <2>1, <2>2
<1>3. CASE Build
  <2>1. pc = "build" /\ UNCHANGED <<request, startup, tests, depIndex>>
        /\ pc \in ExecuteSteps /\ pc \in BeforeBuild
    BY <1>3 DEF Build, refs, ExecuteSteps, BeforeBuild
  <2>2. CASE request.build /\ OutOfBudget
    <3>1. UNCHANGED <<now, error, build>> /\ overallTimeout' = TRUE
      BY <1>3, <2>2 DEF Build, Return, Goto
    <3>2. QED
      BY <1>0, <2>1, <2>2, <3>1, BudgetIsAReason
  <2>3. CASE request.build /\ ~OutOfBudget /\ Raise("unexpected")
    <3>1. UNCHANGED overallTimeout
      BY <1>3, <2>3 DEF Build
    <3>2. QED
      BY <1>0, <2>1, <2>3, <3>1, RaiseIsAReason
  <2>4. CASE request.build /\ ~OutOfBudget /\ ~Raise("unexpected")
    <3>1. PICK result \in RunResults :
            /\ build' = result
            /\ error' = error
            /\ result.status = "PASSED" => pc' = "start"
      BY <1>3, <2>4 DEF Build, Goto, Return
    <3>2. UNCHANGED overallTimeout
      BY <1>3, <2>4 DEF Build
    <3>3. result.status # "none"
      BY RunResultType DEF CommandRuns, ExecutionStatuses
    <3>4. result # NoRun
      BY <3>3 DEF NoRun
    <3>5. startup = "none"
      BY <2>1 DEF Progress
    <3>6. QED
      BY <1>0, <2>1, <3>1, <3>2, <3>4, <3>5
         DEF ReasonToStop, BuildDidNotPass, CleanupSteps
  <2>5. CASE ~request.build
    BY <1>0, <1>3, <2>1, <2>5 DEF Build, Goto, CleanupSteps
  <2>6. QED
    BY <2>2, <2>3, <2>4, <2>5
<1>4. CASE StartApplication
  <2>1. pc = "start" /\ UNCHANGED <<request, build, tests, depIndex>> /\ pc \in ExecuteSteps
    BY <1>4 DEF StartApplication, refs, ExecuteSteps
  <2>2. CASE request.start # "none" /\ OutOfBudget
    <3>1. UNCHANGED <<now, error, startup>> /\ overallTimeout' = TRUE
      BY <1>4, <2>2 DEF StartApplication, Return, Goto
    <3>2. QED
      BY <1>0, <2>1, <2>2, <3>1, BudgetIsAReason
  <2>3. CASE ~(request.start # "none" /\ OutOfBudget)
    <3>1. UNCHANGED overallTimeout
      BY <1>4, <2>3 DEF StartApplication
    <3>2. \/ pc' \in {"tests", "alive"}
          \/ \E kind \in {"infrastructure", "unexpected"} : Raise(kind)
      BY <1>4, <2>3 DEF StartApplication, Goto
    <3>3. QED
      BY <1>0, <2>1, <3>1, <3>2, RaiseIsAReason DEF CleanupSteps
  <2>4. QED
    BY <2>2, <2>3
<1>5. CASE CheckAlive \/ Probe \/ StartupLogs
  <2>1. /\ pc \in {"alive", "probe", "startLogs"} /\ pc \in ExecuteSteps /\ pc \in AfterBuild
        /\ UNCHANGED <<request, overallTimeout, build, tests, depIndex>>
    BY <1>5 DEF CheckAlive, Probe, StartupLogs, refs, ExecuteSteps, AfterBuild
  <2>2. \/ pc' \in {"alive", "probe", "startLogs", "tests"}
        \/ startup' \in {"FAILED", "TIMEOUT"} /\ error' = error
        \/ \E kind \in {"infrastructure", "unexpected"} : Raise(kind)
    <3>1. CASE CheckAlive \/ Probe
      BY <3>1 DEF CheckAlive, Probe, CheckErrors, StartupReturns, Goto
    <3>2. CASE StartupLogs
      BY <3>2 DEF StartupLogs, AfterStartup, Goto, Progress
    <3>3. QED
      BY <1>5, <3>1, <3>2
  <2>3. BuildPassed /\ tests = <<>>
    BY <2>1 DEF Progress
  <2>4. CASE startup' \in {"FAILED", "TIMEOUT"} /\ error' = error
    BY <1>0, <2>1, <2>3, <2>4 DEF ReasonToStop, AppDidNotStart, BuildPassed
  <2>5. QED
    BY <1>0, <2>1, <2>2, <2>4, RaiseIsAReason DEF CleanupSteps
<1>6. CASE RunTest
  <2>1. /\ pc = "tests" /\ pc \in ExecuteSteps /\ pc \in AfterBuild
        /\ UNCHANGED <<request, build, startup, depIndex>>
        /\ error' = error \/ Raise("unexpected")
    BY <1>6 DEF RunTest, refs, Goto, Return, ExecuteSteps, AfterBuild
  <2>2. DepsReady /\ BuildPassed /\ AppReady /\ NoTestTimedOut
    BY <2>1 DEF Progress
  <2>3. CASE Len(tests) = request.tests
    <3>1. UNCHANGED <<error, overallTimeout, tests>>
      BY <1>6, <2>3 DEF RunTest, AllTestsRun, Return, Goto, TypeOK
    <3>2. QED
      BY <1>0, <2>1, <2>2, <2>3, <3>1 DEF ReasonToStop, RanEverything, DepsReady, BuildPassed,
         AppReady, NoTestTimedOut
  <2>4. CASE Len(tests) < request.tests /\ OutOfBudget
    <3>1. UNCHANGED <<now, error, tests>> /\ overallTimeout' = TRUE
      BY <1>6, <2>4 DEF RunTest, AllTestsRun, Return, Goto, TypeOK
    <3>2. QED
      BY <2>1, <2>4, <3>1, BudgetIsAReason
  <2>5. CASE Len(tests) < request.tests /\ ~OutOfBudget /\ ~Raise("unexpected")
    <3>1. PICK result \in RunResults : /\ tests' = Append(tests, result)
                                       /\ error' = error
                                       /\ ~result.timedOut => pc' = "tests"
      BY <1>6, <2>5 DEF RunTest, AllTestsRun, TypeOK, Goto, Return
    <3>2. UNCHANGED overallTimeout
      BY <1>6, <2>5 DEF RunTest, AllTestsRun, TypeOK
    <3>3. CASE result.timedOut
      <4>1. Len(tests) + 1 \in DOMAIN tests' /\ tests'[Len(tests) + 1] = result
        BY <3>1 DEF TypeOK
      <4>2. ~NoTestTimedOut'
        BY <3>3, <4>1 DEF NoTestTimedOut
      <4>3. QED
        BY <1>0, <2>1, <2>2, <3>1, <3>2, <4>2 DEF ReasonToStop, TestTimedOut, BuildPassed, AppReady
    <3>4. CASE ~result.timedOut
      BY <1>0, <2>1, <3>1, <3>2, <3>4 DEF CleanupSteps
    <3>5. QED
      BY <3>3, <3>4
  <2>6. CASE Len(tests) < request.tests /\ ~OutOfBudget /\ Raise("unexpected")
    <3>1. UNCHANGED overallTimeout
      BY <1>6, <2>6 DEF RunTest
    <3>2. QED
      BY <1>0, <2>1, <2>6, <3>1, RaiseIsAReason
  <2>7. Len(tests) <= request.tests
    BY <2>1 DEF Progress
  <2>8. QED
    BY <1>6, <2>3, <2>4, <2>5, <2>6, <2>7 DEF RunTest, AllTestsRun, TypeOK
<1>7. CASE \/ StopApplication \/ DestroyEnvironment \/ StopDependencies \/ RemoveCheckout
           \/ EvaluateRun
  <2>1. /\ pc \in CleanupSteps
        /\ UNCHANGED <<request, error, overallTimeout, build, startup, tests, depIndex>>
        /\ UNCHANGED now
    BY <1>7 DEF StopApplication, DestroyEnvironment, StopDependencies, RemoveCheckout,
       EvaluateRun, Goto, refs, CleanupSteps
  <2>2. QED
    BY <2>1, QuietStep DEF TypeOK
<1>8. CASE Kill
  <2>1. /\ pc' = "killed" /\ UNCHANGED now
        /\ UNCHANGED <<request, error, overallTimeout, build, startup, tests, depIndex>>
    BY <1>8 DEF Kill, data, refs
  <2>2. QED
    BY <2>1, QuietStep DEF TypeOK, CleanupSteps
<1>9. CASE ContainerExpires
  <2>1. /\ pc' = pc /\ now <= now'
        /\ UNCHANGED <<request, error, overallTimeout, build, startup, tests, depIndex>>
    BY <1>9 DEF ContainerExpires, data, refs, TypeOK, NoTime
  <2>2. QED
    BY <2>1, QuietStep DEF TypeOK
<1>10. CASE UNCHANGED vars
  <2>1. /\ pc' = pc /\ UNCHANGED now
        /\ UNCHANGED <<request, error, overallTimeout, build, startup, tests, depIndex>>
    BY <1>10 DEF vars, data, refs
  <2>2. QED
    BY <2>1, QuietStep DEF TypeOK
<1>11. QED
  BY <1>1, <1>2, <1>3, <1>4, <1>5, <1>6, <1>7, <1>8, <1>9, <1>10 DEF Next, Call

(* The verdict is made once, from the facts as they are then. *)
LEMMA VerdictStep ==
    ASSUME TypeOK, [Next]_vars,
           pc = "done" => verdict = Evaluate(RecordedFacts),
           pc # "done" => verdict = NoVerdict
    PROVE  /\ pc' = "done" => verdict' = Evaluate(RecordedFacts)'
           /\ pc' # "done" => verdict' = NoVerdict
<1>1. CASE EvaluateRun
  <2>1. pc' = "done" /\ verdict' = Evaluate(RecordedFacts) /\ RecordedFacts' = RecordedFacts
    BY <1>1 DEF EvaluateRun, Goto, RecordedFacts
  <2>2. QED
    BY <2>1 DEF Evaluate
<1>2. CASE ContainerExpires \/ UNCHANGED vars
  <2>1. UNCHANGED <<pc, verdict>> /\ RecordedFacts' = RecordedFacts
    BY <1>2 DEF ContainerExpires, vars, data, RecordedFacts
  <2>2. QED
    BY <2>1 DEF Evaluate
<1>3. CASE ~EvaluateRun /\ ~ContainerExpires /\ ~UNCHANGED vars
  <2>1. pc # "done" /\ pc' # "done" /\ UNCHANGED verdict
    BY <1>3 DEF Next, Call, Preflight, Prepare, CreateNetwork, StartDependency,
       AwaitDependency, EnterEnvironment, MakeImage, RunContainer, CopySource,
       ResolvePlaceholders, Build, StartApplication, CheckAlive, Probe, StartupLogs, RunTest,
       StopApplication, DestroyEnvironment, StopDependencies, RemoveCheckout, Kill,
       StartupReturns, AfterStartup, CreateFails, Goto, Return, Raise, AfterCleanup, EndStates
  <2>2. QED
    BY <1>3, <2>1
<1>4. QED
  BY <1>1, <1>2, <1>3

-----------------------------------------------------------------------------
(* The inductive invariant holds when validate() is entered. *)
LEMMA InitIInv == Init => IInv
<1> SUFFICES ASSUME Init
             PROVE  IInv
  OBVIOUS
<1>1. TypeOK
  <2>1. request.deps \in Seq(DepNames) /\ 1 \in 1 .. (Len(request.deps) + 1)
    BY RequestFacts DEF Init
  <2>2. build \in CommandRuns \cup {NoRun} /\ tests \in Seq(CommandRuns) /\ now \in Nat
    BY DEF Init
  <2>3. verdict.status = NoVerdict.status
    BY DEF Init
  <2>4. QED
    BY <2>1, <2>2, <2>3 DEF Init, TypeOK, ExecuteSteps
<1>2. FactsAreResults /\ ~overallTimeout
  BY DEF Init, FactsAreResults
<1>3. Progress
  BY DEF Init, Progress, ExecuteSteps, BeforeDeps, DuringDeps, BeforeBuild, AfterBuild
<1>4. pc \notin CleanupSteps \cup {"done"} /\ verdict = NoVerdict
  BY DEF Init, CleanupSteps
<1>5. QED
  BY <1>1, <1>2, <1>3, <1>4 DEF IInv

(* Every call, a kill and the end of a container's sleep preserve it. *)
LEMMA NextIInv == IInv /\ [Next]_vars => IInv'
<1> SUFFICES ASSUME IInv, [Next]_vars
             PROVE  IInv'
  OBVIOUS
<1>1. TypeOK'
  BY TypeStep DEF IInv
<1>2. FactsAreResults'
  BY FactsStep DEF IInv
<1>3. Progress'
  BY ProgressStep DEF IInv
<1>4. (pc \in CleanupSteps \cup {"done"} => ReasonToStop)' /\ (overallTimeout => RanOutOfBudget)'
  BY <1>1, ReasonStep DEF IInv, CleanupSteps
<1>5. (pc = "done" => verdict = Evaluate(RecordedFacts))' /\ (pc # "done" => verdict = NoVerdict)'
  BY VerdictStep DEF IInv, NoVerdict
<1>6. QED
  BY <1>1, <1>2, <1>3, <1>4, <1>5 DEF IInv

(* So it holds throughout a run. *)
LEMMA Invariance == Spec => []IInv
BY InitIInv, NextIInv, PTL DEF Spec

-----------------------------------------------------------------------------
(***************************************************************************)
(* The theorems.                                                           *)
(***************************************************************************)

(* The state of a run keeps the types the code declares, whatever the      *)
(* request, the timeouts and the faults.                                   *)
THEOREM TypeCorrect == Spec => []TypeOK
<1>1. IInv => TypeOK
  BY DEF IInv
<1>2. QED
  BY <1>1, Invariance, PTL

(* evaluate() returns PASSED only without exception, timeout or failure.   *)
LEMMA PassedFacts ==
    ASSUME NEW facts \in EvaluationInputs, Evaluate(facts).status = "PASSED"
    PROVE  /\ facts.error = "none" /\ ~facts.overallTimeout
           /\ facts.build # NoRun => ~facts.build.timedOut /\ facts.build.status = "PASSED"
           /\ facts.startup \notin {"TIMEOUT", "FAILED"}
           /\ \A i \in DOMAIN facts.tests : /\ ~facts.tests[i].timedOut
                                            /\ facts.tests[i].status \notin {"ERROR", "FAILED"}
BY DEF Evaluate, Evaluation, SomeTest, EvaluationInputs

(* PASSED means that every dependency became healthy, the build passed,    *)
(* the application became ready and every requested test command exited 0. *)
THEOREM PassedIsAlwaysEarned == Spec => []PassedIsEarned
<1>1. IInv => PassedIsEarned
  <2> SUFFICES ASSUME IInv, verdict.status = "PASSED"
               PROVE  PassedIsEarned
    BY DEF PassedIsEarned
  <2>1. RecordedFacts \in EvaluationInputs
    BY DEF IInv, TypeOK, RecordedFacts, EvaluationInputs
  <2>2. pc = "done" /\ Evaluate(RecordedFacts).status = "PASSED"
    BY DEF IInv, NoVerdict
  <2>3. /\ error = "none" /\ ~overallTimeout
        /\ build # NoRun => build.status = "PASSED"
        /\ startup \notin {"TIMEOUT", "FAILED"}
        /\ \A i \in DOMAIN tests : /\ ~tests[i].timedOut
                                   /\ tests[i].status \notin {"ERROR", "FAILED"}
    BY <2>1, <2>2, PassedFacts DEF RecordedFacts
  <2>4. RanEverything
    BY <2>2, <2>3 DEF IInv, ReasonToStop, Raised, RanOutOfBudget, BuildDidNotPass,
       AppDidNotStart, TestTimedOut, NoTestTimedOut
  <2>5. \A i \in DOMAIN tests : tests[i].exit = 0 /\ ~tests[i].timedOut
    <3> SUFFICES ASSUME NEW i \in DOMAIN tests
                 PROVE  tests[i].exit = 0 /\ ~tests[i].timedOut
      OBVIOUS
    <3>1. tests[i] \in RunResults /\ tests[i] \in CommandRuns
      BY RunResultType DEF IInv, FactsAreResults
    <3>2. tests[i].status = "PASSED"
      BY <2>3, <3>1, RunResultType DEF CommandRuns, ExecutionStatuses
    <3>3. QED
      BY <3>1, <3>2, RunResultType
  <2>6. request.build => build.exit = 0 /\ ~build.timedOut
    <3>1. request.build => build \in RunResults /\ build.status = "PASSED"
      BY <2>4 DEF IInv, FactsAreResults, RanEverything, BuildPassed, NoRun
    <3>2. QED
      BY <3>1, RunResultType
  <2>7. QED
    BY <2>4, <2>5, <2>6 DEF PassedIsEarned, RanEverything, DepsReady, AppReady
<1>2. QED
  BY <1>1, Invariance, PTL

(* overall_timeout is recorded only past the deadline, with a requested    *)
(* command that never ran and no exception.                                *)
THEOREM TimeoutIsAlwaysUnfinished == Spec => []TimeoutMeansUnfinished
<1>1. IInv => TimeoutMeansUnfinished
  BY DEF IInv, TimeoutMeansUnfinished, RanOutOfBudget
<1>2. QED
  BY <1>1, Invariance, PTL

(* What makes the two orders agree: a timeout and a test status go         *)
(* together, and after a build or a startup that failed nothing else ran.  *)
LEMMA OrdersAgree ==
    ASSUME NEW facts \in EvaluationInputs,
           \A i \in DOMAIN facts.tests :
               facts.tests[i].timedOut <=> facts.tests[i].status = "TIMEOUT",
           facts.build # NoRun => /\ facts.build.timedOut <=> facts.build.status = "TIMEOUT"
                                  /\ facts.build.status = "PASSED" => facts.build.exit = 0,
           facts.error = "none" /\ facts.build # NoRun /\ facts.build.status # "PASSED" =>
               facts.tests = <<>> /\ facts.startup = "none" /\ ~facts.overallTimeout,
           facts.error = "none" /\ facts.startup = "FAILED" =>
               facts.tests = <<>> /\ ~facts.overallTimeout
    PROVE  Evaluate(facts).status = DocumentedStatus(facts)
<1>1. SomeTest(facts.tests, "TIMEOUT") <=> \E i \in DOMAIN facts.tests : facts.tests[i].timedOut
  BY DEF SomeTest
<1>2. facts.tests = <<>> => \A status : ~SomeTest(facts.tests, status)
  BY DEF SomeTest
<1>3. facts.build = NoRun => ~facts.build.timedOut
  BY DEF NoRun
<1>4. CASE facts.error # "none"
  <2>1. facts.error \in {"infrastructure", "unexpected"}
    BY <1>4 DEF EvaluationInputs
  <2>2. QED
    BY <2>1 DEF Evaluate, Evaluation, DocumentedStatus
<1>5. CASE facts.error = "none" /\ facts.build # NoRun /\ facts.build.status # "PASSED"
  <2>1. CASE facts.build.timedOut
    BY <1>5, <2>1 DEF Evaluate, Evaluation, DocumentedStatus, SomeStepTimedOut, BuildNeverRan
  <2>2. CASE ~facts.build.timedOut
    <3>1. ~SomeStepTimedOut(facts)
      BY <1>1, <1>2, <1>5, <2>2 DEF SomeStepTimedOut
    <3>2. QED
      BY <1>5, <2>2, <3>1 DEF Evaluate, Evaluation, DocumentedStatus, BuildNeverRan
  <2>3. QED
    BY <2>1, <2>2
<1>6. CASE facts.error = "none" /\ (facts.build # NoRun => facts.build.status = "PASSED")
  <2>1. ~facts.build.timedOut /\ (facts.build # NoRun => facts.build.exit # NoExit)
    BY <1>3, <1>6, NoExitAssumption
  <2>2. ~BuildNeverRan(facts)
    BY <2>1 DEF BuildNeverRan
  <2>3. CASE facts.startup = "FAILED"
    <3>1. ~SomeStepTimedOut(facts)
      BY <1>2, <1>6, <2>1, <2>3 DEF SomeStepTimedOut
    <3>2. QED
      BY <1>6, <2>1, <2>2, <2>3, <3>1 DEF Evaluate, Evaluation, DocumentedStatus
  <2>4. CASE facts.startup # "FAILED"
    <3>1. CASE SomeStepTimedOut(facts)
      BY <1>1, <1>6, <2>1, <2>2, <2>4, <3>1
         DEF Evaluate, Evaluation, DocumentedStatus, SomeStepTimedOut
    <3>2. CASE ~SomeStepTimedOut(facts)
      BY <1>1, <1>6, <2>1, <2>2, <2>4, <3>2
         DEF Evaluate, Evaluation, DocumentedStatus, SomeStepTimedOut
    <3>3. QED
      BY <3>1, <3>2
  <2>5. QED
    BY <2>3, <2>4
<1>7. QED
  BY <1>4, <1>5, <1>6

(* On everything the orchestrator can record, the order in which evaluate  *)
(* tries its rules and the documented precedence agree.                    *)
THEOREM VerdictIsAsDocumented == Spec => []VerdictFollowsPrecedence
<1>1. IInv => VerdictFollowsPrecedence
  <2> SUFFICES ASSUME IInv, pc = "done"
               PROVE  Evaluate(RecordedFacts).status = DocumentedStatus(RecordedFacts)
    BY DEF IInv, VerdictFollowsPrecedence
  <2>1. RecordedFacts \in EvaluationInputs
    BY DEF IInv, TypeOK, RecordedFacts, EvaluationInputs
  <2>2. /\ RecordedFacts.error = error /\ RecordedFacts.overallTimeout = overallTimeout
        /\ RecordedFacts.build = build /\ RecordedFacts.startup = startup
        /\ RecordedFacts.tests = tests
    BY DEF RecordedFacts
  <2>3. ReasonToStop
    BY DEF IInv
  <2>4. \A i \in DOMAIN tests : tests[i].timedOut <=> tests[i].status = "TIMEOUT"
    BY RunResultType DEF IInv, FactsAreResults
  <2>5. build # NoRun => /\ build.timedOut <=> build.status = "TIMEOUT"
                         /\ build.status = "PASSED" => build.exit = 0
    BY RunResultType DEF IInv, FactsAreResults
  <2>6. error = "none" /\ build # NoRun /\ build.status # "PASSED" =>
            tests = <<>> /\ startup = "none" /\ ~overallTimeout
    BY <2>3 DEF ReasonToStop, Raised, RanOutOfBudget, BuildDidNotPass, AppDidNotStart,
       TestTimedOut, RanEverything, BuildPassed
  <2>7. error = "none" /\ startup = "FAILED" => tests = <<>> /\ ~overallTimeout
    BY <2>3 DEF ReasonToStop, Raised, RanOutOfBudget, BuildDidNotPass, AppDidNotStart,
       TestTimedOut, RanEverything, AppReady
  <2>8. QED
    BY <2>1, <2>2, <2>4, <2>5, <2>6, <2>7, OrdersAgree
<1>2. QED
  BY <1>1, Invariance, PTL

(* A build or test command that is recorded started before the deadline,   *)
(* and its limit was clipped to what was left: it overran the deadline by  *)
(* no more than the joins of its pumps.                                    *)
THEOREM CommandsAlwaysInBudget == Spec => CommandsEndWithinBudget
<1> DEFINE InBudget == build' # build \/ tests' # tests => now < Deadline /\ now' <= Deadline + JoinT
<1>1. IInv /\ [Next]_vars => InBudget
  <2> SUFFICES ASSUME TypeOK, [Next]_vars, build' # build \/ tests' # tests
               PROVE  now < Deadline /\ now' <= Deadline + JoinT
    BY DEF IInv
  <2>1. Build \/ RunTest
    BY DEF Next, Call, vars, data, Preflight, Prepare, CreateNetwork, StartDependency,
       AwaitDependency, EnterEnvironment, MakeImage, RunContainer, CopySource,
       ResolvePlaceholders, StartApplication, CheckAlive, Probe, StartupLogs, StopApplication,
       DestroyEnvironment, StopDependencies, RemoveCheckout, EvaluateRun, Kill,
       ContainerExpires
  <2>2. /\ ~OutOfBudget
        /\ \E limit \in Nat : \E result : limit <= Remaining /\ Executes(result, limit)
    <3>1. ~OutOfBudget /\ \E result : \/ Executes(result, AtMost(BuildT, Remaining))
                                     \/ Executes(result, AtMost(TestT, Remaining))
      BY <2>1 DEF Build, RunTest
    <3>2. \A T \in Nat : AtMost(T, Remaining) \in Nat /\ AtMost(T, Remaining) <= Remaining
      BY <3>1, TimeoutsAreNat DEF TypeOK, AtMost, Remaining, Deadline, OutOfBudget
    <3>3. QED
      BY <3>1, <3>2, TimeoutsAreNat
  <2>3. QED
    BY <2>2, ExecutesType, TimeoutsAreNat DEF TypeOK, Remaining, Deadline, OutOfBudget
<1>2. QED
  BY <1>1, Invariance, PTL DEF Spec, CommandsEndWithinBudget

(* Once cleanup has begun no step changes a recorded fact, and cleanup     *)
(* goes on to the evaluation whatever fails in it.                         *)
THEOREM CleanupNeverMasks == Spec => CleanupNeverMasksTheResult
<1>1. [Next]_vars /\ pc \in CleanupSteps => UNCHANGED data /\ pc' \in CleanupSteps \cup EndStates
  <2> SUFFICES ASSUME [Next]_vars, pc \in CleanupSteps
               PROVE  UNCHANGED data /\ pc' \in CleanupSteps \cup EndStates
    OBVIOUS
  <2>1. \/ StopApplication \/ DestroyEnvironment \/ StopDependencies \/ RemoveCheckout
        \/ EvaluateRun \/ Kill \/ ContainerExpires \/ UNCHANGED vars
    BY DEF CleanupSteps, Next, Call, Preflight, Prepare, CreateNetwork, StartDependency,
       AwaitDependency, EnterEnvironment, MakeImage, RunContainer, CopySource,
       ResolvePlaceholders, Build, StartApplication, CheckAlive, Probe, StartupLogs, RunTest
  <2>2. QED
    BY <2>1 DEF StopApplication, DestroyEnvironment, StopDependencies, RemoveCheckout,
       EvaluateRun, Kill, ContainerExpires, vars, data, Goto, AfterCleanup, CleanupSteps,
       EndStates
<1>2. QED
  BY <1>1, PTL DEF Spec, CleanupNeverMasksTheResult

-----------------------------------------------------------------------------
(***************************************************************************)
(* What the run leaves behind.  A second invariant follows everything that *)
(* exists outside the process, from the call that creates it through the   *)
(* reference the orchestrator holds to the call that removes it.  A killed *)
(* process follows nothing any more.                                       *)
(***************************************************************************)
InEnvironment == {"placeholders", "build", "start", "alive", "probe", "startLogs", "tests"}
BeforeEnvironment == ExecuteSteps \ InEnvironment
AfterDestroy == {"stopDeps", "removeCheckout", "evaluate", "done"}
AfterStopDeps == {"removeCheckout", "evaluate", "done"}
Orphans == "orphan" \in Faults
Orderly == Faults \cap {"orphan", "cleanup"} = {}

(* env_status and the reference to the environment.                        *)
EnvironmentFits ==
    /\ ~Docker => pc \notin {"image", "runContainer", "copySource"}
    /\ pc \in BeforeEnvironment => "env" \notin held /\ envStatus = "NOT_CREATED"
    /\ pc \in InEnvironment => "env" \in held /\ envStatus = "CREATED"
    /\ "env" \in held <=> envStatus \in {"CREATED", "DESTROYED", "DESTROY_FAILED"}
    /\ pc \in AfterDestroy => envStatus # "CREATED"
    /\ envStatus \in {"DESTROYED", "DESTROY_FAILED"} => pc \in AfterDestroy

(* The container, the image and the application in them.                   *)
ContainerFits ==
    /\ ~Docker => live \cap {"container", "image"} = {}
    /\ "container" \in live => /\ expires >= Overall
                               /\ \/ pc = "copySource" \/ "env" \in held
                                  \/ envStatus = "CREATE_FAILED" /\ (Orphans \/ "container" \in reported)
    /\ Docker /\ pc \in InEnvironment \cup {"copySource"} => "container" \in live \/ now >= Overall
    /\ Docker /\ "app" \in live => "container" \in live
    /\ ~Docker /\ "app" \in live => "env" \in held /\ pc \notin AfterDestroy
    /\ pc \in AfterDestroy /\ "env" \in held => live \cap {"container", "image"} \subseteq reported
    /\ envStatus = "DESTROYED" => live \cap {"container", "image", "app"} = {}
    /\ envStatus = "DESTROY_FAILED" => reported \cap {"container", "image"} # {}

(* The dependencies and the network they share.                            *)
DependenciesFit ==
    /\ \A i \in 1 .. depIndex - 1 :
          IF pc \in AfterStopDeps THEN request.deps[i] \in live => request.deps[i] \in reported
          ELSE request.deps[i] \in registered
    /\ pc = "awaitDep" => request.deps[depIndex] \in registered
    /\ ~Orphans => /\ live \cap DepNames \subseteq IF pc \in AfterStopDeps THEN reported ELSE registered
                   /\ "network" \in live => IF pc \in AfterStopDeps THEN "network" \in reported
                                            ELSE "network" \in held

(* A world that does what it is told.                                      *)
OrderFits ==
    Orderly =>
        /\ reported = {}
        /\ "image" \in live => /\ pc \notin BeforeDeps \cup DuringDeps \cup {"environment", "image"}
                               /\ \/ pc \in {"runContainer", "copySource"} \/ "env" \in held
                                  \/ envStatus = "CREATE_FAILED"
        /\ "checkout" \in live => "prepared" \in held /\ pc \notin {"evaluate", "done"}

LInv == pc # "killed" => EnvironmentFits /\ ContainerFits /\ DependenciesFit /\ OrderFits

(* A killed process does nothing more; what it was asked to do is fixed.   *)
LEMMA NothingFollowsTheKill ==
    ASSUME [Next]_vars, pc' # "killed"
    PROVE  /\ pc # "killed" /\ request' = request
           /\ Call \/ ContainerExpires \/ UNCHANGED vars
<1>1. Call \/ Kill \/ ContainerExpires \/ UNCHANGED vars
  BY DEF Next
<1>2. ~Kill
  BY DEF Kill
<1>3. QED
  BY <1>1, <1>2 DEF Call, vars, Preflight, Prepare, CreateNetwork, StartDependency,
     AwaitDependency, EnterEnvironment, MakeImage, RunContainer, CopySource,
     ResolvePlaceholders, Build, StartApplication, CheckAlive, Probe, StartupLogs, RunTest, StopApplication,
     DestroyEnvironment, StopDependencies, RemoveCheckout, EvaluateRun, ContainerExpires

(* env_status follows the reference to the environment.                    *)
LEMMA EnvironmentStep ==
    ASSUME EnvironmentFits, [Next]_vars, pc' # "killed"
    PROVE  EnvironmentFits'
<1>1. CASE Preflight
  BY <1>1 DEF Preflight, Goto, Raise, refs, world, EnvironmentFits, InEnvironment,
     BeforeEnvironment, ExecuteSteps, AfterDestroy, Docker
<1>2. CASE Prepare
  BY <1>2 DEF Prepare, Goto, Raise, MayLeave, EnvironmentFits, InEnvironment,
     BeforeEnvironment, ExecuteSteps, AfterDestroy, Docker
<1>3. CASE CreateNetwork
  BY <1>3 DEF CreateNetwork, Goto, Raise, MayLeave, EnvironmentFits, InEnvironment,
     BeforeEnvironment, ExecuteSteps, AfterDestroy, Docker
<1>4. CASE StartDependency
  BY <1>4 DEF StartDependency, Goto, Raise, MayLeave, EnvironmentFits, InEnvironment,
     BeforeEnvironment, ExecuteSteps, AfterDestroy, Docker
<1>5. CASE AwaitDependency
  BY <1>5 DEF AwaitDependency, Goto, Raise, world, EnvironmentFits, InEnvironment,
     BeforeEnvironment, ExecuteSteps, AfterDestroy, Docker
<1>6. CASE EnterEnvironment
  BY <1>6 DEF EnterEnvironment, Goto, Return, world, EnvironmentFits, InEnvironment,
     BeforeEnvironment, ExecuteSteps, AfterDestroy, Docker
<1>7. CASE MakeImage
  BY <1>7 DEF MakeImage, Goto, Raise, CreateFails, MayLeave, EnvironmentFits, InEnvironment,
     BeforeEnvironment, ExecuteSteps, AfterDestroy, Docker
<1>8. CASE RunContainer
  BY <1>8 DEF RunContainer, Goto, Raise, CreateFails, MayLeave, Lifetime, EnvironmentFits,
     InEnvironment, BeforeEnvironment, ExecuteSteps, AfterDestroy, Docker
<1>9. CASE CopySource
  BY <1>9 DEF CopySource, Goto, Raise, CreateFails, Destroy, Report, EnvironmentFits,
     InEnvironment, BeforeEnvironment, ExecuteSteps, AfterDestroy, Docker
<1>10. CASE ResolvePlaceholders
  BY <1>10 DEF ResolvePlaceholders, Goto, Raise, refs, world, EnvironmentFits, InEnvironment,
     BeforeEnvironment, ExecuteSteps, AfterDestroy, Docker
<1>11. CASE Build
  BY <1>11 DEF Build, Goto, Return, Raise, refs, world, EnvironmentFits, InEnvironment,
     BeforeEnvironment, ExecuteSteps, AfterDestroy, Docker
<1>12. CASE StartApplication
  BY <1>12 DEF StartApplication, Goto, Return, Raise, MayLeave, refs, EnvironmentFits,
     InEnvironment, BeforeEnvironment, ExecuteSteps, AfterDestroy, Docker
<1>13. CASE CheckAlive
  BY <1>13 DEF CheckAlive, Goto, StartupReturns, EnvironmentFits, InEnvironment,
     BeforeEnvironment, ExecuteSteps, AfterDestroy, Docker
<1>14. CASE Probe
  BY <1>14 DEF Probe, Goto, Raise, StartupReturns, world, EnvironmentFits, InEnvironment,
     BeforeEnvironment, ExecuteSteps, AfterDestroy, Docker
<1>15. CASE RunTest
  BY <1>15 DEF RunTest, Goto, Return, Raise, refs, world, EnvironmentFits, InEnvironment,
     BeforeEnvironment, ExecuteSteps, AfterDestroy, Docker
<1>16. CASE StopApplication
  BY <1>16 DEF StopApplication, Goto, AfterCleanup, refs, EnvironmentFits, InEnvironment,
     BeforeEnvironment, ExecuteSteps, AfterDestroy, Docker
<1>17. CASE DestroyEnvironment
  BY <1>17 DEF DestroyEnvironment, Goto, AfterCleanup, Destroy, DestroyStatus, Report,
     EnvironmentFits, InEnvironment, BeforeEnvironment, ExecuteSteps, AfterDestroy, Docker
<1>18. CASE StopDependencies
  BY <1>18 DEF StopDependencies, Goto, AfterCleanup, Report, Attached, EnvironmentFits,
     InEnvironment, BeforeEnvironment, ExecuteSteps, AfterDestroy, Docker
<1>19. CASE RemoveCheckout
  BY <1>19 DEF RemoveCheckout, Goto, AfterCleanup, refs, EnvironmentFits, InEnvironment,
     BeforeEnvironment, ExecuteSteps, AfterDestroy, Docker
<1>20. CASE EvaluateRun
  BY <1>20 DEF EvaluateRun, Goto, refs, world, EnvironmentFits, InEnvironment,
     BeforeEnvironment, ExecuteSteps, AfterDestroy, Docker
<1>21. CASE ContainerExpires
  BY <1>21 DEF ContainerExpires, refs, EnvironmentFits, InEnvironment, BeforeEnvironment,
     ExecuteSteps, AfterDestroy, Docker
<1>22. CASE UNCHANGED vars
  BY <1>22 DEF vars, refs, world, EnvironmentFits, InEnvironment, BeforeEnvironment,
     ExecuteSteps, AfterDestroy, Docker
<1>23. CASE StartupLogs
  BY <1>23 DEF StartupLogs, AfterStartup, Goto, Raise, refs, world, EnvironmentFits,
     InEnvironment, BeforeEnvironment, ExecuteSteps, AfterDestroy, Docker
<1>24. QED
  BY <1>1, <1>2, <1>3, <1>4, <1>5, <1>6, <1>7, <1>8, <1>9, <1>10, <1>11, <1>12, <1>13, <1>14,
     <1>15, <1>16, <1>17, <1>18, <1>19, <1>20, <1>21, <1>22, <1>23,
     NothingFollowsTheKill DEF Call

(* So do the container and what is in it.                                  *)
LEMMA ContainerStep ==
    ASSUME TypeOK, Progress, EnvironmentFits, ContainerFits, now' \in Nat, now <= now',
           [Next]_vars, pc' # "killed"
    PROVE  ContainerFits'
<1>0. (now >= Overall => now' >= Overall) /\ {"container", "image", "app"} \cap DepNames = {}
  BY TimeoutsAreNat, RequestsAssumption DEF TypeOK, Fixed
<1>1. CASE Preflight
  BY <1>1, TimeoutsAreNat DEF Preflight, Goto, Raise, refs, world, ContainerFits,
     EnvironmentFits, InEnvironment, BeforeEnvironment, ExecuteSteps, AfterDestroy, Orphans,
     Docker, Faults
<1>2. CASE Prepare
  BY <1>2, TimeoutsAreNat DEF Prepare, Goto, Raise, MayLeave, ContainerFits, EnvironmentFits,
     InEnvironment, BeforeEnvironment, ExecuteSteps, AfterDestroy, Orphans, Docker, Faults
<1>3. CASE CreateNetwork
  BY <1>3, TimeoutsAreNat DEF CreateNetwork, Goto, Raise, MayLeave, ContainerFits,
     EnvironmentFits, InEnvironment, BeforeEnvironment, ExecuteSteps, AfterDestroy, Orphans,
     Docker, Faults
<1>4. CASE StartDependency
  <2>1. /\ pc = "startDep" /\ pc' \in {"awaitDep", "stopApp"}
        /\ live' \in {live, live \cup {request.deps[depIndex]}}
        /\ UNCHANGED <<request, held, envStatus, expires, reported>>
    BY <1>4 DEF StartDependency, Goto, Raise, MayLeave
  <2>2. request.deps[depIndex] \in DepNames
    BY <2>1, RequestFacts DEF Progress, DuringDeps, TypeOK
  <2>3. QED
    BY <1>0, <2>1, <2>2 DEF ContainerFits, InEnvironment, AfterDestroy, Orphans, Docker, Faults
<1>5. CASE AwaitDependency
  BY <1>5, TimeoutsAreNat DEF AwaitDependency, Goto, Raise, world, ContainerFits,
     EnvironmentFits, InEnvironment, BeforeEnvironment, ExecuteSteps, AfterDestroy, Orphans,
     Docker, Faults
<1>6. CASE EnterEnvironment
  BY <1>6, TimeoutsAreNat DEF EnterEnvironment, Goto, Return, world, ContainerFits,
     EnvironmentFits, InEnvironment, BeforeEnvironment, ExecuteSteps, AfterDestroy, Orphans,
     Docker, Faults
<1>7. CASE MakeImage
  BY <1>7, TimeoutsAreNat DEF MakeImage, Goto, Raise, CreateFails, MayLeave, ContainerFits,
     EnvironmentFits, InEnvironment, BeforeEnvironment, ExecuteSteps, AfterDestroy, Orphans,
     Docker, Faults
<1>8. CASE RunContainer
  <2>1. /\ pc = "runContainer" /\ UNCHANGED <<request, held, reported>>
        /\ IF "container" \in live' THEN \E begun \in Nat : expires' = begun + Lifetime
                                     ELSE UNCHANGED expires
        /\ \/ /\ pc' = "copySource" /\ live' = live \cup {"container"} /\ UNCHANGED envStatus
           \/ /\ pc' = "stopApp" /\ envStatus' = "CREATE_FAILED"
              /\ (live' = live \/ (live' = live \cup {"container"} /\ Orphans))
    BY <1>8 DEF RunContainer, Goto, Raise, CreateFails, MayLeave, Orphans, TypeOK
  <2>2. "container" \in live' => expires' >= Overall
    <3>1. \A n \in Nat : n + Lifetime >= Overall
      BY TimeoutsAreNat DEF Lifetime
    <3>2. QED
      BY <2>1, <3>1
  <2>3. Docker /\ "env" \notin held /\ envStatus = "NOT_CREATED"
    BY <2>1 DEF EnvironmentFits, BeforeEnvironment, ExecuteSteps, InEnvironment
  <2>4. "container" \notin live /\ "app" \notin live
    BY <2>1, <2>3 DEF ContainerFits
  <2>5. QED
    BY <1>0, <2>1, <2>2, <2>3, <2>4 DEF ContainerFits, InEnvironment, AfterDestroy, Orphans, Docker, Faults
<1>9. CASE CopySource
  <2>1. pc = "copySource" /\ UNCHANGED <<request, expires>>
    BY <1>9 DEF CopySource
  <2>2. Docker /\ "env" \notin held
    BY <2>1 DEF EnvironmentFits, BeforeEnvironment, ExecuteSteps, InEnvironment
  <2>3. CASE pc' = "placeholders" /\ held' = held \cup {"env"} /\ envStatus' = "CREATED"
             /\ UNCHANGED <<live, reported>>
    BY <1>0, <2>1, <2>2, <2>3 DEF ContainerFits, InEnvironment, AfterDestroy, Orphans, Docker, Faults
  <2>4. CASE /\ pc' = "stopApp" /\ envStatus' = "CREATE_FAILED" /\ UNCHANGED held
             /\ \E failed \in SUBSET {"container", "image"} : Destroy(failed)
    <3>1. /\ live' \subseteq live
          /\ "app" \in live' => "container" \in live'
          /\ "container" \in live' => "container" \in reported'
      BY <2>2, <2>4 DEF Destroy, Report, ContainerFits
    <3>2. QED
      BY <1>0, <2>1, <2>2, <2>4, <3>1 DEF ContainerFits, InEnvironment, AfterDestroy, Orphans, Docker, Faults
  <2>5. QED
    BY <1>9, <2>3, <2>4 DEF CopySource, Goto, Raise, CreateFails
<1>10. CASE ResolvePlaceholders
  BY <1>10, TimeoutsAreNat DEF ResolvePlaceholders, Goto, Raise, refs, world, ContainerFits,
     EnvironmentFits, InEnvironment, BeforeEnvironment, ExecuteSteps, AfterDestroy, Orphans,
     Docker, Faults
<1>11. CASE Build
  <2>1. /\ pc \in InEnvironment /\ pc' \in InEnvironment \cup {"stopApp"}
        /\ UNCHANGED <<request, envStatus, live, expires, reported>>
        /\ "env" \in held' <=> "env" \in held
    BY <1>11 DEF Build, Goto, InEnvironment, Return, Raise, refs, world
  <2>2. QED
    BY <1>0, <2>1 DEF ContainerFits, InEnvironment, AfterDestroy, Orphans, Docker, Faults
<1>12. CASE StartApplication
  <2>1. /\ pc = "start" /\ pc' \in {"alive", "tests", "stopApp"}
        /\ live' \in {live, live \cup {"app"}}
        /\ UNCHANGED <<request, held, envStatus, expires, reported>>
    BY <1>12 DEF StartApplication, Goto, Return, Raise, MayLeave, refs
  <2>2. "app" \in live' /\ "app" \notin live => ~OutOfBudget
    BY <1>12 DEF StartApplication
  <2>3. "app" \in live' /\ "app" \notin live => now < Overall
    BY <2>2, TimeoutsAreNat DEF OutOfBudget, Remaining, Deadline, TypeOK
  <2>4. "env" \in held /\ envStatus = "CREATED"
    BY <2>1 DEF EnvironmentFits, InEnvironment
  <2>5. Docker /\ now < Overall => "container" \in live
    BY <2>1, TimeoutsAreNat DEF ContainerFits, InEnvironment, TypeOK
  <2>6. QED
    BY <1>0, <2>1, <2>3, <2>4, <2>5 DEF ContainerFits, InEnvironment, AfterDestroy, Orphans, Docker, Faults
<1>13. CASE CheckAlive
  <2>1. /\ pc = "alive" /\ pc' \in {"probe", "startLogs"}
        /\ live' \in {live, live \ {"app"}}
        /\ UNCHANGED <<request, envStatus, expires, reported>>
        /\ "env" \in held' <=> "env" \in held
    BY <1>13 DEF CheckAlive, Goto, StartupReturns
  <2>2. QED
    BY <1>0, <2>1 DEF ContainerFits, InEnvironment, AfterDestroy, Orphans, Docker, Faults
<1>14. CASE Probe
  <2>1. /\ pc \in InEnvironment /\ pc' \in InEnvironment \cup {"stopApp"}
        /\ UNCHANGED <<request, envStatus, live, expires, reported>>
        /\ "env" \in held' <=> "env" \in held
    BY <1>14 DEF Probe, Goto, InEnvironment, Raise, StartupReturns, world
  <2>2. QED
    BY <1>0, <2>1 DEF ContainerFits, InEnvironment, AfterDestroy, Orphans, Docker, Faults
<1>15. CASE RunTest
  <2>1. /\ pc \in InEnvironment /\ pc' \in InEnvironment \cup {"stopApp"}
        /\ UNCHANGED <<request, envStatus, live, expires, reported>>
        /\ "env" \in held' <=> "env" \in held
    BY <1>15 DEF RunTest, Goto, InEnvironment, Return, Raise, refs, world
  <2>2. QED
    BY <1>0, <2>1 DEF ContainerFits, InEnvironment, AfterDestroy, Orphans, Docker, Faults
<1>16. CASE StopApplication
  BY <1>16, TimeoutsAreNat DEF StopApplication, Goto, AfterCleanup, refs, ContainerFits,
     EnvironmentFits, InEnvironment, BeforeEnvironment, ExecuteSteps, AfterDestroy, Orphans,
     Docker, Faults
<1>17. CASE DestroyEnvironment
  BY <1>17, TimeoutsAreNat DEF DestroyEnvironment, Goto, AfterCleanup, Destroy, DestroyStatus,
     Report, ContainerFits, EnvironmentFits, InEnvironment, BeforeEnvironment, ExecuteSteps,
     AfterDestroy, Orphans, Docker, Faults
<1>18. CASE StopDependencies
  <2>1. /\ pc = "stopDeps" /\ pc' = "removeCheckout"
        /\ live' \subseteq live /\ reported \subseteq reported'
        /\ UNCHANGED <<request, envStatus, expires>>
        /\ "env" \in held' <=> "env" \in held
    BY <1>18 DEF StopDependencies, Goto, AfterCleanup, Report
  <2>2. "container" \in live => "container" \in live'
    <3>1. \E stopped \in SUBSET registered : live \ (stopped \cup {"network"}) \subseteq live'
      BY <1>18 DEF StopDependencies
    <3>2. QED
      BY <1>0, <3>1 DEF TypeOK
  <2>3. QED
    BY <1>0, <2>1, <2>2 DEF ContainerFits, InEnvironment, AfterDestroy, Orphans, Docker, Faults
<1>19. CASE RemoveCheckout
  BY <1>19, TimeoutsAreNat DEF RemoveCheckout, Goto, AfterCleanup, refs, ContainerFits,
     EnvironmentFits, InEnvironment, BeforeEnvironment, ExecuteSteps, AfterDestroy, Orphans,
     Docker, Faults
<1>20. CASE EvaluateRun
  BY <1>20, TimeoutsAreNat DEF EvaluateRun, Goto, refs, world, ContainerFits, EnvironmentFits,
     InEnvironment, BeforeEnvironment, ExecuteSteps, AfterDestroy, Orphans, Docker, Faults
<1>21. CASE ContainerExpires
  <2>1. /\ SleepMayEnd /\ live' = live \ {"container", "app"}
        /\ UNCHANGED <<request, pc, held, envStatus, expires, reported>>
        /\ "container" \in live
    BY <1>21 DEF ContainerExpires, refs
  <2>2. pc \in InEnvironment \cup {"copySource"} => now >= expires
    BY <2>1 DEF SleepMayEnd, CleanupSteps, EndStates, InEnvironment
  <2>3. expires >= Overall
    BY <2>1 DEF ContainerFits
  <2>4. pc \in InEnvironment \cup {"copySource"} => now' >= Overall
    BY <1>0, <2>1, <2>2, <2>3, TimeoutsAreNat DEF TypeOK, NoTime
  <2>5. QED
    BY <1>0, <2>1, <2>3, <2>4 DEF ContainerFits, InEnvironment, AfterDestroy, Orphans, Docker, Faults
<1>22. CASE UNCHANGED vars
  BY <1>22 DEF vars, refs, world, ContainerFits, EnvironmentFits, InEnvironment,
     BeforeEnvironment, ExecuteSteps, AfterDestroy, Orphans, Docker, Faults
<1>23. CASE StartupLogs
  <2>1. /\ pc \in InEnvironment /\ pc' \in InEnvironment \cup {"stopApp"}
        /\ UNCHANGED <<request, held, envStatus, live, expires, reported>>
    BY <1>23 DEF StartupLogs, AfterStartup, Goto, InEnvironment, Raise, refs, world
  <2>2. QED
    BY <1>0, <2>1 DEF ContainerFits, InEnvironment, AfterDestroy, Orphans, Docker, Faults
<1>24. QED
  BY <1>1, <1>2, <1>3, <1>4, <1>5, <1>6, <1>7, <1>8, <1>9, <1>10, <1>11, <1>12, <1>13, <1>14,
     <1>15, <1>16, <1>17, <1>18, <1>19, <1>20, <1>21, <1>22, <1>23,
     NothingFollowsTheKill DEF Call

(* The dependencies stay registered until they are stopped.                *)
LEMMA DependenciesStep ==
    ASSUME TypeOK, Progress, DependenciesFit, [Next]_vars, pc' # "killed"
    PROVE  DependenciesFit'
<1>0. \A r \in Fixed : r \notin DepNames
  BY RequestsAssumption
<1> USE <1>0 DEF Fixed
<1>1. CASE Preflight
  BY <1>1 DEF Preflight, Goto, Raise, refs, world, DependenciesFit, AfterStopDeps, Orphans,
     Faults
<1>2. CASE Prepare
  BY <1>2 DEF Prepare, Goto, Raise, MayLeave, DependenciesFit, AfterStopDeps, Orphans, Faults
<1>3. CASE CreateNetwork
  BY <1>3 DEF CreateNetwork, Goto, Raise, MayLeave, DependenciesFit, AfterStopDeps, Orphans,
     Faults
<1>4. CASE StartDependency
  <2>1. /\ pc = "startDep" /\ UNCHANGED <<request, held, depIndex, reported>>
        /\ \/ /\ pc' = "awaitDep" /\ live' = live \cup {request.deps[depIndex]}
              /\ registered' = registered \cup {request.deps[depIndex]}
           \/ /\ pc' = "stopApp" /\ UNCHANGED registered
              /\ (live' = live \/ (live' = live \cup {request.deps[depIndex]} /\ Orphans))
    BY <1>4 DEF StartDependency, Goto, Raise, MayLeave, Orphans
  <2>2. request.deps[depIndex] \in DepNames
    BY <2>1, RequestFacts DEF Progress, DuringDeps, TypeOK
  <2>3. QED
    BY <2>1, <2>2 DEF DependenciesFit, AfterStopDeps, Orphans, Faults
<1>5. CASE AwaitDependency
  <2>1. /\ pc = "awaitDep" /\ pc' \in {"awaitDep", "startDep", "environment", "stopApp"}
        /\ UNCHANGED <<request, held, registered, live, reported>>
        /\ depIndex' = depIndex \/ (depIndex' = depIndex + 1 /\ pc' # "awaitDep")
    BY <1>5 DEF AwaitDependency, Goto, Raise, world
  <2>2. depIndex \in Nat
    BY RequestFacts DEF TypeOK
  <2>3. \A i \in 1 .. depIndex' - 1 : request.deps[i] \in registered
    BY <2>1, <2>2 DEF DependenciesFit, AfterStopDeps
  <2>4. QED
    BY <2>1, <2>3 DEF DependenciesFit, AfterStopDeps, Orphans, Faults
<1>6. CASE EnterEnvironment
  BY <1>6 DEF EnterEnvironment, Goto, Return, world, DependenciesFit, AfterStopDeps, Orphans,
     Faults
<1>7. CASE MakeImage
  BY <1>7 DEF MakeImage, Goto, Raise, CreateFails, MayLeave, DependenciesFit, AfterStopDeps,
     Orphans, Faults
<1>8. CASE RunContainer
  BY <1>8 DEF RunContainer, Goto, Raise, CreateFails, MayLeave, Lifetime, DependenciesFit,
     AfterStopDeps, Orphans, Faults
<1>9. CASE CopySource
  BY <1>9 DEF CopySource, Goto, Raise, CreateFails, Destroy, Report, DependenciesFit,
     AfterStopDeps, Orphans, Faults
<1>10. CASE ResolvePlaceholders
  BY <1>10 DEF ResolvePlaceholders, Goto, Raise, refs, world, DependenciesFit, AfterStopDeps,
     Orphans, Faults
<1>11. CASE Build
  BY <1>11 DEF Build, Goto, Return, Raise, refs, world, DependenciesFit, AfterStopDeps, Orphans,
     Faults
<1>12. CASE StartApplication
  BY <1>12 DEF StartApplication, Goto, Return, Raise, MayLeave, refs, DependenciesFit,
     AfterStopDeps, Orphans, Faults
<1>13. CASE CheckAlive
  BY <1>13 DEF CheckAlive, Goto, StartupReturns, DependenciesFit, AfterStopDeps, Orphans,
     Faults
<1>14. CASE Probe
  BY <1>14 DEF Probe, Goto, Raise, StartupReturns, world, DependenciesFit, AfterStopDeps,
     Orphans, Faults
<1>15. CASE RunTest
  BY <1>15 DEF RunTest, Goto, Return, Raise, refs, world, DependenciesFit, AfterStopDeps, Orphans,
     Faults
<1>16. CASE StopApplication
  BY <1>16 DEF StopApplication, Goto, AfterCleanup, refs, DependenciesFit, AfterStopDeps,
     Orphans, Faults
<1>17. CASE DestroyEnvironment
  BY <1>17 DEF DestroyEnvironment, Goto, AfterCleanup, Destroy, DestroyStatus, Report,
     DependenciesFit, AfterStopDeps, Orphans, Faults
<1>18. CASE StopDependencies
  BY <1>18 DEF StopDependencies, Goto, AfterCleanup, Report, Attached, DependenciesFit,
     AfterStopDeps, Orphans, Faults
<1>19. CASE RemoveCheckout
  BY <1>19 DEF RemoveCheckout, Goto, AfterCleanup, refs, DependenciesFit, AfterStopDeps,
     Orphans, Faults
<1>20. CASE EvaluateRun
  BY <1>20 DEF EvaluateRun, Goto, refs, world, DependenciesFit, AfterStopDeps, Orphans, Faults
<1>21. CASE ContainerExpires
  BY <1>21 DEF ContainerExpires, refs, DependenciesFit, AfterStopDeps, Orphans, Faults
<1>22. CASE UNCHANGED vars
  BY <1>22 DEF vars, refs, world, DependenciesFit, AfterStopDeps, Orphans, Faults
<1>23. CASE StartupLogs
  BY <1>23 DEF StartupLogs, AfterStartup, Goto, Raise, refs, world, DependenciesFit,
     AfterStopDeps, Orphans, Faults
<1>24. QED
  BY <1>1, <1>2, <1>3, <1>4, <1>5, <1>6, <1>7, <1>8, <1>9, <1>10, <1>11, <1>12, <1>13, <1>14,
     <1>15, <1>16, <1>17, <1>18, <1>19, <1>20, <1>21, <1>22, <1>23,
     NothingFollowsTheKill DEF Call

(* And nothing is left or reported for want of order.                      *)
LEMMA OrderStep ==
    ASSUME TypeOK, Progress, EnvironmentFits, ContainerFits, DependenciesFit, OrderFits,
           [Next]_vars, pc' # "killed"
    PROVE  OrderFits'
<1>1. CASE Preflight
  BY <1>1 DEF Preflight, Goto, Raise, refs, world, OrderFits, Orderly, BeforeDeps, DuringDeps,
     Faults
<1>2. CASE Prepare
  BY <1>2 DEF Prepare, Goto, Raise, MayLeave, OrderFits, Orderly, BeforeDeps, DuringDeps,
     Faults
<1>3. CASE CreateNetwork
  BY <1>3 DEF CreateNetwork, Goto, Raise, MayLeave, OrderFits, Orderly, BeforeDeps,
     DuringDeps, Faults
<1>4. CASE StartDependency
  <2>1. /\ pc = "startDep" /\ pc' \in {"awaitDep", "stopApp"}
        /\ live' \in {live, live \cup {request.deps[depIndex]}}
        /\ UNCHANGED <<request, held, envStatus, reported>>
    BY <1>4 DEF StartDependency, Goto, Raise, MayLeave
  <2>2. request.deps[depIndex] \in DepNames
    BY <2>1, RequestFacts DEF Progress, DuringDeps, TypeOK
  <2>3. request.deps[depIndex] \notin {"image", "checkout"}
    BY <2>2, RequestsAssumption DEF Fixed
  <2>4. QED
    BY <2>1, <2>3 DEF OrderFits, Orderly, BeforeDeps, DuringDeps, Faults
<1>5. CASE AwaitDependency
  BY <1>5 DEF AwaitDependency, Goto, Raise, world, OrderFits, Orderly, BeforeDeps, DuringDeps,
     Faults
<1>6. CASE EnterEnvironment
  BY <1>6 DEF EnterEnvironment, Goto, Return, world, OrderFits, Orderly, BeforeDeps,
     DuringDeps, Faults
<1>7. CASE MakeImage
  BY <1>7 DEF MakeImage, Goto, Raise, CreateFails, MayLeave, OrderFits, Orderly, BeforeDeps,
     DuringDeps, Faults
<1>8. CASE RunContainer
  BY <1>8 DEF RunContainer, Goto, Raise, CreateFails, MayLeave, Lifetime, OrderFits, Orderly,
     BeforeDeps, DuringDeps, Faults
<1>9. CASE CopySource
  BY <1>9 DEF CopySource, Goto, Raise, CreateFails, Destroy, Report, OrderFits, Orderly,
     BeforeDeps, DuringDeps, Faults
<1>10. CASE ResolvePlaceholders
  BY <1>10 DEF ResolvePlaceholders, Goto, Raise, refs, world, OrderFits, Orderly, BeforeDeps,
     DuringDeps, Faults
<1>11. CASE Build
  BY <1>11 DEF Build, Goto, Return, Raise, refs, world, OrderFits, Orderly, BeforeDeps, DuringDeps,
     Faults
<1>12. CASE StartApplication
  BY <1>12 DEF StartApplication, Goto, Return, Raise, MayLeave, refs, OrderFits, Orderly,
     BeforeDeps, DuringDeps, Faults
<1>13. CASE CheckAlive
  BY <1>13 DEF CheckAlive, Goto, StartupReturns, OrderFits, Orderly, BeforeDeps, DuringDeps,
     Faults
<1>14. CASE Probe
  BY <1>14 DEF Probe, Goto, Raise, StartupReturns, world, OrderFits, Orderly, BeforeDeps,
     DuringDeps, Faults
<1>15. CASE RunTest
  BY <1>15 DEF RunTest, Goto, Return, Raise, refs, world, OrderFits, Orderly, BeforeDeps, DuringDeps,
     Faults
<1>16. CASE StopApplication
  BY <1>16 DEF StopApplication, Goto, AfterCleanup, refs, OrderFits, Orderly, BeforeDeps,
     DuringDeps, Faults
<1>17. CASE DestroyEnvironment
  BY <1>17 DEF DestroyEnvironment, Goto, AfterCleanup, Destroy, DestroyStatus, Report,
     OrderFits, Orderly, BeforeDeps, DuringDeps, Faults
<1>18. CASE StopDependencies
  <2> SUFFICES ASSUME Orderly
               PROVE  OrderFits'
    BY <1>18 DEF StopDependencies, OrderFits, Orderly, Faults
  <2>1. PICK failed \in SUBSET registered, netFails \in BOOLEAN :
            /\ failed # {} => "cleanup" \in Faults
            /\ \E left \in SUBSET failed :
                  LET stopped == registered \ left
                      blocked == Attached \ stopped # {}
                  IN /\ netFails => "network" \in held /\ (blocked \/ "cleanup" \in Faults)
                     /\ live' \subseteq live
            /\ reported' = reported \cup failed \cup IF netFails THEN {"network"} ELSE {}
    BY <1>18 DEF StopDependencies, Report
  <2>2. /\ pc = "stopDeps" /\ pc' = "removeCheckout" /\ UNCHANGED <<request, envStatus>>
        /\ "env" \in held' <=> "env" \in held
        /\ "prepared" \in held' <=> "prepared" \in held
    BY <1>18 DEF StopDependencies, Goto, AfterCleanup
  <2>3. failed = {} /\ "cleanup" \notin Faults /\ ~Orphans /\ reported = {}
    BY <2>1 DEF Orderly, OrderFits, Orphans
  <2>4. "container" \notin live
    BY <2>2, <2>3 DEF ContainerFits, AfterDestroy
  <2>5. live \cap DepNames \subseteq registered
    BY <2>2, <2>3 DEF DependenciesFit, AfterStopDeps
  <2>6. Attached \ registered = {}
    BY <2>4, <2>5 DEF Attached
  <2>7. reported' = {} /\ live' \subseteq live
    BY <2>1, <2>3, <2>6
  <2>8. QED
    BY <2>2, <2>7 DEF OrderFits, Orderly, BeforeDeps, DuringDeps, Faults
<1>19. CASE RemoveCheckout
  BY <1>19 DEF RemoveCheckout, Goto, AfterCleanup, refs, OrderFits, Orderly, BeforeDeps,
     DuringDeps, Faults
<1>20. CASE EvaluateRun
  BY <1>20 DEF EvaluateRun, Goto, refs, world, OrderFits, Orderly, BeforeDeps, DuringDeps,
     Faults
<1>21. CASE ContainerExpires
  BY <1>21 DEF ContainerExpires, refs, OrderFits, Orderly, BeforeDeps, DuringDeps, Faults
<1>22. CASE UNCHANGED vars
  BY <1>22 DEF vars, refs, world, OrderFits, Orderly, BeforeDeps, DuringDeps, Faults
<1>23. CASE StartupLogs
  BY <1>23 DEF StartupLogs, AfterStartup, Goto, Raise, refs, world, OrderFits, Orderly,
     BeforeDeps, DuringDeps, Faults
<1>24. QED
  BY <1>1, <1>2, <1>3, <1>4, <1>5, <1>6, <1>7, <1>8, <1>9, <1>10, <1>11, <1>12, <1>13, <1>14,
     <1>15, <1>16, <1>17, <1>18, <1>19, <1>20, <1>21, <1>22, <1>23,
     NothingFollowsTheKill DEF Call

(* No step sets the clock back.                                            *)
LEMMA ClockMovesOn ==
    ASSUME TypeOK, [Next]_vars
    PROVE  now <= now'
<1> USE TimeoutsAreNat DEF TypeOK
<1>1. CASE UNCHANGED now
  BY <1>1
<1>2. CASE Prepare
  BY <1>2, TakesType DEF Prepare
<1>3. CASE StartDependency
  BY <1>3, TakesType DEF StartDependency
<1>4. CASE AwaitDependency
  BY <1>4 DEF AwaitDependency
<1>5. CASE MakeImage
  <2> DEFINE limit == IF request.dockerfile THEN Cli(timer) ELSE Cli(ExecT) + Cli(timer)
  <2>1. Cli(timer) \in Nat /\ Cli(ExecT) \in Nat
    BY DockerTimes
  <2>2. limit \in Nat /\ Takes(limit)
    BY <1>5, <2>1 DEF MakeImage
  <2>3. QED
    BY <2>2, TakesType
<1>6. CASE RunContainer
  BY <1>6, TakesType, DockerTimes DEF RunContainer
<1>7. CASE CopySource
  BY <1>7, TakesType, DockerTimes DEF CopySource
<1>8. CASE Build
  <2>1. AtMost(BuildT, Remaining) \in Nat \/ OutOfBudget
    BY DEF AtMost, Remaining, OutOfBudget, Deadline
  <2>2. QED
    BY <1>8, <2>1, ExecutesType DEF Build
<1>9. CASE StartApplication
  <2>1. DockerTime(StartExecT) \in Nat
    BY DockerTimes
  <2>2. QED
    BY <1>9, <2>1, TakesType DEF StartApplication
<1>10. CASE CheckAlive
  BY <1>10, TakesType, DockerTimes DEF CheckAlive
<1>11. CASE Probe
  BY <1>11, CheckTimeIsNat DEF Probe
<1>12. CASE RunTest
  <2>1. AtMost(TestT, Remaining) \in Nat \/ OutOfBudget
    BY DEF AtMost, Remaining, OutOfBudget, Deadline
  <2>2. QED
    BY <1>12, <2>1, ExecutesType DEF RunTest
<1>13. CASE ContainerExpires
  BY <1>13 DEF ContainerExpires, NoTime
<1>14. CASE StartupLogs
  BY <1>14, TakesType, DockerTimes DEF StartupLogs
<1>15. QED
  BY <1>1, <1>2, <1>3, <1>4, <1>5, <1>6, <1>7, <1>8, <1>9, <1>10, <1>11, <1>12, <1>13, <1>14
     DEF Next, Call, Kill, vars, Preflight, CreateNetwork, EnterEnvironment, ResolvePlaceholders,
         StopApplication, DestroyEnvironment, StopDependencies, RemoveCheckout, EvaluateRun

(* Every step of a run that is not killed keeps what is known of the world. *)
LEMMA LeftoversInvariance == Spec => []LInv
<1>1. Init => LInv
  BY DEF Init, LInv, EnvironmentFits, ContainerFits, DependenciesFit, OrderFits, InEnvironment,
     BeforeEnvironment, ExecuteSteps, AfterDestroy, AfterStopDeps, BeforeDeps, DuringDeps
<1>2. ASSUME IInv, TypeOK', LInv, [Next]_vars
      PROVE  LInv'
  <2> SUFFICES ASSUME pc' # "killed"
               PROVE  (EnvironmentFits /\ ContainerFits /\ DependenciesFit /\ OrderFits)'
    BY DEF LInv
  <2>1. pc # "killed" /\ TypeOK /\ Progress
    BY <1>2, NothingFollowsTheKill DEF IInv
  <2>2. EnvironmentFits /\ ContainerFits /\ DependenciesFit /\ OrderFits
    BY <1>2, <2>1 DEF LInv
  <2>3. now' \in Nat /\ now <= now'
    BY <1>2, <2>1, ClockMovesOn DEF TypeOK
  <2>4. EnvironmentFits'
    BY <1>2, <2>2, EnvironmentStep
  <2>5. ContainerFits'
    BY <1>2, <2>1, <2>2, <2>3, ContainerStep
  <2>6. DependenciesFit'
    BY <1>2, <2>1, <2>2, DependenciesStep
  <2>7. OrderFits'
    BY <1>2, <2>1, <2>2, OrderStep
  <2>8. QED
    BY <2>4, <2>5, <2>6, <2>7
<1>3. IInv => TypeOK
  BY DEF IInv
<1>4. QED
  BY <1>1, <1>2, <1>3, Invariance, PTL DEF Spec

(* At the end of a run whatever cleanup had a handle on is gone or named   *)
(* in the result; without faults nothing stays but the image of a failed   *)
(* creation; and environment_status says what became of the environment.   *)
THEOREM LeftoversAreAlwaysKnown == Spec => []LeftoversAreKnown
<1>1. ASSUME TypeOK, LInv
      PROVE  LeftoversAreKnown
  <2> SUFFICES ASSUME pc = "done"
               PROVE  LeftoversAreKnown
    BY DEF LeftoversAreKnown, NothingOwnedIsLost, OrderlyCleanup, EnvironmentStatusIsTrue
  <2>1. EnvironmentFits /\ ContainerFits /\ DependenciesFit /\ OrderFits
    BY <1>1 DEF LInv
  <2>2. /\ envStatus # "CREATED"
        /\ "env" \in held <=> envStatus \in {"DESTROYED", "DESTROY_FAILED"}
    BY <2>1 DEF EnvironmentFits, AfterDestroy
  <2>3. /\ "env" \in held => live \cap {"container", "image"} \subseteq reported
        /\ "app" \in live => "container" \in live
        /\ "container" \in live => \/ "env" \in held
                                   \/ envStatus = "CREATE_FAILED" /\ (Orphans \/ "container" \in reported)
        /\ envStatus = "DESTROYED" => live \cap {"container", "image", "app"} = {}
        /\ envStatus = "DESTROY_FAILED" => reported \cap {"container", "image"} # {}
    BY <2>1 DEF ContainerFits, AfterDestroy
  <2>4. /\ \A i \in 1 .. depIndex - 1 : request.deps[i] \in live => request.deps[i] \in reported
        /\ ~Orphans => /\ live \cap DepNames \subseteq reported
                       /\ "network" \in live => "network" \in reported
    BY <2>1 DEF DependenciesFit, AfterStopDeps
  <2>5. Orderly => /\ reported = {}
                   /\ "image" \in live => "env" \in held \/ envStatus = "CREATE_FAILED"
                   /\ "checkout" \notin live
    BY <2>1 DEF OrderFits
  <2>6. NothingOwnedIsLost
    BY <2>3, <2>4 DEF NothingOwnedIsLost, Orphans
  <2>7. EnvironmentStatusIsTrue
    BY <2>2, <2>3 DEF EnvironmentStatusIsTrue
  <2>8. OrderlyCleanup
    <3> SUFFICES ASSUME Orderly
                 PROVE  /\ live \subseteq {"image"}
                        /\ "image" \in live => envStatus = "CREATE_FAILED"
                        /\ reported = {}
      BY DEF OrderlyCleanup, Orderly
    <3>1. reported = {} /\ ~Orphans
      BY <2>5 DEF Orderly, Orphans
    <3>2. live \cap DepNames = {} /\ "network" \notin live /\ "checkout" \notin live
      BY <2>4, <2>5, <3>1
    <3>3. "container" \notin live /\ "app" \notin live
      BY <2>3, <3>1
    <3>4. "image" \in live => "env" \notin held
      BY <2>3, <3>1
    <3>5. live \subseteq Resources
      BY <1>1 DEF TypeOK
    <3>6. QED
      BY <2>5, <3>1, <3>2, <3>3, <3>4, <3>5 DEF Resources, Fixed
  <2>9. QED
    BY <2>6, <2>7, <2>8 DEF LeftoversAreKnown
<1>2. IInv => TypeOK
  BY DEF IInv
<1>3. QED
  BY <1>1, <1>2, Invariance, LeftoversInvariance, PTL

-----------------------------------------------------------------------------
(***************************************************************************)
(* The container's sleep.  The grace it adds to the budget has to cover    *)
(* the docker commands that may run past the budget: the start of the      *)
(* application or the pause before a poll, then the check that it is       *)
(* alive and the command a probe begins with.  The code adds 120 seconds,  *)
(* for (60 + 10) + (15 + 10) + 15 at most, a command's timeout and the two *)
(* joins of its pumps; the pause is the request's, half a second by        *)
(* default.  The clock ticks in units: before the deadline is at least one *)
(* before it.                                                              *)
(***************************************************************************)
Checks == Cli(ExecT) + ExecT

GraceCovers ==
    /\ Cli(StartExecT) + Checks <= Grace + 1
    /\ Poll + Checks <= Grace + 1

ClockFits ==
    /\ "container" \in live => expires >= Overall + Grace
    /\ pc \in {"alive", "probe"} => timer <= Overall
    /\ pc = "alive" => now + Checks <= Overall + Grace
    /\ pc = "probe" => now + ExecT <= Overall + Grace

(* What is begun before the deadline ends within the grace. *)
LEMMA EndsWithinTheGrace ==
    ASSUME NEW start \in Nat, NEW before \in Nat, NEW then \in Nat,
           NEW budget \in Nat, NEW grace \in Nat, NEW end \in Nat,
           start < budget, end <= start + before, before + then <= grace + 1
    PROVE  end + then <= budget + grace
OBVIOUS

LEMMA ChecksAreNat == Checks \in Nat
BY DockerTimes, TimeoutsAreNat DEF Checks

LEMMA ClockStep ==
    ASSUME GraceCovers, TypeOK, Progress, ClockFits, [Next]_vars
    PROVE  ClockFits'
<1> USE TimeoutsAreNat DEF TypeOK
<1>0. /\ Checks \in Nat /\ Cli(ExecT) \in Nat /\ Cli(StartExecT) \in Nat
      /\ DockerTime(ExecT) \in Nat /\ DockerTime(ExecT) <= Cli(ExecT)
      /\ DockerTime(StartExecT) \in Nat /\ DockerTime(StartExecT) <= Cli(StartExecT)
  BY ChecksAreNat, DockerTimes
<1>1. CASE StartApplication
  <2>1. CASE pc' = "alive"
    <3>1. /\ ~OutOfBudget /\ Takes(DockerTime(StartExecT)) /\ timer' = now + AtMost(StartupT, Remaining)
          /\ live' = live \cup {"app"} /\ UNCHANGED expires
      BY <1>1, <2>1 DEF StartApplication, Goto, Return, Raise
    <3>2. now < Overall /\ now' <= now + Cli(StartExecT) /\ now' \in Nat
      <4>1. now' <= now + DockerTime(StartExecT) /\ now' \in Nat
        BY <1>0, <3>1, TakesType
      <4>2. now < Overall
        BY <3>1 DEF OutOfBudget, Remaining, Deadline
      <4>3. QED
        BY <1>0, <4>1, <4>2
    <3>3. timer' <= Overall
      BY <3>1, <3>2 DEF AtMost, Remaining, Deadline
    <3>4. now' + Checks <= Overall + Grace
      BY <1>0, <3>2, EndsWithinTheGrace DEF GraceCovers
    <3>5. "container" \in live' => expires' >= Overall + Grace
      BY <3>1 DEF ClockFits
    <3>6. QED
      BY <2>1, <3>3, <3>4, <3>5 DEF ClockFits
  <2>2. CASE pc' # "alive"
    <3>1. /\ pc' # "probe" /\ UNCHANGED expires
          /\ "container" \in live' => "container" \in live
      BY <1>1, <2>2 DEF StartApplication, Goto, Return, Raise, MayLeave
    <3>2. QED
      BY <2>2, <3>1 DEF ClockFits
  <2>3. QED
    BY <2>1, <2>2
<1>2. CASE CheckAlive
  <2>1. /\ pc = "alive" /\ Takes(DockerTime(ExecT)) /\ UNCHANGED <<timer, expires>>
        /\ pc' # "alive" /\ live' \subseteq live
    BY <1>2 DEF CheckAlive, Goto, StartupReturns
  <2>2. now' \in Nat /\ now' <= now + Cli(ExecT)
    <3>1. now' \in Nat /\ now' <= now + DockerTime(ExecT)
      BY <1>0, <2>1, TakesType
    <3>2. QED
      BY <1>0, <3>1
  <2>3. now' + ExecT <= Overall + Grace
    <3>1. now + (Cli(ExecT) + ExecT) <= Overall + Grace
      BY <2>1 DEF ClockFits, Checks
    <3>2. \A n \in Nat : n <= now + Cli(ExecT) => n + ExecT <= Overall + Grace
      BY <1>0, <3>1
    <3>3. QED
      BY <2>2, <3>2
  <2>4. QED
    BY <2>1, <2>3 DEF ClockFits
<1>3. CASE Probe
  <2>1. /\ pc = "probe" /\ pc' # "probe" /\ UNCHANGED <<timer, live, expires>>
    BY <1>3 DEF Probe, Goto, Raise, StartupReturns, waits, world
  <2>2. CASE pc' = "alive"
    <3>1. \E d \in Nat : now + d < timer /\ now' = now + d + Poll
      BY <1>3, <2>2, CheckTimeIsNat DEF Probe, Goto, Raise, StartupReturns
    <3>2. now' + Checks <= Overall + Grace
      <4>1. PICK d \in Nat : now + d < timer /\ now' = now + d + Poll
        BY <3>1
      <4>2. now + d \in Nat /\ now + d < Overall /\ now' \in Nat /\ now' <= now + d + Poll
        BY <2>1, <4>1 DEF ClockFits
      <4>3. QED
        BY <1>0, <4>2, EndsWithinTheGrace DEF GraceCovers
    <3>3. QED
      BY <2>1, <2>2, <3>2 DEF ClockFits
  <2>3. CASE pc' # "alive"
    BY <2>1, <2>3 DEF ClockFits
  <2>4. QED
    BY <2>2, <2>3
<1>4. CASE RunContainer
  <2>1. /\ pc' \notin {"alive", "probe"}
        /\ IF "container" \in live' THEN \E begun \in Nat : expires' = begun + Lifetime
                                     ELSE UNCHANGED expires
    BY <1>4 DEF RunContainer, Goto, CreateFails, Raise
  <2>2. \A begun \in Nat : begun + Lifetime >= Overall + Grace
    BY DEF Lifetime
  <2>3. QED
    BY <2>1, <2>2 DEF ClockFits
<1>5. CASE ContainerExpires
  <2>1. /\ SleepMayEnd /\ UNCHANGED <<pc, timer, expires>> /\ "container" \notin live'
        /\ now' = IF now >= expires THEN now ELSE expires
    BY <1>5 DEF ContainerExpires, waits
  <2>2. pc \in {"alive", "probe"} => now >= expires
    BY <2>1 DEF SleepMayEnd, CleanupSteps, EndStates
  <2>3. pc \in {"alive", "probe"} => now' = now
    BY <2>1, <2>2
  <2>4. QED
    BY <2>1, <2>3 DEF ClockFits
<1>6. ASSUME pc' \notin {"alive", "probe"}, UNCHANGED expires,
             "container" \in live' => "container" \in live
      PROVE  ClockFits'
  BY <1>6 DEF ClockFits
<1>7. CASE \/ Preflight \/ ResolvePlaceholders \/ Build \/ RunTest \/ EvaluateRun
           \/ EnterEnvironment \/ StartupLogs
  BY <1>6, <1>7 DEF Preflight, ResolvePlaceholders, Build, RunTest, EvaluateRun,
     EnterEnvironment, StartupLogs, AfterStartup, Goto, Return, Raise, world
<1>8. CASE Prepare \/ CreateNetwork \/ MakeImage \/ CopySource
  BY <1>6, <1>8 DEF Prepare, CreateNetwork, MakeImage, CopySource, Goto, Raise, CreateFails,
     MayLeave, Destroy
<1>9. CASE AwaitDependency
  BY <1>6, <1>9 DEF AwaitDependency, Goto, Raise, world
<1>10. CASE StopApplication \/ DestroyEnvironment \/ RemoveCheckout \/ Kill
  BY <1>6, <1>10 DEF StopApplication, DestroyEnvironment, RemoveCheckout, Kill, Goto,
     AfterCleanup, Destroy, world
<1>11. CASE StopDependencies
  BY <1>6, <1>11 DEF StopDependencies, Goto, AfterCleanup
<1>12. CASE UNCHANGED vars
  BY <1>12 DEF ClockFits, vars, waits, world
<1>13. CASE StartDependency
  <2>1. /\ pc = "startDep" /\ pc' \in {"awaitDep", "stopApp"} /\ UNCHANGED expires
        /\ live' \in {live, live \cup {request.deps[depIndex]}}
    BY <1>13 DEF StartDependency, Goto, Raise, MayLeave
  <2>2. request.deps[depIndex] # "container"
    <3>1. request.deps[depIndex] \in DepNames
      BY <2>1, RequestFacts DEF Progress, DuringDeps
    <3>2. QED
      BY <3>1, RequestsAssumption DEF Fixed
  <2>3. QED
    BY <1>6, <2>1, <2>2
<1>14. QED
  BY <1>1, <1>2, <1>3, <1>4, <1>5, <1>7, <1>8, <1>9, <1>10, <1>11, <1>12, <1>13 DEF Next, Call

(* While the container is among what exists, its sleep outlasts every      *)
(* command the run may have in it: the poll of the application, the docker *)
(* command its probe begins with, and a build or a test, which the budget  *)
(* left cuts short.  A container that exits under a command would be read  *)
(* as the command's failure (DockerSandboxProvider.create: lifetime =      *)
(* overall + 120).                                                         *)
THEOREM ContainerOutlives ==
    ASSUME GraceCovers
    PROVE  Spec => []ContainerOutlivesCommands
<1>1. Init => ClockFits
  BY DEF Init, ClockFits
<1>2. IInv /\ ClockFits /\ [Next]_vars => ClockFits'
  BY GraceCovers, ClockStep DEF IInv
<1>3. IInv /\ ClockFits => ContainerOutlivesCommands
  <2> SUFFICES ASSUME IInv, ClockFits, "container" \in live
               PROVE  /\ pc \in {"alive", "probe"} => now + ExecT <= expires
                      /\ pc \in {"build", "start", "tests"} /\ ~OutOfBudget =>
                            now + Remaining <= expires
    BY DEF ContainerOutlivesCommands
  <2>1. now \in Nat /\ expires \in Int /\ expires >= Overall + Grace
    <3>1. now \in Nat /\ expires \in Int
      BY DEF IInv, TypeOK, NoTime
    <3>2. QED
      BY <3>1 DEF ClockFits
  <2>2. pc \in {"alive", "probe"} => now + ExecT <= Overall + Grace
    <3>1. pc = "alive" => now + (Cli(ExecT) + ExecT) <= Overall + Grace
      BY DEF ClockFits, Checks
    <3>2. pc = "alive" => now + ExecT <= Overall + Grace
      BY <2>1, <3>1, DockerTimes, TimeoutsAreNat
    <3>3. QED
      BY <3>2 DEF ClockFits
  <2>3. pc \in {"alive", "probe"} => now + ExecT <= expires
    BY <2>1, <2>2, TimeoutsAreNat
  <2>4. ~OutOfBudget => now + Remaining <= expires
    BY <2>1, TimeoutsAreNat DEF OutOfBudget, Remaining, Deadline
  <2>5. QED
    BY <2>3, <2>4
<1>4. QED
  BY <1>1, <1>2, <1>3, Invariance, PTL DEF Spec
===============================================================================
