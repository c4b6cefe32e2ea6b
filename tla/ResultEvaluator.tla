--------------------------- MODULE ResultEvaluator ---------------------------
(***************************************************************************)
(* The deterministic verdict of a validation run: classify_exit            *)
(* (executor.py) turns one command into a status, ResultEvaluator.evaluate *)
(* (evaluator.py) turns the recorded facts of a run into a verdict.        *)
(*                                                                         *)
(* Output text, counts and messages are left out: the code records them as *)
(* evidence and never reads them back to decide anything.                  *)
(***************************************************************************)
EXTENDS Integers, Sequences

CONSTANT
    NoExit     \* exit_code None: the command never ran, or was killed on timeout

ASSUME NoExitAssumption == NoExit \notin Int

ExecutionStatuses == {"PASSED", "FAILED", "TIMEOUT", "ERROR"}

ValidationStatuses == {"PASSED", "FAILED", "TIMEOUT", "BUILD_FAILED",
                       "STARTUP_FAILED", "INFRASTRUCTURE_FAILED", "ERROR"}

StartupStatuses == {"READY", "FAILED", "TIMEOUT", "NOT_REQUIRED"}

ExitCodes == Int \cup {NoExit}

(* 126: found but not executable, 127: command not found. *)
CouldNotRun == {126, 127}

ClassifyExit(exit, timedOut) ==
    IF timedOut THEN "TIMEOUT"
    ELSE IF exit = NoExit \/ exit \in CouldNotRun THEN "ERROR"
    ELSE IF exit = 0 THEN "PASSED"
    ELSE "FAILED"

(* The recorded facts of one executed command. *)
CommandRuns == [exit : ExitCodes, timedOut : BOOLEAN, status : ExecutionStatuses]

CommandRun(exit, timedOut) ==
    [exit |-> exit, timedOut |-> timedOut, status |-> ClassifyExit(exit, timedOut)]

(* build_result None: no build was recorded. *)
NoRun == [exit |-> NoExit, timedOut |-> FALSE, status |-> "none"]

-----------------------------------------------------------------------------
(* What the evaluator is given.  "error" is the exception validate() caught:*)
(* "unexpected" and "infrastructure" exclude each other there.             *)
EvaluationInputs ==
    [error : {"none", "infrastructure", "unexpected"},
     overallTimeout : BOOLEAN,
     build : CommandRuns \cup {NoRun},
     startup : StartupStatuses \cup {"none"},
     tests : Seq(CommandRuns)]

(* The first run of a sequence with a given status: the loops of evaluate. *)
SomeTest(tests, status) == \E i \in DOMAIN tests : tests[i].status = status

FirstTest(tests, status) ==
    tests[CHOOSE i \in DOMAIN tests :
              /\ tests[i].status = status
              /\ \A j \in 1 .. (i - 1) : tests[j].status # status]

Evaluation(status, exit) == [status |-> status, exit |-> exit]

(* The rules of evaluate in the order the code tries them. *)
Evaluate(data) ==
    IF data.error = "unexpected" THEN Evaluation("ERROR", NoExit)
    ELSE IF data.error = "infrastructure" THEN Evaluation("INFRASTRUCTURE_FAILED", NoExit)
    ELSE IF data.build # NoRun /\ data.build.timedOut THEN Evaluation("TIMEOUT", NoExit)
    ELSE IF data.build # NoRun /\ data.build.exit = NoExit
         THEN Evaluation("INFRASTRUCTURE_FAILED", NoExit)
    ELSE IF data.build # NoRun /\ data.build.status # "PASSED"
         THEN Evaluation("BUILD_FAILED", data.build.exit)
    ELSE IF data.startup = "TIMEOUT" THEN Evaluation("TIMEOUT", NoExit)
    ELSE IF data.startup = "FAILED" THEN Evaluation("STARTUP_FAILED", NoExit)
    ELSE IF data.overallTimeout THEN Evaluation("TIMEOUT", NoExit)
    ELSE IF \E i \in DOMAIN data.tests : data.tests[i].timedOut
         THEN Evaluation("TIMEOUT", NoExit)
    ELSE IF SomeTest(data.tests, "ERROR")
         THEN Evaluation("ERROR", FirstTest(data.tests, "ERROR").exit)
    ELSE IF SomeTest(data.tests, "FAILED")
         THEN Evaluation("FAILED", FirstTest(data.tests, "FAILED").exit)
    ELSE IF data.tests = <<>> THEN Evaluation("ERROR", NoExit)
    ELSE Evaluation("PASSED", 0)

(* ValidationResult.test_result: the first run that did not pass, else the last. *)
DecisiveTest(tests) ==
    IF \E i \in DOMAIN tests : tests[i].status # "PASSED"
    THEN tests[CHOOSE i \in DOMAIN tests :
                   /\ tests[i].status # "PASSED"
                   /\ \A j \in 1 .. (i - 1) : tests[j].status = "PASSED"]
    ELSE tests[Len(tests)]

-----------------------------------------------------------------------------
(* The precedence table of evaluator.py's docstring, as one reads it: a     *)
(* statement about which facts hold, not about the order code looks at     *)
(* them.  A build that never ran (no exit code, no timeout) is "setup".    *)
SomeStepTimedOut(data) ==
    \/ data.overallTimeout
    \/ data.build.timedOut
    \/ data.startup = "TIMEOUT"
    \/ SomeTest(data.tests, "TIMEOUT")

BuildNeverRan(data) ==
    data.build # NoRun /\ data.build.exit = NoExit /\ ~data.build.timedOut

DocumentedStatus(data) ==
    IF data.error = "unexpected" THEN "ERROR"
    ELSE IF data.error = "infrastructure" \/ BuildNeverRan(data) THEN "INFRASTRUCTURE_FAILED"
    ELSE IF SomeStepTimedOut(data) THEN "TIMEOUT"
    ELSE IF data.build # NoRun /\ data.build.status # "PASSED" THEN "BUILD_FAILED"
    ELSE IF data.startup = "FAILED" THEN "STARTUP_FAILED"
    ELSE IF SomeTest(data.tests, "ERROR") THEN "ERROR"
    ELSE IF SomeTest(data.tests, "FAILED") THEN "FAILED"
    ELSE IF data.tests = <<>> THEN "ERROR"
    ELSE "PASSED"
=============================================================================
