----------------------------- MODULE RunFunction -----------------------------
(***************************************************************************)
(* One call of RunFunction: the runner (internal/container), the spark it  *)
(* forks (cmd/.../spark), the OCI runtime that spark forks, and the        *)
(* function's container.                                                   *)
(*                                                                         *)
(*   caller -- runner --request-->  spark --fork--> runtime -- function    *)
(*                    <--response--       <-----stdout, stderr-----        *)
(*                                                                         *)
(* The arrows are pipes of bounded size.  Runner and spark each read one   *)
(* pipe to its end, or to a limit, before they look at the next.  Two      *)
(* contexts end runs that take too long: the caller's kills spark, the     *)
(* request's timeout kills the runtime.                                    *)
(*                                                                         *)
(* Calls share only the caches, which CachingPuller and OverlayBundler     *)
(* model; the pull and the bundle are one step here.  What is written is   *)
(* counted, in units: pipes keep its order.                                *)
(***************************************************************************)
EXTENDS Naturals

CONSTANTS
    PipeSize,   \* what a pipe holds
    MaxStdio,   \* MaxStdioBytes, the limit of runner and spark alike
    Overhead,   \* what the protocol buffer around an output adds to it
    Request,    \* the size of a request
    Outs,       \* how much functions write on their stdout ...
    Errs,       \* ... and their stderr
    MayFail     \* whether system calls may fail

ASSUME SizeAssumption ==
    /\ PipeSize \in Nat /\ MaxStdio \in Nat /\ Overhead \in Nat
    /\ Request \in Nat /\ Outs \subseteq Nat /\ Errs \subseteq Nat
    /\ MaxStdio > 0
    /\ 0 < Overhead /\ Overhead <= PipeSize \* a few bytes, of 64 KiB
ASSUME MayFailAssumption == MayFail \in BOOLEAN

VARIABLES
    caller,    \* who has called: the gRPC server, or the run command
    runner,    \* where RunFunction is
    answer,    \* what it has returned
    cancelled, \* the caller has given up
    spark,     \* where spark is, or how it has ended
    expired,   \* the timeout of the request has passed
    failed,    \* spark will return an error once it has cleaned up
    bundle,    \* the bundle is there
    runtime,   \* the runtime process, or how it has ended
    function,  \* the container's process, or how it has ended
    outlives,  \* whether this container outlives a runtime that is killed
    left,      \* what is yet to be written into each pipe
    pipe,      \* what each pipe holds
    got,       \* what has been read from it
    size,      \* history: what its writer set out to write
    fault      \* history: what has failed of itself

runner_vars   == <<caller, runner, answer, cancelled>>
spark_vars    == <<spark, expired, failed, bundle>>
function_vars == <<runtime, function, outlives>>
pipe_vars     == <<left, pipe, got, size>>
vars == <<runner_vars, spark_vars, function_vars, pipe_vars, fault>>

Pipes == {"request", "response", "stdout", "stderr"}
Live  == {"read", "prepare", "start", "stdout", "stderr", "wait", "cleanup",
          "respond"}

TypeOK ==
    /\ caller \in {"grpc", "run"}
    /\ runner \in {"idle", "write", "stdout", "stderr", "wait", "done"}
    /\ answer \in {"none", "ok", "error"}
    /\ cancelled \in BOOLEAN
    /\ spark \in Live \cup {"none", "ok", "error", "killed"}
    /\ expired \in BOOLEAN /\ failed \in BOOLEAN /\ bundle \in BOOLEAN
    /\ runtime \in {"none", "running", "ok", "failed", "killed"}
    /\ function \in {"none", "running", "hung", "ok", "failed", "killed"}
    /\ outlives \in BOOLEAN
    /\ left \in [Pipes -> Nat] /\ got \in [Pipes -> Nat]
    /\ size \in [Pipes -> Nat]
    /\ pipe \in [Pipes -> 0 .. PipeSize]
    /\ fault \in SUBSET {"step", "cleanup"}

Nothing == [c \in Pipes |-> 0]

Init ==
    /\ caller = "grpc" /\ runner = "idle" /\ answer = "none"
    /\ cancelled = FALSE
    /\ spark = "none" /\ expired = FALSE /\ failed = FALSE /\ bundle = FALSE
    /\ runtime = "none" /\ function = "none" /\ outlives = FALSE
    /\ left = Nothing /\ pipe = Nothing /\ got = Nothing /\ size = Nothing
    /\ fault = {}

-----------------------------------------------------------------------------
(* Helpers.                                                                *)

Running == function \in {"running", "hung"}

\* A pipe is at its end once no process holds its other side.  spark's own
\* stdout is not passed on to the runtime; the runtime's is, to the container.
EndOf(c) ==
    /\ pipe[c] = 0
    /\ CASE c = "request"  -> runner # "write"
         [] c = "response" -> spark \notin Live
         [] OTHER          -> runtime # "running" /\ ~ Running

Write(c) ==
    /\ left[c] > 0 /\ pipe[c] < PipeSize
    /\ left' = [left EXCEPT ![c] = @ - 1]
    /\ pipe' = [pipe EXCEPT ![c] = @ + 1]
    /\ UNCHANGED <<got, size>>

Take(c) ==
    /\ pipe[c] > 0
    /\ pipe' = [pipe EXCEPT ![c] = @ - 1]
    /\ got' = [got EXCEPT ![c] = @ + 1]
    /\ UNCHANGED <<left, size>>

\* Mutants of Limit: spark has none, as is its flag's default; the runner has
\* none; one unit less is read.
SparkUnlimited(c)  == c = "response" /\ got[c] = MaxStdio
RunnerUnlimited(c) == c # "response" /\ got[c] = MaxStdio
LimitTooLow(c)     == got[c] + 1 = MaxStdio

\* io.LimitReader is at its end when the limit is read.
Limit(c) == got[c] = MaxStdio

\* io.ReadAll of a pipe of which at most MaxStdioBytes are read.
TakeUpToLimit(c) == ~ Limit(c) /\ Take(c)
ReadAll(c)       == Limit(c) \/ EndOf(c)

\* The size of a RunFunctionResponse with an output of n units.
Response(n) == IF n = 0 THEN 0 ELSE n + Overhead

Fails(what) == fault' = fault \cup {what}

-----------------------------------------------------------------------------
(* The runner.                                                             *)

Return(a) ==
    /\ runner' = "done" /\ answer' = a
    /\ UNCHANGED <<caller, cancelled>>

\* A call, of a function that writes this much: spark is started.
Start(who, o, e, long) ==
    /\ runner = "idle"
    /\ caller' = who /\ runner' = "write" /\ spark' = "read"
    /\ outlives' = long
    /\ size' = [c \in Pipes |-> CASE c = "request" -> Request
                                  [] c = "stdout"  -> o
                                  [] c = "stderr"  -> e
                                  [] OTHER         -> 0]
    /\ left' = size'
    /\ UNCHANGED <<answer, cancelled, expired, failed, bundle, runtime,
                   function, pipe, got, fault>>

\* The gRPC server calls with the caller's context ...
Serve(o, e, long) == Start("grpc", o, e, long)

\* ... the run command with one that never ends.
Run(o, e, long) == Start("run", o, e, long)

OnlyRunner == UNCHANGED <<spark_vars, function_vars, fault>>

\* The runner writes the request into spark's stdin ...
WriteRequest ==
    /\ runner = "write" /\ spark \in Live
    /\ Write("request")
    /\ UNCHANGED runner_vars /\ OnlyRunner

\* ... which fails with EPIPE if spark is gone ...
RequestBroken ==
    /\ runner = "write" /\ spark \notin Live /\ left["request"] > 0
    /\ Return("error")
    /\ UNCHANGED pipe_vars /\ OnlyRunner

\* ... and closes the pipe.
CloseStdin ==
    /\ runner = "write" /\ left["request"] = 0
    /\ runner' = "stdout"
    /\ UNCHANGED <<caller, answer, cancelled, pipe_vars>> /\ OnlyRunner

\* Mutant of ReadResponse: spark is waited for first.
WaitThenRead ==
    /\ runner = "stdout" /\ spark \notin Live
    /\ \/ TakeUpToLimit("response") /\ UNCHANGED runner
       \/ ReadAll("response") /\ runner' = "stderr" /\ UNCHANGED pipe_vars
    /\ UNCHANGED <<caller, answer, cancelled>> /\ OnlyRunner

ReadResponse ==
    /\ runner = "stdout"
    /\ \/ TakeUpToLimit("response") /\ UNCHANGED runner
       \/ ReadAll("response") /\ runner' = "stderr" /\ UNCHANGED pipe_vars
    /\ UNCHANGED <<caller, answer, cancelled>> /\ OnlyRunner

\* All spark writes on its own stderr is a message as it exits, and a pipe
\* holds more than that.
ReadMessage ==
    /\ runner = "stderr" /\ spark \notin Live
    /\ runner' = "wait"
    /\ UNCHANGED <<caller, answer, cancelled, pipe_vars>> /\ OnlyRunner

\* Mutant of Wait: a response that was cut short is an answer, too.
WaitForSpark ==
    /\ runner = "wait" /\ spark \notin Live
    /\ \/ spark = "ok" /\ Return("ok")
       \/ (spark # "ok" \/ cancelled) /\ Return("error")
    /\ UNCHANGED pipe_vars /\ OnlyRunner

\* cmd.Wait returns the context's error if that has ended and the watching
\* goroutine has seen it.  A response that was cut short does not unmarshal.
Wait ==
    /\ runner = "wait" /\ spark \notin Live
    /\ \/ /\ spark = "ok" /\ got["response"] = size["response"]
          /\ Return("ok")
       \/ /\ spark # "ok" \/ cancelled \/ got["response"] # size["response"]
          /\ Return("error")
    /\ UNCHANGED pipe_vars /\ OnlyRunner

\* The caller gives up, or its deadline has passed.
Cancel ==
    /\ caller = "grpc" /\ runner \notin {"idle", "done"} /\ ~ cancelled
    /\ cancelled' = TRUE
    /\ UNCHANGED <<caller, runner, answer, pipe_vars>> /\ OnlyRunner

Killed ==
    /\ spark \in Live /\ spark' = "killed"
    /\ UNCHANGED <<runner_vars, expired, failed, bundle, function_vars,
                   pipe_vars, fault>>

\* Mutants of KillSpark: it waits for the call to return; it is not called
\* for a context that ends only then.
KillSparkLate  == caller = "grpc" /\ runner = "done" /\ Killed
KillSparkEarly == cancelled /\ runner # "done" /\ Killed

\* exec.CommandContext kills spark, and nothing but spark, when the context
\* has ended, which the gRPC server's does at the latest when the call has
\* returned.
KillSpark == (cancelled \/ (caller = "grpc" /\ runner = "done")) /\ Killed

\* Calls are independent: the next one begins as the first did.
NextCall ==
    /\ runner = "done" /\ spark \notin Live
    /\ caller' = "grpc" /\ runner' = "idle" /\ answer' = "none"
    /\ cancelled' = FALSE
    /\ spark' = "none" /\ expired' = FALSE /\ failed' = FALSE
    /\ bundle' = FALSE
    /\ runtime' = "none" /\ function' = "none" /\ outlives' = FALSE
    /\ left' = Nothing /\ pipe' = Nothing /\ got' = Nothing
    /\ size' = Nothing /\ fault' = {}

\* The pipes or spark itself cannot be made.
NoSpark(who) ==
    /\ MayFail /\ runner = "idle"
    /\ caller' = who /\ runner' = "done" /\ answer' = "error"
    /\ Fails("step")
    /\ UNCHANGED <<cancelled, spark_vars, function_vars, pipe_vars>>

\* A write or a read fails; nobody waits for spark.
RunnerFails ==
    /\ MayFail /\ runner \in {"write", "stdout", "stderr"}
    /\ Return("error")
    /\ Fails("step")
    /\ UNCHANGED <<spark_vars, function_vars, pipe_vars>>

-----------------------------------------------------------------------------
(* spark.                                                                  *)

Goto(l)   == spark' = l /\ UNCHANGED <<expired, failed, bundle>>
OnlySpark == UNCHANGED <<runner_vars, function_vars, fault>>

ReadRequest ==
    /\ spark = "read"
    /\ \/ Take("request") /\ UNCHANGED spark_vars
       \/ EndOf("request") /\ Goto("prepare") /\ UNCHANGED pipe_vars
    /\ OnlySpark

\* The timeout counts from when the request has been read.
Expire ==
    /\ spark \in Live \ {"read"} /\ ~ expired
    /\ expired' = TRUE
    /\ UNCHANGED <<spark, failed, bundle, pipe_vars>> /\ OnlySpark

\* The stores are made, the image is pulled and bundled.
Prepare ==
    /\ spark = "prepare"
    /\ spark' = "start" /\ bundle' = TRUE
    /\ UNCHANGED <<expired, failed, pipe_vars>> /\ OnlySpark

\* Which fails for many reasons, one of them the timeout, as may reading the
\* request and parsing it.
PrepareFails ==
    /\ \/ spark = "prepare" /\ expired
       \/ spark \in {"read", "prepare"} /\ MayFail
    /\ spark' = "error"
    /\ IF expired THEN UNCHANGED fault ELSE Fails("step")
    /\ UNCHANGED <<expired, failed, bundle, runner_vars, function_vars,
                   pipe_vars>>

StartRuntime ==
    /\ spark = "start" /\ ~ expired
    /\ Goto("stdout")
    /\ runtime' = "running" /\ function' = "running"
    /\ UNCHANGED <<outlives, runner_vars, pipe_vars, fault>>

\* Mutant of StartFails: its error path does not clean up.
StartLeavesBundle ==
    /\ spark = "start" /\ (MayFail \/ expired)
    /\ spark' = "error" /\ failed' = TRUE
    /\ IF expired THEN UNCHANGED fault ELSE Fails("step")
    /\ UNCHANGED <<expired, bundle, runner_vars, function_vars, pipe_vars>>

\* The runtime's directory, its pipes or the runtime itself cannot be made,
\* or the timeout has passed before.
StartFails ==
    /\ spark = "start" /\ (MayFail \/ expired)
    /\ spark' = "cleanup" /\ failed' = TRUE
    /\ IF expired THEN UNCHANGED fault ELSE Fails("step")
    /\ UNCHANGED <<expired, bundle, runner_vars, function_vars, pipe_vars>>

ReadStdout ==
    /\ spark = "stdout"
    /\ \/ TakeUpToLimit("stdout") /\ UNCHANGED spark_vars
       \/ ReadAll("stdout") /\ Goto("stderr") /\ UNCHANGED pipe_vars
    /\ OnlySpark

ReadStderr ==
    /\ spark = "stderr"
    /\ \/ TakeUpToLimit("stderr") /\ UNCHANGED spark_vars
       \/ ReadAll("stderr") /\ Goto("wait") /\ UNCHANGED pipe_vars
    /\ OnlySpark

ReadFails ==
    /\ MayFail /\ spark \in {"stdout", "stderr"}
    /\ spark' = "cleanup" /\ failed' = TRUE
    /\ Fails("step")
    /\ UNCHANGED <<expired, bundle, runner_vars, function_vars, pipe_vars>>

\* The timeout kills the runtime.  The container is its child; whether it
\* ends with it is up to the runtime.
KillRuntime ==
    /\ expired /\ spark \in {"stdout", "stderr", "wait"}
    /\ runtime = "running"
    /\ runtime' = "killed"
    /\ function' = IF Running /\ ~ outlives THEN "killed" ELSE function
    /\ UNCHANGED <<outlives, runner_vars, spark_vars, pipe_vars, fault>>

\* Mutant of WaitRuntime: it does not wait.
NoWait ==
    /\ spark = "wait"
    /\ spark' = "cleanup" /\ failed' = (runtime # "ok")
    /\ UNCHANGED <<expired, bundle, pipe_vars>> /\ OnlySpark

\* cmd.Wait, again with the context's error if it has ended in time.
WaitRuntime ==
    /\ spark = "wait" /\ runtime # "running"
    /\ spark' = "cleanup"
    /\ \/ runtime = "ok" /\ failed' = FALSE
       \/ (runtime # "ok" \/ expired) /\ failed' = TRUE
    /\ UNCHANGED <<expired, bundle, pipe_vars>> /\ OnlySpark

\* Whatever went wrong before, the bundle is cleaned up; then the response
\* is marshalled.
Cleanup ==
    /\ spark = "cleanup"
    /\ bundle' = FALSE
    /\ IF failed
       THEN spark' = "error" /\ UNCHANGED pipe_vars
       ELSE /\ spark' = "respond"
            /\ size' = [size EXCEPT !["response"] = Response(got["stdout"])]
            /\ left' = [left EXCEPT !["response"] = Response(got["stdout"])]
            /\ UNCHANGED <<pipe, got>>
    /\ UNCHANGED <<expired, failed>> /\ OnlySpark

CleanupFails ==
    /\ MayFail /\ spark = "cleanup"
    /\ Goto("error")
    /\ Fails("cleanup")
    /\ UNCHANGED <<runner_vars, function_vars, pipe_vars>>

Respond ==
    /\ spark = "respond"
    /\ \/ Write("response") /\ UNCHANGED spark_vars
       \/ left["response"] = 0 /\ Goto("ok") /\ UNCHANGED pipe_vars
    /\ OnlySpark

\* A run command that has returned has exited; writing to it is fatal.
ResponseBroken ==
    /\ spark = "respond" /\ left["response"] > 0
    /\ caller = "run" /\ runner = "done"
    /\ Goto("killed")
    /\ UNCHANGED pipe_vars /\ OnlySpark

-----------------------------------------------------------------------------
(* The container and its runtime.                                          *)

OnlyFunction == UNCHANGED <<runtime, outlives, runner_vars, spark_vars, fault>>

\* The function writes on its two outputs in any order ...
WriteOutput(c) ==
    /\ function = "running" /\ spark \in Live
    /\ Write(c)
    /\ UNCHANGED function /\ OnlyFunction

\* ... which is fatal once spark is gone.
OutputBroken ==
    /\ function = "running" /\ spark \notin Live
    /\ left["stdout"] + left["stderr"] > 0
    /\ function' = "failed"
    /\ UNCHANGED pipe_vars /\ OnlyFunction

Succeed ==
    /\ function = "running" /\ left["stdout"] = 0 /\ left["stderr"] = 0
    /\ function' = "ok"
    /\ UNCHANGED pipe_vars /\ OnlyFunction

\* It exits with an error, or computes for ever.
Fail ==
    /\ function = "running"
    /\ function' \in {"failed", "hung"}
    /\ UNCHANGED pipe_vars /\ OnlyFunction

\* The runtime exits with the container's exit code.
RuntimeExits ==
    /\ runtime = "running" /\ ~ Running
    /\ runtime' = IF function = "ok" THEN "ok" ELSE "failed"
    /\ UNCHANGED <<function, outlives, runner_vars, spark_vars, pipe_vars,
                   fault>>

-----------------------------------------------------------------------------
RunnerStep ==
    \/ WriteRequest \/ RequestBroken \/ CloseStdin \/ ReadResponse
    \/ ReadMessage \/ Wait

SparkStep ==
    \/ ReadRequest \/ Prepare \/ PrepareFails \/ StartRuntime \/ StartFails
    \/ ReadStdout \/ ReadStderr \/ WaitRuntime \/ Cleanup \/ Respond
    \/ ResponseBroken

FunctionStep ==
    \/ WriteOutput("stdout") \/ WriteOutput("stderr") \/ OutputBroken
    \/ Succeed

Next ==
    \/ \E o \in Outs, e \in Errs, long \in BOOLEAN :
          Serve(o, e, long) \/ Run(o, e, long)
    \/ \E who \in {"grpc", "run"} : NoSpark(who)
    \/ NextCall
    \/ RunnerStep \/ SparkStep \/ FunctionStep \/ RuntimeExits
    \/ KillSpark \/ KillRuntime
    \/ Cancel \/ Expire \/ Fail
    \/ RunnerFails \/ ReadFails \/ CleanupFails

Spec == Init /\ [][Next]_vars

\* The kernel runs every process and delivers its signals; a function that
\* has not hung goes on.  Nothing makes a caller give up, a timeout pass or a
\* function fail.
Fairness ==
    /\ WF_vars(RunnerStep) /\ WF_vars(SparkStep) /\ WF_vars(FunctionStep)
    /\ WF_vars(RuntimeExits) /\ WF_vars(KillSpark) /\ WF_vars(KillRuntime)

FairSpec == Spec /\ Fairness

-----------------------------------------------------------------------------
(* What should be true of it.                                              *)

\* An answer holds all the function has written, and that of a function that
\* has succeeded: whatever the limits cut off, no output is silently cut
\* short, although spark takes what it has read up to its limit for all
\* there is (spark.go:187), for then the runner's limit cuts the protocol
\* buffer, which no longer unmarshals.
AnswerWhole ==
    answer = "ok" => function = "ok" /\ got["stdout"] = size["stdout"]

\* A function that succeeds is answered, if its response is within the limit
\* and nobody gives up, whatever the order in which it writes and exits:
\* no process takes another's end for a failure.
SuccessAnswered ==
    answer = "error" =>
        \/ cancelled \/ expired \/ fault # {} \/ function = "failed"
        \/ Response(size["stdout"]) > MaxStdio

\* The root filesystem is not removed while the container runs on it, unless
\* the runtime was killed and the container lives on, or a pipe broke.
RootfsInUse ==
    Running => bundle \/ (outlives /\ runtime = "killed") \/ "step" \in fault

\* A spark that returns, with whichever error, has removed the bundle, unless
\* the removal itself failed.
BundleRemoved ==
    spark \in {"ok", "error"} => ~ bundle \/ "cleanup" \in fault

\* Whoever gives up gets an answer, even if the container hangs and outlives
\* everyone: spark's death ends the pipes the runner reads.
CancelReturns == cancelled ~> runner = "done"

\* Once the timeout has passed the call returns, also when the function
\* hangs or is blocked on a pipe nobody reads, if the container ends with
\* its runtime.
TimeoutReturns == expired /\ ~ outlives ~> runner = "done"

\* A function whose outputs fit needs no timeout: what it writes on stderr
\* while spark reads stdout must fit in the pipe, and what it writes on
\* stdout past the limit.  Nobody waits for anybody else then.
Modest ==
    /\ size["stderr"] <= PipeSize
    /\ size["stdout"] <= MaxStdio + PipeSize

ModestReturns ==
    runner = "write" /\ Modest ~> runner = "done" \/ function = "hung"

\* A call over gRPC that has returned, however, leaves no spark behind.
SparkEnds == runner = "done" /\ caller = "grpc" ~> spark \notin Live

\* What a caller may count on, without the processes and the pipes between
\* them: a function is not run twice, nor outside its root filesystem, and an
\* answer holds all it has written, whoever reads or kills whom first.
Phase   == IF runner \in {"idle", "done"} THEN runner ELSE "open"
Ran     == IF function = "hung" THEN "running" ELSE function
Given   == IF answer = "ok" THEN got["response"] ELSE 0
Trouble == cancelled \/ expired \/ fault # {}
Call == INSTANCE FunctionCall WITH
    phase <- Phase, output <- size["stdout"], rootfs <- bundle,
    function <- Ran, given <- Given, trouble <- Trouble
CallSpec == Call!Spec

-----------------------------------------------------------------------------
(* Why they hold: the inductive invariant of RunFunctionProofs.            *)

\* Nothing is left of the call before.
Fresh ==
    runner = "idle" =>
        /\ spark = "none" /\ runtime = "none" /\ function = "none"
        /\ ~ cancelled /\ ~ expired /\ ~ failed /\ ~ bundle
        /\ pipe = Nothing /\ got = Nothing /\ fault = {}

\* What was written is in the pipe or has been read.
Conserved ==
    /\ \A c \in Pipes : left[c] + pipe[c] + got[c] = size[c]
    /\ \A c \in Pipes \ {"request"} : got[c] <= MaxStdio

\* How the processes' ends are related.
Ends ==
    /\ spark \in {"none", "read", "prepare", "start"} => runtime = "none"
    /\ spark \in {"stdout", "stderr", "wait"} => runtime # "none"
    /\ runtime = "none" => function = "none"
    /\ runtime # "none" => function # "none"
    /\ runtime = "ok" => function = "ok"
    /\ runtime = "failed" => function = "failed"
    /\ runtime = "killed" => expired /\ (Running => outlives)
    /\ function = "ok" => left["stdout"] = 0
    /\ function = "killed" => runtime = "killed"
    /\ spark = "killed" => cancelled \/ runner = "done"
    /\ spark \in (Live \ {"read"}) \cup {"ok"} => runner # "write"
    /\ spark = "none" => runner \in {"idle", "done"}
    /\ spark # "none" => runner # "idle"

Beyond == {"stderr", "wait", "cleanup", "respond", "ok"}

\* When spark has stopped reading stdout it has all, or all it may have.
StdoutRead ==
    (spark = "cleanup" => ~ failed) /\ spark \in Beyond =>
        got["stdout"] = MaxStdio \/ EndOf("stdout")

\* The response is that of a function that has succeeded.
Responded ==
    /\ spark = "cleanup" /\ ~ failed => runtime = "ok"
    /\ spark \in {"respond", "ok"} =>
          /\ runtime = "ok"
          /\ size["response"] = Response(got["stdout"])
    /\ spark = "ok" => left["response"] = 0
    /\ spark \in Live \ {"respond"} => size["response"] = 0
    /\ runner \in {"stderr", "wait"} =>
          got["response"] = MaxStdio \/ EndOf("response")
    /\ runner = "wait" => spark \notin Live
    /\ runner # "done" => answer = "none"
    /\ answer = "ok" => spark = "ok" /\ got["response"] = size["response"]

\* An error has a reason.
Excused == cancelled \/ expired \/ fault # {} \/ function = "failed"
Reasons ==
    /\ spark = "error" \/ (spark \in Live /\ failed) => Excused
    /\ "step" \notin fault /\ spark = "cleanup" => runtime # "running"

\* Where the bundle is.
Bundled ==
    /\ spark \in {"none", "read", "prepare", "respond"} => ~ bundle
    /\ spark \in {"start", "stdout", "stderr", "wait", "cleanup"} => bundle

Inv ==
    /\ TypeOK
    /\ Fresh
    /\ Conserved
    /\ Ends
    /\ StdoutRead
    /\ Responded
    /\ Reasons
    /\ Bundled
    /\ SuccessAnswered
    /\ RootfsInUse
    /\ BundleRemoved
=============================================================================
