-------------------------- MODULE RunFunctionProofs --------------------------
(***************************************************************************)
(* What is proved of RunFunction, for pipes, limits and outputs of any     *)
(* size.                                                                   *)
(***************************************************************************)
EXTENDS RunFunction, TLAPS

USE DEF Pipes, Live, Running, runner_vars, spark_vars, function_vars, pipe_vars

\* The parts actions are made of.
USE DEF Return, OnlyRunner, OnlySpark, OnlyFunction, Goto, Killed, Fails

-----------------------------------------------------------------------------
(* Pipes.                                                                  *)

PipesTyped ==
    /\ left \in [Pipes -> Nat] /\ got \in [Pipes -> Nat]
    /\ size \in [Pipes -> Nat]
    /\ pipe \in [Pipes -> 0 .. PipeSize]

\* What a step may do to a pipe.
Moves(c) == Write(c) \/ TakeUpToLimit(c) \/ (c = "request" /\ Take(c))

LEMMA MoveTyped ==
    ASSUME PipesTyped, NEW c \in Pipes, Moves(c)
    PROVE  PipesTyped'
  <1> USE SizeAssumption DEF PipesTyped
  <1>1. CASE Write(c)
    <2>1. left[c] - 1 \in Nat /\ pipe[c] + 1 \in 0 .. PipeSize
      BY <1>1 DEF Write
    <2>2. left' = [left EXCEPT ![c] = left[c] - 1]
          /\ pipe' = [pipe EXCEPT ![c] = pipe[c] + 1]
          /\ UNCHANGED <<got, size>>
      BY <1>1 DEF Write
    <2> HIDE DEF Pipes
    <2> QED
      BY <2>1, <2>2
  <1>2. CASE Take(c)
    <2>1. pipe[c] - 1 \in 0 .. PipeSize /\ got[c] + 1 \in Nat
      BY <1>2 DEF Take
    <2>2. pipe' = [pipe EXCEPT ![c] = pipe[c] - 1]
          /\ got' = [got EXCEPT ![c] = got[c] + 1]
          /\ UNCHANGED <<left, size>>
      BY <1>2 DEF Take
    <2> HIDE DEF Pipes
    <2> QED
      BY <2>1, <2>2
  <1> QED
    BY <1>1, <1>2 DEF Moves, TakeUpToLimit

\* A move shifts one unit of one pipe and leaves the others alone.
LEMMA MoveShifts ==
    ASSUME PipesTyped, NEW c \in Pipes, Moves(c)
    PROVE  /\ left'[c] + pipe'[c] + got'[c] = left[c] + pipe[c] + got[c]
           /\ left'[c] <= left[c] /\ got[c] <= got'[c]
           /\ c # "request" /\ got[c] <= MaxStdio => got'[c] <= MaxStdio
           /\ got'[c] # got[c] => ~ (pipe[c] = 0) /\ left' = left
           /\ \A d \in Pipes \ {c} :
                 left'[d] = left[d] /\ pipe'[d] = pipe[d] /\ got'[d] = got[d]
           /\ size' = size
  <1> USE SizeAssumption DEF PipesTyped
  <1> HIDE DEF Pipes
  <1>1. CASE Write(c)
    BY <1>1 DEF Write
  <1>2. CASE TakeUpToLimit(c)
    BY <1>2 DEF TakeUpToLimit, Take, Limit
  <1>3. CASE c = "request" /\ Take(c)
    BY <1>3 DEF Take
  <1> QED
    BY <1>1, <1>2, <1>3 DEF Moves

LEMMA MoveConserves ==
  ASSUME PipesTyped, Conserved, NEW c \in Pipes, Moves(c)
  PROVE  Conserved'
  <1> SUFFICES ASSUME NEW d \in Pipes
               PROVE  /\ left'[d] + pipe'[d] + got'[d] = size'[d]
                      /\ d # "request" => got'[d] <= MaxStdio
    BY DEF Conserved
  <1> HIDE DEF Pipes
  <1>1. CASE d = c
    BY <1>1, MoveShifts DEF Conserved
  <1>2. CASE d # c
    BY <1>2, MoveShifts DEF Conserved
  <1> QED
    BY <1>1, <1>2

LEMMA Move ==
  ASSUME Inv, NEW c \in Pipes, Moves(c)
  PROVE  /\ PipesTyped' /\ Conserved'
         /\ left'[c] <= left[c] /\ got[c] <= got'[c]
         /\ got'[c] # got[c] => ~ (pipe[c] = 0) /\ left' = left
         /\ \A d \in Pipes \ {c} :
               left'[d] = left[d] /\ pipe'[d] = pipe[d] /\ got'[d] = got[d]
         /\ size' = size
  <1>1. PipesTyped
    BY DEF Inv, TypeOK, PipesTyped
  <1> HIDE DEF Pipes
  <1>2. PipesTyped'
    BY <1>1, MoveTyped
  <1>3. Conserved'
    BY <1>1, MoveConserves DEF Inv
  <1> QED
    BY <1>1, <1>2, <1>3, MoveShifts

-----------------------------------------------------------------------------
(* Steps that disturb several parts of the invariant at once, one lemma    *)
(* for each.                                                               *)

LEMMA StartKeeps ==
  ASSUME Inv, NEW who \in {"grpc", "run"}, NEW o \in Outs, NEW e \in Errs,
         NEW long \in BOOLEAN, Start(who, o, e, long)
  PROVE  Inv'
  <1> USE SizeAssumption DEF Inv, Start
  <1>1. TypeOK'
    BY DEF TypeOK
  <1>2. Conserved'
    <2>1. pipe = Nothing /\ got = Nothing
      BY DEF Fresh
    <2>2. size' \in [Pipes -> Nat] /\ left' = size' /\ pipe' = pipe /\ got' = got
      BY DEF TypeOK
    <2>3. SUFFICES ASSUME NEW c \in Pipes
                   PROVE  /\ left'[c] + pipe'[c] + got'[c] = size'[c]
                          /\ got'[c] <= MaxStdio
      BY DEF Conserved
    <2> HIDE DEF Pipes, Start
    <2> QED
      BY <2>1, <2>2 DEF Nothing
  <1>3. (Fresh /\ Ends /\ StdoutRead /\ Bundled)'
    BY DEF Fresh, Ends, StdoutRead, Beyond, Bundled
  <1>4. Responded'
    BY DEF Fresh, Responded
  <1>5. Reasons' /\ SuccessAnswered' /\ RootfsInUse' /\ BundleRemoved'
    BY DEF Fresh, Responded, Reasons, SuccessAnswered, RootfsInUse, BundleRemoved
  <1> QED
    BY <1>1, <1>2, <1>3, <1>4, <1>5

LEMMA NextCallKeeps ==
  ASSUME Inv, NextCall
  PROVE  Inv'
  <1>1. TypeOK'
    <2>1. Nothing \in [Pipes -> Nat] /\ Nothing \in [Pipes -> 0 .. PipeSize]
      BY SizeAssumption DEF Nothing
    <2> HIDE DEF Pipes
    <2> QED
      BY <2>1 DEF NextCall, TypeOK
  <1>2. Conserved'
    <2> SUFFICES ASSUME NEW c \in Pipes
                 PROVE  /\ left'[c] + pipe'[c] + got'[c] = size'[c]
                        /\ got'[c] <= MaxStdio
      BY DEF Conserved
    <2> HIDE DEF Pipes
    <2> QED
      BY SizeAssumption DEF NextCall, Nothing
  <1>3. (Fresh /\ Ends /\ StdoutRead /\ Responded /\ Bundled)'
    BY DEF NextCall, Nothing, Fresh, Ends, StdoutRead, Beyond, Responded, Bundled
  <1>4. (Reasons /\ SuccessAnswered /\ RootfsInUse /\ BundleRemoved)'
    BY DEF NextCall, Reasons, SuccessAnswered, RootfsInUse, BundleRemoved
  <1> QED
    BY <1>1, <1>2, <1>3, <1>4 DEF Inv

\* An error that spark did not return has its reason in the limit: if all of
\* the response had been read it would have been unmarshalled.
LEMMA WaitKeeps ==
  ASSUME Inv, Wait
  PROVE  Inv'
  <1> USE DEF Inv, Wait
  <1>1. (TypeOK /\ Fresh /\ Conserved /\ Ends /\ StdoutRead /\ Bundled)'
    BY DEF TypeOK, Fresh, Conserved, Ends, StdoutRead, Beyond, EndOf, Bundled
  <1>2. Responded'
    BY DEF Responded, EndOf
  <1>3. (Reasons /\ RootfsInUse /\ BundleRemoved)'
    BY DEF Reasons, Excused, RootfsInUse, BundleRemoved
  <1>4. SuccessAnswered'
    <2> SUFFICES ASSUME answer' = "error", ~ Excused
                 PROVE  Response(size["stdout"]) > MaxStdio
      BY DEF SuccessAnswered, Excused
    <2>1. spark = "ok"
      <3>1. spark \notin {"none", "error"}
        BY DEF Ends, Reasons, Excused
      <3>2. spark # "killed"
        BY DEF Ends, Excused
      <3> QED
        BY <3>1, <3>2 DEF TypeOK
    <2>2. got["response"] = MaxStdio /\ got["response"] # size["response"]
      <3>1. got["response"] # size["response"]
        BY <2>1 DEF Excused
      <3>2. left["response"] = 0
        BY <2>1 DEF Responded
      <3>3. left["response"] + pipe["response"] + got["response"] = size["response"]
        BY DEF Conserved
      <3>4. got["response"] = MaxStdio \/ pipe["response"] = 0
        BY DEF Responded, EndOf
      <3> QED
        BY <3>1, <3>2, <3>3, <3>4 DEF TypeOK
    <2>3. size["response"] > MaxStdio
      BY <2>1, <2>2, SizeAssumption DEF Responded, Conserved, TypeOK
    <2>4. size["response"] = Response(got["stdout"])
      BY <2>1 DEF Responded
    <2>5. got["stdout"] <= size["stdout"]
      BY DEF Conserved, TypeOK
    <2>6. got["stdout"] \in Nat /\ size["stdout"] \in Nat
      BY DEF TypeOK
    <2> QED
      BY <2>3, <2>4, <2>5, <2>6, SizeAssumption DEF Response
  <1> QED
    BY <1>1, <1>2, <1>3, <1>4

LEMMA ReadResponseKeeps ==
  ASSUME Inv, ReadResponse
  PROVE  Inv'
  <1>1. CASE TakeUpToLimit("response") /\ UNCHANGED runner
    <2> Moves("response")
      BY <1>1 DEF Moves
    <2>1. TypeOK' /\ Conserved'
      BY <1>1, Move DEF Inv, TypeOK, PipesTyped, ReadResponse
    <2>2. (Fresh /\ Ends /\ StdoutRead /\ Bundled)'
      BY <1>1, Move DEF Inv, Fresh, Ends, StdoutRead, Beyond, EndOf, Bundled,
                        ReadResponse, TakeUpToLimit, Take
    <2>3. Responded'
      <3>1. UNCHANGED <<left, size, got["stdout"]>>
        BY <1>1, Move DEF TakeUpToLimit, Take
      <3>2. runner = "stdout" /\ runner' = "stdout" /\ UNCHANGED <<answer, spark, failed, runtime>>
        BY <1>1 DEF ReadResponse
      <3>3. answer = "none"
        BY <3>2 DEF Inv, Responded
      <3> QED
        BY <3>1, <3>2, <3>3 DEF Inv, Responded
    <2>4. (Reasons /\ SuccessAnswered /\ RootfsInUse /\ BundleRemoved)'
      BY <1>1, Move DEF Inv, Reasons, Excused, SuccessAnswered, RootfsInUse, BundleRemoved, ReadResponse
    <2> QED
      BY <2>1, <2>2, <2>3, <2>4 DEF Inv
  <1>2. CASE ReadAll("response") /\ runner' = "stderr" /\ UNCHANGED pipe_vars
    <2>1. (TypeOK /\ Fresh /\ Conserved /\ Ends /\ StdoutRead /\ Bundled)'
      BY <1>2 DEF Inv, TypeOK, Fresh, Conserved, Ends, StdoutRead, Beyond, EndOf,
                  Bundled, ReadResponse
    <2>2. Responded'
      BY <1>2 DEF Inv, Responded, EndOf, ReadAll, Limit, ReadResponse
    <2>3. (Reasons /\ SuccessAnswered /\ RootfsInUse /\ BundleRemoved)'
      BY <1>2 DEF Inv, Reasons, Excused, SuccessAnswered, RootfsInUse,
                  BundleRemoved, ReadResponse
    <2> QED
      BY <2>1, <2>2, <2>3 DEF Inv
  <1> QED
    BY <1>1, <1>2 DEF ReadResponse

LEMMA ReadStdoutKeeps ==
  ASSUME Inv, ReadStdout
  PROVE  Inv'
  <1>1. CASE TakeUpToLimit("stdout") /\ UNCHANGED spark_vars
    <2> Moves("stdout")
      BY <1>1 DEF Moves
    <2>1. TypeOK' /\ Conserved'
      BY <1>1, Move DEF Inv, TypeOK, PipesTyped, ReadStdout
    <2>2. (Fresh /\ StdoutRead /\ Bundled)'
      BY <1>1 DEF Inv, Fresh, StdoutRead, Beyond, Bundled, ReadStdout, Ends
    <2>3. Ends'
      <3>1. left' = left
        BY <1>1 DEF TakeUpToLimit, Take
      <3> QED
        BY <1>1, <3>1 DEF Inv, Ends, ReadStdout
    <2>4. Responded'
      BY <1>1, Move DEF Inv, Responded, EndOf, ReadStdout, TakeUpToLimit, Take
    <2>5. (Reasons /\ SuccessAnswered /\ RootfsInUse /\ BundleRemoved)'
      BY <1>1, Move DEF Inv, Reasons, Excused, SuccessAnswered, RootfsInUse,
                        BundleRemoved, ReadStdout
    <2> QED
      BY <2>1, <2>2, <2>3, <2>4, <2>5 DEF Inv
  <1>2. CASE ReadAll("stdout") /\ Goto("stderr") /\ UNCHANGED pipe_vars
    <2>1. (TypeOK /\ Fresh /\ Conserved /\ Ends /\ StdoutRead /\ Responded)'
      BY <1>2 DEF Inv, TypeOK, Fresh, Conserved, Ends, StdoutRead, Beyond, EndOf,
                  Responded, ReadAll, Limit, ReadStdout
    <2>2. (Reasons /\ Bundled /\ SuccessAnswered /\ RootfsInUse /\ BundleRemoved)'
      BY <1>2 DEF Inv, Reasons, Excused, Bundled, SuccessAnswered, RootfsInUse,
                  BundleRemoved, ReadStdout
    <2> QED
      BY <2>1, <2>2 DEF Inv
  <1> QED
    BY <1>1, <1>2 DEF ReadStdout

\* An error has a reason: a runtime that is not "ok" has failed with its
\* function, or was killed by the timeout.
LEMMA WaitRuntimeKeeps ==
  ASSUME Inv, WaitRuntime
  PROVE  Inv'
  <1> USE DEF Inv, WaitRuntime
  <1>1. TypeOK'
    <2>1. failed' \in BOOLEAN /\ spark' = "cleanup"
      OBVIOUS
    <2>2. UNCHANGED <<runner_vars, expired, bundle, function_vars, pipe_vars, fault>>
      OBVIOUS
    <2> HIDE DEF Pipes, WaitRuntime
    <2> QED
      BY <2>1, <2>2 DEF TypeOK
  <1>2. (Fresh /\ Conserved /\ Ends /\ Bundled /\ StdoutRead)'
    BY DEF Fresh, Conserved, Ends, Bundled, StdoutRead, Beyond, EndOf
  <1>3. Responded'
    BY DEF Responded, EndOf
  <1>4. Reasons'
    <2>1. runtime \in {"ok", "failed", "killed"}
      BY DEF TypeOK, Ends
    <2>2. failed' => expired \/ function = "failed"
      BY <2>1 DEF Ends
    <2> QED
      BY <2>2 DEF Reasons, Excused
  <1>5. (SuccessAnswered /\ RootfsInUse /\ BundleRemoved)'
    BY DEF SuccessAnswered, RootfsInUse, BundleRemoved
  <1> QED
    BY <1>1, <1>2, <1>3, <1>4, <1>5

\* The response is made of what was read; and the runtime has ended, so that
\* the bundle is not in use, or a read has failed.
LEMMA CleanupKeeps ==
  ASSUME Inv, Cleanup
  PROVE  Inv'
  <1> USE SizeAssumption
  <1>1. UNCHANGED pipe_vars \/
        (/\ UNCHANGED <<pipe, got>>
         /\ \E n \in Nat : /\ n = Response(got["stdout"])
                           /\ size' = [size EXCEPT !["response"] = n]
                           /\ left' = [left EXCEPT !["response"] = n])
    BY DEF Cleanup, Inv, TypeOK, Response
  <1>2. left["response"] = 0 /\ pipe["response"] = 0 /\ got["response"] = 0
    BY DEF Cleanup, Inv, TypeOK, Responded, Conserved
  <1>3. TypeOK'
    <2>1. PipesTyped'
      BY <1>1 DEF Inv, TypeOK, PipesTyped
    <2>2. bundle' \in BOOLEAN /\ spark' \in Live \cup {"error"}
      BY DEF Cleanup
    <2>3. UNCHANGED <<runner_vars, expired, failed, function_vars, fault>>
      BY DEF Cleanup
    <2> HIDE DEF Pipes, Live
    <2> QED
      BY <2>1, <2>2, <2>3 DEF Inv, TypeOK, PipesTyped
  <1>4. Conserved'
    <2>1. CASE UNCHANGED pipe_vars
      BY <2>1 DEF Inv, Conserved
    <2>2. CASE ~ UNCHANGED pipe_vars
      <3> SUFFICES ASSUME NEW c \in Pipes
                   PROVE  /\ left'[c] + pipe'[c] + got'[c] = size'[c]
                          /\ c # "request" => got'[c] <= MaxStdio
        BY DEF Conserved
      <3>1. "response" \in Pipes
        OBVIOUS
      <3>2. left \in [Pipes -> Nat] /\ size \in [Pipes -> Nat]
            /\ left[c] + pipe[c] + got[c] = size[c]
            /\ (c # "request" => got[c] <= MaxStdio)
        BY DEF Inv, Conserved, TypeOK
      <3> HIDE DEF Pipes
      <3> QED
        BY <1>1, <1>2, <2>2, <3>1, <3>2
    <2> QED
      BY <2>1, <2>2
  <1>5. (Fresh /\ Ends /\ StdoutRead /\ Bundled)'
    BY <1>1 DEF Cleanup, Inv, TypeOK, Fresh, Ends, StdoutRead, Beyond, EndOf, Bundled
  <1>6. Responded'
    BY <1>1, <1>2 DEF Cleanup, Inv, TypeOK, Responded, EndOf
  <1>7. (Reasons /\ BundleRemoved)'
    BY DEF Cleanup, Inv, Reasons, Excused, BundleRemoved
  <1>8. SuccessAnswered'
    BY <1>1 DEF Cleanup, Inv, TypeOK, SuccessAnswered
  <1>9. RootfsInUse'
    <2> SUFFICES ASSUME Running, "step" \notin fault
                 PROVE  outlives /\ runtime = "killed"
      BY DEF Cleanup, RootfsInUse
    <2>1. runtime # "running"
      BY DEF Cleanup, Inv, Reasons
    <2>2. runtime \notin {"none", "ok", "failed"}
      BY DEF Inv, Ends
    <2>3. runtime = "killed"
      BY <2>1, <2>2 DEF Inv, TypeOK
    <2> QED
      BY <2>3 DEF Inv, Ends
  <1> QED
    BY <1>3, <1>4, <1>5, <1>6, <1>7, <1>8, <1>9 DEF Inv

LEMMA RespondKeeps ==
  ASSUME Inv, Respond
  PROVE  Inv'
  <1>1. CASE Write("response") /\ UNCHANGED spark_vars
    <2> Moves("response")
      BY <1>1 DEF Moves
    <2>1. TypeOK' /\ Conserved'
      BY <1>1, Move DEF Inv, TypeOK, PipesTyped, Respond
    <2>2. (Fresh /\ Ends /\ StdoutRead /\ Bundled)'
      BY <1>1, Move DEF Inv, Fresh, Ends, StdoutRead, Beyond, EndOf, Bundled,
                        Respond, Write
    <2>3. Responded'
      <3>1. UNCHANGED <<got, size>> /\ spark = "respond"
            /\ UNCHANGED <<spark, runner, answer, failed, runtime>>
        BY <1>1 DEF Respond, Write
      <3>2. runner \in {"stderr", "wait"} => got["response"] = MaxStdio
        BY <3>1 DEF Inv, Responded, EndOf
      <3> QED
        BY <3>1, <3>2 DEF Inv, Responded
    <2>4. (Reasons /\ SuccessAnswered /\ RootfsInUse /\ BundleRemoved)'
      BY <1>1, Move DEF Inv, Reasons, Excused, SuccessAnswered, RootfsInUse,
                        BundleRemoved, Respond
    <2> QED
      BY <2>1, <2>2, <2>3, <2>4 DEF Inv
  <1>2. CASE left["response"] = 0 /\ Goto("ok") /\ UNCHANGED pipe_vars
    <2>1. (TypeOK /\ Fresh /\ Conserved /\ Ends /\ StdoutRead /\ Responded)'
      BY <1>2 DEF Inv, TypeOK, Fresh, Conserved, Ends, StdoutRead, Beyond, EndOf,
                  Responded, Respond
    <2>2. (Reasons /\ Bundled /\ SuccessAnswered /\ RootfsInUse /\ BundleRemoved)'
      BY <1>2 DEF Inv, Reasons, Excused, Bundled, SuccessAnswered, RootfsInUse,
                  BundleRemoved, Respond
    <2> QED
      BY <2>1, <2>2 DEF Inv
  <1> QED
    BY <1>1, <1>2 DEF Respond

\* Nobody has taken a pipe for ended to which the function still writes.
LEMMA WriteStdoutKeeps ==
  ASSUME Inv, WriteOutput("stdout")
  PROVE  Inv'
  <1> Moves("stdout")
    BY DEF WriteOutput, Moves
  <1>1. TypeOK' /\ Conserved'
    BY Move DEF Inv, TypeOK, PipesTyped, WriteOutput
  <1>2. (Fresh /\ Ends /\ Bundled)'
    BY Move DEF Inv, Fresh, Ends, Bundled, WriteOutput, Write
  <1>3. StdoutRead'
    <2>1. UNCHANGED <<got, spark, failed>> /\ function = "running"
      BY DEF WriteOutput, Write
    <2> QED
      BY <2>1 DEF Inv, StdoutRead, EndOf
  <1>4. Responded'
    <2>1. UNCHANGED <<got, size, left["response"], pipe["response"], spark,
                      failed, runtime, runner, answer>>
      BY Move DEF WriteOutput, Write
    <2> QED
      BY <2>1 DEF Inv, Responded, EndOf
  <1>5. (Reasons /\ SuccessAnswered /\ RootfsInUse /\ BundleRemoved)'
    BY Move DEF Inv, Reasons, Excused, SuccessAnswered, RootfsInUse,
                BundleRemoved, WriteOutput
  <1> QED
    BY <1>1, <1>2, <1>3, <1>4, <1>5 DEF Inv

-----------------------------------------------------------------------------
(* The other steps.                                                        *)

LEMMA InvInit == Init => Inv
  <1> SUFFICES ASSUME Init PROVE Inv
    OBVIOUS
  <1> USE SizeAssumption DEF Init
  <1>1. TypeOK
    <2>1. Nothing \in [Pipes -> Nat] /\ Nothing \in [Pipes -> 0 .. PipeSize]
      BY DEF Nothing
    <2> HIDE DEF Pipes
    <2> QED
      BY <2>1 DEF TypeOK
  <1>2. Fresh /\ Conserved /\ Ends /\ StdoutRead /\ Responded
    BY DEF Nothing, Fresh, Conserved, Ends, StdoutRead, Beyond, Responded
  <1>3. Reasons /\ Bundled /\ SuccessAnswered /\ RootfsInUse /\ BundleRemoved
    BY DEF Reasons, Bundled, SuccessAnswered, RootfsInUse, BundleRemoved
  <1> QED
    BY <1>1, <1>2, <1>3 DEF Inv

LEMMA RunnerKeeps ==
  ASSUME Inv, RunnerStep
  PROVE  Inv'
  <1> USE DEF Inv, TypeOK, Fresh, Conserved, Ends, StdoutRead, Beyond, EndOf,
              Responded, Reasons, Excused, Bundled, SuccessAnswered,
              RootfsInUse, BundleRemoved
  <1>1. CASE WriteRequest
    <2> Moves("request")
      BY <1>1 DEF WriteRequest, Moves
    <2> QED
      BY <1>1, Move DEF PipesTyped, WriteRequest
  <1>2. CASE RequestBroken
    BY <1>2 DEF RequestBroken
  <1>3. CASE CloseStdin
    BY <1>3 DEF CloseStdin
  <1>4. CASE ReadMessage
    BY <1>4 DEF ReadMessage
  <1> HIDE DEF Inv
  <1> QED
    BY <1>1, <1>2, <1>3, <1>4, ReadResponseKeeps, WaitKeeps DEF RunnerStep

LEMMA SparkKeeps ==
  ASSUME Inv, SparkStep
  PROVE  Inv'
  <1> USE DEF Inv, TypeOK, Fresh, Conserved, Ends, StdoutRead, Beyond, EndOf,
              Responded, Reasons, Excused, Bundled, SuccessAnswered,
              RootfsInUse, BundleRemoved
  <1>1. CASE ReadRequest
    <2>1. CASE Take("request") /\ UNCHANGED spark_vars
      <3> Moves("request")
        BY <2>1 DEF Moves
      <3> QED
        BY <1>1, <2>1, Move DEF PipesTyped, ReadRequest
    <2>2. CASE EndOf("request") /\ Goto("prepare") /\ UNCHANGED pipe_vars
      BY <1>1, <2>2 DEF ReadRequest
    <2> QED
      BY <1>1, <2>1, <2>2 DEF ReadRequest
  <1>2. CASE Prepare
    BY <1>2 DEF Prepare
  <1>3. CASE PrepareFails
    <2>1. (TypeOK /\ Fresh /\ Conserved /\ Ends /\ StdoutRead /\ Responded)'
      BY <1>3 DEF PrepareFails
    <2>2. (Reasons /\ Bundled /\ SuccessAnswered /\ RootfsInUse /\ BundleRemoved)'
      BY <1>3 DEF PrepareFails
    <2> QED
      BY <2>1, <2>2
  <1>4. CASE StartRuntime
    BY <1>4 DEF StartRuntime
  <1>5. CASE StartFails
    BY <1>5 DEF StartFails
  <1>6. CASE ReadStderr
    <2>1. CASE TakeUpToLimit("stderr") /\ UNCHANGED spark_vars
      <3> Moves("stderr")
        BY <2>1 DEF Moves
      <3> QED
        BY <1>6, <2>1, Move DEF PipesTyped, ReadStderr
    <2>2. CASE ReadAll("stderr") /\ Goto("wait") /\ UNCHANGED pipe_vars
      BY <1>6, <2>2 DEF ReadStderr
    <2> QED
      BY <1>6, <2>1, <2>2 DEF ReadStderr
  <1>7. CASE ResponseBroken
    BY <1>7 DEF ResponseBroken
  <1> HIDE DEF Inv
  <1> QED
    BY <1>1, <1>2, <1>3, <1>4, <1>5, <1>6, <1>7, ReadStdoutKeeps,
       WaitRuntimeKeeps, CleanupKeeps, RespondKeeps DEF SparkStep

LEMMA FunctionKeeps ==
  ASSUME Inv, FunctionStep \/ Fail \/ RuntimeExits
  PROVE  Inv'
  <1> USE DEF Inv, TypeOK, Fresh, Conserved, Ends, StdoutRead, Beyond, EndOf,
              Responded, Reasons, Excused, Bundled, SuccessAnswered,
              RootfsInUse, BundleRemoved
  <1>1. CASE WriteOutput("stderr")
    <2> Moves("stderr")
      BY <1>1 DEF WriteOutput, Moves
    <2> QED
      BY <1>1, Move DEF PipesTyped, WriteOutput
  <1>2. CASE OutputBroken
    BY <1>2 DEF OutputBroken
  <1>3. CASE Succeed
    BY <1>3 DEF Succeed
  <1>4. CASE Fail
    BY <1>4 DEF Fail
  <1>5. CASE RuntimeExits
    BY <1>5 DEF RuntimeExits
  <1> HIDE DEF Inv
  <1> QED
    BY <1>1, <1>2, <1>3, <1>4, <1>5, WriteStdoutKeeps DEF FunctionStep

\* Contexts that end and those they kill, and what fails of itself.
LEMMA SignalsAndFaultsKeep ==
  ASSUME Inv, \/ KillSpark \/ KillRuntime \/ Cancel \/ Expire
              \/ RunnerFails \/ ReadFails \/ CleanupFails
              \/ \E who \in {"grpc", "run"} : NoSpark(who)
  PROVE  Inv'
  <1> USE DEF Inv, TypeOK, Fresh, Conserved, Ends, StdoutRead, Beyond, EndOf,
              Responded, Reasons, Excused, Bundled, SuccessAnswered,
              RootfsInUse, BundleRemoved
  <1>1. CASE KillSpark
    BY <1>1 DEF KillSpark
  <1>2. CASE KillRuntime
    BY <1>2 DEF KillRuntime
  <1>3. CASE Cancel
    BY <1>3 DEF Cancel
  <1>4. CASE Expire
    BY <1>4 DEF Expire
  <1>5. CASE RunnerFails
    BY <1>5 DEF RunnerFails
  <1>6. CASE ReadFails
    BY <1>6 DEF ReadFails
  <1>7. CASE CleanupFails
    BY <1>7 DEF CleanupFails
  <1>8. CASE \E who \in {"grpc", "run"} : NoSpark(who)
    BY <1>8 DEF NoSpark
  <1> QED
    BY <1>1, <1>2, <1>3, <1>4, <1>5, <1>6, <1>7, <1>8

LEMMA InvNext == Inv /\ [Next]_vars => Inv'
  <1> SUFFICES ASSUME Inv, [Next]_vars PROVE Inv'
    OBVIOUS
  <1>1. CASE UNCHANGED vars
    BY <1>1 DEF vars, Inv, TypeOK, Fresh, Conserved, Ends, StdoutRead, EndOf,
                Responded, Reasons, Excused, Bundled, SuccessAnswered,
                RootfsInUse, BundleRemoved
  <1>2. CASE Next
    <2>1. CASE \E o \in Outs, e \in Errs, long \in BOOLEAN :
                  Serve(o, e, long) \/ Run(o, e, long)
      <3>1. PICK o \in Outs, e \in Errs, long \in BOOLEAN :
                    Serve(o, e, long) \/ Run(o, e, long)
        BY <2>1
      <3> QED
        BY <3>1, StartKeeps DEF Serve, Run
    <2> QED
      BY <1>2, <2>1, NextCallKeeps, RunnerKeeps, SparkKeeps, FunctionKeeps,
         SignalsAndFaultsKeep DEF Next
  <1> QED
    BY <1>1, <1>2

-----------------------------------------------------------------------------
(* What follows.                                                           *)

\* The inductive invariant of a call holds, for pipes, limits and outputs of
\* any size, whatever fails and whoever gives up.
THEOREM Invariance == Spec => []Inv
  <1>1. Init => Inv
    BY InvInit
  <1>2. Inv /\ [Next]_vars => Inv'
    BY InvNext
  <1> QED
    BY <1>1, <1>2, PTL DEF Spec

\* What was cut off at spark's limit exceeds the runner's by the protocol
\* buffer around it, and no answer is made of that.
LEMMA AnswerIsWhole ==
  ASSUME Inv, spark = "ok", got["response"] = size["response"]
  PROVE  /\ function = "ok" /\ got["stdout"] = size["stdout"]
         /\ got["response"] = Response(size["stdout"])
         /\ got["response"] <= MaxStdio
  <1> USE SizeAssumption
  <1>1. runtime = "ok" /\ size["response"] = Response(got["stdout"])
    BY DEF Inv, Responded
  <1>2. function = "ok" /\ left["stdout"] = 0
    BY <1>1 DEF Inv, Ends
  <1>3. got["response"] <= MaxStdio
    BY DEF Inv, Conserved
  <1>4. got["stdout"] # MaxStdio
    BY <1>1, <1>3 DEF Response
  <1>5. pipe["stdout"] = 0
    BY <1>1, <1>4 DEF Inv, StdoutRead, Beyond, EndOf
  <1>6. left["stdout"] + pipe["stdout"] + got["stdout"] = size["stdout"]
    BY DEF Inv, Conserved
  <1>7. got["stdout"] = size["stdout"]
    BY <1>2, <1>5, <1>6 DEF Inv, TypeOK
  <1> QED
    BY <1>1, <1>2, <1>3, <1>7

\* No output is silently cut short.
THEOREM AnswersAreWhole == Spec => []AnswerWhole
  <1>1. Inv => AnswerWhole
    BY AnswerIsWhole DEF AnswerWhole, Inv, Responded
  <1> QED
    BY <1>1, Invariance, PTL

\* A function that succeeds within the limit is answered, unless somebody
\* gives up or something fails of itself.
THEOREM SuccessIsAnswered == Spec => []SuccessAnswered
  BY Invariance, PTL DEF Inv

\* The root filesystem stays while the container runs.
THEOREM RootfsIsKept == Spec => []RootfsInUse
  BY Invariance, PTL DEF Inv

\* A spark that returns has removed its bundle.
THEOREM BundleIsRemoved == Spec => []BundleRemoved
  BY Invariance, PTL DEF Inv

-----------------------------------------------------------------------------
(* That a call is a FunctionCall: each step is one of its steps or none.   *)

\* What a step has to do for the caller to see nothing of it.
LEMMA Unseen ==
  ASSUME Phase' = Phase, size'["stdout"] = size["stdout"], bundle' = bundle,
         Ran' = Ran, answer' = answer, Given' = Given, Trouble' = Trouble
  PROVE  UNCHANGED Call!vars
  BY DEF Call!vars

\* Moving what is in the pipes is not seen before there is an answer.
LEMMA MoveUnseen ==
  ASSUME TypeOK, runner # "done" => answer = "none",
         NEW c \in Pipes, Moves(c), c = "response" => runner # "done" \/ got' = got
  PROVE  size'["stdout"] = size["stdout"] /\ (answer' = answer => Given' = Given)
  <1>1. size' = size
    BY DEF Moves, Write, TakeUpToLimit, Take
  <1>2. c # "response" => got'["response"] = got["response"]
    BY DEF Moves, Write, TakeUpToLimit, Take, TypeOK
  <1> QED
    BY <1>1, <1>2 DEF Given

LEMMA CallInit == Init => Call!Init
  BY DEF Init, Nothing, Call!Init, Phase, Ran, Given, Trouble

LEMMA StartCalls ==
  ASSUME Inv, NEW who, NEW o \in Outs, NEW e, NEW long, Start(who, o, e, long)
  PROVE  Call!Call(o)
  <1>1. answer = "none" /\ answer' = "none" /\ runner = "idle" /\ runner' = "write"
    BY DEF Start, Inv, Responded
  <1>2. size'["stdout"] = o
    BY DEF Start
  <1> QED
    BY <1>1, <1>2 DEF Call!Call, Start, Phase, Ran, Given, Trouble

LEMMA NextCallCalls == NextCall => Call!NextCall
  BY DEF NextCall, Nothing, Call!NextCall, Phase, Ran, Given, Trouble

LEMMA NoSparkRefuses ==
  ASSUME Inv, NEW who, NoSpark(who)
  PROVE  Call!Refuse
  <1>1. answer = "none" /\ fault' # {}
    BY DEF NoSpark, Inv, Responded
  <1> QED
    BY <1>1 DEF NoSpark, Call!Refuse, Phase, Ran, Given, Trouble

\* An error has a reason.
LEMMA ErrorIsError ==
  ASSUME Inv, Inv', runner \notin {"idle", "done"}, runner' = "done",
         answer' = "error", cancelled' = cancelled,
         UNCHANGED <<spark_vars, function_vars, pipe_vars>>, fault \subseteq fault'
  PROVE  Call!Error
  <1>1. answer = "none"
    BY DEF Inv, Responded
  <1>2. Phase = "open" /\ Phase' = "done" /\ Ran' = Ran /\ Given' = Given
    BY <1>1 DEF Phase, Ran, Given
  <1>3. Trouble' \in {Trouble, TRUE}
    BY DEF Trouble
  <1>4. Trouble' \/ function = "failed" \/ Response(size["stdout"]) > MaxStdio
    BY DEF Inv, SuccessAnswered, Trouble
  <1>5. Call!Whole = Response(size["stdout"])
    BY DEF Call!Whole, Response
  <1>6. function = "failed" => Ran = "failed"
    BY DEF Ran
  <1> QED
    BY <1>2, <1>3, <1>4, <1>5, <1>6 DEF Call!Error

LEMMA WaitAnswers ==
  ASSUME Inv, Inv', Wait
  PROVE  Call!Answer \/ Call!Error
  <1>1. CASE answer' = "ok"
    <2>1. function = "ok" /\ got["response"] = Response(size["stdout"])
          /\ got["response"] <= MaxStdio
      BY <1>1, AnswerIsWhole DEF Wait
    <2>2. UNCHANGED <<function, got, size, bundle, cancelled, expired, fault>>
          /\ runner = "wait" /\ runner' = "done"
      BY DEF Wait
    <2>3. Phase = "open" /\ Phase' = "done" /\ Ran = "ok" /\ Ran' = Ran /\ Trouble' = Trouble
      BY <2>1, <2>2 DEF Phase, Ran, Trouble
    <2>4. Call!Whole = Response(size["stdout"])
      BY DEF Call!Whole, Response
    <2>5. Given' = Call!Whole /\ Call!Whole <= MaxStdio
      BY <1>1, <2>1, <2>2, <2>4 DEF Given
    <2> QED
      BY <1>1, <2>2, <2>3, <2>5 DEF Call!Answer
  <1>2. CASE answer' = "error"
    BY <1>2, ErrorIsError DEF Wait
  <1> QED
    BY <1>1, <1>2 DEF Wait

LEMMA RunnerCalls ==
  ASSUME Inv, Inv', RunnerStep
  PROVE  Call!Next \/ UNCHANGED Call!vars
  <1>0. TypeOK /\ (runner # "done" => answer = "none")
    BY DEF Inv, Responded
  <1>1. CASE WriteRequest
    <2>1. Moves("request")
      BY <1>1 DEF WriteRequest, Moves
    <2> QED
      BY <1>0, <1>1, <2>1, MoveUnseen, Unseen DEF WriteRequest, Phase, Ran, Trouble
  <1>2. CASE RequestBroken
    BY <1>2, ErrorIsError DEF RequestBroken, Call!Next
  <1>3. CASE CloseStdin
    BY <1>3, Unseen DEF CloseStdin, Phase, Ran, Given, Trouble
  <1>4. CASE ReadResponse
    <2>1. Phase' = Phase /\ Ran' = Ran /\ Trouble' = Trouble /\ bundle' = bundle
          /\ answer' = answer /\ runner # "done"
      BY <1>4 DEF ReadResponse, Phase, Ran, Trouble
    <2>2. CASE UNCHANGED pipe_vars
      BY <2>1, <2>2, Unseen DEF Given
    <2>3. CASE TakeUpToLimit("response")
      BY <1>0, <2>1, <2>3, MoveUnseen, Unseen DEF Moves
    <2> QED
      BY <1>4, <2>2, <2>3 DEF ReadResponse
  <1>5. CASE ReadMessage
    BY <1>5, Unseen DEF ReadMessage, Phase, Ran, Given, Trouble
  <1>6. CASE Wait
    BY <1>6, WaitAnswers DEF Call!Next
  <1> QED
    BY <1>1, <1>2, <1>3, <1>4, <1>5, <1>6 DEF RunnerStep

\* Whatever fails while spark runs, or whoever gives up, is trouble.
LEMMA FailsIsTrouble ==
  ASSUME Inv, runner # "idle",
         UNCHANGED <<runner, answer, bundle, function, got, size>>,
         \/ Trouble' = TRUE
         \/ UNCHANGED <<cancelled, expired, fault>>
  PROVE  Call!Next \/ UNCHANGED Call!vars
  <1>1. Phase' = Phase /\ Ran' = Ran /\ Given' = Given /\ Phase # "idle"
    BY DEF Phase, Ran, Given
  <1>2. CASE Trouble' = TRUE
    BY <1>1, <1>2 DEF Call!Trouble, Call!Next
  <1>3. CASE UNCHANGED <<cancelled, expired, fault>>
    BY <1>1, <1>3, Unseen DEF Trouble
  <1> QED
    BY <1>2, <1>3

LEMMA SparkCalls ==
  ASSUME Inv, Inv', SparkStep
  PROVE  Call!Next \/ UNCHANGED Call!vars
  <1>0. TypeOK /\ (runner # "done" => answer = "none")
    BY DEF Inv, Responded
  <1>1. spark # "none" /\ runner # "idle"
    BY DEF SparkStep, ReadRequest, Prepare, PrepareFails, StartRuntime,
           StartFails, ReadStdout, ReadStderr, WaitRuntime, Cleanup, Respond,
           ResponseBroken, Inv, Ends
  <1>2. ASSUME NEW c \in {"request", "stdout", "stderr", "response"}, Moves(c),
               c = "response" => got' = got,
               UNCHANGED spark_vars, OnlySpark
        PROVE  UNCHANGED Call!vars
    BY <1>0, <1>2, MoveUnseen, Unseen DEF Phase, Ran, Trouble
  <1>3. ASSUME UNCHANGED pipe_vars, UNCHANGED <<expired, bundle>>, OnlySpark
        PROVE  UNCHANGED Call!vars
    BY <1>3, Unseen DEF Phase, Ran, Given, Trouble
  <1>4. CASE ReadRequest
    BY <1>2, <1>3, <1>4 DEF ReadRequest, Moves
  <1>5. CASE Prepare
    <2>1. function = "none" /\ Ran = "none"
      BY <1>5 DEF Prepare, Inv, Ends, Ran
    <2>2. Call!MakeRootfs
      BY <1>1, <1>5, <2>1 DEF Prepare, Call!MakeRootfs, Phase, Ran, Given, Trouble
    <2> QED
      BY <2>2 DEF Call!Next
  <1>6. CASE PrepareFails
    BY <1>1, <1>6, FailsIsTrouble DEF PrepareFails, Trouble
  <1>7. CASE StartRuntime
    <2>1. function = "none" /\ Ran = "none" /\ bundle
      BY <1>7 DEF StartRuntime, Inv, Ends, Bundled, Ran
    <2>2. Call!Begin
      BY <1>7, <2>1 DEF StartRuntime, Call!Begin, Phase, Ran, Given, Trouble
    <2> QED
      BY <2>2 DEF Call!Next
  <1>8. CASE StartFails
    BY <1>1, <1>8, FailsIsTrouble DEF StartFails, Trouble
  <1>9. CASE ReadStdout
    BY <1>2, <1>3, <1>9 DEF ReadStdout, Moves
  <1>10. CASE ReadStderr
    BY <1>2, <1>3, <1>10 DEF ReadStderr, Moves
  <1>11. CASE WaitRuntime
    BY <1>3, <1>11 DEF WaitRuntime
  <1>12. CASE Cleanup
    <2>1. Ran # "running" \/ Trouble
      <3>1. ~ bundle' /\ UNCHANGED <<function, outlives, runtime, fault, cancelled, expired>>
        BY <1>12 DEF Cleanup
      <3>2. function \in {"running", "hung"} => runtime = "killed" \/ "step" \in fault
        BY <3>1 DEF Inv, RootfsInUse
      <3>3. runtime = "killed" => expired
        BY DEF Inv, Ends
      <3> QED
        BY <1>0, <3>2, <3>3 DEF Ran, Trouble, TypeOK
    <2>2. size'["stdout"] = size["stdout"] /\ got' = got
      BY <1>0, <1>12 DEF Cleanup, TypeOK
    <2>3. Call!RemoveRootfs
      BY <1>12, <2>1, <2>2 DEF Cleanup, Call!RemoveRootfs, Phase, Ran, Given, Trouble
    <2> QED
      BY <2>3 DEF Call!Next
  <1>13. CASE Respond
    BY <1>2, <1>3, <1>13 DEF Respond, Moves, Write
  <1>14. CASE ResponseBroken
    BY <1>3, <1>14 DEF ResponseBroken
  <1> QED
    BY <1>4, <1>5, <1>6, <1>7, <1>8, <1>9, <1>10, <1>11, <1>12, <1>13, <1>14 DEF SparkStep

LEMMA FunctionCalls ==
  ASSUME Inv, FunctionStep \/ Fail \/ RuntimeExits \/ KillRuntime
  PROVE  Call!Next \/ UNCHANGED Call!vars
  <1>0. TypeOK /\ (runner # "done" => answer = "none")
    BY DEF Inv, Responded
  <1>1. ASSUME NEW c \in {"stdout", "stderr"}, WriteOutput(c)
        PROVE  UNCHANGED Call!vars
    BY <1>0, <1>1, MoveUnseen, Unseen DEF WriteOutput, Moves, Phase, Ran, Trouble
  <1>2. ASSUME UNCHANGED <<runner_vars, spark_vars, pipe_vars, fault>>,
               function \in {"running", "hung"},
               function' \in {"ok", "failed"} \/ (function' = "killed" /\ expired)
        PROVE  Call!End
    BY <1>2 DEF Call!End, Phase, Ran, Given, Trouble
  <1>3. ASSUME UNCHANGED <<runner_vars, spark_vars, pipe_vars, fault>>,
               function' = function \/ (function = "running" /\ function' = "hung")
        PROVE  UNCHANGED Call!vars
    BY <1>3, Unseen DEF Phase, Ran, Given, Trouble
  <1>4. CASE OutputBroken
    BY <1>2, <1>4 DEF OutputBroken, Call!Next
  <1>5. CASE Succeed
    BY <1>2, <1>5 DEF Succeed, Call!Next
  <1>6. CASE Fail
    BY <1>2, <1>3, <1>6 DEF Fail, Call!Next
  <1>7. CASE RuntimeExits
    BY <1>3, <1>7 DEF RuntimeExits
  <1>8. CASE KillRuntime
    BY <1>2, <1>3, <1>8 DEF KillRuntime, Call!Next
  <1> QED
    BY <1>1, <1>4, <1>5, <1>6, <1>7, <1>8 DEF FunctionStep

LEMMA SignalsAndFaultsCall ==
  ASSUME Inv, Inv', \/ KillSpark \/ Cancel \/ Expire
                    \/ RunnerFails \/ ReadFails \/ CleanupFails
  PROVE  Call!Next \/ UNCHANGED Call!vars
  <1>1. spark # "none" => runner # "idle"
    BY DEF Inv, Ends
  <1>2. CASE KillSpark
    BY <1>2, Unseen DEF KillSpark, Phase, Ran, Given, Trouble
  <1>3. CASE Cancel
    BY <1>3, FailsIsTrouble DEF Cancel, Trouble
  <1>4. CASE Expire
    BY <1>1, <1>4, FailsIsTrouble DEF Expire, Trouble
  <1>5. CASE RunnerFails
    BY <1>5, ErrorIsError DEF RunnerFails, Call!Next
  <1>6. CASE ReadFails
    BY <1>1, <1>6, FailsIsTrouble DEF ReadFails, Trouble
  <1>7. CASE CleanupFails
    BY <1>1, <1>7, FailsIsTrouble DEF CleanupFails, Trouble
  <1> QED
    BY <1>2, <1>3, <1>4, <1>5, <1>6, <1>7

LEMMA CallNext == Inv /\ Inv' /\ [Next]_vars => [Call!Next]_Call!vars
  <1> SUFFICES ASSUME Inv, Inv', [Next]_vars
               PROVE  Call!Next \/ UNCHANGED Call!vars
    OBVIOUS
  <1>1. CASE UNCHANGED vars
    BY <1>1, Unseen DEF vars, Phase, Ran, Given, Trouble
  <1>2. ASSUME NEW o \in Outs, NEW e \in Errs, NEW long \in BOOLEAN,
               Serve(o, e, long) \/ Run(o, e, long)
        PROVE  Call!Next
    <2>1. Call!Call(o)
      BY <1>2, StartCalls DEF Serve, Run
    <2> QED
      BY <2>1 DEF Call!Next
  <1>3. ASSUME NEW who, NoSpark(who) PROVE Call!Next
    BY <1>3, NoSparkRefuses DEF Call!Next
  <1>4. CASE NextCall
    BY <1>4, NextCallCalls DEF Call!Next
  <1> QED
    BY <1>1, <1>2, <1>3, <1>4, RunnerCalls, SparkCalls, FunctionCalls,
       SignalsAndFaultsCall DEF Next

\* Runner, spark, runtime and container, with all their failures and whoever
\* gives up, are one call: the function runs at most once and in its root
\* filesystem, and the answer is whole or an error with a reason
\* (Runner.RunFunction, spark's Run).
THEOREM ImplementsCall == Spec => CallSpec
  BY Invariance, CallInit, CallNext, PTL DEF Spec, CallSpec, Call!Spec
=============================================================================
