------------------------------- MODULE Runtime -------------------------------
(***************************************************************************)
(* One run of an agent: the tool loop of DeepSeekRuntime.Run               *)
(* (runtime/eino/deepseek_runtime.go) and the sandbox its python.execute   *)
(* tool starts for each call (pkg/pythonexec/k8s_executor.go).  Job and    *)
(* ConfigMap are named after the run, not after the call, so the calls of  *)
(* a run share the names; a call's objects are deleted when it returns,    *)
(* which may fail, and the pod of a deleted job goes later.                *)
(* Tool calls are numbered in the order in which the model asks for them.  *)
(***************************************************************************)
EXTENDS Naturals, Sequences

CONSTANTS
    ToolNames,         \* tools the model may ask for
    ApprovedTools,     \* tools resolveTools found bound, active and with an adapter
    MaxToolCalls,      \* maxToolCalls
    MaxPerResponse,    \* bound: tool calls in one response
    MaxRuntimeFaults   \* bound: failed calls to the cluster

ASSUME RuntimeConstants ==
    MaxToolCalls \in Nat /\ MaxPerResponse \in Nat /\ MaxRuntimeFaults \in Nat

VARIABLES
    run,         \* where the loop is, and the calls it has executed
    asked,       \* tool calls in the transcript, the assistant's side
    returned,    \* tool messages in the transcript, by call
    execution,   \* KubernetesExecutor.Execute in progress, what it created, and as a
                 \* history whether the finished job was its own and ran its code, the
                 \* calls whose pods were still there, and those whose pods it read
    configMap,   \* the code stored under the run's name, by call, 0 without
    job,         \* the job under the run's name: its call, status, and the code its pod ran
    pods,        \* calls whose pod is still there
    reported,    \* what python.execute reported, by call
    rtFaults,    \* failed calls to the cluster
    stranded     \* history: an object was left by a failed delete, a lost answer or a crash

runVars == <<run, asked, returned>>
clusterVars == <<configMap, job, pods>>
runtimeVars == <<runVars, clusterVars, execution, reported, rtFaults, stranded>>

Python == "python.execute"
NoJob == [call |-> 0, status |-> "none", code |-> 0]
NoExecution == [call |-> 0, at |-> "idle", exit |-> "none", own |-> FALSE, left |-> {}, read |-> {},
                configMapCreated |-> FALSE, jobCreated |-> FALSE]

RuntimeInit ==
    /\ run = [at |-> "start", executed |-> 0]
    /\ asked = <<>> /\ returned = <<>>
    /\ execution = NoExecution
    /\ configMap = 0 /\ job = NoJob /\ pods = {}
    /\ reported = <<>> /\ rtFaults = 0 /\ stranded = FALSE
-----------------------------------------------------------------------------
(* The loop (generateWithTools). *)

(* Run: resolveTools has every bound tool, with its adapter, or fails. *)
ResolveTools(ok) ==
    /\ run.at = "start"
    /\ run' = [run EXCEPT !.at = IF ok THEN "generate" ELSE "failed"]
    /\ UNCHANGED <<asked, returned, clusterVars, execution, reported, rtFaults, stranded>>

(* Mutant of Generate: the calls are counted by response. *)
GenerateResets(calls) ==
    /\ run.at = "generate" /\ Len(asked) <= MaxToolCalls
    /\ run' = [at |-> IF calls = <<>> THEN "done" ELSE "tools", executed |-> 0]
    /\ asked' = asked \o calls
    /\ UNCHANGED <<returned, clusterVars, execution, reported, rtFaults, stranded>>

(* The model answers: a text ends the run, tool calls go on with it.  The   *)
(* bound on the transcript cuts nothing off: a longer one has failed.       *)
Generate(calls) ==
    /\ run.at = "generate" /\ Len(asked) <= MaxToolCalls
    /\ run' = [run EXCEPT !.at = IF calls = <<>> THEN "done" ELSE "tools"]
    /\ asked' = asked \o calls
    /\ UNCHANGED <<returned, clusterVars, execution, reported, rtFaults, stranded>>

(* Generate or the adapter fails, or the run's deadline passes between. *)
RunFails ==
    /\ run.at \in {"generate", "tools"}
    /\ run' = [run EXCEPT !.at = "failed"]
    /\ UNCHANGED <<asked, returned, clusterVars, execution, reported, rtFaults, stranded>>

Current == Len(returned) + 1

(* The end of executeRuntimeToolCall: the message goes to the transcript,   *)
(* and after the last call of the response the model is asked again.        *)
Reply ==
    /\ returned' = Append(returned, Current)
    /\ run' = [run EXCEPT !.at = IF Current = Len(asked) THEN "generate" ELSE "tools"]
    /\ UNCHANGED asked

(* isRecoverableToolInputError: the error is the tool's message. *)
ReplyError == Reply

(* A call too many, or of a tool that is not approved, fails the run. *)
NextToolCall ==
    /\ run.at = "tools"
    /\ run' = IF run.executed >= MaxToolCalls THEN [run EXCEPT !.at = "failed"]
              ELSE [at |-> IF asked[Current] \in ApprovedTools THEN "invoke" ELSE "failed",
                    executed |-> run.executed + 1]
    /\ UNCHANGED <<asked, returned, clusterVars, execution, reported, rtFaults, stranded>>

(* The other adapters, and an input that python.execute refuses. *)
InvokeAdapter ==
    /\ run.at = "invoke"
    /\ \/ asked[Current] # Python /\ Reply
       \/ ReplyError
       \/ run' = [run EXCEPT !.at = "failed"] /\ UNCHANGED <<asked, returned>>
    /\ UNCHANGED <<clusterVars, execution, reported, rtFaults, stranded>>

InvokePython ==
    /\ run.at = "invoke" /\ asked[Current] = Python
    /\ run' = [run EXCEPT !.at = "python"]
    /\ execution' = [NoExecution EXCEPT !.call = Current, !.at = "createConfigMap"]
    /\ UNCHANGED <<asked, returned, clusterVars, reported, rtFaults, stranded>>
-----------------------------------------------------------------------------
(* KubernetesExecutor.Execute. *)

ExecuteGoes(at) == execution' = [execution EXCEPT !.at = at]
Faulty == rtFaults < MaxRuntimeFaults /\ rtFaults' = rtFaults + 1

(* A name that is taken is an error. *)
CreateConfigMap ==
    /\ execution.at = "createConfigMap"
    /\ IF configMap # 0 THEN ExecuteGoes("deleteJob") /\ UNCHANGED configMap
       ELSE /\ configMap' = execution.call
            /\ execution' = [execution EXCEPT !.at = "createJob", !.configMapCreated = TRUE]
    /\ UNCHANGED <<runVars, job, pods, reported, rtFaults, stranded>>

(* Mutant of CreateJob: a job of that name will do. *)
CreateJobOrFind ==
    /\ execution.at = "createJob"
    /\ job' = IF job # NoJob THEN job ELSE [call |-> execution.call, status |-> "created", code |-> 0]
    /\ execution' = [execution EXCEPT !.at = "wait", !.jobCreated = TRUE, !.left = pods]
    /\ UNCHANGED <<runVars, configMap, pods, reported, rtFaults, stranded>>

CreateJob ==
    /\ execution.at = "createJob"
    /\ IF job # NoJob THEN ExecuteGoes("deleteJob") /\ UNCHANGED job
       ELSE /\ job' = [call |-> execution.call, status |-> "created", code |-> 0]
            /\ execution' = [execution EXCEPT !.at = "wait", !.jobCreated = TRUE, !.left = pods]
    /\ UNCHANGED <<runVars, configMap, pods, reported, rtFaults, stranded>>

(* A create fails, or is done and its answer is lost: Execute goes to its   *)
(* deferred cleanup and takes it for not created.                           *)
CreateFails(done) ==
    /\ Faulty /\ ExecuteGoes("deleteJob")
    /\ \/ /\ execution.at = "createConfigMap" /\ configMap = 0
          /\ configMap' = (IF done THEN execution.call ELSE 0) /\ UNCHANGED job
       \/ /\ execution.at = "createJob" /\ job = NoJob
          /\ job' = (IF done THEN [call |-> execution.call, status |-> "created", code |-> 0] ELSE NoJob)
          /\ UNCHANGED configMap
    /\ stranded' = (stranded \/ done)
    /\ UNCHANGED <<runVars, pods, reported>>

(* findJobPod: any pod with the job's label, whichever call of the run it   *)
(* is of.                                                                   *)
FindJobPod == {{n} : n \in pods}

(* KubernetesJobResult of a job that ended. *)
JobResult(read) ==
    [execution EXCEPT !.at = "logs", !.exit = job.status, !.read = read,
                      !.own = job.call = execution.call /\ job.code = execution.call]

(* WaitForJob: what inspectJob finds, or the timeout, or an error when the  *)
(* job cannot be read.  The exit code of a failed job is read from a pod,   *)
(* and is 1 when that fails.  A timeout is an answer, without logs.         *)
WaitForJob ==
    /\ execution.at = "wait"
    /\ \/ /\ job.status \in {"succeeded", "failed"}
          /\ \E read \in {{}} \cup (IF job.status = "failed" THEN FindJobPod ELSE {}) :
                execution' = JobResult(read)
          /\ UNCHANGED rtFaults
       \/ /\ job # NoJob /\ job.status \notin {"succeeded", "failed"}
          /\ execution' = [execution EXCEPT !.at = "deleteJob", !.exit = "timeout"]
          /\ UNCHANGED rtFaults
       \/ job = NoJob /\ ExecuteGoes("deleteJob") /\ UNCHANGED rtFaults
       \/ Faulty /\ ExecuteGoes("deleteJob")
    /\ UNCHANGED <<runVars, clusterVars, reported, stranded>>

(* ReadJobLogs: of a pod that findJobPod finds, and an error without one. *)
ReadJobLogs ==
    /\ execution.at = "logs"
    /\ \/ /\ \E read \in FindJobPod :
                execution' = [execution EXCEPT !.at = "deleteJob", !.read = @ \cup read]
          /\ UNCHANGED rtFaults
       \/ pods = {} /\ execution' = [execution EXCEPT !.at = "deleteJob", !.exit = "none"] /\ UNCHANGED rtFaults
       \/ Faulty /\ execution' = [execution EXCEPT !.at = "deleteJob", !.exit = "none"]
    /\ UNCHANGED <<runVars, clusterVars, reported, stranded>>

(* The deferred cleanup, whose errors are dropped. *)
DeleteJob ==
    /\ execution.at = "deleteJob" /\ ExecuteGoes("deleteConfigMap")
    /\ \/ job' = (IF execution.jobCreated THEN NoJob ELSE job) /\ UNCHANGED <<rtFaults, stranded>>
       \/ execution.jobCreated /\ Faulty /\ stranded' = TRUE /\ UNCHANGED job
    /\ UNCHANGED <<runVars, configMap, pods, reported>>

DeleteConfigMap ==
    /\ execution.at = "deleteConfigMap" /\ ExecuteGoes("return")
    /\ \/ configMap' = (IF execution.configMapCreated THEN 0 ELSE configMap) /\ UNCHANGED <<rtFaults, stranded>>
       \/ execution.configMapCreated /\ Faulty /\ stranded' = TRUE /\ UNCHANGED configMap
    /\ UNCHANGED <<runVars, job, pods, reported>>

(* Execute returns: a response, whatever its exit code, is a tool message,  *)
(* and an error, which is an internal one, fails the run.                   *)
ExecuteReturns ==
    /\ execution.at = "return"
    /\ reported' = Append(reported, [call |-> execution.call, exit |-> execution.exit, own |-> execution.own,
                                     left |-> execution.left, read |-> execution.read])
    /\ IF execution.exit = "none" THEN run' = [run EXCEPT !.at = "failed"] /\ UNCHANGED <<asked, returned>>
       ELSE Reply
    /\ execution' = NoExecution
    /\ UNCHANGED <<clusterVars, rtFaults, stranded>>

(* The process dies with the call in progress. *)
ProcessDies ==
    /\ run.at = "python"
    /\ run' = [run EXCEPT !.at = "failed"]
    /\ execution' = NoExecution /\ stranded' = TRUE
    /\ UNCHANGED <<asked, returned, clusterVars, reported, rtFaults>>
-----------------------------------------------------------------------------
(* The cluster. *)

(* The job's pod mounts the ConfigMap of the run's name. *)
PodStarts ==
    /\ job.status = "created" /\ configMap # 0
    /\ job' = [job EXCEPT !.status = "running", !.code = configMap]
    /\ pods' = pods \cup {job.call}
    /\ UNCHANGED <<runVars, configMap, execution, reported, rtFaults, stranded>>

PodEnds(status) ==
    /\ job.status = "running"
    /\ job' = [job EXCEPT !.status = status]
    /\ UNCHANGED <<runVars, configMap, pods, execution, reported, rtFaults, stranded>>

(* ttlSecondsAfterFinished. *)
JobTTLPasses ==
    /\ job.status \in {"succeeded", "failed"} /\ run.at # "python"
    /\ job' = NoJob
    /\ UNCHANGED <<runVars, configMap, pods, execution, reported, rtFaults, stranded>>

(* Background propagation: pods follow their job. *)
PodCollected(n) ==
    /\ n \in pods /\ job.call # n
    /\ pods' = pods \ {n}
    /\ UNCHANGED <<runVars, configMap, job, execution, reported, rtFaults, stranded>>

RunLoop ==
    /\ run.at \notin {"start", "done", "failed"}
    /\ \/ \E n \in 0 .. MaxPerResponse : \E calls \in [1 .. n -> ToolNames] : Generate(calls)
       \/ NextToolCall \/ InvokeAdapter \/ InvokePython
       \/ CreateConfigMap \/ CreateJob \/ WaitForJob \/ ReadJobLogs
       \/ DeleteJob \/ DeleteConfigMap \/ ExecuteReturns

RuntimeNext ==
    \/ (\E ok \in BOOLEAN : ResolveTools(ok)) \/ RunLoop \/ RunFails \/ ProcessDies
    \/ \E done \in BOOLEAN : CreateFails(done)
    \/ PodStarts \/ (\E status \in {"succeeded", "failed"} : PodEnds(status)) \/ JobTTLPasses
    \/ \E n \in pods : PodCollected(n)

(* The goroutine of the run goes on; the cluster owes it nothing. *)
RuntimeFairness == WF_runtimeVars(RunLoop)
RuntimeSpec == RuntimeInit /\ [][RuntimeNext]_runtimeVars /\ RuntimeFairness
-----------------------------------------------------------------------------
(* A python.execute call that is reported to the model as a success or as a *)
(* failure has the status of its own job, which ran its own code: although  *)
(* the calls of a run share the names of job and ConfigMap, an object that  *)
(* a failed delete or a lost answer left behind is never taken for the      *)
(* call's own.                                                              *)
StatusIsOwn ==
    \A i \in DOMAIN reported : reported[i].exit \in {"succeeded", "failed"} => reported[i].own

(* The output and the exit code of a call are read from its own pod, or     *)
(* from one that an earlier call of the run had left when the job was       *)
(* created and that was still being collected: findJobPod tells them apart  *)
(* by the job's name, which they share.                                     *)
OutputFromOwnOrLeft ==
    \A i \in DOMAIN reported : reported[i].read \subseteq {reported[i].call} \cup reported[i].left

(* Once started, a run ends with an answer or an error, whatever the model  *)
(* goes on asking for and whatever becomes of the sandbox: the calls of all *)
(* its responses count against maxToolCalls and every wait has a deadline.  *)
(* No step leads back to "start".                                           *)
RunEnds ==
    []<>(run.at \in {"start", "done", "failed"})

(* Execute leaves nothing behind on any of its returns, unless a delete or  *)
(* the answer to a create was lost or the process died.                     *)
CleansUp ==
    execution.at = "idle" /\ ~stranded => configMap = 0 /\ job = NoJob

(* Calls of one run share the names of job and ConfigMap: none takes the    *)
(* status of another's job for its own, none has another's output unless    *)
(* that one's pod was still being collected, and none leaves its objects to *)
(* the next.                                                                *)
SandboxSound == StatusIsOwn /\ OutputFromOwnOrLeft /\ CleansUp
=============================================================================
