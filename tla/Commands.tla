------------------------------ MODULE Commands ------------------------------
(***************************************************************************)
(* What the commands of src/cli.rs tell their caller: the exit code of     *)
(* `hmux serve`, as src/server.rs computes it from its select and its two  *)
(* tasks, and the report of `hmux status`.  Both are added to the steps of *)
(* Lifecycle, which they do not change.                                    *)
(***************************************************************************)
EXTENDS Lifecycle

CONSTANT Status    (* Status commands, each run once.                      *)

VARIABLES
  primary,   (* primary_result: "none", "ok", or the error it holds.       *)
  awaited,   (* Tasks that finish_task found running, of each server.      *)
  failure,   (* Servers with an error in ingress_result or control_result. *)
  result,    (* The result that serve returned: "none", "ok", "error".     *)
  asked,     (* Servers that a signal or a stop command told to stop.      *)
  status     (* Each status command: its step and the server it asks.      *)

exitVars == <<primary, awaited, failure, result>>
commandVars == <<vars, exitVars, asked, status>>

(* Places of serve after its select.                                       *)
Draining == {"draining_ingress", "draining_control", "removing", "removed"}

StatusPlace ==
  {"new", "asking", "listing", "running", "absent", "stale", "error"}

CommandsInit ==
  /\ Init
  /\ primary = [s \in Server |-> "none"]
  /\ awaited = {}
  /\ failure = {}
  /\ result = [s \in Server |-> "none"]
  /\ asked = {}
  /\ status = [q \in Status |-> [at |-> "new", server |-> NoServer]]

-----------------------------------------------------------------------------
(* serve.                                                                  *)

(* finish_task awaits a task that is not finished.                         *)
FinishTask(s, name, task) ==
  awaited' = IF task[s] = "serving" THEN awaited \cup {<<s, name>>} ELSE awaited

(* An arm of the select is taken, and finish_task is called for ingress.   *)
Select(s, value) ==
  /\ primary' = [primary EXCEPT ![s] = value]
  /\ FinishTask(s, "ingress", ingress)
  /\ UNCHANGED <<failure, result, status>>

(* An error of the signal handler that is kept, but does not end the wait. *)
SelectSignalAgain(s) ==
  \/ Signal(s) /\ Select(s, "ok") /\ asked' = asked \cup {s}
  \/ pc[s] = "running" /\ Select(s, "no_signals") /\ UNCHANGED <<vars, asked>>

SelectSignal(s) ==
  /\ Signal(s)
  /\ \/ Select(s, "ok") /\ asked' = asked \cup {s}
     \/ Select(s, "no_signals") /\ UNCHANGED asked

SelectCancelled(s) ==
  /\ Wake(s)
  /\ s \in cancelled
  /\ Select(s, "ok")
  /\ UNCHANGED asked

(* task_stopped is an error whatever the task returned.                    *)
SelectTask(s) ==
  /\ Wake(s)
  /\ ingress[s] # "serving" \/ control[s] # "serving"
  /\ Select(s, "task_stopped")
  /\ UNCHANGED asked

(* finish_task has no error for a task that had finished before.           *)
TaskResult(s, name, task) ==
  failure' = IF <<s, name>> \in awaited /\ task[s] = "failed"
             THEN failure \cup {s} ELSE failure

FinishIngressTask(s) ==
  /\ FinishIngress(s)
  /\ TaskResult(s, "ingress", ingress)
  /\ FinishTask(s, "control", control)
  /\ UNCHANGED <<primary, result, asked, status>>

FinishControlTask(s) ==
  /\ FinishControl(s)
  /\ TaskResult(s, "control", control)
  /\ UNCHANGED <<primary, awaited, result, asked, status>>

(* A return value without primary_result?.                                 *)
ServeResultOfTasks(s) == IF s \in failure THEN "error" ELSE "ok"

(* A return value without ingress_result? and control_result?.             *)
ServeResultOfSelect(s) == IF primary[s] = "ok" THEN "ok" ELSE "error"

ServeResult(s) ==
  IF primary[s] = "ok" /\ s \notin failure THEN "ok" ELSE "error"

(* The local variables of serve go with it.                                *)
Forget(s) ==
  /\ primary' = [primary EXCEPT ![s] = "none"]
  /\ awaited' = awaited \ {<<s, "ingress">>, <<s, "control">>}
  /\ failure' = failure \ {s}
  /\ UNCHANGED <<asked, status>>

Return(s, value) == result' = [result EXCEPT ![s] = value] /\ Forget(s)

Dies(s) == Crash(s) /\ Forget(s) /\ UNCHANGED result

ServeReturns(s) == Exit(s) /\ Return(s, ServeResult(s))

StartFails(s) ==
  /\ AlreadyRunning(s) \/ StartupFails(s) \/ PublishFails(s)
  /\ Return(s, "error")

(* Steps of Lifecycle that decide nothing about the exit code.             *)
OtherServerStep(s) ==
  /\ \/ AcquireInstanceLock(s) \/ BindListeners(s) \/ WriteTemporary(s)
     \/ RemovePrevious(s) \/ PublishDescriptor(s)
     \/ AcceptWebhook(s) \/ ReadBody(s) \/ AnswerWebhook(s) \/ AbandonWebhook(s)
     \/ AcceptControl(s) \/ EndControl(s)
     \/ IngressFinishes(s) \/ ControlFinishes(s)
     \/ IngressFails(s) \/ ControlFails(s)
     \/ RemoveDescriptor(s)
  /\ UNCHANGED <<exitVars, asked, status>>

StopCommand(k) ==
  /\ StopStep(k)
  /\ asked' = asked \cup (cancelled' \ cancelled)
  /\ UNCHANGED <<exitVars, status>>

-----------------------------------------------------------------------------
(* run_status.                                                             *)

SetStatus(q, at, server) ==
  /\ status' = [status EXCEPT ![q] = [at |-> at, server |-> server]]
  /\ UNCHANGED <<vars, exitVars, asked>>

(* status_report: read_descriptor, then the status request.                *)
StatusRead(q) ==
  /\ status[q].at = "new"
  /\ IF descriptor = NoServer THEN SetStatus(q, "absent", NoServer)
                              ELSE SetStatus(q, "asking", descriptor)

StatusAnswered(q) ==
  /\ status[q].at = "asking"
  /\ control[status[q].server] = "serving"
  /\ SetStatus(q, "listing", status[q].server)

(* ControlClientError::Request: nobody listens.                            *)
StatusUnreachable(q) ==
  /\ status[q].at = "asking"
  /\ control[status[q].server] # "serving"
  /\ SetStatus(q, "stale", NoServer)

(* CONTROL_REQUEST_TIMEOUT passes at a server that is too slow.            *)
StatusTimesOut(q) ==
  /\ status[q].at = "asking"
  /\ control[status[q].server] = "serving"
  /\ SetStatus(q, "stale", NoServer)

(* Something else listens at the address and rejects the token.            *)
StatusRejected(q) ==
  /\ status[q].at = "asking"
  /\ control[status[q].server] # "serving"
  /\ SetStatus(q, "error", NoServer)

StatusLists(q) ==
  /\ status[q].at = "listing"
  /\ control[status[q].server] = "serving"
  /\ SetStatus(q, "running", NoServer)

StatusListFails(q) ==
  /\ status[q].at = "listing"
  /\ SetStatus(q, "error", NoServer)

-----------------------------------------------------------------------------
ServeStep(s) ==
  \/ SelectSignal(s) \/ SelectCancelled(s) \/ SelectTask(s)
  \/ FinishIngressTask(s) \/ FinishControlTask(s)
  \/ ServeReturns(s) \/ StartFails(s) \/ Dies(s) \/ OtherServerStep(s)

StatusStep(q) ==
  \/ StatusRead(q) \/ StatusAnswered(q) \/ StatusUnreachable(q)
  \/ StatusTimesOut(q) \/ StatusRejected(q) \/ StatusLists(q)
  \/ StatusListFails(q)

CommandsNext ==
  \/ \E s \in Server : ServeStep(s)
  \/ \E k \in Stopper : StopCommand(k)
  \/ \E q \in Status : StatusStep(q)

CommandsSpec == CommandsInit /\ [][CommandsNext]_commandVars

(* As in Lifecycle, with the steps of the shutdown under their own names.  *)
CommandsFairSpec ==
  /\ CommandsSpec
  /\ \A s \in Server :
       /\ WF_commandVars(SelectCancelled(s) \/ SelectTask(s)
                         \/ FinishIngressTask(s) \/ FinishControlTask(s)
                         \/ (RemoveDescriptor(s) /\ OtherServerStep(s))
                         \/ ServeReturns(s))
       /\ WF_commandVars(OtherServerStep(s) /\ (AnswerWebhook(s)
                         \/ IngressFinishes(s) \/ ControlFinishes(s)))

-----------------------------------------------------------------------------
(* The type of every variable; serve has its primary_result exactly from   *)
(* its select to its end, whichever arm was taken.                         *)
CommandsTypeOK ==
  /\ TypeOK
  /\ primary \in [Server -> {"none", "ok", "no_signals", "task_stopped"}]
  /\ \A s \in Server : primary[s] # "none" <=> pc[s] \in Draining
  /\ awaited \subseteq Server \X {"ingress", "control"}
  /\ failure \subseteq Server
  /\ result \in [Server -> {"none", "ok", "error"}]
  /\ asked \subseteq Server
  /\ status \in [Status -> [at: StatusPlace, server: Server \cup {NoServer}]]

(* A supervisor may take the exit code 0 of serve for a stop somebody      *)
(* asked for: a server whose task ended by itself exits with an error,     *)
(* although finish_task gives the result Ok to a task that failed before   *)
(* it looked.                                                              *)
SuccessMeansAsked == \A s \in Server : result[s] = "ok" => s \in asked

(* A task that breaks while serve awaits it is not passed over, although a *)
(* signal or a stop command asked for the end: serve returns the error.    *)
BrokenDrainIsReported ==
  [][\A s \in Server :
       (result[s] = "none" /\ result'[s] = "ok") =>
         /\ <<s, "ingress">> \in awaited => ingress[s] # "failed"
         /\ <<s, "control">> \in awaited => control[s] # "failed"]_commandVars

(* Once a stop command has returned because the descriptor is gone, the    *)
(* server it stopped answers no status command any more, whether that was  *)
(* begun before or after: the drain ends the control server before the     *)
(* file goes, and a server that starts later is another one.               *)
StoppedIsNotRunning ==
  [][\A q \in Status, k \in Stopper :
       (/\ status[q].at = "listing" /\ status'[q].at = "running"
        /\ stop[k].at = "stopped")
       => status[q].server # stop[k].server]_commandVars

(* The invariant behind the first two: nobody but a signal or a stop       *)
(* command brings a server that has not begun to drain to end well, ...    *)
NotDraining == {"new", "locked", "bound", "written", "cleared", "running"}

AskedFirst ==
  \A s \in Server :
    /\ s \in cancelled /\ pc[s] \in NotDraining => s \in asked
    /\ primary[s] = "ok" => s \in asked

(* ... and the failure of a task that was awaited is on record once serve  *)
(* has gone past it.                                                       *)
FailuresRecorded ==
  \A s \in Server :
    /\ pc[s] \in {"draining_control", "removing", "removed"} =>
         (<<s, "ingress">> \in awaited /\ ingress[s] = "failed" => s \in failure)
    /\ pc[s] \in {"removing", "removed"} =>
         /\ control[s] # "serving"
         /\ <<s, "control">> \in awaited /\ control[s] = "failed" => s \in failure

CommandsInvariant ==
  /\ LifecycleInvariant
  /\ CommandsTypeOK
  /\ AskedFirst
  /\ SuccessMeansAsked
  /\ FailuresRecorded

-----------------------------------------------------------------------------
(* Statements of the repository that the code does not keep.               *)

(* tests/cli_flow.rs:196 asserts that a stopped server exits with success, *)
(* and src/control.rs:84 promises "the same graceful shutdown as a         *)
(* termination signal".  The select may find the cancelled ingress task    *)
(* finished before it looks at the token, and calls that unexpected.       *)
StoppedExitsClean ==
  [][\A s \in Server :
       (/\ s \in asked /\ primary[s] # "no_signals" /\ pc[s] = "removed"
        /\ "failed" \notin {ingress[s], control[s]})
       => result'[s] # "error"]_commandVars

(* src/cli.rs:106: status reports "whether a server is running", but takes *)
(* one that drains, with its control server gone first, for none.          *)
StatusSeesDrainingServer ==
  [][\A q \in Status :
       (/\ status[q].at = "asking" /\ status'[q].at = "stale"
        /\ control[status[q].server] = "finished")
       => pc[status[q].server] \notin Published]_commandVars
=============================================================================
