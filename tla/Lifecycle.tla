----------------------------- MODULE Lifecycle -----------------------------
(***************************************************************************)
(* The life of `hmux serve` processes that share one instance directory    *)
(* (src/server.rs, src/runtime.rs) and of the `hmux stop` commands that    *)
(* end them (src/cli.rs).                                                  *)
(*                                                                         *)
(* The directory holds the instance lock, which the kernel gives up with   *)
(* its process, the control descriptor, which stays behind after a crash,  *)
(* and temporary files.  A process may crash between any two steps.        *)
(***************************************************************************)
EXTENDS Naturals

CONSTANTS
  Server,      (* Serve processes, each started once.                      *)
  Stopper,     (* Stop commands, each run once.                            *)
  NoServer     (* No holder, no descriptor, no target.                     *)

ASSUME LifecycleAssumption == NoServer \notin Server

VARIABLES
  platform,    (* Whether rename replaces a file: "unix", or "other".      *)
  lock,        (* The process that holds instance.lock.                    *)
  descriptor,  (* The process that control.json describes.                 *)
  temporary,   (* Processes whose temporary descriptor file exists.        *)
  pc,          (* Where serve is, for each process.                        *)
  cancelled,   (* Processes whose CancellationToken is cancelled.          *)
  ingress,     (* The HTTP server tasks: "none", "serving", "finished",    *)
  control,     (* or "failed" when they ended without being told to.       *)
  webhook,     (* A request in flight: "none", "reading", "delivering".    *)
  pending,     (* Processes with a control request in flight.              *)
  ended,       (* "unclean" after a crash or a failed removal of a file,   *)
               (* else "clean" once the process ended, and "no" before.    *)
  stop         (* Each stop command: its step and the server it stops.     *)

directoryVars == <<lock, descriptor, temporary>>
taskVars == <<cancelled, ingress, control, webhook, pending>>
vars == <<platform, directoryVars, pc, taskVars, ended, stop>>

(* Places of serve at which the process holds the lock, and those at which *)
(* it also has published its descriptor.                                   *)
Published == {"running", "draining_ingress", "draining_control", "removing"}
HoldsLock == {"locked", "bound", "written", "cleared", "removed"} \cup Published
Place == {"new", "exited"} \cup HoldsLock

TaskState == {"none", "serving", "finished", "failed"}
StopPlace == {"new", "connected", "waiting", "stopped", "gave_up", "failed"}

NoStop == [at |-> "new", server |-> NoServer]

-----------------------------------------------------------------------------
Init ==
  /\ platform \in {"unix", "other"}
  /\ lock = NoServer
  /\ descriptor = NoServer
  /\ temporary = {}
  /\ pc = [s \in Server |-> "new"]
  /\ cancelled = {}
  /\ ingress = [s \in Server |-> "none"]
  /\ control = [s \in Server |-> "none"]
  /\ webhook = [s \in Server |-> "none"]
  /\ pending = {}
  /\ ended = [s \in Server |-> "no"]
  /\ stop = [k \in Stopper |-> NoStop]

(* A lock that is a file of its own and outlives its process.              *)
EndProcessKeepingLock(s, how) ==
  /\ pc' = [pc EXCEPT ![s] = "exited"]
  /\ ended' = [ended EXCEPT ![s] = how]
  /\ ingress' = [ingress EXCEPT ![s] = "none"]
  /\ control' = [control EXCEPT ![s] = "none"]
  /\ webhook' = [webhook EXCEPT ![s] = "none"]
  /\ pending' = pending \ {s}
  /\ UNCHANGED <<platform, lock, cancelled, stop>>

(* The process ends: its lock, its tasks and its connections end with it.  *)
EndProcess(s, how) ==
  /\ pc' = [pc EXCEPT ![s] = "exited"]
  /\ ended' = [ended EXCEPT ![s] = how]
  /\ lock' = IF lock = s THEN NoServer ELSE lock
  /\ ingress' = [ingress EXCEPT ![s] = "none"]
  /\ control' = [control EXCEPT ![s] = "none"]
  /\ webhook' = [webhook EXCEPT ![s] = "none"]
  /\ pending' = pending \ {s}
  /\ UNCHANGED <<platform, cancelled, stop>>

Goto(s, place) == pc' = [pc EXCEPT ![s] = place]

(* A guard that is dropped at once, as by `let _ =`.                       *)
AcquireAndDropLock(s) ==
  /\ pc[s] = "new"
  /\ lock = NoServer
  /\ Goto(s, "locked")
  /\ UNCHANGED <<platform, directoryVars, taskVars, ended, stop>>

(* acquire_instance_lock: try_lock never waits.                            *)
AcquireInstanceLock(s) ==
  /\ pc[s] = "new"
  /\ lock = NoServer
  /\ lock' = s
  /\ Goto(s, "locked")
  /\ UNCHANGED <<platform, descriptor, temporary, taskVars, ended, stop>>

AlreadyRunning(s) ==
  /\ pc[s] = "new"
  /\ lock # NoServer
  /\ EndProcess(s, "clean")
  /\ UNCHANGED <<descriptor, temporary>>

(* Both listeners; the ingress port is fixed and may be taken.  prepare,   *)
(* open and the HTTP client may fail as well.                              *)
BindListeners(s) ==
  /\ pc[s] = "locked"
  /\ Goto(s, "bound")
  /\ UNCHANGED <<platform, directoryVars, taskVars, ended, stop>>

StartupFails(s) ==
  /\ pc[s] \in {"new", "locked", "bound"}
  /\ EndProcess(s, "clean")
  /\ UNCHANGED <<descriptor, temporary>>

(* write_descriptor: a complete temporary file, then replace_descriptor.   *)
WriteTemporary(s) ==
  /\ pc[s] = "bound"
  /\ temporary' = temporary \cup {s}
  /\ Goto(s, "written")
  /\ UNCHANGED <<platform, lock, descriptor, taskVars, ended, stop>>

RemovePrevious(s) ==
  /\ pc[s] = "written"
  /\ platform = "other"
  /\ descriptor' = NoServer
  /\ Goto(s, "cleared")
  /\ UNCHANGED <<platform, lock, temporary, taskVars, ended, stop>>

(* The rename; serve then spawns both HTTP servers without an await.       *)
PublishDescriptor(s) ==
  /\ \/ pc[s] = "written" /\ platform = "unix"
     \/ pc[s] = "cleared"
  /\ descriptor' = s
  /\ temporary' = temporary \ {s}
  /\ Goto(s, "running")
  /\ ingress' = [ingress EXCEPT ![s] = "serving"]
  /\ control' = [control EXCEPT ![s] = "serving"]
  /\ UNCHANGED <<platform, lock, cancelled, webhook, pending, ended,
                 stop>>

(* A failed write, removal or rename: the temporary file is removed, and   *)
(* an error of that removal is ignored.                                    *)
PublishFails(s) ==
  /\ pc[s] \in {"written", "cleared"}
  /\ \/ temporary' = temporary \ {s} /\ EndProcess(s, "clean")
     \/ temporary' = temporary /\ EndProcess(s, "unclean")
  /\ UNCHANGED descriptor

-----------------------------------------------------------------------------
(* The HTTP servers.                                                       *)

AcceptWebhook(s) ==
  /\ ingress[s] = "serving"
  /\ s \notin cancelled
  /\ webhook[s] = "none"
  /\ webhook' = [webhook EXCEPT ![s] = "reading"]
  /\ UNCHANGED <<platform, directoryVars, pc, cancelled, ingress, control,
                 pending, ended, stop>>

(* The sender completes its body, which nothing puts a limit of time on.   *)
ReadBody(s) ==
  /\ webhook[s] = "reading"
  /\ webhook' = [webhook EXCEPT ![s] = "delivering"]
  /\ UNCHANGED <<platform, directoryVars, pc, cancelled, ingress, control,
                 pending, ended, stop>>

(* The webhook is answered, within target_timeout of its deliveries.       *)
AnswerWebhook(s) ==
  /\ webhook[s] = "delivering"
  /\ webhook' = [webhook EXCEPT ![s] = "none"]
  /\ UNCHANGED <<platform, directoryVars, pc, cancelled, ingress, control,
                 pending, ended, stop>>

(* The sender disconnects, or its body is refused.                         *)
AbandonWebhook(s) ==
  /\ webhook[s] # "none"
  /\ webhook' = [webhook EXCEPT ![s] = "none"]
  /\ UNCHANGED <<platform, directoryVars, pc, cancelled, ingress, control,
                 pending, ended, stop>>

(* A control request comes in, and comes to its end when its client has    *)
(* completed it and taken the answer, or has gone away.  The registry does *)
(* not keep it, but create_lease awaits a body without a limit of time.    *)
AcceptControl(s) ==
  /\ control[s] = "serving"
  /\ s \notin cancelled
  /\ s \notin pending
  /\ pending' = pending \cup {s}
  /\ UNCHANGED <<platform, directoryVars, pc, cancelled, ingress, control,
                 webhook, ended, stop>>

EndControl(s) ==
  /\ s \in pending
  /\ pending' = pending \ {s}
  /\ UNCHANGED <<platform, directoryVars, pc, cancelled, ingress, control,
                 webhook, ended, stop>>

(* with_graceful_shutdown: a cancelled server ends with its last request.  *)
IngressFinishes(s) ==
  /\ ingress[s] = "serving"
  /\ s \in cancelled
  /\ webhook[s] = "none"
  /\ ingress' = [ingress EXCEPT ![s] = "finished"]
  /\ UNCHANGED <<platform, directoryVars, pc, cancelled, control, webhook,
                 pending, ended, stop>>

ControlFinishes(s) ==
  /\ control[s] = "serving"
  /\ s \in cancelled
  /\ s \notin pending
  /\ control' = [control EXCEPT ![s] = "finished"]
  /\ UNCHANGED <<platform, directoryVars, pc, cancelled, ingress, webhook,
                 pending, ended, stop>>

(* A server task ends with an error or a panic.                            *)
IngressFails(s) ==
  /\ ingress[s] = "serving"
  /\ ingress' = [ingress EXCEPT ![s] = "failed"]
  /\ UNCHANGED <<platform, directoryVars, pc, cancelled, control, webhook,
                 pending, ended, stop>>

ControlFails(s) ==
  /\ control[s] = "serving"
  /\ control' = [control EXCEPT ![s] = "failed"]
  /\ UNCHANGED <<platform, directoryVars, pc, cancelled, ingress, webhook,
                 pending, ended, stop>>

-----------------------------------------------------------------------------
(* The select of serve and what follows it.                                *)

(* A select arm that forgets cancellation.cancel().                        *)
DrainUncancelled(s) ==
  /\ Goto(s, "draining_ingress")
  /\ UNCHANGED <<platform, directoryVars, taskVars, ended, stop>>

Drain(s) ==
  /\ Goto(s, "draining_ingress")
  /\ cancelled' = cancelled \cup {s}
  /\ UNCHANGED <<platform, directoryVars, ingress, control, webhook, pending, ended,
                 stop>>

(* A termination signal, or an error of the signal handler.                *)
Signal(s) ==
  /\ pc[s] = "running"
  /\ Drain(s)

(* Cancelled through the control API, or a server task has ended.          *)
Wake(s) ==
  /\ pc[s] = "running"
  /\ \/ s \in cancelled
     \/ ingress[s] # "serving"
     \/ control[s] # "serving"
  /\ Drain(s)

(* An ingress task that is not awaited.                                    *)
SkipIngress(s) ==
  /\ pc[s] = "draining_ingress"
  /\ Goto(s, "draining_control")
  /\ UNCHANGED <<platform, directoryVars, taskVars, ended, stop>>

(* finish_task, twice.                                                     *)
FinishIngress(s) ==
  /\ pc[s] = "draining_ingress"
  /\ ingress[s] # "serving"
  /\ Goto(s, "draining_control")
  /\ UNCHANGED <<platform, directoryVars, taskVars, ended, stop>>

(* A `?` on the result of a task before the descriptor is removed.         *)
FinishControlOrReturn(s) ==
  /\ pc[s] = "draining_control"
  /\ control[s] # "serving"
  /\ \/ /\ control[s] = "finished"
        /\ Goto(s, "removing")
        /\ UNCHANGED <<platform, directoryVars, taskVars, ended, stop>>
     \/ /\ control[s] = "failed"
        /\ EndProcess(s, "clean")
        /\ UNCHANGED <<descriptor, temporary>>

(* A control task that is not awaited.                                     *)
SkipControl(s) ==
  /\ pc[s] = "draining_control"
  /\ Goto(s, "removing")
  /\ UNCHANGED <<platform, directoryVars, taskVars, ended, stop>>

FinishControl(s) ==
  /\ pc[s] = "draining_control"
  /\ control[s] # "serving"
  /\ Goto(s, "removing")
  /\ UNCHANGED <<platform, directoryVars, taskVars, ended, stop>>

(* remove_file removes whatever is there; an error is only logged.         *)
RemoveDescriptor(s) ==
  /\ pc[s] = "removing"
  /\ \/ descriptor' = NoServer /\ UNCHANGED ended
     \/ UNCHANGED descriptor /\ ended' = [ended EXCEPT ![s] = "unclean"]
  /\ Goto(s, "removed")
  /\ UNCHANGED <<platform, lock, temporary, taskVars, stop>>

(* serve returns and _instance_lock goes out of scope.                     *)
Exit(s) ==
  /\ pc[s] = "removed"
  /\ EndProcess(s, IF ended[s] = "unclean" THEN "unclean" ELSE "clean")
  /\ UNCHANGED <<descriptor, temporary>>

Crash(s) ==
  /\ pc[s] \in HoldsLock
  /\ EndProcess(s, "unclean")
  /\ UNCHANGED <<descriptor, temporary>>

-----------------------------------------------------------------------------
(* run_stop.                                                               *)

SetStop(k, at, server) ==
  /\ stop' = [stop EXCEPT ![k] = [at |-> at, server |-> server]]
  /\ UNCHANGED <<platform, directoryVars, pc, ingress, control, webhook, pending,
                 ended>>

(* ControlClient::connect only reads the descriptor.                       *)
StopConnect(k) ==
  /\ stop[k].at = "new"
  /\ IF descriptor = NoServer THEN SetStop(k, "failed", NoServer)
                              ELSE SetStop(k, "connected", descriptor)
  /\ UNCHANGED cancelled

(* A shutdown_server that answers and does not cancel.                     *)
StopPostUnheeded(k) ==
  /\ stop[k].at = "connected"
  /\ control[stop[k].server] = "serving"
  /\ SetStop(k, "waiting", stop[k].server)
  /\ UNCHANGED cancelled

(* The POST reaches shutdown_server, which cancels the token.              *)
StopPost(k) ==
  /\ stop[k].at = "connected"
  /\ control[stop[k].server] = "serving"
  /\ SetStop(k, "waiting", stop[k].server)
  /\ cancelled' = cancelled \cup {stop[k].server}

(* It does not, or its answer is lost: in that case it may have arrived.   *)
StopPostFails(k) ==
  /\ stop[k].at = "connected"
  /\ SetStop(k, "failed", stop[k].server)
  /\ \/ UNCHANGED cancelled
     \/ /\ control[stop[k].server] = "serving"
        /\ cancelled' = cancelled \cup {stop[k].server}

(* descriptor_path().exists() is polled until it is false or the deadline  *)
(* STOP_WAIT_TIMEOUT passes.                                               *)
StopSeesNoDescriptor(k) ==
  /\ stop[k].at = "waiting"
  /\ descriptor = NoServer
  /\ SetStop(k, "stopped", stop[k].server)
  /\ UNCHANGED cancelled

StopGivesUp(k) ==
  /\ stop[k].at = "waiting"
  /\ descriptor # NoServer
  /\ SetStop(k, "gave_up", stop[k].server)
  /\ UNCHANGED cancelled

-----------------------------------------------------------------------------
(* The steps the process takes by itself once it was told to stop.         *)
ShutdownStep(s) ==
  \/ Wake(s)
  \/ FinishIngress(s)
  \/ FinishControl(s)
  \/ RemoveDescriptor(s)
  \/ Exit(s)

ServerStep(s) ==
  \/ AcquireInstanceLock(s)
  \/ AlreadyRunning(s)
  \/ BindListeners(s)
  \/ StartupFails(s)
  \/ WriteTemporary(s)
  \/ RemovePrevious(s)
  \/ PublishDescriptor(s)
  \/ PublishFails(s)
  \/ AcceptWebhook(s)
  \/ ReadBody(s)
  \/ AnswerWebhook(s)
  \/ AbandonWebhook(s)
  \/ AcceptControl(s)
  \/ EndControl(s)
  \/ IngressFinishes(s)
  \/ ControlFinishes(s)
  \/ IngressFails(s)
  \/ ControlFails(s)
  \/ Signal(s)
  \/ ShutdownStep(s)
  \/ Crash(s)

StopStep(k) ==
  \/ StopConnect(k)
  \/ StopPost(k)
  \/ StopPostFails(k)
  \/ StopSeesNoDescriptor(k)
  \/ StopGivesUp(k)

Next ==
  \/ \E s \in Server : ServerStep(s)
  \/ \E k \in Stopper : StopStep(k)

Spec == Init /\ [][Next]_vars

(* The runtime schedules serve and its tasks, and target_timeout ends the  *)
(* deliveries.  Nothing is assumed of the sender of a webhook or of the    *)
(* client of a control request: neither has to complete it.                *)
FairSpec ==
  /\ Spec
  /\ \A s \in Server : /\ WF_vars(ShutdownStep(s))
                       /\ WF_vars(AnswerWebhook(s))
                       /\ WF_vars(IngressFinishes(s))
                       /\ WF_vars(ControlFinishes(s))

-----------------------------------------------------------------------------
(* The type of every variable; the lock is that of a living process, which *)
(* the next start relies on: the kernel gives it up with its process.      *)
TypeOK ==
  /\ platform \in {"unix", "other"}
  /\ lock \in {s \in Server : pc[s] \in HoldsLock} \cup {NoServer}
  /\ descriptor \in Server \cup {NoServer}
  /\ temporary \subseteq Server
  /\ pc \in [Server -> Place]
  /\ cancelled \subseteq Server
  /\ ingress \in [Server -> TaskState]
  /\ control \in [Server -> TaskState]
  /\ webhook \in [Server -> {"none", "reading", "delivering"}]
  /\ pending \subseteq Server
  /\ ended \in [Server -> {"no", "clean", "unclean"}]
  /\ stop \in [Stopper -> [at: StopPlace, server: Server \cup {NoServer}]]

(* Clients find the server that runs: while a server accepts work or       *)
(* drains, the descriptor on disk is its own, whatever crashes, restarts   *)
(* and other starts on the same instance happen around it.                 *)
RunningIsPublished ==
  \A s \in Server : pc[s] \in Published => descriptor = s

(* docs/architecture.md: the descriptor "is removed after a graceful       *)
(* server shutdown. It may remain after an unclean exit"; the same holds   *)
(* of the temporary file it is written through.                            *)
LeftoversOnlyAfterUncleanExit ==
  \A s \in Server :
    (pc[s] = "exited" /\ ended[s] = "clean") =>
      descriptor # s /\ s \notin temporary

(* When stop returns because the descriptor is gone, the server it stopped *)
(* has no request in flight any more, unless the task it came to had       *)
(* failed.                                                                 *)
StopMeansDrained ==
  \A k \in Stopper :
    stop[k].at = "stopped" =>
      LET s == stop[k].server IN
      /\ pc[s] \in {"removed", "exited"}
      /\ ingress[s] # "failed" => webhook[s] = "none"
      /\ control[s] # "failed" => s \notin pending

(* The invariant behind these three: the places that count as published    *)
(* are reached by the lock's holder alone, tasks are finished in order,    *)
(* and a stop command only ever waits for a server that was published.     *)
LockIsHeld == \A s \in Server : pc[s] \in HoldsLock => lock = s

DrainedInOrder ==
  \A s \in Server :
    /\ pc[s] \notin Published \cup {"removed"} =>
         ingress[s] = "none" /\ control[s] = "none"
    /\ pc[s] \in {"draining_control", "removing", "removed"} =>
         ingress[s] # "serving"
    /\ pc[s] \in {"removing", "removed"} => control[s] # "serving"
    /\ ingress[s] \in {"none", "finished"} => webhook[s] = "none"
    /\ control[s] \in {"none", "finished"} => s \notin pending

FilesHaveOwners ==
  \A s \in Server :
    /\ descriptor = s =>
         \/ pc[s] \in Published
         \/ pc[s] \in {"removed", "exited"} /\ ended[s] = "unclean"
    /\ s \in temporary =>
         \/ pc[s] \in {"written", "cleared"}
         \/ pc[s] = "exited" /\ ended[s] = "unclean"

StopHasTarget ==
  \A k \in Stopper :
    /\ stop[k].at \in {"connected", "waiting"} =>
         /\ stop[k].server \in Server
         /\ pc[stop[k].server] \in Published \cup {"removed", "exited"}
    /\ stop[k].at = "stopped" =>
         /\ stop[k].server \in Server
         /\ pc[stop[k].server] \in {"removed", "exited"}

LifecycleInvariant ==
  /\ TypeOK
  /\ LockIsHeld
  /\ RunningIsPublished
  /\ DrainedInOrder
  /\ FilesHaveOwners
  /\ StopHasTarget

(* A request of which some body is not complete, at either port.           *)
HeldByClient(s) == webhook[s] = "reading" \/ s \in pending

(* A server that was told to stop, by whatever arm of its select, exits,   *)
(* unless from then on clients hold it for ever in requests that they do   *)
(* not complete: its deliveries, its other tasks, a task that failed and a *)
(* descriptor that cannot be removed do not hold it up.                    *)
ShutdownCompletes ==
  \A s \in Server :
    s \in cancelled \/ pc[s] = "draining_ingress" ~>
      pc[s] = "exited" \/ []HeldByClient(s)

(* A stop command that ends with success, also the one that gave up after  *)
(* STOP_WAIT_TIMEOUT, was not in vain: its server exits, unless clients    *)
(* hold it for ever in requests that they do not complete.                 *)
StopTakesEffect ==
  \A k \in Stopper, s \in Server :
    (stop[k].server = s /\ stop[k].at \in {"stopped", "gave_up"}) ~>
      pc[s] = "exited" \/ []HeldByClient(s)

-----------------------------------------------------------------------------
(* Statements of the documentation that the code does not keep.            *)

(* README.md:103-105: stop "waits until in-flight deliveries have drained  *)
(* and the server has exited".                                             *)
StopWaitsForExit ==
  \A k \in Stopper :
    stop[k].at = "stopped" => pc[stop[k].server] = "exited"

(* docs/control-protocol.md:132-133: after a shutdown request the server   *)
(* "finishes in-flight deliveries, removes the control descriptor, and     *)
(* exits".  A client that does not complete a request holds it for ever.   *)
ShutdownAlwaysExits ==
  \A s \in Server : s \in cancelled ~> pc[s] = "exited"
=============================================================================
