-------------------------- MODULE Commands_proofs --------------------------
(***************************************************************************)
(* Proofs about what the commands report, for any number of serve          *)
(* processes, stop commands and status commands.                           *)
(***************************************************************************)
EXTENDS Commands, Lifecycle_proofs

(* Commands adds to the steps of Lifecycle and changes none of them.       *)
LEMMA StepsOfLifecycle ==
  ASSUME [CommandsNext]_commandVars
  PROVE  [Next]_vars
<1>1. ASSUME NEW s \in Server, ServeStep(s)
      PROVE  ServerStep(s)
  BY <1>1 DEF ServeStep, SelectSignal, SelectCancelled, SelectTask,
              FinishIngressTask, FinishControlTask, ServeReturns, StartFails,
              Dies, OtherServerStep, ServerStep, ShutdownStep
<1>2. ASSUME NEW k \in Stopper, StopCommand(k)
      PROVE  StopStep(k)
  BY <1>2 DEF StopCommand
<1>3. ASSUME NEW q \in Status, StatusStep(q)
      PROVE  UNCHANGED vars
  BY <1>3 DEF StatusStep, StatusRead, StatusAnswered, StatusUnreachable,
              StatusTimesOut, StatusRejected, StatusLists, StatusListFails,
              SetStatus
<1>4. CASE UNCHANGED commandVars
  BY <1>4 DEF commandVars
<1> QED
  BY <1>1, <1>2, <1>3, <1>4 DEF CommandsNext, Next

LEMMA CommandsLifecycle == CommandsSpec => []LifecycleInvariant
<1>1. CommandsInit => LifecycleInvariant
  BY InvariantInit DEF CommandsInit
<1>2. LifecycleInvariant /\ [CommandsNext]_commandVars => LifecycleInvariant'
  BY StepsOfLifecycle, InvariantStep
<1> QED
  BY <1>1, <1>2, PTL DEF CommandsSpec

-----------------------------------------------------------------------------
(* What Commands adds, without the part that LifecycleInvariant says.      *)
PrimaryInDrain == \A s \in Server : primary[s] # "none" <=> pc[s] \in Draining

Reports ==
  /\ primary \in [Server -> {"none", "ok", "no_signals", "task_stopped"}]
  /\ PrimaryInDrain
  /\ awaited \subseteq Server \X {"ingress", "control"}
  /\ failure \subseteq Server
  /\ result \in [Server -> {"none", "ok", "error"}]
  /\ asked \subseteq Server
  /\ status \in [Status -> [at: StatusPlace, server: Server \cup {NoServer}]]
  /\ AskedFirst
  /\ SuccessMeansAsked
  /\ FailuresRecorded

(* A process that ends, whatever it returns.                               *)
LEMMA EndKeepsReports ==
  ASSUME LifecycleInvariant, Reports, NEW s \in Server, NEW how,
         EndProcess(s, how), Forget(s),
         \/ UNCHANGED result
         \/ \E value \in {"ok", "error"} :
              /\ result' = [result EXCEPT ![s] = value]
              /\ value = "ok" => primary[s] = "ok"
  PROVE  Reports'
<1> USE DEF LifecycleInvariant, TypeOK, Reports, EndProcess, Forget
<1>1. AskedFirst'
  BY DEF AskedFirst, NotDraining
<1>2. SuccessMeansAsked'
  BY DEF AskedFirst, SuccessMeansAsked
<1>4. PrimaryInDrain'
  BY DEF PrimaryInDrain, Draining
<1>3. FailuresRecorded'
  <2>1. ASSUME NEW t \in Server, t # s
        PROVE  /\ pc'[t] = pc[t] /\ ingress'[t] = ingress[t]
               /\ control'[t] = control[t]
               /\ t \in failure' <=> t \in failure
               /\ <<t, "ingress">> \in awaited' <=> <<t, "ingress">> \in awaited
               /\ <<t, "control">> \in awaited' <=> <<t, "control">> \in awaited
    BY <2>1
  <2>2. pc'[s] = "exited"
    OBVIOUS
  <2> QED
    BY <2>1, <2>2 DEF FailuresRecorded
<1> QED
  BY <1>1, <1>2, <1>3, <1>4

(* The steps that only Lifecycle knows of.                                 *)
LEMMA OtherKeepsReports ==
  ASSUME LifecycleInvariant, Reports, NEW s \in Server, OtherServerStep(s)
  PROVE  Reports'
<1> USE DEF LifecycleInvariant, TypeOK, Reports
<1>1. UNCHANGED <<primary, awaited, failure, result, asked, status>>
  BY DEF OtherServerStep, exitVars
<1>2. /\ cancelled' = cancelled
      /\ \A t \in Server :
           /\ pc'[t] \in NotDraining => pc[t] \in NotDraining
           /\ pc'[t] \in Draining <=> pc[t] \in Draining
           /\ pc'[t] \in {"draining_control", "removing", "removed"} =>
                /\ pc[t] \in {"draining_control", "removing", "removed"}
                /\ ingress'[t] = ingress[t]
           /\ pc'[t] \in {"removing", "removed"} =>
                /\ pc[t] \in {"removing", "removed"}
                /\ control'[t] = control[t]
  <2> USE DEF NotDraining, Draining, Goto, taskVars
  <2>1. CASE AcquireInstanceLock(s) \/ BindListeners(s) \/ WriteTemporary(s)
             \/ RemovePrevious(s) \/ PublishDescriptor(s)
    BY <2>1 DEF AcquireInstanceLock, BindListeners, WriteTemporary,
                RemovePrevious, PublishDescriptor
  <2>2. CASE AcceptWebhook(s) \/ ReadBody(s) \/ AnswerWebhook(s)
             \/ AbandonWebhook(s)
    BY <2>2 DEF AcceptWebhook, ReadBody, AnswerWebhook, AbandonWebhook
  <2>6. CASE AcceptControl(s) \/ EndControl(s)
    BY <2>6 DEF AcceptControl, EndControl
  <2>3. CASE IngressFinishes(s) \/ IngressFails(s)
    <3>1. pc[s] \notin {"draining_control", "removing", "removed"}
      BY <2>3 DEF IngressFinishes, IngressFails, DrainedInOrder
    <3> QED
      BY <2>3, <3>1 DEF IngressFinishes, IngressFails
  <2>4. CASE ControlFinishes(s) \/ ControlFails(s)
    <3>1. pc[s] \notin {"removing", "removed"}
      BY <2>4 DEF ControlFinishes, ControlFails, FailuresRecorded
    <3> QED
      BY <2>4, <3>1 DEF ControlFinishes, ControlFails
  <2>5. CASE RemoveDescriptor(s)
    BY <2>5 DEF RemoveDescriptor
  <2> QED
    BY <2>1, <2>2, <2>3, <2>4, <2>5, <2>6 DEF OtherServerStep
<1>3. AskedFirst'
  BY <1>1, <1>2 DEF AskedFirst
<1>4. FailuresRecorded'
  BY <1>1, <1>2 DEF FailuresRecorded
<1>5. PrimaryInDrain'
  BY <1>1, <1>2 DEF PrimaryInDrain
<1> QED
  BY <1>1, <1>3, <1>4, <1>5 DEF SuccessMeansAsked

(* An arm of the select is taken.                                          *)
LEMMA SelectKeepsReports ==
  ASSUME LifecycleInvariant, Reports, NEW s \in Server,
         SelectSignal(s) \/ SelectCancelled(s) \/ SelectTask(s)
  PROVE  Reports'
<1> USE DEF LifecycleInvariant, TypeOK, Reports
<1>1. PICK value \in {"ok", "no_signals", "task_stopped"} :
        /\ pc[s] = "running"
        /\ Drain(s)
        /\ Select(s, value)
        /\ asked \subseteq asked' /\ asked' \subseteq Server
        /\ value = "ok" => s \in asked'
  <2>1. ASSUME SelectSignal(s)
        PROVE  \E value \in {"ok", "no_signals"} :
                 /\ Signal(s)
                 /\ Select(s, value)
                 /\ asked \subseteq asked' /\ asked' \subseteq Server
                 /\ value = "ok" => s \in asked'
    BY <2>1 DEF SelectSignal
  <2>2. ASSUME SelectCancelled(s)
        PROVE  /\ Wake(s)
               /\ Select(s, "ok")
               /\ asked' = asked
               /\ s \in asked
    BY <2>2 DEF SelectCancelled, Wake, AskedFirst, NotDraining
  <2>3. ASSUME SelectTask(s)
        PROVE  Wake(s) /\ Select(s, "task_stopped") /\ asked' = asked
    BY <2>3 DEF SelectTask
  <2> QED
    BY <2>1, <2>2, <2>3 DEF Signal, Wake
<1>2. /\ pc' = [pc EXCEPT ![s] = "draining_ingress"]
      /\ cancelled' = cancelled \cup {s}
      /\ UNCHANGED <<ingress, control>>
      /\ primary' = [primary EXCEPT ![s] = value]
      /\ awaited \subseteq awaited'
      /\ awaited' \subseteq awaited \cup {<<s, "ingress">>}
      /\ UNCHANGED <<failure, result, status>>
  BY <1>1 DEF Drain, Goto, Select, FinishTask
<1>3. AskedFirst'
  BY <1>1, <1>2 DEF AskedFirst, NotDraining
<1>4. SuccessMeansAsked'
  BY <1>1, <1>2 DEF SuccessMeansAsked
<1>5. FailuresRecorded'
  <2>1. \A t \in Server : t # s =>
          /\ <<t, "ingress">> \in awaited' => <<t, "ingress">> \in awaited
          /\ <<t, "control">> \in awaited' => <<t, "control">> \in awaited
    BY <1>2
  <2> QED
    BY <1>2, <2>1 DEF FailuresRecorded
<1>6. PrimaryInDrain'
  BY <1>1, <1>2 DEF PrimaryInDrain, Draining
<1> QED
  BY <1>1, <1>2, <1>3, <1>4, <1>5, <1>6

(* serve goes past a task: what it has to say about it is on record.       *)
LEMMA FinishKeepsReports ==
  ASSUME LifecycleInvariant, Reports, NEW s \in Server,
         FinishIngressTask(s) \/ FinishControlTask(s)
  PROVE  Reports'
<1> USE DEF LifecycleInvariant, TypeOK, Reports
<1>1. CASE FinishIngressTask(s)
  <2>1. /\ pc[s] = "draining_ingress"
        /\ pc' = [pc EXCEPT ![s] = "draining_control"]
        /\ UNCHANGED <<cancelled, ingress, control, primary, result, asked, status>>
        /\ awaited \subseteq awaited'
        /\ awaited' \subseteq awaited \cup {<<s, "control">>}
        /\ failure \subseteq failure' /\ failure' \subseteq failure \cup {s}
        /\ <<s, "ingress">> \in awaited /\ ingress[s] = "failed" => s \in failure'
    BY <1>1 DEF FinishIngressTask, FinishIngress, TaskResult, FinishTask, Goto,
                taskVars
  <2>2. AskedFirst' /\ SuccessMeansAsked'
    BY <2>1 DEF AskedFirst, SuccessMeansAsked, NotDraining
  <2>3. /\ <<s, "ingress">> \in awaited' => <<s, "ingress">> \in awaited
        /\ \A t \in Server : t # s =>
             /\ <<t, "ingress">> \in awaited' => <<t, "ingress">> \in awaited
             /\ <<t, "control">> \in awaited' => <<t, "control">> \in awaited
    BY <2>1
  <2>4. FailuresRecorded'
    BY <2>1, <2>3 DEF FailuresRecorded
  <2>5. PrimaryInDrain'
    BY <2>1 DEF PrimaryInDrain, Draining
  <2> QED
    BY <2>1, <2>2, <2>4, <2>5
<1>2. CASE FinishControlTask(s)
  <2>1. /\ pc[s] = "draining_control"
        /\ control[s] # "serving"
        /\ pc' = [pc EXCEPT ![s] = "removing"]
        /\ UNCHANGED <<cancelled, ingress, control, primary, awaited, result, asked,
                       status>>
        /\ failure \subseteq failure' /\ failure' \subseteq failure \cup {s}
        /\ <<s, "control">> \in awaited /\ control[s] = "failed" => s \in failure'
    BY <1>2 DEF FinishControlTask, FinishControl, TaskResult, Goto, taskVars
  <2>2. AskedFirst' /\ SuccessMeansAsked'
    BY <2>1 DEF AskedFirst, SuccessMeansAsked, NotDraining
  <2>3. FailuresRecorded'
    BY <2>1 DEF FailuresRecorded
  <2>5. PrimaryInDrain'
    BY <2>1 DEF PrimaryInDrain, Draining
  <2> QED
    BY <2>1, <2>2, <2>3, <2>5
<1> QED
  BY <1>1, <1>2

LEMMA StopKeepsReports ==
  ASSUME LifecycleInvariant, Reports, NEW k \in Stopper, StopCommand(k)
  PROVE  Reports'
<1> USE DEF LifecycleInvariant, TypeOK, Reports
<1>1. /\ UNCHANGED <<pc, ingress, control, primary, awaited, failure, result, status>>
      /\ asked' = asked \cup (cancelled' \ cancelled)
      /\ cancelled' \subseteq Server
  BY DEF StopCommand, StopStep, StopConnect, StopPost, StopPostFails,
         StopSeesNoDescriptor, StopGivesUp, SetStop, exitVars, StopHasTarget
<1>2. AskedFirst' /\ SuccessMeansAsked'
  BY <1>1 DEF AskedFirst, SuccessMeansAsked
<1>3. FailuresRecorded'
  BY <1>1 DEF FailuresRecorded
<1>4. PrimaryInDrain'
  BY <1>1 DEF PrimaryInDrain
<1> QED
  BY <1>1, <1>2, <1>3, <1>4

LEMMA StatusKeepsReports ==
  ASSUME LifecycleInvariant, Reports, NEW q \in Status, StatusStep(q)
  PROVE  Reports'
<1> USE DEF LifecycleInvariant, TypeOK, Reports
<1>1. \E at \in StatusPlace, server \in Server \cup {NoServer} :
        SetStatus(q, at, server)
  BY DEF StatusStep, StatusRead, StatusAnswered, StatusUnreachable,
         StatusTimesOut, StatusRejected, StatusLists, StatusListFails,
         StatusPlace
<1>2. /\ UNCHANGED <<pc, cancelled, ingress, control, primary, awaited, failure,
                     result, asked>>
      /\ status' \in [Status -> [at: StatusPlace, server: Server \cup {NoServer}]]
  BY <1>1 DEF SetStatus, vars, taskVars, exitVars
<1> QED
  BY <1>2 DEF AskedFirst, SuccessMeansAsked, FailuresRecorded, PrimaryInDrain

LEMMA ReportsStep ==
  ASSUME LifecycleInvariant, Reports, [CommandsNext]_commandVars
  PROVE  Reports'
<1>1. ASSUME NEW s \in Server, ServeReturns(s) \/ StartFails(s) \/ Dies(s)
      PROVE  Reports'
  <2>1. Forget(s) /\ \E how : EndProcess(s, how)
    BY <1>1 DEF ServeReturns, StartFails, Dies, Return, Exit, AlreadyRunning,
                StartupFails, PublishFails, Crash
  <2>2. \/ UNCHANGED result
        \/ \E value \in {"ok", "error"} :
             /\ result' = [result EXCEPT ![s] = value]
             /\ value = "ok" => primary[s] = "ok"
    BY <1>1 DEF ServeReturns, StartFails, Dies, Return, ServeResult
  <2> QED
    BY <2>1, <2>2, EndKeepsReports
<1>2. CASE UNCHANGED commandVars
  BY <1>2 DEF commandVars, vars, taskVars, exitVars, Reports, AskedFirst,
              SuccessMeansAsked, FailuresRecorded, PrimaryInDrain
<1> QED
  BY <1>1, <1>2, SelectKeepsReports, FinishKeepsReports, OtherKeepsReports,
     StopKeepsReports, StatusKeepsReports
  DEF CommandsNext, ServeStep

(* The invariant of Commands.tla holds of every reachable state.           *)
THEOREM CommandsInvariance == CommandsSpec => []CommandsInvariant
<1>1. CommandsInit => Reports
  BY DEF CommandsInit, Init, Reports, AskedFirst, SuccessMeansAsked,
         FailuresRecorded, StatusPlace, PrimaryInDrain, Draining
<1>2. CommandsSpec => []Reports
  BY <1>1, ReportsStep, CommandsLifecycle, PTL DEF CommandsSpec
<1>3. LifecycleInvariant /\ Reports => CommandsInvariant
  BY DEF LifecycleInvariant, Reports, CommandsInvariant, CommandsTypeOK, PrimaryInDrain
<1> QED
  BY <1>2, <1>3, CommandsLifecycle, PTL

(* Every variable of the commands keeps its type, and serve knows why it   *)
(* ends from the moment it begins to drain.                                *)
THEOREM CommandsTypeCorrect == CommandsSpec => []CommandsTypeOK
<1>1. CommandsInvariant => CommandsTypeOK
  BY DEF CommandsInvariant
<1> QED
  BY <1>1, CommandsInvariance, PTL

(* serve exits with success only when a signal or a stop command asked for *)
(* its end.                                                                *)
THEOREM SuccessWasAskedFor == CommandsSpec => []SuccessMeansAsked
<1>1. CommandsInvariant => SuccessMeansAsked
  BY DEF CommandsInvariant
<1> QED
  BY <1>1, CommandsInvariance, PTL

(* serve reports the failure of a task that broke while it was awaited.    *)
THEOREM BrokenDrainsAreReported == CommandsSpec => BrokenDrainIsReported
<1> DEFINE Reported(s) ==
      (result[s] = "none" /\ result'[s] = "ok") =>
        /\ <<s, "ingress">> \in awaited => ingress[s] # "failed"
        /\ <<s, "control">> \in awaited => control[s] # "failed"
<1>1. CommandsInvariant /\ [CommandsNext]_commandVars
        => [\A s \in Server : Reported(s)]_commandVars
  <2> SUFFICES ASSUME CommandsInvariant, CommandsNext, NEW s \in Server,
                      result[s] = "none", result'[s] = "ok"
               PROVE  /\ <<s, "ingress">> \in awaited => ingress[s] # "failed"
                      /\ <<s, "control">> \in awaited => control[s] # "failed"
    OBVIOUS
  <2>typed. result \in [Server -> {"none", "ok", "error"}]
    BY DEF CommandsInvariant, CommandsTypeOK
  <2>1. ASSUME NEW t \in Server, ServeReturns(t)
        PROVE  t = s /\ pc[s] = "removed" /\ s \notin failure
    BY <2>1, <2>typed DEF ServeReturns, Return, Exit, ServeResult
  <2>2. ASSUME NEW t \in Server, StartFails(t)
        PROVE  FALSE
    BY <2>2, <2>typed DEF StartFails, Return
  <2>3. ASSUME NEW t \in Server,
               \/ SelectSignal(t) \/ SelectCancelled(t) \/ SelectTask(t)
               \/ FinishIngressTask(t) \/ FinishControlTask(t)
               \/ Dies(t) \/ OtherServerStep(t)
        PROVE  UNCHANGED result
    BY <2>3 DEF SelectSignal, SelectCancelled, SelectTask, Select, FinishIngressTask,
                FinishControlTask, Dies, OtherServerStep, exitVars
  <2>4. ASSUME NEW k \in Stopper, StopCommand(k)
        PROVE  UNCHANGED result
    BY <2>4 DEF StopCommand, exitVars
  <2>5. ASSUME NEW q \in Status, StatusStep(q)
        PROVE  UNCHANGED result
    BY <2>5 DEF StatusStep, StatusRead, StatusAnswered, StatusUnreachable,
                StatusTimesOut, StatusRejected, StatusLists, StatusListFails,
                SetStatus, exitVars
  <2>6. pc[s] = "removed" /\ s \notin failure
    BY <2>1, <2>2, <2>3, <2>4, <2>5 DEF CommandsNext, ServeStep
  <2> QED
    BY <2>6 DEF CommandsInvariant, FailuresRecorded
<1> QED
  BY <1>1, CommandsInvariance, PTL DEF CommandsSpec, BrokenDrainIsReported

(* After a stop command has seen the descriptor go, no status command gets *)
(* an answer from the server it stopped.                                   *)
THEOREM StoppedServersAreNotRunning == CommandsSpec => StoppedIsNotRunning
<1> DEFINE NotRunning(q, k) ==
      (/\ status[q].at = "listing" /\ status'[q].at = "running"
       /\ stop[k].at = "stopped")
      => status[q].server # stop[k].server
<1>1. CommandsInvariant /\ [CommandsNext]_commandVars
        => [\A q \in Status, k \in Stopper : NotRunning(q, k)]_commandVars
  <2> SUFFICES ASSUME CommandsInvariant, CommandsNext,
                      NEW q \in Status, NEW k \in Stopper,
                      status[q].at = "listing", status'[q].at = "running",
                      stop[k].at = "stopped"
               PROVE  status[q].server # stop[k].server
    OBVIOUS
  <2>typed. status \in [Status -> [at: StatusPlace, server: Server \cup {NoServer}]]
    BY DEF CommandsInvariant, CommandsTypeOK
  <2>1. ASSUME NEW s \in Server, ServeStep(s)
        PROVE  UNCHANGED status
    BY <2>1 DEF ServeStep, SelectSignal, SelectCancelled, SelectTask, Select,
                FinishIngressTask, FinishControlTask, ServeReturns, StartFails,
                Dies, Return, Forget, OtherServerStep
  <2>2. ASSUME NEW j \in Stopper, StopCommand(j)
        PROVE  UNCHANGED status
    BY <2>2 DEF StopCommand
  <2>3. ASSUME NEW p \in Status, StatusStep(p)
        PROVE  control[status[q].server] = "serving"
    <3>1. ASSUME NEW at, NEW server, SetStatus(p, at, server)
          PROVE  p = q /\ at = "running"
      BY <3>1, <2>typed DEF SetStatus
    <3> QED
      BY <2>3, <3>1 DEF StatusStep, StatusRead, StatusAnswered, StatusUnreachable,
                        StatusTimesOut, StatusRejected, StatusLists,
                        StatusListFails
  <2>4. control[status[q].server] = "serving"
    BY <2>1, <2>2, <2>3 DEF CommandsNext
  <2>5. /\ stop[k].server \in Server
        /\ pc[stop[k].server] \in {"removed", "exited"}
    BY DEF CommandsInvariant, LifecycleInvariant, StopHasTarget
  <2>6. control[stop[k].server] # "serving"
    BY <2>5 DEF CommandsInvariant, LifecycleInvariant, DrainedInOrder, Published
  <2> QED
    BY <2>4, <2>6
<1> QED
  BY <1>1, CommandsInvariance, PTL DEF CommandsSpec, StoppedIsNotRunning
=============================================================================
