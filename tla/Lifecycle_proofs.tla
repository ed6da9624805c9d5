------------------------- MODULE Lifecycle_proofs -------------------------
(***************************************************************************)
(* Proofs about Lifecycle for any number of serve processes and of stop    *)
(* commands on one instance directory, on both kinds of platform.          *)
(***************************************************************************)
EXTENDS Lifecycle, TLAPS

(* The invariant of Lifecycle.tla is inductive.                            *)
LEMMA InvariantInit == Init => LifecycleInvariant
BY LifecycleAssumption
DEF Init, LifecycleInvariant, TypeOK, LockIsHeld, RunningIsPublished,
    DrainedInOrder, FilesHaveOwners, StopHasTarget, Place, HoldsLock,
    Published, TaskState, StopPlace, NoStop

LEMMA InvariantStep == LifecycleInvariant /\ [Next]_vars => LifecycleInvariant'
<1> SUFFICES ASSUME LifecycleInvariant, [Next]_vars
             PROVE  LifecycleInvariant'
  OBVIOUS
<1> USE LifecycleAssumption
    DEF LifecycleInvariant, TypeOK, LockIsHeld, RunningIsPublished,
        DrainedInOrder, FilesHaveOwners, StopHasTarget, Place, HoldsLock,
        Published, TaskState, StopPlace, directoryVars, taskVars
<1>1. ASSUME NEW s \in Server, AcquireInstanceLock(s)
      PROVE  LifecycleInvariant'
  BY <1>1 DEF AcquireInstanceLock, Goto
<1>2. ASSUME NEW s \in Server, AlreadyRunning(s)
      PROVE  LifecycleInvariant'
  BY <1>2 DEF AlreadyRunning, EndProcess
<1>3. ASSUME NEW s \in Server, BindListeners(s)
      PROVE  LifecycleInvariant'
  BY <1>3 DEF BindListeners, Goto
<1>4. ASSUME NEW s \in Server, StartupFails(s)
      PROVE  LifecycleInvariant'
  BY <1>4 DEF StartupFails, EndProcess
<1>5. ASSUME NEW s \in Server, WriteTemporary(s)
      PROVE  LifecycleInvariant'
  BY <1>5 DEF WriteTemporary, Goto
<1>6. ASSUME NEW s \in Server, RemovePrevious(s)
      PROVE  LifecycleInvariant'
  BY <1>6 DEF RemovePrevious, Goto
<1>7. ASSUME NEW s \in Server, PublishDescriptor(s)
      PROVE  LifecycleInvariant'
  BY <1>7 DEF PublishDescriptor, Goto
<1>8. ASSUME NEW s \in Server, PublishFails(s)
      PROVE  LifecycleInvariant'
  BY <1>8 DEF PublishFails, EndProcess
<1>9. ASSUME NEW s \in Server, AcceptWebhook(s)
      PROVE  LifecycleInvariant'
  BY <1>9 DEF AcceptWebhook
<1>10. ASSUME NEW s \in Server, ReadBody(s)
      PROVE  LifecycleInvariant'
  BY <1>10 DEF ReadBody
<1>11. ASSUME NEW s \in Server, AnswerWebhook(s)
      PROVE  LifecycleInvariant'
  BY <1>11 DEF AnswerWebhook
<1>12. ASSUME NEW s \in Server, AbandonWebhook(s)
      PROVE  LifecycleInvariant'
  BY <1>12 DEF AbandonWebhook
<1>13. ASSUME NEW s \in Server, IngressFinishes(s)
      PROVE  LifecycleInvariant'
  BY <1>13 DEF IngressFinishes
<1>14. ASSUME NEW s \in Server, ControlFinishes(s)
      PROVE  LifecycleInvariant'
  BY <1>14 DEF ControlFinishes
<1>15. ASSUME NEW s \in Server, IngressFails(s)
      PROVE  LifecycleInvariant'
  BY <1>15 DEF IngressFails
<1>16. ASSUME NEW s \in Server, ControlFails(s)
      PROVE  LifecycleInvariant'
  BY <1>16 DEF ControlFails
<1>17. ASSUME NEW s \in Server, Signal(s)
      PROVE  LifecycleInvariant'
  BY <1>17 DEF Signal, Drain, Goto
<1>18. ASSUME NEW s \in Server, Wake(s)
      PROVE  LifecycleInvariant'
  BY <1>18 DEF Wake, Drain, Goto
<1>19. ASSUME NEW s \in Server, FinishIngress(s)
      PROVE  LifecycleInvariant'
  BY <1>19 DEF FinishIngress, Goto
<1>20. ASSUME NEW s \in Server, FinishControl(s)
      PROVE  LifecycleInvariant'
  BY <1>20 DEF FinishControl, Goto
<1>21. ASSUME NEW s \in Server, RemoveDescriptor(s)
      PROVE  LifecycleInvariant'
  BY <1>21 DEF RemoveDescriptor, Goto
<1>22. ASSUME NEW s \in Server, Exit(s)
      PROVE  LifecycleInvariant'
  BY <1>22 DEF Exit, EndProcess
<1>23. ASSUME NEW s \in Server, Crash(s)
      PROVE  LifecycleInvariant'
  BY <1>23 DEF Crash, EndProcess
<1>24. ASSUME NEW k \in Stopper, StopConnect(k)
      PROVE  LifecycleInvariant'
  <2>1. CASE descriptor = NoServer
    BY <1>24, <2>1 DEF StopConnect, SetStop
  <2>2. CASE descriptor # NoServer
    <3>1. /\ descriptor \in Server
          /\ pc[descriptor] \in Published \cup {"removed", "exited"}
      BY <2>2
    <3>2. /\ stop' = [stop EXCEPT ![k] = [at |-> "connected", server |-> descriptor]]
          /\ UNCHANGED <<platform, directoryVars, pc, taskVars, ended>>
      BY <1>24, <2>2 DEF StopConnect, SetStop
    <3> QED
      BY <3>1, <3>2
  <2> QED
    BY <2>1, <2>2
<1>25. ASSUME NEW k \in Stopper, StopPost(k)
      PROVE  LifecycleInvariant'
  BY <1>25 DEF StopPost, SetStop
<1>26. ASSUME NEW k \in Stopper, StopPostFails(k)
      PROVE  LifecycleInvariant'
  BY <1>26 DEF StopPostFails, SetStop
<1>27. ASSUME NEW k \in Stopper, StopSeesNoDescriptor(k)
      PROVE  LifecycleInvariant'
  BY <1>27 DEF StopSeesNoDescriptor, SetStop
<1>28. ASSUME NEW k \in Stopper, StopGivesUp(k)
      PROVE  LifecycleInvariant'
  BY <1>28 DEF StopGivesUp, SetStop
<1>29. ASSUME NEW s \in Server, AcceptControl(s)
      PROVE  LifecycleInvariant'
  BY <1>29 DEF AcceptControl
<1>30. ASSUME NEW s \in Server, EndControl(s)
      PROVE  LifecycleInvariant'
  BY <1>30 DEF EndControl
<1>31. CASE UNCHANGED vars
  BY <1>31 DEF vars
<1> QED
  BY <1>1, <1>2, <1>3, <1>4, <1>5, <1>6, <1>7, <1>8, <1>9, <1>10, <1>11,
     <1>12, <1>13, <1>14, <1>15, <1>16, <1>17, <1>18, <1>19, <1>20, <1>21,
     <1>22, <1>23, <1>24, <1>25, <1>26, <1>27, <1>28, <1>29, <1>30, <1>31
  DEF Next, ServerStep, StopStep, ShutdownStep

(* It holds of every reachable state, whatever processes start, crash and  *)
(* stop in whatever order.                                                 *)
THEOREM LifecycleInvariance == Spec => []LifecycleInvariant
BY InvariantInit, InvariantStep, PTL DEF Spec

(* Every variable keeps its type: files and tasks are those of servers,    *)
(* the lock is that of a living process, and a stop command always knows   *)
(* which server it asked.                                                  *)
THEOREM LifecycleTypeCorrect == Spec => []TypeOK
<1>1. LifecycleInvariant => TypeOK
  BY DEF LifecycleInvariant
<1> QED
  BY <1>1, LifecycleInvariance, PTL

(* While serve accepts work or drains it, control.json describes it.       *)
THEOREM RunningServersArePublished == Spec => []RunningIsPublished
<1>1. LifecycleInvariant => RunningIsPublished
  BY DEF LifecycleInvariant
<1> QED
  BY <1>1, LifecycleInvariance, PTL

(* A process that ended cleanly left neither descriptor nor temporary file *)
(* of its own behind.                                                      *)
THEOREM CleanExitsLeaveNothing == Spec => []LeftoversOnlyAfterUncleanExit
<1>1. LifecycleInvariant => LeftoversOnlyAfterUncleanExit
  BY DEF LifecycleInvariant, FilesHaveOwners, LeftoversOnlyAfterUncleanExit,
         Published
<1> QED
  BY <1>1, LifecycleInvariance, PTL

(* A stop command that saw the descriptor disappear stopped a server that  *)
(* has drained, however many servers were restarted while it waited.       *)
THEOREM StoppedServersAreDrained == Spec => []StopMeansDrained
<1>1. LifecycleInvariant => StopMeansDrained
  <2> SUFFICES ASSUME LifecycleInvariant, NEW k \in Stopper,
                      stop[k].at = "stopped"
               PROVE  LET s == stop[k].server IN
                      /\ pc[s] \in {"removed", "exited"}
                      /\ ingress[s] # "failed" => webhook[s] = "none"
                      /\ control[s] # "failed" => s \notin pending
    BY DEF StopMeansDrained
  <2>1. /\ stop[k].server \in Server
        /\ pc[stop[k].server] \in {"removed", "exited"}
    BY DEF LifecycleInvariant, StopHasTarget
  <2>2. ingress[stop[k].server] \in {"none", "finished", "failed"}
    BY <2>1 DEF LifecycleInvariant, DrainedInOrder, TypeOK, TaskState, Published
  <2>3. control[stop[k].server] \in {"none", "finished", "failed"}
    BY <2>1 DEF LifecycleInvariant, DrainedInOrder, TypeOK, TaskState, Published
  <2> QED
    BY <2>1, <2>2, <2>3 DEF LifecycleInvariant, DrainedInOrder
<1> QED
  BY <1>1, LifecycleInvariance, PTL
=============================================================================
