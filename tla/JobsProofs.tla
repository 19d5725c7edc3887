----------------------------- MODULE JobsProofs -----------------------------
(***************************************************************************)
(* Run requests and the registry, for every set of jobs: what the handler, *)
(* the process, the deadline and control requests may do to each other.    *)
(***************************************************************************)
EXTENDS Jobs, TLAPS

Unregistered == {"acquire", "worker", "register"}
Executing == {"attach", "thaw", "write", "select", "streams", "cleanup", "update"}

\* The registry follows the handler: no entry before Register, no verdict but a
\* Stop's before UpdateFinished, a verdict after it.  What is paused was attached.
Registry ==
    \A j \in Jobs :
        /\ pc[j] \in Unregistered => status[j] = "none"
        /\ pc[j] \in Unregistered \cup {"attach"} => ~attached[j]
        /\ pc[j] \in Executing => status[j] \in Active \cup {"killed"}
        /\ pc[j] = "exit" => status[j] \in Terminal
        /\ pc[j] = "done" => status[j] \in Terminal \cup {"none"}
        /\ status[j] = "paused" => attached[j]

\* A process is alive only from Acquire to Cleanup, and the exit frame comes last.
Ending ==
    \A j \in Jobs :
        /\ pc[j] \in {"acquire", "update", "exit", "done"} => proc[j] # "alive"
        /\ frame[j] => pc[j] = "done"

\* A context is cancelled by Stop, which marks the job first, or by the handler
\* at its end; Execute reports a timeout only when the context is over.
Deadline ==
    \A j \in Jobs :
        /\ ctx[j] = "cancelled" => status[j] = "killed" \/ pc[j] = "done"
        /\ result[j].timedOut => ctx[j] # "live"
        /\ status[j] = "timed_out" => ctx[j] = "expired"

\* Only the payload of a paused job is frozen; a worker with a terminal never is
\* before it is attached.
Freezer ==
    \A j \in Jobs :
        /\ pc[j] \in {"worker", "register", "attach"} /\ tty[j] => ~frozen[j]
        /\ frozen[j] /\ proc[j] = "alive" /\ pc[j] \in {"write", "select"}
            => status[j] = "paused"

JobsInv == TypeOK /\ Registry /\ Ending /\ Deadline /\ Freezer

\* Before the first request there is no job.
LEMMA JobsInit ==
    ASSUME Init
    PROVE  JobsInv
<1> USE DEF Init
<1>1. TypeOK BY DEF TypeOK, Steps, Codes, Statuses
<1>2. Registry BY DEF Registry, Unregistered, Executing, Active
<1>3. Ending /\ Deadline /\ Freezer BY DEF Ending, Deadline, Freezer
<1> QED BY <1>1, <1>2, <1>3 DEF JobsInv

\* What job j, its process, its client and the requests about it may do.
Step(j) ==
    \/ Acquire(j) \/ AcquireError(j) \/ Run(j) \/ WriteScript(j)
    \/ ProcExit(j) \/ Expire(j) \/ Stall(j) \/ Control(j)

\* Every step keeps the types.
LEMMA JobsTypes ==
    ASSUME TypeOK, NEW j \in Jobs, Step(j)
    PROVE  TypeOK'
<1> USE DEF TypeOK, Goto, Steps, Codes, Statuses, Active, Terminal, regVars, reqVars, hostVars
<1>0. [result EXCEPT ![j].code = 1] \in [Jobs -> [code : Codes, timedOut : BOOLEAN]]
  OBVIOUS
<1>1. CASE Acquire(j) BY <1>1 DEF Acquire
<1>2. CASE AcquireError(j)
  <2>1. frame' \in [Jobs -> BOOLEAN] /\ pc' \in [Jobs -> Steps] BY <1>2 DEF AcquireError
  <2> QED BY <1>0, <1>2, <2>1 DEF AcquireError
<1>3. CASE NetworkReady(j) BY <1>3 DEF NetworkReady
<1>4. CASE NetworkError(j)
  <2>1. frame' \in [Jobs -> BOOLEAN] /\ pc' \in [Jobs -> Steps] BY <1>4 DEF NetworkError
  <2>2. /\ proc' \in [Jobs -> {"none", "alive", "killed", "exited"}]
        /\ frozen' \in [Jobs -> BOOLEAN] /\ cgroup' \in [Jobs -> BOOLEAN]
    BY <1>4 DEF NetworkError
  <2> QED BY <1>0, <1>4, <2>1, <2>2 DEF NetworkError
<1>5. CASE Register(j) BY <1>5 DEF Register
<1>6. CASE AttachCgroup(j) BY <1>6 DEF AttachCgroup
<1>7. CASE Thaw(j) BY <1>7 DEF Thaw
<1>8. CASE ExecError(j) BY <1>8 DEF ExecError, Killed
<1>9. CASE SelectDone(j) BY <1>9 DEF SelectDone, Killed
<1>10. CASE SelectWait(j) BY <1>10 DEF SelectWait
<1>11. CASE Streams(j) BY <1>11 DEF Streams
<1>12. CASE Cleanup(j) BY <1>12 DEF Cleanup, Killed
<1>13. CASE UpdateFinished(j) BY <1>13 DEF UpdateFinished
<1>14. CASE ExitFrame(j) BY <1>14 DEF ExitFrame
<1>15. CASE WriteScript(j) BY <1>15 DEF WriteScript
<1>16. CASE ProcExit(j) BY <1>16 DEF ProcExit
<1>17. CASE Expire(j) BY <1>17 DEF Expire
<1>18. CASE Stall(j) BY <1>18 DEF Stall
<1>19. CASE Pause(j) BY <1>19 DEF Pause
<1>20. CASE Unpause(j) BY <1>20 DEF Unpause
<1>21. CASE Stop(j) BY <1>21 DEF Stop
<1>22. CASE StatsBegin(j) BY <1>22 DEF StatsBegin
<1>23. CASE StatsEnd(j) BY <1>23 DEF StatsEnd
<1>24. CASE StatsBlock(j) BY <1>24 DEF StatsBlock
<1>25. CASE StatsAbort(j) BY <1>25 DEF StatsAbort
<1> QED BY <1>1, <1>2, <1>3, <1>4, <1>5, <1>6, <1>7, <1>8, <1>9, <1>10, <1>11, <1>12,
           <1>13, <1>14, <1>15, <1>16, <1>17, <1>18, <1>19, <1>20, <1>21, <1>22, <1>23, <1>24,
           <1>25
        DEF Step, Run, Control

\* A verdict is written once: by Stop while the job is active, or by
\* UpdateFinished, which finds an active job or one that Stop marked.
LEMMA RegistryStep ==
    ASSUME TypeOK, Registry, NEW j \in Jobs, Step(j)
    PROVE  Registry'
<1> USE DEF TypeOK, Registry, Goto, Unregistered, Executing, Active, Terminal,
            regVars, reqVars, hostVars
<1>1. CASE Acquire(j) BY <1>1 DEF Acquire
<1>2. CASE AcquireError(j) BY <1>2 DEF AcquireError
<1>3. CASE NetworkReady(j) BY <1>3 DEF NetworkReady
<1>4. CASE NetworkError(j) BY <1>4 DEF NetworkError
<1>5. CASE Register(j) BY <1>5 DEF Register
<1>6. CASE AttachCgroup(j) BY <1>6 DEF AttachCgroup
<1>7. CASE Thaw(j) BY <1>7 DEF Thaw
<1>8. CASE ExecError(j) BY <1>8 DEF ExecError, Killed
<1>9. CASE SelectDone(j) BY <1>9 DEF SelectDone, Killed
<1>10. CASE SelectWait(j) BY <1>10 DEF SelectWait
<1>11. CASE Streams(j) BY <1>11 DEF Streams
<1>12. CASE Cleanup(j) BY <1>12 DEF Cleanup, Killed
<1>13. CASE UpdateFinished(j) BY <1>13 DEF UpdateFinished
<1>14. CASE ExitFrame(j) BY <1>14 DEF ExitFrame
<1>15. CASE WriteScript(j) BY <1>15 DEF WriteScript
<1>16. CASE ProcExit(j) BY <1>16 DEF ProcExit
<1>17. CASE Expire(j) BY <1>17 DEF Expire
<1>18. CASE Pause(j) BY <1>18 DEF Pause
<1>19. CASE Unpause(j) BY <1>19 DEF Unpause
<1>20. CASE Stop(j) BY <1>20 DEF Stop
<1>21. CASE Stall(j) \/ StatsBegin(j) \/ StatsEnd(j) \/ StatsBlock(j) \/ StatsAbort(j)
  BY <1>21 DEF Stall, StatsBegin, StatsEnd, StatsBlock, StatsAbort
<1> QED BY <1>1, <1>2, <1>3, <1>4, <1>5, <1>6, <1>7, <1>8, <1>9, <1>10, <1>11, <1>12,
           <1>13, <1>14, <1>15, <1>16, <1>17, <1>18, <1>19, <1>20, <1>21
        DEF Step, Run, Control

\* No process comes alive after its clean-up.
LEMMA EndingStep ==
    ASSUME TypeOK, Ending, NEW j \in Jobs, Step(j)
    PROVE  Ending'
<1> USE DEF TypeOK, Ending, Goto, regVars, reqVars, hostVars
<1>1. CASE Acquire(j) BY <1>1 DEF Acquire
<1>2. CASE AcquireError(j) BY <1>2 DEF AcquireError
<1>3. CASE NetworkReady(j) BY <1>3 DEF NetworkReady
<1>4. CASE NetworkError(j) BY <1>4 DEF NetworkError
<1>5. CASE Register(j) BY <1>5 DEF Register
<1>6. CASE AttachCgroup(j) BY <1>6 DEF AttachCgroup
<1>7. CASE Thaw(j) BY <1>7 DEF Thaw
<1>8. CASE ExecError(j) BY <1>8 DEF ExecError, Killed
<1>9. CASE SelectDone(j) BY <1>9 DEF SelectDone, Killed
<1>10. CASE SelectWait(j) BY <1>10 DEF SelectWait
<1>11. CASE Streams(j) BY <1>11 DEF Streams
<1>12. CASE Cleanup(j) BY <1>12 DEF Cleanup, Killed
<1>13. CASE UpdateFinished(j) BY <1>13 DEF UpdateFinished
<1>14. CASE ExitFrame(j) BY <1>14 DEF ExitFrame
<1>15. CASE WriteScript(j) BY <1>15 DEF WriteScript
<1>16. CASE ProcExit(j) BY <1>16 DEF ProcExit
<1>17. CASE Expire(j) BY <1>17 DEF Expire
<1>18. CASE Pause(j) BY <1>18 DEF Pause
<1>19. CASE Unpause(j) BY <1>19 DEF Unpause
<1>20. CASE Stop(j) BY <1>20 DEF Stop
<1>21. CASE Stall(j) \/ StatsBegin(j) \/ StatsEnd(j) \/ StatsBlock(j) \/ StatsAbort(j)
  BY <1>21 DEF Stall, StatsBegin, StatsEnd, StatsBlock, StatsAbort
<1> QED BY <1>1, <1>2, <1>3, <1>4, <1>5, <1>6, <1>7, <1>8, <1>9, <1>10, <1>11, <1>12,
           <1>13, <1>14, <1>15, <1>16, <1>17, <1>18, <1>19, <1>20, <1>21
        DEF Step, Run, Control

\* The deadline and Stop reach the handler through the same channel; the mark
\* in the registry tells them apart.
LEMMA DeadlineStep ==
    ASSUME TypeOK, Registry, Deadline, NEW j \in Jobs, Step(j)
    PROVE  Deadline'
<1> USE DEF TypeOK, Registry, Deadline, Goto, Unregistered, Executing, Active, Terminal,
            regVars, reqVars, hostVars
<1>1. CASE Acquire(j) BY <1>1 DEF Acquire
<1>2. CASE AcquireError(j) BY <1>2 DEF AcquireError
<1>3. CASE NetworkReady(j) BY <1>3 DEF NetworkReady
<1>4. CASE NetworkError(j) BY <1>4 DEF NetworkError
<1>5. CASE Register(j) BY <1>5 DEF Register
<1>6. CASE AttachCgroup(j) BY <1>6 DEF AttachCgroup
<1>7. CASE Thaw(j) BY <1>7 DEF Thaw
<1>8. CASE ExecError(j) BY <1>8 DEF ExecError, Killed
<1>9. CASE SelectDone(j) BY <1>9 DEF SelectDone, Killed
<1>10. CASE SelectWait(j) BY <1>10 DEF SelectWait
<1>11. CASE Streams(j) BY <1>11 DEF Streams
<1>12. CASE Cleanup(j) BY <1>12 DEF Cleanup, Killed
<1>13. CASE UpdateFinished(j) BY <1>13 DEF UpdateFinished
<1>14. CASE ExitFrame(j) BY <1>14 DEF ExitFrame
<1>15. CASE WriteScript(j) BY <1>15 DEF WriteScript
<1>16. CASE ProcExit(j) BY <1>16 DEF ProcExit
<1>17. CASE Expire(j) BY <1>17 DEF Expire
<1>18. CASE Pause(j) BY <1>18 DEF Pause
<1>19. CASE Unpause(j) BY <1>19 DEF Unpause
<1>20. CASE Stop(j) BY <1>20 DEF Stop
<1>21. CASE Stall(j) \/ StatsBegin(j) \/ StatsEnd(j) \/ StatsBlock(j) \/ StatsAbort(j)
  BY <1>21 DEF Stall, StatsBegin, StatsEnd, StatsBlock, StatsAbort
<1> QED BY <1>1, <1>2, <1>3, <1>4, <1>5, <1>6, <1>7, <1>8, <1>9, <1>10, <1>11, <1>12,
           <1>13, <1>14, <1>15, <1>16, <1>17, <1>18, <1>19, <1>20, <1>21
        DEF Step, Run, Control

\* Pause and Unpause freeze and mark together; Thaw comes before the payload.
LEMMA FreezerStep ==
    ASSUME TypeOK, Registry, Freezer, NEW j \in Jobs, Step(j)
    PROVE  Freezer'
<1> USE DEF TypeOK, Registry, Freezer, Goto, Unregistered, Executing, Active, Terminal,
            regVars, reqVars, hostVars
<1>1. CASE Acquire(j) BY <1>1 DEF Acquire
<1>2. CASE AcquireError(j) BY <1>2 DEF AcquireError
<1>3. CASE NetworkReady(j) BY <1>3 DEF NetworkReady
<1>4. CASE NetworkError(j) BY <1>4 DEF NetworkError
<1>5. CASE Register(j) BY <1>5 DEF Register
<1>6. CASE AttachCgroup(j) BY <1>6 DEF AttachCgroup
<1>7. CASE Thaw(j) BY <1>7 DEF Thaw
<1>8. CASE ExecError(j) BY <1>8 DEF ExecError, Killed
<1>9. CASE SelectDone(j) BY <1>9 DEF SelectDone, Killed
<1>10. CASE SelectWait(j) BY <1>10 DEF SelectWait
<1>11. CASE Streams(j) BY <1>11 DEF Streams
<1>12. CASE Cleanup(j) BY <1>12 DEF Cleanup, Killed
<1>13. CASE UpdateFinished(j) BY <1>13 DEF UpdateFinished
<1>14. CASE ExitFrame(j) BY <1>14 DEF ExitFrame
<1>15. CASE WriteScript(j) BY <1>15 DEF WriteScript
<1>16. CASE ProcExit(j) BY <1>16 DEF ProcExit
<1>17. CASE Expire(j) BY <1>17 DEF Expire
<1>18. CASE Pause(j) BY <1>18 DEF Pause
<1>19. CASE Unpause(j) BY <1>19 DEF Unpause
<1>20. CASE Stop(j) BY <1>20 DEF Stop
<1>21. CASE Stall(j) \/ StatsBegin(j) \/ StatsEnd(j) \/ StatsBlock(j) \/ StatsAbort(j)
  BY <1>21 DEF Stall, StatsBegin, StatsEnd, StatsBlock, StatsAbort
<1> QED BY <1>1, <1>2, <1>3, <1>4, <1>5, <1>6, <1>7, <1>8, <1>9, <1>10, <1>11, <1>12,
           <1>13, <1>14, <1>15, <1>16, <1>17, <1>18, <1>19, <1>20, <1>21
        DEF Step, Run, Control

\* The invariant holds in every reachable state.
LEMMA JobsAlways == Spec => []JobsInv
<1>1. JobsInv /\ [Next]_vars => JobsInv'
  <2> SUFFICES ASSUME JobsInv, [Next]_vars PROVE JobsInv'
    OBVIOUS
  <2>1. ASSUME NEW j \in Jobs, Step(j) PROVE JobsInv'
    BY <2>1, JobsTypes, RegistryStep, EndingStep, DeadlineStep, FreezerStep DEF JobsInv
  <2>2. CASE UNCHANGED vars
    BY <2>2 DEF JobsInv, TypeOK, Registry, Ending, Deadline, Freezer, vars
  <2> QED BY <2>1, <2>2 DEF Next, Step, Quiet
<1> QED BY <1>1, JobsInit, PTL DEF Spec

\* Every variable keeps its type.
THEOREM JobTypes == Spec => []TypeOK
  BY JobsAlways, PTL DEF JobsInv

\* Whoever reads the exit frame of handleConnection finds a verdict in the
\* registry, and no process alive.
THEOREM ExitFrameIsFinal == Spec => []ExitIsFinal
<1>1. JobsInv => ExitIsFinal
  BY DEF JobsInv, ExitIsFinal, Registry, Ending
<1> QED BY <1>1, JobsAlways, PTL

\* The registry says timed_out only of a job whose deadline passed.
THEOREM TimeoutIsTrue == Spec => []TimedOutIsDeadline
<1>1. JobsInv => TimedOutIsDeadline BY DEF JobsInv, TimedOutIsDeadline, Deadline
<1> QED BY <1>1, JobsAlways, PTL

\* A payload is frozen only under a registry entry that Unpause accepts.
THEOREM FrozenCanResume == Spec => []FrozenIsPaused
<1>1. JobsInv => FrozenIsPaused BY DEF JobsInv, FrozenIsPaused, Freezer
<1> QED BY <1>1, JobsAlways, PTL

\* No late UpdateFinished, Stop, Pause or Unpause rewrites a verdict.
THEOREM VerdictsAreFinal == Spec => VerdictStable
<1> DEFINE Kept == \A j \in Jobs : status[j] \in Terminal => status'[j] = status[j]
<1>1. ASSUME JobsInv, [Next]_vars PROVE Kept
  <2> USE DEF JobsInv, TypeOK, Registry, Unregistered, Executing, Active, Terminal, regVars
  <2>1. CASE UNCHANGED status BY <2>1
  <2>2. ASSUME NEW k \in Jobs, Step(k) PROVE Kept
    <3>1. CASE Register(k) BY <1>1, <3>1 DEF Register
    <3>2. CASE UpdateFinished(k) BY <1>1, <3>2 DEF UpdateFinished
    <3>3. CASE Pause(k) BY <1>1, <3>3 DEF Pause
    <3>4. CASE Unpause(k) BY <1>1, <3>4 DEF Unpause
    <3>5. CASE Stop(k) BY <1>1, <3>5 DEF Stop
    <3> QED BY <2>1, <2>2, <3>1, <3>2, <3>3, <3>4, <3>5
        DEF Step, Run, Control, Acquire, AcquireError, NetworkReady, NetworkError,
            AttachCgroup, Thaw, ExecError, SelectDone, SelectWait, Streams, Cleanup,
            ExitFrame, WriteScript, ProcExit, Expire, Stall, StatsBegin, StatsEnd,
            StatsBlock, StatsAbort
  <2> QED BY <1>1, <2>1, <2>2 DEF Next, Step, Quiet, vars
<1>2. JobsInv /\ [Next]_vars
        => [\A j \in Jobs : status[j] \in Terminal => status'[j] = status[j]]_vars
  BY <1>1
<1> QED BY <1>2, JobsAlways, PTL DEF Spec, VerdictStable

=============================================================================
