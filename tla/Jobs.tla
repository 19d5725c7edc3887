-------------------------------- MODULE Jobs --------------------------------
(***************************************************************************)
(* A run request in the daemon, from its worker to its exit frame, with    *)
(* the registry the control requests work on: Daemon.handleConnection      *)
(* (server.go), JobRegistry (registry.go) and Worker.ExecuteStream and     *)
(* ExecutePTY (pool.go).  A job, its worker and its handler share an id.   *)
(* The registry's methods are atomic under its mutex; the handler's calls  *)
(* into the cgroup are not under it.                                       *)
(***************************************************************************)
EXTENDS Naturals

CONSTANT Jobs

Active == {"running", "paused"}
Terminal == {"killed", "timed_out", "completed", "failed"}
Statuses == Active \cup Terminal \cup {"none"}
Steps == {"acquire", "worker", "register", "attach", "thaw", "write", "select",
          "streams", "cleanup", "update", "exit", "done"}
\* Success, any failure, and the code of a deadline.
Codes == {0, 1, 124}

VARIABLES
    pc,        \* step of the handler
    tty,       \* req.TTY
    big,       \* the payload exceeds what the stdin pipe buffers
    ctx,       \* the job's context: "live", "expired" or "cancelled"
    proc,      \* the worker's process: "alive", "killed" or "exited"
    code,      \* the process's exit code
    frozen,    \* cgroup.freeze of the worker's cgroup
    cgroup,    \* the cgroup directory exists
    status,    \* registry: info.Status, "none" when there is no such job
    attached,  \* registry: job.cgroup is set
    result,    \* what Execute returned: exit code, TimedOut
    frame,     \* the exit frame was written
    stalled,   \* the client stopped reading with output left for it
    stats      \* a stats request for the job: "off", "tick", "blocked" in a write
               \* to a client that has stopped reading, or "end"

regVars == <<status, attached>>
reqVars == <<tty, big>>
hostVars == <<proc, code, frozen, cgroup>>
vars == <<pc, tty, big, ctx, proc, code, frozen, cgroup, status, attached,
          result, frame, stalled, stats>>

TypeOK ==
    /\ pc \in [Jobs -> Steps]
    /\ tty \in [Jobs -> BOOLEAN]
    /\ big \in [Jobs -> BOOLEAN]
    /\ ctx \in [Jobs -> {"live", "expired", "cancelled"}]
    /\ proc \in [Jobs -> {"none", "alive", "killed", "exited"}]
    /\ code \in [Jobs -> Codes]
    /\ frozen \in [Jobs -> BOOLEAN]
    /\ cgroup \in [Jobs -> BOOLEAN]
    /\ status \in [Jobs -> Statuses]
    /\ attached \in [Jobs -> BOOLEAN]
    /\ result \in [Jobs -> [code : Codes, timedOut : BOOLEAN]]
    /\ frame \in [Jobs -> BOOLEAN]
    /\ stalled \in [Jobs -> BOOLEAN]
    /\ stats \in [Jobs -> {"off", "tick", "blocked", "end"}]

Init ==
    /\ pc = [j \in Jobs |-> "acquire"]
    /\ tty \in [Jobs -> BOOLEAN]
    /\ big \in [Jobs -> BOOLEAN]
    /\ ctx = [j \in Jobs |-> "live"]
    /\ proc = [j \in Jobs |-> "none"]
    /\ code = [j \in Jobs |-> 0]
    /\ frozen = [j \in Jobs |-> FALSE]
    /\ cgroup = [j \in Jobs |-> FALSE]
    /\ status = [j \in Jobs |-> "none"]
    /\ attached = [j \in Jobs |-> FALSE]
    /\ result = [j \in Jobs |-> [code |-> 0, timedOut |-> FALSE]]
    /\ frame = [j \in Jobs |-> FALSE]
    /\ stalled = [j \in Jobs |-> FALSE]
    /\ stats = [j \in Jobs |-> "off"]

Goto(j, s) == pc' = [pc EXCEPT ![j] = s]

-----------------------------------------------------------------------------
(* The worker's process and its context.                                   *)

\* The process ends by itself, unless its cgroup is frozen; a killed one ends
\* frozen or not.
ProcExit(j) ==
    /\ \/ proc[j] = "alive" /\ ~frozen[j]
       \/ proc[j] = "killed"
    /\ proc' = [proc EXCEPT ![j] = "exited"]
    /\ \E c \in {0, 1} : code' = [code EXCEPT ![j] = c]
    /\ UNCHANGED <<pc, reqVars, ctx, frozen, cgroup, regVars, result, frame, stalled, stats>>

\* The deadline of context.WithTimeout passes.
Expire(j) ==
    /\ ctx[j] = "live" /\ pc[j] # "done"
    /\ ctx' = [ctx EXCEPT ![j] = "expired"]
    /\ UNCHANGED <<pc, reqVars, hostVars, regVars, result, frame, stalled, stats>>

\* The client keeps the connection open and reads no more of the output.
Stall(j) ==
    /\ pc[j] \in {"select", "streams"}
    /\ stalled' = [stalled EXCEPT ![j] = TRUE]
    /\ UNCHANGED <<pc, reqVars, ctx, hostVars, regVars, result, frame, stats>>

Killed(j) == IF proc[j] = "alive" THEN "killed" ELSE proc[j]

-----------------------------------------------------------------------------
(* handleConnection, from the decoded request to the exit frame.           *)

\* AcquireCustom returns a worker, frozen unless it has a terminal.
Acquire(j) ==
    /\ pc[j] = "acquire"
    /\ proc' = [proc EXCEPT ![j] = "alive"]
    /\ frozen' = [frozen EXCEPT ![j] = ~tty[j]]
    /\ cgroup' = [cgroup EXCEPT ![j] = TRUE]
    /\ Goto(j, "worker")
    /\ UNCHANGED <<reqVars, ctx, code, regVars, result, frame, stalled, stats>>

\* AcquireCustom failed: an exit frame with an error.
AcquireError(j) ==
    /\ pc[j] = "acquire"
    /\ frame' = [frame EXCEPT ![j] = TRUE]
    /\ result' = [result EXCEPT ![j].code = 1]
    /\ Goto(j, "done")
    /\ UNCHANGED <<reqVars, ctx, hostVars, regVars, stalled, stats>>

\* SetupContainerNetwork worked or was not asked for.
NetworkReady(j) ==
    /\ pc[j] = "worker"
    /\ Goto(j, "register")
    /\ UNCHANGED <<reqVars, ctx, hostVars, regVars, result, frame, stalled, stats>>

\* Fault: the worker is not destroyed.
NetworkErrorLeaks(j) ==
    /\ pc[j] = "worker"
    /\ result' = [result EXCEPT ![j].code = 1]
    /\ frame' = [frame EXCEPT ![j] = TRUE]
    /\ Goto(j, "done")
    /\ UNCHANGED <<reqVars, ctx, hostVars, regVars, stalled, stats>>

\* It failed: Destroy kills, waits and cleans up; UpdateFinished finds no job.
NetworkError(j) ==
    /\ pc[j] = "worker"
    /\ proc' = [proc EXCEPT ![j] = "exited"]
    /\ cgroup' = [cgroup EXCEPT ![j] = FALSE]
    /\ frozen' = [frozen EXCEPT ![j] = FALSE]
    /\ result' = [result EXCEPT ![j].code = 1]
    /\ frame' = [frame EXCEPT ![j] = TRUE]
    /\ Goto(j, "done")
    /\ UNCHANGED <<reqVars, ctx, code, regVars, stalled, stats>>

Register(j) ==
    /\ pc[j] = "register"
    /\ status' = [status EXCEPT ![j] = "running"]
    /\ Goto(j, "attach")
    /\ UNCHANGED <<reqVars, ctx, hostVars, attached, result, frame, stalled, stats>>

\* ExecutePTY neither thaws nor writes a payload.
AttachCgroup(j) ==
    /\ pc[j] = "attach"
    /\ attached' = [attached EXCEPT ![j] = TRUE]
    /\ Goto(j, IF tty[j] THEN "select" ELSE "thaw")
    /\ UNCHANGED <<reqVars, ctx, hostVars, status, result, frame, stalled, stats>>

\* ExecuteStream's first call, whatever Pause did since the job was attached.
Thaw(j) ==
    /\ pc[j] = "thaw"
    /\ frozen' = [frozen EXCEPT ![j] = FALSE]
    /\ Goto(j, "write")
    /\ UNCHANGED <<reqVars, ctx, proc, code, cgroup, regVars, result, frame, stalled, stats>>

\* io.WriteString of the script returns when the pipe has taken all of it; a
\* big one needs the child to read, which it may never do.
WriteScript(j) ==
    /\ pc[j] = "write" /\ proc[j] # "exited"
    /\ big[j] => ~frozen[j]
    /\ Goto(j, "select")
    /\ UNCHANGED <<reqVars, ctx, hostVars, regVars, result, frame, stalled, stats>>

\* Thaw failed, or nobody reads the pipe any more: Kill, and an error.
ExecError(j) ==
    /\ \/ pc[j] = "thaw"
       \/ pc[j] = "write" /\ proc[j] = "exited"
    /\ proc' = [proc EXCEPT ![j] = Killed(j)]
    /\ result' = [result EXCEPT ![j].code = 1]
    /\ Goto(j, "cleanup")
    /\ UNCHANGED <<reqVars, ctx, code, frozen, cgroup, regVars, frame, stalled, stats>>

\* Fault: the process is left to notice by itself.
SelectDoneNoKill(j) ==
    /\ pc[j] = "select" /\ ctx[j] # "live"
    /\ result' = [result EXCEPT ![j] = [code |-> 124, timedOut |-> TRUE]]
    /\ Goto(j, "streams")
    /\ UNCHANGED <<reqVars, ctx, hostVars, regVars, frame, stalled, stats>>

\* select: ctx.Done(), by deadline or by Stop.
SelectDone(j) ==
    /\ pc[j] = "select" /\ ctx[j] # "live"
    /\ proc' = [proc EXCEPT ![j] = Killed(j)]
    /\ result' = [result EXCEPT ![j] = [code |-> 124, timedOut |-> TRUE]]
    /\ Goto(j, "streams")
    /\ UNCHANGED <<reqVars, ctx, code, frozen, cgroup, regVars, frame, stalled, stats>>

\* Fault: the wait status is reported instead of the exit code in it.
SelectWaitRaw(j) ==
    /\ pc[j] = "select" /\ proc[j] = "exited"
    /\ result' = [result EXCEPT ![j] = [code |-> 256 * code[j], timedOut |-> FALSE]]
    /\ Goto(j, "streams")
    /\ UNCHANGED <<reqVars, ctx, hostVars, regVars, frame, stalled, stats>>

\* select: cmd.Wait returned.
SelectWait(j) ==
    /\ pc[j] = "select" /\ proc[j] = "exited"
    /\ result' = [result EXCEPT ![j] = [code |-> code[j], timedOut |-> FALSE]]
    /\ Goto(j, "streams")
    /\ UNCHANGED <<reqVars, ctx, hostVars, regVars, frame, stalled, stats>>

\* streamWG.Wait: the readers see the end of the child's output, and have
\* written all of it to the client.  ExecutePTY closes the terminal first.
Streams(j) ==
    /\ pc[j] = "streams" /\ ~stalled[j]
    /\ proc[j] = "exited" \/ tty[j]
    /\ Goto(j, "cleanup")
    /\ UNCHANGED <<reqVars, ctx, hostVars, regVars, result, frame, stalled, stats>>

\* The deferred cgroup.Cleanup: members are killed, rmdir fails on one that is
\* still there.
Cleanup(j) ==
    /\ pc[j] = "cleanup"
    /\ proc' = [proc EXCEPT ![j] = Killed(j)]
    /\ cgroup' = [cgroup EXCEPT ![j] = proc[j] # "exited"]
    /\ Goto(j, "update")
    /\ UNCHANGED <<reqVars, ctx, code, frozen, regVars, result, frame, stalled, stats>>

\* Fault: the result overwrites whatever the registry says.
UpdateFinishedAlways(j) ==
    /\ pc[j] = "update"
    /\ status' = [status EXCEPT ![j] =
        IF result[j].timedOut THEN "timed_out"
        ELSE IF result[j].code = 0 THEN "completed" ELSE "failed"]
    /\ Goto(j, "exit")
    /\ UNCHANGED <<reqVars, ctx, hostVars, attached, result, frame, stalled, stats>>

\* UpdateFinished: a killed job stays killed.
UpdateFinished(j) ==
    /\ pc[j] = "update"
    /\ status' = [status EXCEPT ![j] =
        IF @ = "killed" THEN "killed"
        ELSE IF result[j].timedOut THEN "timed_out"
        ELSE IF result[j].code = 0 THEN "completed" ELSE "failed"]
    /\ Goto(j, "exit")
    /\ UNCHANGED <<reqVars, ctx, hostVars, attached, result, frame, stalled, stats>>

\* WriteExitFrame and the deferred cancel.
ExitFrame(j) ==
    /\ pc[j] = "exit" /\ ~stalled[j]
    /\ frame' = [frame EXCEPT ![j] = TRUE]
    /\ ctx' = [ctx EXCEPT ![j] = IF @ = "live" THEN "cancelled" ELSE @]
    /\ Goto(j, "done")
    /\ UNCHANGED <<reqVars, hostVars, regVars, result, stalled, stats>>

-----------------------------------------------------------------------------
(* Control requests.                                                       *)

\* Freeze fails once the cgroup directory is gone.
Pause(j) ==
    /\ status[j] = "running" /\ attached[j] /\ cgroup[j]
    /\ frozen' = [frozen EXCEPT ![j] = TRUE]
    /\ status' = [status EXCEPT ![j] = "paused"]
    /\ UNCHANGED <<pc, reqVars, ctx, proc, code, cgroup, attached, result, frame, stalled, stats>>

Unpause(j) ==
    /\ status[j] = "paused" /\ attached[j] /\ cgroup[j]
    /\ frozen' = [frozen EXCEPT ![j] = FALSE]
    /\ status' = [status EXCEPT ![j] = "running"]
    /\ UNCHANGED <<pc, reqVars, ctx, proc, code, cgroup, attached, result, frame, stalled, stats>>

\* Faults: the cgroup stays frozen; the job is cancelled and not marked killed.
StopFrozen(j) ==
    /\ status[j] \in Active
    /\ status' = [status EXCEPT ![j] = "killed"]
    /\ ctx' = [ctx EXCEPT ![j] = IF @ = "live" THEN "cancelled" ELSE @]
    /\ UNCHANGED <<pc, reqVars, hostVars, attached, result, frame, stalled, stats>>
StopUnmarked(j) ==
    /\ status[j] \in Active
    /\ ctx' = [ctx EXCEPT ![j] = IF @ = "live" THEN "cancelled" ELSE @]
    /\ UNCHANGED <<pc, reqVars, hostVars, regVars, result, frame, stalled, stats>>

\* Stop thaws a paused job, marks it killed and cancels its context.
Stop(j) ==
    /\ status[j] \in Active
    /\ frozen' = [frozen EXCEPT ![j] = @ /\ ~(status[j] = "paused" /\ attached[j])]
    /\ status' = [status EXCEPT ![j] = "killed"]
    /\ ctx' = [ctx EXCEPT ![j] = IF @ = "live" THEN "cancelled" ELSE @]
    /\ UNCHANGED <<pc, reqVars, proc, code, cgroup, attached, result, frame, stalled, stats>>

\* handleStatsStream: one sample of a job that is not running, whose frames the
\* client may not read, or a ticker.
StatsBegin(j) ==
    /\ status[j] # "none" /\ stats[j] = "off"
    /\ \E s \in IF status[j] = "running" /\ attached[j] THEN {"tick"} ELSE {"blocked", "end"} :
        stats' = [stats EXCEPT ![j] = s]
    /\ UNCHANGED <<pc, reqVars, ctx, hostVars, regVars, result, frame, stalled>>

\* Fault: only a completed job ends its stats stream.
StatsEndCompleted(j) ==
    /\ stats[j] = "tick" /\ status[j] = "completed"
    /\ stats' = [stats EXCEPT ![j] = "end"]
    /\ UNCHANGED <<pc, reqVars, ctx, hostVars, regVars, result, frame, stalled>>

\* A tick after the job stopped running: the exit frame of the stats stream.
StatsEnd(j) ==
    /\ stats[j] = "tick" /\ status[j] # "running"
    /\ stats' = [stats EXCEPT ![j] = "end"]
    /\ UNCHANGED <<pc, reqVars, ctx, hostVars, regVars, result, frame, stalled>>

\* WriteStatsFrame or WriteExitFrame has no deadline: it waits for as long as
\* its client keeps the connection and does not read.
StatsBlock(j) ==
    /\ stats[j] = "tick"
    /\ stats' = [stats EXCEPT ![j] = "blocked"]
    /\ UNCHANGED <<pc, reqVars, ctx, hostVars, regVars, result, frame, stalled>>

\* Its client is gone; or between two ticks the telemetry cannot be read or the
\* daemon shuts down.
StatsAbort(j) ==
    /\ stats[j] \in {"tick", "blocked"}
    /\ stats' = [stats EXCEPT ![j] = "end"]
    /\ UNCHANGED <<pc, reqVars, ctx, hostVars, regVars, result, frame, stalled>>

-----------------------------------------------------------------------------
Run(j) ==
    \/ NetworkReady(j) \/ NetworkError(j) \/ Register(j) \/ AttachCgroup(j)
    \/ Thaw(j) \/ ExecError(j) \/ SelectDone(j) \/ SelectWait(j) \/ Streams(j)
    \/ Cleanup(j) \/ UpdateFinished(j) \/ ExitFrame(j)

Control(j) == Pause(j) \/ Unpause(j) \/ Stop(j)
              \/ StatsBegin(j) \/ StatsEnd(j) \/ StatsBlock(j) \/ StatsAbort(j)

\* Every job is over and no control request is left to come.
Quiet == (\A j \in Jobs : pc[j] = "done") /\ UNCHANGED vars

Next ==
    \/ \E j \in Jobs :
        \/ Acquire(j) \/ AcquireError(j) \/ Run(j) \/ WriteScript(j)
        \/ ProcExit(j) \/ Expire(j) \/ Stall(j) \/ Control(j)
    \/ Quiet

Spec == Init /\ [][Next]_vars

\* The handler's goroutine runs when it can, timers fire, a killed process
\* exits and the ticker ticks.  The programs need not do anything, and a payload
\* that fits the pipe is written whatever they do.  Clients need not either: one
\* that reads no more makes the job stalled or its stats stream blocked, where
\* Streams, ExitFrame and StatsEnd are not enabled and fairness says nothing.
Fairness ==
    \A j \in Jobs :
        /\ WF_vars(Run(j))
        /\ WF_vars(~big[j] /\ WriteScript(j))
        /\ WF_vars(Expire(j))
        /\ WF_vars(proc[j] = "killed" /\ ProcExit(j))
        /\ WF_vars(StatsEnd(j))

FairSpec == Spec /\ Fairness

-----------------------------------------------------------------------------
(* Properties.                                                             *)

\* A job that ended keeps its verdict: neither a late UpdateFinished after a
\* Stop nor a late Stop, Pause or Unpause rewrites it.
VerdictStable ==
    [][\A j \in Jobs : status[j] \in Terminal => status'[j] = status[j]]_vars

\* Whoever has the exit frame finds the job over: the registry has a verdict
\* (or never had the job) and the process is dead or has its SIGKILL.
ExitIsFinal ==
    \A j \in Jobs : frame[j] =>
        status[j] \in Terminal \cup {"none"} /\ proc[j] # "alive"

\* "timed_out" means the deadline passed, although the handler sees a Stop
\* through the same ctx.Done().
TimedOutIsDeadline ==
    \A j \in Jobs : status[j] = "timed_out" => ctx[j] = "expired"

\* A job whose payload is being run is frozen only while the registry says
\* paused, so that Unpause can always bring it back.
FrozenIsPaused ==
    \A j \in Jobs :
        frozen[j] /\ proc[j] = "alive" /\ pc[j] \in {"write", "select"}
            => status[j] = "paused"

\* A job that has a worker gets its exit frame, if its payload fits the pipe and
\* its client reads: the deadline passes and reaches the process even while the
\* job is paused.
JobEnds == \A j \in Jobs : pc[j] = "worker" /\ ~big[j] ~> frame[j] \/ stalled[j]

\* A stats stream of such a job ends, at the latest when the job itself does,
\* unless its own client stops reading: no write of handleStatsStream has a
\* deadline.
StatsStreamEnds ==
    \A j \in Jobs : stats[j] = "tick" /\ ~big[j]
        ~> stats[j] \in {"blocked", "end"} \/ stalled[j]

\* "Execution timeout in seconds": whatever the job's payload, the deadline ends
\* it, as long as its client reads.
TimeoutEndsJob == \A j \in Jobs : pc[j] = "worker" ~> frame[j] \/ stalled[j]

=============================================================================
