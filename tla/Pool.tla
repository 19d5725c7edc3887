-------------------------------- MODULE Pool --------------------------------
(***************************************************************************)
(* The warm worker pool of pkg/sandbox/pool.go: a buffered channel of      *)
(* frozen, single-use workers, the request handlers that take one or spawn *)
(* their own, the replenish goroutine started for every worker taken, and  *)
(* Close.  A worker is what it holds on the host: an overlay mount, a      *)
(* cgroup directory and a process.                                         *)
(***************************************************************************)
EXTENDS Naturals, Sequences

CONSTANTS
    Capacity,   \* size of the channel p.workers
    Handlers,   \* goroutines of Daemon.handleConnection
    P,          \* the goroutine inside the pool: NewPool, replenish or Close
    Workers,    \* worker identities; one is reused once nothing of it is left
    Nil

ASSUME CapacityAssumption == Capacity \in Nat \ {0}
ASSUME ActorAssumption == P \notin Handlers
ASSUME NilAssumption == Nil \notin Workers

Actors == Handlers \cup {P}

Requests == {"warm", "custom", "tty"}
SpawnSteps == {"overlay", "mount", "cgroup", "start", "attach", "freeze"}
Steps == SpawnSteps \cup {"idle", "spawned", "failed", "hold", "exec", "drain"}

\* "out" is a started process that is not in its cgroup yet, "dying" one that
\* was sent SIGKILL and has not exited.
Procs == {"none", "out", "run", "frozen", "dying"}

VARIABLES
    boot,       \* "prefill" inside NewPool, then "up", or "error" returned
    workers,    \* the buffered channel
    closed,     \* p.closed; the channel is closed in the same step
    mu,         \* p.mu: "free", or locked by "replenish" or by "close"
    pending,    \* replenish goroutines that have not locked p.mu yet
    stopping,   \* Daemon.Stop has been called
    panicked,   \* a goroutine panicked: the daemon process is gone
    at,         \* the step each actor is at
    req,        \* what the actor's current spawn or job asked for
    has,        \* the worker the actor refers to
    ov, cg,     \* workers whose overlay mount, cgroup directory exists
    proc        \* the process of each worker

poolVars == <<boot, workers, closed, mu, pending, stopping>>
hostVars == <<ov, cg, proc>>
vars == <<boot, workers, closed, mu, pending, stopping, panicked,
          at, req, has, ov, cg, proc>>

TypeOK ==
    /\ boot \in {"prefill", "up", "error"}
    /\ workers \in Seq(Workers)
    /\ closed \in BOOLEAN /\ stopping \in BOOLEAN /\ panicked \in BOOLEAN
    /\ mu \in {"free", "replenish", "close"}
    /\ pending \in Nat
    /\ at \in [Actors -> Steps]
    /\ req \in [Actors -> Requests]
    /\ has \in [Actors -> Workers \cup {Nil}]
    /\ ov \subseteq Workers
    /\ cg \subseteq Workers
    /\ proc \in [Workers -> Procs]

Queued(w) == \E i \in 1..Len(workers) : workers[i] = w
Held(w) == \E a \in Actors : has[a] = w
Referenced(w) == Queued(w) \/ Held(w)

\* NewPoolWithStorage: an empty channel, about to spawn the first worker.
Init ==
    /\ boot = "prefill" /\ workers = << >> /\ closed = FALSE
    /\ mu = "free" /\ pending = 0 /\ stopping = FALSE /\ panicked = FALSE
    /\ at = [a \in Actors |-> IF a = P THEN "overlay" ELSE "idle"]
    /\ req = [a \in Actors |-> "warm"]
    /\ has = [a \in Actors |-> Nil]
    /\ ov = {} /\ cg = {} /\ proc = [w \in Workers |-> "none"]

\* A goroutine of a live daemon at a step; the lock in a state.
At(a, s) == ~panicked /\ at[a] = s
Mu(m) == ~panicked /\ mu = m

-----------------------------------------------------------------------------
(* The host: processes, cgroup directories, overlay mounts.                *)

\* Process.Kill: a process outside its cgroup no longer matters to it.
Kill(p) == IF p \in {"run", "frozen"} THEN "dying"
           ELSE IF p = "out" THEN "none" ELSE p

\* CgroupController.Cleanup signals the members and calls rmdir once, its
\* error ignored: with a member still exiting the directory stays.  Then
\* OverlayManager.Cleanup detaches the mounts and removes the layer.
Cleanup(w, p) ==
    /\ ov' = ov \ {w}
    /\ \/ /\ cg' = cg \ {w}
          /\ proc' = [proc EXCEPT ![w] = "none"]
       \/ /\ p \in {"run", "frozen", "dying"}
          /\ cg' = cg
          /\ proc' = [proc EXCEPT ![w] = Kill(p)]

\* A process exits by itself or of its SIGKILL; a frozen one cannot.
ProcExit(w) ==
    /\ proc[w] \in {"out", "run", "dying"}
    /\ proc' = [proc EXCEPT ![w] = "none"]
    /\ UNCHANGED <<poolVars, panicked, at, req, has, ov, cg>>

-----------------------------------------------------------------------------
(* spawnWorker, run by a handler, by replenish or by NewPool.              *)

\* NewOverlayManager mounts the tmpfs layer of a new worker id.
SpawnOverlay(a) ==
    /\ At(a, "overlay")
    /\ \E w \in Workers :
        /\ ~Referenced(w) /\ w \notin ov /\ w \notin cg /\ proc[w] = "none"
        /\ has' = [has EXCEPT ![a] = w]
        /\ ov' = ov \cup {w}
    /\ at' = [at EXCEPT ![a] = "mount"]
    /\ UNCHANGED <<poolVars, panicked, req, cg, proc>>

\* overlay.Mount: the union mount on top of the layer.
SpawnMount(a) ==
    /\ At(a, "mount")
    /\ at' = [at EXCEPT ![a] = "cgroup"]
    /\ UNCHANGED <<poolVars, panicked, req, has, hostVars>>

\* NewCgroupController creates the directory.
SpawnCgroup(a) ==
    /\ At(a, "cgroup")
    /\ cg' = cg \cup {has[a]}
    /\ at' = [at EXCEPT ![a] = "start"]
    /\ UNCHANGED <<poolVars, panicked, req, has, ov, proc>>

\* ApplyLimits, the child's config, pty.Start or the pipes and cmd.Start.
SpawnStart(a) ==
    /\ At(a, "start")
    /\ proc' = [proc EXCEPT ![has[a]] = "out"]
    /\ at' = [at EXCEPT ![a] = "attach"]
    /\ UNCHANGED <<poolVars, panicked, req, has, ov, cg>>

\* Fault: every worker is returned as soon as it is attached, never frozen.
SpawnAttachOnly(a) ==
    /\ At(a, "attach")
    /\ proc' = [proc EXCEPT ![has[a]] = IF @ = "out" THEN "run" ELSE @]
    /\ at' = [at EXCEPT ![a] = "spawned"]
    /\ UNCHANGED <<poolVars, panicked, req, has, ov, cg>>

\* AttachPID; an interactive worker is returned running.
SpawnAttach(a) ==
    /\ At(a, "attach")
    /\ proc' = [proc EXCEPT ![has[a]] = IF @ = "out" THEN "run" ELSE @]
    /\ at' = [at EXCEPT ![a] = IF req[a] = "tty" THEN "spawned" ELSE "freeze"]
    /\ UNCHANGED <<poolVars, panicked, req, has, ov, cg>>

SpawnFreeze(a) ==
    /\ At(a, "freeze")
    /\ proc' = [proc EXCEPT ![has[a]] = IF @ = "run" THEN "frozen" ELSE @]
    /\ at' = [at EXCEPT ![a] = "spawned"]
    /\ UNCHANGED <<poolVars, panicked, req, has, ov, cg>>

\* Fault: the return after a failed NewCgroupController forgets the overlay.
SpawnFailForgets(a) ==
    /\ ~panicked /\ at[a] \in SpawnSteps
    /\ IF at[a] \in {"overlay", "cgroup"} THEN UNCHANGED hostVars
       ELSE Cleanup(has[a], Kill(proc[has[a]]))
    /\ at' = [at EXCEPT ![a] = "failed"]
    /\ has' = [has EXCEPT ![a] = Nil]
    /\ UNCHANGED <<poolVars, panicked, req>>

\* The error returns of spawnWorker: each undoes what was set up before it.
\* NewOverlayManager undoes its own mount; after cmd.Start the child is
\* killed and not waited for.
SpawnFail(a) ==
    /\ ~panicked /\ at[a] \in SpawnSteps
    /\ IF at[a] = "overlay" THEN UNCHANGED hostVars
       ELSE Cleanup(has[a], Kill(proc[has[a]]))
    /\ at' = [at EXCEPT ![a] = "failed"]
    /\ has' = [has EXCEPT ![a] = Nil]
    /\ UNCHANGED <<poolVars, panicked, req>>

-----------------------------------------------------------------------------
(* The pool's own goroutines: NewPool, replenish and Close.                *)

\* NewPoolWithStorage: p.workers <- w, and the next iteration of the loop.
PrefillSend ==
    /\ boot = "prefill" /\ At(P, "spawned") /\ Len(workers) < Capacity
    /\ workers' = Append(workers, has[P])
    /\ has' = [has EXCEPT ![P] = Nil]
    /\ IF Len(workers) + 1 = Capacity
       THEN boot' = "up" /\ at' = [at EXCEPT ![P] = "idle"]
       ELSE boot' = "prefill" /\ at' = [at EXCEPT ![P] = "overlay"]
    /\ UNCHANGED <<closed, mu, pending, stopping, panicked, req, hostVars>>

\* A prefill spawn failed: p.Close() and an error to the caller.
PrefillFail ==
    /\ boot = "prefill" /\ At(P, "failed")
    /\ boot' = "error" /\ mu' = "close" /\ closed' = TRUE
    /\ at' = [at EXCEPT ![P] = "drain"]
    /\ UNCHANGED <<workers, pending, stopping, panicked, req, has, hostVars>>

\* replenish locks p.mu and starts a spawn.
ReplenishLock ==
    /\ Mu("free") /\ pending > 0 /\ ~closed
    /\ mu' = "replenish" /\ pending' = pending - 1
    /\ at' = [at EXCEPT ![P] = "overlay"]
    /\ UNCHANGED <<boot, workers, closed, stopping, panicked, req, has, hostVars>>

\* replenish after Close: it returns without a worker.
ReplenishClosed ==
    /\ Mu("free") /\ pending > 0 /\ closed
    /\ pending' = pending - 1
    /\ UNCHANGED <<boot, workers, closed, mu, stopping, panicked,
                   at, req, has, hostVars>>

\* p.workers <- w under p.mu: blocks on a full channel, panics on a closed one.
ReplenishSend ==
    /\ Mu("replenish") /\ at[P] = "spawned"
    /\ IF closed
       THEN panicked' = TRUE /\ UNCHANGED <<workers, mu, at, has>>
       ELSE /\ Len(workers) < Capacity
            /\ workers' = Append(workers, has[P])
            /\ mu' = "free"
            /\ at' = [at EXCEPT ![P] = "idle"]
            /\ has' = [has EXCEPT ![P] = Nil]
            /\ UNCHANGED panicked
    /\ UNCHANGED <<boot, closed, pending, stopping, req, hostVars>>

\* Faults: the err == nil test is gone and a nil worker is sent; the error
\* return keeps the lock.
ReplenishSendAnyway ==
    /\ Mu("replenish") /\ at[P] = "failed" /\ Len(workers) < Capacity
    /\ workers' = Append(workers, has[P])
    /\ mu' = "free"
    /\ at' = [at EXCEPT ![P] = "idle"]
    /\ UNCHANGED <<boot, closed, pending, stopping, panicked, req, has, hostVars>>
ReplenishFailLocked ==
    /\ Mu("replenish") /\ at[P] = "failed"
    /\ at' = [at EXCEPT ![P] = "idle"]
    /\ UNCHANGED <<poolVars, panicked, req, has, hostVars>>

\* A failed spawn is dropped: nothing tries again for this slot.
ReplenishFail ==
    /\ Mu("replenish") /\ at[P] = "failed"
    /\ mu' = "free"
    /\ at' = [at EXCEPT ![P] = "idle"]
    /\ UNCHANGED <<boot, workers, closed, pending, stopping, panicked,
                   req, has, hostVars>>

\* Daemon.Stop, on its way to pool.Close.
Stop ==
    /\ boot = "up" /\ ~stopping /\ ~panicked
    /\ stopping' = TRUE
    /\ UNCHANGED <<boot, workers, closed, mu, pending, panicked,
                   at, req, has, hostVars>>

\* Close: lock, closed = true, close(p.workers).
CloseBegin ==
    /\ stopping /\ Mu("free") /\ ~closed
    /\ mu' = "close" /\ closed' = TRUE
    /\ at' = [at EXCEPT ![P] = "drain"]
    /\ UNCHANGED <<boot, workers, pending, stopping, panicked,
                   req, has, hostVars>>

\* One worker of the range over the channel: thaw, kill, clean up, no Wait.
CloseDrain ==
    /\ At(P, "drain") /\ workers # << >>
    /\ workers' = Tail(workers)
    /\ Cleanup(Head(workers), Kill(proc[Head(workers)]))
    /\ UNCHANGED <<boot, closed, mu, pending, stopping, panicked, at, req, has>>

\* Fault: Close receives once instead of ranging over the channel.
CloseEndEarly ==
    /\ At(P, "drain")
    /\ mu' = "free"
    /\ at' = [at EXCEPT ![P] = "idle"]
    /\ UNCHANGED <<boot, workers, closed, pending, stopping, panicked,
                   req, has, hostVars>>

CloseEnd ==
    /\ At(P, "drain") /\ workers = << >>
    /\ mu' = "free"
    /\ at' = [at EXCEPT ![P] = "idle"]
    /\ UNCHANGED <<boot, workers, closed, pending, stopping, panicked,
                   req, has, hostVars>>

-----------------------------------------------------------------------------
(* AcquireCustom and the life of a worker in a handler.                    *)

\* Fault: the worker is handed out and stays in the pool.
AcquireWarmKeep(h) ==
    /\ boot = "up" /\ At(h, "idle") /\ workers # << >>
    /\ at' = [at EXCEPT ![h] = "hold"]
    /\ req' = [req EXCEPT ![h] = "warm"]
    /\ has' = [has EXCEPT ![h] = Head(workers)]
    /\ UNCHANGED <<poolVars, panicked, hostVars>>

\* A worker is taken from the channel, a closed one included, and a
\* replenish goroutine is started for it.
AcquireWarm(h) ==
    /\ boot = "up" /\ At(h, "idle") /\ workers # << >>
    /\ workers' = Tail(workers)
    /\ pending' = pending + 1
    /\ at' = [at EXCEPT ![h] = "hold"]
    /\ req' = [req EXCEPT ![h] = "warm"]
    /\ has' = [has EXCEPT ![h] = Head(workers)]
    /\ UNCHANGED <<boot, closed, mu, stopping, panicked, hostVars>>

\* A receive from the closed and drained channel yields a nil worker.
AcquireClosed(h) ==
    /\ boot = "up" /\ At(h, "idle") /\ workers = << >> /\ closed
    /\ pending' = pending + 1
    /\ at' = [at EXCEPT ![h] = "hold"]
    /\ req' = [req EXCEPT ![h] = "warm"]
    /\ UNCHANGED <<boot, workers, closed, mu, stopping, panicked, has, hostVars>>

\* Fault: the fallback starts a replenish of its own.
AcquireFallbackReplenish(h) ==
    /\ boot = "up" /\ At(h, "idle") /\ workers = << >> /\ ~closed
    /\ pending' = pending + 1
    /\ at' = [at EXCEPT ![h] = "overlay"]
    /\ req' = [req EXCEPT ![h] = "warm"]
    /\ UNCHANGED <<boot, workers, closed, mu, stopping, panicked, has, hostVars>>

\* The select's default: a spawn of the handler's own, and no replenish.
AcquireFallback(h) ==
    /\ boot = "up" /\ At(h, "idle") /\ workers = << >> /\ ~closed
    /\ at' = [at EXCEPT ![h] = "overlay"]
    /\ req' = [req EXCEPT ![h] = "warm"]
    /\ UNCHANGED <<poolVars, panicked, has, hostVars>>

\* Mounts, network, another storage size or a TTY: a spawn, closed or not.
AcquireOnDemand(h) ==
    /\ boot = "up" /\ At(h, "idle")
    /\ at' = [at EXCEPT ![h] = "overlay"]
    /\ \E r \in {"custom", "tty"} : req' = [req EXCEPT ![h] = r]
    /\ UNCHANGED <<poolVars, panicked, has, hostVars>>

\* AcquireCustom returns the worker it spawned.
AcquireReturn(h) ==
    /\ At(h, "spawned")
    /\ at' = [at EXCEPT ![h] = "hold"]
    /\ UNCHANGED <<poolVars, panicked, req, has, hostVars>>

\* AcquireCustom returns an error; the handler reports it and ends.
AcquireError(h) ==
    /\ At(h, "failed")
    /\ at' = [at EXCEPT ![h] = "idle"]
    /\ UNCHANGED <<poolVars, panicked, req, has, hostVars>>

\* worker.ID of a nil worker: the panic ends the daemon.
UseNil(h) ==
    /\ At(h, "hold") /\ has[h] = Nil
    /\ panicked' = TRUE
    /\ UNCHANGED <<poolVars, at, req, has, hostVars>>

\* The network of the job could not be set up: Destroy kills and waits.
Destroy(h) ==
    /\ At(h, "hold") /\ has[h] # Nil /\ req[h] # "warm"
    /\ proc' = [proc EXCEPT ![has[h]] = "none"]
    /\ cg' = cg \ {has[h]}
    /\ ov' = ov \ {has[h]}
    /\ at' = [at EXCEPT ![h] = "idle"]
    /\ has' = [has EXCEPT ![h] = Nil]
    /\ UNCHANGED <<poolVars, panicked, req>>

\* ExecuteStream thaws the cgroup; ExecutePTY finds it running.
ExecBegin(h) ==
    /\ At(h, "hold") /\ has[h] # Nil
    /\ proc' = [proc EXCEPT ![has[h]] = IF @ = "frozen" THEN "run" ELSE @]
    /\ at' = [at EXCEPT ![h] = "exec"]
    /\ UNCHANGED <<poolVars, panicked, req, has, ov, cg>>

\* Fault: a worker that survived its job is put back into the pool.
ExecEndRecycle(h) ==
    /\ At(h, "exec") /\ ~closed /\ Len(workers) < Capacity
    /\ workers' = Append(workers, has[h])
    /\ at' = [at EXCEPT ![h] = "idle"]
    /\ has' = [has EXCEPT ![h] = Nil]
    /\ UNCHANGED <<boot, closed, mu, pending, stopping, panicked, req, hostVars>>

\* cmd.Wait returned, or the context ended, or the payload could not be
\* written: in the last two the child is killed and not waited for before the
\* deferred clean-up.
ExecEnd(h) ==
    /\ At(h, "exec")
    /\ Cleanup(has[h], Kill(proc[has[h]]))
    /\ at' = [at EXCEPT ![h] = "idle"]
    /\ has' = [has EXCEPT ![h] = Nil]
    /\ UNCHANGED <<poolVars, panicked, req>>

-----------------------------------------------------------------------------
Spawn(a) ==
    \/ SpawnOverlay(a) \/ SpawnMount(a) \/ SpawnCgroup(a) \/ SpawnStart(a)
    \/ SpawnAttach(a) \/ SpawnFreeze(a) \/ SpawnFail(a)

Replenish == ReplenishLock \/ ReplenishClosed \/ ReplenishSend \/ ReplenishFail

Handle(h) ==
    \/ AcquireWarm(h) \/ AcquireClosed(h) \/ AcquireFallback(h)
    \/ AcquireOnDemand(h) \/ AcquireReturn(h) \/ AcquireError(h)
    \/ UseNil(h) \/ Destroy(h) \/ ExecBegin(h) \/ ExecEnd(h)

\* Nothing is left to do: the daemon panicked, or NewPool returned an error.
Ended ==
    /\ panicked \/ (boot = "error" /\ at[P] = "idle")
    /\ UNCHANGED vars

Next ==
    \/ \E a \in Actors : Spawn(a)
    \/ \E h \in Handlers : Handle(h)
    \/ PrefillSend \/ PrefillFail \/ Replenish
    \/ Stop \/ CloseBegin \/ CloseDrain \/ CloseEnd
    \/ \E w \in Workers : ProcExit(w)
    \/ Ended

Spec == Init /\ [][Next]_vars

\* Go runs every goroutine that can run.  A goroutine waiting for p.mu gets it
\* even when others keep coming back to it: sync.Mutex hands itself over to a
\* waiter it has starved for a millisecond, hence the strong fairness of Close.
Fairness ==
    /\ \A a \in Actors : WF_vars(Spawn(a))
    /\ WF_vars(PrefillSend \/ PrefillFail)
    /\ WF_vars(Replenish)
    /\ SF_vars(CloseBegin)
    /\ WF_vars(CloseDrain \/ CloseEnd)

FairSpec == Spec /\ Fairness

-----------------------------------------------------------------------------
(* Properties.                                                             *)

\* A worker has one owner: it is in the channel once, or one goroutine refers
\* to it, never both.  Two jobs in one container would break the isolation
\* AcquireCustom exists for.
ExclusiveWorkers ==
    /\ \A i, j \in 1..Len(workers) : workers[i] = workers[j] => i = j
    /\ \A i \in 1..Len(workers), a \in Actors : has[a] # workers[i]
    /\ \A a, b \in Actors : has[a] = has[b] /\ has[a] # Nil => a = b

\* replenish sends while it holds p.mu: the send must find room and an open
\* channel, or the goroutine keeps the lock Close waits for, or panics.
ReplenishNeverBlocks ==
    mu = "replenish" => Len(workers) < Capacity /\ ~closed

\* A worker waiting in the channel has its overlay and its cgroup and does not
\* run: spawnWorker froze it, or it died before it was frozen.
WarmWorkersIntact ==
    \A i \in 1..Len(workers) :
        /\ workers[i] \in ov /\ workers[i] \in cg
        /\ proc[workers[i]] \in {"frozen", "none"}

\* A mount, or a process nobody signalled, belongs to a worker somebody still
\* refers to: no error return of spawnWorker, no end of a job and no Close
\* forgets one.
NoOrphan ==
    \A w \in Workers :
        w \in ov \/ proc[w] \in {"out", "run", "frozen"} => Referenced(w)

\* Once Close has returned, no worker is in the channel, however its drain
\* raced with replenish and with handlers receiving from the closed channel.
NoIdleAfterClose == closed /\ mu # "close" => workers = << >>

\* Daemon.Stop gets through pool.Close: p.mu is always released to it and the
\* drain ends.
StopClosesPool == stopping ~> (closed /\ mu # "close") \/ panicked

\* Leased, idle, being built, or gone: what a worker is to the rest.
Leased(w) == \E h \in Handlers : has[h] = w /\ at[h] \in {"hold", "exec"}
lifeOf == [w \in Workers |->
    IF Queued(w) THEN "idle" ELSE IF Leased(w) THEN "leased"
    ELSE IF Held(w) THEN "building" ELSE "absent"]
Life == INSTANCE WorkerLife WITH life <- lifeOf

\* The pool implements WorkerLife: in every interleaving of handlers, replenish
\* and Close a worker serves one job and is never queued or leased again.
SingleUse == Life!Spec

=============================================================================
