------------------------------- MODULE Daemon -------------------------------
(***************************************************************************)
(* The life of gojaild processes: the pidfile lock and the recovery sweeps *)
(* of Daemon.Start, the shutdown sequence of Daemon.Stop, and a crash at   *)
(* any point (server.go, recovery.go).  A pidfile is an inode under a      *)
(* path: flock locks the inode, Remove unlinks the path.  A container is   *)
(* what a daemon, or a direct `gojail run` without daemon, has on the host *)
(***************************************************************************)
EXTENDS Naturals

CONSTANTS
    Daemons,      \* daemon processes; one may start again when it is down
    Inodes,       \* inodes the pidfile path may name
    Containers,
    None

ASSUME NoneAssumption == None \notin Inodes \cup Daemons

Direct == "direct"
Orphan == "orphan"
ASSUME OwnerAssumption == {Direct, Orphan} \cap (Daemons \cup {None}) = {}

Starting == {"opened", "locked", "layers", "cgroups"}
Steps == Starting \cup {"down", "pool", "serve", "stopping", "unlock", "remove"}
\* Between a successful AcquireDaemonLock and the LOCK_UN of Stop.
Owning == Steps \ {"down", "opened", "remove"}

VARIABLES
    pc,        \* where each daemon is
    fd,        \* the inode its lock file descriptor refers to
    pidfile,   \* the inode /var/run/gojaild.pid names
    lock,      \* flock holder of each inode
    held,      \* why connections without a container keep their handlers: "request",
               \* none came to decode, or "stats", its client does not read
    removed,   \* a Stop has unlinked the pidfile
    by,        \* who runs the container: a daemon, Direct or Orphan
    run,       \* its processes: "none", "out" (started, not in the cgroup yet),
               \* "live" (in it) or "killed" (in it and still exiting)
    cg, mnt,   \* containers whose cgroup directory, overlay mount exists
    missed,    \* running containers that the last sweep could not kill
    stuck      \* containers whose handler is blocked for good: in the payload write,
               \* or in a write to a client that does not read

lockVars == <<fd, pidfile, lock, removed>>
hostVars == <<by, run, cg, mnt, missed, stuck>>
vars == <<pc, fd, pidfile, lock, held, removed, by, run, cg, mnt, missed, stuck>>

TypeOK ==
    /\ pc \in [Daemons -> Steps]
    /\ fd \in [Daemons -> Inodes \cup {None}]
    /\ pidfile \in Inodes \cup {None}
    /\ lock \in [Inodes -> Daemons \cup {None}]
    /\ held \in [Daemons -> SUBSET {"request", "stats"}]
    /\ removed \in BOOLEAN
    /\ by \in [Containers -> Daemons \cup {Direct, Orphan, None}]
    /\ run \in [Containers -> {"none", "out", "live", "killed"}]
    /\ cg \subseteq Containers
    /\ mnt \subseteq Containers
    /\ missed \subseteq Containers
    /\ stuck \subseteq Containers

Init ==
    /\ pc = [d \in Daemons |-> "down"]
    /\ fd = [d \in Daemons |-> None]
    /\ pidfile = None
    /\ lock = [i \in Inodes |-> None]
    /\ held = [d \in Daemons |-> {}]
    /\ removed = FALSE
    /\ by = [c \in Containers |-> None]
    /\ run = [c \in Containers |-> "none"]
    /\ cg = {} /\ mnt = {} /\ missed = {} /\ stuck = {}

Goto(d, s) == pc' = [pc EXCEPT ![d] = s]

-----------------------------------------------------------------------------
(* AcquireDaemonLock.                                                      *)

\* OpenFile with O_CREATE: the file the path names, or a new one.
Open(d) ==
    /\ pc[d] = "down"
    /\ \E i \in Inodes :
        /\ IF pidfile # None THEN i = pidfile
           ELSE \A e \in Daemons : fd[e] # i
        /\ pidfile' = i
        /\ fd' = [fd EXCEPT ![d] = i]
    /\ Goto(d, "opened")
    /\ UNCHANGED <<lock, held, removed, hostVars>>

\* Fault: the error of flock is ignored.
FlockAnyway(d) ==
    /\ pc[d] = "opened"
    /\ lock' = [lock EXCEPT ![fd[d]] = d]
    /\ Goto(d, "locked")
    /\ UNCHANGED <<fd, pidfile, held, removed, hostVars>>

\* flock, non-blocking and exclusive, then the pid is written.
Flock(d) ==
    /\ pc[d] = "opened" /\ lock[fd[d]] = None
    /\ lock' = [lock EXCEPT ![fd[d]] = d]
    /\ Goto(d, "locked")
    /\ UNCHANGED <<fd, pidfile, held, removed, hostVars>>

\* Another instance has it: the start is aborted.
FlockBusy(d) ==
    /\ pc[d] = "opened" /\ lock[fd[d]] # None
    /\ fd' = [fd EXCEPT ![d] = None]
    /\ Goto(d, "down")
    /\ UNCHANGED <<pidfile, lock, held, removed, hostVars>>

-----------------------------------------------------------------------------
(* The rest of Start.                                                      *)

\* SweepStaleMounts: every mount below the layers directory, whoever made it;
\* one that cannot be detached is only logged.
SweepMounts(d) ==
    /\ pc[d] = "locked"
    /\ mnt' \in SUBSET mnt
    /\ Goto(d, "layers")
    /\ UNCHANGED <<lockVars, held, by, run, cg, missed, stuck>>

\* ResetLayersTree sweeps the mounts again and removes the layers.
ResetLayers(d) ==
    /\ pc[d] = "layers"
    /\ mnt' \in SUBSET mnt
    /\ Goto(d, "cgroups")
    /\ UNCHANGED <<lockVars, held, by, run, cg, missed, stuck>>

\* Cgroups with processes in them, and those of them nobody has killed.
Occupied == {c \in cg : run[c] \in {"live", "killed"}}
Running == {c \in cg : run[c] = "live"}

\* Fault: only directories left without processes are handled.
SweepCgroupsIdle(d) ==
    /\ pc[d] = "cgroups"
    /\ cg' = Occupied /\ missed' = {}
    /\ Goto(d, "pool")
    /\ UNCHANGED <<lockVars, held, by, run, mnt, stuck>>

\* SweepStaleCgroups writes cgroup.kill of every warm- and jail- directory and
\* calls rmdir right after it, both errors ignored.  The kill is missed where
\* the kernel has no such file or the write fails; gone is what was empty, and
\* the set of those whose processes were quick enough.
SweepCgroups(d) ==
    /\ pc[d] = "cgroups"
    /\ missed' \in SUBSET Running
    /\ \E quick \in SUBSET (Occupied \ missed') :
        /\ cg' = Occupied \ quick
        /\ run' = [c \in Containers |->
                    IF c \in quick THEN "none"
                    ELSE IF c \in Running \ missed' THEN "killed" ELSE run[c]]
    /\ Goto(d, "pool")
    /\ UNCHANGED <<lockVars, held, by, mnt, stuck>>

\* ReadDir of the cgroup root failed: Start logs it and goes on.
SweepCgroupsError(d) ==
    /\ pc[d] = "cgroups"
    /\ missed' = Running
    /\ Goto(d, "pool")
    /\ UNCHANGED <<lockVars, held, by, run, cg, mnt, stuck>>

\* The pool is filled, the stale socket replaced, the accept loop started.
Serve(d) ==
    /\ pc[d] = "pool"
    /\ Goto(d, "serve")
    /\ UNCHANGED <<lockVars, held, hostVars>>

-----------------------------------------------------------------------------
(* Containers and connections.                                             *)

\* spawnWorker of a daemon's pool and handlers, or Runner.Run without daemon:
\* overlay, cgroup, cmd.Start.  Once Stop has begun, only the handler of a
\* connection accepted before it may still do so, when its request comes.
Launch(c) ==
    /\ run[c] = "none" /\ c \notin cg \cup mnt
    /\ \/ \E o \in {d \in Daemons : pc[d] \in {"pool", "serve"}} \cup {Direct} :
            by' = [by EXCEPT ![c] = o] /\ UNCHANGED held
       \/ \E d \in Daemons :
            /\ pc[d] = "stopping" /\ "request" \in held[d]
            /\ by' = [by EXCEPT ![c] = d]
            /\ held' = [held EXCEPT ![d] = @ \ {"request"}]
    /\ run' = [run EXCEPT ![c] = "out"]
    /\ cg' = cg \cup {c} /\ mnt' = mnt \cup {c}
    /\ UNCHANGED <<pc, lockVars, missed, stuck>>

\* AttachPID, by the owner that started the process.
Attach(c) ==
    /\ run[c] = "out" /\ by[c] \in Daemons \cup {Direct}
    /\ run' = [run EXCEPT ![c] = "live"]
    /\ UNCHANGED <<pc, lockVars, held, by, cg, mnt, missed, stuck>>

\* The container's processes exit: the job ends, is killed, or was swept.
ProcExit(c) ==
    /\ run[c] # "none"
    /\ run' = [run EXCEPT ![c] = "none"]
    /\ UNCHANGED <<pc, lockVars, held, by, cg, mnt, missed, stuck>>

\* Its owner cleans up after it, errors of rmdir and unmount ignored; an orphan
\* has no owner.
CleanUp(c) ==
    /\ run[c] = "none" /\ by[c] \in Daemons \cup {Direct} /\ c \notin stuck
    /\ by' = [by EXCEPT ![c] = None]
    /\ cg' \in {cg, cg \ {c}} /\ mnt' \in {mnt, mnt \ {c}}
    /\ UNCHANGED <<pc, lockVars, held, run, missed, stuck>>

\* The handler of a job blocks: its script exceeds the pipe and is not read, or
\* its client does not read the output.
Block(c) ==
    /\ by[c] \in Daemons /\ pc[by[c]] \in {"serve", "stopping"} /\ run[c] # "out"
    /\ stuck' = stuck \cup {c}
    /\ UNCHANGED <<pc, lockVars, held, by, run, cg, mnt, missed>>

\* handleConnection blocks in Decode, without a deadline.
IdleConnect(d) ==
    /\ pc[d] = "serve"
    /\ held' = [held EXCEPT ![d] = @ \cup {"request"}]
    /\ UNCHANGED <<pc, lockVars, hostVars>>

\* handleStatsStream blocks in a write, where it does not see the shutdown.
StatsBlock(d) ==
    /\ pc[d] \in {"serve", "stopping"}
    /\ held' = [held EXCEPT ![d] = @ \cup {"stats"}]
    /\ UNCHANGED <<pc, lockVars, hostVars>>

\* The last such client hangs up.
HangUp(d) ==
    /\ \E k \in held[d] : held' = [held EXCEPT ![d] = @ \ {k}]
    /\ UNCHANGED <<pc, lockVars, hostVars>>

-----------------------------------------------------------------------------
(* Stop, and a crash.                                                      *)

\* Stop closes shutdown, the listener and the pool.
Stop(d) ==
    /\ pc[d] = "serve"
    /\ Goto(d, "stopping")
    /\ UNCHANGED <<lockVars, held, hostVars>>

\* Fault: Stop waits for an empty cgroup tree instead of its handlers.
StopWaitTree(d) ==
    /\ pc[d] = "stopping" /\ held[d] = {} /\ cg = {}
    /\ Goto(d, "unlock")
    /\ UNCHANGED <<lockVars, held, hostVars>>

\* wg.Wait returns when no handler is left: no job, no connection that is held.
StopWait(d) ==
    /\ pc[d] = "stopping" /\ held[d] = {}
    /\ \A c \in Containers : by[c] # d
    /\ Goto(d, "unlock")
    /\ UNCHANGED <<lockVars, held, hostVars>>

\* flock LOCK_UN.
Unlock(d) ==
    /\ pc[d] = "unlock"
    /\ lock' = [lock EXCEPT ![fd[d]] = None]
    /\ Goto(d, "remove")
    /\ UNCHANGED <<fd, pidfile, held, removed, hostVars>>

\* The descriptor is closed and the path removed, whatever file it names now.
RemovePidfile(d) ==
    /\ pc[d] = "remove"
    /\ fd' = [fd EXCEPT ![d] = None]
    /\ pidfile' = None /\ removed' = TRUE
    /\ Goto(d, "down")
    /\ UNCHANGED <<lock, held, hostVars>>

\* Fault: the lock is a mark in the file, which outlives its process.
DieLocked(d) ==
    /\ pc[d] # "down"
    /\ lock' = [i \in Inodes |-> IF lock[i] = d THEN Orphan ELSE lock[i]]
    /\ fd' = [fd EXCEPT ![d] = None]
    /\ held' = [held EXCEPT ![d] = {}]
    /\ by' = [c \in Containers |-> IF by[c] = d THEN Orphan ELSE by[c]]
    /\ stuck' = {c \in stuck : by[c] # d}
    /\ Goto(d, "down")
    /\ UNCHANGED <<pidfile, removed, run, cg, mnt, missed>>

\* A crash, or an error return of Start: the process is gone, the kernel drops
\* its lock, and with KillMode=process its containers stay.
Die(d) ==
    /\ pc[d] # "down"
    /\ lock' = [i \in Inodes |-> IF lock[i] = d THEN None ELSE lock[i]]
    /\ fd' = [fd EXCEPT ![d] = None]
    /\ held' = [held EXCEPT ![d] = {}]
    /\ by' = [c \in Containers |-> IF by[c] = d THEN Orphan ELSE by[c]]
    /\ stuck' = {c \in stuck : by[c] # d}
    /\ Goto(d, "down")
    /\ UNCHANGED <<pidfile, removed, run, cg, mnt, missed>>

Start(d) == Open(d) \/ Flock(d) \/ FlockBusy(d) \/ SweepMounts(d)
            \/ ResetLayers(d) \/ SweepCgroups(d) \/ SweepCgroupsError(d) \/ Serve(d)

Shutdown(d) == StopWait(d) \/ Unlock(d) \/ RemovePidfile(d)

Next ==
    \/ \E d \in Daemons :
        \/ Start(d) \/ IdleConnect(d) \/ StatsBlock(d) \/ HangUp(d)
        \/ Stop(d) \/ Shutdown(d) \/ Die(d)
    \/ \E c \in Containers :
        Launch(c) \/ Attach(c) \/ ProcExit(c) \/ CleanUp(c) \/ Block(c)

Spec == Init /\ [][Next]_vars

\* A container whose end the shutdown of its daemon brings about.
Closing(c) == by[c] \in Daemons /\ pc[by[c]] = "stopping" /\ c \notin stuck

\* The goroutine in Stop runs.  Close kills the warm workers of a stopping daemon
\* and their deadlines its jobs, and the handlers clean up, except one that is
\* stuck.  Nothing is asked of clients, programs, direct runs or orphans.
Fairness ==
    /\ \A d \in Daemons : WF_vars(Shutdown(d))
    /\ \A c \in Containers :
        WF_vars(Closing(c) /\ ProcExit(c)) /\ WF_vars(Closing(c) /\ CleanUp(c))

FairSpec == Spec /\ Fairness

-----------------------------------------------------------------------------
(* Properties.                                                             *)

\* "ensures only one gojaild instance runs concurrently using flock".
OneDaemon ==
    \A d, e \in Daemons : pc[d] \in Owning /\ pc[e] \in Owning => d = e

\* As long as no Stop has unlinked the pidfile, there is one daemon at most, at
\* whatever step daemons crash and start again.
OneDaemonUntilStop == removed \/ OneDaemon

\* A daemon that finished its recovery has no predecessor's container running
\* in its cgroup beside its own, wherever in its start, service or stop that one
\* crashed, except one that its sweep could not kill.
OrphansKilled ==
    \A d \in Daemons, c \in Containers :
        ~removed /\ pc[d] \in {"pool", "serve", "stopping"} /\ by[c] = Orphan
            => run[c] # "live" \/ c \in missed

\* A Stop that has begun ends with the daemon down, whatever direct runs and the
\* containers of other daemons do, unless a client holds it up: by a connection
\* without a request, by stats it does not read, or by a job whose handler is
\* blocked in the payload write or in its output.
StopReturns ==
    \A d \in Daemons :
        pc[d] = "stopping"
            ~> \/ pc[d] = "down" \/ held[d] # {}
               \/ \E c \in stuck : by[c] = d

=============================================================================
