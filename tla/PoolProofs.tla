----------------------------- MODULE PoolProofs -----------------------------
(***************************************************************************)
(* Proofs about Pool, for every Capacity and every set of handlers.        *)
(***************************************************************************)
EXTENDS Pool, TLAPS

USE CapacityAssumption, ActorAssumption, NilAssumption

\* Cleanup keeps the host's types, whatever state the process is left in.
LEMMA CleanupType ==
    ASSUME TypeOK, NEW w \in Workers, NEW p \in Procs, Cleanup(w, p)
    PROVE  ov' \subseteq Workers /\ cg' \subseteq Workers
           /\ proc' \in [Workers -> Procs]
  BY DEF TypeOK, Cleanup, Kill, Procs

\* A spawn failing half way through cleans up a worker, not Nil.
HasWorker ==
    \A a \in Actors :
        /\ at[a] \in (SpawnSteps \ {"overlay"}) \cup {"spawned", "exec"}
            => has[a] \in Workers
        /\ at[a] \in {"idle", "overlay", "failed", "drain"} => has[a] = Nil

\* A worker that is sent keeps the type of the channel.
LEMMA AppendType ==
    ASSUME NEW S, NEW q \in Seq(S), NEW e \in S
    PROVE  Append(q, e) \in Seq(S)
OBVIOUS

\* Types are kept by every step, given that an actor past NewOverlayManager
\* refers to a worker.
LEMMA TypeStep ==
    ASSUME TypeOK, HasWorker, [Next]_vars
    PROVE  TypeOK'
<1> USE DEF TypeOK, Steps, SpawnSteps, Requests, Actors, poolVars, hostVars, At, Mu
<1>1. ASSUME NEW a \in Actors, Spawn(a) PROVE TypeOK'
  <2>1. CASE SpawnOverlay(a) BY <2>1 DEF SpawnOverlay
  <2>2. CASE SpawnMount(a) BY <2>2 DEF SpawnMount
  <2>3. CASE SpawnCgroup(a) BY <2>3 DEF SpawnCgroup, HasWorker
  <2>4. CASE SpawnStart(a) BY <2>4 DEF SpawnStart, HasWorker, Procs
  <2>5. CASE SpawnAttach(a) BY <2>5 DEF SpawnAttach, HasWorker, Procs
  <2>6. CASE SpawnFreeze(a) BY <2>6 DEF SpawnFreeze, HasWorker, Procs
  <2>7. CASE SpawnFail(a) BY <2>7 DEF SpawnFail, HasWorker, Cleanup, Kill, Procs
  <2> QED BY <1>1, <2>1, <2>2, <2>3, <2>4, <2>5, <2>6, <2>7 DEF Spawn
<1>2. ASSUME NEW h \in Handlers, Handle(h) PROVE TypeOK'
  <2>1. CASE AcquireWarm(h) BY <2>1 DEF AcquireWarm
  <2>2. CASE AcquireClosed(h) BY <2>2 DEF AcquireClosed
  <2>3. CASE AcquireFallback(h) BY <2>3 DEF AcquireFallback
  <2>4. CASE AcquireOnDemand(h) BY <2>4 DEF AcquireOnDemand
  <2>5. CASE AcquireReturn(h) BY <2>5 DEF AcquireReturn
  <2>6. CASE AcquireError(h) BY <2>6 DEF AcquireError
  <2>7. CASE UseNil(h) BY <2>7 DEF UseNil
  <2>8. CASE Destroy(h) BY <2>8 DEF Destroy, Procs
  <2>9. CASE ExecBegin(h) BY <2>9 DEF ExecBegin, Procs
  <2>10. CASE ExecEnd(h) BY <2>10 DEF ExecEnd, HasWorker, Cleanup, Kill, Procs
  <2> QED BY <1>2, <2>1, <2>2, <2>3, <2>4, <2>5, <2>6, <2>7, <2>8, <2>9, <2>10 DEF Handle
<1>3. CASE PrefillSend BY <1>3 DEF PrefillSend, HasWorker
<1>4. CASE PrefillFail BY <1>4 DEF PrefillFail
<1>5. CASE Replenish
  <2>1. CASE ReplenishLock BY <2>1 DEF ReplenishLock
  <2>2. CASE ReplenishClosed BY <2>2 DEF ReplenishClosed
  <2>3. CASE ReplenishSend
    <3>1. CASE closed BY <2>3, <3>1 DEF ReplenishSend
    <3>2. CASE ~closed
      <4>1. has[P] \in Workers BY <2>3 DEF ReplenishSend, HasWorker
      <4>a. workers' = Append(workers, has[P]) BY <2>3, <3>2 DEF ReplenishSend
      <4>2. workers' \in Seq(Workers) BY <4>1, <4>a, AppendType
      <4>3. at' \in [Actors -> Steps] /\ has' \in [Actors -> Workers \cup {Nil}]
        BY <2>3, <3>2 DEF ReplenishSend
      <4> QED BY <2>3, <3>2, <4>2, <4>3 DEF ReplenishSend
    <3> QED BY <3>1, <3>2
  <2>4. CASE ReplenishFail BY <2>4 DEF ReplenishFail
  <2> QED BY <1>5, <2>1, <2>2, <2>3, <2>4 DEF Replenish
<1>6. CASE Stop BY <1>6 DEF Stop
<1>7. CASE CloseBegin BY <1>7 DEF CloseBegin
<1>8. CASE CloseDrain
  <2>1. Head(workers) \in Workers /\ Tail(workers) \in Seq(Workers)
    BY <1>8 DEF CloseDrain
  <2>2. Kill(proc[Head(workers)]) \in Procs BY <2>1 DEF Kill, Procs
  <2>3. Cleanup(Head(workers), Kill(proc[Head(workers)])) BY <1>8 DEF CloseDrain
  <2>4. ov' \subseteq Workers /\ cg' \subseteq Workers /\ proc' \in [Workers -> Procs]
    BY <2>1, <2>2, <2>3, CleanupType
  <2> QED BY <1>8, <2>1, <2>4 DEF CloseDrain
<1>9. CASE CloseEnd BY <1>9 DEF CloseEnd
<1>10. ASSUME NEW w \in Workers, ProcExit(w) PROVE TypeOK' BY <1>10 DEF ProcExit, Procs
<1>11. CASE Ended \/ UNCHANGED vars BY <1>11 DEF Ended, vars
<1> QED BY <1>1, <1>2, <1>3, <1>4, <1>5, <1>6, <1>7, <1>8, <1>9, <1>10, <1>11 DEF Next

-----------------------------------------------------------------------------
(* The control of the pool: who may be where, phase by phase.              *)

Working == SpawnSteps \cup {"spawned", "failed"}

Phases ==
    /\ at[P] \in Working \cup {"idle", "drain"}
    /\ mu = "close" => at[P] = "drain" /\ closed
    /\ mu = "replenish" => at[P] \in Working /\ boot = "up" /\ ~closed
    /\ mu = "free" => at[P] = "idle" \/ boot = "prefill"
    /\ boot = "prefill" => mu = "free" /\ ~closed /\ at[P] \in Working
    /\ boot # "up" => pending = 0 /\ ~stopping /\ \A h \in Handlers : at[h] = "idle"
    /\ boot = "error" => closed
    /\ \A h \in Handlers : at[h] # "drain"

\* Slots of the channel that a replenish is about to fill.
Refilling == pending + (IF mu = "replenish" THEN 1 ELSE 0)

\* Every replenish that is under way has the room of the worker taken for it.
Room == ~closed => Len(workers) + Refilling <= Capacity

\* An actor refers to a worker from NewOverlayManager until it hands it over.
LEMMA HasWorkerStep ==
    ASSUME TypeOK, HasWorker, Phases, [Next]_vars
    PROVE  HasWorker'
<1> USE DEF TypeOK, HasWorker, Steps, SpawnSteps, Actors, At, Mu
<1>1. ASSUME NEW a \in Actors, Spawn(a) PROVE HasWorker'
  BY <1>1 DEF Spawn, SpawnOverlay, SpawnMount, SpawnCgroup, SpawnStart,
              SpawnAttach, SpawnFreeze, SpawnFail
<1>2. ASSUME NEW h \in Handlers, Handle(h) PROVE HasWorker'
  <2>1. CASE AcquireWarm(h) BY <2>1 DEF AcquireWarm
  <2>2. CASE AcquireClosed(h) \/ AcquireFallback(h) \/ AcquireOnDemand(h)
    BY <2>2 DEF AcquireClosed, AcquireFallback, AcquireOnDemand
  <2>3. CASE AcquireReturn(h) \/ AcquireError(h) \/ UseNil(h)
    BY <2>3 DEF AcquireReturn, AcquireError, UseNil
  <2>4. CASE Destroy(h) \/ ExecBegin(h) \/ ExecEnd(h)
    BY <2>4 DEF Destroy, ExecBegin, ExecEnd
  <2> QED BY <1>2, <2>1, <2>2, <2>3, <2>4 DEF Handle
<1>3. CASE PrefillSend \/ PrefillFail BY <1>3 DEF PrefillSend, PrefillFail
<1>4. CASE Replenish
  <2>1. CASE ReplenishLock \/ ReplenishClosed \/ ReplenishFail
    BY <2>1 DEF ReplenishLock, ReplenishClosed, ReplenishFail, Phases, Working
  <2>2. CASE ReplenishSend BY <2>2 DEF ReplenishSend
  <2> QED BY <1>4, <2>1, <2>2 DEF Replenish
<1>5. CASE Stop \/ CloseBegin \/ CloseDrain \/ CloseEnd
  BY <1>5 DEF Stop, CloseBegin, CloseDrain, CloseEnd, Phases, Working
<1>6. CASE UNCHANGED <<at, has>> BY <1>6
<1> QED BY <1>1, <1>2, <1>3, <1>4, <1>5, <1>6 DEF Next, ProcExit, Ended, vars

\* The phases of the pool follow one another as NewPool, p.mu and Close say.
LEMMA PhasesStep ==
    ASSUME TypeOK, Phases, [Next]_vars
    PROVE  Phases'
<1> USE DEF TypeOK, Phases, Working, Steps, SpawnSteps, Actors, At, Mu, poolVars
<1>1. ASSUME NEW a \in Actors, Spawn(a) PROVE Phases'
  BY <1>1 DEF Spawn, SpawnOverlay, SpawnMount, SpawnCgroup, SpawnStart,
              SpawnAttach, SpawnFreeze, SpawnFail
<1>2. ASSUME NEW h \in Handlers, Handle(h) PROVE Phases'
  BY <1>2 DEF Handle, AcquireWarm, AcquireClosed, AcquireFallback,
              AcquireOnDemand, AcquireReturn, AcquireError, UseNil, Destroy,
              ExecBegin, ExecEnd
<1>3. CASE PrefillSend \/ PrefillFail BY <1>3 DEF PrefillSend, PrefillFail
<1>4. CASE Replenish
  BY <1>4 DEF Replenish, ReplenishLock, ReplenishClosed, ReplenishFail, ReplenishSend
<1>5. CASE Stop \/ CloseBegin \/ CloseDrain \/ CloseEnd
  BY <1>5 DEF Stop, CloseBegin, CloseDrain, CloseEnd
<1>6. CASE UNCHANGED <<boot, closed, mu, pending, stopping, at>> BY <1>6
<1> QED BY <1>1, <1>2, <1>3, <1>4, <1>5, <1>6 DEF Next, ProcExit, Ended, vars

\* A worker leaves the channel for each replenish that starts, and a worker
\* enters it for at most each replenish that ends.
LEMMA RoomStep ==
    ASSUME TypeOK, Phases, Room, [Next]_vars
    PROVE  Room'
<1> USE DEF TypeOK, Room, Refilling, poolVars, At, Mu
<1>1. CASE \E a \in Actors : Spawn(a)
  BY <1>1 DEF Spawn, SpawnOverlay, SpawnMount, SpawnCgroup, SpawnStart,
              SpawnAttach, SpawnFreeze, SpawnFail
<1>2. ASSUME NEW h \in Handlers, Handle(h) PROVE Room'
  <2>1. CASE AcquireWarm(h) BY <2>1 DEF AcquireWarm
  <2>2. CASE AcquireClosed(h) BY <2>2 DEF AcquireClosed
  <2>3. CASE UNCHANGED poolVars BY <2>3
  <2> QED BY <1>2, <2>1, <2>2, <2>3
          DEF Handle, AcquireFallback, AcquireOnDemand, AcquireReturn,
              AcquireError, UseNil, Destroy, ExecBegin, ExecEnd
<1>3. CASE PrefillSend \/ PrefillFail BY <1>3 DEF PrefillSend, PrefillFail, Phases
<1>4. CASE Replenish
  <2>1. CASE ReplenishLock \/ ReplenishClosed \/ ReplenishFail
    BY <2>1 DEF ReplenishLock, ReplenishClosed, ReplenishFail
  <2>2. CASE ReplenishSend
    <3>1. ~closed /\ mu = "replenish" BY <2>2 DEF ReplenishSend, Phases
    <3>2. Len(workers') = Len(workers) + 1 BY <2>2, <3>1 DEF ReplenishSend
    <3> QED BY <2>2, <3>1, <3>2 DEF ReplenishSend
  <2> QED BY <1>4, <2>1, <2>2 DEF Replenish
<1>5. CASE Stop \/ CloseBegin \/ CloseEnd BY <1>5 DEF Stop, CloseBegin, CloseEnd
<1>6. CASE CloseDrain BY <1>6 DEF CloseDrain, Phases
<1>7. CASE UNCHANGED poolVars BY <1>7
<1> QED BY <1>1, <1>2, <1>3, <1>4, <1>5, <1>6, <1>7 DEF Next, ProcExit, Ended, vars

\* Once the drain is over nothing enters the closed channel.
LEMMA NoIdleStep ==
    ASSUME TypeOK, Phases, NoIdleAfterClose, [Next]_vars
    PROVE  NoIdleAfterClose'
<1> USE DEF TypeOK, NoIdleAfterClose, poolVars, At, Mu
<1>1. CASE \E a \in Actors : Spawn(a)
  BY <1>1 DEF Spawn, SpawnOverlay, SpawnMount, SpawnCgroup, SpawnStart,
              SpawnAttach, SpawnFreeze, SpawnFail
<1>2. ASSUME NEW h \in Handlers, Handle(h) PROVE NoIdleAfterClose'
  BY <1>2 DEF Handle, AcquireWarm, AcquireClosed, AcquireFallback,
              AcquireOnDemand, AcquireReturn, AcquireError, UseNil, Destroy,
              ExecBegin, ExecEnd
<1>3. CASE PrefillSend \/ PrefillFail BY <1>3 DEF PrefillSend, PrefillFail, Phases
<1>4. CASE Replenish
  BY <1>4 DEF Replenish, ReplenishLock, ReplenishClosed, ReplenishFail,
              ReplenishSend, Phases
<1>5. CASE Stop \/ CloseBegin \/ CloseDrain \/ CloseEnd
  BY <1>5 DEF Stop, CloseBegin, CloseDrain, CloseEnd, Phases
<1>6. CASE UNCHANGED poolVars BY <1>6
<1> QED BY <1>1, <1>2, <1>3, <1>4, <1>5, <1>6 DEF Next, ProcExit, Ended, vars

-----------------------------------------------------------------------------
(* Ownership of workers.                                                   *)

\* Appending a worker nobody else has keeps the channel free of duplicates.
LEMMA AppendKeepsExclusive ==
    ASSUME TypeOK, ExclusiveWorkers, NEW a \in Actors, has[a] \in Workers,
           workers' = Append(workers, has[a]), has' = [has EXCEPT ![a] = Nil]
    PROVE  ExclusiveWorkers'
  BY DEF TypeOK, ExclusiveWorkers

\* Taking the head for an actor that had none keeps the owners apart.
LEMMA TakeKeepsExclusive ==
    ASSUME TypeOK, ExclusiveWorkers, NEW a \in Actors, workers # << >>,
           workers' = Tail(workers),
           has' = [has EXCEPT ![a] = Head(workers)] \/ has' = has
    PROVE  ExclusiveWorkers'
<1>1. /\ Len(workers') = Len(workers) - 1 /\ Len(workers) \in Nat \ {0}
      /\ \A i \in 1..Len(workers') : workers'[i] = workers[i + 1]
      /\ Head(workers) = workers[1]
  BY DEF TypeOK
<1>2. workers[1] \in Workers BY <1>1 DEF TypeOK
<1> QED BY <1>1, <1>2 DEF TypeOK, ExclusiveWorkers

\* No step gives a worker a second owner.
LEMMA ExclusiveStep ==
    ASSUME TypeOK, HasWorker, Phases, ExclusiveWorkers, [Next]_vars
    PROVE  ExclusiveWorkers'
<1> USE DEF TypeOK, poolVars, Actors, At, Mu
<1>0. CASE UNCHANGED <<workers, has>> BY <1>0 DEF ExclusiveWorkers
<1>0a. ASSUME NEW a \in Actors, workers' = workers, has' = [has EXCEPT ![a] = Nil]
       PROVE  ExclusiveWorkers'
  BY <1>0a DEF ExclusiveWorkers
<1>1. ASSUME NEW a \in Actors, Spawn(a) PROVE ExclusiveWorkers'
  <2>1. CASE SpawnOverlay(a)
    <3>1. PICK w \in Workers : ~Referenced(w) /\ has' = [has EXCEPT ![a] = w]
      BY <2>1 DEF SpawnOverlay
    <3>2. workers' = workers BY <2>1 DEF SpawnOverlay
    <3> QED BY <3>1, <3>2 DEF ExclusiveWorkers, Referenced, Queued, Held
  <2>2. CASE SpawnFail(a) BY <2>2, <1>0a DEF SpawnFail
  <2>3. CASE UNCHANGED <<workers, has>> BY <1>0, <2>3
  <2> QED BY <1>1, <2>1, <2>2, <2>3
          DEF Spawn, SpawnMount, SpawnCgroup, SpawnStart, SpawnAttach, SpawnFreeze
<1>2. ASSUME NEW h \in Handlers, Handle(h) PROVE ExclusiveWorkers'
  <2>1. CASE AcquireWarm(h) BY <2>1, TakeKeepsExclusive DEF AcquireWarm
  <2>2. CASE Destroy(h) \/ ExecEnd(h) BY <2>2, <1>0a DEF Destroy, ExecEnd
  <2>3. CASE UNCHANGED <<workers, has>> BY <1>0, <2>3
  <2> QED BY <1>2, <2>1, <2>2, <2>3
          DEF Handle, AcquireClosed, AcquireFallback, AcquireOnDemand,
              AcquireReturn, AcquireError, UseNil, ExecBegin
<1>3. CASE PrefillSend
  <2>1. has[P] \in Workers BY <1>3 DEF PrefillSend, HasWorker
  <2> QED BY <1>3, <2>1, AppendKeepsExclusive DEF PrefillSend
<1>4. CASE ReplenishSend
  <2>1. has[P] \in Workers BY <1>4 DEF ReplenishSend, HasWorker
  <2>2. ~closed BY <1>4 DEF ReplenishSend, Phases
  <2> QED BY <1>4, <2>1, <2>2, AppendKeepsExclusive DEF ReplenishSend
<1>5. CASE CloseDrain
  <2>1. workers # << >> /\ workers' = Tail(workers) /\ has' = has
    BY <1>5 DEF CloseDrain
  <2>2. P \in Actors OBVIOUS
  <2> QED BY <2>1, <2>2, TakeKeepsExclusive
<1>6. CASE UNCHANGED <<workers, has>> BY <1>0, <1>6
<1> QED BY <1>1, <1>2, <1>3, <1>4, <1>5, <1>6
        DEF Next, PrefillFail, Replenish, ReplenishLock, ReplenishClosed,
            ReplenishFail, Stop, CloseBegin, CloseEnd, ProcExit, Ended, vars

-----------------------------------------------------------------------------
(* What a worker has on the host at each step of its spawn.                *)

\* spawnWorker sets up the overlay, then the cgroup, then the process, which it
\* freezes in the end unless it has a terminal; the process may exit meanwhile.
BuiltBy(a) ==
    /\ at[a] \in (SpawnSteps \ {"overlay"}) \cup {"spawned"} => has[a] \in ov
    /\ at[a] \in {"start", "attach", "freeze", "spawned"} => has[a] \in cg
    /\ at[a] \in {"mount", "cgroup", "start"} => proc[has[a]] = "none"
    /\ at[a] = "attach" => proc[has[a]] \in {"out", "none"}
    /\ at[a] = "freeze" => proc[has[a]] \in {"run", "none"}
    /\ at[a] = "spawned" /\ req[a] # "tty" => proc[has[a]] \in {"frozen", "none"}

\* The pool's own goroutines ask for workers without a terminal.
Built == req[P] = "warm" /\ \A a \in Actors : BuiltBy(a)

\* A step that touches nothing on the host but worker w, and no actor but a.
OnlyHost(w) ==
    \A v \in Workers \ {w} :
        (v \in ov' <=> v \in ov) /\ (v \in cg' <=> v \in cg) /\ proc'[v] = proc[v]
OnlyActor(a) ==
    \A b \in Actors \ {a} : at'[b] = at[b] /\ req'[b] = req[b] /\ has'[b] = has[b]

\* Clean-up leaves no mount, and of the process at most one that is exiting.
LEMMA CleanupOnly ==
    ASSUME TypeOK, NEW w \in Workers, NEW p \in Procs, Cleanup(w, p)
    PROVE  OnlyHost(w) /\ w \notin ov' /\ proc'[w] \in {"none", "dying"}
  BY DEF TypeOK, Cleanup, OnlyHost, Kill, Procs

\* A SIGKILL leaves a process state.
LEMMA KillProcs == \A p \in Procs : Kill(p) \in Procs
  BY DEF Kill, Procs

\* Other actors keep what they built.
LEMMA BuiltFrame ==
    ASSUME TypeOK, HasWorker, Built, NEW a \in Actors, NEW w,
           OnlyHost(w), OnlyActor(a), \A b \in Actors \ {a} : has[b] # w, BuiltBy(a)'
    PROVE  \A b \in Actors : BuiltBy(b)'
<1> SUFFICES ASSUME NEW b \in Actors \ {a} PROVE BuiltBy(b)'
  OBVIOUS
<1>1. at'[b] = at[b] /\ req'[b] = req[b] /\ has'[b] = has[b] BY DEF OnlyActor
<1>2. CASE at[b] \notin SpawnSteps \cup {"spawned"} \/ at[b] = "overlay"
  BY <1>1, <1>2 DEF BuiltBy, SpawnSteps
<1>3. CASE at[b] \in (SpawnSteps \ {"overlay"}) \cup {"spawned"}
  <2>1. has[b] \in Workers \ {w} BY <1>3 DEF HasWorker
  <2>2. /\ has[b] \in ov' <=> has[b] \in ov
        /\ has[b] \in cg' <=> has[b] \in cg
        /\ proc'[has[b]] = proc[has[b]]
    BY <2>1 DEF OnlyHost
  <2> QED BY <1>1, <2>2 DEF Built, BuiltBy
<1> QED BY <1>2, <1>3

\* Queued workers stay intact when another worker is touched.
LEMMA WarmFrame ==
    ASSUME TypeOK, WarmWorkersIntact, NEW w, OnlyHost(w), workers' = workers,
           \A i \in 1..Len(workers) : workers[i] # w
    PROVE  WarmWorkersIntact'
<1>1. \A i \in 1..Len(workers) : workers[i] \in Workers \ {w} BY DEF TypeOK
<1> QED BY <1>1 DEF WarmWorkersIntact, OnlyHost

\* A step of actor a that touches the worker it has, or one it takes that nobody
\* refers to.
LEMMA ActorFrame ==
    ASSUME TypeOK, HasWorker, ExclusiveWorkers, Built, WarmWorkersIntact,
           NEW a \in Actors, NEW w \in Workers, has[a] = w \/ ~Referenced(w),
           OnlyHost(w), OnlyActor(a), workers' = workers, BuiltBy(a)', req'[P] = "warm"
    PROVE  Built' /\ WarmWorkersIntact'
<1>1. \A b \in Actors \ {a} : has[b] # w
  BY NilAssumption DEF ExclusiveWorkers, Referenced, Held
<1>2. \A i \in 1..Len(workers) : workers[i] # w
  BY DEF ExclusiveWorkers, Referenced, Queued
<1>3. \A b \in Actors : BuiltBy(b)' BY <1>1, BuiltFrame
<1>4. WarmWorkersIntact' BY <1>2, WarmFrame
<1> QED BY <1>3, <1>4 DEF Built

\* A step that leaves channel and host alone and takes its actor to no step of a
\* spawn but the first.
LEMMA QuietFrame ==
    ASSUME TypeOK, Built, WarmWorkersIntact, NEW a \in Actors, OnlyActor(a),
           UNCHANGED <<workers, ov, cg, proc>>, req'[P] = "warm",
           \/ at'[a] = at[a] /\ has'[a] = has[a] /\ req'[a] = req[a]
           \/ at'[a] \in Steps \ ((SpawnSteps \ {"overlay"}) \cup {"spawned"})
    PROVE  Built' /\ WarmWorkersIntact'
<1>1. \A b \in Actors : BuiltBy(b)' BY DEF Built, BuiltBy, OnlyActor, SpawnSteps, Steps
<1>2. WarmWorkersIntact' BY DEF WarmWorkersIntact
<1> QED BY <1>1, <1>2 DEF Built

\* A worker that was built without a terminal enters the channel intact.
LEMMA SendIntact ==
    ASSUME TypeOK, HasWorker, Built, WarmWorkersIntact, at[P] = "spawned",
           workers' = Append(workers, has[P]), UNCHANGED <<ov, cg, proc, req>>,
           has' = [has EXCEPT ![P] = Nil],
           \E s \in {"idle", "overlay"} : at' = [at EXCEPT ![P] = s]
    PROVE  Built' /\ WarmWorkersIntact'
<1> USE DEF TypeOK, Actors
<1>1. has[P] \in Workers BY DEF HasWorker
<1>2. has[P] \in ov /\ has[P] \in cg /\ proc[has[P]] \in {"frozen", "none"}
  BY DEF Built, BuiltBy
<1>3. /\ Len(workers') = Len(workers) + 1 /\ workers'[Len(workers) + 1] = has[P]
      /\ \A i \in 1..Len(workers) : workers'[i] = workers[i]
  BY <1>1
<1>4. WarmWorkersIntact' BY <1>2, <1>3 DEF WarmWorkersIntact
<1>5. \A b \in Actors : BuiltBy(b)' BY DEF Built, BuiltBy, SpawnSteps
<1> QED BY <1>4, <1>5 DEF Built

\* What is built stays built, and waits intact.
LEMMA BuiltStep ==
    ASSUME TypeOK, HasWorker, Phases, ExclusiveWorkers, Built, WarmWorkersIntact, [Next]_vars
    PROVE  Built' /\ WarmWorkersIntact'
<1> USE DEF TypeOK, poolVars, hostVars, Actors, At, Mu
<1>0. CASE UNCHANGED <<workers, at, req, has, ov, cg, proc>>
  BY <1>0 DEF Built, BuiltBy, WarmWorkersIntact
<1>1. ASSUME NEW a \in Actors, Spawn(a) PROVE Built' /\ WarmWorkersIntact'
  <2>1. req'[P] = "warm" /\ workers' = workers
    BY <1>1 DEF Built, Spawn, SpawnOverlay, SpawnMount, SpawnCgroup, SpawnStart, SpawnAttach,
                SpawnFreeze, SpawnFail
  <2>2. OnlyActor(a)
    BY <1>1 DEF OnlyActor, Spawn, SpawnOverlay, SpawnMount, SpawnCgroup, SpawnStart,
                SpawnAttach, SpawnFreeze, SpawnFail
  <2>3. CASE SpawnOverlay(a)
    <3>1. PICK w \in Workers : /\ ~Referenced(w) /\ proc[w] = "none"
                               /\ has' = [has EXCEPT ![a] = w] /\ ov' = ov \cup {w}
      BY <2>3 DEF SpawnOverlay
    <3>2. OnlyHost(w) /\ BuiltBy(a)' BY <2>3, <3>1 DEF SpawnOverlay, OnlyHost, BuiltBy
    <3> QED BY <2>1, <2>2, <3>1, <3>2, ActorFrame
  <2>4. ASSUME at[a] \in SpawnSteps \ {"overlay"}, OnlyHost(has[a]), BuiltBy(a)'
        PROVE  Built' /\ WarmWorkersIntact'
    <3>1. has[a] \in Workers BY <2>4 DEF HasWorker
    <3> QED BY <2>1, <2>2, <2>4, <3>1, ActorFrame
  <2> USE DEF OnlyHost, SpawnSteps
  <2>5. CASE SpawnMount(a)
    <3>1. OnlyHost(has[a]) /\ BuiltBy(a)' BY <2>5 DEF SpawnMount, Built, BuiltBy
    <3> QED BY <2>4, <2>5, <3>1 DEF SpawnMount
  <2>6. CASE SpawnCgroup(a)
    <3>1. OnlyHost(has[a]) /\ BuiltBy(a)' BY <2>6 DEF SpawnCgroup, Built, BuiltBy
    <3> QED BY <2>4, <2>6, <3>1 DEF SpawnCgroup
  <2>7. CASE SpawnStart(a)
    <3>0. has[a] \in Workers BY <2>7 DEF SpawnStart, HasWorker
    <3>1. OnlyHost(has[a]) BY <2>7, <3>0 DEF SpawnStart
    <3>2. BuiltBy(a)' BY <2>7, <3>0 DEF SpawnStart, Built, BuiltBy
    <3> QED BY <2>4, <2>7, <3>1, <3>2 DEF SpawnStart
  <2>8. CASE SpawnAttach(a)
    <3>0. has[a] \in Workers BY <2>8 DEF SpawnAttach, HasWorker
    <3>1. OnlyHost(has[a]) BY <2>8, <3>0 DEF SpawnAttach
    <3>2. BuiltBy(a)' BY <2>8, <3>0 DEF SpawnAttach, Built, BuiltBy
    <3> QED BY <2>4, <2>8, <3>1, <3>2 DEF SpawnAttach
  <2>9. CASE SpawnFreeze(a)
    <3>0. has[a] \in Workers BY <2>9 DEF SpawnFreeze, HasWorker
    <3>1. OnlyHost(has[a]) BY <2>9, <3>0 DEF SpawnFreeze
    <3>2. BuiltBy(a)' BY <2>9, <3>0 DEF SpawnFreeze, Built, BuiltBy
    <3> QED BY <2>4, <2>9, <3>1, <3>2 DEF SpawnFreeze
  <2>10. CASE SpawnFail(a)
    <3>1. BuiltBy(a)' BY <2>10 DEF SpawnFail, BuiltBy
    <3>2. CASE at[a] = "overlay"
      BY <2>1, <2>2, <2>10, <3>2, QuietFrame DEF SpawnFail, Steps
    <3>3. CASE at[a] # "overlay"
      <4>1. has[a] \in Workers BY <2>10, <3>3 DEF SpawnFail, HasWorker
      <4>2. OnlyHost(has[a])
        BY <2>10, <3>3, <4>1, KillProcs, CleanupOnly DEF SpawnFail
      <4> QED BY <2>4, <2>10, <3>1, <3>3, <4>2 DEF SpawnFail
    <3> QED BY <3>2, <3>3
  <2> QED BY <1>1, <2>3, <2>5, <2>6, <2>7, <2>8, <2>9, <2>10 DEF Spawn
<1>2. ASSUME NEW h \in Handlers, Handle(h) PROVE Built' /\ WarmWorkersIntact'
  <2>1. req'[P] = "warm" /\ OnlyActor(h)
    BY <1>2, ActorAssumption
       DEF Built, OnlyActor, Handle, AcquireWarm, AcquireClosed, AcquireFallback,
           AcquireOnDemand, AcquireReturn, AcquireError, UseNil, Destroy, ExecBegin, ExecEnd
  <2>2. CASE AcquireWarm(h)
    <3>1. \A b \in Actors : BuiltBy(b)'
      BY <2>1, <2>2 DEF AcquireWarm, OnlyActor, Built, BuiltBy, SpawnSteps
    <3>2. Len(workers') = Len(workers) - 1 /\ Len(workers) \in Nat
      BY <2>2 DEF AcquireWarm
    <3>3. \A i \in 1..Len(workers') : workers'[i] = workers[i + 1] BY <2>2 DEF AcquireWarm
    <3>4. WarmWorkersIntact' BY <2>2, <3>2, <3>3 DEF AcquireWarm, WarmWorkersIntact
    <3> QED BY <2>1, <3>1, <3>4 DEF Built
  <2>3. CASE AcquireClosed(h) \/ AcquireFallback(h) \/ AcquireOnDemand(h)
             \/ AcquireReturn(h) \/ AcquireError(h) \/ UseNil(h)
    <3>1. UNCHANGED <<workers, ov, cg, proc>>
      BY <2>3 DEF AcquireClosed, AcquireFallback, AcquireOnDemand, AcquireReturn,
                  AcquireError, UseNil
    <3>2. \/ at'[h] = at[h] /\ has'[h] = has[h] /\ req'[h] = req[h]
          \/ at'[h] \in {"hold", "idle", "overlay"}
      BY <2>3 DEF AcquireClosed, AcquireFallback, AcquireOnDemand, AcquireReturn,
                  AcquireError, UseNil
    <3> QED BY <2>1, <3>1, <3>2, QuietFrame DEF Steps, SpawnSteps
  <2>4. CASE Destroy(h) \/ ExecBegin(h) \/ ExecEnd(h)
    <3>1. has[h] \in Workers BY <2>4 DEF Destroy, ExecBegin, ExecEnd, HasWorker
    <3>2. OnlyHost(has[h])
      <4>1. CASE Destroy(h) BY <4>1, <3>1 DEF Destroy, OnlyHost
      <4>2. CASE ExecBegin(h) BY <4>2, <3>1 DEF ExecBegin, OnlyHost
      <4>3. CASE ExecEnd(h) BY <4>3, <3>1, KillProcs, CleanupOnly DEF ExecEnd
      <4> QED BY <2>4, <4>1, <4>2, <4>3
    <3>3. workers' = workers /\ at'[h] \in {"idle", "exec"}
      BY <2>4 DEF Destroy, ExecBegin, ExecEnd
    <3>4. BuiltBy(h)' BY <3>3 DEF BuiltBy, SpawnSteps
    <3> QED BY <2>1, <3>1, <3>2, <3>3, <3>4, ActorFrame
  <2> QED BY <1>2, <2>2, <2>3, <2>4 DEF Handle
<1>3. CASE PrefillSend BY <1>3, SendIntact DEF PrefillSend
<1>4. CASE ReplenishSend
  <2>1. ~closed BY <1>4 DEF ReplenishSend, Phases
  <2> QED BY <1>4, <2>1, SendIntact DEF ReplenishSend
<1>5. CASE PrefillFail \/ ReplenishLock \/ ReplenishFail \/ CloseBegin \/ CloseEnd
  <2>1. UNCHANGED <<workers, ov, cg, proc, req, has>> /\ OnlyActor(P)
    BY <1>5 DEF OnlyActor, PrefillFail, ReplenishLock, ReplenishFail, CloseBegin, CloseEnd
  <2>2. at'[P] \in {"drain", "overlay", "idle"}
    BY <1>5 DEF PrefillFail, ReplenishLock, ReplenishFail, CloseBegin, CloseEnd
  <2>3. req'[P] = "warm" BY <2>1 DEF Built
  <2> QED BY <2>1, <2>2, <2>3, QuietFrame DEF Steps, SpawnSteps
<1>6. CASE CloseDrain
  <2> DEFINE w == Head(workers)
  <2>1. w \in Workers /\ w = workers[1] /\ Len(workers) \in Nat \ {0} BY <1>6 DEF CloseDrain
  <2>2. OnlyHost(w) BY <1>6, <2>1, KillProcs, CleanupOnly DEF CloseDrain
  <2>3. /\ Len(workers') = Len(workers) - 1
        /\ \A i \in 1..Len(workers') : workers'[i] = workers[i + 1]
    BY <1>6 DEF CloseDrain
  <2> HIDE DEF w
  <2>4. UNCHANGED <<at, req, has>> BY <1>6 DEF CloseDrain
  <2>5. \A a \in Actors : has[a] # w BY <2>1 DEF ExclusiveWorkers
  <2>6. OnlyActor(P) BY <2>4 DEF OnlyActor
  <2>7. BuiltBy(P)'
    <3>1. at[P] = "drain" BY <1>6 DEF CloseDrain
    <3> QED BY <2>4, <3>1 DEF BuiltBy, SpawnSteps
  <2>8. Built' BY <2>2, <2>4, <2>5, <2>6, <2>7, BuiltFrame DEF Built
  <2>9. ASSUME NEW i \in 1..Len(workers') PROVE workers'[i] \in Workers \ {w}
    BY <2>1, <2>3 DEF ExclusiveWorkers
  <2>10. WarmWorkersIntact' BY <2>1, <2>2, <2>3, <2>9 DEF WarmWorkersIntact, OnlyHost
  <2> QED BY <2>8, <2>10
<1>7. ASSUME NEW w \in Workers, ProcExit(w) PROVE Built' /\ WarmWorkersIntact'
  <2>1. \A v \in Workers : proc'[v] = proc[v] \/ proc'[v] = "none" BY <1>7 DEF ProcExit
  <2>2. UNCHANGED <<workers, at, req, has, ov, cg>> BY <1>7 DEF ProcExit
  <2>3. WarmWorkersIntact' BY <2>1, <2>2 DEF WarmWorkersIntact
  <2>4. \A a \in Actors : BuiltBy(a)'
    BY <2>1, <2>2 DEF Built, BuiltBy, HasWorker, SpawnSteps
  <2> QED BY <2>2, <2>3, <2>4 DEF Built
<1> QED BY <1>0, <1>1, <1>2, <1>3, <1>4, <1>5, <1>6, <1>7
        DEF Next, Replenish, ReplenishClosed, Stop, Ended, vars

-----------------------------------------------------------------------------
(* Who refers to a worker, before and after a step.                        *)

\* Only worker w changes hands.
OnlyOwner(w) ==
    \A v \in Workers \ {w} :
        /\ Queued(v)' <=> Queued(v)
        /\ Held(v)' <=> Held(v)
        /\ Leased(v)' <=> Leased(v)

\* An actor takes a worker nobody refers to.
LEMMA TakesNew ==
    ASSUME TypeOK, NEW a \in Actors, NEW w \in Workers, has[a] = Nil,
           has' = [has EXCEPT ![a] = w], OnlyActor(a), workers' = workers, at'[a] = "mount"
    PROVE  OnlyOwner(w) /\ Held(w)' /\ (~Referenced(w) => ~Queued(w)' /\ ~Leased(w)')
<1> USE DEF TypeOK, Actors, OnlyActor
<1>1. \A v \in Workers \ {w} : (Held(v)' <=> Held(v)) /\ (Leased(v)' <=> Leased(v))
  BY DEF Held, Leased
<1>2. \A v : Queued(v)' <=> Queued(v) BY DEF Queued
<1>3. Held(w)' BY DEF Held
<1>4. ~Held(w) => ~Leased(w)' BY DEF Held, Leased
<1> QED BY <1>1, <1>2, <1>3, <1>4 DEF OnlyOwner, Referenced

\* An actor lets its worker w go.
LEMMA LetsGo ==
    ASSUME TypeOK, ExclusiveWorkers, NEW a \in Actors, NEW w \in Workers, has[a] = w,
           has' = [has EXCEPT ![a] = Nil], OnlyActor(a), workers' = workers
    PROVE  OnlyOwner(w) /\ ~Queued(w)' /\ ~Held(w)' /\ ~Leased(w)'
<1> USE DEF TypeOK, Actors, OnlyActor
<1>1. \A v \in Workers \ {w} : (Held(v)' <=> Held(v)) /\ (Leased(v)' <=> Leased(v))
  BY DEF Held, Leased
<1>2. \A v : Queued(v)' <=> Queued(v) BY DEF Queued
<1>3. ~Queued(w) BY DEF ExclusiveWorkers, Queued
<1>4. ~Held(w)' BY DEF ExclusiveWorkers, Held
<1>5. ~Leased(w)' BY <1>4 DEF Leased, Held
<1> QED BY <1>1, <1>2, <1>3, <1>4, <1>5 DEF OnlyOwner

\* The pool's goroutine sends its worker w into the channel.
LEMMA SendsOn ==
    ASSUME TypeOK, NEW w \in Workers, has[P] = w, has' = [has EXCEPT ![P] = Nil],
           OnlyActor(P), workers' = Append(workers, w)
    PROVE  OnlyOwner(w) /\ Queued(w)'
<1> USE DEF TypeOK, Actors, OnlyActor
<1>1. \A v \in Workers \ {w} : (Held(v)' <=> Held(v)) /\ (Leased(v)' <=> Leased(v))
  BY DEF Held, Leased
<1>2. /\ Len(workers') = Len(workers) + 1 /\ workers'[Len(workers) + 1] = w
      /\ \A i \in 1..Len(workers) : workers'[i] = workers[i]
  OBVIOUS
<1>3. \A v \in Workers \ {w} : Queued(v)' <=> Queued(v) BY <1>2 DEF Queued
<1>4. Queued(w)' BY <1>2 DEF Queued
<1> QED BY <1>1, <1>3, <1>4 DEF OnlyOwner

\* The head w leaves the channel, and is in it no more.
LEMMA HeadLeaves ==
    ASSUME TypeOK, ExclusiveWorkers, workers # << >>, workers' = Tail(workers),
           NEW w, w = Head(workers)
    PROVE  /\ w \in Workers /\ Queued(w) /\ ~Held(w) /\ ~Queued(w)'
           /\ \A v \in Workers \ {w} : Queued(v)' <=> Queued(v)
<1>1. /\ w \in Workers /\ w = workers[1] /\ Len(workers) \in Nat \ {0}
      /\ Len(workers') = Len(workers) - 1
      /\ \A i \in 1..Len(workers') : workers'[i] = workers[i + 1]
  BY DEF TypeOK
<1>2. Queued(w) /\ ~Held(w) BY <1>1 DEF Queued, Held, ExclusiveWorkers
<1>3. ~Queued(w)' BY <1>1 DEF Queued, ExclusiveWorkers
<1>4. ASSUME NEW v \in Workers \ {w} PROVE Queued(v)' <=> Queued(v)
  <2>1. Queued(v)' => Queued(v)
    <3>1. ASSUME NEW i \in 1..Len(workers'), workers'[i] = v PROVE Queued(v)
      BY <1>1, <3>1 DEF Queued
    <3> QED BY <3>1 DEF Queued
  <2>2. ASSUME NEW i \in 1..Len(workers), workers[i] = v PROVE Queued(v)'
    <3>1. i # 1 BY <1>1, <2>2
    <3>2. i - 1 \in 1..Len(workers') /\ workers'[i - 1] = v BY <1>1, <2>2, <3>1
    <3> QED BY <3>2 DEF Queued
  <2> QED BY <2>1, <2>2 DEF Queued
<1> QED BY <1>1, <1>2, <1>3, <1>4

\* A worker that an actor has is in no channel, and is leased when that actor is
\* a handler past its acquire.
LEMMA OwnedBy ==
    ASSUME TypeOK, ExclusiveWorkers, NEW a \in Actors, NEW w \in Workers, has[a] = w
    PROVE  /\ Held(w) /\ ~Queued(w)
           /\ Leased(w) <=> a \in Handlers /\ at[a] \in {"hold", "exec"}
  BY DEF TypeOK, Actors, ExclusiveWorkers, Held, Queued, Leased

\* A step that changes no reference and no stage of a job.
SameOwner(v) ==
    (Queued(v)' <=> Queued(v)) /\ (Held(v)' <=> Held(v)) /\ (Leased(v)' <=> Leased(v))
LEMMA SameOwners ==
    ASSUME TypeOK, UNCHANGED <<workers, has>>, NEW a \in Actors, OnlyActor(a),
           \/ a \in Handlers => (at[a] \in {"hold", "exec"} <=> at'[a] \in {"hold", "exec"})
           \/ has[a] = Nil
    PROVE  \A v \in Workers : SameOwner(v)
<1> USE DEF TypeOK, Actors
<1>1. \A v \in Workers : Leased(v)' <=> Leased(v) BY DEF Leased, OnlyActor
<1>2. \A v \in Workers : (Queued(v)' <=> Queued(v)) /\ (Held(v)' <=> Held(v)) BY DEF Queued, Held
<1> QED BY <1>1, <1>2 DEF SameOwner

-----------------------------------------------------------------------------
(* One life per worker, and no orphan.                                     *)

\* A step in which w alone changes hands is a step of w's life.
LEMMA OneLife ==
    ASSUME NEW w \in Workers, OnlyOwner(w)
    PROVE  Life!Become(w, lifeOf[w], lifeOf'[w])
  BY DEF OnlyOwner, lifeOf, Life!Become
LEMMA NoLife ==
    ASSUME \A v \in Workers : SameOwner(v)
    PROVE  lifeOf' = lifeOf
  BY DEF SameOwner, lifeOf

\* The worker a step touches is still referred to, or nothing of it is left but a
\* process that was signalled.
LEMMA OrphanFrame ==
    ASSUME NoOrphan, NEW w \in Workers, OnlyHost(w),
           OnlyOwner(w) \/ \A v \in Workers : SameOwner(v),
           Referenced(w)' \/ (w \notin ov' /\ proc'[w] \in {"none", "dying"})
    PROVE  NoOrphan'
<1>1. OnlyOwner(w) BY DEF OnlyOwner, SameOwner
<1> QED BY <1>1 DEF NoOrphan, OnlyHost, OnlyOwner, Referenced

\* Every step leaves no orphan, and is a step of one worker's life or of none.
LEMMA LifeStep ==
    ASSUME TypeOK, HasWorker, Phases, ExclusiveWorkers, NoOrphan, [Next]_vars
    PROVE  NoOrphan' /\ [Life!Next]_lifeOf
<1> DEFINE Goal == NoOrphan' /\ [Life!Next]_lifeOf
<1> USE DEF TypeOK, poolVars, hostVars, Actors, At, Mu
<1>a. ASSUME \A v \in Workers : SameOwner(v), UNCHANGED <<ov, proc>> PROVE Goal
  <2>1. NoOrphan' BY <1>a DEF NoOrphan, SameOwner, Referenced
  <2> QED BY <1>a, <2>1, NoLife
<1>b. ASSUME NEW w \in Workers, Referenced(w), OnlyHost(w), \A v \in Workers : SameOwner(v)
      PROVE  Goal
  <2>1. Referenced(w)' BY <1>b DEF SameOwner, Referenced
  <2> QED BY <1>b, <2>1, OrphanFrame, NoLife
<1>c. ASSUME NEW w \in Workers, OnlyHost(w), OnlyOwner(w),
             Referenced(w)' \/ (w \notin ov' /\ proc'[w] \in {"none", "dying"}),
             <<lifeOf[w], lifeOf'[w]>> \in
                {<<"absent", "building">>, <<"building", "absent">>, <<"building", "idle">>,
                 <<"building", "leased">>, <<"idle", "leased">>, <<"idle", "absent">>,
                 <<"leased", "absent">>}
      PROVE  Goal
  <2>1. NoOrphan' BY <1>c, OrphanFrame
  <2>2. Life!Become(w, lifeOf[w], lifeOf'[w]) BY <1>c, OneLife
  <2>3. Life!Next
    BY <1>c, <2>2 DEF Life!Next, Life!Build, Life!Abandon, Life!Stock, Life!Deliver,
                      Life!Lease, Life!Discard, Life!Retire
  <2> QED BY <2>1, <2>3
<1> SUFFICES Goal OBVIOUS
<1> HIDE DEF Goal
<1>d. ASSUME NEW a \in Actors, at[a] \in SpawnSteps \/ a = P, at'[a] \in Working,
             OnlyActor(a), UNCHANGED <<workers, has>>
      PROVE  \A v \in Workers : SameOwner(v)
  BY <1>d, SameOwners DEF SpawnSteps, Working
<1>1. ASSUME NEW a \in Actors, Spawn(a) PROVE Goal
  <2>1. workers' = workers /\ OnlyActor(a)
    BY <1>1 DEF OnlyActor, Spawn, SpawnOverlay, SpawnMount, SpawnCgroup, SpawnStart,
                SpawnAttach, SpawnFreeze, SpawnFail
  <2>2. CASE SpawnOverlay(a)
    <3>1. PICK w \in Workers : ~Referenced(w) /\ has' = [has EXCEPT ![a] = w]
                               /\ ov' = ov \cup {w}
      BY <2>2 DEF SpawnOverlay
    <3>2. has[a] = Nil /\ at'[a] = "mount" BY <2>2 DEF SpawnOverlay, HasWorker
    <3>3. OnlyOwner(w) /\ Held(w)' /\ ~Queued(w)' /\ ~Leased(w)'
      BY <2>1, <3>1, <3>2, TakesNew
    <3>4. ~Queued(w) /\ ~Held(w) /\ ~Leased(w) BY <3>1 DEF Referenced, Leased, Held
    <3>5. lifeOf[w] = "absent" /\ lifeOf'[w] = "building" BY <3>3, <3>4 DEF lifeOf
    <3>6. OnlyHost(w) BY <2>2, <3>1 DEF SpawnOverlay, OnlyHost
    <3>7. Referenced(w)' BY <3>3 DEF Referenced
    <3> QED BY <3>3, <3>5, <3>6, <3>7, <1>c
  <2>3. CASE SpawnMount(a) \/ SpawnCgroup(a) \/ SpawnStart(a) \/ SpawnAttach(a) \/ SpawnFreeze(a)
    <3>1. at[a] \in SpawnSteps \ {"overlay"} /\ at'[a] \in Working /\ has' = has
      BY <2>3 DEF SpawnMount, SpawnCgroup, SpawnStart, SpawnAttach, SpawnFreeze,
                  SpawnSteps, Working
    <3>2. has[a] \in Workers BY <3>1 DEF HasWorker
    <3>3. OnlyHost(has[a])
      BY <2>3, <3>2 DEF OnlyHost, SpawnMount, SpawnCgroup, SpawnStart, SpawnAttach, SpawnFreeze
    <3>4. Referenced(has[a]) BY DEF Referenced, Held
    <3>5. \A v \in Workers : SameOwner(v) BY <2>1, <3>1, <1>d
    <3> QED BY <3>2, <3>3, <3>4, <3>5, <1>b
  <2>4. CASE SpawnFail(a) /\ at[a] = "overlay"
    <3>1. has' = has /\ UNCHANGED <<ov, proc>> BY <2>4 DEF SpawnFail, HasWorker
    <3>2. has[a] = Nil BY <2>4 DEF HasWorker
    <3>3. \A v \in Workers : SameOwner(v) BY <2>1, <3>1, <3>2, SameOwners
    <3> QED BY <3>1, <3>3, <1>a
  <2>5. CASE SpawnFail(a) /\ at[a] # "overlay"
    <3>1. PICK w \in Workers : w = has[a] BY <2>5 DEF SpawnFail, HasWorker
    <3>2. at[a] \in SpawnSteps /\ has' = [has EXCEPT ![a] = Nil] /\ Cleanup(w, Kill(proc[w]))
      BY <2>5, <3>1 DEF SpawnFail
    <3>3. OnlyHost(w) /\ w \notin ov' /\ proc'[w] \in {"none", "dying"}
      BY <3>1, <3>2, KillProcs, CleanupOnly
    <3>4. OnlyOwner(w) /\ ~Queued(w)' /\ ~Held(w)' /\ ~Leased(w)' BY <2>1, <3>1, <3>2, LetsGo
    <3>5. Held(w) /\ ~Queued(w) /\ ~Leased(w) BY <3>1, <3>2, OwnedBy DEF SpawnSteps
    <3>6. lifeOf[w] = "building" /\ lifeOf'[w] = "absent" BY <3>4, <3>5 DEF lifeOf
    <3> QED BY <3>3, <3>4, <3>6, <1>c
  <2> QED BY <1>1, <2>2, <2>3, <2>4, <2>5 DEF Spawn
<1>2. ASSUME NEW h \in Handlers, Handle(h) PROVE Goal
  <2>1. OnlyActor(h)
    BY <1>2 DEF OnlyActor, Handle, AcquireWarm, AcquireClosed, AcquireFallback,
                AcquireOnDemand, AcquireReturn, AcquireError, UseNil, Destroy, ExecBegin, ExecEnd
  <2>2. CASE AcquireWarm(h)
    <3>1. PICK w : w = Head(workers) OBVIOUS
    <3>2. /\ workers # << >> /\ workers' = Tail(workers) /\ at'[h] = "hold" /\ at[h] = "idle"
          /\ has' = [has EXCEPT ![h] = w] /\ UNCHANGED <<ov, cg, proc>>
      BY <2>2, <3>1 DEF AcquireWarm
    <3>3. /\ w \in Workers /\ Queued(w) /\ ~Held(w) /\ ~Queued(w)'
          /\ \A v \in Workers \ {w} : Queued(v)' <=> Queued(v)
      BY <3>1, <3>2, HeadLeaves
    <3>4. has[h] = Nil BY <3>2 DEF HasWorker
    <3>5. \A v \in Workers \ {w} : (Held(v)' <=> Held(v)) /\ (Leased(v)' <=> Leased(v))
      BY <2>1, <3>2, <3>4 DEF Held, Leased, OnlyActor
    <3>6. Held(w)' /\ Leased(w)' BY <3>2 DEF Held, Leased
    <3>7. lifeOf[w] = "idle" /\ lifeOf'[w] = "leased" BY <3>3, <3>6 DEF lifeOf
    <3>8. OnlyOwner(w) /\ OnlyHost(w) BY <3>2, <3>3, <3>5 DEF OnlyOwner, OnlyHost
    <3> QED BY <3>3, <3>6, <3>7, <3>8, <1>c DEF Referenced
  <2>3. CASE AcquireClosed(h) \/ AcquireFallback(h) \/ AcquireOnDemand(h)
             \/ AcquireError(h) \/ UseNil(h)
    <3>1. UNCHANGED <<workers, has, ov, proc>>
      BY <2>3 DEF AcquireClosed, AcquireFallback, AcquireOnDemand, AcquireError, UseNil
    <3>2. has[h] = Nil
      BY <2>3 DEF AcquireClosed, AcquireFallback, AcquireOnDemand, AcquireError, UseNil, HasWorker
    <3>3. \A v \in Workers : SameOwner(v) BY <2>1, <3>1, <3>2, SameOwners
    <3> QED BY <3>1, <3>3, <1>a
  <2>4. CASE AcquireReturn(h)
    <3>1. PICK w \in Workers : w = has[h] BY <2>4 DEF AcquireReturn, HasWorker
    <3>2. UNCHANGED <<workers, has, ov, cg, proc>> /\ at[h] = "spawned" /\ at'[h] = "hold"
      BY <2>4 DEF AcquireReturn
    <3>3. Held(w) /\ ~Queued(w) /\ ~Leased(w) BY <3>1, <3>2, OwnedBy
    <3>4. Held(w)' /\ ~Queued(w)' /\ Leased(w)' BY <3>1, <3>2, <3>3 DEF Held, Queued, Leased
    <3>5. \A v \in Workers \ {w} : /\ Queued(v)' <=> Queued(v)
                                   /\ Held(v)' <=> Held(v)
                                   /\ Leased(v)' <=> Leased(v)
      BY <2>1, <3>1, <3>2 DEF Held, Queued, Leased, OnlyActor
    <3>6. OnlyOwner(w) /\ OnlyHost(w) BY <3>2, <3>5 DEF OnlyOwner, OnlyHost
    <3>7. lifeOf[w] = "building" /\ lifeOf'[w] = "leased" BY <3>3, <3>4 DEF lifeOf
    <3> QED BY <3>4, <3>6, <3>7, <1>c DEF Referenced
  <2>5. CASE Destroy(h) \/ ExecEnd(h)
    <3>1. PICK w \in Workers : w = has[h] BY <2>5 DEF Destroy, ExecEnd, HasWorker
    <3>2. /\ at[h] \in {"hold", "exec"} /\ has' = [has EXCEPT ![h] = Nil] /\ workers' = workers
      BY <2>5 DEF Destroy, ExecEnd
    <3>3. OnlyHost(w) /\ w \notin ov' /\ proc'[w] \in {"none", "dying"}
      <4>1. CASE Destroy(h) BY <3>1, <4>1 DEF Destroy, OnlyHost
      <4>2. CASE ExecEnd(h) BY <3>1, <4>2, KillProcs, CleanupOnly DEF ExecEnd
      <4> QED BY <2>5, <4>1, <4>2
    <3>4. OnlyOwner(w) /\ ~Queued(w)' /\ ~Held(w)' /\ ~Leased(w)' BY <2>1, <3>1, <3>2, LetsGo
    <3>5. ~Queued(w) /\ Leased(w) BY <3>1, <3>2, OwnedBy
    <3>6. lifeOf[w] = "leased" /\ lifeOf'[w] = "absent" BY <3>4, <3>5 DEF lifeOf
    <3> QED BY <3>3, <3>4, <3>6, <1>c
  <2>6. CASE ExecBegin(h)
    <3>1. has[h] \in Workers /\ UNCHANGED <<workers, has>> BY <2>6 DEF ExecBegin
    <3>2. OnlyHost(has[h]) BY <2>6, <3>1 DEF ExecBegin, OnlyHost
    <3>3. at[h] = "hold" /\ at'[h] = "exec" BY <2>6 DEF ExecBegin
    <3>4. \A v \in Workers : SameOwner(v) BY <2>1, <3>1, <3>3, SameOwners
    <3>5. Referenced(has[h]) BY DEF Referenced, Held
    <3> QED BY <3>1, <3>2, <3>4, <3>5, <1>b
  <2> QED BY <1>2, <2>2, <2>3, <2>4, <2>5, <2>6 DEF Handle
<1>3. CASE PrefillSend \/ ReplenishSend
  <2>1. PICK w \in Workers : w = has[P]
    BY <1>3 DEF PrefillSend, ReplenishSend, HasWorker
  <2>2. /\ workers' = Append(workers, w) /\ has' = [has EXCEPT ![P] = Nil]
        /\ UNCHANGED <<ov, cg, proc, req>> /\ at[P] = "spawned"
    BY <1>3, <2>1 DEF PrefillSend, ReplenishSend, Phases
  <2>3. OnlyActor(P) BY <1>3 DEF OnlyActor, PrefillSend, ReplenishSend
  <2>4. OnlyOwner(w) /\ Queued(w)' BY <2>1, <2>2, <2>3, SendsOn
  <2>5. Held(w) /\ ~Queued(w) /\ ~Leased(w) BY <2>1, <2>2, OwnedBy
  <2>6. lifeOf[w] = "building" /\ lifeOf'[w] = "idle" BY <2>4, <2>5 DEF lifeOf
  <2>7. OnlyHost(w) BY <2>2 DEF OnlyHost
  <2> QED BY <2>4, <2>6, <2>7, <1>c DEF Referenced
<1>4. CASE PrefillFail \/ ReplenishLock \/ ReplenishFail \/ CloseBegin \/ CloseEnd
  <2>1. UNCHANGED <<workers, has, ov, proc>> /\ OnlyActor(P)
    BY <1>4 DEF OnlyActor, PrefillFail, ReplenishLock, ReplenishFail, CloseBegin, CloseEnd
  <2>2. \A v \in Workers : SameOwner(v) BY <2>1, SameOwners
  <2> QED BY <2>1, <2>2, <1>a
<1>5. CASE CloseDrain
  <2>1. PICK w : w = Head(workers) OBVIOUS
  <2>2. /\ workers # << >> /\ workers' = Tail(workers) /\ UNCHANGED <<at, has>>
        /\ Cleanup(w, Kill(proc[w]))
    BY <1>5, <2>1 DEF CloseDrain
  <2>3. /\ w \in Workers /\ Queued(w) /\ ~Held(w) /\ ~Queued(w)'
        /\ \A v \in Workers \ {w} : Queued(v)' <=> Queued(v)
    BY <2>1, <2>2, HeadLeaves
  <2>4. \A v \in Workers : (Held(v)' <=> Held(v)) /\ (Leased(v)' <=> Leased(v))
    BY <2>2 DEF Held, Leased
  <2>5. OnlyOwner(w) BY <2>3, <2>4 DEF OnlyOwner
  <2>6. OnlyHost(w) /\ w \notin ov' /\ proc'[w] \in {"none", "dying"}
    BY <2>2, <2>3, KillProcs, CleanupOnly
  <2>7. ~Leased(w) BY <2>3 DEF Leased, Held
  <2>8. lifeOf[w] = "idle" /\ lifeOf'[w] = "absent" BY <2>3, <2>4, <2>7 DEF lifeOf
  <2> QED BY <2>3, <2>5, <2>6, <2>8, <1>c
<1>6. CASE UNCHANGED <<workers, at, has>>
  <2>1. \A v \in Workers : SameOwner(v)
    BY <1>6 DEF SameOwner, Queued, Held, Leased
  <2>2. CASE UNCHANGED <<ov, proc>> BY <2>1, <2>2, <1>a
  <2>3. ASSUME NEW w \in Workers, ProcExit(w) PROVE Goal
    <3>1. NoOrphan' BY <2>1, <2>3 DEF ProcExit, NoOrphan, SameOwner, Referenced
    <3> QED BY <2>1, <3>1, NoLife DEF Goal
  <2>4. CASE ReplenishClosed \/ Stop \/ Ended \/ UNCHANGED vars
    BY <2>2, <2>4 DEF ReplenishClosed, Stop, Ended, vars
  <2> QED BY <1>1, <1>2, <1>3, <1>4, <1>5, <2>3, <2>4 DEF Next, Replenish
<1> QED BY <1>1, <1>2, <1>3, <1>4, <1>5, <1>6
        DEF Next, Replenish, ReplenishClosed, Stop, Ended, ProcExit, vars

-----------------------------------------------------------------------------
\* The inductive invariant of the pool.
PoolInv ==
    /\ TypeOK /\ HasWorker /\ Phases
    /\ Room /\ NoIdleAfterClose /\ ExclusiveWorkers
    /\ Built /\ WarmWorkersIntact /\ NoOrphan

\* Init establishes it: an empty channel and one spawn under way.
LEMMA PoolInvInit ==
    ASSUME Init
    PROVE  PoolInv
<1> USE DEF Init, Actors, Steps, SpawnSteps
<1>1. TypeOK
  <2>1. workers \in Seq(Workers) OBVIOUS
  <2>2. at \in [Actors -> Steps] OBVIOUS
  <2>3. req \in [Actors -> Requests] /\ has \in [Actors -> Workers \cup {Nil}]
    BY DEF Requests
  <2>4. ov \subseteq Workers /\ cg \subseteq Workers /\ proc \in [Workers -> Procs]
    BY DEF Procs
  <2> QED BY <2>1, <2>2, <2>3, <2>4 DEF TypeOK
<1>2. HasWorker /\ Phases BY DEF HasWorker, Phases, Working
<1>3. Len(workers) = 0 OBVIOUS
<1>4. Room /\ NoIdleAfterClose BY <1>3 DEF Room, Refilling, NoIdleAfterClose
<1>5. ExclusiveWorkers BY <1>3 DEF ExclusiveWorkers
<1>6. Built BY <1>2 DEF Built, BuiltBy
<1>7. WarmWorkersIntact /\ NoOrphan BY <1>3 DEF WarmWorkersIntact, NoOrphan
<1> QED BY <1>1, <1>2, <1>4, <1>5, <1>6, <1>7 DEF PoolInv

\* And it holds in every reachable state.
THEOREM PoolInvariant == Spec => []PoolInv
<1>1. PoolInv /\ [Next]_vars => PoolInv'
  BY TypeStep, HasWorkerStep, PhasesStep, RoomStep, NoIdleStep, ExclusiveStep,
     BuiltStep, LifeStep
     DEF PoolInv
<1> QED BY PoolInvInit, <1>1, PTL DEF Spec

\* Every variable keeps its type, for every capacity and set of handlers.
THEOREM TypeCorrect == Spec => []TypeOK
  BY PoolInvariant, PTL DEF PoolInv

\* A worker never has two owners.
THEOREM Exclusive == Spec => []ExclusiveWorkers
  BY PoolInvariant, PTL DEF PoolInv

\* replenish never blocks on a full channel nor sends on a closed one while it
\* holds the lock.
THEOREM SendHasRoom == Spec => []ReplenishNeverBlocks
<1>1. PoolInv => ReplenishNeverBlocks
  BY DEF PoolInv, TypeOK, Phases, Room, Refilling, ReplenishNeverBlocks
<1> QED BY PoolInvariant, <1>1, PTL

\* Close leaves no worker behind in the channel.
THEOREM CloseDrains == Spec => []NoIdleAfterClose
  BY PoolInvariant, PTL DEF PoolInv

\* A worker that waits in the channel has its mount and its cgroup and does not
\* run, whatever spawned it and whatever is torn down beside it.
THEOREM WarmIsIntact == Spec => []WarmWorkersIntact
  BY PoolInvariant, PTL DEF PoolInv

\* No error return of spawnWorker, no end of a job and no Close forgets a mount
\* or a process that was not signalled.
THEOREM NothingOrphaned == Spec => []NoOrphan
  BY PoolInvariant, PTL DEF PoolInv

\* The pool implements WorkerLife: a worker serves one job, then is gone.
THEOREM RefinesWorkerLife == Spec => SingleUse
<1>1. Init => Life!Init
  <2> SUFFICES ASSUME Init PROVE Life!Init
    OBVIOUS
  <2>1. Len(workers) = 0 BY DEF Init
  <2>2. \A w \in Workers : ~Queued(w) /\ ~Held(w) /\ ~Leased(w)
    BY <2>1 DEF Init, Queued, Held, Leased, Actors
  <2> QED BY <2>2 DEF Life!Init, lifeOf
<1>2. PoolInv /\ [Next]_vars => [Life!Next]_lifeOf
  BY LifeStep DEF PoolInv
<1> QED BY <1>1, <1>2, PoolInvariant, PTL DEF Spec, SingleUse, Life!Spec

=============================================================================
