---------------------------- MODULE DaemonProofs ----------------------------
(***************************************************************************)
(* Daemons that start, crash and start again, for every set of daemons,    *)
(* pidfile inodes and containers: the lock, and what recovery leaves.      *)
(***************************************************************************)
EXTENDS Daemon, TLAPS

USE NoneAssumption, OwnerAssumption

Serving == {"pool", "serve", "stopping"}

\* A daemon has the descriptor of its pidfile from Open until it is down, and
\* the lock of that inode between flock and LOCK_UN.
Locking ==
    \A d \in Daemons :
        /\ pc[d] # "down" => fd[d] \in Inodes
        /\ pc[d] \in Owning => lock[fd[d]] = d

\* Until a Stop unlinks the path, every descriptor is of the inode it names.
OnePidfile == removed \/ \A d \in Daemons : pc[d] # "down" => fd[d] = pidfile

\* Only a daemon past recovery has containers.  Until a Stop unlinks the path,
\* the cgroup directories of its own, and of orphans that run, exist.
Housed ==
    \A c \in Containers :
        /\ by[c] \in Daemons => pc[by[c]] \in Serving
        /\ \/ removed
           \/ by[c] \in Daemons /\ run[c] \in {"out", "live"} => c \in cg
        /\ removed \/ (by[c] = Orphan /\ run[c] = "live" => c \in cg)

DaemonInv == TypeOK /\ Locking /\ OnePidfile /\ Housed /\ OrphansKilled

\* In the beginning no daemon runs and nothing is left of one.
LEMMA DaemonInit ==
    ASSUME Init
    PROVE  DaemonInv
<1> USE DEF Init
<1>1. TypeOK BY DEF TypeOK, Steps
<1>2. Locking /\ OnePidfile BY DEF Locking, OnePidfile, Owning, Steps
<1>3. Housed /\ OrphansKilled BY DEF Housed, OrphansKilled
<1> QED BY <1>1, <1>2, <1>3 DEF DaemonInv

\* Two daemons past flock have locked two inodes, so one has a pidfile that a
\* Stop has unlinked.
LEMMA OneOwner ==
    ASSUME TypeOK, Locking, OnePidfile
    PROVE  OneDaemonUntilStop
<1> SUFFICES ASSUME ~removed, NEW d \in Daemons, NEW e \in Daemons,
                    pc[d] \in Owning, pc[e] \in Owning
             PROVE  d = e
  BY DEF OneDaemonUntilStop, OneDaemon
<1>1. fd[d] = pidfile /\ fd[e] = pidfile BY DEF OnePidfile, Owning
<1> QED BY <1>1 DEF Locking

\* Every step keeps the types.
LEMMA DaemonTypes ==
    ASSUME TypeOK, Locking, [Next]_vars
    PROVE  TypeOK'
<1> USE DEF TypeOK, Steps, Starting, Goto, lockVars, hostVars, Locking
<1>1. CASE \E d \in Daemons : Open(d) BY <1>1 DEF Open
<1>2. CASE \E d \in Daemons : Flock(d) BY <1>2 DEF Flock
<1>3. CASE \E d \in Daemons : FlockBusy(d) BY <1>3 DEF FlockBusy
<1>4. CASE \E d \in Daemons : SweepMounts(d) BY <1>4 DEF SweepMounts
<1>5. CASE \E d \in Daemons : ResetLayers(d) BY <1>5 DEF ResetLayers
<1>6. CASE \E d \in Daemons : SweepCgroups(d) BY <1>6 DEF SweepCgroups, Occupied, Running
<1>7. CASE \E d \in Daemons : Serve(d) BY <1>7 DEF Serve
<1>8. CASE \E d \in Daemons : IdleConnect(d) BY <1>8 DEF IdleConnect
<1>9. CASE \E d \in Daemons : HangUp(d) BY <1>9 DEF HangUp
<1>10. CASE \E d \in Daemons : Stop(d) BY <1>10 DEF Stop
<1>11. CASE \E d \in Daemons : StopWait(d) BY <1>11 DEF StopWait
<1>12. CASE \E d \in Daemons : Unlock(d) BY <1>12 DEF Unlock
<1>13. CASE \E d \in Daemons : RemovePidfile(d) BY <1>13 DEF RemovePidfile
<1>14. CASE \E d \in Daemons : Die(d) BY <1>14 DEF Die
<1>15. CASE \E c \in Containers : Launch(c) BY <1>15 DEF Launch
<1>16. CASE \E c \in Containers : Attach(c) BY <1>16 DEF Attach
<1>17. CASE \E c \in Containers : ProcExit(c) BY <1>17 DEF ProcExit
<1>18. CASE \E c \in Containers : CleanUp(c) BY <1>18 DEF CleanUp
<1>19. CASE \E d \in Daemons : SweepCgroupsError(d) BY <1>19 DEF SweepCgroupsError, Running
<1>20. CASE \E d \in Daemons : StatsBlock(d) BY <1>20 DEF StatsBlock
<1>21. CASE \E c \in Containers : Block(c) BY <1>21 DEF Block
<1>22. CASE UNCHANGED vars BY <1>22 DEF vars
<1> QED BY <1>1, <1>2, <1>3, <1>4, <1>5, <1>6, <1>7, <1>8, <1>9, <1>10, <1>11, <1>12,
           <1>13, <1>14, <1>15, <1>16, <1>17, <1>18, <1>19, <1>20, <1>21, <1>22
        DEF Next, Start, Shutdown

\* flock takes no other daemon's lock; LOCK_UN and a crash give back one's own.
LEMMA LockingStep ==
    ASSUME TypeOK, Locking, [Next]_vars
    PROVE  Locking'
<1> USE DEF TypeOK, Steps, Starting, Owning, Goto, lockVars, hostVars, Locking
<1>1. CASE \E d \in Daemons : Open(d) BY <1>1 DEF Open
<1>2. CASE \E d \in Daemons : Flock(d) BY <1>2 DEF Flock
<1>3. CASE \E d \in Daemons : FlockBusy(d) BY <1>3 DEF FlockBusy
<1>4. CASE \E d \in Daemons : SweepMounts(d) BY <1>4 DEF SweepMounts
<1>5. CASE \E d \in Daemons : ResetLayers(d) BY <1>5 DEF ResetLayers
<1>6. CASE \E d \in Daemons : SweepCgroups(d) BY <1>6 DEF SweepCgroups, Occupied, Running
<1>7. CASE \E d \in Daemons : Serve(d) BY <1>7 DEF Serve
<1>8. CASE \E d \in Daemons : IdleConnect(d) BY <1>8 DEF IdleConnect
<1>9. CASE \E d \in Daemons : HangUp(d) BY <1>9 DEF HangUp
<1>10. CASE \E d \in Daemons : Stop(d) BY <1>10 DEF Stop
<1>11. CASE \E d \in Daemons : StopWait(d) BY <1>11 DEF StopWait
<1>12. CASE \E d \in Daemons : Unlock(d) BY <1>12 DEF Unlock
<1>13. CASE \E d \in Daemons : RemovePidfile(d) BY <1>13 DEF RemovePidfile
<1>14. CASE \E d \in Daemons : Die(d) BY <1>14 DEF Die
<1>15. CASE \E c \in Containers : Launch(c) BY <1>15 DEF Launch
<1>16. CASE \E c \in Containers : Attach(c) BY <1>16 DEF Attach
<1>17. CASE \E c \in Containers : ProcExit(c) BY <1>17 DEF ProcExit
<1>18. CASE \E c \in Containers : CleanUp(c) BY <1>18 DEF CleanUp
<1>19. CASE \E d \in Daemons : SweepCgroupsError(d) BY <1>19 DEF SweepCgroupsError
<1>20. CASE \E d \in Daemons : StatsBlock(d) BY <1>20 DEF StatsBlock
<1>21. CASE \E c \in Containers : Block(c) BY <1>21 DEF Block
<1>22. CASE UNCHANGED vars BY <1>22 DEF vars
<1> QED BY <1>1, <1>2, <1>3, <1>4, <1>5, <1>6, <1>7, <1>8, <1>9, <1>10, <1>11, <1>12,
           <1>13, <1>14, <1>15, <1>16, <1>17, <1>18, <1>19, <1>20, <1>21, <1>22
        DEF Next, Start, Shutdown

\* A new inode is made only when the path names none, and then no daemon is up.
LEMMA OnePidfileStep ==
    ASSUME TypeOK, Locking, OnePidfile, [Next]_vars
    PROVE  OnePidfile'
<1> USE DEF TypeOK, Goto, lockVars, hostVars, Locking, OnePidfile
<1>1. CASE \E d \in Daemons : Open(d) BY <1>1 DEF Open
<1>2. CASE \E d \in Daemons : Flock(d) BY <1>2 DEF Flock
<1>3. CASE \E d \in Daemons : FlockBusy(d) BY <1>3 DEF FlockBusy
<1>4. CASE \E d \in Daemons : SweepMounts(d) BY <1>4 DEF SweepMounts
<1>5. CASE \E d \in Daemons : ResetLayers(d) BY <1>5 DEF ResetLayers
<1>6. CASE \E d \in Daemons : SweepCgroups(d) BY <1>6 DEF SweepCgroups, Occupied, Running
<1>7. CASE \E d \in Daemons : Serve(d) BY <1>7 DEF Serve
<1>8. CASE \E d \in Daemons : IdleConnect(d) BY <1>8 DEF IdleConnect
<1>9. CASE \E d \in Daemons : HangUp(d) BY <1>9 DEF HangUp
<1>10. CASE \E d \in Daemons : Stop(d) BY <1>10 DEF Stop
<1>11. CASE \E d \in Daemons : StopWait(d) BY <1>11 DEF StopWait
<1>12. CASE \E d \in Daemons : Unlock(d) BY <1>12 DEF Unlock
<1>13. CASE \E d \in Daemons : RemovePidfile(d) BY <1>13 DEF RemovePidfile
<1>14. CASE \E d \in Daemons : Die(d) BY <1>14 DEF Die
<1>15. CASE \E c \in Containers : Launch(c) BY <1>15 DEF Launch
<1>16. CASE \E c \in Containers : Attach(c) BY <1>16 DEF Attach
<1>17. CASE \E c \in Containers : ProcExit(c) BY <1>17 DEF ProcExit
<1>18. CASE \E c \in Containers : CleanUp(c) BY <1>18 DEF CleanUp
<1>19. CASE \E d \in Daemons : SweepCgroupsError(d) BY <1>19 DEF SweepCgroupsError
<1>20. CASE \E d \in Daemons : StatsBlock(d) BY <1>20 DEF StatsBlock
<1>21. CASE \E c \in Containers : Block(c) BY <1>21 DEF Block
<1>22. CASE UNCHANGED vars BY <1>22 DEF vars
<1> QED BY <1>1, <1>2, <1>3, <1>4, <1>5, <1>6, <1>7, <1>8, <1>9, <1>10, <1>11, <1>12,
           <1>13, <1>14, <1>15, <1>16, <1>17, <1>18, <1>19, <1>20, <1>21, <1>22
        DEF Next, Start, Shutdown

\* Containers are started after recovery, and end before Stop goes on.
LEMMA HousedStep ==
    ASSUME TypeOK, Locking, OnePidfile, Housed, [Next]_vars
    PROVE  Housed'
<1> USE DEF TypeOK, Goto, lockVars, hostVars, Housed, Serving
<1>1. CASE \E d \in Daemons : Open(d) BY <1>1 DEF Open
<1>2. CASE \E d \in Daemons : Flock(d) BY <1>2 DEF Flock
<1>3. CASE \E d \in Daemons : FlockBusy(d) BY <1>3 DEF FlockBusy
<1>4. CASE \E d \in Daemons : SweepMounts(d) BY <1>4 DEF SweepMounts
<1>5. CASE \E d \in Daemons : ResetLayers(d) BY <1>5 DEF ResetLayers
<1>6. CASE \E d \in Daemons : SweepCgroups(d)
  <2>1. PICK d \in Daemons : SweepCgroups(d) BY <1>6
  <2>2. removed \/ \A e \in Daemons : pc[e] \notin Serving
    BY <2>1, OneOwner DEF SweepCgroups, OneDaemonUntilStop, OneDaemon, Owning, Steps, Starting
  <2>3. removed \/ \A c \in Containers : by[c] \notin Daemons BY <2>2
  <2> QED BY <2>1, <2>3 DEF SweepCgroups, Occupied, Running
<1>7. CASE \E d \in Daemons : Serve(d) BY <1>7 DEF Serve
<1>8. CASE \E d \in Daemons : IdleConnect(d) BY <1>8 DEF IdleConnect
<1>9. CASE \E d \in Daemons : HangUp(d) BY <1>9 DEF HangUp
<1>10. CASE \E d \in Daemons : Stop(d) BY <1>10 DEF Stop
<1>11. CASE \E d \in Daemons : StopWait(d) BY <1>11 DEF StopWait
<1>12. CASE \E d \in Daemons : Unlock(d) BY <1>12 DEF Unlock
<1>13. CASE \E d \in Daemons : RemovePidfile(d) BY <1>13 DEF RemovePidfile
<1>14. CASE \E d \in Daemons : Die(d) BY <1>14 DEF Die
<1>15. CASE \E c \in Containers : Launch(c) BY <1>15 DEF Launch
<1>16. CASE \E c \in Containers : Attach(c) BY <1>16 DEF Attach, Direct, Orphan
<1>17. CASE \E c \in Containers : ProcExit(c) BY <1>17 DEF ProcExit
<1>18. CASE \E c \in Containers : CleanUp(c) BY <1>18 DEF CleanUp
<1>19. CASE \E d \in Daemons : SweepCgroupsError(d) BY <1>19 DEF SweepCgroupsError
<1>20. CASE \E d \in Daemons : StatsBlock(d) BY <1>20 DEF StatsBlock
<1>21. CASE \E c \in Containers : Block(c) BY <1>21 DEF Block
<1>22. CASE UNCHANGED vars BY <1>22 DEF vars
<1> QED BY <1>1, <1>2, <1>3, <1>4, <1>5, <1>6, <1>7, <1>8, <1>9, <1>10, <1>11, <1>12,
           <1>13, <1>14, <1>15, <1>16, <1>17, <1>18, <1>19, <1>20, <1>21, <1>22
        DEF Next, Start, Shutdown

\* The sweep kills what a predecessor left, or notes it missed, and no other daemon that could leave
\* more is up.
LEMMA OrphansStep ==
    ASSUME TypeOK, Locking, OnePidfile, Housed, OrphansKilled, [Next]_vars
    PROVE  OrphansKilled'
<1> USE DEF TypeOK, Goto, lockVars, hostVars, OrphansKilled
<1>1. CASE \E d \in Daemons : Open(d) BY <1>1 DEF Open
<1>2. CASE \E d \in Daemons : Flock(d) BY <1>2 DEF Flock
<1>3. CASE \E d \in Daemons : FlockBusy(d) BY <1>3 DEF FlockBusy
<1>4. CASE \E d \in Daemons : SweepMounts(d) BY <1>4 DEF SweepMounts
<1>5. CASE \E d \in Daemons : ResetLayers(d) BY <1>5 DEF ResetLayers
<1>6. CASE \E d \in Daemons : SweepCgroups(d)
  <2>1. PICK d \in Daemons : SweepCgroups(d) BY <1>6
  <2>2. \A c \in Containers :
          ~removed /\ by[c] = Orphan => run'[c] # "live" \/ c \in missed'
    BY <2>1 DEF SweepCgroups, Occupied, Running, Housed
  <2> QED BY <2>1, <2>2 DEF SweepCgroups
<1>7. CASE \E d \in Daemons : Serve(d) BY <1>7 DEF Serve
<1>8. CASE \E d \in Daemons : IdleConnect(d) BY <1>8 DEF IdleConnect
<1>9. CASE \E d \in Daemons : HangUp(d) BY <1>9 DEF HangUp
<1>10. CASE \E d \in Daemons : Stop(d) BY <1>10 DEF Stop
<1>11. CASE \E d \in Daemons : StopWait(d) BY <1>11 DEF StopWait
<1>12. CASE \E d \in Daemons : Unlock(d) BY <1>12 DEF Unlock
<1>13. CASE \E d \in Daemons : RemovePidfile(d) BY <1>13 DEF RemovePidfile
<1>14. CASE \E d \in Daemons : Die(d)
  <2>1. PICK d \in Daemons : Die(d) BY <1>14
  <2>2. ASSUME ~removed, NEW e \in Daemons, e # d, pc[e] \in Serving,
               NEW c \in Containers
        PROVE  by[c] # d
    BY <2>2, OneOwner
       DEF Housed, Serving, OneDaemonUntilStop, OneDaemon, Owning, Steps, Starting
  <2> QED BY <2>1, <2>2 DEF Die, Serving
<1>15. CASE \E c \in Containers : Launch(c) BY <1>15 DEF Launch
<1>16. CASE \E c \in Containers : Attach(c) BY <1>16 DEF Attach, Direct, Orphan
<1>17. CASE \E c \in Containers : ProcExit(c) BY <1>17 DEF ProcExit
<1>18. CASE \E c \in Containers : CleanUp(c) BY <1>18 DEF CleanUp
<1>19. CASE \E d \in Daemons : SweepCgroupsError(d)
  BY <1>19 DEF SweepCgroupsError, Running, Housed
<1>20. CASE \E d \in Daemons : StatsBlock(d) BY <1>20 DEF StatsBlock
<1>21. CASE \E c \in Containers : Block(c) BY <1>21 DEF Block
<1>22. CASE UNCHANGED vars BY <1>22 DEF vars
<1> QED BY <1>1, <1>2, <1>3, <1>4, <1>5, <1>6, <1>7, <1>8, <1>9, <1>10, <1>11, <1>12,
           <1>13, <1>14, <1>15, <1>16, <1>17, <1>18, <1>19, <1>20, <1>21, <1>22
        DEF Next, Start, Shutdown

\* The invariant holds in every reachable state.
LEMMA DaemonAlways == Spec => []DaemonInv
<1>1. DaemonInv /\ [Next]_vars => DaemonInv'
  BY DaemonTypes, LockingStep, OnePidfileStep, HousedStep, OrphansStep DEF DaemonInv
<1> QED BY <1>1, DaemonInit, PTL DEF Spec

\* Every variable keeps its type.
THEOREM DaemonTyped == Spec => []TypeOK
  BY DaemonAlways, PTL DEF DaemonInv

\* AcquireDaemonLock keeps a second daemon out for as long as no Stop has removed
\* the pidfile, wherever daemons crash.
THEOREM LockExcludes == Spec => []OneDaemonUntilStop
<1>1. DaemonInv => OneDaemonUntilStop BY OneOwner DEF DaemonInv
<1> QED BY <1>1, DaemonAlways, PTL

\* After SweepStaleCgroups nothing of a crashed daemon runs in a cgroup, except
\* what was there and could not be killed.
THEOREM SweepKillsOrphans == Spec => []OrphansKilled
  BY DaemonAlways, PTL DEF DaemonInv

=============================================================================
