# gojail in TLA+

A verification project for gojail: a container sandbox (`gojail`) and its
daemon (`gojaild`). The modules model the parts of the code in which several
goroutines, processes or daemons meet, or in which something fails half way.
TLC checks them on small instances; TLAPS proves every safety property the runs
check, and the three refinements, for every value of their constants. `PROJECT.json`
lists components, runs,
the source lines behind every definition, findings, hazards and theorems.

## The system

| Part | Source | State | Operations | What makes it correct |
|---|---|---|---|---|
| Warm pool | `pkg/sandbox/pool.go` | buffered channel of frozen workers, `closed`, `mu` | NewPool, AcquireCustom, replenish, Close | one owner per worker, one job per worker, no block or panic on the channel, nothing left on the host |
| Worker resources | `cgroup_linux.go`, `overlay_linux.go` | a cgroup directory, two mounts, a process | create, attach, freeze, thaw, clean up | every error return undoes what was done |
| Job handling | `server.go` `handleConnection`, `pool.go` `ExecuteStream`/`ExecutePTY` | context with deadline, process, output readers | acquire, network, register, thaw, write, select, clean up, exit frame | the job ends, with one verdict |
| Job registry | `registry.go` | job table under a mutex | Register, AttachCgroup, UpdateFinished, Pause, Unpause, Stop, List | the status tells the truth about the cgroup |
| Daemon life cycle | `server.go` `Start`/`Stop`, `recovery.go` | pidfile and its lock, mounts, cgroups | lock, sweep, serve, stop | one daemon; orphans are removed, others spared |
| Address manager | `ipam.go` | JSON lease table in a file, a lock file | AllocateIP, ReleaseIP, GetIP | unique leases, no lost update, no torn file |
| Container networks | `network.go`, `dns.go` | bridge, veth pairs, iptables rules | EnsureBridge, SetupContainerNetwork, Cleanup | an up container is wired; nothing is left after failure |
| Direct runner | `runner.go` | a container without daemon, a sync pipe, a stack of deferred calls | Run | the result is true; nothing is left; Run returns |
| Child | `runner.go` `InitChild`, `security_linux.go` | its privileges and its filter | prepare, wait, drop, filter, exec | the program starts when its host side is ready, confined |
| Wire protocol, client | `protocol.go`, `client.go`, `server.go` | a socket with frames both ways | requests, replies, frames | frames stay whole and in order; the exit status is the job's |
| Output streams | `pool.go` | pipes or a pty, a reader each | read, write a frame, wait | output arrives in order, and all of it |
| Seccomp compiler | `seccomp/filter.go` | none | compileBPF | the filter means what the profile says |
| Configuration, CLI | `config.go`, `cmd/` | none | parsing, printing | defaults |

How they meet. Handlers take workers from the pool and each take starts a
`replenish` goroutine; `Daemon.Stop` closes the pool under both. A handler runs
a job on the worker's cgroup while control connections pause, unpause and stop
it through the registry. Handlers and direct runs share the bridge, iptables and
the lease table, which only a file lock protects. Daemons meet through the
pidfile, and through what a crashed one left on the host. A client and its handler
share a socket that three goroutines of each write to. A direct run and its child
meet in a pipe whose end of file is the permission to go on.

What is hard: goroutines between a lock and a channel; cgroup operations outside
the registry's lock; one `ctx.Done()` for deadline and stop; asynchronous kills
followed by rmdir; error returns of ten-step set-ups; crashes between any two
steps; unlinking a locked file; frames in two writes; reading a pipe that `Wait`
closes; system calls under a filter the process has just given itself. `hazards` in `PROJECT.json` has each at its line.

## Modules

`Pool` models `pool.go` with the handlers that use it. An actor is a handler or
`P`, the one goroutine that may be inside the pool (NewPool, replenish or Close,
which exclude each other by `mu` or by program order). `pending` counts replenish
goroutines that wait for `mu`. `spawnWorker` is a sequence of steps, each of
which may fail (`SpawnFail`); a worker on the host is membership in `ov` and `cg`
and a process state. A process that was sent SIGKILL is `dying` until it exits,
and `Cleanup` may find it still in its cgroup. Worker ids are reused once nothing
of a worker is left, so the behaviours are unbounded with finitely many ids.
`WorkerLife` is its abstract specification: built, idle, leased, gone.

`Jobs` models a run request from the worker to the exit frame, with the
registry's methods as atomic actions on `status`, and the stats stream. Job,
worker and handler share an identity. `big` says that the payload exceeds the
pipe, and `stalled` that the client stopped reading with output left for it. A stats
stream has a client of its own, and is `blocked` when that one stops reading: no write
of `handleStatsStream` has a deadline.

`Daemon` models daemons that start, recover, serve, stop and crash. The pidfile
is an inode under a path, which is what the lock and the unlink act on. Containers
belong to a daemon, to a direct run, or to nobody. `Serve` and `Stop` stand for
pool, socket and accept loop, whose own behaviour is in `Pool` and `Jobs`. A sweep
may miss a kill, since kernels before 5.14 have no `cgroup.kill` and the error of
the write is ignored, or fail as a whole, which `Start` only logs: `missed` has the
containers that were left running. Mounts and directories may outlive sweeps and
clean-ups. `held` and `stuck` are the handlers a client keeps: one that waits for a
request or writes stats, and one blocked in a job's payload or output (as `Jobs` and
`Session` have it). A request accepted before `Stop` may still start a container
after it.

`Ipam` models each call as lock, load, write, rename, unlock, with failures and
crashes between all of them. `Leases` is its abstract specification: a table
that changes by one grant or one release. A crash is that of a process; the
machine's own, and what its disk then has of a rename, is not modelled.

`Network` composes with `Leases` (instantiated; `Ipam` is shown to implement it)
and models EnsureBridge, SetupContainerNetwork and Cleanup. Errors that the code
ignores (ReleaseIP, LinkDel, iptables -D) may happen; `botched` remembers the
containers for which a deletion failed, and no action reads it. Ids and thus veth names are
distinct.

`Session` models one connection: the client of `client.go` with its two input
goroutines, the socket in both directions, the handler, the output readers and the
process. The state is what each of them is about to do (`cpc`, `dpc`, `rpc`,
`fpc`) and what is in between: `up` and `down` hold the writes that nobody has
read, a frame being a header and a payload; `pipe` the output that nobody has read.
Output bytes are numbered chunks, since the properties ask for order and loss only.
A write of the daemon waits for room. The payload of a batch job is written before
anything else of it runs: one that is `big` blocks the handler until the process reads
it, and no deadline reaches it there. Closing a socket with unread input resets it,
which the client sees as an error and not as the end. The registry, the pool and
the network are in their own modules; here a job gets a worker or is rejected.
`Wire` is the abstract specification: whole frames, in order, nothing after the exit
frame.

`Seccomp` has the pure part of the filters: `compileBPF`, the sort that may leave
equal numbers in any order, the denylist with its uint8 jumps, and the kernel's side
(`Accepts`, `Step`, `Verdict`), which is external. `Meaning` is the reference: what
the profile says of a call. A value is its action and its errno, masked as the code
masks it. The name table has the calls the model makes; names outside it stand for
all others that the table lacks.

`Runner` models `gojail direct`. The parent goes through `Run` call by call, each of
which may fail; `defers` is its stack of deferred calls. The child prepares, waits for
the pipe, drops, filters and execs; from the filter on, its system calls get the
filter's verdict, computed by `Seccomp`. The filter belongs to a thread, and the
goroutine is not locked to it: `Migrate` lets the scheduler move it, after which the
calls Go makes on all threads (setgroups, setgid, setuid) still meet the filter and
the others do not. The deadline may pass at any step, the parent may be killed at any
step. SetupContainerNetwork is one step that works or fails, and when it fails it may
leave rules, and a veth it could not delete: `Network` has its insides. Deferred
clean-ups of overlay and network may fail, which Run ignores; `errs` remembers them,
and no action reads it. A program exits with a code of its own, 124 among them, or dies
of a signal. `flags` are the parts of the command line that decide about them.

`MC*` modules add symmetry sets and rules. `PoolProofs`, `JobsProofs`, `DaemonProofs`,
`IpamProofs`, `NetworkProofs`, `SessionProofs`, `SeccompProofs` and `RunnerProofs` hold
the theorems.
Operators whose comment begins with "Fault" are variants of an action with a
plausible bug; they are in no specification and serve to show that each property
can fail.

## Runs

Passing runs:

| Run | Bounds | Shows |
|---|---|---|
| `pool` | capacity 2, 2 handlers, 4 workers | ownership, no block on the channel, warm workers frozen with their resources, no orphan, empty channel after Close |
| `pool_life` | capacity 2, 1 handler, 3 workers | `SingleUse`: Pool implements WorkerLife; Stop gets through Close |
| `jobs` | 1 job | verdicts are final and true, a frozen job is a paused one, jobs and stats streams end unless a client does not read |
| `daemon` | 2 daemons, 3 inodes, 1 container | one daemon until a Stop unlinks the pidfile; a recovered daemon has no live orphan but those its sweep missed; Stop returns unless a client holds a handler |
| `ipam` | 3 callers, 2 addresses | unique leases, no lost update, whole file, refinement of Leases |
| `network` | 3 containers, 2 addresses, 2 ports | up means wired, rules go before the lease, no veth left |
| `session` | 2 chunks per stream, 1 frame per input goroutine, 2 writes in the socket | `ImplementsWire`: frames whole, once, in order; output is a prefix of what was written; the exit status is the job's or a death is behind it; input in order; both ends get through, or a payload is not read |
| `runner` | profiles of 3 rules out of 3, lengths modulo 10 | a program that Run let go has its cgroup, limits and network, is unprivileged, and passed the filter unless it moved; the filter means the profile; nothing is left but what a clean-up failed on or a failed port mapping made; the result is true; Run returns |

Why the bounds are enough. Two handlers and `P` are what races on the channel,
with one worker for each and one more for the queue; a capacity of two has the
partly filled channel. `pool_life` follows a worker through its lives, for which
one handler and `P` suffice; two handlers with one worker is what `pool` excludes.
The registry's methods touch only `jobs[id]` and handlers share nothing but the
registry, so one job with every interleaving of its requests shows what several
would. Two daemons are what the pidfile needs, and three inodes the one each may
hold and a new one; the sweeps treat every container alike. Three callers for two
addresses reach an exhausted subnet and a release that somebody waits for; three
containers likewise, with a rule left by one and its address with another.

Two chunks per stream show reordering and loss, two writes in the socket a writer
that blocks between header and payload; with one frame each, the first resize, the
SIGWINCH goroutine and the stdin goroutine have three frames to mix. Three rules are
two for one call and one more. The 16 bits of the program's length
are scaled down, so that profiles of the model are cut: `LenMod` is 65536 in the code,
and a profile of 32766 known rules is what wraps it.

Symmetry is used in safety runs only. No run has a state constraint: ids are
reused, and `pending` is bounded by the workers that leave the channel, and after
Close by `UseNil`, which ends the daemon.

Fairness, where a run assumes it. Goroutines that can run do. Strong fairness of
`CloseBegin` is sync.Mutex's: a waiter starved for a millisecond gets the lock.
Timers fire, killed processes exit, the stats ticker ticks. In `session` the client
prints what it reads, and a payload that fits the pipe is written. In `daemon` the
containers of a stopping daemon end and are cleaned up (their deadlines pass, Close
kills the warm ones), except those of handlers that are `stuck`. In `runner` only the
parent, the timer and SIGKILL are fair, the child may hang anywhere. Not assumed: that
a program ends or reads its input, that a job under a stats stream ends, that a client
reads, sends or hangs up. Where the code waits for one of these without a deadline, the
property says so: `JobEnds` and `SessionEnds` leave out a payload nobody reads, `JobEnds`
an output nobody reads, `StatsStreamEnds` a blocked stats write, `SessionEnds` a stats
session whose job goes on, and `StopReturns` every handler that one of these keeps.

Runs in which a statement of the repository fails; `findings` in `PROJECT.json`
quotes it:

| Run | What happens |
|---|---|
| `jobs_timeout` | a payload bigger than the pipe blocks before the deadline is watched |
| `daemon_two` | unlinking the pidfile by path allows two daemons |
| `network_rules` | DNAT rules of a half-applied port list stay |
| `session_output` | `cmd.Wait` closes the pipes under the readers, and output is lost |

Other behaviour of the code that the actions have, and that a reader of its
comments may not expect: Close and the recovery sweep may leave cgroup
directories, since they call rmdir while the processes they killed are exiting
(`Pool!Cleanup`, `Daemon!SweepCgroups`); a failed replenish loses its slot for
good (`ReplenishFail`); a stopped job is reported to its client as timed out
(`SelectDone`); a client that does not read keeps an expired job from ending
(`Streams`), and so does its stats stream (`StatsBlock`); a silent connection, and each of
these, keeps Stop waiting (`StopWait`); the sweep kills live direct runs, and a daemon
serves beside orphans that it could not kill (`SweepCgroups`, `SweepCgroupsError`).

- An acquire on a closed and drained pool returns a nil worker and no error
  (`AcquireClosed`), where `pool.go:286` says "Acquire pulls an idle worker from the
  pool or spawns a fallback."; the handler then dereferences it (`UseNil`).
- A pause between registration and the handler's thaw is undone by that thaw, and the
  job runs while it is listed as paused (`Jobs!Thaw`); `registry.go:113` says "Pause
  halts execution of all processes inside the container's cgroup."
- A bridge that exists is used as it is found, also when whoever made it has not given
  it its address, or never will (`Network!FindBridge`).
- A daemon that dies makes the client exit with 0, unless it dies inside a write or
  with unread input (`ReadEOF`).
- Frames a client sends right behind its request may be swallowed by the request's
  JSON decoder (`Decode`), and its two input goroutines may write into each other's
  frames (`InputHead`); the reader on the other side never recovers. `InputInOrder`
  holds where neither happens.
- A direct run that its deadline kills is reported with exit code -1 and a timeout;
  124 is left for a child that ended with 0 when the deadline had passed, perhaps just
  before it did, and for a program that exits with 124 (`Report`). `ResultIsTrue` allows
  all of these: `TimedOut` says that the deadline had passed when Run looked.
- A direct run whose port mappings fail leaves the rules of the first ones, as
  `network_rules` shows for the daemon; a clean-up of overlay or network that fails is
  not reported by anyone (`SetupNetwork`, `Unwind`). `NothingLeft` says that nothing else
  is left.
- A parent that dies before it has set up the cgroup or the network lets its child go
  on without them (`ParentDies`, `Sync`): hence the condition in `Confined`.
- The filter is installed before setgroups, which the name table does not have: under
  a profile whose default is not to allow, no container starts (`Setgroups`). A rule
  with an errno that is a multiple of 65536 makes its call succeed without effect.
  Rules of unknown names are dropped, among them "sysfs" of the default profile;
  `Meaning` gives them none either, so no property notices a dropped rule.
- The exec may happen on a thread without the filter, and the program is then not
  filtered (`Migrate`, `Exec`), although `integration_test.go:153` expects a call "to be
  blocked by seccomp". `Confined` has this case by name (`moved`), and
  `FilterMeansProfile` says what the filter answers where it applies.
- The daemon passes neither the seccomp profile nor the environment of a request on to
  its workers, so `Session` has no trace of them.

## Proofs

Each proof module has one inductive invariant, a conjunction of named parts, with one
lemma for its initial states and steps per action under each part; the theorems follow
from it.

`PoolProofs`, for every capacity, set of handlers and set of workers: `TypeCorrect`,
`Exclusive`, `SendHasRoom`, `CloseDrains`, `WarmIsIntact`, `NothingOrphaned`, and the
refinement `RefinesWorkerLife`. None of the safety theorems is inductive alone. That the send finds room needs the count behind it: queue length, waiting
replenish goroutines and the one holding the lock never exceed the capacity,
because each replenish starts with a worker leaving the channel. That it finds
the channel open, and that nothing enters after the drain, needs the phases of
NewPool, `mu` and Close. That no owner is doubled needs that an actor past its
first spawn step refers to a worker and a finished one to none. That a warm worker is
intact, and that nothing on the host is without an owner, needs what `spawnWorker` has
set up at each of its steps (`Built`): the overlay, then the cgroup, then the process,
which it freezes unless it has a terminal, and which may exit at any point. A step of
one actor touches one worker (`OnlyHost`, `OnlyActor`), so the others keep what they
built. With these, every step of `Pool` is a step of `WorkerLife` or leaves the owners
alone: a worker is used once.

`JobsProofs`, for every set of jobs: `JobTypes`, `ExitFrameIsFinal`, `TimeoutIsTrue`,
`FrozenCanResume` and the action property `VerdictsAreFinal`. The registry follows the
handler (`Registry`): no entry before Register, nothing but a Stop's verdict before
UpdateFinished, a verdict after it. A process lives only from Acquire to Cleanup and
the exit frame comes last (`Ending`). A context is cancelled only by Stop, which marks
the job first, or by the handler at its end (`Deadline`), so "timed_out" in the
registry means that the deadline passed. A payload that is alive and frozen while it
should run belongs to a paused job (`Freezer`), so a resume can reach it.

`DaemonProofs`, for every set of daemons, inodes and containers: `DaemonTyped`,
`LockExcludes`, `SweepKillsOrphans`. The lock is of an inode and not of a path
(`Locking`); as long as no Stop has unlinked the path, all descriptors are of the one
inode it names (`OnePidfile`), so two daemons past flock are one. The hypothesis is
needed: `daemon_two` shows two daemons after a Stop. Only a daemon past recovery has
containers, and what runs has a cgroup directory for the sweep to find (`Housed`); what
the sweep finds it kills or records as missed.

`IpamProofs`, for every set of callers and every subnet: `LeasesUnique`,
`GivenStaysLeased`, `FileWhole`, `IpamTypes` and the refinement `RefinesLeases`. The argument:
whoever is inside a method holds the lock, alone; so a caller about to save works
on the table the file still has, changed in its own entry (`Fresh`); so the file
changes by one grant or one release. A half written temporary file, which a
crash or a full disk leaves, is never renamed: `Fresh` also says that whoever is
about to rename wrote that file whole, which gives `StateFileWhole`.

`NetworkProofs`, for every set of containers, addresses and ports: `NetworksAreWired`,
`RulesDoNotStray`, `NoLinkIsLeft` and `NetworkTypes`. The invariant says what a handler
holds at each step: from AllocateIP to ReleaseIP the lease it knows, which is nobody
else's (`HoldsLease`, `OneLessee`); its veth from LinkAdd to LinkDel (`HoldsVeth`); and
rules only while it holds the lease, or on record as left by a failure (`HoldsRules`).
A rule whose container still has its address cannot point to another's. AllocateIP and
ReleaseIP are the steps of `Leases`, which `RefinesLeases` shows `Ipam` to take.

`SessionProofs`, for every number of chunks and frames and every size of the socket's
buffer: `SessionTypes`, `StatusIsTrue`, `OutputKeepsOrder`, `InputKeepsOrder` and the
refinement `RefinesWire`. Nothing here is inductive without the contents of the socket.
`Stream` gives every piece in it its place: after the frames the client has read come
header and payload of each frame that was written, in order, and a torn piece only at
the end of a connection that broke. `Half`: at most one goroutine is between the header
and the payload of a frame, and that frame is the last begun. `Complete`: while both
ends live, what was written is read, in the socket, or the one payload still to come.
`Settled`: the exit frame is the last, and the result in it is that of the exited
process; so the client's status is true. `Chunks` counts a stream's chunks through
process, pipe, reader and socket; so the output the client has is a prefix. Input has
the same parts in the other direction (`Asking`, `Typed`, `Applied`), with the two known
exceptions as hypotheses: the request's decoder took input with it (`ahead`), and two
input frames were written into each other (`mixed`). Reads and writes of whole frames are the steps of `Wire`.

`SeccompProofs` is about programs of any length. `Verdict` is the recursive function of
the model, and what it returns for every program needs an induction over its steps.
`VerdictInduction` provides it: a set of states that contains the first, that every
instruction stays in, and in which the position grows or the program has returned,
contains the state that gives the verdict. It is proved from the fact that a set of
naturals has a least element (`Least`, from the library's `WFMin`), applied to the steps
that break the claim, which needs no operator as a parameter. `FilterCorrect`, for
every list of compiled rules, default and call: the verdict is the value of the first
rule for the call, the default if there is none, kill for another architecture. Its set
of states ties the position to what is known there: at the check of rule k, no earlier
rule is about the call. `FilterMeaning`: with `compiledRules`, which keeps every known
rule once and sorts by number, this is a `Meaning` of the profile, in whatever order
rules for the same call end up. `OnlyWhole`: of a compiled program the kernel accepts
the full length and no smaller one, because each shorter piece ends in a load, in a
jump, or behind a jump that leaves it; a length cut to 16 bits is refused.
`DenylistCorrect`, for every list of at most 255 calls: the distance to the last
instruction fits the uint8 that holds it, and the answer is EPERM for exactly the calls
on the list. The code's list has 14.

`RunnerProofs`, for every set of rules and length of profiles: `RunnerTypes`,
`NothingIsLeft`, `ResultsAreTrue`, `ProgramsAreConfined` and `FiltersMeanProfiles`.
`RunnerInv` serves the parent's side. What is on the host has its clean-up
among the deferred calls, or that clean-up has failed (`Owed`), with two exceptions: the
rules of a failed network set-up, and a cgroup directory whose clean-up found the killed
child still there. How far the child can be at each call of
Run (`Progress`): not started before Start, gone when Run reports, killed or gone when
Run failed. The result is the exit code the child had, which no later step changes
(`Reported`). The child's own steps, all of them, only need that it was alive and
touches nothing of its parent's (`ChildFrame`). `ConfinedInv` serves the child's side.
A child past the pipe was let go by a Run that only waits, or by its death (`Gate`);
what Run has set up by then (`SetUp`), and that the child keeps it, also when Run's
process dies (`Kept`: a Run that fails kills its child before its deferred call closes
the pipe, so a child that passes a closed pipe was let go); the installed program is the denylist or the
whole program of the profile (`Installed`, by `OnlyWhole`); each privilege call has
worked, or a rule whose errno the mask makes 0 has swallowed it (`Privileges`, by
`FilterMeaning`: no other answer lets a call pass without effect, and the calls are
made on all threads, so the filter is asked); the exec was allowed, or made on another
thread (`Allowed`). A code that only programs exit with is that of one which passed all
this (`Ran`), and so success is never reported of a child that failed on its way.

Assumed, by ASSUMEs in the modules that TLC evaluates on the instances: the pool's
capacity is positive, and `P`, `Nil` are distinct from handlers and workers; `None`,
`Direct` and `Orphan` name no daemon, and `None` no inode; `LastHost`, `MaxRules` and
`MaxInsns` are natural numbers, and `LenMod`, `MaxOut`, `MaxIn` and `SockCap` positive
ones. Rules, their actions and their errnos may be anything.

Only model-checked: the liveness properties (`StopClosesPool`, `JobEnds`,
`StatsStreamEnds`, `StopReturns`, `SessionEnds`, `RunEnds`), because the prover has no
rules for fairness, and the runs that end in a violation, which are counterexamples.

## Not modelled

Contents of output, payloads and frames, and their encodings; CPU and memory figures
(`SampleStats`, `ReadMetrics` only read counters for display). Configuration files,
mount strings, port specifications and flags: sequential parsing without state. The
child's mounts one by one: nobody else sees its mount namespace, so they are one step
that works or fails. Capabilities: `DropCapabilities` ignores every result but the
first, and no step of the code depends on them. A machine crash; a clock that repeats.

## Plan

Done, in this order: Pool, Jobs, Daemon, Ipam with Leases, Network; proofs of Pool and
Ipam; Session with Wire, Seccomp with its proofs, Runner and its proofs, proofs of
Network; proofs of Jobs and Daemon, the host invariants and the refinement of Pool;
proofs of Session with its refinement; the verdicts of programs, and with them the rest
of Runner. Every safety property of the runs now has its theorem. Next: theorems that
say when the four claims that the code violates do hold, as `LockExcludes` does for the
lock of the daemon.
