------------------------------- MODULE Runner -------------------------------
(***************************************************************************)
(* gojail direct: Runner.Run of pkg/sandbox/runner.go with the overlay and *)
(* the cgroup it sets up, and the child it starts, which prepares its root,*)
(* waits on a pipe for the parent to finish, gives up its privileges,      *)
(* installs its seccomp filter and execs the program.  The deadline runs   *)
(* from the start of Run, and the parent may be killed at any step.        *)
(***************************************************************************)
EXTENDS Integers, Seccomp, SequencesExt

CONSTANTS
    Rules,      \* rules a profile may have
    MaxRules    \* length of a profile

ASSUME RulesAssumption == MaxRules \in Nat

\* A profile without a default action has the unknown action "".
Profiles == [default : {"allow", ""}, rules : SeqOf(Rules, MaxRules)]
NoProfile == [default |-> "none", rules |-> <<>>]
Deferred == {"overlay", "cgroup", "sync", "net"}
Drops == {"setgroups", "setgid", "setuid"}
NoResult == [error |-> FALSE, code |-> 0, timedOut |-> FALSE]

VARIABLES
    flags,      \* of the command line: network mode, ports or DNS, memory ceiling
    custom,     \* a seccomp profile is given
    ppc,        \* the parent
    defers,     \* its deferred calls, the last one runs first
    result,     \* what Run returns
    layer,      \* mounts of the overlay that are left
    cg,         \* the cgroup directory exists
    limited,    \* with its limits
    net,        \* its network that is left: the veth's "link", DNAT "rules"
    errs,       \* clean-ups that failed, of which nobody hears
    gate,       \* the sync pipe: "held", "closed" by Run, or by the parent's "death"
    late,       \* the deadline of Run's context has passed
    cpc,        \* the child
    inCg,       \* it is in the cgroup
    sig,        \* it was sent SIGKILL
    code,       \* its exit code, -1 for a signal
    profile, filter,    \* the profile it has read, the program it has installed
    moved,              \* its goroutine has left the thread that has the filter
    dropped             \* the calls that took that thread's privileges

host == <<layer, cg, limited, net, errs>>
child == <<cpc, inCg, sig, code, profile, filter, moved, dropped>>
vars == <<flags, custom, ppc, defers, result, host, gate, late, child>>

TypeOK ==
    /\ flags \in [net : {"none", "bridge", "host"}, ports : BOOLEAN, mem : {-1, 0}]
    /\ custom \in BOOLEAN
    /\ ppc \in {"overlay", "mount", "cgroup", "limits", "start", "attach", "network",
                "release", "wait", "report", "unwind", "returned", "dead"}
    /\ defers \in Seq(Deferred)
    /\ result \in [error : BOOLEAN, code : {-1, 0, 1, 2, 3, 124}, timedOut : BOOLEAN]
    /\ layer \subseteq {"tmpfs", "merged"} /\ cg \in BOOLEAN /\ limited \in BOOLEAN
    /\ net \subseteq {"link", "rules"} /\ errs \subseteq {"overlay", "net", "link"}
    /\ gate \in {"held", "closed", "death"} /\ late \in BOOLEAN
    /\ cpc \in {"none", "prepare", "sync", "caps", "filter", "setgroups", "setgid", "setuid",
                "execve", "program", "failed", "exited"}
    /\ inCg \in BOOLEAN /\ sig \in BOOLEAN /\ code \in {-1, 0, 1, 2, 3, 124}
    /\ profile \in Profiles \cup {NoProfile}
    /\ \A i \in 1..Len(filter) : filter[i].op \in {"ld", "jeq", "ret"}
    /\ moved \in BOOLEAN /\ dropped \subseteq Drops

Init ==
    /\ flags \in [net : {"none", "bridge", "host"}, ports : BOOLEAN, mem : {-1, 0}]
    /\ custom \in BOOLEAN
    /\ ppc = "overlay" /\ defers = <<>> /\ result = NoResult
    /\ layer = {} /\ cg = FALSE /\ limited = FALSE /\ net = {} /\ errs = {}
    /\ gate = "held" /\ late = FALSE
    /\ cpc = "none" /\ inCg = FALSE /\ sig = FALSE /\ code = 0
    /\ profile = NoProfile /\ filter = <<>> /\ moved = FALSE /\ dropped = {}

Alive == cpc \notin {"none", "exited"}

\* handleDirectCommand: ports and name servers turn the bridge on.
NetworkMode == IF flags.ports /\ flags.net = "none" THEN "bridge" ELSE flags.net

\* NewRunner: zero is the default ceiling.
MemoryLimit == IF flags.mem = 0 THEN 128 ELSE flags.mem

-----------------------------------------------------------------------------
(* The parent.                                                             *)

\* Run goes on with the next call, deferring a clean-up.
Proceed(next, deferred) ==
    /\ ppc' = next
    /\ defers' = defers \o deferred
    /\ UNCHANGED result

\* Run returns an error, and the deferred calls begin.
Fail ==
    /\ ppc' = "unwind"
    /\ result' = [NoResult EXCEPT !.error = TRUE]
    /\ UNCHANGED defers

\* NewOverlayManager: a tmpfs, or nothing is left of it.
NewOverlay ==
    /\ ppc = "overlay"
    /\ \/ Proceed("mount", <<"overlay">>) /\ layer' = {"tmpfs"}
       \/ Fail /\ layer' = {}
    /\ UNCHANGED <<flags, custom, cg, limited, net, errs, gate, late, child>>

MountOverlay ==
    /\ ppc = "mount"
    /\ \/ Proceed("cgroup", <<>>) /\ layer' = layer \cup {"merged"}
       \/ Fail /\ UNCHANGED layer
    /\ UNCHANGED <<flags, custom, cg, limited, net, errs, gate, late, child>>

NewCgroup ==
    /\ ppc = "cgroup"
    /\ \/ Proceed("limits", <<"cgroup">>) /\ cg' = TRUE
       \/ Fail /\ UNCHANGED cg
    /\ UNCHANGED <<flags, custom, layer, limited, net, errs, gate, late, child>>

\* Only a positive ceiling is written.
ApplyLimits ==
    /\ ppc = "limits"
    /\ \/ Proceed("start", <<>>) /\ limited' = (MemoryLimit > 0)
       \/ Fail /\ UNCHANGED limited
    /\ UNCHANGED <<flags, custom, layer, cg, net, errs, gate, late, child>>

\* The pipe and the child; Start refuses when the deadline has passed.
StartChild ==
    /\ ppc = "start"
    /\ \/ ~late /\ Proceed("attach", <<"sync">>) /\ cpc' = "prepare"
       \/ Fail /\ UNCHANGED cpc
    /\ UNCHANGED <<flags, custom, host, gate, late, inCg, sig, code, profile, filter, moved, dropped>>

\* Fault: a child that cannot be attached is left running.
AttachPIDNoKill ==
    /\ ppc = "attach"
    /\ \/ Proceed("network", <<>>) /\ inCg' = Alive
       \/ Fail /\ UNCHANGED inCg
    /\ UNCHANGED <<flags, custom, host, gate, late, sig, cpc, code, profile, filter, moved, dropped>>

\* AttachPID; the child that cannot be attached is killed and not waited for.
AttachPID ==
    /\ ppc = "attach"
    /\ \/ Proceed("network", <<>>) /\ inCg' = Alive /\ UNCHANGED sig
       \/ Fail /\ sig' = TRUE /\ UNCHANGED inCg
    /\ UNCHANGED <<flags, custom, host, gate, late, cpc, code, profile, filter, moved, dropped>>

\* Rules that port mappings may leave; name servers alone have none.
Forwards == IF flags.ports THEN {{}, {"rules"}} ELSE {{}}

\* SetupContainerNetwork.  When it fails it deletes the veth, if it can, and not the
\* rules of the mappings it has done.
SetupNetwork ==
    /\ ppc = "network"
    /\ \/ /\ NetworkMode # "bridge"
          /\ Proceed("release", <<>>) /\ UNCHANGED <<net, errs, sig>>
       \/ /\ NetworkMode = "bridge" /\ Alive
          /\ Proceed("release", <<"net">>)
          /\ \E rules \in Forwards : net' = {"link"} \cup rules
          /\ UNCHANGED <<errs, sig>>
       \/ /\ NetworkMode = "bridge"
          /\ Fail /\ sig' = TRUE
          /\ \E rules \in Forwards, stays \in SUBSET {"link"} :
                net' = rules \cup stays /\ errs' = errs \cup stays
    /\ UNCHANGED <<flags, custom, layer, cg, limited, gate, late, cpc, inCg, code, profile,
                   filter, moved, dropped>>

\* syncW.Close.
Release ==
    /\ ppc = "release"
    /\ Proceed("wait", <<>>)
    /\ gate' = "closed"
    /\ UNCHANGED <<flags, custom, host, late, child>>

\* cmd.Wait returns.
Reap ==
    /\ ppc = "wait" /\ cpc = "exited"
    /\ Proceed("report", <<>>)
    /\ UNCHANGED <<flags, custom, host, gate, late, child>>

\* Fault: a child that died of a signal is reported as a shell does.
ReportSignal ==
    /\ ppc = "report"
    /\ result' = [error |-> FALSE, code |-> IF code = -1 THEN 137 ELSE code, timedOut |-> late]
    /\ ppc' = "unwind"
    /\ UNCHANGED <<flags, custom, defers, host, gate, late, child>>

\* Fault: the exit error is not looked at.
ReportAny ==
    /\ ppc = "report"
    /\ result' = [error |-> FALSE, code |-> IF late THEN 124 ELSE 0, timedOut |-> late]
    /\ ppc' = "unwind"
    /\ UNCHANGED <<flags, custom, defers, host, gate, late, child>>

\* The context is asked after Wait: late, and an exit code of 0, is 124.
Report ==
    /\ ppc = "report"
    /\ result' = [error |-> FALSE, code |-> IF late /\ code = 0 THEN 124 ELSE code,
                  timedOut |-> late]
    /\ ppc' = "unwind"
    /\ UNCHANGED <<flags, custom, defers, host, gate, late, child>>

\* A deferred call.  Those for the overlay and the network may fail, in part or as
\* a whole, and Run ignores it.  Cleanup of the cgroup kills who is in it; its rmdir
\* works only when they are gone.
Unwind ==
    /\ ppc = "unwind" /\ defers # <<>>
    /\ LET d == Last(defers) IN
        /\ layer' \in IF d = "overlay" THEN SUBSET layer ELSE {layer}
        /\ net' \in IF d = "net" THEN SUBSET net ELSE {net}
        /\ errs' = IF (d = "overlay" /\ layer' # {}) \/ (d = "net" /\ net' # {})
                   THEN errs \cup {d} ELSE errs
        /\ cg' = IF d = "cgroup" THEN inCg /\ Alive ELSE cg
        /\ sig' = (sig \/ (d = "cgroup" /\ inCg /\ Alive))
        /\ gate' = IF d = "sync" THEN "closed" ELSE gate
    /\ defers' = Front(defers)
    /\ UNCHANGED <<flags, custom, ppc, result, limited, late, cpc, inCg, code, profile,
                   filter, moved, dropped>>

\* The command line exits with the result.
Return ==
    /\ ppc = "unwind" /\ defers = <<>>
    /\ ppc' = "returned"
    /\ UNCHANGED <<flags, custom, defers, result, host, gate, late, child>>

\* The parent is killed: nothing is cleaned up, and the kernel closes the pipe.
ParentDies ==
    /\ ppc \notin {"returned", "dead"}
    /\ ppc' = "dead"
    /\ gate' = IF gate = "held" THEN "death" ELSE gate
    /\ UNCHANGED <<flags, custom, defers, result, host, late, child>>

\* The deadline passes.
Expire ==
    /\ ~late /\ ppc \notin {"returned", "dead"}
    /\ late' = TRUE
    /\ UNCHANGED <<flags, custom, ppc, defers, result, host, gate, child>>

\* Fault: the deadline is not watched while Run waits.
ContextKillEarly ==
    /\ late /\ Alive /\ ~sig /\ ppc \notin {"wait", "report", "returned", "dead"}
    /\ sig' = TRUE
    /\ UNCHANGED <<flags, custom, ppc, defers, result, host, gate, late, cpc, inCg, code,
                   profile, filter, moved, dropped>>

\* The goroutine CommandContext starts with the child.
ContextKill ==
    /\ late /\ Alive /\ ~sig /\ ppc \notin {"returned", "dead"}
    /\ sig' = TRUE
    /\ UNCHANGED <<flags, custom, ppc, defers, result, host, gate, late, cpc, inCg, code,
                   profile, filter, moved, dropped>>

-----------------------------------------------------------------------------
(* The child.  A process that was sent SIGKILL does nothing more.          *)

ChildAt(s) == cpc = s /\ ~sig
Call(c) == [nr |-> IF c = "setgroups" THEN 116 ELSE syscallNameToNR[c], arch |-> X86_64]
Unfiltered(c) == filter = <<>> \/ (moved /\ c \notin Drops)
Answer(c) == IF Unfiltered(c) THEN Value("allow", 0) ELSE Verdict(filter, Call(c))

\* The goroutine is not locked to a thread, and the scheduler may move it.  The
\* calls in Drops are made on all threads, the others on its own.
Migrate ==
    /\ cpc \in Drops \cup {"execve", "failed"} /\ filter # <<>> /\ ~sig
    /\ moved' = ~moved
    /\ UNCHANGED <<flags, custom, ppc, defers, result, host, gate, late, cpc, inCg, sig, code,
                   profile, filter, dropped>>

\* A step that works or fails.
To(next) == cpc' \in {next, "failed"}

\* Its configuration, private mounts, device nodes, volumes, pivot_root, loopback.
Prepare ==
    /\ ChildAt("prepare")
    /\ To("sync")
    /\ UNCHANGED <<flags, custom, ppc, defers, result, host, gate, late, inCg, sig, code,
                   profile, filter, moved, dropped>>

\* Fault: the child does not wait.
SyncSkipped ==
    /\ ChildAt("sync")
    /\ cpc' = "caps"
    /\ UNCHANGED <<flags, custom, ppc, defers, result, host, gate, late, inCg, sig, code,
                   profile, filter, moved, dropped>>

\* The read of the pipe ends when nobody holds its other end.
Sync ==
    /\ ChildAt("sync") /\ gate # "held"
    /\ cpc' = "caps"
    /\ UNCHANGED <<flags, custom, ppc, defers, result, host, gate, late, inCg, sig, code,
                   profile, filter, moved, dropped>>

DropCapabilities ==
    /\ ChildAt("caps")
    /\ To("filter")
    /\ UNCHANGED <<flags, custom, ppc, defers, result, host, gate, late, inCg, sig, code,
                   profile, filter, moved, dropped>>

\* Every profile, with a program it may be compiled to and the length that
\* the kernel is told.
Compiled ==
    UNION {{LET prog == compileBPF(t, actionToValue(p.default, EPERM)) IN
            [of |-> p, prog |-> prog, len |-> Len(prog) % LenMod] :
                t \in compiledRules(p)} : p \in Profiles}
Loadable == {c \in Compiled : Accepts(c.prog, c.len)}

\* ApplySeccompFilter without a profile.
ApplySeccompDenylist ==
    /\ ChildAt("filter") /\ ~custom
    /\ filter' = Denylist(blockedSyscalls) /\ Accepts(filter', Len(filter'))
    /\ cpc' = "setgroups"
    /\ UNCHANGED <<flags, custom, ppc, defers, result, host, gate, late, inCg, sig, code,
                   profile, moved, dropped>>

\* With one: the kernel takes as much of its program as the length says.
ApplyProfile ==
    /\ ChildAt("filter") /\ custom
    /\ \E c \in Loadable : filter' = SubSeq(c.prog, 1, c.len) /\ profile' = c.of
    /\ cpc' = "setgroups"
    /\ UNCHANGED <<flags, custom, ppc, defers, result, host, gate, late, inCg, sig, code,
                   moved, dropped>>

\* The profile cannot be read or parsed, or the kernel refuses the program.
ApplyFilterError ==
    /\ ChildAt("filter")
    /\ cpc' = "failed"
    /\ UNCHANGED <<flags, custom, ppc, defers, result, host, gate, late, inCg, sig, code,
                   profile, filter, moved, dropped>>

\* A call of the child under its filter.  A privilege call answered with an errno of
\* 0 is left out and taken to have worked; an exec that returns has failed, whatever
\* its errno; trace without a tracer is ENOSYS.
Filtered(c, next) ==
    /\ ChildAt(c)
    /\ LET v == Answer(c)
           skipped == v = Value("errno", 0) /\ c \in Drops
       IN
        \/ v.action = "allow" /\ To(next) /\ UNCHANGED code
           /\ dropped' = IF cpc' = next /\ c \in Drops THEN dropped \cup {c} ELSE dropped
        \/ skipped /\ cpc' = next /\ UNCHANGED <<code, dropped>>
        \/ v.action \in {"errno", "trace"} /\ ~skipped /\ cpc' = "failed"
           /\ UNCHANGED <<code, dropped>>
        \/ v.action \in {"kill", "trap"} /\ cpc' = "exited" /\ code' = -1
           /\ UNCHANGED dropped
    /\ UNCHANGED <<flags, custom, ppc, defers, result, host, gate, late, inCg, sig,
                   profile, filter, moved>>

Setgroups == Filtered("setgroups", "setgid")
Setgid == Filtered("setgid", "setuid")
Setuid == Filtered("setuid", "execve")
Exec == Filtered("execve", "program")

\* The child reports its error and exits, with 2 when a call had different results
\* on its threads, or the program exits with a code of its own, 124 too, or dies of
\* a signal; a process that may not call exit_group crashes, or hangs.
ChildExit ==
    /\ ChildAt("failed") \/ ChildAt("program")
    /\ code' \in IF Answer("exit_group").action # "allow" THEN {-1}
                 ELSE IF cpc = "failed" THEN {1, 2} ELSE {-1, 0, 3, 124}
    /\ cpc' = "exited"
    /\ UNCHANGED <<flags, custom, ppc, defers, result, host, gate, late, inCg, sig,
                   profile, filter, moved, dropped>>

ChildKilled ==
    /\ Alive /\ sig
    /\ cpc' = "exited" /\ code' = -1
    /\ UNCHANGED <<flags, custom, ppc, defers, result, host, gate, late, inCg, sig,
                   profile, filter, moved, dropped>>

-----------------------------------------------------------------------------
Parent ==
    \/ NewOverlay \/ MountOverlay \/ NewCgroup \/ ApplyLimits \/ StartChild \/ AttachPID
    \/ SetupNetwork \/ Release \/ Reap \/ Report \/ Unwind \/ Return

Child ==
    \/ Prepare \/ Sync \/ DropCapabilities \/ ApplySeccompDenylist \/ ApplyProfile
    \/ ApplyFilterError \/ Migrate \/ Setgroups \/ Setgid \/ Setuid \/ Exec \/ ChildExit

\* The parent is gone, and so is the child or nobody looks at it.
Over == ppc \in {"returned", "dead"} /\ UNCHANGED vars

Next == Parent \/ ParentDies \/ Expire \/ ContextKill \/ Child \/ ChildKilled \/ Over

Spec == Init /\ [][Next]_vars

\* The parent's calls return, the timer fires, and SIGKILL kills.  The child and
\* the program need not do anything.
Fairness == WF_vars(Parent) /\ WF_vars(Expire) /\ WF_vars(ContextKill) /\ WF_vars(ChildKilled)

FairSpec == Spec /\ Fairness

-----------------------------------------------------------------------------
(* Properties.                                                             *)

\* A rule of the profile answers with an errno that the 16 bit mask makes 0.
Masked ==
    \E i \in 1..Len(profile.rules) :
        profile.rules[i].errno # 0 /\ profile.rules[i].errno % 65536 = 0

\* The child has given up its privileges; only a masked errno lets a call for it
\* pass without effect.
Unprivileged == dropped = Drops \/ Masked

\* A program runs unprivileged, and its exec was allowed by the filter that one
\* thread of the child has; when the goroutine has moved to another thread, exec is
\* not filtered, and neither is the program.  If Run let it go, it is in its cgroup
\* with its limits, unless the ceiling is negative, and has its network, also when
\* Run's process has died since.  A child that the death of Run's process let go
\* may have none of these three.
Confined ==
    cpc = "program" =>
        /\ Unprivileged
        /\ filter # <<>> /\ (moved \/ Verdict(filter, Call("execve")).action = "allow")
        /\ gate # "death" =>
            /\ inCg /\ cg /\ (flags.mem >= 0 => limited)
            /\ NetworkMode = "bridge" => "link" \in net

\* The program that is installed answers every call as the profile says, also
\* with rules that share a call and a length that does not fit: such a program is
\* refused.  Rules for names that the table lacks are dropped by compileBPF, and are
\* not part of what Meaning asks for; on which threads the program is installed is
\* not said here.
FilterMeansProfile ==
    filter # <<>> =>
        \A c \in DOMAIN syscallNameToNR \cup {"setgroups"}, arch \in {X86_64, 3} :
            LET call == [Call(c) EXCEPT !.arch = arch] IN
            IF custom THEN Verdict(filter, call) \in Meaning(profile, call)
            ELSE Verdict(filter, call).action =
                    IF call.nr \in Range(blockedSyscalls) THEN "errno" ELSE "allow"

\* What a Run that has returned leaves, and of which of its calls: a mount only if
\* the overlay's Cleanup failed; a veth only if deleting it failed; DNAT rules only
\* if the network's Cleanup failed, or if its set-up failed after a port mapping; a
\* process only if it is dying; a cgroup directory only after a failed network
\* set-up, whose child was still dying.
NothingLeft ==
    ppc = "returned" =>
        /\ layer # {} => "overlay" \in errs
        /\ "link" \in net => errs \cap {"net", "link"} # {}
        /\ "rules" \in net =>
            flags.ports /\ ("net" \in errs \/ (result.error /\ NetworkMode = "bridge"))
        /\ Alive => sig /\ result.error
        /\ cg => result.error /\ inCg /\ NetworkMode = "bridge"

\* A result is of a child that is gone.  Success is reported of a program that ran
\* unprivileged, exited with 0 and was not late; 124 of one that exited with 124, or
\* with 0 and late; any other code is the child's.  A timeout is reported only after
\* the deadline, though perhaps of a child that ended before it.
ResultIsTrue ==
    ppc = "returned" /\ ~result.error =>
        /\ cpc = "exited"
        /\ result.timedOut => late
        /\ result.code = 0 => code = 0 /\ ~result.timedOut
        /\ result.code = 124 => code = 124 \/ (code = 0 /\ result.timedOut)
        /\ result.code \notin {0, 124} => result.code = code
        /\ result.code \in {0, 124} => filter # <<>> /\ Unprivileged

\* Run always returns: the deadline kills a child that hangs, wherever it hangs.
RunEnds == <>(ppc \in {"returned", "dead"})

=============================================================================
