---------------------------- MODULE RunnerProofs ----------------------------
(***************************************************************************)
(* Direct runs, for every set of rules and every length of a profile: what *)
(* Run has set up it takes down, whichever call fails, what it reports is  *)
(* what happened, and the program it starts is confined as it was asked.   *)
(***************************************************************************)
EXTENDS Runner, SeccompProofs, TLAPS

Early == {"overlay", "mount", "cgroup", "limits", "start"}
Ending == {"unwind", "returned"}
Has(d) == \E i \in 1..Len(defers) : defers[i] = d

Results == [error : BOOLEAN, code : Int, timedOut : BOOLEAN]

Types ==
    /\ ppc \in Early \cup Ending \cup {"attach", "network", "release", "wait", "report", "dead"}
    /\ defers \in Seq(Deferred)
    /\ result \in Results
    /\ cg \in BOOLEAN /\ inCg \in BOOLEAN /\ sig \in BOOLEAN /\ late \in BOOLEAN
    /\ net \subseteq {"link", "rules"} /\ code \in {-1, 0, 1, 2, 3, 124}

\* How far the child is at each call of Run, and what a Run that ends knows of it.
Progress ==
    /\ ppc \in Early => cpc = "none"
    /\ ppc \in Early \cup {"attach"} => ~inCg
    /\ ppc = "report" => cpc = "exited"
    /\ ppc \in Ending /\ ~result.error => cpc = "exited"
    /\ ppc \in Ending /\ result.error => (Alive => sig) /\ (inCg => NetworkMode = "bridge")

\* What is on the host has its clean-up deferred, or that clean-up has failed; the
\* rules and the cgroup directory of a Run that failed may have had none.
Owed ==
    /\ ppc = "mount" => Has("overlay")
    /\ ppc = "returned" => defers = <<>>
    /\ ppc # "dead" =>
        /\ layer # {} => Has("overlay") \/ "overlay" \in errs
        /\ "link" \in net => Has("net") \/ errs \cap {"net", "link"} # {}
        /\ "rules" \in net =>
            /\ flags.ports
            /\ \/ Has("net") \/ "net" \in errs
               \/ ppc \in Ending /\ result.error /\ NetworkMode = "bridge"
        /\ cg => Has("cgroup") \/ (ppc \in Ending /\ result.error /\ inCg)

\* The result is the child's exit code, but for a 0 that was late.
Reported ==
    ppc \in Ending /\ ~result.error =>
        /\ result.timedOut => late
        /\ result.code = IF result.timedOut /\ code = 0 THEN 124 ELSE code

RunnerInv == Types /\ Progress /\ Owed /\ Reported

\* A deferred call that runs leaves the others.
LEMMA Deferring ==
    ASSUME NEW q \in Seq(Deferred), q # <<>>
    PROVE  /\ Front(q) \in Seq(Deferred)
           /\ \A d \in Deferred : d # Last(q) /\ (\E i \in 1..Len(q) : q[i] = d)
                => \E i \in 1..Len(Front(q)) : Front(q)[i] = d
<1>1. Len(q) \in Nat /\ Len(q) >= 1
  OBVIOUS
<1>2. Front(q) \in Seq(Deferred) /\ Len(Front(q)) = Len(q) - 1
  BY <1>1 DEF Front
<1>3. \A i \in 1..(Len(q) - 1) : Front(q)[i] = q[i]
  BY <1>1 DEF Front
<1> QED BY <1>1, <1>2, <1>3 DEF Last

\* A deferred call that is added leaves the others.
LEMMA Pushing ==
    ASSUME NEW q \in Seq(Deferred), NEW d \in Deferred
    PROVE  /\ q \o <<d>> \in Seq(Deferred)
           /\ \E i \in 1..Len(q \o <<d>>) : (q \o <<d>>)[i] = d
           /\ \A e : (\E i \in 1..Len(q) : q[i] = e)
                => \E i \in 1..Len(q \o <<d>>) : (q \o <<d>>)[i] = e
<1>1. Len(q) \in Nat /\ q \o <<d>> \in Seq(Deferred) /\ Len(q \o <<d>>) = Len(q) + 1
  OBVIOUS
<1>2. (q \o <<d>>)[Len(q) + 1] = d /\ \A i \in 1..Len(q) : (q \o <<d>>)[i] = q[i]
  OBVIOUS
<1> QED BY <1>1, <1>2

\* The results Run begins with and fails with.
LEMMA PlainResults ==
    /\ NoResult \in Results
    /\ [NoResult EXCEPT !.error = TRUE] \in Results
    /\ [NoResult EXCEPT !.error = TRUE].error = TRUE
<1>1. NoResult \in Results BY DEF NoResult, Results
<1>2. [NoResult EXCEPT !.error = TRUE] \in Results BY <1>1 DEF Results
<1>3. [NoResult EXCEPT !.error = TRUE].error = TRUE BY <1>1 DEF Results
<1> QED BY <1>1, <1>2, <1>3

\* What Run looks like when a call has failed.
LEMMA Failing ==
    ASSUME Fail
    PROVE  ppc' = "unwind" /\ result' \in Results /\ result'.error /\ defers' = defers
BY PlainResults DEF Fail

\* Nothing runs and nothing is set up in the beginning.
LEMMA RunnerInit ==
    ASSUME Init
    PROVE  RunnerInv
<1>1. Types
  <2>1. ppc = "overlay" /\ defers = <<>> /\ result \in Results BY PlainResults DEF Init
  <2>2. <<>> \in Seq(Deferred) OBVIOUS
  <2>3. ~cg /\ net = {} /\ ~inCg /\ ~sig /\ ~late /\ code = 0 BY DEF Init
  <2>4. {cg, inCg, sig, late} \subseteq BOOLEAN BY DEF Init
  <2> QED BY <2>1, <2>2, <2>3, <2>4 DEF Types, Early
<1>2. Progress /\ Reported BY DEF Init, Progress, Reported, Early, Ending
<1>3. Owed BY DEF Init, Owed
<1> QED BY <1>1, <1>2, <1>3 DEF RunnerInv

\* Whatever the child does, it is alive before, and only its own state changes.
LEMMA ChildFrame ==
    ASSUME Child \/ ChildKilled
    PROVE  /\ Alive /\ cpc' # "none" /\ UNCHANGED <<flags, custom, ppc, defers, result, host,
                                                    gate, late, inCg, sig>>
           /\ code' = code \/ code' \in {-1, 0, 1, 2, 3, 124}
<1> USE DEF ChildAt, Alive, To, host
<1>1. CASE Prepare BY <1>1 DEF Prepare
<1>2. CASE Sync BY <1>2 DEF Sync
<1>3. CASE DropCapabilities BY <1>3 DEF DropCapabilities
<1>4. CASE ApplySeccompDenylist BY <1>4 DEF ApplySeccompDenylist
<1>5. CASE ApplyProfile BY <1>5 DEF ApplyProfile
<1>6. CASE ApplyFilterError BY <1>6 DEF ApplyFilterError
<1>7. CASE Migrate BY <1>7 DEF Migrate, Drops
<1>8. CASE Setgroups BY <1>8 DEF Setgroups, Filtered
<1>9. CASE Setgid BY <1>9 DEF Setgid, Filtered
<1>10. CASE Setuid BY <1>10 DEF Setuid, Filtered
<1>11. CASE Exec BY <1>11 DEF Exec, Filtered
<1>12. CASE ChildExit BY <1>12 DEF ChildExit
<1>13. CASE ChildKilled BY <1>13 DEF ChildKilled
<1> QED BY <1>1, <1>2, <1>3, <1>4, <1>5, <1>6, <1>7, <1>8, <1>9, <1>10, <1>11, <1>12, <1>13
        DEF Child

\* A step of the child keeps the invariant: it can only end while Run waits or has
\* killed it.
LEMMA ChildStep ==
    ASSUME RunnerInv, Child \/ ChildKilled
    PROVE  RunnerInv'
<1> USE DEF RunnerInv
<1>f. /\ Alive /\ cpc' # "none" /\ (code' = code \/ code' \in {-1, 0, 1, 2, 3, 124})
      /\ UNCHANGED <<flags, ppc, defers, result, layer, cg, net, errs, late, inCg, sig>>
  BY ChildFrame DEF host
<1>1. Types' BY <1>f DEF Types
<1>2. Progress' BY <1>f DEF Progress, Early, Ending, Alive, NetworkMode
<1>3. Owed' BY <1>f DEF Owed, Has, NetworkMode, Ending
<1>4. Reported' BY <1>f DEF Reported, Progress, Alive, Ending
<1> QED BY <1>1, <1>2, <1>3, <1>4

\* A call of Run that defers nothing.
LEMMA ProceedPlain ==
    ASSUME Types, NEW next, Proceed(next, <<>>)
    PROVE  defers' = defers /\ ppc' = next /\ result' = result
BY DEF Proceed, Types

\* A call of Run that works or fails, up to the start of the child.
LEMMA SetUpStep ==
    ASSUME RunnerInv,
           NewOverlay \/ MountOverlay \/ NewCgroup \/ ApplyLimits \/ StartChild
    PROVE  RunnerInv'
<1> USE DEF RunnerInv, child, host
<1>t. defers \in Seq(Deferred) /\ {"overlay", "cgroup", "sync", "net"} \subseteq Deferred
  BY DEF Types, Deferred
<1>1. CASE NewOverlay
  <2>1. CASE Fail /\ layer' = {}
    BY <1>1, <2>1, Failing DEF NewOverlay, Types, Progress, Owed, Reported, Has, Early, Ending,
                               Alive, NetworkMode
  <2>2. CASE Proceed("mount", <<"overlay">>)
    <3>1. Has("overlay")' /\ defers' \in Seq(Deferred) /\ \A d : Has(d) => Has(d)'
      BY <2>2, <1>t, Pushing DEF Proceed, Has
    <3> QED BY <1>1, <2>2, <3>1 DEF NewOverlay, Proceed, Types, Progress, Owed, Reported,
                                    Early, Ending, Alive, NetworkMode
  <2> QED BY <1>1, <2>1, <2>2 DEF NewOverlay
<1>2. CASE MountOverlay
  <2>1. CASE Fail /\ UNCHANGED layer
    BY <1>2, <2>1, Failing DEF MountOverlay, Types, Progress, Owed, Reported, Has, Early, Ending,
                               Alive, NetworkMode
  <2>2. CASE Proceed("cgroup", <<>>)
    BY <1>2, <2>2, ProceedPlain DEF MountOverlay, Types, Progress, Owed, Reported, Has,
                                    Early, Ending, Alive, NetworkMode
  <2> QED BY <1>2, <2>1, <2>2 DEF MountOverlay
<1>3. CASE NewCgroup
  <2>1. CASE Fail /\ UNCHANGED cg
    BY <1>3, <2>1, Failing DEF NewCgroup, Types, Progress, Owed, Reported, Has, Early, Ending,
                               Alive, NetworkMode
  <2>2. CASE Proceed("limits", <<"cgroup">>) /\ cg' = TRUE
    <3>1. Has("cgroup")' /\ defers' \in Seq(Deferred) /\ \A d : Has(d) => Has(d)'
      BY <2>2, <1>t, Pushing DEF Proceed, Has
    <3> QED BY <1>3, <2>2, <3>1 DEF NewCgroup, Proceed, Types, Progress, Owed, Reported,
                                    Early, Ending, Alive, NetworkMode
  <2> QED BY <1>3, <2>1, <2>2 DEF NewCgroup
<1>4. CASE ApplyLimits
  <2>1. CASE Fail
    BY <1>4, <2>1, Failing DEF ApplyLimits, Types, Progress, Owed, Reported, Has, Early, Ending,
                               Alive, NetworkMode
  <2>2. CASE Proceed("start", <<>>)
    BY <1>4, <2>2, ProceedPlain DEF ApplyLimits, Types, Progress, Owed, Reported, Has,
                                    Early, Ending, Alive, NetworkMode
  <2> QED BY <1>4, <2>1, <2>2 DEF ApplyLimits
<1>5. CASE StartChild
  <2>1. CASE Fail /\ UNCHANGED cpc
    BY <1>5, <2>1, Failing DEF StartChild, Types, Progress, Owed, Reported, Has, Early, Ending,
                               Alive, NetworkMode
  <2>2. CASE Proceed("attach", <<"sync">>)
    <3>1. defers' \in Seq(Deferred) /\ \A d : Has(d) => Has(d)'
      BY <2>2, <1>t, Pushing DEF Proceed, Has
    <3> QED BY <1>5, <2>2, <3>1 DEF StartChild, Proceed, Types, Progress, Owed, Reported,
                                    Early, Ending, Alive, NetworkMode
  <2> QED BY <1>5, <2>1, <2>2 DEF StartChild
<1> QED BY <1>1, <1>2, <1>3, <1>4, <1>5

\* The calls of Run from the start of the child to its report.
LEMMA RunStep ==
    ASSUME RunnerInv, AttachPID \/ SetupNetwork \/ Release \/ Reap \/ Report
    PROVE  RunnerInv'
<1> USE DEF RunnerInv, child, host
<1>t. defers \in Seq(Deferred) /\ {"overlay", "cgroup", "sync", "net"} \subseteq Deferred
  BY DEF Types, Deferred
<1>1. CASE AttachPID
  <2>1. CASE Fail /\ sig' = TRUE /\ UNCHANGED inCg
    BY <1>1, <2>1, Failing DEF AttachPID, Types, Progress, Owed, Reported, Has, Early, Ending,
                               Alive, NetworkMode
  <2>2. CASE Proceed("network", <<>>) /\ inCg' = Alive /\ UNCHANGED sig
    BY <1>1, <2>2, ProceedPlain DEF AttachPID, Types, Progress, Owed, Reported, Has,
                                    Early, Ending, Alive, NetworkMode
  <2> QED BY <1>1, <2>1, <2>2 DEF AttachPID
<1>2. CASE SetupNetwork
  <2>s. /\ ppc = "network" /\ flags' = flags
        /\ UNCHANGED <<layer, cg, late, cpc, inCg, code>>
    BY <1>2 DEF SetupNetwork
  <2>r. ASSUME NEW rules \in Forwards
        PROVE  rules \subseteq {"rules"} /\ (rules # {} => flags.ports)
    BY DEF Forwards
  <2>1. CASE NetworkMode = "bridge" /\ Fail /\ sig' = TRUE
    <3>1. PICK rules \in Forwards, stays \in SUBSET {"link"} :
            net' = rules \cup stays /\ errs' = errs \cup stays
      BY <1>2, <2>1, <2>s DEF SetupNetwork, Fail, Proceed
    <3>2. net' \subseteq {"link", "rules"} /\ errs \subseteq errs' BY <3>1, <2>r
    <3>3. "link" \in net' => "link" \in errs' BY <3>1, <2>r
    <3>4. "rules" \in net' => flags.ports BY <3>1, <2>r
    <3> HIDE DEF host, child
    <3> QED BY <2>s, <2>1, <3>2, <3>3, <3>4, Failing DEF Types, Progress, Owed, Reported, Has,
                                     Early, Ending, Alive, NetworkMode
  <2>2. CASE Proceed("release", <<>>) /\ UNCHANGED <<net, errs, sig>>
    BY <1>2, <2>2, ProceedPlain DEF SetupNetwork, Types, Progress, Owed, Reported, Has,
                                    Early, Ending, Alive, NetworkMode
  <2>3. CASE Proceed("release", <<"net">>) /\ UNCHANGED <<errs, sig>>
    <3>1. Has("net")' /\ defers' \in Seq(Deferred) /\ \A d : Has(d) => Has(d)'
      BY <2>3, <1>t, Pushing DEF Proceed, Has
    <3>2. PICK rules \in Forwards : net' = {"link"} \cup rules
      BY <1>2, <2>3, <2>s DEF SetupNetwork, Proceed, Fail
    <3>3. net' \subseteq {"link", "rules"} /\ ("rules" \in net' => flags.ports) BY <3>2, <2>r
    <3> HIDE DEF host, child
    <3> QED BY <2>s, <2>3, <3>1, <3>3 DEF Proceed, Types, Progress, Owed, Reported,
                                    Early, Ending, Alive, NetworkMode
  <2> QED BY <1>2, <2>1, <2>2, <2>3 DEF SetupNetwork
<1>3. CASE Release
  BY <1>3, ProceedPlain DEF Release, Types, Progress, Owed, Reported, Has, Early, Ending,
                            Alive, NetworkMode
<1>4. CASE Reap
  BY <1>4, ProceedPlain DEF Reap, Types, Progress, Owed, Reported, Has, Early, Ending,
                            Alive, NetworkMode
<1>5. CASE Report
  <2>1. /\ result' \in Results /\ ~result'.error /\ result'.timedOut = late
        /\ result'.code = IF late /\ code = 0 THEN 124 ELSE code
    BY <1>5 DEF Report, Types, Results
  <2> QED BY <1>5, <2>1 DEF Report, Types, Progress, Owed, Reported, Has, Early, Ending,
                            Alive, NetworkMode
<1> QED BY <1>1, <1>2, <1>3, <1>4, <1>5

\* A deferred call takes down what it is for, and keeps the rest owed.
LEMMA UnwindStep ==
    ASSUME RunnerInv, Unwind
    PROVE  RunnerInv'
<1> USE DEF RunnerInv
<1> DEFINE d == Last(defers)
<1>1. /\ ppc = "unwind" /\ ppc' = "unwind" /\ defers # <<>> /\ defers' = Front(defers)
      /\ layer' \in IF d = "overlay" THEN SUBSET layer ELSE {layer}
      /\ net' \in IF d = "net" THEN SUBSET net ELSE {net}
      /\ errs' = IF (d = "overlay" /\ layer' # {}) \/ (d = "net" /\ net' # {})
                 THEN errs \cup {d} ELSE errs
      /\ cg' = IF d = "cgroup" THEN inCg /\ Alive ELSE cg
      /\ sig' = (sig \/ (d = "cgroup" /\ inCg /\ Alive))
      /\ UNCHANGED <<flags, result, late, cpc, inCg, code>>
  BY DEF Unwind
<1>2. defers' \in Seq(Deferred) /\ \A e \in Deferred : e # d /\ Has(e) => Has(e)'
  BY <1>1, Deferring DEF Has, Types
<1>3. {"overlay", "cgroup", "net"} \subseteq Deferred BY DEF Deferred
<1> HIDE DEF d
<1>e. /\ errs \subseteq errs' /\ net' \subseteq net
      /\ d = "overlay" => layer' = {} \/ "overlay" \in errs'
      /\ d # "overlay" => layer' = layer
      /\ d = "net" => net' = {} \/ "net" \in errs'
  BY <1>1
<1>4. Types' BY <1>1, <1>2, <1>e DEF Types
<1>5. Progress' BY <1>1 DEF Progress, Early, Ending, Alive, NetworkMode
<1>6. Owed'
  <2>1. layer' # {} => Has("overlay")' \/ "overlay" \in errs'
    BY <1>1, <1>2, <1>3, <1>e DEF Owed
  <2>2. "link" \in net' => Has("net")' \/ errs' \cap {"net", "link"} # {}
    <3>1. CASE d = "net" BY <1>e, <3>1
    <3>2. CASE d # "net" BY <1>1, <1>2, <1>3, <1>e, <3>2 DEF Owed
    <3> QED BY <3>1, <3>2
  <2>4. "rules" \in net' =>
            flags.ports /\ (Has("net")' \/ "net" \in errs' \/ (result.error /\ NetworkMode = "bridge"))
    <3>1. CASE d = "net" BY <1>1, <1>e, <3>1 DEF Owed
    <3>2. CASE d # "net" BY <1>1, <1>2, <1>3, <1>e, <3>2 DEF Owed
    <3> QED BY <3>1, <3>2
  <2>3. cg' => Has("cgroup")' \/ (result'.error /\ inCg')
    <3>1. CASE d = "cgroup" BY <1>1, <3>1 DEF Progress, Ending, Alive, Types
    <3>2. CASE d # "cgroup" BY <1>1, <1>2, <1>3, <3>2 DEF Owed
    <3> QED BY <3>1, <3>2
  <2> QED BY <1>1, <2>1, <2>2, <2>3, <2>4 DEF Owed, Ending, NetworkMode
<1>7. Reported' BY <1>1 DEF Reported, Ending
<1> QED BY <1>4, <1>5, <1>6, <1>7

\* Every step keeps the invariant.
LEMMA RunnerStep ==
    ASSUME RunnerInv, [Next]_vars
    PROVE  RunnerInv'
<1> USE DEF RunnerInv, child, host
<1>1. CASE Parent
  <2>1. CASE Return
    <3>1. ppc = "unwind" /\ ppc' = "returned" /\ defers = <<>>
      BY <2>1 DEF Return
    <3> QED BY <2>1, <3>1 DEF Return, Types, Progress, Owed, Reported, Has, Early, Ending,
                              Alive, NetworkMode
  <2> QED BY <1>1, <2>1, SetUpStep, RunStep, UnwindStep DEF Parent
<1>2. CASE ParentDies
  BY <1>2 DEF ParentDies, Types, Progress, Owed, Reported, Early, Ending
<1>3. CASE Expire
  BY <1>3 DEF Expire, Types, Progress, Owed, Reported, Has, Early, Ending, Alive, NetworkMode
<1>4. CASE ContextKill
  BY <1>4 DEF ContextKill, Types, Progress, Owed, Reported, Has, Early, Ending, Alive,
              NetworkMode
<1>5. CASE Child \/ ChildKilled
  BY <1>5, ChildStep
<1>6. CASE UNCHANGED vars
  BY <1>6 DEF vars, Types, Progress, Owed, Reported, Has, Alive, NetworkMode, Ending
<1> QED BY <1>1, <1>2, <1>3, <1>4, <1>5, <1>6 DEF Next, Over

\* The invariant holds throughout a run.
LEMMA RunnerInvariant == Spec => []RunnerInv
<1>1. Init => RunnerInv BY RunnerInit
<1>2. RunnerInv /\ [Next]_vars => RunnerInv' BY RunnerStep
<1> QED BY <1>1, <1>2, PTL DEF Spec

\* Whichever call of Run fails and whenever the deadline passes: what a Run that
\* returns leaves on the host, it leaves where a clean-up has failed, or after a
\* failed network set-up, which leaves the rules it has made and may leave a cgroup
\* directory with a dying child.
THEOREM NothingIsLeft == Spec => []NothingLeft
<1>1. RunnerInv => NothingLeft
  <2> SUFFICES ASSUME RunnerInv, ppc = "returned"
               PROVE  /\ layer # {} => "overlay" \in errs
                      /\ "link" \in net => errs \cap {"net", "link"} # {}
                      /\ "rules" \in net => /\ flags.ports
                                           /\ \/ "net" \in errs
                                              \/ result.error /\ NetworkMode = "bridge"
                      /\ Alive => sig /\ result.error
                      /\ cg => result.error /\ inCg /\ NetworkMode = "bridge"
    BY DEF NothingLeft
  <2>1. \A d : ~Has(d)
    BY DEF RunnerInv, Owed, Has
  <2>2. /\ layer # {} => "overlay" \in errs
        /\ "link" \in net => errs \cap {"net", "link"} # {}
        /\ "rules" \in net =>
            flags.ports /\ ("net" \in errs \/ (result.error /\ NetworkMode = "bridge"))
        /\ cg => result.error /\ inCg
    BY <2>1 DEF RunnerInv, Owed, Ending, Types
  <2>3. (Alive => sig /\ result.error) /\ (result.error /\ inCg => NetworkMode = "bridge")
    BY DEF RunnerInv, Progress, Ending, Alive, Types
  <2> QED BY <2>2, <2>3
<1> QED BY <1>1, RunnerInvariant, PTL

-----------------------------------------------------------------------------
(* The program's confinement.                                              *)

\* The child has been let go; it has a filter; it has tried all three calls.
Past == {"caps", "filter", "setgroups", "setgid", "setuid", "execve", "program"}
Filtering == {"setgroups", "setgid", "setuid", "execve", "program"}

\* The pipe holds the child back until Run lets it go or dies, and Run has then
\* nothing left to do but wait.
Gate ==
    /\ ppc \in Early \cup {"attach", "network", "release"} => gate = "held"
    /\ gate = "death" => ppc = "dead"
    /\ cpc \in Past => gate # "held"
    /\ cpc \in Past /\ gate = "closed" => ppc \in {"wait", "dead"}

\* What Run has set up at each of its calls.
SetUp ==
    /\ ppc \in {"limits", "start", "attach", "network", "release", "wait"} => cg
    /\ ppc = "start" \/ cpc # "none" => (flags.mem >= 0 => limited)
    /\ ppc \in {"network", "release", "wait"} => (Alive => inCg)
    /\ ppc \in {"release", "wait"} => (NetworkMode = "bridge" => "link" \in net)

\* A child that Run let go, and that can still act or has gone on, keeps all that was
\* set up for it, also when Run's process dies: a Run that fails has killed its child
\* before its deferred call closes the pipe.
Kept ==
    gate = "closed" /\ Alive /\ (~sig \/ cpc \in Past) =>
        /\ ppc \in {"wait", "dead"}
        /\ cg /\ inCg
        /\ NetworkMode = "bridge" => "link" \in net

\* The installed program is the denylist, or the whole program of the profile.
Installed ==
    /\ cpc \in Filtering => filter # <<>>
    /\ filter # <<>> =>
        \/ ~custom /\ filter = Denylist(blockedSyscalls)
        \/ /\ custom /\ profile \in Profiles
           /\ \E rs \in compiledRules(profile) :
                filter = compileBPF(rs, actionToValue(profile.default, EPERM))

\* The calls the child has passed have worked, or such a rule has swallowed one.
Privileges ==
    /\ cpc = "setgid" => "setgroups" \in dropped \/ Masked
    /\ cpc = "setuid" => {"setgroups", "setgid"} \subseteq dropped \/ Masked
    /\ cpc \in {"execve", "program"} => dropped = Drops \/ Masked

\* The exec was made on a thread without the filter, or the filter allowed it.
Allowed == cpc = "program" => moved \/ Verdict(filter, Call("execve")).action = "allow"

\* Only a program exits with a code that is not a failing child's.
Ran == cpc = "exited" /\ code \in {0, 3, 124} => filter # <<>> /\ (dropped = Drops \/ Masked)

ConfinedInv == TypeOK /\ Gate /\ SetUp /\ Kept /\ Installed /\ Privileges /\ Allowed /\ Ran

\* A profile has finitely many rules.
LEMMA ProfileTypes ==
    ASSUME NEW p \in Profiles
    PROVE  Len(p.rules) \in Nat
<1>1. p.rules \in SeqOf(Rules, MaxRules) BY DEF Profiles
<1>2. PICK n \in 0..MaxRules : p.rules \in [1..n -> Rules] BY <1>1 DEF SeqOf
<1>3. n \in Nat BY RulesAssumption
<1>4. \A q : q \in [1..n -> Rules] => Len(q) \in Nat BY <1>3
<1> QED BY <1>2, <1>4

\* ApplyProfile: what the kernel takes is the whole program.
LEMMA Loads ==
    ASSUME NEW c \in Loadable
    PROVE  /\ c.of \in Profiles
           /\ SubSeq(c.prog, 1, c.len) # <<>>
           /\ \E rs \in compiledRules(c.of) :
                SubSeq(c.prog, 1, c.len) = compileBPF(rs, actionToValue(c.of.default, EPERM))
<1>a. PICK p \in Profiles : \E rs \in compiledRules(p) :
        LET prog == compileBPF(rs, actionToValue(p.default, EPERM)) IN
        c = [of |-> p, prog |-> prog, len |-> Len(prog) % LenMod]
  BY DEF Loadable, Compiled
<1>1. PICK rs \in compiledRules(p) :
        LET prog == compileBPF(rs, actionToValue(p.default, EPERM)) IN
        c = [of |-> p, prog |-> prog, len |-> Len(prog) % LenMod]
  BY <1>a
<1> DEFINE P == compileBPF(rs, actionToValue(p.default, EPERM))
<1>2. c.of = p /\ c.prog = P /\ c.len = Len(P) % LenMod BY <1>1
<1>3. Len(rs) \in Nat BY ProfileTypes, CompiledShape
<1>4. Len(P) = 2 * Len(rs) + 5 /\ Len(P) \in Nat /\ Len(P) >= 5 BY <1>3, FilterShape
<1>5. P = [i \in 1..Len(P) |-> P[i]] BY <1>3, <1>4 DEF compileBPF
<1>6. Accepts(P, c.len) BY <1>2 DEF Loadable
<1> HIDE DEF P
<1>7. c.len \in 0..Len(P)
  <2>1. \A a, m \in Nat : m # 0 => a % m \in 0..a OBVIOUS
  <2> QED BY <2>1, <1>2, <1>4, LengthAssumption
<1>8. c.len = Len(P) BY <1>3, <1>6, <1>7, OnlyWhole DEF P
<1>9. SubSeq(P, 1, Len(P)) = P
  <2>1. P \in Seq({P[i] : i \in 1..Len(P)})
    <3> DEFINE S == {P[i] : i \in 1..Len(P)}
    <3>1. P \in [1..Len(P) -> S] BY <1>5
    <3> HIDE DEF S
    <3> QED BY <3>1, <1>4 DEF S
  <2> QED BY <2>1, <1>4
<1> QED BY <1>2, <1>4, <1>8, <1>9 DEF P

\* Instructions are loads, jumps and returns.
LEMMA FilterOps ==
    ASSUME NEW rs, NEW default, Len(rs) \in Nat,
           NEW i \in 1..Len(compileBPF(rs, default))
    PROVE  compileBPF(rs, default)[i].op \in {"ld", "jeq", "ret"}
<1> DEFINE n == Len(rs)
           P == compileBPF(rs, default)
<1>1. n \in Nat /\ Len(P) = 2 * n + 5 BY FilterShape
<1>2. /\ P[1] = Ld(4) /\ P[2] = Jeq(X86_64, 1, 0) /\ P[3] = Ret(Value("kill", 0)) /\ P[4] = Ld(0)
      /\ P[2 * n + 5] = Ret(default)
  BY FilterShape
<1>3. ASSUME NEW k \in 1..n
      PROVE  P[2 * k + 3].op = "jeq" /\ P[2 * k + 4].op = "ret"
  <2>1. P[2 * k + 3] = Jeq(rs[k].nr, 0, 1) /\ P[2 * k + 4] = Ret(rs[k].value) BY FilterShape
  <2> QED BY <2>1 DEF Jeq, Ret
<1> HIDE DEF P, n
<1>4. i \in 1..(2 * n + 5) BY <1>1 DEF P
<1>5. CASE i \in {1, 2, 3, 4, 2 * n + 5}
  <2>1. /\ P[1].op = "ld" /\ P[2].op = "jeq" /\ P[3].op = "ret" /\ P[4].op = "ld"
        /\ P[2 * n + 5].op = "ret"
    BY <1>2 DEF Ld, Jeq, Ret
  <2> QED BY <1>5, <2>1 DEF P
<1>6. CASE \E k \in 1..n : i = 2 * k + 3 \/ i = 2 * k + 4 BY <1>3, <1>6 DEF P
<1> QED BY <1>1, <1>4, <1>5, <1>6, Places

LEMMA DenyOps ==
    /\ \A i \in 1..Len(Denylist(blockedSyscalls)) :
        Denylist(blockedSyscalls)[i].op \in {"ld", "jeq", "ret"}
    /\ Denylist(blockedSyscalls) # <<>>
    /\ Len(blockedSyscalls) = 14
<1> DEFINE n == Len(blockedSyscalls)
           P == Denylist(blockedSyscalls)
<1>1. n = 14 BY DEF blockedSyscalls
<1>2. P = [i \in 1..(n + 3) |->
        IF i = 1 THEN Ld(0)
        ELSE IF i <= n + 1 THEN Jeq(blockedSyscalls[i - 1], (n + 2 - i) % 256, 0)
        ELSE IF i = n + 2 THEN Ret(Value("allow", 0))
        ELSE Ret(Value("errno", EPERM))]
  BY DEF Denylist
<1> HIDE DEF n, P
<1>3. Len(P) = n + 3 BY <1>1, <1>2
<1>4. ASSUME NEW i \in 1..(n + 3) PROVE P[i].op \in {"ld", "jeq", "ret"}
  BY <1>1, <1>2 DEF Ld, Jeq, Ret
<1>5. P # <<>>
  <2>1. Len(P) # 0 BY <1>1, <1>3
  <2>2. Len(<<>>) = 0 OBVIOUS
  <2> QED BY <2>1, <2>2, Zenon
<1> QED BY <1>1, <1>3, <1>4, <1>5 DEF P, n

\* A call that is left out and works is one for a rule with a masked errno.
LEMMA Swallowed ==
    ASSUME Installed, filter # <<>>,
           NEW call, call.arch = X86_64, Verdict(filter, call) = Value("errno", 0)
    PROVE  Masked
<1>1. CASE ~custom /\ filter = Denylist(blockedSyscalls)
  <2>a. Len(blockedSyscalls) \in Nat /\ Len(blockedSyscalls) <= 255 BY DenyOps
  <2>1. Denies(blockedSyscalls, call, Verdict(filter, call)) BY <1>1, <2>a, DenylistCorrect
  <2> QED BY <2>1 DEF Denies, Value, EPERM
<1>2. CASE /\ custom /\ profile \in Profiles
           /\ \E rs \in compiledRules(profile) :
                filter = compileBPF(rs, actionToValue(profile.default, EPERM))
  <2>1. Len(profile.rules) \in Nat BY <1>2, ProfileTypes
  <2>2. Verdict(filter, call) \in Meaning(profile, call) BY <1>2, <2>1, FilterMeaning
  <2>3. actionToValue(profile.default, EPERM) # Value("errno", 0)
    <3> DEFINE a == profile.default
    <3>1. CASE a = "errno"
      <4>1. actionToValue(a, EPERM) = Value("errno", 1)
        BY <3>1 DEF actionToValue, EPERM
      <4> QED BY <4>1 DEF Value
    <3>2. CASE a # "errno" /\ a \in {"allow", "kill", "trap", "trace"}
      <4>1. actionToValue(a, EPERM) = Value(a, 0) BY <3>2 DEF actionToValue
      <4> QED BY <4>1, <3>2 DEF Value
    <3>3. CASE a # "errno" /\ a \notin {"allow", "kill", "trap", "trace"}
      <4>1. actionToValue(a, EPERM) = Value("errno", 1) BY <3>3 DEF actionToValue, EPERM
      <4> QED BY <4>1 DEF Value
    <3> QED BY <3>1, <3>2, <3>3
  <2>4. PICK i \in 1..Len(profile.rules) :
            actionToValue(profile.rules[i].action, profile.rules[i].errno) = Value("errno", 0)
    BY <2>2, <2>3 DEF Meaning
  <2>5. profile.rules[i].errno # 0 /\ profile.rules[i].errno % 65536 = 0
    BY <2>4 DEF actionToValue, Value, EPERM
  <2> QED BY <2>5 DEF Masked
<1> QED BY <1>1, <1>2 DEF Installed

\* A call that takes privileges is made on all threads, so the filter answers it
\* wherever the goroutine is.
LEMMA Dropping ==
    ASSUME Installed, Privileges, dropped \subseteq Drops,
           NEW c \in Drops, NEW next, cpc = c, cpc \in Filtering, Filtered(c, next), cpc' = next,
           next \notin {"failed", "exited"}
    PROVE  (c \in dropped' /\ dropped' = dropped \cup {c}) \/ (Masked /\ dropped' = dropped)
<1>1. filter # <<>> BY DEF Installed
<1>2. Answer(c) = Verdict(filter, Call(c)) /\ Call(c).arch = X86_64
  BY <1>1 DEF Answer, Unfiltered, Call
<1>3. CASE Answer(c).action = "allow" /\ dropped' = dropped \cup {c} BY <1>3
<1>4. CASE Answer(c) = Value("errno", 0) /\ dropped' = dropped BY <1>1, <1>2, <1>4, Swallowed
<1> QED BY <1>3, <1>4 DEF Filtered

\* A step of a child that was not killed, or its end, takes nothing from it.
LEMMA ChildKept ==
    ASSUME Kept, ~sig \/ ~Alive', Alive,
           UNCHANGED <<flags, ppc, cg, net, gate, inCg, sig>>
    PROVE  Kept'
BY DEF Kept, Alive, NetworkMode

\* The child's steps up to its filter leave the profile and the privileges alone.
LEMMA ChildPrepares ==
    ASSUME RunnerInv, ConfinedInv, Prepare \/ Sync \/ DropCapabilities \/ ApplyFilterError
    PROVE  ConfinedInv'
<1> USE DEF RunnerInv, ConfinedInv
<1>1. /\ UNCHANGED <<flags, custom, ppc, defers, result, layer, cg, limited, net, errs, gate,
                     late, inCg, sig, code, profile, filter, moved, dropped>>
      /\ cpc \in {"prepare", "sync", "caps", "filter"} /\ ~sig
      /\ \/ cpc' = "failed"
         \/ cpc = "prepare" /\ cpc' = "sync"
         \/ cpc = "sync" /\ cpc' = "caps" /\ gate # "held"
         \/ cpc = "caps" /\ cpc' = "filter"
  BY DEF Prepare, Sync, DropCapabilities, ApplyFilterError, ChildAt, To, host
<1>2. TypeOK' BY <1>1 DEF TypeOK
<1>3. Gate'
  BY <1>1 DEF Gate, Past, Progress, Types, Early, Ending, Alive
<1>4. SetUp' BY <1>1 DEF SetUp, Alive, NetworkMode
<1>k. Kept' BY <1>1, ChildKept DEF Alive
<1>5. Installed' BY <1>1 DEF Installed, Filtering
<1>6. Privileges' /\ Allowed' /\ Ran' BY <1>1 DEF Privileges, Allowed, Ran
<1> QED BY <1>2, <1>3, <1>4, <1>k, <1>5, <1>6

\* The filter is installed.
LEMMA ChildFilters ==
    ASSUME RunnerInv, ConfinedInv, ApplySeccompDenylist \/ ApplyProfile
    PROVE  ConfinedInv'
<1> USE DEF RunnerInv, ConfinedInv
<1>1. /\ UNCHANGED <<flags, custom, ppc, defers, result, layer, cg, limited, net, errs, gate,
                     late, inCg, sig, code, moved, dropped>>
      /\ cpc = "filter" /\ cpc' = "setgroups" /\ ~sig
  BY DEF ApplySeccompDenylist, ApplyProfile, ChildAt, host
<1>2. /\ Installed' /\ profile' \in Profiles \cup {NoProfile}
      /\ \A i \in 1..Len(filter') : filter'[i].op \in {"ld", "jeq", "ret"}
  <2>1. CASE ApplySeccompDenylist
    <3>1. ~custom /\ custom' = custom /\ filter' = Denylist(blockedSyscalls) /\ profile' = profile
      BY <2>1, <1>1 DEF ApplySeccompDenylist
    <3>2. Installed' BY <3>1, DenyOps DEF Installed
    <3>3. \A i \in 1..Len(filter') : filter'[i].op \in {"ld", "jeq", "ret"} BY <3>1, DenyOps
    <3> QED BY <3>1, <3>2, <3>3 DEF TypeOK
  <2>2. CASE ApplyProfile
    <3>1. custom /\ custom' = custom BY <2>2, <1>1 DEF ApplyProfile
    <3>2. PICK c \in Loadable : filter' = SubSeq(c.prog, 1, c.len) /\ profile' = c.of
      BY <2>2 DEF ApplyProfile
    <3>3. c.of \in Profiles /\ filter' # <<>> BY <3>2, Loads
    <3>4. PICK rs \in compiledRules(c.of) :
            filter' = compileBPF(rs, actionToValue(c.of.default, EPERM))
      BY <3>2, Loads
    <3>5. Installed' BY <3>1, <3>2, <3>3, <3>4 DEF Installed
    <3>6. Len(rs) \in Nat BY <3>3, ProfileTypes, CompiledShape
    <3>7. \A i \in 1..Len(filter') : filter'[i].op \in {"ld", "jeq", "ret"}
      BY <3>4, <3>6, FilterOps
    <3> QED BY <3>2, <3>3, <3>5, <3>7
  <2> QED BY <2>1, <2>2
<1>3. TypeOK' BY <1>1, <1>2 DEF TypeOK
<1>4. Gate' BY <1>1 DEF Gate, Past
<1>5. SetUp' BY <1>1 DEF SetUp, Alive, NetworkMode
<1>k. Kept' BY <1>1, ChildKept DEF Alive
<1>6. Privileges' /\ Allowed' /\ Ran' BY <1>1 DEF Privileges, Allowed, Ran
<1> QED BY <1>2, <1>3, <1>4, <1>5, <1>k, <1>6

\* A call under the filter.
LEMMA ChildCalls ==
    ASSUME RunnerInv, ConfinedInv, Setgroups \/ Setgid \/ Setuid \/ Exec
    PROVE  ConfinedInv'
<1> USE DEF RunnerInv, ConfinedInv
<1>1. PICK c \in Drops \cup {"execve"}, next \in {"setgid", "setuid", "execve", "program"} :
        /\ Filtered(c, next)
        /\ \/ c = "setgroups" /\ next = "setgid"
           \/ c = "setgid" /\ next = "setuid"
           \/ c = "setuid" /\ next = "execve"
           \/ c = "execve" /\ next = "program"
  BY DEF Setgroups, Setgid, Setuid, Exec, Drops
<1>2. /\ UNCHANGED <<flags, custom, ppc, defers, result, layer, cg, limited, net, errs, gate,
                     late, inCg, sig, profile, filter, moved>>
      /\ cpc = c /\ cpc \in Filtering /\ ~sig
      /\ cpc' \in {next, "failed", "exited"}
      /\ cpc' = "exited" => code' = -1
      /\ dropped' \in {dropped, dropped \cup ({c} \cap Drops)}
      /\ code' \in {code, -1}
  <2>1. cpc = c /\ cpc \in Filtering /\ ~sig BY <1>1 DEF Filtered, ChildAt, Filtering, Drops
  <2>2. /\ cpc' \in {next, "failed", "exited"} /\ code' \in {code, -1}
        /\ cpc' = "exited" => code' = -1
    BY <1>1 DEF Filtered, To
  <2>3. dropped' \in {dropped, dropped \cup ({c} \cap Drops)} BY <1>1 DEF Filtered
  <2> QED BY <1>1, <2>1, <2>2, <2>3 DEF Filtered, host
<1>3. TypeOK'
  <2>1. dropped' \subseteq Drops BY <1>2 DEF TypeOK
  <2>2. cpc' \in {"setgid", "setuid", "execve", "program", "failed", "exited"} BY <1>2
  <2> QED BY <1>2, <2>1, <2>2 DEF TypeOK
<1>4. Gate'
  <2>1. cpc \in Past /\ cpc' \in Past \cup {"failed", "exited"} BY <1>2 DEF Past, Filtering
  <2> QED BY <1>2, <2>1 DEF Gate, Past
<1>5. SetUp'
  <2>1. cpc # "none" /\ cpc # "exited" BY <1>2 DEF Filtering
  <2> QED BY <1>2, <2>1 DEF SetUp, Alive, NetworkMode
<1>k. Kept'
  <2>1. Alive BY <1>2 DEF Filtering, Alive
  <2> QED BY <1>2, <2>1, ChildKept
<1>6. Installed' BY <1>2 DEF Installed, Filtering
<1>a. Allowed'
  <2>1. CASE cpc' # "program" BY <2>1 DEF Allowed
  <2>2. CASE cpc' = "program"
    <3>1. c = "execve" /\ next = "program" /\ c \notin Drops BY <1>1, <1>2, <2>2 DEF Drops
    <3>2. Answer(c).action = "allow" BY <1>1, <2>2, <3>1 DEF Filtered
    <3>3. filter # <<>> BY <1>2 DEF Installed
    <3>4. moved \/ Verdict(filter, Call(c)).action = "allow"
      BY <3>1, <3>2, <3>3 DEF Answer, Unfiltered
    <3> DEFINE v == Verdict(filter, Call("execve")).action
    <3>5. UNCHANGED <<filter, moved>> BY <1>2
    <3>6. v' = v BY <3>5 DEF Verdict, Call, Step
    <3> QED BY <3>1, <3>4, <3>5, <3>6 DEF Allowed
  <2> QED BY <2>1, <2>2
<1>r. Ran' BY <1>2 DEF Ran
<1>7. Privileges'
  <2>m. Masked' = Masked BY <1>2 DEF Masked
  <2>1. CASE cpc' # next BY <1>2, <2>1 DEF Privileges
  <2>2. CASE cpc' = next /\ c \in Drops
    <3>1. dropped' = dropped \cup {c} \/ (Masked /\ dropped' = dropped)
      BY <1>1, <1>2, <2>2, Dropping DEF TypeOK
    <3>2. CASE Masked BY <2>m, <3>2 DEF Privileges
    <3>3. CASE ~Masked
      <4>1. dropped' = dropped \cup {c} /\ dropped \subseteq Drops BY <3>1, <3>3 DEF TypeOK
      <4> QED BY <4>1, <1>1, <1>2, <2>2, <3>3 DEF Privileges, Drops
    <3> QED BY <3>2, <3>3
  <2>3. CASE cpc' = next /\ c = "execve"
    <3>1. dropped' = dropped /\ cpc = "execve" /\ cpc' = "program"
      BY <1>1, <1>2, <2>3 DEF Drops
    <3> QED BY <3>1, <2>m DEF Privileges
  <2> QED BY <2>1, <2>2, <2>3
<1> QED BY <1>3, <1>4, <1>5, <1>k, <1>6, <1>a, <1>r, <1>7

\* The scheduler's moves and the child's end.
LEMMA ChildLeaves ==
    ASSUME RunnerInv, ConfinedInv, Migrate \/ ChildExit \/ ChildKilled
    PROVE  ConfinedInv'
<1> USE DEF RunnerInv, ConfinedInv
<1>1. /\ UNCHANGED <<flags, custom, ppc, defers, result, layer, cg, limited, net, errs, gate,
                     late, inCg, sig, profile, filter, dropped>>
      /\ Alive /\ cpc' \in {cpc, "exited"} /\ code' \in {-1, 0, 1, 2, 3, 124}
      /\ moved' \in BOOLEAN /\ (~sig \/ ~Alive')
      /\ cpc' = "program" => moved' = moved
      /\ cpc' = "exited" => code' \in {-1, 1, 2} \/ cpc = "program"
  <2>t. moved \in BOOLEAN /\ code \in {-1, 0, 1, 2, 3, 124} BY DEF TypeOK
  <2>1. CASE Migrate
    <3>1. cpc \in {"setgroups", "setgid", "setuid", "execve", "failed"} BY <2>1 DEF Migrate, Drops
    <3>2. moved' \in BOOLEAN BY <2>t, <2>1 DEF Migrate
    <3> QED BY <2>t, <2>1, <3>1, <3>2 DEF Migrate, host, Alive
  <2>2. CASE ChildExit BY <2>t, <2>2 DEF ChildExit, ChildAt, host, Alive
  <2>3. CASE ChildKilled BY <2>t, <2>3 DEF ChildKilled, Alive, host
  <2> QED BY <2>1, <2>2, <2>3
<1>2. TypeOK' BY <1>1 DEF TypeOK, Alive
<1>3. Gate' BY <1>1 DEF Gate, Past
<1>4. SetUp' BY <1>1 DEF SetUp, Alive, NetworkMode
<1>k. Kept' BY <1>1, ChildKept
<1>5. Installed' BY <1>1 DEF Installed, Filtering
<1>6. Privileges' BY <1>1 DEF Privileges, Masked, Alive
<1>7. Allowed'
  <2>1. CASE cpc' # "program" BY <2>1 DEF Allowed
  <2>2. CASE cpc' = "program"
    <3> DEFINE v == Verdict(filter, Call("execve")).action
    <3>1. UNCHANGED <<cpc, filter, moved>> BY <1>1, <2>2
    <3>2. v' = v BY <3>1 DEF Verdict, Call, Step
    <3> QED BY <3>1, <3>2 DEF Allowed
  <2> QED BY <2>1, <2>2
<1>8. Ran' BY <1>1 DEF Ran, Installed, Filtering, Privileges, Masked, Alive
<1> QED BY <1>2, <1>3, <1>4, <1>k, <1>5, <1>6, <1>7, <1>8

\* The parent does not touch what the child has read, installed and dropped.
LEMMA ChildApart ==
    ASSUME ConfinedInv, UNCHANGED <<custom, profile, filter, dropped, moved, code>>,
           cpc' = cpc \/ cpc' = "prepare"
    PROVE  Installed' /\ Privileges' /\ Allowed' /\ Ran'
<1>1. Installed' BY DEF ConfinedInv, Installed, Filtering
<1>2. Privileges' BY DEF ConfinedInv, Privileges, Masked
<1>3. Ran' BY DEF ConfinedInv, Ran, Masked
<1>4. Allowed'
  <2> DEFINE v == Verdict(filter, Call("execve")).action
  <2>1. v' = v BY DEF Verdict, Call, Step
  <2> QED BY <2>1 DEF ConfinedInv, Allowed
<1> QED BY <1>1, <1>2, <1>3, <1>4

\* What Run reports is of its type.
LEMMA ReportTypes ==
    ASSUME TypeOK, Fail \/ result' = result \/ Report
    PROVE  result' \in [error : BOOLEAN, code : {-1, 0, 1, 2, 3, 124}, timedOut : BOOLEAN]
<1>1. CASE Fail
  <2>1. result' = [error |-> TRUE, code |-> 0, timedOut |-> FALSE] BY <1>1 DEF Fail, NoResult
  <2> QED BY <2>1
<1>2. CASE result' = result BY <1>2 DEF TypeOK
<1>3. CASE Report BY <1>3 DEF Report, TypeOK
<1> QED BY <1>1, <1>2, <1>3

\* The calls of Run before the child runs.
LEMMA SetUpConfined ==
    ASSUME RunnerInv, RunnerInv', ConfinedInv,
           NewOverlay \/ MountOverlay \/ NewCgroup \/ ApplyLimits \/ StartChild
    PROVE  ConfinedInv'
<1> USE DEF RunnerInv, ConfinedInv
<1>1. /\ UNCHANGED <<flags, custom, net, errs, gate, late, inCg, sig, code, profile, filter,
                     moved, dropped>>
      /\ cpc = "none" /\ cpc' \in {"none", "prepare"}
      /\ ppc \in Early /\ ppc' \in Early \cup {"attach", "unwind"}
      /\ Fail \/ result' = result
      /\ layer' \subseteq {"tmpfs", "merged"} /\ limited' \in BOOLEAN
  <2>t. layer \subseteq {"tmpfs", "merged"} /\ limited \in BOOLEAN BY DEF TypeOK
  <2>p. cpc = "none" \/ ppc \notin Early BY DEF Progress
  <2> USE DEF Early, Proceed, Fail, child, host
  <2>1. CASE NewOverlay BY <2>t, <2>p, <2>1 DEF NewOverlay
  <2>2. CASE MountOverlay BY <2>t, <2>p, <2>2 DEF MountOverlay
  <2>3. CASE NewCgroup BY <2>t, <2>p, <2>3 DEF NewCgroup
  <2>4. CASE ApplyLimits
    <3> DEFINE bounded == MemoryLimit > 0
    <3>1. bounded \in BOOLEAN OBVIOUS
    <3>2. limited' = bounded \/ limited' = limited BY <2>4 DEF ApplyLimits
    <3> HIDE DEF bounded
    <3>3. limited' \in BOOLEAN BY <3>1, <3>2, <2>t
    <3> QED BY <2>t, <2>p, <2>4, <3>3 DEF ApplyLimits
  <2>5. CASE StartChild BY <2>t, <2>p, <2>5 DEF StartChild
  <2> QED BY <2>1, <2>2, <2>3, <2>4, <2>5
<1>2. TypeOK'
  <2>1. result' \in [error : BOOLEAN, code : {-1, 0, 1, 2, 3, 124}, timedOut : BOOLEAN]
    BY <1>1, ReportTypes
  <2>2. ppc' \in {"overlay", "mount", "cgroup", "limits", "start", "attach", "unwind"}
    BY <1>1 DEF Early
  <2>3. defers' \in Seq(Deferred) /\ cg' \in BOOLEAN BY DEF Types
  <2> QED BY <1>1, <2>1, <2>2, <2>3 DEF TypeOK
<1>3. Gate' BY <1>1 DEF Gate, Past, Early
<1>4. SetUp'
  <2>f. flags' = flags /\ flags.mem \in {-1, 0} BY <1>1 DEF TypeOK
  <2>1. CASE NewOverlay
    BY <1>1, <2>1 DEF NewOverlay, Proceed, Fail, SetUp, child
  <2>2. CASE MountOverlay
    BY <1>1, <2>2 DEF MountOverlay, Proceed, Fail, SetUp, child
  <2>3. CASE NewCgroup
    BY <1>1, <2>3 DEF NewCgroup, Proceed, Fail, SetUp, child
  <2>4. CASE ApplyLimits
    <3>1. cg' = cg /\ cpc' = cpc /\ ppc = "limits" BY <2>4 DEF ApplyLimits, child
    <3>2. CASE ppc' = "start" /\ limited' = (MemoryLimit > 0)
      <4>a. flags.mem >= 0 => MemoryLimit > 0 BY <2>f DEF MemoryLimit
      <4>1. flags.mem >= 0 => limited' BY <3>2, <4>a, Zenon
      <4> QED BY <3>1, <3>2, <4>1, <2>f DEF SetUp
    <3>3. CASE ppc' = "unwind" BY <1>1, <3>1, <3>3 DEF SetUp
    <3> QED BY <2>4, <3>2, <3>3 DEF ApplyLimits, Proceed, Fail
  <2>5. CASE StartChild
    BY <1>1, <2>5 DEF StartChild, Proceed, Fail, SetUp, host
  <2> QED BY <2>1, <2>2, <2>3, <2>4, <2>5
<1>5. Kept' BY <1>1 DEF Kept, Gate
<1> QED BY <1>1, <1>2, <1>3, <1>4, <1>5, ChildApart

\* The other calls of Run, up to its report.
LEMMA RunConfined ==
    ASSUME RunnerInv, RunnerInv', ConfinedInv,
           AttachPID \/ SetupNetwork \/ Release \/ Reap \/ Report
    PROVE  ConfinedInv'
<1> USE DEF RunnerInv, ConfinedInv
<1>1. /\ UNCHANGED <<flags, custom, layer, cg, limited, late, cpc, code, profile, filter, moved,
                     dropped>>
      /\ ppc \in {"attach", "network", "release", "wait", "report"}
      /\ ppc' \in {"network", "release", "wait", "report", "unwind"}
      /\ ppc' # "wait" => gate' = gate
      /\ ppc' = "wait" => gate' = "closed"
      /\ Fail \/ result' = result \/ Report
      /\ errs' \subseteq errs \cup {"link"}
  <2> USE DEF Proceed, Fail, child, host
  <2>1. CASE AttachPID BY <2>1 DEF AttachPID
  <2>2. CASE SetupNetwork BY <2>2 DEF SetupNetwork
  <2>3. CASE Release BY <2>3 DEF Release
  <2>4. CASE Reap BY <2>4 DEF Reap
  <2>5. CASE Report BY <2>5 DEF Report
  <2> QED BY <2>1, <2>2, <2>3, <2>4, <2>5
<1>2. TypeOK'
  <2>1. result' \in [error : BOOLEAN, code : {-1, 0, 1, 2, 3, 124}, timedOut : BOOLEAN]
    BY <1>1, ReportTypes
  <2>2. gate' \in {"held", "closed", "death"} BY <1>1 DEF TypeOK
  <2>3. /\ defers' \in Seq(Deferred) /\ {inCg', sig'} \subseteq BOOLEAN
        /\ net' \subseteq {"link", "rules"}
    BY DEF Types
  <2>4. errs' \subseteq {"overlay", "net", "link"} BY <1>1 DEF TypeOK
  <2> QED BY <1>1, <2>1, <2>2, <2>3, <2>4 DEF TypeOK
<1>3. Gate'
  <2> USE DEF Gate, Past, Early, Proceed, Fail, child, host
  <2>1. CASE AttachPID BY <1>1, <2>1 DEF AttachPID
  <2>2. CASE SetupNetwork BY <1>1, <2>2 DEF SetupNetwork
  <2>3. CASE Release BY <1>1, <2>3 DEF Release
  <2>4. CASE Reap BY <1>1, <2>4 DEF Reap
  <2>5. CASE Report
    <3>1. cpc = "exited" /\ ppc' = "unwind" BY <2>5 DEF Report, Progress
    <3> QED BY <1>1, <3>1
  <2> QED BY <2>1, <2>2, <2>3, <2>4, <2>5
<1>4. SetUp'
  <2> USE DEF SetUp, Alive, NetworkMode, Proceed, Fail, child, host
  <2>1. CASE AttachPID
    <3>1. ppc = "attach" /\ ppc' \in {"network", "unwind"} BY <2>1 DEF AttachPID
    <3>2. ppc' = "network" => inCg' = Alive BY <2>1 DEF AttachPID
    <3>3. ppc' = "network" => (Alive => inCg') BY <3>2, Zenon
    <3> QED BY <1>1, <3>1, <3>3
  <2>2. CASE SetupNetwork BY <1>1, <2>2 DEF SetupNetwork
  <2>3. CASE Release BY <1>1, <2>3 DEF Release
  <2>4. CASE Reap BY <1>1, <2>4 DEF Reap
  <2>5. CASE Report BY <1>1, <2>5 DEF Report
  <2> QED BY <2>1, <2>2, <2>3, <2>4, <2>5
<1>5. Kept'
  <2> USE DEF Kept, Alive, NetworkMode, Proceed, Fail, child, host
  <2>1. CASE AttachPID BY <1>1, <2>1 DEF AttachPID, Gate
  <2>2. CASE SetupNetwork BY <1>1, <2>2 DEF SetupNetwork, Gate
  <2>3. CASE Release BY <1>1, <2>3 DEF Release, SetUp
  <2>4. CASE Reap BY <1>1, <2>4 DEF Reap
  <2>5. CASE Report BY <1>1, <2>5 DEF Report, Progress
  <2> QED BY <2>1, <2>2, <2>3, <2>4, <2>5
<1> QED BY <1>1, <1>2, <1>3, <1>4, <1>5, ChildApart

\* Deferred calls, the end of Run, the deadline.
LEMMA EndConfined ==
    ASSUME RunnerInv, RunnerInv', ConfinedInv,
           Unwind \/ Return \/ ParentDies \/ Expire \/ ContextKill
    PROVE  ConfinedInv'
<1> USE DEF RunnerInv, ConfinedInv
<1>1. /\ UNCHANGED <<flags, custom, result, limited, cpc, inCg, code, profile, filter, moved,
                     dropped>>
      /\ ppc' \in {ppc, "returned", "dead"}
      /\ layer' \subseteq layer /\ errs' \subseteq errs \cup {"overlay", "net"}
      /\ gate' \in {gate, "closed", "death"}
  <2> USE DEF child, host
  <2>1. CASE Unwind BY <2>1 DEF Unwind
  <2>2. CASE Return BY <2>2 DEF Return
  <2>3. CASE ParentDies BY <2>3 DEF ParentDies
  <2>4. CASE Expire BY <2>4 DEF Expire
  <2>5. CASE ContextKill BY <2>5 DEF ContextKill
  <2> QED BY <2>1, <2>2, <2>3, <2>4, <2>5
<1>2. TypeOK'
  <2>1. /\ defers' \in Seq(Deferred) /\ {cg', sig', late'} \subseteq BOOLEAN
        /\ net' \subseteq {"link", "rules"}
    BY DEF Types
  <2>2. layer' \subseteq {"tmpfs", "merged"} /\ errs' \subseteq {"overlay", "net", "link"}
    BY <1>1 DEF TypeOK
  <2> QED BY <1>1, <2>1, <2>2 DEF TypeOK
<1>3. Gate'
  <2> USE DEF Gate, Past, Early, child, host
  <2>1. CASE Unwind
    <3>1. ppc = "unwind" /\ ppc' = "unwind" /\ gate' \in {gate, "closed"}
      BY <2>1 DEF Unwind
    <3>2. cpc \notin Past
      BY <3>1 DEF TypeOK
    <3> QED BY <1>1, <3>1, <3>2
  <2>2. CASE Return BY <1>1, <2>2 DEF Return
  <2>3. CASE ParentDies BY <1>1, <2>3 DEF ParentDies
  <2>4. CASE Expire BY <1>1, <2>4 DEF Expire
  <2>5. CASE ContextKill BY <1>1, <2>5 DEF ContextKill
  <2> QED BY <2>1, <2>2, <2>3, <2>4, <2>5
<1>4. SetUp'
  <2> USE DEF SetUp, Alive, NetworkMode, child, host
  <2>1. CASE Unwind BY <1>1, <2>1 DEF Unwind
  <2>2. CASE Return BY <1>1, <2>2 DEF Return
  <2>3. CASE ParentDies BY <1>1, <2>3 DEF ParentDies
  <2>4. CASE Expire BY <1>1, <2>4 DEF Expire
  <2>5. CASE ContextKill BY <1>1, <2>5 DEF ContextKill
  <2> QED BY <2>1, <2>2, <2>3, <2>4, <2>5
<1>5. Kept'
  <2> USE DEF Kept, Alive, NetworkMode, child, host
  <2>1. CASE Unwind
    <3>1. ppc = "unwind" /\ (sig => sig') BY <2>1 DEF Unwind
    <3>2. cpc \notin Past BY <3>1 DEF Gate, TypeOK
    <3>3. Alive => sig BY <3>1 DEF Progress, Ending, Types
    <3> QED BY <1>1, <3>1, <3>2, <3>3
  <2>2. CASE Return BY <1>1, <2>2 DEF Return
  <2>3. CASE ParentDies BY <1>1, <2>3 DEF ParentDies
  <2>4. CASE Expire BY <1>1, <2>4 DEF Expire
  <2>5. CASE ContextKill BY <1>1, <2>5 DEF ContextKill
  <2> QED BY <2>1, <2>2, <2>3, <2>4, <2>5
<1> QED BY <1>1, <1>2, <1>3, <1>4, <1>5, ChildApart

\* Both invariants hold throughout a run.
LEMMA ConfinedInvariant == Spec => []ConfinedInv
<1>1. Init => ConfinedInv
  <2> SUFFICES ASSUME Init PROVE ConfinedInv OBVIOUS
  <2>1. TypeOK
    <3>1. result = [error |-> FALSE, code |-> 0, timedOut |-> FALSE] BY DEF Init, NoResult
    <3>2. defers = <<>> /\ defers \in Seq(Deferred) /\ filter = <<>> /\ Len(filter) = 0
      BY DEF Init
    <3>3. /\ ~cg /\ ~limited /\ ~late /\ ~inCg /\ ~sig /\ ~moved
          /\ {cg, limited, late, inCg, sig, moved} \subseteq BOOLEAN
      BY DEF Init
    <3> QED BY <3>1, <3>2, <3>3 DEF Init, TypeOK
  <2>2. Gate /\ SetUp /\ Kept BY DEF Init, Gate, SetUp, Kept, Past, Alive
  <2>3. Installed /\ Privileges /\ Allowed /\ Ran
    BY DEF Init, Installed, Privileges, Allowed, Ran, Filtering
  <2> QED BY <2>1, <2>2, <2>3 DEF ConfinedInv
<1>2. RunnerInv /\ RunnerInv' /\ ConfinedInv /\ [Next]_vars => ConfinedInv'
  <2> SUFFICES ASSUME RunnerInv, RunnerInv', ConfinedInv, [Next]_vars PROVE ConfinedInv'
    OBVIOUS
  <2>1. CASE Parent BY <2>1, SetUpConfined, RunConfined, EndConfined DEF Parent
  <2>2. CASE ParentDies \/ Expire \/ ContextKill BY <2>2, EndConfined
  <2>3. CASE Child \/ ChildKilled
    BY <2>3, ChildPrepares, ChildFilters, ChildCalls, ChildLeaves DEF Child
  <2>4. CASE UNCHANGED vars
    <3> USE <2>4 DEF vars, child, host, ConfinedInv
    <3>1. TypeOK' BY DEF TypeOK
    <3>2. Gate' BY DEF Gate
    <3>3. SetUp' /\ Kept' BY DEF SetUp, Kept, Alive, NetworkMode
    <3> QED BY <3>1, <3>2, <3>3, ChildApart
  <2> QED BY <2>1, <2>2, <2>3, <2>4 DEF Next, Over
<1> QED BY <1>1, <1>2, RunnerInvariant, PTL DEF Spec

\* The state of Run and of its child has its types.
THEOREM RunnerTypes == Spec => []TypeOK
<1>1. ConfinedInv => TypeOK BY DEF ConfinedInv
<1> QED BY <1>1, ConfinedInvariant, PTL

\* For every profile, and whatever fails or expires when: a program runs unprivileged,
\* or a rule with a masked errno swallowed a privilege call, and its exec passed the
\* filter or was made on a thread that has none.  A program that Run let go has its
\* cgroup, its limits and its network, also when Run's process died after that; of
\* one that the death of Run's process let go this is not claimed.
THEOREM ProgramsAreConfined == Spec => []Confined
<1>1. ConfinedInv => Confined
  <2> SUFFICES ASSUME ConfinedInv, cpc = "program"
               PROVE  /\ Unprivileged
                      /\ filter # <<>>
                      /\ moved \/ Verdict(filter, Call("execve")).action = "allow"
                      /\ gate # "death" =>
                           /\ inCg /\ cg /\ (flags.mem >= 0 => limited)
                           /\ NetworkMode = "bridge" => "link" \in net
    BY DEF Confined
  <2>1. Unprivileged BY DEF ConfinedInv, Privileges, Unprivileged
  <2>2. filter # <<>> BY DEF ConfinedInv, Installed, Filtering
  <2>3. moved \/ Verdict(filter, Call("execve")).action = "allow" BY DEF ConfinedInv, Allowed
  <2>4. gate # "death" => gate = "closed" BY DEF ConfinedInv, TypeOK, Gate, Past
  <2>5. flags.mem >= 0 => limited BY DEF ConfinedInv, SetUp
  <2>6. gate = "closed" => inCg /\ cg /\ (NetworkMode = "bridge" => "link" \in net)
    BY DEF ConfinedInv, Kept, Alive, Past
  <2> QED BY <2>1, <2>2, <2>3, <2>4, <2>5, <2>6
<1> QED BY <1>1, ConfinedInvariant, PTL

\* Whatever raced with the deadline and wherever the child failed: success and 124
\* are reported of a program that ran, unprivileged, and is gone; 124 is the
\* program's own or a late 0, and any other code is the child's.
THEOREM ResultsAreTrue == Spec => []ResultIsTrue
<1>1. RunnerInv /\ ConfinedInv => ResultIsTrue
  <2> SUFFICES ASSUME RunnerInv, ConfinedInv, ppc = "returned", ~result.error
               PROVE  /\ cpc = "exited"
                      /\ result.timedOut => late
                      /\ result.code = 0 => code = 0 /\ ~result.timedOut
                      /\ result.code = 124 => code = 124 \/ (code = 0 /\ result.timedOut)
                      /\ result.code \notin {0, 124} => result.code = code
                      /\ result.code \in {0, 124} => filter # <<>> /\ Unprivileged
    BY DEF ResultIsTrue
  <2>1. cpc = "exited" BY DEF RunnerInv, Progress, Ending
  <2>2. /\ result.timedOut => late
        /\ result.code = IF result.timedOut /\ code = 0 THEN 124 ELSE code
        /\ code \in {-1, 0, 1, 2, 3, 124}
    BY DEF RunnerInv, Types, Reported, Ending
  <2>3. result.code \in {0, 124} => code \in {0, 124} BY <2>2
  <2>4. code \in {0, 124} => filter # <<>> /\ Unprivileged
    BY <2>1 DEF ConfinedInv, Ran, Unprivileged
  <2> QED BY <2>1, <2>2, <2>3, <2>4
<1> QED BY <1>1, ConfinedInvariant, RunnerInvariant, PTL

\* For every set of rules and every length of a profile: the program that is
\* installed answers every call as the profile, or the denylist, says; one whose
\* length does not fit is never installed.
THEOREM FiltersMeanProfiles == Spec => []FilterMeansProfile
<1>1. ConfinedInv => FilterMeansProfile
  <2> SUFFICES ASSUME Installed, filter # <<>>, NEW call
               PROVE  IF custom THEN Verdict(filter, call) \in Meaning(profile, call)
                      ELSE Verdict(filter, call).action =
                            IF call.nr \in Range(blockedSyscalls) THEN "errno" ELSE "allow"
    BY DEF ConfinedInv, FilterMeansProfile
  <2>1. CASE ~custom /\ filter = Denylist(blockedSyscalls)
    <3>1. Len(blockedSyscalls) \in Nat /\ Len(blockedSyscalls) <= 255 BY DenyOps
    <3>2. Denies(blockedSyscalls, call, Verdict(filter, call)) BY <2>1, <3>1, DenylistCorrect
    <3>3. Listed(blockedSyscalls, call, Len(blockedSyscalls) + 1)
            <=> call.nr \in Range(blockedSyscalls)
      <4>1. DOMAIN blockedSyscalls = 1..Len(blockedSyscalls) BY DEF blockedSyscalls
      <4> QED BY <3>1, <4>1 DEF Listed, Range
    <3> QED BY <2>1, <3>2, <3>3 DEF Denies, Value
  <2>2. CASE /\ custom /\ profile \in Profiles
             /\ \E rs \in compiledRules(profile) :
                  filter = compileBPF(rs, actionToValue(profile.default, EPERM))
    BY <2>2, ProfileTypes, FilterMeaning
  <2> QED BY <2>1, <2>2 DEF Installed
<1> QED BY <1>1, ConfinedInvariant, PTL

=============================================================================
