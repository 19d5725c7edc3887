------------------------------- MODULE Seccomp ------------------------------
(***************************************************************************)
(* System call filters: the compiler of pkg/seccomp/filter.go, the default *)
(* denylist of pkg/sandbox/security_linux.go, and the kernel's classic BPF *)
(* machine that checks and runs their programs.  Positions count from 1.   *)
(***************************************************************************)
EXTENDS Naturals, Sequences, FiniteSets, Functions

CONSTANTS
    LenMod,     \* the length of a program is cut to 16 bits: 65536
    MaxInsns    \* BPF_MAXINSNS, 4096

ASSUME LengthAssumption == LenMod \in Nat \ {0} /\ MaxInsns \in Nat

EPERM == 1
X86_64 == 62
Value(act, errno) == [action |-> act, errno |-> errno]

\* The part of the table that the model's rules and calls are about; rules may
\* name a call that is not in it.
syscallNameToNR ==
    [execve |-> 59, setuid |-> 105, setgid |-> 106, mount |-> 165, exit_group |-> 231]

\* What the kernel is told to do with a call: the errno is masked to 16 bits.
actionToValue(act, errno) ==
    IF act = "errno" THEN Value("errno", IF errno = 0 THEN EPERM ELSE errno % 65536)
    ELSE IF act \in {"allow", "kill", "trap", "trace"} THEN Value(act, 0)
    ELSE Value("errno", EPERM)

-----------------------------------------------------------------------------
(* Programs.                                                               *)

Ld(off) == [op |-> "ld", k |-> off, jt |-> 0, jf |-> 0]
Jeq(n, jt, jf) == [op |-> "jeq", k |-> n, jt |-> jt, jf |-> jf]
Ret(v) == [op |-> "ret", k |-> v, jt |-> 0, jf |-> 0]

\* The rules of a profile whose name the table knows, compiled, in each order
\* sort.Slice may leave them: by number, equal numbers in any order.
compiledRules(profile) ==
    LET known == {i \in 1..Len(profile.rules) : profile.rules[i].name \in DOMAIN syscallNameToNR}
        N == 1..Cardinality(known)
        rule(r) == [nr |-> syscallNameToNR[r.name], value |-> actionToValue(r.action, r.errno)]
    IN {t \in {[i \in N |-> rule(profile.rules[p[i]])] : p \in Bijection(N, known)} :
            \A i, j \in N : i < j => t[i].nr <= t[j].nr}

\* Fault: a rule's check jumps over nothing when it does not match.
compileBPFNoSkip(rules, default) ==
    [i \in 1..(2 * Len(rules) + 5) |->
        IF i = 1 THEN Ld(4)
        ELSE IF i = 2 THEN Jeq(X86_64, 1, 0)
        ELSE IF i = 3 THEN Ret(Value("kill", 0))
        ELSE IF i = 4 THEN Ld(0)
        ELSE IF i = 2 * Len(rules) + 5 THEN Ret(default)
        ELSE IF i % 2 = 1 THEN Jeq(rules[(i - 3) \div 2].nr, 0, 0)
        ELSE Ret(rules[(i - 3) \div 2].value)]

\* The architecture, the number, a check and a return per rule, the default.
compileBPF(rules, default) ==
    [i \in 1..(2 * Len(rules) + 5) |->
        IF i = 1 THEN Ld(4)
        ELSE IF i = 2 THEN Jeq(X86_64, 1, 0)
        ELSE IF i = 3 THEN Ret(Value("kill", 0))
        ELSE IF i = 4 THEN Ld(0)
        ELSE IF i = 2 * Len(rules) + 5 THEN Ret(default)
        ELSE IF i % 2 = 1 THEN Jeq(rules[(i - 3) \div 2].nr, 0, 1)
        ELSE Ret(rules[(i - 3) \div 2].value)]

\* The denylist: every check jumps to the last instruction, by a uint8.
Denylist(blocked) ==
    [i \in 1..(Len(blocked) + 3) |->
        IF i = 1 THEN Ld(0)
        ELSE IF i <= Len(blocked) + 1
             THEN Jeq(blocked[i - 1], (Len(blocked) + 2 - i) % 256, 0)
        ELSE IF i = Len(blocked) + 2 THEN Ret(Value("allow", 0))
        ELSE Ret(Value("errno", EPERM))]

\* Numbers of the denied calls on x86-64, in the order of the code.
blockedSyscalls == <<101, 321, 165, 166, 155, 169, 246, 103, 250, 248, 249, 167, 168, 161>>

-----------------------------------------------------------------------------
(* The kernel.                                                             *)

\* PR_SET_SECCOMP takes a program that ends in a return and stays inside itself.
Accepts(prog, len) ==
    /\ len \in 1..MaxInsns
    /\ prog[len].op = "ret"
    /\ \A i \in 1..len : i + prog[i].jt < len \/ prog[i].op # "jeq"
    /\ \A i \in 1..len : i + prog[i].jf < len \/ prog[i].op # "jeq"

\* At position 0 the program has returned.
Start == [pc |-> 1, acc |-> 0, ret |-> Value("allow", 0)]

\* One instruction, on the number and the architecture of a call.
Step(prog, call, s) ==
    LET i == prog[s.pc] IN
    IF i.op = "ld"
    THEN [pc |-> s.pc + 1, acc |-> IF i.k = 0 THEN call.nr ELSE call.arch, ret |-> s.ret]
    ELSE IF i.op = "jeq"
    THEN [pc |-> s.pc + 1 + (IF s.acc = i.k THEN i.jt ELSE i.jf), acc |-> s.acc, ret |-> s.ret]
    ELSE [pc |-> 0, acc |-> s.acc, ret |-> i.k]

\* What a program answers: every jump is forward, so it has as many steps as
\* instructions at most.
Verdict(prog, call) ==
    LET run[n \in 0..Len(prog)] ==
        IF n = 0 THEN Start
        ELSE LET s == run[n - 1] IN IF s.pc = 0 THEN s ELSE Step(prog, call, s)
    IN run[Len(prog)].ret

-----------------------------------------------------------------------------
\* What a profile says of a call: the action of a rule that names it, or the
\* default.  A rule for a call that the table lacks has no number here either, as in
\* compileBPF, which leaves it out and says nothing; what its author wanted is not
\* part of this meaning.
Meaning(profile, call) ==
    LET named == {r \in {profile.rules[i] : i \in 1..Len(profile.rules)} :
                    /\ r.name \in DOMAIN syscallNameToNR
                    /\ syscallNameToNR[r.name] = call.nr}
    IN IF call.arch # X86_64 THEN {Value("kill", 0)}
       ELSE IF named = {} THEN {actionToValue(profile.default, EPERM)}
       ELSE {actionToValue(r.action, r.errno) : r \in named}

=============================================================================
