---------------------------- MODULE SeccompProofs ---------------------------
(***************************************************************************)
(* Seccomp filters of any length: the kernel takes the whole program of    *)
(* compileBPF and nothing shorter, and the programs of compileBPF and of   *)
(* the denylist answer every call as their rules say.                      *)
(***************************************************************************)
EXTENDS Seccomp, FiniteSetTheorems, WellFoundedInduction, TLAPS

-----------------------------------------------------------------------------
(* The machine.  What holds for every number of its steps is proved by     *)
(* looking at the first step that breaks it.                               *)

\* A set of naturals has a least one.
LEMMA Least ==
    ASSUME NEW T, T \subseteq Nat, T # {}
    PROVE  \E x \in T : \A y \in T : x <= y
<1> DEFINE R == {ss \in Nat \X Nat : ss[1] < ss[2]}
<1>1. IsWellFoundedOn(R, Nat) BY NatLessThanWellFounded DEF OpToRel
<1> HIDE DEF R
<1>2. \E x \in T : \A y \in T : ~(<<y, x>> \in R) BY <1>1, WFMin
<1>3. \A x, y \in Nat : ~(<<y, x>> \in R) => x <= y BY DEF R
<1> QED BY <1>2, <1>3

\* The states of a machine after each of its first m steps.
Trace(prog, call, m, run) ==
    run = [n \in 0..m |->
            IF n = 0 THEN Start
            ELSE IF run[n - 1].pc = 0 THEN run[n - 1] ELSE Step(prog, call, run[n - 1])]

LEMMA TraceExists ==
    ASSUME NEW prog, NEW call, NEW L \in Nat
    PROVE  \E run : Trace(prog, call, L, run)
<1> DEFINE T == {m \in Nat : \A run : ~Trace(prog, call, m, run)}
<1> SUFFICES ASSUME T # {} PROVE FALSE OBVIOUS
<1>1. PICK m \in T : \A k \in T : m <= k
  <2> T \subseteq Nat OBVIOUS
  <2> HIDE DEF T
  <2> QED BY Least
<1>2. m # 0
  <2> DEFINE r == [n \in 0..0 |-> Start]
  <2>1. r = [n \in 0..0 |->
            IF n = 0 THEN Start
            ELSE IF r[n - 1].pc = 0 THEN r[n - 1] ELSE Step(prog, call, r[n - 1])]
    OBVIOUS
  <2>2. Trace(prog, call, 0, r) BY <2>1 DEF Trace
  <2> QED BY <2>2
<1>3. m \in Nat /\ m - 1 \in Nat /\ m - 1 \notin T BY <1>1, <1>2
<1>4. PICK q : Trace(prog, call, m - 1, q) BY <1>3
<1> DEFINE next(x) == IF x.pc = 0 THEN x ELSE Step(prog, call, x)
<1> HIDE DEF next
<1>5. q = [n \in 0..(m - 1) |-> IF n = 0 THEN Start ELSE next(q[n - 1])]
  BY <1>4 DEF Trace, next
<1> DEFINE r == [n \in 0..m |-> IF n = m THEN next(q[m - 1]) ELSE q[n]]
<1>6. ASSUME NEW n \in 0..m
      PROVE  r[n] = IF n = 0 THEN Start ELSE next(r[n - 1])
  <2>1. CASE n = m BY <2>1, <1>2, <1>3
  <2>2. CASE n # m
    <3>1. n \in 0..(m - 1) /\ r[n] = q[n] BY <2>2, <1>3
    <3>2. n # 0 => n - 1 \in 0..m /\ n - 1 # m /\ r[n - 1] = q[n - 1] BY <2>2, <1>3
    <3> QED BY <3>1, <3>2, <1>5
  <2> QED BY <2>1, <2>2
<1>7. r = [n \in 0..m |-> IF n = 0 THEN Start ELSE next(r[n - 1])]
  <2>1. r = [n \in 0..m |-> r[n]] OBVIOUS
  <2> HIDE DEF r
  <2> QED BY <2>1, <1>6
<1>8. Trace(prog, call, m, r)
  <2> HIDE DEF r
  <2> QED BY <1>7 DEF Trace, next
<1> QED BY <1>1, <1>8

\* To say what a program answers, it is enough to find a set of states that the
\* machine starts in and stays in, inside the program and always moving forward.
LEMMA VerdictInduction ==
    ASSUME NEW prog, NEW call, NEW I,
           Len(prog) \in Nat,
           Start \in I,
           \A s \in I : s.pc \in 0..Len(prog),
           \A s \in I : s.pc # 0 =>
                /\ Step(prog, call, s) \in I
                /\ Step(prog, call, s).pc = 0 \/ Step(prog, call, s).pc > s.pc
    PROVE  \E s \in I : s.pc = 0 /\ Verdict(prog, call) = s.ret
<1> DEFINE L == Len(prog)
           run == CHOOSE r : Trace(prog, call, L, r)
<1>0. L \in Nat OBVIOUS
<1>1. Verdict(prog, call) = run[L].ret BY DEF Verdict, Trace
<1>2. Trace(prog, call, L, run) BY <1>0, TraceExists
<1> HIDE DEF run, L
<1>3. run = [n \in 0..L |->
            IF n = 0 THEN Start
            ELSE IF run[n - 1].pc = 0 THEN run[n - 1] ELSE Step(prog, call, run[n - 1])]
  BY <1>2 DEF Trace
<1>4. run[0] = Start BY <1>0, <1>3
<1>5. ASSUME NEW n \in 0..L, n # 0
      PROVE  run[n] = IF run[n - 1].pc = 0 THEN run[n - 1] ELSE Step(prog, call, run[n - 1])
  BY <1>3, <1>5
<1> DEFINE ok(n) == run[n] \in I /\ (run[n].pc = 0 \/ run[n].pc > n)
           T == {n \in 0..L : ~ok(n)}
<1>6. T = {}
  <2> SUFFICES ASSUME T # {} PROVE FALSE OBVIOUS
  <2>1. PICK m \in T : \A k \in T : m <= k
    <3> T \subseteq Nat BY <1>0
    <3> HIDE DEF T
    <3> QED BY Least
  <2>2. m \in 0..L /\ ~ok(m) BY <2>1
  <2>3. m # 0
    <3>1. run[0] \in I /\ run[0].pc = 1 BY <1>4 DEF Start
    <3> QED BY <3>1, <2>2
  <2>4. m - 1 \in 0..L /\ m - 1 < m BY <2>2, <2>3, <1>0
  <2>5. ok(m - 1)
    <3>1. m - 1 \notin T BY <2>1, <2>4, <1>0
    <3> QED BY <3>1, <2>4
  <2> DEFINE x == run[m - 1]
             y == run[m]
  <2>6. x \in I /\ (x.pc = 0 \/ x.pc > m - 1) BY <2>5
  <2>7. y = IF x.pc = 0 THEN x ELSE Step(prog, call, x) BY <1>5, <2>2, <2>3
  <2>8. ~(y \in I /\ (y.pc = 0 \/ y.pc > m)) BY <2>2
  <2> HIDE DEF x, y
  <2>9. CASE x.pc = 0 BY <2>6, <2>7, <2>8, <2>9
  <2>10. CASE x.pc # 0
    <3>1. y \in I /\ (y.pc = 0 \/ y.pc > x.pc) BY <2>6, <2>7, <2>10
    <3>2. x.pc \in Int /\ y.pc \in Int BY <3>1, <2>6, <1>0 DEF L
    <3> QED BY <3>1, <3>2, <2>2, <2>6, <2>8, <2>10, <1>0
  <2> QED BY <2>9, <2>10
<1>7. run[L] \in I /\ (run[L].pc = 0 \/ run[L].pc > L)
  BY <1>6, <1>0
<1>8. run[L].pc \in 0..L BY <1>7 DEF L
<1>9. run[L].pc = 0 BY <1>0, <1>7, <1>8
<1> QED BY <1>1, <1>7, <1>9

\* What each kind of instruction does.
LEMMA StepLd ==
    ASSUME NEW prog, NEW call, NEW s, NEW off, prog[s.pc] = Ld(off)
    PROVE  Step(prog, call, s) =
            [pc |-> s.pc + 1, acc |-> IF off = 0 THEN call.nr ELSE call.arch, ret |-> s.ret]
BY DEF Step, Ld

LEMMA StepJeq ==
    ASSUME NEW prog, NEW call, NEW s, NEW n, NEW jt, NEW jf, prog[s.pc] = Jeq(n, jt, jf)
    PROVE  Step(prog, call, s) =
            [pc |-> s.pc + 1 + (IF s.acc = n THEN jt ELSE jf), acc |-> s.acc, ret |-> s.ret]
BY DEF Step, Jeq

LEMMA StepRet ==
    ASSUME NEW prog, NEW call, NEW s, NEW v, prog[s.pc] = Ret(v)
    PROVE  Step(prog, call, s) = [pc |-> 0, acc |-> s.acc, ret |-> v]
BY DEF Step, Ret

-----------------------------------------------------------------------------
(* Profiles.                                                               *)

\* The program has two instructions for each rule, and these are they.
LEMMA FilterShape ==
    ASSUME NEW rs, NEW default, Len(rs) \in Nat
    PROVE  LET P == compileBPF(rs, default) IN
           /\ Len(P) = 2 * Len(rs) + 5
           /\ P[1] = Ld(4)
           /\ P[2] = Jeq(X86_64, 1, 0)
           /\ P[3] = Ret(Value("kill", 0))
           /\ P[4] = Ld(0)
           /\ \A k \in 1..Len(rs) : P[2 * k + 3] = Jeq(rs[k].nr, 0, 1)
           /\ \A k \in 1..Len(rs) : P[2 * k + 4] = Ret(rs[k].value)
           /\ P[2 * Len(rs) + 5] = Ret(default)
<1> DEFINE n == Len(rs)
           P == compileBPF(rs, default)
<1>1. n \in Nat
  OBVIOUS
<1>2. P = [i \in 1..(2 * n + 5) |->
        IF i = 1 THEN Ld(4)
        ELSE IF i = 2 THEN Jeq(X86_64, 1, 0)
        ELSE IF i = 3 THEN Ret(Value("kill", 0))
        ELSE IF i = 4 THEN Ld(0)
        ELSE IF i = 2 * n + 5 THEN Ret(default)
        ELSE IF i % 2 = 1 THEN Jeq(rs[(i - 3) \div 2].nr, 0, 1)
        ELSE Ret(rs[(i - 3) \div 2].value)]
  BY DEF compileBPF
<1> HIDE DEF n, P
<1>3. Len(P) = 2 * n + 5
  BY <1>1, <1>2
<1>4. \A k \in 1..n : P[2 * k + 3] = Jeq(rs[k].nr, 0, 1)
  <2> TAKE k \in 1..n
  <2>1. /\ 2 * k + 3 \in 1..(2 * n + 5) /\ (2 * k + 3) % 2 = 1
        /\ ((2 * k + 3) - 3) \div 2 = k
        /\ 2 * k + 3 \notin {1, 2, 3, 4, 2 * n + 5}
    BY <1>1
  <2> QED BY <1>2, <2>1
<1>5. \A k \in 1..n : P[2 * k + 4] = Ret(rs[k].value)
  <2> TAKE k \in 1..n
  <2>1. /\ 2 * k + 4 \in 1..(2 * n + 5) /\ (2 * k + 4) % 2 = 0
        /\ ((2 * k + 4) - 3) \div 2 = k
        /\ 2 * k + 4 \notin {1, 2, 3, 4, 2 * n + 5}
    BY <1>1
  <2> QED BY <1>2, <2>1
<1>6. P[2 * n + 5] = Ret(default)
  BY <1>1, <1>2
<1>7. P[1] = Ld(4) /\ P[2] = Jeq(X86_64, 1, 0) /\ P[3] = Ret(Value("kill", 0)) /\ P[4] = Ld(0)
  BY <1>1, <1>2
<1> QED BY <1>1, <1>3, <1>4, <1>5, <1>6, <1>7 DEF n, P

\* A place of the program is one of the first four, the last, or a check or a
\* return of some rule.
LEMMA Places ==
    ASSUME NEW n \in Nat, NEW i \in 1..(2 * n + 5)
    PROVE  \/ i \in {1, 2, 3, 4, 2 * n + 5}
           \/ \E k \in 1..n : i = 2 * k + 3 \/ i = 2 * k + 4
<1> SUFFICES ASSUME i \notin {1, 2, 3, 4, 2 * n + 5}
             PROVE  \E k \in 1..n : i = 2 * k + 3 \/ i = 2 * k + 4
  OBVIOUS
<1> DEFINE k == (i - 3) \div 2
<1>1. k \in 1..n /\ (i = 2 * k + 3 \/ i = 2 * k + 4) OBVIOUS
<1> QED BY <1>1

\* No rule before the k-th is about the call.
Unmatched(rs, call, k) == \A j \in 1..Len(rs) : j < k => rs[j].nr # call.nr

\* The answer of a compiled profile: that of the first rule for the call, or the
\* default.
Answers(rs, default, call, v) ==
    \/ call.arch # X86_64 /\ v = Value("kill", 0)
    \/ /\ call.arch = X86_64
       /\ \E k \in 1..Len(rs) : Unmatched(rs, call, k) /\ rs[k].nr = call.nr /\ v = rs[k].value
    \/ call.arch = X86_64 /\ Unmatched(rs, call, Len(rs) + 1) /\ v = default

\* Where the program of a profile can be, and what it knows there.
Located(rs, default, call, s) ==
    \/ s.pc = 0 /\ Answers(rs, default, call, s.ret)
    \/ s.pc = 1
    \/ s.pc = 2 /\ s.acc = call.arch
    \/ s.pc = 3 /\ call.arch # X86_64
    \/ s.pc = 4 /\ call.arch = X86_64
    \/ \E k \in 1..(Len(rs) + 1) :
        s.pc = 2 * k + 3 /\ s.acc = call.nr /\ call.arch = X86_64 /\ Unmatched(rs, call, k)
    \/ \E k \in 1..Len(rs) :
        s.pc = 2 * k + 4 /\ rs[k].nr = call.nr /\ call.arch = X86_64 /\ Unmatched(rs, call, k)

\* For every profile: the program that compileBPF makes of it returns, with the
\* value of the first rule for the call, with the default if there is none, and
\* with the end of the thread for a foreign architecture.
THEOREM FilterCorrect ==
    ASSUME NEW rs, NEW default, NEW call, Len(rs) \in Nat
    PROVE  Answers(rs, default, call, Verdict(compileBPF(rs, default), call))
<1> DEFINE n == Len(rs)
           P == compileBPF(rs, default)
           V == {Value("allow", 0), Value("kill", 0), default} \cup {rs[k].value : k \in 1..n}
           S == [pc : 0..(2 * n + 5), acc : {0, call.nr, call.arch}, ret : V]
           I == {s \in S : Located(rs, default, call, s)}
<1>0. n \in Nat /\ Len(P) = 2 * n + 5 BY FilterShape
<1> HIDE DEF P
<1>1. Start \in I
  <2>1. Start \in S /\ Start.pc = 1 BY <1>0 DEF Start
  <2> QED BY <2>1 DEF Located
<1>2. \A s \in I : s.pc \in 0..Len(P) BY <1>0
<1>3. ASSUME NEW s \in I, s.pc # 0
      PROVE  Step(P, call, s) \in I /\ (Step(P, call, s).pc = 0 \/ Step(P, call, s).pc > s.pc)
  <2> DEFINE t == Step(P, call, s)
  <2>s. /\ s.pc \in 0..(2 * n + 5) /\ s.acc \in {0, call.nr, call.arch} /\ s.ret \in V
        /\ Located(rs, default, call, s)
    OBVIOUS
  <2>v. Value("kill", 0) \in V /\ default \in V /\ \A k \in 1..n : rs[k].value \in V
    OBVIOUS
  <2> SUFFICES t \in I /\ (t.pc = 0 \/ t.pc > s.pc) OBVIOUS
  <2> HIDE DEF V, t
  <2>a. CASE s.pc = 1
    <3>1. t = [pc |-> 1 + 1, acc |-> call.arch, ret |-> s.ret]
      BY <2>a, FilterShape, StepLd DEF t, P
    <3>2. t \in S /\ t.pc = 2 /\ t.acc = call.arch BY <3>1, <2>s, <1>0
    <3> QED BY <3>2, <2>a DEF Located
  <2>b. CASE s.pc = 2 /\ s.acc = call.arch
    <3>1. t = [pc |-> 2 + 1 + (IF s.acc = X86_64 THEN 1 ELSE 0), acc |-> s.acc, ret |-> s.ret]
      BY <2>b, FilterShape, StepJeq DEF t, P
    <3>2. t \in S /\ t.pc = IF call.arch = X86_64 THEN 4 ELSE 3 BY <3>1, <2>b, <2>s, <1>0
    <3> QED BY <3>2, <2>b DEF Located
  <2>c. CASE s.pc = 3 /\ call.arch # X86_64
    <3>1. t = [pc |-> 0, acc |-> s.acc, ret |-> Value("kill", 0)]
      BY <2>c, FilterShape, StepRet DEF t, P
    <3>2. t \in S /\ t.pc = 0 /\ t.ret = Value("kill", 0) BY <3>1, <2>s, <2>v, <1>0
    <3> QED BY <3>2, <2>c DEF Located, Answers
  <2>d. CASE s.pc = 4 /\ call.arch = X86_64
    <3>1. t = [pc |-> 4 + 1, acc |-> call.nr, ret |-> s.ret]
      BY <2>d, FilterShape, StepLd DEF t, P
    <3>2. t \in S /\ t.pc = 2 * 1 + 3 /\ t.acc = call.nr BY <3>1, <2>s, <1>0
    <3>3. Unmatched(rs, call, 1) /\ 1 \in 1..(n + 1) BY <1>0 DEF Unmatched
    <3>4. Located(rs, default, call, t) BY <3>2, <3>3, <2>d DEF Located
    <3> QED BY <3>2, <3>4, <2>d
  <2>e. ASSUME NEW k \in 1..n,
               s.pc = 2 * k + 3, s.acc = call.nr, call.arch = X86_64, Unmatched(rs, call, k)
        PROVE  t \in I /\ (t.pc = 0 \/ t.pc > s.pc)
    <3>1. t = [pc |-> s.pc + 1 + (IF s.acc = rs[k].nr THEN 0 ELSE 1), acc |-> s.acc, ret |-> s.ret]
      <4>1. P[s.pc] = Jeq(rs[k].nr, 0, 1) BY <2>e, FilterShape DEF P
      <4> QED BY <4>1, StepJeq DEF t
    <3>2. CASE rs[k].nr = call.nr
      <4>1. t = [pc |-> 2 * k + 4, acc |-> s.acc, ret |-> s.ret] BY <3>1, <3>2, <2>e, <1>0
      <4>2. t \in S /\ t.pc = 2 * k + 4 BY <4>1, <2>s, <1>0
      <4>3. Located(rs, default, call, t) BY <4>2, <2>e, <3>2 DEF Located
      <4> QED BY <4>2, <4>3, <2>e, <1>0
    <3>3. CASE rs[k].nr # call.nr
      <4>1. t = [pc |-> 2 * (k + 1) + 3, acc |-> s.acc, ret |-> s.ret]
        BY <3>1, <3>3, <2>e, <1>0
      <4>2. t \in S /\ t.pc = 2 * (k + 1) + 3 /\ t.acc = call.nr BY <4>1, <2>s, <2>e, <1>0
      <4>3. k + 1 \in 1..(n + 1) BY <1>0
      <4>4. Unmatched(rs, call, k + 1)
        <5> SUFFICES ASSUME NEW j \in 1..n, j < k + 1 PROVE rs[j].nr # call.nr
          BY DEF Unmatched
        <5>1. j = k \/ j < k BY <1>0
        <5> QED BY <5>1, <3>3, <2>e DEF Unmatched
      <4>5. Located(rs, default, call, t) BY <4>2, <4>3, <4>4, <2>e DEF Located
      <4> QED BY <4>2, <4>5, <2>e, <1>0
    <3> QED BY <3>2, <3>3
  <2>f. CASE s.pc = 2 * n + 5 /\ call.arch = X86_64 /\ Unmatched(rs, call, n + 1)
    <3>1. t = [pc |-> 0, acc |-> s.acc, ret |-> default]
      BY <2>f, FilterShape, StepRet DEF t, P
    <3>2. t \in S /\ t.pc = 0 /\ t.ret = default BY <3>1, <2>s, <2>v, <1>0
    <3> QED BY <3>2, <2>f DEF Located, Answers
  <2>g. ASSUME NEW k \in 1..n,
               s.pc = 2 * k + 4, rs[k].nr = call.nr, call.arch = X86_64, Unmatched(rs, call, k)
        PROVE  t \in I /\ (t.pc = 0 \/ t.pc > s.pc)
    <3>1. t = [pc |-> 0, acc |-> s.acc, ret |-> rs[k].value]
      <4>1. P[s.pc] = Ret(rs[k].value) BY <2>g, FilterShape DEF P
      <4> QED BY <4>1, StepRet DEF t
    <3>2. t \in S /\ t.pc = 0 /\ t.ret = rs[k].value BY <3>1, <2>s, <2>v, <1>0
    <3> QED BY <3>2, <2>g DEF Located, Answers
  <2>h. ASSUME NEW k \in 1..(n + 1),
               s.pc = 2 * k + 3, s.acc = call.nr, call.arch = X86_64, Unmatched(rs, call, k)
        PROVE  t \in I /\ (t.pc = 0 \/ t.pc > s.pc)
    <3>1. k \in 1..n \/ k = n + 1 BY <1>0
    <3>2. CASE k = n + 1
      <4>1. s.pc = 2 * n + 5 BY <2>h, <3>2, <1>0
      <4> QED BY <4>1, <2>f, <2>h, <3>2
    <3> QED BY <3>1, <3>2, <2>e, <2>h
  <2> HIDE DEF I, S
  <2> QED BY <2>s, <1>3, <2>a, <2>b, <2>c, <2>d, <2>g, <2>h DEF Located
<1>4. PICK s \in I : s.pc = 0 /\ Verdict(P, call) = s.ret
  <2> HIDE DEF I
  <2> QED BY <1>0, <1>1, <1>2, <1>3, VerdictInduction
<1>5. Answers(rs, default, call, s.ret)
  <2>1. Located(rs, default, call, s) OBVIOUS
  <2> QED BY <1>0, <1>4, <2>1 DEF Located
<1> QED BY <1>4, <1>5 DEF P

\* For every profile: of the lengths that ApplyProfile may give the kernel for a
\* program of compileBPF, cut to 16 bits or not, the kernel takes the right one
\* alone, and takes it unless the program is longer than it allows.
THEOREM OnlyWhole ==
    ASSUME NEW rs, NEW default, Len(rs) \in Nat, NEW len \in 0..Len(compileBPF(rs, default))
    PROVE  Accepts(compileBPF(rs, default), len)
            <=> len = Len(compileBPF(rs, default)) /\ len <= MaxInsns
<1> DEFINE n == Len(rs)
           P == compileBPF(rs, default)
<1>0. n \in Nat /\ Len(P) = 2 * n + 5 /\ MaxInsns \in Nat BY FilterShape, LengthAssumption
<1>1. /\ P[1] = Ld(4) /\ P[2] = Jeq(X86_64, 1, 0) /\ P[3] = Ret(Value("kill", 0)) /\ P[4] = Ld(0)
      /\ P[2 * n + 5] = Ret(default)
  BY FilterShape
<1>2. ASSUME NEW k \in 1..n
      PROVE  /\ P[2 * k + 3].op = "jeq" /\ P[2 * k + 3].jt = 0 /\ P[2 * k + 3].jf = 1
             /\ P[2 * k + 4].op = "ret"
  <2>1. P[2 * k + 3] = Jeq(rs[k].nr, 0, 1) /\ P[2 * k + 4] = Ret(rs[k].value) BY FilterShape
  <2> QED BY <2>1 DEF Jeq, Ret
<1> HIDE DEF P, n
<1>3. ASSUME Accepts(P, len)
      PROVE  len = 2 * n + 5 /\ len <= MaxInsns
  <2>1. /\ len \in 1..MaxInsns /\ len \in 1..(2 * n + 5) /\ P[len].op = "ret"
        /\ \A i \in 1..len : P[i].op = "jeq" => i + P[i].jt < len /\ i + P[i].jf < len
    BY <1>3, <1>0 DEF Accepts, P
  <2>2. len \notin {1, 2, 4}
    BY <2>1, <1>1 DEF Ld, Jeq
  <2>3. len # 3
    <3>1. P[2].op = "jeq" /\ P[2].jt = 1 BY <1>1 DEF Jeq
    <3> QED BY <3>1, <2>1
  <2>4. ASSUME NEW k \in 1..n PROVE len # 2 * k + 3
    BY <1>2, <2>1
  <2>5. ASSUME NEW k \in 1..n PROVE len # 2 * k + 4
    <3> SUFFICES ASSUME len = 2 * k + 4 PROVE FALSE OBVIOUS
    <3>1. 2 * k + 3 \in 1..len /\ ~((2 * k + 3) + 1 < len) BY <1>0
    <3> QED BY <3>1, <1>2, <2>1
  <2>6. len = 2 * n + 5 BY <1>0, <2>1, <2>2, <2>3, <2>4, <2>5, Places
  <2> QED BY <2>1, <2>6, <1>0
<1>4. ASSUME len = 2 * n + 5, len <= MaxInsns
      PROVE  Accepts(P, len)
  <2>1. P[len].op = "ret" BY <1>1, <1>4 DEF Ret
  <2>2. ASSUME NEW i \in 1..len, P[i].op = "jeq"
        PROVE  i + P[i].jt < len /\ i + P[i].jf < len
    <3>1. i \notin {1, 3, 4, 2 * n + 5} BY <1>1, <2>2 DEF Ld, Ret
    <3>2. CASE i = 2
      <4>1. P[i].jt = 1 /\ P[i].jf = 0 BY <1>1, <3>2 DEF Jeq
      <4> QED BY <4>1, <3>2, <1>4, <1>0
    <3>3. ASSUME NEW k \in 1..n, i = 2 * k + 3
          PROVE  i + P[i].jt < len /\ i + P[i].jf < len
      <4>1. P[i].jt = 0 /\ P[i].jf = 1 BY <1>2, <3>3
      <4> QED BY <4>1, <3>3, <1>4, <1>0
    <3>4. ASSUME NEW k \in 1..n, i = 2 * k + 4
          PROVE  FALSE
      BY <1>2, <3>4, <2>2
    <3> QED BY <1>0, <1>4, <3>1, <3>2, <3>3, <3>4, Places
  <2> QED BY <1>0, <1>4, <2>1, <2>2 DEF Accepts
<1> QED BY <1>0, <1>3, <1>4 DEF P, n

\* The rules of a profile that are compiled are the ones whose name is known, each
\* of them once.
LEMMA CompiledShape ==
    ASSUME NEW p, Len(p.rules) \in Nat, NEW rs \in compiledRules(p)
    PROVE  LET known == {i \in 1..Len(p.rules) : p.rules[i].name \in DOMAIN syscallNameToNR}
               rule(r) == [nr |-> syscallNameToNR[r.name], value |-> actionToValue(r.action, r.errno)]
           IN /\ Len(rs) \in Nat
              /\ \A k \in 1..Len(rs) : \E i \in known : rs[k] = rule(p.rules[i])
              /\ \A i \in known : \E k \in 1..Len(rs) : rs[k] = rule(p.rules[i])
<1> DEFINE known == {i \in 1..Len(p.rules) : p.rules[i].name \in DOMAIN syscallNameToNR}
           rule(r) == [nr |-> syscallNameToNR[r.name], value |-> actionToValue(r.action, r.errno)]
           n == Cardinality(known)
<1>1. n \in Nat
  <2>1. IsFiniteSet(1..Len(p.rules)) BY FS_Interval
  <2>2. IsFiniteSet(known) BY <2>1, FS_Subset
  <2> HIDE DEF known
  <2> QED BY <2>2, FS_CardinalityType
<1>2. PICK q \in Bijection(1..n, known) : rs = [i \in 1..n |-> rule(p.rules[q[i]])]
  BY DEF compiledRules
<1>3. q \in [1..n -> known] /\ \A i \in known : \E k \in 1..n : q[k] = i
  BY DEF Bijection, Injection, Surjection
<1> HIDE DEF known, rule, n
<1>4. Len(rs) = n BY <1>1, <1>2
<1>5. \A k \in 1..n : q[k] \in known /\ rs[k] = rule(p.rules[q[k]]) BY <1>2, <1>3
<1>6. \A k \in 1..Len(rs) : \E i \in known : rs[k] = rule(p.rules[i]) BY <1>4, <1>5
<1>7. \A i \in known : \E k \in 1..Len(rs) : rs[k] = rule(p.rules[i]) BY <1>3, <1>4, <1>5
<1> QED BY <1>1, <1>4, <1>6, <1>7 DEF known, rule

\* For every profile, in whatever order sort.Slice leaves rules for the same call:
\* the program answers every call with the action of a rule for it, and with the
\* default action when no rule is about it.
THEOREM FilterMeaning ==
    ASSUME NEW p, Len(p.rules) \in Nat, NEW rs \in compiledRules(p), NEW call
    PROVE  Verdict(compileBPF(rs, actionToValue(p.default, EPERM)), call) \in Meaning(p, call)
<1> DEFINE known == {i \in 1..Len(p.rules) : p.rules[i].name \in DOMAIN syscallNameToNR}
           rule(r) == [nr |-> syscallNameToNR[r.name], value |-> actionToValue(r.action, r.errno)]
           default == actionToValue(p.default, EPERM)
           v == Verdict(compileBPF(rs, default), call)
           named == {r \in {p.rules[i] : i \in 1..Len(p.rules)} :
                        /\ r.name \in DOMAIN syscallNameToNR
                        /\ syscallNameToNR[r.name] = call.nr}
<1>1. /\ Len(rs) \in Nat
      /\ \A k \in 1..Len(rs) : \E i \in known : rs[k] = rule(p.rules[i])
      /\ \A i \in known : \E k \in 1..Len(rs) : rs[k] = rule(p.rules[i])
  BY CompiledShape
<1>2. Answers(rs, default, call, v) BY <1>1, FilterCorrect
<1>3. Meaning(p, call) =
        IF call.arch # X86_64 THEN {Value("kill", 0)}
        ELSE IF named = {} THEN {default}
        ELSE {actionToValue(r.action, r.errno) : r \in named}
  BY DEF Meaning
<1> SUFFICES v \in Meaning(p, call) OBVIOUS
<1> HIDE DEF v, default
<1>4. CASE call.arch # X86_64 BY <1>2, <1>3, <1>4 DEF Answers
<1>5. ASSUME NEW k \in 1..Len(rs), call.arch = X86_64, rs[k].nr = call.nr, v = rs[k].value
      PROVE  v \in Meaning(p, call)
  <2>1. PICK i \in known : rs[k] = rule(p.rules[i]) BY <1>1
  <2> DEFINE r == p.rules[i]
  <2>2. r \in named BY <2>1, <1>5
  <2>3. v = actionToValue(r.action, r.errno) BY <2>1, <1>5
  <2> HIDE DEF named, r
  <2> QED BY <2>2, <2>3, <1>3, <1>5
<1>6. CASE call.arch = X86_64 /\ Unmatched(rs, call, Len(rs) + 1) /\ v = default
  <2>1. named = {}
    <3> SUFFICES ASSUME NEW i \in known, syscallNameToNR[p.rules[i].name] = call.nr PROVE FALSE
      OBVIOUS
    <3>1. PICK k \in 1..Len(rs) : rs[k] = rule(p.rules[i]) BY <1>1
    <3>2. rs[k].nr = call.nr BY <3>1
    <3> QED BY <3>2, <1>1, <1>6 DEF Unmatched
  <2> QED BY <2>1, <1>3, <1>6
<1> HIDE DEF named
<1> QED BY <1>2, <1>4, <1>5, <1>6 DEF Answers

-----------------------------------------------------------------------------
(* The denylist.                                                           *)

\* The call is among the first k - 1 of the list.
Listed(blocked, call, k) == \E j \in 1..Len(blocked) : j < k /\ blocked[j] = call.nr

\* The answer of the denylist: EPERM for a call on it, and no other call.
Denies(blocked, call, v) ==
    v = IF Listed(blocked, call, Len(blocked) + 1) THEN Value("errno", EPERM)
        ELSE Value("allow", 0)

DenyLocated(blocked, call, s) ==
    \/ s.pc = 0 /\ Denies(blocked, call, s.ret)
    \/ s.pc = 1
    \/ \E k \in 1..(Len(blocked) + 1) :
        s.pc = k + 1 /\ s.acc = call.nr /\ ~Listed(blocked, call, k)
    \/ s.pc = Len(blocked) + 3 /\ Listed(blocked, call, Len(blocked) + 1)

\* The jump of a check fits its eight bits, and leads to the last instruction.
LEMMA DenyShape ==
    ASSUME NEW blocked, Len(blocked) \in Nat, Len(blocked) <= 255
    PROVE  LET P == Denylist(blocked) IN
           /\ Len(P) = Len(blocked) + 3
           /\ P[1] = Ld(0)
           /\ \A k \in 1..Len(blocked) : P[k + 1] = Jeq(blocked[k], Len(blocked) + 1 - k, 0)
           /\ P[Len(blocked) + 2] = Ret(Value("allow", 0))
           /\ P[Len(blocked) + 3] = Ret(Value("errno", EPERM))
<1> DEFINE n == Len(blocked)
           P == Denylist(blocked)
<1>1. n \in Nat /\ n <= 255
  OBVIOUS
<1>2. P = [i \in 1..(n + 3) |->
        IF i = 1 THEN Ld(0)
        ELSE IF i <= n + 1 THEN Jeq(blocked[i - 1], (n + 2 - i) % 256, 0)
        ELSE IF i = n + 2 THEN Ret(Value("allow", 0))
        ELSE Ret(Value("errno", EPERM))]
  BY DEF Denylist
<1> HIDE DEF n, P
<1>3. Len(P) = n + 3
  BY <1>1, <1>2
<1>4. \A k \in 1..n : P[k + 1] = Jeq(blocked[k], n + 1 - k, 0)
  <2> TAKE k \in 1..n
  <2>1. /\ k + 1 \in 1..(n + 3) /\ k + 1 # 1 /\ k + 1 <= n + 1 /\ (k + 1) - 1 = k
        /\ (n + 2 - (k + 1)) % 256 = n + 1 - k
    BY <1>1
  <2> QED BY <1>2, <2>1
<1>5. P[1] = Ld(0) /\ P[n + 2] = Ret(Value("allow", 0)) /\ P[n + 3] = Ret(Value("errno", EPERM))
  BY <1>1, <1>2
<1> QED BY <1>1, <1>3, <1>4, <1>5 DEF n, P

\* For every denylist of at most 255 calls: the jumps of ApplySeccompDenylist fit
\* their uint8, and the program returns EPERM for the calls on the list and
\* allows all others.
THEOREM DenylistCorrect ==
    ASSUME NEW blocked, Len(blocked) \in Nat, Len(blocked) <= 255, NEW call
    PROVE  Denies(blocked, call, Verdict(Denylist(blocked), call))
<1> DEFINE n == Len(blocked)
           P == Denylist(blocked)
           V == {Value("allow", 0), Value("errno", EPERM)}
           S == [pc : 0..(n + 3), acc : {0, call.nr}, ret : V]
           I == {s \in S : DenyLocated(blocked, call, s)}
<1>0. n \in Nat /\ Len(P) = n + 3 BY DenyShape
<1> HIDE DEF P
<1>1. Start \in I
  <2>1. Start \in S /\ Start.pc = 1 BY <1>0 DEF Start
  <2> QED BY <2>1 DEF DenyLocated
<1>2. \A s \in I : s.pc \in 0..Len(P) BY <1>0
<1>3. ASSUME NEW s \in I, s.pc # 0
      PROVE  Step(P, call, s) \in I /\ (Step(P, call, s).pc = 0 \/ Step(P, call, s).pc > s.pc)
  <2> DEFINE t == Step(P, call, s)
  <2>s. /\ s.pc \in 0..(n + 3) /\ s.acc \in {0, call.nr} /\ s.ret \in V
        /\ DenyLocated(blocked, call, s)
    OBVIOUS
  <2>v. Value("allow", 0) \in V /\ Value("errno", EPERM) \in V
    OBVIOUS
  <2> SUFFICES t \in I /\ (t.pc = 0 \/ t.pc > s.pc) OBVIOUS
  <2> HIDE DEF V, t
  <2>a. CASE s.pc = 1
    <3>1. t = [pc |-> 1 + 1, acc |-> call.nr, ret |-> s.ret]
      BY <2>a, DenyShape, StepLd DEF t, P
    <3>2. t \in S /\ t.pc = 1 + 1 /\ t.acc = call.nr BY <3>1, <2>s, <1>0
    <3>3. ~Listed(blocked, call, 1) /\ 1 \in 1..(n + 1) BY <1>0 DEF Listed
    <3>4. DenyLocated(blocked, call, t) BY <3>2, <3>3 DEF DenyLocated
    <3> QED BY <3>2, <3>4, <2>a
  <2>b. ASSUME NEW k \in 1..n, s.pc = k + 1, s.acc = call.nr, ~Listed(blocked, call, k)
        PROVE  t \in I /\ (t.pc = 0 \/ t.pc > s.pc)
    <3>1. t = [pc |-> s.pc + 1 + (IF s.acc = blocked[k] THEN n + 1 - k ELSE 0),
               acc |-> s.acc, ret |-> s.ret]
      <4>1. P[s.pc] = Jeq(blocked[k], n + 1 - k, 0) BY <2>b, DenyShape DEF P
      <4> QED BY <4>1, StepJeq DEF t
    <3>2. CASE blocked[k] = call.nr
      <4>1. t = [pc |-> n + 3, acc |-> s.acc, ret |-> s.ret] BY <3>1, <3>2, <2>b, <1>0
      <4>2. t \in S /\ t.pc = n + 3 BY <4>1, <2>s, <1>0
      <4>3. Listed(blocked, call, n + 1) BY <3>2, <1>0 DEF Listed
      <4>4. DenyLocated(blocked, call, t) BY <4>2, <4>3 DEF DenyLocated
      <4> QED BY <4>2, <4>4, <2>b, <1>0
    <3>3. CASE blocked[k] # call.nr
      <4>a. s.acc # blocked[k] /\ s.pc + 1 + 0 = (k + 1) + 1 BY <3>3, <2>b, <1>0
      <4>1. t = [pc |-> (k + 1) + 1, acc |-> s.acc, ret |-> s.ret] BY <3>1, <4>a
      <4>2. t \in S /\ t.pc = (k + 1) + 1 /\ t.acc = call.nr BY <4>1, <2>s, <2>b, <1>0
      <4>3. k + 1 \in 1..(n + 1) BY <1>0
      <4>4. ~Listed(blocked, call, k + 1)
        <5> SUFFICES ASSUME NEW j \in 1..n, j < k + 1 PROVE blocked[j] # call.nr
          BY DEF Listed
        <5>1. j = k \/ j < k BY <1>0
        <5> QED BY <5>1, <3>3, <2>b DEF Listed
      <4>5. DenyLocated(blocked, call, t) BY <4>2, <4>3, <4>4 DEF DenyLocated
      <4> QED BY <4>2, <4>5, <2>b, <1>0
    <3> QED BY <3>2, <3>3
  <2>c. CASE s.pc = n + 2 /\ ~Listed(blocked, call, n + 1)
    <3>1. t = [pc |-> 0, acc |-> s.acc, ret |-> Value("allow", 0)]
      BY <2>c, DenyShape, StepRet DEF t, P
    <3>2. t \in S /\ t.pc = 0 /\ t.ret = Value("allow", 0) BY <3>1, <2>s, <2>v, <1>0
    <3> QED BY <3>2, <2>c DEF DenyLocated, Denies
  <2>d. CASE s.pc = n + 3 /\ Listed(blocked, call, n + 1)
    <3>1. t = [pc |-> 0, acc |-> s.acc, ret |-> Value("errno", EPERM)]
      BY <2>d, DenyShape, StepRet DEF t, P
    <3>2. t \in S /\ t.pc = 0 /\ t.ret = Value("errno", EPERM) BY <3>1, <2>s, <2>v, <1>0
    <3> QED BY <3>2, <2>d DEF DenyLocated, Denies
  <2>e. ASSUME NEW k \in 1..(n + 1), s.pc = k + 1, s.acc = call.nr, ~Listed(blocked, call, k)
        PROVE  t \in I /\ (t.pc = 0 \/ t.pc > s.pc)
    <3>1. k \in 1..n \/ k = n + 1 BY <1>0
    <3>2. CASE k = n + 1
      <4>1. s.pc = n + 2 BY <2>e, <3>2, <1>0
      <4> QED BY <4>1, <2>c, <2>e, <3>2
    <3> QED BY <3>1, <3>2, <2>b, <2>e
  <2> HIDE DEF I, S
  <2> QED BY <2>s, <1>3, <2>a, <2>d, <2>e DEF DenyLocated
<1>4. PICK s \in I : s.pc = 0 /\ Verdict(P, call) = s.ret
  <2> HIDE DEF I
  <2> QED BY <1>0, <1>1, <1>2, <1>3, VerdictInduction
<1>5. Denies(blocked, call, s.ret)
  <2>1. DenyLocated(blocked, call, s) OBVIOUS
  <2> QED BY <1>0, <1>4, <2>1 DEF DenyLocated
<1> QED BY <1>4, <1>5 DEF P

=============================================================================
