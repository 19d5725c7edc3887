----------------------------- MODULE IpamProofs -----------------------------
(***************************************************************************)
(* Proofs about Ipam, for every set of containers and size of the subnet.  *)
(***************************************************************************)
EXTENDS Ipam, TLAPS

\* flock has one holder, the caller that is inside a method.
OneHolder ==
    /\ \A c \in Clients : pc[c] \in Locked <=> c \in holder
    /\ \A a, b \in holder : a = b

\* What a caller may commit: its own lease, granted or released.
GrantOf(c, t) ==
    /\ file[c] = NoIP
    /\ \E i \in Unleased :
        (\A j \in Unleased : i <= j) /\ t = [file EXCEPT ![c] = i]
ReleaseOf(c, t) == file[c] # NoIP /\ t = [file EXCEPT ![c] = NoIP]

\* A caller about to save works on the table that is in the file, and the
\* temporary file it is about to rename is its own and whole.
Fresh ==
    \A c \in Clients :
        /\ pc[c] \in {"write", "rename"} => GrantOf(c, mem[c]) \/ ReleaseOf(c, mem[c])
        /\ pc[c] = "rename" => tmp = mem[c] /\ "tmp" \notin torn

\* An address in use is the one in the table, at every step of a call.
Given == \A c \in Clients : ip[c] # NoIP => file[c] = ip[c]

IpamInv ==
    /\ TypeOK /\ OneHolder /\ Fresh
    /\ UniqueLeases /\ Given /\ StateFileWhole

\* Init establishes the invariant: nobody calls and nothing is leased.
LEMMA IpamInit ==
    ASSUME Init
    PROVE  IpamInv
  BY DEF Init, IpamInv, TypeOK, OneHolder, Fresh, UniqueLeases, Given,
         StateFileWhole, Empty, Nobody, Tables, Locked, Ops, NoIP

\* Every step keeps the types.
LEMMA TypeStep ==
    ASSUME TypeOK, [Next]_vars
    PROVE  TypeOK'
<1> USE DEF TypeOK, Goto, Locked, Ops
<1>0. Empty \in Tables BY DEF Empty, Tables
<1>1. ASSUME NEW c \in Clients, Call(c) \/ Lock(c) PROVE TypeOK'
  <2>1. CASE Call(c) BY <2>1 DEF Call
  <2>2. CASE Lock(c) BY <2>2 DEF Lock
  <2> QED BY <1>1, <2>1, <2>2
<1>2. ASSUME NEW c \in Clients, Fail(c) \/ Unlock(c) \/ Crash(c) PROVE TypeOK'
  <2>1. CASE Fail(c) BY <1>0, <2>1 DEF Fail
  <2>2. CASE Unlock(c) BY <1>0, <2>2 DEF Unlock
  <2>3. CASE Crash(c) BY <1>0, <2>3 DEF Crash
  <2> QED BY <1>2, <2>1, <2>2, <2>3
<1>3. ASSUME NEW c \in Clients, LoadGrant(c) PROVE TypeOK'
  <2>1. PICK i \in HostIPs : mem' = [mem EXCEPT ![c] = [file EXCEPT ![c] = i]]
    BY <1>3 DEF LoadGrant, Unleased
  <2>2. [file EXCEPT ![c] = i] \in Tables BY DEF Tables
  <2> QED BY <1>3, <2>1, <2>2 DEF LoadGrant
<1>4. ASSUME NEW c \in Clients, LoadRelease(c) PROVE TypeOK'
  <2>1. [file EXCEPT ![c] = NoIP] \in Tables BY DEF Tables
  <2> QED BY <1>4, <2>1 DEF LoadRelease
<1>5. ASSUME NEW c \in Clients, LoadExhausted(c) \/ LoadKnown(c) PROVE TypeOK'
  BY <1>5 DEF LoadExhausted, LoadKnown, Tables
<1>6. ASSUME NEW c \in Clients, WriteTmp(c) PROVE TypeOK'
  BY <1>6 DEF WriteTmp
<1>7. ASSUME NEW c \in Clients, Rename(c) PROVE TypeOK'
  <2>1. mem[c][c] \in HostIPs \cup {NoIP} BY DEF Tables
  <2> QED BY <1>0, <1>7, <2>1 DEF Rename
<1>8. ASSUME NEW c \in Clients, SaveError(c) PROVE TypeOK'
  BY <1>0, <1>8 DEF SaveError
<1>9. CASE UNCHANGED vars BY <1>9 DEF vars
<1> QED BY <1>1, <1>2, <1>3, <1>4, <1>5, <1>6, <1>7, <1>8, <1>9 DEF Next

\* Every step keeps the lock with one caller.
LEMMA HolderStep ==
    ASSUME TypeOK, OneHolder, [Next]_vars
    PROVE  OneHolder'
<1> USE DEF TypeOK, OneHolder, Goto, Locked, Nobody
<1>1. ASSUME NEW c \in Clients, Call(c) \/ Lock(c) PROVE OneHolder'
  BY <1>1 DEF Call, Lock
<1>2. ASSUME NEW c \in Clients, Fail(c) \/ Unlock(c) \/ Crash(c) PROVE OneHolder'
  BY <1>2 DEF Fail, Unlock, Crash
<1>3. ASSUME NEW c \in Clients, LoadGrant(c) \/ LoadRelease(c) \/ LoadExhausted(c)
             \/ LoadKnown(c)
      PROVE  OneHolder'
  BY <1>3 DEF LoadGrant, LoadRelease, LoadExhausted, LoadKnown
<1>4. ASSUME NEW c \in Clients, WriteTmp(c) \/ Rename(c) \/ SaveError(c) PROVE OneHolder'
  BY <1>4 DEF WriteTmp, Rename, SaveError
<1>5. CASE UNCHANGED vars BY <1>5 DEF vars
<1> QED BY <1>1, <1>2, <1>3, <1>4, <1>5 DEF Next

\* While one caller saves, no other one changes the file or the temporary file.
LEMMA FreshStep ==
    ASSUME TypeOK, OneHolder, Fresh, [Next]_vars
    PROVE  Fresh'
<1> USE DEF TypeOK, OneHolder, Fresh, GrantOf, ReleaseOf, Unleased, Goto, Locked, Nobody
<1>1. ASSUME NEW c \in Clients, Call(c) \/ Lock(c) PROVE Fresh'
  BY <1>1 DEF Call, Lock
<1>2. ASSUME NEW c \in Clients, Fail(c) \/ Unlock(c) \/ Crash(c) PROVE Fresh'
  BY <1>2 DEF Fail, Unlock, Crash
<1>3. ASSUME NEW c \in Clients, LoadGrant(c) PROVE Fresh'
  <2>1. PICK i \in Unleased : /\ \A j \in Unleased : i <= j
                              /\ mem' = [mem EXCEPT ![c] = [file EXCEPT ![c] = i]]
    BY <1>3 DEF LoadGrant
  <2>2. mem'[c] = [file EXCEPT ![c] = i] BY <2>1
  <2>3. file' = file /\ file[c] = NoIP /\ pc'[c] = "write"
    BY <1>3 DEF LoadGrant
  <2>4. GrantOf(c, mem[c])' BY <2>1, <2>2, <2>3 DEF GrantOf, Unleased
  <2>5. \A d \in Clients : d # c => pc'[d] \notin {"write", "rename"}
    BY <1>3 DEF LoadGrant
  <2> QED BY <2>3, <2>4, <2>5
<1>4. ASSUME NEW c \in Clients, LoadRelease(c) PROVE Fresh'
  <2>1. file' = file /\ mem'[c] = [file EXCEPT ![c] = NoIP] /\ pc'[c] # "rename"
    BY <1>4 DEF LoadRelease
  <2>2. pc'[c] = "write" => file[c] # NoIP BY <1>4 DEF LoadRelease
  <2>3. pc'[c] = "write" => ReleaseOf(c, mem[c])' BY <2>1, <2>2 DEF ReleaseOf
  <2>4. \A d \in Clients : d # c => pc'[d] \notin {"write", "rename"}
    BY <1>4 DEF LoadRelease
  <2> QED BY <2>1, <2>3, <2>4
<1>5. ASSUME NEW c \in Clients, LoadExhausted(c) \/ LoadKnown(c) \/ SaveError(c) PROVE Fresh'
  BY <1>5 DEF LoadExhausted, LoadKnown, SaveError
<1>6. ASSUME NEW c \in Clients, WriteTmp(c) PROVE Fresh'
  BY <1>6 DEF WriteTmp
<1>7. ASSUME NEW c \in Clients, Rename(c) PROVE Fresh'
  <2>1. \A d \in Clients : pc'[d] \notin {"write", "rename"}
    BY <1>7 DEF Rename
  <2> QED BY <2>1
<1>8. CASE UNCHANGED vars BY <1>8 DEF vars
<1> QED BY <1>1, <1>2, <1>3, <1>4, <1>5, <1>6, <1>7, <1>8 DEF Next

\* The file changes by a rename only, and then as the caller's change says.
LEMMA FileStep ==
    ASSUME TypeOK, Fresh, [Next]_vars
    PROVE  \/ file' = file
           \/ \E c \in Clients : GrantOf(c, file') \/ ReleaseOf(c, file')
<1>1. ASSUME NEW c \in Clients, Rename(c) PROVE GrantOf(c, file') \/ ReleaseOf(c, file')
  BY <1>1 DEF Rename, Fresh
<1> QED BY <1>1 DEF Next, vars, Call, Lock, Fail, LoadGrant, LoadExhausted,
        LoadKnown, LoadRelease, WriteTmp, SaveError, Unlock, Crash

\* Neither kind of change leases an address twice.
LEMMA UniqueStep ==
    ASSUME TypeOK, TypeOK', Fresh, UniqueLeases, [Next]_vars
    PROVE  UniqueLeases'
<1>1. CASE file' = file BY <1>1 DEF UniqueLeases
<1>2. ASSUME NEW c \in Clients, GrantOf(c, file') PROVE UniqueLeases'
  BY <1>2 DEF GrantOf, Unleased, UniqueLeases, TypeOK, Tables
<1>3. ASSUME NEW c \in Clients, ReleaseOf(c, file') PROVE UniqueLeases'
  BY <1>3 DEF ReleaseOf, UniqueLeases, TypeOK, Tables
<1> QED BY <1>1, <1>2, <1>3, FileStep

\* A commit changes no other container's lease, and its own as it is told.
LEMMA GivenStep ==
    ASSUME TypeOK, Fresh, Given, [Next]_vars
    PROVE  Given'
<1> USE DEF TypeOK, Given
<1>1. ASSUME NEW c \in Clients, Rename(c) PROVE Given'
  <2>1. file' = mem[c] /\ ip' = [ip EXCEPT ![c] = mem[c][c]]
    BY <1>1 DEF Rename, Fresh
  <2>2. \A d \in Clients : d # c => mem[c][d] = file[d]
    BY <1>1 DEF Rename, Fresh, GrantOf, ReleaseOf, Tables
  <2> QED BY <2>1, <2>2
<1>2. ASSUME NEW c \in Clients, LoadKnown(c) PROVE Given'
  BY <1>2 DEF LoadKnown
<1>3. ASSUME file' = file, \A c \in Clients : ip'[c] = ip[c] \/ ip'[c] = NoIP
      PROVE  Given'
  BY <1>3
<1>4. ASSUME NEW c \in Clients, Fail(c) \/ LoadExhausted(c) \/ LoadRelease(c)
             \/ SaveError(c) \/ Crash(c)
      PROVE  Given'
  BY <1>3, <1>4 DEF Fail, LoadExhausted, LoadRelease, SaveError, Crash
<1>5. CASE UNCHANGED <<file, ip>> BY <1>3, <1>5
<1> QED BY <1>1, <1>2, <1>4, <1>5
        DEF Next, vars, Call, Lock, LoadGrant, WriteTmp, Unlock

\* The state file is only ever replaced by a whole temporary file.
LEMMA WholeStep ==
    ASSUME Fresh, StateFileWhole, [Next]_vars
    PROVE  StateFileWhole'
  BY DEF Fresh, StateFileWhole, Next, vars, Call, Lock, Fail, LoadGrant, LoadExhausted,
         LoadKnown, LoadRelease, WriteTmp, Rename, SaveError, Unlock, Crash

\* The invariant holds in every reachable state.
THEOREM IpamInvariant == Spec => []IpamInv
<1>1. IpamInv /\ [Next]_vars => IpamInv'
  BY TypeStep, HolderStep, FreshStep, UniqueStep, GivenStep, WholeStep
     DEF IpamInv
<1> QED BY IpamInit, <1>1, PTL DEF Spec

\* The state file, its temporary copy and every client's table are tables.
THEOREM IpamTypes == Spec => []TypeOK
  BY IpamInvariant, PTL DEF IpamInv

\* No address is ever leased to two containers, whoever crashes at which step.
THEOREM LeasesUnique == Spec => []UniqueLeases
  BY IpamInvariant, PTL DEF IpamInv

\* A container's address stays in the table until the container gives it back.
THEOREM GivenStaysLeased == Spec => []GivenIsLeased
<1>1. IpamInv => GivenIsLeased BY DEF IpamInv, Given, GivenIsLeased
<1> QED BY IpamInvariant, <1>1, PTL

\* The state file always parses.
THEOREM FileWhole == Spec => []StateFileWhole
  BY IpamInvariant, PTL DEF IpamInv

\* The state file implements the abstract lease table.
THEOREM RefinesLeases == Spec => ImplementsLeases
<1>1. Init => Table!Init
  BY DEF Init, Empty, Table!Init, NoIP, Table!NoIP
<1>2. IpamInv /\ [Next]_vars => [Table!Next]_file
  <2> SUFFICES ASSUME IpamInv, [Next]_vars PROVE [Table!Next]_file
    OBVIOUS
  <2> USE DEF IpamInv, TypeOK, Tables, NoIP, Table!NoIP, HostIPs, Table!HostIPs
  <2>1. ASSUME NEW c \in Clients, GrantOf(c, file') PROVE Table!Next
    BY <2>1 DEF GrantOf, Unleased, Table!Next, Table!Grant, Table!Unleased
  <2>2. ASSUME NEW c \in Clients, ReleaseOf(c, file') PROVE Table!Next
    BY <2>2 DEF ReleaseOf, Table!Next, Table!Release
  <2> QED BY <2>1, <2>2, FileStep
<1> QED BY <1>1, <1>2, IpamInvariant, PTL DEF Spec, ImplementsLeases, Table!Spec

=============================================================================
