-------------------------------- MODULE Ipam --------------------------------
(***************************************************************************)
(* Address leases of pkg/network/ipam.go.  Every call locks a file, loads  *)
(* the lease table from the state file, and commits a changed one by       *)
(* writing a temporary file and renaming it.  Callers are the handlers of  *)
(* containers, in the daemon and in direct runs; each call makes its own   *)
(* IPAM, so that flock alone orders them.  A caller may crash at any step. *)
(***************************************************************************)
EXTENDS Naturals

CONSTANTS
    Clients,    \* container ids
    LastHost    \* last host number of the subnet, 254 in the code

ASSUME LastHostAssumption == LastHost \in Nat

NoIP == 0
Gateway == 1
HostIPs == 2..LastHost
Tables == [Clients -> HostIPs \cup {NoIP}]
Ops == {"allocate", "release", "get"}
Locked == {"load", "write", "rename", "unlock"}
Nobody == {}

VARIABLES
    file,     \* state.Allocations in the state file
    tmp,      \* the temporary file (Empty also when there is none)
    torn,     \* which of "file" and "tmp" are half written
    holder,   \* the caller that has the flock, as a set
    pc, op,   \* each caller's step and the method it runs
    mem,      \* the table it loaded and changed
    ip        \* the address its container uses

vars == <<file, tmp, torn, holder, pc, op, mem, ip>>

TypeOK ==
    /\ file \in Tables
    /\ tmp \in Tables
    /\ torn \subseteq {"file", "tmp"}
    /\ holder \subseteq Clients
    /\ pc \in [Clients -> Locked \cup {"idle", "wait"}]
    /\ op \in [Clients -> Ops]
    /\ mem \in [Clients -> Tables]
    /\ ip \in [Clients -> HostIPs \cup {NoIP}]

Empty == [c \in Clients |-> NoIP]

Init ==
    /\ file = Empty /\ tmp = Empty /\ torn = {} /\ holder = Nobody
    /\ pc = [c \in Clients |-> "idle"]
    /\ op = [c \in Clients |-> "get"]
    /\ mem = [c \in Clients |-> Empty]
    /\ ip = Empty

Goto(c, s) == pc' = [pc EXCEPT ![c] = s]

-----------------------------------------------------------------------------
\* AllocateIP, ReleaseIP or GetIP is called and opens the lock file.
Call(c) ==
    /\ pc[c] = "idle"
    /\ \E o \in Ops : op' = [op EXCEPT ![c] = o]
    /\ Goto(c, "wait")
    /\ UNCHANGED <<file, tmp, torn, holder, mem, ip>>

\* Fault: the lock is shared, not exclusive.
LockShared(c) ==
    /\ pc[c] = "wait"
    /\ holder' = holder \cup {c}
    /\ Goto(c, "load")
    /\ UNCHANGED <<file, tmp, torn, op, mem, ip>>

\* flock LOCK_EX.
Lock(c) ==
    /\ pc[c] = "wait" /\ holder = Nobody
    /\ holder' = {c}
    /\ Goto(c, "load")
    /\ UNCHANGED <<file, tmp, torn, op, mem, ip>>

\* The lock or the state file cannot be opened or parsed; the deferred unlock.
\* The method has no effect and its caller no address from it.
Fail(c) ==
    /\ pc[c] \in {"wait", "load"}
    /\ holder' = holder \ {c}
    /\ Goto(c, "idle")
    /\ ip' = [ip EXCEPT ![c] = NoIP]
    /\ mem' = [mem EXCEPT ![c] = Empty]
    /\ UNCHANGED <<file, tmp, torn, op>>

Unleased == {i \in HostIPs : \A c \in Clients : file[c] # i}

\* Fault: the search begins at the gateway.
LoadGrantGateway(c) ==
    /\ pc[c] = "load" /\ op[c] = "allocate" /\ "file" \notin torn
    /\ file[c] = NoIP
    /\ mem' = [mem EXCEPT ![c] = [file EXCEPT ![c] = Gateway]]
    /\ Goto(c, "write")
    /\ UNCHANGED <<file, tmp, torn, holder, op, ip>>

\* Fault: an address is used when the next higher one is.
LoadGrantShifted(c) ==
    /\ pc[c] = "load" /\ op[c] = "allocate" /\ "file" \notin torn
    /\ file[c] = NoIP
    /\ \E i \in HostIPs :
        /\ i + 1 \notin {file[d] : d \in Clients}
        /\ mem' = [mem EXCEPT ![c] = [file EXCEPT ![c] = i]]
    /\ Goto(c, "write")
    /\ UNCHANGED <<file, tmp, torn, holder, op, ip>>

\* AllocateIP with no lease yet: the lowest free host, never the gateway.
LoadGrant(c) ==
    /\ pc[c] = "load" /\ op[c] = "allocate" /\ "file" \notin torn
    /\ file[c] = NoIP
    /\ \E i \in Unleased \ {Gateway} :
        /\ \A j \in Unleased : i <= j
        /\ mem' = [mem EXCEPT ![c] = [file EXCEPT ![c] = i]]
    /\ Goto(c, "write")
    /\ UNCHANGED <<file, tmp, torn, holder, op, ip>>

\* No free host: the subnet is exhausted.
LoadExhausted(c) ==
    /\ pc[c] = "load" /\ op[c] = "allocate" /\ "file" \notin torn
    /\ file[c] = NoIP /\ Unleased = {}
    /\ ip' = [ip EXCEPT ![c] = NoIP]
    /\ Goto(c, "unlock")
    /\ UNCHANGED <<file, tmp, torn, holder, op, mem>>

\* AllocateIP finds the container's lease, or GetIP looks it up.
LoadKnown(c) ==
    /\ pc[c] = "load" /\ "file" \notin torn
    /\ op[c] = "get" \/ (op[c] = "allocate" /\ file[c] # NoIP)
    /\ ip' = [ip EXCEPT ![c] = file[c]]
    /\ Goto(c, "unlock")
    /\ UNCHANGED <<file, tmp, torn, holder, op, mem>>

\* ReleaseIP: nothing to save when there is no lease.
LoadRelease(c) ==
    /\ pc[c] = "load" /\ op[c] = "release" /\ "file" \notin torn
    /\ mem' = [mem EXCEPT ![c] = [file EXCEPT ![c] = NoIP]]
    /\ ip' = [ip EXCEPT ![c] = NoIP]
    /\ Goto(c, IF file[c] = NoIP THEN "unlock" ELSE "write")
    /\ UNCHANGED <<file, tmp, torn, holder, op>>

\* saveState: the temporary file is written.
WriteTmp(c) ==
    /\ pc[c] = "write"
    /\ tmp' = mem[c] /\ torn' = torn \ {"tmp"}
    /\ Goto(c, "rename")
    /\ UNCHANGED <<file, holder, op, mem, ip>>

\* saveState: rename commits the temporary file, whatever is in it.
Rename(c) ==
    /\ pc[c] = "rename"
    /\ file' = tmp /\ tmp' = Empty
    /\ torn' = IF "tmp" \in torn THEN {"file"} ELSE {}
    /\ ip' = [ip EXCEPT ![c] = mem[c][c]]
    /\ Goto(c, "unlock")
    /\ UNCHANGED <<holder, op, mem>>

\* Fault: the result of writing the temporary file is not looked at.
SaveErrorIgnored(c) ==
    /\ pc[c] = "write" /\ torn' = torn \cup {"tmp"}
    /\ Goto(c, "rename")
    /\ UNCHANGED <<file, tmp, holder, op, mem, ip>>

\* Writing fails, or renaming, after which the temporary file is removed: an
\* error, and no address for an allocation.
SaveError(c) ==
    /\ \/ pc[c] = "write" /\ torn' = torn \cup {"tmp"} /\ tmp' = tmp
       \/ pc[c] = "rename" /\ torn' = torn \ {"tmp"} /\ tmp' = Empty
    /\ ip' = [ip EXCEPT ![c] = NoIP]
    /\ Goto(c, "unlock")
    /\ UNCHANGED <<file, holder, op, mem>>

Unlock(c) ==
    /\ pc[c] = "unlock"
    /\ holder' = holder \ {c}
    /\ Goto(c, "idle")
    /\ mem' = [mem EXCEPT ![c] = Empty]
    /\ UNCHANGED <<file, tmp, torn, op, ip>>

\* The caller's process dies: the kernel drops the lock, what is on disk stays.
Crash(c) ==
    /\ pc[c] # "idle"
    /\ torn' = IF pc[c] = "write" THEN torn \cup {"tmp"} ELSE torn
    /\ holder' = holder \ {c}
    /\ ip' = [ip EXCEPT ![c] = NoIP]
    /\ Goto(c, "idle")
    /\ mem' = [mem EXCEPT ![c] = Empty]
    /\ UNCHANGED <<file, tmp, op>>

Next == \E c \in Clients :
    \/ Call(c) \/ Lock(c) \/ Fail(c)
    \/ LoadGrant(c) \/ LoadExhausted(c) \/ LoadKnown(c) \/ LoadRelease(c)
    \/ WriteTmp(c) \/ Rename(c) \/ SaveError(c) \/ Unlock(c) \/ Crash(c)

Spec == Init /\ [][Next]_vars

-----------------------------------------------------------------------------
(* Properties.                                                             *)

\* No address is leased to two containers.
UniqueLeases ==
    \A a, b \in Clients : file[a] = file[b] /\ file[a] # NoIP => a = b

\* A container that was given an address has it in the table: no concurrent
\* call overwrote the update that granted it.
GivenIsLeased ==
    \A c \in Clients : ip[c] # NoIP /\ pc[c] = "idle" => file[c] = ip[c]

\* A crash or a full disk never leaves a state file that does not parse: a
\* half written temporary file is overwritten before anyone renames it.
StateFileWhole == "file" \notin torn

\* The state file changes as the abstract lease table does.
Table == INSTANCE Leases WITH leases <- file
ImplementsLeases == Table!Spec

=============================================================================
