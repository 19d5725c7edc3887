------------------------------ MODULE Network -------------------------------
(***************************************************************************)
(* Container networks of pkg/network/network.go: the shared bridge, and    *)
(* for each container a lease, a veth pair and DNAT rules, set up by       *)
(* SetupContainerNetwork and taken down by Cleanup.  Handlers of the       *)
(* daemon and direct runs do this concurrently; iptables and netlink calls *)
(* may fail, and a handler may crash.  AllocateIP and ReleaseIP are the    *)
(* steps of the lease table that Ipam is shown to implement.               *)
(***************************************************************************)
EXTENDS Naturals

CONSTANTS
    Containers,
    LastHost,
    Ports        \* host ports a container may ask to forward

VARIABLES
    bridge,   \* "none", "made", "addr" (has its address) or "up"
    leases,   \* the lease table
    pc,       \* step of each container's handler
    want,     \* host ports of its port mappings
    ip,       \* containerIP, as the handler knows it
    veth,     \* containers that have their host veth
    rules,    \* DNAT rules: container that added it, its target, host port
    botched   \* containers for which deleting a veth or a rule failed

vars == <<bridge, leases, pc, want, ip, veth, rules, botched>>

Table == INSTANCE Leases WITH Clients <- Containers

NoIP == Table!NoIP
HostIPs == Table!HostIPs
Steps == {"start", "mkbridge", "braddr", "brup", "lease", "veth", "config",
          "ports", "up", "unrule", "release", "unlink", "gone", "failed", "crashed"}

TypeOK ==
    /\ bridge \in {"none", "made", "addr", "up"}
    /\ leases \in [Containers -> HostIPs \cup {NoIP}]
    /\ pc \in [Containers -> Steps]
    /\ want \in [Containers -> SUBSET Ports]
    /\ ip \in [Containers -> HostIPs \cup {NoIP}]
    /\ veth \subseteq Containers
    /\ rules \subseteq Containers \X HostIPs \X Ports
    /\ botched \subseteq Containers

Init ==
    /\ bridge = "none" /\ Table!Init
    /\ pc = [c \in Containers |-> "start"]
    /\ want \in [Containers -> SUBSET Ports]
    /\ ip = [c \in Containers |-> NoIP]
    /\ veth = {} /\ rules = {} /\ botched = {}

Goto(c, s) == pc' = [pc EXCEPT ![c] = s]
RulesOf(c) == {r \in rules : r[1] = c}

-----------------------------------------------------------------------------
(* EnsureBridge.                                                           *)

\* LinkByName: an existing bridge is taken as it is.
FindBridge(c) ==
    /\ pc[c] = "start"
    /\ Goto(c, IF bridge = "none" THEN "mkbridge" ELSE "lease")
    /\ UNCHANGED <<bridge, leases, want, ip, veth, rules, botched>>

\* LinkAdd, AddrAdd, LinkSetUp and the forwarding rules.
MakeBridge(c) ==
    /\ \/ pc[c] = "mkbridge" /\ bridge = "none" /\ bridge' = "made" /\ Goto(c, "braddr")
       \/ pc[c] = "braddr" /\ bridge' = "addr" /\ Goto(c, "brup")
       \/ pc[c] = "brup" /\ bridge' = "up" /\ Goto(c, "lease")
    /\ UNCHANGED <<leases, want, ip, veth, rules, botched>>

\* The name belongs to no bridge, or one of them fails, LinkAdd also when
\* another handler was faster.
BridgeError(c) ==
    /\ pc[c] \in {"start", "mkbridge", "braddr", "brup"}
    /\ Goto(c, "failed")
    /\ UNCHANGED <<bridge, leases, want, ip, veth, rules, botched>>

-----------------------------------------------------------------------------
(* SetupContainerNetwork.                                                  *)

\* Fault: the address that AllocateIP returned is dropped.
AllocateIPUnset(c) ==
    /\ pc[c] = "lease"
    /\ \E i \in HostIPs : Table!Grant(c, i)
    /\ Goto(c, "veth")
    /\ UNCHANGED <<bridge, want, ip, veth, rules, botched>>

AllocateIP(c) ==
    /\ pc[c] = "lease"
    /\ \E i \in HostIPs : Table!Grant(c, i) /\ ip' = [ip EXCEPT ![c] = i]
    /\ Goto(c, "veth")
    /\ UNCHANGED <<bridge, want, veth, rules, botched>>

\* No free address, or the state could not be read or saved.
AllocateError(c) ==
    /\ pc[c] = "lease"
    /\ Goto(c, "failed")
    /\ UNCHANGED <<bridge, leases, want, ip, veth, rules, botched>>

\* LinkAdd of the veth pair.
AddVeth(c) ==
    /\ pc[c] = "veth"
    /\ veth' = veth \cup {c}
    /\ Goto(c, "config")
    /\ UNCHANGED <<bridge, leases, want, ip, rules, botched>>

\* LinkSetUp, the move of the peer and configureInNetns.
Configure(c) ==
    /\ pc[c] = "config"
    /\ Goto(c, "ports")
    /\ UNCHANGED <<bridge, leases, want, ip, veth, rules, botched>>

\* The mappings applyPortForwarding has not applied yet.
Unmapped(c) == {p \in want[c] : <<c, ip[c], p>> \notin rules}

\* applyPortForwarding, one mapping.
AddRule(c) ==
    /\ pc[c] = "ports"
    /\ \E p \in Unmapped(c) : rules' = rules \cup {<<c, ip[c], p>>}
    /\ UNCHANGED <<bridge, leases, pc, want, ip, veth, botched>>

\* All mappings are applied; resolv.conf is injected.
SetupDone(c) ==
    /\ pc[c] = "ports" /\ Unmapped(c) = {}
    /\ Goto(c, "up")
    /\ UNCHANGED <<bridge, leases, want, ip, veth, rules, botched>>

\* ReleaseIP and LinkDel of the host veth, whose errors every caller ignores.
ReleaseIP(c) == leases' = leases \/ Table!Release(c)
LinkDel(c) ==
    \/ veth' = veth \ {c} /\ botched' = botched
    \/ c \in veth /\ veth' = veth /\ botched' = botched \cup {c}

\* Fault: the veth is left.
SetupErrorLinked(c) ==
    /\ pc[c] \in {"veth", "config"} \/ (pc[c] = "ports" /\ Unmapped(c) # {})
    /\ ReleaseIP(c)
    /\ Goto(c, "failed")
    /\ UNCHANGED <<bridge, want, ip, veth, rules, botched>>

\* An error after the lease: the veth is deleted and the lease released; DNAT
\* rules of mappings before the failing one stay.
SetupError(c) ==
    /\ pc[c] \in {"veth", "config"} \/ (pc[c] = "ports" /\ Unmapped(c) # {})
    /\ LinkDel(c)
    /\ ReleaseIP(c)
    /\ Goto(c, "failed")
    /\ UNCHANGED <<bridge, want, ip, rules>>

-----------------------------------------------------------------------------
(* Cleanup.                                                                *)

\* GetIP; without an answer rules and lease are skipped.
CleanupBegin(c) ==
    /\ pc[c] = "up"
    /\ \E known \in BOOLEAN : Goto(c, IF known THEN "unrule" ELSE "unlink")
    /\ UNCHANGED <<bridge, leases, want, ip, veth, rules, botched>>

\* Fault: rules are deleted by host port, whoever's they are.
RemoveRulesByPort(c) ==
    /\ pc[c] = "unrule"
    /\ rules' = {r \in rules : r[3] \notin want[c]}
    /\ Goto(c, "release")
    /\ UNCHANGED <<bridge, leases, want, ip, veth, botched>>

\* Fault: the lease is given back first.
RemoveRulesLate(c) ==
    /\ pc[c] = "unrule"
    /\ Table!Release(c)
    /\ Goto(c, "release")
    /\ UNCHANGED <<bridge, want, ip, veth, rules, botched>>

\* removePortForwarding: iptables -D of every mapping, its errors ignored.
RemoveRules(c) ==
    /\ pc[c] = "unrule"
    /\ \E left \in SUBSET RulesOf(c) :
        /\ rules' = (rules \ RulesOf(c)) \cup left
        /\ botched' = IF left = {} THEN botched ELSE botched \cup {c}
    /\ Goto(c, "release")
    /\ UNCHANGED <<bridge, leases, want, ip, veth>>

CleanupRelease(c) ==
    /\ pc[c] = "release"
    /\ ReleaseIP(c)
    /\ Goto(c, "unlink")
    /\ UNCHANGED <<bridge, want, ip, veth, rules, botched>>

\* The host veth is deleted.
RemoveVeth(c) ==
    /\ pc[c] = "unlink"
    /\ LinkDel(c)
    /\ Goto(c, "gone")
    /\ UNCHANGED <<bridge, leases, want, ip, rules>>

\* The handler's process dies; nothing of the network is undone.
Crash(c) ==
    /\ pc[c] \notin {"start", "gone", "failed", "crashed"}
    /\ Goto(c, "crashed")
    /\ UNCHANGED <<bridge, leases, want, ip, veth, rules, botched>>

Done ==
    /\ \A c \in Containers : pc[c] \in {"gone", "failed", "crashed"}
    /\ UNCHANGED vars

Next ==
    \/ \E c \in Containers :
        \/ FindBridge(c) \/ MakeBridge(c) \/ BridgeError(c)
        \/ AllocateIP(c) \/ AllocateError(c) \/ AddVeth(c) \/ Configure(c)
        \/ AddRule(c) \/ SetupDone(c) \/ SetupError(c)
        \/ CleanupBegin(c) \/ RemoveRules(c) \/ CleanupRelease(c) \/ RemoveVeth(c)
        \/ Crash(c)
    \/ Done

Spec == Init /\ [][Next]_vars

-----------------------------------------------------------------------------
(* Properties.                                                             *)

\* A container whose network is up has, on its own address, its veth and every
\* mapping it asked for, whatever other handlers set up, undo or leave behind.
UpIsWired ==
    \A c \in Containers : pc[c] = "up" =>
        /\ leases[c] = ip[c] /\ c \in veth
        /\ \A p \in want[c] : <<c, ip[c], p>> \in rules

\* A rule sends a host port to another container's address only if it is left
\* over from a failed set-up or a failed iptables -D: clean-up removes rules
\* before it frees the address, and a crash frees none.
RulesBeforeRelease ==
    \A r \in rules, d \in Containers :
        d # r[1] /\ leases[d] = r[2] => pc[r[1]] = "failed" \/ r[1] \in botched

\* A handler that is through, by a failed set-up at any step or by clean-up,
\* left a veth only where deleting it failed.
NoVethLeft == \A c \in Containers :
    pc[c] \in {"gone", "failed"} /\ c \notin botched => c \notin veth

\* "tears down the iptables DNAT rules when the container terminates": a rule
\* points to the address of the container it was added for.
RulesOwned == \A r \in rules : leases[r[1]] = r[2]

=============================================================================
