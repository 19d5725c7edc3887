---------------------------- MODULE NetworkProofs ---------------------------
(***************************************************************************)
(* Container networks, for every set of containers, addresses and ports:   *)
(* what handlers that set up, fail, clean up and crash do to each other's  *)
(* leases, links and rules.                                                *)
(***************************************************************************)
EXTENDS Network, TLAPS

Before == {"start", "mkbridge", "braddr", "brup", "lease", "veth"}
Leased == {"veth", "config", "ports", "up", "unrule", "release"}
Linked == {"config", "ports", "up", "unrule", "release", "unlink"}

\* A handler knows its lease, which nobody else takes from it.
HoldsLease == \A c \in Containers : pc[c] \in Leased => leases[c] = ip[c] /\ ip[c] \in HostIPs

\* No address is leased twice.
OneLessee == \A c, d \in Containers : c # d /\ leases[c] # NoIP => leases[c] # leases[d]

\* A container has its link from AddVeth until LinkDel.
HoldsVeth ==
    \A c \in Containers :
        /\ pc[c] \in Before => c \notin veth
        /\ pc[c] \in Linked => c \in veth
        /\ pc[c] \in {"gone", "failed"} /\ c \notin botched => c \notin veth

\* Rules appear when the lease is held, and are gone, or known to be left, before
\* it is released.
HoldsRules ==
    /\ \A r \in rules :
        /\ pc[r[1]] \notin Before \cup {"config"}
        /\ pc[r[1]] = "release" => r[1] \in botched
        /\ pc[r[1]] = "failed" \/ r[1] \in botched \/ leases[r[1]] = r[2]
    /\ \A c \in Containers : pc[c] = "up" => \A p \in want[c] : <<c, ip[c], p>> \in rules

\* The steps of the handler of c.
Handler(c) ==
    \/ FindBridge(c) \/ MakeBridge(c) \/ BridgeError(c)
    \/ AllocateIP(c) \/ AllocateError(c) \/ AddVeth(c) \/ Configure(c)
    \/ AddRule(c) \/ SetupDone(c) \/ SetupError(c)
    \/ CleanupBegin(c) \/ RemoveRules(c) \/ CleanupRelease(c) \/ RemoveVeth(c)
    \/ Crash(c)

NetworkInv == TypeOK /\ HoldsLease /\ OneLessee /\ HoldsVeth /\ HoldsRules

\* NoIP is no host's address.
LEMMA NoIPFree == NoIP \notin HostIPs /\ NoIP = Table!NoIP /\ HostIPs = Table!HostIPs
BY DEF NoIP, HostIPs, Table!NoIP, Table!HostIPs

\* In the beginning nothing is set up.
LEMMA NetworkInit ==
    ASSUME Init
    PROVE  NetworkInv
<1> USE DEF Init, Table!Init
<1>1. TypeOK BY NoIPFree DEF TypeOK, Steps
<1>2. HoldsLease /\ OneLessee BY NoIPFree DEF HoldsLease, OneLessee, Leased
<1>3. HoldsVeth /\ HoldsRules BY DEF HoldsVeth, HoldsRules, Before, Linked
<1> QED BY <1>1, <1>2, <1>3 DEF NetworkInv

\* Every step of a handler keeps the types; the target of a rule is a host's
\* address because the handler holds a lease.
LEMMA HandlerTypes ==
    ASSUME TypeOK, HoldsLease, NEW c \in Containers, Handler(c)
    PROVE  TypeOK'
<1> USE NoIPFree DEF TypeOK, Goto, Steps
<1>1. CASE FindBridge(c) BY <1>1 DEF FindBridge
<1>2. CASE MakeBridge(c) BY <1>2 DEF MakeBridge
<1>3. CASE BridgeError(c) BY <1>3 DEF BridgeError
<1>4. CASE AllocateIP(c) BY <1>4 DEF AllocateIP, Table!Grant
<1>5. CASE AllocateError(c) BY <1>5 DEF AllocateError
<1>6. CASE AddVeth(c) BY <1>6 DEF AddVeth
<1>7. CASE Configure(c) BY <1>7 DEF Configure
<1>8. CASE AddRule(c)
  <2>1. PICK p \in want[c] : rules' = rules \cup {<<c, ip[c], p>>}
    BY <1>8 DEF AddRule, Unmapped
  <2>2. ip[c] \in HostIPs /\ p \in Ports BY <1>8 DEF AddRule, HoldsLease, Leased
  <2> QED BY <1>8, <2>1, <2>2 DEF AddRule
<1>9. CASE SetupDone(c) BY <1>9 DEF SetupDone
<1>10. CASE SetupError(c) BY <1>10 DEF SetupError, LinkDel, ReleaseIP, Table!Release
<1>11. CASE CleanupBegin(c) BY <1>11 DEF CleanupBegin
<1>12. CASE RemoveRules(c) BY <1>12 DEF RemoveRules, RulesOf
<1>13. CASE CleanupRelease(c) BY <1>13 DEF CleanupRelease, ReleaseIP, Table!Release
<1>14. CASE RemoveVeth(c) BY <1>14 DEF RemoveVeth, LinkDel
<1>15. CASE Crash(c) BY <1>15 DEF Crash
<1> QED BY <1>1, <1>2, <1>3, <1>4, <1>5, <1>6, <1>7, <1>8, <1>9, <1>10, <1>11, <1>12, <1>13,
           <1>14, <1>15 DEF Handler

\* A handler keeps its own lease, and takes no other's.
LEMMA HandlerLeases ==
    ASSUME TypeOK, HoldsLease, OneLessee, NEW c \in Containers, Handler(c)
    PROVE  HoldsLease' /\ OneLessee'
<1> USE NoIPFree DEF TypeOK, Goto, Leased, HoldsLease, OneLessee
<1>1. CASE FindBridge(c) BY <1>1 DEF FindBridge
<1>2. CASE MakeBridge(c) BY <1>2 DEF MakeBridge
<1>3. CASE BridgeError(c) BY <1>3 DEF BridgeError
<1>4. CASE AllocateIP(c)
  <2>1. PICK i \in HostIPs : Table!Grant(c, i) /\ ip' = [ip EXCEPT ![c] = i]
    BY <1>4 DEF AllocateIP
  <2>2. leases' = [leases EXCEPT ![c] = i] BY <2>1 DEF Table!Grant
  <2>3. ASSUME NEW d \in Containers, d # c PROVE leases[d] # i
    BY <2>1, <2>3 DEF Table!Grant, Table!Unleased
  <2>4. HoldsLease' BY <1>4, <2>1, <2>2 DEF AllocateIP
  <2>5. OneLessee' BY <2>2, <2>3
  <2> QED BY <2>4, <2>5
<1>5. CASE AllocateError(c) BY <1>5 DEF AllocateError
<1>6. CASE AddVeth(c) BY <1>6 DEF AddVeth
<1>7. CASE Configure(c) BY <1>7 DEF Configure
<1>8. CASE AddRule(c) BY <1>8 DEF AddRule
<1>9. CASE SetupDone(c) BY <1>9 DEF SetupDone
<1>10. CASE SetupError(c) BY <1>10 DEF SetupError, ReleaseIP, Table!Release
<1>11. CASE CleanupBegin(c) BY <1>11 DEF CleanupBegin
<1>12. CASE RemoveRules(c) BY <1>12 DEF RemoveRules
<1>13. CASE CleanupRelease(c) BY <1>13 DEF CleanupRelease, ReleaseIP, Table!Release
<1>14. CASE RemoveVeth(c) BY <1>14 DEF RemoveVeth
<1>15. CASE Crash(c) BY <1>15 DEF Crash
<1> QED BY <1>1, <1>2, <1>3, <1>4, <1>5, <1>6, <1>7, <1>8, <1>9, <1>10, <1>11, <1>12, <1>13,
           <1>14, <1>15 DEF Handler

\* Only the handler of c makes or deletes its link.
LEMMA HandlerVeths ==
    ASSUME TypeOK, HoldsVeth, NEW c \in Containers, Handler(c)
    PROVE  HoldsVeth'
<1> USE DEF TypeOK, Goto, Before, Linked, HoldsVeth
<1>1. CASE FindBridge(c) BY <1>1 DEF FindBridge
<1>2. CASE MakeBridge(c) BY <1>2 DEF MakeBridge
<1>3. CASE BridgeError(c) BY <1>3 DEF BridgeError
<1>4. CASE AllocateIP(c) BY <1>4 DEF AllocateIP
<1>5. CASE AllocateError(c) BY <1>5 DEF AllocateError
<1>6. CASE AddVeth(c) BY <1>6 DEF AddVeth
<1>7. CASE Configure(c) BY <1>7 DEF Configure
<1>8. CASE AddRule(c) BY <1>8 DEF AddRule
<1>9. CASE SetupDone(c) BY <1>9 DEF SetupDone
<1>10. CASE SetupError(c) BY <1>10 DEF SetupError, LinkDel
<1>11. CASE CleanupBegin(c) BY <1>11 DEF CleanupBegin
<1>12. CASE RemoveRules(c) BY <1>12 DEF RemoveRules
<1>13. CASE CleanupRelease(c) BY <1>13 DEF CleanupRelease
<1>14. CASE RemoveVeth(c) BY <1>14 DEF RemoveVeth, LinkDel
<1>15. CASE Crash(c) BY <1>15 DEF Crash
<1> QED BY <1>1, <1>2, <1>3, <1>4, <1>5, <1>6, <1>7, <1>8, <1>9, <1>10, <1>11, <1>12, <1>13,
           <1>14, <1>15 DEF Handler

\* Rules are added to a held lease only, and removed before it is released.
LEMMA HandlerRules ==
    ASSUME TypeOK, HoldsLease, HoldsRules, NEW c \in Containers, Handler(c)
    PROVE  HoldsRules'
<1> USE DEF TypeOK, Goto, Before, HoldsRules
<1>1. CASE FindBridge(c) BY <1>1 DEF FindBridge
<1>2. CASE MakeBridge(c) BY <1>2 DEF MakeBridge
<1>3. CASE BridgeError(c) BY <1>3 DEF BridgeError
<1>4. CASE AllocateIP(c) BY <1>4 DEF AllocateIP, Table!Grant
<1>5. CASE AllocateError(c) BY <1>5 DEF AllocateError
<1>6. CASE AddVeth(c) BY <1>6 DEF AddVeth
<1>7. CASE Configure(c) BY <1>7 DEF Configure
<1>8. CASE AddRule(c) BY <1>8 DEF AddRule, HoldsLease, Leased
<1>9. CASE SetupDone(c) BY <1>9 DEF SetupDone, Unmapped
<1>10. CASE SetupError(c) BY <1>10 DEF SetupError, LinkDel, ReleaseIP, Table!Release
<1>11. CASE CleanupBegin(c) BY <1>11 DEF CleanupBegin
<1>12. CASE RemoveRules(c) BY <1>12 DEF RemoveRules, RulesOf
<1>13. CASE CleanupRelease(c) BY <1>13 DEF CleanupRelease, ReleaseIP, Table!Release
<1>14. CASE RemoveVeth(c) BY <1>14 DEF RemoveVeth, LinkDel
<1>15. CASE Crash(c) BY <1>15 DEF Crash
<1> QED BY <1>1, <1>2, <1>3, <1>4, <1>5, <1>6, <1>7, <1>8, <1>9, <1>10, <1>11, <1>12, <1>13,
           <1>14, <1>15 DEF Handler

\* The invariant of all handlers together.
LEMMA NetworkAlways == Spec => []NetworkInv
<1>1. NetworkInv /\ [Next]_vars => NetworkInv'
  <2> SUFFICES ASSUME NetworkInv, [Next]_vars PROVE NetworkInv'
    OBVIOUS
  <2>1. ASSUME NEW c \in Containers, Handler(c) PROVE NetworkInv'
    BY <2>1, HandlerTypes, HandlerLeases, HandlerVeths, HandlerRules DEF NetworkInv
  <2>2. CASE UNCHANGED vars
    BY <2>2 DEF NetworkInv, TypeOK, HoldsLease, OneLessee, HoldsVeth, HoldsRules, vars
  <2> QED BY <2>1, <2>2 DEF Next, Handler, Done
<1> QED BY <1>1, NetworkInit, PTL DEF Spec

\* The network's state keeps its types: no rule has a target outside the subnet.
THEOREM NetworkTypes == Spec => []TypeOK
<1>1. NetworkInv => TypeOK BY DEF NetworkInv
<1> QED BY <1>1, NetworkAlways, PTL

\* SetupContainerNetwork is all or nothing for its caller: a container that is up
\* has lease, link and every rule, whatever other handlers do meanwhile.
THEOREM NetworksAreWired == Spec => []UpIsWired
<1>1. NetworkInv => UpIsWired
  BY DEF NetworkInv, UpIsWired, HoldsLease, HoldsVeth, HoldsRules, Leased, Linked
<1> QED BY <1>1, NetworkAlways, PTL

\* Cleanup removes the DNAT rules before ReleaseIP, so that a port reaches the
\* next owner of an address only by a rule a failure left.
THEOREM RulesDoNotStray == Spec => []RulesBeforeRelease
<1>1. ASSUME NetworkInv, NEW r \in rules, NEW d \in Containers, d # r[1], leases[d] = r[2]
      PROVE  pc[r[1]] = "failed" \/ r[1] \in botched
  <2>1. r[1] \in Containers /\ r[2] # NoIP BY <1>1, NoIPFree DEF NetworkInv, TypeOK
  <2>2. leases[r[1]] # r[2] BY <1>1, <2>1 DEF NetworkInv, OneLessee
  <2> QED BY <1>1, <2>2 DEF NetworkInv, HoldsRules
<1>2. NetworkInv => RulesBeforeRelease BY <1>1 DEF RulesBeforeRelease
<1> QED BY <1>2, NetworkAlways, PTL

\* Every error path of SetupContainerNetwork and Cleanup delete the host veth.
THEOREM NoLinkIsLeft == Spec => []NoVethLeft
<1>1. NetworkInv => NoVethLeft BY DEF NetworkInv, NoVethLeft, HoldsVeth
<1> QED BY <1>1, NetworkAlways, PTL

=============================================================================
