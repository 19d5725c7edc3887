------------------------------- MODULE Leases -------------------------------
(***************************************************************************)
(* What the address manager promises: a table of leases that changes one   *)
(* container at a time, by the grant of the lowest address nobody has or   *)
(* by a release.  No lock, no file, no failure.                            *)
(***************************************************************************)
EXTENDS Naturals

CONSTANTS Clients, LastHost
VARIABLE leases

NoIP == 0
HostIPs == 2..LastHost

Init == leases = [c \in Clients |-> NoIP]

Unleased == {i \in HostIPs : \A c \in Clients : leases[c] # i}

Grant(c, i) ==
    /\ leases[c] = NoIP
    /\ i \in Unleased /\ \A j \in Unleased : i <= j
    /\ leases' = [leases EXCEPT ![c] = i]

Release(c) ==
    /\ leases[c] # NoIP
    /\ leases' = [leases EXCEPT ![c] = NoIP]

Next == \E c \in Clients : Release(c) \/ \E i \in HostIPs : Grant(c, i)

Spec == Init /\ [][Next]_leases

=============================================================================
