----------------------------- MODULE WorkerLife -----------------------------
(***************************************************************************)
(* What the pool promises about a worker, without channel, lock or host: a *)
(* worker is built by one goroutine, may wait idle, is leased to one job   *)
(* and is gone when that job ends.  A leased worker never comes back.      *)
(***************************************************************************)
CONSTANT Workers
VARIABLE life

Lives == {"absent", "building", "idle", "leased"}

Init == life = [w \in Workers |-> "absent"]

Become(w, from, to) ==
    /\ life[w] = from
    /\ life' = [life EXCEPT ![w] = to]

\* spawnWorker starts; fails; succeeds for the pool; succeeds for a handler.
Build(w)   == Become(w, "absent", "building")
Abandon(w) == Become(w, "building", "absent")
Stock(w)   == Become(w, "building", "idle")
Deliver(w) == Become(w, "building", "leased")

\* A handler takes an idle worker; Close destroys one; a job ends.
Lease(w)   == Become(w, "idle", "leased")
Discard(w) == Become(w, "idle", "absent")
Retire(w)  == Become(w, "leased", "absent")

Next == \E w \in Workers :
    \/ Build(w) \/ Abandon(w) \/ Stock(w) \/ Deliver(w)
    \/ Lease(w) \/ Discard(w) \/ Retire(w)

Spec == Init /\ [][Next]_life

=============================================================================
