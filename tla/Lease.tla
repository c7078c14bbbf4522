-------------------------------- MODULE Lease --------------------------------
(***************************************************************************)
(* The lease record of package lease and the pure functions the guardian   *)
(* server applies to it: expiry, decay, the sort order of a lease set, and *)
(* the activation test of package leaseutil.                               *)
(*                                                                         *)
(* Times are naturals; 0 is Go's zero time, so a clock starts at 1.  A     *)
(* lease set is a function from instances to leases (every operation of    *)
(* the code keeps the instances of a set distinct); an instance that has   *)
(* no lease is mapped to NoLease, whose status sorts after every other.    *)
(***************************************************************************)
EXTENDS Naturals

Statuses == {"none", "active", "released", "queued"}

\* The policy fields a lease carries: limit, duration and decay.
Policy == [limit : Nat, duration : Nat, decay : Nat]

LeaseType == [status : Statuses, started : Nat, renewed : Nat, released : Nat,
              policy : Policy]

NoLease == [status |-> "none", started |-> 0, renewed |-> 0, released |-> 0,
            policy |-> [limit |-> 0, duration |-> 0, decay |-> 0]]

Order(status) ==
    CASE status = "active"   -> 0
      [] status = "released" -> 1
      [] status = "queued"   -> 2
      [] OTHER               -> 3

\* A lease that counts against the resource: active, or released and decaying.
Consumptive(ls) == ls.status \in {"active", "released"}

ExpirationTime(ls) == ls.renewed + ls.policy.duration

Expired(ls, at) == at > ExpirationTime(ls)

DecayTime(ls) ==
    (IF ls.released # 0 THEN ls.released ELSE ExpirationTime(ls)) + ls.policy.decay

Decayed(ls, at) == at > DecayTime(ls)

\* Released leases: the one that decays last first, then the oldest release.
ReleasedBefore(a, b) ==
    LET ea == a.released + a.policy.decay
        eb == b.released + b.policy.decay
    IN  \/ ea > eb
        \/ ea = eb /\ a.released < b.released
        \/ ea = eb /\ a.released = b.released /\ a.started < b.started

\* Mutant: the queue is ordered by the last renewal.
LessByRenewal(a, b) ==
    \/ Order(a.status) < Order(b.status)
    \/ /\ a.status = b.status
       /\ IF a.status = "released" THEN ReleasedBefore(a, b)
                                   ELSE a.renewed < b.renewed

\* Leases of greater permanence sort before leases of lesser permanence.
Less(a, b) ==
    \/ Order(a.status) < Order(b.status)
    \/ /\ a.status = b.status
       /\ IF a.status = "released" THEN ReleasedBefore(a, b)
                                   ELSE a.started < b.started

\* active: leases the consumer already holds; consumed: resources in use.
CanActivate(strategy, active, consumed, limit) ==
    /\ limit # 0
    /\ consumed <= limit
    /\ (strategy = "consumer" /\ active > 0) \/ consumed < limit
=============================================================================
