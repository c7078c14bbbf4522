------------------------------- MODULE Guardian -------------------------------
(***************************************************************************)
(* The guardian server's lease engine for one resource: HTTP handlers and  *)
(* background jobs (Handlers) that each view the resource's page of        *)
(* leases, compute a transaction on a private copy and commit it under the *)
(* provider's optimistic revision check, retrying when the check fails.    *)
(*                                                                         *)
(* A page is independent of the pages of other resources (memprov keeps    *)
(* one mutex, revision and lease set per resource).  The computation of a  *)
(* transaction only reads and writes the handler's private copy and the    *)
(* clock reading it started with, so the steps of two computations commute *)
(* and the model lets one computation run at a time; view, clock reading   *)
(* and commit interleave freely.  Inside a computation there is one step   *)
(* per iteration of the loops of leaseutil.Refresh.                        *)
(***************************************************************************)
EXTENDS Lease, Integers, Sequences, FiniteSets

CONSTANTS
    Instances,    \* program instances (lease.Instance: host, user, id)
    Consumers,    \* host and user pairs (Instance.HostUser)
    ConsumerOf,   \* the consumer each instance belongs to
    Handlers,     \* goroutines of the server that may run at the same time
    None,         \* no handler, no instance
    Strategy,     \* "instance" or "consumer": how consumption is counted
    Policies,     \* what the matching policies may yield for a request
    Capacity,     \* the largest limit a policy grants
    MaxAttempts,  \* 5 in server.go
    Durable,      \* boltprov (leases survive a crash) or memprov (they do not)
    Faults,       \* the store may fail (boltprov I/O); memprov never does
    MaxTime,      \* bound: the last clock reading
    MaxRevision   \* bound: no client request is taken from this revision on

ASSUME InstancesFinite == IsFiniteSet(Instances) /\ IsFiniteSet(Consumers)
ASSUME ConsumerAssumption == ConsumerOf \in [Instances -> Consumers]
ASSUME NoneAssumption == None \notin Handlers /\ None \notin Instances
ASSUME StrategyAssumption == Strategy \in {"instance", "consumer"}
ASSUME PolicyAssumption == Policies \subseteq Policy
ASSUME CapacityAssumption ==
    Capacity \in Nat /\ \A p \in Policies : p.limit <= Capacity
ASSUME AttemptsAssumption == MaxAttempts \in Nat \ {0}
ASSUME FlagAssumption == Durable \in BOOLEAN /\ Faults \in BOOLEAN
ASSUME BoundAssumption == MaxTime \in Nat /\ MaxRevision \in Nat

VARIABLES
    now,           \* the wall clock
    page,          \* the provider's page: revision and committed leases
    calls,         \* per handler: the request it serves and how far it is
    cur,           \* the handler whose transaction is being computed
    step,          \* where that computation is
    again,         \* release: the second Refresh has started
    leases,        \* lease.Tx.leases: the transaction's copy
    dirty,         \* lease.Tx.ops is not empty
    todo,          \* instances the running loop has still to visit
    acc,           \* the leaseutil.Accumulator
    replacements   \* Refresh's list of queued leases that replace a slot

shared == <<now, page, calls>>
vars   == <<now, page, calls, cur, step, again, leases, dirty, todo, acc, replacements>>

-----------------------------------------------------------------------------
LeaseSet == [Instances -> LeaseType]
NoLeases == [i \in Instances |-> NoLease]
NoPolicy == NoLease.policy

Present(ls) == {i \in Instances : ls[i].status # "none"}

\* What the leases consume, by the resource's counting strategy.
Held(ls)    == {i \in Instances : Consumptive(ls[i])}
Holders(ls) == {ConsumerOf[i] : i \in Held(ls)}
Used(ls)    == IF Strategy = "consumer" THEN Cardinality(Holders(ls))
                                        ELSE Cardinality(Held(ls))

Ops == {"none", "acquire", "release", "refresh", "purge"}

\* A request about to view the page for its attempt n.
Calling(op, i, p, n) ==
    [phase |-> "call", op |-> op, inst |-> i, policy |-> p, attempt |-> n, rev |-> 0,
     base |-> NoLeases, at |-> 0, result |-> NoLeases, dirty |-> FALSE]

IdleCall == [Calling("none", None, NoPolicy, 0) EXCEPT !.phase = "idle"]

\* The request c has viewed the page; has read the clock; has its result.
Viewed(c, rev, ls) == [c EXCEPT !.phase = "viewed", !.rev = rev, !.base = ls]
Computing(c, time) == [c EXCEPT !.phase = "computing", !.at = time]
Computed(c, ls, changed) == [c EXCEPT !.phase = "ready", !.result = ls, !.dirty = changed]

CallType == [phase : {"idle", "call", "viewed", "computing", "ready"}, op : Ops,
             inst : Instances \cup {None}, policy : Policy, attempt : Nat,
             rev : Nat, base : LeaseSet, at : Nat, result : LeaseSet, dirty : BOOLEAN]

\* Only requests that name an instance carry one.
Attempts(op) == IF op = "refresh" THEN 1 ELSE MaxAttempts

-----------------------------------------------------------------------------
(* leaseutil.Accumulator *)

Zero == [c \in Consumers |-> 0]

NewAccumulator == [total |-> 0, active |-> Zero, released |-> Zero,
                   consumed |-> Zero, replacements |-> Zero]

AccumulatorType == [total : Nat, active : [Consumers -> Nat],
                    released : [Consumers -> Nat], consumed : [Consumers -> Nat],
                    replacements : [Consumers -> Nat]]

Add(a, c, status) ==
    [total        |-> a.total + 1,
     active       |-> IF status = "active" THEN [a.active EXCEPT ![c] = @ + 1]
                                           ELSE a.active,
     released     |-> IF status = "released" THEN [a.released EXCEPT ![c] = @ + 1]
                                             ELSE a.released,
     consumed     |-> [a.consumed EXCEPT ![c] = @ + 1],
     replacements |-> a.replacements]

\* Mutant: the released slot is not taken out of the count.
StartReplacementKeepsReleased(a, c) ==
    [a EXCEPT !.replacements = [a.replacements EXCEPT ![c] = @ + 1],
              !.active       = [a.active EXCEPT ![c] = @ + 1]]

StartReplacement(a, c) ==
    [a EXCEPT !.replacements = [a.replacements EXCEPT ![c] = @ + 1],
              !.active       = [a.active EXCEPT ![c] = @ + 1],
              !.released     = [a.released EXCEPT ![c] = @ - 1]]

\* Mutant: the replacement is counted down twice.
FinishReplacementTwice(a, c) ==
    [a EXCEPT !.replacements = [a.replacements EXCEPT ![c] = @ - 2]]

FinishReplacement(a, c) ==
    [a EXCEPT !.replacements = [a.replacements EXCEPT ![c] = @ - 1]]

Counted(a) == {c \in Consumers : a.consumed[c] > 0}

Total(a) == IF Strategy = "consumer" THEN Cardinality(Counted(a)) ELSE a.total

ReplacementsRecorded(a) == \E c \in Consumers : a.replacements[c] > 0

-----------------------------------------------------------------------------
Init ==
    /\ now = 1
    /\ page = [rev |-> 0, leases |-> NoLeases]
    /\ calls = [x \in Handlers |-> IdleCall]
    /\ cur = None /\ step = "none" /\ again = FALSE
    /\ leases = NoLeases /\ dirty = FALSE /\ todo = {}
    /\ acc = NewAccumulator /\ replacements = <<>>

computation == <<cur, step, again, leases, dirty, todo, acc, replacements>>

Tick ==
    /\ cur = None
    /\ now < MaxTime
    /\ now' = now + 1
    /\ UNCHANGED <<page, calls, computation>>

\* A request reaches the server, or a background job starts.
Request(x, op, i, p) ==
    /\ cur = None
    /\ calls[x].phase = "idle"
    /\ calls' = [calls EXCEPT ![x] = Calling(op, i, p, 0)]
    /\ UNCHANGED <<now, page, computation>>

AcquireRequest(x) ==
    /\ page.rev < MaxRevision
    /\ \E i \in Instances, p \in Policies : Request(x, "acquire", i, p)

ReleaseRequest(x) ==
    /\ page.rev < MaxRevision
    /\ \E i \in Instances : Request(x, "release", i, NoPolicy)

\* The ticker's refreshLeases; also leasesHandler and streamHandler, which
\* refresh and commit through collectSnapshot.
RefreshRequest(x) == Request(x, "refresh", None, NoPolicy)

PurgeRequest(x) == Request(x, "purge", None, NoPolicy)

\* Mutant: the loop never counts an attempt.
FailedUncounted(x) ==
    calls' = [calls EXCEPT ![x] = Calling(calls[x].op, calls[x].inst, calls[x].policy, 0)]

\* One attempt of the request failed: try again, or give up with an error.
Failed(x) ==
    LET c == calls[x]
        n == c.attempt + 1
    IN  calls' = [calls EXCEPT ![x] = IF n < Attempts(c.op)
                                      THEN Calling(c.op, c.inst, c.policy, n)
                                      ELSE IdleCall]

View(x) ==
    /\ cur = None
    /\ calls[x].phase = "call"
    /\ calls' = [calls EXCEPT ![x] = Viewed(calls[x], page.rev, page.leases)]
    /\ UNCHANGED <<now, page, computation>>

ViewError(x) ==
    /\ Faults
    /\ cur = None
    /\ calls[x].phase = "call"
    /\ Failed(x)
    /\ UNCHANGED <<now, page, computation>>

\* Start Refresh on the given leases: a fresh accumulator, nothing visited.
StartRefresh(ls) ==
    /\ step' = "pass1"
    /\ leases' = ls
    /\ todo' = Present(ls)
    /\ acc' = NewAccumulator
    /\ replacements' = <<>>

\* Read the clock and open the transaction.
Begin(x) ==
    /\ cur = None
    /\ calls[x].phase = "viewed"
    /\ calls' = [calls EXCEPT ![x] = Computing(calls[x], now)]
    /\ cur' = x
    /\ again' = FALSE
    /\ dirty' = FALSE
    /\ StartRefresh(calls[x].base)
    /\ UNCHANGED <<now, page>>

-----------------------------------------------------------------------------
(* leaseutil.Refresh, first pass.  The leases are visited in sorted order; *)
(* sort.Sort is not stable, so leases that tie may come in any order.      *)

at == calls[cur].at

First(i) == i \in todo /\ \A j \in todo : ~Less(leases[j], leases[i])

Visit(i) ==
    /\ step = "pass1"
    /\ First(i)
    /\ todo' = todo \ {i}
    /\ UNCHANGED <<shared, cur, step, again>>

\* Iter.Delete and Iter.Update, applied by Tx.apply.
Delete(i) == leases' = [leases EXCEPT ![i] = NoLease] /\ dirty' = TRUE
Update(i, ls) == leases' = [leases EXCEPT ![i] = ls] /\ dirty' = TRUE

RefreshDecayed(i) ==
    /\ Visit(i)
    /\ Consumptive(leases[i])
    /\ Decayed(leases[i], at)
    /\ Delete(i)
    /\ UNCHANGED <<acc, replacements>>

RefreshExpired(i) ==
    /\ Visit(i)
    /\ leases[i].status = "active"
    /\ ~Decayed(leases[i], at)
    /\ Expired(leases[i], at)
    /\ Update(i, [leases[i] EXCEPT !.status = "released",
                                   !.released = ExpirationTime(leases[i])])
    /\ acc' = Add(acc, ConsumerOf[i], "released")
    /\ UNCHANGED replacements

RefreshHeld(i) ==
    /\ Visit(i)
    /\ Consumptive(leases[i])
    /\ ~Decayed(leases[i], at)
    /\ leases[i].status = "active" => ~Expired(leases[i], at)
    /\ acc' = Add(acc, ConsumerOf[i], leases[i].status)
    /\ UNCHANGED <<leases, dirty, replacements>>

RefreshQueueExpired(i) ==
    /\ Visit(i)
    /\ leases[i].status = "queued"
    /\ Expired(leases[i], at)
    /\ Delete(i)
    /\ UNCHANGED <<acc, replacements>>

\* A queued lease whose consumer has a decaying lease takes that slot: the
\* queued lease is set aside here and stored by the second pass.
RefreshReplace(i) ==
    /\ Visit(i)
    /\ leases[i].status = "queued"
    /\ ~Expired(leases[i], at)
    /\ Total(acc) <= leases[i].policy.limit
    /\ acc.released[ConsumerOf[i]] > 0
    /\ replacements' = Append(replacements, [inst |-> i, lease |-> leases[i]])
    /\ Delete(i)
    /\ acc' = StartReplacement(acc, ConsumerOf[i])

RefreshQueued(i) ==
    /\ Visit(i)
    /\ leases[i].status = "queued"
    /\ ~Expired(leases[i], at)
    /\ Total(acc) <= leases[i].policy.limit => acc.released[ConsumerOf[i]] = 0
    /\ IF CanActivate(Strategy, acc.active[ConsumerOf[i]], Total(acc),
                      leases[i].policy.limit)
       THEN /\ Update(i, [leases[i] EXCEPT !.status = "active"])
            /\ acc' = Add(acc, ConsumerOf[i], "active")
       ELSE UNCHANGED <<leases, dirty, acc>>
    /\ UNCHANGED replacements

\* What follows a Refresh: the operation's own change, or the end.
AfterRefresh ==
    IF calls[cur].op = "acquire" \/ (calls[cur].op = "release" /\ ~again)
    THEN "decide" ELSE "finish"

EndPass1 ==
    /\ step = "pass1"
    /\ todo = {}
    /\ IF ReplacementsRecorded(acc)
       THEN /\ step' = "pass2"
            /\ todo' = {i \in Instances : leases[i].status = "released"}
       ELSE /\ step' = AfterRefresh
            /\ UNCHANGED todo
    /\ UNCHANGED <<shared, cur, again, leases, dirty, acc, replacements>>

-----------------------------------------------------------------------------
(* leaseutil.Refresh, second pass: Tx.ProcessReverse, which walks the      *)
(* leases in forward order.  A lease the loop body returns on early (not   *)
(* released, or no replacement outstanding for its consumer) is passed     *)
(* over; the outstanding counts only fall, so passing over it is final.    *)

Replaceable == {i \in todo : acc.replacements[ConsumerOf[i]] # 0}

FirstReplaceable(i) ==
    i \in Replaceable /\ \A j \in Replaceable : ~Less(leases[j], leases[i])

\* The set ls with the lease of instance i overwritten by l, of instance q.
Overwrite(ls, i, q, l) == [[ls EXCEPT ![i] = NoLease] EXCEPT ![q] = l]

ReplaceReleased(i) ==
    /\ step = "pass2"
    /\ FirstReplaceable(i)
    /\ replacements # <<>>
    /\ LET r == Head(replacements)
       IN  leases' = Overwrite(leases, i, r.inst, [r.lease EXCEPT !.status = "active"])
    /\ acc' = FinishReplacement(acc, ConsumerOf[i])
    /\ replacements' = Tail(replacements)
    /\ dirty' = TRUE
    /\ todo' = todo \ {i}
    /\ UNCHANGED <<shared, cur, step, again>>

EndPass2 ==
    /\ step = "pass2"
    /\ Replaceable = {}
    /\ step' = AfterRefresh
    /\ todo' = {}
    /\ UNCHANGED <<shared, cur, again, leases, dirty, acc, replacements>>

-----------------------------------------------------------------------------
(* Server.acquire, after Refresh. *)

Call == calls[cur]

NewLease(status) ==
    [status |-> status, started |-> at, renewed |-> at, released |-> 0,
     policy |-> Call.policy]

Deciding(op) == step = "decide" /\ Call.op = op

Decided ==
    /\ step' = "finish"
    /\ UNCHANGED <<shared, cur, again, todo, acc, replacements>>

\* The instance's lease has been released in the meantime: a new lease.
AcquireReleased ==
    /\ Deciding("acquire")
    /\ leases[Call.inst].status = "released"
    /\ Update(Call.inst, NewLease(IF Total(acc) <= Call.policy.limit
                                  THEN "active" ELSE "queued"))
    /\ Decided

\* Renewal of an active or queued lease.
AcquireRenew ==
    /\ Deciding("acquire")
    /\ leases[Call.inst].status \in {"active", "queued"}
    /\ Update(Call.inst, [NewLease(leases[Call.inst].status)
                             EXCEPT !.started = leases[Call.inst].started])
    /\ Decided

\* The consumer's decaying leases, one of which a new lease may replace.
OwnReleased ==
    {i \in Instances : /\ leases[i].status = "released"
                       /\ ConsumerOf[i] = ConsumerOf[Call.inst]}

MayReplace ==
    /\ acc.released[ConsumerOf[Call.inst]] > 0
    /\ Total(acc) <= Call.policy.limit

\* The last of the consumer's decaying leases is overwritten by the new one.
AcquireReplace ==
    /\ Deciding("acquire")
    /\ leases[Call.inst].status = "none"
    /\ MayReplace
    /\ Cardinality(OwnReleased) = acc.released[ConsumerOf[Call.inst]]
    /\ \E i \in OwnReleased :
          /\ \A j \in OwnReleased : ~Less(leases[i], leases[j])
          /\ leases' = Overwrite(leases, i, Call.inst, NewLease("active"))
    /\ dirty' = TRUE
    /\ Decided

AcquireCreate ==
    /\ Deciding("acquire")
    /\ leases[Call.inst].status = "none"
    /\ ~MayReplace
    /\ Update(Call.inst,
              NewLease(IF CanActivate(Strategy, acc.active[ConsumerOf[Call.inst]],
                                      Total(acc), Call.policy.limit)
                       THEN "active" ELSE "queued"))
    /\ Decided

(* Server.release, after the first Refresh: Tx.Release, then Refresh. *)

\* Mutant: an active lease is dropped at once instead of decaying.
ReleasedAtOnce(ls) == NoLease

Released(ls) ==
    IF ls.status = "active" THEN [ls EXCEPT !.status = "released", !.released = at]
                            ELSE NoLease

\* Mutant: leases are not refreshed again after the release.
ReleaseNoRefresh ==
    /\ Deciding("release")
    /\ leases' = [leases EXCEPT ![Call.inst] = Released(@)]
    /\ dirty' = (dirty \/ leases[Call.inst].status # "none")
    /\ Decided

Release ==
    /\ Deciding("release")
    /\ StartRefresh([leases EXCEPT ![Call.inst] = Released(@)])
    /\ dirty' = (dirty \/ leases[Call.inst].status # "none")
    /\ again' = TRUE
    /\ UNCHANGED <<shared, cur>>

\* The transaction is complete; the handler goes on to LeaseCommit.
Finish ==
    /\ step = "finish"
    /\ calls' = [calls EXCEPT ![cur] = Computed(Call, leases, dirty)]
    /\ cur' = None /\ step' = "none" /\ again' = FALSE
    /\ leases' = NoLeases /\ dirty' = FALSE /\ todo' = {}
    /\ acc' = NewAccumulator /\ replacements' = <<>>
    /\ UNCHANGED <<now, page>>

-----------------------------------------------------------------------------
(* LeaseCommit: an empty transaction is not committed; the others commit   *)
(* only against the revision they were computed from.                      *)

Ready(x) == cur = None /\ calls[x].phase = "ready"

\* Mutant: the opportunistic lock is not checked.
RevisionIgnored(x) == TRUE

RevisionMatches(x) == page.rev = calls[x].rev

\* boltprov writes the transaction's lease set; memprov replays the
\* transaction's operations on its page, lease by lease.
Stored(x) ==
    IF Durable
    THEN calls[x].result
    ELSE [i \in Instances |-> IF calls[x].result[i] # calls[x].base[i]
                              THEN calls[x].result[i] ELSE page.leases[i]]

Done(x) == calls' = [calls EXCEPT ![x] = IdleCall]

CommitEmpty(x) ==
    /\ Ready(x)
    /\ ~calls[x].dirty
    /\ Done(x)
    /\ UNCHANGED <<now, page, computation>>

\* Mutant: the revision is not advanced.
CommitSameRevision(x) ==
    /\ Ready(x)
    /\ calls[x].dirty
    /\ RevisionMatches(x)
    /\ page' = [page EXCEPT !.leases = Stored(x)]
    /\ Done(x)
    /\ UNCHANGED <<now, computation>>

Commit(x) ==
    /\ Ready(x)
    /\ calls[x].dirty
    /\ RevisionMatches(x)
    /\ page' = [rev |-> page.rev + 1, leases |-> Stored(x)]
    /\ Done(x)
    /\ UNCHANGED <<now, computation>>

CommitConflict(x) ==
    /\ Ready(x)
    /\ calls[x].dirty
    /\ ~RevisionMatches(x)
    /\ Failed(x)
    /\ UNCHANGED <<now, page, computation>>

CommitError(x) ==
    /\ Faults
    /\ Ready(x)
    /\ calls[x].dirty
    /\ Failed(x)
    /\ UNCHANGED <<now, page, computation>>

\* The process dies and restarts: every request is lost, and with memprov
\* the leases too.
Crash ==
    /\ cur = None
    /\ page.rev < MaxRevision
    /\ \E x \in Handlers : calls[x].phase # "idle"
    /\ calls' = [x \in Handlers |-> IdleCall]
    /\ page' = IF Durable THEN page ELSE [rev |-> 0, leases |-> NoLeases]
    /\ UNCHANGED <<now, computation>>

-----------------------------------------------------------------------------
RefreshStep ==
    \/ \E i \in todo : \/ RefreshDecayed(i)
                       \/ RefreshExpired(i)
                       \/ RefreshHeld(i)
                       \/ RefreshQueueExpired(i)
                       \/ RefreshReplace(i)
                       \/ RefreshQueued(i)
                       \/ ReplaceReleased(i)
    \/ EndPass1
    \/ EndPass2

DecideStep ==
    \/ AcquireReleased
    \/ AcquireRenew
    \/ AcquireReplace
    \/ AcquireCreate
    \/ Release

Compute == RefreshStep \/ DecideStep \/ Finish

NewRequest(x) ==
    \/ AcquireRequest(x)
    \/ ReleaseRequest(x)
    \/ RefreshRequest(x)
    \/ PurgeRequest(x)

Serve(x) ==
    \/ View(x)
    \/ ViewError(x)
    \/ Begin(x)
    \/ CommitEmpty(x)
    \/ Commit(x)
    \/ CommitConflict(x)
    \/ CommitError(x)

Next ==
    \/ Tick
    \/ Crash
    \/ Compute
    \/ \E x \in Handlers : NewRequest(x) \/ Serve(x)

Spec == Init /\ [][Next]_vars

(* Go schedules every goroutine: a handler that can go on does, and a      *)
(* computation runs to its end.  Strong fairness only makes up for the     *)
(* model running one computation at a time, which disables the other       *)
(* handlers' steps for its length; in the code nothing disables them.      *)
Fairness == WF_vars(Compute) /\ \A x \in Handlers : SF_vars(Serve(x))

FairSpec == Spec /\ Fairness

-----------------------------------------------------------------------------
(* Properties *)

\* Every variable has its type; in particular the accumulator's unsigned
\* counters never go below zero (accumulator.go panics to prevent it).
TypeOK ==
    /\ now \in Nat
    /\ page \in [rev : Nat, leases : LeaseSet]
    /\ calls \in [Handlers -> CallType]
    /\ cur \in Handlers \cup {None}
    /\ step \in {"none", "pass1", "pass2", "decide", "finish"}
    /\ again \in BOOLEAN
    /\ leases \in LeaseSet
    /\ dirty \in BOOLEAN
    /\ todo \in SUBSET Instances
    /\ acc \in AccumulatorType
    /\ replacements \in Seq([inst : Instances, lease : LeaseType])

\* The committed leases never consume more than the largest limit a policy
\* grants, whatever handlers interleave: the promise of the whole system.
WithinLimit == Used(page.leases) <= Capacity

\* A handler that still has the current revision also has the current
\* leases: what LeaseCommit's revision check (memprov/provider.go) relies on.
ViewIntegrity ==
    \A x \in Handlers :
        calls[x].phase \in {"viewed", "computing", "ready"} /\ calls[x].rev = page.rev
            => calls[x].base = page.leases

\* Neither of the two consistency panics can fire: Refresh never runs out of
\* replacements (refresh.go:83), and acquire finds as many decaying leases
\* as the accumulator counted (server.go:466).
PanicFree ==
    /\ step = "pass2" /\ Replaceable # {} => replacements # <<>>
    /\ Deciding("acquire") /\ leases[Call.inst].status = "none" /\ MayReplace
         => Cardinality(OwnReleased) = acc.released[ConsumerOf[Call.inst]]

\* No slot idles while someone waits: a queued lease is committed only when
\* the resource is used up to the limit.  For policies that agree.
NoIdleCapacity ==
    \A i \in Instances : page.leases[i].status = "queued"
        => Used(page.leases) >= page.leases[i].policy.limit

HeldBy(ls, c) == {i \in Held(ls) : ConsumerOf[i] = c}

Committing(x) == calls[x].phase = "ready" /\ page'.rev = page.rev + 1
                                         /\ calls'[x].phase = "idle"

\* A consumer gives up a slot only when a lease of his has decayed, or by the
\* release of an instance whose lease is decaying already (Tx.Release
\* deletes it).  For policies that agree.
SlotsHeldUntilDecay ==
    [][\A x \in Handlers, c \in Consumers : Committing(x) =>
          LET given  == Cardinality(HeldBy(page.leases, c))
                          - Cardinality(HeldBy(page'.leases, c))
              ended  == {i \in HeldBy(page.leases, c) :
                            \/ Decayed(page.leases[i], calls[x].at)
                            \/ /\ calls[x].op = "release" /\ calls[x].inst = i
                               /\ \/ page.leases[i].status = "released"
                                  \/ Expired(page.leases[i], calls[x].at)}
          IN  given <= Cardinality(ended)]_vars

\* The commit of x releases instance i, whose lease was waiting in the queue.
ReleasesQueued(x, i) ==
    /\ Committing(x) /\ calls[x].op = "release" /\ calls[x].inst = i
    /\ page.leases[i].status = "queued"

\* First come, first served (README): a consumer that holds nothing does not
\* become active past a lease that started earlier and stays in the queue.
\* Two cases are served in turn although the lease that becomes active is not
\* the older one: under the consumer strategy his leases share the slot of a
\* lease whose turn it was; and a queued lease that is released just when its
\* turn has come leaves the slot to his next one.  For policies that agree.
NoOvertaking ==
    [][\A i, j \in Instances :
          /\ page.leases[i].status = "queued" /\ page'.leases[i].status = "queued"
          /\ page.leases[i].started = page'.leases[i].started
          /\ HeldBy(page.leases, ConsumerOf[j]) = {}
          /\ page'.leases[j].status = "active"
          => \E k \in Instances :
                /\ ConsumerOf[k] = ConsumerOf[j]
                /\ \/ /\ Strategy = "consumer" \/ k = j
                      /\ page'.leases[k].status = "active"
                      /\ page'.leases[k].started <= page'.leases[i].started
                   \/ /\ \E x \in Handlers : ReleasesQueued(x, k)
                      /\ page.leases[k].started <= page'.leases[i].started]_vars

\* Every request is answered, however often the store fails or conflicts:
\* the retry loops of acquire, release and Purge are bounded.
CallsEnd == \A x \in Handlers : calls[x].phase # "idle" ~> calls[x].phase = "idle"
=============================================================================
