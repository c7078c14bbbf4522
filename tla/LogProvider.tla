----------------------------- MODULE LogProvider -----------------------------
(***************************************************************************)
(* logprov.Provider: the transaction log around a lease provider.  Server  *)
(* goroutines (Clients) view pages and commit transactions under a read    *)
(* lock; committed transactions are written to the log.  Checkpoints write *)
(* every consumptive lease to the log under the write lock.  They are      *)
(* started by the number of operations logged (opsCheckpoint), by the time *)
(* since the last one (durationCheckpoint) or by a call of Checkpoint.     *)
(*                                                                         *)
(* sync.RWMutex: a goroutine that calls Lock keeps new readers out at once *)
(* and owns the lock when the readers that are in have left.               *)
(***************************************************************************)
EXTENDS Lease, Integers, Sequences, FiniteSets

CONSTANTS
    Resources,      \* names of leased resources
    Instances,      \* program instances
    Clients,        \* goroutines of the server that use the provider
    None,           \* nobody holds the lock
    OpsThreshold,   \* operations between checkpoints; 0: no such schedule
    Interval,       \* seconds between checkpoints; 0: no such schedule
    MinimumDuration,\* 1 second
    Faults,         \* the source may fail (boltprov); memprov never does
    InitialPages,   \* pages the source may start with (boltprov keeps them)
    MaxRevision     \* bound: no page is viewed from this revision on

ASSUME LogConstants ==
    /\ OpsThreshold \in Nat /\ Interval \in Nat /\ MinimumDuration \in Nat
    /\ Faults \in BOOLEAN /\ MaxRevision \in Nat
    /\ InitialPages \subseteq [Instances -> Statuses]
    /\ None \notin {"ops", "timer", "caller", "closer"} /\ None \notin Instances

VARIABLES
    source,    \* the wrapped provider: revision and lease status per resource
    client,    \* per client: the call it is in
    readers,   \* clients that hold the read lock
    writer,    \* the goroutine that holds, or waits for, the write lock
    wpos,      \* where the writer is
    waiting,   \* opsCheckpoint goroutines that have not called Lock yet
    ops,       \* the operations counter
    last,      \* operations counted at the last checkpoint
    age,       \* seconds since the last checkpoint (Interval: at least that)
    timer,     \* the durationCheckpoint goroutine
    closed,    \* the closed channel is closed
    cp,        \* the running checkpoint
    logged,    \* what a reader of the log takes each slot to hold
    synced     \* the log holds a complete checkpoint

vars == <<source, client, readers, writer, wpos, waiting, ops, last, age, timer,
          closed, cp, logged, synced>>

lock       == <<readers, writer, wpos>>
counters   == <<waiting, ops, last>>
checkpoint == <<cp, logged, synced>>
timing     == <<age, timer>>

-----------------------------------------------------------------------------
(* Lease operations: lease.Op *)

Page == [Instances -> Statuses]

\* A slot of the log: an instance's lease of a resource in a status that
\* consumes the resource.
Slots == Resources \X Instances \X {"active", "released"}
Nothing == [s \in Slots |-> 0]

Entry(i, status) == [inst |-> i, status |-> status]
NoEntry == [inst |-> None, status |-> "none"]

Op(type, previous, ls) == [type |-> type, previous |-> previous, lease |-> ls]

\* The statuses a lease may be updated to: by renewal, release, expiry,
\* promotion, or acquisition of a lease that was released.
Updated(status) == CASE status = "active"   -> {"active", "released"}
                     [] status = "released" -> {"active", "queued"}
                     [] status = "queued"   -> {"queued", "active"}
                     [] OTHER               -> {}

\* The operations a guardian's transaction may hold on a page.
PageOps(pg) ==
    LET free == {i \in Instances : pg[i] = "none"}
        kept == Instances \ free
    IN  {Op("create", NoEntry, Entry(i, st)) : i \in free, st \in {"active", "queued"}}
        \cup {op \in {Op("update", Entry(i, pg[i]), Entry(i, st)) : i \in kept, st \in Statuses} :
                  op.lease.status \in Updated(op.previous.status)}
        \cup {Op("update", Entry(i, "released"), Entry(q, "active")) :
                  i \in {j \in kept : pg[j] = "released"}, q \in free}
        \cup {Op("delete", Entry(i, pg[i]), NoEntry) : i \in kept}

Apply(pg, op) ==
    [i \in Instances |-> IF i = op.lease.inst THEN op.lease.status
                         ELSE IF i = op.previous.inst THEN "none" ELSE pg[i]]

\* Op.UpdateType() = Renew
Renew(op) == op.type = "update" /\ op.lease = op.previous

Is(e, s) == IF e.inst = s[2] /\ e.status = s[3] THEN 1 ELSE 0

\* Op.Effects, those that affect consumption: the deletion of the previous
\* lease and the creation of the new one.  Renewals are not recorded.
Effects(r, op) ==
    [s \in Slots |-> IF s[1] = r /\ ~Renew(op)
                     THEN Is(op.lease, s) - Is(op.previous, s) ELSE 0]

\* How many lines record prints for the operation.
Lines(op) ==
    IF Renew(op) THEN 0
    ELSE (IF Consumptive(op.previous) THEN 1 ELSE 0) + (IF Consumptive(op.lease) THEN 1 ELSE 0)

Plus(f, g) == [s \in Slots |-> f[s] + g[s]]

\* What a transaction may do to the page of resource r and to the log.  It
\* holds one operation here; those of a longer one are committed at once and
\* recorded by one call.
Txs(r, pg) == {[page |-> Apply(pg, op), effects |-> Effects(r, op), lines |-> Lines(op)] :
                  op \in PageOps(pg)}

\* The consumptive leases of a page, as checkpoint writes them.
Written(r, pg) ==
    [s \in Slots |-> IF s[1] = r /\ pg[s[2]] = s[3] THEN 1 ELSE 0]

-----------------------------------------------------------------------------
\* The call a client is in: the resource, the revision it viewed and, once the
\* source has committed, what there is to record.
CallType == [phase : {"idle", "view", "commit", "record"}, res : Resources \cup {None},
             rev : Nat, tx : [effects : [Slots -> Int], lines : Nat]]
Idle == [phase |-> "idle", res |-> None, rev |-> 0, tx |-> [effects |-> Nothing, lines |-> 0]]
NoCheckpoint == [left |-> {}, seen |-> Nothing, complete |-> TRUE]

Init ==
    /\ source \in [Resources -> [rev : {0}, page : InitialPages]]
    /\ client = [c \in Clients |-> Idle]
    /\ readers = {} /\ writer = None /\ wpos = "none"
    /\ waiting = 0 /\ ops = 0 /\ last = 0
    /\ age = Interval
    /\ timer = [at |-> IF Interval = 0 THEN "off" ELSE "lock", sleep |-> 0]
    /\ closed = FALSE
    /\ cp = NoCheckpoint /\ logged = Nothing /\ synced = FALSE

SourceFails == Faults \/ closed

Enter(c, call) == client' = [client EXCEPT ![c] = call]
Return(c) == Enter(c, Idle)

-----------------------------------------------------------------------------
(* LeaseView and LeaseCommit, under the read lock. *)

CallView(c) ==
    /\ client[c].phase = "idle"
    /\ \E r \in Resources :
          /\ source[r].rev < MaxRevision
          /\ Enter(c, [Idle EXCEPT !.phase = "view", !.res = r])
    /\ UNCHANGED <<source, lock, counters, timing, closed, checkpoint>>

\* RLock, the source's view, RUnlock; then the caller computes a transaction
\* and calls LeaseCommit, or has nothing to commit.
View(c) ==
    /\ client[c].phase = "view"
    /\ writer = None
    /\ \/ Enter(c, [client[c] EXCEPT !.phase = "commit", !.rev = source[client[c].res].rev])
       \/ Return(c)
    /\ UNCHANGED <<source, lock, counters, timing, closed, checkpoint>>

\* The source commits a transaction of the client; no page has changed since
\* it was viewed, so the transaction is chosen here.
Committed(c) ==
    LET r == client[c].res
    IN  /\ client[c].phase = "commit"
        /\ writer = None
        /\ source[r].rev = client[c].rev
        /\ \E tx \in Txs(r, source[r].page) :
              /\ source' = [source EXCEPT ![r] = [rev |-> @.rev + 1, page |-> tx.page]]
              /\ Enter(c, [client[c] EXCEPT !.phase = "record", !.tx =
                               [effects |-> tx.effects, lines |-> tx.lines]])

\* Mutant: the read lock is given back before the transaction is recorded.
CommitUnlocked(c) ==
    /\ Committed(c)
    /\ UNCHANGED <<lock, counters, timing, closed, checkpoint>>

\* RLock and the source's commit.  A writer that calls Lock between the two
\* has to wait for this reader, so they are one step.
Commit(c) ==
    /\ Committed(c)
    /\ readers' = readers \cup {c}
    /\ UNCHANGED <<writer, wpos, counters, timing, closed, checkpoint>>

\* The source refuses (a conflict, or a failure) and LeaseCommit returns.
CommitFails(c) ==
    /\ client[c].phase = "commit"
    /\ writer = None
    /\ source[client[c].res].rev # client[c].rev \/ SourceFails
    /\ Return(c)
    /\ UNCHANGED <<source, lock, counters, timing, closed, checkpoint>>

\* Mutant: one operation too late.
EnoughLater(n) == OpsThreshold # 0 /\ n - last > OpsThreshold

\* Enough operations since the last checkpoint.
Enough(n) == OpsThreshold # 0 /\ n - last >= OpsThreshold

\* Mutant: the checkpoint is run by the goroutine that holds the read lock.
RecordSynchronously(c) ==
    LET n == ops + client[c].tx.lines
    IN  /\ client[c].phase = "record"
        /\ logged' = Plus(logged, client[c].tx.effects)
        /\ ops' = n
        /\ IF client[c].tx.lines # 0 /\ Enough(n)
           THEN /\ writer = None /\ writer' = "ops" /\ wpos' = "lock"
                /\ Enter(c, [client[c] EXCEPT !.phase = "add"])
                /\ UNCHANGED readers
           ELSE Return(c) /\ readers' = readers \ {c} /\ UNCHANGED <<writer, wpos>>
        /\ UNCHANGED <<source, waiting, last, timing, closed, cp, synced>>

\* record prints the effects, add counts them and starts a goroutine for the
\* checkpoint, and LeaseCommit gives the read lock back.  No checkpoint runs
\* while this reader is in, so the lines and the count are one step.
Record(c) ==
    LET n == ops + client[c].tx.lines
    IN  /\ client[c].phase = "record"
        /\ logged' = Plus(logged, client[c].tx.effects)
        /\ ops' = n
        /\ waiting' = IF client[c].tx.lines # 0 /\ Enough(n) THEN waiting + 1 ELSE waiting
        /\ Return(c)
        /\ readers' = readers \ {c}
        /\ UNCHANGED <<source, writer, wpos, last, timing, closed, cp, synced>>

-----------------------------------------------------------------------------
(* The write lock and the checkpoint. *)

Lock(w) ==
    /\ writer = None
    /\ writer' = w
    /\ wpos' = "lock"

Owns(w) == writer = w /\ readers = {}

Unlock == writer' = None /\ wpos' = "none" /\ UNCHANGED readers

\* nextCheckpoint
Remaining(a) == IF a >= Interval THEN 0 ELSE Interval - a

\* Mutant: the wait ends early, without a lower bound.
SleepEarly(a) ==
    timer' = [at |-> "sleep", sleep |-> Remaining(a) - MinimumDuration]

\* The timer goroutine waits for the next checkpoint.
Sleep(a) ==
    timer' = [at |-> "sleep",
              sleep |-> IF Remaining(a) < MinimumDuration THEN MinimumDuration ELSE Remaining(a)]

AfterCheckpoint(a) == IF writer = "timer" THEN Sleep(a) ELSE UNCHANGED timer

\* checkpoint() reads the clock and lists the resources; it returns early
\* when that fails.  The time becomes last.when at the end of checkpoint();
\* it is only read under the lock, so it is set here.
StartCheckpoint ==
    \/ /\ wpos' = "checkpoint"
       /\ cp' = [left |-> Resources, seen |-> Nothing, complete |-> TRUE]
       /\ age' = 0
       /\ UNCHANGED <<readers, writer, timer, logged, synced>>
    \/ /\ SourceFails
       /\ AfterCheckpoint(age)
       /\ Unlock
       /\ UNCHANGED <<age, checkpoint>>

CheckpointResource(r) ==
    /\ wpos = "checkpoint"
    /\ r \in cp.left
    /\ \/ cp' = [cp EXCEPT !.left = @ \ {r}, !.seen = Plus(@, Written(r, source[r].page))]
       \/ /\ SourceFails
          /\ cp' = [cp EXCEPT !.left = @ \ {r}, !.complete = FALSE]
    /\ UNCHANGED <<source, client, lock, counters, timing, closed, logged, synced>>

EndCheckpoint ==
    /\ wpos = "checkpoint"
    /\ cp.left = {}
    /\ last' = ops
    /\ logged' = cp.seen
    /\ synced' = cp.complete
    /\ cp' = NoCheckpoint
    /\ AfterCheckpoint(age)
    /\ Unlock
    /\ UNCHANGED <<source, client, waiting, ops, age, closed>>

OpsLock ==
    /\ waiting > 0
    /\ waiting' = waiting - 1
    /\ Lock("ops")
    /\ UNCHANGED <<source, client, readers, ops, last, timing, closed, checkpoint>>

\* Mutant: the number of operations is not looked at again under the lock.
OpsCheckpointAnyway ==
    /\ Owns("ops") /\ wpos = "lock"
    /\ StartCheckpoint
    /\ UNCHANGED <<source, client, counters, closed>>

OpsCheckpoint ==
    /\ Owns("ops") /\ wpos = "lock"
    /\ \/ Enough(ops) /\ StartCheckpoint
       \/ ~Enough(ops) /\ Unlock /\ UNCHANGED <<timing, checkpoint>>
    /\ UNCHANGED <<source, client, counters, closed>>

TimerLock ==
    /\ timer.at = "lock"
    /\ Lock("timer")
    /\ timer' = [timer EXCEPT !.at = "held"]
    /\ UNCHANGED <<source, client, readers, counters, age, closed, checkpoint>>

\* The goroutine returns when it finds the provider closed; it does not
\* unlock the mutex.
TimerCheckpoint ==
    /\ Owns("timer") /\ wpos = "lock" /\ timer.at = "held"
    /\ \/ /\ closed
          /\ timer' = [timer EXCEPT !.at = "ended"]
          /\ UNCHANGED <<lock, age, checkpoint>>
       \/ /\ ~closed
          /\ Remaining(age) = 0
          /\ StartCheckpoint
       \/ /\ ~closed
          /\ Remaining(age) # 0
          /\ Sleep(age)
          /\ Unlock
          /\ UNCHANGED <<age, checkpoint>>
    /\ UNCHANGED <<source, client, counters, closed>>

\* Mutant: the timer is not set again after it fired.
TimerWakeOnce ==
    /\ timer.at = "sleep"
    /\ timer.sleep = 0 \/ closed
    /\ timer' = [at |-> "ended", sleep |-> 0]
    /\ UNCHANGED <<source, client, lock, counters, age, closed, checkpoint>>

TimerWake ==
    /\ timer.at = "sleep"
    /\ \/ timer.sleep = 0 /\ timer' = [timer EXCEPT !.at = "lock"]
       \/ closed /\ timer' = [at |-> "ended", sleep |-> 0]
    /\ UNCHANGED <<source, client, lock, counters, age, closed, checkpoint>>

\* Checkpoint, called by a user of the provider.
CallCheckpoint ==
    /\ Lock("caller")
    /\ UNCHANGED <<source, client, readers, counters, timing, closed, checkpoint>>

Checkpoint ==
    /\ Owns("caller") /\ wpos = "lock"
    /\ StartCheckpoint
    /\ UNCHANGED <<source, client, counters, closed>>

CallClose ==
    /\ ~closed
    /\ Lock("closer")
    /\ UNCHANGED <<source, client, readers, counters, timing, closed, checkpoint>>

Close ==
    /\ Owns("closer")
    /\ closed' = TRUE
    /\ Unlock
    /\ UNCHANGED <<source, client, counters, timing, checkpoint>>

\* One second passes.
Tick ==
    /\ age' = IF age < Interval THEN age + 1 ELSE age
    /\ timer' = [timer EXCEPT !.sleep = IF @ > 0 THEN @ - 1 ELSE 0]
    /\ UNCHANGED <<source, client, lock, counters, closed, checkpoint>>

-----------------------------------------------------------------------------
Serve(c) == View(c) \/ Commit(c) \/ CommitFails(c) \/ Record(c)

Writing == EndCheckpoint \/ OpsCheckpoint \/ TimerCheckpoint
           \/ Checkpoint \/ Close \/ \E r \in Resources : CheckpointResource(r)

Next ==
    \/ \E c \in Clients : CallView(c) \/ Serve(c)
    \/ Writing
    \/ OpsLock \/ TimerLock \/ TimerWake \/ CallCheckpoint \/ CallClose
    \/ Tick

Spec == Init /\ [][Next]_vars

(* Goroutines run, time passes, and sync.RWMutex starves neither readers   *)
(* nor writers: Unlock admits the readers that wait, and Lock keeps out    *)
(* the readers that come after it.                                         *)
Fairness ==
    /\ \A c \in Clients : SF_vars(Serve(c))
    /\ WF_vars(Writing) /\ WF_vars(TimerWake) /\ WF_vars(Tick)
    /\ SF_vars(OpsLock) /\ SF_vars(TimerLock)

FairSpec == Spec /\ Fairness

-----------------------------------------------------------------------------
(* Properties *)

\* Every variable has its type; the counters of logprov.Provider never go below
\* zero and its timer never sleeps for less than no time.
TypeOK ==
    /\ source \in [Resources -> [rev : Nat, page : Page]]
    /\ client \in [Clients -> CallType]
    /\ readers \subseteq Clients
    /\ writer \in {None, "ops", "timer", "caller", "closer"}
    /\ wpos \in {"none", "lock", "checkpoint"}
    /\ waiting \in Nat /\ ops \in Nat /\ last \in Nat /\ age \in 0..Interval
    /\ timer \in [at : {"off", "lock", "held", "sleep", "ended"}, sleep : Nat]
    /\ closed \in BOOLEAN /\ synced \in BOOLEAN
    /\ cp \in [left : SUBSET Resources, seen : [Slots -> Int], complete : BOOLEAN]
    /\ logged \in [Slots -> Int]

\* A checkpoint writes exactly the leases that the previous checkpoint and
\* the transactions logged since add up to, so the log can be audited: no
\* transaction falls between the source's commit and its record when a
\* checkpoint reads (provider.go:90-93).
CheckpointAgrees ==
    wpos = "checkpoint" /\ cp.left = {} /\ cp.complete /\ synced => cp.seen = logged

\* Nothing is committed and nothing is recorded while a checkpoint is being
\* written: it has "a consistent view of the lease data" (provider.go:90).
CheckpointIsolated ==
    [][wpos = "checkpoint" =>
          /\ source' = source
          /\ logged' = logged \/ wpos' = "none"]_vars

\* A checkpoint scheduled by operations follows at least that many logged
\* operations, however many goroutines were started for it (provider.go:150).
CheckpointsSpaced ==
    [][writer = "ops" /\ wpos = "checkpoint" /\ wpos' = "none"
         => last' - last >= OpsThreshold]_vars

\* No checkpoint is forgotten: while enough operations are logged since the
\* last one, a goroutine is on its way to write it (provider.go:138-141), as
\* long as the source does not fail.
NoLostCheckpoint ==
    OpsThreshold # 0 /\ ops - last >= OpsThreshold /\ ~SourceFails
        => waiting > 0 \/ writer = "ops"

\* A checkpoint is started when the interval has passed since the last one.
DurationCheckpointed ==
    (Interval # 0 /\ age = Interval) ~> (wpos = "checkpoint" \/ closed)

\* While the provider is open, every view and every commit returns.
OpenOperationsReturn ==
    \A c \in Clients : client[c].phase # "idle" ~> (client[c].phase = "idle" \/ closed)

\* "All other operations on the provider will block until the checkpoint has
\* finished" (provider.go:92): and no longer, closed or not.
OperationsReturn ==
    \A c \in Clients : client[c].phase # "idle" ~> client[c].phase = "idle"
=============================================================================
