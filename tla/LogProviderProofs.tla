-------------------------- MODULE LogProviderProofs --------------------------
(***************************************************************************)
(* Theorems about LogProvider, for every set of resources, instances and   *)
(* clients, every checkpoint schedule and any number of transactions.      *)
(***************************************************************************)
EXTENDS LogProvider, FiniteSetTheorems, TLAPS

\* TypeOK made inductive: a client in a call has named a resource.
LogTypeInv ==
    /\ TypeOK
    /\ \A c \in Clients : client[c].phase # "idle" => client[c].res \in Resources

\* The lock at work: a client holds the read lock from the source's commit to
\* the record, and a checkpoint has the lock to itself.
LockInv ==
    /\ \A c \in Clients : client[c].phase = "record" => c \in readers
    /\ wpos = "checkpoint" => writer # None /\ readers = {}

-----------------------------------------------------------------------------
\* The operations of a transaction keep the page a page.
LEMMA OpTypes ==
    ASSUME NEW pg \in Page, NEW op \in PageOps(pg)
    PROVE  op.lease.status \in Statuses /\ op.previous.status \in Statuses
<1>1. CASE \E i \in Instances, st \in {"active", "queued"} :
              op = Op("create", NoEntry, Entry(i, st))
  BY <1>1 DEF Op, NoEntry, Entry, Statuses
<1>2. CASE \E i \in Instances, st \in Statuses :
              op = Op("update", Entry(i, pg[i]), Entry(i, st))
  BY <1>2 DEF Op, Entry, Page
<1>3. CASE \E i \in Instances, q \in Instances :
              op = Op("update", Entry(i, "released"), Entry(q, "active"))
  BY <1>3 DEF Op, Entry, Statuses
<1>4. CASE \E i \in Instances : op = Op("delete", Entry(i, pg[i]), NoEntry)
  BY <1>4 DEF Op, Entry, NoEntry, Page, Statuses
<1> QED BY <1>1, <1>2, <1>3, <1>4 DEF PageOps

\* A transaction yields a page, whole numbers per slot and a line count.
LEMMA TxTypes ==
    ASSUME NEW r \in Resources, NEW pg \in Page, NEW tx \in Txs(r, pg)
    PROVE  tx.page \in Page /\ tx.effects \in [Slots -> Int] /\ tx.lines \in Nat
<1>1. PICK op \in PageOps(pg) :
          tx = [page |-> Apply(pg, op), effects |-> Effects(r, op), lines |-> Lines(op)]
  BY DEF Txs
<1>2. Apply(pg, op) \in Page
  BY OpTypes DEF Apply, Page, Statuses
<1>3. Effects(r, op) \in [Slots -> Int]
  BY DEF Effects, Is
<1>4. Lines(op) \in Nat
  BY DEF Lines
<1> QED BY <1>1, <1>2, <1>3, <1>4

\* Adding up two slot functions yields one.
LEMMA PlusType ==
    ASSUME NEW f \in [Slots -> Int], NEW g \in [Slots -> Int]
    PROVE  Plus(f, g) \in [Slots -> Int]
BY DEF Plus

\* The initial values have their types.
LEMMA ZeroTypes ==
    /\ Nothing \in [Slots -> Int]
    /\ Idle \in CallType /\ Idle.phase = "idle"
    /\ NoCheckpoint \in [left : SUBSET Resources, seen : [Slots -> Int], complete : BOOLEAN]
BY DEF Nothing, Idle, CallType, NoCheckpoint

\* Changing one client's call leaves every client a call.
LEMMA EnterType ==
    ASSUME client \in [Clients -> CallType], NEW c \in Clients,
           NEW call \in CallType, Enter(c, call)
    PROVE  client' \in [Clients -> CallType]
BY DEF Enter

\* A sleeping timer is a timer.
LEMMA SleepType ==
    ASSUME NEW a \in 0..Interval, Sleep(a)
    PROVE  timer' \in [at : {"off", "lock", "held", "sleep", "ended"}, sleep : Nat]
BY LogConstants DEF Sleep, Remaining

\* The types, strengthened, are kept by every step.
LEMMA LogTypeInvariant == Spec => []LogTypeInv
<1>1. Init => LogTypeInv
  <2> SUFFICES ASSUME Init PROVE LogTypeInv
    OBVIOUS
  <2>1. source \in [Resources -> [rev : Nat, page : Page]]
    BY LogConstants DEF Init, Page
  <2>2. client \in [Clients -> CallType]
    BY ZeroTypes DEF Init
  <2>3. timer \in [at : {"off", "lock", "held", "sleep", "ended"}, sleep : Nat]
    BY DEF Init
  <2>4. age \in 0..Interval
    BY LogConstants DEF Init
  <2> QED BY <2>1, <2>2, <2>3, <2>4, ZeroTypes DEF Init, TypeOK, LogTypeInv
<1>2. LogTypeInv /\ [Next]_vars => LogTypeInv'
  <2> SUFFICES ASSUME LogTypeInv, [Next]_vars PROVE LogTypeInv'
    OBVIOUS
  <2> USE ZeroTypes DEF LogTypeInv
  <2>0. CASE UNCHANGED vars
    BY <2>0 DEF TypeOK, vars
  <2>1. ASSUME NEW c \in Clients, CallView(c) PROVE LogTypeInv'
    <3>1. \A r \in Resources : [Idle EXCEPT !.phase = "view", !.res = r] \in CallType
      BY DEF CallType
    <3>2. client' \in [Clients -> CallType]
      BY <2>1, <3>1, EnterType DEF CallView, TypeOK
    <3> QED BY <2>1, <3>2 DEF CallView, Enter, TypeOK, CallType, lock, counters, timing, checkpoint
  <2>2. ASSUME NEW c \in Clients, View(c) PROVE LogTypeInv'
    <3>1. client[c].phase # "idle" => [client[c] EXCEPT !.phase = "commit",
                !.rev = source[client[c].res].rev] \in CallType
      <4>1. client[c].phase # "idle" => source[client[c].res].rev \in Nat
        BY DEF TypeOK
      <4> QED BY <4>1 DEF TypeOK, CallType
    <3>2. client' \in [Clients -> CallType]
      BY <2>2, <3>1, EnterType DEF View, Return, TypeOK
    <3>3. \A d \in Clients : client'[d].phase # "idle" => client'[d].res \in Resources
      <4>1. CASE Return(c)
        BY <4>1 DEF Return, Enter, TypeOK
      <4>2. CASE Enter(c, [client[c] EXCEPT !.phase = "commit",
                              !.rev = source[client[c].res].rev])
        <5>1. client'[c].res = client[c].res
          BY <4>2 DEF Enter, TypeOK, CallType
        <5> QED BY <2>2, <4>2, <5>1 DEF View, Enter, TypeOK
      <4> QED BY <2>2, <4>1, <4>2 DEF View
    <3> QED BY <2>2, <3>2, <3>3 DEF View, TypeOK, lock, counters, timing, checkpoint
  <2>3. ASSUME NEW c \in Clients, Commit(c) PROVE LogTypeInv'
    <3> DEFINE r == client[c].res
    <3>1. PICK tx \in Txs(r, source[r].page) :
            /\ source' = [source EXCEPT ![r] = [rev |-> @.rev + 1, page |-> tx.page]]
            /\ Enter(c, [client[c] EXCEPT !.phase = "record", !.tx =
                           [effects |-> tx.effects, lines |-> tx.lines]])
      BY <2>3 DEF Commit, Committed
    <3>2. r \in Resources /\ source[r].page \in Page /\ source[r].rev \in Nat
      BY <2>3 DEF Commit, Committed, TypeOK, CallType
    <3>3. tx.page \in Page /\ tx.effects \in [Slots -> Int] /\ tx.lines \in Nat
      BY <3>2, TxTypes
    <3>4. client' \in [Clients -> CallType]
      <4>1. [client[c] EXCEPT !.phase = "record", !.tx =
                [effects |-> tx.effects, lines |-> tx.lines]] \in CallType
        BY <3>3 DEF TypeOK, CallType
      <4> QED BY <3>1, <4>1, EnterType DEF TypeOK
    <3>5. source' \in [Resources -> [rev : Nat, page : Page]]
      BY <3>1, <3>2, <3>3 DEF TypeOK
    <3> QED BY <2>3, <3>1, <3>2, <3>4, <3>5 DEF Commit, Enter, TypeOK, CallType, counters, timing, checkpoint
  <2>4. ASSUME NEW c \in Clients, CommitFails(c) PROVE LogTypeInv'
    BY <2>4, EnterType DEF CommitFails, Return, Enter, TypeOK, lock, counters, timing, checkpoint
  <2>5. ASSUME NEW c \in Clients, Record(c) PROVE LogTypeInv'
    <3>1. client[c].tx.effects \in [Slots -> Int] /\ client[c].tx.lines \in Nat
      BY DEF TypeOK, CallType
    <3>2. logged' \in [Slots -> Int]
      BY <2>5, <3>1, PlusType DEF Record, TypeOK
    <3>3. ops' \in Nat /\ waiting' \in Nat
      BY <2>5, <3>1 DEF Record, TypeOK
    <3> QED BY <2>5, <3>2, <3>3, EnterType DEF Record, Return, Enter, TypeOK, timing
  <2>6. ASSUME NEW r \in Resources, CheckpointResource(r) PROVE LogTypeInv'
    <3>1. Plus(cp.seen, Written(r, source[r].page)) \in [Slots -> Int]
      <4>1. Written(r, source[r].page) \in [Slots -> Int]
        BY DEF Written
      <4> QED BY <4>1, PlusType DEF TypeOK
    <3>2. cp' \in [left : SUBSET Resources, seen : [Slots -> Int], complete : BOOLEAN]
      BY <2>6, <3>1, ZenonT(40) DEF CheckpointResource, TypeOK
    <3> QED BY <2>6, <3>2 DEF CheckpointResource, TypeOK, lock, counters, timing
  <2>7. CASE EndCheckpoint
    <3>1. timer' \in [at : {"off", "lock", "held", "sleep", "ended"}, sleep : Nat]
      BY <2>7, SleepType DEF EndCheckpoint, AfterCheckpoint, TypeOK
    <3> QED BY <2>7, <3>1 DEF EndCheckpoint, Unlock, TypeOK
  <2>8. ASSUME StartCheckpoint, UNCHANGED <<source, client, counters, closed>> PROVE LogTypeInv'
    <3>1. timer' \in [at : {"off", "lock", "held", "sleep", "ended"}, sleep : Nat]
      BY <2>8, SleepType DEF StartCheckpoint, AfterCheckpoint, TypeOK
    <3>2. age' \in 0..Interval
      BY <2>8, LogConstants DEF StartCheckpoint, TypeOK
    <3>3. cp' \in [left : SUBSET Resources, seen : [Slots -> Int], complete : BOOLEAN]
      <4>1. [left |-> Resources, seen |-> Nothing, complete |-> TRUE]
               \in [left : SUBSET Resources, seen : [Slots -> Int], complete : BOOLEAN]
        OBVIOUS
      <4>2. cp' = cp \/ cp' = [left |-> Resources, seen |-> Nothing, complete |-> TRUE]
        BY <2>8 DEF StartCheckpoint, checkpoint
      <4> QED BY <4>1, <4>2 DEF TypeOK
    <3>4. /\ readers' \subseteq Clients
          /\ writer' \in {None, "ops", "timer", "caller", "closer"}
          /\ wpos' \in {"none", "lock", "checkpoint"}
          /\ logged' = logged /\ synced' = synced
      BY <2>8 DEF StartCheckpoint, Unlock, TypeOK, checkpoint
    <3> QED BY <2>8, <3>1, <3>2, <3>3, <3>4 DEF TypeOK, counters
  <2>9. CASE OpsLock
    BY <2>9 DEF OpsLock, Lock, TypeOK, timing, checkpoint
  <2>10. CASE OpsCheckpoint
    BY <2>10, <2>8 DEF OpsCheckpoint, Unlock, TypeOK, counters, timing, checkpoint
  <2>11. CASE TimerLock
    BY <2>11 DEF TimerLock, Lock, TypeOK, counters, checkpoint
  <2>12. CASE TimerCheckpoint
    <3>1. CASE StartCheckpoint
      BY <2>12, <3>1, <2>8 DEF TimerCheckpoint
    <3>2. CASE Sleep(age) /\ Unlock /\ UNCHANGED <<age, checkpoint>>
      BY <2>12, <3>2, SleepType DEF TimerCheckpoint, Unlock, TypeOK, counters, checkpoint
    <3>3. CASE timer' = [timer EXCEPT !.at = "ended"] /\ UNCHANGED <<lock, age, checkpoint>>
      BY <2>12, <3>3 DEF TimerCheckpoint, TypeOK, lock, counters, checkpoint
    <3> QED BY <2>12, <3>1, <3>2, <3>3 DEF TimerCheckpoint
  <2>13. CASE TimerWake
    BY <2>13 DEF TimerWake, TypeOK, lock, counters, checkpoint
  <2>14. CASE CallCheckpoint
    BY <2>14 DEF CallCheckpoint, Lock, TypeOK, counters, timing, checkpoint
  <2>15. CASE Checkpoint
    BY <2>15, <2>8 DEF Checkpoint
  <2>16. CASE CallClose
    BY <2>16 DEF CallClose, Lock, TypeOK, counters, timing, checkpoint
  <2>17. CASE Close
    BY <2>17 DEF Close, Unlock, TypeOK, counters, timing, checkpoint
  <2>18. CASE Tick
    BY <2>18, LogConstants DEF Tick, TypeOK, lock, counters, checkpoint
  <2> QED BY <2>0, <2>1, <2>2, <2>3, <2>4, <2>5, <2>6, <2>7, <2>9, <2>10, <2>11, <2>12,
             <2>13, <2>14, <2>15, <2>16, <2>17, <2>18 DEF Next, Serve, Writing
<1> QED BY <1>1, <1>2, PTL DEF Spec

\* Every variable keeps its type.
THEOREM LogTypes == Spec => []TypeOK
<1>1. LogTypeInv => TypeOK
  BY DEF LogTypeInv
<1> QED BY <1>1, LogTypeInvariant, PTL

-----------------------------------------------------------------------------
\* LockInv is kept by every step.
LEMMA LockInvariant == Spec => [](LogTypeInv /\ LockInv)
<1>1. Init => LockInv
  BY ZeroTypes DEF Init, LockInv
<1>2. LogTypeInv /\ LockInv /\ [Next]_vars => LockInv'
  <2> SUFFICES ASSUME LogTypeInv, LockInv, [Next]_vars PROVE LockInv'
    OBVIOUS
  <2> USE ZeroTypes, LogConstants DEF LockInv, LogTypeInv, TypeOK
  <2>0. CASE UNCHANGED vars
    BY <2>0 DEF vars
  <2>1. ASSUME NEW c \in Clients, CallView(c) PROVE LockInv'
    BY <2>1 DEF CallView, Enter, CallType, lock
  <2>2. ASSUME NEW c \in Clients, View(c) PROVE LockInv'
    <3>1. \A d \in Clients : client'[d].phase = "record" => client[d].phase = "record"
      <4>1. CASE Return(c)
        BY <4>1 DEF Return, Enter
      <4>2. CASE Enter(c, [client[c] EXCEPT !.phase = "commit",
                              !.rev = source[client[c].res].rev])
        <5>1. client'[c].phase = "commit"
          BY <4>2 DEF Enter, CallType
        <5> QED BY <4>2, <5>1 DEF Enter
      <4> QED BY <2>2, <4>1, <4>2 DEF View
    <3> QED BY <2>2, <3>1 DEF View, lock
  <2>3. ASSUME NEW c \in Clients, Commit(c) PROVE LockInv'
    BY <2>3 DEF Commit, Committed, Enter, CallType
  <2>4. ASSUME NEW c \in Clients, CommitFails(c) PROVE LockInv'
    BY <2>4 DEF CommitFails, Return, Enter, lock
  <2>5. ASSUME NEW c \in Clients, Record(c) PROVE LockInv'
    BY <2>5 DEF Record, Return, Enter
  <2>6. ASSUME NEW r \in Resources, CheckpointResource(r) PROVE LockInv'
    BY <2>6 DEF CheckpointResource, lock
  <2>7. CASE EndCheckpoint
    BY <2>7 DEF EndCheckpoint, Unlock
  <2>8. ASSUME NEW w, Owns(w), w # None, StartCheckpoint, UNCHANGED client PROVE LockInv'
    BY <2>8 DEF StartCheckpoint, Owns, Unlock
  <2>9. CASE OpsLock
    BY <2>9 DEF OpsLock, Lock
  <2>10. CASE OpsCheckpoint
    BY <2>10, <2>8 DEF OpsCheckpoint, Unlock
  <2>11. CASE TimerLock
    BY <2>11 DEF TimerLock, Lock
  <2>12. CASE TimerCheckpoint
    BY <2>12, <2>8 DEF TimerCheckpoint, Unlock, lock
  <2>13. CASE TimerWake
    BY <2>13 DEF TimerWake, lock
  <2>14. CASE CallCheckpoint
    BY <2>14 DEF CallCheckpoint, Lock
  <2>15. CASE Checkpoint
    BY <2>15, <2>8 DEF Checkpoint
  <2>16. CASE CallClose
    BY <2>16 DEF CallClose, Lock
  <2>17. CASE Close
    BY <2>17 DEF Close, Unlock
  <2>18. CASE Tick
    BY <2>18 DEF Tick, lock
  <2> QED BY <2>0, <2>1, <2>2, <2>3, <2>4, <2>5, <2>6, <2>7, <2>9, <2>10, <2>11, <2>12,
             <2>13, <2>14, <2>15, <2>16, <2>17, <2>18 DEF Next, Serve, Writing
<1>3. Spec => []LogTypeInv
  BY LogTypeInvariant
<1> QED BY <1>1, <1>2, <1>3, PTL DEF Spec

\* A checkpoint has the lease data and the log to itself: no transaction is
\* committed or recorded while it runs (provider.go:90-93).
THEOREM CheckpointsAreIsolated == Spec => CheckpointIsolated
<1> DEFINE Isolated == wpos = "checkpoint" =>
                          /\ source' = source
                          /\ logged' = logged \/ wpos' = "none"
<1>1. LogTypeInv /\ LockInv /\ [Next]_vars => [Isolated]_vars
  <2> SUFFICES ASSUME LogTypeInv, LockInv, Next, wpos = "checkpoint"
               PROVE  /\ source' = source
                      /\ logged' = logged \/ wpos' = "none"
    OBVIOUS
  <2>1. writer # None /\ readers = {}
    BY DEF LockInv
  <2>2. \A c \in Clients : ~Commit(c) /\ ~Record(c)
    BY <2>1 DEF LockInv, Commit, Committed, Record
  <2>3. ASSUME NEW c \in Clients, CallView(c) \/ View(c) \/ CommitFails(c)
        PROVE  source' = source /\ logged' = logged
    BY <2>3 DEF CallView, View, CommitFails, checkpoint
  <2>4. ASSUME NEW r \in Resources, CheckpointResource(r)
        PROVE  source' = source /\ logged' = logged
    BY <2>4 DEF CheckpointResource
  <2>5. EndCheckpoint => source' = source /\ wpos' = "none"
    BY DEF EndCheckpoint, Unlock
  <2>6. ~OpsCheckpoint /\ ~TimerCheckpoint /\ ~Checkpoint
    BY DEF OpsCheckpoint, TimerCheckpoint, Checkpoint
  <2>7. Close => source' = source /\ wpos' = "none"
    BY DEF Close, Unlock
  <2>8. ~OpsLock /\ ~TimerLock /\ ~CallCheckpoint /\ ~CallClose
    BY <2>1 DEF OpsLock, TimerLock, CallCheckpoint, CallClose, Lock
  <2>9. TimerWake \/ Tick => source' = source /\ logged' = logged
    BY DEF TimerWake, Tick, checkpoint
  <2> QED BY <2>2, <2>3, <2>4, <2>5, <2>6, <2>7, <2>8, <2>9 DEF Next, Serve, Writing
<1> QED BY <1>1, LockInvariant, PTL DEF Spec, CheckpointIsolated

\* While enough operations are logged and the source works, a goroutine is on
\* its way to write the checkpoint: none is lost between add and opsCheckpoint
\* (provider.go:138-156), whatever other checkpoints come in between.
THEOREM NoCheckpointIsLost == Spec => []NoLostCheckpoint
<1>1. Init => NoLostCheckpoint
  BY LogConstants DEF Init, NoLostCheckpoint
<1>2. LogTypeInv /\ LockInv /\ NoLostCheckpoint /\ [Next]_vars => NoLostCheckpoint'
  <2> SUFFICES ASSUME LogTypeInv, LockInv, NoLostCheckpoint, [Next]_vars
               PROVE  NoLostCheckpoint'
    OBVIOUS
  <2> USE LogConstants DEF NoLostCheckpoint, SourceFails, LogTypeInv, TypeOK
  <2>0. CASE UNCHANGED vars
    BY <2>0 DEF vars
  <2>1. ASSUME NEW c \in Clients, CallView(c) \/ View(c) \/ Commit(c) \/ CommitFails(c)
        PROVE  NoLostCheckpoint'
    BY <2>1 DEF CallView, View, Commit, CommitFails, lock, counters
  <2>2. ASSUME NEW c \in Clients, Record(c) PROVE NoLostCheckpoint'
    <3>1. client[c].tx.lines \in Nat
      BY DEF CallType
    <3> QED BY <2>2, <3>1 DEF Record, Enough
  <2>3. ASSUME NEW r \in Resources, CheckpointResource(r) PROVE NoLostCheckpoint'
    BY <2>3 DEF CheckpointResource, lock, counters
  <2>4. CASE EndCheckpoint
    BY <2>4 DEF EndCheckpoint
  <2>5. ASSUME StartCheckpoint, UNCHANGED <<counters, closed>>
        PROVE  NoLostCheckpoint'
    BY <2>5 DEF StartCheckpoint, counters
  <2>6. CASE OpsLock
    BY <2>6 DEF OpsLock, Lock
  <2>7. CASE OpsCheckpoint
    BY <2>7, <2>5 DEF OpsCheckpoint, Enough, counters
  <2>8. CASE TimerLock \/ CallCheckpoint \/ CallClose
    BY <2>8 DEF TimerLock, CallCheckpoint, CallClose, Lock, counters
  <2>9. CASE TimerCheckpoint
    BY <2>9, <2>5 DEF TimerCheckpoint, Owns, Unlock, lock, counters
  <2>10. CASE Checkpoint
    BY <2>10, <2>5 DEF Checkpoint
  <2>11. CASE Close
    BY <2>11 DEF Close, Owns, Unlock, counters
  <2>12. CASE TimerWake \/ Tick
    BY <2>12 DEF TimerWake, Tick, lock, counters
  <2> QED BY <2>0, <2>1, <2>2, <2>3, <2>4, <2>6, <2>7, <2>8, <2>9, <2>10, <2>11, <2>12
             DEF Next, Serve, Writing
<1> QED BY <1>1, <1>2, LockInvariant, PTL DEF Spec

\* A checkpoint scheduled by operations follows at least that many operations:
\* a second goroutine that was started for it finds too few and gives up.
SpacedInv ==
    writer = "ops" /\ wpos = "checkpoint" => ops - last >= OpsThreshold

\* However many goroutines are started, checkpoints scheduled by operations
\* stay that many logged operations apart (provider.go:150-153).
THEOREM CheckpointsAreSpaced == Spec => CheckpointsSpaced
<1> DEFINE Spaced == writer = "ops" /\ wpos = "checkpoint" /\ wpos' = "none"
                        => last' - last >= OpsThreshold
<1>1. Init => SpacedInv
  BY DEF Init, SpacedInv
<1>2. LogTypeInv /\ LockInv /\ SpacedInv /\ [Next]_vars => SpacedInv' /\ [Spaced]_vars
  <2> SUFFICES ASSUME LogTypeInv, LockInv, SpacedInv, [Next]_vars
               PROVE  SpacedInv' /\ (Next => Spaced)
    BY DEF vars
  <2> USE LogConstants DEF SpacedInv, LogTypeInv, TypeOK
  <2>0. CASE UNCHANGED vars
    BY <2>0 DEF vars
  <2>1. ASSUME NEW c \in Clients, CallView(c) \/ View(c) \/ CommitFails(c) \/ Commit(c)
        PROVE  SpacedInv' /\ Spaced
    BY <2>1 DEF CallView, View, Commit, CommitFails, lock, counters
  <2>2. ASSUME NEW c \in Clients, Record(c) PROVE SpacedInv' /\ Spaced
    BY <2>2 DEF LockInv, Record
  <2>3. ASSUME NEW r \in Resources, CheckpointResource(r) PROVE SpacedInv' /\ Spaced
    BY <2>3 DEF CheckpointResource, lock, counters
  <2>4. CASE EndCheckpoint
    BY <2>4 DEF EndCheckpoint, Unlock
  <2>5. ASSUME wpos = "lock", writer # "ops" \/ Enough(ops),
               StartCheckpoint, UNCHANGED counters
        PROVE  SpacedInv' /\ Spaced
    BY <2>5 DEF StartCheckpoint, Unlock, Enough, counters
  <2>6. CASE OpsLock \/ TimerLock \/ CallCheckpoint \/ CallClose
    BY <2>6 DEF LockInv, OpsLock, TimerLock, CallCheckpoint, CallClose, Lock
  <2>7. CASE OpsCheckpoint
    BY <2>7, <2>5 DEF OpsCheckpoint, Unlock, counters
  <2>8. CASE TimerCheckpoint
    BY <2>8, <2>5 DEF TimerCheckpoint, Owns, Unlock, lock, counters
  <2>9. CASE Checkpoint
    BY <2>9, <2>5 DEF Checkpoint, Owns
  <2>10. CASE Close
    BY <2>10 DEF Close, Owns, Unlock
  <2>11. CASE TimerWake \/ Tick
    BY <2>11 DEF TimerWake, Tick, lock, counters
  <2> QED BY <2>0, <2>1, <2>2, <2>3, <2>4, <2>6, <2>7, <2>8, <2>9, <2>10, <2>11
             DEF Next, Serve, Writing
<1> QED BY <1>1, <1>2, LockInvariant, PTL DEF Spec, CheckpointsSpaced

-----------------------------------------------------------------------------
(* The log can be audited. *)

\* Whether the lease of slot s is in the page pg, as a number.
Has(pg, s) == IF pg[s[2]] = s[3] THEN 1 ELSE 0
InSource(s) == Has(source[s[1]].page, s)

\* The clients whose transaction is committed and not yet recorded; those that
\* will add slot s to the log and those that will take it out.
Recording == {c \in Clients : client[c].phase = "record"}
Adds(s)   == {c \in Recording : client[c].tx.effects[s] = 1}
Takes(s)  == {c \in Recording : client[c].tx.effects[s] = -1}

\* CheckpointAgrees made inductive: between two checkpoints the log lags behind
\* the source by exactly what the clients with the read lock will record, and a
\* running checkpoint has written the source's leases of the resources it has
\* visited.
AuditInv ==
    /\ IsFiniteSet(Recording)
    /\ \A c \in Recording, s \in Slots : client[c].tx.effects[s] \in {-1, 0, 1}
    /\ synced => \A s \in Slots :
          logged[s] + Cardinality(Adds(s)) - Cardinality(Takes(s)) = InSource(s)
    /\ wpos = "checkpoint" /\ cp.complete => \A s \in Slots :
          cp.seen[s] = IF s[1] \in cp.left THEN 0 ELSE InSource(s)

\* The effects that record prints of an operation are what it changes in the
\* page: its slots gained less its slots lost.
LEMMA OpEffects ==
    ASSUME NEW r \in Resources, NEW pg \in Page, NEW op \in PageOps(pg), NEW s \in Slots
    PROVE  /\ Effects(r, op)[s] \in {-1, 0, 1}
           /\ s[1] # r => Effects(r, op)[s] = 0
           /\ s[1] = r => Effects(r, op)[s] = Has(Apply(pg, op), s) - Has(pg, s)
<1>1. s[2] \in Instances /\ s[3] \in {"active", "released"}
  BY DEF Slots
<1>2. Effects(r, op)[s] = IF s[1] = r /\ ~Renew(op)
                          THEN Is(op.lease, s) - Is(op.previous, s) ELSE 0
  BY DEF Effects
<1>3. Apply(pg, op)[s[2]] = IF s[2] = op.lease.inst THEN op.lease.status
                            ELSE IF s[2] = op.previous.inst THEN "none" ELSE pg[s[2]]
  BY <1>1 DEF Apply
<1>4. Is(op.lease, s) \in {0, 1} /\ Is(op.previous, s) \in {0, 1}
  BY DEF Is
<1>5. ASSUME s[1] = r PROVE Effects(r, op)[s] = Has(Apply(pg, op), s) - Has(pg, s)
  <2>1. CASE \E i \in {j \in Instances : pg[j] = "none"}, st \in {"active", "queued"} :
                op = Op("create", NoEntry, Entry(i, st))
    <3>1. PICK i \in {j \in Instances : pg[j] = "none"}, st \in {"active", "queued"} :
                op = Op("create", NoEntry, Entry(i, st))
      BY <2>1
    <3>2. /\ op.type = "create" /\ op.lease.inst = i /\ op.lease.status = st
          /\ op.previous.inst = None /\ op.previous.status = "none"
      BY <3>1 DEF Op, Entry, NoEntry
    <3> QED BY <1>1, <1>2, <1>3, <1>5, <3>1, <3>2, LogConstants DEF Renew, Is, Has
  <2>2. CASE \E i \in Instances, st \in Statuses :
                op = Op("update", Entry(i, pg[i]), Entry(i, st))
    <3>1. PICK i \in Instances, st \in Statuses :
                op = Op("update", Entry(i, pg[i]), Entry(i, st))
      BY <2>2
    <3>2. /\ op.lease.inst = i /\ op.lease.status = st
          /\ op.previous.inst = i /\ op.previous.status = pg[i]
          /\ op.lease = Entry(i, st) /\ op.previous = Entry(i, pg[i]) /\ op.type = "update"
      BY <3>1 DEF Op, Entry
    <3>3. Renew(op) <=> st = pg[i]
      BY <3>2 DEF Renew, Entry
    <3> QED BY <1>1, <1>2, <1>3, <1>5, <3>2, <3>3 DEF Is, Has
  <2>3. CASE \E i \in {j \in Instances : pg[j] = "released"},
                q \in {j \in Instances : pg[j] = "none"} :
                op = Op("update", Entry(i, "released"), Entry(q, "active"))
    <3>1. PICK i \in {j \in Instances : pg[j] = "released"},
               q \in {j \in Instances : pg[j] = "none"} :
                op = Op("update", Entry(i, "released"), Entry(q, "active"))
      BY <2>3
    <3>2. /\ op.lease.inst = q /\ op.lease.status = "active"
          /\ op.previous.inst = i /\ op.previous.status = "released" /\ op.type = "update"
      BY <3>1 DEF Op, Entry
    <3>3. ~Renew(op) /\ i # q
      BY <3>1, <3>2 DEF Renew
    <3> QED BY <1>1, <1>2, <1>3, <1>5, <3>1, <3>2, <3>3 DEF Is, Has
  <2>4. CASE \E i \in {j \in Instances : pg[j] # "none"} :
                op = Op("delete", Entry(i, pg[i]), NoEntry)
    <3>1. PICK i \in {j \in Instances : pg[j] # "none"} :
                op = Op("delete", Entry(i, pg[i]), NoEntry)
      BY <2>4
    <3>2. /\ op.lease.inst = None /\ op.lease.status = "none" /\ op.type = "delete"
          /\ op.previous.inst = i /\ op.previous.status = pg[i]
      BY <3>1 DEF Op, Entry, NoEntry
    <3> QED BY <1>1, <1>2, <1>3, <1>5, <3>1, <3>2, LogConstants DEF Renew, Is, Has
  <2> QED BY <2>1, <2>2, <2>3, <2>4 DEF PageOps
<1> QED BY <1>2, <1>4, <1>5

\* A new element adds one, an old one that leaves takes one away.
LEMMA CardStep ==
    ASSUME NEW S, IsFiniteSet(S), NEW x
    PROVE  /\ Cardinality(S) \in Nat /\ IsFiniteSet(S \cup {x}) /\ IsFiniteSet(S \ {x})
           /\ x \notin S => Cardinality(S \cup {x}) = Cardinality(S) + 1
           /\ x \in S => Cardinality(S \ {x}) = Cardinality(S) - 1
BY FS_AddElement, FS_RemoveElement, FS_CardinalityType

\* The clients that will record something are finitely many.
LEMMA RecordingFinite ==
    ASSUME IsFiniteSet(Recording), NEW s
    PROVE  IsFiniteSet(Adds(s)) /\ IsFiniteSet(Takes(s))
           /\ Cardinality(Adds(s)) \in Nat /\ Cardinality(Takes(s)) \in Nat
<1>1. Adds(s) \subseteq Recording /\ Takes(s) \subseteq Recording
  BY DEF Adds, Takes
<1> QED BY <1>1, FS_Subset, FS_CardinalityType

\* A commit makes the log lag behind by its effects.
LEMMA AuditCommit ==
    ASSUME LogTypeInv, LockInv, AuditInv, NEW c \in Clients, Commit(c)
    PROVE  AuditInv'
<1> DEFINE r == client[c].res
           pg == source[r].page
<1>1. PICK tx \in Txs(r, pg) :
        /\ source' = [source EXCEPT ![r] = [rev |-> @.rev + 1, page |-> tx.page]]
        /\ Enter(c, [client[c] EXCEPT !.phase = "record", !.tx =
                         [effects |-> tx.effects, lines |-> tx.lines]])
  BY DEF Commit, Committed
<1>2. /\ client[c].phase = "commit" /\ writer = None
      /\ UNCHANGED <<writer, wpos, cp, logged, synced>>
  BY DEF Commit, Committed, checkpoint
<1>3. /\ r \in Resources /\ pg \in Page /\ client[c] \in CallType
  BY <1>2 DEF LogTypeInv, TypeOK
<1>4. PICK op \in PageOps(pg) :
          tx = [page |-> Apply(pg, op), effects |-> Effects(r, op), lines |-> Lines(op)]
  BY DEF Txs
<1>5. tx.page = Apply(pg, op) /\ tx.effects = Effects(r, op)
  BY <1>4
<1>6. /\ client'[c].phase = "record" /\ client'[c].tx.effects = tx.effects
      /\ \A d \in Clients \ {c} : client'[d] = client[d]
  BY <1>1, <1>3 DEF Enter, CallType, LogTypeInv, TypeOK
<1>7. /\ source'[r].page = tx.page
      /\ \A t \in Resources \ {r} : source'[t] = source[t]
  BY <1>1, <1>3 DEF LogTypeInv, TypeOK
<1>8. c \notin Recording /\ Recording' = Recording \cup {c}
  BY <1>2, <1>6 DEF Recording
<1>9. IsFiniteSet(Recording)'
  BY <1>8, CardStep DEF AuditInv
<1>10. ASSUME NEW s \in Slots
       PROVE  /\ tx.effects[s] \in {-1, 0, 1}
              /\ tx.effects[s] = InSource(s)' - InSource(s)
              /\ InSource(s) \in Int
  <2>1. /\ Effects(r, op)[s] \in {-1, 0, 1}
        /\ s[1] # r => Effects(r, op)[s] = 0
        /\ s[1] = r => Effects(r, op)[s] = Has(Apply(pg, op), s) - Has(pg, s)
    BY <1>3, OpEffects
  <2>2. s[1] \in Resources
    BY DEF Slots
  <2>3. /\ s[1] = r => InSource(s) = Has(pg, s) /\ InSource(s)' = Has(Apply(pg, op), s)
        /\ s[1] # r => InSource(s)' = InSource(s)
    BY <1>5, <1>7, <2>2 DEF InSource, Has
  <2>4. InSource(s) \in Int /\ InSource(s)' \in Int
    BY DEF InSource, Has
  <2> QED BY <1>5, <2>1, <2>3, <2>4
<1>11. \A d \in Recording', s \in Slots : client'[d].tx.effects[s] \in {-1, 0, 1}
  BY <1>6, <1>8, <1>10 DEF AuditInv, Recording
<1>12. ASSUME synced', NEW s \in Slots
       PROVE  logged'[s] + Cardinality(Adds(s)') - Cardinality(Takes(s)') = InSource(s)'
  <2>1. logged[s] + Cardinality(Adds(s)) - Cardinality(Takes(s)) = InSource(s)
    BY <1>2, <1>12 DEF AuditInv
  <2>2. logged'[s] = logged[s] /\ logged[s] \in Int
    BY <1>2 DEF LogTypeInv, TypeOK
  <2>3. /\ c \notin Adds(s) /\ c \notin Takes(s)
        /\ Adds(s)' = IF tx.effects[s] = 1 THEN Adds(s) \cup {c} ELSE Adds(s)
        /\ Takes(s)' = IF tx.effects[s] = -1 THEN Takes(s) \cup {c} ELSE Takes(s)
    BY <1>6, <1>8 DEF Adds, Takes, Recording
  <2>4. /\ Cardinality(Adds(s)) \in Nat /\ Cardinality(Takes(s)) \in Nat
        /\ Cardinality(Adds(s) \cup {c}) = Cardinality(Adds(s)) + 1
        /\ Cardinality(Takes(s) \cup {c}) = Cardinality(Takes(s)) + 1
    BY <2>3, RecordingFinite, CardStep DEF AuditInv
  <2>5. InSource(s)' = InSource(s) + tx.effects[s] /\ tx.effects[s] \in {-1, 0, 1}
        /\ InSource(s) \in Int
    <3>1. InSource(s)' \in Int
      BY DEF InSource, Has
    <3> QED BY <1>10, <3>1
  <2>6. CASE tx.effects[s] = 1
    BY <2>1, <2>2, <2>3, <2>4, <2>5, <2>6
  <2>7. CASE tx.effects[s] = -1
    BY <2>1, <2>2, <2>3, <2>4, <2>5, <2>7
  <2>8. CASE tx.effects[s] = 0
    BY <2>1, <2>2, <2>3, <2>4, <2>5, <2>8
  <2> QED BY <2>5, <2>6, <2>7, <2>8
<1>13. wpos' # "checkpoint"
  BY <1>2 DEF LockInv
<1> QED BY <1>9, <1>11, <1>12, <1>13 DEF AuditInv

\* A record catches up.
LEMMA AuditRecord ==
    ASSUME LogTypeInv, LockInv, AuditInv, NEW c \in Clients, Record(c)
    PROVE  AuditInv'
<1> DEFINE e == client[c].tx.effects
<1>1. /\ client[c].phase = "record" /\ client' = [client EXCEPT ![c] = Idle]
      /\ logged' = Plus(logged, e) /\ UNCHANGED <<source, wpos, cp, synced>>
  BY DEF Record, Return, Enter
<1>2. c \in Recording /\ Recording' = Recording \ {c}
  BY <1>1, ZeroTypes DEF Recording, LogTypeInv, TypeOK
<1>3. \A d \in Clients \ {c} : client'[d] = client[d]
  BY <1>1 DEF LogTypeInv, TypeOK
<1>4. IsFiniteSet(Recording)'
  BY <1>2, CardStep DEF AuditInv
<1>5. \A d \in Recording', s \in Slots : client'[d].tx.effects[s] \in {-1, 0, 1}
  BY <1>2, <1>3 DEF AuditInv, Recording
<1>6. ASSUME synced', NEW s \in Slots
      PROVE  logged'[s] + Cardinality(Adds(s)') - Cardinality(Takes(s)') = InSource(s)'
  <2>1. logged[s] + Cardinality(Adds(s)) - Cardinality(Takes(s)) = InSource(s)
    BY <1>1, <1>6 DEF AuditInv
  <2>2. /\ logged'[s] = logged[s] + e[s] /\ logged[s] \in Int
        /\ e[s] \in {-1, 0, 1} /\ InSource(s)' = InSource(s) /\ InSource(s) \in Int
    BY <1>1, <1>2 DEF LogTypeInv, TypeOK, Plus, AuditInv, InSource, Has
  <2>3. /\ c \in Adds(s) <=> e[s] = 1
        /\ c \in Takes(s) <=> e[s] = -1
        /\ Adds(s)' = Adds(s) \ {c} /\ Takes(s)' = Takes(s) \ {c}
    BY <1>2, <1>3 DEF Adds, Takes, Recording
  <2>4. /\ Cardinality(Adds(s)) \in Nat /\ Cardinality(Takes(s)) \in Nat
        /\ c \in Adds(s) => Cardinality(Adds(s) \ {c}) = Cardinality(Adds(s)) - 1
        /\ c \in Takes(s) => Cardinality(Takes(s) \ {c}) = Cardinality(Takes(s)) - 1
        /\ c \notin Adds(s) => Adds(s) \ {c} = Adds(s)
        /\ c \notin Takes(s) => Takes(s) \ {c} = Takes(s)
    BY RecordingFinite, CardStep DEF AuditInv
  <2>5. CASE e[s] = 1
    <3>0. c \in Adds(s) /\ c \notin Takes(s)
      BY <2>3, <2>5
    <3>1. /\ Adds(s)' = Adds(s) \ {c} /\ Takes(s)' = Takes(s)
      BY <2>3, <2>4, <3>0
    <3>2. /\ Cardinality(Adds(s)') = Cardinality(Adds(s)) - 1
          /\ Cardinality(Takes(s)') = Cardinality(Takes(s))
      BY <2>4, <3>0, <3>1
    <3> QED BY <2>1, <2>2, <2>4, <2>5, <3>2
  <2>6. CASE e[s] = -1
    <3>0. c \notin Adds(s) /\ c \in Takes(s)
      BY <2>3, <2>6
    <3>1. /\ Adds(s)' = Adds(s) /\ Takes(s)' = Takes(s) \ {c}
      BY <2>3, <2>4, <3>0
    <3>2. /\ Cardinality(Adds(s)') = Cardinality(Adds(s))
          /\ Cardinality(Takes(s)') = Cardinality(Takes(s)) - 1
      BY <2>4, <3>0, <3>1
    <3> QED BY <2>1, <2>2, <2>4, <2>6, <3>2
  <2>7. CASE e[s] = 0
    <3>0. c \notin Adds(s) /\ c \notin Takes(s)
      BY <2>3, <2>7
    <3>1. /\ Adds(s)' = Adds(s) /\ Takes(s)' = Takes(s)
      BY <2>3, <2>4, <3>0
    <3>2. /\ Cardinality(Adds(s)') = Cardinality(Adds(s))
          /\ Cardinality(Takes(s)') = Cardinality(Takes(s))
      BY <2>4, <3>0, <3>1
    <3> QED BY <2>1, <2>2, <2>4, <2>7, <3>2
  <2> QED BY <2>2, <2>5, <2>6, <2>7
<1>7. wpos' # "checkpoint"
  BY <1>1, <1>2 DEF LockInv, Recording
<1> QED BY <1>4, <1>5, <1>6, <1>7 DEF AuditInv

\* A step that commits and records nothing leaves the balance as it is.
LEMMA AuditSame ==
    ASSUME AuditInv, Recording' = Recording, UNCHANGED <<source, logged, synced>>,
           \A c \in Recording : client'[c].tx = client[c].tx,
           wpos' = "checkpoint" /\ cp'.complete => \A s \in Slots :
               cp'.seen[s] = IF s[1] \in cp'.left THEN 0 ELSE InSource(s)
    PROVE  AuditInv'
<1>1. \A s : Adds(s)' = Adds(s) /\ Takes(s)' = Takes(s) /\ InSource(s)' = InSource(s)
  BY DEF Adds, Takes, InSource
<1>2. \A c \in Recording', s \in Slots : client'[c].tx.effects[s] \in {-1, 0, 1}
  BY DEF AuditInv
<1>3. IsFiniteSet(Recording') /\ IsFiniteSet(Recording)
  BY DEF AuditInv
<1>4. synced' => \A s \in Slots :
          logged'[s] + Cardinality(Adds(s)') - Cardinality(Takes(s)') = InSource(s)'
  BY <1>1 DEF AuditInv
<1> QED BY <1>1, <1>2, <1>3, <1>4 DEF AuditInv

\* The balance is kept by every step.
LEMMA AuditNext == LogTypeInv /\ LockInv /\ AuditInv /\ [Next]_vars => AuditInv'
<1> SUFFICES ASSUME LogTypeInv, LockInv, AuditInv, [Next]_vars PROVE AuditInv'
  OBVIOUS
\* A step that neither changes the client nor starts or advances a checkpoint.
<1>s. ASSUME UNCHANGED <<source, client, logged, synced, cp>>, wpos' = wpos \/ wpos' # "checkpoint"
      PROVE  AuditInv'
  <2>1. Recording' = Recording
    BY <1>s DEF Recording
  <2> QED BY <1>s, <2>1, AuditSame DEF AuditInv
\* A step of a client that neither starts nor ends in "record".
<1>c. ASSUME NEW c \in Clients, UNCHANGED <<source, wpos, logged, synced, cp>>,
             client[c].phase # "record", client'[c].phase # "record",
             \A d \in Clients \ {c} : client'[d] = client[d]
      PROVE  AuditInv'
  <2>1. Recording' = Recording /\ \A d \in Recording : client'[d].tx = client[d].tx
    BY <1>c DEF Recording
  <2> QED BY <1>c, <2>1, AuditSame DEF AuditInv
<1>0. CASE UNCHANGED vars
  BY <1>0, <1>s DEF vars
<1>1. ASSUME NEW c \in Clients, CallView(c) \/ View(c) \/ CommitFails(c) PROVE AuditInv'
  <2>1. /\ client[c].phase # "record" /\ UNCHANGED <<source, wpos, logged, synced, cp>>
    BY <1>1 DEF CallView, View, CommitFails, lock, checkpoint
  <2>2. \E call : Enter(c, call) /\ call.phase # "record"
    <3>1. CASE CallView(c)
      <4>1. \A r : [Idle EXCEPT !.phase = "view", !.res = r].phase = "view"
        BY DEF Idle
      <4> QED BY <3>1, <4>1 DEF CallView
    <3>2. CASE View(c)
      <4>1. [client[c] EXCEPT !.phase = "commit", !.rev = source[client[c].res].rev].phase = "commit"
        BY DEF LogTypeInv, TypeOK, CallType
      <4> QED BY <3>2, <4>1, ZeroTypes DEF View, Return
    <3>3. CASE CommitFails(c)
      BY <3>3, ZeroTypes DEF CommitFails, Return
    <3> QED BY <1>1, <3>1, <3>2, <3>3
  <2>3. client'[c].phase # "record" /\ \A d \in Clients \ {c} : client'[d] = client[d]
    BY <2>2 DEF Enter, LogTypeInv, TypeOK
  <2> QED BY <1>c, <2>1, <2>3
<1>2. ASSUME NEW c \in Clients, Commit(c) PROVE AuditInv'
  BY <1>2, AuditCommit
<1>3. ASSUME NEW c \in Clients, Record(c) PROVE AuditInv'
  BY <1>3, AuditRecord
<1>4. ASSUME NEW r \in Resources, CheckpointResource(r) PROVE AuditInv'
  <2>1. /\ wpos = "checkpoint" /\ r \in cp.left /\ cp \in [left : SUBSET Resources,
              seen : [Slots -> Int], complete : BOOLEAN]
        /\ UNCHANGED <<source, client, logged, synced>>
    BY <1>4 DEF CheckpointResource, LogTypeInv, TypeOK
  <2>2. Recording' = Recording
    BY <2>1 DEF Recording
  <2>3. ASSUME cp'.complete, NEW s \in Slots
        PROVE  cp'.seen[s] = IF s[1] \in cp'.left THEN 0 ELSE InSource(s)
    <3>1. cp' = [cp EXCEPT !.left = @ \ {r}, !.seen = Plus(@, Written(r, source[r].page))]
      <4>1. [cp EXCEPT !.left = @ \ {r}, !.complete = FALSE].complete = FALSE
        BY <2>1
      <4> QED BY <1>4, <2>3, <4>1 DEF CheckpointResource
    <3>2. /\ cp'.left = cp.left \ {r} /\ cp'.complete = cp.complete
          /\ cp'.seen = Plus(cp.seen, Written(r, source[r].page))
      BY <2>1, <3>1
    <3>3. cp.seen[s] = IF s[1] \in cp.left THEN 0 ELSE InSource(s)
      BY <2>1, <2>3, <3>2 DEF AuditInv
    <3>4. /\ cp'.seen[s] = cp.seen[s] + Written(r, source[r].page)[s]
          /\ Written(r, source[r].page)[s] = IF s[1] = r THEN InSource(s) ELSE 0
          /\ InSource(s) \in Int
      BY <3>2 DEF Plus, Written, InSource, Has
    <3> QED BY <2>1, <3>2, <3>3, <3>4
  <2> QED BY <2>1, <2>2, <2>3, AuditSame
<1>5. CASE EndCheckpoint
  <2>1. /\ wpos = "checkpoint" /\ cp.left = {} /\ logged' = cp.seen /\ synced' = cp.complete
        /\ UNCHANGED <<source, client>> /\ wpos' = "none"
    BY <1>5 DEF EndCheckpoint, Unlock
  <2>2. Recording = {} /\ Recording' = {}
    BY <2>1 DEF LockInv, Recording
  <2>3. \A s : Adds(s)' = {} /\ Takes(s)' = {} /\ InSource(s)' = InSource(s)
    BY <2>1, <2>2 DEF Adds, Takes, InSource
  <2>4. Cardinality({}) = 0 /\ IsFiniteSet(Recording')
    BY <2>2, FS_EmptySet
  <2>5. ASSUME synced', NEW s \in Slots
        PROVE  logged'[s] + Cardinality(Adds(s)') - Cardinality(Takes(s)') = InSource(s)'
    <3>1. logged'[s] = InSource(s) /\ InSource(s) \in Int
      BY <2>1, <2>5 DEF AuditInv, InSource, Has
    <3> QED BY <2>3, <2>4, <3>1
  <2> QED BY <2>1, <2>2, <2>4, <2>5 DEF AuditInv
<1>6. ASSUME StartCheckpoint, UNCHANGED <<source, client>> PROVE AuditInv'
  <2>1. CASE cp' = [left |-> Resources, seen |-> Nothing, complete |-> TRUE]
             /\ UNCHANGED <<logged, synced>>
    <3>1. Recording' = Recording
      BY <1>6 DEF Recording
    <3>2. \A s \in Slots : cp'.seen[s] = 0 /\ s[1] \in cp'.left
      BY <2>1 DEF Nothing, Slots
    <3> QED BY <1>6, <2>1, <3>1, <3>2, AuditSame
  <2>2. CASE Unlock /\ UNCHANGED checkpoint
    BY <1>6, <1>s, <2>2 DEF Unlock, checkpoint
  <2> QED BY <1>6, <2>1, <2>2 DEF StartCheckpoint
<1>7. CASE OpsLock \/ TimerLock \/ CallCheckpoint \/ CallClose
  BY <1>7, <1>s DEF OpsLock, TimerLock, CallCheckpoint, CallClose, Lock, checkpoint
<1>8. CASE OpsCheckpoint
  BY <1>8, <1>6, <1>s DEF OpsCheckpoint, Unlock, checkpoint
<1>9. CASE TimerCheckpoint
  BY <1>9, <1>6, <1>s DEF TimerCheckpoint, Unlock, lock, checkpoint
<1>10. CASE Checkpoint
  BY <1>10, <1>6 DEF Checkpoint
<1>11. CASE Close \/ TimerWake \/ Tick
  BY <1>11, <1>s DEF Close, TimerWake, Tick, Unlock, lock, checkpoint
<1> QED BY <1>0, <1>1, <1>2, <1>3, <1>4, <1>5, <1>7, <1>8, <1>9, <1>10, <1>11
           DEF Next, Serve, Writing

\* The log can be audited: every complete checkpoint after the first lists
\* exactly the leases that the one before and the transactions recorded since
\* add up to, however many clients commit at the same time.
THEOREM CheckpointsAgree == Spec => []CheckpointAgrees
<1>1. Init => AuditInv
  <2> SUFFICES ASSUME Init PROVE AuditInv
    OBVIOUS
  <2>1. Recording = {}
    BY ZeroTypes DEF Init, Recording
  <2> QED BY <2>1, FS_EmptySet DEF Init, AuditInv
<1>2. LogTypeInv /\ LockInv /\ AuditInv => CheckpointAgrees
  <2> SUFFICES ASSUME LogTypeInv, LockInv, AuditInv,
                      wpos = "checkpoint", cp.left = {}, cp.complete, synced
               PROVE  cp.seen = logged
    BY DEF CheckpointAgrees
  <2>1. Recording = {}
    BY DEF LockInv, Recording
  <2>2. \A s : Adds(s) = {} /\ Takes(s) = {}
    BY <2>1 DEF Adds, Takes
  <2>3. Cardinality({}) = 0
    BY FS_EmptySet
  <2>4. cp.seen \in [Slots -> Int] /\ logged \in [Slots -> Int]
    BY DEF LogTypeInv, TypeOK
  <2>5. ASSUME NEW s \in Slots PROVE cp.seen[s] = logged[s]
    <3>1. cp.seen[s] = InSource(s) /\ logged[s] \in Int
      BY <2>4 DEF AuditInv
    <3>2. logged[s] + Cardinality(Adds(s)) - Cardinality(Takes(s)) = InSource(s)
      BY DEF AuditInv
    <3>3. Cardinality(Adds(s)) = 0 /\ Cardinality(Takes(s)) = 0
      BY <2>2, <2>3
    <3> QED BY <3>1, <3>2, <3>3
  <2> QED BY <2>4, <2>5
<1> QED BY <1>1, <1>2, AuditNext, LockInvariant, PTL DEF Spec
=============================================================================
