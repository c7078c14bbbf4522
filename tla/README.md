# resourceful: a TLA+ model of lease management

This directory holds TLA+ modules that model resourceful's lease server, its clients (the
runner and the enforcer service) and its policies, the TLC configurations that check
them, and proofs that TLAPS checks. `PROJECT.json` lists
components, runs, mutants, the map from definitions to source lines, findings, hazards
and theorems.

    tlc -workers 2 -config MCGuardian_race.cfg MCGuardian     # one run
    tlapm GuardianProofs.tla                                  # one proof module

## 1. The system

A *guardian* server grants leases on finite resources. Policies say which requests
concern which resource, how many leases it has (limit), how long a lease lasts
(duration), how long its slot stays occupied after its end (decay), and whether a slot
is one instance of a program or one consumer (host and user) with all its instances
(strategy). Clients keep their leases by renewing them: `resourceful run` wraps one
program (runner); the enforcer, a Windows service, watches all programs of a machine.

| Component | State | Operations | Interacts with | Hard behaviour | Correct when |
|---|---|---|---|---|---|
| lease, leaseutil | lease sets, accumulator | Refresh, Create, Update, Release, sort | server | two-pass replacement with counters that panic, off-by-one at limit, expiry and decay | never more held than the limit, no idle slot, first come first served |
| guardian/server | none of its own; goroutine per request, ticker | acquire, release, Purge, refreshLeases, leases and stream handlers | lease provider, policies, streams | view, compute, commit with retries, many at once | no lost update, every request answered |
| memprov, boltprov | page of leases and revision | LeaseView, LeaseCommit | server, logprov | optimistic locking, crash, I/O failure | a commit applies to the page it was computed from |
| logprov | RW mutex, counters, last checkpoint, log | LeaseView, LeaseCommit, Checkpoint, Close; two schedules | server, source provider | lock upgrade, double-checked schedule, close while waiting | checkpoints agree with the log, none lost, nobody blocked |
| guardian/maintainer | started?, last state, listeners | Acquire, Release, Stop, Close, Listen; run | client, runner, enforcer | shutdown during a request, mutex held over network calls and channel sends | stops when told, releases what it has, listeners up to date |
| guardian/client | endpoint, endpoint set | Acquire, Release, Policies, failover | maintainer, endpoints | repeated and late requests | a call ends; at most one failover |
| runner | program, warned?, restored?, r.mutex | Run, run, handlers of lease states, callbacks of dialogs, execute | maintainer, leaseui, the user | callbacks that take the mutex a sender holds, stop before start, return without draining | the program runs only with a lease; Run returns |
| leaseui | current directive, channel | Run, Change, CompareAndChange, stop | runner, user | user closes the window while it changes; a directive sent with the mutex held | no deadlock, last directive shown |
| policy | none | Match, Filter, Diff, Hash; Limit, Duration, Decay, Refresh | server, enforcer | two matchers that treat case and empty values differently; hashes over a map | the scan lists every process a policy may apply to |
| fsprov, cacheprov | files, cache | Policies, SetPolicies | server, enforcer | several files, no transaction, crash in a write | what is loaded contains what was there all along |
| enforcer: policies | policies in force, cache directory | Load, Update | guardian, sessions | crash and failed writes between two files | the sessions learn of every change |
| enforcer: processes | managed processes, invocations | Enforce, Stop, manage, maintain | maintainer, operating system | processes that exit at any time and reuse IDs; Enforce waits for goroutines | every matching process is managed once, nobody is killed without cause |
| enforcer: sessions | sessions, their channels, policies | Scan, UpdatePolicies, Connect, Disconnect, Stop | user interface processes, policies | an update while a session connects; a full channel; user interfaces that exit | sessions have the current policies; Stop returns |
| streams, tray, cmd, stats, installation | - | - | - | order of published snapshots | - |

## 2. Modules

`Lease.tla`: the lease record with the fields that decide anything (status, started,
renewed, released and the policy's limit, duration, decay); `Consumptive`, `Expired`,
`Decayed`, `Less` (the order of a lease set) and `CanActivate`. A lease set is a
function from instances to leases, `NoLease` where there is none.

`Guardian.tla`: the lease engine for one resource. `page` is the provider's page;
`calls[x]` is what handler goroutine `x` serves and how far it is; the other variables
are the transaction being computed (`lease.Tx`), the loop of `Refresh` it is in, the
accumulator and the list of replacements.

| Action | Code |
|---|---|
| `AcquireRequest`, `ReleaseRequest`, `RefreshRequest`, `PurgeRequest` | the handlers, the ticker, `collectSnapshot`, `Purge` |
| `View`, `ViewError`, `Begin` | `LeaseView`, its failure, `time.Now` and `NewTx` |
| `RefreshDecayed` ... `RefreshQueued`, `EndPass1` | first pass of `leaseutil.Refresh`, one iteration each |
| `ReplaceReleased`, `EndPass2` | second pass (`ProcessReverse`, which walks forward) |
| `AcquireReleased`, `AcquireRenew`, `AcquireReplace`, `AcquireCreate` | the four outcomes of `Server.acquire` |
| `Release` | `Tx.Release` and the start of the second `Refresh` |
| `Finish`, `CommitEmpty`, `Commit`, `CommitConflict`, `CommitError` | end of the transaction and `LeaseCommit` |
| `Crash`, `Tick` | the process dies and restarts; the clock |

`LogProvider.tla`: `logprov.Provider` around a source. `readers`, `writer` and `wpos`
are the `sync.RWMutex`; `waiting` counts goroutines started for `opsCheckpoint`; `timer`
is the goroutine of `durationCheckpoint`; `logged` is what a reader of the log takes
each slot to hold, reset by each checkpoint; `cp` is the checkpoint being written.

`LeaseMaintainer.tla`: `guardian.LeaseMaintainer` with its goroutines `run`, `fwd` (the
one that turns shutdown into a cancellation) and the one `Listen` starts; an owner with
two goroutines, as in the runner and in the enforcer's invocations: `main` (Acquire,
Listen, drain) and `stopper` (Release or Stop, then Close); the client's call with its
failover; and the guardian, which is external to the module: `granted` says whether it
holds a lease, `late` holds requests nobody waits for any more. `n` counts
acquisitions, `seen` and `forgotten` are history: `forgotten` says that the guardian may
hold a lease on account of an acquisition that was abandoned and not made good by a later
one. The owner may stop the maintainer at any time, before Acquire too, as the runner does
when its context ends early.

`LeaseUI.tla`: `leaseui.Manager` on Windows. `ui` is its loop on the main thread, with the
dialog it shows; `receiver` is the goroutine of one turn of the loop, which waits for the
next directive; `sender` is who holds `m.mutex` while it sends one. `Runner.tla` extends
it with the runner: `run` is the goroutine that handles lease states, `mutex` is `r.mutex`.

| Action | Code |
|---|---|
| `ShowNothing`, `Ready`, `Show`, `ShowFails` | `Manager.run`: wait for a lease state; take `m.mutex` for the model; show the dialog |
| `DialogEnds`, `UserClosed`, `NextDirective`, `UIEnds` | `Manager.Run` and the receiving goroutine |
| `BeginChange`, `EndChange`, `NoChange` | `Change` and `CompareAndChange`: take the mutex and set `current`; send |
| `HandleErrorStarting` ... `HandleUnexpected` | the cases of `Runner.run` and its handlers, up to their `Change` |
| `Change`, `Changed`, `Finish`, `Execute`, `RunFails` | the rest of a handler, and of the loop |
| `StopWaiting`, `Acknowledge`, `Compare`, `Compared` | the callbacks of the dialogs, which take `r.mutex` |
| `Release`, `StopUIDone`, `UIDone`, `RunEnds` | the goroutine that waits for the context; the end of `Run` |

`Policy.tla`: policies and criteria, and the two matchers, `Match` (policy package) and
`Filter` (the enforcer's scan). Strings are abstract: the two equivalences (`Lower` of
`strings.ToLower`, `Fold` of `strings.EqualFold`) and what a regular expression matches
with and without regard to case (`Regex`, `RegexFold`) are constants, and nothing relates
the one of a pair to the other: Go does not either (`[^a]` matches A, `(?i)[^a]` does not).
`Listed` are the properties of a process that the scan knows when it filters
(`EarlyKeys`): winproc collects users, sessions and times only for what passed.

`Enforcer.tla`: the enforcement goroutine of `Service.run`, `ProcessManager` and the
goroutine of each `Invocation`. `enforce` says where the goroutine is in
`ProcessManager.Enforce` or `Stop`; `inv` holds the invocations with the channel of their
maintainer.

| Action | Code |
|---|---|
| `Scan`, `ScanFails`, `Bookkeeping`, `NewInvocation`, `NewProcessFails`, `Backoff` | the passes of `Enforce` |
| `Stop`, `Stopped` | `Invocation.Stop`: cancel, and wait for the goroutine |
| `Receive`, `ReceiveAgain`, `Terminate`, `TerminateMissed`, `TerminateFails` | `Invocation.maintain`, by the state received and the outcome of `Process.Terminate` |
| `Cancelled`, `Released` | `maintain` ends; `manage` drains the channel and returns |
| `StopService`, `Shutdown`, `ServiceStopped`, `StartService` | `Service.Stop`, the end of `run`, `Service.Start` |

`PolicyManager.tla`: `PolicyManager.Load` and `Update` as `Service.run` calls them, and the
policy cache, file by file (`Truncate`, `Write`, `Remove`), with failures (`CacheFails`)
and a `Crash` between any two of them. `PolicyUpdates.tla` is the abstract specification
of the same goroutine, without cache and requests: what the sessions may rely on.
`PolicyManager` implements it (`Abstract`, with `updater <- Phase`).

`Sessions.tla` composes that abstract specification with the `SessionManager` and its
`Session` objects: it extends `PolicyUpdates`, and `Push` is the joint step of the policy
goroutine and `UpdatePolicies`.

| Action | Code |
|---|---|
| `Prime`, `Primed`, `Scan`, `ScannerEnds` | the session goroutine of `Service.run`, `SessionManager.Scan` |
| `Connect`, `ConnectFails`, `ForgetFailed`, `ReadPolicies`, `SendCurrent`, `SendLeases` | the goroutine `Scan` starts for a session |
| `Wait`, `Kill`, `Disconnected`, `Deliver` | the goroutines of `Connect`, and `Disconnect` |
| `StopSessions`, `StopSession`, `StopNext`, `ServiceStopped` | `SessionManager.Stop` and the end of `Service.run` |

`MCGuardian.tla`, `MCLogProvider.tla` and `MCEnforcer.tla` give the constants of the runs;
the other modules are checked as they are. Operators whose comment begins with "Mutant"
are not part of the specifications: each is a plausible bug in the operator that follows
it, and `PROJECT.json` names the property that detects it.

### Abstractions and why they are sound

* Resources are independent in `Guardian`: memprov has a mutex, revision and lease set
  for each. boltprov has one revision for all resources, so that a commit elsewhere
  makes a commit fail: `CommitError` has that outcome.
* A computation in `Guardian` reads and writes only the handler's private copy and the
  clock reading it started with. Steps of two computations commute, and the model runs
  one at a time; views, clock readings and commits interleave freely. All five loops
  of the server (`acquire`, `release`, `Purge`, `refreshLeases`, `collectSnapshot`)
  have the shape view, refresh, change, commit, and share the actions.
* The strategy is a constant. In the code each lease and request carries it; the
  policies that match a resource are taken to agree on it.
* `LogProvider` lets a client choose its transaction when the source commits it: the
  page has not changed since the view then, or the commit fails. A transaction has one
  operation; those of a longer one are committed at once and recorded by one call, so
  that only the number of lines differs. Taking the read lock and committing are one
  step, and printing the lines, counting them and giving the lock back are one step,
  because a writer can do nothing while the reader is in. `last.when` is set when
  checkpoint reads the clock: it is only read under the lock.
* `LeaseMaintainer` has one listener, as both owners do. What a state says is reduced
  to acquired, online, failed. Timer and requests have no durations: a timer may fire
  and a request may fail at any moment.
* `Runner` and `Enforcer` see the maintainer as `LeaseMaintainer` shows it to its owner: a
  channel of capacity one that carries states in order and is closed at the end. The
  runner's `shouldWarn`, which compares durations, is a choice. A directive is its type,
  since every type has one callback.
* `Enforcer` reads the scan's list and applies the first pass over it in one step: the
  pass looks at nothing that another goroutine writes. `m.skipped` only steers logging
  and is left out. The invocation map is indexed by process: an instance ID is a hash of
  the process, its user and its name. An exited process is not started again under the same
  unique ID; its process ID is.
* `PolicyManager` gives a policy two hashes at most: `Policy.Hash` ranges over a map, so
  that the hash of a policy with several properties may come out differently each time.
  A file is absent, cut off or whole; `ioutil.WriteFile` truncates and then writes: two steps.
* A message to a session is counted, not kept: `sent` is the last set of policies that
  was put into its channel. `stale` marks the two cases that the code leaves open, a full
  channel and an update that overtakes the session's first message.
* An object (`Invocation`, `Session`) that nobody refers to any more is free to be used
  again: Go allocates a new one.

## 3. Runs

Passing runs:

| Run | Instance | Shows |
|---|---|---|
| `guardian_race` | memprov with restarts, consumer strategy, 2 handlers, 3 instances of 2 consumers, limit 1, time to 3, 3 revisions | `WithinLimit`, `ViewIntegrity`, `SlotsHeldUntilDecay` whatever the interleaving; `NoIdleCapacity` where instances share a slot |
| `guardian_deep` | boltprov, instance strategy, 1 handler, 4 instances of 2 consumers, limit 2, time to 5, 6 revisions | the refresh algorithm: counters (`TypeOK`), `PanicFree`, `NoIdleCapacity`, `NoOvertaking` |
| `guardian_live` | boltprov with failures, 2 handlers, fairness | `CallsEnd`: every request is answered |
| `log` | 2 clients, 2 instances, threshold 2, interval 1 s, fairness | `CheckpointAgrees`, `CheckpointIsolated`, `CheckpointsSpaced`, `NoLostCheckpoint`, `DurationCheckpointed`, `OpenOperationsReturn` |
| `maintainer` | 3 acquisitions, buffer 1, lost, late and repeated requests, fairness | `NoSendOnClosed`, `ListenerUpToDate`, `ReleasedUnlessForgotten`, `StopReturns`, `OwnerEnds` |
| `enforcer` | 3 processes that share one process ID, one of them blocklisted, 2 policy sets, 2 invocations, failing scans, fairness | `NoInvocationLost`, `KilledForCause`, `LeaseEnds`, `StopReturns`, `EveryMatchWatched` |
| `policies` | 3 policies, 2 with unstable hashes, 4 served sets, crashes, fairness | `NoPolicyLost`, `CacheRestored`, and the refinement `PromisedUpdates` with its liveness |
| `sessions` | 1 user session, 2 Session objects, 1 policy set, channels of capacity 1, crashes, fairness | channels within their capacity (`TypeOK`), `StopReturns`, `InterfaceReturns` |
| `runner` | no constants: all behaviours of the abstraction, fairness | `DialogShown`, `AcknowledgementPending`, `NoProgramWithoutLease`, `RunReturns` |

The runs in which a statement of the repository is violated by the code:

| Run | Statement | What happens |
|---|---|---|
| `log_locked` | logprov/provider.go:91 "All other operations on the provider will block until the checkpoint has finished" | `durationCheckpoint` returns with the mutex locked when it finds the provider closed; later operations block for ever |
| `enforcer_scan` | enforcer/scan_windows.go:11 "Scan returns the set of running processes for which one or more policies might be applicable" | the filter is applied before users and times are collected: a policy on `user.*` or `process.creation` lists no process (`ScanMissesNothing`) |
| `runner_lost` | runner/run.go:13 "The program will only be run when and while an active lease for the program has been acquired" | run sends a second directive with both mutexes held while the main thread waits for one of them; no later state is handled, and the program runs on without its lease (`LostLeaseEndsProgram`) |

`ScanMissesNothing` would fail in other ways with other constants: an empty regular
expression, which Match takes to match everything and the scan refuses; regular
expressions that match less without regard to case; strings that are equal in lower case
and not under case folding (`strings.ToLower` of U+0130). The instance keeps to the order of
filter and collection.

Behaviour that the properties name as exceptions, for a reader of the code to judge:

* `Tx.Release` deletes a lease that is already decaying, so that its slot is free before
  the decay period ends: `SlotsHeldUntilDecay` excepts a release.
* A queued lease that is released just when its turn has come gets the slot in the first
  `Refresh` of that transaction and loses it again; its consumer's next lease takes it,
  past older leases of other consumers. `NoOvertaking` names the case (`ReleasesQueued`).
* The second pass of `Refresh` keeps one index over all consumers: a queued lease may be
  stored over another consumer's decaying lease. The counts stay right.
* An acquisition that shutdown interrupts, or that fails and is not followed by a granted
  one, may be carried out by the guardian and not be released, and after "lease not
  required" an earlier lease is forgotten (`forgotten`).
* When Release and Close return before Acquire is called, nobody stops what Acquire starts
  and the owner's channel stays open: `OwnerEnds` excepts it (`ClosedEarly`).
* A session has other policies than the session manager after a full channel, or when an
  update overtook its first message: `SessionsUpToDate` excepts both (`stale`). The session
  manager may itself lag behind the policies in force (`Prime`, `Primed`).
* The runner deadlocks when it sends two directives in a row, the second with `r.mutex`
  held before the callback of the dialog that the first one closes has taken it; when it
  sends one after the user interface failed; when the main thread waits for `m.mutex` to
  show a dialog that is already replaced (all `Stuck`); and a Release before Acquire is
  missed (`release = "missed"`). `RunReturns` names these cases.
* A process that could not be opened when it was to be ended counts as ended and runs on
  (`TerminateMissed`).

### Bounds

* `MaxAttempts` is 2 for the code's 5: an attempt keeps nothing of the one before, so
  two show both a retry and giving up. The proofs hold for every value.
* `MaxTime`, with duration and decay 1, lets a lease expire, decay and its slot be
  granted again, with leases of different ages on the page at the same time. `NoOvertaking`
  is checked under the instance strategy: a queue whose order matters needs more time and
  more consumers than two handlers leave room for. The theorem has both strategies.
* `MaxRevision` stops new client requests, not the work in progress: 6 commits of 4
  instances reach two outstanding replacements of two consumers, 3 commits suffice for
  conflicting handlers.
* `MaxRevision` of the log: two commits reach the threshold of 2 with operations of one
  or two lines, and a second threshold is passed while a checkpoint is awaited.
* `MaxStates`: three acquisitions cover granted, then failed or not required, then
  interrupted.
* Symmetry (handlers; instances of one consumer) is used only in runs without liveness.
* Three processes with one process ID take it over twice, and one of them may be killed
  on behalf of another only if that could happen; one of the policy sets has a policy for
  every comparison and every way not to be understood, and one for a property that the
  scan does not know when it filters.
  Two invocations let one be stopped while another one runs.
* Three policies cover one that stays, one that is replaced and one that arrives; the
  hashes of two may change between two updates.
* Two `Session` objects let an old one wait for its process while the new one of the same
  user connects; with capacity 1 a channel is empty or full. Sessions of several users share
  only the policies and `m.mutex`. One policy set suffices: whether a session goes on does
  not depend on the set, and an update may also report a change where there is none.
* `SessionsUpToDate`, which needs several policy sets, is in no run: it is proved for any.
* The types of `LeaseMaintainer`, `PolicyManager` and `Runner` (`TypeOK`) are in no run: they
  are proved.
* Runs of parts that end (`maintainer`, `runner`, `log_locked`) or wait for an outside
  that may stay quiet (`enforcer`, `policies`, `sessions`) do not check deadlock; what
  must not be stuck is stated as liveness.

### Fairness

* `Guardian`: Go runs every goroutine, so that a handler that can go on does. Strong
  fairness only makes up for one computation running at a time in the model.
* `LogProvider`: goroutines run, time passes, and `sync.RWMutex` starves neither
  readers (Unlock admits those that wait) nor writers (Lock keeps new readers out).
* `LeaseMaintainer`: mutexes starve nobody (Go hands a mutex over after a
  millisecond), a request ends at the latest with its ten seconds, `select` takes a
  value that is offered again and again, and the owner drains its channel as the
  comment of `Listen` demands. Nothing is assumed of the guardian or the network.
* `Runner`: goroutines and the main thread run, a mutex that is free again and again is
  taken, a program whose context is cancelled ends (`exec.CommandContext` kills it), and
  Release gives up after ten seconds. Nothing is assumed of the user, the dialogs or the
  states the maintainer sends.
* `Enforcer`: the goroutines and the ticker run; a scan that is repeated every few seconds
  succeeds at last; `select` takes the closed shutdown channel
  when it comes up again and again; a maintainer repeats its requests, its Release ends
  with its timeout, and leases expire at the guardian. `EveryMatchWatched` also needs that
  a process which the service tries to open again and again is opened at last: the
  backoff retries for as long as the process runs.
* `PolicyManager`, `Sessions`: as above, and file operations and updates end; the wait after
  a failed connection ends (`Scan({})`), a user interface that is started again and again
  starts at last, and one that is killed ends. The session manager taking the policies is
  assumed in `PolicyManager` (`Push`) and is a step of `Sessions`, where `Stopping` keeps
  the mutex only as long as user interfaces take to end.

## 4. Proofs

`GuardianProofs` proves `TypeCorrect`, that `TypeOK` is invariant, for all constants
that satisfy the assumptions named in `Guardian`. The only conjunct that is not
immediate is the accumulator's: `StartReplacement` is taken only when a released lease
is counted and `FinishReplacement` only for consumers with an outstanding one, so that
counters stay natural numbers. `TypeInv` adds what ties the computation to its handler.

It goes on to prove

* `ViewsAreSound` (`ViewIntegrity`): inductive with "no handler has a revision greater
  than the page's" and "the handler that computes has a view" (`ViewInv`);
* `NeverOverAllocated` (`WithinLimit`), for both strategies, any number of handlers,
  instances and consumers, any policies, and crashes. `WithinLimit` says nothing of
  what is about to be committed; `LimitInv` strengthens it to every copy of the page
  (`CallsGood`) and to the transaction while it is computed, for which `CountInv` says
  what the accumulator knows: it has counted at least the slots visited so far, and
  under the consumer strategy the consumers counted and those that hold a slot together
  are within the capacity. That queued leases sort last (`QueuedLast`) is what makes
  the count complete when the first of them is looked at, and `ViewInv` is what carries
  the result over to the page at the commit.

`GuardianCountProofs` proves what needs an exact count.

* `NeverPanics` (`PanicFree`), for all policies and both strategies. `ExactInv` says that the
  leases `Refresh` has set aside are distinct and out of the lease set (`WaitingInv`), that
  a consumer's counters differ from the slots he really has by exactly what he has waiting
  (`TallyInv`: the second pass may move a slot to another consumer), and that as many
  replacements are outstanding as leases wait for one (`PairInv`, by cardinalities, since
  the panic is about one counter and its cause about the sum of them). `LeftInv` says what
  each step has left to do.
* `NoSlotIdles` (`NoIdleCapacity`), `SlotsAreHeld` (`SlotsHeldUntilDecay`) and `ServedInTurn`
  (`NoOvertaking`), for any instances, consumers, handlers, strategies and interleaving.
  They have the hypothesis `Agreeing`: the policies that match the resource have the same
  limit, durations and decays being free. Without it TLC refutes
  all three (limits 1 and 2 at once): every lease is held against the limit it carries, so
  that one with a smaller limit waits while others are served. Each property compares two
  pages, but one transaction computes the second in many steps from the view of the first.
  `ServiceInv` therefore states them of every call that is ready to commit, against the
  view it started from (`CallServes`), and of the transaction half way (`EngineServes`):
  where its leases come from (`EngineOrigin`), that what it has visited is neither decayed
  nor expired (`EngineFresh`), that a lease it left in the queue found all slots in use
  (`EngineFull`), which slots a consumer has lost (`EngineSlots`), and that who has got or
  is to get a slot was served in turn (`EngineTurn`). `ViewInv` makes the view the page at
  the commit.

The proof attempt for `NoOvertaking` found the case of a released queued lease, which the
bounds of the runs did not reach at first.

`LogProviderProofs` proves `LogTypes`, `CheckpointsAreIsolated`, `NoCheckpointIsLost` and
`CheckpointsAreSpaced` for any number of clients, resources and instances, any
threshold and interval. They rest on `LockInv`: a recording client is a reader, and a
checkpoint is written only by a writer with no reader in. `CheckpointsAgree`
(`CheckpointAgrees`) needs `AuditInv`: between two checkpoints the log lags behind the source
by exactly what the clients that have committed and not yet recorded will add and take,
counted as cardinalities of two sets of clients, and a running checkpoint has written the
source's leases of the resources it has visited. `OpEffects` shows that what `record` prints
of an operation is what the operation changes in the page.

`RunnerProofs` proves `RunnerTypes`, `ProgramNeedsLease` (`NoProgramWithoutLease`),
`AcknowledgementIsPending` (`AcknowledgementPending`) and `DialogIsShown` (`DialogShown`).
`Runner` has no constants and its run is exhaustive; the proofs say why the properties
hold. `Locks` ties both mutexes to where the two threads are. `ProgramInv` follows the lease
state through its handler. `AcknowledgeInv` says that nobody is warned before there is a
program and that a directive that could replace the dialog Connected comes with a warning
(`Justified`). `DirectiveInv` says for every place of the main thread and the receiver where
the current directive is when nobody is sending one.

`LeaseMaintainerProofs` proves `MaintainerTypes`, `NeverSendsOnClosed` (`NoSendOnClosed`),
`OwnerIsUpToDate` (`ListenerUpToDate`) and `KnownLeasesAreReleased`
(`ReleasedUnlessForgotten`) for any capacity of the channel and any number of
acquisitions, also for an owner that stops before it starts. `Control` says
who holds which mutex, that a maintainer is started once and that run is told to end only
by a stopper that waits for it; with it the channel is closed only when run is gone.
`Sent` says that the owner has the last state unless somebody is about to send it.
`ReleaseInv` says that the maintainer knows of every lease that is not marked forgotten,
and that a release that ended left none or failed.

`EnforcerProofs` proves `EnforcerTypes`, `InvocationsAreKept` (`NoInvocationLost`) and
`KilledOnlyForCause` (`KilledForCause`) for any processes, process IDs, policies and
invocations, in passive mode (which the run leaves out) as in the other.
`NoInvocationLost` is not inductive: its proof needs that an object in use and the map of invocations refer to each other (`Registered`, `InUse`), that what is about to
be managed is neither managed nor blocklisted (`PendingNew`, `NotBlocked`), that Enforce and
Stop have every invocation they give up on their list (`StopList`, `WaitedFor`) and what is
left when the service has stopped (`Ended`).

`PolicyManagerProofs` proves `PolicyTypes`, `PoliciesKept` (`NoPolicyLost`), `CacheIsRestored`
(`CacheRestored`) and `UpdatesArePromised`, the safety part of the refinement of
`PolicyUpdates`, for any policies, served sets and unstable hashes. The invariant says that
what is owed is in the files, cut off or not (`OwedThere`), and that during an update the
files that stay with those still to be written are the policies (`Replacing`).

`SessionsProofs` proves `SessionTypes` and `SessionsAreUpToDate` (`SessionsUpToDate`) for any
number of sessions, objects and policy sets and any capacity. `Own` says that the manager's
map refers to sessions of that ID, `Named` that a session in use has one, and `Current` is
the property without regard to the user interface, which is what an update preserves.

Assumptions of the proofs are the named ones on the constants (`MaintainerConstants`,
`EnforcerConstants`, `PolicyConstants`, `SessionConstants`, `NoPoliciesAssumption` and those of
`Guardian` and `LogProvider`); TLC evaluates them in the runs.

Model-checked only: liveness under fairness, which is out of the prover's reach: `CallsEnd`,
`DurationCheckpointed`, `OpenOperationsReturn`, `LeaseEnds`, `EveryMatchWatched`, `StopReturns`,
`OwnerEnds`, `InterfaceReturns`, `RunReturns`, and the last conjunct of the refinement
`PromisedUpdates`. Every invariant and every action property of a
passing run is proved. `AuditInv` and
the invariants of `RunnerProofs` were checked with TLC before they were proved.

## 5. Not modelled

* Client: selection of an endpoint and resolution of the guardian's addresses. A call with
  its failover is part of `LeaseMaintainer`; which endpoint is tried when depends on
  intervals of time only.
* boltprov's revision, which all resources share: commits elsewhere are failing commits.
* Publishing to streams. Snapshots are handed to a library by goroutines of their own, and
  the source leaves their order open (FIXME, server.go:751).
* Errors of a policy load other than a file cut off (an unreadable directory or file, an
  invalid strategy): all make the load fail and leave the policies as they are, as a
  file cut off does in `Load`.
* The process of a session that was given up before its user interface was started: nobody
  refers to it any more, and it runs until its user closes it (sessionmanager_windows.go:97,
  118). `Settled` forgets it with its session.
* What clients believe of leases that memprov forgot in a restart.
* cacheprov, which reads its source once for the life of the guardian.
* Respawning and absorption of processes (`spawn`, `waitForAbsorption`, `Absorb`): nothing
  calls them at this commit. `UpdateLeases` and `SessionManager.Send` have no caller either.
* The dialogs and the tray icon with their window threads; the command line, installation,
  statistics; parsing of schedules, policies and requests; the clock running backwards;
  the computation of the interval between acquisitions.

## 6. Plan

1. `LeaseService`: an abstract specification (a set of holders that never exceeds the
   limit, a queue served in turn) that `Guardian` implements; the refinement follows from
   `NeverOverAllocated`, `SlotsAreHeld` and `ServedInTurn`.
2. The runner composed with the whole maintainer, for the return without draining.
3. boltprov with several resources and their one revision.
