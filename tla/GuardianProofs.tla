---------------------------- MODULE GuardianProofs ----------------------------
(***************************************************************************)
(* Theorems about Guardian, for every set of instances, consumers and      *)
(* handlers, every policy set and both counting strategies: types, views   *)
(* that are exactly the page of their revision, and the limit.             *)
(***************************************************************************)
EXTENDS Guardian, FiniteSetTheorems, TLAPS

\* TypeOK made inductive: a computation belongs to a handler, and a request
\* to acquire or release names an instance.
TypeInv ==
    /\ TypeOK
    /\ step # "none" => cur \in Handlers
    /\ \A x \in Handlers : calls[x].op \in {"acquire", "release"}
                               => calls[x].inst \in Instances

-----------------------------------------------------------------------------
\* The zero values have their types.
LEMMA ZeroTypes ==
    /\ NoLease \in LeaseType
    /\ NoLeases \in LeaseSet
    /\ NoPolicy \in Policy
    /\ IdleCall \in CallType
    /\ IdleCall.op = "none" /\ IdleCall.phase = "idle" /\ IdleCall.rev = 0
    /\ IdleCall.base = NoLeases /\ IdleCall.result = NoLeases
    /\ NewAccumulator \in AccumulatorType
<1>1. NoLease \in LeaseType /\ NoPolicy \in Policy
  BY DEF NoLease, LeaseType, Statuses, Policy, NoPolicy
<1>2. NoLeases \in LeaseSet
  BY <1>1 DEF NoLeases, LeaseSet
<1>3. /\ IdleCall \in CallType
      /\ IdleCall.op = "none" /\ IdleCall.phase = "idle" /\ IdleCall.rev = 0
      /\ IdleCall.base = NoLeases /\ IdleCall.result = NoLeases
  BY <1>1, <1>2 DEF IdleCall, Calling, CallType, Ops
<1>4. NewAccumulator \in AccumulatorType
  BY DEF NewAccumulator, AccumulatorType, Zero
<1> QED BY <1>1, <1>2, <1>3, <1>4

\* The accumulator's operations keep its counters natural numbers.
LEMMA AccumulatorTypes ==
    ASSUME NEW a \in AccumulatorType, NEW c \in Consumers
    PROVE  /\ \A s \in Statuses : Add(a, c, s) \in AccumulatorType
           /\ a.released[c] > 0 => StartReplacement(a, c) \in AccumulatorType
           /\ a.replacements[c] # 0 => FinishReplacement(a, c) \in AccumulatorType
<1>1. \A s \in Statuses : Add(a, c, s) \in AccumulatorType
  BY DEF AccumulatorType, Add
<1>2. ASSUME a.released[c] > 0 PROVE StartReplacement(a, c) \in AccumulatorType
  <2>1. /\ [a.replacements EXCEPT ![c] = @ + 1] \in [Consumers -> Nat]
        /\ [a.active EXCEPT ![c] = @ + 1] \in [Consumers -> Nat]
        /\ [a.released EXCEPT ![c] = @ - 1] \in [Consumers -> Nat]
    BY <1>2 DEF AccumulatorType
  <2> QED BY <2>1 DEF AccumulatorType, StartReplacement
<1>3. ASSUME a.replacements[c] # 0 PROVE FinishReplacement(a, c) \in AccumulatorType
  <2>1. [a.replacements EXCEPT ![c] = @ - 1] \in [Consumers -> Nat]
    BY <1>3 DEF AccumulatorType
  <2> QED BY <2>1 DEF AccumulatorType, FinishReplacement
<1> QED BY <1>1, <1>2, <1>3

\* Writing one lease keeps a lease set a lease set.
LEMMA LeaseSetTypes ==
    ASSUME NEW ls \in LeaseSet, NEW i \in Instances, NEW q \in Instances,
           NEW l \in LeaseType
    PROVE  /\ [ls EXCEPT ![i] = l] \in LeaseSet
           /\ [ls EXCEPT ![i] = NoLease] \in LeaseSet
           /\ Overwrite(ls, i, q, l) \in LeaseSet
BY ZeroTypes DEF LeaseSet, Overwrite

\* A lease stays one when its fields are written.
LEMMA LeaseFieldTypes ==
    ASSUME NEW l \in LeaseType, NEW t \in Nat
    PROVE  /\ \A s \in Statuses : [l EXCEPT !.status = s] \in LeaseType
           /\ \A s \in Statuses : [l EXCEPT !.status = s, !.released = t] \in LeaseType
           /\ [l EXCEPT !.started = t] \in LeaseType
           /\ ExpirationTime(l) \in Nat
           /\ l.status \in Statuses
           /\ l.started \in Nat
           /\ l.policy \in Policy
           /\ l.policy.limit \in Nat
<1>1. ASSUME NEW s \in Statuses PROVE [l EXCEPT !.status = s] \in LeaseType
  BY DEF LeaseType
<1>2. ASSUME NEW s \in Statuses PROVE [l EXCEPT !.status = s, !.released = t] \in LeaseType
  BY DEF LeaseType
<1>3. [l EXCEPT !.started = t] \in LeaseType
  BY DEF LeaseType
<1>4. ExpirationTime(l) \in Nat /\ l.policy.limit \in Nat
  BY DEF LeaseType, Policy, ExpirationTime
<1>5. l.status \in Statuses /\ l.started \in Nat /\ l.policy \in Policy
  BY DEF LeaseType
<1> QED BY <1>1, <1>2, <1>3, <1>4, <1>5

\* A call record keeps its type, and whom it serves, as the request advances.
LEMMA ViewedType ==
    ASSUME NEW c \in CallType, NEW n \in Nat, NEW ls \in LeaseSet
    PROVE  /\ Viewed(c, n, ls) \in CallType
           /\ Viewed(c, n, ls).op = c.op
           /\ Viewed(c, n, ls).inst = c.inst
           /\ Viewed(c, n, ls).policy = c.policy
           /\ Viewed(c, n, ls).phase = "viewed"
           /\ Viewed(c, n, ls).rev = n
           /\ Viewed(c, n, ls).base = ls
           /\ Viewed(c, n, ls).result = c.result
BY DEF CallType, Viewed

\* A call that computes has its type.
LEMMA ComputingType ==
    ASSUME NEW c \in CallType, NEW t \in Nat
    PROVE  /\ Computing(c, t) \in CallType
           /\ Computing(c, t).op = c.op
           /\ Computing(c, t).inst = c.inst
           /\ Computing(c, t).policy = c.policy
           /\ Computing(c, t).phase = "computing"
           /\ Computing(c, t).at = t
           /\ Computing(c, t).rev = c.rev
           /\ Computing(c, t).base = c.base
           /\ Computing(c, t).result = c.result
BY DEF CallType, Computing

\* A call that has computed has its type.
LEMMA ComputedType ==
    ASSUME NEW c \in CallType, NEW ls \in LeaseSet, NEW b \in BOOLEAN
    PROVE  /\ Computed(c, ls, b) \in CallType
           /\ Computed(c, ls, b).op = c.op
           /\ Computed(c, ls, b).inst = c.inst
           /\ Computed(c, ls, b).policy = c.policy
           /\ Computed(c, ls, b).phase = "ready"
           /\ Computed(c, ls, b).at = c.at
           /\ Computed(c, ls, b).rev = c.rev
           /\ Computed(c, ls, b).base = c.base
           /\ Computed(c, ls, b).result = ls
BY DEF CallType, Computed

\* A call that begins has its type.
LEMMA CallingTypes ==
    ASSUME NEW op \in Ops, NEW i \in Instances \cup {None}, NEW p \in Policy, NEW n \in Nat
    PROVE  /\ Calling(op, i, p, n) \in CallType
           /\ Calling(op, i, p, n).op = op
           /\ Calling(op, i, p, n).inst = i
           /\ Calling(op, i, p, n).policy = p
           /\ Calling(op, i, p, n).phase = "call"
           /\ Calling(op, i, p, n).rev = 0
           /\ Calling(op, i, p, n).base = NoLeases
           /\ Calling(op, i, p, n).result = NoLeases
BY ZeroTypes DEF CallType, Calling

-----------------------------------------------------------------------------
\* The types hold before any call.
LEMMA TypeInit == Init => TypeInv
<1> SUFFICES ASSUME Init PROVE TypeInv
  OBVIOUS
<1>1. <<>> \in Seq([inst : Instances, lease : LeaseType])
  OBVIOUS
<1>2. calls \in [Handlers -> CallType] /\ \A x \in Handlers : calls[x].op = "none"
  BY ZeroTypes DEF Init
<1> QED BY <1>1, <1>2, ZeroTypes DEF Init, TypeInv, TypeOK

\* A step that changes only the call record of x, to a well-typed one.
LEMMA TypeCalls ==
    ASSUME TypeInv, NEW x \in Handlers, NEW d \in CallType,
           calls' = [calls EXCEPT ![x] = d],
           d.op \in {"acquire", "release"} => d.inst \in Instances
    PROVE  /\ calls' \in [Handlers -> CallType]
           /\ \A y \in Handlers : calls'[y].op \in {"acquire", "release"}
                                      => calls'[y].inst \in Instances
BY DEF TypeInv, TypeOK

\* After a failed attempt the handler starts over or is idle.
LEMMA FailedCall ==
    ASSUME TypeInv, NEW x \in Handlers, Failed(x)
    PROVE  \E d \in CallType :
              /\ calls' = [calls EXCEPT ![x] = d]
              /\ d.phase \in {"call", "idle"} /\ d.rev = 0
              /\ d.base = NoLeases /\ d.result = NoLeases
              /\ \/ d.op = "none"
                 \/ /\ d.op = calls[x].op /\ d.inst = calls[x].inst
                    /\ d.policy = calls[x].policy
<1> DEFINE c == calls[x]
           n == c.attempt + 1
           d == Calling(c.op, c.inst, c.policy, n)
           e == IF n < Attempts(c.op) THEN d ELSE IdleCall
<1>1. c \in CallType
  BY DEF TypeInv, TypeOK
<1>2. c.op \in Ops /\ c.inst \in Instances \cup {None} /\ c.policy \in Policy /\ n \in Nat
  BY <1>1 DEF CallType
<1>3. /\ d \in CallType /\ d.op = c.op /\ d.inst = c.inst /\ d.policy = c.policy
      /\ d.phase = "call" /\ d.rev = 0 /\ d.base = NoLeases /\ d.result = NoLeases
  <2> HIDE DEF n, c
  <2> QED BY <1>2, CallingTypes
<1>4. calls' = [calls EXCEPT ![x] = e]
  BY DEF Failed
<1>5. CASE n < Attempts(c.op)
  <2>1. e = d
    BY <1>5
  <2> HIDE DEF d, e
  <2> QED BY <1>3, <1>4, <2>1
<1>6. CASE ~(n < Attempts(c.op))
  <2>1. e = IdleCall
    BY <1>6
  <2> HIDE DEF e
  <2> QED BY <1>4, <2>1, ZeroTypes
<1> QED BY <1>5, <1>6

\* A call that gives up keeps the types.
LEMMA TypeFailed ==
    ASSUME TypeInv, NEW x \in Handlers, Failed(x),
           UNCHANGED <<now, page, computation>>
    PROVE  TypeInv'
<1> PICK d \in CallType :
        /\ calls' = [calls EXCEPT ![x] = d]
        /\ d.op = "none" \/ (d.op = calls[x].op /\ d.inst = calls[x].inst)
  BY FailedCall
<1>1. /\ calls' \in [Handlers -> CallType]
      /\ \A y \in Handlers : calls'[y].op \in {"acquire", "release"}
                                => calls'[y].inst \in Instances
  BY TypeCalls DEF TypeInv
<1> QED BY <1>1 DEF TypeInv, TypeOK, computation

\* Refresh starts with values of their types.
LEMMA StartTypes ==
    ASSUME NEW ls \in LeaseSet, StartRefresh(ls)
    PROVE  /\ leases' \in LeaseSet /\ todo' \in SUBSET Instances
           /\ acc' \in AccumulatorType /\ step' = "pass1"
           /\ replacements' \in Seq([inst : Instances, lease : LeaseType])
<1>1. <<>> \in Seq([inst : Instances, lease : LeaseType])
  OBVIOUS
<1> QED BY <1>1, ZeroTypes DEF StartRefresh, Present

\* What Head and Tail return.
LEMMA HeadTail ==
    ASSUME NEW S, NEW q \in Seq(S), q # <<>>
    PROVE  /\ Head(q) \in S /\ Head(q) = q[1] /\ 1 \in 1..Len(q)
           /\ Tail(q) \in Seq(S)
           /\ Len(Tail(q)) = Len(q) - 1
           /\ \A k \in 1..Len(Tail(q)) : Tail(q)[k] = q[k + 1] /\ k + 1 \in 1..Len(q)
OBVIOUS

\* The handler that computes has a well-typed call.
LEMMA TypeCall ==
    ASSUME TypeInv, step # "none"
    PROVE  /\ cur \in Handlers /\ Call \in CallType
           /\ at \in Nat /\ Call.policy \in Policy /\ Call.policy.limit \in Nat
           /\ Call.op \in {"acquire", "release"} => Call.inst \in Instances
           /\ \A s \in Statuses : NewLease(s) \in LeaseType
<1>1. cur \in Handlers /\ Call \in CallType
  BY DEF TypeInv, TypeOK, Call
<1>2. at \in Nat /\ Call.policy \in Policy /\ Call.policy.limit \in Nat
  BY <1>1 DEF at, Call, CallType, Policy
<1>3. Call.op \in {"acquire", "release"} => Call.inst \in Instances
  BY <1>1 DEF TypeInv, Call
<1>4. \A s \in Statuses : NewLease(s) \in LeaseType
  BY <1>2 DEF NewLease, LeaseType
<1> QED BY <1>1, <1>2, <1>3, <1>4

\* Visiting a lease in the first pass of Refresh.
LEMMA TypeVisit ==
    ASSUME TypeInv, NEW i \in todo, Visit(i),
           leases' \in LeaseSet, dirty' \in BOOLEAN, acc' \in AccumulatorType,
           replacements' \in Seq([inst : Instances, lease : LeaseType])
    PROVE  TypeInv'
BY DEF TypeInv, TypeOK, Visit, shared

\* The passes of Refresh keep the types.
LEMMA TypeRefreshStep == ASSUME TypeInv, RefreshStep PROVE TypeInv'
<1> USE ConsumerAssumption
<1> DEFINE R == [inst : Instances, lease : LeaseType]
<1>0. /\ leases \in LeaseSet /\ dirty \in BOOLEAN /\ acc \in AccumulatorType
      /\ todo \subseteq Instances /\ replacements \in Seq(R)
  BY DEF TypeInv, TypeOK
<1>1. ASSUME NEW i \in todo, RefreshDecayed(i) \/ RefreshQueueExpired(i) PROVE TypeInv'
  <2>1. leases' \in LeaseSet /\ dirty' \in BOOLEAN
    BY <1>0, <1>1, ZeroTypes, LeaseSetTypes DEF RefreshDecayed, RefreshQueueExpired, Delete
  <2> QED BY <1>0, <1>1, <2>1, TypeVisit DEF RefreshDecayed, RefreshQueueExpired
<1>2. ASSUME NEW i \in todo, RefreshExpired(i) PROVE TypeInv'
  <2> DEFINE l == [leases[i] EXCEPT !.status = "released",
                                    !.released = ExpirationTime(leases[i])]
  <2>1. leases[i] \in LeaseType
    BY <1>0 DEF LeaseSet
  <2>2. l \in LeaseType
    BY <2>1, LeaseFieldTypes DEF Statuses
  <2>3. leases' = [leases EXCEPT ![i] = l] /\ dirty' = TRUE
    BY <1>2 DEF RefreshExpired, Update
  <2> HIDE DEF l
  <2>4. leases' \in LeaseSet
    BY <1>0, <2>2, <2>3, LeaseSetTypes
  <2>5. acc' \in AccumulatorType
    BY <1>0, <1>2, AccumulatorTypes DEF RefreshExpired, Statuses
  <2> QED BY <1>0, <1>2, <2>3, <2>4, <2>5, TypeVisit DEF RefreshExpired
<1>3. ASSUME NEW i \in todo, RefreshHeld(i) PROVE TypeInv'
  <2>1. leases[i].status \in Statuses
    BY <1>0 DEF LeaseSet, LeaseType
  <2>2. acc' \in AccumulatorType
    BY <1>0, <1>3, <2>1, AccumulatorTypes DEF RefreshHeld
  <2> QED BY <1>0, <1>3, <2>2, TypeVisit DEF RefreshHeld
<1>4. ASSUME NEW i \in todo, RefreshReplace(i) PROVE TypeInv'
  <2>1. [inst |-> i, lease |-> leases[i]] \in R
    BY <1>0 DEF LeaseSet
  <2>2. replacements' \in Seq(R)
    BY <1>0, <1>4, <2>1 DEF RefreshReplace
  <2>3. acc' \in AccumulatorType
    BY <1>0, <1>4, AccumulatorTypes DEF RefreshReplace
  <2>4. leases' \in LeaseSet /\ dirty' \in BOOLEAN
    BY <1>0, <1>4, ZeroTypes, LeaseSetTypes DEF RefreshReplace, Delete
  <2> QED BY <1>4, <2>2, <2>3, <2>4, TypeVisit DEF RefreshReplace
<1>5. ASSUME NEW i \in todo, RefreshQueued(i) PROVE TypeInv'
  <2> DEFINE l == [leases[i] EXCEPT !.status = "active"]
  <2>1. leases[i] \in LeaseType
    BY <1>0 DEF LeaseSet
  <2>2. l \in LeaseType
    BY <2>1, LeaseFieldTypes DEF Statuses
  <2>3. \/ /\ leases' = [leases EXCEPT ![i] = l] /\ dirty' = TRUE
           /\ acc' = Add(acc, ConsumerOf[i], "active")
        \/ UNCHANGED <<leases, dirty, acc>>
    BY <1>5 DEF RefreshQueued, Update
  <2> HIDE DEF l
  <2>4. leases' \in LeaseSet /\ dirty' \in BOOLEAN
    BY <1>0, <2>2, <2>3, LeaseSetTypes, ZenonT(40)
  <2>5. acc' \in AccumulatorType
    BY <1>0, <2>3, AccumulatorTypes DEF Statuses
  <2> QED BY <1>0, <1>5, <2>4, <2>5, TypeVisit DEF RefreshQueued
<1>6. ASSUME NEW i \in todo, ReplaceReleased(i) PROVE TypeInv'
  <2> DEFINE r == Head(replacements)
             l == [r.lease EXCEPT !.status = "active"]
  <2>1. r \in R /\ Tail(replacements) \in Seq(R)
    BY <1>0, <1>6, HeadTail DEF ReplaceReleased
  <2>2. l \in LeaseType /\ r.inst \in Instances
    BY <2>1, LeaseFieldTypes DEF Statuses
  <2>3. leases' = Overwrite(leases, i, r.inst, l)
    BY <1>6 DEF ReplaceReleased
  <2> HIDE DEF r, l
  <2>4. leases' \in LeaseSet
    BY <1>0, <2>2, <2>3, LeaseSetTypes
  <2>5. acc.replacements[ConsumerOf[i]] # 0
    BY <1>6 DEF ReplaceReleased, FirstReplaceable, Replaceable
  <2>6. acc' \in AccumulatorType
    BY <1>0, <1>6, <2>5, AccumulatorTypes DEF ReplaceReleased
  <2> QED BY <1>0, <1>6, <2>1, <2>4, <2>6
          DEF ReplaceReleased, shared, TypeInv, TypeOK, r
<1>7. CASE EndPass1
  BY <1>0, <1>7 DEF EndPass1, AfterRefresh, shared, TypeInv, TypeOK
<1>8. CASE EndPass2
  BY <1>0, <1>8 DEF EndPass2, AfterRefresh, shared, TypeInv, TypeOK
<1> QED BY <1>1, <1>2, <1>3, <1>4, <1>5, <1>6, <1>7, <1>8, RefreshStep DEF RefreshStep

\* The decision of acquire ends the computation.
LEMMA TypeDecided ==
    ASSUME TypeInv, Decided, step # "none", leases' \in LeaseSet, dirty' \in BOOLEAN
    PROVE  TypeInv'
BY DEF TypeInv, TypeOK, Decided, shared

\* The decisions of Acquire, Update and Release keep the types.
LEMMA TypeDecideStep == ASSUME TypeInv, DecideStep PROVE TypeInv'
<1>0. /\ leases \in LeaseSet /\ dirty \in BOOLEAN /\ step # "none"
      /\ Call.inst \in Instances /\ Call.op \in {"acquire", "release"}
  <2>1. step = "decide" /\ Call.op \in {"acquire", "release"}
    BY DecideStep DEF DecideStep, AcquireReleased, AcquireRenew, AcquireReplace,
       AcquireCreate, Release, Deciding
  <2> QED BY <2>1, TypeCall DEF TypeInv, TypeOK
<1>1. \A s \in Statuses : NewLease(s) \in LeaseType
  BY <1>0, TypeCall
<1>2. leases[Call.inst] \in LeaseType
  BY <1>0 DEF LeaseSet
<1>3. CASE AcquireReleased
  <2> PICK s \in Statuses : Update(Call.inst, NewLease(s))
    BY <1>3 DEF AcquireReleased, Statuses
  <2>1. leases' \in LeaseSet /\ dirty' \in BOOLEAN
    BY <1>0, <1>1, LeaseSetTypes DEF Update
  <2> QED BY <1>0, <1>3, <2>1, TypeDecided DEF AcquireReleased
<1>4. CASE AcquireRenew
  <2> DEFINE l == [NewLease(leases[Call.inst].status)
                      EXCEPT !.started = leases[Call.inst].started]
  <2>1. l \in LeaseType
    BY <1>1, <1>2, LeaseFieldTypes
  <2>2. Update(Call.inst, l)
    BY <1>4 DEF AcquireRenew
  <2> HIDE DEF l
  <2>3. leases' \in LeaseSet /\ dirty' \in BOOLEAN
    BY <1>0, <2>1, <2>2, LeaseSetTypes DEF Update
  <2> QED BY <1>0, <1>4, <2>3, TypeDecided DEF AcquireRenew
<1>5. CASE AcquireReplace
  <2> PICK i \in Instances : leases' = Overwrite(leases, i, Call.inst, NewLease("active"))
    BY <1>5 DEF AcquireReplace, OwnReleased
  <2>1. NewLease("active") \in LeaseType
    BY <1>1 DEF Statuses
  <2>2. leases' \in LeaseSet
    BY <1>0, <2>1, LeaseSetTypes
  <2> QED BY <1>0, <1>5, <2>2, TypeDecided DEF AcquireReplace
<1>6. CASE AcquireCreate
  <2> PICK s \in Statuses : Update(Call.inst, NewLease(s))
    BY <1>6 DEF AcquireCreate, Statuses
  <2>1. leases' \in LeaseSet /\ dirty' \in BOOLEAN
    BY <1>0, <1>1, LeaseSetTypes DEF Update
  <2> QED BY <1>0, <1>6, <2>1, TypeDecided DEF AcquireCreate
<1>7. CASE Release
  <2> DEFINE l == Released(leases[Call.inst])
             ls == [leases EXCEPT ![Call.inst] = l]
  <2>1. l \in LeaseType
    BY <1>0, <1>2, LeaseFieldTypes, ZeroTypes, TypeCall DEF Released, Statuses
  <2>2. ls \in LeaseSet
    <3> HIDE DEF l
    <3> QED BY <1>0, <2>1, LeaseSetTypes
  <2>3. StartRefresh(ls)
    BY <1>7 DEF Release
  <2> HIDE DEF ls
  <2> QED BY <1>0, <1>7, <2>2, <2>3, StartTypes DEF Release, shared, TypeInv, TypeOK
<1> QED BY <1>3, <1>4, <1>5, <1>6, <1>7, DecideStep DEF DecideStep

\* The end of a computation keeps the types.
LEMMA TypeFinish == ASSUME TypeInv, Finish PROVE TypeInv'
<1>1. cur \in Handlers /\ Call \in CallType /\ leases \in LeaseSet /\ dirty \in BOOLEAN
  BY TypeCall DEF Finish, TypeInv, TypeOK
<1> DEFINE d == Computed(Call, leases, dirty)
<1>2. d \in CallType /\ d.op = Call.op /\ d.inst = Call.inst
  BY <1>1, ComputedType
<1>3. d.op \in {"acquire", "release"} => d.inst \in Instances
  BY <1>1, <1>2, TypeCall DEF Finish
<1>4. calls' = [calls EXCEPT ![cur] = d]
  BY DEF Finish
<1> HIDE DEF d
<1>5. /\ calls' \in [Handlers -> CallType]
      /\ \A y \in Handlers : calls'[y].op \in {"acquire", "release"}
                                => calls'[y].inst \in Instances
  BY <1>1, <1>2, <1>3, <1>4, TypeCalls
<1>6. <<>> \in Seq([inst : Instances, lease : LeaseType])
  OBVIOUS
<1> QED BY <1>5, <1>6, ZeroTypes DEF Finish, TypeInv, TypeOK

\* Every step keeps the types.
LEMMA TypeNext == TypeInv /\ [Next]_vars => TypeInv'
<1> SUFFICES ASSUME TypeInv, [Next]_vars PROVE TypeInv'
  OBVIOUS
<1> USE ConsumerAssumption, NoneAssumption
<1> USE DEF TypeInv
<1>0. CASE UNCHANGED vars
  BY <1>0 DEF vars, TypeOK
<1>1. CASE Tick
  BY <1>1 DEF Tick, TypeOK, computation
<1>2. CASE Crash
  <2>1. page' \in [rev : Nat, leases : LeaseSet]
    BY <1>2, ZeroTypes DEF Crash, TypeOK
  <2> QED BY <1>2, <2>1, ZeroTypes DEF Crash, TypeOK, computation
<1>3. ASSUME NEW x \in Handlers, NewRequest(x) PROVE TypeInv'
  <2>1. ASSUME NEW op \in Ops, NEW i \in Instances \cup {None}, NEW p \in Policy,
               Request(x, op, i, p),
               op \in {"acquire", "release"} => i \in Instances
        PROVE  TypeInv'
    <3> DEFINE d == Calling(op, i, p, 0)
    <3>1. d \in CallType /\ d.op = op /\ d.inst = i
      BY CallingTypes
    <3>2. calls' = [calls EXCEPT ![x] = d]
      BY <2>1 DEF Request
    <3> HIDE DEF d
    <3> QED BY <2>1, <3>1, <3>2, TypeCalls DEF Request, computation, TypeOK
  <2>2. \A p \in Policies : p \in Policy
    BY PolicyAssumption
  <2>3. NoPolicy \in Policy
    BY ZeroTypes
  <2> QED BY <1>3, <2>1, <2>2, <2>3
          DEF NewRequest, AcquireRequest, ReleaseRequest, RefreshRequest,
              PurgeRequest, Ops
<1>4. ASSUME NEW x \in Handlers, Serve(x) PROVE TypeInv'
  <2> DEFINE c == calls[x]
  <2>0. c \in CallType
    BY DEF TypeOK
  <2>1. CASE View(x)
    <3> DEFINE d == Viewed(c, page.rev, page.leases)
    <3>0. page.rev \in Nat /\ page.leases \in LeaseSet
      BY DEF TypeOK
    <3>1. d \in CallType /\ d.op = c.op /\ d.inst = c.inst
      BY <2>0, <3>0, ViewedType
    <3>2. calls' = [calls EXCEPT ![x] = d]
      BY <2>1 DEF View
    <3> HIDE DEF d
    <3> QED BY <2>1, <3>1, <3>2, TypeCalls DEF View, computation, TypeOK
  <2>2. CASE Begin(x)
    <3> DEFINE d == Computing(c, now)
    <3>0. now \in Nat
      BY DEF TypeOK
    <3>1. d \in CallType /\ d.op = c.op /\ d.inst = c.inst
      BY <2>0, <3>0, ComputingType
    <3>2. calls' = [calls EXCEPT ![x] = d]
      BY <2>2 DEF Begin
    <3>3. c.base \in LeaseSet
      BY <2>0 DEF CallType
    <3> HIDE DEF d
    <3>4. /\ calls' \in [Handlers -> CallType]
          /\ \A y \in Handlers : calls'[y].op \in {"acquire", "release"}
                                    => calls'[y].inst \in Instances
      BY <3>1, <3>2, TypeCalls
    <3>5. StartRefresh(c.base)
      BY <2>2 DEF Begin
    <3>6. /\ leases' \in LeaseSet /\ todo' \in SUBSET Instances
          /\ acc' \in AccumulatorType /\ step' = "pass1"
          /\ replacements' \in Seq([inst : Instances, lease : LeaseType])
      BY <3>3, <3>5, ZeroTypes, StartTypes
    <3> QED BY <2>2, <3>4, <3>6 DEF Begin, TypeOK
  <2>3. CASE ViewError(x) \/ CommitConflict(x) \/ CommitError(x)
    BY <2>3, TypeFailed DEF ViewError, CommitConflict, CommitError
  <2>4. CASE CommitEmpty(x)
    BY <2>4, TypeCalls, ZeroTypes
       DEF CommitEmpty, Done, TypeOK, computation
  <2>5. CASE Commit(x)
    <3>1. Stored(x) \in LeaseSet
      BY <2>0 DEF Stored, CallType, TypeOK, LeaseSet
    <3>2. page' \in [rev : Nat, leases : LeaseSet]
      BY <2>5, <3>1 DEF Commit, TypeOK
    <3> QED BY <2>5, <3>2, TypeCalls, ZeroTypes
            DEF Commit, Done, TypeOK, computation
  <2> QED BY <1>4, <2>1, <2>2, <2>3, <2>4, <2>5 DEF Serve
<1>5. CASE Compute
  BY <1>5, TypeRefreshStep, TypeDecideStep, TypeFinish DEF Compute
<1> QED BY <1>0, <1>1, <1>2, <1>3, <1>4, <1>5 DEF Next

\* Every reachable state is well typed; in particular the accumulator's
\* unsigned counters, whose underflow accumulator.go guards with panics.
THEOREM TypeCorrect == Spec => []TypeOK
<1>1. TypeInv => TypeOK
  BY DEF TypeInv
<1> QED BY <1>1, TypeInit, TypeNext, PTL DEF Spec

-----------------------------------------------------------------------------
(***************************************************************************)
(* Guardian never commits more consumption than the largest limit a policy *)
(* grants, and a handler's view is exactly the page of its revision.       *)
(***************************************************************************)

\* Every lease carries a limit some policy granted.
Bounded(ls) == \A i \in Instances : ls[i].policy.limit <= Capacity

Good(ls) == Bounded(ls) /\ Used(ls) <= Capacity

\* The slots the running Refresh has counted so far.
Seen == Held(leases) \ (IF step = "pass1" THEN todo ELSE {})

\* What the accumulator knows of the transaction's leases.
CountInv ==
    /\ \A c \in Consumers : acc.active[c] > 0 \/ acc.released[c] > 0 => c \in Counted(acc)
    /\ \A i \in Seen : ConsumerOf[i] \in Counted(acc)
    /\ \A k \in 1..Len(replacements) :
          /\ ConsumerOf[replacements[k].inst] \in Counted(acc)
          /\ replacements[k].lease.policy.limit <= Capacity
    /\ Strategy = "instance" => Cardinality(Seen) <= acc.total
    /\ Strategy = "consumer" => Cardinality(Counted(acc) \cup Holders(leases)) <= Capacity
    /\ step = "pass2" => todo \subseteq Held(leases)

CallsGood ==
    \A x \in Handlers : /\ Good(calls[x].base)
                        /\ Good(calls[x].result)
                        /\ calls[x].op = "acquire" => calls[x].policy.limit <= Capacity

\* WithinLimit made inductive: copies of the page are within the limit too,
\* and a transaction stays within it while it is computed because the
\* accumulator counts at least the slots visited so far.
LimitInv ==
    /\ Good(page.leases)
    /\ CallsGood
    /\ Good(leases)
    /\ step \in {"pass1", "pass2", "decide"} => CountInv

\* ViewIntegrity made inductive: no handler has a revision of the future,
\* and the handler that computes has a view.
ViewInv ==
    /\ ViewIntegrity
    /\ \A x \in Handlers : calls[x].rev <= page.rev
    /\ step # "none" => calls[cur].phase = "computing"

-----------------------------------------------------------------------------
\* Until it finishes, a computation touches neither page nor calls.
LEMMA ComputeLocal ==
    ASSUME TypeInv, RefreshStep \/ DecideStep
    PROVE  UNCHANGED <<now, page, calls, cur>> /\ step # "none"
<1>1. ASSUME RefreshStep PROVE UNCHANGED <<now, page, calls, cur>> /\ step # "none"
  BY <1>1 DEF RefreshStep, RefreshDecayed, RefreshExpired, RefreshHeld, RefreshQueueExpired,
     RefreshReplace, RefreshQueued, ReplaceReleased, EndPass1, EndPass2, Visit, shared
<1>2. ASSUME DecideStep PROVE UNCHANGED <<now, page, calls, cur>> /\ step # "none"
  BY <1>2 DEF DecideStep, AcquireReleased, AcquireRenew, AcquireReplace, AcquireCreate,
     Release, Decided, Deciding, shared
<1> QED BY <1>1, <1>2

\* Before any call, what is computed is what is stored.
LEMMA ViewInit == Init => ViewInv
<1> SUFFICES ASSUME Init PROVE ViewInv
  OBVIOUS
<1>1. \A x \in Handlers : calls[x].phase = "idle" /\ calls[x].rev = 0
  BY ZeroTypes DEF Init
<1> QED BY <1>1 DEF Init, ViewInv, ViewIntegrity

\* A handler's own record changes, to one without a view or a fresh one.
LEMMA ViewCalls ==
    ASSUME TypeInv, ViewInv, NEW x \in Handlers, NEW d \in CallType,
           calls' = [calls EXCEPT ![x] = d], cur = None,
           page' = page,
           d.rev <= page.rev,
           \/ d.phase \in {"idle", "call"}
           \/ d.rev = page.rev => d.base = page.leases
    PROVE  ViewIntegrity' /\ \A y \in Handlers : calls'[y].rev <= page'.rev
<1>1. \A y \in Handlers : calls'[y] = IF y = x THEN d ELSE calls[y]
  BY DEF TypeInv, TypeOK
<1> QED BY <1>1 DEF ViewInv, ViewIntegrity

\* Every step keeps the relation of what is computed to what is stored.
LEMMA ViewNext == TypeInv /\ ViewInv /\ [Next]_vars => ViewInv'
<1> SUFFICES ASSUME TypeInv, ViewInv, [Next]_vars PROVE ViewInv'
  OBVIOUS
<1>0. cur = None => step = "none"
  BY NoneAssumption DEF TypeInv
<1>a. page.rev \in Nat /\ page.leases \in LeaseSet
  BY DEF TypeInv, TypeOK
<1>1. CASE UNCHANGED vars
  BY <1>1 DEF vars, ViewInv, ViewIntegrity
<1>2. CASE Tick
  BY <1>2 DEF Tick, computation, ViewInv, ViewIntegrity
<1>3. CASE Crash
  <2>1. \A x \in Handlers : calls'[x].phase = "idle" /\ calls'[x].rev = 0
    BY <1>3, ZeroTypes DEF Crash
  <2>2. page'.rev \in Nat /\ step' = "none"
    BY <1>0, <1>3, <1>a DEF Crash, computation
  <2> QED BY <2>1, <2>2 DEF ViewInv, ViewIntegrity
<1>4. CASE RefreshStep \/ DecideStep
  BY <1>4, ComputeLocal DEF ViewInv, ViewIntegrity
<1>5. CASE Finish
  <2>0. cur \in Handlers /\ Call \in CallType /\ leases \in LeaseSet /\ dirty \in BOOLEAN
    BY <1>5, TypeCall DEF Finish, TypeInv, TypeOK
  <2> DEFINE d == Computed(Call, leases, dirty)
  <2>1. d.rev = Call.rev /\ d.base = Call.base
    BY <2>0, ComputedType
  <2>2. calls' = [calls EXCEPT ![cur] = d] /\ page' = page /\ step' = "none"
    BY <1>5 DEF Finish
  <2> HIDE DEF d
  <2>3. \A y \in Handlers : calls'[y] = IF y = cur THEN d ELSE calls[y]
    BY <2>0, <2>2 DEF TypeInv, TypeOK
  <2>4. calls[cur].phase = "computing"
    BY <1>5 DEF Finish, ViewInv
  <2> QED BY <2>0, <2>1, <2>2, <2>3, <2>4 DEF ViewInv, ViewIntegrity, Call
<1>6. ASSUME NEW x \in Handlers, NewRequest(x) PROVE ViewInv'
  <2> PICK op \in Ops, i \in Instances \cup {None}, p \in Policy : Request(x, op, i, p)
    BY <1>6, PolicyAssumption, ZeroTypes
       DEF NewRequest, AcquireRequest, ReleaseRequest, RefreshRequest, PurgeRequest, Ops
  <2> DEFINE d == Calling(op, i, p, 0)
  <2>1. d \in CallType /\ d.phase = "call" /\ d.rev = 0
    BY CallingTypes
  <2>2. calls' = [calls EXCEPT ![x] = d] /\ cur = None /\ page' = page /\ step' = step
    BY DEF Request, computation
  <2> HIDE DEF d
  <2>3. ViewIntegrity' /\ \A y \in Handlers : calls'[y].rev <= page'.rev
    <3>1. d.rev <= page.rev
      BY <1>a, <2>1
    <3> QED BY <2>1, <2>2, <3>1, ViewCalls
  <2> QED BY <1>0, <2>2, <2>3 DEF ViewInv
<1>7. ASSUME NEW x \in Handlers, Serve(x) PROVE ViewInv'
  <2> DEFINE c == calls[x]
  <2>0. c \in CallType /\ cur = None /\ step = "none" /\ now \in Nat
    BY <1>0, <1>7 DEF TypeInv, TypeOK, Serve, View, ViewError, Begin, CommitEmpty, Commit,
       CommitConflict, CommitError, Ready
  <2>1. CASE View(x)
    <3> DEFINE d == Viewed(c, page.rev, page.leases)
    <3>1. d \in CallType /\ d.rev = page.rev /\ d.base = page.leases
      BY <1>a, <2>0, ViewedType
    <3>2. calls' = [calls EXCEPT ![x] = d] /\ page' = page /\ step' = step
      BY <2>1 DEF View, computation
    <3> HIDE DEF d
    <3>3. ViewIntegrity' /\ \A y \in Handlers : calls'[y].rev <= page'.rev
      <4>1. d.rev <= page.rev
        BY <1>a, <3>1
      <4> QED BY <2>0, <3>1, <3>2, <4>1, ViewCalls
    <3> QED BY <2>0, <3>2, <3>3 DEF ViewInv
  <2>2. CASE Begin(x)
    <3> DEFINE d == Computing(c, now)
    <3>1. d \in CallType /\ d.rev = c.rev /\ d.base = c.base /\ d.phase = "computing"
      BY <2>0, ComputingType
    <3>2. /\ calls' = [calls EXCEPT ![x] = d] /\ page' = page /\ cur' = x
          /\ c.phase = "viewed"
      BY <2>2 DEF Begin
    <3> HIDE DEF d
    <3>3. ViewIntegrity' /\ \A y \in Handlers : calls'[y].rev <= page'.rev
      BY <2>0, <3>1, <3>2, ViewCalls DEF ViewInv, ViewIntegrity
    <3>4. calls'[cur'].phase = "computing"
      BY <3>1, <3>2 DEF TypeInv, TypeOK
    <3> QED BY <3>3, <3>4 DEF ViewInv
  <2>3. CASE ViewError(x) \/ CommitConflict(x) \/ CommitError(x)
    <3>1. Failed(x) /\ page' = page /\ step' = step
      BY <2>3 DEF ViewError, CommitConflict, CommitError, computation
    <3> PICK d \in CallType : /\ calls' = [calls EXCEPT ![x] = d]
                              /\ d.phase \in {"call", "idle"} /\ d.rev = 0
      BY <3>1, FailedCall
    <3>2. ViewIntegrity' /\ \A y \in Handlers : calls'[y].rev <= page'.rev
      <4>1. d.rev <= page.rev
        BY <1>a
      <4> QED BY <2>0, <3>1, <4>1, ViewCalls
    <3> QED BY <2>0, <3>1, <3>2 DEF ViewInv
  <2>4. CASE CommitEmpty(x)
    <3>1. calls' = [calls EXCEPT ![x] = IdleCall] /\ page' = page /\ step' = step
      BY <2>4 DEF CommitEmpty, Done, computation
    <3>2. ViewIntegrity' /\ \A y \in Handlers : calls'[y].rev <= page'.rev
      <4>1. IdleCall.rev <= page.rev /\ IdleCall \in CallType /\ IdleCall.phase = "idle"
        BY <1>a, ZeroTypes
      <4> QED BY <2>0, <3>1, <4>1, ViewCalls
    <3> QED BY <2>0, <3>1, <3>2 DEF ViewInv
  <2>5. CASE Commit(x)
    <3>1. /\ calls' = [calls EXCEPT ![x] = IdleCall] /\ step' = step
          /\ page'.rev = page.rev + 1
      BY <2>5 DEF Commit, Done, computation
    <3>2. \A y \in Handlers : calls'[y] = IF y = x THEN IdleCall ELSE calls[y]
      BY <3>1 DEF TypeInv, TypeOK
    <3>3. \A y \in Handlers : calls[y].rev \in Nat /\ calls[y].rev <= page.rev
      BY DEF TypeInv, TypeOK, CallType, ViewInv
    <3>4. \A y \in Handlers : calls'[y].rev \in Nat /\ calls'[y].rev <= page.rev
      BY <1>a, <3>2, <3>3, ZeroTypes
    <3> QED BY <1>a, <2>0, <3>1, <3>4 DEF ViewInv, ViewIntegrity
  <2> QED BY <1>7, <2>1, <2>2, <2>3, <2>4, <2>5 DEF Serve
<1> QED BY <1>1, <1>2, <1>3, <1>4, <1>5, <1>6, <1>7 DEF Next, Compute

\* A handler that still has the page's revision has the page's leases, for any
\* number of handlers: the ground on which LeaseCommit's revision check rests.
THEOREM ViewsAreSound == Spec => []ViewIntegrity
<1>1. ViewInv => ViewIntegrity
  BY DEF ViewInv
<1> QED BY <1>1, TypeInit, TypeNext, ViewInit, ViewNext, PTL DEF Spec

-----------------------------------------------------------------------------
(* Counting slots. *)

\* One element adds at most one.
LEMMA CardAdd ==
    ASSUME NEW S, IsFiniteSet(S), NEW x
    PROVE  /\ IsFiniteSet(S \cup {x})
           /\ Cardinality(S) \in Nat
           /\ Cardinality(S \cup {x}) \in Nat
           /\ Cardinality(S \cup {x}) <= Cardinality(S) + 1
BY FS_AddElement, FS_CardinalityType

\* A subset is not larger.
LEMMA CardSub ==
    ASSUME NEW S, IsFiniteSet(S), NEW T, T \subseteq S
    PROVE  /\ IsFiniteSet(T)
           /\ Cardinality(T) \in Nat /\ Cardinality(S) \in Nat
           /\ Cardinality(T) <= Cardinality(S)
BY FS_Subset, FS_CardinalityType

\* Exchanging one member for another does not enlarge a set.
LEMMA CardSwap ==
    ASSUME NEW S, IsFiniteSet(S), NEW i \in S, NEW q, NEW T, T \subseteq (S \ {i}) \cup {q}
    PROVE  Cardinality(T) <= Cardinality(S)
<1>1. IsFiniteSet(S \ {i}) /\ Cardinality(S \ {i}) = Cardinality(S) - 1
  BY FS_RemoveElement
<1>2. /\ IsFiniteSet((S \ {i}) \cup {q}) /\ Cardinality(S \ {i}) \in Nat
      /\ Cardinality((S \ {i}) \cup {q}) \in Nat
      /\ Cardinality((S \ {i}) \cup {q}) <= Cardinality(S \ {i}) + 1
  BY <1>1, CardAdd
<1>3. Cardinality(T) \in Nat /\ Cardinality(T) <= Cardinality((S \ {i}) \cup {q})
  BY <1>2, CardSub
<1>4. Cardinality(S) \in Nat
  BY FS_CardinalityType
<1> QED BY <1>1, <1>2, <1>3, <1>4

\* The leases that count, and their consumers, are finitely many.
LEMMA HeldFinite ==
    ASSUME NEW ls
    PROVE  /\ IsFiniteSet(Held(ls)) /\ IsFiniteSet(Holders(ls))
           /\ Held(ls) \subseteq Instances /\ Holders(ls) \subseteq Consumers
           /\ Used(ls) \in Nat
<1>1. Held(ls) \subseteq Instances /\ Holders(ls) \subseteq Consumers
  BY ConsumerAssumption DEF Held, Holders
<1>2. IsFiniteSet(Held(ls)) /\ IsFiniteSet(Holders(ls))
  BY <1>1, InstancesFinite, FS_Subset
<1> QED BY <1>1, <1>2, FS_CardinalityType DEF Used

\* A lease set that holds fewer slots uses no more.
LEMMA UsedMono ==
    ASSUME NEW ls, NEW ms, Held(ms) \subseteq Held(ls), Used(ls) <= Capacity
    PROVE  Used(ms) <= Capacity
<1>1. Holders(ms) \subseteq Holders(ls)
  BY DEF Holders
<1>2. /\ Cardinality(Holders(ms)) <= Cardinality(Holders(ls))
      /\ Cardinality(Held(ms)) <= Cardinality(Held(ls))
  BY <1>1, HeldFinite, CardSub
<1>3. Used(ms) <= Used(ls)
  BY <1>2 DEF Used
<1> QED BY <1>3, HeldFinite, CapacityAssumption

\* No lease exceeds no limit.
LEMMA NoLeasesGood == Good(NoLeases)
<1>1. Held(NoLeases) = {} /\ Holders(NoLeases) = {}
  BY DEF Held, Holders, NoLeases, NoLease, Consumptive
<1>2. Used(NoLeases) = 0
  BY <1>1, FS_EmptySet DEF Used
<1>3. Bounded(NoLeases)
  BY CapacityAssumption DEF Bounded, NoLeases, NoLease
<1> QED BY <1>2, <1>3, CapacityAssumption DEF Good

\* In the order of a lease set queued leases come last: when Refresh visits
\* one, it has visited every slot.
LEMMA QueuedLast ==
    ASSUME TypeInv, NEW i \in todo, First(i), leases[i].status = "queued"
    PROVE  Held(leases) \cap todo = {}
<1>1. ASSUME NEW j \in Held(leases), j \in todo PROVE FALSE
  <2>1. leases[j].status \in {"active", "released"}
    BY <1>1 DEF Held, Consumptive
  <2>2. Order(leases[j].status) < Order(leases[i].status)
    BY <2>1 DEF Order
  <2>3. Less(leases[j], leases[i])
    BY <2>2 DEF Less
  <2> QED BY <1>1, <2>3 DEF First
<1> QED BY <1>1

\* Writing the lease l at i.
LEMMA HeldUpdate ==
    ASSUME NEW ls \in LeaseSet, NEW i \in Instances, NEW l \in LeaseType, NEW ms,
           ms = [ls EXCEPT ![i] = l]
    PROVE  /\ Consumptive(l) => Held(ms) = Held(ls) \cup {i}
           /\ ~Consumptive(l) => Held(ms) = Held(ls) \ {i}
           /\ Bounded(ls) /\ l.policy.limit <= Capacity => Bounded(ms)
BY DEF Held, LeaseSet, Bounded

\* A lease written over another one takes its place in the count.
LEMMA HeldOverwrite ==
    ASSUME NEW ls \in LeaseSet, NEW i \in Instances, NEW q \in Instances,
           NEW l \in LeaseType, NEW ms, ms = Overwrite(ls, i, q, l)
    PROVE  /\ Held(ms) \subseteq (Held(ls) \ {i}) \cup {q}
           /\ Consumptive(l) => Held(ls) \ {i} \subseteq Held(ms)
           /\ Bounded(ls) /\ l.policy.limit <= Capacity => Bounded(ms)
<1>0. ~Consumptive(NoLease) /\ NoLease.policy.limit <= Capacity /\ NoLease \in LeaseType
  BY CapacityAssumption, ZeroTypes DEF Consumptive, NoLease
<1>1. \A j \in Instances : ms[j] = IF j = q THEN l ELSE IF j = i THEN NoLease ELSE ls[j]
  BY DEF Overwrite, LeaseSet
<1> QED BY <1>0, <1>1 DEF Held, Bounded

-----------------------------------------------------------------------------
(* What the accumulator's operations count. *)

\* Add counts its consumer, and no other.
LEMMA AddCounts ==
    ASSUME NEW a \in AccumulatorType, NEW c \in Consumers, NEW s \in {"active", "released"}
    PROVE  /\ Counted(Add(a, c, s)) = Counted(a) \cup {c}
           /\ Add(a, c, s).total = a.total + 1
           /\ \A d \in Consumers :
                 Add(a, c, s).active[d] > 0 \/ Add(a, c, s).released[d] > 0
                    => d = c \/ a.active[d] > 0 \/ a.released[d] > 0
BY DEF AccumulatorType, Add, Counted

\* A replacement is started without a change of the count.
LEMMA StartCounts ==
    ASSUME NEW a \in AccumulatorType, NEW c \in Consumers, a.released[c] > 0
    PROVE  /\ Counted(StartReplacement(a, c)) = Counted(a)
           /\ StartReplacement(a, c).total = a.total
           /\ \A d \in Consumers :
                 StartReplacement(a, c).active[d] > 0 \/ StartReplacement(a, c).released[d] > 0
                    => d = c \/ a.active[d] > 0 \/ a.released[d] > 0
<1> DEFINE b == StartReplacement(a, c)
<1>1. /\ b.consumed = a.consumed /\ b.total = a.total
      /\ b.active = [a.active EXCEPT ![c] = @ + 1]
      /\ b.released = [a.released EXCEPT ![c] = @ - 1]
  BY DEF StartReplacement, AccumulatorType
<1>2. a.active \in [Consumers -> Nat] /\ a.released \in [Consumers -> Nat]
  BY DEF AccumulatorType
<1> QED BY <1>1, <1>2 DEF Counted

\* A replacement is finished without a change of the count.
LEMMA FinishCounts ==
    ASSUME NEW a \in AccumulatorType, NEW c \in Consumers
    PROVE  /\ Counted(FinishReplacement(a, c)) = Counted(a)
           /\ FinishReplacement(a, c).total = a.total
           /\ FinishReplacement(a, c).active = a.active
           /\ FinishReplacement(a, c).released = a.released
BY DEF FinishReplacement, AccumulatorType, Counted

\* Finitely many consumers are counted.
LEMMA CountedFinite ==
    ASSUME NEW a
    PROVE  IsFiniteSet(Counted(a)) /\ Counted(a) \subseteq Consumers
BY InstancesFinite, FS_Subset DEF Counted

\* Visiting a slot: the accumulator counts it.
LEMMA CountSlot ==
    ASSUME TypeInv, CountInv, NEW i \in todo, Visit(i), i \in Held(leases),
           Held(leases') = Held(leases), NEW s \in {"active", "released"},
           acc' = Add(acc, ConsumerOf[i], s), UNCHANGED replacements
    PROVE  CountInv'
<1> DEFINE c == ConsumerOf[i]
<1>0. /\ c \in Consumers /\ acc \in AccumulatorType /\ step = "pass1" /\ step' = "pass1"
      /\ todo' = todo \ {i} /\ acc.total \in Nat
  BY ConsumerAssumption DEF TypeInv, TypeOK, Visit, AccumulatorType
<1>1. /\ Counted(acc') = Counted(acc) \cup {c} /\ acc'.total = acc.total + 1
      /\ \A d \in Consumers : acc'.active[d] > 0 \/ acc'.released[d] > 0
                                 => d = c \/ acc.active[d] > 0 \/ acc.released[d] > 0
  BY <1>0, AddCounts
<1>2. Seen' = Seen \cup {i} /\ IsFiniteSet(Seen)
  BY <1>0, HeldFinite, FS_Subset DEF Seen
<1>3. Cardinality(Seen') <= Cardinality(Seen) + 1 /\ Cardinality(Seen) \in Nat
      /\ Cardinality(Seen') \in Nat
  BY <1>2, CardAdd
<1>4. Strategy = "instance" => Cardinality(Seen') <= acc'.total
  BY <1>0, <1>1, <1>3 DEF CountInv
<1>5. Counted(acc') \cup Holders(leases') = Counted(acc) \cup Holders(leases)
  BY <1>1 DEF Holders
<1> QED BY <1>0, <1>1, <1>2, <1>4, <1>5 DEF CountInv

\* Visiting a lease that holds no slot, or loses it: the counts still cover.
LEMMA CountSame ==
    ASSUME TypeInv, CountInv, NEW i \in todo, Visit(i),
           Held(leases') \subseteq Held(leases) \ {i},
           Counted(acc') = Counted(acc), acc'.total = acc.total,
           \A d \in Consumers : acc'.active[d] > 0 \/ acc'.released[d] > 0
                                    => d \in Counted(acc),
           \A k \in 1..Len(replacements') :
                 /\ ConsumerOf[replacements'[k].inst] \in Counted(acc)
                 /\ replacements'[k].lease.policy.limit <= Capacity
    PROVE  CountInv'
<1>0. step = "pass1" /\ step' = "pass1" /\ todo' = todo \ {i} /\ acc.total \in Nat
  BY DEF TypeInv, TypeOK, Visit, AccumulatorType
<1>1. Seen' \subseteq Seen /\ IsFiniteSet(Seen)
  BY <1>0, HeldFinite, FS_Subset DEF Seen
<1>2. Cardinality(Seen') <= Cardinality(Seen) /\ Cardinality(Seen') \in Nat
      /\ Cardinality(Seen) \in Nat
  BY <1>1, CardSub
<1>3. Strategy = "instance" => Cardinality(Seen') <= acc'.total
  BY <1>0, <1>2 DEF CountInv
<1>4. Counted(acc') \cup Holders(leases') \subseteq Counted(acc) \cup Holders(leases)
  BY DEF Holders
<1>5. IsFiniteSet(Counted(acc) \cup Holders(leases))
  BY HeldFinite, CountedFinite, FS_Union
<1>6. Strategy = "consumer" => Cardinality(Counted(acc') \cup Holders(leases')) <= Capacity
  <2>1. /\ Cardinality(Counted(acc') \cup Holders(leases'))
              <= Cardinality(Counted(acc) \cup Holders(leases))
        /\ Cardinality(Counted(acc') \cup Holders(leases')) \in Nat
        /\ Cardinality(Counted(acc) \cup Holders(leases)) \in Nat
    BY <1>4, <1>5, CardSub
  <2> QED BY <2>1, CapacityAssumption DEF CountInv
<1> QED BY <1>0, <1>1, <1>3, <1>6 DEF CountInv

\* CanActivate leaves room for one more active lease, provided the accumulator
\* has counted every slot.
LEMMA Activate ==
    ASSUME TypeInv, CountInv, Seen = Held(leases),
           NEW i \in Instances, NEW limit \in Nat, limit <= Capacity,
           CanActivate(Strategy, acc.active[ConsumerOf[i]], Total(acc), limit),
           NEW ms, Held(ms) = Held(leases) \cup {i}
    PROVE  /\ Used(ms) <= Capacity
           /\ Strategy = "instance" => Cardinality(Held(ms)) <= acc.total + 1
           /\ Strategy = "consumer" =>
                 Cardinality(Counted(acc) \cup {ConsumerOf[i]} \cup Holders(ms)) <= Capacity
<1> DEFINE c == ConsumerOf[i]
           S == Counted(acc)
<1>0. /\ c \in Consumers /\ acc.total \in Nat /\ Capacity \in Nat
      /\ acc.active \in [Consumers -> Nat]
  BY ConsumerAssumption, CapacityAssumption DEF TypeInv, TypeOK, AccumulatorType
<1>1. CASE Strategy = "instance"
  <2>1. acc.total < limit
    BY <1>1 DEF CanActivate, Total
  <2>2. /\ Cardinality(Held(ms)) <= Cardinality(Held(leases)) + 1
        /\ Cardinality(Held(leases)) \in Nat /\ Cardinality(Held(ms)) \in Nat
    BY HeldFinite, CardAdd
  <2>3. Cardinality(Held(leases)) <= acc.total
    BY <1>1 DEF CountInv
  <2>4. Cardinality(Held(ms)) <= acc.total + 1 /\ Cardinality(Held(ms)) <= Capacity
    BY <1>0, <2>1, <2>2, <2>3
  <2> QED BY <1>1, <2>4 DEF Used
<1>2. CASE Strategy = "consumer"
  <2>1. Holders(ms) \subseteq S \cup {c} /\ S \cup {c} \cup Holders(ms) = S \cup {c}
    BY DEF CountInv, Holders
  <2>2. IsFiniteSet(S) /\ Cardinality(S) \in Nat /\ Total(acc) = Cardinality(S)
    BY <1>2, CountedFinite, FS_CardinalityType DEF Total
  <2>3. Cardinality(S \cup {c}) <= Capacity
    <3>1. CASE acc.active[c] > 0
      <4>1. S \cup {c} = S
        BY <1>0, <3>1 DEF CountInv
      <4>2. Cardinality(S) <= limit
        BY <2>2 DEF CanActivate
      <4>3. Cardinality(S) <= Capacity
        BY <1>0, <2>2, <4>2
      <4> HIDE DEF S, c
      <4> QED BY <4>1, <4>3
    <3>2. CASE ~(acc.active[c] > 0)
      <4>1. Cardinality(S) < limit
        BY <1>0, <2>2, <3>2 DEF CanActivate
      <4>2. Cardinality(S \cup {c}) \in Nat /\ Cardinality(S \cup {c}) <= Cardinality(S) + 1
        BY <2>2, CardAdd
      <4> QED BY <1>0, <2>2, <4>1, <4>2
    <3> QED BY <3>1, <3>2
  <2>4. IsFiniteSet(S \cup {c})
    BY <2>2, CardAdd
  <2>5. /\ Cardinality(Holders(ms)) <= Cardinality(S \cup {c})
        /\ Cardinality(Holders(ms)) \in Nat /\ Cardinality(S \cup {c}) \in Nat
    BY <2>1, <2>4, CardSub
  <2>6. Cardinality(Holders(ms)) <= Capacity
    BY <1>0, <2>3, <2>5
  <2> QED BY <1>2, <2>1, <2>3, <2>6 DEF Used
<1> QED BY <1>1, <1>2, StrategyAssumption

\* A fresh Refresh has counted nothing.
LEMMA LimitStart ==
    ASSUME NEW ls \in LeaseSet, Good(ls), StartRefresh(ls)
    PROVE  Good(leases)' /\ CountInv'
<1>1. /\ leases' = ls /\ step' = "pass1" /\ todo' = Present(ls)
      /\ acc' = NewAccumulator /\ replacements' = <<>>
  BY DEF StartRefresh
<1>2. Seen' = {}
  BY <1>1 DEF Seen, Held, Present, Consumptive
<1>3. Counted(acc') = {} /\ acc'.total = 0
      /\ \A c \in Consumers : acc'.active[c] = 0 /\ acc'.released[c] = 0
  BY <1>1 DEF Counted, NewAccumulator, Zero
<1>4. Strategy = "consumer" => Cardinality(Counted(acc') \cup Holders(leases')) <= Capacity
  <2>1. Counted(acc') \cup Holders(leases') = Holders(ls)
    BY <1>1, <1>3
  <2> QED BY <2>1 DEF Good, Used
<1>5. Strategy = "instance" => Cardinality(Seen') <= acc'.total
  BY <1>2, <1>3, FS_EmptySet
<1>6. Len(replacements') = 0
  BY <1>1
<1>7. CountInv'
  BY <1>1, <1>2, <1>3, <1>4, <1>5, <1>6 DEF CountInv
<1> QED BY <1>1, <1>7 DEF Good

\* The passes of Refresh keep the limit and the count.
LEMMA LimitRefreshStep ==
    ASSUME TypeInv, LimitInv, RefreshStep
    PROVE  Good(leases)' /\ (step' \in {"pass1", "pass2", "decide"} => CountInv')
<1> USE ConsumerAssumption
<1>0. /\ leases \in LeaseSet /\ acc \in AccumulatorType /\ todo \subseteq Instances
      /\ replacements \in Seq([inst : Instances, lease : LeaseType])
      /\ Bounded(leases) /\ Used(leases) <= Capacity /\ Capacity \in Nat
  BY CapacityAssumption DEF TypeInv, TypeOK, LimitInv, Good
<1>z. NoLease \in LeaseType /\ ~Consumptive(NoLease) /\ NoLease.policy.limit <= Capacity
  BY <1>0, ZeroTypes DEF NoLease, Consumptive
<1>p. ASSUME NEW i \in todo, Visit(i) PROVE CountInv /\ step' = "pass1" /\ i \in Instances
  BY <1>0, <1>p DEF Visit, LimitInv
\* Deleting the visited lease.
<1>d. ASSUME NEW i \in todo, Visit(i), leases' = [leases EXCEPT ![i] = NoLease]
      PROVE  /\ Held(leases') \subseteq Held(leases) \ {i}
             /\ Bounded(leases') /\ Used(leases') <= Capacity
  <2>1. Held(leases') = Held(leases) \ {i} /\ Bounded(leases')
    BY <1>0, <1>z, <1>d, HeldUpdate
  <2> QED BY <1>0, <2>1, UsedMono
<1>c. \A d \in Consumers : acc.active[d] > 0 \/ acc.released[d] > 0 => d \in Counted(acc)
  BY RefreshStep, LimitInv
     DEF RefreshStep, RefreshDecayed, RefreshExpired, RefreshHeld, RefreshQueueExpired,
         RefreshReplace, RefreshQueued, ReplaceReleased, EndPass1, EndPass2, Visit,
         LimitInv, CountInv
<1>1. ASSUME NEW i \in todo, RefreshDecayed(i) \/ RefreshQueueExpired(i)
      PROVE  Good(leases)' /\ CountInv'
  <2>1. Visit(i) /\ leases' = [leases EXCEPT ![i] = NoLease] /\ UNCHANGED <<acc, replacements>>
    BY <1>1 DEF RefreshDecayed, RefreshQueueExpired, Delete
  <2>2. CountInv'
    BY <1>c, <1>d, <1>p, <2>1, CountSame DEF CountInv
  <2> QED BY <1>d, <2>1, <2>2 DEF Good
<1>2. ASSUME NEW i \in todo, RefreshExpired(i) PROVE Good(leases)' /\ CountInv'
  <2> DEFINE l == [leases[i] EXCEPT !.status = "released",
                                    !.released = ExpirationTime(leases[i])]
  <2>1. leases[i] \in LeaseType /\ leases[i].policy.limit <= Capacity
    BY <1>0 DEF LeaseSet, Bounded
  <2>2. l \in LeaseType
    BY <2>1, LeaseFieldTypes DEF Statuses
  <2>3. Consumptive(l) /\ l.policy.limit <= Capacity
    BY <2>1 DEF Consumptive, LeaseType
  <2>4. Visit(i) /\ leases' = [leases EXCEPT ![i] = l] /\ UNCHANGED replacements
        /\ acc' = Add(acc, ConsumerOf[i], "released") /\ i \in Held(leases)
    BY <1>0, <1>2 DEF RefreshExpired, Update, Held, Consumptive
  <2> HIDE DEF l
  <2>5. Held(leases') = Held(leases) /\ Bounded(leases')
    <3>1. Held(leases') = Held(leases) \cup {i} /\ Bounded(leases')
      BY <1>0, <2>2, <2>3, <2>4, HeldUpdate
    <3> QED BY <2>4, <3>1
  <2>6. CountInv'
    BY <1>p, <2>4, <2>5, CountSlot
  <2>7. Used(leases') <= Capacity
    BY <1>0, <2>5, UsedMono
  <2> QED BY <2>5, <2>6, <2>7 DEF Good
<1>3. ASSUME NEW i \in todo, RefreshHeld(i) PROVE Good(leases)' /\ CountInv'
  <2>1. /\ Visit(i) /\ UNCHANGED <<leases, replacements>> /\ i \in Held(leases)
        /\ leases[i].status \in {"active", "released"}
        /\ acc' = Add(acc, ConsumerOf[i], leases[i].status)
    BY <1>0, <1>3 DEF RefreshHeld, Held, Consumptive
  <2>2. CountInv'
    BY <1>p, <2>1, CountSlot
  <2> QED BY <1>0, <2>1, <2>2 DEF Good
<1>4. ASSUME NEW i \in todo, RefreshReplace(i) PROVE Good(leases)' /\ CountInv'
  <2> DEFINE c == ConsumerOf[i]
             e == [inst |-> i, lease |-> leases[i]]
  <2>1. /\ Visit(i) /\ leases' = [leases EXCEPT ![i] = NoLease]
        /\ acc' = StartReplacement(acc, c) /\ acc.released[c] > 0
        /\ replacements' = Append(replacements, e)
    BY <1>4 DEF RefreshReplace, Delete
  <2>2. c \in Consumers /\ c \in Counted(acc)
    BY <1>0, <1>c, <2>1
  <2>3. /\ Counted(acc') = Counted(acc) /\ acc'.total = acc.total
        /\ \A d \in Consumers : acc'.active[d] > 0 \/ acc'.released[d] > 0 => d \in Counted(acc)
    BY <1>0, <1>c, <2>1, <2>2, StartCounts
  <2>4. e \in [inst : Instances, lease : LeaseType] /\ e.inst = i
        /\ e.lease.policy.limit <= Capacity
    BY <1>0 DEF LeaseSet, Bounded
  <2> HIDE DEF e
  <2>5. \A k \in 1..Len(replacements') :
            /\ ConsumerOf[replacements'[k].inst] \in Counted(acc)
            /\ replacements'[k].lease.policy.limit <= Capacity
    <3>1. \A k \in 1..Len(replacements') :
              replacements'[k] = e \/ (k \in 1..Len(replacements) /\ replacements'[k] = replacements[k])
      BY <1>0, <2>1, <2>4
    <3> QED BY <1>p, <2>1, <2>2, <2>4, <3>1 DEF CountInv
  <2>6. CountInv'
    BY <1>d, <1>p, <2>1, <2>3, <2>5, CountSame
  <2> QED BY <1>d, <2>1, <2>6 DEF Good
<1>5. ASSUME NEW i \in todo, RefreshQueued(i) PROVE Good(leases)' /\ CountInv'
  <2> DEFINE c == ConsumerOf[i]
             l == [leases[i] EXCEPT !.status = "active"]
             n == leases[i].policy.limit
  <2>0. CountInv /\ step = "pass1" /\ step' = "pass1" /\ i \in Instances /\ c \in Consumers
        /\ todo' = todo \ {i} /\ UNCHANGED replacements /\ Visit(i) /\ First(i)
        /\ leases[i].status = "queued"
    BY <1>0, <1>5, <1>p DEF RefreshQueued, Visit
  <2>1. leases[i] \in LeaseType /\ n <= Capacity /\ n \in Nat
    BY <1>0, <2>0, LeaseFieldTypes DEF LeaseSet, Bounded
  <2>2. i \notin Held(leases) /\ Held(leases) \cap todo = {}
    BY <2>0, QueuedLast DEF Held, Consumptive
  <2>3. CASE UNCHANGED <<leases, acc>>
    <3>1. Held(leases') \subseteq Held(leases) \ {i}
      BY <2>2, <2>3
    <3>2. CountInv'
      BY <1>c, <2>0, <2>3, <3>1, CountSame DEF CountInv
    <3> QED BY <1>0, <2>3, <3>2 DEF Good
  <2>4. CASE /\ CanActivate(Strategy, acc.active[c], Total(acc), n)
             /\ leases' = [leases EXCEPT ![i] = l]
             /\ acc' = Add(acc, c, "active")
    <3>1. l \in LeaseType /\ Consumptive(l) /\ l.policy.limit <= Capacity
      BY <2>1 DEF Consumptive, LeaseType, Statuses
    <3> HIDE DEF l
    <3>2. Held(leases') = Held(leases) \cup {i} /\ Bounded(leases')
      BY <1>0, <2>0, <2>4, <3>1, HeldUpdate
    <3>3. Seen = Held(leases)
      BY <2>0, <2>2 DEF Seen
    <3>4. /\ Used(leases') <= Capacity
          /\ Strategy = "instance" => Cardinality(Held(leases')) <= acc.total + 1
          /\ Strategy = "consumer" =>
                Cardinality(Counted(acc) \cup {c} \cup Holders(leases')) <= Capacity
      <4> HIDE DEF n
      <4> QED BY <2>0, <2>1, <2>4, <3>2, <3>3, Activate
    <3>5. /\ Counted(acc') = Counted(acc) \cup {c} /\ acc'.total = acc.total + 1
          /\ \A d \in Consumers : acc'.active[d] > 0 \/ acc'.released[d] > 0
                                     => d = c \/ acc.active[d] > 0 \/ acc.released[d] > 0
      BY <1>0, <2>0, <2>4, AddCounts
    <3>6. Seen' = Held(leases')
      BY <2>0, <2>2, <3>2 DEF Seen
    <3>7. \A j \in Seen' : ConsumerOf[j] \in Counted(acc')
      BY <2>0, <3>2, <3>3, <3>5, <3>6 DEF CountInv
    <3>8. CountInv'
      BY <1>c, <2>0, <3>4, <3>5, <3>6, <3>7 DEF CountInv
    <3> QED BY <3>2, <3>4, <3>8 DEF Good
  <2> QED BY <1>5, <2>3, <2>4 DEF RefreshQueued, Update
<1>6. ASSUME NEW i \in todo, ReplaceReleased(i) PROVE Good(leases)' /\ CountInv'
  <2> DEFINE r == Head(replacements)
             q == r.inst
             l == [r.lease EXCEPT !.status = "active"]
  <2>0. /\ step = "pass2" /\ step' = "pass2" /\ CountInv /\ i \in Instances
        /\ i \in Held(leases) /\ replacements # <<>> /\ todo' = todo \ {i}
        /\ acc' = FinishReplacement(acc, ConsumerOf[i])
        /\ replacements' = Tail(replacements)
    BY <1>0, <1>6 DEF ReplaceReleased, LimitInv, CountInv
  <2>1. /\ r \in [inst : Instances, lease : LeaseType] /\ r = replacements[1]
        /\ 1 \in 1..Len(replacements)
        /\ \A k \in 1..Len(replacements') : /\ replacements'[k] = replacements[k + 1]
                                             /\ k + 1 \in 1..Len(replacements)
    BY <1>0, <2>0, HeadTail
  <2>2. /\ q \in Instances /\ ConsumerOf[q] \in Counted(acc)
        /\ r.lease \in LeaseType /\ r.lease.policy.limit <= Capacity
    BY <2>0, <2>1 DEF CountInv
  <2>3. l \in LeaseType /\ Consumptive(l) /\ l.policy.limit <= Capacity
    BY <2>2 DEF Consumptive, LeaseType, Statuses
  <2>4. leases' = Overwrite(leases, i, q, l)
    BY <1>6 DEF ReplaceReleased
  <2> HIDE DEF r, q, l
  <2>5. /\ Held(leases') \subseteq (Held(leases) \ {i}) \cup {q}
        /\ Held(leases) \ {i} \subseteq Held(leases')
        /\ Bounded(leases')
    BY <1>0, <2>0, <2>2, <2>3, <2>4, HeldOverwrite
  <2>6. Cardinality(Held(leases')) <= Cardinality(Held(leases))
    BY <2>0, <2>5, HeldFinite, CardSwap
  <2>7. Counted(acc') = Counted(acc) /\ acc'.total = acc.total
        /\ acc'.active = acc.active /\ acc'.released = acc.released
    BY <1>0, <2>0, FinishCounts
  <2>8. Seen = Held(leases) /\ Seen' = Held(leases')
    BY <2>0 DEF Seen
  <2>9. \A j \in Held(leases') : ConsumerOf[j] \in Counted(acc)
    BY <2>0, <2>2, <2>5, <2>8 DEF CountInv
  <2>10. /\ Counted(acc') \cup Holders(leases') = Counted(acc)
         /\ Counted(acc) \cup Holders(leases) = Counted(acc)
         /\ Holders(leases') \subseteq Counted(acc)
    BY <2>0, <2>7, <2>8, <2>9 DEF CountInv, Holders
  <2>11. Strategy = "instance" => Cardinality(Seen') <= acc'.total
    <3>1. /\ Cardinality(Held(leases)) \in Nat /\ Cardinality(Held(leases')) \in Nat
          /\ acc.total \in Nat
      BY <1>0, HeldFinite, FS_CardinalityType DEF AccumulatorType
    <3> QED BY <2>0, <2>6, <2>7, <2>8, <3>1 DEF CountInv
  <2>12. Used(leases') <= Capacity
    <3>1. CASE Strategy = "instance"
      <4>1. Cardinality(Held(leases)) \in Nat /\ Cardinality(Held(leases')) \in Nat
        BY HeldFinite, FS_CardinalityType
      <4> QED BY <1>0, <2>6, <3>1, <4>1 DEF Used
    <3>2. CASE Strategy = "consumer"
      <4>1. Cardinality(Counted(acc)) <= Capacity
        BY <2>0, <2>10, <3>2 DEF CountInv
      <4>2. /\ Cardinality(Holders(leases')) <= Cardinality(Counted(acc))
            /\ Cardinality(Holders(leases')) \in Nat /\ Cardinality(Counted(acc)) \in Nat
        BY <2>10, CountedFinite, CardSub
      <4> QED BY <1>0, <3>2, <4>1, <4>2 DEF Used
    <3> QED BY <3>1, <3>2, StrategyAssumption
  <2>13. \A k \in 1..Len(replacements') :
             /\ ConsumerOf[replacements'[k].inst] \in Counted(acc')
             /\ replacements'[k].lease.policy.limit <= Capacity
    BY <2>0, <2>1, <2>7 DEF CountInv
  <2>14. CountInv'
    BY <2>0, <2>5, <2>7, <2>8, <2>9, <2>10, <2>11, <2>13 DEF CountInv
  <2> QED BY <2>5, <2>12, <2>14 DEF Good
<1>7. CASE EndPass1
  <2>0. CountInv /\ UNCHANGED <<leases, acc, replacements>> /\ step = "pass1" /\ todo = {}
    BY <1>7 DEF EndPass1, LimitInv
  <2>1. Seen' = Seen
    <3>1. step' # "pass1"
      BY <1>7 DEF EndPass1, AfterRefresh
    <3>2. Seen = Held(leases) /\ Seen' = Held(leases')
      BY <2>0, <3>1 DEF Seen
    <3> QED BY <2>0, <3>2
  <2>2. step' = "pass2" => todo' \subseteq Held(leases')
    BY <1>7 DEF EndPass1, AfterRefresh, Held, Consumptive
  <2>3. CountInv'
    BY <2>0, <2>1, <2>2 DEF CountInv
  <2> QED BY <1>0, <2>0, <2>3 DEF Good
<1>8. CASE EndPass2
  <2>0. CountInv /\ UNCHANGED <<leases, acc, replacements>> /\ step = "pass2"
        /\ step' \in {"decide", "finish"}
    BY <1>8 DEF EndPass2, AfterRefresh, LimitInv
  <2>1. Seen' = Seen
    <3>1. step # "pass1" /\ step' # "pass1"
      BY <2>0
    <3>2. Seen = Held(leases) /\ Seen' = Held(leases')
      BY <3>1 DEF Seen
    <3> QED BY <2>0, <3>2
  <2>2. CountInv'
    BY <2>0, <2>1 DEF CountInv
  <2> QED BY <1>0, <2>0, <2>2 DEF Good
<1> QED BY <1>1, <1>2, <1>3, <1>4, <1>5, <1>6, <1>7, <1>8, RefreshStep DEF RefreshStep

\* The decisions of Acquire, Update and Release keep the limit and the count.
LEMMA LimitDecideStep ==
    ASSUME TypeInv, LimitInv, DecideStep
    PROVE  Good(leases)' /\ (step' \in {"pass1", "pass2", "decide"} => CountInv')
<1> USE ConsumerAssumption
<1>0. /\ leases \in LeaseSet /\ acc \in AccumulatorType
      /\ Bounded(leases) /\ Used(leases) <= Capacity /\ Capacity \in Nat
  BY CapacityAssumption DEF TypeInv, TypeOK, LimitInv, Good
<1>1. step = "decide" /\ CountInv /\ Call.op \in {"acquire", "release"}
  BY DecideStep DEF DecideStep, AcquireReleased, AcquireRenew, AcquireReplace,
     AcquireCreate, Release, Deciding, LimitInv
<1>2. /\ Call.inst \in Instances /\ cur \in Handlers /\ Call.policy.limit \in Nat
      /\ \A s \in Statuses : NewLease(s) \in LeaseType
  BY <1>1, TypeCall
<1>3. Seen = Held(leases)
  BY <1>1 DEF Seen
<1>4. Call.op = "acquire" => /\ \A s \in Statuses : NewLease(s).policy.limit <= Capacity
                             /\ Call.policy.limit <= Capacity
  BY <1>2 DEF LimitInv, CallsGood, Call, NewLease
<1>5. CASE AcquireReleased
  <2> PICK s \in {"active", "queued"} : leases' = [leases EXCEPT ![Call.inst] = NewLease(s)]
    BY <1>5 DEF AcquireReleased, Update
  <2>1. step' = "finish" /\ Call.op = "acquire" /\ Call.inst \in Held(leases)
    BY <1>2, <1>5 DEF AcquireReleased, Decided, Deciding, Held, Consumptive
  <2>2. NewLease(s) \in LeaseType /\ NewLease(s).policy.limit <= Capacity
    BY <1>2, <1>4, <2>1 DEF Statuses
  <2>3. Held(leases') \subseteq Held(leases) /\ Bounded(leases')
    <3> DEFINE l == NewLease(s)
               i == Call.inst
    <3>0. /\ i \in Instances /\ i \in Held(leases) /\ leases' = [leases EXCEPT ![i] = l]
          /\ l \in LeaseType /\ l.policy.limit <= Capacity
      BY <1>2, <2>1, <2>2
    <3> HIDE DEF l, i
    <3>1. /\ Consumptive(l) => Held(leases') = Held(leases) \cup {i}
          /\ ~Consumptive(l) => Held(leases') = Held(leases) \ {i}
          /\ Bounded(leases')
      BY <1>0, <3>0, HeldUpdate, ZenonT(40)
    <3> QED BY <3>0, <3>1
  <2> QED BY <1>0, <2>1, <2>3, UsedMono DEF Good
<1>6. CASE AcquireRenew
  <2> DEFINE s == leases[Call.inst].status
             l == [NewLease(s) EXCEPT !.started = leases[Call.inst].started]
  <2>1. /\ step' = "finish" /\ Call.op = "acquire" /\ s \in {"active", "queued"}
        /\ leases' = [leases EXCEPT ![Call.inst] = l]
    BY <1>6 DEF AcquireRenew, Decided, Deciding, Update
  <2>2. NewLease(s) \in LeaseType /\ NewLease(s).policy.limit <= Capacity /\ NewLease(s).status = s
        /\ leases[Call.inst].started \in Nat
    BY <1>0, <1>2, <1>4, <2>1 DEF Statuses, NewLease, LeaseSet, LeaseType
  <2>3. l \in LeaseType /\ l.policy.limit <= Capacity /\ l.status = s
    <3> HIDE DEF s
    <3> QED BY <2>2 DEF LeaseType
  <2>4. Consumptive(l) <=> Call.inst \in Held(leases)
    BY <1>2, <2>3 DEF Held, Consumptive
  <2> HIDE DEF l
  <2>5. Held(leases') \subseteq Held(leases) /\ Bounded(leases')
    <3> DEFINE i == Call.inst
    <3>0. /\ i \in Instances /\ leases' = [leases EXCEPT ![i] = l]
          /\ Consumptive(l) <=> i \in Held(leases)
      BY <1>2, <2>1, <2>4
    <3> HIDE DEF i
    <3>1. /\ Consumptive(l) => Held(leases') = Held(leases) \cup {i}
          /\ ~Consumptive(l) => Held(leases') = Held(leases) \ {i}
          /\ Bounded(leases')
      BY <1>0, <2>3, <3>0, HeldUpdate
    <3> QED BY <3>0, <3>1
  <2> QED BY <1>0, <2>1, <2>5, UsedMono DEF Good
<1>7. CASE AcquireReplace
  <2> PICK i \in OwnReleased : leases' = Overwrite(leases, i, Call.inst, NewLease("active"))
    BY <1>7 DEF AcquireReplace
  <2>1. step' = "finish" /\ Call.op = "acquire"
    BY <1>7 DEF AcquireReplace, Decided, Deciding
  <2>2. i \in Instances /\ i \in Held(leases) /\ ConsumerOf[i] = ConsumerOf[Call.inst]
    BY DEF OwnReleased, Held, Consumptive
  <2>3. NewLease("active") \in LeaseType
    BY <1>2 DEF Statuses
  <2>4. Held(leases') \subseteq (Held(leases) \ {i}) \cup {Call.inst} /\ Bounded(leases')
    <3> DEFINE l == NewLease("active")
               q == Call.inst
    <3>0. /\ q \in Instances /\ leases' = Overwrite(leases, i, q, l)
          /\ l \in LeaseType /\ l.policy.limit <= Capacity
      BY <1>2, <1>4, <2>1, <2>3 DEF Statuses
    <3> HIDE DEF l
    <3>1. Held(leases') \subseteq (Held(leases) \ {i}) \cup {q} /\ Bounded(leases')
      <4> HIDE DEF q
      <4> QED BY <1>0, <2>2, <3>0, HeldOverwrite
    <3> QED BY <3>1
  <2>5. Holders(leases') \subseteq Holders(leases)
    BY <2>2, <2>4 DEF Holders
  <2>6. /\ Cardinality(Held(leases')) <= Cardinality(Held(leases))
        /\ Cardinality(Holders(leases')) <= Cardinality(Holders(leases))
    BY <2>2, <2>4, <2>5, HeldFinite, CardSwap, CardSub
  <2>7. Used(leases') <= Used(leases)
    BY <2>6 DEF Used
  <2>8. Used(leases') <= Capacity
    BY <1>0, <2>7, HeldFinite
  <2> QED BY <2>1, <2>4, <2>8 DEF Good
<1>8. CASE AcquireCreate
  <2> DEFINE i == Call.inst
             n == Call.policy.limit
             s == IF CanActivate(Strategy, acc.active[ConsumerOf[i]], Total(acc), n)
                  THEN "active" ELSE "queued"
  <2>1. /\ step' = "finish" /\ Call.op = "acquire"
        /\ leases' = [leases EXCEPT ![i] = NewLease(s)]
        /\ i \notin Held(leases)
    BY <1>8 DEF AcquireCreate, Update, Decided, Deciding, Held, Consumptive
  <2>2. n \in Nat /\ n <= Capacity /\ i \in Instances
    BY <1>2, <1>4, <2>1
  <2>3. CASE s = "active"
    <3>1. CanActivate(Strategy, acc.active[ConsumerOf[i]], Total(acc), n)
      BY <2>3
    <3>2. NewLease("active") \in LeaseType /\ NewLease("active").policy.limit <= Capacity
      BY <1>2, <1>4, <2>1 DEF Statuses
    <3>2a. Consumptive(NewLease("active"))
      BY DEF NewLease, Consumptive
    <3>3. leases' = [leases EXCEPT ![i] = NewLease("active")]
      BY <2>1, <2>3
    <3> HIDE DEF i, n, s
    <3>4. Held(leases') = Held(leases) \cup {i} /\ Bounded(leases')
      BY <1>0, <2>2, <3>2, <3>2a, <3>3, HeldUpdate
    <3>5. Used(leases') <= Capacity
      BY <1>1, <1>3, <2>2, <3>1, <3>4, Activate
    <3> QED BY <2>1, <3>4, <3>5 DEF Good
  <2>4. CASE s = "queued"
    <3>1. NewLease("queued") \in LeaseType /\ NewLease("queued").policy.limit <= Capacity
      BY <1>2, <1>4, <2>1 DEF Statuses
    <3>1a. ~Consumptive(NewLease("queued"))
      BY DEF NewLease, Consumptive
    <3>2. leases' = [leases EXCEPT ![i] = NewLease("queued")]
      BY <2>1, <2>4
    <3> HIDE DEF i, n, s
    <3>3. Held(leases') \subseteq Held(leases) /\ Bounded(leases')
      <4> DEFINE l == NewLease("queued")
      <4>0. /\ leases' = [leases EXCEPT ![i] = l] /\ ~Consumptive(l)
            /\ l \in LeaseType /\ l.policy.limit <= Capacity
        BY <3>1, <3>1a, <3>2
      <4> HIDE DEF l
      <4>1. Held(leases') = Held(leases) \ {i} /\ Bounded(leases')
        BY <1>0, <2>2, <4>0, HeldUpdate
      <4> QED BY <4>1
    <3> QED BY <1>0, <2>1, <3>3, UsedMono DEF Good
  <2> QED BY <2>3, <2>4
<1>9. CASE Release
  <2> DEFINE i == Call.inst
             l == Released(leases[i])
             ls == [leases EXCEPT ![i] = l]
  <2>1. leases[i] \in LeaseType /\ leases[i].policy.limit <= Capacity /\ i \in Instances
        /\ at \in Nat
    BY <1>0, <1>1, <1>2, TypeCall DEF LeaseSet, Bounded
  <2>2. l \in LeaseType /\ l.policy.limit <= Capacity
    <3>1. CASE leases[i].status = "active"
      BY <2>1, <3>1 DEF Released, LeaseType, Statuses
    <3>2. CASE leases[i].status # "active"
      <4>1. l = NoLease
        BY <3>2 DEF Released
      <4>2. NoLease \in LeaseType /\ NoLease.policy.limit <= Capacity
        BY <1>0, ZeroTypes DEF NoLease
      <4> QED BY <4>1, <4>2
    <3> QED BY <3>1, <3>2
  <2>3. Consumptive(l) => i \in Held(leases)
    BY <2>1 DEF Released, Consumptive, Held, NoLease
  <2>4. StartRefresh(ls)
    BY <1>9 DEF Release
  <2> HIDE DEF l
  <2>5. ls \in LeaseSet
    BY <1>0, <2>1, <2>2, LeaseSetTypes
  <2>6. Held(ls) \subseteq Held(leases) /\ Bounded(ls)
    BY <1>0, <2>1, <2>2, <2>3, HeldUpdate
  <2> HIDE DEF ls
  <2>7. Good(ls)
    BY <1>0, <2>6, UsedMono DEF Good
  <2> QED BY <2>4, <2>5, <2>7, LimitStart
<1> QED BY <1>5, <1>6, <1>7, <1>8, <1>9, DecideStep DEF DecideStep

-----------------------------------------------------------------------------
\* The limit holds before any call.
LEMMA LimitInit == Init => LimitInv
<1> SUFFICES ASSUME Init PROVE LimitInv
  OBVIOUS
<1>1. \A x \in Handlers : /\ calls[x].base = NoLeases /\ calls[x].result = NoLeases
                          /\ calls[x].op = "none"
  BY ZeroTypes DEF Init
<1>2. Good(page.leases) /\ Good(leases) /\ step = "none"
  BY NoLeasesGood DEF Init
<1> QED BY <1>1, <1>2, NoLeasesGood DEF LimitInv, CallsGood

\* A handler's record changes to one whose lease sets are within the limit.
LEMMA LimitCalls ==
    ASSUME TypeInv, LimitInv, NEW x \in Handlers, NEW d \in CallType,
           calls' = [calls EXCEPT ![x] = d], Good(d.base), Good(d.result),
           d.op = "acquire" => d.policy.limit <= Capacity
    PROVE  CallsGood'
<1>1. \A y \in Handlers : calls'[y] = IF y = x THEN d ELSE calls[y]
  BY DEF TypeInv, TypeOK
<1> QED BY <1>1 DEF LimitInv, CallsGood

\* Every step keeps the limit.
LEMMA LimitNext == TypeInv /\ ViewInv /\ LimitInv /\ [Next]_vars => LimitInv'
<1> SUFFICES ASSUME TypeInv, ViewInv, LimitInv, [Next]_vars PROVE LimitInv'
  OBVIOUS
<1>0. cur = None => step = "none"
  BY NoneAssumption DEF TypeInv
\* A step of the idle engine that changes only the calls.
<1>c. ASSUME cur = None, UNCHANGED <<page, computation>>, CallsGood' PROVE LimitInv'
  BY <1>0, <1>c DEF LimitInv, Good, Bounded, Used, Held, Holders, computation
<1>1. CASE UNCHANGED vars
  BY <1>1 DEF vars, LimitInv, CallsGood, CountInv, Seen
<1>2. CASE Tick
  BY <1>2, <1>c DEF Tick, LimitInv, CallsGood
<1>3. CASE Crash
  <2>1. \A x \in Handlers : /\ calls'[x].base = NoLeases /\ calls'[x].result = NoLeases
                            /\ calls'[x].op = "none"
    BY <1>3, ZeroTypes DEF Crash
  <2>2. CallsGood'
    BY <2>1, NoLeasesGood DEF CallsGood
  <2>3. Good(page.leases)'
    BY <1>3, NoLeasesGood DEF Crash, LimitInv
  <2>4. step' = "none" /\ leases' = leases
    BY <1>0, <1>3 DEF Crash, computation
  <2> QED BY <2>2, <2>3, <2>4 DEF LimitInv
<1>4. CASE RefreshStep \/ DecideStep
  <2>1. Good(leases)' /\ (step' \in {"pass1", "pass2", "decide"} => CountInv')
    BY <1>4, LimitRefreshStep, LimitDecideStep
  <2>2. page' = page /\ calls' = calls
    BY <1>4, ComputeLocal
  <2> QED BY <2>1, <2>2 DEF LimitInv, CallsGood
<1>5. CASE Finish
  <2>0. cur \in Handlers /\ Call \in CallType /\ leases \in LeaseSet /\ dirty \in BOOLEAN
    BY <1>5, TypeCall DEF Finish, TypeInv, TypeOK
  <2> DEFINE d == Computed(Call, leases, dirty)
  <2>1. /\ d \in CallType /\ d.base = Call.base /\ d.result = leases /\ d.op = Call.op
        /\ d.policy = Call.policy
    BY <2>0, ComputedType
  <2>2. calls' = [calls EXCEPT ![cur] = d] /\ page' = page /\ step' = "none"
        /\ leases' = NoLeases
    BY <1>5 DEF Finish
  <2>3. Good(Call.base) /\ Good(leases) /\ (Call.op = "acquire" => Call.policy.limit <= Capacity)
    BY <2>0 DEF LimitInv, CallsGood, Call
  <2> HIDE DEF d
  <2>4. CallsGood'
    BY <2>0, <2>1, <2>2, <2>3, LimitCalls
  <2> QED BY <2>2, <2>4, NoLeasesGood DEF LimitInv
<1>6. ASSUME NEW x \in Handlers, NewRequest(x) PROVE LimitInv'
  <2>1. \E op \in Ops, i \in Instances \cup {None}, p \in Policy :
            Request(x, op, i, p) /\ p.limit <= Capacity
    <3>1. \A p \in Policies : p \in Policy /\ p.limit <= Capacity
      BY PolicyAssumption, CapacityAssumption
    <3>2. NoPolicy \in Policy /\ NoPolicy.limit <= Capacity
      BY ZeroTypes, CapacityAssumption DEF NoPolicy, NoLease
    <3> QED BY <1>6, <3>1, <3>2 DEF NewRequest, AcquireRequest, ReleaseRequest,
               RefreshRequest, PurgeRequest, Ops
  <2> PICK op \in Ops, i \in Instances \cup {None}, p \in Policy :
            Request(x, op, i, p) /\ p.limit <= Capacity
    BY <2>1
  <2> DEFINE d == Calling(op, i, p, 0)
  <2>2. d \in CallType /\ d.base = NoLeases /\ d.result = NoLeases /\ d.policy = p
    BY CallingTypes
  <2>3. calls' = [calls EXCEPT ![x] = d] /\ cur = None /\ UNCHANGED <<page, computation>>
    BY DEF Request
  <2> HIDE DEF d
  <2>4. CallsGood'
    BY <2>2, <2>3, NoLeasesGood, LimitCalls
  <2> QED BY <1>c, <2>3, <2>4
<1>7. ASSUME NEW x \in Handlers, Serve(x) PROVE LimitInv'
  <2> DEFINE c == calls[x]
  <2>0. /\ c \in CallType /\ cur = None /\ step = "none" /\ now \in Nat
        /\ page.rev \in Nat /\ page.leases \in LeaseSet
    BY <1>0, <1>7 DEF TypeInv, TypeOK, Serve, View, ViewError, Begin, CommitEmpty, Commit,
       CommitConflict, CommitError, Ready
  <2>a. /\ Good(c.base) /\ Good(c.result) /\ Good(page.leases)
        /\ c.op = "acquire" => c.policy.limit <= Capacity
    BY DEF LimitInv, CallsGood
  <2>1. CASE View(x)
    <3> DEFINE d == Viewed(c, page.rev, page.leases)
    <3>1. /\ d \in CallType /\ d.base = page.leases /\ d.result = c.result /\ d.op = c.op
          /\ d.policy = c.policy
      BY <2>0, ViewedType
    <3>2. calls' = [calls EXCEPT ![x] = d] /\ UNCHANGED <<page, computation>>
      BY <2>1 DEF View
    <3> HIDE DEF d
    <3>3. CallsGood'
      BY <2>a, <3>1, <3>2, LimitCalls
    <3> QED BY <1>c, <2>0, <3>2, <3>3
  <2>2. CASE Begin(x)
    <3> DEFINE d == Computing(c, now)
    <3>1. /\ d \in CallType /\ d.base = c.base /\ d.result = c.result /\ d.op = c.op
          /\ d.policy = c.policy
      BY <2>0, ComputingType
    <3>2. /\ calls' = [calls EXCEPT ![x] = d] /\ page' = page
          /\ StartRefresh(c.base)
      BY <2>2 DEF Begin
    <3>3. c.base \in LeaseSet
      BY <2>0 DEF CallType
    <3> HIDE DEF d
    <3>4. CallsGood'
      BY <2>a, <3>1, <3>2, LimitCalls
    <3>5. Good(leases)' /\ CountInv'
      BY <2>a, <3>2, <3>3, LimitStart
    <3> QED BY <2>a, <3>2, <3>4, <3>5 DEF LimitInv
  <2>3. CASE ViewError(x) \/ CommitConflict(x) \/ CommitError(x)
    <3>1. Failed(x) /\ UNCHANGED <<page, computation>>
      BY <2>3 DEF ViewError, CommitConflict, CommitError
    <3> PICK d \in CallType :
            /\ calls' = [calls EXCEPT ![x] = d]
            /\ d.base = NoLeases /\ d.result = NoLeases
            /\ d.op = "none" \/ (d.op = calls[x].op /\ d.policy = calls[x].policy)
      BY <3>1, FailedCall
    <3>2. CallsGood'
      BY <2>a, NoLeasesGood, LimitCalls
    <3> QED BY <1>c, <2>0, <3>1, <3>2
  <2>4. CASE CommitEmpty(x) \/ Commit(x)
    <3>1. calls' = [calls EXCEPT ![x] = IdleCall] /\ UNCHANGED computation
      BY <2>4 DEF CommitEmpty, Commit, Done
    <3>2. CallsGood'
      BY <3>1, ZeroTypes, NoLeasesGood, LimitCalls
    <3>3. CASE CommitEmpty(x)
      BY <1>c, <2>0, <3>1, <3>2, <3>3 DEF CommitEmpty
    <3>4. CASE Commit(x)
      <4>1. c.base = page.leases
        BY <3>4 DEF Commit, Ready, RevisionMatches, ViewInv, ViewIntegrity
      <4>2. c.result \in LeaseSet /\ page.leases \in LeaseSet
        BY <2>0 DEF CallType
      <4>3. Stored(x) = c.result
        BY <4>1, <4>2 DEF Stored, LeaseSet
      <4>4. Good(page.leases)'
        BY <2>a, <3>4, <4>3 DEF Commit
      <4>5. leases' = leases /\ step' = "none"
        BY <2>0, <3>1 DEF computation
      <4> QED BY <3>2, <4>4, <4>5 DEF LimitInv
    <3> QED BY <2>4, <3>3, <3>4
  <2> QED BY <1>7, <2>1, <2>2, <2>3, <2>4 DEF Serve
<1> QED BY <1>1, <1>2, <1>3, <1>4, <1>5, <1>6, <1>7 DEF Next, Compute

\* The resource is never over-allocated: whatever requests, background jobs,
\* conflicts, store errors and crashes interleave, and however the policies
\* disagree, the committed leases consume at most the largest limit granted.
THEOREM NeverOverAllocated == Spec => []WithinLimit
<1>1. LimitInv => WithinLimit
  BY DEF LimitInv, Good, WithinLimit
<1> QED BY <1>1, TypeInit, TypeNext, ViewInit, ViewNext, LimitInit, LimitNext, PTL DEF Spec
=============================================================================
