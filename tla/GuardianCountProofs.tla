------------------------- MODULE GuardianCountProofs -------------------------
(***************************************************************************)
(* The accumulator counts exactly.  GuardianProofs only needs that it      *)
(* never counts too little; that Refresh and acquire never panic, that no  *)
(* slot idles and that slots are held until they decay need the converse.  *)
(***************************************************************************)
EXTENDS GuardianProofs

\* The slots of one consumer among those counted, and the decaying ones.
SeenBy(c) == {i \in Seen : ConsumerOf[i] = c}
SeenReleased(c) == {i \in Seen : leases[i].status = "released" /\ ConsumerOf[i] = c}

\* The queued leases that Refresh has set aside for its second pass.
Waiting == {i \in Instances : \E k \in 1..Len(replacements) : replacements[k].inst = i}
WaitingBy(c) == {i \in Waiting : ConsumerOf[i] = c}

\* One element for every replacement that is recorded and not finished.
Outstanding == {p \in Consumers \X Nat : p[2] \in 1..acc.replacements[p[1]]}

\* The leases set aside are distinct and no longer in the lease set.
WaitingInv ==
    \A k \in 1..Len(replacements) :
        /\ leases[replacements[k].inst].status = "none"
        /\ \A m \in 1..Len(replacements) :
              replacements[k].inst = replacements[m].inst => k = m

\* A replacement moves a slot from one lease to another, and in the second
\* pass perhaps from one consumer to another: what a consumer has lost that
\* way he still has waiting.
TallyInv ==
    /\ acc.total = Cardinality(Seen)
    /\ \A c \in Consumers :
          /\ acc.released[c] + acc.replacements[c] = Cardinality(SeenReleased(c))
          /\ acc.consumed[c] + acc.replacements[c]
                = Cardinality(SeenBy(c)) + Cardinality(WaitingBy(c))
    /\ step = "pass1" =>
          \A c \in Consumers : acc.replacements[c] = Cardinality(WaitingBy(c))

\* As many replacements are outstanding as leases wait for one.
PairInv == IsFiniteSet(Outstanding) /\ Cardinality(Outstanding) = Cardinality(Waiting)

\* What each step of Refresh has left to do.
LeftInv ==
    /\ step = "pass2" => todo = {i \in Instances : leases[i].status = "released"}
    /\ step = "decide" => /\ replacements = <<>>
                          /\ \A c \in Consumers : acc.replacements[c] = 0

\* PanicFree made inductive.
ExactInv == step \in {"pass1", "pass2", "decide"} =>
                WaitingInv /\ TallyInv /\ PairInv /\ LeftInv

-----------------------------------------------------------------------------
(* Counting to the unit. *)

\* A new element adds exactly one.
LEMMA CardNew ==
    ASSUME NEW S, IsFiniteSet(S), NEW x, x \notin S
    PROVE  /\ IsFiniteSet(S \cup {x})
           /\ Cardinality(S) \in Nat
           /\ Cardinality(S \cup {x}) = Cardinality(S) + 1
BY FS_AddElement, FS_CardinalityType

\* A member that leaves takes exactly one away.
LEMMA CardLess ==
    ASSUME NEW S, IsFiniteSet(S), NEW x \in S
    PROVE  /\ IsFiniteSet(S \ {x})
           /\ Cardinality(S) \in Nat
           /\ Cardinality(S \ {x}) \in Nat
           /\ Cardinality(S \ {x}) = Cardinality(S) - 1
BY FS_RemoveElement, FS_CardinalityType

\* The counted sets are finite, and their sizes natural numbers.
LEMMA TallyFinite ==
    ASSUME NEW c
    PROVE  /\ IsFiniteSet(Seen) /\ IsFiniteSet(SeenBy(c)) /\ IsFiniteSet(SeenReleased(c))
           /\ IsFiniteSet(Waiting) /\ IsFiniteSet(WaitingBy(c))
           /\ Cardinality(Seen) \in Nat /\ Cardinality(SeenBy(c)) \in Nat
           /\ Cardinality(SeenReleased(c)) \in Nat
           /\ Cardinality(Waiting) \in Nat /\ Cardinality(WaitingBy(c)) \in Nat
<1>1. /\ Seen \subseteq Instances /\ SeenBy(c) \subseteq Instances
      /\ SeenReleased(c) \subseteq Instances
      /\ Waiting \subseteq Instances /\ WaitingBy(c) \subseteq Instances
  BY DEF Seen, SeenBy, SeenReleased, Waiting, WaitingBy, Held
<1> QED BY <1>1, InstancesFinite, FS_Subset, FS_CardinalityType

\* The counters of a consumer are natural numbers.
LEMMA CounterTypes ==
    ASSUME NEW a \in AccumulatorType, NEW c \in Consumers
    PROVE  /\ a.total \in Nat /\ a.active[c] \in Nat /\ a.released[c] \in Nat
           /\ a.consumed[c] \in Nat /\ a.replacements[c] \in Nat
BY DEF AccumulatorType

\* Add changes the counters of one consumer.
LEMMA AddTally ==
    ASSUME NEW a \in AccumulatorType, NEW c \in Consumers, NEW s \in {"active", "released"},
           NEW d \in Consumers
    PROVE  /\ Add(a, c, s).total = a.total + 1
           /\ Add(a, c, s).replacements = a.replacements
           /\ Add(a, c, s).consumed[d] = a.consumed[d] + (IF d = c THEN 1 ELSE 0)
           /\ Add(a, c, s).released[d]
                = a.released[d] + (IF d = c /\ s = "released" THEN 1 ELSE 0)
BY DEF AccumulatorType, Add

\* A started replacement turns a decaying slot into an outstanding one.
LEMMA StartTally ==
    ASSUME NEW a \in AccumulatorType, NEW c \in Consumers, NEW d \in Consumers
    PROVE  /\ StartReplacement(a, c).total = a.total
           /\ StartReplacement(a, c).consumed = a.consumed
           /\ StartReplacement(a, c).released[d] = a.released[d] - (IF d = c THEN 1 ELSE 0)
           /\ StartReplacement(a, c).replacements[d]
                = a.replacements[d] + (IF d = c THEN 1 ELSE 0)
<1> DEFINE b == StartReplacement(a, c)
<1>1. /\ b.consumed = a.consumed /\ b.total = a.total
      /\ b.released = [a.released EXCEPT ![c] = @ - 1]
      /\ b.replacements = [a.replacements EXCEPT ![c] = @ + 1]
  BY DEF StartReplacement, AccumulatorType
<1>2. a.replacements \in [Consumers -> Nat] /\ a.released \in [Consumers -> Nat]
  BY DEF AccumulatorType
<1> QED BY <1>1, <1>2

\* A finished replacement is no longer outstanding.
LEMMA FinishTally ==
    ASSUME NEW a \in AccumulatorType, NEW c \in Consumers, NEW d \in Consumers
    PROVE  /\ FinishReplacement(a, c).total = a.total
           /\ FinishReplacement(a, c).consumed = a.consumed
           /\ FinishReplacement(a, c).released = a.released
           /\ FinishReplacement(a, c).replacements[d]
                = a.replacements[d] - (IF d = c THEN 1 ELSE 0)
<1> DEFINE b == FinishReplacement(a, c)
<1>1. /\ b.consumed = a.consumed /\ b.total = a.total /\ b.released = a.released
      /\ b.replacements = [a.replacements EXCEPT ![c] = @ - 1]
  BY DEF FinishReplacement, AccumulatorType
<1>2. a.replacements \in [Consumers -> Nat]
  BY DEF AccumulatorType
<1> QED BY <1>1, <1>2

\* The elements of a sequence.
LEMMA Elements ==
    ASSUME NEW S, NEW q \in Seq(S), NEW k \in 1..Len(q)
    PROVE  q[k] \in S
OBVIOUS

\* What the list of replacements holds.
LEMMA ListTypes ==
    ASSUME TypeInv, NEW k \in 1..Len(replacements)
    PROVE  /\ replacements[k] \in [inst : Instances, lease : LeaseType]
           /\ replacements[k].inst \in Instances /\ replacements[k].lease \in LeaseType
<1>1. replacements \in Seq([inst : Instances, lease : LeaseType])
  BY DEF TypeInv, TypeOK
<1>2. replacements[k] \in [inst : Instances, lease : LeaseType]
  BY <1>1, Elements
<1> QED BY <1>2

\* Visiting a slot, old or new: it is counted once, for its consumer.
LEMMA ExactSlot ==
    ASSUME TypeInv, ExactInv, NEW i \in todo, Visit(i), leases' \in LeaseSet,
           \A j \in Instances \ {i} : leases'[j] = leases[j],
           NEW s \in {"active", "released"}, leases[i].status # "none",
           leases'[i].status = s, acc' = Add(acc, ConsumerOf[i], s), UNCHANGED replacements
    PROVE  ExactInv'
<1> DEFINE c == ConsumerOf[i]
<1>0. /\ c \in Consumers /\ acc \in AccumulatorType /\ step = "pass1" /\ step' = "pass1"
      /\ todo' = todo \ {i} /\ i \in Instances
      /\ WaitingInv /\ TallyInv /\ PairInv
      /\ \A k \in 1..Len(replacements) : replacements[k].inst \in Instances
  BY ConsumerAssumption, ListTypes DEF TypeInv, TypeOK, Visit, ExactInv
<1>1. Seen' = Seen \cup {i} /\ i \notin Seen
  BY <1>0 DEF Seen, Held, Consumptive
<1>2. Waiting' = Waiting /\ \A d : WaitingBy(d)' = WaitingBy(d)
  BY DEF Waiting, WaitingBy
<1>3. WaitingInv'
  BY <1>0 DEF WaitingInv
<1>4. acc'.total = Cardinality(Seen')
  BY <1>0, <1>1, AddTally, CardNew, TallyFinite DEF TallyInv
<1>5. acc'.replacements = acc.replacements
  BY <1>0, AddTally
<1>6. PairInv'
  <2>1. Outstanding' = Outstanding
    BY <1>5 DEF Outstanding
  <2> QED BY <1>0, <1>2, <2>1 DEF PairInv
<1>7. ASSUME NEW d \in Consumers
      PROVE  /\ acc'.released[d] + acc'.replacements[d] = Cardinality(SeenReleased(d)')
             /\ acc'.consumed[d] + acc'.replacements[d]
                   = Cardinality(SeenBy(d)') + Cardinality(WaitingBy(d)')
  <2>1. SeenBy(d)' = IF d = c THEN SeenBy(d) \cup {i} ELSE SeenBy(d)
    BY <1>1 DEF SeenBy
  <2>2. SeenReleased(d)' = IF d = c /\ s = "released" THEN SeenReleased(d) \cup {i}
                                                      ELSE SeenReleased(d)
    BY <1>0, <1>1 DEF SeenReleased, Seen, Held
  <2>3. i \notin SeenBy(d) /\ i \notin SeenReleased(d)
    BY <1>1 DEF SeenBy, SeenReleased
  <2>4. /\ Cardinality(SeenBy(d)') = Cardinality(SeenBy(d)) + (IF d = c THEN 1 ELSE 0)
        /\ Cardinality(SeenReleased(d)')
              = Cardinality(SeenReleased(d)) + (IF d = c /\ s = "released" THEN 1 ELSE 0)
    BY <2>1, <2>2, <2>3, CardNew, TallyFinite
  <2>5. /\ acc'.consumed[d] = acc.consumed[d] + (IF d = c THEN 1 ELSE 0)
        /\ acc'.released[d] = acc.released[d] + (IF d = c /\ s = "released" THEN 1 ELSE 0)
    BY <1>0, AddTally
  <2>6. /\ acc.released[d] + acc.replacements[d] = Cardinality(SeenReleased(d))
        /\ acc.consumed[d] + acc.replacements[d]
              = Cardinality(SeenBy(d)) + Cardinality(WaitingBy(d))
    BY <1>0 DEF TallyInv
  <2> HIDE DEF c
  <2>7. /\ acc.released[d] \in Nat /\ acc.consumed[d] \in Nat /\ acc.replacements[d] \in Nat
        /\ Cardinality(SeenBy(d)) \in Nat /\ Cardinality(SeenReleased(d)) \in Nat
        /\ Cardinality(WaitingBy(d)) \in Nat
    BY <1>0, CounterTypes, TallyFinite
  <2>8. acc'.replacements[d] = acc.replacements[d] /\ WaitingBy(d)' = WaitingBy(d)
    BY <1>2, <1>5
  <2> QED BY <2>4, <2>5, <2>6, <2>7, <2>8
<1>8. TallyInv'
  BY <1>0, <1>2, <1>4, <1>5, <1>7 DEF TallyInv
<1> QED BY <1>0, <1>3, <1>6, <1>8 DEF ExactInv, LeftInv

\* Visiting a lease that holds no slot, or loses it uncounted.
LEMMA ExactSkip ==
    ASSUME TypeInv, ExactInv, NEW i \in todo, Visit(i), leases' \in LeaseSet,
           \A j \in Instances \ {i} : leases'[j] = leases[j],
           leases[i].status # "none", ~Consumptive(leases'[i]),
           UNCHANGED <<acc, replacements>>
    PROVE  ExactInv'
<1>0. /\ step = "pass1" /\ step' = "pass1"
      /\ todo' = todo \ {i} /\ i \in Instances
      /\ WaitingInv /\ TallyInv /\ PairInv
      /\ \A k \in 1..Len(replacements) : replacements[k].inst \in Instances
  BY ListTypes DEF TypeInv, TypeOK, Visit, ExactInv
<1>1. Seen' = Seen
  BY <1>0 DEF Seen, Held, Consumptive
<1>2. Waiting' = Waiting /\ \A d : WaitingBy(d)' = WaitingBy(d)
  BY DEF Waiting, WaitingBy
<1>3. \A d : SeenBy(d)' = SeenBy(d) /\ SeenReleased(d)' = SeenReleased(d)
  BY <1>0, <1>1 DEF SeenBy, SeenReleased, Seen, Held
<1>4. WaitingInv'
  BY <1>0 DEF WaitingInv
<1>5. PairInv'
  <2>1. Outstanding' = Outstanding
    BY DEF Outstanding
  <2> QED BY <1>0, <1>2, <2>1 DEF PairInv
<1>6. TallyInv'
  BY <1>0, <1>1, <1>2, <1>3 DEF TallyInv
<1> QED BY <1>0, <1>4, <1>5, <1>6 DEF ExactInv, LeftInv

\* Setting a queued lease aside for a decaying slot of its consumer.
LEMMA ExactReplace ==
    ASSUME TypeInv, ExactInv, NEW i \in todo, RefreshReplace(i)
    PROVE  ExactInv'
<1> DEFINE c == ConsumerOf[i]
           e == [inst |-> i, lease |-> leases[i]]
           n == acc.replacements[c] + 1
<1>0. /\ c \in Consumers /\ acc \in AccumulatorType /\ step = "pass1" /\ step' = "pass1"
      /\ todo' = todo \ {i} /\ i \in Instances /\ leases \in LeaseSet
      /\ WaitingInv /\ TallyInv /\ PairInv
      /\ replacements \in Seq([inst : Instances, lease : LeaseType])
      /\ leases' = [leases EXCEPT ![i] = NoLease] /\ leases[i].status = "queued"
      /\ replacements' = Append(replacements, e) /\ acc' = StartReplacement(acc, c)
  BY ConsumerAssumption DEF TypeInv, TypeOK, RefreshReplace, Visit, ExactInv, Delete
<1>a. /\ \A j \in Instances : leases'[j] = IF j = i THEN NoLease ELSE leases[j]
      /\ NoLease.status = "none"
  BY <1>0 DEF LeaseSet, NoLease
<1>1. Seen' = Seen /\ i \notin Seen
  BY <1>0, <1>a DEF Seen, Held, Consumptive
<1>2. \A d : SeenBy(d)' = SeenBy(d) /\ SeenReleased(d)' = SeenReleased(d)
  BY <1>0, <1>1, <1>a DEF SeenBy, SeenReleased, Seen, Held
<1>3. e \in [inst : Instances, lease : LeaseType] /\ e.inst = i
  BY <1>0 DEF LeaseSet
<1> HIDE DEF e
<1>4. /\ Len(replacements') = Len(replacements) + 1 /\ Len(replacements) \in Nat
      /\ replacements'[Len(replacements) + 1] = e
      /\ \A k \in 1..Len(replacements) : replacements'[k] = replacements[k]
  BY <1>0, <1>3
<1>5. \A k \in 1..Len(replacements) : replacements[k].inst \in Instances \ {i}
  BY <1>0, ListTypes DEF WaitingInv
<1>6. WaitingInv'
  BY <1>0, <1>3, <1>4, <1>5, <1>a DEF WaitingInv
<1>7. Waiting' = Waiting \cup {i} /\ i \notin Waiting
  BY <1>0, <1>3, <1>4, <1>5 DEF Waiting
<1>8. ASSUME NEW d \in Consumers
      PROVE  Cardinality(WaitingBy(d)') = Cardinality(WaitingBy(d)) + (IF d = c THEN 1 ELSE 0)
  <2>1. WaitingBy(d)' = IF d = c THEN WaitingBy(d) \cup {i} ELSE WaitingBy(d)
    BY <1>7 DEF WaitingBy
  <2>2. i \notin WaitingBy(d)
    BY <1>7 DEF WaitingBy
  <2> QED BY <2>1, <2>2, CardNew, TallyFinite
<1>9. \A d \in Consumers :
          /\ acc'.replacements[d] = acc.replacements[d] + (IF d = c THEN 1 ELSE 0)
          /\ acc'.released[d] = acc.released[d] - (IF d = c THEN 1 ELSE 0)
          /\ acc'.consumed = acc.consumed /\ acc'.total = acc.total
          /\ acc.replacements[d] \in Nat /\ acc.released[d] \in Nat /\ acc.consumed[d] \in Nat
  BY <1>0, StartTally, CounterTypes
<1>10. TallyInv'
  <2>1. acc'.total = Cardinality(Seen')
    BY <1>0, <1>1, <1>9 DEF TallyInv
  <2>2. ASSUME NEW d \in Consumers
        PROVE  /\ acc'.released[d] + acc'.replacements[d] = Cardinality(SeenReleased(d)')
               /\ acc'.consumed[d] + acc'.replacements[d]
                     = Cardinality(SeenBy(d)') + Cardinality(WaitingBy(d)')
               /\ acc'.replacements[d] = Cardinality(WaitingBy(d)')
    <3>1. /\ acc.released[d] + acc.replacements[d] = Cardinality(SeenReleased(d))
          /\ acc.consumed[d] + acc.replacements[d]
                = Cardinality(SeenBy(d)) + Cardinality(WaitingBy(d))
          /\ acc.replacements[d] = Cardinality(WaitingBy(d))
      BY <1>0 DEF TallyInv
    <3>2. Cardinality(SeenBy(d)) \in Nat /\ Cardinality(WaitingBy(d)) \in Nat
      BY TallyFinite
    <3> HIDE DEF c
    <3> QED BY <1>2, <1>8, <1>9, <3>1, <3>2
  <2> QED BY <2>1, <2>2 DEF TallyInv
<1>11. PairInv'
  <2>1. Outstanding' = Outstanding \cup {<<c, n>>} /\ <<c, n>> \notin Outstanding
    <3>1. <<c, n>> \in Consumers \X Nat /\ <<c, n>>[1] = c /\ <<c, n>>[2] = n
      BY <1>0, <1>9
    <3>2. <<c, n>> \notin Outstanding
      BY <1>0, <1>9, <3>1 DEF Outstanding
    <3>3. ASSUME NEW p \in Consumers \X Nat
          PROVE  p \in Outstanding' <=> p \in Outstanding \/ p = <<c, n>>
      <4>1. p = <<p[1], p[2]>> /\ p[1] \in Consumers /\ p[2] \in Nat
        OBVIOUS
      <4>2. p[2] \in 1..acc'.replacements[p[1]]
               <=> p[2] \in 1..acc.replacements[p[1]] \/ (p[1] = c /\ p[2] = n)
        BY <1>9, <4>1
      <4> QED BY <4>1, <4>2 DEF Outstanding
    <3> QED BY <3>1, <3>2, <3>3 DEF Outstanding
  <2>2. IsFiniteSet(Outstanding) /\ Cardinality(Outstanding) = Cardinality(Waiting)
    BY <1>0 DEF PairInv
  <2> QED BY <1>7, <2>1, <2>2, CardNew, TallyFinite DEF PairInv
<1> QED BY <1>0, <1>6, <1>10, <1>11 DEF ExactInv, LeftInv

\* Storing the first lease set aside in the place of a decaying one.
LEMMA ExactReleased ==
    ASSUME TypeInv, ExactInv, NEW i \in todo, ReplaceReleased(i)
    PROVE  ExactInv'
<1> DEFINE c == ConsumerOf[i]
           r == Head(replacements)
           q == r.inst
           l == [r.lease EXCEPT !.status = "active"]
           n == acc.replacements[c]
<1>0. /\ c \in Consumers /\ acc \in AccumulatorType /\ step = "pass2" /\ step' = "pass2"
      /\ todo' = todo \ {i} /\ i \in Instances /\ leases \in LeaseSet
      /\ WaitingInv /\ TallyInv /\ PairInv /\ LeftInv
      /\ replacements \in Seq([inst : Instances, lease : LeaseType])
      /\ replacements # <<>> /\ replacements' = Tail(replacements)
      /\ acc' = FinishReplacement(acc, c) /\ acc.replacements[c] # 0
      /\ leases' = Overwrite(leases, i, q, l)
  BY ConsumerAssumption
     DEF TypeInv, TypeOK, ReplaceReleased, FirstReplaceable, Replaceable, ExactInv
<1>1. /\ r \in [inst : Instances, lease : LeaseType] /\ r = replacements[1]
      /\ Len(replacements') = Len(replacements) - 1
      /\ 1 \in 1..Len(replacements)
      /\ \A k \in 1..Len(replacements') : /\ replacements'[k] = replacements[k + 1]
                                           /\ k + 1 \in 1..Len(replacements)
  BY <1>0, HeadTail
<1>n. Len(replacements) \in Nat
  BY <1>0
<1>2. q \in Instances /\ q = replacements[1].inst /\ r.lease \in LeaseType
  BY <1>1
<1>3. l.status = "active"
  BY <1>2 DEF LeaseType
<1> HIDE DEF r, q, l
<1>4. /\ leases[q].status = "none" /\ leases[i].status = "released" /\ q # i
      /\ \A k \in 2..Len(replacements) : replacements[k].inst # q
  BY <1>0, <1>1, <1>2 DEF WaitingInv, LeftInv
<1>5. /\ \A j \in Instances : leases'[j] = IF j = q THEN l ELSE IF j = i THEN NoLease ELSE leases[j]
      /\ NoLease.status = "none"
  BY <1>0, <1>2 DEF Overwrite, LeaseSet, NoLease
<1>6. /\ Seen = Held(leases) /\ Seen' = (Seen \ {i}) \cup {q}
      /\ i \in Seen /\ q \notin Seen
  <2>1. Seen = Held(leases) /\ Seen' = Held(leases)'
    BY <1>0 DEF Seen
  <2> QED BY <1>0, <1>2, <1>3, <1>4, <1>5, <2>1 DEF Held, Consumptive
<1>7. WaitingInv'
  <2>1. ASSUME NEW k \in 1..Len(replacements')
        PROVE  /\ replacements'[k].inst \in Instances
               /\ replacements'[k].inst # q
               /\ leases[replacements'[k].inst].status = "none"
    BY <1>0, <1>1, <1>4, <2>1, ListTypes DEF WaitingInv
  <2>2. \A k, m \in 1..Len(replacements') :
            replacements'[k].inst = replacements'[m].inst => k = m
    BY <1>0, <1>1 DEF WaitingInv
  <2> QED BY <1>4, <1>5, <2>1, <2>2 DEF WaitingInv
<1>8. Waiting' = Waiting \ {q} /\ q \in Waiting
  <2>1. q \in Waiting
    BY <1>1, <1>2 DEF Waiting
  <2>2. \A k \in 1..Len(replacements) : k = 1 \/ k - 1 \in 1..Len(replacements')
    BY <1>1, <1>n
  <2>3. \A j \in Instances : j \in Waiting' <=> j \in Waiting /\ j # q
    <3>1. ASSUME NEW j \in Instances, j \in Waiting' PROVE j \in Waiting /\ j # q
      <4> PICK k \in 1..Len(replacements') : replacements'[k].inst = j
        BY <3>1 DEF Waiting
      <4>1. k + 1 \in 2..Len(replacements) /\ replacements[k + 1].inst = j
        BY <1>1, <1>n
      <4>2. j # q
        BY <1>4, <4>1
      <4>3. k + 1 \in 1..Len(replacements)
        BY <4>1
      <4> QED BY <4>1, <4>2, <4>3 DEF Waiting
    <3>2. ASSUME NEW j \in Instances, j \in Waiting, j # q PROVE j \in Waiting'
      <4> PICK k \in 1..Len(replacements) : replacements[k].inst = j
        BY <3>2 DEF Waiting
      <4>1. k - 1 \in 1..Len(replacements') /\ (k - 1) + 1 = k
        BY <1>2, <2>2, <3>2
      <4>2. replacements'[k - 1].inst = j
        BY <1>1, <4>1
      <4> QED BY <4>1, <4>2 DEF Waiting
    <3> QED BY <3>1, <3>2
  <2> QED BY <2>1, <2>3 DEF Waiting
<1>9. \A d \in Consumers :
          /\ acc'.replacements[d] = acc.replacements[d] - (IF d = c THEN 1 ELSE 0)
          /\ acc'.released = acc.released
          /\ acc'.consumed = acc.consumed /\ acc'.total = acc.total
          /\ acc.replacements[d] \in Nat /\ acc.released[d] \in Nat /\ acc.consumed[d] \in Nat
  BY <1>0, FinishTally, CounterTypes
<1>10. TallyInv'
  <2>1. acc'.total = Cardinality(Seen')
    <3>1. /\ IsFiniteSet(Seen \ {i}) /\ Cardinality(Seen \ {i}) = Cardinality(Seen) - 1
          /\ Cardinality(Seen) \in Nat
      BY <1>6, CardLess, TallyFinite
    <3>2. Cardinality((Seen \ {i}) \cup {q}) = Cardinality(Seen \ {i}) + 1
      BY <1>6, <3>1, CardNew
    <3> QED BY <1>0, <1>6, <1>9, <3>1, <3>2 DEF TallyInv
  <2>2. ASSUME NEW d \in Consumers
        PROVE  /\ acc'.released[d] + acc'.replacements[d] = Cardinality(SeenReleased(d)')
               /\ acc'.consumed[d] + acc'.replacements[d]
                     = Cardinality(SeenBy(d)') + Cardinality(WaitingBy(d)')
    <3> DEFINE out == IF d = c THEN 1 ELSE 0
               in  == IF d = ConsumerOf[q] THEN 1 ELSE 0
    <3>1. /\ acc.released[d] + acc.replacements[d] = Cardinality(SeenReleased(d))
          /\ acc.consumed[d] + acc.replacements[d]
                = Cardinality(SeenBy(d)) + Cardinality(WaitingBy(d))
      BY <1>0 DEF TallyInv
    <3>2. Cardinality(SeenReleased(d)') = Cardinality(SeenReleased(d)) - out
      <4>1. SeenReleased(d)' = IF d = c THEN SeenReleased(d) \ {i} ELSE SeenReleased(d)
        BY <1>0, <1>2, <1>3, <1>4, <1>5, <1>6 DEF SeenReleased, Held
      <4>2. d = c => i \in SeenReleased(d)
        BY <1>4, <1>6 DEF SeenReleased
      <4> QED BY <4>1, <4>2, CardLess, TallyFinite
    <3>3. Cardinality(WaitingBy(d)') = Cardinality(WaitingBy(d)) - in
      <4>1. WaitingBy(d)' = IF d = ConsumerOf[q] THEN WaitingBy(d) \ {q} ELSE WaitingBy(d)
        BY <1>8 DEF WaitingBy
      <4>2. d = ConsumerOf[q] => q \in WaitingBy(d)
        BY <1>8 DEF WaitingBy
      <4> QED BY <4>1, <4>2, CardLess, TallyFinite
    <3>4. Cardinality(SeenBy(d)') = Cardinality(SeenBy(d)) - out + in
      <4> DEFINE S == IF d = c THEN SeenBy(d) \ {i} ELSE SeenBy(d)
      <4>1. SeenBy(d)' = IF d = ConsumerOf[q] THEN S \cup {q} ELSE S
        BY <1>4, <1>6 DEF SeenBy
      <4>2. d = c => i \in SeenBy(d)
        BY <1>6 DEF SeenBy
      <4>3. q \notin S
        BY <1>6 DEF SeenBy
      <4>4. IsFiniteSet(S) /\ Cardinality(S) = Cardinality(SeenBy(d)) - out
            /\ Cardinality(SeenBy(d)) \in Nat
        BY <4>2, CardLess, TallyFinite
      <4> HIDE DEF S
      <4> QED BY <4>1, <4>3, <4>4, CardNew
    <3>5. /\ Cardinality(SeenBy(d)) \in Nat /\ Cardinality(WaitingBy(d)) \in Nat
          /\ Cardinality(SeenReleased(d)) \in Nat /\ out \in {0, 1} /\ in \in {0, 1}
      BY TallyFinite
    <3>6. /\ acc'.replacements[d] = acc.replacements[d] - out
          /\ acc'.released[d] = acc.released[d] /\ acc'.consumed[d] = acc.consumed[d]
          /\ acc.replacements[d] \in Nat /\ acc.released[d] \in Nat /\ acc.consumed[d] \in Nat
      BY <1>9
    <3> HIDE DEF out, in
    <3> QED BY <3>1, <3>2, <3>3, <3>4, <3>5, <3>6
  <2> QED BY <1>0, <2>1, <2>2 DEF TallyInv
<1>11. PairInv'
  <2>1. Outstanding' = Outstanding \ {<<c, n>>} /\ <<c, n>> \in Outstanding
    <3>0. n \in Nat /\ n # 0
      BY <1>0, <1>9
    <3>1. <<c, n>> \in Consumers \X Nat /\ <<c, n>>[1] = c /\ <<c, n>>[2] = n
      BY <1>0, <1>9
    <3>2. <<c, n>> \in Outstanding
      BY <1>0, <3>0, <3>1 DEF Outstanding
    <3>3. ASSUME NEW p \in Consumers \X Nat
          PROVE  p \in Outstanding' <=> p \in Outstanding /\ p # <<c, n>>
      <4>1. p = <<p[1], p[2]>> /\ p[1] \in Consumers /\ p[2] \in Nat
        OBVIOUS
      <4>2. p[2] \in 1..acc'.replacements[p[1]]
               <=> p[2] \in 1..acc.replacements[p[1]] /\ ~(p[1] = c /\ p[2] = n)
        BY <1>9, <3>0, <4>1
      <4> QED BY <4>1, <4>2 DEF Outstanding
    <3> QED BY <3>1, <3>2, <3>3 DEF Outstanding
  <2>2. IsFiniteSet(Outstanding) /\ Cardinality(Outstanding) = Cardinality(Waiting)
    BY <1>0 DEF PairInv
  <2> QED BY <1>8, <2>1, <2>2, CardLess, TallyFinite DEF PairInv
<1>12. LeftInv'
  BY <1>0, <1>2, <1>3, <1>4, <1>5 DEF LeftInv
<1> QED BY <1>7, <1>10, <1>11, <1>12 DEF ExactInv

\* With no replacement outstanding no lease is left aside.
LEMMA NoneLeft ==
    ASSUME TypeInv, PairInv, \A c \in Consumers : acc.replacements[c] = 0
    PROVE  replacements = <<>> /\ Waiting = {}
<1>1. Outstanding = {}
  BY DEF Outstanding
<1>2. Cardinality(Waiting) = 0
  BY <1>1, FS_EmptySet DEF PairInv
<1>3. Waiting = {}
  BY <1>2, TallyFinite, FS_EmptySet
<1>4. Len(replacements) = 0
  <2>1. SUFFICES ASSUME Len(replacements) # 0 PROVE FALSE
    OBVIOUS
  <2>2. Len(replacements) \in Nat
    BY DEF TypeInv, TypeOK
  <2>3. 1 \in 1..Len(replacements)
    BY <2>1, <2>2
  <2>4. replacements[1].inst \in Waiting
    BY <2>3, ListTypes DEF Waiting
  <2> QED BY <1>3, <2>4
<1> QED BY <1>3, <1>4 DEF TypeInv, TypeOK

\* At the end of the second pass every replacement has found its slot: as long
\* as one is outstanding its consumer has a decaying lease left.
LEMMA AllReplaced ==
    ASSUME TypeInv, TallyInv, LeftInv, step = "pass2", Replaceable = {}
    PROVE  \A c \in Consumers : acc.replacements[c] = 0
<1> SUFFICES ASSUME NEW c \in Consumers, acc.replacements[c] # 0 PROVE FALSE
  OBVIOUS
<1>1. acc.replacements[c] \in Nat /\ acc.released[c] \in Nat
  BY CounterTypes DEF TypeInv, TypeOK
<1>2. Cardinality(SeenReleased(c)) # 0
  BY <1>1 DEF TallyInv
<1>3. SeenReleased(c) # {}
  BY <1>2, FS_EmptySet
<1> PICK i \in SeenReleased(c) : TRUE
  BY <1>3
<1>4. i \in Replaceable
  BY DEF SeenReleased, Seen, Held, LeftInv, Replaceable
<1> QED BY <1>4

\* A fresh Refresh has counted nothing and set nothing aside.
LEMMA ExactStart ==
    ASSUME NEW ls \in LeaseSet, StartRefresh(ls)
    PROVE  ExactInv'
<1>1. /\ leases' = ls /\ step' = "pass1" /\ todo' = Present(ls)
      /\ acc' = NewAccumulator /\ replacements' = <<>> /\ Len(replacements') = 0
  BY DEF StartRefresh
<1>2. Seen' = {} /\ Waiting' = {}
  BY <1>1 DEF Seen, Held, Present, Consumptive, Waiting
<1>3. \A c : SeenBy(c)' = {} /\ SeenReleased(c)' = {} /\ WaitingBy(c)' = {}
  BY <1>2 DEF SeenBy, SeenReleased, WaitingBy
<1>4. /\ acc'.total = 0
      /\ \A c \in Consumers : /\ acc'.released[c] = 0 /\ acc'.consumed[c] = 0
                              /\ acc'.replacements[c] = 0
  BY <1>1 DEF NewAccumulator, Zero
<1>5. Outstanding' = {}
  BY <1>4 DEF Outstanding
<1>6. TallyInv' /\ PairInv'
  BY <1>2, <1>3, <1>4, <1>5, FS_EmptySet DEF TallyInv, PairInv
<1> QED BY <1>1, <1>6 DEF ExactInv, WaitingInv, LeftInv

\* The passes of Refresh keep the count exact.
LEMMA ExactRefreshStep == ASSUME TypeInv, ExactInv, RefreshStep PROVE ExactInv'
<1>0. /\ leases \in LeaseSet /\ todo \subseteq Instances /\ leases' \in LeaseSet
      /\ \A i \in Instances : leases[i] \in LeaseType
  BY TypeRefreshStep DEF TypeInv, TypeOK, LeaseSet
<1>z. NoLease.status = "none" /\ ~Consumptive(NoLease)
  BY DEF NoLease, Consumptive
<1>1. ASSUME NEW i \in todo, RefreshDecayed(i) \/ RefreshQueueExpired(i) PROVE ExactInv'
  <2>1. /\ Visit(i) /\ leases' = [leases EXCEPT ![i] = NoLease]
        /\ UNCHANGED <<acc, replacements>> /\ leases[i].status # "none"
    BY <1>1 DEF RefreshDecayed, RefreshQueueExpired, Delete, Consumptive
  <2>2. leases'[i] = NoLease /\ \A j \in Instances \ {i} : leases'[j] = leases[j]
    BY <1>0, <2>1 DEF LeaseSet
  <2> QED BY <1>0, <1>z, <2>1, <2>2, ExactSkip
<1>2. ASSUME NEW i \in todo, RefreshExpired(i) PROVE ExactInv'
  <2> DEFINE l == [leases[i] EXCEPT !.status = "released",
                                    !.released = ExpirationTime(leases[i])]
  <2>1. leases[i] \in LeaseType
    BY <1>0
  <2>2. l.status = "released"
    BY <2>1 DEF LeaseType
  <2>3. /\ Visit(i) /\ leases' = [leases EXCEPT ![i] = l] /\ UNCHANGED replacements
        /\ acc' = Add(acc, ConsumerOf[i], "released") /\ leases[i].status # "none"
    BY <1>2 DEF RefreshExpired, Update
  <2> HIDE DEF l
  <2>4. leases'[i] = l /\ \A j \in Instances \ {i} : leases'[j] = leases[j]
    BY <1>0, <2>3 DEF LeaseSet
  <2> QED BY <1>0, <2>2, <2>3, <2>4, ExactSlot
<1>3. ASSUME NEW i \in todo, RefreshHeld(i) PROVE ExactInv'
  <2>1. /\ Visit(i) /\ UNCHANGED <<leases, replacements>>
        /\ leases[i].status \in {"active", "released"}
        /\ acc' = Add(acc, ConsumerOf[i], leases[i].status)
    BY <1>3 DEF RefreshHeld, Consumptive
  <2> QED BY <1>0, <2>1, ExactSlot
<1>4. ASSUME NEW i \in todo, RefreshQueued(i) PROVE ExactInv'
  <2> DEFINE l == [leases[i] EXCEPT !.status = "active"]
  <2>1. Visit(i) /\ leases[i].status = "queued" /\ UNCHANGED replacements
    BY <1>4 DEF RefreshQueued
  <2>2. CASE UNCHANGED <<leases, acc>>
    <3>1. ~Consumptive(leases'[i])
      BY <2>1, <2>2 DEF Consumptive
    <3> QED BY <1>0, <2>1, <2>2, <3>1, ExactSkip
  <2>3. CASE leases' = [leases EXCEPT ![i] = l] /\ acc' = Add(acc, ConsumerOf[i], "active")
    <3>1. l.status = "active"
      BY <1>0 DEF LeaseType
    <3> HIDE DEF l
    <3>2. leases'[i] = l /\ \A j \in Instances \ {i} : leases'[j] = leases[j]
      BY <1>0, <2>3 DEF LeaseSet
    <3> QED BY <1>0, <2>1, <2>3, <3>1, <3>2, ExactSlot
  <2> QED BY <1>4, <2>2, <2>3 DEF RefreshQueued, Update
<1>5. CASE EndPass1
  <2>0. /\ WaitingInv /\ TallyInv /\ PairInv /\ step = "pass1" /\ todo = {}
        /\ UNCHANGED <<leases, acc, replacements>> /\ step' # "pass1"
    BY <1>5 DEF EndPass1, ExactInv, AfterRefresh
  <2>1. Seen' = Seen
    <3>1. Seen = Held(leases) /\ Seen' = Held(leases')
      BY <2>0 DEF Seen
    <3> QED BY <2>0, <3>1
  <2>2. WaitingInv' /\ PairInv'
    BY <2>0 DEF WaitingInv, PairInv, Outstanding, Waiting
  <2>3. TallyInv'
    BY <2>0, <2>1 DEF TallyInv, SeenBy, SeenReleased, WaitingBy, Waiting
  <2>4. LeftInv'
    <3>1. CASE ReplacementsRecorded(acc)
      BY <1>5, <2>0, <3>1 DEF EndPass1, LeftInv
    <3>2. CASE ~ReplacementsRecorded(acc)
      <4>1. \A c \in Consumers : acc.replacements[c] = 0
        BY <3>2, CounterTypes DEF ReplacementsRecorded, TypeInv, TypeOK
      <4>2. step' # "pass2"
        BY <1>5, <3>2 DEF EndPass1, AfterRefresh
      <4> QED BY <2>0, <4>1, <4>2, NoneLeft DEF LeftInv
    <3> QED BY <3>1, <3>2
  <2> QED BY <2>2, <2>3, <2>4 DEF ExactInv
<1>6. CASE EndPass2
  <2>0. /\ WaitingInv /\ TallyInv /\ PairInv /\ LeftInv /\ step = "pass2"
        /\ UNCHANGED <<leases, acc, replacements>> /\ step' \in {"decide", "finish"}
        /\ Replaceable = {}
    BY <1>6 DEF EndPass2, ExactInv, AfterRefresh
  <2>1. Seen' = Seen
    <3>1. Seen = Held(leases) /\ Seen' = Held(leases')
      BY <2>0 DEF Seen
    <3> QED BY <2>0, <3>1
  <2>2. WaitingInv' /\ PairInv'
    BY <2>0 DEF WaitingInv, PairInv, Outstanding, Waiting
  <2>3. TallyInv'
    BY <2>0, <2>1, ZenonT(40) DEF TallyInv, SeenBy, SeenReleased, WaitingBy, Waiting
  <2>4. LeftInv'
    BY <2>0, AllReplaced, NoneLeft DEF LeftInv
  <2> QED BY <2>2, <2>3, <2>4 DEF ExactInv
<1> QED BY <1>1, <1>2, <1>3, <1>4, <1>5, <1>6, ExactReplace, ExactReleased, RefreshStep
        DEF RefreshStep

\* A decision ends the computation or starts a fresh Refresh.
LEMMA ExactDecideStep == ASSUME TypeInv, ExactInv, DecideStep PROVE ExactInv'
<1>1. CASE Release
  <2>1. step = "decide" /\ Call.op = "release"
    BY <1>1 DEF Release, Deciding
  <2>2. Call.inst \in Instances /\ leases \in LeaseSet /\ at \in Nat
    BY <2>1, TypeCall DEF TypeInv, TypeOK
  <2> DEFINE l == Released(leases[Call.inst])
             ls == [leases EXCEPT ![Call.inst] = l]
  <2>3. l \in LeaseType
    BY <2>2, ZeroTypes, LeaseFieldTypes DEF Released, LeaseSet, Statuses
  <2>4. StartRefresh(ls)
    BY <1>1 DEF Release
  <2> HIDE DEF l
  <2>5. ls \in LeaseSet
    BY <2>2, <2>3, LeaseSetTypes
  <2> HIDE DEF ls
  <2> QED BY <2>4, <2>5, ExactStart
<1>2. CASE AcquireReleased \/ AcquireRenew \/ AcquireReplace \/ AcquireCreate
  <2>1. step' = "finish"
    BY <1>2 DEF AcquireReleased, AcquireRenew, AcquireReplace, AcquireCreate, Decided
  <2> QED BY <2>1 DEF ExactInv
<1> QED BY <1>1, <1>2, DecideStep DEF DecideStep

\* Every step keeps the count exact.
LEMMA ExactNext == TypeInv /\ ExactInv /\ [Next]_vars => ExactInv'
<1> SUFFICES ASSUME TypeInv, ExactInv, [Next]_vars PROVE ExactInv'
  OBVIOUS
<1>0. cur = None => step = "none"
  BY NoneAssumption DEF TypeInv
\* A step of the idle engine that starts no computation.
<1>c. ASSUME cur = None, UNCHANGED computation PROVE ExactInv'
  BY <1>0, <1>c DEF ExactInv, computation
<1>1. CASE UNCHANGED vars
  <2>1. UNCHANGED <<step, leases, todo, acc, replacements>>
    BY <1>1 DEF vars
  <2>2. WaitingInv' = WaitingInv /\ LeftInv' = LeftInv
    BY <2>1 DEF WaitingInv, LeftInv
  <2>3. PairInv' = PairInv
    BY <2>1 DEF PairInv, Outstanding, Waiting
  <2>4. TallyInv' = TallyInv
    BY <2>1 DEF TallyInv, WaitingBy, Waiting, SeenBy, SeenReleased, Seen, Held
  <2> QED BY <2>1, <2>2, <2>3, <2>4 DEF ExactInv
<1>2. CASE Tick \/ Crash
  BY <1>2, <1>c DEF Tick, Crash
<1>3. CASE RefreshStep \/ DecideStep
  BY <1>3, ExactRefreshStep, ExactDecideStep
<1>4. CASE Finish
  BY <1>4 DEF Finish, ExactInv
<1>5. ASSUME NEW x \in Handlers, NewRequest(x) PROVE ExactInv'
  BY <1>5, <1>c DEF NewRequest, AcquireRequest, ReleaseRequest, RefreshRequest,
     PurgeRequest, Request
<1>6. ASSUME NEW x \in Handlers, Serve(x) PROVE ExactInv'
  <2>1. CASE Begin(x)
    <3>1. StartRefresh(calls[x].base) /\ calls[x].base \in LeaseSet
      BY <2>1 DEF Begin, TypeInv, TypeOK, CallType
    <3> QED BY <3>1, ExactStart
  <2>2. CASE ~Begin(x)
    BY <1>6, <1>c, <2>2 DEF Serve, View, ViewError, CommitEmpty, Commit, CommitConflict,
       CommitError, Ready
  <2> QED BY <2>1, <2>2
<1> QED BY <1>1, <1>2, <1>3, <1>4, <1>5, <1>6 DEF Next, Compute

\* Neither consistency panic of the engine can fire, for any number of
\* instances, consumers and handlers and whatever the policies: Refresh's
\* second pass never runs out of replacements, and acquire finds exactly as
\* many decaying leases as the accumulator counted.
THEOREM NeverPanics == Spec => []PanicFree
<1>1. Init => ExactInv
  BY DEF Init, ExactInv
<1>2. TypeInv /\ ExactInv => PanicFree
  <2> SUFFICES ASSUME TypeInv, ExactInv PROVE PanicFree
    OBVIOUS
  <2>1. ASSUME step = "pass2", Replaceable # {} PROVE replacements # <<>>
    <3> PICK i \in Replaceable : TRUE
      BY <2>1
    <3> DEFINE c == ConsumerOf[i]
    <3>1. c \in Consumers /\ acc.replacements[c] # 0 /\ acc.replacements[c] \in Nat
      BY ConsumerAssumption, CounterTypes DEF Replaceable, TypeInv, TypeOK
    <3>2. <<c, 1>> \in Outstanding
      BY <3>1 DEF Outstanding
    <3>3. IsFiniteSet(Outstanding) /\ Cardinality(Outstanding) = Cardinality(Waiting)
      BY <2>1 DEF ExactInv, PairInv
    <3>4. Cardinality(Waiting) # 0
      BY <3>2, <3>3, FS_EmptySet
    <3>5. Waiting # {}
      BY <3>4, FS_EmptySet
    <3> QED BY <3>5 DEF Waiting
  <2>2. ASSUME Deciding("acquire")
        PROVE  Cardinality(OwnReleased) = acc.released[ConsumerOf[Call.inst]]
    <3> DEFINE c == ConsumerOf[Call.inst]
    <3>1. step = "decide" /\ Call.inst \in Instances /\ c \in Consumers
      BY <2>2, TypeCall, ConsumerAssumption DEF Deciding
    <3>2. TallyInv /\ acc.replacements[c] = 0 /\ acc.released[c] \in Nat
      BY <3>1, CounterTypes DEF ExactInv, LeftInv, TypeInv, TypeOK
    <3>3. SeenReleased(c) = OwnReleased
      BY <3>1 DEF SeenReleased, Seen, Held, Consumptive, OwnReleased
    <3> QED BY <3>1, <3>2, <3>3 DEF TallyInv
  <2> QED BY <2>1, <2>2 DEF PanicFree
<1> QED BY <1>1, <1>2, TypeInit, TypeNext, ExactNext, PTL DEF Spec

-----------------------------------------------------------------------------
(* What the count is good for: fair service, for policies that agree.      *)

\* The policies that match the resource agree on its limit.
Agreeing == \A p \in Policies : p.limit = Capacity

\* A lease granted by time t under such a policy; it decays from its release.
SoundLease(l, t) ==
    /\ l.status # "none" => l.policy.limit = Capacity /\ l.started <= t
    /\ l.status \in {"active", "queued"} => l.released = 0

Sound(ls, t) == \A i \in Instances : SoundLease(ls[i], t)

\* Nobody waits for a slot that is free: NoIdleCapacity of a lease set.
Full(ls) == \A i \in Instances : ls[i].status = "queued" => Used(ls) >= Capacity

\* The slots of c that call d may give up, and SlotsHeldUntilDecay of its
\* result ls.
Ended(d, c) ==
    {i \in HeldBy(d.base, c) :
        \/ Decayed(d.base[i], d.at)
        \/ /\ d.op = "release" /\ d.inst = i
           /\ d.base[i].status = "released" \/ Expired(d.base[i], d.at)}

Kept(d, ls) ==
    \A c \in Consumers :
        Cardinality(HeldBy(d.base, c)) <= Cardinality(HeldBy(ls, c)) + Cardinality(Ended(d, c))

\* The consumer of j is served no later than a lease started at t: by j or,
\* under the consumer strategy, by any lease of his; or by the queued lease
\* that call d releases (gone: it has done so).
Turn(d, gone, ls, j, t) ==
    \E k \in Instances :
        /\ ConsumerOf[k] = ConsumerOf[j]
        /\ \/ /\ Strategy = "consumer" \/ k = j
              /\ ls[k].status = "active"
              /\ ls[k].started <= t
           \/ /\ gone /\ k = d.inst
              /\ d.base[k].status = "queued"
              /\ d.base[k].started <= t

\* NoOvertaking of the result ls of call d.
InTurn(d, ls) ==
    \A i, j \in Instances :
        /\ ls[i].status = "queued"
        /\ HeldBy(d.base, ConsumerOf[j]) = {}
        /\ ls[j].status = "active"
        => Turn(d, d.op = "release", ls, j, ls[i].started)

\* What a call brings to its commit.
CallServes(d) ==
    /\ Sound(d.base, now) /\ Sound(d.result, now)
    /\ d.op = "acquire" => d.policy.limit = Capacity
    /\ d.phase = "ready" => Full(d.result) /\ Kept(d, d.result) /\ InTurn(d, d.result)

\* The transaction's leases are sound, and those set aside have not expired.
EngineSound ==
    /\ Sound(leases, at) /\ at <= now
    /\ step \in {"pass1", "pass2"} =>
          \A k \in 1..Len(replacements) :
              /\ replacements[k].lease.status = "queued"
              /\ SoundLease(replacements[k].lease, at)
              /\ ~Expired(replacements[k].lease, at)

\* Where the leases of the first Refresh come from: those not visited are
\* untouched, a decaying lease was already decaying or has expired, an active
\* one that held no slot was queued.
EngineOrigin ==
    /\ step = "decide" => ~again
    /\ ~again =>
          /\ step = "pass1" => \A j \in todo : leases[j] = Call.base[j]
          /\ \A j \in Seen :
                /\ leases[j].status = "released" =>
                      /\ j \in Held(Call.base) /\ ~Decayed(Call.base[j], at)
                      /\ Call.base[j].status = "released" \/ Expired(Call.base[j], at)
                /\ leases[j].status = "active" /\ j \notin Held(Call.base) =>
                      /\ Call.base[j].status = "queued"
                      /\ Call.base[j].started = leases[j].started
          /\ \A k \in 1..Len(replacements) :
                replacements[k].lease = Call.base[replacements[k].inst]

\* A visited slot is neither decayed nor an expired active lease; the second
\* Refresh of a release finds every slot like that.
EngineFresh ==
    \A j \in IF again THEN Held(leases) ELSE Seen :
        /\ ~Decayed(leases[j], at)
        /\ leases[j].status = "active" => ~Expired(leases[j], at)

\* A queued lease that was visited was left queued because all is in use.
EngineFull ==
    /\ step \in {"pass1", "pass2"} =>
          \A i \in Instances : leases[i].status = "queued" /\ (step = "pass1" => i \notin todo)
                                   => Total(acc) >= Capacity
    /\ step \in {"decide", "finish"} => Full(leases)

\* The slots of c that have ended so far.
Gone(c) ==
    {i \in Ended(Call, c) :
        again \/ (Decayed(Call.base[i], at) /\ (step = "pass1" => i \notin todo))}

\* What a consumer has lost since the view are the slots that ended; during
\* the second pass the accumulator knows how many he is to have.
EngineSlots ==
    \A c \in Consumers :
        Cardinality(HeldBy(Call.base, c))
            <= Cardinality(Gone(c)) + (IF step = "pass2" THEN acc.consumed[c]
                                                         ELSE Cardinality(HeldBy(leases, c)))

\* Who has got a slot, or is to get one, was served in turn.
EngineTurn ==
    \A i, j \in Instances :
        /\ leases[i].status = "queued"
        /\ HeldBy(Call.base, ConsumerOf[j]) = {}
        /\ j \in Held(leases) \/ j \in Waiting
        => Turn(Call, again, leases, j, leases[i].started)

EngineServes ==
    /\ step # "none" => EngineSound /\ EngineSlots /\ EngineTurn /\ (again => Call.op = "release")
    /\ step \in {"pass1", "pass2", "decide"} => EngineOrigin /\ EngineFresh
    /\ EngineFull

\* NoIdleCapacity, SlotsHeldUntilDecay and NoOvertaking made inductive.
ServiceInv ==
    /\ Sound(page.leases, now) /\ Full(page.leases)
    /\ \A x \in Handlers : CallServes(calls[x])
    /\ EngineServes

-----------------------------------------------------------------------------
(* One visit of Refresh's first pass, outcome by outcome. *)

\* The visited lease keeps all but its status and its release.
SameGrant(i) == /\ leases'[i].started = leases[i].started
                /\ leases'[i].renewed = leases[i].renewed
                /\ leases'[i].policy = leases[i].policy

Drops(i) ==
    /\ \/ Consumptive(leases[i]) /\ Decayed(leases[i], at)
       \/ leases[i].status = "queued"
    /\ leases'[i] = NoLease
    /\ UNCHANGED <<acc, replacements>>

Expires(i) ==
    /\ leases[i].status = "active" /\ ~Decayed(leases[i], at) /\ Expired(leases[i], at)
    /\ leases'[i].status = "released" /\ leases'[i].released = ExpirationTime(leases[i])
    /\ SameGrant(i)
    /\ acc' = Add(acc, ConsumerOf[i], "released")
    /\ UNCHANGED replacements

Stands(i) ==
    /\ Consumptive(leases[i]) /\ ~Decayed(leases[i], at)
    /\ leases[i].status = "active" => ~Expired(leases[i], at)
    /\ leases'[i] = leases[i]
    /\ acc' = Add(acc, ConsumerOf[i], leases[i].status)
    /\ UNCHANGED replacements

StepsAside(i) ==
    /\ leases[i].status = "queued" /\ ~Expired(leases[i], at)
    /\ acc.released[ConsumerOf[i]] > 0
    /\ leases'[i] = NoLease
    /\ acc' = StartReplacement(acc, ConsumerOf[i])
    /\ replacements' = Append(replacements, [inst |-> i, lease |-> leases[i]])

Activates(i) ==
    /\ leases[i].status = "queued" /\ ~Expired(leases[i], at)
    /\ CanActivate(Strategy, acc.active[ConsumerOf[i]], Total(acc), leases[i].policy.limit)
    /\ leases'[i].status = "active" /\ leases'[i].released = leases[i].released
    /\ SameGrant(i)
    /\ acc' = Add(acc, ConsumerOf[i], "active")
    /\ UNCHANGED replacements

StaysQueued(i) ==
    /\ leases[i].status = "queued"
    /\ ~CanActivate(Strategy, acc.active[ConsumerOf[i]], Total(acc), leases[i].policy.limit)
    /\ leases'[i] = leases[i]
    /\ UNCHANGED <<acc, replacements>>

\* A step of the first pass visits the lease that sorts first.
Visits(i) ==
    \/ RefreshDecayed(i) \/ RefreshExpired(i) \/ RefreshHeld(i)
    \/ RefreshQueueExpired(i) \/ RefreshReplace(i) \/ RefreshQueued(i)

\* What every visit has in common.
LEMMA VisitFacts ==
    ASSUME TypeInv, NEW i \in todo, Visits(i)
    PROVE  /\ i \in Instances /\ ConsumerOf[i] \in Consumers
           /\ step = "pass1" /\ step' = "pass1" /\ First(i)
           /\ todo' = todo \ {i}
           /\ Call' = Call /\ at' = at /\ again' = again /\ now' = now
           /\ leases \in LeaseSet /\ leases' \in LeaseSet
           /\ leases[i] \in LeaseType /\ leases'[i] \in LeaseType
           /\ acc \in AccumulatorType
           /\ replacements \in Seq([inst : Instances, lease : LeaseType])
           /\ at \in Nat /\ Call \in CallType
<1>1. /\ Visit(i) /\ RefreshStep
  BY DEF Visits, RefreshStep, RefreshDecayed, RefreshExpired, RefreshHeld,
     RefreshQueueExpired, RefreshReplace, RefreshQueued
<1>2. TypeInv' /\ step # "none"
  BY <1>1, TypeRefreshStep DEF Visit
<1>3. /\ leases \in LeaseSet /\ leases' \in LeaseSet /\ acc \in AccumulatorType
      /\ replacements \in Seq([inst : Instances, lease : LeaseType])
      /\ i \in Instances
  BY <1>2 DEF TypeInv, TypeOK
<1>4. at \in Nat /\ Call \in CallType
  BY <1>2, TypeCall
<1>5. calls' = calls /\ cur' = cur /\ now' = now
  BY <1>1 DEF Visit, shared
<1> QED BY <1>1, <1>3, <1>4, <1>5, ConsumerAssumption DEF Visit, LeaseSet, Call, at

\* Which outcome a visit has.
LEMMA VisitCases ==
    ASSUME TypeInv, NEW i \in todo, Visits(i)
    PROVE  /\ \A j \in Instances \ {i} : leases'[j] = leases[j]
           /\ \/ Drops(i) \/ Expires(i) \/ Stands(i)
              \/ StepsAside(i) \/ Activates(i) \/ StaysQueued(i)
<1>0. i \in Instances /\ leases \in LeaseSet /\ leases[i] \in LeaseType
  BY VisitFacts
\* Writing the lease l for i.
<1>w. ASSUME NEW l, leases' = [leases EXCEPT ![i] = l]
      PROVE  leases'[i] = l /\ \A j \in Instances \ {i} : leases'[j] = leases[j]
  BY <1>0, <1>w DEF LeaseSet
<1>1. CASE RefreshDecayed(i) \/ RefreshQueueExpired(i)
  <2>1. leases' = [leases EXCEPT ![i] = NoLease] /\ UNCHANGED <<acc, replacements>>
    BY <1>1 DEF RefreshDecayed, RefreshQueueExpired, Delete
  <2>2. (Consumptive(leases[i]) /\ Decayed(leases[i], at)) \/ leases[i].status = "queued"
    BY <1>1 DEF RefreshDecayed, RefreshQueueExpired
  <2> QED BY <1>w, <2>1, <2>2 DEF Drops
<1>2. CASE RefreshExpired(i)
  <2> DEFINE l == [leases[i] EXCEPT !.status = "released",
                                    !.released = ExpirationTime(leases[i])]
  <2>1. /\ l.status = "released" /\ l.released = ExpirationTime(leases[i])
        /\ l.started = leases[i].started /\ l.renewed = leases[i].renewed
        /\ l.policy = leases[i].policy
    BY <1>0 DEF LeaseType
  <2>2. leases' = [leases EXCEPT ![i] = l]
    BY <1>2 DEF RefreshExpired, Update
  <2>3. /\ leases[i].status = "active" /\ ~Decayed(leases[i], at) /\ Expired(leases[i], at)
        /\ acc' = Add(acc, ConsumerOf[i], "released") /\ UNCHANGED replacements
    BY <1>2 DEF RefreshExpired
  <2> HIDE DEF l
  <2> QED BY <1>w, <2>1, <2>2, <2>3 DEF Expires, SameGrant
<1>3. CASE RefreshHeld(i)
  BY <1>3 DEF RefreshHeld, Stands
<1>4. CASE RefreshReplace(i)
  <2>1. leases' = [leases EXCEPT ![i] = NoLease]
    BY <1>4 DEF RefreshReplace, Delete
  <2> QED BY <1>4, <1>w, <2>1 DEF RefreshReplace, StepsAside
<1>5. CASE RefreshQueued(i)
  <2> DEFINE l == [leases[i] EXCEPT !.status = "active"]
  <2>1. /\ l.status = "active" /\ l.released = leases[i].released
        /\ l.started = leases[i].started /\ l.renewed = leases[i].renewed
        /\ l.policy = leases[i].policy
    BY <1>0 DEF LeaseType
  <2>2. leases[i].status = "queued" /\ ~Expired(leases[i], at) /\ UNCHANGED replacements
    BY <1>5 DEF RefreshQueued
  <2>3. CASE CanActivate(Strategy, acc.active[ConsumerOf[i]], Total(acc), leases[i].policy.limit)
    <3>1. leases' = [leases EXCEPT ![i] = l] /\ acc' = Add(acc, ConsumerOf[i], "active")
      BY <1>5, <2>3 DEF RefreshQueued, Update
    <3> HIDE DEF l
    <3> QED BY <1>w, <2>1, <2>2, <2>3, <3>1 DEF Activates, SameGrant
  <2>4. CASE ~CanActivate(Strategy, acc.active[ConsumerOf[i]], Total(acc), leases[i].policy.limit)
    <3>1. UNCHANGED <<leases, acc>>
      BY <1>5, <2>4 DEF RefreshQueued
    <3> QED BY <2>2, <2>4, <3>1 DEF StaysQueued
  <2> QED BY <2>3, <2>4
<1> QED BY <1>1, <1>2, <1>3, <1>4, <1>5 DEF Visits

\* What the second pass's replacement writes: the lease set aside first, made
\* active, in the place of the decaying lease i.
LEMMA ReplaceFacts ==
    ASSUME TypeInv, ExactInv, NEW i \in todo, ReplaceReleased(i)
    PROVE  /\ step = "pass2" /\ step' = "pass2" /\ i \in Instances
           /\ Call' = Call /\ at' = at /\ again' = again /\ now' = now
           /\ leases \in LeaseSet /\ leases' \in LeaseSet
           /\ at \in Nat /\ Call \in CallType
           /\ leases[i].status = "released"
           /\ acc \in AccumulatorType /\ acc' = FinishReplacement(acc, ConsumerOf[i])
           /\ \A k \in 1..Len(replacements') : /\ replacements'[k] = replacements[k + 1]
                                                /\ k + 1 \in 1..Len(replacements)
           /\ 1 \in 1..Len(replacements)
           /\ \E q \in Instances :
                 /\ q = replacements[1].inst /\ q # i /\ leases[q].status = "none"
                 /\ replacements[1].lease \in LeaseType
                 /\ leases'[q].status = "active"
                 /\ leases'[q].started = replacements[1].lease.started
                 /\ leases'[q].renewed = replacements[1].lease.renewed
                 /\ leases'[q].released = replacements[1].lease.released
                 /\ leases'[q].policy = replacements[1].lease.policy
                 /\ leases'[i] = NoLease
                 /\ \A j \in Instances \ {i, q} : leases'[j] = leases[j]
<1>1. RefreshStep /\ step = "pass2" /\ step' = "pass2"
  BY DEF RefreshStep, ReplaceReleased
<1>2. TypeInv' /\ step # "none"
  BY <1>1, TypeRefreshStep
<1>3. /\ leases \in LeaseSet /\ leases' \in LeaseSet /\ acc \in AccumulatorType
      /\ replacements \in Seq([inst : Instances, lease : LeaseType])
      /\ i \in Instances
  BY <1>2 DEF TypeInv, TypeOK
<1>4. at \in Nat /\ Call \in CallType
  BY <1>2, TypeCall
<1>5. calls' = calls /\ cur' = cur /\ now' = now /\ again' = again
  BY DEF ReplaceReleased, shared
<1> DEFINE r == Head(replacements)
           q == r.inst
           l == [r.lease EXCEPT !.status = "active"]
<1>6. /\ replacements # <<>> /\ replacements' = Tail(replacements)
      /\ leases' = Overwrite(leases, i, q, l)
      /\ acc' = FinishReplacement(acc, ConsumerOf[i])
  BY DEF ReplaceReleased
<1>7. /\ r \in [inst : Instances, lease : LeaseType] /\ r = replacements[1]
      /\ 1 \in 1..Len(replacements)
      /\ \A k \in 1..Len(replacements') : /\ replacements'[k] = replacements[k + 1]
                                           /\ k + 1 \in 1..Len(replacements)
  BY <1>3, <1>6, HeadTail
<1>8. /\ q \in Instances /\ q = replacements[1].inst /\ r.lease \in LeaseType
      /\ r.lease = replacements[1].lease
  BY <1>7
<1>9. /\ l.status = "active" /\ l.started = r.lease.started /\ l.renewed = r.lease.renewed
      /\ l.released = r.lease.released /\ l.policy = r.lease.policy
  BY <1>8 DEF LeaseType
<1>10. leases[i].status = "released" /\ leases[q].status = "none"
  BY <1>1, <1>7, <1>8 DEF ExactInv, LeftInv, WaitingInv
<1> HIDE DEF r, q, l
<1>11. \A j \in Instances : leases'[j] = IF j = q THEN l ELSE IF j = i THEN NoLease ELSE leases[j]
  BY <1>3, <1>6, <1>8 DEF Overwrite, LeaseSet
<1>12. Call' = Call /\ at' = at
  BY <1>5 DEF Call, at
<1>13. /\ q \in Instances
       /\ q = replacements[1].inst /\ q # i /\ leases[q].status = "none"
       /\ replacements[1].lease \in LeaseType
       /\ leases'[q].status = "active"
       /\ leases'[q].started = replacements[1].lease.started
       /\ leases'[q].renewed = replacements[1].lease.renewed
       /\ leases'[q].released = replacements[1].lease.released
       /\ leases'[q].policy = replacements[1].lease.policy
       /\ leases'[i] = NoLease
       /\ \A j \in Instances \ {i, q} : leases'[j] = leases[j]
  BY <1>3, <1>8, <1>9, <1>10, <1>11
<1> QED BY <1>1, <1>3, <1>4, <1>5, <1>6, <1>7, <1>10, <1>12, <1>13

\* When every slot is visited and no replacement is left, the accumulator's
\* total is what the leases use, and its counts are the consumers' slots.
LEMMA CountsAll ==
    ASSUME TypeInv, TallyInv, Seen = Held(leases), Waiting = {},
           \A c \in Consumers : acc.replacements[c] = 0
    PROVE  /\ Total(acc) = Used(leases)
           /\ \A c \in Consumers : acc.consumed[c] = Cardinality(HeldBy(leases, c))
<1>1. ASSUME NEW c \in Consumers PROVE acc.consumed[c] = Cardinality(HeldBy(leases, c))
  <2>1. SeenBy(c) = HeldBy(leases, c) /\ WaitingBy(c) = {}
    BY DEF SeenBy, HeldBy, WaitingBy
  <2>2. /\ acc.consumed[c] \in Nat /\ acc.replacements[c] = 0
        /\ Cardinality(SeenBy(c)) \in Nat /\ Cardinality(WaitingBy(c)) = 0
    BY <2>1, CounterTypes, TallyFinite, FS_EmptySet DEF TypeInv, TypeOK
  <2>3. acc.consumed[c] + acc.replacements[c] = Cardinality(SeenBy(c)) + Cardinality(WaitingBy(c))
    BY DEF TallyInv
  <2>4. acc.consumed[c] = Cardinality(SeenBy(c))
    BY <2>2, <2>3
  <2> QED BY <2>1, <2>4
<1>2. Counted(acc) = Holders(leases)
  <2>1. ASSUME NEW c \in Consumers PROVE c \in Counted(acc) <=> c \in Holders(leases)
    <3>1. IsFiniteSet(SeenBy(c)) /\ SeenBy(c) = HeldBy(leases, c)
      BY TallyFinite DEF SeenBy, HeldBy
    <3>2. Cardinality(HeldBy(leases, c)) \in Nat
          /\ (Cardinality(HeldBy(leases, c)) = 0 <=> HeldBy(leases, c) = {})
      BY <3>1, FS_EmptySet, FS_CardinalityType
    <3>3. HeldBy(leases, c) = {} <=> c \notin Holders(leases)
      BY DEF HeldBy, Holders
    <3> QED BY <1>1, <3>2, <3>3 DEF Counted
  <2> QED BY <2>1, HeldFinite DEF Counted
<1>3. acc.total = Cardinality(Held(leases))
  BY DEF TallyInv
<1> QED BY <1>1, <1>2, <1>3 DEF Total, Used

\* At the decision the accumulator knows what is in use.
LEMMA DecideCounts ==
    ASSUME TypeInv, ExactInv, step = "decide"
    PROVE  /\ Total(acc) = Used(leases)
           /\ \A c \in Consumers : acc.consumed[c] = Cardinality(HeldBy(leases, c))
           /\ Waiting = {}
<1>1. TallyInv /\ PairInv /\ \A c \in Consumers : acc.replacements[c] = 0
  BY DEF ExactInv, LeftInv
<1>2. Waiting = {} /\ Seen = Held(leases)
  BY <1>1, NoneLeft DEF Seen
<1> QED BY <1>1, <1>2, CountsAll

\* What the end of a pass leaves alone; the end of the last one has the counts.
LEMMA PassEnds ==
    ASSUME TypeInv, ExactInv, EndPass1 \/ EndPass2
    PROVE  /\ UNCHANGED <<leases, acc, replacements>>
           /\ Call' = Call /\ at' = at /\ again' = again /\ now' = now
           /\ Seen = Held(leases) /\ Seen' = Held(leases) /\ Waiting' = Waiting
           /\ step = "pass1" => todo = {}
           /\ step \in {"pass1", "pass2"} /\ step' \in {"pass2", "decide", "finish"}
           /\ step' = "pass2" => step = "pass1"
           /\ step' = "decide" => Call.op = "acquire" \/ ~again
           /\ step' # "pass2" =>
                 /\ Waiting = {} /\ Total(acc) = Used(leases)
                 /\ \A c \in Consumers : acc.consumed[c] = Cardinality(HeldBy(leases, c))
           /\ step' = "pass2" =>
                 \A c \in Consumers : acc.consumed[c] = Cardinality(HeldBy(leases, c))
<1>1. /\ UNCHANGED <<leases, acc, replacements, calls, cur, again, now>>
      /\ step \in {"pass1", "pass2"} /\ step' \in {"pass2", "decide", "finish"}
      /\ step' = "pass2" => step = "pass1"
      /\ step = "pass1" => todo = {}
      /\ step' = "decide" => Call.op = "acquire" \/ ~again
  BY DEF EndPass1, EndPass2, AfterRefresh, shared, Call
<1>2. Call' = Call /\ at' = at
  BY <1>1 DEF Call, at
<1>3. Seen = Held(leases) /\ Seen' = Held(leases')
  BY <1>1 DEF Seen
<1>4. Waiting' = Waiting
  BY <1>1 DEF Waiting
<1>5. TallyInv /\ PairInv /\ LeftInv
  BY <1>1 DEF ExactInv
<1>6. ASSUME step' # "pass2"
      PROVE  /\ Waiting = {} /\ Total(acc) = Used(leases)
             /\ \A c \in Consumers : acc.consumed[c] = Cardinality(HeldBy(leases, c))
  <2>1. \A c \in Consumers : acc.replacements[c] = 0
    <3>1. CASE EndPass1
      BY <1>6, <3>1, CounterTypes DEF EndPass1, ReplacementsRecorded, TypeInv, TypeOK
    <3>2. CASE EndPass2
      BY <1>5, <3>2, AllReplaced DEF EndPass2
    <3> QED BY <3>1, <3>2
  <2>2. Waiting = {}
    BY <1>5, <2>1, NoneLeft
  <2> QED BY <1>3, <1>5, <2>1, <2>2, CountsAll
<1>7. ASSUME step' = "pass2", NEW c \in Consumers
      PROVE  acc.consumed[c] = Cardinality(HeldBy(leases, c))
  <2>1. SeenBy(c) = HeldBy(leases, c) /\ step = "pass1"
    BY <1>1, <1>3, <1>7 DEF SeenBy, HeldBy
  <2>2. /\ acc.consumed[c] \in Nat /\ acc.replacements[c] \in Nat
        /\ Cardinality(SeenBy(c)) \in Nat
    BY CounterTypes, TallyFinite DEF TypeInv, TypeOK
  <2>3. /\ acc.consumed[c] + acc.replacements[c] = Cardinality(SeenBy(c)) + Cardinality(WaitingBy(c))
        /\ acc.replacements[c] = Cardinality(WaitingBy(c))
    BY <1>5, <2>1 DEF TallyInv
  <2>4. acc.consumed[c] = Cardinality(SeenBy(c))
    BY <2>2, <2>3
  <2> QED BY <2>1, <2>4
<1> QED BY <1>1, <1>2, <1>3, <1>4, <1>6, <1>7

-----------------------------------------------------------------------------
(* Refresh keeps the leases sound, their origins known and the slots fresh. *)

\* Nothing written decays before its time: neither an active lease that has
\* not expired nor one that was just marked released.
LEMMA DecayFacts ==
    ASSUME NEW l \in LeaseType, NEW m \in LeaseType, NEW t \in Nat,
           m.renewed = l.renewed, m.policy = l.policy, l.released = 0
    PROVE  /\ m.released = 0 => (Expired(m, t) <=> Expired(l, t))
           /\ m.released = 0 /\ ~Expired(l, t) => ~Decayed(m, t)
           /\ m.released = ExpirationTime(l) /\ ~Decayed(l, t) => ~Decayed(m, t)
<1>1. /\ l.renewed \in Nat /\ l.policy.duration \in Nat /\ l.policy.decay \in Nat
      /\ m.released \in Nat
  BY DEF LeaseType, Policy
<1> QED BY <1>1 DEF Expired, Decayed, DecayTime, ExpirationTime

\* A visit keeps the leases sound.
LEMMA SoundVisit ==
    ASSUME TypeInv, NEW i \in todo, Visits(i), EngineSound
    PROVE  EngineSound'
<1>0. /\ i \in Instances /\ step = "pass1" /\ step' = "pass1" /\ at' = at /\ now' = now
      /\ leases[i] \in LeaseType
      /\ replacements \in Seq([inst : Instances, lease : LeaseType])
  BY VisitFacts
<1>1. SoundLease(leases'[i], at) /\ \A j \in Instances \ {i} : leases'[j] = leases[j]
  <2>1. SoundLease(leases[i], at) /\ SoundLease(NoLease, at)
    BY <1>0 DEF EngineSound, Sound, SoundLease, NoLease
  <2> QED BY <2>1, VisitCases DEF Drops, Expires, Stands, StepsAside, Activates, StaysQueued,
             SameGrant, SoundLease, Consumptive
<1>2. Sound(leases, at)'
  BY <1>0, <1>1 DEF EngineSound, Sound
<1>3. \A k \in 1..Len(replacements') :
          /\ replacements'[k].lease.status = "queued"
          /\ SoundLease(replacements'[k].lease, at)
          /\ ~Expired(replacements'[k].lease, at)
  <2>1. CASE replacements' = replacements
    BY <1>0, <2>1 DEF EngineSound
  <2>2. CASE StepsAside(i)
    <3> DEFINE e == [inst |-> i, lease |-> leases[i]]
    <3>1. e \in [inst : Instances, lease : LeaseType] /\ e.lease = leases[i]
      BY <1>0
    <3>2. replacements' = Append(replacements, e)
      BY <2>2 DEF StepsAside
    <3> HIDE DEF e
    <3>3. \A k \in 1..Len(replacements') :
             replacements'[k] = e \/ (k \in 1..Len(replacements) /\ replacements'[k] = replacements[k])
      BY <1>0, <3>1, <3>2
    <3>4. leases[i].status = "queued" /\ ~Expired(leases[i], at) /\ SoundLease(leases[i], at)
      BY <1>0, <2>2 DEF StepsAside, EngineSound, Sound
    <3> QED BY <1>0, <3>1, <3>3, <3>4 DEF EngineSound
  <2> QED BY <2>1, <2>2, VisitCases DEF Drops, Expires, Stands, Activates, StaysQueued
<1> QED BY <1>0, <1>2, <1>3 DEF EngineSound

\* So does a replacement.
LEMMA SoundReplace ==
    ASSUME TypeInv, ExactInv, NEW i \in todo, ReplaceReleased(i), EngineSound
    PROVE  EngineSound'
<1>1. PICK q \in Instances :
          /\ leases'[q].status = "active"
          /\ leases'[q].started = replacements[1].lease.started
          /\ leases'[q].released = replacements[1].lease.released
          /\ leases'[q].policy = replacements[1].lease.policy
          /\ leases'[i] = NoLease
          /\ \A j \in Instances \ {i, q} : leases'[j] = leases[j]
  BY ReplaceFacts
<1>2. /\ step = "pass2" /\ step' = "pass2" /\ at' = at /\ now' = now /\ i \in Instances
      /\ 1 \in 1..Len(replacements)
      /\ \A k \in 1..Len(replacements') : /\ replacements'[k] = replacements[k + 1]
                                           /\ k + 1 \in 1..Len(replacements)
  BY ReplaceFacts
<1>3. SoundLease(leases'[q], at)
  BY <1>1, <1>2 DEF EngineSound, SoundLease
<1>4. SoundLease(NoLease, at)
  BY DEF SoundLease, NoLease
<1>5. Sound(leases, at)'
  BY <1>1, <1>2, <1>3, <1>4 DEF EngineSound, Sound
<1> QED BY <1>2, <1>5 DEF EngineSound

\* A visit keeps the origins and the freshness of what has been visited.
LEMMA OriginVisit ==
    ASSUME TypeInv, NEW i \in todo, Visits(i), EngineSound, EngineOrigin, EngineFresh
    PROVE  EngineOrigin' /\ EngineFresh'
<1>0. /\ i \in Instances /\ step = "pass1" /\ step' = "pass1" /\ todo' = todo \ {i}
      /\ Call' = Call /\ at' = at /\ again' = again
      /\ leases[i] \in LeaseType /\ leases'[i] \in LeaseType /\ at \in Nat
      /\ replacements \in Seq([inst : Instances, lease : LeaseType])
  BY VisitFacts
<1>1. \A j \in Instances \ {i} : leases'[j] = leases[j]
  BY VisitCases
<1>2. SoundLease(leases[i], at) /\ ~Consumptive(NoLease)
  BY <1>0 DEF EngineSound, Sound, NoLease, Consumptive
\* The visited lease, if it still holds a slot.
<1>3. ASSUME Consumptive(leases'[i])
      PROVE  /\ ~Decayed(leases'[i], at)
             /\ leases'[i].status = "active" => ~Expired(leases'[i], at)
  <2>1. CASE Stands(i)
    BY <2>1 DEF Stands
  <2>2. CASE Expires(i)
    <3>1. leases[i].released = 0
      BY <1>2, <2>2 DEF SoundLease, Expires
    <3> QED BY <1>0, <2>2, <3>1, DecayFacts DEF Expires, SameGrant
  <2>3. CASE Activates(i)
    <3>1. leases[i].released = 0
      BY <1>2, <2>3 DEF SoundLease, Activates
    <3> QED BY <1>0, <2>3, <3>1, DecayFacts DEF Activates, SameGrant
  <2>4. ~Drops(i) /\ ~StepsAside(i) /\ ~StaysQueued(i)
    BY <1>2, <1>3 DEF Drops, StepsAside, StaysQueued, Consumptive
  <2> QED BY <2>1, <2>2, <2>3, <2>4, VisitCases
<1>4. ASSUME NEW j \in Seen' PROVE j = i \/ (j \in Seen /\ leases'[j] = leases[j])
  BY <1>0, <1>1 DEF Seen, Held
<1>5. ASSUME NEW j \in Held(leases')
      PROVE  (j = i /\ Consumptive(leases'[i])) \/ (j \in Held(leases) /\ leases'[j] = leases[j])
  BY <1>0, <1>1 DEF Held
<1>6. i \in Seen' => Consumptive(leases'[i])
  BY DEF Seen, Held
<1>7. EngineFresh'
  BY <1>0, <1>3, <1>4, <1>5, <1>6 DEF EngineFresh
<1>8. ASSUME ~again
      PROVE  /\ \A j \in todo' : leases'[j] = Call.base[j]
             /\ \A j \in Seen' :
                   /\ leases'[j].status = "released" =>
                         /\ j \in Held(Call.base) /\ ~Decayed(Call.base[j], at)
                         /\ Call.base[j].status = "released" \/ Expired(Call.base[j], at)
                   /\ leases'[j].status = "active" /\ j \notin Held(Call.base) =>
                         /\ Call.base[j].status = "queued"
                         /\ Call.base[j].started = leases'[j].started
             /\ \A k \in 1..Len(replacements') :
                   replacements'[k].lease = Call.base[replacements'[k].inst]
  <2>1. leases[i] = Call.base[i] /\ \A j \in todo' : leases'[j] = Call.base[j]
    <3>1. todo \subseteq Instances
      BY DEF TypeInv, TypeOK
    <3> QED BY <1>0, <1>1, <1>8, <3>1 DEF EngineOrigin
  <2>2. /\ leases'[i].status = "released" =>
              /\ i \in Held(Call.base) /\ ~Decayed(Call.base[i], at)
              /\ Call.base[i].status = "released" \/ Expired(Call.base[i], at)
        /\ leases'[i].status = "active" /\ i \notin Held(Call.base) =>
              /\ Call.base[i].status = "queued"
              /\ Call.base[i].started = leases'[i].started
    <3>1. CASE Drops(i) \/ StepsAside(i) \/ StaysQueued(i)
      BY <3>1 DEF Drops, StepsAside, StaysQueued, NoLease
    <3>2. CASE Expires(i)
      BY <1>0, <2>1, <3>2 DEF Expires, Held, Consumptive
    <3>3. CASE Stands(i)
      BY <1>0, <2>1, <3>3 DEF Stands, Held, Consumptive
    <3>4. CASE Activates(i)
      BY <2>1, <3>4 DEF Activates, SameGrant
    <3> QED BY <3>1, <3>2, <3>3, <3>4, VisitCases
  <2>3. \A k \in 1..Len(replacements') :
            replacements'[k].lease = Call.base[replacements'[k].inst]
    <3>1. CASE replacements' = replacements
      BY <1>8, <3>1 DEF EngineOrigin
    <3>2. CASE StepsAside(i)
      <4> DEFINE e == [inst |-> i, lease |-> leases[i]]
      <4>1. e \in [inst : Instances, lease : LeaseType] /\ e.lease = leases[i] /\ e.inst = i
        BY <1>0
      <4>2. replacements' = Append(replacements, e)
        BY <3>2 DEF StepsAside
      <4> HIDE DEF e
      <4>3. \A k \in 1..Len(replacements') :
               replacements'[k] = e \/ (k \in 1..Len(replacements) /\ replacements'[k] = replacements[k])
        BY <1>0, <4>1, <4>2
      <4> QED BY <1>8, <2>1, <4>1, <4>3 DEF EngineOrigin
    <3> QED BY <3>1, <3>2, VisitCases DEF Drops, Expires, Stands, Activates, StaysQueued
  <2>4. \A j \in Seen' :
           /\ leases'[j].status = "released" =>
                 /\ j \in Held(Call.base) /\ ~Decayed(Call.base[j], at)
                 /\ Call.base[j].status = "released" \/ Expired(Call.base[j], at)
           /\ leases'[j].status = "active" /\ j \notin Held(Call.base) =>
                 /\ Call.base[j].status = "queued"
                 /\ Call.base[j].started = leases'[j].started
    BY <1>4, <1>8, <2>2 DEF EngineOrigin
  <2> QED BY <2>1, <2>3, <2>4
<1>9. EngineOrigin'
  BY <1>0, <1>8 DEF EngineOrigin
<1> QED BY <1>7, <1>9

\* So does a replacement.
LEMMA OriginReplace ==
    ASSUME TypeInv, ExactInv, NEW i \in todo, ReplaceReleased(i),
           EngineSound, EngineOrigin, EngineFresh
    PROVE  EngineOrigin' /\ EngineFresh'
<1>1. PICK q \in Instances :
          /\ q = replacements[1].inst
          /\ replacements[1].lease \in LeaseType
          /\ leases'[q].status = "active"
          /\ leases'[q].started = replacements[1].lease.started
          /\ leases'[q].renewed = replacements[1].lease.renewed
          /\ leases'[q].released = replacements[1].lease.released
          /\ leases'[q].policy = replacements[1].lease.policy
          /\ leases'[i] = NoLease
          /\ \A j \in Instances \ {i, q} : leases'[j] = leases[j]
  BY ReplaceFacts
<1>2. /\ step = "pass2" /\ step' = "pass2" /\ at' = at /\ Call' = Call /\ again' = again
      /\ i \in Instances /\ leases' \in LeaseSet /\ at \in Nat
      /\ 1 \in 1..Len(replacements)
      /\ \A k \in 1..Len(replacements') : /\ replacements'[k] = replacements[k + 1]
                                           /\ k + 1 \in 1..Len(replacements)
  BY ReplaceFacts
<1>3. Seen = Held(leases) /\ Seen' = Held(leases')
  BY <1>2 DEF Seen
<1>4. ASSUME NEW j \in Held(leases') PROVE j = q \/ (j \in Held(leases) /\ leases'[j] = leases[j])
  BY <1>1 DEF Held, Consumptive, NoLease
<1>5. ~Decayed(leases'[q], at) /\ ~Expired(leases'[q], at)
  <2>1. /\ replacements[1].lease.released = 0 /\ ~Expired(replacements[1].lease, at)
        /\ leases'[q] \in LeaseType
    BY <1>2 DEF EngineSound, SoundLease, LeaseSet
  <2> QED BY <1>1, <1>2, <2>1, DecayFacts
<1>6. EngineFresh'
  BY <1>2, <1>3, <1>4, <1>5 DEF EngineFresh
<1>7. ASSUME ~again
      PROVE  /\ \A j \in Seen' :
                   /\ leases'[j].status = "released" =>
                         /\ j \in Held(Call.base) /\ ~Decayed(Call.base[j], at)
                         /\ Call.base[j].status = "released" \/ Expired(Call.base[j], at)
                   /\ leases'[j].status = "active" /\ j \notin Held(Call.base) =>
                         /\ Call.base[j].status = "queued"
                         /\ Call.base[j].started = leases'[j].started
             /\ \A k \in 1..Len(replacements') :
                   replacements'[k].lease = Call.base[replacements'[k].inst]
  <2>1. /\ Call.base[q].status = "queued"
        /\ Call.base[q].started = leases'[q].started
    BY <1>1, <1>2, <1>7 DEF EngineOrigin, EngineSound
  <2>2. \A k \in 1..Len(replacements') :
            replacements'[k].lease = Call.base[replacements'[k].inst]
    BY <1>2, <1>7 DEF EngineOrigin
  <2> QED BY <1>1, <1>3, <1>4, <1>7, <2>1, <2>2 DEF EngineOrigin
<1>8. EngineOrigin'
  BY <1>2, <1>7 DEF EngineOrigin
<1> QED BY <1>6, <1>8

-----------------------------------------------------------------------------
(* Refresh leaves no slot idle. *)

\* The accumulator's operations never lower the total.
LEMMA TotalGrows ==
    ASSUME NEW a \in AccumulatorType, NEW c \in Consumers
    PROVE  /\ Total(a) \in Nat
           /\ \A s \in {"active", "released"} :
                 Total(Add(a, c, s)) \in Nat /\ Total(Add(a, c, s)) >= Total(a)
           /\ a.released[c] > 0 => Total(StartReplacement(a, c)) = Total(a)
           /\ Total(FinishReplacement(a, c)) = Total(a)
<1>1. a.total \in Nat /\ IsFiniteSet(Counted(a)) /\ Cardinality(Counted(a)) \in Nat
  BY CounterTypes, CountedFinite, FS_CardinalityType
<1>2. ASSUME NEW s \in {"active", "released"}
      PROVE  Total(Add(a, c, s)) \in Nat /\ Total(Add(a, c, s)) >= Total(a)
  <2>1. Counted(Add(a, c, s)) = Counted(a) \cup {c} /\ Add(a, c, s).total = a.total + 1
    BY AddCounts
  <2>2. /\ Cardinality(Counted(a) \cup {c}) \in Nat
        /\ Cardinality(Counted(a) \cup {c}) >= Cardinality(Counted(a))
    <3>1. IsFiniteSet(Counted(a) \cup {c})
      BY <1>1, CardAdd
    <3> QED BY <3>1, CardSub
  <2> QED BY <1>1, <2>1, <2>2 DEF Total
<1> QED BY <1>1, <1>2, StartCounts, FinishCounts DEF Total

\* A visit leaves a lease queued only when all is in use.
LEMMA FullVisit ==
    ASSUME TypeInv, NEW i \in todo, Visits(i), EngineSound, EngineFull
    PROVE  EngineFull'
<1>0. /\ i \in Instances /\ step = "pass1" /\ step' = "pass1" /\ todo' = todo \ {i}
      /\ leases[i] \in LeaseType /\ acc \in AccumulatorType /\ ConsumerOf[i] \in Consumers
  BY VisitFacts
<1>1. Capacity \in Nat /\ Total(acc) \in Nat
  BY <1>0, CapacityAssumption, TotalGrows
<1>2. Total(acc') \in Nat /\ Total(acc') >= Total(acc)
  <2>1. CASE acc' = acc
    BY <1>1, <2>1
  <2>2. CASE \E s \in {"active", "released"} : acc' = Add(acc, ConsumerOf[i], s)
    BY <1>0, <2>2, TotalGrows
  <2>3. CASE StepsAside(i)
    <3>1. acc' = StartReplacement(acc, ConsumerOf[i]) /\ acc.released[ConsumerOf[i]] > 0
      BY <2>3 DEF StepsAside
    <3> QED BY <1>0, <1>1, <3>1, TotalGrows
  <2>4. CASE Expires(i) \/ Stands(i) \/ Activates(i)
    BY <2>2, <2>4 DEF Expires, Stands, Activates, Consumptive
  <2>5. CASE Drops(i) \/ StaysQueued(i)
    BY <2>1, <2>5 DEF Drops, StaysQueued
  <2> QED BY <2>3, <2>4, <2>5, VisitCases
<1>3. leases'[i].status = "queued" => Total(acc) >= Capacity
  <2>1. SUFFICES ASSUME leases'[i].status = "queued" PROVE Total(acc) >= Capacity
    OBVIOUS
  <2>2. StaysQueued(i)
    <3>1. ~Drops(i) /\ ~StepsAside(i)
      BY <2>1 DEF Drops, StepsAside, NoLease
    <3>2. ~Expires(i) /\ ~Stands(i) /\ ~Activates(i)
      BY <2>1 DEF Expires, Stands, Activates, Consumptive
    <3> QED BY <3>1, <3>2, VisitCases
  <2>3. leases[i].policy.limit = Capacity
    BY <1>0, <2>2 DEF StaysQueued, EngineSound, Sound, SoundLease
  <2> QED BY <1>1, <2>2, <2>3 DEF StaysQueued, CanActivate
<1>4. ASSUME NEW j \in Instances, leases'[j].status = "queued", j \notin todo'
      PROVE  Total(acc) >= Capacity
  <2>1. j = i \/ (j \notin todo /\ leases[j].status = "queued")
    BY <1>0, <1>4, VisitCases
  <2> QED BY <1>0, <1>3, <1>4, <2>1 DEF EngineFull
<1> QED BY <1>0, <1>1, <1>2, <1>4 DEF EngineFull

\* A replacement makes nobody wait.
LEMMA FullReplace ==
    ASSUME TypeInv, ExactInv, NEW i \in todo, ReplaceReleased(i), EngineFull
    PROVE  EngineFull'
<1>1. /\ step = "pass2" /\ step' = "pass2" /\ i \in Instances /\ acc \in AccumulatorType
      /\ acc' = FinishReplacement(acc, ConsumerOf[i]) /\ ConsumerOf[i] \in Consumers
  BY ReplaceFacts, ConsumerAssumption
<1>2. Total(acc') = Total(acc)
  BY <1>1, TotalGrows
<1>3. \A j \in Instances : leases'[j].status = "queued" => leases[j].status = "queued"
  <2> PICK q \in Instances : /\ leases'[q].status = "active" /\ leases'[i] = NoLease
                             /\ \A j \in Instances \ {i, q} : leases'[j] = leases[j]
    BY ReplaceFacts
  <2> QED BY DEF NoLease
<1> QED BY <1>1, <1>2, <1>3 DEF EngineFull

\* At the end of Refresh the accumulator's total is what is in use.
LEMMA FullEnd ==
    ASSUME TypeInv, ExactInv, EndPass1 \/ EndPass2, EngineFull
    PROVE  EngineFull'
<1>1. /\ UNCHANGED <<leases, acc>> /\ step \in {"pass1", "pass2"}
      /\ step = "pass1" => todo = {}
      /\ step' \in {"pass2", "decide", "finish"}
      /\ step' # "pass2" => Total(acc) = Used(leases)
  BY PassEnds
<1>2. \A i \in Instances : leases[i].status = "queued" => Total(acc) >= Capacity
  BY <1>1 DEF EngineFull
<1>3. step' # "pass2" => Full(leases)
  BY <1>1, <1>2 DEF Full
<1>4. Full(leases') = Full(leases)
  BY <1>1
<1> QED BY <1>1, <1>2, <1>3, <1>4 DEF EngineFull

-----------------------------------------------------------------------------
(* Refresh takes no slot before it ends. *)

\* The slots of a consumer, and those that ended, are finitely many.
LEMMA SlotsFinite ==
    ASSUME NEW ls, NEW c, NEW d
    PROVE  /\ IsFiniteSet(HeldBy(ls, c)) /\ Cardinality(HeldBy(ls, c)) \in Nat
           /\ IsFiniteSet(Ended(d, c)) /\ Cardinality(Ended(d, c)) \in Nat
           /\ IsFiniteSet(Gone(c)) /\ Cardinality(Gone(c)) \in Nat
<1>1. HeldBy(ls, c) \subseteq Instances /\ Ended(d, c) \subseteq Instances
      /\ Gone(c) \subseteq Instances
  BY DEF HeldBy, Ended, Gone, Held
<1> QED BY <1>1, InstancesFinite, FS_Subset, FS_CardinalityType

\* Where a consumer keeps his slots and no ended one is forgotten, the balance
\* of slots holds.
LEMMA SlotsGrow ==
    ASSUME NEW c \in Consumers, NEW n \in Nat,
           n <= Cardinality(Gone(c)) + Cardinality(HeldBy(leases, c)),
           Held(leases) \subseteq Held(leases'), Gone(c) \subseteq Gone(c)'
    PROVE  n <= Cardinality(Gone(c)') + Cardinality(HeldBy(leases', c))
<1>1. HeldBy(leases, c) \subseteq HeldBy(leases', c)
  BY DEF HeldBy
<1>2. IsFiniteSet(HeldBy(leases', c)) /\ IsFiniteSet(Gone(c)')
  <2>1. HeldBy(leases', c) \subseteq Instances /\ Gone(c)' \subseteq Instances
    BY DEF HeldBy, Gone, Ended, Held
  <2> QED BY <2>1, InstancesFinite, FS_Subset
<1>3. /\ Cardinality(HeldBy(leases, c)) <= Cardinality(HeldBy(leases', c))
      /\ Cardinality(Gone(c)) <= Cardinality(Gone(c)')
      /\ Cardinality(HeldBy(leases, c)) \in Nat /\ Cardinality(HeldBy(leases', c)) \in Nat
      /\ Cardinality(Gone(c)) \in Nat /\ Cardinality(Gone(c)') \in Nat
  BY <1>1, <1>2, CardSub
<1> QED BY <1>3

\* A visit takes a slot only when it has decayed.
LEMMA SlotsVisit ==
    ASSUME TypeInv, NEW i \in todo, Visits(i),
           EngineOrigin, EngineFresh, EngineSlots
    PROVE  EngineSlots'
<1>0. /\ i \in Instances /\ step = "pass1" /\ step' = "pass1" /\ todo' = todo \ {i}
      /\ Call' = Call /\ at' = at /\ again' = again /\ Call \in CallType
  BY VisitFacts
<1>1. \A j \in Instances \ {i} : leases'[j] = leases[j]
  BY VisitCases
<1>2. SUFFICES ASSUME NEW c \in Consumers
               PROVE  Cardinality(HeldBy(Call.base, c))
                         <= Cardinality(Gone(c)') + Cardinality(HeldBy(leases', c))
  BY <1>0 DEF EngineSlots
<1>3. /\ Cardinality(HeldBy(Call.base, c))
            <= Cardinality(Gone(c)) + Cardinality(HeldBy(leases, c))
      /\ Cardinality(HeldBy(Call.base, c)) \in Nat
  BY <1>0, SlotsFinite DEF EngineSlots
<1>4. Gone(c) \subseteq Gone(c)'
  BY <1>0 DEF Gone
<1>5. CASE Consumptive(leases'[i]) \/ ~Consumptive(leases[i])
  <2>1. Held(leases) \subseteq Held(leases')
    BY <1>1, <1>5 DEF Held
  <2> QED BY <1>3, <1>4, <2>1, SlotsGrow
<1>6. CASE ~Consumptive(leases'[i]) /\ Consumptive(leases[i])
  <2>1. Decayed(leases[i], at) /\ i \in Held(leases)
    BY <1>0, <1>6, VisitCases DEF Drops, Expires, Stands, StepsAside, Activates, StaysQueued,
       Consumptive, Held
  <2>2. ~again
    BY <2>1 DEF EngineFresh
  <2>3. leases[i] = Call.base[i] /\ i \in Held(Call.base)
    BY <1>0, <1>6, <2>2 DEF EngineOrigin, Held
  <2>4. Held(leases') = Held(leases) \ {i}
    BY <1>1, <1>6 DEF Held
  <2>5. CASE ConsumerOf[i] # c
    <3>1. HeldBy(leases', c) = HeldBy(leases, c)
      BY <2>4, <2>5 DEF HeldBy
    <3>2. /\ Cardinality(Gone(c)) <= Cardinality(Gone(c)')
          /\ Cardinality(Gone(c)) \in Nat /\ Cardinality(Gone(c)') \in Nat
      <4>1. Gone(c)' \subseteq Instances
        BY DEF Gone, Ended, HeldBy, Held
      <4>2. IsFiniteSet(Gone(c)')
        BY <4>1, InstancesFinite, FS_Subset
      <4> QED BY <1>4, <4>2, CardSub
    <3>3. Cardinality(HeldBy(leases, c)) \in Nat
      BY SlotsFinite
    <3> QED BY <1>3, <3>1, <3>2, <3>3
  <2>6. CASE ConsumerOf[i] = c
    <3>1. HeldBy(leases', c) = HeldBy(leases, c) \ {i} /\ i \in HeldBy(leases, c)
      BY <2>1, <2>4, <2>6 DEF HeldBy
    <3>2. i \notin Gone(c)
      BY <1>0, <2>2 DEF Gone
    <3>3. at = Call.at
      BY DEF at, Call
    <3>4. i \in Gone(c)'
      <4>1. i \in Ended(Call, c)
        BY <2>1, <2>3, <2>6, <3>3 DEF Ended, HeldBy
      <4> QED BY <1>0, <2>1, <2>3, <4>1 DEF Gone
    <3>5. Gone(c) \cup {i} \subseteq Gone(c)'
      BY <1>4, <3>4
    <3>6. /\ Cardinality(HeldBy(leases', c)) = Cardinality(HeldBy(leases, c)) - 1
          /\ Cardinality(HeldBy(leases, c)) \in Nat
      BY <3>1, SlotsFinite, CardLess
    <3>7. /\ Cardinality(Gone(c) \cup {i}) = Cardinality(Gone(c)) + 1
          /\ Cardinality(Gone(c)) \in Nat
      BY <3>2, SlotsFinite, CardNew
    <3>8. Cardinality(Gone(c) \cup {i}) <= Cardinality(Gone(c)') /\ Cardinality(Gone(c)') \in Nat
      <4>1. Gone(c)' \subseteq Instances
        BY DEF Gone, Ended, HeldBy, Held
      <4>2. IsFiniteSet(Gone(c)')
        BY <4>1, InstancesFinite, FS_Subset
      <4> QED BY <3>5, <4>2, CardSub
    <3> QED BY <1>3, <3>6, <3>7, <3>8
  <2> QED BY <2>5, <2>6
<1> QED BY <1>5, <1>6

\* During the second pass the balance is in the accumulator, which keeps it.
LEMMA SlotsReplace ==
    ASSUME TypeInv, ExactInv, NEW i \in todo, ReplaceReleased(i), EngineSlots
    PROVE  EngineSlots'
<1>1. /\ step = "pass2" /\ step' = "pass2" /\ i \in Instances /\ acc \in AccumulatorType
      /\ acc' = FinishReplacement(acc, ConsumerOf[i]) /\ ConsumerOf[i] \in Consumers
      /\ Call' = Call /\ at' = at /\ again' = again
  BY ReplaceFacts, ConsumerAssumption
<1>2. acc'.consumed = acc.consumed
  BY <1>1, FinishTally
<1>3. \A c : Gone(c)' = Gone(c)
  BY <1>1 DEF Gone
<1> QED BY <1>1, <1>2, <1>3 DEF EngineSlots

\* Between the passes the balance moves to the accumulator and back.
LEMMA SlotsEnd ==
    ASSUME TypeInv, ExactInv, EndPass1 \/ EndPass2, EngineSlots
    PROVE  EngineSlots'
<1>1. /\ UNCHANGED <<leases, acc>> /\ step \in {"pass1", "pass2"}
      /\ Call' = Call /\ at' = at /\ again' = again
      /\ step = "pass1" => todo = {}
      /\ step' \in {"pass2", "decide", "finish"}
      /\ step' = "pass2" => step = "pass1"
  BY PassEnds
<1>2. \A c \in Consumers : acc.consumed[c] = Cardinality(HeldBy(leases, c))
  BY PassEnds
<1>3. \A c : Gone(c)' = Gone(c)
  BY <1>1 DEF Gone
<1>4. ASSUME NEW c \in Consumers
      PROVE  Cardinality(HeldBy(Call.base, c)) <= Cardinality(Gone(c)) + acc.consumed[c]
  BY <1>2 DEF EngineSlots
<1> QED BY <1>1, <1>2, <1>3, <1>4 DEF EngineSlots

-----------------------------------------------------------------------------
(* Refresh serves in turn. *)

\* A turn stays one while the consumer's active leases stay.
LEMMA TurnKeeps ==
    ASSUME NEW d, NEW g, NEW ls, NEW ms, NEW j \in Instances, NEW t,
           Turn(d, g, ls, j, t),
           \A k \in Instances :
               ConsumerOf[k] = ConsumerOf[j] /\ ls[k].status = "active"
                   => ms[k].status = "active" /\ ms[k].started = ls[k].started
    PROVE  Turn(d, g, ms, j, t)
BY DEF Turn

\* A turn that no lease of its own gives is any lease's of the consumer.
LEMMA TurnShared ==
    ASSUME NEW d, NEW g, NEW ls, NEW j \in Instances, NEW m \in Instances, NEW t,
           Turn(d, g, ls, m, t), ConsumerOf[m] = ConsumerOf[j],
           Strategy = "consumer" \/ ls[m].status # "active"
    PROVE  Turn(d, g, ls, j, t)
BY DEF Turn

\* A consumer the accumulator has counted holds a slot that was visited.
LEMMA CountedHolds ==
    ASSUME TypeInv, TallyInv, step = "pass1", NEW c \in Consumers
    PROVE  /\ c \in Counted(acc) => \E m \in Held(leases) : ConsumerOf[m] = c
           /\ acc.released[c] > 0 =>
                 \E m \in Held(leases) : ConsumerOf[m] = c /\ leases[m].status = "released"
<1>1. /\ acc.consumed[c] \in Nat /\ acc.replacements[c] \in Nat /\ acc.released[c] \in Nat
      /\ Cardinality(SeenBy(c)) \in Nat /\ Cardinality(SeenReleased(c)) \in Nat
  BY CounterTypes, TallyFinite DEF TypeInv, TypeOK
<1>2. /\ acc.consumed[c] + acc.replacements[c] = Cardinality(SeenBy(c)) + Cardinality(WaitingBy(c))
      /\ acc.replacements[c] = Cardinality(WaitingBy(c))
      /\ acc.released[c] + acc.replacements[c] = Cardinality(SeenReleased(c))
  BY DEF TallyInv
<1>3. acc.consumed[c] > 0 => SeenBy(c) # {}
  <2>1. acc.consumed[c] = Cardinality(SeenBy(c))
    BY <1>1, <1>2
  <2>2. SeenBy(c) = {} => Cardinality(SeenBy(c)) = 0
    BY FS_EmptySet
  <2> QED BY <2>1, <2>2
<1>4. acc.released[c] > 0 => SeenReleased(c) # {}
  <2>1. acc.released[c] > 0 => Cardinality(SeenReleased(c)) # 0
    BY <1>1, <1>2
  <2>2. SeenReleased(c) = {} => Cardinality(SeenReleased(c)) = 0
    BY FS_EmptySet
  <2> QED BY <2>1, <2>2
<1> QED BY <1>3, <1>4 DEF Counted, SeenBy, SeenReleased, Seen

\* A visit serves in turn: a lease is activated only when none that waits has
\* started earlier, or in the place of a lease whose turn it was.
LEMMA TurnVisit ==
    ASSUME TypeInv, ExactInv, CountInv, NEW i \in todo, Visits(i),
           EngineSound, EngineOrigin, EngineFresh, EngineFull, EngineTurn
    PROVE  EngineTurn'
<1>0. /\ i \in Instances /\ step = "pass1" /\ step' = "pass1" /\ First(i)
      /\ Call' = Call /\ at' = at /\ again' = again
      /\ leases \in LeaseSet /\ acc \in AccumulatorType
      /\ replacements \in Seq([inst : Instances, lease : LeaseType])
  BY VisitFacts
<1>1. \A j \in Instances \ {i} : leases'[j] = leases[j]
  BY VisitCases
<1>2. SUFFICES ASSUME NEW n \in Instances, NEW j \in Instances,
                      leases'[n].status = "queued", HeldBy(Call.base, ConsumerOf[j]) = {},
                      j \in Held(leases') \/ j \in Waiting'
               PROVE  Turn(Call, again, leases', j, leases'[n].started)
  BY <1>0 DEF EngineTurn
<1> DEFINE c == ConsumerOf[j]
<1>3. c \in Consumers /\ TallyInv
  BY <1>0, ConsumerAssumption DEF ExactInv
<1>4. ASSUME NEW k \in Instances, ConsumerOf[k] = c, leases[k].status = "active"
      PROVE  leases'[k].status = "active" /\ leases'[k].started = leases[k].started
  <2>1. CASE k # i
    BY <1>1, <1>4, <2>1
  <2>2. CASE k = i
    <3>1. again
      <4>1. SUFFICES ASSUME ~again PROVE FALSE
        OBVIOUS
      <4>2. leases[k] = Call.base[k]
        BY <1>0, <2>2, <4>1 DEF EngineOrigin
      <4>3. k \in HeldBy(Call.base, c)
        BY <1>4, <4>2 DEF HeldBy, Held, Consumptive
      <4> QED BY <1>2, <4>3
    <3>2. ~Decayed(leases[i], at) /\ ~Expired(leases[i], at)
      BY <1>0, <1>4, <2>2, <3>1 DEF EngineFresh, Held, Consumptive
    <3>3. Stands(i)
      BY <1>4, <2>2, <3>2, VisitCases DEF Drops, Expires, StepsAside, Activates, StaysQueued
    <3> QED BY <2>2, <3>3, <1>4 DEF Stands
  <2> QED BY <2>1, <2>2
<1>5. leases[n].status = "queued" /\ leases'[n] = leases[n]
  <2>1. CASE n # i
    BY <1>1, <1>2, <2>1
  <2>2. CASE n = i
    <3>1. ~Drops(i) /\ ~StepsAside(i)
      BY <1>2, <2>2 DEF Drops, StepsAside, NoLease
    <3>2. ~Expires(i) /\ ~Stands(i) /\ ~Activates(i)
      BY <1>2, <2>2 DEF Expires, Stands, Activates, Consumptive
    <3> QED BY <1>2, <2>2, <3>1, <3>2, VisitCases DEF StaysQueued
  <2> QED BY <2>1, <2>2
\* A turn before the visit is one after it.
<1>6. ASSUME Turn(Call, again, leases, j, leases[n].started)
      PROVE  Turn(Call, again, leases', j, leases'[n].started)
  BY <1>4, <1>5, <1>6, TurnKeeps
<1>7. CASE j \in Held(leases) \/ j \in Waiting
  BY <1>2, <1>5, <1>6, <1>7 DEF EngineTurn
<1>8. CASE j \notin Held(leases) /\ j \notin Waiting /\ StepsAside(i)
  <2>1. j = i
    <3> DEFINE e == [inst |-> i, lease |-> leases[i]]
    <3>1. e \in [inst : Instances, lease : LeaseType] /\ e.inst = i
      BY <1>0 DEF LeaseSet
    <3>2. replacements' = Append(replacements, e) /\ leases'[i] = NoLease
      BY <1>8 DEF StepsAside
    <3> HIDE DEF e
    <3>3. \A k \in 1..Len(replacements') :
              replacements'[k] = e \/ (k \in 1..Len(replacements) /\ replacements'[k] = replacements[k])
      BY <1>0, <3>1, <3>2
    <3>4. j \in Waiting' => j = i
      BY <1>8, <3>1, <3>3 DEF Waiting
    <3>5. j \in Held(leases') => j = i
      BY <1>1, <1>8 DEF Held
    <3> QED BY <1>2, <3>4, <3>5
  <2>2. acc.released[c] > 0
    BY <1>8, <2>1 DEF StepsAside
  <2> PICK m \in Held(leases) : ConsumerOf[m] = c /\ leases[m].status = "released"
    BY <1>0, <1>3, <2>2, CountedHolds
  <2>3. m \in Instances /\ Turn(Call, again, leases, m, leases[n].started)
    BY <1>2, <1>5 DEF EngineTurn, Held
  <2> QED BY <1>6, <2>3, TurnShared
<1>9. CASE j \notin Held(leases) /\ j \notin Waiting /\ ~StepsAside(i)
  <2>1. replacements' = replacements
    BY <1>9, VisitCases DEF Drops, Expires, Stands, Activates, StaysQueued
  <2>2. j \in Held(leases')
    BY <1>2, <1>9, <2>1 DEF Waiting
  <2>3. j = i /\ Consumptive(leases'[i]) /\ ~Consumptive(leases[i])
    BY <1>1, <1>9, <2>2 DEF Held
  <2>4. Activates(i)
    <3>1. ~Drops(i)
      BY <2>3 DEF Drops, NoLease, Consumptive
    <3> QED BY <1>9, <2>3, <3>1, VisitCases DEF Expires, Stands, StaysQueued, Consumptive
  <2>5. leases[i].policy.limit = Capacity /\ leases[i].status = "queued"
    BY <1>0, <2>4 DEF Activates, EngineSound, Sound, SoundLease
  <2>6. /\ Capacity \in Nat /\ Total(acc) \in Nat /\ acc.active[c] \in Nat
        /\ leases[i].started \in Nat /\ leases[n].started \in Nat
    BY <1>0, <1>3, CapacityAssumption, TotalGrows, CounterTypes DEF LeaseSet, LeaseType
  <2>7. CASE Total(acc) < Capacity
    <3>1. n \in todo /\ n # i
      BY <1>0, <1>2, <1>5, <2>4, <2>6, <2>7 DEF EngineFull, Activates
    <3>2. leases[i].started <= leases[n].started
      BY <1>0, <1>5, <2>5, <2>6, <3>1 DEF First, Less
    <3>3. leases'[i].status = "active" /\ leases'[i].started <= leases'[n].started
      BY <1>5, <2>4, <3>2 DEF Activates, SameGrant
    <3> QED BY <1>0, <2>3, <3>3 DEF Turn
  <2>8. CASE ~(Total(acc) < Capacity)
    <3>1. Strategy = "consumer" /\ acc.active[c] > 0
      BY <2>3, <2>4, <2>5, <2>6, <2>8 DEF Activates, CanActivate
    <3>2. c \in Counted(acc)
      BY <1>3, <3>1 DEF CountInv
    <3> PICK m \in Held(leases) : ConsumerOf[m] = c
      BY <1>0, <1>3, <3>2, CountedHolds
    <3>3. m \in Instances /\ Turn(Call, again, leases, m, leases[n].started)
      BY <1>2, <1>5 DEF EngineTurn, Held
    <3> QED BY <1>6, <3>1, <3>3, TurnShared
  <2> QED BY <2>7, <2>8
<1> QED BY <1>7, <1>8, <1>9

\* A replacement is stored for a lease whose turn it was.
LEMMA TurnReplace ==
    ASSUME TypeInv, ExactInv, NEW i \in todo, ReplaceReleased(i), EngineTurn
    PROVE  EngineTurn'
<1>1. PICK q \in Instances :
          /\ q = replacements[1].inst /\ leases[q].status = "none" /\ q # i
          /\ leases'[q].status = "active" /\ leases'[i] = NoLease
          /\ \A j \in Instances \ {i, q} : leases'[j] = leases[j]
  BY ReplaceFacts
<1>2. /\ i \in Instances /\ leases[i].status = "released"
      /\ Call' = Call /\ at' = at /\ again' = again
      /\ 1 \in 1..Len(replacements)
      /\ \A k \in 1..Len(replacements') : /\ replacements'[k] = replacements[k + 1]
                                           /\ k + 1 \in 1..Len(replacements)
  BY ReplaceFacts
<1>3. q \in Waiting /\ Waiting' \subseteq Waiting
  BY <1>1, <1>2 DEF Waiting
<1>4. SUFFICES ASSUME NEW n \in Instances, NEW j \in Instances,
                      leases'[n].status = "queued", HeldBy(Call.base, ConsumerOf[j]) = {},
                      j \in Held(leases') \/ j \in Waiting'
               PROVE  Turn(Call, again, leases', j, leases'[n].started)
  BY <1>2 DEF EngineTurn
<1>5. leases[n].status = "queued" /\ leases'[n] = leases[n]
  BY <1>1, <1>4 DEF NoLease
<1>6. j \in Held(leases) \/ j \in Waiting
  BY <1>1, <1>3, <1>4 DEF Held, NoLease, Consumptive
<1>7. Turn(Call, again, leases, j, leases[n].started)
  BY <1>4, <1>5, <1>6 DEF EngineTurn
<1>8. \A k \in Instances : leases[k].status = "active"
          => leases'[k].status = "active" /\ leases'[k].started = leases[k].started
  BY <1>1, <1>2
<1> QED BY <1>5, <1>7, <1>8, TurnKeeps

\* All of it through the passes of Refresh.
LEMMA ServeRefreshStep ==
    ASSUME TypeInv, ExactInv, LimitInv, RefreshStep, EngineServes
    PROVE  EngineServes'
<1>0. step \in {"pass1", "pass2"}
  BY RefreshStep DEF RefreshStep, RefreshDecayed, RefreshExpired, RefreshHeld, RefreshQueueExpired,
     RefreshReplace, RefreshQueued, ReplaceReleased, EndPass1, EndPass2, Visit
<1>1. /\ EngineSound /\ EngineSlots /\ EngineTurn /\ EngineOrigin /\ EngineFresh /\ EngineFull
      /\ again => Call.op = "release"
      /\ CountInv
  BY <1>0 DEF EngineServes, LimitInv
<1>2. ASSUME NEW i \in todo, Visits(i) PROVE EngineServes'
  <2>1. step' = "pass1" /\ Call' = Call /\ again' = again
    BY <1>2, VisitFacts
  <2> QED BY <1>1, <1>2, <2>1, SoundVisit, OriginVisit, FullVisit, SlotsVisit, TurnVisit
          DEF EngineServes
<1>3. ASSUME NEW i \in todo, ReplaceReleased(i) PROVE EngineServes'
  <2>1. step' = "pass2" /\ Call' = Call /\ again' = again
    BY <1>3, ReplaceFacts
  <2> QED BY <1>1, <1>3, <2>1, SoundReplace, OriginReplace, FullReplace, SlotsReplace, TurnReplace
          DEF EngineServes
<1>4. CASE EndPass1 \/ EndPass2
  <2>1. /\ UNCHANGED <<leases, acc, replacements>>
        /\ Call' = Call /\ at' = at /\ again' = again /\ now' = now
        /\ Seen = Held(leases) /\ Seen' = Held(leases) /\ Waiting' = Waiting
        /\ step \in {"pass1", "pass2"} /\ step' \in {"pass2", "decide", "finish"}
        /\ step' = "decide" => Call.op = "acquire" \/ ~again
    BY <1>4, PassEnds
  <2>2. EngineSound'
    BY <1>1, <2>1 DEF EngineSound, Sound, SoundLease
  <2>3. EngineTurn'
    BY <1>1, <2>1 DEF EngineTurn
  <2>4. EngineFresh'
    BY <1>1, <2>1 DEF EngineFresh
  <2>5. EngineOrigin'
    BY <1>1, <2>1 DEF EngineOrigin
  <2> QED BY <1>1, <1>4, <2>1, <2>2, <2>3, <2>4, <2>5, FullEnd, SlotsEnd DEF EngineServes
<1> QED BY <1>2, <1>3, <1>4, RefreshStep DEF RefreshStep, Visits

-----------------------------------------------------------------------------
(* The beginning of a transaction, and what follows Refresh. *)

\* A transaction starts with the viewed leases, untouched.
LEMMA ServeBegin ==
    ASSUME TypeInv, NEW x \in Handlers, Begin(x), CallServes(calls[x])
    PROVE  EngineServes'
<1> DEFINE c == calls[x]
           d == Computing(c, now)
<1>1. c \in CallType /\ now \in Nat
  BY DEF TypeInv, TypeOK
<1>2. d.base = c.base /\ d.at = now
  BY <1>1, ComputingType
<1>3. /\ calls' = [calls EXCEPT ![x] = d] /\ cur' = x /\ again' = FALSE /\ now' = now
      /\ StartRefresh(c.base)
  BY DEF Begin
<1> HIDE DEF d
<1>4. Call' = d /\ at' = now /\ Call'.base = c.base
  BY <1>2, <1>3 DEF Call, at, TypeInv, TypeOK
<1>5. /\ leases' = c.base /\ step' = "pass1" /\ todo' = Present(c.base)
      /\ replacements' = <<>> /\ Len(replacements') = 0
  BY <1>3 DEF StartRefresh
<1>6. Seen' = {} /\ Waiting' = {}
  BY <1>5 DEF Seen, Held, Present, Consumptive, Waiting
<1>7. EngineSound'
  <2>1. Sound(c.base, now)
    BY DEF CallServes
  <2> QED BY <1>3, <1>4, <1>5, <1>1, <2>1 DEF EngineSound, Sound
<1>8. EngineSlots'
  <2>1. \A k : IsFiniteSet(Gone(k)') /\ Cardinality(Gone(k)') \in Nat
    <3>1. \A k : Gone(k)' \subseteq Instances
      BY DEF Gone, Ended, HeldBy, Held
    <3> QED BY <3>1, InstancesFinite, FS_Subset, FS_CardinalityType
  <2>2. \A k : Cardinality(HeldBy(c.base, k)) \in Nat
    BY SlotsFinite
  <2> QED BY <1>4, <1>5, <2>1, <2>2 DEF EngineSlots
<1>9. EngineTurn'
  <2>1. \A j \in Instances : j \in Held(leases') => j \in HeldBy(c.base, ConsumerOf[j])
    BY <1>5 DEF HeldBy
  <2> QED BY <1>4, <1>6, <2>1 DEF EngineTurn
<1>10. EngineOrigin' /\ EngineFresh'
  BY <1>3, <1>4, <1>5, <1>6 DEF EngineOrigin, EngineFresh
<1>11. EngineFull'
  BY <1>5 DEF EngineFull, Present
<1> QED BY <1>3, <1>5, <1>7, <1>8, <1>9, <1>10, <1>11 DEF EngineServes

\* A lease that is not decaying does not decay by its release at time t.
LEMMA ReleaseDecay ==
    ASSUME NEW l \in LeaseType, NEW m \in LeaseType, NEW t \in Nat,
           m.renewed = l.renewed, m.policy = l.policy, m.released = t, ~Expired(l, t)
    PROVE  ~Decayed(m, t)
<1>1. l.renewed \in Nat /\ l.policy.duration \in Nat /\ l.policy.decay \in Nat
  BY DEF LeaseType, Policy
<1> QED BY <1>1 DEF Expired, Decayed, DecayTime, ExpirationTime

\* A release leaves a decaying lease, or ends one that was decaying, and its
\* second Refresh serves as the first has.
LEMMA ServeRelease ==
    ASSUME TypeInv, ExactInv, Release, EngineServes
    PROVE  EngineServes'
<1> DEFINE i == Call.inst
           l == Released(leases[i])
           ls == [leases EXCEPT ![i] = l]
<1>1. step = "decide" /\ Call.op = "release"
  BY DEF Release, Deciding
<1>2. /\ i \in Instances /\ leases \in LeaseSet /\ leases[i] \in LeaseType /\ at \in Nat
      /\ acc \in AccumulatorType /\ Call \in CallType
  BY <1>1, TypeCall DEF TypeInv, TypeOK, LeaseSet
<1>3. /\ EngineSound /\ EngineSlots /\ EngineTurn /\ EngineOrigin /\ EngineFresh /\ ~again
      /\ Seen = Held(leases)
  BY <1>1 DEF EngineServes, EngineOrigin, Seen
<1>4. /\ leases[i].status = "active" =>
            /\ l.status = "released" /\ l.released = at /\ l.started = leases[i].started
            /\ l.renewed = leases[i].renewed /\ l.policy = leases[i].policy /\ l \in LeaseType
      /\ leases[i].status # "active" => l = NoLease
  BY <1>2 DEF Released, LeaseType, Statuses
<1>5. /\ leases' = ls /\ step' = "pass1" /\ todo' = Present(ls)
      /\ replacements' = <<>> /\ Len(replacements') = 0
      /\ again' = TRUE /\ Call' = Call /\ at' = at /\ now' = now
  BY DEF Release, StartRefresh, shared, Call, at
<1> HIDE DEF l
<1>6. leases'[i] = l /\ \A j \in Instances \ {i} : leases'[j] = leases[j]
  BY <1>2, <1>5 DEF LeaseSet
<1> HIDE DEF ls
<1>7. Waiting' = {}
  BY <1>5 DEF Waiting
<1>8. EngineSound'
  <2>1. SoundLease(leases[i], at)
    BY <1>2, <1>3 DEF EngineSound, Sound
  <2>2. SoundLease(l, at)
    BY <1>4, <2>1 DEF SoundLease, NoLease
  <2> QED BY <1>3, <1>5, <1>6, <2>2 DEF EngineSound, Sound
<1>9. EngineSlots'
  <2> SUFFICES ASSUME NEW c \in Consumers
               PROVE  Cardinality(HeldBy(Call.base, c))
                          <= Cardinality(Gone(c)') + Cardinality(HeldBy(leases', c))
    BY <1>5 DEF EngineSlots
  <2>1. /\ Cardinality(HeldBy(Call.base, c)) \in Nat
        /\ Cardinality(HeldBy(Call.base, c)) <= Cardinality(Gone(c)) + Cardinality(HeldBy(leases, c))
    BY <1>1, <1>3, SlotsFinite DEF EngineSlots
  <2>2. Gone(c) \subseteq Gone(c)' /\ Gone(c)' = Ended(Call, c)
    BY <1>5 DEF Gone
  <2>3. CASE leases[i].status # "released" \/ ConsumerOf[i] # c
    <3>1. HeldBy(leases, c) \subseteq HeldBy(leases', c)
      <4>1. ASSUME NEW j \in HeldBy(leases, c) PROVE j \in HeldBy(leases', c)
        <5>1. j \in Instances /\ Consumptive(leases[j]) /\ ConsumerOf[j] = c
          BY <4>1 DEF HeldBy, Held
        <5>2. Consumptive(leases'[j])
          BY <1>4, <1>6, <2>3, <5>1 DEF Consumptive
        <5> QED BY <5>1, <5>2 DEF HeldBy, Held
      <4> QED BY <4>1
    <3>2. IsFiniteSet(HeldBy(leases', c)) /\ IsFiniteSet(Gone(c)')
      BY <2>2, SlotsFinite
    <3>3. /\ Cardinality(HeldBy(leases, c)) <= Cardinality(HeldBy(leases', c))
          /\ Cardinality(Gone(c)) <= Cardinality(Gone(c)')
          /\ Cardinality(HeldBy(leases, c)) \in Nat /\ Cardinality(HeldBy(leases', c)) \in Nat
          /\ Cardinality(Gone(c)) \in Nat /\ Cardinality(Gone(c)') \in Nat
      BY <2>2, <3>1, <3>2, CardSub
    <3> QED BY <2>1, <3>3
  <2>4. CASE leases[i].status = "released" /\ ConsumerOf[i] = c
    <3>1. i \in HeldBy(leases, c) /\ HeldBy(leases', c) = HeldBy(leases, c) \ {i}
      <4>1. ~Consumptive(leases'[i]) /\ Consumptive(leases[i])
        BY <1>4, <1>6, <2>4 DEF NoLease, Consumptive
      <4> QED BY <1>2, <1>6, <2>4, <4>1 DEF HeldBy, Held
    <3>2. /\ i \in Held(Call.base) /\ ~Decayed(Call.base[i], at)
          /\ Call.base[i].status = "released" \/ Expired(Call.base[i], at)
      BY <1>3, <2>4, <3>1 DEF EngineOrigin, HeldBy
    <3>3. i \in Gone(c)' /\ i \notin Gone(c)
      <4>1. at = Call.at
        BY DEF at, Call
      <4>2. i \in Ended(Call, c)
        BY <1>1, <2>4, <3>2, <4>1 DEF Ended, HeldBy
      <4> QED BY <1>3, <2>2, <3>2, <4>2 DEF Gone
    <3>4. /\ Cardinality(HeldBy(leases', c)) = Cardinality(HeldBy(leases, c)) - 1
          /\ Cardinality(HeldBy(leases, c)) \in Nat
      BY <3>1, SlotsFinite, CardLess
    <3>5. /\ Cardinality(Gone(c) \cup {i}) = Cardinality(Gone(c)) + 1 /\ Cardinality(Gone(c)) \in Nat
          /\ IsFiniteSet(Gone(c)')
      BY <2>2, <3>3, SlotsFinite, CardNew
    <3>6. Cardinality(Gone(c) \cup {i}) <= Cardinality(Gone(c)') /\ Cardinality(Gone(c)') \in Nat
      BY <2>2, <3>3, <3>5, CardSub
    <3> QED BY <2>1, <3>4, <3>5, <3>6
  <2> QED BY <2>3, <2>4
<1>10. EngineTurn'
  <2> SUFFICES ASSUME NEW n \in Instances, NEW j \in Instances,
                      leases'[n].status = "queued", HeldBy(Call.base, ConsumerOf[j]) = {},
                      j \in Held(leases')
               PROVE  Turn(Call, TRUE, leases', j, leases'[n].started)
    BY <1>5, <1>7 DEF EngineTurn
  <2>1. leases'[n] = leases[n] /\ leases[n].status = "queued"
    BY <1>4, <1>6 DEF NoLease
  <2>2. j \in Held(leases)
    BY <1>4, <1>6 DEF Held, Consumptive, NoLease
  <2>3. Turn(Call, again, leases, j, leases[n].started)
    BY <1>3, <2>1, <2>2 DEF EngineTurn
  <2> PICK k \in Instances :
        /\ ConsumerOf[k] = ConsumerOf[j] /\ (Strategy = "consumer" \/ k = j)
        /\ leases[k].status = "active" /\ leases[k].started <= leases[n].started
    BY <1>3, <2>3 DEF Turn
  <2>4. CASE k # i
    <3>1. leases'[k] = leases[k]
      BY <1>6, <2>4
    <3> QED BY <2>1, <3>1 DEF Turn
  <2>5. CASE k = i
    <3>1. k \notin Held(Call.base) /\ k \in Held(leases)
      BY DEF HeldBy, Held, Consumptive
    <3>2. Call.base[k].status = "queued" /\ Call.base[k].started = leases[k].started
      BY <1>3, <3>1 DEF EngineOrigin
    <3> QED BY <2>1, <2>5, <3>2 DEF Turn
  <2> QED BY <2>4, <2>5
<1>11. EngineFresh'
  <2> SUFFICES ASSUME NEW j \in Held(leases')
               PROVE  /\ ~Decayed(leases'[j], at)
                      /\ leases'[j].status = "active" => ~Expired(leases'[j], at)
    BY <1>5 DEF EngineFresh
  <2>1. j \in Instances /\ j \in Held(leases)
    BY <1>4, <1>6 DEF Held, Consumptive, NoLease
  <2>2. ~Decayed(leases[j], at) /\ (leases[j].status = "active" => ~Expired(leases[j], at))
    BY <1>3, <2>1 DEF EngineFresh
  <2>3. CASE j # i
    BY <1>6, <2>1, <2>2, <2>3
  <2>4. CASE j = i
    <3>1. leases[i].status = "active"
      BY <1>4, <1>6, <2>4 DEF Held, Consumptive, NoLease
    <3>2. ~Decayed(l, at)
      BY <1>2, <1>4, <2>2, <2>4, <3>1, ReleaseDecay
    <3> QED BY <1>4, <1>6, <2>4, <3>1, <3>2
  <2> QED BY <2>3, <2>4
<1>12. EngineOrigin' /\ EngineFull'
  BY <1>5 DEF EngineOrigin, EngineFull, Present
<1> QED BY <1>1, <1>5, <1>8, <1>9, <1>10, <1>11, <1>12 DEF EngineServes

\* A lease set that holds more slots uses no less.
LEMMA UsedGrows ==
    ASSUME NEW ls, NEW ms, Held(ls) \subseteq Held(ms)
    PROVE  Used(ls) <= Used(ms)
<1>1. Holders(ls) \subseteq Holders(ms)
  BY DEF Holders
<1>2. /\ Cardinality(Holders(ls)) <= Cardinality(Holders(ms))
      /\ Cardinality(Held(ls)) <= Cardinality(Held(ms))
  BY <1>1, HeldFinite, CardSub
<1> QED BY <1>2 DEF Used

\* What every decision of acquire starts from.
LEMMA AcquireFacts ==
    ASSUME TypeInv, ExactInv, LimitInv, CallServes(Call), EngineServes, Deciding("acquire")
    PROVE  /\ Call.inst \in Instances /\ leases \in LeaseSet /\ acc \in AccumulatorType
           /\ Call \in CallType /\ at \in Nat /\ ~again /\ Waiting = {} /\ Seen = Held(leases)
           /\ Call.policy.limit = Capacity /\ Capacity \in Nat
           /\ Total(acc) = Used(leases) /\ Used(leases) <= Capacity /\ Used(leases) \in Nat
           /\ EngineSound /\ EngineSlots /\ EngineTurn /\ EngineOrigin /\ Full(leases)
           /\ \A s \in {"active", "queued"} :
                 /\ SoundLease(NewLease(s), at)
                 /\ NewLease(s).status = s /\ NewLease(s).started = at
<1>1. step = "decide" /\ Call.op = "acquire"
  BY DEF Deciding
<1>2. /\ EngineSound /\ EngineSlots /\ EngineTurn /\ EngineOrigin /\ Full(leases) /\ ~again
      /\ Seen = Held(leases)
  BY <1>1 DEF EngineServes, EngineOrigin, EngineFull, Seen
<1>3. Call.inst \in Instances /\ Call \in CallType /\ at \in Nat
  BY <1>1, TypeCall
<1>4. Call.policy.limit = Capacity /\ Capacity \in Nat /\ Used(leases) <= Capacity
      /\ Used(leases) \in Nat
  BY <1>1, CapacityAssumption, HeldFinite DEF CallServes, LimitInv, Good
<1>5. /\ leases \in LeaseSet /\ acc \in AccumulatorType
  BY DEF TypeInv, TypeOK
<1>6. ASSUME NEW s \in {"active", "queued"}
      PROVE  /\ SoundLease(NewLease(s), at)
             /\ NewLease(s).status = s /\ NewLease(s).started = at
  BY <1>3, <1>4 DEF SoundLease, NewLease
<1> QED BY <1>1, <1>2, <1>3, <1>4, <1>5, <1>6, DecideCounts

\* What a decision of acquire has to show of the leases it writes.
LEMMA ServeDecided ==
    ASSUME TypeInv, ExactInv, EngineServes, step = "decide", Decided,
           Sound(leases', at), Full(leases'),
           \A c \in Consumers : Cardinality(HeldBy(leases, c)) <= Cardinality(HeldBy(leases', c)),
           \A n, j \in Instances :
               /\ leases'[n].status = "queued"
               /\ HeldBy(Call.base, ConsumerOf[j]) = {}
               /\ j \in Held(leases')
               => Turn(Call, again, leases', j, leases'[n].started)
    PROVE  EngineServes'
<1>1. /\ step' = "finish" /\ Call' = Call /\ at' = at /\ again' = again /\ now' = now
      /\ replacements' = replacements
  BY DEF Decided, shared, Call, at
<1>2. /\ EngineSound /\ EngineSlots /\ Waiting = {} /\ (again => Call.op = "release")
  BY DecideCounts DEF EngineServes
<1>3. EngineSound'
  BY <1>1, <1>2 DEF EngineSound, Sound
<1>4. EngineSlots'
  <2> SUFFICES ASSUME NEW c \in Consumers
               PROVE  Cardinality(HeldBy(Call.base, c))
                          <= Cardinality(Gone(c)) + Cardinality(HeldBy(leases', c))
    <3>1. \A c : Gone(c)' = Gone(c)
      BY <1>1 DEF Gone
    <3> QED BY <1>1, <3>1 DEF EngineSlots
  <2>1. /\ Cardinality(HeldBy(Call.base, c)) <= Cardinality(Gone(c)) + Cardinality(HeldBy(leases, c))
        /\ Cardinality(HeldBy(leases, c)) <= Cardinality(HeldBy(leases', c))
    BY <1>2 DEF EngineSlots
  <2>2. /\ Cardinality(HeldBy(Call.base, c)) \in Nat /\ Cardinality(HeldBy(leases, c)) \in Nat
        /\ Cardinality(Gone(c)) \in Nat /\ Cardinality(HeldBy(leases', c)) \in Nat
    BY SlotsFinite
  <2> QED BY <2>1, <2>2
<1>5. EngineTurn'
  <2>1. Waiting' = {}
    BY <1>1, <1>2 DEF Waiting
  <2> QED BY <1>1, <2>1 DEF EngineTurn
<1>6. EngineFull'
  <2>1. Full(leases)'
    BY DEF Full
  <2> QED BY <1>1, <2>1 DEF EngineFull
<1> QED BY <1>1, <1>2, <1>3, <1>4, <1>5, <1>6 DEF EngineServes

\* Where no slot is given up, no consumer has fewer.
LEMMA HeldGrows ==
    ASSUME NEW ls, NEW ms, Held(ls) \subseteq Held(ms), NEW c
    PROVE  Cardinality(HeldBy(ls, c)) <= Cardinality(HeldBy(ms, c))
<1>1. HeldBy(ls, c) \subseteq HeldBy(ms, c)
  BY DEF HeldBy
<1> QED BY <1>1, SlotsFinite, CardSub

\* An instance whose lease is decaying gets a new, active one in its place,
\* and a renewal leaves the lease its place: nobody's turn changes.
LEMMA ServeRenew ==
    ASSUME TypeInv, ExactInv, LimitInv, CallServes(Call), EngineServes,
           AcquireReleased \/ AcquireRenew
    PROVE  EngineServes'
<1> DEFINE q == Call.inst
<1>1. Deciding("acquire") /\ step = "decide" /\ Decided
  BY DEF AcquireReleased, AcquireRenew, Deciding
<1>2. /\ q \in Instances /\ leases \in LeaseSet /\ at \in Nat
      /\ ~again /\ Seen = Held(leases) /\ Call.policy.limit = Capacity
      /\ Total(acc) <= Capacity
      /\ EngineSound /\ EngineTurn /\ EngineOrigin /\ Full(leases)
      /\ SoundLease(NewLease("active"), at)
      /\ NewLease("active").status = "active" /\ NewLease("active").started = at
  BY <1>1, AcquireFacts
<1>3. \E l : /\ leases' = [leases EXCEPT ![q] = l] /\ SoundLease(l, at)
             /\ \/ l.status = "active" /\ leases[q].status = "released"
                \/ /\ l.status = leases[q].status /\ l.started = leases[q].started
                   /\ l.status \in {"active", "queued"}
  <2>1. CASE AcquireReleased
    <3>1. leases' = [leases EXCEPT ![q] = NewLease("active")] /\ leases[q].status = "released"
      BY <1>2, <2>1 DEF AcquireReleased, Update
    <3> QED BY <1>2, <3>1
  <2>2. CASE AcquireRenew
    <3> DEFINE s == leases[q].status
               l == [NewLease(s) EXCEPT !.started = leases[q].started]
    <3>1. /\ leases' = [leases EXCEPT ![q] = l] /\ s \in {"active", "queued"}
      BY <2>2 DEF AcquireRenew, Update
    <3>2. SoundLease(leases[q], at)
      BY <1>2 DEF EngineSound, Sound
    <3>3. /\ l.status = s /\ l.started = leases[q].started /\ l.released = 0
          /\ l.policy = Call.policy
      BY DEF NewLease
    <3> HIDE DEF l
    <3>4. SoundLease(l, at)
      BY <1>2, <3>1, <3>2, <3>3 DEF SoundLease
    <3> QED BY <3>1, <3>3, <3>4
  <2> QED BY <2>1, <2>2
<1> PICK l : /\ leases' = [leases EXCEPT ![q] = l] /\ SoundLease(l, at)
             /\ \/ l.status = "active" /\ leases[q].status = "released"
                \/ /\ l.status = leases[q].status /\ l.started = leases[q].started
                   /\ l.status \in {"active", "queued"}
  BY <1>3
<1>4. leases'[q] = l /\ \A j \in Instances \ {q} : leases'[j] = leases[j]
  BY <1>2 DEF LeaseSet
<1>5. Sound(leases', at)
  BY <1>2, <1>4 DEF EngineSound, Sound
<1>6. Held(leases') = Held(leases)
  BY <1>2, <1>4 DEF Held, Consumptive
<1>7. \A n \in Instances : leases'[n].status = "queued" =>
          leases[n].status = "queued" /\ leases'[n].started = leases[n].started
  BY <1>4
<1>8. Full(leases')
  <2>1. Used(leases') = Used(leases)
    BY <1>6 DEF Used, Holders
  <2> QED BY <1>2, <1>7, <2>1 DEF Full
<1>9. ASSUME NEW n \in Instances, NEW j \in Instances, leases'[n].status = "queued",
             HeldBy(Call.base, ConsumerOf[j]) = {}, j \in Held(leases')
      PROVE  Turn(Call, again, leases', j, leases'[n].started)
  <2>1. Turn(Call, again, leases, j, leases[n].started)
    BY <1>2, <1>6, <1>7, <1>9 DEF EngineTurn
  <2>2. ASSUME NEW k \in Instances, ConsumerOf[k] = ConsumerOf[j], leases[k].status = "active"
        PROVE  leases'[k].status = "active" /\ leases'[k].started = leases[k].started
    BY <1>4, <2>2
  <2> QED BY <1>7, <1>9, <2>1, <2>2, TurnKeeps
<1>10. \A c \in Consumers : Cardinality(HeldBy(leases, c)) <= Cardinality(HeldBy(leases', c))
  BY <1>6, HeldGrows
<1> QED BY <1>1, <1>5, <1>8, <1>9, <1>10, ServeDecided

\* A new lease in the place of a decaying one of the same consumer.
LEMMA ServeReplace ==
    ASSUME TypeInv, ExactInv, LimitInv, CallServes(Call), EngineServes, AcquireReplace
    PROVE  EngineServes'
<1> DEFINE q == Call.inst
           l == NewLease("active")
<1>1. Deciding("acquire") /\ step = "decide" /\ Decided /\ leases[q].status = "none"
  BY DEF AcquireReplace, Deciding
<1>2. /\ q \in Instances /\ leases \in LeaseSet
      /\ ~again /\ Seen = Held(leases)
      /\ EngineSound /\ EngineTurn /\ EngineOrigin /\ Full(leases)
      /\ SoundLease(l, at) /\ l.status = "active"
  BY <1>1, AcquireFacts
<1> PICK i \in OwnReleased : leases' = Overwrite(leases, i, q, l)
  BY DEF AcquireReplace
<1> HIDE DEF l
<1>3. /\ i \in Instances /\ i # q /\ leases[i].status = "released"
      /\ ConsumerOf[i] = ConsumerOf[q]
  BY <1>1 DEF OwnReleased
<1>4. /\ leases'[q] = l /\ leases'[i] = NoLease
      /\ \A j \in Instances \ {i, q} : leases'[j] = leases[j]
  BY <1>2, <1>3 DEF Overwrite, LeaseSet
<1>5. Sound(leases', at)
  <2>1. SoundLease(NoLease, at)
    BY DEF SoundLease, NoLease
  <2> QED BY <1>2, <1>4, <2>1 DEF EngineSound, Sound
<1>6. /\ Held(leases') = (Held(leases) \ {i}) \cup {q}
      /\ i \in Held(leases) /\ q \notin Held(leases)
  <2>1. /\ Consumptive(leases'[q]) /\ ~Consumptive(leases'[i])
        /\ Consumptive(leases[i]) /\ ~Consumptive(leases[q])
    BY <1>1, <1>2, <1>3, <1>4 DEF Consumptive, NoLease
  <2> QED BY <1>2, <1>3, <1>4, <2>1 DEF Held
\* An exchange of one member leaves the size of a finite set.
<1>7. ASSUME NEW S, IsFiniteSet(S), i \in S, q \notin S
      PROVE  Cardinality((S \ {i}) \cup {q}) = Cardinality(S)
  <2>1. /\ IsFiniteSet(S \ {i}) /\ Cardinality(S) \in Nat
        /\ Cardinality(S \ {i}) = Cardinality(S) - 1
    BY <1>7, CardLess
  <2>2. Cardinality((S \ {i}) \cup {q}) = Cardinality(S \ {i}) + 1
    BY <1>7, <2>1, CardNew
  <2> QED BY <2>1, <2>2
<1>8. ASSUME NEW c \in Consumers
      PROVE  Cardinality(HeldBy(leases, c)) = Cardinality(HeldBy(leases', c))
  <2>1. CASE c = ConsumerOf[q]
    <3>1. /\ HeldBy(leases', c) = (HeldBy(leases, c) \ {i}) \cup {q}
          /\ i \in HeldBy(leases, c) /\ q \notin HeldBy(leases, c)
      BY <1>3, <1>6, <2>1 DEF HeldBy
    <3> QED BY <1>7, <3>1, SlotsFinite
  <2>2. CASE c # ConsumerOf[q]
    <3>1. HeldBy(leases', c) = HeldBy(leases, c)
      BY <1>3, <1>6, <2>2 DEF HeldBy
    <3> QED BY <3>1
  <2> QED BY <2>1, <2>2
<1>9. Full(leases')
  <2>1. Cardinality(Held(leases')) = Cardinality(Held(leases))
    BY <1>6, <1>7, HeldFinite
  <2>2. Holders(leases') = Holders(leases)
    BY <1>3, <1>6 DEF Holders
  <2>3. Used(leases') = Used(leases)
    BY <2>1, <2>2 DEF Used
  <2>4. \A n \in Instances : leases'[n].status = "queued" => leases[n].status = "queued"
    BY <1>2, <1>4 DEF NoLease
  <2> QED BY <1>2, <2>3, <2>4 DEF Full
<1>10. ASSUME NEW n \in Instances, NEW j \in Instances, leases'[n].status = "queued",
              HeldBy(Call.base, ConsumerOf[j]) = {}, j \in Held(leases')
       PROVE  Turn(Call, again, leases', j, leases'[n].started)
  <2>1. leases[n].status = "queued" /\ leases'[n] = leases[n]
    BY <1>2, <1>4, <1>10 DEF NoLease
  <2>2. i \in HeldBy(Call.base, ConsumerOf[q])
    BY <1>2, <1>3, <1>6 DEF EngineOrigin, HeldBy
  <2>3. ConsumerOf[j] # ConsumerOf[q]
    BY <1>10, <2>2
  <2>4. j \in Held(leases)
    BY <1>6, <1>10, <2>3
  <2>5. Turn(Call, again, leases, j, leases[n].started)
    BY <1>2, <1>10, <2>1, <2>4 DEF EngineTurn
  <2>6. ASSUME NEW k \in Instances, ConsumerOf[k] = ConsumerOf[j], leases[k].status = "active"
        PROVE  leases'[k].status = "active" /\ leases'[k].started = leases[k].started
    BY <1>3, <1>4, <2>3, <2>6
  <2> QED BY <2>1, <2>5, <2>6, TurnKeeps
<1> QED
  <2>1. \A c \in Consumers : Cardinality(HeldBy(leases, c)) <= Cardinality(HeldBy(leases', c))
    BY <1>8, SlotsFinite
  <2> QED BY <1>1, <1>5, <1>9, <1>10, <2>1, ServeDecided

\* A new lease is active only when a slot is free, for which nobody waits, or
\* his consumer has one; otherwise it is the last in the queue.
LEMMA ServeCreate ==
    ASSUME TypeInv, ExactInv, LimitInv, CallServes(Call), EngineServes, AcquireCreate
    PROVE  EngineServes'
<1> DEFINE q == Call.inst
           c == ConsumerOf[q]
           may == CanActivate(Strategy, acc.active[c], Total(acc), Call.policy.limit)
           l == NewLease(IF may THEN "active" ELSE "queued")
<1>1. Deciding("acquire") /\ step = "decide" /\ Decided /\ leases[q].status = "none"
  BY DEF AcquireCreate, Deciding
<1>2. /\ q \in Instances /\ leases \in LeaseSet /\ at \in Nat
      /\ ~again /\ Seen = Held(leases) /\ Call.policy.limit = Capacity
      /\ Total(acc) = Used(leases) /\ Used(leases) <= Capacity /\ Used(leases) \in Nat
      /\ Capacity \in Nat /\ acc \in AccumulatorType
      /\ EngineSound /\ EngineTurn /\ EngineOrigin /\ Full(leases)
      /\ SoundLease(l, at) /\ l.status = (IF may THEN "active" ELSE "queued") /\ l.started = at
  BY <1>1, AcquireFacts
<1>3. leases' = [leases EXCEPT ![q] = l]
  BY DEF AcquireCreate, Update
<1>4. c \in Consumers /\ acc.active[c] \in Nat
  BY <1>2, ConsumerAssumption, CounterTypes
<1>5. may => Used(leases) < Capacity \/ (Strategy = "consumer" /\ acc.active[c] > 0)
  BY <1>2 DEF CanActivate
<1>6. ~may => Used(leases) >= Capacity
  BY <1>2 DEF CanActivate
<1> HIDE DEF l, may
<1>7. leases'[q] = l /\ \A j \in Instances \ {q} : leases'[j] = leases[j]
  BY <1>2, <1>3 DEF LeaseSet
<1>8. Sound(leases', at)
  BY <1>2, <1>7 DEF EngineSound, Sound
<1>9. /\ Held(leases) \subseteq Held(leases')
      /\ \A j \in Held(leases') : j \in Held(leases) \/ (j = q /\ may)
      /\ q \notin Held(leases)
  BY <1>1, <1>2, <1>7 DEF Held, Consumptive
<1>10. Full(leases')
  <2> SUFFICES ASSUME NEW n \in Instances, leases'[n].status = "queued"
               PROVE  Used(leases') >= Capacity
    BY DEF Full
  <2>1. Used(leases) <= Used(leases') /\ Used(leases') \in Nat
    BY <1>9, UsedGrows, HeldFinite
  <2>2. Used(leases) >= Capacity
    <3>1. CASE n = q
      BY <1>2, <1>6, <1>7, <3>1
    <3>2. CASE n # q
      BY <1>2, <1>7, <3>2 DEF Full
    <3> QED BY <3>1, <3>2
  <2> QED BY <1>2, <2>1, <2>2
<1>11. ASSUME NEW n \in Instances, NEW j \in Instances, leases'[n].status = "queued",
              HeldBy(Call.base, ConsumerOf[j]) = {}, j \in Held(leases')
       PROVE  Turn(Call, again, leases', j, leases'[n].started)
  \* The leases he already has stay.
  <2>1. \A k \in Instances : ConsumerOf[k] = ConsumerOf[j] /\ leases[k].status = "active"
            => leases'[k].status = "active" /\ leases'[k].started = leases[k].started
    BY <1>1, <1>7
  \* Behind a lease that waited before.
  <2>2. CASE n # q
    <3>1. leases'[n] = leases[n]
      BY <1>7, <2>2
    <3>2. ASSUME NEW m \in Held(leases), ConsumerOf[m] = ConsumerOf[j]
          PROVE  m \in Instances /\ Turn(Call, again, leases, m, leases[n].started)
      BY <1>2, <1>11, <3>1, <3>2 DEF EngineTurn, Held
    <3>3. CASE j \in Held(leases)
      BY <2>1, <3>1, <3>2, <3>3, TurnKeeps
    <3>4. CASE j \notin Held(leases)
      <4>1. j = q /\ may
        BY <1>9, <1>11, <3>4
      <4>2. Used(leases) >= Capacity
        BY <1>2, <1>11, <3>1 DEF Full
      <4>3. Strategy = "consumer" /\ acc.active[c] > 0
        BY <1>2, <1>5, <4>1, <4>2
      <4>4. c \in Counted(acc)
        BY <1>1, <1>4, <4>3 DEF LimitInv, CountInv
      <4>5. HeldBy(leases, c) # {}
        <5>1. acc.consumed[c] = Cardinality(HeldBy(leases, c)) /\ acc.consumed[c] > 0
          BY <1>1, <1>4, <4>4, DecideCounts DEF Counted
        <5>2. HeldBy(leases, c) = {} => Cardinality(HeldBy(leases, c)) = 0
          BY FS_EmptySet
        <5> QED BY <5>1, <5>2
      <4> PICK m \in Held(leases) : ConsumerOf[m] = c
        BY <4>5 DEF HeldBy
      <4>6. m \in Instances /\ Turn(Call, again, leases, m, leases[n].started)
        BY <3>2, <4>1
      <4>7. Turn(Call, again, leases, j, leases[n].started)
        BY <4>1, <4>3, <4>6, TurnShared
      <4> QED BY <2>1, <3>1, <4>7, TurnKeeps
    <3> QED BY <3>3, <3>4
  \* Ahead of the new lease, which is the last.
  <2>3. CASE n = q
    <3>1. ~may /\ leases'[n].started = at
      BY <1>2, <1>7, <1>11, <2>3
    <3>2. j \in Held(leases) /\ j # q /\ leases'[j] = leases[j]
      BY <1>7, <1>9, <1>11, <3>1
    <3>3. leases[j].status # "released"
      <4>1. leases[j].status = "released" => j \in HeldBy(Call.base, ConsumerOf[j])
        BY <1>2, <3>2 DEF EngineOrigin, HeldBy
      <4> QED BY <1>11, <4>1
    <3>4. leases[j].status = "active"
      BY <3>2, <3>3 DEF Held, Consumptive
    <3>5. leases[j].started <= at
      BY <1>2, <3>4 DEF EngineSound, Sound, SoundLease
    <3> QED BY <3>1, <3>2, <3>4, <3>5 DEF Turn
  <2> QED BY <2>2, <2>3
<1>12. \A k \in Consumers : Cardinality(HeldBy(leases, k)) <= Cardinality(HeldBy(leases', k))
  BY <1>9, HeldGrows
<1> QED BY <1>1, <1>8, <1>10, <1>11, <1>12, ServeDecided

\* What the transaction hands over to its commit.
LEMMA ServeFinish ==
    ASSUME TypeInv, CallServes(Call), EngineServes, Finish
    PROVE  CallServes(Computed(Call, leases, dirty))
<1> DEFINE d == Computed(Call, leases, dirty)
<1>1. /\ step = "finish" /\ Call \in CallType /\ leases \in LeaseSet /\ dirty \in BOOLEAN
      /\ at \in Nat /\ now \in Nat
  BY TypeCall DEF Finish, TypeInv, TypeOK
<1>2. /\ d.base = Call.base /\ d.result = leases /\ d.op = Call.op /\ d.inst = Call.inst
      /\ d.policy = Call.policy /\ d.at = Call.at
  BY <1>1, ComputedType
<1> HIDE DEF d
<1>3. /\ EngineSound /\ EngineSlots /\ EngineTurn /\ Full(leases)
      /\ again => Call.op = "release"
  BY <1>1 DEF EngineServes, EngineFull
<1>4. Sound(leases, now)
  <2>1. \A i \in Instances : leases[i].started \in Nat
    BY <1>1 DEF LeaseSet, LeaseType
  <2> QED BY <1>1, <1>3, <2>1 DEF EngineSound, Sound, SoundLease
<1>5. Kept(d, leases)
  <2> SUFFICES ASSUME NEW c \in Consumers
               PROVE  Cardinality(HeldBy(Call.base, c))
                          <= Cardinality(HeldBy(leases, c)) + Cardinality(Ended(d, c))
    BY <1>2 DEF Kept
  <2>1. Gone(c) \subseteq Ended(d, c)
    BY <1>2 DEF Gone, Ended
  <2>2. /\ Cardinality(Gone(c)) <= Cardinality(Ended(d, c))
        /\ Cardinality(Gone(c)) \in Nat /\ Cardinality(Ended(d, c)) \in Nat
        /\ Cardinality(HeldBy(leases, c)) \in Nat /\ Cardinality(HeldBy(Call.base, c)) \in Nat
    BY <2>1, SlotsFinite, CardSub
  <2>3. Cardinality(HeldBy(Call.base, c)) <= Cardinality(Gone(c)) + Cardinality(HeldBy(leases, c))
    BY <1>1, <1>3 DEF EngineSlots
  <2> QED BY <2>2, <2>3
<1>6. InTurn(d, leases)
  <2> SUFFICES ASSUME NEW i \in Instances, NEW j \in Instances, leases[i].status = "queued",
                      HeldBy(Call.base, ConsumerOf[j]) = {}, leases[j].status = "active"
               PROVE  Turn(d, d.op = "release", leases, j, leases[i].started)
    BY <1>2 DEF InTurn
  <2>1. Turn(Call, again, leases, j, leases[i].started)
    BY <1>3 DEF EngineTurn, Held, Consumptive
  <2> QED BY <1>2, <1>3, <2>1 DEF Turn
<1>7. Sound(Call.base, now) /\ (Call.op = "acquire" => Call.policy.limit = Capacity)
  BY DEF CallServes
<1>8. CallServes(d)
  BY <1>2, <1>3, <1>4, <1>5, <1>6, <1>7 DEF CallServes
<1> QED BY <1>8 DEF d

-----------------------------------------------------------------------------
(* The whole system. *)

\* Grants stay in the past as time goes on.
LEMMA SoundLater ==
    ASSUME NEW ls \in LeaseSet, NEW t \in Nat, NEW u \in Nat, t <= u, Sound(ls, t)
    PROVE  Sound(ls, u)
<1>1. \A i \in Instances : ls[i].started \in Nat
  BY DEF LeaseSet, LeaseType
<1> QED BY <1>1 DEF Sound, SoundLease

\* No lease is served unfairly where there is none.
LEMMA NoLeasesServe ==
    /\ \A t : Sound(NoLeases, t)
    /\ Full(NoLeases)
    /\ \A d : d.base = NoLeases /\ d.result = NoLeases /\ d.phase # "ready"
                  /\ (d.op = "acquire" => d.policy.limit = Capacity) => CallServes(d)
<1>1. \A t : Sound(NoLeases, t)
  BY DEF Sound, SoundLease, NoLeases, NoLease
<1>2. Full(NoLeases)
  BY DEF Full, NoLeases, NoLease
<1> QED BY <1>1, <1>2 DEF CallServes

\* What a commit stores is the call's result, whichever provider stores it: the
\* base it was computed from is the page's.
LEMMA CommitStores ==
    ASSUME TypeInv, ViewInv, NEW x \in Handlers, Commit(x)
    PROVE  /\ page'.leases = calls[x].result /\ page'.rev = page.rev + 1
           /\ calls[x].base = page.leases /\ calls[x].phase = "ready"
<1>1. calls[x].base = page.leases /\ calls[x].phase = "ready"
  BY DEF Commit, Ready, RevisionMatches, ViewInv, ViewIntegrity
<1>2. calls[x].result \in LeaseSet /\ page.leases \in LeaseSet
  BY DEF TypeInv, TypeOK, CallType
<1>3. Stored(x) = calls[x].result
  BY <1>1, <1>2 DEF Stored, LeaseSet
<1> QED BY <1>1, <1>3 DEF Commit

\* A handler's record changes to one that serves.
LEMMA ServiceCalls ==
    ASSUME TypeInv, ServiceInv, NEW x \in Handlers, NEW d \in CallType,
           calls' = [calls EXCEPT ![x] = d], CallServes(d), now' = now
    PROVE  \A y \in Handlers : CallServes(calls[y])'
<1>1. \A y \in Handlers : calls'[y] = IF y = x THEN d ELSE calls[y]
  BY DEF TypeInv, TypeOK
<1>2. \A y \in Handlers : CallServes(calls'[y])
  BY <1>1 DEF ServiceInv
<1> QED BY <1>2 DEF CallServes

\* Every step keeps the service fair, for policies that agree.
LEMMA ServiceNext ==
    ASSUME Agreeing
    PROVE  TypeInv /\ ViewInv /\ LimitInv /\ ExactInv /\ ServiceInv /\ [Next]_vars => ServiceInv'
<1> SUFFICES ASSUME TypeInv, ViewInv, LimitInv, ExactInv, ServiceInv, [Next]_vars
             PROVE  ServiceInv'
  OBVIOUS
<1>0. /\ cur = None => step = "none"
      /\ now \in Nat /\ page.leases \in LeaseSet
  BY NoneAssumption DEF TypeInv, TypeOK
<1>n. ASSUME step' = "none" PROVE EngineServes'
  BY <1>n DEF EngineServes, EngineFull
\* A step of the idle engine that changes only the calls.
<1>c. ASSUME cur = None, UNCHANGED <<now, page, computation>>,
             \A x \in Handlers : CallServes(calls[x])'
      PROVE  ServiceInv'
  <2>1. EngineServes'
    BY <1>0, <1>c, <1>n DEF computation
  <2>2. Sound(page.leases, now)' /\ Full(page.leases)'
    BY <1>c DEF ServiceInv
  <2> QED BY <1>c, <2>1, <2>2 DEF ServiceInv
<1>1. CASE UNCHANGED vars
  <2>1. EngineServes' = EngineServes
    <3>1. EngineSound' = EngineSound
      BY <1>1 DEF vars, EngineSound, at
    <3>2. EngineSlots' = EngineSlots
      BY <1>1 DEF vars, EngineSlots, Call, Gone, at
    <3>3. EngineTurn' = EngineTurn
      BY <1>1 DEF vars, EngineTurn, Call, Waiting
    <3>4. EngineOrigin' = EngineOrigin
      BY <1>1 DEF vars, EngineOrigin, Call, Seen, at
    <3>5. EngineFresh' = EngineFresh
      BY <1>1 DEF vars, EngineFresh, Seen, at
    <3>6. EngineFull' = EngineFull
      BY <1>1 DEF vars, EngineFull
    <3>7. step' = step /\ again' = again /\ Call' = Call
      BY <1>1 DEF vars, Call
    <3> QED BY <3>1, <3>2, <3>3, <3>4, <3>5, <3>6, <3>7 DEF EngineServes
  <2>2. \A x \in Handlers : CallServes(calls[x])'
    BY <1>1 DEF vars, ServiceInv, CallServes
  <2>3. Sound(page.leases, now)' /\ Full(page.leases)'
    BY <1>1 DEF vars, ServiceInv
  <2> QED BY <2>1, <2>2, <2>3 DEF ServiceInv
<1>2. CASE Tick
  <2>1. now' \in Nat /\ now <= now' /\ page' = page /\ calls' = calls /\ step' = "none"
    BY <1>0, <1>2 DEF Tick, computation
  <2>2. Sound(page.leases, now)' /\ Full(page.leases)'
    BY <1>0, <2>1, SoundLater DEF ServiceInv
  <2>3. ASSUME NEW x \in Handlers PROVE CallServes(calls[x])'
    <3>1. calls[x].base \in LeaseSet /\ calls[x].result \in LeaseSet
      BY DEF TypeInv, TypeOK, CallType
    <3>2. Sound(calls[x].base, now') /\ Sound(calls[x].result, now')
      BY <1>0, <2>1, <3>1, SoundLater DEF ServiceInv, CallServes
    <3> QED BY <2>1, <3>2 DEF ServiceInv, CallServes
  <2> QED BY <1>n, <2>1, <2>2, <2>3 DEF ServiceInv
<1>3. CASE Crash
  <2>1. \A x \in Handlers : CallServes(calls'[x])
    <3>1. \A x \in Handlers : calls'[x] = IdleCall
      BY <1>3 DEF Crash
    <3> QED BY <3>1, ZeroTypes, NoLeasesServe
  <2>2. now' = now /\ step' = "none"
    BY <1>0, <1>3 DEF Crash, computation
  <2>3. \A x \in Handlers : CallServes(calls[x])'
    BY <2>1, <2>2 DEF CallServes
  <2>4. Sound(page'.leases, now) /\ Full(page'.leases)
    BY <1>3, NoLeasesServe DEF Crash, ServiceInv
  <2> QED BY <1>n, <2>2, <2>3, <2>4 DEF ServiceInv
<1>4. CASE RefreshStep \/ DecideStep
  <2>1. UNCHANGED <<now, page, calls, cur>> /\ step # "none"
    BY <1>4, ComputeLocal
  <2>2. EngineServes /\ CallServes(Call)
    BY <2>1, TypeCall DEF ServiceInv, Call
  <2>3. EngineServes'
    BY <1>4, <2>2, ServeRefreshStep, ServeRenew, ServeReplace, ServeCreate, ServeRelease
       DEF DecideStep
  <2>4. \A x \in Handlers : CallServes(calls[x])'
    BY <2>1 DEF ServiceInv, CallServes
  <2> QED BY <2>1, <2>3, <2>4 DEF ServiceInv
<1>5. CASE Finish
  <2> DEFINE d == Computed(Call, leases, dirty)
  <2>1. /\ cur \in Handlers /\ d \in CallType
    <3>1. cur \in Handlers /\ Call \in CallType /\ leases \in LeaseSet /\ dirty \in BOOLEAN
      BY <1>5, TypeCall DEF Finish, TypeInv, TypeOK
    <3> QED BY <3>1, ComputedType
  <2>2. CallServes(d)
    BY <1>5, <2>1, ServeFinish DEF ServiceInv, Call
  <2>3. calls' = [calls EXCEPT ![cur] = d] /\ UNCHANGED <<now, page>> /\ step' = "none"
    BY <1>5 DEF Finish
  <2> HIDE DEF d
  <2>4. \A x \in Handlers : CallServes(calls[x])'
    BY <2>1, <2>2, <2>3, ServiceCalls
  <2> QED BY <1>n, <2>3, <2>4 DEF ServiceInv
<1>6. ASSUME NEW x \in Handlers, NewRequest(x) PROVE ServiceInv'
  <2>1. \E op \in Ops, i \in Instances \cup {None}, p \in Policy :
            Request(x, op, i, p) /\ (op = "acquire" => p.limit = Capacity)
    <3>1. \A p \in Policies : p \in Policy /\ p.limit = Capacity
      BY PolicyAssumption DEF Agreeing
    <3>2. NoPolicy \in Policy
      BY ZeroTypes
    <3> QED BY <1>6, <3>1, <3>2 DEF NewRequest, AcquireRequest, ReleaseRequest,
               RefreshRequest, PurgeRequest, Ops
  <2> PICK op \in Ops, i \in Instances \cup {None}, p \in Policy :
            Request(x, op, i, p) /\ (op = "acquire" => p.limit = Capacity)
    BY <2>1
  <2> DEFINE d == Calling(op, i, p, 0)
  <2>2. /\ d \in CallType /\ d.base = NoLeases /\ d.result = NoLeases /\ d.policy = p
        /\ d.op = op /\ d.phase = "call"
    BY CallingTypes
  <2>3. calls' = [calls EXCEPT ![x] = d] /\ cur = None /\ UNCHANGED <<now, page, computation>>
    BY DEF Request
  <2> HIDE DEF d
  <2>4. CallServes(d)
    BY <2>2, NoLeasesServe
  <2> QED BY <1>c, <2>2, <2>3, <2>4, ServiceCalls
<1>7. ASSUME NEW x \in Handlers, Serve(x) PROVE ServiceInv'
  <2> DEFINE c == calls[x]
  <2>0. /\ c \in CallType /\ cur = None /\ step = "none" /\ page.rev \in Nat
    BY <1>0, <1>7 DEF TypeInv, TypeOK, Serve, View, ViewError, Begin, CommitEmpty, Commit,
       CommitConflict, CommitError, Ready
  <2>a. CallServes(c) /\ Sound(page.leases, now)
    BY DEF ServiceInv
  <2>1. CASE View(x)
    <3> DEFINE d == Viewed(c, page.rev, page.leases)
    <3>1. /\ d \in CallType /\ d.base = page.leases /\ d.result = c.result /\ d.op = c.op
          /\ d.policy = c.policy /\ d.phase = "viewed"
      BY <1>0, <2>0, ViewedType
    <3>2. calls' = [calls EXCEPT ![x] = d] /\ UNCHANGED <<now, page, computation>>
      BY <2>1 DEF View
    <3> HIDE DEF d
    <3>3. CallServes(d)
      BY <2>a, <3>1 DEF CallServes
    <3> QED BY <1>c, <2>0, <3>1, <3>2, <3>3, ServiceCalls
  <2>2. CASE Begin(x)
    <3> DEFINE d == Computing(c, now)
    <3>1. /\ d \in CallType /\ d.base = c.base /\ d.result = c.result /\ d.op = c.op
          /\ d.policy = c.policy /\ d.phase = "computing"
      BY <1>0, <2>0, ComputingType
    <3>2. calls' = [calls EXCEPT ![x] = d] /\ UNCHANGED <<now, page>>
      BY <2>2 DEF Begin
    <3> HIDE DEF d
    <3>3. CallServes(d)
      BY <2>a, <3>1 DEF CallServes
    <3>4. \A y \in Handlers : CallServes(calls[y])'
      BY <3>1, <3>2, <3>3, ServiceCalls
    <3>5. EngineServes'
      BY <2>2, <2>a, ServeBegin
    <3> QED BY <3>2, <3>4, <3>5 DEF ServiceInv
  <2>3. CASE ViewError(x) \/ CommitConflict(x) \/ CommitError(x)
    <3>1. Failed(x) /\ UNCHANGED <<now, page, computation>>
      BY <2>3 DEF ViewError, CommitConflict, CommitError
    <3> PICK d \in CallType :
            /\ calls' = [calls EXCEPT ![x] = d]
            /\ d.phase \in {"call", "idle"}
            /\ d.base = NoLeases /\ d.result = NoLeases
            /\ d.op = "none" \/ (d.op = calls[x].op /\ d.policy = calls[x].policy)
      BY <3>1, FailedCall
    <3>2. CallServes(d)
      <4>1. d.op = "acquire" => d.policy.limit = Capacity
        BY <2>a DEF CallServes
      <4> QED BY <4>1, NoLeasesServe
    <3> QED BY <1>c, <2>0, <3>1, <3>2, ServiceCalls
  <2>4. CASE CommitEmpty(x) \/ Commit(x)
    <3>1. calls' = [calls EXCEPT ![x] = IdleCall] /\ UNCHANGED <<now, computation>>
      BY <2>4 DEF CommitEmpty, Commit, Done
    <3>2. CallServes(IdleCall) /\ IdleCall \in CallType
      BY ZeroTypes, NoLeasesServe
    <3>3. \A y \in Handlers : CallServes(calls[y])'
      BY <3>1, <3>2, ServiceCalls
    <3>4. CASE CommitEmpty(x)
      BY <1>c, <2>0, <3>1, <3>3, <3>4 DEF CommitEmpty
    <3>5. CASE Commit(x)
      <4>1. page'.leases = c.result /\ c.phase = "ready"
        BY <3>5, CommitStores DEF Commit, Ready
      <4>2. Sound(page'.leases, now) /\ Full(page'.leases)
        BY <2>a, <4>1 DEF CallServes
      <4>3. step' = "none" /\ now' = now
        BY <2>0, <3>1 DEF computation
      <4> QED BY <1>n, <3>3, <4>2, <4>3 DEF ServiceInv
    <3> QED BY <2>4, <3>4, <3>5
  <2> QED BY <1>7, <2>1, <2>2, <2>3, <2>4 DEF Serve
<1> QED BY <1>1, <1>2, <1>3, <1>4, <1>5, <1>6, <1>7 DEF Next, Compute

\* The service is fair before any call.
LEMMA ServiceInit == Init => ServiceInv
<1> SUFFICES ASSUME Init PROVE ServiceInv
  OBVIOUS
<1>1. \A x \in Handlers : CallServes(calls[x])
  BY ZeroTypes, NoLeasesServe DEF Init
<1>2. Sound(page.leases, now) /\ Full(page.leases) /\ step = "none"
  BY NoLeasesServe DEF Init
<1> QED BY <1>1, <1>2 DEF ServiceInv, EngineServes, EngineFull

\* Only a commit changes the page, but for the crash that loses it.
LEMMA PageChanges ==
    ASSUME [Next]_vars
    PROVE  \/ page' = page
           \/ page' = [rev |-> 0, leases |-> NoLeases]
           \/ \E x \in Handlers : Commit(x)
<1>1. CASE UNCHANGED vars
  BY <1>1 DEF vars
<1>2. CASE Tick \/ Crash \/ Finish
  BY <1>2 DEF Tick, Crash, Finish
<1>3. CASE RefreshStep
  BY <1>3 DEF RefreshStep, RefreshDecayed, RefreshExpired, RefreshHeld, RefreshQueueExpired,
     RefreshReplace, RefreshQueued, ReplaceReleased, EndPass1, EndPass2, Visit, shared
<1>4. CASE DecideStep
  BY <1>4 DEF DecideStep, AcquireReleased, AcquireRenew, AcquireReplace, AcquireCreate, Release,
     Decided, shared
<1>5. ASSUME NEW x \in Handlers, NewRequest(x) PROVE page' = page
  BY <1>5 DEF NewRequest, AcquireRequest, ReleaseRequest, RefreshRequest, PurgeRequest, Request
<1>6. ASSUME NEW x \in Handlers, Serve(x), ~Commit(x) PROVE page' = page
  BY <1>6 DEF Serve, View, ViewError, Begin, CommitEmpty, CommitConflict, CommitError
<1> QED BY <1>1, <1>2, <1>3, <1>4, <1>5, <1>6 DEF Next, Compute

\* What a commit does is what the call computed for the committed leases.
LEMMA CommitServes ==
    ASSUME TypeInv, ViewInv, ServiceInv, NEW x \in Handlers, Commit(x)
    PROVE  /\ Committing(x) /\ \A y \in Handlers : Committing(y) => y = x
           /\ page'.leases = calls[x].result /\ page.leases = calls[x].base
           /\ Kept(calls[x], page'.leases) /\ InTurn(calls[x], page'.leases)
<1>1. /\ page'.leases = calls[x].result /\ page'.rev = page.rev + 1
      /\ calls[x].base = page.leases /\ calls[x].phase = "ready"
  BY CommitStores
<1>2. \A y \in Handlers : calls'[y] = IF y = x THEN IdleCall ELSE calls[y]
  BY DEF Commit, Done, TypeInv, TypeOK
<1>3. IdleCall.phase = "idle"
  BY ZeroTypes
<1>4. CallServes(calls[x])
  BY DEF ServiceInv
<1> QED BY <1>1, <1>2, <1>3, <1>4 DEF Committing, CallServes

\* No slot idles while a lease waits for it: whenever a transaction is
\* committed, Refresh and the decision after it have used the resource up to
\* the limit before they left anyone in the queue.  The policies that match the
\* resource have to agree on the limit: where they do not, each request is
\* judged by its own.
THEOREM NoSlotIdles == ASSUME Agreeing PROVE Spec => []NoIdleCapacity
<1>1. ServiceInv => NoIdleCapacity
  <2> SUFFICES ASSUME ServiceInv, NEW i \in Instances, page.leases[i].status = "queued"
               PROVE  Used(page.leases) >= page.leases[i].policy.limit
    BY DEF NoIdleCapacity
  <2>1. page.leases[i].policy.limit = Capacity
    BY DEF ServiceInv, Sound, SoundLease
  <2> QED BY <2>1 DEF ServiceInv, Full
<1>2. TypeInv /\ ViewInv /\ LimitInv /\ ExactInv /\ ServiceInv /\ [Next]_vars => ServiceInv'
  BY ServiceNext
<1>3. Init => ExactInv
  BY DEF Init, ExactInv
<1> QED BY <1>1, <1>2, <1>3, TypeInit, TypeNext, ViewInit, ViewNext, LimitInit, LimitNext,
           ExactNext, ServiceInit, PTL DEF Spec

\* A consumer gives up no slot before a lease of his has decayed, but for the
\* release of a lease that is decaying already: not when another is served
\* meanwhile, not when his own leases replace each other.
THEOREM SlotsAreHeld == ASSUME Agreeing PROVE Spec => SlotsHeldUntilDecay
<1> DEFINE Holds ==
        \A x \in Handlers, c \in Consumers : Committing(x) =>
          LET given  == Cardinality(HeldBy(page.leases, c))
                          - Cardinality(HeldBy(page'.leases, c))
              ended  == {i \in HeldBy(page.leases, c) :
                            \/ Decayed(page.leases[i], calls[x].at)
                            \/ /\ calls[x].op = "release" /\ calls[x].inst = i
                               /\ \/ page.leases[i].status = "released"
                                  \/ Expired(page.leases[i], calls[x].at)}
          IN  given <= Cardinality(ended)
<1>1. TypeInv /\ ViewInv /\ ServiceInv /\ [Next]_vars => [Holds]_vars
  <2> SUFFICES ASSUME TypeInv, ViewInv, ServiceInv, [Next]_vars,
                      NEW x \in Handlers, NEW c \in Consumers, Committing(x)
               PROVE  Cardinality(HeldBy(page.leases, c)) - Cardinality(HeldBy(page'.leases, c))
                          <= Cardinality({i \in HeldBy(page.leases, c) :
                                \/ Decayed(page.leases[i], calls[x].at)
                                \/ /\ calls[x].op = "release" /\ calls[x].inst = i
                                   /\ \/ page.leases[i].status = "released"
                                      \/ Expired(page.leases[i], calls[x].at)})
    OBVIOUS
  <2>1. page.rev \in Nat /\ page'.rev = page.rev + 1
    BY DEF Committing, TypeInv, TypeOK
  <2> PICK y \in Handlers : Commit(y)
    BY <2>1, PageChanges
  <2>2. /\ x = y /\ page.leases = calls[x].base /\ Kept(calls[x], page'.leases)
    BY CommitServes
  <2>3. Ended(calls[x], c) = {i \in HeldBy(page.leases, c) :
                                \/ Decayed(page.leases[i], calls[x].at)
                                \/ /\ calls[x].op = "release" /\ calls[x].inst = i
                                   /\ \/ page.leases[i].status = "released"
                                      \/ Expired(page.leases[i], calls[x].at)}
    BY <2>2 DEF Ended
  <2>4. Cardinality(HeldBy(page.leases, c))
            <= Cardinality(HeldBy(page'.leases, c)) + Cardinality(Ended(calls[x], c))
    BY <2>2 DEF Kept
  <2>5. /\ Cardinality(HeldBy(page.leases, c)) \in Nat
        /\ Cardinality(HeldBy(page'.leases, c)) \in Nat
        /\ Cardinality(Ended(calls[x], c)) \in Nat
    BY SlotsFinite
  <2>6. Cardinality(HeldBy(page.leases, c)) - Cardinality(HeldBy(page'.leases, c))
            <= Cardinality(Ended(calls[x], c))
    BY <2>4, <2>5
  <2> QED BY <2>3, <2>6
<1>2. TypeInv /\ ViewInv /\ LimitInv /\ ExactInv /\ ServiceInv /\ [Next]_vars => ServiceInv'
  BY ServiceNext
<1>3. Init => ExactInv
  BY DEF Init, ExactInv
<1> QED BY <1>1, <1>2, <1>3, TypeInit, TypeNext, ViewInit, ViewNext, LimitInit, LimitNext,
           ExactNext, ServiceInit, PTL DEF Spec, SlotsHeldUntilDecay

\* First come, first served: a consumer that holds nothing is not served past a
\* lease that started earlier and stays in the queue, however many transactions
\* lie between and whichever handler commits them.
THEOREM ServedInTurn == ASSUME Agreeing PROVE Spec => NoOvertaking
<1> DEFINE InOrder ==
        \A i, j \in Instances :
          /\ page.leases[i].status = "queued" /\ page'.leases[i].status = "queued"
          /\ page.leases[i].started = page'.leases[i].started
          /\ HeldBy(page.leases, ConsumerOf[j]) = {}
          /\ page'.leases[j].status = "active"
          => \E k \in Instances :
                /\ ConsumerOf[k] = ConsumerOf[j]
                /\ \/ /\ Strategy = "consumer" \/ k = j
                      /\ page'.leases[k].status = "active"
                      /\ page'.leases[k].started <= page'.leases[i].started
                   \/ /\ \E x \in Handlers : ReleasesQueued(x, k)
                      /\ page.leases[k].started <= page'.leases[i].started
<1>1. TypeInv /\ ViewInv /\ ServiceInv /\ [Next]_vars => [InOrder]_vars
  <2> SUFFICES ASSUME TypeInv, ViewInv, ServiceInv, [Next]_vars,
                      NEW i \in Instances, NEW j \in Instances,
                      page'.leases[i].status = "queued",
                      HeldBy(page.leases, ConsumerOf[j]) = {},
                      page'.leases[j].status = "active"
               PROVE  \E k \in Instances :
                        /\ ConsumerOf[k] = ConsumerOf[j]
                        /\ \/ /\ Strategy = "consumer" \/ k = j
                              /\ page'.leases[k].status = "active"
                              /\ page'.leases[k].started <= page'.leases[i].started
                           \/ /\ \E x \in Handlers : ReleasesQueued(x, k)
                              /\ page.leases[k].started <= page'.leases[i].started
    OBVIOUS
  <2>1. page' # page
    BY DEF HeldBy, Held, Consumptive
  <2>2. page' # [rev |-> 0, leases |-> NoLeases]
    BY DEF NoLeases, NoLease
  <2> PICK x \in Handlers : Commit(x)
    BY <2>1, <2>2, PageChanges
  <2>3. Committing(x) /\ page.leases = calls[x].base /\ InTurn(calls[x], page'.leases)
    BY CommitServes
  <2>4. Turn(calls[x], calls[x].op = "release", page'.leases, j, page'.leases[i].started)
    BY <2>3 DEF InTurn
  <2> PICK k \in Instances :
        /\ ConsumerOf[k] = ConsumerOf[j]
        /\ \/ /\ Strategy = "consumer" \/ k = j
              /\ page'.leases[k].status = "active"
              /\ page'.leases[k].started <= page'.leases[i].started
           \/ /\ calls[x].op = "release" /\ k = calls[x].inst
              /\ calls[x].base[k].status = "queued"
              /\ calls[x].base[k].started <= page'.leases[i].started
    BY <2>4 DEF Turn
  <2>5. calls[x].op = "release" /\ k = calls[x].inst /\ calls[x].base[k].status = "queued"
            => ReleasesQueued(x, k)
    BY <2>3 DEF ReleasesQueued
  <2> QED BY <2>3, <2>5
<1>2. TypeInv /\ ViewInv /\ LimitInv /\ ExactInv /\ ServiceInv /\ [Next]_vars => ServiceInv'
  BY ServiceNext
<1>3. Init => ExactInv
  BY DEF Init, ExactInv
<1> QED BY <1>1, <1>2, <1>3, TypeInit, TypeNext, ViewInit, ViewNext, LimitInit, LimitNext,
           ExactNext, ServiceInit, PTL DEF Spec, NoOvertaking
=============================================================================
