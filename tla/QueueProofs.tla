---------------------------- MODULE QueueProofs -----------------------------
(***************************************************************************)
(* Proofs about Queue for every ring size, every number of pushes and both *)
(* kinds of queue.                                                         *)
(*                                                                         *)
(* The safety properties are not inductive: that the entry under v_tail is *)
(* intact depends on where the mutator may write before it looks at v_tail *)
(* again, and that an epoch ends in the right place depends on how the     *)
(* pointers v_epoch, v_last and a_epoch, taken at different times, relate  *)
(* to a v_tail that has moved since.  IInv ties every pointer to a number  *)
(* of operations: the distance from v_tail to the entry before a pointer   *)
(* is how many operations lie between the one last taken and the snapshot  *)
(* the pointer stands for.                                                 *)
(***************************************************************************)
EXTENDS Queue, TLAPS

\* How far p lies ahead of t, going round the ring, and the pointer after p.
Dist(t, p) == IF p >= t THEN p - t ELSE p - t + A_SIZE
Succ(p) == IF p < End THEN p + 1 ELSE 0

\* Distances ahead of v_tail.
Distance(p) == Dist(v_tail, p)

\* Operations taken from the ring: applied, or under v_tail being applied.
Taken == IF collector = "apply" THEN applied + 1 ELSE applied

\* The ring holds exactly the operations pushed and not taken, in order.
HeadInv == Taken + Distance(Before(v_head)) = pushed

EntriesInv ==
  \A i \in Index :
    (Distance(i) # 0 \/ collector = "apply") /\ Taken + Distance(i) <= pushed
      => v_objects[i] = Taken + Distance(i)

\* The snapshots, and what is left of the epoch.
SnapshotInv ==
  /\ limit <= mark /\ mark <= pushed
  /\ Deferred => Taken + Distance(Before(v_epoch)) = mark
  /\ ~Deferred => limit = mark
  /\ Taken + Distance(a_epoch) = limit
  /\ collector = "wait" => v_tail = a_epoch /\ v_last = v_epoch

\* The run of entries being applied ends at a_epoch or at the ring's end.
RunInv ==
  collector = "apply" =>
    /\ v_tail <= next
    /\ next = a_epoch \/ (next = End /\ a_epoch < v_tail)

\* Until it looks again at v_next, the mutator stays short of v_tail.
RoomInv ==
  /\ producer \in {"idle", "head", "next"} => v_head # v_tail
  /\ producer \in {"idle", "head"} =>
       /\ v_head <= v_next
       /\ v_head < v_tail => v_next < v_tail
  /\ producer = "head" => v_head = v_next /\ v_objects[v_head] = pushed + 1

IInv ==
  /\ TypeOK
  /\ HeadInv
  /\ EntriesInv
  /\ SnapshotInv
  /\ RunInv
  /\ RoomInv
-----------------------------------------------------------------------------
\* The stride between two looks at v_tail is a natural number short of the
\* ring: the only fact about the division by 8 that the proofs use.
LEMMA Stride == A_SIZE \div 8 \in Nat /\ A_SIZE \div 8 <= End
BY SizeAssumption DEF End

\* Distances round the ring: what f__flush and f_next compute with.
LEMMA DistType ==
  ASSUME NEW t \in Index, NEW p \in Index
  PROVE  Dist(t, p) \in Nat /\ Dist(t, p) <= End /\ (Dist(t, p) = 0 <=> p = t)
BY SizeAssumption DEF Dist, Index, End

LEMMA DistInjective ==
  ASSUME NEW t \in Index, NEW p \in Index, NEW q \in Index, Dist(t, p) = Dist(t, q)
  PROVE  p = q
BY SizeAssumption DEF Dist, Index, End

LEMMA RingType ==
  ASSUME NEW p \in Index
  PROVE  Before(p) \in Index /\ Succ(p) \in Index /\ Before(Succ(p)) = p
BY SizeAssumption DEF Before, Succ, Index, End

\* A step of the tail brings every other entry one nearer.
LEMMA DistTail ==
  ASSUME NEW t \in Index, NEW p \in Index
  PROVE  Dist(Succ(t), p) = IF p = t THEN End ELSE Dist(t, p) - 1
BY SizeAssumption DEF Dist, Succ, Index, End

\* A head clear of the tail is one further than the entry before it.
LEMMA DistHead ==
  ASSUME NEW t \in Index, NEW h \in Index
  PROVE  Dist(t, Before(h)) = IF h = t THEN End ELSE Dist(t, h) - 1
BY SizeAssumption DEF Dist, Before, Index, End

\* The queues start empty with every pointer where IInv wants it.
LEMMA InitIInv == Init => IInv
<1> SUFFICES ASSUME Init PROVE IInv
  OBVIOUS
<1> USE SizeAssumption, DeferredAssumption, Stride DEF Init, Index, End
<1>1. TypeOK
  <2>1. v_objects \in [Index -> Nat]
    OBVIOUS
  <2>2. v_next \in Index
    OBVIOUS
  <2>3. /\ v_head \in Index /\ v_tail \in Index
        /\ v_epoch \in Index /\ v_last \in Index
        /\ a_epoch \in Index /\ next \in Index
    OBVIOUS
  <2>4. QED
    BY <2>1, <2>2, <2>3, Zenon DEF TypeOK
<1>2. HeadInv /\ SnapshotInv /\ RunInv /\ RoomInv
  BY DEF HeadInv, SnapshotInv, RunInv, RoomInv, Distance, Dist, Taken, Before
<1>3. EntriesInv
  BY DEF EntriesInv, Distance, Dist, Taken
<1>4. QED
  BY <1>1, <1>2, <1>3 DEF IInv

\* A push writes short of v_tail and leaves the older entries alone.
LEMMA Preserves_f__push == IInv /\ f__push => IInv'
<1> SUFFICES ASSUME IInv, f__push PROVE IInv'
  OBVIOUS
<1> USE SizeAssumption
<1>a. v_head <= v_next /\ v_head # v_tail /\ (v_head < v_tail => v_next < v_tail)
  BY DEF IInv, RoomInv, f__push
<1>b. UNCHANGED <<v_next, v_epoch, v_tail, v_last, a_epoch, next, collector,
                  applied, got, mark, limit, ticks>>
  BY DEF f__push, collectorVars
<1>c. /\ v_objects' \in [Index -> Nat]
      /\ v_objects'[v_head] = pushed + 1
      /\ \A i \in Index : i # v_head => v_objects'[i] = v_objects[i]
  BY DEF f__push, IInv, TypeOK
<1>d. v_head \in Int /\ v_next \in Int /\ v_tail \in Int
  BY DEF IInv, TypeOK, Index
<1>e. \/ v_head = v_next /\ producer' = "head" /\ running' = TRUE
         /\ v_head' = v_head /\ pushed' = pushed
      \/ v_head < v_next /\ v_head' = Succ(v_head) /\ pushed' = pushed + 1
         /\ producer' = "idle" /\ running' = running
  BY <1>a, <1>d DEF f__push, IInv, TypeOK, Index, Succ, End
<1>f. Taken' = Taken /\ Taken \in Nat /\ Dist(v_tail, v_head) \in Nat
      /\ Taken + Dist(v_tail, v_head) = pushed + 1
  <2>1. Taken' = Taken /\ Taken \in Nat
    BY <1>b DEF Taken, IInv, TypeOK
  <2>2. Taken + Dist(v_tail, Before(v_head)) = pushed
    BY DEF IInv, HeadInv, Distance
  <2>3. v_tail \in Index /\ v_head \in Index /\ pushed \in Nat
    BY DEF IInv, TypeOK
  <2>4. Dist(v_tail, Before(v_head)) = Dist(v_tail, v_head) - 1
        /\ Dist(v_tail, v_head) \in Nat
    BY <1>a, <2>3, DistHead, DistType
  <2>5. QED
    BY <2>1, <2>2, <2>3, <2>4
<1>1. TypeOK'
  <2>1. v_head' \in Index /\ pushed' \in Nat
    BY <1>e, RingType DEF IInv, TypeOK
  <2>2. running' \in BOOLEAN /\ producer' \in {"idle", "head"}
    BY <1>e, Zenon DEF IInv, TypeOK
  <2>3. QED
    BY <1>b, <1>c, <2>1, <2>2 DEF IInv, TypeOK
<1>2. HeadInv'
  <2>1. CASE v_head' = v_head /\ pushed' = pushed
    BY <1>b, <1>f, <2>1 DEF IInv, HeadInv, Distance, Before
  <2>2. CASE v_head' = Succ(v_head) /\ pushed' = pushed + 1
    <3>1. Before(v_head') = v_head
      BY <2>2, RingType DEF IInv, TypeOK
    <3>2. QED
      BY <1>b, <1>f, <2>2, <3>1 DEF HeadInv, Distance, Before
  <2>3. QED
    BY <1>e, <2>1, <2>2
<1>3. EntriesInv'
  <2>1. SUFFICES ASSUME NEW i \in Index,
                        Dist(v_tail, i) # 0 \/ collector = "apply",
                        Taken + Dist(v_tail, i) <= pushed'
                 PROVE  v_objects'[i] = Taken + Dist(v_tail, i)
    BY <1>b, <1>f DEF EntriesInv, Distance
  <2>2. CASE i = v_head
    BY <1>c, <1>f, <2>2
  <2>3. CASE i # v_head
    <3>1. Dist(v_tail, i) # Dist(v_tail, v_head) /\ Dist(v_tail, i) \in Nat
      BY <2>3, DistInjective, DistType DEF IInv, TypeOK
    <3>2. Taken + Dist(v_tail, i) <= pushed
      BY <1>e, <1>f, <2>1, <3>1 DEF IInv, TypeOK
    <3>3. QED
      BY <1>c, <2>1, <2>3, <3>2 DEF IInv, EntriesInv, Distance
  <2>4. QED
    BY <2>2, <2>3
<1>4. SnapshotInv'
  <2>1. pushed' \in Int /\ pushed <= pushed'
    BY <1>e DEF IInv, TypeOK
  <2>2. QED
    BY <1>b, <1>f, <2>1 DEF IInv, TypeOK, SnapshotInv, Distance, Before
<1>5. RunInv'
  BY <1>b DEF IInv, RunInv
<1>6. RoomInv'
  <2>1. CASE producer' = "head"
    BY <1>a, <1>b, <1>c, <1>e, <2>1 DEF RoomInv
  <2>2. CASE producer' = "idle"
    <3>1. v_head' = v_head + 1 /\ v_head < v_next /\ v_next <= End
      BY <1>d, <1>e, <2>2 DEF IInv, TypeOK, Index, Succ, End
    <3>2. QED
      BY <1>a, <1>b, <1>d, <2>2, <3>1 DEF RoomInv
  <2>3. QED
    BY <1>e, <2>1, <2>2
<1>7. QED
  BY <1>1, <1>2, <1>3, <1>4, <1>5, <1>6 DEF IInv

\* Counting the entry just written makes it the youngest of the ring.
LEMMA Preserves_f_next_head == IInv /\ f_next_head => IInv'
<1> SUFFICES ASSUME IInv, f_next_head PROVE IInv'
  OBVIOUS
<1>a. UNCHANGED <<v_next, v_objects, v_epoch, v_tail, v_last, a_epoch, next,
                  collector, applied, got, mark, limit, running, ticks>>
  BY DEF f_next_head, collectorVars
<1>b. v_head' = Succ(v_head) /\ pushed' = pushed + 1 /\ producer' = "check"
  BY DEF f_next_head, Succ
<1>c. v_head # v_tail /\ v_objects[v_head] = pushed + 1
  BY DEF IInv, RoomInv, f_next_head
<1>d. Taken' = Taken /\ Taken \in Nat /\ Dist(v_tail, v_head) \in Nat
      /\ Taken + Dist(v_tail, v_head) = pushed + 1
  <2>1. Taken' = Taken /\ Taken \in Nat
    BY <1>a DEF Taken, IInv, TypeOK
  <2>2. Taken + Dist(v_tail, Before(v_head)) = pushed
    BY DEF IInv, HeadInv, Distance
  <2>3. v_tail \in Index /\ v_head \in Index /\ pushed \in Nat
    BY DEF IInv, TypeOK
  <2>4. Dist(v_tail, Before(v_head)) = Dist(v_tail, v_head) - 1
        /\ Dist(v_tail, v_head) \in Nat
    BY <1>c, <2>3, DistHead, DistType
  <2>5. QED
    BY <2>1, <2>2, <2>3, <2>4
<1>1. TypeOK'
  BY <1>a, <1>b, RingType DEF IInv, TypeOK
<1>2. HeadInv'
  <2>1. Before(v_head') = v_head
    BY <1>b, RingType DEF IInv, TypeOK
  <2>2. QED
    BY <1>a, <1>b, <1>d, <2>1 DEF HeadInv, Distance, Before
<1>3. EntriesInv'
  <2>1. SUFFICES ASSUME NEW i \in Index,
                        Dist(v_tail, i) # 0 \/ collector = "apply",
                        Taken + Dist(v_tail, i) <= pushed + 1
                 PROVE  v_objects[i] = Taken + Dist(v_tail, i)
    BY <1>a, <1>b, <1>d DEF EntriesInv, Distance
  <2>2. CASE i = v_head
    BY <1>c, <1>d, <2>2
  <2>3. CASE i # v_head
    <3>1. Dist(v_tail, i) # Dist(v_tail, v_head) /\ Dist(v_tail, i) \in Nat
      BY <2>3, DistInjective, DistType DEF IInv, TypeOK
    <3>2. Taken + Dist(v_tail, i) <= pushed
      BY <1>d, <2>1, <3>1 DEF IInv, TypeOK
    <3>3. QED
      BY <2>1, <3>2 DEF IInv, EntriesInv, Distance
  <2>4. QED
    BY <2>2, <2>3
<1>4. SnapshotInv'
  BY <1>a, <1>b, <1>d DEF IInv, TypeOK, SnapshotInv, Distance, Before
<1>5. RunInv'
  BY <1>a DEF IInv, RunInv
<1>6. RoomInv'
  BY <1>b DEF RoomInv
<1>7. QED
  BY <1>1, <1>2, <1>3, <1>4, <1>5, <1>6 DEF IInv

\* Looking at v_tail establishes that the head is clear of it.
LEMMA Preserves_f_next_check == IInv /\ f_next_check => IInv'
<1> SUFFICES ASSUME IInv, f_next_check PROVE IInv'
  OBVIOUS
<1>a. UNCHANGED <<v_head, v_next, v_objects, pushed, v_epoch, v_tail, v_last, a_epoch,
                  next, collector, applied, got, mark, limit, ticks>>
  BY DEF f_next_check, collectorVars
<1>1. TypeOK'
  BY <1>a DEF f_next_check, IInv, TypeOK, RoomInv, Index, End, AtMost
<1>2. HeadInv'
  BY <1>a DEF IInv, HeadInv, Distance, Taken, Before
<1>3. EntriesInv'
  BY <1>a DEF IInv, EntriesInv, Distance, Taken
<1>4. SnapshotInv'
  BY <1>a DEF IInv, SnapshotInv, Distance, Taken, Before
<1>5. RunInv'
  BY <1>a DEF IInv, RunInv
<1>6. RoomInv'
  BY <1>a DEF f_next_check, IInv, TypeOK, RoomInv, Index, End, AtMost
<1>7. QED
  BY <1>1, <1>2, <1>3, <1>4, <1>5, <1>6 DEF IInv

\* Being woken changes nothing but the control state.
LEMMA Preserves_f_wait_return == IInv /\ f_wait_return => IInv'
<1> SUFFICES ASSUME IInv, f_wait_return PROVE IInv'
  OBVIOUS
<1>a. UNCHANGED <<v_head, v_next, v_objects, pushed, v_epoch, v_tail, v_last, a_epoch,
                  next, collector, applied, got, mark, limit, ticks>>
  BY DEF f_wait_return, collectorVars
<1>1. TypeOK'
  BY <1>a DEF f_wait_return, IInv, TypeOK, RoomInv, Index, End, AtMost
<1>2. HeadInv'
  BY <1>a DEF IInv, HeadInv, Distance, Taken, Before
<1>3. EntriesInv'
  BY <1>a DEF IInv, EntriesInv, Distance, Taken
<1>4. SnapshotInv'
  BY <1>a DEF IInv, SnapshotInv, Distance, Taken, Before
<1>5. RunInv'
  BY <1>a DEF IInv, RunInv
<1>6. RoomInv'
  BY <1>a DEF f_wait_return, IInv, TypeOK, RoomInv, Index, End, AtMost
<1>7. QED
  BY <1>1, <1>2, <1>3, <1>4, <1>5, <1>6 DEF IInv

\* The new v_next keeps the mutator short of the v_tail it read.
LEMMA Preserves_f_next_limit == IInv /\ f_next_limit => IInv'
<1> SUFFICES ASSUME IInv, f_next_limit PROVE IInv'
  OBVIOUS
<1>a. UNCHANGED <<v_head, v_objects, pushed, v_epoch, v_tail, v_last, a_epoch,
                  next, collector, applied, got, mark, limit, ticks>>
  BY DEF f_next_limit, collectorVars
<1>1. TypeOK'
  BY <1>a, SizeAssumption, Stride DEF f_next_limit, IInv, TypeOK, RoomInv, Index, End, AtMost
<1>2. HeadInv'
  BY <1>a DEF IInv, HeadInv, Distance, Taken, Before
<1>3. EntriesInv'
  BY <1>a DEF IInv, EntriesInv, Distance, Taken
<1>4. SnapshotInv'
  BY <1>a DEF IInv, SnapshotInv, Distance, Taken, Before
<1>5. RunInv'
  BY <1>a DEF IInv, RunInv
<1>6. RoomInv'
  BY <1>a, SizeAssumption, Stride DEF f_next_limit, IInv, TypeOK, RoomInv, Index, End, AtMost
<1>7. QED
  BY <1>1, <1>2, <1>3, <1>4, <1>5, <1>6 DEF IInv

\* The snapshot counts every operation pushed so far.
LEMMA Preserves_f_epoch_suspend == IInv /\ f_epoch_suspend => IInv'
<1> SUFFICES ASSUME IInv, f_epoch_suspend PROVE IInv'
  OBVIOUS
<1>a. UNCHANGED <<v_head, v_next, v_objects, producer, pushed, v_tail, v_last,
                  next, applied, got, running, ticks>>
  BY DEF f_epoch_suspend, producerVars
<1>b. collector = "wait" /\ collector' = "flush" /\ v_epoch' = v_head
      /\ a_epoch' = Before(IF Deferred THEN v_last ELSE v_head)
      /\ mark' = pushed /\ limit' = IF Deferred THEN mark ELSE pushed
  BY DEF f_epoch_suspend
<1>c. Taken' = Taken /\ \A p : Distance(p)' = Dist(v_tail, p)
  BY <1>a, <1>b DEF Taken, Distance
<1>1. TypeOK'
  BY <1>a, <1>b, RingType, DeferredAssumption DEF IInv, TypeOK
<1>2. HeadInv'
  BY <1>a, <1>b DEF IInv, HeadInv, Distance, Taken, Before
<1>3. EntriesInv'
  BY <1>a, <1>b DEF IInv, EntriesInv, Distance, Taken
<1>4. SnapshotInv'
  <2>1. CASE Deferred
    BY <1>a, <1>b, <1>c, <2>1 DEF IInv, TypeOK, HeadInv, SnapshotInv, Distance, Before
  <2>2. CASE ~Deferred
    BY <1>a, <1>b, <1>c, <2>2 DEF IInv, TypeOK, HeadInv, SnapshotInv, Distance, Before
  <2>3. QED
    BY <2>1, <2>2, DeferredAssumption
<1>5. RunInv'
  BY <1>b DEF RunInv
<1>6. RoomInv'
  BY <1>a DEF IInv, RoomInv
<1>7. QED
  BY <1>1, <1>2, <1>3, <1>4, <1>5, <1>6 DEF IInv

\* Starting a run takes one operation that was pushed.
LEMMA Preserves_f__flush_run == IInv /\ f__flush_run => IInv'
<1> SUFFICES ASSUME IInv, f__flush_run PROVE IInv'
  OBVIOUS
<1>a. UNCHANGED <<v_head, v_next, v_objects, producer, pushed, v_epoch, v_last,
                  a_epoch, applied, got, mark, limit, running, ticks>>
  BY DEF f__flush_run, producerVars
<1>b. /\ collector = "flush" /\ collector' = "apply"
      /\ v_tail # a_epoch /\ v_tail' = Succ(v_tail)
      /\ next' = IF v_tail < End /\ a_epoch < v_tail THEN End ELSE a_epoch
  BY DEF f__flush_run, Succ
<1>c. Taken' = Taken + 1 /\ Taken \in Nat
  BY <1>a, <1>b DEF Taken, IInv, TypeOK
<1>d. \A p \in Index : Dist(v_tail', p) = IF p = v_tail THEN End ELSE Dist(v_tail, p) - 1
  BY <1>b, DistTail DEF IInv, TypeOK
<1>e. \A p \in Index : Dist(v_tail, p) \in Nat /\ Dist(v_tail, p) <= End
                       /\ (Dist(v_tail, p) = 0 <=> p = v_tail)
  BY DistType DEF IInv, TypeOK
<1>f. Before(v_head) \in Index /\ Before(v_head)' = Before(v_head)
      /\ Before(v_epoch) \in Index /\ Before(v_epoch)' = Before(v_epoch)
  BY <1>a, RingType DEF IInv, TypeOK, Before
<1>g. /\ pushed \in Nat /\ mark \in Nat /\ limit \in Nat /\ a_epoch \in Index
      /\ limit <= mark /\ mark <= pushed
      /\ Taken + Dist(v_tail, a_epoch) = limit
      /\ Taken + Dist(v_tail, Before(v_head)) = pushed
      /\ Deferred => Taken + Dist(v_tail, Before(v_epoch)) = mark
  BY DEF IInv, TypeOK, HeadInv, SnapshotInv, Distance
<1>h. v_tail # Before(v_head) /\ (Deferred => v_tail # Before(v_epoch))
  BY <1>b, <1>c, <1>e, <1>f, <1>g
<1>1. TypeOK'
  <2>1. v_tail' \in Index /\ next' \in Index
    BY <1>b, RingType, SizeAssumption DEF IInv, TypeOK, Index, End
  <2>2. QED
    BY <1>a, <1>b, <2>1 DEF IInv, TypeOK
<1>2. HeadInv'
  <2>1. Taken' + Dist(v_tail', Before(v_head)) = pushed
    BY <1>c, <1>d, <1>e, <1>f, <1>g, <1>h
  <2>2. QED
    BY <1>a, <1>f, <2>1 DEF HeadInv, Distance
<1>3. EntriesInv'
  <2>1. SUFFICES ASSUME NEW i \in Index, Taken + 1 + Dist(v_tail', i) <= pushed
                 PROVE  v_objects[i] = Taken + 1 + Dist(v_tail', i)
    BY <1>a, <1>c DEF EntriesInv, Distance
  <2>2. pushed <= Taken + End
    BY <1>c, <1>e, <1>f, <1>g, SizeAssumption DEF End
  <2>3. i # v_tail
    BY <1>c, <1>d, <1>g, <2>1, <2>2, SizeAssumption DEF End
  <2>4. Dist(v_tail, i) # 0 /\ Taken + Dist(v_tail, i) <= pushed
    BY <1>c, <1>d, <1>e, <1>g, <2>1, <2>3
  <2>5. v_objects[i] = Taken + Dist(v_tail, i)
    BY <2>4 DEF IInv, EntriesInv, Distance
  <2>6. QED
    BY <1>c, <1>d, <1>e, <2>3, <2>5
<1>4. SnapshotInv'
  <2>1. Taken' + Dist(v_tail', a_epoch) = limit
    BY <1>b, <1>c, <1>d, <1>e, <1>g
  <2>2. Deferred => Taken' + Dist(v_tail', Before(v_epoch)) = mark
    BY <1>c, <1>d, <1>e, <1>f, <1>g, <1>h
  <2>3. QED
    BY <1>a, <1>b, <1>f, <2>1, <2>2 DEF IInv, SnapshotInv, Distance
<1>5. RunInv'
  BY <1>a, <1>b, SizeAssumption DEF IInv, TypeOK, RunInv, Succ, Index, End
<1>6. RoomInv'
  <2>1. v_head # v_tail => v_head # v_tail'
    BY <1>b, <1>h, RingType DEF IInv, TypeOK
  <2>2. v_head \in Int /\ v_next \in Int /\ v_tail \in Int /\ v_head >= 0
    BY DEF IInv, TypeOK, Index
  <2>3. QED
    BY <1>a, <1>b, <2>1, <2>2, SizeAssumption DEF IInv, RoomInv, Succ, End
<1>7. QED
  BY <1>1, <1>2, <1>3, <1>4, <1>5, <1>6 DEF IInv

\* Applying an entry and stepping on stays within the epoch.
LEMMA Preserves_f__flush_apply == IInv /\ f__flush_apply => IInv'
<1> SUFFICES ASSUME IInv, f__flush_apply PROVE IInv'
  OBVIOUS
<1>a. UNCHANGED <<v_head, v_next, v_objects, producer, pushed, v_epoch, v_last,
                  a_epoch, next, mark, limit, running, ticks>>
  BY DEF f__flush_apply, producerVars
<1>b. collector = "apply" /\ applied' = applied + 1 /\ got' \in Nat
  BY DEF f__flush_apply, IInv, TypeOK
<1>c. \/ v_tail = next /\ collector' = "flush" /\ v_tail' = v_tail
      \/ /\ v_tail # next /\ v_tail < next /\ v_tail # a_epoch
         /\ collector' = "apply" /\ v_tail' = Succ(v_tail)
  BY SizeAssumption DEF f__flush_apply, IInv, TypeOK, RunInv, Succ, Index, End
<1>d. Taken \in Nat /\ Taken' = IF v_tail = next THEN Taken ELSE Taken + 1
  BY <1>b, <1>c DEF Taken, IInv, TypeOK, Index
<1>e. \A p \in Index : Dist(v_tail, p) \in Nat /\ Dist(v_tail, p) <= End
                       /\ (Dist(v_tail, p) = 0 <=> p = v_tail)
  BY DistType DEF IInv, TypeOK
<1>f. Before(v_head) \in Index /\ Before(v_head)' = Before(v_head)
      /\ Before(v_epoch) \in Index /\ Before(v_epoch)' = Before(v_epoch)
  BY <1>a, RingType DEF IInv, TypeOK, Before
<1>g. /\ pushed \in Nat /\ mark \in Nat /\ limit \in Nat /\ a_epoch \in Index
      /\ limit <= mark /\ mark <= pushed
      /\ Taken + Dist(v_tail, a_epoch) = limit
      /\ Taken + Dist(v_tail, Before(v_head)) = pushed
      /\ Deferred => Taken + Dist(v_tail, Before(v_epoch)) = mark
  BY DEF IInv, TypeOK, HeadInv, SnapshotInv, Distance
<1>h. v_tail # next =>
        /\ v_tail # Before(v_head) /\ (Deferred => v_tail # Before(v_epoch))
        /\ \A p \in Index : Dist(v_tail', p) =
             IF p = v_tail THEN End ELSE Dist(v_tail, p) - 1
  <2>1. SUFFICES ASSUME v_tail # next
                 PROVE  /\ v_tail # Before(v_head)
                        /\ Deferred => v_tail # Before(v_epoch)
                        /\ \A p \in Index : Dist(v_tail', p) =
                             IF p = v_tail THEN End ELSE Dist(v_tail, p) - 1
    OBVIOUS
  <2>2. v_tail # a_epoch /\ v_tail' = Succ(v_tail)
    BY <1>c, <2>1
  <2>3. v_tail # Before(v_head) /\ (Deferred => v_tail # Before(v_epoch))
    BY <1>d, <1>e, <1>f, <1>g, <2>2
  <2>4. QED
    BY <2>2, <2>3, DistTail DEF IInv, TypeOK
<1>1. TypeOK'
  BY <1>a, <1>b, <1>c, RingType DEF IInv, TypeOK
<1>2. HeadInv'
  <2>1. Taken' + Dist(v_tail', Before(v_head)) = pushed
    <3>1. CASE v_tail = next
      BY <1>c, <1>d, <1>g, <3>1
    <3>2. CASE v_tail # next
      BY <1>d, <1>e, <1>f, <1>g, <1>h, <3>2
    <3>3. QED
      BY <3>1, <3>2
  <2>2. QED
    BY <1>a, <1>f, <2>1 DEF HeadInv, Distance
<1>3. EntriesInv'
  <2>1. CASE v_tail = next
    <3>1. v_tail' = v_tail /\ Taken' = Taken
      BY <1>c, <1>d, <2>1 DEF IInv, TypeOK, Index
    <3>2. QED
      BY <1>a, <1>b, <3>1 DEF IInv, EntriesInv, Distance
  <2>2. CASE v_tail # next
    <3>1. SUFFICES ASSUME NEW i \in Index, Taken + 1 + Dist(v_tail', i) <= pushed
                   PROVE  v_objects[i] = Taken + 1 + Dist(v_tail', i)
      BY <1>a, <1>d, <2>2 DEF EntriesInv, Distance
    <3>2. pushed <= Taken + End
      BY <1>d, <1>e, <1>f, <1>g, SizeAssumption DEF End
    <3>3. i # v_tail
      BY <1>d, <1>g, <1>h, <2>2, <3>1, <3>2, SizeAssumption DEF End
    <3>4. Dist(v_tail, i) # 0 /\ Taken + Dist(v_tail, i) <= pushed
      BY <1>d, <1>e, <1>g, <1>h, <2>2, <3>1, <3>3
    <3>5. v_objects[i] = Taken + Dist(v_tail, i)
      BY <3>4 DEF IInv, EntriesInv, Distance
    <3>6. QED
      BY <1>d, <1>e, <1>h, <2>2, <3>3, <3>5
  <2>3. QED
    BY <2>1, <2>2
<1>4. SnapshotInv'
  <2>1. Taken' + Dist(v_tail', a_epoch) = limit
    <3>1. CASE v_tail = next
      BY <1>c, <1>d, <1>g, <3>1
    <3>2. CASE v_tail # next
      BY <1>c, <1>d, <1>e, <1>g, <1>h, <3>2
    <3>3. QED
      BY <3>1, <3>2
  <2>2. Deferred => Taken' + Dist(v_tail', Before(v_epoch)) = mark
    <3>1. CASE v_tail = next
      BY <1>c, <1>d, <1>g, <3>1
    <3>2. CASE v_tail # next
      BY <1>d, <1>e, <1>f, <1>g, <1>h, <3>2
    <3>3. QED
      BY <3>1, <3>2
  <2>3. QED
    BY <1>a, <1>b, <1>c, <1>f, <2>1, <2>2 DEF IInv, SnapshotInv, Distance
<1>5. RunInv'
  BY <1>a, <1>b, <1>c, SizeAssumption DEF IInv, TypeOK, RunInv, Succ, Index, End
<1>6. RoomInv'
  <2>1. v_head # v_tail => v_head # v_tail'
    <3>1. v_tail' # v_tail => v_tail # Before(v_head) /\ v_tail' = Succ(v_tail)
      BY <1>c, <1>h
    <3>2. v_tail = Before(Succ(v_tail))
      BY RingType DEF IInv, TypeOK
    <3>3. QED
      BY <3>1, <3>2
  <2>2. v_head \in Int /\ v_next \in Int /\ v_tail \in Int /\ v_head >= 0
    BY DEF IInv, TypeOK, Index
  <2>3. QED
    BY <1>a, <1>c, <2>1, <2>2, SizeAssumption DEF IInv, RoomInv, Succ, End
<1>7. QED
  BY <1>1, <1>2, <1>3, <1>4, <1>5, <1>6 DEF IInv

\* The end of a flush is the start of the next: v_last is v_epoch.
LEMMA Preserves_f_flush_end == IInv /\ f_flush_end => IInv'
<1> SUFFICES ASSUME IInv, f_flush_end PROVE IInv'
  OBVIOUS
<1>a. UNCHANGED <<v_head, v_next, v_objects, producer, pushed, v_epoch, v_tail,
                  a_epoch, next, applied, got, mark, limit, ticks>>
  BY DEF f_flush_end, producerVars
<1>b. collector = "flush" /\ collector' = "wait" /\ v_tail = a_epoch
      /\ v_last' = v_epoch /\ running' = FALSE
  BY DEF f_flush_end
<1>1. TypeOK'
  BY <1>a, <1>b DEF IInv, TypeOK
<1>2. HeadInv'
  BY <1>a, <1>b DEF IInv, HeadInv, Distance, Taken, Before
<1>3. EntriesInv'
  BY <1>a, <1>b DEF IInv, EntriesInv, Distance, Taken
<1>4. SnapshotInv'
  BY <1>a, <1>b DEF IInv, SnapshotInv, Distance, Taken, Before
<1>5. RunInv'
  BY <1>b DEF RunInv
<1>6. RoomInv'
  BY <1>a DEF IInv, RoomInv
<1>7. QED
  BY <1>1, <1>2, <1>3, <1>4, <1>5, <1>6 DEF IInv

\* Ticks and stuttering leave the ring alone.
LEMMA Preserves_other == IInv /\ (f_tick \/ UNCHANGED vars) => IInv'
<1> SUFFICES ASSUME IInv, f_tick \/ UNCHANGED vars PROVE IInv'
  OBVIOUS
<1>1. UNCHANGED <<producerVars, collectorVars>>
  BY DEF f_tick, vars
<1>2. TypeOK'
  <2>1. running' \in BOOLEAN
    BY Zenon DEF IInv, TypeOK, f_tick, vars
  <2>2. ticks' \in Nat
    BY DEF IInv, TypeOK, f_tick, vars
  <2>3. QED
    BY <1>1, <2>1, <2>2 DEF IInv, TypeOK, producerVars, collectorVars
<1>3. QED
  BY <1>1, <1>2 DEF IInv, HeadInv, EntriesInv, SnapshotInv, RunInv, RoomInv,
       Distance, Taken, Before, producerVars, collectorVars

\* IInv is an invariant of the queue.
THEOREM Invariance == Spec => []IInv
<1>1. IInv /\ [Next]_vars => IInv'
  BY Preserves_f__push, Preserves_f_next_head, Preserves_f_next_check,
     Preserves_f_wait_return, Preserves_f_next_limit, Preserves_f_epoch_suspend,
     Preserves_f__flush_run, Preserves_f__flush_apply, Preserves_f_flush_end,
     Preserves_other
  DEF Next, Mutator, Collector
<1>2. QED
  BY InitIInv, <1>1, PTL DEF Spec

\* Whatever the size of the ring, no pointer of the queue leaves v_objects.
THEOREM TypeCorrect == Spec => []TypeOK
BY Invariance, PTL DEF IInv

\* The entry the collector applies is never one the mutator has written over.
THEOREM EntriesSafe == Spec => []EntryIntact
<1>1. IInv => EntryIntact
  <2>1. SUFFICES ASSUME IInv, collector = "apply"
                 PROVE  v_objects[v_tail] = applied + 1
    BY DEF EntryIntact
  <2>2. Distance(v_tail) = 0 /\ Taken = applied + 1 /\ v_tail \in Index
    BY <2>1, DistType DEF IInv, TypeOK, Distance, Taken
  <2>3. applied + 1 <= limit
    BY <2>1, <2>2, DistType DEF IInv, TypeOK, SnapshotInv, Distance
  <2>4. QED
    BY <2>1, <2>2, <2>3 DEF IInv, TypeOK, EntriesInv, SnapshotInv
<1>2. QED
  BY Invariance, <1>1, PTL

\* An epoch applies exactly the operations its snapshots say.
THEOREM EpochsComplete == Spec => []EpochComplete
<1>1. IInv => EpochComplete
  <2>1. SUFFICES ASSUME IInv PROVE EpochComplete
    OBVIOUS
  <2>2. Distance(a_epoch) \in Nat /\ (Distance(a_epoch) = 0 <=> a_epoch = v_tail)
    BY <2>1, DistType DEF IInv, TypeOK, Distance
  <2>3. QED
    BY <2>1, <2>2 DEF IInv, TypeOK, SnapshotInv, Taken, EpochComplete
<1>2. QED
  BY Invariance, <1>1, PTL

\* The ring implements the abstract queue: every step of the mutator and of
\* the collector is a push, a snapshot, the application of the oldest
\* operation that is due, or no step at all.
THEOREM Refinement == Spec => AbstractSpec
<1>1. Init => Abstract!Init
  BY DEF Init, Abstract!Init
<1>2. IInv /\ [Next]_vars => [Abstract!Next]_Abstract!vars
  <2> SUFFICES ASSUME IInv, [Next]_vars PROVE [Abstract!Next]_Abstract!vars
    OBVIOUS
  <2> USE DEF Abstract!Next, Abstract!Push, Abstract!Snapshot, Abstract!Apply,
              Abstract!vars
  <2>1. CASE f__push
    BY <2>1 DEF f__push, collectorVars
  <2>2. CASE f_next_head
    BY <2>2 DEF f_next_head, collectorVars
  <2>3. CASE f_next_check \/ f_wait_return \/ f_next_limit \/ f_tick
    BY <2>3 DEF f_next_check, f_wait_return, f_next_limit, f_tick,
                collectorVars, producerVars
  <2>4. CASE f_epoch_suspend
    <3>1. applied = limit
      BY <2>4, DistType DEF f_epoch_suspend, IInv, TypeOK, SnapshotInv, Taken, Distance
    <3>2. QED
      BY <2>4, <3>1 DEF f_epoch_suspend, producerVars
  <2>5. CASE f__flush_run \/ f_flush_end
    BY <2>5 DEF f__flush_run, f_flush_end, producerVars
  <2>6. CASE f__flush_apply
    <3>1. Distance(v_tail) = 0 /\ Taken = applied + 1 /\ v_tail \in Index
      BY <2>6, DistType DEF f__flush_apply, IInv, TypeOK, Distance, Taken
    <3>2. applied < limit
      BY <3>1, DistType DEF IInv, TypeOK, SnapshotInv, Distance
    <3>3. v_objects[v_tail] = applied + 1
      BY <2>6, <3>1, <3>2 DEF f__flush_apply, IInv, TypeOK, EntriesInv, SnapshotInv
    <3>4. QED
      BY <2>6, <3>2, <3>3 DEF f__flush_apply, producerVars
  <2>7. CASE UNCHANGED vars
    BY <2>7 DEF vars, producerVars, collectorVars
  <2>8. QED
    BY <2>1, <2>2, <2>3, <2>4, <2>5, <2>6, <2>7 DEF Next, Mutator, Collector
<1>3. QED
  BY Invariance, <1>1, <1>2, PTL DEF Spec, AbstractSpec, Abstract!Spec
=============================================================================
