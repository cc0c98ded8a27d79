--------------------------- MODULE ThreadsProofs ----------------------------
(***************************************************************************)
(* Proofs about Threads for any number of threads and any amount of work.  *)
(*                                                                         *)
(* The inductive invariant has five parts besides the types.  PlaceInv     *)
(* ties v_done to where a thread is.  ListInv says that the list holds     *)
(* exactly the threads that are not over, youngest first.  QueueInv says   *)
(* how much of its queues is left to a thread that has ended.  ChildInv is *)
(* the account of a t_thread object: only the thread that forked it, its   *)
(* parent, and the thread itself ever queue a count of it, and v_count is  *)
(* what is owed plus what is queued.  ShutInv says how far all threads are *)
(* for each call of f_wait in ~t_engine.                                   *)
(***************************************************************************)
EXTENDS Threads, FiniteSetTheorems, SequenceTheorems, TLAPS

Unborn == {"none", "forked", "start"}
Over == {"failed", "gone", "wait", "waiting", "quit", "quitting", "end"}
Holding == {"start", "run", "fork_new", "fork_hold", "spawn", "fork_failed", "join",
            "join_sleep", "release", "exit", "exit_sleep"}
Active == (Holding \ {"start"}) \cup {"finalize", "finalize_done"}
MainOnly == {"exit", "exit_sleep", "wait", "waiting", "quit", "quitting", "end"}
Closing == {"release", "finalize", "finalize_done"}

Places == Unborn \cup Active \cup Over

PlaceTypes ==
  /\ pc \in [Ids -> Places] /\ other \in [Ids -> Ids]
  /\ v_done \in [Ids -> -1 .. 3]
  /\ stack \in [Ids -> SUBSET Ids]

ListTypes ==
  /\ v_thread__internals \in Seq(Ids)
  /\ cursor \in 1 .. Len(v_thread__internals) + 1

QueueTypes ==
  /\ increments \in [Ids -> Seq(Ids)] /\ decrements \in [Ids -> Seq(Ids \cup {Work})]
  /\ v_epoch \in [Ids -> [inc : Nat, dec : Nat]] /\ v_last \in [Ids -> Nat]
  /\ last \in [Ids -> SUBSET Ids]
  /\ v_count \in [Ids -> Int]

EngineTypes ==
  /\ v_internal \in [Ids -> BOOLEAN]
  /\ waits \in 0 .. 5
  /\ running \in BOOLEAN /\ quitting \in BOOLEAN
  /\ collector \in {"wait", "epoch", "round", "quit"}

TypesInv == PlaceTypes /\ ListTypes /\ QueueTypes /\ EngineTypes

PlaceInv ==
  /\ \A t \in Ids :
       /\ v_done[t] = -1 <=> pc[t] \in Unborn
       /\ v_done[t] = 0 <=> pc[t] \in Active
       /\ pc[t] \in MainOnly => t = Main
  /\ pc[Main] \notin Unborn \cup {"failed", "gone"}

Listed(t) == \E i \in 1 .. Len(v_thread__internals) : v_thread__internals[i] = t

\* The collector has yet to visit t in this epoch.
Ahead(t) ==
  \E i \in 1 .. Len(v_thread__internals) : cursor <= i /\ v_thread__internals[i] = t

ListInv ==
  /\ \A i, j \in 1 .. Len(v_thread__internals) :
       i < j => v_thread__internals[i] > v_thread__internals[j]
  /\ \A t \in Ids : Listed(t) <=> pc[t] # "none" /\ v_done[t] < 3
  /\ \A t, u \in Ids : t < u /\ pc[u] # "none" => pc[t] # "none"
  /\ collector # "epoch" => cursor = 1

Ended == Finished \cup {"finalize_done"}
Fresh == Unborn \cup {"failed"}
Rootless == Unborn \cup Closing \cup Over \cup {"exit", "exit_sleep"}

QueueInv ==
  \A t \in Ids :
    /\ v_last[t] <= Len(decrements[t])
    /\ pc[t] \in Ended => v_epoch[t] = Heads(t)
    /\ pc[t] \in Fresh =>
         /\ increments[t] = <<>> /\ decrements[t] = <<>>
         /\ v_last[t] = 0 /\ last[t] = {}
    /\ pc[t] \in Rootless => stack[t] = {}
    /\ v_done[t] = 2 => increments[t] = <<>> /\ v_last[t] = Len(decrements[t]) /\ last[t] = {}
    /\ v_done[t] = 3 => increments[t] = <<>> /\ decrements[t] = <<>> /\ last[t] = {}

Forking(t) == pc[t] \in {"fork_new", "fork_hold", "spawn", "fork_failed"}
Joining(t) == pc[t] \in {"join", "join_sleep"}

OtherInv ==
  \A t \in Ids :
    /\ Forking(t) => pc[other[t]] = "forked"
    /\ Joining(t) => other[t] \in stack[t]

\* How often u is queued.
Pending(s, u) == Times(s, Len(s), u)

Inc(t, u) == Pending(increments[t], u)
Dec(t, u) == Pending(decrements[t], u)
One(b) == IF b THEN 1 ELSE 0

\* t has nothing to do with the object of u, unless it is u itself.
Alien(t, u) ==
  /\ ~(Forking(t) /\ other[t] = u)
  /\ Inc(t, u) = 0
  /\ t # u => Dec(t, u) = 0
  /\ u \notin stack[t] /\ u \notin last[t]

Owed(p, u) == One(pc[u] \in Holding \/ (pc[u] = "forked" /\ pc[p] = "spawn"))

Untouched(p, u) ==
  /\ Inc(p, u) = 0 /\ Dec(p, u) = 0
  /\ u \notin stack[p] /\ u \notin last[p]

\* The object of u while its parent is p.
Child(p, u) ==
  /\ \A q \in Ids \ {p} : Alien(q, u)
  /\ pc[u] = "forked" <=> Forking(p) /\ other[p] = u
  /\ v_count[u] + Inc(p, u) = Owed(p, u) + Dec(p, u) + Dec(u, u) + One(u \in last[p])
  /\ pc[u] = "none" \/ (pc[u] = "forked" /\ pc[p] = "fork_new") => Untouched(p, u)
  /\ pc[u] = "forked" /\ pc[p] = "fork_hold" => Inc(p, u) = 0 /\ u \in stack[p]
  /\ pc[u] = "failed" => u \notin stack[p]
  /\ Inc(p, u) <= 1
  /\ u \in stack[p] \/ Inc(p, u) = 1 => Dec(p, u) >= 1 \/ u \in last[p]
  /\ Inc(p, u) = 1 /\ pc[u] \notin {"forked", "failed"} => Owed(p, u) + Dec(u, u) >= 1
  /\ Inc(p, u) = 1 /\ v_last[u] > 0 => collector = "epoch" /\ Ahead(p) /\ ~Ahead(u)

ChildInv ==
  \A u \in Ids \ {Main} : \E p \in Ids : p < u /\ Child(p, u)

\* The object of the main thread is not forked.
MainInv ==
  /\ \A q \in Ids : Alien(q, Main)
  /\ v_count[Main] = One(pc[Main] \in Holding) + Dec(Main, Main)

Done(k) == \A t \in Ids : pc[t] # "none" => v_done[t] >= k

\* How far all threads are before the w-th f_wait.
Level(w) == IF w < 2 THEN 1 ELSE IF w = 2 THEN 2 ELSE 3

ShutInv ==
  /\ collector \in {"epoch", "round"} => running
  /\ collector = "quit" => quitting
  /\ quitting => pc[Main] \in {"quitting", "end"}
  /\ pc[Main] \in Closing \cup Over =>
       \A t \in Ids \ {Main} : pc[t] # "none" => v_done[t] >= 1
  /\ pc[Main] \notin Over => waits = 0
  /\ pc[Main] \in {"wait", "waiting"} => waits < 5 /\ Done(Level(waits))
  /\ pc[Main] = "wait" /\ waits > 0 => collector = "wait" /\ ~running
  /\ pc[Main] = "waiting" /\ waits > 0 =>
       /\ collector = "epoch" =>
            \A t \in Ids : pc[t] # "none" => v_done[t] >= Level(waits + 1) \/ Ahead(t)
       /\ collector = "round" \/ ~running => Done(Level(waits + 1))
  /\ pc[Main] \in {"quit", "quitting", "end"} => Done(3)

IInv ==
  /\ TypesInv /\ PlaceInv /\ ListInv /\ QueueInv /\ OtherInv /\ ChildInv /\ MainInv
  /\ ShutInv

LEMMA IdsFacts ==
  /\ Main \in Ids /\ Work \notin Ids /\ Ids \subseteq Int
  /\ \A t \in Ids : t # Main => Main < t
BY BoundsAssumption DEF Ids, Main, Work
-----------------------------------------------------------------------------
(***************************************************************************)
(* Counting what is queued.                                                *)
(***************************************************************************)
LEMMA TimesFacts ==
  ASSUME NEW S, NEW s \in Seq(S), NEW n \in 0 .. Len(s), NEW u
  PROVE  /\ IsFiniteSet({i \in 1 .. n : s[i] = u})
         /\ Times(s, n, u) \in Nat
         /\ n = 0 => Times(s, n, u) = 0
<1>1. IsFiniteSet(1 .. n)
  BY FS_Interval
<1>2. IsFiniteSet({i \in 1 .. n : s[i] = u})
  BY <1>1, FS_Subset
<1>3. Times(s, n, u) \in Nat
  BY <1>2, FS_CardinalityType DEF Times
<1>4. ASSUME n = 0 PROVE Times(s, n, u) = 0
  <2>1. {i \in 1 .. n : s[i] = u} = {}
    BY <1>4
  <2> QED BY <2>1, FS_EmptySet DEF Times
<1> QED BY <1>2, <1>3, <1>4

LEMMA PendingFacts ==
  ASSUME NEW S, NEW s \in Seq(S), NEW u
  PROVE  /\ Pending(s, u) \in Nat
         /\ s = <<>> => Pending(s, u) = 0
<1>1. Len(s) \in 0 .. Len(s) /\ (s = <<>> => Len(s) = 0)
  OBVIOUS
<1>2. Times(s, Len(s), u) \in Nat /\ (Len(s) = 0 => Times(s, Len(s), u) = 0)
  BY <1>1, TimesFacts
<1> QED BY <1>1, <1>2 DEF Pending

LEMMA PendingAppend ==
  ASSUME NEW S, NEW s \in Seq(S), NEW x \in S, NEW u
  PROVE  Pending(Append(s, x), u) = Pending(s, u) + One(x = u)
<1> DEFINE n == Len(s)
           A == {i \in 1 .. n : s[i] = u}
           B == {i \in 1 .. n + 1 : Append(s, x)[i] = u}
<1>0. n \in Nat /\ n \in 0 .. Len(s) /\ n + 1 \notin A
  OBVIOUS
<1>1. IsFiniteSet(A) /\ n \in Nat /\ n + 1 \notin A /\ Cardinality(A) \in Nat
  <2>1. IsFiniteSet(A)
    BY <1>0, TimesFacts
  <2> HIDE DEF A
  <2> QED BY <1>0, <2>1, FS_CardinalityType
<1>2. Append(s, x)[n + 1] = x /\ Len(Append(s, x)) = n + 1
  BY <1>1
<1>3. CASE x = u
  <2>1. B = A \cup {n + 1}
    BY <1>1, <1>2, <1>3
  <2>2. Cardinality(B) = Cardinality(A) + 1
    BY <1>1, <2>1, FS_AddElement
  <2> QED BY <1>2, <1>3, <2>2 DEF Pending, Times, One
<1>4. CASE x # u
  <2>1. B = A
    BY <1>1, <1>2, <1>4
  <2>2. Pending(Append(s, x), u) = Cardinality(B) /\ Pending(s, u) = Cardinality(A)
    BY <1>2 DEF Pending, Times
  <2> HIDE DEF A, B
  <2> QED BY <1>1, <1>4, <2>1, <2>2 DEF One
<1> QED BY <1>3, <1>4

LEMMA PendingSkip ==
  ASSUME NEW S, NEW s \in Seq(S), NEW n \in 0 .. Len(s), NEW u
  PROVE  /\ Skip(s, n) \in Seq(S) /\ Len(Skip(s, n)) = Len(s) - n
         /\ Pending(Skip(s, n), u) = Pending(s, u) - Times(s, n, u)
         /\ Times(s, n, u) <= Pending(s, u)
<1> DEFINE m == Len(s) - n
           A == {i \in 1 .. n : s[i] = u}
           B == {i \in 1 .. m : Skip(s, n)[i] = u}
           C == {i \in n + 1 .. Len(s) : s[i] = u}
<1>1. Len(s) \in Nat /\ m \in Nat
  OBVIOUS
<1>2. /\ Skip(s, n) \in Seq(S) /\ Len(Skip(s, n)) = m
      /\ \A i \in 1 .. m : Skip(s, n)[i] = s[n + i]
  BY <1>1 DEF Skip
<1>3. IsFiniteSet(A) /\ IsFiniteSet(B) /\ Cardinality(A) \in Nat /\ Cardinality(B) \in Nat
  <2>1. IsFiniteSet(A)
    BY TimesFacts
  <2>2. IsFiniteSet(B)
    BY <1>1, <1>2, m \in 0 .. Len(Skip(s, n)), TimesFacts
  <2> HIDE DEF A, B
  <2> QED BY <2>1, <2>2, FS_CardinalityType
<1>4. IsFiniteSet(C)
  <2>1. IsFiniteSet(n + 1 .. Len(s))
    BY <1>1, FS_Interval
  <2> QED BY <2>1, FS_Subset
<1>5. Cardinality(B) = Cardinality(C)
  <2> DEFINE f == [i \in B |-> n + i]
  <2>1. f \in [B -> C]
    BY <1>1, <1>2
  <2>2. \A i, j \in B : f[i] = f[j] => i = j
    BY <1>1
  <2>3. \A k \in C : \E i \in B : f[i] = k
    <3> TAKE k \in C
    <3>1. k - n \in B /\ f[k - n] = k
      BY <1>1, <1>2
    <3> QED BY <3>1
  <2> HIDE DEF f, B, C
  <2>4. f \in Bijection(B, C)
    BY <2>1, <2>2, <2>3 DEF Bijection, Injection, Surjection, IsInjective
  <2>5. ExistsBijection(B, C)
    BY <2>4 DEF ExistsBijection
  <2> QED BY <2>5, <1>3, FS_Bijection
<1>6. A \cup C = {i \in 1 .. Len(s) : s[i] = u} /\ A \cap C = {}
  BY <1>1
<1>7. Cardinality({i \in 1 .. Len(s) : s[i] = u}) = Cardinality(A) + Cardinality(C)
  <2>1. Cardinality(A \cup C) = Cardinality(A) + Cardinality(C)
    <3> HIDE DEF A, C
    <3>1. Cardinality(A \cup C) = Cardinality(A) + Cardinality(C) - Cardinality(A \cap C)
      BY <1>3, <1>4, FS_Union
    <3>2. Cardinality(A \cap C) = 0 /\ Cardinality(A) \in Nat /\ Cardinality(C) \in Nat
      BY <1>3, <1>4, <1>6, FS_EmptySet, FS_CardinalityType
    <3> QED BY <3>1, <3>2
  <2> QED BY <1>6, <2>1
<1>8. /\ Pending(Skip(s, n), u) = Cardinality(B)
      /\ Pending(s, u) = Cardinality({i \in 1 .. Len(s) : s[i] = u})
      /\ Times(s, n, u) = Cardinality(A)
  BY <1>2 DEF Pending, Times
<1> HIDE DEF A, B, C
<1> QED BY <1>1, <1>2, <1>3, <1>5, <1>7, <1>8
-----------------------------------------------------------------------------
(***************************************************************************)
(* One step.                                                               *)
(***************************************************************************)
USE IdsFacts

\* x is not nearer to its end as far as its queues are concerned.
Keeps(x) ==
  /\ pc'[x] \in Ended => pc[x] \in Ended
  /\ pc'[x] \in Fresh => pc[x] \in Fresh
  /\ pc'[x] \in Rootless => stack'[x] = {}
  /\ v_done'[x] > 1 => v_done'[x] = v_done[x]

LEMMA QueueFrame ==
  ASSUME QueueInv, UNCHANGED <<increments, decrements, v_epoch, v_last, last>>,
         \A x \in Ids : Keeps(x)
  PROVE  QueueInv'
BY DEF QueueInv, Keeps, Heads

LEMMA QueueGrows ==
  ASSUME QueueInv, UNCHANGED <<v_epoch, v_last, last>>, NEW t \in Ids,
         pc'[t] \notin Ended \cup Fresh, v_done'[t] = 0, v_last[t] <= Len(decrements'[t]),
         \A x \in Ids \ {t} : increments'[x] = increments[x] /\ decrements'[x] = decrements[x],
         \A x \in Ids : Keeps(x)
  PROVE  QueueInv'
BY DEF QueueInv, Keeps, Heads

\* t queues a decrement, or an increment, of w.
Decrements(t, w) == decrements' = [decrements EXCEPT ![t] = Append(@, w)]
Increments(t, w) == increments' = [increments EXCEPT ![t] = Append(@, w)]

LEMMA Decrementing ==
  ASSUME IInv, NEW t \in Ids, NEW w \in Ids \cup {Work}, Decrements(t, w)
  PROVE  /\ decrements' \in [Ids -> Seq(Ids \cup {Work})]
         /\ \A x \in Ids : Len(decrements'[x]) >= Len(decrements[x])
         /\ \A q \in Ids : \A u : Dec(q, u)' = IF q = t /\ w = u THEN Dec(q, u) + 1 ELSE Dec(q, u)
<1> USE DEF Decrements
<1>1. decrements \in [Ids -> Seq(Ids \cup {Work})]
  BY DEF IInv, TypesInv, QueueTypes
<1>2. /\ decrements' \in [Ids -> Seq(Ids \cup {Work})]
      /\ \A x \in Ids : Len(decrements'[x]) >= Len(decrements[x])
  BY <1>1
<1>3. ASSUME NEW u
      PROVE  /\ Pending(decrements[t], u) \in Nat
             /\ Pending(decrements'[t], u) = Pending(decrements[t], u) + One(w = u)
  <2> DEFINE S == Ids \cup {Work}
  <2>1. decrements[t] \in Seq(S) /\ decrements'[t] = Append(decrements[t], w) /\ w \in S
    BY <1>1
  <2> HIDE DEF S
  <2>2. Pending(decrements[t], u) \in Nat
    BY <2>1, PendingFacts
  <2>3. Pending(decrements'[t], u) = Pending(decrements[t], u) + One(w = u)
    BY <2>1, PendingAppend
  <2> QED BY <2>2, <2>3
<1>4. \A q \in Ids : \A u : Dec(q, u)' = IF q = t /\ w = u THEN Dec(q, u) + 1 ELSE Dec(q, u)
  BY <1>1, <1>3 DEF Dec, One
<1> QED BY <1>2, <1>4

LEMMA Incrementing ==
  ASSUME IInv, NEW t \in Ids, NEW w \in Ids, Increments(t, w)
  PROVE  /\ increments' \in [Ids -> Seq(Ids)]
         /\ \A q \in Ids : \A u : Inc(q, u)' = IF q = t /\ w = u THEN Inc(q, u) + 1 ELSE Inc(q, u)
<1> USE DEF Increments
<1>1. increments \in [Ids -> Seq(Ids)]
  BY DEF IInv, TypesInv, QueueTypes
<1>2. increments' \in [Ids -> Seq(Ids)]
  BY <1>1
<1>3. ASSUME NEW u
      PROVE  /\ Pending(increments[t], u) \in Nat
             /\ Pending(increments'[t], u) = Pending(increments[t], u) + One(w = u)
  <2> DEFINE S == Ids
  <2>1. increments[t] \in Seq(S) /\ increments'[t] = Append(increments[t], w) /\ w \in S
    BY <1>1
  <2> HIDE DEF S
  <2>2. Pending(increments[t], u) \in Nat
    BY <2>1, PendingFacts
  <2>3. Pending(increments'[t], u) = Pending(increments[t], u) + One(w = u)
    BY <2>1, PendingAppend
  <2> QED BY <2>2, <2>3
<1>4. \A q \in Ids : \A u : Inc(q, u)' = IF q = t /\ w = u THEN Inc(q, u) + 1 ELSE Inc(q, u)
  BY <1>1, <1>3 DEF Inc, One
<1> QED BY <1>2, <1>4

LEMMA PendingEmpty ==
  ASSUME NEW u
  PROVE  Pending(<<>>, u) = 0
<1>1. <<>> \in Seq(Int)
  OBVIOUS
<1> QED BY <1>1, PendingFacts

LEMMA PendingNat ==
  ASSUME IInv, NEW t \in Ids, NEW u
  PROVE  Inc(t, u) \in Nat /\ Dec(t, u) \in Nat
BY PendingFacts DEF IInv, TypesInv, QueueTypes, Inc, Dec

\* A thread that is forked has one parent.
LEMMA OneParent ==
  ASSUME IInv, NEW t \in Ids, Forking(t)
  PROVE  /\ other[t] \in Ids /\ other[t] # Main /\ pc[other[t]] = "forked" /\ v_done[other[t]] = -1
         /\ \A x \in Ids : Forking(x) /\ other[x] = other[t] => x = t
         /\ \A p \in Ids : Child(p, other[t]) => p = t
<1>1. other[t] \in Ids /\ pc[other[t]] = "forked" /\ v_done[other[t]] = -1
  BY DEF IInv, TypesInv, PlaceTypes, OtherInv, PlaceInv, Unborn
<1>2. other[t] # Main
  BY <1>1 DEF IInv, PlaceInv, Unborn
<1>3. \A p \in Ids : Child(p, other[t]) => p = t
  BY DEF Child, Alien
<1>4. PICK p \in Ids : Child(p, other[t])
  BY <1>1, <1>2 DEF IInv, ChildInv
<1>5. \A x \in Ids : Forking(x) /\ other[x] = other[t] => x = p
  BY <1>4 DEF Child, Alien
<1> QED BY <1>1, <1>2, <1>3, <1>5

\* The parent starts the thread, or fails to.
LEMMA Spawning ==
  ASSUME IInv, NEW t \in Ids,
         f_fork_spawn(t) \/ f_fork_failed(t)
  PROVE  IInv'
<1> USE DEF f_fork_spawn, f_fork_failed, Go, Unlocked, threadVars, collectorVars
<1> USE DEF IInv, TypesInv
<1>1. TypesInv'
  <2>1. PlaceTypes'
    BY DEF PlaceTypes, Places, Unborn, Active, Holding, Over
  <2>2. ListTypes'
    BY DEF ListTypes
  <2>3. QueueTypes'
    BY DEF QueueTypes
  <2>4. EngineTypes'
    BY DEF EngineTypes
  <2> QED BY <2>1, <2>2, <2>3, <2>4
<1>2. PlaceInv'
  BY DEF PlaceTypes, PlaceInv, OtherInv, Forking, Unborn, Active, Holding, Over, MainOnly
<1>0. /\ other[t] \in Ids /\ other[t] # Main /\ pc[other[t]] = "forked" /\ v_done[other[t]] = -1
      /\ \A x \in Ids : Forking(x) /\ other[x] = other[t] => x = t
      /\ \A p \in Ids : Child(p, other[t]) => p = t
  BY OneParent DEF Forking
<1>3. ListInv'
  <2>1. /\ \A x \in Ids : pc[x] = "none" <=> pc'[x] = "none"
        /\ \A x \in Ids : v_done[x] < 3 <=> v_done'[x] < 3
    BY <1>0 DEF PlaceTypes
  <2> QED BY <2>1 DEF ListInv, Listed
<1>4. QueueInv'
  <2>1. \A x \in Ids : Keeps(x)
    BY <1>0 DEF PlaceTypes, PlaceInv, QueueInv, Keeps, Ended, Finished, Fresh, Rootless, Unborn, Closing, Over
  <2> QED BY <2>1, QueueFrame
<1>5. OtherInv'
  <2>1. \A x \in Ids : Forking(x)' => Forking(x) /\ x # t
    BY <1>0 DEF PlaceTypes, Forking
  <2>2. \A x \in Ids : Forking(x)' => pc'[other'[x]] = "forked"
    <3>1. \A x \in Ids : Forking(x)' =>
            other[x] \in Ids /\ pc[other[x]] = "forked" /\ other[x] # other[t] /\ other[x] # t
      BY <1>0, <2>1 DEF PlaceTypes, OtherInv
    <3> QED BY <3>1 DEF PlaceTypes
  <2>3. \A x \in Ids : Joining(x)' => Joining(x) /\ stack'[x] = stack[x]
    BY <1>0 DEF PlaceTypes, Joining
  <2> QED BY <2>2, <2>3 DEF PlaceTypes, OtherInv
<1>6. ASSUME NEW u \in Ids \ {Main}, NEW p \in Ids, p < u, Child(p, u)
      PROVE  Child(p, u)'
  <2> USE <1>6 DEF PlaceTypes, Child, Inc, Dec
  <2>1. \A q \in Ids \ {p} : Alien(q, u)'
    <3>1. \A q \in Ids : Forking(q)' => Forking(q)
      BY <1>0 DEF Forking
    <3> QED BY <3>1 DEF Alien
  <2>2. Ahead(p)' = Ahead(p) /\ Ahead(u)' = Ahead(u)
    BY DEF Ahead
  <2>3. CASE other[t] = u
    <3>1. p = t /\ p # u
      BY <1>0, <2>3
    <3>2. CASE f_fork_spawn(t)
      <4>1. pc'[u] = "start" /\ pc'[p] = "run" /\ Owed(p, u) = 1 /\ Owed(p, u)' = 1
        BY <1>0, <2>3, <3>1, <3>2 DEF One, Owed, Holding
      <4> QED BY <2>1, <2>2, <3>2, <4>1, PendingNat DEF Forking, One
    <3>3. CASE f_fork_failed(t)
      <4>1. /\ pc'[u] = "failed" /\ pc'[p] = "run" /\ Owed(p, u) = 0 /\ Owed(p, u)' = 0
            /\ stack'[p] = stack[p] \ {u}
        BY <1>0, <2>3, <3>1, <3>3 DEF One, Owed, Holding
      <4> QED BY <2>1, <2>2, <3>3, <4>1 DEF Forking, One
    <3> QED BY <3>2, <3>3
  <2>4. CASE other[t] # u
    <3>1. Owed(p, u)' = Owed(p, u) /\ (pc'[u] = "forked" <=> pc[u] = "forked")
      BY <1>0, <2>4 DEF Owed, Forking, Holding
    <3>2. pc'[u] = "forked" <=> Forking(p)' /\ other'[p] = u
      BY <1>0, <2>4 DEF Forking
    <3>3. Untouched(p, u) => Untouched(p, u)'
      BY DEF Untouched
    <3> QED BY <1>0, <2>1, <2>2, <2>4, <3>1, <3>2, <3>3 DEF One, Forking
  <2> QED BY <2>3, <2>4
<1>7. ChildInv'
  BY <1>6 DEF ChildInv
<1>8. MainInv'
  BY DEF PlaceTypes, PlaceInv, OtherInv, MainInv, Alien, One, Inc, Dec, Forking, Unborn, Holding
<1>9. ShutInv'
  BY DEF PlaceTypes, PlaceInv, OtherInv, ShutInv, Done, Ahead, Level, Forking, Unborn, Active, Holding, Over, Closing
<1> QED BY <1>1, <1>2, <1>3, <1>4, <1>5, <1>7, <1>8, <1>9

\* f_fork makes the object.
LEMMA Allocating ==
  ASSUME IInv, NEW t \in Ids,
         f_fork_new(t)
  PROVE  IInv'
<1> USE DEF f_fork_new, Go, Unlocked, threadVars, collectorVars
<1>0. /\ other[t] \in Ids /\ other[t] # Main /\ pc[other[t]] = "forked" /\ v_done[other[t]] = -1
      /\ \A x \in Ids : Forking(x) /\ other[x] = other[t] => x = t
      /\ \A p \in Ids : Child(p, other[t]) => p = t
      /\ decrements' \in [Ids -> Seq(Ids \cup {Work})]
      /\ \A x \in Ids : Len(decrements'[x]) >= Len(decrements[x])
      /\ \A q \in Ids : \A u : Dec(q, u)' = IF q = t /\ other[t] = u THEN Dec(q, u) + 1 ELSE Dec(q, u)
      /\ \A q \in Ids : \A u : Inc(q, u)' = Inc(q, u)
      /\ \A q \in Ids : \A u : Inc(q, u) \in Nat /\ Dec(q, u) \in Nat
  <2>1. Forking(t)
    BY DEF Forking
  <2>2. /\ other[t] \in Ids /\ other[t] # Main /\ pc[other[t]] = "forked" /\ v_done[other[t]] = -1
        /\ \A x \in Ids : Forking(x) /\ other[x] = other[t] => x = t
        /\ \A p \in Ids : Child(p, other[t]) => p = t
    BY <2>1, OneParent
  <2>3. /\ decrements' \in [Ids -> Seq(Ids \cup {Work})]
        /\ \A x \in Ids : Len(decrements'[x]) >= Len(decrements[x])
        /\ \A q \in Ids : \A u : Dec(q, u)' = IF q = t /\ other[t] = u THEN Dec(q, u) + 1 ELSE Dec(q, u)
    <3>1. Decrements(t, other[t]) /\ other[t] \in Ids \cup {Work}
      BY <2>2 DEF Decrements
    <3> QED BY <3>1, Decrementing
  <2>4. \A q \in Ids : \A u : Inc(q, u)' = Inc(q, u)
    BY DEF Inc
  <2> QED BY <2>2, <2>3, <2>4, PendingNat
<1> USE DEF IInv, TypesInv
<1>1. TypesInv'
  <2>1. PlaceTypes'
    BY <1>0 DEF PlaceTypes, Places, Unborn, Active, Holding, Over
  <2>2. ListTypes'
    BY DEF ListTypes
  <2>3. QueueTypes'
    <3>1. v_count' \in [Ids -> Int]
      BY <1>0 DEF QueueTypes
    <3> QED BY <1>0, <3>1 DEF QueueTypes
  <2>4. EngineTypes'
    BY <1>0 DEF EngineTypes
  <2> QED BY <2>1, <2>2, <2>3, <2>4
<1>2. PlaceInv'
  BY DEF PlaceTypes, PlaceInv, OtherInv, Forking, Unborn, Active, Holding, Over, MainOnly
<1>3. ListInv'
  BY DEF PlaceTypes, PlaceInv, ListInv, OtherInv, Forking, Listed, Unborn, Active, Holding
<1>4. QueueInv'
  <2>1. \A x \in Ids : Keeps(x)
    BY <1>0 DEF PlaceTypes, PlaceInv, QueueInv, Keeps, Ended, Finished, Fresh, Rootless, Unborn, Closing, Over, Active, Holding
  <2>2. pc'[t] \notin Ended \cup Fresh /\ v_done'[t] = 0
    BY <1>0 DEF PlaceTypes, PlaceInv, Ended, Finished, Fresh, Unborn, Active, Holding
  <2>3. /\ v_last[t] <= Len(decrements'[t])
        /\ \A x \in Ids \ {t} : increments'[x] = increments[x] /\ decrements'[x] = decrements[x]
    BY <1>0 DEF QueueTypes, QueueInv
  <2> QED BY <2>1, <2>2, <2>3, QueueGrows
<1>5. OtherInv'
  <2>1. \A x \in Ids : Forking(x)' => Forking(x) /\ pc'[other[x]] = pc[other[x]]
    BY <1>0 DEF PlaceTypes, OtherInv, Forking
  <2>2. \A x \in Ids : Joining(x)' => Joining(x) /\ stack'[x] = stack[x]
    BY <1>0 DEF PlaceTypes, Joining
  <2> QED BY <2>1, <2>2 DEF PlaceTypes, OtherInv
<1>6. ASSUME NEW u \in Ids \ {Main}, NEW p \in Ids, p < u, Child(p, u)
      PROVE  Child(p, u)'
  <2> USE <1>6 DEF PlaceTypes, Child
  <2>1. \A q \in Ids \ {p} : Alien(q, u)'
    <3>1. \A q \in Ids : Forking(q)' => Forking(q)
      BY <1>0 DEF Forking
    <3> QED BY <1>0, <3>1 DEF Alien
  <2>2. Ahead(p)' = Ahead(p) /\ Ahead(u)' = Ahead(u)
    BY DEF Ahead
  <2>3. CASE other[t] = u
    <3>1. p = t /\ p # u /\ pc'[u] = "forked" /\ Forking(p)'
      BY <1>0, <2>3 DEF Forking
    <3>2. Untouched(t, u) /\ Dec(u, u) = 0
      <4>1. Dec(u, u) = 0
        BY <1>0, <2>3, PendingEmpty DEF QueueInv, Fresh, Unborn, Dec
      <4> QED BY <1>0, <2>3, <3>1, <4>1
    <3>3. /\ Inc(p, u)' = 0 /\ Dec(p, u)' = 1 /\ Dec(u, u)' = 0 /\ v_count'[u] = 1
          /\ u \in stack'[p] /\ u \notin last'[p]
      BY <1>0, <2>3, <3>1, <3>2 DEF QueueTypes, Untouched
    <3>4. Owed(p, u)' = 0
      BY <2>3, <3>1 DEF Owed, Holding, One
    <3> QED BY <2>1, <2>3, <3>1, <3>3, <3>4 DEF One, Forking
  <2>4. CASE other[t] # u
    <3>1. Owed(p, u)' = Owed(p, u) /\ (pc'[u] = "forked" <=> pc[u] = "forked")
      BY <1>0, <2>4 DEF Owed, Forking, Holding
    <3>2. pc'[u] = "forked" <=> Forking(p)' /\ other'[p] = u
      BY <1>0, <2>4 DEF Forking
    <3>3. Inc(p, u)' = Inc(p, u) /\ Dec(p, u)' = Dec(p, u) /\ Dec(u, u)' = Dec(u, u) /\ v_count'[u] = v_count[u]
      BY <1>0, <2>4 DEF QueueTypes
    <3>4. u \in stack'[p] <=> u \in stack[p]
      BY <1>0, <2>4
    <3>5. Untouched(p, u) => Untouched(p, u)'
      BY <3>3, <3>4 DEF Untouched
    <3> QED BY <2>1, <2>2, <2>4, <3>1, <3>2, <3>3, <3>4, <3>5 DEF One, Forking
  <2> QED BY <2>3, <2>4
<1>7. ChildInv'
  BY <1>6 DEF ChildInv
<1>8. MainInv'
  <2>1. \A q \in Ids : Forking(q)' => Forking(q)
    BY <1>0 DEF PlaceTypes, Forking
  <2>2. \A q \in Ids : Alien(q, Main)'
    BY <1>0, <2>1 DEF PlaceTypes, MainInv, Alien
  <2>3. /\ v_count'[Main] = v_count[Main] /\ Dec(Main, Main)' = Dec(Main, Main)
        /\ pc'[Main] \in Holding <=> pc[Main] \in Holding
    BY <1>0 DEF PlaceTypes, QueueTypes, Holding
  <2> QED BY <2>2, <2>3 DEF MainInv, One
<1>9. ShutInv'
  BY DEF PlaceTypes, PlaceInv, OtherInv, ShutInv, Done, Ahead, Level, Forking, Unborn, Active, Holding, Over, Closing
<1> QED BY <1>1, <1>2, <1>3, <1>4, <1>5, <1>7, <1>8, <1>9

\* f_fork takes the count the thread will own.
LEMMA Holds ==
  ASSUME IInv, NEW t \in Ids,
         f_fork_hold(t)
  PROVE  IInv'
<1> USE DEF f_fork_hold, Go, Unlocked, threadVars, collectorVars
<1>0. /\ other[t] \in Ids /\ other[t] # Main /\ pc[other[t]] = "forked" /\ v_done[other[t]] = -1
      /\ \A x \in Ids : Forking(x) /\ other[x] = other[t] => x = t
      /\ \A p \in Ids : Child(p, other[t]) => p = t
      /\ increments' \in [Ids -> Seq(Ids)]
      /\ \A x \in Ids : Len(decrements'[x]) >= Len(decrements[x])
      /\ \A q \in Ids : \A u : Inc(q, u)' = IF q = t /\ other[t] = u THEN Inc(q, u) + 1 ELSE Inc(q, u)
      /\ \A q \in Ids : \A u : Dec(q, u)' = Dec(q, u)
      /\ \A q \in Ids : \A u : Inc(q, u) \in Nat /\ Dec(q, u) \in Nat
  <2>1. Forking(t)
    BY DEF Forking
  <2>2. /\ other[t] \in Ids /\ other[t] # Main /\ pc[other[t]] = "forked" /\ v_done[other[t]] = -1
        /\ \A x \in Ids : Forking(x) /\ other[x] = other[t] => x = t
        /\ \A p \in Ids : Child(p, other[t]) => p = t
    BY <2>1, OneParent
  <2>3. /\ increments' \in [Ids -> Seq(Ids)]
        /\ \A q \in Ids : \A u : Inc(q, u)' = IF q = t /\ other[t] = u THEN Inc(q, u) + 1 ELSE Inc(q, u)
    BY <2>2, Incrementing DEF Increments
  <2>4. \A x \in Ids : Len(decrements'[x]) >= Len(decrements[x])
    BY DEF IInv, TypesInv, QueueTypes
  <2>5. \A q \in Ids : \A u : Dec(q, u)' = Dec(q, u)
    BY DEF Dec
  <2> QED BY <2>2, <2>3, <2>4, <2>5, PendingNat
<1> USE DEF IInv, TypesInv
<1>1. TypesInv'
  <2>1. PlaceTypes'
    BY <1>0 DEF PlaceTypes, Places, Unborn, Active, Holding, Over
  <2>2. ListTypes'
    BY DEF ListTypes
  <2>3. QueueTypes'
    <3>1. v_count' \in [Ids -> Int]
      BY <1>0 DEF QueueTypes
    <3> QED BY <1>0, <3>1 DEF QueueTypes
  <2>4. EngineTypes'
    BY <1>0 DEF EngineTypes
  <2> QED BY <2>1, <2>2, <2>3, <2>4
<1>2. PlaceInv'
  BY DEF PlaceTypes, PlaceInv, OtherInv, Forking, Unborn, Active, Holding, Over, MainOnly
<1>3. ListInv'
  BY DEF PlaceTypes, PlaceInv, ListInv, OtherInv, Forking, Listed, Unborn, Active, Holding
<1>4. QueueInv'
  <2>1. \A x \in Ids : Keeps(x)
    BY <1>0 DEF PlaceTypes, PlaceInv, QueueInv, Keeps, Ended, Finished, Fresh, Rootless, Unborn, Closing, Over, Active, Holding
  <2>2. pc'[t] \notin Ended \cup Fresh /\ v_done'[t] = 0
    BY <1>0 DEF PlaceTypes, PlaceInv, Ended, Finished, Fresh, Unborn, Active, Holding
  <2>3. /\ v_last[t] <= Len(decrements'[t])
        /\ \A x \in Ids \ {t} : increments'[x] = increments[x] /\ decrements'[x] = decrements[x]
    BY <1>0 DEF QueueTypes, QueueInv
  <2> QED BY <2>1, <2>2, <2>3, QueueGrows
<1>5. OtherInv'
  <2>1. \A x \in Ids : Forking(x)' => Forking(x) /\ pc'[other[x]] = pc[other[x]]
    BY <1>0 DEF PlaceTypes, OtherInv, Forking
  <2>2. \A x \in Ids : Joining(x)' => Joining(x) /\ stack'[x] = stack[x]
    BY <1>0 DEF PlaceTypes, Joining
  <2> QED BY <2>1, <2>2 DEF PlaceTypes, OtherInv
<1>6. ASSUME NEW u \in Ids \ {Main}, NEW p \in Ids, p < u, Child(p, u)
      PROVE  Child(p, u)'
  <2> USE <1>6 DEF PlaceTypes, Child
  <2>1. \A q \in Ids \ {p} : Alien(q, u)'
    <3>1. \A q \in Ids : Forking(q)' => Forking(q)
      BY <1>0 DEF Forking
    <3> QED BY <1>0, <3>1 DEF Alien
  <2>2. Ahead(p)' = Ahead(p) /\ Ahead(u)' = Ahead(u)
    BY DEF Ahead
  <2>3. CASE other[t] = u
    <3>1. p = t /\ p # u /\ pc'[u] = "forked" /\ Forking(p)'
      BY <1>0, <2>3 DEF Forking
    <3>2. Inc(p, u)' = 1 /\ Inc(p, u) = 0 /\ Dec(p, u)' = Dec(p, u) /\ Dec(u, u)' = Dec(u, u)
      <4>1. Inc(p, u) = 0
        BY <1>0, <2>3, <3>1
      <4> HIDE <1>6 DEF Child, IInv, TypesInv, PlaceTypes, f_fork_hold
      <4> QED BY <1>0, <2>3, <3>1, <4>1
    <3>3. Owed(p, u) = 0 /\ Owed(p, u)' = 1 /\ v_last[u] = 0
      <4> HIDE DEF Child
      <4>1. pc[u] = "forked" /\ pc[p] = "fork_hold" /\ pc'[p] = "spawn"
        BY <1>0, <2>3, <3>1
      <4>2. v_last[u] = 0
        BY <4>1 DEF QueueInv, Fresh, Unborn
      <4> HIDE DEF IInv, f_fork_hold
      <4> QED BY <3>1, <4>1, <4>2 DEF Owed, Holding, One
    <3>4. /\ v_count[u] \in Int /\ v_count'[u] = v_count[u]
          /\ Inc(p, u) \in Nat /\ Dec(p, u) \in Nat /\ Dec(u, u) \in Nat
          /\ One(u \in last[p]) \in Nat
      BY <1>0 DEF QueueTypes, One
    <3>5. /\ v_count'[u] + Inc(p, u)' = Owed(p, u)' + Dec(p, u)' + Dec(u, u)' + One(u \in last[p])
          /\ Owed(p, u)' + Dec(u, u)' >= 1
      BY <3>2, <3>3, <3>4
    <3>6. Dec(p, u)' >= 1 \/ u \in last[p]
      BY <1>0, <2>3, <3>1, <3>2
    <3> QED BY <2>1, <2>3, <3>1, <3>2, <3>3, <3>5, <3>6
  <2>4. CASE other[t] # u
    <3>1. Owed(p, u)' = Owed(p, u) /\ (pc'[u] = "forked" <=> pc[u] = "forked")
      BY <1>0, <2>4 DEF Owed, Forking, Holding
    <3>2. pc'[u] = "forked" <=> Forking(p)' /\ other'[p] = u
      BY <1>0, <2>4 DEF Forking
    <3>3. Inc(p, u)' = Inc(p, u) /\ Dec(p, u)' = Dec(p, u) /\ Dec(u, u)' = Dec(u, u) /\ v_count'[u] = v_count[u]
      BY <1>0, <2>4 DEF QueueTypes
    <3>4. u \in stack'[p] <=> u \in stack[p]
      BY <1>0, <2>4
    <3>5. Untouched(p, u) => Untouched(p, u)'
      BY <3>3, <3>4 DEF Untouched
    <3> QED BY <2>1, <2>2, <2>4, <3>1, <3>2, <3>3, <3>4, <3>5 DEF One, Forking
  <2> QED BY <2>3, <2>4
<1>7. ChildInv'
  BY <1>6 DEF ChildInv
<1>8. MainInv'
  <2>1. \A q \in Ids : Forking(q)' => Forking(q)
    BY <1>0 DEF PlaceTypes, Forking
  <2>2. \A q \in Ids : Alien(q, Main)'
    BY <1>0, <2>1 DEF PlaceTypes, MainInv, Alien
  <2>3. /\ v_count'[Main] = v_count[Main] /\ Dec(Main, Main)' = Dec(Main, Main)
        /\ pc'[Main] \in Holding <=> pc[Main] \in Holding
    BY <1>0 DEF PlaceTypes, QueueTypes, Holding
  <2> QED BY <2>2, <2>3 DEF MainInv, One
<1>9. ShutInv'
  BY DEF PlaceTypes, PlaceInv, OtherInv, ShutInv, Done, Ahead, Level, Forking, Unborn, Active, Holding, Over, Closing
<1> QED BY <1>1, <1>2, <1>3, <1>4, <1>5, <1>7, <1>8, <1>9

\* The thread cannot be started.
LEMMA Failing ==
  ASSUME IInv, NEW t \in Ids,
         f_fork_fail(t)
  PROVE  IInv'
<1> USE DEF f_fork_fail, Go, Unlocked, threadVars, collectorVars
<1>0. /\ other[t] \in Ids /\ other[t] # Main /\ pc[other[t]] = "forked" /\ v_done[other[t]] = -1
      /\ \A x \in Ids : Forking(x) /\ other[x] = other[t] => x = t
      /\ \A p \in Ids : Child(p, other[t]) => p = t
      /\ decrements' \in [Ids -> Seq(Ids \cup {Work})]
      /\ \A x \in Ids : Len(decrements'[x]) >= Len(decrements[x])
      /\ \A q \in Ids : \A u : Dec(q, u)' = IF q = t /\ other[t] = u THEN Dec(q, u) + 1 ELSE Dec(q, u)
      /\ \A q \in Ids : \A u : Inc(q, u)' = Inc(q, u)
      /\ \A q \in Ids : \A u : Inc(q, u) \in Nat /\ Dec(q, u) \in Nat
  <2>1. Forking(t)
    BY DEF Forking
  <2>2. /\ other[t] \in Ids /\ other[t] # Main /\ pc[other[t]] = "forked" /\ v_done[other[t]] = -1
        /\ \A x \in Ids : Forking(x) /\ other[x] = other[t] => x = t
        /\ \A p \in Ids : Child(p, other[t]) => p = t
    BY <2>1, OneParent
  <2>3. /\ decrements' \in [Ids -> Seq(Ids \cup {Work})]
        /\ \A x \in Ids : Len(decrements'[x]) >= Len(decrements[x])
        /\ \A q \in Ids : \A u : Dec(q, u)' = IF q = t /\ other[t] = u THEN Dec(q, u) + 1 ELSE Dec(q, u)
    <3>1. Decrements(t, other[t]) /\ other[t] \in Ids \cup {Work}
      BY <2>2 DEF Decrements
    <3> QED BY <3>1, Decrementing
  <2>4. \A q \in Ids : \A u : Inc(q, u)' = Inc(q, u)
    BY DEF Inc
  <2> QED BY <2>2, <2>3, <2>4, PendingNat
<1> USE DEF IInv, TypesInv
<1>1. TypesInv'
  <2>1. PlaceTypes'
    BY <1>0 DEF PlaceTypes, Places, Unborn, Active, Holding, Over
  <2>2. ListTypes'
    BY DEF ListTypes
  <2>3. QueueTypes'
    <3>1. v_count' \in [Ids -> Int]
      BY <1>0 DEF QueueTypes
    <3> QED BY <1>0, <3>1 DEF QueueTypes
  <2>4. EngineTypes'
    BY <1>0 DEF EngineTypes
  <2> QED BY <2>1, <2>2, <2>3, <2>4
<1>2. PlaceInv'
  BY DEF PlaceTypes, PlaceInv, OtherInv, Forking, Unborn, Active, Holding, Over, MainOnly
<1>3. ListInv'
  BY DEF PlaceTypes, PlaceInv, ListInv, OtherInv, Forking, Listed, Unborn, Active, Holding
<1>4. QueueInv'
  <2>1. \A x \in Ids : Keeps(x)
    BY <1>0 DEF PlaceTypes, PlaceInv, QueueInv, Keeps, Ended, Finished, Fresh, Rootless, Unborn, Closing, Over, Active, Holding
  <2>2. pc'[t] \notin Ended \cup Fresh /\ v_done'[t] = 0
    BY <1>0 DEF PlaceTypes, PlaceInv, Ended, Finished, Fresh, Unborn, Active, Holding
  <2>3. /\ v_last[t] <= Len(decrements'[t])
        /\ \A x \in Ids \ {t} : increments'[x] = increments[x] /\ decrements'[x] = decrements[x]
    BY <1>0 DEF QueueTypes, QueueInv
  <2> QED BY <2>1, <2>2, <2>3, QueueGrows
<1>5. OtherInv'
  <2>1. \A x \in Ids : Forking(x)' => Forking(x) /\ pc'[other[x]] = pc[other[x]]
    BY <1>0 DEF PlaceTypes, OtherInv, Forking
  <2>2. \A x \in Ids : Joining(x)' => Joining(x) /\ stack'[x] = stack[x]
    BY <1>0 DEF PlaceTypes, Joining
  <2> QED BY <2>1, <2>2 DEF PlaceTypes, OtherInv
<1>6. ASSUME NEW u \in Ids \ {Main}, NEW p \in Ids, p < u, Child(p, u)
      PROVE  Child(p, u)'
  <2> USE <1>6 DEF PlaceTypes, Child
  <2>1. \A q \in Ids \ {p} : Alien(q, u)'
    <3>1. \A q \in Ids : Forking(q)' => Forking(q)
      BY <1>0 DEF Forking
    <3> QED BY <1>0, <3>1 DEF Alien
  <2>2. Ahead(p)' = Ahead(p) /\ Ahead(u)' = Ahead(u)
    BY DEF Ahead
  <2>3. CASE other[t] = u
    <3>1. p = t /\ p # u /\ pc'[u] = "forked" /\ Forking(p)'
      BY <1>0, <2>3 DEF Forking
    <3>2. Dec(p, u)' = Dec(p, u) + 1 /\ Inc(p, u)' = Inc(p, u) /\ Dec(u, u)' = Dec(u, u)
      BY <1>0, <2>3, <3>1
    <3>3. Owed(p, u) = 1 /\ Owed(p, u)' = 0
      BY <1>0, <2>3, <3>1 DEF Owed, Holding, One
    <3>4. /\ v_count[u] \in Int /\ v_count'[u] = v_count[u]
          /\ Inc(p, u) \in Nat /\ Dec(p, u) \in Nat /\ Dec(u, u) \in Nat
          /\ One(u \in last[p]) \in Nat
      BY <1>0 DEF QueueTypes, One
    <3>5. v_count'[u] + Inc(p, u)' = Owed(p, u)' + Dec(p, u)' + Dec(u, u)' + One(u \in last[p])
      BY <3>2, <3>3, <3>4
    <3>6. Inc(p, u)' <= 1 /\ Dec(p, u)' >= 1
      <4>1. Inc(p, u) <= 1
        OBVIOUS
      <4> HIDE <1>6 DEF Child, IInv, f_fork_fail
      <4> QED BY <3>2, <3>4, <4>1
    <3> QED BY <2>1, <2>2, <2>3, <3>1, <3>2, <3>5, <3>6
  <2>4. CASE other[t] # u
    <3>1. Owed(p, u)' = Owed(p, u) /\ (pc'[u] = "forked" <=> pc[u] = "forked")
      BY <1>0, <2>4 DEF Owed, Forking, Holding
    <3>2. pc'[u] = "forked" <=> Forking(p)' /\ other'[p] = u
      BY <1>0, <2>4 DEF Forking
    <3>3. Inc(p, u)' = Inc(p, u) /\ Dec(p, u)' = Dec(p, u) /\ Dec(u, u)' = Dec(u, u) /\ v_count'[u] = v_count[u]
      BY <1>0, <2>4 DEF QueueTypes
    <3>4. u \in stack'[p] <=> u \in stack[p]
      BY <1>0, <2>4
    <3>5. Untouched(p, u) => Untouched(p, u)'
      BY <3>3, <3>4 DEF Untouched
    <3> QED BY <2>1, <2>2, <2>4, <3>1, <3>2, <3>3, <3>4, <3>5 DEF One, Forking
  <2> QED BY <2>3, <2>4
<1>7. ChildInv'
  BY <1>6 DEF ChildInv
<1>8. MainInv'
  <2>1. \A q \in Ids : Forking(q)' => Forking(q)
    BY <1>0 DEF PlaceTypes, Forking
  <2>2. \A q \in Ids : Alien(q, Main)'
    BY <1>0, <2>1 DEF PlaceTypes, MainInv, Alien
  <2>3. /\ v_count'[Main] = v_count[Main] /\ Dec(Main, Main)' = Dec(Main, Main)
        /\ pc'[Main] \in Holding <=> pc[Main] \in Holding
    BY <1>0 DEF PlaceTypes, QueueTypes, Holding
  <2> QED BY <2>2, <2>3 DEF MainInv, One
<1>9. ShutInv'
  BY DEF PlaceTypes, PlaceInv, OtherInv, ShutInv, Done, Ahead, Level, Forking, Unborn, Active, Holding, Over, Closing
<1> QED BY <1>1, <1>2, <1>3, <1>4, <1>5, <1>7, <1>8, <1>9

\* A thread queues something else.
LEMMA Working ==
  ASSUME IInv, NEW t \in Ids,
         f_work(t)
  PROVE  IInv'
<1> USE DEF f_work, Go, Unlocked, threadVars, collectorVars
<1>0. /\ decrements' \in [Ids -> Seq(Ids \cup {Work})]
      /\ \A x \in Ids : Len(decrements'[x]) >= Len(decrements[x])
      /\ \A q \in Ids : \A u : Dec(q, u)' = IF q = t /\ Work = u THEN Dec(q, u) + 1 ELSE Dec(q, u)
      /\ \A q \in Ids : \A u : Inc(q, u)' = Inc(q, u)
      /\ \A q \in Ids : \A u : Inc(q, u) \in Nat /\ Dec(q, u) \in Nat
  <2>1. /\ decrements' \in [Ids -> Seq(Ids \cup {Work})]
        /\ \A x \in Ids : Len(decrements'[x]) >= Len(decrements[x])
        /\ \A q \in Ids : \A u : Dec(q, u)' = IF q = t /\ Work = u THEN Dec(q, u) + 1 ELSE Dec(q, u)
    <3>1. Decrements(t, Work)
      BY DEF Decrements
    <3> QED BY <3>1, Decrementing
  <2>2. \A q \in Ids : \A u : Inc(q, u)' = Inc(q, u)
    BY DEF Inc
  <2> QED BY <2>1, <2>2, PendingNat
<1> USE DEF IInv, TypesInv
<1>1. TypesInv'
  <2>1. PlaceTypes'
    BY DEF PlaceTypes, Places, Active, Holding
  <2>2. ListTypes'
    BY DEF ListTypes
  <2>3. QueueTypes'
    BY <1>0 DEF QueueTypes
  <2>4. EngineTypes'
    BY DEF EngineTypes
  <2> QED BY <2>1, <2>2, <2>3, <2>4
<1>2. PlaceInv'
  BY DEF PlaceTypes, PlaceInv, OtherInv, Forking, Unborn, Active, Holding, Over, MainOnly
<1>3. ListInv'
  BY DEF PlaceTypes, PlaceInv, ListInv, OtherInv, Forking, Listed, Unborn, Active, Holding
<1>4. QueueInv'
  <2>1. \A x \in Ids : Keeps(x)
    BY <1>0 DEF PlaceTypes, PlaceInv, QueueInv, Keeps, Ended, Finished, Fresh, Rootless, Unborn, Closing, Over, Active, Holding
  <2>2. pc'[t] \notin Ended \cup Fresh /\ v_done'[t] = 0
    BY <1>0 DEF PlaceTypes, PlaceInv, Ended, Finished, Fresh, Unborn, Active, Holding
  <2>3. /\ v_last[t] <= Len(decrements'[t])
        /\ \A x \in Ids \ {t} : increments'[x] = increments[x] /\ decrements'[x] = decrements[x]
    BY <1>0 DEF QueueTypes, QueueInv
  <2> QED BY <2>1, <2>2, <2>3, QueueGrows
<1>5. OtherInv'
  BY DEF PlaceTypes, OtherInv, QueueInv, Forking, Joining, Unborn
<1>6. ASSUME NEW u \in Ids \ {Main}, NEW p \in Ids, p < u, Child(p, u)
      PROVE  Child(p, u)'
  <2> USE <1>6 DEF PlaceTypes, Child
  <2>1. \A q \in Ids \ {p} : Alien(q, u)'
    <3>1. \A q \in Ids : Forking(q)' <=> Forking(q)
      BY DEF Forking
    <3> QED BY <1>0, <3>1 DEF Alien
  <2>2. Ahead(p)' = Ahead(p) /\ Ahead(u)' = Ahead(u)
    BY DEF Ahead
  <2>3. /\ Inc(p, u)' = Inc(p, u) /\ Dec(p, u)' = Dec(p, u)
        /\ Untouched(p, u)' <=> Untouched(p, u)
    BY <1>0 DEF Untouched
  <2>4. /\ pc'[u] = "forked" <=> Forking(p)' /\ other'[p] = u
        /\ \A k \in Fresh : pc'[u] = k <=> pc[u] = k
        /\ Forking(p) \/ Forking(p)' => pc'[p] = pc[p]
    BY DEF Forking, Fresh, Unborn
  <2>5. Owed(p, u)' + Dec(u, u)' = Owed(p, u) + Dec(u, u) /\ Owed(p, u)' \in Nat /\ Owed(p, u) \in Nat
    BY <1>0 DEF Owed, One
  <2>6. /\ v_count[u] \in Int /\ v_count'[u] = v_count[u]
        /\ Inc(p, u) \in Nat /\ Dec(p, u) \in Nat /\ Dec(u, u) \in Nat /\ Dec(u, u)' \in Nat
    <3>1. v_count[u] \in Int /\ v_count'[u] = v_count[u]
      BY DEF QueueTypes
    <3>2. Inc(p, u) \in Nat /\ Dec(p, u) \in Nat /\ Dec(u, u) \in Nat
      BY <1>0
    <3>3. Dec(u, u)' \in Nat
      BY <1>0, <3>2
    <3> QED BY <3>1, <3>2, <3>3
  <2>7. v_count'[u] + Inc(p, u)' = Owed(p, u)' + Dec(p, u)' + Dec(u, u)' + One(u \in last[p])
    <3>1. One(u \in last[p]) \in Nat
      BY DEF One
    <3>2. v_count[u] + Inc(p, u) = Owed(p, u) + Dec(p, u) + Dec(u, u) + One(u \in last[p])
      BY <1>6
    <3> HIDE DEF Child, IInv, f_work
    <3> QED BY <2>3, <2>5, <2>6, <3>1, <3>2
  <2>8. "none" \in Fresh /\ "forked" \in Fresh /\ "failed" \in Fresh
    BY DEF Fresh, Unborn
  <2> QED BY <2>1, <2>2, <2>3, <2>4, <2>5, <2>6, <2>7, <2>8 DEF Forking
<1>7. ChildInv'
  BY <1>6 DEF ChildInv
<1>8. MainInv'
  BY <1>0 DEF PlaceTypes, MainInv, Alien, One, Forking
<1>9. ShutInv'
  BY DEF PlaceTypes, PlaceInv, OtherInv, ShutInv, Done, Ahead, Level, Forking, Unborn, Active, Holding, Over, Closing
<1> QED BY <1>1, <1>2, <1>3, <1>4, <1>5, <1>7, <1>8, <1>9

\* A thread gives its count back.
LEMMA Releasing ==
  ASSUME IInv, NEW t \in Ids,
         f_release(t)
  PROVE  IInv'
<1> USE DEF f_release, Go, Unlocked, threadVars, collectorVars
<1>0. /\ decrements' \in [Ids -> Seq(Ids \cup {Work})]
      /\ \A x \in Ids : Len(decrements'[x]) >= Len(decrements[x])
      /\ \A q \in Ids : \A u : Dec(q, u)' = IF q = t /\ t = u THEN Dec(q, u) + 1 ELSE Dec(q, u)
      /\ \A q \in Ids : \A u : Inc(q, u)' = Inc(q, u)
      /\ \A q \in Ids : \A u : Inc(q, u) \in Nat /\ Dec(q, u) \in Nat
  <2>1. /\ decrements' \in [Ids -> Seq(Ids \cup {Work})]
        /\ \A x \in Ids : Len(decrements'[x]) >= Len(decrements[x])
        /\ \A q \in Ids : \A u : Dec(q, u)' = IF q = t /\ t = u THEN Dec(q, u) + 1 ELSE Dec(q, u)
    <3>1. Decrements(t, t)
      BY DEF Decrements
    <3> QED BY <3>1, Decrementing
  <2>2. \A q \in Ids : \A u : Inc(q, u)' = Inc(q, u)
    BY DEF Inc
  <2> QED BY <2>1, <2>2, PendingNat
<1> USE DEF IInv, TypesInv
<1>1. TypesInv'
  <2>1. PlaceTypes'
    BY DEF PlaceTypes, Places, Active, Holding
  <2>2. ListTypes'
    BY DEF ListTypes
  <2>3. QueueTypes'
    BY <1>0 DEF QueueTypes
  <2>4. EngineTypes'
    BY DEF EngineTypes
  <2> QED BY <2>1, <2>2, <2>3, <2>4
<1>2. PlaceInv'
  BY DEF PlaceTypes, PlaceInv, OtherInv, Forking, Unborn, Active, Holding, Over, MainOnly
<1>3. ListInv'
  BY DEF PlaceTypes, PlaceInv, ListInv, OtherInv, Forking, Listed, Unborn, Active, Holding
<1>4. QueueInv'
  <2>1. \A x \in Ids : Keeps(x)
    BY <1>0 DEF PlaceTypes, PlaceInv, QueueInv, Keeps, Ended, Finished, Fresh, Rootless, Unborn, Closing, Over, Active, Holding
  <2>2. pc'[t] \notin Ended \cup Fresh /\ v_done'[t] = 0
    BY <1>0 DEF PlaceTypes, PlaceInv, Ended, Finished, Fresh, Unborn, Active, Holding
  <2>3. /\ v_last[t] <= Len(decrements'[t])
        /\ \A x \in Ids \ {t} : increments'[x] = increments[x] /\ decrements'[x] = decrements[x]
    BY <1>0 DEF QueueTypes, QueueInv
  <2> QED BY <2>1, <2>2, <2>3, QueueGrows
<1>5. OtherInv'
  BY DEF PlaceTypes, OtherInv, QueueInv, Forking, Joining, Unborn
<1>6. ASSUME NEW u \in Ids \ {Main}, NEW p \in Ids, p < u, Child(p, u)
      PROVE  Child(p, u)'
  <2> USE <1>6 DEF PlaceTypes, Child
  <2>1. \A q \in Ids \ {p} : Alien(q, u)'
    <3>1. \A q \in Ids : Forking(q)' <=> Forking(q)
      BY DEF Forking
    <3> QED BY <1>0, <3>1 DEF Alien
  <2>2. Ahead(p)' = Ahead(p) /\ Ahead(u)' = Ahead(u)
    BY DEF Ahead
  <2>3. /\ Inc(p, u)' = Inc(p, u) /\ Dec(p, u)' = Dec(p, u)
        /\ Untouched(p, u)' <=> Untouched(p, u)
    BY <1>0 DEF Untouched
  <2>4. /\ pc'[u] = "forked" <=> Forking(p)' /\ other'[p] = u
        /\ \A k \in Fresh : pc'[u] = k <=> pc[u] = k
        /\ Forking(p) \/ Forking(p)' => pc'[p] = pc[p]
    BY DEF Forking, Fresh, Unborn
  <2>5. Owed(p, u)' + Dec(u, u)' = Owed(p, u) + Dec(u, u) /\ Owed(p, u)' \in Nat /\ Owed(p, u) \in Nat
    <3>1. CASE u = t
      <4>1. Owed(p, u)' = 0 /\ Owed(p, u) = 1
        BY <3>1 DEF Owed, One, Holding
      <4> QED BY <1>0, <3>1, <4>1
    <3>2. CASE u # t
      <4>1. Owed(p, u)' = Owed(p, u) /\ Owed(p, u) \in Nat
        BY <3>2 DEF Owed, One
      <4> QED BY <1>0, <3>2, <4>1
    <3> QED BY <3>1, <3>2
  <2>6. /\ v_count[u] \in Int /\ v_count'[u] = v_count[u]
        /\ Inc(p, u) \in Nat /\ Dec(p, u) \in Nat /\ Dec(u, u) \in Nat /\ Dec(u, u)' \in Nat
    <3>1. v_count[u] \in Int /\ v_count'[u] = v_count[u]
      BY DEF QueueTypes
    <3>2. Inc(p, u) \in Nat /\ Dec(p, u) \in Nat /\ Dec(u, u) \in Nat
      BY <1>0
    <3>3. Dec(u, u)' \in Nat
      BY <1>0, <3>2
    <3> QED BY <3>1, <3>2, <3>3
  <2>7. v_count'[u] + Inc(p, u)' = Owed(p, u)' + Dec(p, u)' + Dec(u, u)' + One(u \in last[p])
    <3>1. One(u \in last[p]) \in Nat
      BY DEF One
    <3>2. v_count[u] + Inc(p, u) = Owed(p, u) + Dec(p, u) + Dec(u, u) + One(u \in last[p])
      BY <1>6
    <3> HIDE DEF Child, IInv, f_release
    <3> QED BY <2>3, <2>5, <2>6, <3>1, <3>2
  <2>8. "none" \in Fresh /\ "forked" \in Fresh /\ "failed" \in Fresh
    BY DEF Fresh, Unborn
  <2> QED BY <2>1, <2>2, <2>3, <2>4, <2>5, <2>6, <2>7, <2>8 DEF Forking
<1>7. ChildInv'
  BY <1>6 DEF ChildInv
<1>8. MainInv'
  <2>1. \A q \in Ids : Alien(q, Main)'
    BY <1>0 DEF PlaceTypes, MainInv, Alien, Forking
  <2>2. v_count'[Main] = One(pc'[Main] \in Holding) + Dec(Main, Main)'
    <3>1. CASE t = Main
      BY <1>0, <3>1 DEF PlaceTypes, MainInv, One, Holding
    <3>2. CASE t # Main
      BY <1>0, <3>2 DEF PlaceTypes, MainInv, One
    <3> QED BY <3>1, <3>2
  <2> QED BY <2>1, <2>2 DEF MainInv
<1>9. ShutInv'
  BY DEF PlaceTypes, PlaceInv, OtherInv, ShutInv, Done, Ahead, Level, Forking, Unborn, Active, Holding, Over, Closing
<1> QED BY <1>1, <1>2, <1>3, <1>4, <1>5, <1>7, <1>8, <1>9

\* f_fork links a new thread.
LEMMA Linking ==
  ASSUME IInv, NEW t \in Ids, NEW w \in Ids,
         f_fork_link(t, w)
  PROVE  IInv'
<1> USE DEF f_fork_link, Go, Unlocked, threadVars, collectorVars
<1> USE DEF IInv, TypesInv
<1>0. /\ t < w /\ w # Main /\ pc[w] = "none" /\ pc[t] = "run"
      /\ \A i \in 1 .. Len(v_thread__internals) : v_thread__internals[i] < w
  <2>1. \A x \in Ids : pc[x] # "none" => x < w
    BY DEF ListInv
  <2>2. \A i \in 1 .. Len(v_thread__internals) : v_thread__internals[i] \in Ids /\ pc[v_thread__internals[i]] # "none"
    <3>1. \A i \in 1 .. Len(v_thread__internals) : v_thread__internals[i] \in Ids /\ Listed(v_thread__internals[i])
      BY DEF ListTypes, Listed
    <3> QED BY <3>1 DEF ListInv
  <2> QED BY <2>1, <2>2
<1>a. /\ Len(v_thread__internals') = Len(v_thread__internals) + 1
      /\ v_thread__internals'[1] = w
      /\ \A i \in 1 .. Len(v_thread__internals) : v_thread__internals'[i + 1] = v_thread__internals[i]
      /\ v_thread__internals' \in Seq(Ids)
  BY DEF ListTypes
<1>1. TypesInv'
  <2>1. PlaceTypes'
    BY <1>0 DEF PlaceTypes, Places, Unborn, Active, Holding, Over
  <2>2. ListTypes'
    BY <1>a DEF ListTypes
  <2>3. QueueTypes'
    BY DEF QueueTypes
  <2>4. EngineTypes'
    BY DEF EngineTypes
  <2> QED BY <2>1, <2>2, <2>3, <2>4
<1>2. PlaceInv'
  BY DEF PlaceTypes, PlaceInv, OtherInv, Forking, Unborn, Active, Holding, Over, MainOnly
<1>3. ListInv'
  <2>1. \A x \in Ids : pc'[x] = "none" <=> pc[x] = "none" /\ x # w
    BY DEF PlaceTypes
  <2>2. \A i, j \in 1 .. Len(v_thread__internals') : i < j => v_thread__internals'[i] > v_thread__internals'[j]
    <3> TAKE i, j \in 1 .. Len(v_thread__internals')
    <3> HAVE i < j
    <3>1. Len(v_thread__internals) \in Nat
      BY DEF ListTypes
    <3>2. j - 1 \in 1 .. Len(v_thread__internals) /\ v_thread__internals'[j] = v_thread__internals[j - 1]
      <4>1. j - 1 \in 1 .. Len(v_thread__internals) /\ (j - 1) + 1 = j
        BY <1>a, <3>1
      <4> QED BY <1>a, <4>1
    <3>3. CASE i = 1
      BY <1>0, <1>a, <3>2, <3>3 DEF ListTypes
    <3>4. CASE i # 1
      <4>1. i - 1 \in 1 .. Len(v_thread__internals) /\ (i - 1) + 1 = i
        BY <1>a, <3>1, <3>4
      <4>2. v_thread__internals'[i] = v_thread__internals[i - 1]
        BY <1>a, <4>1
      <4> QED BY <3>2, <4>1, <4>2 DEF ListInv
    <3> QED BY <3>3, <3>4
  <2>3. \A x \in Ids : Listed(x)' <=> Listed(x) \/ x = w
    <3> TAKE x \in Ids
    <3>0. Len(v_thread__internals) \in Nat
      BY DEF ListTypes
    <3>1. ASSUME Listed(x)', x # w PROVE Listed(x)
      <4>1. PICK i \in 1 .. Len(v_thread__internals') : v_thread__internals'[i] = x
        BY <3>1 DEF Listed
      <4>2. i - 1 \in 1 .. Len(v_thread__internals) /\ (i - 1) + 1 = i
        BY <1>a, <3>0, <3>1, <4>1
      <4> QED BY <1>a, <4>1, <4>2 DEF Listed
    <3>2. ASSUME Listed(x) PROVE Listed(x)'
      <4>1. PICK i \in 1 .. Len(v_thread__internals) : v_thread__internals[i] = x
        BY <3>2 DEF Listed
      <4>2. i + 1 \in 1 .. Len(v_thread__internals')
        BY <1>a, <3>0
      <4> QED BY <1>a, <4>1, <4>2 DEF Listed
    <3>3. Listed(w)'
      BY <1>a, <3>0, 1 \in 1 .. Len(v_thread__internals') DEF Listed
    <3> QED BY <3>1, <3>2, <3>3
  <2>4. v_done[w] = -1
    BY DEF PlaceInv, Unborn
  <2> QED BY <2>1, <2>2, <2>3, <2>4 DEF PlaceTypes, ListInv
<1>4. QueueInv'
  <2>1. \A x \in Ids : Keeps(x)
    BY DEF PlaceTypes, PlaceInv, QueueInv, Keeps, Ended, Finished, Fresh, Rootless, Unborn, Closing, Over, Active, Holding
  <2> QED BY <2>1, QueueFrame
<1>5. OtherInv'
  <2>1. \A x \in Ids \ {t} : Forking(x)' => pc'[other'[x]] = "forked"
    BY DEF PlaceTypes, OtherInv, Forking
  <2>2. pc'[other'[t]] = "forked"
    BY <1>0 DEF PlaceTypes
  <2>3. \A x \in Ids : Joining(x)' => x # t /\ Joining(x) /\ other'[x] = other[x] /\ stack'[x] = stack[x]
    BY DEF PlaceTypes, Joining
  <2>4. \A x \in Ids : Joining(x)' => other'[x] \in stack'[x]
    BY <2>3 DEF OtherInv
  <2> QED BY <2>1, <2>2, <2>4 DEF OtherInv
<1>b. collector # "epoch" /\ collector' = collector
  OBVIOUS
<1>6. ASSUME NEW u \in Ids \ {Main}, u # w, NEW p \in Ids, p < u, Child(p, u)
      PROVE  Child(p, u)'
  <2> USE <1>6 DEF PlaceTypes, Child, Inc, Dec
  <2>1. \A q \in Ids \ {p} : Alien(q, u)'
    BY <1>0 DEF Alien, Forking
  <2>2. pc'[u] = "forked" <=> Forking(p)' /\ other'[p] = u
    BY <1>0 DEF Forking
  <2>3. Owed(p, u)' = Owed(p, u)
    BY <1>0 DEF Owed, Forking, Holding
  <2>4. Untouched(p, u)' <=> Untouched(p, u)
    BY DEF Untouched
  <2>5. ~(Inc(p, u) = 1 /\ v_last[u] > 0)
    BY <1>b
  <2> QED BY <1>0, <1>b, <2>1, <2>2, <2>3, <2>4, <2>5 DEF One, Forking
<1>c. Child(t, w)'
  <2>1. PICK p \in Ids : p < w /\ Child(p, w)
    BY <1>0 DEF ChildInv
  <2>2. \A q \in Ids : Inc(q, w) = 0 /\ (q # w => Dec(q, w) = 0) /\ w \notin stack[q] /\ w \notin last[q]
    BY <1>0, <2>1 DEF Child, Alien, Untouched
  <2>3. Dec(w, w) = 0
    BY <1>0, PendingEmpty DEF QueueInv, Fresh, Unborn, Dec
  <2>4. v_count[w] = 0
    <3>1. Owed(p, w) = 0
      BY <1>0 DEF Owed, One, Holding
    <3>2. p # w /\ v_count[w] \in Int
      BY <2>1 DEF QueueTypes
    <3>3. Inc(p, w) = 0 /\ Dec(p, w) = 0 /\ One(w \in last[p]) = 0
      BY <2>2, <3>2 DEF One
    <3>4. v_count[w] + Inc(p, w) = Owed(p, w) + Dec(p, w) + Dec(w, w) + One(w \in last[p])
      BY <2>1 DEF Child
    <3> QED BY <2>3, <3>1, <3>2, <3>3, <3>4
  <2>5. \A q \in Ids \ {t} : ~(Forking(q)' /\ other'[q] = w)
    BY <1>0 DEF PlaceTypes, OtherInv, Forking
  <2>6. \A q \in Ids \ {t} : Alien(q, w)'
    BY <2>2, <2>5 DEF Alien, Inc, Dec
  <2>7. pc'[w] = "forked" /\ pc'[t] = "fork_new" /\ Forking(t)' /\ other'[t] = w
    BY <1>0 DEF PlaceTypes, Forking
  <2>8. /\ Owed(t, w)' = 0 /\ Inc(t, w)' = 0 /\ Dec(t, w)' = 0 /\ Dec(w, w)' = 0
        /\ v_count'[w] = 0 /\ w \notin stack'[t] /\ w \notin last'[t]
    <3>1. t # w
      BY <1>0
    <3>2. Owed(t, w)' = 0
      BY <2>7 DEF Owed, One, Holding
    <3> QED BY <2>2, <2>3, <2>4, <3>1, <3>2 DEF Inc, Dec
  <2>9. v_count'[w] + Inc(t, w)' = Owed(t, w)' + Dec(t, w)' + Dec(w, w)' + One(w \in last'[t])
    BY <2>8 DEF One
  <2>10. Untouched(t, w)'
    BY <2>8 DEF Untouched
  <2> HIDE DEF f_fork_link, IInv, Go, Unlocked, threadVars, collectorVars
  <2>11. pc'[w] \notin {"none", "failed"} /\ pc'[t] # "fork_hold"
    BY <2>7
  <2>12. /\ Inc(t, w)' <= 1 /\ Inc(t, w)' # 1
         /\ ~(w \in stack'[t] \/ Inc(t, w)' = 1)
    BY <2>8
  <2> QED BY <2>6, <2>7, <2>9, <2>10, <2>11, <2>12 DEF Child
<1>7. ChildInv'
  BY <1>0, <1>6, <1>c DEF ChildInv
<1>8. MainInv'
  BY DEF PlaceTypes, PlaceInv, OtherInv, MainInv, Alien, One, Inc, Dec, Forking, Unborn, Holding
<1>9. ShutInv'
  <2>1. pc[Main] \notin Closing \cup Over
    <3>1. v_done[t] = 0
      BY <1>0 DEF PlaceInv, Active, Holding
    <3> QED BY <1>0, <3>1 DEF ShutInv, Closing, Over
  <2>2. pc'[Main] \notin Closing \cup Over
    BY <1>0, <2>1 DEF PlaceTypes, Closing, Over
  <2> QED BY <2>1, <2>2 DEF ShutInv, Closing, Over
<1> QED BY <1>1, <1>2, <1>3, <1>4, <1>5, <1>7, <1>8, <1>9

\* What a visit does to the queues of t, whichever way it goes.
FlushEffect(t) ==
  /\ QueueTypes'
  /\ \A x \in Ids \ {t} :
       /\ increments'[x] = increments[x] /\ decrements'[x] = decrements[x]
       /\ v_epoch'[x] = v_epoch[x] /\ v_last'[x] = v_last[x] /\ last'[x] = last[x]
  /\ increments'[t] = <<>> /\ last'[t] = stack[t] /\ v_epoch'[t] = Heads(t)'
  /\ v_last'[t] = Len(decrements'[t]) /\ Len(decrements'[t]) = Len(decrements[t]) - v_last[t]
  /\ \A u \in Ids :
       /\ Dec(t, u)' <= Dec(t, u) /\ Dec(t, u)' \in Nat
       /\ v_last[t] = 0 => Dec(t, u)' = Dec(t, u)
       /\ v_count'[u] + One(u \in last[t]) + Dec(t, u) =
            v_count[u] + Inc(t, u) + One(u \in stack[t]) + Dec(t, u)'

LEMMA Flushing ==
  ASSUME IInv, NEW t \in Ids, Flush(t, Heads(t), stack[t])
  PROVE  FlushEffect(t)
<1> DEFINE i == increments[t]
           d == decrements[t]
           m == v_last[t]
<1>1. /\ i \in Seq(Ids) /\ d \in Seq(Ids \cup {Work}) /\ m \in 0 .. Len(d)
      /\ Len(i) \in 0 .. Len(i) /\ Len(d) \in Nat
  <2>1. i \in Seq(Ids) /\ d \in Seq(Ids \cup {Work}) /\ m \in Nat
    BY DEF IInv, TypesInv, QueueTypes
  <2>2. m <= Len(d)
    BY DEF IInv, QueueInv
  <2> QED BY <2>1, <2>2
<1>2. /\ increments' = [increments EXCEPT ![t] = Skip(i, Len(i))]
      /\ decrements' = [decrements EXCEPT ![t] = Skip(d, m)]
      /\ v_last' = [v_last EXCEPT ![t] = Len(d) - m]
      /\ v_epoch' = [v_epoch EXCEPT ![t] = [inc |-> 0, dec |-> Len(d) - m]]
      /\ last' = [last EXCEPT ![t] = stack[t]]
  BY DEF Flush, Heads
<1>3. Skip(i, Len(i)) = <<>>
  BY <1>1 DEF Skip
<1>4. Skip(d, m) \in Seq(Ids \cup {Work}) /\ Len(Skip(d, m)) = Len(d) - m
  BY <1>1, PendingSkip
<1>5. QueueTypes'
  <2>1. v_count' \in [Ids -> Int]
    <3> SUFFICES ASSUME NEW u \in Ids
                 PROVE  v_count[u] + Times(i, Len(i), u) + (IF u \in stack[t] \ last[t] THEN 1 ELSE 0)
                          - Times(d, m, u) - (IF u \in last[t] \ stack[t] THEN 1 ELSE 0) \in Int
      BY DEF Flush, Heads
    <3>1. Times(i, Len(i), u) \in Nat /\ Times(d, m, u) \in Nat
      BY <1>1, TimesFacts
    <3>2. v_count[u] \in Int
      BY DEF IInv, TypesInv, QueueTypes
    <3> HIDE DEF i, d, m
    <3> QED BY <3>1, <3>2
  <2>2. increments' \in [Ids -> Seq(Ids)] /\ decrements' \in [Ids -> Seq(Ids \cup {Work})]
    <3>1. <<>> \in Seq(Ids)
      OBVIOUS
    <3>2. increments \in [Ids -> Seq(Ids)] /\ decrements \in [Ids -> Seq(Ids \cup {Work})]
      BY DEF IInv, TypesInv, QueueTypes
    <3> HIDE DEF i, d, m
    <3> QED BY <1>2, <1>3, <1>4, <3>1, <3>2
  <2>3. v_epoch' \in [Ids -> [inc : Nat, dec : Nat]] /\ v_last' \in [Ids -> Nat]
    BY <1>1, <1>2 DEF IInv, TypesInv, QueueTypes
  <2>4. last' \in [Ids -> SUBSET Ids]
    BY <1>2 DEF IInv, TypesInv, QueueTypes, PlaceTypes
  <2> QED BY <2>1, <2>2, <2>3, <2>4 DEF QueueTypes
<1>6. /\ increments'[t] = <<>> /\ decrements'[t] = Skip(d, m) /\ last'[t] = stack[t]
      /\ v_last'[t] = Len(d) - m /\ v_epoch'[t] = [inc |-> 0, dec |-> Len(d) - m]
  BY <1>2, <1>3 DEF IInv, TypesInv, QueueTypes
<1>7. v_epoch'[t] = Heads(t)' /\ v_last'[t] = Len(decrements'[t]) /\ Len(decrements'[t]) = Len(d) - m
  BY <1>4, <1>6 DEF Heads
<1>8. \A x \in Ids \ {t} :
        /\ increments'[x] = increments[x] /\ decrements'[x] = decrements[x]
        /\ v_epoch'[x] = v_epoch[x] /\ v_last'[x] = v_last[x] /\ last'[x] = last[x]
  BY <1>2 DEF IInv, TypesInv, QueueTypes
<1>9. ASSUME NEW u \in Ids
      PROVE  /\ Dec(t, u)' <= Dec(t, u) /\ Dec(t, u)' \in Nat
             /\ m = 0 => Dec(t, u)' = Dec(t, u)
             /\ v_count'[u] + One(u \in last[t]) + Dec(t, u) =
                  v_count[u] + Inc(t, u) + One(u \in stack[t]) + Dec(t, u)'
  <2>1. /\ Times(d, m, u) \in Nat /\ (m = 0 => Times(d, m, u) = 0)
        /\ Pending(Skip(d, m), u) = Pending(d, u) - Times(d, m, u)
        /\ Times(d, m, u) <= Pending(d, u)
    <3>1. Times(d, m, u) \in Nat /\ (m = 0 => Times(d, m, u) = 0)
      BY <1>1, TimesFacts
    <3>2. /\ Pending(Skip(d, m), u) = Pending(d, u) - Times(d, m, u)
          /\ Times(d, m, u) <= Pending(d, u)
      BY <1>1, PendingSkip
    <3> QED BY <3>1, <3>2
  <2>2. /\ Pending(d, u) \in Nat /\ Pending(i, u) \in Nat /\ v_count[u] \in Int
        /\ Dec(t, u) = Pending(d, u) /\ Inc(t, u) = Pending(i, u)
        /\ Dec(t, u)' = Pending(Skip(d, m), u)
    <3>1. Dec(t, u)' = Pending(Skip(d, m), u)
      BY <1>6 DEF Dec
    <3>2. Pending(d, u) \in Nat /\ Pending(i, u) \in Nat
      BY <1>1, PendingFacts
    <3> QED BY <3>1, <3>2 DEF Dec, Inc, IInv, TypesInv, QueueTypes
  <2>3. v_count'[u] = v_count[u] + Pending(i, u) + (IF u \in stack[t] \ last[t] THEN 1 ELSE 0)
                        - Times(d, m, u) - (IF u \in last[t] \ stack[t] THEN 1 ELSE 0)
    BY DEF Flush, Heads, Pending
  <2> HIDE DEF i, d, m
  <2> QED BY <2>1, <2>2, <2>3 DEF One
<1> QED BY <1>5, <1>6, <1>7, <1>8, <1>9 DEF FlushEffect

LEMMA Skipping ==
  ASSUME IInv, NEW t \in Ids, pc[t] \in Unborn,
         UNCHANGED <<v_count, increments, decrements, v_last, v_epoch, last>>
  PROVE  FlushEffect(t)
<1>1. /\ increments[t] = <<>> /\ decrements[t] = <<>> /\ v_last[t] = 0 /\ last[t] = {} /\ stack[t] = {}
      /\ v_epoch[t] = Heads(t)
  BY DEF IInv, QueueInv, Fresh, Rootless, Ended, Finished, Unborn
<1>2. QueueTypes'
  BY DEF IInv, TypesInv, QueueTypes
<1>3. \A u : Inc(t, u) = 0 /\ Dec(t, u) = 0 /\ Dec(t, u)' = 0
  BY <1>1, PendingEmpty DEF Inc, Dec
<1>4. \A u \in Ids : v_count[u] \in Int /\ v_count'[u] = v_count[u]
  BY DEF IInv, TypesInv, QueueTypes
<1>5. Heads(t)' = Heads(t) /\ Len(decrements[t]) = 0
  BY <1>1 DEF Heads
<1> QED BY <1>1, <1>2, <1>3, <1>4, <1>5 DEF FlushEffect, One

\* What a visit does to the list, seen from the threads.
ListEffect(t) ==
  /\ ListTypes'
  /\ \A i, j \in 1 .. Len(v_thread__internals') : i < j => v_thread__internals'[i] > v_thread__internals'[j]
  /\ \A x \in Ids : Listed(x)' <=> Listed(x) /\ (x = t => v_done'[t] < 3)
  /\ \A x \in Ids : Ahead(x)' <=> Ahead(x) /\ x # t
  /\ \A x \in Ids : Listed(x) /\ x < t => Ahead(x)

LEMMA Passing ==
  ASSUME IInv, collector = "epoch", cursor <= Len(v_thread__internals),
         NEW t \in Ids, t = v_thread__internals[cursor], v_done'[t] < 3,
         cursor' = cursor + 1, UNCHANGED v_thread__internals
  PROVE  ListEffect(t)
<1> DEFINE l == v_thread__internals
<1>1. l \in Seq(Ids) /\ Len(l) \in Nat /\ cursor \in 1 .. Len(l) /\ \A k \in 1 .. Len(l) : l[k] \in Int
  <2>1. l \in Seq(Ids) /\ cursor \in 1 .. Len(l) + 1
    BY DEF IInv, TypesInv, ListTypes
  <2> HIDE DEF l
  <2>2. Len(l) \in Nat /\ \A k \in 1 .. Len(l) : l[k] \in Ids
    BY <2>1
  <2>3. cursor <= Len(l)
    BY DEF l
  <2>4. cursor \in 1 .. Len(l)
    BY <2>1, <2>2, <2>3
  <2>5. \A k \in 1 .. Len(l) : l[k] \in Int
    BY <2>2
  <2> QED BY <2>1, <2>2, <2>4, <2>5
<1>2. \A i, j \in 1 .. Len(l) : i < j => l[i] > l[j]
  BY DEF IInv, ListInv
<1>3. \A k \in 1 .. Len(l) : l[k] = t <=> k = cursor
  BY <1>1, <1>2
<1>4. \A k \in 1 .. Len(l) : l[k] < t => cursor <= k
  BY <1>1, <1>2
<1>5. \A x \in Ids : Ahead(x)' <=> Ahead(x) /\ x # t
  BY <1>1, <1>3 DEF Ahead
<1>6. \A x \in Ids : Listed(x)' <=> Listed(x)
  BY DEF Listed
<1>7. \A x \in Ids : Listed(x) /\ x < t => Ahead(x)
  BY <1>4 DEF Listed, Ahead
<1>8. ListTypes'
  BY <1>1 DEF ListTypes
<1> QED BY <1>2, <1>5, <1>6, <1>7, <1>8 DEF ListEffect

LEMMA Deleting ==
  ASSUME IInv, collector = "epoch", cursor <= Len(v_thread__internals),
         NEW t \in Ids, t = v_thread__internals[cursor], ~(v_done'[t] < 3),
         v_thread__internals' = RemoveAt(v_thread__internals, cursor), UNCHANGED cursor
  PROVE  ListEffect(t)
<1> DEFINE l == v_thread__internals
           n == v_thread__internals'
           at(k) == IF k < cursor THEN k ELSE k + 1
<1>1. l \in Seq(Ids) /\ Len(l) \in Nat /\ cursor \in 1 .. Len(l) /\ \A k \in 1 .. Len(l) : l[k] \in Int
  <2>1. l \in Seq(Ids) /\ cursor \in 1 .. Len(l) + 1
    BY DEF IInv, TypesInv, ListTypes
  <2> HIDE DEF l
  <2>2. Len(l) \in Nat /\ \A k \in 1 .. Len(l) : l[k] \in Ids
    BY <2>1
  <2>3. cursor <= Len(l)
    BY DEF l
  <2>4. cursor \in 1 .. Len(l)
    BY <2>1, <2>2, <2>3
  <2>5. \A k \in 1 .. Len(l) : l[k] \in Int
    BY <2>2
  <2> QED BY <2>1, <2>2, <2>4, <2>5
<1>2. \A i, j \in 1 .. Len(l) : i < j => l[i] > l[j]
  BY DEF IInv, ListInv
<1>3. \A k \in 1 .. Len(l) : l[k] = t <=> k = cursor
  BY <1>1, <1>2
<1>4. \A k \in 1 .. Len(l) : l[k] < t => cursor <= k
  BY <1>1, <1>2
<1>5. /\ n \in Seq(Ids) /\ Len(n) = Len(l) - 1
      /\ \A k \in 1 .. Len(n) : n[k] = l[at(k)]
  <2> DEFINE a == SubSeq(l, 1, cursor - 1)
             b == SubSeq(l, cursor + 1, Len(l))
  <2>1. n = a \o b
    BY DEF RemoveAt
  <2>2. a \in Seq(Ids) /\ Len(a) = cursor - 1 /\ \A k \in 1 .. cursor - 1 : a[k] = l[k]
    BY <1>1
  <2>3. b \in Seq(Ids) /\ Len(b) = Len(l) - cursor /\ \A k \in 1 .. Len(l) - cursor : b[k] = l[cursor + k]
    BY <1>1
  <2> HIDE DEF a, b, l, n
  <2>4. n \in Seq(Ids) /\ Len(n) = Len(a) + Len(b)
    BY <2>1, <2>2, <2>3, ConcatProperties
  <2>5. \A k \in 1 .. Len(a) + Len(b) : n[k] = IF k <= Len(a) THEN a[k] ELSE b[k - Len(a)]
    BY <2>1, <2>2, <2>3, ConcatProperties
  <2>6. Len(n) = Len(l) - 1
    BY <1>1, <2>2, <2>3, <2>4
  <2>7. ASSUME NEW k \in 1 .. Len(n) PROVE n[k] = l[at(k)]
    <3>1. CASE k < cursor
      <4>1. k <= Len(a) /\ k \in 1 .. cursor - 1 /\ k \in 1 .. Len(a) + Len(b)
        BY <1>1, <2>2, <2>4, <3>1
      <4> QED BY <2>2, <2>5, <3>1, <4>1
    <3>2. CASE ~(k < cursor)
      <4>1. /\ ~(k <= Len(a)) /\ k \in 1 .. Len(a) + Len(b)
            /\ k - Len(a) \in 1 .. Len(l) - cursor /\ cursor + (k - Len(a)) = k + 1
        BY <1>1, <2>2, <2>3, <2>4, <3>2
      <4> QED BY <2>3, <2>5, <3>2, <4>1
    <3> QED BY <3>1, <3>2
  <2> QED BY <2>4, <2>6, <2>7
<1>6. \A i, j \in 1 .. Len(n) : i < j => n[i] > n[j]
  <2> TAKE i, j \in 1 .. Len(n)
  <2> HAVE i < j
  <2>1. at(i) \in 1 .. Len(l) /\ at(j) \in 1 .. Len(l) /\ at(i) < at(j)
    BY <1>1, <1>5
  <2> QED BY <1>2, <1>5, <2>1
<1>7. ASSUME NEW x \in Ids, NEW k \in 1 .. Len(n), n[k] = x
      PROVE  at(k) \in 1 .. Len(l) /\ l[at(k)] = x /\ x # t /\ (cursor <= k => cursor <= at(k))
  <2>1. at(k) \in 1 .. Len(l) /\ at(k) # cursor /\ (cursor <= k => cursor <= at(k))
    BY <1>1, <1>5
  <2> QED BY <1>3, <1>5, <1>7, <2>1
<1>8. ASSUME NEW x \in Ids, x # t, NEW k \in 1 .. Len(l), l[k] = x
      PROVE  \E j \in 1 .. Len(n) : n[j] = x /\ (cursor <= k => cursor <= j)
  <2>1. k # cursor
    BY <1>3, <1>8
  <2>2. CASE k < cursor
    <3>1. k \in 1 .. Len(n) /\ at(k) = k
      BY <1>1, <1>5, <2>2
    <3> QED BY <1>1, <1>5, <1>8, <2>2, <3>1
  <2>3. CASE ~(k < cursor)
    <3>1. k - 1 \in 1 .. Len(n) /\ at(k - 1) = k /\ cursor <= k - 1
      BY <1>1, <1>5, <2>1, <2>3
    <3> QED BY <1>5, <1>8, <3>1
  <2> QED BY <2>2, <2>3
<1>9. \A x \in Ids : Listed(x)' <=> Listed(x) /\ x # t
  BY <1>7, <1>8 DEF Listed
<1>10. \A x \in Ids : Ahead(x)' <=> Ahead(x) /\ x # t
  BY <1>7, <1>8 DEF Ahead
<1>11. \A x \in Ids : Listed(x) /\ x < t => Ahead(x)
  BY <1>4 DEF Listed, Ahead
<1>12. ListTypes'
  BY <1>1, <1>5 DEF ListTypes
<1> QED BY <1>6, <1>9, <1>10, <1>11, <1>12 DEF ListEffect

\* The collector visits a thread.
LEMMA Visiting ==
  ASSUME IInv, f_epoch
  PROVE  IInv'
<1>1. PICK t \in Ids : /\ t = v_thread__internals[cursor]
                       /\ collector = "epoch" /\ Ahead(t)
                       /\ pc[t] # "none" /\ v_done[t] \in -1 .. 2
  <2> DEFINE x == v_thread__internals[cursor]
  <2>1. collector = "epoch" /\ cursor <= Len(v_thread__internals)
    BY DEF f_epoch, Visit
  <2>2. v_thread__internals \in Seq(Ids) /\ cursor \in 1 .. Len(v_thread__internals)
    <3>1. v_thread__internals \in Seq(Ids) /\ cursor \in 1 .. Len(v_thread__internals) + 1
      BY DEF IInv, TypesInv, ListTypes
    <3> QED BY <2>1, <3>1
  <2>3. x \in Ids /\ Ahead(x) /\ Listed(x)
    BY <2>2 DEF Ahead, Listed
  <2> HIDE DEF x
  <2>4. pc[x] # "none" /\ v_done[x] < 3 /\ v_done[x] \in -1 .. 3
    BY <2>3 DEF IInv, ListInv, TypesInv, PlaceTypes
  <2>5. v_done[x] \in -1 .. 2
    BY <2>4
  <2> QED BY <2>1, <2>3, <2>4, <2>5 DEF x
<1> DEFINE done == IF v_done[t] > 0 THEN v_done[t] + 1 ELSE v_done[t]
<1>2. /\ v_done' = [v_done EXCEPT ![t] = done]
      /\ UNCHANGED <<v_internal, stack, pc, other, work, waits, collector, running, quitting>>
  BY <1>1 DEF f_epoch, Visit
<1>3. ListEffect(t)
  <2>1. v_done'[t] = done /\ cursor <= Len(v_thread__internals)
    BY <1>1, <1>2 DEF f_epoch, Visit, IInv, TypesInv, PlaceTypes
  <2>2. CASE done < 3
    BY <1>1, <2>1, <2>2, Passing DEF f_epoch, Visit
  <2>3. CASE ~(done < 3)
    BY <1>1, <2>1, <2>3, Deleting DEF f_epoch, Visit
  <2> QED BY <2>2, <2>3
<1>4. FlushEffect(t)
  <2>1. CASE v_done[t] < 0
    <3>1. pc[t] \in Unborn
      BY <1>1, <2>1, v_done[t] = -1 DEF IInv, PlaceInv
    <3> QED BY <1>1, <2>1, <3>1, Skipping DEF f_epoch, Visit
  <2>2. CASE v_done[t] = 0
    <3>1. Flush(t, Heads(t), stack[t])
      BY <1>1, <2>2 DEF f_epoch, Visit
    <3> QED BY <3>1, Flushing
  <2>3. CASE v_done[t] > 0
    <3>1. pc[t] \in Over
      BY <1>1, <2>3 DEF IInv, TypesInv, PlaceTypes, PlaceInv, Places
    <3>2. v_epoch[t] = Heads(t) /\ stack[t] = {}
      BY <1>1, <3>1 DEF IInv, QueueInv, Over, Ended, Finished, Rootless
    <3>3. Flush(t, v_epoch[t], {})
      BY <1>1, <2>3 DEF f_epoch, Visit
    <3> QED BY <1>1, <3>2, <3>3, Flushing
  <2> QED BY <1>1, <2>1, <2>2, <2>3
<1>5. TypesInv'
  <2>1. PlaceTypes'
    BY <1>1, <1>2 DEF IInv, TypesInv, PlaceTypes
  <2>2. EngineTypes'
    BY <1>2 DEF IInv, TypesInv, EngineTypes
  <2> QED BY <1>3, <1>4, <2>1, <2>2 DEF TypesInv, ListEffect, FlushEffect
<1>6. /\ \A x \in Ids \ {t} : v_done'[x] = v_done[x]
      /\ v_done'[t] = done /\ \A x \in Ids : v_done[x] \in Int /\ v_done'[x] >= v_done[x]
  BY <1>1, <1>2 DEF IInv, TypesInv, PlaceTypes
<1>7. PlaceInv'
  BY <1>1, <1>2, <1>6 DEF IInv, PlaceInv
<1>8. ListInv'
  <2>1. \A x \in Ids : Listed(x)' <=> pc'[x] # "none" /\ v_done'[x] < 3
    BY <1>1, <1>2, <1>3, <1>6 DEF IInv, ListInv, ListEffect
  <2> QED BY <1>1, <1>2, <1>3, <2>1 DEF IInv, ListInv, ListEffect
<1>9. QueueInv'
  <2> SUFFICES ASSUME NEW x \in Ids
               PROVE  (/\ v_last[x] <= Len(decrements[x])
                       /\ pc[x] \in Ended => v_epoch[x] = Heads(x)
                       /\ pc[x] \in Fresh =>
                            /\ increments[x] = <<>> /\ decrements[x] = <<>>
                            /\ v_last[x] = 0 /\ last[x] = {}
                       /\ pc[x] \in Rootless => stack[x] = {}
                       /\ v_done[x] = 2 => increments[x] = <<>> /\ v_last[x] = Len(decrements[x]) /\ last[x] = {}
                       /\ v_done[x] = 3 => increments[x] = <<>> /\ decrements[x] = <<>> /\ last[x] = {})'
    BY DEF QueueInv
  <2>1. CASE x # t
    <3>1. /\ increments'[x] = increments[x] /\ decrements'[x] = decrements[x]
          /\ v_epoch'[x] = v_epoch[x] /\ v_last'[x] = v_last[x] /\ last'[x] = last[x]
      BY <1>4, <2>1 DEF FlushEffect
    <3>2. pc'[x] = pc[x] /\ stack'[x] = stack[x] /\ v_done'[x] = v_done[x]
      BY <1>2, <1>6, <2>1
    <3>3. Heads(x)' = Heads(x)
      BY <3>1 DEF Heads
    <3> QED BY <3>1, <3>2, <3>3 DEF IInv, QueueInv
  <2>2. CASE x = t
    <3>1. decrements'[t] \in Seq(Ids \cup {Work}) /\ Len(decrements'[t]) \in Nat
      <4>1. decrements' \in [Ids -> Seq(Ids \cup {Work})]
        BY <1>4 DEF FlushEffect, QueueTypes
      <4> QED BY <4>1
    <3>2. Len(decrements'[t]) = 0 => decrements'[t] = <<>>
      BY <3>1
    <3>3. v_done[t] = 2 \/ pc[t] \in Fresh => Len(decrements'[t]) = 0
      <4>1. CASE v_done[t] = 2
        <5>1. v_last[t] = Len(decrements[t]) /\ Len(decrements'[t]) = Len(decrements[t]) - v_last[t]
          BY <1>4, <4>1 DEF IInv, QueueInv, FlushEffect
        <5>2. v_last[t] \in Nat
          BY DEF IInv, TypesInv, QueueTypes
        <5> QED BY <5>1, <5>2
      <4>2. CASE pc[t] \in Fresh
        <5>1. decrements[t] = <<>> /\ v_last[t] = 0
          BY <4>2 DEF IInv, QueueInv
        <5>2. Len(decrements'[t]) = Len(decrements[t]) - v_last[t]
          BY <1>4 DEF FlushEffect
        <5> QED BY <5>1, <5>2
      <4> QED BY <4>1, <4>2
    <3>4. v_done'[t] > 0 \/ pc[t] \in Fresh => pc[t] \in Rootless
      BY <1>1, <1>6 DEF IInv, TypesInv, PlaceTypes, PlaceInv, Places, Rootless, Fresh, Over
    <3>5. pc[t] \in Rootless => last'[t] = {} /\ stack'[t] = {}
      BY <1>1, <1>2, <1>4 DEF IInv, QueueInv, FlushEffect
    <3>6. /\ increments'[t] = <<>> /\ v_epoch'[t] = Heads(t)' /\ v_last'[t] = Len(decrements'[t])
      BY <1>4 DEF FlushEffect
    <3>7. pc'[t] = pc[t] /\ (v_done'[t] = 3 => v_done[t] = 2)
      BY <1>1, <1>2, <1>6
    <3> QED BY <2>2, <3>1, <3>2, <3>3, <3>4, <3>5, <3>6, <3>7
  <2> QED BY <2>1, <2>2
<1>10. OtherInv'
  BY <1>2 DEF IInv, OtherInv, Forking, Joining
<1>11. \A q \in Ids : \A u \in Ids :
         /\ Inc(q, u) \in Nat /\ Dec(q, u) \in Nat /\ Dec(q, u)' \in Nat
         /\ Inc(q, u)' = IF q = t THEN 0 ELSE Inc(q, u)
         /\ q # t => Dec(q, u)' = Dec(q, u)
         /\ Dec(q, u)' <= Dec(q, u)
  <2> SUFFICES ASSUME NEW q \in Ids, NEW u \in Ids
               PROVE  /\ Inc(q, u) \in Nat /\ Dec(q, u) \in Nat /\ Dec(q, u)' \in Nat
                      /\ Inc(q, u)' = IF q = t THEN 0 ELSE Inc(q, u)
                      /\ q # t => Dec(q, u)' = Dec(q, u)
                      /\ Dec(q, u)' <= Dec(q, u)
    OBVIOUS
  <2>1. Inc(q, u) \in Nat /\ Dec(q, u) \in Nat
    BY PendingNat
  <2>2. CASE q = t
    <3>1. increments'[q] = <<>>
      BY <1>4, <2>2 DEF FlushEffect
    <3>2. Inc(q, u)' = 0
      BY <3>1, PendingEmpty DEF Inc
    <3> QED BY <1>4, <2>1, <2>2, <3>2 DEF FlushEffect
  <2>3. CASE q # t
    <3>1. increments'[q] = increments[q] /\ decrements'[q] = decrements[q]
      BY <1>4, <2>3 DEF FlushEffect
    <3>2. Inc(q, u)' = Inc(q, u) /\ Dec(q, u)' = Dec(q, u)
      BY <3>1 DEF Inc, Dec
    <3> QED BY <2>1, <2>3, <3>2
  <2> QED BY <2>2, <2>3
<1>12. ASSUME NEW q \in Ids, NEW u \in Ids, Alien(q, u)
       PROVE  Alien(q, u)'
  <2>1. u \notin last'[q]
    BY <1>4, <1>12 DEF FlushEffect, Alien
  <2>2. (q # u => Dec(q, u)' = 0) /\ Inc(q, u)' = 0
    BY <1>11, <1>12 DEF Alien
  <2> QED BY <1>2, <1>12, <2>1, <2>2 DEF Alien, Forking
<1>13. \A u \in Ids : /\ v_count[u] \in Int /\ v_count'[u] \in Int
                      /\ v_count'[u] + One(u \in last[t]) + Dec(t, u) =
                           v_count[u] + Inc(t, u) + One(u \in stack[t]) + Dec(t, u)'
  BY <1>4 DEF FlushEffect, QueueTypes, IInv, TypesInv
<1>14. ASSUME NEW u \in Ids \ {Main}, NEW p \in Ids, p < u, Child(p, u)
       PROVE  Child(p, u)'
  <2>1. \A q \in Ids \ {p} : Alien(q, u) /\ Alien(q, u)'
    BY <1>12, <1>14 DEF Child
  <2>2. Owed(p, u)' = Owed(p, u) /\ Owed(p, u) \in Nat /\ p # u
    BY <1>2, <1>14 DEF Owed, One
  <2>3. v_count[u] + Inc(p, u) = Owed(p, u) + Dec(p, u) + Dec(u, u) + One(u \in last[p])
    BY <1>14 DEF Child
  <2>4. p = t => last'[p] = stack[p]
    BY <1>4 DEF FlushEffect
  <2>5. p # t => /\ last'[p] = last[p] /\ Inc(p, u)' = Inc(p, u) /\ Dec(p, u)' = Dec(p, u)
                 /\ Inc(t, u) = 0 /\ u \notin stack[t] /\ u \notin last[t]
                 /\ t # u => Dec(t, u) = 0 /\ Dec(u, u)' = Dec(u, u) /\ Dec(t, u)' = 0
    <3>1. ASSUME p # t
          PROVE  /\ last'[p] = last[p] /\ Inc(p, u)' = Inc(p, u) /\ Dec(p, u)' = Dec(p, u)
                 /\ Inc(t, u) = 0 /\ u \notin stack[t] /\ u \notin last[t]
                 /\ t # u => Dec(t, u) = 0 /\ Dec(u, u)' = Dec(u, u)
      BY <1>1, <1>4, <1>11, <2>1, <3>1 DEF FlushEffect, Alien
    <3>2. ASSUME p # t, t # u PROVE Dec(t, u)' = 0
      BY <1>1, <2>1, <3>2 DEF Alien
    <3> QED BY <3>1, <3>2
  <2>6. v_count'[u] + Inc(p, u)' = Owed(p, u)' + Dec(p, u)' + Dec(u, u)' + One(u \in last'[p])
    <3>1. /\ Inc(p, u) \in Nat /\ Dec(p, u) \in Nat /\ Dec(p, u)' \in Nat
          /\ Dec(u, u) \in Nat /\ Dec(u, u)' \in Nat
          /\ One(u \in last[p]) \in Nat /\ One(u \in stack[p]) \in Nat
      BY <1>11 DEF One
    <3>2. CASE p = t
      <4>1. Inc(p, u)' = 0 /\ Dec(u, u)' = Dec(u, u)
        BY <1>11, <2>2, <3>2
      <4>2. v_count'[u] + One(u \in last[p]) + Dec(p, u) =
              v_count[u] + Inc(p, u) + One(u \in stack[p]) + Dec(p, u)'
        BY <1>13, <3>2 DEF One
      <4>3. One(u \in last'[p]) = One(u \in stack[p])
        BY <2>4, <3>2 DEF One
      <4>4. v_count[u] \in Int /\ v_count'[u] \in Int
        BY <1>13
      <4>5. v_count'[u] = Owed(p, u) + Dec(p, u)' + Dec(u, u) + One(u \in stack[p])
        BY <2>2, <2>3, <3>1, <4>2, <4>4
      <4> QED BY <2>2, <3>1, <4>1, <4>3, <4>4, <4>5
    <3>3. CASE p # t /\ t = u
      <4>1. One(u \in last[t]) = 0 /\ One(u \in stack[t]) = 0 /\ One(u \in last'[p]) = One(u \in last[p])
        BY <2>5, <3>3 DEF One
      <4>2. v_count'[u] + Dec(u, u) = v_count[u] + Dec(u, u)'
        BY <1>13, <2>5, <3>1, <3>3, <4>1
      <4> QED BY <1>13, <2>2, <2>3, <2>5, <3>1, <3>3, <4>1, <4>2
    <3>4. CASE p # t /\ t # u
      <4>1. One(u \in last[t]) = 0 /\ One(u \in stack[t]) = 0 /\ One(u \in last'[p]) = One(u \in last[p])
        BY <2>5, <3>4 DEF One
      <4>2. v_count'[u] = v_count[u]
        BY <1>13, <2>5, <3>1, <3>4, <4>1
      <4> QED BY <2>2, <2>3, <2>5, <3>4, <4>1, <4>2
    <3> QED BY <3>2, <3>3, <3>4
  <2>7. Inc(p, u)' <= Inc(p, u) /\ Inc(p, u)' \in Nat /\ (Inc(p, u)' = 1 => p # t)
    BY <1>11
  <2>8. Untouched(p, u) => Untouched(p, u)'
    <3>1. ASSUME Untouched(p, u) PROVE Dec(p, u)' = 0 /\ Inc(p, u)' = 0 /\ u \notin last'[p]
      <4>1. Dec(p, u)' <= Dec(p, u) /\ Dec(p, u)' \in Nat /\ Inc(p, u)' <= Inc(p, u) /\ Inc(p, u)' \in Nat
        BY <1>11, <2>7
      <4>2. u \notin last'[p]
        BY <2>4, <2>5, <3>1 DEF Untouched
      <4> QED BY <3>1, <4>1, <4>2 DEF Untouched
    <3> QED BY <1>2, <3>1 DEF Untouched
  <2>9. u \in stack'[p] \/ Inc(p, u)' = 1 => Dec(p, u)' >= 1 \/ u \in last'[p]
    <3>1. CASE p = t
      BY <1>2, <2>4, <2>7, <3>1
    <3>2. CASE p # t
      BY <1>2, <1>14, <2>5, <3>2 DEF Child
    <3> QED BY <3>1, <3>2
  <2>10. ASSUME Inc(p, u)' = 1, pc'[u] \notin {"forked", "failed"}
         PROVE  Owed(p, u)' + Dec(u, u)' >= 1
    <3>1. p # t /\ Inc(p, u) = 1 /\ pc'[u] = pc[u]
      BY <1>2, <2>5, <2>7, <2>10
    <3>2. t = u => v_last[u] = 0
      <4>1. Ahead(t) /\ v_last[u] \in Nat
        BY <1>1 DEF IInv, TypesInv, QueueTypes
      <4> QED BY <1>14, <3>1, <4>1 DEF Child
    <3>3. Dec(u, u)' = Dec(u, u)
      <4>1. CASE t = u
        BY <1>4, <3>2, <4>1 DEF FlushEffect
      <4>2. CASE t # u
        BY <2>5, <3>1, <4>2
      <4> QED BY <4>1, <4>2
    <3> QED BY <1>14, <2>2, <2>10, <3>1, <3>3 DEF Child
  <2>11. ASSUME Inc(p, u)' = 1, v_last'[u] > 0
         PROVE  collector' = "epoch" /\ Ahead(p)' /\ ~Ahead(u)'
    <3>1. p # t /\ Inc(p, u) = 1
      BY <2>5, <2>7, <2>11
    <3>2. CASE t = u
      <4>1. Listed(p)
        <5>1. increments[p] # <<>>
          BY <3>1, PendingEmpty DEF Inc
        <5>2. v_done[p] # 3 /\ pc[p] # "none"
          BY <5>1 DEF IInv, QueueInv, Fresh, Unborn
        <5> QED BY <5>2 DEF IInv, TypesInv, PlaceTypes, ListInv
      <4> QED BY <1>1, <1>2, <1>3, <1>14, <3>1, <3>2, <4>1 DEF ListEffect
    <3>3. CASE t # u
      <4>1. v_last[u] > 0
        BY <1>4, <2>11, <3>3 DEF FlushEffect
      <4>2. Ahead(p) /\ ~Ahead(u)
        BY <1>14, <3>1, <4>1 DEF Child
      <4> QED BY <1>1, <1>2, <1>3, <3>1, <4>2 DEF ListEffect
    <3> QED BY <3>2, <3>3
  <2>12. /\ pc'[u] = "forked" <=> Forking(p)' /\ other'[p] = u
         /\ pc'[u] = "none" \/ (pc'[u] = "forked" /\ pc'[p] = "fork_new") => Untouched(p, u)'
         /\ pc'[u] = "forked" /\ pc'[p] = "fork_hold" => Inc(p, u)' = 0 /\ u \in stack'[p]
         /\ pc'[u] = "failed" => u \notin stack'[p]
         /\ Inc(p, u)' <= 1
    <3>1. /\ pc[u] = "forked" <=> Forking(p) /\ other[p] = u
          /\ pc[u] = "none" \/ (pc[u] = "forked" /\ pc[p] = "fork_new") => Untouched(p, u)
          /\ pc[u] = "forked" /\ pc[p] = "fork_hold" => Inc(p, u) = 0 /\ u \in stack[p]
          /\ pc[u] = "failed" => u \notin stack[p]
          /\ Inc(p, u) <= 1 /\ Inc(p, u) \in Nat
      BY <1>11, <1>14 DEF Child
    <3>2. Forking(p)' <=> Forking(p)
      BY <1>2 DEF Forking
    <3> QED BY <1>2, <2>7, <2>8, <3>1, <3>2
  <2> QED BY <2>1, <2>6, <2>9, <2>10, <2>11, <2>12 DEF Child
<1>15. ChildInv'
  BY <1>14 DEF IInv, ChildInv
<1>16. MainInv'
  <2>1. \A q \in Ids : Alien(q, Main) /\ Alien(q, Main)'
    BY <1>12 DEF IInv, MainInv
  <2>2. v_count'[Main] = One(pc[Main] \in Holding) + Dec(Main, Main)'
    <3>1. v_count[Main] = One(pc[Main] \in Holding) + Dec(Main, Main)
      BY DEF IInv, MainInv
    <3>2. One(Main \in last[t]) = 0 /\ One(Main \in stack[t]) = 0 /\ Inc(t, Main) = 0
      BY <1>1, <2>1 DEF Alien, One
    <3>3. v_count'[Main] + Dec(t, Main) = v_count[Main] + Dec(t, Main)'
      BY <1>1, <1>11, <1>13, <3>2
    <3>4. t # Main => Dec(t, Main) = 0 /\ Dec(t, Main)' = 0
      BY <1>1, <2>1 DEF Alien
    <3>5. One(pc[Main] \in Holding) \in Nat
      BY DEF One
    <3> QED BY <1>1, <1>11, <1>13, <3>1, <3>3, <3>4, <3>5
  <2> QED BY <1>2, <2>1, <2>2 DEF MainInv
<1>17. ShutInv'
  <2>1. \A k \in Int : Done(k) => Done(k)'
    BY <1>2, <1>6 DEF Done
  <2>2. Level(waits) \in Int /\ Level(waits) >= 1 /\ Level(waits + 1) \in Int /\ Level(waits + 1) <= Level(waits) + 1
    BY DEF IInv, TypesInv, EngineTypes, Level
  <2>3. ASSUME pc[Main] = "waiting", waits > 0, NEW x \in Ids, pc[x] # "none"
        PROVE  v_done'[x] >= Level(waits + 1) \/ Ahead(x)'
    <3>1. v_done[x] >= Level(waits) /\ (v_done[x] >= Level(waits + 1) \/ Ahead(x))
      BY <1>1, <2>3 DEF IInv, ShutInv, Done
    <3>2. CASE x = t
      BY <1>1, <1>6, <2>2, <3>1, <3>2
    <3>3. CASE x # t
      BY <1>3, <1>6, <3>1, <3>3 DEF ListEffect
    <3> QED BY <3>2, <3>3
  <2>4. pc[Main] \in Closing \cup Over => \A x \in Ids \ {Main} : pc[x] # "none" => v_done'[x] >= 1
    BY <1>1, <1>6 DEF IInv, ShutInv
  <2>5. running /\ collector = "epoch" /\ ~(pc[Main] = "wait" /\ waits > 0)
    BY <1>1 DEF IInv, ShutInv
  <2>6. /\ pc[Main] \in {"wait", "waiting"} => waits < 5 /\ Done(Level(waits))'
        /\ pc[Main] \in {"quit", "quitting", "end"} => Done(3)'
    <3>1. Done(Level(waits)) => \A x \in Ids : pc'[x] # "none" => v_done'[x] >= Level(waits')
      BY <1>2, <1>6, <2>2 DEF Done
    <3>2. Done(3) => Done(3)'
      BY <2>1
    <3> QED BY <3>1, <3>2 DEF IInv, ShutInv, Done
  <2>7. pc[Main] \notin Over => waits = 0
    BY DEF IInv, ShutInv
  <2>8. quitting => pc[Main] \in {"quitting", "end"}
    BY DEF IInv, ShutInv
  <2> QED BY <1>2, <2>3, <2>4, <2>5, <2>6, <2>7, <2>8 DEF ShutInv
<1> QED BY <1>5, <1>7, <1>8, <1>9, <1>10, <1>15, <1>16, <1>17 DEF IInv

\* The new thread is initialized.
LEMMA Starting ==
  ASSUME IInv, NEW t \in Ids,
         f_initialize(t)
  PROVE  IInv'
<1> USE DEF f_initialize, Go, Unlocked, threadVars, collectorVars
<1> USE DEF IInv, TypesInv
<1>1. TypesInv'
  <2>1. PlaceTypes'
    BY DEF PlaceTypes, Places, Unborn, Active, Holding, Over
  <2>2. ListTypes'
    BY DEF ListTypes
  <2>3. QueueTypes'
    BY DEF QueueTypes
  <2>4. EngineTypes'
    BY DEF EngineTypes
  <2> QED BY <2>1, <2>2, <2>3, <2>4
<1>2. PlaceInv'
  BY DEF PlaceTypes, PlaceInv, OtherInv, Forking, Unborn, Active, Holding, Over, MainOnly
<1>3. ListInv'
  BY DEF PlaceTypes, PlaceInv, ListInv, OtherInv, Forking, Listed, Unborn, Active, Holding
<1>4. QueueInv'
  <2>1. \A x \in Ids : Keeps(x)
    BY DEF PlaceTypes, PlaceInv, QueueInv, Keeps, Ended, Finished, Fresh, Rootless, Unborn, Closing, Over, Active, Holding
  <2> QED BY <2>1, QueueFrame
<1>5. OtherInv'
  BY DEF PlaceTypes, OtherInv, QueueInv, Forking, Joining, Unborn
<1>6. ASSUME NEW u \in Ids \ {Main}, NEW p \in Ids, p < u, Child(p, u)
      PROVE  Child(p, u)'
  <2> USE <1>6 DEF PlaceTypes, PlaceInv, Child, Forking, Inc, Dec
  <2>1. \A q \in Ids \ {p} : Alien(q, u)'
    BY DEF OtherInv, Alien
  <2>2. pc'[u] = "forked" <=> Forking(p)' /\ other'[p] = u
    BY DEF OtherInv, Alien
  <2>3. Owed(p, u)' = Owed(p, u)
    BY DEF OtherInv, Alien, Owed, One, Holding
  <2>4. Ahead(p)' = Ahead(p) /\ Ahead(u)' = Ahead(u)
    BY DEF Ahead
  <2>5. Untouched(p, u) => Untouched(p, u)'
    BY DEF Untouched
  <2> QED BY <2>1, <2>2, <2>3, <2>4, <2>5 DEF One
<1>7. ChildInv'
  BY <1>6 DEF ChildInv
<1>8. MainInv'
  BY DEF PlaceTypes, PlaceInv, OtherInv, MainInv, Alien, One, Inc, Dec, Forking, Unborn, Holding
<1>9. ShutInv'
  BY DEF PlaceTypes, PlaceInv, OtherInv, ShutInv, Done, Ahead, Level, Forking, Unborn, Active, Holding, Over, Closing
<1> QED BY <1>1, <1>2, <1>3, <1>4, <1>5, <1>7, <1>8, <1>9

\* A running thread lets go of objects and joins.
LEMMA Running ==
  ASSUME IInv, NEW t \in Ids, NEW w \in Ids,
         f_drop(t, w) \/ f_join_enter(t, w) \/ f_join(t) \/ f_tick(t)
  PROVE  IInv'
<1> USE DEF f_drop, f_join_enter, f_join, f_tick, Go, Unlocked, threadVars, collectorVars
<1> USE DEF IInv, TypesInv
<1>1. TypesInv'
  <2>1. PlaceTypes'
    BY DEF PlaceTypes, Places, Unborn, Active, Holding, Over
  <2>2. ListTypes'
    BY DEF ListTypes
  <2>3. QueueTypes'
    BY DEF QueueTypes
  <2>4. EngineTypes'
    BY DEF EngineTypes
  <2> QED BY <2>1, <2>2, <2>3, <2>4
<1>2. PlaceInv'
  BY DEF PlaceTypes, PlaceInv, OtherInv, Forking, Unborn, Active, Holding, Over, MainOnly
<1>3. ListInv'
  BY DEF PlaceTypes, PlaceInv, ListInv, OtherInv, Forking, Listed, Unborn, Active, Holding
<1>4. QueueInv'
  <2>1. \A x \in Ids : Keeps(x)
    BY DEF PlaceTypes, PlaceInv, QueueInv, Keeps, Ended, Finished, Fresh, Rootless, Unborn, Closing, Over, Active, Holding
  <2> QED BY <2>1, QueueFrame
<1>5. OtherInv'
  BY DEF PlaceTypes, OtherInv, QueueInv, Forking, Joining, Unborn
<1>6. ASSUME NEW u \in Ids \ {Main}, NEW p \in Ids, p < u, Child(p, u)
      PROVE  Child(p, u)'
  <2> USE <1>6 DEF PlaceTypes, PlaceInv, Child, Forking, Inc, Dec
  <2>1. \A q \in Ids \ {p} : Alien(q, u)'
    BY DEF OtherInv, Alien
  <2>2. pc'[u] = "forked" <=> Forking(p)' /\ other'[p] = u
    BY DEF OtherInv, Alien
  <2>3. Owed(p, u)' = Owed(p, u)
    BY DEF OtherInv, Alien, Owed, One, Holding
  <2>4. Ahead(p)' = Ahead(p) /\ Ahead(u)' = Ahead(u)
    BY DEF Ahead
  <2>5. Untouched(p, u) => Untouched(p, u)'
    BY DEF Untouched
  <2> QED BY <2>1, <2>2, <2>3, <2>4, <2>5 DEF One
<1>7. ChildInv'
  BY <1>6 DEF ChildInv
<1>8. MainInv'
  BY DEF PlaceTypes, PlaceInv, OtherInv, MainInv, Alien, One, Inc, Dec, Forking, Unborn, Holding
<1>9. ShutInv'
  BY DEF PlaceTypes, PlaceInv, OtherInv, ShutInv, Done, Ahead, Level, Forking, Unborn, Active, Holding, Over, Closing
<1> QED BY <1>1, <1>2, <1>3, <1>4, <1>5, <1>7, <1>8, <1>9

\* The function of a thread has returned.
LEMMA Finishing ==
  ASSUME IInv, NEW t \in Ids,
         f_finish(t)
  PROVE  IInv'
<1> USE DEF f_finish, Go, Unlocked, threadVars, collectorVars
<1> USE DEF IInv, TypesInv
<1>1. TypesInv'
  <2>1. PlaceTypes'
    BY DEF PlaceTypes, Places, Unborn, Active, Holding, Over
  <2>2. ListTypes'
    BY DEF ListTypes
  <2>3. QueueTypes'
    BY DEF QueueTypes
  <2>4. EngineTypes'
    BY DEF EngineTypes
  <2> QED BY <2>1, <2>2, <2>3, <2>4
<1>2. PlaceInv'
  BY DEF PlaceTypes, PlaceInv, OtherInv, Forking, Unborn, Active, Holding, Over, MainOnly
<1>3. ListInv'
  BY DEF PlaceTypes, PlaceInv, ListInv, OtherInv, Forking, Listed, Unborn, Active, Holding
<1>4. QueueInv'
  <2>1. \A x \in Ids : Keeps(x)
    BY DEF PlaceTypes, PlaceInv, QueueInv, Keeps, Ended, Finished, Fresh, Rootless, Unborn, Closing, Over, Active, Holding
  <2> QED BY <2>1, QueueFrame
<1>5. OtherInv'
  BY DEF PlaceTypes, OtherInv, QueueInv, Forking, Joining, Unborn
<1>6. ASSUME NEW u \in Ids \ {Main}, NEW p \in Ids, p < u, Child(p, u)
      PROVE  Child(p, u)'
  <2> USE <1>6 DEF PlaceTypes, PlaceInv, Child, Forking, Inc, Dec
  <2>1. \A q \in Ids \ {p} : Alien(q, u)'
    BY DEF OtherInv, Alien
  <2>2. pc'[u] = "forked" <=> Forking(p)' /\ other'[p] = u
    BY DEF OtherInv, Alien
  <2>3. Owed(p, u)' = Owed(p, u)
    BY DEF OtherInv, Alien, Owed, One, Holding
  <2>4. Ahead(p)' = Ahead(p) /\ Ahead(u)' = Ahead(u)
    BY DEF Ahead
  <2>5. Untouched(p, u) => Untouched(p, u)'
    BY DEF Untouched
  <2> QED BY <2>1, <2>2, <2>3, <2>4, <2>5 DEF One
<1>7. ChildInv'
  BY <1>6 DEF ChildInv
<1>8. MainInv'
  BY DEF PlaceTypes, PlaceInv, OtherInv, MainInv, Alien, One, Inc, Dec, Forking, Unborn, Holding
<1>9. ShutInv'
  BY DEF PlaceTypes, PlaceInv, OtherInv, ShutInv, Done, Ahead, Level, Forking, Unborn, Active, Holding, Over, Closing
<1> QED BY <1>1, <1>2, <1>3, <1>4, <1>5, <1>7, <1>8, <1>9

\* f_epoch_get in f_finalize.
LEMMA Getting ==
  ASSUME IInv, NEW t \in Ids,
         f_finalize_get(t)
  PROVE  IInv'
<1> USE DEF f_finalize_get, Go, Unlocked, threadVars, collectorVars
<1> USE DEF IInv, TypesInv
<1>1. TypesInv'
  <2>1. PlaceTypes'
    BY DEF PlaceTypes, Places, Unborn, Active, Holding, Over
  <2>2. ListTypes'
    BY DEF ListTypes
  <2>3. QueueTypes'
    <3>1. Heads(t) \in [inc : Nat, dec : Nat]
      BY DEF QueueTypes, Heads
    <3> QED BY <3>1 DEF QueueTypes
  <2>4. EngineTypes'
    BY DEF EngineTypes
  <2> QED BY <2>1, <2>2, <2>3, <2>4
<1>2. PlaceInv'
  BY DEF PlaceTypes, PlaceInv, OtherInv, Forking, Unborn, Active, Holding, Over, MainOnly
<1>3. ListInv'
  BY DEF PlaceTypes, PlaceInv, ListInv, OtherInv, Forking, Listed, Unborn, Active, Holding
<1>4. QueueInv'
  BY DEF PlaceTypes, QueueTypes, QueueInv, Heads, Ended, Finished, Fresh, Rootless, Unborn, Closing, Over
<1>5. OtherInv'
  BY DEF PlaceTypes, OtherInv, QueueInv, Forking, Joining, Unborn
<1>6. ASSUME NEW u \in Ids \ {Main}, NEW p \in Ids, p < u, Child(p, u)
      PROVE  Child(p, u)'
  <2> USE <1>6 DEF PlaceTypes, PlaceInv, Child, Forking, Inc, Dec
  <2>1. \A q \in Ids \ {p} : Alien(q, u)'
    BY DEF OtherInv, Alien
  <2>2. pc'[u] = "forked" <=> Forking(p)' /\ other'[p] = u
    BY DEF OtherInv, Alien
  <2>3. Owed(p, u)' = Owed(p, u)
    BY DEF OtherInv, Alien, Owed, One, Holding
  <2>4. Ahead(p)' = Ahead(p) /\ Ahead(u)' = Ahead(u)
    BY DEF Ahead
  <2>5. Untouched(p, u) => Untouched(p, u)'
    BY DEF Untouched
  <2> QED BY <2>1, <2>2, <2>3, <2>4, <2>5 DEF One
<1>7. ChildInv'
  BY <1>6 DEF ChildInv
<1>8. MainInv'
  BY DEF PlaceTypes, PlaceInv, OtherInv, MainInv, Alien, One, Inc, Dec, Forking, Unborn, Holding
<1>9. ShutInv'
  BY DEF PlaceTypes, PlaceInv, OtherInv, ShutInv, Done, Ahead, Level, Forking, Unborn, Active, Holding, Over, Closing
<1> QED BY <1>1, <1>2, <1>3, <1>4, <1>5, <1>7, <1>8, <1>9

\* f_finalize tells everyone who waits.
LEMMA Finalizing ==
  ASSUME IInv, NEW t \in Ids,
         f_finalize_done(t)
  PROVE  IInv'
<1> USE DEF f_finalize_done, Notified, Go, Unlocked, threadVars, collectorVars
<1> USE DEF IInv, TypesInv
<1>1. TypesInv'
  <2>1. PlaceTypes'
    <3>1. v_done[t] = 0
      BY DEF PlaceInv, Active, Holding
    <3>2. \A x \in Ids : pc'[x] \in Places
      BY DEF PlaceTypes, Places, Unborn, Active, Holding, Over
    <3> QED BY <3>1, <3>2 DEF PlaceTypes
  <2>2. ListTypes'
    BY DEF ListTypes
  <2>3. QueueTypes'
    BY DEF QueueTypes
  <2>4. EngineTypes'
    BY DEF EngineTypes
  <2> QED BY <2>1, <2>2, <2>3, <2>4
<1>2. PlaceInv'
  BY DEF PlaceTypes, PlaceInv, OtherInv, Forking, Unborn, Active, Holding, Over, MainOnly
<1>3. ListInv'
  BY DEF PlaceTypes, PlaceInv, ListInv, OtherInv, Forking, Listed, Unborn, Active, Holding
<1>4. QueueInv'
  <2>1. \A x \in Ids : Keeps(x)
    BY DEF PlaceTypes, PlaceInv, QueueInv, Keeps, Ended, Finished, Fresh, Rootless, Unborn, Closing, Over, Active, Holding
  <2> QED BY <2>1, QueueFrame
<1>5. OtherInv'
  BY DEF PlaceTypes, OtherInv, QueueInv, Forking, Joining, Unborn
<1>6. ASSUME NEW u \in Ids \ {Main}, NEW p \in Ids, p < u, Child(p, u)
      PROVE  Child(p, u)'
  <2> USE <1>6 DEF PlaceTypes, PlaceInv, Child, Forking, Inc, Dec
  <2>1. \A q \in Ids \ {p} : Alien(q, u)'
    BY DEF OtherInv, Alien
  <2>2. pc'[u] = "forked" <=> Forking(p)' /\ other'[p] = u
    BY DEF OtherInv, Alien
  <2>3. Owed(p, u)' = Owed(p, u)
    BY DEF OtherInv, Alien, Owed, One, Holding
  <2>4. Ahead(p)' = Ahead(p) /\ Ahead(u)' = Ahead(u)
    BY DEF Ahead
  <2>5. Untouched(p, u) => Untouched(p, u)'
    BY DEF Untouched
  <2> QED BY <2>1, <2>2, <2>3, <2>4, <2>5 DEF One
<1>7. ChildInv'
  BY <1>6 DEF ChildInv
<1>8. MainInv'
  BY DEF PlaceTypes, PlaceInv, OtherInv, MainInv, Alien, One, Inc, Dec, Forking, Unborn, Holding
<1>9. ShutInv'
  BY DEF PlaceTypes, PlaceInv, OtherInv, ShutInv, Done, Ahead, Level, Forking, Unborn, Active, Holding, Over, Closing
<1> QED BY <1>1, <1>2, <1>3, <1>4, <1>5, <1>7, <1>8, <1>9

\* The script ends; the main thread waits for the others.
LEMMA Leaving ==
  ASSUME IInv,
         f_run_exit \/ f_run_wait
  PROVE  IInv'
<1> USE DEF f_run_exit, f_run_wait, Go, Unlocked, threadVars, collectorVars
<1> USE DEF IInv, TypesInv
<1>1. TypesInv'
  <2>1. PlaceTypes'
    BY DEF PlaceTypes, Places, Unborn, Active, Holding, Over
  <2>2. ListTypes'
    BY DEF ListTypes
  <2>3. QueueTypes'
    BY DEF QueueTypes
  <2>4. EngineTypes'
    BY DEF EngineTypes
  <2> QED BY <2>1, <2>2, <2>3, <2>4
<1>2. PlaceInv'
  BY DEF PlaceTypes, PlaceInv, OtherInv, Forking, Unborn, Active, Holding, Over, MainOnly
<1>3. ListInv'
  BY DEF PlaceTypes, PlaceInv, ListInv, OtherInv, Forking, Listed, Unborn, Active, Holding
<1>4. QueueInv'
  <2>1. \A x \in Ids : Keeps(x)
    BY DEF PlaceTypes, PlaceInv, QueueInv, Keeps, Ended, Finished, Fresh, Rootless, Unborn, Closing, Over, Active, Holding
  <2> QED BY <2>1, QueueFrame
<1>5. OtherInv'
  <2>1. \A x \in Ids : pc'[x] # pc[x] => x = Main /\ pc[x] # "forked"
    BY DEF PlaceTypes
  <2>2. \A x \in Ids : Forking(x)' \/ Joining(x)' => x # Main \/ pc'[x] = pc[x]
    BY DEF PlaceTypes, Forking, Joining
  <2>3. \A x \in Ids : Forking(x)' => Forking(x) /\ pc'[other[x]] = pc[other[x]]
    BY <2>1, <2>2 DEF PlaceTypes, Forking, OtherInv
  <2>4. \A x \in Ids : Joining(x)' => Joining(x) /\ stack'[x] = stack[x]
    BY DEF PlaceTypes, Joining
  <2> QED BY <2>3, <2>4 DEF PlaceTypes, OtherInv
<1>6. ASSUME NEW u \in Ids \ {Main}, NEW p \in Ids, p < u, Child(p, u)
      PROVE  Child(p, u)'
  <2> USE <1>6 DEF PlaceTypes, PlaceInv, Child, Forking, Inc, Dec
  <2>1. \A q \in Ids \ {p} : Alien(q, u)'
    BY DEF OtherInv, Alien
  <2>2. pc'[u] = "forked" <=> Forking(p)' /\ other'[p] = u
    BY DEF OtherInv, Alien
  <2>3. Owed(p, u)' = Owed(p, u)
    BY DEF OtherInv, Alien, Owed, One, Holding
  <2>4. Ahead(p)' = Ahead(p) /\ Ahead(u)' = Ahead(u)
    BY DEF Ahead
  <2>5. Untouched(p, u) => Untouched(p, u)'
    BY DEF Untouched
  <2> QED BY <2>1, <2>2, <2>3, <2>4, <2>5 DEF One
<1>7. ChildInv'
  BY <1>6 DEF ChildInv
<1>8. MainInv'
  BY DEF PlaceTypes, PlaceInv, OtherInv, MainInv, Alien, One, Inc, Dec, Forking, Unborn, Holding
<1>9. ShutInv'
  <2>1. ASSUME f_run_wait, pc'[Main] = "release"
        PROVE  \A t \in Ids \ {Main} : pc[t] # "none" => v_done[t] >= 1
    <3>1. \A t \in Ids \ {Main} : Listed(t) => v_done[t] > 0
      BY <2>1 DEF PlaceTypes, ListTypes, Listed, ToSet
    <3> QED BY <3>1 DEF ListInv, PlaceTypes
  <2> QED BY <2>1 DEF PlaceTypes, PlaceInv, ShutInv, Done, Ahead, Over, Closing, Unborn
<1> QED BY <1>1, <1>2, <1>3, <1>4, <1>5, <1>7, <1>8, <1>9

\* ~t_engine waits for the collector.
LEMMA Waiting ==
  ASSUME IInv,
         f_wait \/ f_wait_return \/ f_quit \/ f_quit_return
  PROVE  IInv'
<1> USE DEF f_wait, f_wait_return, f_quit, f_quit_return, Go, Unlocked, threadVars, collectorVars
<1> USE DEF IInv, TypesInv
<1>1. TypesInv'
  <2>1. PlaceTypes'
    BY DEF PlaceTypes, Places, Unborn, Active, Holding, Over
  <2>2. ListTypes'
    BY DEF ListTypes
  <2>3. QueueTypes'
    BY DEF QueueTypes
  <2>4. EngineTypes'
    <3>1. pc[Main] = "waiting" => waits < 5
      BY DEF ShutInv
    <3>2. waits' \in 0 .. 5
      BY <3>1 DEF EngineTypes
    <3>3. running' \in BOOLEAN /\ quitting' \in BOOLEAN
      BY DEF EngineTypes
    <3> QED BY <3>2, <3>3 DEF EngineTypes
  <2> QED BY <2>1, <2>2, <2>3, <2>4
<1>2. PlaceInv'
  BY DEF PlaceTypes, PlaceInv, OtherInv, Forking, Unborn, Active, Holding, Over, MainOnly
<1>3. ListInv'
  BY DEF PlaceTypes, PlaceInv, ListInv, OtherInv, Forking, Listed, Unborn, Active, Holding
<1>4. QueueInv'
  <2>1. \A x \in Ids : Keeps(x)
    BY DEF PlaceTypes, PlaceInv, QueueInv, Keeps, Ended, Finished, Fresh, Rootless, Unborn, Closing, Over, Active, Holding
  <2> QED BY <2>1, QueueFrame
<1>5. OtherInv'
  BY DEF PlaceTypes, OtherInv, QueueInv, Forking, Joining, Unborn
<1>6. ASSUME NEW u \in Ids \ {Main}, NEW p \in Ids, p < u, Child(p, u)
      PROVE  Child(p, u)'
  <2> USE <1>6 DEF PlaceTypes, PlaceInv, Child, Forking, Inc, Dec
  <2>1. \A q \in Ids \ {p} : Alien(q, u)'
    BY DEF OtherInv, Alien
  <2>2. pc'[u] = "forked" <=> Forking(p)' /\ other'[p] = u
    BY DEF OtherInv, Alien
  <2>3. Owed(p, u)' = Owed(p, u)
    BY DEF OtherInv, Alien, Owed, One, Holding
  <2>4. Ahead(p)' = Ahead(p) /\ Ahead(u)' = Ahead(u)
    BY DEF Ahead
  <2>5. Untouched(p, u) => Untouched(p, u)'
    BY DEF Untouched
  <2> QED BY <2>1, <2>2, <2>3, <2>4, <2>5 DEF One
<1>7. ChildInv'
  BY <1>6 DEF ChildInv
<1>8. MainInv'
  BY DEF PlaceTypes, PlaceInv, OtherInv, MainInv, Alien, One, Inc, Dec, Forking, Unborn, Holding
<1>9. ShutInv'
  <2> USE DEF PlaceTypes, EngineTypes, ShutInv, Closing, Over
  <2>1. Done(Level(waits))' = Done(Level(waits')) /\ Done(3)' = Done(3)
    BY DEF Done
  <2>2. CASE f_wait
    BY <2>1, <2>2 DEF Done
  <2>3. CASE f_wait_return
    BY <2>1, <2>3 DEF Done, Level
  <2>4. CASE f_quit \/ f_quit_return
    BY <2>1, <2>4 DEF Done
  <2> QED BY <2>2, <2>3, <2>4
<1> QED BY <1>1, <1>2, <1>3, <1>4, <1>5, <1>7, <1>8, <1>9

\* The collector begins and ends a round.
LEMMA Collecting ==
  ASSUME IInv,
         f_collector_wait \/ f_collector_round \/ f_collector_clear
  PROVE  IInv'
<1> USE DEF f_collector_wait, f_collector_round, f_collector_clear, Go, Unlocked, threadVars, collectorVars
<1> USE DEF IInv, TypesInv
<1>1. TypesInv'
  <2>1. PlaceTypes'
    BY DEF PlaceTypes, Places, Unborn, Active, Holding, Over
  <2>2. ListTypes'
    BY DEF ListTypes
  <2>3. QueueTypes'
    BY DEF QueueTypes
  <2>4. EngineTypes'
    BY DEF EngineTypes
  <2> QED BY <2>1, <2>2, <2>3, <2>4
<1>2. PlaceInv'
  BY DEF PlaceTypes, PlaceInv, OtherInv, Forking, Unborn, Active, Holding, Over, MainOnly
<1>3. ListInv'
  BY DEF PlaceTypes, PlaceInv, ListInv, OtherInv, Forking, Listed, Unborn, Active, Holding
<1>4. QueueInv'
  <2>1. \A x \in Ids : Keeps(x)
    BY DEF PlaceTypes, PlaceInv, QueueInv, Keeps, Ended, Finished, Fresh, Rootless, Unborn, Closing, Over, Active, Holding
  <2> QED BY <2>1, QueueFrame
<1>5. OtherInv'
  BY DEF PlaceTypes, OtherInv, QueueInv, Forking, Joining, Unborn
<1>6. ASSUME NEW u \in Ids \ {Main}, NEW p \in Ids, p < u, Child(p, u)
      PROVE  Child(p, u)'
  <2>1. f_collector_round => ~Ahead(p)
    BY DEF ListTypes, Ahead
  <2>2. ~(Inc(p, u) = 1 /\ v_last[u] > 0)
    BY <1>6, <2>1 DEF Child
  <2> QED BY <1>6, <2>2 DEF Child, Alien, Untouched, Owed, Inc, Dec, Forking
<1>7. ChildInv'
  BY <1>6 DEF ChildInv
<1>8. MainInv'
  BY DEF PlaceTypes, PlaceInv, OtherInv, MainInv, Alien, One, Inc, Dec, Forking, Unborn, Holding
<1>9. ShutInv'
  <2> USE DEF PlaceTypes, ShutInv, Done, EngineTypes
  <2>1. CASE f_collector_wait
    <3>1. \A t \in Ids : pc[t] # "none" => v_done[t] >= 3 \/ Ahead(t)'
      BY <2>1 DEF ListInv, Listed, Ahead
    <3>2. Level(waits + 1) \in 0 .. 3
      BY DEF Level
    <3>3. \A t \in Ids : v_done[t] \in Int
      OBVIOUS
    <3>4. CASE quitting
      BY <2>1, <3>4
    <3>5. CASE ~quitting
      <4>1. \A t \in Ids : pc[t] # "none" => v_done[t] >= Level(waits + 1) \/ Ahead(t)'
        BY <3>1, <3>2, <3>3
      <4> QED BY <2>1, <3>5, <4>1
    <3> QED BY <3>4, <3>5
  <2>2. CASE f_collector_round
    <3>1. \A t \in Ids : ~Ahead(t)
      BY <2>2 DEF ListTypes, Ahead
    <3> QED BY <2>2, <3>1
  <2>3. CASE f_collector_clear
    BY <2>3
  <2> QED BY <2>1, <2>2, <2>3
<1> QED BY <1>1, <1>2, <1>3, <1>4, <1>5, <1>7, <1>8, <1>9
-----------------------------------------------------------------------------
LEMMA Initially ==
  Init => IInv
<1> SUFFICES ASSUME Init PROVE IInv
  OBVIOUS
<1>1. TypesInv
  <2>1. PlaceTypes
    BY DEF Init, PlaceTypes, Places, Unborn, Active, Holding
  <2>2. ListTypes
    BY DEF Init, ListTypes
  <2>3. QueueTypes
    BY DEF Init, QueueTypes
  <2>4. EngineTypes
    <3>1. v_internal \in [Ids -> BOOLEAN]
      BY Zenon DEF Init
    <3>2. waits \in 0 .. 5 /\ collector \in {"wait", "epoch", "round", "quit"}
      BY DEF Init
    <3>3. running \in BOOLEAN /\ quitting \in BOOLEAN
      BY Zenon DEF Init
    <3> QED BY <3>1, <3>2, <3>3 DEF EngineTypes
  <2> QED BY <2>1, <2>2, <2>3, <2>4 DEF TypesInv
<1>2. PlaceInv
  BY DEF Init, PlaceInv, Unborn, Active, Holding, MainOnly
<1>3. ListInv
  <2>1. Len(v_thread__internals) = 1 /\ v_thread__internals[1] = Main
    BY DEF Init
  <2>2. \A t \in Ids : Listed(t) <=> t = Main
    BY <2>1 DEF Listed
  <2> QED BY <2>1, <2>2 DEF Init, ListInv
<1>4. QueueInv
  BY DEF Init, QueueInv, Heads, Ended, Finished, Fresh, Rootless, Unborn, Closing, Over
<1>5. OtherInv
  BY DEF Init, OtherInv, Forking, Joining
<1>6. \A t, u \in Ids : Inc(t, u) = 0 /\ Dec(t, u) = 0 /\ Alien(t, u)
  <2>1. \A t, u \in Ids : Inc(t, u) = 0 /\ Dec(t, u) = 0
    BY PendingEmpty DEF Init, Inc, Dec
  <2> QED BY <2>1 DEF Init, Alien, Forking
<1>7. ASSUME NEW u \in Ids \ {Main} PROVE Main < u /\ Child(Main, u)
  <2>1. pc[u] = "none" /\ Owed(Main, u) = 0 /\ v_count[u] = 0 /\ u \notin last[Main] /\ u \notin stack[Main]
    BY DEF Init, Owed, One, Holding
  <2>2. ~Forking(Main)
    BY DEF Init, Forking
  <2> QED BY <1>6, <2>1, <2>2 DEF Child, Untouched, One
<1>8. ChildInv
  BY <1>7 DEF ChildInv
<1>9. MainInv
  BY <1>6 DEF Init, MainInv, One, Holding
<1>10. ShutInv
  BY DEF Init, ShutInv, Closing, Over
<1> QED BY <1>1, <1>2, <1>3, <1>4, <1>5, <1>8, <1>9, <1>10 DEF IInv

LEMMA Inductive ==
  IInv /\ [Next]_vars => IInv'
<1> SUFFICES ASSUME IInv, [Next]_vars PROVE IInv'
  OBVIOUS
<1>1. ASSUME NEW t \in Ids, Step(t) PROVE IInv'
  BY <1>1, Allocating, Holds, Spawning, Failing, Starting, Running, Releasing, Getting, Finalizing DEF Step
<1>2. ASSUME NEW t \in Ids, Program(t) PROVE IInv'
  BY <1>2, Linking, Running, Working DEF Program
<1>3. ASSUME NEW t \in Ids, f_finish(t) PROVE IInv'
  BY <1>3, Finishing
<1>4. CASE f_run_exit \/ Engine
  BY <1>4, Leaving, Waiting DEF Engine
<1>5. CASE Collector
  BY <1>5, Collecting, Visiting DEF Collector
<1>6. CASE UNCHANGED vars
  <2> USE <1>6 DEF vars, threadVars, collectorVars
  <2>1. TypesInv' /\ PlaceInv' /\ ListInv'
    BY DEF IInv, TypesInv, PlaceTypes, ListTypes, QueueTypes, EngineTypes, PlaceInv, ListInv, Listed
  <2>2. QueueInv' /\ OtherInv'
    BY DEF IInv, QueueInv, Heads, OtherInv, Forking, Joining
  <2>3. ChildInv' /\ MainInv'
    BY DEF IInv, ChildInv, Child, Alien, Untouched, Owed, Inc, Dec, Forking, Ahead, MainInv
  <2>4. ShutInv'
    BY DEF IInv, ShutInv, Done, Ahead
  <2> QED BY <2>1, <2>2, <2>3, <2>4 DEF IInv
<1> QED BY <1>1, <1>2, <1>3, <1>4, <1>5, <1>6 DEF Next, Idle

LEMMA Invariance ==
  Spec => []IInv
BY Initially, Inductive, PTL DEF Spec

(***************************************************************************)
(* The account of an object settles what its count is at least: never less *)
(* than what is owed to its thread, and positive while its parent has it   *)
(* on the stack, though the increment of f_fork may still be queued.       *)
(***************************************************************************)
LEMMA Counts ==
  ASSUME IInv, NEW u \in Ids \ {Main}, NEW p \in Ids, Child(p, u)
  PROVE  /\ v_count[u] \in Int /\ v_count[u] >= Owed(p, u)
         /\ u \in stack[p] /\ pc[u] \notin {"forked", "failed"} => v_count[u] > 0
         /\ pc[u] = "forked" /\ pc[p] = "fork_hold" => v_count[u] > 0
<1>1. /\ v_count[u] \in Int /\ Inc(p, u) \in 0 .. 1 /\ Dec(p, u) \in Nat /\ Dec(u, u) \in Nat
      /\ Owed(p, u) \in Nat /\ One(u \in last[p]) \in Nat
  <2>1. Inc(p, u) \in Nat /\ Dec(p, u) \in Nat /\ Dec(u, u) \in Nat
    BY PendingNat
  <2>2. Inc(p, u) <= 1
    BY DEF Child
  <2>3. v_count[u] \in Int
    BY DEF IInv, TypesInv, QueueTypes
  <2> QED BY <2>1, <2>2, <2>3 DEF Owed, One
<1>2. v_count[u] + Inc(p, u) = Owed(p, u) + Dec(p, u) + Dec(u, u) + One(u \in last[p])
  BY DEF Child
<1>3. u \in stack[p] \/ Inc(p, u) = 1 => Dec(p, u) + One(u \in last[p]) >= 1
  <2>1. u \in stack[p] \/ Inc(p, u) = 1 => Dec(p, u) >= 1 \/ One(u \in last[p]) = 1
    BY DEF Child, One
  <2> QED BY <1>1, <2>1
<1>4. v_count[u] >= Owed(p, u)
  BY <1>1, <1>2, <1>3
<1>5. ASSUME u \in stack[p], pc[u] \notin {"forked", "failed"} PROVE v_count[u] > 0
  <2>1. Inc(p, u) = 1 => Owed(p, u) + Dec(u, u) >= 1
    BY <1>5 DEF Child
  <2> QED BY <1>1, <1>2, <1>3, <1>5, <2>1
<1>6. ASSUME pc[u] = "forked", pc[p] = "fork_hold" PROVE v_count[u] > 0
  <2>1. Inc(p, u) = 0 /\ u \in stack[p]
    BY <1>6 DEF Child
  <2> QED BY <1>1, <1>2, <1>3, <2>1
<1> QED BY <1>1, <1>4, <1>5, <1>6

\* The same of the main thread.
LEMMA MainCount ==
  ASSUME IInv
  PROVE  /\ v_count[Main] \in Nat
         /\ pc[Main] \in Holding => v_count[Main] > 0
<1>1. Dec(Main, Main) \in Nat
  BY PendingNat
<1> QED BY <1>1 DEF IInv, MainInv, One

(***************************************************************************)
(* Type correctness.  That v_count is a natural number says that no object *)
(* is ever released more often than it was held, in whichever order the    *)
(* collector applies the queues of a thread and of its parent.             *)
(***************************************************************************)
THEOREM TypeCorrect ==
  Spec => []TypeOK
<1>1. IInv => TypeOK
  <2> SUFFICES ASSUME IInv PROVE TypeOK
    OBVIOUS
  <2>1. ASSUME NEW u \in Ids PROVE v_count[u] \in Nat
    <3>1. CASE u = Main
      BY <3>1, MainCount
    <3>2. CASE u # Main
      <4>1. PICK p \in Ids : Child(p, u)
        BY <3>2 DEF IInv, ChildInv
      <4>2. v_count[u] \in Int /\ v_count[u] >= Owed(p, u)
        BY <3>2, <4>1, Counts
      <4> QED BY <4>2 DEF Owed, One
    <3> QED BY <3>1, <3>2
  <2>2. v_count \in [Ids -> Int]
    BY DEF IInv, TypesInv, QueueTypes
  <2>3. v_count \in [Ids -> Nat]
    BY <2>1, <2>2
  <2> QED BY <2>3 DEF IInv, TypesInv, PlaceTypes, ListTypes, QueueTypes, EngineTypes, TypeOK
<1> QED BY <1>1, Invariance, PTL

(***************************************************************************)
(* When t_internal is deleted, in the second epoch after v_done was set,   *)
(* everything its thread had queued has been applied.                      *)
(***************************************************************************)
THEOREM QueuesDrained ==
  Spec => []NothingLost
<1>1. IInv => NothingLost
  <2> SUFFICES ASSUME IInv, NEW t \in Ids, pc[t] # "none", t \notin ToSet(v_thread__internals)
               PROVE  increments[t] = <<>> /\ decrements[t] = <<>>
    BY DEF NothingLost
  <2>1. ~Listed(t)
    BY DEF Listed, ToSet, IInv, TypesInv, ListTypes
  <2>2. v_done[t] = 3
    BY <2>1 DEF IInv, ListInv, TypesInv, PlaceTypes
  <2> QED BY <2>2 DEF IInv, QueueInv
<1> QED BY <1>1, Invariance, PTL

(***************************************************************************)
(* The t_thread object is alive as long as f_fork, f_join or the thread    *)
(* itself uses it through a plain pointer, although the counts that keep   *)
(* it alive wait in the queues of two threads.                             *)
(***************************************************************************)
THEOREM ObjectsAlive ==
  Spec => []ThreadAlive
<1>1. IInv => ThreadAlive
  <2> SUFFICES ASSUME IInv, NEW t \in Ids
               PROVE  /\ pc[t] \in {"start", "run", "join", "join_sleep", "release"} => v_count[t] > 0
                      /\ pc[t] \in {"fork_hold", "spawn", "join", "join_sleep"} => v_count[other[t]] > 0
    BY DEF ThreadAlive
  <2>1. ASSUME pc[t] \in {"start", "run", "join", "join_sleep", "release"} PROVE v_count[t] > 0
    <3>1. pc[t] \in Holding
      BY <2>1 DEF Holding
    <3>2. CASE t = Main
      BY <3>1, <3>2, MainCount
    <3>3. CASE t # Main
      <4>1. PICK p \in Ids : Child(p, t)
        BY <3>3 DEF IInv, ChildInv
      <4>2. Owed(p, t) = 1
        BY <3>1 DEF Owed, One
      <4>3. v_count[t] \in Int /\ v_count[t] >= Owed(p, t)
        BY <3>3, <4>1, Counts
      <4> QED BY <4>2, <4>3
    <3> QED BY <3>2, <3>3
  <2>2. ASSUME pc[t] \in {"fork_hold", "spawn"} PROVE v_count[other[t]] > 0
    <3>1. /\ other[t] \in Ids \ {Main} /\ pc[other[t]] = "forked"
          /\ \A p \in Ids : Child(p, other[t]) => p = t
      BY <2>2, OneParent DEF Forking
    <3>2. Child(t, other[t])
      BY <3>1 DEF IInv, ChildInv
    <3>3. v_count[other[t]] >= Owed(t, other[t]) /\ v_count[other[t]] \in Int
      BY <3>1, <3>2, Counts
    <3>4. CASE pc[t] = "fork_hold"
      BY <3>1, <3>2, <3>4, Counts
    <3>5. CASE pc[t] = "spawn"
      BY <3>1, <3>3, <3>5 DEF Owed, One
    <3> QED BY <2>2, <3>4, <3>5
  <2>3. ASSUME pc[t] \in {"join", "join_sleep"} PROVE v_count[other[t]] > 0
    <3>1. other[t] \in Ids /\ other[t] \in stack[t]
      BY <2>3 DEF IInv, TypesInv, PlaceTypes, OtherInv, Joining
    <3>2. other[t] # Main
      BY <3>1 DEF IInv, MainInv, Alien
    <3>3. PICK p \in Ids : Child(p, other[t])
      BY <3>1, <3>2 DEF IInv, ChildInv
    <3>4. p = t
      BY <3>1, <3>3 DEF Child, Alien
    <3>5. pc[other[t]] # "forked" /\ pc[other[t]] # "failed"
      BY <2>3, <3>1, <3>3, <3>4 DEF Child, Forking
    <3> QED BY <3>1, <3>2, <3>3, <3>4, <3>5, Counts
  <2> QED BY <2>1, <2>2, <2>3
<1> QED BY <1>1, Invariance, PTL

(***************************************************************************)
(* f_epoch_suspend signals only a thread that exists: v_done is 0 from     *)
(* f_initialize to f_finalize, both under v_thread__mutex.                 *)
(***************************************************************************)
THEOREM SignalsSafe ==
  Spec => []SignalsLiveThread
<1>1. IInv => SignalsLiveThread
  <2> SUFFICES ASSUME IInv, cursor <= Len(v_thread__internals),
                      v_done[v_thread__internals[cursor]] = 0
               PROVE  pc[v_thread__internals[cursor]] \notin Finished
    BY DEF SignalsLiveThread
  <2>1. v_thread__internals[cursor] \in Ids
    <3>1. v_thread__internals \in Seq(Ids) /\ cursor \in 1 .. Len(v_thread__internals) + 1
      BY DEF IInv, TypesInv, ListTypes
    <3> QED BY <3>1
  <2>2. pc[v_thread__internals[cursor]] \in Active
    BY <2>1 DEF IInv, PlaceInv
  <2> QED BY <2>2 DEF Active, Holding, Finished
<1> QED BY <1>1, Invariance, PTL

(***************************************************************************)
(* "assert(!v_thread__internals)" at the end of ~t_engine: the five calls  *)
(* of f_wait have taken every thread through the two epochs after v_done   *)
(* was set, and with the queues empty the account of every t_thread object *)
(* is zero.                                                                *)
(***************************************************************************)
THEOREM CleanShutDown ==
  Spec => []ShutDownClean
<1>1. IInv => ShutDownClean
  <2> SUFFICES ASSUME IInv, pc[Main] = "end"
               PROVE  v_thread__internals = <<>> /\ \A t \in Ids : v_count[t] = 0
    BY DEF ShutDownClean
  <2>1. \A t \in Ids : pc[t] = "none" \/ v_done[t] = 3
    BY DEF IInv, TypesInv, PlaceTypes, ShutInv, Done
  <2>2. \A t \in Ids : ~Listed(t)
    BY <2>1 DEF IInv, ListInv
  <2>3. v_thread__internals = <<>>
    <3>1. v_thread__internals \in Seq(Ids)
      BY DEF IInv, TypesInv, ListTypes
    <3>2. Len(v_thread__internals) = 0
      <4> SUFFICES ASSUME Len(v_thread__internals) # 0 PROVE FALSE
        OBVIOUS
      <4>1. 1 \in 1 .. Len(v_thread__internals) /\ v_thread__internals[1] \in Ids
        BY <3>1
      <4> QED BY <2>2, <4>1 DEF Listed
    <3> QED BY <3>1, <3>2
  <2>4. \A t \in Ids : increments[t] = <<>> /\ decrements[t] = <<>> /\ last[t] = {}
    BY <2>1 DEF IInv, QueueInv, Fresh, Unborn
  <2>5. \A t, u \in Ids : Inc(t, u) = 0 /\ Dec(t, u) = 0 /\ One(u \in last[t]) = 0
    BY <2>4, PendingEmpty DEF Inc, Dec, One
  <2>6. \A t \in Ids : pc[t] \notin Holding /\ pc[t] # "forked"
    BY <2>1 DEF IInv, PlaceInv, Unborn, Active, Holding
  <2>7. v_count[Main] = 0
    BY <2>5, <2>6 DEF IInv, MainInv, One
  <2>8. ASSUME NEW u \in Ids \ {Main} PROVE v_count[u] = 0
    <3>1. PICK p \in Ids : Child(p, u)
      BY DEF IInv, ChildInv
    <3>2. v_count[u] + Inc(p, u) = Owed(p, u) + Dec(p, u) + Dec(u, u) + One(u \in last[p])
      BY <3>1 DEF Child
    <3>3. Owed(p, u) = 0
      BY <2>6 DEF Owed, One
    <3>4. v_count[u] \in Int
      BY DEF IInv, TypesInv, QueueTypes
    <3>5. Inc(p, u) = 0 /\ Dec(p, u) = 0 /\ Dec(u, u) = 0 /\ One(u \in last[p]) = 0
      BY <2>5
    <3> QED BY <3>2, <3>3, <3>4, <3>5
  <2> QED BY <2>3, <2>7, <2>8
<1> QED BY <1>1, Invariance, PTL
=============================================================================
