----------------------------- MODULE Collector ------------------------------
(***************************************************************************)
(* The concurrent cycle collector: deferred reference counting by epochs,  *)
(* root candidates on an intrusive list, and the detection of garbage      *)
(* cycles by prescan, mark, scan and collect, which read the fields of     *)
(* objects while the mutators go on writing them.                          *)
(*                                                                         *)
(* The increment and decrement queues of a mutator are the queues of       *)
(* EpochQueue: an epoch applies the increments up to its snapshot and the  *)
(* decrements up to the snapshot before.  Everything f_epoch does for one  *)
(* thread touches words only the collector uses, and so is one step.  The  *)
(* detection reads the fields one by one, a step each.                     *)
(***************************************************************************)
EXTENDS Integers, Sequences, SequencesExt, FiniteSets, TLC

CONSTANTS
  Objects,   \* addresses of t_object in the heap
  Symbols,   \* those used for interned symbols
  Null,
  Roots,     \* the sentinel t_object::v_roots
  Slots,     \* fields of an object: 1 .. Slots
  Threads,   \* mutators, 1 .. Threads in the order of v_thread__internals
  Stack,     \* stack positions of a mutator: 1 .. Stack
  MaxOps,    \* bound: operations of the mutators
  Listed     \* bound: candidates on the list of roots at the start

VARIABLES
  heap,      \* the words of every t_object, and of v_roots
  root,      \* a t_root slot: a counted reference from outside the heap
  stack,     \* stack of each mutator
  last,      \* stack of each mutator as of its latest epoch (v_stack_last)
  storing,   \* the assignment a mutator is in the middle of, or Null
  finding,   \* the symbol a mutator is looking up, or Null
  increments, decrements, deferred,  \* queues; deferred: due next epoch
  ops,       \* operations done so far
  pc,        \* phase of f_collector
  thread,    \* the mutator f_collector visits next
  v_cycles,  \* candidate cycles, linked by v_next_cycle
  garbage,   \* released candidates, linked by v_next
  p,         \* the root candidate the detection is at
  v_cycle,   \* the cycle f_collect_white gathers
  at,        \* the object and the field f_loop is at, or Null
  v_scan_stack,
  quiet      \* rounds ended since the mutators stopped, up to 5

mutatorVars == <<root, stack, storing, finding, increments, decrements, ops>>
epochVars == <<last, deferred>>
loopVars == <<p, v_cycle, at, v_scan_stack>>
vars == <<heap, mutatorVars, epochVars, pc, thread, v_cycles, garbage, loopVars,
          quiet>>

Maybe == Objects \cup {Null}

Colors == {"BLACK", "PURPLE", "GRAY", "WHITING", "WHITE", "ORANGE", "RED"}
-----------------------------------------------------------------------------
(***************************************************************************)
(* Operations of t_object on the heap h.                                   *)
(***************************************************************************)

f_append(h, o) ==
  LET tail == h[Roots].v_previous
  IN [h EXCEPT ![o].v_next = Roots, ![o].v_previous = tail,
               ![tail].v_next = o, ![Roots].v_previous = o]

\* Mutant of Lower: the object turns purple but is not listed.
LowerUnlisted(h, o) ==
  [h EXCEPT ![o].v_count = @ - 1, ![o].v_color = "PURPLE"]

\* "if (!v_next) f_append(this)"
Candidate(h, o) == IF h[o].v_next = Null THEN f_append(h, o) ELSE h

\* Mutant: only objects not listed yet are counted.
f_incrementListed(h, o) ==
  IF h[o].v_next = Null
    THEN f_append([h EXCEPT ![o].v_count = @ + 1, ![o].v_color = "BLACK"], o)
    ELSE [h EXCEPT ![o].v_color = "BLACK"]

f_increment(h, o) ==
  Candidate([h EXCEPT ![o].v_count = @ + 1, ![o].v_color = "BLACK"], o)

\* What f_decrement does to a count that stays above zero.
Lower(h, o) ==
  Candidate([h EXCEPT ![o].v_count = @ - 1, ![o].v_color = "PURPLE"], o)

\* The references an object holds, in the order they are scanned.
Held(h, o) == SelectSeq(h[o].slots, LAMBDA x : x # Null)

\* Mutant: the count is not set for the next use of the memory.
FreeUncounted(h, o) ==
  [h EXCEPT ![o].free = TRUE, ![o].v_next = Null, ![o].v_previous = Null,
            ![o].slots = [i \in 1 .. Slots |-> Null]]

Free(h, o) ==
  [h EXCEPT ![o].free = TRUE, ![o].v_count = 1, ![o].v_next = Null,
            ![o].v_previous = Null, ![o].slots = [i \in 1 .. Slots |-> Null]]

f_decrement_push(s, o) ==
  IF s.h[o].v_count = 1
    THEN [h |-> [s.h EXCEPT ![o].v_count = 0], scan |-> <<o>> \o s.scan]
    ELSE [s EXCEPT !.h = Lower(s.h, o)]

\* Mutant: the object is unlinked one way only.
f_decrement_stepForward(h, scan, o) ==
  LET s == FoldLeft(f_decrement_push, [h |-> h, scan |-> scan], Held(h, o))
      g == [s.h EXCEPT ![o].v_type = FALSE]
      n == g[o].v_next
      b == g[o].v_previous
  IN [s EXCEPT !.h =
        IF n = Null THEN Free(g, o)
        ELSE IF b = Null THEN g
        ELSE Free([g EXCEPT ![b].v_next = n], o)]

\* Release o: give up its references and leave the list of candidates.  A
\* member of a candidate cycle (v_previous is null) is freed with its cycle.
f_decrement_step(h, scan, o) ==
  LET s == FoldLeft(f_decrement_push, [h |-> h, scan |-> scan], Held(h, o))
      g == [s.h EXCEPT ![o].v_type = FALSE]
      n == g[o].v_next
      b == g[o].v_previous
  IN [s EXCEPT !.h =
        IF n = Null THEN Free(g, o)
        ELSE IF b = Null THEN g
        ELSE Free([g EXCEPT ![n].v_previous = b, ![b].v_next = n], o)]

\* f_loop<&t_object::f_decrement_step>
RECURSIVE Release(_, _)
Release(h, scan) ==
  IF scan = <<>> THEN h
  ELSE LET s == f_decrement_step(h, Tail(scan), Head(scan))
       IN Release(s.h, s.scan)

f_decrement(h, o) ==
  IF h[o].v_count = 1
    THEN Release([h EXCEPT ![o].v_count = 0], <<o>>)
    ELSE Lower(h, o)
-----------------------------------------------------------------------------
(***************************************************************************)
(* The mutators.  A mutator reads and writes fields of objects it has on   *)
(* its stack; a t_slot assignment pushes the increment, exchanges the      *)
(* pointer and pushes the decrement of the old one.                        *)
(***************************************************************************)
OnStack(t) == {stack[t][i] : i \in 1 .. Stack} \ {Null}

Busy(t) == storing[t] # Null \/ finding[t] # Null

\* The mutators have stopped.
Quiet == ops = MaxOps /\ \A t \in 1 .. Threads : ~Busy(t)

Operation(t) ==
  /\ ~Busy(t)
  /\ ops < MaxOps
  /\ ops' = ops + 1

collectorVars == <<epochVars, pc, thread, v_cycles, garbage, loopVars, quiet>>

\* Read a field, or the t_root, onto the stack.
f_load(t) ==
  /\ Operation(t)
  /\ \E i \in 1 .. Stack :
       \E v \in {root} \cup {heap[x].slots[f] : x \in OnStack(t), f \in 1 .. Slots} :
         stack' = [stack EXCEPT ![t][i] = v]
  /\ stack' # stack
  /\ UNCHANGED <<heap, root, storing, finding, increments, decrements, collectorVars>>

\* A stack position goes dead or is overwritten by something else.
f_drop(t) ==
  /\ Operation(t)
  /\ \E i \in 1 .. Stack :
       /\ stack[t][i] # Null
       /\ stack' = [stack EXCEPT ![t][i] = Null]
  /\ UNCHANGED <<heap, root, storing, finding, increments, decrements, collectorVars>>

\* f_allocate and f_be: the object starts with a count of one, for which the
\* decrement is already queued.
f_allocate(t) ==
  /\ Operation(t)
  /\ \E o \in Objects \ Symbols, i \in 1 .. Stack :
       /\ heap[o].free
       /\ heap' = [heap EXCEPT ![o].free = FALSE, ![o].v_type = TRUE,
                               ![o].v_next = Null]
       /\ stack' = [stack EXCEPT ![t][i] = o]
       /\ decrements' = [decrements EXCEPT ![t] = Append(@, o)]
  /\ UNCHANGED <<root, storing, finding, increments, collectorVars>>

\* t_slot::operator=: push the increment of the new value.
f_assign(t) ==
  /\ Operation(t)
  /\ \E x \in (OnStack(t) \ Symbols) \cup {Roots}, f \in 1 .. Slots, v \in OnStack(t) \cup {Null} :
       /\ x = Roots => f = 1
       /\ storing' = [storing EXCEPT ![t] = <<x, f, v>>]
       /\ increments' =
            IF v = Null THEN increments
            ELSE [increments EXCEPT ![t] = Append(@, v)]
  /\ UNCHANGED <<heap, root, stack, finding, decrements, collectorVars>>

\* t_slot::operator=: exchange the pointer and push the decrement.
f_exchange(t) ==
  /\ storing[t] # Null
  /\ LET x == storing[t][1]
         f == storing[t][2]
         v == storing[t][3]
         old == IF x = Roots THEN root ELSE heap[x].slots[f]
     IN /\ IF x = Roots
             THEN root' = v /\ UNCHANGED heap
             ELSE heap' = [heap EXCEPT ![x].slots[f] = v] /\ UNCHANGED root
        /\ decrements' =
             IF old = Null THEN decrements
             ELSE [decrements EXCEPT ![t] = Append(@, old)]
  /\ storing' = [storing EXCEPT ![t] = Null]
  /\ UNCHANGED <<stack, finding, increments, ops, collectorVars>>


(***************************************************************************)
(* Symbols.  The entry of the symbol o in v_symbol__instances is a t_slot  *)
(* that the symbol itself scans: its field 1, which refers to o as long as *)
(* o exists.  It is all that keeps an unused symbol from being released.   *)
(***************************************************************************)

\* t_symbol::f_instantiate, no entry yet: create the symbol and store it in
\* its entry.
f_instantiate_new(t) ==
  /\ Operation(t)
  /\ \E o \in Symbols, i \in 1 .. Stack :
       /\ heap[o].free
       /\ heap' = [heap EXCEPT ![o].free = FALSE, ![o].v_type = TRUE,
                               ![o].v_next = Null, ![o].slots[1] = o]
       /\ stack' = [stack EXCEPT ![t][i] = o]
       /\ increments' = [increments EXCEPT ![t] = Append(@, o)]
       /\ decrements' = [decrements EXCEPT ![t] = Append(@, o)]
  /\ UNCHANGED <<root, storing, finding, collectorVars>>

\* t_symbol::f_instantiate, entry found: tell the collector, under
\* v_object__reviving__mutex.
f_instantiate_revive(t) ==
  /\ Operation(t)
  /\ \E o \in Symbols :
       /\ heap[o].v_type
       /\ heap' = [heap EXCEPT ![o].v_reviving = TRUE]
       /\ finding' = [finding EXCEPT ![t] = o]
  /\ UNCHANGED <<root, stack, storing, increments, decrements, collectorVars>>

\* "return i->second", after v_object__reviving__mutex is unlocked.
f_instantiate_return(t) ==
  /\ finding[t] # Null
  /\ \E i \in 1 .. Stack : stack' = [stack EXCEPT ![t][i] = finding[t]]
  /\ finding' = [finding EXCEPT ![t] = Null]
  /\ UNCHANGED <<heap, root, storing, increments, decrements, ops, collectorVars>>

Mutator ==
  \E t \in 1 .. Threads :
    \/ f_load(t) \/ f_drop(t) \/ f_allocate(t) \/ f_assign(t) \/ f_exchange(t)
    \/ f_instantiate_new(t) \/ f_instantiate_revive(t) \/ f_instantiate_return(t)
-----------------------------------------------------------------------------
(***************************************************************************)
(* f_collector: the epoch of each mutator.                                 *)
(***************************************************************************)

\* f_object__find: what is on a stack counts only if it is an object.
f_object__find(x) == IF x # Null /\ heap[x].v_type THEN x ELSE Null

\* Mutant: the decrements of this epoch are applied in this epoch.
DueNow(t) == decrements[t]

\* t_decrements::f_flush: decrements up to v_last.
Due(t) == deferred[t]

\* t_fiber::t_internal::f_epoch_scan: the stack as found now.  Only the
\* positions that differ from the last epoch are looked up.
f_epoch_scan(t) ==
  [i \in 1 .. Stack |->
     IF stack[t][i] = last[t][i] THEN last[t][i] ELSE f_object__find(stack[t][i])]

\* f_epoch_increment, f_epoch_decrement: what came onto the stack, what left.
Changed(t, now, s) ==
  SelectSeq([i \in 1 .. Stack |-> IF now[i] = last[t][i] THEN Null ELSE s[i]],
            LAMBDA x : x # Null)

f_epoch_increment(t, now) == Changed(t, now, now)
f_epoch_decrement(t, now) == Changed(t, now, last[t])

\* t_thread::t_internal::f_epoch: increment what is new on the stack and what
\* was queued, then decrement what is gone and what was queued before the last
\* epoch.
f_epoch ==
  /\ pc = "epoch"
  /\ LET t == thread
         now == f_epoch_scan(t)
         up == FoldLeft(f_increment, heap, f_epoch_increment(t, now) \o increments[t])
     IN /\ heap' = FoldLeft(f_decrement, up, f_epoch_decrement(t, now) \o Due(t))
        /\ last' = [last EXCEPT ![t] = now]
        /\ increments' = [increments EXCEPT ![t] = <<>>]
        /\ deferred' = [deferred EXCEPT ![t] = decrements[t]]
        /\ decrements' = [decrements EXCEPT ![t] = <<>>]
  /\ IF thread < Threads
       THEN thread' = thread + 1 /\ UNCHANGED pc
       ELSE thread' = 1 /\ pc' = "cycles"
  /\ UNCHANGED <<root, stack, storing, finding, ops, v_cycles, garbage, loopVars,
                 quiet>>

(***************************************************************************)
(* f_collector: the candidate cycles found before.                         *)
(***************************************************************************)

\* The objects linked by v_next from o up to end, end included.
RECURSIVE Chain(_, _, _)
Chain(h, o, end) ==
  IF o = end THEN <<o>> ELSE <<o>> \o Chain(h, h[o].v_next, end)

\* Mutants: references from outside, or look-ups, do not count.
PassesReferenced(h, members) ==
  \A i \in DOMAIN members :
    h[members[i]].v_color = "ORANGE" /\ ~h[members[i]].v_reviving

PassesRevived(h, members) ==
  \A i \in DOMAIN members :
    h[members[i]].v_color = "ORANGE" /\ h[members[i]].v_cyclic = 0

\* Every member still orange, not referenced from outside, not looked up.
Passes(h, members) ==
  \A i \in DOMAIN members :
    LET o == h[members[i]]
    IN o.v_color = "ORANGE" /\ o.v_cyclic = 0 /\ ~o.v_reviving

\* A failed candidate: members without references become garbage, purple
\* ones root candidates again, the others are let go.
Refurbish(s, o) ==
  IF s.h[o].v_count = 0
    THEN [h |-> [s.h EXCEPT ![o].v_next = s.garbage], garbage |-> o]
  ELSE IF s.h[o].v_color = "PURPLE"
    THEN [s EXCEPT !.h = f_append(s.h, o)]
  ELSE [s EXCEPT !.h = [s.h EXCEPT ![o].v_color = "BLACK", ![o].v_next = Null]]

f_cyclic_decrement_push(h, o) ==
  CASE h[o].v_color = "RED" -> h
    [] h[o].v_color = "ORANGE" ->
         [h EXCEPT ![o].v_count = @ - 1, ![o].v_cyclic = @ - 1]
    [] OTHER -> f_decrement(h, o)

f_cyclic_decrement(h, o) ==
  [FoldLeft(f_cyclic_decrement_push, h, Held(h, o)) EXCEPT ![o].v_type = FALSE]

\* One turn of "while (v_cycles)": drop the members released meanwhile, then
\* free the rest or give it back.
f_free_cycle ==
  /\ pc = "cycles"
  /\ v_cycles # Null
  /\ LET ring == Chain(heap, heap[v_cycles].v_next, v_cycles)
         dead == SelectSeq(ring, LAMBDA o : ~heap[o].v_type)
         members == SelectSeq(ring, LAMBDA o : heap[o].v_type)
         cycle == <<Last(members)>> \o Front(members)
         freed == FoldLeft(Free, heap, dead)
         swept == [o \in DOMAIN heap |->
                     IF o \in ToSet(members) THEN [freed[o] EXCEPT !.v_reviving = FALSE]
                     ELSE freed[o]]
     IN IF members = <<>>
          THEN heap' = swept /\ UNCHANGED garbage
        ELSE IF Passes(heap, members)
          THEN LET red == [o \in DOMAIN swept |->
                             IF o \in ToSet(members)
                               THEN [swept[o] EXCEPT !.v_color = "RED"]
                               ELSE swept[o]]
               IN /\ heap' = FoldLeft(Free, FoldLeft(f_cyclic_decrement, red, cycle), cycle)
                  /\ UNCHANGED garbage
        ELSE LET first == cycle[1]
                 start == [swept EXCEPT ![first].v_color =
                             IF @ = "ORANGE" THEN "PURPLE" ELSE @]
                 s == FoldLeft(Refurbish, [h |-> start, garbage |-> garbage], cycle)
             IN heap' = s.h /\ garbage' = s.garbage
  /\ v_cycles' = heap[v_cycles].v_next_cycle
  /\ UNCHANGED <<mutatorVars, epochVars, pc, thread, loopVars, quiet>>

\* The collector goes back to wait for the next tick.
EndRound ==
  /\ pc' = "epoch"
  /\ quiet' = IF Quiet /\ quiet < 5 THEN quiet + 1 ELSE quiet

\* Release the garbage and decide on a detection: live objects may or may not
\* have passed v_collector__threshold, which ~t_engine sets to 0 once the
\* mutators have stopped.
f_release_garbage ==
  /\ pc = "cycles"
  /\ v_cycles = Null
  /\ LET all == IF garbage = Null THEN <<>> ELSE Front(Chain(heap, garbage, Null))
     IN heap' = FoldLeft(LAMBDA h, o : Release([h EXCEPT ![o].v_next = Null], <<o>>),
                         heap, all)
  /\ garbage' = Null
  /\ \/ /\ heap'[Roots].v_next = Roots \/ ~Quiet
        /\ EndRound
     \/ /\ heap'[Roots].v_next # Roots
        /\ pc' = "prescan" /\ UNCHANGED quiet
  /\ p' = Roots
  /\ UNCHANGED <<mutatorVars, epochVars, thread, v_cycles, v_cycle, at, v_scan_stack>>
-----------------------------------------------------------------------------
(***************************************************************************)
(* f_collector: the detection.  f_loop reads a field of the object it is   *)
(* at, pushes what the field holds and goes on with v_scan_stack when the  *)
(* fields are done.                                                        *)
(***************************************************************************)
Paint(h, o, color) == [h EXCEPT ![o].v_color = color]

\* What f_scan_gray_step does to an object it takes off the scan stack.
Whiten(h, o) == IF h[o].v_color = "BLACK" THEN h ELSE Paint(h, o, "WHITE")

\* The scan so far, and the field it is at.
Here == [h |-> heap, scan |-> v_scan_stack]
Field == heap[at[1]].slots[at[2]]

\* f_step and f_loop, where pushed is the scan after the push of Field.
f_loop(pushed) ==
  LET s == IF Field = Null THEN Here ELSE pushed
      next == Head(s.scan)
  IN IF at[2] < Slots
       THEN at' = <<at[1], at[2] + 1>> /\ heap' = s.h /\ v_scan_stack' = s.scan
     ELSE IF s.scan = <<>>
       THEN at' = Null /\ heap' = s.h /\ v_scan_stack' = s.scan
     ELSE /\ at' = <<next, 1>>
          /\ heap' = IF pc = "scan" THEN Whiten(s.h, next) ELSE s.h
          /\ v_scan_stack' = Tail(s.scan)

\* Paint o and push it.
Scan(s, o, color) ==
  [h |-> Paint(s.h, o, color), scan |-> <<o>> \o s.scan]

Detecting(phase) ==
  /\ pc = phase
  /\ UNCHANGED <<mutatorVars, epochVars, thread>>

f_prescan_black_push(s, o) ==
  IF s.h[o].v_color \in {"BLACK", "PURPLE"} THEN s ELSE Scan(s, o, "BLACK")

f_prescan_black ==
  /\ Detecting("prescan")
  /\ at = Null
  /\ LET o == heap[p].v_next
     IN IF o = Roots
          THEN pc' = "mark" /\ p' = Roots /\ UNCHANGED <<heap, at>>
          ELSE /\ p' = o
               /\ heap' = IF heap[o].v_color = "PURPLE" THEN heap ELSE Paint(heap, o, "BLACK")
               /\ at' = <<o, 1>>
               /\ UNCHANGED pc
  /\ UNCHANGED <<v_cycles, garbage, v_cycle, v_scan_stack, quiet>>

f_prescan_black_step ==
  /\ Detecting("prescan")
  /\ at # Null
  /\ f_loop(f_prescan_black_push(Here, Field))
  /\ UNCHANGED <<pc, v_cycles, garbage, p, v_cycle, quiet>>

MarkGray(h, o) == [h EXCEPT ![o].v_color = "GRAY", ![o].v_cyclic = h[o].v_count]

f_mark_gray_push(s, o) ==
  LET gray == IF s.h[o].v_color = "GRAY" THEN s
              ELSE [h |-> MarkGray(s.h, o), scan |-> <<o>> \o s.scan]
  IN [gray EXCEPT !.h[o].v_cyclic = @ - 1]

\* Candidates that are no longer purple leave the list.
f_mark_gray ==
  /\ Detecting("mark")
  /\ at = Null
  /\ LET o == heap[p].v_next
     IN IF o = Roots
          THEN /\ p' = Roots
               /\ IF p = Roots
                    THEN EndRound /\ heap' = [heap EXCEPT ![Roots].v_previous = Roots]
                    ELSE pc' = "scan" /\ UNCHANGED <<heap, quiet>>
               /\ UNCHANGED at
        ELSE IF heap[o].v_color = "PURPLE"
          THEN /\ p' = o /\ heap' = MarkGray(heap, o) /\ at' = <<o, 1>>
               /\ UNCHANGED <<pc, quiet>>
        ELSE /\ heap' = [heap EXCEPT ![p].v_next = heap[o].v_next, ![o].v_next = Null]
             /\ UNCHANGED <<pc, p, at, quiet>>
  /\ UNCHANGED <<v_cycles, garbage, v_cycle, v_scan_stack>>

f_mark_gray_step ==
  /\ Detecting("mark")
  /\ at # Null
  /\ f_loop(f_mark_gray_push(Here, Field))
  /\ UNCHANGED <<pc, v_cycles, garbage, p, v_cycle, quiet>>

f_scan_black_push(s, o) ==
  IF s.h[o].v_color = "BLACK" THEN s ELSE Scan(s, o, "BLACK")

\* Mutant: a whiting object is pushed again.
f_scan_gray_scan_black_pushAgain(s, o) ==
  IF s.h[o].v_color = "BLACK" THEN s ELSE Scan(s, o, "BLACK")

\* A whiting object is on v_scan_stack already.
f_scan_gray_scan_black_push(s, o) ==
  IF s.h[o].v_color = "BLACK" THEN s
  ELSE IF s.h[o].v_color = "WHITING" THEN [s EXCEPT !.h = Paint(s.h, o, "BLACK")]
  ELSE Scan(s, o, "BLACK")

\* v_cyclic is unsigned: having sunk below zero it is above zero.
f_scan_gray_push(s, o) ==
  IF s.h[o].v_color # "GRAY" THEN s
  ELSE Scan(s, o, IF s.h[o].v_cyclic # 0 THEN "BLACK" ELSE "WHITING")

f_scan_gray ==
  /\ Detecting("scan")
  /\ at = Null
  /\ LET o == heap[p].v_next
     IN IF o = Roots
          THEN pc' = "collect" /\ p' = Roots /\ UNCHANGED <<heap, at>>
        ELSE IF heap[o].v_color # "GRAY"
          THEN p' = o /\ UNCHANGED <<heap, at, pc>>
        ELSE IF heap[o].v_cyclic # 0
          THEN p' = o /\ heap' = Paint(heap, o, "BLACK") /\ at' = <<o, 1>> /\ pc' = "scan_black"
        ELSE p' = o /\ heap' = Whiten(heap, o) /\ at' = <<o, 1>> /\ UNCHANGED pc
  /\ UNCHANGED <<v_cycles, garbage, v_cycle, v_scan_stack, quiet>>

f_scan_black_step ==
  /\ Detecting("scan_black")
  /\ f_loop(f_scan_black_push(Here, Field))
  /\ pc' = IF at' = Null THEN "scan" ELSE pc
  /\ UNCHANGED <<v_cycles, garbage, p, v_cycle, quiet>>

f_scan_gray_step ==
  /\ Detecting("scan")
  /\ at # Null
  /\ IF heap[at[1]].v_color = "BLACK"
       THEN f_loop(f_scan_gray_scan_black_push(Here, Field))
       ELSE f_loop(f_scan_gray_push(Here, Field))
  /\ UNCHANGED <<pc, v_cycles, garbage, p, v_cycle, quiet>>

f_collect_white_push(s, o) ==
  IF s.h[o].v_color # "WHITE" THEN s
  ELSE [h |-> [s.h EXCEPT ![o].v_color = "RED", ![o].v_cyclic = s.h[o].v_count,
                          ![o].v_next = s.h[v_cycle].v_next, ![o].v_previous = Null,
                          ![v_cycle].v_next = o],
        scan |-> <<o>> \o s.scan]

\* Take the first candidate off the list and, if it is white, start a cycle.
f_collect_white ==
  /\ Detecting("collect")
  /\ LET o == heap[Roots].v_next
         popped == [heap EXCEPT ![Roots].v_next = heap[o].v_next]
     IN IF o = Roots
          THEN /\ EndRound /\ heap' = [heap EXCEPT ![Roots].v_previous = Roots]
               /\ UNCHANGED <<v_cycle, at>>
        ELSE IF heap[o].v_color = "WHITE"
          THEN /\ heap' = [popped EXCEPT ![o].v_color = "RED", ![o].v_cyclic = heap[o].v_count,
                                         ![o].v_next = o, ![o].v_previous = Null]
               /\ v_cycle' = o
               /\ at' = <<o, 1>>
               /\ pc' = "white" /\ UNCHANGED quiet
        ELSE /\ heap' = [popped EXCEPT ![o].v_next = Null]
             /\ UNCHANGED <<pc, v_cycle, at, quiet>>
  /\ UNCHANGED <<v_cycles, garbage, p, v_scan_stack>>

f_collect_white_step ==
  /\ Detecting("white")
  /\ f_loop(f_collect_white_push(Here, Field))
  /\ UNCHANGED <<v_cycles, garbage, p, v_cycle, quiet>>
  /\ pc' = IF at' = Null THEN "red" ELSE pc

f_scan_red(h, o) ==
  IF h[o].v_color = "RED" /\ h[o].v_cyclic # 0
    THEN [h EXCEPT ![o].v_cyclic = @ - 1] ELSE h

\* Subtract the references among the members, then paint them orange and
\* leave the cycle for the next epoch.
f_scan_red_step ==
  /\ Detecting("red")
  /\ LET o == IF at = Null THEN v_cycle ELSE at[1]
         i == IF at = Null THEN 1 ELSE at[2]
         x == heap[o].slots[i]
         h == IF x = Null THEN heap ELSE f_scan_red(heap, x)
         members == ToSet(Chain(h, h[v_cycle].v_next, v_cycle))
     IN IF i < Slots
          THEN at' = <<o, i + 1>> /\ heap' = h /\ UNCHANGED <<pc, v_cycles>>
        ELSE IF h[o].v_next # v_cycle
          THEN at' = <<h[o].v_next, 1>> /\ heap' = h /\ UNCHANGED <<pc, v_cycles>>
        ELSE /\ heap' = [[x1 \in DOMAIN h |->
                            IF x1 \in members THEN [h[x1] EXCEPT !.v_color = "ORANGE"]
                            ELSE h[x1]] EXCEPT ![v_cycle].v_next_cycle = v_cycles]
             /\ v_cycles' = v_cycle
             /\ at' = Null
             /\ pc' = "collect"
  /\ UNCHANGED <<garbage, p, v_cycle, v_scan_stack, quiet>>

Detect ==
  \/ f_prescan_black \/ f_prescan_black_step
  \/ f_mark_gray \/ f_mark_gray_step
  \/ f_scan_gray \/ f_scan_black_step \/ f_scan_gray_step
  \/ f_collect_white \/ f_collect_white_step \/ f_scan_red_step

Collect == f_epoch \/ f_free_cycle \/ f_release_garbage \/ Detect
-----------------------------------------------------------------------------
RECURSIVE ReachableFrom(_, _)
ReachableFrom(h, s) ==
  LET t == (s \cup UNION {{h[o].slots[i] : i \in 1 .. Slots} : o \in s}) \ {Null}
  IN IF t = s THEN s ELSE ReachableFrom(h, t)

\* What the mutators can still get at.
Reachable ==
  ReachableFrom(heap, ({root} \cup UNION {OnStack(t) : t \in 1 .. Threads}) \ {Null})

(***************************************************************************)
(* Init: between two epochs, with every queue empty and nothing on the     *)
(* stacks.  The objects reachable from the t_root are alive, with the      *)
(* counts their references add up to; any of them may be on the list of    *)
(* candidates, in any order.  The others are in the heap.                  *)
(***************************************************************************)
References(shape, o) ==
  Cardinality({<<x, i>> \in Objects \X (1 .. Slots) : shape[x][i] = o})

Word(shape, list, o) ==
  LET Nth(n) == IF n \in DOMAIN list THEN list[n] ELSE Roots
      k == IF o \in ToSet(list) THEN CHOOSE n \in DOMAIN list : list[n] = o ELSE 0
      links == [v_next |-> IF k = 0 THEN Null ELSE Nth(k + 1),
                v_previous |-> IF k = 0 THEN Null ELSE Nth(k - 1)]
  IN IF o = Roots THEN [v_next |-> Nth(1), v_previous |-> Nth(Len(list))]
     ELSE links @@ [v_color |-> IF k = 0 THEN "BLACK" ELSE "PURPLE",
                    v_count |-> References(shape, o) + (IF root = o THEN 1 ELSE 0),
                    v_cyclic |-> 0, v_reviving |-> FALSE, v_next_cycle |-> Null,
                    v_type |-> TRUE, free |-> FALSE, slots |-> shape[o]]

Init ==
  /\ root \in Maybe
  /\ stack = [t \in 1 .. Threads |-> [i \in 1 .. Stack |-> Null]]
  /\ last = stack
  /\ storing = [t \in 1 .. Threads |-> Null]
  /\ finding = storing
  /\ increments = [t \in 1 .. Threads |-> <<>>]
  /\ decrements = increments /\ deferred = increments
  /\ ops = 0
  /\ \E shape \in [Objects -> [1 .. Slots -> Maybe]],
        list \in UNION {[1 .. n -> Objects] : n \in 0 .. Listed} :
       LET word == [o \in Objects \cup {Roots} |-> Word(shape, list, o)]
           alive == ReachableFrom(word, {root} \ {Null})
       IN /\ IsInjective(list) /\ ToSet(list) \subseteq alive
          /\ \A o \in Objects \ alive, i \in 1 .. Slots : shape[o][i] = Null
          /\ \A o \in Symbols \cap alive, i \in 1 .. Slots :
               shape[o][i] = IF i = 1 THEN o ELSE Null
          /\ heap = [o \in Objects \cup {Roots} |->
                       IF o \in alive \cup {Roots} THEN word[o]
                       ELSE [word[o] EXCEPT !.v_count = 1, !.v_type = FALSE, !.free = TRUE]]
  /\ pc = "epoch" /\ thread = 1
  /\ v_cycles = Null /\ garbage = Null
  /\ p = Roots /\ v_cycle = Null /\ at = Null /\ v_scan_stack = <<>>
  /\ quiet = 0

Next == Mutator \/ Collect

Spec == Init /\ [][Next]_vars
-----------------------------------------------------------------------------
TypeOK ==
  /\ DOMAIN heap = Objects \cup {Roots}
  /\ \A o \in Objects :
       /\ heap[o].v_next \in Maybe \cup {Roots}
       /\ heap[o].v_previous \in Maybe \cup {Roots}
       /\ heap[o].v_color \in Colors
       /\ heap[o].v_count \in Nat
       /\ heap[o].v_cyclic \in Int
       /\ heap[o].v_type \in BOOLEAN /\ heap[o].free \in BOOLEAN
       /\ heap[o].v_reviving \in BOOLEAN
       /\ heap[o].slots \in [1 .. Slots -> Maybe]

(***************************************************************************)
(* No object a mutator can get at is released or handed back to the heap:  *)
(* the counts the collector acts on are an epoch old, the cycles it frees  *)
(* were found while the mutators were moving the references about.         *)
(***************************************************************************)
ReachableAlive == \A o \in Reachable : heap[o].v_type /\ ~heap[o].free

(***************************************************************************)
(* f__push asserts that what it queues is alive; it has to stay so until   *)
(* the collector applies the operation.                                    *)
(***************************************************************************)
QueuedAlive ==
  \A t \in 1 .. Threads :
    \A o \in ToSet(increments[t] \o decrements[t] \o deferred[t]) : heap[o].v_type

(***************************************************************************)
(* The books balance: the count of an object that is alive, corrected by   *)
(* the increments and decrements still queued, is the number of references *)
(* to it in live objects, in the t_root and in the stacks as last scanned. *)
(***************************************************************************)
Occurrences(s, o) == Cardinality({i \in DOMAIN s : s[i] = o})

Balanced(o) ==
  LET Over(F(_)) == FoldLeft(LAMBDA n, t : n + F(t), 0, [t \in 1 .. Threads |-> t])
      queued == Over(LAMBDA t : Occurrences(increments[t], o)
                                - Occurrences(decrements[t], o)
                                - Occurrences(deferred[t], o)
                                - (IF storing[t] # Null /\ storing[t][3] = o THEN 1 ELSE 0))
      scanned == Over(LAMBDA t : Occurrences(last[t], o))
      held == Cardinality({<<x, i>> \in Objects \X (1 .. Slots) :
                             heap[x].v_type /\ heap[x].slots[i] = o})
  IN heap[o].v_count + queued = held + scanned + (IF root = o THEN 1 ELSE 0)

CountsBalance == \A o \in Objects : heap[o].v_type => Balanced(o)

(***************************************************************************)
(* The intrusive list of root candidates stays a list: following v_next    *)
(* from v_roots comes back to it; until a detection takes it apart, it     *)
(* links back as well and everything on it is alive and has a count.  With *)
(* two objects of one field this is about unlinking on decrement.  That    *)
(* collect white takes only objects no longer linked here does not hold:   *)
(* three objects suffice to violate it (ForkSpec).                         *)
(***************************************************************************)
RECURSIVE Closes(_, _)
Closes(o, n) ==
  \/ o = Roots
  \/ o # Null /\ n > 0 /\ Closes(heap[o].v_next, n - 1)

RootsIntact ==
  /\ Closes(heap[Roots].v_next, Cardinality(Objects))
  /\ pc \in {"epoch", "cycles", "prescan"} =>
       LET list == ToSet(Chain(heap, heap[Roots].v_next, Roots))
       IN /\ \A o \in list : heap[heap[o].v_next].v_previous = o
          /\ \A o \in list \ {Roots} : heap[o].v_type /\ heap[o].v_count > 0

(***************************************************************************)
(* v_scan is one link per object: none may be pushed on the scan stack     *)
(* while it is on it.                                                      *)
(***************************************************************************)
ScannedOnce == IsInjective(v_scan_stack)

(***************************************************************************)
(* ~t_engine waits five times for the collector and then expects every     *)
(* object to have been freed: that many rounds free whatever was garbage   *)
(* when the mutators stopped.                                              *)
(***************************************************************************)
FiveWaitsSuffice ==
  quiet = 5 => \A o \in Objects : o \in Reachable \/ heap[o].free
=============================================================================
