# Verification of xemmai

xemmai is an interpreter for a dynamically typed language with native threads,
fibers and a concurrent, reference counting garbage collector.  This directory
models its run time and its front end in TLA+, checks the models with TLC and proves the reference count
queues, the sharing of objects, the life of threads, the stops of the debugger, the list and the map
correct with TLAPS.  Definitions keep the names of the source
(`f_epoch`, `v_tail`, ...); `PROJECT.json` maps each one to its lines.

## 1. Inventory

### The parts, their state and their operations

| Part | State | Operations |
|---|---|---|
| Reference count queues (`value.h`, `engine.h`) | per thread, a ring of increments and one of decrements: `v_head`, `v_next`, `v_tail`, `v_epoch`, `v_last` | `f__push`, `f_next` (mutator), `f__flush`, `f_flush` (collector), `f_epoch_get` (signal handler) |
| Garbage collector (`engine.cc`, `object.h`) | words of every object (`v_count`, `v_color`, `v_cyclic`, `v_next`, `v_previous`, `v_scan`), list of root candidates, candidate cycles | epochs, prescan black, mark gray, scan gray and black, collect white, scan red, free cycles, Refurbish |
| Symbols and modules (`symbol.cc`, `module.cc`) | the maps of instances, `v_reviving` | `f_instantiate`, destructors, loading and executing a module |
| Threads and engine (`engine.cc`, `thread.cc`) | `v_thread__internals`, `v_done`, `v_internal`, `v_collector__running`, `v_collector__quitting` | `f_fork`, `f_finalize`, `f_join`, `f_run`, `~t_engine`, `f_collector` |
| Debugger (`engine.cc`, `main.cc`) | `v_debug__stopping`, `v_debug__safe`, `v_debug__stepping`, posted events | safe points, break points, safe regions, stop, continue, prompt |
| List (`list.cc`, `list.h`) | a ring in a tuple: `v_tuple`, `v_head`, `v_size`, `v_grow`, `v_shrink` | push, pop, shift, unshift, insert, remove, indexing, clear, sort |
| Map (`map.cc`, `map.h`) | open addressing table with gaps | put, get, has, remove, rehash, each |
| Sharing (`sharable.cc`) | `v_owner`, a reader-writer lock | own, share, `f_owned_or_shared` |
| Fibers (`fiber.cc`) | value stack and machine stack per fiber, `v_active`, `v_return`, `v_throw`, the list `v_fibers` | instantiate, call, run, end of a fiber, end of the thread, scan of stacks in an epoch |
| Heap (`heap.h`) | blocks, a lock-free stack of chunks, free lists per thread | allocate, free, return, flush, find |
| Lexer (`lexer.cc`) | the character read ahead, `v_indent`, `v_newline`, the token | `f_next` |
| Parser (`parser.cc`) | `v_scope`, `v_can_jump`, `v_can_return` | one function per level of the grammar; resolution of variables |
| Syntax tree and emission (`ast.cc`, `ast.h`) | basic blocks of a scope with what they assign and use; instructions, labels, depth of the stack | `f_flow`, `f_analyze`, `f_emit` of every node |
| Interpreter (`code.cc`, `code_operator.h`, `lambda.h`) | the stack of values, contexts with their instruction pointer, scopes of closures | one per instruction; `f_try`; calls of lambdas, methods, natives, objects |
| Types and fields (`type.cc`, `global.h`, `class.cc`) | fields, keys sorted by address, the index each instruction keeps | derive, find, get, put, has, bind |
| io (`io__*.cc`) | buffers, `v_remain`, `v_step` | read, write, flush, resume |
| Modules (`modules/`) | none of their own | wrappers of libraries |

### How they interact

Every assignment to a field goes through `t_slot::operator=`, which pushes the
new value to the increments and the old one to the decrements of the current
thread.  The collector, a thread of its own, is woken by ticks (a ring or the
heap runs out, a thread waits).  In each round it takes `v_thread__mutex`, suspends
each thread by a signal whose handler records how far its queues and stacks go,
copies the stacks, resumes the thread, and applies increments up to the record
and decrements up to the record of the round before.  Then it frees the cycles
found in the round before, if they are still garbage, and looks for new ones
while the threads run.  Symbols and modules are reached through maps whose slots
only the objects themselves scan, so that unused ones are cycles; a look-up tells
the collector under `v_object__reviving__mutex`.  A finished thread stays in
`v_thread__internals` until its queues are drained.  The debugger stops threads at
safe points, which threads blocked in safe regions are taken to have reached.

A script is read by the lexer, one token ahead of the parser, which builds the syntax
tree and decides for each variable whether it is private to a call or shared with the
lambdas inside.  Emission walks the tree twice: `f_flow` finds where a private variable
may be read before it is assigned, `f_emit` writes instructions that name fixed places
of the stack.  The interpreter trusts both: it neither checks bounds of the stack nor
whether a place was ever written.  Each instruction that looks a field up keeps the
index it found, for whatever type comes next.  A fiber is a second stack of values and
contexts in the same thread; switching hands a value, or an exception, from one to the
other.

### What is hard, and what makes each part correct

* Queues: the mutator bounds its writes by a `v_tail` that moves; three pointers
  taken at different times have to agree with it.  *No entry is overwritten, applied
  twice or left out of its epoch; a mutator that waits goes on.*
* Collector: detection reads fields while they change; one link serves three
  lists; decrements are delayed.  *Nothing reachable is freed, counts equal
  references up to what is queued, lists stay lists, garbage goes in five rounds.*
* Threads: objects counted in queues of two threads, a failing start, deletion
  after two more epochs.  *Nothing queued is lost, no thread object dies in use,
  the engine ends and leaves nothing.*
* Debugger: threads start, end and block while a stop counts them.  *The count of
  safe threads is exact, one thread stops the others, stops complete.*
* List: rings that wrap, grow and shrink; callbacks in the middle of a sort.
  *It behaves as a sequence.*
* Map: gaps and shifts around the end of the table; keys whose equality is script
  code.  *It behaves as a function.*
* Sharing: threads that take an object over while others wait for its lock.
  *Threads at work exclude each other, and the owner stays while they are.*
* Lexer, parser: layout decides where blocks end, eight levels of operators nest, and
  a jump is allowed here and not there.  *The text of a tree parses to that tree; what
  is no script is refused with the right message.*
* Emission and interpreter: temporaries, variables and arguments share one stack whose
  depth is computed by hand in every node; a value leaves blocks by break, return and
  exceptions through any number of finally blocks; calls in tail position reuse the
  context.  *The instructions do what the tree means, read nothing undefined, stay
  within the stack and come to an end.*
* Fields: an index found with one type is used with another.  *It never shows.*
* Fibers: a fiber that ends answers the main fiber, not its caller; the end of the
  thread throws into the ones left.  *Each value arrives once, where it is meant to.*
* Heap, io: see the hazards in `PROJECT.json`.

## 2. Plan

Done, in this order: `EpochQueue`, `Queue`, `QueueProofs`, `Collector`, `Threads`,
`Debugger`, `SequenceObject`, `List`, `Sharable`, `SharableProofs`, `MapObject`, `Map`;
then the pipeline `Values`, `Syntax`, `Types`, `Parser`, `Emitter`, `Code`, `Language`,
`Printer`, `Lexer`, with fibers in `Code`; then the proofs `DebuggerProofs`,
`ThreadsProofs`, `ListProofs`, and `TableProofs`, `MapSteps` and `MapProofs`, for which the
loops of `Map` became steps.  Left:

1. Proofs: `ScannedOnce` of `Collector` for mutators that pause during a detection, once
   an epoch is a step per operation and the list of roots is followed as a set.
2. `Heap` (the stack of chunks and the balance of the free lists), `Writer` and `Reader`
   on non-blocking files, iteration over a map that changes.
3. Classes written in the language, with `__initialize` and operators as methods, in
   `Types` and `Code`.

Few runs, each on a composition (`map_table` has `Map` on top of `Sharable`,
`code_scripts` everything from characters to fibers), are preferred to one per module.

Abstract specifications: `EpochQueue` for the rings, `SequenceObject` for the list,
`MapObject` for the map, `Language` for the instructions, `Printer` for lexer and parser.

## 3. Modules

`EpochQueue` is what the collector needs of a queue: operations numbered in the
order pushed, a snapshot per epoch, application in order and never beyond the
limit the snapshots allow.

`Queue` is `t_queue` with both variants of flushing (`Deferred` for decrements).
One action per access to a shared word: the store of an entry, the move of
`v_head`, the test of `v_tail`, the computation of `v_next`; for the collector the
suspension, the choice of a run of entries, each entry, the end.  Entries are
numbers, which is what lets the properties see one overwritten.  Accesses are
sequentially consistent: `v_tail` is volatile and the entry is read before it moves.

`Collector` is `f_collector` with `t_object`.  The heap is a function from objects
to records of their words.  The epoch of one thread is one step, because it only
touches words no mutator reads; detection is one step per field read, because
mutators write fields.  A mutator's assignment is two steps (push of the increment;
exchange with push of the decrement), because it can be suspended between.  Left
out: the reference from an object to its type, threads that come and go (see
`Threads`), the two stacks of a fiber (one stands for both).  `v_scan` is a sequence
of objects; `ScannedOnce` is what makes the intrusive list a sequence.  A symbol's
entry in the map of instances is the symbol's field 1, referring to itself.  Freeing
sets the fields to null.

`Threads` has the t_internals, their queues as sequences (justified by `Queue`),
and counts of thread objects only.  Joins go to threads the caller forked.  `cursor` is
the place in `v_thread__internals` that the loop of `f_collector` has come to.

`Debugger` has one step per critical section of `v_thread__mutex`; `asleep` is who
waits on the condition.  A thread may at any time meet a safe point, a break point,
a safe region or its end.  The prompt answers with any thread to step or none.

`List` over `SequenceObject`: the ring is a function on slots; every operation is a
step, as it runs under `f_owned_or_shared`; sort is two or three.  `call` records the
last operation with its arguments and result, so that the refinement says which
operation had which effect.  `Unit` and `Header` are the sizes that decide capacities
(16 and 10 slots on a 64-bit machine).  `Sorted` is some permutation of a sequence that
is in order, which is all that `std::sort` promises; equal elements are not told apart.

`Sharable` is the protocol every operation of lists, maps and files goes through.  A
step tests `v_owner` without the lock, takes `v_mutex` and tests again, works, or
leaves.  `f_own` and `f_share` are one step each, at the moment they write `v_owner`
under the lock.  Calls that throw change nothing and are left out.

`Map` extends `Sharable`: threads get to work by its steps, choose an operation, find
the place of the key in one step and use it in the next, so that what was found is
stale if exclusion fails.  An entry is a record with `v_gap`, `v_hash`, `v_key` and
`v_value`.  The loops of the probing are minima over gaps.  Each time round a loop that
moves entries is a step: the displacement of entries in `t_table::f_put`
(`f_put_place`; `f_rehash_move` on the new table), the entries that `f_rehash` copies
(`f_rehash`), the backward shift of a removal (`f_remove_fill`).  `found` holds the
operation of each thread, the entry it carries and the table it builds.  The old
table keeps its entries during a rehash, as `t_svalue` has no move constructor.  Keys
are values whose hash and equality run no script; the hash is any function on keys.
Left out: `each` and `__string`.

A table may have more entries than `v_upper`: shrinking from 53 places to 23 leaves 12
where `v_upper` is 11, and so do five other pairs of `v_ranks`.  Nothing depends on it
but the next new key, which makes the table grow again.  `Load` is the true bound, and
that it leaves a vacant place is what makes every search end.

The pipeline from a text to its effects is six modules with one specification, `Code`:

* `Values` has the values of a script and what each operator gives on those that are no
  objects, with integers of `Width` bits that wrap.  Floats are whole numbers.
* `Lexer` turns a text into tokens, each with its indentation and whether it starts a
  line.  The lexer of the source runs one token ahead of the parser; since nothing of
  the parser's flows back into it, the tokens are computed first, and an error of the
  lexer is a token that the parser fails on when it gets there, as in the source.
* `Parser` is one operator per function of `t_parser` on a record of its members.  An
  exception becomes the field `err`, after which nothing is done.
* `Emitter` has `f_flow`, `f_analyze` and `f_emit` of every node of `Syntax`.  Blocks
  and labels, which are pointers in the source, are named by paths in the tree.  The
  variants of an instruction that the source generates by macros for each kind of
  operand are one instruction with the operands as parameters; which kinds have a
  variant of their own, and so a behaviour of its own, is kept.
* `Types` has the fields of types and the look-up by a kept index.
* `Code` has the state of the interpreter.  Each instruction, each call of a lambda,
  method, native function or object, each step of unwinding an exception, and each
  switch of fibers is an action.  A native function answers true or false or throws, at
  most `MaxCalls` times before it only answers false.  What lies above the end of the
  stack is `Junk` when the stack grows again, so that a read of it can be seen.
  A fiber is a record of the stack, contexts and status it waits with; `internals` is
  the list `v_fibers`.

`Language` evaluates a syntax tree directly, with names and environments instead of a
stack, and knows neither contexts, instructions nor kept indices.  `Printer` writes the text of a
tree, with blank lines and comments, and parentheses only where they are needed.  Both
are written from what the language promises, as specifications; `Code`, `Parser` and
`Lexer` are written from the code.

`MC*` give instances to TLC.  `MCCollector` also restricts schedules: `PausedSpec`
(mutators idle during detection), `PromptSpec` (a symbol look-up is not suspended
half way), `ForkSpec` (one starting state, mutator active during scan black only).

Definitions marked `Mutant` are wrong variants of the one below them; replacing the
right one by them violates the property named in `PROJECT.json`, which shows that the
property depends on that line.

## 4. Runs

| Run | Bounds | Shows |
|---|---|---|
| `queue_ring` | decrement ring of 16 (stride 2), 36 pushes, 2 ticks | entries intact, epochs complete, refinement of `EpochQueue`, a waiting mutator resumes. 36 pushes go more than twice round the ring. The increment ring (`Deferred = FALSE`) is the same code with the delay left out; the theorems hold for both |
| `collector_concurrent` | 2 objects, 1 field, 1 thread, 3 operations; every initial shape and list of candidates | nothing reachable freed, balance of counts, list of roots intact (`RootsIntact`, at this size a statement about unlinking on decrement; about collect white see `collector_fork`), with the mutator active at every step; five rounds free all garbage after it stops. With 4 operations (4.3 million states, 3 minutes) the safety properties hold as well |
| `collector_threads` | 2 threads, 1 object, 1 symbol, 3 operations | the same across the epochs of two threads; symbols revived or freed, never returned dead, if a look-up is not suspended half way |
| `collector_paused` | 3 objects with 2 fields | the same on all shapes of 3 objects; no object is on the scan stack twice |
| `collector_fork` | violation | finding 1 |
| `collector_lookup` | violation | finding 2 |
| `threads_life` | main and 1 forked thread (`N = 2`), 1 more decrement each | queues drained before deletion, thread objects alive in use, signals only to live threads, clean end; the engine ends, which it can only do when every join has returned. The safety part holds with `N = 3`, `MaxWork = 0` as well (307,000 states) |
| `debugger_stops` | main and 2 threads | exact count of safe threads, one stopper, threads stopped at the prompt; stops complete |
| `list_ring` | up to 5 elements, rings of 1, 3 and 7 slots, 2 values | list implements sequence. 5 elements reach every branch of insert and remove on wrapped rings, growth twice and shrinking; two values suffice because operations do not look at values, except sort, for which order matters only pairwise. With 6 elements it holds as well |
| `list_insert` | violation | finding 3 |
| `code_scripts` | 483 scripts (all nestings of two binary operators of eight levels, six operators on all pairs of seven kinds of operands, 69 on control, closures, objects and fibers) and 36 texts that are no scripts; natives that answer true or false or throw in the first 3 calls; integers of 8 bits | from characters to effects: `ParsesBack`, `MeansSame` (calls of natives, fields and the exception that leaves are those of the tree), `FibersDeliver`, `ReadsDefined`, `WithinStack`, `CacheTransparent`, `TailCallsBounded`, and `Terminates`. Three answers reach every pair of ways out of a body, a catch and a finally; the scripts are chosen so that every node, every instruction and every early return of the emitter is used |
| `map_table` | 2 threads, 5 keys, 2 values, all hashes out of {17, 18}, tables of 6 and 9 places | mutual exclusion, true gaps, the table implements a function, step by step. 5 keys fill the larger table to its limit of one half and find no room; 17 is the last place of both tables and 18 the first, so that keys collide, runs wrap around the end and are moved there; two values tell entries apart. It holds for tables of 3 and 12 places as well, where a shrunk table has more entries than `v_upper` (4 keys, hashes 10 and 11; 45,000 states) |

In `Collector`, whether a round looks for cycles is free while mutators run, because
it depends on how many objects live; once they have stopped it always does, as
`~t_engine` sets the threshold to zero.  The counters in the initial states of `Collector` are those of the shape and list
chosen, so that a run starts in the middle of the life of a program.

Deadlock is not checked where a run stops at a bound (`queue_ring`) or where the code
itself can hang (`debugger_stops`, see below).

### Fairness

The operating system schedules threads, so what a thread can do by itself is weakly
fair.  In `Threads` the lock held during an epoch makes steps enabled on and off;
strong fairness stands for a mutex that does not starve a waiter for ever.  The
functions of threads and the script return (`f_finish`, `f_run_exit`).  In `Debugger`
a running thread meets a safe point sooner or later, as the emitted code has one per
statement, and the user answers the prompt; nothing makes a thread leave a safe region,
start another thread or hit a break point.  In `Code` the interpreter goes on while
there is an instruction (weak fairness of `Run`, all of it in one thread); that scripts
end also rests on natives that answer false after `MaxCalls` calls.  In `Queue` the collector and the waiting
mutator are fair, pushes are not.

### Findings

1. `collector_fork`: `f_collect_white_push` overwrites `v_next` of an object still in
   the list of roots.  A reference stored between two candidates while scan black runs
   makes one of them white and reachable from the other.
2. `collector_lookup`: `t_symbol::f_instantiate` reads the entry after it has unlocked
   the mutex.  The collector takes the mark back once, and the symbol may be freed in
   the round after, before the suspended thread has the reference on its stack.
3. `list_insert`: `insert(-size, x)` on a list that starts at slot 0 puts `x` second.

Known limits of the debugger protocol that no text contradicts, and that the properties
except by name: a thread about to start adds to `v_debug__safe` without having been
counted (`StoppedWhilePrompting`); a thread past its last safe point is counted and
never becomes safe (`EndedUnsafe`); an interrupt that arrives with a load is dropped.

### Known discrepancies

Found while modelling the pipeline.  The modules have the behaviour of the code; the
scripts of `code_scripts` leave these cases out, and adding one makes the property in
brackets fail, where there is one.

* `t_try::f_flow` has no edge from the start of the body to the catches: a variable that
  the body assigns after something that throws, and a catch reads, gets no `NUL` and is
  read undefined, where `doc/StackUsage.md` has a live object (`ReadsDefined`).
* `METHOD_BIND` writes three places and `t_get_at::f_bind` reserves two, so that
  `m[k]()` on an object writes above the stack of the context (`WithinStack`).
* The parser saves `v_can_jump` for a lambda and does not clear it: `break` in a lambda
  in a loop is accepted, and its emission has no target.
* A catch variable with the name of an argument is looked for among the private
  variables at a negative index, in `t_try::f_flow`.
* `%` of two literals is folded with signs, `MODULUS` at run time is unsigned, which
  `test/primitives.xm` expects; `&`, `|` and `^` of a boolean and a number literal throw,
  of a boolean and a variable that holds the number do not (`MeansSame`).
* A private variable as operand or callee is read when the operation is executed, after
  the other operand: `x + (x = 2)` is 4, but not if `x` is shared (`MeansSame`).
* `v_finally` of a try without one is not initialised; two parameters of the same name
  corrupt the list of private variables (`Parser` counts parameters, the code names, which
  differ only then).
* `0.` is a lexical error and `1.` a number; an empty line whose blanks differ from the
  indentation is a lexical error.

## 5. Proofs

`QueueProofs` proves, for every ring size of at least two slots that `Queue` assumes,
any number of pushes and both kinds of queue:

* `TypeCorrect`: `Spec => []TypeOK`;
* `EntriesSafe`: the entry under `v_tail` is the oldest one not applied;
* `EpochsComplete`: at the end of a flush everything before its limit is applied;
* `Refinement`: `Spec => AbstractSpec`.

None of these is inductive.  `IInv` adds the relation of every pointer to a number of
operations, by the distance from `v_tail` going round the ring: `HeadInv` (the ring
holds what is pushed and not taken), `EntriesInv` (each slot holds the number its
distance says), `SnapshotInv` (`v_epoch`, `v_last` and `a_epoch` are as far ahead as the
snapshots they stand for), `RunInv` (a run ends at `a_epoch` or at the end of the ring)
and `RoomInv` (the mutator stays short of `v_tail` until it looks again).  One lemma per
action shows `IInv` preserved; the refinement follows step by step from it.

`SharableProofs` proves, for any set of threads, `TypeCorrect`, `Exclusion` (two threads
work at the same time only as readers of a shared object) and `Stability` (the owner
does not change while some thread works).  The inductive invariant adds `WorkInv` (a
thread at work owns the object, or holds `v_mutex` and nobody owns it) and `LockInv` (one
writer or many readers, all at work).  The only assumption is that null is no thread.

`TableProofs`, `MapSteps` and `MapProofs` prove, for any threads, keys, values and hashes and
any capacities, `MapTypeCorrect` (`TypeOK`), `GapsAreTrue` (`GapsTrue`), `MapExclusion`
(`Exclusive`), `MapStability` (`OwnerStable`) and `MapRefinement` (`Spec => AbstractSpec`).
The assumptions are that hashes are natural numbers, that null is not a number, and
`Growing` of the capacities: each larger table takes more entries, and the next smaller
one has a place for each entry of one that is to shrink.  `RanksAssumption` states the
same of the 28 numbers of the source, for TLC to evaluate.

* `TableProofs` is about one table.  `GapsTrue` compares neighbours, from which a search
  would be right only by induction along the table.  `Chain` says what a search needs
  directly: every place from the slot of an entry to the entry is taken by one at least
  as far from its own slot.  `Sound` has it for all entries, up to one place, the hole,
  that `f_remove` is filling.  Writing the entry in hand (`PutSound`), taking one out
  (`RemoveSound`) and moving the last of a run back into the hole (`FillSound`) keep
  `Sound`, and on a sound table with a vacant place both kinds of `f_find` find exactly
  the key (`FindForPut`, `FindIs`).  That a minimum exists is all the induction there is.
* `MapSteps` states for each step of an operation what holds of the table, the entry in
  hand and the new table (`StepIs`), and that each step leads to the next.
* `MapProofs` puts this together with the exclusion of `SharableProofs`.  `MapInv` says
  that `StepIs` holds for each thread, that a thread in an operation works in the mode
  of the operation, and that the table is sound unless somebody fills a hole.  One lemma
  per action (`DoesPut`, `DoesFill`, ...) shows that `MapInv` is kept and what the step
  does to the pairs of keys and values the map shows (`Effect`): nothing, or just what the
  abstract operation does, at the last step of the operation.

`DebuggerProofs` proves, for any finite set of threads, `SafeCountExact` (`SafeCounted`, with
the types), `SingleStopper` (`OneStops`) and `PromptSafe` (`StoppedWhilePrompting`).  The
properties say nothing of the time between a request to stop and the prompt, and so are
not inductive.  `IInv` adds `DoneInv` (which places of a thread go with which `v_done`),
`StopInv` (`v_debug__stopping` passes like a baton from the thread that stops the others
to the event it posts and on to the debugger; no two hold it), `CountInv` (while a stop
waits, no initialized thread is outside the count) and `ReportInv` (from the moment the
event is posted until the prompt ends, all initialized threads are safe, or one about to
start stands for one that is not).  The count is followed step by step: at most one
thread enters or leaves a safe place in a step (`Follows`).  The only assumption is that
the set of threads is finite and that the debugger and none are no threads.

`ThreadsProofs` proves, for any number of threads and any amount of work, `TypeCorrect`,
`QueuesDrained` (`NothingLost`), `ObjectsAlive` (`ThreadAlive`), `SignalsSafe`
(`SignalsLiveThread`) and `CleanShutDown` (`ShutDownClean`).  `IInv` has

* `ListInv`: `v_thread__internals` holds exactly the threads that are not over, youngest
  first, so that the collector meets a thread before the one that forked it;
* `QueueInv`: what is left in the queues of a thread at each value of `v_done`;
* `ChildInv`, the account of a thread object.  Only the thread that forked it, and it
  itself, ever queue counts of it: `v_count` plus queued increments is what the thread
  holds, plus queued decrements, plus the reference on the parent's stack as last
  scanned.  If the increment of the parent is still queued when the decrement of the
  thread itself falls due, the collector is between the two in one epoch, past the
  thread and not yet at the parent (`Ahead`), so that the increment is applied first:
  this is why the object is never at zero while used;
* `ShutInv`: the five calls of `f_wait` in `~t_engine`.  Before each of them all threads
  have come to a certain `v_done` (`Level`), and the round it waits for brings each one
  further as the collector passes it.

How often an object is queued (`Times`) is the cardinality of a set of positions; lemmas
give it for the queues that occur: an entry appended, entries taken off the front.  The
only assumption is that there is at least one thread, the main one.

`ListProofs` proves, for every `Unit` and `Header`, any set of values and any size,
`RingSound` (`Spec => []TypeOK`) and, where `insert(-size)` is not called on a ring that
starts at slot 0 (`~InsertFirst`; finding 3), `Refinement` (`Spec => AbstractSpec`).
`RingSound` needs no such condition: the ring stays sound even there, only the value is
second.  `IInv` states `TypeOK` of a list rather than of the variables (`Words`,
`Vacant`), so that it holds of the list that `sort` has taken away too, and adds that a
list without elements has no ring between two operations (`Settled`).  The argument is
in three layers: each of the eleven ways in which `f_insert` and `f_remove` move slots
inserts or removes one element of the ring, and leaves the slots outside null; an
insertion or removal in the ring is `InsertAt` or `RemoveAt` on the sequence of
elements; each operation of the list is one of those after `f_grow`, or before
`f_shrink`.  What the proofs need of capacities is that rounding up to units and doubling
leaves room for one more element (`Capacity`), which rests on the only assumption, that
the header of a tuple takes less than a unit (`UnitAssumption`).

Only model-checked: all liveness, which is out of the prover's reach; the heap of
`Collector`, whose operations are recursive or folds over queues, so that what they do
to every input would need an induction over data, as would all of `Code`, which is
defined by recursion over syntax trees.  The safety of `Collector` is not a theorem at all
in general, because of findings 1 and 2; it holds on the runs named above.  Even
`ScannedOnce`, which depends on colours only, needs the list of roots to be intact when a
detection follows it, which finding 1 refutes for mutators that do not pause.  That `Sorted` is in order is by
its definition, and that such an order exists is left to TLC.

## 6. Not modelled

Iteration over a map while it changes; keys of a map whose hash or equality is script
code; the expansion of an argument through its methods `size` and `[]`, which are script code
and which no type of `Code` has; two threads that call the same fiber; the allocator; io, of which iconv and the
system calls decide most; classes written in the language; backtraces; positions in the
source; the extension modules, which wrap libraries.  They are listed under components
and hazards in `PROJECT.json`.  Never: the Windows variants, formatting, the command line,
wrappers generated by templates.
