---------------------------- MODULE MCCollector -----------------------------
(***************************************************************************)
(* Instances of Collector for TLC.                                         *)
(***************************************************************************)
EXTENDS Collector

CONSTANTS o1, o2, o3

Symmetry == Permutations(Objects)

\* The t_root holds o3, which holds o1 and o2; all three are candidates, o3
\* last, and the mutator has o3 on its stack.
ForkInit ==
  /\ root = o3
  /\ stack = <<[i \in 1 .. Stack |-> IF i = 1 THEN o3 ELSE Null]>>
  /\ last = stack
  /\ storing = <<Null>> /\ finding = storing
  /\ increments = << <<>> >> /\ decrements = increments /\ deferred = increments
  /\ ops = 0
  /\ LET shape == [o \in Objects |-> IF o = o3 THEN <<o1, o2>> ELSE <<Null, Null>>]
     IN heap = [[o \in Objects \cup {Roots} |-> Word(shape, <<o1, o2, o3>>, o)]
                  EXCEPT ![o3].v_count = @ + 1]
  /\ pc = "epoch" /\ thread = 1
  /\ v_cycles = Null /\ garbage = Null
  /\ p = Roots /\ v_cycle = Null /\ at = Null /\ v_scan_stack = <<>>
  /\ quiet = 0

\* The mutator runs only while f_scan_black does.
ForkNext == Collect \/ (pc = "scan_black" /\ Mutator)

ForkSpec == ForkInit /\ [][ForkNext]_vars

\* The mutators run only while the collector is not detecting cycles.
PausedNext == Collect \/ (pc \in {"epoch", "cycles"} /\ Mutator)

PausedSpec == Init /\ [][PausedNext]_vars

\* A mutator that looks up a symbol is not suspended between marking the
\* symbol and reading the entry.
PromptNext ==
  \/ Mutator
  \/ /\ pc = "epoch" => finding[thread] = Null
     /\ Collect

PromptSpec == Init /\ [][PromptNext]_vars
=============================================================================
