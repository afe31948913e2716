----------------------------- MODULE MCCPUCore -----------------------------
(* Instances of CPUCore for TLC: which guest programs the threads run.     *)
EXTENDS CPUCore

\* Guest threads that map and create threads, and may leave.
MapAndClone == [t \in 1..MaxThreads |-> {"mmap", "clone", "exit"}]

\* Guest threads that create threads, two at a time, and stop in every way; the
\* second may be mapping when they do.
CloneAndStop ==
  <<{"clone", "zero"}, {"clone", "mmap"}, {"exit", "fault"}, {}>>

\* One guest thread maps, any thread creates threads, none leaves.
OneMapper ==
  [t \in 1..MaxThreads |-> IF t = 1 THEN {"mmap", "clone"} ELSE {"clone"}]

\* Anything up to a page and anything up to two.
PageLens == {1, 4097}
TwoPages == {4097}
============================================================================
