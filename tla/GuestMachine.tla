---------------------------- MODULE GuestMachine ----------------------------
(***************************************************************************)
(* What the emulator promises the guest: its program runs one instruction  *)
(* at a time, until the emulator stops.                                    *)
(***************************************************************************)
EXTENDS Integers

CONSTANTS
  Addr,          \* the addresses at which the guest has instructions
  Entry,         \* the entry point
  Data,          \* what the guest's registers and memory may hold
  Effect         \* Effect[d, a]: what the instruction at a makes of d

VARIABLES
  code,          \* the program, a function from Addr to instructions
  rip, data,
  halted

vars == <<code, rip, data, halted>>

\* Where control goes after instruction i at a.
Successor(i, a, d) ==
  IF i.flow \in {"jump", "branch"} THEN i.to[d] ELSE a + i.size

Init == rip = Entry /\ data \in Data /\ halted = FALSE

Step ==
  /\ ~halted
  /\ rip \in Addr
  /\ rip' = Successor(code[rip], rip, data)
  /\ data' = Effect[data, rip]
  /\ UNCHANGED <<code, halted>>

Halt == ~halted /\ halted' = TRUE /\ UNCHANGED <<code, rip, data>>

Next == Step \/ Halt

Spec == Init /\ [][Next]_vars

\* The guest goes on until the emulator stops it or rip is zero.
FairSpec == Spec /\ WF_vars(Step)

=============================================================================
