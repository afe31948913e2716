-------------------------- MODULE MCBlockCompiler --------------------------
(* Instances of BlockCompiler for TLC: every program of NumInsts           *)
(* instructions, of two and three bytes, and a return to address zero.     *)
EXTENDS BlockCompiler

CONSTANT NumInsts

AddrOf(n) == 2 * n + n \div 3
Last == AddrOf(NumInsts + 1)
Addrs == {AddrOf(n) : n \in 1..(NumInsts + 1)}

DataSet == 0..2

\* Kinds of instructions, with known, handler, flow and target.  Target zero
\* stands for one that is computed.
Kinds ==
  ({TRUE} \X {"yes", "fails", "no"} \X {"next"} \X {0})
    \cup {<<FALSE, "no", "next", 0>>, <<TRUE, "yes", "syscall", 0>>}
    \cup ({TRUE} \X {"fails"} \X {"branch"} \X Addrs)
    \cup ({TRUE} \X {"yes", "no"} \X {"jump"} \X (Addrs \cup {0}))

Target(k, next) ==
  [d \in DataSet |-> CASE k[3] = "branch" -> IF d = 1 THEN k[4] ELSE next
                       [] k[4] = 0 -> IF d = 1 THEN AddrOf(1) ELSE Last
                       [] OTHER -> k[4]]

Instruction(k, a, next) ==
  [known |-> k[1], handler |-> k[2], flow |-> k[3], size |-> next - a,
   refused |-> k[3] # "syscall", to |-> Target(k, next)]

Return ==
  [known |-> TRUE, handler |-> "yes", flow |-> "jump", size |-> 1,
   refused |-> TRUE, to |-> [d \in DataSet |-> 0]]

AllPrograms ==
  {[a \in Addrs |->
      LET n == CHOOSE m \in 1..(NumInsts + 1) : AddrOf(m) = a IN
      IF a = Last THEN Return ELSE Instruction(p[a], a, AddrOf(n + 1))] :
     p \in [Addrs \ {Last} -> Kinds]}

\* A mix of what is there and the address, which depends on the order.
Mix == [d \in DataSet, a \in Addrs |-> (2 * d + a + 1) % 3]
============================================================================
