------------------------------- MODULE Futex -------------------------------
(***************************************************************************)
(* The futex and exit system calls (Source/Core/HLE/Syscalls/Syscalls.cpp  *)
(* and Syscalls.h), at the granularity of the host's mutex and condition   *)
(* variable operations.  Every FUTEX_WAIT makes a Futex of its own and     *)
(* puts it in the map Futexes, over the one a concurrent wait on the same  *)
(* word may have put there; FUTEX_WAKE and exit notify the one they find.  *)
(* Nobody but the waiter ever takes futex->mute, so it orders nothing.     *)
(***************************************************************************)
EXTENDS Integers, Sequences

CONSTANTS
  Thread,
  Word,       \* addresses of the guest's 32-bit words, counted in words
  Value,      \* what a word may hold
  MaxWaits,   \* bound on the WAIT calls of a behaviour
  Program,    \* Program[t]: the calls thread t may make, in any order
  InitTid,    \* InitTid[t]: child_tid that clone gave thread t, or NoWord
  InitMem     \* the words at the start

NoWord == -1
Null == 0

Wait(a, v)   == [op |-> "wait", addr |-> a, val |-> v]
Wake(a, n)   == [op |-> "wake", addr |-> a, val |-> n]
Store(a, v)  == [op |-> "store", addr |-> a, val |-> v]
SetTid(a)    == [op |-> "settid", addr |-> a, val |-> 0]
Exit         == [op |-> "exit", addr |-> NoWord, val |-> 0]
Call == [op : {"wait", "wake", "store", "settid", "exit"},
         addr : Word \cup {NoWord}, val : Nat]

ASSUME WordAssumption == Word \subseteq Nat /\ 0 \in Value
ASSUME WaitsAssumption == MaxWaits \in Nat
ASSUME GuestAssumption ==
  /\ Program \in [Thread -> SUBSET Call]
  /\ \A t \in Thread : \A c \in Program[t] :
       /\ c.op \in {"wait", "wake", "store"} => c.addr \in Word
       /\ c.op = "store" => c.val \in Value
  /\ InitTid \in [Thread -> Word \cup {NoWord}]
  /\ InitMem \in [Word -> Value]

VARIABLES
  proc,       \* the host process: "live" or "crashed"
  pc,         \* control point of every thread
  call,       \* the call that thread t is in, or was in last
  mem,        \* the guest's words
  child_tid,  \* threadmanager.child_tid of every thread
  heap,       \* the Futex objects made so far; their pointers are 1..Len(heap)
  Futexes,    \* the map from words to Futex pointers
  futex,      \* local variable futex
  left        \* notifications that a WAKE has still to make

vars == <<proc, pc, call, mem, child_tid, heap, Futexes, futex, left>>

PC == {"guest", "emplace", "test", "enqueue", "blocked",
       "getfutex", "notify", "clear", "exitget", "exitnotify", "done"}

Goto(t, label) == pc' = [pc EXCEPT ![t] = label]

\* Threads in cv.wait: past EmplaceFutex, before the predicate held.
Waiting(t) == pc[t] \in {"test", "enqueue", "blocked"}

\* notify_one wakes the thread that waits on the condition variable of f; only
\* the thread that made f ever does.
Notified(f) ==
  [t \in Thread |->
     IF pc[t] = "blocked" /\ futex[t] = f THEN "test" ELSE pc[t]]

\* Begin a call of the guest's program.
Calls(t, c, op) == pc[t] = "guest" /\ c \in Program[t] /\ c.op = op

----------------------------------------------------------------------------
(* Faulty variants, one plausible slip each; no part of Next.              *)

\* Futexes.emplace(Addr, futex): an entry that is there stays.
EmplaceFutexIfAbsent(t) ==
  /\ pc[t] = "emplace"
  /\ Futexes' = [Futexes EXCEPT
                   ![call[t].addr] = IF @ = Null THEN futex[t] ELSE @]
  /\ Goto(t, "test")
  /\ UNCHANGED <<proc, call, mem, child_tid, heap, futex, left>>

\* A wait that returns erases the entry of its word.
WaitTestErasing(t) ==
  /\ pc[t] = "test"
  /\ IF mem[call[t].addr] # call[t].val
       THEN Goto(t, "guest") /\ Futexes' = [Futexes EXCEPT ![call[t].addr] = Null]
       ELSE Goto(t, "enqueue") /\ UNCHANGED Futexes
  /\ UNCHANGED <<proc, call, mem, child_tid, heap, futex, left>>

\* exit has the test of the pointer the wrong way round.
ExitNotifyIfNull(t) ==
  /\ pc[t] = "exitnotify"
  /\ pc' = [(IF futex[t] # Null THEN pc ELSE Notified(futex[t]))
              EXCEPT ![t] = "done"]
  /\ UNCHANGED <<proc, call, mem, child_tid, heap, Futexes, futex, left>>

\* The loop of WAKE notifies one time too few.
WakeNotifyOneLess(t) ==
  /\ pc[t] = "notify"
  /\ left[t] > 0
  /\ futex[t] # Null
  /\ left' = [left EXCEPT ![t] = @ - 1]
  /\ pc' = IF left[t] > 1 THEN Notified(futex[t]) ELSE pc
  /\ UNCHANGED <<proc, call, mem, child_tid, heap, Futexes, futex>>

----------------------------------------------------------------------------
Init ==
  /\ proc = "live"
  /\ pc = [t \in Thread |-> "guest"]
  /\ call = [t \in Thread |-> Exit]
  /\ mem = InitMem
  /\ child_tid = InitTid
  /\ heap = <<>>
  /\ Futexes = [a \in Word |-> Null]
  /\ futex = [t \in Thread |-> Null]
  /\ left = [t \in Thread |-> 0]

\* An instruction of the guest that writes a word.
GuestStore(t) ==
  \E c \in Program[t] :
    /\ Calls(t, c, "store")
    /\ mem' = [mem EXCEPT ![c.addr] = c.val]
    /\ UNCHANGED <<proc, pc, call, child_tid, heap, Futexes, futex, left>>

SyscallSetTidAddress(t) ==
  \E c \in Program[t] :
    /\ Calls(t, c, "settid")
    /\ child_tid' = [child_tid EXCEPT ![t] = c.addr]
    /\ UNCHANGED <<proc, pc, call, mem, heap, Futexes, futex, left>>

----------------------------------------------------------------------------
(* FUTEX_WAIT.                                                             *)

\* new Futex, with addr and val.
SyscallWait(t) ==
  \E c \in Program[t] :
    /\ Calls(t, c, "wait")
    /\ Len(heap) < MaxWaits
    /\ call' = [call EXCEPT ![t] = c]
    /\ heap' = Append(heap, [addr |-> c.addr, val |-> c.val])
    /\ futex' = [futex EXCEPT ![t] = Len(heap) + 1]
    /\ Goto(t, "emplace")
    /\ UNCHANGED <<proc, mem, child_tid, Futexes, left>>

\* Under FutexMutex: Futexes[Addr] = futex.
EmplaceFutex(t) ==
  /\ pc[t] = "emplace"
  /\ Futexes' = [Futexes EXCEPT ![call[t].addr] = futex[t]]
  /\ Goto(t, "test")
  /\ UNCHANGED <<proc, call, mem, child_tid, heap, futex, left>>

\* The predicate of cv.wait: one load of the word.
WaitTest(t) ==
  /\ pc[t] = "test"
  /\ Goto(t, IF mem[call[t].addr] # call[t].val THEN "guest" ELSE "enqueue")
  /\ UNCHANGED <<proc, call, mem, child_tid, heap, Futexes, futex, left>>

\* The thread becomes a waiter of the condition variable.
WaitEnqueue(t) ==
  /\ pc[t] = "enqueue"
  /\ Goto(t, "blocked")
  /\ UNCHANGED <<proc, call, mem, child_tid, heap, Futexes, futex, left>>

SpuriousWakeup(t) ==
  /\ pc[t] = "blocked"
  /\ Goto(t, "test")
  /\ UNCHANGED <<proc, call, mem, child_tid, heap, Futexes, futex, left>>

----------------------------------------------------------------------------
(* FUTEX_WAKE.                                                             *)

SyscallWake(t) ==
  \E c \in Program[t] :
    /\ Calls(t, c, "wake")
    /\ call' = [call EXCEPT ![t] = c]
    /\ left' = [left EXCEPT ![t] = c.val]
    /\ Goto(t, "getfutex")
    /\ UNCHANGED <<proc, mem, child_tid, heap, Futexes, futex>>

\* Under FutexMutex: Futexes[Addr], which is null for a word no WAIT has named.
WakeGetFutex(t) ==
  /\ pc[t] = "getfutex"
  /\ futex' = [futex EXCEPT ![t] = Futexes[call[t].addr]]
  /\ Goto(t, "notify")
  /\ UNCHANGED <<proc, call, mem, child_tid, heap, Futexes, left>>

WakeNotify(t) ==
  /\ pc[t] = "notify"
  /\ left[t] > 0
  /\ futex[t] # Null
  /\ left' = [left EXCEPT ![t] = @ - 1]
  /\ pc' = Notified(futex[t])
  /\ UNCHANGED <<proc, call, mem, child_tid, heap, Futexes, futex>>

\* WAKE does not test the pointer.
WakeNull(t) ==
  /\ pc[t] = "notify"
  /\ left[t] > 0
  /\ futex[t] = Null
  /\ proc' = "crashed"
  /\ UNCHANGED <<pc, call, mem, child_tid, heap, Futexes, futex, left>>

WakeReturn(t) ==
  /\ pc[t] = "notify"
  /\ left[t] = 0
  /\ Goto(t, "guest")
  /\ UNCHANGED <<proc, call, mem, child_tid, heap, Futexes, futex, left>>

----------------------------------------------------------------------------
(* exit.  StopRunning of the thread is private to it.                      *)

SyscallExit(t) ==
  \E c \in Program[t] :
    /\ Calls(t, c, "exit")
    /\ Goto(t, IF child_tid[t] = NoWord THEN "done" ELSE "clear")
    /\ UNCHANGED <<proc, call, mem, child_tid, heap, Futexes, futex, left>>

\* *tidptr = 0 through a uint64_t*: the word and the one after it.
ClearTid(t) ==
  /\ pc[t] = "clear"
  /\ mem' = [a \in Word |-> IF a \in {child_tid[t], child_tid[t] + 1}
                              THEN 0 ELSE mem[a]]
  /\ Goto(t, "exitget")
  /\ UNCHANGED <<proc, call, child_tid, heap, Futexes, futex, left>>

ExitGetFutex(t) ==
  /\ pc[t] = "exitget"
  /\ futex' = [futex EXCEPT ![t] = Futexes[child_tid[t]]]
  /\ Goto(t, "exitnotify")
  /\ UNCHANGED <<proc, call, mem, child_tid, heap, Futexes, left>>

ExitNotify(t) ==
  /\ pc[t] = "exitnotify"
  /\ pc' = [(IF futex[t] = Null THEN pc ELSE Notified(futex[t]))
              EXCEPT ![t] = "done"]
  /\ UNCHANGED <<proc, call, mem, child_tid, heap, Futexes, futex, left>>

----------------------------------------------------------------------------
\* The steps a thread takes inside a call.
CallStep(t) ==
  \/ EmplaceFutex(t) \/ WaitTest(t) \/ WaitEnqueue(t)
  \/ WakeGetFutex(t) \/ WakeNotify(t) \/ WakeNull(t) \/ WakeReturn(t)
  \/ ClearTid(t) \/ ExitGetFutex(t) \/ ExitNotify(t)

GuestStep(t) ==
  \/ GuestStore(t) \/ SyscallSetTidAddress(t)
  \/ SyscallWait(t) \/ SyscallWake(t) \/ SyscallExit(t)

Next ==
  proc = "live" /\ \E t \in Thread : CallStep(t) \/ GuestStep(t) \/ SpuriousWakeup(t)

Spec == Init /\ [][Next]_vars

\* The host runs every thread that is inside a call and not blocked.  The
\* guest owes nothing, and neither does a spurious wakeup.
Fairness == \A t \in Thread : WF_vars(proc = "live" /\ CallStep(t))

FairSpec == Spec /\ Fairness

----------------------------------------------------------------------------
(* Properties.                                                             *)

\* A thread in cv.wait has its word in Futexes, with a Futex of that word: a
\* WAKE or exit that comes after a wait began never dereferences null.
WaitersFindable ==
  \A t \in Thread :
    Waiting(t) => LET f == Futexes[call[t].addr] IN
                  f # Null /\ heap[f].addr = call[t].addr

\* No other thread's program waits for the word that t waits for.
SoleWaiter(t) ==
  \A u \in Thread \ {t} : \A c \in Program[u] : c.op = "wait" => c.addr # call[t].addr

\* The only thread that ever waits for a word has its latest Futex in the map,
\* however often it has waited: a WAKE or exit finds it, not a leaked one.
SoleWaiterFound ==
  \A t \in Thread :
    Waiting(t) /\ SoleWaiter(t) => Futexes[call[t].addr] = futex[t]

\* The only waiter of a word, blocked when another has cleared the word in
\* exit, is woken, finds the word changed and returns.  (It is not enough to be
\* blocked before the word is cleared: a spurious wakeup in between takes the
\* thread back to the window between test and enqueue.)
ExitWakesBlocked ==
  \A t, u \in Thread :
    (/\ pc[t] = "blocked" /\ mem[call[t].addr] # call[t].val
     /\ SoleWaiter(t)
     /\ pc[u] = "exitget" /\ child_tid[u] = call[t].addr)
      ~> (pc[t] = "guest" \/ proc # "live")

\* The only waiter of a word, blocked when the word no longer holds val,
\* returns once another makes a WAKE call of one or more for it.
WakeWakesBlocked ==
  \A t, u \in Thread :
    (/\ pc[t] = "blocked" /\ mem[call[t].addr] # call[t].val
     /\ SoleWaiter(t)
     /\ pc[u] = "getfutex" /\ call[u].addr = call[t].addr /\ left[u] > 0)
      ~> (pc[t] = "guest" \/ proc # "live")

\* "Also wake up the futex for this": when a thread has exited, a wait for its
\* tid word that was under way returns.
ExitWakesWaiter ==
  \A t, u \in Thread :
    (Waiting(t) /\ call[t].val # 0 /\ pc[u] = "done" /\ child_tid[u] = call[t].addr)
      ~> (~Waiting(t) \/ proc # "live")

============================================================================
