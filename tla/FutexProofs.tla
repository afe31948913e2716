---------------------------- MODULE FutexProofs ----------------------------
(***************************************************************************)
(* Proofs about Futex, for any number of threads, words and waits and any  *)
(* guest programs.                                                         *)
(***************************************************************************)
EXTENDS Futex, TLAPS

\* A thread from the new Futex of a WAIT to the return of the call.
InWait(t) == pc[t] = "emplace" \/ Waiting(t)

FutexObject == [addr : Word, val : Nat]

TypeOK ==
  /\ pc \in [Thread -> PC]
  /\ call \in [Thread -> Call]
  /\ heap \in Seq(FutexObject)
  /\ Futexes \in [Word -> Nat]
  /\ futex \in [Thread -> Nat]
  /\ child_tid \in [Thread -> Word \cup {NoWord}]

\* An entry of the map is a Futex of its word.
EntriesRight ==
  \A a \in Word : Futexes[a] # Null =>
    Futexes[a] \in 1..Len(heap) /\ heap[Futexes[a]].addr = a

\* A thread in a WAIT is in a call of its program, with a Futex of its own word.
WaitsRight ==
  \A t \in Thread : InWait(t) =>
    /\ call[t] \in Program[t] /\ call[t].op = "wait" /\ call[t].addr \in Word
    /\ futex[t] \in 1..Len(heap) /\ heap[futex[t]].addr = call[t].addr

\* A WAKE or exit that looks a word up looks up a word.
LookupsRight ==
  \A t \in Thread :
    /\ pc[t] = "getfutex" => call[t].addr \in Word
    /\ pc[t] \in {"clear", "exitget"} => child_tid[t] \in Word

\* Once a thread has put its Futex in the map, its word has an entry.
WaitersHaveEntry ==
  \A t \in Thread : Waiting(t) => Futexes[call[t].addr] # Null

Inv ==
  /\ TypeOK /\ EntriesRight /\ WaitsRight /\ LookupsRight
  /\ WaitersHaveEntry /\ SoleWaiterFound

----------------------------------------------------------------------------
USE DEF InWait, Waiting, Null, NoWord

\* A call that a guest program holds names a word, unless it is an exit or a
\* set_tid_address.
LEMMA ProgramCalls ==
  ASSUME NEW t \in Thread, NEW c \in Program[t]
  PROVE  /\ c \in Call
         /\ c.op \in {"wait", "wake", "store"} => c.addr \in Word
BY GuestAssumption

\* Nobody waits at first.
LEMMA InvInit == Init => Inv
<1> SUFFICES ASSUME Init PROVE Inv
  OBVIOUS
<1>1. TypeOK
  BY GuestAssumption DEF Init, TypeOK, PC, Call, Exit, FutexObject
<1>2. EntriesRight /\ WaitsRight /\ LookupsRight /\ WaitersHaveEntry /\ SoleWaiterFound
  BY DEF Init, EntriesRight, WaitsRight, LookupsRight, WaitersHaveEntry, SoleWaiterFound
<1> QED
  BY <1>1, <1>2 DEF Inv

\* Steps that change neither the map nor a Futex, and that take no thread into
\* a WAIT, only inside it or out of it.
LEMMA Frame ==
  ASSUME Inv, TypeOK', LookupsRight', UNCHANGED <<heap, Futexes>>,
         \A t \in Thread :
           pc'[t] # pc[t] =>
             /\ InWait(t)' => InWait(t)
             /\ Waiting(t)' => Waiting(t),
         \A t \in Thread :
           InWait(t)' => call'[t] = call[t] /\ futex'[t] = futex[t]
  PROVE  Inv'
<1>1. \A t \in Thread : /\ InWait(t)' => InWait(t)
                        /\ Waiting(t)' => Waiting(t)
  OBVIOUS
<1>2. EntriesRight'
  BY DEF Inv, EntriesRight
<1>3. WaitsRight'
  BY <1>1 DEF Inv, WaitsRight
<1>4. WaitersHaveEntry'
  BY <1>1 DEF Inv, WaitersHaveEntry
<1>5. SoleWaiterFound'
  BY <1>1 DEF Inv, SoleWaiterFound, SoleWaiter
<1> QED
  BY <1>2, <1>3, <1>4, <1>5 DEF Inv

\* A new WAIT: the new Futex is in no entry and no other thread has it.
LEMMA WaitStep ==
  ASSUME Inv, NEW t \in Thread, SyscallWait(t)
  PROVE  Inv'
<1>1. PICK c \in Program[t] :
        /\ pc[t] = "guest" /\ c.op = "wait"
        /\ call' = [call EXCEPT ![t] = c]
        /\ heap' = Append(heap, [addr |-> c.addr, val |-> c.val])
        /\ futex' = [futex EXCEPT ![t] = Len(heap) + 1]
        /\ pc' = [pc EXCEPT ![t] = "emplace"]
        /\ UNCHANGED <<Futexes, child_tid>>
  BY DEF SyscallWait, Calls, Goto
<1>2. c \in Call /\ c.addr \in Word
  BY <1>1, ProgramCalls
<1>3. [addr |-> c.addr, val |-> c.val] \in FutexObject
  BY <1>2 DEF Call, FutexObject
<1>4. /\ heap' \in Seq(FutexObject) /\ Len(heap') = Len(heap) + 1
      /\ Len(heap) \in Nat
      /\ \A i \in 1..Len(heap) : heap'[i] = heap[i]
      /\ heap'[Len(heap) + 1] = [addr |-> c.addr, val |-> c.val]
  BY <1>1, <1>3 DEF Inv, TypeOK
<1>5. TypeOK'
  BY <1>1, <1>2, <1>4 DEF Inv, TypeOK, PC
<1>6. EntriesRight'
  BY <1>1, <1>4 DEF Inv, EntriesRight
<1>7. /\ pc'[t] = "emplace" /\ call'[t] = c /\ futex'[t] = Len(heap) + 1
      /\ \A u \in Thread : u # t => /\ pc'[u] = pc[u] /\ call'[u] = call[u]
                                    /\ futex'[u] = futex[u]
  BY <1>1 DEF Inv, TypeOK
<1>8. WaitsRight'
  <2>1. ASSUME NEW u \in Thread, InWait(u)', u # t
        PROVE  /\ call'[u] \in Program[u] /\ call'[u].op = "wait"
               /\ call'[u].addr \in Word
               /\ futex'[u] \in 1..Len(heap')
               /\ heap'[futex'[u]].addr = call'[u].addr
    BY <1>4, <1>7, <2>1 DEF Inv, WaitsRight
  <2>2. /\ futex'[t] \in 1..Len(heap') /\ heap'[futex'[t]].addr = call'[t].addr
    BY <1>4, <1>7
  <2> QED
    BY <1>1, <1>2, <1>7, <2>1, <2>2 DEF WaitsRight
<1>9. WaitersHaveEntry' /\ SoleWaiterFound'
  BY <1>1, <1>7 DEF Inv, WaitersHaveEntry, SoleWaiterFound, SoleWaiter
<1>10. LookupsRight'
  BY <1>1, <1>7 DEF Inv, LookupsRight
<1> QED
  BY <1>5, <1>6, <1>8, <1>9, <1>10 DEF Inv

\* The entry of a word goes to the latest waiter, which is the same thread as
\* before when the word has one waiter only.
LEMMA EmplaceStep ==
  ASSUME Inv, NEW t \in Thread, EmplaceFutex(t)
  PROVE  Inv'
<1> DEFINE a == call[t].addr
<1>1. /\ pc[t] = "emplace" /\ pc' = [pc EXCEPT ![t] = "test"]
      /\ Futexes' = [Futexes EXCEPT ![a] = futex[t]]
      /\ UNCHANGED <<call, heap, futex, child_tid>>
  BY DEF EmplaceFutex, Goto
<1>2. /\ call[t] \in Program[t] /\ call[t].op = "wait" /\ a \in Word
      /\ futex[t] \in 1..Len(heap) /\ heap[futex[t]].addr = a
  BY <1>1 DEF Inv, WaitsRight
<1>3. /\ Futexes'[a] = futex[t]
      /\ \A b \in Word : b # a => Futexes'[b] = Futexes[b]
  BY <1>1, <1>2 DEF Inv, TypeOK
<1>4. /\ pc'[t] = "test"
      /\ \A u \in Thread : u # t => pc'[u] = pc[u]
  BY <1>1 DEF Inv, TypeOK
<1>5. TypeOK'
  BY <1>1, <1>2 DEF Inv, TypeOK, PC
<1>6. EntriesRight'
  BY <1>1, <1>2, <1>3 DEF Inv, EntriesRight
<1>7. WaitsRight'
  BY <1>1, <1>4 DEF Inv, WaitsRight
<1>8. futex[t] # Null
  BY <1>2 DEF Inv, TypeOK
<1>9. WaitersHaveEntry'
  <2>1. ASSUME NEW u \in Thread, Waiting(u)'
        PROVE  Futexes'[call[u].addr] # Null
    <3>1. CASE call[u].addr = a
      BY <1>3, <1>8, <3>1
    <3>2. CASE call[u].addr # a
      BY <1>3, <1>4, <2>1, <3>2 DEF Inv, WaitsRight, WaitersHaveEntry
    <3> QED
      BY <3>1, <3>2
  <2> QED
    BY <1>1, <2>1 DEF WaitersHaveEntry
<1>10. SoleWaiterFound'
  <2>1. ASSUME NEW u \in Thread, Waiting(u)', SoleWaiter(u)
        PROVE  Futexes'[call[u].addr] = futex[u]
    <3>1. CASE u = t
      BY <1>3, <3>1
    <3>2. CASE u # t
      <4>1. call[u].addr # a
        BY <1>2, <2>1, <3>2 DEF SoleWaiter
      <4> QED
        BY <1>3, <1>4, <2>1, <3>2, <4>1 DEF Inv, WaitsRight, SoleWaiterFound
    <3> QED
      BY <3>1, <3>2
  <2> QED
    BY <1>1, <2>1 DEF SoleWaiterFound, SoleWaiter
<1>11. LookupsRight'
  BY <1>1, <1>4 DEF Inv, LookupsRight
<1> QED
  BY <1>5, <1>6, <1>7, <1>9, <1>10, <1>11 DEF Inv

\* A notification takes a blocked thread back to its test, and no other.
LEMMA NotifiedMoves ==
  ASSUME Inv, NEW f
  PROVE  /\ Notified(f) \in [Thread -> PC]
         /\ \A t \in Thread : \/ Notified(f)[t] = pc[t]
                              \/ pc[t] = "blocked" /\ Notified(f)[t] = "test"
BY DEF Inv, TypeOK, Notified, PC

\* The other steps inside a call move the thread that takes them, and a
\* notification the thread it wakes.
LEMMA CallFrame ==
  ASSUME Inv, NEW t \in Thread, CallStep(t) \/ SpuriousWakeup(t), ~EmplaceFutex(t)
  PROVE  Inv'
<1>1. CASE WaitTest(t) \/ WaitEnqueue(t) \/ SpuriousWakeup(t)
  <2>1. /\ Waiting(t) /\ UNCHANGED <<call, heap, Futexes, futex, child_tid>>
        /\ \E l \in {"guest", "enqueue", "blocked", "test"} : pc' = [pc EXCEPT ![t] = l]
    BY <1>1 DEF WaitTest, WaitEnqueue, SpuriousWakeup, Goto
  <2>2. TypeOK'
    BY <2>1 DEF Inv, TypeOK, PC
  <2>3. LookupsRight'
    BY <2>1 DEF Inv, TypeOK, LookupsRight
  <2> QED
    BY <2>1, <2>2, <2>3, Frame DEF Inv, TypeOK
<1>2. CASE WakeGetFutex(t) \/ ExitGetFutex(t)
  <2>1. /\ pc[t] \in {"getfutex", "exitget"}
        /\ UNCHANGED <<call, heap, Futexes, child_tid>>
        /\ \E l \in {"notify", "exitnotify"} : pc' = [pc EXCEPT ![t] = l]
    BY <1>2 DEF WakeGetFutex, ExitGetFutex, Goto
  <2>2. \E f \in Nat : futex' = [futex EXCEPT ![t] = f]
    BY <1>2 DEF WakeGetFutex, ExitGetFutex, Inv, TypeOK, LookupsRight
  <2>3. TypeOK'
    BY <2>1, <2>2 DEF Inv, TypeOK, PC
  <2>4. LookupsRight'
    BY <2>1 DEF Inv, TypeOK, LookupsRight
  <2> QED
    BY <2>1, <2>2, <2>3, <2>4, Frame DEF Inv, TypeOK
<1>3. CASE WakeNotify(t) \/ ExitNotify(t)
  <2>1. /\ pc[t] \in {"notify", "exitnotify"}
        /\ UNCHANGED <<call, heap, Futexes, futex, child_tid>>
    BY <1>3 DEF WakeNotify, ExitNotify
  <2>2. /\ pc' \in [Thread -> PC]
        /\ \A u \in Thread : \/ pc'[u] = pc[u]
                             \/ pc[u] = "blocked" /\ pc'[u] = "test"
                             \/ u = t /\ pc'[u] = "done"
    <3>1. CASE WakeNotify(t)
      BY <3>1, NotifiedMoves DEF WakeNotify
    <3>2. CASE ExitNotify(t)
      <4>1. PICK f \in [Thread -> PC] :
              /\ pc' = [f EXCEPT ![t] = "done"]
              /\ \A u \in Thread : \/ f[u] = pc[u]
                                   \/ pc[u] = "blocked" /\ f[u] = "test"
        <5>1. CASE futex[t] = Null
          BY <3>2, <5>1 DEF ExitNotify, Inv, TypeOK
        <5>2. CASE futex[t] # Null
          BY <3>2, <5>2, NotifiedMoves DEF ExitNotify
        <5> QED
          BY <5>1, <5>2
      <4> QED
        BY <4>1 DEF PC
    <3> QED
      BY <1>3, <3>1, <3>2
  <2>3. TypeOK'
    BY <2>1, <2>2 DEF Inv, TypeOK
  <2>4. LookupsRight'
    BY <2>1, <2>2 DEF Inv, LookupsRight
  <2> QED
    BY <2>1, <2>2, <2>3, <2>4, Frame
<1>4. CASE WakeNull(t) \/ WakeReturn(t) \/ ClearTid(t)
  <2>1. /\ pc[t] \in {"notify", "clear"}
        /\ UNCHANGED <<call, heap, Futexes, futex, child_tid>>
        /\ \/ pc' = pc
           \/ pc' = [pc EXCEPT ![t] = "guest"]
           \/ pc[t] = "clear" /\ pc' = [pc EXCEPT ![t] = "exitget"]
    BY <1>4 DEF WakeNull, WakeReturn, ClearTid, Goto
  <2>2. TypeOK'
    BY <2>1 DEF Inv, TypeOK, PC
  <2>3. LookupsRight'
    BY <2>1 DEF Inv, TypeOK, LookupsRight
  <2> QED
    BY <2>1, <2>2, <2>3, Frame DEF Inv, TypeOK
<1> QED
  BY <1>1, <1>2, <1>3, <1>4 DEF CallStep

\* The guest's other steps start a call that is no WAIT, or none.
LEMMA GuestFrame ==
  ASSUME Inv, NEW t \in Thread, GuestStep(t), ~SyscallWait(t)
  PROVE  Inv'
<1>1. CASE GuestStore(t)
  <2>1. UNCHANGED <<pc, call, heap, Futexes, futex, child_tid>>
    BY <1>1 DEF GuestStore
  <2>2. TypeOK' /\ LookupsRight'
    BY <2>1 DEF Inv, TypeOK, LookupsRight
  <2> QED
    BY <2>1, <2>2, Frame
<1>2. CASE SyscallSetTidAddress(t)
  <2>1. PICK c \in Program[t] :
          /\ pc[t] = "guest" /\ child_tid' = [child_tid EXCEPT ![t] = c.addr]
          /\ UNCHANGED <<pc, call, heap, Futexes, futex>>
    BY <1>2 DEF SyscallSetTidAddress, Calls
  <2>2. c.addr \in Word \cup {NoWord}
    BY ProgramCalls DEF Call
  <2>3. TypeOK' /\ LookupsRight'
    BY <2>1, <2>2 DEF Inv, TypeOK, LookupsRight
  <2> QED
    BY <2>1, <2>3, Frame
<1>3. CASE SyscallWake(t)
  <2>1. PICK c \in Program[t] :
          /\ pc[t] = "guest" /\ c.op = "wake"
          /\ call' = [call EXCEPT ![t] = c]
          /\ pc' = [pc EXCEPT ![t] = "getfutex"]
          /\ UNCHANGED <<heap, Futexes, futex, child_tid>>
    BY <1>3 DEF SyscallWake, Calls, Goto
  <2>2. c \in Call /\ c.addr \in Word
    BY <2>1, ProgramCalls
  <2>3. TypeOK' /\ LookupsRight'
    BY <2>1, <2>2 DEF Inv, TypeOK, LookupsRight, PC
  <2> QED
    BY <2>1, <2>3, Frame DEF Inv, TypeOK
<1>4. CASE SyscallExit(t)
  <2>1. /\ pc[t] = "guest" /\ UNCHANGED <<call, heap, Futexes, futex, child_tid>>
        /\ \E l \in {"done", "clear"} :
             pc' = [pc EXCEPT ![t] = l] /\ (l = "clear" => child_tid[t] # NoWord)
    BY <1>4 DEF SyscallExit, Calls, Goto
  <2>2. TypeOK' /\ LookupsRight'
    BY <2>1 DEF Inv, TypeOK, LookupsRight, PC
  <2> QED
    BY <2>1, <2>2, Frame DEF Inv, TypeOK
<1> QED
  BY <1>1, <1>2, <1>3, <1>4 DEF GuestStep

----------------------------------------------------------------------------
\* Inv is an invariant of the futex calls.
THEOREM Invariance == Spec => []Inv
<1>1. ASSUME Inv, [Next]_vars
      PROVE  Inv'
  <2>1. CASE UNCHANGED vars
    BY <1>1, <2>1 DEF vars, Inv, TypeOK, EntriesRight, WaitsRight, LookupsRight,
                      WaitersHaveEntry, SoleWaiterFound, SoleWaiter
  <2>2. CASE Next
    BY <1>1, <2>2, WaitStep, EmplaceStep, CallFrame, GuestFrame DEF Next
  <2> QED
    BY <1>1, <2>1, <2>2
<1> QED
  BY <1>1, InvInit, PTL DEF Spec

\* For any guest program and schedule, a thread in cv.wait has a Futex of its
\* word in the map, so that FUTEX_WAKE and exit after it never find null.
THEOREM WaitersFindableHolds == Spec => []WaitersFindable
<1>1. Inv => WaitersFindable
  BY DEF Inv, WaitsRight, WaitersHaveEntry, EntriesRight, WaitersFindable
<1> QED
  BY <1>1, Invariance, PTL

\* For any guest program and schedule, the only thread that waits for a word
\* has the Futex it waits on now in the map.
THEOREM SoleWaiterFoundHolds == Spec => []SoleWaiterFound
<1>1. Inv => SoleWaiterFound
  BY DEF Inv
<1> QED
  BY <1>1, Invariance, PTL

============================================================================
