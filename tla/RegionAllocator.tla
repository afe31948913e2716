-------------------------- MODULE RegionAllocator --------------------------
(***************************************************************************)
(* What SYSCALL_MMAP promises the guest: calls are served one at a time,   *)
(* and a call returns a non-empty region disjoint from every region        *)
(* returned before.                                                        *)
(***************************************************************************)
EXTENDS Naturals

CONSTANTS Client, Nobody

VARIABLES server,   \* the client whose call is being served, or Nobody
          issued    \* the regions returned so far

Disjoint(r, s) == r.off + r.len <= s.off \/ s.off + s.len <= r.off

Init == server = Nobody /\ issued = {}

Begin(c) == server = Nobody /\ server' = c /\ UNCHANGED issued

Return(r) ==
  /\ server # Nobody
  /\ r.len > 0
  /\ \A s \in issued : Disjoint(r, s)
  /\ issued' = issued \cup {r}
  /\ server' = Nobody

Next == (\E c \in Client : Begin(c)) \/ (\E r \in issued' : Return(r))

Spec == Init /\ [][Next]_<<server, issued>>

============================================================================
