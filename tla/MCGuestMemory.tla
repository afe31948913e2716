--------------------------- MODULE MCGuestMemory ---------------------------
(* GuestMemory with the layout of the emulator scaled to blocks of 64 MiB   *)
(* below the break and rounded up to one block for the smaller regions.     *)
EXTENDS GuestMemory

MCImage == [off |-> 0, len |-> 1]
MCFS == [off |-> 6, len |-> 1]
MCStack == [off |-> 7, len |-> 1]
MCIncrements == {-1, 0, 1, 2}
MCLengths == {1, 2}
MCGrow == {1}

============================================================================
