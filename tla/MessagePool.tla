---------------------------- MODULE MessagePool ----------------------------
(***************************************************************************)
(* What the users of the MemoryPool classes of HFT/MemoryPool.hpp rely on: *)
(* a message is handed to one user at a time, and comes back when that     *)
(* user deallocates it.                                                    *)
(***************************************************************************)
CONSTANT Slots      \* the messages of pool_

VARIABLES
    free,           \* the messages allocate may hand out
    used            \* the messages in the hands of users

pvars == <<free, used>>

Init ==
    /\ free = Slots
    /\ used = {}

Allocate(i) ==
    /\ i \in free
    /\ free' = free \ {i}
    /\ used' = used \cup {i}

Deallocate(i) ==
    /\ i \in used
    /\ used' = used \ {i}
    /\ free' = free \cup {i}

Next == \E i \in Slots : Allocate(i) \/ Deallocate(i)

Spec == Init /\ [][Next]_pvars
=============================================================================
