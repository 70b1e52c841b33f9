----------------------------- MODULE FramePool -----------------------------
(***************************************************************************)
(* What the physical frame allocator of memory.cpp promises its callers,   *)
(* with no bitmap, no addresses and no search order: a pool of frames is   *)
(* opened once, a frame handed out leaves the pool until its holder gives  *)
(* it back, an allocation fails only when the pool is empty, and the heap  *)
(* may take frames out of the pool for good.                               *)
(***************************************************************************)
CONSTANTS
  Frame,     \* every frame number that can be handed out
  NoFrame    \* the answer of a failed allocation

VARIABLES
  open,   \* whether the memory map is known
  pool,   \* frames that may be handed out
  held,   \* frames handed out and not given back
  last    \* answer of the last allocation

vars == <<open, pool, held, last>>

Init ==
  /\ open = FALSE
  /\ pool = {}
  /\ held = {}
  /\ last = NoFrame

(* The memory map is known: the usable frames form the pool. *)
Open ==
  /\ ~open
  /\ open' = TRUE
  /\ pool' \in SUBSET Frame
  /\ UNCHANGED <<held, last>>

(* One frame, whichever, moves from the pool to its new holder. *)
Allocate ==
  \E f \in pool :
    /\ pool' = pool \ {f}
    /\ held' = held \cup {f}
    /\ last' = f
    /\ UNCHANGED open

Fail ==
  /\ pool = {}
  /\ last' = NoFrame
  /\ UNCHANGED <<open, pool, held>>

GiveBack ==
  \E f \in held :
    /\ pool' = pool \cup {f}
    /\ held' = held \ {f}
    /\ UNCHANGED <<open, last>>

(* The heap claims frames; it never returns them. *)
Claim ==
  /\ pool' \in SUBSET pool
  /\ UNCHANGED <<open, held, last>>

Next == Open \/ Allocate \/ Fail \/ GiveBack \/ Claim

Spec == Init /\ [][Next]_vars

=============================================================================
