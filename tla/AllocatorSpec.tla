--------------------------- MODULE AllocatorSpec ---------------------------
(***************************************************************************)
(* What the arena allocator of src/uboot/board/samsung/x4412/malloc.c     *)
(* promises its callers, with no chains, no headers other than the one in *)
(* front of each payload, and no break.                                    *)
(*                                                                         *)
(* owned is the set of blocks the client holds, each an interval of heap  *)
(* units [at, at + len) whose first unit is the allocator's header and    *)
(* whose payload starts one unit later.  xmalloc(n) either fails, leaving *)
(* owned alone, or hands out a fresh block inside heap[] that overlaps no *)
(* held block and whose payload holds n bytes; xfree releases one held    *)
(* block and leaves every other one exactly as it was.  last is the last  *)
(* call with the pointer it returned: a successful xmalloc returns the     *)
(* payload of the block it hands out.                                      *)
(***************************************************************************)
EXTENDS Integers

CONSTANTS
  HEAP_UNITS,   \* units of 16 bytes in heap[]
  Requests,     \* byte counts the boot code passes to xmalloc
  NULL          \* the null pointer

VARIABLES
  owned,        \* the blocks the client holds
  last          \* the last call and the pointer it returned

vars == <<owned, last>>

Block == [at : 0 .. HEAP_UNITS - 1, len : 1 .. HEAP_UNITS]

Overlap(b, c) == b.at < c.at + c.len /\ c.at < b.at + b.len

(* A block xmalloc(n) may hand out: inside heap[], its payload (the units *)
(* after the header) at least n bytes, and overlapping no held block.     *)
Fresh(b, n) ==
  /\ b.at + b.len <= HEAP_UNITS
  /\ (b.len - 1) * 16 >= n
  /\ \A c \in owned : ~ Overlap(b, c)

Init ==
  /\ owned = {}
  /\ last = [op |-> "none", n |-> 0, ret |-> NULL]

(* xmalloc(n), n > 0, returns the payload pointer p of a fresh block whose *)
(* header is the unit before p.                                            *)
Malloc(n) ==
  /\ n # 0
  /\ \E p \in 1 .. HEAP_UNITS - 1 :
       /\ last' = [op |-> "malloc", n |-> n, ret |-> p]
       /\ \E len \in 1 .. HEAP_UNITS :
            LET b == [at |-> p - 1, len |-> len]
            IN  /\ b \notin owned
                /\ Fresh(b, n)
                /\ owned' = owned \cup {b}

(* xmalloc(n) returns NULL and hands out nothing; for n = 0 it always does. *)
Fail(n) ==
  /\ last' = [op |-> "malloc", n |-> n, ret |-> NULL]
  /\ UNCHANGED owned

(* xfree of a held block. *)
Free(b) ==
  /\ owned' = owned \ {b}
  /\ last' = [op |-> "free", n |-> 0, ret |-> NULL]

(* xfree(NULL) does nothing. *)
FreeNull ==
  /\ last' = [op |-> "free", n |-> 0, ret |-> NULL]
  /\ UNCHANGED owned

Next ==
  \/ \E n \in Requests : Malloc(n) \/ Fail(n)
  \/ \E b \in owned : Free(b)
  \/ FreeNull

Spec == Init /\ [][Next]_vars
=============================================================================
