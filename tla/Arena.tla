------------------------------- MODULE Arena -------------------------------
(***************************************************************************)
(* The U-Boot arena allocator of src/uboot/board/samsung/x4412/malloc.c.  *)
(*                                                                         *)
(* Memory is counted in units of sizeof(struct arena_header) = 16 bytes,   *)
(* the allocator's alignment unit.  The static array heap[] is the units   *)
(* 0 .. HEAP_UNITS-1; the sentinel __malloc_head is the address HEAD,     *)
(* which lies outside the array.  The variable hdr is the content of       *)
(* memory seen as headers: hdr[a] is the struct free_arena_header stored   *)
(* at unit a (type, size, next, prev, next_free, prev_free).  Headers are  *)
(* never erased: a header absorbed by coalescing stays in memory, exactly  *)
(* as in the C code.  Payload bytes are not modelled.                      *)
(*                                                                         *)
(* The allocator runs on the single boot thread, so each call is one      *)
(* atomic step.                                                            *)
(***************************************************************************)
EXTENDS Integers, FiniteSets, Sequences

CONSTANTS
  HEAP_UNITS,   \* SZ_16M / 16: size of the static array heap[]
  CHUNK_UNITS,  \* SZ_64K / 16: sbrk granularity and the xfree return threshold
  ALIGN_UNITS,  \* 32 / 16: alignment applied by sbrk to the break
  Requests,     \* byte counts the boot code passes to xmalloc
  NULL          \* the null pointer

ASSUME HEAP_UNITS \in Nat \ {0}
ASSUME CHUNK_UNITS \in {2^k : k \in 1..8}
ASSUME ALIGN_UNITS \in {1, 2}
ASSUME Requests \subseteq Nat

VARIABLES
  hdr,          \* memory as headers, and the sentinel __malloc_head
  current_brk,  \* __current_brk, as a unit index into heap[]
  live,         \* payload pointers returned by xmalloc and not yet freed
  lastCall      \* the last call and its result (for the properties only)

vars == <<hdr, current_brk, live, lastCall>>

HEAD == -1                                  \* &__malloc_head
Units == 0 .. HEAP_UNITS - 1
Addr == Units \cup {HEAD}
Ptr == Addr \cup {NULL}
Types == {"USED", "FREE", "HEAD"}           \* ARENA_TYPE_USED/FREE/HEAD
HDR == 1                                    \* sizeof(struct arena_header)

Header(t, s, n, p, nf, pf) ==
  [type |-> t, size |-> s, next |-> n, prev |-> p, next_free |-> nf, prev_free |-> pf]

(* heap[] lives in .bss: every unit reads as zero, i.e. a USED header of   *)
(* size 0 with null links; the sentinel is statically initialised.        *)
Init ==
  /\ hdr = [a \in Addr |-> IF a = HEAD THEN Header("HEAD", 0, HEAD, HEAD, HEAD, HEAD)
                                       ELSE Header("USED", 0, NULL, NULL, NULL, NULL)]
  /\ current_brk = 0
  /\ live = {}
  /\ lastCall = [op |-> "none", n |-> 0, ret |-> NULL]

-----------------------------------------------------------------------------
(* One assignment "p->field = v" to memory. *)
Set(h, p, f, v) == [h EXCEPT ![p][f] = v]

(* Mutant: the rounding leaves room for the payload but not the header. *)
RoundSize_one_header(n) == (n + 16 - 1) \div 16

(* (size + 2*sizeof(struct arena_header) - 1) & ARENA_SIZE_MASK, in units. *)
RoundSize(n) == (n + 2 * 16 - 1) \div 16

(* (size + MALLOC_CHUNK_MASK) & ~MALLOC_CHUNK_MASK *)
ChunkSize(size) == ((size + CHUNK_UNITS - 1) \div CHUNK_UNITS) * CHUNK_UNITS

(* align_up(p, 32) *)
AlignUp(p) == ((p + ALIGN_UNITS - 1) \div ALIGN_UNITS) * ALIGN_UNITS

(* A __brk that forgets the upper end of heap[] *)
BrkFails_no_limit(end) == end < 0

(* __brk(end): the break if it lies inside heap[], else (void * )-1. *)
BrkFails(end) == end < 0 \/ end >= HEAP_UNITS

(* sbrk(increment): the break aligned up to 32 bytes is the start of the  *)
(* new chunk, or -1 when __brk refuses its end.  __current_brk starts at  *)
(* &heap[0], so its NULL branch is never taken.                           *)
sbrk(increment) ==
    LET start == AlignUp(current_brk)
    IN  IF BrkFails(start + increment) THEN -1 ELSE start

(* brk(end): the new break, or the old one when __brk refuses end *)
brk(end) == IF BrkFails(end) THEN current_brk ELSE end

remove_from_main_chain(h, ah) ==
  LET ap == h[ah].prev
      an == h[ah].next
      h1 == Set(h, ap, "next", an)
  IN  Set(h1, an, "prev", ap)

remove_from_free_chain(h, ah) ==
  LET ap == h[ah].prev_free
      an == h[ah].next_free
      h1 == Set(h, ap, "next_free", an)
  IN  Set(h1, an, "prev_free", ap)

remove_from_chains(h, ah) == remove_from_main_chain(remove_from_free_chain(h, ah), ah)

(* Mutant: the guard of the split counts one header only. *)
CanSplit_one_header(fsize, size) == fsize >= size + HDR

(* The guard of the split in __malloc_from_block: "we need the 2* to      *)
(* account for the larger requirements of a free block".                  *)
CanSplit(fsize, size) == fsize >= size + 2 * HDR

(* The split: fp keeps size units and becomes USED; the tail nfp becomes  *)
(* a FREE block that takes fp's place on the free chain.                  *)
split_block(h, fp, size) ==
  LET nfp == fp + size
      na  == h[fp].next
      h1 == Set(Set(h, nfp, "type", "FREE"), nfp, "size", h[fp].size - size)
      h2 == Set(Set(h1, fp, "type", "USED"), fp, "size", size)
      h3 == Set(Set(h2, nfp, "prev", fp), nfp, "next", na)
      h4 == Set(Set(h3, na, "prev", nfp), fp, "next", nfp)
      fpn == h4[fp].next_free
      fpp == h4[fp].prev_free
      h5 == Set(Set(h4, nfp, "next_free", fpn), nfp, "prev_free", fpp)
  IN  Set(Set(h5, fpn, "prev_free", nfp), fpp, "next_free", nfp)

(* Mutant: a block allocated whole stays on the free chain. *)
take_whole_no_unlink(h, fp) == Set(h, fp, "type", "USED")

(* The whole block is allocated and leaves the free chain. *)
take_whole(h, fp) == remove_from_free_chain(Set(h, fp, "type", "USED"), fp)

(* __malloc_from_block(fp, size): the memory after the call. *)
malloc_from_block(h, fp, size) ==
  IF CanSplit(h[fp].size, size) THEN split_block(h, fp, size) ELSE take_whole(h, fp)

(* Mutant: coalescing into the previous block leaves the back link of the *)
(* following block pointing at the absorbed block.                         *)
merge_into_prev_no_backlink(h, pah, ah, nah) ==
  Set(Set(h, pah, "size", h[pah].size + h[ah].size), pah, "next", nah)

(* __free_block, first case: ah is absorbed by the FREE block before it. *)
merge_into_prev(h, pah, ah, nah) ==
  Set(Set(Set(h, pah, "size", h[pah].size + h[ah].size), pah, "next", nah), nah, "prev", pah)

(* __free_block, second case: ah becomes FREE at the front of the free    *)
(* chain.                                                                  *)
push_free(h, ah) ==
  LET g1 == Set(h, ah, "type", "FREE")
      g2 == Set(g1, ah, "next_free", g1[HEAD].next_free)
      g3 == Set(Set(g2, ah, "prev_free", HEAD), HEAD, "next_free", ah)
  IN  Set(g3, g3[ah].next_free, "prev_free", ah)

(* Mutant: the released block is never merged with the block after it. *)
merge_next_never(h, b, nah) == [mem |-> h, blk |-> b]

(* __free_block, last step: block b absorbs the FREE block nah that       *)
(* follows it, which leaves both chains.                                   *)
merge_next(h, b, nah) ==
  IF h[nah].type = "FREE" /\ b + h[b].size = nah
  THEN [mem |-> remove_from_chains(Set(h, b, "size", h[b].size + h[nah].size), nah), blk |-> b]
  ELSE [mem |-> h, blk |-> b]

(* __free_block(ah): the memory after the call and the block returned. *)
free_block(h, ah) ==
  LET pah == h[ah].prev
      nah == h[ah].next
      merged == h[pah].type = "FREE" /\ pah + h[pah].size = ah
  IN  IF merged THEN merge_next(merge_into_prev(h, pah, ah, nah), pah, nah)
                ELSE merge_next(push_free(h, ah), ah, nah)

(* The first block of the free chain, from __malloc_head.next_free on,     *)
(* whose size is at least size; HEAD when there is none.  The fuel bounds  *)
(* the walk on a corrupted chain (where the C loop would not terminate).  *)
RECURSIVE FirstFitFrom(_, _, _, _)
FirstFitFrom(h, fp, size, fuel) ==
  IF fuel = 0 \/ h[fp].type = "HEAD" THEN HEAD
  ELSE IF h[fp].size >= size THEN fp
  ELSE FirstFitFrom(h, h[fp].next_free, size, fuel - 1)

FirstFit(h, size) == FirstFitFrom(h, h[HEAD].next_free, size, HEAP_UNITS + 1)

(* The backward search of xmalloc for the predecessor of a new block fp.   *)
RECURSIVE PredecessorFrom(_, _, _, _)
PredecessorFrom(h, pah, fp, fuel) ==
  IF fuel = 0 \/ h[pah].type = "HEAD" \/ pah < fp THEN pah
  ELSE PredecessorFrom(h, h[pah].prev, fp, fuel - 1)

-----------------------------------------------------------------------------
(* xmalloc after sbrk(fsize) returned start: the new FREE block is       *)
(* linked into the arena list after its predecessor (searched backwards). *)
link_new_block(h, start, fsize) ==
  LET h1  == Set(Set(h, start, "type", "FREE"), start, "size", fsize)
      pah == PredecessorFrom(h1, h1[HEAD].prev, start, HEAP_UNITS + 1)
      h2  == Set(Set(h1, start, "next", h1[pah].next), start, "prev", pah)
      h3  == Set(h2, pah, "next", start)
  IN  Set(h3, h3[start].next, "prev", start)

(* Mutant: the pointer is computed from the block sbrk returned, not from *)
(* the block __free_block merged it into.                                  *)
extend_heap_stale_fp(h, start, fsize, size) ==
  LET fr == free_block(link_new_block(h, start, fsize), start)
  IN  [mem |-> malloc_from_block(fr.mem, fr.blk, size), ret |-> start + HDR]

(* The rest of xmalloc after sbrk: insert, coalesce, allocate.  The       *)
(* memory after it and the pointer returned.                               *)
extend_heap(h, start, fsize, size) ==
  LET fr == free_block(link_new_block(h, start, fsize), start)
  IN  [mem |-> malloc_from_block(fr.mem, fr.blk, size), ret |-> fr.blk + HDR]

(* xmalloc(n) *)
xmalloc(n) ==
  LET size  == RoundSize(n)
      fp    == FirstFit(hdr, size)
      fsize == ChunkSize(size)
      start == sbrk(fsize)
      Return(r) == lastCall' = [op |-> "malloc", n |-> n, ret |-> r]
  IN
  \/ /\ n = 0
     /\ Return(NULL)
     /\ UNCHANGED <<hdr, current_brk, live>>
  \/ /\ n # 0
     /\ fp # HEAD                                \* found fit in the free chain
     /\ hdr' = malloc_from_block(hdr, fp, size)
     /\ live' = live \cup {fp + HDR}
     /\ Return(fp + HDR)
     /\ UNCHANGED current_brk
  \/ /\ n # 0
     /\ fp = HEAD
     /\ start = -1                               \* sbrk returns (void * )-1
     /\ Return(NULL)
     /\ UNCHANGED <<hdr, current_brk, live>>
  \/ /\ n # 0
     /\ fp = HEAD
     /\ start # -1
     /\ LET r == extend_heap(hdr, start, fsize, size)
        IN  /\ hdr' = r.mem
            /\ live' = live \cup {r.ret}
            /\ Return(r.ret)
     /\ current_brk' = start + fsize

(* xfree(ptr): nothing for NULL; otherwise the block behind a pointer the *)
(* client holds is released and coalesced, and a large free block at the  *)
(* top of the arena is given back to the break.                           *)
xfree(ptr) ==
  LET fr == free_block(hdr, ptr - HDR)
      ah == fr.blk
  IN  /\ lastCall' = [op |-> "free", n |-> 0, ret |-> NULL]
      /\ \/ /\ ptr = NULL
            /\ UNCHANGED <<hdr, current_brk, live>>
         \/ /\ ptr # NULL
            /\ live' = live \ {ptr}
            /\ IF fr.mem[ah].size >= CHUNK_UNITS /\ ah + fr.mem[ah].size = current_brk
               THEN \* give the top of the arena back: brk(ah)
                    /\ hdr' = remove_from_chains(fr.mem, ah)
                    /\ current_brk' = brk(ah)
               ELSE /\ hdr' = fr.mem
                    /\ UNCHANGED current_brk

Next ==
  \/ \E n \in Requests : xmalloc(n)
  \/ \E p \in live \cup {NULL} : xfree(p)

Spec == Init /\ [][Next]_vars

-----------------------------------------------------------------------------
(* Views of the two chains.                                               *)

(* The list reached from the sentinel by the link field f, stopping at    *)
(* HEAD or after HEAP_UNITS + 1 nodes.                                    *)
RECURSIVE WalkFrom(_, _, _, _)
WalkFrom(h, p, f, fuel) ==
  IF p = HEAD \/ p = NULL \/ fuel = 0 THEN <<>>
  ELSE <<p>> \o WalkFrom(h, h[p][f], f, fuel - 1)

MainChain == WalkFrom(hdr, hdr[HEAD].next, "next", HEAP_UNITS + 1)
FreeChain == WalkFrom(hdr, hdr[HEAD].next_free, "next_free", HEAP_UNITS + 1)
SetOf(s) == {s[i] : i \in DOMAIN s}
Blocks == SetOf(MainChain)
FreeBlocks == {b \in Blocks : hdr[b].type = "FREE"}
UsedBlocks == {b \in Blocks : hdr[b].type = "USED"}

(* The last node of a walk, or HEAD for an empty one. *)
LastOf(s) == IF s = <<>> THEN HEAD ELSE s[Len(s)]

-----------------------------------------------------------------------------
(* Properties.                                                             *)

TypeOK ==
  /\ hdr \in [Addr -> [type : Types, size : 0 .. HEAP_UNITS,
                       next : Ptr, prev : Ptr, next_free : Ptr, prev_free : Ptr]]
  /\ current_brk \in 0 .. HEAP_UNITS
  /\ live \subseteq Units
  /\ lastCall \in [op : {"none", "malloc", "free"}, n : Requests \cup {0}, ret : Ptr]

(* The whole-arena list that xmalloc, __free_block and xfree edit through  *)
(* their pointer assignments stays a circular doubly linked list, sorted   *)
(* by address, whose blocks do not overlap and lie below the break.        *)
MainChainSorted ==
  LET c == MainChain
  IN  /\ hdr[LastOf(c)].next = HEAD
      /\ hdr[HEAD].prev = LastOf(c)
      /\ \A i \in 1 .. Len(c) :
           /\ hdr[c[i]].prev = (IF i = 1 THEN HEAD ELSE c[i-1])
           /\ hdr[c[i]].size >= 1
           /\ c[i] + hdr[c[i]].size <= (IF i = Len(c) THEN current_brk ELSE c[i+1])

(* The free chain that __malloc_from_block, __free_block and xfree edit   *)
(* holds exactly the FREE blocks of the whole-arena list, each once, with *)
(* consistent back links.                                                  *)
FreeChainExact ==
  LET f == FreeChain
  IN  /\ hdr[LastOf(f)].next_free = HEAD
      /\ hdr[HEAD].prev_free = LastOf(f)
      /\ \A i \in 1 .. Len(f) : hdr[f[i]].prev_free = (IF i = 1 THEN HEAD ELSE f[i-1])
      /\ Len(f) = Cardinality(SetOf(f))
      /\ SetOf(f) = FreeBlocks

(* __free_block coalesces: no two address-adjacent blocks of the arena    *)
(* list are both FREE.                                                     *)
Coalesced ==
  LET c == MainChain
  IN  \A i \in 1 .. Len(c) - 1 :
        ~ (/\ hdr[c[i]].type = "FREE" /\ hdr[c[i+1]].type = "FREE"
           /\ c[i] + hdr[c[i]].size = c[i+1])

(* Every FREE block can hold a struct free_arena_header (24 bytes, i.e.   *)
(* 2 units), which the split in __malloc_from_block must guarantee.        *)
FreeBlocksHoldLinks == \A b \in FreeBlocks : hdr[b].size >= 2 * HDR

(* The USED blocks of the arena are exactly the blocks the client holds:  *)
(* nothing handed out is lost, nothing held is reused.                     *)
LiveBlocksOwned == UsedBlocks = {p - HDR : p \in live}
(* Spec, "Allocator round-trip": once every allocation has been released *)
(* by xfree, __free_block has coalesced the arena back into (at most) one *)
(* block.                                                                   *)
IdleArenaCoalesced == live = {} => Cardinality(Blocks) <= 1

(* Spec, xmalloc "fails ... only when the static arena is exhausted": an   *)
(* xmalloc that returns NULL for n > 0 asked sbrk for a chunk that does   *)
(* not fit between the aligned break and the end of heap[].                *)
FailsOnlyWhenArenaExhausted ==
  [][ (lastCall'.op = "malloc" /\ lastCall'.n # 0 /\ lastCall'.ret = NULL)
        => AlignUp(current_brk) + ChunkSize(RoundSize(lastCall'.n)) > HEAP_UNITS ]_vars

-----------------------------------------------------------------------------
(* Refinement.  The blocks the client holds, read from the arena: for each *)
(* pointer xmalloc returned and xfree has not yet taken back, the header   *)
(* in front of it and the size that header records.                       *)
OwnedBlocks == {[at |-> p - HDR, len |-> hdr[p - HDR].size] : p \in live}

Abs == INSTANCE AllocatorSpec WITH owned <- OwnedBlocks, last <- lastCall

(* xmalloc, __malloc_from_block, __free_block and xfree implement the      *)
(* allocator's promise: every block xmalloc(n) hands out lies in heap[],   *)
(* overlaps no block still held and has n bytes after its header; an       *)
(* xfree releases exactly that block and changes the extent of no other.   *)
AllocatorRefinement == Abs!Spec

-----------------------------------------------------------------------------
(* The memory the allocator can still read: the sentinel, and for every   *)
(* block of the arena list its header, with the free links only when the  *)
(* block is FREE.  Absorbed headers and the stale free links of USED       *)
(* blocks are never read by the C code again; states that differ only in  *)
(* them are the same state of the allocator.                               *)
ReachableMemory ==
  [a \in {HEAD} \cup Blocks |->
     IF a = HEAD \/ hdr[a].type = "FREE" THEN hdr[a]
     ELSE [hdr[a] EXCEPT !.next_free = NULL, !.prev_free = NULL]]

AllocatorView == <<ReachableMemory, current_brk, live>>
=============================================================================
