-------------------------------- MODULE Heap --------------------------------
(***************************************************************************)
(* The managed heap of a Runtime (runtime/heap.zig) and the allocation     *)
(* ladder of the VM above it (lang/vm_gc.zig): size classes with bump      *)
(* regions, a shared overflow bump growing up, permanent data growing down *)
(* from the top, free lists with splitting and coalescing, and compaction. *)
(*                                                                         *)
(* An owner is one slice of an object (a string's bytes, an array's items, *)
(* a map's entries or its buckets). An address counts granules; a block of *)
(* class c has Align * 2^c of them. A loop or a recursion of the code is a *)
(* sequence of steps here, one per turn: `pc' says which loop is running,  *)
(* and no other operation starts before it has ended. Which block of its   *)
(* class a free list hands out, and which owners a collection finds dead,  *)
(* are left open.                                                          *)
(***************************************************************************)
EXTENDS Integers, FiniteSets, FiniteSetsExt

CONSTANTS
    HeapSize,     \* granules of the heap
    Align,        \* ManagedAlign, in granules
    ClassCount,   \* usable size classes
    Owners,       \* slices that may own a block
    Growable,     \* the owners that are entries or buckets of a map
    Ops,          \* the operations on maps and views that are explored
    PermSizes,    \* sizes of permanent allocations explored
    DefragTable,  \* free blocks that stack_buf of defragmentFreeLists holds
    CompactTable, \* live blocks that sbuf of compactManagedHeap holds
    NoBlock

ASSUME HeapAssumption ==
    /\ HeapSize \in Nat /\ Align \in Nat \ {0} /\ ClassCount \in Nat \ {0}
    /\ HeapSize % Align = 0
    /\ PermSizes \subseteq Nat /\ DefragTable \in Nat /\ CompactTable \in Nat
    /\ IsFiniteSet(Owners) /\ Growable \subseteq Owners
    /\ Ops \subseteq {"view", "grow", "shrink"}

Classes  == 0 .. ClassCount - 1
Addrs    == 0 .. HeapSize - 1
ClassSize(c) == Align * 2^c
Blocks   == [addr : Addrs, class : Classes]
Failures == [class : Classes, packed : BOOLEAN]

ASSUME NoBlockAssumption ==
    /\ NoBlock \notin Blocks /\ NoBlock \notin Owners /\ NoBlock \notin Addrs
    /\ NoBlock \notin Failures

\* How classes grow: what the proofs use of exponentiation.
ASSUME PowersOfTwo ==
    /\ 2^0 = 1
    /\ \A c \in 0 .. ClassCount : 2^c \in Nat \ {0}
    /\ \A c \in Classes : 2^(c + 1) = 2 * 2^c

VARIABLES
    permanentBump,  \* low-water mark of the permanent region
    classBump,      \* classBump[c]: next free granule of class c's region
    overflowBump,   \* end of what the overflow bump has handed out
    free,           \* the blocks on the free lists
    own,            \* own[o]: the block owner o holds, or NoBlock
    view,           \* a view or an iterator: its source and its address
    pc,             \* "idle", or the loop that is running
    hand,           \* the block being coalesced or split, or NoBlock
    request,        \* the allocation under way; see Request
    garbage,        \* owners the running sweep still has to free
    reloc,          \* reloc[o]: o's new address in the running compaction
    dest,           \* where compaction puts the next block
    oom             \* the last allocation, if it failed: the class it asked for
                    \* and whether compaction had a table

bumps == <<permanentBump, classBump, overflowBump>>
vars  == <<bumps, free, own, view, pc, hand, request, garbage, reloc, dest,
           oom>>
----------------------------------------------------------------------------
(* Layout.                                                                 *)

End(b)   == b.addr + ClassSize(b.class)
Cells(b) == b.addr .. End(b) - 1

\* init: every class gets a region of one block when all of them, twice over,
\* and an eighth of the heap fit; otherwise the heap is flat.
Partitioned ==
    2 * Align * (2^ClassCount - 1) + HeapSize \div 8 <= HeapSize

ClassBase(c) == IF Partitioned THEN Align * (2^c - 1) ELSE 0
ClassEnd(c)  == IF Partitioned THEN ClassBase(c) + ClassSize(c) ELSE 0

OverflowBase == IF Partitioned THEN Align * (2^ClassCount - 1) ELSE 0

RoundUp(n, a)   == ((n + a - 1) \div a) * a
RoundDown(n, a) == (n \div a) * a

LiveOwners == {o \in Owners : own[o] # NoBlock}
LiveBlocks == {own[o] : o \in LiveOwners}
FreeOfClass(c) == {b \in free : b.class = c}
CellsOf(S) == UNION {Cells(b) : b \in S}

NoRequest == [owner |-> NoBlock, class |-> 0, stage |-> 0,
              freesOld |-> FALSE, kept |-> NoBlock, packed |-> TRUE]
NoReloc   == [o \in Owners |-> NoBlock]
----------------------------------------------------------------------------
(* allocBytesManaged: the alternatives in the order the code tries them.   *)

Idle == pc = "idle"

\* (A definition marked "Faulty" is a plausible mistake in the one after it. No
\* specification uses it; it shows that the properties would notice.)

\* Faulty: only the start of the block is compared with the end of the region.
ClassHasAnyRoom(c) == classBump[c] <= ClassEnd(c)

\* Faulty: the permanent data above is forgotten.
OverflowHasRoomInHeap(c) == RoundUp(overflowBump, Align) + ClassSize(c) <= HeapSize

\* Faulty: only the start of the block is compared with the permanent data.
OverflowHasAnyRoom(c) == RoundUp(overflowBump, Align) < permanentBump

ClassHasRoom(c)    == classBump[c] + ClassSize(c) <= ClassEnd(c)
OverflowHasRoom(c) == RoundUp(overflowBump, Align) + ClassSize(c) <= permanentBump
LargerFree(c)      == {b \in free : b.class > c}
FreeBytes          == Cardinality(CellsOf(free))

\* The requester gets block b and publishes it in its object at once. A map
\* that grew then frees the entries it replaced. A map that turned into a hashed
\* one also stores again the entries slice it had before it asked for buckets.
Grant(b) ==
    LET o == request.owner
        k == request.kept IN
    /\ own' = [p \in Owners |-> IF p = o THEN b
                               ELSE IF k # NoBlock /\ p = k.owner THEN k.block
                               ELSE own[p]]
    /\ request' = NoRequest
    /\ oom' = NoBlock
    /\ IF own[o] # NoBlock /\ request.freesOld
       THEN pc' = "coalesce" /\ hand' = own[o]
       ELSE pc' = "idle" /\ hand' = NoBlock
    /\ UNCHANGED <<permanentBump, view, garbage, reloc, dest>>

TakeFreeBlock ==
    /\ pc = "attempt"
    /\ \E b \in FreeOfClass(request.class) :
          /\ free' = free \ {b}
          /\ Grant(b)
    /\ UNCHANGED <<classBump, overflowBump>>

BumpClassRegion ==
    LET c == request.class IN
    /\ pc = "attempt"
    /\ FreeOfClass(c) = {}
    /\ ClassHasRoom(c)
    /\ classBump' = [classBump EXCEPT ![c] = @ + ClassSize(c)]
    /\ Grant([addr |-> classBump[c], class |-> c])
    /\ UNCHANGED <<overflowBump, free>>

BumpOverflow ==
    LET c   == request.class
        pos == RoundUp(overflowBump, Align) IN
    /\ pc = "attempt"
    /\ FreeOfClass(c) = {} /\ ~ClassHasRoom(c)
    /\ OverflowHasRoom(c)
    /\ overflowBump' = pos + ClassSize(c)
    /\ Grant([addr |-> pos, class |-> c])
    /\ UNCHANGED <<classBump, free>>

BumpExhausted(c) ==
    FreeOfClass(c) = {} /\ ~ClassHasRoom(c) /\ ~OverflowHasRoom(c)

\* splitLargerFreeBlock takes a block of the smallest larger class there is.
BeginSplit ==
    /\ pc = "attempt"
    /\ BumpExhausted(request.class)
    /\ \E b \in LargerFree(request.class) :
          /\ \A d \in LargerFree(request.class) : b.class <= d.class
          /\ hand' = b
          /\ free' = free \ {b}
    /\ pc' = "split"
    /\ UNCHANGED <<bumps, own, view, request, garbage, reloc, dest, oom>>

\* Faulty: the half kept and the half freed are the same one.
SplitStepSameHalf ==
    /\ pc = "split"
    /\ hand.class > request.class
    /\ LET half == [addr |-> hand.addr, class |-> hand.class - 1] IN
       free' = free \cup {half} /\ hand' = half
    /\ UNCHANGED <<bumps, own, view, pc, request, garbage, reloc, dest, oom>>

\* The upper half goes on the free list, the lower half is split further.
SplitStep ==
    /\ pc = "split"
    /\ hand.class > request.class
    /\ LET half == hand.class - 1 IN
       /\ free' = free \cup {[addr |-> hand.addr + ClassSize(half),
                              class |-> half]}
       /\ hand' = [addr |-> hand.addr, class |-> half]
    /\ UNCHANGED <<bumps, own, view, pc, request, garbage, reloc, dest, oom>>

EndSplit ==
    /\ pc = "split"
    /\ hand.class = request.class
    /\ Grant(hand)
    /\ UNCHANGED <<classBump, overflowBump, free>>

\* addLargestBlocksToFreeList: cut a run of free granules, from its start, into
\* the largest blocks that fit.
Cut(run, start) ==
    LET fits == {c \in Classes : (start .. start + ClassSize(c) - 1) \subseteq run}
    IN  [addr |-> start, class |-> Max(fits)]

\* defragmentFreeLists: neighbouring free blocks are merged into runs, and the
\* runs cut anew. A granule starts a block if it starts a run, or if the block
\* before it ends there.
Merged ==
    LET run == CellsOf(free)
        starts[x \in Addrs] ==
            /\ x \in run
            /\ \/ x - 1 \notin run
               \/ \E y \in 0 .. x - 1 : starts[y] /\ End(Cut(run, y)) = x
    IN  {Cut(run, x) : x \in {y \in Addrs : starts[y]}}

\* Faulty: merging is tried again although it changed nothing.
CanAlwaysDefragment(c) ==
    /\ BumpExhausted(c) /\ LargerFree(c) = {}
    /\ FreeBytes >= ClassSize(c)
    /\ Cardinality(free) >= 2

CanDefragment(c) ==
    /\ BumpExhausted(c) /\ LargerFree(c) = {}
    /\ FreeBytes >= ClassSize(c)
    /\ Cardinality(free) >= 2
    /\ free # Merged

Defragment ==
    /\ pc = "attempt"
    /\ CanDefragment(request.class)
    /\ free' = Merged
    /\ UNCHANGED <<bumps, own, view, pc, hand, request, garbage, reloc, dest, oom>>

\* With more free blocks than its table on the stack holds, merging asks the
\* host for one, and silently does nothing if it gets none.
DefragmentMayFail == Cardinality(free) > DefragTable

AttemptFails ==
    /\ pc = "attempt"
    /\ BumpExhausted(request.class) /\ LargerFree(request.class) = {}
    /\ ~CanDefragment(request.class) \/ DefragmentMayFail
----------------------------------------------------------------------------
(* freeBytesManaged, and the sweep that calls it.                          *)

\* The next dead object's block is taken from it.
SweepNext ==
    /\ pc = "sweep"
    /\ \E o \in garbage :
          /\ hand' = own[o]
          /\ own' = [own EXCEPT ![o] = NoBlock]
          /\ garbage' = garbage \ {o}
    /\ pc' = "coalesce"
    /\ UNCHANGED <<bumps, free, view, request, reloc, dest, oom>>

UpperBuddy(b) == [addr |-> End(b), class |-> b.class]
LowerBuddy(b) == [addr |-> b.addr - ClassSize(b.class), class |-> b.class]

MayGrow(b)    == b.class + 1 < ClassCount

CoalesceUpper ==
    /\ pc = "coalesce"
    /\ MayGrow(hand)
    /\ UpperBuddy(hand) \in free
    /\ free' = free \ {UpperBuddy(hand)}
    /\ hand' = [addr |-> hand.addr, class |-> hand.class + 1]
    /\ UNCHANGED <<bumps, own, view, pc, request, garbage, reloc, dest, oom>>

CoalesceLower ==
    /\ pc = "coalesce"
    /\ MayGrow(hand)
    /\ UpperBuddy(hand) \notin free
    /\ LowerBuddy(hand) \in free
    /\ free' = free \ {LowerBuddy(hand)}
    /\ hand' = [addr |-> LowerBuddy(hand).addr, class |-> hand.class + 1]
    /\ UNCHANGED <<bumps, own, view, pc, request, garbage, reloc, dest, oom>>

PushFree ==
    /\ pc = "coalesce"
    /\ ~ /\ MayGrow(hand)
         /\ UpperBuddy(hand) \in free \/ LowerBuddy(hand) \in free
    /\ free' = free \cup {hand}
    /\ hand' = NoBlock
    /\ pc' = "sweep"
    /\ UNCHANGED <<bumps, own, view, request, garbage, reloc, dest, oom>>

SweepEnds ==
    /\ pc = "sweep"
    /\ garbage = {}
    /\ pc' = IF request = NoRequest THEN "idle" ELSE "attempt"
    /\ UNCHANGED <<bumps, free, own, view, hand, request, garbage, reloc, dest, oom>>
----------------------------------------------------------------------------
(* compactManagedHeap. The blocks are visited in the order of their        *)
(* addresses, packed from address 0 and copied in that order; then every   *)
(* pointer is looked up in the table of moves.                             *)

\* With no live block compaction returns before it resets the bumps.
CompactNothing ==
    /\ pc = "compact"
    /\ LiveOwners = {}
    /\ pc' = "attempt"
    /\ UNCHANGED <<bumps, free, own, view, hand, request, garbage, reloc, dest,
                   oom>>

\* With more live blocks than its table on the stack holds, compaction asks the
\* host for one. If it gets none it silently does nothing, and the last attempt
\* is made on the heap as it is.
CompactSkips ==
    /\ pc = "compact"
    /\ reloc = NoReloc
    /\ Cardinality(LiveOwners) > CompactTable
    /\ request' = [request EXCEPT !.packed = FALSE]
    /\ pc' = "attempt"
    /\ UNCHANGED <<bumps, free, own, view, hand, garbage, reloc, dest, oom>>

Unmoved == {o \in LiveOwners : reloc[o] = NoBlock}

\* Faulty: the blocks are not visited in the order of their addresses.
CompactMoveAny ==
    /\ pc = "compact"
    /\ \E o \in Unmoved :
          LET pos == RoundUp(dest, Align) IN
          /\ reloc' = [reloc EXCEPT ![o] = pos]
          /\ dest' = pos + ClassSize(own[o].class)
    /\ UNCHANGED <<bumps, free, own, view, pc, hand, request, garbage, oom>>

CompactMove ==
    /\ pc = "compact"
    /\ \E o \in Unmoved :
          /\ \A p \in Unmoved : own[o].addr <= own[p].addr
          /\ LET pos == RoundUp(dest, Align) IN
             /\ reloc' = [reloc EXCEPT ![o] = pos]
             /\ dest' = pos + ClassSize(own[o].class)
    /\ UNCHANGED <<bumps, free, own, view, pc, hand, request, garbage, oom>>

\* Faulty: only a pointer to the start of a block is found.
FindRelocOfStart(a) ==
    LET hit == {o \in LiveOwners : a = own[o].addr} IN
    IF hit = {} THEN a ELSE reloc[CHOOSE o \in hit : TRUE]

\* compactFindReloc: an address inside a moved block moves with it.
FindReloc(a) ==
    LET hit == {o \in LiveOwners : a \in Cells(own[o])} IN
    IF hit = {} THEN a
    ELSE LET o == CHOOSE p \in hit : TRUE IN reloc[o] + (a - own[o].addr)

\* Faulty: the overflow bump is never lowered.
OverflowBumpKept == overflowBump

\* Where the overflow bump goes on after the packed blocks.
CompactedEnd == IF dest > OverflowBase THEN dest ELSE OverflowBase

CompactEnds ==
    /\ pc = "compact"
    /\ Unmoved = {} /\ LiveOwners # {}
    /\ own' = [o \in Owners |->
                  IF own[o] = NoBlock THEN NoBlock
                  ELSE [own[o] EXCEPT !.addr = FindReloc(@)]]
    /\ view' = IF view = NoBlock THEN NoBlock
               ELSE [view EXCEPT !.addr = FindReloc(@)]
    /\ classBump' = [c \in Classes |-> ClassEnd(c)]
    /\ free' = {}
    /\ overflowBump' = CompactedEnd
    /\ pc' = "attempt"
    /\ reloc' = NoReloc
    /\ dest' = 0
    /\ UNCHANGED <<permanentBump, hand, request, garbage, oom>>
----------------------------------------------------------------------------
(* The VM: vmAllocManagedSlice, vmAllocManagedBytes and their callers.     *)

\* A collection finds dead any owners but those the allocation under way has
\* put on the temporary roots and the source of the view.
Collectable(r) ==
    {o \in LiveOwners : /\ o # r.owner
                        /\ r.kept # NoBlock => o # r.kept.owner
                        /\ view # NoBlock => o # view.of}

\* An allocation starts with r as its request; a threshold, or GC stress mode,
\* may start a collection first.
Begin(r) ==
    /\ Idle
    /\ request' = r
    /\ \/ pc' = "attempt" /\ UNCHANGED garbage
       \/ pc' = "sweep" /\ garbage' \in SUBSET Collectable(r)
    /\ oom' = NoBlock
    /\ UNCHANGED <<bumps, free, own, view, hand, reloc, dest>>

\* The first attempt to get owner o a block of class c.
NewRequest(o, c, freesOld, kept) ==
    [owner |-> o, class |-> c, stage |-> 1, freesOld |-> freesOld, kept |-> kept,
     packed |-> TRUE]

\* A slice of a new object.
Request(o, c) ==
    /\ own[o] = NoBlock
    /\ Begin(NewRequest(o, c, FALSE, NoBlock))

\* A block for one entry more of a map, of the same class or of the next. The
\* first growth of a map literal does not free the literal's block.
Grow(o, c, freesOld) ==
    /\ "grow" \in Ops
    /\ o \in Growable /\ own[o] # NoBlock
    /\ c \in {own[o].class, own[o].class + 1}
    /\ Begin(NewRequest(o, c, freesOld, NoBlock))

\* mapSet has just grown map o past eight entries and asks for the buckets p.
HashRequest(o, p, c) ==
    /\ {o, p} \subseteq Growable /\ o # p
    /\ own[o] # NoBlock /\ own[p] = NoBlock
    /\ Begin(NewRequest(p, c, FALSE, [owner |-> o, block |-> own[o]]))

\* First failure: collect, and try again.
CollectAndRetry ==
    /\ AttemptFails
    /\ request.stage = 1
    /\ request' = [request EXCEPT !.stage = 2]
    /\ pc' = "sweep"
    /\ garbage' \in SUBSET Collectable(request)
    /\ UNCHANGED <<bumps, free, own, view, hand, reloc, dest, oom>>

\* Second failure: compact, and try again.
CompactAndRetry ==
    /\ AttemptFails
    /\ request.stage = 2
    /\ request' = [request EXCEPT !.stage = 3]
    /\ pc' = "compact"
    /\ UNCHANGED <<bumps, free, own, view, hand, garbage, reloc, dest, oom>>

\* Third failure: error.OutOfMemory.
OutOfMemory ==
    /\ AttemptFails
    /\ request.stage = 3
    /\ pc' = "idle"
    /\ oom' = [class |-> request.class, packed |-> request.packed]
    /\ request' = NoRequest
    /\ UNCHANGED <<bumps, free, own, view, hand, garbage, reloc, dest>>

\* An object allocation collects.
Collect ==
    /\ Idle
    /\ pc' = "sweep"
    /\ garbage' \in SUBSET Collectable(NoRequest)
    /\ oom' = NoBlock
    /\ UNCHANGED <<bumps, free, own, view, hand, request, reloc, dest>>

\* mapDelete shortens the slice of map o: its length then says a smaller class,
\* or, once the map is empty, no block at all. Nothing is freed.
Shrink(o) ==
    /\ "shrink" \in Ops
    /\ Idle
    /\ o \in Growable /\ own[o] # NoBlock
    /\ own' = [own EXCEPT ![o] = IF @.class = 0 THEN NoBlock
                                 ELSE [addr |-> @.addr, class |-> @.class - 1]]
    /\ oom' = NoBlock
    /\ UNCHANGED <<bumps, free, view, pc, hand, request, garbage, reloc, dest>>

\* A string_view or array_view of owner o, starting at address a.
MakeView(o, a) ==
    /\ "view" \in Ops
    /\ Idle
    /\ view = NoBlock
    /\ own[o] # NoBlock /\ a \in Cells(own[o])
    /\ view' = [of |-> o, addr |-> a]
    /\ UNCHANGED <<bumps, free, own, pc, hand, request, garbage, reloc, dest,
                   oom>>

DropView ==
    /\ Idle
    /\ view # NoBlock
    /\ view' = NoBlock
    /\ UNCHANGED <<bumps, free, own, pc, hand, request, garbage, reloc, dest,
                   oom>>

\* bump: permanent data of n granules, aligned to a, never below what the
\* overflow bump has handed out.
Bump(n, a) ==
    LET pos == RoundDown(permanentBump - n, a) IN
    /\ Idle
    /\ n <= permanentBump
    /\ pos >= overflowBump
    /\ permanentBump' = pos
    /\ oom' = NoBlock
    /\ UNCHANGED <<classBump, overflowBump, free, own, view, pc, hand, request,
                   garbage, reloc, dest>>

Reset ==
    /\ Idle
    /\ permanentBump' = HeapSize
    /\ classBump' = [c \in Classes |-> ClassBase(c)]
    /\ overflowBump' = OverflowBase
    /\ free' = {}
    /\ own' = [o \in Owners |-> NoBlock]
    /\ view' = NoBlock
    /\ oom' = NoBlock
    /\ UNCHANGED <<pc, hand, request, garbage, reloc, dest>>
----------------------------------------------------------------------------
Init ==
    /\ permanentBump = HeapSize
    /\ classBump = [c \in Classes |-> ClassBase(c)]
    /\ overflowBump = OverflowBase
    /\ free = {}
    /\ own = [o \in Owners |-> NoBlock]
    /\ view = NoBlock
    /\ pc = "idle"
    /\ hand = NoBlock
    /\ request = NoRequest
    /\ garbage = {}
    /\ reloc = NoReloc
    /\ dest = 0
    /\ oom = NoBlock

Attempt == TakeFreeBlock \/ BumpClassRegion \/ BumpOverflow \/ BeginSplit
           \/ SplitStep \/ EndSplit \/ Defragment
Sweep   == SweepNext \/ CoalesceUpper \/ CoalesceLower \/ PushFree \/ SweepEnds
Compact == CompactNothing \/ CompactSkips \/ CompactMove \/ CompactEnds

Next ==
    \/ \E o \in Owners, c \in Classes : Request(o, c)
    \/ \E o \in Owners, c \in Classes, f \in BOOLEAN : Grow(o, c, f)
    \/ Attempt
    \/ CollectAndRetry \/ CompactAndRetry \/ OutOfMemory
    \/ Collect
    \/ Sweep
    \/ Compact
    \/ \E o \in Owners : Shrink(o)
    \/ \E o \in Owners \ Growable, a \in Addrs : MakeView(o, a)
    \/ DropView
    \/ \E n \in PermSizes, a \in {1, Align} : Bump(n, a)
    \/ Reset

Spec == Init /\ [][Next]_vars

\* Maps that turn into hashed ones keep a slice across an allocation; these
\* steps are apart because they break LiveDisjoint.
HashNext == Next \/ \E o, p \in Owners, c \in Classes : HashRequest(o, p, c)

HashSpec == Init /\ [][HashNext]_vars

\* An operation that has started is carried on to its end.
RunsSpec == Spec /\ WF_vars(Attempt \/ CollectAndRetry \/ CompactAndRetry
                            \/ OutOfMemory \/ Sweep \/ Compact)
----------------------------------------------------------------------------
(* Properties.                                                             *)

RequestOK(r) ==
    /\ r.owner \in Owners \cup {NoBlock}
    /\ r.class \in Classes
    /\ r.stage \in 0 .. 3
    /\ r.freesOld \in BOOLEAN /\ r.packed \in BOOLEAN
    /\ r.kept # NoBlock => r.kept.owner \in Owners /\ r.kept.block \in Blocks

\* Bumps, addresses and classes stay within the heap that init laid out.
TypeOK ==
    /\ permanentBump \in 0 .. HeapSize
    /\ classBump \in [Classes -> 0 .. HeapSize]
    /\ overflowBump \in 0 .. HeapSize
    /\ free \subseteq Blocks
    /\ own \in [Owners -> Blocks \cup {NoBlock}]
    /\ view # NoBlock => view.of \in Owners /\ view.addr \in Addrs
    /\ pc \in {"idle", "attempt", "split", "sweep", "coalesce", "compact"}
    /\ hand \in Blocks \cup {NoBlock}
    /\ RequestOK(request)
    /\ garbage \subseteq Owners
    /\ reloc \in [Owners -> Addrs \cup {NoBlock}]
    /\ dest \in 0 .. HeapSize
    /\ oom \in Failures \cup {NoBlock}

\* Where owner o's data is: at its new address once compaction has copied it.
Place(o) == IF reloc[o] = NoBlock THEN own[o]
            ELSE [own[o] EXCEPT !.addr = reloc[o]]

\* The granules a bump can still hand out.
Unbumped ==
    (UNION {classBump[c] .. ClassEnd(c) - 1 : c \in Classes})
        \cup overflowBump .. permanentBump - 1

\* The data of two live slices never overlaps, also halfway through a
\* compaction: what assertNotLive can only sample.
LiveDisjoint ==
    \A o, p \in LiveOwners : o # p => Cells(Place(o)) \cap Cells(Place(p)) = {}

\* No granule can be handed out while it holds live data or permanent data, or
\* twice: the free lists, the block in hand, the bump regions and the live
\* slices share nothing. While compaction runs the free lists are void.
SpaceDisjoint ==
    pc # "compact" =>
        LET held == hand # NoBlock /\ pc \in {"split", "coalesce"}
            live == CellsOf(LiveBlocks)
            list == CellsOf(free)
            inHand == IF held THEN Cells(hand) ELSE {} IN
        /\ \A b, d \in free : b # d => Cells(b) \cap Cells(d) = {}
        /\ list \cap live = {}
        /\ inHand \cap (live \cup list) = {}
        /\ Unbumped \cap (live \cup list \cup inHand) = {}
        /\ live \cup list \cup inHand \subseteq 0 .. permanentBump - 1

\* A view follows its source: wherever growth of other owners and compaction
\* move blocks, its address is inside the block it was taken from.
ViewInsideSource ==
    view # NoBlock =>
        own[view.of] # NoBlock /\ view.addr \in Cells(own[view.of])

\* Compaction copies every block downwards and in address order, so that a
\* forward copy never overwrites what is still to be copied.
CopiesDown ==
    \A o \in LiveOwners : reloc[o] # NoBlock => reloc[o] <= own[o].addr

LiveSize == Cardinality(CellsOf(LiveBlocks))

\* An allocation fails only if the live data, packed together, really leaves no
\* room for it below the permanent data. Three cases are excepted: the class
\* regions of a partitioned heap, a heap without a single live slice, and a
\* compaction for whose table the host had no memory. That merging the free lists
\* may also have had none makes no difference.
OomIsReal ==
    oom # NoBlock /\ oom.packed /\ LiveOwners # {} =>
        permanentBump - Max({LiveSize, OverflowBase}) < ClassSize(oom.class)

\* Every allocation is answered: no loop of the allocator, of the sweep or of
\* compaction runs forever.
AllocationAnswers == (pc # "idle") ~> (pc = "idle")
----------------------------------------------------------------------------
(* What comments in heap.zig and vm_gc.zig say of compaction and the code   *)
(* does not do; each refuted by a configuration of its own.                *)

\* compactManagedHeap: "freeing all fragmented space as one large contiguous
\* block at the end", so that an allocation that fails after it had no room.
CompactionReclaimsAll ==
    oom # NoBlock /\ oom.packed => permanentBump - LiveSize < ClassSize(oom.class)

\* vmAllocManagedBytes: "Last resort: compact live managed data into a contiguous
\* region so that fragmentation caused by live objects between freed blocks is
\* eliminated", without exception.
LastResortPacks ==
    oom # NoBlock /\ LiveOwners # {} =>
        permanentBump - Max({LiveSize, OverflowBase}) < ClassSize(oom.class)
=============================================================================
