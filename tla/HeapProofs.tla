----------------------------- MODULE HeapProofs -----------------------------
(***************************************************************************)
(* The managed heap, for every heap size, alignment, number of classes and *)
(* set of owners: no granule is ever handed out twice, also halfway        *)
(* through splitting, coalescing, defragmentation and compaction; a view   *)
(* stays inside its source; and an allocation fails only when the live     *)
(* data leaves no room for it, or the host no memory for compaction.       *)
(***************************************************************************)
EXTENDS Heap, FiniteSetTheorems, TLAPS

----------------------------------------------------------------------------
(* Induction over an interval, by way of sets.                             *)

\* A nonempty set of naturals has a least element: an interval 0 .. x that no
\* other one of the set is strictly inside of.
LEMMA Least ==
    ASSUME NEW T \in SUBSET Nat, T # {}
    PROVE  \E x \in T : \A y \in T : x <= y
<1> DEFINE F == {0 .. x : x \in T}
           R == StrictSubsetOrdering(Nat)
           B == FiniteSubsetsOf(Nat)
<1>1. \A x \in T : 0 .. x \in B
  <2> SUFFICES ASSUME NEW x \in T PROVE 0 .. x \in B
    OBVIOUS
  <2>1. x \in Int /\ 0 \in Int
    OBVIOUS
  <2>2. IsFiniteSet(0 .. x)
    BY <2>1, FS_Interval
  <2> QED BY <2>2 DEF FiniteSubsetsOf
<1>2. F \subseteq B /\ F # {}
  BY <1>1
<1>3. IsWellFoundedOn(R, B)
  BY FS_StrictSubsetOrderingWellFounded
<1>4. \E s \in F : \A r \in F : ~(<<r, s>> \in R)
  <2> HIDE DEF F, R, B
  <2> QED BY <1>2, <1>3, WFMin
<1>5. PICK x \in T : \A y \in T : ~(<<0 .. y, 0 .. x>> \in R)
  BY <1>4
<1>6. ASSUME NEW y \in T, ~(x <= y) PROVE FALSE
  <2>1. 0 .. y \subseteq 0 .. x /\ 0 .. y # 0 .. x
    <3>1. x \in 0 .. x /\ x \notin 0 .. y
      BY <1>6
    <3> QED BY <3>1, <1>6
  <2>2. <<0 .. y, 0 .. x>> \in R
    BY <2>1, <1>1 DEF StrictSubsetOrdering
  <2> QED BY <1>5, <2>2
<1> QED BY <1>6

\* A nonempty bounded set of naturals has a greatest element, and Max is it.
LEMMA Greatest ==
    ASSUME NEW N \in Nat, NEW T \in SUBSET (0 .. N), T # {}
    PROVE  Max(T) \in T /\ \A y \in T : y <= Max(T)
<1> DEFINE U == {n \in Nat : N - n \in T}
<1>1. U \in SUBSET Nat /\ U # {}
  <2>1. PICK y \in T : TRUE
    OBVIOUS
  <2>2. N - y \in Nat /\ N - (N - y) = y
    BY <2>1
  <2>3. N - y \in U
    BY <2>1, <2>2
  <2> QED BY <2>3
<1>2. PICK x \in U : \A y \in U : x <= y
  <2> HIDE DEF U
  <2> QED BY <1>1, Least
<1>3. ASSUME NEW y \in T PROVE y <= N - x
  <2>1. N - y \in Nat /\ N - (N - y) = y
    OBVIOUS
  <2>2. N - y \in U
    BY <2>1
  <2>3. x <= N - y
    BY <1>2, <2>2
  <2> QED BY <2>3, <1>2
<1>4. \E m \in T : \A y \in T : m >= y
  <2>1. N - x \in T
    BY <1>2
  <2>2. \A y \in T : N - x >= y
    BY <1>2, <1>3
  <2> QED BY <2>1, <2>2
<1>5. Max(T) \in T /\ \A y \in T : Max(T) >= y
  BY <1>4 DEF Max
<1> QED BY <1>5

\* What holds of 0 and of n + 1 when it holds of n holds up to N.
LEMMA Reaches ==
    ASSUME NEW N \in Nat, NEW S, 0 \in S,
           \A n \in 0 .. (N - 1) : n \in S => n + 1 \in S
    PROVE  0 .. N \subseteq S
<1> DEFINE T == (0 .. N) \ S
<1> SUFFICES ASSUME T # {} PROVE FALSE
  OBVIOUS
<1>1. T \in SUBSET Nat
  OBVIOUS
<1>2. PICK x \in T : \A y \in T : x <= y
  <2> HIDE DEF T
  <2> QED
    BY <1>1, Least
<1>3. x # 0 /\ x - 1 \in 0 .. (N - 1)
  BY <1>2
<1>4. x - 1 \in S
  BY <1>2, <1>3
<1> QED
  BY <1>2, <1>3, <1>4
----------------------------------------------------------------------------
(* Alignment.                                                              *)

Aligned(x) == \E k \in Nat : x = k * Align

\* Zero, the alignment itself and sums of aligned addresses are aligned.
LEMMA AlignedSums ==
    /\ Aligned(0) /\ Aligned(Align)
    /\ \A x, y : Aligned(x) /\ Aligned(y) => Aligned(x + y)
<1> DEFINE A == Align
<1>0. A \in Nat \ {0}
  BY HeapAssumption
<1>1. Aligned(0) /\ Aligned(A)
  <2>1. 0 = 0 * A /\ A = 1 * A
    BY <1>0
  <2> QED BY <2>1 DEF Aligned
<1>2. ASSUME NEW x, NEW y, Aligned(x), Aligned(y) PROVE Aligned(x + y)
  <2>1. PICK k \in Nat : x = k * A
    BY <1>2 DEF Aligned
  <2>2. PICK l \in Nat : y = l * A
    BY <1>2 DEF Aligned
  <2>3. x + y = (k + l) * A
    BY <1>0, <2>1, <2>2
  <2>4. k + l \in Nat
    OBVIOUS
  <2> QED BY <2>3, <2>4 DEF Aligned
<1> QED BY <1>1, <1>2

\* Two aligned addresses are the same or a whole alignment apart.
LEMMA AlignedGap ==
    ASSUME NEW x, NEW y, Aligned(x), Aligned(y), x < y
    PROVE  x + Align <= y
<1> DEFINE A == Align
<1>0. A \in Nat \ {0}
  BY HeapAssumption
<1> HIDE DEF A
<1>1. PICK k \in Nat : x = k * A
  BY DEF Aligned, A
<1>2. PICK l \in Nat : y = l * A
  BY DEF Aligned, A
<1>3. k + 1 <= l
  <2> SUFFICES ASSUME l <= k PROVE FALSE
    OBVIOUS
  <2>1. l * A <= k * A
    BY <1>0
  <2>2. l * A \in Int /\ k * A \in Int
    BY <1>0
  <2> QED BY <2>1, <2>2, <1>1, <1>2
<1>4. (k + 1) * A <= l * A
  BY <1>0, <1>3
<1>5. (k + 1) * A = k * A + A
  BY <1>0
<1> QED BY <1>1, <1>2, <1>4, <1>5 DEF A

\* Rounding an aligned address up does not change it.
LEMMA RoundUpAligned ==
    ASSUME NEW x, Aligned(x)
    PROVE  RoundUp(x, Align) = x
<1> DEFINE A == Align
<1>0. A \in Nat \ {0}
  BY HeapAssumption
<1> HIDE DEF A
<1>1. PICK k \in Nat : x = k * A
  BY DEF Aligned, A
<1>2. (k * A + A - 1) \div A = k
  <2> DEFINE q == (k * A + A - 1) \div A
  <2>1. q \in Int /\ q * A <= k * A + A - 1 /\ k * A + A - 1 < q * A + A
    BY <1>0
  <2> HIDE DEF q
  <2>2. ~(q <= k - 1)
    <3> SUFFICES ASSUME q <= k - 1 PROVE FALSE
      OBVIOUS
    <3>1. q * A <= (k - 1) * A
      BY <1>0, <2>1
    <3>2. (k - 1) * A = k * A - A
      BY <1>0
    <3>3. q * A \in Int /\ k * A \in Int
      BY <1>0, <2>1
    <3> QED BY <1>0, <2>1, <3>1, <3>2, <3>3
  <2>3. ~(q >= k + 1)
    <3> SUFFICES ASSUME q >= k + 1 PROVE FALSE
      OBVIOUS
    <3>1. q * A >= (k + 1) * A
      BY <1>0, <2>1
    <3>2. (k + 1) * A = k * A + A
      BY <1>0
    <3>3. q * A \in Int /\ k * A \in Int
      BY <1>0, <2>1
    <3> QED BY <1>0, <2>1, <3>1, <3>2, <3>3
  <2> QED BY <2>1, <2>2, <2>3 DEF q
<1> QED BY <1>1, <1>2 DEF RoundUp, A

\* Rounding down never goes up.
LEMMA RoundDownBelow ==
    ASSUME NEW n \in Nat, NEW a \in Nat \ {0}
    PROVE  RoundDown(n, a) \in Nat /\ RoundDown(n, a) <= n
<1>1. n \div a \in Nat /\ (n \div a) * a <= n
  OBVIOUS
<1>2. (n \div a) * a \in Nat
  BY <1>1
<1> QED BY <1>1, <1>2 DEF RoundDown
----------------------------------------------------------------------------
(* The layout that init makes.                                             *)

\* A larger class is no smaller.
LEMMA PowersGrow ==
    \A c \in 0 .. ClassCount : \A d \in c .. ClassCount : 2^c <= 2^d
<1> SUFFICES ASSUME NEW c \in 0 .. ClassCount, NEW d \in c .. ClassCount
             PROVE  2^c <= 2^d
  OBVIOUS
<1> DEFINE N == ClassCount - c
           S == {n \in 0 .. N : 2^c <= 2^(c + n)}
<1>0. ClassCount \in Nat /\ N \in Nat
  BY HeapAssumption
<1>1. 0 \in S
  <2>1. c + 0 = c /\ 2^c \in Nat
    BY <1>0, PowersOfTwo
  <2> QED BY <1>0, <2>1
<1>2. ASSUME NEW n \in 0 .. (N - 1), n \in S PROVE n + 1 \in S
  <2>1. c + n \in Classes /\ c + (n + 1) = (c + n) + 1 /\ n + 1 \in 0 .. N
    BY <1>0 DEF Classes
  <2>2. 2^((c + n) + 1) = 2 * 2^(c + n)
    BY <2>1, PowersOfTwo
  <2>3. 2^(c + n) \in Nat /\ 2^c \in Nat
    BY <1>0, <2>1, PowersOfTwo DEF Classes
  <2>4. 2^c <= 2^(c + n)
    BY <1>2
  <2>5. 2^c <= 2^(c + (n + 1))
    BY <2>1, <2>2, <2>3, <2>4
  <2> QED BY <2>1, <2>5
<1>3. 0 .. N \subseteq S
  <2> HIDE DEF N, S
  <2> QED BY <1>0, <1>1, <1>2, Reaches
<1>4. d - c \in 0 .. N /\ c + (d - c) = d
  BY <1>0
<1>5. d - c \in S
  BY <1>3, <1>4
<1> QED BY <1>4, <1>5

\* A block of a class is twice as large as one of the class below; the smallest
\* is one alignment.
LEMMA Sizes ==
    /\ ClassCount \in Nat \ {0} /\ 0 \in Classes /\ ClassSize(0) = Align
    /\ \A c \in Classes :
          /\ c \in Nat /\ ClassSize(c) \in Nat \ {0} /\ Aligned(ClassSize(c))
          /\ c + 1 < ClassCount => /\ c + 1 \in Classes
                                   /\ ClassSize(c + 1) = ClassSize(c) + ClassSize(c)
          /\ c # 0 => /\ c - 1 \in Classes
                      /\ ClassSize(c) = ClassSize(c - 1) + ClassSize(c - 1)
<1>0. Align \in Nat \ {0} /\ ClassCount \in Nat \ {0}
  BY HeapAssumption
<1>1. 0 \in Classes /\ ClassSize(0) = Align
  BY <1>0, PowersOfTwo DEF Classes, ClassSize
<1>2. ASSUME NEW c \in Classes, c + 1 < ClassCount
      PROVE  c + 1 \in Classes /\ ClassSize(c + 1) = ClassSize(c) + ClassSize(c)
  <2>1. c + 1 \in Classes
    BY <1>0, <1>2 DEF Classes
  <2>2. 2^(c + 1) = 2 * 2^c /\ 2^c \in Nat
    BY <1>0, PowersOfTwo DEF Classes
  <2>3. \A k \in Nat : Align * (2 * k) = Align * k + Align * k
    BY <1>0
  <2>4. Align * 2^(c + 1) = Align * 2^c + Align * 2^c
    BY <2>2, <2>3
  <2> QED BY <2>1, <2>4 DEF ClassSize
<1>3. ASSUME NEW c \in Classes
      PROVE  c \in Nat /\ ClassSize(c) \in Nat \ {0} /\ Aligned(ClassSize(c))
  <2>1. c \in Nat /\ 2^c \in Nat \ {0}
    BY <1>0, PowersOfTwo DEF Classes
  <2>2. \A k \in Nat \ {0} : Align * k \in Nat \ {0} /\ Align * k = k * Align
    BY <1>0
  <2>3. Align * 2^c \in Nat \ {0} /\ Align * 2^c = 2^c * Align
    BY <2>1, <2>2
  <2> QED BY <2>1, <2>3 DEF ClassSize, Aligned
<1>4. ASSUME NEW c \in Classes, c # 0
      PROVE  c - 1 \in Classes /\ ClassSize(c) = ClassSize(c - 1) + ClassSize(c - 1)
  <2>1. c - 1 \in Classes /\ (c - 1) + 1 < ClassCount /\ (c - 1) + 1 = c
    BY <1>0, <1>4 DEF Classes
  <2>2. ClassSize((c - 1) + 1) = ClassSize(c - 1) + ClassSize(c - 1)
    BY <1>2, <2>1
  <2> QED BY <2>1, <2>2
<1> QED BY <1>0, <1>1, <1>2, <1>3, <1>4

\* The class regions lie side by side below the overflow region, on aligned
\* addresses.
LEMMA Regions ==
    /\ HeapSize \in Nat /\ OverflowBase \in 0 .. HeapSize /\ Aligned(OverflowBase)
    /\ \A c \in Classes :
          /\ ClassBase(c) \in Nat /\ ClassEnd(c) \in Nat
          /\ Aligned(ClassBase(c)) /\ Aligned(ClassEnd(c))
          /\ ClassBase(c) <= ClassEnd(c) /\ ClassEnd(c) <= OverflowBase
          /\ \A d \in Classes : d # c =>
                ClassEnd(c) <= ClassBase(d) \/ ClassEnd(d) <= ClassBase(c)
<1> DEFINE A == Align
           E(c) == A * (2^c - 1)
<1>0. A \in Nat \ {0} /\ HeapSize \in Nat /\ ClassCount \in Nat \ {0}
  BY HeapAssumption
<1>1. CASE ~Partitioned
  BY <1>0, <1>1, AlignedSums DEF OverflowBase, ClassBase, ClassEnd, Classes
<1>2. CASE Partitioned
  <2>1. \A k \in Nat \ {0} : A * (k - 1) \in Nat /\ A * (k - 1) = (k - 1) * A
                             /\ k - 1 \in Nat
    BY <1>0
  <2>2. \A c \in 0 .. ClassCount : E(c) \in Nat /\ Aligned(E(c))
    BY <2>1, PowersOfTwo DEF Aligned
  <2>3. \A k, l \in Nat \ {0} : k <= l => A * (k - 1) <= A * (l - 1)
    BY <1>0
  <2>4. ASSUME NEW c \in 0 .. ClassCount, NEW d \in c .. ClassCount
        PROVE  E(c) <= E(d)
    <3>1. c \in 0 .. ClassCount /\ d \in 0 .. ClassCount
      BY <1>0
    <3>2. 2^c \in Nat \ {0} /\ 2^d \in Nat \ {0} /\ 2^c <= 2^d
      BY <3>1, PowersOfTwo, PowersGrow
    <3> QED BY <2>3, <3>2
  <2>5. ASSUME NEW c \in Classes
        PROVE  /\ ClassBase(c) = E(c) /\ ClassEnd(c) = E(c + 1)
               /\ c \in 0 .. ClassCount /\ c + 1 \in 0 .. ClassCount
    <3>1. c \in 0 .. ClassCount /\ c + 1 \in 0 .. ClassCount
      BY <1>0 DEF Classes
    <3>2. 2^c \in Nat \ {0} /\ 2^(c + 1) = 2 * 2^c
      BY <3>1, PowersOfTwo
    <3>3. \A k \in Nat : A * (k - 1) + A * k = A * (2 * k - 1)
      BY <1>0
    <3>4. E(c) + A * 2^c = E(c + 1)
      BY <3>2, <3>3
    <3> QED BY <1>2, <3>1, <3>4 DEF ClassBase, ClassEnd, ClassSize
  <2>6. OverflowBase = E(ClassCount) /\ ClassCount \in 0 .. ClassCount
    BY <1>0, <1>2 DEF OverflowBase
  <2>7. E(ClassCount) <= HeapSize
    <3>1. 2 * A * (2^ClassCount - 1) + HeapSize \div 8 <= HeapSize
      BY <1>2 DEF Partitioned
    <3>2. 2^ClassCount \in Nat \ {0}
      BY <2>6, PowersOfTwo
    <3>3. \A k \in Nat \ {0} : 2 * A * (k - 1) = A * (k - 1) + A * (k - 1)
      BY <1>0
    <3>4. 2 * A * (2^ClassCount - 1) = E(ClassCount) + E(ClassCount)
      BY <3>2, <3>3
    <3>5. E(ClassCount) \in Nat
      BY <2>2, <2>6
    <3>6. HeapSize \div 8 \in Nat
      BY <1>0
    <3> HIDE DEF E
    <3> QED BY <1>0, <3>1, <3>4, <3>5, <3>6
  <2>8. ASSUME NEW c \in Classes, NEW d \in Classes, d # c
        PROVE  E(c + 1) <= E(d) \/ E(d + 1) <= E(c)
    <3>1. CASE c < d
      <4>1. c + 1 \in 0 .. ClassCount /\ d \in (c + 1) .. ClassCount
        BY <1>0, <3>1 DEF Classes
      <4> QED BY <2>4, <4>1
    <3>2. CASE d < c
      <4>1. d + 1 \in 0 .. ClassCount /\ c \in (d + 1) .. ClassCount
        BY <1>0, <3>2 DEF Classes
      <4> QED BY <2>4, <4>1
    <3> QED BY <2>8, <3>1, <3>2 DEF Classes
  <2>9. ASSUME NEW c \in Classes PROVE E(c) <= E(c + 1) /\ E(c + 1) <= E(ClassCount)
    <3>1. /\ c + 1 \in c .. ClassCount /\ ClassCount \in (c + 1) .. ClassCount
          /\ c + 1 \in 0 .. ClassCount /\ c \in 0 .. ClassCount
      BY <1>0 DEF Classes
    <3> QED BY <2>4, <3>1
  <2> HIDE DEF E
  <2>10. OverflowBase \in 0 .. HeapSize /\ Aligned(OverflowBase)
    BY <1>0, <2>2, <2>6, <2>7
  <2> QED BY <1>0, <2>2, <2>5, <2>6, <2>8, <2>9, <2>10
<1> QED BY <1>1, <1>2
----------------------------------------------------------------------------
(* The inductive invariant.                                                *)

\* The granules that the bumps have handed out.
Taken ==
    {x \in 0 .. overflowBump - 1 :
        \A c \in Classes : x < classBump[c] \/ ClassEnd(c) <= x}

Fits(b) == b \in Blocks /\ Aligned(b.addr) /\ Cells(b) \subseteq Taken

Disjoint(b, d) == Cells(b) \cap Cells(d) = {}

\* The bumps stay in their regions, and on aligned addresses.
BumpsInOrder ==
    /\ permanentBump \in 0 .. HeapSize
    /\ overflowBump \in OverflowBase .. permanentBump /\ Aligned(overflowBump)
    /\ classBump \in [Classes -> Nat]
    /\ \A c \in Classes : /\ classBump[c] \in ClassBase(c) .. ClassEnd(c)
                          /\ Aligned(classBump[c])

\* The blocks on the free lists share nothing.
FreeApart ==
    \A b \in free : Fits(b) /\ \A d \in free : d # b => Disjoint(b, d)

\* The blocks of owners share nothing with each other or with free ones.
OwnApart ==
    /\ own \in [Owners -> Blocks \cup {NoBlock}]
    /\ \A o \in LiveOwners :
          /\ Fits(own[o])
          /\ \A p \in LiveOwners : p # o => Disjoint(own[o], own[p])
          /\ \A b \in free : Disjoint(own[o], b)

\* The block being split or coalesced shares nothing with either.
HandApart ==
    IF pc \in {"split", "coalesce"}
    THEN /\ Fits(hand)
         /\ \A b \in free : Disjoint(hand, b)
         /\ \A o \in LiveOwners : Disjoint(hand, own[o])
    ELSE hand = NoBlock

\* Which requests a loop can find. The view's source cannot be replaced while an
\* allocation runs, and a collection after the compaction of the same
\* allocation does not happen.
Control ==
    /\ pc \in {"idle", "attempt", "split", "sweep", "coalesce", "compact"}
    /\ request = NoRequest \/
          /\ request \in [owner : Owners, class : Classes, stage : 1 .. 3,
                          freesOld : BOOLEAN, kept : {NoBlock}, packed : BOOLEAN]
          /\ view # NoBlock => request.owner # view.of
    /\ pc \in {"attempt", "split", "compact"} => request # NoRequest
    /\ pc = "idle" => request = NoRequest
    /\ pc \in {"sweep", "coalesce"} => request.stage # 3
    /\ pc = "split" => hand.class >= request.class
    /\ garbage \subseteq LiveOwners
    /\ pc \notin {"sweep", "coalesce"} => garbage = {}
    /\ view # NoBlock => view.of \in Owners \ (Growable \cup garbage)
    /\ view # NoBlock => view \in [of : Owners, addr : Nat]
    /\ oom \in Failures \cup {NoBlock}
    /\ pc # "idle" => oom = NoBlock

\* Compaction has packed the blocks it has moved without gaps from address 0 to
\* dest, none of them upwards, and the others lie above.
Packed ==
    /\ dest \in 0 .. overflowBump /\ Aligned(dest)
    /\ reloc \in [Owners -> Addrs \cup {NoBlock}]
    /\ \A o \in Owners : reloc[o] # NoBlock =>
          /\ own[o] # NoBlock
          /\ reloc[o] <= own[o].addr /\ Aligned(reloc[o])
          /\ reloc[o] + ClassSize(own[o].class) <= dest
          /\ \A p \in Owners : p # o /\ reloc[p] # NoBlock =>
                \/ reloc[o] + ClassSize(own[o].class) <= reloc[p]
                \/ reloc[p] + ClassSize(own[p].class) <= reloc[o]
    /\ \A o \in LiveOwners : reloc[o] = NoBlock => dest <= own[o].addr
    /\ \A x \in 0 .. dest - 1 : \E o \in Owners :
          reloc[o] # NoBlock /\ x \in reloc[o] .. reloc[o] + ClassSize(own[o].class) - 1
    /\ pc # "compact" => reloc = NoReloc /\ dest = 0

\* The last attempt of an allocation finds the live blocks packed, and nothing on
\* the free lists, if compaction had a table.
Repacked ==
    pc = "attempt" /\ request.stage = 3 /\ request.packed /\ LiveOwners # {} =>
        /\ free = {}
        /\ \E d \in 0 .. HeapSize :
              /\ CellsOf(LiveBlocks) = 0 .. d - 1
              /\ overflowBump = IF d > OverflowBase THEN d ELSE OverflowBase

HeapInv ==
    /\ BumpsInOrder /\ FreeApart /\ OwnApart /\ HandApart /\ Control
    /\ ViewInsideSource /\ Packed
----------------------------------------------------------------------------
(* Blocks and their granules.                                              *)

\* A block is a nonempty interval.
LEMMA BlockFacts ==
    ASSUME NEW b \in Blocks
    PROVE  /\ b.addr \in Nat /\ b.addr \in Addrs /\ b.class \in Classes
           /\ ClassSize(b.class) \in Nat \ {0}
           /\ End(b) = b.addr + ClassSize(b.class) /\ End(b) \in Nat /\ b.addr < End(b)
           /\ b.addr \in Cells(b) /\ End(b) - 1 \in Cells(b) /\ Cells(b) \subseteq Nat
           /\ \A x \in Int : x \in Cells(b) <=> b.addr <= x /\ x < End(b)
           /\ b = [addr |-> b.addr, class |-> b.class]
<1>1. b.addr \in Addrs /\ b.class \in Classes /\ b = [addr |-> b.addr, class |-> b.class]
  BY DEF Blocks
<1>2. ClassSize(b.class) \in Nat \ {0}
  BY <1>1, Sizes
<1>3. b.addr \in Nat
  BY <1>1, HeapAssumption DEF Addrs
<1> QED BY <1>1, <1>2, <1>3 DEF End, Cells

\* The block of a class at an address.
LEMMA BlockAt ==
    ASSUME NEW a \in Addrs, NEW c \in Classes
    PROVE  LET b == [addr |-> a, class |-> c] IN
           /\ b \in Blocks /\ b.addr = a /\ b.class = c
           /\ End(b) = a + ClassSize(c) /\ Cells(b) = a .. a + ClassSize(c) - 1
<1> DEFINE b == [addr |-> a, class |-> c]
<1>1. b \in Blocks /\ b.addr = a /\ b.class = c
  BY DEF Blocks
<1> HIDE DEF b
<1>2. End(b) = a + ClassSize(c)
  BY <1>1 DEF End
<1>3. Cells(b) = a .. a + ClassSize(c) - 1
  <2>1. a \in Nat /\ ClassSize(c) \in Nat
    BY HeapAssumption, Sizes DEF Addrs
  <2> QED BY <1>1, <1>2, <2>1 DEF Cells
<1> QED BY <1>1, <1>2, <1>3 DEF b

\* Two blocks share nothing exactly if one ends before the other starts.
LEMMA DisjointBlocks ==
    ASSUME NEW b \in Blocks, NEW d \in Blocks
    PROVE  Disjoint(b, d) <=> End(b) <= d.addr \/ End(d) <= b.addr
<1>1. /\ b.addr \in Int /\ End(b) \in Int /\ b.addr < End(b)
      /\ \A x \in Int : x \in Cells(b) <=> b.addr <= x /\ x < End(b)
      /\ Cells(b) \subseteq Int
  BY BlockFacts
<1>2. /\ d.addr \in Int /\ End(d) \in Int /\ d.addr < End(d)
      /\ \A x \in Int : x \in Cells(d) <=> d.addr <= x /\ x < End(d)
      /\ Cells(d) \subseteq Int
  BY BlockFacts
<1>3. ASSUME End(b) <= d.addr \/ End(d) <= b.addr PROVE Disjoint(b, d)
  BY <1>1, <1>2, <1>3 DEF Disjoint
<1>4. ASSUME ~(End(b) <= d.addr \/ End(d) <= b.addr) PROVE ~Disjoint(b, d)
  <2>1. CASE b.addr <= d.addr
    <3>1. d.addr \in Cells(b) /\ d.addr \in Cells(d)
      BY <1>1, <1>2, <1>4, <2>1
    <3> QED BY <3>1 DEF Disjoint
  <2>2. CASE d.addr <= b.addr
    <3>1. b.addr \in Cells(b) /\ b.addr \in Cells(d)
      BY <1>1, <1>2, <1>4, <2>2
    <3> QED BY <3>1 DEF Disjoint
  <2> QED BY <1>1, <1>2, <2>1, <2>2
<1> QED BY <1>3, <1>4

\* A block and its two halves.
Lower(a, c) == [addr |-> a, class |-> c]
Upper(a, c) == [addr |-> a + ClassSize(c), class |-> c]
Whole(a, c) == [addr |-> a, class |-> c + 1]

\* The halves of a block cover it and share nothing.
LEMMA Halves ==
    ASSUME NEW a \in Nat, NEW c \in Classes, c + 1 < ClassCount
    PROVE  /\ Cells(Whole(a, c)) = Cells(Lower(a, c)) \cup Cells(Upper(a, c))
           /\ Cells(Lower(a, c)) \cap Cells(Upper(a, c)) = {}
           /\ a + ClassSize(c) \in Cells(Whole(a, c))
<1>1. ClassSize(c) \in Nat \ {0} /\ ClassSize(c + 1) = ClassSize(c) + ClassSize(c)
  BY Sizes
<1>2. /\ Cells(Whole(a, c)) = a .. (a + ClassSize(c + 1)) - 1
      /\ Cells(Lower(a, c)) = a .. (a + ClassSize(c)) - 1
      /\ Cells(Upper(a, c)) = a + ClassSize(c) .. ((a + ClassSize(c)) + ClassSize(c)) - 1
  BY DEF Whole, Lower, Upper, Cells, End
<1> QED BY <1>1, <1>2

\* What the bumps have handed out lies below the permanent data.
LEMMA TakenBelow ==
    ASSUME BumpsInOrder
    PROVE  /\ Taken \subseteq 0 .. permanentBump - 1 /\ Taken \subseteq Addrs
           /\ Taken \cap Unbumped = {}
<1>1. /\ HeapSize \in Nat /\ permanentBump \in 0 .. HeapSize /\ overflowBump \in Nat
      /\ overflowBump <= permanentBump
  BY Regions DEF BumpsInOrder
<1>2. Taken \subseteq 0 .. permanentBump - 1 /\ Taken \subseteq Addrs
  BY <1>1 DEF Taken, Addrs
<1>3. ASSUME NEW x \in Taken, x \in Unbumped PROVE FALSE
  <2>1. x \in 0 .. overflowBump - 1 /\ \A c \in Classes : x < classBump[c] \/ ClassEnd(c) <= x
    BY DEF Taken
  <2>2. CASE x \in overflowBump .. permanentBump - 1
    BY <1>1, <2>1, <2>2
  <2>3. CASE x \in UNION {classBump[c] .. ClassEnd(c) - 1 : c \in Classes}
    <3>1. PICK c \in Classes : x \in classBump[c] .. ClassEnd(c) - 1
      BY <2>3, Zenon
    <3>2. classBump[c] \in Nat /\ ClassEnd(c) \in Nat
      BY Regions DEF BumpsInOrder
    <3> QED BY <2>1, <3>1, <3>2
  <2> QED BY <1>3, <2>2, <2>3 DEF Unbumped
<1> QED BY <1>2, <1>3

\* The halves of a block that fits do, and the block two such halves make.
LEMMA HalvesFit ==
    ASSUME BumpsInOrder, NEW a \in Nat, NEW c \in Classes, c + 1 < ClassCount
    PROVE  Fits(Whole(a, c)) <=> Fits(Lower(a, c)) /\ Fits(Upper(a, c))
<1> DEFINE L == Lower(a, c)
           U == Upper(a, c)
           W == Whole(a, c)
<1>1. /\ Cells(W) = Cells(L) \cup Cells(U) /\ a + ClassSize(c) \in Cells(W)
  BY Halves
<1>2. /\ W.addr = a /\ L.addr = a /\ U.addr = a + ClassSize(c)
      /\ c + 1 \in Classes /\ ClassSize(c) \in Nat \ {0} /\ Aligned(ClassSize(c))
  BY Sizes DEF Lower, Upper, Whole
<1>3. Taken \subseteq Addrs
  BY TakenBelow
<1>4. /\ W \in Blocks <=> a \in Addrs
      /\ L \in Blocks <=> a \in Addrs
      /\ U \in Blocks <=> a + ClassSize(c) \in Addrs
  BY <1>2 DEF Blocks, Lower, Upper, Whole
<1>5. Aligned(a) => Aligned(a + ClassSize(c))
  BY <1>2, AlignedSums
<1> HIDE DEF L, U, W
<1>6. Fits(W) <=> Fits(L) /\ Fits(U)
  BY <1>1, <1>2, <1>3, <1>4, <1>5 DEF Fits
<1> QED BY <1>6 DEF L, U, W
----------------------------------------------------------------------------
(* What the steps have in common.                                          *)

\* Disjoint does not depend on the order.
LEMMA DisjointSym == \A b, d : Disjoint(b, d) <=> Disjoint(d, b)
BY Zenon DEF Disjoint

\* A heap that no step of an operation touches stays in order.
LEMMA SameHeap ==
    ASSUME HeapInv, UNCHANGED <<bumps, free, own>>
    PROVE  /\ BumpsInOrder' /\ FreeApart' /\ OwnApart' /\ LiveOwners' = LiveOwners
           /\ Taken' = Taken
<1>1. /\ permanentBump' = permanentBump /\ classBump' = classBump
      /\ overflowBump' = overflowBump /\ free' = free /\ own' = own
  BY DEF bumps
<1>2. BumpsInOrder'
  BY <1>1 DEF HeapInv, BumpsInOrder
<1>3. Taken' = Taken /\ LiveOwners' = LiveOwners
  BY <1>1 DEF Taken, LiveOwners
<1>4. FreeApart'
  BY <1>1, <1>3 DEF HeapInv, FreeApart, Fits, Disjoint
<1>5. OwnApart'
  BY <1>1, <1>3 DEF HeapInv, OwnApart, Fits, Disjoint
<1> QED BY <1>2, <1>3, <1>4, <1>5

\* Nothing is packed while compaction does not run.
LEMMA NothingPacked ==
    ASSUME BumpsInOrder', reloc' = NoReloc, dest' = 0,
           own' \in [Owners -> Blocks \cup {NoBlock}]
    PROVE  Packed'
<1>1. overflowBump' \in Nat
  BY Regions DEF BumpsInOrder
<1>2. \A o \in Owners : reloc'[o] = NoBlock
  BY DEF NoReloc
<1>3. reloc' \in [Owners -> Addrs \cup {NoBlock}]
  BY DEF NoReloc
<1>4. \A o \in LiveOwners' : 0 <= own'[o].addr
  <2> SUFFICES ASSUME NEW o \in LiveOwners' PROVE 0 <= own'[o].addr
    OBVIOUS
  <2>1. own'[o] \in Blocks
    BY DEF LiveOwners
  <2> QED BY <2>1, BlockFacts
<1>5. \A x \in 0 .. dest' - 1 : FALSE
  OBVIOUS
<1>6. NoReloc' = NoReloc
  BY DEF NoReloc
<1> QED BY <1>1, <1>2, <1>3, <1>4, <1>5, <1>6, AlignedSums DEF Packed

\* The live owners of a heap in order hold blocks.
LEMMA LiveFacts ==
    ASSUME OwnApart
    PROVE  /\ \A o \in LiveOwners : /\ o \in Owners /\ own[o] \in Blocks /\ Fits(own[o])
                                    /\ own[o] # NoBlock
           /\ \A o \in Owners : own[o] # NoBlock <=> o \in LiveOwners
           /\ \A o \in Owners : own[o] = NoBlock \/ own[o] \in Blocks
BY DEF OwnApart, LiveOwners

\* A bump that moves up takes more.
LEMMA TakenGrows ==
    ASSUME BumpsInOrder, BumpsInOrder', overflowBump <= overflowBump',
           \A c \in Classes : classBump[c] <= classBump'[c]
    PROVE  Taken \subseteq Taken'
<1> SUFFICES ASSUME NEW x \in Taken PROVE x \in Taken'
  OBVIOUS
<1>1. x \in 0 .. overflowBump - 1 /\ \A c \in Classes : x < classBump[c] \/ ClassEnd(c) <= x
  BY DEF Taken
<1>2. overflowBump \in Nat /\ overflowBump' \in Nat
  BY Regions DEF BumpsInOrder
<1>3. ASSUME NEW c \in Classes PROVE x < classBump'[c] \/ ClassEnd(c) <= x
  <2>1. classBump[c] \in Nat /\ classBump'[c] \in Nat
    BY DEF BumpsInOrder
  <2> QED BY <1>1, <2>1
<1>4. x \in 0 .. overflowBump' - 1
  <2>1. \A m, n \in Nat : m <= n => 0 .. m - 1 \subseteq 0 .. n - 1
    OBVIOUS
  <2> QED BY <1>1, <1>2, <2>1
<1>5. \A c \in Classes : ClassEnd(c)' = ClassEnd(c)
  BY DEF ClassEnd
<1> QED BY <1>3, <1>4, <1>5 DEF Taken

\* No request is under way after NoRequest.
LEMMA NoRequestFacts ==
    /\ NoRequest.owner = NoBlock /\ NoRequest.stage = 0 /\ NoRequest.class = 0
    /\ NoRequest.freesOld = FALSE /\ NoRequest.kept = NoBlock /\ NoRequest.packed = TRUE
    /\ NoRequest' = NoRequest
BY DEF NoRequest

\* An allocation under way is of an owner, not of the view's source, and keeps
\* no slice.
LEMMA RequestFacts ==
    ASSUME Control, request # NoRequest
    PROVE  /\ request.owner \in Owners /\ request.class \in Classes
           /\ request.stage \in 1 .. 3 /\ request.kept = NoBlock
           /\ request.freesOld \in BOOLEAN /\ request.packed \in BOOLEAN
           /\ view # NoBlock => request.owner # view.of
BY DEF Control

\* Granting a block that nobody holds keeps the heap in order.
LEMMA GrantKeeps ==
    ASSUME HeapInv, BumpsInOrder', Taken \subseteq Taken', request # NoRequest,
           pc \in {"attempt", "split"}, free' \subseteq free,
           NEW b \in Blocks, Aligned(b.addr), Cells(b) \subseteq Taken', Grant(b),
           \A d \in free' : Disjoint(b, d),
           \A o \in LiveOwners : Disjoint(own[o], b)
    PROVE  HeapInv' /\ pc' # "attempt" /\ oom' = NoBlock
<1> DEFINE r == request.owner
<1>0. /\ BumpsInOrder /\ FreeApart /\ OwnApart /\ HandApart /\ Control
      /\ ViewInsideSource /\ Packed
  BY DEF HeapInv
<1>1. /\ r \in Owners /\ request.kept = NoBlock /\ request.freesOld \in BOOLEAN
      /\ view # NoBlock => r # view.of
  BY <1>0, RequestFacts
<1>2. /\ own' = [p \in Owners |-> IF p = r THEN b ELSE own[p]]
      /\ request' = NoRequest /\ oom' = NoBlock /\ view' = view
      /\ garbage' = garbage /\ reloc' = reloc /\ dest' = dest
  BY <1>1 DEF Grant
<1>3. \/ own[r] # NoBlock /\ pc' = "coalesce" /\ hand' = own[r]
      \/ pc' = "idle" /\ hand' = NoBlock
  BY DEF Grant
<1>4. own \in [Owners -> Blocks \cup {NoBlock}]
  BY <1>0 DEF OwnApart
<1>5. /\ own' \in [Owners -> Blocks \cup {NoBlock}] /\ own'[r] = b
      /\ \A p \in Owners : p # r => own'[p] = own[p]
  BY <1>1, <1>2, <1>4
<1>6. b # NoBlock
  BY NoBlockAssumption
<1>7. LiveOwners' = LiveOwners \cup {r}
  BY <1>1, <1>5, <1>6 DEF LiveOwners
<1>8. \A d : Fits(d) => d \in Blocks /\ Aligned(d.addr) /\ Cells(d) \subseteq Taken'
  BY DEF Fits
<1>9. FreeApart'
  BY <1>0, <1>8 DEF FreeApart, Fits, Disjoint
<1>10. /\ \A o \in LiveOwners : Fits(own[o]) /\ \A d \in free' : Disjoint(own[o], d)
       /\ \A o, p \in LiveOwners : o # p => Disjoint(own[o], own[p])
  BY <1>0 DEF OwnApart
<1>11. OwnApart'
  <2>1. ASSUME NEW o \in LiveOwners'
        PROVE  /\ own'[o] \in Blocks /\ Aligned(own'[o].addr) /\ Cells(own'[o]) \subseteq Taken'
               /\ \A p \in LiveOwners' : p # o => Disjoint(own'[o], own'[p])
               /\ \A d \in free' : Disjoint(own'[o], d)
    <3>1. CASE o = r
      <4>1. own'[o] = b
        BY <1>5, <3>1
      <4>2. ASSUME NEW p \in LiveOwners', p # o PROVE Disjoint(b, own'[p])
        <5>1. p \in LiveOwners /\ own'[p] = own[p]
          BY <1>5, <1>7, <3>1, <4>2 DEF LiveOwners
        <5> QED BY <5>1, DisjointSym
      <4> QED BY <4>1, <4>2
    <3>2. CASE o # r
      <4>1. o \in LiveOwners /\ own'[o] = own[o]
        BY <1>5, <1>7, <3>2 DEF LiveOwners
      <4>2. ASSUME NEW p \in LiveOwners', p # o PROVE Disjoint(own[o], own'[p])
        <5>1. CASE p = r
          BY <1>5, <4>1, <5>1
        <5>2. CASE p # r
          <6>1. p \in LiveOwners /\ own'[p] = own[p]
            BY <1>5, <1>7, <5>2 DEF LiveOwners
          <6> QED BY <1>10, <4>1, <4>2, <6>1
        <5> QED BY <5>1, <5>2
      <4> QED BY <1>8, <1>10, <4>1, <4>2
    <3> QED BY <3>1, <3>2
  <2> QED BY <1>5, <2>1 DEF OwnApart, Fits, Disjoint
<1>12. HandApart'
  <2>1. CASE pc' = "idle" /\ hand' = NoBlock
    BY <2>1 DEF HandApart
  <2>2. CASE own[r] # NoBlock /\ pc' = "coalesce" /\ hand' = own[r]
    <3>1. r \in LiveOwners
      BY <1>1, <2>2 DEF LiveOwners
    <3>2. own[r] \in Blocks /\ Aligned(own[r].addr) /\ Cells(own[r]) \subseteq Taken'
      BY <1>8, <1>10, <3>1
    <3>3. \A d \in free' : Disjoint(own[r], d)
      BY <1>10, <3>1
    <3>4. ASSUME NEW o \in LiveOwners' PROVE Disjoint(own[r], own'[o])
      <4>1. CASE o = r
        BY <1>5, <3>1, <4>1
      <4>2. CASE o # r
        <5>1. o \in LiveOwners /\ own'[o] = own[o]
          BY <1>5, <1>7, <4>2 DEF LiveOwners
        <5> QED BY <1>10, <3>1, <4>2, <5>1
      <4> QED BY <4>1, <4>2
    <3> QED BY <2>2, <3>2, <3>3, <3>4 DEF HandApart, Fits, Disjoint
  <2> QED BY <1>3, <2>1, <2>2
<1>13. Control'
  <2>1. garbage = {}
    BY <1>0 DEF Control
  <2>2. pc' \in {"coalesce", "idle"}
    BY <1>3
  <2>3. /\ view # NoBlock => view.of \in Owners \ (Growable \cup garbage)
        /\ view # NoBlock => view \in [of : Owners, addr : Nat]
    BY <1>0 DEF Control
  <2> QED BY <1>2, <2>1, <2>2, <2>3, NoRequestFacts DEF Control
<1>14. ViewInsideSource'
  <2> SUFFICES ASSUME view # NoBlock
               PROVE  own'[view.of] # NoBlock /\ view.addr \in Cells(own'[view.of])
    BY <1>2 DEF ViewInsideSource
  <2>1. view.of \in Owners /\ own[view.of] # NoBlock /\ view.addr \in Cells(own[view.of])
    BY <1>0 DEF Control, ViewInsideSource
  <2> QED BY <1>1, <1>5, <2>1
<1>15. Packed'
  <2>1. reloc' = NoReloc /\ dest' = 0
    BY <1>0, <1>2 DEF Packed
  <2> QED BY <1>5, <2>1, NothingPacked
<1> QED BY <1>2, <1>3, <1>9, <1>11, <1>12, <1>13, <1>14, <1>15 DEF HeapInv
----------------------------------------------------------------------------
(* allocBytesManaged.                                                      *)

HeapSafe == HeapInv /\ Repacked /\ OomIsReal

\* Only the last attempt of an allocation, and its failure, need the live blocks
\* to be packed.
LEMMA NotTheLastAttempt ==
    ASSUME HeapInv', pc' # "attempt" \/ request'.stage # 3, oom' = NoBlock
    PROVE  HeapSafe'
BY DEF HeapSafe, Repacked, OomIsReal

\* Bumps that stay where they are.
LEMMA SameBumps ==
    ASSUME BumpsInOrder, UNCHANGED bumps
    PROVE  BumpsInOrder' /\ Taken' = Taken
<1>1. /\ permanentBump' = permanentBump /\ classBump' = classBump
      /\ overflowBump' = overflowBump
  BY DEF bumps
<1> QED BY <1>1 DEF BumpsInOrder, Taken

\* The free list of the class.
LEMMA TakeFreeBlockStep ==
    ASSUME HeapSafe, TakeFreeBlock
    PROVE  HeapSafe'
<1>0. HeapInv /\ BumpsInOrder /\ FreeApart /\ OwnApart /\ Control
  BY DEF HeapSafe, HeapInv
<1>1. PICK b \in FreeOfClass(request.class) : free' = free \ {b} /\ Grant(b)
  BY DEF TakeFreeBlock
<1>2. b \in free /\ pc = "attempt" /\ UNCHANGED bumps
  BY <1>1 DEF FreeOfClass, TakeFreeBlock, Grant, bumps
<1>3. BumpsInOrder' /\ Taken' = Taken
  BY <1>0, <1>2, SameBumps
<1>4. Fits(b) /\ \A d \in free' : Disjoint(b, d)
  BY <1>0, <1>1, <1>2 DEF FreeApart
<1>5. b \in Blocks /\ Aligned(b.addr) /\ Cells(b) \subseteq Taken'
  BY <1>3, <1>4 DEF Fits
<1>6. \A o \in LiveOwners : Disjoint(own[o], b)
  BY <1>0, <1>2 DEF OwnApart
<1>7. request # NoRequest /\ free' \subseteq free
  BY <1>0, <1>1, <1>2 DEF Control
<1>8. HeapInv' /\ pc' # "attempt" /\ oom' = NoBlock
  BY <1>0, <1>1, <1>2, <1>3, <1>4, <1>5, <1>6, <1>7, GrantKeeps
<1> QED BY <1>8, NotTheLastAttempt

\* The free lists and the owners hold only what the bumps have handed out.
LEMMA FreshBlock ==
    ASSUME HeapInv, NEW b, Cells(b) \cap Taken = {}
    PROVE  /\ \A d \in free : Disjoint(b, d)
           /\ \A o \in LiveOwners : Disjoint(own[o], b)
<1>1. \A d \in free : Cells(d) \subseteq Taken
  BY DEF HeapInv, FreeApart, Fits
<1>2. \A o \in LiveOwners : Cells(own[o]) \subseteq Taken
  BY DEF HeapInv, OwnApart, Fits
<1> QED BY <1>1, <1>2 DEF Disjoint

\* The bump of the class region.
LEMMA BumpClassRegionStep ==
    ASSUME HeapSafe, BumpClassRegion
    PROVE  HeapSafe'
<1> DEFINE c == request.class
           p == classBump[c]
           s == ClassSize(c)
           b == [addr |-> p, class |-> c]
<1>0. HeapInv /\ BumpsInOrder /\ Control
  BY DEF HeapSafe, HeapInv
<1>1. /\ pc = "attempt" /\ ClassHasRoom(c) /\ Grant(b)
      /\ classBump' = [classBump EXCEPT ![c] = p + s]
      /\ overflowBump' = overflowBump /\ free' = free
  BY DEF BumpClassRegion
<1>2. request # NoRequest /\ permanentBump' = permanentBump
  BY <1>0, <1>1 DEF Control, Grant
<1>3. c \in Classes
  BY <1>0, <1>2, RequestFacts
<1>4. s \in Nat \ {0} /\ Aligned(s)
  BY <1>3, Sizes
<1>5. /\ p \in ClassBase(c) .. ClassEnd(c) /\ Aligned(p) /\ p + s <= ClassEnd(c)
      /\ classBump \in [Classes -> Nat]
  BY <1>0, <1>1, <1>3 DEF BumpsInOrder, ClassHasRoom
<1>6. /\ HeapSize \in Nat /\ OverflowBase \in 0 .. HeapSize
      /\ ClassBase(c) \in Nat /\ ClassEnd(c) \in Nat /\ ClassEnd(c) <= OverflowBase
      /\ \A d \in Classes : ClassBase(d) \in Nat /\ ClassEnd(d) \in Nat
      /\ \A d \in Classes : d # c => ClassEnd(c) <= ClassBase(d) \/ ClassEnd(d) <= ClassBase(c)
  BY <1>3, Regions
<1> HIDE DEF s, p
<1>7. b \in Blocks /\ b.addr = p /\ Cells(b) = p .. p + s - 1
  <2>1. p \in 0 .. HeapSize - 1
    BY <1>4, <1>5, <1>6
  <2> QED BY <1>3, <2>1, BlockAt DEF Addrs, s
<1>8. /\ classBump' \in [Classes -> Nat] /\ classBump'[c] = p + s
      /\ \A d \in Classes : d # c => classBump'[d] = classBump[d]
  <2>1. p + s \in Nat
    BY <1>4, <1>5, <1>6
  <2> HIDE DEF c
  <2> QED BY <1>1, <1>3, <1>5, <2>1
<1>9. Aligned(p + s)
  BY <1>4, <1>5, AlignedSums
<1>10. BumpsInOrder'
  <2>1. ASSUME NEW d \in Classes
        PROVE  classBump'[d] \in ClassBase(d) .. ClassEnd(d) /\ Aligned(classBump'[d])
    <3>1. CASE d = c
      BY <1>4, <1>5, <1>6, <1>8, <1>9, <3>1
    <3>2. CASE d # c
      BY <1>0, <1>8, <3>2 DEF BumpsInOrder
    <3> QED BY <3>1, <3>2
  <2>2. /\ permanentBump' \in 0 .. HeapSize
        /\ overflowBump' \in OverflowBase .. permanentBump' /\ Aligned(overflowBump')
    BY <1>0, <1>1, <1>2 DEF BumpsInOrder
  <2>3. \A d \in Classes : ClassBase(d)' = ClassBase(d) /\ ClassEnd(d)' = ClassEnd(d)
    BY DEF ClassBase, ClassEnd
  <2>4. OverflowBase' = OverflowBase
    BY DEF OverflowBase
  <2> QED BY <1>8, <2>1, <2>2, <2>3, <2>4 DEF BumpsInOrder
<1>11. Taken \subseteq Taken'
  <2>1. overflowBump <= overflowBump'
    BY <1>0, <1>1, <1>6 DEF BumpsInOrder
  <2>2. \A d \in Classes : classBump[d] <= classBump'[d]
    <3>1. \A d \in Classes : classBump[d] \in Nat
      BY <1>5
    <3>2. p \in Nat /\ p = classBump[c]
      BY <1>3, <1>5 DEF p
    <3> QED BY <1>4, <1>8, <3>1, <3>2
  <2> QED BY <1>0, <1>10, <2>1, <2>2, TakenGrows
<1>12. Cells(b) \subseteq Taken'
  <2> SUFFICES ASSUME NEW x \in p .. p + s - 1 PROVE x \in Taken'
    BY <1>7
  <2>1. ASSUME NEW d \in Classes PROVE x < classBump'[d] \/ ClassEnd(d) <= x
    <3>1. CASE d = c
      BY <1>4, <1>5, <1>6, <1>8, <3>1
    <3>2. CASE d # c
      <4>1. classBump'[d] = classBump[d] /\ classBump[d] \in Nat /\ ClassBase(d) <= classBump[d]
        BY <1>0, <1>5, <1>6, <1>8, <3>2 DEF BumpsInOrder
      <4>2. ClassEnd(c) <= ClassBase(d) \/ ClassEnd(d) <= ClassBase(c)
        BY <1>6, <3>2
      <4>3. ClassBase(d) \in Nat /\ ClassEnd(d) \in Nat
        BY <1>6
      <4> QED BY <1>4, <1>5, <1>6, <4>1, <4>2, <4>3
    <3> QED BY <3>1, <3>2
  <2>2. x \in 0 .. overflowBump' - 1
    <3>1. overflowBump' \in Nat /\ OverflowBase <= overflowBump'
      BY <1>0, <1>1, <1>6 DEF BumpsInOrder
    <3>2. x \in Nat /\ x < ClassEnd(c)
      BY <1>4, <1>5, <1>6
    <3>3. \A m, n, k \in Nat : x < m /\ m <= n /\ n <= k => x \in 0 .. k - 1
      BY <3>2
    <3>4. ClassEnd(c) \in Nat /\ OverflowBase \in Nat /\ ClassEnd(c) <= OverflowBase
      BY <1>6
    <3> HIDE DEF c
    <3> QED BY <3>1, <3>2, <3>3, <3>4
  <2>3. \A d \in Classes : ClassEnd(d)' = ClassEnd(d)
    BY DEF ClassEnd
  <2> QED BY <2>1, <2>2, <2>3 DEF Taken
<1>13. Cells(b) \cap Taken = {}
  <2> SUFFICES ASSUME NEW x \in p .. p + s - 1, x \in Taken PROVE FALSE
    BY <1>7
  <2>1. x < p \/ ClassEnd(c) <= x
    BY <1>3 DEF Taken, p
  <2> QED BY <1>4, <1>5, <1>6, <2>1
<1> HIDE DEF b
<1>14. /\ \A d \in free' : Disjoint(b, d)
       /\ \A o \in LiveOwners : Disjoint(own[o], b)
  BY <1>0, <1>1, <1>13, FreshBlock
<1>15. free' \subseteq free /\ Aligned(b.addr) /\ b \in Blocks
  BY <1>1, <1>5, <1>7
<1>16. HeapInv' /\ pc' # "attempt" /\ oom' = NoBlock
  BY <1>0, <1>1, <1>2, <1>10, <1>11, <1>12, <1>14, <1>15, GrantKeeps
<1> QED BY <1>16, NotTheLastAttempt

\* The overflow bump.
LEMMA BumpOverflowStep ==
    ASSUME HeapSafe, BumpOverflow
    PROVE  HeapSafe'
<1> DEFINE c == request.class
           p == overflowBump
           s == ClassSize(c)
           b == [addr |-> p, class |-> c]
<1>0. HeapInv /\ BumpsInOrder /\ Control
  BY DEF HeapSafe, HeapInv
<1>1. RoundUp(p, Align) = p
  BY <1>0, RoundUpAligned DEF BumpsInOrder
<1>2. /\ pc = "attempt" /\ p + s <= permanentBump /\ Grant(b)
      /\ overflowBump' = p + s /\ classBump' = classBump /\ free' = free
  BY <1>1 DEF BumpOverflow, OverflowHasRoom
<1>3. request # NoRequest /\ permanentBump' = permanentBump
  BY <1>0, <1>2 DEF Control, Grant
<1>4. c \in Classes
  BY <1>0, <1>3, RequestFacts
<1>5. s \in Nat \ {0} /\ Aligned(s)
  BY <1>4, Sizes
<1>6. /\ HeapSize \in Nat /\ OverflowBase \in 0 .. HeapSize
      /\ \A d \in Classes : ClassEnd(d) \in Nat /\ ClassEnd(d) <= OverflowBase
  BY Regions
<1>7. /\ p \in OverflowBase .. permanentBump /\ permanentBump \in 0 .. HeapSize
      /\ Aligned(p) /\ classBump \in [Classes -> Nat]
  BY <1>0 DEF BumpsInOrder
<1> HIDE DEF s
<1>8. b \in Blocks /\ b.addr = p /\ Cells(b) = p .. p + s - 1
  <2>1. p \in 0 .. HeapSize - 1
    BY <1>2, <1>5, <1>6, <1>7
  <2> QED BY <1>4, <2>1, BlockAt DEF Addrs, s
<1>9. Aligned(p + s)
  BY <1>5, <1>7, AlignedSums
<1>10. BumpsInOrder'
  <2>1. p + s \in OverflowBase .. permanentBump
    BY <1>2, <1>5, <1>6, <1>7
  <2>2. /\ \A d \in Classes : ClassBase(d)' = ClassBase(d) /\ ClassEnd(d)' = ClassEnd(d)
        /\ OverflowBase' = OverflowBase
    BY DEF ClassBase, ClassEnd, OverflowBase
  <2>3. \A d \in Classes : classBump[d] \in ClassBase(d) .. ClassEnd(d) /\ Aligned(classBump[d])
    BY <1>0 DEF BumpsInOrder
  <2> QED BY <1>2, <1>3, <1>7, <1>9, <2>1, <2>2, <2>3 DEF BumpsInOrder
<1>11. Taken \subseteq Taken'
  <2>1. overflowBump <= overflowBump'
    BY <1>2, <1>5, <1>6, <1>7
  <2>2. \A d \in Classes : classBump[d] <= classBump'[d]
    BY <1>2, <1>7
  <2> QED BY <1>0, <1>10, <2>1, <2>2, TakenGrows
<1>12. Cells(b) \subseteq Taken'
  <2> SUFFICES ASSUME NEW x \in p .. p + s - 1 PROVE x \in Taken'
    BY <1>8
  <2>1. \A d \in Classes : ClassEnd(d) <= x
    BY <1>5, <1>6, <1>7
  <2>2. x \in 0 .. overflowBump' - 1
    BY <1>2, <1>5, <1>6, <1>7
  <2>3. \A d \in Classes : ClassEnd(d)' = ClassEnd(d)
    BY DEF ClassEnd
  <2> QED BY <2>1, <2>2, <2>3 DEF Taken
<1>13. Cells(b) \cap Taken = {}
  <2> SUFFICES ASSUME NEW x \in p .. p + s - 1, x \in Taken PROVE FALSE
    BY <1>8
  <2>1. x < p
    BY <1>6, <1>7 DEF Taken
  <2> QED BY <1>5, <1>6, <1>7, <2>1
<1> HIDE DEF b
<1>14. /\ \A d \in free' : Disjoint(b, d)
       /\ \A o \in LiveOwners : Disjoint(own[o], b)
  BY <1>0, <1>2, <1>13, FreshBlock
<1>15. free' \subseteq free /\ Aligned(b.addr) /\ b \in Blocks
  BY <1>2, <1>7, <1>8
<1>16. HeapInv' /\ pc' # "attempt" /\ oom' = NoBlock
  BY <1>0, <1>2, <1>3, <1>10, <1>11, <1>12, <1>14, <1>15, GrantKeeps
<1> QED BY <1>16, NotTheLastAttempt
----------------------------------------------------------------------------
(* Steps that rearrange the free lists: splitting, coalescing, merging.    *)

\* Free blocks that fit, and share nothing with each other or with owners, may
\* replace those of the lists.
LEMMA Reshape ==
    ASSUME HeapInv, UNCHANGED <<bumps, own, view, reloc, dest>>,
           pc # "compact", HandApart', Control',
           \A b \in free' : Fits(b) /\ \A d \in free' : d # b => Disjoint(b, d),
           \A b \in free' : \A o \in LiveOwners : Disjoint(own[o], b)
    PROVE  HeapInv'
<1>0. BumpsInOrder /\ OwnApart /\ ViewInsideSource /\ Packed /\ Control
  BY DEF HeapInv
<1>1. own' = own /\ view' = view /\ reloc' = reloc /\ dest' = dest
  OBVIOUS
<1>2. BumpsInOrder' /\ Taken' = Taken
  BY <1>0, SameBumps
<1>3. LiveOwners' = LiveOwners
  BY <1>1 DEF LiveOwners
<1>4. FreeApart'
  BY <1>2 DEF FreeApart, Fits, Disjoint
<1>5. OwnApart'
  BY <1>0, <1>1, <1>2, <1>3 DEF OwnApart, Fits, Disjoint
<1>6. ViewInsideSource'
  BY <1>0, <1>1 DEF ViewInsideSource
<1>7. Packed'
  <2>1. reloc' = NoReloc /\ dest' = 0
    BY <1>0, <1>1 DEF Packed
  <2>2. own' \in [Owners -> Blocks \cup {NoBlock}]
    BY <1>0, <1>1 DEF OwnApart
  <2> QED BY <1>2, <2>1, <2>2, NothingPacked
<1> QED BY <1>2, <1>4, <1>5, <1>6, <1>7 DEF HeapInv

\* The block in hand, apart from the rest.
LEMMA HandFacts ==
    ASSUME HeapInv, pc \in {"split", "coalesce"}
    PROVE  /\ Fits(hand) /\ hand \in Blocks /\ hand.addr \in Nat /\ hand.class \in Classes
           /\ hand = [addr |-> hand.addr, class |-> hand.class]
           /\ \A b \in free : Cells(hand) \cap Cells(b) = {}
           /\ \A o \in LiveOwners : Cells(hand) \cap Cells(own[o]) = {}
           /\ oom = NoBlock /\ BumpsInOrder
<1>1. /\ Fits(hand) /\ \A b \in free : Disjoint(hand, b)
      /\ \A o \in LiveOwners : Disjoint(hand, own[o])
  BY DEF HeapInv, HandApart
<1>2. hand \in Blocks
  BY <1>1 DEF Fits
<1>3. oom = NoBlock /\ BumpsInOrder
  BY DEF HeapInv, Control
<1> QED BY <1>1, <1>2, <1>3, BlockFacts DEF Disjoint

\* The blocks on the free lists, apart from the rest.
LEMMA FreeFacts ==
    ASSUME HeapInv
    PROVE  /\ \A b \in free : Fits(b) /\ b \in Blocks
           /\ \A b, d \in free : b # d => Cells(b) \cap Cells(d) = {}
           /\ \A b \in free : \A o \in LiveOwners : Cells(b) \cap Cells(own[o]) = {}
<1>1. \A b \in free : Fits(b) /\ \A d \in free : d # b => Disjoint(b, d)
  BY DEF HeapInv, FreeApart
<1>2. \A b \in free : \A o \in LiveOwners : Disjoint(own[o], b)
  BY DEF HeapInv, OwnApart
<1> QED BY <1>1, <1>2 DEF Disjoint, Fits

\* splitLargerFreeBlock takes a block from the lists.
LEMMA BeginSplitStep ==
    ASSUME HeapSafe, BeginSplit
    PROVE  HeapSafe'
<1>0. HeapInv /\ Control
  BY DEF HeapSafe, HeapInv
<1>1. PICK b \in LargerFree(request.class) : hand' = b /\ free' = free \ {b}
  BY DEF BeginSplit
<1>2. /\ pc = "attempt" /\ pc' = "split"
      /\ UNCHANGED <<bumps, own, view, reloc, dest>>
      /\ request' = request /\ garbage' = garbage /\ oom' = oom /\ own' = own /\ view' = view
  BY DEF BeginSplit
<1>3. b \in free /\ b.class > request.class
  BY <1>1 DEF LargerFree
<1>4. LiveOwners' = LiveOwners /\ Taken' = Taken
  BY <1>0, <1>2, SameBumps DEF LiveOwners, HeapInv
<1>5. /\ b \in Blocks /\ Aligned(b.addr) /\ Cells(b) \subseteq Taken
      /\ \A d \in free : d # b => Disjoint(b, d)
      /\ \A o \in LiveOwners : Disjoint(b, own[o])
  BY <1>0, <1>3, FreeFacts DEF Fits, Disjoint
<1>6. HandApart'
  BY <1>1, <1>2, <1>4, <1>5 DEF HandApart, Fits, Disjoint
<1>7. request # NoRequest /\ request.class \in Classes
  BY <1>0, <1>2, RequestFacts DEF Control
<1>8. b.class >= request.class
  <2>1. b.class \in Classes
    BY <1>5, BlockFacts
  <2>2. b.class \in Int /\ request.class \in Int
    BY <2>1, <1>7, HeapAssumption DEF Classes
  <2> QED BY <1>3, <2>2
<1>9. Control'
  BY <1>0, <1>1, <1>2, <1>4, <1>7, <1>8, NoRequestFacts DEF Control
<1>10. \A d \in free' : Fits(d) /\ \A e \in free' : e # d => Disjoint(d, e)
  BY <1>0, <1>1, FreeFacts DEF Disjoint
<1>11. \A d \in free' : \A o \in LiveOwners : Disjoint(own[o], d)
  BY <1>0, <1>1, FreeFacts DEF Disjoint
<1>12. pc # "compact" /\ pc' # "attempt"
  BY <1>2
<1>13. HeapInv'
  BY <1>0, <1>2, <1>6, <1>9, <1>10, <1>11, <1>12, Reshape
<1>14. oom' = NoBlock
  BY <1>0, <1>2 DEF Control
<1> QED BY <1>12, <1>13, <1>14, NotTheLastAttempt

\* It puts the upper half on a list and goes on with the lower one.
LEMMA SplitStepStep ==
    ASSUME HeapSafe, SplitStep
    PROVE  HeapSafe'
<1> DEFINE a == hand.addr
           c == hand.class - 1
           L == Lower(a, c)
           U == Upper(a, c)
<1>0. HeapInv /\ Control
  BY DEF HeapSafe, HeapInv
<1>1. /\ pc = "split" /\ hand.class > request.class
      /\ free' = free \cup {U} /\ hand' = L
      /\ UNCHANGED <<bumps, own, view, reloc, dest>>
      /\ request' = request /\ garbage' = garbage /\ oom' = oom
      /\ own' = own /\ view' = view /\ pc' = pc
  BY DEF SplitStep, Lower, Upper
<1>2. request # NoRequest /\ request.class \in Classes
  BY <1>0, <1>1, RequestFacts DEF Control
<1>3. /\ Fits(hand) /\ a \in Nat /\ hand.class \in Classes
      /\ hand = [addr |-> hand.addr, class |-> hand.class]
      /\ \A b \in free : Cells(hand) \cap Cells(b) = {}
      /\ \A o \in LiveOwners : Cells(hand) \cap Cells(own[o]) = {}
      /\ oom = NoBlock /\ BumpsInOrder
  BY <1>0, <1>1, HandFacts
<1>4. c \in Classes /\ c + 1 = hand.class /\ c + 1 < ClassCount /\ c >= request.class
  BY <1>1, <1>2, <1>3, HeapAssumption DEF Classes
<1>5. hand = Whole(a, c)
  BY <1>3, <1>4 DEF Whole
<1> HIDE DEF c
<1>6. /\ Cells(hand) = Cells(L) \cup Cells(U) /\ Cells(L) \cap Cells(U) = {}
  BY <1>3, <1>4, <1>5, Halves
<1>7. Fits(L) /\ Fits(U)
  BY <1>3, <1>4, <1>5, HalvesFit
<1>8. L.class = c
  BY DEF Lower
<1> HIDE DEF L, U
<1>9. LiveOwners' = LiveOwners /\ Taken' = Taken
  BY <1>1, <1>3, SameBumps DEF LiveOwners
<1>10. HandApart'
  <2>1. L \in Blocks /\ Aligned(L.addr) /\ Cells(L) \subseteq Taken'
    BY <1>7, <1>9 DEF Fits
  <2>2. \A b \in free' : Disjoint(L, b)
    BY <1>1, <1>3, <1>6 DEF Disjoint
  <2>3. \A o \in LiveOwners : Disjoint(L, own[o])
    BY <1>3, <1>6 DEF Disjoint
  <2> QED BY <1>1, <1>9, <2>1, <2>2, <2>3 DEF HandApart, Fits, Disjoint
<1>11. Control'
  BY <1>0, <1>1, <1>2, <1>4, <1>8, <1>9, NoRequestFacts DEF Control
<1>12. ASSUME NEW b \in free'
       PROVE  Fits(b) /\ \A d \in free' : d # b => Disjoint(b, d)
  BY <1>0, <1>1, <1>3, <1>6, <1>7, FreeFacts DEF Disjoint
<1>13. \A b \in free' : \A o \in LiveOwners : Disjoint(own[o], b)
  BY <1>0, <1>1, <1>3, <1>6, FreeFacts DEF Disjoint
<1>14. pc # "compact" /\ pc' # "attempt" /\ oom' = NoBlock
  BY <1>1, <1>3
<1>15. HeapInv'
  BY <1>0, <1>1, <1>10, <1>11, <1>12, <1>13, <1>14, Reshape
<1> QED BY <1>14, <1>15, NotTheLastAttempt

\* The block that is small enough is granted.
LEMMA EndSplitStep ==
    ASSUME HeapSafe, EndSplit
    PROVE  HeapSafe'
<1>0. HeapInv /\ Control
  BY DEF HeapSafe, HeapInv
<1>1. /\ pc = "split" /\ Grant(hand) /\ UNCHANGED bumps /\ free' = free
  BY DEF EndSplit, Grant, bumps
<1>2. /\ Fits(hand) /\ \A b \in free : Cells(hand) \cap Cells(b) = {}
      /\ \A o \in LiveOwners : Cells(hand) \cap Cells(own[o]) = {}
      /\ BumpsInOrder
  BY <1>0, <1>1, HandFacts
<1>3. BumpsInOrder' /\ Taken' = Taken
  BY <1>1, <1>2, SameBumps
<1>4. hand \in Blocks /\ Aligned(hand.addr) /\ Cells(hand) \subseteq Taken'
  BY <1>2, <1>3 DEF Fits
<1>5. /\ \A b \in free' : Disjoint(hand, b)
      /\ \A o \in LiveOwners : Disjoint(own[o], hand)
  BY <1>1, <1>2 DEF Disjoint
<1>6. request # NoRequest
  BY <1>0, <1>1 DEF Control
<1>7. HeapInv' /\ pc' # "attempt" /\ oom' = NoBlock
  BY <1>0, <1>1, <1>3, <1>4, <1>5, <1>6, GrantKeeps
<1> QED BY <1>7, NotTheLastAttempt
----------------------------------------------------------------------------
(* freeBytesManaged and the sweep.                                         *)

\* A block in hand may swallow a neighbour from the lists.
LEMMA CoalesceKeeps ==
    ASSUME HeapInv, pc = "coalesce", NEW b \in free, NEW w,
           Fits(w), Cells(w) = Cells(hand) \cup Cells(b),
           free' = free \ {b}, hand' = w,
           UNCHANGED <<bumps, own, view, pc, request, garbage, reloc, dest, oom>>
    PROVE  HeapSafe'
<1>0. Control
  BY DEF HeapInv
<1>1. /\ UNCHANGED <<bumps, own, view, reloc, dest>>
      /\ request' = request /\ garbage' = garbage /\ oom' = oom
      /\ own' = own /\ view' = view /\ pc' = pc
  OBVIOUS
<1>2. /\ \A d \in free : Cells(hand) \cap Cells(d) = {}
      /\ \A o \in LiveOwners : Cells(hand) \cap Cells(own[o]) = {}
      /\ oom = NoBlock /\ BumpsInOrder
  BY HandFacts
<1>3. /\ \A d \in free : Fits(d) /\ d \in Blocks
      /\ \A d, e \in free : d # e => Cells(d) \cap Cells(e) = {}
      /\ \A d \in free : \A o \in LiveOwners : Cells(d) \cap Cells(own[o]) = {}
  BY FreeFacts
<1>4. LiveOwners' = LiveOwners /\ Taken' = Taken
  BY <1>1, <1>2, SameBumps DEF LiveOwners
<1>5. HandApart'
  <2>1. w \in Blocks /\ Aligned(w.addr) /\ Cells(w) \subseteq Taken'
    BY <1>4 DEF Fits
  <2>2. \A d \in free' : Disjoint(w, d)
    BY <1>2, <1>3 DEF Disjoint
  <2>3. \A o \in LiveOwners : Disjoint(w, own[o])
    BY <1>2, <1>3 DEF Disjoint
  <2> QED BY <1>1, <1>4, <2>1, <2>2, <2>3 DEF HandApart, Fits, Disjoint
<1>6. Control'
  BY <1>0, <1>1, <1>4, NoRequestFacts DEF Control
<1>7. \A d \in free' : Fits(d) /\ \A e \in free' : e # d => Disjoint(d, e)
  BY <1>3 DEF Disjoint
<1>8. \A d \in free' : \A o \in LiveOwners : Disjoint(own[o], d)
  BY <1>3 DEF Disjoint
<1>9. pc # "compact" /\ pc' # "attempt" /\ oom' = NoBlock
  BY <1>1, <1>2
<1>10. HeapInv'
  BY <1>1, <1>5, <1>6, <1>7, <1>8, <1>9, Reshape
<1> QED BY <1>9, <1>10, NotTheLastAttempt

\* The neighbour above.
LEMMA CoalesceUpperStep ==
    ASSUME HeapSafe, CoalesceUpper
    PROVE  HeapSafe'
<1> DEFINE a == hand.addr
           c == hand.class
           b == UpperBuddy(hand)
<1>0. HeapInv
  BY DEF HeapSafe
<1>1. /\ pc = "coalesce" /\ c + 1 < ClassCount /\ b \in free
      /\ free' = free \ {b} /\ hand' = Whole(a, c)
      /\ UNCHANGED <<bumps, own, view, pc, request, garbage, reloc, dest, oom>>
  BY DEF CoalesceUpper, MayGrow, Whole
<1>2. /\ Fits(hand) /\ a \in Nat /\ c \in Classes /\ BumpsInOrder
      /\ hand = [addr |-> a, class |-> c] /\ hand \in Blocks
  BY <1>0, <1>1, HandFacts
<1>3. hand = Lower(a, c) /\ b = Upper(a, c)
  BY <1>2, BlockFacts DEF Lower, Upper, UpperBuddy
<1>4. Fits(b)
  BY <1>0, <1>1, FreeFacts
<1>5. Fits(Whole(a, c)) /\ Cells(Whole(a, c)) = Cells(hand) \cup Cells(b)
  BY <1>1, <1>2, <1>3, <1>4, Halves, HalvesFit
<1> HIDE DEF b
<1> QED BY <1>0, <1>1, <1>5, CoalesceKeeps

\* The neighbour below.
LEMMA CoalesceLowerStep ==
    ASSUME HeapSafe, CoalesceLower
    PROVE  HeapSafe'
<1> DEFINE c == hand.class
           b == LowerBuddy(hand)
           a == b.addr
<1>0. HeapInv
  BY DEF HeapSafe
<1>1. /\ pc = "coalesce" /\ c + 1 < ClassCount /\ b \in free
      /\ free' = free \ {b} /\ hand' = Whole(a, c)
      /\ UNCHANGED <<bumps, own, view, pc, request, garbage, reloc, dest, oom>>
  BY DEF CoalesceLower, MayGrow, Whole
<1>2. /\ Fits(hand) /\ hand.addr \in Nat /\ c \in Classes /\ BumpsInOrder
      /\ hand = [addr |-> hand.addr, class |-> c] /\ hand \in Blocks
  BY <1>0, <1>1, HandFacts
<1>3. b \in Blocks /\ Fits(b)
  BY <1>0, <1>1, FreeFacts
<1>4. a \in Nat /\ b = [addr |-> a, class |-> b.class]
  BY <1>3, BlockFacts
<1>5. b.class = c /\ a = hand.addr - ClassSize(c)
  BY DEF LowerBuddy
<1>6. a + ClassSize(c) = hand.addr
  BY <1>2, <1>5, Sizes
<1> HIDE DEF a, b
<1>7. b = Lower(a, c) /\ hand = Upper(a, c)
  BY <1>2, <1>4, <1>5, <1>6 DEF Lower, Upper
<1>8. Fits(Whole(a, c)) /\ Cells(Whole(a, c)) = Cells(hand) \cup Cells(b)
  BY <1>1, <1>2, <1>3, <1>4, <1>7, Halves, HalvesFit
<1> QED BY <1>0, <1>1, <1>8, CoalesceKeeps

\* A block that no neighbour joins goes on its list.
LEMMA PushFreeStep ==
    ASSUME HeapSafe, PushFree
    PROVE  HeapSafe'
<1>0. HeapInv /\ Control
  BY DEF HeapSafe, HeapInv
<1>1. /\ pc = "coalesce" /\ free' = free \cup {hand} /\ hand' = NoBlock /\ pc' = "sweep"
      /\ UNCHANGED <<bumps, own, view, reloc, dest>>
      /\ request' = request /\ garbage' = garbage /\ oom' = oom
      /\ own' = own /\ view' = view
  BY DEF PushFree
<1>2. /\ Fits(hand) /\ \A d \in free : Cells(hand) \cap Cells(d) = {}
      /\ \A o \in LiveOwners : Cells(hand) \cap Cells(own[o]) = {}
      /\ oom = NoBlock
  BY <1>0, <1>1, HandFacts
<1>3. LiveOwners' = LiveOwners
  BY <1>1 DEF LiveOwners
<1>4. HandApart'
  BY <1>1 DEF HandApart
<1>5. Control'
  BY <1>0, <1>1, <1>3, NoRequestFacts DEF Control
<1>6. \A d \in free' : Fits(d) /\ \A e \in free' : e # d => Disjoint(d, e)
  BY <1>0, <1>1, <1>2, FreeFacts DEF Disjoint
<1>7. \A d \in free' : \A o \in LiveOwners : Disjoint(own[o], d)
  BY <1>0, <1>1, <1>2, FreeFacts DEF Disjoint
<1>8. pc # "compact" /\ pc' # "attempt" /\ oom' = NoBlock
  BY <1>1, <1>2
<1>9. HeapInv'
  BY <1>0, <1>1, <1>4, <1>5, <1>6, <1>7, <1>8, Reshape
<1> QED BY <1>8, <1>9, NotTheLastAttempt

\* The sweep takes the block of a dead owner.
LEMMA SweepNextStep ==
    ASSUME HeapSafe, SweepNext
    PROVE  HeapSafe'
<1>0. HeapInv /\ BumpsInOrder /\ Control /\ OwnApart /\ ViewInsideSource /\ Packed
  BY DEF HeapSafe, HeapInv
<1>1. PICK o \in garbage : /\ hand' = own[o] /\ own' = [own EXCEPT ![o] = NoBlock]
                           /\ garbage' = garbage \ {o}
  BY DEF SweepNext
<1>2. /\ pc = "sweep" /\ pc' = "coalesce" /\ UNCHANGED bumps
      /\ free' = free /\ view' = view /\ request' = request /\ reloc' = reloc
      /\ dest' = dest /\ oom' = oom
  BY DEF SweepNext
<1>3. o \in LiveOwners /\ garbage \subseteq LiveOwners
  BY <1>0, <1>1 DEF Control
<1>4. /\ o \in Owners /\ own[o] \in Blocks /\ Fits(own[o])
      /\ own \in [Owners -> Blocks \cup {NoBlock}]
      /\ \A p \in LiveOwners : Fits(own[p])
      /\ \A p \in LiveOwners : p # o => Disjoint(own[o], own[p])
      /\ \A p, q \in LiveOwners : p # q => Disjoint(own[p], own[q])
      /\ \A p \in LiveOwners : \A d \in free : Disjoint(own[p], d)
  BY <1>0, <1>3, LiveFacts DEF OwnApart
<1>5. /\ own' \in [Owners -> Blocks \cup {NoBlock}]
      /\ own'[o] = NoBlock /\ \A p \in Owners : p # o => own'[p] = own[p]
  BY <1>1, <1>4
<1>6. LiveOwners' = LiveOwners \ {o}
  BY <1>4, <1>5 DEF LiveOwners
<1>7. \A p \in LiveOwners' : p \in LiveOwners /\ p # o /\ own'[p] = own[p]
  BY <1>5, <1>6 DEF LiveOwners
<1>8. BumpsInOrder' /\ Taken' = Taken
  BY <1>0, <1>2, SameBumps
<1>9. FreeApart'
  BY <1>0, <1>2, <1>8 DEF HeapInv, FreeApart, Fits, Disjoint
<1>10. OwnApart'
  BY <1>2, <1>4, <1>5, <1>7, <1>8 DEF OwnApart, Fits, Disjoint
<1>11. HandApart'
  <2>1. \A d \in free' : Disjoint(own[o], d)
    BY <1>2, <1>3, <1>4
  <2>2. \A p \in LiveOwners' : Disjoint(own[o], own'[p])
    BY <1>4, <1>7
  <2> QED BY <1>1, <1>2, <1>4, <1>8, <2>1, <2>2 DEF HandApart, Fits, Disjoint
<1>12. Control'
  <2>1. garbage' \subseteq LiveOwners'
    BY <1>1, <1>3, <1>6
  <2> QED BY <1>0, <1>1, <1>2, <2>1, NoRequestFacts DEF Control
<1>13. ViewInsideSource'
  <2> SUFFICES ASSUME view # NoBlock
               PROVE  own'[view.of] # NoBlock /\ view.addr \in Cells(own'[view.of])
    BY <1>2 DEF ViewInsideSource
  <2>1. view.of \in Owners /\ view.of # o
    BY <1>0, <1>1 DEF Control
  <2> QED BY <1>0, <1>5, <2>1 DEF ViewInsideSource
<1>14. Packed'
  <2>1. reloc' = NoReloc /\ dest' = 0
    BY <1>0, <1>2 DEF Packed
  <2> QED BY <1>5, <1>8, <2>1, NothingPacked
<1>15. HeapInv'
  BY <1>8, <1>9, <1>10, <1>11, <1>12, <1>13, <1>14 DEF HeapInv
<1>16. pc' # "attempt" /\ oom' = NoBlock
  BY <1>0, <1>2 DEF Control
<1> QED BY <1>15, <1>16, NotTheLastAttempt
----------------------------------------------------------------------------
(* Steps that leave the heap alone.                                        *)

\* Only the control and the view change, outside compaction.
LEMMA ControlOnly ==
    ASSUME HeapInv, UNCHANGED <<bumps, free, own, hand, reloc, dest>>,
           pc \notin {"split", "coalesce"}, pc' \notin {"split", "coalesce"},
           reloc = NoReloc, dest = 0, Control', ViewInsideSource'
    PROVE  HeapInv'
<1>1. BumpsInOrder' /\ FreeApart' /\ OwnApart'
  <2>1. UNCHANGED <<bumps, free, own>>
    OBVIOUS
  <2> QED BY <2>1, SameHeap
<1>2. HandApart'
  BY DEF HeapInv, HandApart
<1>3. Packed'
  <2>1. own' \in [Owners -> Blocks \cup {NoBlock}]
    BY <1>1 DEF OwnApart
  <2> QED BY <1>1, <2>1, NothingPacked
<1> QED BY <1>1, <1>2, <1>3 DEF HeapInv

\* The state between operations, and at an attempt.
LEMMA AtRest ==
    ASSUME HeapSafe, pc # "compact"
    PROVE  HeapInv /\ Control /\ ViewInsideSource /\ OwnApart /\ reloc = NoReloc /\ dest = 0
BY DEF HeapSafe, HeapInv, Packed

\* A collection spares the source of the view.
LEMMA CollectableFacts ==
    ASSUME NEW r, NEW S \in SUBSET Collectable(r)
    PROVE  S \subseteq LiveOwners /\ (view # NoBlock => view.of \notin S)
BY DEF Collectable

\* The requests that operations make.
Requests == [owner : Owners, class : Classes, stage : 1 .. 3,
             freesOld : BOOLEAN, kept : {NoBlock}, packed : BOOLEAN]

\* A request is not the absence of one.
LEMMA RequestsAreReal ==
    \A r \in Requests : r # NoRequest /\ r.owner \in Owners
<1> SUFFICES ASSUME NEW r \in Requests PROVE r # NoRequest /\ r.owner \in Owners
  OBVIOUS
<1>1. r.owner \in Owners
  BY DEF Requests
<1> QED BY <1>1, NoBlockAssumption, NoRequestFacts

\* An allocation starts.
LEMMA BeginKeeps ==
    ASSUME HeapSafe, NEW r \in Requests, r.stage = 1,
           view # NoBlock => r.owner # view.of, Begin(r)
    PROVE  HeapSafe'
<1>0. pc = "idle"
  BY DEF Begin, Idle
<1>1. HeapInv /\ Control /\ ViewInsideSource /\ reloc = NoReloc /\ dest = 0
  BY <1>0, AtRest
<1>2. /\ request' = r /\ oom' = NoBlock
      /\ UNCHANGED <<bumps, free, own, hand, reloc, dest>>
      /\ own' = own /\ view' = view
  BY DEF Begin
<1>3. \/ pc' = "attempt" /\ garbage' = garbage
      \/ pc' = "sweep" /\ garbage' \in SUBSET Collectable(r)
  BY DEF Begin
<1>4. LiveOwners' = LiveOwners
  BY <1>2 DEF LiveOwners
<1>5. /\ garbage' \subseteq LiveOwners /\ (pc' = "attempt" => garbage' = {})
      /\ view # NoBlock => view.of \in Owners \ (Growable \cup garbage')
  <2>1. garbage = {} /\ (view # NoBlock => view.of \in Owners \ Growable)
    BY <1>0, <1>1 DEF Control
  <2>2. CASE pc' = "attempt" /\ garbage' = garbage
    BY <2>1, <2>2
  <2>3. CASE pc' = "sweep" /\ garbage' \in SUBSET Collectable(r)
    BY <2>1, <2>3, CollectableFacts
  <2> QED BY <1>3, <2>2, <2>3
<1>6. Control'
  <2>1. r \in Requests /\ r # NoRequest /\ NoRequest' = NoRequest /\ Requests' = Requests
    BY RequestsAreReal, NoRequestFacts DEF Requests
  <2>2. pc' \in {"attempt", "sweep"}
    BY <1>3
  <2>3. view # NoBlock => view \in [of : Owners, addr : Nat]
    BY <1>1 DEF Control
  <2> QED BY <1>2, <1>4, <1>5, <2>1, <2>2, <2>3 DEF Control, Requests
<1>7. ViewInsideSource'
  BY <1>1, <1>2 DEF ViewInsideSource
<1>8. HeapInv'
  BY <1>0, <1>1, <1>2, <1>3, <1>6, <1>7, ControlOnly
<1>9. request'.stage # 3 /\ oom' = NoBlock
  BY <1>2
<1> QED BY <1>8, <1>9, NotTheLastAttempt

\* A slice of a new object.
LEMMA RequestStep ==
    ASSUME HeapSafe, NEW o \in Owners, NEW c \in Classes, Request(o, c)
    PROVE  HeapSafe'
<1> DEFINE r == NewRequest(o, c, FALSE, NoBlock)
<1>1. r \in Requests /\ r.stage = 1 /\ r.owner = o
  BY DEF NewRequest, Requests
<1>2. own[o] = NoBlock /\ Begin(r)
  BY DEF Request
<1>3. view # NoBlock => o # view.of
  BY <1>2 DEF HeapSafe, HeapInv, ViewInsideSource
<1> HIDE DEF r
<1> QED BY <1>1, <1>2, <1>3, BeginKeeps

\* Another block for a map.
LEMMA GrowStep ==
    ASSUME HeapSafe, NEW o \in Owners, NEW c \in Classes, NEW f \in BOOLEAN, Grow(o, c, f)
    PROVE  HeapSafe'
<1> DEFINE r == NewRequest(o, c, f, NoBlock)
<1>1. o \in Growable /\ Begin(r)
  BY DEF Grow
<1>3. r \in Requests /\ r.stage = 1 /\ r.owner = o
  BY DEF NewRequest, Requests
<1>4. view # NoBlock => o # view.of
  BY <1>1 DEF HeapSafe, HeapInv, Control
<1> HIDE DEF r
<1> QED BY <1>1, <1>3, <1>4, BeginKeeps

\* First failure.
LEMMA CollectAndRetryStep ==
    ASSUME HeapSafe, CollectAndRetry
    PROVE  HeapSafe'
<1>0. pc = "attempt" /\ request.stage = 1
  BY DEF CollectAndRetry, AttemptFails
<1>1. HeapInv /\ Control /\ ViewInsideSource /\ reloc = NoReloc /\ dest = 0
  BY <1>0, AtRest
<1>2. /\ request' = [request EXCEPT !.stage = 2] /\ oom' = oom /\ pc' = "sweep"
      /\ UNCHANGED <<bumps, free, own, hand, reloc, dest>>
      /\ own' = own /\ view' = view /\ garbage' \in SUBSET Collectable(request)
  BY DEF CollectAndRetry
<1>3. LiveOwners' = LiveOwners /\ garbage' \subseteq LiveOwners
      /\ (view # NoBlock => view.of \notin garbage')
  BY <1>2, CollectableFacts DEF LiveOwners
<1>4. request \in Requests /\ (view # NoBlock => request.owner # view.of)
  BY <1>0, <1>1 DEF Control, Requests
<1>5. request' \in Requests /\ request'.owner = request.owner /\ request'.stage = 2
  BY <1>2, <1>4 DEF Requests
<1>6. request' # NoRequest /\ oom = NoBlock
  BY <1>0, <1>1, <1>5, RequestsAreReal DEF Control
<1>7. Control'
  <2>1. NoRequest' = NoRequest
    BY NoRequestFacts
  <2>2. /\ view # NoBlock => view.of \in Owners \ Growable
        /\ view # NoBlock => view \in [of : Owners, addr : Nat]
    BY <1>1 DEF Control
  <2> QED BY <1>2, <1>3, <1>4, <1>5, <1>6, <2>1, <2>2 DEF Control, Requests
<1>8. ViewInsideSource'
  BY <1>1, <1>2 DEF ViewInsideSource
<1>9. HeapInv'
  BY <1>0, <1>1, <1>2, <1>7, <1>8, ControlOnly
<1>10. pc' # "attempt" /\ oom' = NoBlock
  BY <1>2, <1>6
<1> QED BY <1>9, <1>10, NotTheLastAttempt

\* Second failure.
LEMMA CompactAndRetryStep ==
    ASSUME HeapSafe, CompactAndRetry
    PROVE  HeapSafe'
<1>0. pc = "attempt" /\ request.stage = 2
  BY DEF CompactAndRetry, AttemptFails
<1>1. HeapInv /\ Control /\ ViewInsideSource /\ reloc = NoReloc /\ dest = 0
  BY <1>0, AtRest
<1>2. /\ request' = [request EXCEPT !.stage = 3] /\ oom' = oom /\ pc' = "compact"
      /\ UNCHANGED <<bumps, free, own, hand, reloc, dest>>
      /\ own' = own /\ view' = view /\ garbage' = garbage
  BY DEF CompactAndRetry
<1>3. LiveOwners' = LiveOwners
  BY <1>2 DEF LiveOwners
<1>4. request \in Requests /\ (view # NoBlock => request.owner # view.of)
  BY <1>0, <1>1 DEF Control, Requests
<1>5. request' \in Requests /\ request'.owner = request.owner
  BY <1>2, <1>4 DEF Requests
<1>6. request' # NoRequest /\ oom = NoBlock
  BY <1>0, <1>1, <1>5, RequestsAreReal DEF Control
<1>7. Control'
  <2>1. NoRequest' = NoRequest
    BY NoRequestFacts
  <2>2. /\ garbage = {}
        /\ view # NoBlock => view.of \in Owners \ (Growable \cup garbage)
        /\ view # NoBlock => view \in [of : Owners, addr : Nat]
    BY <1>0, <1>1 DEF Control
  <2> QED BY <1>2, <1>3, <1>4, <1>5, <1>6, <2>1, <2>2 DEF Control, Requests
<1>8. ViewInsideSource'
  BY <1>1, <1>2 DEF ViewInsideSource
<1>9. HeapInv'
  BY <1>0, <1>1, <1>2, <1>7, <1>8, ControlOnly
<1>10. pc' # "attempt" /\ oom' = NoBlock
  BY <1>2, <1>6
<1> QED BY <1>9, <1>10, NotTheLastAttempt

\* Third failure: the live blocks are packed, and the overflow bump stands right
\* behind them.
LEMMA OutOfMemoryStep ==
    ASSUME HeapSafe, OutOfMemory
    PROVE  HeapSafe'
<1>0. pc = "attempt" /\ request.stage = 3 /\ ~OverflowHasRoom(request.class)
  BY DEF OutOfMemory, AttemptFails, BumpExhausted
<1>1. HeapInv /\ Control /\ ViewInsideSource /\ reloc = NoReloc /\ dest = 0
  BY <1>0, AtRest
<1>2. /\ request' = NoRequest /\ pc' = "idle"
      /\ oom' = [class |-> request.class, packed |-> request.packed]
      /\ UNCHANGED <<bumps, free, own, hand, reloc, dest>>
      /\ own' = own /\ view' = view /\ garbage' = garbage /\ permanentBump' = permanentBump
  BY DEF OutOfMemory, bumps
<1>3. LiveOwners' = LiveOwners
  BY <1>2 DEF LiveOwners
<1>4. request.class \in Classes
  BY <1>0, <1>1, RequestFacts DEF Control
<1>11. oom' \in Failures /\ oom'.class = request.class /\ oom'.packed = request.packed
  <2>1. request.packed \in BOOLEAN
    BY <1>0, <1>1 DEF Control
  <2> QED BY <1>2, <1>4, <2>1 DEF Failures
<1>5. Control'
  <2>1. /\ garbage = {}
        /\ view # NoBlock => view.of \in Owners \ (Growable \cup garbage)
        /\ view # NoBlock => view \in [of : Owners, addr : Nat]
    BY <1>0, <1>1 DEF Control
  <2>2. Failures' = Failures
    BY DEF Failures
  <2> QED BY <1>2, <1>3, <1>4, <1>11, <2>1, <2>2, NoRequestFacts DEF Control
<1>6. ViewInsideSource'
  BY <1>1, <1>2 DEF ViewInsideSource
<1>7. HeapInv'
  BY <1>0, <1>1, <1>2, <1>5, <1>6, ControlOnly
<1>8. Repacked'
  BY <1>2 DEF Repacked
<1>9. ASSUME LiveOwners # {}, request.packed
      PROVE  permanentBump - Max({LiveSize, OverflowBase}) < ClassSize(request.class)
  <2>1. PICK d \in 0 .. HeapSize :
               /\ CellsOf(LiveBlocks) = 0 .. d - 1
               /\ overflowBump = IF d > OverflowBase THEN d ELSE OverflowBase
    BY <1>0, <1>9 DEF HeapSafe, Repacked
  <2>2. HeapSize \in Nat /\ OverflowBase \in 0 .. HeapSize
    BY Regions
  <2>3. LiveSize = d
    <3>1. d \in Int /\ d - 1 \in Int /\ 0 \in Int
      BY <2>1, <2>2
    <3>2. Cardinality(0 .. d - 1) = IF 0 > d - 1 THEN 0 ELSE (d - 1) - 0 + 1
      BY <3>1, FS_Interval
    <3> QED BY <2>1, <2>2, <3>2 DEF LiveSize
  <2>4. Max({d, OverflowBase}) = overflowBump
    <3>1. {d, OverflowBase} \in SUBSET (0 .. HeapSize) /\ {d, OverflowBase} # {}
      BY <2>2
    <3>2. /\ Max({d, OverflowBase}) \in {d, OverflowBase}
          /\ \A y \in {d, OverflowBase} : y <= Max({d, OverflowBase})
      BY <2>2, <3>1, Greatest
    <3> QED BY <2>1, <2>2, <3>2
  <2>5. RoundUp(overflowBump, Align) = overflowBump
    BY <1>1, RoundUpAligned DEF HeapInv, BumpsInOrder
  <2>6. ~(overflowBump + ClassSize(request.class) <= permanentBump)
    BY <1>0, <2>5 DEF OverflowHasRoom
  <2>7. permanentBump \in Int /\ overflowBump \in Int /\ ClassSize(request.class) \in Int
    BY <1>1, <1>4, <2>2, Sizes DEF HeapInv, BumpsInOrder
  <2> QED BY <2>3, <2>4, <2>6, <2>7
<1>10. OomIsReal'
  <2>1. LiveSize' = LiveSize /\ OverflowBase' = OverflowBase
    BY <1>2, <1>3 DEF LiveSize, LiveBlocks, CellsOf, OverflowBase
  <2> QED BY <1>2, <1>3, <1>9, <1>11, <2>1 DEF OomIsReal
<1> QED BY <1>7, <1>8, <1>10 DEF HeapSafe

\* An object allocation collects.
LEMMA CollectStep ==
    ASSUME HeapSafe, Collect
    PROVE  HeapSafe'
<1>0. pc = "idle"
  BY DEF Collect, Idle
<1>1. HeapInv /\ Control /\ ViewInsideSource /\ reloc = NoReloc /\ dest = 0
  BY <1>0, AtRest
<1>2. /\ request' = request /\ oom' = NoBlock /\ pc' = "sweep"
      /\ UNCHANGED <<bumps, free, own, hand, reloc, dest>>
      /\ own' = own /\ view' = view /\ garbage' \in SUBSET Collectable(NoRequest)
  BY DEF Collect
<1>3. /\ LiveOwners' = LiveOwners /\ garbage' \subseteq LiveOwners
      /\ (view # NoBlock => view.of \notin garbage')
  BY <1>2, CollectableFacts DEF LiveOwners
<1>4. request = NoRequest
  BY <1>0, <1>1 DEF Control
<1>5. Control'
  <2>1. /\ view # NoBlock => view.of \in Owners \ Growable
        /\ view # NoBlock => view \in [of : Owners, addr : Nat]
    BY <1>1 DEF Control
  <2> QED BY <1>2, <1>3, <1>4, <2>1, NoRequestFacts DEF Control
<1>6. ViewInsideSource'
  BY <1>1, <1>2 DEF ViewInsideSource
<1>7. HeapInv'
  BY <1>0, <1>1, <1>2, <1>5, <1>6, ControlOnly
<1>8. pc' # "attempt" /\ oom' = NoBlock
  BY <1>2
<1> QED BY <1>7, <1>8, NotTheLastAttempt

\* The sweep is over.
LEMMA SweepEndsStep ==
    ASSUME HeapSafe, SweepEnds
    PROVE  HeapSafe'
<1>0. pc = "sweep" /\ garbage = {}
  BY DEF SweepEnds
<1>1. HeapInv /\ Control /\ ViewInsideSource /\ reloc = NoReloc /\ dest = 0
  BY <1>0, AtRest
<1>2. /\ request' = request /\ oom' = oom /\ garbage' = garbage
      /\ pc' = IF request = NoRequest THEN "idle" ELSE "attempt"
      /\ UNCHANGED <<bumps, free, own, hand, reloc, dest>>
      /\ own' = own /\ view' = view
  BY DEF SweepEnds
<1>3. LiveOwners' = LiveOwners
  BY <1>2 DEF LiveOwners
<1>4. oom = NoBlock /\ request.stage # 3
  BY <1>0, <1>1 DEF Control
<1>5. Control'
  BY <1>0, <1>1, <1>2, <1>3, NoRequestFacts DEF Control
<1>6. ViewInsideSource'
  BY <1>1, <1>2 DEF ViewInsideSource
<1>7. HeapInv'
  BY <1>0, <1>1, <1>2, <1>5, <1>6, ControlOnly
<1>8. request'.stage # 3 /\ oom' = NoBlock
  BY <1>2, <1>4
<1> QED BY <1>7, <1>8, NotTheLastAttempt

\* Compaction without a live block has moved nothing.
LEMMA CompactNothingStep ==
    ASSUME HeapSafe, CompactNothing
    PROVE  HeapSafe'
<1>0. pc = "compact" /\ LiveOwners = {}
  BY DEF CompactNothing
<1>1. HeapInv /\ Control /\ ViewInsideSource /\ Packed /\ BumpsInOrder
  BY DEF HeapSafe, HeapInv
<1>2. /\ request' = request /\ oom' = oom /\ garbage' = garbage /\ pc' = "attempt"
      /\ UNCHANGED <<bumps, free, own, hand, reloc, dest>>
      /\ own' = own /\ view' = view
  BY DEF CompactNothing
<1>3. LiveOwners' = LiveOwners
  BY <1>2 DEF LiveOwners
<1>4. \A o \in Owners : reloc[o] = NoBlock
  BY <1>0, <1>1 DEF Packed, LiveOwners
<1>5. reloc = NoReloc /\ dest = 0
  <2>1. reloc \in [Owners -> Addrs \cup {NoBlock}]
    BY <1>1 DEF Packed
  <2>2. reloc = NoReloc
    BY <1>4, <2>1 DEF NoReloc
  <2>3. dest \in Nat /\ \A x \in 0 .. dest - 1 : FALSE
    <3>1. overflowBump \in Nat
      BY <1>1, Regions DEF BumpsInOrder
    <3> QED BY <1>1, <1>4, <3>1 DEF Packed
  <2>4. dest = 0
    <3> SUFFICES ASSUME dest # 0 PROVE FALSE
      OBVIOUS
    <3>1. 0 \in 0 .. dest - 1
      BY <2>3
    <3> QED BY <2>3, <3>1
  <2> QED BY <2>2, <2>4
<1>6. Control'
  BY <1>0, <1>1, <1>2, <1>3, NoRequestFacts DEF Control
<1>7. ViewInsideSource'
  BY <1>1, <1>2 DEF ViewInsideSource
<1>8. HeapInv'
  BY <1>0, <1>1, <1>2, <1>5, <1>6, <1>7, ControlOnly
<1>9. Repacked'
  BY <1>0, <1>3 DEF Repacked
<1>10. OomIsReal'
  BY <1>0, <1>1, <1>2 DEF OomIsReal, Control
<1> QED BY <1>8, <1>9, <1>10 DEF HeapSafe

\* Compaction without a table moves nothing, and the request remembers it.
LEMMA CompactSkipsStep ==
    ASSUME HeapSafe, CompactSkips
    PROVE  HeapSafe'
<1>0. pc = "compact" /\ reloc = NoReloc
  BY DEF CompactSkips
<1>1. HeapInv /\ Control /\ ViewInsideSource /\ Packed /\ BumpsInOrder
  BY DEF HeapSafe, HeapInv
<1>2. /\ request' = [request EXCEPT !.packed = FALSE] /\ oom' = oom /\ pc' = "attempt"
      /\ UNCHANGED <<bumps, free, own, hand, reloc, dest>>
      /\ own' = own /\ view' = view /\ garbage' = garbage
  BY DEF CompactSkips
<1>3. LiveOwners' = LiveOwners
  BY <1>2 DEF LiveOwners
<1>4. dest = 0
  <2>1. \A o \in Owners : reloc[o] = NoBlock
    BY <1>0 DEF NoReloc
  <2>2. overflowBump \in Nat
    BY <1>1, Regions DEF BumpsInOrder
  <2>3. dest \in Nat /\ \A x \in 0 .. dest - 1 : FALSE
    BY <1>1, <2>1, <2>2 DEF Packed
  <2> SUFFICES ASSUME dest # 0 PROVE FALSE
    OBVIOUS
  <2>4. 0 \in 0 .. dest - 1
    BY <2>3
  <2> QED BY <2>3, <2>4
<1>5. request \in Requests /\ (view # NoBlock => request.owner # view.of)
  BY <1>0, <1>1 DEF Control, Requests
<1>6. request' \in Requests /\ request'.owner = request.owner /\ ~request'.packed
  BY <1>2, <1>5 DEF Requests
<1>7. request' # NoRequest /\ oom = NoBlock
  BY <1>0, <1>1, <1>6, RequestsAreReal DEF Control
<1>8. Control'
  <2>1. NoRequest' = NoRequest
    BY NoRequestFacts
  <2>2. /\ garbage = {}
        /\ view # NoBlock => view.of \in Owners \ (Growable \cup garbage)
        /\ view # NoBlock => view \in [of : Owners, addr : Nat]
    BY <1>0, <1>1 DEF Control
  <2> QED BY <1>2, <1>3, <1>5, <1>6, <1>7, <2>1, <2>2 DEF Control, Requests
<1>9. ViewInsideSource'
  BY <1>1, <1>2 DEF ViewInsideSource
<1>10. HeapInv'
  BY <1>0, <1>1, <1>2, <1>4, <1>8, <1>9, ControlOnly
<1>11. Repacked'
  BY <1>6 DEF Repacked
<1>12. OomIsReal'
  BY <1>2, <1>7 DEF OomIsReal
<1> QED BY <1>10, <1>11, <1>12 DEF HeapSafe

\* Views come and go.
LEMMA ViewSteps ==
    ASSUME HeapSafe,
           DropView \/ \E o \in Owners \ Growable, a \in Addrs : MakeView(o, a)
    PROVE  HeapSafe'
<1>0. pc = "idle"
  BY DEF DropView, MakeView, Idle
<1>1. HeapInv /\ Control /\ ViewInsideSource /\ reloc = NoReloc /\ dest = 0
  BY <1>0, AtRest
<1>2. /\ request' = request /\ oom' = oom /\ garbage' = garbage /\ pc' = pc
      /\ UNCHANGED <<bumps, free, own, hand, reloc, dest>>
      /\ own' = own /\ permanentBump' = permanentBump
  BY DEF DropView, MakeView, bumps
<1>3. LiveOwners' = LiveOwners
  BY <1>2 DEF LiveOwners
<1>4. garbage = {} /\ request = NoRequest
  BY <1>0, <1>1 DEF Control
<1>5. /\ view' # NoBlock => view'.of \in Owners \ Growable
      /\ view' # NoBlock => view' \in [of : Owners, addr : Nat]
      /\ view' # NoBlock => own[view'.of] # NoBlock /\ view'.addr \in Cells(own[view'.of])
  <2>1. CASE DropView
    BY <2>1 DEF DropView
  <2>2. ASSUME NEW o \in Owners \ Growable, NEW a \in Addrs, MakeView(o, a)
        PROVE  /\ view' # NoBlock => view'.of \in Owners \ Growable
               /\ view' # NoBlock => view' \in [of : Owners, addr : Nat]
               /\ view' # NoBlock => own[view'.of] # NoBlock /\ view'.addr \in Cells(own[view'.of])
    <3>1. a \in Nat
      BY HeapAssumption DEF Addrs
    <3> QED BY <2>2, <3>1 DEF MakeView
  <2> QED BY <2>1, <2>2
<1>6. Control'
  BY <1>0, <1>1, <1>2, <1>3, <1>4, <1>5, NoRequestFacts DEF Control
<1>7. ViewInsideSource'
  BY <1>2, <1>5 DEF ViewInsideSource
<1>8. HeapInv'
  BY <1>0, <1>1, <1>2, <1>6, <1>7, ControlOnly
<1>9. Repacked'
  BY <1>0, <1>2 DEF Repacked
<1>10. OomIsReal'
  <2>1. LiveSize' = LiveSize /\ OverflowBase' = OverflowBase
    BY <1>2, <1>3 DEF LiveSize, LiveBlocks, CellsOf, OverflowBase
  <2> QED BY <1>2, <1>3, <2>1 DEF OomIsReal, HeapSafe
<1> QED BY <1>8, <1>9, <1>10 DEF HeapSafe

\* Permanent data grows down to the overflow bump at most.
LEMMA BumpStep ==
    ASSUME HeapSafe, NEW n \in PermSizes, NEW a \in {1, Align}, Bump(n, a)
    PROVE  HeapSafe'
<1> DEFINE pos == RoundDown(permanentBump - n, a)
<1>0. /\ pc = "idle" /\ n <= permanentBump /\ pos >= overflowBump /\ permanentBump' = pos
      /\ oom' = NoBlock /\ classBump' = classBump /\ overflowBump' = overflowBump
      /\ free' = free /\ own' = own /\ view' = view /\ pc' = pc /\ hand' = hand
      /\ request' = request /\ garbage' = garbage /\ reloc' = reloc /\ dest' = dest
  BY DEF Bump, Idle
<1>1. /\ HeapInv /\ Control /\ ViewInsideSource /\ OwnApart /\ BumpsInOrder /\ HandApart
      /\ FreeApart /\ reloc = NoReloc /\ dest = 0
  BY <1>0, AtRest DEF HeapInv
<1>2. n \in Nat /\ a \in Nat \ {0} /\ HeapSize \in Nat /\ OverflowBase \in Nat
  BY HeapAssumption, Regions
<1>3. permanentBump \in 0 .. HeapSize /\ overflowBump \in Nat
  BY <1>1, <1>2 DEF BumpsInOrder
<1>4. permanentBump - n \in Nat
  BY <1>0, <1>2, <1>3
<1>5. pos \in Nat /\ pos <= permanentBump - n
  BY <1>2, <1>4, RoundDownBelow
<1> HIDE DEF pos
<1>6. BumpsInOrder'
  <2>1. pos \in 0 .. HeapSize /\ overflowBump \in OverflowBase .. pos
    BY <1>0, <1>1, <1>2, <1>3, <1>5 DEF BumpsInOrder
  <2>2. /\ \A d \in Classes : ClassBase(d)' = ClassBase(d) /\ ClassEnd(d)' = ClassEnd(d)
        /\ OverflowBase' = OverflowBase
    BY DEF ClassBase, ClassEnd, OverflowBase
  <2> QED BY <1>0, <1>1, <2>1, <2>2 DEF BumpsInOrder
<1>7. LiveOwners' = LiveOwners /\ Taken' = Taken
  BY <1>0 DEF LiveOwners, Taken
<1>8. FreeApart' /\ OwnApart' /\ HandApart'
  BY <1>0, <1>1, <1>7 DEF FreeApart, OwnApart, HandApart, Fits, Disjoint
<1>9. Control'
  BY <1>0, <1>1, <1>7, NoRequestFacts DEF Control
<1>10. ViewInsideSource'
  BY <1>0, <1>1 DEF ViewInsideSource
<1>11. Packed'
  <2>1. own' \in [Owners -> Blocks \cup {NoBlock}]
    BY <1>8 DEF OwnApart
  <2> QED BY <1>0, <1>1, <1>6, <2>1, NothingPacked
<1>12. HeapInv' /\ pc' # "attempt"
  BY <1>0, <1>6, <1>8, <1>9, <1>10, <1>11 DEF HeapInv
<1> QED BY <1>0, <1>12, NotTheLastAttempt

\* A heap as init lays it out is in order.
LEMMA FreshHeap ==
    ASSUME permanentBump = HeapSize, classBump = [c \in Classes |-> ClassBase(c)],
           overflowBump = OverflowBase, free = {}, own = [o \in Owners |-> NoBlock],
           view = NoBlock, pc = "idle", hand = NoBlock, request = NoRequest,
           garbage = {}, reloc = NoReloc, dest = 0, oom = NoBlock
    PROVE  HeapSafe
<1>1. BumpsInOrder
  <2>1. /\ HeapSize \in Nat /\ OverflowBase \in 0 .. HeapSize /\ Aligned(OverflowBase)
        /\ \A c \in Classes : /\ ClassBase(c) \in Nat /\ ClassEnd(c) \in Nat
                              /\ Aligned(ClassBase(c)) /\ ClassBase(c) <= ClassEnd(c)
    BY Regions
  <2> QED BY <2>1 DEF BumpsInOrder
<1>2. LiveOwners = {}
  BY DEF LiveOwners
<1>3. FreeApart /\ OwnApart /\ HandApart /\ Control /\ ViewInsideSource
  BY <1>2 DEF FreeApart, OwnApart, HandApart, Control, ViewInsideSource
<1>4. Packed
  <2>1. overflowBump \in Nat
    BY Regions
  <2>2. /\ \A o \in Owners : reloc[o] = NoBlock
        /\ reloc \in [Owners -> Addrs \cup {NoBlock}]
    BY DEF NoReloc
  <2>3. \A x \in 0 .. dest - 1 : FALSE
    OBVIOUS
  <2> QED BY <1>2, <2>1, <2>2, <2>3, AlignedSums DEF Packed
<1> QED BY <1>1, <1>3, <1>4 DEF HeapSafe, HeapInv, Repacked, OomIsReal

\* Reset lays the heap out anew.
LEMMA ResetStep ==
    ASSUME HeapSafe, Reset
    PROVE  HeapSafe'
<1>0. /\ pc = "idle" /\ permanentBump' = HeapSize /\ overflowBump' = OverflowBase
      /\ classBump' = [c \in Classes |-> ClassBase(c)] /\ free' = {}
      /\ own' = [o \in Owners |-> NoBlock] /\ view' = NoBlock /\ oom' = NoBlock
      /\ pc' = pc /\ hand' = hand /\ request' = request /\ garbage' = garbage
      /\ reloc' = reloc /\ dest' = dest
  BY DEF Reset, Idle
<1>1. HeapInv /\ Control /\ HandApart /\ reloc = NoReloc /\ dest = 0
  BY <1>0, AtRest DEF HeapInv
<1>2. hand = NoBlock /\ request = NoRequest /\ garbage = {}
  BY <1>0, <1>1 DEF HandApart, Control
<1>3. BumpsInOrder'
  <2>1. /\ HeapSize \in Nat /\ OverflowBase \in 0 .. HeapSize /\ Aligned(OverflowBase)
        /\ \A c \in Classes : /\ ClassBase(c) \in Nat /\ ClassEnd(c) \in Nat
                              /\ Aligned(ClassBase(c)) /\ ClassBase(c) <= ClassEnd(c)
    BY Regions
  <2>2. /\ \A d \in Classes : ClassBase(d)' = ClassBase(d) /\ ClassEnd(d)' = ClassEnd(d)
        /\ OverflowBase' = OverflowBase
    BY DEF ClassBase, ClassEnd, OverflowBase
  <2> QED BY <1>0, <2>1, <2>2 DEF BumpsInOrder
<1>4. LiveOwners' = {}
  BY <1>0 DEF LiveOwners
<1>5. FreeApart' /\ OwnApart' /\ HandApart' /\ Control' /\ ViewInsideSource'
  BY <1>0, <1>2, <1>4, NoRequestFacts
     DEF FreeApart, OwnApart, HandApart, Control, ViewInsideSource
<1>6. Packed'
  <2>1. own' \in [Owners -> Blocks \cup {NoBlock}]
    BY <1>0
  <2> QED BY <1>0, <1>1, <1>3, <2>1, NothingPacked
<1>7. HeapInv' /\ pc' # "attempt"
  BY <1>0, <1>3, <1>5, <1>6 DEF HeapInv
<1> QED BY <1>0, <1>7, NotTheLastAttempt

\* A slice that is shortened keeps a part of its block.
LEMMA ShrinkStep ==
    ASSUME HeapSafe, NEW o \in Owners, Shrink(o)
    PROVE  HeapSafe'
<1> DEFINE b == own[o]
           s == [addr |-> b.addr, class |-> b.class - 1]
<1>0. /\ pc = "idle" /\ o \in Growable /\ b # NoBlock /\ oom' = NoBlock
      /\ own' = [own EXCEPT ![o] = IF b.class = 0 THEN NoBlock ELSE s]
      /\ UNCHANGED bumps /\ free' = free /\ view' = view /\ pc' = pc /\ hand' = hand
      /\ request' = request /\ garbage' = garbage /\ reloc' = reloc /\ dest' = dest
  BY DEF Shrink, Idle
<1>1. /\ HeapInv /\ Control /\ ViewInsideSource /\ OwnApart /\ BumpsInOrder /\ HandApart
      /\ FreeApart /\ reloc = NoReloc /\ dest = 0
  BY <1>0, AtRest DEF HeapInv
<1>2. o \in LiveOwners
  BY <1>0 DEF LiveOwners
<1>3. /\ own \in [Owners -> Blocks \cup {NoBlock}] /\ b \in Blocks /\ Fits(b)
      /\ \A p \in LiveOwners : Fits(own[p])
      /\ \A p, q \in LiveOwners : p # q => Disjoint(own[p], own[q])
      /\ \A p \in LiveOwners : \A d \in free : Disjoint(own[p], d)
  BY <1>1, <1>2, LiveFacts DEF OwnApart
<1>4. /\ b.addr \in Nat /\ b.addr \in Addrs /\ b.class \in Classes
      /\ b = [addr |-> b.addr, class |-> b.class]
  BY <1>3, BlockFacts
<1>5. ASSUME b.class # 0
      PROVE  Fits(s) /\ Cells(s) \subseteq Cells(b)
  <2>1. /\ b.class - 1 \in Classes /\ (b.class - 1) + 1 = b.class
        /\ (b.class - 1) + 1 < ClassCount
    BY <1>4, <1>5, Sizes DEF Classes
  <2>2. b = Whole(b.addr, b.class - 1) /\ s = Lower(b.addr, b.class - 1)
    BY <1>4, <2>1 DEF Whole, Lower
  <2>3. Cells(b) = Cells(s) \cup Cells(Upper(b.addr, b.class - 1))
    BY <1>4, <2>1, <2>2, Halves
  <2>4. Fits(s)
    BY <1>1, <1>3, <1>4, <2>1, <2>2, HalvesFit
  <2> QED BY <2>3, <2>4
<1> DEFINE n == own'[o]
<1>6. /\ n = NoBlock \/ (n \in Blocks /\ Fits(n) /\ Cells(n) \subseteq Cells(b))
      /\ own' \in [Owners -> Blocks \cup {NoBlock}]
      /\ \A p \in Owners : p # o => own'[p] = own[p]
  <2> HIDE DEF s
  <2>1. n = IF b.class = 0 THEN NoBlock ELSE s
    BY <1>0, <1>3
  <2>2. n = NoBlock \/ (n \in Blocks /\ Fits(n) /\ Cells(n) \subseteq Cells(b))
    BY <1>5, <2>1 DEF Fits
  <2>3. own' = [own EXCEPT ![o] = n]
    BY <1>0, <2>1
  <2> HIDE DEF n
  <2> QED BY <1>3, <2>2, <2>3
<1>7. \A p \in LiveOwners' :
         /\ p \in LiveOwners /\ p \in Owners /\ own'[p] \in Blocks
         /\ Fits(own'[p]) /\ Cells(own'[p]) \subseteq Cells(own[p])
  <2> SUFFICES ASSUME NEW p \in LiveOwners'
               PROVE  /\ p \in LiveOwners /\ p \in Owners /\ own'[p] \in Blocks
                      /\ Fits(own'[p]) /\ Cells(own'[p]) \subseteq Cells(own[p])
    OBVIOUS
  <2>1. p \in Owners /\ own'[p] # NoBlock
    BY DEF LiveOwners
  <2>2. CASE p = o
    BY <1>2, <1>6, <2>1, <2>2
  <2>3. CASE p # o
    <3>1. own'[p] = own[p] /\ p \in LiveOwners
      BY <1>6, <2>1, <2>3 DEF LiveOwners
    <3> QED BY <1>3, <2>1, <3>1 DEF Fits
  <2> QED BY <2>2, <2>3
<1> HIDE DEF n, b
<1>8. BumpsInOrder' /\ Taken' = Taken
  BY <1>0, <1>1, SameBumps
<1>9. FreeApart'
  BY <1>0, <1>1, <1>8 DEF FreeApart, Fits, Disjoint
<1>10. OwnApart'
  <2>1. ASSUME NEW p \in LiveOwners', NEW q \in LiveOwners', p # q
        PROVE  Disjoint(own'[p], own'[q])
    <3>1. Disjoint(own[p], own[q])
      BY <1>3, <1>7, <2>1
    <3> QED BY <1>7, <3>1 DEF Disjoint
  <2>2. \A p \in LiveOwners' : \A d \in free' : Disjoint(own'[p], d)
    BY <1>0, <1>3, <1>7 DEF Disjoint
  <2> QED BY <1>6, <1>7, <1>8, <2>1, <2>2 DEF OwnApart, Fits, Disjoint
<1>11. HandApart'
  BY <1>0, <1>1 DEF HandApart
<1>12. Control'
  <2>1. garbage = {} /\ request = NoRequest
    BY <1>0, <1>1 DEF Control
  <2> QED BY <1>0, <1>1, <2>1, NoRequestFacts DEF Control
<1>13. ViewInsideSource'
  <2> SUFFICES ASSUME view # NoBlock
               PROVE  own'[view.of] # NoBlock /\ view.addr \in Cells(own'[view.of])
    BY <1>0 DEF ViewInsideSource
  <2>1. view.of \in Owners /\ view.of # o
    BY <1>0, <1>1 DEF Control
  <2> QED BY <1>1, <1>6, <2>1 DEF ViewInsideSource
<1>14. Packed'
  BY <1>0, <1>1, <1>6, <1>8, NothingPacked
<1>15. HeapInv' /\ pc' # "attempt"
  BY <1>0, <1>8, <1>9, <1>10, <1>11, <1>12, <1>13, <1>14 DEF HeapInv
<1> QED BY <1>0, <1>15, NotTheLastAttempt
----------------------------------------------------------------------------
(* defragmentFreeLists.                                                    *)

\* x starts a block, if T are the starts below it.
StartsBlock(run, T, x) ==
    /\ x \in run
    /\ x - 1 \notin run \/ \E y \in 0 .. x - 1 : y \in T /\ End(Cut(run, y)) = x

Starts(run, T) ==
    T \in SUBSET Addrs /\ \A x \in Addrs : x \in T <=> StartsBlock(run, T, x)

\* Every run has its starts: they are determined from below.
LEMMA StartsExist ==
    ASSUME NEW run
    PROVE  \E T : Starts(run, T)
<1> DEFINE UpTo(T, n) == \A x \in 0 .. n - 1 : x \in T <=> StartsBlock(run, T, x)
           S == {n \in 0 .. HeapSize : \E T \in SUBSET Addrs : UpTo(T, n)}
<1>0. HeapSize \in Nat
  BY HeapAssumption
<1>1. 0 \in S
  <2>1. {} \in SUBSET Addrs /\ UpTo({}, 0)
    OBVIOUS
  <2> QED BY <1>0, <2>1
<1>2. ASSUME NEW n \in 0 .. (HeapSize - 1), n \in S PROVE n + 1 \in S
  <2>1. PICK T \in SUBSET Addrs : UpTo(T, n)
    BY <1>2
  <2> DEFINE U == IF StartsBlock(run, T, n) THEN T \cup {n} ELSE T \ {n}
  <2>2. n \in Nat /\ n + 1 \in 0 .. HeapSize /\ U \in SUBSET Addrs
    BY <1>0 DEF Addrs
  <2>3. \A y \in 0 .. n - 1 : y \in U <=> y \in T
    BY <2>2
  <2>4. n \in U <=> StartsBlock(run, T, n)
    OBVIOUS
  <2> HIDE DEF U
  <2>5. ASSUME NEW x \in 0 .. n
        PROVE  StartsBlock(run, U, x) <=> StartsBlock(run, T, x)
    <3>1. \A y \in 0 .. x - 1 : y \in 0 .. n - 1
      BY <2>2
    <3>2. \A y \in 0 .. x - 1 : y \in U <=> y \in T
      BY <2>3, <3>1
    <3> QED BY <3>2 DEF StartsBlock
  <2>6. ASSUME NEW x \in 0 .. (n + 1) - 1 PROVE x \in U <=> StartsBlock(run, U, x)
    <3>1. x \in 0 .. n
      BY <2>2
    <3>2. CASE x = n
      BY <2>4, <2>5, <3>1, <3>2
    <3>3. CASE x # n
      <4>1. x \in 0 .. n - 1
        BY <2>2, <3>1, <3>3
      <4> QED BY <2>1, <2>3, <2>5, <3>1, <4>1
    <3> QED BY <3>2, <3>3
  <2> QED BY <2>2, <2>6
<1>3. 0 .. HeapSize \subseteq S
  <2> HIDE DEF S
  <2> QED BY <1>0, <1>1, <1>2, Reaches
<1>4. HeapSize \in S
  BY <1>0, <1>3
<1>5. PICK T \in SUBSET Addrs : UpTo(T, HeapSize)
  BY <1>4
<1> QED BY <1>5 DEF Starts, Addrs

\* The merged lists hold the block cut at each start.
LEMMA MergedStarts ==
    \E T : Starts(CellsOf(free), T) /\ Merged = {Cut(CellsOf(free), x) : x \in T}
<1> DEFINE run == CellsOf(free)
           B(f) == [x \in Addrs |->
                      /\ x \in run
                      /\ \/ x - 1 \notin run
                         \/ \E y \in 0 .. x - 1 : f[y] /\ End(Cut(run, y)) = x]
           g == CHOOSE f : f = B(f)
           T == {x \in Addrs : g[x]}
<1>1. PICK U : Starts(run, U)
  BY StartsExist
<1>2. HeapSize \in Nat
  BY HeapAssumption
<1>3. \A x \in Addrs : \A y \in 0 .. x - 1 : y \in Addrs
  BY <1>2 DEF Addrs
<1>4. \E f : f = B(f)
  <2> DEFINE h == [x \in Addrs |-> x \in U]
  <2>1. \A x \in Addrs : h[x] = (x \in U)
    OBVIOUS
  <2> HIDE DEF run
  <2>2. ASSUME NEW x \in Addrs
        PROVE  (x \in U) = (/\ x \in run
                            /\ \/ x - 1 \notin run
                               \/ \E y \in 0 .. x - 1 : h[y] /\ End(Cut(run, y)) = x)
    <3>1. \A y \in 0 .. x - 1 : h[y] = (y \in U)
      BY <1>3, <2>1
    <3>2. (x \in U) <=> StartsBlock(run, U, x)
      BY <1>1 DEF Starts
    <3>3. StartsBlock(run, U, x) <=>
            (/\ x \in run
             /\ \/ x - 1 \notin run
                \/ \E y \in 0 .. x - 1 : h[y] /\ End(Cut(run, y)) = x)
      <4> HIDE DEF h
      <4> QED BY <3>1, Zenon DEF StartsBlock
    <3> HIDE DEF h
    <3> DEFINE J == 0 .. x - 1
               k == x - 1
               e(y) == End(Cut(run, y))
    <3>4. (x \in U) <=> (x \in run /\ (k \notin run \/ \E y \in J : h[y] /\ e(y) = x))
      BY <3>2, <3>3
    <3> HIDE DEF J, k, e
    <3>5. (x \in U) = (x \in run /\ (k \notin run \/ \E y \in J : h[y] /\ e(y) = x))
      BY <3>4, SMT
    <3> QED BY <3>5, Zenon DEF J, k, e
  <2>3. h = B(h)
    <3>1. B(h) = [x \in Addrs |-> x \in U]
      <4> HIDE DEF h
      <4> QED BY <2>2, Zenon
    <3> QED BY <3>1
  <2> QED BY <2>3
<1>5. g = B(g)
  <2> HIDE DEF B
  <2> QED BY <1>4, Zenon
<1>6. Merged = {Cut(run, x) : x \in T}
  BY Zenon DEF Merged
<1>7. ASSUME NEW x \in Addrs PROVE x \in T <=> StartsBlock(run, T, x)
  <2>1. g[x] = (/\ x \in run
                /\ \/ x - 1 \notin run
                   \/ \E y \in 0 .. x - 1 : g[y] /\ End(Cut(run, y)) = x)
    <3>1. g[x] = B(g)[x]
      BY <1>5, Zenon
    <3> HIDE DEF g
    <3> QED BY <3>1, Zenon
  <2> HIDE DEF g
  <2>2. \A y \in 0 .. x - 1 : g[y] <=> y \in T
    BY <1>3
  <2>3. x \in T <=> g[x]
    OBVIOUS
  <2> HIDE DEF T, run
  <2> QED BY <2>1, <2>2, <2>3, Zenon DEF StartsBlock
<1>8. T \in SUBSET Addrs
  OBVIOUS
<1> HIDE DEF T
<1> QED BY <1>6, <1>7, <1>8 DEF Starts

\* What the free lists cover is made of aligned blocks.
LEMMA RunFacts ==
    ASSUME HeapInv
    PROVE  /\ CellsOf(free) \subseteq Taken /\ CellsOf(free) \subseteq Addrs
           /\ \A x \in CellsOf(free) : \E b \in free : x \in Cells(b)
           /\ \A b \in free : Cells(b) \subseteq CellsOf(free)
<1>1. \A x \in CellsOf(free) : \E b \in free : x \in Cells(b)
  BY Zenon DEF CellsOf
<1>2. ASSUME NEW b \in free PROVE Cells(b) \subseteq CellsOf(free)
  <2>1. Cells(b) \in {Cells(d) : d \in free}
    OBVIOUS
  <2> QED BY <2>1, Zenon DEF CellsOf
<1>3. \A b \in free : Cells(b) \subseteq Taken
  BY FreeFacts DEF Fits
<1>4. Taken \subseteq Addrs
  BY TakenBelow DEF HeapInv
<1> QED BY <1>1, <1>2, <1>3, <1>4

\* A block cut at an aligned granule of a run lies in the run.
LEMMA CutFits ==
    ASSUME HeapInv, NEW x \in CellsOf(free), Aligned(x)
    PROVE  LET b == Cut(CellsOf(free), x) IN
           b \in Blocks /\ b.addr = x /\ Cells(b) \subseteq CellsOf(free)
<1> DEFINE run == CellsOf(free)
           fits == {c \in Classes : (x .. x + ClassSize(c) - 1) \subseteq run}
<1>1. x \in Addrs /\ x \in Nat
  BY RunFacts, HeapAssumption DEF Addrs
<1>2. PICK d \in free : x \in Cells(d)
  BY RunFacts
<1>3. Cells(d) \subseteq run /\ d \in Blocks /\ Aligned(d.addr)
  BY RunFacts, FreeFacts DEF Fits
<1>4. /\ d.addr \in Nat /\ End(d) \in Nat /\ End(d) = d.addr + ClassSize(d.class)
      /\ d.class \in Classes
      /\ \A y \in Int : y \in Cells(d) <=> d.addr <= y /\ y < End(d)
  BY <1>3, BlockFacts
<1>5. x + Align <= End(d)
  <2>1. Aligned(End(d))
    BY <1>3, <1>4, Sizes, AlignedSums
  <2>2. x < End(d)
    BY <1>1, <1>2, <1>4
  <2> QED BY <2>1, <2>2, AlignedGap
<1>6. Align \in Nat \ {0} /\ ClassSize(0) = Align /\ 0 \in Classes /\ ClassCount \in Nat \ {0}
  BY HeapAssumption, Sizes
<1>7. (x .. x + Align - 1) \subseteq Cells(d)
  <2> SUFFICES ASSUME NEW y \in x .. x + Align - 1 PROVE y \in Cells(d)
    OBVIOUS
  <2>1. y \in Int /\ x <= y /\ y < x + Align
    BY <1>1, <1>6
  <2>2. d.addr <= x
    BY <1>1, <1>2, <1>4
  <2> QED BY <1>1, <1>4, <1>5, <1>6, <2>1, <2>2
<1>8. 0 \in fits
  BY <1>3, <1>6, <1>7
<1>9. Max(fits) \in fits
  <2>1. fits \in SUBSET (0 .. ClassCount - 1) /\ ClassCount - 1 \in Nat /\ fits # {}
    BY <1>6, <1>8 DEF Classes
  <2> HIDE DEF fits
  <2> QED BY <2>1, Greatest
<1> DEFINE m == Max(fits)
<1>10. Cut(run, x) = [addr |-> x, class |-> m]
  BY DEF Cut
<1>11. m \in Classes /\ (x .. x + ClassSize(m) - 1) \subseteq run
  BY <1>9
<1> HIDE DEF m, fits, run
<1>12. Cut(run, x) \in Blocks /\ Cut(run, x).addr = x /\ Cells(Cut(run, x)) \subseteq run
  BY <1>1, <1>10, <1>11, BlockAt, ZenonT(30)
<1> QED BY <1>12 DEF run

\* The starts of the blocks are aligned.
LEMMA StartsAligned ==
    ASSUME HeapInv, NEW T, Starts(CellsOf(free), T)
    PROVE  \A x \in T : x \in CellsOf(free) /\ Aligned(x)
<1> DEFINE run == CellsOf(free)
           Bad == {x \in T : ~Aligned(x)}
<1>1. T \subseteq Addrs /\ T \subseteq Nat /\ \A x \in T : StartsBlock(run, T, x)
  BY HeapAssumption DEF Starts, Addrs
<1>2. \A x \in T : x \in run
  BY <1>1 DEF StartsBlock
<1>3. ASSUME Bad # {} PROVE FALSE
  <2>1. PICK x \in Bad : \A y \in Bad : x <= y
    <3>1. Bad \in SUBSET Nat
      BY <1>1
    <3> HIDE DEF Bad
    <3> QED BY <1>3, <3>1, Least
  <2>2. x \in T /\ x \in Nat /\ x \in run
    BY <1>1, <1>2, <2>1
  <2>3. CASE x - 1 \notin run
    <3>1. PICK b \in free : x \in Cells(b)
      BY <2>2, RunFacts
    <3>2. Cells(b) \subseteq run /\ b \in Blocks /\ Aligned(b.addr)
      BY RunFacts, FreeFacts DEF Fits
    <3>3. /\ b.addr \in Nat /\ End(b) \in Nat
          /\ \A y \in Int : y \in Cells(b) <=> b.addr <= y /\ y < End(b)
      BY <3>2, BlockFacts
    <3>4. x = b.addr
      <4> SUFFICES ASSUME x # b.addr PROVE FALSE
        OBVIOUS
      <4>1. b.addr <= x /\ x < End(b)
        BY <2>2, <3>1, <3>3
      <4>2. x - 1 \in Cells(b)
        BY <2>2, <3>3, <4>1
      <4> QED BY <2>3, <3>2, <4>2
    <3> QED BY <2>1, <3>2, <3>4
  <2>4. ASSUME NEW y \in 0 .. x - 1, y \in T, End(Cut(run, y)) = x PROVE FALSE
    <3>1. Aligned(y)
      BY <2>1, <2>2, <2>4
    <3>2. y \in run
      BY <1>2, <2>4
    <3>3. Cut(run, y) \in Blocks /\ Cut(run, y).addr = y
      BY <3>1, <3>2, CutFits
    <3>4. PICK c \in Classes : x = y + ClassSize(c)
      BY <2>4, <3>3, BlockFacts
    <3>5. Aligned(x)
      BY <3>1, <3>4, Sizes, AlignedSums
    <3> QED BY <2>1, <3>5
  <2> QED BY <1>1, <2>2, <2>3, <2>4 DEF StartsBlock
<1> QED BY <1>2, <1>3

\* The blocks cut at two starts share nothing.
LEMMA CutsApart ==
    ASSUME HeapInv, NEW T, Starts(CellsOf(free), T)
    PROVE  \A x, y \in T : x < y => End(Cut(CellsOf(free), x)) <= y
<1> DEFINE run == CellsOf(free)
           e(x) == End(Cut(run, x))
           Bad == {y \in T : \E x \in T : x < y /\ ~(e(x) <= y)}
<1>1. T \subseteq Nat /\ \A x \in T : StartsBlock(run, T, x)
  BY HeapAssumption DEF Starts, Addrs
<1>2. ASSUME NEW x \in T
      PROVE  /\ x \in Nat /\ e(x) \in Nat
             /\ \A y \in Int : x <= y /\ y < e(x) => y \in run
  <2>1. x \in run /\ Aligned(x)
    BY StartsAligned
  <2>2. Cut(run, x) \in Blocks /\ Cut(run, x).addr = x /\ Cells(Cut(run, x)) \subseteq run
    BY <2>1, CutFits
  <2>3. /\ e(x) \in Nat
        /\ \A y \in Int : y \in Cells(Cut(run, x)) <=> x <= y /\ y < e(x)
    BY <2>2, BlockFacts
  <2> QED BY <1>1, <2>2, <2>3
<1> HIDE DEF e
<1>3. ASSUME Bad # {} PROVE FALSE
  <2>1. PICK y \in Bad : \A z \in Bad : y <= z
    <3>1. Bad \in SUBSET Nat
      BY <1>1
    <3> HIDE DEF Bad
    <3> QED BY <1>3, <3>1, Least
  <2>2. PICK x \in T : x < y /\ ~(e(x) <= y)
    BY <2>1
  <2>3. y \in T /\ y \in Nat /\ x \in Nat /\ e(x) \in Nat
    BY <1>1, <1>2, <2>1, <2>2
  <2>4. \A v, w \in T : v < w /\ w < y => e(v) <= w
    <3> SUFFICES ASSUME NEW v \in T, NEW w \in T, v < w, w < y, ~(e(v) <= w) PROVE FALSE
      OBVIOUS
    <3>1. w \in Bad /\ w \in Nat
      BY <1>1
    <3> QED BY <2>1, <2>3, <3>1
  <2>5. CASE y - 1 \notin run
    <3>1. y - 1 \in Int /\ x <= y - 1 /\ y - 1 < e(x)
      BY <2>2, <2>3
    <3> QED BY <1>2, <2>5, <3>1
  <2>6. ASSUME NEW z \in 0 .. y - 1, z \in T, End(Cut(run, z)) = y PROVE FALSE
    <3>1. e(z) = y
      BY <2>6 DEF e
    <3>2. z \in Nat /\ z < y
      BY <2>3, <2>6
    <3>3. CASE x = z
      BY <2>2, <2>3, <3>1, <3>3
    <3>4. CASE x < z
      <4>1. e(x) <= z
        BY <2>4, <2>6, <3>2, <3>4
      <4> QED BY <2>2, <2>3, <3>2, <4>1
    <3>5. CASE z < x
      <4>1. e(z) <= x
        BY <2>2, <2>4, <2>6, <3>5
      <4> QED BY <2>2, <2>3, <3>1, <4>1
    <3> QED BY <2>3, <3>2, <3>3, <3>4, <3>5
  <2> QED BY <1>1, <2>3, <2>5, <2>6 DEF StartsBlock
<1>4. ASSUME NEW x \in T, NEW y \in T, x < y PROVE e(x) <= y
  BY <1>3, <1>4
<1> QED BY <1>4 DEF e

\* Merging keeps the lists in order: a run is cut into blocks of its own
\* granules that share nothing.
LEMMA MergedApart ==
    ASSUME HeapInv
    PROVE  /\ \A b \in Merged : Fits(b) /\ Cells(b) \subseteq CellsOf(free)
           /\ \A b, d \in Merged : b # d => Disjoint(b, d)
<1> DEFINE run == CellsOf(free)
<1>1. PICK T : Starts(run, T) /\ Merged = {Cut(run, x) : x \in T}
  BY MergedStarts
<1>2. \A x \in T : x \in run /\ Aligned(x)
  BY <1>1, StartsAligned
<1>3. \A x \in T : Cut(run, x) \in Blocks /\ Cut(run, x).addr = x
                   /\ Cells(Cut(run, x)) \subseteq run
  BY <1>2, CutFits
<1>4. run \subseteq Taken
  BY RunFacts
<1>5. \A x, y \in T : x < y => End(Cut(run, x)) <= y
  BY <1>1, CutsApart
<1> HIDE DEF run
<1>6. ASSUME NEW b \in Merged PROVE Fits(b) /\ Cells(b) \subseteq run
  <2>1. PICK x \in T : b = Cut(run, x)
    BY <1>1
  <2> QED BY <1>2, <1>3, <1>4, <2>1 DEF Fits
<1>7. ASSUME NEW b \in Merged, NEW d \in Merged, b # d PROVE Disjoint(b, d)
  <2>1. PICK x \in T : b = Cut(run, x)
    BY <1>1
  <2>2. PICK y \in T : d = Cut(run, y)
    BY <1>1
  <2>3. x # y /\ b \in Blocks /\ d \in Blocks /\ b.addr = x /\ d.addr = y
    BY <1>3, <1>7, <2>1, <2>2
  <2>4. x \in Nat /\ y \in Nat
    BY <2>3, BlockFacts
  <2>5. End(b) <= d.addr \/ End(d) <= b.addr
    BY <1>5, <2>1, <2>2, <2>3, <2>4
  <2> QED BY <2>3, <2>5, DisjointBlocks
<1> QED BY <1>6, <1>7 DEF run

\* defragmentFreeLists.
LEMMA DefragmentStep ==
    ASSUME HeapSafe, Defragment
    PROVE  HeapSafe'
<1>0. /\ pc = "attempt" /\ Cardinality(free) >= 2 /\ free' = Merged
      /\ UNCHANGED <<bumps, own, view, reloc, dest>> /\ own' = own /\ view' = view
      /\ pc' = pc /\ hand' = hand /\ request' = request /\ garbage' = garbage /\ oom' = oom
  BY DEF Defragment, CanDefragment
<1>1. HeapInv /\ Control /\ HandApart /\ OwnApart
  BY <1>0, AtRest DEF HeapInv
<1>2. LiveOwners' = LiveOwners
  BY <1>0 DEF LiveOwners
<1>3. HandApart'
  BY <1>0, <1>1 DEF HandApart
<1>4. Control'
  BY <1>0, <1>1, <1>2, NoRequestFacts DEF Control
<1>5. \A b \in free' : Fits(b) /\ \A d \in free' : d # b => Disjoint(b, d)
  BY <1>0, <1>1, MergedApart
<1>6. ASSUME NEW b \in free', NEW o \in LiveOwners PROVE Disjoint(own[o], b)
  <2>1. Cells(b) \subseteq CellsOf(free)
    BY <1>0, <1>1, MergedApart
  <2>2. ASSUME NEW x \in Cells(b), x \in Cells(own[o]) PROVE FALSE
    <3>1. PICK d \in free : x \in Cells(d)
      BY <1>1, <2>1, RunFacts
    <3>2. Cells(d) \cap Cells(own[o]) = {}
      BY <1>1, FreeFacts
    <3> QED BY <2>2, <3>1, <3>2
  <2> QED BY <2>2 DEF Disjoint
<1>7. HeapInv'
  BY <1>0, <1>1, <1>3, <1>4, <1>5, <1>6, Reshape
<1>8. Repacked'
  <2>1. ASSUME request.stage = 3, request.packed, LiveOwners # {} PROVE FALSE
    <3>1. free = {}
      BY <1>0, <2>1 DEF HeapSafe, Repacked
    <3>2. Cardinality({}) = 0
      BY FS_EmptySet
    <3> QED BY <1>0, <3>1, <3>2
  <2> QED BY <1>0, <1>2, <2>1 DEF Repacked
<1>9. OomIsReal'
  BY <1>0, <1>1 DEF Control, OomIsReal
<1> QED BY <1>7, <1>8, <1>9 DEF HeapSafe
----------------------------------------------------------------------------
(* compactManagedHeap.                                                     *)

\* What a live block takes, wherever it is.
Size(o) == ClassSize(own[o].class)

\* A live block ends below the overflow bump.
LEMMA EndsBelow ==
    ASSUME HeapInv, NEW o \in LiveOwners
    PROVE  /\ o \in Owners /\ own[o] \in Blocks /\ own[o] # NoBlock
           /\ own[o].addr \in Nat /\ own[o].addr \in Addrs /\ own[o].class \in Classes
           /\ Size(o) \in Nat \ {0} /\ Aligned(Size(o))
           /\ End(own[o]) = own[o].addr + Size(o)
           /\ own[o].addr + Size(o) <= overflowBump
           /\ \A x \in Int : x \in Cells(own[o]) <=>
                                 own[o].addr <= x /\ x < own[o].addr + Size(o)
<1>1. o \in Owners /\ own[o] \in Blocks /\ own[o] # NoBlock /\ Cells(own[o]) \subseteq Taken
  BY LiveFacts DEF HeapInv, Fits
<1>2. /\ own[o].addr \in Nat /\ own[o].addr \in Addrs /\ own[o].class \in Classes
      /\ Size(o) \in Nat \ {0} /\ End(own[o]) = own[o].addr + Size(o)
      /\ End(own[o]) - 1 \in Cells(own[o])
      /\ \A x \in Int : x \in Cells(own[o]) <=> own[o].addr <= x /\ x < End(own[o])
  BY <1>1, BlockFacts DEF Size
<1>3. Aligned(Size(o))
  BY <1>2, Sizes DEF Size
<1>4. overflowBump \in Nat
  BY Regions DEF HeapInv, BumpsInOrder
<1>5. End(own[o]) - 1 \in 0 .. overflowBump - 1
  BY <1>1, <1>2 DEF Taken
<1>6. own[o].addr + Size(o) <= overflowBump
  BY <1>2, <1>4, <1>5
<1> QED BY <1>1, <1>2, <1>3, <1>6

\* The next block is copied down to dest.
LEMMA CompactMoveStep ==
    ASSUME HeapSafe, CompactMove
    PROVE  HeapSafe'
<1>0. HeapInv /\ BumpsInOrder /\ Control /\ OwnApart /\ HandApart /\ ViewInsideSource /\ Packed
  BY DEF HeapSafe, HeapInv
<1>1. RoundUp(dest, Align) = dest
  BY <1>0, RoundUpAligned DEF Packed
<1>2. PICK o \in Unmoved : /\ \A p \in Unmoved : own[o].addr <= own[p].addr
                           /\ reloc' = [reloc EXCEPT ![o] = dest]
                           /\ dest' = dest + Size(o)
  BY <1>1 DEF CompactMove, Size
<1>3. /\ pc = "compact" /\ UNCHANGED <<bumps, free, own>>
      /\ own' = own /\ view' = view /\ pc' = pc /\ hand' = hand /\ request' = request
      /\ garbage' = garbage /\ oom' = oom /\ overflowBump' = overflowBump
  BY DEF CompactMove, bumps
<1>4. o \in LiveOwners /\ reloc[o] = NoBlock
  BY <1>2 DEF Unmoved
<1>5. /\ o \in Owners /\ own[o] \in Blocks /\ own[o] # NoBlock
      /\ own[o].addr \in Nat /\ own[o].addr \in Addrs
      /\ Size(o) \in Nat \ {0} /\ Aligned(Size(o))
      /\ End(own[o]) = own[o].addr + Size(o) /\ own[o].addr + Size(o) <= overflowBump
  BY <1>0, <1>4, EndsBelow
<1>6. overflowBump \in Nat /\ HeapSize \in Nat
  BY <1>0, Regions DEF BumpsInOrder
<1>7. /\ dest \in Nat /\ Aligned(dest) /\ dest <= own[o].addr
      /\ reloc \in [Owners -> Addrs \cup {NoBlock}]
  BY <1>0, <1>4, <1>6 DEF Packed
<1>8. dest \in Addrs /\ dest # NoBlock /\ dest + Size(o) \in 0 .. overflowBump
  BY <1>5, <1>6, <1>7, NoBlockAssumption DEF Addrs
<1>9. Aligned(dest + Size(o))
  BY <1>5, <1>7, AlignedSums
<1>10. /\ reloc' \in [Owners -> Addrs \cup {NoBlock}] /\ reloc'[o] = dest
       /\ \A p \in Owners : p # o => reloc'[p] = reloc[p]
  BY <1>2, <1>5, <1>7, <1>8
<1>11. BumpsInOrder' /\ FreeApart' /\ OwnApart' /\ LiveOwners' = LiveOwners /\ Taken' = Taken
  BY <1>0, <1>3, SameHeap
<1>12. ASSUME NEW p \in Owners, reloc[p] # NoBlock
       PROVE  /\ p # o /\ own[p] # NoBlock /\ reloc[p] <= own[p].addr /\ Aligned(reloc[p])
              /\ reloc[p] + Size(p) <= dest /\ reloc[p] \in Nat /\ Size(p) \in Nat \ {0}
  <2>1. own[p] # NoBlock /\ reloc[p] <= own[p].addr /\ Aligned(reloc[p])
        /\ reloc[p] + Size(p) <= dest
    BY <1>0, <1>12 DEF Packed, Size
  <2>2. p \in LiveOwners
    BY <2>1 DEF LiveOwners
  <2>3. Size(p) \in Nat \ {0}
    BY <1>0, <2>2, EndsBelow
  <2>4. reloc[p] \in Nat
    BY <1>6, <1>7, <1>12 DEF Addrs
  <2> QED BY <1>4, <1>12, <2>1, <2>3, <2>4
<1>13. Packed'
  <2>1. ASSUME NEW p \in Owners, reloc'[p] # NoBlock
        PROVE  /\ own[p] # NoBlock /\ reloc'[p] <= own[p].addr /\ Aligned(reloc'[p])
               /\ reloc'[p] + Size(p) <= dest'
               /\ \A q \in Owners : q # p /\ reloc'[q] # NoBlock =>
                     reloc'[p] + Size(p) <= reloc'[q] \/ reloc'[q] + Size(q) <= reloc'[p]
    <3>1. CASE p = o
      <4>1. reloc'[p] = dest /\ dest' = dest + Size(p)
        BY <1>2, <1>10, <3>1
      <4>2. ASSUME NEW q \in Owners, q # p, reloc'[q] # NoBlock
            PROVE  reloc'[q] + Size(q) <= reloc'[p]
        <5>1. reloc'[q] = reloc[q]
          BY <1>10, <3>1, <4>2
        <5> QED BY <1>12, <4>1, <4>2, <5>1
      <4>3. dest + Size(p) <= dest'
        BY <1>5, <1>7, <3>1, <4>1
      <4> QED BY <1>5, <1>7, <3>1, <4>1, <4>2, <4>3
    <3>2. CASE p # o
      <4>1. reloc'[p] = reloc[p] /\ reloc[p] # NoBlock
        BY <1>10, <2>1, <3>2
      <4>2. /\ own[p] # NoBlock /\ reloc[p] <= own[p].addr /\ Aligned(reloc[p])
            /\ reloc[p] + Size(p) <= dest /\ reloc[p] \in Nat /\ Size(p) \in Nat \ {0}
        BY <1>12, <4>1
      <4>3. reloc[p] + Size(p) <= dest'
        BY <1>2, <1>5, <1>7, <4>2
      <4>4. ASSUME NEW q \in Owners, q # p, reloc'[q] # NoBlock
            PROVE  reloc[p] + Size(p) <= reloc'[q] \/ reloc'[q] + Size(q) <= reloc[p]
        <5>1. CASE q = o
          BY <1>10, <4>2, <5>1
        <5>2. CASE q # o
          <6>1. reloc'[q] = reloc[q]
            BY <1>10, <5>2
          <6> QED BY <1>0, <4>1, <4>4, <6>1 DEF Packed, Size
        <5> QED BY <5>1, <5>2
      <4> QED BY <4>1, <4>2, <4>3, <4>4
    <3> QED BY <3>1, <3>2
  <2>2. ASSUME NEW p \in LiveOwners, reloc'[p] = NoBlock PROVE dest' <= own[p].addr
    <3>1. p # o /\ p \in Owners
      BY <1>8, <1>10, <2>2 DEF LiveOwners
    <3>2. p \in Unmoved
      BY <1>10, <2>2, <3>1 DEF Unmoved
    <3>3. own[o].addr <= own[p].addr
      BY <1>2, <3>2
    <3>4. /\ own[p] \in Blocks /\ own[p].addr \in Nat /\ Size(p) \in Nat \ {0}
          /\ End(own[p]) = own[p].addr + Size(p)
      BY <1>0, <2>2, EndsBelow
    <3>5. Disjoint(own[o], own[p])
      BY <1>0, <1>4, <2>2, <3>1 DEF OwnApart
    <3>6. End(own[o]) <= own[p].addr \/ End(own[p]) <= own[o].addr
      BY <1>5, <3>4, <3>5, DisjointBlocks
    <3>7. own[o].addr + Size(o) <= own[p].addr
      BY <1>5, <3>3, <3>4, <3>6
    <3> QED BY <1>2, <1>5, <1>7, <3>4, <3>7
  <2>3. ASSUME NEW x \in 0 .. dest' - 1
        PROVE  \E p \in Owners :
                   reloc'[p] # NoBlock /\ x \in reloc'[p] .. reloc'[p] + Size(p) - 1
    <3>1. x \in Nat /\ x < dest + Size(o)
      BY <1>2, <1>5, <1>7
    <3>2. CASE x < dest
      <4>1. x \in 0 .. dest - 1
        BY <1>7, <3>1, <3>2
      <4>2. PICK p \in Owners : reloc[p] # NoBlock /\ x \in reloc[p] .. reloc[p] + Size(p) - 1
        BY <1>0, <4>1 DEF Packed, Size
      <4>3. reloc'[p] = reloc[p]
        BY <1>10, <1>12, <4>2
      <4> QED BY <4>2, <4>3
    <3>3. CASE dest <= x
      <4>1. x \in dest .. dest + Size(o) - 1
        BY <1>5, <1>7, <3>1, <3>3
      <4> QED BY <1>5, <1>8, <1>10, <4>1
    <3> QED BY <1>7, <3>1, <3>2, <3>3
  <2>4. dest' \in 0 .. overflowBump' /\ Aligned(dest')
    BY <1>2, <1>3, <1>8, <1>9
  <2> QED BY <1>3, <1>10, <1>11, <2>1, <2>2, <2>3, <2>4 DEF Packed, Size
<1>14. HandApart'
  BY <1>0, <1>3 DEF HandApart
<1>15. Control'
  BY <1>0, <1>3, <1>11, NoRequestFacts DEF Control
<1>16. ViewInsideSource'
  BY <1>0, <1>3 DEF ViewInsideSource
<1>17. HeapInv'
  BY <1>11, <1>13, <1>14, <1>15, <1>16 DEF HeapInv
<1>18. pc' # "attempt" /\ oom' = NoBlock
  BY <1>0, <1>3 DEF Control
<1> QED BY <1>17, <1>18, NotTheLastAttempt

\* The table of moves has one entry for an address of a live block: its own.
LEMMA FindRelocFacts ==
    ASSUME HeapInv, NEW o \in LiveOwners, NEW a \in Cells(own[o])
    PROVE  FindReloc(a) = reloc[o] + (a - own[o].addr)
<1> DEFINE hit == {p \in LiveOwners : a \in Cells(own[p])}
<1>1. \A p \in LiveOwners : p # o => Cells(own[o]) \cap Cells(own[p]) = {}
  BY DEF HeapInv, OwnApart, Disjoint
<1>2. hit = {o}
  BY <1>1
<1>3. (CHOOSE p \in hit : TRUE) = o
  BY <1>2
<1>4. FindReloc(a) = LET p == CHOOSE p \in hit : TRUE IN reloc[p] + (a - own[p].addr)
  BY <1>2 DEF FindReloc
<1> HIDE DEF hit
<1> QED BY <1>3, <1>4

\* Every pointer is replaced, and the bumps are put behind the packed blocks.
LEMMA CompactEndsStep ==
    ASSUME HeapSafe, CompactEnds
    PROVE  HeapSafe'
<1>0. HeapInv /\ BumpsInOrder /\ Control /\ OwnApart /\ HandApart /\ ViewInsideSource /\ Packed
  BY DEF HeapSafe, HeapInv
<1>1. /\ pc = "compact" /\ Unmoved = {} /\ LiveOwners # {}
      /\ own' = [o \in Owners |-> IF own[o] = NoBlock THEN NoBlock
                                  ELSE [own[o] EXCEPT !.addr = FindReloc(own[o].addr)]]
      /\ view' = IF view = NoBlock THEN NoBlock
                 ELSE [view EXCEPT !.addr = FindReloc(view.addr)]
      /\ classBump' = [c \in Classes |-> ClassEnd(c)] /\ free' = {}
      /\ overflowBump' = CompactedEnd /\ pc' = "attempt" /\ reloc' = NoReloc /\ dest' = 0
      /\ permanentBump' = permanentBump /\ hand' = hand /\ request' = request
      /\ garbage' = garbage /\ oom' = oom
  BY DEF CompactEnds
<1>2. /\ HeapSize \in Nat /\ OverflowBase \in 0 .. HeapSize /\ Aligned(OverflowBase)
      /\ \A c \in Classes : /\ ClassBase(c) \in Nat /\ ClassEnd(c) \in Nat
                            /\ Aligned(ClassEnd(c)) /\ ClassBase(c) <= ClassEnd(c)
  BY Regions
<1>3. /\ permanentBump \in 0 .. HeapSize /\ overflowBump \in OverflowBase .. permanentBump
      /\ overflowBump \in Nat /\ dest \in 0 .. overflowBump /\ dest \in Nat /\ Aligned(dest)
  BY <1>0, <1>2 DEF BumpsInOrder, Packed
<1>4. /\ overflowBump' \in OverflowBase .. permanentBump /\ Aligned(overflowBump')
      /\ dest <= overflowBump' /\ overflowBump' \in Nat
      /\ overflowBump' = IF dest > OverflowBase THEN dest ELSE OverflowBase
  BY <1>1, <1>2, <1>3 DEF CompactedEnd
<1>5. BumpsInOrder'
  <2>1. /\ \A d \in Classes : ClassBase(d)' = ClassBase(d) /\ ClassEnd(d)' = ClassEnd(d)
        /\ OverflowBase' = OverflowBase
    BY DEF ClassBase, ClassEnd, OverflowBase
  <2> QED BY <1>1, <1>2, <1>3, <1>4, <2>1 DEF BumpsInOrder
<1>6. 0 .. dest - 1 \subseteq Taken'
  <2> SUFFICES ASSUME NEW x \in 0 .. dest - 1 PROVE x \in Taken'
    OBVIOUS
  <2>1. x \in 0 .. overflowBump' - 1
    BY <1>3, <1>4
  <2>2. \A c \in Classes : x < classBump'[c] \/ ClassEnd(c) <= x
    <3>1. \A c \in Classes : classBump'[c] = ClassEnd(c) /\ ClassEnd(c) \in Nat
      BY <1>1, <1>2
    <3> QED BY <1>3, <3>1
  <2>3. \A c \in Classes : ClassEnd(c)' = ClassEnd(c)
    BY DEF ClassEnd
  <2> QED BY <2>1, <2>2, <2>3 DEF Taken
<1>7. ASSUME NEW o \in LiveOwners
      PROVE  /\ o \in Owners /\ reloc[o] # NoBlock /\ reloc[o] \in Addrs /\ reloc[o] \in Nat
             /\ Aligned(reloc[o]) /\ reloc[o] + Size(o) <= dest /\ Size(o) \in Nat \ {0}
             /\ own'[o] = [addr |-> reloc[o], class |-> own[o].class]
             /\ own'[o] \in Blocks /\ own'[o].addr = reloc[o]
             /\ End(own'[o]) = reloc[o] + Size(o)
             /\ Cells(own'[o]) = reloc[o] .. reloc[o] + Size(o) - 1
             /\ Cells(own'[o]) \subseteq 0 .. dest - 1
  <2>1. /\ o \in Owners /\ own[o] \in Blocks /\ own[o] # NoBlock /\ own[o].class \in Classes
        /\ own[o].addr \in Nat /\ Size(o) \in Nat \ {0} /\ own[o].addr \in Cells(own[o])
    BY <1>0, EndsBelow, BlockFacts
  <2>2. reloc[o] # NoBlock
    BY <1>1 DEF Unmoved
  <2>3. reloc[o] \in Addrs /\ Aligned(reloc[o]) /\ reloc[o] + Size(o) <= dest
    BY <1>0, <2>1, <2>2 DEF Packed, Size
  <2>4. reloc[o] \in Nat
    BY <1>2, <2>3 DEF Addrs
  <2>5. FindReloc(own[o].addr) = reloc[o]
    <3>1. FindReloc(own[o].addr) = reloc[o] + (own[o].addr - own[o].addr)
      BY <1>0, <2>1, FindRelocFacts
    <3> QED BY <2>1, <2>4, <3>1
  <2>6. own'[o] = [own[o] EXCEPT !.addr = reloc[o]]
    BY <1>1, <2>1, <2>5
  <2>7. own'[o] = [addr |-> reloc[o], class |-> own[o].class]
    BY <2>1, <2>6 DEF Blocks
  <2>8. /\ own'[o] \in Blocks /\ own'[o].addr = reloc[o]
        /\ End(own'[o]) = reloc[o] + Size(o)
        /\ Cells(own'[o]) = reloc[o] .. reloc[o] + Size(o) - 1
    BY <2>1, <2>3, <2>7, BlockAt DEF Size
  <2>9. reloc[o] .. reloc[o] + Size(o) - 1 \subseteq 0 .. dest - 1
    <3>1. \A r, s, d \in Nat : r + s <= d => r .. r + s - 1 \subseteq 0 .. d - 1
      OBVIOUS
    <3> QED BY <1>3, <2>1, <2>3, <2>4, <3>1
  <2> QED BY <2>1, <2>2, <2>3, <2>4, <2>7, <2>8, <2>9
<1>8. ASSUME NEW o \in Owners PROVE own[o] = NoBlock => own'[o] = NoBlock
  BY <1>1
<1>9. own' \in [Owners -> Blocks \cup {NoBlock}] /\ LiveOwners' = LiveOwners
  <2>1. \A o \in Owners : own'[o] \in Blocks \cup {NoBlock}
    BY <1>7, <1>8 DEF LiveOwners
  <2>2. \A o \in Owners : own'[o] # NoBlock <=> own[o] # NoBlock
    BY <1>7, <1>8, NoBlockAssumption DEF LiveOwners
  <2>3. own' = [o \in Owners |-> own'[o]]
    BY <1>1
  <2> QED BY <2>1, <2>2, <2>3 DEF LiveOwners
<1>10. FreeApart'
  BY <1>1 DEF FreeApart
<1>11. OwnApart'
  <2>1. ASSUME NEW o \in LiveOwners, NEW p \in LiveOwners, p # o
        PROVE  Disjoint(own'[o], own'[p])
    <3>1. reloc[o] + Size(o) <= reloc[p] \/ reloc[p] + Size(p) <= reloc[o]
      BY <1>0, <1>7, <2>1 DEF Packed, Size
    <3>2. End(own'[o]) <= own'[p].addr \/ End(own'[p]) <= own'[o].addr
      BY <1>7, <3>1
    <3> QED BY <1>7, <3>2, DisjointBlocks
  <2>2. ASSUME NEW o \in LiveOwners
        PROVE  own'[o] \in Blocks /\ Aligned(own'[o].addr) /\ Cells(own'[o]) \subseteq Taken'
    BY <1>6, <1>7
  <2> QED BY <1>1, <1>9, <2>1, <2>2 DEF OwnApart, Fits, Disjoint
<1>12. HandApart'
  BY <1>0, <1>1 DEF HandApart
<1>13. ASSUME view # NoBlock
       PROVE  /\ view.of \in LiveOwners /\ view'.of = view.of
              /\ view' \in [of : Owners, addr : Nat] /\ view'.addr \in Cells(own'[view.of])
  <2> DEFINE o == view.of
  <2>1. /\ view \in [of : Owners, addr : Nat] /\ own[o] # NoBlock
        /\ view.addr \in Cells(own[o]) /\ view.addr \in Nat /\ o \in Owners
    BY <1>0, <1>13 DEF Control, ViewInsideSource
  <2>2. o \in LiveOwners
    BY <2>1 DEF LiveOwners
  <2> HIDE DEF o
  <2>3. FindReloc(view.addr) = reloc[o] + (view.addr - own[o].addr)
    BY <1>0, <2>1, <2>2, FindRelocFacts
  <2>4. /\ own[o].addr \in Nat /\ own[o].addr <= view.addr
        /\ view.addr < own[o].addr + Size(o)
    BY <1>0, <2>1, <2>2, EndsBelow
  <2>5. /\ FindReloc(view.addr) \in Nat
        /\ FindReloc(view.addr) \in reloc[o] .. reloc[o] + Size(o) - 1
    <3>1. \A r, s, a, b \in Nat :
             b <= a /\ a < b + s => r + (a - b) \in Nat /\ r + (a - b) \in r .. r + s - 1
      OBVIOUS
    <3>2. reloc[o] \in Nat /\ Size(o) \in Nat
      BY <1>7, <2>2
    <3> QED BY <2>1, <2>3, <2>4, <3>1, <3>2
  <2>6. view' = [view EXCEPT !.addr = FindReloc(view.addr)]
    BY <1>1, <1>13
  <2>7. /\ view' \in [of : Owners, addr : Nat] /\ view'.of = view.of
        /\ view'.addr = FindReloc(view.addr)
    BY <2>1, <2>5, <2>6
  <2>8. view'.addr \in Cells(own'[o])
    BY <1>7, <2>2, <2>5, <2>7
  <2> QED BY <2>2, <2>7, <2>8 DEF o
<1>14. view = NoBlock => view' = NoBlock
  BY <1>1
<1>15. Control'
  <2>1. view' # NoBlock =>
           /\ view' \in [of : Owners, addr : Nat]
           /\ view'.of \in Owners \ (Growable \cup garbage)
           /\ request # NoRequest => request.owner # view'.of
    BY <1>0, <1>13, <1>14, RequestFacts DEF Control
  <2> QED BY <1>0, <1>1, <1>9, <2>1, NoRequestFacts DEF Control
<1>16. ViewInsideSource'
  <2>1. ASSUME view' # NoBlock
        PROVE  own'[view'.of] # NoBlock /\ view'.addr \in Cells(own'[view'.of])
    <3>1. view.of \in LiveOwners /\ view'.of = view.of /\ view'.addr \in Cells(own'[view.of])
      BY <1>13, <1>14, <2>1
    <3>2. own'[view.of] \in Blocks
      BY <1>7, <3>1
    <3> QED BY <3>1, <3>2, NoBlockAssumption
  <2> QED BY <2>1 DEF ViewInsideSource
<1>17. Packed'
  BY <1>1, <1>5, <1>9, NothingPacked
<1>18. HeapInv'
  BY <1>5, <1>10, <1>11, <1>12, <1>15, <1>16, <1>17 DEF HeapInv
<1>19. CellsOf(LiveBlocks)' = 0 .. dest - 1
  <2>1. CellsOf(LiveBlocks)' = UNION {Cells(own'[o]) : o \in LiveOwners}
    <3>1. CellsOf(LiveBlocks)' = UNION {Cells(b) : b \in {own'[o] : o \in LiveOwners}}
      BY <1>9 DEF CellsOf, LiveBlocks
    <3>2. {Cells(b) : b \in {own'[o] : o \in LiveOwners}} = {Cells(own'[o]) : o \in LiveOwners}
      OBVIOUS
    <3> QED BY <3>1, <3>2
  <2>2. ASSUME NEW x \in UNION {Cells(own'[o]) : o \in LiveOwners} PROVE x \in 0 .. dest - 1
    <3>1. PICK o \in LiveOwners : x \in Cells(own'[o])
      BY Zenon
    <3> QED BY <1>7, <3>1
  <2>3. ASSUME NEW x \in 0 .. dest - 1 PROVE x \in UNION {Cells(own'[o]) : o \in LiveOwners}
    <3>1. PICK o \in Owners : reloc[o] # NoBlock /\ x \in reloc[o] .. reloc[o] + Size(o) - 1
      BY <1>0 DEF Packed, Size
    <3>2. o \in LiveOwners
      BY <1>0, <3>1 DEF Packed, LiveOwners
    <3>3. x \in Cells(own'[o]) /\ Cells(own'[o]) \in {Cells(own'[p]) : p \in LiveOwners}
      BY <1>7, <3>1, <3>2
    <3> QED BY <3>3, Zenon
  <2> QED BY <2>1, <2>2, <2>3
<1>20. Repacked'
  <2>1. dest \in 0 .. HeapSize /\ OverflowBase' = OverflowBase
    BY <1>2, <1>3 DEF OverflowBase
  <2> QED BY <1>1, <1>4, <1>19, <2>1 DEF Repacked
<1>21. OomIsReal'
  BY <1>0, <1>1 DEF Control, OomIsReal
<1> QED BY <1>18, <1>20, <1>21 DEF HeapSafe
----------------------------------------------------------------------------
(* The theorems.                                                           *)

\* Every step keeps the heap in order.
LEMMA HeapStep ==
    ASSUME HeapSafe, [Next]_vars
    PROVE  HeapSafe'
<1>1. CASE UNCHANGED vars
  <2>1. /\ UNCHANGED <<bumps, free, own>> /\ UNCHANGED bumps /\ own' = own /\ view' = view
        /\ pc' = pc /\ hand' = hand /\ request' = request /\ garbage' = garbage
        /\ reloc' = reloc /\ dest' = dest /\ oom' = oom /\ free' = free
        /\ permanentBump' = permanentBump /\ overflowBump' = overflowBump
    BY <1>1 DEF vars, bumps
  <2>2. HeapInv /\ Repacked /\ OomIsReal
    BY DEF HeapSafe
  <2>3. BumpsInOrder' /\ FreeApart' /\ OwnApart' /\ LiveOwners' = LiveOwners /\ Taken' = Taken
    BY <2>1, <2>2, SameHeap
  <2>4. HandApart'
    BY <2>1, <2>2, <2>3 DEF HeapInv, HandApart, Fits, Disjoint
  <2>5. Control' /\ ViewInsideSource'
    BY <2>1, <2>2, <2>3, NoRequestFacts DEF HeapInv, Control, ViewInsideSource
  <2>6. Packed'
    <3>1. NoReloc' = NoReloc
      BY DEF NoReloc
    <3> QED BY <2>1, <2>2, <2>3, <3>1 DEF HeapInv, Packed
  <2>7. LiveSize' = LiveSize /\ OverflowBase' = OverflowBase
        /\ CellsOf(LiveBlocks)' = CellsOf(LiveBlocks)
    BY <2>1, <2>3 DEF LiveSize, LiveBlocks, CellsOf, OverflowBase
  <2>8. Repacked' /\ OomIsReal'
    BY <2>1, <2>2, <2>3, <2>7 DEF Repacked, OomIsReal
  <2> QED BY <2>3, <2>4, <2>5, <2>6, <2>8 DEF HeapSafe, HeapInv
<1>2. CASE \E o \in Owners, c \in Classes : Request(o, c)
  BY <1>2, RequestStep
<1>3. CASE \E o \in Owners, c \in Classes, f \in BOOLEAN : Grow(o, c, f)
  BY <1>3, GrowStep
<1>4. CASE Attempt
  BY <1>4, TakeFreeBlockStep, BumpClassRegionStep, BumpOverflowStep, BeginSplitStep,
     SplitStepStep, EndSplitStep, DefragmentStep DEF Attempt
<1>5. CASE CollectAndRetry \/ CompactAndRetry \/ OutOfMemory \/ Collect
  BY <1>5, CollectAndRetryStep, CompactAndRetryStep, OutOfMemoryStep, CollectStep
<1>6. CASE Sweep
  BY <1>6, SweepNextStep, CoalesceUpperStep, CoalesceLowerStep, PushFreeStep, SweepEndsStep
     DEF Sweep
<1>7. CASE Compact
  BY <1>7, CompactNothingStep, CompactSkipsStep, CompactMoveStep, CompactEndsStep DEF Compact
<1>8. CASE \E o \in Owners : Shrink(o)
  BY <1>8, ShrinkStep
<1>9. CASE DropView \/ \E o \in Owners \ Growable, a \in Addrs : MakeView(o, a)
  BY <1>9, ViewSteps
<1>10. CASE \E n \in PermSizes, a \in {1, Align} : Bump(n, a)
  BY <1>10, BumpStep
<1>11. CASE Reset
  BY <1>11, ResetStep
<1> QED BY <1>1, <1>2, <1>3, <1>4, <1>5, <1>6, <1>7, <1>8, <1>9, <1>10, <1>11 DEF Next

\* The inductive invariant holds in every state.
LEMMA AlwaysSafe == Spec => []HeapSafe
<1>1. Init => HeapSafe
  BY FreshHeap DEF Init
<1>2. HeapSafe /\ [Next]_vars => HeapSafe'
  BY HeapStep
<1> QED BY <1>1, <1>2, PTL DEF Spec

\* The state has its types.
LEMMA SafeTypes == HeapSafe => TypeOK
<1> SUFFICES ASSUME HeapSafe PROVE TypeOK
  OBVIOUS
<1>0. /\ HeapInv /\ BumpsInOrder /\ Control /\ FreeApart /\ OwnApart /\ HandApart
      /\ ViewInsideSource /\ Packed
  BY DEF HeapSafe, HeapInv
<1>1. /\ HeapSize \in Nat /\ OverflowBase \in 0 .. HeapSize
      /\ \A c \in Classes : /\ ClassBase(c) \in Nat /\ ClassEnd(c) \in Nat
                            /\ ClassEnd(c) <= OverflowBase
  BY Regions
<1>2. /\ permanentBump \in 0 .. HeapSize /\ overflowBump \in 0 .. HeapSize
      /\ dest \in 0 .. HeapSize /\ reloc \in [Owners -> Addrs \cup {NoBlock}]
  BY <1>0, <1>1 DEF BumpsInOrder, Packed
<1>3. classBump \in [Classes -> 0 .. HeapSize]
  <2>1. classBump \in [Classes -> Nat]
    BY <1>0 DEF BumpsInOrder
  <2>2. ASSUME NEW c \in Classes PROVE classBump[c] \in 0 .. HeapSize
    <3>1. classBump[c] \in ClassBase(c) .. ClassEnd(c)
      BY <1>0 DEF BumpsInOrder
    <3> QED BY <1>1, <3>1
  <2> QED BY <2>1, <2>2
<1>4. /\ free \subseteq Blocks /\ own \in [Owners -> Blocks \cup {NoBlock}]
      /\ hand \in Blocks \cup {NoBlock}
  BY <1>0 DEF FreeApart, OwnApart, HandApart, Fits
<1>5. view # NoBlock => view.of \in Owners /\ view.addr \in Addrs
  <2> SUFFICES ASSUME view # NoBlock PROVE view.of \in Owners /\ view.addr \in Addrs
    OBVIOUS
  <2>1. view.of \in Owners /\ own[view.of] # NoBlock /\ view.addr \in Cells(own[view.of])
    BY <1>0 DEF Control, ViewInsideSource
  <2>2. Cells(own[view.of]) \subseteq Taken
    BY <1>0, <2>1, LiveFacts DEF Fits
  <2>3. Taken \subseteq Addrs
    BY <1>0, TakenBelow
  <2> QED BY <2>1, <2>2, <2>3
<1>6. RequestOK(request)
  <2>1. CASE request = NoRequest
    <3>1. request.freesOld = FALSE /\ request.packed = TRUE
      BY <2>1, NoRequestFacts
    <3>2. request.freesOld \in BOOLEAN /\ request.packed \in BOOLEAN
      BY <3>1, Zenon
    <3>3. /\ request.owner \in Owners \cup {NoBlock} /\ request.class \in Classes
          /\ request.stage \in 0 .. 3 /\ request.kept = NoBlock
      BY <2>1, Sizes, NoRequestFacts
    <3> QED BY <3>2, <3>3, Zenon DEF RequestOK
  <2>2. CASE request # NoRequest
    BY <1>0, <2>2, RequestFacts DEF RequestOK
  <2> QED BY <2>1, <2>2
<1>7. /\ pc \in {"idle", "attempt", "split", "sweep", "coalesce", "compact"}
      /\ garbage \subseteq Owners /\ oom \in Failures \cup {NoBlock}
  BY <1>0 DEF Control, LiveOwners
<1> QED BY <1>2, <1>3, <1>4, <1>5, <1>6, <1>7 DEF TypeOK

\* The data of two live slices does not overlap: a block that compaction has moved
\* lies below dest, one that it has not lies above.
LEMMA SafeLive == HeapSafe => LiveDisjoint
<1> SUFFICES ASSUME HeapSafe, NEW o \in LiveOwners, NEW p \in LiveOwners, o # p
             PROVE  Cells(Place(o)) \cap Cells(Place(p)) = {}
  BY DEF LiveDisjoint
<1>0. HeapInv /\ BumpsInOrder /\ OwnApart /\ Packed
  BY DEF HeapSafe, HeapInv
<1> DEFINE at(q) == Place(q).addr
<1>1. dest \in Nat /\ HeapSize \in Nat
  <2>1. overflowBump \in Nat /\ HeapSize \in Nat
    BY <1>0, Regions DEF BumpsInOrder
  <2> QED BY <1>0, <2>1 DEF Packed
<1>2. ASSUME NEW q \in LiveOwners
      PROVE  /\ Place(q) \in Blocks /\ End(Place(q)) = at(q) + Size(q)
             /\ at(q) \in Nat /\ Size(q) \in Nat \ {0} /\ q \in Owners
             /\ reloc[q] = NoBlock => Place(q) = own[q] /\ dest <= at(q)
             /\ reloc[q] # NoBlock => at(q) = reloc[q] /\ at(q) + Size(q) <= dest
  <2>1. /\ q \in Owners /\ own[q] \in Blocks /\ own[q] # NoBlock /\ own[q].class \in Classes
        /\ own[q].addr \in Nat /\ Size(q) \in Nat \ {0}
        /\ End(own[q]) = own[q].addr + Size(q)
    BY <1>0, EndsBelow
  <2>2. CASE reloc[q] = NoBlock
    <3>1. Place(q) = own[q] /\ dest <= own[q].addr
      BY <1>0, <2>2 DEF Place, Packed
    <3> QED BY <2>1, <2>2, <3>1
  <2>3. CASE reloc[q] # NoBlock
    <3>1. reloc[q] \in Addrs /\ reloc[q] + Size(q) <= dest
      BY <1>0, <2>1, <2>3 DEF Packed, Size
    <3>2. Place(q) = [addr |-> reloc[q], class |-> own[q].class]
      BY <2>1, <2>3 DEF Place, Blocks
    <3>3. Place(q) \in Blocks /\ at(q) = reloc[q] /\ End(Place(q)) = reloc[q] + Size(q)
      BY <2>1, <3>1, <3>2, BlockAt DEF Size
    <3>4. reloc[q] \in Nat
      BY <1>1, <3>1 DEF Addrs
    <3> QED BY <2>1, <2>3, <3>1, <3>3, <3>4
  <2> QED BY <2>2, <2>3
<1>3. CASE reloc[o] = NoBlock /\ reloc[p] = NoBlock
  BY <1>0, <1>2, <1>3 DEF OwnApart, Disjoint
<1>4. CASE reloc[o] # NoBlock \/ reloc[p] # NoBlock
  <2> HIDE DEF at
  <2>1. at(o) + Size(o) <= at(p) \/ at(p) + Size(p) <= at(o)
    <3>1. CASE reloc[o] # NoBlock /\ reloc[p] # NoBlock
      <4>1. reloc[o] + Size(o) <= reloc[p] \/ reloc[p] + Size(p) <= reloc[o]
        BY <1>0, <1>2, <3>1 DEF Packed, Size
      <4> QED BY <1>2, <3>1, <4>1
    <3>2. CASE reloc[o] # NoBlock /\ reloc[p] = NoBlock
      BY <1>1, <1>2, <3>2
    <3>3. CASE reloc[o] = NoBlock /\ reloc[p] # NoBlock
      BY <1>1, <1>2, <3>3
    <3> QED BY <1>4, <3>1, <3>2, <3>3
  <2>2. End(Place(o)) <= Place(p).addr \/ End(Place(p)) <= Place(o).addr
    BY <1>2, <2>1 DEF at
  <2>3. Disjoint(Place(o), Place(p))
    BY <1>2, <2>2, DisjointBlocks
  <2> QED BY <2>3 DEF Disjoint
<1> QED BY <1>3, <1>4

\* No granule has two uses: the lists, the block in hand and the owners share
\* nothing, and hold only what the bumps have handed out.
LEMMA SafeSpace == HeapSafe => SpaceDisjoint
<1> SUFFICES ASSUME HeapSafe PROVE SpaceDisjoint
  OBVIOUS
<1> DEFINE held == hand # NoBlock /\ pc \in {"split", "coalesce"}
           live == CellsOf(LiveBlocks)
           list == CellsOf(free)
           inHand == IF held THEN Cells(hand) ELSE {}
<1>0. HeapInv /\ BumpsInOrder
  BY DEF HeapSafe, HeapInv
<1>1. /\ Taken \subseteq 0 .. permanentBump - 1 /\ Taken \cap Unbumped = {}
  BY <1>0, TakenBelow
<1>2. \A b, d \in free : b # d => Cells(b) \cap Cells(d) = {}
  BY <1>0, FreeFacts
<1>3. \A x \in live : \E o \in LiveOwners : x \in Cells(own[o])
  BY Zenon DEF CellsOf, LiveBlocks
<1>4. \A x \in list : \E b \in free : x \in Cells(b)
  BY <1>0, RunFacts
<1>5. live \subseteq Taken /\ list \subseteq Taken
  <2>1. \A o \in LiveOwners : Cells(own[o]) \subseteq Taken
    BY <1>0, LiveFacts DEF HeapInv, Fits
  <2> HIDE DEF live, list
  <2> QED BY <1>0, <1>3, <2>1, RunFacts DEF list
<1> HIDE DEF live, list
<1>6. list \cap live = {}
  <2>1. \A b \in free : \A o \in LiveOwners : Cells(b) \cap Cells(own[o]) = {}
    BY <1>0, FreeFacts
  <2>2. ASSUME NEW x \in list, x \in live PROVE FALSE
    <3>1. PICK b \in free : x \in Cells(b)
      BY <1>4
    <3>2. PICK o \in LiveOwners : x \in Cells(own[o])
      BY <1>3, <2>2
    <3> QED BY <2>1, <3>1, <3>2
  <2> QED BY <2>2
<1>7. inHand \subseteq Taken /\ inHand \cap (live \cup list) = {}
  <2>1. CASE ~held
    BY <2>1
  <2>2. CASE held
    <3>1. /\ Cells(hand) \subseteq Taken
          /\ \A b \in free : Cells(hand) \cap Cells(b) = {}
          /\ \A o \in LiveOwners : Cells(hand) \cap Cells(own[o]) = {}
      BY <1>0, <2>2, HandFacts DEF Fits
    <3>2. ASSUME NEW x \in Cells(hand), x \in live PROVE FALSE
      BY <1>3, <3>1, <3>2
    <3>3. ASSUME NEW x \in Cells(hand), x \in list PROVE FALSE
      BY <1>4, <3>1, <3>3
    <3> QED BY <2>2, <3>1, <3>2, <3>3
  <2> QED BY <2>1, <2>2
<1> HIDE DEF inHand
<1>8. /\ Unbumped \cap (live \cup list \cup inHand) = {}
      /\ live \cup list \cup inHand \subseteq 0 .. permanentBump - 1
  BY <1>1, <1>5, <1>7
<1> QED BY <1>2, <1>6, <1>7, <1>8, Zenon DEF SpaceDisjoint, live, list, inHand

\* Bumps, addresses and classes stay within the heap that init laid out, whatever
\* is allocated, freed, split, merged and moved.
THEOREM TypeCorrect == Spec => []TypeOK
BY AlwaysSafe, SafeTypes, PTL

\* The data of two live slices never overlaps, also halfway through a compaction.
THEOREM LiveSlicesNeverOverlap == Spec => []LiveDisjoint
BY AlwaysSafe, SafeLive, PTL

\* No granule can be handed out while it holds live or permanent data, or twice:
\* free lists, block in hand, bump regions and live slices share nothing.
THEOREM NothingIsHandedOutTwice == Spec => []SpaceDisjoint
BY AlwaysSafe, SafeSpace, PTL

\* A view's address stays inside the block it was taken from, wherever compaction
\* moves it.
THEOREM ViewsFollowTheirSource == Spec => []ViewInsideSource
<1>1. HeapSafe => ViewInsideSource
  BY DEF HeapSafe, HeapInv
<1> QED BY <1>1, AlwaysSafe, PTL

\* Compaction never copies a block upwards, onto one that is still to be copied.
THEOREM CompactionCopiesDown == Spec => []CopiesDown
<1>1. HeapSafe => CopiesDown
  BY DEF HeapSafe, HeapInv, Packed, CopiesDown, LiveOwners
<1> QED BY <1>1, AlwaysSafe, PTL

\* An allocation that fails had no room: the live data, packed together, leaves too
\* little below the permanent data, unless the host had no memory for the table of
\* the compaction. Merging the free lists may fail for that reason at any attempt.
THEOREM FailureIsReal == Spec => []OomIsReal
<1>1. HeapSafe => OomIsReal
  BY DEF HeapSafe
<1> QED BY <1>1, AlwaysSafe, PTL
=============================================================================
