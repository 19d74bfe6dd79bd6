----------------------- MODULE RuntimeObjects_proofs ------------------------
(***************************************************************************)
(* Proofs about what runtime objects live in and report to.  The blocks of *)
(* Memory: an inductive invariant says what a thread inside allocPages()   *)
(* knows of the offset, and that the regions of the pools, with those that *)
(* threads are about to bring them, lie apart.  The runtime stack of a     *)
(* thread has an invariant of its own.                                     *)
(***************************************************************************)
EXTENDS Memory, TLAPS

\* A RegionEntry of m_pages.
Entries == [base : Nat, size : Nat, offset : Nat]

PoolTypes ==
  /\ allocOffset \in Nat /\ commited \in Nat
  /\ pages \in [Pools -> Seq(Entries)]
  /\ freeBlocks \in [Pools -> Seq(Nat)]
  /\ lock \in [Pools -> Threads \cup {None}]
  /\ allocAt \in [Threads -> {None, "reload", "exchange", "check", "commit"}]
  /\ want \in [Threads -> Pools \cup {None}]
  /\ seen \in [Threads -> Nat] /\ again \in [Threads -> Nat]
  /\ blocks \subseteq [pool : Pools, address : Nat]

\* Who is inside allocPages() has the lock of its pool.
LockInv == \A t \in Threads : allocAt[t] # None => want[t] \in Pools /\ lock[want[t]] = t

\* The offset only grows: what was read once more lies between what was read before and
\* what is there, and what was taken lies below.
OffsetInv ==
  \A t \in Threads :
    /\ allocAt[t] \in {"reload", "exchange"} => seen[t] <= allocOffset
    /\ allocAt[t] = "exchange" => seen[t] <= again[t] /\ again[t] <= allocOffset
    /\ allocAt[t] \in {"check", "commit"} => seen[t] + PagesSize(t) <= allocOffset

CommitInv == commited <= allocOffset /\ commited <= Reserved

Apart(a, n, b, m) == a + n <= b \/ b + m <= a
Taking == {t \in Threads : allocAt[t] \in {"check", "commit"}}

RegionsCommited ==
  \A p \in Pools : \A i \in DOMAIN pages[p] :
    /\ pages[p][i].base + pages[p][i].size <= commited
    /\ pages[p][i].offset <= pages[p][i].size

RegionsApart ==
  \A p, q \in Pools : \A i \in DOMAIN pages[p], j \in DOMAIN pages[q] :
    p # q \/ i # j =>
      Apart(pages[p][i].base, pages[p][i].size, pages[q][j].base, pages[q][j].size)

\* What threads are about to take is nobody's yet, and not another thread's.
TakingApart ==
  /\ \A t \in Taking, p \in Pools : \A i \in DOMAIN pages[p] :
       Apart(seen[t], PagesSize(t), pages[p][i].base, pages[p][i].size)
  /\ \A t, u \in Taking : t # u => Apart(seen[t], PagesSize(t), seen[u], PagesSize(u))

\* All blocks that have been cut from the regions, given and free.
Cut == blocks \cup UNION {FreeOnes(p) : p \in Pools}
BlocksInside ==
  \A b \in Cut : \E i \in DOMAIN pages[b.pool] :
    /\ pages[b.pool][i].base <= b.address
    /\ b.address + BlockSize[b.pool] <= pages[b.pool][i].base + pages[b.pool][i].offset
BlocksApart ==
  \A b, c \in Cut : b # c => Apart(b.address, BlockSize[b.pool], c.address, BlockSize[c.pool])
FreeOnce == \A p \in Pools : IsInjective(freeBlocks[p]) /\ FreeOnes(p) \cap blocks = {}

RegionsInv == CommitInv /\ RegionsCommited /\ RegionsApart /\ TakingApart
BlocksInv == BlocksInside /\ BlocksApart /\ FreeOnce
PoolInv == PoolTypes /\ LockInv /\ OffsetInv /\ RegionsInv /\ BlocksInv

-----------------------------------------------------------------------------
(* Sizes and lists *)

\* alignedSize() never rounds down.
LEMMA AlignedIsEnough ==
  ASSUME NEW n \in Nat, NEW a \in Nat \ {0}
  PROVE  AlignedSize(n, a) \in Nat /\ AlignedSize(n, a) >= n
<1> DEFINE m == n + a - 1
           d == m \div a
<1>1. m \in Nat /\ d \in Nat /\ m = a * d + (m % a) /\ m % a \in 0..(a - 1)
  OBVIOUS
<1>2. d * a \in Nat /\ a * d = d * a
  BY <1>1
<1> QED BY <1>1, <1>2 DEF AlignedSize

\* The blocks of a free list whose first one goes, or that gets a new one.
LEMMA FreeListFacts ==
  ASSUME NEW s \in Seq(Nat)
  PROVE  /\ s # <<>> => /\ Head(s) \in Nat /\ Tail(s) \in Seq(Nat)
                        /\ ToSet(s) = {Head(s)} \cup ToSet(Tail(s))
                        /\ IsInjective(s) => IsInjective(Tail(s)) /\ Head(s) \notin ToSet(Tail(s))
         /\ \A a \in Nat : /\ <<a>> \o s \in Seq(Nat)
                           /\ ToSet(<<a>> \o s) = {a} \cup ToSet(s)
                           /\ IsInjective(s) /\ a \notin ToSet(s) => IsInjective(<<a>> \o s)
<1>1. ASSUME s # <<>>
      PROVE  /\ Head(s) \in Nat /\ Tail(s) \in Seq(Nat)
             /\ ToSet(s) = {Head(s)} \cup ToSet(Tail(s))
             /\ IsInjective(s) => IsInjective(Tail(s)) /\ Head(s) \notin ToSet(Tail(s))
  <2>1. /\ Head(s) = s[1] /\ Tail(s) \in Seq(Nat) /\ Len(s) \in Nat \ {0} /\ Len(Tail(s)) = Len(s) - 1
        /\ \A i \in 1..(Len(s) - 1) : Tail(s)[i] = s[i + 1]
        /\ DOMAIN s = 1..Len(s) /\ DOMAIN Tail(s) = 1..(Len(s) - 1)
    BY <1>1
  <2>2. ToSet(s) \subseteq {Head(s)} \cup ToSet(Tail(s))
    <3> SUFFICES ASSUME NEW i \in DOMAIN s PROVE s[i] = Head(s) \/ \E j \in DOMAIN Tail(s) : s[i] = Tail(s)[j]
      BY DEF ToSet
    <3>1. i = 1 \/ (i - 1 \in 1..(Len(s) - 1) /\ Tail(s)[i - 1] = s[i])
      BY <2>1
    <3> QED BY <2>1, <3>1
  <2>3. {Head(s)} \cup ToSet(Tail(s)) \subseteq ToSet(s)
    BY <2>1 DEF ToSet
  <2>4. ASSUME IsInjective(s) PROVE IsInjective(Tail(s)) /\ Head(s) \notin ToSet(Tail(s))
    <3>1. \A i \in DOMAIN Tail(s) : i + 1 \in DOMAIN s /\ i + 1 # 1 /\ Tail(s)[i] = s[i + 1]
      BY <2>1
    <3>2. \A i, j \in DOMAIN s : s[i] = s[j] => i = j
      BY <2>4 DEF IsInjective
    <3>3. 1 \in DOMAIN s /\ \A i, j \in DOMAIN Tail(s) : i + 1 = j + 1 => i = j
      BY <2>1
    <3>4. IsInjective(Tail(s))
      BY <3>1, <3>2, <3>3, Zenon DEF IsInjective
    <3>5. Head(s) \notin ToSet(Tail(s))
      <4> SUFFICES ASSUME NEW i \in DOMAIN Tail(s), Tail(s)[i] = s[1] PROVE FALSE
        BY <2>1 DEF ToSet
      <4> QED BY <3>1, <3>2, <3>3
    <3> QED BY <3>4, <3>5
  <2> QED BY <2>1, <2>2, <2>3, <2>4
<1>2. ASSUME NEW a \in Nat
      PROVE  /\ <<a>> \o s \in Seq(Nat)
             /\ ToSet(<<a>> \o s) = {a} \cup ToSet(s)
             /\ IsInjective(s) /\ a \notin ToSet(s) => IsInjective(<<a>> \o s)
  <2> DEFINE r == <<a>> \o s
  <2>1. /\ r \in Seq(Nat) /\ Len(s) \in Nat /\ r[1] = a
        /\ \A i \in 2..(Len(s) + 1) : r[i] = s[i - 1]
        /\ DOMAIN s = 1..Len(s) /\ DOMAIN r = 1..(Len(s) + 1)
    OBVIOUS
  <2> HIDE DEF r
  <2>2. \A i \in DOMAIN r : i = 1 \/ (i - 1 \in DOMAIN s /\ r[i] = s[i - 1])
    BY <2>1
  <2>3. ToSet(r) \subseteq {a} \cup ToSet(s)
    <3> SUFFICES ASSUME NEW i \in DOMAIN r PROVE r[i] = a \/ \E j \in DOMAIN s : r[i] = s[j]
      BY DEF ToSet
    <3> QED BY <2>1, <2>2
  <2>4. {a} \cup ToSet(s) \subseteq ToSet(r)
    <3>1. \A i \in DOMAIN s : i + 1 \in DOMAIN r /\ r[i + 1] = s[i]
      BY <2>1
    <3> QED BY <2>1, <3>1 DEF ToSet
  <2>5. ASSUME IsInjective(s), a \notin ToSet(s) PROVE IsInjective(r)
    <3>1. (\A i, j \in DOMAIN s : s[i] = s[j] => i = j) /\ \A i \in DOMAIN s : s[i] # a
      BY <2>5 DEF IsInjective, ToSet
    <3> SUFFICES ASSUME NEW i \in DOMAIN r, NEW j \in DOMAIN r, r[i] = r[j] PROVE i = j
      BY DEF IsInjective
    <3>2. i \in Int /\ j \in Int
      BY <2>1
    <3>3. CASE i = 1 \/ j = 1
      BY <2>1, <2>2, <3>1, <3>3
    <3>4. CASE i # 1 /\ j # 1
      <4>1. i - 1 \in DOMAIN s /\ j - 1 \in DOMAIN s /\ s[i - 1] = s[j - 1]
        BY <2>2, <3>4
      <4>2. i - 1 = j - 1
        BY <3>1, <4>1
      <4> QED BY <3>2, <4>2
    <3> QED BY <3>3, <3>4
  <2> QED BY <2>1, <2>3, <2>4, <2>5 DEF r
<1> QED BY <1>1, <1>2

\* The elements of a list, also when one of them is replaced or one is appended.
LEMMA ListFacts ==
  ASSUME NEW R, NEW s \in Seq(R), NEW x \in R
  PROVE  /\ DOMAIN s = 1..Len(s) /\ Len(s) \in Nat /\ \A i \in DOMAIN s : s[i] \in R
         /\ s # <<>> => Len(s) \in DOMAIN s
         /\ \A n \in DOMAIN s : [s EXCEPT ![n] = x] \in Seq(R)
         /\ /\ Append(s, x) \in Seq(R) /\ DOMAIN Append(s, x) = 1..(Len(s) + 1)
            /\ Append(s, x)[Len(s) + 1] = x /\ \A i \in DOMAIN s : Append(s, x)[i] = s[i]
OBVIOUS

\* What lies inside of what is apart is apart.
LEMMA InsideIsApart ==
  ASSUME NEW b \in Nat, NEW s \in Nat, NEW o \in Nat, NEW c \in Nat, NEW m \in Nat, NEW k \in Nat,
         NEW n \in Nat, Apart(b, s, c, m), o <= s, k + n <= m
  PROVE  Apart(b, o, c + k, n)
BY DEF Apart

\* A block is cut from an entry.
LEMMA EntryCut ==
  ASSUME NEW e \in Entries, NEW k \in Nat
  PROVE  LET f == [e EXCEPT !.offset = @ + k] IN
         f \in Entries /\ f.base = e.base /\ f.size = e.size /\ f.offset = e.offset + k
BY DEF Entries

\* What the regions are.
LEMMA EntryFacts ==
  ASSUME PoolTypes, NEW p \in Pools
  PROVE  /\ pages[p] \in Seq(Entries) /\ DOMAIN pages[p] = 1..Len(pages[p]) /\ Len(pages[p]) \in Nat
         /\ pages[p] # <<>> => Len(pages[p]) \in DOMAIN pages[p]
         /\ \A i \in DOMAIN pages[p] :
              /\ pages[p][i] \in Entries
              /\ pages[p][i].base \in Nat /\ pages[p][i].size \in Nat /\ pages[p][i].offset \in Nat
<1>1. pages[p] \in Seq(Entries) /\ [base |-> 0, size |-> 0, offset |-> 0] \in Entries
  BY DEF PoolTypes, Entries
<1>2. \A e \in Entries : e.base \in Nat /\ e.size \in Nat /\ e.offset \in Nat
  BY DEF Entries
<1> QED BY <1>1, <1>2, ListFacts

\* What the size of the pages of a thread is, and that it is enough for a block.
LEMMA PagesSizes ==
  ASSUME MemoryAssumption, PoolTypes, NEW t \in Threads, want[t] \in Pools
  PROVE  PagesSize(t) \in Nat /\ PagesSize(t) >= BlockSize[want[t]] /\ BlockSize[want[t]] \in Nat \ {0}
BY AlignedIsEnough DEF MemoryAssumption, PagesSize

-----------------------------------------------------------------------------
(* Blocks are given and given back *)

\* The threads and the regions do not notice.
LEMMA ListsOnly ==
  ASSUME PoolInv, UNCHANGED <<allocOffset, commited, pages, lock, allocAt, want, seen, again>>
  PROVE  LockInv' /\ OffsetInv' /\ RegionsInv'
<1>1. LockInv' /\ OffsetInv'
  BY DEF PoolInv, LockInv, OffsetInv, PagesSize
<1>2. RegionsInv'
  BY DEF PoolInv, RegionsInv, CommitInv, RegionsCommited, RegionsApart, TakingApart, Taking, PagesSize
<1> QED BY <1>1, <1>2

LEMMA AllocFreeKeeps ==
  ASSUME MemoryAssumption, PoolInv, NEW t \in Threads, NEW p \in Pools, AllocFree(t, p)
  PROVE  PoolInv'
<1> DEFINE h == Head(freeBlocks[p])
<1>1. /\ freeBlocks[p] \in Seq(Nat) /\ freeBlocks[p] # <<>> /\ blocks' = blocks \cup {Block(p, h)}
      /\ freeBlocks' = [freeBlocks EXCEPT ![p] = Tail(freeBlocks[p])]
      /\ UNCHANGED <<allocOffset, commited, pages, lock, allocAt, want, seen, again>>
  BY DEF AllocFree, HasFree, PoolInv, PoolTypes
<1>2. /\ h \in Nat /\ Tail(freeBlocks[p]) \in Seq(Nat)
      /\ ToSet(freeBlocks[p]) = {h} \cup ToSet(Tail(freeBlocks[p]))
      /\ IsInjective(Tail(freeBlocks[p])) /\ h \notin ToSet(Tail(freeBlocks[p]))
  BY <1>1, FreeListFacts DEF PoolInv, BlocksInv, FreeOnce
<1>3. /\ FreeOnes(p) = {Block(p, h)} \cup FreeOnes(p)' /\ Block(p, h) \notin FreeOnes(p)'
      /\ freeBlocks'[p] = Tail(freeBlocks[p])
      /\ \A q \in Pools \ {p} : freeBlocks'[q] = freeBlocks[q] /\ FreeOnes(q)' = FreeOnes(q)
  BY <1>1, <1>2 DEF FreeOnes, Block, PoolInv, PoolTypes
<1>4. Cut' = Cut
  BY <1>1, <1>3 DEF Cut
<1>5. BlocksInside' /\ BlocksApart'
  BY <1>1, <1>4 DEF BlocksInside, BlocksApart, PoolInv, BlocksInv
<1>6. FreeOnce'
  <2> SUFFICES ASSUME NEW q \in Pools
               PROVE  IsInjective(freeBlocks'[q]) /\ FreeOnes(q)' \cap blocks' = {}
    BY DEF FreeOnce
  <2>1. IsInjective(freeBlocks[q]) /\ FreeOnes(q) \cap blocks = {}
    BY DEF PoolInv, BlocksInv, FreeOnce
  <2>2. CASE q = p
    BY <1>1, <1>2, <1>3, <2>1, <2>2
  <2>3. CASE q # p
    <3>1. Block(p, h) \notin FreeOnes(q)
      BY <2>3 DEF FreeOnes, Block
    <3> QED BY <1>1, <1>3, <2>1, <2>3, <3>1
  <2> QED BY <2>2, <2>3
<1>7. PoolTypes'
  BY <1>1, <1>2 DEF PoolInv, PoolTypes, Block
<1> QED BY <1>1, <1>5, <1>6, <1>7, ListsOnly DEF PoolInv, BlocksInv

LEMMA FreeBlockKeeps ==
  ASSUME MemoryAssumption, PoolInv, NEW b \in blocks, FreeBlock(b)
  PROVE  PoolInv'
<1> DEFINE p == b.pool
           a == b.address
<1>1. /\ p \in Pools /\ a \in Nat /\ b = Block(p, a)
      /\ freeBlocks[p] \in Seq(Nat) /\ blocks' = blocks \ {b}
      /\ freeBlocks' = [freeBlocks EXCEPT ![p] = <<a>> \o freeBlocks[p]]
      /\ UNCHANGED <<allocOffset, commited, pages, lock, allocAt, want, seen, again>>
  BY DEF FreeBlock, PoolInv, PoolTypes, Block
<1>2. \A q \in Pools : IsInjective(freeBlocks[q]) /\ FreeOnes(q) \cap blocks = {}
  BY DEF PoolInv, BlocksInv, FreeOnce
<1>3. a \notin ToSet(freeBlocks[p])
  BY <1>1, <1>2 DEF FreeOnes
<1> HIDE DEF p, a
<1>4. /\ <<a>> \o freeBlocks[p] \in Seq(Nat)
      /\ ToSet(<<a>> \o freeBlocks[p]) = {a} \cup ToSet(freeBlocks[p])
      /\ IsInjective(<<a>> \o freeBlocks[p])
  BY <1>1, <1>2, <1>3, FreeListFacts
<1>5. /\ FreeOnes(p)' = {b} \cup FreeOnes(p)
      /\ freeBlocks'[p] = <<a>> \o freeBlocks[p]
      /\ \A q \in Pools \ {p} : freeBlocks'[q] = freeBlocks[q] /\ FreeOnes(q)' = FreeOnes(q)
  BY <1>1, <1>4 DEF FreeOnes, PoolInv, PoolTypes
<1>6. Cut' = Cut
  BY <1>1, <1>5 DEF Cut
<1>7. BlocksInside' /\ BlocksApart'
  BY <1>1, <1>6 DEF BlocksInside, BlocksApart, PoolInv, BlocksInv
<1>8. FreeOnce'
  BY <1>1, <1>2, <1>4, <1>5 DEF FreeOnce
<1>9. PoolTypes'
  BY <1>1, <1>4 DEF PoolInv, PoolTypes
<1> QED BY <1>1, <1>7, <1>8, <1>9, ListsOnly DEF PoolInv, BlocksInv

\* Blocks stay inside and apart when one more is cut that lies in its region, above all that
\* were cut from it, or in a region without blocks.
LEMMA OneMoreBlock ==
  ASSUME MemoryAssumption, PoolInv, NEW p \in Pools, NEW a \in Nat,
         blocks' = blocks \cup {Block(p, a)}, UNCHANGED freeBlocks,
         \A q \in Pools : \A i \in DOMAIN pages[q] :
           /\ i \in DOMAIN pages'[q]
           /\ pages'[q][i].base = pages[q][i].base /\ pages'[q][i].offset >= pages[q][i].offset
           /\ pages'[q][i].offset \in Nat,
         \E i \in DOMAIN pages'[p] :
           /\ pages'[p][i].base <= a
           /\ a + BlockSize[p] <= pages'[p][i].base + pages'[p][i].offset,
         \A q \in Pools : \A i \in DOMAIN pages[q] :
           Apart(pages[q][i].base, pages[q][i].offset, a, BlockSize[p])
  PROVE  BlocksInv'
<1> DEFINE new == Block(p, a)
<1>1. Cut \subseteq [pool : Pools, address : Nat] /\ new \in [pool : Pools, address : Nat]
  BY DEF Cut, PoolInv, PoolTypes, FreeOnes, Block, ToSet
<1>2. Cut' = Cut \cup {new}
  BY DEF Cut, FreeOnes
<1>3. ASSUME NEW c \in Cut
      PROVE  \E i \in DOMAIN pages[c.pool] :
               /\ pages[c.pool][i].base <= c.address
               /\ c.address + BlockSize[c.pool] <= pages[c.pool][i].base + pages[c.pool][i].offset
               /\ pages[c.pool][i].base \in Nat /\ pages[c.pool][i].offset \in Nat
               /\ c.pool \in Pools /\ c.address \in Nat
  <2>1. c.pool \in Pools /\ c.address \in Nat
    BY <1>1, <1>3
  <2>2. BlocksInside /\ PoolTypes
    BY DEF PoolInv, BlocksInv
  <2> QED BY <1>3, <2>1, <2>2, EntryFacts DEF BlocksInside
<1>4. \A q \in Pools : BlockSize[q] \in Nat \ {0}
  BY DEF MemoryAssumption
<1>5. ASSUME NEW c \in Cut
      PROVE  /\ Apart(c.address, BlockSize[c.pool], a, BlockSize[p])
             /\ Apart(a, BlockSize[p], c.address, BlockSize[c.pool]) /\ c # new
  <2>1. PICK i \in DOMAIN pages[c.pool] :
          /\ pages[c.pool][i].base <= c.address
          /\ c.address + BlockSize[c.pool] <= pages[c.pool][i].base + pages[c.pool][i].offset
          /\ pages[c.pool][i].base \in Nat /\ pages[c.pool][i].offset \in Nat
          /\ c.pool \in Pools /\ c.address \in Nat
    BY <1>3
  <2>2. Apart(pages[c.pool][i].base, pages[c.pool][i].offset, a, BlockSize[p])
    BY <2>1
  <2>3. BlockSize[c.pool] \in Nat \ {0} /\ BlockSize[p] \in Nat \ {0}
    BY <1>4, <2>1
  <2>4. /\ Apart(c.address, BlockSize[c.pool], a, BlockSize[p])
        /\ Apart(a, BlockSize[p], c.address, BlockSize[c.pool])
    BY <2>1, <2>2, <2>3 DEF Apart
  <2>5. c # new
    BY <2>1, <2>3, <2>4 DEF Apart, Block
  <2> QED BY <2>4, <2>5
<1>6. BlocksInside'
  <2> SUFFICES ASSUME NEW b \in Cut \cup {new}
               PROVE  \E i \in DOMAIN pages'[b.pool] :
                        /\ pages'[b.pool][i].base <= b.address
                        /\ b.address + BlockSize[b.pool] <= pages'[b.pool][i].base + pages'[b.pool][i].offset
    BY <1>2 DEF BlocksInside
  <2>1. CASE b \in Cut
    <3>1. PICK i \in DOMAIN pages[b.pool] :
            /\ pages[b.pool][i].base <= b.address
            /\ b.address + BlockSize[b.pool] <= pages[b.pool][i].base + pages[b.pool][i].offset
            /\ pages[b.pool][i].base \in Nat /\ pages[b.pool][i].offset \in Nat
            /\ b.pool \in Pools /\ b.address \in Nat
      BY <1>3, <2>1
    <3>2. /\ i \in DOMAIN pages'[b.pool]
          /\ pages'[b.pool][i].base = pages[b.pool][i].base
          /\ pages'[b.pool][i].offset >= pages[b.pool][i].offset /\ pages'[b.pool][i].offset \in Nat
      BY <3>1
    <3> QED BY <1>4, <3>1, <3>2
  <2>2. CASE b = new
    BY <2>2 DEF Block
  <2> QED BY <2>1, <2>2
<1>7. BlocksApart'
  <2>1. \A b, c \in Cut : b # c => Apart(b.address, BlockSize[b.pool], c.address, BlockSize[c.pool])
    BY DEF PoolInv, BlocksInv, BlocksApart
  <2>2. new.address = a /\ new.pool = p
    BY DEF Block
  <2> QED BY <1>2, <1>5, <2>1, <2>2 DEF BlocksApart
<1>8. FreeOnce'
  <2>1. \A q \in Pools : new \notin FreeOnes(q) /\ FreeOnes(q)' = FreeOnes(q)
    BY <1>5 DEF Cut, FreeOnes
  <2> QED BY <2>1 DEF FreeOnce, PoolInv, BlocksInv
<1> QED BY <1>6, <1>7, <1>8 DEF BlocksInv

LEMMA AllocNewKeeps ==
  ASSUME MemoryAssumption, PoolInv, NEW t \in Threads, NEW p \in Pools, AllocNew(t, p)
  PROVE  PoolInv'
<1> DEFINE n == Len(pages[p])
           size == BlockSize[p]
           a == pages[p][n].base + pages[p][n].offset
<1>1. /\ pages[p] \in Seq(Entries) /\ n \in DOMAIN pages[p]
      /\ pages[p][n].base \in Nat /\ pages[p][n].size \in Nat /\ pages[p][n].offset \in Nat
      /\ size \in Nat \ {0} /\ pages[p][n].offset + size <= pages[p][n].size
  <2>1. pages[p] # <<>>
    BY DEF AllocNew, Idle
  <2>2. n \in DOMAIN pages[p] /\ pages[p] \in Seq(Entries)
        /\ pages[p][n].base \in Nat /\ pages[p][n].size \in Nat /\ pages[p][n].offset \in Nat
    BY <2>1, EntryFacts DEF PoolInv
  <2>3. pages[p][n].size - pages[p][n].offset >= size /\ size \in Nat \ {0}
    BY DEF AllocNew, HasSpace, LastPage, Last, MemoryAssumption
  <2> HIDE DEF n, size
  <2> QED BY <2>2, <2>3
<1>2. /\ blocks' = blocks \cup {Block(p, a)}
      /\ pages' = [pages EXCEPT ![p][n].offset = @ + size]
      /\ UNCHANGED <<allocOffset, commited, freeBlocks, lock, allocAt, want, seen, again>>
  BY DEF AllocNew, LastPage, Last
<1>3. /\ pages' \in [Pools -> Seq(Entries)]
      /\ \A q \in Pools : DOMAIN pages'[q] = DOMAIN pages[q]
      /\ \A q \in Pools : \A i \in DOMAIN pages[q] :
           /\ pages'[q][i].base = pages[q][i].base /\ pages'[q][i].size = pages[q][i].size
           /\ q # p \/ i # n => pages'[q][i].offset = pages[q][i].offset
      /\ pages'[p][n].offset = pages[p][n].offset + size
  <2> DEFINE e == [pages[p][n] EXCEPT !.offset = @ + size]
             r == [pages[p] EXCEPT ![n] = e]
  <2>1. pages[p][n] \in Entries
    BY <1>1, EntryFacts DEF PoolInv
  <2> HIDE DEF n, size
  <2>2. /\ e \in Entries /\ e.base = pages[p][n].base /\ e.size = pages[p][n].size
        /\ e.offset = pages[p][n].offset + size
    BY <1>1, <2>1, EntryCut
  <2>3. pages' = [pages EXCEPT ![p] = r] /\ pages \in [Pools -> Seq(Entries)]
    BY <1>2 DEF PoolInv, PoolTypes
  <2> HIDE DEF e
  <2>4. r \in Seq(Entries)
    BY <1>1, <2>2, ListFacts
  <2>5. /\ DOMAIN r = DOMAIN pages[p] /\ \A i \in DOMAIN pages[p] \ {n} : r[i] = pages[p][i]
        /\ r[n] = e
    BY <1>1
  <2> HIDE DEF r
  <2>6. pages'[p] = r /\ \A q \in Pools \ {p} : pages'[q] = pages[q]
    BY <2>3
  <2>7. pages' \in [Pools -> Seq(Entries)]
    BY <2>3, <2>4
  <2> QED BY <2>2, <2>5, <2>6, <2>7
<1> HIDE DEF n
<1>4. RegionsInv'
  <2>1. RegionsCommited'
    <3> SUFFICES ASSUME NEW q \in Pools, NEW i \in DOMAIN pages[q]
                 PROVE  /\ pages'[q][i].base + pages'[q][i].size <= commited
                        /\ pages'[q][i].offset <= pages'[q][i].size
      BY <1>2, <1>3 DEF RegionsCommited
    <3>1. /\ pages[q][i].base + pages[q][i].size <= commited
          /\ pages[q][i].offset <= pages[q][i].size
      BY DEF PoolInv, RegionsInv, RegionsCommited
    <3> QED BY <1>1, <1>3, <3>1
  <2>2. RegionsApart'
    <3> SUFFICES ASSUME NEW q \in Pools, NEW r \in Pools, NEW i \in DOMAIN pages[q], NEW j \in DOMAIN pages[r],
                        q # r \/ i # j
                 PROVE  Apart(pages'[q][i].base, pages'[q][i].size, pages'[r][j].base, pages'[r][j].size)
      BY <1>3 DEF RegionsApart
    <3>1. Apart(pages[q][i].base, pages[q][i].size, pages[r][j].base, pages[r][j].size)
      BY DEF PoolInv, RegionsInv, RegionsApart
    <3> QED BY <1>3, <3>1
  <2>3. TakingApart'
    BY <1>2, <1>3 DEF PoolInv, RegionsInv, TakingApart, Taking, PagesSize
  <2> QED BY <1>2, <2>1, <2>2, <2>3 DEF PoolInv, RegionsInv, CommitInv
<1>5. BlocksInv'
  <2>1. ASSUME NEW q \in Pools, NEW i \in DOMAIN pages[q]
        PROVE  /\ Apart(pages[q][i].base, pages[q][i].offset, a, size)
               /\ pages'[q][i].offset >= pages[q][i].offset /\ pages'[q][i].offset \in Nat
    <3>1. pages[q][i].base \in Nat /\ pages[q][i].size \in Nat /\ pages[q][i].offset \in Nat
          /\ pages[q][i].offset <= pages[q][i].size
      BY EntryFacts DEF PoolInv, RegionsInv, RegionsCommited
    <3>2. CASE q = p /\ i = n
      BY <1>1, <1>3, <3>1, <3>2 DEF Apart
    <3>3. CASE q # p \/ i # n
      <4>1. Apart(pages[q][i].base, pages[q][i].size, pages[p][n].base, pages[p][n].size)
        BY <1>1, <3>3 DEF PoolInv, RegionsInv, RegionsApart
      <4>2. pages'[q][i].offset = pages[q][i].offset
        BY <1>3, <3>3
      <4>3. Apart(pages[q][i].base, pages[q][i].offset, a, size)
        BY <1>1, <3>1, <4>1, InsideIsApart
      <4> QED BY <3>1, <4>2, <4>3
    <3> QED BY <3>2, <3>3
  <2>2. a \in Nat /\ \E i \in DOMAIN pages'[p] :
           /\ pages'[p][i].base <= a
           /\ a + BlockSize[p] <= pages'[p][i].base + pages'[p][i].offset
    <3>1. /\ n \in DOMAIN pages'[p] /\ pages'[p][n].base = pages[p][n].base
          /\ pages'[p][n].offset = pages[p][n].offset + size
      BY <1>1, <1>3
    <3>2. a \in Nat /\ pages[p][n].base <= a /\ a + size <= pages[p][n].base + (pages[p][n].offset + size)
      BY <1>1
    <3> QED BY <3>1, <3>2
  <2> HIDE DEF a
  <2> QED BY <1>2, <1>3, <2>1, <2>2, OneMoreBlock
<1>6. LockInv' /\ OffsetInv'
  BY <1>2 DEF PoolInv, LockInv, OffsetInv, PagesSize
<1>7. PoolTypes'
  BY <1>1, <1>2, <1>3 DEF PoolInv, PoolTypes, Block
<1> QED BY <1>4, <1>5, <1>6, <1>7 DEF PoolInv

-----------------------------------------------------------------------------
(* allocPages() *)

\* Nothing is cut, nothing is given.
LEMMA NothingCut ==
  ASSUME PoolInv, UNCHANGED <<pages, freeBlocks, blocks>>
  PROVE  BlocksInv'
BY DEF PoolInv, BlocksInv, BlocksInside, BlocksApart, FreeOnce, Cut, FreeOnes

\* The threads of TakingApart and what they take.
LEMMA TakingFacts ==
  ASSUME MemoryAssumption, PoolInv, NEW t \in Threads, allocAt[t] # None
  PROVE  /\ want[t] \in Pools /\ PagesSize(t) \in Nat /\ PagesSize(t) >= BlockSize[want[t]]
         /\ BlockSize[want[t]] \in Nat \ {0} /\ seen[t] \in Nat /\ again[t] \in Nat
         /\ \A u \in Threads \ {t} : allocAt[u] # None => want[u] # want[t]
<1>1. want[t] \in Pools /\ \A u \in Threads : allocAt[u] # None => lock[want[u]] = u
  BY DEF PoolInv, LockInv
<1> QED BY <1>1, PagesSizes DEF PoolInv, PoolTypes

\* The regions stay apart while nobody comes to take more.
LEMMA FewerTake ==
  ASSUME PoolInv, UNCHANGED <<commited, pages>>, allocOffset' = allocOffset,
         Taking' \subseteq Taking,
         \A u \in Taking' : seen'[u] = seen[u] /\ want'[u] = want[u]
  PROVE  RegionsInv'
<1>1. \A u \in Taking' : PagesSize(u)' = PagesSize(u) /\ u \in Taking
  BY DEF PagesSize
<1>2. TakingApart'
  BY <1>1 DEF TakingApart, PoolInv, RegionsInv
<1> QED BY <1>2 DEF PoolInv, RegionsInv, CommitInv, RegionsCommited, RegionsApart

LEMMA AllocPagesKeeps ==
  ASSUME MemoryAssumption, PoolInv, NEW t \in Threads, NEW p \in Pools, AllocPages(t, p)
  PROVE  PoolInv'
<1>1. /\ allocAt[t] = None /\ lock[p] = None
      /\ lock' = [lock EXCEPT ![p] = t] /\ want' = [want EXCEPT ![t] = p]
      /\ seen' = [seen EXCEPT ![t] = allocOffset] /\ allocAt' = [allocAt EXCEPT ![t] = "reload"]
      /\ UNCHANGED <<allocOffset, commited, pages, freeBlocks, again, blocks>>
  BY DEF AllocPages, Idle
<1>2. PoolTypes'
  BY <1>1 DEF PoolInv, PoolTypes
<1>3. /\ allocAt'[t] = "reload" /\ want'[t] = p /\ lock'[p] = t /\ seen'[t] = allocOffset
      /\ \A u \in Threads \ {t} : allocAt'[u] = allocAt[u] /\ want'[u] = want[u] /\ seen'[u] = seen[u]
      /\ \A q \in Pools \ {p} : lock'[q] = lock[q]
  BY <1>1 DEF PoolInv, PoolTypes
<1>4. LockInv'
  <2> SUFFICES ASSUME NEW u \in Threads, allocAt'[u] # None
               PROVE  want'[u] \in Pools /\ lock'[want'[u]] = u
    BY DEF LockInv
  <2>1. CASE u = t
    BY <1>3, <2>1
  <2>2. CASE u # t
    <3>1. allocAt[u] # None /\ want[u] \in Pools /\ lock[want[u]] = u /\ None \notin Threads
      BY <1>3, <2>2 DEF PoolInv, LockInv, MemoryAssumption
    <3>2. want[u] # p
      BY <1>1, <3>1
    <3> QED BY <1>3, <2>2, <3>1, <3>2
  <2> QED BY <2>1, <2>2
<1>5. OffsetInv'
  <2> SUFFICES ASSUME NEW u \in Threads
               PROVE  /\ allocAt'[u] \in {"reload", "exchange"} => seen'[u] <= allocOffset
                      /\ allocAt'[u] = "exchange" => seen'[u] <= again[u] /\ again[u] <= allocOffset
                      /\ allocAt'[u] \in {"check", "commit"} => seen'[u] + PagesSize(u)' <= allocOffset
    BY <1>1 DEF OffsetInv
  <2>1. CASE u = t
    BY <1>3, <2>1 DEF PoolInv, PoolTypes
  <2>2. CASE u # t
    BY <1>3, <2>2 DEF PoolInv, OffsetInv, PagesSize
  <2> QED BY <2>1, <2>2
<1>6. Taking' \subseteq Taking /\ t \notin Taking'
  BY <1>3 DEF Taking
<1>7. RegionsInv'
  BY <1>1, <1>3, <1>6, FewerTake DEF Taking
<1> QED BY <1>1, <1>2, <1>4, <1>5, <1>7, NothingCut DEF PoolInv

LEMMA ReloadKeeps ==
  ASSUME MemoryAssumption, PoolInv, NEW t \in Threads, Reload(t)
  PROVE  PoolInv'
<1>1. /\ allocAt[t] = "reload" /\ allocAt' = [allocAt EXCEPT ![t] = "exchange"]
      /\ again' = [again EXCEPT ![t] = allocOffset]
      /\ UNCHANGED <<allocOffset, commited, pages, freeBlocks, lock, want, seen, blocks>>
  BY DEF Reload, Proceed
<1>2. PoolTypes' /\ "reload" # None
  BY <1>1 DEF PoolInv, PoolTypes, MemoryAssumption
<1>3. /\ allocAt'[t] = "exchange" /\ again'[t] = allocOffset /\ seen[t] <= allocOffset
      /\ \A u \in Threads \ {t} : allocAt'[u] = allocAt[u] /\ again'[u] = again[u]
  BY <1>1 DEF PoolInv, PoolTypes, OffsetInv
<1>4. LockInv'
  BY <1>1, <1>2, <1>3 DEF PoolInv, LockInv
<1>5. OffsetInv'
  <2> SUFFICES ASSUME NEW u \in Threads
               PROVE  /\ allocAt'[u] \in {"reload", "exchange"} => seen[u] <= allocOffset
                      /\ allocAt'[u] = "exchange" => seen[u] <= again'[u] /\ again'[u] <= allocOffset
                      /\ allocAt'[u] \in {"check", "commit"} => seen[u] + PagesSize(u)' <= allocOffset
    BY <1>1 DEF OffsetInv
  <2>1. CASE u = t
    BY <1>3, <2>1 DEF PoolInv, PoolTypes
  <2>2. CASE u # t
    BY <1>1, <1>3, <2>2 DEF PoolInv, OffsetInv, PagesSize
  <2> QED BY <2>1, <2>2
<1>6. Taking' \subseteq Taking
  BY <1>3 DEF Taking
<1>7. RegionsInv'
  BY <1>1, <1>6, FewerTake
<1> QED BY <1>1, <1>2, <1>4, <1>5, <1>7, NothingCut DEF PoolInv

\* The exchange that succeeds has found the offset where it was at both readings.
LEMMA ExchangeKeeps ==
  ASSUME MemoryAssumption, PoolInv, NEW t \in Threads, Exchange(t)
  PROVE  PoolInv'
<1> DEFINE n == PagesSize(t)
<1>1. /\ allocAt[t] = "exchange" /\ "exchange" # None
      /\ seen[t] <= again[t] /\ again[t] <= allocOffset
      /\ UNCHANGED <<commited, pages, freeBlocks, lock, want, again, blocks>>
      /\ allocOffset \in Nat /\ commited \in Nat
  BY DEF Exchange, Proceed, MemoryAssumption, PoolInv, OffsetInv, PoolTypes
<1>2. /\ want[t] \in Pools /\ n \in Nat /\ seen[t] \in Nat /\ again[t] \in Nat
      /\ \A u \in Threads : PagesSize(u)' = PagesSize(u)
  BY <1>1, TakingFacts DEF PagesSize
<1>3. /\ \A u \in Threads \ {t} : allocAt'[u] = allocAt[u]
      /\ allocAt' \in [Threads -> {None, "reload", "exchange", "check", "commit"}]
      /\ allocAt'[t] \in {"reload", "check"}
  BY DEF Exchange, Proceed, PoolInv, PoolTypes
<1> HIDE DEF n
<1>4. LockInv'
  BY <1>1, <1>3 DEF PoolInv, LockInv
<1>5. CASE allocOffset = seen[t]
  <2>1. allocAt'[t] = "check" /\ allocOffset' = allocOffset + n /\ seen' = seen
    BY <1>1, <1>2, <1>5 DEF Exchange, Proceed, PoolInv, PoolTypes, n
  <2>2. PoolTypes'
    BY <1>1, <1>2, <1>3, <2>1 DEF PoolInv, PoolTypes
  <2>3. OffsetInv'
    <3> SUFFICES ASSUME NEW u \in Threads
                 PROVE  /\ allocAt'[u] \in {"reload", "exchange"} => seen[u] <= allocOffset + n
                        /\ allocAt'[u] = "exchange" => seen[u] <= again[u] /\ again[u] <= allocOffset + n
                        /\ allocAt'[u] \in {"check", "commit"} => seen[u] + PagesSize(u) <= allocOffset + n
      BY <1>1, <1>2, <2>1 DEF OffsetInv
    <3>1. CASE u = t
      BY <1>1, <1>2, <1>5, <2>1, <3>1 DEF n
    <3>2. CASE u # t
      <4>1. /\ allocAt[u] \in {"reload", "exchange"} => seen[u] <= allocOffset
            /\ allocAt[u] = "exchange" => seen[u] <= again[u] /\ again[u] <= allocOffset
            /\ allocAt[u] \in {"check", "commit"} => seen[u] + PagesSize(u) <= allocOffset
            /\ seen[u] \in Nat /\ again[u] \in Nat /\ None \notin {"reload", "exchange", "check", "commit"}
        BY DEF PoolInv, OffsetInv, PoolTypes, MemoryAssumption
      <4>2. allocAt[u] \in {"check", "commit"} => PagesSize(u) \in Nat
        BY <4>1, TakingFacts
      <4> QED BY <1>1, <1>2, <1>3, <3>2, <4>1, <4>2
    <3> QED BY <3>1, <3>2
  <2>4. Taking' = Taking \cup {t} /\ t \notin Taking
    BY <1>1, <1>3, <2>1 DEF Taking
  <2>5. ASSUME NEW p \in Pools, NEW i \in DOMAIN pages[p]
        PROVE  Apart(seen[t], n, pages[p][i].base, pages[p][i].size)
    <3>1. /\ pages[p][i].base + pages[p][i].size <= commited /\ commited <= allocOffset
          /\ pages[p][i].base \in Nat /\ pages[p][i].size \in Nat
      BY EntryFacts DEF PoolInv, RegionsInv, RegionsCommited, CommitInv
    <3> QED BY <1>1, <1>5, <3>1 DEF Apart
  <2>6. ASSUME NEW u \in Taking
        PROVE  Apart(seen[t], n, seen[u], PagesSize(u)) /\ Apart(seen[u], PagesSize(u), seen[t], n)
    BY <1>5 DEF Taking, Apart, PoolInv, OffsetInv
  <2>7. RegionsInv'
    <3>1. TakingApart'
      <4>1. /\ \A u \in Taking, p \in Pools : \A i \in DOMAIN pages[p] :
                  Apart(seen[u], PagesSize(u), pages[p][i].base, pages[p][i].size)
            /\ \A u, v \in Taking : u # v => Apart(seen[u], PagesSize(u), seen[v], PagesSize(v))
        BY DEF PoolInv, RegionsInv, TakingApart
      <4>2. \A u \in Taking \cup {t}, p \in Pools : \A i \in DOMAIN pages[p] :
              Apart(seen[u], PagesSize(u), pages[p][i].base, pages[p][i].size)
        BY <2>5, <4>1 DEF n
      <4>3. \A u, v \in Taking \cup {t} : u # v => Apart(seen[u], PagesSize(u), seen[v], PagesSize(v))
        BY <2>6, <4>1 DEF n
      <4>4. \A u \in Taking \cup {t} : PagesSize(u)' = PagesSize(u)
        BY <1>2 DEF Taking
      <4> QED BY <1>1, <2>1, <2>4, <4>2, <4>3, <4>4 DEF TakingApart
    <3>2. CommitInv'
      BY <1>1, <1>2, <2>1 DEF PoolInv, RegionsInv, CommitInv
    <3> QED BY <1>1, <3>1, <3>2 DEF PoolInv, RegionsInv, RegionsCommited, RegionsApart
  <2> QED BY <1>1, <1>4, <2>2, <2>3, <2>7, NothingCut DEF PoolInv
<1>6. CASE allocOffset # seen[t]
  <2>1. allocAt'[t] = "reload" /\ allocOffset' = allocOffset /\ seen' = [seen EXCEPT ![t] = allocOffset]
    BY <1>6 DEF Exchange, Proceed, PoolInv, PoolTypes
  <2>2. seen'[t] = allocOffset /\ \A u \in Threads \ {t} : seen'[u] = seen[u]
    BY <2>1 DEF PoolInv, PoolTypes
  <2>3. PoolTypes'
    BY <1>1, <1>3, <2>1 DEF PoolInv, PoolTypes
  <2>4. OffsetInv'
    <3> SUFFICES ASSUME NEW u \in Threads
                 PROVE  /\ allocAt'[u] \in {"reload", "exchange"} => seen'[u] <= allocOffset
                        /\ allocAt'[u] = "exchange" => seen'[u] <= again[u] /\ again[u] <= allocOffset
                        /\ allocAt'[u] \in {"check", "commit"} => seen'[u] + PagesSize(u) <= allocOffset
      BY <1>1, <1>2, <2>1 DEF OffsetInv
    <3>1. CASE u = t
      BY <1>1, <2>1, <2>2, <3>1
    <3>2. CASE u # t
      BY <1>3, <2>2, <3>2 DEF PoolInv, OffsetInv
    <3> QED BY <3>1, <3>2
  <2>5. Taking' \subseteq Taking /\ t \notin Taking'
    BY <1>3, <2>1 DEF Taking
  <2>6. RegionsInv'
    BY <1>1, <2>1, <2>2, <2>5, FewerTake DEF Taking
  <2> QED BY <1>1, <1>4, <2>3, <2>4, <2>6, NothingCut DEF PoolInv
<1> QED BY <1>5, <1>6

\* A thread leaves allocPages(): its pool is free, the others do not notice.
LEMMA ReturnFacts ==
  ASSUME MemoryAssumption, PoolInv, NEW t \in Threads, allocAt[t] # None, PagesReturn(t)
  PROVE  /\ allocAt'[t] = None
         /\ \A u \in Threads \ {t} : /\ allocAt'[u] = allocAt[u] /\ want'[u] = want[u]
                                     /\ seen'[u] = seen[u] /\ again'[u] = again[u]
         /\ lock' \in [Pools -> Threads \cup {None}] /\ want' \in [Threads -> Pools \cup {None}]
         /\ allocAt' \in [Threads -> {None, "reload", "exchange", "check", "commit"}]
         /\ seen' \in [Threads -> Nat] /\ again' \in [Threads -> Nat]
         /\ LockInv'
         /\ Taking' = Taking \ {t} /\ \A u \in Taking' : PagesSize(u)' = PagesSize(u)
<1>1. /\ allocAt' = [allocAt EXCEPT ![t] = None] /\ want' = [want EXCEPT ![t] = None]
      /\ lock' = [lock EXCEPT ![want[t]] = None]
      /\ seen' = [seen EXCEPT ![t] = 0] /\ again' = [again EXCEPT ![t] = 0]
  BY DEF PagesReturn, Proceed
<1>2. /\ lock' \in [Pools -> Threads \cup {None}] /\ want' \in [Threads -> Pools \cup {None}]
      /\ allocAt' \in [Threads -> {None, "reload", "exchange", "check", "commit"}]
      /\ seen' \in [Threads -> Nat] /\ again' \in [Threads -> Nat]
  BY <1>1 DEF PoolInv, PoolTypes
<1>3. /\ allocAt'[t] = None
      /\ \A u \in Threads \ {t} : /\ allocAt'[u] = allocAt[u] /\ want'[u] = want[u]
                                  /\ seen'[u] = seen[u] /\ again'[u] = again[u]
      /\ want[t] \in Pools /\ \A q \in Pools \ {want[t]} : lock'[q] = lock[q]
  BY <1>1, TakingFacts DEF PoolInv, PoolTypes
<1>4. LockInv'
  <2> SUFFICES ASSUME NEW u \in Threads, allocAt'[u] # None
               PROVE  want'[u] \in Pools /\ lock'[want'[u]] = u
    BY DEF LockInv
  <2>1. u # t /\ allocAt[u] # None /\ want'[u] = want[u]
    BY <1>3
  <2>2. want[u] \in Pools /\ lock[want[u]] = u /\ want[u] # want[t]
    BY <2>1, TakingFacts DEF PoolInv, LockInv
  <2> QED BY <1>3, <2>1, <2>2
<1>5. Taking' = Taking \ {t} /\ \A u \in Taking' : PagesSize(u)' = PagesSize(u)
  BY <1>3 DEF Taking, PagesSize, MemoryAssumption
<1> QED BY <1>2, <1>3, <1>4, <1>5

LEMMA ReturnKeepsOffset ==
  ASSUME MemoryAssumption, PoolInv, NEW t \in Threads, allocAt[t] # None, PagesReturn(t),
         allocOffset' = allocOffset
  PROVE  OffsetInv'
<1> SUFFICES ASSUME NEW u \in Threads
             PROVE  /\ allocAt'[u] \in {"reload", "exchange"} => seen'[u] <= allocOffset
                    /\ allocAt'[u] = "exchange" => seen'[u] <= again'[u] /\ again'[u] <= allocOffset
                    /\ allocAt'[u] \in {"check", "commit"} => seen'[u] + PagesSize(u)' <= allocOffset
  BY DEF OffsetInv
<1>1. CASE u = t
  BY <1>1, ReturnFacts DEF MemoryAssumption
<1>2. CASE u # t
  BY <1>2, ReturnFacts DEF PoolInv, OffsetInv, PagesSize
<1> QED BY <1>1, <1>2

\* There is not enough memory.
LEMMA NoPagesKeep ==
  ASSUME MemoryAssumption, PoolInv, NEW t \in Threads, allocAt[t] # None, PagesReturn(t),
         UNCHANGED <<allocOffset, freeBlocks, commited, pages, blocks>>
  PROVE  PoolInv'
<1>1. PoolTypes'
  BY ReturnFacts DEF PoolInv, PoolTypes
<1>2. RegionsInv'
  <2>1. Taking' \subseteq Taking /\ \A u \in Taking' : seen'[u] = seen[u] /\ want'[u] = want[u]
    BY ReturnFacts DEF Taking
  <2> QED BY <2>1, FewerTake
<1> QED BY <1>1, <1>2, ReturnFacts, ReturnKeepsOffset, NothingCut DEF PoolInv

\* What the thread has taken becomes the last region of its pool.
LEMMA TakePagesKeeps ==
  ASSUME MemoryAssumption, PoolInv, NEW t \in Taking, TakePages(t),
         UNCHANGED <<allocOffset, freeBlocks>>,
         commited' \in Nat, commited <= commited', seen[t] + PagesSize(t) <= commited',
         commited' <= allocOffset, commited' <= Reserved
  PROVE  PoolInv'
<1> DEFINE p == want[t]
           n == Len(pages[p])
           size == PagesSize(t)
           new == [base |-> seen[t], size |-> size, offset |-> BlockSize[p]]
<1>1. /\ t \in Threads /\ allocAt[t] # None /\ PagesReturn(t) /\ p \in Pools
      /\ size \in Nat /\ size >= BlockSize[p] /\ BlockSize[p] \in Nat \ {0} /\ seen[t] \in Nat
  BY TakingFacts DEF Taking, TakePages, MemoryAssumption
<1>2. /\ pages' = [pages EXCEPT ![p] = Append(pages[p], new)]
      /\ blocks' = blocks \cup {Block(p, seen[t])}
  <2>1. [Region(seen[t], size) EXCEPT !.offset = BlockSize[p]] = new
    BY DEF Region
  <2> HIDE DEF new
  <2> QED BY <2>1, Zenon DEF TakePages
<1>3. new \in Entries /\ new.base = seen[t] /\ new.size = size /\ new.offset = BlockSize[p]
  BY <1>1 DEF Entries
<1> HIDE DEF new, size, p
<1>4. /\ pages[p] \in Seq(Entries) /\ n \in Nat /\ DOMAIN pages[p] = 1..n
      /\ pages'[p] = Append(pages[p], new) /\ \A q \in Pools \ {p} : pages'[q] = pages[q]
  BY <1>1, <1>2, EntryFacts DEF PoolInv, PoolTypes
<1>5. /\ pages'[p] \in Seq(Entries) /\ DOMAIN pages'[p] = 1..(n + 1) /\ pages'[p][n + 1] = new
      /\ \A i \in DOMAIN pages[p] : pages'[p][i] = pages[p][i]
  BY <1>3, <1>4, ListFacts
<1> HIDE DEF n
<1>6. /\ \A q \in Pools : \A i \in DOMAIN pages[q] : i \in DOMAIN pages'[q] /\ pages'[q][i] = pages[q][i]
      /\ \A q \in Pools : \A i \in DOMAIN pages'[q] :
           i \in DOMAIN pages[q] \/ (q = p /\ i = n + 1 /\ pages'[q][i] = new)
      /\ n + 1 \in DOMAIN pages'[p] /\ n + 1 \notin DOMAIN pages[p]
  BY <1>4, <1>5
<1>7. PoolTypes'
  <2>1. pages' \in [Pools -> Seq(Entries)]
    BY <1>1, <1>2, <1>4, <1>5 DEF PoolInv, PoolTypes
  <2>2. blocks' \subseteq [pool : Pools, address : Nat]
    BY <1>1, <1>2 DEF PoolInv, PoolTypes, Block
  <2> QED BY <1>1, <2>1, <2>2, ReturnFacts DEF PoolInv, PoolTypes
<1>8. ASSUME NEW q \in Pools, NEW i \in DOMAIN pages[q]
      PROVE  /\ Apart(seen[t], size, pages[q][i].base, pages[q][i].size)
             /\ pages[q][i].base + pages[q][i].size <= commited
             /\ pages[q][i].offset <= pages[q][i].size
             /\ pages[q][i].base \in Nat /\ pages[q][i].size \in Nat /\ pages[q][i].offset \in Nat
  BY EntryFacts DEF PoolInv, RegionsInv, TakingApart, RegionsCommited, size
<1>9. RegionsInv'
  <2>1. RegionsCommited'
    <3> SUFFICES ASSUME NEW q \in Pools, NEW i \in DOMAIN pages'[q]
                 PROVE  /\ pages'[q][i].base + pages'[q][i].size <= commited'
                        /\ pages'[q][i].offset <= pages'[q][i].size
      BY DEF RegionsCommited
    <3>1. CASE i \in DOMAIN pages[q]
      BY <1>6, <1>8, <3>1 DEF PoolInv, PoolTypes
    <3>2. CASE pages'[q][i] = new
      BY <1>1, <1>3, <3>2 DEF size
    <3> QED BY <1>6, <3>1, <3>2
  <2>2. RegionsApart'
    <3> SUFFICES ASSUME NEW q \in Pools, NEW r \in Pools, NEW i \in DOMAIN pages'[q],
                        NEW j \in DOMAIN pages'[r], q # r \/ i # j
                 PROVE  Apart(pages'[q][i].base, pages'[q][i].size, pages'[r][j].base, pages'[r][j].size)
      BY DEF RegionsApart
    <3>1. CASE i \in DOMAIN pages[q] /\ j \in DOMAIN pages[r]
      BY <1>6, <3>1 DEF PoolInv, RegionsInv, RegionsApart
    <3>2. CASE i \in DOMAIN pages[q] /\ pages'[r][j] = new
      BY <1>6, <1>8, <1>3, <3>2 DEF Apart
    <3>3. CASE pages'[q][i] = new /\ j \in DOMAIN pages[r]
      BY <1>6, <1>8, <1>3, <3>3 DEF Apart
    <3> QED BY <1>6, <3>1, <3>2, <3>3
  <2>3. TakingApart'
    <3>1. \A u \in Taking' : u \in Taking /\ u # t /\ seen'[u] = seen[u] /\ PagesSize(u)' = PagesSize(u)
      BY <1>1, ReturnFacts DEF Taking
    <3>2. ASSUME NEW u \in Taking', NEW q \in Pools, NEW i \in DOMAIN pages'[q]
          PROVE  Apart(seen[u], PagesSize(u), pages'[q][i].base, pages'[q][i].size)
      <4>1. CASE i \in DOMAIN pages[q]
        BY <1>6, <3>1, <3>2, <4>1 DEF PoolInv, RegionsInv, TakingApart
      <4>2. CASE pages'[q][i] = new
        BY <1>3, <3>1, <3>2, <4>2 DEF PoolInv, RegionsInv, TakingApart, size
      <4> QED BY <1>6, <4>1, <4>2
    <3>3. \A u, v \in Taking' : u # v => Apart(seen[u], PagesSize(u), seen[v], PagesSize(v))
      BY <3>1 DEF PoolInv, RegionsInv, TakingApart
    <3> QED BY <3>1, <3>2, <3>3 DEF TakingApart
  <2> QED BY <2>1, <2>2, <2>3 DEF RegionsInv, CommitInv
<1>10. BlocksInv'
  <2>1. ASSUME NEW q \in Pools, NEW i \in DOMAIN pages[q]
        PROVE  Apart(pages[q][i].base, pages[q][i].offset, seen[t], BlockSize[p])
    BY <1>1, <1>8 DEF Apart
  <2>2. \E i \in DOMAIN pages'[p] :
          /\ pages'[p][i].base <= seen[t]
          /\ seen[t] + BlockSize[p] <= pages'[p][i].base + pages'[p][i].offset
    BY <1>1, <1>3, <1>5, <1>6
  <2>3. \A q \in Pools : \A i \in DOMAIN pages[q] :
           /\ i \in DOMAIN pages'[q] /\ pages'[q][i].base = pages[q][i].base
           /\ pages'[q][i].offset >= pages[q][i].offset /\ pages'[q][i].offset \in Nat
    BY <1>6, <1>8
  <2> QED BY <1>1, <1>2, <2>1, <2>2, <2>3, OneMoreBlock
<1> QED BY <1>1, <1>7, <1>9, <1>10, ReturnFacts, ReturnKeepsOffset DEF PoolInv

LEMMA CheckAndCommitKeep ==
  ASSUME MemoryAssumption, PoolInv, NEW t \in Threads, Check(t) \/ Commit(t)
  PROVE  PoolInv'
<1> DEFINE end == seen[t] + PagesSize(t)
<1>1. /\ t \in Taking /\ allocAt[t] # None /\ UNCHANGED <<allocOffset, freeBlocks>>
      /\ end \in Nat /\ end <= allocOffset /\ commited \in Nat /\ commited <= allocOffset
      /\ commited <= Reserved /\ Reserved \in Nat /\ allocOffset \in Nat
  <2>1. allocAt[t] \in {"check", "commit"} /\ allocAt[t] # None /\ UNCHANGED <<allocOffset, freeBlocks>>
    BY DEF Check, Commit, MemoryAssumption
  <2> QED BY <2>1, TakingFacts DEF Taking, PoolInv, OffsetInv, PoolTypes, RegionsInv, CommitInv,
             MemoryAssumption
<1>2. CASE Check(t) /\ commited >= end
  <2>1. TakePages(t) /\ commited' = commited
    BY <1>2 DEF Check
  <2> QED BY <1>1, <1>2, <2>1, TakePagesKeeps
<1>3. CASE Check(t) /\ ~(commited >= end)
  <2>1. /\ allocAt' = [allocAt EXCEPT ![t] = "commit"] /\ allocAt[t] = "check"
        /\ UNCHANGED <<allocOffset, commited, pages, freeBlocks, blocks, lock, want, seen, again>>
    BY <1>3 DEF Check, Proceed
  <2>2. allocAt'[t] = "commit" /\ \A u \in Threads \ {t} : allocAt'[u] = allocAt[u]
    BY <2>1 DEF PoolInv, PoolTypes
  <2>3. PoolTypes'
    BY <2>1 DEF PoolInv, PoolTypes
  <2>4. LockInv'
    BY <1>1, <2>1, <2>2 DEF PoolInv, LockInv
  <2>5. OffsetInv'
    <3>1. \A u \in Threads : PagesSize(u)' = PagesSize(u)
      BY <2>1 DEF PagesSize
    <3> QED BY <1>1, <2>1, <2>2, <3>1 DEF PoolInv, OffsetInv
  <2>6. Taking' \subseteq Taking
    BY <2>1, <2>2 DEF Taking
  <2>7. RegionsInv'
    BY <2>1, <2>6, FewerTake
  <2> QED BY <2>1, <2>3, <2>4, <2>5, <2>7, NothingCut DEF PoolInv
<1>4. CASE Commit(t) /\ (commited >= end \/ end <= Reserved)
  <2>1. TakePages(t) /\ commited' = IF commited >= end THEN commited ELSE end
    BY <1>4 DEF Commit
  <2> HIDE DEF end
  <2>2. /\ commited' \in Nat /\ commited <= commited' /\ end <= commited'
        /\ commited' <= allocOffset /\ commited' <= Reserved
    BY <1>1, <1>4, <2>1
  <2> QED BY <1>1, <2>1, <2>2, TakePagesKeeps DEF end
<1>5. CASE Commit(t) /\ ~(commited >= end \/ end <= Reserved)
  <2>1. PagesReturn(t) /\ UNCHANGED <<commited, pages, blocks>>
    BY <1>5 DEF Commit
  <2> QED BY <1>1, <2>1, NoPagesKeep
<1> QED BY <1>2, <1>3, <1>4, <1>5

-----------------------------------------------------------------------------
(* The pools are made *)

LEMMA CreatePoolKeeps ==
  ASSUME MemoryAssumption, PoolInv, NEW p \in Pools, CreatePool(p)
  PROVE  PoolInv'
<1> DEFINE size == AlignedSize(BlockSize[p] * Preallocated, PageSize)
           end == allocOffset + size
           new == IF end <= Reserved THEN Region(allocOffset, end - allocOffset) ELSE Region(0, 0)
<1>1. /\ size \in Nat /\ allocOffset \in Nat /\ commited \in Nat /\ Reserved \in Nat
      /\ commited <= allocOffset /\ commited <= Reserved
  <2>1. BlockSize[p] * Preallocated \in Nat /\ PageSize \in Nat \ {0} /\ Reserved \in Nat
    BY DEF MemoryAssumption
  <2> QED BY <2>1, AlignedIsEnough DEF PoolInv, PoolTypes, RegionsInv, CommitInv
<1> HIDE DEF size
<1>2. /\ pages[p] = <<>> /\ pages' = [pages EXCEPT ![p] = <<new>>]
      /\ commited' = (IF end <= Reserved THEN end ELSE commited) /\ allocOffset' = end
      /\ UNCHANGED <<freeBlocks, lock, allocAt, want, seen, again, blocks>>
  BY DEF CreatePool, size
<1>3. /\ new \in Entries /\ new.offset = 0 /\ new.base \in Nat /\ new.size \in Nat
      /\ new.base + new.size <= commited' /\ (new.base >= allocOffset \/ new.base + new.size = 0)
  BY <1>1, <1>2 DEF Entries, Region
<1>4. commited' \in Nat /\ commited <= commited' /\ commited' <= end /\ commited' <= Reserved
  BY <1>1, <1>2
<1> HIDE DEF new
<1>5. /\ DOMAIN pages[p] = {} /\ pages'[p] = <<new>> /\ \A q \in Pools \ {p} : pages'[q] = pages[q]
      /\ pages' \in [Pools -> Seq(Entries)]
  BY <1>2, <1>3 DEF PoolInv, PoolTypes
<1>6. \A q \in Pools : \A i \in DOMAIN pages'[q] :
        \/ q # p /\ i \in DOMAIN pages[q] /\ pages'[q][i] = pages[q][i]
        \/ q = p /\ i = 1 /\ pages'[q][i] = new
  BY <1>5
<1>7. ASSUME NEW q \in Pools, NEW i \in DOMAIN pages[q]
      PROVE  /\ pages[q][i].base + pages[q][i].size <= commited
             /\ pages[q][i].offset <= pages[q][i].size
             /\ pages[q][i].base \in Nat /\ pages[q][i].size \in Nat /\ pages[q][i].offset \in Nat
  BY EntryFacts DEF PoolInv, RegionsInv, RegionsCommited
<1>8. PoolTypes'
  BY <1>1, <1>2, <1>4, <1>5 DEF PoolInv, PoolTypes
<1>9. LockInv'
  BY <1>2 DEF PoolInv, LockInv
<1>10. \A u \in Threads : PagesSize(u)' = PagesSize(u)
  BY <1>2 DEF PagesSize
<1>11. OffsetInv'
  <2> SUFFICES ASSUME NEW u \in Threads
               PROVE  /\ allocAt[u] \in {"reload", "exchange"} => seen[u] <= end
                      /\ allocAt[u] = "exchange" => seen[u] <= again[u] /\ again[u] <= end
                      /\ allocAt[u] \in {"check", "commit"} => seen[u] + PagesSize(u) <= end
    BY <1>2, <1>10 DEF OffsetInv
  <2>1. seen[u] \in Nat /\ again[u] \in Nat
    BY DEF PoolInv, PoolTypes
  <2>2. allocAt[u] \in {"check", "commit"} => PagesSize(u) \in Nat
    BY TakingFacts DEF MemoryAssumption
  <2> QED BY <1>1, <2>1, <2>2 DEF PoolInv, OffsetInv
<1>12. RegionsInv'
  <2>1. RegionsCommited'
    <3> SUFFICES ASSUME NEW q \in Pools, NEW i \in DOMAIN pages'[q]
                 PROVE  /\ pages'[q][i].base + pages'[q][i].size <= commited'
                        /\ pages'[q][i].offset <= pages'[q][i].size
      BY DEF RegionsCommited
    <3> QED BY <1>1, <1>3, <1>4, <1>6, <1>7
  <2>2. ASSUME NEW q \in Pools, NEW i \in DOMAIN pages[q]
        PROVE  /\ Apart(pages[q][i].base, pages[q][i].size, new.base, new.size)
               /\ Apart(new.base, new.size, pages[q][i].base, pages[q][i].size)
    BY <1>1, <1>3, <1>7 DEF Apart
  <2>3. RegionsApart'
    <3> SUFFICES ASSUME NEW q \in Pools, NEW r \in Pools, NEW i \in DOMAIN pages'[q],
                        NEW j \in DOMAIN pages'[r], q # r \/ i # j
                 PROVE  Apart(pages'[q][i].base, pages'[q][i].size, pages'[r][j].base, pages'[r][j].size)
      BY DEF RegionsApart
    <3>1. CASE q # p /\ r # p
      BY <1>6, <3>1 DEF PoolInv, RegionsInv, RegionsApart
    <3>2. CASE q # p /\ r = p
      BY <1>6, <2>2, <3>2
    <3>3. CASE q = p /\ r # p
      BY <1>6, <2>2, <3>3
    <3> QED BY <1>6, <3>1, <3>2, <3>3
  <2>4. TakingApart'
    <3>1. Taking' = Taking /\ seen' = seen
      BY <1>2 DEF Taking
    <3>2. ASSUME NEW u \in Taking, NEW q \in Pools, NEW i \in DOMAIN pages'[q]
          PROVE  Apart(seen[u], PagesSize(u), pages'[q][i].base, pages'[q][i].size)
      <4>1. CASE q # p
        BY <1>6, <4>1 DEF PoolInv, RegionsInv, TakingApart
      <4>2. CASE q = p
        <5>1. /\ u \in Threads /\ PagesSize(u) \in Nat /\ seen[u] \in Nat
              /\ seen[u] + PagesSize(u) <= allocOffset
          BY TakingFacts DEF Taking, PoolInv, OffsetInv, MemoryAssumption
        <5> QED BY <1>1, <1>3, <1>6, <4>2, <5>1 DEF Apart
      <4> QED BY <4>1, <4>2
    <3>3. \A u, v \in Taking : u # v => Apart(seen[u], PagesSize(u), seen[v], PagesSize(v))
      BY DEF PoolInv, RegionsInv, TakingApart
    <3>4. \A u \in Taking : PagesSize(u)' = PagesSize(u)
      BY <1>10 DEF Taking
    <3> QED BY <3>1, <3>2, <3>3, <3>4 DEF TakingApart
  <2> QED BY <1>2, <1>4, <2>1, <2>3, <2>4 DEF RegionsInv, CommitInv
<1>13. BlocksInv'
  <2>1. /\ Cut' = Cut /\ \A q \in Pools : FreeOnes(q)' = FreeOnes(q)
        /\ Cut \subseteq [pool : Pools, address : Nat]
    BY <1>2 DEF Cut, FreeOnes, PoolInv, PoolTypes, Block, ToSet
  <2>2. \A b \in Cut : b.pool \in Pools \ {p}
    BY <1>5, <2>1 DEF PoolInv, BlocksInv, BlocksInside
  <2>3. BlocksInside'
    BY <1>5, <2>1, <2>2 DEF PoolInv, BlocksInv, BlocksInside
  <2> QED BY <1>2, <2>1, <2>3 DEF PoolInv, BlocksInv, BlocksApart, FreeOnce
<1> QED BY <1>8, <1>9, <1>11, <1>12, <1>13 DEF PoolInv

-----------------------------------------------------------------------------
LEMMA PoolsInitially ==
  ASSUME MemoryAssumption, MemoryInit
  PROVE  PoolInv
<1>1. PoolTypes /\ LockInv /\ OffsetInv
  BY DEF MemoryAssumption, MemoryInit, PoolTypes, LockInv, OffsetInv
<1>2. \A p \in Pools : DOMAIN pages[p] = {} /\ freeBlocks[p] = <<>>
  BY DEF MemoryInit
<1>3. Taking = {}
  BY DEF MemoryInit, Taking, MemoryAssumption
<1>4. RegionsInv
  BY <1>2, <1>3 DEF MemoryInit, RegionsInv, CommitInv, RegionsCommited, RegionsApart, TakingApart,
                    MemoryAssumption
<1>5. \A p \in Pools : FreeOnes(p) = {}
  BY <1>2 DEF FreeOnes, ToSet
<1>6. Cut = {}
  BY <1>5 DEF Cut, MemoryInit
<1>7. BlocksInv
  BY <1>2, <1>5, <1>6 DEF BlocksInv, BlocksInside, BlocksApart, FreeOnce, IsInjective
<1> QED BY <1>1, <1>4, <1>7 DEF PoolInv

LEMMA StepKeepsPoolInv ==
  ASSUME MemoryAssumption, PoolInv, [MemoryNext]_<<poolVars, stackVars>>
  PROVE  PoolInv'
<1>1. CASE UNCHANGED poolVars
  <2>1. PoolTypes'
    BY <1>1 DEF PoolInv, PoolTypes, poolVars
  <2> QED BY <1>1, <2>1, ListsOnly, NothingCut DEF PoolInv, poolVars
<1>2. CASE StackNext
  BY <1>1, <1>2 DEF StackNext, OpenStack, OpenScope, CloseScope, StackAlloc
<1>3. CASE PoolNext
  BY <1>3, AllocFreeKeeps, AllocNewKeeps, AllocPagesKeeps, ReloadKeeps, ExchangeKeeps,
     CheckAndCommitKeep, FreeBlockKeeps, CreatePoolKeeps DEF PoolNext
<1> QED BY <1>1, <1>2, <1>3 DEF MemoryNext

\* Two ranges that are apart have no address in common.
LEMMA ApartIsDisjoint ==
  ASSUME NEW a \in Nat, NEW n \in Nat, NEW b \in Nat, NEW m \in Nat, Apart(a, n, b, m)
  PROVE  Cells(a, n) \cap Cells(b, m) = {}
BY DEF Apart, Cells

\* The invariant implies what the run checks.
LEMMA CutAreDisjoint ==
  ASSUME MemoryAssumption, PoolInv
  PROVE  BlocksAreDisjoint
<1>1. /\ Cut \subseteq [pool : Pools, address : Nat]
      /\ \A q \in Pools : BlockSize[q] \in Nat \ {0}
  BY DEF Cut, PoolInv, PoolTypes, FreeOnes, Block, ToSet, MemoryAssumption
<1>2. \A b, c \in Cut : b # c => BlockCells(b) \cap BlockCells(c) = {}
  BY <1>1, ApartIsDisjoint DEF PoolInv, BlocksInv, BlocksApart, BlockCells
<1>3. ASSUME NEW b \in Cut
      PROVE  /\ b.address + BlockSize[b.pool] <= commited
             /\ \E r \in Regions : r[1] = b.pool /\ BlockCells(b) \subseteq CellsOf(r)
  <2>1. b.pool \in Pools /\ b.address \in Nat /\ BlockSize[b.pool] \in Nat
    BY <1>1
  <2>2. PICK i \in DOMAIN pages[b.pool] :
          /\ pages[b.pool][i].base <= b.address
          /\ b.address + BlockSize[b.pool] <= pages[b.pool][i].base + pages[b.pool][i].offset
    BY DEF PoolInv, BlocksInv, BlocksInside
  <2>3. /\ pages[b.pool][i].base \in Nat /\ pages[b.pool][i].size \in Nat /\ pages[b.pool][i].offset \in Nat
        /\ pages[b.pool][i].base + pages[b.pool][i].size <= commited /\ commited \in Nat
        /\ pages[b.pool][i].offset <= pages[b.pool][i].size
    BY <2>1, EntryFacts DEF PoolInv, PoolTypes, RegionsInv, RegionsCommited
  <2>4. b.address + BlockSize[b.pool] <= commited
    BY <2>1, <2>2, <2>3
  <2>5. <<b.pool, i>> \in Regions
    BY <2>1 DEF Regions
  <2>6. BlockCells(b) \subseteq CellsOf(<<b.pool, i>>)
    BY <2>1, <2>2, <2>3 DEF BlockCells, CellsOf, Cells
  <2> QED BY <2>4, <2>5, <2>6
<1>4. \A r, s \in Regions : r # s => CellsOf(r) \cap CellsOf(s) = {}
  <2> SUFFICES ASSUME NEW p \in Pools, NEW q \in Pools, NEW i \in DOMAIN pages[p], NEW j \in DOMAIN pages[q],
                      p # q \/ i # j
               PROVE  CellsOf(<<p, i>>) \cap CellsOf(<<q, j>>) = {}
    BY DEF Regions
  <2>1. Apart(pages[p][i].base, pages[p][i].size, pages[q][j].base, pages[q][j].size)
    BY DEF PoolInv, RegionsInv, RegionsApart
  <2>2. /\ pages[p][i].base \in Nat /\ pages[p][i].size \in Nat
        /\ pages[q][j].base \in Nat /\ pages[q][j].size \in Nat
    BY EntryFacts DEF PoolInv
  <2> QED BY <2>1, <2>2, ApartIsDisjoint DEF CellsOf
<1> QED BY <1>2, <1>3, <1>4 DEF BlocksAreDisjoint, Cut, PoolInv, BlocksInv, FreeOnce, RegionsInv, CommitInv

\* Whoever allocates at once, in pools of any sizes: no two blocks overlap, and each lies
\* in committed pages of its own pool.
THEOREM BlocksAlwaysDisjoint ==
  ASSUME MemoryAssumption
  PROVE  MemorySpec => []BlocksAreDisjoint
<1>1. MemoryInit => PoolInv
  BY PoolsInitially
<1>2. PoolInv /\ [MemoryNext]_<<poolVars, stackVars>> => PoolInv'
  BY StepKeepsPoolInv
<1>3. PoolInv => BlocksAreDisjoint
  BY CutAreDisjoint
<1> QED BY <1>1, <1>2, <1>3, PTL DEF MemorySpec

-----------------------------------------------------------------------------
(***************************************************************************)
(* The runtime stack.  Scopes lie on stacks that are numbered as they are  *)
(* opened, each on the stack of the scope around it or on the next one,    *)
(* and a scope begins above all that older scopes have put on its stack.   *)
(***************************************************************************)
Guards == [stack : Nat, top : Nat]
StackTypes ==
  /\ scopes \in Seq(Guards) /\ offsets \in Seq(Nat)
  /\ stacked \subseteq [stack : Nat \ {0}, from : Nat, size : Nat, scope : Nat]

StackAround(i) == IF i = 1 THEN 0 ELSE scopes[i - 1].stack

ScopesGrow ==
  /\ CurrentStack = Len(offsets)
  /\ \A i \in DOMAIN scopes : scopes[i].stack <= StackAround(i) + 1
  /\ \A i, j \in DOMAIN scopes : i <= j =>
       /\ scopes[i].stack <= scopes[j].stack
       /\ scopes[i].stack = scopes[j].stack => scopes[i].top <= scopes[j].top
  /\ \A i \in DOMAIN scopes :
       IF scopes[i].stack = 0 THEN scopes[i].top = 0 ELSE scopes[i].top <= offsets[scopes[i].stack]

\* What a scope has put on its stack lies below the scopes that came later.
BelowScopes ==
  \A a \in stacked :
    /\ a.scope \in DOMAIN scopes /\ scopes[a.scope].stack = a.stack
    /\ a.from + a.size <= offsets[a.stack]
    /\ \A j \in DOMAIN scopes :
         j > a.scope /\ scopes[j].stack = a.stack => a.from + a.size <= scopes[j].top

StackedApart ==
  \A a, b \in stacked : a # b /\ a.stack = b.stack => Apart(a.from, a.size, b.from, b.size)

StackInv == StackTypes /\ ScopesGrow /\ BelowScopes /\ StackedApart

\* The scopes and the stacks, one by one.
LEMMA ScopeFacts ==
  ASSUME StackInv
  PROVE  /\ DOMAIN scopes = 1..Len(scopes) /\ Len(scopes) \in Nat
         /\ DOMAIN offsets = 1..Len(offsets) /\ Len(offsets) \in Nat
         /\ \A k \in 1..Len(offsets) : offsets[k] \in Nat
         /\ \A i \in DOMAIN scopes : /\ scopes[i].stack \in 0..Len(offsets) /\ scopes[i].top \in Nat
         /\ scopes = <<>> => Len(offsets) = 0 /\ stacked = {}
         /\ scopes # <<>> => scopes[Len(scopes)].stack = Len(offsets)
         /\ \A a \in stacked : /\ a.stack \in 1..Len(offsets) /\ a.from \in Nat /\ a.size \in Nat
                              /\ a.scope \in 1..Len(scopes)
<1>1. /\ scopes \in Seq(Guards) /\ offsets \in Seq(Nat) /\ [stack |-> 0, top |-> 0] \in Guards
      /\ stacked \subseteq [stack : Nat \ {0}, from : Nat, size : Nat, scope : Nat]
      /\ \A g \in Guards : g.stack \in Nat /\ g.top \in Nat
  BY DEF StackInv, StackTypes, Guards
<1>2. /\ DOMAIN scopes = 1..Len(scopes) /\ Len(scopes) \in Nat /\ \A i \in DOMAIN scopes : scopes[i] \in Guards
      /\ scopes # <<>> => Len(scopes) \in DOMAIN scopes
  BY <1>1, ListFacts
<1>3. /\ DOMAIN offsets = 1..Len(offsets) /\ Len(offsets) \in Nat
      /\ \A k \in 1..Len(offsets) : offsets[k] \in Nat
  BY <1>1
<1>4. scopes # <<>> => scopes[Len(scopes)].stack = Len(offsets)
  BY DEF StackInv, ScopesGrow, CurrentStack, Last
<1>5. scopes = <<>> => Len(offsets) = 0 /\ stacked = {}
  BY DEF StackInv, ScopesGrow, BelowScopes, CurrentStack
<1>6. ASSUME NEW i \in DOMAIN scopes
      PROVE  scopes[i].stack \in 0..Len(offsets) /\ scopes[i].top \in Nat
  <2>1. i \in 1..Len(scopes) /\ scopes # <<>> /\ Len(scopes) \in DOMAIN scopes
        /\ scopes[i].stack \in Nat /\ scopes[i].top \in Nat
    BY <1>1, <1>2
  <2>2. scopes[i].stack <= scopes[Len(scopes)].stack
    BY <2>1 DEF StackInv, ScopesGrow
  <2> QED BY <1>3, <1>4, <2>1, <2>2
<1>7. ASSUME NEW a \in stacked
      PROVE  /\ a.stack \in 1..Len(offsets) /\ a.from \in Nat /\ a.size \in Nat
             /\ a.scope \in 1..Len(scopes)
  <2>1. a.scope \in DOMAIN scopes /\ scopes[a.scope].stack = a.stack
    BY DEF StackInv, BelowScopes
  <2>2. a.stack \in Nat \ {0} /\ a.from \in Nat /\ a.size \in Nat
    BY <1>1
  <2> QED BY <1>2, <1>3, <1>6, <2>1, <2>2
<1> QED BY <1>2, <1>3, <1>4, <1>5, <1>6, <1>7

\* A scope is opened on the current stack or on a new one, above what is there.
LEMMA OpenKeeps ==
  ASSUME StackInv, NEW g \in Guards, scopes' = Append(scopes, g), stacked' = stacked,
         \/ /\ offsets' = Append(offsets, 0) /\ g = [stack |-> Len(offsets) + 1, top |-> 0]
         \/ /\ offsets' = offsets /\ g.stack = Len(offsets)
            /\ g.top = IF g.stack = 0 THEN 0 ELSE offsets[g.stack]
  PROVE  StackInv'
<1> DEFINE n == Len(scopes)
<1>1. /\ scopes' \in Seq(Guards) /\ DOMAIN scopes' = 1..(n + 1) /\ n \in Nat /\ DOMAIN scopes = 1..n
      /\ scopes'[n + 1] = g /\ (\A i \in DOMAIN scopes : scopes'[i] = scopes[i]) /\ Len(scopes') = n + 1
      /\ g.stack \in Nat /\ g.top \in Nat
  BY ListFacts DEF StackInv, StackTypes, Guards
<1>2. /\ offsets' \in Seq(Nat) /\ Len(offsets') = g.stack /\ Len(offsets) \in Nat
      /\ \A k \in 1..Len(offsets) : offsets'[k] = offsets[k] /\ k \in 1..Len(offsets')
      /\ Len(offsets) <= g.stack /\ g.stack <= Len(offsets) + 1
      /\ IF g.stack = 0 THEN g.top = 0 ELSE g.top = offsets'[g.stack]
  <2>1. /\ offsets \in Seq(Nat) /\ Len(offsets) \in Nat /\ DOMAIN offsets = 1..Len(offsets)
        /\ \A k \in 1..Len(offsets) : offsets[k] \in Nat
    BY ScopeFacts DEF StackInv, StackTypes
  <2>2. CASE offsets' = Append(offsets, 0) /\ g = [stack |-> Len(offsets) + 1, top |-> 0]
    <3>1. PICK m \in Nat : m = Len(offsets) + 1
      BY <2>1
    <3>2. g.stack = m /\ g.top = 0 /\ m # 0 /\ Len(offsets) <= m /\ m <= Len(offsets) + 1
      BY <2>1, <2>2, <3>1
    <3>3. /\ offsets' \in Seq(Nat) /\ Len(offsets') = m /\ offsets'[m] = 0
          /\ \A k \in 1..Len(offsets) : offsets'[k] = offsets[k]
      BY <2>1, <2>2, <3>1
    <3>4. \A k \in 1..Len(offsets) : k \in 1..m
      BY <2>1, <3>1
    <3> QED BY <2>1, <3>2, <3>3, <3>4, Zenon
  <2>3. CASE offsets' = offsets /\ g.stack = Len(offsets) /\ g.top = IF g.stack = 0 THEN 0 ELSE offsets[g.stack]
    BY <2>1, <2>3
  <2> QED BY <2>2, <2>3
<1>3. /\ \A i \in DOMAIN scopes : scopes[i].stack \in 0..Len(offsets) /\ scopes[i].top \in Nat
      /\ \A a \in stacked : a.stack \in 1..Len(offsets) /\ a.from \in Nat /\ a.size \in Nat
                            /\ a.scope \in 1..n
      /\ scopes = <<>> => n = 0 /\ Len(offsets) = 0
      /\ scopes # <<>> => n \in DOMAIN scopes /\ scopes[n].stack = Len(offsets)
  BY ScopeFacts
<1> HIDE DEF n
<1>4. \A i \in DOMAIN scopes' : i \in DOMAIN scopes \/ (i = n + 1 /\ scopes'[i] = g)
  BY <1>1
<1>5. ASSUME NEW i \in DOMAIN scopes
      PROVE  IF scopes[i].stack = 0 THEN scopes[i].top = 0
             ELSE scopes[i].top <= offsets'[scopes[i].stack] /\ offsets'[scopes[i].stack] = offsets[scopes[i].stack]
  BY <1>2, <1>3 DEF StackInv, ScopesGrow
<1>6. ScopesGrow'
  <2>1. CurrentStack' = Len(offsets')
    <3>1. scopes' # <<>> /\ scopes'[Len(scopes')] = g
      BY <1>1
    <3> QED BY <1>2, <3>1 DEF CurrentStack, Last
  <2>2. ASSUME NEW i \in DOMAIN scopes'
        PROVE  scopes'[i].stack <= StackAround(i)' + 1
    <3>1. CASE i \in DOMAIN scopes
      <4>1. StackAround(i)' = StackAround(i)
        BY <1>1, <3>1 DEF StackAround
      <4> QED BY <1>1, <3>1, <4>1 DEF StackInv, ScopesGrow
    <3>2. CASE i = n + 1 /\ scopes'[i] = g
      <4>1. CASE scopes = <<>>
        BY <1>2, <1>3, <3>2, <4>1 DEF StackAround
      <4>2. CASE scopes # <<>>
        <5>1. i # 1 /\ i - 1 = n /\ scopes'[n] = scopes[n] /\ scopes[n].stack = Len(offsets)
          BY <1>1, <1>3, <3>2, <4>2
        <5>2. StackAround(i)' = Len(offsets)
          BY <5>1 DEF StackAround
        <5> QED BY <1>2, <3>2, <5>2
      <4> QED BY <4>1, <4>2
    <3> QED BY <1>4, <3>1, <3>2
  <2>3. ASSUME NEW i \in DOMAIN scopes', NEW j \in DOMAIN scopes', i <= j
        PROVE  /\ scopes'[i].stack <= scopes'[j].stack
               /\ scopes'[i].stack = scopes'[j].stack => scopes'[i].top <= scopes'[j].top
    <3>1. CASE i \in DOMAIN scopes /\ j \in DOMAIN scopes
      BY <1>1, <2>3, <3>1 DEF StackInv, ScopesGrow
    <3>2. CASE i \in DOMAIN scopes /\ j = n + 1 /\ scopes'[j] = g
      BY <1>1, <1>2, <1>3, <1>5, <3>2
    <3>3. CASE i = n + 1 /\ j \in DOMAIN scopes
      BY <1>1, <2>3, <3>3
    <3>4. CASE scopes'[i] = g /\ scopes'[j] = g
      BY <1>1, <3>4
    <3> QED BY <1>4, <3>1, <3>2, <3>3, <3>4
  <2>4. ASSUME NEW i \in DOMAIN scopes'
        PROVE  IF scopes'[i].stack = 0 THEN scopes'[i].top = 0
               ELSE scopes'[i].top <= offsets'[scopes'[i].stack]
    <3>1. CASE i \in DOMAIN scopes
      BY <1>1, <1>5, <3>1
    <3>2. CASE scopes'[i] = g
      BY <1>1, <1>2, <3>2
    <3> QED BY <1>4, <3>1, <3>2
  <2> QED BY <2>1, <2>2, <2>3, <2>4 DEF ScopesGrow
<1>7. BelowScopes'
  <2> SUFFICES ASSUME NEW a \in stacked
               PROVE  /\ a.scope \in DOMAIN scopes' /\ scopes'[a.scope].stack = a.stack
                      /\ a.from + a.size <= offsets'[a.stack]
                      /\ \A j \in DOMAIN scopes' :
                           j > a.scope /\ scopes'[j].stack = a.stack => a.from + a.size <= scopes'[j].top
    BY DEF BelowScopes
  <2>1. /\ a.scope \in DOMAIN scopes /\ scopes[a.scope].stack = a.stack
        /\ a.from + a.size <= offsets[a.stack] /\ a.stack \in 1..Len(offsets)
        /\ \A j \in DOMAIN scopes :
             j > a.scope /\ scopes[j].stack = a.stack => a.from + a.size <= scopes[j].top
    BY <1>3 DEF StackInv, BelowScopes
  <2>2. a.scope \in DOMAIN scopes' /\ scopes'[a.scope].stack = a.stack
        /\ a.from + a.size <= offsets'[a.stack]
    BY <1>1, <1>2, <2>1
  <2>3. ASSUME NEW j \in DOMAIN scopes', j > a.scope, scopes'[j].stack = a.stack
        PROVE  a.from + a.size <= scopes'[j].top
    <3>1. CASE j \in DOMAIN scopes
      BY <1>1, <2>1, <2>3, <3>1
    <3>2. CASE scopes'[j] = g
      BY <1>2, <2>1, <2>2, <2>3, <3>2
    <3> QED BY <1>4, <3>1, <3>2
  <2> QED BY <2>2, <2>3
<1> QED BY <1>1, <1>2, <1>6, <1>7 DEF StackInv, StackTypes, StackedApart

LEMMA StackAllocKeeps ==
  ASSUME StackInv, NEW n \in 1..2, StackAlloc(n)
  PROVE  StackInv'
<1> DEFINE s == CurrentStack
           new == [stack |-> s, from |-> offsets[s], size |-> n, scope |-> Len(scopes)]
<1>1. /\ s = Len(offsets) /\ s \in Nat \ {0} /\ scopes # <<>> /\ Len(scopes) \in DOMAIN scopes
      /\ offsets[s] \in Nat /\ scopes[Len(scopes)].stack = s /\ Len(scopes) \in Nat
      /\ DOMAIN scopes = 1..Len(scopes) /\ DOMAIN offsets = 1..s
      /\ stacked' = stacked \cup {new} /\ offsets' = [offsets EXCEPT ![s] = @ + n] /\ scopes' = scopes
  <2>1. s # 0 /\ s = Len(offsets)
    BY DEF StackAlloc, StackInv, ScopesGrow
  <2> QED BY <2>1, ScopeFacts DEF StackAlloc
<1> HIDE DEF s
<1>2. /\ offsets' \in Seq(Nat) /\ Len(offsets') = Len(offsets) /\ offsets'[s] = offsets[s] + n
      /\ \A k \in 1..Len(offsets) : k # s => offsets'[k] = offsets[k]
      /\ \A k \in 1..Len(offsets) : offsets'[k] >= offsets[k] /\ offsets'[k] \in Nat /\ offsets[k] \in Nat
  BY <1>1 DEF StackInv, StackTypes
<1>3. /\ new \in [stack : Nat \ {0}, from : Nat, size : Nat, scope : Nat]
      /\ new.stack = s /\ new.from = offsets[s] /\ new.size = n /\ new.scope = Len(scopes)
  BY <1>1
<1> HIDE DEF new
<1>4. ScopesGrow'
  <2>1. CurrentStack' = Len(offsets')
    BY <1>1, <1>2 DEF CurrentStack, StackInv, ScopesGrow
  <2>2. ASSUME NEW i \in DOMAIN scopes
        PROVE  IF scopes[i].stack = 0 THEN scopes[i].top = 0 ELSE scopes[i].top <= offsets'[scopes[i].stack]
    <3>1. /\ scopes[i].stack \in 0..Len(offsets) /\ scopes[i].top \in Nat
          /\ IF scopes[i].stack = 0 THEN scopes[i].top = 0 ELSE scopes[i].top <= offsets[scopes[i].stack]
      BY ScopeFacts DEF StackInv, ScopesGrow
    <3>2. CASE scopes[i].stack # 0
      <4>1. scopes[i].stack \in 1..Len(offsets)
        BY <3>1, <3>2
      <4>2. /\ offsets'[scopes[i].stack] >= offsets[scopes[i].stack]
            /\ offsets'[scopes[i].stack] \in Nat /\ offsets[scopes[i].stack] \in Nat
        BY <1>2, <4>1
      <4> QED BY <3>1, <3>2, <4>2
    <3> QED BY <3>1, <3>2
  <2>3. \A i : StackAround(i)' = StackAround(i)
    BY <1>1 DEF StackAround
  <2> QED BY <1>1, <2>1, <2>2, <2>3 DEF StackInv, ScopesGrow
<1>5. ASSUME NEW a \in stacked
      PROVE  /\ a.from + a.size <= offsets[a.stack] /\ a.from + a.size <= offsets'[a.stack]
             /\ a.from \in Nat /\ a.size \in Nat
  <2>1. /\ a.stack \in 1..Len(offsets) /\ a.from \in Nat /\ a.size \in Nat
        /\ a.from + a.size <= offsets[a.stack]
    BY ScopeFacts DEF StackInv, BelowScopes
  <2>2. /\ offsets'[a.stack] >= offsets[a.stack] /\ offsets'[a.stack] \in Nat /\ offsets[a.stack] \in Nat
    BY <1>2, <2>1
  <2> QED BY <2>1, <2>2
<1>6. BelowScopes'
  <2>1. \A a \in stacked :
          /\ a.scope \in DOMAIN scopes /\ scopes[a.scope].stack = a.stack
          /\ \A j \in DOMAIN scopes :
               j > a.scope /\ scopes[j].stack = a.stack => a.from + a.size <= scopes[j].top
    BY DEF StackInv, BelowScopes
  <2>2. /\ new.scope \in DOMAIN scopes /\ scopes[new.scope].stack = new.stack
        /\ new.from + new.size <= offsets'[new.stack] /\ \A j \in DOMAIN scopes : ~(j > new.scope)
    BY <1>1, <1>2, <1>3
  <2> QED BY <1>1, <1>5, <2>1, <2>2 DEF BelowScopes
<1>7. StackedApart'
  <2>1. \A a \in stacked : a.stack = s =>
          Apart(a.from, a.size, new.from, new.size) /\ Apart(new.from, new.size, a.from, a.size)
    BY <1>3, <1>5 DEF Apart
  <2> QED BY <1>1, <1>3, <2>1 DEF StackInv, StackedApart
<1>8. StackTypes'
  BY <1>1, <1>2, <1>3 DEF StackInv, StackTypes
<1> QED BY <1>4, <1>6, <1>7, <1>8 DEF StackInv

LEMMA CloseKeeps ==
  ASSUME StackInv, CloseScope
  PROVE  StackInv'
<1> DEFINE n == Len(scopes)
           s == Len(offsets)
<1>1. /\ n \in Nat \ {0} /\ s \in Nat /\ DOMAIN scopes = 1..n /\ DOMAIN offsets = 1..s
      /\ CurrentStack = s /\ scopes[n].stack = s /\ scopes[n].top \in Nat /\ scopes \in Seq(Guards)
      /\ scopes # <<>> /\ offsets \in Seq(Nat) /\ \A k \in 1..s : offsets[k] \in Nat
      /\ \A i \in DOMAIN scopes : scopes[i].stack \in 0..s /\ scopes[i].top \in Nat
  BY ScopeFacts DEF CloseScope, StackInv, StackTypes, ScopesGrow
<1>2. /\ scopes' = SubSeq(scopes, 1, n - 1) /\ stacked' = {a \in stacked : a.scope < n}
      /\ offsets' = IF s = 0 THEN offsets
                    ELSE IF \E i \in DOMAIN scopes' : scopes'[i].stack = s
                    THEN [offsets EXCEPT ![s] = scopes[n].top] ELSE SubSeq(offsets, 1, s - 1)
  BY <1>1 DEF CloseScope, Front, Last
<1> HIDE DEF n, s
<1>3. /\ scopes' \in Seq(Guards) /\ DOMAIN scopes' = 1..(n - 1) /\ Len(scopes') = n - 1
      /\ \A i \in DOMAIN scopes' : i \in DOMAIN scopes /\ i < n /\ scopes'[i] = scopes[i]
  BY <1>1, <1>2
<1>4. /\ \A i \in DOMAIN scopes' : StackAround(i)' = StackAround(i)
      /\ CurrentStack' = StackAround(n) /\ StackAround(n) \in 0..s
      /\ StackAround(n) <= s /\ s <= StackAround(n) + 1
  <2>1. \A i \in DOMAIN scopes' : i = 1 \/ i - 1 \in DOMAIN scopes'
    BY <1>1, <1>3
  <2>2. \A i \in DOMAIN scopes' : StackAround(i)' = StackAround(i)
    BY <1>3, <2>1 DEF StackAround
  <2>3. CurrentStack' = StackAround(n)
    BY <1>1, <1>3 DEF CurrentStack, StackAround, Last
  <2>4. StackAround(n) \in 0..s /\ s <= StackAround(n) + 1
    <3>1. n \in DOMAIN scopes /\ s <= StackAround(n) + 1
      BY <1>1 DEF StackInv, ScopesGrow
    <3>2. CASE n = 1
      BY <1>1, <3>1, <3>2 DEF StackAround
    <3>3. CASE n # 1
      <4>1. n - 1 \in DOMAIN scopes /\ StackAround(n) = scopes[n - 1].stack
        BY <1>1, <3>3 DEF StackAround
      <4> QED BY <1>1, <3>1, <4>1
    <3> QED BY <3>2, <3>3
  <2> QED BY <2>2, <2>3, <2>4, <1>1
<1>5. \A i \in DOMAIN scopes' : scopes[i].stack <= StackAround(n)
  <2> SUFFICES ASSUME NEW i \in DOMAIN scopes' PROVE scopes[i].stack <= StackAround(n)
    OBVIOUS
  <2>1. n # 1 /\ n - 1 \in DOMAIN scopes /\ i <= n - 1 /\ i \in DOMAIN scopes
    BY <1>1, <1>3
  <2>2. scopes[i].stack <= scopes[n - 1].stack
    BY <2>1 DEF StackInv, ScopesGrow
  <2> QED BY <2>1, <2>2 DEF StackAround
\* what is left of the stacks, and that it goes on to hold what it holds
<1>6. /\ offsets' \in Seq(Nat) /\ Len(offsets') = StackAround(n)
      /\ \A k \in 1..StackAround(n) : IF k = s THEN offsets'[k] = scopes[n].top ELSE offsets'[k] = offsets[k]
  <2>1. \A i \in DOMAIN scopes' : scopes'[i].stack = scopes[i].stack
    BY <1>3
  <2>2. CASE s = 0
    BY <1>1, <1>2, <1>4, <2>2
  <2>3. CASE s # 0 /\ \E i \in DOMAIN scopes' : scopes'[i].stack = s
    <3>1. StackAround(n) = s
      BY <1>1, <1>4, <1>5, <2>1, <2>3
    <3>2. offsets' = [offsets EXCEPT ![s] = scopes[n].top]
      BY <1>2, <2>3
    <3> QED BY <1>1, <2>3, <3>1, <3>2
  <2>4. CASE s # 0 /\ ~\E i \in DOMAIN scopes' : scopes'[i].stack = s
    <3>1. StackAround(n) = s - 1
      <4>1. CASE n = 1
        BY <1>1, <1>4, <2>4, <4>1 DEF StackAround
      <4>2. CASE n # 1
        <5>1. n - 1 \in DOMAIN scopes' /\ StackAround(n) = scopes'[n - 1].stack
          BY <1>1, <1>3, <4>2 DEF StackAround
        <5>2. StackAround(n) # s
          BY <2>4, <5>1
        <5> QED BY <1>1, <1>4, <5>2
      <4> QED BY <4>1, <4>2
    <3>2. offsets' = SubSeq(offsets, 1, s - 1)
      BY <1>2, <2>4
    <3> QED BY <1>1, <2>4, <3>1, <3>2
  <2> QED BY <2>2, <2>3, <2>4
<1>7. ASSUME NEW i \in DOMAIN scopes'
      PROVE  /\ scopes'[i].stack = scopes[i].stack /\ scopes'[i].top = scopes[i].top
             /\ scopes[i].stack \in 0..StackAround(n) /\ i \in DOMAIN scopes /\ i < n /\ i \in 1..n
             /\ scopes[i].stack = s => scopes[i].top <= scopes[n].top
  <2>1. i \in DOMAIN scopes /\ n \in DOMAIN scopes /\ i <= n /\ scopes'[i] = scopes[i]
        /\ i < n /\ i \in 1..n
    BY <1>1, <1>3
  <2>2. scopes[i].stack = scopes[n].stack => scopes[i].top <= scopes[n].top
    BY <2>1 DEF StackInv, ScopesGrow
  <2>3. scopes[i].stack \in 0..StackAround(n)
    BY <1>1, <1>4, <1>5, <2>1
  <2> QED BY <1>1, <2>1, <2>2, <2>3
<1>8. ScopesGrow'
  <2>1. CurrentStack' = Len(offsets')
    BY <1>4, <1>6
  <2>2. ASSUME NEW i \in DOMAIN scopes'
        PROVE  scopes'[i].stack <= StackAround(i)' + 1
    BY <1>4, <1>7, <2>2 DEF StackInv, ScopesGrow
  <2>3. ASSUME NEW i \in DOMAIN scopes', NEW j \in DOMAIN scopes', i <= j
        PROVE  /\ scopes'[i].stack <= scopes'[j].stack
               /\ scopes'[i].stack = scopes'[j].stack => scopes'[i].top <= scopes'[j].top
    BY <1>7, <2>3 DEF StackInv, ScopesGrow
  <2>4. ASSUME NEW i \in DOMAIN scopes'
        PROVE  IF scopes'[i].stack = 0 THEN scopes'[i].top = 0
               ELSE scopes'[i].top <= offsets'[scopes'[i].stack]
    <3>1. IF scopes[i].stack = 0 THEN scopes[i].top = 0 ELSE scopes[i].top <= offsets[scopes[i].stack]
      BY <1>7 DEF StackInv, ScopesGrow
    <3>2. CASE scopes[i].stack = 0
      BY <1>7, <3>1, <3>2
    <3>3. CASE scopes[i].stack # 0
      <4>1. scopes[i].stack \in 1..StackAround(n)
        BY <1>4, <1>7, <3>3
      <4>2. IF scopes[i].stack = s THEN offsets'[scopes[i].stack] = scopes[n].top
            ELSE offsets'[scopes[i].stack] = offsets[scopes[i].stack]
        BY <1>6, <4>1
      <4> QED BY <1>7, <3>1, <3>3, <4>2
    <3> QED BY <3>2, <3>3
  <2> QED BY <2>1, <2>2, <2>3, <2>4 DEF ScopesGrow
<1>9. BelowScopes'
  <2> SUFFICES ASSUME NEW a \in stacked, a.scope < n
               PROVE  /\ a.scope \in DOMAIN scopes' /\ scopes'[a.scope].stack = a.stack
                      /\ a.from + a.size <= offsets'[a.stack]
                      /\ \A j \in DOMAIN scopes' :
                           j > a.scope /\ scopes'[j].stack = a.stack => a.from + a.size <= scopes'[j].top
    BY <1>2 DEF BelowScopes
  <2>1. /\ a.scope \in DOMAIN scopes /\ scopes[a.scope].stack = a.stack
        /\ a.from + a.size <= offsets[a.stack] /\ a.stack \in 1..s
        /\ \A j \in DOMAIN scopes :
             j > a.scope /\ scopes[j].stack = a.stack => a.from + a.size <= scopes[j].top
    BY ScopeFacts DEF StackInv, BelowScopes, s
  <2>2. a.scope \in DOMAIN scopes'
    BY <1>1, <1>3, <2>1
  <2>3. a.stack \in 1..StackAround(n)
    BY <1>1, <1>4, <1>7, <2>1, <2>2
  <2>4. a.from + a.size <= offsets'[a.stack]
    <3>1. CASE a.stack = s
      <4>1. n \in DOMAIN scopes /\ n > a.scope /\ scopes[n].stack = a.stack
        BY <1>1, <2>1, <3>1
      <4>2. a.from + a.size <= scopes[n].top
        BY <2>1, <4>1
      <4> QED BY <1>6, <2>3, <3>1, <4>2
    <3>2. CASE a.stack # s
      BY <1>6, <2>1, <2>3, <3>2
    <3> QED BY <3>1, <3>2
  <2> QED BY <1>7, <2>1, <2>2, <2>4
<1>10. StackTypes' /\ StackedApart'
  BY <1>2, <1>3, <1>6 DEF StackInv, StackTypes, StackedApart
<1> QED BY <1>8, <1>9, <1>10 DEF StackInv

LEMMA StackInitially ==
  ASSUME MemoryInit
  PROVE  StackInv
BY DEF MemoryInit, StackInv, StackTypes, ScopesGrow, BelowScopes, StackedApart, CurrentStack

LEMMA StepKeepsStackInv ==
  ASSUME StackInv, [MemoryNext]_<<poolVars, stackVars>>
  PROVE  StackInv'
<1>1. CASE UNCHANGED stackVars
  BY <1>1 DEF stackVars, StackInv, StackTypes, ScopesGrow, BelowScopes, StackedApart, CurrentStack,
              StackAround
<1>2. CASE OpenStack
  <2>1. /\ Len(offsets) \in Nat /\ offsets' = Append(offsets, 0) /\ Len(offsets') = Len(offsets) + 1
        /\ scopes' = Append(scopes, [stack |-> Len(offsets'), top |-> 0]) /\ stacked' = stacked
    BY <1>2 DEF OpenStack, StackInv, StackTypes
  <2>2. [stack |-> Len(offsets) + 1, top |-> 0] \in Guards
    BY <2>1 DEF Guards
  <2> QED BY <2>1, <2>2, OpenKeeps
<1>3. CASE OpenScope
  <2> DEFINE g == [stack |-> CurrentStack, top |-> IF CurrentStack = 0 THEN 0 ELSE offsets[CurrentStack]]
  <2>1. /\ CurrentStack = Len(offsets) /\ Len(offsets) \in Nat
        /\ \A k \in 1..Len(offsets) : offsets[k] \in Nat
    BY ScopeFacts DEF StackInv, ScopesGrow
  <2>2. /\ g \in Guards /\ g.stack = Len(offsets) /\ g.top = IF g.stack = 0 THEN 0 ELSE offsets[g.stack]
    BY <2>1 DEF Guards
  <2>3. scopes' = Append(scopes, g) /\ offsets' = offsets /\ stacked' = stacked
    BY <1>3 DEF OpenScope
  <2> HIDE DEF g
  <2> QED BY <2>2, <2>3, OpenKeeps
<1>4. CASE PoolNext
  BY <1>1, <1>4 DEF PoolNext, CreatePool, AllocFree, AllocNew, AllocPages, Reload, Exchange, Check,
                    Commit, FreeBlock
<1> QED BY <1>1, <1>2, <1>3, <1>4, StackAllocKeeps, CloseKeeps DEF MemoryNext, StackNext

\* Whatever scopes are opened and closed, on whichever stacks: what was allocated in an
\* open scope lies apart from all else on its stack and below the top.
THEOREM StackAlwaysKeepsScopes == MemorySpec => []StackKeepsScopes
<1>1. MemoryInit => StackInv
  BY StackInitially
<1>2. StackInv /\ [MemoryNext]_<<poolVars, stackVars>> => StackInv'
  BY StepKeepsStackInv
<1>3. StackInv => StackKeepsScopes
  BY ApartIsDisjoint, ScopeFacts DEF StackInv, BelowScopes, StackedApart, StackKeepsScopes
<1> QED BY <1>1, <1>2, <1>3, PTL DEF MemorySpec

=============================================================================
