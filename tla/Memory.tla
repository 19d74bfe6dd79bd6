------------------------------- MODULE Memory -------------------------------
(***************************************************************************)
(* Where memory comes from.  The pools of fixed size blocks, each under    *)
(* its own lock, take pages from one WindowsHostVirtualMemory that has no  *)
(* lock but for committing.  And the runtime stack of a thread: scopes     *)
(* that put the allocator back to where it was when they began.            *)
(***************************************************************************)
EXTENDS Integers, Sequences, SequencesExt, FiniteSets, FiniteSetsExt

CONSTANTS Threads, Pools,
          BlockSize,      \* of each pool
          Preallocated,   \* PreAllocateBlockCount
          PageSize, Reserved, \* m_size of the host memory
          MaxScopes, MaxStack, \* bound the runtime stack
          None

VARIABLES
  allocOffset, commited, \* of the host memory
  pages,       \* m_pages of each pool: base, size and offset
  freeBlocks,  \* the list of free blocks of each pool, the first one first
  lock,        \* the thread in each pool, or None
  allocAt, want, seen, again, \* where a thread is in allocPages(), and what it has read
  blocks,      \* the blocks that were given to somebody: pool and address
  scopes,      \* the RuntimeStackGuards of a thread: stack and m_top
  offsets,     \* m_allocOffset of each RuntimeStackAllocator
  stacked      \* what is allocated there: stack, from, size and the scope
poolVars == <<allocOffset, commited, pages, freeBlocks, lock, allocAt, want, seen, again, blocks>>
stackVars == <<scopes, offsets, stacked>>

AlignedSize(n, a) == ((n + a - 1) \div a) * a
Region(base, size) == [base |-> base, size |-> size, offset |-> 0]

MemoryAssumption ==
  /\ BlockSize \in [Pools -> Nat \ {0}] /\ Preallocated \in Nat \ {0}
  /\ PageSize \in Nat \ {0} /\ Reserved \in Nat
  /\ None \notin Threads \cup Pools \cup {"reload", "exchange", "check", "commit"}

MemoryInit ==
  /\ allocOffset = 0 /\ commited = 0
  /\ pages = [p \in Pools |-> <<>>]
  /\ freeBlocks = [p \in Pools |-> <<>>] /\ lock = [p \in Pools |-> None]
  /\ allocAt = [t \in Threads |-> None] /\ want = [t \in Threads |-> None]
  /\ seen = [t \in Threads |-> 0] /\ again = [t \in Threads |-> 0]
  /\ blocks = {}
  /\ scopes = <<>> /\ offsets = <<>> /\ stacked = {}

-----------------------------------------------------------------------------
(* FixedSizeBlockAllocator and Pool *)

\* The constructors of the pools take their first pages one after the other, before
\* anybody has a pool. More than what is committed is always needed; if it is more
\* than what is reserved, the region is empty, and the offset has moved on.
CreatePool(p) ==
  LET end == allocOffset + AlignedSize(BlockSize[p] * Preallocated, PageSize) IN
  /\ pages[p] = <<>>
  /\ pages' = [pages EXCEPT ![p] =
                 <<IF end <= Reserved THEN Region(allocOffset, end - allocOffset) ELSE Region(0, 0)>>]
  /\ commited' = IF end <= Reserved THEN end ELSE commited
  /\ allocOffset' = end
  /\ UNCHANGED <<freeBlocks, lock, allocAt, want, seen, again, blocks, stackVars>>

Block(p, address) == [pool |-> p, address |-> address]
LastPage(p) == Last(pages[p])
Idle(t, p) == allocAt[t] = None /\ lock[p] = None /\ \A q \in Pools : pages[q] # <<>>
HasFree(p) == freeBlocks[p] # <<>>
HasSpace(p) == LastPage(p).size - LastPage(p).offset >= BlockSize[p]

\* A block from the list,
AllocFree(t, p) ==
  /\ Idle(t, p) /\ HasFree(p)
  /\ blocks' = blocks \cup {Block(p, Head(freeBlocks[p]))}
  /\ freeBlocks' = [freeBlocks EXCEPT ![p] = Tail(@)]
  /\ UNCHANGED <<allocOffset, commited, pages, lock, allocAt, want, seen, again, stackVars>>

\* or a new one from the last pages, when there is room,
AllocNew(t, p) ==
  /\ Idle(t, p) /\ ~HasFree(p) /\ HasSpace(p)
  /\ blocks' = blocks \cup {Block(p, LastPage(p).base + LastPage(p).offset)}
  /\ pages' = [pages EXCEPT ![p][Len(pages[p])].offset = @ + BlockSize[p]]
  /\ UNCHANGED <<allocOffset, commited, freeBlocks, lock, allocAt, want, seen, again, stackVars>>

\* or more pages are needed: allocPages() loads the offset.  Bound: not once
\* the offset is past what is reserved, when every call fails.
AllocPages(t, p) ==
  /\ Idle(t, p) /\ ~HasFree(p) /\ ~HasSpace(p) /\ allocOffset <= Reserved
  /\ lock' = [lock EXCEPT ![p] = t] /\ want' = [want EXCEPT ![t] = p]
  /\ seen' = [seen EXCEPT ![t] = allocOffset] /\ allocAt' = [allocAt EXCEPT ![t] = "reload"]
  /\ UNCHANGED <<allocOffset, commited, pages, freeBlocks, again, blocks, stackVars>>

Proceed(t, from, to) == allocAt[t] = from /\ allocAt' = [allocAt EXCEPT ![t] = to]
PagesSize(t) == AlignedSize(BlockSize[want[t]], PageSize)

\* m_allocOffset is read once more for the new value,
Reload(t) ==
  /\ Proceed(t, "reload", "exchange")
  /\ again' = [again EXCEPT ![t] = allocOffset]
  /\ UNCHANGED <<allocOffset, commited, pages, freeBlocks, lock, want, seen, blocks, stackVars>>

\* A mutant of Exchange: the offset is stored without the comparison.
ExchangeBlindly(t) ==
  /\ Proceed(t, "exchange", "check")
  /\ allocOffset' = again[t] + PagesSize(t)
  /\ UNCHANGED <<commited, pages, freeBlocks, lock, want, seen, again, blocks, stackVars>>

\* and the exchange is tried until nobody was faster.
Exchange(t) ==
  /\ IF allocOffset = seen[t]
     THEN Proceed(t, "exchange", "check") /\ allocOffset' = again[t] + PagesSize(t) /\ UNCHANGED seen
     ELSE /\ Proceed(t, "exchange", "reload") /\ seen' = [seen EXCEPT ![t] = allocOffset]
          /\ UNCHANGED allocOffset
  /\ UNCHANGED <<commited, pages, freeBlocks, lock, want, again, blocks, stackVars>>

\* Back from allocPages().
PagesReturn(t) ==
  /\ Proceed(t, allocAt[t], None) /\ want' = [want EXCEPT ![t] = None]
  /\ lock' = [lock EXCEPT ![want[t]] = None]
  /\ seen' = [seen EXCEPT ![t] = 0] /\ again' = [again EXCEPT ![t] = 0]

\* The pages are the pool's, and its first block is given at once.
TakePages(t) ==
  LET p == want[t] IN
  /\ pages' = [pages EXCEPT ![p] = Append(@, [Region(seen[t], PagesSize(t)) EXCEPT !.offset = BlockSize[p]])]
  /\ blocks' = blocks \cup {Block(p, seen[t])}
  /\ PagesReturn(t)

\* The commited size is read without the mutex,
Check(t) ==
  /\ allocAt[t] = "check"
  /\ IF commited >= seen[t] + PagesSize(t) THEN TakePages(t)
     ELSE Proceed(t, "check", "commit") /\ UNCHANGED <<pages, blocks, lock, want, seen, again>>
  /\ UNCHANGED <<allocOffset, commited, freeBlocks, stackVars>>

\* and again with it.  If the reserved memory does not reach, there is no
\* block, and the offset stays where it is.
Commit(t) ==
  /\ allocAt[t] = "commit"
  /\ IF commited >= seen[t] + PagesSize(t) \/ seen[t] + PagesSize(t) <= Reserved
     THEN /\ TakePages(t)
          /\ commited' = IF commited >= seen[t] + PagesSize(t) THEN commited ELSE seen[t] + PagesSize(t)
     ELSE PagesReturn(t) /\ UNCHANGED <<commited, pages, blocks>>
  /\ UNCHANGED <<allocOffset, freeBlocks, stackVars>>

FreeBlock(b) ==
  /\ b \in blocks /\ lock[b.pool] = None
  /\ blocks' = blocks \ {b}
  /\ freeBlocks' = [freeBlocks EXCEPT ![b.pool] = <<b.address>> \o @]
  /\ UNCHANGED <<allocOffset, commited, pages, lock, allocAt, want, seen, again, stackVars>>

PoolNext ==
  \/ \E p \in Pools : CreatePool(p)
  \/ \E t \in Threads, p \in Pools : AllocFree(t, p) \/ AllocNew(t, p) \/ AllocPages(t, p)
  \/ \E t \in Threads : Reload(t) \/ Exchange(t) \/ Check(t) \/ Commit(t)
  \/ \E b \in blocks : FreeBlock(b)

-----------------------------------------------------------------------------
(* RuntimeStackGuard and RuntimeStackAllocator.  Stack 0 is the default    *)
(* allocator, used when no guard has a stack.                              *)

CurrentStack == IF scopes = <<>> THEN 0 ELSE Last(scopes).stack

\* rtstack_init: a stack of its own.
OpenStack ==
  /\ Len(scopes) < MaxScopes
  /\ offsets' = Append(offsets, 0)
  /\ scopes' = Append(scopes, [stack |-> Len(offsets'), top |-> 0])
  /\ UNCHANGED <<stacked, poolVars>>

\* rtstack_scope: on the stack of the scope around it.
OpenScope ==
  /\ Len(scopes) < MaxScopes
  /\ scopes' = Append(scopes, [stack |-> CurrentStack,
                               top |-> IF CurrentStack = 0 THEN 0 ELSE offsets[CurrentStack]])
  /\ UNCHANGED <<offsets, stacked, poolVars>>

\* Whatever allocates does so on top of the innermost stack; nothing is freed
\* one by one.
StackAlloc(n) ==
  /\ CurrentStack # 0 /\ offsets[CurrentStack] + n <= MaxStack
  /\ stacked' = stacked \cup {[stack |-> CurrentStack, from |-> offsets[CurrentStack], size |-> n,
                               scope |-> Len(scopes)]}
  /\ offsets' = [offsets EXCEPT ![CurrentStack] = @ + n]
  /\ UNCHANGED <<scopes, poolVars>>

\* restore(m_top); a stack goes with the guard that made it.
CloseScope ==
  /\ scopes # <<>>
  /\ stacked' = {a \in stacked : a.scope < Len(scopes)}
  /\ scopes' = Front(scopes)
  /\ offsets' = IF CurrentStack = 0 THEN offsets
                ELSE IF \E i \in DOMAIN scopes' : scopes'[i].stack = CurrentStack
                THEN [offsets EXCEPT ![CurrentStack] = Last(scopes).top]
                ELSE Front(offsets)
  /\ UNCHANGED poolVars

StackNext == OpenStack \/ OpenScope \/ CloseScope \/ \E n \in 1..2 : StackAlloc(n)

MemoryNext == PoolNext \/ StackNext
MemorySpec == MemoryInit /\ [][MemoryNext]_<<poolVars, stackVars>>

-----------------------------------------------------------------------------
Cells(base, size) == base..(base + size - 1)
Regions == UNION {{<<p, i>> : i \in DOMAIN pages[p]} : p \in Pools}
CellsOf(r) == Cells(pages[r[1]][r[2]].base, pages[r[1]][r[2]].size)
BlockCells(b) == Cells(b.address, BlockSize[b.pool])
FreeOnes(p) == {Block(p, a) : a \in ToSet(freeBlocks[p])}

\* No two blocks overlap, given or free, of whichever pool; each lies in
\* pages of its pool, and what was given is commited.  The exchange holds
\* although it reads the offset twice, because the offset never goes back.
BlocksAreDisjoint ==
  LET all == blocks \cup UNION {FreeOnes(p) : p \in Pools} IN
  /\ \A b, c \in all : b # c => BlockCells(b) \cap BlockCells(c) = {}
  /\ \A b \in all : /\ b.address + BlockSize[b.pool] <= commited
                    /\ \E r \in Regions : r[1] = b.pool /\ BlockCells(b) \subseteq CellsOf(r)
  /\ \A p \in Pools : IsInjective(freeBlocks[p]) /\ FreeOnes(p) \cap blocks = {}
  /\ \A r, s \in Regions : r # s => CellsOf(r) \cap CellsOf(s) = {}
  /\ commited <= Reserved

\* What was allocated in a scope that is still open is not given again.
StackKeepsScopes ==
  /\ \A a, b \in stacked : a # b /\ a.stack = b.stack =>
       Cells(a.from, a.size) \cap Cells(b.from, b.size) = {}
  /\ \A a \in stacked : a.from + a.size <= offsets[a.stack]

\* A block that would fit into what is reserved can be had; it cannot any
\* more once a larger one has failed.
SpaceIsUsable == allocOffset <= Reserved

=============================================================================
