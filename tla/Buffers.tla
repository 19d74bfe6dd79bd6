------------------------------ MODULE Buffers -------------------------------
(***************************************************************************)
(* Byte buffers (buffer.cpp): a Buffer owns its storage alone and may      *)
(* write, ReadOnlyBuffers share theirs.  A handle belongs to one thread at *)
(* a time; two handles of the same storage may be used at once.            *)
(***************************************************************************)
EXTENDS Naturals, Sequences, FiniteSets, FiniteSetsExt

CONSTANTS Owners, Readers,     \* the Buffers and the ReadOnlyBuffers
          Bytes,               \* what may be written
          Granule, HeaderSize, \* AllocationGranularity, sizeof(Header)
          MaxSize, MaxStorages,\* bound the sizes and the storages
          Nil

\* A reallocation has one storage more for a while.
Storages == 1..(MaxStorages + 1)
Unset == "unset"   \* a byte that nobody has written

VARIABLES
  owned,     \* m_storage of each Buffer
  shared,    \* m_storage of each ReadOnlyBuffer
  copying,   \* the ReadOnlyBuffers in the copy of toBuffer()
  lent,      \* a storage given to libuv as the address of its bytes
  storage    \* of each storage its Header, and the bytes, as many as its capacity
bufferVars == <<owned, shared, copying, lent, storage>>

Unused == [refs |-> 0, size |-> 0, bytes |-> <<>>]

Init ==
  /\ owned = [b \in Owners |-> Nil] /\ shared = [r \in Readers |-> Nil]
  /\ copying = {} /\ lent = Nil
  /\ storage = [s \in Storages |-> Unused]

SizeOf(s) == IF s = Nil THEN 0 ELSE storage[s].size
Content(s) == IF s = Nil THEN <<>> ELSE SubSeq(storage[s].bytes, 1, storage[s].size)

-----------------------------------------------------------------------------
(* BufferStorage *)

\* allocate: the size is rounded up, so that an empty buffer has a capacity too.
Capacity(n) == ((HeaderSize + n + Granule - 1) \div Granule) * Granule - HeaderSize
Unallocated == {s \in Storages : storage[s].refs = 0}
Room == Cardinality(Unallocated) > 1
Free == Min(Unallocated)
Allocated(n, bytes) ==
  [refs |-> 1, size |-> n,
   bytes |-> [i \in 1..Capacity(n) |-> IF i <= Len(bytes) THEN bytes[i] ELSE Unset]]

\* release: one reference less; the last one frees the storage.
Released(table, s) ==
  IF s = Nil THEN table
  ELSE [table EXCEPT ![s] = IF @.refs = 1 THEN Unused ELSE [@ EXCEPT !.refs = @ - 1]]

HasRoom(s, n) == s # Nil /\ Len(storage[s].bytes) >= n

\* reallocate: the same storage if it has room.
Reallocate(b, n, table) ==
  IF HasRoom(owned[b], n)
  THEN owned' = owned /\ storage' = [table EXCEPT ![owned[b]].size = n]
  ELSE /\ owned[b] = Nil => Room
       /\ owned' = [owned EXCEPT ![b] = Free]
       /\ storage' = [Released(table, owned[b]) EXCEPT ![Free] = Allocated(n, Content(owned[b]))]

-----------------------------------------------------------------------------
(* Buffer *)

\* Buffer(size), and a Buffer that is resized.
Resize(b, n) == Reallocate(b, n, storage) /\ UNCHANGED <<shared, copying, lent>>

\* data(): the owner writes a byte, for instance one that append() has made.
SetByte(b, i, byte) ==
  /\ i <= SizeOf(owned[b])
  /\ storage' = [storage EXCEPT ![owned[b]].bytes[i] = byte]
  /\ UNCHANGED <<owned, shared, copying, lent>>

\* concat(Buffer&&): moved if there is nothing to add to, copied otherwise.
Concat(b, c) ==
  LET size == SizeOf(owned[b]) + SizeOf(owned[c])
      bytes == Content(owned[b]) \o Content(owned[c]) IN
  /\ b # c /\ size <= MaxSize
  /\ IF owned[b] = Nil \/ HasRoom(owned[b], size)
     THEN /\ owned' = [owned EXCEPT ![b] = IF @ = Nil THEN owned[c] ELSE @, ![c] = Nil]
          /\ storage' = IF owned[b] = Nil THEN storage
                        ELSE [Released(storage, owned[c]) EXCEPT
                                ![owned[b]].size = size,
                                ![owned[b]].bytes = bytes \o SubSeq(@, size + 1, Len(@))]
     ELSE /\ owned' = [owned EXCEPT ![b] = Free, ![c] = Nil]
          /\ storage' = [Released(Released(storage, owned[b]), owned[c]) EXCEPT
                           ![Free] = Allocated(size, bytes)]
  /\ UNCHANGED <<shared, copying, lent>>

ReleaseBuffer(b) ==
  /\ owned[b] # Nil
  /\ owned' = [owned EXCEPT ![b] = Nil] /\ storage' = Released(storage, owned[b])
  /\ UNCHANGED <<shared, copying, lent>>

\* takeOut() and getClientData(): the address of the bytes goes to libuv,
Lend(b) ==
  /\ lent = Nil /\ SizeOf(owned[b]) > 0
  /\ lent' = owned[b] /\ owned' = [owned EXCEPT ![b] = Nil]
  /\ UNCHANGED <<shared, copying, storage>>

\* and bufferFromClientData() makes a Buffer of it, as long as what was read.
TakeBack(b, n) ==
  /\ lent # Nil /\ owned[b] = Nil /\ n <= Len(storage[lent].bytes)
  /\ owned' = [owned EXCEPT ![b] = lent] /\ lent' = Nil
  /\ storage' = [storage EXCEPT ![lent].size = n]
  /\ UNCHANGED <<shared, copying>>

-----------------------------------------------------------------------------
(* ReadOnlyBuffer *)

\* operator=(Buffer&&), and toReadOnly().
ToReadOnly(b, r) ==
  /\ owned[b] # Nil /\ r \notin copying
  /\ shared' = [shared EXCEPT ![r] = owned[b]] /\ owned' = [owned EXCEPT ![b] = Nil]
  /\ storage' = Released(storage, shared[r])
  /\ UNCHANGED <<copying, lent>>

\* operator=(const ReadOnlyBuffer&).  Who is assigned to itself has given up
\* its storage before it looks.
Share(r, q) ==
  /\ shared[q] # Nil /\ r \notin copying
  /\ LET from == IF r = q THEN Nil ELSE shared[q]
         left == Released(storage, shared[r]) IN
       /\ shared' = [shared EXCEPT ![r] = from]
       /\ storage' = IF from = Nil THEN left ELSE [left EXCEPT ![from].refs = @ + 1]
  /\ UNCHANGED <<owned, copying, lent>>

ReleaseReader(r) ==
  /\ shared[r] # Nil /\ r \notin copying
  /\ shared' = [shared EXCEPT ![r] = Nil] /\ storage' = Released(storage, shared[r])
  /\ UNCHANGED <<owned, copying, lent>>

\* toBuffer(): the only holder takes the storage, another one begins to copy it.
ToBuffer(r, b) ==
  /\ shared[r] # Nil /\ r \notin copying /\ owned[b] = Nil
  /\ IF storage[shared[r]].refs = 1
     THEN /\ owned' = [owned EXCEPT ![b] = shared[r]] /\ shared' = [shared EXCEPT ![r] = Nil]
          /\ UNCHANGED copying
     ELSE copying' = copying \cup {r} /\ UNCHANGED <<owned, shared>>
  /\ UNCHANGED <<lent, storage>>

\* The copy is made and its source released.
Copied(r, b) ==
  /\ r \in copying /\ owned[b] = Nil /\ Room
  /\ copying' = copying \ {r}
  /\ owned' = [owned EXCEPT ![b] = Free] /\ shared' = [shared EXCEPT ![r] = Nil]
  /\ storage' = [Released(storage, shared[r]) EXCEPT
                   ![Free] = Allocated(SizeOf(shared[r]), Content(shared[r]))]
  /\ UNCHANGED lent

Next ==
  \/ \E b \in Owners : \/ \E n \in 0..MaxSize : Resize(b, n) \/ TakeBack(b, n)
                       \/ \E i \in 1..MaxSize, byte \in Bytes : SetByte(b, i, byte)
                       \/ \E c \in Owners : Concat(b, c)
                       \/ ReleaseBuffer(b) \/ Lend(b)
  \/ \E r \in Readers, b \in Owners : ToReadOnly(b, r) \/ ToBuffer(r, b) \/ Copied(r, b)
  \/ \E r \in Readers : ReleaseReader(r) \/ \E q \in Readers : Share(r, q)

Spec == Init /\ [][Next]_bufferVars

-----------------------------------------------------------------------------
Holders(s) == Cardinality({b \in Owners : owned[b] = s}) + Cardinality({r \in Readers : shared[r] = s})
                + (IF lent = s THEN 1 ELSE 0)

\* A storage is allocated as long as it has a holder, its counter says how
\* many it has, and one that may write is the only one.
WritersAreAlone ==
  /\ \A s \in Storages : storage[s].refs = Holders(s)
  /\ \A b \in Owners : owned[b] # Nil => storage[owned[b]].refs = 1
  /\ \A s \in Storages : storage[s].size <= Len(storage[s].bytes)

\* What a ReadOnlyBuffer shows does not change under its reader, nor during
\* the copy of toBuffer(), whatever the other handles do.
ReadersSeeNoWrites ==
  [][\A r \in Readers : shared[r] # Nil /\ shared'[r] = shared[r]
                          => Content(shared[r])' = Content(shared[r])]_bufferVars

\* A Buffer that grows keeps its bytes, wherever they move.
GrowthKeepsBytes ==
  [][\A b \in Owners : SizeOf(owned[b]) < SizeOf(owned[b])'
       => SubSeq(Content(owned[b])', 1, SizeOf(owned[b])) = Content(owned[b])]_bufferVars

=============================================================================
