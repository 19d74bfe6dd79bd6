------------------------------ MODULE Streams --------------------------------
(***************************************************************************)
(* Streams: one in memory that may be written, one over bytes that may     *)
(* not, the copies from one to the other, and the handles of a native file *)
(* under the sharing rules of Windows.                                     *)
(***************************************************************************)
EXTENDS Integers, Sequences, FiniteSets, FiniteSetsExt

CONSTANTS Sources,   \* the bytes a ReadOnlyMemoryStream may be over
          Bytes,     \* what may be written
          BlockSize, \* of copyStream()
          MaxLength, \* bounds the stream in memory and the file
          Handles, None

VARIABLES
  source, sourcePos,  \* ReadOnlyMemoryStream: m_buffer and m_pos
  memory, memoryPos,  \* MemoryStreamImpl
  copy,               \* a copyStream() at work: where both were, totalRead
  handle,             \* of each WinFile or WinFileStream its mode, rights and position
  file                \* the bytes of the file, or None
streamVars == <<source, sourcePos, memory, memoryPos, copy, handle, file>>

Unset == "unset"   \* a byte of a Buffer that nobody has written
Closed == [mode |-> {}, rights |-> {}, pos |-> 0]

Init ==
  /\ source \in Sources /\ sourcePos = 0
  /\ memory = <<>> /\ memoryPos = 0 /\ copy = None
  /\ handle = [h \in Handles |-> Closed] /\ file = None

-----------------------------------------------------------------------------
(* Streams in memory *)

Smaller(a, b) == IF a < b THEN a ELSE b
ReadCount(bytes, pos, count) == Smaller(Len(bytes) - pos, count)
Taken(bytes, pos, count) == SubSeq(bytes, pos + 1, pos + ReadCount(bytes, pos, count))

\* The bytes from pos on are replaced, and those that do not fit appended.
Written(bytes, pos, new) ==
  SubSeq(bytes, 1, pos) \o new \o SubSeq(bytes, pos + Len(new) + 1, Len(bytes))

\* setPosition: a place outside becomes the nearest one inside.
Position(bytes, pos, origin, offset) ==
  LET p == (CASE origin = "Begin" -> 0 [] origin = "Current" -> pos [] origin = "End" -> Len(bytes)) + offset
  IN  IF p < 0 THEN 0 ELSE Smaller(p, Len(bytes))

ReadSource(count) ==
  /\ copy = None /\ sourcePos' = sourcePos + ReadCount(source, sourcePos, count)
  /\ UNCHANGED <<source, memory, memoryPos, copy, handle, file>>

SeekSource(origin, offset) ==
  /\ copy = None /\ sourcePos' = Position(source, sourcePos, origin, offset)
  /\ UNCHANGED <<source, memory, memoryPos, copy, handle, file>>

Read(count) ==
  /\ copy = None /\ memoryPos' = memoryPos + ReadCount(memory, memoryPos, count)
  /\ UNCHANGED <<source, sourcePos, memory, copy, handle, file>>

Put(new) ==
  /\ memoryPos + Len(new) <= MaxLength
  /\ memory' = Written(memory, memoryPos, new) /\ memoryPos' = memoryPos + Len(new)

Write(new) == copy = None /\ Put(new) /\ UNCHANGED <<source, sourcePos, copy, handle, file>>

Seek(origin, offset) ==
  /\ copy = None /\ memoryPos' = Position(memory, memoryPos, origin, offset)
  /\ UNCHANGED <<source, sourcePos, memory, copy, handle, file>>

\* releaseBuffer: the bytes go to the caller.
ReleaseBuffer ==
  /\ copy = None /\ memory' = <<>> /\ memoryPos' = 0
  /\ UNCHANGED <<source, sourcePos, copy, handle, file>>

\* createMemoryStream, empty or of a Buffer, whose end it begins at.
CreateMemoryStream(bytes) ==
  /\ copy = None /\ memory' = bytes /\ memoryPos' = Len(bytes)
  /\ UNCHANGED <<source, sourcePos, copy, handle, file>>

-----------------------------------------------------------------------------
(* Copies *)

\* copyFromStream(dst, size, src) writes as many bytes as it was asked for,
\* whether so many could be read or not.
CopyFromStream(size) ==
  LET taken == Taken(source, sourcePos, size) IN
  /\ copy = None /\ size > 0
  /\ Put(taken \o [i \in 1..(size - Len(taken)) |-> Unset])
  /\ sourcePos' = sourcePos + Len(taken)
  /\ UNCHANGED <<source, copy, handle, file>>

\* copyStream reads block after block,
CopyStream ==
  /\ copy = None /\ copy' = [from |-> sourcePos, to |-> memoryPos, total |-> 0]
  /\ UNCHANGED <<source, sourcePos, memory, memoryPos, handle, file>>

\* writes what it has read, and ends with a block that is not full.
CopyBlock ==
  LET taken == Taken(source, sourcePos, BlockSize) IN
  /\ copy # None /\ Put(taken)
  /\ sourcePos' = sourcePos + Len(taken)
  /\ copy' = IF Len(taken) < BlockSize THEN None ELSE [copy EXCEPT !.total = @ + Len(taken)]
  /\ UNCHANGED <<source, handle, file>>

-----------------------------------------------------------------------------
(* WinFile and WinFileStream *)

\* create_file asks for the right to read or, failing that, to write: one that
\* is opened for both may only read.
Rights(mode) == IF "Read" \in mode THEN {"Read"} ELSE mode
ShareFlags == {"Read"}

\* CreateFileW: what is asked for must be what the open handles share, and
\* what they may do must be shared by the one to come.
Allowed(rights) ==
  \A h \in Handles : handle[h].rights # {} => rights \subseteq ShareFlags /\ handle[h].rights \subseteq ShareFlags

\* To empty a file is to write it.
Opens(mode, how) ==
  /\ Allowed(Rights(mode) \cup (IF how = "CreateAlways" /\ file # None THEN {"Write"} ELSE {}))
  /\ how = "CreateNew" => file = None
  /\ how = "OpenExisting" => file # None

\* The object is there whether the file could be opened or not; one that has
\* no rights has no handle.
Open(h, mode, how) ==
  /\ handle[h] = Closed
  /\ handle' = [handle EXCEPT ![h] = [mode |-> mode, pos |-> 0,
                                      rights |-> IF Opens(mode, how) THEN Rights(mode) ELSE {}]]
  /\ file' = IF Opens(mode, how) /\ (file = None \/ how = "CreateAlways") THEN <<>> ELSE file
  /\ UNCHANGED <<source, sourcePos, memory, memoryPos, copy>>

\* WinFile::createStream: a stream of its own handle, in the mode of the file.
CreateStream(f, h) ==
  handle[f].rights # {} /\ Open(h, handle[f].mode, "OpenExisting")

Close(h) ==
  /\ handle[h] # Closed /\ handle' = [handle EXCEPT ![h] = Closed]
  /\ UNCHANGED <<source, sourcePos, memory, memoryPos, copy, file>>

ReadFile(h, count) ==
  /\ "Read" \in handle[h].rights /\ handle[h].pos <= Len(file)
  /\ handle' = [handle EXCEPT ![h].pos = @ + ReadCount(file, @, count)]
  /\ UNCHANGED <<source, sourcePos, memory, memoryPos, copy, file>>

WriteFile(h, new) ==
  /\ "Write" \in handle[h].rights /\ handle[h].pos + Len(new) <= MaxLength
  /\ file' = Written(file, handle[h].pos, new)
  /\ handle' = [handle EXCEPT ![h].pos = @ + Len(new)]
  /\ UNCHANGED <<source, sourcePos, memory, memoryPos, copy>>

\* SetFilePointerEx, here within the file.
SeekFile(h, origin, offset) ==
  /\ handle[h].rights # {}
  /\ handle' = [handle EXCEPT ![h].pos = Position(file, @, origin, offset)]
  /\ UNCHANGED <<source, sourcePos, memory, memoryPos, copy, file>>

-----------------------------------------------------------------------------
Counts == 1..2
Origins == {"Begin", "Current", "End"}
Offsets == {-1, 0, 2}
AccessModes == {{"Read"}, {"Write"}, {"Read", "Write"}}
OpenModes == {"CreateAlways", "CreateNew", "OpenAlways", "OpenExisting"}

MemoryStreamNext ==
  \/ \E n \in Counts : ReadSource(n) \/ Read(n) \/ CopyFromStream(n)
  \/ \E origin \in Origins, offset \in Offsets : SeekSource(origin, offset) \/ Seek(origin, offset)
  \/ \E byte \in Bytes : Write(<<byte>>)
  \/ \E bytes \in Sources : CreateMemoryStream(bytes)
  \/ ReleaseBuffer \/ CopyStream \/ CopyBlock

FileNext ==
  \E h \in Handles :
    \/ \E mode \in AccessModes, how \in OpenModes : Open(h, mode, how)
    \/ \E f \in Handles : CreateStream(f, h)
    \/ Close(h)
    \/ \E n \in Counts : ReadFile(h, n)
    \/ \E byte \in Bytes : WriteFile(h, <<byte>>)
    \/ \E origin \in Origins, offset \in Offsets : SeekFile(h, origin, offset)

Next == MemoryStreamNext \/ FileNext
Spec == Init /\ [][Next]_streamVars

-----------------------------------------------------------------------------
\* The assertions of read() and write(): no position is past the end.
PositionsInside == sourcePos <= Len(source) /\ memoryPos <= Len(memory)

\* A copyStream() that ends has copied what was left of the source, to where
\* the other stream was.
CopyIsWhole ==
  [][copy # None /\ copy' = None =>
       LET rest == SubSeq(source, copy.from + 1, Len(source)) IN
       SubSeq(memory', copy.to + 1, copy.to + Len(rest)) = rest /\ memoryPos' = copy.to + Len(rest)]_streamVars

\* Nobody writes a file that somebody reads, and one writer is alone.
ReadersSeeOneFile ==
  /\ [][(\E h \in Handles : "Read" \in handle[h].rights /\ "Read" \in handle'[h].rights) => file' = file]_streamVars
  /\ [](\A g, h \in Handles : "Write" \in handle[g].rights /\ g # h => handle[h].rights = {})

\* What is in the stream was written there.  Not so after copyFromStream().
NothingInvented == \A i \in DOMAIN memory : memory[i] # Unset

\* A stream of a file that may be written can be opened.  It never can: the
\* handle of the file does not share the right that its stream asks for.
WritableFilesStream ==
  [][\A f, h \in Handles : "Write" \in handle[f].rights /\ CreateStream(f, h) => handle'[h].rights # {}]_streamVars

=============================================================================
