-------------------------- MODULE MCRuntimeObjects --------------------------
(* Objects, what they live in and where they are found, for TLC: the       *)
(* registries of types and services, memory, lists, files and streams,     *)
(* sockets and listeners. A behaviour is about one part, the others stay   *)
(* where they begin.                                                       *)
EXTENDS Naturals, Sequences, FiniteSets

CONSTANTS None

VARIABLES part, queue, disposed, socketRefs, alive, stream, phase, reading, writes, source, pending, sent, ended,
  received, reader, calls, answers, writer, acceptMutex, server, acceptSource, delayed, connected,
  acceptor, acceptCalls, accepted, closer, allocOffset, commited, pages, freeBlocks,
  poolLock, allocAt, allocWant, allocSeen, allocAgain, blocks, scopes, offsets, stacked, owned,
  shared, copying, lent, bytes, links, loop, mounted, files, walk, opened, text, meant,
  readSource, sourcePos, memory, memoryPos, copy, handle, file, declared, types,
  descriptorLock, current, descriptorRefs, made, descriptorAt, accessors, services, built,
  serviceMutex, frames, found, classes, sinks, attached, loggerAlive, releasing, logAt, logs,
  putAside, expected, given, lateRelease

Sockets == INSTANCE StreamSocket WITH MaxSent <- 2, MaxReads <- 2, MaxConnections <- 3,
           MaxAccepts <- 3

PoolBlocks == [p |-> 1, q |-> 2]
Blocks == INSTANCE Memory WITH Threads <- {"t1", "t2"}, Pools <- {"p", "q"}, BlockSize <- PoolBlocks,
          Preallocated <- 1, PageSize <- 2, Reserved <- 6, MaxScopes <- 3, MaxStack <- 3, lock <-
          poolLock, want <- allocWant, seen <- allocSeen, again <- allocAgain
BufferParts == INSTANCE Buffers WITH Owners <- {"b1", "b2"}, Readers <- {"r1", "r2"}, Bytes <- {"x"},
         Granule <- 2, HeaderSize <- 1, MaxSize <- 2, MaxStorages <- 2, Nil <- None, storage <- bytes
Chain == INSTANCE Lists WITH Lists <- {"l1", "l2"}, Nodes <- {"n1", "n2", "n3", "n4"}, Null <- None,
         walk <- loop

FilesAtFirst == [r |-> {<<"x">>}, m |-> {}, n |-> {<<"y">>}]
DirsAtFirst == [r |-> {}, m |-> {}, n |-> {}]
PathTexts == {<<>>, <<"/">>, <<"n">>, <<"n", ".", "m">>, <<".", "n">>, <<"m", "\\", "n", ".", ".">>,
              <<" ", "\\", "n", "/", "/", "m", "/", " ">>}
FileSystem == INSTANCE Files WITH Systems <- {"r", "m", "n"}, Mutable <- {"m", "n"}, HasFiles <-
              FilesAtFirst, HasDirs <- DirsAtFirst, MountPoints <- {<<"a">>, <<"a", "d">>}, Paths <-
              {<<"a", "d", "x">>}, Listed <- {<<"a">>}, Threads <- {"t1", "t2"}, Texts <- PathTexts, MaxNames <- 3
Content == INSTANCE Streams WITH Sources <- {<<>>, <<"a", "b">>, <<"a", "b", "a">>}, Bytes <- {"w"},
           BlockSize <- 2, MaxLength <- 4, Handles <- {"h1", "h2", "h3"}, source <- readSource

ClassBodies == {[methods |-> <<>>, attributes |-> <<"k", "s">>],
                [methods |-> <<"m">>, attributes |-> <<"k", "k">>]}
Reflection == INSTANCE Metadata WITH Classes <- <<"a", "b", "c", "d">>, Bodies <- ClassBodies, Keys <-
           {"k", "s"}, Inherited <- {"k"}, Names <- {"m"}, Threads <- {"t1", "t2"}, Descriptors <-
           {"d1", "d2", "d3"}, lock <- descriptorLock, refs <- descriptorRefs, at <- descriptorAt

ServiceTypes == [a |-> {"x"}, b |-> {"x", "y"}, c |-> {"y"}]
ServiceNeeds == [b |-> <<>>, c |-> <<"x">>]
ClassTypes == [k |-> {"x"}, l |-> {"x", "y"}]
Provider == INSTANCE Services WITH Accessors <- {"a", "b", "c"}, Lazy <- {"b", "c"}, Types <-
            {"x", "y"}, Provides <- ServiceTypes, Needs <- ServiceNeeds, Classes <- {"k", "l"},
            Implements <- ClassTypes, Threads <- {"t1", "t2"}, MaxFrames <- 3, instances <- services,
            mutex <- serviceMutex, answers <- found
Log == INSTANCE Logger WITH Threads <- {"t1", "t2"}, Sinks <- {"k1", "k2"}, MaxLogs <- 2,
       alive <- loggerAlive

ASSUME PartsAssumption ==
  /\ Blocks!MemoryAssumption
  /\ Chain!ListsAssumption
  /\ FileSystem!MutableAssumption /\ Reflection!MetadataAssumption /\ Provider!ServicesAssumption

socketVars == <<queue, disposed, socketRefs, alive, stream, phase, reading, writes, source,
                pending, sent, ended, received, reader, calls, answers, writer>>
listenerVars == <<acceptMutex, server, acceptSource, delayed, connected, acceptor, acceptCalls,
                  accepted, closer>>
poolVars == <<allocOffset, commited, pages, freeBlocks, poolLock, allocAt, allocWant, allocSeen,
              allocAgain, blocks>>
stackVars == <<scopes, offsets, stacked>>
bufferVars == <<owned, shared, copying, lent, bytes>>
listVars == <<links, loop>>
fileVars == <<mounted, files, walk, opened>>
pathVars == <<text, meant>>
streamVars == <<readSource, sourcePos, memory, memoryPos, copy, handle, file>>
metadataVars == <<declared, types, descriptorLock, current, descriptorRefs, made, descriptorAt>>
servicesVars == <<accessors, services, built, serviceMutex, frames, found, classes>>
logVars == <<sinks, attached, loggerAlive, releasing, logAt, logs, putAside, expected,
             given, lateRelease>>

Init ==
  /\ part \in {"socket", "listener", "pools", "stack", "buffers", "lists",
              "files", "paths", "memory streams", "file streams", "classes", "descriptors",
              "services", "service classes", "logger"}
  /\ Sockets!StreamsInit /\ Blocks!MemoryInit /\ BufferParts!Init
  /\ Chain!Init /\ FileSystem!Init /\ Content!Init /\ Reflection!Init /\ Provider!Init
  /\ Log!Init
  \* a part at rest has one initial state
  /\ part = "memory streams" \/ readSource = <<>>

Next ==
  /\ UNCHANGED part
  /\ IF part = "socket" THEN Sockets!SocketNext ELSE UNCHANGED socketVars
  /\ IF part = "listener" THEN Sockets!ListenerNext ELSE UNCHANGED listenerVars
  /\ IF part = "pools" THEN Blocks!PoolNext ELSE UNCHANGED poolVars
  /\ IF part = "stack" THEN Blocks!StackNext ELSE UNCHANGED stackVars
  /\ IF part = "buffers" THEN BufferParts!Next ELSE UNCHANGED bufferVars
  /\ IF part = "lists" THEN Chain!Next ELSE UNCHANGED listVars
  /\ IF part = "files" THEN FileSystem!FileNext ELSE UNCHANGED fileVars
  /\ IF part = "paths" THEN FileSystem!PathNext ELSE UNCHANGED pathVars
  /\ IF part = "memory streams" THEN Content!MemoryStreamNext
     ELSE IF part = "file streams" THEN Content!FileNext ELSE UNCHANGED streamVars
  /\ IF part = "classes" THEN Reflection!DeclareNext
     ELSE IF part = "descriptors" THEN Reflection!DescriptorNext ELSE UNCHANGED metadataVars
  /\ IF part = "services" THEN Provider!ServicesNext
     ELSE IF part = "service classes" THEN Provider!ClassesNext ELSE UNCHANGED servicesVars
  /\ IF part = "logger" THEN Log!Next ELSE UNCHANGED logVars

\* Init and Next of the parts, each with its own fairness while it is at work.
Spec ==
  /\ Init /\ [][Next]_<<part, socketVars, listenerVars, poolVars, stackVars,
                        bufferVars, listVars, fileVars, pathVars, streamVars, metadataVars,
                        servicesVars, logVars>>
  /\ WF_socketVars(part = "socket" /\ Sockets!LoopStep)
  /\ WF_socketVars(part = "socket" /\ Sockets!Callbacks)
  /\ WF_socketVars(part = "socket" /\ Sockets!PeerEnd)
  /\ WF_listenerVars(part = "listener" /\ (Sockets!TakeDelayed \/ Sockets!MakeSource))
  /\ WF_listenerVars(part = "listener" /\ (Sockets!Close \/ Sockets!CloseAccept))
  /\ \A t \in {"t1", "t2"} : WF_servicesVars(part = "services" /\ Provider!Step(t))
  /\ \A t \in {"t1", "t2"} : WF_logVars(part = "logger" /\ Log!Walk(t))
  /\ WF_logVars(part = "logger" /\ Log!ReleaseLogSink)

-----------------------------------------------------------------------------
\* read() returns what was sent, in order, and ends when it is heard; libuv finds
\* the socket it calls back, and a dropped socket is closed.
SocketKeepsWord ==
  /\ [](Sockets!BytesInOrder /\ Sockets!CallbackFindsObject)
  /\ Sockets!HeardReadsEnd /\ Sockets!HandleIsFreed

\* accept() hands the clients out in order, and ends when nothing overtakes it.
ListenerKeepsWord == []Sockets!HandedOutInOrder /\ Sockets!AcceptsEnd

\* No two blocks or stack objects share memory, whoever allocates at once; a buffer is
\* written by its only holder, what a reader sees stays, and what grows keeps its bytes.
MemoryKeepsWord ==
  /\ [](Blocks!BlocksAreDisjoint /\ Blocks!StackKeepsScopes /\ BufferParts!WritersAreAlone)
  /\ BufferParts!ReadersSeeNoWrites /\ BufferParts!GrowthKeepsBytes

\* A list reads the same from both ends after any operation, keeps its order, and a
\* loop over it meets everyone although it and others insert and erase.
ListsKeepWord == [](Chain!ListsAreWhole /\ Chain!WalkMeetsEveryone) /\ Chain!OrderIsKept

\* File systems are mounted at leaves and found there, what is opened or listed exists,
\* a listing is whole; a path is what was meant; no stream is read past its end, a copy
\* is whole, and a file does not change under its readers.
FilesKeepWord ==
  /\ [](FileSystem!MountsAreLeaves /\ FileSystem!WhatIsSeenExists /\ FileSystem!MountedIsFound)
  /\ FileSystem!ListingIsWhole /\ []FileSystem!PathIsMeant
  /\ []Content!PositionsInside /\ Content!CopyIsWhole /\ Content!ReadersSeeOneFile

\* Whoever asks for a service or a class is given the same one, once it is there, and
\* is answered; all ways to ask for the bases, methods and attributes of a class agree; and
\* a message reaches every sink that the logger has, none later, in finite time.
RegistriesKeepWord ==
  /\ [](Provider!OneServicePerType /\ Provider!ClassesAgree /\ Reflection!MetadataAgrees /\ Log!SinksAreAttached)
  /\ Provider!FoundIsKept /\ Provider!LookUpsReturn
  /\ Log!MessagesReachSinks /\ Log!LogsEnd

=============================================================================
