---------------------------- MODULE StreamSocket ----------------------------
(***************************************************************************)
(* StreamSocket over its UvHandle: read() and write() are coroutines that  *)
(* move to the event loop's thread, libuv's callbacks run there too, and   *)
(* dispose() or the last reference may come from any thread                *)
(* (DisposableRuntimeObject).  queue holds what is posted to the loop's    *)
(* executor; a step of the loop is atomic.  Data are numbered packets.     *)
(* And Listener: accept() runs on any thread under m_mutex, the connection *)
(* callback on the loop's thread under m_mutex, and closeListener on the   *)
(* loop's thread without it.  Connections are numbered, 0 is a null        *)
(* stream.                                                                 *)
(***************************************************************************)
EXTENDS Naturals, Sequences, SequencesExt

CONSTANTS MaxSent, MaxReads,           \* packets of the peer, calls of read()
          MaxConnections, MaxAccepts   \* clients, and calls of accept()

VARIABLES
  queue,      \* jobs for the executor of the loop
  disposed,   \* m_isDisposed
  socketRefs, \* who has a reference to the socket
  alive,      \* the destructor has not ended
  stream,     \* m_stream is not null
  phase,      \* the uv handle: open, shutting, closing or freed
  reading,    \* uv_read_start is in force
  writes,     \* write requests libuv has not called back
  source,     \* m_readTaskSource: null, or waiting for the notification
  pending,    \* m_pendingBuffer
  sent, ended, \* what the peer has sent, and has it closed its side
  received,   \* what read() has returned
  reader, calls, \* where read() is, and how often it was called
  answers,    \* the outcomes of read()
  writer,     \* where write() is
  acceptMutex, \* m_mutex: free, or held by the acceptor
  server,     \* m_uvServer is not null
  acceptSource, \* m_acceptTaskSource: a task waits
  delayed,    \* m_delayedConnections
  connected,  \* how many clients have come
  acceptor, acceptCalls, \* where accept() is, and how often it was called
  accepted,   \* what the tasks of accept() got, in order
  closer      \* where closeListener is
socketVars == <<queue, disposed, socketRefs, alive, stream, phase, reading, writes, source,
                pending, sent, ended, received, reader, calls, answers, writer>>
listenerVars == <<acceptMutex, server, acceptSource, delayed, connected, acceptor, acceptCalls,
                  accepted, closer>>

handleVars == <<stream, phase, reading, writes>>
readVars   == <<source, pending, received, reader, calls, answers>>

SocketInit ==
  /\ queue = <<>> /\ disposed = FALSE /\ socketRefs = {"owner"} /\ alive = TRUE
  /\ stream = TRUE /\ phase = "open" /\ reading = FALSE /\ writes = 0
  /\ source = FALSE /\ pending = <<>> /\ sent = 0 /\ ended = FALSE
  /\ received = <<>> /\ reader = "idle" /\ calls = 0 /\ answers = {}
  /\ writer = "idle"

Post(job) == queue' = Append(queue, job)
IsActive == reading \/ writes > 0
InFlight == sent - Len(received \o pending)

-----------------------------------------------------------------------------
(* The uv handle *)

\* A mutant of CloseAndFree: the handle stays open.
CloseNothing(read) ==
  /\ stream' = FALSE /\ reading' = FALSE
  /\ UNCHANGED <<phase, writes>>

\* closeAndFreeUvHandle: an active stream is shut down first.  read tells
\* whether reading is still in force.
CloseAndFree(read) ==
  /\ stream' = FALSE /\ reading' = FALSE
  /\ phase' = IF read \/ writes > 0 THEN "shutting" ELSE "closing"
  /\ UNCHANGED writes

\* uv_shutdown waits for the writes; its callback closes the handle.
ShutdownCallback ==
  /\ phase = "shutting" /\ writes = 0
  /\ phase' = "closing"
  /\ UNCHANGED <<queue, disposed, socketRefs, alive, stream, reading, writes, sent, ended,
                 writer>>
  /\ UNCHANGED readVars

CloseCallback ==
  /\ phase = "closing"
  /\ phase' = "freed"
  /\ UNCHANGED <<queue, disposed, socketRefs, alive, stream, reading, writes, sent, ended,
                 writer>>
  /\ UNCHANGED readVars

-----------------------------------------------------------------------------
(* Closing and the last reference *)

\* notifyReadAwaiter(): the continuation of read() goes to the executor.
NotifyReadAwaiter(jobs) ==
  /\ source' = FALSE
  /\ queue' = IF source THEN Append(jobs, "resumeRead") ELSE jobs

\* The callback of closeStream, on the thread of the loop.
CloseStream(jobs) ==
  /\ IF stream THEN CloseAndFree(FALSE) ELSE UNCHANGED handleVars
  /\ NotifyReadAwaiter(jobs)

\* releaseRef at the end of a job; the destructor runs closeStream at once.
ReleaseOnLoop(who, jobs) ==
  /\ socketRefs' = socketRefs \ {who}
  /\ alive' = (socketRefs' # {})
  /\ IF socketRefs' = {} /\ ~disposed
     THEN disposed' = TRUE /\ CloseStream(jobs)
     ELSE queue' = jobs /\ UNCHANGED <<disposed, source, stream, phase, reading, writes>>

\* doDispose(false) on another thread: the posted task takes a reference.
Dispose ==
  /\ "owner" \in socketRefs /\ ~disposed
  /\ disposed' = TRUE /\ socketRefs' = socketRefs \cup {"close"} /\ Post("close")
  /\ UNCHANGED <<alive, sent, ended, writer>> /\ UNCHANGED <<handleVars, readVars>>

\* The owner's releaseRef, on a thread of its own: the destructor of the last
\* reference posts the closing and waits for it.
OwnerRelease ==
  /\ "owner" \in socketRefs
  /\ socketRefs' = socketRefs \ {"owner"}
  /\ IF socketRefs' # {} THEN UNCHANGED <<disposed, alive, queue>>
     ELSE IF disposed THEN alive' = FALSE /\ UNCHANGED <<disposed, queue>>
     ELSE disposed' = TRUE /\ Post("destroy") /\ UNCHANGED alive
  /\ UNCHANGED <<sent, ended, writer>> /\ UNCHANGED <<handleVars, readVars>>

RunClose ==
  /\ queue # <<>> /\ Head(queue) = "close"
  /\ CloseStream(Tail(queue))
  /\ socketRefs' = socketRefs \ {"close"}
  /\ alive' = (socketRefs' # {})
  /\ UNCHANGED <<disposed, pending, received, reader, calls, answers, sent, ended, writer>>

RunDestroy ==
  /\ queue # <<>> /\ Head(queue) = "destroy"
  /\ CloseStream(Tail(queue))
  /\ alive' = FALSE
  /\ UNCHANGED <<disposed, socketRefs, pending, received, reader, calls, answers, sent, ended,
                 writer>>

-----------------------------------------------------------------------------
(* read() *)

\* The part on the caller's thread.
Read ==
  /\ reader = "idle" /\ calls < MaxReads /\ "owner" \in socketRefs
  /\ calls' = calls + 1
  /\ IF disposed
     THEN answers' = answers \cup {"disposed"} /\ UNCHANGED <<reader, socketRefs, queue>>
     ELSE /\ reader' = "posted" /\ socketRefs' = socketRefs \cup {"read"} /\ Post("read")
          /\ UNCHANGED answers
  /\ UNCHANGED <<disposed, alive, source, pending, received, sent, ended, writer>>
  /\ UNCHANGED handleVars

Return(data, outcome, jobs) ==
  /\ received' = received \o data /\ pending' = <<>>
  /\ answers' = answers \cup {outcome}
  /\ reader' = "idle"
  /\ ReleaseOnLoop("read", jobs)

ReturnPending(jobs) ==
  Return(pending, IF pending # <<>> THEN "data" ELSE IF stream THEN "empty" ELSE "end", jobs)

\* readStart() is left out if the handle is active already, be it by a write.
RunRead ==
  /\ queue # <<>> /\ Head(queue) = "read"
  /\ IF pending # <<>> \/ ~stream
     THEN ReturnPending(Tail(queue))
     ELSE /\ reading' = (reading \/ ~IsActive)
          /\ source' = TRUE /\ reader' = "awaiting" /\ queue' = Tail(queue)
          /\ UNCHANGED <<socketRefs, alive, disposed, stream, phase, writes,
                         received, pending, answers>>
  /\ UNCHANGED <<calls, sent, ended, writer>>

ResumeRead ==
  /\ queue # <<>> /\ Head(queue) = "resumeRead"
  /\ ReturnPending(Tail(queue))
  /\ UNCHANGED <<calls, sent, ended, writer>>

\* readCallback with data: any number of packets.
ReadCallback ==
  /\ reading /\ phase = "open" /\ InFlight > 0
  /\ \E n \in 1..InFlight :
       pending' = pending \o [i \in 1..n |-> Len(received \o pending) + i]
  /\ NotifyReadAwaiter(queue)
  /\ UNCHANGED <<disposed, socketRefs, alive, received, reader, calls, answers, sent, ended,
                 writer>>
  /\ UNCHANGED handleVars

\* readCallback with an error or the end of the stream.
ReadCallbackEnd ==
  /\ reading /\ phase = "open" /\ InFlight = 0 /\ ended
  /\ CloseAndFree(FALSE)
  /\ NotifyReadAwaiter(queue)
  /\ UNCHANGED <<disposed, socketRefs, alive, pending, received, reader, calls, answers, sent,
                 ended, writer>>

-----------------------------------------------------------------------------
(* write() *)

Write ==
  /\ writer = "idle" /\ "owner" \in socketRefs
  /\ IF disposed THEN writer' = "failed" /\ UNCHANGED <<socketRefs, queue>>
     ELSE writer' = "posted" /\ socketRefs' = socketRefs \cup {"write"} /\ Post("write")
  /\ UNCHANGED <<disposed, alive, sent, ended>> /\ UNCHANGED <<handleVars, readVars>>

RunWrite ==
  /\ queue # <<>> /\ Head(queue) = "write"
  /\ IF ~stream
     THEN writer' = "failed" /\ ReleaseOnLoop("write", Tail(queue))
     ELSE /\ writer' = "writing" /\ writes' = writes + 1 /\ queue' = Tail(queue)
          /\ UNCHANGED <<socketRefs, alive, disposed, source, stream, phase, reading>>
  /\ UNCHANGED <<pending, received, reader, calls, answers, sent, ended>>

WriteCallback ==
  /\ writes > 0
  /\ writes' = writes - 1 /\ writer' = "called" /\ Post("resumeWrite")
  /\ UNCHANGED <<disposed, socketRefs, alive, stream, phase, reading, sent, ended>>
  /\ UNCHANGED readVars

ResumeWrite ==
  /\ queue # <<>> /\ Head(queue) = "resumeWrite"
  /\ writer' = "done"
  /\ ReleaseOnLoop("write", Tail(queue))
  /\ UNCHANGED <<pending, received, reader, calls, answers, sent, ended>>

PeerSend ==
  /\ ~ended /\ sent < MaxSent
  /\ sent' = sent + 1
  /\ UNCHANGED <<queue, disposed, socketRefs, alive, ended, writer, handleVars, readVars>>

PeerEnd ==
  /\ ~ended /\ ended' = TRUE
  /\ UNCHANGED <<queue, disposed, socketRefs, alive, sent, writer, handleVars, readVars>>

LoopStep == \/ RunClose \/ RunDestroy \/ RunRead \/ ResumeRead \/ RunWrite \/ ResumeWrite
Callbacks == \/ ReadCallback \/ ReadCallbackEnd
             \/ WriteCallback \/ ShutdownCallback \/ CloseCallback
SocketNext == \/ LoopStep \/ Callbacks
              \/ Dispose \/ OwnerRelease \/ Read \/ Write \/ PeerSend \/ PeerEnd

\* The loop runs its jobs and callbacks; the peer ends some time.
SocketFairness ==
  WF_socketVars(LoopStep) /\ WF_socketVars(Callbacks) /\ WF_socketVars(PeerEnd)

ListenerInit ==
  /\ acceptMutex = "free" /\ server = TRUE /\ acceptSource = FALSE /\ delayed = <<>>
  /\ connected = 0 /\ acceptor = "idle" /\ acceptCalls = 0 /\ accepted = <<>> /\ closer = "open"

-----------------------------------------------------------------------------
(* Listener: accept() *)

\* The lock, and the test of m_uvServer.  A caller waits for one task before
\* it asks for the next.
Accept ==
  /\ acceptor = "idle" /\ ~acceptSource /\ acceptCalls < MaxAccepts
  /\ acceptMutex = "free"
  /\ acceptCalls' = acceptCalls + 1
  /\ IF server THEN acceptMutex' = "acceptor" /\ acceptor' = "checked" /\ UNCHANGED accepted
     ELSE accepted' = Append(accepted, 0) /\ UNCHANGED <<acceptMutex, acceptor>>
  /\ UNCHANGED <<server, acceptSource, delayed, connected, closer>>

TakeDelayed ==
  /\ acceptor = "checked"
  /\ IF delayed # <<>>
     THEN /\ accepted' = Append(accepted, Head(delayed)) /\ delayed' = Tail(delayed)
          /\ acceptor' = "idle" /\ acceptMutex' = "free"
     ELSE acceptor' = "waiting" /\ UNCHANGED <<accepted, delayed, acceptMutex>>
  /\ UNCHANGED <<server, acceptSource, connected, acceptCalls, closer>>

MakeSource ==
  /\ acceptor = "waiting"
  /\ acceptSource' = TRUE /\ acceptor' = "idle" /\ acceptMutex' = "free"
  /\ UNCHANGED <<server, delayed, connected, acceptCalls, accepted, closer>>

-----------------------------------------------------------------------------
(* Listener: the loop's thread *)

\* A mutant of DoAccept: whoever waits does not get the stream that is there.
DoAcceptDelayed(client) ==
  /\ delayed' = Append(delayed, client)
  /\ UNCHANGED <<accepted, acceptSource>>

DoAccept(client) ==
  IF acceptSource
  THEN acceptSource' = FALSE /\ accepted' = Append(accepted, client) /\ UNCHANGED delayed
  ELSE delayed' = Append(delayed, client) /\ UNCHANGED <<accepted, acceptSource>>

\* The callback of uv_listen: a client, or an error of the server.  A client
\* that uv_accept refuses leaves no trace.
ConnectionCallback ==
  /\ server /\ connected < MaxConnections
  /\ acceptMutex = "free"
  /\ \/ connected' = connected + 1 /\ DoAccept(connected + 1)
     \/ DoAccept(0) /\ Len(SelectSeq(delayed, LAMBDA s : s = 0)) = 0 /\ UNCHANGED connected
  /\ UNCHANGED <<acceptMutex, server, acceptor, acceptCalls, closer>>

Close ==
  /\ closer = "open"
  /\ server' = FALSE /\ closer' = "closing"
  /\ UNCHANGED <<acceptMutex, acceptSource, delayed, connected, acceptor, acceptCalls, accepted>>

\* No lock here.
CloseAccept ==
  /\ closer = "closing"
  /\ DoAccept(0)
  /\ closer' = "closed"
  /\ UNCHANGED <<acceptMutex, server, connected, acceptor, acceptCalls>>

ListenerNext == \/ Accept \/ TakeDelayed \/ MakeSource
                \/ ConnectionCallback \/ Close \/ CloseAccept

\* The threads go on, and the listener is closed some time.
ListenerFairness ==
  WF_listenerVars(TakeDelayed \/ MakeSource) /\ WF_listenerVars(Close \/ CloseAccept)

-----------------------------------------------------------------------------
StreamsInit == SocketInit /\ ListenerInit
StreamsNext == \/ SocketNext /\ UNCHANGED listenerVars
               \/ ListenerNext /\ UNCHANGED socketVars

StreamsSpec == StreamsInit /\ [][StreamsNext]_<<socketVars, listenerVars>>
               /\ SocketFairness /\ ListenerFairness

-----------------------------------------------------------------------------
\* read() returns what the peer has sent, whole and in order, and an empty
\* buffer only once the stream is gone.
BytesInOrder ==
  /\ IsPrefix(received \o pending, [i \in 1..sent |-> i])
  /\ "empty" \notin answers

\* libuv never calls back into a socket that is destroyed: its handle is not
\* open any more.
CallbackFindsObject == phase = "open" => alive

\* Every read() ends ...
ReadsEnd == reader # "idle" ~> reader = "idle"

\* ... as long as no write was in flight when it first wanted to read.
Deaf == reader = "awaiting" /\ source /\ ~reading /\ writes > 0
HeardReadsEnd == [](~Deaf) => ReadsEnd

\* A socket that nobody holds gives its uv handle back.
HandleIsFreed == socketRefs = {} ~> phase = "freed"

\* The clients are handed out once each and in the order they came.
Streams(s) == SelectSeq(s, LAMBDA x : x # 0)
HandedOutInOrder ==
  Streams(accepted \o delayed) = [i \in 1..connected |-> i]

\* Nobody is left waiting at a listener that is closed, which is what the
\* lock that doAccept expects of its caller is for.
NobodyWaitsAtClosed == closer = "closed" /\ acceptor = "idle" => ~acceptSource

\* That holds as long as closing does not fall between the test and the
\* source of an accept().
Overtaken == acceptor = "waiting" /\ closer # "open"
AcceptsEnd == [](~Overtaken) => (acceptSource ~> ~acceptSource)

=============================================================================
