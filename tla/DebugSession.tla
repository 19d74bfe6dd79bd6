---------------------------- MODULE DebugSession ----------------------------
(***************************************************************************)
(* One session of the debug adapter: initAndRunDebugSession reads packets  *)
(* and dispatches them, the handlers of the debuggee run as tasks on its   *)
(* executor, and everybody writes answers and events to the same stream.   *)
(* A packet is a head and a body; an eager client sends before it has its  *)
(* answers and its packets reach read() in pieces or together.             *)
(* And HttpParser: the headers of a packet are found again and again by    *)
(* walking its lines.  A line is a key and a value; one without a          *)
(* separator has no key.  Keys compare without case, so a key is a member  *)
(* of a small set.                                                         *)
(***************************************************************************)
EXTENDS Naturals, Sequences, SequencesExt, FiniteSets

CONSTANTS Commands,                      \* the requests of the client, in order
          Keys, Values, MaxLines, None   \* of the lines of a packet

Lines == [key : Keys \cup {None}, value : Values \cup {None}]
Requests == 1..Len(Commands)

VARIABLES
  eager,      \* the client does not wait for answers
  requested,  \* how many requests were sent
  wire,       \* pieces sent and not read
  packet,     \* what readHttpPacket has put together
  session,    \* "reading", "dispatch", "starting", "attaching", "broken", "refused" or "ended"
  request,    \* the request in work
  dropped,    \* requests whose head was read behind another packet and went with it
  debuggee,   \* the debuggee is there
  tasks,      \* the TaskCollection: tasks that have no message yet
  ready,      \* messages that have their number and wait to be written
  seqId,      \* m_nextSeqId
  sent,       \* what was written
  paused,     \* Pause() polls its work queue
  buffer,     \* m_buffer: the lines up to the empty one; <<>> if that is missing
  iterator,   \* the line of its header, 0 at the end
  seen        \* the lines a loop from begin() to end() has met
sessionVars == <<eager, requested, wire, packet, session, request, dropped, debuggee, tasks,
                 ready, seqId, sent, paused>>
headerVars == <<buffer, iterator, seen>>

SessionInit ==
  /\ eager \in BOOLEAN /\ requested = 0 /\ wire = <<>> /\ packet = <<>>
  /\ session = "reading" /\ request = 0 /\ dropped = {} /\ debuggee = FALSE
  /\ tasks = {} /\ ready = {} /\ seqId = 1 /\ sent = <<>> /\ paused = FALSE

Answered(r) == \E i \in DOMAIN sent : sent[i].answers = r
Quiet == tasks = {} /\ ready = {}
\* The coroutine is gone, with or without an error.
Over == session \in {"refused", "ended"}
Message(id, r) == [id |-> id, answers |-> r]

NextSeqId(message) == seqId' = seqId + 1 /\ message.id = seqId'

-----------------------------------------------------------------------------
(* The client *)

\* A client that waits has its answer, and the initialized event, before it
\* sends again; a "source" request is answered without the request's number.
Send ==
  /\ ~Over /\ requested < Len(Commands)
  /\ eager \/ (wire = <<>> /\ Quiet /\ packet = <<>> /\ session = "reading")
  /\ requested' = requested + 1
  /\ wire' = wire \o <<[part |-> "head", of |-> requested'], [part |-> "body", of |-> requested']>>
  /\ UNCHANGED <<eager, packet, session, request, dropped, debuggee, tasks, ready, seqId, sent, paused>>

-----------------------------------------------------------------------------
(* The loop of the session *)

Heads(p) == {p[i].of : i \in {j \in DOMAIN p : p[j].part = "head"}}
HasHead(p) == Heads(p) # {}
\* What is behind the headers must be all of the body: contentLength() bytes
\* are parsed whatever the buffer holds.  Leftovers before the headers spoil them.
Complete(p) == Len(p) >= 2 /\ p[1].part = "head"

\* read(), concat, and a new HttpParser.  What the packet holds behind its
\* own body goes with the packet.
ReadHttpPacket ==
  /\ session = "reading" /\ wire # <<>>
  /\ \E n \in 1..Len(wire) :
       LET got == packet \o SubSeq(wire, 1, n) IN
       /\ eager \/ n = Len(wire)
       /\ wire' = SubSeq(wire, n + 1, Len(wire))
       /\ IF ~HasHead(got) THEN packet' = got /\ UNCHANGED <<session, request, dropped>>
          ELSE /\ packet' = <<>>
               /\ IF Complete(got)
                  THEN /\ session' = "dispatch" /\ request' = got[1].of
                       /\ dropped' = dropped \cup (Heads(got) \ {request'})
                  ELSE session' = "broken" /\ UNCHANGED <<request, dropped>>
  /\ UNCHANGED <<eager, requested, debuggee, tasks, ready, seqId, sent, paused>>

\* The stream ends: readHttpPacket fails, and the session with it, whatever
\* its tasks do.
EndOfStream ==
  /\ session = "reading" /\ wire = <<>>
  /\ eager \/ (Quiet /\ requested = Len(Commands))
  /\ session' = "ended"
  /\ UNCHANGED <<eager, requested, wire, packet, request, dropped, debuggee, tasks, ready, seqId, sent, paused>>

Is(command) == session = "dispatch" /\ Commands[request] = command
Respond(message) == sent' = Append(sent, message) /\ session' = "reading"

\* The arguments cannot be applied: the coroutine ends with the error, and the stream
\* is closed.
InitializeRefused ==
  /\ Is("initialize")
  /\ session' = "refused"
  /\ UNCHANGED <<eager, requested, wire, packet, request, dropped, debuggee, tasks, ready, seqId, sent, paused>>

\* The number of the answer is taken before the session is started.
Initialize ==
  /\ Is("initialize") /\ ~debuggee
  /\ \E m \in {Message(seqId + 1, request)} : NextSeqId(m) /\ ready' = ready \cup {m}
  /\ session' = "starting"
  /\ UNCHANGED <<eager, requested, wire, packet, request, dropped, debuggee, tasks, sent, paused>>

StartDebugSession ==
  /\ session = "starting"
  /\ debuggee' = TRUE
  /\ \E m \in ready : m.answers = request /\ Respond(m) /\ ready' = ready \ {m}
  /\ UNCHANGED <<eager, requested, wire, packet, request, dropped, tasks, seqId, paused>>

\* The host rejects: its error ends the coroutine, and the answer with it.
StartRefused ==
  /\ session = "starting"
  /\ session' = "refused" /\ ready' = {m \in ready : m.answers # request}
  /\ UNCHANGED <<eager, requested, wire, packet, request, dropped, debuggee, tasks, seqId, sent, paused>>

Attach ==
  /\ Is("attach") /\ debuggee
  /\ tasks' = tasks \cup {request} /\ session' = "attaching"
  /\ UNCHANGED <<eager, requested, wire, packet, request, dropped, debuggee, ready, seqId, sent, paused>>

\* The loop waits for this one, and leaves a task for the initialized event: 0.
Attached ==
  /\ session = "attaching" /\ Answered(request)
  /\ tasks' = tasks \cup {0} /\ session' = "reading"
  /\ UNCHANGED <<eager, requested, wire, packet, request, dropped, debuggee, ready, seqId, sent, paused>>

\* The error has neither a number of its own nor that of the request.
Source ==
  /\ Is("source")
  /\ Respond(Message(0, 0))
  /\ UNCHANGED <<eager, requested, wire, packet, request, dropped, debuggee, tasks, ready, seqId, paused>>

HasHandler == Commands[request] \in {"configurationDone", "setBreakpoints"}
PushHandler ==
  /\ session = "dispatch" /\ HasHandler /\ debuggee
  /\ tasks' = tasks \cup {request} /\ session' = "reading"
  /\ UNCHANGED <<eager, requested, wire, packet, request, dropped, debuggee, ready, seqId, sent, paused>>

\* Whatever has no handler is answered with success: "continue" too.
Unknown ==
  /\ session = "dispatch" /\ ~HasHandler
  /\ Commands[request] \notin {"initialize", "attach", "source"}
  /\ \E m \in {Message(seqId + 1, request)} : NextSeqId(m) /\ Respond(m)
  /\ UNCHANGED <<eager, requested, wire, packet, request, dropped, debuggee, tasks, ready, paused>>

-----------------------------------------------------------------------------
(* The tasks, on the executor of the debuggee *)

\* requestCall: the handler has run, well or not, and its answer is made.
RequestCall(t) ==
  /\ t \in tasks /\ ~paused /\ ~Over
  /\ tasks' = tasks \ {t}
  /\ \E m \in {Message(seqId + 1, t)} : NextSeqId(m) /\ ready' = ready \cup {m}
  /\ UNCHANGED <<eager, requested, wire, packet, session, request, dropped, debuggee, sent, paused>>

\* A mutant of WriteAnswer: the message is dropped.
WriteAnswerNot(m) ==
  /\ m \in ready /\ session # "starting" /\ ~Over
  /\ ready' = ready \ {m}
  /\ UNCHANGED <<eager, requested, wire, packet, session, request, dropped, debuggee, tasks, seqId, sent, paused>>

WriteAnswer(m) ==
  /\ m \in ready /\ session # "starting" /\ ~Over
  /\ ready' = ready \ {m} /\ sent' = Append(sent, m)
  /\ UNCHANGED <<eager, requested, wire, packet, session, request, dropped, debuggee, tasks, seqId, paused>>

\* Pause() on the debuggee's thread: the stopped event, and a poll() without
\* end of a queue that nobody posts to.
Pause ==
  /\ eager /\ debuggee /\ ~paused
  /\ paused' = TRUE
  /\ \E m \in {Message(seqId + 1, 0)} : NextSeqId(m) /\ ready' = ready \cup {m}
  /\ UNCHANGED <<eager, requested, wire, packet, session, request, dropped, debuggee, tasks, sent>>

SessionLoop ==
  \/ ReadHttpPacket \/ Initialize \/ InitializeRefused \/ StartDebugSession \/ StartRefused
  \/ Attach \/ Attached \/ Source \/ PushHandler \/ Unknown

Handlers == (\E t \in 0..Len(Commands) : RequestCall(t)) \/ (\E m \in ready : WriteAnswer(m))

SessionNext == Send \/ EndOfStream \/ SessionLoop \/ Handlers \/ Pause

Fairness == WF_sessionVars(SessionLoop) /\ WF_sessionVars(Handlers)

-----------------------------------------------------------------------------
(* The headers of a packet *)

\* tryParseHeader gives a header, true as a condition, for such a line.
IsHeader(b, i) == i \in DOMAIN b /\ b[i].key # None

\* The first line is a header or the request line: a request line with a
\* colon in it passes for a header.
GetFirstHeader(b) ==
  IF b = <<>> THEN 0 ELSE IF IsHeader(b, 1) THEN 1 ELSE IF IsHeader(b, 2) THEN 2 ELSE 0

\* getNextLine and tryParseHeader: the walk ends at the first line that is no
\* header.
GetNextHeader(b, i) == IF i # 0 /\ IsHeader(b, i + 1) THEN i + 1 ELSE 0

\* The lines the loops of findHeader, headersCount and headerAt run over.
Walk(b) ==
  LET walk[n \in 0..Len(b)] ==
        IF n = 0 THEN IF GetFirstHeader(b) = 0 THEN <<>> ELSE <<GetFirstHeader(b)>>
        ELSE LET w == walk[n - 1] IN
             IF w = <<>> \/ GetNextHeader(b, Last(w)) = 0 THEN w
             ELSE Append(w, GetNextHeader(b, Last(w)))
  IN walk[Len(b)]

HeadersCount(b) == Len(Walk(b))
HeaderAt(b, index) == Walk(b)[index + 1]
FindHeader(b, key) ==
  LET found == SelectSeq(Walk(b), LAMBDA i : b[i].key = key)
  IN IF found = <<>> THEN 0 ELSE Head(found)
\* hasHeader: a header without a value is as good as none.
HasHeader(b, key) == FindHeader(b, key) # 0 /\ b[FindHeader(b, key)].value # None

\* The constructor, and begin().
HeaderInit ==
  /\ buffer \in UNION {[1..n -> Lines] : n \in 0..MaxLines}
  /\ iterator = GetFirstHeader(buffer)
  /\ seen = <<>>

\* One turn of a loop: ++iterator.
HeaderNext ==
  /\ iterator # 0
  /\ seen' = Append(seen, iterator)
  /\ iterator' = GetNextHeader(buffer, iterator)
  /\ UNCHANGED buffer

Init == SessionInit /\ HeaderInit
Next == \/ SessionNext /\ UNCHANGED headerVars
        \/ HeaderNext /\ UNCHANGED sessionVars

Spec == Init /\ [][Next]_<<sessionVars, headerVars>> /\ Fairness

-----------------------------------------------------------------------------
\* No two messages of the session have the same number, and no request has
\* two answers, whoever writes when.
AnswersAreDistinct ==
  \A i, j \in DOMAIN sent : i # j =>
    /\ sent[i].id = sent[j].id => sent[i].id = 0
    /\ sent[i].answers = sent[j].answers => sent[i].answers = 0

\* What may keep an answer from a client that does not wait: it leaves, one of its packets
\* comes in pieces and breaks the session, this one comes behind another, or Pause() has
\* the debuggee's thread.
Overrun(r) == session \in {"broken", "ended"} \/ r \in dropped \/ paused

\* Every request is answered, but for "source", unless the session was refused with an
\* error; a client that waits for its answers has nothing else to fear.
RequestsAnswered ==
  \A r \in Requests :
    (requested >= r) ~> \/ Commands[r] = "source" \/ Answered(r) \/ session = "refused"
                        \/ eager /\ Overrun(r)

\* The same of any client that does not leave.  It fails in three ways: a
\* packet in pieces breaks the session, a packet behind another is lost, and
\* Pause() never comes back.
AnyRequestAnswered ==
  \A r \in Requests :
    (requested >= r) ~> (Commands[r] = "source" \/ Answered(r) \/ Over)

\* A packet with a request line that has no separator, and headers.
WellFormed == buffer # <<>> /\ ~IsHeader(buffer, 1)
                /\ \A i \in 2..Len(buffer) : IsHeader(buffer, i)

\* In such a packet the iterator meets each header once and in order, and so
\* do the walks of the static functions; the first header of a key is found.
EveryHeaderMet ==
  WellFormed =>
    /\ iterator = 0 => seen = [i \in 1..(Len(buffer) - 1) |-> i + 1]
    /\ HeadersCount(buffer) = Len(buffer) - 1
    /\ \A i \in 0..(Len(buffer) - 2) : HeaderAt(buffer, i) = i + 2
    /\ \A k \in Keys :
         IF \E i \in 2..Len(buffer) : buffer[i].key = k
         THEN /\ buffer[FindHeader(buffer, k)].key = k
              /\ \A i \in 2..(FindHeader(buffer, k) - 1) : buffer[i].key # k
         ELSE FindHeader(buffer, k) = 0 /\ ~HasHeader(buffer, k)

=============================================================================
