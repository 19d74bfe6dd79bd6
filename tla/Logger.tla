------------------------------- MODULE Logger -------------------------------
(***************************************************************************)
(* LoggerImpl and the entries of its sinks (logger_impl.cpp).  log() walks *)
(* over the sinks under the shared side of m_mutex, an entry leaves the    *)
(* list under the exclusive one, addSink() takes no lock at all.  A sink   *)
(* may log itself: the message is put aside.  The shared mutex is          *)
(* external: who waits for the exclusive side keeps newcomers out.         *)
(***************************************************************************)
EXTENDS Naturals, Sequences, SequencesExt, FiniteSets

CONSTANTS Threads,   \* the threads that log
          Sinks,     \* added and given back by one more thread, their owner
          MaxLogs,   \* bounds the calls of a thread
          None

VARIABLES
  sinks,       \* m_sinks, in the order of the list
  attached,    \* of each sink: "new", its entry has m_logger, was "reset" or is "gone"
  alive,       \* is the logger
  releasing,   \* the sink whose entry waits for m_mutex in releaseLogSink
  logAt,       \* where each thread is in log(): "idle", "lock", "walk" or "sink"
  logs,        \* how often each has called it
  putAside,    \* s_pendingMessages of each thread, a number
  expected,    \* the sinks when the thread's message got the lock
  given,       \* the sinks that message was given to
  lateRelease  \* has an entry called a logger that is gone

logVars == <<sinks, attached, alive, releasing, logAt, logs, putAside, expected, given, lateRelease>>

Init ==
  /\ sinks = <<>> /\ attached = [k \in Sinks |-> "new"] /\ alive = TRUE /\ releasing = None
  /\ logAt = [t \in Threads |-> "idle"] /\ logs = [t \in Threads |-> 0]
  /\ putAside = [t \in Threads |-> 0] /\ expected = [t \in Threads |-> <<>>]
  /\ given = [t \in Threads |-> <<>>] /\ lateRelease = FALSE

\* The threads with the shared side of m_mutex.
Sharing == {t \in Threads : logAt[t] \in {"walk", "sink"}}

Goto(t, from, to) == logAt[t] = from /\ logAt' = [logAt EXCEPT ![t] = to]

-----------------------------------------------------------------------------
(* log() *)

\* The outermost call of a thread goes on to the mutex, one from a sink returns.
Log(t) ==
  /\ alive /\ logs[t] < MaxLogs /\ logs' = [logs EXCEPT ![t] = @ + 1]
  /\ \/ Goto(t, "idle", "lock") /\ UNCHANGED putAside
     \/ Goto(t, "sink", "sink") /\ putAside' = [putAside EXCEPT ![t] = @ + 1]
  /\ UNCHANGED <<sinks, attached, alive, releasing, expected, given, lateRelease>>

Lock(t) ==
  /\ releasing = None
  /\ Goto(t, "lock", "walk")
  /\ expected' = [expected EXCEPT ![t] = sinks]
  /\ UNCHANGED <<sinks, attached, alive, releasing, logs, putAside, given, lateRelease>>

\* The walk is by the links of the list: it goes on behind the sink it was at.
CallSink(t) ==
  /\ Len(given[t]) < Len(sinks)
  /\ Goto(t, "walk", "sink")
  /\ given' = [given EXCEPT ![t] = Append(@, sinks[Len(@) + 1])]
  /\ UNCHANGED <<sinks, attached, alive, releasing, logs, putAside, expected, lateRelease>>

SinkReturns(t) ==
  /\ Goto(t, "sink", "walk")
  /\ UNCHANGED <<sinks, attached, alive, releasing, logs, putAside, expected, given,
                 lateRelease>>

EndLog(t) ==
  /\ Len(given[t]) >= Len(sinks)
  /\ Goto(t, "walk", "idle")
  /\ expected' = [expected EXCEPT ![t] = <<>>] /\ given' = [given EXCEPT ![t] = <<>>]
  /\ UNCHANGED <<sinks, attached, alive, releasing, logs, putAside, lateRelease>>

-----------------------------------------------------------------------------
(* The owner of the entries, which does not give one back from within a sink: *)
(* that thread would wait for itself.                                         *)

\* At the end of the list, whether it is walked over or not.
AddSink(k) ==
  /\ alive /\ releasing = None
  /\ attached[k] = "new" /\ attached' = [attached EXCEPT ![k] = "entry"]
  /\ sinks' = Append(sinks, k)
  /\ UNCHANGED <<alive, releasing, logAt, logs, putAside, expected, given, lateRelease>>

\* ~LogSinkEntryImpl: it looks at m_logger and goes to wait.
Release(k) ==
  /\ releasing = None
  /\ \/ /\ attached[k] = "entry" /\ releasing' = k
        /\ UNCHANGED attached
     \/ /\ attached[k] = "reset" /\ attached' = [attached EXCEPT ![k] = "gone"]
        /\ UNCHANGED releasing
  /\ UNCHANGED <<sinks, alive, logAt, logs, putAside, expected, given, lateRelease>>

ReleaseLogSink ==
  /\ releasing # None /\ releasing' = None
  /\ Sharing = {}
  /\ sinks' = Remove(sinks, releasing)
  /\ attached' = [attached EXCEPT ![releasing] = "gone"]
  /\ lateRelease' = (lateRelease \/ ~alive)
  /\ UNCHANGED <<alive, logAt, logs, putAside, expected, given>>

\* The last reference: nobody is in log(), entries may be left.
DestroyLogger ==
  /\ alive /\ alive' = FALSE
  /\ \A t \in Threads : logAt[t] = "idle"
  /\ sinks' = <<>>
  /\ attached' = [k \in Sinks |-> IF Contains(sinks, k) THEN "reset" ELSE attached[k]]
  /\ UNCHANGED <<releasing, logAt, logs, putAside, expected, given, lateRelease>>

Walk(t) == Lock(t) \/ CallSink(t) \/ SinkReturns(t) \/ EndLog(t)

Next ==
  \/ \E t \in Threads : Log(t) \/ Walk(t)
  \/ \E k \in Sinks : AddSink(k) \/ Release(k)
  \/ ReleaseLogSink
  \/ DestroyLogger

\* Sinks return, and a thread that may take the mutex does so: who waits for the
\* exclusive side stops newcomers, so that each of them is let in in the end.
Spec == Init /\ [][Next]_logVars
FairSpec == Spec /\ \A t \in Threads : WF_logVars(Walk(t)) /\ WF_logVars(ReleaseLogSink)

-----------------------------------------------------------------------------
(* Properties *)

\* No sink is called whose owner has been told that its entry is gone, and none that
\* nobody can find any more.
SinksAreAttached ==
  \A t \in Threads : logAt[t] = "sink" => Contains(sinks, Last(given[t]))

\* A message has been given, once and in their order, to all the sinks that were there
\* when it began, although others came meanwhile.
MessagesReachSinks ==
  [][\A t \in Threads : EndLog(t) => IsPrefix(expected[t], given[t]) /\ IsInjective(given[t])]_logVars

\* Every call of log() returns, also with sinks that log, and every release: the
\* logger comes to rest.
LogsEnd ==
  (releasing # None \/ \E t \in Threads : logAt[t] # "idle") ~>
    (releasing = None /\ \A t \in Threads : logAt[t] = "idle")

\* An entry never calls a logger that is gone: it may, when the logger goes between its
\* look at m_logger and the mutex.
EntriesFindLogger == ~lateRelease

=============================================================================
