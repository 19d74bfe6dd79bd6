------------------------------ MODULE WorkQueue ------------------------------
(***************************************************************************)
(* WorkQueueImpl (src/async/work_queue.cpp): an executor whose invocations *)
(* are run by whoever polls it.  One thread polls in a loop until it is    *)
(* told to stop, clients hand over invocations, a stopper raises the       *)
(* loop's flag and calls notify().  m_mutex is held for one step, except   *)
(* in notify(), whose two stores the poller can tell apart.                *)
(***************************************************************************)
EXTENDS Naturals, Sequences

CONSTANTS Clients,  \* threads that hand over two invocations, one by one
          Timeouts  \* may the loop give poll() a timeout: {TRUE}, {FALSE} or both

\* What the constants must satisfy.
WorkQueueAssumption == Timeouts \subseteq BOOLEAN

\* Number 1 and 2 are handed over by the client, number 0 by number 1 as it
\* runs (a coroutine that awaits the queue again).
Invocations == [by : Clients, n : 0..2]

VARIABLES
  timed,        \* does the loop give poll() a timeout
  invocations,  \* m_invocations
  taken,        \* what poll() has moved out and not run yet
  event,        \* m_event, a manual-reset event
  signal,       \* m_signal: is there a task of waitForWork, is it resolved
  isPolled,     \* m_isPolled
  isNotified,   \* m_isNotified
  stopFlag,     \* the flag of the polling loop
  poller,       \* where the polling thread is
  stopper,      \* where the stopper is
  given,        \* how many invocations each client has handed over
  ran           \* how many times each invocation has been run

vars == <<timed, invocations, taken, event, signal, isPolled, isNotified, stopFlag,
          poller, stopper, given, ran>>

Init ==
  /\ timed \in Timeouts
  /\ invocations = << >> /\ taken = << >>
  /\ event = FALSE /\ signal = "none"
  /\ isPolled = FALSE /\ isNotified = FALSE
  /\ stopFlag = FALSE
  /\ poller = "loop" /\ stopper = "raise"
  /\ given = [c \in Clients |-> 0]
  /\ ran = [i \in Invocations |-> 0]

Locked == stopper = "wake"

Goto(from, to) == poller = from /\ poller' = to

NotifyInternal ==
  /\ signal' = IF signal = "pending" THEN "ready" ELSE signal
  /\ event' = TRUE

-----------------------------------------------------------------------------
(* scheduleInvocation and notify *)

Schedule(c) ==
  /\ ~Locked
  /\ given[c] < 2
  /\ given' = [given EXCEPT ![c] = @ + 1]
  /\ invocations' = Append(invocations, [by |-> c, n |-> given'[c]])
  /\ NotifyInternal
  /\ UNCHANGED <<timed, taken, isPolled, isNotified, stopFlag, poller, stopper,
                 ran>>

\* complete = true in the loop's owner.
Raise ==
  /\ stopper = "raise"
  /\ stopper' = "notify"
  /\ stopFlag' = TRUE
  /\ UNCHANGED <<timed, invocations, taken, event, signal, isPolled, isNotified,
                 poller, given, ran>>

Notify ==
  /\ stopper = "notify"
  /\ stopper' = "wake"
  /\ isNotified' = TRUE
  /\ UNCHANGED <<timed, invocations, taken, event, signal, isPolled, stopFlag,
                 poller, given, ran>>

Wake ==
  /\ stopper = "wake"
  /\ stopper' = "done"
  /\ NotifyInternal
  /\ UNCHANGED <<timed, invocations, taken, isPolled, isNotified, stopFlag, poller,
                 given, ran>>

-----------------------------------------------------------------------------
(* poll and waitForWork *)

Stop ==
  /\ Goto("loop", "stopped")
  /\ stopFlag
  /\ UNCHANGED <<timed, invocations, taken, event, signal, isPolled, isNotified,
                 stopFlag, stopper, given, ran>>

\* A mutant of WaitForWork: a new task, without a look at the queue.
WaitForWorkBlindly ==
  /\ poller = "loop"
  /\ ~Locked
  /\ signal' = "pending"
  /\ UNCHANGED <<timed, invocations, taken, event, isPolled, isNotified, stopFlag,
                 poller, stopper, given, ran>>

\* A resolved task if there is work, else the task of m_signal, a new one if
\* it has been resolved before.  Called between two polls.
WaitForWork ==
  /\ poller = "loop"
  /\ ~Locked
  /\ signal' = IF invocations # << >> THEN signal ELSE "pending"
  /\ UNCHANGED <<timed, invocations, taken, event, isPolled, isNotified, stopFlag,
                 poller, stopper, given, ran>>

Enter ==
  /\ Goto("loop", "take")
  /\ ~stopFlag
  /\ isPolled' = TRUE
  /\ UNCHANGED <<timed, invocations, taken, event, signal, isNotified, stopFlag,
                 stopper, given, ran>>

\* takeInvocations.
Take ==
  /\ poller = "take"
  /\ ~Locked
  /\ poller' = IF invocations = << >> THEN "wait" ELSE "run"
  /\ taken' = invocations
  /\ invocations' = << >>
  /\ event' = FALSE
  /\ signal' = IF signal = "ready" THEN "none" ELSE signal
  /\ UNCHANGED <<timed, isPolled, isNotified, stopFlag, stopper, given, ran>>

\* The event, or the end of the time that is left.
Wait ==
  /\ Goto("wait", "checkNotified")
  /\ event \/ timed
  /\ UNCHANGED <<timed, invocations, taken, event, signal, isPolled, isNotified,
                 stopFlag, stopper, given, ran>>

\* No time left to wait for the event.
OutOfTime ==
  /\ Goto("wait", "decide")
  /\ timed
  /\ UNCHANGED <<timed, invocations, taken, event, signal, isPolled, isNotified,
                 stopFlag, stopper, given, ran>>

CheckNotified ==
  /\ Goto("checkNotified", IF isNotified THEN "decide" ELSE "take")
  /\ UNCHANGED <<timed, invocations, taken, event, signal, isPolled, isNotified,
                 stopFlag, stopper, given, ran>>

Running ==
  /\ poller = "run"
  /\ poller' = IF Len(taken) = 1 THEN "decide" ELSE "run"
  /\ ran' = [ran EXCEPT ![Head(taken)] = @ + 1]
  /\ taken' = Tail(taken)
  /\ UNCHANGED <<timed, isPolled, isNotified, stopFlag, stopper, given>>

Run ==
  /\ Running
  /\ UNCHANGED <<timed, invocations, event, signal>>

RunAndSchedule ==
  /\ ~Locked
  /\ Running
  /\ Head(taken).n = 1
  /\ invocations' = Append(invocations, [Head(taken) EXCEPT !.n = 0])
  /\ NotifyInternal

\* A mutant of Decide: || for && in the condition of the loop.
DecideWithOr ==
  /\ poller = "decide"
  /\ poller' \in (IF isNotified /\ timed THEN {"take", "leave"} ELSE {"take"})
  /\ UNCHANGED <<timed, invocations, taken, event, signal, isPolled, isNotified,
                 stopFlag, stopper, given, ran>>

\* The condition of poll()'s loop; the time may be over or not.
Decide ==
  /\ poller = "decide"
  /\ poller' \in (IF isNotified THEN {"leave"}
                  ELSE IF timed THEN {"take", "leave"} ELSE {"take"})
  /\ UNCHANGED <<timed, invocations, taken, event, signal, isPolled, isNotified,
                 stopFlag, stopper, given, ran>>

\* scope_on_leave.
Leave ==
  /\ Goto("leave", "leaving")
  /\ isNotified' = FALSE
  /\ UNCHANGED <<timed, invocations, taken, event, signal, isPolled, stopFlag,
                 stopper, given, ran>>

Left ==
  /\ Goto("leaving", "loop")
  /\ isPolled' = FALSE
  /\ UNCHANGED <<timed, invocations, taken, event, signal, isNotified, stopFlag,
                 stopper, given, ran>>

\* hasWorks.
HasWorks == invocations # << >> \/ isPolled

Poll ==
  \/ Stop \/ Enter \/ Take \/ Wait \/ OutOfTime \/ CheckNotified
  \/ Run \/ RunAndSchedule \/ Decide \/ Leave \/ Left

StopperStep == Raise \/ Notify \/ Wake

Next ==
  \/ Poll
  \/ WaitForWork
  \/ StopperStep
  \/ \E c \in Clients : Schedule(c)

Spec == Init /\ [][Next]_vars

\* The polling thread, and the stopper once it has raised the flag, are run by
\* the operating system; nobody need ever stop the loop, hand over an invocation
\* or ask for work.
FairSpec == Spec /\ WF_vars(Poll) /\ WF_vars(Notify \/ Wake)

-----------------------------------------------------------------------------
(* Properties *)

\* The type invariant: the queue's fields and the poller's place in poll(), which
\* is among the invocations exactly while it has some left to run.
TypeOK ==
  /\ timed \in BOOLEAN
  /\ invocations \in Seq(Invocations) /\ taken \in Seq(Invocations)
  /\ event \in BOOLEAN
  /\ signal \in {"none", "pending", "ready"}
  /\ isPolled \in BOOLEAN /\ isNotified \in BOOLEAN /\ stopFlag \in BOOLEAN
  /\ poller \in {"loop", "take", "wait", "checkNotified", "run", "decide", "leave",
                 "leaving", "stopped"}
  /\ poller = "run" <=> taken # << >>
  /\ stopper \in {"raise", "notify", "wake", "done"}
  /\ given \in [Clients -> 0..2]
  /\ ran \in [Invocations -> Nat]

\* What a client hands over is run in the order it was handed over, and once,
\* although the queue is emptied batch by batch while clients go on filling it.
RunsOnceInOrder ==
  /\ \A i \in Invocations : ran[i] <= 1
  /\ \A c \in Clients : ran[[by |-> c, n |-> 2]] <= ran[[by |-> c, n |-> 1]]

\* hasWorks() is what the runtime's shutdown relies on: when it answers no,
\* nothing is queued and nothing that was taken out is still to be run.
QuietMeansDone == ~HasWorks => invocations = << >> /\ taken = << >>

\* Nobody sleeps on work: the poller that waits for the event will be woken if
\* something is queued, and a task of waitForWork is pending on an empty queue.
NobodySleepsOnWork ==
  /\ poller = "wait" /\ invocations # << >> => event
  /\ signal = "pending" => invocations = << >>

\* What is queued is run as long as the loop goes on.
QueuedIsRun ==
  \A i \in Invocations :
    (\E j \in 1..Len(invocations) : invocations[j] = i) ~> (ran[i] = 1 \/ stopFlag)

\* A loop that polls with a timeout, as the application's step() does, ends after
\* its flag has been raised, even when a notification comes too early for a poll.
TimedLoopEnds == stopFlag /\ timed ~> poller = "stopped"

\* The polling loop ends after its owner has raised the flag and called notify()
\* (worker->notify(); workerThread.join() in test_task_collection.cpp).
StopEndsTheLoop == stopFlag ~> poller = "stopped"

=============================================================================
