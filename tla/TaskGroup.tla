----------------------------- MODULE TaskGroup -----------------------------
(***************************************************************************)
(* whenAll and whenAny (src/async/task.cpp): the coroutine that registers  *)
(* a ready callback on every task of an intrusive list, the threads that   *)
(* make the tasks ready, the timer of the expiration and the AwaiterState  *)
(* they meet on.  An agent is a task (the thread that resolves it), the    *)
(* coroutine or the timer; each runs the shared code of resolve().  Using  *)
(* the state or a list after it is gone has no defined effect: the model   *)
(* records it in dangling and lets the agent end there.                    *)
(***************************************************************************)
EXTENDS Naturals, Sequences

CONSTANTS List,      \* the tasks in the order of the list
          Modes,     \* which of whenAll ("all") and whenAny ("any") is called
          Nil        \* the end of the list

Tasks == {List[i] : i \in 1..Len(List)}
Caller == "caller"
TimerThread == "timer"
Agents == Tasks \cup {Caller, TimerThread}

\* What the constants must satisfy.
ListAssumption ==
  /\ List \in Seq(Tasks) /\ Len(List) > 0
  /\ \A i, j \in 1..Len(List) : List[i] = List[j] => i = j
  /\ Tasks \cap {Caller, TimerThread, Nil} = {} /\ Modes \subseteq {"all", "any"}

VARIABLES
  mode,        \* which function was called
  ready,       \* the tasks that are ready
  callback,    \* the tasks whose m_readyCallback is set to the awaiter's
  next, head,  \* the links of the list and its first task
  expired,     \* is the expiration over
  subscribed,  \* is the awaiter subscribed to the expiration
  awaiter,     \* the AwaiterState: "none", "alive" or "freed"
  counter,     \* AwaiterState::counter
  completion,  \* AwaiterState::completionState
  awoken,      \* is taskSource resolved
  step, cursor,\* where each agent is, and the task it looks at
  answer,      \* what the coroutine returned
  dangling     \* has somebody used a freed AwaiterState

groupVars == <<mode, ready, callback, next, head, expired, subscribed, awaiter,
               counter, completion, awoken, step, cursor, answer, dangling>>

Steps == {"idle", "take", "invoke", "resolveTrue", "resolveFalse", "reset",
          "wake", "check", "expiry", "begin", "register", "advance", "await",
          "suspended", "done"}

GroupTypeOK ==
  /\ mode \in Modes
  /\ ready \subseteq Tasks /\ callback \subseteq Tasks
  /\ next \in [Tasks -> Tasks \cup {Nil}] /\ head \in Tasks \cup {Nil}
  /\ expired \in BOOLEAN /\ subscribed \in BOOLEAN /\ awoken \in BOOLEAN
  /\ awaiter \in {"none", "alive", "freed"}
  /\ counter \in 0..Len(List)
  /\ completion \in {"none", "true", "false"} /\ answer \in {"none", "true", "false"}
  /\ step \in [Agents -> Steps] /\ cursor \in [Agents -> Tasks \cup {Nil}]
  /\ dangling \in BOOLEAN

\* CoreTaskLinkedList(iterator): links the tasks in order.
Links == [t \in Tasks |->
            LET i == CHOOSE j \in 1..Len(List) : List[j] = t
            IN IF i = Len(List) THEN Nil ELSE List[i + 1]]

GroupInit ==
  /\ mode \in Modes
  /\ ready = {} /\ callback = {}
  /\ next = Links /\ head = List[1]
  /\ expired = FALSE /\ subscribed = FALSE
  /\ awaiter = "none" /\ counter = 0 /\ completion = "none" /\ awoken = FALSE
  /\ step = [a \in Agents |-> IF a = Caller THEN "check" ELSE "idle"]
  /\ cursor = [a \in Agents |-> Nil]
  /\ answer = "none" /\ dangling = FALSE

AgentGoto(a, from, to) == step[a] = from /\ step' = [step EXCEPT ![a] = to]

\* An agent that has finished with resolve() goes back to its own code.
After(a) == IF a # Caller THEN "done"
            ELSE IF cursor[Caller] = Nil THEN "begin" ELSE "advance"

Satisfied == IF mode = "all" THEN Tasks \subseteq ready ELSE ready # {}

-----------------------------------------------------------------------------
(* The tasks and the timer *)

Settle(t) ==
  /\ AgentGoto(t, "idle", "take")
  /\ ready' = ready \cup {t}
  /\ UNCHANGED <<mode, callback, next, head, expired, subscribed, awaiter, counter,
                 completion, awoken, cursor, answer, dangling>>

\* invokeReadyCallback: the callback is taken under the lock, called outside.
Take(t) ==
  /\ AgentGoto(t, "take", IF t \in callback THEN "invoke" ELSE "done")
  /\ callback' = callback \ {t}
  /\ UNCHANGED <<mode, ready, next, head, expired, subscribed, awaiter, counter,
                 completion, awoken, cursor, answer, dangling>>

Expire ==
  /\ AgentGoto(TimerThread, "idle", IF subscribed THEN "resolveFalse" ELSE "done")
  /\ expired' = TRUE
  /\ UNCHANGED <<mode, ready, callback, next, head, subscribed, awaiter, counter,
                 completion, awoken, cursor, answer, dangling>>

-----------------------------------------------------------------------------
(* AwaiterState *)

\* A mutant of LastOfAll: the counter is compared after the subtraction.
LastOfAllButOne == counter <= 2

\* fetch_sub returns the value before the subtraction.
LastOfAll == counter = 1

\* The ready callback of a task: every one counts for whenAny, the last one
\* for whenAll.
Invoke(a) ==
  /\ step[a] = "invoke"
  /\ IF awaiter = "freed"
     THEN /\ dangling' = TRUE
          /\ step' = [step EXCEPT ![a] = "done"]
          /\ UNCHANGED counter
     ELSE /\ counter' = IF mode = "all" /\ counter > 0 THEN counter - 1 ELSE counter
          /\ step' = [step EXCEPT ![a] =
                        IF mode = "any" \/ LastOfAll THEN "resolveTrue" ELSE After(a)]
          /\ UNCHANGED dangling
  /\ UNCHANGED <<mode, ready, callback, next, head, expired, subscribed, awaiter,
                 completion, awoken, cursor, answer>>

\* resolve(): the first result counts; its owner empties the list.
Resolve(a) ==
  /\ step[a] \in {"resolveTrue", "resolveFalse"}
  /\ IF awaiter = "freed"
     THEN /\ dangling' = TRUE
          /\ step' = [step EXCEPT ![a] = "done"]
          /\ UNCHANGED <<completion, cursor, head, callback, next>>
     ELSE /\ IF completion = "none"
             THEN /\ completion' = IF step[a] = "resolveTrue" THEN "true" ELSE "false"
                  /\ head' = Nil
                  /\ IF a = Caller   \* nobody else is at the list: reset at once
                     THEN /\ callback' = {}
                          /\ next' = [t \in Tasks |-> Nil]
                          /\ step' = [step EXCEPT ![a] = "wake"]
                          /\ UNCHANGED cursor
                     ELSE /\ cursor' = [cursor EXCEPT ![a] = head]
                          /\ step' = [step EXCEPT ![a] = "reset"]
                          /\ UNCHANGED <<callback, next>>
             ELSE /\ step' = [step EXCEPT ![a] = After(a)]
                  /\ UNCHANGED <<completion, cursor, head, callback, next>>
          /\ UNCHANGED dangling
  /\ UNCHANGED <<mode, ready, expired, subscribed, awaiter, counter, awoken, answer>>

\* CoreTaskLinkedList::reset(), one task of the list.
ResetTask(a) ==
  /\ step[a] = "reset"
  /\ IF cursor[a] = Nil
     THEN AgentGoto(a, "reset", "wake") /\ UNCHANGED <<cursor, next, callback>>
     ELSE /\ cursor' = [cursor EXCEPT ![a] = next[cursor[a]]]
          /\ next' = [next EXCEPT ![cursor[a]] = Nil]
          /\ callback' = callback \ {cursor[a]}
          /\ UNCHANGED step
  /\ UNCHANGED <<mode, ready, head, expired, subscribed, awaiter, counter,
                 completion, awoken, answer, dangling>>

\* taskSource.resolve(): a suspended coroutine goes on right here.
Wake(a) ==
  /\ step[a] = "wake"
  /\ awoken' = TRUE
  /\ IF step[Caller] = "suspended"
     THEN /\ step' = [step EXCEPT ![a] = After(a), ![Caller] = "done"]
          /\ answer' = completion
     ELSE /\ step' = [step EXCEPT ![a] = After(a)]
          /\ UNCHANGED answer
  /\ UNCHANGED <<mode, ready, callback, next, head, expired, subscribed, awaiter,
                 counter, completion, cursor, dangling>>

\* deleteDelayed: the default executor destroys the state; the destructor of
\* its subscription waits for a callback of the timer that is under way.
Delete ==
  /\ step[Caller] = "done" /\ awaiter = "alive"
  /\ step[TimerThread] \in {"idle", "done"}
  /\ awaiter' = "freed" /\ subscribed' = FALSE
  /\ UNCHANGED <<mode, ready, callback, next, head, expired, counter, completion,
                 awoken, step, cursor, answer, dangling>>

-----------------------------------------------------------------------------
(* whenAllInternal, whenAnyInternal *)

Return(a, value) ==
  /\ step' = [step EXCEPT ![Caller] = "done"]
  /\ answer' = value
  /\ head' = Nil /\ next' = [t \in Tasks |-> Nil]

\* Everything that is waited for is ready already.
CheckReady ==
  /\ step[Caller] = "check"
  /\ IF Satisfied THEN Return(Caller, "true")
     ELSE /\ step' = [step EXCEPT ![Caller] = "expiry"]
          /\ UNCHANGED <<answer, head, next>>
  /\ UNCHANGED <<mode, ready, callback, expired, subscribed, awaiter, counter,
                 completion, awoken, cursor, dangling>>

CheckExpired ==
  /\ step[Caller] = "expiry" /\ expired
  /\ Return(Caller, "false")
  /\ UNCHANGED <<mode, ready, callback, expired, subscribed, awaiter, counter,
                 completion, awoken, cursor, dangling>>

\* AwaiterState::create: subscribing to an expiration that is over by now
\* calls back at once.
Create ==
  /\ step[Caller] = "expiry" /\ ~expired
  /\ awaiter' = "alive" /\ counter' = Len(List)
  /\ \E late \in BOOLEAN :
       /\ subscribed' = ~late
       /\ expired' = late
       /\ step' = [step EXCEPT ![Caller] = IF late THEN "resolveFalse" ELSE "begin",
                               ![TimerThread] = IF late THEN "done" ELSE @]
       /\ late => step[TimerThread] = "idle"
  /\ UNCHANGED <<mode, ready, callback, next, head, completion, awoken, cursor,
                 answer, dangling>>

\* The loop over the tasks: its iterator is not protected from reset().
Begin ==
  /\ AgentGoto(Caller, "begin", IF head = Nil THEN "await" ELSE "register")
  /\ cursor' = [cursor EXCEPT ![Caller] = head]
  /\ UNCHANGED <<mode, ready, callback, next, head, expired, subscribed, awaiter,
                 counter, completion, awoken, answer, dangling>>

Register ==
  /\ step[Caller] = "register"
  /\ IF cursor[Caller] \in ready
     THEN step' = [step EXCEPT ![Caller] = "invoke"] /\ UNCHANGED callback
     ELSE /\ step' = [step EXCEPT ![Caller] = "advance"]
          /\ callback' = callback \cup {cursor[Caller]}
  /\ UNCHANGED <<mode, ready, next, head, expired, subscribed, awaiter, counter,
                 completion, awoken, cursor, answer, dangling>>

Advance ==
  /\ AgentGoto(Caller, "advance", IF next[cursor[Caller]] = Nil THEN "await" ELSE "register")
  /\ cursor' = [cursor EXCEPT ![Caller] = next[@]]
  /\ UNCHANGED <<mode, ready, callback, next, head, expired, subscribed, awaiter,
                 counter, completion, awoken, answer, dangling>>

Await ==
  /\ AgentGoto(Caller, "await", IF awoken THEN "done" ELSE "suspended")
  /\ answer' = IF awoken THEN completion ELSE answer
  /\ UNCHANGED <<mode, ready, callback, next, head, expired, subscribed, awaiter,
                 counter, completion, awoken, cursor, dangling>>

AgentStep(a) == Invoke(a) \/ Resolve(a) \/ ResetTask(a) \/ Wake(a)

CallerStep == \/ CheckReady \/ CheckExpired \/ Create \/ Begin \/ Register
              \/ Advance \/ Await

Environment == (\E t \in Tasks : Settle(t)) \/ Expire

GroupNext ==
  \/ Environment
  \/ \E t \in Tasks : Take(t)
  \/ \E a \in Agents : AgentStep(a)
  \/ CallerStep
  \/ Delete

\* Threads that are inside a call go on; nothing makes a task ready or the
\* expiration come.
Fairness ==
  /\ \A a \in Agents : WF_groupVars(AgentStep(a))
  /\ \A t \in Tasks : WF_groupVars(Take(t))
  /\ WF_groupVars(CallerStep)
  /\ WF_groupVars(Delete)

GroupSpec == GroupInit /\ [][GroupNext]_groupVars /\ Fairness

-----------------------------------------------------------------------------
(* Properties *)

\* What the callers of whenAll and whenAny rely on.
Contract == INSTANCE GroupContract
              WITH Tasks <- Tasks, Modes <- Modes, mode <- mode, ready <- ready,
                   expired <- expired, answer <- answer

\* whenAllInternal: when it answers TRUE, every callback has been used up and
\* nobody can come back to the deleted state of the awaiter.
AllReturnsClean ==
  mode = "all" /\ answer = "true" => callback = {} /\ ~dangling

\* The comment above AwaiterState: the list is reset before the answer, so
\* that no callback is set on a task right after the co_await.
ReturnsClean ==
  step[Caller] = "done" => callback = {} /\ (\A t \in Tasks : next[t] = Nil)

=============================================================================
