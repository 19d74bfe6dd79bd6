-------------------------- MODULE MultiTaskSource --------------------------
(***************************************************************************)
(* async::MultiTaskSource: one result for any number of tasks.  Its own    *)
(* task is renewed by emplace() and dropped by reset(), at any time and    *)
(* under the spin lock; resolve() and reject() settle it outside the lock, *)
(* holding no reference to it, and then, under the lock, answer the        *)
(* awaiters from the own task as it is by then.  Renewals are numbered by  *)
(* generation; the value of a resolution is the generation it settled.     *)
(***************************************************************************)
EXTENDS Naturals

CONSTANTS Getters,      \* callers of getNextTask
          Settlers,     \* callers of resolve and reject
          MaxGeneration, \* how often the source is renewed
          IsVoid        \* has the result no value

\* What the constants must satisfy.
RenewalsAssumption == MaxGeneration \in Nat \ {0} /\ IsVoid \in BOOLEAN

VARIABLES
  inner,       \* the generation of the own task, 0 after reset()
  generation,  \* the last one made
  settled,     \* the generations that are ready, each with how
  autoReset,   \* m_autoResetOnReady
  awaiters,    \* m_awaiters
  got,         \* the answer of each getter's task
  from,        \* the generation whose outcome that is, or whose settler made it up
  asked,       \* the generation that was there when it asked
  settler,     \* where each settler is, and the generation it settles
  overtaken    \* generations replaced while a settler of theirs was on its way
sourceVars == <<inner, generation, settled, autoReset, awaiters, got, from, asked,
                settler, overtaken>>

NoOne == [at |-> "idle", gen |-> 0, how |-> "none"]

SourceInit ==
  /\ inner = 1 /\ generation = 1
  /\ settled = [g \in 1..MaxGeneration |-> "no"]
  /\ autoReset = FALSE
  /\ awaiters = {}
  /\ got = [a \in Getters |-> "none"] /\ from = [a \in Getters |-> 0]
  /\ asked = [a \in Getters |-> 0]
  /\ settler = [s \in Settlers |-> NoOne]
  /\ overtaken = {}

OnTheirWay(some) ==
  {settler[s].gen : s \in {t \in some : settler[t].at \in {"settling", "leaving", "locking"}}}

\* The awaiters go away with their sources, which rejects them.
DropAwaiters ==
  /\ awaiters' = {}
  /\ got' = [a \in Getters |-> IF a \in awaiters THEN "dropped" ELSE got[a]]
  /\ overtaken' = overtaken \cup OnTheirWay(Settlers)

\* reset()
Reset ==
  /\ inner # 0 /\ inner' = 0
  /\ DropAwaiters
  /\ UNCHANGED <<generation, settled, autoReset, from, asked, settler>>

\* emplace()
Emplace ==
  /\ generation < MaxGeneration
  /\ generation' = generation + 1 /\ inner' = generation + 1
  /\ DropAwaiters
  /\ UNCHANGED <<settled, autoReset, from, asked, settler>>

SetAutoResetOnReady ==
  /\ autoReset' = ~autoReset
  /\ UNCHANGED <<inner, generation, settled, awaiters, got, from, asked, settler, overtaken>>

\* resolve() and reject(), which begin alike, look for the own task, outside the
\* lock; there is nothing to do without one.
Settle(s) ==
  /\ settler[s].at = "idle" /\ inner # 0
  /\ settler' = [settler EXCEPT ![s] = [at |-> "settling", gen |-> inner, how |-> "none"]]
  /\ UNCHANGED <<inner, generation, settled, autoReset, awaiters, got, from, asked, overtaken>>

\* CoreTask::tryResolve, which one settler of a generation gets past.  The
\* source had the only reference: a task that is not its own any more is freed.
TrySettle(s, how) ==
  /\ settler[s].at = "settling"
  /\ IF settler[s].gen # inner
     THEN settler' = [settler EXCEPT ![s].at = "broken"] /\ UNCHANGED settled
     ELSE IF settled[inner] # "no"
     THEN settler' = [settler EXCEPT ![s] = NoOne] /\ UNCHANGED settled
     ELSE /\ settled' = [settled EXCEPT ![inner] = how]
          /\ settler' = [settler EXCEPT ![s] = [at |-> "leaving", gen |-> inner, how |-> how]]
  /\ UNCHANGED <<inner, generation, autoReset, awaiters, got, from, asked, overtaken>>

\* It looks for a callback and a continuation of the task before it returns.
LeaveTask(s) ==
  /\ settler[s].at = "leaving"
  /\ settler' = [settler EXCEPT ![s].at = IF settler[s].gen = inner THEN "locking" ELSE "broken"]
  /\ UNCHANGED <<inner, generation, settled, autoReset, awaiters, got, from, asked, overtaken>>

\* What the awaiters get: the error at hand, or what the own task holds by now.
Answer(s) ==
  IF settler[s].how = "error" \/ IsVoid THEN <<settler[s].how, settler[s].gen>>
  ELSE IF settled[inner] = "value" THEN <<"value", inner>>
  ELSE <<"garbage", settler[s].gen>>

\* Under the lock: whoever waits by now is answered, and the own task of by now
\* dropped if that is wished.
SettleAwaiters(s) ==
  /\ settler[s].at = "locking" /\ (inner # 0 \/ settler[s].how = "error")
  /\ inner' = IF autoReset THEN 0 ELSE inner
  /\ overtaken' = IF autoReset THEN overtaken \cup OnTheirWay(Settlers \ {s}) ELSE overtaken
  /\ got' = [a \in Getters |-> IF a \in awaiters THEN Answer(s)[1] ELSE got[a]]
  /\ from' = [a \in Getters |-> IF a \in awaiters THEN Answer(s)[2] ELSE from[a]]
  /\ awaiters' = {}
  /\ settler' = [settler EXCEPT ![s] = NoOne]
  /\ UNCHANGED <<generation, settled, autoReset, asked>>

\* resolve() takes the data of the own task even if there is none any more.
TakeNoData(s) ==
  /\ settler[s].at = "locking" /\ settler[s].how = "value" /\ inner = 0
  /\ settler' = [settler EXCEPT ![s].at = "broken"]
  /\ UNCHANGED <<inner, generation, settled, autoReset, awaiters, got, from, asked, overtaken>>

\* A mutant of GetNextTask: whoever comes is made an awaiter.
GetNextTaskUnseen(a) ==
  /\ asked[a] = 0 /\ got[a] = "none" /\ inner # 0
  /\ asked' = [asked EXCEPT ![a] = inner] /\ awaiters' = awaiters \cup {a}
  /\ UNCHANGED <<inner, generation, settled, autoReset, got, from, settler, overtaken>>

\* getNextTask(): an awaiter, or a task that is ready.
GetNextTask(a) ==
  /\ asked[a] = 0 /\ got[a] = "none"
  /\ IF inner = 0
     THEN got' = [got EXCEPT ![a] = "invalid"] /\ UNCHANGED <<awaiters, asked, from>>
     ELSE /\ asked' = [asked EXCEPT ![a] = inner]
          /\ IF settled[inner] = "no"
             THEN awaiters' = awaiters \cup {a} /\ UNCHANGED <<got, from>>
             ELSE /\ got' = [got EXCEPT ![a] = settled[inner]]
                  /\ from' = [from EXCEPT ![a] = inner] /\ UNCHANGED awaiters
  /\ UNCHANGED <<inner, generation, settled, autoReset, settler, overtaken>>

SettlerStep(s) ==
  \/ Settle(s) \/ \E how \in {"value", "error"} : TrySettle(s, how)
  \/ LeaveTask(s) \/ SettleAwaiters(s) \/ TakeNoData(s)

\* The model ends where the behaviour of the program is undefined.
SourceNext ==
  /\ \A s \in Settlers : settler[s].at # "broken"
  /\ \/ Reset \/ Emplace \/ SetAutoResetOnReady
     \/ \E s \in Settlers : SettlerStep(s)
     \/ \E a \in Getters : GetNextTask(a)

-----------------------------------------------------------------------------
\* Nobody is left waiting: who has asked and has no answer is an awaiter of the
\* own task there is, and if that is settled its settler is still on its way to
\* the awaiters; who has an answer is no awaiter any more.
NobodyIsLeftWaiting ==
  /\ \A a \in Getters : a \in awaiters <=> asked[a] # 0 /\ got[a] = "none"
  /\ \A a \in awaiters :
       /\ asked[a] = inner
       /\ settled[inner] # "no" =>
            \E s \in Settlers : settler[s].gen = inner /\ settler[s].at \in {"leaving", "locking"}

\* A task gets the outcome of the generation it was asked of.  There is one way
\* to get another, or nothing that was ever a value: its generation has replaced
\* an earlier one on whose settling a settler was; it is never of a later one.
AnswersAreOwnOrOvertaken ==
  \A a \in Getters : got[a] \in {"value", "error", "garbage"} =>
    \/ from[a] = asked[a] /\ settled[asked[a]] = got[a]
    \/ /\ from[a] \in overtaken /\ from[a] < asked[a]
       /\ settled[from[a]] = IF got[a] = "error" THEN "error" ELSE "value"

\* And there is one way to use a task that is gone: reset(), emplace() or the
\* automatic reset of another settler came while a settler was on its way.
OnlyTheOvertakenBreak ==
  \A s \in Settlers : settler[s].at = "broken" => settler[s].gen \in overtaken

AwaitersAreAnswered == NobodyIsLeftWaiting /\ AnswersAreOwnOrOvertaken /\ OnlyTheOvertakenBreak

=============================================================================
