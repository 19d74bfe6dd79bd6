---------------------------- MODULE Parts_proofs -----------------------------
(***************************************************************************)
(* Inductive invariants, for all values of the constants, of parts that do *)
(* not know of each other: the source of one result for many tasks, the    *)
(* registry of runtime objects, the breakpoints and the variables of a     *)
(* debug session, the native values of Lua objects, and the counters of    *)
(* references.  For each part: the invariant by its named conjuncts, that  *)
(* it holds initially, that each action keeps it, and what follows.        *)
(***************************************************************************)
EXTENDS MultiTaskSource, ObjectRegistry, LuaDebugger, LuaValues, RefCount, FiniteSetTheorems,
        TLAPS

-----------------------------------------------------------------------------
(***************************************************************************)
(* For any number of callers and renewals, coming at any time.  What a     *)
(* settler on its way knows of its generation is what makes an answer one  *)
(* of the generation asked of, or of one that was overtaken before it.     *)
(***************************************************************************)
Places == {"idle", "settling", "leaving", "locking", "broken"}
SourceTypes ==
  /\ generation \in 1..MaxGeneration /\ inner \in {0, generation}
  /\ settled \in [1..MaxGeneration -> {"no", "value", "error"}]
  /\ autoReset \in BOOLEAN /\ awaiters \subseteq Getters
  /\ got \in [Getters -> {"none", "dropped", "invalid", "value", "error", "garbage"}]
  /\ from \in [Getters -> 0..MaxGeneration] /\ asked \in [Getters -> 0..MaxGeneration]
  /\ settler \in [Settlers -> [at : Places, gen : 0..MaxGeneration,
                               how : {"none", "value", "error"}]]
  /\ overtaken \subseteq 1..MaxGeneration

\* A settler on its way settles the own task there is, or has been overtaken.
Known(s) ==
  /\ settler[s].at \in {"settling", "leaving", "locking"} =>
       /\ settler[s].gen \in 1..generation
       /\ settler[s].gen = inner \/ settler[s].gen \in overtaken
  /\ settler[s].at \in {"leaving", "locking"} =>
       settled[settler[s].gen] = settler[s].how /\ settler[s].how \in {"value", "error"}
SettlersKnown == \A s \in Settlers : Known(s)

\* Who has an answer has asked, and the answer is what the property says.
AnswersKnown ==
  \A a \in Getters : got[a] \in {"value", "error", "garbage"} =>
    /\ asked[a] # 0
    /\ \/ from[a] = asked[a] /\ settled[asked[a]] = got[a]
       \/ /\ from[a] \in overtaken /\ from[a] < asked[a]
          /\ settled[from[a]] = IF got[a] = "error" THEN "error" ELSE "value"

SourceInv ==
  SourceTypes /\ SettlersKnown /\ AnswersKnown /\ NobodyIsLeftWaiting /\ OnlyTheOvertakenBreak

\* The invariant holds of a new source.
LEMMA SourceInitially ==
  ASSUME RenewalsAssumption, SourceInit
  PROVE  SourceInv
<1> USE DEF RenewalsAssumption
<1>1. settler \in [Settlers -> [at : Places, gen : 0..MaxGeneration, how : {"none", "value", "error"}]]
  BY DEF SourceInit, NoOne, Places
<1>2. SourceTypes
  <2>1. autoReset \in BOOLEAN
    BY DEF SourceInit
  <2>2. /\ generation \in 1..MaxGeneration /\ inner \in {0, generation}
        /\ settled \in [1..MaxGeneration -> {"no", "value", "error"}]
        /\ awaiters \subseteq Getters /\ overtaken \subseteq 1..MaxGeneration
    BY DEF SourceInit
  <2>3. /\ got \in [Getters -> {"none", "dropped", "invalid", "value", "error", "garbage"}]
        /\ from \in [Getters -> 0..MaxGeneration] /\ asked \in [Getters -> 0..MaxGeneration]
    BY DEF SourceInit
  <2> QED BY <1>1, <2>1, <2>2, <2>3 DEF SourceTypes
<1>3. \A s \in Settlers : settler[s].at = "idle"
  BY DEF SourceInit, NoOne
<1>4. SettlersKnown /\ OnlyTheOvertakenBreak
  BY <1>3 DEF SettlersKnown, Known, OnlyTheOvertakenBreak
<1>5. AnswersKnown /\ NobodyIsLeftWaiting
  BY DEF SourceInit, AnswersKnown, NobodyIsLeftWaiting
<1> QED BY <1>2, <1>4, <1>5 DEF SourceInv

\* reset() and emplace() keep the invariant: whoever was on its way is overtaken.
LEMMA RenewalKeepsSourceInv ==
  ASSUME RenewalsAssumption, SourceInv, Reset \/ Emplace
  PROVE  SourceInv'
<1> USE DEF SourceInv, RenewalsAssumption
<1>1. /\ awaiters' = {} /\ overtaken' = overtaken \cup OnTheirWay(Settlers)
      /\ got' = [a \in Getters |-> IF a \in awaiters THEN "dropped" ELSE got[a]]
      /\ UNCHANGED <<settled, autoReset, from, asked, settler>>
      /\ generation' \in generation..MaxGeneration /\ inner' \in {0, generation'}
  BY DEF Reset, Emplace, DropAwaiters, SourceTypes
<1>2. \A s \in Settlers : settler[s].at \in {"settling", "leaving", "locking"} =>
        settler[s].gen \in OnTheirWay(Settlers)
  BY DEF OnTheirWay
<1>3. OnTheirWay(Settlers) \subseteq 1..MaxGeneration
  BY DEF OnTheirWay, SettlersKnown, Known, SourceTypes
<1>4. SourceTypes'
  <2>1. generation' \in 1..MaxGeneration /\ inner' \in {0, generation'}
    BY <1>1 DEF SourceTypes
  <2>3. overtaken' \subseteq 1..MaxGeneration
    BY <1>1, <1>3 DEF SourceTypes
  <2>2. got' \in [Getters -> {"none", "dropped", "invalid", "value", "error", "garbage"}]
    BY <1>1 DEF SourceTypes
  <2> QED BY <1>1, <2>1, <2>2, <2>3 DEF SourceTypes
<1>5. SettlersKnown'
  BY <1>1, <1>2 DEF SettlersKnown, Known, SourceTypes
<1>6. AnswersKnown'
  BY <1>1 DEF AnswersKnown, SourceTypes
<1>7. NobodyIsLeftWaiting' /\ OnlyTheOvertakenBreak'
  BY <1>1 DEF NobodyIsLeftWaiting, OnlyTheOvertakenBreak
<1> QED BY <1>4, <1>5, <1>6, <1>7

\* A settler that goes from one place to another keeps the invariant, if it is
\* known there.
LEMMA SettlerMoves ==
  ASSUME RenewalsAssumption, SourceInv, NEW s \in Settlers,
         NEW p \in [at : Places, gen : 0..MaxGeneration, how : {"none", "value", "error"}],
         settler' = [settler EXCEPT ![s] = p],
         UNCHANGED <<inner, generation, settled, awaiters, got, from, asked, overtaken>>,
         autoReset' \in BOOLEAN,
         p.at = "settling" => p.gen = inner /\ inner # 0,
         p.at \in {"leaving", "locking"} =>
           settler[s].at \in {"leaving", "locking"} /\ settler[s].gen = p.gen /\ settler[s].how = p.how,
         settler[s].at \in {"leaving", "locking"} =>
           p.at \in {"leaving", "locking"} \/ settler[s].gen # inner,
         p.at = "broken" => p.gen \in overtaken
  PROVE  SourceInv'
<1> USE DEF SourceInv, RenewalsAssumption
<1>1. \A t \in Settlers : settler'[t] = IF t = s THEN p ELSE settler[t]
  BY DEF SourceTypes
<1>2. SourceTypes'
  BY DEF SourceTypes
<1>3. SettlersKnown'
  <2> SUFFICES ASSUME NEW t \in Settlers PROVE Known(t)'
    BY DEF SettlersKnown
  <2>1. CASE t # s
    BY <1>1, <2>1 DEF SettlersKnown, Known
  <2>2. CASE t = s /\ p.at = "settling"
    BY <1>1, <2>2 DEF SettlersKnown, Known, SourceTypes
  <2>3. CASE t = s /\ p.at # "settling"
    BY <1>1, <2>3 DEF SettlersKnown, Known
  <2> QED BY <2>1, <2>2, <2>3
<1>4. AnswersKnown'
  BY DEF AnswersKnown
<1>5. NobodyIsLeftWaiting'
  <2>1. ASSUME NEW a \in awaiters, settled[inner] # "no"
        PROVE  \E t \in Settlers : settler'[t].gen = inner /\ settler'[t].at \in {"leaving", "locking"}
    <3>1. PICK t \in Settlers : settler[t].gen = inner /\ settler[t].at \in {"leaving", "locking"}
      BY <2>1 DEF NobodyIsLeftWaiting
    <3>2. CASE t # s
      BY <1>1, <3>1, <3>2
    <3>3. CASE t = s /\ p.at \in {"leaving", "locking"}
      BY <1>1, <3>1, <3>3
    <3> QED BY <3>1, <3>2, <3>3
  <2> QED BY <2>1 DEF NobodyIsLeftWaiting
<1>6. OnlyTheOvertakenBreak'
  BY <1>1 DEF OnlyTheOvertakenBreak
<1> QED BY <1>2, <1>3, <1>4, <1>5, <1>6

\* What a settler does before the lock keeps the invariant.
LEMMA BeforeTheLockKeepsSourceInv ==
  ASSUME RenewalsAssumption, SourceInv, NEW s \in Settlers,
         \/ Settle(s) \/ \E how \in {"value", "error"} : TrySettle(s, how)
         \/ LeaveTask(s) \/ TakeNoData(s)
  PROVE  SourceInv'
<1> USE DEF RenewalsAssumption
<1>1. /\ settler[s] \in [at : Places, gen : 0..MaxGeneration, how : {"none", "value", "error"}]
      /\ inner \in 0..MaxGeneration /\ autoReset \in BOOLEAN
  BY DEF SourceInv, SourceTypes
<1>2. ASSUME Settle(s) PROVE SourceInv'
  <2> DEFINE p == [at |-> "settling", gen |-> inner, how |-> "none"]
  <2>1. p \in [at : Places, gen : 0..MaxGeneration, how : {"none", "value", "error"}]
    BY <1>1 DEF Places
  <2>2. settler' = [settler EXCEPT ![s] = p] /\ settler[s].at = "idle" /\ inner # 0
    BY <1>2 DEF Settle
  <2> QED BY <1>1, <1>2, <2>1, <2>2, SettlerMoves DEF Settle
<1>3. ASSUME NEW how \in {"value", "error"}, TrySettle(s, how),
             settler[s].gen # inner \/ settled[inner] # "no"
      PROVE  SourceInv'
  <2>1. settler[s].gen # inner => settler[s].gen \in overtaken
    BY <1>3 DEF TrySettle, SourceInv, SettlersKnown, Known
  <2> DEFINE p == IF settler[s].gen # inner THEN [settler[s] EXCEPT !.at = "broken"] ELSE NoOne
  <2>2. p \in [at : Places, gen : 0..MaxGeneration, how : {"none", "value", "error"}]
        /\ p.at \in {"broken", "idle"} /\ (p.at = "broken" => p.gen \in overtaken)
    BY <1>1, <2>1 DEF Places, NoOne
  <2>3. settler' = [settler EXCEPT ![s] = p] /\ settler[s].at = "settling"
    BY <1>3 DEF TrySettle, SourceInv, SourceTypes
  <2>4. UNCHANGED <<inner, generation, settled, autoReset, awaiters, got, from, asked, overtaken>>
    BY <1>3 DEF TrySettle
  <2> HIDE DEF p
  <2> QED BY <1>1, <2>2, <2>3, <2>4, SettlerMoves
<1>4. ASSUME NEW how \in {"value", "error"}, TrySettle(s, how),
             settler[s].gen = inner, settled[inner] = "no"
      PROVE  SourceInv'
  <2> USE DEF SourceInv
  <2>1. /\ settler[s].at = "settling" /\ settler[s].gen \in 1..MaxGeneration
        /\ inner # 0
    BY <1>4 DEF TrySettle, SettlersKnown, Known, SourceTypes
  <2>2. /\ settled' = [settled EXCEPT ![inner] = how]
        /\ settler' = [settler EXCEPT ![s] = [at |-> "leaving", gen |-> inner, how |-> how]]
        /\ UNCHANGED <<inner, generation, autoReset, awaiters, got, from, asked, overtaken>>
    BY <1>4 DEF TrySettle
  <2>3. \A t \in Settlers : /\ settler'[t].gen = settler[t].gen
                            /\ settler'[t].how = IF t = s THEN how ELSE settler[t].how
                            /\ settler'[t].at = IF t = s THEN "leaving" ELSE settler[t].at
    BY <1>4, <2>2 DEF SourceTypes
  <2>4. \A g \in 1..MaxGeneration : settled'[g] = IF g = inner THEN how ELSE settled[g]
    BY <2>2 DEF SourceTypes
  <2>5. SourceTypes'
    BY <2>1, <2>2 DEF SourceTypes, Places
  <2>6. SettlersKnown'
    <3> SUFFICES ASSUME NEW t \in Settlers PROVE Known(t)'
      BY DEF SettlersKnown
    <3>1. CASE t = s
      BY <1>4, <2>1, <2>2, <2>3, <2>4, <3>1 DEF SettlersKnown, Known, SourceTypes
    <3>2. CASE t # s
      <4>1. settler[t].at \in {"leaving", "locking"} =>
              settler[t].gen \in 1..MaxGeneration /\ settler[t].gen # inner
        BY <1>4 DEF SettlersKnown, Known, SourceTypes
      <4> QED BY <2>2, <2>3, <2>4, <3>2, <4>1 DEF SettlersKnown, Known
    <3> QED BY <3>1, <3>2
  <2>7. AnswersKnown'
    BY <1>4, <2>2, <2>4 DEF AnswersKnown, SourceTypes
  <2>8. NobodyIsLeftWaiting'
    BY <1>4, <2>2, <2>3 DEF NobodyIsLeftWaiting
  <2>9. OnlyTheOvertakenBreak'
    BY <2>2, <2>3 DEF OnlyTheOvertakenBreak
  <2> QED BY <2>5, <2>6, <2>7, <2>8, <2>9
<1>5. ASSUME LeaveTask(s) \/ TakeNoData(s) PROVE SourceInv'
  <2>1. /\ settler[s].at \in {"leaving", "locking"}
        /\ \/ settler[s].gen = inner /\ settler' = [settler EXCEPT ![s].at = "locking"]
           \/ settler[s].gen # inner /\ settler' = [settler EXCEPT ![s].at = "broken"]
        /\ UNCHANGED <<inner, generation, settled, autoReset, awaiters, got, from, asked, overtaken>>
    BY <1>5 DEF LeaveTask, TakeNoData, SourceInv, SettlersKnown, Known
  <2>2. settler[s].gen # inner => settler[s].gen \in overtaken
    BY <2>1 DEF SourceInv, SettlersKnown, Known
  <2> DEFINE p == [settler[s] EXCEPT !.at = IF settler[s].gen = inner THEN "locking" ELSE "broken"]
  <2>3. p \in [at : Places, gen : 0..MaxGeneration, how : {"none", "value", "error"}]
        /\ p.gen = settler[s].gen /\ p.how = settler[s].how
        /\ p.at = IF settler[s].gen = inner THEN "locking" ELSE "broken"
    BY <1>1 DEF Places
  <2>4. settler' = [settler EXCEPT ![s] = p]
    BY <2>1 DEF SourceInv, SourceTypes
  <2> HIDE DEF p
  <2> QED BY <1>1, <2>1, <2>2, <2>3, <2>4, SettlerMoves
<1> QED BY <1>2, <1>3, <1>4, <1>5 DEF TrySettle

\* Answering the awaiters keeps the invariant: a settler that finds another task
\* than its own has been overtaken, and that task is a later one.
LEMMA SettleAwaitersKeepsSourceInv ==
  ASSUME RenewalsAssumption, SourceInv, NEW s \in Settlers, SettleAwaiters(s)
  PROVE  SourceInv'
<1> USE DEF SourceInv, RenewalsAssumption
<1>1. /\ settler[s].gen \in 1..generation /\ settler[s].how \in {"value", "error"}
      /\ settled[settler[s].gen] = settler[s].how
      /\ settler[s].gen = inner \/ settler[s].gen \in overtaken
  BY DEF SettleAwaiters, SettlersKnown, Known
<1>2. /\ inner' \in {0, inner} /\ awaiters' = {}
      /\ settler' = [settler EXCEPT ![s] = NoOne]
      /\ got' = [a \in Getters |-> IF a \in awaiters THEN Answer(s)[1] ELSE got[a]]
      /\ from' = [a \in Getters |-> IF a \in awaiters THEN Answer(s)[2] ELSE from[a]]
      /\ UNCHANGED <<generation, settled, autoReset, asked>>
  BY DEF SettleAwaiters
<1>3. /\ overtaken' \subseteq 1..MaxGeneration /\ overtaken \subseteq overtaken'
      /\ \A t \in Settlers \ {s} : settler[t].at \in {"settling", "leaving", "locking"} =>
           settler[t].gen = inner' \/ settler[t].gen \in overtaken'
  <2>1. \A t \in Settlers \ {s} : settler[t].at \in {"settling", "leaving", "locking"} =>
          settler[t].gen \in OnTheirWay(Settlers \ {s})
    BY DEF OnTheirWay
  <2>2. OnTheirWay(Settlers \ {s}) \subseteq 1..MaxGeneration
    BY DEF OnTheirWay, SettlersKnown, Known, SourceTypes
  <2> QED BY <2>1, <2>2 DEF SettleAwaiters, SettlersKnown, Known, SourceTypes
<1>4. /\ Answer(s)[1] \in {"value", "error", "garbage"} /\ Answer(s)[2] \in 0..MaxGeneration
      /\ inner # 0 =>
           \/ Answer(s)[2] = inner /\ settled[inner] = Answer(s)[1]
           \/ /\ Answer(s)[2] \in overtaken /\ Answer(s)[2] < inner
              /\ settled[Answer(s)[2]] = IF Answer(s)[1] = "error" THEN "error" ELSE "value"
  <2>1. inner # 0 => settler[s].gen = inner \/ (settler[s].gen < inner /\ settler[s].gen \in overtaken)
    BY <1>1 DEF SourceTypes
  <2>2. inner \in 0..MaxGeneration /\ settler[s].gen \in 0..MaxGeneration
    BY DEF SourceTypes
  <2>3. CASE settler[s].how = "error" \/ IsVoid
    BY <1>1, <2>1, <2>2, <2>3 DEF Answer
  <2>4. CASE ~(settler[s].how = "error" \/ IsVoid) /\ settled[inner] = "value"
    BY <2>2, <2>4 DEF Answer
  <2>5. CASE ~(settler[s].how = "error" \/ IsVoid) /\ settled[inner] # "value"
    BY <1>1, <2>1, <2>2, <2>5 DEF Answer
  <2> QED BY <2>3, <2>4, <2>5
<1>5. SourceTypes'
  <2>1. settler' \in [Settlers -> [at : Places, gen : 0..MaxGeneration,
                                  how : {"none", "value", "error"}]]
    BY <1>2 DEF SourceTypes, Places, NoOne
  <2>2. /\ got' \in [Getters -> {"none", "dropped", "invalid", "value", "error", "garbage"}]
        /\ from' \in [Getters -> 0..MaxGeneration]
    BY <1>2, <1>4 DEF SourceTypes
  <2> QED BY <1>2, <1>3, <2>1, <2>2 DEF SourceTypes
<1>6. \A t \in Settlers : settler'[t] = IF t = s THEN NoOne ELSE settler[t]
  BY <1>2 DEF SourceTypes
<1>7. SettlersKnown'
  <2> SUFFICES ASSUME NEW t \in Settlers PROVE Known(t)'
    BY DEF SettlersKnown
  <2>1. CASE t = s
    BY <1>6, <2>1 DEF NoOne, Known
  <2>2. CASE t # s
    BY <1>2, <1>3, <1>6, <2>2 DEF SettlersKnown, Known
  <2> QED BY <2>1, <2>2
<1>8. AnswersKnown'
  <2> SUFFICES ASSUME NEW a \in Getters, got'[a] \in {"value", "error", "garbage"}
               PROVE  /\ asked[a] # 0
                      /\ \/ from'[a] = asked[a] /\ settled[asked[a]] = got'[a]
                         \/ /\ from'[a] \in overtaken' /\ from'[a] < asked[a]
                            /\ settled[from'[a]] = IF got'[a] = "error" THEN "error" ELSE "value"
    BY <1>2 DEF AnswersKnown
  <2>1. CASE a \in awaiters
    <3>1. asked[a] = inner /\ inner # 0 /\ got'[a] = Answer(s)[1] /\ from'[a] = Answer(s)[2]
      BY <1>2, <2>1 DEF NobodyIsLeftWaiting
    <3> QED BY <1>3, <1>4, <3>1
  <2>2. CASE a \notin awaiters
    BY <1>2, <1>3, <2>2 DEF AnswersKnown
  <2> QED BY <2>1, <2>2
<1>9. NobodyIsLeftWaiting'
  <2>1. \A a \in Getters : a \in awaiters => got'[a] # "none"
    BY <1>2, <1>4
  <2> QED BY <1>2, <2>1 DEF NobodyIsLeftWaiting
<1>10. OnlyTheOvertakenBreak'
  <2>1. \A t \in Settlers : settler'[t].at = "broken" => t # s
    BY <1>6 DEF NoOne
  <2> QED BY <1>3, <1>6, <2>1 DEF OnlyTheOvertakenBreak
<1> QED BY <1>5, <1>7, <1>8, <1>9, <1>10

\* Asking for a task keeps the invariant.
LEMMA GetNextTaskKeepsSourceInv ==
  ASSUME RenewalsAssumption, SourceInv, NEW a \in Getters, GetNextTask(a)
  PROVE  SourceInv'
<1> USE DEF SourceInv, RenewalsAssumption
<1>1. SourceTypes'
  <2>0. inner \in 0..MaxGeneration /\ (inner # 0 => settled[inner] \in {"no", "value", "error"})
    BY DEF SourceTypes
  <2>1. got' \in [Getters -> {"none", "dropped", "invalid", "value", "error", "garbage"}]
    <3>1. \E v \in {"invalid", "value", "error"} : got' \in {got, [got EXCEPT ![a] = v]}
      BY <2>0 DEF GetNextTask
    <3> QED BY <3>1 DEF SourceTypes
  <2>2. /\ from' \in [Getters -> 0..MaxGeneration] /\ asked' \in [Getters -> 0..MaxGeneration]
        /\ awaiters' \subseteq Getters
    <3>1. /\ from' \in {from, [from EXCEPT ![a] = inner]} /\ asked' \in {asked, [asked EXCEPT ![a] = inner]}
          /\ awaiters' \in {awaiters, awaiters \cup {a}}
      BY DEF GetNextTask
    <3> QED BY <2>0, <3>1 DEF SourceTypes
  <2>3. UNCHANGED <<inner, generation, settled, autoReset, settler, overtaken>>
    BY DEF GetNextTask
  <2> QED BY <2>1, <2>2, <2>3 DEF SourceTypes
<1>2. AnswersKnown'
  <2>1. CASE inner = 0
    <3>1. got' = [got EXCEPT ![a] = "invalid"] /\ UNCHANGED <<asked, from, settled, overtaken>>
      BY <2>1 DEF GetNextTask
    <3> QED BY <3>1 DEF SourceTypes, AnswersKnown
  <2>2. CASE inner # 0 /\ settled[inner] = "no"
    <3>1. /\ got[a] = "none" /\ asked' = [asked EXCEPT ![a] = inner]
          /\ UNCHANGED <<got, from, settled, overtaken>>
      BY <2>2 DEF GetNextTask
    <3> QED BY <3>1 DEF SourceTypes, AnswersKnown
  <2>3. CASE inner # 0 /\ settled[inner] # "no"
    <3>1. /\ asked' = [asked EXCEPT ![a] = inner] /\ got' = [got EXCEPT ![a] = settled[inner]]
          /\ from' = [from EXCEPT ![a] = inner] /\ UNCHANGED <<settled, overtaken>>
      BY <2>3 DEF GetNextTask
    <3> QED BY <2>3, <3>1 DEF SourceTypes, AnswersKnown
  <2> QED BY <2>1, <2>2, <2>3
<1>3. NobodyIsLeftWaiting'
  <2>1. UNCHANGED <<inner, settled, settler>> /\ asked[a] = 0 /\ a \notin awaiters
    BY DEF GetNextTask, NobodyIsLeftWaiting
  <2>2. CASE inner = 0 \/ settled[inner] # "no"
    <3>1. \A b \in Getters : b # a => got'[b] = got[b] /\ asked'[b] = asked[b]
      BY <2>2 DEF GetNextTask, SourceTypes
    <3>2. awaiters' = awaiters /\ (asked'[a] = 0 \/ got'[a] # "none")
      <4>1. CASE inner = 0
        BY <2>1, <4>1 DEF GetNextTask
      <4>2. CASE inner # 0
        <5>1. settled[inner] \in {"value", "error"}
          BY <2>2, <4>2 DEF SourceTypes
        <5>2. awaiters' = awaiters /\ got' = [got EXCEPT ![a] = settled[inner]]
          BY <2>2, <4>2 DEF GetNextTask
        <5> QED BY <5>1, <5>2 DEF SourceTypes
      <4> QED BY <4>1, <4>2
    <3> QED BY <2>1, <3>1, <3>2 DEF NobodyIsLeftWaiting, SourceTypes
  <2>3. CASE inner # 0 /\ settled[inner] = "no"
    <3>1. /\ asked' = [asked EXCEPT ![a] = inner] /\ awaiters' = awaiters \cup {a} /\ got' = got
          /\ got[a] = "none"
      BY <2>3 DEF GetNextTask
    <3> QED BY <2>1, <2>3, <3>1 DEF NobodyIsLeftWaiting, SourceTypes
  <2> QED BY <2>2, <2>3
<1>4. SettlersKnown' /\ OnlyTheOvertakenBreak'
  BY DEF GetNextTask, SettlersKnown, Known, OnlyTheOvertakenBreak
<1> QED BY <1>1, <1>2, <1>3, <1>4

\* So does every step.
LEMMA StepKeepsSourceInv ==
  ASSUME RenewalsAssumption, SourceInv, [SourceNext]_sourceVars
  PROVE  SourceInv'
<1>1. CASE Reset \/ Emplace
  BY <1>1, RenewalKeepsSourceInv
<1>2. ASSUME NEW s \in Settlers, SettlerStep(s) PROVE SourceInv'
  BY <1>2, BeforeTheLockKeepsSourceInv, SettleAwaitersKeepsSourceInv DEF SettlerStep
<1>3. ASSUME NEW a \in Getters, GetNextTask(a) PROVE SourceInv'
  BY <1>3, GetNextTaskKeepsSourceInv
<1>4. CASE SetAutoResetOnReady \/ UNCHANGED sourceVars
  <2>1. /\ UNCHANGED <<inner, generation, settled, awaiters, got, from, asked, settler, overtaken>>
        /\ autoReset' \in BOOLEAN
    BY <1>4 DEF SetAutoResetOnReady, sourceVars, SourceInv, SourceTypes
  <2> QED BY <2>1 DEF SourceInv, SourceTypes, SettlersKnown, Known, AnswersKnown,
                      NobodyIsLeftWaiting, OnlyTheOvertakenBreak
<1> QED BY <1>1, <1>2, <1>3, <1>4 DEF SourceNext

\* And it is what the awaiters rely on.
LEMMA AwaitersRelyOn ==
  ASSUME SourceInv
  PROVE  AwaitersAreAnswered
BY DEF SourceInv, AnswersKnown, AwaitersAreAnswered, AnswersAreOwnOrOvertaken

-----------------------------------------------------------------------------
(***************************************************************************)
(* The registry of runtime objects.  A visit walks over entries that others*)
(* and itself remove; it reaches everyone because an object that it awaits *)
(* and that is still referred to is locked, or stands at the index or      *)
(* behind it.                                                              *)
(***************************************************************************)
RegistryTypes ==
  /\ entries \in Seq(Objects) /\ refs \subseteq Objects /\ locked \subseteq Objects
  /\ life \in [Objects -> {"new", "alive", "dying", "dead"}]
  /\ visit \in {"idle", "collect", "drop", "release"} /\ index \in Nat
  /\ visit # "idle" => index \in Nat \ {0}
  /\ awaited \subseteq Wanted /\ disturbed \in BOOLEAN

\* Whoever is referred to is alive, by somebody else or by the visit.
ReferredIsAlive ==
  /\ \A o \in refs : life[o] = "alive"
  /\ \A o \in Weakly \cap locked : life[o] = "alive"

\* Where an object stands that the visit has still to reach.
StandsBehind(o) == \E i \in DOMAIN entries : i >= index /\ entries[i] = o

AwaitedIsReached ==
  ~disturbed =>
    /\ visit \in {"collect", "drop"} => \A o \in awaited \cap refs : o \in locked \/ StandsBehind(o)
    /\ visit = "release" => awaited \cap refs \subseteq visited

\* What is dropped is of another type.
DroppedIsOther == visit = "drop" => index \in DOMAIN entries /\ Current \notin Wanted

RegistryInv == RegistryTypes /\ ReferredIsAlive /\ AwaitedIsReached /\ DroppedIsOther

\* An empty registry.
LEMMA RegistryInitially ==
  ASSUME RegistryAssumption, RegistryInit
  PROVE  RegistryInv
<1>1. disturbed \in BOOLEAN
  BY DEF RegistryInit
<1>2. RegistryTypes
  BY <1>1 DEF RegistryInit, RegistryTypes
<1>3. ReferredIsAlive /\ AwaitedIsReached /\ DroppedIsOther
  BY DEF RegistryInit, ReferredIsAlive, AwaitedIsReached, DroppedIsOther
<1> QED BY <1>2, <1>3 DEF RegistryInv

\* Removing an entry moves the last one to its place: whoever stood from there on, but
\* for the removed, still does.
LEMMA RemovedAtKeeps ==
  ASSUME NEW S, NEW list \in Seq(S), NEW i \in DOMAIN list
  PROVE  /\ RemovedAt(list, i) \in Seq(S)
         /\ \A n \in Nat, j \in DOMAIN list : n <= i /\ j >= n /\ j # i =>
              \E k \in DOMAIN RemovedAt(list, i) : k >= n /\ RemovedAt(list, i)[k] = list[j]
<1>1. Len(list) \in Nat \ {0} /\ DOMAIN list = 1..Len(list)
  OBVIOUS
<1>2. CASE i = Len(list)
  <2>1. RemovedAt(list, i) = SubSeq(list, 1, Len(list) - 1)
    BY <1>2 DEF RemovedAt, Front
  <2>2. RemovedAt(list, i) \in Seq(S) /\ Len(RemovedAt(list, i)) = Len(list) - 1
        /\ \A k \in 1..(Len(list) - 1) : RemovedAt(list, i)[k] = list[k]
    BY <2>1, <1>1
  <2>3. ASSUME NEW n \in Nat, NEW j \in DOMAIN list, n <= i, j >= n, j # i
        PROVE  j \in DOMAIN RemovedAt(list, i) /\ RemovedAt(list, i)[j] = list[j]
    BY <1>1, <1>2, <2>2, <2>3
  <2> QED BY <2>2, <2>3
<1>3. CASE i # Len(list)
  <2> DEFINE moved == [list EXCEPT ![i] = list[Len(list)]]
  <2>1. moved \in Seq(S) /\ Len(moved) = Len(list)
        /\ \A k \in 1..Len(list) : moved[k] = IF k = i THEN list[Len(list)] ELSE list[k]
    BY <1>1
  <2>2. RemovedAt(list, i) = SubSeq(moved, 1, Len(moved) - 1)
    BY <1>3 DEF RemovedAt, Front, Last
  <2> HIDE DEF moved
  <2>3. RemovedAt(list, i) \in Seq(S) /\ Len(RemovedAt(list, i)) = Len(list) - 1
        /\ \A k \in 1..(Len(list) - 1) : RemovedAt(list, i)[k] = moved[k]
    BY <2>1, <2>2, <1>1
  <2>4. ASSUME NEW n \in Nat, NEW j \in DOMAIN list, n <= i, j >= n, j # i
        PROVE  \E k \in DOMAIN RemovedAt(list, i) : k >= n /\ RemovedAt(list, i)[k] = list[j]
    <3>1. CASE j = Len(list)
      <4>1. i \in 1..(Len(list) - 1) /\ RemovedAt(list, i)[i] = list[j]
        BY <1>1, <1>3, <2>1, <2>3, <3>1
      <4> QED BY <4>1, <2>3, <2>4
    <3>2. CASE j # Len(list)
      <4>1. j \in 1..(Len(list) - 1) /\ RemovedAt(list, i)[j] = list[j]
        BY <1>1, <2>1, <2>3, <2>4, <3>2
      <4> QED BY <4>1, <2>3, <2>4
    <3> QED BY <3>1, <3>2
  <2> QED BY <2>3, <2>4
<1> QED BY <1>2, <1>3

\* Removing the entry of an object, if there is one.
LEMMA WithoutKeepsType ==
  ASSUME NEW S, NEW list \in Seq(S), NEW o
  PROVE  Without(list, o) \in Seq(S)
<1>1. CASE Contains(list, o)
  <2> DEFINE at == CHOOSE i \in 1..Len(list) : list[i] = o
  <2>1. at \in DOMAIN list
    BY <1>1 DEF Contains
  <2>2. Without(list, o) = RemovedAt(list, at)
    BY <1>1 DEF Without
  <2> HIDE DEF at
  <2> QED BY <2>1, <2>2, RemovedAtKeeps
<1>2. CASE ~Contains(list, o)
  BY <1>2 DEF Without
<1> QED BY <1>1, <1>2

\* What others do meanwhile: they register when no visit is on, let go of references, and
\* remove the entries of what has died when no visit is on.
LEMMA OthersKeepRegistryInv ==
  ASSUME RegistryAssumption, RegistryInv, NEW o \in Objects,
         Register(o) \/ DropRef(o) \/ Unregister(o)
  PROVE  RegistryInv'
<1> USE DEF RegistryInv
<1>1. CASE Register(o)
  BY <1>1 DEF Register, MutexFree, Visit, RegistryTypes, ReferredIsAlive, AwaitedIsReached,
              DroppedIsOther
<1>2. CASE DropRef(o)
  <2>1. UNCHANGED <<entries, visit, index, visited, awaited, locked, disturbed>>
        /\ refs' = refs \ {o} /\ life[o] = "alive"
        /\ life' \in [Objects -> {"new", "alive", "dying", "dead"}]
        /\ \A p \in Objects : life'[p] = IF p = o /\ o \notin locked THEN "dying" ELSE life[p]
    BY <1>2 DEF DropRef, Visit, RegistryTypes, ReferredIsAlive
  <2>2. RegistryTypes' /\ ReferredIsAlive'
    BY <2>1 DEF RegistryTypes, ReferredIsAlive
  <2>3. AwaitedIsReached' /\ DroppedIsOther'
    BY <2>1 DEF AwaitedIsReached, StandsBehind, DroppedIsOther, Current
  <2> QED BY <2>2, <2>3
<1>3. CASE Unregister(o)
  <2>1. UNCHANGED <<refs, visit, index, visited, awaited, locked, disturbed>>
        /\ life[o] = "dying" /\ life' = [life EXCEPT ![o] = "dead"]
        /\ (entries' = entries \/ visit = "idle") /\ entries' \in Seq(Objects)
    BY <1>3, WithoutKeepsType DEF Unregister, Visit, MutexFree, RegistryTypes
  <2>2. RegistryTypes' /\ ReferredIsAlive'
    BY <2>1 DEF RegistryTypes, ReferredIsAlive
  <2>3. AwaitedIsReached' /\ DroppedIsOther'
    BY <2>1 DEF AwaitedIsReached, StandsBehind, DroppedIsOther, Current
  <2> QED BY <2>2, <2>3
<1> QED BY <1>1, <1>2, <1>3

\* An expired entry is not awaited any more, and the entry that takes its place stands at
\* the index.
LEMMA RemoveExpiredKeepsRegistryInv ==
  ASSUME RegistryAssumption, RegistryInv, RemoveExpired
  PROVE  RegistryInv'
<1> USE DEF RegistryInv
<1>1. index \in DOMAIN entries /\ visit = "collect" /\ Current = entries[index]
  BY DEF RemoveExpired, RegistryTypes, Current
<1>2. Current \notin refs
  BY DEF RemoveExpired, Lockable, ReferredIsAlive
<1>3. entries' = RemovedAt(entries, index) /\ entries \in Seq(Objects) /\ index \in Nat
      /\ UNCHANGED <<refs, life, locked, visit, index, visited, awaited, disturbed>>
  BY DEF RemoveExpired, RegistryTypes
<1>4. entries' \in Seq(Objects)
  BY <1>1, <1>3, RemovedAtKeeps
<1>5. ASSUME NEW o \in refs, StandsBehind(o) PROVE StandsBehind(o)'
  <2>1. PICK j \in DOMAIN entries : j >= index /\ entries[j] = o
    BY <1>5 DEF StandsBehind
  <2>2. j # index
    BY <1>1, <1>2, <1>5, <2>1
  <2>3. \E k \in DOMAIN entries' : k >= index /\ entries'[k] = o
    BY <1>1, <1>3, <2>1, <2>2, RemovedAtKeeps
  <2> QED BY <1>3, <2>3 DEF StandsBehind
<1>6. RegistryTypes' /\ ReferredIsAlive' /\ DroppedIsOther'
  BY <1>1, <1>3, <1>4 DEF RegistryTypes, ReferredIsAlive, DroppedIsOther
<1>7. AwaitedIsReached'
  BY <1>1, <1>3, <1>5 DEF AwaitedIsReached
<1> QED BY <1>6, <1>7

\* The visit's own steps: it begins, locks what stands at the index, lets go of what is of
\* another type, calls back, and releases what it has locked.
LEMMA VisitKeepsRegistryInv ==
  ASSUME RegistryAssumption, RegistryInv,
         BeginVisit \/ Collect \/ DropOther \/ Callback \/ Release
  PROVE  RegistryInv'
<1> USE DEF RegistryInv
<1>1. CASE BeginVisit
  <2>1. awaited' \subseteq Wanted /\ disturbed' \in BOOLEAN
    BY <1>1 DEF BeginVisit
  <2>2. RegistryTypes'
    BY <1>1, <2>1 DEF BeginVisit, RegistryTypes
  <2>3. ReferredIsAlive' /\ DroppedIsOther'
    BY <1>1 DEF BeginVisit, RegistryTypes, ReferredIsAlive, DroppedIsOther
  <2>4. ASSUME NEW o \in awaited' PROVE StandsBehind(o)'
    BY <1>1, <2>4 DEF BeginVisit, StandsBehind, Contains, RegistryTypes
  <2>5. AwaitedIsReached'
    BY <1>1, <2>4 DEF BeginVisit, AwaitedIsReached
  <2> QED BY <2>2, <2>3, <2>5
<1>2. CASE Collect
  <2>1. index \in DOMAIN entries /\ visit = "collect" /\ Current \in Objects
        /\ Current = entries[index] /\ (Current \in ByAddress \/ life[Current] = "alive")
    BY <1>2 DEF Collect, RegistryTypes, Current, Lockable
  <2>2. /\ locked' = locked \cup {Current}
        /\ UNCHANGED <<entries, refs, life, visited, awaited, disturbed>>
        /\ \/ Current \in Wanted /\ index' = index + 1 /\ visit' = visit
           \/ Current \notin Wanted /\ index' = index /\ visit' = "drop"
    BY <1>2 DEF Collect
  <2>3. RegistryTypes' /\ ReferredIsAlive'
    BY <2>1, <2>2 DEF RegistryTypes, ReferredIsAlive, RegistryAssumption
  <2>4. DroppedIsOther'
    BY <2>1, <2>2 DEF DroppedIsOther, Current
  <2>5. ASSUME NEW o, o \in locked \/ StandsBehind(o) PROVE o \in locked' \/ StandsBehind(o)'
    BY <2>1, <2>2, <2>5 DEF StandsBehind, RegistryTypes
  <2>6. AwaitedIsReached'
    BY <2>1, <2>2, <2>5 DEF AwaitedIsReached
  <2> QED BY <2>3, <2>4, <2>6
<1>3. CASE DropOther
  <2>1. index \in DOMAIN entries /\ visit = "drop" /\ Current \notin Wanted
        /\ Current = entries[index] /\ Current \in Objects
    BY <1>3 DEF DropOther, DroppedIsOther, RegistryTypes, Current
  <2>2. /\ locked' = locked \ {Current} /\ visit' = "collect" /\ index' = index + 1
        /\ UNCHANGED <<refs, visited, awaited>>
    BY <1>3 DEF DropOther
  <2>3. CASE Current \in refs
    <3>1. UNCHANGED <<life, entries, disturbed>>
      BY <1>3, <2>3 DEF DropOther
    <3>2. RegistryTypes' /\ ReferredIsAlive' /\ DroppedIsOther'
      BY <2>1, <2>2, <3>1 DEF RegistryTypes, ReferredIsAlive, DroppedIsOther
    <3>3. ASSUME NEW o \in Wanted, o \in locked \/ StandsBehind(o)
          PROVE  o \in locked' \/ StandsBehind(o)'
      BY <2>1, <2>2, <3>1, <3>3 DEF StandsBehind, RegistryTypes
    <3>4. AwaitedIsReached'
      BY <2>1, <2>2, <3>1, <3>3 DEF AwaitedIsReached, RegistryTypes
    <3> QED BY <3>2, <3>4
  <2>4. CASE Current \notin refs
    <3>1. /\ life' = [life EXCEPT ![Current] = "dead"] /\ disturbed' = TRUE
          /\ entries' \in {entries, RemovedAt(entries, index)}
      BY <1>3, <2>4 DEF DropOther
    <3>2. entries' \in Seq(Objects)
      BY <2>1, <3>1, RemovedAtKeeps DEF RegistryTypes
    <3>3. RegistryTypes'
      BY <2>1, <2>2, <3>1, <3>2 DEF RegistryTypes
    <3>4. ReferredIsAlive'
      BY <2>1, <2>2, <2>4, <3>1 DEF RegistryTypes, ReferredIsAlive
    <3> QED BY <2>2, <3>1, <3>3, <3>4 DEF AwaitedIsReached, DroppedIsOther
  <2> QED BY <2>3, <2>4
<1>4. CASE Callback
  <2>1. /\ visit = "collect" /\ index > Len(entries) /\ visit' = "release" /\ visited' = locked
        /\ UNCHANGED <<entries, refs, life, locked, index, awaited, disturbed>>
    BY <1>4 DEF Callback
  <2>2. \A o : ~StandsBehind(o)
    BY <2>1 DEF StandsBehind, RegistryTypes
  <2>3. RegistryTypes' /\ ReferredIsAlive' /\ DroppedIsOther'
    BY <2>1 DEF RegistryTypes, ReferredIsAlive, DroppedIsOther
  <2>4. AwaitedIsReached'
    BY <2>1, <2>2 DEF AwaitedIsReached
  <2> QED BY <2>3, <2>4
<1>5. CASE Release
  <2>1. /\ visit = "release" /\ visit' \in {"idle", "release"}
        /\ UNCHANGED <<refs, index, visited, awaited, disturbed>>
    BY <1>5 DEF Release
  <2>2. AwaitedIsReached' /\ DroppedIsOther'
    BY <2>1 DEF AwaitedIsReached, DroppedIsOther
  <2>3. CASE locked = {}
    BY <1>5, <2>1, <2>2, <2>3 DEF Release, RegistryTypes, ReferredIsAlive
  <2>4. CASE locked # {}
    <3>1. PICK o \in locked :
            /\ locked' = locked \ {o}
            /\ life' = IF o \in refs THEN life ELSE [life EXCEPT ![o] = "dead"]
            /\ entries' = IF o \in refs \cup AutoRemoved THEN entries ELSE Without(entries, o)
      BY <1>5, <2>4 DEF Release
    <3>2. entries' \in Seq(Objects)
      BY <3>1, WithoutKeepsType DEF RegistryTypes
    <3>3. RegistryTypes'
      BY <2>1, <3>1, <3>2 DEF RegistryTypes
    <3>4. ReferredIsAlive'
      BY <2>1, <3>1 DEF RegistryTypes, ReferredIsAlive
    <3> QED BY <2>2, <3>3, <3>4
  <2> QED BY <2>3, <2>4
<1> QED BY <1>1, <1>2, <1>3, <1>4, <1>5

\* Every step keeps the invariant.
LEMMA StepKeepsRegistryInv ==
  ASSUME RegistryAssumption, RegistryInv, [RegistryNext]_registryVars
  PROVE  RegistryInv'
<1>1. CASE UNCHANGED registryVars
  BY <1>1 DEF registryVars, RegistryInv, RegistryTypes, ReferredIsAlive, AwaitedIsReached,
              StandsBehind, DroppedIsOther, Current
<1>2. CASE RegistryNext
  BY <1>2, OthersKeepRegistryInv, RemoveExpiredKeepsRegistryInv, VisitKeepsRegistryInv
     DEF RegistryNext
<1> QED BY <1>1, <1>2

\* And so whoever is visited is alive, and everyone awaited is visited.
LEMMA VisitsAreWhole ==
  ASSUME RegistryInv
  PROVE  WeaklyVisitedAlive /\ EveryoneVisited
BY DEF RegistryInv, ReferredIsAlive, AwaitedIsReached, WeaklyVisitedAlive, EveryoneVisited

-----------------------------------------------------------------------------
(***************************************************************************)
(* The breakpoints of a debug session.  A source is known by its place in  *)
(* the list, which is one and stays; ids come from one counter.            *)
(***************************************************************************)
SourceBp == [source : Nat, id : Nat, line : Lines]
FunctionBp == [id : Nat, name : Names]
DebuggeeTypes ==
  /\ sources \in Seq(Sources) /\ nextBpId \in Nat
  /\ sourceBps \subseteq SourceBp /\ functionBps \subseteq FunctionBp
  /\ wanted \in [Sources -> SUBSET Lines] /\ told \in [Sources -> SUBSET Nat]
  /\ named \subseteq Names

\* A source has one place, and breakpoints are of sources that have one.
SourcesAreKnown ==
  /\ \A i, j \in DOMAIN sources : sources[i] = sources[j] => i = j
  /\ \A b \in sourceBps : b.source \in DOMAIN sources

\* Ids are given once, and those to come are larger.
IdsAreDistinct ==
  /\ \A b \in sourceBps : b.id <= nextBpId
  /\ \A b \in functionBps : b.id <= nextBpId
  /\ \A b, c \in sourceBps : b # c => b.id # c.id
  /\ \A b \in sourceBps, c \in functionBps : b.id # c.id

\* The breakpoints of a source, said of their places.
AsAsked ==
  \A s \in Sources :
    LET bps == {b \in sourceBps : sources[b.source] = s}
    IN {b.line : b \in bps} = wanted[s] /\ {b.id : b \in bps} = told[s]

NamedAsAsked == \A b \in functionBps : b.name \in named

DebuggeeInv ==
  /\ DebuggeeTypes /\ SourcesAreKnown /\ IdsAreDistinct /\ AsAsked /\ NamedAsAsked
  /\ HookFindsState /\ StopsAreAskedFor

\* There are no breakpoints to begin with.
LEMMA DebuggeeInitially ==
  ASSUME DebuggeeInit
  PROVE  DebuggeeInv
<1>1. DebuggeeTypes /\ SourcesAreKnown /\ IdsAreDistinct
  BY DEF DebuggeeInit, DebuggeeTypes, SourcesAreKnown, IdsAreDistinct
<1>2. AsAsked /\ NamedAsAsked
  BY DEF DebuggeeInit, AsAsked, NamedAsAsked
<1>3. HookFindsState /\ StopsAreAskedFor
  BY DEF DebuggeeInit, HookFindsState, StopsAreAskedFor
<1> QED BY <1>1, <1>2, <1>3 DEF DebuggeeInv

\* StoreSource gives a source one place and leaves the others where they are.
LEMMA StoredSources ==
  ASSUME DebuggeeTypes, SourcesAreKnown, NEW s \in Sources,
         NEW list, list = StoreSource(s)
  PROVE  /\ list \in Seq(Sources) /\ DOMAIN sources \subseteq DOMAIN list
         /\ \A i \in DOMAIN sources : list[i] = sources[i]
         /\ \A i, j \in DOMAIN list : list[i] = list[j] => i = j
         /\ SourceId(s, list) \in DOMAIN list /\ list[SourceId(s, list)] = s
<1>1. sources \in Seq(Sources) /\ Len(sources) \in Nat /\ DOMAIN sources = 1..Len(sources)
  BY DEF DebuggeeTypes
<1>2. CASE Contains(sources, s)
  <2>1. list = sources
    BY <1>2 DEF StoreSource
  <2>2. \E i \in DOMAIN sources : sources[i] = s
    BY <1>1, <1>2 DEF Contains
  <2> QED BY <1>1, <2>1, <2>2 DEF SourceId, SourcesAreKnown
<1>3. CASE ~Contains(sources, s)
  <2>1. list = Append(sources, s)
    BY <1>3 DEF StoreSource
  <2>2. /\ list \in Seq(Sources) /\ DOMAIN list = 1..(Len(sources) + 1)
        /\ list[Len(sources) + 1] = s /\ \A i \in DOMAIN sources : list[i] = sources[i]
    BY <1>1, <2>1
  <2>3. \A i \in DOMAIN sources : sources[i] # s
    BY <1>1, <1>3 DEF Contains
  <2>4. \A i, j \in DOMAIN list : list[i] = list[j] => i = j
    BY <1>1, <2>2, <2>3 DEF SourcesAreKnown
  <2>5. SourceId(s, list) \in DOMAIN list /\ list[SourceId(s, list)] = s
    BY <1>1, <2>2 DEF SourceId
  <2> QED BY <1>1, <2>2, <2>4, <2>5
<1> QED BY <1>2, <1>3

\* What a request for lines may name.
LEMMA LineListFacts ==
  ASSUME LuaDebuggerAssumption, NEW lines \in LineLists
  PROVE  /\ Len(lines) \in Nat /\ DOMAIN lines = 1..Len(lines)
         /\ \A i \in 1..Len(lines) : lines[i] \in Lines
<1>1. PICK n \in 0..MaxLines : lines \in [1..n -> Lines]
  BY DEF LineLists
<1>2. n \in Nat /\ DOMAIN lines = 1..n
  BY <1>1 DEF LuaDebuggerAssumption
<1>3. lines \in Seq(Lines) /\ Len(lines) = n
  BY <1>1, <1>2
<1> QED BY <1>1, <1>2, <1>3

\* A request for lines replaces the breakpoints of its source by new ones under new ids.
LEMMA SetBreakpointsKeepsInv ==
  ASSUME LuaDebuggerAssumption, DebuggeeInv, NEW s \in Sources, NEW lines \in LineLists,
         SetBreakpoints(s, lines)
  PROVE  DebuggeeInv'
<1> DEFINE id == SourceId(s, sources')
           new == NewBps(id, lines)
           kept == {bp \in sourceBps : bp.source # id}
<1>1. /\ sources' = StoreSource(s) /\ sourceBps' = kept \cup new
      /\ nextBpId' = nextBpId + Len(lines)
      /\ wanted' = [wanted EXCEPT ![s] = ToSet(lines)]
      /\ told' = [told EXCEPT ![s] = {nextBpId + i : i \in DOMAIN lines}]
      /\ traced' = <<>> /\ UNCHANGED <<functionBps, hook, prevHook, installed, named>>
  BY DEF SetBreakpoints
<1>2. /\ Len(lines) \in Nat /\ DOMAIN lines = 1..Len(lines)
      /\ \A i \in 1..Len(lines) : lines[i] \in Lines
  BY LineListFacts
<1>3. /\ sources' \in Seq(Sources) /\ DOMAIN sources \subseteq DOMAIN sources'
      /\ \A i \in DOMAIN sources : sources'[i] = sources[i]
      /\ \A i, j \in DOMAIN sources' : sources'[i] = sources'[j] => i = j
      /\ id \in DOMAIN sources' /\ sources'[id] = s
  BY <1>1, StoredSources DEF DebuggeeInv
<1> HIDE DEF id
<1>4. id \in Nat /\ nextBpId \in Nat
  BY <1>3 DEF DebuggeeInv, DebuggeeTypes
<1>5. \A b \in new : \E i \in 1..Len(lines) :
        b.source = id /\ b.id = nextBpId + i /\ b.line = lines[i] /\ b \in SourceBp
  BY <1>2, <1>4 DEF NewBps, SourceBp
<1>6. \A i \in 1..Len(lines) : \E b \in new : b.id = nextBpId + i /\ b.line = lines[i]
  <2>1. ASSUME NEW i \in 1..Len(lines)
        PROVE  \E b \in new : b.id = nextBpId + i /\ b.line = lines[i]
    <3> DEFINE b == [source |-> id, id |-> nextBpId + i, line |-> lines[i]]
    <3>1. b \in new
      BY <1>2 DEF NewBps
    <3>2. b.id = nextBpId + i /\ b.line = lines[i]
      OBVIOUS
    <3> HIDE DEF b, new
    <3> QED BY <3>1, <3>2
  <2> QED BY <2>1
<1>7. \A b, c \in new : b.id = c.id => b = c
  BY <1>2, <1>4 DEF NewBps
<1> HIDE DEF new
<1>8. \A b \in kept : b \in sourceBps /\ b.source \in DOMAIN sources /\ b.id \in Nat
                      /\ b.id <= nextBpId /\ sources'[b.source] # s
                      /\ sources'[b.source] = sources[b.source]
  <2>1. ASSUME NEW b \in kept
        PROVE  b \in sourceBps /\ b.source # id /\ b.source \in DOMAIN sources
               /\ b.id \in Nat /\ b.id <= nextBpId
    BY DEF DebuggeeInv, DebuggeeTypes, SourceBp, SourcesAreKnown, IdsAreDistinct
  <2> HIDE DEF kept
  <2> QED BY <1>3, <2>1
<1>9. DebuggeeTypes'
  <2>1. kept \subseteq SourceBp /\ new \subseteq SourceBp
    BY <1>5 DEF DebuggeeInv, DebuggeeTypes
  <2>2. ToSet(lines) \subseteq Lines /\ {nextBpId + i : i \in DOMAIN lines} \subseteq Nat
    BY <1>2, <1>4 DEF ToSet
  <2> HIDE DEF kept
  <2> QED BY <1>1, <1>2, <1>3, <2>1, <2>2 DEF DebuggeeInv, DebuggeeTypes
<1>10. SourcesAreKnown'
  <2> HIDE DEF kept
  <2> QED BY <1>1, <1>3, <1>5, <1>8 DEF SourcesAreKnown
<1>11. IdsAreDistinct'
  <2>1. \A b, c \in kept : b # c => b.id # c.id
    BY DEF DebuggeeInv, IdsAreDistinct
  <2> HIDE DEF kept
  <2>2. \A b \in new : b.id \in Nat /\ b.id > nextBpId /\ b.id <= nextBpId'
    BY <1>1, <1>2, <1>4, <1>5
  <2>3. \A b \in kept, c \in functionBps : b.id # c.id
    BY <1>8 DEF DebuggeeInv, IdsAreDistinct
  <2>4. \A c \in functionBps : c.id \in Nat /\ c.id <= nextBpId
    BY DEF DebuggeeInv, DebuggeeTypes, FunctionBp, IdsAreDistinct
  <2>5. \A b \in sourceBps' : b.id <= nextBpId'
    BY <1>1, <1>2, <1>4, <1>8, <2>2
  <2>6. \A c \in functionBps' : c.id <= nextBpId'
    BY <1>1, <1>2, <1>4, <2>4
  <2>7. \A b, c \in sourceBps' : b # c => b.id # c.id
    BY <1>1, <1>4, <1>7, <1>8, <2>1, <2>2
  <2>8. \A b \in sourceBps', c \in functionBps' : b.id # c.id
    BY <1>1, <1>4, <2>2, <2>3, <2>4
  <2> QED BY <2>5, <2>6, <2>7, <2>8 DEF IdsAreDistinct
<1>12. AsAsked'
  <2> DEFINE bps(t) == {b \in sourceBps : sources[b.source] = t}
             bpsNext(t) == {b \in sourceBps' : sources'[b.source] = t}
  <2>1. bpsNext(s) = new
    <3>1. \A b \in new : sources'[b.source] = s
      BY <1>3, <1>5
    <3> HIDE DEF kept
    <3> QED BY <1>1, <1>8, <3>1
  <2>2. {b.line : b \in new} = wanted'[s]
    <3>1. wanted'[s] = {lines[i] : i \in 1..Len(lines)}
      BY <1>1, <1>2 DEF ToSet, DebuggeeInv, DebuggeeTypes
    <3> QED BY <1>5, <1>6, <3>1
  <2>3. {b.id : b \in new} = told'[s]
    <3>1. told'[s] = {nextBpId + i : i \in 1..Len(lines)}
      BY <1>1, <1>2 DEF DebuggeeInv, DebuggeeTypes
    <3> QED BY <1>5, <1>6, <3>1
  <2>4. ASSUME NEW t \in Sources, t # s
        PROVE  {b.line : b \in bpsNext(t)} = wanted'[t] /\ {b.id : b \in bpsNext(t)} = told'[t]
    <3>1. bpsNext(t) = bps(t)
      <4>1. ASSUME NEW b \in bpsNext(t) PROVE b \in bps(t)
        <5>1. b \notin new
          BY <1>3, <1>5, <2>4
        <5>2. b \in kept
          BY <1>1, <5>1
        <5> QED BY <1>8, <5>2
      <4>2. ASSUME NEW b \in bps(t) PROVE b \in bpsNext(t)
        <5>1. b.source \in DOMAIN sources /\ sources'[b.source] = t
          BY <1>3 DEF DebuggeeInv, SourcesAreKnown
        <5>2. b.source # id
          BY <1>3, <2>4, <5>1
        <5> QED BY <1>1, <5>1, <5>2
      <4> QED BY <4>1, <4>2
    <3>2. wanted'[t] = wanted[t] /\ told'[t] = told[t]
      BY <1>1, <2>4 DEF DebuggeeInv, DebuggeeTypes
    <3>3. {b.line : b \in bps(t)} = wanted[t] /\ {b.id : b \in bps(t)} = told[t]
      BY DEF DebuggeeInv, AsAsked
    <3> QED BY <3>1, <3>2, <3>3
  <2>5. ASSUME NEW t \in Sources
        PROVE  {b.line : b \in bpsNext(t)} = wanted'[t] /\ {b.id : b \in bpsNext(t)} = told'[t]
    BY <2>1, <2>2, <2>3, <2>4
  <2> QED BY <2>5 DEF AsAsked
<1>13. NamedAsAsked' /\ HookFindsState' /\ StopsAreAskedFor'
  BY <1>1 DEF DebuggeeInv, NamedAsAsked, HookFindsState, StopsAreAskedFor
<1> QED BY <1>9, <1>10, <1>11, <1>12, <1>13 DEF DebuggeeInv

\* A request for functions leaves those of lines alone.
LEMMA SetFunctionBreakpointsKeepsInv ==
  ASSUME DebuggeeInv, NEW names, names \in {<<n>> : n \in Names} \cup {<<>>},
         SetFunctionBreakpoints(names)
  PROVE  DebuggeeInv'
<1>1. /\ functionBps' = {[id |-> nextBpId + i, name |-> names[i]] : i \in DOMAIN names}
      /\ nextBpId' = nextBpId + Len(names) /\ named' = ToSet(names) /\ traced' = <<>>
      /\ UNCHANGED <<sources, sourceBps, hook, prevHook, installed, wanted, told>>
  BY DEF SetFunctionBreakpoints
<1>2. nextBpId \in Nat /\ \A b \in sourceBps : b.id \in Nat /\ b.id <= nextBpId
  BY DEF DebuggeeInv, DebuggeeTypes, IdsAreDistinct, SourceBp
<1>3. /\ nextBpId' \in Nat /\ nextBpId <= nextBpId' /\ named' \subseteq Names
      /\ \A b \in functionBps' : /\ b \in FunctionBp /\ b.name \in named'
                                 /\ b.id > nextBpId /\ b.id <= nextBpId'
  <2>1. CASE names = <<>>
    <3>1. DOMAIN names = {} /\ Len(names) = 0 /\ ToSet(names) = {}
      BY <2>1 DEF ToSet
    <3> QED BY <1>1, <1>2, <3>1
  <2>2. CASE \E n \in Names : names = <<n>>
    <3>1. PICK n \in Names : names = <<n>>
      BY <2>2
    <3>2. DOMAIN names = {1} /\ Len(names) = 1 /\ names[1] = n
      BY <3>1
    <3>3. named' = {n} /\ functionBps' = {[id |-> nextBpId + 1, name |-> n]}
          /\ nextBpId' = nextBpId + 1
      BY <1>1, <3>2 DEF ToSet
    <3> QED BY <1>2, <3>3 DEF FunctionBp
  <2> QED BY <2>1, <2>2
<1>4. DebuggeeTypes'
  BY <1>1, <1>3 DEF DebuggeeInv, DebuggeeTypes
<1>5. SourcesAreKnown' /\ AsAsked'
  BY <1>1 DEF DebuggeeInv, SourcesAreKnown, AsAsked
<1>6. IdsAreDistinct'
  <2>1. \A b \in functionBps' : b.id \in Nat
    BY <1>3 DEF FunctionBp
  <2> QED BY <1>1, <1>2, <1>3, <2>1 DEF DebuggeeInv, IdsAreDistinct
<1>7. NamedAsAsked' /\ HookFindsState' /\ StopsAreAskedFor'
  BY <1>1, <1>3 DEF DebuggeeInv, NamedAsAsked, HookFindsState, StopsAreAskedFor
<1> QED BY <1>4, <1>5, <1>6, <1>7 DEF DebuggeeInv

\* The hook stops only where there is a breakpoint to stop at.
LEMMA DebugTraceKeepsInv ==
  ASSUME DebuggeeInv, DebugTrace
  PROVE  DebuggeeInv'
<1>1. UNCHANGED <<sources, sourceBps, functionBps, nextBpId, hook, installed, wanted, told, named>>
  BY DEF DebugTrace
<1>2. StopsAreAskedFor'
  <2>1. ASSUME NEW s \in Sources, NEW line \in Lines, NEW end \in {"stop", "go"},
               end \in AtLine(s, line), traced' = <<"line", <<s, line>>, end>>
        PROVE  StopsAreAskedFor'
    <3>1. traced'[1] = "line" /\ traced'[3] = end
      BY <2>1
    <3>2. CASE end = "go"
      BY <3>1, <3>2 DEF StopsAreAskedFor
    <3>3. CASE end = "stop"
      <4>1. PICK b \in sourceBps : TRUE
        BY <2>1, <3>3 DEF AtLine
      <4>2. sources[b.source] \in Sources
        BY <4>1 DEF DebuggeeInv, SourcesAreKnown, DebuggeeTypes
      <4>3. b.line \in wanted[sources[b.source]]
        BY <4>1, <4>2 DEF DebuggeeInv, AsAsked
      <4> QED BY <1>1, <3>1, <4>2, <4>3 DEF StopsAreAskedFor
    <3> QED BY <3>2, <3>3
  <2>2. ASSUME NEW name \in Names, NEW conditionFails \in BOOLEAN, NEW end \in {"stop", "go"},
               end \in AtCall(name, conditionFails), traced' = <<"call", name, end>>
        PROVE  StopsAreAskedFor'
    <3>1. traced'[1] = "call" /\ traced'[2] = name /\ traced'[3] = end
      BY <2>2
    <3>2. end = "stop" => name \in named
      BY <2>2 DEF AtCall, DebuggeeInv, NamedAsAsked
    <3> QED BY <1>1, <3>1, <3>2 DEF StopsAreAskedFor
  <2> QED BY <2>1, <2>2 DEF DebugTrace
<1>3. DebuggeeTypes' /\ SourcesAreKnown' /\ IdsAreDistinct'
  BY <1>1 DEF DebuggeeInv, DebuggeeTypes, SourcesAreKnown, IdsAreDistinct
<1>4. AsAsked' /\ NamedAsAsked' /\ HookFindsState'
  BY <1>1 DEF DebuggeeInv, AsAsked, NamedAsAsked, HookFindsState
<1> QED BY <1>2, <1>3, <1>4 DEF DebuggeeInv

\* Every step of the debuggee keeps its invariant.
LEMMA StepKeepsDebuggeeInv ==
  ASSUME LuaDebuggerAssumption, DebuggeeInv, [DebuggeeNext]_debuggeeVars
  PROVE  DebuggeeInv'
<1>1. ASSUME ConfigurationDone \/ Disconnect \/ UNCHANGED debuggeeVars PROVE DebuggeeInv'
  <2>1. UNCHANGED <<sources, sourceBps, functionBps, nextBpId, wanted, told, named>>
        /\ (traced' = <<>> \/ traced' = traced)
    BY <1>1 DEF ConfigurationDone, Disconnect, debuggeeVars
  <2>2. HookFindsState'
    BY <1>1 DEF ConfigurationDone, Disconnect, debuggeeVars, DebuggeeInv, HookFindsState
  <2>3. DebuggeeTypes' /\ SourcesAreKnown' /\ IdsAreDistinct'
    BY <2>1 DEF DebuggeeInv, DebuggeeTypes, SourcesAreKnown, IdsAreDistinct
  <2>4. AsAsked' /\ NamedAsAsked' /\ StopsAreAskedFor'
    BY <2>1 DEF DebuggeeInv, AsAsked, NamedAsAsked, StopsAreAskedFor
  <2> QED BY <2>2, <2>3, <2>4 DEF DebuggeeInv
<1> QED BY <1>1, SetBreakpointsKeepsInv, SetFunctionBreakpointsKeepsInv, DebugTraceKeepsInv
        DEF DebuggeeNext

\* And so the breakpoints are those of the last requests.
LEMMA BreakpointsAreAsAsked ==
  ASSUME DebuggeeInv
  PROVE  BreakpointsAsAsked /\ HookFindsState /\ StopsAreAskedFor
<1>1. AsAsked /\ IdsAreDistinct /\ HookFindsState /\ StopsAreAskedFor
  BY DEF DebuggeeInv
<1>2. BreakpointsAsAsked
  BY <1>1 DEF AsAsked, IdsAreDistinct, BreakpointsAsAsked
<1> QED BY <1>1, <1>2

-----------------------------------------------------------------------------
(***************************************************************************)
(* What a stopped script shows.  Every variable hangs below a root that a  *)
(* frame, the watch or a registration still to be reset holds: whatever    *)
(* has the roots and with any variable its children has them all.  So      *)
(* nothing is left when no root is.                                        *)
(***************************************************************************)
VariableEntry == [id : Nat \ {0}, parent : Nat, key : Nat]
VariablesTypes ==
  /\ nextId \in Nat /\ watch \in Nat /\ closing \subseteq Nat
  /\ variables \subseteq VariableEntry
  /\ \A e \in variables : e.id <= nextId /\ e.parent <= nextId
  /\ frameScopes \in [Frames -> SUBSET Nat] /\ stackFrames \subseteq Frames

\* Below a root, step by step.
HasRootsAndChildren(set) ==
  \A e \in variables : (e.parent = 0 \/ \E p \in set : p.id = e.parent) => e \in set
AllHangBelowRoots == \A set \in SUBSET variables : HasRootsAndChildren(set) => set = variables

ParentsAreThere == \A e \in variables : e.parent # 0 => \E p \in variables : p.id = e.parent

\* The roots are held, each by one.
Held == (UNION {frameScopes[f] : f \in Frames}) \cup ({watch} \ {0}) \cup closing
RootsAreHeld ==
  /\ \A e \in variables : e.parent = 0 => e.id \in Held
  /\ \A i \in Held : \E e \in variables : e.parent = 0 /\ e.id = i

\* The references are those of the watched values.
WatchedAreKept ==
  /\ \A e \in variables : IsBelow(e, watch) => e.key \in watchRefs
  /\ \A r \in watchRefs : \E e \in variables : IsBelow(e, watch) /\ e.key = r

\* Who holds roots while the script is stopped, and who while it goes on.
HoldersFit ==
  /\ \A f \in Frames \ stackFrames : frameScopes[f] = {}
  /\ ~stopped => stackFrames = {} /\ (watch # 0 => watch \in closing)
  /\ stopped => closing = {}

VariablesInv ==
  /\ VariablesTypes /\ AllHangBelowRoots /\ ParentsAreThere /\ RootsAreHeld /\ WatchedAreKept
  /\ HoldersFit

\* Nothing is shown to begin with.
LEMMA VariablesInitially ==
  ASSUME VariablesInit
  PROVE  VariablesInv
<1>1. VariablesTypes
  BY DEF VariablesInit, VariablesTypes
<1>2. AllHangBelowRoots /\ ParentsAreThere /\ HoldersFit /\ WatchedAreKept
  BY DEF VariablesInit, AllHangBelowRoots, HasRootsAndChildren, ParentsAreThere, HoldersFit,
         WatchedAreKept, IsBelow
<1>3. Held = {}
  BY DEF VariablesInit, Held
<1>4. RootsAreHeld
  BY <1>3 DEF VariablesInit, RootsAreHeld
<1> QED BY <1>1, <1>2, <1>4 DEF VariablesInv

\* New variables are roots, or children of variables that are there or new roots.
LEMMA AddingKeepsReach ==
  ASSUME AllHangBelowRoots, ParentsAreThere, NEW new, variables' = variables \cup new,
         \A e \in new : \/ e.parent = 0
                        \/ \E p \in variables : p.id = e.parent
                        \/ \E p \in new : p.parent = 0 /\ p.id = e.parent
  PROVE  AllHangBelowRoots' /\ ParentsAreThere'
<1>1. ASSUME NEW set \in SUBSET variables', HasRootsAndChildren(set)'
      PROVE  set = variables'
  <2>1. \A e \in variables' : (e.parent = 0 \/ \E p \in set : p.id = e.parent) => e \in set
    BY <1>1 DEF HasRootsAndChildren
  <2>2. HasRootsAndChildren(set \cap variables)
    BY <2>1 DEF HasRootsAndChildren
  <2>3. set \cap variables = variables
    BY <2>2 DEF AllHangBelowRoots
  <2>4. \A p \in new : p.parent = 0 => p \in set
    BY <2>1
  <2>5. ASSUME NEW e \in new PROVE e \in set
    BY <2>1, <2>3, <2>4
  <2> QED BY <2>3, <2>5
<1>2. AllHangBelowRoots'
  BY <1>1 DEF AllHangBelowRoots
<1>3. ParentsAreThere'
  BY DEF ParentsAreThere
<1> QED BY <1>2, <1>3

\* What goes with a root has all children of what goes, and no other root.
LEMMA RemovedFacts ==
  ASSUME NEW root \in Nat \ {0}
  PROVE  /\ Removed(root) \subseteq variables
         /\ \A e \in variables : e.id = root => e \in Removed(root)
         /\ \A e \in variables, p \in Removed(root) : e.parent = p.id => e \in Removed(root)
         /\ (\A e \in variables : e.id # 0) =>
              \A e \in Removed(root) : e.id = root \/ e.parent # 0
<1>1. Removed(root) \subseteq variables
  BY DEF Removed
<1>2. \A e \in variables : e.id = root => e \in Removed(root)
  BY DEF Removed, IsWhole
<1>3. ASSUME NEW e \in variables, NEW p \in Removed(root), e.parent = p.id
      PROVE  e \in Removed(root)
  BY <1>3 DEF Removed, IsWhole
<1>4. ASSUME \A e \in variables : e.id # 0, NEW e \in Removed(root)
      PROVE  e.id = root \/ e.parent # 0
  <2> DEFINE set == {x \in variables : x.id = root \/ x.parent # 0}
  <2>1. set \in SUBSET variables /\ IsWhole(set, root)
    BY <1>4 DEF IsWhole
  <2>2. e \in set
    BY <2>1 DEF Removed
  <2> QED BY <2>2
<1> QED BY <1>1, <1>2, <1>3, <1>4

\* The scopes of a frame: one root or two.
LEMMA GetScopesKeepsInv ==
  ASSUME VariablesInv, NEW frame \in Frames, NEW upvalues \in BOOLEAN, GetScopes(frame, upvalues)
  PROVE  VariablesInv'
<1> USE DEF VariablesInv
<1>1. PICK ids \in {{nextId + 1}, {nextId + 1, nextId + 2}} :
        /\ variables' = variables \cup {Entry(i, 0, 0) : i \in ids}
        /\ frameScopes' = [frameScopes EXCEPT ![frame] = ids]
        /\ \A i \in ids : i <= nextId'
        /\ nextId' \in {nextId + 1, nextId + 2}
        /\ frame \in stackFrames /\ frameScopes[frame] = {} /\ stopped
        /\ UNCHANGED <<stopped, stackFrames, watch, closing, watchRefs>>
  <2>1. CASE upvalues
    <3>1. /\ variables' = variables \cup {Entry(i, 0, 0) : i \in {nextId + 1, nextId + 2}}
          /\ frameScopes' = [frameScopes EXCEPT ![frame] = {nextId + 1, nextId + 2}]
          /\ nextId' = nextId + 2
          /\ frame \in stackFrames /\ frameScopes[frame] = {} /\ stopped
          /\ UNCHANGED <<stopped, stackFrames, watch, closing, watchRefs>>
      BY <2>1 DEF GetScopes
    <3> QED BY <3>1 DEF VariablesTypes
  <2>2. CASE ~upvalues
    <3>1. /\ variables' = variables \cup {Entry(i, 0, 0) : i \in {nextId + 1}}
          /\ frameScopes' = [frameScopes EXCEPT ![frame] = {nextId + 1}]
          /\ nextId' = nextId + 1
          /\ frame \in stackFrames /\ frameScopes[frame] = {} /\ stopped
          /\ UNCHANGED <<stopped, stackFrames, watch, closing, watchRefs>>
      BY <2>2 DEF GetScopes
    <3> QED BY <3>1 DEF VariablesTypes
  <2> QED BY <2>1, <2>2
<1> DEFINE new == {Entry(i, 0, 0) : i \in ids}
<1>2. /\ nextId \in Nat /\ nextId' \in Nat /\ nextId <= nextId' /\ ids \subseteq Nat
      /\ \A i \in ids : i > nextId /\ i <= nextId'
  BY <1>1 DEF VariablesTypes
<1>3. /\ \A e \in new : e \in VariableEntry /\ e.parent = 0 /\ e.id \in ids
      /\ \A i \in ids : \E e \in new : e.parent = 0 /\ e.id = i
  <2>1. \A e \in new : e \in VariableEntry /\ e.parent = 0 /\ e.id \in ids
    BY <1>2 DEF Entry, VariableEntry
  <2>2. ASSUME NEW i \in ids PROVE \E e \in new : e.parent = 0 /\ e.id = i
    <3>1. Entry(i, 0, 0) \in new
      OBVIOUS
    <3>2. Entry(i, 0, 0).parent = 0 /\ Entry(i, 0, 0).id = i
      BY DEF Entry
    <3> HIDE DEF new
    <3> QED BY <3>1, <3>2
  <2> QED BY <2>1, <2>2
<1> HIDE DEF new
<1>4. variables' = variables \cup new
  BY <1>1 DEF new
<1>5. frameScopes' \in [Frames -> SUBSET Nat]
      /\ \A f \in Frames : frameScopes'[f] = IF f = frame THEN ids ELSE frameScopes[f]
  BY <1>1, <1>2 DEF VariablesTypes
<1>6. VariablesTypes'
  BY <1>1, <1>2, <1>3, <1>4, <1>5 DEF VariablesTypes, VariableEntry
<1>7. AllHangBelowRoots' /\ ParentsAreThere'
  BY <1>3, <1>4, AddingKeepsReach
<1>8. Held' = Held \cup ids
  BY <1>1, <1>5 DEF Held
<1>9. RootsAreHeld'
  BY <1>3, <1>4, <1>8 DEF RootsAreHeld
<1>10. WatchedAreKept'
  BY <1>1, <1>3, <1>4 DEF WatchedAreKept, IsBelow
<1>11. HoldersFit'
  BY <1>1, <1>5 DEF HoldersFit
<1> QED BY <1>6, <1>7, <1>9, <1>10, <1>11

\* The children of a variable that is not the watch.
LEMMA GetVariablesKeepsInv ==
  ASSUME VariablesInv, NEW id \in 1..MaxId, NEW n \in 0..MaxChildren, GetVariables(id, n)
  PROVE  VariablesInv'
<1> USE DEF VariablesInv
<1> DEFINE new == CreateVariables(id, n)
<1>1. /\ variables' = variables \cup new /\ nextId' = nextId + n /\ id # watch
      /\ \E p \in variables : p.id = id
      /\ UNCHANGED <<stopped, stackFrames, frameScopes, watch, closing, watchRefs>>
  BY DEF GetVariables, Ids
<1>2. n \in Nat /\ nextId \in Nat /\ nextId' \in Nat /\ nextId <= nextId' /\ id \in Nat \ {0}
      /\ id <= nextId
  BY <1>1 DEF VariablesTypes, VariableEntry
<1>3. \A e \in new : /\ e \in VariableEntry /\ e.parent = id
                     /\ e.id > nextId /\ e.id <= nextId'
  BY <1>1, <1>2 DEF CreateVariables, Entry, VariableEntry
<1> HIDE DEF new
<1>4. VariablesTypes'
  BY <1>1, <1>2, <1>3 DEF VariablesTypes, VariableEntry
<1>5. AllHangBelowRoots' /\ ParentsAreThere'
  BY <1>1, <1>3, AddingKeepsReach
<1>6. RootsAreHeld'
  BY <1>1, <1>2, <1>3 DEF RootsAreHeld, Held
<1>7. WatchedAreKept' /\ HoldersFit'
  BY <1>1, <1>2, <1>3 DEF WatchedAreKept, HoldersFit, IsBelow
<1> QED BY <1>4, <1>5, <1>6, <1>7

\* A watched value: the first one makes the root, and each compound one hangs below it.
LEMMA EvaluateWatchKeepsInv ==
  ASSUME VariablesInv, NEW compound \in BOOLEAN, NEW ref \in 1..MaxId,
         EvaluateWatch(compound, ref)
  PROVE  VariablesInv'
<1> USE DEF VariablesInv
<1> DEFINE root == IF watch = 0 THEN nextId + 1 ELSE watch
           made == IF watch = 0 THEN 1 ELSE 0
           rootEntries == IF watch = 0 THEN {Entry(root, 0, 0)} ELSE {}
           below == IF compound THEN {Entry(nextId + made + 1, root, ref)} ELSE {}
           new == rootEntries \cup below
<1>1. /\ watch' = root
      /\ nextId' = nextId + made + (IF compound THEN 1 ELSE 0)
      /\ variables' = variables \cup new
      /\ watchRefs' = watchRefs \cup (IF compound THEN {ref} ELSE {})
      /\ stopped /\ UNCHANGED <<stopped, stackFrames, frameScopes, closing>>
  BY DEF EvaluateWatch
<1>2. /\ nextId \in Nat /\ watch \in Nat /\ made \in {0, 1} /\ root \in Nat \ {0}
      /\ nextId' \in Nat /\ nextId <= nextId' /\ nextId + made <= nextId'
      /\ compound => nextId + made + 1 <= nextId'
      /\ watch = 0 => root = nextId + 1 /\ root <= nextId'
      /\ watch # 0 => root = watch /\ \E p \in variables : p.parent = 0 /\ p.id = root
  <2>1. watch # 0 => \E p \in variables : p.parent = 0 /\ p.id = watch
    BY DEF RootsAreHeld, Held, VariablesTypes
  <2> QED BY <1>1, <2>1 DEF VariablesTypes
<1>3. root <= nextId'
  BY <1>2 DEF VariablesTypes, VariableEntry
<1>4. \A e \in rootEntries : /\ e \in VariableEntry /\ e.parent = 0 /\ e.id = root
                             /\ e.id <= nextId' /\ watch = 0
  BY <1>2 DEF Entry, VariableEntry
<1>5. \A e \in below : /\ e \in VariableEntry /\ e.parent = root /\ e.key = ref
                       /\ e.id <= nextId' /\ compound
  BY <1>2 DEF Entry, VariableEntry
<1>6. watch = 0 => \E e \in rootEntries : e.parent = 0 /\ e.id = root
  BY <1>2 DEF Entry
<1>7. compound => \E e \in below : e.parent = root /\ e.key = ref
  BY <1>2 DEF Entry
<1> HIDE DEF root, made, rootEntries, below
<1>8. VariablesTypes'
  BY <1>1, <1>2, <1>3, <1>4, <1>5 DEF VariablesTypes, VariableEntry
<1>9. AllHangBelowRoots' /\ ParentsAreThere'
  <2>1. \A e \in new : \/ e.parent = 0
                       \/ \E p \in variables : p.id = e.parent
                       \/ \E p \in new : p.parent = 0 /\ p.id = e.parent
    BY <1>2, <1>4, <1>5, <1>6
  <2> HIDE DEF new
  <2> QED BY <1>1, <2>1, AddingKeepsReach
<1>10. Held' = Held \cup {root}
  BY <1>1, <1>2 DEF Held
<1>11. RootsAreHeld'
  BY <1>1, <1>2, <1>4, <1>5, <1>6, <1>10 DEF RootsAreHeld
<1>12. WatchedAreKept'
  <2>1. CASE watch = 0
    <3>1. \A e \in variables : e.parent # root
      BY <1>2, <2>1 DEF VariablesTypes, VariableEntry
    <3>2. watchRefs = {}
      BY <2>1 DEF WatchedAreKept, IsBelow
    <3>3. watchRefs' = IF compound THEN {ref} ELSE {}
      BY <1>1, <3>2
    <3> QED BY <1>1, <1>2, <1>4, <1>5, <1>7, <3>1, <3>3 DEF WatchedAreKept, IsBelow
  <2>2. CASE watch # 0
    <3>1. root = watch /\ rootEntries = {}
      BY <1>2, <2>2 DEF rootEntries
    <3>2. variables' = variables \cup below
      BY <1>1, <3>1
    <3>3. \A e \in variables' : IsBelow(e, watch') => e.key \in watchRefs'
      BY <1>1, <1>5, <3>1, <3>2 DEF WatchedAreKept, IsBelow
    <3>4. ASSUME NEW r \in watchRefs' PROVE \E e \in variables' : IsBelow(e, watch') /\ e.key = r
      BY <1>1, <1>2, <1>7, <3>1, <3>2 DEF WatchedAreKept, IsBelow
    <3> QED BY <3>3, <3>4 DEF WatchedAreKept
  <2> QED BY <2>1, <2>2
<1>13. HoldersFit'
  BY <1>1 DEF HoldersFit
<1> QED BY <1>8, <1>9, <1>11, <1>12, <1>13

\* The script goes on: the holders hand their roots to the registrations that are reset.
LEMMA ResumeKeepsInv ==
  ASSUME VariablesInv, Resume
  PROVE  VariablesInv'
<1> USE DEF VariablesInv
<1>1. /\ stopped /\ stopped' = FALSE /\ stackFrames' = {}
      /\ closing' = ({watch} \ {0}) \cup UNION {frameScopes[f] : f \in stackFrames}
      /\ frameScopes' = [f \in Frames |-> {}]
      /\ UNCHANGED <<watch, nextId, variables, watchRefs>>
  BY DEF Resume
<1>2. /\ closing = {} /\ \A f \in Frames \ stackFrames : frameScopes[f] = {}
  BY <1>1 DEF HoldersFit
<1>3. Held' = Held
  <2>1. UNION {frameScopes[f] : f \in stackFrames} = UNION {frameScopes[f] : f \in Frames}
    BY <1>2 DEF VariablesTypes
  <2>2. UNION {frameScopes'[f] : f \in Frames} = {}
    BY <1>1
  <2> QED BY <1>1, <1>2, <2>1, <2>2 DEF Held
<1>4. VariablesTypes'
  <2>1. closing' \subseteq Nat
    BY <1>1 DEF VariablesTypes
  <2> QED BY <1>1, <2>1 DEF VariablesTypes
<1>5. AllHangBelowRoots' /\ ParentsAreThere'
  BY <1>1 DEF AllHangBelowRoots, HasRootsAndChildren, ParentsAreThere
<1>6. RootsAreHeld' /\ WatchedAreKept'
  BY <1>1, <1>3 DEF RootsAreHeld, WatchedAreKept, IsBelow
<1>7. HoldersFit'
  BY <1>1 DEF HoldersFit, VariablesTypes
<1> QED BY <1>4, <1>5, <1>6, <1>7

\* A registration is reset: its root goes with all that hangs below it.
LEMMA ResetRegistrationKeepsInv ==
  ASSUME VariablesInv, NEW root \in closing, ResetRegistration(root)
  PROVE  VariablesInv'
<1> USE DEF VariablesInv
<1> DEFINE gone == Removed(root)
<1>1. /\ variables' = variables \ gone
      /\ watchRefs' = watchRefs \ {e.key : e \in {x \in gone : IsBelow(x, watch)}}
      /\ watch' = IF root = watch THEN 0 ELSE watch
      /\ closing' = closing \ {root} /\ (watch \in closing => root = watch)
      /\ UNCHANGED <<stopped, stackFrames, frameScopes, nextId>>
  BY DEF ResetRegistration
<1>2. /\ \A e \in variables : e \in VariableEntry /\ e.id # 0
      /\ root \in Nat /\ \E e \in variables : e.parent = 0 /\ e.id = root
  BY DEF VariablesTypes, VariableEntry, RootsAreHeld, Held
<1>3. root # 0
  BY <1>2
<1>4. /\ gone \subseteq variables
      /\ \A e \in variables : e.id = root => e \in gone
      /\ \A e \in variables, p \in gone : e.parent = p.id => e \in gone
      /\ \A e \in gone : e.id = root \/ e.parent # 0
  BY <1>2, <1>3, RemovedFacts
<1> HIDE DEF gone
<1>5. ~stopped /\ \A f \in Frames : frameScopes[f] = {}
  BY DEF HoldersFit
<1>6. Held = ({watch} \ {0}) \cup closing /\ Held' = ({watch'} \ {0}) \cup closing'
  BY <1>1, <1>5 DEF Held, VariablesTypes
<1>7. Held' = Held \ {root}
  BY <1>1, <1>3, <1>6
<1>8. VariablesTypes'
  BY <1>1 DEF VariablesTypes
<1>9. AllHangBelowRoots'
  <2>1. ASSUME NEW set \in SUBSET variables', HasRootsAndChildren(set)'
        PROVE  set = variables'
    <3>1. \A e \in variables' : (e.parent = 0 \/ \E p \in set : p.id = e.parent) => e \in set
      BY <2>1 DEF HasRootsAndChildren
    <3>2. HasRootsAndChildren(set \cup gone)
      BY <1>1, <1>4, <3>1 DEF HasRootsAndChildren
    <3>3. set \cup gone = variables
      BY <1>1, <1>4, <3>2 DEF AllHangBelowRoots
    <3> QED BY <1>1, <3>3
  <2> QED BY <2>1 DEF AllHangBelowRoots
<1>10. ParentsAreThere'
  BY <1>1, <1>4 DEF ParentsAreThere
<1>11. RootsAreHeld'
  BY <1>1, <1>4, <1>7 DEF RootsAreHeld
<1>12. WatchedAreKept'
  <2>1. CASE root = watch
    <3>1. \A e \in variables : IsBelow(e, watch) => e \in gone
      BY <1>2, <1>4, <2>1 DEF IsBelow
    <3>2. watchRefs' = {}
      BY <1>1, <3>1 DEF WatchedAreKept
    <3> QED BY <1>1, <2>1, <3>2 DEF WatchedAreKept, IsBelow
  <2>2. CASE root # watch
    <3>1. watch = 0
      BY <1>1, <1>5, <2>2 DEF HoldersFit
    <3> QED BY <1>1, <3>1 DEF WatchedAreKept, IsBelow
  <2> QED BY <2>1, <2>2
<1>13. HoldersFit'
  BY <1>1, <1>5 DEF HoldersFit
<1> QED BY <1>8, <1>9, <1>10, <1>11, <1>12, <1>13

\* Every step keeps the invariant.
LEMMA StepKeepsVariablesInv ==
  ASSUME VariablesInv, [VariablesNext]_variableVars
  PROVE  VariablesInv'
<1>1. ASSUME Stop \/ GetStackTrace \/ UNCHANGED variableVars PROVE VariablesInv'
  <2>1. /\ UNCHANGED <<frameScopes, watch, closing, nextId, variables, watchRefs>>
        /\ stackFrames' \in {stackFrames, Frames}
        /\ (stopped' = stopped \/ closing = {})
        /\ (stackFrames' = Frames /\ stopped' /\ stopped) \/ stackFrames' = stackFrames
    BY <1>1 DEF Stop, GetStackTrace, variableVars
  <2>2. VariablesTypes' /\ WatchedAreKept'
    BY <2>1 DEF VariablesInv, VariablesTypes, WatchedAreKept, IsBelow
  <2>3. AllHangBelowRoots' /\ ParentsAreThere' /\ RootsAreHeld'
    BY <2>1 DEF VariablesInv, AllHangBelowRoots, HasRootsAndChildren, ParentsAreThere,
                RootsAreHeld, Held
  <2>4. HoldersFit'
    BY <1>1 DEF VariablesInv, HoldersFit, Stop, GetStackTrace, variableVars
  <2> QED BY <2>2, <2>3, <2>4 DEF VariablesInv
<1> QED BY <1>1, GetScopesKeepsInv, GetVariablesKeepsInv, EvaluateWatchKeepsInv, ResumeKeepsInv,
           ResetRegistrationKeepsInv
        DEF VariablesNext

\* And so nothing outlives the pause: without a root the empty set has all there is.
LEMMA NothingIsLeft ==
  ASSUME VariablesInv
  PROVE  NothingOutlivesThePause
<1> USE DEF VariablesInv
<1>1. \A e \in variables : e.parent # 0 => e.parent \in Ids
  BY DEF ParentsAreThere, Ids
<1>2. {e.id : e \in {x \in variables : x.parent = 0}} = Held
  BY DEF RootsAreHeld
<1>3. watchRefs = {e.key : e \in {x \in variables : IsBelow(x, watch)}}
  BY DEF WatchedAreKept
<1>4. ASSUME ~stopped, closing = {} PROVE variables = {} /\ watchRefs = {}
  <2>1. Held = {}
    BY <1>4 DEF Held, HoldersFit, VariablesTypes
  <2>2. HasRootsAndChildren({})
    BY <2>1 DEF HasRootsAndChildren, RootsAreHeld
  <2>3. variables = {}
    BY <2>2 DEF AllHangBelowRoots
  <2> QED BY <1>3, <2>3
<1> QED BY <1>1, <1>2, <1>3, <1>4 DEF NothingOutlivesThePause, Held

-----------------------------------------------------------------------------
(***************************************************************************)
(* Native values of Lua objects, with one thread.  A value on the stack    *)
(* lies below the top that every scope opened after it has kept, so that   *)
(* leaving them does not cut it off; a value in the table has its thread's *)
(* root, and the table is that root's.                                     *)
(***************************************************************************)
LuaTypes ==
  /\ stack \in Seq(LuaObjects \cup {Other})
  /\ scopes \in Seq([mode : Modes, top : Nat])
  /\ roots \subseteq LuaThreads
  /\ values \subseteq [mode : Modes, key : Nat, object : LuaObjects, scope : Nat, thread : LuaThreads]

\* The tops of the scopes are those of the stack when each was opened.
TopsGrow ==
  /\ \A i \in DOMAIN scopes : scopes[i].top <= Len(stack)
  /\ \A i, j \in DOMAIN scopes : i <= j => scopes[i].top <= scopes[j].top

\* A value on the stack is below all that was opened later.
StackedIsKept ==
  \A v \in values : v.mode = "OnStack" =>
    /\ v.key \in DOMAIN stack /\ stack[v.key] = v.object
    /\ v.scope \in DOMAIN scopes
    /\ \A i \in DOMAIN scopes : i > v.scope => v.key <= scopes[i].top

\* A value in the table is in the table of the root that its thread has.
ReferencedIsKept ==
  /\ roots # {} => table \in Seq(LuaObjects)
  /\ \A v \in values : v.mode = "AsReference" =>
       v.thread \in roots /\ v.key \in DOMAIN table /\ table[v.key] = v.object

LuaInv == LuaTypes /\ TopsGrow /\ StackedIsKept /\ ReferencedIsKept

\* No scopes, no values.
LEMMA LuaInitially ==
  ASSUME LuaInit
  PROVE  LuaInv
BY DEF LuaInit, LuaInv, LuaTypes, TopsGrow, StackedIsKept, ReferencedIsKept

\* What is left when a sequence is cut off.
LEMMA PrefixFacts ==
  ASSUME NEW S, NEW list \in Seq(S), NEW n \in 0..Len(list)
  PROVE  /\ SubSeq(list, 1, n) \in Seq(S) /\ Len(SubSeq(list, 1, n)) = n
         /\ DOMAIN SubSeq(list, 1, n) = 1..n
         /\ \A k \in 1..n : SubSeq(list, 1, n)[k] = list[k]
OBVIOUS

\* A sequence and its elements.
LEMMA DomainFacts ==
  ASSUME NEW S, NEW list \in Seq(S)
  PROVE  /\ Len(list) \in Nat /\ DOMAIN list = 1..Len(list)
         /\ list # <<>> => Len(list) \in Nat \ {0}
         /\ \A k \in 1..Len(list) : list[k] \in S
OBVIOUS

\* Opening and leaving a scope: what leaving cuts off the stack lies above the top, and
\* belongs to no value of an outer scope.
LEMMA ScopesKeepLuaInv ==
  ASSUME LuaInv, (\E mode \in Modes : OpenInvocationScope(mode)) \/ CloseInvocationScope
  PROVE  LuaInv'
<1> USE DEF LuaInv
<1>1. ASSUME NEW mode \in Modes, OpenInvocationScope(mode) PROVE LuaInv'
  <2>1. /\ scopes' = Append(scopes, [mode |-> mode, top |-> Len(stack)])
        /\ UNCHANGED <<stack, table, roots, values>>
    BY <1>1 DEF OpenInvocationScope
  <2>2. /\ Len(scopes') = Len(scopes) + 1 /\ scopes' \in Seq([mode : Modes, top : Nat])
        /\ scopes'[Len(scopes')].top = Len(stack)
        /\ \A i \in DOMAIN scopes : scopes'[i] = scopes[i]
    BY <2>1 DEF LuaTypes
  <2>3. DOMAIN scopes' = 1..(Len(scopes) + 1) /\ DOMAIN scopes = 1..Len(scopes)
        /\ Len(scopes) \in Nat /\ Len(stack) \in Nat /\ DOMAIN stack = 1..Len(stack)
    BY <2>2 DEF LuaTypes
  <2>4. LuaTypes'
    BY <2>1, <2>2 DEF LuaTypes
  <2>5. TopsGrow'
    BY <2>1, <2>2, <2>3 DEF LuaTypes, TopsGrow
  <2>6. StackedIsKept'
    BY <2>1, <2>2, <2>3 DEF LuaTypes, StackedIsKept
  <2>7. ReferencedIsKept'
    BY <2>1 DEF ReferencedIsKept
  <2> QED BY <2>4, <2>5, <2>6, <2>7
<1>2. CASE CloseInvocationScope
  <2> DEFINE n == Len(scopes)  kept == scopes[n].top
  <2>1. /\ n \in Nat \ {0} /\ DOMAIN scopes = 1..n
        /\ \A i \in 1..n : scopes[i] \in [mode : Modes, top : Nat]
        /\ kept \in Nat /\ kept <= Len(stack) /\ Len(stack) \in Nat
        /\ DOMAIN stack = 1..Len(stack)
    <3>1. scopes # <<>> /\ scopes \in Seq([mode : Modes, top : Nat])
          /\ stack \in Seq(LuaObjects \cup {Other})
      BY <1>2 DEF CloseInvocationScope, LuaTypes
    <3>2. /\ n \in Nat \ {0} /\ DOMAIN scopes = 1..n
          /\ \A i \in 1..n : scopes[i] \in [mode : Modes, top : Nat]
          /\ Len(stack) \in Nat /\ DOMAIN stack = 1..Len(stack)
      BY <3>1, DomainFacts
    <3> HIDE DEF n
    <3>3. kept \in Nat /\ kept <= Len(stack)
      BY <3>2 DEF TopsGrow
    <3> QED BY <3>2, <3>3
  <2>2. scopes' = SubSeq(scopes, 1, n - 1)
    BY <1>2 DEF CloseInvocationScope, Front
  <2>3. /\ scopes' \in Seq([mode : Modes, top : Nat]) /\ DOMAIN scopes' = 1..(n - 1)
        /\ \A i \in 1..(n - 1) : scopes'[i] = scopes[i]
    <3> HIDE DEF n
    <3>1. n - 1 \in 0..n /\ scopes \in Seq([mode : Modes, top : Nat])
      BY <2>1 DEF LuaTypes
    <3> QED BY <2>2, <3>1, PrefixFacts DEF n
  <2>4. /\ values' = {v \in values : v.mode = "AsReference" \/ v.scope < n}
        /\ stack' \in {stack, SubSeq(stack, 1, kept)}
        /\ UNCHANGED <<table, roots>>
    BY <1>2 DEF CloseInvocationScope, Last
  <2> HIDE DEF n, kept
  <2>5. /\ stack' \in Seq(LuaObjects \cup {Other}) /\ DOMAIN stack' = 1..Len(stack')
        /\ Len(stack') \in Nat /\ kept <= Len(stack')
        /\ \A k \in 1..kept : stack'[k] = stack[k]
    <3>1. CASE stack' = stack
      BY <2>1, <3>1 DEF LuaTypes
    <3>2. CASE stack' = SubSeq(stack, 1, kept)
      <4>1. kept \in 0..Len(stack) /\ stack \in Seq(LuaObjects \cup {Other})
        BY <2>1 DEF LuaTypes
      <4>2. /\ stack' \in Seq(LuaObjects \cup {Other}) /\ Len(stack') = kept
            /\ DOMAIN stack' = 1..kept /\ \A k \in 1..kept : stack'[k] = stack[k]
        BY <3>2, <4>1, PrefixFacts
      <4> QED BY <2>1, <4>2
    <3> QED BY <2>4, <3>1, <3>2
  <2>6. LuaTypes'
    BY <2>3, <2>4, <2>5 DEF LuaTypes
  <2>7. TopsGrow'
    <3>1. \A i \in 1..(n - 1) : scopes[i].top <= kept /\ scopes[i].top \in Nat
      <4>1. ASSUME NEW i \in 1..(n - 1) PROVE scopes[i].top <= kept /\ scopes[i].top \in Nat
        <5>1. i \in DOMAIN scopes /\ n \in DOMAIN scopes /\ i <= n
          BY <2>1
        <5>2. scopes[i] \in [mode : Modes, top : Nat]
          BY <2>1, <5>1
        <5> QED BY <5>1, <5>2 DEF TopsGrow, kept
      <4> QED BY <4>1
    <3>2. \A i, j \in 1..(n - 1) : i <= j => scopes[i].top <= scopes[j].top
      <4>1. 1..(n - 1) \subseteq DOMAIN scopes
        BY <2>1
      <4> QED BY <4>1 DEF TopsGrow
    <3>3. \A i \in 1..(n - 1) : scopes[i].top <= Len(stack')
      BY <2>1, <2>5, <3>1
    <3> QED BY <2>3, <3>2, <3>3 DEF TopsGrow
  <2>8. ASSUME NEW v \in values', v.mode = "OnStack"
        PROVE  /\ v.key \in DOMAIN stack' /\ stack'[v.key] = v.object
               /\ v.scope \in DOMAIN scopes'
               /\ \A i \in DOMAIN scopes' : i > v.scope => v.key <= scopes'[i].top
    <3>1. v \in values /\ v.scope < n /\ v.key \in Nat /\ v.scope \in Nat
      BY <2>4, <2>8 DEF LuaTypes
    <3>2. v.key \in 1..kept /\ stack[v.key] = v.object /\ v.scope \in 1..n
      BY <2>1, <2>8, <3>1 DEF StackedIsKept, kept
    <3>3. \A i \in 1..(n - 1) : i > v.scope => v.key <= scopes[i].top
      BY <2>1, <2>8, <3>1 DEF StackedIsKept
    <3>4. v.key \in DOMAIN stack' /\ stack'[v.key] = v.object
      BY <2>1, <2>5, <3>2
    <3>5. v.scope \in DOMAIN scopes'
      BY <2>1, <2>3, <3>1, <3>2
    <3> QED BY <2>3, <3>3, <3>4, <3>5
  <2>9. StackedIsKept'
    BY <2>8 DEF StackedIsKept
  <2>10. ReferencedIsKept'
    BY <2>4 DEF ReferencedIsKept
  <2> QED BY <2>6, <2>7, <2>9, <2>10
<1> QED BY <1>1, <1>2

\* What is pushed leaves the values of the stack where they are.
LEMMA PushingKeepsStacked ==
  ASSUME LuaTypes, TopsGrow, StackedIsKept, NEW pushed \in Seq(LuaObjects \cup {Other}),
         stack' = stack \o pushed, UNCHANGED scopes
  PROVE  /\ stack' \in Seq(LuaObjects \cup {Other}) /\ TopsGrow'
         /\ Len(stack') = Len(stack) + Len(pushed) /\ DOMAIN stack' = 1..Len(stack')
         /\ \A v \in values : v.mode = "OnStack" =>
              /\ v.key \in DOMAIN stack' /\ stack'[v.key] = v.object
              /\ v.scope \in DOMAIN scopes'
              /\ \A i \in DOMAIN scopes' : i > v.scope => v.key <= scopes'[i].top
<1>1. /\ stack' \in Seq(LuaObjects \cup {Other}) /\ Len(stack') = Len(stack) + Len(pushed)
      /\ Len(stack) \in Nat /\ Len(pushed) \in Nat
      /\ \A k \in 1..Len(stack) : stack'[k] = stack[k]
      /\ DOMAIN stack' = 1..Len(stack') /\ DOMAIN stack = 1..Len(stack)
  BY DEF LuaTypes
<1>2. TopsGrow'
  <2>1. \A i \in DOMAIN scopes : scopes[i].top \in Nat
    <3>1. scopes \in Seq([mode : Modes, top : Nat])
      BY DEF LuaTypes
    <3>2. /\ DOMAIN scopes = 1..Len(scopes)
          /\ \A i \in 1..Len(scopes) : scopes[i] \in [mode : Modes, top : Nat]
      BY <3>1, DomainFacts
    <3> QED BY <3>2
  <2> QED BY <1>1, <2>1 DEF TopsGrow
<1>3. ASSUME NEW v \in values, v.mode = "OnStack"
      PROVE  /\ v.key \in DOMAIN stack' /\ stack'[v.key] = v.object
             /\ v.scope \in DOMAIN scopes'
             /\ \A i \in DOMAIN scopes' : i > v.scope => v.key <= scopes'[i].top
  <2>1. v.key \in 1..Len(stack) /\ stack[v.key] = v.object /\ v.scope \in DOMAIN scopes
        /\ \A i \in DOMAIN scopes : i > v.scope => v.key <= scopes[i].top
    BY <1>1, <1>3 DEF StackedIsKept
  <2> QED BY <1>1, <2>1
<1> QED BY <1>1, <1>2, <1>3

\* A result becomes a value, on the stack or in the table of the thread's root.
LEMMA ResultKeepsLuaInv ==
  ASSUME LuaAssumption, OneThread, LuaInv,
         NEW t \in LuaThreads, NEW object \in LuaObjects, MakeResult(t, object)
  PROVE  LuaInv'
<1> USE DEF LuaInv
<1>1. UNCHANGED scopes /\ MakeValue(t, object, stack)
  BY DEF MakeResult
<1>2. CASE KeepMode = "OnStack"
  <2> DEFINE new == [mode |-> "OnStack", key |-> Len(stack) + 1, object |-> object,
                     scope |-> Len(scopes), thread |-> t]
  <2>1. /\ stack' = Append(stack, object) /\ values' = values \cup {new}
        /\ UNCHANGED <<scopes, table, roots>>
    BY <1>1, <1>2 DEF MakeValue
  <2>2. stack' = stack \o <<object>> /\ <<object>> \in Seq(LuaObjects \cup {Other})
        /\ Len(<<object>>) = 1 /\ stack'[Len(stack) + 1] = object /\ Len(stack) \in Nat
    BY <2>1 DEF LuaTypes
  <2>3. /\ stack' \in Seq(LuaObjects \cup {Other}) /\ TopsGrow'
        /\ Len(stack') = Len(stack) + 1 /\ DOMAIN stack' = 1..Len(stack')
        /\ \A v \in values : v.mode = "OnStack" =>
             /\ v.key \in DOMAIN stack' /\ stack'[v.key] = v.object
             /\ v.scope \in DOMAIN scopes'
             /\ \A i \in DOMAIN scopes' : i > v.scope => v.key <= scopes'[i].top
    BY <2>1, <2>2, PushingKeepsStacked
  <2>4. scopes # <<>> /\ Len(scopes) \in Nat \ {0} /\ DOMAIN scopes = 1..Len(scopes)
    BY <1>2 DEF KeepMode, LuaTypes
  <2>5. new \in [mode : Modes, key : Nat, object : LuaObjects, scope : Nat, thread : LuaThreads]
    BY <2>2, <2>4 DEF Modes
  <2>6. LuaTypes'
    BY <2>1, <2>3, <2>5 DEF LuaTypes
  <2>7. new.mode = "OnStack" /\ new.key = Len(stack) + 1 /\ new.object = object
        /\ new.scope = Len(scopes)
    OBVIOUS
  <2> HIDE DEF new
  <2>8. StackedIsKept'
    BY <2>1, <2>2, <2>3, <2>4, <2>7 DEF StackedIsKept
  <2>9. ReferencedIsKept'
    BY <2>1, <2>7 DEF ReferencedIsKept
  <2> QED BY <2>3, <2>6, <2>8, <2>9
<1>3. CASE KeepMode # "OnStack"
  <2> DEFINE new == [mode |-> "AsReference", key |-> Len(Table(t)) + 1, object |-> object,
                     scope |-> Len(scopes), thread |-> t]
  <2>1. /\ stack' = stack /\ values' = values \cup {new}
        /\ table' = Append(Table(t), object) /\ roots' = roots \cup {t}
    BY <1>1, <1>3 DEF MakeValue
  <2>2. Table(t) \in Seq(LuaObjects) /\ Len(Table(t)) \in Nat
    BY DEF Table, ReferencedIsKept
  <2>3. /\ table' \in Seq(LuaObjects) /\ DOMAIN table' = 1..(Len(Table(t)) + 1)
        /\ table'[Len(Table(t)) + 1] = object
        /\ \A k \in DOMAIN Table(t) : k \in DOMAIN table' /\ table'[k] = Table(t)[k]
    BY <2>1, <2>2
  <2>4. new \in [mode : Modes, key : Nat, object : LuaObjects, scope : Nat, thread : LuaThreads]
    BY <2>2 DEF Modes, LuaTypes
  <2>5. new.mode = "AsReference" /\ new.key = Len(Table(t)) + 1 /\ new.object = object
        /\ new.thread = t
    OBVIOUS
  <2> HIDE DEF new
  <2>6. LuaTypes' /\ TopsGrow'
    BY <1>1, <2>1, <2>4 DEF LuaTypes, TopsGrow
  <2>7. StackedIsKept'
    BY <1>1, <2>1, <2>5 DEF StackedIsKept
  <2>8. ASSUME NEW v \in values, v.mode = "AsReference"
        PROVE  v.thread \in roots' /\ v.key \in DOMAIN table' /\ table'[v.key] = v.object
    <3>1. v.thread \in roots /\ v.key \in DOMAIN table /\ table[v.key] = v.object
      BY <2>8 DEF ReferencedIsKept
    <3>2. Table(t) = table
      BY <3>1 DEF Table, OneThread, LuaTypes
    <3> QED BY <2>1, <2>3, <3>1, <3>2
  <2>9. ReferencedIsKept'
    BY <2>1, <2>2, <2>3, <2>5, <2>8 DEF ReferencedIsKept
  <2> QED BY <2>6, <2>7, <2>9
<1> QED BY <1>2, <1>3

\* Setting a field leaves tables on the stack; a value that goes takes the table along if
\* no other value is in it.
LEMMA ValuesStepKeepsLuaInv ==
  ASSUME OneThread, LuaInv, NEW v \in values,
         (\E fieldIsTable \in BOOLEAN : SetField(v, fieldIsTable)) \/ ReleaseValue(v)
  PROVE  LuaInv'
<1> USE DEF LuaInv
<1>1. ASSUME NEW fieldIsTable \in BOOLEAN, SetField(v, fieldIsTable) PROVE LuaInv'
  <2> DEFINE pushed == IF fieldIsTable THEN <<v.object, Other>> ELSE <<v.object>>
  <2>1. stack' = stack \o pushed /\ UNCHANGED <<scopes, table, roots, values>>
    BY <1>1 DEF SetField
  <2>2. v.object \in LuaObjects
    BY DEF LuaTypes
  <2>3. pushed \in Seq(LuaObjects \cup {Other})
    <3>1. <<v.object, Other>> \in Seq(LuaObjects \cup {Other})
      BY <2>2
    <3>2. <<v.object>> \in Seq(LuaObjects \cup {Other})
      BY <2>2
    <3> QED BY <3>1, <3>2
  <2> HIDE DEF pushed
  <2>4. /\ stack' \in Seq(LuaObjects \cup {Other}) /\ TopsGrow'
        /\ \A w \in values : w.mode = "OnStack" =>
             /\ w.key \in DOMAIN stack' /\ stack'[w.key] = w.object
             /\ w.scope \in DOMAIN scopes'
             /\ \A i \in DOMAIN scopes' : i > w.scope => w.key <= scopes'[i].top
    BY <2>1, <2>3, PushingKeepsStacked
  <2>5. LuaTypes' /\ StackedIsKept' /\ ReferencedIsKept'
    BY <2>1, <2>4 DEF LuaTypes, StackedIsKept, ReferencedIsKept
  <2> QED BY <2>4, <2>5
<1>2. CASE ReleaseValue(v)
  <2>1. values' = values \ {v} /\ UNCHANGED <<stack, scopes>>
    BY <1>2 DEF ReleaseValue
  <2>2. \/ UNCHANGED <<roots, table>>
        \/ /\ roots' = roots \ {v.thread} /\ v.mode = "AsReference"
           /\ ~\E w \in values' : w.mode = "AsReference" /\ w.thread = v.thread
    BY <1>2 DEF ReleaseValue
  <2>3. LuaTypes' /\ TopsGrow' /\ StackedIsKept'
    BY <2>1, <2>2 DEF LuaTypes, TopsGrow, StackedIsKept
  <2>4. ASSUME UNCHANGED <<roots, table>> PROVE ReferencedIsKept'
    BY <2>1, <2>4 DEF ReferencedIsKept
  <2>5. ASSUME roots' = roots \ {v.thread}, v.mode = "AsReference",
               ~\E w \in values' : w.mode = "AsReference" /\ w.thread = v.thread
        PROVE  ReferencedIsKept'
    <3>1. \A w \in values' : w.mode # "AsReference"
      BY <2>1, <2>5 DEF OneThread, LuaTypes
    <3>2. roots' = {}
      BY <2>5 DEF OneThread, LuaTypes
    <3> QED BY <3>1, <3>2 DEF ReferencedIsKept
  <2>6. ReferencedIsKept'
    BY <2>2, <2>4, <2>5
  <2> QED BY <2>3, <2>6
<1> QED BY <1>1, <1>2

\* Every step keeps the invariant.
LEMMA StepKeepsLuaInv ==
  ASSUME LuaAssumption, OneThread, LuaInv, [LuaNext]_luaVars
  PROVE  LuaInv'
<1>1. CASE UNCHANGED luaVars
  BY <1>1 DEF luaVars, LuaInv, LuaTypes, TopsGrow, StackedIsKept, ReferencedIsKept
<1>2. CASE LuaNext
  BY <1>2, ScopesKeepLuaInv, ResultKeepsLuaInv, ValuesStepKeepsLuaInv DEF LuaNext
<1> QED BY <1>1, <1>2

\* And so each value denotes its object.
LEMMA ValuesDenote ==
  ASSUME LuaAssumption, LuaInv
  PROVE  ValueDenotesObject
<1>1. ASSUME NEW v \in values, v.mode # "OnStack"
      PROVE  table # NoTable /\ v.key \in DOMAIN table /\ table[v.key] = v.object
  <2>1. v.mode = "AsReference" /\ v.object \in LuaObjects
    BY <1>1 DEF LuaInv, LuaTypes, Modes
  <2>2. v.key \in DOMAIN table /\ table[v.key] = v.object
    BY <1>1, <2>1 DEF LuaInv, ReferencedIsKept
  <2>3. ASSUME table = NoTable PROVE FALSE
    <3>1. DOMAIN NoTable = {1} /\ NoTable[1] = "no table"
      BY DEF NoTable
    <3> QED BY <2>1, <2>2, <2>3, <3>1 DEF LuaAssumption
  <2> QED BY <2>2, <2>3
<1> QED BY <1>1 DEF LuaInv, StackedIsKept, ValueDenotesObject

\* The first interface that pushRuntimeValue finds is the one of the kind.
LEMMA ScalarsComeBack == ScalarsRoundTrip
<1>1. ASSUME NEW kind, NEW n \in 1..7, Interfaces(kind) # {}, IsFirst(n, kind)
      PROVE  PushRuntimeValue(kind) = PushedAs[n]
  <2> DEFINE first == CHOOSE i \in 1..7 : IsFirst(i, kind)
  <2>1. first \in 1..7 /\ IsFirst(first, kind)
    BY <1>1
  <2>2. PushRuntimeValue(kind) = PushedAs[first]
    BY <1>1 DEF PushRuntimeValue
  <2> HIDE DEF first
  <2>3. first = n
    BY <1>1, <2>1 DEF IsFirst
  <2> QED BY <2>2, <2>3
<1>2. PushRuntimeValue("nil") = "nil"
  BY <1>1 DEF IsFirst, Interfaces, PushOrder, PushedAs
<1>3. PushRuntimeValue("string") = "string"
  BY <1>1 DEF IsFirst, Interfaces, PushOrder, PushedAs
<1>4. PushRuntimeValue("boolean") = "boolean"
  BY <1>1 DEF IsFirst, Interfaces, PushOrder, PushedAs
<1>5. PushRuntimeValue("integer") = "integer"
  BY <1>1 DEF IsFirst, Interfaces, PushOrder, PushedAs
<1>6. PushRuntimeValue("array") = "array"
  BY <1>1 DEF IsFirst, Interfaces, PushOrder, PushedAs
<1>7. PushRuntimeValue("table") = "table"
  BY <1>1 DEF IsFirst, Interfaces, PushOrder, PushedAs
<1> QED BY <1>2, <1>3, <1>4, <1>5, <1>6, <1>7 DEF ScalarsRoundTrip

-----------------------------------------------------------------------------
(***************************************************************************)
(* References: for any finite set of threads and any number of Ptr a       *)
(* thread may keep, all of them copying, acquiring and giving back at      *)
(* once.  The invariant says what the two counters count, as long as no    *)
(* acquisition has stored a wrong number.                                  *)
(***************************************************************************)
\* The Ptr, one by one; the threads between the two counters of a new Ptr;
\* the WeakPtr; the threads that have still to give up a part of the storage.
Ptrs == {x \in Users \X (1..MaxRefs) : x[2] <= strong[x[1]]}
Gaining == {u \in Users : doing[u] \in {"copied", "acquired"}}
Weaks == {u \in Users : weak[u]}
Releasing == {u \in Users : doing[u] = "storage"}

RefTypeOK ==
  /\ strong \in [Users -> 0..MaxRefs] /\ weak \in [Users -> BOOLEAN]
  /\ instances \in Nat /\ states \in Nat
  /\ instance \in {"alive", "destroyed"} /\ storage \in {"allocated", "freed"}
  /\ doing \in [Users -> {"idle", "copied", "storage", "reload", "exchange", "acquired"}]
  /\ seen \in [Users -> Nat] /\ again \in [Users -> Nat]
  /\ underflow = FALSE /\ miscounted = FALSE

CountersInv ==
  /\ instances = Cardinality(Ptrs) + Cardinality(Gaining)
  /\ states = Cardinality(Ptrs) + Cardinality(Weaks) + Cardinality(Releasing)

\* An instance is there as long as its counter is not zero, and so its storage.
LifeInv ==
  /\ instance = "alive" <=> instances > 0
  /\ storage = "allocated" <=> states > 0

\* A thread that makes a Ptr has what it makes it of, and room for it.
MakingInv ==
  \A u \in Users :
    /\ doing[u] = "copied" => strong[u] > 0
    /\ doing[u] \in {"reload", "exchange", "acquired"} => weak[u]
    /\ doing[u] \in {"copied", "reload", "exchange", "acquired"} => strong[u] < MaxRefs

\* A thread inside tryAddRef has seen a counter that was not zero.
AcquiringInv == \A u \in Users : doing[u] \in {"reload", "exchange"} => seen[u] > 0

RefInv == RefTypeOK /\ CountersInv /\ LifeInv /\ MakingInv /\ AcquiringInv

\* Nothing is known of the counters any more once one is wrong.
CountedInv == miscounted = TRUE \/ RefInv

-----------------------------------------------------------------------------
(* Counting *)

\* The cardinality of a set that a step makes of another one.
LEMMA StepCounted ==
  ASSUME NEW U, IsFiniteSet(U), NEW S \in SUBSET U, NEW T, NEW x, NEW d \in {-1, 0, 1},
         d = -1 => T = S \ {x} /\ x \in S,
         d = 0 => T = S,
         d = 1 => T = S \cup {x} /\ x \notin S
  PROVE  Cardinality(S) \in Nat /\ Cardinality(T) = Cardinality(S) + d
<1>1. IsFiniteSet(S) /\ Cardinality(S) \in Nat
  BY FS_Subset, FS_CardinalityType
<1>2. d = -1 => Cardinality(T) = Cardinality(S) - 1
  BY <1>1, FS_RemoveElement
<1>3. d = 1 => Cardinality(T) = Cardinality(S) + 1
  BY <1>1, FS_AddElement
<1> QED BY <1>1, <1>2, <1>3

\* The sets that the counters count are finite.
LEMMA CountedSets ==
  ASSUME RefCountAssumption
  PROVE  /\ IsFiniteSet(Users) /\ IsFiniteSet(Users \X (1..MaxRefs))
         /\ Ptrs \in SUBSET (Users \X (1..MaxRefs))
         /\ Gaining \in SUBSET Users /\ Weaks \in SUBSET Users /\ Releasing \in SUBSET Users
<1>1. IsFiniteSet(1..MaxRefs)
  BY FS_Interval DEF RefCountAssumption
<1> QED BY <1>1, FS_Product DEF RefCountAssumption, Ptrs, Gaining, Weaks, Releasing

\* The counters are right after a step that moves them with what they count and
\* leaves the Ptr alone.
LEMMA CountersKept ==
  ASSUME RefCountAssumption, CountersInv, NEW u,
         NEW g \in {-1, 0, 1}, NEW w \in {-1, 0, 1}, NEW r \in {-1, 0, 1},
         Ptrs' = Ptrs,
         g = -1 => Gaining' = Gaining \ {u} /\ u \in Gaining,
         g = 0 => Gaining' = Gaining,
         g = 1 => Gaining' = Gaining \cup {u} /\ u \notin Gaining,
         w = -1 => Weaks' = Weaks \ {u} /\ u \in Weaks,
         w = 0 => Weaks' = Weaks,
         w = 1 => Weaks' = Weaks \cup {u} /\ u \notin Weaks,
         r = -1 => Releasing' = Releasing \ {u} /\ u \in Releasing,
         r = 0 => Releasing' = Releasing,
         r = 1 => Releasing' = Releasing \cup {u} /\ u \notin Releasing,
         instances' = instances + g, states' = states + w + r
  PROVE  CountersInv'
<1>1. Cardinality(Ptrs) \in Nat
  BY CountedSets, FS_Subset, FS_CardinalityType
<1>2. Cardinality(Gaining) \in Nat /\ Cardinality(Gaining') = Cardinality(Gaining) + g
  BY CountedSets, StepCounted
<1>3. Cardinality(Weaks) \in Nat /\ Cardinality(Weaks') = Cardinality(Weaks) + w
  BY CountedSets, StepCounted
<1>4. Cardinality(Releasing) \in Nat /\ Cardinality(Releasing') = Cardinality(Releasing) + r
  BY CountedSets, StepCounted
<1>5. ASSUME NEW a \in Nat, NEW b \in Nat, NEW c \in Nat, NEW e \in Nat
      PROVE  a + b + g = a + (b + g) /\ a + c + e + w + r = a + (c + w) + (e + r)
  OBVIOUS
<1> QED BY <1>1, <1>2, <1>3, <1>4, <1>5 DEF CountersInv

\* Whoever has a Ptr, a WeakPtr or a part of the storage has been counted.
LEMMA Counted ==
  ASSUME RefCountAssumption, RefTypeOK, CountersInv, NEW u \in Users
  PROVE  /\ strong[u] > 0 => instances > 0 /\ states > 0
         /\ weak[u] => states > 0
         /\ doing[u] \in {"copied", "acquired"} => instances > 0
         /\ doing[u] = "storage" => states > 0
<1>1. /\ IsFiniteSet(Ptrs) /\ IsFiniteSet(Gaining) /\ IsFiniteSet(Weaks) /\ IsFiniteSet(Releasing)
      /\ Cardinality(Ptrs) \in Nat /\ Cardinality(Gaining) \in Nat
      /\ Cardinality(Weaks) \in Nat /\ Cardinality(Releasing) \in Nat
  BY CountedSets, FS_Subset, FS_CardinalityType
<1>2. /\ strong[u] > 0 => <<u, 1>> \in Ptrs
      /\ weak[u] => u \in Weaks
      /\ doing[u] \in {"copied", "acquired"} => u \in Gaining
      /\ doing[u] = "storage" => u \in Releasing
  BY DEF RefTypeOK, Ptrs, Gaining, Weaks, Releasing, RefCountAssumption
<1>3. /\ strong[u] > 0 => Cardinality(Ptrs) # 0
      /\ weak[u] => Cardinality(Weaks) # 0
      /\ doing[u] \in {"copied", "acquired"} => Cardinality(Gaining) # 0
      /\ doing[u] = "storage" => Cardinality(Releasing) # 0
  BY <1>1, <1>2, FS_EmptySet
<1> QED BY <1>1, <1>3 DEF CountersInv

\* Nobody has a Ptr or makes one, or nobody has a part of the storage.
LEMMA CountedNone ==
  ASSUME RefCountAssumption, RefTypeOK, CountersInv, Idle, \A u \in Users : strong[u] = 0
  PROVE  instances = 0 /\ ((\A u \in Users : ~weak[u]) => states = 0)
<1>1. Ptrs = {} /\ Gaining = {} /\ Releasing = {}
  BY DEF Ptrs, Gaining, Releasing, Idle
<1>2. (\A u \in Users : ~weak[u]) => Weaks = {}
  BY DEF Weaks
<1> QED BY <1>1, <1>2, FS_EmptySet DEF CountersInv

-----------------------------------------------------------------------------
(* The steps *)

\* The threads inside tryAddRef, and those that copy a Ptr.
LEMMA CopyPtrKeepsRefInv ==
  ASSUME RefCountAssumption, RefInv, NEW u \in Users, CopyPtr(u)
  PROVE  RefInv'
<1>1. /\ strong[u] > 0 /\ strong[u] < MaxRefs /\ doing[u] = "idle"
      /\ doing' = [doing EXCEPT ![u] = "copied"] /\ instances' = instances + 1
      /\ UNCHANGED <<strong, weak, states, instance, storage, seen, again, underflow, miscounted>>
  BY DEF CopyPtr, Proceed, RefInv, RefTypeOK, RefCountAssumption
<1>2. instances > 0
  BY <1>1, Counted DEF RefInv
<1>3. /\ Ptrs' = Ptrs /\ Gaining' = Gaining \cup {u} /\ u \notin Gaining /\ Weaks' = Weaks
      /\ Releasing' = Releasing
  BY <1>1 DEF RefInv, RefTypeOK, Ptrs, Gaining, Weaks, Releasing
<1>4. instances' = instances + 1 /\ states' = states + 0 + 0
  BY <1>1 DEF RefInv, RefTypeOK
<1>5. CountersInv'
  BY <1>3, <1>4, CountersKept DEF RefInv
<1>6. RefTypeOK'
  BY <1>1 DEF RefInv, RefTypeOK
<1>7. LifeInv'
  BY <1>1, <1>2 DEF RefInv, LifeInv, RefTypeOK
<1>8. MakingInv'
  BY <1>1 DEF RefInv, MakingInv, RefTypeOK
<1>9. AcquiringInv'
  BY <1>1, <1>3 DEF RefInv, AcquiringInv, RefTypeOK
<1> QED BY <1>5, <1>6, <1>7, <1>8, <1>9 DEF RefInv

\* The second step of a copy, which counts the storage.
LEMMA CopyPtrStateKeepsRefInv ==
  ASSUME RefCountAssumption, RefInv, NEW u \in Users, CopyPtrState(u)
  PROVE  RefInv'
<1>1. /\ doing[u] \in {"copied", "acquired"} /\ doing' = [doing EXCEPT ![u] = "idle"]
      /\ states' = states + 1 /\ strong' = [strong EXCEPT ![u] = @ + 1]
      /\ UNCHANGED <<weak, instances, instance, storage, seen, again, underflow, miscounted>>
      /\ strong[u] \in 0..MaxRefs /\ strong[u] < MaxRefs
  BY DEF CopyPtrState, RefInv, RefTypeOK, MakingInv
<1>2. states > 0
  BY <1>1, Counted DEF RefInv, MakingInv
<1>3. /\ Ptrs' = Ptrs \cup {<<u, strong[u] + 1>>} /\ <<u, strong[u] + 1>> \notin Ptrs
      /\ Gaining' = Gaining \ {u} /\ u \in Gaining /\ Weaks' = Weaks
      /\ Releasing' = Releasing
  <2>1. /\ Gaining' = Gaining \ {u} /\ u \in Gaining /\ Weaks' = Weaks
        /\ Releasing' = Releasing
    BY <1>1 DEF RefInv, RefTypeOK, Gaining, Weaks, Releasing
  <2>2. <<u, strong[u] + 1>> \in Users \X (1..MaxRefs) /\ <<u, strong[u] + 1>> \notin Ptrs
    BY <1>1 DEF Ptrs, RefCountAssumption
  <2>3. ASSUME NEW x \in Users \X (1..MaxRefs)
        PROVE  x \in Ptrs' <=> x \in Ptrs \/ x = <<u, strong[u] + 1>>
    <3>1. PICK v \in Users, k \in 1..MaxRefs : x = <<v, k>>
      OBVIOUS
    <3>2. strong'[v] = IF v = u THEN strong[u] + 1 ELSE strong[v]
      BY <1>1 DEF RefInv, RefTypeOK
    <3>3. strong[v] \in Nat
      BY DEF RefInv, RefTypeOK
    <3> QED BY <1>1, <3>1, <3>2, <3>3 DEF Ptrs
  <2>4. Ptrs \subseteq Users \X (1..MaxRefs) /\ Ptrs' \subseteq Users \X (1..MaxRefs)
    BY DEF Ptrs
  <2>5. Ptrs' = Ptrs \cup {<<u, strong[u] + 1>>}
    BY <2>2, <2>3, <2>4
  <2> QED BY <2>1, <2>2, <2>5
<1>4. CountersInv'
  <2> DEFINE x == <<u, strong[u] + 1>>
  <2>1. Ptrs' = Ptrs \cup {x} /\ x \notin Ptrs
    BY <1>3
  <2> HIDE DEF x
  <2>2. Cardinality(Ptrs) \in Nat /\ Cardinality(Ptrs') = Cardinality(Ptrs) + 1
    BY <2>1, CountedSets, StepCounted
  <2>3. Cardinality(Gaining) \in Nat /\ Cardinality(Gaining') = Cardinality(Gaining) + (-1)
    BY <1>3, CountedSets, StepCounted
  <2>4. Cardinality(Weaks) \in Nat /\ Cardinality(Releasing) \in Nat
    BY CountedSets, FS_Subset, FS_CardinalityType
  <2> QED BY <1>1, <1>3, <2>2, <2>3, <2>4 DEF RefInv, CountersInv
<1>5. RefTypeOK'
  BY <1>1 DEF RefInv, RefTypeOK, RefCountAssumption
<1>6. LifeInv'
  BY <1>1, <1>2 DEF RefInv, LifeInv, RefTypeOK
<1>7. MakingInv'
  BY <1>1 DEF RefInv, MakingInv, RefTypeOK
<1>8. AcquiringInv'
  BY <1>1, <1>3 DEF RefInv, AcquiringInv, RefTypeOK
<1> QED BY <1>4, <1>5, <1>6, <1>7, <1>8 DEF RefInv

\* The last Ptr destroys the instance.
LEMMA ReleasePtrKeepsRefInv ==
  ASSUME RefCountAssumption, RefInv, NEW u \in Users, ReleasePtr(u)
  PROVE  RefInv'
<1>1. /\ strong[u] \in 1..MaxRefs /\ doing[u] = "idle" /\ doing' = [doing EXCEPT ![u] = "storage"]
      /\ strong' = [strong EXCEPT ![u] = @ - 1]
      /\ UNCHANGED <<weak, states, storage, seen, again, miscounted>>
  BY DEF ReleasePtr, Proceed, RefInv, RefTypeOK, RefCountAssumption
<1>2. /\ instances > 0 /\ instances' = instances - 1 /\ underflow' = FALSE
      /\ instance' = IF instances = 1 THEN "destroyed" ELSE instance
  <2>1. instances > 0
    BY <1>1, Counted DEF RefInv
  <2>2. underflow' = (underflow \/ instances = 0) /\ instances # 0 /\ underflow = FALSE
    BY <2>1 DEF RefInv, RefTypeOK, ReleasePtr
  <2>3. underflow' = FALSE
    BY <2>2, Zenon
  <2> QED BY <2>1, <2>3 DEF ReleasePtr, Decremented
<1>3. /\ Ptrs' = Ptrs \ {<<u, strong[u]>>} /\ <<u, strong[u]>> \in Ptrs
      /\ Gaining' = Gaining /\ Weaks' = Weaks
      /\ Releasing' = Releasing \cup {u} /\ u \notin Releasing
  <2>1. /\ Gaining' = Gaining /\ Weaks' = Weaks
        /\ Releasing' = Releasing \cup {u} /\ u \notin Releasing
    BY <1>1 DEF RefInv, RefTypeOK, Gaining, Weaks, Releasing
  <2>2. <<u, strong[u]>> \in Ptrs
    BY <1>1 DEF Ptrs
  <2>3. ASSUME NEW x \in Users \X (1..MaxRefs)
        PROVE  x \in Ptrs' <=> x \in Ptrs /\ x # <<u, strong[u]>>
    <3>1. PICK v \in Users, k \in 1..MaxRefs : x = <<v, k>>
      OBVIOUS
    <3>2. strong'[v] = IF v = u THEN strong[u] - 1 ELSE strong[v]
      BY <1>1 DEF RefInv, RefTypeOK
    <3>3. strong[v] \in Nat
      BY DEF RefInv, RefTypeOK
    <3> QED BY <1>1, <3>1, <3>2, <3>3 DEF Ptrs
  <2>4. Ptrs \subseteq Users \X (1..MaxRefs) /\ Ptrs' \subseteq Users \X (1..MaxRefs)
    BY DEF Ptrs
  <2>5. Ptrs' = Ptrs \ {<<u, strong[u]>>}
    BY <2>3, <2>4
  <2> QED BY <2>1, <2>2, <2>5
<1>4. CountersInv'
  <2> DEFINE x == <<u, strong[u]>>
  <2>1. Ptrs' = Ptrs \ {x} /\ x \in Ptrs
    BY <1>3
  <2> HIDE DEF x
  <2>2. Cardinality(Ptrs) \in Nat /\ Cardinality(Ptrs') = Cardinality(Ptrs) + (-1)
    BY <2>1, CountedSets, StepCounted
  <2>3. Cardinality(Releasing) \in Nat /\ Cardinality(Releasing') = Cardinality(Releasing) + 1
    BY <1>3, CountedSets, StepCounted
  <2>4. Cardinality(Weaks) \in Nat /\ Cardinality(Gaining) \in Nat
    BY CountedSets, FS_Subset, FS_CardinalityType
  <2> QED BY <1>1, <1>2, <1>3, <2>2, <2>3, <2>4 DEF RefInv, CountersInv
<1>5. RefTypeOK'
  <2>1. strong' \in [Users -> 0..MaxRefs] /\ instances' \in Nat
    <3>1. strong[u] - 1 \in 0..MaxRefs /\ instances - 1 \in Nat
      BY <1>1, <1>2 DEF RefInv, RefTypeOK, RefCountAssumption
    <3> QED BY <1>1, <1>2, <3>1 DEF RefInv, RefTypeOK
  <2>2. instance' \in {"alive", "destroyed"}
    BY <1>2 DEF RefInv, RefTypeOK
  <2> QED BY <1>1, <1>2, <2>1, <2>2 DEF RefInv, RefTypeOK
<1>6. LifeInv'
  BY <1>1, <1>2 DEF RefInv, LifeInv, RefTypeOK
<1>7. MakingInv'
  BY <1>1 DEF RefInv, MakingInv, RefTypeOK
<1>8. AcquiringInv'
  BY <1>1, <1>2, <1>3 DEF RefInv, AcquiringInv, RefTypeOK
<1> QED BY <1>4, <1>5, <1>6, <1>7, <1>8 DEF RefInv

\* The last part of the storage frees it.
LEMMA ReleaseStorageKeepsRefInv ==
  ASSUME RefCountAssumption, RefInv, NEW u \in Users, ReleaseStorage(u)
  PROVE  RefInv'
<1>1. /\ doing[u] = "storage" /\ doing' = [doing EXCEPT ![u] = "idle"]
      /\ UNCHANGED <<strong, weak, instances, instance, seen, again, miscounted>>
  BY DEF ReleaseStorage, Proceed
<1>2. /\ states > 0 /\ states' = states - 1 /\ underflow' = FALSE
      /\ storage' = IF states = 1 THEN "freed" ELSE storage
  <2>1. states > 0
    BY <1>1, Counted DEF RefInv
  <2>2. underflow' = (underflow \/ states = 0) /\ states # 0 /\ underflow = FALSE
    BY <2>1 DEF RefInv, RefTypeOK, ReleaseStorage
  <2>3. underflow' = FALSE
    BY <2>2, Zenon
  <2> QED BY <2>1, <2>3 DEF ReleaseStorage, Decremented
<1>3. /\ Ptrs' = Ptrs /\ Gaining' = Gaining /\ Weaks' = Weaks
      /\ Releasing' = Releasing \ {u} /\ u \in Releasing
  BY <1>1 DEF RefInv, RefTypeOK, Ptrs, Gaining, Weaks, Releasing
<1>4. instances' = instances + 0 /\ states' = states + 0 + (-1)
  BY <1>1, <1>2 DEF RefInv, RefTypeOK
<1>5. CountersInv'
  BY <1>3, <1>4, CountersKept DEF RefInv
<1>6. RefTypeOK'
  BY <1>1, <1>2 DEF RefInv, RefTypeOK
<1>7. LifeInv'
  BY <1>1, <1>2 DEF RefInv, LifeInv, RefTypeOK
<1>8. MakingInv'
  BY <1>1 DEF RefInv, MakingInv, RefTypeOK
<1>9. AcquiringInv'
  BY <1>1, <1>3 DEF RefInv, AcquiringInv, RefTypeOK
<1> QED BY <1>5, <1>6, <1>7, <1>8, <1>9 DEF RefInv

\* A WeakPtr counts for the storage only.
LEMMA WeakKeepsRefInv ==
  ASSUME RefCountAssumption, RefInv, NEW u \in Users, ReleaseWeak(u) \/ MakeWeak(u)
  PROVE  RefInv'
<1>1. /\ UNCHANGED <<strong, instances, instance, storage, seen, again, underflow, miscounted>>
      /\ doing[u] = "idle"
      /\ \/ /\ weak[u] /\ weak' = [weak EXCEPT ![u] = FALSE] /\ states' = states
            /\ doing' = [doing EXCEPT ![u] = "storage"]
         \/ /\ ~weak[u] /\ weak' = [weak EXCEPT ![u] = TRUE] /\ states' = states + 1
            /\ doing' = doing /\ strong[u] > 0
  BY DEF ReleaseWeak, MakeWeak, Proceed
<1>2. states > 0
  BY <1>1, Counted DEF RefInv
<1>3. Ptrs' = Ptrs /\ Gaining' = Gaining
  BY <1>1 DEF RefInv, RefTypeOK, Ptrs, Gaining
<1>4. CountersInv'
  <2>1. CASE weak[u]
    <3>1. /\ Weaks' = Weaks \ {u} /\ u \in Weaks
          /\ Releasing' = Releasing \cup {u} /\ u \notin Releasing
      BY <1>1, <2>1 DEF RefInv, RefTypeOK, Weaks, Releasing
    <3>2. instances' = instances + 0 /\ states' = states + (-1) + 1
      BY <1>1, <2>1 DEF RefInv, RefTypeOK
    <3> QED BY <1>3, <3>1, <3>2, CountersKept DEF RefInv
  <2>2. CASE ~weak[u]
    <3>1. Weaks' = Weaks \cup {u} /\ u \notin Weaks /\ Releasing' = Releasing
      BY <1>1, <2>2 DEF RefInv, RefTypeOK, Weaks, Releasing
    <3>2. instances' = instances + 0 /\ states' = states + 1 + 0
      BY <1>1, <2>2 DEF RefInv, RefTypeOK
    <3> QED BY <1>3, <3>1, <3>2, CountersKept DEF RefInv
  <2> QED BY <2>1, <2>2
<1>5. RefTypeOK'
  <2>1. weak' \in [Users -> BOOLEAN]
    <3>1. weak \in [Users -> BOOLEAN] /\ \E b \in BOOLEAN : weak' = [weak EXCEPT ![u] = b]
      BY <1>1 DEF RefInv, RefTypeOK
    <3> QED BY <3>1
  <2> QED BY <1>1, <2>1 DEF RefInv, RefTypeOK
<1>6. LifeInv'
  BY <1>1, <1>2 DEF RefInv, LifeInv, RefTypeOK
<1>7. MakingInv'
  BY <1>1 DEF RefInv, MakingInv, RefTypeOK
<1>8. AcquiringInv'
  BY <1>1, <1>3 DEF RefInv, AcquiringInv, RefTypeOK
<1> QED BY <1>4, <1>5, <1>6, <1>7, <1>8 DEF RefInv

\* The two loads of tryAddRef, which change no counter.
LEMMA LoadsKeepRefInv ==
  ASSUME RefCountAssumption, RefInv, NEW u \in Users, Load(u) \/ Reload(u)
  PROVE  RefInv'
<1>1. /\ UNCHANGED <<strong, weak, instances, states, instance, storage, underflow, miscounted>>
      /\ \/ /\ doing[u] = "idle" /\ weak[u] /\ strong[u] < MaxRefs
            /\ doing' = [doing EXCEPT ![u] = IF instances = 0 THEN "idle" ELSE "reload"]
            /\ seen' = [seen EXCEPT ![u] = instances] /\ again' = again
         \/ /\ doing[u] = "reload" /\ doing' = [doing EXCEPT ![u] = "exchange"]
            /\ again' = [again EXCEPT ![u] = instances] /\ seen' = seen
  BY DEF Load, Reload, Proceed
<1>2. Ptrs' = Ptrs /\ Gaining' = Gaining /\ Weaks' = Weaks /\ Releasing' = Releasing
  BY <1>1 DEF RefInv, RefTypeOK, Ptrs, Gaining, Weaks, Releasing
<1>3. CountersInv'
  BY <1>1, <1>2 DEF RefInv, CountersInv
<1>4. RefTypeOK'
  BY <1>1 DEF RefInv, RefTypeOK
<1>5. LifeInv'
  BY <1>1 DEF RefInv, LifeInv
<1>6. MakingInv'
  BY <1>1 DEF RefInv, MakingInv, RefTypeOK
<1>7. AcquiringInv'
  BY <1>1 DEF RefInv, AcquiringInv, RefTypeOK
<1> QED BY <1>3, <1>4, <1>5, <1>6, <1>7 DEF RefInv

\* An exchange that succeeds adds one to what the counter is, or has miscounted.
LEMMA ExchangeKeepsRefInv ==
  ASSUME RefCountAssumption, RefInv, NEW u \in Users, Exchange(u)
  PROVE  CountedInv'
<1>1. /\ UNCHANGED <<strong, weak, states, instance, storage, underflow>>
      /\ doing[u] = "exchange" /\ seen[u] > 0
  BY DEF Exchange, RefInv, AcquiringInv
<1>2. /\ Ptrs' = Ptrs /\ Weaks' = Weaks
  BY <1>1 DEF Ptrs, Weaks
<1>3. CASE instances = seen[u] /\ again[u] = seen[u]
  <2>1. /\ instances' = instances + 1 /\ instances > 0 /\ doing' = [doing EXCEPT ![u] = "acquired"]
        /\ seen' = [seen EXCEPT ![u] = 0] /\ again' = [again EXCEPT ![u] = 0]
        /\ miscounted' = miscounted
    BY <1>1, <1>3 DEF Exchange
  <2>2. Gaining' = Gaining \cup {u} /\ u \notin Gaining /\ Releasing' = Releasing
    BY <1>1, <2>1 DEF RefInv, RefTypeOK, Gaining, Releasing
  <2>3. instances' = instances + 1 /\ states' = states + 0 + 0
    BY <1>1, <2>1 DEF RefInv, RefTypeOK
  <2>4. CountersInv'
    BY <1>2, <2>2, <2>3, CountersKept DEF RefInv
  <2>5. RefTypeOK'
    BY <1>1, <2>1 DEF RefInv, RefTypeOK
  <2>6. LifeInv'
    BY <1>1, <2>1 DEF RefInv, LifeInv, RefTypeOK
  <2>7. MakingInv'
    BY <1>1, <2>1 DEF RefInv, MakingInv, RefTypeOK
  <2>8. AcquiringInv'
    BY <1>1, <2>1 DEF RefInv, AcquiringInv, RefTypeOK
  <2> QED BY <2>4, <2>5, <2>6, <2>7, <2>8 DEF RefInv, CountedInv
<1>4. CASE instances = seen[u] /\ again[u] # seen[u]
  BY <1>4 DEF Exchange, CountedInv
<1>5. CASE instances # seen[u]
  <2>1. /\ instances' = instances /\ seen' = [seen EXCEPT ![u] = instances] /\ again' = again
        /\ doing' = [doing EXCEPT ![u] = IF instances = 0 THEN "idle" ELSE "reload"]
        /\ miscounted' = miscounted
    BY <1>5 DEF Exchange
  <2>2. Gaining' = Gaining /\ Releasing' = Releasing
    BY <1>1, <2>1 DEF RefInv, RefTypeOK, Gaining, Releasing
  <2>3. CountersInv'
    BY <1>1, <1>2, <2>1, <2>2 DEF RefInv, CountersInv
  <2>4. RefTypeOK'
    BY <1>1, <2>1 DEF RefInv, RefTypeOK
  <2>5. LifeInv'
    BY <1>1, <2>1 DEF RefInv, LifeInv
  <2>6. MakingInv'
    BY <1>1, <2>1 DEF RefInv, MakingInv, RefTypeOK
  <2>7. AcquiringInv'
    BY <1>1, <2>1 DEF RefInv, AcquiringInv, RefTypeOK
  <2> QED BY <2>3, <2>4, <2>5, <2>6, <2>7 DEF RefInv, CountedInv
<1> QED BY <1>3, <1>4, <1>5

-----------------------------------------------------------------------------
(* The theorem *)

\* The invariant holds in the beginning.
LEMMA RefInitially ==
  ASSUME RefCountAssumption, RefInit
  PROVE  RefInv
<1>1. PICK m \in Users : strong = [v \in Users |-> IF v = m THEN 1 ELSE 0]
  BY DEF RefInit
<1>2. IsFiniteSet(Users) /\ Cardinality(Users) \in Nat
  BY FS_CardinalityType DEF RefCountAssumption
<1>3. RefTypeOK
  BY <1>1, <1>2 DEF RefInit, RefTypeOK, RefCountAssumption
<1>4. CountersInv
  <2>1. Ptrs = {<<m, 1>>}
    BY <1>1 DEF Ptrs, RefCountAssumption
  <2>2. Gaining = {} /\ Releasing = {} /\ Weaks = Users
    BY DEF RefInit, Gaining, Releasing, Weaks
  <2>3. Cardinality(Ptrs) = 1 /\ Cardinality(Gaining) = 0 /\ Cardinality(Releasing) = 0
    BY <2>1, <2>2, FS_Singleton, FS_EmptySet
  <2> QED BY <1>2, <2>2, <2>3 DEF RefInit, CountersInv
<1>5. LifeInv /\ MakingInv /\ AcquiringInv
  BY <1>2 DEF RefInit, LifeInv, MakingInv, AcquiringInv
<1> QED BY <1>3, <1>4, <1>5 DEF RefInv

\* Every step keeps the invariant, and what is miscounted stays so.
LEMMA StepKeepsCountedInv ==
  ASSUME RefCountAssumption, CountedInv, [RefNext]_refVars
  PROVE  CountedInv'
<1>1. CASE UNCHANGED refVars
  BY <1>1 DEF refVars, CountedInv, RefInv, RefTypeOK, CountersInv, LifeInv, MakingInv, AcquiringInv,
              Ptrs, Gaining, Weaks, Releasing
<1>2. ASSUME NEW u \in Users, miscounted = TRUE,
             \/ CopyPtr(u) \/ ReleasePtr(u) \/ ReleaseWeak(u) \/ MakeWeak(u) \/ Load(u) \/ UserStep(u)
      PROVE  miscounted' = TRUE
  BY <1>2 DEF CopyPtr, CopyPtrState, ReleasePtr, ReleaseStorage, ReleaseWeak, MakeWeak, Load, Reload,
              Exchange, UserStep
<1>3. ASSUME NEW u \in Users, RefInv,
             \/ CopyPtr(u) \/ ReleasePtr(u) \/ ReleaseWeak(u) \/ MakeWeak(u) \/ Load(u) \/ UserStep(u)
      PROVE  CountedInv'
  BY <1>3, CopyPtrKeepsRefInv, CopyPtrStateKeepsRefInv, ReleasePtrKeepsRefInv, ReleaseStorageKeepsRefInv,
     WeakKeepsRefInv, LoadsKeepRefInv, ExchangeKeepsRefInv DEF UserStep, CountedInv
<1> QED BY <1>1, <1>2, <1>3 DEF RefNext, CountedInv

\* The invariant implies what the run checks.
LEMMA InvariantKeepsAlive ==
  ASSUME RefCountAssumption, CountedInv
  PROVE  HoldersKeepAlive
<1> SUFFICES ASSUME RefInv PROVE HoldersKeepAlive
  BY DEF CountedInv, HoldersKeepAlive
<1>1. \A u \in Users : strong[u] > 0 => instance = "alive" /\ storage = "allocated"
  BY Counted DEF RefInv, LifeInv
<1>2. \A u \in Users : weak[u] => storage = "allocated"
  BY Counted DEF RefInv, LifeInv
<1>3. ASSUME Idle, \A u \in Users : strong[u] = 0
      PROVE  instance = "destroyed" /\ ((\A u \in Users : ~weak[u]) => storage = "freed")
  <2>1. instances = 0 /\ ((\A u \in Users : ~weak[u]) => states = 0)
    BY <1>3, CountedNone DEF RefInv
  <2> QED BY <2>1 DEF RefInv, LifeInv, RefTypeOK
<1>4. NeverBelowZero
  BY DEF RefInv, RefTypeOK, NeverBelowZero
<1> QED BY <1>1, <1>2, <1>3, <1>4 DEF HoldersKeepAlive

\* Whatever threads copy, acquire and give back at once, a Ptr refers to a live
\* instance, a Ptr and a WeakPtr to allocated storage, both go with the last of
\* them, and no counter is decremented at zero, unless an acquisition has stored
\* another number than one more than it compared: for any finite set of threads
\* and any number of Ptr.
THEOREM PtrsKeepTheInstance ==
  ASSUME RefCountAssumption
  PROVE  RefSpec => []HoldersKeepAlive
<1>1. RefInit => CountedInv
  BY RefInitially DEF CountedInv
<1>2. CountedInv /\ [RefNext]_refVars => CountedInv'
  BY StepKeepsCountedInv
<1>3. CountedInv => HoldersKeepAlive
  BY InvariantKeepsAlive
<1> QED BY <1>1, <1>2, <1>3, PTL DEF RefSpec

=============================================================================
