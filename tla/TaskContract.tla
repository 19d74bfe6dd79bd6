--------------------------- MODULE TaskContract ---------------------------
(***************************************************************************)
(* What a task promises, whatever the order in which its users act: it is  *)
(* settled once, by one of the parties that try to; the coroutine awaiting *)
(* it gets that outcome, once; and the ready callback registered on it is  *)
(* invoked once, after it is settled.  CoreTask implements this contract.  *)
(***************************************************************************)
EXTENDS Naturals, Sequences

CONSTANTS Resolvers,   \* the parties that may settle the task
          NoOutcome    \* the outcome of a task that is still pending

\* A task ends with a result or with an error.
Kinds == {"value", "error"}

VARIABLES outcome,     \* who settled the task and how, NoOutcome while pending
          delivered,   \* what the awaiting coroutine has been given so far
          notified     \* how many times the ready callback has been invoked

contractVars == <<outcome, delivered, notified>>

Init ==
  /\ outcome = NoOutcome
  /\ delivered = << >>
  /\ notified = 0

Settle ==
  /\ outcome = NoOutcome
  /\ outcome' \in [by : Resolvers, kind : Kinds]
  /\ UNCHANGED <<delivered, notified>>

Deliver ==
  /\ outcome # NoOutcome
  /\ delivered = << >>
  /\ delivered' = <<outcome.kind>>
  /\ UNCHANGED <<outcome, notified>>

Notify ==
  /\ outcome # NoOutcome
  /\ notified = 0
  /\ notified' = 1
  /\ UNCHANGED <<outcome, delivered>>

Next == Settle \/ Deliver \/ Notify

\* The safety part, the one whose implementation is proved.
SafeSpec == Init /\ [][Next]_contractVars

\* The task is eventually settled and both kinds of observers hear of it.
Spec == SafeSpec /\ WF_contractVars(Next)

=============================================================================
