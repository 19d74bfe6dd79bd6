--------------------------- MODULE GroupContract ---------------------------
(***************************************************************************)
(* What whenAll and whenAny promise: the answer is given once; TRUE when   *)
(* the tasks waited for are ready, FALSE only when the expiration came     *)
(* first; and it is given as soon as one of the two has happened.          *)
(***************************************************************************)
CONSTANTS Tasks, Modes

VARIABLES mode, ready, expired, answer

contractVars == <<mode, ready, expired, answer>>

Satisfied == IF mode = "all" THEN Tasks \subseteq ready ELSE ready # {}

Init ==
  /\ mode \in Modes
  /\ ready \in SUBSET Tasks
  /\ expired \in BOOLEAN
  /\ answer = "none"

Settle(t) ==
  /\ t \notin ready
  /\ ready' = ready \cup {t}
  /\ UNCHANGED <<mode, expired, answer>>

Expire ==
  /\ ~expired
  /\ expired' = TRUE
  /\ UNCHANGED <<mode, ready, answer>>

Answer ==
  /\ answer = "none"
  /\ \/ Satisfied /\ answer' = "true"
     \/ expired /\ answer' = "false"
  /\ UNCHANGED <<mode, ready, expired>>

Next == (\E t \in Tasks : Settle(t)) \/ Expire \/ Answer

SafeSpec == Init /\ [][Next]_contractVars

Spec == SafeSpec /\ WF_contractVars(Answer)

=============================================================================
