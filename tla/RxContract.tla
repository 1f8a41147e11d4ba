----------------------------- MODULE RxContract -----------------------------
(***************************************************************************)
(* What an observer may see of an observable, whatever the operator and     *)
(* however many threads are behind it: calls one after the other, any       *)
(* number of on_next, then at most one on_error or on_completed and nothing *)
(* after it (the observable contract of observables.hpp and observer.hpp).  *)
(***************************************************************************)
CONSTANT Callers

VARIABLES inside,     \* who is in a callback of the observer
          terminated  \* on_error or on_completed has been called

Init == inside = {} /\ terminated = FALSE

OnNext(c) ==
  /\ inside = {} /\ ~terminated
  /\ inside' = {c}
  /\ UNCHANGED terminated

OnTerminal(c) ==
  /\ inside = {} /\ ~terminated
  /\ inside' = {c}
  /\ terminated' = TRUE

Return(c) ==
  /\ inside = {c}
  /\ inside' = {}
  /\ UNCHANGED terminated

Next == \E c \in Callers : OnNext(c) \/ OnTerminal(c) \/ Return(c)

Spec == Init /\ [][Next]_<<inside, terminated>>
=============================================================================
