--------------------------- MODULE SharedOwnership ---------------------------
(***************************************************************************)
(* What rpp::refcount_disposable promises its users: a resource that is     *)
(* shared by handles, is closed in the same instant the last handle goes,   *)
(* not before unless its owner has asked for that, and gives out no handle  *)
(* afterwards.                                                              *)
(***************************************************************************)
CONSTANT Handles

VARIABLES live,    \* handles that have been given out and not given back
          asked,   \* the owner has called dispose()
          closed

Init == live = {} /\ asked = FALSE /\ closed = FALSE

Acquire(h) ==
  /\ ~closed /\ h \notin live
  /\ live' = live \union {h}
  /\ UNCHANGED <<asked, closed>>

Release(h) ==
  /\ h \in live
  /\ live' = live \ {h}
  /\ closed' = (closed \/ live' = {})
  /\ UNCHANGED asked

Ask == asked' = TRUE /\ UNCHANGED <<live, closed>>

\* The owner closes the resource under its users.
Close == asked /\ closed' = TRUE /\ UNCHANGED <<live, asked>>

Next == Ask \/ Close \/ \E h \in Handles : Acquire(h) \/ Release(h)

Spec == Init /\ [][Next]_<<live, asked, closed>>
=============================================================================
