------------------------------- MODULE MCMerge -------------------------------
(* Two inner observables of two values each: a behaviour merges them, or       *)
(* switches from one to the other while it calls or completes.  The second     *)
(* has its variables, s_..., to itself.                                       *)
EXTENDS Merge

VARIABLES
  operator,  \* "merge" or "switch_on_next"
  s_mutex, s_observer, s_inside, s_delivered, s_held, s_disposed, s_unsubscribed, s_pc, s_arg,
  s_emitted, s_subscribed, s_finished, s_user, current

Sw == INSTANCE SwitchOnNext WITH
  mutex <- s_mutex, observer <- s_observer, inside <- s_inside, delivered <- s_delivered,
  held <- s_held, disposed <- s_disposed, unsubscribed <- s_unsubscribed, pc <- s_pc,
  arg <- s_arg, emitted <- s_emitted, subscribed <- s_subscribed, finished <- s_finished,
  user <- s_user

ofSwitch == <<s_mutex, s_observer, s_inside, s_delivered, s_held, s_disposed, s_unsubscribed, s_pc,
              s_arg, s_emitted, s_subscribed, s_finished, s_user, current>>
allVars == <<operator, vars, ofSwitch>>

AllInit == operator \in {"merge", "switch_on_next"} /\ Init /\ Sw!Init

OfMerge(A) == operator = "merge" /\ A /\ UNCHANGED <<operator, ofSwitch>>
OfSwitch(A) == operator = "switch_on_next" /\ A /\ UNCHANGED <<operator, vars>>

AllNext == OfMerge(Next) \/ OfSwitch(Sw!Next)

\* The fairness of Merge and of SwitchOnNext.
AllFairSpec ==
  /\ AllInit /\ [][AllNext]_allVars
  /\ \A s \in Sources :
       WF_allVars(OfMerge(Handle(s))) /\ WF_allVars(OfSwitch(Sw!Handle(s)))

\* When the result of merge has ended or its subscriber has left, no source is left
\* subscribed; nor is one of switch_on_next, once its dispose() has returned.
NothingStays == NoSourceLeaks /\ Sw!NothingStays

\* Of switch_on_next's inner observables only the latest is live.
OneLive == Sw!OneLive

\* When the base of switch_on_next and its latest inner observable have completed,
\* and both calls have returned, the result has ended.
SwitchCompletes ==
  (/\ s_pc[Base] = "done" /\ s_finished[Base] = "completed"
   /\ current # NoOne => s_pc[current] = "done" /\ s_finished[current] = "completed")
    ~> s_observer # "open"
=============================================================================
