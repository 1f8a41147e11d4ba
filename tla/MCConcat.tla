------------------------------ MODULE MCConcat ------------------------------
(* Three inner observables of one value each, so that one runs, one waits   *)
(* and one is being emitted; two where one is forgotten.                    *)
EXTENDS CombiningOperator

\* What concat has beside the variables that it shares with merge.
VARIABLES m_stage, m_queue, unseen, offered

Con == INSTANCE Concat

ConcatSpec == Con!Spec

-----------------------------------------------------------------------------
\* Two of the inner observables never run at once, and two threads never drain
\* the queue at once.
OneAtATime == Con!OneAtATime

\* The assertion in the on_completed of the inner observer holds.
InnerFindsProcessing == Con!InnerFindsProcessing

\* "When first observable completes, then it subscribes on second observable from
\* emissions and etc..." (concat.hpp): the result completes after all of them.
CompletesAfterAll == Con!CompletesLast
=============================================================================
