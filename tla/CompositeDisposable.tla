------------------------- MODULE CompositeDisposable -------------------------
(***************************************************************************)
(* rpp::composite_disposable_impl<Container>: the disposable every         *)
(* observer, operator state and scheduler of the library keeps its children *)
(* in.  add(), remove(), clear() and dispose() may be called by any thread  *)
(* at any time; one atomic, m_current_state, is at the same time the spin   *)
(* lock of the container (None -> Edit -> None) and the flag that closes it *)
(* for good (None -> Disposed).                                             *)
(*                                                                         *)
(* A compare_exchange is one step, the work done on the container while the *)
(* state is Edit or Disposed is another, and the store that reopens it a    *)
(* third.  A thread that fails its compare_exchange because of Edit spins:  *)
(* it has no step until the state changes.                                  *)
(***************************************************************************)
EXTENDS Integers, Functions

CONSTANTS Threads,   \* callers of one composite disposable
          Children,  \* disposables that may be handed to it
          Capacity,  \* slots of the container: Count of the static one
          MaxCalls   \* bound: how many calls the callers make in total

ASSUME ChildrenAssumption == Children # {}
ASSUME CapacityAssumption == Capacity \in Nat
ASSUME MaxCallsAssumption == MaxCalls \in Nat

VARIABLES
  m_current_state,   \* the atomic State
  m_disposables,     \* the container: how many of its slots hold each child
  gone,              \* children whose dispose() has run
  pc, arg, todo,     \* per thread: where it is, the child it was called with,
                     \* and what the loop over the container has left to dispose
  owed,              \* history: children an add() accepted and no remove() erased
  calls              \* calls made so far

vars == <<m_current_state, m_disposables, gone, pc, arg, todo, owed, calls>>

PcValues == {"idle", "add", "push", "unlock", "remove", "erase",
             "clear", "clearing", "dispose", "disposing"}

\* The distinct disposables the container holds, and the slots they take.
Held == {c \in Children : m_disposables[c] > 0}
Size == SumFunction(m_disposables)
NothingHeld == [c \in Children |-> 0]

Init ==
  /\ m_current_state = "None"
  /\ m_disposables = NothingHeld
  /\ gone = {}
  /\ pc = [t \in Threads |-> "idle"]
  /\ arg = [t \in Threads |-> CHOOSE c \in Children : TRUE]
  /\ todo = [t \in Threads |-> {}]
  /\ owed = {}
  /\ calls = 0

-----------------------------------------------------------------------------
(* Calls, and steps shared by several of them.                             *)

Goto(t, label) == pc' = [pc EXCEPT ![t] = label]

Call(t, label, c) ==
  /\ pc[t] = "idle"
  /\ calls < MaxCalls
  /\ calls' = calls + 1
  /\ Goto(t, label)
  /\ arg' = [arg EXCEPT ![t] = c]
  /\ UNCHANGED <<m_current_state, m_disposables, gone, todo, owed>>

\* add() returns at once for a disposable that is already disposed.
AddCall(t) == \E c \in Children \ gone : Call(t, "add", c)
RemoveCall(t) == \E c \in Children : Call(t, "remove", c)
ClearCall(t) == Call(t, "clear", arg[t])
DisposeCall(t) == Call(t, "dispose", arg[t])

\* compare_exchange_strong(None, next) succeeds.
TryLock(t, from, next, to) ==
  /\ pc[t] = from
  /\ m_current_state = "None"
  /\ m_current_state' = next
  /\ Goto(t, to)

AddLock(t) ==
  /\ TryLock(t, "add", "Edit", "push")
  /\ UNCHANGED <<m_disposables, gone, arg, todo, owed, calls>>

\* Mutant: the value the compare_exchange found is not looked at.
RemoveLockUnchecked(t) ==
  /\ pc[t] = "remove"
  /\ m_current_state # "Disposed"
  /\ m_current_state' = "Edit"
  /\ Goto(t, "erase")
  /\ UNCHANGED <<m_disposables, gone, arg, todo, owed, calls>>

RemoveLock(t) ==
  /\ TryLock(t, "remove", "Edit", "erase")
  /\ UNCHANGED <<m_disposables, gone, arg, todo, owed, calls>>

\* clear() and dispose() walk the container they have closed to the others.
ClearLock(t) ==
  /\ TryLock(t, "clear", "Edit", "clearing")
  /\ todo' = [todo EXCEPT ![t] = Held]
  /\ UNCHANGED <<m_disposables, gone, arg, owed, calls>>

DisposeLock(t) ==
  /\ TryLock(t, "dispose", "Disposed", "disposing")
  /\ todo' = [todo EXCEPT ![t] = Held]
  /\ UNCHANGED <<m_disposables, gone, arg, owed, calls>>

\* m_current_state.store(None): the call returns, or rethrows.
Unlock(t) ==
  /\ pc[t] = "unlock"
  /\ m_current_state' = "None"
  /\ Goto(t, "idle")
  /\ UNCHANGED <<m_disposables, gone, arg, todo, owed, calls>>

-----------------------------------------------------------------------------
(* The body of each operation.                                             *)

AddPush(t) ==
  /\ pc[t] = "push"
  /\ Size < Capacity
  /\ m_disposables' = [m_disposables EXCEPT ![arg[t]] = @ + 1]
  /\ owed' = owed \union {arg[t]}
  /\ Goto(t, "unlock")
  /\ UNCHANGED <<m_current_state, gone, arg, todo, calls>>

\* Mutant: the catch block rethrows without giving the state back.
AddThrowKeepsEdit(t) ==
  /\ pc[t] = "push"
  /\ Size >= Capacity
  /\ Goto(t, "idle")
  /\ UNCHANGED <<m_current_state, m_disposables, gone, arg, todo, owed, calls>>

\* push_back of a full static container throws: the child stays with the caller.
AddThrow(t) ==
  /\ pc[t] = "push"
  /\ Size >= Capacity
  /\ Goto(t, "unlock")
  /\ UNCHANGED <<m_current_state, m_disposables, gone, arg, todo, owed, calls>>

\* Mutant: the newcomer is accepted and forgotten.
AddRejectedForgets(t) ==
  /\ pc[t] = "add"
  /\ m_current_state = "Disposed"
  /\ owed' = owed \union {arg[t]}
  /\ Goto(t, "idle")
  /\ UNCHANGED <<m_current_state, m_disposables, gone, arg, todo, calls>>

\* add() to a disposed composite disposes the newcomer instead of keeping it.
AddRejected(t) ==
  /\ pc[t] = "add"
  /\ m_current_state = "Disposed"
  /\ gone' = gone \union {arg[t]}
  /\ owed' = owed \union {arg[t]}
  /\ Goto(t, "idle")
  /\ UNCHANGED <<m_current_state, m_disposables, arg, todo, calls>>

\* Mutant: one slot is erased, whether or not one holds the child.
RemoveEraseUnchecked(t) ==
  /\ pc[t] = "erase"
  /\ m_disposables' = [m_disposables EXCEPT ![arg[t]] = @ - 1]
  /\ owed' = owed \ {arg[t]}
  /\ Goto(t, "unlock")
  /\ UNCHANGED <<m_current_state, gone, arg, todo, calls>>

\* Mutant: only the first of the slots that hold the child is erased.
RemoveEraseFirst(t) ==
  /\ pc[t] = "erase"
  /\ m_disposables' = [m_disposables EXCEPT ![arg[t]] = IF @ = 0 THEN 0 ELSE @ - 1]
  /\ owed' = owed \ {arg[t]}
  /\ Goto(t, "unlock")
  /\ UNCHANGED <<m_current_state, gone, arg, todo, calls>>

\* remove() erases every slot that holds the child and disposes nothing.
RemoveErase(t) ==
  /\ pc[t] = "erase"
  /\ m_disposables' = [m_disposables EXCEPT ![arg[t]] = 0]
  /\ owed' = owed \ {arg[t]}
  /\ Goto(t, "unlock")
  /\ UNCHANGED <<m_current_state, gone, arg, todo, calls>>

\* One turn of the loop over the container, of clear() or of dispose().
DisposeNext(t) ==
  \E c \in todo[t] :
    /\ gone' = gone \union {c}
    /\ todo' = [todo EXCEPT ![t] = @ \ {c}]
    /\ UNCHANGED <<m_current_state, m_disposables, pc, arg, owed, calls>>

ClearWipe(t) ==
  /\ pc[t] = "clearing"
  /\ todo[t] = {}
  /\ m_disposables' = NothingHeld
  /\ Goto(t, "unlock")
  /\ UNCHANGED <<m_current_state, gone, arg, todo, owed, calls>>

DisposeWipe(t) ==
  /\ pc[t] = "disposing"
  /\ todo[t] = {}
  /\ m_disposables' = NothingHeld
  /\ Goto(t, "idle")
  /\ UNCHANGED <<m_current_state, gone, arg, todo, owed, calls>>

\* remove(), clear() and dispose() of a disposed composite return.
ReturnDisposed(t) ==
  /\ pc[t] \in {"remove", "clear", "dispose"}
  /\ m_current_state = "Disposed"
  /\ Goto(t, "idle")
  /\ UNCHANGED <<m_current_state, m_disposables, gone, arg, todo, owed, calls>>

-----------------------------------------------------------------------------
\* A child is disposed by somebody else (its own source, another owner).
DisposedElsewhere(c) ==
  /\ c \notin gone
  /\ gone' = gone \union {c}
  /\ UNCHANGED <<m_current_state, m_disposables, pc, arg, todo, owed, calls>>

\* What a call that has been made does next; a caller need not make another.
Step(t) ==
  \/ AddLock(t) \/ AddPush(t) \/ AddThrow(t) \/ AddRejected(t)
  \/ RemoveLock(t) \/ RemoveErase(t)
  \/ ClearLock(t) \/ ClearWipe(t)
  \/ DisposeLock(t) \/ DisposeNext(t) \/ DisposeWipe(t)
  \/ Unlock(t) \/ ReturnDisposed(t)

NewCall(t) == AddCall(t) \/ RemoveCall(t) \/ ClearCall(t) \/ DisposeCall(t)

Next ==
  \/ \E t \in Threads : NewCall(t) \/ Step(t)
  \/ \E c \in Children : DisposedElsewhere(c)

Spec == Init /\ [][Next]_vars

\* The operating system runs every thread that can take a step.
FairSpec == Spec /\ \A t \in Threads : WF_vars(Step(t))

-----------------------------------------------------------------------------
TypeOK ==
  /\ m_current_state \in {"None", "Edit", "Disposed"}
  /\ m_disposables \in [Children -> Nat]
  /\ gone \subseteq Children
  /\ pc \in [Threads -> PcValues]
  /\ arg \in [Threads -> Children]
  /\ todo \in [Threads -> SUBSET Children]
  /\ owed \subseteq Children
  /\ calls \in 0..MaxCalls

\* Threads that read or write m_disposables, or are about to.
Editing(t) == pc[t] \in {"push", "erase", "clearing", "unlock"}
Inside(t) == Editing(t) \/ pc[t] = "disposing"

\* The container is not a concurrent one: the three values of
\* m_current_state must keep every two calls out of it at the same time, the
\* walk of dispose() included, which never gives the state back.
ExclusiveContainer ==
  \A t, u \in Threads : Inside(t) /\ Inside(u) => t = u

\* No child falls between the threads: whatever add() accepted and nobody
\* removed is still held by the container or has been disposed of, and once
\* dispose() has returned nothing is held and everything accepted is gone,
\* also the child whose add() lost the race against dispose().
NoChildLost ==
  /\ owed \subseteq Held \union gone
  /\ m_current_state = "Disposed" /\ (\A t \in Threads : ~Inside(t)) =>
        Held = {} /\ owed \subseteq gone

\* clear() and dispose() dispose only what is theirs: the loop over the
\* container never reaches a child that remove() has handed back.
OnlyOwnChildren == \A t \in Threads : todo[t] \subseteq owed

\* Disposed is "permanent state after dispose" (the comment of State): an edit
\* that was under way does not reopen the container when it ends.
DisposedForever ==
  [][m_current_state = "Disposed" => m_current_state' = "Disposed"]_vars

\* Every call returns: the spin on Edit ends, because whoever is in the
\* container leaves it.
CallsReturn == \A t \in Threads : pc[t] # "idle" ~> pc[t] = "idle"
=============================================================================
