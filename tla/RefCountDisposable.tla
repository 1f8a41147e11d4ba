------------------------- MODULE RefCountDisposable -------------------------
(***************************************************************************)
(* rpp::refcount_disposable and the refocunt_disposable_inner handles its   *)
(* add_ref() gives out.  Both are composite disposables: a handle that is   *)
(* disposed calls back into the parent (remove, then release), the last     *)
(* release disposes the parent, and the parent disposes the handles it      *)
(* holds, so calls of the two nest on one thread.  Each thread has a stack  *)
(* of frames; the top one runs.                                             *)
(*                                                                         *)
(* The composite part of the parent is the one of CompositeDisposable: one  *)
(* step to take m_current_state, one for the work and one to give it back.  *)
(* The handles' own children are left out (CompositeDisposable has them).   *)
(***************************************************************************)
EXTENDS Integers, Sequences, FiniteSets

CONSTANTS Threads,
          Inners,       \* handles add_ref() can still create
          Underlying,   \* other children of the parent, no handles
          MaxCalls      \* bound: calls the threads make in total

VARIABLES
  m_current_state,  \* of the parent
  m_refcount,       \* of the parent; s_disposed once it is disposed
  m_disposables,    \* children the parent holds: handles weakly, others strongly
  created,          \* children that exist: handles, and others given to add()
  disposed,         \* children, of either kind, whose own state is disposed
  dropped,          \* handles whose last strong reference is gone
  released,         \* history: handles whose release() has run
  asked,            \* history: somebody has called dispose() of the parent
  stack,            \* per thread: frames, the running one first
  calls

vars == <<m_current_state, m_refcount, m_disposables, created, disposed,
          dropped, released, asked, stack, calls>>

s_disposed == -1
Kept == Inners \union Underlying
Frame(at, c, todo) == [at |-> at, c |-> c, todo |-> todo]
NoChild == "none"

Init ==
  /\ m_current_state = "None"
  /\ m_refcount = 0
  /\ m_disposables = {}
  /\ created = {}
  /\ disposed = {}
  /\ dropped = {}
  /\ released = {}
  /\ asked = FALSE
  /\ stack = [t \in Threads |-> <<>>]
  /\ calls = 0

-----------------------------------------------------------------------------
(* The running frame of a thread.                                          *)

At(t, label) == stack[t] # <<>> /\ Head(stack[t]).at = label
Top(t) == Head(stack[t])
Frames(t) == {stack[t][k] : k \in DOMAIN stack[t]}
Become(t, frame) == stack' = [stack EXCEPT ![t] = <<frame>> \o Tail(@)]
Goto(t, label) == Become(t, [Top(t) EXCEPT !.at = label])
Push(t, frame) == stack' = [stack EXCEPT ![t] = <<frame>> \o @]
Return(t) == stack' = [stack EXCEPT ![t] = Tail(@)]

parent == <<m_current_state, m_refcount, m_disposables>>
handles == <<created, disposed, dropped, released>>

Call(t, frame) ==
  /\ stack[t] = <<>>
  /\ calls < MaxCalls
  /\ calls' = calls + 1
  /\ Push(t, frame)

AddCall(t) == \E c \in Underlying \ created :
  /\ Call(t, Frame("add", c, {}))
  /\ created' = created \union {c}
  /\ UNCHANGED <<parent, disposed, dropped, released>>

\* Bound: a call that could find no handle left to create is not made.
AddRefCall(t) ==
  /\ Cardinality({u \in Threads : At(u, "add_ref")}) < Cardinality(Inners \ created)
  /\ Call(t, Frame("add_ref", NoChild, {}))
  /\ UNCHANGED <<parent, handles>>

\* Handles add_ref() has returned and somebody still refers to.
Usable == {i \in (created \intersect Inners) \ dropped :
             ~\E t \in Threads : \E f \in Frames(t) :
                f.c = i /\ f.at \in {"add", "push", "unlock"}}

InnerCall(t) == \E i \in Usable :
  Call(t, Frame("inner", i, {})) /\ UNCHANGED <<parent, handles>>

\* The last strong reference of a handle goes: its destructor disposes it in
\* mode Destroying.  Nobody is in a call on it, such a call holds a reference.
DropCall(t) == \E i \in Usable :
  /\ \A u \in Threads : \A f \in Frames(u) : f.c # i
  /\ Call(t, Frame("destroy", i, {}))
  /\ dropped' = dropped \union {i}
  /\ UNCHANGED <<parent, created, disposed, released>>

DisposeCall(t) ==
  /\ Call(t, Frame("dispose", NoChild, {}))
  /\ asked' = TRUE
  /\ UNCHANGED <<parent, handles>>

ClearCall(t) == Call(t, Frame("clear", NoChild, {})) /\ UNCHANGED <<parent, handles>>

-----------------------------------------------------------------------------
(* refcount_disposable::add_ref, and add() of the composite.               *)

AddRefRefused(t) ==
  /\ At(t, "add_ref") /\ m_refcount = s_disposed
  /\ Return(t)
  /\ UNCHANGED <<parent, handles, calls>>

\* Mutant: the count is incremented without looking whether it is s_disposed.
AddRefUnchecked(t) ==
  /\ At(t, "add_ref")
  /\ \E i \in Inners \ created :
       /\ created' = created \union {i}
       /\ Become(t, Frame("add", i, {}))
  /\ m_refcount' = m_refcount + 1
  /\ UNCHANGED <<m_current_state, m_disposables, disposed, dropped, released, calls>>

\* The load and compare_exchange loop is one atomic increment.
AddRef(t) ==
  /\ At(t, "add_ref") /\ m_refcount # s_disposed
  /\ \E i \in Inners \ created :
       /\ created' = created \union {i}
       /\ Become(t, Frame("add", i, {}))
  /\ m_refcount' = m_refcount + 1
  /\ UNCHANGED <<m_current_state, m_disposables, disposed, dropped, released, calls>>

TryEdit(t, from, to) ==
  /\ At(t, from) /\ m_current_state = "None"
  /\ m_current_state' = "Edit"
  /\ Goto(t, to)

AddLock(t) ==
  /\ TryEdit(t, "add", "push")
  /\ UNCHANGED <<m_refcount, m_disposables, handles, calls>>

AddPush(t) ==
  /\ At(t, "push")
  /\ m_disposables' = m_disposables \union {Top(t).c}
  /\ Goto(t, "unlock")
  /\ UNCHANGED <<m_current_state, m_refcount, handles, calls>>

Unlock(t) ==
  /\ At(t, "unlock")
  /\ m_current_state' = "None"
  /\ Return(t)
  /\ UNCHANGED <<m_refcount, m_disposables, handles, calls>>

\* remove() gives the state back and its caller, the handle, goes on.
RemoveUnlock(t) ==
  /\ At(t, "remove_unlock")
  /\ m_current_state' = "None"
  /\ Goto(t, "release")
  /\ UNCHANGED <<m_refcount, m_disposables, handles, calls>>

\* add() to a disposed parent disposes the child: a handle, which nobody else
\* knows yet, goes through its own dispose().
AddRejected(t) ==
  /\ At(t, "add") /\ m_current_state = "Disposed"
  /\ disposed' = disposed \union {Top(t).c}
  /\ IF Top(t).c \in Inners THEN Goto(t, "remove") ELSE Return(t)
  /\ UNCHANGED <<parent, created, dropped, released, calls>>

-----------------------------------------------------------------------------
(* refocunt_disposable_inner: dispose_impl and composite_dispose_impl.     *)

\* The handle's own compare_exchange lets one caller through.
InnerAgain(t) ==
  /\ At(t, "inner") \/ At(t, "destroy")
  /\ Top(t).c \in disposed
  /\ Return(t)
  /\ UNCHANGED <<parent, handles, calls>>

\* A handle being destroyed does not remove itself, one that is disposed does.
InnerDispose(t) ==
  /\ At(t, "inner") \/ At(t, "destroy")
  /\ Top(t).c \notin disposed
  /\ disposed' = disposed \union {Top(t).c}
  /\ Goto(t, IF Top(t).at = "inner" THEN "remove" ELSE "release")
  /\ UNCHANGED <<parent, created, dropped, released, calls>>

RemoveLock(t) ==
  /\ TryEdit(t, "remove", "erase")
  /\ UNCHANGED <<m_refcount, m_disposables, handles, calls>>

\* add_ref() makes the handle through composite_disposable_wrapper::make, which
\* looks at the type of the wrapper, not of the handle, and sets no weak self:
\* wrapper_from_this() is empty, and what equals it is every expired child.
RemoveErase(t) ==
  /\ At(t, "erase")
  /\ m_disposables' = m_disposables \ dropped
  /\ Goto(t, "remove_unlock")
  /\ UNCHANGED <<m_current_state, m_refcount, handles, calls>>

RemoveRefused(t) ==
  /\ At(t, "remove") /\ m_current_state = "Disposed"
  /\ Goto(t, "release")
  /\ UNCHANGED <<parent, handles, calls>>

\* Mutant: the count that is left is compared, not the one before the decrement.
ReleaseTooEarly(t) ==
  /\ At(t, "release")
  /\ released' = released \union {Top(t).c}
  /\ \/ /\ m_refcount = s_disposed
        /\ Return(t) /\ UNCHANGED m_refcount
     \/ /\ m_refcount \in {1, 2}
        /\ m_refcount' = s_disposed
        /\ Become(t, Frame("dispose", NoChild, {}))
     \/ /\ m_refcount \notin {s_disposed, 1, 2}
        /\ m_refcount' = m_refcount - 1
        /\ Return(t)
  /\ UNCHANGED <<m_current_state, m_disposables, created, disposed, dropped, calls>>

\* release(): the last one marks the count and goes on to dispose the parent.
Release(t) ==
  /\ At(t, "release")
  /\ released' = released \union {Top(t).c}
  /\ \/ /\ m_refcount = s_disposed
        /\ Return(t) /\ UNCHANGED m_refcount
     \/ /\ m_refcount = 1
        /\ m_refcount' = s_disposed
        /\ Become(t, Frame("dispose", NoChild, {}))
     \/ /\ m_refcount \notin {s_disposed, 1}
        /\ m_refcount' = m_refcount - 1
        /\ Return(t)
  /\ UNCHANGED <<m_current_state, m_disposables, created, disposed, dropped, calls>>

-----------------------------------------------------------------------------
(* dispose() and clear() of the parent.                                    *)

Dispose(t) ==
  /\ At(t, "dispose") /\ m_current_state = "None"
  /\ m_current_state' = "Disposed"
  /\ Goto(t, "store")
  /\ UNCHANGED <<m_refcount, m_disposables, handles, calls>>

\* composite_dispose_impl
StoreDisposed(t) ==
  /\ At(t, "store")
  /\ m_refcount' = s_disposed
  /\ Become(t, Frame("walk", NoChild, m_disposables))
  /\ UNCHANGED <<m_current_state, m_disposables, handles, calls>>

ClearLock(t) ==
  /\ At(t, "clear") /\ m_current_state = "None"
  /\ m_current_state' = "Edit"
  /\ Become(t, Frame("clear_walk", NoChild, m_disposables))
  /\ UNCHANGED <<m_refcount, m_disposables, handles, calls>>

\* The loop over the container: an expired handle is skipped, a live one is a
\* nested dispose() that finds the parent in whatever state the walker left it.
WalkNext(t) ==
  /\ At(t, "walk") \/ At(t, "clear_walk")
  /\ \E c \in Top(t).todo :
       LET rest == [Top(t) EXCEPT !.todo = @ \ {c}]
       IN  \/ /\ c \in Inners \ dropped
              /\ stack' = [stack EXCEPT ![t] = <<Frame("inner", c, {}), rest>> \o Tail(@)]
              /\ UNCHANGED disposed
           \/ /\ c \in dropped
              /\ Become(t, rest) /\ UNCHANGED disposed
           \/ /\ c \in Underlying
              /\ Become(t, rest) /\ disposed' = disposed \union {c}
  /\ UNCHANGED <<parent, created, dropped, released, calls>>

Wipe(t) ==
  /\ At(t, "walk") \/ At(t, "clear_walk")
  /\ Top(t).todo = {}
  /\ m_disposables' = {}
  /\ IF Top(t).at = "walk" THEN Return(t) ELSE Goto(t, "unlock")
  /\ UNCHANGED <<m_current_state, m_refcount, handles, calls>>

ReturnDisposed(t) ==
  /\ At(t, "dispose") \/ At(t, "clear")
  /\ m_current_state = "Disposed"
  /\ Return(t)
  /\ UNCHANGED <<parent, handles, calls>>

-----------------------------------------------------------------------------
OtherCall(t) == AddCall(t) \/ AddRefCall(t) \/ InnerCall(t) \/ DropCall(t) \/ ClearCall(t)
NewCall(t) == DisposeCall(t) \/ (OtherCall(t) /\ UNCHANGED asked)

Step(t) ==
  /\ UNCHANGED asked
  /\ \/ AddRef(t) \/ AddRefRefused(t)
     \/ AddLock(t) \/ AddPush(t) \/ AddRejected(t) \/ Unlock(t) \/ RemoveUnlock(t)
     \/ InnerDispose(t) \/ InnerAgain(t)
     \/ RemoveLock(t) \/ RemoveErase(t) \/ RemoveRefused(t) \/ Release(t)
     \/ Dispose(t) \/ StoreDisposed(t) \/ ReturnDisposed(t)
     \/ ClearLock(t) \/ WalkNext(t) \/ Wipe(t)

Next == \E t \in Threads : NewCall(t) \/ Step(t)

Spec == Init /\ [][Next]_vars
FairSpec == Spec /\ \A t \in Threads : WF_vars(Step(t))
-----------------------------------------------------------------------------
Labels == {"add_ref", "add", "push", "unlock", "inner", "destroy", "remove", "erase",
           "remove_unlock", "release", "dispose", "store", "walk", "clear", "clear_walk"}

TypeOK ==
  /\ m_current_state \in {"None", "Edit", "Disposed"}
  /\ m_refcount \in Nat \union {s_disposed}
  /\ m_disposables \subseteq created
  /\ created \subseteq Kept
  /\ disposed \subseteq created
  /\ dropped \subseteq created \intersect Inners
  /\ released \subseteq created \intersect Inners
  /\ asked \in BOOLEAN
  /\ \A t \in Threads : stack[t] \in Seq([at : Labels, c : Kept \union {NoChild},
                                        todo : SUBSET Kept])
  /\ calls \in 0..MaxCalls

Quiet == \A t \in Threads : stack[t] = <<>>

\* readme: the refcounted disposable is disposed when all the handles are.  As
\* long as nobody has called dispose(), the parent is not disposed while a handle
\* has not been released.  When no call is under way, a parent whose handles are
\* all disposed is itself disposed, and a disposed parent has left no child of
\* either kind open: not the handle whose add_ref() raced with the last release(),
\* nor the child whose add() did.
LastHandleClosesAll ==
  /\ m_current_state = "Disposed" /\ ~asked => created \intersect Inners \subseteq released
  /\ Quiet =>
    /\ (created \intersect Inners # {} /\ created \intersect Inners \subseteq disposed)
          => m_current_state = "Disposed"
    /\ m_current_state = "Disposed" => created \subseteq disposed /\ m_disposables = {}

\* The counter, the handles and the disposal of the parent together are a
\* shared ownership: closed by the last handle and not before, unless dispose()
\* is called, and reopened never.
Ownership == INSTANCE SharedOwnership WITH
  Handles <- Inners,
  live <- (created \intersect Inners) \ released,
  closed <- m_refcount = s_disposed

IsSharedOwnership == Ownership!Spec

\* Every call returns, however its callees call back, unless somebody is inside
\* clear(), which spins for ever when it meets a live handle: the handle calls
\* remove() on the parent whose state clear() has set to Edit.
InClear(t) == \E f \in Frames(t) : f.at \in {"clear", "clear_walk"}
CallsReturn ==
  \A t \in Threads : stack[t] # <<>> ~> (stack[t] = <<>> \/ \E u \in Threads : InClear(u))
=============================================================================
