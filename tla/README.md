# TLA+ models of ReactivePlusPlus (rpp)

ReactivePlusPlus is a header-only C++20 implementation of ReactiveX. An
*observable* is a function that is called with an *observer*; an *observer* gets
`on_next` any number of times and then at most one `on_error` or
`on_completed`; a *disposable* stops what runs behind it. All of it may happen
on several threads at once, and nearly all of the synchronisation is hand-made
from atomics, spin loops, mutex-protected shared state and condition variables.
That is what the modules here are about: which orders of steps of several
threads are possible, and what holds in all of them.

Paths below are relative to `src/src/rpp/rpp/`.

## 1. Inventory

| component | state it keeps | operations | touched by | module |
|---|---|---|---|---|
| `disposables/composite_disposable.hpp` | atomic `m_current_state` (None, Edit, Disposed), container of children | add, remove, clear, dispose | any thread: every observer, every operator state | `CompositeDisposable` |
| `disposables/refcount_disposable.hpp` | the above and atomic `m_refcount`; handles with a strong reference to the parent | add_ref, handle dispose, release, destructor | inner observers, ref_count, group_by, window | `RefCountDisposable` |
| `disposables/disposable_wrapper.hpp` | strong or weak pointer | lock, make | everybody | in part `RefCountDisposable` |
| `observers/observer.hpp` | closed flag, upstream disposables | on_next, on_error, on_completed, set_upstream, dispose | one emitter at a time, plus the subscriber's dispose | `Downstream`, `CombiningOperator`, `Sequential` |
| `operators/merge.hpp`, `flat_map.hpp` | observer behind a mutex, atomic count of completions to come | on_next of base and inner observers, on_error, on_completed | one thread per source | `Merge` |
| `operators/concat.hpp` | atomic stage, queue behind a mutex, two disposables | the same, and drain | one thread per source | `Concat` |
| `operators/switch_on_next.hpp` | observer behind a mutex, disposable of the latest inner observable behind another | the same | one thread per source | `SwitchOnNext` |
| `operators/combine_latest.hpp`, `zip`, `with_latest_from`, `take_until` | values of all sources behind a mutex, count of completions | on_next, on_error, on_completed | one thread per source | `CombiningByValue` |
| `operators/retry*.hpp`, `repeat*.hpp`, `on_error_resume_next`, `sources/concat.hpp` | is_inside_drain, attempts left | drain, on_error or on_completed | the thread of each attempt | `Repeating` |
| `operators/window.hpp`, `window_toggle`, `group_by` | subjects, a refcount_disposable, a mutex (window_toggle) | on_next, on_error, on_completed | source, openings, closings, everybody who listens | `Windows` |
| `operators/delay.hpp`, `observe_on`, `debounce`, `timeout` | values and time points behind a mutex, a scheduled task | on_next, on_error, on_completed, the task | the source's thread and the scheduler's | `Delay`, `Debounce`, `Timeout` |
| `operators/subscribe_on.hpp`, `as_blocking` | a flag, a condition variable | subscribe, wait, dispose | the caller and whoever ends the observable | `Blocking` |
| sequential operators (map, filter, take, scan, buffer, throttle ...) | counters, a ring, the last value | on_next, on_error, on_completed | one source | `Sequential` |
| `subjects/details/subject_state.hpp`, `publish_subject` | variant of an observer list / error / completed / disposed behind `m_mutex`; `m_serialized_mutex` | subscribe, unsubscribe, on_next, on_error, on_completed, dispose | emitters and subscribers | `SubjectState` |
| `subjects/replay_subject.hpp`, `behavior_subject.hpp` | the above and stored values | the same | the same | `ReplaySubject` |
| `observables/connectable_observable.hpp`, multicast, publish, ref_count | disposable behind a mutex, subject | connect, ref_count | subscribers | `Connectable` |
| `schedulers/new_thread.hpp` | queue sorted by time point, condition variable, has_fresh_data, is_stoping | defer_to, thread loop, end of the worker | scheduling threads and the worker's own | `NewThread` |
| `schedulers/current_thread.hpp`, `immediate.hpp` | a queue per thread | schedule, drain | the calling thread | `CurrentThread` |
| `schedulers/run_loop.hpp` | a queue, a condition variable | schedule, dispatch, dispatch_if_ready | any thread | `RunLoop` |
| `schedulers/test_scheduler.hpp` | a clock it moves, a queue | schedule, time_advance | the test | `TestScheduler` |
| `schedulers/thread_pool.hpp`, `computational` | an index | create_worker | subscribers | not modelled |
| `src/src/extensions/rppasio`, scheduler of `rppqt` | timers of an event loop | schedule | strand, Qt main thread | `EventLoop` |
| `src/src/extensions/rppgrpc` | queue of messages to write, a subject | on_next, On...Done, OnCancel, OnDone | producers and gRPC's threads | `Reactors` |
| sources (`just`, `from`, `interval` ...), observables, utilities | none, or a loop variable | subscribe | the subscriber | in part `Sequential`, `CurrentThread` |

How they interact: an operator's `subscribe` makes an operator state, most often
one that is itself a composite or refcounted disposable and holds the downstream
observer; it hands that disposable to the downstream observer (`set_upstream`),
and the upstream disposables are handed to it in turn. So `dispose()` runs from
the subscriber up, calls run from the sources down, a terminal call disposes
upwards before it returns, and all three may be under way at once. Schedulers
run tasks that make such calls and find out by a disposable that nobody wants
them any more. Subjects and connectable observables turn one chain into several;
windows and groups hand out new observables in the values of another.

What is hard:

* **races on closing**: something is added, subscribed or emitted while the
  other side disposes (composite, refcount, merge, concat, switch, subject);
* **the last one out**: a completion, a release or an unsubscription that only
  the last of several threads may act on (merge, refcount, ref_count, windows);
* **serial callbacks** for observers called by several threads (RxContract);
* **call-backs into the caller**: a child that is disposed calls its parent,
  which is disposing it (refcount); an attempt that ends inside the `subscribe()`
  that began it (retry, repeat, concat of a container);
* **a decision taken on an old look at shared state** (concat's empty queue,
  switch's `is_disposed()`, ref_count's shared connection, the time point
  new_thread sleeps until);
* **two steps that look like one**: read the store and join the list (replay),
  keep a value and tell the observers, answer a write and start the next one;
* **a timer against the source**: both want to call or to end the same observer,
  and what one takes out of shared state the other does not find (delay,
  observe_on, debounce, timeout);
* **starvation** of one scheduled task by another, lost wake-ups, the end of a
  worker with tasks left.

What makes each component correct: children are disposed exactly when their
owner is, or handed back; a shared disposable is closed with its last handle and,
unless its owner says so, not before; the result of an operator obeys the observable contract, delivers what
the operator is defined to make of its sources, completes when and only when it
should, and leaves no source subscribed; a subject tells every subscriber
everything in one order, and the end; a scheduler runs every task, not early, in
order of time points; an operator with a worker keeps the order of what it
delays, and forgets nothing that waits.

## 2. Modules

| module | models | extends / instantiates |
|---|---|---|
| `RxContract` | *abstract*: what an observer may see | |
| `SharedOwnership` | *abstract*: what a shared resource promises its handles | |
| `CompositeDisposable` | `composite_disposable_impl` with the static container | |
| `RefCountDisposable` | `refcount_disposable` and its handles | refines `SharedOwnership` |
| `Connectable` | `connectable_observable::connect` and `ref_count()` | |
| `CombiningOperator` | what merge, concat and switch share: sources, the downstream observer and its mutex, the subscription tree, the subscriber | states `RxContract` |
| `Merge`, `Concat`, `SwitchOnNext` | the three operators | `CombiningOperator` |
| `Downstream` | an observer that several threads call, with no lock of its own | states `RxContract` |
| `Repeating` | retry, retry_when, repeat, repeat_when, on_error_resume_next, concat of a container | `Downstream` |
| `CombiningByValue` | zip, combine_latest, with_latest_from, take_until | `Downstream` |
| `Blocking` | as_blocking, subscribe_on | `Downstream` |
| `Windows` | window, window_toggle, group_by | |
| `Sequential` | eighteen operators without a lock, in chains of two | |
| `ScheduledOperator` | what the next three share: the source, the downstream observer, the clock, a worker with one task | states `RxContract` |
| `Delay`, `Debounce`, `Timeout` | delay and observe_on, debounce, timeout | `ScheduledOperator` |
| `SubjectState` | `subject_state`, `publish_subject` | states `RxContract` per observer |
| `ReplaySubject` | `replay_subject`, with a duration too, and `behavior_subject` | `SubjectState` |
| `Reactors` | the six gRPC reactors | |
| `NewThread`, `CurrentThread`, `RunLoop`, `TestScheduler`, `EventLoop` | the schedulers | |
| `SubjectStateProofs`, `WindowsProofs` | lemmas about the module of that name | `SubjectState`; `MCOperators` |
| `DisposablesProofs`, `MergeProofs`, `OperatorsProofs`, `ScheduledProofs`, `SubjectsProofs`, `SchedulersProofs` | theorems about what the MC module of that name composes: the three disposables; merge, switch_on_next and (`MCConcat`) concat; the repeating and combining operators, windows and as_blocking; delay, observe_on, debounce and timeout; subjects and reactors; the five schedulers | the MC module, `SubjectStateProofs`, `WindowsProofs` |
| `MC...` | the instances TLC checks: a behaviour picks one of several families (`family`, `operator` or `scheduler`) and leaves the variables of the others alone | the modules they name |

Conventions. Variables keep the names of the members they stand for
(`m_current_state`, `m_stage`, `has_fresh_data`); an action stands for what one
thread does between two points at which another thread can notice it: one
atomic operation, one section of a mutex, the begin or the end of one callback.
A spinning or waiting thread is one whose action is not enabled. `pc` holds the
place of each thread; `finished`, `owed`, `due`, `offered`, `ran`, `before`,
`wanted` and others marked *history* are read by properties only. An operator
defined right before an action, whose comment begins with "Mutant", is a wrong
version of it: the properties are tested with it (PROJECT.json lists which).

### CompositeDisposable
`add`: early return for a child already disposed (`AddCall`), the
compare_exchange loop (`AddLock`), `push_back` (`AddPush`) or its exception
(`AddThrow`), and the branch for a disposed composite (`AddRejected`). `remove`:
`RemoveLock`, `RemoveErase`. `clear` and `dispose`: `ClearLock`/`DisposeLock`,
one `DisposeNext` per child, `ClearWipe`/`DisposeWipe`. `Unlock` is the store of
None. The order in which the loop meets the children is left open.

### RefCountDisposable
`AddRef` is the increment loop of `add_ref()`; the new handle is then added to
the parent through the steps of `add()`. A handle's `dispose` is `InnerDispose`,
then `remove` (`RemoveLock`, `RemoveErase`, `RemoveUnlock`, or `RemoveRefused`
by a disposed parent), then `Release`; a handle that is dropped skips `remove`.
The last `Release` becomes the parent's `dispose`, whose walk pushes a new frame
for every handle it disposes: this is why each thread has a stack. One thing the
code does that its reader may not expect is in `RemoveErase`: `add_ref()` makes
the handle by `composite_disposable_wrapper::make<...>`, which sets the weak self
only if the *wrapper's* type asks for it (`disposable_wrapper.hpp:168`), so the
handle's `wrapper_from_this()` is empty and `remove` erases every expired child
instead of this one. Disposed handles stay in the container until they expire;
no property is broken by it.

For `SharedOwnership` a handle is live from the increment in `add_ref()` to the
decrement in `release()`, and the parent may close under live handles only after
somebody has called its `dispose()`, which the history variable `asked` remembers:
a `release()` that closes too early is no step of it. `LastHandleClosesAll` says the
same of the state of the parent itself.

### Connectable
A *wrapper* is one disposable `connect()` is called with: the refcount_disposable
that `ref_count()` makes (`Make`) or shares (`AddRef`), or the one of a user's own
`connect()` (`ConnectCall`). `Lock` is the look at `is_disposed()` in
`on_subscribe`; the mutex that it is made under is not the one `release()` uses,
which has none. `Connect` is the section of the connectable's mutex,
`SubscribeSource` the subscription after it. `Release` and `DisposeLast` are the two
halves of the last release: the count is marked before the disposable is disposed.

### CombiningOperator, Merge, Concat, SwitchOnNext
A source is a thread with a `pc`; `EmitNext`/`EmitTerminal` begin a call of its
observer if that still listens, `NextEnter`..`NextLeave` and
`TerminalEnter`..`TerminalLeave` are the section under the observer's mutex.
`DisposeState` is the disposal of the operator's state, by the terminal call or
by the subscriber (`UserDispose`, `UserDisposeUpstream`). In merge and concat that state
is a composite disposable. Composite disposables
are atomic here; what happens inside them is `CompositeDisposable`'s subject.
`Merge`: `Increment`/`Subscribe` are the base's on_next, `Decrement` and `Forget`
the two branches of on_completed. `Concat`: every load, store and
compare_exchange of the stage is a step (`OfferTaken`, `StoreDraining`,
`Handled`, `LeaveStage`, `StoreNone`, `CheckStage`), and so is every section of
the queue; `StageSettles` is the moment a relaxed store takes effect for others.
`SwitchOnNext`: `Switch` is the section of the mutex of
`m_inner_child_disposable`, `DisposeOwn` then `CheckOther` are on_completed. Its state
is disposed in three steps, by a source (`TerminalReturn`, `DisposeBase`, `DisposeInner`)
or by the subscriber (`UserSetsDisposed`, ...): the flag, the base, then what is latest
by then, which a switch between two of them may have replaced.

### Downstream, Repeating, CombiningByValue, Blocking
`Downstream` is `observer_impl` with the flag it looks at before a callback and the
upstreams it disposes of after a terminal one. `BeginNext`..`EndNext` and
`BeginTerminal`..`EndTerminal` are a callback; it puts nothing between two threads,
so a lock, or the absence of a need for one, is the operator's affair.

`Repeating`: attempt *k* has thread *k*, thread 0 is the subscriber's. `Check`,
`Store`, `Subscribe`, `Leave` are the loop of `drain()`, `Clear` and `Exchange` the
terminal call that clears the old subscription and exchanges `is_inside_drain`. An
attempt that ends inside `subscribe()` on the same thread is the behaviour in which
the draining thread does nothing meanwhile. `retry(n)` counts in an unsigned type of
`Width` values, so that `retry(Width - 1)` starts from the wrapped zero.
`SubscribeThrows` is a `subscribe()` that throws.

`CombiningByValue`: the sources are subscribed to in the code's order, the main one
last; `NextUnderLock` is on_next with the mutex held, `Decrement` the atomic counter
of completions outside it; take_until's `m_stopped` is exchanged by the two
observers. `SelectorThrows` is an on_next whose selector throws: the value is stored
before that, and the mutex is free again before the error is passed on. In between
another source may combine what is stored, so that combine_latest passes on, besides
the value that has come, the one that the selector threw at (`ThrewAt` in `Combines`
allows it). zip has moved the front values into the selector by then and not taken
them out of its queues; what such a value is after the move is not modelled.

`Blocking`: the caller of `subscribe()`, the thread the observable runs on, and the
subscriber. `Check` is the look at the disposable, `Wait` the look at the flag under
the lock, `Complete` and `Notify` the two halves of `base_dispose_impl`. With
`subscribe_on` the observable is a task (`RunTask`) that the worker drops when the
observer, its handler, is disposed.

### Windows
Every window is a subject with one observer of its own; `todo` is the rest of the
calls a thread has to make within one handler, so that anything may come between
two of them: somebody subscribes to a window (`SubscribeWindow`) or leaves (`Leave`).
window_toggle adds a subject to the refcount_disposable only after it has offered it
(`Added`); who subscribes in between, when everybody else has left, is on a subject that
nothing will call. `Release` is the
refcount_disposable whose handles the result and the windows hold. window_toggle's
handlers take its mutex, but the completion of a window by its closing observable
is called outside of it, as in the code.

### Sequential
The strategies as functions from a state and a value to a state and calls; a call
of the source runs through both operators and the subscriber in one step, as it does
on one thread. The subscriber may throw from, or dispose in, its *n*th callback
(`quirk`); any callable may throw at one number (`bad`). The reference (`Defined`)
says on whole sequences what each operator is for, without its counters and rings:
`take` is a prefix, `buffer` a division into chunks, `distinct` a filter over what
came before.

### SubjectState, ReplaySubject, Reactors
A section of `m_mutex` is a step. An iterator range that `on_next` keeps after
the unlock is modelled as a copy, because the list is only appended to in place
and copied when an observer leaves. A subscription has its steps after the
unlock (`UpstreamEnter`, `UpstreamLeave`), during which an emitter may be calling
the observer already. `Serialized` picks publish or serialized subject.
`ReplaySubject` adds the store, which has its own mutex: `StoreNext` then the emission,
and `ReadStored`, `GiveStored`, then `ReplaySubscribe`, are steps of their own. With a duration the
clock may drop any of the oldest values whenever the store is touched.

`Reactors`: a section of `m_write_mutex` is a step; what the stream does is known by
its contract here: one answer for every operation started, `OnDone` last.

### NewThread, CurrentThread, RunLoop, TestScheduler, EventLoop
`NewThread`: `DeferTo` and `StoreFresh` are the two halves of `state_t::defer_to`;
`DeferToCurrent` is `current_thread`'s worker on this thread. `Thread` is
`data_thread`: `Wait`/`Wake` (the first wait), `PopDisposed`, `WaitFor` with
`Timeout`, `Recheck` and `SpuriousWake`, `Pop`, then the task: `Finish`, or
`Return` with a delay of one of the three kinds and `RunAgain` or `Requeue`; the new
time point may lie in the past (`NewTimePoint`). `notified` is one flag for
several notifications, which is what one waiting thread can tell of them.

`CurrentThread`: the fast path of a task that is alone (`path = "direct"`), the queue
(`"drain"`), and `immediate`, which is the fast path without a queue. `RunLoop`: any
thread may dispatch; a section of its mutex is a step, `notify_one` comes after it.
`TestScheduler`: draining nests, because `schedule()` of a running task drains too;
hence a stack. `EventLoop`: a strand gives current_thread a queue for as long as a
handler runs, and hands what is in it to the loop; `wrapped` are such tasks. A Qt timer
gets a `duration_cast` to milliseconds, of which `Milli` instants of the clock make one:
`Truncated` cuts off the rest, so that the timer may fire before the time point
(`Deadline`). A strand's timer takes the time point as it is. Without a QCoreApplication
a task is refused (`DeferFails`), and one that quits takes its timers along
(`CreateOrQuit`, which is external). Beyond that, both loops are taken to fire a timer
at its deadline or later; Qt's default timer type, which may be early by a twentieth of
a long interval, is a matter of Qt.

### ScheduledOperator, Delay, Debounce, Timeout
Two threads, the source's and the worker's, take turns at the operator's mutexes;
a section that makes no callback is one step, a callback has a begin and an end.
`RunTask` is the scheduler: it takes the one waiting task at its time point and
drops it if its handler is disposed (`NewThread` shows that a worker does that).
`Delay` has both instances of `delay_t`: `ClearOnError` is FALSE in delay and TRUE
in observe_on. `Emplace` and `Schedule` are `emplace_safe` and `worker.schedule`;
`ErrorEnter`/`ErrorLeave` are the branch of observe_on; `DrainEmpty`, `DrainLater`,
`DrainNext`, then `DeliverEnter`/`DeliverLeave` are one pass of the loop of
`drain_queue`, whose `just_schedule` is the label "again". `Debounce`: the task is
`ExtractNothing`, `ExtractTime` or `ExtractValue`, then the delivery;
`CompletedLock` locks the observer and takes the value (nothing can tell the
moment between the two). `Timeout`: the task is `TaskAgain`, `TaskTooLate` or
`TaskHandsOver`, after which the fallback observable ends the result in the same
call or on a thread of its own (`FallbackAtOnce`, `FallbackLater`); `NextEnter`
chooses between the outcomes of calling an observer that has been moved from.

## 3. Runs

| run | instances | what it shows |
|---|---|---|
| `disposables` | composite: 3 threads, 2 children, 2 slots, 4 calls; refcount: 2 threads, 2 handles, 1 other child, 5 calls; ref_count: 2 observers, 3 connections, a user of connect() | mutual exclusion by the state word, no child lost or disposed that was handed back; what handles share is open to the last of them, unless it is disposed directly, and no longer, one connection at a time; refinement of `SharedOwnership`; calls return unless `clear()` of a refcount_disposable is involved |
| `stays_connected` (violated) | the same | a new subscriber of ref_count() is not connected |
| `merge` | 2 inner observables of 2 values, merged or switched between | contract, completes last and once, nothing stays subscribed, only the latest of switch lives, the completion arrives |
| `concat` | 3 inner observables of 1 value | one at a time and one drainer, the assertion in on_completed |
| `concat_completes` (violated) | 2 inner observables | the result completes without an observable the base emitted |
| `subjects` | publish: 2 emitters, 2 observers, 3 calls; replay and behavior: a newcomer, a store of 2; each reactor: 4 calls of producers, 2 messages to read | contract per observer, one order for all, no value lost or doubled, the newest values then all later ones, one gRPC write at a time and all of them before the end, all hear of the end |
| `schedulers` | 2 tasks on each scheduler: instants 0..2 (run_loop 0..1 and two dispatching threads), a task called 2 or 3 times, delays 0 or 1, on new_thread also back to the first instant; 2 instants to Qt's millisecond | not early (on Qt but for what is cut off), in order, nothing lost, doubled, slept over or left behind, nobody starved on new_thread by a task that runs at once for ever |
| `new_thread_late` (violated) | the same | the first task is due, no notification is on its way, and the thread sleeps on |
| `keeps_period` (violated) | the same | a periodic task that is alone on current_thread is called too early |
| `scheduled` | 2 values, instants 0..3, a period of 1 | each operator's promise about time and order, contract of delay and debounce, one side ends timeout, nothing that waits is forgotten |
| `observe_on_serial` (violated) | the same | an error overtakes, and overlaps with, a call of the worker |
| `operators` | repeating: 4 attempts of 1 value, counts 0..3 in a counter of 4 values; combining: 2 sources of 2 values; windows: 2 windows (4 values for window, 3 for group_by, 2 for window_toggle); chains of two: 2 numbers, 3 values, arguments 0..2; blocking: 2 values | one attempt at a time, results as defined, ended exactly when due, nothing leaks, contract, and what is due comes |

Bounds, and why they are enough. They bound how many calls are begun, not how they
interleave; each is chosen so that every action fires and a call can race with two
others. Three threads are the least for which one waits while another edits and a
third closes; two slots let the third `add` overflow the container
(`CapacityAssumption` allows none as well, and the proofs cover every capacity).
Three connections of two observers are the least for which one is renewed while the
one before it is still being disposed. Three inner observables are the least for
which one runs, one is queued and one is being offered. Two observers and two
emitters are enough to disagree on an order, a store of two to have something drop
out of it. Two tasks are enough for one to starve the other; three instants for
before, at and after; three calls of a task for a second period to be wrong. A time
point beyond the last instant is the last instant (`Capped`), so that a task that
reschedules itself for ever has a finite model. Two instants to a millisecond are the
least of which a conversion can cut one off. The scheduled operators do the same
with four instants, the least for a value, a second one before, at or after the time
point of the first, and both time points. Four attempts cover `retry(n)` for each *n*
of a counter that wraps at four. Sequences of three are longer than any argument of
the counting operators, so that each is met below, at and above its limit.
`OneOrder` in `MCSchedulers` takes one order of the kinds of two tasks that are alike
otherwise.

`CHECK_DEADLOCK FALSE` stands in every configuration because a program that has
nothing more to do stops; that calls return is checked as liveness instead.
Symmetry is used in the `subjects` run only (emitters, observers), which checks no
liveness.

Fairness. A thread that is inside a call is run by the operating system: weak
fairness of its steps, one thread at a time. No fairness is assumed of making a call,
of a source emitting or completing, or of the subscriber. No strong fairness is
assumed of a mutex or of a spin: a call waits for finitely many others because calls
are bounded; with an endless stream of other calls a spinning thread might starve, in
the code too. In `NewThread` the clock ticks and the worker thread and the second
half of `defer_to` go on; spurious wake-ups happen, there and in `Blocking`, but
nothing relies on them. In `MCScheduled` the clock ticks, and each of the source's
calls, the worker's task and the taking of a task goes on; the source need not call
again. In `MCOperators` the threads of `Repeating`, `CombiningByValue` and `Blocking`
go on inside a call; a source or a notifier need not call. Among the schedulers only
new_thread has a thread of its own, and only of it is liveness claimed.

## 4. Findings

Each is a run whose single property is violated.

* `concat_completes`: between the drainer's look at the empty queue and its store
  of None, the base finds the stage busy and queues its observable; nobody drains
  it. If the base completes as well, the result completes without it.
* `stays_connected`: `on_subscribe` of ref_count() asks whether the connection is
  disposed and then for a handle of it; the last observer leaves between the two,
  `add_ref()` gives an empty disposable, which is not what makes it connect anew. The
  new observer is on the subject, and nobody feeds the subject.
* `new_thread_late`: `wait_for` gets the time to the first task's time point. When an
  earlier task comes in, its notification makes the thread look at the predicate; that
  is false, as the earlier task is not due yet either, and the wait goes on to the old
  time point. When the earlier task falls due nothing notifies, and the thread sleeps
  on: the task is called late. (When the task is due as it comes in, the thread wakes
  at once.)
* `keeps_period`: the fast path of current_thread sleeps until the new time point of a
  task and runs it, but does not tell it that time point; the next
  `delay_from_this_timepoint` is counted from the old one.
* `observe_on_serial`: `emplace_safe` calls `on_error` under the mutex of the queue, on
  the thread of the source; the worker calls `on_next` without it.

Seen, and not stated as properties, because no document, comment or test of the
repository promises otherwise, or promises it for all operators at once:

* concat stores its stage with `memory_order::relaxed` and then reads whether the base
  is disposed; the base disposes itself and then reads the stage. With the store held
  back each side misses the other, and `on_completed` is lost. `StageSettles` models
  it; that the completion of concat arrives is therefore not claimed.
* window_toggle: a closing completes its window outside the mutex under which the
  source may be calling it (`SerialToggle` in `Windows` says so, and does not hold).
* In switch, an inner observable's `on_completed` only looks whether the *base* is
  disposed: if it has been replaced and the base has completed between its last check
  and that look, the result completes under the latest one; and a value of it that
  passed its check may be delivered after values of its successor.
* A value emitted between the two steps of a subscription to a replay or behavior
  subject is given twice, or, with a bounded store, not at all; `StoredThenLive` says
  what is left to rely on.
* gRPC's `Finish` is called by OnCancel and again when a writer that has finished gets
  the answer to its last write.
* `current_thread` puts a task into the queue of a new_thread worker but cannot set
  has_fresh_data, so a running task that returns a zero delay is re-run without a look
  at that queue (`EveryTaskRuns` leaves such tasks out).
* debounce drops a value that the timer has extracted when `on_completed` gets the
  observer's mutex first (`NothingForgotten` accepts the end in its place). timeout's
  `on_next` does not look again under the mutex and may call an observer that has been
  moved to the fallback.
* `refcount_disposable` inherits `clear()`, which disposes the handles while the state
  is Edit, and each of them calls `remove()` on the same disposable on the same thread
  and spins for None (the model has it, and `CallsReturn` makes an exception for it).
* `set_upstream` of a new subject observer may overlap with a callback of it.
* On new_thread a task that returns `delay_from_this_timepoint{0}`, or `delay_to` a time
  in the past, for ever, goes back before all tasks with later time points, which
  starve. That is the order by time point; `EveryTaskRuns` excepts such a task
  (`StaysInThePast`), and is about one that returns `delay_from_now{0}` for ever or
  runs again without a visit to the queue.
* On Qt's main thread a task may be called before its time point by less than a
  millisecond; one that keeps a period with `delay_from_this_timepoint`, by as much
  for each of its calls. `NeverEarly` allows for that and no more (`Early`).

## 5. Proofs

The `*Proofs` modules are checked by TLAPS. They hold for every value of the
constants under the assumptions that are named in the modules that declare them
(TLC evaluates each of these): the composite disposable for any threads, any non-empty
set of children, any capacity and number of calls; the refcount_disposable for any
threads, any finite set of handles and any other children; ref_count for any finite set
of observers and any number of connections; merge, concat and switch_on_next for any
finite set of inner observables and any number of values; the repeating operators for
any number of attempts, values and width of the counter; the combining ones for any
number of sources and values; windows for any number of values, of windows, and any size
that is no larger than that number (which is a bound only, so that every size is covered);
the schedulers for any set of tasks, any threads that dispatch, any delays and any number
of instants and calls; the scheduled operators for any clock, duration and number of
values; subjects for any number of emitters, observers, calls and any limit of a store;
reactors for any number of calls and messages. `MCDisposables`, `MCOperators` and
`MCSubjects` declare for this the constants that TLC's instances would not need
(`HandleCalls`, `MaxWrappers`, `NumSources`, `SourceEmits`, `NumWindows`, `WindowSize`,
`WindowValues`, `WriterCalls`, `MaxReads`), and `MCSchedulers` its tasks, threads, delays,
instants and numbers of calls.

**DisposablesProofs: the composite disposable.** `ExclusiveContainer` is not inductive:
that two threads are not both inside says nothing about the one that is about to enter.
The inductive invariant `IInv` ties the state word to the threads
(`StateMatchesPc`: who edits implies Edit, who walks for the last time implies
Disposed), and the walk to the container (`WalkInv`: what the loop has left is
still held; what it has left behind is disposed; `HeldMatchesOwed`: what is held
is owed, and what is owed is held or gone; `ClosedIsEmpty`: Disposed without a
walker means empty). `Inductive` proves `IInv` action by action; `Exclusion`,
`NoLoss`, `OwnChildren` and `Permanent` follow from it and name the properties of
the run. `TypeCorrect` needs no strengthening.

**The refcount_disposable.** A thread has a stack, because handle and parent call each
other. The first part of the invariant `RInv` bounds it: never more than two frames,
the walk over the children and below it nothing, above it the handle it disposes of
(`StackInv`, `FrameInv`). With that, the place of a thread is a pair, `Upper` and
`Lower`, and the rest speaks of pairs: who edits or closes has the state word
(`StateInv`); a disposed handle has been released, or exactly one thread is about to
(`ReleaseInv`); the counter is the number of owners, the handles made and not released,
until it is marked, and who marks it goes on to dispose the parent (`CountInv`); every
child is held, disposed of, being destroyed or still being added (`KeptInv`). A mark that
nobody has asked for leaves no owner behind, and who disposes the parent has been asked
to or found it marked (`AskedInv`).
`UntilTheLast` follows, and `OwnsTogether` and `Shares`: a step takes a handle, gives one
back and closes if it was the last, is the call of `dispose()`, closes after such a call,
or changes nothing.

**ref_count().** The counter of a connection is the number of observers that
have a handle of it (`Counted`), as long as it is not marked; a marked one has nobody
left, unless the source has ended (`Empties`), and is disposed or has a thread that is
about to (`WillBeDisposed`, `MarkedFirst`). `LastLeaves` follows: a connection lives
while somebody has a handle, and none that ref_count() made outlives them. `One` rests
on `Connected`: what is subscribed, or about to be, is the connection or disposed of.
Neither says that an observer *has* a handle: that is what `stays_connected` refutes.

**MergeProofs.** What the three operators share comes first. `LockInv`: the mutex names
the thread that is in the critical section, and only that one is in a callback. One
lemma for each shared action shows that it keeps `LockInv` and that it is a step of
`RxContract` or a stutter (`ContractStep`); `LockOwnStep` does so for any step of an
operator's own that leaves the mutex and the observer alone. The refinement theorems
(`Refines`, `SwitchRefines`, `ConcatRefines`) follow. The counter is tied to the threads: `m_on_completed_needed` is the
cardinality of `Pending`, the sources that have been counted and have not
decremented yet (`CounterInv`). So who finds one is the last, and `LastInv` and
`FlowInv` carry that to the result: `Last`. `SubscriptionInv` (what is subscribed is
held or disposed of, and a disposed state holds nothing) gives `NoLeaks` and
`NotEarly`. In switch_on_next the inner observable that is about to be subscribed to
is current already (`SwitchIInv`), so whatever replaces it or ends the result
finds its disposable: `SwitchNoLeaks`, `OnlyLatest`. While the state is being disposed
the invariant says which of its two children is still to come. `NoLeaks` is about both
operators as the run has them. The types of concat and
switch_on_next rest on no more being delivered than was emitted, without which the
counters of values would have no bound.

In concat, which has the variables it shares with merge and four of its own (`MCConcat`
declares them), `ConcatTurnInv` is about who has the turn: a thread that takes from the
queue, or an inner observable that runs or has not left the stage. There is one,
the stage says so, and None, also a store of None that others cannot see yet, means
that there is none. This is what `OneAtATime` and the assertion of the code
(`InnerFindsProcessing`) need; neither is inductive, for neither says what the
stage tells the next thread.

**OperatorsProofs.** The repeating operators have no mutex: what keeps calls apart is a
token. `Token` says that at most one thread is active, as drainer or as the attempt that
is live, and that at most one drainer is leaving. It ties both to `is_inside_drain`: the
flag is up while a drainer subscribes an attempt, and a drainer that is leaving and finds
it down is alone, so that it may loop and subscribe the next attempt. From it follow
`NoOverlap` and, with `Serial`, the contract (`Refines`). `Counted` ties the counter to
the attempts made, also past the wrap-around (lemma `Wraps`), for `Exact`; `Released` is
about what stays subscribed, for `NoLeaks`. Of the combining operators `SourcesApart`
says that a source is inside a callback exactly when it has the mutex, and that nobody
gets past the closed flag once the terminal call has begun: `CombiningRefines`.
`CombiningNoLeaks` comes from what the state holds and has disposed of.

What the combining operators deliver needs what is stored (`CombiningInv`). The queues of
zip hold, of each source, the values that have come and not been passed on yet, in order
(`ZipQueues`), and one of them is empty unless the selector has thrown (`ZipOneEmpty`). What
combine_latest has stored is the last value of each source, and its last result was made
of that (`LatestStored`, `LatestPassedOn`); what with_latest_from has combined is no older
than its last result and no newer than what is stored (`WithPassedOn`, `WithResult`);
take_until has passed on all of Main's values until it is stopped (`UntilPassedOn`). The
counter of completions is the number of sources that have not been counted
(`CompletionsCounted`), and `CombiningWhole` carries that to the end. `Combines` alone is
not inductive: it says nothing of the next value. For as_blocking `BlockingInv` says that
one thread emits, the caller or the runner that it has started, and that the disposable
the caller waits for is disposed of after the observer is closed, by the terminal call
or by the subscriber (`ClosedFirst`).

`AllInv` puts the invariants of the families together, as the specification of the run
does, with lemmas that a step of one family leaves the variables of the others alone:
`AllTypes`, `AllApart`, `AllRefine`, `AllEndAsDefined`, `AllReleased` and `AllDeliver` are
about that specification and name its properties. The contract of `AllRefine` is one
for the threads of all families, hence `ThreadsShared`. Three of the six leave out the
chains of sequential operators, see below.

**WindowsProofs.** `WindowInv` is about who calls whom. A handle is held by everybody
who listens and has not left (`WindowHeld`, which is `SourceKept`). Of the parties
(source, openings, closings) the one at work has the mutex of window_toggle, in the other
two there is only the source (`WindowTurns`); windows are opened in turn (`WindowsInTurn`);
`todo` is what a party has yet to call, of windows there are (`WindowsCalled`), and who is
in an observer makes the first of these calls (`WindowsInside`, from which `Serial`
follows). An open window is on the list, or its completion is about to be called
(`OpenListed`); who ends everything has the end of all that is open in its *todo*, and
afterwards nothing is open (`AllEnd`, `AllEnded`); an observer of a window that has ended
is being told so or has left (`EndTold`). `ValuesInv` is about values. *Ahead*
are the calls that the source has yet to begin: each window is passed a value once, before
its end (`PassedOnce`), because it is listed once (`ListedOnce`), and by nobody else
(`SourcePasses`). With what is ahead, what a window was sent are values that belong to it,
in order, up to the latest (`Ordered`, `LatestOf`); of `window` it is as many as have been
counted, and a completed one is full (`Filled`, `FullOf`). What an observer got is the last
part of what its window was sent, from when it joined (`ReceivedOf`). The property itself
(`EachValueInItsWindow`) is not inductive: between two calls of one handler some windows
have a value and others do not have it yet.

**SchedulersProofs.** Lemmas about queues come first: what `emplace` keeps of the order by
time point and then arrival (`Ordered`, `Numbered`), what is in a queue after it, after a
pop and after tasks are handed over. For each scheduler the invariant then has two parts.
*Places* (`LoopPlaces`, `TestPlaces`, `EventPlaces`, `ThreadPlaces`, `CurrentPlaces`): a task
that has been scheduled and has neither finished nor been disposed of is in exactly one
place, a queue, the hand of a thread, a timer, a frame of the stack. *Times* (`LoopTimes`
and so on): the time point it has there is the one it asked for or a later one, and
whoever runs it has seen the clock reach it; on Qt, but for what `EarlyBy` bounds: less
than a millisecond for each conversion that went into it (`EventTimes`). `NoTaskIsLost` and `NobodyRunsEarly` follow.
current_thread is the exception that makes `CurrentTimes` longer: a task that keeps its
period may be slept for until a time point older than the one it asked for (see
`keeps_period`). Then comes what is particular: `LoopWakes`, while a dispatcher of run_loop
sleeps there is a `notify_one` on its way for each queued task; `ThreadFresh`, while the
flag is down nothing has come into new_thread's queue but what current_thread has put
there or whose `defer_to` is still to set it; `CurrentOrder`. With these follow
`QueuesKeepTheOrder` and `NoQueuedTaskIsOverlooked`. The assumptions are the named ones of
`MCSchedulers` (`TasksAssumption`, `DelaysAssumption`, `BoundsAssumption`); none is about the
order in which anything happens.

**ScheduledProofs.** What waits is tied to what was emitted. For delay and observe_on: the
queue holds the last of the emissions, in order and with their time points (`QueueInv`);
there is one task, to be scheduled, scheduled or running (`TaskInv`); what the worker
holds comes next after what was delivered, and its time has come (`HandInv`); delivered,
in the hand and waiting add up to all, until an error passes or the observer is closed
(`FlowInv`, `EndInv`). For debounce: the mutex names who calls (`LockInv`), what waits is
the latest value and what the worker took was the latest for a period (`WaitInv`,
`QuietInv`). For timeout: the source has the mutex for every call, and the task from the
moment it hands the observer over, which takes a period without a value (`TimeoutInv`).
`DelayShifts`, `DebounceWaits`, `TimeoutHandsOver` and, for delay and debounce, the
contract (`Serialised`) follow. observe_on has no such theorem: see `observe_on_serial`.

**SubjectStateProofs.** `Control` is about calls: who has `m_serialized_mutex`
(`LockHeld`), which callback each observer is in (`EmitterInside`, `SelfInside`), that the
list and an emitter's copy of it name observers that have joined, once each (`Lists`,
`Copies`), and that an open observer that has joined is on the list or on that of the
emitter that took it for the end (`NobodyForgotten`, `LateOnes`, `Telling`). From it
follow the contract of every observer and that each hears of the end. `Delivery` is about
values: a value in an emitter's hand has reached nobody twice and nobody out of turn
(`ValuesApart`, `NotYet`, `SameOrder`), and an observer it is due to has it or has it
coming (`OnItsWay`).

**SubjectsProofs.** The lemmas above are about a module of their own, `SubjectState` with
its variables; lemmas at the head say that the steps of the instances in `MCSubjects` are
its steps. For a replay or behavior subject this takes a refinement mapping: an observer
is given stored values before it is on the list, so what is mapped to its values is
`live`, what it got after it joined. `Rep!Control` and `Rep!Delivery` then speak of
`live`, and `ReplayInv` of the rest: a store holds the newest values there are, in order
(`StoreInv`; `TopIsNewest` turns the order of a store into the cardinality that `Newest`
counts); an observer that is being given the store has a part of it and has the rest to
come, one that joined has all of it, then `live` (`GivenInv`); nothing was emitted
between the look of a quiet observer at the store and its joining, and no emitter
has one of its values in the hand (`QuietInv`); afterwards every new value reaches
it or is on its way (`FollowsInv`). `StoredFirst` needs all of them; the invariant of
the run says neither what a newcomer has yet to be given nor what an emitter holds for
it. The invariant of the reactors (`WriterInv`, `FinishInv`) turns on what a failed write
leaves: nothing is under way, the queue keeps its message, and as only the first of a
queue is started, nothing ever will be.

Only model-checked: every liveness property (`EveryCallReturns`,
`CompletionPropagates`, `SwitchCompletes`, `EveryTaskRuns`, `NothingForgotten`,
`WhatIsDueComes`), which TLAPS does not reach; and the chains of sequential operators
(`ResultAsDefined`, `AsksNoMore`), whose state is a fold over the calls of a source: what
it computes for every sequence would take induction over data. So three theorems of
`OperatorsProofs` say `family # "chain"`. Only proved, and no run
repeats it: `DisposedForever`, `NoEarlyUnsubscribe` of merge, and the type invariants of
merge, concat and switch_on_next.

## 6. Not modelled

* `thread_pool` and `computational`: workers of new_thread handed out in turn; the
  index is their only state, and its unsynchronised increment only changes who is
  chosen.
* Other sources (`just`, `defer`, `timer`, `error`, ...) emit what is known beforehand;
  `from`, `create` and `never` are the sources of `Sequential` and `Blocking`, `interval`
  is the task of `CurrentThread` that keeps its period.
* `variant_observable`, `dynamic_*` and the building of chains (type composition and
  erasure), utilities (metaprogramming), `from_signal` of rppqt, tests, benchmarks,
  examples and build files.

Simplifications of the modelled parts: an observer that calls back into the operator or
the subject that is calling it, on the same thread (self-deadlock on a `std::mutex`,
wherever an observer is behind one); exceptions thrown by a callback, but in
`Sequential` and where `Repeating` and `CombiningByValue` have a callable or a
`subscribe()` that throws; memory orders weaker than sequential consistency, but for
concat's relaxed store of None (every other atomic operation of the library is seq_cst,
or its relaxed store comes before a hand-over to another thread that makes it visible);
a wait, in `as_blocking`, for an observable that current_thread has queued behind the
very task that waits; a call of window_toggle's source that has passed the check of
`is_disposed()` and waits for the mutex while everybody leaves (check and lock are one
step in `Windows`, so its value does not reach who joins a window after that); the
argument of `element_at` at the largest `size_t`, to which the code adds one.

What could follow: theorems about chains, once a prover takes induction over data; the
workers of a thread_pool as one scheduler; liveness of the schedulers other than
new_thread, for a caller that goes on dispatching.
