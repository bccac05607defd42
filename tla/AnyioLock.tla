------------------------------ MODULE AnyioLock ------------------------------
(***************************************************************************)
(* anyio.Lock as the server uses it (server/app.py imports it for          *)
(* llama_outer_lock and llama_inner_lock).  The library is not part of the *)
(* repository.  A lock is a record: the task that owns it, and the tasks   *)
(* that await it in the order of their calls.  release() hands the lock to *)
(* the first waiter at once; a cancelled acquire() leaves the queue, or    *)
(* gives the lock back when it had already been handed over.               *)
(***************************************************************************)
EXTENDS SequencesExt

CONSTANTS
  Task,     \* the tasks that may take the lock
  NoTask    \* the owner of a free lock

Lock == [owner : Task \cup {NoTask}, queue : Seq(Task)]

Unlocked == [owner |-> NoTask, queue |-> << >>]

Locked(l) == l.owner # NoTask

\* The tasks that own or await the lock, first come first.
Holders(l) == IF Locked(l) THEN <<l.owner>> \o l.queue ELSE << >>

Acquire(l, t) ==
  IF Locked(l) THEN [l EXCEPT !.queue = Append(@, t)]
               ELSE [l EXCEPT !.owner = t]

Release(l) ==
  IF l.queue = << >> THEN [l EXCEPT !.owner = NoTask]
                     ELSE [owner |-> Head(l.queue), queue |-> Tail(l.queue)]

\* The acquire() of t, which owns or awaits the lock, is cancelled.
Withdraw(l, t) ==
  IF l.owner = t
    THEN Release(l)
    ELSE [l EXCEPT !.queue = RemoveAt(@, CHOOSE i \in DOMAIN @ : @[i] = t)]
=============================================================================
