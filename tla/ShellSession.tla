---------------------------- MODULE ShellSession ----------------------------
(***************************************************************************)
(* The ShellSession of agents/middleware/shell_tool.py: one shell process, *)
(* which the shell tool calls of an agent share.  The calls run in threads *)
(* of their own; execute() takes a lock, restart() does not.  A reader     *)
(* thread of every process moves what it prints to the queue that is the   *)
(* session's at that moment.  A shell may take any time for a command, or  *)
(* for ever, and every wait has a deadline, which may come at any time.    *)
(* A command prints one line on stdout; its exit status is its number.     *)
(*                                                                         *)
(* A step of a thread reads or sets the attributes of the session in one   *)
(* place of the code: what another thread may see or change in between are *)
(* two steps.  A call on None raises.                                      *)
(***************************************************************************)
EXTENDS Integers, SequencesExt

CONSTANTS
  Thread,     \* where tool calls run
  MaxCalls,   \* most tool calls
  MaxBesides  \* most tool calls if one ends the shell or restarts the session

Nobody == "nobody"           \* holds the lock

ASSUME ShellAssumption ==
  /\ IsFiniteSet(Thread) /\ Nobody \notin Thread
  /\ MaxCalls \in Nat /\ MaxBesides \in Nat

None   == 0                  \* no process, no exit code
Shell  == 1 .. MaxCalls + 1  \* every call spawns at most one more

\* Pipes, queues and reader threads bear the number of the process that the start() which
\* made them had spawned.
VARIABLES
  mix,         \* the kinds of calls so far: "run", "exit" (ends the shell), "restart"
  calls,       \* tool calls so far
  shell,       \* of each process: commands to read, whether stdin is open, status, output
  queue,       \* the queue objects
  spawned,     \* shell processes so far
  process,     \* self._process
  stdin,       \* self._stdin
  current,     \* self._queue
  terminated,  \* self._terminated
  reader,      \* self._stdout_thread
  source,      \* whose output a reader thread is to read
  begun,       \* the reader threads that were started
  lock,        \* who holds self._lock
  pc,          \* where the call of a thread is
  cmd,         \* its number
  on,          \* the queue it gets from, the process it waits for or has spawned
  output,      \* the lines it has collected
  result       \* what it returned: how it ended, the exit code

history == <<mix, calls, cmd>>
pipes   == <<shell, queue>>
session == <<spawned, process, stdin, current, terminated>>
threads == <<reader, source, begun>>
return  == <<lock, result>>
vars    == <<history, pipes, session, threads, return, pc, on, output>>

Fresh == [input |-> << >>, open |-> TRUE, status |-> 0, out |-> << >>, alive |-> TRUE]

\* What it has printed is still in the pipe.
Dead(s) == [s EXCEPT !.alive = FALSE, !.input = << >>]

Pending == [how |-> "none", code |-> None]

Line(kind, n, code) == [kind |-> kind, of |-> n, code |-> code]

------------------------------------------------------------------------------

\* before_agent has started the session.
Init ==
  /\ mix = {} /\ calls = 0
  /\ spawned = 1 /\ process = 1 /\ stdin = 1 /\ current = 1 /\ terminated = FALSE
  /\ reader = 1 /\ source = [g \in Shell |-> IF g = 1 THEN 1 ELSE None] /\ begun = {1}
  /\ shell = [g \in Shell |-> Fresh]
  /\ queue = [g \in Shell |-> << >>]
  /\ lock = Nobody
  /\ pc = [t \in Thread |-> "idle"]
  /\ cmd = [t \in Thread |-> 0] /\ on = [t \in Thread |-> None]
  /\ output = [t \in Thread |-> {}]
  /\ result = [t \in Thread |-> Pending]

Goto(t, p) == pc' = [pc EXCEPT ![t] = p]

Go(t, p) == Goto(t, p) /\ UNCHANGED return

\* The call is over; leaving the with statement releases the lock.
Return_KeepsLock(t, how, code) ==
  /\ Goto(t, "idle")
  /\ result' = [result EXCEPT ![t] = [how |-> how, code |-> code]]
  /\ UNCHANGED lock

Return(t, how, code) ==
  /\ Goto(t, "idle")
  /\ result' = [result EXCEPT ![t] = [how |-> how, code |-> code]]
  /\ lock' = IF lock = t THEN Nobody ELSE lock

Raise(t) == Return(t, "raised", None)

\* Not None, and poll() returns None.
Running == process # None /\ shell[process].alive

NewCall(t, kind) ==
  /\ pc[t] = "idle" /\ calls < MaxCalls
  /\ calls' = calls + 1 /\ mix' = mix \cup {kind}
  /\ mix' # {"run"} => calls' <= MaxBesides
  /\ cmd' = [cmd EXCEPT ![t] = calls']
  /\ output' = [output EXCEPT ![t] = {}] /\ on' = [on EXCEPT ![t] = None]
  /\ UNCHANGED <<pipes, session, threads>>

\* A call of execute(): the process is looked at before the lock is taken.
Execute(t) ==
  \E kind \in {"run", "exit"} :
    /\ NewCall(t, kind)
    /\ IF Running
         THEN Goto(t, kind) /\ result' = [result EXCEPT ![t] = Pending] /\ UNCHANGED lock
         ELSE Raise(t)

Writing(kind) == IF kind = "run" THEN "writeRun" ELSE "writeExit"

\* with self._lock: _drain_queue()
Lock_Shared(t, kind) ==
  /\ pc[t] = kind
  /\ lock' = t
  /\ queue' = [queue EXCEPT ![current] = << >>]
  /\ Goto(t, Writing(kind))
  /\ UNCHANGED <<history, shell, session, threads, on, output, result>>

Lock(t, kind) ==
  /\ pc[t] = kind /\ lock = Nobody
  /\ lock' = t
  /\ queue' = [queue EXCEPT ![current] = << >>]
  /\ Goto(t, Writing(kind))
  /\ UNCHANGED <<history, shell, session, threads, on, output, result>>

\* A line is written to self._stdin, and flushed.  A closed file raises ValueError; a pipe
\* without reader BrokenPipeError, which is caught.
Write(t, item, next, broken) ==
  /\ IF shell[stdin].open /\ shell[stdin].alive
       THEN shell' = [shell EXCEPT ![stdin].input = Append(@, item)] /\ Go(t, next)
       ELSE UNCHANGED shell /\ IF shell[stdin].open THEN Go(t, broken) ELSE Raise(t)
  /\ UNCHANGED <<history, queue, session, threads, on, output>>

WriteCommand(t, kind) ==
  /\ pc[t] = Writing(kind)
  /\ Write(t, [do |-> kind, of |-> cmd[t]], "writeMarker", "ended")

WriteMarker(t) ==
  /\ pc[t] = "writeMarker"
  /\ Write(t, [do |-> "marker", of |-> cmd[t]], "flush", "ended")

\* What is a step of its own changes nothing but where the thread is.
Quiet == UNCHANGED <<history, pipes, session, threads, on, output>>

\* self._stdin.flush(), which another start() or stop() may have replaced or closed.
Flush(t) ==
  /\ \/ pc[t] = "flush" /\ IF shell[stdin].open THEN Go(t, "look") ELSE Raise(t)
     \/ pc[t] = "flushExit" /\ IF shell[stdin].open THEN Go(t, "wait") ELSE Raise(t)
  /\ Quiet

------------------------------------------------------------------------------
(* _collect_output.  The end of a stream, None in the queue, is passed over. *)

\* self._queue.get is looked up ...
Look(t) ==
  /\ pc[t] = "look"
  /\ on' = [on EXCEPT ![t] = current]
  /\ Go(t, "get")
  /\ UNCHANGED <<history, pipes, session, threads, output>>

IsMarker_AnyCommand(t, line) == line.kind = "done"

IsMarker(t, line) == line.kind = "done" /\ line.of = cmd[t]

\* ... and waits on that queue for a line.
Get(t) ==
  /\ pc[t] = "get" /\ queue[on[t]] # << >>
  /\ queue' = [queue EXCEPT ![on[t]] = Tail(@)]
  /\ LET line == Head(queue[on[t]])
     IN IF IsMarker(t, line)
          THEN Return(t, "code", line.code) /\ UNCHANGED output
          ELSE output' = [output EXCEPT ![t] = @ \cup {line}] /\ Go(t, "look")
  /\ on' = [on EXCEPT ![t] = None]
  /\ UNCHANGED <<history, shell, session, threads>>

\* The deadline: the session is restarted, still under the lock.
TimeOut_NoRestart(t) ==
  /\ pc[t] = "look" \/ (pc[t] = "get" /\ queue[on[t]] = << >>)
  /\ Return(t, "timed out", None)
  /\ Quiet

TimeOut(t) ==
  /\ pc[t] = "look" \/ (pc[t] = "get" /\ queue[on[t]] = << >>)
  /\ Go(t, "stop")
  /\ on' = [on EXCEPT ![t] = None] /\ output' = [output EXCEPT ![t] = {}]
  /\ UNCHANGED <<history, pipes, session, threads>>

\* _collect_output_after_exit: what has arrived in a short while, ...
CollectAfterExit(t) ==
  /\ pc[t] = "ended"
  /\ output' = [output EXCEPT ![t] = {queue[current][i] : i \in DOMAIN queue[current]}]
  /\ queue' = [queue EXCEPT ![current] = << >>]
  /\ IF process = None THEN Return(t, "ended", None) ELSE Go(t, "code")
  /\ UNCHANGED <<history, shell, session, threads, on>>

\* ... and the exit code of the process, if it has ended.
PollCode(t) ==
  /\ pc[t] = "code"
  /\ IF process = None THEN Raise(t)
     ELSE Return(t, "ended", IF Running THEN None ELSE shell[process].status)
  /\ Quiet

------------------------------------------------------------------------------
(* restart(): stop(), then start(). *)

Restart(t) ==
  /\ NewCall(t, "restart")
  /\ Goto(t, "stop")
  /\ result' = [result EXCEPT ![t] = Pending]
  /\ UNCHANGED lock

\* Is there a process, does it run, has nobody told it to go?
StopLooks(t) ==
  /\ \/ pc[t] = "stop" /\ IF process = None THEN Go(t, "check") ELSE Go(t, "poll")
     \/ /\ pc[t] = "poll"
        /\ IF process = None THEN Raise(t) ELSE IF Running THEN Go(t, "ask") ELSE Go(t, "wait")
     \/ pc[t] = "ask" /\ IF terminated THEN Go(t, "wait") ELSE Go(t, "writeBye")
  /\ Quiet

StopAsk(t) ==
  pc[t] = "writeBye" /\ Write(t, [do |-> "bye", of |-> 0], "flushExit", "wait")

\* self._process.wait: the finally clause is reached too if there is none; on[t] tells.
StopWait(t) ==
  /\ pc[t] = "wait"
  /\ on' = [on EXCEPT ![t] = process]
  /\ IF process = None THEN Go(t, "finally") ELSE Go(t, "waiting")
  /\ UNCHANGED <<history, pipes, session, threads, output>>

\* It ends, or the timeout comes first.
StopWaited(t) ==
  /\ pc[t] = "waiting"
  /\ IF shell[on[t]].alive THEN Go(t, "kill") ELSE Go(t, "finally")
  /\ Quiet

\* _kill_process, of what is self._process by now.
Kill(t) ==
  /\ pc[t] = "kill"
  /\ IF process = None THEN Go(t, "finally") ELSE Go(t, "killpg")
  /\ Quiet

KillGroup_Asks(t) ==
  /\ pc[t] = "killpg"
  /\ on' = [on EXCEPT ![t] = process]
  /\ Go(t, "finally")
  /\ UNCHANGED <<history, pipes, session, threads, output>>

KillGroup(t) ==
  /\ pc[t] = "killpg"
  /\ on' = [on EXCEPT ![t] = process]
  /\ shell' = IF Running THEN [shell EXCEPT ![process] = [Dead(@) EXCEPT !.status = 0]] ELSE shell
  /\ Go(t, "finally")
  /\ UNCHANGED <<history, queue, session, threads, output>>

\* The finally clause, in three steps; then start(), or the exception goes on.
SetTerminated(t) ==
  /\ pc[t] = "finally"
  /\ terminated' = TRUE
  /\ Go(t, "close")
  /\ UNCHANGED <<history, pipes, spawned, process, stdin, current, threads, on, output>>

Close(t) ==
  /\ pc[t] = "close"
  /\ shell' = [shell EXCEPT ![stdin].open = FALSE]
  /\ Go(t, "clear")
  /\ UNCHANGED <<history, queue, session, threads, on, output>>

Clear(t) ==
  /\ pc[t] = "clear"
  /\ process' = None
  /\ IF on[t] = None THEN Raise(t) ELSE Go(t, "check")
  /\ UNCHANGED <<history, pipes, spawned, stdin, current, terminated, threads, on, output>>

Restarted(t) == Return(t, IF lock = t THEN "timed out" ELSE "restarted", None)

\* start() does nothing if a process runs ...
StartCheck_OnRequest(t) ==
  /\ pc[t] = "check"
  /\ IF lock = t THEN Restarted(t) ELSE IF process = None THEN Go(t, "spawn") ELSE Go(t, "checkPoll")
  /\ Quiet

StartCheck(t) ==
  /\ pc[t] = "check"
  /\ IF process = None THEN Go(t, "spawn") ELSE Go(t, "checkPoll")
  /\ Quiet

StartPoll(t) ==
  /\ pc[t] = "checkPoll"
  /\ IF process = None THEN Raise(t) ELSE IF Running THEN Restarted(t) ELSE Go(t, "spawn")
  /\ Quiet

\* ... or spawns one, and gives the session its pipe, a queue and a reader.
Spawn(t) ==
  /\ pc[t] = "spawn"
  /\ spawned' = spawned + 1 /\ process' = spawned'
  /\ on' = [on EXCEPT ![t] = spawned']
  /\ Go(t, "pipes")
  /\ UNCHANGED <<history, pipes, stdin, current, terminated, threads, output>>

SetStdin(t) ==
  /\ pc[t] = "pipes"
  /\ IF process = None THEN Raise(t) /\ UNCHANGED stdin ELSE stdin' = process /\ Go(t, "terminated")
  /\ UNCHANGED <<history, pipes, spawned, process, current, terminated, threads, on, output>>

Reset(t) ==
  /\ pc[t] = "terminated"
  /\ terminated' = FALSE
  /\ Go(t, "queue")
  /\ UNCHANGED <<history, pipes, spawned, process, stdin, current, threads, on, output>>

\* A queue that nobody can reach any more is gone.
SetQueue(t) ==
  /\ pc[t] = "queue"
  /\ current' = on[t]
  /\ queue' = [g \in Shell |-> IF \E u \in Thread : pc[u] = "get" /\ on[u] = g THEN queue[g] ELSE << >>]
  /\ Go(t, "reader")
  /\ UNCHANGED <<history, shell, spawned, process, stdin, terminated, threads, on, output>>

SetReader(t) ==
  /\ pc[t] = "reader"
  /\ IF process = None
       THEN Raise(t) /\ UNCHANGED <<reader, source>>
       ELSE reader' = on[t] /\ source' = [source EXCEPT ![on[t]] = process] /\ Go(t, "stderr")
  /\ UNCHANGED <<history, pipes, session, begun, on, output>>

\* The reader of stderr needs the process too.
SetStderr(t) ==
  /\ pc[t] = "stderr"
  /\ IF process = None THEN Raise(t) ELSE Go(t, "start")
  /\ Quiet

\* A thread can be started once.
StartReader(t) ==
  /\ pc[t] = "start"
  /\ IF reader \in begun THEN Raise(t) ELSE Restarted(t)
  /\ begun' = begun \cup {reader}
  /\ UNCHANGED <<history, pipes, session, reader, source, on, output>>

------------------------------------------------------------------------------
(* The processes, and their readers: only stdout, lines of stderr are not matched. *)

Running_Shells == {g \in 1 .. spawned : shell[g].alive}

\* The shell carries out the next line of its input.
ShellReads(g) ==
  /\ g \in Running_Shells /\ shell[g].input # << >>
  /\ LET item == Head(shell[g].input)
         s    == [shell[g] EXCEPT !.input = Tail(@)]
     IN shell' = [shell EXCEPT ![g] =
          CASE item.do = "run" ->
                 [s EXCEPT !.status = item.of, !.out = Append(@, Line("out", item.of, 0))]
            [] item.do = "marker" ->
                 [s EXCEPT !.status = 0, !.out = Append(@, Line("done", item.of, s.status))]
            [] item.do = "exit" -> [Dead(s) EXCEPT !.status = item.of]
            [] item.do = "bye" -> Dead(s)]
  /\ UNCHANGED <<history, queue, session, threads, return, pc, on, output>>

\* It has read all of an input that is closed.
ShellEnds(g) ==
  /\ g \in Running_Shells /\ ~shell[g].open /\ shell[g].input = << >>
  /\ shell' = [shell EXCEPT ![g] = Dead(@)]
  /\ UNCHANGED <<history, queue, session, threads, return, pc, on, output>>

Readers(g) == {r \in begun : source[r] = g}

\* _enqueue_stream: the readers of older processes too put into self._queue.  Each takes
\* the next line; of two that read the same pipe one may be overtaken.
Read(g) ==
  /\ \E i \in DOMAIN shell[g].out :
       /\ i <= Cardinality(Readers(g))
       /\ queue' = [queue EXCEPT ![current] = Append(@, shell[g].out[i])]
       /\ shell' = [shell EXCEPT ![g].out = RemoveAt(@, i)]
  /\ UNCHANGED <<history, session, threads, return, pc, on, output>>

------------------------------------------------------------------------------

Stop(t) ==
  \/ StopLooks(t) \/ StopAsk(t) \/ StopWait(t) \/ StopWaited(t) \/ Kill(t) \/ KillGroup(t)
  \/ SetTerminated(t) \/ Close(t) \/ Clear(t)

Start(t) ==
  \/ StartCheck(t) \/ StartPoll(t) \/ Spawn(t) \/ SetStdin(t) \/ Reset(t) \/ SetQueue(t)
  \/ SetReader(t) \/ SetStderr(t) \/ StartReader(t)

Step(t) ==
  \/ \E kind \in {"run", "exit"} : Lock(t, kind) \/ WriteCommand(t, kind)
  \/ WriteMarker(t) \/ Flush(t) \/ Look(t) \/ Get(t) \/ TimeOut(t)
  \/ CollectAfterExit(t) \/ PollCode(t)
  \/ Stop(t) \/ Start(t)

Next ==
  \/ \E t \in Thread : Execute(t) \/ Restart(t) \/ Step(t)
  \/ \E g \in Shell : ShellReads(g) \/ ShellEnds(g) \/ Read(g)

Spec == Init /\ [][Next]_vars

\* Threads run, and deadlines pass; nothing is asked of the shells.
FairSpec == Spec /\ \A t \in Thread : WF_vars(Step(t))
=============================================================================
