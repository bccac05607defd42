------------------------- MODULE ShellSessionProps -------------------------
(***************************************************************************)
(* What is checked of ShellSession.                                        *)
(***************************************************************************)
EXTENDS ShellSession

Command == 0 .. MaxCalls

Stopping == {"stop", "poll", "ask", "writeBye", "flushExit", "wait", "waiting", "kill", "killpg",
             "finally", "close", "clear"}

Starting == {"check", "checkPoll", "spawn", "pipes", "terminated", "queue", "reader", "stderr", "start"}

Restarting == Stopping \cup Starting

Place == {"idle", "run", "exit", "writeRun", "writeExit", "writeMarker", "flush", "look", "get",
          "ended", "code"} \cup Restarting

Item == [do : {"run", "exit", "marker", "bye"}, of : Command]

Printed == [kind : {"out", "done"}, of : Command, code : Command]

Process == [input : Seq(Item), open : BOOLEAN, status : Command, alive : BOOLEAN, out : Seq(Printed)]

Result == [how : {"none", "raised", "code", "timed out", "ended", "restarted"}, code : Command]

TypeOK ==
  /\ mix \subseteq {"run", "exit", "restart"} /\ calls \in 0 .. MaxCalls
  /\ spawned \in Shell
  /\ process \in {None, spawned} /\ stdin \in 1 .. spawned /\ current \in 1 .. spawned
  /\ terminated \in BOOLEAN
  /\ reader \in 1 .. spawned /\ source \in [Shell -> 0 .. spawned] /\ begun \subseteq 1 .. spawned
  /\ shell \in [Shell -> Process]
  /\ queue \in [Shell -> Seq(Printed)]
  /\ lock \in Thread \cup {Nobody}
  /\ pc \in [Thread -> Place]
  /\ cmd \in [Thread -> Command]
  /\ on \in [Thread -> 0 .. spawned]
  /\ output \in [Thread -> SUBSET Printed]
  /\ result \in [Thread -> Result]

------------------------------------------------------------------------------

\* The exit code that execute() reads from a marker is that of its own command,
\* whatever an earlier command left in the pipes or the queue.  Once the session
\* has been restarted from outside it may also be 0: the marker may reach a fresh shell.
CodeIsOwn ==
  \A t \in Thread :
    result[t].how = "code" =>
      result[t].code = cmd[t] \/ (result[t].code = 0 /\ "restart" \in mix)

\* What the command printed on stdout is in the output, as long as nobody has restarted the
\* session from outside.  Lines that an older shell left in its pipe may be there as well.
StdoutIsWhole ==
  \A t \in Thread :
    result[t].how = "code" /\ "restart" \notin mix =>
      Line("out", cmd[t], 0) \in output[t]

\* A command is written to a shell that has done with all earlier ones, those that
\* timed out included, as long as nobody has restarted the session from outside.
ShellIsFree ==
  \A t \in Thread :
    pc[t] \in {"writeRun", "writeExit"} /\ Running /\ "restart" \notin mix =>
      shell[process].input = << >>

AllIdle == \A t \in Thread : pc[t] = "idle"

\* A process that runs, takes commands, and has a reader.
Usable ==
  /\ process \in Running_Shells /\ stdin = process /\ shell[process].open
  /\ Readers(process) # {}

\* When no call is under way the session can be used, whichever calls timed out, unless
\* a command ended the shell or the session was restarted from outside.
SessionSurvives == AllIdle /\ mix \subseteq {"run"} => Usable

\* A timeout leaves no other process behind, not even one that hangs, as long as nobody
\* has restarted the session from outside.
NoShellLeft ==
  AllIdle /\ "restart" \notin mix => Running_Shells \subseteq {process}

\* Every tool call returns or raises, whatever the shell does.
EveryCallReturns == \A t \in Thread : pc[t] # "idle" ~> pc[t] = "idle"
=============================================================================
