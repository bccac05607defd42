------------------------- MODULE ShellSessionProofs -------------------------
(***************************************************************************)
(* Theorems about ShellSession, for any number of threads and calls.       *)
(***************************************************************************)
EXTENDS ShellSessionProps, FiniteSetTheorems, SequenceTheorems, TLAPS

\* A thread that has spawned its process, or spawns none.
Started == {"pipes", "terminated", "queue", "reader", "stderr", "start"}

Busy == {t \in Thread : pc[t] \notin Started \cup {"idle"}}

\* A call spawns at most one process.
Counted == spawned + Cardinality(Busy) <= calls + 1

Inside == {"writeRun", "writeExit", "writeMarker", "flush", "look", "get", "ended", "code"}

\* The owner of the lock is inside; unless somebody restarts the session from outside,
\* nobody but the owner restarts it.
LockOK ==
  \A t \in Thread :
    /\ pc[t] \in Inside => lock = t
    /\ lock = t => pc[t] \in Inside \cup Restarting
    /\ pc[t] \in Restarting /\ "restart" \notin mix => lock = t
    /\ pc[t] \in {"get", "waiting"} \cup Started => on[t] # None

FreshOK == \A g \in Shell : g > spawned => shell[g] = Fresh

\* Nobody has written to a process before self._stdin is its file.
NewOK == \A g \in Shell : g > stdin => shell[g].input = << >> /\ shell[g].status = 0

Base == TypeOK /\ Counted /\ LockOK /\ FreshOK /\ NewOK

------------------------------------------------------------------------------
(* Sequences. *)

LEMMA Appended ==
  ASSUME NEW S, NEW s \in Seq(S), NEW e \in S
  PROVE  /\ Append(s, e) \in Seq(S) /\ Append(s, e) # << >>
         /\ Len(Append(s, e)) = Len(s) + 1 /\ Len(s) \in Nat
         /\ DOMAIN Append(s, e) = 1 .. Len(s) + 1 /\ DOMAIN s = 1 .. Len(s)
         /\ \A i \in 1 .. Len(s) : Append(s, e)[i] = s[i]
         /\ Append(s, e)[Len(s) + 1] = e
OBVIOUS

LEMMA AppendedWhere ==
  ASSUME NEW S, NEW s \in Seq(S), NEW e \in S
  PROVE  /\ Append(s, e) # << >> /\ Append(s, e)[Len(Append(s, e))] = e
         /\ \A i \in DOMAIN Append(s, e) :
              (i \in DOMAIN s /\ Append(s, e)[i] = s[i])
                \/ (i = Len(Append(s, e)) /\ Append(s, e)[i] = e)
OBVIOUS

LEMMA Elements ==
  ASSUME NEW S, NEW s \in Seq(S)
  PROVE  \A i \in DOMAIN s : s[i] \in S
OBVIOUS

LEMMA Tailed ==
  ASSUME NEW S, NEW s \in Seq(S), s # << >>
  PROVE  /\ Head(s) \in S /\ Head(s) = s[1] /\ Tail(s) \in Seq(S)
         /\ Len(Tail(s)) = Len(s) - 1 /\ Len(s) \in Nat \ {0}
         /\ DOMAIN Tail(s) = 1 .. Len(s) - 1 /\ DOMAIN s = 1 .. Len(s)
         /\ \A i \in 1 .. Len(s) - 1 : Tail(s)[i] = s[i + 1]
OBVIOUS

LEMMA Emptied ==
  ASSUME NEW S, NEW s \in Seq(S)
  PROVE  (s = << >>) <=> (Len(s) = 0)
OBVIOUS

------------------------------------------------------------------------------
(* Where threads are, and what they hold. *)

LEMMA Numbers ==
  ASSUME TypeOK
  PROVE  /\ MaxCalls \in Nat /\ calls \in Nat /\ calls <= MaxCalls
         /\ spawned \in Nat /\ 1 <= spawned /\ spawned <= MaxCalls + 1 /\ spawned \in Shell
         /\ stdin \in Nat /\ 1 <= stdin /\ stdin <= spawned /\ stdin \in Shell
         /\ current \in Shell /\ reader \in Shell /\ None \in Command
         /\ None \notin Shell /\ Shell \subseteq Nat /\ 1 .. spawned \subseteq Shell
<1>1. MaxCalls \in Nat
  BY ShellAssumption
<1>2. /\ calls \in 0 .. MaxCalls /\ spawned \in 1 .. MaxCalls + 1
      /\ stdin \in 1 .. spawned /\ current \in 1 .. spawned /\ reader \in 1 .. spawned
  BY DEF TypeOK, Shell
<1>. QED BY <1>1, <1>2 DEF Shell, None, Command

\* What a step of a call does to its place, its result and the lock.
LEMMA Moved ==
  ASSUME NEW t \in Thread, TypeOK, Step(t)
  PROVE  /\ UNCHANGED history /\ pc[t] # "idle"
         /\ pc' \in [Thread -> Place]
         /\ \A u \in Thread : u # t => pc'[u] = pc[u]
         /\ \/ UNCHANGED return /\ pc'[t] # "idle" /\ pc[t] \notin {"run", "exit"}
            \/ /\ pc[t] \in {"run", "exit"} /\ pc'[t] \in {"writeRun", "writeExit"}
               /\ lock = Nobody /\ lock' = t /\ result' = result
            \/ /\ pc'[t] = "idle" /\ pc[t] \notin {"run", "exit"} /\ lock' = (IF lock = t THEN Nobody ELSE lock)
               /\ \E how, code : result' = [result EXCEPT ![t] = [how |-> how, code |-> code]]
<1>0. pc \in [Thread -> Place]
  BY DEF TypeOK
<1>1. ASSUME NEW p \in Place \ {"idle"}, Go(t, p), pc[t] \notin {"idle", "run", "exit"}, UNCHANGED history
      PROVE  /\ UNCHANGED history /\ pc[t] # "idle" /\ pc' \in [Thread -> Place]
             /\ \A u \in Thread : u # t => pc'[u] = pc[u]
             /\ UNCHANGED return /\ pc'[t] # "idle" /\ pc[t] \notin {"run", "exit"}
  BY <1>0, <1>1 DEF Go, Goto
<1>2. ASSUME NEW how, NEW code, Return(t, how, code), pc[t] \notin {"idle", "run", "exit"}, UNCHANGED history
      PROVE  /\ UNCHANGED history /\ pc[t] # "idle" /\ pc' \in [Thread -> Place]
             /\ \A u \in Thread : u # t => pc'[u] = pc[u]
             /\ pc'[t] = "idle" /\ pc[t] \notin {"run", "exit"} /\ lock' = (IF lock = t THEN Nobody ELSE lock)
             /\ result' = [result EXCEPT ![t] = [how |-> how, code |-> code]]
  BY <1>0, <1>2 DEF Return, Goto, Place
<1>. HIDE DEF Place
<1>3. {"writeRun", "writeExit", "writeMarker", "flush", "look", "get", "ended", "code", "stop", "poll",
       "ask", "writeBye", "flushExit", "wait", "waiting", "kill", "killpg", "finally", "close", "clear",
       "check", "checkPoll", "spawn", "pipes", "terminated", "queue", "reader", "stderr", "start"}
        \subseteq Place \ {"idle"}
  BY DEF Place, Restarting, Stopping, Starting
<1>4. CASE \E kind \in {"run", "exit"} : Lock(t, kind)
  BY <1>0, <1>3, <1>4 DEF Lock, Goto, Writing
<1>5. ASSUME NEW item, NEW next \in Place \ {"idle"}, NEW broken \in Place \ {"idle"},
             pc[t] \notin {"idle", "run", "exit"}, Write(t, item, next, broken)
      PROVE  /\ UNCHANGED history /\ pc[t] # "idle" /\ pc' \in [Thread -> Place]
             /\ \A u \in Thread : u # t => pc'[u] = pc[u]
             /\ \/ UNCHANGED return /\ pc'[t] # "idle" /\ pc[t] \notin {"run", "exit"}
                \/ /\ pc'[t] = "idle" /\ pc[t] \notin {"run", "exit"} /\ lock' = (IF lock = t THEN Nobody ELSE lock)
                   /\ \E how, code : result' = [result EXCEPT ![t] = [how |-> how, code |-> code]]
  <2>1. UNCHANGED history /\ (Go(t, next) \/ Go(t, broken) \/ Return(t, "raised", None))
    BY <1>5 DEF Write, Raise
  <2>. QED BY <1>1, <1>2, <1>5, <2>1
<1>6. CASE (\E kind \in {"run", "exit"} : WriteCommand(t, kind)) \/ WriteMarker(t) \/ StopAsk(t)
  <2>1. \E item : \E next \in Place \ {"idle"}, broken \in Place \ {"idle"} : Write(t, item, next, broken)
    BY <1>3, <1>6 DEF WriteCommand, WriteMarker, StopAsk
  <2>2. pc[t] \notin {"idle", "run", "exit"}
    BY <1>6 DEF WriteCommand, WriteMarker, StopAsk, Writing
  <2>. QED BY <1>5, <2>1, <2>2
<1>7. CASE \/ Flush(t) \/ Look(t) \/ Get(t) \/ TimeOut(t) \/ CollectAfterExit(t) \/ PollCode(t)
           \/ StopLooks(t) \/ StopWait(t) \/ StopWaited(t) \/ Kill(t) \/ KillGroup(t)
           \/ Close(t) \/ Clear(t) \/ SetTerminated(t) \/ Start(t)
  <2>1. UNCHANGED history /\ pc[t] \notin {"idle", "run", "exit"}
    BY <1>7 DEF Flush, Look, Get, TimeOut, CollectAfterExit, PollCode, StopLooks, StopWait, StopWaited,
         Kill, KillGroup, Close, Clear, SetTerminated, Start, StartCheck, StartPoll, Spawn, SetStdin, Reset,
         SetQueue, SetReader, SetStderr, StartReader, Quiet
  <2>2. (\E p \in Place \ {"idle"} : Go(t, p)) \/ (\E how, code : Return(t, how, code))
    <3>1. CASE Flush(t) \/ Look(t) \/ Get(t) \/ TimeOut(t) \/ CollectAfterExit(t) \/ PollCode(t)
      BY <1>3, <3>1 DEF Flush, Look, Get, TimeOut, CollectAfterExit, PollCode, Raise
    <3>2. CASE \/ StopLooks(t) \/ StopWait(t) \/ StopWaited(t) \/ Kill(t) \/ KillGroup(t)
               \/ Close(t) \/ Clear(t) \/ SetTerminated(t)
      BY <1>3, <3>2 DEF StopLooks, StopWait, StopWaited, Kill, KillGroup, Close, Clear, SetTerminated, Raise
    <3>3. CASE Start(t)
      BY <1>3, <3>3 DEF Start, StartCheck, StartPoll, Spawn, SetStdin, Reset,
         SetQueue, SetReader, SetStderr, StartReader, Raise, Restarted
    <3>. QED BY <1>7, <3>1, <3>2, <3>3
  <2>. QED BY <1>1, <1>2, <2>1, <2>2
<1>. QED BY <1>4, <1>6, <1>7 DEF Step, Stop

\* A step other than Spawn leaves no more calls before theirs than there were.
LEMMA Fewer ==
  ASSUME NEW t \in Thread, TypeOK, pc' \in [Thread -> Place],
         \A u \in Thread : u # t => pc'[u] = pc[u],
         pc[t] \in Started \cup {"idle"} => pc'[t] \in Started \cup {"idle"}
  PROVE  /\ Cardinality(Busy) \in Nat /\ Cardinality(Busy') \in Nat
         /\ Cardinality(Busy') <= Cardinality(Busy)
         /\ pc[t] \notin Started \cup {"idle"} /\ pc'[t] \in Started =>
              Cardinality(Busy') = Cardinality(Busy) - 1
<1>1. Busy \subseteq Thread /\ IsFiniteSet(Busy) /\ Cardinality(Busy) \in Nat
  BY ShellAssumption, FS_Subset, FS_CardinalityType DEF Busy
<1>2. Busy' \subseteq Busy /\ IsFiniteSet(Busy') /\ Cardinality(Busy') \in Nat
      /\ Cardinality(Busy') <= Cardinality(Busy)
  <2>1. Busy' \subseteq Busy
    BY DEF Busy
  <2>. QED BY <1>1, <2>1, FS_Subset, FS_CardinalityType
<1>3. ASSUME pc[t] \notin Started \cup {"idle"}, pc'[t] \in Started
      PROVE  Cardinality(Busy') = Cardinality(Busy) - 1
  <2>1. Busy' = Busy \ {t} /\ t \in Busy
    BY <1>3 DEF Busy
  <2>. QED BY <1>1, <2>1, FS_RemoveElement
<1>. QED BY <1>1, <1>2, <1>3

\* The places of restart(), in their order.
LEMMA Sides ==
  /\ Started \subseteq Restarting /\ Inside \cap Restarting = {} /\ "idle" \notin Inside \cup Restarting
  /\ "stop" \in Restarting \ Started /\ "spawn" \in Restarting \ Started
BY DEF Started, Restarting, Stopping, Starting, Inside

\* The parts of a call, one after the other.
LEMMA Edges ==
  ASSUME NEW t \in Thread, TypeOK, Step(t), pc'[t] # "idle"
  PROVE  \/ pc[t] \in {"run", "exit"} /\ pc'[t] \in {"writeRun", "writeExit"}
         \/ pc[t] \in Inside /\ pc'[t] \in (Inside \ {"writeRun", "writeExit"}) \cup {"stop"}
         \/ pc[t] \in Restarting \ Started /\ pc'[t] \in Restarting \ {"stop"}
         \/ pc[t] \in Started /\ pc'[t] \in Started
<1>0. pc \in [Thread -> Place]
  BY DEF TypeOK
<1>1. ASSUME NEW how, NEW code, Return(t, how, code) PROVE FALSE
  BY <1>0, <1>1 DEF Return, Goto
<1>2. ASSUME NEW item, NEW next, NEW broken, Write(t, item, next, broken) PROVE pc'[t] \in {next, broken}
  BY <1>0, <1>1, <1>2 DEF Write, Raise, Go, Goto
<1>3. \A p : Go(t, p) => pc'[t] = p
  BY <1>0 DEF Go, Goto
<1>4. CASE \E kind \in {"run", "exit"} : Lock(t, kind)
  BY <1>0, <1>4 DEF Lock, Goto, Writing
<1>5. CASE (\E kind \in {"run", "exit"} : WriteCommand(t, kind)) \/ WriteMarker(t)
  BY <1>2, <1>5 DEF WriteCommand, WriteMarker, Writing, Inside
<1>6. CASE Flush(t) \/ Look(t) \/ Get(t) \/ TimeOut(t) \/ CollectAfterExit(t) \/ PollCode(t)
  BY <1>1, <1>3, <1>6 DEF Flush, Look, Get, TimeOut, CollectAfterExit, PollCode, Raise, Inside,
     Started, Restarting, Stopping, Starting
<1>7. CASE StopAsk(t)
  BY <1>2, <1>7 DEF StopAsk, Started, Restarting, Stopping, Starting
<1>8. CASE \/ StopLooks(t) \/ StopWait(t) \/ StopWaited(t) \/ Kill(t) \/ KillGroup(t)
           \/ Close(t) \/ Clear(t) \/ SetTerminated(t)
  BY <1>1, <1>3, <1>8 DEF StopLooks, StopWait, StopWaited, Kill, KillGroup, Close, Clear, SetTerminated,
     Raise, Started, Restarting, Stopping, Starting
<1>9. CASE Start(t)
  BY <1>1, <1>3, <1>9 DEF Start, StartCheck, StartPoll, Spawn, SetStdin, Reset, SetQueue, SetReader,
     SetStderr, StartReader, Raise, Restarted, Started, Restarting, Stopping, Starting
<1>. QED BY <1>4, <1>5, <1>6, <1>7, <1>8, <1>9 DEF Step, Stop

\* What a step of a call does to the attributes of the session.
LEMMA Attributes ==
  ASSUME NEW t \in Thread, TypeOK, LockOK, Step(t), pc[t] = "spawn" => spawned + 1 \in Shell
  PROVE  /\ spawned' = spawned \/ (Spawn(t) /\ spawned' = spawned + 1)
         /\ spawned' \in Shell /\ spawned <= spawned'
         /\ process' \in {None, spawned'} /\ stdin' \in 1 .. spawned' /\ current' \in 1 .. spawned'
         /\ stdin' = stdin \/ (SetStdin(t) /\ stdin' = spawned /\ process = spawned)
         /\ terminated' \in BOOLEAN /\ reader' \in 1 .. spawned'
         /\ source' \in [Shell -> 0 .. spawned'] /\ begun' \subseteq 1 .. spawned'
         /\ on' \in [Thread -> 0 .. spawned'] /\ \A u \in Thread : u # t => on'[u] = on[u]
         /\ pc'[t] \in {"get", "waiting"} \cup Started => on'[t] # None
<1>0. /\ process \in {None, spawned} /\ stdin \in 1 .. spawned /\ current \in 1 .. spawned
      /\ terminated \in BOOLEAN /\ reader \in 1 .. spawned
      /\ source \in [Shell -> 0 .. spawned] /\ begun \subseteq 1 .. spawned
      /\ on \in [Thread -> 0 .. spawned] /\ pc \in [Thread -> Place]
      /\ spawned \in Shell /\ spawned \in Nat /\ 1 <= spawned /\ Shell \subseteq Nat
      /\ pc[t] \in Started => on[t] # None
  BY Numbers DEF TypeOK, LockOK
<1>1. \A how, code : Return(t, how, code) => pc'[t] = "idle"
  BY <1>0 DEF Return, Goto
<1>2. \A p : Go(t, p) => pc'[t] = p
  BY <1>0 DEF Go, Goto
<1>3. ASSUME UNCHANGED <<session, threads, on>>, pc'[t] \notin {"get", "waiting"} \cup Started
      PROVE  /\ spawned' = spawned /\ spawned' \in Shell /\ spawned <= spawned'
             /\ process' \in {None, spawned'} /\ stdin' \in 1 .. spawned' /\ current' \in 1 .. spawned'
             /\ stdin' = stdin
             /\ terminated' \in BOOLEAN /\ reader' \in 1 .. spawned'
             /\ source' \in [Shell -> 0 .. spawned'] /\ begun' \subseteq 1 .. spawned'
             /\ on' \in [Thread -> 0 .. spawned'] /\ \A u \in Thread : u # t => on'[u] = on[u]
  BY <1>0, <1>3 DEF session, threads
<1>4. ASSUME NEW item, NEW next \in {"writeMarker", "flush", "flushExit"}, NEW broken \in {"ended", "wait"},
             Write(t, item, next, broken)
      PROVE  UNCHANGED <<session, threads, on>> /\ pc'[t] \notin {"get", "waiting"} \cup Started
  <2>1. UNCHANGED <<session, threads, on>>
    BY <1>4 DEF Write
  <2>2. pc'[t] \in {next, broken, "idle"}
    BY <1>1, <1>2, <1>4 DEF Write, Raise
  <2>. QED BY <2>1, <2>2 DEF Started
<1>5. CASE (\E kind \in {"run", "exit"} : Lock(t, kind) \/ WriteCommand(t, kind)) \/ WriteMarker(t) \/ StopAsk(t)
  <2>1. CASE \E kind \in {"run", "exit"} : Lock(t, kind)
    <3>1. pc'[t] \in {"writeRun", "writeExit"} /\ UNCHANGED <<session, threads, on>>
      BY <1>0, <2>1 DEF Lock, Goto, Writing
    <3>. QED BY <1>3, <3>1 DEF Started
  <2>2. CASE (\E kind \in {"run", "exit"} : WriteCommand(t, kind)) \/ WriteMarker(t) \/ StopAsk(t)
    BY <1>3, <1>4, <2>2 DEF WriteCommand, WriteMarker, StopAsk
  <2>. QED BY <1>5, <2>1, <2>2
<1>6. CASE Flush(t) \/ CollectAfterExit(t) \/ PollCode(t) \/ StopLooks(t) \/ Kill(t) \/ Close(t)
  <2>1. UNCHANGED <<session, threads, on>>
    BY <1>6 DEF Flush, CollectAfterExit, PollCode, StopLooks, Kill, Close, Quiet
  <2>2. pc'[t] \notin {"get", "waiting"} \cup Started
    BY <1>1, <1>2, <1>6 DEF Flush, CollectAfterExit, PollCode, StopLooks, Kill, Close, Raise, Started
  <2>. QED BY <1>3, <2>1, <2>2
<1>7. CASE Look(t) \/ Get(t) \/ TimeOut(t) \/ StopWait(t) \/ StopWaited(t) \/ KillGroup(t)
  <2>1. CASE StopWaited(t)
    <3>1. UNCHANGED <<session, threads, on>> /\ pc'[t] \notin {"get", "waiting"} \cup Started
      BY <1>2, <2>1 DEF StopWaited, Quiet, Started
    <3>. QED BY <1>3, <3>1
  <2>2. CASE Look(t) \/ Get(t) \/ TimeOut(t) \/ StopWait(t) \/ KillGroup(t)
    <3>1. UNCHANGED <<session, threads>> /\ \E g \in 0 .. spawned : on' = [on EXCEPT ![t] = g]
      BY <1>0, <2>2 DEF Look, Get, TimeOut, StopWait, KillGroup, None
    <3>2. pc'[t] \in {"get", "waiting"} \cup Started => on'[t] # None
      BY <1>0, <1>1, <1>2, <2>2 DEF Look, Get, TimeOut, StopWait, KillGroup, Started, None
    <3>. QED BY <1>0, <3>1, <3>2 DEF session, threads
  <2>. QED BY <1>7, <2>1, <2>2
<1>8. CASE SetTerminated(t) \/ Clear(t) \/ Reset(t)
  <2>1. /\ UNCHANGED <<spawned, stdin, current, threads, on>> /\ process' \in {process, None}
        /\ terminated' \in BOOLEAN
    BY <1>0, <1>8 DEF SetTerminated, Clear, Reset, threads
  <2>2. pc'[t] \in {"get", "waiting"} \cup Started => pc[t] \in Started
    BY <1>1, <1>2, <1>8 DEF SetTerminated, Clear, Reset, Raise, Started
  <2>. QED BY <1>0, <2>1, <2>2 DEF threads
<1>9. CASE StartCheck(t) \/ StartPoll(t) \/ SetStderr(t)
  <2>1. UNCHANGED <<session, threads, on>>
    BY <1>9 DEF StartCheck, StartPoll, SetStderr, Quiet
  <2>2. pc'[t] \in {"get", "waiting"} \cup Started => pc[t] \in Started
    BY <1>1, <1>2, <1>9 DEF StartCheck, StartPoll, SetStderr, Raise, Restarted, Started
  <2>. QED BY <1>0, <2>1, <2>2 DEF session, threads
<1>10. CASE Spawn(t)
  <2>1. /\ spawned' = spawned + 1 /\ process' = spawned' /\ on' = [on EXCEPT ![t] = spawned']
        /\ UNCHANGED <<stdin, current, terminated, threads>> /\ spawned' \in Shell
    BY <1>10 DEF Spawn
  <2>2. 0 .. spawned \subseteq 0 .. spawned' /\ 1 .. spawned \subseteq 1 .. spawned' /\ spawned' # None
    BY <1>0, <2>1 DEF None
  <2>. QED BY <1>0, <1>10, <2>1, <2>2 DEF threads
<1>11. CASE SetStdin(t)
  <2>1. UNCHANGED <<spawned, process, current, terminated, threads, on>>
    BY <1>11 DEF SetStdin
  <2>2. stdin' = stdin \/ (process = spawned /\ stdin' = spawned)
    BY <1>0, <1>11 DEF SetStdin
  <2>3. pc[t] \in Started
    BY <1>11 DEF SetStdin, Started
  <2>. QED BY <1>0, <1>11, <2>1, <2>2, <2>3 DEF threads
<1>12. CASE SetQueue(t) \/ SetReader(t) \/ StartReader(t)
  <2>1. UNCHANGED <<spawned, process, stdin, terminated, on>> /\ pc[t] \in Started
    BY <1>12 DEF SetQueue, SetReader, StartReader, Started, session
  <2>2. on[t] \in 1 .. spawned
    BY <1>0, <2>1 DEF None
  <2>3. /\ current' \in {current, on[t]} /\ reader' \in {reader, on[t]}
        /\ source' = source \/ source' = [source EXCEPT ![on[t]] = process]
        /\ begun' \subseteq begun \cup {reader}
    BY <1>12 DEF SetQueue, SetReader, StartReader, session, threads
  <2>4. process \in 0 .. spawned
    BY <1>0 DEF None
  <2>. QED BY <1>0, <2>1, <2>2, <2>3, <2>4
<1>. QED BY <1>5, <1>6, <1>7, <1>8, <1>9, <1>10, <1>11, <1>12 DEF Step, Stop, Start

------------------------------------------------------------------------------
(* What a step does to the shells, the queues and what calls have collected. *)

Marker(n) == [do |-> "marker", of |-> n]

OnlyAt(g) == \A h \in Shell : h # g => shell'[h] = shell[h]

\* Item is written to shell g;
WrittenAt(g, item) ==
  /\ OnlyAt(g) /\ shell[g].alive /\ shell[g].open
  /\ shell'[g].input = Append(shell[g].input, item)
  /\ shell'[g].alive /\ shell'[g].open
  /\ shell'[g].status = shell[g].status /\ shell'[g].out = shell[g].out

\* it ends;
DiesAt(g) ==
  /\ OnlyAt(g) /\ shell[g].alive
  /\ shell'[g].input = << >> /\ ~shell'[g].alive
  /\ shell'[g].open = shell[g].open /\ shell'[g].out = shell[g].out

\* it reads an item and prints a line.
PrintsAt(g, item, line) ==
  /\ OnlyAt(g) /\ shell[g].alive /\ shell[g].input # << >> /\ item = Head(shell[g].input)
  /\ shell'[g].input = Tail(shell[g].input) /\ shell'[g].out = Append(shell[g].out, line)
  /\ shell'[g].alive /\ shell'[g].open = shell[g].open
  /\ \/ item.do = "run" /\ line = Line("out", item.of, 0) /\ shell'[g].status = item.of
     \/ item.do = "marker" /\ line = Line("done", item.of, shell[g].status) /\ shell'[g].status = 0

\* The writes of a call.
Writes(t, item) ==
  \/ /\ pc[t] \in {"writeRun", "writeExit"} /\ pc'[t] = "writeMarker"
     /\ item.of = cmd[t] /\ pc[t] = Writing(item.do) /\ item.do \in {"run", "exit"}
  \/ pc[t] = "writeMarker" /\ pc'[t] = "flush" /\ item = Marker(cmd[t])
  \/ pc[t] = "writeBye" /\ pc'[t] = "flushExit" /\ item = [do |-> "bye", of |-> 0]

LEMMA Typed ==
  ASSUME TypeOK
  PROVE  /\ \A g \in Shell : /\ shell[g] \in Process /\ shell[g].input \in Seq(Item)
                             /\ shell[g].out \in Seq(Printed) /\ shell[g].status \in Command
                             /\ queue[g] \in Seq(Printed)
         /\ \A t \in Thread : cmd[t] \in Command
BY DEF TypeOK, Process

LEMMA Deaths ==
  \A s \in Process :
    /\ Dead(s) \in Process /\ Dead(s).input = << >> /\ ~Dead(s).alive /\ Dead(s).open = s.open
    /\ Dead(s).status = s.status /\ Dead(s).out = s.out
<1>1. << >> \in Seq(Item)
  OBVIOUS
<1>. QED BY <1>1 DEF Dead, Process

LEMMA Shells ==
  ASSUME NEW t \in Thread, TypeOK, Step(t)
  PROVE  /\ shell' \in [Shell -> Process]
         /\ \/ shell' = shell
            \/ /\ Close(t) /\ OnlyAt(stdin) /\ ~shell'[stdin].open
               /\ shell'[stdin].input = shell[stdin].input /\ shell'[stdin].alive = shell[stdin].alive
               /\ shell'[stdin].status = shell[stdin].status /\ shell'[stdin].out = shell[stdin].out
            \/ KillGroup(t) /\ Running /\ process \in Shell /\ DiesAt(process) /\ shell'[process].status = 0
            \/ \E item \in Item : WrittenAt(stdin, item) /\ Writes(t, item) /\ queue' = queue
<1>0. /\ shell \in [Shell -> Process] /\ stdin \in Shell /\ None \in Command /\ pc \in [Thread -> Place]
      /\ cmd[t] \in Command /\ process \in {None, spawned} /\ spawned \in Shell
  BY Numbers DEF TypeOK
<1>1. \A p : Go(t, p) => pc'[t] = p
  BY <1>0 DEF Go, Goto
<1>2. ASSUME NEW item \in Item, NEW next, NEW broken, Write(t, item, next, broken), shell' # shell
      PROVE  /\ shell' \in [Shell -> Process] /\ WrittenAt(stdin, item) /\ pc'[t] = next /\ queue' = queue
  <2>1. /\ shell[stdin].open /\ shell[stdin].alive /\ Go(t, next) /\ queue' = queue
        /\ shell' = [shell EXCEPT ![stdin].input = Append(@, item)]
    BY <1>2 DEF Write
  <2>2. shell[stdin] \in Process /\ shell[stdin].input \in Seq(Item)
    BY <1>0 DEF Process
  <2>. DEFINE r == [shell[stdin] EXCEPT !.input = Append(@, item)]
  <2>3. r \in Process
    <3>1. Append(shell[stdin].input, item) \in Seq(Item)
      BY <2>2, Appended
    <3>. HIDE DEF Item, Printed
    <3>. QED BY <2>2, <3>1 DEF Process
  <2>4. shell' = [shell EXCEPT ![stdin] = r]
    BY <2>1
  <2>5. /\ r.input = Append(shell[stdin].input, item) /\ r.alive = shell[stdin].alive
        /\ r.open = shell[stdin].open /\ r.status = shell[stdin].status /\ r.out = shell[stdin].out
    BY <2>2 DEF Process
  <2>. HIDE DEF r
  <2>6. shell'[stdin] = r /\ OnlyAt(stdin)
    BY <1>0, <2>4 DEF OnlyAt
  <2>. QED BY <1>0, <1>1, <2>1, <2>3, <2>4, <2>5, <2>6 DEF WrittenAt
<1>3. ASSUME NEW kind \in {"run", "exit"}, WriteCommand(t, kind), shell' # shell
      PROVE  /\ shell' \in [Shell -> Process]
             /\ \E item \in Item : WrittenAt(stdin, item) /\ Writes(t, item) /\ queue' = queue
  <2>. DEFINE item == [do |-> kind, of |-> cmd[t]]
  <2>1. item \in Item /\ item.of = cmd[t] /\ item.do = kind
    BY <1>0 DEF Item
  <2>2. Write(t, item, "writeMarker", "ended") /\ pc[t] = Writing(kind)
    BY <1>3 DEF WriteCommand
  <2>. HIDE DEF item
  <2>. QED BY <1>2, <1>3, <2>1, <2>2 DEF Writes, Writing
<1>4. ASSUME WriteMarker(t), shell' # shell
      PROVE  /\ shell' \in [Shell -> Process]
             /\ \E item \in Item : WrittenAt(stdin, item) /\ Writes(t, item) /\ queue' = queue
  <2>1. Marker(cmd[t]) \in Item
    BY <1>0 DEF Item, Marker
  <2>2. Write(t, Marker(cmd[t]), "flush", "ended") /\ pc[t] = "writeMarker"
    BY <1>4 DEF WriteMarker, Marker
  <2>. QED BY <1>2, <1>4, <2>1, <2>2 DEF Writes
<1>5. ASSUME StopAsk(t), shell' # shell
      PROVE  /\ shell' \in [Shell -> Process]
             /\ \E item \in Item : WrittenAt(stdin, item) /\ Writes(t, item) /\ queue' = queue
  <2>. DEFINE item == [do |-> "bye", of |-> 0]
  <2>1. item \in Item
    BY <1>0 DEF Item, None
  <2>2. Write(t, item, "flushExit", "wait") /\ pc[t] = "writeBye"
    BY <1>5 DEF StopAsk
  <2>3. WrittenAt(stdin, item) /\ pc'[t] = "flushExit" /\ shell' \in [Shell -> Process] /\ queue' = queue
    BY <1>2, <1>5, <2>1, <2>2
  <2>. QED BY <2>1, <2>2, <2>3 DEF Writes
<1>6. ASSUME Close(t)
      PROVE  /\ shell' \in [Shell -> Process] /\ OnlyAt(stdin) /\ ~shell'[stdin].open
             /\ shell'[stdin].input = shell[stdin].input /\ shell'[stdin].alive = shell[stdin].alive
             /\ shell'[stdin].status = shell[stdin].status /\ shell'[stdin].out = shell[stdin].out
  <2>1. shell' = [shell EXCEPT ![stdin].open = FALSE]
    BY <1>6 DEF Close
  <2>. QED BY <1>0, <2>1 DEF OnlyAt, Process
<1>7. ASSUME KillGroup(t), shell' # shell
      PROVE  /\ shell' \in [Shell -> Process] /\ Running /\ process \in Shell
             /\ DiesAt(process) /\ shell'[process].status = 0
  <2>1. Running /\ process \in Shell /\ shell' = [shell EXCEPT ![process] = [Dead(@) EXCEPT !.status = 0]]
    BY <1>0, <1>7 DEF KillGroup, Running
  <2>2. shell[process] \in Process /\ shell[process].alive
    BY <1>0, <2>1 DEF Running
  <2>3. [Dead(shell[process]) EXCEPT !.status = 0] \in Process
    <3>1. Dead(shell[process]) \in Process
      BY <2>2, Deaths
    <3>2. \A d \in Process : [d EXCEPT !.status = None] \in Process
      BY <1>0 DEF Process
    <3>. QED BY <3>1, <3>2 DEF None
  <2>. QED BY <1>0, <2>1, <2>2, <2>3 DEF DiesAt, OnlyAt, Dead, Process
<1>8. CASE (\E kind \in {"run", "exit"} : Lock(t, kind)) \/ Flush(t) \/ Look(t) \/ Get(t) \/ TimeOut(t)
           \/ CollectAfterExit(t) \/ PollCode(t) \/ StopLooks(t) \/ StopWait(t) \/ StopWaited(t) \/ Kill(t)
           \/ SetTerminated(t) \/ Clear(t) \/ Start(t)
  <2>1. shell' = shell
    BY <1>8 DEF Lock, Flush, Look, Get, TimeOut, CollectAfterExit, PollCode, StopLooks, StopWait,
       StopWaited, Kill, SetTerminated, Clear, Start, StartCheck, StartPoll, Spawn, SetStdin, Reset,
       SetQueue, SetReader, SetStderr, StartReader, Quiet, pipes
  <2>. QED BY <1>0, <2>1
<1>. QED BY <1>0, <1>3, <1>4, <1>5, <1>6, <1>7, <1>8 DEF Step, Stop

LEMMA Queues ==
  ASSUME NEW t \in Thread, TypeOK, LockOK, Step(t)
  PROVE  /\ queue' \in [Shell -> Seq(Printed)] /\ output' \in [Thread -> SUBSET Printed]
         /\ \A u \in Thread : u # t => output'[u] = output[u]
         /\ \/ \A g \in Shell : queue'[g] = queue[g] \/ queue'[g] = << >>
            \/ Get(t) /\ on[t] \in Shell /\ queue' = [queue EXCEPT ![on[t]] = Tail(@)]
<1>0. /\ queue \in [Shell -> Seq(Printed)] /\ output \in [Thread -> SUBSET Printed]
      /\ current \in Shell /\ << >> \in Seq(Printed) /\ on[t] \in 0 .. spawned
  BY Numbers DEF TypeOK
<1>1. CASE \E kind \in {"run", "exit"} : Lock(t, kind)
  BY <1>0, <1>1 DEF Lock
<1>2. CASE CollectAfterExit(t)
  <2>1. {queue[current][i] : i \in DOMAIN queue[current]} \subseteq Printed
    BY <1>0, Elements
  <2>. QED BY <1>0, <1>2, <2>1 DEF CollectAfterExit
<1>3. CASE SetQueue(t)
  BY <1>0, <1>3 DEF SetQueue
<1>4. CASE Get(t)
  <2>0. on[t] \in Shell
    BY <1>0, <1>4, Numbers DEF Get, LockOK, None
  <2>1. queue[on[t]] \in Seq(Printed) /\ queue[on[t]] # << >>
    BY <1>0, <1>4, <2>0 DEF Get
  <2>. DEFINE line == Head(queue[on[t]])
  <2>2. line \in Printed /\ Tail(queue[on[t]]) \in Seq(Printed)
    BY <2>1, Tailed
  <2>3. output' = output \/ output' = [output EXCEPT ![t] = @ \cup {line}]
    BY <1>4 DEF Get
  <2>4. queue' = [queue EXCEPT ![on[t]] = Tail(@)]
    BY <1>4 DEF Get
  <2>. HIDE DEF line
  <2>. QED BY <1>0, <1>4, <2>0, <2>2, <2>3, <2>4
<1>5. CASE (\E kind \in {"run", "exit"} : WriteCommand(t, kind)) \/ WriteMarker(t) \/ StopAsk(t)
  <2>1. \E item, next, broken : Write(t, item, next, broken)
    BY <1>5 DEF WriteCommand, WriteMarker, StopAsk
  <2>. QED BY <1>0, <2>1 DEF Write
<1>6. CASE TimeOut(t)
  BY <1>0, <1>6 DEF TimeOut, pipes
<1>7. CASE Flush(t) \/ Look(t) \/ PollCode(t) \/ StopLooks(t) \/ StopWait(t) \/ StopWaited(t) \/ Kill(t)
           \/ KillGroup(t) \/ Close(t) \/ SetTerminated(t) \/ Clear(t)
  <2>1. queue' = queue /\ output' = output
    BY <1>7 DEF Flush, Look, PollCode, StopLooks, StopWait, StopWaited, Kill, KillGroup, Close,
       SetTerminated, Clear, Quiet, pipes
  <2>. QED BY <1>0, <2>1
<1>8. CASE StartCheck(t) \/ StartPoll(t) \/ Spawn(t) \/ SetStdin(t) \/ Reset(t)
           \/ SetReader(t) \/ SetStderr(t) \/ StartReader(t)
  <2>1. queue' = queue /\ output' = output
    BY <1>8 DEF StartCheck, StartPoll, Spawn, SetStdin, Reset, SetReader, SetStderr, StartReader, Quiet, pipes
  <2>. QED BY <1>0, <2>1
<1>. QED BY <1>1, <1>2, <1>3, <1>4, <1>5, <1>6, <1>7, <1>8 DEF Step, Stop, Start

LEMMA Results ==
  ASSUME NEW t \in Thread, TypeOK, LockOK, Step(t)
  PROVE  /\ result' \in [Thread -> Result]
         /\ result'[t] = result[t] \/ result'[t].how # "code"
              \/ /\ Get(t) /\ IsMarker(t, Head(queue[on[t]])) /\ pc'[t] = "idle" /\ output' = output
                 /\ result'[t] = [how |-> "code", code |-> Head(queue[on[t]]).code]
<1>0. /\ result \in [Thread -> Result] /\ None \in Command /\ shell \in [Shell -> Process]
      /\ process \in {None, spawned} /\ spawned \in Shell
  BY Numbers DEF TypeOK
<1>1. ASSUME NEW how \in {"none", "raised", "timed out", "ended", "restarted"}, NEW code \in Command,
             Return(t, how, code)
      PROVE  result' \in [Thread -> Result] /\ result'[t].how # "code"
  BY <1>0, <1>1 DEF Return, Result
<1>2. CASE \E p : Go(t, p)
  BY <1>0, <1>2 DEF Go, return
<1>3. CASE Raise(t) \/ Restarted(t)
  <2>1. \E how \in {"raised", "timed out", "restarted"} : Return(t, how, None)
    BY <1>3 DEF Raise, Restarted
  <2>. QED BY <1>0, <1>1, <2>1
<1>4. CASE Get(t)
  <2>0. on[t] \in Shell
    BY <1>4, Numbers DEF Get, LockOK, TypeOK, None
  <2>. DEFINE line == Head(queue[on[t]])
  <2>1. queue[on[t]] \in Seq(Printed) /\ queue[on[t]] # << >>
    BY <1>4, <2>0 DEF Get, TypeOK
  <2>2. line \in Printed
    BY <2>1, Tailed
  <2>3. IF IsMarker(t, line) THEN Return(t, "code", line.code) /\ UNCHANGED output
        ELSE Go(t, "look")
    BY <1>4 DEF Get
  <2>. HIDE DEF line
  <2>4. CASE IsMarker(t, line)
    <3>1. [how |-> "code", code |-> line.code] \in Result
      BY <2>2 DEF Printed, Result
    <3>2. /\ result' = [result EXCEPT ![t] = [how |-> "code", code |-> line.code]] /\ output' = output
          /\ pc' = [pc EXCEPT ![t] = "idle"]
      BY <2>3, <2>4 DEF Return, Goto
    <3>3. pc \in [Thread -> Place]
      BY DEF TypeOK
    <3>. QED BY <1>0, <1>4, <2>4, <3>1, <3>2, <3>3 DEF line
  <2>5. CASE ~IsMarker(t, line)
    BY <1>2, <2>3, <2>5
  <2>. QED BY <2>4, <2>5
<1>5. CASE CollectAfterExit(t)
  <2>1. Return(t, "ended", None) \/ Go(t, "code")
    BY <1>5 DEF CollectAfterExit
  <2>. QED BY <1>0, <1>1, <1>2, <2>1
<1>6. CASE PollCode(t)
  <2>1. Raise(t) \/ \E code \in Command : Return(t, "ended", code)
    <3>1. \A g \in Shell : shell[g].status \in Command
      BY Typed
    <3>. QED BY <1>0, <1>6, <3>1 DEF PollCode
  <2>. QED BY <1>1, <1>3, <2>1
<1>7. CASE \E kind \in {"run", "exit"} : Lock(t, kind)
  BY <1>0, <1>7 DEF Lock
<1>8. CASE (\E kind \in {"run", "exit"} : WriteCommand(t, kind)) \/ WriteMarker(t) \/ StopAsk(t)
  <2>1. \E item, next, broken : Write(t, item, next, broken)
    BY <1>8 DEF WriteCommand, WriteMarker, StopAsk
  <2>2. (\E p : Go(t, p)) \/ Raise(t)
    BY <2>1 DEF Write
  <2>. QED BY <1>2, <1>3, <2>2
<1>9. CASE Flush(t) \/ Look(t) \/ TimeOut(t) \/ StopLooks(t) \/ StopWait(t) \/ StopWaited(t) \/ Kill(t)
           \/ KillGroup(t) \/ Close(t) \/ SetTerminated(t) \/ Clear(t) \/ Start(t)
  <2>1. (\E p : Go(t, p)) \/ Raise(t) \/ Restarted(t)
    BY <1>9 DEF Flush, Look, TimeOut, StopLooks, StopWait, StopWaited, Kill, KillGroup, Close,
       SetTerminated, Clear, Start, StartCheck, StartPoll, Spawn, SetStdin, Reset, SetQueue, SetReader,
       SetStderr, StartReader
  <2>. QED BY <1>2, <1>3, <2>1
<1>. QED BY <1>4, <1>5, <1>6, <1>7, <1>8, <1>9 DEF Step, Stop

\* A shell that reads, or ends.
LEMMA ShellMoves ==
  ASSUME NEW g \in Shell, TypeOK, ShellReads(g) \/ ShellEnds(g)
  PROVE  /\ g \in 1 .. spawned /\ shell' \in [Shell -> Process]
         /\ UNCHANGED <<history, queue, session, threads, return, pc, on, output>>
         /\ \/ \E item \in Item, line \in Printed : PrintsAt(g, item, line)
            \/ /\ DiesAt(g)
               /\ \/ shell[g].input = << >> /\ ~shell[g].open /\ shell'[g].status = shell[g].status
                  \/ \E item \in Item :
                       /\ shell[g].input # << >> /\ item = Head(shell[g].input)
                       /\ \/ item.do = "exit" /\ shell'[g].status = item.of
                          \/ item.do = "bye" /\ shell'[g].status = shell[g].status
<1>0. /\ shell \in [Shell -> Process] /\ shell[g] \in Process /\ g \in 1 .. spawned /\ shell[g].alive
      /\ UNCHANGED <<history, queue, session, threads, return, pc, on, output>>
      /\ 0 \in Command
  BY Numbers DEF TypeOK, ShellReads, ShellEnds, Running_Shells, None
<1>1. CASE ShellEnds(g)
  <2>1. /\ shell' = [shell EXCEPT ![g] = Dead(shell[g])] /\ shell[g].input = << >> /\ ~shell[g].open
    BY <1>1 DEF ShellEnds
  <2>2. /\ shell' \in [Shell -> Process] /\ OnlyAt(g) /\ shell'[g] = Dead(shell[g])
    BY <1>0, <2>1, Deaths DEF OnlyAt
  <2>. QED BY <1>0, <2>1, <2>2, Deaths DEF DiesAt
<1>2. CASE ShellReads(g)
  <2>. DEFINE item == Head(shell[g].input)
              s    == [shell[g] EXCEPT !.input = Tail(@)]
              r    == CASE item.do = "run" ->
                             [s EXCEPT !.status = item.of, !.out = Append(@, Line("out", item.of, 0))]
                        [] item.do = "marker" ->
                             [s EXCEPT !.status = 0, !.out = Append(@, Line("done", item.of, s.status))]
                        [] item.do = "exit" -> [Dead(s) EXCEPT !.status = item.of]
                        [] item.do = "bye" -> Dead(s)
  <2>1. shell' = [shell EXCEPT ![g] = r] /\ shell[g].input # << >>
    BY <1>2 DEF ShellReads
  <2>2. shell[g].input \in Seq(Item) /\ shell[g].out \in Seq(Printed) /\ shell[g].status \in Command
    BY Typed
  <2>3. item \in Item /\ Tail(shell[g].input) \in Seq(Item)
    BY <2>1, <2>2, Tailed
  <2>4. item.of \in Command /\ item.do \in {"run", "exit", "marker", "bye"}
    BY <2>3 DEF Item
  <2>5. /\ s \in Process /\ s.input = Tail(shell[g].input) /\ s.open = shell[g].open /\ s.alive
        /\ s.status = shell[g].status /\ s.out = shell[g].out
    <3>. HIDE DEF item
    <3>1. \A q \in Seq(Item) : LET p == [shell[g] EXCEPT !.input = q]
                               IN /\ p \in Process /\ p.input = q /\ p.open = shell[g].open
                                  /\ p.alive = shell[g].alive
                                  /\ p.status = shell[g].status /\ p.out = shell[g].out
      <4>. HIDE DEF Item, Printed
      <4>. QED BY <1>0 DEF Process
    <3>. QED BY <1>0, <2>3, <3>1
  <2>6. OnlyAt(g) /\ shell'[g] = r /\ (r \in Process => shell' \in [Shell -> Process])
    <3>. HIDE DEF r
    <3>. QED BY <1>0, <2>1 DEF OnlyAt
  <2>. HIDE DEF s, item
  <2>7. ASSUME NEW p \in Process, NEW n \in Command, NEW line \in Printed
        PROVE  LET q == [p EXCEPT !.status = n, !.out = Append(@, line)]
               IN  q \in Process /\ q.input = p.input /\ q.open = p.open /\ q.alive = p.alive
                   /\ q.status = n /\ q.out = Append(p.out, line)
    <3>1. Append(p.out, line) \in Seq(Printed)
      BY Appended DEF Process
    <3>. HIDE DEF Item, Printed, Command
    <3>. QED BY <3>1 DEF Process
  <2>8. \A p \in Process, n \in Command :
          LET q == [p EXCEPT !.status = n]
          IN  q \in Process /\ q.input = p.input /\ q.open = p.open /\ q.alive = p.alive
              /\ q.status = n /\ q.out = p.out
    <3>. HIDE DEF Item, Printed, Command
    <3>. QED BY DEF Process
  <2>9. CASE item.do = "run"
    <3>1. r = [s EXCEPT !.status = item.of, !.out = Append(@, Line("out", item.of, 0))]
      BY <2>9
    <3>. HIDE DEF r
    <3>2. Line("out", item.of, 0) \in Printed
      BY <1>0, <2>4 DEF Line, Printed
    <3>3. /\ r \in Process /\ r.input = s.input /\ r.open = s.open /\ r.alive = s.alive
          /\ r.status = item.of /\ r.out = Append(s.out, Line("out", item.of, 0))
      BY <2>4, <2>5, <2>7, <3>1, <3>2
    <3>4. PrintsAt(g, item, Line("out", item.of, 0))
      BY <1>0, <2>1, <2>5, <2>6, <2>9, <3>3 DEF PrintsAt, item
    <3>. QED BY <1>0, <2>3, <2>6, <3>2, <3>3, <3>4
  <2>10. CASE item.do = "marker"
    <3>1. r = [s EXCEPT !.status = 0, !.out = Append(@, Line("done", item.of, s.status))]
      BY <2>10
    <3>. HIDE DEF r
    <3>2. Line("done", item.of, s.status) \in Printed
      BY <2>2, <2>4, <2>5 DEF Line, Printed
    <3>3. /\ r \in Process /\ r.input = s.input /\ r.open = s.open /\ r.alive = s.alive
          /\ r.status = 0 /\ r.out = Append(s.out, Line("done", item.of, s.status))
      <4>1. \A line \in Printed : LET q == [s EXCEPT !.status = 0, !.out = Append(@, line)]
                                 IN  q \in Process /\ q.input = s.input /\ q.open = s.open
                                     /\ q.alive = s.alive /\ q.status = 0 /\ q.out = Append(s.out, line)
        BY <1>0, <2>5, <2>7
      <4>. QED BY <3>1, <3>2, <4>1
    <3>4. PrintsAt(g, item, Line("done", item.of, s.status))
      BY <1>0, <2>1, <2>5, <2>6, <2>10, <3>3 DEF PrintsAt, item
    <3>. QED BY <1>0, <2>3, <2>6, <3>2, <3>3, <3>4
  <2>11. CASE item.do = "exit"
    <3>1. r = [Dead(s) EXCEPT !.status = item.of]
      BY <2>11
    <3>. HIDE DEF r
    <3>2. /\ r \in Process /\ r.input = << >> /\ r.open = s.open /\ ~r.alive
          /\ r.status = item.of /\ r.out = s.out
      BY <2>4, <2>5, <2>8, <3>1, Deaths
    <3>3. DiesAt(g)
      BY <1>0, <2>5, <2>6, <3>2 DEF DiesAt
    <3>. QED BY <1>0, <2>1, <2>3, <2>6, <2>11, <3>2, <3>3 DEF item
  <2>12. CASE item.do = "bye"
    <3>1. r = Dead(s)
      BY <2>12
    <3>. HIDE DEF r
    <3>2. /\ r \in Process /\ r.input = << >> /\ r.open = s.open /\ ~r.alive
          /\ r.status = s.status /\ r.out = s.out
      BY <2>5, <3>1, Deaths
    <3>3. DiesAt(g)
      BY <1>0, <2>5, <2>6, <3>2 DEF DiesAt
    <3>. QED BY <1>0, <2>1, <2>3, <2>5, <2>6, <2>12, <3>2, <3>3 DEF item
  <2>. QED BY <2>4, <2>9, <2>10, <2>11, <2>12
<1>. QED BY <1>1, <1>2

\* What is left when one element is taken out of a sequence.
LEMMA Removed ==
  ASSUME NEW S, NEW s \in Seq(S), NEW i \in DOMAIN s
  PROVE  /\ RemoveAt(s, i) \in Seq(S)
         /\ \A j \in DOMAIN RemoveAt(s, i) : \E k \in DOMAIN s : RemoveAt(s, i)[j] = s[k]
         /\ i = 1 => RemoveAt(s, i) = Tail(s)
<1>0. Len(s) \in Nat /\ i \in 1 .. Len(s) /\ DOMAIN s = 1 .. Len(s)
  OBVIOUS
<1>. DEFINE a == SubSeq(s, 1, i - 1)
            b == SubSeq(s, i + 1, Len(s))
<1>1. a \in Seq(S) /\ Len(a) = i - 1 /\ \A j \in 1 .. i - 1 : a[j] = s[j]
  BY <1>0
<1>2. b \in Seq(S) /\ Len(b) = Len(s) - i /\ \A j \in 1 .. Len(s) - i : b[j] = s[i + j]
  BY <1>0
<1>3. RemoveAt(s, i) = a \o b
  BY DEF RemoveAt
<1>. HIDE DEF a, b
<1>4. /\ a \o b \in Seq(S) /\ Len(a \o b) = Len(s) - 1
      /\ \A j \in 1 .. Len(s) - 1 : (a \o b)[j] = IF j <= i - 1 THEN a[j] ELSE b[j - (i - 1)]
  <2>1. Len(a) + Len(b) = Len(s) - 1
    BY <1>0, <1>1, <1>2
  <2>2. /\ a \o b \in Seq(S) /\ Len(a \o b) = Len(a) + Len(b)
        /\ \A j \in 1 .. Len(a) + Len(b) : (a \o b)[j] = IF j <= Len(a) THEN a[j] ELSE b[j - Len(a)]
    BY <1>1, <1>2, ConcatProperties
  <2>. QED BY <1>1, <2>1, <2>2
<1>5. ASSUME NEW j \in DOMAIN (a \o b)
      PROVE  \E k \in DOMAIN s : (a \o b)[j] = s[k]
  <2>1. j \in 1 .. Len(s) - 1
    BY <1>4, <1>5
  <2>2. CASE j <= i - 1
    <3>1. (a \o b)[j] = s[j] /\ j \in DOMAIN s
      BY <1>0, <1>1, <1>4, <2>1, <2>2
    <3>. QED BY <3>1
  <2>3. CASE ~(j <= i - 1)
    <3>1. j - (i - 1) \in 1 .. Len(s) - i /\ i + (j - (i - 1)) = j + 1 /\ j + 1 \in DOMAIN s
      BY <1>0, <2>1, <2>3
    <3>2. (a \o b)[j] = s[j + 1]
      BY <1>2, <1>4, <2>1, <2>3, <3>1
    <3>. QED BY <3>1, <3>2
  <2>. QED BY <2>2, <2>3
<1>6. ASSUME i = 1 PROVE a \o b = Tail(s)
  <2>1. /\ Tail(s) \in Seq(S) /\ Len(Tail(s)) = Len(s) - 1
        /\ \A j \in 1 .. Len(s) - 1 : Tail(s)[j] = s[j + 1]
    BY <1>0
  <2>2. \A j \in 1 .. Len(s) - 1 : (a \o b)[j] = s[j + 1]
    BY <1>0, <1>2, <1>4, <1>6
  <2>. QED BY <1>4, <2>1, <2>2, SeqEqual
<1>. QED BY <1>3, <1>4, <1>5, <1>6

\* A reader moves line i to the queue.
ReadAt(g, i) ==
  /\ OnlyAt(g) /\ i \in DOMAIN shell[g].out /\ i <= Cardinality(Readers(g))
  /\ shell'[g].out = RemoveAt(shell[g].out, i)
  /\ shell'[g].input = shell[g].input /\ shell'[g].open = shell[g].open
  /\ shell'[g].status = shell[g].status /\ shell'[g].alive = shell[g].alive
  /\ \A h \in Shell : h # current => queue'[h] = queue[h]
  /\ queue'[current] = Append(queue[current], shell[g].out[i])

LEMMA ReaderMoves ==
  ASSUME NEW g \in Shell, TypeOK, Read(g)
  PROVE  /\ UNCHANGED <<history, session, threads, return, pc, on, output>>
         /\ shell' \in [Shell -> Process] /\ queue' \in [Shell -> Seq(Printed)]
         /\ \E i \in DOMAIN shell[g].out : ReadAt(g, i)
<1>0. /\ shell \in [Shell -> Process] /\ shell[g] \in Process /\ queue \in [Shell -> Seq(Printed)]
      /\ current \in Shell /\ shell[g].out \in Seq(Printed)
  BY Numbers, Typed DEF TypeOK
<1>1. PICK i \in DOMAIN shell[g].out :
        /\ i <= Cardinality(Readers(g))
        /\ queue' = [queue EXCEPT ![current] = Append(@, shell[g].out[i])]
        /\ shell' = [shell EXCEPT ![g].out = RemoveAt(@, i)]
  BY DEF Read
<1>2. RemoveAt(shell[g].out, i) \in Seq(Printed) /\ shell[g].out[i] \in Printed
  BY <1>0, Removed, Elements
<1>. DEFINE q == RemoveAt(shell[g].out, i)
            r == [shell[g] EXCEPT !.out = q]
<1>3. r \in Process /\ r.out = q /\ r.input = shell[g].input /\ r.open = shell[g].open
      /\ r.status = shell[g].status /\ r.alive = shell[g].alive
  <2>. HIDE DEF q, Item, Printed, Command
  <2>1. q \in Seq(Printed)
    BY <1>2 DEF q
  <2>. QED BY <1>0, <2>1 DEF Process
<1>4. shell' = [shell EXCEPT ![g] = r]
  BY <1>1
<1>. HIDE DEF r
<1>5. shell' \in [Shell -> Process] /\ OnlyAt(g) /\ shell'[g] = r
  BY <1>0, <1>3, <1>4 DEF OnlyAt
<1>6. /\ queue' \in [Shell -> Seq(Printed)] /\ \A h \in Shell : h # current => queue'[h] = queue[h]
      /\ queue'[current] = Append(queue[current], shell[g].out[i])
  <2>1. Append(queue[current], shell[g].out[i]) \in Seq(Printed)
    BY <1>0, <1>2, Appended
  <2>. QED BY <1>0, <1>1, <2>1
<1>7. UNCHANGED <<history, session, threads, return, pc, on, output>>
  BY DEF Read
<1>. QED BY <1>1, <1>3, <1>5, <1>6, <1>7 DEF ReadAt

------------------------------------------------------------------------------
(* The types, where threads are, and how many processes there are. *)

\* A call begins.
LEMMA Called ==
  ASSUME NEW t \in Thread, TypeOK, Execute(t) \/ Restart(t)
  PROVE  /\ pc[t] = "idle" /\ UNCHANGED <<pipes, session, threads>>
         /\ calls \in Nat /\ calls' = calls + 1 /\ calls' \in 0 .. MaxCalls
         /\ cmd' = [cmd EXCEPT ![t] = calls'] /\ cmd' \in [Thread -> Command] /\ cmd'[t] = calls + 1
         /\ output' = [output EXCEPT ![t] = {}] /\ output' \in [Thread -> SUBSET Printed]
         /\ on' = [on EXCEPT ![t] = None] /\ on' \in [Thread -> 0 .. spawned]
         /\ pc' \in [Thread -> Place] /\ \A u \in Thread : u # t => pc'[u] = pc[u]
         /\ result' \in [Thread -> Result] /\ result'[t].how # "code"
         /\ \A u \in Thread : u # t => result'[u] = result[u] /\ cmd'[u] = cmd[u] /\ output'[u] = output[u]
         /\ lock' = lock \/ (lock = t /\ lock' = Nobody)
         /\ mix \subseteq mix'
         /\ \/ /\ Execute(t) /\ pc'[t] \in {"run", "exit", "idle"}
               /\ mix' \in {mix \cup {"run"}, mix \cup {"exit"}}
               /\ mix' = mix \cup {"run"} => pc'[t] # "exit" \/ "exit" \in mix
            \/ Restart(t) /\ pc'[t] = "stop" /\ mix' = mix \cup {"restart"}
<1>0. /\ pc \in [Thread -> Place] /\ cmd \in [Thread -> Command] /\ output \in [Thread -> SUBSET Printed]
      /\ on \in [Thread -> 0 .. spawned] /\ result \in [Thread -> Result] /\ None \in Command
      /\ calls \in Nat /\ MaxCalls \in Nat /\ None \in 0 .. spawned
  <2>1. None \in Command /\ calls \in Nat /\ MaxCalls \in Nat /\ spawned \in Nat
    BY Numbers
  <2>2. None \in 0 .. spawned
    BY <2>1 DEF None
  <2>. QED BY <2>1, <2>2 DEF TypeOK
<1>1. \E kind \in {"run", "exit", "restart"} : NewCall(t, kind) /\ mix' = mix \cup {kind}
        /\ (Execute(t) => kind \in {"run", "exit"} /\ pc'[t] \in {kind, "idle"})
        /\ (Restart(t) => kind = "restart")
  <2>1. CASE Execute(t)
    <3>1. PICK kind \in {"run", "exit"} :
            /\ NewCall(t, kind)
            /\ IF Running
                 THEN Goto(t, kind) /\ result' = [result EXCEPT ![t] = Pending] /\ UNCHANGED lock
                 ELSE Raise(t)
      BY <2>1 DEF Execute
    <3>2. mix' = mix \cup {kind} /\ pc'[t] \in {kind, "idle"}
      BY <1>0, <3>1 DEF NewCall, Goto, Raise, Return
    <3>3. ~Restart(t)
      BY <1>0, <3>2 DEF Restart, Goto
    <3>. QED BY <3>1, <3>2, <3>3
  <2>2. CASE Restart(t) /\ ~Execute(t)
    BY <2>2 DEF Restart, NewCall
  <2>. QED BY <2>1, <2>2
<1>2. PICK kind \in {"run", "exit", "restart"} : NewCall(t, kind) /\ mix' = mix \cup {kind}
        /\ (Execute(t) => kind \in {"run", "exit"} /\ pc'[t] \in {kind, "idle"})
        /\ (Restart(t) => kind = "restart")
  BY <1>1
<1>3. /\ pc[t] = "idle" /\ UNCHANGED <<pipes, session, threads>>
      /\ calls' = calls + 1 /\ calls < MaxCalls
      /\ cmd' = [cmd EXCEPT ![t] = calls'] /\ output' = [output EXCEPT ![t] = {}]
      /\ on' = [on EXCEPT ![t] = None]
  BY <1>2 DEF NewCall
<1>4. calls' \in 0 .. MaxCalls
  BY <1>0, <1>3
<1>5. /\ (Goto(t, "idle") \/ Goto(t, "run") \/ Goto(t, "exit") \/ Goto(t, "stop"))
      /\ \/ result' = [result EXCEPT ![t] = Pending] /\ lock' = lock
         \/ /\ result' = [result EXCEPT ![t] = [how |-> "raised", code |-> None]]
            /\ lock' = IF lock = t THEN Nobody ELSE lock
      /\ Restart(t) => Goto(t, "stop")
  BY DEF Execute, Restart, Raise, Return
<1>6. /\ pc' \in [Thread -> Place] /\ \A u \in Thread : u # t => pc'[u] = pc[u]
      /\ Restart(t) => pc'[t] = "stop"
  BY <1>0, <1>5 DEF Goto, Place, Restarting, Stopping
<1>7. /\ result' \in [Thread -> Result] /\ result'[t].how # "code"
      /\ \A u \in Thread : u # t => result'[u] = result[u]
      /\ lock' = lock \/ (lock = t /\ lock' = Nobody)
  <2>1. Pending \in Result /\ [how |-> "raised", code |-> None] \in Result /\ Pending.how = "none"
    BY <1>0 DEF Pending, Result
  <2>. DEFINE x == [how |-> "raised", code |-> None]
  <2>2. x.how = "raised"
    OBVIOUS
  <2>3. /\ result' = [result EXCEPT ![t] = Pending] \/ result' = [result EXCEPT ![t] = x]
        /\ lock' = lock \/ (lock = t /\ lock' = Nobody)
    BY <1>5
  <2>. HIDE DEF x, Pending, Result
  <2>. QED BY <1>0, <2>1, <2>2, <2>3 DEF x
<1>8. /\ cmd' \in [Thread -> Command] /\ cmd'[t] = calls + 1 /\ output' \in [Thread -> SUBSET Printed]
      /\ on' \in [Thread -> 0 .. spawned]
      /\ \A u \in Thread : u # t => cmd'[u] = cmd[u] /\ output'[u] = output[u]
  BY <1>0, <1>3, <1>4 DEF Command
<1>9. mix' = mix \cup {"run"} => pc'[t] # "exit" \/ "exit" \in mix
  BY <1>2, <1>6
<1>. QED BY <1>0, <1>2, <1>3, <1>4, <1>6, <1>7, <1>8, <1>9

\* A thread that has not yet spawned a process finds room for it.
LEMMA Room ==
  ASSUME NEW t \in Thread, Base, pc[t] = "spawn"
  PROVE  spawned + 1 \in Shell
<1>1. IsFiniteSet(Busy) /\ t \in Busy
  BY ShellAssumption, FS_Subset DEF Busy, Started
<1>2. Cardinality(Busy) \in Nat /\ Cardinality(Busy) # 0
  BY <1>1, FS_CardinalityType, FS_EmptySet
<1>. QED BY <1>2, Numbers DEF Base, Counted, Shell

LEMMA InitBase ==
  ASSUME Init
  PROVE  Base
<1>1. MaxCalls \in Nat /\ Shell = 1 .. MaxCalls + 1 /\ IsFiniteSet(Thread) /\ Nobody \notin Thread
  BY ShellAssumption DEF Shell
<1>2. 1 \in Shell /\ 0 \in Command /\ 0 \in 0 .. MaxCalls
  BY <1>1 DEF Command
<1>3. Fresh \in Process
  <2>1. << >> \in Seq(Item) /\ << >> \in Seq(Printed)
    OBVIOUS
  <2>. HIDE DEF Item, Printed
  <2>. QED BY <1>2, <2>1 DEF Fresh, Process
<1>4. Pending \in Result
  BY <1>2 DEF Pending, Result, None
<1>5. TypeOK
  <2>1. /\ mix = {} /\ calls = 0 /\ spawned = 1 /\ process = 1 /\ stdin = 1 /\ current = 1 /\ terminated = FALSE
        /\ reader = 1 /\ source = [g \in Shell |-> IF g = 1 THEN 1 ELSE None] /\ begun = {1}
        /\ shell = [g \in Shell |-> Fresh] /\ queue = [g \in Shell |-> << >>] /\ lock = Nobody
        /\ pc = [t \in Thread |-> "idle"] /\ cmd = [t \in Thread |-> 0] /\ on = [t \in Thread |-> None]
        /\ output = [t \in Thread |-> {}] /\ result = [t \in Thread |-> Pending]
    BY DEF Init
  <2>2. << >> \in Seq(Printed) /\ "idle" \in Place
    BY DEF Place
  <2>3. /\ None \in 0 .. 1 /\ 1 \in 0 .. 1 /\ 1 \in 1 .. 1
        /\ {1} \subseteq 1 .. 1 /\ 0 \in 0 .. MaxCalls
    BY <1>2 DEF None
  <2>. HIDE DEF Process, Result, Place, Printed, Shell, Command, None
  <2>4. /\ mix \subseteq {"run", "exit", "restart"} /\ calls \in 0 .. MaxCalls
        /\ spawned \in Shell /\ process \in {None, spawned} /\ stdin \in 1 .. spawned
        /\ current \in 1 .. spawned /\ terminated \in BOOLEAN /\ reader \in 1 .. spawned
        /\ begun \subseteq 1 .. spawned
    BY <1>2, <2>1, <2>3
  <2>5. source \in [Shell -> 0 .. spawned]
    BY <2>1, <2>3
  <2>6. shell \in [Shell -> Process] /\ queue \in [Shell -> Seq(Printed)]
    BY <1>3, <2>1, <2>2
  <2>7. /\ lock \in Thread \cup {Nobody} /\ pc \in [Thread -> Place] /\ cmd \in [Thread -> Command]
        /\ on \in [Thread -> 0 .. spawned] /\ output \in [Thread -> SUBSET Printed]
        /\ result \in [Thread -> Result]
    BY <1>2, <1>4, <2>1, <2>2, <2>3
  <2>. QED BY <2>4, <2>5, <2>6, <2>7 DEF TypeOK
<1>6. Counted
  <2>1. Busy = {}
    BY DEF Init, Busy
  <2>. QED BY <2>1, FS_EmptySet DEF Counted, Init
<1>7. LockOK
  BY <1>1 DEF Init, LockOK, Inside, Restarting, Stopping, Starting, Started, None
<1>8. FreshOK /\ NewOK
  BY DEF Init, FreshOK, NewOK, Fresh
<1>. QED BY <1>5, <1>6, <1>7, <1>8 DEF Base

LEMMA CalledBase ==
  ASSUME NEW t \in Thread, Base, Execute(t) \/ Restart(t)
  PROVE  Base'
<1>0. TypeOK /\ Counted /\ LockOK /\ FreshOK /\ NewOK /\ Nobody \notin Thread
  BY ShellAssumption DEF Base
<1>1. /\ pc[t] = "idle" /\ UNCHANGED <<pipes, session, threads>>
      /\ calls \in Nat /\ calls' = calls + 1 /\ calls' \in 0 .. MaxCalls
      /\ cmd' \in [Thread -> Command] /\ output' \in [Thread -> SUBSET Printed]
      /\ on' = [on EXCEPT ![t] = None] /\ on' \in [Thread -> 0 .. spawned]
      /\ pc' \in [Thread -> Place] /\ \A u \in Thread : u # t => pc'[u] = pc[u]
      /\ result' \in [Thread -> Result]
      /\ lock' = lock \/ (lock = t /\ lock' = Nobody)
      /\ mix \subseteq mix'
      /\ \/ /\ pc'[t] \in {"run", "exit", "idle"}
            /\ mix' \in {mix \cup {"run"}, mix \cup {"exit"}}
         \/ pc'[t] = "stop" /\ mix' = mix \cup {"restart"}
  BY <1>0, Called
<1>2. TypeOK'
  <2>1. lock' \in Thread \cup {Nobody} /\ mix' \subseteq {"run", "exit", "restart"}
    BY <1>0, <1>1 DEF TypeOK
  <2>2. UNCHANGED <<shell, queue, spawned, process, stdin, current, terminated, reader, source, begun>>
    BY <1>1 DEF pipes, session, threads
  <2>. HIDE DEF Place, Result, Printed, Process, Command
  <2>. QED BY <1>0, <1>1, <2>1, <2>2 DEF TypeOK
<1>3. Counted'
  <2>1. IsFiniteSet(Busy) /\ t \notin Busy
    BY <1>1, ShellAssumption, FS_Subset DEF Busy
  <2>2. Busy' \subseteq Busy \cup {t}
    BY <1>1 DEF Busy
  <2>3. /\ IsFiniteSet(Busy \cup {t}) /\ Cardinality(Busy \cup {t}) = Cardinality(Busy) + 1
        /\ Cardinality(Busy) \in Nat
    BY <2>1, FS_AddElement, FS_CardinalityType
  <2>4. Cardinality(Busy') <= Cardinality(Busy) + 1 /\ Cardinality(Busy') \in Nat
    BY <2>2, <2>3, FS_Subset, FS_CardinalityType
  <2>5. spawned' = spawned /\ spawned \in Nat
    BY <1>0, <1>1, Numbers DEF session
  <2>. QED BY <1>0, <1>1, <2>3, <2>4, <2>5 DEF Counted
<1>4. LockOK'
  <2>1. SUFFICES ASSUME NEW u \in Thread
                 PROVE  /\ pc'[u] \in Inside => lock' = u
                        /\ lock' = u => pc'[u] \in Inside \cup Restarting
                        /\ pc'[u] \in Restarting /\ "restart" \notin mix' => lock' = u
                        /\ pc'[u] \in {"get", "waiting"} \cup Started => on'[u] # None
    BY DEF LockOK
  <2>2. /\ pc[u] \in Inside => lock = u
        /\ lock = u => pc[u] \in Inside \cup Restarting
        /\ pc[u] \in Restarting /\ "restart" \notin mix => lock = u
        /\ pc[u] \in {"get", "waiting"} \cup Started => on[u] # None
    BY <1>0 DEF LockOK
  <2>3. lock' = lock
    <3>1. lock # t
      BY <1>0, <1>1, Sides DEF LockOK
    <3>. QED BY <1>1, <3>1
  <2>4. {"run", "exit", "idle"} \cap (Inside \cup Restarting \cup {"get", "waiting"} \cup Started) = {}
        /\ "stop" \notin Inside \cup {"get", "waiting"} \cup Started /\ "stop" \in Restarting
    BY DEF Inside, Restarting, Stopping, Starting, Started
  <2>5. on \in [Thread -> 0 .. spawned]
    BY <1>0 DEF TypeOK
  <2>6. CASE u # t
    BY <1>1, <2>2, <2>3, <2>5, <2>6
  <2>7. CASE u = t
    <3>1. lock # t
      BY <1>0, <1>1, Sides DEF LockOK
    <3>. QED BY <1>1, <2>3, <2>4, <2>7, <3>1
  <2>. QED BY <2>6, <2>7
<1>5. FreshOK' /\ NewOK'
  BY <1>0, <1>1 DEF FreshOK, NewOK, pipes, session
<1>. QED BY <1>2, <1>3, <1>4, <1>5 DEF Base

LEMMA StepBase ==
  ASSUME NEW t \in Thread, Base, Step(t)
  PROVE  Base'
<1>0. TypeOK /\ Counted /\ LockOK /\ FreshOK /\ NewOK /\ Nobody \notin Thread
  BY ShellAssumption DEF Base
<1>1. /\ UNCHANGED history /\ pc[t] # "idle"
      /\ pc' \in [Thread -> Place]
      /\ \A u \in Thread : u # t => pc'[u] = pc[u]
      /\ \/ UNCHANGED return /\ pc'[t] # "idle" /\ pc[t] \notin {"run", "exit"}
         \/ /\ pc[t] \in {"run", "exit"} /\ pc'[t] \in {"writeRun", "writeExit"}
            /\ lock = Nobody /\ lock' = t /\ result' = result
         \/ /\ pc'[t] = "idle" /\ lock' = (IF lock = t THEN Nobody ELSE lock)
            /\ \E how, code : result' = [result EXCEPT ![t] = [how |-> how, code |-> code]]
  BY <1>0, Moved
<1>2. pc'[t] # "idle" =>
         \/ pc[t] \in {"run", "exit"} /\ pc'[t] \in {"writeRun", "writeExit"}
         \/ pc[t] \in Inside /\ pc'[t] \in (Inside \ {"writeRun", "writeExit"}) \cup {"stop"}
         \/ pc[t] \in Restarting \ Started /\ pc'[t] \in Restarting \ {"stop"}
         \/ pc[t] \in Started /\ pc'[t] \in Started
  BY <1>0, Edges
<1>3. /\ spawned' = spawned \/ (Spawn(t) /\ spawned' = spawned + 1)
      /\ spawned' \in Shell /\ spawned <= spawned'
      /\ process' \in {None, spawned'} /\ stdin' \in 1 .. spawned' /\ current' \in 1 .. spawned'
      /\ stdin' = stdin \/ (SetStdin(t) /\ stdin' = spawned /\ process = spawned)
      /\ terminated' \in BOOLEAN /\ reader' \in 1 .. spawned'
      /\ source' \in [Shell -> 0 .. spawned'] /\ begun' \subseteq 1 .. spawned'
      /\ on' \in [Thread -> 0 .. spawned'] /\ \A u \in Thread : u # t => on'[u] = on[u]
      /\ pc'[t] \in {"get", "waiting"} \cup Started => on'[t] # None
  <2>1. pc[t] = "spawn" => spawned + 1 \in Shell
    BY Room
  <2>. QED BY <1>0, <2>1, Attributes
<1>4. /\ shell' \in [Shell -> Process] /\ queue' \in [Shell -> Seq(Printed)]
      /\ output' \in [Thread -> SUBSET Printed] /\ result' \in [Thread -> Result]
  BY <1>0, Shells, Queues, Results
<1>5. TypeOK'
  <2>1. lock' \in Thread \cup {Nobody}
    BY <1>0, <1>1 DEF TypeOK, return
  <2>2. mix' = mix /\ calls' = calls /\ cmd' = cmd
    BY <1>1 DEF history
  <2>. HIDE DEF Place, Result, Printed, Process, Command
  <2>. QED BY <1>0, <1>1, <1>3, <1>4, <2>1, <2>2 DEF TypeOK
<1>6. Counted'
  <2>1. pc[t] \in Started \cup {"idle"} => pc'[t] \in Started \cup {"idle"}
    BY <1>1, <1>2, Sides DEF Started, Inside
  <2>2. /\ Cardinality(Busy) \in Nat /\ Cardinality(Busy') \in Nat
        /\ Cardinality(Busy') <= Cardinality(Busy)
        /\ pc[t] \notin Started \cup {"idle"} /\ pc'[t] \in Started =>
             Cardinality(Busy') = Cardinality(Busy) - 1
    BY <1>0, <1>1, <2>1, Fewer
  <2>3. calls' = calls /\ calls \in Nat /\ spawned \in Nat
    BY <1>0, <1>1, Numbers DEF history
  <2>4. Spawn(t) => pc[t] \notin Started \cup {"idle"} /\ pc'[t] \in Started
    BY <1>0 DEF Spawn, Go, Goto, Started, TypeOK
  <2>5. CASE spawned' = spawned
    BY <1>0, <2>2, <2>3, <2>5 DEF Counted
  <2>6. CASE Spawn(t) /\ spawned' = spawned + 1
    BY <1>0, <2>2, <2>3, <2>4, <2>6 DEF Counted
  <2>. QED BY <1>3, <2>5, <2>6
<1>7. LockOK'
  <2>1. SUFFICES ASSUME NEW u \in Thread
                 PROVE  /\ pc'[u] \in Inside => lock' = u
                        /\ lock' = u => pc'[u] \in Inside \cup Restarting
                        /\ pc'[u] \in Restarting /\ "restart" \notin mix' => lock' = u
                        /\ pc'[u] \in {"get", "waiting"} \cup Started => on'[u] # None
    BY DEF LockOK
  <2>2. \A v \in {t, u} :
          /\ pc[v] \in Inside => lock = v
          /\ lock = v => pc[v] \in Inside \cup Restarting
          /\ pc[v] \in Restarting /\ "restart" \notin mix => lock = v
          /\ pc[v] \in {"get", "waiting"} \cup Started => on[v] # None
    BY <1>0 DEF LockOK
  <2>3. mix' = mix
    BY <1>1 DEF history
  <2>4. lock' = lock \/ (lock = Nobody /\ lock' = t) \/ (lock = t /\ lock' = Nobody)
    BY <1>1 DEF return
  <2>5. CASE u # t
    BY <1>0, <1>1, <1>3, <2>2, <2>3, <2>4, <2>5
  <2>6. CASE u = t
    <3>1. CASE pc'[t] = "idle"
      <4>1. lock' # t
        BY <1>0, <1>1, <3>1 DEF return
      <4>. QED BY <2>6, <3>1, <4>1, Sides DEF Started
    <3>2. CASE pc'[t] # "idle" /\ lock' = lock
      <4>1. \/ pc[t] \in Inside /\ pc'[t] \in (Inside \ {"writeRun", "writeExit"}) \cup {"stop"}
            \/ pc[t] \in Restarting \ Started /\ pc'[t] \in Restarting \ {"stop"}
            \/ pc[t] \in Started /\ pc'[t] \in Started
            \/ pc[t] \in {"run", "exit"} /\ lock' = t
        BY <1>1, <1>2, <3>2
      <4>2. pc[t] \in {"run", "exit"} => lock # t
        BY <2>2 DEF Inside, Restarting, Stopping, Starting
      <4>. QED BY <1>3, <2>2, <2>3, <2>6, <3>2, <4>1, <4>2, Sides
    <3>3. CASE pc'[t] # "idle" /\ lock' = t /\ pc'[t] \in {"writeRun", "writeExit"}
      BY <1>3, <2>6, <3>3 DEF Inside, Restarting, Stopping, Starting
    <3>. QED BY <1>1, <3>1, <3>2, <3>3 DEF return
  <2>. QED BY <2>5, <2>6
<1>8. FreshOK' /\ NewOK'
  <2>1. /\ stdin \in Nat /\ spawned \in Nat /\ stdin <= spawned /\ stdin' \in Nat
        /\ stdin <= stdin' /\ Shell \subseteq Nat
        /\ stdin \in Shell
    BY <1>0, <1>3, <1>5, Numbers DEF SetStdin
  <2>2. \A h \in Shell : h > stdin => shell'[h] = shell[h] \/ (DiesAt(h) /\ shell'[h].status = 0 /\ h <= spawned)
    <3>1. \/ shell' = shell
          \/ OnlyAt(stdin)
          \/ Running /\ process \in Shell /\ DiesAt(process) /\ shell'[process].status = 0
          \/ \E item \in Item : WrittenAt(stdin, item)
      BY <1>0, Shells
    <3>2. process \in Shell => process <= spawned
      BY <1>0, <2>1, Numbers DEF TypeOK
    <3>. QED BY <2>1, <3>1, <3>2 DEF OnlyAt, WrittenAt, DiesAt
  <2>3. FreshOK'
    <3>1. SUFFICES ASSUME NEW h \in Shell, h > spawned' PROVE shell'[h] = Fresh
      BY DEF FreshOK
    <3>2. h > spawned /\ h > stdin /\ ~(h <= spawned)
      BY <1>3, <2>1, <3>1, Numbers
    <3>. QED BY <1>0, <2>2, <3>2 DEF FreshOK
  <2>4. NewOK'
    <3>1. SUFFICES ASSUME NEW h \in Shell, h > stdin'
                   PROVE  shell'[h].input = << >> /\ shell'[h].status = 0
      BY DEF NewOK
    <3>2. h > stdin
      BY <2>1, <3>1
    <3>. QED BY <1>0, <2>2, <3>2 DEF NewOK, DiesAt
  <2>. QED BY <2>3, <2>4
<1>. QED BY <1>5, <1>6, <1>7, <1>8 DEF Base

LEMMA ShellBase ==
  ASSUME NEW g \in Shell, Base, ShellReads(g) \/ ShellEnds(g) \/ Read(g)
  PROVE  Base'
<1>0. TypeOK /\ Counted /\ LockOK /\ FreshOK /\ NewOK
  BY DEF Base
<1>1. /\ UNCHANGED <<history, session, threads, return, pc, on, output>>
      /\ shell' \in [Shell -> Process] /\ queue' \in [Shell -> Seq(Printed)]
      /\ OnlyAt(g) /\ g <= spawned
      /\ g > stdin => shell'[g].input = << >> /\ shell'[g].status = 0
  <2>1. CASE ShellReads(g) \/ ShellEnds(g)
    <3>1. /\ g \in 1 .. spawned /\ shell' \in [Shell -> Process]
          /\ UNCHANGED <<history, queue, session, threads, return, pc, on, output>>
          /\ \/ \E item \in Item, line \in Printed : PrintsAt(g, item, line)
             \/ /\ DiesAt(g)
                /\ shell[g].input # << >> \/ shell'[g].status = shell[g].status
      BY <1>0, <2>1, ShellMoves
    <3>2. OnlyAt(g) /\ g <= spawned
      BY <1>0, <3>1, Numbers DEF PrintsAt, DiesAt
    <3>3. CASE \E item \in Item, line \in Printed : PrintsAt(g, item, line)
      BY <1>0, <3>1, <3>2, <3>3 DEF PrintsAt, NewOK, TypeOK
    <3>4. CASE DiesAt(g) /\ (shell[g].input # << >> \/ shell'[g].status = shell[g].status)
      BY <1>0, <3>1, <3>2, <3>4 DEF DiesAt, NewOK, TypeOK
    <3>. QED BY <3>1, <3>3, <3>4
  <2>2. CASE Read(g)
    <3>1. /\ UNCHANGED <<history, session, threads, return, pc, on, output>>
          /\ shell' \in [Shell -> Process] /\ queue' \in [Shell -> Seq(Printed)]
          /\ \E i \in DOMAIN shell[g].out : ReadAt(g, i)
      BY <1>0, <2>2, ReaderMoves
    <3>2. OnlyAt(g) /\ shell[g].out # << >> /\ shell'[g].input = shell[g].input
          /\ shell'[g].status = shell[g].status
      BY <3>1 DEF ReadAt
    <3>3. g <= spawned
      BY <1>0, <3>2, Numbers DEF FreshOK, Fresh
    <3>. QED BY <1>0, <3>1, <3>2, <3>3 DEF NewOK
  <2>. QED BY <2>1, <2>2
<1>2. TypeOK'
  <2>. HIDE DEF Place, Result, Printed, Process, Command
  <2>. QED BY <1>0, <1>1 DEF TypeOK, history, session, threads, return
<1>3. Counted' /\ LockOK'
  BY <1>0, <1>1 DEF Counted, Busy, LockOK, history, session, return
<1>4. FreshOK' /\ NewOK'
  <2>1. spawned' = spawned /\ stdin' = stdin /\ spawned \in Nat /\ Shell \subseteq Nat
    BY <1>0, <1>1, Numbers DEF session
  <2>2. FreshOK'
    <3>1. SUFFICES ASSUME NEW h \in Shell, h > spawned' PROVE shell'[h] = Fresh
      BY DEF FreshOK
    <3>2. h # g
      BY <1>1, <2>1, <3>1
    <3>. QED BY <1>0, <1>1, <2>1, <3>1, <3>2 DEF FreshOK, OnlyAt
  <2>3. NewOK'
    <3>1. SUFFICES ASSUME NEW h \in Shell, h > stdin'
                   PROVE  shell'[h].input = << >> /\ shell'[h].status = 0
      BY DEF NewOK
    <3>2. CASE h = g
      BY <1>1, <2>1, <3>1, <3>2
    <3>3. CASE h # g
      BY <1>0, <1>1, <2>1, <3>1, <3>3 DEF NewOK, OnlyAt
    <3>. QED BY <3>2, <3>3
  <2>. QED BY <2>2, <2>3
<1>. QED BY <1>2, <1>3, <1>4 DEF Base

LEMMA SameBase ==
  ASSUME Base, UNCHANGED vars
  PROVE  Base'
BY DEF Base, TypeOK, Counted, Busy, LockOK, FreshOK, NewOK, vars, history, pipes, session, threads, return

LEMMA NextBase ==
  ASSUME Base, [Next]_vars
  PROVE  Base'
BY CalledBase, StepBase, ShellBase, SameBase DEF Next

------------------------------------------------------------------------------
(* What is under way: the items that shells have to read, and the lines that readers or *)
(* calls have still to see. *)

Given(item) == \E g \in Shell : \E i \in DOMAIN shell[g].input : shell[g].input[i] = item

Known(line) ==
  \E g \in Shell :
    \/ \E i \in DOMAIN queue[g] : queue[g][i] = line
    \/ \E i \in DOMAIN shell[g].out : shell[g].out[i] = line

Unmarked == {"run", "exit", "writeRun", "writeExit", "writeMarker"}

\* Numbers of commands tell their markers apart.
NumbersOK ==
  /\ \A t \in Thread : cmd[t] <= calls
  /\ \A t, u \in Thread : t # u /\ pc[t] # "idle" /\ pc[u] # "idle" => cmd[t] # cmd[u]
  /\ \A item \in Item : Given(item) => item.of <= calls
  /\ \A line \in Printed : Known(line) => line.of <= calls
  /\ \A t \in Thread : pc[t] \in Unmarked =>
       ~Given(Marker(cmd[t])) /\ \A line \in Printed : Known(line) /\ line.kind = "done" => line.of # cmd[t]

\* The status that a marker reports for command n.
Own(code, n) == code = n \/ (code = 0 /\ "restart" \in mix)

\* What is ahead of the marker of n when it is read; after two of them it is not.
Leads(item, n) == item.do \in {"exit", "bye"} \/ (item.do = "run" /\ item.of = n)

\* Every marker in the input of a shell will report the status of its command;
Sound(s) ==
  \A i \in DOMAIN s.input :
    s.input[i].do = "marker" =>
      IF i = 1 THEN Own(s.status, s.input[i].of) ELSE Leads(s.input[i - 1], s.input[i].of)

\* so will the marker of n if it comes next.
Ready(s, n) ==
  IF s.input = << >> THEN Own(s.status, n) ELSE Leads(s.input[Len(s.input)], n)

StatusOK ==
  /\ \A g \in Shell : Sound(shell[g])
  /\ \A line \in Printed : Known(line) /\ line.kind = "done" => Own(line.code, line.of)
  /\ \A t \in Thread : pc[t] = "writeMarker" /\ shell[stdin].alive => Ready(shell[stdin], cmd[t])
  /\ \A t \in Thread : result[t].how = "code" => Own(result[t].code, cmd[t])

\* Only who has the lock, and then writes its command, is before its marker.
LEMMA ToMarker ==
  ASSUME NEW t \in Thread, TypeOK, Step(t), pc'[t] \in Unmarked
  PROVE  /\ pc[t] \in Unmarked
         /\ pc'[t] = "writeMarker" => \E item \in Item : WrittenAt(stdin, item) /\ Writes(t, item) /\ stdin' = stdin
<1>0. pc \in [Thread -> Place] /\ shell \in [Shell -> Process] /\ stdin \in Shell /\ cmd[t] \in Command
  BY Numbers, Typed DEF TypeOK
<1>1. ASSUME NEW how, NEW code, Return(t, how, code) PROVE FALSE
  BY <1>0, <1>1 DEF Return, Goto, Unmarked
<1>2. \A p : Go(t, p) => pc'[t] = p
  BY <1>0 DEF Go, Goto
<1>3. ASSUME NEW item, NEW next, NEW broken, Write(t, item, next, broken) PROVE pc'[t] \in {next, broken}
  BY <1>1, <1>2, <1>3 DEF Write, Raise
<1>4. CASE \E kind \in {"run", "exit"} : Lock(t, kind)
  BY <1>0, <1>4 DEF Lock, Goto, Writing, Unmarked
<1>5. CASE \E kind \in {"run", "exit"} : WriteCommand(t, kind)
  <2>1. PICK kind \in {"run", "exit"} : WriteCommand(t, kind)
    BY <1>5
  <2>2. Write(t, [do |-> kind, of |-> cmd[t]], "writeMarker", "ended") /\ pc[t] = Writing(kind)
    BY <2>1 DEF WriteCommand
  <2>3. pc[t] \in Unmarked
    BY <2>2 DEF Writing, Unmarked
  <2>. DEFINE item == [do |-> kind, of |-> cmd[t]]
  <2>4. item \in Item /\ item.do = kind /\ item.of = cmd[t]
    BY <1>0 DEF Item
  <2>. HIDE DEF item
  <2>5. pc'[t] = "writeMarker" /\ shell[stdin].open /\ shell[stdin].alive /\ stdin' = stdin
        /\ shell' = [shell EXCEPT ![stdin].input = Append(@, item)]
    <3>1. pc'[t] # "ended" /\ pc'[t] # "idle"
      BY DEF Unmarked
    <3>. QED BY <1>1, <1>2, <2>2, <3>1 DEF Write, Raise, session, item
  <2>6. WrittenAt(stdin, item)
    <3>1. shell[stdin] \in Process
      BY <1>0
    <3>. DEFINE r == [shell[stdin] EXCEPT !.input = Append(@, item)]
    <3>2. /\ r.input = Append(shell[stdin].input, item) /\ r.alive = shell[stdin].alive
          /\ r.open = shell[stdin].open /\ r.status = shell[stdin].status /\ r.out = shell[stdin].out
      BY <3>1 DEF Process
    <3>3. shell' = [shell EXCEPT ![stdin] = r]
      BY <2>5
    <3>. HIDE DEF r
    <3>. QED BY <1>0, <2>5, <3>2, <3>3 DEF WrittenAt, OnlyAt
  <2>7. Writes(t, item)
    BY <2>2, <2>4, <2>5 DEF Writes, Writing
  <2>. QED BY <2>3, <2>4, <2>5, <2>6, <2>7
<1>6. CASE WriteMarker(t) \/ StopAsk(t)
  BY <1>3, <1>6 DEF WriteMarker, StopAsk, Unmarked
<1>7. CASE Flush(t) \/ Look(t) \/ Get(t) \/ TimeOut(t) \/ CollectAfterExit(t) \/ PollCode(t)
  BY <1>1, <1>2, <1>7 DEF Flush, Look, Get, TimeOut, CollectAfterExit, PollCode, Raise, Unmarked
<1>8. CASE \/ StopLooks(t) \/ StopWait(t) \/ StopWaited(t) \/ Kill(t) \/ KillGroup(t)
           \/ Close(t) \/ Clear(t) \/ SetTerminated(t)
  BY <1>1, <1>2, <1>8 DEF StopLooks, StopWait, StopWaited, Kill, KillGroup, Close, Clear, SetTerminated,
     Raise, Unmarked
<1>9. CASE Start(t)
  BY <1>1, <1>2, <1>9 DEF Start, StartCheck, StartPoll, Spawn, SetStdin, Reset, SetQueue, SetReader,
     SetStderr, StartReader, Raise, Restarted, Unmarked
<1>. QED BY <1>4, <1>5, <1>6, <1>7, <1>8, <1>9 DEF Step, Stop

\* A step of a call gives a shell no more than what it writes, and prints nothing.
LEMMA StepSources ==
  ASSUME NEW t \in Thread, TypeOK, LockOK, Step(t)
  PROVE  /\ \A line : Known(line)' => Known(line)
         /\ \A item : Given(item)' => Given(item) \/ (WrittenAt(stdin, item) /\ Writes(t, item))
<1>0. stdin \in Shell /\ \A g \in Shell : /\ shell[g].input \in Seq(Item) /\ queue[g] \in Seq(Printed)
                                          /\ shell[g].out \in Seq(Printed)
  BY Numbers, Typed
<1>1. \/ shell' = shell
      \/ /\ OnlyAt(stdin) /\ shell'[stdin].input = shell[stdin].input /\ shell'[stdin].out = shell[stdin].out
      \/ \E g \in Shell : DiesAt(g)
      \/ \E item \in Item : WrittenAt(stdin, item) /\ Writes(t, item) /\ queue' = queue
  BY Shells
<1>2. \A g \in Shell : shell'[g].out = shell[g].out
  BY <1>1 DEF OnlyAt, DiesAt, WrittenAt
<1>3. \A g \in Shell : \A i \in DOMAIN queue'[g] : \E j \in DOMAIN queue[g] : queue'[g][i] = queue[g][j]
  <2>1. \/ \A g \in Shell : queue'[g] = queue[g] \/ queue'[g] = << >>
        \/ Get(t) /\ on[t] \in Shell /\ queue' = [queue EXCEPT ![on[t]] = Tail(@)]
    BY Queues
  <2>2. SUFFICES ASSUME NEW g \in Shell, NEW i \in DOMAIN queue'[g]
                 PROVE  \E j \in DOMAIN queue[g] : queue'[g][i] = queue[g][j]
    OBVIOUS
  <2>3. CASE queue'[g] = queue[g] \/ queue'[g] = << >>
    BY <2>3
  <2>4. CASE queue'[g] = Tail(queue[g]) /\ queue[g] # << >>
    <3>1. /\ DOMAIN Tail(queue[g]) = 1 .. Len(queue[g]) - 1 /\ DOMAIN queue[g] = 1 .. Len(queue[g])
          /\ Len(queue[g]) \in Nat
          /\ \A k \in 1 .. Len(queue[g]) - 1 : Tail(queue[g])[k] = queue[g][k + 1]
      BY <1>0, <2>4, Tailed
    <3>2. i \in 1 .. Len(queue[g]) - 1 /\ i + 1 \in DOMAIN queue[g]
      BY <2>4, <3>1
    <3>. QED BY <2>4, <3>1, <3>2
  <2>5. Get(t) => queue[on[t]] # << >>
    BY DEF Get
  <2>6. queue \in [Shell -> Seq(Printed)]
    BY DEF TypeOK
  <2>. QED BY <2>1, <2>3, <2>4, <2>5, <2>6
<1>4. \A line : Known(line)' => Known(line)
  BY <1>2, <1>3 DEF Known
<1>5. ASSUME NEW item, Given(item)', ~Given(item) PROVE WrittenAt(stdin, item) /\ Writes(t, item)
  <2>1. PICK g \in Shell : \E i \in DOMAIN shell'[g].input : shell'[g].input[i] = item
    BY <1>5 DEF Given
  <2>2. shell'[g].input # shell[g].input /\ shell'[g].input # << >>
    BY <1>5, <2>1 DEF Given
  <2>3. PICK x \in Item : WrittenAt(stdin, x) /\ Writes(t, x)
    BY <1>1, <2>2 DEF OnlyAt, DiesAt
  <2>4. g = stdin /\ shell'[g].input = Append(shell[g].input, x)
    BY <2>2, <2>3 DEF WrittenAt, OnlyAt
  <2>5. item = x
    BY <1>0, <1>5, <2>1, <2>3, <2>4, AppendedWhere DEF Given
  <2>. QED BY <2>3, <2>5
<1>. QED BY <1>4, <1>5

\* A shell reads what it was given, and a reader moves what is known.
LEMMA ShellSources ==
  ASSUME NEW g \in Shell, TypeOK, ShellReads(g) \/ ShellEnds(g) \/ Read(g)
  PROVE  /\ UNCHANGED <<history, session, threads, return, pc, on, output>>
         /\ \A item : Given(item)' => Given(item)
         /\ \A line : Known(line)' => Known(line) \/ \E item \in Item : Given(item) /\ PrintsAt(g, item, line)
<1>0. current \in Shell /\ \A h \in Shell : /\ shell[h].input \in Seq(Item) /\ queue[h] \in Seq(Printed)
                                            /\ shell[h].out \in Seq(Printed)
  BY Numbers, Typed
<1>1. CASE Read(g)
  <2>1. /\ UNCHANGED <<history, session, threads, return, pc, on, output>>
        /\ \E i \in DOMAIN shell[g].out : ReadAt(g, i)
    BY <1>1, ReaderMoves
  <2>2. PICK k \in DOMAIN shell[g].out : ReadAt(g, k)
    BY <2>1
  <2>3. \A h \in Shell : shell'[h].input = shell[h].input
    BY <2>2 DEF ReadAt, OnlyAt
  <2>4. \A h \in Shell : \A i \in DOMAIN shell'[h].out :
          \E j \in DOMAIN shell[h].out : shell'[h].out[i] = shell[h].out[j]
    <3>1. \A i \in DOMAIN shell'[g].out : \E j \in DOMAIN shell[g].out : shell'[g].out[i] = shell[g].out[j]
      <4>1. shell[g].out \in Seq(Printed) /\ shell'[g].out = RemoveAt(shell[g].out, k)
        BY <1>0, <2>2 DEF ReadAt
      <4>2. \A j \in DOMAIN RemoveAt(shell[g].out, k) :
              \E l \in DOMAIN shell[g].out : RemoveAt(shell[g].out, k)[j] = shell[g].out[l]
        BY <4>1, Removed
      <4>. QED BY <4>1, <4>2
    <3>. QED BY <2>2, <3>1 DEF ReadAt, OnlyAt
  <2>5. \A h \in Shell : \A i \in DOMAIN queue'[h] :
          \/ \E j \in DOMAIN queue[h] : queue'[h][i] = queue[h][j]
          \/ queue'[h][i] = shell[g].out[k]
    <3>1. shell[g].out[k] \in Printed
      BY <1>0, <2>2, Elements
    <3>2. queue'[current] = Append(queue[current], shell[g].out[k]) /\ queue[current] \in Seq(Printed)
          /\ \A h \in Shell : h # current => queue'[h] = queue[h]
      BY <1>0, <2>2 DEF ReadAt
    <3>3. \A i \in DOMAIN queue'[current] :
            \/ \E j \in DOMAIN queue[current] : queue'[current][i] = queue[current][j]
            \/ queue'[current][i] = shell[g].out[k]
      <4>1. \A i \in DOMAIN Append(queue[current], shell[g].out[k]) :
              (i \in DOMAIN queue[current] /\ Append(queue[current], shell[g].out[k])[i] = queue[current][i])
                \/ Append(queue[current], shell[g].out[k])[i] = shell[g].out[k]
        BY <3>1, <3>2, AppendedWhere
      <4>. QED BY <3>2, <4>1
    <3>. QED BY <3>2, <3>3
  <2>6. ASSUME NEW line, Known(line)' PROVE Known(line)
    BY <2>2, <2>4, <2>5, <2>6 DEF Known
  <2>. QED BY <2>1, <2>3, <2>6 DEF Given
<1>2. CASE ShellReads(g) \/ ShellEnds(g)
  <2>1. /\ UNCHANGED <<history, queue, session, threads, return, pc, on, output>>
        /\ (\E item \in Item, line \in Printed : PrintsAt(g, item, line)) \/ DiesAt(g)
    BY <1>2, ShellMoves
  <2>2. CASE DiesAt(g)
    BY <2>1, <2>2 DEF DiesAt, OnlyAt, Given, Known
  <2>3. CASE \E item \in Item, line \in Printed : PrintsAt(g, item, line)
    <3>1. PICK item \in Item, line \in Printed : PrintsAt(g, item, line)
      BY <2>3
    <3>2. /\ shell[g].input # << >> /\ item = Head(shell[g].input)
          /\ shell'[g].input = Tail(shell[g].input) /\ shell'[g].out = Append(shell[g].out, line)
          /\ OnlyAt(g)
      BY <3>1 DEF PrintsAt
    <3>3. /\ item = shell[g].input[1] /\ 1 \in DOMAIN shell[g].input
          /\ \A i \in DOMAIN shell'[g].input :
               i + 1 \in DOMAIN shell[g].input /\ shell'[g].input[i] = shell[g].input[i + 1]
      <4>1. /\ Head(shell[g].input) = shell[g].input[1]
            /\ DOMAIN Tail(shell[g].input) = 1 .. Len(shell[g].input) - 1
            /\ DOMAIN shell[g].input = 1 .. Len(shell[g].input) /\ Len(shell[g].input) \in Nat \ {0}
            /\ \A i \in 1 .. Len(shell[g].input) - 1 : Tail(shell[g].input)[i] = shell[g].input[i + 1]
        BY <1>0, <3>2, Tailed
      <4>. QED BY <3>2, <4>1
    <3>4. Given(item)
      BY <3>3 DEF Given
    <3>5. ASSUME NEW x, Given(x)' PROVE Given(x)
      <4>1. PICK h \in Shell : \E i \in DOMAIN shell'[h].input : shell'[h].input[i] = x
        BY <3>5 DEF Given
      <4>2. CASE h = g
        BY <3>3, <4>1, <4>2 DEF Given
      <4>3. CASE h # g
        BY <3>2, <4>1, <4>3 DEF Given, OnlyAt
      <4>. QED BY <4>2, <4>3
    <3>6. ASSUME NEW x, Known(x)' PROVE Known(x) \/ x = line
      <4>1. \A i \in DOMAIN shell'[g].out : (\E j \in DOMAIN shell[g].out : shell'[g].out[i] = shell[g].out[j])
                                              \/ shell'[g].out[i] = line
        BY <1>0, <3>1, <3>2, AppendedWhere
      <4>. QED BY <2>1, <3>2, <3>6, <4>1 DEF Known, OnlyAt
    <3>. QED BY <2>1, <3>1, <3>4, <3>5, <3>6
  <2>. QED BY <2>1, <2>2, <2>3
<1>. QED BY <1>1, <1>2

------------------------------------------------------------------------------
(* Markers report the status of their own command. *)

LEMMA NumbersNext ==
  ASSUME Base, NumbersOK, [Next]_vars
  PROVE  NumbersOK'
<1>0. TypeOK /\ LockOK /\ \A t \in Thread : cmd[t] \in Nat
  BY Typed, Numbers DEF Base, Command
<1>1. ASSUME NEW t \in Thread, Execute(t) \/ Restart(t) PROVE NumbersOK'
  <2>1. /\ pc[t] = "idle" /\ UNCHANGED <<shell, queue>>
        /\ calls \in Nat /\ calls' = calls + 1 /\ cmd'[t] = calls + 1
        /\ \A u \in Thread : u # t => pc'[u] = pc[u] /\ cmd'[u] = cmd[u]
    BY <1>0, <1>1, Called DEF pipes
  <2>2. \A x : (Given(x)' <=> Given(x)) /\ (Known(x)' <=> Known(x))
    BY <2>1 DEF Given, Known
  <2>3. \A item \in Item : Given(item)' => item.of <= calls /\ item.of \in Nat
    BY <2>2 DEF NumbersOK, Item, Command
  <2>4. \A line \in Printed : Known(line)' => line.of <= calls /\ line.of \in Nat
    BY <2>2 DEF NumbersOK, Printed, Command
  <2>5. \A u \in Thread : cmd[u] <= calls
    BY DEF NumbersOK
  <2>6. ASSUME NEW n, n = calls + 1 PROVE ~Given(Marker(n))'
    <3>1. calls + 1 \in Command
      BY <1>0, <1>1, Called DEF Command
    <3>2. Marker(n) \in Item /\ Marker(n).of = n
      BY <2>6, <3>1 DEF Marker, Item
    <3>3. ~(n <= calls)
      BY <2>1, <2>6
    <3>. QED BY <2>3, <3>2, <3>3
  <2>7. \A u \in Thread : cmd'[u] <= calls'
    BY <1>0, <2>1, <2>5
  <2>8. \A u, v \in Thread : u # v /\ pc'[u] # "idle" /\ pc'[v] # "idle" => cmd'[u] # cmd'[v]
    BY <1>0, <2>1, <2>5 DEF NumbersOK
  <2>9. ASSUME NEW u \in Thread, pc'[u] \in Unmarked, NEW n, n = cmd'[u]
        PROVE  ~Given(Marker(n))' /\ \A line \in Printed : Known(line)' /\ line.kind = "done" => line.of # n
    <3>1. CASE u = t
      <4>1. ~Given(Marker(n))'
        BY <2>1, <2>6, <2>9, <3>1
      <4>2. \A line \in Printed : Known(line)' => line.of # n
        BY <2>1, <2>4, <2>9, <3>1
      <4>. QED BY <4>1, <4>2
    <3>2. CASE u # t
      <4>1. pc[u] \in Unmarked /\ n = cmd[u]
        BY <2>1, <2>9, <3>2
      <4>2. ~Given(Marker(n)) /\ \A line \in Printed : Known(line) /\ line.kind = "done" => line.of # n
        BY <4>1 DEF NumbersOK
      <4>. QED BY <2>2, <4>2
    <3>. QED BY <3>1, <3>2
  <2>10. /\ \A item \in Item : Given(item)' => item.of <= calls'
         /\ \A line \in Printed : Known(line)' => line.of <= calls'
    <3>1. \A n \in Nat : n <= calls => n <= calls'
      BY <2>1
    <3>. QED BY <2>3, <2>4, <3>1
  <2>. QED BY <2>7, <2>8, <2>9, <2>10 DEF NumbersOK
<1>2. ASSUME NEW t \in Thread, Step(t) PROVE NumbersOK'
  <2>1. /\ UNCHANGED <<calls, cmd>> /\ pc[t] # "idle" /\ \A u \in Thread : u # t => pc'[u] = pc[u]
    BY <1>0, <1>2, Moved DEF history
  <2>2. /\ \A line : Known(line)' => Known(line)
        /\ \A item : Given(item)' => Given(item) \/ (WrittenAt(stdin, item) /\ Writes(t, item))
    BY <1>0, <1>2, StepSources
  <2>3. pc'[t] \in Unmarked => pc[t] \in Unmarked
    BY <1>0, <1>2, ToMarker
  <2>4. \A item : Writes(t, item) => item.of \in {cmd[t], 0}
                    /\ (item.do # "marker" \/ (item.of = cmd[t] /\ pc'[t] = "flush"))
    BY DEF Writes, Marker
  <2>5. \A item \in Item : Given(item)' => item.of <= calls'
    BY <1>0, <2>1, <2>2, <2>4, Numbers DEF NumbersOK
  <2>6. ASSUME NEW u \in Thread, pc'[u] \in Unmarked
        PROVE  /\ ~Given(Marker(cmd[u]))'
               /\ \A line \in Printed : Known(line)' /\ line.kind = "done" => line.of # cmd[u]
    <3>1. pc[u] \in Unmarked
      BY <2>1, <2>3, <2>6
    <3>2. ~Given(Marker(cmd[u])) /\ \A line \in Printed : Known(line) /\ line.kind = "done" => line.of # cmd[u]
      BY <3>1 DEF NumbersOK
    <3>3. ~Writes(t, Marker(cmd[u]))
      <4>1. SUFFICES ASSUME Writes(t, Marker(cmd[u])) PROVE FALSE
        OBVIOUS
      <4>2. Marker(cmd[u]).of = cmd[u] /\ Marker(cmd[u]).do = "marker"
        BY DEF Marker
      <4>3. cmd[u] = cmd[t] /\ pc'[t] = "flush"
        BY <2>4, <4>1, <4>2
      <4>4. u # t /\ pc[u] # "idle"
        BY <2>6, <3>1, <4>3 DEF Unmarked
      <4>. QED BY <2>1, <4>3, <4>4 DEF NumbersOK
    <3>. QED BY <2>1, <2>2, <3>2, <3>3
  <2>7. \A u, v \in Thread : u # v /\ pc'[u] # "idle" /\ pc'[v] # "idle" => cmd[u] # cmd[v]
    BY <2>1 DEF NumbersOK
  <2>8. \A line \in Printed : Known(line)' => line.of <= calls'
    BY <2>1, <2>2 DEF NumbersOK
  <2>. QED BY <2>1, <2>5, <2>6, <2>7, <2>8 DEF NumbersOK
<1>3. ASSUME NEW g \in Shell, ShellReads(g) \/ ShellEnds(g) \/ Read(g) PROVE NumbersOK'
  <2>1. /\ UNCHANGED <<calls, cmd, pc>>
        /\ \A item : Given(item)' => Given(item)
        /\ \A line : Known(line)' => Known(line) \/ \E item \in Item : Given(item) /\ PrintsAt(g, item, line)
    BY <1>0, <1>3, ShellSources DEF history
  <2>2. ASSUME NEW line \in Printed, Known(line)', ~Known(line)
        PROVE  /\ line.of <= calls
               /\ line.kind = "done" => Given(Marker(line.of))
    <3>1. PICK item \in Item : Given(item) /\ PrintsAt(g, item, line)
      BY <2>1, <2>2
    <3>2. line.of = item.of /\ (line.kind = "done" => item.do = "marker")
      BY <3>1 DEF PrintsAt, Line
    <3>3. item.do = "marker" => item = Marker(item.of)
      BY DEF Item, Marker
    <3>. QED BY <3>1, <3>2, <3>3 DEF NumbersOK
  <2>3. \A line \in Printed : Known(line)' => line.of <= calls
    BY <2>2 DEF NumbersOK
  <2>4. \A u \in Thread, line \in Printed :
          pc[u] \in Unmarked /\ Known(line)' /\ line.kind = "done" => line.of # cmd[u]
    BY <2>2 DEF NumbersOK
  <2>. QED BY <2>1, <2>3, <2>4 DEF NumbersOK
<1>4. CASE UNCHANGED vars
  <2>1. UNCHANGED <<calls, cmd, pc, shell, queue>>
    BY <1>4 DEF vars, history, pipes
  <2>2. \A x : (Given(x)' <=> Given(x)) /\ (Known(x)' <=> Known(x))
    BY <2>1 DEF Given, Known
  <2>. QED BY <2>1, <2>2 DEF NumbersOK
<1>. QED BY <1>1, <1>2, <1>3, <1>4 DEF Next

LEMMA SoundAppended ==
  ASSUME NEW s \in Process, NEW r \in Process, NEW item \in Item, Sound(s),
         r.input = Append(s.input, item), r.status = s.status,
         item.do = "marker" => Ready(s, item.of)
  PROVE  Sound(r)
<1>. DEFINE q == Append(s.input, item)
<1>1. s.input \in Seq(Item)
  BY DEF Process
<1>2. /\ q \in Seq(Item) /\ Len(s.input) \in Nat
      /\ DOMAIN q = 1 .. Len(s.input) + 1 /\ DOMAIN s.input = 1 .. Len(s.input)
      /\ \A i \in 1 .. Len(s.input) : q[i] = s.input[i]
      /\ q[Len(s.input) + 1] = item
  BY <1>1, Appended
<1>3. s.input = << >> <=> Len(s.input) = 0
  BY <1>1
<1>. HIDE DEF q
<1>4. ASSUME NEW i \in DOMAIN q, q[i].do = "marker"
      PROVE  IF i = 1 THEN Own(s.status, q[i].of) ELSE Leads(q[i - 1], q[i].of)
  <2>1. CASE i = Len(s.input) + 1
    BY <1>2, <1>3, <1>4, <2>1 DEF Ready
  <2>2. CASE i # Len(s.input) + 1
    <3>1. i \in 1 .. Len(s.input) /\ (i # 1 => i - 1 \in 1 .. Len(s.input))
      BY <1>2, <1>4, <2>2
    <3>. QED BY <1>2, <1>4, <3>1 DEF Sound
  <2>. QED BY <2>1, <2>2
<1>. QED BY <1>4 DEF Sound, q

\* A shell that has read a line has still the markers it should have.
LEMMA SoundRead ==
  ASSUME NEW s \in Process, NEW r \in Process, Sound(s), s.input # << >>, r.input = Tail(s.input),
         \/ Head(s.input).do = "run" /\ r.status = Head(s.input).of
         \/ Head(s.input).do = "marker" /\ r.status = 0
  PROVE  /\ Sound(r)
         /\ \A n : Ready(s, n) => Ready(r, n)
         /\ Head(s.input).do = "marker" => Own(s.status, Head(s.input).of)
<1>. DEFINE q == s.input
            item == Head(q)
<1>0. q \in Seq(Item) /\ q # << >> /\ r.input = Tail(q)
  BY DEF Process
<1>. HIDE DEF q
<1>1. /\ item = q[1] /\ Tail(q) \in Seq(Item) /\ Len(Tail(q)) = Len(q) - 1 /\ Len(q) \in Nat \ {0}
      /\ DOMAIN Tail(q) = 1 .. Len(q) - 1 /\ DOMAIN q = 1 .. Len(q)
      /\ \A i \in 1 .. Len(q) - 1 : Tail(q)[i] = q[i + 1]
  BY <1>0, Tailed
<1>2. \A i \in DOMAIN Tail(q) : /\ i + 1 \in DOMAIN q /\ Tail(q)[i] = q[i + 1]
                                /\ i + 1 # 1 /\ (i + 1) - 1 = i /\ (i # 1 => i - 1 \in DOMAIN Tail(q))
                                /\ i # 1 => Tail(q)[i - 1] = q[i]
  <2>. SUFFICES ASSUME NEW i \in 1 .. Len(q) - 1
                PROVE  /\ i + 1 \in 1 .. Len(q) /\ Tail(q)[i] = q[i + 1]
                       /\ i + 1 # 1 /\ (i + 1) - 1 = i /\ (i # 1 => i - 1 \in 1 .. Len(q) - 1)
                       /\ i # 1 => Tail(q)[i - 1] = q[i]
    BY <1>1
  <2>1. i \in Nat /\ i >= 1 /\ i <= Len(q) - 1
    BY <1>1
  <2>2. i # 1 => i - 1 \in 1 .. Len(q) - 1 /\ (i - 1) + 1 = i
    BY <1>1, <2>1
  <2>3. i # 1 => Tail(q)[i - 1] = q[i]
    <3>1. \A j \in 1 .. Len(q) - 1 : Tail(q)[j] = q[j + 1]
      BY <1>1
    <3>2. i # 1 => Tail(q)[i - 1] = q[(i - 1) + 1]
      BY <2>2, <3>1
    <3>. QED BY <2>2, <3>2
  <2>. QED BY <1>1, <2>1, <2>2, <2>3
<1>3. \A i \in DOMAIN q :
        q[i].do = "marker" => IF i = 1 THEN Own(s.status, q[i].of) ELSE Leads(q[i - 1], q[i].of)
  BY DEF Sound, q
<1>4. 1 \in DOMAIN q
  BY <1>1
<1>5. \/ item.do = "run" /\ r.status = item.of
      \/ item.do = "marker" /\ r.status = 0
  BY DEF q
<1>. HIDE DEF item
<1>6. ASSUME NEW n, Leads(item, n) PROVE Own(r.status, n)
  BY <1>5, <1>6 DEF Leads, Own
<1>7. Sound(r)
  <2>1. ASSUME NEW i \in DOMAIN Tail(q), Tail(q)[i].do = "marker"
        PROVE  IF i = 1 THEN Own(r.status, Tail(q)[i].of) ELSE Leads(Tail(q)[i - 1], Tail(q)[i].of)
    <3>1. Leads(q[i], Tail(q)[i].of)
      BY <1>2, <1>3, <2>1
    <3>. QED BY <1>1, <1>2, <1>6, <2>1, <3>1
  <2>. QED BY <1>0, <2>1 DEF Sound
<1>8. ASSUME NEW n, Ready(s, n) PROVE Ready(r, n)
  <2>1. Leads(q[Len(q)], n)
    BY <1>0, <1>8 DEF Ready, q
  <2>2. CASE Len(q) = 1
    <3>1. Tail(q) = << >>
      BY <1>1, <2>2
    <3>. QED BY <1>0, <1>1, <1>6, <2>1, <2>2, <3>1 DEF Ready
  <2>3. CASE Len(q) # 1
    <3>1. Len(q) - 1 \in 1 .. Len(q) - 1 /\ (Len(q) - 1) + 1 = Len(q)
      BY <1>1, <2>3
    <3>2. Tail(q)[Len(Tail(q))] = q[Len(q)]
      BY <1>1, <3>1
    <3>3. Len(Tail(q)) # 0
      BY <1>1, <2>3
    <3>4. Tail(q) # << >>
      BY <1>1, <3>3, Emptied, Zenon
    <3>. QED BY <1>0, <2>1, <3>2, <3>4 DEF Ready
  <2>. QED BY <2>2, <2>3
<1>9. item.do = "marker" => Own(s.status, item.of)
  BY <1>1, <1>3, <1>4
<1>. QED BY <1>7, <1>8, <1>9 DEF item, q

LEMMA OwnKept ==
  ASSUME mix \subseteq mix'
  PROVE  /\ \A code, n : Own(code, n) => Own(code, n)'
         /\ \A g : Sound(shell'[g]) => Sound(shell[g])'
         /\ \A g, n : Ready(shell'[g], n) => Ready(shell[g], n)'
<1>1. \A code, n : Own(code, n) => Own(code, n)'
  BY DEF Own
<1>2. \A x, n : Leads(x, n)' <=> Leads(x, n)
  BY DEF Leads
<1>3. ASSUME NEW g, Sound(shell'[g]) PROVE Sound(shell[g])'
  BY <1>1, <1>3 DEF Sound, Leads
<1>4. ASSUME NEW g, NEW n, Ready(shell'[g], n) PROVE Ready(shell[g], n)'
  BY <1>1, <1>4 DEF Ready, Leads
<1>. QED BY <1>1, <1>3, <1>4

LEMMA StepStatus ==
  ASSUME Base, NumbersOK, StatusOK, NEW t \in Thread, Step(t)
  PROVE  StatusOK'
<1>0. /\ TypeOK /\ LockOK /\ NewOK /\ stdin \in Shell /\ Nobody \notin Thread /\ Shell \subseteq Nat
      /\ shell \in [Shell -> Process] /\ \A g \in Shell : shell[g].input \in Seq(Item)
  BY Typed, Numbers, ShellAssumption DEF Base, TypeOK
<1>1. /\ UNCHANGED <<mix, calls, cmd>> /\ pc[t] # "idle" /\ \A u \in Thread : u # t => pc'[u] = pc[u]
      /\ \/ pc[t] \notin {"run", "exit"}
         \/ pc[t] \in {"run", "exit"} /\ lock = Nobody
  BY <1>0, Moved DEF history
<1>2. /\ shell' \in [Shell -> Process]
      /\ \/ shell' = shell
         \/ /\ OnlyAt(stdin) /\ shell'[stdin].input = shell[stdin].input
            /\ shell'[stdin].status = shell[stdin].status /\ shell'[stdin].alive = shell[stdin].alive
         \/ \E g \in Shell : DiesAt(g)
         \/ \E item \in Item : WrittenAt(stdin, item) /\ Writes(t, item)
  BY <1>0, Shells
<1>3. stdin' = stdin \/ (stdin' = spawned /\ spawned > stdin)
  <2>1. /\ pc[t] = "spawn" => spawned + 1 \in Shell
        /\ stdin <= spawned /\ stdin \in Nat /\ spawned \in Nat
    BY <1>0, Room, Numbers
  <2>2. stdin' = stdin \/ stdin' = spawned
    BY <1>0, <2>1, Attributes
  <2>. QED BY <2>1, <2>2
<1>4. \A x : Writes(t, x) /\ x.do = "marker" => x.of = cmd[t] /\ pc[t] = "writeMarker"
  BY DEF Writes, Marker
<1>5. ASSUME NEW g \in Shell PROVE Sound(shell'[g])
  <2>0. Sound(shell[g])
    BY DEF StatusOK
  <2>1. CASE shell'[g].input = shell[g].input /\ shell'[g].status = shell[g].status
    BY <2>0, <2>1 DEF Sound
  <2>2. CASE shell'[g].input = << >>
    BY <2>2 DEF Sound
  <2>3. CASE g = stdin /\ \E item \in Item : WrittenAt(stdin, item) /\ Writes(t, item)
    <3>1. PICK item \in Item : WrittenAt(stdin, item) /\ Writes(t, item)
      BY <2>3
    <3>2. item.do = "marker" => Ready(shell[g], item.of)
      BY <1>4, <2>3, <3>1 DEF StatusOK, WrittenAt
    <3>3. shell'[g].input = Append(shell[g].input, item) /\ shell'[g].status = shell[g].status
      BY <2>3, <3>1 DEF WrittenAt
    <3>. QED BY <1>0, <1>2, <2>0, <3>2, <3>3, SoundAppended
  <2>. QED BY <1>2, <2>1, <2>2, <2>3 DEF OnlyAt, DiesAt, WrittenAt
<1>6. \A line \in Printed : Known(line)' /\ line.kind = "done" => Own(line.code, line.of)
  BY <1>0, StepSources DEF StatusOK
<1>7. ASSUME NEW u \in Thread, pc'[u] = "writeMarker", shell'[stdin'].alive
      PROVE  Ready(shell'[stdin'], cmd[u])
  <2>1. CASE u = t
    <3>1. PICK item \in Item : WrittenAt(stdin, item) /\ Writes(t, item) /\ stdin' = stdin
      BY <1>0, <1>7, <2>1, ToMarker DEF Unmarked
    <3>2. item.of = cmd[t] /\ item.do \in {"run", "exit"}
      BY <1>7, <2>1, <3>1 DEF Writes
    <3>3. shell'[stdin].input = Append(shell[stdin].input, item)
      BY <3>1 DEF WrittenAt
    <3>4. shell'[stdin].input # << >> /\ shell'[stdin].input[Len(shell'[stdin].input)] = item
      BY <1>0, <3>3, AppendedWhere
    <3>. QED BY <2>1, <3>1, <3>2, <3>4 DEF Ready, Leads
  <2>2. CASE u # t
    <3>1. pc[u] = "writeMarker" /\ lock = u
      BY <1>0, <1>1, <1>7, <2>2 DEF LockOK, Inside
    <3>2. "restart" \in mix /\ pc[t] \in Restarting
      <4>1. lock # t /\ lock # Nobody
        BY <1>0, <2>2, <3>1
      <4>2. pc[t] \notin {"run", "exit", "idle"} \cup Inside
        BY <1>0, <1>1, <4>1 DEF LockOK
      <4>3. pc \in [Thread -> Place]
        BY <1>0 DEF TypeOK
      <4>4. pc[t] \in Restarting
        BY <4>2, <4>3 DEF Place, Inside
      <4>. QED BY <1>0, <4>1, <4>4 DEF LockOK
    <3>3. CASE stdin' = stdin
      <4>1. CASE shell'[stdin].input = shell[stdin].input /\ shell'[stdin].status = shell[stdin].status
                 /\ shell'[stdin].alive = shell[stdin].alive
        BY <1>7, <3>1, <3>3, <4>1 DEF StatusOK, Ready
      <4>2. CASE \E item \in Item : WrittenAt(stdin, item) /\ Writes(t, item)
        <5>1. PICK item \in Item : WrittenAt(stdin, item) /\ Writes(t, item)
          BY <4>2
        <5>2. item.do = "bye"
          BY <3>2, <5>1 DEF Writes, Restarting, Stopping, Starting
        <5>3. shell'[stdin].input # << >> /\ shell'[stdin].input[Len(shell'[stdin].input)] = item
          BY <1>0, <5>1, AppendedWhere DEF WrittenAt
        <5>. QED BY <3>3, <5>2, <5>3 DEF Ready, Leads
      <4>. QED BY <1>0, <1>2, <1>7, <3>3, <4>1, <4>2 DEF OnlyAt, DiesAt
    <3>4. CASE stdin' = spawned /\ spawned > stdin
      <4>1. spawned \in Shell
        BY <1>0, Numbers
      <4>2. shell[spawned].input = << >> /\ shell[spawned].status = 0 /\ spawned # stdin
        BY <1>0, <3>4, <4>1 DEF NewOK
      <4>3. shell'[spawned].input = << >> /\ shell'[spawned].status = 0
        <5>1. shell'[spawned] = shell[spawned] \/ DiesAt(spawned)
          BY <1>2, <4>1, <4>2 DEF OnlyAt, DiesAt, WrittenAt
        <5>. QED BY <1>7, <3>4, <4>2, <5>1 DEF DiesAt
      <4>. QED BY <3>2, <3>4, <4>3 DEF Ready, Own
    <3>. QED BY <1>3, <3>3, <3>4
  <2>. QED BY <2>1, <2>2
<1>8. ASSUME NEW u \in Thread, result'[u].how = "code" PROVE Own(result'[u].code, cmd[u])
  <2>1. CASE result'[u] = result[u]
    BY <1>8, <2>1 DEF StatusOK
  <2>2. CASE u = t /\ result'[t] # result[t]
    <3>1. /\ Get(t) /\ IsMarker(t, Head(queue[on[t]]))
          /\ result'[t] = [how |-> "code", code |-> Head(queue[on[t]]).code]
      BY <1>0, <1>8, <2>2, Results
    <3>2. on[t] \in Shell
      BY <1>0, <3>1, Queues, Numbers DEF Get, LockOK, TypeOK, None
    <3>3. queue[on[t]] \in Seq(Printed) /\ queue[on[t]] # << >>
      BY <1>0, <3>1, <3>2, Typed DEF Get
    <3>. DEFINE line == Head(queue[on[t]])
    <3>4. line \in Printed /\ line = queue[on[t]][1] /\ 1 \in DOMAIN queue[on[t]]
      BY <3>3, Tailed
    <3>5. Known(line)
      BY <3>2, <3>4 DEF Known
    <3>6. line.kind = "done" /\ line.of = cmd[t]
      BY <3>1 DEF IsMarker
    <3>7. Own(line.code, cmd[t])
      BY <3>4, <3>5, <3>6 DEF StatusOK
    <3>. QED BY <2>2, <3>1, <3>7
  <2>3. u # t => result'[u] = result[u]
    <3>1. result \in [Thread -> Result]
      BY <1>0 DEF TypeOK
    <3>. QED BY <1>0, <3>1, Moved DEF return
  <2>. QED BY <2>1, <2>2, <2>3
<1>9. mix \subseteq mix'
  BY <1>1
<1>10. \A g \in Shell : Sound(shell[g])'
  BY <1>5, <1>9, OwnKept
<1>11. \A line \in Printed : Known(line)' /\ line.kind = "done" => Own(line.code, line.of)'
  BY <1>6, <1>9, OwnKept
<1>12. ASSUME NEW u \in Thread, pc'[u] = "writeMarker", shell'[stdin'].alive PROVE Ready(shell[stdin], cmd[u])'
  <2>1. PICK g : g = stdin'
    OBVIOUS
  <2>2. Ready(shell'[g], cmd[u]) /\ cmd' = cmd
    BY <1>1, <1>7, <1>12, <2>1
  <2>3. PICK n : n = cmd[u]
    OBVIOUS
  <2>4. Ready(shell[g], n)'
    BY <1>9, <2>2, <2>3, OwnKept
  <2>. QED BY <2>1, <2>2, <2>3, <2>4
<1>13. \A u \in Thread : result'[u].how = "code" => Own(result[u].code, cmd[u])'
  BY <1>1, <1>8 DEF Own
<1>. QED BY <1>10, <1>11, <1>12, <1>13 DEF StatusOK

LEMMA CalledStatus ==
  ASSUME Base, StatusOK, NEW t \in Thread, Execute(t) \/ Restart(t)
  PROVE  StatusOK'
<1>1. /\ UNCHANGED <<shell, queue, stdin>> /\ mix \subseteq mix' /\ result'[t].how # "code"
      /\ pc'[t] # "writeMarker"
      /\ \A u \in Thread : u # t => result'[u] = result[u] /\ cmd'[u] = cmd[u] /\ pc'[u] = pc[u]
  BY Called DEF Base, pipes, session
<1>2. /\ \A x : Known(x)' => Known(x)
      /\ \A code, n : Own(code, n) => Own(code, n)'
  BY <1>1, OwnKept DEF Known
<1>3. \A g \in Shell : Sound(shell[g])'
  BY <1>1, OwnKept DEF StatusOK
<1>4. \A line \in Printed : Known(line)' /\ line.kind = "done" => Own(line.code, line.of)'
  BY <1>2 DEF StatusOK
<1>5. ASSUME NEW u \in Thread, pc'[u] = "writeMarker", shell'[stdin'].alive PROVE Ready(shell[stdin], cmd[u])'
  <2>1. Ready(shell[stdin], cmd[u]) /\ cmd'[u] = cmd[u]
    BY <1>1, <1>5 DEF StatusOK
  <2>. QED BY <1>1, <1>2, <2>1 DEF Ready, Leads
<1>6. ASSUME NEW u \in Thread, result'[u].how = "code" PROVE Own(result[u].code, cmd[u])'
  <2>1. Own(result[u].code, cmd[u]) /\ cmd'[u] = cmd[u] /\ result'[u] = result[u]
    BY <1>1, <1>6 DEF StatusOK
  <2>. QED BY <1>1, <2>1 DEF Own
<1>. QED BY <1>3, <1>4, <1>5, <1>6 DEF StatusOK

LEMMA ShellStatus ==
  ASSUME Base, StatusOK, NEW g \in Shell, ShellReads(g) \/ ShellEnds(g) \/ Read(g)
  PROVE  StatusOK'
<1>0. TypeOK /\ stdin \in Shell /\ \A h \in Shell : shell[h] \in Process /\ shell[h].input \in Seq(Item)
  BY Typed, Numbers DEF Base
<1>1. /\ UNCHANGED <<mix, cmd, stdin, result, pc>>
      /\ \A item : Given(item)' => Given(item)
      /\ \A line : Known(line)' => Known(line) \/ \E item \in Item : Given(item) /\ PrintsAt(g, item, line)
  BY <1>0, ShellSources DEF history, session, return
<1>2. \/ /\ OnlyAt(g) /\ shell'[g].input = shell[g].input /\ shell'[g].status = shell[g].status
         /\ shell'[g].alive = shell[g].alive /\ \A line : ~ \E item \in Item : PrintsAt(g, item, line)
      \/ DiesAt(g)
      \/ shell'[g] \in Process /\ \E item \in Item, line \in Printed : PrintsAt(g, item, line)
  <2>1. CASE Read(g)
    <3>1. \E i \in DOMAIN shell[g].out : ReadAt(g, i)
      BY <1>0, <2>1, ReaderMoves
    <3>2. /\ OnlyAt(g) /\ shell'[g].input = shell[g].input /\ shell'[g].status = shell[g].status
          /\ shell'[g].alive = shell[g].alive
      BY <3>1 DEF ReadAt
    <3>3. ASSUME NEW line, NEW item \in Item, PrintsAt(g, item, line) PROVE FALSE
      <4>1. shell[g].input # << >> /\ shell'[g].input = Tail(shell[g].input)
        BY <3>3 DEF PrintsAt
      <4>2. Len(Tail(shell[g].input)) = Len(shell[g].input) - 1 /\ Len(shell[g].input) \in Nat
        BY <1>0, <4>1, Tailed
      <4>3. Tail(shell[g].input) = shell[g].input
        BY <3>2, <4>1
      <4>4. Len(shell[g].input) = Len(shell[g].input) - 1
        BY <4>2, <4>3, Zenon
      <4>. QED BY <4>2, <4>4
    <3>. QED BY <3>2, <3>3
  <2>2. CASE ShellReads(g) \/ ShellEnds(g)
    BY <1>0, <2>2, ShellMoves
  <2>. QED BY <2>1, <2>2
<1>3. \A n : /\ shell'[g].alive /\ Ready(shell[g], n) => Ready(shell'[g], n)
             /\ Sound(shell'[g])
             /\ \A item \in Item, line \in Printed :
                  PrintsAt(g, item, line) /\ line.kind = "done" => Own(line.code, line.of)
  <2>0. Sound(shell[g])
    BY DEF StatusOK
  <2>1. CASE /\ shell'[g].input = shell[g].input /\ shell'[g].status = shell[g].status
             /\ \A line : ~ \E item \in Item : PrintsAt(g, item, line)
    BY <2>0, <2>1 DEF Sound, Ready
  <2>2. CASE DiesAt(g)
    BY <2>2 DEF DiesAt, Sound, PrintsAt
  <2>3. CASE shell'[g] \in Process /\ \E item \in Item, line \in Printed : PrintsAt(g, item, line)
    <3>1. PICK item \in Item, line \in Printed : PrintsAt(g, item, line)
      BY <2>3
    <3>2. /\ shell[g].input # << >> /\ shell'[g].input = Tail(shell[g].input)
          /\ \/ Head(shell[g].input).do = "run" /\ shell'[g].status = Head(shell[g].input).of
             \/ Head(shell[g].input).do = "marker" /\ shell'[g].status = 0
      BY <3>1 DEF PrintsAt
    <3>3. /\ Sound(shell'[g])
          /\ \A n : Ready(shell[g], n) => Ready(shell'[g], n)
          /\ Head(shell[g].input).do = "marker" => Own(shell[g].status, Head(shell[g].input).of)
      BY <1>0, <2>0, <2>3, <3>2, SoundRead
    <3>4. \A x \in Item, l \in Printed :
            PrintsAt(g, x, l) /\ l.kind = "done" =>
              x = Head(shell[g].input) /\ x.do = "marker" /\ l.of = x.of /\ l.code = shell[g].status
      BY DEF PrintsAt, Line
    <3>. QED BY <3>3, <3>4
  <2>. QED BY <1>2, <2>1, <2>2, <2>3
<1>4. \A h \in Shell : h # g => shell'[h] = shell[h]
  BY <1>2 DEF OnlyAt, DiesAt, PrintsAt
<1>5. mix \subseteq mix'
  BY <1>1
<1>6. \A h \in Shell : Sound(shell[h])'
  <2>1. \A h \in Shell : Sound(shell'[h])
    BY <1>3, <1>4 DEF StatusOK
  <2>. QED BY <1>5, <2>1, OwnKept
<1>7. \A line \in Printed : Known(line)' /\ line.kind = "done" => Own(line.code, line.of)'
  <2>1. \A line \in Printed : Known(line)' /\ line.kind = "done" => Own(line.code, line.of)
    BY <1>1, <1>3 DEF StatusOK
  <2>. QED BY <1>5, <2>1, OwnKept
<1>8. ASSUME NEW u \in Thread, pc'[u] = "writeMarker", shell'[stdin'].alive PROVE Ready(shell[stdin], cmd[u])'
  <2>1. shell'[stdin].alive /\ pc[u] = "writeMarker" /\ stdin' = stdin /\ cmd' = cmd
    BY <1>1, <1>8
  <2>2. shell[stdin].alive
    <3>1. CASE stdin = g
      BY <1>2, <2>1, <3>1 DEF DiesAt, PrintsAt
    <3>2. CASE stdin # g
      BY <1>0, <1>4, <2>1, <3>2
    <3>. QED BY <3>1, <3>2
  <2>3. Ready(shell[stdin], cmd[u])
    BY <2>1, <2>2 DEF StatusOK
  <2>4. Ready(shell'[stdin], cmd[u])
    <3>1. CASE stdin = g
      BY <1>3, <2>1, <2>3, <3>1
    <3>2. CASE stdin # g
      BY <1>0, <1>4, <2>3, <3>2
    <3>. QED BY <3>1, <3>2
  <2>5. PICK x, n : x = stdin /\ n = cmd[u]
    OBVIOUS
  <2>6. Ready(shell[x], n)'
    BY <1>5, <2>4, <2>5, OwnKept
  <2>. QED BY <2>1, <2>5, <2>6
<1>9. \A u \in Thread : result'[u].how = "code" => Own(result[u].code, cmd[u])'
  BY <1>1 DEF StatusOK, Own
<1>. QED BY <1>6, <1>7, <1>8, <1>9 DEF StatusOK

LEMMA StatusNext ==
  ASSUME Base, NumbersOK, StatusOK, [Next]_vars
  PROVE  StatusOK'
<1>1. CASE UNCHANGED vars
  <2>1. UNCHANGED <<mix, shell, queue, stdin, cmd, pc, result>>
    BY <1>1 DEF vars, history, pipes, session, return
  <2>2. \A x : Known(x)' => Known(x)
    BY <2>1 DEF Known
  <2>. QED BY <2>1, <2>2 DEF StatusOK, Sound, Ready, Leads, Own
<1>. QED BY <1>1, StepStatus, CalledStatus, ShellStatus DEF Next

------------------------------------------------------------------------------
(* Without a restart from outside, the owner of the lock alone touches the session. *)

\* Where the owner of the lock is.
Spot == IF lock = Nobody THEN "idle" ELSE pc[lock]

\* The attributes of the session belong together, but for the steps of stop() and start().
Attr ==
  /\ process = IF Spot \in {"check", "spawn"} THEN None ELSE spawned
  /\ Spot # "checkPoll"
  /\ Spot # "pipes" => stdin = spawned
  /\ Spot \notin {"clear", "check", "spawn"} => shell[spawned].open
  /\ Spot \notin {"pipes", "terminated", "queue"} => current = spawned
  /\ Spot \notin {"pipes", "terminated", "queue", "reader"} => reader = spawned /\ source[spawned] = spawned
  /\ spawned \in begun <=> Spot \notin Started
  /\ \A r \in Shell : source[r] \in {None, r}
  /\ Spot \in {"waiting", "kill", "killpg", "finally", "close", "clear"} \cup Started => on[lock] = spawned
  /\ Spot = "get" => on[lock] = spawned

LEMMA Placed ==
  ASSUME Base, "restart" \notin mix, NEW t \in Thread, Step(t)
  PROVE  /\ UNCHANGED <<mix, calls, cmd>> /\ Spot' = pc'[t]
         /\ \A u \in Thread : u # t => pc'[u] = pc[u]
         /\ \/ lock = t /\ Spot = pc[t] /\ pc[t] \notin {"idle", "run", "exit"}
            \/ lock = Nobody /\ Spot = "idle" /\ pc[t] \in {"run", "exit"} /\ pc'[t] \in {"writeRun", "writeExit"}
         /\ pc'[t] # "idle" => lock' = t
         /\ pc'[t] = "idle" => lock' = Nobody
<1>0. TypeOK /\ LockOK /\ Nobody \notin Thread
  BY ShellAssumption DEF Base
<1>1. /\ UNCHANGED history /\ pc[t] # "idle"
      /\ \A u \in Thread : u # t => pc'[u] = pc[u]
      /\ \/ UNCHANGED return /\ pc'[t] # "idle" /\ pc[t] \notin {"run", "exit"}
         \/ /\ pc[t] \in {"run", "exit"} /\ pc'[t] \in {"writeRun", "writeExit"}
            /\ lock = Nobody /\ lock' = t /\ result' = result
         \/ pc'[t] = "idle" /\ pc[t] \notin {"run", "exit"} /\ lock' = (IF lock = t THEN Nobody ELSE lock)
  BY <1>0, Moved
<1>2. pc[t] \notin {"run", "exit"} => lock = t
  <2>1. pc[t] \in Place
    BY <1>0 DEF TypeOK
  <2>. QED BY <1>0, <1>1, <2>1 DEF LockOK, Inside, Place
<1>3. UNCHANGED <<mix, calls, cmd>>
  BY <1>1 DEF history
<1>4. CASE UNCHANGED return /\ pc'[t] # "idle" /\ pc[t] \notin {"run", "exit"}
  BY <1>0, <1>1, <1>2, <1>3, <1>4 DEF Spot, return
<1>5. CASE /\ pc[t] \in {"run", "exit"} /\ pc'[t] \in {"writeRun", "writeExit"}
           /\ lock = Nobody /\ lock' = t
  BY <1>0, <1>1, <1>3, <1>5 DEF Spot
<1>6. CASE pc'[t] = "idle" /\ pc[t] \notin {"run", "exit"} /\ lock' = (IF lock = t THEN Nobody ELSE lock)
  BY <1>0, <1>1, <1>2, <1>3, <1>6 DEF Spot
<1>. QED BY <1>1, <1>4, <1>5, <1>6

LEMMA AttrStep ==
  ASSUME Base, "restart" \notin mix, Attr, NEW t \in Thread, Step(t)
  PROVE  Attr'
<1>0. /\ pc \in [Thread -> Place] /\ on \in [Thread -> 0 .. spawned] /\ source \in [Shell -> 0 .. spawned]
      /\ TypeOK /\ spawned # None /\ spawned \in Shell /\ stdin \in Shell /\ Nobody \notin Thread
      /\ begun \subseteq 1 .. spawned /\ spawned \in Nat /\ Shell \subseteq Nat
  BY Numbers, ShellAssumption DEF Base, TypeOK
<1>1. /\ Spot' = pc'[t]
      /\ \/ lock = t /\ Spot = pc[t] /\ pc[t] \notin {"idle", "run", "exit"}
         \/ lock = Nobody /\ Spot = "idle" /\ pc[t] \in {"run", "exit"} /\ pc'[t] \in {"writeRun", "writeExit"}
      /\ pc'[t] # "idle" => lock' = t
      /\ pc'[t] = "idle" => lock' = Nobody
  BY Placed
<1>2. \A how, code : Return(t, how, code) => pc'[t] = "idle"
  BY <1>0 DEF Return, Goto
<1>3. \A p : Go(t, p) => pc'[t] = p
  BY <1>0 DEF Go, Goto
<1>4. ASSUME ~Close(t), NEW g \in Shell PROVE (shell'[g].open <=> shell[g].open)
  <2>1. \/ shell' = shell
        \/ KillGroup(t) /\ Running /\ process \in Shell /\ DiesAt(process)
        \/ \E item \in Item : WrittenAt(stdin, item)
    BY <1>0, <1>4, Shells
  <2>. QED BY <2>1 DEF DiesAt, WrittenAt, OnlyAt
<1>5. CASE \E kind \in {"run", "exit"} : Lock(t, kind)
  <2>1. UNCHANGED <<session, threads, on, shell>> /\ pc[t] \in {"run", "exit"}
    BY <1>5 DEF Lock
  <2>2. Spot = "idle" /\ pc'[t] \in {"writeRun", "writeExit"}
    BY <1>1, <2>1
  <2>. QED BY <1>1, <2>1, <2>2 DEF Attr, Started, session, threads
<1>6. ASSUME NEW item, NEW next, NEW broken, Write(t, item, next, broken), ~Close(t)
      PROVE  UNCHANGED <<session, threads, on>> /\ pc'[t] \in {next, broken, "idle"}
             /\ (shell'[spawned].open <=> shell[spawned].open)
  <2>1. UNCHANGED <<session, threads, on>> /\ pc'[t] \in {next, broken, "idle"}
    BY <1>2, <1>3, <1>6 DEF Write, Raise
  <2>. QED BY <1>0, <1>4, <1>6, <2>1
<1>7. CASE (\E kind \in {"run", "exit"} : WriteCommand(t, kind)) \/ WriteMarker(t) \/ StopAsk(t)
  <2>1. ~Close(t)
    BY <1>7 DEF Close, WriteCommand, WriteMarker, StopAsk, Writing
  <2>2. /\ pc[t] \in {"writeRun", "writeExit", "writeMarker", "writeBye"}
        /\ pc'[t] \in {"writeMarker", "ended", "flush", "flushExit", "wait", "idle"}
        /\ UNCHANGED <<session, threads, on>> /\ (shell'[spawned].open <=> shell[spawned].open)
    BY <1>6, <1>7, <2>1 DEF WriteCommand, WriteMarker, StopAsk, Writing
  <2>. QED BY <1>1, <2>2 DEF Attr, Started, session, threads
<1>8. CASE Flush(t) \/ CollectAfterExit(t) \/ PollCode(t) \/ StopLooks(t) \/ StopWaited(t) \/ Kill(t)
  <2>1. UNCHANGED <<session, threads, on, shell>>
    BY <1>8 DEF Flush, CollectAfterExit, PollCode, StopLooks, StopWaited, Kill, Quiet, pipes
  <2>2. CASE Flush(t) \/ CollectAfterExit(t) \/ PollCode(t)
    <3>1. pc[t] \in {"flush", "flushExit", "ended", "code"} /\ pc'[t] \in {"look", "wait", "code", "idle"}
      BY <1>2, <1>3, <2>2 DEF Flush, CollectAfterExit, PollCode, Raise
    <3>. QED BY <1>1, <2>1, <3>1 DEF Attr, Started, session, threads
  <2>3. CASE StopLooks(t)
    <3>1. pc[t] \in {"stop", "poll", "ask"} /\ process = spawned
      BY <1>1, <2>3 DEF StopLooks, Attr
    <3>2. pc'[t] \in {"poll", "ask", "wait", "writeBye"}
      BY <1>0, <1>3, <2>3, <3>1 DEF StopLooks
    <3>. QED BY <1>1, <2>1, <3>1, <3>2 DEF Attr, Started, session, threads
  <2>4. CASE StopWaited(t) \/ Kill(t)
    <3>1. pc[t] \in {"waiting", "kill"} /\ pc'[t] \in {"kill", "killpg", "finally"}
      BY <1>3, <2>4 DEF StopWaited, Kill
    <3>. QED BY <1>1, <2>1, <3>1 DEF Attr, Started, session, threads
  <2>. QED BY <1>8, <2>2, <2>3, <2>4
<1>9. CASE Look(t) \/ Get(t) \/ TimeOut(t) \/ StopWait(t)
  <2>1. UNCHANGED <<session, threads, shell>>
    BY <1>9 DEF Look, Get, TimeOut, StopWait, pipes
  <2>2. CASE Look(t)
    <3>1. pc[t] = "look" /\ pc'[t] = "get" /\ on' = [on EXCEPT ![t] = current]
      BY <1>3, <2>2 DEF Look
    <3>2. on'[t] = spawned
      BY <1>0, <1>1, <3>1 DEF Attr
    <3>. QED BY <1>1, <2>1, <3>1, <3>2 DEF Attr, Started, session, threads
  <2>3. CASE Get(t) \/ TimeOut(t)
    <3>1. pc[t] \in {"look", "get"} /\ pc'[t] \in {"idle", "look", "stop"}
      BY <1>2, <1>3, <2>3 DEF Get, TimeOut
    <3>. QED BY <1>1, <2>1, <3>1 DEF Attr, Started, session, threads
  <2>4. CASE StopWait(t)
    <3>1. pc[t] = "wait" /\ on' = [on EXCEPT ![t] = process] /\ process = spawned
      BY <1>1, <2>4 DEF StopWait, Attr
    <3>2. pc'[t] = "waiting" /\ on'[t] = spawned
      BY <1>0, <1>3, <2>4, <3>1 DEF StopWait
    <3>. QED BY <1>1, <2>1, <3>1, <3>2 DEF Attr, Started, session, threads
  <2>. QED BY <1>9, <2>2, <2>3, <2>4
<1>10. CASE KillGroup(t)
  <2>1. /\ pc[t] = "killpg" /\ pc'[t] = "finally" /\ UNCHANGED <<session, threads>>
        /\ on' = [on EXCEPT ![t] = process] /\ ~Close(t)
    BY <1>3, <1>10 DEF KillGroup, Close
  <2>2. process = spawned /\ on'[t] = spawned /\ (shell'[spawned].open <=> shell[spawned].open)
    BY <1>0, <1>1, <1>4, <2>1 DEF Attr
  <2>. QED BY <1>1, <2>1, <2>2 DEF Attr, Started, session, threads
<1>11. CASE SetTerminated(t) \/ Close(t) \/ Clear(t)
  <2>1. CASE SetTerminated(t)
    <3>1. /\ pc[t] = "finally" /\ pc'[t] = "close"
          /\ UNCHANGED <<shell, spawned, process, stdin, current, threads, on>>
      BY <1>3, <2>1 DEF SetTerminated, pipes
    <3>. QED BY <1>1, <3>1 DEF Attr, Started, threads
  <2>2. CASE Close(t)
    <3>1. pc[t] = "close" /\ pc'[t] = "clear" /\ UNCHANGED <<session, threads, on>>
      BY <1>3, <2>2 DEF Close
    <3>. QED BY <1>1, <3>1 DEF Attr, Started, session, threads
  <2>3. CASE Clear(t)
    <3>1. /\ pc[t] = "clear" /\ process' = None
          /\ UNCHANGED <<shell, spawned, stdin, current, threads, on>>
      BY <2>3 DEF Clear, pipes
    <3>2. on[t] = spawned
      BY <1>1, <3>1 DEF Attr
    <3>3. pc'[t] = "check"
      BY <1>0, <1>3, <2>3, <3>2 DEF Clear
    <3>. QED BY <1>1, <3>1, <3>2, <3>3 DEF Attr, Started, threads
  <2>. QED BY <1>11, <2>1, <2>2, <2>3
<1>12. CASE StartCheck(t) \/ StartPoll(t) \/ SetStderr(t)
  <2>1. UNCHANGED <<session, threads, on, shell>>
    BY <1>12 DEF StartCheck, StartPoll, SetStderr, Quiet, pipes
  <2>2. ~StartPoll(t)
    BY <1>1 DEF StartPoll, Attr
  <2>3. \/ pc[t] = "check" /\ process = None /\ pc'[t] = "spawn"
        \/ pc[t] = "stderr" /\ process = spawned /\ pc'[t] = "start"
    BY <1>0, <1>1, <1>3, <1>12, <2>2 DEF StartCheck, SetStderr, Attr
  <2>. QED BY <1>1, <2>1, <2>3 DEF Attr, Started, session, threads
<1>13. CASE Spawn(t)
  <2>1. /\ pc[t] = "spawn" /\ pc'[t] = "pipes" /\ spawned' = spawned + 1 /\ process' = spawned'
        /\ on' = [on EXCEPT ![t] = spawned'] /\ UNCHANGED <<shell, stdin, current, threads>>
    BY <1>3, <1>13 DEF Spawn, pipes
  <2>2. spawned' \in Shell /\ spawned' > spawned /\ spawned' # None
    BY <1>0, <2>1, Room DEF None
  <2>3. shell[spawned'] = Fresh /\ spawned' \notin begun /\ on'[t] = spawned'
    BY <1>0, <2>1, <2>2 DEF Base, FreshOK
  <2>4. \A r \in Shell : source'[r] \in {None, r}
    BY <2>1 DEF Attr, threads
  <2>5. shell'[spawned'].open
    BY <2>1, <2>3 DEF Fresh
  <2>. QED BY <1>1, <2>1, <2>2, <2>3, <2>4, <2>5 DEF Attr, Started, threads
<1>14. CASE SetStdin(t) \/ Reset(t) \/ SetQueue(t)
  <2>1. /\ pc[t] \in {"pipes", "terminated", "queue"} /\ process = spawned /\ on[t] = spawned
        /\ UNCHANGED <<spawned, process, threads, on, shell>>
    BY <1>1, <1>14 DEF SetStdin, Reset, SetQueue, Attr, Started, pipes
  <2>2. CASE SetStdin(t)
    <3>1. /\ pc[t] = "pipes" /\ pc'[t] = "terminated" /\ stdin' = spawned /\ current' = current
      BY <1>0, <1>3, <2>1, <2>2 DEF SetStdin
    <3>. QED BY <1>1, <2>1, <3>1 DEF Attr, Started, threads
  <2>3. CASE Reset(t)
    <3>1. /\ pc[t] = "terminated" /\ pc'[t] = "queue" /\ UNCHANGED <<stdin, current>>
      BY <1>3, <2>3 DEF Reset
    <3>. QED BY <1>1, <2>1, <3>1 DEF Attr, Started, threads
  <2>4. CASE SetQueue(t)
    <3>1. /\ pc[t] = "queue" /\ pc'[t] = "reader" /\ stdin' = stdin /\ current' = spawned
      BY <1>3, <2>1, <2>4 DEF SetQueue
    <3>. QED BY <1>1, <2>1, <3>1 DEF Attr, Started, threads
  <2>. QED BY <1>14, <2>2, <2>3, <2>4
<1>15. CASE SetReader(t) \/ StartReader(t)
  <2>1. /\ pc[t] \in {"reader", "start"} /\ process = spawned /\ on[t] = spawned
        /\ UNCHANGED <<session, on, shell>>
    BY <1>1, <1>15 DEF SetReader, StartReader, Attr, Started, pipes
  <2>2. CASE SetReader(t)
    <3>1. /\ pc[t] = "reader" /\ pc'[t] = "stderr" /\ reader' = spawned
          /\ source' = [source EXCEPT ![spawned] = spawned] /\ begun' = begun
      BY <1>0, <1>3, <2>1, <2>2 DEF SetReader
    <3>2. source'[spawned] = spawned /\ \A r \in Shell : source'[r] \in {None, r}
      BY <1>0, <3>1 DEF Attr
    <3>. QED BY <1>1, <2>1, <3>1, <3>2 DEF Attr, Started, session
  <2>3. CASE StartReader(t)
    <3>1. /\ pc[t] = "start" /\ begun' = begun \cup {reader} /\ reader = spawned /\ UNCHANGED <<reader, source>>
      BY <1>1, <2>3 DEF StartReader, Attr
    <3>2. pc'[t] = "idle"
      BY <1>2, <2>3 DEF StartReader, Raise, Restarted
    <3>. QED BY <1>1, <2>1, <3>1, <3>2 DEF Attr, Started, session
  <2>. QED BY <1>15, <2>2, <2>3
<1>. QED BY <1>5, <1>7, <1>8, <1>9, <1>10, <1>11, <1>12, <1>13, <1>14, <1>15 DEF Step, Stop, Start

LEMMA AttrNext ==
  ASSUME Base, "restart" \notin mix => Attr, [Next]_vars, "restart" \notin mix'
  PROVE  "restart" \notin mix /\ Attr'
<1>0. TypeOK /\ LockOK /\ spawned \in Shell
  BY Numbers DEF Base
<1>1. ASSUME NEW t \in Thread, Execute(t) \/ Restart(t) PROVE "restart" \notin mix /\ Attr'
  <2>1. /\ pc[t] = "idle" /\ UNCHANGED <<pipes, session, threads>>
        /\ (lock' = lock \/ lock = t) /\ mix \subseteq mix'
        /\ \A u \in Thread : u # t => pc'[u] = pc[u] /\ on'[u] = on[u]
    <3>1. on \in [Thread -> 0 .. spawned]
      BY <1>0 DEF TypeOK
    <3>. QED BY <1>0, <1>1, <3>1, Called
  <2>2. lock # t /\ lock \in Thread \cup {Nobody}
    BY <1>0, <2>1, Sides DEF LockOK, TypeOK
  <2>3. lock' = lock /\ Spot' = Spot
    BY <2>1, <2>2 DEF Spot
  <2>4. "restart" \notin mix /\ (lock \in Thread => on'[lock] = on[lock])
    BY <2>1, <2>2
  <2>5. lock = Nobody => Spot = "idle"
    BY DEF Spot
  <2>. QED BY <2>1, <2>2, <2>3, <2>4, <2>5 DEF Attr, Started, pipes, session, threads
<1>2. ASSUME NEW t \in Thread, Step(t) PROVE "restart" \notin mix /\ Attr'
  <2>1. mix' = mix
    BY <1>0, <1>2, Moved DEF history
  <2>. QED BY <1>2, <2>1, AttrStep
<1>3. ASSUME NEW g \in Shell, ShellReads(g) \/ ShellEnds(g) \/ Read(g) PROVE "restart" \notin mix /\ Attr'
  <2>1. UNCHANGED <<history, session, threads, return, pc, on>>
    BY <1>0, <1>3, ShellSources
  <2>2. (shell'[spawned].open <=> shell[spawned].open)
    <3>1. \/ \E item \in Item, line \in Printed : PrintsAt(g, item, line)
          \/ DiesAt(g)
          \/ \E i \in DOMAIN shell[g].out : ReadAt(g, i)
      BY <1>0, <1>3, ShellMoves, ReaderMoves
    <3>. QED BY <1>0, <3>1 DEF PrintsAt, DiesAt, ReadAt, OnlyAt
  <2>3. Spot' = Spot
    BY <2>1 DEF Spot, return
  <2>. QED BY <2>1, <2>2, <2>3 DEF Attr, session, threads, return, history
<1>4. CASE UNCHANGED vars
  <2>1. UNCHANGED <<mix, session, threads, return, pc, on, shell>>
    BY <1>4 DEF vars, history, pipes
  <2>2. Spot' = Spot
    BY <2>1 DEF Spot, return
  <2>. QED BY <2>1, <2>2 DEF Attr, session, threads, return
<1>. QED BY <1>1, <1>2, <1>3, <1>4 DEF Next

Over == {"finally", "close", "clear", "check", "spawn", "ended", "code"}

Reported(n) == \E line \in Printed : Known(line) /\ line.kind = "done" /\ line.of = n

\* Only the last shell runs, and it does not when it is given up; it has nothing to read when
\* the lock is free; a marker that is waited for is the last thing that it reads.
Sess ==
  /\ \A g \in 1 .. spawned : g # spawned => ~shell[g].alive
  /\ \A g \in Shell : ~shell[g].alive => shell[g].input = << >>
  /\ Spot \in Over => ~shell[spawned].alive
  /\ Spot \in {"idle", "writeRun", "writeExit"} \cup Started => shell[spawned].input = << >>
  /\ Spot \in {"flush", "look", "get"} =>
       /\ Reported(cmd[lock]) => shell[spawned].input = << >>
       /\ \A i \in DOMAIN shell[spawned].input :
            shell[spawned].input[i] = Marker(cmd[lock]) => i = Len(shell[spawned].input)

\* Where a step of the owner leaves it, and the shell of the session.
LEMMA Onward ==
  ASSUME Base, "restart" \notin mix, Attr, NEW t \in Thread, Step(t)
  PROVE  /\ pc'[t] \in Over =>
              \/ pc[t] \in Over
              \/ ~shell'[spawned].alive
         /\ pc'[t] \in Over \cup {"look", "get"} => spawned' = spawned
         /\ pc'[t] \in {"look", "get"} => pc[t] \in {"flush", "look", "get"} /\ shell' = shell
         /\ pc'[t] = "flush" => WrittenAt(spawned, Marker(cmd[t])) /\ pc[t] = "writeMarker" /\ spawned' = spawned
         /\ pc'[t] \in {"idle", "writeRun", "writeExit"} \cup Started =>
              \/ spawned' = spawned + 1 /\ spawned' \in Shell /\ shell' = shell
              \/ /\ spawned' = spawned /\ shell' = shell
                 /\ \/ pc[t] \in Over \cup Started \/ Spot = "idle"
                    \/ pc[t] = "get" /\ Reported(cmd[t])
<1>0. /\ pc \in [Thread -> Place] /\ shell \in [Shell -> Process] /\ spawned # None /\ spawned \in Shell
      /\ TypeOK /\ LockOK /\ cmd[t] \in Command
  BY Numbers, Typed DEF Base, TypeOK
<1>1. /\ Spot' = pc'[t]
      /\ \/ lock = t /\ Spot = pc[t] /\ pc[t] \notin {"idle", "run", "exit"}
         \/ lock = Nobody /\ Spot = "idle" /\ pc[t] \in {"run", "exit"} /\ pc'[t] \in {"writeRun", "writeExit"}
  BY Placed
<1>2. \A how, code : Return(t, how, code) => pc'[t] = "idle"
  BY <1>0 DEF Return, Goto
<1>3. \A p : Go(t, p) => pc'[t] = p
  BY <1>0 DEF Go, Goto
<1>4. CASE \E kind \in {"run", "exit"} : Lock(t, kind)
  <2>1. UNCHANGED <<session, shell>> /\ pc[t] \in {"run", "exit"} /\ pc'[t] \in {"writeRun", "writeExit"}
    BY <1>1, <1>4 DEF Lock
  <2>2. Spot = "idle"
    BY <1>1, <2>1
  <2>. QED BY <2>1, <2>2 DEF Over, Started, session
<1>5. ASSUME NEW item \in Item, NEW next, NEW broken, Write(t, item, next, broken),
             pc[t] \in {"writeRun", "writeExit", "writeMarker", "writeBye"}
      PROVE  /\ spawned' = spawned
             /\ \/ pc'[t] = broken /\ ~shell'[spawned].alive
                \/ pc'[t] = next /\ WrittenAt(spawned, item)
  <2>1. lock = t /\ Spot = pc[t] /\ stdin = spawned /\ shell[stdin].open
    BY <1>1, <1>5 DEF Attr
  <2>2. UNCHANGED session
    BY <1>5 DEF Write
  <2>3. CASE shell[stdin].alive
    <3>1. shell' = [shell EXCEPT ![stdin].input = Append(@, item)] /\ pc'[t] = next
      BY <1>3, <1>5, <2>1, <2>3 DEF Write
    <3>. DEFINE r == [shell[stdin] EXCEPT !.input = Append(@, item)]
    <3>2. /\ r.input = Append(shell[stdin].input, item) /\ r.alive = shell[stdin].alive
          /\ r.open = shell[stdin].open /\ r.status = shell[stdin].status /\ r.out = shell[stdin].out
      BY <1>0, <2>1 DEF Process
    <3>3. shell' = [shell EXCEPT ![stdin] = r]
      BY <3>1
    <3>. HIDE DEF r
    <3>. QED BY <1>0, <2>1, <2>2, <2>3, <3>1, <3>2, <3>3 DEF WrittenAt, OnlyAt, session
  <2>4. CASE ~shell[stdin].alive
    <3>1. shell' = shell /\ pc'[t] = broken
      <4>1. UNCHANGED shell /\ Go(t, broken)
        <5>1. /\ IF shell[stdin].open /\ shell[stdin].alive
                   THEN shell' = [shell EXCEPT ![stdin].input = Append(@, item)] /\ Go(t, next)
                   ELSE UNCHANGED shell /\ IF shell[stdin].open THEN Go(t, broken) ELSE Raise(t)
          BY <1>5 DEF Write
        <5>. QED BY <2>1, <2>4, <5>1
      <4>. QED BY <1>3, <4>1
    <3>2. spawned' = spawned
      BY <2>2 DEF session
    <3>3. shell'[spawned] = shell[stdin]
      BY <2>1, <3>1
    <3>4. ~shell'[spawned].alive
      BY <2>4, <3>3
    <3>. QED BY <3>1, <3>2, <3>4, Zenon
  <2>. QED BY <2>3, <2>4
<1>6. CASE \E kind \in {"run", "exit"} : WriteCommand(t, kind)
  <2>1. PICK kind \in {"run", "exit"} : WriteCommand(t, kind)
    BY <1>6
  <2>2. [do |-> kind, of |-> cmd[t]] \in Item
    BY <1>0 DEF Item
  <2>3. Write(t, [do |-> kind, of |-> cmd[t]], "writeMarker", "ended") /\ pc[t] \in {"writeRun", "writeExit"}
    BY <2>1 DEF WriteCommand, Writing
  <2>4. /\ spawned' = spawned
        /\ \/ pc'[t] = "ended" /\ ~shell'[spawned].alive
           \/ pc'[t] = "writeMarker"
    BY <1>5, <2>2, <2>3
  <2>. QED BY <2>4 DEF Over, Started
<1>7. CASE WriteMarker(t)
  <2>1. Marker(cmd[t]) \in Item
    BY <1>0 DEF Item, Marker
  <2>2. Write(t, Marker(cmd[t]), "flush", "ended") /\ pc[t] = "writeMarker"
    BY <1>7 DEF WriteMarker, Marker
  <2>3. /\ spawned' = spawned
        /\ \/ pc'[t] = "ended" /\ ~shell'[spawned].alive
           \/ pc'[t] = "flush" /\ WrittenAt(spawned, Marker(cmd[t]))
    BY <1>5, <2>1, <2>2
  <2>. QED BY <2>2, <2>3 DEF Over, Started
<1>8. CASE StopAsk(t)
  <2>1. [do |-> "bye", of |-> 0] \in Item
    BY <1>0, Numbers DEF Item, None
  <2>2. Write(t, [do |-> "bye", of |-> 0], "flushExit", "wait") /\ pc[t] = "writeBye"
    BY <1>8 DEF StopAsk
  <2>3. spawned' = spawned /\ pc'[t] \in {"flushExit", "wait"}
    BY <1>5, <2>1, <2>2
  <2>. QED BY <2>3 DEF Over, Started
<1>9. CASE Flush(t) \/ CollectAfterExit(t) \/ PollCode(t)
  <2>1. shell' = shell /\ spawned' = spawned
    BY <1>9 DEF Flush, CollectAfterExit, PollCode, Quiet, pipes, session
  <2>2. CASE Flush(t)
    <3>1. shell[stdin].open
      BY <1>1, <2>2 DEF Flush, Attr
    <3>2. pc[t] \in {"flush", "flushExit"} /\ pc'[t] \in {"look", "wait"} /\ (pc'[t] = "look" => pc[t] = "flush")
      BY <1>3, <2>2, <3>1 DEF Flush
    <3>. QED BY <2>1, <3>2 DEF Over, Started
  <2>3. CASE CollectAfterExit(t) \/ PollCode(t)
    <3>1. pc[t] \in {"ended", "code"} /\ pc'[t] \in {"code", "idle"}
      BY <1>2, <1>3, <2>3 DEF CollectAfterExit, PollCode, Raise
    <3>. QED BY <2>1, <3>1 DEF Over, Started
  <2>. QED BY <1>9, <2>2, <2>3
<1>10. CASE Look(t) \/ TimeOut(t)
  <2>1. shell' = shell /\ spawned' = spawned /\ ((pc'[t] = "get" /\ pc[t] = "look") \/ pc'[t] = "stop")
    BY <1>3, <1>10 DEF Look, TimeOut, pipes, session
  <2>. QED BY <2>1 DEF Over, Started
<1>11. CASE Get(t)
  <2>1. shell' = shell /\ spawned' = spawned /\ pc[t] = "get" /\ queue[on[t]] # << >>
    BY <1>11 DEF Get, session
  <2>2. on[t] \in Shell
    BY <1>0, <1>1, <2>1 DEF Attr
  <2>. DEFINE line == Head(queue[on[t]])
  <2>3. line \in Printed /\ line = queue[on[t]][1] /\ 1 \in DOMAIN queue[on[t]]
    BY <1>0, <2>1, <2>2, Tailed, Typed
  <2>4. (IsMarker(t, line) /\ pc'[t] = "idle") \/ pc'[t] = "look"
    <3>1. IF IsMarker(t, line) THEN Return(t, "code", line.code) /\ UNCHANGED output
          ELSE output' = [output EXCEPT ![t] = @ \cup {line}] /\ Go(t, "look")
      BY <1>11 DEF Get
    <3>. QED BY <1>2, <1>3, <3>1
  <2>. HIDE DEF line
  <2>5. IsMarker(t, line) => Reported(cmd[t])
    BY <2>2, <2>3 DEF IsMarker, Reported, Known
  <2>. QED BY <2>1, <2>4, <2>5 DEF Over, Started
<1>12. CASE StopLooks(t)
  <2>1. shell' = shell /\ spawned' = spawned
    BY <1>12 DEF StopLooks, Quiet, pipes, session
  <2>2. pc[t] \in {"stop", "poll", "ask"} /\ process = spawned
    BY <1>1, <1>12 DEF StopLooks, Attr
  <2>3. pc'[t] \in {"poll", "ask", "wait", "writeBye"}
    BY <1>0, <1>3, <1>12, <2>2 DEF StopLooks
  <2>. QED BY <2>1, <2>3 DEF Over, Started
<1>13. CASE StopWait(t) \/ StopWaited(t) \/ Kill(t)
  <2>1. shell' = shell /\ spawned' = spawned
    BY <1>13 DEF StopWait, StopWaited, Kill, Quiet, pipes, session
  <2>2. process = spawned /\ (pc[t] = "waiting" => on[t] = spawned)
    BY <1>1, <1>13 DEF StopWait, StopWaited, Kill, Attr
  <2>3. \/ pc'[t] \in {"waiting", "kill", "killpg"}
        \/ pc'[t] = "finally" /\ ~shell[spawned].alive
    BY <1>0, <1>3, <1>13, <2>2 DEF StopWait, StopWaited, Kill
  <2>. QED BY <2>1, <2>3 DEF Over, Started
<1>14. CASE KillGroup(t)
  <2>1. spawned' = spawned /\ pc[t] = "killpg" /\ pc'[t] = "finally"
        /\ shell' = IF Running THEN [shell EXCEPT ![process] = [Dead(@) EXCEPT !.status = 0]] ELSE shell
    BY <1>3, <1>14 DEF KillGroup, session
  <2>2. process = spawned
    BY <1>1, <2>1 DEF Attr
  <2>3. CASE Running
    <3>1. shell'[spawned] = [Dead(shell[spawned]) EXCEPT !.status = 0]
      BY <1>0, <2>1, <2>2, <2>3
    <3>2. shell[spawned] \in Process /\ Dead(shell[spawned]) \in Process /\ ~Dead(shell[spawned]).alive
      BY <1>0, Deaths
    <3>3. \A s \in Process : [s EXCEPT !.status = 0].alive = s.alive
      BY DEF Process
    <3>4. ~shell'[spawned].alive
      BY <3>1, <3>2, <3>3
    <3>. QED BY <2>1, <3>4 DEF Over, Started
  <2>4. CASE ~Running
    BY <1>0, <2>1, <2>2, <2>4 DEF Over, Started, Running
  <2>. QED BY <2>3, <2>4
<1>15. CASE SetTerminated(t) \/ Close(t)
  <2>1. spawned' = spawned /\ pc[t] \in {"finally", "close"} /\ pc'[t] \in {"close", "clear"}
    BY <1>3, <1>15 DEF SetTerminated, Close, session
  <2>. QED BY <2>1 DEF Over, Started
<1>16. CASE Clear(t) \/ StartCheck(t) \/ StartPoll(t)
  <2>1. shell' = shell /\ spawned' = spawned /\ pc[t] \in {"clear", "check", "checkPoll"}
    BY <1>16 DEF Clear, StartCheck, StartPoll, Quiet, pipes, session
  <2>2. pc[t] \in Over
    BY <1>1, <2>1 DEF Attr, Over
  <2>3. pc'[t] \notin {"look", "get", "flush"}
    BY <1>2, <1>3, <1>16 DEF Clear, StartCheck, StartPoll, Raise, Restarted
  <2>. QED BY <2>1, <2>2, <2>3
<1>17. CASE Spawn(t)
  <2>1. pc[t] = "spawn" /\ pc'[t] = "pipes" /\ spawned' = spawned + 1 /\ shell' = shell
    BY <1>3, <1>17 DEF Spawn, pipes
  <2>2. spawned + 1 \in Shell
    BY <2>1, Room
  <2>. QED BY <2>1, <2>2 DEF Over, Started
<1>18. CASE SetStdin(t) \/ Reset(t) \/ SetQueue(t) \/ SetReader(t) \/ SetStderr(t) \/ StartReader(t)
  <2>1. shell' = shell /\ spawned' = spawned /\ pc[t] \in Started
    BY <1>18 DEF SetStdin, Reset, SetQueue, SetReader, SetStderr, StartReader, Quiet, pipes, session, Started
  <2>2. pc'[t] \in Started \cup {"idle"}
    BY <1>2, <1>3, <1>18 DEF SetStdin, Reset, SetQueue, SetReader, SetStderr, StartReader, Raise, Restarted, Started
  <2>. QED BY <2>1, <2>2 DEF Over, Started
<1>. QED BY <1>4, <1>6, <1>7, <1>8, <1>9, <1>10, <1>11, <1>12, <1>13, <1>14, <1>15, <1>16, <1>17, <1>18
     DEF Step, Stop, Start

LEMMA SessStep ==
  ASSUME Base, NumbersOK, "restart" \notin mix, Attr, Sess, NEW t \in Thread, Step(t)
  PROVE  Sess'
<1>0. /\ spawned \in Shell /\ stdin \in Shell /\ TypeOK /\ LockOK /\ FreshOK /\ Shell \subseteq Nat /\ spawned \in Nat
      /\ shell \in [Shell -> Process] /\ 1 .. spawned \subseteq Shell
      /\ \A g \in Shell : shell[g].input \in Seq(Item)
  BY Numbers, Typed DEF Base, TypeOK
<1>1. /\ UNCHANGED <<mix, calls, cmd>> /\ Spot' = pc'[t]
      /\ \/ lock = t /\ Spot = pc[t] /\ pc[t] \notin {"idle", "run", "exit"}
         \/ lock = Nobody /\ Spot = "idle" /\ pc[t] \in {"run", "exit"} /\ pc'[t] \in {"writeRun", "writeExit"}
      /\ pc'[t] # "idle" => lock' = t
  BY Placed
<1>2. /\ pc'[t] \in Over => pc[t] \in Over \/ ~shell'[spawned].alive
      /\ pc'[t] \in Over \cup {"look", "get"} => spawned' = spawned
      /\ pc'[t] \in {"look", "get"} => pc[t] \in {"flush", "look", "get"} /\ shell' = shell
      /\ pc'[t] = "flush" => WrittenAt(spawned, Marker(cmd[t])) /\ pc[t] = "writeMarker" /\ spawned' = spawned
      /\ pc'[t] \in {"idle", "writeRun", "writeExit"} \cup Started =>
           \/ spawned' = spawned + 1 /\ spawned' \in Shell /\ shell' = shell
           \/ /\ spawned' = spawned /\ shell' = shell
              /\ \/ pc[t] \in Over \cup Started \/ Spot = "idle"
                 \/ pc[t] = "get" /\ Reported(cmd[t])
  BY Onward
<1>3. \A g \in Shell : /\ shell'[g].alive => shell[g].alive
                       /\ ~shell'[g].alive => \/ shell'[g].input = shell[g].input /\ ~shell[g].alive
                                              \/ shell'[g].input = << >>
  <2>1. \/ shell' = shell
        \/ OnlyAt(stdin) /\ shell'[stdin].input = shell[stdin].input /\ shell'[stdin].alive = shell[stdin].alive
        \/ \E g \in Shell : DiesAt(g)
        \/ \E item \in Item : WrittenAt(stdin, item)
    BY <1>0, Shells
  <2>. QED BY <2>1 DEF OnlyAt, DiesAt, WrittenAt
<1>4. \A g \in Shell : ~shell'[g].alive => shell'[g].input = << >>
  BY <1>3 DEF Sess
<1>5. \A g \in 1 .. spawned' : g # spawned' => ~shell'[g].alive
  <2>1. CASE spawned' = spawned
    BY <1>0, <1>3, <2>1 DEF Sess
  <2>2. CASE Spawn(t) /\ spawned' = spawned + 1
    <3>1. pc[t] = "spawn"
      BY <2>2 DEF Spawn
    <3>2. ~shell[spawned].alive
      BY <1>1, <3>1 DEF Sess, Over
    <3>3. \A g \in 1 .. spawned' : g # spawned' => g \in 1 .. spawned
      BY <1>0, <2>2
    <3>. QED BY <1>0, <1>3, <3>2, <3>3 DEF Sess
  <2>. QED BY <1>0, <2>1, <2>2, Attributes, Room
<1>6. pc'[t] \in Over => ~shell'[spawned'].alive
  BY <1>0, <1>1, <1>2, <1>3 DEF Sess, Over
<1>7. pc'[t] \in {"idle", "writeRun", "writeExit"} \cup Started => shell'[spawned'].input = << >>
  <2>. SUFFICES ASSUME pc'[t] \in {"idle", "writeRun", "writeExit"} \cup Started
                PROVE  shell'[spawned'].input = << >>
    OBVIOUS
  <2>1. CASE spawned' = spawned + 1 /\ spawned' \in Shell /\ shell' = shell
    BY <1>0, <2>1 DEF FreshOK, Fresh
  <2>2. CASE spawned' = spawned /\ shell' = shell /\ pc[t] \in Over \cup Started
    BY <1>0, <1>1, <2>2 DEF Sess, Over, Started
  <2>3. CASE spawned' = spawned /\ shell' = shell /\ Spot = "idle"
    BY <2>3 DEF Sess
  <2>4. CASE spawned' = spawned /\ shell' = shell /\ pc[t] = "get" /\ Reported(cmd[t])
    BY <1>1, <2>4 DEF Sess
  <2>. QED BY <1>2, <2>1, <2>2, <2>3, <2>4
<1>8. \A n : Reported(n)' => Reported(n)
  BY <1>0, StepSources DEF Reported
<1>9. ASSUME pc'[t] \in {"flush", "look", "get"}
      PROVE  /\ Reported(cmd[lock])' => shell'[spawned'].input = << >>
             /\ \A i \in DOMAIN shell'[spawned'].input :
                  shell'[spawned'].input[i] = Marker(cmd'[lock']) => i = Len(shell'[spawned'].input)
  <2>1. lock' = t /\ cmd' = cmd
    BY <1>1, <1>9
  <2>2. CASE pc'[t] \in {"look", "get"}
    <3>1. lock = t /\ Spot \in {"flush", "look", "get"} /\ shell' = shell /\ spawned' = spawned
      BY <1>1, <1>2, <2>2
    <3>2. PICK n : n = cmd[t]
      OBVIOUS
    <3>3. Reported(n)' => Reported(n)
      BY <1>8
    <3>. QED BY <2>1, <3>1, <3>2, <3>3 DEF Sess
  <2>3. CASE pc'[t] = "flush"
    <3>1. WrittenAt(spawned, Marker(cmd[t])) /\ pc[t] = "writeMarker" /\ spawned' = spawned
      BY <1>2, <2>3
    <3>2. ~Reported(cmd[t]) /\ ~Given(Marker(cmd[t]))
      BY <3>1 DEF NumbersOK, Unmarked, Reported
    <3>3. PICK n : n = cmd[t]
      OBVIOUS
    <3>4. ~Reported(n)'
      BY <1>8, <3>2, <3>3
    <3>5. Marker(n) \in Item /\ shell[spawned].input \in Seq(Item)
          /\ shell'[spawned].input = Append(shell[spawned].input, Marker(n))
      BY <1>0, <3>1, <3>3, Typed DEF WrittenAt, Marker, Item
    <3>6. \A i \in DOMAIN Append(shell[spawned].input, Marker(n)) :
            \/ i \in DOMAIN shell[spawned].input
                 /\ Append(shell[spawned].input, Marker(n))[i] = shell[spawned].input[i]
            \/ i = Len(Append(shell[spawned].input, Marker(n)))
      BY <3>5, AppendedWhere
    <3>7. \A i \in DOMAIN shell[spawned].input : shell[spawned].input[i] # Marker(n)
      BY <1>0, <3>2, <3>3 DEF Given
    <3>8. \A i \in DOMAIN shell'[spawned].input :
            shell'[spawned].input[i] = Marker(n) => i = Len(shell'[spawned].input)
      BY <3>5, <3>6, <3>7
    <3>. QED BY <2>1, <3>1, <3>3, <3>4, <3>8
  <2>. QED BY <1>9, <2>2, <2>3
<1>. QED BY <1>1, <1>4, <1>5, <1>6, <1>7, <1>9 DEF Sess

\* A record of Item is its fields.
LEMMA MarkerIs ==
  ASSUME NEW item \in Item, item.do = "marker"
  PROVE  item = Marker(item.of)
BY DEF Item, Marker

LEMMA SessShell ==
  ASSUME Base, "restart" \notin mix, Sess, NEW g \in Shell, ShellReads(g) \/ ShellEnds(g) \/ Read(g)
  PROVE  Sess'
<1>0. /\ spawned \in Shell /\ TypeOK /\ Nobody \notin Thread /\ lock \in Thread \cup {Nobody}
      /\ \A h \in Shell : shell[h].input \in Seq(Item)
      /\ 1 .. spawned \subseteq Shell /\ Shell \subseteq Nat /\ spawned \in Nat
  BY Numbers, Typed, ShellAssumption DEF Base, TypeOK
<1>1. /\ UNCHANGED <<history, session, threads, return, pc, on>>
      /\ \A line \in Printed :
           Known(line)' => Known(line) \/ \E item \in Item : Given(item) /\ PrintsAt(g, item, line)
  BY <1>0, ShellSources
<1>2. Spot' = Spot /\ spawned' = spawned /\ lock' = lock /\ cmd' = cmd /\ mix' = mix
  BY <1>1 DEF Spot, return, session, history
<1>3. \A line \in Printed, item \in Item : PrintsAt(g, item, line) /\ line.kind = "done" => item = Marker(line.of)
  BY MarkerIs DEF PrintsAt, Line
<1>4. ASSUME \/ DiesAt(g)
             \/ \A h \in Shell : shell'[h].input = shell[h].input /\ shell'[h].alive = shell[h].alive,
             ~ \E item \in Item, line \in Printed : PrintsAt(g, item, line)
      PROVE  Sess'
  <2>1. \A n : Reported(n)' => Reported(n)
    BY <1>1, <1>4 DEF Reported
  <2>2. \A h \in Shell : /\ shell'[h].input = shell[h].input \/ shell'[h].input = << >>
                         /\ shell'[h].alive => shell[h].alive
                         /\ shell[h].input = << >> => shell'[h].input = << >>
                         /\ ~shell'[h].alive => ~shell[h].alive \/ shell'[h].input = << >>
    BY <1>4 DEF DiesAt, OnlyAt
  <2>3. PICK n : n = cmd[lock]
    OBVIOUS
  <2>4. Reported(n)' => Reported(n)
    BY <2>1
  <2>5. Reported(cmd[lock])' => Reported(n)
    BY <1>2, <2>3, <2>4
  <2>6. Spot \in {"flush", "look", "get"} =>
          \A i \in DOMAIN shell'[spawned].input :
            shell'[spawned].input[i] = Marker(cmd[lock]) => i = Len(shell'[spawned].input)
    BY <1>0, <2>2 DEF Sess
  <2>. QED BY <1>0, <1>2, <2>2, <2>3, <2>5, <2>6 DEF Sess
<1>5. ASSUME NEW item \in Item, NEW line \in Printed, PrintsAt(g, item, line)
      PROVE  Sess'
  <2>1. g = spawned
    <3>1. g > spawned => shell[g].input = << >>
      BY DEF Base, FreshOK, Fresh
    <3>2. shell[g].input # << >> /\ shell[g].alive
      BY <1>5 DEF PrintsAt
    <3>3. g \in 1 .. spawned
      BY <1>0, <3>1, <3>2 DEF Shell
    <3>. QED BY <3>2, <3>3 DEF Sess
  <2>. DEFINE q == shell[spawned].input
  <2>2. /\ OnlyAt(spawned) /\ shell[spawned].alive /\ q # << >> /\ item = Head(q)
        /\ shell'[spawned].input = Tail(q) /\ shell'[spawned].alive
    BY <1>5, <2>1 DEF PrintsAt
  <2>3. /\ Head(q) = q[1] /\ Tail(q) \in Seq(Item) /\ Len(Tail(q)) = Len(q) - 1 /\ Len(q) \in Nat \ {0}
        /\ DOMAIN Tail(q) = 1 .. Len(q) - 1 /\ DOMAIN q = 1 .. Len(q)
        /\ \A i \in 1 .. Len(q) - 1 : Tail(q)[i] = q[i + 1]
    BY <1>0, <2>2, Tailed
  <2>4. Spot \notin Over \cup {"idle", "writeRun", "writeExit"} \cup Started
    BY <2>2 DEF Sess
  <2>5. ASSUME Spot \in {"flush", "look", "get"}
        PROVE  /\ Reported(cmd[lock])' => Tail(q) = << >>
               /\ \A i \in DOMAIN Tail(q) : Tail(q)[i] = Marker(cmd[lock]) => i = Len(Tail(q))
    <3>1. PICK n : n = cmd[lock]
      OBVIOUS
    <3>2. ~Reported(n) /\ \A i \in DOMAIN q : q[i] = Marker(n) => i = Len(q)
      BY <2>2, <2>5, <3>1 DEF Sess
    <3>3. ASSUME NEW l \in Printed, Known(l)', l.kind = "done", l.of = n
          PROVE  Tail(q) = << >>
      <4>1. ~Known(l)
        BY <3>2, <3>3 DEF Reported
      <4>2. PICK i \in Item : PrintsAt(g, i, l)
        BY <1>1, <3>3, <4>1
      <4>3. i = Marker(n) /\ i = Head(q)
        BY <1>3, <2>1, <3>3, <4>2 DEF PrintsAt
      <4>. HIDE DEF q
      <4>4. Len(q) = 1
        BY <2>3, <3>2, <4>3
      <4>. QED BY <2>3, <4>4, Emptied
    <3>4. Reported(n)' => Tail(q) = << >>
      BY <3>3 DEF Reported
    <3>5. Reported(cmd[lock])' => Reported(n)'
      BY <1>2, <3>1
    <3>. HIDE DEF q
    <3>. QED BY <2>3, <3>1, <3>2, <3>4, <3>5
  <2>6. Spot \in {"flush", "look", "get"} =>
          /\ Reported(cmd[lock])' => shell'[spawned].input = << >>
          /\ \A i \in DOMAIN shell'[spawned].input :
               shell'[spawned].input[i] = Marker(cmd[lock]) => i = Len(shell'[spawned].input)
    BY <2>2, <2>5
  <2>7. \A h \in Shell : h # spawned => shell'[h] = shell[h]
    BY <2>2 DEF OnlyAt
  <2>. HIDE DEF q
  <2>. QED BY <1>0, <1>2, <2>2, <2>4, <2>6, <2>7 DEF Sess
<1>6. CASE ShellReads(g) \/ ShellEnds(g)
  <2>1. DiesAt(g) => ~ \E item \in Item, line \in Printed : PrintsAt(g, item, line)
    BY DEF DiesAt, PrintsAt
  <2>2. (\E item \in Item, line \in Printed : PrintsAt(g, item, line)) \/ DiesAt(g)
    BY <1>0, <1>6, ShellMoves
  <2>. QED BY <1>4, <1>5, <2>1, <2>2
<1>7. CASE Read(g)
  <2>1. PICK i \in DOMAIN shell[g].out : ReadAt(g, i)
    BY <1>0, <1>7, ReaderMoves
  <2>2. \A h \in Shell : shell'[h].input = shell[h].input /\ shell'[h].alive = shell[h].alive
    BY <2>1 DEF ReadAt, OnlyAt
  <2>. QED BY <1>4, <1>5, <2>2
<1>. QED BY <1>6, <1>7

LEMMA SessNext ==
  ASSUME Base, NumbersOK, "restart" \notin mix, Attr, Sess, [Next]_vars, "restart" \notin mix'
  PROVE  Sess'
<1>0. TypeOK /\ LockOK /\ Nobody \notin Thread /\ lock \in Thread \cup {Nobody}
  BY ShellAssumption DEF Base, TypeOK
<1>1. ASSUME UNCHANGED <<pipes, session>>, Spot' = Spot, lock' = lock, lock \in Thread => cmd'[lock] = cmd[lock]
      PROVE  Sess'
  <2>1. \A n : Reported(n)' = Reported(n)
    BY <1>1 DEF Reported, Known, pipes
  <2>2. PICK n : n = cmd[lock]
    OBVIOUS
  <2>3. Reported(n)' => Reported(n)
    BY <2>1
  <2>4. Spot \in {"flush", "look", "get"} => cmd'[lock] = n
    BY <1>0, <1>1, <2>2 DEF Spot
  <2>5. Spot \in {"flush", "look", "get"} /\ Reported(cmd[lock])' => Reported(n)
    BY <1>1, <2>3, <2>4
  <2>. QED BY <1>1, <2>2, <2>4, <2>5 DEF Sess, pipes, session
<1>2. ASSUME NEW t \in Thread, Execute(t) \/ Restart(t) PROVE Sess'
  <2>1. /\ pc[t] = "idle" /\ UNCHANGED <<pipes, session>>
        /\ lock' = lock \/ lock = t
        /\ \A u \in Thread : u # t => pc'[u] = pc[u] /\ cmd'[u] = cmd[u]
    BY <1>0, <1>2, Called
  <2>2. lock # t /\ lock \in Thread \cup {Nobody}
    BY <1>0, <2>1, Sides DEF LockOK, TypeOK
  <2>3. Spot' = Spot
    BY <2>1, <2>2 DEF Spot
  <2>. QED BY <1>1, <2>1, <2>2, <2>3
<1>3. CASE UNCHANGED vars
  <2>1. UNCHANGED <<pipes, session, lock, pc, cmd>>
    BY <1>3 DEF vars, return, history
  <2>2. Spot' = Spot
    BY <2>1 DEF Spot
  <2>. QED BY <1>1, <2>1, <2>2
<1>. QED BY <1>2, <1>3, SessStep, SessShell DEF Next

------------------------------------------------------------------------------
(* The invariant. *)

IInv == Base /\ NumbersOK /\ StatusOK /\ ("restart" \notin mix => Attr /\ Sess)

LEMMA InitIInv ==
  ASSUME Init
  PROVE  IInv
<1>0. Base /\ 1 \in Shell /\ MaxCalls \in Nat
  BY InitBase, ShellAssumption DEF Shell
<1>1. /\ spawned = 1 /\ process = 1 /\ stdin = 1 /\ current = 1 /\ reader = 1 /\ begun = {1}
      /\ lock = Nobody /\ Spot = "idle" /\ calls = 0
      /\ source = [g \in Shell |-> IF g = 1 THEN 1 ELSE None]
      /\ \A g \in Shell : shell[g] = Fresh /\ queue[g] = << >>
      /\ \A t \in Thread : pc[t] = "idle" /\ cmd[t] = 0 /\ result[t] = Pending
  BY DEF Init, Spot
<1>2. /\ Fresh.input = << >> /\ Fresh.out = << >> /\ Fresh.alive /\ Fresh.open /\ DOMAIN << >> = {}
      /\ Pending.how # "code"
  BY DEF Fresh, Pending
<1>3. (\A x : ~Given(x)) /\ \A x : ~Known(x)
  BY <1>1, <1>2 DEF Given, Known
<1>4. NumbersOK
  BY <1>1, <1>3 DEF NumbersOK, Unmarked
<1>5. StatusOK
  BY <1>1, <1>2, <1>3 DEF StatusOK, Sound
<1>6. Attr
  BY <1>0, <1>1, <1>2 DEF Attr, Started
<1>7. Sess
  BY <1>0, <1>1, <1>2 DEF Sess, Over, Started
<1>. QED BY <1>0, <1>4, <1>5, <1>6, <1>7 DEF IInv

LEMMA NextIInv ==
  ASSUME IInv, [Next]_vars
  PROVE  IInv'
<1>1. Base' /\ NumbersOK' /\ StatusOK'
  BY NextBase, NumbersNext, StatusNext DEF IInv
<1>2. ASSUME "restart" \notin mix' PROVE "restart" \notin mix /\ Attr' /\ Sess'
  BY <1>2, AttrNext, SessNext DEF IInv
<1>. QED BY <1>1, <1>2 DEF IInv

\* The inductive invariant holds always: numbers tell the markers of commands apart, whoever
\* stops and starts the session in between; and as long as nobody restarts it from outside,
\* its attributes belong to one process, the only one that runs, but for the steps of the one
\* call that has the lock.
THEOREM Invariance == Spec => []IInv
<1>1. Init => IInv
  BY InitIInv
<1>2. IInv /\ [Next]_vars => IInv'
  BY NextIInv
<1>. QED BY <1>1, <1>2, PTL DEF Spec

\* Every variable keeps its type.  In particular the process of the session, when it has one,
\* is the last that was spawned, whatever two calls of restart() do at once; its stdin, its
\* queue and its reader may be those of an older one.
THEOREM ShellTypes == Spec => []TypeOK
<1>1. IInv => TypeOK
  BY DEF IInv, Base
<1>. QED BY <1>1, Invariance, PTL

\* execute() returns the exit code of its own command, however many threads there are; only
\* when restart() was called from outside may it be the 0 of a fresh shell instead.
THEOREM CodesAreOwn == Spec => []CodeIsOwn
<1>1. IInv => CodeIsOwn
  BY DEF IInv, StatusOK, Own, CodeIsOwn
<1>. QED BY <1>1, Invariance, PTL

\* Under the lock alone, a command is written only to a shell that has done with every
\* earlier one.
THEOREM ShellsAreFree == Spec => []ShellIsFree
<1>1. ASSUME IInv PROVE ShellIsFree
  <2>. SUFFICES ASSUME NEW t \in Thread, pc[t] \in {"writeRun", "writeExit"}, Running,
                       "restart" \notin mix
                PROVE  shell[process].input = << >>
    BY DEF ShellIsFree
  <2>1. lock = t /\ Nobody \notin Thread
    BY <1>1, ShellAssumption DEF IInv, Base, LockOK, Inside
  <2>2. Spot \in {"writeRun", "writeExit"}
    BY <2>1 DEF Spot
  <2>. QED BY <1>1, <2>2 DEF IInv, Attr, Sess
<1>. QED BY <1>1, Invariance, PTL

LEMMA AtRest ==
  ASSUME IInv, AllIdle
  PROVE  Spot = "idle"
BY Sides DEF IInv, Base, TypeOK, LockOK, AllIdle, Spot

\* No call leaves a process behind that the session no longer knows of, as long as the
\* session is restarted by nobody but the calls that time out.
THEOREM NoShellsLeft == Spec => []NoShellLeft
<1>1. ASSUME IInv, AllIdle, "restart" \notin mix PROVE Running_Shells \subseteq {process}
  <2>1. process = spawned
    BY <1>1, AtRest DEF IInv, Attr
  <2>. QED BY <1>1, <2>1 DEF IInv, Sess, Running_Shells
<1>2. IInv => NoShellLeft
  BY <1>1 DEF NoShellLeft
<1>. QED BY <1>2, Invariance, PTL

------------------------------------------------------------------------------
(* The session outlives timeouts. *)

\* On its way out, or to the next process.
Ending == {"flushExit", "wait", "waiting", "kill", "killpg", "finally", "close", "clear", "check", "spawn"}

\* The shell runs, with nothing before it that ends it, until it is told to go.
Lives ==
  /\ shell[spawned].alive
  /\ \A i \in DOMAIN shell[spawned].input : shell[spawned].input[i].do \in {"run", "marker"}

Survives ==
  /\ \A t \in Thread : pc[t] # "exit"
  /\ Spot \notin {"writeExit", "ended", "code"}
  /\ Lives \/ Spot \in Ending

LEMMA SurvivesStep ==
  ASSUME IInv, "restart" \notin mix, Survives, NEW t \in Thread, Step(t)
  PROVE  Survives'
<1>0. /\ pc \in [Thread -> Place] /\ shell \in [Shell -> Process] /\ spawned # None /\ spawned \in Shell
      /\ Base /\ TypeOK /\ LockOK /\ cmd[t] \in Command /\ Attr /\ shell[spawned].input \in Seq(Item)
  BY Numbers, Typed DEF IInv, Base, TypeOK
<1>1. /\ Spot' = pc'[t]
      /\ \A u \in Thread : u # t => pc'[u] = pc[u]
      /\ \/ lock = t /\ Spot = pc[t] /\ pc[t] \notin {"idle", "run", "exit"}
         \/ lock = Nobody /\ Spot = "idle" /\ pc[t] \in {"run", "exit"} /\ pc'[t] \in {"writeRun", "writeExit"}
  BY <1>0, Placed
<1>2. \A how, code : Return(t, how, code) => pc'[t] = "idle"
  BY <1>0 DEF Return, Goto
<1>3. \A p : Go(t, p) => pc'[t] = p
  BY <1>0 DEF Go, Goto
<1>4. ASSUME pc'[t] \notin {"exit", "writeExit", "ended", "code"},
             \/ pc'[t] \in Ending
             \/ Spot \notin Ending /\ shell' = shell /\ spawned' = spawned
             \/ Lives'
      PROVE  Survives'
  <2>1. \A u \in Thread : pc'[u] # "exit"
    BY <1>1, <1>4 DEF Survives
  <2>2. Spot \notin Ending /\ shell' = shell /\ spawned' = spawned => Lives'
    BY DEF Survives, Lives
  <2>. QED BY <1>1, <1>4, <2>1, <2>2 DEF Survives
<1>5. CASE \E kind \in {"run", "exit"} : Lock(t, kind)
  <2>1. UNCHANGED <<session, shell>> /\ pc[t] = "run" /\ pc'[t] = "writeRun"
    <3>1. PICK kind \in {"run", "exit"} : Lock(t, kind)
      BY <1>5
    <3>2. kind = "run"
      BY <3>1 DEF Lock, Survives
    <3>. QED BY <1>0, <3>1, <3>2 DEF Lock, Goto, Writing
  <2>2. Spot = "idle"
    BY <1>1, <2>1
  <2>. QED BY <1>4, <2>1, <2>2 DEF Ending, session
<1>6. ASSUME NEW item \in Item, NEW next, NEW broken, Write(t, item, next, broken),
             item.do \in {"run", "marker"}, pc[t] \in {"writeRun", "writeMarker"}
      PROVE  pc'[t] = next /\ Lives'
  <2>1. lock = t /\ Spot = pc[t] /\ stdin = spawned /\ shell[spawned].open
    BY <1>0, <1>1, <1>6 DEF Attr
  <2>2. Lives
    BY <1>6, <2>1 DEF Survives, Ending
  <2>3. shell[stdin].open /\ shell[stdin].alive
    BY <2>1, <2>2 DEF Lives
  <2>4. shell' = [shell EXCEPT ![stdin].input = Append(@, item)] /\ pc'[t] = next /\ spawned' = spawned
    BY <1>3, <1>6, <2>3 DEF Write, session
  <2>. DEFINE r == [shell[stdin] EXCEPT !.input = Append(@, item)]
  <2>5. r.input = Append(shell[stdin].input, item) /\ r.alive = shell[stdin].alive
    BY <1>0, <2>1 DEF Process
  <2>6. shell' = [shell EXCEPT ![stdin] = r]
    BY <2>4
  <2>. HIDE DEF r
  <2>7. shell'[spawned].input = Append(shell[spawned].input, item) /\ shell'[spawned].alive
    BY <1>0, <2>1, <2>3, <2>5, <2>6
  <2>8. \A i \in DOMAIN Append(shell[spawned].input, item) :
          \/ i \in DOMAIN shell[spawned].input
               /\ Append(shell[spawned].input, item)[i] = shell[spawned].input[i]
          \/ Append(shell[spawned].input, item)[i] = item
    BY <1>0, AppendedWhere
  <2>9. \A i \in DOMAIN Append(shell[spawned].input, item) :
          Append(shell[spawned].input, item)[i].do \in {"run", "marker"}
    BY <1>6, <2>2, <2>8 DEF Lives
  <2>. QED BY <2>4, <2>7, <2>9 DEF Lives
<1>7. CASE \E kind \in {"run", "exit"} : WriteCommand(t, kind)
  <2>1. PICK kind \in {"run", "exit"} : WriteCommand(t, kind)
    BY <1>7
  <2>2. kind = "run" /\ pc[t] = "writeRun"
    BY <1>1, <2>1 DEF WriteCommand, Writing, Survives
  <2>. DEFINE item == [do |-> "run", of |-> cmd[t]]
  <2>3. item \in Item /\ item.do = "run"
    BY <1>0 DEF Item
  <2>4. Write(t, item, "writeMarker", "ended")
    BY <2>1, <2>2 DEF WriteCommand
  <2>. HIDE DEF item
  <2>5. pc'[t] = "writeMarker" /\ Lives'
    BY <1>6, <2>2, <2>3, <2>4
  <2>. QED BY <1>4, <2>5
<1>8. CASE WriteMarker(t)
  <2>1. Marker(cmd[t]) \in Item /\ Marker(cmd[t]).do = "marker"
    BY <1>0 DEF Item, Marker
  <2>2. Write(t, Marker(cmd[t]), "flush", "ended") /\ pc[t] = "writeMarker"
    BY <1>8 DEF WriteMarker, Marker
  <2>3. pc'[t] = "flush" /\ Lives'
    BY <1>6, <2>1, <2>2
  <2>. QED BY <1>4, <2>3
<1>9. CASE StopAsk(t)
  <2>1. pc[t] = "writeBye" /\ Spot = "writeBye"
    BY <1>1, <1>9 DEF StopAsk
  <2>2. shell[stdin].open
    BY <1>0, <2>1 DEF Attr
  <2>3. pc'[t] \in {"flushExit", "wait"}
    BY <1>3, <1>9, <2>2 DEF StopAsk, Write
  <2>. QED BY <1>4, <2>3 DEF Ending
<1>10. CASE Flush(t)
  <2>1. shell[stdin].open /\ shell' = shell /\ spawned' = spawned
    BY <1>0, <1>1, <1>10 DEF Flush, Attr, Quiet, pipes, session
  <2>2. (pc'[t] = "look" /\ pc[t] = "flush") \/ pc'[t] = "wait"
    BY <1>3, <1>10, <2>1 DEF Flush
  <2>. QED BY <1>1, <1>4, <2>1, <2>2 DEF Ending
<1>11. CASE Look(t) \/ Get(t) \/ TimeOut(t)
  <2>1. shell' = shell /\ spawned' = spawned /\ pc[t] \in {"look", "get"}
        /\ pc'[t] \in {"idle", "get", "look", "stop"}
    BY <1>2, <1>3, <1>11 DEF Look, Get, TimeOut, pipes, session
  <2>. QED BY <1>1, <1>4, <2>1 DEF Ending
<1>12. CASE CollectAfterExit(t) \/ PollCode(t) \/ StartPoll(t)
  BY <1>0, <1>1, <1>12 DEF CollectAfterExit, PollCode, StartPoll, Survives, Attr
<1>13. CASE StopLooks(t)
  <2>1. shell' = shell /\ spawned' = spawned
    BY <1>13 DEF StopLooks, Quiet, pipes, session
  <2>2. pc[t] \in {"stop", "poll", "ask"} /\ process = spawned
    BY <1>0, <1>1, <1>13 DEF StopLooks, Attr
  <2>3. pc'[t] \in {"poll", "ask", "wait", "writeBye"}
    BY <1>0, <1>3, <1>13, <2>2 DEF StopLooks
  <2>. QED BY <1>1, <1>4, <2>1, <2>2, <2>3 DEF Ending
<1>14. CASE \/ StopWait(t) \/ StopWaited(t) \/ Kill(t) \/ KillGroup(t) \/ SetTerminated(t) \/ Close(t)
            \/ Clear(t) \/ StartCheck(t)
  <2>1. pc[t] = "clear" => on[t] # None
    BY <1>0, <1>1 DEF Attr
  <2>2. pc[t] = "check" => process = None
    BY <1>0, <1>1 DEF Attr
  <2>3. pc'[t] \in Ending
    BY <1>3, <1>14, <2>1, <2>2 DEF StopWait, StopWaited, Kill, KillGroup, SetTerminated, Close, Clear,
       StartCheck, Ending
  <2>4. pc'[t] \notin {"exit", "writeExit", "ended", "code"}
    BY <2>3 DEF Ending
  <2>. QED BY <1>4, <2>3, <2>4
<1>15. CASE Spawn(t)
  <2>1. pc[t] = "spawn" /\ pc'[t] = "pipes" /\ spawned' = spawned + 1 /\ shell' = shell
    BY <1>3, <1>15 DEF Spawn, pipes
  <2>2. spawned' \in Shell /\ spawned' > spawned
    BY <1>0, <2>1, Room, Numbers
  <2>3. shell'[spawned'] = Fresh
    BY <1>0, <2>1, <2>2 DEF Base, FreshOK
  <2>4. Lives'
    BY <2>3 DEF Lives, Fresh
  <2>. QED BY <1>4, <2>1, <2>4
<1>16. CASE SetStdin(t) \/ Reset(t) \/ SetQueue(t) \/ SetReader(t) \/ SetStderr(t) \/ StartReader(t)
  <2>1. shell' = shell /\ spawned' = spawned /\ pc[t] \in Started
    BY <1>16 DEF SetStdin, Reset, SetQueue, SetReader, SetStderr, StartReader, Quiet, pipes, session, Started
  <2>2. pc'[t] \in Started \cup {"idle"}
    BY <1>2, <1>3, <1>16 DEF SetStdin, Reset, SetQueue, SetReader, SetStderr, StartReader, Raise, Restarted, Started
  <2>. QED BY <1>1, <1>4, <2>1, <2>2 DEF Ending, Started
<1>. QED BY <1>5, <1>7, <1>8, <1>9, <1>10, <1>11, <1>12, <1>13, <1>14, <1>15, <1>16 DEF Step, Stop, Start

LEMMA SurvivesNext ==
  ASSUME IInv, mix \subseteq {"run"} => Survives, [Next]_vars, mix' \subseteq {"run"}
  PROVE  Survives'
<1>0. /\ TypeOK /\ LockOK /\ Nobody \notin Thread /\ lock \in Thread \cup {Nobody} /\ spawned \in Shell
      /\ \A g \in Shell : shell[g].input \in Seq(Item)
  BY Numbers, Typed, ShellAssumption DEF IInv, Base, TypeOK
<1>1. ASSUME NEW t \in Thread, Execute(t) \/ Restart(t) PROVE Survives'
  <2>1. /\ pc[t] = "idle" /\ UNCHANGED <<pipes, session>> /\ mix \subseteq mix'
        /\ lock' = lock \/ lock = t
        /\ \A u \in Thread : u # t => pc'[u] = pc[u]
        /\ \/ /\ pc'[t] \in {"run", "exit", "idle"}
              /\ mix' = mix \cup {"run"} => pc'[t] # "exit" \/ "exit" \in mix
              /\ mix' \in {mix \cup {"run"}, mix \cup {"exit"}}
           \/ "restart" \in mix'
    BY <1>0, <1>1, Called
  <2>2. lock # t
    BY <1>0, <2>1, Sides DEF LockOK
  <2>3. Spot' = Spot
    BY <1>0, <2>1, <2>2 DEF Spot
  <2>4. Survives /\ pc'[t] # "exit"
    BY <1>1, <2>1
  <2>5. Lives => Lives'
    BY <2>1 DEF Lives, pipes, session
  <2>. QED BY <2>1, <2>3, <2>4, <2>5 DEF Survives
<1>2. ASSUME NEW t \in Thread, Step(t) PROVE Survives'
  <2>1. mix' = mix
    BY <1>0, <1>2, Moved DEF history
  <2>2. "restart" \notin mix
    BY <2>1
  <2>. QED BY <1>2, <2>1, <2>2, SurvivesStep
<1>3. ASSUME NEW g \in Shell, ShellReads(g) \/ ShellEnds(g) \/ Read(g) PROVE Survives'
  <2>1. UNCHANGED <<history, session, threads, return, pc, on>>
    BY <1>0, <1>3, ShellSources
  <2>2. Spot' = Spot /\ spawned' = spawned /\ Survives /\ "restart" \notin mix
    BY <2>1 DEF Spot, return, session, history
  <2>. SUFFICES ASSUME Lives, Spot \notin Ending PROVE Lives'
    BY <2>1, <2>2 DEF Survives
  <2>3. CASE Read(g)
    <3>1. PICK i \in DOMAIN shell[g].out : ReadAt(g, i)
      BY <1>0, <2>3, ReaderMoves
    <3>. QED BY <1>0, <2>2, <3>1 DEF ReadAt, OnlyAt, Lives
  <2>4. CASE ShellReads(g) \/ ShellEnds(g)
    <3>. DEFINE q == shell[g].input
    <3>1. q # << >> => /\ Head(q) = q[1] /\ 1 \in DOMAIN q
                       /\ \A i \in DOMAIN Tail(q) : i + 1 \in DOMAIN q /\ Tail(q)[i] = q[i + 1]
      BY <1>0, Tailed
    <3>2. CASE g # spawned
      <4>1. OnlyAt(g)
        BY <1>0, <2>4, ShellMoves DEF PrintsAt, DiesAt
      <4>. QED BY <1>0, <2>2, <3>2, <4>1 DEF OnlyAt, Lives
    <3>3. CASE g = spawned
      <4>1. q # << >> => Head(q).do \in {"run", "marker"}
        BY <3>1, <3>3 DEF Lives
      <4>2. shell[g].open
        BY <2>2, <3>3 DEF IInv, Attr, Ending
      <4>3. \E item \in Item, line \in Printed : PrintsAt(g, item, line)
        BY <1>0, <2>4, <4>1, <4>2, ShellMoves
      <4>4. q # << >> /\ shell'[g].input = Tail(q) /\ shell'[g].alive
        BY <4>3 DEF PrintsAt
      <4>5. \A i \in DOMAIN q : q[i].do \in {"run", "marker"}
        BY <3>3 DEF Lives
      <4>. HIDE DEF q
      <4>6. \A i \in DOMAIN Tail(q) : Tail(q)[i].do \in {"run", "marker"}
        BY <3>1, <4>4, <4>5
      <4>. QED BY <2>2, <3>3, <4>4, <4>6 DEF Lives
    <3>. QED BY <3>2, <3>3
  <2>. QED BY <1>3, <2>3, <2>4
<1>4. CASE UNCHANGED vars
  <2>1. UNCHANGED <<mix, shell, spawned, lock, pc>>
    BY <1>4 DEF vars, history, pipes, session, return
  <2>2. Spot' = Spot
    BY <2>1 DEF Spot
  <2>. QED BY <2>1, <2>2 DEF Survives, Lives
<1>. QED BY <1>1, <1>2, <1>3, <1>4 DEF Next

\* When no call is under way the session has a process that runs and takes commands, and a
\* reader for it: no number of timeouts leaves it without, as long as no command ends the
\* shell and nobody restarts the session from outside.
THEOREM SessionsSurvive == Spec => []SessionSurvives
<1>. DEFINE S == mix \subseteq {"run"} => Survives
<1>1. Init => S
  <2>. SUFFICES ASSUME Init PROVE Survives
    OBVIOUS
  <2>1. /\ 1 \in Shell /\ spawned = 1 /\ shell[1] = Fresh /\ Spot = "idle"
        /\ \A t \in Thread : pc[t] = "idle"
    BY ShellAssumption DEF Init, Spot, Shell
  <2>2. DOMAIN << >> = {}
    OBVIOUS
  <2>. QED BY <2>1, <2>2 DEF Survives, Lives, Fresh
<1>2. IInv /\ S /\ [Next]_vars => S'
  BY SurvivesNext
<1>3. ASSUME IInv, S PROVE SessionSurvives
  <2>. SUFFICES ASSUME AllIdle, mix \subseteq {"run"} PROVE Usable
    BY DEF SessionSurvives
  <2>1. Spot = "idle" /\ "restart" \notin mix /\ Survives /\ spawned \in Nat /\ 1 <= spawned
    BY <1>3, AtRest, Numbers DEF IInv, Base
  <2>2. process = spawned /\ stdin = spawned /\ shell[spawned].open /\ spawned \in begun /\ source[spawned] = spawned
    BY <1>3, <2>1 DEF IInv, Attr, Started
  <2>3. shell[spawned].alive /\ spawned \in 1 .. spawned
    BY <2>1 DEF Survives, Lives, Ending
  <2>. QED BY <2>2, <2>3 DEF Usable, Running_Shells, Readers
<1>. QED BY <1>1, <1>2, <1>3, Invariance, PTL DEF Spec

------------------------------------------------------------------------------
(* What a command printed is ahead of its marker. *)

Out(n) == Line("out", n, 0)

Marks(line, n) == line.kind = "done" /\ line.of = n

Has(s, n) == \E j \in DOMAIN s : s[j] = Out(n)

\* No marker of n is ahead of what n printed.
Led(s, n) == \A i \in DOMAIN s : Marks(s[i], n) => \E j \in DOMAIN s : j < i /\ s[j] = Out(n)

Collecting == {"writeMarker", "flush", "look", "get"}

Kept(t) == Out(cmd[t]) \in output[t]

\* What the command of t printed has been collected, is in the queue, or in the pipe of g.
Traced(t, g) == Kept(t) \/ Has(queue[spawned], cmd[t]) \/ Has(shell[g].out, cmd[t])

\* Its marker is nowhere ahead of it.
Follows(t) ==
  /\ Kept(t) \/ Led(queue[spawned], cmd[t])
  /\ \A g \in Shell : Kept(t) \/ Has(queue[spawned], cmd[t]) \/ Led(shell[g].out, cmd[t])
  /\ \A g \in Shell :
       shell[g].input # << >> /\ Head(shell[g].input) = Marker(cmd[t]) => Traced(t, g)
  /\ pc[t] = "writeMarker" /\ shell[spawned].alive /\ shell[spawned].input = << >> => Traced(t, spawned)

Whole(t) ==
  /\ result[t].how = "code" => pc[t] = "idle" /\ Kept(t)
  /\ pc[t] \in Collecting => Follows(t)

LEMMA LineAppended ==
  ASSUME NEW s \in Seq(Printed), NEW e \in Printed, NEW n
  PROVE  /\ Has(s, n) \/ e = Out(n) => Has(Append(s, e), n)
         /\ Led(s, n) /\ (Marks(e, n) => Has(s, n)) => Led(Append(s, e), n)
<1>. DEFINE a == Append(s, e)
<1>1. /\ Len(s) \in Nat /\ DOMAIN a = 1 .. Len(s) + 1 /\ DOMAIN s = 1 .. Len(s)
      /\ \A i \in 1 .. Len(s) : a[i] = s[i]
      /\ a[Len(s) + 1] = e
  BY Appended
<1>. HIDE DEF a
<1>2. /\ DOMAIN s \subseteq DOMAIN a /\ Len(s) + 1 \in DOMAIN a
      /\ \A i \in DOMAIN a : i \in DOMAIN s \/ i = Len(s) + 1
      /\ \A j \in DOMAIN s : j < Len(s) + 1 /\ a[j] = s[j]
  BY <1>1
<1>3. Has(s, n) \/ e = Out(n) => Has(a, n)
  BY <1>1, <1>2 DEF Has
<1>4. ASSUME Led(s, n), Marks(e, n) => Has(s, n) PROVE Led(a, n)
  <2>. SUFFICES ASSUME NEW i \in DOMAIN a, Marks(a[i], n)
                PROVE  \E j \in DOMAIN a : j < i /\ a[j] = Out(n)
    BY DEF Led
  <2>1. CASE i \in DOMAIN s
    <3>1. PICK j \in DOMAIN s : j < i /\ s[j] = Out(n)
      BY <1>2, <1>4, <2>1 DEF Led
    <3>. QED BY <1>2, <3>1
  <2>2. CASE i = Len(s) + 1
    <3>1. PICK j \in DOMAIN s : s[j] = Out(n)
      BY <1>1, <1>4, <2>2 DEF Has
    <3>. QED BY <1>2, <2>2, <3>1
  <2>. QED BY <1>2, <2>1, <2>2
<1>. QED BY <1>3, <1>4 DEF a

LEMMA LineTaken ==
  ASSUME NEW s \in Seq(Printed), s # << >>, NEW n
  PROVE  /\ Has(s, n) => Head(s) = Out(n) \/ Has(Tail(s), n)
         /\ Led(s, n) => ~Marks(Head(s), n)
         /\ Led(s, n) => Head(s) = Out(n) \/ Led(Tail(s), n)
<1>. DEFINE r == Tail(s)
            h == Head(s)
<1>1. /\ h = s[1] /\ Len(s) \in Nat \ {0}
      /\ DOMAIN r = 1 .. Len(s) - 1 /\ DOMAIN s = 1 .. Len(s)
      /\ \A i \in 1 .. Len(s) - 1 : r[i] = s[i + 1]
  BY Tailed
<1>. HIDE DEF r, h
<1>2. /\ 1 \in DOMAIN s /\ \A j \in DOMAIN s : ~(j < 1)
      /\ \A j \in DOMAIN s : j = 1 \/ (j - 1 \in DOMAIN r /\ r[j - 1] = s[j])
      /\ \A i \in DOMAIN r : i + 1 \in DOMAIN s /\ r[i] = s[i + 1]
      /\ \A i \in DOMAIN r, j \in DOMAIN s : j < i + 1 => j - 1 < i
  <2>1. ASSUME NEW j \in DOMAIN s, j # 1 PROVE j - 1 \in DOMAIN r /\ r[j - 1] = s[j]
    <3>1. j - 1 \in 1 .. Len(s) - 1 /\ (j - 1) + 1 = j
      BY <1>1, <2>1
    <3>2. r[j - 1] = s[(j - 1) + 1]
      BY <1>1, <3>1
    <3>. QED BY <1>1, <3>1, <3>2
  <2>. QED BY <1>1, <2>1
<1>3. Has(s, n) => h = Out(n) \/ Has(r, n)
  BY <1>1, <1>2 DEF Has
<1>4. Led(s, n) => ~Marks(h, n)
  BY <1>1, <1>2 DEF Led
<1>5. ASSUME Led(s, n), h # Out(n) PROVE Led(r, n)
  <2>. SUFFICES ASSUME NEW i \in DOMAIN r, Marks(r[i], n)
                PROVE  \E j \in DOMAIN r : j < i /\ r[j] = Out(n)
    BY DEF Led
  <2>1. i + 1 \in DOMAIN s /\ Marks(s[i + 1], n)
    BY <1>2
  <2>2. PICK j \in DOMAIN s : j < i + 1 /\ s[j] = Out(n)
    BY <1>5, <2>1 DEF Led
  <2>3. j # 1
    BY <1>1, <1>5, <2>2
  <2>. QED BY <1>2, <2>2, <2>3
<1>. QED BY <1>3, <1>4, <1>5 DEF r, h

\* No marker of n is under way, as long as the command is not written.
LEMMA NoMarker ==
  ASSUME TypeOK, NEW n, ~Given(Marker(n)), \A line \in Printed : Known(line) /\ line.kind = "done" => line.of # n
  PROVE  /\ \A g \in Shell : Led(queue[g], n) /\ Led(shell[g].out, n)
         /\ \A g \in Shell : \A i \in DOMAIN shell[g].input : shell[g].input[i] # Marker(n)
<1>1. \A g \in Shell : queue[g] \in Seq(Printed) /\ shell[g].out \in Seq(Printed)
  BY Typed
<1>2. ASSUME NEW g \in Shell, NEW i \in DOMAIN queue[g] PROVE ~Marks(queue[g][i], n)
  <2>1. queue[g][i] \in Printed
    BY <1>1, <1>2, Elements
  <2>2. Known(queue[g][i])
    BY <1>2 DEF Known
  <2>. QED BY <2>1, <2>2 DEF Marks
<1>3. ASSUME NEW g \in Shell, NEW i \in DOMAIN shell[g].out PROVE ~Marks(shell[g].out[i], n)
  <2>1. shell[g].out[i] \in Printed
    BY <1>1, <1>3, Elements
  <2>2. Known(shell[g].out[i])
    BY <1>3 DEF Known
  <2>. QED BY <2>1, <2>2 DEF Marks
<1>. QED BY <1>2, <1>3 DEF Led, Given

\* A step that is not its own and leaves the session alone does nothing to a call.
LEMMA WholeKept ==
  ASSUME NEW t \in Thread, Whole(t), pc[t] \notin Collecting,
         pc'[t] = pc[t], cmd'[t] = cmd[t], output'[t] = output[t], result'[t] = result[t]
  PROVE  Whole(t)'
BY DEF Whole, Collecting, Kept

LEMMA FollowsKept ==
  ASSUME NEW t \in Thread, Follows(t), UNCHANGED <<shell, queue, spawned>>,
         cmd'[t] = cmd[t], output'[t] = output[t], pc'[t] = "writeMarker" => pc[t] = "writeMarker"
  PROVE  Follows(t)'
BY DEF Follows, Traced, Kept

\* Nor is there anything to say of a call that is over without an exit code.
LEMMA WholeOver ==
  ASSUME NEW t \in Thread, pc'[t] \notin Collecting, result'[t].how # "code"
  PROVE  Whole(t)'
BY DEF Whole, Collecting

\* A call that collects has the lock, and the session is that of the last shell.
LEMMA Owned ==
  ASSUME IInv, "restart" \notin mix, NEW t \in Thread, pc[t] \in Collecting
  PROVE  /\ lock = t /\ Spot = pc[t] /\ stdin = spawned /\ current = spawned
         /\ pc[t] = "get" => on[t] = spawned
<1>1. lock = t /\ Nobody \notin Thread
  BY ShellAssumption DEF IInv, Base, LockOK, Inside, Collecting
<1>2. Spot = pc[t]
  BY <1>1 DEF Spot
<1>. QED BY <1>1, <1>2 DEF IInv, Attr, Collecting

LEMMA WholeWriteCommand ==
  ASSUME NEW t \in Thread, NEW kind \in {"run", "exit"}, IInv, Whole(t), WriteCommand(t, kind),
         pc'[t] = "writeMarker", stdin = spawned
  PROVE  Follows(t)'
<1>. DEFINE n == cmd[t]
<1>0. /\ TypeOK /\ pc[t] \in Unmarked /\ Step(t)
      /\ UNCHANGED <<queue, output, spawned, cmd>>
      /\ \A g \in Shell : shell[g].input \in Seq(Item)
  BY Typed DEF IInv, Base, WriteCommand, Writing, Write, Unmarked, Step, session, history
<1>1. PICK item \in Item : WrittenAt(stdin, item) /\ Writes(t, item)
  BY <1>0, ToMarker DEF Unmarked
<1>2. ~Given(Marker(n)) /\ \A line \in Printed : Known(line) /\ line.kind = "done" => line.of # n
  BY <1>0 DEF IInv, NumbersOK
<1>3. /\ \A g \in Shell : Led(queue[g], n) /\ Led(shell[g].out, n)
      /\ \A g \in Shell : \A i \in DOMAIN shell[g].input : shell[g].input[i] # Marker(n)
  BY <1>0, <1>2, NoMarker
<1>4. stdin \in Shell /\ spawned \in Shell
  BY <1>0, Numbers
<1>5. item # Marker(n)
  <2>1. pc[t] # "writeMarker"
    BY DEF WriteCommand, Writing
  <2>. QED BY <1>1, <2>1 DEF Writes, Marker
<1>6. /\ \A g \in Shell : shell'[g].out = shell[g].out
      /\ \A g \in Shell : g # stdin => shell'[g].input = shell[g].input
      /\ shell'[stdin].input = Append(shell[stdin].input, item)
  BY <1>1 DEF WrittenAt, OnlyAt
<1>7. ASSUME NEW g \in Shell, shell'[g].input # << >> PROVE Head(shell'[g].input) # Marker(n)
  <2>. DEFINE s == shell'[g].input
  <2>1. s \in Seq(Item) /\ \A i \in DOMAIN s : s[i] # Marker(n)
    <3>1. CASE g = stdin
      <4>0. Append(shell[stdin].input, item) \in Seq(Item)
        BY <1>0, <1>4, Appended
      <4>1. s = Append(shell[stdin].input, item) /\ s \in Seq(Item)
        BY <1>6, <3>1, <4>0
      <4>2. \A i \in DOMAIN Append(shell[stdin].input, item) :
              \/ i \in DOMAIN shell[stdin].input
                   /\ Append(shell[stdin].input, item)[i] = shell[stdin].input[i]
              \/ Append(shell[stdin].input, item)[i] = item
        BY <1>0, <1>4, AppendedWhere
      <4>3. \A i \in DOMAIN Append(shell[stdin].input, item) : Append(shell[stdin].input, item)[i] # Marker(n)
        BY <1>3, <1>4, <1>5, <4>2
      <4>. QED BY <4>1, <4>3
    <3>2. CASE g # stdin
      BY <1>0, <1>3, <1>6, <3>2
    <3>. QED BY <3>1, <3>2
  <2>2. s # << >>
    BY <1>7
  <2>. HIDE DEF s
  <2>3. 1 \in DOMAIN s /\ Head(s) = s[1]
    BY <2>1, <2>2, Tailed
  <2>. QED BY <2>1, <2>3 DEF s
<1>8. shell'[spawned].input # << >>
  <2>1. Append(shell[stdin].input, item) # << >>
    BY <1>0, <1>4, AppendedWhere
  <2>. QED BY <1>6, <2>1
<1>. QED BY <1>0, <1>3, <1>4, <1>6, <1>7, <1>8 DEF Follows, Kept

LEMMA WholeWriteMarker ==
  ASSUME NEW t \in Thread, IInv, Follows(t), "restart" \notin mix, WriteMarker(t), pc'[t] = "flush"
  PROVE  Follows(t)'
<1>. DEFINE n == cmd[t]
            item == Marker(n)
            q == shell[spawned].input
<1>0. /\ TypeOK /\ pc[t] = "writeMarker" /\ Step(t) /\ Base
      /\ UNCHANGED <<queue, output, spawned, cmd>>
      /\ \A g \in Shell : shell[g].input \in Seq(Item)
      /\ stdin = spawned /\ spawned \in Shell /\ n \in Command
  BY Typed, Owned, Numbers DEF IInv, Base, WriteMarker, Write, Step, session, history, Collecting
<1>1. WrittenAt(spawned, item) /\ item \in Item
  <2>1. item \in Item
    BY <1>0 DEF Marker, Item
  <2>. QED BY <1>0, <2>1, Onward DEF IInv
<1>2. /\ \A g \in Shell : shell'[g].out = shell[g].out
      /\ \A g \in Shell : g # spawned => shell'[g].input = shell[g].input
      /\ shell'[spawned].input = Append(q, item) /\ shell[spawned].alive
      /\ q \in Seq(Item)
  BY <1>0, <1>1 DEF WrittenAt, OnlyAt
<1>. HIDE DEF q, item
<1>3. q # << >> => Head(Append(q, item)) = Head(q)
  <2>. HAVE q # << >>
  <2>1. /\ Append(q, item) \in Seq(Item) /\ Append(q, item) # << >> /\ 1 \in 1 .. Len(q)
        /\ \A i \in 1 .. Len(q) : Append(q, item)[i] = q[i]
    <3>1. Len(q) \in Nat \ {0}
      BY <1>2, Tailed
    <3>. QED BY <1>1, <1>2, <3>1, Appended
  <2>2. Head(Append(q, item)) = Append(q, item)[1]
    BY <2>1, Tailed
  <2>. QED BY <1>2, <2>1, <2>2, Tailed
<1>4. q = << >> => Traced(t, spawned)
  BY <1>0, <1>2 DEF Follows, q
<1>5. \A g \in Shell : shell'[g].input # << >> /\ Head(shell'[g].input) = Marker(n) => Traced(t, g)
  <2>1. ASSUME Head(shell'[spawned].input) = Marker(n) PROVE Traced(t, spawned)
    BY <1>0, <1>2, <1>3, <1>4, <2>1 DEF Follows, q
  <2>2. ASSUME NEW g \in Shell, g # spawned, shell'[g].input # << >>, Head(shell'[g].input) = Marker(n)
        PROVE  Traced(t, g)
    BY <1>2, <2>2 DEF Follows
  <2>. QED BY <2>1, <2>2
<1>6. \A g \in Shell : Traced(t, g) => Traced(t, g)'
  BY <1>0, <1>2 DEF Traced, Kept
<1>. QED BY <1>0, <1>2, <1>5, <1>6 DEF Follows, Kept

LEMMA WholeGet ==
  ASSUME NEW t \in Thread, IInv, "restart" \notin mix, Follows(t), Get(t)
  PROVE  /\ pc'[t] = "look" => Follows(t)'
         /\ result'[t] # result[t] /\ result'[t].how = "code" => Kept(t)'
<1>. DEFINE n    == cmd[t]
            q    == queue[spawned]
            line == Head(q)
<1>0. /\ TypeOK /\ on[t] = spawned /\ q # << >>
      /\ UNCHANGED <<shell, spawned, cmd>>
      /\ queue' = [queue EXCEPT ![spawned] = Tail(q)]
      /\ IF IsMarker(t, line)
           THEN Return(t, "code", line.code) /\ UNCHANGED output
           ELSE output' = [output EXCEPT ![t] = @ \cup {line}] /\ Go(t, "look")
  <2>1. on[t] = spawned
    BY Owned DEF Get, Collecting
  <2>. QED BY <2>1 DEF IInv, Base, Get, session, history
<1>1. /\ queue \in [Shell -> Seq(Printed)] /\ spawned \in Shell /\ pc \in [Thread -> Place]
      /\ output \in [Thread -> SUBSET Printed] /\ q \in Seq(Printed)
  BY <1>0 DEF TypeOK
<1>2. queue'[spawned] = Tail(q)
  BY <1>0, <1>1
<1>3. Kept(t) \/ Led(q, n)
  BY DEF Follows
<1>. HIDE DEF q
<1>4. /\ Has(q, n) => line = Out(n) \/ Has(Tail(q), n)
      /\ Led(q, n) => ~Marks(line, n)
      /\ Led(q, n) => line = Out(n) \/ Led(Tail(q), n)
  BY <1>0, <1>1, LineTaken
<1>5. CASE IsMarker(t, line)
  <2>1. Kept(t)
    BY <1>3, <1>4, <1>5 DEF IsMarker, Marks
  <2>2. pc'[t] = "idle" /\ output' = output
    BY <1>0, <1>1, <1>5 DEF Return, Goto
  <2>. QED BY <1>0, <2>1, <2>2 DEF Kept
<1>6. CASE ~IsMarker(t, line)
  <2>1. pc'[t] = "look" /\ output'[t] = output[t] \cup {line} /\ result' = result
    BY <1>0, <1>1, <1>6 DEF Go, Goto, return
  <2>2. (Kept(t) \/ line = Out(n)) => Kept(t)'
    BY <1>0, <2>1 DEF Kept
  <2>3. Kept(t)' \/ Led(queue'[spawned], n)
    BY <1>2, <1>3, <1>4, <2>2
  <2>4. Has(q, n) => Kept(t)' \/ Has(queue'[spawned], n)
    BY <1>2, <1>4, <2>2
  <2>5. \A g \in Shell : Kept(t)' \/ Has(queue'[spawned], n) \/ Led(shell[g].out, n)
    BY <2>2, <2>4 DEF Follows, q
  <2>6. \A g \in Shell : Traced(t, g) => Traced(t, g)'
    BY <1>0, <2>2, <2>4 DEF Traced, q
  <2>7. Follows(t)'
    BY <1>0, <2>1, <2>3, <2>5, <2>6 DEF Follows
  <2>. QED BY <2>1, <2>7
<1>. QED BY <1>5, <1>6

\* A step of one call.
LEMMA WholeStep ==
  ASSUME NEW u \in Thread, NEW t \in Thread, IInv, "restart" \notin mix, Whole(t), Step(u)
  PROVE  Whole(t)'
<1>0. TypeOK /\ LockOK /\ Base /\ Attr
  BY DEF IInv, Base
<1>1. /\ UNCHANGED <<mix, cmd>> /\ pc[u] # "idle"
      /\ t # u => pc'[t] = pc[t]
      /\ t # u => result'[t] = result[t] /\ output'[t] = output[t]
  <2>1. \A v \in Thread : v # u => result'[v] = result[v]
    <3>1. result \in [Thread -> Result]
      BY <1>0 DEF TypeOK
    <3>. QED BY <1>0, <3>1, Moved DEF return
  <2>. QED BY <1>0, <2>1, Moved, Queues DEF history
<1>2. CASE t # u
  <2>1. lock = u \/ lock = Nobody
    BY <1>0, Placed
  <2>2. pc[t] \notin Collecting
    BY <1>2, <2>1, Owned, ShellAssumption
  <2>. QED BY <1>1, <1>2, <2>2, WholeKept
<1>3. CASE t = u
  <2>1. result[t].how # "code"
    BY <1>1, <1>3 DEF Whole
  <2>2. \/ lock = t /\ Spot = pc[t]
        \/ pc[t] \in {"run", "exit"} /\ pc'[t] \in {"writeRun", "writeExit"}
    BY <1>0, <1>3, Placed
  <2>3. CASE Get(t)
    <3>1. Follows(t)
      BY <2>3 DEF Whole, Get, Collecting
    <3>2. pc'[t] \in {"idle", "look"} /\ (pc'[t] = "look" => result' = result)
      <4>1. pc \in [Thread -> Place]
        BY <1>0 DEF TypeOK
      <4>2. (\E code : Return(t, "code", code)) \/ Go(t, "look")
        BY <2>3 DEF Get
      <4>. QED BY <4>1, <4>2 DEF Return, Go, Goto, return
    <3>3. /\ pc'[t] = "look" => Follows(t)'
          /\ result'[t] # result[t] /\ result'[t].how = "code" => Kept(t)'
      BY <2>3, <3>1, WholeGet
    <3>4. result'[t].how = "code" => pc'[t] = "idle" /\ Kept(t)'
      BY <2>1, <3>2, <3>3
    <3>5. pc'[t] \in Collecting => Follows(t)'
      BY <3>2, <3>3 DEF Collecting
    <3>. QED BY <3>4, <3>5 DEF Whole
  <2>4. CASE ~Get(t)
    <3>1. result'[t].how # "code"
      BY <1>0, <1>3, <2>1, <2>4, Results
    <3>. SUFFICES ASSUME pc'[t] \in Collecting PROVE Follows(t)'
      BY <3>1 DEF Whole
    <3>2. pc \in [Thread -> Place]
      BY <1>0 DEF TypeOK
    <3>3. \A how, code : ~Return(t, how, code)
      BY <3>2 DEF Return, Goto, Collecting
    <3>4. \A p : Go(t, p) => pc'[t] = p
      BY <3>2 DEF Go, Goto
    <3>5. CASE \E kind \in {"run", "exit"} : Lock(t, kind)
      BY <3>2, <3>5 DEF Lock, Goto, Writing, Collecting
    <3>6. CASE \E kind \in {"run", "exit"} : WriteCommand(t, kind)
      <4>1. PICK kind \in {"run", "exit"} : WriteCommand(t, kind)
        BY <3>6
      <4>2. pc'[t] = "writeMarker" /\ pc[t] \in {"writeRun", "writeExit"}
        BY <3>3, <3>4, <4>1 DEF WriteCommand, Writing, Write, Raise, Collecting
      <4>3. stdin = spawned
        BY <1>0, <2>2, <4>2 DEF Attr
      <4>. QED BY <4>1, <4>2, <4>3, WholeWriteCommand
    <3>7. CASE WriteMarker(t)
      <4>1. pc'[t] = "flush" /\ Follows(t)
        BY <3>3, <3>4, <3>7 DEF WriteMarker, Write, Raise, Collecting, Whole
      <4>. QED BY <3>7, <4>1, WholeWriteMarker
    <3>8. CASE Flush(t) \/ Look(t)
      <4>1. UNCHANGED <<shell, queue, spawned, cmd, output>>
        BY <3>8 DEF Flush, Look, Quiet, pipes, session, history
      <4>2. pc[t] \in {"flush", "look"} /\ pc'[t] # "writeMarker"
        BY <3>3, <3>4, <3>8 DEF Flush, Look, Raise, Collecting
      <4>3. Follows(t)
        BY <4>2 DEF Whole, Collecting
      <4>. QED BY <4>1, <4>2, <4>3, FollowsKept
    <3>9. CASE TimeOut(t) \/ CollectAfterExit(t) \/ PollCode(t)
      BY <3>3, <3>4, <3>9 DEF TimeOut, CollectAfterExit, PollCode, Raise, Collecting
    <3>10. CASE Stop(t)
      BY <3>3, <3>4, <3>10 DEF Stop, StopLooks, StopAsk, StopWait, StopWaited, Kill, KillGroup, SetTerminated,
         Close, Clear, Write, Raise, Collecting
    <3>11. CASE Start(t)
      BY <3>3, <3>4, <3>11 DEF Start, StartCheck, StartPoll, Spawn, SetStdin, Reset, SetQueue, SetReader,
         SetStderr, StartReader, Restarted, Raise, Collecting
    <3>. QED BY <1>3, <2>4, <3>5, <3>6, <3>7, <3>8, <3>9, <3>10, <3>11 DEF Step
  <2>. QED BY <2>3, <2>4
<1>. QED BY <1>2, <1>3

\* A shell, or a reader, changes of a call no more than what becomes of its lines.
LEMMA WholeMoved ==
  ASSUME NEW t \in Thread, Whole(t), UNCHANGED <<pc, cmd, output, result>>,
         pc[t] \in Collecting /\ Follows(t) => Follows(t)'
  PROVE  Whole(t)'
BY DEF Whole, Kept

LEMMA WholeDies ==
  ASSUME NEW g \in Shell, NEW t \in Thread, TypeOK, Follows(t), DiesAt(g),
         UNCHANGED <<queue, pc, cmd, output, spawned>>
  PROVE  Follows(t)'
<1>1. \A h \in Shell : shell'[h].out = shell[h].out /\ (Traced(t, h) => Traced(t, h)')
  BY DEF DiesAt, OnlyAt, Traced, Kept
<1>2. \A h \in Shell : shell'[h].input # << >> => shell'[h].input = shell[h].input
  BY DEF DiesAt, OnlyAt
<1>3. shell'[spawned].alive => shell'[spawned] = shell[spawned]
  BY Numbers DEF DiesAt, OnlyAt
<1>4. spawned \in Shell
  BY Numbers
<1>. QED BY <1>1, <1>2, <1>3, <1>4 DEF Follows, Kept

LEMMA WholeRead ==
  ASSUME NEW g \in Shell, NEW t \in Thread, TypeOK, Follows(t), current = spawned, ReadAt(g, 1),
         UNCHANGED <<pc, cmd, output, spawned>>
  PROVE  Follows(t)'
<1>. DEFINE n == cmd[t]
            q == queue[spawned]
            o == shell[g].out
<1>0. o \in Seq(Printed) /\ q \in Seq(Printed) /\ spawned \in Shell /\ 1 \in DOMAIN o
  BY Typed, Numbers DEF ReadAt
<1>1. o # << >> /\ Head(o) = o[1] /\ Head(o) \in Printed
  BY <1>0, Tailed
<1>2. /\ queue'[spawned] = Append(q, Head(o)) /\ shell'[g].out = Tail(o)
      /\ \A h \in Shell : h # g => shell'[h].out = shell[h].out
      /\ \A h \in Shell : shell'[h].input = shell[h].input /\ shell'[h].alive = shell[h].alive
  <2>1. RemoveAt(o, 1) = Tail(o)
    BY <1>0, Removed
  <2>. QED BY <1>0, <1>1, <2>1 DEF ReadAt, OnlyAt
<1>3. (Kept(t)' <=> Kept(t)) /\ (Kept(t) \/ Led(q, n)) /\ (Kept(t) \/ Has(q, n) \/ Led(o, n))
  BY DEF Follows, Kept
<1>. HIDE DEF q, o
<1>4. /\ Has(o, n) => Head(o) = Out(n) \/ Has(Tail(o), n)
      /\ Led(o, n) => ~Marks(Head(o), n)
      /\ Led(o, n) => Head(o) = Out(n) \/ Led(Tail(o), n)
  BY <1>0, <1>1, LineTaken
<1>5. /\ Has(q, n) \/ Head(o) = Out(n) => Has(queue'[spawned], n)
      /\ Led(q, n) /\ (Marks(Head(o), n) => Has(q, n)) => Led(queue'[spawned], n)
  BY <1>0, <1>1, <1>2, LineAppended
<1>6. Kept(t) \/ Led(queue'[spawned], n)
  BY <1>3, <1>4, <1>5
<1>7. Kept(t) \/ Has(queue'[spawned], n) \/ Led(shell'[g].out, n)
  BY <1>2, <1>3, <1>4, <1>5
<1>8. \A h \in Shell : h # g => Kept(t) \/ Has(queue'[spawned], n) \/ Led(shell'[h].out, n)
  BY <1>2, <1>5 DEF Follows, q
<1>9. \A h \in Shell : Traced(t, h) => Kept(t) \/ Has(queue'[spawned], n) \/ Has(shell'[h].out, n)
  <2>1. Traced(t, g) => Kept(t) \/ Has(queue'[spawned], n) \/ Has(shell'[g].out, n)
    BY <1>2, <1>4, <1>5 DEF Traced, q, o
  <2>2. \A h \in Shell : h # g /\ Traced(t, h) => Kept(t) \/ Has(queue'[spawned], n) \/ Has(shell'[h].out, n)
    BY <1>2, <1>5 DEF Traced, q
  <2>. QED BY <2>1, <2>2
<1>10. cmd'[t] = n /\ spawned' = spawned /\ pc' = pc
  OBVIOUS
<1>11. Kept(t)' \/ Led(queue'[spawned'], cmd'[t])
  BY <1>3, <1>6, <1>10
<1>12. \A h \in Shell : Kept(t)' \/ Has(queue'[spawned'], cmd'[t]) \/ Led(shell'[h].out, cmd'[t])
  BY <1>3, <1>7, <1>8, <1>10
<1>13. \A h \in Shell :
         shell'[h].input # << >> /\ Head(shell'[h].input) = Marker(cmd'[t]) =>
           Kept(t)' \/ Has(queue'[spawned'], cmd'[t]) \/ Has(shell'[h].out, cmd'[t])
  BY <1>2, <1>3, <1>9, <1>10 DEF Follows
<1>14. pc'[t] = "writeMarker" /\ shell'[spawned'].alive /\ shell'[spawned'].input = << >> =>
         Kept(t)' \/ Has(queue'[spawned'], cmd'[t]) \/ Has(shell'[spawned'].out, cmd'[t])
  BY <1>0, <1>2, <1>3, <1>9, <1>10 DEF Follows
<1>. QED BY <1>11, <1>12, <1>13, <1>14 DEF Follows, Traced

LEMMA SingleItem ==
  ASSUME NEW s \in Seq(Item), s # << >>, Tail(s) = << >>
  PROVE  Len(s) = 1
<1>. DEFINE r == Tail(s)
<1>1. Len(r) = Len(s) - 1 /\ Len(s) \in Nat /\ r \in Seq(Item)
  BY Tailed
<1>2. r = << >>
  OBVIOUS
<1>. HIDE DEF r
<1>3. Len(r) = 0
  BY <1>2
<1>. QED BY <1>1, <1>3

\* A shell that has read a command or a marker.
LEMMA WholePrinted ==
  ASSUME NEW g \in Shell, NEW t \in Thread, NEW item \in Item, NEW line \in Printed, IInv, "restart" \notin mix,
         pc[t] \in Collecting, Follows(t), PrintsAt(g, item, line),
         UNCHANGED <<queue, pc, cmd, output, spawned>>
  PROVE  Follows(t)'
<1>. DEFINE n == cmd[t]
            o == shell[g].out
            q == shell[g].input
<1>0. /\ TypeOK /\ StatusOK /\ o \in Seq(Printed) /\ q \in Seq(Item) /\ q # << >>
      /\ spawned \in Shell /\ stdin = spawned /\ item = Head(q)
  BY Typed, Numbers, Owned DEF IInv, Base, PrintsAt
<1>1. Kept(t)' <=> Kept(t)
  BY DEF Kept
<1>2. /\ shell'[g].out = Append(o, line) /\ shell'[g].input = Tail(q) /\ shell[g].alive
      /\ \A h \in Shell : h # g => shell'[h] = shell[h]
      /\ item.do = "run" => line = Out(item.of)
      /\ line.kind = "done" => item.do = "marker" /\ item.of = line.of
      /\ item.do \in {"run", "marker"}
  BY DEF PrintsAt, OnlyAt, Line, Out
<1>3. /\ \A i \in DOMAIN q :
           q[i].do = "marker" => IF i = 1 THEN Own(shell[g].status, q[i].of) ELSE Leads(q[i - 1], q[i].of)
  BY <1>0 DEF StatusOK, Sound
<1>4. pc[t] = "writeMarker" /\ g = spawned => Leads(q[Len(q)], n)
  BY <1>0, <1>2 DEF StatusOK, Ready
<1>5. /\ Kept(t) \/ Has(queue[spawned], n) \/ Led(o, n)
      /\ item = Marker(n) => Kept(t) \/ Has(queue[spawned], n) \/ Has(o, n)
  BY <1>0 DEF Follows, Traced
<1>6. Len(q) \in Nat \ {0} /\ item = q[1] /\ Tail(q) \in Seq(Item) /\ Len(Tail(q)) = Len(q) - 1
      /\ DOMAIN q = 1 .. Len(q) /\ \A i \in 1 .. Len(q) - 1 : Tail(q)[i] = q[i + 1]
  BY <1>0, Tailed
<1>. HIDE DEF q, o
<1>7. /\ Has(o, n) \/ line = Out(n) => Has(shell'[g].out, n)
      /\ Led(o, n) /\ (Marks(line, n) => Has(o, n)) => Led(shell'[g].out, n)
  BY <1>0, <1>2, LineAppended
<1>8. Marks(line, n) => item = Marker(n)
  BY <1>2, MarkerIs DEF Marks
<1>9. Leads(item, n) => Has(shell'[g].out, n)
  BY <1>2, <1>7 DEF Leads
<1>10. Kept(t) \/ Has(queue[spawned], n) \/ Led(shell'[g].out, n)
  BY <1>5, <1>7, <1>8
<1>11. Tail(q) # << >> /\ Head(Tail(q)) = Marker(n) => Has(shell'[g].out, n)
  <2>. SUFFICES ASSUME Tail(q) # << >>, Head(Tail(q)) = Marker(n) PROVE Leads(item, n)
    BY <1>9
  <2>1. Head(Tail(q)) = Tail(q)[1] /\ Len(Tail(q)) \in Nat \ {0}
    BY <1>6, Tailed
  <2>2. 2 \in DOMAIN q /\ 1 \in 1 .. Len(q) - 1
    BY <1>6, <2>1
  <2>3. q[2] = Marker(n)
    BY <1>6, <2>1, <2>2
  <2>4. q[2].do = "marker" /\ q[2].of = n
    BY <2>3 DEF Marker
  <2>5. Leads(q[2 - 1], q[2].of)
    BY <1>3, <2>2, <2>4
  <2>. QED BY <1>6, <2>4, <2>5
<1>12. pc[t] = "writeMarker" /\ g = spawned /\ Tail(q) = << >> => Has(shell'[g].out, n)
  <2>1. Tail(q) = << >> => Len(q) = 1
    BY <1>0, SingleItem
  <2>2. Tail(q) = << >> => q[Len(q)] = item
    BY <1>6, <2>1
  <2>. QED BY <1>4, <1>9, <2>2
<1>13. \A h \in Shell : Traced(t, h) => Kept(t) \/ Has(queue[spawned], n) \/ Has(shell'[h].out, n)
  BY <1>2, <1>7 DEF Traced, o
<1>14. Kept(t)' \/ Led(queue'[spawned'], cmd'[t])
  BY <1>1 DEF Follows
<1>15. \A h \in Shell : Kept(t)' \/ Has(queue'[spawned'], cmd'[t]) \/ Led(shell'[h].out, cmd'[t])
  BY <1>1, <1>2, <1>10 DEF Follows
<1>16. \A h \in Shell :
         shell'[h].input # << >> /\ Head(shell'[h].input) = Marker(cmd'[t]) =>
           Kept(t)' \/ Has(queue'[spawned'], cmd'[t]) \/ Has(shell'[h].out, cmd'[t])
  BY <1>1, <1>2, <1>11, <1>13 DEF Follows
<1>17. pc'[t] = "writeMarker" /\ shell'[spawned'].alive /\ shell'[spawned'].input = << >> =>
         Kept(t)' \/ Has(queue'[spawned'], cmd'[t]) \/ Has(shell'[spawned'].out, cmd'[t])
  <2>. SUFFICES ASSUME pc[t] = "writeMarker", shell'[spawned].alive, shell'[spawned].input = << >>
                PROVE  Kept(t) \/ Has(queue[spawned], n) \/ Has(shell'[spawned].out, n)
    BY <1>1
  <2>1. CASE spawned = g
    BY <1>2, <1>12, <2>1
  <2>2. CASE spawned # g
    BY <1>0, <1>2, <1>13, <2>2 DEF Follows
  <2>. QED BY <2>1, <2>2
<1>. QED BY <1>14, <1>15, <1>16, <1>17 DEF Follows, Traced

LEMMA WholeShell ==
  ASSUME NEW g \in Shell, NEW t \in Thread, IInv, "restart" \notin mix, Whole(t),
         ShellReads(g) \/ ShellEnds(g) \/ Read(g)
  PROVE  Whole(t)'
<1>0. TypeOK /\ Attr
  BY DEF IInv, Base
<1>1. UNCHANGED <<pc, cmd, output, result, spawned>>
  BY <1>0, ShellSources DEF history, session, return
<1>. SUFFICES ASSUME pc[t] \in Collecting, Follows(t) PROVE Follows(t)'
  BY <1>1, WholeMoved
<1>2. CASE ShellReads(g) \/ ShellEnds(g)
  <2>1. queue' = queue /\ (DiesAt(g) \/ \E item \in Item, line \in Printed : PrintsAt(g, item, line))
    BY <1>0, <1>2, ShellMoves
  <2>. QED BY <1>0, <1>1, <2>1, WholeDies, WholePrinted
<1>3. CASE Read(g)
  <2>1. PICK i \in DOMAIN shell[g].out : ReadAt(g, i)
    BY <1>0, <1>3, ReaderMoves
  <2>2. Readers(g) \subseteq {g}
    <3>1. begun \subseteq Shell /\ g # None
      BY <1>0, Numbers DEF TypeOK
    <3>. QED BY <1>0, <3>1 DEF Readers, Attr
  <2>3. Cardinality(Readers(g)) <= 1 /\ Cardinality(Readers(g)) \in Nat
    <3>1. IsFiniteSet({g}) /\ Cardinality({g}) = 1
      BY FS_Singleton
    <3>. QED BY <2>2, <3>1, FS_Subset, FS_CardinalityType
  <2>4. i = 1
    <3>1. shell[g].out \in Seq(Printed) /\ i <= Cardinality(Readers(g))
      BY <1>0, <2>1, Typed DEF ReadAt
    <3>. QED BY <2>3, <3>1
  <2>5. current = spawned
    BY Owned
  <2>. QED BY <1>0, <1>1, <2>1, <2>4, <2>5, WholeRead
<1>. QED BY <1>2, <1>3

LEMMA WholeCalled ==
  ASSUME NEW u \in Thread, NEW t \in Thread, IInv, Whole(t), Execute(u) \/ Restart(u)
  PROVE  Whole(t)'
<1>1. /\ pc[u] = "idle" /\ UNCHANGED <<shell, queue, spawned>>
      /\ \A v \in Thread : v # u =>
           pc'[v] = pc[v] /\ result'[v] = result[v] /\ cmd'[v] = cmd[v] /\ output'[v] = output[v]
      /\ pc'[u] \in {"run", "exit", "idle", "stop"} /\ result'[u].how # "code"
  BY Called DEF IInv, Base, pipes, session
<1>2. CASE t = u
  BY <1>1, <1>2, WholeOver DEF Collecting
<1>3. CASE t # u
  <2>1. Follows(t) => Follows(t)'
    BY <1>1, <1>3, FollowsKept
  <2>. QED BY <1>1, <1>3, <2>1 DEF Whole, Kept
<1>. QED BY <1>2, <1>3

WholeOK == "restart" \notin mix => \A t \in Thread : Whole(t)

LEMMA WholeNext ==
  ASSUME IInv, WholeOK, [Next]_vars
  PROVE  WholeOK'
<1>0. TypeOK
  BY DEF IInv, Base
<1>1. mix \subseteq mix'
  <2>1. \A t \in Thread : Execute(t) \/ Restart(t) \/ Step(t) => mix \subseteq mix'
    BY <1>0, Called, Moved DEF history
  <2>2. \A g \in Shell : ShellReads(g) \/ ShellEnds(g) \/ Read(g) => mix \subseteq mix'
    BY <1>0, ShellSources DEF history
  <2>. QED BY <2>1, <2>2 DEF Next, vars, history
<1>. SUFFICES ASSUME "restart" \notin mix, NEW t \in Thread, Whole(t) PROVE Whole(t)'
  BY <1>1 DEF WholeOK
<1>2. CASE UNCHANGED vars
  <2>1. UNCHANGED <<shell, queue, spawned, cmd, output, result, pc>>
    BY <1>2 DEF vars, history, pipes, session, return
  <2>2. Follows(t) => Follows(t)'
    BY <2>1, FollowsKept
  <2>. QED BY <2>1, <2>2, WholeMoved
<1>3. ASSUME NEW u \in Thread, Execute(u) \/ Restart(u) \/ Step(u) PROVE Whole(t)'
  BY <1>3, WholeCalled, WholeStep
<1>4. ASSUME NEW g \in Shell, ShellReads(g) \/ ShellEnds(g) \/ Read(g) PROVE Whole(t)'
  BY <1>4, WholeShell
<1>. QED BY <1>2, <1>3, <1>4 DEF Next

\* The output that execute() returns with an exit code has the line that its command printed:
\* it is not behind the marker, left in another queue, or drained by another call, as long as
\* nobody restarts the session from outside.  It may hold lines of older shells as well.
THEOREM OutputIsWhole == Spec => []StdoutIsWhole
<1>1. Init => WholeOK
  BY DEF Init, WholeOK, Whole, Collecting, Pending
<1>2. WholeOK => StdoutIsWhole
  BY DEF WholeOK, Whole, Kept, Out, StdoutIsWhole
<1>3. IInv /\ WholeOK /\ [Next]_vars => WholeOK'
  BY WholeNext
<1>. QED BY <1>1, <1>2, <1>3, Invariance, PTL DEF Spec
=============================================================================
