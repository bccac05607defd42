------------------------------ MODULE FifoServer ------------------------------
(***************************************************************************)
(* What the double lock of LlamaServer promises: requests are served one   *)
(* at a time in the order of their arrival; a request that waits may be    *)
(* given up, and the one being served may be cut short, but only while     *)
(* another one is waiting.                                                 *)
(***************************************************************************)
EXTENDS Naturals, SequencesExt

CONSTANTS Request, NoRequest

VARIABLES
  waiting,  \* requests that have arrived and are not yet served, in order
  active,   \* the request being served, or NoRequest
  cut       \* requests whose service was, or is being, cut short

vars == <<waiting, active, cut>>

Init ==
  /\ waiting = << >>
  /\ active = NoRequest
  /\ cut = {}

Present(r) == active = r \/ \E i \in DOMAIN waiting : waiting[i] = r

Arrive(r) ==
  /\ ~Present(r)
  /\ waiting' = Append(waiting, r)
  /\ cut' = cut \ {r}
  /\ UNCHANGED active

\* The first of the queue is served, or is refused on the spot.
Start(r) ==
  /\ active = NoRequest
  /\ waiting # << >> /\ r = Head(waiting)
  /\ waiting' = Tail(waiting)
  /\ active' \in {r, NoRequest}
  /\ UNCHANGED cut

GiveUp(r) ==
  /\ \E i \in DOMAIN waiting : waiting[i] = r /\ waiting' = RemoveAt(waiting, i)
  /\ UNCHANGED <<active, cut>>

Cut(r) ==
  /\ active = r
  /\ waiting # << >>
  /\ cut' = cut \cup {r}
  /\ UNCHANGED <<waiting, active>>

End(r) ==
  /\ active = r
  /\ active' = NoRequest
  /\ cut' \in {cut, cut \ {r}}
  /\ UNCHANGED waiting

Next == \E r \in Request : Arrive(r) \/ Start(r) \/ GiveUp(r) \/ Cut(r) \/ End(r)

Spec == Init /\ [][Next]_vars
=============================================================================
