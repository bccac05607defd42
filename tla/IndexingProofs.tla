---------------------------- MODULE IndexingProofs ----------------------------
(***************************************************************************)
(* Theorems about Indexing, for every set of documents, loader, batch size *)
(* and number of calls.                                                    *)
(***************************************************************************)
EXTENDS IndexingProps, TLAPS

------------------------------------------------------------------------------
(* The parts of the inductive invariant. *)

Types ==
  /\ faults \in Histories
  /\ clock \in Nat \ {0}
  /\ store \subseteq Doc
  /\ records \in [Doc -> [group : Sources \cup {NoSource}, at : Nat]]
  /\ args \in Args
  /\ start \in Nat /\ from \in 1 .. Len(args.load) + 1
  /\ phase \in {"idle", "batch", "add", "update", "list", "delete", "forget"}
  /\ runs \in 0 .. MaxRuns
  /\ outcome \in {"none", "done", "failed"}

IdsOK ==
  ids \subseteq (IF phase = "add" THEN Batch
                 ELSE IF phase \in {"delete", "forget"} THEN Outdated ELSE {})

\* Where the run is: past the end of the load but for incremental cleanup.
FromOK ==
  /\ phase \in {"add", "update"} => from <= Len(args.load)
  /\ phase \in {"list", "delete", "forget"} /\ args.cleanup # "incremental" => from > Len(args.load)

\* Only a clock that is set back can be before the start of the run.
ClockOK == /\ phase # "idle" => start > 0
           /\ "clock" \notin faults => start <= clock

\* What the run has written is not older than its start.
FreshOK ==
  phase # "idle" =>
    /\ \A d \in Handled : records[d].at >= start
    /\ phase \in {"list", "delete", "forget"} => \A d \in Batch : records[d].at >= start

\* What is recorded is stored, and what is about to be recorded.
StoredOK ==
  "delete" \notin faults =>
    /\ Recorded \subseteq store \cup (IF phase = "forget" THEN ids ELSE {})
    /\ phase = "add" => Batch \subseteq store \cup ids
    /\ phase = "update" => Batch \subseteq store

\* Only the documents of the batch in work may be without their group.
GroupOK ==
  faults \cap {"add", "clock"} = {} =>
    \A d \in Recorded : records[d].group = Source[d] \/ (phase \in {"add", "update"} /\ d \in Batch)

Inv == Types /\ IdsOK /\ FromOK /\ ClockOK /\ FreshOK /\ StoredOK /\ GroupOK /\ CompleteWhenDone

------------------------------------------------------------------------------
(* Batches. *)

\* The next batch begins inside the load or just behind it, and with it everything
\* before is handled.
LEMMA BatchFacts ==
  ASSUME Types
  PROVE  /\ Past \in 1 .. Len(args.load) + 1
         /\ Batch \subseteq Doc /\ Handled \subseteq Doc
         /\ Docs(1, Past - 1) = Handled \cup Batch
         /\ from > Len(args.load) => Batch = {} /\ Handled = Docs(1, Len(args.load))
<1>1. args.load \in Seq(Doc) /\ args.size \in Nat \ {0} /\ from \in 1 .. Len(args.load) + 1
  BY IndexingAssumption DEF Types, Args
<1>2. Past \in 1 .. Len(args.load) + 1 /\ (from <= Len(args.load) => from < Past)
      /\ (from > Len(args.load) => Past = from /\ from = Len(args.load) + 1)
  BY <1>1 DEF Past
<1>3. \A i \in 1 .. Len(args.load) : args.load[i] \in Doc
  BY <1>1
<1>. HIDE DEF Past
<1>4. Batch \subseteq Doc /\ Handled \subseteq Doc
  BY <1>1, <1>2, <1>3 DEF Batch, Handled, Docs
<1>5. Docs(1, Past - 1) = Handled \cup Batch
  BY <1>1, <1>2 DEF Batch, Handled, Docs
<1>6. from > Len(args.load) => Batch = {} /\ Handled = Docs(1, Len(args.load))
  BY <1>1, <1>2 DEF Batch, Handled, Docs
<1>. QED BY <1>2, <1>4, <1>5, <1>6

------------------------------------------------------------------------------
(* One lemma per action. *)

LEMMA InitInv == Init => Inv
BY IndexingAssumption DEF Init, Inv, Types, IdsOK, FromOK, ClockOK, FreshOK, StoredOK, GroupOK,
   CompleteWhenDone, Recorded, Absent

LEMMA StartInv == Inv /\ Start => Inv'
BY IndexingAssumption DEF Start, Goto, Inv, Types, IdsOK, FromOK, ClockOK, FreshOK, StoredOK, GroupOK,
   CompleteWhenDone, Recorded, stores, Docs, Handled, Args

LEMMA AddInv == Inv /\ Add => Inv'
<1>. SUFFICES ASSUME Inv, Add PROVE Inv'
  OBVIOUS
<1>. USE DEF Inv, Add, Goto, call
<1>1. Batch \subseteq Doc
  BY BatchFacts
<1>2. Types'
  BY <1>1 DEF Types, IdsOK
<1>3. Batch' = Batch /\ Handled' = Handled /\ Recorded' = Recorded
  BY DEF Batch, Handled, Docs, Past, Recorded
<1>4. IdsOK' /\ FromOK' /\ ClockOK' /\ FreshOK' /\ GroupOK' /\ CompleteWhenDone'
  BY <1>3 DEF IdsOK, FromOK, ClockOK, FreshOK, GroupOK, CompleteWhenDone
<1>5. StoredOK'
  BY <1>3 DEF StoredOK
<1>. QED BY <1>2, <1>4, <1>5

LEMMA RefreshInv == Inv /\ Refresh => Inv'
<1>. SUFFICES ASSUME Inv, Refresh PROVE Inv'
  OBVIOUS
<1>. USE DEF Inv, Refresh, Goto, call
<1>1. Batch \subseteq Doc /\ Handled \subseteq Doc
  BY BatchFacts
<1>2. Existing \subseteq Batch /\ Existing \subseteq Recorded
  BY DEF Existing
<1>3. \A d \in Doc : records'[d] = IF d \in Existing THEN [group |-> NoSource, at |-> clock] ELSE records[d]
  BY DEF Update
<1>4. Types'
  BY <1>2, <1>3 DEF Types, Update
<1>5. Batch' = Batch /\ Handled' = Handled
  BY DEF Batch, Handled, Docs, Past
<1>6. Recorded' = Recorded
  BY <1>2, <1>3 DEF Recorded, Types
<1>7. IdsOK' /\ FromOK' /\ ClockOK' /\ CompleteWhenDone'
  BY <1>5 DEF IdsOK, FromOK, ClockOK, CompleteWhenDone
<1>8. FreshOK'
  BY <1>1, <1>3, <1>5 DEF FreshOK, Update, Types
<1>9. StoredOK'
  BY <1>2, <1>5, <1>6 DEF StoredOK
<1>10. GroupOK'
  BY <1>2, <1>3, <1>5, <1>6 DEF GroupOK, Recorded
<1>. QED BY <1>4, <1>7, <1>8, <1>9, <1>10

LEMMA UpdateAllInv == Inv /\ UpdateAll => Inv'
<1>. SUFFICES ASSUME Inv, UpdateAll PROVE Inv'
  OBVIOUS
<1>. USE DEF Inv, UpdateAll, call
<1>1. /\ Past \in 1 .. Len(args.load) + 1
      /\ Batch \subseteq Doc /\ Handled \subseteq Doc
      /\ Docs(1, Past - 1) = Handled \cup Batch
  BY BatchFacts
<1>2. /\ \A d \in Batch : records'[d].group = Source[d] /\ records'[d].at = clock
      /\ \A d \in Doc \ Batch : records'[d] = records[d]
  BY <1>1 DEF Update
<1>3. Types'
  <2>1. records' \in [Doc -> [group : Sources \cup {NoSource}, at : Nat]]
    BY IndexingAssumption DEF Types, Update
  <2>. HIDE DEF Inv, UpdateAll
  <2>2. /\ faults' = faults /\ clock' = clock /\ store' = store /\ args' = args /\ start' = start
        /\ runs' = runs /\ outcome' = outcome /\ from' \in {from, Past} /\ phase' \in {"list", "batch"}
    BY DEF UpdateAll, Goto, call
  <2>. QED BY <1>1, <2>1, <2>2 DEF Inv, Types
<1>4. Recorded' = Recorded \cup Batch
  <2>1. clock # 0
    BY DEF Types
  <2>. HIDE DEF Inv, UpdateAll
  <2>. QED BY <1>1, <1>2, <2>1 DEF Recorded
<1>5. \A d \in Batch : records'[d].at >= start
  BY <1>1, <1>2 DEF Update, Types
<1>6. \A d \in Handled : records'[d].at >= start
  BY <1>1, <1>2, <1>5 DEF FreshOK
<1>7. phase' \in {"list", "batch"} /\ ids' = {} /\ store' = store /\ faults' = faults
  BY DEF Goto
<1>8. StoredOK' /\ ClockOK' /\ CompleteWhenDone' /\ IdsOK'
  BY <1>1, <1>4, <1>7 DEF StoredOK, ClockOK, CompleteWhenDone, IdsOK
<1>9. GroupOK'
  <2>1. \A d \in Recorded' : IF d \in Batch THEN records'[d].group = Source[d]
                                           ELSE d \in Recorded /\ records'[d] = records[d]
    BY <1>1, <1>2, <1>4 DEF Recorded
  <2>. QED BY <1>7, <2>1 DEF GroupOK
<1>10. FreshOK' /\ FromOK'
  <2>1. CASE args.cleanup = "incremental"
    <3>1. Batch' = Batch /\ Handled' = Handled /\ phase' = "list" /\ from' = from /\ args' = args
      BY <2>1 DEF Batch, Handled, Docs, Past, Goto
    <3>. QED BY <2>1, <3>1, <1>5, <1>6 DEF FreshOK, FromOK
  <2>2. CASE args.cleanup # "incremental"
    <3>1. from' = Past /\ phase' = "batch" /\ args' = args
      BY <2>2 DEF Goto
    <3>2. Handled' = Handled \cup Batch
      BY <1>1, <3>1 DEF Handled, Docs
    <3>. QED BY <3>1, <3>2, <1>5, <1>6 DEF FreshOK, FromOK
  <2>. QED BY <2>1, <2>2
<1>. QED BY <1>3, <1>8, <1>9, <1>10

LEMMA EndOfLoadInv == Inv /\ EndOfLoad => Inv'
<1>. SUFFICES ASSUME Inv, EndOfLoad PROVE Inv'
  OBVIOUS
<1>. USE DEF Inv, EndOfLoad, call, stores
<1>1. Batch = {} /\ Handled = Docs(1, Len(args.load)) /\ Handled \subseteq Doc
  BY BatchFacts
<1>2. Batch' = Batch /\ Handled' = Handled /\ Recorded' = Recorded
  BY DEF Batch, Handled, Docs, Past, Recorded
<1>3. Types' /\ IdsOK' /\ FromOK' /\ ClockOK' /\ StoredOK' /\ GroupOK'
  BY <1>2 DEF Types, IdsOK, FromOK, ClockOK, StoredOK, GroupOK, Goto, End
<1>4. FreshOK'
  BY <1>1, <1>2 DEF FreshOK, Goto, End
<1>5. "delete" \notin faults => Handled \subseteq store \cap Recorded
  BY <1>1 DEF FreshOK, StoredOK, ClockOK, Recorded, Types
<1>6. CompleteWhenDone'
  BY <1>1, <1>2, <1>5 DEF CompleteWhenDone, Docs, Handled, Goto, End
<1>. QED BY <1>3, <1>4, <1>6

LEMMA ListKeysInv == Inv /\ ListKeys => Inv'
<1>. SUFFICES ASSUME Inv, ListKeys PROVE Inv'
  OBVIOUS
<1>. USE DEF Inv, ListKeys, call, stores, Goto
<1>1. Batch' = Batch /\ Handled' = Handled /\ Recorded' = Recorded /\ Outdated' = Outdated
  BY DEF Batch, Handled, Docs, Past, Recorded, Outdated, InScope
<1>2. Types' /\ IdsOK' /\ FromOK' /\ ClockOK' /\ StoredOK' /\ GroupOK' /\ FreshOK' /\ CompleteWhenDone'
  BY <1>1 DEF Types, IdsOK, FromOK, ClockOK, StoredOK, GroupOK, FreshOK, CompleteWhenDone
<1>. QED BY <1>2

LEMMA NothingOutdatedInv == Inv /\ NothingOutdated => Inv'
<1>. SUFFICES ASSUME Inv, NothingOutdated PROVE Inv'
  OBVIOUS
<1>. USE DEF Inv, NothingOutdated, call, stores
<1>1. /\ Past \in 1 .. Len(args.load) + 1
      /\ Batch \subseteq Doc /\ Handled \subseteq Doc
      /\ Docs(1, Past - 1) = Handled \cup Batch
      /\ from > Len(args.load) => Batch = {} /\ Handled = Docs(1, Len(args.load))
  BY BatchFacts
<1>2. Recorded' = Recorded
  BY DEF Recorded
<1>3. Types' /\ IdsOK' /\ FromOK' /\ ClockOK' /\ StoredOK' /\ GroupOK'
  BY <1>1, <1>2 DEF Types, IdsOK, FromOK, ClockOK, StoredOK, GroupOK, Goto, End
<1>4. FreshOK' /\ CompleteWhenDone'
  <2>1. CASE args.cleanup = "incremental"
    <3>1. Handled' = Handled \cup Batch
      BY <1>1, <2>1 DEF Handled, Docs, Goto
    <3>. QED BY <2>1, <3>1 DEF FreshOK, CompleteWhenDone, Goto
  <2>2. CASE args.cleanup # "incremental"
    <3>1. Handled = Docs(1, Len(args.load))
      BY <1>1, <2>2 DEF FromOK
    <3>2. "delete" \notin faults => Handled \subseteq store \cap Recorded
      BY <1>1 DEF FreshOK, StoredOK, ClockOK, Recorded, Types
    <3>. QED BY <2>2, <1>2, <3>1, <3>2 DEF FreshOK, CompleteWhenDone, Docs, End
  <2>. QED BY <2>1, <2>2
<1>. QED BY <1>3, <1>4

LEMMA DeleteStoredInv == Inv /\ DeleteStored => Inv'
<1>. SUFFICES ASSUME Inv, DeleteStored PROVE Inv'
  OBVIOUS
<1>. USE DEF Inv, DeleteStored, call, Goto
<1>1. Batch' = Batch /\ Handled' = Handled /\ Recorded' = Recorded /\ Outdated' = Outdated
  BY DEF Batch, Handled, Docs, Past, Recorded, Outdated, InScope
<1>2. Types' /\ IdsOK' /\ FromOK' /\ ClockOK' /\ GroupOK' /\ FreshOK' /\ CompleteWhenDone'
  BY <1>1 DEF Types, IdsOK, FromOK, ClockOK, GroupOK, FreshOK, CompleteWhenDone
<1>3. StoredOK'
  BY <1>1 DEF StoredOK
<1>. QED BY <1>2, <1>3

LEMMA DeleteKeysInv == Inv /\ DeleteKeys => Inv'
<1>. SUFFICES ASSUME Inv, DeleteKeys PROVE Inv'
  OBVIOUS
<1>. USE DEF Inv, DeleteKeys, call, Goto
<1>1. Batch \subseteq Doc /\ Handled \subseteq Doc
  BY BatchFacts
<1>2. Batch' = Batch /\ Handled' = Handled
  BY DEF Batch, Handled, Docs, Past
<1>3. \A d \in Doc : records'[d] = IF d \in ids THEN Absent ELSE records[d]
  OBVIOUS
<1>4. \A d \in ids : records[d].at < start
  BY DEF IdsOK, Outdated
<1>5. Recorded' = Recorded \ ids
  BY <1>3 DEF Recorded, Absent
<1>6. Types' /\ IdsOK' /\ FromOK' /\ ClockOK' /\ CompleteWhenDone'
  BY <1>3 DEF Types, IdsOK, FromOK, ClockOK, CompleteWhenDone, Absent
<1>7. FreshOK'
  BY <1>1, <1>2, <1>3, <1>4 DEF FreshOK, Types
<1>8. StoredOK' /\ GroupOK'
  BY <1>3, <1>5 DEF StoredOK, GroupOK, Recorded
<1>. QED BY <1>6, <1>7, <1>8

LEMMA FailureInv == Inv /\ (AddRaises \/ DeleteRaises \/ Stop \/ UpdateRaises) => Inv'
<1>. SUFFICES ASSUME Inv, AddRaises \/ DeleteRaises \/ Stop \/ UpdateRaises PROVE Inv'
  OBVIOUS
<1>. USE DEF Inv, AddRaises, DeleteRaises, Stop, UpdateRaises, call, stores, End
<1>1. Batch \subseteq Doc
  BY BatchFacts
<1>2. phase' = "idle" /\ ids' = {} /\ outcome' = "failed" /\ UNCHANGED <<clock, records, from, call>>
  OBVIOUS
<1>3. Recorded' = Recorded
  BY <1>2 DEF Recorded
<1>4. Types' /\ IdsOK' /\ FromOK' /\ ClockOK' /\ FreshOK' /\ CompleteWhenDone'
  BY <1>1, <1>2 DEF Types, IdsOK, FromOK, ClockOK, FreshOK, CompleteWhenDone
<1>5. StoredOK'
  BY <1>2, <1>3 DEF StoredOK
<1>6. GroupOK'
  BY <1>2, <1>3 DEF GroupOK, ClockOK, Types
<1>. QED BY <1>4, <1>5, <1>6

LEMMA ClockBackInv == Inv /\ ClockBack => Inv'
<1>. SUFFICES ASSUME Inv, ClockBack PROVE Inv'
  OBVIOUS
<1>. USE DEF Inv, ClockBack, call
<1>1. Batch' = Batch /\ Handled' = Handled /\ Recorded' = Recorded /\ Outdated' = Outdated
  BY DEF Batch, Handled, Docs, Past, Recorded, Outdated, InScope
<1>2. Types' /\ IdsOK' /\ FromOK' /\ ClockOK' /\ GroupOK' /\ FreshOK' /\ StoredOK'
  BY <1>1 DEF Types, IdsOK, FromOK, ClockOK, GroupOK, FreshOK, StoredOK
<1>3. CompleteWhenDone'
  BY <1>1 DEF CompleteWhenDone, Docs
<1>. QED BY <1>2, <1>3

------------------------------------------------------------------------------
(* The theorems. *)

LEMMA StepInv == Inv /\ [Next]_vars => Inv'
<1>. SUFFICES ASSUME Inv, [Next]_vars PROVE Inv'
  OBVIOUS
<1>1. CASE UNCHANGED vars
  <2>1. Batch' = Batch /\ Handled' = Handled /\ Recorded' = Recorded /\ Outdated' = Outdated
    BY <1>1 DEF vars, Batch, Handled, Docs, Past, Recorded, Outdated, InScope
  <2>2. Types' /\ IdsOK' /\ FromOK' /\ ClockOK' /\ GroupOK' /\ FreshOK' /\ StoredOK'
    BY <1>1, <2>1 DEF vars, Inv, Types, IdsOK, FromOK, ClockOK, GroupOK, FreshOK, StoredOK
  <2>3. CompleteWhenDone'
    BY <1>1, <2>1 DEF vars, Inv, CompleteWhenDone, Docs
  <2>. QED BY <2>2, <2>3 DEF Inv
<1>2. CASE Next
  BY <1>2, StartInv, RefreshInv, AddInv, UpdateAllInv, EndOfLoadInv, ListKeysInv, NothingOutdatedInv,
     DeleteStoredInv, DeleteKeysInv, FailureInv, ClockBackInv DEF Next, Step
<1>. QED BY <1>1, <1>2

THEOREM Invariance == Spec => []Inv
BY InitInv, StepInv, PTL DEF Spec

\* The types of all variables, and what the ids passed to the next call are.
THEOREM IndexTypes == Spec => []TypeOK
<1>1. Inv => TypeOK
  BY DEF Inv, Types, IdsOK, TypeOK
<1>. QED BY <1>1, Invariance, PTL

\* Whatever fails outside of the deletions, a record is never without its document:
\* what the next run skips is there.
THEOREM RecordsAreStored == Spec => []RecordedIsStored
<1>1. Inv => RecordedIsStored
  BY DEF Inv, StoredOK, RecordedIsStored
<1>. QED BY <1>1, Invariance, PTL

\* A run that returned has everything of its loader stored and recorded, whatever
\* failed before except a deletion, and though the clock was set back.
THEOREM DoneIsComplete == Spec => []CompleteWhenDone
<1>1. Inv => CompleteWhenDone
  BY DEF Inv
<1>. QED BY <1>1, Invariance, PTL

\* Groups are lost by failures between a refresh and its update only.
THEOREM GroupsAreKept == Spec => []GroupsKept
<1>1. Inv => GroupsKept
  BY DEF Inv, GroupOK, GroupsKept
<1>. QED BY <1>1, Invariance, PTL

\* No cleanup deletes what its own run has written or refreshed, the batch in work
\* included, however the clock moves.
THEOREM CleanupSparesFresh == Spec => NeverDeletesFresh
<1>1. Inv /\ [Next]_vars => [phase = "delete" => store \cap (Handled \cup Batch) \subseteq store']_vars
  <2>. SUFFICES ASSUME Inv, Next, phase = "delete" PROVE store \cap (Handled \cup Batch) \subseteq store'
    OBVIOUS
  <2>1. Handled \subseteq Doc /\ Batch \subseteq Doc
    BY BatchFacts DEF Inv
  <2>2. ids \cap (Handled \cup Batch) = {}
    BY <2>1 DEF Inv, IdsOK, Outdated, FreshOK, Types
  <2>. QED BY <2>2 DEF Next, Step, Start, Refresh, Add, UpdateAll, EndOfLoad, ListKeys, NothingOutdated,
     DeleteStored, DeleteKeys, AddRaises, DeleteRaises, Stop, UpdateRaises, ClockBack, stores
<1>. QED BY <1>1, Invariance, PTL DEF Spec, NeverDeletesFresh

------------------------------------------------------------------------------
(* What cleanup leaves.  Without failures of add_documents, and with a     *)
(* clock that only goes forward, the start of a run tells its own records  *)
(* from those of all earlier runs.                                         *)

Normal == faults \cap {"add", "clock"} = {}

\* The start of the run is later than everything earlier runs have recorded.
ForwardOK ==
  /\ start <= clock /\ (phase # "idle" => start = clock)
  /\ \A d \in Doc : records[d].at <= clock

\* What is stored is recorded, or about to be.
OnlyRecorded ==
  /\ store \subseteq Recorded \cup (IF phase = "update" THEN Batch ELSE {})
  /\ phase = "forget" => store \cap ids = {}

\* What the run has written is of its load.
FreshIsLoaded ==
  phase # "idle" => \A d \in Recorded : records[d].at >= start => d \in Docs(1, Len(args.load))

\* Incremental cleanup has left nothing old of the sources it has come past.
SourcesClean ==
  phase # "idle" /\ args.cleanup = "incremental" =>
    \A d \in Recorded : records[d].at < start => records[d].group \notin {Source[e] : e \in Handled}

CleanOK ==
  Normal => ForwardOK /\ OnlyRecorded /\ FreshIsLoaded /\ SourcesClean /\ CleanWhenDone

LEMMA InitClean == Init => CleanOK
BY DEF Init, CleanOK, ForwardOK, OnlyRecorded, FreshIsLoaded, SourcesClean, CleanWhenDone, Recorded, Absent

LEMMA StartClean == Inv /\ CleanOK /\ Start => CleanOK'
<1>. SUFFICES ASSUME Inv, CleanOK, Start, Normal' PROVE CleanOK'
  BY DEF CleanOK
<1>. USE DEF Start, Goto, stores
<1>1. Normal /\ Types /\ ForwardOK /\ OnlyRecorded
  BY DEF Normal, CleanOK, Inv
<1>2. /\ Recorded' = Recorded /\ clock' = clock + 1 /\ start' = clock' /\ phase' = "batch"
      /\ store' = store /\ records' = records /\ from' = 1 /\ clock \in Nat /\ ids' = {}
  BY <1>1 DEF Recorded, Types
<1>3. \A d \in Doc : records[d].at \in Nat /\ records'[d].at < start'
  BY <1>1, <1>2 DEF Types, ForwardOK
<1>4. Handled' = {}
  BY <1>2 DEF Handled, Docs
<1>. HIDE DEF Start, Goto, stores
<1>5. ForwardOK'
  BY <1>2, <1>3 DEF ForwardOK
<1>6. OnlyRecorded'
  BY <1>1, <1>2 DEF OnlyRecorded, Start, Types
<1>7. FreshIsLoaded'
  BY <1>2, <1>3 DEF FreshIsLoaded, Recorded
<1>8. SourcesClean' /\ CleanWhenDone'
  BY <1>2, <1>4 DEF SourcesClean, CleanWhenDone
<1>. QED BY <1>5, <1>6, <1>7, <1>8 DEF CleanOK

LEMMA RefreshClean == Inv /\ CleanOK /\ Refresh => CleanOK'
<1>. SUFFICES ASSUME Inv, CleanOK, Refresh, Normal' PROVE CleanOK'
  BY DEF CleanOK
<1>1. Normal /\ Types /\ ForwardOK /\ OnlyRecorded /\ FreshIsLoaded /\ SourcesClean
  BY DEF Normal, CleanOK, Inv, Refresh, call
<1>2. /\ Batch \subseteq Doc /\ Handled \subseteq Doc
      /\ Docs(1, Past - 1) = Handled \cup Batch
      /\ Past \in 1 .. Len(args.load) + 1
  BY BatchFacts DEF Inv
<1>3. /\ clock' = clock /\ start' = start /\ store' = store /\ args' = args /\ from' = from
      /\ phase = "batch" /\ phase' = "add"
  BY DEF Refresh, Goto, call
<1>4. Existing \subseteq Batch /\ Existing \subseteq Recorded
  BY DEF Existing
<1>5. \A d \in Doc : records'[d] = IF d \in Existing THEN [group |-> NoSource, at |-> clock] ELSE records[d]
  BY DEF Update, Refresh
<1>6. Recorded' = Recorded
  BY <1>1, <1>4, <1>5 DEF Recorded, Types
<1>7. Batch' = Batch /\ Handled' = Handled
  BY <1>3 DEF Batch, Handled, Docs, Past
<1>8. Batch \subseteq Docs(1, Len(args.load))
  BY <1>1, <1>2 DEF Docs, Types
<1>9. ForwardOK'
  BY <1>1, <1>3, <1>5 DEF ForwardOK, Types
<1>10. OnlyRecorded'
  BY <1>1, <1>3, <1>6 DEF OnlyRecorded
<1>11. FreshIsLoaded'
  BY <1>1, <1>3, <1>4, <1>5, <1>6, <1>8 DEF FreshIsLoaded, Recorded, Docs
<1>12. SourcesClean'
  BY <1>1, <1>3, <1>5, <1>6, <1>7 DEF SourcesClean, ForwardOK, Types, Recorded
<1>. QED BY <1>3, <1>9, <1>10, <1>11, <1>12 DEF CleanOK, CleanWhenDone

LEMMA AddClean == Inv /\ CleanOK /\ Add => CleanOK'
<1>. SUFFICES ASSUME Inv, CleanOK, Add, Normal' PROVE CleanOK'
  BY DEF CleanOK
<1>. USE DEF Add, Goto, call
<1>1. Normal /\ ForwardOK /\ OnlyRecorded /\ FreshIsLoaded /\ SourcesClean /\ ids \subseteq Batch
  BY DEF Normal, CleanOK, Inv, IdsOK
<1>2. Recorded' = Recorded /\ Batch' = Batch /\ Handled' = Handled
  BY DEF Recorded, Batch, Handled, Docs, Past
<1>3. ForwardOK' /\ OnlyRecorded' /\ SourcesClean' /\ CleanWhenDone'
  BY <1>1, <1>2 DEF ForwardOK, OnlyRecorded, SourcesClean, CleanWhenDone
<1>4. FreshIsLoaded'
  BY <1>1, <1>2 DEF FreshIsLoaded, Docs
<1>. QED BY <1>3, <1>4 DEF CleanOK

LEMMA UpdateAllClean == Inv /\ CleanOK /\ UpdateAll => CleanOK'
<1>. SUFFICES ASSUME Inv, CleanOK, UpdateAll, Normal' PROVE CleanOK'
  BY DEF CleanOK
<1>1. Normal /\ Types /\ ForwardOK /\ OnlyRecorded /\ FreshIsLoaded /\ SourcesClean
  BY DEF Normal, CleanOK, Inv, UpdateAll, call
<1>2. /\ Batch \subseteq Doc /\ Handled \subseteq Doc
      /\ Docs(1, Past - 1) = Handled \cup Batch
      /\ Past \in 1 .. Len(args.load) + 1
  BY BatchFacts DEF Inv
<1>3. /\ clock' = clock /\ start' = start /\ store' = store /\ args' = args
      /\ phase = "update" /\ phase' \in {"list", "batch"} /\ start = clock
      /\ args.cleanup = "incremental" => from' = from
  BY <1>1 DEF UpdateAll, Goto, call, ForwardOK
<1>4. /\ \A d \in Batch : records'[d].at = clock
      /\ \A d \in Doc \ Batch : records'[d] = records[d]
  BY <1>2 DEF Update, UpdateAll
<1>5. clock \in Nat \ {0} /\ \A d \in Doc : records[d].at \in Nat
  BY <1>1 DEF Types
<1>6. Recorded' = Recorded \cup Batch
  <2>. HIDE <1>1
  <2>. QED BY <1>2, <1>4, <1>5 DEF Recorded
<1>7. Batch \subseteq Docs(1, Len(args.load)) /\ Docs(1, Len(args.load))' = Docs(1, Len(args.load))
  BY <1>1, <1>2, <1>3 DEF Docs, Types
<1>8. ForwardOK'
  BY <1>1, <1>3, <1>4, <1>5 DEF ForwardOK
<1>9. OnlyRecorded'
  BY <1>1, <1>3, <1>6 DEF OnlyRecorded
<1>10. FreshIsLoaded'
  <2>1. \A d \in Recorded' : d \in Batch \/ (d \in Recorded /\ records'[d] = records[d])
    BY <1>4, <1>6 DEF Recorded
  <2>. QED BY <1>1, <1>3, <1>7, <2>1 DEF FreshIsLoaded
<1>11. SourcesClean'
  <2>. SUFFICES ASSUME args.cleanup = "incremental", NEW d \in Recorded', records'[d].at < start
                PROVE  records'[d].group \notin {Source[e] : e \in Handled'}
    BY <1>3 DEF SourcesClean
  <2>1. Handled' = Handled
    BY <1>3 DEF Handled, Docs
  <2>2. d \in Doc /\ d \notin Batch /\ records'[d] = records[d]
    BY <1>1, <1>3, <1>4, <1>5, <1>6 DEF Recorded
  <2>. QED BY <1>1, <1>3, <1>6, <2>1, <2>2 DEF SourcesClean
<1>. QED BY <1>3, <1>8, <1>9, <1>10, <1>11 DEF CleanOK, CleanWhenDone

\* All that index() was to clean up is of its load when the run returns.
LEMMA ReturnsClean ==
  ASSUME Types, FromOK, GroupOK, Normal, ForwardOK, OnlyRecorded, FreshIsLoaded, SourcesClean,
         \/ phase = "batch" /\ args.cleanup \notin {"full"} 
              /\ ~(args.cleanup = "scoped_full" /\ Handled # {})
         \/ phase = "list" /\ args.cleanup # "incremental" /\ Outdated = {},
         from > Len(args.load)
  PROVE  (store \cup Recorded) \cap Cleaned \subseteq Docs(1, Len(args.load))
<1>1. Handled = Docs(1, Len(args.load)) /\ store \subseteq Recorded
  BY BatchFacts DEF OnlyRecorded
<1>. SUFFICES ASSUME NEW d \in Recorded, d \in Cleaned, records[d].at < start PROVE FALSE
  BY <1>1 DEF FreshIsLoaded, Types, Recorded
<1>2. args.cleanup \in Modes /\ args.load \in Seq(Doc)
  BY IndexingAssumption DEF Types, Args
<1>3. records[d].group = Source[d]
  BY DEF GroupOK, Normal
<1>4. CASE args.cleanup = "full"
  BY <1>4 DEF Outdated, InScope
<1>5. CASE args.cleanup = "none"
  BY <1>5 DEF Cleaned
<1>6. CASE args.cleanup \in {"incremental", "scoped_full"}
  <2>1. \E i \in 1 .. Len(args.load) : Source[d] = Source[args.load[i]]
    BY <1>2, <1>6 DEF Cleaned
  <2>2. Handled # {} /\ Source[d] \in {Source[e] : e \in Handled}
    BY <1>1, <2>1 DEF Docs
  <2>. QED BY <1>3, <1>6, <2>2 DEF SourcesClean, Outdated, InScope
<1>. QED BY <1>2, <1>4, <1>5, <1>6 DEF Modes

LEMMA EndOfLoadClean == Inv /\ CleanOK /\ EndOfLoad => CleanOK'
<1>. SUFFICES ASSUME Inv, CleanOK, EndOfLoad, Normal' PROVE CleanOK'
  BY DEF CleanOK
<1>1. /\ Types /\ FromOK /\ GroupOK /\ Normal
      /\ ForwardOK /\ OnlyRecorded /\ FreshIsLoaded /\ SourcesClean
  BY DEF Normal, CleanOK, Inv, EndOfLoad, call
<1>2. /\ phase = "batch" /\ from > Len(args.load) /\ phase' \in {"list", "idle"}
      /\ UNCHANGED <<clock, store, records, from, faults, args, start>>
      /\ phase' = "idle" => args.cleanup # "full" /\ ~(args.cleanup = "scoped_full" /\ Handled # {})
  BY DEF EndOfLoad, Goto, End, call, stores
<1>3. Recorded' = Recorded /\ Handled' = Handled /\ Docs(1, Len(args.load))' = Docs(1, Len(args.load))
      /\ Cleaned' = Cleaned
  BY <1>2 DEF Recorded, Handled, Docs, Cleaned
<1>4. ForwardOK' /\ OnlyRecorded' /\ FreshIsLoaded' /\ SourcesClean'
  BY <1>1, <1>2, <1>3 DEF ForwardOK, OnlyRecorded, FreshIsLoaded, SourcesClean
<1>5. CleanWhenDone'
  BY <1>1, <1>2, <1>3, ReturnsClean DEF CleanWhenDone
<1>. QED BY <1>4, <1>5 DEF CleanOK

LEMMA ListKeysClean == Inv /\ CleanOK /\ ListKeys => CleanOK'
<1>. SUFFICES ASSUME CleanOK, ListKeys PROVE CleanOK'
  OBVIOUS
<1>1. /\ phase = "list" /\ phase' = "delete"
      /\ UNCHANGED <<clock, store, records, from, faults, args, start>>
  BY DEF ListKeys, Goto, call, stores
<1>2. Recorded' = Recorded /\ Handled' = Handled /\ Docs(1, Len(args.load))' = Docs(1, Len(args.load))
  BY <1>1 DEF Recorded, Handled, Docs
<1>. QED BY <1>1, <1>2 DEF CleanOK, Normal, ForwardOK, OnlyRecorded, FreshIsLoaded, SourcesClean, CleanWhenDone

LEMMA NothingOutdatedClean == Inv /\ CleanOK /\ NothingOutdated => CleanOK'
<1>. SUFFICES ASSUME Inv, CleanOK, NothingOutdated, Normal' PROVE CleanOK'
  BY DEF CleanOK
<1>1. /\ Types /\ FromOK /\ GroupOK /\ Normal
      /\ ForwardOK /\ OnlyRecorded /\ FreshIsLoaded /\ SourcesClean
  BY DEF Normal, CleanOK, Inv, NothingOutdated, call
<1>2. /\ phase = "list" /\ Outdated = {} /\ phase' \in {"batch", "idle"}
      /\ UNCHANGED <<clock, store, records, faults, args, start>>
      /\ args.cleanup = "incremental" => phase' = "batch" /\ from' = Past
      /\ args.cleanup # "incremental" => phase' = "idle" /\ from' = from
  BY DEF NothingOutdated, Goto, End, call, stores
<1>3. Recorded' = Recorded /\ Docs(1, Len(args.load))' = Docs(1, Len(args.load)) /\ Cleaned' = Cleaned
  BY <1>2 DEF Recorded, Docs, Cleaned
<1>4. ForwardOK' /\ OnlyRecorded' /\ FreshIsLoaded'
  BY <1>1, <1>2, <1>3 DEF ForwardOK, OnlyRecorded, FreshIsLoaded
<1>5. CASE args.cleanup = "incremental"
  <2>1. Handled' = Handled \cup Batch
    BY <1>2, <1>5, BatchFacts, <1>1 DEF Handled, Docs
  <2>2. \A d \in Recorded : records[d].at < start => records[d].group \notin {Source[e] : e \in Batch}
    BY <1>2, <1>5 DEF Outdated, InScope
  <2>3. SourcesClean'
    BY <1>1, <1>2, <1>3, <1>5, <2>1, <2>2 DEF SourcesClean
  <2>. QED BY <1>2, <1>4, <1>5, <2>3 DEF CleanOK, CleanWhenDone
<1>6. CASE args.cleanup # "incremental"
  <2>1. (store \cup Recorded) \cap Cleaned \subseteq Docs(1, Len(args.load))
    BY <1>1, <1>2, <1>6, ReturnsClean DEF FromOK
  <2>. QED BY <1>2, <1>3, <1>4, <1>6, <2>1 DEF CleanOK, CleanWhenDone, SourcesClean
<1>. QED BY <1>5, <1>6

LEMMA DeleteStoredClean == Inv /\ CleanOK /\ DeleteStored => CleanOK'
<1>. SUFFICES ASSUME CleanOK, DeleteStored PROVE CleanOK'
  OBVIOUS
<1>1. /\ phase = "delete" /\ phase' = "forget" /\ store' = store \ ids /\ ids' = ids
      /\ UNCHANGED <<clock, records, from, faults, args, start>>
  BY DEF DeleteStored, Goto, call
<1>2. Recorded' = Recorded /\ Handled' = Handled /\ Docs(1, Len(args.load))' = Docs(1, Len(args.load))
  BY <1>1 DEF Recorded, Handled, Docs
<1>. QED BY <1>1, <1>2 DEF CleanOK, Normal, ForwardOK, OnlyRecorded, FreshIsLoaded, SourcesClean, CleanWhenDone

LEMMA DeleteKeysClean == Inv /\ CleanOK /\ DeleteKeys => CleanOK'
<1>. SUFFICES ASSUME Inv, CleanOK, DeleteKeys, Normal' PROVE CleanOK'
  BY DEF CleanOK
<1>1. Normal /\ Types /\ ForwardOK /\ OnlyRecorded /\ FreshIsLoaded /\ SourcesClean
  BY DEF Normal, CleanOK, Inv, DeleteKeys, call
<1>2. /\ phase = "forget" /\ phase' = "list"
      /\ UNCHANGED <<clock, store, from, faults, args, start>>
      /\ \A d \in Doc : records'[d] = IF d \in ids THEN Absent ELSE records[d]
  BY DEF DeleteKeys, Goto, call
<1>3. Recorded' = Recorded \ ids
  BY <1>2 DEF Recorded, Absent
<1>4. Handled' = Handled /\ Docs(1, Len(args.load))' = Docs(1, Len(args.load))
  BY <1>2 DEF Handled, Docs
<1>5. ForwardOK'
  BY <1>1, <1>2 DEF ForwardOK, Absent, Types
<1>6. OnlyRecorded'
  BY <1>1, <1>2, <1>3 DEF OnlyRecorded
<1>7. \A d \in Recorded' : d \in Recorded /\ records'[d] = records[d]
  BY <1>2, <1>3 DEF Recorded
<1>8. FreshIsLoaded' /\ SourcesClean'
  BY <1>1, <1>2, <1>4, <1>7 DEF FreshIsLoaded, SourcesClean
<1>. QED BY <1>2, <1>5, <1>6, <1>8 DEF CleanOK, CleanWhenDone

LEMMA FailureClean == Inv /\ CleanOK /\ (AddRaises \/ DeleteRaises \/ Stop \/ UpdateRaises) => CleanOK'
<1>. SUFFICES ASSUME Inv, CleanOK, AddRaises \/ DeleteRaises \/ Stop \/ UpdateRaises, Normal' PROVE CleanOK'
  BY DEF CleanOK
<1>. USE DEF AddRaises, DeleteRaises, Stop, UpdateRaises, call, stores, End
<1>1. /\ phase' = "idle" /\ outcome' = "failed"
      /\ UNCHANGED <<clock, records, faults, args, start>>
  OBVIOUS
<1>2. Normal /\ Types /\ ForwardOK /\ OnlyRecorded /\ Recorded' = Recorded
  BY <1>1 DEF Normal, CleanOK, Inv, Recorded
<1>3. phase # "update"
  BY <1>2 DEF Normal, ForwardOK, Types
<1>4. store' \subseteq store
  BY <1>2 DEF Normal
<1>. HIDE DEF AddRaises, DeleteRaises, Stop, UpdateRaises, call, stores, End
<1>. QED BY <1>1, <1>2, <1>3, <1>4
        DEF CleanOK, ForwardOK, OnlyRecorded, FreshIsLoaded, SourcesClean, CleanWhenDone

LEMMA StepClean == Inv /\ CleanOK /\ [Next]_vars => CleanOK'
<1>. SUFFICES ASSUME Inv, CleanOK, [Next]_vars PROVE CleanOK'
  OBVIOUS
<1>1. CASE UNCHANGED vars
  <2>1. /\ Batch' = Batch /\ Handled' = Handled /\ Recorded' = Recorded /\ Cleaned' = Cleaned
        /\ Docs(1, Len(args.load))' = Docs(1, Len(args.load))
    BY <1>1 DEF vars, Batch, Handled, Docs, Past, Recorded, Cleaned
  <2>. QED BY <1>1, <2>1 DEF vars, CleanOK, Normal, ForwardOK, OnlyRecorded, FreshIsLoaded, SourcesClean,
       CleanWhenDone
<1>2. CASE ClockBack
  BY <1>2 DEF ClockBack, CleanOK, Normal, call
<1>3. CASE Start \/ Step
  BY <1>3, StartClean, RefreshClean, AddClean, UpdateAllClean, EndOfLoadClean, ListKeysClean,
     NothingOutdatedClean, DeleteStoredClean, DeleteKeysClean, FailureClean DEF Step
<1>. QED BY <1>1, <1>2, <1>3 DEF Next

\* A run that returned has left nothing of the sources it cleans but what its loader
\* gave, whatever earlier deletions failed and however the load was split in batches.
THEOREM DoneIsClean == Spec => []CleanWhenDone
<1>1. Init => Inv /\ CleanOK
  BY InitInv, InitClean
<1>2. Inv /\ CleanOK /\ [Next]_vars => (Inv /\ CleanOK)'
  BY StepInv, StepClean
<1>3. Inv /\ CleanOK => CleanWhenDone
  BY DEF Inv, CleanOK, Normal, CleanWhenDone
<1>. QED BY <1>1, <1>2, <1>3, PTL DEF Spec
=============================================================================
