------------------------------ MODULE Indexing ------------------------------
(***************************************************************************)
(* index() of langchain_core/indexing/api.py: documents of a loader go to  *)
(* a vector store, and a record manager (SQLRecordManager, which outlives  *)
(* the process) remembers which, under which source, and when.  One call   *)
(* at a time; it may fail between two calls to the stores, and index() be  *)
(* called again when the loader has another content, with other arguments. *)
(* A document stands for its hash; all calls use the same source_id_key.   *)
(***************************************************************************)
EXTENDS Integers, Sequences, FiniteSets

CONSTANTS
  Doc,           \* documents, by their hash
  Sources,       \* values of source_id_key
  Source,        \* the source of each document
  NoSource,      \* a group_id that is None
  Loads,         \* what the loader may return, in order, duplicates included
  BatchSizes,    \* values of batch_size
  CleanupBatch,  \* cleanup_batch_size
  Histories,     \* what may go wrong in a history: sets of "add", "delete", "clock"
  MaxRuns        \* most calls of index()

Modes == {"none", "incremental", "full", "scoped_full"}

ASSUME IndexingAssumption ==
  /\ IsFiniteSet(Doc)
  /\ Source \in [Doc -> Sources] /\ NoSource \notin Sources
  /\ Loads \subseteq Seq(Doc)
  /\ BatchSizes \subseteq Nat \ {0} /\ CleanupBatch \in Nat \ {0}
  /\ Histories \subseteq SUBSET {"add", "delete", "clock"}
  /\ MaxRuns \in Nat

VARIABLES
  faults,     \* what may go wrong in this history
  clock,      \* the clock of the record manager's database
  store,      \* the documents of the vector store
  records,    \* group_id and updated_at of each document; at 0: no record
  args,       \* what the loader returns, batch_size, cleanup and force_update
  start,      \* index_start_dt
  from,       \* where the batch in work begins
  phase,      \* the call that comes next; "idle": index() is not running
  ids,        \* the documents it is given: docs_to_index or uids_to_delete
  runs,       \* calls of index() so far
  outcome     \* how the last one ended

stores == <<store, records>>
call   == <<faults, args, start, runs>>
vars   == <<faults, clock, store, records, args, start, from, phase, ids, runs, outcome>>

Absent   == [group |-> NoSource, at |-> 0]
Recorded == {d \in Doc : records[d].at # 0}

Args == [load : Loads, size : BatchSizes, cleanup : Modes, force : BOOLEAN]

Docs(first, last) == {args.load[i] : i \in first .. last}

\* A batch of _batch, after _deduplicate_in_order, and what came before it.
Past    == IF from + args.size <= Len(args.load) THEN from + args.size ELSE Len(args.load) + 1
Batch   == Docs(from, Past - 1)
Handled == Docs(1, from - 1)

------------------------------------------------------------------------------

Init ==
  /\ faults \in Histories
  /\ clock = 1
  /\ store = {} /\ records = [d \in Doc |-> Absent]
  /\ args \in Args
  /\ start = 0 /\ from = 1 /\ phase = "idle" /\ ids = {} /\ runs = 0 /\ outcome = "none"

Goto(p, docs) == phase' = p /\ ids' = docs /\ UNCHANGED outcome

End(how) == phase' = "idle" /\ ids' = {} /\ outcome' = how

\* index() is called; between two calls time passes.
Start ==
  /\ phase = "idle" /\ runs < MaxRuns
  /\ args' \in Args
  /\ clock' = clock + 1 /\ start' = clock'
  /\ from' = 1 /\ runs' = runs + 1
  /\ Goto("batch", {})
  /\ UNCHANGED <<faults, stores>>

\* update() with time_at_least, where it does not raise: one reading of the clock is
\* compared, and then stored for all keys in one transaction.
Update_AnyTime(docs, group) ==
  records' = [d \in Doc |-> IF d \in docs THEN [group |-> group[d], at |-> clock] ELSE records[d]]

Update(docs, group) ==
  /\ docs # {} => start <= clock
  /\ records' = [d \in Doc |-> IF d \in docs THEN [group |-> group[d], at |-> clock] ELSE records[d]]

\* The documents of the batch that exists() finds, unless all are to be updated.
Existing == IF args.force THEN {} ELSE Batch \cap Recorded

Refresh_RecordsFirst ==
  /\ phase = "batch" /\ from <= Len(args.load)
  /\ Update(Batch, Source)
  /\ Goto("add", Batch \ Existing)
  /\ UNCHANGED <<clock, store, from, call>>

\* The next batch: what exists is refreshed, and its group becomes None.
Refresh ==
  /\ phase = "batch" /\ from <= Len(args.load)
  /\ Update(Existing, [d \in Doc |-> NoSource])
  /\ Goto("add", Batch \ Existing)
  /\ UNCHANGED <<clock, store, from, call>>

\* add_documents or upsert
Add ==
  /\ phase = "add"
  /\ store' = store \cup ids
  /\ Goto("update", {})
  /\ UNCHANGED <<clock, records, from, call>>

UpdateAll_NewOnly ==
  /\ phase = "update"
  /\ Update(Batch \ Existing, Source)
  /\ IF args.cleanup = "incremental"
       THEN Goto("list", {}) /\ UNCHANGED from
       ELSE Goto("batch", {}) /\ from' = Past
  /\ UNCHANGED <<clock, store, call>>

\* All records of the batch; then incremental cleanup, or the next batch.
UpdateAll ==
  /\ phase = "update"
  /\ Update(Batch, Source)
  /\ IF args.cleanup = "incremental"
       THEN Goto("list", {}) /\ UNCHANGED from
       ELSE Goto("batch", {}) /\ from' = Past
  /\ UNCHANGED <<clock, store, call>>

\* The loader has no more batches.
EndOfLoad ==
  /\ phase = "batch" /\ from > Len(args.load)
  /\ IF args.cleanup = "full" \/ (args.cleanup = "scoped_full" /\ Handled # {})
       THEN Goto("list", {})
       ELSE End("done")
  /\ UNCHANGED <<clock, stores, from, call>>

\* What list_keys is asked for: the keys of these groups not updated since the start.
InScope(d) ==
  CASE args.cleanup = "full"        -> TRUE
    [] args.cleanup = "incremental" -> records[d].group \in {Source[e] : e \in Batch}
    [] OTHER                        -> records[d].group \in {Source[e] : e \in Handled}

Outdated_Refreshed == {d \in Recorded : records[d].at <= start /\ InScope(d)}

Outdated == {d \in Recorded : records[d].at < start /\ InScope(d)}

\* The while loop: at most CleanupBatch keys at a time ...
ListKeys ==
  /\ phase = "list" /\ Outdated # {}
  /\ \E docs \in SUBSET Outdated :
       /\ Cardinality(docs) = CleanupBatch \/ (docs = Outdated /\ Cardinality(docs) < CleanupBatch)
       /\ Goto("delete", docs)
  /\ UNCHANGED <<clock, stores, from, call>>

\* ... until there are none: on to the next batch, or done.
NothingOutdated ==
  /\ phase = "list" /\ Outdated = {}
  /\ IF args.cleanup = "incremental"
       THEN Goto("batch", {}) /\ from' = Past
       ELSE End("done") /\ UNCHANGED from
  /\ UNCHANGED <<clock, stores, call>>

\* _delete on the vector store, then delete_keys on the record manager.
DeleteStored ==
  /\ phase = "delete"
  /\ store' = store \ ids
  /\ Goto("forget", ids)
  /\ UNCHANGED <<clock, records, from, call>>

DeleteKeys_Once ==
  /\ phase = "forget"
  /\ records' = [d \in Doc |-> IF d \in ids THEN Absent ELSE records[d]]
  /\ IF args.cleanup = "incremental"
       THEN Goto("batch", {}) /\ from' = Past
       ELSE End("done") /\ UNCHANGED from
  /\ UNCHANGED <<clock, store, call>>

DeleteKeys_Never ==
  /\ phase = "forget"
  /\ Goto("list", {})
  /\ UNCHANGED <<clock, stores, from, call>>

DeleteKeys ==
  /\ phase = "forget"
  /\ records' = [d \in Doc |-> IF d \in ids THEN Absent ELSE records[d]]
  /\ Goto("list", {})
  /\ UNCHANGED <<clock, store, from, call>>

------------------------------------------------------------------------------
(* Failures.  Those of the other calls leave the stores as they were. *)

\* add_documents raises, some of the documents are stored.
AddRaises ==
  /\ phase = "add" /\ ids # {} /\ "add" \in faults
  /\ \E part \in SUBSET ids : store' = store \cup part
  /\ End("failed")
  /\ UNCHANGED <<clock, records, from, call>>

\* _delete raises, some of the documents are deleted.
DeleteRaises ==
  /\ phase = "delete" /\ "delete" \in faults
  /\ \E part \in SUBSET ids : store' = store \ part
  /\ End("failed")
  /\ UNCHANGED <<clock, records, from, call>>

\* The loader raises, or the process ends between two calls.
Stop ==
  /\ phase # "idle"
  /\ phase \in {"add", "update"} => "add" \in faults
  /\ phase = "forget" => "delete" \in faults
  /\ End("failed")
  /\ UNCHANGED <<clock, stores, from, call>>

\* update() finds that the clock is before the start of the run.
UpdateRaises ==
  /\ \/ phase = "batch" /\ from <= Len(args.load) /\ Existing # {}
     \/ phase = "update"
  /\ clock < start
  /\ End("failed")
  /\ UNCHANGED <<clock, stores, from, call>>

\* The clock is set back, while index() runs or between two calls.
ClockBack ==
  /\ "clock" \in faults /\ clock > 1
  /\ clock' = clock - 1
  /\ UNCHANGED <<store, records, from, phase, ids, outcome, call>>

------------------------------------------------------------------------------

Step ==
  \/ Refresh \/ Add \/ UpdateAll \/ EndOfLoad
  \/ ListKeys \/ NothingOutdated \/ DeleteStored \/ DeleteKeys
  \/ AddRaises \/ DeleteRaises \/ Stop \/ UpdateRaises

Next == Start \/ Step \/ ClockBack

Spec == Init /\ [][Next]_vars

\* A call of index() goes on until it returns or raises.
FairSpec == Spec /\ WF_vars(Step)
=============================================================================
