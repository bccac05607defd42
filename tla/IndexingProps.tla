---------------------------- MODULE IndexingProps ----------------------------
(***************************************************************************)
(* What is checked of Indexing.                                            *)
(***************************************************************************)
EXTENDS Indexing

\* Types, and what each phase of index() has found out: the documents to add have no
\* record or are to be updated, those to delete are outdated.
TypeOK ==
  /\ faults \in Histories
  /\ clock \in Nat \ {0}
  /\ store \subseteq Doc
  /\ records \in [Doc -> [group : Sources \cup {NoSource}, at : Nat]]
  /\ args \in Args
  /\ start \in Nat /\ from \in 1 .. Len(args.load) + 1
  /\ phase \in {"idle", "batch", "add", "update", "list", "delete", "forget"}
  /\ ids \subseteq (IF phase = "add" THEN Batch
                    ELSE IF phase \in {"delete", "forget"} THEN Outdated ELSE {})
  /\ runs \in 0 .. MaxRuns
  /\ outcome \in {"none", "done", "failed"}

------------------------------------------------------------------------------

\* A record promises that the document is in the vector store: index() adds nothing
\* that has one.  Whatever call fails, and wherever the process ends, except between
\* the two deletions.
RecordedIsStored ==
  "delete" \notin faults =>
    Recorded \subseteq store \cup (IF phase = "forget" THEN ids ELSE {})

\* After a run that returned, every document of the loader is in the store, and has a
\* record: also those that incremental cleanup deleted because an earlier batch had
\* the same source ("this will still result in the correct end state"), and though the
\* clock may have been set back.  (After a failed deletion a record may be without its
\* document, and a later run skips it.)
CompleteWhenDone ==
  outcome = "done" /\ phase = "idle" /\ "delete" \notin faults =>
    Docs(1, Len(args.load)) \subseteq store \cap Recorded

\* The documents whose source the last run was to clean up.
Cleaned ==
  CASE args.cleanup = "none" -> {}
    [] args.cleanup = "full" -> Doc
    [] OTHER -> {d \in Doc : \E i \in DOMAIN args.load : Source[d] = Source[args.load[i]]}

\* After a run that returned nothing of those sources is left but what the loader
\* gave, neither in the store nor in the records, though earlier runs failed in the
\* middle of a deletion.  (After a failed add_documents groups are lost and documents
\* are stored without a record, and a clock that was set back makes old records new.)
CleanWhenDone ==
  outcome = "done" /\ phase = "idle" /\ faults \cap {"add", "clock"} = {} =>
    (store \cup Recorded) \cap Cleaned \subseteq Docs(1, Len(args.load))

\* Cleanup never takes out what the same run has written or refreshed, in the batch in
\* work or before, though the clock may be set back in the middle of it.
NeverDeletesFresh ==
  [][ phase = "delete" => store \cap (Handled \cup Batch) \subseteq store' ]_vars

\* A record without its group is one that incremental cleanup does not find: between
\* two runs every record has the group of its source, unless a call failed between the
\* refresh of a record and its update.
GroupsKept ==
  phase = "idle" /\ faults \cap {"add", "clock"} = {} => \A d \in Recorded : records[d].group = Source[d]

\* The loops over what is outdated end: a call of index() returns or raises.
EveryRunEnds == phase # "idle" ~> phase = "idle"
=============================================================================
